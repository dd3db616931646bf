----------------------------- MODULE MCOldBroker ----------------------------
(***************************************************************************)
(* Model checking of OldBroker.                                            *)
(***************************************************************************)
EXTENDS OldBroker

\* Every filter accepts every topic;
AllMatch == {Producers \X Consumers}

\* or each filter accepts some of them.
AnyMatch == SUBSET (Producers \X Consumers)
=============================================================================
