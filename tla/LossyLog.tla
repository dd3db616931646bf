------------------------------ MODULE LossyLog ------------------------------
(***************************************************************************)
(* What the ring of ring_buffer.h promises, without slots, headers or      *)
(* bytes: a log of fragments that only grows, of which the last Depth are  *)
(* retained, and readers that are handed whole fragments of it in order.   *)
(*                                                                         *)
(* Positions are told apart only modulo SnMod: a reader that the writer   *)
(* has left more than SnMod fragments behind may be handed anything.       *)
(***************************************************************************)
EXTENDS Integers, Sequences

CONSTANTS
  Readers,
  Depth,   \* fragments retained
  SnMod    \* fragments with distinct sequence numbers

VARIABLES
  log,     \* the fragments published
  got      \* what each reader was handed

Init == log = <<>> /\ got = [r \in Readers |-> <<>>]

\* One fragment more, none of the others changed.
Publish ==
  /\ Len(log') = Len(log) + 1
  /\ \A k \in 1 .. Len(log) : log'[k] = log[k]
  /\ UNCHANGED got

\* The position of the fragment after the last one r was handed.
Following(r) == Len(got[r]) + 1

\* Reader r is handed the next fragment, which is still retained.
Deliver(r) ==
  /\ Following(r) <= Len(log)
  /\ Len(log) < Following(r) + Depth
  /\ got' = [got EXCEPT ![r] = Append(@, log[Following(r)])]
  /\ UNCHANGED log

\* Reader r is a cycle of sequence numbers behind and handed something else.
Mistake(r) ==
  /\ Len(log) >= Following(r) + SnMod
  /\ Len(got'[r]) = Following(r)
  /\ got' = [got EXCEPT ![r] = Append(@, got'[r][Following(r)])]
  /\ UNCHANGED log

Next ==
  \/ Publish
  \/ \E r \in Readers : Deliver(r) \/ Mistake(r)

Spec == Init /\ [][Next]_<<log, got>>
=============================================================================
