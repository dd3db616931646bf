-------------------------------- MODULE Fifo --------------------------------
(***************************************************************************)
(* What every queue of this repository promises, whatever it is made of:   *)
(* elements leave in the order in which they entered, each of them once,   *)
(* and no more than Capacity are inside.  `sent` is everything that was    *)
(* ever accepted, `queue` what is still inside.                            *)
(***************************************************************************)
EXTENDS Naturals, Sequences

CONSTANT Capacity

VARIABLES sent, queue

Init == sent = <<>> /\ queue = <<>>

\* Some elements enter at the back.
Put ==
  LET before == queue
      after == queue'
  IN /\ Len(before) < Len(after) /\ Len(after) <= Capacity
     /\ SubSeq(after, 1, Len(before)) = before
     /\ sent' = sent \o SubSeq(after, Len(before) + 1, Len(after))

\* Some elements leave from the front.
Take ==
  LET before == queue
      after == queue'
  IN /\ Len(after) < Len(before)
     /\ after = SubSeq(before, Len(before) - Len(after) + 1, Len(before))
     /\ sent' = sent

Next == Put \/ Take

Spec == Init /\ [][Next]_<<sent, queue>>
=============================================================================
