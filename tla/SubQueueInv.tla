---------------------------- MODULE SubQueueInv -----------------------------
(***************************************************************************)
(* The inductive invariant of the counters of a ConcurrentQueue's          *)
(* producer: what consumers have counted themselves in for, what they have *)
(* been granted, and why that never exceeds the tail.                      *)
(***************************************************************************)
EXTENDS SubQueue

ASSUME CountersAssumption ==
  IsFiniteSet(Consumers) /\ DequeueMaxima \subseteq Nat
  /\ ExplicitMaxBulk \in Nat /\ ImplicitMaxBulk \in Nat

\* The sum of w over the consumers.
Total(w) == Cardinality(UNION {{c} \X (1 .. w[c]) : c \in Consumers})

\* What the calls k have counted themselves in for and neither given back nor claimed.
Outstanding(k) == [c \in Consumers |->
  IF k[c].pc \in {"check", "giveback"} THEN k[c].desired
  ELSE IF k[c].pc = "claim" THEN k[c].last ELSE 0]

\* What they may still claim: as much as they were granted, or, while they have not
\* looked at the tail yet, all they want.  Of the latter only those that counted before n.
MayClaim(k, n) == [c \in Consumers |->
  IF k[c].pc \in {"giveback", "claim"} THEN k[c].last
  ELSE IF k[c].pc = "check" /\ k[c].mine < n THEN k[c].desired ELSE 0]

\* A call, when `given` elements were given back and `counted` were counted.
CallInv(k, c, given, counted) ==
  LET me == k[c] IN
  /\ DOMAIN me = DOMAIN ConsumerIdle
  /\ me.pc \in {"count", "check", "giveback", "claim"} =>
       /\ me.overcommit \in 0 .. given /\ me.desired \in Nat
       /\ me.pc # "count" => me.desired <= counted
  /\ me.pc = "check" =>
       /\ me.mine \in Nat /\ me.mine + me.desired <= counted
       /\ \A d \in Consumers \ {c} :
            k[d].pc = "check" /\ k[d].mine = me.mine => 0 \in {k[d].desired, me.desired}
  /\ me.pc \in {"giveback", "claim"} => me.last \in 0 .. me.desired

\* In the order in which calls counted: up to some call n all together stay below the
\* tail; a later one that has not looked yet has no more before it than it thinks.
Granted(k, n, head, tail) ==
  /\ head + Total(MayClaim(k, n)) <= tail
  /\ \A c \in Consumers : k[c].pc = "check" /\ k[c].mine >= n =>
       head + Total(MayClaim(k, k[c].mine)) <= k[c].mine - k[c].overcommit

CountersOK(k, head, tail, given, counted) ==
  /\ head \in Nat /\ tail \in Nat /\ given \in Nat /\ counted \in Nat
  /\ DOMAIN k = Consumers /\ \A c \in Consumers : CallInv(k, c, given, counted)
  /\ counted = given + head + Total(Outstanding(k))
  /\ \E n \in 0 .. counted : Granted(k, n, head, tail)

CountersIInv ==
  /\ DOMAIN producer = DOMAIN ProducerIdle /\ producer.count \in Nat
  /\ CountersOK(consumer, headIndex, tailIndex, dequeueOvercommit, dequeueOptimisticCount)
=============================================================================
