---------------------------- MODULE RotationInv -----------------------------
(***************************************************************************)
(* The inductive invariant of ConsumerRotation.                            *)
(***************************************************************************)
EXTENDS ConsumerRotation

\* 256 in the code.
ASSUME RotationAssumption == QUOTA \in Nat /\ QUOTA > 1 /\ MaxBulk \in Nat

TokenPhases == {"token", "update", "count", "rotate", "current", "ring", "advance"}
CallPhases == {"idle", "score", "walk"} \cup TokenPhases
Kinds == {"none", "try_dequeue", "non_interleaved", "bulk", "token", "token_bulk"}

Calls ==
  [at : CallPhases, kind : Kinds, max : Nat, need : Nat, ptr : Nat, tail : Nat,
   count : Nat, best : Nat, bestSize : Nat, nonEmpty : Nat,
   listed : Nat, exhausted : SUBSET Nat, tries : Nat, missed : SUBSET Nat]
Tokens ==
  [id : Nat \cup {-1}, lastKnown : Nat \cup {-1}, items : Nat, current : Nat, desired : Nat,
   single : BOOLEAN, length : Nat \cup {-1}]

\* The types of the variables.
RotationTypes ==
  /\ tail \in Nat /\ linking \in Nat /\ globalOffset \in Nat /\ nextId \in Nat
  /\ call \in [Callers -> Calls] /\ token \in [Callers -> Tokens]

\* Without a token, from the top of the list down to ptr: all were asked that were
\* listed, or, while the best is looked for and none has anything yet, looked at.
ScoreOK(me, t) ==
  /\ me.max = 1 /\ me.need = 1 /\ me.tries = 0 /\ me.ptr <= me.listed
  /\ IF me.nonEmpty = 0 THEN me.bestSize = 0 /\ (me.ptr + 1 .. me.listed) \subseteq me.exhausted
     ELSE me.best \in 1 .. t

\* The best one, asked first, is passed over.
WalkOK(me, t) ==
  /\ me.need > 0 /\ me.ptr <= t /\ (me.ptr + 1 .. me.listed) \subseteq me.exhausted
  /\ IF me.best = nullptr THEN me.tries <= t - me.ptr
     ELSE /\ me.best <= t /\ me.best \in me.exhausted
          /\ me.tries <= (t - me.ptr) + (IF me.ptr < me.best THEN 0 ELSE 1)

\* How far a round has come from p, where the last element was found, down to q.
Gone(p, q, t) == IF q < p THEN p - q ELSE (p - q) + t
Passed(p, q, t) == IF q < p THEN q + 1 .. p ELSE (1 .. p) \cup (q + 1 .. t)

\* Round the list, from the token's producer.
RingOK(me, its, t) ==
  /\ me.need \in 1 .. me.max
  /\ me.tail <= t /\ me.listed <= me.tail
  /\ its.current \in 1 .. me.tail /\ me.ptr \in 1 .. me.tail
  /\ Passed(its.current, me.ptr, me.tail) \subseteq me.exhausted
  /\ me.tries <= (me.max - me.need) * me.tail + Gone(its.current, me.ptr, me.tail)

\* A call, with the token its of the caller, when the tail is t.
CallOK(me, its, t) ==
  /\ me.listed <= t /\ me.missed = {}
  /\ me.at = "idle" => me.tries = 0
  /\ me.at # "idle" => me.max > 0
  /\ me.at = "score" => ScoreOK(me, t)
  /\ me.at = "walk" => WalkOK(me, t)
  /\ me.at \in {"token", "update", "count", "rotate", "current"} => me.need = me.max /\ me.tries = 0
  /\ me.at \in {"count", "rotate"} => me.tail \in 1 .. t /\ its.desired <= me.tail
  /\ me.at = "rotate" => me.count >= me.tail
  /\ me.at \in {"current", "ring", "advance"} => its.desired # nullptr
  /\ me.at = "advance" => me.tries = 1
  /\ me.at = "ring" => RingOK(me, its, t)
  /\ me.at \in TokenPhases => its.id # -1 /\ (me.max = 1 => me.kind = "token")
  /\ me.at \in TokenPhases /\ its.single => me.max = 1

\* A token: its place follows from its id and the offset it knows, and at its quota the
\* offset it knows is not the last.
TokenOK(its, at, t, offset) ==
  /\ its.lastKnown <= offset
  /\ IF its.desired = nullptr THEN its.lastKnown = -1 /\ its.length = 0 /\ its.items = 0
     ELSE its.lastKnown >= 0 /\ its.desired <= t /\ its.current \in 1 .. t /\ its.length # 0
  /\ its.length > 0 => /\ its.length <= t /\ its.id # -1
                       /\ its.desired = ((its.id - its.lastKnown - 1) % its.length) + 1
  /\ its.single => /\ its.items <= QUOTA
                   /\ its.items = QUOTA => its.lastKnown # offset \/ at = "advance"
                   /\ at \in {"current", "ring"} => its.items < QUOTA

RotationIInv ==
  /\ RotationTypes
  /\ \A c \in Callers : /\ CallOK(call[c], token[c], tail)
                        /\ TokenOK(token[c], call[c].at, tail, globalOffset)
=============================================================================
