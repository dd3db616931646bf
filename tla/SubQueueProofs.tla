--------------------------- MODULE SubQueueProofs ---------------------------
(***************************************************************************)
(* Proof that consumers never claim more elements than there are, and that *)
(* their counters agree once they have all returned.                       *)
(***************************************************************************)
EXTENDS SubQueueInv, FiniteSetTheorems, TLAPS

(* Sums over the consumers *)

\* The units that Total counts.
Units(w) == UNION {{c} \X (1 .. w[c]) : c \in Consumers}

\* The units of a bounded weight are finitely many.
LEMMA UnitsFinite ==
  ASSUME NEW M \in Nat, NEW w \in [Consumers -> 0 .. M]
  PROVE  IsFiniteSet(Units(w)) /\ Cardinality(Units(w)) \in Nat
<1>1. IsFiniteSet(1 .. M)
  BY FS_Interval
<1>2. IsFiniteSet(Consumers \X (1 .. M))
  BY <1>1, CountersAssumption, FS_Product
<1>3. ASSUME NEW u \in Units(w) PROVE u \in Consumers \X (1 .. M)
  <2>1. PICK c \in Consumers : u \in {c} \X (1 .. w[c])
    BY DEF Units
  <2>2. w[c] \in 0 .. M
    OBVIOUS
  <2> QED BY <2>1, <2>2
<1>4. IsFiniteSet(Units(w))
  BY <1>2, <1>3, FS_Subset
<1> QED BY <1>4, FS_CardinalityType

\* A sum is a number.
LEMMA TotalType ==
  ASSUME NEW M \in Nat, NEW w \in [Consumers -> 0 .. M]
  PROVE  Total(w) \in Nat
BY UnitsFinite DEF Total, Units

\* The units of one consumer.
LEMMA OwnUnits ==
  ASSUME NEW c, NEW n \in Nat
  PROVE  IsFiniteSet({c} \X (1 .. n)) /\ Cardinality({c} \X (1 .. n)) = n
<1>1. IsFiniteSet({c}) /\ Cardinality({c}) = 1
  BY FS_Singleton
<1>2. IsFiniteSet(1 .. n) /\ Cardinality(1 .. n) = n
  BY FS_Interval
<1>3. /\ IsFiniteSet({c} \X (1 .. n))
      /\ Cardinality({c} \X (1 .. n)) = Cardinality({c}) * Cardinality(1 .. n)
  BY <1>1, <1>2, FS_Product
<1> QED BY <1>1, <1>2, <1>3

\* One consumer's share, and that of the others.
LEMMA TotalSplit ==
  ASSUME NEW M \in Nat, NEW w \in [Consumers -> 0 .. M], NEW c \in Consumers
  PROVE  Total(w) = Cardinality(UNION {{d} \X (1 .. w[d]) : d \in Consumers \ {c}}) + w[c]
<1> DEFINE R == UNION {{d} \X (1 .. w[d]) : d \in Consumers \ {c}}
           O == {c} \X (1 .. w[c])
<1>1. Units(w) = R \cup O
  BY DEF Units
<1>2. R \cap O = {}
  <2>1. ASSUME NEW u \in R, u \in O PROVE FALSE
    <3>1. PICK d \in Consumers \ {c} : u \in {d} \X (1 .. w[d])
      OBVIOUS
    <3> QED BY <2>1, <3>1
  <2> QED BY <2>1
<1>3. w[c] \in Nat
  OBVIOUS
<1>4. IsFiniteSet(O) /\ Cardinality(O) = w[c]
  BY <1>3, OwnUnits
<1>5. IsFiniteSet(R)
  <2>1. R \in SUBSET Units(w)
    BY <1>1
  <2> QED BY <2>1, UnitsFinite, FS_Subset
<1>6. Cardinality(R \cup O) = Cardinality(R) + Cardinality(O) - Cardinality(R \cap O)
  BY <1>4, <1>5, FS_Union
<1>7. Cardinality(R) \in Nat
  BY <1>5, FS_CardinalityType
<1> HIDE DEF R, O
<1>8. Cardinality(R \cap O) = 0
  BY <1>2, FS_EmptySet
<1>9. Cardinality(Units(w)) = Cardinality(R) + w[c]
  BY <1>1, <1>3, <1>4, <1>6, <1>7, <1>8
<1> QED BY <1>9 DEF Total, Units, R

\* When one consumer's share changes, the sum changes by as much.
LEMMA TotalChange ==
  ASSUME NEW M \in Nat, NEW w \in [Consumers -> 0 .. M], NEW v \in [Consumers -> 0 .. M],
         NEW c \in Consumers, \A d \in Consumers \ {c} : v[d] = w[d]
  PROVE  /\ Total(w) \in Nat /\ Total(v) \in Nat
         /\ Total(v) = Total(w) - w[c] + v[c]
<1>1. {{d} \X (1 .. w[d]) : d \in Consumers \ {c}} = {{d} \X (1 .. v[d]) : d \in Consumers \ {c}}
  OBVIOUS
<1>2. Total(w) \in Nat /\ Total(v) \in Nat
  BY TotalType
<1>3. Total(w) = Cardinality(UNION {{d} \X (1 .. w[d]) : d \in Consumers \ {c}}) + w[c]
  BY TotalSplit
<1>4. Total(v) = Cardinality(UNION {{d} \X (1 .. v[d]) : d \in Consumers \ {c}}) + v[c]
  BY TotalSplit
<1> DEFINE r == Cardinality(UNION {{d} \X (1 .. w[d]) : d \in Consumers \ {c}})
<1>5. Total(w) = r + w[c] /\ Total(v) = r + v[c]
  BY <1>1, <1>3, <1>4
<1>6. r \in Nat
  <2>1. UNION {{d} \X (1 .. w[d]) : d \in Consumers \ {c}} \in SUBSET Units(w)
    BY DEF Units
  <2> QED BY <2>1, UnitsFinite, FS_Subset, FS_CardinalityType
<1> HIDE DEF r
<1>7. w[c] \in Nat /\ v[c] \in Nat
  OBVIOUS
<1> QED BY <1>2, <1>5, <1>6, <1>7

\* Smaller shares have a smaller sum.
LEMMA TotalLess ==
  ASSUME NEW M \in Nat, NEW w \in [Consumers -> 0 .. M], NEW v \in [Consumers -> 0 .. M],
         \A d \in Consumers : v[d] <= w[d]
  PROVE  Total(v) <= Total(w)
<1>1. ASSUME NEW u \in Units(v) PROVE u \in Units(w)
  <2>1. PICK d \in Consumers : u \in {d} \X (1 .. v[d])
    BY DEF Units
  <2>2. v[d] \in 0 .. M /\ w[d] \in 0 .. M /\ v[d] <= w[d]
    OBVIOUS
  <2>3. u \in {d} \X (1 .. w[d])
    BY <2>1, <2>2
  <2> QED BY <2>3 DEF Units
<1>2. Units(v) \in SUBSET Units(w)
  BY <1>1
<1> QED BY <1>2, UnitsFinite, FS_Subset DEF Total, Units

\* Nothing is nothing.
LEMMA TotalNone ==
  ASSUME NEW w, \A d \in Consumers : w[d] = 0
  PROVE  Total(w) = 0
<1>1. ASSUME NEW u \in Units(w) PROVE FALSE
  <2>1. PICK d \in Consumers : u \in {d} \X (1 .. w[d])
    BY DEF Units
  <2> QED BY <2>1
<1>2. Units(w) = {}
  BY <1>1
<1> QED BY <1>2, FS_EmptySet DEF Total, Units

-----------------------------------------------------------------------------
(* The calls *)

\* The names of the fields of a call.
LEMMA CallFields ==
  {"pc", "overcommit", "desired", "mine", "index", "last", "header", "front", "pos", "block"} \subseteq DOMAIN ConsumerIdle
BY DEF ConsumerIdle

\* No call has more than was ever counted.
LEMMA SharesType ==
  ASSUME NEW M \in Nat, NEW g \in Nat, NEW k, \A c \in Consumers : CallInv(k, c, g, M), NEW n \in Nat
  PROVE  Outstanding(k) \in [Consumers -> 0 .. M] /\ MayClaim(k, n) \in [Consumers -> 0 .. M]
<1>1. ASSUME NEW c \in Consumers
      PROVE  Outstanding(k)[c] \in 0 .. M /\ MayClaim(k, n)[c] \in 0 .. M
  <2>1. CallInv(k, c, g, M)
    OBVIOUS
  <2>2. CASE k[c].pc \in {"check", "giveback", "claim"}
    <3>1. k[c].desired \in Nat /\ k[c].desired <= M /\ (k[c].pc # "check" => k[c].last \in 0 .. k[c].desired)
      BY <2>1, <2>2 DEF CallInv
    <3> QED BY <2>2, <3>1 DEF Outstanding, MayClaim
  <2>3. CASE k[c].pc \notin {"check", "giveback", "claim"}
    BY <2>3 DEF Outstanding, MayClaim
  <2> QED BY <2>2, <2>3
<1> QED BY <1>1 DEF Outstanding, MayClaim

\* Counters that grow take nothing from a call.
LEMMA CallLater ==
  ASSUME NEW M \in Nat, NEW g \in Nat, NEW N \in Nat, NEW h \in Nat, M <= N, g <= h,
         NEW k, NEW c, CallInv(k, c, g, M)
  PROVE  CallInv(k, c, h, N)
BY DEF CallInv

\* A call stays as it is when no other comes to "check".
LEMMA OtherStays ==
  ASSUME NEW k, NEW j, NEW d, NEW g, NEW M, CallInv(k, d, g, M) /\ j[d] = k[d],
         \A e \in Consumers \ {d} : j[e].pc = "check" => k[e].pc = "check" /\ j[e].mine = k[e].mine /\ j[e].desired = k[e].desired
  PROVE  CallInv(j, d, g, M)
<1>1. j[d] = k[d] /\ CallInv(k, d, g, M)
  OBVIOUS
<1>2. ASSUME NEW e \in Consumers \ {d}, j[e].pc = "check", j[d].pc = "check", j[e].mine = j[d].mine
      PROVE  0 \in {j[e].desired, j[d].desired}
  BY <1>1, <1>2 DEF CallInv
<1> QED BY <1>1, <1>2 DEF CallInv

\* A call that moves between places where it has no share changes nothing.
LEMMA QuietMove ==
  ASSUME NEW head, NEW tail, NEW g, NEW M, NEW k, CountersOK(k, head, tail, g, M),
         NEW c \in Consumers, NEW r, NEW j \in {[k EXCEPT ![c] = r]},
         k[c].pc \notin {"check", "giveback", "claim"}, r.pc \notin {"check", "giveback", "claim"},
         CallInv(j, c, g, M)
  PROVE  CountersOK(j, head, tail, g, M)
<1>1. /\ head \in Nat /\ tail \in Nat /\ g \in Nat /\ M \in Nat
      /\ DOMAIN k = Consumers /\ \A d \in Consumers : CallInv(k, d, g, M)
  BY DEF CountersOK
<1>2. DOMAIN j = Consumers /\ j[c] = r /\ \A d \in Consumers \ {c} : j[d] = k[d]
  BY <1>1
<1>3. ASSUME NEW d \in Consumers PROVE CallInv(j, d, g, M)
  <2>1. CASE d # c
    <3>1. CallInv(k, d, g, M) /\ j[d] = k[d]
      BY <1>1, <1>2, <2>1
    <3>2. \A e \in Consumers \ {d} : j[e].pc = "check" =>
            k[e].pc = "check" /\ j[e].mine = k[e].mine /\ j[e].desired = k[e].desired
      BY <1>2
    <3> QED BY <3>1, <3>2, OtherStays
  <2> QED BY <2>1
<1>4. Outstanding(j) = Outstanding(k)
  BY <1>2 DEF Outstanding
<1>5. \A n : MayClaim(j, n) = MayClaim(k, n)
  BY <1>2 DEF MayClaim
<1>6. ASSUME NEW n \in 0 .. M, Granted(k, n, head, tail) PROVE Granted(j, n, head, tail)
  <2>1. \A d \in Consumers : j[d].pc = "check" => k[d] = j[d]
    BY <1>2
  <2> QED BY <1>5, <1>6, <2>1 DEF Granted
<1> QED BY <1>1, <1>2, <1>3, <1>4, <1>6 DEF CountersOK

\* A call counts itself in: it has before it all that was counted and not given back.
LEMMA CountMove ==
  ASSUME NEW head, NEW tail, NEW g, NEW M, NEW k, CountersOK(k, head, tail, g, M),
         NEW c \in Consumers, k[c].pc = "count",
         NEW j \in {[k EXCEPT ![c] = [k[c] EXCEPT !.pc = "check", !.mine = M]]}
  PROVE  CountersOK(j, head, tail, g, M + k[c].desired)
<1> DEFINE r == [k[c] EXCEPT !.pc = "check", !.mine = M]
           N == M + k[c].desired
<1>1. /\ head \in Nat /\ tail \in Nat /\ g \in Nat /\ M \in Nat
      /\ DOMAIN k = Consumers /\ \A d \in Consumers : CallInv(k, d, g, M)
  BY DEF CountersOK
<1>2. /\ DOMAIN r = DOMAIN ConsumerIdle /\ r.pc = "check" /\ r.mine = M
      /\ r.desired = k[c].desired /\ r.overcommit = k[c].overcommit
      /\ k[c].desired \in Nat /\ k[c].overcommit \in 0 .. g
  BY <1>1, CallFields DEF CallInv
<1>3. /\ DOMAIN j = Consumers /\ j[c] = r /\ \A d \in Consumers \ {c} : j[d] = k[d]
      /\ N \in Nat /\ M <= N
  BY <1>1, <1>2
<1> HIDE DEF r
<1>4. ASSUME NEW d \in Consumers PROVE CallInv(j, d, g, N)
  <2>1. CASE d = c
    <3>1. ASSUME NEW e \in Consumers \ {c}, j[e].pc = "check", j[e].mine = M PROVE j[e].desired = 0
      <4>1. /\ CallInv(k, e, g, M) /\ k[e].pc = "check"
            /\ j[e].mine = k[e].mine /\ j[e].desired = k[e].desired
        BY <1>1, <1>3, <3>1
      <4>2. k[e].mine \in Nat /\ k[e].desired \in Nat /\ k[e].mine + k[e].desired <= M
        BY <4>1 DEF CallInv
      <4> QED BY <1>1, <3>1, <4>1, <4>2
    <3> QED BY <1>1, <1>2, <1>3, <2>1, <3>1 DEF CallInv
  <2>2. CASE d # c
    <3>1. CallInv(k, d, g, N) /\ j[d] = k[d]
      BY <1>1, <1>3, <2>2, CallLater
    <3>2. ASSUME NEW e \in Consumers \ {d}, j[e].pc = "check", j[d].pc = "check", j[e].mine = j[d].mine
          PROVE  0 \in {j[e].desired, j[d].desired}
      <4>1. CallInv(k, d, g, M) /\ k[d].pc = "check"
        BY <1>1, <3>1, <3>2
      <4>2. k[d].mine \in Nat /\ k[d].desired \in Nat /\ k[d].mine + k[d].desired <= M
        BY <4>1 DEF CallInv
      <4>3. CASE e = c
        <5>1. j[e].mine = M /\ j[d].mine = k[d].mine /\ j[d].desired = k[d].desired
          BY <1>2, <1>3, <3>1, <4>3
        <5>2. k[d].mine = M
          BY <3>2, <5>1
        <5>3. k[d].desired = 0
          BY <1>1, <4>2, <5>2
        <5> QED BY <5>1, <5>3
      <4>4. CASE e # c
        BY <1>3, <3>1, <3>2, <4>1, <4>4 DEF CallInv
      <4> QED BY <4>3, <4>4
    <3> QED BY <3>1, <3>2 DEF CallInv
  <2> QED BY <2>1, <2>2
<1>5. Total(Outstanding(j)) = Total(Outstanding(k)) + k[c].desired /\ Total(Outstanding(k)) \in Nat
  <2>1. Outstanding(k) \in [Consumers -> 0 .. N]
    <3>1. Outstanding(k) \in [Consumers -> 0 .. M]
      BY <1>1, SharesType
    <3>2. \A i \in 0 .. M : i \in 0 .. N
      BY <1>1, <1>3
    <3> QED BY <3>1, <3>2
  <2>2. Outstanding(j) \in [Consumers -> 0 .. N]
    BY <1>1, <1>3, <1>4, SharesType
  <2>3. \A d \in Consumers \ {c} : Outstanding(j)[d] = Outstanding(k)[d]
    BY <1>3 DEF Outstanding
  <2>4. Outstanding(k)[c] = 0 /\ Outstanding(j)[c] = k[c].desired
    BY <1>2, <1>3 DEF Outstanding
  <2>5. /\ Total(Outstanding(k)) \in Nat /\ Total(Outstanding(j)) \in Nat
        /\ Total(Outstanding(j)) = Total(Outstanding(k)) - Outstanding(k)[c] + Outstanding(j)[c]
    BY <1>3, <2>1, <2>2, <2>3, TotalChange
  <2> QED BY <1>2, <2>4, <2>5
<1>6. ASSUME NEW n \in 0 .. M PROVE MayClaim(j, n) = MayClaim(k, n)
  BY <1>1, <1>2, <1>3 DEF MayClaim
<1>7. PICK n \in 0 .. M : Granted(k, n, head, tail)
  BY DEF CountersOK
<1>8. ASSUME NEW d \in Consumers, j[d].pc = "check", j[d].mine >= n
      PROVE  head + Total(MayClaim(j, j[d].mine)) <= j[d].mine - j[d].overcommit
  <2>1. CASE d = c
    <3>1. Total(MayClaim(k, M)) <= Total(Outstanding(k))
      <4>1. MayClaim(k, M) \in [Consumers -> 0 .. M] /\ Outstanding(k) \in [Consumers -> 0 .. M]
        BY <1>1, SharesType
      <4>2. ASSUME NEW e \in Consumers PROVE MayClaim(k, M)[e] <= Outstanding(k)[e]
        <5>1. CallInv(k, e, g, M) /\ MayClaim(k, M)[e] \in 0 .. M /\ Outstanding(k)[e] \in 0 .. M
          BY <1>1, <4>1
        <5> QED BY <1>1, <5>1 DEF CallInv, MayClaim, Outstanding
      <4> QED BY <1>1, <4>1, <4>2, TotalLess
    <3>2. M = g + head + Total(Outstanding(k))
      BY DEF CountersOK
    <3>3. Total(MayClaim(k, M)) \in Nat
      BY <1>1, SharesType, TotalType
    <3>4. head + Total(MayClaim(k, M)) <= M - k[c].overcommit
      BY <1>1, <1>2, <1>5, <3>1, <3>2, <3>3
    <3>5. MayClaim(j, M) = MayClaim(k, M)
      BY <1>1, <1>6
    <3> QED BY <1>2, <1>3, <2>1, <3>4, <3>5
  <2>2. CASE d # c
    <3>1. CallInv(k, d, g, M) /\ k[d] = j[d]
      BY <1>1, <1>3, <2>2
    <3>2. k[d].mine \in 0 .. M
      BY <1>1, <1>8, <3>1 DEF CallInv
    <3> QED BY <1>6, <1>7, <1>8, <3>1, <3>2 DEF Granted
  <2> QED BY <2>1, <2>2
<1>9. Granted(j, n, head, tail)
  BY <1>6, <1>7, <1>8 DEF Granted
<1>10. n \in 0 .. N
  BY <1>1, <1>3
<1>11. N = g + head + Total(Outstanding(j))
  <2>1. M = g + head + Total(Outstanding(k))
    BY DEF CountersOK
  <2> QED BY <1>1, <1>2, <1>5, <2>1
<1> HIDE DEF N
<1>12. CountersOK(j, head, tail, g, N)
  BY <1>1, <1>3, <1>4, <1>9, <1>10, <1>11 DEF CountersOK
<1> QED BY <1>12 DEF N


\* When one call moves, the sums change by its share.
Shifts(k, j, c) ==
  /\ Total(Outstanding(k)) \in Nat /\ Total(Outstanding(j)) \in Nat
  /\ Total(Outstanding(j)) = Total(Outstanding(k)) - Outstanding(k)[c] + Outstanding(j)[c]
  /\ \A n \in Nat :
       /\ Total(MayClaim(k, n)) \in Nat /\ Total(MayClaim(j, n)) \in Nat
       /\ Total(MayClaim(j, n)) = Total(MayClaim(k, n)) - MayClaim(k, n)[c] + MayClaim(j, n)[c]

\* One call changes: the sum changes by what its own share does.
LEMMA ShareMoves ==
  ASSUME NEW M \in Nat, NEW g \in Nat, NEW k, NEW j,
         \A d \in Consumers : CallInv(k, d, g, M) /\ CallInv(j, d, g, M),
         NEW c \in Consumers, \A d \in Consumers \ {c} : j[d] = k[d]
  PROVE  Shifts(k, j, c)
<1>1. /\ Outstanding(k) \in [Consumers -> 0 .. M] /\ Outstanding(j) \in [Consumers -> 0 .. M]
      /\ \A d \in Consumers \ {c} : Outstanding(j)[d] = Outstanding(k)[d]
  <2>1. Outstanding(k) \in [Consumers -> 0 .. M] /\ Outstanding(j) \in [Consumers -> 0 .. M]
    BY SharesType
  <2> QED BY <2>1 DEF Outstanding
<1>2. /\ Total(Outstanding(k)) \in Nat /\ Total(Outstanding(j)) \in Nat
      /\ Total(Outstanding(j)) = Total(Outstanding(k)) - Outstanding(k)[c] + Outstanding(j)[c]
  BY <1>1, TotalChange
<1>3. ASSUME NEW n \in Nat
      PROVE  /\ Total(MayClaim(k, n)) \in Nat /\ Total(MayClaim(j, n)) \in Nat
             /\ Total(MayClaim(j, n)) = Total(MayClaim(k, n)) - MayClaim(k, n)[c] + MayClaim(j, n)[c]
  <2>1. MayClaim(k, n) \in [Consumers -> 0 .. M] /\ MayClaim(j, n) \in [Consumers -> 0 .. M]
    BY SharesType
  <2>2. \A d \in Consumers \ {c} : MayClaim(j, n)[d] = MayClaim(k, n)[d]
    BY DEF MayClaim
  <2> QED BY <2>1, <2>2, TotalChange
<1> QED BY <1>2, <1>3 DEF Shifts

\* A call that moves, but not to "check", leaves the others as they are.
LEMMA AllStay ==
  ASSUME NEW k, NEW j, NEW g, NEW M, \A d \in Consumers : CallInv(k, d, g, M),
         NEW c \in Consumers, CallInv(j, c, g, M) /\ j[c].pc # "check", \A d \in Consumers \ {c} : j[d] = k[d]
  PROVE  \A d \in Consumers : CallInv(j, d, g, M)
<1>1. ASSUME NEW d \in Consumers, d # c PROVE CallInv(j, d, g, M)
  <2>1. CallInv(k, d, g, M) /\ j[d] = k[d]
    BY <1>1
  <2>2. \A e \in Consumers \ {d} : j[e].pc = "check" =>
          k[e].pc = "check" /\ j[e].mine = k[e].mine /\ j[e].desired = k[e].desired
    OBVIOUS
  <2> QED BY <2>1, <2>2, OtherStays
<1> QED BY <1>1

\* A call looks at the tail again and is granted L elements.
LEMMA CheckMove ==
  ASSUME NEW head, NEW tail, NEW g, NEW M, NEW k, CountersOK(k, head, tail, g, M),
         NEW c \in Consumers, k[c].pc = "check", NEW L \in 0 .. k[c].desired, NEW p \in {"giveback", "claim"},
         L > 0 => L <= tail - (k[c].mine - k[c].overcommit), p = "claim" => L = k[c].desired,
         NEW j \in {[k EXCEPT ![c] = [k[c] EXCEPT !.last = L, !.pc = p]]}
  PROVE  CountersOK(j, head, tail, g, M)
<1> DEFINE r == [k[c] EXCEPT !.last = L, !.pc = p]
           mine == k[c].mine
<1>1. /\ head \in Nat /\ tail \in Nat /\ g \in Nat /\ M \in Nat
      /\ DOMAIN k = Consumers /\ \A d \in Consumers : CallInv(k, d, g, M)
  BY DEF CountersOK
<1>2. /\ DOMAIN r = DOMAIN ConsumerIdle /\ r.pc = p /\ r.last = L
      /\ r.desired = k[c].desired /\ r.overcommit = k[c].overcommit
      /\ k[c].desired \in Nat /\ k[c].overcommit \in 0 .. g /\ k[c].desired <= M
      /\ mine \in Nat /\ mine + k[c].desired <= M
  BY <1>1, CallFields DEF CallInv
<1>3. DOMAIN j = Consumers /\ j[c] = r /\ \A d \in Consumers \ {c} : j[d] = k[d]
  BY <1>1
<1> HIDE DEF r
<1>4. CallInv(j, c, g, M) /\ j[c].pc # "check"
  BY <1>1, <1>2, <1>3 DEF CallInv
<1>5. \A d \in Consumers : CallInv(j, d, g, M)
  BY <1>1, <1>3, <1>4, AllStay
<1>6. Shifts(k, j, c)
  <2>1. \A d \in Consumers : CallInv(k, d, g, M) /\ CallInv(j, d, g, M)
    BY <1>1, <1>5
  <2> QED BY <1>1, <1>3, <2>1, ShareMoves
<1>7. Outstanding(k)[c] = k[c].desired /\ Outstanding(j)[c] = k[c].desired
  BY <1>2, <1>3 DEF Outstanding
<1>8. M = g + head + Total(Outstanding(j))
  <2>1. M = g + head + Total(Outstanding(k))
    BY DEF CountersOK
  <2> QED BY <1>1, <1>2, <1>6, <1>7, <2>1 DEF Shifts
<1>9. ASSUME NEW n \in Nat
      PROVE  /\ mine < n => Total(MayClaim(j, n)) <= Total(MayClaim(k, n))
             /\ n <= mine => Total(MayClaim(j, n)) = Total(MayClaim(k, n)) + L
             /\ Total(MayClaim(j, n)) \in Nat /\ Total(MayClaim(k, n)) \in Nat
  <2>1. MayClaim(k, n)[c] = IF mine < n THEN k[c].desired ELSE 0
    BY DEF MayClaim
  <2>2. MayClaim(j, n)[c] = L
    BY <1>2, <1>3 DEF MayClaim
  <2> QED BY <1>2, <1>6, <2>1, <2>2 DEF Shifts
<1>10. PICK n \in 0 .. M : Granted(k, n, head, tail)
  BY DEF CountersOK
<1>11. ASSUME NEW d \in Consumers, j[d].pc = "check"
       PROVE  /\ d # c /\ j[d] = k[d] /\ k[d].mine \in Nat
              /\ k[d].mine = mine => 0 \in {k[d].desired, k[c].desired}
  <2>1. d # c
    BY <1>4, <1>11
  <2>2. j[d] = k[d] /\ CallInv(k, d, g, M) /\ CallInv(k, c, g, M)
    BY <1>1, <1>3, <2>1
  <2> QED BY <1>11, <2>1, <2>2 DEF CallInv
<1>12. CASE n <= mine /\ L > 0
  <2>1. head + Total(MayClaim(k, mine)) <= mine - k[c].overcommit
    BY <1>10, <1>12, <1>2 DEF Granted
  <2>2. mine + 1 \in 0 .. M
    <3>1. k[c].desired > 0
      BY <1>2, <1>12
    <3> QED BY <1>1, <1>2, <3>1
  <2>3. MayClaim(j, mine + 1) = MayClaim(j, mine)
    <3>1. ASSUME NEW d \in Consumers PROVE MayClaim(j, mine + 1)[d] = MayClaim(j, mine)[d]
      <4>1. k[c].desired > 0
        BY <1>2, <1>12
      <4>2. j[d].pc = "check" => j[d].mine \in Nat /\ (j[d].mine = mine => j[d].desired = 0)
        BY <1>11, <4>1
      <4> QED BY <1>2, <4>2 DEF MayClaim
    <3> QED BY <3>1 DEF MayClaim
  <2>4. head + Total(MayClaim(j, mine + 1)) <= tail
    <3>1. Total(MayClaim(j, mine)) = Total(MayClaim(k, mine)) + L /\ Total(MayClaim(k, mine)) \in Nat
      BY <1>2, <1>9
    <3>2. L <= tail - (mine - k[c].overcommit)
      BY <1>12
    <3> QED BY <1>1, <1>2, <2>1, <2>3, <3>1, <3>2
  <2>5. ASSUME NEW d \in Consumers, j[d].pc = "check", j[d].mine >= mine + 1
        PROVE  head + Total(MayClaim(j, j[d].mine)) <= j[d].mine - j[d].overcommit
    <3>1. d # c /\ j[d] = k[d] /\ k[d].mine \in Nat
      BY <1>11, <2>5
    <3>2. k[d].mine >= n /\ mine < k[d].mine
      BY <1>2, <1>12, <2>5, <3>1
    <3>3. head + Total(MayClaim(k, k[d].mine)) <= k[d].mine - k[d].overcommit
      BY <1>10, <2>5, <3>1, <3>2 DEF Granted
    <3>4. /\ Total(MayClaim(j, k[d].mine)) <= Total(MayClaim(k, k[d].mine))
          /\ Total(MayClaim(j, k[d].mine)) \in Nat /\ Total(MayClaim(k, k[d].mine)) \in Nat
      BY <1>9, <3>1, <3>2
    <3>5. k[d].overcommit \in Nat
      <4>1. CallInv(k, d, g, M)
        BY <1>1
      <4> QED BY <1>1, <2>5, <3>1, <4>1 DEF CallInv
    <3> QED BY <1>1, <3>1, <3>3, <3>4, <3>5
  <2>6. Granted(j, mine + 1, head, tail)
    BY <2>4, <2>5 DEF Granted
  <2> QED BY <1>1, <1>3, <1>5, <1>8, <2>2, <2>6 DEF CountersOK
<1>13. CASE ~(n <= mine /\ L > 0)
  <2>1. ASSUME NEW m \in Nat, n <= m
        PROVE  /\ Total(MayClaim(j, m)) <= Total(MayClaim(k, m))
               /\ Total(MayClaim(j, m)) \in Nat /\ Total(MayClaim(k, m)) \in Nat
    <3>1. mine < m \/ L = 0
      BY <1>2, <1>13, <2>1
    <3>2. L = 0 => mine < m \/ Total(MayClaim(j, m)) = Total(MayClaim(k, m)) + 0
      BY <1>2, <1>9
    <3> QED BY <1>9, <3>1, <3>2
  <2>2. head + Total(MayClaim(j, n)) <= tail
    <3>1. head + Total(MayClaim(k, n)) <= tail
      BY <1>10 DEF Granted
    <3> QED BY <1>1, <2>1, <3>1
  <2>3. ASSUME NEW d \in Consumers, j[d].pc = "check", j[d].mine >= n
        PROVE  head + Total(MayClaim(j, j[d].mine)) <= j[d].mine - j[d].overcommit
    <3>1. j[d] = k[d] /\ k[d].mine \in Nat
      BY <1>11, <2>3
    <3>2. head + Total(MayClaim(k, k[d].mine)) <= k[d].mine - k[d].overcommit
      BY <1>10, <2>3, <3>1 DEF Granted
    <3>3. k[d].overcommit \in Nat
      <4>1. CallInv(k, d, g, M)
        BY <1>1
      <4> QED BY <1>1, <2>3, <3>1, <4>1 DEF CallInv
    <3>4. /\ Total(MayClaim(j, k[d].mine)) <= Total(MayClaim(k, k[d].mine))
          /\ Total(MayClaim(j, k[d].mine)) \in Nat /\ Total(MayClaim(k, k[d].mine)) \in Nat
      BY <2>1, <2>3, <3>1
    <3> QED BY <1>1, <3>1, <3>2, <3>3, <3>4
  <2>4. Granted(j, n, head, tail)
    BY <2>2, <2>3 DEF Granted
  <2> QED BY <1>1, <1>3, <1>5, <1>8, <1>10, <2>4 DEF CountersOK
<1> QED BY <1>12, <1>13


\* A call gives back what it was not granted.
LEMMA GiveBackMove ==
  ASSUME NEW head, NEW tail, NEW g, NEW M, NEW k, CountersOK(k, head, tail, g, M),
         NEW c \in Consumers, k[c].pc = "giveback",
         NEW j \in {[k EXCEPT ![c] = IF k[c].last = 0 THEN ConsumerIdle ELSE [k[c] EXCEPT !.pc = "claim"]]}
  PROVE  CountersOK(j, head, tail, g + k[c].desired - k[c].last, M)
<1> DEFINE r == IF k[c].last = 0 THEN ConsumerIdle ELSE [k[c] EXCEPT !.pc = "claim"]
           h == g + k[c].desired - k[c].last
<1>1. /\ head \in Nat /\ tail \in Nat /\ g \in Nat /\ M \in Nat
      /\ DOMAIN k = Consumers /\ \A d \in Consumers : CallInv(k, d, g, M)
  BY DEF CountersOK
<1>2. /\ k[c].desired \in Nat /\ k[c].overcommit \in 0 .. g /\ k[c].desired <= M
      /\ k[c].last \in 0 .. k[c].desired /\ DOMAIN k[c] = DOMAIN ConsumerIdle
  BY <1>1 DEF CallInv
<1>3. /\ DOMAIN r = DOMAIN ConsumerIdle
      /\ IF k[c].last = 0 THEN r.pc = "idle"
         ELSE /\ r.pc = "claim" /\ r.last = k[c].last
              /\ r.desired = k[c].desired /\ r.overcommit = k[c].overcommit
  BY <1>2, CallFields DEF ConsumerIdle
<1>4. /\ DOMAIN j = Consumers /\ j[c] = r /\ \A d \in Consumers \ {c} : j[d] = k[d]
      /\ h \in Nat /\ g <= h
  BY <1>1, <1>2
<1> HIDE DEF r
<1>5. CallInv(j, c, h, M) /\ j[c].pc # "check"
  BY <1>1, <1>2, <1>3, <1>4 DEF CallInv
<1>6. \A d \in Consumers : CallInv(k, d, h, M)
  BY <1>1, <1>4, CallLater
<1>7. \A d \in Consumers : CallInv(j, d, h, M)
  BY <1>4, <1>5, <1>6, AllStay
<1>8. Shifts(k, j, c)
  <2>1. \A d \in Consumers : CallInv(k, d, h, M) /\ CallInv(j, d, h, M)
    BY <1>6, <1>7
  <2> HIDE DEF h
  <2> QED BY <1>1, <1>4, <2>1, ShareMoves
<1>9. M = h + head + Total(Outstanding(j))
  <2>1. Outstanding(k)[c] = k[c].desired /\ Outstanding(j)[c] = k[c].last
    BY <1>2, <1>3, <1>4 DEF Outstanding
  <2>2. M = g + head + Total(Outstanding(k))
    BY DEF CountersOK
  <2> QED BY <1>1, <1>2, <1>8, <2>1, <2>2 DEF Shifts
<1>10. ASSUME NEW n \in Nat PROVE Total(MayClaim(j, n)) = Total(MayClaim(k, n))
  <2>1. MayClaim(k, n)[c] = k[c].last /\ MayClaim(j, n)[c] = k[c].last
    BY <1>2, <1>3, <1>4 DEF MayClaim
  <2> QED BY <1>2, <1>8, <2>1 DEF Shifts
<1>11. PICK n \in 0 .. M : Granted(k, n, head, tail)
  BY DEF CountersOK
<1>12. Granted(j, n, head, tail)
  <2>1. \A d \in Consumers : j[d].pc = "check" => j[d] = k[d] /\ j[d].mine \in Nat
    BY <1>4, <1>5, <1>7 DEF CallInv
  <2>2. n \in Nat
    BY <1>1
  <2> QED BY <1>10, <1>11, <2>1, <2>2 DEF Granted
<1> HIDE DEF h
<1>13. CountersOK(j, head, tail, h, M)
  BY <1>1, <1>4, <1>7, <1>9, <1>11, <1>12 DEF CountersOK
<1> QED BY <1>13 DEF h

\* A call claims what it was granted.
LEMMA ClaimMove ==
  ASSUME NEW head, NEW tail, NEW g, NEW M, NEW k, CountersOK(k, head, tail, g, M),
         NEW c \in Consumers, k[c].pc = "claim", NEW i, NEW l,
         NEW j \in {[k EXCEPT ![c] = [ConsumerIdle EXCEPT !.pc = "header", !.index = i, !.last = l]]}
  PROVE  CountersOK(j, head + k[c].last, tail, g, M)
<1> DEFINE r == [ConsumerIdle EXCEPT !.pc = "header", !.index = i, !.last = l]
<1>1. /\ head \in Nat /\ tail \in Nat /\ g \in Nat /\ M \in Nat
      /\ DOMAIN k = Consumers /\ \A d \in Consumers : CallInv(k, d, g, M)
  BY DEF CountersOK
<1>2. k[c].desired \in Nat /\ k[c].last \in 0 .. k[c].desired
  BY <1>1 DEF CallInv
<1>3. DOMAIN r = DOMAIN ConsumerIdle /\ r.pc = "header"
  BY CallFields
<1>4. DOMAIN j = Consumers /\ j[c] = r /\ \A d \in Consumers \ {c} : j[d] = k[d]
  BY <1>1
<1> HIDE DEF r
<1>5. CallInv(j, c, g, M) /\ j[c].pc # "check"
  BY <1>1, <1>3, <1>4 DEF CallInv
<1>6. \A d \in Consumers : CallInv(j, d, g, M)
  BY <1>1, <1>4, <1>5, AllStay
<1>7. Shifts(k, j, c)
  <2>1. \A d \in Consumers : CallInv(k, d, g, M) /\ CallInv(j, d, g, M)
    BY <1>1, <1>6
  <2> QED BY <1>1, <1>4, <2>1, ShareMoves
<1>8. M = g + (head + k[c].last) + Total(Outstanding(j))
  <2>1. Outstanding(k)[c] = k[c].last /\ Outstanding(j)[c] = 0
    BY <1>3, <1>4 DEF Outstanding
  <2>2. M = g + head + Total(Outstanding(k))
    BY DEF CountersOK
  <2> QED BY <1>1, <1>2, <1>7, <2>1, <2>2 DEF Shifts
<1>9. ASSUME NEW n \in Nat
      PROVE  (head + k[c].last) + Total(MayClaim(j, n)) = head + Total(MayClaim(k, n))
  <2>1. MayClaim(k, n)[c] = k[c].last /\ MayClaim(j, n)[c] = 0
    BY <1>3, <1>4 DEF MayClaim
  <2> QED BY <1>1, <1>2, <1>7, <2>1 DEF Shifts
<1>10. PICK n \in 0 .. M : Granted(k, n, head, tail)
  BY DEF CountersOK
<1>11. Granted(j, n, head + k[c].last, tail)
  <2>1. \A d \in Consumers : j[d].pc = "check" => j[d] = k[d] /\ j[d].mine \in Nat
    BY <1>4, <1>5, <1>6 DEF CallInv
  <2>2. n \in Nat
    BY <1>1
  <2> QED BY <1>9, <1>10, <2>1, <2>2 DEF Granted
<1>12. head + k[c].last \in Nat
  BY <1>1, <1>2
<1> QED BY <1>1, <1>4, <1>6, <1>8, <1>10, <1>11, <1>12 DEF CountersOK

\* The tail only grows.
LEMMA TailGrows ==
  ASSUME NEW head, NEW tail, NEW g, NEW M, NEW k, CountersOK(k, head, tail, g, M), NEW m \in Nat
  PROVE  CountersOK(k, head, tail + m, g, M)
<1>1. /\ head \in Nat /\ tail \in Nat /\ g \in Nat /\ M \in Nat /\ tail + m \in Nat
      /\ DOMAIN k = Consumers /\ \A d \in Consumers : CallInv(k, d, g, M)
  BY DEF CountersOK
<1>2. PICK n \in 0 .. M : Granted(k, n, head, tail)
  BY DEF CountersOK
<1>3. Total(MayClaim(k, n)) \in Nat
  <2>1. n \in Nat
    BY <1>1
  <2>2. MayClaim(k, n) \in [Consumers -> 0 .. M]
    BY <1>1, <2>1, SharesType
  <2> QED BY <1>1, <2>2, TotalType
<1>4. Granted(k, n, head, tail + m)
  BY <1>1, <1>2, <1>3 DEF Granted
<1> QED BY <1>1, <1>4 DEF CountersOK

-----------------------------------------------------------------------------
(* The steps *)

\* The producer's record keeps its fields, and the count of elements stays a number.
ProducerOK(p) == DOMAIN p = DOMAIN ProducerIdle /\ p.count \in Nat

\* A producer that is in no call is in order.
LEMMA ProducerIdleOK == ProducerOK(ProducerIdle)
BY DEF ProducerOK, ProducerIdle

\* Of the producer's own steps only StoreTail touches what consumers count by.
LEMMA ProducerKeeps ==
  ASSUME ProducerOK(producer),
         \/ \E mode \in {CanAlloc, CannotAlloc}, count \in 1 .. (IF isExplicit THEN ExplicitMaxBulk ELSE ImplicitMaxBulk) :
              Enqueue(mode, count)
         \/ ProducerStep
  PROVE  /\ ProducerOK(producer') /\ UNCHANGED <<counters, consumer>>
         /\ tailIndex' = tailIndex \/ tailIndex' = tailIndex + producer.count
<1>1. ASSUME NEW mode, NEW count \in 1 .. (IF isExplicit THEN ExplicitMaxBulk ELSE ImplicitMaxBulk), Enqueue(mode, count)
      PROVE  ProducerOK(producer') /\ UNCHANGED <<counters, consumer, tailIndex>>
  <2>1. count \in Nat
    BY CountersAssumption
  <2> QED BY <1>1, <2>1 DEF Enqueue, ProducerOK, ProducerIdle, unchangedByProducer
<1>2. /\ {"pc", "mode", "count", "need", "base", "first", "start", "front", "used"} \subseteq DOMAIN producer
      /\ ProducerOK(producer)
  BY DEF ProducerOK, ProducerIdle
<1>3. ASSUME NEW b PROVE ProducerOK(Obtained(b))
  BY <1>2 DEF Obtained, ProducerOK
<1>4. Fail \/ Returns => ProducerOK(producer')
  BY ProducerIdleOK DEF Fail, Returns
<1>5. ASSUME NEW i, Undo(i) PROVE ProducerOK(producer')
  BY <1>5, ProducerIdleOK DEF Undo, Returns
<1>6. CASE Reuse
  BY <1>3, <1>6 DEF Reuse, unchangedByProducer
<1>7. CASE Room
  BY <1>2, <1>4, <1>7 DEF Room, ProducerOK, unchangedByProducer
<1>8. CASE Grow
  BY <1>2, <1>4, <1>8 DEF Grow, ProducerOK, unchangedByProducer
<1>9. CASE \E b \in Blocks : Insert(b)
  BY <1>3, <1>9 DEF Insert, unchangedByProducer
<1>10. CASE InsertFails
  BY <1>4, <1>10 DEF InsertFails, unchangedByProducer
<1>11. CASE Publish
  BY <1>2, <1>11 DEF Publish, ProducerOK, unchangedByProducer
<1>12. CASE InsertEntry
  BY <1>2, <1>5, <1>12 DEF InsertEntry, ProducerOK, unchangedByProducer
<1>13. CASE GrowImplicit
  BY <1>2, <1>5, <1>13 DEF GrowImplicit, ProducerOK, unchangedByProducer
<1>14. CASE \E b \in Blocks : Attach(b)
  BY <1>3, <1>14 DEF Attach, unchangedByProducer
<1>15. CASE AttachFails
  BY <1>5, <1>15 DEF AttachFails, unchangedByProducer
<1>16. CASE Construct
  BY <1>2, <1>16 DEF Construct, ProducerOK, unchangedByProducer
<1>17. CASE StoreTail
  BY <1>4, <1>17 DEF StoreTail, unchangedByProducer
<1> QED
  BY <1>1, <1>6, <1>7, <1>8, <1>9, <1>10, <1>11, <1>12, <1>13, <1>14, <1>15, <1>16, <1>17
  DEF ProducerStep, counters

\* What the counters are, in one formula.
CountersNow == CountersOK(consumer, headIndex, tailIndex, dequeueOvercommit, dequeueOptimisticCount)

\* A new call: it sees something, and remembers what was given back.
LEMMA DequeueKeeps ==
  ASSUME CountersNow, NEW c \in Consumers, NEW max \in DequeueMaxima, Dequeue(c, max)
  PROVE  CountersNow'
<1> DEFINE available == tailIndex - (dequeueOptimisticCount - dequeueOvercommit)
           r == [ConsumerIdle EXCEPT !.pc = "count", !.overcommit = dequeueOvercommit,
                                     !.desired = IF available < max THEN available ELSE max]
<1>1. /\ consumer[c].pc = "idle" /\ available > 0 /\ consumer' = [consumer EXCEPT ![c] = r]
      /\ UNCHANGED <<headIndex, tailIndex, dequeueOvercommit, dequeueOptimisticCount>>
  BY DEF Dequeue, counters
<1>2. /\ tailIndex \in Nat /\ dequeueOvercommit \in Nat /\ dequeueOptimisticCount \in Nat
      /\ DOMAIN consumer = Consumers
  BY DEF CountersNow, CountersOK
<1>3. /\ DOMAIN r = DOMAIN ConsumerIdle /\ r.pc = "count" /\ r.overcommit = dequeueOvercommit
      /\ r.desired \in Nat
  BY <1>1, <1>2, CallFields, CountersAssumption
<1> HIDE DEF r
<1>4. CallInv(consumer', c, dequeueOvercommit, dequeueOptimisticCount)
  BY <1>1, <1>2, <1>3 DEF CallInv
<1>5. CountersOK(consumer', headIndex, tailIndex, dequeueOvercommit, dequeueOptimisticCount)
  BY <1>1, <1>3, <1>4, QuietMove DEF CountersNow
<1> QED BY <1>1, <1>5 DEF CountersNow

\* From the claim on a call is of no concern to the counters.
LEMMA WorkKeeps ==
  ASSUME CountersNow, NEW c \in Consumers,
         \/ DequeueLoadIndex(c) \/ DequeueLocate(c) \/ DequeueTake(c) \/ SetManyEmpty(c)
         \/ CountManyEmpty(c) \/ DequeueUnlink(c) \/ DequeueFree(c) \/ DequeueNextBlock(c)
  PROVE  CountersNow'
<1> DEFINE Quietly == {"idle", "header", "locate", "take", "empty", "next", "unlink", "free"}
<1>1. DOMAIN consumer = Consumers /\ DOMAIN consumer[c] = DOMAIN ConsumerIdle
  BY DEF CountersNow, CountersOK, CallInv
<1>2. /\ DOMAIN Onward(consumer[c]) = DOMAIN ConsumerIdle
      /\ Onward(consumer[c]).pc \in {"idle", "next"}
  BY <1>1, CallFields DEF Onward, ConsumerIdle
<1>3. \E r : /\ consumer' = [consumer EXCEPT ![c] = r]
             /\ DOMAIN r = DOMAIN ConsumerIdle /\ r.pc \in Quietly
  <2>1. CASE DequeueLoadIndex(c)
    <3> DEFINE r == [consumer[c] EXCEPT !.header = Len(blockIndex), !.front = Header.front, !.pc = "locate"]
    <3>1. consumer' = [consumer EXCEPT ![c] = r]
      BY <1>1, <2>1, CallFields DEF DequeueLoadIndex
    <3>2. DOMAIN r = DOMAIN ConsumerIdle /\ r.pc = "locate"
      BY <1>1, CallFields
    <3> QED BY <3>1, <3>2
  <2>2. CASE DequeueLocate(c)
    <3> DEFINE h == blockIndex[consumer[c].header]
               at == Located(h, consumer[c].front, consumer[c].index)
               r == [consumer[c] EXCEPT !.pc = "take", !.front = 0, !.pos = at, !.block = EntryAt(h, at).block]
    <3>1. consumer' = [consumer EXCEPT ![c] = r]
      BY <1>1, <2>2, CallFields DEF DequeueLocate
    <3>2. DOMAIN r = DOMAIN ConsumerIdle /\ r.pc = "take"
      BY <1>1, CallFields
    <3> QED BY <3>1, <3>2
  <2>3. CASE DequeueTake(c)
    <3> DEFINE r == [consumer[c] EXCEPT !.pc = "empty"]
    <3>1. consumer' = [consumer EXCEPT ![c] = r]
      BY <1>1, <2>3, CallFields DEF DequeueTake
    <3>2. DOMAIN r = DOMAIN ConsumerIdle /\ r.pc = "empty"
      BY <1>1, CallFields
    <3> QED BY <3>1, <3>2
  <2>4. CASE SetManyEmpty(c)
    BY <1>2, <2>4 DEF SetManyEmpty
  <2>5. CASE CountManyEmpty(c)
    <3> DEFINE u == [consumer[c] EXCEPT !.pc = "unlink"]
    <3>1. \/ consumer' = [consumer EXCEPT ![c] = u]
          \/ consumer' = [consumer EXCEPT ![c] = Onward(consumer[c])]
      BY <2>5 DEF CountManyEmpty
    <3>2. DOMAIN u = DOMAIN ConsumerIdle /\ u.pc = "unlink"
      BY <1>1, CallFields
    <3> QED BY <1>2, <3>1, <3>2
  <2>6. CASE DequeueUnlink(c)
    <3> DEFINE r == [consumer[c] EXCEPT !.pc = "free"]
    <3>1. consumer' = [consumer EXCEPT ![c] = r]
      BY <1>1, <2>6, CallFields DEF DequeueUnlink
    <3>2. DOMAIN r = DOMAIN ConsumerIdle /\ r.pc = "free"
      BY <1>1, CallFields
    <3> QED BY <3>1, <3>2
  <2>7. CASE DequeueFree(c)
    BY <1>2, <2>7 DEF DequeueFree
  <2>8. CASE DequeueNextBlock(c)
    <3> DEFINE r == [consumer[c] EXCEPT !.pc = "take",
                                            !.block = EntryAt(blockIndex[consumer[c].header], consumer[c].pos).block]
    <3>1. consumer' = [consumer EXCEPT ![c] = r]
      BY <1>1, <2>8, CallFields DEF DequeueNextBlock
    <3>2. DOMAIN r = DOMAIN ConsumerIdle /\ r.pc = "take"
      BY <1>1, CallFields
    <3> QED BY <3>1, <3>2
  <2> QED BY <2>1, <2>2, <2>3, <2>4, <2>5, <2>6, <2>7, <2>8
<1>4. /\ consumer[c].pc \notin {"check", "giveback", "claim"}
      /\ UNCHANGED <<headIndex, tailIndex, dequeueOvercommit, dequeueOptimisticCount>>
  BY DEF DequeueLoadIndex, DequeueLocate, DequeueTake, SetManyEmpty, CountManyEmpty, DequeueUnlink,
         DequeueFree, DequeueNextBlock, counters
<1>5. PICK r : /\ consumer' = [consumer EXCEPT ![c] = r]
               /\ DOMAIN r = DOMAIN ConsumerIdle /\ r.pc \in Quietly
  BY <1>3
<1>6. CallInv(consumer', c, dequeueOvercommit, dequeueOptimisticCount)
  BY <1>1, <1>5 DEF CallInv
<1>7. CountersOK(consumer', headIndex, tailIndex, dequeueOvercommit, dequeueOptimisticCount)
  BY <1>4, <1>5, <1>6, QuietMove DEF CountersNow
<1> QED BY <1>4, <1>7 DEF CountersNow

\* Counting, looking, giving back, claiming.
LEMMA CountKeeps ==
  ASSUME CountersNow, NEW c \in Consumers,
         DequeueCount(c) \/ DequeueCheck(c) \/ DequeueGiveBack(c) \/ DequeueClaim(c)
  PROVE  CountersNow'
<1>1. CASE DequeueCount(c)
  BY <1>1, CountMove DEF DequeueCount, CountersNow
<1>2. CASE DequeueCheck(c)
  <2> DEFINE actual == tailIndex - (consumer[c].mine - consumer[c].overcommit)
             L == IF actual <= 0 THEN 0 ELSE IF actual < consumer[c].desired THEN actual ELSE consumer[c].desired
             p == IF actual <= 0 \/ actual < consumer[c].desired THEN "giveback" ELSE "claim"
  <2>1. /\ consumer[c].pc = "check" /\ consumer' = [consumer EXCEPT ![c] = [consumer[c] EXCEPT !.last = L, !.pc = p]]
        /\ UNCHANGED <<headIndex, tailIndex, dequeueOvercommit, dequeueOptimisticCount>>
    BY <1>2 DEF DequeueCheck, counters
  <2>2. /\ actual \in Int /\ consumer[c].desired \in Nat
    BY <2>1 DEF CountersNow, CountersOK, CallInv
  <2> HIDE DEF actual
  <2>3. /\ L \in 0 .. consumer[c].desired /\ p \in {"giveback", "claim"}
        /\ L > 0 => L <= actual
        /\ p = "claim" => L = consumer[c].desired
    BY <2>2
  <2> HIDE DEF L, p
  <2>4. CountersOK(consumer', headIndex, tailIndex, dequeueOvercommit, dequeueOptimisticCount)
    BY <2>1, <2>3, CheckMove DEF CountersNow, actual
  <2> QED BY <2>1, <2>4 DEF CountersNow
<1>3. CASE DequeueGiveBack(c)
  BY <1>3, GiveBackMove DEF DequeueGiveBack, CountersNow
<1>4. CASE DequeueClaim(c)
  BY <1>4, ClaimMove DEF DequeueClaim, CountersNow
<1> QED BY <1>1, <1>2, <1>3, <1>4

\* Nothing has been counted at first.
LEMMA CountersStart == Init => CountersIInv
<1> SUFFICES ASSUME Init PROVE CountersIInv
  OBVIOUS
<1>1. /\ tailIndex = 0 /\ headIndex = 0 /\ dequeueOptimisticCount = 0 /\ dequeueOvercommit = 0
      /\ producer = ProducerIdle /\ consumer = [c \in Consumers |-> ConsumerIdle]
  BY DEF Init
<1>2. ConsumerIdle.pc = "idle"
  BY DEF ConsumerIdle
<1>3. \A c \in Consumers : CallInv(consumer, c, 0, 0)
  BY <1>1, <1>2 DEF CallInv
<1>4. Total(Outstanding(consumer)) = 0
  <2>1. \A d \in Consumers : Outstanding(consumer)[d] = 0
    BY <1>1, <1>2 DEF Outstanding
  <2> QED BY <2>1, TotalNone
<1>5. Total(MayClaim(consumer, 0)) = 0
  <2>1. \A d \in Consumers : MayClaim(consumer, 0)[d] = 0
    BY <1>1, <1>2 DEF MayClaim
  <2> QED BY <2>1, TotalNone
<1>6. Granted(consumer, 0, 0, 0)
  BY <1>1, <1>2, <1>5 DEF Granted
<1>7. DOMAIN producer = DOMAIN ProducerIdle /\ producer.count \in Nat
  BY <1>1 DEF ProducerIdle
<1> QED BY <1>1, <1>3, <1>4, <1>6, <1>7 DEF CountersIInv, CountersOK

\* Every step keeps the counters in agreement.
LEMMA CountersStep == CountersIInv /\ [Next]_vars => CountersIInv'
<1> SUFFICES ASSUME CountersIInv, [Next]_vars PROVE CountersIInv'
  OBVIOUS
<1>1. CountersNow /\ ProducerOK(producer)
  BY DEF CountersIInv, CountersNow, ProducerOK
<1>2. ASSUME CountersNow', ProducerOK(producer') PROVE CountersIInv'
  BY <1>2 DEF CountersIInv, CountersNow, ProducerOK
<1>3. CASE \/ \E mode \in {CanAlloc, CannotAlloc}, count \in 1 .. (IF isExplicit THEN ExplicitMaxBulk ELSE ImplicitMaxBulk) :
                Enqueue(mode, count)
           \/ ProducerStep
  <2>1. /\ ProducerOK(producer') /\ UNCHANGED <<counters, consumer>>
        /\ tailIndex' = tailIndex \/ tailIndex' = tailIndex + producer.count
    BY <1>1, <1>3, ProducerKeeps
  <2>2. CountersNow'
    BY <1>1, <2>1, TailGrows DEF CountersNow, counters, ProducerOK
  <2> QED BY <1>2, <2>1, <2>2
<1>4. ASSUME NEW c \in Consumers, (\E max \in DequeueMaxima : Dequeue(c, max)) \/ DequeueStep(c)
      PROVE  CountersIInv'
  <2>1. producer' = producer
    BY <1>4 DEF Dequeue, DequeueStep, DequeueCount, DequeueCheck, DequeueGiveBack, DequeueClaim, DequeueLoadIndex,
      DequeueLocate, DequeueTake, SetManyEmpty, CountManyEmpty, DequeueUnlink, DequeueFree, DequeueNextBlock
  <2>2. CountersNow'
    BY <1>1, <1>4, DequeueKeeps, WorkKeeps, CountKeeps DEF DequeueStep
  <2> QED BY <1>1, <1>2, <2>1, <2>2
<1>5. CASE DestroyExplicit \/ DestroyImplicit \/ UNCHANGED vars
  <2>1. UNCHANGED <<counters, tailIndex, consumer, producer>>
    BY <1>5 DEF DestroyExplicit, DestroyImplicit, vars
  <2> QED BY <1>1, <1>2, <2>1 DEF CountersNow, counters
<1> QED BY <1>3, <1>4, <1>5 DEF Next

\* The invariant of the counters holds in every state, for any number of consumers and whatever
\* maximum each call of dequeue_bulk asks for.
THEOREM CountersInvariance == Spec => []CountersIInv
<1> QED BY CountersStart, CountersStep, PTL DEF Spec

\* Consumers claim elements by counters alone, and never one that is not there, however
\* many have counted themselves in and out meanwhile; and when all have returned nothing
\* stays counted in that was not taken.
THEOREM CountersSound == Spec => []CountersAgree
<1>1. CountersIInv => CountersAgree
  <2> SUFFICES ASSUME CountersIInv PROVE CountersAgree
    OBVIOUS
  <2>1. CountersOK(consumer, headIndex, tailIndex, dequeueOvercommit, dequeueOptimisticCount)
    BY DEF CountersIInv
  <2>2. HeadWithinTail
    <3>1. PICK n \in 0 .. dequeueOptimisticCount : Granted(consumer, n, headIndex, tailIndex)
      BY <2>1 DEF CountersOK
    <3>2. n \in Nat /\ headIndex \in Nat /\ tailIndex \in Nat /\ dequeueOptimisticCount \in Nat
      BY <2>1 DEF CountersOK
    <3>3. MayClaim(consumer, n) \in [Consumers -> 0 .. dequeueOptimisticCount]
      BY <2>1, <3>2, SharesType DEF CountersOK
    <3>4. Total(MayClaim(consumer, n)) \in Nat
      BY <3>2, <3>3, TotalType
    <3> QED BY <3>1, <3>2, <3>4 DEF Granted, HeadWithinTail
  <2>3. CountsSettle
    <3> SUFFICES ASSUME \A c \in Consumers : consumer[c].pc = "idle"
                 PROVE  dequeueOptimisticCount - dequeueOvercommit = headIndex
      BY DEF CountsSettle
    <3>1. \A d \in Consumers : Outstanding(consumer)[d] = 0
      BY DEF Outstanding
    <3>2. Total(Outstanding(consumer)) = 0
      BY <3>1, TotalNone
    <3> QED BY <2>1, <3>2 DEF CountersOK
  <2> QED BY <2>2, <2>3 DEF CountersAgree
<1> QED BY <1>1, CountersInvariance, PTL
=============================================================================
