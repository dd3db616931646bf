------------------------- MODULE ReaderWriterProofs -------------------------
(***************************************************************************)
(* The blocking reader-writer queue keeps its elements in order, whatever  *)
(* the number and the sizes of its blocks: memory, assertions, the count   *)
(* of the semaphore, and the refinement of Fifo.                           *)
(***************************************************************************)
EXTENDS ReaderWriterInv, ModLemmas, FunctionTheorems, FiniteSetTheorems, SequenceTheorems, WellFoundedInduction

-----------------------------------------------------------------------------
(* Slots: the remainders of the code in terms of Ahead and Succ.            *)

\* (j - i) % n, as size_approx and the comparisons compute it.
LEMMA AheadMod ==
  ASSUME NEW n \in Nat \ {0}, NEW i \in 0 .. n - 1, NEW j \in 0 .. n - 1
  PROVE  (j - i) % n = Ahead(i, j, n) /\ Ahead(i, j, n) \in 0 .. n - 1
<1>1. CASE j >= i
  <2>1. j - i = n * 0 + (j - i) /\ j - i \in 0 .. n - 1 /\ j - i \in Int
    BY <1>1
  <2>2. (j - i) % n = j - i
    BY <2>1, IntModUnique
  <2> QED BY <1>1, <2>1, <2>2 DEF Ahead
<1>2. CASE j < i
  <2>1. j - i = n * (-1) + (j - i + n) /\ j - i + n \in 0 .. n - 1 /\ j - i \in Int
    BY <1>2
  <2>2. (j - i) % n = j - i + n
    BY <2>1, IntModUnique
  <2> QED BY <1>2, <2>1, <2>2 DEF Ahead
<1> QED BY <1>1, <1>2

\* (i + 1) & sizeMask.
LEMMA SuccMod ==
  ASSUME NEW n \in Nat \ {0}, NEW i \in 0 .. n - 1
  PROVE  (i + 1) % n = Succ(i, n) /\ Succ(i, n) \in 0 .. n - 1
<1>1. CASE i + 1 = n
  <2>1. i + 1 = n * 1 + 0 /\ 0 \in 0 .. n - 1 /\ i + 1 \in Int
    BY <1>1
  <2>2. (i + 1) % n = 0
    BY <2>1, IntModUnique
  <2> QED BY <1>1, <2>1, <2>2 DEF Succ
<1>2. CASE i + 1 < n
  <2>1. i + 1 = n * 0 + (i + 1) /\ i + 1 \in 0 .. n - 1 /\ i + 1 \in Int
    BY <1>2
  <2>2. (i + 1) % n = i + 1
    BY <2>1, IntModUnique
  <2> QED BY <1>2, <2>1, <2>2 DEF Succ
<1> QED BY <1>1, <1>2

\* Positions that are below the size are slots.
LEMMA CopiesRange ==
  ASSUME NEW n \in Nat, n >= 2, NEW f \in Nat, NEW t \in Nat, NEW lf \in Nat, NEW lt \in Nat,
         CopiesOK(f, t, lf, lt, n)
  PROVE  /\ n \in Nat \ {0, 1} /\ f \in 0 .. n - 1 /\ t \in 0 .. n - 1 /\ lf \in 0 .. n - 1 /\ lt \in 0 .. n - 1
         /\ Ahead(f, t, n) \in 0 .. n - 1 /\ (Ahead(f, t, n) = 0 <=> f = t)
BY DEF CopiesOK, Ahead

\* Copies that are taken anew.
LEMMA CopiesAnew ==
  ASSUME NEW n \in Nat, n >= 2, NEW f \in Nat, NEW t \in Nat, NEW lf \in Nat, NEW lt \in Nat,
         CopiesOK(f, t, lf, lt, n)
  PROVE  CopiesOK(f, t, lf, t, n) /\ CopiesOK(f, t, f, lt, n)
BY DEF CopiesOK, Ahead

\* front moves on, to where it knows the tail to be at most.
LEMMA FrontMoves ==
  ASSUME NEW n \in Nat, n >= 2, NEW f \in 0 .. n - 1, NEW t \in 0 .. n - 1, NEW lf \in 0 .. n - 1, NEW lt \in 0 .. n - 1,
         CopiesOK(f, t, lf, lt, n), lt # f
  PROVE  /\ Succ(f, n) \in 0 .. n - 1 /\ Succ(f, n) # f /\ Ahead(f, Succ(f, n), n) = 1
         /\ CopiesOK(Succ(f, n), t, lf, lt, n)
         /\ f # t /\ Ahead(f, t, n) \in Nat /\ Ahead(Succ(f, n), t, n) = Ahead(f, t, n) - 1
         /\ Ahead(Succ(f, n), f, n) >= Ahead(Succ(f, n), t, n)
BY DEF CopiesOK, Ahead, Succ

\* Every other slot comes one nearer.
LEMMA FrontMovesSlot ==
  ASSUME NEW n \in Nat, n >= 2, NEW f \in 0 .. n - 1, NEW i \in 0 .. n - 1, i # f
  PROVE  Ahead(Succ(f, n), i, n) = Ahead(f, i, n) - 1 /\ Ahead(f, i, n) \in Nat \ {0}
BY DEF Ahead, Succ

\* tail moves on, as long as there is room up to where it knows the front to be.
LEMMA TailMoves ==
  ASSUME NEW n \in Nat, n >= 2, NEW f \in 0 .. n - 1, NEW t \in 0 .. n - 1, NEW lf \in 0 .. n - 1, NEW lt \in 0 .. n - 1,
         CopiesOK(f, t, lf, lt, n), Succ(t, n) # lf
  PROVE  /\ Succ(t, n) \in 0 .. n - 1 /\ Succ(t, n) # t /\ Succ(t, n) # f
         /\ CopiesOK(f, Succ(t, n), lf, lt, n)
         /\ Ahead(f, t, n) \in Nat /\ Ahead(f, Succ(t, n), n) = Ahead(f, t, n) + 1
BY DEF CopiesOK, Ahead, Succ

\* Different slots are differently far ahead.
LEMMA AheadSlot ==
  ASSUME NEW n \in Nat, n >= 2, NEW f \in 0 .. n - 1, NEW i \in 0 .. n - 1, NEW t \in 0 .. n - 1
  PROVE  Ahead(f, i, n) \in Nat /\ (Ahead(f, i, n) = Ahead(f, t, n) <=> i = t)
BY DEF Ahead

\* Slot i is the entry i + 1 of the data.
LEMMA SlotIndex ==
  ASSUME NEW n \in Nat, NEW i \in 0 .. n - 1
  PROVE  i + 1 \in 1 .. n
OBVIOUS

-----------------------------------------------------------------------------
(* One block.                                                               *)

\* The fields of a block.
LEMMA BlockFields ==
  ASSUME NEW k \in BlockSet
  PROVE  /\ k.front \in Nat /\ k.tail \in Nat /\ k.localFront \in Nat /\ k.localTail \in Nat
         /\ k.next \in Nat /\ k.data \in Seq(Nat) /\ Len(k.data) \in Nat
BY DEF BlockSet

\* The counts of a block are below its size.
LEMMA BlockCounts ==
  ASSUME NEW k \in BlockSet, NEW x, BlockOK(k, x)
  PROVE  /\ Len(k.data) \in Nat \ {0, 1} /\ Cnt(k) \in 0 .. Len(k.data) - 1
         /\ k.front \in 0 .. Len(k.data) - 1 /\ k.tail \in 0 .. Len(k.data) - 1
         /\ k.localFront \in 0 .. Len(k.data) - 1 /\ k.localTail \in 0 .. Len(k.data) - 1
         /\ (Cnt(k) = 0 <=> k.front = k.tail)
         /\ First(k) \in Nat
<1>1. Len(k.data) >= 2 /\ CopiesOK(k.front, k.tail, k.localFront, k.localTail, Len(k.data))
  BY DEF BlockOK
<1>2. /\ Len(k.data) \in Nat \ {0, 1} /\ Cnt(k) \in 0 .. Len(k.data) - 1
      /\ k.front \in 0 .. Len(k.data) - 1 /\ k.tail \in 0 .. Len(k.data) - 1
      /\ k.localFront \in 0 .. Len(k.data) - 1 /\ k.localTail \in 0 .. Len(k.data) - 1
      /\ (Cnt(k) = 0 <=> k.front = k.tail)
  <2>1. Len(k.data) \in Nat /\ k.front \in Nat /\ k.tail \in Nat /\ k.localFront \in Nat /\ k.localTail \in Nat
    BY BlockFields
  <2>2. PICK n \in Nat, f \in Nat, t \in Nat, lf \in Nat, lt \in Nat :
          n = Len(k.data) /\ f = k.front /\ t = k.tail /\ lf = k.localFront /\ lt = k.localTail
    BY <2>1
  <2>3. n >= 2 /\ CopiesOK(f, t, lf, lt, n)
    BY <1>1, <2>2
  <2>4. /\ n \in Nat \ {0, 1} /\ f \in 0 .. n - 1 /\ t \in 0 .. n - 1 /\ lf \in 0 .. n - 1 /\ lt \in 0 .. n - 1
        /\ Ahead(f, t, n) \in 0 .. n - 1 /\ (Ahead(f, t, n) = 0 <=> f = t)
    BY <2>3, CopiesRange
  <2>5. Cnt(k) = Ahead(f, t, n)
    BY <2>2 DEF Cnt
  <2> QED BY <2>2, <2>4, <2>5
<1>3. k.front + 1 \in 1 .. Len(k.data) /\ k.data \in Seq(Nat)
  BY <1>2, BlockFields
<1>4. First(k) \in Nat
  BY <1>3, ElementOfSeq DEF First
<1> QED BY <1>2, <1>4

\* A block that differs from k in its copies and in next.
Similar(j, k) ==
  j \in BlockSet /\ j.front = k.front /\ j.tail = k.tail /\ j.data = k.data

\* A block that differs in its copies and its next alone holds the same.
LEMMA SimilarSame ==
  ASSUME NEW k \in BlockSet, NEW j, Similar(j, k)
  PROVE  Cnt(j) = Cnt(k) /\ First(j) = First(k)
BY DEF Similar, Cnt, First

\* A new copy of the tail or the front, or another next block.
LEMMA CopyTail ==
  ASSUME NEW k \in BlockSet, NEW x, BlockOK(k, x)
  PROVE  LET j == [k EXCEPT !.localTail = k.tail] IN Similar(j, k) /\ BlockOK(j, x) /\ j.next = k.next
<1> DEFINE j == [k EXCEPT !.localTail = k.tail]
<1>1. Similar(j, k) /\ j.next = k.next /\ j.localTail = k.tail /\ j.localFront = k.localFront
  BY DEF BlockSet, Similar
<1>2. CopiesOK(k.front, k.tail, k.localFront, k.tail, Len(k.data))
  BY BlockFields, CopiesAnew DEF BlockOK
<1> HIDE DEF j
<1>3. BlockOK(j, x)
  BY <1>1, <1>2 DEF BlockOK, Similar
<1> QED BY <1>1, <1>3 DEF j

\* The producer copies the front.
LEMMA CopyFront ==
  ASSUME NEW k \in BlockSet, NEW x, BlockOK(k, x)
  PROVE  LET j == [k EXCEPT !.localFront = k.front] IN Similar(j, k) /\ BlockOK(j, x) /\ j.next = k.next
<1> DEFINE j == [k EXCEPT !.localFront = k.front]
<1>1. Similar(j, k) /\ j.next = k.next /\ j.localTail = k.localTail /\ j.localFront = k.front
  BY DEF BlockSet, Similar
<1>2. CopiesOK(k.front, k.tail, k.front, k.localTail, Len(k.data))
  BY BlockFields, CopiesAnew DEF BlockOK
<1> HIDE DEF j
<1>3. BlockOK(j, x)
  BY <1>1, <1>2 DEF BlockOK, Similar
<1> QED BY <1>1, <1>3 DEF j

\* The producer links a block to another one.
LEMMA Relinked ==
  ASSUME NEW k \in BlockSet, NEW x, BlockOK(k, x), NEW m \in Nat
  PROVE  LET j == [k EXCEPT !.next = m] IN j \in BlockSet /\ Similar(j, k) /\ BlockOK(j, x) /\ j.next = m
<1> DEFINE j == [k EXCEPT !.next = m]
<1>1. j \in BlockSet /\ Similar(j, k) /\ j.next = m /\ j.localTail = k.localTail /\ j.localFront = k.localFront
  BY DEF BlockSet, Similar
<1> HIDE DEF j
<1>3. BlockOK(j, x)
  BY <1>1 DEF BlockOK, Similar
<1> QED BY <1>1, <1>3 DEF j

\* The oldest element leaves.
LEMMA Removed ==
  ASSUME NEW k \in BlockSet, NEW x, BlockOK(k, x), k.localTail # k.front
  PROVE  LET j == [k EXCEPT !.front = Succ(k.front, Len(k.data)), !.data[k.front + 1] = NoElement] IN
         /\ j \in BlockSet /\ BlockOK(j, x) /\ j.next = k.next
         /\ Cnt(j) = Cnt(k) - 1 /\ (Cnt(j) > 0 => First(j) = First(k) + 1)
<1>1. PICK n \in Nat : n = Len(k.data)
  BY BlockFields
<1>2. PICK f \in Nat, t \in Nat, lf \in Nat, lt \in Nat :
        f = k.front /\ t = k.tail /\ lf = k.localFront /\ lt = k.localTail
  BY BlockFields
<1>3. PICK d \in Seq(Nat) : d = k.data
  BY BlockFields
<1>4. n >= 2 /\ f \in 0 .. n - 1 /\ t \in 0 .. n - 1 /\ lf \in 0 .. n - 1 /\ lt \in 0 .. n - 1
      /\ CopiesOK(f, t, lf, lt, n) /\ SlotsOK(d, f, t, x) /\ lt # f /\ Len(d) = n
  BY <1>1, <1>2, <1>3, BlockCounts DEF BlockOK
<1>5. /\ Succ(f, n) \in 0 .. n - 1 /\ Succ(f, n) # f /\ Ahead(f, Succ(f, n), n) = 1
      /\ CopiesOK(Succ(f, n), t, lf, lt, n)
      /\ f # t /\ Ahead(f, t, n) \in Nat /\ Ahead(Succ(f, n), t, n) = Ahead(f, t, n) - 1
      /\ Ahead(Succ(f, n), f, n) >= Ahead(Succ(f, n), t, n)
  BY <1>4, FrontMoves
<1>6. PICK g \in 0 .. n - 1 : g = Succ(f, n)
  BY <1>5
<1>7. PICK c \in Seq(Nat) : c = [d EXCEPT ![f + 1] = NoElement]
  <2>1. f + 1 \in 1 .. Len(d) /\ NoElement \in Nat
    BY <1>4, SlotIndex DEF NoElement
  <2> QED BY <2>1, ExceptSeq
<1>8. Len(c) = n /\ c[f + 1] = NoElement /\ \A i \in 0 .. n - 1 : i # f => c[i + 1] = d[i + 1]
  <2>1. f + 1 \in 1 .. Len(d) /\ NoElement \in Nat
    BY <1>4, SlotIndex DEF NoElement
  <2>2. Len(c) = Len(d) /\ \A m \in 1 .. Len(d) : c[m] = IF m = f + 1 THEN NoElement ELSE d[m]
    BY <1>7, <2>1, ExceptSeq
  <2>3. Len(d) = n /\ \A i \in 0 .. n - 1 : i + 1 \in 1 .. n /\ (i # f => i + 1 # f + 1)
    BY <1>4, SlotIndex
  <2> QED BY <2>1, <2>2, <2>3
<1> DEFINE j == [k EXCEPT !.front = Succ(k.front, Len(k.data)), !.data[k.front + 1] = NoElement]
<1>9. j \in BlockSet /\ j.next = k.next /\ j.front = g /\ j.tail = t /\ j.localFront = lf
      /\ j.localTail = lt /\ j.data = c
  <2>1. j = [k EXCEPT !.front = g, !.data = c]
    BY <1>1, <1>2, <1>3, <1>6, <1>7 DEF BlockSet
  <2>2. g \in Nat /\ c \in Seq(Nat)
    BY <1>6, <1>7
  <2>3. j \in BlockSet
    BY <2>1, <2>2 DEF BlockSet
  <2> QED BY <1>2, <2>1, <2>3 DEF BlockSet
<1>10. Ahead(g, t, n) > 0 => c[g + 1] = d[f + 1] + 1
  <2>1. Ahead(f, g, n) = 1 /\ (Ahead(g, t, n) > 0 => 1 < Ahead(f, t, n))
    BY <1>5, <1>6
  <2>2. Ahead(g, t, n) > 0 => d[g + 1] = d[f + 1] + 1
    BY <1>4, <2>1 DEF SlotsOK
  <2> QED BY <1>5, <1>6, <1>8, <2>2
<1>11. SlotsOK(c, g, t, x)
  <2>1. SUFFICES ASSUME NEW i \in 0 .. n - 1
                 PROVE  c[i + 1] = IF Ahead(g, i, n) < Ahead(g, t, n) THEN c[g + 1] + Ahead(g, i, n)
                                   ELSE IF i = t THEN x ELSE NoElement
    BY <1>8 DEF SlotsOK
  <2>2. d[i + 1] = IF Ahead(f, i, n) < Ahead(f, t, n) THEN d[f + 1] + Ahead(f, i, n)
                   ELSE IF i = t THEN x ELSE NoElement
    BY <1>4, <2>1 DEF SlotsOK
  <2>3. CASE i = f
    <3>1. ~(Ahead(g, i, n) < Ahead(g, t, n)) /\ i # t
      <4>1. Ahead(g, f, n) \in Int /\ Ahead(g, t, n) \in Int
        BY <1>4, <1>6, AheadSlot
      <4> QED BY <1>5, <1>6, <2>3, <4>1
    <3> QED BY <1>8, <2>3, <3>1
  <2>4. CASE i # f
    <3>1. Ahead(g, i, n) = Ahead(f, i, n) - 1 /\ Ahead(f, i, n) \in Nat \ {0}
      BY <1>4, <1>6, <2>4, FrontMovesSlot
    <3>2. c[i + 1] = d[i + 1]
      BY <1>8, <2>4
    <3>3. d[f + 1] \in Nat
      <4>1. f + 1 \in 1 .. Len(d)
        BY <1>4, SlotIndex
      <4> QED BY <4>1, ElementOfSeq
    <3>4. Ahead(f, t, n) \in Nat /\ Ahead(g, t, n) = Ahead(f, t, n) - 1
      BY <1>5, <1>6
    <3>5. CASE Ahead(f, i, n) < Ahead(f, t, n)
      <4>1. Ahead(g, i, n) < Ahead(g, t, n) /\ Ahead(g, t, n) > 0
        BY <3>1, <3>4, <3>5
      <4>2. c[g + 1] = d[f + 1] + 1
        BY <1>10, <4>1
      <4>3. c[i + 1] = d[f + 1] + Ahead(f, i, n)
        BY <2>2, <3>2, <3>5
      <4>4. c[i + 1] = c[g + 1] + Ahead(g, i, n)
        <5>1. PICK p \in Nat, q \in Nat : p = d[f + 1] /\ q = Ahead(f, i, n)
          BY <3>1, <3>3
        <5>2. c[i + 1] = p + q /\ c[g + 1] = p + 1 /\ Ahead(g, i, n) = q - 1
          BY <3>1, <4>2, <4>3, <5>1
        <5> QED BY <5>2
      <4> QED BY <4>1, <4>4
    <3>6. CASE ~(Ahead(f, i, n) < Ahead(f, t, n))
      <4>1. ~(Ahead(g, i, n) < Ahead(g, t, n))
        BY <3>1, <3>4, <3>6
      <4> QED BY <2>2, <3>2, <3>6, <4>1
    <3> QED BY <3>5, <3>6
  <2> QED BY <2>3, <2>4
<1> HIDE DEF j
<1>12. BlockOK(j, x)
  BY <1>4, <1>5, <1>6, <1>8, <1>9, <1>11 DEF BlockOK
<1>13. Cnt(j) = Cnt(k) - 1 /\ (Cnt(j) > 0 => First(j) = First(k) + 1)
  <2>1. Cnt(j) = Ahead(g, t, n) /\ Cnt(k) = Ahead(f, t, n) /\ First(j) = c[g + 1] /\ First(k) = d[f + 1]
    BY <1>1, <1>2, <1>3, <1>8, <1>9 DEF Cnt, First
  <2> QED BY <1>5, <1>6, <1>10, <2>1
<1> QED BY <1>9, <1>12, <1>13 DEF j


\* An element is placed behind the others, out of everybody's sight.
LEMMA PlacedIn ==
  ASSUME NEW k \in BlockSet, BlockOK(k, NoElement), NEW e \in Nat
  PROVE  LET j == [k EXCEPT !.data[k.tail + 1] = e] IN
         /\ j \in BlockSet /\ BlockOK(j, e) /\ j.next = k.next /\ j.front = k.front /\ j.tail = k.tail
         /\ j.localFront = k.localFront /\ j.localTail = k.localTail /\ Len(j.data) = Len(k.data)
         /\ Cnt(j) = Cnt(k) /\ (Cnt(k) > 0 => First(j) = First(k)) /\ (Cnt(k) = 0 => First(j) = e)
<1>1. PICK n \in Nat : n = Len(k.data)
  BY BlockFields
<1>2. PICK f \in Nat, t \in Nat, lf \in Nat, lt \in Nat :
        f = k.front /\ t = k.tail /\ lf = k.localFront /\ lt = k.localTail
  BY BlockFields
<1>3. PICK d \in Seq(Nat) : d = k.data
  BY BlockFields
<1>4. n >= 2 /\ f \in 0 .. n - 1 /\ t \in 0 .. n - 1
      /\ CopiesOK(f, t, lf, lt, n) /\ SlotsOK(d, f, t, NoElement) /\ Len(d) = n
  BY <1>1, <1>2, <1>3, BlockCounts DEF BlockOK
<1>5. PICK c \in Seq(Nat) : c = [d EXCEPT ![t + 1] = e]
  <2>1. t + 1 \in 1 .. Len(d)
    BY <1>4
  <2> QED BY <2>1, ExceptSeq
<1>6. Len(c) = n /\ c[t + 1] = e /\ \A i \in 0 .. n - 1 : i # t => c[i + 1] = d[i + 1]
  BY <1>4, <1>5
<1> DEFINE j == [k EXCEPT !.data[k.tail + 1] = e]
<1>7. j \in BlockSet /\ j.next = k.next /\ j.front = f /\ j.tail = t /\ j.localFront = lf
      /\ j.localTail = lt /\ j.data = c
  <2>1. j = [k EXCEPT !.data = c]
    BY <1>2, <1>3, <1>5 DEF BlockSet
  <2> QED BY <1>2, <2>1 DEF BlockSet
<1>8. Ahead(f, t, n) \in Nat /\ (Ahead(f, t, n) = 0 <=> f = t)
  BY <1>4, CopiesRange
<1>9. SlotsOK(c, f, t, e)
  <2>1. SUFFICES ASSUME NEW i \in 0 .. n - 1
                 PROVE  c[i + 1] = IF Ahead(f, i, n) < Ahead(f, t, n) THEN c[f + 1] + Ahead(f, i, n)
                                   ELSE IF i = t THEN e ELSE NoElement
    BY <1>6 DEF SlotsOK
  <2>2. d[i + 1] = IF Ahead(f, i, n) < Ahead(f, t, n) THEN d[f + 1] + Ahead(f, i, n)
                   ELSE IF i = t THEN NoElement ELSE NoElement
    BY <1>4, <2>1 DEF SlotsOK
  <2>3. CASE i = t
    BY <1>6, <1>8, <2>3
  <2>4. CASE i # t
    <3>1. Ahead(f, i, n) \in Nat
      BY <1>4, AheadSlot
    <3>2. Ahead(f, i, n) < Ahead(f, t, n) => c[f + 1] = d[f + 1]
      BY <1>4, <1>6, <1>8, <3>1
    <3> QED BY <1>6, <2>2, <2>4, <3>2
  <2> QED BY <2>3, <2>4
<1> HIDE DEF j
<1>10. BlockOK(j, e)
  BY <1>4, <1>6, <1>7, <1>9 DEF BlockOK
<1>11. Cnt(j) = Cnt(k) /\ (Cnt(k) > 0 => First(j) = First(k)) /\ (Cnt(k) = 0 => First(j) = e)
  <2>1. Cnt(j) = Ahead(f, t, n) /\ Cnt(k) = Ahead(f, t, n) /\ First(j) = c[f + 1] /\ First(k) = d[f + 1]
    BY <1>1, <1>2, <1>3, <1>6, <1>7 DEF Cnt, First
  <2> QED BY <1>4, <1>6, <1>8, <2>1
<1> QED BY <1>1, <1>2, <1>6, <1>7, <1>10, <1>11 DEF j

\* The element that was placed becomes visible.
LEMMA Published ==
  ASSUME NEW k \in BlockSet, NEW e \in Nat, BlockOK(k, e), Succ(k.tail, Len(k.data)) # k.localFront,
         Cnt(k) > 0 => First(k) + Cnt(k) = e
  PROVE  LET j == [k EXCEPT !.tail = Succ(k.tail, Len(k.data))] IN
         /\ j \in BlockSet /\ BlockOK(j, NoElement) /\ j.next = k.next /\ j.front = k.front /\ j.localTail = k.localTail
         /\ Cnt(j) = Cnt(k) + 1 /\ First(j) = First(k) /\ First(k) + Cnt(k) = e
<1>1. PICK n \in Nat : n = Len(k.data)
  BY BlockFields
<1>2. PICK f \in Nat, t \in Nat, lf \in Nat, lt \in Nat :
        f = k.front /\ t = k.tail /\ lf = k.localFront /\ lt = k.localTail
  BY BlockFields
<1>3. PICK d \in Seq(Nat) : d = k.data
  BY BlockFields
<1>4. n >= 2 /\ f \in 0 .. n - 1 /\ t \in 0 .. n - 1 /\ lf \in 0 .. n - 1 /\ lt \in 0 .. n - 1
      /\ CopiesOK(f, t, lf, lt, n) /\ SlotsOK(d, f, t, e) /\ Len(d) = n /\ Succ(t, n) # lf
  BY <1>1, <1>2, <1>3, BlockCounts DEF BlockOK
<1>5. /\ Succ(t, n) \in 0 .. n - 1 /\ Succ(t, n) # t /\ Succ(t, n) # f
      /\ CopiesOK(f, Succ(t, n), lf, lt, n)
      /\ Ahead(f, t, n) \in Nat /\ Ahead(f, Succ(t, n), n) = Ahead(f, t, n) + 1
  BY <1>4, TailMoves
<1>6. PICK g \in 0 .. n - 1 : g = Succ(t, n)
  BY <1>5
<1> DEFINE j == [k EXCEPT !.tail = Succ(k.tail, Len(k.data))]
<1>7. j \in BlockSet /\ j.next = k.next /\ j.front = f /\ j.tail = g /\ j.localFront = lf
      /\ j.localTail = lt /\ j.data = d
  <2>1. g \in Nat /\ j = [k EXCEPT !.tail = g]
    BY <1>1, <1>2, <1>6
  <2> QED BY <1>2, <1>3, <2>1 DEF BlockSet
<1>8. Cnt(k) = Ahead(f, t, n) /\ First(k) = d[f + 1] /\ Cnt(j) = Ahead(f, g, n)
  BY <1>1, <1>2, <1>3, <1>7 DEF Cnt, First
<1>9. d[t + 1] = e /\ f + 1 \in 1 .. Len(d)
  BY <1>4, <1>5 DEF SlotsOK
<1>10. d[f + 1] + Ahead(f, t, n) = e /\ d[f + 1] \in Nat
  <2>1. d[f + 1] \in Nat
    BY <1>9, ElementOfSeq
  <2>2. Ahead(f, t, n) = 0 => f = t
    BY <1>4, CopiesRange
  <2>3. CASE Ahead(f, t, n) = 0
    BY <1>9, <2>1, <2>2, <2>3
  <2>4. CASE Ahead(f, t, n) > 0
    BY <1>8, <2>1, <2>4
  <2> QED BY <1>5, <2>1, <2>3, <2>4
<1>11. SlotsOK(d, f, g, NoElement)
  <2>1. SUFFICES ASSUME NEW i \in 0 .. n - 1
                 PROVE  d[i + 1] = IF Ahead(f, i, n) < Ahead(f, g, n) THEN d[f + 1] + Ahead(f, i, n)
                                   ELSE IF i = g THEN NoElement ELSE NoElement
    BY <1>4 DEF SlotsOK
  <2>2. d[i + 1] = IF Ahead(f, i, n) < Ahead(f, t, n) THEN d[f + 1] + Ahead(f, i, n)
                   ELSE IF i = t THEN e ELSE NoElement
    BY <1>4, <2>1 DEF SlotsOK
  <2>3. Ahead(f, i, n) \in Nat /\ (i # t => Ahead(f, i, n) # Ahead(f, t, n))
    BY <1>4, <2>1 DEF Ahead
  <2>4. CASE i = t
    <3>1. Ahead(f, i, n) < Ahead(f, g, n)
      BY <1>5, <1>6, <2>4
    <3> QED BY <1>9, <1>10, <2>4, <3>1
  <2>5. CASE i # t
    <3>1. Ahead(f, i, n) < Ahead(f, g, n) <=> Ahead(f, i, n) < Ahead(f, t, n)
      <4>1. Ahead(f, t, n) \in Nat /\ Ahead(f, g, n) = Ahead(f, t, n) + 1
        BY <1>5, <1>6
      <4> QED BY <2>3, <2>5, <4>1
    <3> QED BY <2>2, <2>5, <3>1
  <2> QED BY <2>4, <2>5
<1> HIDE DEF j
<1>12. BlockOK(j, NoElement)
  BY <1>4, <1>5, <1>6, <1>7, <1>11 DEF BlockOK
<1>13. Cnt(j) = Cnt(k) + 1 /\ First(j) = First(k) /\ First(k) + Cnt(k) = e
  BY <1>5, <1>6, <1>7, <1>8, <1>10 DEF First
<1> QED BY <1>2, <1>7, <1>12, <1>13 DEF j

\* A new block: empty, or with its first element.
LEMMA NewBlock ==
  ASSUME NEW n \in Nat, n >= 2, NEW m \in Nat
  PROVE  MakeBlock(n, m) \in BlockSet /\ BlockOK(MakeBlock(n, m), NoElement)
         /\ Cnt(MakeBlock(n, m)) = 0 /\ MakeBlock(n, m).next = m
<1> DEFINE D == [i \in 1 .. n |-> NoElement]
<1>1. PICK d \in Seq(Nat) : d = D /\ Len(d) = n
  <2>1. D \in Seq(Nat) /\ Len(D) = n
    BY DEF NoElement
  <2> HIDE DEF D
  <2> QED BY <2>1
<1>2. PICK k \in BlockSet : k = MakeBlock(n, m) /\ k.front = 0 /\ k.tail = 0 /\ k.localFront = 0 /\ k.localTail = 0
                            /\ k.next = m /\ k.data = d
  <2> DEFINE k == MakeBlock(n, m)
  <2>1. k = [front |-> 0, tail |-> 0, localFront |-> 0, localTail |-> 0, next |-> m, data |-> d]
    BY <1>1 DEF MakeBlock
  <2>2. k \in BlockSet
    BY <2>1 DEF BlockSet
  <2> HIDE DEF k
  <2> QED BY <2>1, <2>2 DEF k
<1>3. CopiesOK(0, 0, 0, 0, n) /\ Ahead(0, 0, n) = 0
  BY DEF CopiesOK, Ahead
<1>4. SlotsOK(d, 0, 0, NoElement)
  <2>1. SUFFICES ASSUME NEW i \in 0 .. n - 1
                 PROVE  d[i + 1] = NoElement /\ ~(Ahead(0, i, n) < 0)
    BY <1>1, <1>3 DEF SlotsOK
  <2> QED BY <1>1 DEF Ahead
<1> QED BY <1>1, <1>2, <1>3, <1>4 DEF BlockOK, Cnt

\* A new block of n slots that holds element e and is followed by m.
Fresh(n, m, e) == [MakeBlock(n, m) EXCEPT !.tail = 1, !.localTail = 1, !.data[1] = e]

\* Such a block is in order.
LEMMA NewBlockWith ==
  ASSUME NEW n \in Nat, n >= 2, NEW m \in Nat, NEW e \in Nat
  PROVE  /\ Fresh(n, m, e) \in BlockSet /\ BlockOK(Fresh(n, m, e), NoElement)
         /\ Cnt(Fresh(n, m, e)) = 1 /\ First(Fresh(n, m, e)) = e /\ Fresh(n, m, e).next = m
<1> DEFINE D == [i \in 1 .. n |-> IF i = 1 THEN e ELSE NoElement]
<1>1. PICK d \in Seq(Nat) : d = D /\ Len(d) = n
  <2>1. D \in Seq(Nat) /\ Len(D) = n
    BY DEF NoElement
  <2> HIDE DEF D
  <2> QED BY <2>1
<1> DEFINE K == Fresh(n, m, e)
<1>2. PICK k \in BlockSet : k = K /\ k.front = 0 /\ k.tail = 1 /\ k.localFront = 0 /\ k.localTail = 1
                            /\ k.next = m /\ k.data = d
  <2>1. [[i \in 1 .. n |-> NoElement] EXCEPT ![1] = e] = d
    BY <1>1
  <2> DEFINE N == [i \in 1 .. n |-> NoElement]
             M == MakeBlock(n, m)
  <2>2. M = [front |-> 0, tail |-> 0, localFront |-> 0, localTail |-> 0, next |-> m, data |-> N]
    BY DEF MakeBlock
  <2>3. [N EXCEPT ![1] = e] = d
    BY <2>1
  <2> HIDE DEF N, M
  <2>4. K = [M EXCEPT !.tail = 1, !.localTail = 1, !.data = [N EXCEPT ![1] = e]]
    BY <2>2 DEF M, Fresh
  <2> HIDE DEF K
  <2>5. K = [front |-> 0, tail |-> 1, localFront |-> 0, localTail |-> 1, next |-> m, data |-> d]
    BY <2>2, <2>3, <2>4
  <2>6. K \in BlockSet
    BY <1>1, <2>5 DEF BlockSet
  <2> QED BY <2>5, <2>6
<1>3. CopiesOK(0, 1, 0, 1, n) /\ Ahead(0, 1, n) = 1
  BY DEF CopiesOK, Ahead
<1>4. SlotsOK(d, 0, 1, NoElement) /\ d[1] = e
  <2>1. d[1] = e
    BY <1>1
  <2>2. SUFFICES ASSUME NEW i \in 0 .. n - 1
                 PROVE  d[i + 1] = IF Ahead(0, i, n) < 1 THEN e + Ahead(0, i, n) ELSE NoElement
    BY <1>1, <1>3, <2>1 DEF SlotsOK
  <2> QED BY <1>1 DEF Ahead
<1> QED BY <1>1, <1>2, <1>3, <1>4 DEF BlockOK, Cnt, First


-----------------------------------------------------------------------------
(* The chain of blocks.                                                     *)

\* What a chain is made of.
LEMMA ChainTypes ==
  ASSUME NEW R, NEW nx, NEW lo, NEW n, NEW front, NEW last, NEW T \in Nat, NEW S \in Nat,
         RingOK(R, nx), ChainOK(R, nx, lo, n, front, last, T, S)
  PROVE  /\ front \in R /\ last \in R /\ \A b \in R : nx[b] \in R /\ lo[b] \in Nat /\ n[b] \in Nat
BY DEF RingOK, ChainOK

\* The oldest element is at the front, or in the block after an empty front block.
LEMMA OldestAt ==
  ASSUME NEW R, NEW nx, NEW lo, NEW n, NEW front, NEW last, NEW T \in Nat, NEW S \in Nat,
         RingOK(R, nx), ChainOK(R, nx, lo, n, front, last, T, S), T < S
  PROVE  IF n[front] > 0 THEN lo[front] = T + 1
         ELSE n[front] = 0 /\ n[nx[front]] > 0 /\ lo[nx[front]] = T + 1
<1>1. PICK b \in R : lo[b] <= T + 1 /\ T + 1 < lo[b] + n[b]
  BY DEF ChainOK
<1>2. \A a \in R : lo[a] \in Nat /\ n[a] \in Nat
  BY ChainTypes
<1>3. n[b] > 0 /\ lo[b] = T + 1
  <2>1. n[b] > 0
    BY <1>1, <1>2
  <2>2. T < lo[b]
    BY <2>1 DEF ChainOK
  <2> QED BY <1>1, <1>2, <2>1, <2>2
<1>4. \A a \in R : n[a] > 0 => lo[a] + n[a] > T + 1
  <2>1. \A a \in R : n[a] > 0 => T < lo[a]
    BY DEF ChainOK
  <2> QED BY <1>2, <2>1
<1>5. b = front \/ (n[front] = 0 /\ b = nx[front])
  BY <1>3, <1>4 DEF ChainOK
<1> QED BY <1>3, <1>5

\* The newest element is in `last`.
LEMMA LastHolds ==
  ASSUME NEW R, NEW nx, NEW lo, NEW n, NEW front, NEW last, NEW T \in Nat, NEW S \in Nat,
         RingOK(R, nx), ChainOK(R, nx, lo, n, front, last, T, S), T < S
  PROVE  n[last] > 0 /\ lo[last] + n[last] = S + 1
<1>1. PICK b \in R : lo[b] <= S /\ S < lo[b] + n[b]
  BY DEF ChainOK
<1>2. \A a \in R : lo[a] \in Nat /\ n[a] \in Nat
  BY ChainTypes
<1>3. n[b] > 0
  BY <1>1, <1>2
<1>4. lo[b] + n[b] <= S + 1
  BY <1>3 DEF ChainOK
<1>5. lo[b] + n[b] = S + 1
  BY <1>1, <1>2, <1>4
<1>6. b = last
  BY <1>3, <1>5 DEF ChainOK
<1> QED BY <1>3, <1>5, <1>6

\* Without elements all blocks are empty.
LEMMA AllEmpty ==
  ASSUME NEW R, NEW nx, NEW lo, NEW n, NEW front, NEW last, NEW T \in Nat,
         RingOK(R, nx), ChainOK(R, nx, lo, n, front, last, T, T), NEW b \in R
  PROVE  n[b] = 0
<1>1. lo[b] \in Nat /\ n[b] \in Nat
  BY ChainTypes
<1>2. n[b] > 0 => T < lo[b] /\ lo[b] + n[b] <= T + 1
  BY DEF ChainOK
<1> QED BY <1>1, <1>2

\* The block after `last` is empty unless it is the front block ("we go through the
\* blocks in a circle").
LEMMA AheadEmpty ==
  ASSUME NEW R, NEW nx, NEW lo, NEW n, NEW front, NEW last, NEW T \in Nat, NEW S \in Nat, T <= S,
         RingOK(R, nx), ChainOK(R, nx, lo, n, front, last, T, S), nx[last] # front
  PROVE  n[nx[last]] = 0
<1>1. last \in R /\ front \in R /\ nx[last] \in R /\ \A a \in R : lo[a] \in Nat /\ n[a] \in Nat /\ nx[a] \in R
  BY ChainTypes
<1>2. CASE T = S
  BY <1>1, <1>2, AllEmpty
<1>3. CASE T < S
  <2>1. n[last] > 0 /\ lo[last] + n[last] = S + 1
    BY <1>3, LastHolds
  <2> SUFFICES ASSUME n[nx[last]] > 0
               PROVE  FALSE
    BY <1>1
  <2>2. T < lo[nx[last]] /\ lo[nx[last]] + n[nx[last]] <= S + 1
    BY <1>1 DEF ChainOK
  <2>3. \/ n[front] = 0 /\ nx[last] = nx[front]
        \/ \E a \in R : n[a] > 0 /\ nx[last] = nx[a] /\ lo[a] + n[a] = lo[nx[last]]
    BY <1>1 DEF ChainOK
  <2>4. \A a \in R : nx[last] = nx[a] => a = last
    BY <1>1 DEF RingOK
  <2> QED BY <1>1, <2>1, <2>2, <2>3, <2>4
<1> QED BY <1>2, <1>3

\* One more element, e, in block b.
Added(R, lo, n, lo2, n2, b, e) ==
  /\ lo2 \in [R -> Nat] /\ n2 \in [R -> Nat]
  /\ n2[b] = n[b] + 1 /\ lo2[b] + n[b] = e
  /\ \A a \in R : a # b => n2[a] = n[a]
  /\ \A a \in R : n[a] > 0 => lo2[a] = lo[a]

\* The next element goes to the last block.
LEMMA PutLast ==
  ASSUME NEW R, NEW nx, NEW lo, NEW n, NEW front, NEW last, NEW T \in Nat, NEW S \in Nat, T <= S,
         RingOK(R, nx), ChainOK(R, nx, lo, n, front, last, T, S),
         NEW lo2, NEW n2, Added(R, lo, n, lo2, n2, last, S + 1)
  PROVE  ChainOK(R, nx, lo2, n2, front, last, T, S + 1)
<1>1. last \in R /\ front \in R /\ \A a \in R : lo[a] \in Nat /\ n[a] \in Nat /\ nx[a] \in R /\ lo2[a] \in Nat /\ n2[a] \in Nat
  BY ChainTypes DEF Added
<1>2. lo2 \in [R -> Nat] /\ n2 \in [R -> Nat] /\ n2[last] = n[last] + 1 /\ lo2[last] + n[last] = S + 1
  BY DEF Added
<1>3. \A a \in R : a # last => n2[a] = n[a] /\ (n[a] > 0 => lo2[a] = lo[a])
  BY DEF Added
<1>4. n[last] > 0 => lo2[last] = lo[last]
  BY <1>1 DEF Added
<1>5. \A a \in R : a # last /\ n[a] > 0 => T < lo[a] /\ lo[a] + n[a] < S + 1
  BY <1>1 DEF ChainOK
<1>6. n[last] > 0 => T < lo[last]
  BY <1>1 DEF ChainOK
<1>7. n[last] = 0 => T = S
  BY <1>1, LastHolds
<1>8. \A b \in R : n2[b] > 0 => T < lo2[b] /\ lo2[b] + n2[b] <= S + 2
  <2>1. T < lo2[last] /\ lo2[last] + n2[last] = S + 2
    BY <1>1, <1>2, <1>4, <1>6, <1>7
  <2> QED BY <1>1, <1>3, <1>5, <2>1
<1>9. \A b \in R : n2[b] > 0 /\ lo2[b] + n2[b] = S + 2 => b = last
  BY <1>1, <1>3, <1>5
<1>10. \A e \in (T + 1) .. (S + 1) : \E b \in R : lo2[b] <= e /\ e < lo2[b] + n2[b]
  <2>1. SUFFICES ASSUME NEW e \in (T + 1) .. (S + 1)
                 PROVE  \E b \in R : lo2[b] <= e /\ e < lo2[b] + n2[b]
    OBVIOUS
  <2>2. CASE e = S + 1
    BY <1>1, <1>2, <2>2
  <2>3. CASE e # S + 1
    <3>1. PICK b \in R : lo[b] <= e /\ e < lo[b] + n[b]
      BY <2>1, <2>3 DEF ChainOK
    <3>2. lo2[b] <= e /\ e < lo2[b] + n2[b]
      BY <1>1, <1>2, <1>3, <1>4, <2>1, <3>1
    <3> QED BY <3>2
  <2> QED BY <2>2, <2>3
<1>11. \A a, b \in R : a # b /\ n2[a] > 0 /\ n2[b] > 0 => lo2[a] + n2[a] <= lo2[b] \/ lo2[b] + n2[b] <= lo2[a]
  <2>1. \A a, b \in R : a # b /\ n[a] > 0 /\ n[b] > 0 => lo[a] + n[a] <= lo[b] \/ lo[b] + n[b] <= lo[a]
    BY DEF ChainOK
  <2>2. \A a \in R : a # last /\ n2[a] > 0 => lo2[a] + n2[a] <= lo2[last]
    <3>1. SUFFICES ASSUME NEW a \in R, a # last, n2[a] > 0
                   PROVE  lo2[a] + n2[a] <= lo2[last]
      OBVIOUS
    <3>2. n[a] > 0 /\ lo2[a] = lo[a] /\ n2[a] = n[a] /\ lo[a] + n[a] < S + 1 /\ T < lo[a]
      BY <1>3, <1>5, <3>1
    <3>3. n[last] > 0
      BY <1>1, <1>7, <3>2
    <3>4. lo[a] + n[a] <= lo[last] \/ lo[last] + n[last] <= lo[a]
      BY <1>1, <2>1, <3>1, <3>2, <3>3
    <3> QED BY <1>1, <1>2, <1>4, <3>2, <3>3, <3>4
  <2> QED BY <1>1, <1>3, <2>1, <2>2
<1>12. \A b \in R : n2[b] > 0 =>
         \/ b = front
         \/ n2[front] = 0 /\ b = nx[front]
         \/ \E a \in R : n2[a] > 0 /\ b = nx[a] /\ lo2[a] + n2[a] = lo2[b]
  <2>1. SUFFICES ASSUME NEW b \in R, n2[b] > 0, b # front
                 PROVE  \/ n2[front] = 0 /\ b = nx[front]
                        \/ \E a \in R : n2[a] > 0 /\ b = nx[a] /\ lo2[a] + n2[a] = lo2[b]
    OBVIOUS
  <2>2. T < S
    <3>1. T = S => front = last
      BY DEF ChainOK
    <3>2. T = S => n[b] = 0
      BY AllEmpty
    <3> QED BY <1>1, <1>3, <2>1, <3>1, <3>2
  <2>3. n[last] > 0 /\ lo[last] + n[last] = S + 1
    BY <2>2, LastHolds
  <2>4. n[b] > 0 /\ lo2[b] = lo[b]
    BY <1>1, <1>3, <1>4, <2>1, <2>3
  <2>5. \/ n[front] = 0 /\ b = nx[front]
        \/ \E a \in R : n[a] > 0 /\ b = nx[a] /\ lo[a] + n[a] = lo[b]
    BY <2>1, <2>4 DEF ChainOK
  <2>6. CASE n[front] = 0 /\ b = nx[front]
    BY <1>1, <1>3, <2>3, <2>6
  <2>7. ASSUME NEW a \in R, n[a] > 0, b = nx[a], lo[a] + n[a] = lo[b]
        PROVE  n2[a] > 0 /\ b = nx[a] /\ lo2[a] + n2[a] = lo2[b]
    <3>1. lo[b] + n[b] <= S + 1
      BY <2>4 DEF ChainOK
    <3>2. a # last
      BY <1>1, <2>3, <2>4, <2>7, <3>1
    <3> QED BY <1>3, <2>4, <2>7, <3>2
  <2> QED BY <2>5, <2>6, <2>7
<1> QED BY <1>1, <1>2, <1>8, <1>9, <1>10, <1>11, <1>12 DEF ChainOK


\* The next element goes into an empty block after `last`, which becomes the last one.
LEMMA PutNext ==
  ASSUME NEW R, NEW nx, NEW lo, NEW n, NEW front, NEW last, NEW T \in Nat, NEW S \in Nat, T <= S,
         RingOK(R, nx), ChainOK(R, nx, lo, n, front, last, T, S),
         NEW m \in R, m = nx[last], m # front, n[m] = 0,
         NEW lo2, NEW n2, Added(R, lo, n, lo2, n2, m, S + 1)
  PROVE  ChainOK(R, nx, lo2, n2, front, m, T, S + 1)
<1>1. last \in R /\ front \in R /\ \A a \in R : lo[a] \in Nat /\ n[a] \in Nat /\ nx[a] \in R /\ lo2[a] \in Nat /\ n2[a] \in Nat
  BY ChainTypes DEF Added
<1>2. lo2 \in [R -> Nat] /\ n2 \in [R -> Nat] /\ n2[m] = 1 /\ lo2[m] = S + 1
  BY <1>1 DEF Added
<1>3. \A a \in R : a # m => n2[a] = n[a] /\ (n[a] > 0 => lo2[a] = lo[a])
  BY DEF Added
<1>4. \A a \in R : n[a] > 0 => T < lo[a] /\ lo[a] + n[a] <= S + 1
  BY DEF ChainOK
<1>5. \A b \in R : n2[b] > 0 => T < lo2[b] /\ lo2[b] + n2[b] <= S + 2
  BY <1>1, <1>2, <1>3, <1>4
<1>6. \A b \in R : n2[b] > 0 /\ lo2[b] + n2[b] = S + 2 => b = m
  BY <1>1, <1>3, <1>4
<1>7. \A e \in (T + 1) .. (S + 1) : \E b \in R : lo2[b] <= e /\ e < lo2[b] + n2[b]
  <2>1. SUFFICES ASSUME NEW e \in (T + 1) .. (S + 1)
                 PROVE  \E b \in R : lo2[b] <= e /\ e < lo2[b] + n2[b]
    OBVIOUS
  <2>2. CASE e = S + 1
    BY <1>1, <1>2, <2>2
  <2>3. CASE e # S + 1
    <3>1. PICK b \in R : lo[b] <= e /\ e < lo[b] + n[b]
      BY <2>1, <2>3 DEF ChainOK
    <3>2. n[b] > 0 /\ b # m
      BY <1>1, <2>1, <3>1
    <3>3. lo2[b] <= e /\ e < lo2[b] + n2[b]
      BY <1>3, <3>1, <3>2
    <3> QED BY <3>3
  <2> QED BY <2>2, <2>3
<1>8. \A a, b \in R : a # b /\ n2[a] > 0 /\ n2[b] > 0 => lo2[a] + n2[a] <= lo2[b] \/ lo2[b] + n2[b] <= lo2[a]
  <2>1. \A a, b \in R : a # b /\ n[a] > 0 /\ n[b] > 0 => lo[a] + n[a] <= lo[b] \/ lo[b] + n[b] <= lo[a]
    BY DEF ChainOK
  <2>2. \A a \in R : a # m /\ n2[a] > 0 => lo2[a] + n2[a] <= lo2[m]
    BY <1>1, <1>2, <1>3, <1>4
  <2> QED BY <1>1, <1>3, <2>1, <2>2
<1>9. \A b \in R : n2[b] > 0 =>
         \/ b = front
         \/ n2[front] = 0 /\ b = nx[front]
         \/ \E a \in R : n2[a] > 0 /\ b = nx[a] /\ lo2[a] + n2[a] = lo2[b]
  <2>1. SUFFICES ASSUME NEW b \in R, n2[b] > 0, b # front
                 PROVE  \/ n2[front] = 0 /\ b = nx[front]
                        \/ \E a \in R : n2[a] > 0 /\ b = nx[a] /\ lo2[a] + n2[a] = lo2[b]
    OBVIOUS
  <2>2. CASE b = m
    <3>1. CASE T < S
      <4>1. n[last] > 0 /\ lo[last] + n[last] = S + 1
        BY <3>1, LastHolds
      <4>2. n2[last] > 0 /\ lo2[last] + n2[last] = lo2[b]
        BY <1>1, <1>2, <1>3, <2>2, <4>1
      <4> QED BY <1>1, <2>2, <4>2
    <3>2. CASE T = S
      <4>1. front = last /\ n[front] = 0
        <5>1. front = last
          BY <3>2 DEF ChainOK
        <5> QED BY <1>1, <3>2, <5>1, AllEmpty
      <4> QED BY <1>1, <1>3, <2>2, <4>1
    <3> QED BY <3>1, <3>2
  <2>3. CASE b # m
    <3>1. n[b] > 0 /\ lo2[b] = lo[b]
      BY <1>3, <2>1, <2>3
    <3>2. \/ n[front] = 0 /\ b = nx[front]
          \/ \E a \in R : n[a] > 0 /\ b = nx[a] /\ lo[a] + n[a] = lo[b]
      BY <2>1, <3>1 DEF ChainOK
    <3>3. ASSUME NEW a \in R, n[a] > 0, b = nx[a], lo[a] + n[a] = lo[b]
          PROVE  n2[a] > 0 /\ b = nx[a] /\ lo2[a] + n2[a] = lo2[b]
      BY <1>3, <3>1, <3>3
    <3> QED BY <1>1, <1>3, <3>2, <3>3
  <2> QED BY <2>2, <2>3
<1> QED BY <1>1, <1>2, <1>5, <1>6, <1>7, <1>8, <1>9 DEF ChainOK

\* The ring with the new block m after block a.
Linked(R, nx, nx2, a, m) ==
  /\ nx2 \in [R \cup {m} -> R \cup {m}]
  /\ nx2[a] = m /\ nx2[m] = nx[a]
  /\ \A b \in R : b # a => nx2[b] = nx[b]

\* A ring with one more block is a ring.
LEMMA LinkRing ==
  ASSUME NEW R, NEW nx, RingOK(R, nx), NEW a \in R, NEW m, m \notin R, NEW nx2, Linked(R, nx, nx2, a, m)
  PROVE  RingOK(R \cup {m}, nx2)
<1>1. \A b \in R : nx[b] \in R
  BY DEF RingOK
<1>2. nx2 \in [R \cup {m} -> R \cup {m}] /\ nx2[a] = m /\ nx2[m] = nx[a] /\ \A b \in R : b # a => nx2[b] = nx[b]
  BY DEF Linked
<1>3. \A b, c \in R \cup {m} : nx2[b] = nx2[c] => b = c
  <2>1. \A b, c \in R : nx[b] = nx[c] => b = c
    BY DEF RingOK
  <2> QED BY <1>1, <1>2, <2>1
<1>4. ASSUME NEW X \in SUBSET (R \cup {m}), X # {}, \A y \in X : nx2[y] \in X
      PROVE  X = R \cup {m}
  <2> DEFINE Y == X \ {m}
  <2>1. \A y \in Y : nx[y] \in Y
    <3>1. SUFFICES ASSUME NEW y \in Y
                   PROVE  nx[y] \in Y
      OBVIOUS
    <3>2. y \in R /\ y \in X /\ nx[y] \in R
      BY <1>1, <3>1
    <3>3. CASE y = a
      <4>1. m \in X
        BY <1>2, <1>4, <3>2, <3>3
      <4> QED BY <1>2, <1>4, <3>2, <3>3, <4>1
    <3>4. CASE y # a
      BY <1>2, <1>4, <3>2, <3>4
    <3> QED BY <3>3, <3>4
  <2>2. Y # {} /\ Y \in SUBSET R
    <3>1. m \in X => nx[a] \in Y
      BY <1>1, <1>2, <1>4
    <3> QED BY <1>4, <3>1
  <2>3. Y = R
    BY <2>1, <2>2 DEF RingOK
  <2>4. m \in X
    BY <1>2, <1>4, <2>3
  <2> QED BY <1>4, <2>3, <2>4
<1> QED BY <1>2, <1>3, <1>4 DEF RingOK

\* Block m, with the one element e, joins the others.
Joined(R, lo, n, lo2, n2, m, e) ==
  /\ lo2 \in [R \cup {m} -> Nat] /\ n2 \in [R \cup {m} -> Nat] /\ n2[m] = 1 /\ lo2[m] = e
  /\ \A a \in R : n2[a] = n[a] /\ lo2[a] = lo[a]

\* The next element is in a new block that is linked in after `last`.
LEMMA PutLink ==
  ASSUME NEW R, NEW nx, NEW lo, NEW n, NEW front, NEW last, NEW T \in Nat, NEW S \in Nat, T <= S,
         RingOK(R, nx), ChainOK(R, nx, lo, n, front, last, T, S),
         NEW m, m \notin R, NEW nx2, Linked(R, nx, nx2, last, m),
         NEW lo2, NEW n2, Joined(R, lo, n, lo2, n2, m, S + 1)
  PROVE  ChainOK(R \cup {m}, nx2, lo2, n2, front, m, T, S + 1)
<1>1. last \in R /\ front \in R /\ \A a \in R : lo[a] \in Nat /\ n[a] \in Nat /\ nx[a] \in R
  BY ChainTypes
<1>2. nx2[last] = m /\ nx2[m] = nx[last] /\ \A b \in R : b # last => nx2[b] = nx[b]
  BY DEF Linked
<1>3. \A a \in R : n2[a] = n[a] /\ lo2[a] = lo[a] /\ a # m
  BY DEF Joined
<1>types. lo2 \in [R \cup {m} -> Nat] /\ n2 \in [R \cup {m} -> Nat] /\ n2[m] = 1 /\ lo2[m] = S + 1
  BY DEF Joined
<1>4. \A a \in R : n[a] > 0 => T < lo[a] /\ lo[a] + n[a] <= S + 1
  BY DEF ChainOK
<1>5. \A b \in R \cup {m} : n2[b] > 0 => T < lo2[b] /\ lo2[b] + n2[b] <= S + 2
  BY <1>1, <1>3, <1>types, <1>4
<1>6. \A b \in R \cup {m} : n2[b] > 0 /\ lo2[b] + n2[b] = S + 2 => b = m
  BY <1>1, <1>3, <1>types, <1>4
<1>7. \A e \in (T + 1) .. (S + 1) : \E b \in R \cup {m} : lo2[b] <= e /\ e < lo2[b] + n2[b]
  <2>1. SUFFICES ASSUME NEW e \in (T + 1) .. (S + 1)
                 PROVE  \E b \in R \cup {m} : lo2[b] <= e /\ e < lo2[b] + n2[b]
    OBVIOUS
  <2>2. CASE e = S + 1
    BY <1>types, <2>2
  <2>3. CASE e # S + 1
    <3>1. PICK b \in R : lo[b] <= e /\ e < lo[b] + n[b]
      BY <2>1, <2>3 DEF ChainOK
    <3> QED BY <1>3, <3>1
  <2> QED BY <2>2, <2>3
<1>8. \A a, b \in R \cup {m} : a # b /\ n2[a] > 0 /\ n2[b] > 0 => lo2[a] + n2[a] <= lo2[b] \/ lo2[b] + n2[b] <= lo2[a]
  <2>1. \A a, b \in R : a # b /\ n[a] > 0 /\ n[b] > 0 => lo[a] + n[a] <= lo[b] \/ lo[b] + n[b] <= lo[a]
    BY DEF ChainOK
  <2>2. \A a \in R : n2[a] > 0 => lo2[a] + n2[a] <= lo2[m]
    BY <1>1, <1>3, <1>types, <1>4
  <2> QED BY <1>3, <1>types, <2>1, <2>2
<1>9. \A b \in R \cup {m} : n2[b] > 0 =>
         \/ b = front
         \/ n2[front] = 0 /\ b = nx2[front]
         \/ \E a \in R \cup {m} : n2[a] > 0 /\ b = nx2[a] /\ lo2[a] + n2[a] = lo2[b]
  <2>1. SUFFICES ASSUME NEW b \in R \cup {m}, n2[b] > 0, b # front
                 PROVE  \/ n2[front] = 0 /\ b = nx2[front]
                        \/ \E a \in R : n2[a] > 0 /\ b = nx2[a] /\ lo2[a] + n2[a] = lo2[b]
    OBVIOUS
  <2>2. CASE b = m
    <3>1. CASE T < S
      <4>1. n[last] > 0 /\ lo[last] + n[last] = S + 1
        BY <3>1, LastHolds
      <4> QED BY <1>1, <1>2, <1>3, <1>types, <2>2, <4>1
    <3>2. CASE T = S
      <4>1. front = last /\ n[front] = 0
        <5>1. front = last
          BY <3>2 DEF ChainOK
        <5> QED BY <1>1, <3>2, <5>1, AllEmpty
      <4> QED BY <1>1, <1>2, <1>3, <1>types, <2>2, <4>1
    <3> QED BY <3>1, <3>2
  <2>3. CASE b \in R
    <3>1. n[b] > 0 /\ lo2[b] = lo[b]
      BY <1>3, <2>1, <2>3
    <3>2. T < S
      BY <1>1, <2>3, <3>1, AllEmpty
    <3>3. n[last] > 0 /\ lo[last] + n[last] = S + 1
      BY <3>2, LastHolds
    <3>4. \/ n[front] = 0 /\ b = nx[front]
          \/ \E a \in R : n[a] > 0 /\ b = nx[a] /\ lo[a] + n[a] = lo[b]
      BY <2>1, <2>3, <3>1 DEF ChainOK
    <3>5. CASE n[front] = 0 /\ b = nx[front]
      BY <1>1, <1>2, <1>3, <3>3, <3>5
    <3>6. ASSUME NEW a \in R, n[a] > 0, b = nx[a], lo[a] + n[a] = lo[b]
          PROVE  n2[a] > 0 /\ b = nx2[a] /\ lo2[a] + n2[a] = lo2[b]
      <4>1. a # last
        BY <1>1, <1>4, <2>3, <3>1, <3>3, <3>6
      <4> QED BY <1>2, <1>3, <2>3, <3>1, <3>6, <4>1
    <3> QED BY <3>4, <3>5, <3>6
  <2> QED BY <2>2, <2>3
<1> QED BY <1>1, <1>types, <1>5, <1>6, <1>7, <1>8, <1>9 DEF ChainOK

\* The oldest element leaves the front block.
Left(R, lo, n, lo2, n2, b) ==
  /\ lo2 \in [R -> Nat] /\ n2 \in [R -> Nat]
  /\ n2[b] = n[b] - 1 /\ (n2[b] > 0 => lo2[b] = lo[b] + 1)
  /\ \A a \in R : a # b => n2[a] = n[a] /\ lo2[a] = lo[a]

\* The oldest element leaves the front block.
LEMMA TakeFront ==
  ASSUME NEW R, NEW nx, NEW lo, NEW n, NEW front, NEW last, NEW T \in Nat, NEW S \in Nat, T < S,
         RingOK(R, nx), ChainOK(R, nx, lo, n, front, last, T, S), n[front] > 0,
         NEW lo2, NEW n2, Left(R, lo, n, lo2, n2, front)
  PROVE  ChainOK(R, nx, lo2, n2, front, last, T + 1, S)
<1>1. last \in R /\ front \in R /\ \A a \in R : lo[a] \in Nat /\ n[a] \in Nat /\ nx[a] \in R /\ lo2[a] \in Nat /\ n2[a] \in Nat
  BY ChainTypes DEF Left
<1>2. lo2 \in [R -> Nat] /\ n2 \in [R -> Nat] /\ n2[front] = n[front] - 1 /\ (n2[front] > 0 => lo2[front] = lo[front] + 1)
  BY DEF Left
<1>3. \A a \in R : a # front => n2[a] = n[a] /\ lo2[a] = lo[a]
  BY DEF Left
<1>4. lo[front] = T + 1
  BY OldestAt
<1>5. \A a \in R : n[a] > 0 => T < lo[a] /\ lo[a] + n[a] <= S + 1
  BY DEF ChainOK
<1>6. \A a, b \in R : a # b /\ n[a] > 0 /\ n[b] > 0 => lo[a] + n[a] <= lo[b] \/ lo[b] + n[b] <= lo[a]
  BY DEF ChainOK
<1>7. \A b \in R : n2[b] > 0 => T + 1 < lo2[b] /\ lo2[b] + n2[b] <= S + 1
  <2>1. SUFFICES ASSUME NEW b \in R, n2[b] > 0
                 PROVE  T + 1 < lo2[b] /\ lo2[b] + n2[b] <= S + 1
    OBVIOUS
  <2>2. CASE b = front
    BY <1>1, <1>2, <1>4, <1>5, <2>1, <2>2
  <2>3. CASE b # front
    <3>1. n[b] > 0 /\ n2[b] = n[b] /\ lo2[b] = lo[b]
      BY <1>3, <2>1, <2>3
    <3>2. lo[front] + n[front] <= lo[b] \/ lo[b] + n[b] <= lo[front]
      BY <1>1, <1>6, <2>3, <3>1
    <3>3. T < lo[b] /\ lo[b] + n[b] <= S + 1
      BY <1>5, <3>1
    <3> QED BY <1>1, <1>4, <3>1, <3>2, <3>3
  <2> QED BY <2>2, <2>3
<1>8. \A b \in R : n2[b] > 0 /\ lo2[b] + n2[b] = S + 1 => b = last
  <2>1. \A b \in R : n2[b] > 0 => n[b] > 0 /\ lo2[b] + n2[b] = lo[b] + n[b]
    BY <1>1, <1>2, <1>3
  <2>2. \A b \in R : n[b] > 0 /\ lo[b] + n[b] = S + 1 => b = last
    BY DEF ChainOK
  <2> QED BY <2>1, <2>2
<1>9. \A e \in (T + 2) .. S : \E b \in R : lo2[b] <= e /\ e < lo2[b] + n2[b]
  <2>1. SUFFICES ASSUME NEW e \in (T + 2) .. S
                 PROVE  \E b \in R : lo2[b] <= e /\ e < lo2[b] + n2[b]
    OBVIOUS
  <2>2. PICK b \in R : lo[b] <= e /\ e < lo[b] + n[b]
    BY <2>1 DEF ChainOK
  <2>3. CASE b = front
    <3>1. n2[b] > 0
      BY <1>1, <1>2, <1>4, <2>1, <2>2, <2>3
    <3> QED BY <1>1, <1>2, <1>4, <2>1, <2>2, <2>3, <3>1
  <2>4. CASE b # front
    BY <1>3, <2>2, <2>4
  <2> QED BY <2>3, <2>4
<1>10. \A a, b \in R : a # b /\ n2[a] > 0 /\ n2[b] > 0 => lo2[a] + n2[a] <= lo2[b] \/ lo2[b] + n2[b] <= lo2[a]
  <2>1. \A b \in R : n2[b] > 0 => n[b] > 0 /\ lo2[b] + n2[b] = lo[b] + n[b] /\ lo2[b] >= lo[b]
    BY <1>1, <1>2, <1>3
  <2> QED BY <1>1, <1>6, <2>1
<1>11. \A b \in R : n2[b] > 0 =>
         \/ b = front
         \/ n2[front] = 0 /\ b = nx[front]
         \/ \E a \in R : n2[a] > 0 /\ b = nx[a] /\ lo2[a] + n2[a] = lo2[b]
  <2>1. SUFFICES ASSUME NEW b \in R, n2[b] > 0, b # front
                 PROVE  \/ n2[front] = 0 /\ b = nx[front]
                        \/ \E a \in R : n2[a] > 0 /\ b = nx[a] /\ lo2[a] + n2[a] = lo2[b]
    OBVIOUS
  <2>2. n[b] > 0 /\ lo2[b] = lo[b]
    BY <1>3, <2>1
  <2>3. PICK a \in R : n[a] > 0 /\ b = nx[a] /\ lo[a] + n[a] = lo[b]
    BY <2>1, <2>2 DEF ChainOK
  <2>4. CASE a = front /\ n2[front] = 0
    BY <2>3, <2>4
  <2>5. CASE a = front /\ n2[front] > 0
    <3>1. lo2[a] + n2[a] = lo2[b]
      BY <1>1, <1>2, <2>2, <2>3, <2>5
    <3> QED BY <2>3, <2>5, <3>1
  <2>6. CASE a # front
    BY <1>3, <2>2, <2>3, <2>6
  <2> QED BY <1>1, <2>4, <2>5, <2>6
<1>12. T + 1 = S => front = last
  <2>1. T + 1 = S => n[front] > 0 /\ lo[front] + n[front] = S + 1
    BY <1>1, <1>4, <1>5
  <2> QED BY <1>1, <2>1 DEF ChainOK
<1> QED BY <1>1, <1>2, <1>7, <1>8, <1>9, <1>10, <1>11, <1>12 DEF ChainOK

\* The consumer moves on from an empty front block.
LEMMA MoveFront ==
  ASSUME NEW R, NEW nx, NEW lo, NEW n, NEW front, NEW last, NEW T \in Nat, NEW S \in Nat, T <= S,
         RingOK(R, nx), ChainOK(R, nx, lo, n, front, last, T, S), n[front] = 0, front # last
  PROVE  T < S /\ n[nx[front]] > 0 /\ lo[nx[front]] = T + 1 /\ ChainOK(R, nx, lo, n, nx[front], last, T, S)
<1>1. T < S
  BY DEF ChainOK
<1>2. n[nx[front]] > 0 /\ lo[nx[front]] = T + 1
  BY <1>1, OldestAt
<1>3. nx[front] \in R
  BY ChainTypes
<1> QED BY <1>1, <1>2, <1>3 DEF ChainOK

\* What a chain says depends only on the blocks that hold something.
LEMMA SameChain ==
  ASSUME NEW R, NEW nx, NEW lo, NEW n, NEW front, NEW last, NEW T \in Nat, NEW S \in Nat,
         ChainOK(R, nx, lo, n, front, last, T, S),
         NEW lo2 \in [R -> Nat], NEW n2 \in [R -> Nat], \A b \in R : n2[b] = n[b] /\ (n[b] > 0 => lo2[b] = lo[b])
  PROVE  ChainOK(R, nx, lo2, n2, front, last, T, S)
<1>1. front \in R /\ last \in R /\ \A b \in R : lo[b] \in Nat /\ n[b] \in Nat
  BY DEF ChainOK
<1>2. \A e \in (T + 1) .. S : \E b \in R : lo2[b] <= e /\ e < lo2[b] + n2[b]
  <2>1. SUFFICES ASSUME NEW e \in (T + 1) .. S
                 PROVE  \E b \in R : lo2[b] <= e /\ e < lo2[b] + n2[b]
    OBVIOUS
  <2>2. PICK b \in R : lo[b] <= e /\ e < lo[b] + n[b]
    BY <2>1 DEF ChainOK
  <2>3. n[b] > 0
    BY <1>1, <2>1, <2>2
  <2> QED BY <2>2, <2>3
<1>3. \A b \in R : n2[b] > 0 => T < lo2[b] /\ lo2[b] + n2[b] <= S + 1
  BY DEF ChainOK
<1>4. \A b \in R : n2[b] > 0 /\ lo2[b] + n2[b] = S + 1 => b = last
  BY DEF ChainOK
<1>5. \A a, b \in R : a # b /\ n2[a] > 0 /\ n2[b] > 0 => lo2[a] + n2[a] <= lo2[b] \/ lo2[b] + n2[b] <= lo2[a]
  <2>1. \A a, b \in R : a # b /\ n[a] > 0 /\ n[b] > 0 => lo[a] + n[a] <= lo[b] \/ lo[b] + n[b] <= lo[a]
    BY DEF ChainOK
  <2> QED BY <2>1
<1>6. \A b \in R : n2[b] > 0 =>
         \/ b = front
         \/ n2[front] = 0 /\ b = nx[front]
         \/ \E a \in R : n2[a] > 0 /\ b = nx[a] /\ lo2[a] + n2[a] = lo2[b]
  <2>1. \A b \in R : n[b] > 0 =>
         \/ b = front
         \/ n[front] = 0 /\ b = nx[front]
         \/ \E a \in R : n[a] > 0 /\ b = nx[a] /\ lo[a] + n[a] = lo[b]
    BY DEF ChainOK
  <2> QED BY <1>1, <2>1
<1>7. T = S => front = last
  BY DEF ChainOK
<1> QED BY <1>1, <1>2, <1>3, <1>4, <1>5, <1>6, <1>7 DEF ChainOK


-----------------------------------------------------------------------------
(* All blocks.                                                              *)

\* bs2 is bs with k for block b.
Touched(bs, bs2, b, k) ==
  /\ bs2 \in Seq(BlockSet) /\ Len(bs2) = Len(bs) /\ bs2[b] = k
  /\ \A a \in 1 .. Len(bs) : a # b => bs2[a] = bs[a]

\* An assignment to one block touches that one.
LEMMA TouchedBy ==
  ASSUME NEW bs \in Seq(BlockSet), NEW b \in 1 .. Len(bs), NEW k \in BlockSet
  PROVE  Touched(bs, [bs EXCEPT ![b] = k], b, k)
BY ExceptSeq DEF Touched

\* The parts of MemoryOK that most steps need.
LEMMA MemoryFacts ==
  ASSUME NEW bs, NEW R, NEW p, NEW front, NEW last, NEW T \in Nat, NEW S \in Nat,
         MemoryOK(bs, R, p, front, last, T, S)
  PROVE  /\ bs \in Seq(BlockSet) /\ Len(bs) \in Nat /\ R \in SUBSET (1 .. Len(bs))
         /\ front \in R /\ last \in R
         /\ \A b \in 1 .. Len(bs) : bs[b] \in BlockSet /\ BlockOK(bs[b], IF b = p THEN S + 1 ELSE NoElement)
         /\ \A b \in R : bs[b].next \in R
<1>1. bs \in Seq(BlockSet) /\ R \in SUBSET (1 .. Len(bs)) /\ front \in R /\ last \in R
      /\ \A b \in 1 .. Len(bs) : BlockOK(bs[b], IF b = p THEN S + 1 ELSE NoElement)
  BY DEF MemoryOK, ChainOK
<1>2. \A b \in R : bs[b].next \in R
  BY DEF MemoryOK, RingOK, NextOf
<1>3. Len(bs) \in Nat /\ \A b \in 1 .. Len(bs) : bs[b] \in BlockSet
  BY <1>1, ElementOfSeq, LenProperties
<1> QED BY <1>1, <1>2, <1>3

\* The functions of the chain.
LEMMA ChainFunctions ==
  ASSUME NEW bs \in Seq(BlockSet), NEW R \in SUBSET (1 .. Len(bs)), NEW p, NEW S \in Nat,
         \A b \in R : BlockOK(bs[b], IF b = p THEN S + 1 ELSE NoElement)
  PROVE  FirstOf(bs, R) \in [R -> Nat] /\ CountOf(bs, R) \in [R -> Nat]
<1>1. \A b \in R : bs[b] \in BlockSet
  BY ElementOfSeq
<1>2. \A b \in R : First(bs[b]) \in Nat /\ Cnt(bs[b]) \in Nat
  <2>1. SUFFICES ASSUME NEW b \in R
                 PROVE  First(bs[b]) \in Nat /\ Cnt(bs[b]) \in Nat
    OBVIOUS
  <2>2. bs[b] \in BlockSet /\ BlockOK(bs[b], IF b = p THEN S + 1 ELSE NoElement)
    BY <1>1, <2>1
  <2>3. Len(bs[b].data) \in Nat \ {0, 1} /\ Cnt(bs[b]) \in 0 .. Len(bs[b].data) - 1 /\ First(bs[b]) \in Nat
    BY <2>2, BlockCounts
  <2> QED BY <2>3
<1> QED BY <1>2 DEF FirstOf, CountOf

\* A copy is taken anew in block b: the chain is as before.
LEMMA MemorySimilar ==
  ASSUME NEW bs, NEW R, NEW p, NEW front, NEW last, NEW T \in Nat, NEW S \in Nat,
         MemoryOK(bs, R, p, front, last, T, S),
         NEW b \in 1 .. Len(bs), NEW k, Similar(k, bs[b]), k.next = bs[b].next,
         BlockOK(k, IF b = p THEN S + 1 ELSE NoElement),
         NEW bs2, Touched(bs, bs2, b, k)
  PROVE  MemoryOK(bs2, R, p, front, last, T, S)
<1>1. bs \in Seq(BlockSet) /\ R \in SUBSET (1 .. Len(bs)) /\ bs[b] \in BlockSet
      /\ \A a \in 1 .. Len(bs) : BlockOK(bs[a], IF a = p THEN S + 1 ELSE NoElement)
  BY MemoryFacts
<1>2. bs2 \in Seq(BlockSet) /\ Len(bs2) = Len(bs) /\ bs2[b] = k /\ \A a \in 1 .. Len(bs) : a # b => bs2[a] = bs[a]
  BY DEF Touched
<1>3. \A a \in 1 .. Len(bs2) : BlockOK(bs2[a], IF a = p THEN S + 1 ELSE NoElement)
  BY <1>1, <1>2
<1>4. Cnt(k) = Cnt(bs[b]) /\ First(k) = First(bs[b])
  BY <1>1, SimilarSame
<1>5. \A a \in R : bs2[a].next = bs[a].next /\ First(bs2[a]) = First(bs[a]) /\ Cnt(bs2[a]) = Cnt(bs[a])
  BY <1>1, <1>2, <1>4
<1>6. NextOf(bs2, R) = NextOf(bs, R) /\ FirstOf(bs2, R) = FirstOf(bs, R) /\ CountOf(bs2, R) = CountOf(bs, R)
  BY <1>5 DEF NextOf, FirstOf, CountOf
<1> QED BY <1>1, <1>2, <1>3, <1>6 DEF MemoryOK


\* An element is placed in block b.
LEMMA MemoryPlaced ==
  ASSUME NEW bs, NEW R, NEW front, NEW last, NEW T \in Nat, NEW S \in Nat,
         MemoryOK(bs, R, 0, front, last, T, S),
         NEW b \in R, NEW k \in BlockSet, BlockOK(k, S + 1), k.next = bs[b].next,
         Cnt(k) = Cnt(bs[b]), Cnt(bs[b]) > 0 => First(k) = First(bs[b]),
         NEW bs2, Touched(bs, bs2, b, k)
  PROVE  MemoryOK(bs2, R, b, front, last, T, S)
<1>1. bs \in Seq(BlockSet) /\ R \in SUBSET (1 .. Len(bs)) /\ bs[b] \in BlockSet
      /\ \A a \in 1 .. Len(bs) : BlockOK(bs[a], IF a = 0 THEN S + 1 ELSE NoElement)
  BY MemoryFacts
<1>2. bs2 \in Seq(BlockSet) /\ Len(bs2) = Len(bs) /\ bs2[b] = k /\ \A a \in 1 .. Len(bs) : a # b => bs2[a] = bs[a]
  BY DEF Touched
<1>3. \A a \in 1 .. Len(bs2) : BlockOK(bs2[a], IF a = b THEN S + 1 ELSE NoElement)
  BY <1>1, <1>2
<1>4. NextOf(bs2, R) = NextOf(bs, R)
  BY <1>1, <1>2 DEF NextOf
<1>5. FirstOf(bs2, R) \in [R -> Nat] /\ CountOf(bs2, R) \in [R -> Nat]
  BY <1>1, <1>2, <1>3, ChainFunctions
<1>6. \A a \in R : /\ CountOf(bs2, R)[a] = CountOf(bs, R)[a]
                   /\ CountOf(bs, R)[a] > 0 => FirstOf(bs2, R)[a] = FirstOf(bs, R)[a]
  BY <1>1, <1>2 DEF FirstOf, CountOf
<1>7. ChainOK(R, NextOf(bs, R), FirstOf(bs2, R), CountOf(bs2, R), front, last, T, S)
  <2>1. ChainOK(R, NextOf(bs, R), FirstOf(bs, R), CountOf(bs, R), front, last, T, S)
    BY DEF MemoryOK
  <2> QED BY <1>5, <1>6, <2>1, SameChain
<1>8. RingOK(R, NextOf(bs2, R))
  BY <1>4 DEF MemoryOK
<1> QED BY <1>1, <1>2, <1>3, <1>4, <1>7, <1>8 DEF MemoryOK

\* Block k is block j with one more element, e.
OneMore(j, k, e) ==
  /\ k \in BlockSet /\ BlockOK(k, NoElement) /\ k.next = j.next
  /\ Cnt(k) = Cnt(j) + 1 /\ First(k) + Cnt(j) = e /\ (Cnt(j) > 0 => First(k) = First(j))

\* The blocks after that.
AfterAdding(bs, bs2, R, b, e) ==
  /\ bs2 \in Seq(BlockSet) /\ R \in SUBSET (1 .. Len(bs2))
  /\ \A a \in 1 .. Len(bs2) : BlockOK(bs2[a], IF a = 0 THEN e + 1 ELSE NoElement)
  /\ NextOf(bs2, R) = NextOf(bs, R)
  /\ Added(R, FirstOf(bs, R), CountOf(bs, R), FirstOf(bs2, R), CountOf(bs2, R), b, e)

\* The element that was placed in block b is published: in the chain it is added.
LEMMA MemoryAdded ==
  ASSUME NEW bs, NEW R, NEW front, NEW last, NEW T \in Nat, NEW S \in Nat, NEW b \in R,
         MemoryOK(bs, R, b, front, last, T, S),
         NEW k, OneMore(bs[b], k, S + 1),
         NEW bs2, Touched(bs, bs2, b, k)
  PROVE  AfterAdding(bs, bs2, R, b, S + 1)
<1>1. bs \in Seq(BlockSet) /\ R \in SUBSET (1 .. Len(bs)) /\ bs[b] \in BlockSet /\ b \in 1 .. Len(bs)
      /\ \A a \in 1 .. Len(bs) : BlockOK(bs[a], IF a = b THEN S + 1 ELSE NoElement)
  BY MemoryFacts
<1>2. bs2 \in Seq(BlockSet) /\ Len(bs2) = Len(bs) /\ bs2[b] = k /\ \A a \in 1 .. Len(bs) : a # b => bs2[a] = bs[a]
  BY DEF Touched
<1>3. /\ k \in BlockSet /\ BlockOK(k, NoElement) /\ k.next = bs[b].next
      /\ Cnt(k) = Cnt(bs[b]) + 1 /\ First(k) + Cnt(bs[b]) = S + 1 /\ (Cnt(bs[b]) > 0 => First(k) = First(bs[b]))
  BY DEF OneMore
<1>4. \A a \in 1 .. Len(bs2) : BlockOK(bs2[a], NoElement)
  BY <1>1, <1>2, <1>3
<1>5. \A a \in 1 .. Len(bs2) : BlockOK(bs2[a], IF a = 0 THEN (S + 1) + 1 ELSE NoElement)
  BY <1>4
<1>6. NextOf(bs2, R) = NextOf(bs, R)
  BY <1>1, <1>2, <1>3 DEF NextOf
<1>7. FirstOf(bs2, R) \in [R -> Nat] /\ CountOf(bs2, R) \in [R -> Nat]
  <2>1. \A a \in R : BlockOK(bs2[a], IF a = 0 THEN (S + 1) + 1 ELSE NoElement)
    BY <1>1, <1>2, <1>4
  <2>2. R \in SUBSET (1 .. Len(bs2)) /\ S + 1 \in Nat
    BY <1>1, <1>2
  <2> QED BY <1>2, <2>1, <2>2, ChainFunctions
<1>8. Added(R, FirstOf(bs, R), CountOf(bs, R), FirstOf(bs2, R), CountOf(bs2, R), b, S + 1)
  BY <1>1, <1>2, <1>3, <1>7 DEF Added, FirstOf, CountOf
<1> QED BY <1>1, <1>2, <1>5, <1>6, <1>8 DEF AfterAdding

\* The element that is being placed is published in the last block.
LEMMA MemoryPutLast ==
  ASSUME NEW bs, NEW R, NEW front, NEW last, NEW T \in Nat, NEW S \in Nat, T <= S,
         MemoryOK(bs, R, last, front, last, T, S),
         NEW k, OneMore(bs[last], k, S + 1),
         NEW bs2, Touched(bs, bs2, last, k)
  PROVE  MemoryOK(bs2, R, 0, front, last, T, S + 1)
<1>1. last \in R
  BY MemoryFacts
<1>2. AfterAdding(bs, bs2, R, last, S + 1)
  BY <1>1, MemoryAdded
<1>3. RingOK(R, NextOf(bs, R)) /\ ChainOK(R, NextOf(bs, R), FirstOf(bs, R), CountOf(bs, R), front, last, T, S)
  BY DEF MemoryOK
<1>4. ChainOK(R, NextOf(bs, R), FirstOf(bs2, R), CountOf(bs2, R), front, last, T, S + 1)
  BY <1>2, <1>3, PutLast DEF AfterAdding
<1> QED BY <1>2, <1>3, <1>4 DEF MemoryOK, AfterAdding

\* It is published in the empty block after the last one.
LEMMA MemoryPutNext ==
  ASSUME NEW bs, NEW R, NEW front, NEW last, NEW T \in Nat, NEW S \in Nat, T <= S,
         NEW b \in R, b = bs[last].next, b # front,
         MemoryOK(bs, R, b, front, last, T, S), Cnt(bs[b]) = 0,
         NEW k, OneMore(bs[b], k, S + 1),
         NEW bs2, Touched(bs, bs2, b, k)
  PROVE  MemoryOK(bs2, R, 0, front, b, T, S + 1)
<1>1. last \in R
  BY MemoryFacts
<1>2. AfterAdding(bs, bs2, R, b, S + 1)
  BY MemoryAdded
<1>3. RingOK(R, NextOf(bs, R)) /\ ChainOK(R, NextOf(bs, R), FirstOf(bs, R), CountOf(bs, R), front, last, T, S)
  BY DEF MemoryOK
<1>4. b = NextOf(bs, R)[last] /\ CountOf(bs, R)[b] = 0
  BY <1>1 DEF NextOf, CountOf
<1>5. ChainOK(R, NextOf(bs, R), FirstOf(bs2, R), CountOf(bs2, R), front, b, T, S + 1)
  BY <1>2, <1>3, <1>4, PutNext DEF AfterAdding
<1> QED BY <1>2, <1>3, <1>5 DEF MemoryOK, AfterAdding

\* A new block is filled in: it is not in the ring.
LEMMA MemoryAppended ==
  ASSUME NEW bs, NEW R, NEW front, NEW last, NEW T \in Nat, NEW S \in Nat,
         MemoryOK(bs, R, 0, front, last, T, S),
         NEW k \in BlockSet, BlockOK(k, NoElement)
  PROVE  MemoryOK(Append(bs, k), R, 0, front, last, T, S)
<1>1. bs \in Seq(BlockSet) /\ Len(bs) \in Nat /\ R \in SUBSET (1 .. Len(bs))
      /\ \A a \in 1 .. Len(bs) : BlockOK(bs[a], IF a = 0 THEN S + 1 ELSE NoElement)
  BY MemoryFacts
<1>2. PICK bs2 \in Seq(BlockSet) : bs2 = Append(bs, k)
  BY <1>1, AppendProperties
<1>3. Len(bs2) = Len(bs) + 1 /\ bs2[Len(bs) + 1] = k /\ \A a \in 1 .. Len(bs) : bs2[a] = bs[a]
  BY <1>1, <1>2, AppendProperties
<1>4. \A a \in 1 .. Len(bs2) : BlockOK(bs2[a], IF a = 0 THEN S + 1 ELSE NoElement)
  BY <1>1, <1>3
<1>5. R \in SUBSET (1 .. Len(bs2)) /\ \A a \in R : bs2[a] = bs[a]
  BY <1>1, <1>3
<1>6. NextOf(bs2, R) = NextOf(bs, R) /\ FirstOf(bs2, R) = FirstOf(bs, R) /\ CountOf(bs2, R) = CountOf(bs, R)
  BY <1>5 DEF NextOf, FirstOf, CountOf
<1>7. MemoryOK(bs2, R, 0, front, last, T, S)
  BY <1>4, <1>5, <1>6 DEF MemoryOK
<1> QED BY <1>2, <1>7

\* The new block m is linked in after `last`.
LEMMA MemoryLinked ==
  ASSUME NEW bs, NEW R, NEW front, NEW last, NEW T \in Nat, NEW S \in Nat, T <= S,
         MemoryOK(bs, R, 0, front, last, T, S),
         NEW m \in 1 .. Len(bs), m \notin R, bs[m].next = bs[last].next, Cnt(bs[m]) = 1, First(bs[m]) = S + 1,
         NEW k, Similar(k, bs[last]), BlockOK(k, NoElement), k.next = m,
         NEW bs2, Touched(bs, bs2, last, k)
  PROVE  MemoryOK(bs2, R \cup {m}, 0, front, m, T, S + 1)
<1>1. bs \in Seq(BlockSet) /\ R \in SUBSET (1 .. Len(bs)) /\ last \in R /\ bs[last] \in BlockSet
      /\ \A a \in 1 .. Len(bs) : BlockOK(bs[a], IF a = 0 THEN S + 1 ELSE NoElement)
  BY MemoryFacts
<1>2. bs2 \in Seq(BlockSet) /\ Len(bs2) = Len(bs) /\ bs2[last] = k /\ \A a \in 1 .. Len(bs) : a # last => bs2[a] = bs[a]
  BY DEF Touched
<1>3. \A a \in 1 .. Len(bs2) : BlockOK(bs2[a], NoElement)
  BY <1>1, <1>2
<1> DEFINE Q == R \cup {m}
<1>4. Q \in SUBSET (1 .. Len(bs2)) /\ \A b \in R : b # m
  BY <1>1, <1>2
<1>5. RingOK(R, NextOf(bs, R)) /\ ChainOK(R, NextOf(bs, R), FirstOf(bs, R), CountOf(bs, R), front, last, T, S)
  BY DEF MemoryOK
<1>6. \A b \in R : bs[b].next \in R
  BY MemoryFacts
<1>7. Linked(R, NextOf(bs, R), NextOf(bs2, Q), last, m)
  <2>1. bs2[last].next = m /\ bs2[m] = bs[m] /\ \A b \in R : b # last => bs2[b] = bs[b]
    BY <1>1, <1>2, <1>4
  <2>2. NextOf(bs2, Q) \in [Q -> Q]
    BY <1>1, <1>6, <2>1 DEF NextOf
  <2> QED BY <1>1, <1>6, <2>1, <2>2 DEF Linked, NextOf
<1>8. Cnt(k) = Cnt(bs[last]) /\ First(k) = First(bs[last])
  BY <1>1, SimilarSame
<1>9. FirstOf(bs2, Q) \in [Q -> Nat] /\ CountOf(bs2, Q) \in [Q -> Nat]
  <2>1. \A a \in Q : BlockOK(bs2[a], IF a = 0 THEN S + 1 ELSE NoElement)
    BY <1>3, <1>4
  <2> QED BY <1>2, <1>4, <2>1, ChainFunctions
<1>10. Joined(R, FirstOf(bs, R), CountOf(bs, R), FirstOf(bs2, Q), CountOf(bs2, Q), m, S + 1)
  <2>1. /\ CountOf(bs2, Q)[m] = 1 /\ FirstOf(bs2, Q)[m] = S + 1
        /\ \A a \in R : CountOf(bs2, Q)[a] = CountOf(bs, R)[a] /\ FirstOf(bs2, Q)[a] = FirstOf(bs, R)[a]
    BY <1>1, <1>2, <1>4, <1>8 DEF CountOf, FirstOf
  <2> QED BY <1>9, <2>1 DEF Joined
<1>11. RingOK(Q, NextOf(bs2, Q))
  BY <1>1, <1>5, <1>7, LinkRing
<1>12. ChainOK(Q, NextOf(bs2, Q), FirstOf(bs2, Q), CountOf(bs2, Q), front, m, T, S + 1)
  BY <1>5, <1>7, <1>10, PutLink
<1>13. \A a \in 1 .. Len(bs2) : BlockOK(bs2[a], IF a = 0 THEN (S + 1) + 1 ELSE NoElement)
  BY <1>3
<1> QED BY <1>2, <1>4, <1>11, <1>12, <1>13 DEF MemoryOK

\* The oldest element is taken out of the front block.
LEMMA MemoryTaken ==
  ASSUME NEW bs, NEW R, NEW p, NEW front, NEW last, NEW T \in Nat, NEW S \in Nat, T < S,
         MemoryOK(bs, R, p, front, last, T, S), Cnt(bs[front]) > 0,
         NEW k \in BlockSet, BlockOK(k, IF front = p THEN S + 1 ELSE NoElement), k.next = bs[front].next,
         Cnt(k) = Cnt(bs[front]) - 1, Cnt(k) > 0 => First(k) = First(bs[front]) + 1,
         NEW bs2, Touched(bs, bs2, front, k)
  PROVE  MemoryOK(bs2, R, p, front, last, T + 1, S)
<1>1. bs \in Seq(BlockSet) /\ R \in SUBSET (1 .. Len(bs)) /\ front \in R /\ bs[front] \in BlockSet
      /\ \A a \in 1 .. Len(bs) : BlockOK(bs[a], IF a = p THEN S + 1 ELSE NoElement)
  BY MemoryFacts
<1>2. bs2 \in Seq(BlockSet) /\ Len(bs2) = Len(bs) /\ bs2[front] = k /\ \A a \in 1 .. Len(bs) : a # front => bs2[a] = bs[a]
  BY DEF Touched
<1>3. \A a \in 1 .. Len(bs2) : BlockOK(bs2[a], IF a = p THEN S + 1 ELSE NoElement)
  BY <1>1, <1>2
<1>4. NextOf(bs2, R) = NextOf(bs, R)
  BY <1>1, <1>2 DEF NextOf
<1>5. FirstOf(bs2, R) \in [R -> Nat] /\ CountOf(bs2, R) \in [R -> Nat]
  <2>1. R \in SUBSET (1 .. Len(bs2)) /\ \A a \in R : BlockOK(bs2[a], IF a = p THEN S + 1 ELSE NoElement)
    BY <1>1, <1>2, <1>3
  <2> QED BY <1>2, <2>1, ChainFunctions
<1>6. Left(R, FirstOf(bs, R), CountOf(bs, R), FirstOf(bs2, R), CountOf(bs2, R), front) /\ CountOf(bs, R)[front] > 0
  BY <1>1, <1>2, <1>5 DEF Left, FirstOf, CountOf
<1>7. ChainOK(R, NextOf(bs, R), FirstOf(bs2, R), CountOf(bs2, R), front, last, T + 1, S)
  <2>1. RingOK(R, NextOf(bs, R)) /\ ChainOK(R, NextOf(bs, R), FirstOf(bs, R), CountOf(bs, R), front, last, T, S)
    BY DEF MemoryOK
  <2> QED BY <1>6, <2>1, TakeFront
<1>8. RingOK(R, NextOf(bs2, R))
  BY <1>4 DEF MemoryOK
<1> QED BY <1>1, <1>2, <1>3, <1>4, <1>7, <1>8 DEF MemoryOK


-----------------------------------------------------------------------------
(* What one thread leaves alone of what the other relies on.                *)

\* Where everything is.
LEMMA InnerFacts ==
  ASSUME NEW T \in 0 .. Len(sent), SentInv, MemoryInv(T)
  PROVE  /\ Len(sent) \in Nat /\ T \in Nat /\ T <= Len(sent)
         /\ blocks \in Seq(BlockSet) /\ Len(blocks) \in Nat /\ InRing \in SUBSET (1 .. Len(blocks))
         /\ frontBlock \in InRing /\ tailBlock \in InRing /\ Last \in InRing
         /\ \A b \in 1 .. Len(blocks) : /\ blocks[b] \in BlockSet
                                        /\ BlockOK(blocks[b], IF b = Placing THEN Len(sent) + 1 ELSE NoElement)
         /\ \A b \in InRing : blocks[b].next \in InRing
<1>1. Len(sent) \in Nat
  BY LenProperties DEF SentInv
<1>2. T \in Nat /\ T <= Len(sent)
  BY <1>1
<1>3. MemoryOK(blocks, InRing, Placing, frontBlock, Last, T, Len(sent)) /\ tailBlock \in InRing
  BY DEF MemoryInv
<1> QED BY <1>1, <1>2, <1>3, MemoryFacts

\* The remainders of the code.
LEMMA CountIs ==
  ASSUME NEW b \in 1 .. Len(blocks), blocks[b] \in BlockSet, NEW x, BlockOK(blocks[b], x)
  PROVE  Count(b) = Cnt(blocks[b])
<1>1. PICK n \in Nat \ {0} : n = Len(blocks[b].data)
  BY BlockCounts
<1>2. PICK f \in 0 .. n - 1, t \in 0 .. n - 1 : f = blocks[b].front /\ t = blocks[b].tail
  BY <1>1, BlockCounts
<1>3. (t - f) % n = Ahead(f, t, n)
  BY AheadMod
<1> QED BY <1>1, <1>2, <1>3 DEF Count, Size, Cnt

\* Following, whose remainder the code computes with sizeMask.
LEMMA FollowingIs ==
  ASSUME NEW b \in 1 .. Len(blocks), blocks[b] \in BlockSet, NEW x, BlockOK(blocks[b], x),
         NEW i \in 0 .. Len(blocks[b].data) - 1
  PROVE  Following(b, i) = Succ(i, Len(blocks[b].data))
<1>1. Len(blocks[b].data) \in Nat \ {0}
  BY BlockCounts
<1> QED BY <1>1, SuccMod DEF Following, Size

\* What a step of the consumer leaves of the blocks.
ConsumerTouch(bs, bs2) ==
  /\ Len(bs2) = Len(bs)
  /\ \A b \in 1 .. Len(bs) :
       /\ bs2[b].next = bs[b].next /\ bs2[b].tail = bs[b].tail /\ bs2[b].localFront = bs[b].localFront
       /\ Len(bs2[b].data) = Len(bs[b].data) /\ Cnt(bs2[b]) <= Cnt(bs[b])

\* What the producer relies on survives such a step.
LEMMA ConsumerKeepsProducer ==
  ASSUME NEW T \in 0 .. Len(sent), SentInv, MemoryInv(T), ProducerInv,
         UNCHANGED <<ppc, pop, pblk, tailBlock, sent>>,
         ConsumerTouch(blocks, blocks'), ppc = "link" => blocks'[pblk] = blocks[pblk],
         \A b \in 1 .. Len(blocks) : Cnt(blocks'[b]) \in Nat /\ Cnt(blocks[b]) \in Nat,
         frontBlock' = frontBlock \/ blocks[tailBlock].next # frontBlock'
  PROVE  ProducerInv'
<1>1. Len(blocks) \in Nat /\ tailBlock \in 1 .. Len(blocks) /\ blocks[tailBlock].next \in 1 .. Len(blocks)
  BY InnerFacts
<1>2. /\ Len(blocks') = Len(blocks)
      /\ \A b \in 1 .. Len(blocks) :
           /\ blocks'[b].next = blocks[b].next /\ blocks'[b].tail = blocks[b].tail
           /\ blocks'[b].localFront = blocks[b].localFront
           /\ Len(blocks'[b].data) = Len(blocks[b].data) /\ Cnt(blocks'[b]) <= Cnt(blocks[b])
  BY DEF ConsumerTouch
<1>3. ppc' = ppc /\ pblk' = pblk /\ tailBlock' = tailBlock /\ sent' = sent
  OBVIOUS
<1>4. ppc \in {"place", "publish", "advance"} => pblk \in 1 .. Len(blocks)
  BY <1>1 DEF ProducerInv
<1>5. ppc = "advance" => pblk' = blocks'[tailBlock'].next /\ Cnt(blocks'[pblk']) <= 1
  BY <1>1, <1>2, <1>3, <1>4 DEF ProducerInv
<1>6. ppc \in {"place", "publish"} =>
       /\ pblk' = tailBlock' \/ (pblk' = blocks'[tailBlock'].next /\ pblk' # frontBlock')
       /\ Succ(blocks'[pblk'].tail, Len(blocks'[pblk'].data)) # blocks'[pblk'].localFront
  BY <1>1, <1>2, <1>3, <1>4 DEF ProducerInv
<1>7. ppc \in {"ahead", "advance"} => blocks'[tailBlock'].next # frontBlock'
  BY <1>1, <1>2, <1>3 DEF ProducerInv
<1>8. ppc = "link" =>
       /\ pblk' = Len(blocks') /\ blocks'[pblk'].next = blocks'[tailBlock'].next
       /\ Cnt(blocks'[pblk']) = 1 /\ First(blocks'[pblk']) = Len(sent') + 1
  BY <1>1, <1>2, <1>3 DEF ProducerInv
<1>9. ppc \notin {"idle", "advance"} => Len(sent') < MaxItems
  BY <1>3 DEF ProducerInv
<1>10. ppc \in {"idle", "full", "ahead", "place", "publish", "alloc", "link", "advance"}
  BY DEF ProducerInv
<1> QED BY <1>3, <1>5, <1>6, <1>7, <1>8, <1>9, <1>10 DEF ProducerInv

\* What a step of the producer leaves of the blocks; t is the tail block.
ProducerTouch(bs, bs2, t) ==
  /\ Len(bs) <= Len(bs2)
  /\ \A b \in 1 .. Len(bs) :
       /\ bs2[b].front = bs[b].front /\ bs2[b].localTail = bs[b].localTail
       /\ b # t => bs2[b].next = bs[b].next
       /\ Cnt(bs[b]) > 0 => Cnt(bs2[b]) > 0 /\ First(bs2[b]) = First(bs[b])

\* What the consumer relies on survives such a step.
LEMMA ProducerKeepsConsumer ==
  ASSUME NEW T \in 0 .. Len(sent), SentInv, MemoryInv(T), ConsumerInv(T),
         UNCHANGED <<cpc, cop, cblk, cidx, cresult, frontBlock>>,
         ProducerTouch(blocks, blocks', tailBlock), InRing \in SUBSET InRing',
         frontBlock # tailBlock => tailBlock' # frontBlock /\ Cnt(blocks'[frontBlock]) = Cnt(blocks[frontBlock])
  PROVE  ConsumerInv(T)'
<1>1. /\ Len(blocks) \in Nat /\ frontBlock \in InRing /\ blocks[frontBlock].next \in InRing
      /\ InRing \in SUBSET (1 .. Len(blocks))
  BY InnerFacts
<1>2. \A b \in 1 .. Len(blocks) :
        /\ blocks'[b].front = blocks[b].front /\ blocks'[b].localTail = blocks[b].localTail
        /\ b # tailBlock => blocks'[b].next = blocks[b].next
        /\ Cnt(blocks[b]) > 0 => Cnt(blocks'[b]) > 0 /\ First(blocks'[b]) = First(blocks[b])
  BY DEF ProducerTouch
<1>3. cpc' = cpc /\ cop' = cop /\ cblk' = cblk /\ cidx' = cidx /\ cresult' = cresult /\ frontBlock' = frontBlock
  OBVIOUS
<1>4. cpc # "idle" => cblk \in InRing
  BY <1>1 DEF ConsumerInv
<1>5. cpc \in {"move", "take", "release"} => cblk' \in InRing' /\ cidx' = blocks'[cblk'].front
  BY <1>1, <1>2, <1>3, <1>4 DEF ConsumerInv
<1>6. cpc \in {"take", "release"} => Cnt(blocks'[cblk']) > 0 /\ First(blocks'[cblk']) = T + 1
  BY <1>1, <1>2, <1>3, <1>4 DEF ConsumerInv
<1>7. cpc \in {"move", "take", "release"} /\ cop # "peek" => blocks'[cblk'].localTail # blocks'[cblk'].front
  BY <1>1, <1>2, <1>3, <1>4 DEF ConsumerInv
<1>8. cpc \in {"enter", "move"} => cblk' = blocks'[frontBlock'].next
  BY <1>1, <1>2, <1>3 DEF ConsumerInv
<1>9. cpc \in {"next", "enter", "move"} => Cnt(blocks'[frontBlock']) = 0
  BY <1>3 DEF ConsumerInv
<1>10. cpc \in {"recheck", "next", "enter", "move"} => frontBlock' # tailBlock'
  BY <1>3 DEF ConsumerInv
<1>11. cpc \in {"look", "recheck"} => cidx' = blocks'[cblk'].front
  BY <1>1, <1>2, <1>3, <1>4 DEF ConsumerInv
<1>12. /\ cpc \in {"idle", "look", "recheck", "next", "enter", "move", "take", "release"}
       /\ cpc \in {"look", "recheck", "next"} => cblk = frontBlock
       /\ cpc \in {"take", "release"} /\ cop # "peek" => cblk = frontBlock
       /\ cpc = "release" => cresult = T + 1
       /\ cpc \in {"move", "release"} => cop # "peek"
  BY DEF ConsumerInv
<1> QED BY <1>3, <1>5, <1>6, <1>7, <1>8, <1>9, <1>10, <1>11, <1>12 DEF ConsumerInv


-----------------------------------------------------------------------------
(* The consumer's steps.                                                    *)

\* What a block at the front that holds something holds first.
LEMMA FrontOldest ==
  ASSUME NEW bs, NEW R, NEW p, NEW front, NEW last, NEW T \in Nat, NEW S \in Nat, T <= S,
         MemoryOK(bs, R, p, front, last, T, S), Cnt(bs[front]) > 0
  PROVE  T < S /\ First(bs[front]) = T + 1
<1>1. RingOK(R, NextOf(bs, R)) /\ ChainOK(R, NextOf(bs, R), FirstOf(bs, R), CountOf(bs, R), front, last, T, S)
  BY DEF MemoryOK
<1>2. front \in R
  BY MemoryFacts
<1>3. CountOf(bs, R)[front] = Cnt(bs[front]) /\ FirstOf(bs, R)[front] = First(bs[front])
  BY <1>2 DEF CountOf, FirstOf
<1>4. T < S
  <2>1. T = S => CountOf(bs, R)[front] = 0
    BY <1>1, <1>2, AllEmpty
  <2> QED BY <1>3, <2>1
<1> QED BY <1>1, <1>3, <1>4, OldestAt

\* The inner variables that only the producer changes.
Producers == <<ppc, pop, pblk, tailBlock, largestBlockSize, sent>>

\* A step of the consumer that keeps the chain, and touches a block of the ring at most.
LEMMA ConsumerCopies ==
  ASSUME NEW T \in 0 .. Len(sent), SentInv, MemoryInv(T), ProducerInv,
         UNCHANGED <<Producers, frontBlock>>,
         NEW b \in InRing, NEW k, Similar(k, blocks[b]), k.next = blocks[b].next, k.localFront = blocks[b].localFront,
         BlockOK(k, IF b = Placing THEN Len(sent) + 1 ELSE NoElement),
         Touched(blocks, blocks', b, k)
  PROVE  MemoryInv(T)' /\ ProducerInv'
<1>1. /\ Len(sent) \in Nat /\ T \in Nat /\ blocks \in Seq(BlockSet) /\ Len(blocks) \in Nat /\ InRing \in SUBSET (1 .. Len(blocks))
      /\ \A a \in 1 .. Len(blocks) : /\ blocks[a] \in BlockSet
                                     /\ BlockOK(blocks[a], IF a = Placing THEN Len(sent) + 1 ELSE NoElement)
  BY InnerFacts
<1>2. ppc' = ppc /\ pblk' = pblk /\ tailBlock' = tailBlock /\ largestBlockSize' = largestBlockSize /\ sent' = sent
      /\ frontBlock' = frontBlock /\ pop' = pop
  BY DEF Producers
<1>3. Len(blocks') = Len(blocks) /\ blocks'[b] = k /\ \A a \in 1 .. Len(blocks) : a # b => blocks'[a] = blocks[a]
  BY DEF Touched
<1>4. InRing' = InRing /\ Last' = Last /\ Placing' = Placing
  BY <1>2, <1>3 DEF InRing, Last, Placing
<1>5. MemoryOK(blocks, InRing, Placing, frontBlock, Last, T, Len(sent))
  BY DEF MemoryInv
<1>6. b \in 1 .. Len(blocks)
  BY <1>1
<1>7. MemoryOK(blocks', InRing, Placing, frontBlock, Last, T, Len(sent))
  BY <1>1, <1>5, <1>6, MemorySimilar
<1>8. MemoryInv(T)'
  BY <1>2, <1>4, <1>7 DEF MemoryInv
<1>9. blocks[b] \in BlockSet /\ Cnt(k) = Cnt(blocks[b]) /\ k.tail = blocks[b].tail /\ k.data = blocks[b].data
  BY <1>1, <1>6, SimilarSame DEF Similar
<1>10. \A a \in 1 .. Len(blocks) : Cnt(blocks[a]) \in Nat
  <2>1. SUFFICES ASSUME NEW a \in 1 .. Len(blocks)
                 PROVE  Cnt(blocks[a]) \in Nat
    OBVIOUS
  <2>2. blocks[a] \in BlockSet /\ BlockOK(blocks[a], IF a = Placing THEN Len(sent) + 1 ELSE NoElement)
    BY <1>1
  <2>3. Len(blocks[a].data) \in Nat \ {0, 1} /\ Cnt(blocks[a]) \in 0 .. Len(blocks[a].data) - 1
    BY <2>2, BlockCounts
  <2> QED BY <2>3
<1>11. \A a \in 1 .. Len(blocks) : Cnt(blocks'[a]) = Cnt(blocks[a])
  BY <1>3, <1>9
<1>12. ConsumerTouch(blocks, blocks')
  BY <1>3, <1>9, <1>10, <1>11 DEF ConsumerTouch
<1>13. ppc = "link" => blocks'[pblk] = blocks[pblk]
  <2>1. ppc = "link" => pblk # b /\ pblk \in 1 .. Len(blocks)
    BY <1>1, <1>6 DEF ProducerInv, InRing
  <2> QED BY <1>3, <2>1
<1>14. UNCHANGED <<ppc, pop, pblk, tailBlock, sent>>
  BY <1>2
<1>15. \A a \in 1 .. Len(blocks) : Cnt(blocks'[a]) \in Nat /\ Cnt(blocks[a]) \in Nat
  BY <1>10, <1>11
<1>16. ProducerInv'
  BY <1>2, <1>12, <1>13, <1>14, <1>15, ConsumerKeepsProducer
<1> QED BY <1>8, <1>16

\* Nothing that the memory and the producer consist of changes.
LEMMA ConsumerOnly ==
  ASSUME NEW T, MemoryInv(T), ProducerInv, UNCHANGED <<Producers, frontBlock, blocks>>
  PROVE  MemoryInv(T)' /\ ProducerInv'
BY DEF MemoryInv, ProducerInv, Producers, Last, Placing, InRing

\* The copy of the tail of block b is taken anew.
LEMMA TailCopied ==
  ASSUME NEW T \in 0 .. Len(sent), SentInv, MemoryInv(T), ProducerInv,
         UNCHANGED <<Producers, frontBlock>>,
         NEW b \in InRing, blocks' = [blocks EXCEPT ![b].localTail = blocks[b].tail]
  PROVE  /\ MemoryInv(T)' /\ ProducerInv'
         /\ InRing' = InRing
         /\ blocks'[b].localTail = blocks[b].tail /\ blocks'[b].front = blocks[b].front /\ blocks'[b].next = blocks[b].next
         /\ Cnt(blocks'[b]) = Cnt(blocks[b]) /\ First(blocks'[b]) = First(blocks[b])
         /\ \A a \in 1 .. Len(blocks) : a # b => blocks'[a] = blocks[a]
<1>1. /\ blocks \in Seq(BlockSet) /\ Len(blocks) \in Nat /\ b \in 1 .. Len(blocks)
      /\ blocks[b] \in BlockSet /\ BlockOK(blocks[b], IF b = Placing THEN Len(sent) + 1 ELSE NoElement)
  BY InnerFacts
<1> DEFINE k == [blocks[b] EXCEPT !.localTail = blocks[b].tail]
<1>2. Similar(k, blocks[b]) /\ BlockOK(k, IF b = Placing THEN Len(sent) + 1 ELSE NoElement) /\ k.next = blocks[b].next
  BY <1>1, CopyTail
<1>3. k.localFront = blocks[b].localFront /\ k.localTail = blocks[b].tail /\ k \in BlockSet
  BY <1>1, <1>2 DEF BlockSet, Similar
<1>4. blocks' = [blocks EXCEPT ![b] = k]
  OBVIOUS
<1> HIDE DEF k
<1>5. Touched(blocks, blocks', b, k)
  <2>1. Touched(blocks, [blocks EXCEPT ![b] = k], b, k)
    BY <1>1, <1>3, TouchedBy
  <2> QED BY <1>4, <2>1
<1>6. MemoryInv(T)' /\ ProducerInv'
  BY <1>2, <1>3, <1>5, ConsumerCopies
<1>7. Cnt(k) = Cnt(blocks[b]) /\ First(k) = First(blocks[b]) /\ k.front = blocks[b].front
  BY <1>1, <1>2, SimilarSame DEF Similar
<1>8. InRing' = InRing
  BY <1>5 DEF Touched, InRing, Producers
<1> QED BY <1>2, <1>3, <1>5, <1>6, <1>7, <1>8 DEF Touched


\* A copy of the tail that differs from front shows an element.
LEMMA CopyShows ==
  ASSUME NEW k \in BlockSet, NEW x, BlockOK(k, x), k.localTail # k.front
  PROVE  Cnt(k) > 0
<1>1. PICK n \in Nat : n = Len(k.data)
  BY BlockFields
<1>2. PICK f \in Nat, t \in Nat, lf \in Nat, lt \in Nat :
        f = k.front /\ t = k.tail /\ lf = k.localFront /\ lt = k.localTail
  BY BlockFields
<1>3. n >= 2 /\ CopiesOK(f, t, lf, lt, n) /\ lt # f
  BY <1>1, <1>2 DEF BlockOK
<1>4. Ahead(f, t, n) > 0
  BY <1>3 DEF CopiesOK, Ahead
<1> QED BY <1>1, <1>2, <1>4 DEF Cnt

\* The consumer is about to take the first element of the front block.
LEMMA ReadyToTake ==
  ASSUME NEW T, cpc' = "take", cblk' = frontBlock', cblk' \in InRing', cidx' = blocks'[cblk'].front,
         Cnt(blocks'[cblk']) > 0, First(blocks'[cblk']) = T + 1, blocks'[cblk'].localTail # blocks'[cblk'].front
  PROVE  ConsumerInv(T)'
BY DEF ConsumerInv

\* The beginning of try_dequeue, pop and peek.
LEMMA DequeueInner ==
  ASSUME NEW T \in 0 .. Len(sent), SentInv, InnerInv(T), NEW op \in DequeueCalls, Dequeue(op)
  PROVE  InnerInv(T)' /\ (cpc' = "look" => Cnt(blocks[frontBlock]) = 0)
<1>1. MemoryInv(T) /\ ProducerInv
  BY DEF InnerInv
<1>2. /\ Len(sent) \in Nat /\ T \in Nat /\ T <= Len(sent) /\ blocks \in Seq(BlockSet)
      /\ Len(blocks) \in Nat /\ frontBlock \in InRing /\ frontBlock \in 1 .. Len(blocks)
      /\ blocks[frontBlock] \in BlockSet
      /\ BlockOK(blocks[frontBlock], IF frontBlock = Placing THEN Len(sent) + 1 ELSE NoElement)
  BY <1>1, InnerFacts
<1>3. MemoryOK(blocks, InRing, Placing, frontBlock, Last, T, Len(sent))
  BY <1>1 DEF MemoryInv
<1>4. Cnt(blocks[frontBlock]) > 0 => First(blocks[frontBlock]) = T + 1
  BY <1>2, <1>3, FrontOldest
<1>5. UNCHANGED <<Producers, frontBlock>> /\ cblk' = frontBlock /\ cidx' = blocks[frontBlock].front
  BY DEF Dequeue, Producers, producerVars
<1>6. CASE blocks[frontBlock].front # blocks[frontBlock].localTail
  <2>1. blocks' = [blocks EXCEPT ![frontBlock].localTail = blocks[frontBlock].localTail] /\ cpc' = "take"
    BY <1>6 DEF Dequeue
  <2>2. [blocks[frontBlock] EXCEPT !.localTail = blocks[frontBlock].localTail] = blocks[frontBlock]
    BY <1>2 DEF BlockSet
  <2>3. blocks' = [blocks EXCEPT ![frontBlock] = [blocks[frontBlock] EXCEPT !.localTail = blocks[frontBlock].localTail]]
    BY <2>1
  <2>4. blocks' = [blocks EXCEPT ![frontBlock] = blocks[frontBlock]]
    BY <2>2, <2>3
  <2>5. blocks' = blocks
    BY <1>2, <2>4
  <2>6. MemoryInv(T)' /\ ProducerInv'
    BY <1>1, <1>5, <2>5, ConsumerOnly
  <2>7. InRing' = InRing
    BY <1>5, <2>5 DEF InRing, Producers
  <2>8. Cnt(blocks[frontBlock]) > 0
    BY <1>2, <1>6, CopyShows
  <2>9. ConsumerInv(T)'
    BY <1>2, <1>4, <1>5, <1>6, <2>1, <2>5, <2>7, <2>8, ReadyToTake
  <2> QED BY <2>1, <2>6, <2>9 DEF InnerInv
<1>7. CASE blocks[frontBlock].front = blocks[frontBlock].localTail
  <2>1. /\ blocks' = [blocks EXCEPT ![frontBlock].localTail = blocks[frontBlock].tail]
        /\ cpc' = IF blocks[frontBlock].front # blocks[frontBlock].tail THEN "take" ELSE "look"
    BY <1>7 DEF Dequeue
  <2>2. /\ MemoryInv(T)' /\ ProducerInv' /\ InRing' = InRing
        /\ blocks'[frontBlock].localTail = blocks[frontBlock].tail
        /\ blocks'[frontBlock].front = blocks[frontBlock].front
        /\ Cnt(blocks'[frontBlock]) = Cnt(blocks[frontBlock]) /\ First(blocks'[frontBlock]) = First(blocks[frontBlock])
    BY <1>1, <1>2, <1>5, <2>1, TailCopied
  <2>3. Cnt(blocks[frontBlock]) \in Nat /\ (Cnt(blocks[frontBlock]) = 0 <=> blocks[frontBlock].front = blocks[frontBlock].tail)
    BY <1>2, BlockCounts
  <2>4. CASE blocks[frontBlock].front # blocks[frontBlock].tail
    <3>1. ConsumerInv(T)'
      <4>1. cpc' = "take" /\ cblk' = frontBlock' /\ cblk' = frontBlock /\ cblk' \in InRing' /\ cidx' = blocks'[cblk'].front
        BY <1>2, <1>5, <2>1, <2>2, <2>4
      <4>2. Cnt(blocks'[cblk']) > 0 /\ First(blocks'[cblk']) = T + 1
        BY <1>4, <2>2, <2>3, <2>4, <4>1
      <4> QED BY <2>2, <2>4, <4>1, <4>2, ReadyToTake
    <3> QED BY <2>1, <2>2, <2>4, <3>1 DEF InnerInv
  <2>5. CASE blocks[frontBlock].front = blocks[frontBlock].tail
    <3>1. ConsumerInv(T)'
      BY <1>5, <2>1, <2>2, <2>5 DEF ConsumerInv
    <3> QED BY <2>1, <2>2, <2>3, <2>5, <3>1 DEF InnerInv
  <2> QED BY <2>4, <2>5
<1> QED BY <1>6, <1>7

\* Is the front block the tail block too?
LEMMA LoadTailBlockInner ==
  ASSUME NEW T \in 0 .. Len(sent), SentInv, InnerInv(T), DequeueLoadTailBlock
  PROVE  InnerInv(T)'
<1>1. UNCHANGED <<Producers, frontBlock, blocks>>
  BY DEF DequeueLoadTailBlock, Producers, queueVars, producerVars
<1>2. MemoryInv(T)' /\ ProducerInv'
  BY <1>1, ConsumerOnly DEF InnerInv
<1>3. ConsumerInv(T)'
  BY <1>1 DEF DequeueLoadTailBlock, ConsumerReturns, ConsumerInv, InnerInv, Producers
<1> QED BY <1>2, <1>3 DEF InnerInv

\* The tail of the front block is read again.
LEMMA RecheckInner ==
  ASSUME NEW T \in 0 .. Len(sent), SentInv, InnerInv(T), DequeueRecheck
  PROVE  InnerInv(T)'
<1>1. MemoryInv(T) /\ ProducerInv
  BY DEF InnerInv
<1>2. /\ cpc = "recheck" /\ cblk = frontBlock /\ cidx = blocks[frontBlock].front /\ frontBlock # tailBlock
      /\ cpc' = IF blocks[frontBlock].front # blocks[frontBlock].tail THEN "take" ELSE "next"
      /\ blocks' = [blocks EXCEPT ![frontBlock].localTail = blocks[frontBlock].tail]
      /\ UNCHANGED <<Producers, frontBlock>> /\ UNCHANGED <<cop, cblk, cidx, cresult>>
  BY DEF DequeueRecheck, InnerInv, ConsumerInv, Producers, producerVars, history
<1>3. /\ Len(sent) \in Nat /\ T \in Nat /\ T <= Len(sent) /\ frontBlock \in InRing
      /\ blocks[frontBlock] \in BlockSet
      /\ BlockOK(blocks[frontBlock], IF frontBlock = Placing THEN Len(sent) + 1 ELSE NoElement)
  BY <1>1, InnerFacts
<1>4. MemoryOK(blocks, InRing, Placing, frontBlock, Last, T, Len(sent))
  BY <1>1 DEF MemoryInv
<1>5. Cnt(blocks[frontBlock]) > 0 => First(blocks[frontBlock]) = T + 1
  BY <1>3, <1>4, FrontOldest
<1>6. /\ MemoryInv(T)' /\ ProducerInv' /\ InRing' = InRing
      /\ blocks'[frontBlock].localTail = blocks[frontBlock].tail
      /\ blocks'[frontBlock].front = blocks[frontBlock].front
      /\ Cnt(blocks'[frontBlock]) = Cnt(blocks[frontBlock]) /\ First(blocks'[frontBlock]) = First(blocks[frontBlock])
  BY <1>1, <1>2, <1>3, TailCopied
<1>7. Cnt(blocks[frontBlock]) \in Nat /\ (Cnt(blocks[frontBlock]) = 0 <=> blocks[frontBlock].front = blocks[frontBlock].tail)
  BY <1>3, BlockCounts
<1>8. CASE blocks[frontBlock].front # blocks[frontBlock].tail
  <2>1. ConsumerInv(T)'
    BY <1>2, <1>3, <1>5, <1>6, <1>7, <1>8, ReadyToTake
  <2> QED BY <1>6, <2>1 DEF InnerInv
<1>9. CASE blocks[frontBlock].front = blocks[frontBlock].tail
  <2>1. ConsumerInv(T)'
    BY <1>2, <1>6, <1>7, <1>9 DEF ConsumerInv, Producers
  <2> QED BY <1>6, <2>1 DEF InnerInv
<1> QED BY <1>8, <1>9

\* The front block is empty and left: the next one.
LEMMA LoadNextInner ==
  ASSUME NEW T \in 0 .. Len(sent), SentInv, InnerInv(T), DequeueLoadNext
  PROVE  InnerInv(T)'
<1>1. UNCHANGED <<Producers, frontBlock, blocks>>
  BY DEF DequeueLoadNext, Producers, queueVars, producerVars, history
<1>2. MemoryInv(T)' /\ ProducerInv'
  BY <1>1, ConsumerOnly DEF InnerInv
<1>3. ConsumerInv(T)'
  BY <1>1 DEF DequeueLoadNext, ConsumerInv, InnerInv, Producers
<1> QED BY <1>2, <1>3 DEF InnerInv

\* Beyond an empty front block that the producer has left, there is the oldest element.
LEMMA BeyondFront ==
  ASSUME NEW T \in 0 .. Len(sent), SentInv, MemoryInv(T), ProducerInv,
         frontBlock # tailBlock, Cnt(blocks[frontBlock]) = 0
  PROVE  /\ T < Len(sent) /\ frontBlock # Last /\ blocks[frontBlock].next \in InRing
         /\ Cnt(blocks[blocks[frontBlock].next]) > 0 /\ First(blocks[blocks[frontBlock].next]) = T + 1
         /\ MemoryOK(blocks, InRing, Placing, blocks[frontBlock].next, Last, T, Len(sent))
<1>1. /\ Len(sent) \in Nat /\ T \in Nat /\ T <= Len(sent) /\ frontBlock \in InRing
      /\ blocks[frontBlock].next \in InRing
  BY InnerFacts
<1>2. frontBlock # Last
  BY DEF Last, ProducerInv
<1>3. MemoryOK(blocks, InRing, Placing, frontBlock, Last, T, Len(sent))
  BY DEF MemoryInv
<1> DEFINE nx == NextOf(blocks, InRing)
           lo == FirstOf(blocks, InRing)
           n == CountOf(blocks, InRing)
<1>4. RingOK(InRing, nx) /\ ChainOK(InRing, nx, lo, n, frontBlock, Last, T, Len(sent))
  BY <1>3 DEF MemoryOK
<1>5. nx[frontBlock] = blocks[frontBlock].next /\ n[frontBlock] = 0
      /\ n[blocks[frontBlock].next] = Cnt(blocks[blocks[frontBlock].next])
      /\ lo[blocks[frontBlock].next] = First(blocks[blocks[frontBlock].next])
  BY <1>1 DEF NextOf, FirstOf, CountOf
<1> HIDE DEF nx, lo, n
<1>6. T < Len(sent) /\ n[nx[frontBlock]] > 0 /\ lo[nx[frontBlock]] = T + 1
      /\ ChainOK(InRing, nx, lo, n, nx[frontBlock], Last, T, Len(sent))
  BY <1>1, <1>2, <1>4, <1>5, MoveFront
<1>7. MemoryOK(blocks, InRing, Placing, blocks[frontBlock].next, Last, T, Len(sent))
  BY <1>3, <1>4, <1>5, <1>6 DEF MemoryOK, nx, lo, n
<1> QED BY <1>1, <1>2, <1>5, <1>6, <1>7


\* The next block is not empty.
LEMMA EnterInner ==
  ASSUME NEW T \in 0 .. Len(sent), SentInv, InnerInv(T), DequeueEnter
  PROVE  InnerInv(T)'
<1>1. MemoryInv(T) /\ ProducerInv
  BY DEF InnerInv
<1>2. /\ cpc = "enter" /\ cblk = blocks[frontBlock].next /\ frontBlock # tailBlock /\ Cnt(blocks[frontBlock]) = 0
      /\ cidx' = blocks[cblk].front /\ cpc' = IF cop = "peek" THEN "take" ELSE "move"
      /\ UNCHANGED <<Producers, frontBlock>> /\ UNCHANGED <<cop, cblk, cresult>>
  BY DEF DequeueEnter, InnerInv, ConsumerInv, Producers, producerVars, history
<1>3. cblk \in InRing /\ Cnt(blocks[cblk]) > 0 /\ First(blocks[cblk]) = T + 1
  BY <1>1, <1>2, BeyondFront
<1>4. CASE cop = "peek"
  <2>1. blocks' = blocks
    BY <1>4 DEF DequeueEnter
  <2>2. MemoryInv(T)' /\ ProducerInv'
    BY <1>1, <1>2, <2>1, ConsumerOnly
  <2>3. InRing' = InRing
    BY <1>2, <2>1 DEF InRing, Producers
  <2>4. ConsumerInv(T)'
    BY <1>2, <1>3, <1>4, <2>1, <2>3 DEF ConsumerInv
  <2> QED BY <2>2, <2>4 DEF InnerInv
<1>5. CASE cop # "peek"
  <2>1. blocks' = [blocks EXCEPT ![cblk].localTail = blocks[cblk].tail]
    BY <1>5 DEF DequeueEnter
  <2>2. /\ MemoryInv(T)' /\ ProducerInv' /\ InRing' = InRing
        /\ blocks'[cblk].localTail = blocks[cblk].tail /\ blocks'[cblk].front = blocks[cblk].front
        /\ Cnt(blocks'[cblk]) = Cnt(blocks[cblk]) /\ blocks'[cblk].next = blocks[cblk].next
        /\ \A a \in 1 .. Len(blocks) : a # cblk => blocks'[a] = blocks[a]
    BY <1>1, <1>2, <1>3, <2>1, TailCopied
  <2>3. /\ InRing \in SUBSET (1 .. Len(blocks)) /\ frontBlock \in 1 .. Len(blocks)
        /\ blocks[cblk] \in BlockSet
        /\ BlockOK(blocks[cblk], IF cblk = Placing THEN Len(sent) + 1 ELSE NoElement)
    BY <1>1, <1>3, InnerFacts
  <2>4. blocks[cblk].front # blocks[cblk].tail
    BY <1>3, <2>3, BlockCounts
  <2>5. Cnt(blocks'[frontBlock]) = 0 /\ blocks'[frontBlock].next = cblk
    BY <1>2, <2>2, <2>3
  <2>6. ConsumerInv(T)'
    BY <1>2, <1>3, <1>5, <2>2, <2>4, <2>5 DEF ConsumerInv, Producers
  <2> QED BY <2>2, <2>6 DEF InnerInv
<1> QED BY <1>4, <1>5

\* It becomes the front block.
LEMMA StoreFrontBlockInner ==
  ASSUME NEW T \in 0 .. Len(sent), SentInv, InnerInv(T), DequeueStoreFrontBlock
  PROVE  InnerInv(T)'
<1>1. MemoryInv(T) /\ ProducerInv
  BY DEF InnerInv
<1>2. /\ cpc = "move" /\ cblk = blocks[frontBlock].next /\ frontBlock # tailBlock /\ Cnt(blocks[frontBlock]) = 0
      /\ cidx = blocks[cblk].front /\ cop # "peek" /\ blocks[cblk].localTail # blocks[cblk].front
      /\ cpc' = "take" /\ frontBlock' = cblk /\ blocks' = blocks
      /\ UNCHANGED Producers /\ UNCHANGED <<cop, cblk, cidx, cresult>>
  BY DEF DequeueStoreFrontBlock, InnerInv, ConsumerInv, Producers, producerVars, history
<1>3. /\ cblk \in InRing /\ Cnt(blocks[cblk]) > 0 /\ First(blocks[cblk]) = T + 1
      /\ MemoryOK(blocks, InRing, Placing, cblk, Last, T, Len(sent))
  BY <1>1, <1>2, BeyondFront
<1>4. InRing' = InRing /\ Last' = Last /\ Placing' = Placing
  BY <1>2 DEF InRing, Last, Placing, Producers
<1>5. MemoryInv(T)'
  BY <1>1, <1>2, <1>3, <1>4 DEF MemoryInv, Producers
<1>6. /\ Len(blocks) \in Nat /\ tailBlock \in InRing /\ frontBlock \in InRing /\ T \in Nat /\ Len(sent) \in Nat
      /\ \A a \in 1 .. Len(blocks) : /\ blocks[a] \in BlockSet
                                     /\ BlockOK(blocks[a], IF a = Placing THEN Len(sent) + 1 ELSE NoElement)
  BY <1>1, InnerFacts
<1>7. blocks[tailBlock].next # cblk
  <2>1. RingOK(InRing, NextOf(blocks, InRing))
    BY <1>1 DEF MemoryInv, MemoryOK
  <2>2. NextOf(blocks, InRing)[tailBlock] = blocks[tailBlock].next /\ NextOf(blocks, InRing)[frontBlock] = cblk
    BY <1>2, <1>6 DEF NextOf
  <2> QED BY <1>2, <1>6, <2>1, <2>2 DEF RingOK
<1>8. \A a \in 1 .. Len(blocks) : Cnt(blocks[a]) \in Nat
  <2>1. SUFFICES ASSUME NEW a \in 1 .. Len(blocks)
                 PROVE  Cnt(blocks[a]) \in Nat
    OBVIOUS
  <2>2. blocks[a] \in BlockSet /\ BlockOK(blocks[a], IF a = Placing THEN Len(sent) + 1 ELSE NoElement)
    BY <1>6
  <2>3. Len(blocks[a].data) \in Nat \ {0, 1} /\ Cnt(blocks[a]) \in 0 .. Len(blocks[a].data) - 1
    BY <2>2, BlockCounts
  <2> QED BY <2>3
<1>9. ConsumerTouch(blocks, blocks')
  BY <1>2, <1>8 DEF ConsumerTouch
<1>10. ProducerInv'
  <2>1. UNCHANGED <<ppc, pop, pblk, tailBlock, sent>>
    BY <1>2 DEF Producers
  <2> QED BY <1>1, <1>2, <1>7, <1>8, <1>9, <2>1, ConsumerKeepsProducer
<1>11. ConsumerInv(T)'
  BY <1>2, <1>3, <1>4, ReadyToTake
<1> QED BY <1>5, <1>10, <1>11 DEF InnerInv

\* The oldest element is moved out, or peeked at.
LEMMA TakeInner ==
  ASSUME NEW T \in 0 .. Len(sent), SentInv, InnerInv(T), DequeueTake
  PROVE  InnerInv(T)'
<1>1. UNCHANGED <<Producers, frontBlock, blocks>> /\ cpc = "take"
  BY DEF DequeueTake, Producers, queueVars, producerVars
<1>2. MemoryInv(T)' /\ ProducerInv'
  BY <1>1, ConsumerOnly DEF InnerInv
<1>3. InRing' = InRing
  BY <1>1 DEF InRing, Producers
<1>4. CASE cop = "peek"
  <2>1. cpc' = "idle"
    BY <1>4 DEF DequeueTake, ConsumerReturns
  <2>2. ConsumerInv(T)'
    BY <2>1 DEF ConsumerInv
  <2> QED BY <1>2, <2>2 DEF InnerInv
<1>5. CASE cop # "peek"
  <2>1. cpc' = "release" /\ cresult' = Slot(cblk, cidx) /\ UNCHANGED <<cop, cblk, cidx>>
    BY <1>5 DEF DequeueTake
  <2>2. /\ cblk \in InRing /\ cidx = blocks[cblk].front /\ Cnt(blocks[cblk]) > 0 /\ First(blocks[cblk]) = T + 1
        /\ blocks[cblk].localTail # blocks[cblk].front /\ cblk = frontBlock
    BY <1>1, <1>5 DEF InnerInv, ConsumerInv
  <2>3. cresult' = T + 1
    BY <2>1, <2>2 DEF Slot, First
  <2>4. ConsumerInv(T)'
    BY <1>1, <1>3, <1>5, <2>1, <2>2, <2>3 DEF ConsumerInv
  <2> QED BY <1>2, <2>4 DEF InnerInv
<1> QED BY <1>4, <1>5

\* Its slot is given back: one more element has been taken.
LEMMA ReleaseInner ==
  ASSUME NEW T \in 0 .. Len(sent), SentInv, InnerInv(T), DequeueRelease
  PROVE  T + 1 \in 0 .. Len(sent) /\ InnerInv(T + 1)'
<1>1. MemoryInv(T) /\ ProducerInv
  BY DEF InnerInv
<1>2. /\ cpc = "release" /\ cblk = frontBlock /\ cidx = blocks[frontBlock].front
      /\ Cnt(blocks[frontBlock]) > 0 /\ blocks[frontBlock].localTail # blocks[frontBlock].front
      /\ cpc' = "idle"
      /\ UNCHANGED <<Producers, frontBlock>>
      /\ blocks' = [blocks EXCEPT ![frontBlock].front = Following(frontBlock, blocks[frontBlock].front),
                                  ![frontBlock].data[blocks[frontBlock].front + 1] = NoElement]
  BY DEF DequeueRelease, ConsumerReturns, InnerInv, ConsumerInv, Producers, producerVars
<1>3. /\ Len(sent) \in Nat /\ T \in Nat /\ T <= Len(sent) /\ blocks \in Seq(BlockSet) /\ Len(blocks) \in Nat
      /\ InRing \in SUBSET (1 .. Len(blocks)) /\ frontBlock \in InRing /\ frontBlock \in 1 .. Len(blocks)
      /\ \A a \in 1 .. Len(blocks) : /\ blocks[a] \in BlockSet
                                     /\ BlockOK(blocks[a], IF a = Placing THEN Len(sent) + 1 ELSE NoElement)
  BY <1>1, InnerFacts
<1>4. MemoryOK(blocks, InRing, Placing, frontBlock, Last, T, Len(sent))
  BY <1>1 DEF MemoryInv
<1>5. T < Len(sent)
  BY <1>2, <1>3, <1>4, FrontOldest
<1>6. PICK B \in BlockSet : B = blocks[frontBlock]
  BY <1>3
<1>7. PICK x : BlockOK(B, x) /\ x = IF frontBlock = Placing THEN Len(sent) + 1 ELSE NoElement
  BY <1>3, <1>6
<1> DEFINE k == [B EXCEPT !.front = Succ(B.front, Len(B.data)), !.data[B.front + 1] = NoElement]
<1>8. /\ k \in BlockSet /\ BlockOK(k, x) /\ k.next = B.next
      /\ Cnt(k) = Cnt(B) - 1 /\ (Cnt(k) > 0 => First(k) = First(B) + 1)
  BY <1>2, <1>6, <1>7, Removed
<1>9. k.tail = B.tail /\ k.localFront = B.localFront /\ Len(k.data) = Len(B.data)
  <2>1. B.front + 1 \in 1 .. Len(B.data) /\ B.data \in Seq(Nat) /\ NoElement \in Nat
    BY <1>7, BlockCounts, BlockFields DEF NoElement
  <2>2. k.data = [B.data EXCEPT ![B.front + 1] = NoElement]
    BY DEF BlockSet
  <2>3. Len(k.data) = Len(B.data)
    BY <2>1, <2>2, ExceptSeq
  <2>4. k.tail = B.tail /\ k.localFront = B.localFront
    BY DEF BlockSet
  <2> QED BY <2>3, <2>4
<1>10. blocks' = [blocks EXCEPT ![frontBlock] = k]
  <2>1. B.front \in 0 .. Len(B.data) - 1
    BY <1>7, BlockCounts
  <2>2. Following(frontBlock, B.front) = Succ(B.front, Len(B.data))
    BY <1>3, <1>6, <1>7, <2>1, FollowingIs
  <2> QED BY <1>2, <1>6, <2>2
<1> HIDE DEF k
<1>11. Touched(blocks, blocks', frontBlock, k)
  BY <1>3, <1>8, <1>10, TouchedBy
<1>12. MemoryOK(blocks', InRing, Placing, frontBlock, Last, T + 1, Len(sent))
  BY <1>2, <1>3, <1>4, <1>5, <1>6, <1>7, <1>8, <1>11, MemoryTaken
<1>13. Len(blocks') = Len(blocks) /\ blocks'[frontBlock] = k /\ \A a \in 1 .. Len(blocks) : a # frontBlock => blocks'[a] = blocks[a]
  BY <1>11 DEF Touched
<1>14. InRing' = InRing /\ Last' = Last /\ Placing' = Placing
  BY <1>2, <1>13 DEF InRing, Last, Placing, Producers
<1>15. MemoryInv(T + 1)'
  BY <1>1, <1>2, <1>12, <1>14 DEF MemoryInv, Producers
<1>16. \A a \in 1 .. Len(blocks) : Cnt(blocks[a]) \in Nat
  <2>1. SUFFICES ASSUME NEW a \in 1 .. Len(blocks)
                 PROVE  Cnt(blocks[a]) \in Nat
    OBVIOUS
  <2>2. blocks[a] \in BlockSet /\ BlockOK(blocks[a], IF a = Placing THEN Len(sent) + 1 ELSE NoElement)
    BY <1>3
  <2>3. Len(blocks[a].data) \in Nat \ {0, 1} /\ Cnt(blocks[a]) \in 0 .. Len(blocks[a].data) - 1
    BY <2>2, BlockCounts
  <2> QED BY <2>3
<1>17. Cnt(k) \in Nat /\ Cnt(k) <= Cnt(blocks[frontBlock])
  BY <1>2, <1>3, <1>6, <1>8, <1>16
<1>18. ConsumerTouch(blocks, blocks')
  BY <1>6, <1>8, <1>9, <1>13, <1>16, <1>17 DEF ConsumerTouch
<1>19. \A a \in 1 .. Len(blocks) : Cnt(blocks'[a]) \in Nat /\ Cnt(blocks[a]) \in Nat
  BY <1>13, <1>16, <1>17
<1>20. ppc = "link" => blocks'[pblk] = blocks[pblk]
  <2>1. ppc = "link" => pblk # frontBlock /\ pblk \in 1 .. Len(blocks)
    BY <1>1, <1>3 DEF ProducerInv, InRing
  <2> QED BY <1>13, <2>1
<1>21. ProducerInv'
  <2>1. UNCHANGED <<ppc, pop, pblk, tailBlock, sent>>
    BY <1>2 DEF Producers
  <2> QED BY <1>1, <1>2, <1>18, <1>19, <1>20, <2>1, ConsumerKeepsProducer
<1>22. ConsumerInv(T + 1)'
  BY <1>2 DEF ConsumerInv
<1> QED BY <1>3, <1>5, <1>15, <1>21, <1>22 DEF InnerInv


-----------------------------------------------------------------------------
(* The producer's steps.                                                    *)

\* The inner variables that only the consumer changes.
Consumers == <<cpc, cop, cblk, cidx, cresult, frontBlock>>

\* The program counters at which nothing is half done.
Whole == {"idle", "full", "ahead", "place", "alloc"}

\* Then all the blocks are in the ring and no element is being placed.
LEMMA WholeState ==
  ASSUME ppc \in Whole
  PROVE  InRing = 1 .. Len(blocks) /\ Last = tailBlock /\ Placing = 0
BY DEF InRing, Last, Placing, Whole

\* The same of the state after a step.
LEMMA WholeAfter ==
  ASSUME ppc' \in Whole
  PROVE  InRing' = 1 .. Len(blocks') /\ Last' = tailBlock' /\ Placing' = 0
BY DEF InRing, Last, Placing, Whole

\* Nothing that the memory and the consumer consist of changes.
LEMMA ProducerOnly ==
  ASSUME NEW T, MemoryInv(T), ConsumerInv(T), UNCHANGED <<Consumers, blocks, tailBlock, largestBlockSize, sent>>,
         ppc \in Whole, ppc' \in Whole
  PROVE  MemoryInv(T)' /\ ConsumerInv(T)'
<1>1. InRing' = InRing /\ Last' = Last /\ Placing' = Placing
  BY WholeState, WholeAfter
<1> QED BY <1>1 DEF MemoryInv, ConsumerInv, Consumers

\* The copy of the front of block b is taken anew.
LEMMA FrontCopied ==
  ASSUME NEW T \in 0 .. Len(sent), SentInv, MemoryInv(T), ConsumerInv(T),
         UNCHANGED <<Consumers, tailBlock, largestBlockSize, sent>>, ppc \in Whole, ppc' \in Whole,
         NEW b \in InRing, blocks' = [blocks EXCEPT ![b].localFront = blocks[b].front]
  PROVE  /\ MemoryInv(T)' /\ ConsumerInv(T)'
         /\ blocks'[b].localFront = blocks[b].front /\ blocks'[b].tail = blocks[b].tail
         /\ Len(blocks'[b].data) = Len(blocks[b].data)
         /\ \A a \in 1 .. Len(blocks) : blocks'[a].next = blocks[a].next
<1>1. /\ Len(sent) \in Nat /\ T \in Nat /\ blocks \in Seq(BlockSet) /\ Len(blocks) \in Nat /\ b \in 1 .. Len(blocks)
      /\ InRing \in SUBSET (1 .. Len(blocks)) /\ frontBlock \in InRing
      /\ blocks[b] \in BlockSet /\ BlockOK(blocks[b], IF b = Placing THEN Len(sent) + 1 ELSE NoElement)
  BY InnerFacts
<1> DEFINE k == [blocks[b] EXCEPT !.localFront = blocks[b].front]
<1>2. Similar(k, blocks[b]) /\ BlockOK(k, IF b = Placing THEN Len(sent) + 1 ELSE NoElement) /\ k.next = blocks[b].next
  BY <1>1, CopyFront
<1>3. k.localFront = blocks[b].front /\ k.localTail = blocks[b].localTail /\ k \in BlockSet
  BY <1>1, <1>2 DEF BlockSet, Similar
<1>4. blocks' = [blocks EXCEPT ![b] = k]
  OBVIOUS
<1> HIDE DEF k
<1>5. Touched(blocks, blocks', b, k)
  <2>1. Touched(blocks, [blocks EXCEPT ![b] = k], b, k)
    BY <1>1, <1>3, TouchedBy
  <2> QED BY <1>4, <2>1
<1>6. Len(blocks') = Len(blocks) /\ blocks'[b] = k /\ \A a \in 1 .. Len(blocks) : a # b => blocks'[a] = blocks[a]
  BY <1>5 DEF Touched
<1>7. InRing' = InRing /\ Last' = Last /\ Placing' = Placing
  BY <1>6, WholeState, WholeAfter
<1>8. MemoryOK(blocks, InRing, Placing, frontBlock, Last, T, Len(sent))
  BY DEF MemoryInv
<1>9. MemoryOK(blocks', InRing, Placing, frontBlock, Last, T, Len(sent))
  BY <1>1, <1>2, <1>5, <1>8, MemorySimilar
<1>10. MemoryInv(T)'
  BY <1>7, <1>9 DEF MemoryInv, Consumers
<1>11. Cnt(k) = Cnt(blocks[b]) /\ First(k) = First(blocks[b]) /\ k.front = blocks[b].front /\ k.tail = blocks[b].tail
       /\ k.data = blocks[b].data
  BY <1>1, <1>2, SimilarSame DEF Similar
<1>12. ProducerTouch(blocks, blocks', tailBlock)
  BY <1>1, <1>2, <1>3, <1>6, <1>11 DEF ProducerTouch
<1>13. Cnt(blocks'[frontBlock]) = Cnt(blocks[frontBlock])
  BY <1>1, <1>6, <1>11
<1>14. ConsumerInv(T)'
  <2>1. UNCHANGED <<cpc, cop, cblk, cidx, cresult, frontBlock>> /\ InRing \in SUBSET InRing' /\ tailBlock' = tailBlock
    BY <1>7 DEF Consumers
  <2>2. frontBlock # tailBlock => tailBlock' # frontBlock /\ Cnt(blocks'[frontBlock]) = Cnt(blocks[frontBlock])
    BY <1>13, <2>1
  <2> QED BY <1>12, <2>1, <2>2, ProducerKeepsConsumer
<1> QED BY <1>2, <1>3, <1>6, <1>10, <1>11, <1>14

\* The beginning of inner_enqueue.
LEMMA InnerEnqueueInner ==
  ASSUME NEW T \in 0 .. Len(sent), SentInv, InnerInv(T), NEW op, InnerEnqueue(op)
  PROVE  InnerInv(T)'
<1>1. MemoryInv(T) /\ ConsumerInv(T) /\ ProducerInv
  BY DEF InnerInv
<1> DEFINE b == tailBlock
           next == Following(b, blocks[b].tail)
           front == IF next # blocks[b].localFront THEN blocks[b].localFront ELSE blocks[b].front
<1>2. /\ ppc = "idle" /\ Len(sent) < MaxItems /\ pblk' = b
      /\ blocks' = [blocks EXCEPT ![b].localFront = front] /\ ppc' = IF next # front THEN "place" ELSE "full"
      /\ UNCHANGED <<Consumers, tailBlock, largestBlockSize, sent>>
  BY DEF InnerEnqueue, Consumers, consumerVars
<1>3. ppc \in Whole /\ ppc' \in Whole
  BY <1>2 DEF Whole
<1>4. /\ blocks \in Seq(BlockSet) /\ Len(blocks) \in Nat /\ b \in InRing /\ b \in 1 .. Len(blocks)
      /\ blocks[b] \in BlockSet /\ BlockOK(blocks[b], IF b = Placing THEN Len(sent) + 1 ELSE NoElement)
  BY <1>1, InnerFacts
<1>5. next = Succ(blocks[b].tail, Len(blocks[b].data))
  <2>1. blocks[b].tail \in 0 .. Len(blocks[b].data) - 1
    BY <1>4, BlockCounts
  <2> QED BY <1>4, <2>1, FollowingIs
<1>6. CASE next # blocks[b].localFront
  <2>1. blocks' = [blocks EXCEPT ![b].localFront = blocks[b].localFront] /\ ppc' = "place"
    BY <1>2, <1>6
  <2>2. [blocks[b] EXCEPT !.localFront = blocks[b].localFront] = blocks[b]
    BY <1>4 DEF BlockSet
  <2>3. blocks' = [blocks EXCEPT ![b] = [blocks[b] EXCEPT !.localFront = blocks[b].localFront]]
    BY <2>1
  <2>4. blocks' = [blocks EXCEPT ![b] = blocks[b]]
    BY <2>2, <2>3
  <2>5. blocks' = blocks
    BY <1>4, <2>4
  <2>6. MemoryInv(T)' /\ ConsumerInv(T)'
    BY <1>1, <1>2, <1>3, <2>5, ProducerOnly
  <2>7. ProducerInv'
    BY <1>2, <1>5, <1>6, <2>1, <2>5 DEF ProducerInv
  <2> QED BY <2>6, <2>7 DEF InnerInv
<1>7. CASE next = blocks[b].localFront
  <2>1. blocks' = [blocks EXCEPT ![b].localFront = blocks[b].front]
        /\ ppc' = IF next # blocks[b].front THEN "place" ELSE "full"
    BY <1>2, <1>7
  <2>2. /\ MemoryInv(T)' /\ ConsumerInv(T)'
        /\ blocks'[b].localFront = blocks[b].front /\ blocks'[b].tail = blocks[b].tail
        /\ Len(blocks'[b].data) = Len(blocks[b].data)
    BY <1>1, <1>2, <1>3, <1>4, <2>1, FrontCopied
  <2>3. ProducerInv'
    BY <1>2, <1>5, <2>1, <2>2 DEF ProducerInv
  <2> QED BY <2>2, <2>3 DEF InnerInv
<1> QED BY <1>6, <1>7

\* The tail block is full: what is after it?
LEMMA CheckNextInner ==
  ASSUME NEW T \in 0 .. Len(sent), SentInv, InnerInv(T), EnqueueCheckNext
  PROVE  InnerInv(T)'
<1>1. MemoryInv(T) /\ ConsumerInv(T) /\ ProducerInv
  BY DEF InnerInv
<1>2. /\ ppc = "full" /\ UNCHANGED <<Consumers, blocks, tailBlock, largestBlockSize, sent>>
      /\ ppc' \in {"ahead", "alloc", "idle"} /\ (ppc' = "ahead" => blocks[tailBlock].next # frontBlock)
  BY DEF EnqueueCheckNext, ProducerReturns, Consumers, consumerVars, queueVars
<1>3. ppc \in Whole /\ ppc' \in Whole
  BY <1>2 DEF Whole
<1>4. MemoryInv(T)' /\ ConsumerInv(T)'
  BY <1>1, <1>2, <1>3, ProducerOnly
<1>5. ProducerInv'
  BY <1>1, <1>2 DEF ProducerInv, Consumers
<1> QED BY <1>4, <1>5 DEF InnerInv

\* The block ahead of the tail block is empty, unless it is the front block.
LEMMA NextEmpty ==
  ASSUME NEW T \in 0 .. Len(sent), SentInv, MemoryInv(T), Last = tailBlock, blocks[tailBlock].next # frontBlock
  PROVE  blocks[tailBlock].next \in InRing /\ Cnt(blocks[blocks[tailBlock].next]) = 0
<1>1. /\ Len(sent) \in Nat /\ T \in Nat /\ T <= Len(sent) /\ tailBlock \in InRing /\ blocks[tailBlock].next \in InRing
  BY InnerFacts
<1> DEFINE nx == NextOf(blocks, InRing)
           lo == FirstOf(blocks, InRing)
           n == CountOf(blocks, InRing)
<1>2. RingOK(InRing, nx) /\ ChainOK(InRing, nx, lo, n, frontBlock, tailBlock, T, Len(sent))
  BY DEF MemoryInv, MemoryOK
<1>3. nx[tailBlock] = blocks[tailBlock].next /\ n[blocks[tailBlock].next] = Cnt(blocks[blocks[tailBlock].next])
  BY <1>1 DEF NextOf, CountOf
<1> HIDE DEF nx, lo, n
<1>4. n[nx[tailBlock]] = 0
  BY <1>1, <1>2, <1>3, AheadEmpty
<1> QED BY <1>1, <1>3, <1>4

\* The block after it is empty and becomes the one to write to.
LEMMA AheadInner ==
  ASSUME NEW T \in 0 .. Len(sent), SentInv, InnerInv(T), EnqueueAhead
  PROVE  InnerInv(T)'
<1>1. MemoryInv(T) /\ ConsumerInv(T) /\ ProducerInv
  BY DEF InnerInv
<1> DEFINE b == blocks[tailBlock].next
<1>2. /\ ppc = "ahead" /\ ppc' = "place" /\ pblk' = b /\ b # frontBlock /\ Len(sent) < MaxItems
      /\ UNCHANGED <<Consumers, tailBlock, largestBlockSize, sent>>
      /\ blocks' = [blocks EXCEPT ![b].localFront = blocks[b].front]
  BY <1>1 DEF EnqueueAhead, ProducerInv, Consumers, consumerVars, history
<1>3. ppc \in Whole /\ ppc' \in Whole
  BY <1>2 DEF Whole
<1>4. b \in InRing /\ Cnt(blocks[b]) = 0
  BY <1>1, <1>2, <1>3, WholeState, NextEmpty
<1>5. /\ tailBlock \in 1 .. Len(blocks) /\ b \in 1 .. Len(blocks) /\ blocks[b] \in BlockSet
      /\ BlockOK(blocks[b], IF b = Placing THEN Len(sent) + 1 ELSE NoElement)
  BY <1>1, <1>4, InnerFacts
<1>6. /\ MemoryInv(T)' /\ ConsumerInv(T)'
      /\ blocks'[b].localFront = blocks[b].front /\ blocks'[b].tail = blocks[b].tail
      /\ Len(blocks'[b].data) = Len(blocks[b].data)
      /\ \A a \in 1 .. Len(blocks) : blocks'[a].next = blocks[a].next
  BY <1>1, <1>2, <1>3, <1>4, FrontCopied
<1>7. blocks[b].front = blocks[b].tail /\ Len(blocks[b].data) \in Nat \ {0, 1} /\ blocks[b].tail \in 0 .. Len(blocks[b].data) - 1
  BY <1>4, <1>5, BlockCounts
<1>8. Succ(blocks[b].tail, Len(blocks[b].data)) # blocks[b].tail
  <2>1. PICK n \in Nat \ {0, 1} : n = Len(blocks[b].data)
    BY <1>7
  <2>2. PICK t \in 0 .. n - 1 : t = blocks[b].tail
    BY <1>7, <2>1
  <2>3. Succ(t, n) # t
    BY DEF Succ
  <2> QED BY <2>1, <2>2, <2>3
<1> HIDE DEF b
<1>9. tailBlock' = tailBlock /\ frontBlock' = frontBlock /\ sent' = sent
  BY <1>2 DEF Consumers
<1>10. pblk' = blocks'[tailBlock'].next /\ pblk' # frontBlock'
  BY <1>2, <1>5, <1>6, <1>9 DEF b
<1>11. Succ(blocks'[pblk'].tail, Len(blocks'[pblk'].data)) # blocks'[pblk'].localFront
  BY <1>2, <1>6, <1>7, <1>8
<1>12. ProducerInv'
  BY <1>2, <1>9, <1>10, <1>11 DEF ProducerInv
<1> QED BY <1>6, <1>12 DEF InnerInv


\* The block that the producer writes to.
LEMMA WrittenBlock ==
  ASSUME NEW T \in 0 .. Len(sent), SentInv, MemoryInv(T), ProducerInv, ppc \in {"place", "publish"}
  PROVE  /\ InRing = 1 .. Len(blocks) /\ Last = tailBlock /\ pblk \in InRing
         /\ pblk # tailBlock => Cnt(blocks[pblk]) = 0 /\ pblk = blocks[tailBlock].next /\ pblk # frontBlock
         /\ (pblk = tailBlock \/ (pblk = blocks[tailBlock].next /\ pblk # frontBlock))
<1>1. InRing = 1 .. Len(blocks) /\ Last = tailBlock
  BY DEF InRing, Last
<1>2. pblk = tailBlock \/ (pblk = blocks[tailBlock].next /\ pblk # frontBlock)
  BY DEF ProducerInv
<1>3. tailBlock \in InRing /\ blocks[tailBlock].next \in InRing
  BY InnerFacts
<1>4. pblk # tailBlock => Cnt(blocks[pblk]) = 0
  BY <1>1, <1>2, NextEmpty
<1> QED BY <1>1, <1>2, <1>3, <1>4

\* The element is constructed in the slot at the tail.
LEMMA PlaceInner ==
  ASSUME NEW T \in 0 .. Len(sent), SentInv, InnerInv(T), EnqueuePlace
  PROVE  InnerInv(T)'
<1>1. MemoryInv(T) /\ ConsumerInv(T) /\ ProducerInv
  BY DEF InnerInv
<1>2. /\ ppc = "place" /\ ppc' = "publish" /\ pblk' = pblk /\ Len(sent) < MaxItems
      /\ UNCHANGED <<Consumers, tailBlock, largestBlockSize, sent>>
      /\ blocks' = [blocks EXCEPT ![pblk].data[blocks[pblk].tail + 1] = Len(sent) + 1]
  BY <1>1 DEF EnqueuePlace, ProducerInv, Consumers, consumerVars, history
<1>3. /\ InRing = 1 .. Len(blocks) /\ Last = tailBlock /\ pblk \in InRing
      /\ pblk # tailBlock => Cnt(blocks[pblk]) = 0 /\ pblk = blocks[tailBlock].next /\ pblk # frontBlock
      /\ (pblk = tailBlock \/ (pblk = blocks[tailBlock].next /\ pblk # frontBlock))
  BY <1>1, <1>2, WrittenBlock
<1>4. Placing = 0 /\ Placing' = pblk
  BY <1>2 DEF Placing
<1>5. /\ Len(sent) \in Nat /\ T \in Nat /\ blocks \in Seq(BlockSet) /\ Len(blocks) \in Nat
      /\ frontBlock \in InRing /\ tailBlock \in InRing
      /\ \A a \in 1 .. Len(blocks) : /\ blocks[a] \in BlockSet
                                     /\ BlockOK(blocks[a], IF a = Placing THEN Len(sent) + 1 ELSE NoElement)
  BY <1>1, InnerFacts
<1>6. PICK B \in BlockSet : B = blocks[pblk] /\ BlockOK(B, NoElement)
  BY <1>3, <1>4, <1>5
<1>7. PICK e \in Nat : e = Len(sent) + 1
  BY <1>5
<1> DEFINE k == [B EXCEPT !.data[B.tail + 1] = e]
<1>8. /\ k \in BlockSet /\ BlockOK(k, e) /\ k.next = B.next /\ k.front = B.front /\ k.tail = B.tail
      /\ k.localFront = B.localFront /\ k.localTail = B.localTail /\ Len(k.data) = Len(B.data)
      /\ Cnt(k) = Cnt(B) /\ (Cnt(B) > 0 => First(k) = First(B))
  BY <1>6, PlacedIn
<1>9. blocks' = [blocks EXCEPT ![pblk] = k]
  BY <1>2, <1>6, <1>7
<1> HIDE DEF k
<1>10. Touched(blocks, blocks', pblk, k)
  BY <1>3, <1>5, <1>8, <1>9, TouchedBy
<1>11. Len(blocks') = Len(blocks) /\ blocks'[pblk] = k /\ \A a \in 1 .. Len(blocks) : a # pblk => blocks'[a] = blocks[a]
  BY <1>10 DEF Touched
<1>12. MemoryOK(blocks', InRing, pblk, frontBlock, tailBlock, T, Len(sent))
  <2>1. MemoryOK(blocks, InRing, 0, frontBlock, tailBlock, T, Len(sent))
    BY <1>1, <1>3, <1>4 DEF MemoryInv
  <2> QED BY <1>3, <1>5, <1>6, <1>7, <1>8, <1>10, <2>1, MemoryPlaced
<1>13. InRing' = InRing /\ Last' = tailBlock /\ tailBlock' = tailBlock /\ frontBlock' = frontBlock /\ sent' = sent
       /\ largestBlockSize' = largestBlockSize
  BY <1>2, <1>3, <1>11 DEF InRing, Last, Consumers
<1>14. MemoryInv(T)'
  BY <1>1, <1>4, <1>12, <1>13 DEF MemoryInv
<1>15. ProducerTouch(blocks, blocks', tailBlock) /\ Cnt(blocks'[frontBlock]) = Cnt(blocks[frontBlock])
  <2>1. \A b \in 1 .. Len(blocks) :
          /\ blocks'[b].front = blocks[b].front /\ blocks'[b].localTail = blocks[b].localTail
          /\ blocks'[b].next = blocks[b].next /\ Cnt(blocks'[b]) = Cnt(blocks[b])
          /\ Cnt(blocks[b]) > 0 => First(blocks'[b]) = First(blocks[b])
    BY <1>6, <1>8, <1>11
  <2>2. Len(blocks) <= Len(blocks') /\ frontBlock \in 1 .. Len(blocks)
    BY <1>3, <1>5, <1>11
  <2> QED BY <2>1, <2>2 DEF ProducerTouch
<1>16. ConsumerInv(T)'
  <2>1. UNCHANGED <<cpc, cop, cblk, cidx, cresult, frontBlock>> /\ InRing \in SUBSET InRing'
    BY <1>2, <1>13 DEF Consumers
  <2>2. frontBlock # tailBlock => tailBlock' # frontBlock /\ Cnt(blocks'[frontBlock]) = Cnt(blocks[frontBlock])
    BY <1>13, <1>15
  <2> QED BY <1>1, <1>15, <2>1, <2>2, ProducerKeepsConsumer
<1>17. Succ(blocks[pblk].tail, Len(blocks[pblk].data)) # blocks[pblk].localFront
  BY <1>1, <1>2 DEF ProducerInv
<1>18. \A a \in 1 .. Len(blocks) : blocks'[a].next = blocks[a].next
  BY <1>6, <1>8, <1>11
<1>19. /\ pblk' = tailBlock' \/ (pblk' = blocks'[tailBlock'].next /\ pblk' # frontBlock')
       /\ Succ(blocks'[pblk'].tail, Len(blocks'[pblk'].data)) # blocks'[pblk'].localFront
  BY <1>2, <1>3, <1>5, <1>6, <1>8, <1>11, <1>13, <1>17, <1>18
<1>20. ProducerInv'
  BY <1>2, <1>13, <1>19 DEF ProducerInv
<1> QED BY <1>14, <1>16, <1>20 DEF InnerInv

\* One more element has been sent.
LEMMA SentOneMore ==
  ASSUME SentInv, Len(sent) < MaxItems, MaxItems \in Nat, sent' = Append(sent, Len(sent) + 1)
  PROVE  SentInv' /\ Len(sent') = Len(sent) + 1
<1>1. sent \in Seq(Nat) /\ Len(sent) \in Nat /\ \A i \in 1 .. Len(sent) : sent[i] = i
  BY LenProperties DEF SentInv
<1>2. Len(sent) + 1 \in Nat
  BY <1>1
<1>3. /\ sent' \in Seq(Nat) /\ Len(sent') = Len(sent) + 1 /\ sent'[Len(sent) + 1] = Len(sent) + 1
      /\ \A i \in 1 .. Len(sent) : sent'[i] = sent[i]
  BY <1>1, <1>2, AppendProperties
<1>4. \A i \in 1 .. Len(sent') : sent'[i] = i
  BY <1>1, <1>3
<1> QED BY <1>1, <1>3, <1>4 DEF SentInv

\* In the tail block the next element continues the others.
LEMMA TailContinues ==
  ASSUME NEW bs, NEW R, NEW p, NEW front, NEW last, NEW T \in Nat, NEW S \in Nat, T <= S,
         MemoryOK(bs, R, p, front, last, T, S), Cnt(bs[last]) > 0
  PROVE  First(bs[last]) + Cnt(bs[last]) = S + 1
<1>1. RingOK(R, NextOf(bs, R)) /\ ChainOK(R, NextOf(bs, R), FirstOf(bs, R), CountOf(bs, R), front, last, T, S)
  BY DEF MemoryOK
<1>2. last \in R
  BY MemoryFacts
<1>3. CountOf(bs, R)[last] = Cnt(bs[last]) /\ FirstOf(bs, R)[last] = First(bs[last])
  BY <1>2 DEF CountOf, FirstOf
<1>4. T < S
  <2>1. T = S => CountOf(bs, R)[last] = 0
    BY <1>1, <1>2, AllEmpty
  <2> QED BY <1>3, <2>1
<1> QED BY <1>1, <1>3, <1>4, LastHolds

\* The tail moves: one more element has been enqueued.
LEMMA StoreTailInner ==
  ASSUME NEW T \in 0 .. Len(sent), SentInv, InnerInv(T), EnqueueStoreTail
  PROVE  InnerInv(T)' /\ SentInv' /\ Len(sent') = Len(sent) + 1 /\ ppc' = IF pblk = tailBlock THEN "idle" ELSE "advance"
<1>1. MemoryInv(T) /\ ConsumerInv(T) /\ ProducerInv
  BY DEF InnerInv
<1>2. /\ ppc = "publish" /\ Len(sent) < MaxItems
      /\ UNCHANGED <<Consumers, tailBlock, largestBlockSize>> /\ sent' = Append(sent, Len(sent) + 1)
      /\ blocks' = [blocks EXCEPT ![pblk].tail = Following(pblk, blocks[pblk].tail)]
      /\ ppc' = IF pblk = tailBlock THEN "idle" ELSE "advance"
      /\ pblk # tailBlock => pblk' = pblk
      /\ Succ(blocks[pblk].tail, Len(blocks[pblk].data)) # blocks[pblk].localFront
  BY <1>1 DEF EnqueueStoreTail, ProducerReturns, ProducerInv, Consumers, consumerVars
<1>3. /\ InRing = 1 .. Len(blocks) /\ Last = tailBlock /\ pblk \in InRing
      /\ pblk # tailBlock => Cnt(blocks[pblk]) = 0 /\ pblk = blocks[tailBlock].next /\ pblk # frontBlock
  BY <1>1, <1>2, WrittenBlock
<1>4. Placing = pblk /\ Placing' = 0
  BY <1>2 DEF Placing
<1>5. /\ Len(sent) \in Nat /\ T \in Nat /\ T <= Len(sent) /\ blocks \in Seq(BlockSet) /\ Len(blocks) \in Nat
      /\ frontBlock \in InRing /\ tailBlock \in InRing
      /\ \A a \in 1 .. Len(blocks) : /\ blocks[a] \in BlockSet
                                     /\ BlockOK(blocks[a], IF a = Placing THEN Len(sent) + 1 ELSE NoElement)
  BY <1>1, InnerFacts
<1>6. SentInv' /\ Len(sent') = Len(sent) + 1
  BY <1>2, SentOneMore, ConstantsAssumption
<1>7. MemoryOK(blocks, InRing, pblk, frontBlock, tailBlock, T, Len(sent))
  BY <1>1, <1>3, <1>4 DEF MemoryInv
<1>8. PICK B \in BlockSet : B = blocks[pblk]
  BY <1>3, <1>5
<1>9. PICK e \in Nat : e = Len(sent) + 1
  BY <1>5
<1>10. BlockOK(B, e) /\ Cnt(B) \in Nat
  <2>1. BlockOK(B, e)
    BY <1>3, <1>4, <1>5, <1>8, <1>9
  <2>2. Len(B.data) \in Nat \ {0, 1} /\ Cnt(B) \in 0 .. Len(B.data) - 1
    BY <2>1, BlockCounts
  <2> QED BY <2>1, <2>2
<1>11. Cnt(B) > 0 => First(B) + Cnt(B) = e
  <2>1. Cnt(B) > 0 => pblk = tailBlock
    BY <1>3, <1>8, <1>10
  <2> QED BY <1>5, <1>7, <1>8, <1>9, <2>1, TailContinues
<1> DEFINE k == [B EXCEPT !.tail = Succ(B.tail, Len(B.data))]
<1>12. /\ k \in BlockSet /\ BlockOK(k, NoElement) /\ k.next = B.next /\ k.front = B.front /\ k.localTail = B.localTail
       /\ Cnt(k) = Cnt(B) + 1 /\ First(k) = First(B) /\ First(B) + Cnt(B) = e
  BY <1>2, <1>8, <1>10, <1>11, Published
<1>13. blocks' = [blocks EXCEPT ![pblk] = k]
  <2>1. B.tail \in 0 .. Len(B.data) - 1
    BY <1>10, BlockCounts
  <2>2. Following(pblk, B.tail) = Succ(B.tail, Len(B.data))
    BY <1>3, <1>8, <1>10, <2>1, FollowingIs
  <2> QED BY <1>2, <1>8, <2>2
<1> HIDE DEF k
<1>14. Touched(blocks, blocks', pblk, k)
  BY <1>3, <1>5, <1>12, <1>13, TouchedBy
<1>15. Len(blocks') = Len(blocks) /\ blocks'[pblk] = k /\ \A a \in 1 .. Len(blocks) : a # pblk => blocks'[a] = blocks[a]
  BY <1>14 DEF Touched
<1>16. OneMore(blocks[pblk], k, Len(sent) + 1)
  BY <1>8, <1>9, <1>12 DEF OneMore
<1>17. InRing' = InRing /\ tailBlock' = tailBlock /\ frontBlock' = frontBlock /\ largestBlockSize' = largestBlockSize
  BY <1>2, <1>3, <1>15 DEF InRing, Consumers
<1>18. ProducerTouch(blocks, blocks', tailBlock)
  BY <1>3, <1>5, <1>8, <1>10, <1>12, <1>15 DEF ProducerTouch
<1>19. ConsumerInv(T)'
  <2>1. UNCHANGED <<cpc, cop, cblk, cidx, cresult, frontBlock>> /\ InRing \in SUBSET InRing'
    BY <1>2, <1>17 DEF Consumers
  <2>2. frontBlock # tailBlock => tailBlock' # frontBlock /\ Cnt(blocks'[frontBlock]) = Cnt(blocks[frontBlock])
    BY <1>3, <1>5, <1>15, <1>17
  <2> QED BY <1>1, <1>18, <2>1, <2>2, ProducerKeepsConsumer
<1>20. CASE pblk = tailBlock
  <2>1. MemoryOK(blocks', InRing, 0, frontBlock, tailBlock, T, Len(sent) + 1)
    BY <1>5, <1>7, <1>14, <1>16, <1>20, MemoryPutLast
  <2>2. Last' = tailBlock
    BY <1>2, <1>17, <1>20 DEF Last
  <2>3. MemoryInv(T)'
    BY <1>1, <1>4, <1>6, <1>17, <2>1, <2>2 DEF MemoryInv
  <2>4. ProducerInv'
    BY <1>2, <1>20 DEF ProducerInv
  <2> QED BY <1>2, <1>6, <1>19, <2>3, <2>4 DEF InnerInv
<1>21. CASE pblk # tailBlock
  <2>1. MemoryOK(blocks', InRing, 0, frontBlock, pblk, T, Len(sent) + 1)
    BY <1>3, <1>5, <1>7, <1>14, <1>16, <1>21, MemoryPutNext
  <2>2. Last' = pblk
    BY <1>2, <1>21 DEF Last
  <2>3. MemoryInv(T)'
    BY <1>1, <1>4, <1>6, <1>17, <2>1, <2>2 DEF MemoryInv
  <2>4. blocks'[tailBlock] = blocks[tailBlock] /\ Cnt(blocks'[pblk]) = 1
    BY <1>3, <1>5, <1>8, <1>12, <1>15, <1>21
  <2>5. ProducerInv'
    BY <1>2, <1>3, <1>17, <1>21, <2>4 DEF ProducerInv
  <2> QED BY <1>2, <1>6, <1>19, <2>3, <2>5 DEF InnerInv
<1> QED BY <1>20, <1>21

\* There is no memory for another block.
LEMMA AllocFailsInner ==
  ASSUME NEW T \in 0 .. Len(sent), SentInv, InnerInv(T), EnqueueAllocFails
  PROVE  InnerInv(T)'
<1>1. MemoryInv(T) /\ ConsumerInv(T) /\ ProducerInv
  BY DEF InnerInv
<1>2. /\ ppc = "alloc" /\ ppc' = "idle"
      /\ UNCHANGED <<Consumers, blocks, tailBlock, largestBlockSize, sent>>
  BY DEF EnqueueAllocFails, ProducerReturns, Consumers, consumerVars, queueVars
<1>3. MemoryInv(T)' /\ ConsumerInv(T)'
  BY <1>1, <1>2, ProducerOnly DEF Whole
<1>4. ProducerInv'
  BY <1>2 DEF ProducerInv
<1> QED BY <1>3, <1>4 DEF InnerInv

\* A new block with the element in it.
LEMMA AllocInner ==
  ASSUME NEW T \in 0 .. Len(sent), SentInv, InnerInv(T), EnqueueAlloc
  PROVE  InnerInv(T)'
<1>1. MemoryInv(T) /\ ConsumerInv(T) /\ ProducerInv
  BY DEF InnerInv
<1> DEFINE size == IF largestBlockSize >= MAX_BLOCK_SIZE THEN largestBlockSize ELSE largestBlockSize * 2
<1>2. /\ ppc = "alloc" /\ ppc' = "link" /\ pblk' = Len(blocks) + 1 /\ largestBlockSize' = size
      /\ UNCHANGED <<Consumers, tailBlock, sent>> /\ Len(sent) < MaxItems
      /\ blocks' = Append(blocks, [MakeBlock(size, blocks[tailBlock].next) EXCEPT
                                     !.tail = 1, !.localTail = 1, !.data[1] = Len(sent) + 1])
  BY <1>1 DEF EnqueueAlloc, ProducerInv, Consumers, consumerVars, history
<1>3. InRing = 1 .. Len(blocks) /\ Last = tailBlock /\ Placing = 0
  BY <1>2, WholeState DEF Whole
<1>4. size \in Nat \ {0, 1}
  <2>1. largestBlockSize \in Nat \ {0, 1} /\ MAX_BLOCK_SIZE \in Nat
    BY <1>1, BlockSizeAssumption DEF MemoryInv
  <2> QED BY <2>1
<1>5. /\ Len(sent) \in Nat /\ T \in Nat /\ blocks \in Seq(BlockSet) /\ Len(blocks) \in Nat
      /\ frontBlock \in InRing /\ tailBlock \in InRing /\ blocks[tailBlock].next \in InRing
      /\ \A a \in 1 .. Len(blocks) : /\ blocks[a] \in BlockSet
                                     /\ BlockOK(blocks[a], IF a = Placing THEN Len(sent) + 1 ELSE NoElement)
  BY <1>1, InnerFacts
<1>6. PICK n \in Nat : n = size /\ n >= 2
  BY <1>4
<1>7. PICK e \in Nat : e = Len(sent) + 1
  BY <1>5
<1>8. PICK m \in Nat : m = blocks[tailBlock].next
  BY <1>3, <1>5
<1> DEFINE k == Fresh(n, m, e)
<1>9. k \in BlockSet /\ BlockOK(k, NoElement) /\ Cnt(k) = 1 /\ First(k) = e /\ k.next = m
  <2>1. n \in Nat /\ n >= 2 /\ m \in Nat /\ e \in Nat
    BY <1>6, <1>7, <1>8
  <2> QED BY <2>1, NewBlockWith
<1>10. blocks' = Append(blocks, k)
  BY <1>2, <1>6, <1>7, <1>8 DEF Fresh
<1> HIDE DEF k, size
<1>11. /\ Len(blocks') = Len(blocks) + 1 /\ blocks'[Len(blocks) + 1] = k
       /\ \A a \in 1 .. Len(blocks) : blocks'[a] = blocks[a]
  BY <1>5, <1>9, <1>10, AppendProperties
<1>12. /\ tailBlock' = tailBlock /\ frontBlock' = frontBlock /\ sent' = sent
       /\ InRing' = InRing /\ Last' = tailBlock /\ Placing' = 0
  BY <1>2, <1>3, <1>5, <1>11 DEF InRing, Last, Placing, Consumers
<1>13. MemoryOK(blocks', InRing, 0, frontBlock, tailBlock, T, Len(sent))
  <2>1. MemoryOK(blocks, InRing, 0, frontBlock, tailBlock, T, Len(sent))
    BY <1>1, <1>3 DEF MemoryInv
  <2> QED BY <1>5, <1>9, <1>10, <2>1, MemoryAppended
<1>14. MemoryInv(T)'
  BY <1>2, <1>4, <1>5, <1>12, <1>13 DEF MemoryInv
<1>15. ProducerTouch(blocks, blocks', tailBlock)
  BY <1>5, <1>11 DEF ProducerTouch
<1>16. ConsumerInv(T)'
  <2>1. UNCHANGED <<cpc, cop, cblk, cidx, cresult, frontBlock>> /\ InRing \in SUBSET InRing'
    BY <1>2, <1>12 DEF Consumers
  <2>2. frontBlock # tailBlock => tailBlock' # frontBlock /\ Cnt(blocks'[frontBlock]) = Cnt(blocks[frontBlock])
    BY <1>3, <1>5, <1>11, <1>12
  <2> QED BY <1>1, <1>15, <2>1, <2>2, ProducerKeepsConsumer
<1>17. ProducerInv'
  <2>1. blocks'[tailBlock'].next = m /\ blocks'[pblk'] = k /\ pblk' = Len(blocks')
    BY <1>2, <1>3, <1>5, <1>8, <1>11, <1>12
  <2> QED BY <1>2, <1>7, <1>9, <1>12, <2>1 DEF ProducerInv
<1> QED BY <1>14, <1>16, <1>17 DEF InnerInv

\* It is linked in after the tail block: one more element has been enqueued.
LEMMA LinkInner ==
  ASSUME NEW T \in 0 .. Len(sent), SentInv, InnerInv(T), EnqueueLink
  PROVE  InnerInv(T)' /\ SentInv' /\ Len(sent') = Len(sent) + 1 /\ ppc' = "advance"
<1>1. MemoryInv(T) /\ ConsumerInv(T) /\ ProducerInv
  BY DEF InnerInv
<1>2. /\ ppc = "link" /\ ppc' = "advance" /\ pblk' = pblk /\ Len(sent) < MaxItems
      /\ UNCHANGED <<Consumers, tailBlock, largestBlockSize>> /\ sent' = Append(sent, Len(sent) + 1)
      /\ blocks' = [blocks EXCEPT ![tailBlock].next = pblk]
      /\ pblk = Len(blocks) /\ blocks[pblk].next = blocks[tailBlock].next
      /\ Cnt(blocks[pblk]) = 1 /\ First(blocks[pblk]) = Len(sent) + 1
  BY <1>1 DEF EnqueueLink, ProducerInv, Consumers, consumerVars
<1>3. InRing = (1 .. Len(blocks)) \ {pblk} /\ Last = tailBlock /\ Placing = 0
  BY <1>2 DEF InRing, Last, Placing
<1>4. SentInv' /\ Len(sent') = Len(sent) + 1
  BY <1>2, SentOneMore, ConstantsAssumption
<1>5. /\ Len(sent) \in Nat /\ T \in Nat /\ T <= Len(sent) /\ blocks \in Seq(BlockSet) /\ Len(blocks) \in Nat
      /\ frontBlock \in InRing /\ tailBlock \in InRing /\ InRing \in SUBSET (1 .. Len(blocks))
      /\ blocks[tailBlock].next \in InRing
      /\ \A a \in 1 .. Len(blocks) : /\ blocks[a] \in BlockSet
                                     /\ BlockOK(blocks[a], IF a = Placing THEN Len(sent) + 1 ELSE NoElement)
  BY <1>1, InnerFacts
<1>6. pblk \in 1 .. Len(blocks) /\ pblk \notin InRing /\ tailBlock \in 1 .. Len(blocks) /\ pblk # tailBlock
  BY <1>2, <1>3, <1>5
<1>7. PICK B \in BlockSet : B = blocks[tailBlock] /\ BlockOK(B, NoElement)
  BY <1>3, <1>5, <1>6
<1> DEFINE k == [B EXCEPT !.next = pblk]
<1>8. Similar(k, B) /\ BlockOK(k, NoElement) /\ k.next = pblk
  BY <1>6, <1>7, Relinked
<1>9. k \in BlockSet
  BY <1>6, <1>7, Relinked
<1>10. blocks' = [blocks EXCEPT ![tailBlock] = k]
  BY <1>2, <1>7
<1>11. k.front = B.front /\ k.localTail = B.localTail
  BY <1>7 DEF BlockSet
<1>12. Cnt(k) = Cnt(B) /\ First(k) = First(B)
  BY <1>7, <1>8, SimilarSame
<1> HIDE DEF k
<1>13. Touched(blocks, blocks', tailBlock, k)
  BY <1>5, <1>6, <1>9, <1>10, TouchedBy
<1>14. Len(blocks') = Len(blocks) /\ blocks'[tailBlock] = k /\ \A a \in 1 .. Len(blocks) : a # tailBlock => blocks'[a] = blocks[a]
  BY <1>13 DEF Touched
<1>15. /\ tailBlock' = tailBlock /\ frontBlock' = frontBlock /\ largestBlockSize' = largestBlockSize
       /\ InRing' = InRing \cup {pblk} /\ Last' = pblk /\ Placing' = 0
  BY <1>2, <1>3, <1>5, <1>6, <1>14 DEF InRing, Last, Placing, Consumers
<1>16. MemoryOK(blocks', InRing \cup {pblk}, 0, frontBlock, pblk, T, Len(sent) + 1)
  <2>1. MemoryOK(blocks, InRing, 0, frontBlock, tailBlock, T, Len(sent))
    BY <1>1, <1>3 DEF MemoryInv
  <2> QED BY <1>2, <1>5, <1>6, <1>7, <1>8, <1>13, <2>1, MemoryLinked
<1>17. MemoryInv(T)'
  BY <1>1, <1>4, <1>5, <1>15, <1>16 DEF MemoryInv
<1>18. ProducerTouch(blocks, blocks', tailBlock)
  BY <1>5, <1>7, <1>11, <1>12, <1>14 DEF ProducerTouch
<1>19. ConsumerInv(T)'
  <2>1. UNCHANGED <<cpc, cop, cblk, cidx, cresult, frontBlock>> /\ InRing \in SUBSET InRing'
    BY <1>2, <1>15 DEF Consumers
  <2>2. frontBlock # tailBlock => tailBlock' # frontBlock /\ Cnt(blocks'[frontBlock]) = Cnt(blocks[frontBlock])
    BY <1>5, <1>14, <1>15
  <2> QED BY <1>1, <1>18, <2>1, <2>2, ProducerKeepsConsumer
<1>20. ProducerInv'
  <2>1. blocks'[tailBlock'].next = pblk' /\ Cnt(blocks'[pblk']) = 1 /\ pblk' # frontBlock'
    BY <1>2, <1>5, <1>6, <1>8, <1>14, <1>15
  <2> QED BY <1>2, <2>1 DEF ProducerInv
<1> QED BY <1>2, <1>4, <1>17, <1>19, <1>20 DEF InnerInv

\* The block that was written to becomes the tail block.
LEMMA StoreTailBlockInner ==
  ASSUME NEW T \in 0 .. Len(sent), SentInv, InnerInv(T), EnqueueStoreTailBlock
  PROVE  InnerInv(T)'
<1>1. MemoryInv(T) /\ ConsumerInv(T) /\ ProducerInv
  BY DEF InnerInv
<1>2. /\ ppc = "advance" /\ ppc' = "idle" /\ tailBlock' = pblk
      /\ UNCHANGED <<Consumers, blocks, largestBlockSize, sent>>
      /\ blocks[tailBlock].next # frontBlock /\ pblk = blocks[tailBlock].next
  BY <1>1 DEF EnqueueStoreTailBlock, ProducerReturns, ProducerInv, Consumers, consumerVars
<1>3. /\ InRing = 1 .. Len(blocks) /\ Last = pblk /\ Placing = 0
      /\ InRing' = InRing /\ Last' = pblk /\ Placing' = 0 /\ frontBlock' = frontBlock /\ blocks' = blocks
      /\ largestBlockSize' = largestBlockSize /\ sent' = sent
  BY <1>2 DEF InRing, Last, Placing, Consumers
<1>4. pblk \in InRing
  BY <1>1, <1>3, InnerFacts
<1>5. MemoryInv(T)'
  BY <1>1, <1>2, <1>3, <1>4 DEF MemoryInv
<1>6. ConsumerInv(T)'
  <2>1. UNCHANGED <<cpc, cop, cblk, cidx, cresult, frontBlock>> /\ InRing \in SUBSET InRing'
    BY <1>2, <1>3 DEF Consumers
  <2>2. ProducerTouch(blocks, blocks', tailBlock)
    <3>1. Len(blocks) \in Nat
      BY <1>1, InnerFacts
    <3> QED BY <1>3, <3>1 DEF ProducerTouch
  <2>3. frontBlock # tailBlock => tailBlock' # frontBlock /\ Cnt(blocks'[frontBlock]) = Cnt(blocks[frontBlock])
    BY <1>2, <1>3
  <2> QED BY <1>1, <2>1, <2>2, <2>3, ProducerKeepsConsumer
<1>7. ProducerInv'
  BY <1>2 DEF ProducerInv
<1> QED BY <1>5, <1>6, <1>7 DEF InnerInv

-----------------------------------------------------------------------------
(* The semaphore.                                                           *)

\* The deadlines that timed_wait computes are ones sem_timedwait accepts.
DeadlinesValid == \A now \in ClockNsecs : ~(Sema!Nsec(now) >= Second)

\* What the semaphore relies on of the rest.
LEMMA SemaTypes ==
  ASSUME NEW T \in 0 .. Len(sent), SentInv
  PROVE  Len(sent) \in Nat /\ T \in Nat /\ T <= Len(sent)
BY LenProperties DEF SentInv

\* The producer counts an element as untold for as long as it takes to signal it.
LEMMA ProducerKeepsSema ==
  ASSUME NEW T \in 0 .. Len(sent), SentInv, SemaInv(T), spc = "idle", Len(sent') \in Nat,
         spc' \in {"idle", "signal"}, ppc' # "idle" => spc' = "idle",
         Len(sent') - Untold' = Len(sent) - Untold,
         UNCHANGED <<cpc, cop, frontBlock, m_count, m_sema, wpc>>,
         frontBlock # tailBlock => frontBlock # tailBlock'
  PROVE  SemaInv(T)'
<1>1. Len(sent) \in Nat /\ T \in Nat
  BY SemaTypes
<1>2. Untold \in Nat /\ Untold' \in Nat
  BY DEF Untold, Bit
<1>3. Claimed' = Claimed /\ Posted' = Posted /\ Claimed \in Nat
  BY DEF Claimed, Posted, Bit
<1>4. m_count' = Len(sent') - T - Untold' - Claimed'
  <2>1. m_count = Len(sent) - T - Untold - Claimed
    BY DEF SemaInv
  <2>2. m_count' = m_count /\ Len(sent') - Untold' = Len(sent) - Untold
    OBVIOUS
  <2>3. /\ m_count \in Int /\ Len(sent) \in Int /\ T \in Int /\ Untold \in Int /\ Claimed \in Int
        /\ Len(sent') \in Int /\ Untold' \in Int
    BY <1>1, <1>2, <1>3 DEF SemaInv
  <2>4. PICK s \in Int, u \in Int, c \in Int, s2 \in Int, u2 \in Int :
          s = Len(sent) /\ u = Untold /\ c = Claimed /\ s2 = Len(sent') /\ u2 = Untold'
    BY <2>3
  <2>5. m_count = s - T - u - c /\ s2 - u2 = s - u
    BY <2>1, <2>2, <2>4
  <2>6. m_count = s2 - T - u2 - c
    BY <2>3, <2>5
  <2> QED BY <1>3, <2>2, <2>4, <2>6
<1>5. wpc' = "won" /\ cpc' = "look" => frontBlock' # tailBlock'
  BY DEF SemaInv
<1> QED BY <1>3, <1>4, <1>5 DEF SemaInv

\* signal().
LEMMA SignalSema ==
  ASSUME NEW T \in 0 .. Len(sent), SentInv, SemaInv(T), EnqueueSignals
  PROVE  SemaInv(T)'
<1>1. Len(sent) \in Nat /\ T \in Nat
  BY SemaTypes
<1>2. UNCHANGED <<cpc, cop, frontBlock, tailBlock, ppc, wpc, sent>>
  BY DEF EnqueueSignals, Sema!SignalStep, Sema!Signal, Sema!Post, Sema!waiter, innerVars, queueVars, consumerVars,
         producerVars, history
<1>3. CASE Sema!Signal
  BY <1>1, <1>2, <1>3 DEF Sema!Signal, SemaInv, Untold, Claimed, Posted, Bit
<1>4. CASE Sema!Post
  BY <1>1, <1>2, <1>4 DEF Sema!Post, SemaInv, Untold, Claimed, Posted, Bit
<1> QED BY <1>3, <1>4 DEF EnqueueSignals, Sema!SignalStep

\* tryWait().
LEMMA WaitBeginsSema ==
  ASSUME NEW T \in 0 .. Len(sent), SentInv, SemaInv(T), NEW c, WaitBegins(c)
  PROVE  SemaInv(T)'
<1>1. Len(sent) \in Nat /\ T \in Nat
  BY SemaTypes
<1>2. UNCHANGED <<cpc, cop, frontBlock, tailBlock, ppc, spc, sent>> /\ cpc = "idle" /\ Sema!TryWait(c)
  BY DEF WaitBegins, Sema!TryWait, innerVars, queueVars, consumerVars, producerVars, history
<1> QED BY <1>1, <1>2 DEF Sema!TryWait, Sema!Lost, SemaInv, Untold, Claimed, Posted, Bit

\* wait() and wait(timeout), after tryWait().
LEMMA WaitRunsSema ==
  ASSUME NEW T \in 0 .. Len(sent), SentInv, SemaInv(T), DeadlinesValid, WaitRuns
  PROVE  SemaInv(T)'
<1>1. Len(sent) \in Nat /\ T \in Nat
  BY SemaTypes
<1>2. UNCHANGED <<cpc, cop, frontBlock, tailBlock, ppc, sent>>
  BY DEF WaitRuns, innerVars, queueVars, consumerVars, producerVars, history
<1>3. CASE Sema!Decrement
  BY <1>1, <1>2, <1>3 DEF Sema!Decrement, SemaInv, Untold, Claimed, Posted, Bit
<1>4. CASE Sema!Spin
  BY <1>1, <1>2, <1>4 DEF Sema!Spin, SemaInv, Untold, Claimed, Posted, Bit
<1>5. CASE Sema!StopSpinning
  BY <1>1, <1>2, <1>5 DEF Sema!StopSpinning, SemaInv, Untold, Claimed, Posted, Bit
<1>6. CASE Sema!SemaWait
  BY <1>1, <1>2, <1>6 DEF Sema!SemaWait, SemaInv, Untold, Claimed, Posted, Bit
<1>7. CASE Sema!SemaTimedWait
  <2>1. /\ wpc = "sleep" /\ m_sema > 0 /\ m_sema' = m_sema - 1 /\ wpc' = "won" /\ UNCHANGED <<m_count, spc>>
    BY <1>7 DEF Sema!SemaTimedWait, DeadlinesValid
  <2> QED BY <1>1, <1>2, <2>1 DEF SemaInv, Untold, Claimed, Posted, Bit
<1>8. CASE Sema!TimeOut
  BY <1>1, <1>2, <1>8 DEF Sema!TimeOut, SemaInv, Untold, Claimed, Posted, Bit
<1>9. CASE Sema!Restore
  BY <1>1, <1>2, <1>9 DEF Sema!Restore, Sema!Lost, SemaInv, Untold, Claimed, Posted, Bit
<1>10. CASE Sema!Retake
  BY <1>1, <1>2, <1>10 DEF Sema!Retake, SemaInv, Untold, Claimed, Posted, Bit
<1>11. CASE Sema!TryPosted
  BY <1>1, <1>2, <1>11 DEF Sema!TryPosted, SemaInv, Untold, Claimed, Posted, Bit
<1> QED BY <1>3, <1>4, <1>5, <1>6, <1>7, <1>8, <1>9, <1>10, <1>11 DEF WaitRuns, Sema!WaitStep

\* An element that has been told of is not behind an empty tail block.
LEMMA EmptyFront ==
  ASSUME NEW T \in 0 .. Len(sent), SentInv, MemoryInv(T), ProducerInv, Cnt(blocks[frontBlock]) = 0,
         Len(sent) - T >= 1 + Bit(ppc = "advance")
  PROVE  frontBlock # tailBlock
<1> SUFFICES ASSUME frontBlock = tailBlock
             PROVE  FALSE
  OBVIOUS
<1>1. /\ Len(sent) \in Nat /\ T \in Nat /\ T <= Len(sent)
      /\ frontBlock \in InRing /\ Last \in InRing /\ blocks[frontBlock].next \in InRing
  BY InnerFacts
<1>2. T < Len(sent)
  BY <1>1 DEF Bit
<1> DEFINE R == InRing
           nx == NextOf(blocks, R)
           lo == FirstOf(blocks, R)
           n == CountOf(blocks, R)
<1>3. RingOK(R, nx) /\ ChainOK(R, nx, lo, n, frontBlock, Last, T, Len(sent))
  BY DEF MemoryInv, MemoryOK
<1>4. /\ n[frontBlock] = 0 /\ nx[frontBlock] = blocks[frontBlock].next
      /\ n[Last] = Cnt(blocks[Last]) /\ lo[Last] = First(blocks[Last])
  BY <1>1 DEF CountOf, NextOf, FirstOf
<1> HIDE DEF nx, lo, n
<1>5. n[nx[frontBlock]] > 0 /\ lo[nx[frontBlock]] = T + 1
  BY <1>1, <1>2, <1>3, <1>4, OldestAt
<1>6. n[Last] > 0 /\ lo[Last] + n[Last] = Len(sent) + 1
  BY <1>1, <1>2, <1>3, LastHolds
<1>7. Last # tailBlock
  BY <1>4, <1>6
<1>8. ppc = "advance" /\ Last = pblk /\ pblk = blocks[tailBlock].next /\ Cnt(blocks[pblk]) <= 1
  BY <1>7 DEF Last, ProducerInv
<1>9. lo[Last] = T + 1 /\ n[Last] <= 1 /\ Len(sent) - T >= 2
  BY <1>1, <1>4, <1>5, <1>8 DEF Bit
<1>10. n[Last] \in Nat
  <2>1. \A b \in R : n[b] \in Nat
    BY <1>1, <1>3, ChainTypes
  <2> QED BY <1>1, <2>1
<1> QED BY <1>1, <1>6, <1>9, <1>10

\* A step that takes nothing, adds the next element, or takes the oldest one.
Progress(T) ==
  /\ SentInv' /\ alive' = alive
  /\ \/ sent' = sent /\ AliveInv(T)'
     \/ sent' = Append(sent, Len(sent) + 1) /\ AliveInv(T)'
     \/ sent' = sent /\ T + 1 \in 0 .. Len(sent) /\ AliveInv(T + 1)'

\* enqueue and try_enqueue begin.
LEMMA EnqueueBeginsProgress ==
  ASSUME NEW T \in 0 .. Len(sent), SentInv, AliveInv(T), NEW op, EnqueueBegins(op)
  PROVE  Progress(T)
<1>1. InnerInv(T) /\ InnerEnqueue(op) /\ UNCHANGED <<blocking, m_count, m_sema, wpc, call, spc>> /\ (blocking => spc = "idle")
  BY DEF AliveInv, EnqueueBegins, semaphore
<1>2. /\ ppc = "idle" /\ ppc' \in {"place", "full"} /\ sent' = sent /\ alive' = alive
      /\ UNCHANGED <<cpc, cop, frontBlock, tailBlock>>
  BY <1>1 DEF InnerEnqueue, consumerVars
<1>3. InnerInv(T)' /\ SentInv'
  BY <1>1, <1>2, InnerEnqueueInner DEF SentInv
<1>4. blocking => SemaInv(T)'
  <2>1. Len(sent') \in Nat /\ Untold' = Untold /\ Len(sent') - Untold' = Len(sent) - Untold
    BY <1>1, <1>2, SemaTypes DEF Untold, Bit
  <2>2. blocking => SemaInv(T)
    BY DEF AliveInv
  <2> QED BY <1>1, <1>2, <2>1, <2>2, ProducerKeepsSema
<1> QED BY <1>1, <1>2, <1>3, <1>4 DEF Progress, AliveInv

\* What a step of the producer does to the memory, and how far it gets.
LEMMA ProducerStepInner ==
  ASSUME NEW T \in 0 .. Len(sent), SentInv, InnerInv(T), ProducerStep
  PROVE  /\ InnerInv(T)' /\ SentInv' /\ ppc # "idle" /\ alive' = alive
         /\ UNCHANGED <<cpc, cop, frontBlock>>
         /\ frontBlock # tailBlock => frontBlock # tailBlock'
         /\ \/ /\ sent' = sent /\ ppc \notin {"publish", "advance"} /\ ppc' # "advance"
            \/ /\ sent' = sent /\ ppc = "advance" /\ ppc' = "idle"
            \/ /\ sent' = Append(sent, Len(sent) + 1) /\ Len(sent') = Len(sent) + 1 /\ ppc = "publish"
               /\ ppc' \in {"idle", "advance"}
            \/ /\ sent' = Append(sent, Len(sent) + 1) /\ Len(sent') = Len(sent) + 1 /\ ppc = "link"
               /\ ppc' = "advance"
<1>1. CASE EnqueueCheckNext
  <2>1. InnerInv(T)'
    BY <1>1, CheckNextInner
  <2>2. /\ ppc = "full" /\ ppc' \in {"idle", "ahead", "alloc"} /\ sent' = sent /\ alive' = alive
        /\ UNCHANGED <<cpc, cop, frontBlock, tailBlock>>
    BY <1>1 DEF EnqueueCheckNext, ProducerReturns, consumerVars, queueVars
  <2> QED BY <2>1, <2>2 DEF SentInv
<1>2. CASE EnqueueAhead
  <2>1. InnerInv(T)'
    BY <1>2, AheadInner
  <2>2. /\ ppc = "ahead" /\ ppc' = "place" /\ sent' = sent /\ alive' = alive
        /\ UNCHANGED <<cpc, cop, frontBlock, tailBlock>>
    BY <1>2 DEF EnqueueAhead, consumerVars, history
  <2> QED BY <2>1, <2>2 DEF SentInv
<1>3. CASE EnqueuePlace
  <2>1. InnerInv(T)'
    BY <1>3, PlaceInner
  <2>2. /\ ppc = "place" /\ ppc' = "publish" /\ sent' = sent /\ alive' = alive
        /\ UNCHANGED <<cpc, cop, frontBlock, tailBlock>>
    BY <1>3 DEF EnqueuePlace, consumerVars, history
  <2> QED BY <2>1, <2>2 DEF SentInv
<1>4. CASE EnqueueStoreTail
  <2>1. /\ InnerInv(T)' /\ SentInv' /\ Len(sent') = Len(sent) + 1
        /\ ppc' = IF pblk = tailBlock THEN "idle" ELSE "advance"
    BY <1>4, StoreTailInner
  <2>2. /\ ppc = "publish" /\ sent' = Append(sent, Len(sent) + 1) /\ alive' = alive
        /\ UNCHANGED <<cpc, cop, frontBlock, tailBlock>>
    BY <1>4 DEF EnqueueStoreTail, consumerVars
  <2> QED BY <2>1, <2>2
<1>5. CASE EnqueueAllocFails
  <2>1. InnerInv(T)'
    BY <1>5, AllocFailsInner
  <2>2. /\ ppc = "alloc" /\ ppc' = "idle" /\ sent' = sent /\ alive' = alive
        /\ UNCHANGED <<cpc, cop, frontBlock, tailBlock>>
    BY <1>5 DEF EnqueueAllocFails, ProducerReturns, consumerVars, queueVars
  <2> QED BY <2>1, <2>2 DEF SentInv
<1>6. CASE EnqueueAlloc
  <2>1. InnerInv(T)'
    BY <1>6, AllocInner
  <2>2. /\ ppc = "alloc" /\ ppc' = "link" /\ sent' = sent /\ alive' = alive
        /\ UNCHANGED <<cpc, cop, frontBlock, tailBlock>>
    BY <1>6 DEF EnqueueAlloc, consumerVars, history
  <2> QED BY <2>1, <2>2 DEF SentInv
<1>7. CASE EnqueueLink
  <2>1. InnerInv(T)' /\ SentInv' /\ Len(sent') = Len(sent) + 1 /\ ppc' = "advance"
    BY <1>7, LinkInner
  <2>2. /\ ppc = "link" /\ sent' = Append(sent, Len(sent) + 1) /\ alive' = alive
        /\ UNCHANGED <<cpc, cop, frontBlock, tailBlock>>
    BY <1>7 DEF EnqueueLink, consumerVars
  <2> QED BY <2>1, <2>2
<1>8. CASE EnqueueStoreTailBlock
  <2>1. InnerInv(T)'
    BY <1>8, StoreTailBlockInner
  <2>2. /\ ppc = "advance" /\ ppc' = "idle" /\ tailBlock' = pblk /\ sent' = sent /\ alive' = alive
        /\ UNCHANGED <<cpc, cop, frontBlock>>
    BY <1>8 DEF EnqueueStoreTailBlock, ProducerReturns, consumerVars
  <2>3. pblk # frontBlock
    BY <2>2 DEF InnerInv, ProducerInv
  <2> QED BY <2>1, <2>2, <2>3 DEF SentInv
<1> QED BY <1>1, <1>2, <1>3, <1>4, <1>5, <1>6, <1>7, <1>8 DEF ProducerStep

\* A step of inner_enqueue, which may be its last one.
LEMMA EnqueueRunsProgress ==
  ASSUME NEW T \in 0 .. Len(sent), SentInv, AliveInv(T), EnqueueRuns
  PROVE  Progress(T)
<1>1. /\ InnerInv(T) /\ ProducerStep /\ UNCHANGED <<blocking, m_count, m_sema, wpc>>
      /\ spc' = IF blocking /\ ppc \in {"publish", "advance"} /\ ppc' = "idle" THEN "signal" ELSE spc
  BY DEF AliveInv, EnqueueRuns
<1>2. /\ InnerInv(T)' /\ SentInv' /\ ppc # "idle" /\ alive' = alive
      /\ UNCHANGED <<cpc, cop, frontBlock>>
      /\ frontBlock # tailBlock => frontBlock # tailBlock'
      /\ \/ /\ sent' = sent /\ ppc \notin {"publish", "advance"} /\ ppc' # "advance"
         \/ /\ sent' = sent /\ ppc = "advance" /\ ppc' = "idle"
         \/ /\ sent' = Append(sent, Len(sent) + 1) /\ Len(sent') = Len(sent) + 1 /\ ppc = "publish"
            /\ ppc' \in {"idle", "advance"}
         \/ /\ sent' = Append(sent, Len(sent) + 1) /\ Len(sent') = Len(sent) + 1 /\ ppc = "link"
            /\ ppc' = "advance"
  BY <1>1, ProducerStepInner
<1>3. CASE blocking
  <2>1. SemaInv(T) /\ spc = "idle"
    BY <1>2, <1>3 DEF AliveInv, SemaInv
  <2>2. Len(sent) \in Nat /\ Len(sent') \in Nat
    BY <1>2, SemaTypes
  <2>3. spc' \in {"idle", "signal"} /\ (ppc' # "idle" => spc' = "idle")
    BY <1>1, <2>1
  <2>4. Len(sent') - Untold' = Len(sent) - Untold
    <3>1. spc' = IF ppc \in {"publish", "advance"} /\ ppc' = "idle" THEN "signal" ELSE "idle"
      BY <1>1, <1>3, <2>1
    <3>2. CASE sent' = sent /\ ppc \notin {"publish", "advance"} /\ ppc' # "advance"
      BY <2>1, <2>2, <3>1, <3>2 DEF Untold, Bit
    <3>3. CASE sent' = sent /\ ppc = "advance" /\ ppc' = "idle"
      BY <2>1, <2>2, <3>1, <3>3 DEF Untold, Bit
    <3>4. CASE Len(sent') = Len(sent) + 1 /\ ppc = "publish" /\ ppc' \in {"idle", "advance"}
      <4>1. Untold = 0
        BY <2>1, <3>4 DEF Untold, Bit
      <4>2. ppc' = "idle" => Untold' = 1
        BY <3>1, <3>4 DEF Untold, Bit
      <4>3. ppc' = "advance" => Untold' = 1
        BY <3>1, <3>4 DEF Untold, Bit
      <4> QED BY <2>2, <3>4, <4>1, <4>2, <4>3
    <3>5. CASE Len(sent') = Len(sent) + 1 /\ ppc = "link" /\ ppc' = "advance"
      BY <2>1, <2>2, <3>1, <3>5 DEF Untold, Bit
    <3> QED BY <1>2, <3>2, <3>3, <3>4, <3>5
  <2>5. SemaInv(T)'
    BY <1>1, <1>2, <2>1, <2>2, <2>3, <2>4, ProducerKeepsSema
  <2> QED BY <1>1, <1>2, <1>3, <2>5 DEF Progress, AliveInv
<1>4. CASE ~blocking
  BY <1>1, <1>2, <1>4 DEF Progress, AliveInv
<1> QED BY <1>3, <1>4

\* Steps that leave the queue itself alone.
LEMMA InnerSame ==
  ASSUME NEW T, InnerInv(T), UNCHANGED <<queueVars, consumerVars, producerVars, sent>>
  PROVE  InnerInv(T)'
<1>1. InRing' = InRing /\ Last' = Last /\ Placing' = Placing
  BY DEF InRing, Last, Placing, queueVars, producerVars
<1>2. MemoryInv(T)'
  BY <1>1 DEF InnerInv, MemoryInv, queueVars
<1>3. ConsumerInv(T)'
  BY <1>1 DEF InnerInv, ConsumerInv, queueVars, consumerVars
<1>4. ProducerInv'
  BY DEF InnerInv, ProducerInv, queueVars, producerVars
<1> QED BY <1>2, <1>3, <1>4 DEF InnerInv

\* signal() after an element.
LEMMA SignalsProgress ==
  ASSUME NEW T \in 0 .. Len(sent), SentInv, AliveInv(T), EnqueueSignals
  PROVE  Progress(T)
<1>1. UNCHANGED <<queueVars, consumerVars, producerVars, sent, alive, blocking>>
  BY DEF EnqueueSignals, innerVars, history
<1>2. InnerInv(T)' /\ SentInv'
  BY <1>1, InnerSame DEF AliveInv, SentInv
<1>3. spc # "idle"
  BY DEF EnqueueSignals, Sema!SignalStep, Sema!Signal, Sema!Post
<1>4. blocking /\ SemaInv(T)
  BY <1>3 DEF AliveInv
<1>5. SemaInv(T)'
  BY <1>4, SignalSema
<1> QED BY <1>1, <1>2, <1>4, <1>5 DEF Progress, AliveInv

\* The waits on the semaphore.
LEMMA WaitsProgress ==
  ASSUME NEW T \in 0 .. Len(sent), SentInv, AliveInv(T), DeadlinesValid,
         WaitRuns \/ \E c \in BlockingCalls : WaitBegins(c)
  PROVE  Progress(T)
<1>1. UNCHANGED <<queueVars, consumerVars, producerVars, sent, alive, blocking>>
  BY DEF WaitRuns, WaitBegins, innerVars, history
<1>2. InnerInv(T)' /\ SentInv'
  BY <1>1, InnerSame DEF AliveInv, SentInv
<1>3. CASE WaitRuns
  <2>1. wpc # "idle"
    BY <1>3 DEF WaitRuns, Sema!WaitStep, Sema!Decrement, Sema!Spin, Sema!StopSpinning, Sema!SemaWait,
                Sema!SemaTimedWait, Sema!TimeOut, Sema!Restore, Sema!Retake, Sema!TryPosted
  <2>2. blocking /\ SemaInv(T)
    BY <2>1 DEF AliveInv
  <2>3. SemaInv(T)'
    BY <1>3, <2>2, WaitRunsSema
  <2> QED BY <1>1, <1>2, <2>2, <2>3 DEF Progress, AliveInv
<1>4. ASSUME NEW c \in BlockingCalls, WaitBegins(c)
      PROVE  Progress(T)
  <2>1. blocking /\ SemaInv(T)
    BY <1>4 DEF AliveInv, WaitBegins
  <2>2. SemaInv(T)'
    BY <1>4, <2>1, WaitBeginsSema
  <2> QED BY <1>1, <1>2, <2>1, <2>2 DEF Progress, AliveInv
<1> QED BY <1>3, <1>4

\* size_approx() changes nothing.
LEMMA SizeProgress ==
  ASSUME NEW T \in 0 .. Len(sent), SentInv, AliveInv(T), NEW t, SizeRuns(t)
  PROVE  Progress(T)
<1>1. UNCHANGED <<queueVars, consumerVars, producerVars, sent, alive, blocking, wpc, spc>> /\ ~blocking
  BY DEF SizeRuns, SizeApprox, SizeStep, SizeLoadFront, SizeLoadTail, SizeLoadNext, history, semaphore
<1>2. InnerInv(T)' /\ SentInv'
  BY <1>1, InnerSame DEF AliveInv, SentInv
<1> QED BY <1>1, <1>2 DEF Progress, AliveInv

\* The inner try_dequeue begins, the semaphore permitting.
LEMMA DequeueBeginsProgress ==
  ASSUME NEW T \in 0 .. Len(sent), SentInv, AliveInv(T), NEW op \in DequeueCalls, DequeueBegins(op)
  PROVE  Progress(T)
<1>1. /\ InnerInv(T) /\ Dequeue(op) /\ UNCHANGED <<blocking, m_count, m_sema, wpc, call, spc>>
      /\ blocking => wpc = IF op = "peek" THEN "idle" ELSE "won"
  BY DEF AliveInv, DequeueBegins, semaphore
<1>2. InnerInv(T)' /\ (cpc' = "look" => Cnt(blocks[frontBlock]) = 0)
  BY <1>1, DequeueInner
<1>3. /\ cpc' \in {"take", "look"} /\ cop' = op /\ sent' = sent /\ alive' = alive
      /\ UNCHANGED <<frontBlock, tailBlock, ppc>>
  BY <1>1 DEF Dequeue, producerVars
<1>4. SentInv'
  BY <1>3 DEF SentInv
<1>5. CASE blocking
  <2>1. SemaInv(T)
    BY <1>5 DEF AliveInv
  <2>2. Untold' = Untold /\ Claimed' = Claimed /\ Posted' = Posted
    BY <1>1, <1>3 DEF Untold, Claimed, Posted
  <2>3. cpc' # "idle" => wpc' = IF cop' = "peek" THEN "idle" ELSE "won"
    BY <1>1, <1>3, <1>5
  <2>4. wpc' = "won" /\ cpc' = "look" => frontBlock' # tailBlock'
    <3>1. SUFFICES ASSUME wpc = "won", cpc' = "look"
                   PROVE  frontBlock # tailBlock
      BY <1>1, <1>3
    <3>2. Len(sent) \in Nat /\ T \in Nat
      BY SemaTypes
    <3>3. Len(sent) - T >= 1 + Bit(ppc = "advance")
      <4>1. m_count = Len(sent) - T - Untold - Claimed /\ m_count >= 0 /\ m_count \in Int
        BY <2>1, <3>1 DEF SemaInv
      <4>2. Claimed = 1 /\ Untold >= Bit(ppc = "advance") /\ Untold \in Nat /\ Bit(ppc = "advance") \in Nat
        BY <3>1 DEF Claimed, Untold, Bit
      <4> QED BY <3>2, <4>1, <4>2
    <3> QED BY <1>1, <1>2, <3>1, <3>3, EmptyFront DEF InnerInv
  <2>5. SemaInv(T)'
    BY <1>1, <1>3, <2>1, <2>2, <2>3, <2>4 DEF SemaInv
  <2> QED BY <1>1, <1>2, <1>3, <1>4, <1>5, <2>5 DEF Progress, AliveInv
<1>6. CASE ~blocking
  BY <1>1, <1>2, <1>3, <1>4, <1>6 DEF Progress, AliveInv
<1> QED BY <1>5, <1>6

\* What a step of the consumer does to the memory, and how far it gets.
LEMMA ConsumerStepInner ==
  ASSUME NEW T \in 0 .. Len(sent), SentInv, InnerInv(T), ConsumerStep
  PROVE  /\ UNCHANGED <<sent, alive, ppc, tailBlock>>
         /\ \/ /\ cpc = "release" /\ cop # "peek" /\ cpc' = "idle"
               /\ T + 1 \in 0 .. Len(sent) /\ InnerInv(T + 1)'
            \/ InnerInv(T)' /\ cpc = "take" /\ cop = "peek" /\ cpc' = "idle"
            \/ InnerInv(T)' /\ cpc = "look" /\ frontBlock = tailBlock /\ cpc' = "idle"
            \/ InnerInv(T)' /\ cpc # "idle" /\ cpc' \notin {"idle", "look"} /\ cop' = cop
<1>1. CASE DequeueLoadTailBlock
  <2>1. InnerInv(T)' /\ (cpc = "look" => cblk = frontBlock)
    BY <1>1, LoadTailBlockInner DEF InnerInv, ConsumerInv
  <2> QED BY <1>1, <2>1 DEF DequeueLoadTailBlock, ConsumerReturns, queueVars, producerVars
<1>2. CASE DequeueRecheck
  <2>1. InnerInv(T)'
    BY <1>2, RecheckInner
  <2> QED BY <1>2, <2>1 DEF DequeueRecheck, producerVars, history
<1>3. CASE DequeueLoadNext
  <2>1. InnerInv(T)'
    BY <1>3, LoadNextInner
  <2> QED BY <1>3, <2>1 DEF DequeueLoadNext, queueVars, producerVars, history
<1>4. CASE DequeueEnter
  <2>1. InnerInv(T)'
    BY <1>4, EnterInner
  <2> QED BY <1>4, <2>1 DEF DequeueEnter, producerVars, history
<1>5. CASE DequeueStoreFrontBlock
  <2>1. InnerInv(T)'
    BY <1>5, StoreFrontBlockInner
  <2> QED BY <1>5, <2>1 DEF DequeueStoreFrontBlock, producerVars, history
<1>6. CASE DequeueTake
  <2>1. InnerInv(T)'
    BY <1>6, TakeInner
  <2> QED BY <1>6, <2>1 DEF DequeueTake, ConsumerReturns, queueVars, producerVars
<1>7. CASE DequeueRelease
  <2>1. T + 1 \in 0 .. Len(sent) /\ InnerInv(T + 1)'
    BY <1>7, ReleaseInner
  <2>2. cpc = "release" /\ cop # "peek"
    BY <1>7 DEF DequeueRelease, InnerInv, ConsumerInv
  <2> QED BY <1>7, <2>1, <2>2 DEF DequeueRelease, ConsumerReturns, producerVars
<1> QED BY <1>1, <1>2, <1>3, <1>4, <1>5, <1>6, <1>7 DEF ConsumerStep

\* A step of it, which may be its last one.
LEMMA DequeueRunsProgress ==
  ASSUME NEW T \in 0 .. Len(sent), SentInv, AliveInv(T), DequeueRuns
  PROVE  Progress(T)
<1>1. /\ InnerInv(T) /\ ConsumerStep /\ UNCHANGED <<blocking, m_count, m_sema, spc>>
      /\ IF cpc' = "idle" THEN wpc' = "idle" ELSE wpc' = wpc
  BY DEF AliveInv, DequeueRuns
<1>2. UNCHANGED <<sent, alive, ppc, tailBlock>>
  BY <1>1, ConsumerStepInner
<1>3. SentInv' /\ Untold' = Untold /\ Posted' = Posted
  BY <1>1, <1>2 DEF SentInv, Untold, Posted
<1>4. Len(sent) \in Nat /\ T \in Nat
  BY SemaTypes
<1>5. blocking => SemaInv(T)
  BY DEF AliveInv
<1>6. CASE /\ cpc = "release" /\ cop # "peek" /\ cpc' = "idle"
           /\ T + 1 \in 0 .. Len(sent) /\ InnerInv(T + 1)'
  <2>1. CASE blocking
    <3>1. SemaInv(T) /\ wpc = "won" /\ wpc' = "idle"
      BY <1>1, <1>5, <1>6, <2>1 DEF SemaInv
    <3>2. Claimed = 1 /\ Claimed' = 0 /\ Untold \in Nat
      BY <3>1 DEF Claimed, Untold, Bit
    <3>3. m_count' = Len(sent') - (T + 1) - Untold' - Claimed'
      <4>1. m_count = Len(sent) - T - Untold - Claimed
        BY <3>1 DEF SemaInv
      <4> QED BY <1>1, <1>2, <1>3, <1>4, <3>2, <4>1
    <3>4. SemaInv(T + 1)'
      BY <1>1, <1>2, <1>3, <1>6, <3>1, <3>3 DEF SemaInv
    <3> QED BY <1>1, <1>2, <1>3, <1>6, <2>1, <3>4 DEF Progress, AliveInv
  <2>2. CASE ~blocking
    BY <1>1, <1>2, <1>3, <1>6, <2>2 DEF Progress, AliveInv
  <2> QED BY <2>1, <2>2
<1>7. CASE /\ InnerInv(T)' /\ cpc' = "idle"
           /\ (cpc = "take" /\ cop = "peek") \/ (cpc = "look" /\ frontBlock = tailBlock)
  <2>1. CASE blocking
    <3>1. SemaInv(T) /\ wpc = "idle" /\ wpc' = "idle"
      BY <1>1, <1>5, <1>7, <2>1 DEF SemaInv
    <3>2. Claimed' = Claimed
      BY <3>1 DEF Claimed
    <3>3. SemaInv(T)'
      BY <1>1, <1>2, <1>3, <1>7, <3>1, <3>2 DEF SemaInv
    <3> QED BY <1>1, <1>2, <1>3, <1>7, <2>1, <3>3 DEF Progress, AliveInv
  <2>2. CASE ~blocking
    BY <1>1, <1>2, <1>3, <1>7, <2>2 DEF Progress, AliveInv
  <2> QED BY <2>1, <2>2
<1>8. CASE InnerInv(T)' /\ cpc # "idle" /\ cpc' \notin {"idle", "look"} /\ cop' = cop
  <2>1. CASE blocking
    <3>1. SemaInv(T) /\ wpc' = wpc
      BY <1>1, <1>5, <1>8, <2>1
    <3>2. Claimed' = Claimed
      BY <3>1 DEF Claimed
    <3>3. SemaInv(T)'
      BY <1>1, <1>2, <1>3, <1>8, <3>1, <3>2 DEF SemaInv
    <3> QED BY <1>1, <1>2, <1>3, <1>8, <2>1, <3>3 DEF Progress, AliveInv
  <2>2. CASE ~blocking
    BY <1>1, <1>2, <1>3, <1>8, <2>2 DEF Progress, AliveInv
  <2> QED BY <2>1, <2>2
<1> QED BY <1>1, <1>6, <1>7, <1>8, ConsumerStepInner

-----------------------------------------------------------------------------
(* What is inside, and what the destructor finds.                           *)

\* SlotsOf, whose remainders the code computes with sizeMask.
LEMMA SlotsAre ==
  ASSUME NEW b \in 1 .. Len(blocks), blocks[b] \in BlockSet, NEW x, BlockOK(blocks[b], x)
  PROVE  SlotsOf(b) = {i \in 0 .. Len(blocks[b].data) - 1 :
                         Ahead(blocks[b].front, i, Len(blocks[b].data)) < Cnt(blocks[b])}
<1>1. Len(blocks[b].data) \in Nat \ {0, 1} /\ blocks[b].front \in 0 .. Len(blocks[b].data) - 1
  BY BlockCounts
<1>2. Count(b) = Cnt(blocks[b])
  BY CountIs
<1>3. PICK n \in Nat \ {0} : n = Len(blocks[b].data)
  BY <1>1
<1>4. PICK f \in 0 .. n - 1 : f = blocks[b].front
  BY <1>1, <1>3
<1>5. \A i \in 0 .. n - 1 : (i - f) % n = Ahead(f, i, n)
  BY AheadMod
<1> QED BY <1>2, <1>3, <1>4, <1>5 DEF SlotsOf, Size

\* What a slot holds.
LEMMA SlotHolds ==
  ASSUME NEW k \in BlockSet, NEW x, BlockOK(k, x), NEW i \in 0 .. Len(k.data) - 1
  PROVE  /\ Ahead(k.front, i, Len(k.data)) \in Nat
         /\ k.data[i + 1] = IF Ahead(k.front, i, Len(k.data)) < Cnt(k) THEN First(k) + Ahead(k.front, i, Len(k.data))
                            ELSE IF i = k.tail THEN x ELSE NoElement
<1>1. k.front \in 0 .. Len(k.data) - 1 /\ Len(k.data) \in Nat \ {0, 1}
  BY BlockCounts
<1>2. Ahead(k.front, i, Len(k.data)) \in Nat
  <2>1. PICK n \in Nat : n = Len(k.data) /\ n >= 2
    BY BlockFields DEF BlockOK
  <2>2. PICK f \in 0 .. n - 1 : f = k.front
    BY <1>1, <2>1
  <2>3. i \in 0 .. n - 1
    BY <2>1
  <2>4. Ahead(f, i, n) \in Nat
    BY <2>1, <2>3, AheadSlot
  <2> QED BY <2>1, <2>2, <2>4
<1> QED BY <1>2 DEF BlockOK, SlotsOK, Cnt, First

\* Which elements a block of the ring may hold.
LEMMA ElementsOf ==
  ASSUME NEW T \in 0 .. Len(sent), SentInv, MemoryInv(T), NEW b \in InRing, Cnt(blocks[b]) > 0
  PROVE  First(blocks[b]) > T /\ First(blocks[b]) + Cnt(blocks[b]) <= Len(sent) + 1
<1>1. ChainOK(InRing, NextOf(blocks, InRing), FirstOf(blocks, InRing), CountOf(blocks, InRing), frontBlock, Last, T, Len(sent))
  BY DEF MemoryInv, MemoryOK
<1>2. CountOf(blocks, InRing)[b] = Cnt(blocks[b]) /\ FirstOf(blocks, InRing)[b] = First(blocks[b])
  BY DEF CountOf, FirstOf
<1>3. T < FirstOf(blocks, InRing)[b] /\ FirstOf(blocks, InRing)[b] + CountOf(blocks, InRing)[b] <= Len(sent) + 1
  BY <1>1, <1>2 DEF ChainOK
<1>4. T \in Nat /\ First(blocks[b]) \in Nat
  <2>1. b \in 1 .. Len(blocks) /\ T \in Nat
    BY InnerFacts
  <2>2. blocks[b] \in BlockSet /\ BlockOK(blocks[b], IF b = Placing THEN Len(sent) + 1 ELSE NoElement)
    BY <2>1, InnerFacts
  <2> QED BY <2>1, <2>2, BlockCounts
<1> QED BY <1>2, <1>3, <1>4

\* The walk of the destructor comes to every block.
LEMMA WholeRing ==
  ASSUME NEW T \in 0 .. Len(sent), SentInv, MemoryInv(T), InRing = 1 .. Len(blocks)
  PROVE  BlocksFrom(frontBlock) = 1 .. Len(blocks)
<1>1. RingOK(InRing, NextOf(blocks, InRing)) /\ \A b \in InRing : NextOf(blocks, InRing)[b] = blocks[b].next
  BY DEF MemoryInv, MemoryOK, NextOf
<1>2. ASSUME NEW S \in SUBSET (1 .. Len(blocks)), frontBlock \in S, \A y \in S : blocks[y].next \in S \cup {frontBlock}
      PROVE  S = 1 .. Len(blocks)
  <2>1. S # {} /\ \A y \in S : NextOf(blocks, InRing)[y] \in S
    BY <1>1, <1>2
  <2> QED BY <1>1, <2>1 DEF RingOK
<1> QED BY <1>2 DEF BlocksFrom

\* A block in which nothing is half done is destroyed with all its elements.
LEMMA BlockDestroyed ==
  ASSUME NEW T \in 0 .. Len(sent), SentInv, MemoryInv(T), InRing = 1 .. Len(blocks), Placing = 0,
         NEW b \in 1 .. Len(blocks)
  PROVE  Destroyed(b) = Freed
<1>1. blocks[b] \in BlockSet /\ BlockOK(blocks[b], NoElement)
  BY InnerFacts
<1>2. ASSUME NEW i \in 0 .. Size(b) - 1
      PROVE  i \in SlotsOf(b) <=> Slot(b, i) # NoElement
  <2>1. /\ Ahead(blocks[b].front, i, Len(blocks[b].data)) \in Nat
        /\ Slot(b, i) = IF Ahead(blocks[b].front, i, Len(blocks[b].data)) < Cnt(blocks[b])
                        THEN First(blocks[b]) + Ahead(blocks[b].front, i, Len(blocks[b].data)) ELSE NoElement
    BY <1>1, <1>2, SlotHolds DEF Size, Slot
  <2>2. i \in SlotsOf(b) <=> Ahead(blocks[b].front, i, Len(blocks[b].data)) < Cnt(blocks[b])
    BY <1>1, <1>2, SlotsAre DEF Size
  <2>3. Cnt(blocks[b]) \in Nat /\ First(blocks[b]) \in Nat /\ T \in Nat
    <3>1. Len(blocks[b].data) \in Nat \ {0, 1} /\ Cnt(blocks[b]) \in 0 .. Len(blocks[b].data) - 1 /\ First(blocks[b]) \in Nat
      BY <1>1, BlockCounts
    <3> QED BY <3>1, SemaTypes
  <2>4. Cnt(blocks[b]) > 0 => First(blocks[b]) > T
    BY ElementsOf
  <2> QED BY <2>1, <2>2, <2>3, <2>4 DEF NoElement
<1> QED BY <1>2 DEF Destroyed

\* The destructor gives everything back.
LEMMA EndsFrees ==
  ASSUME NEW T \in 0 .. Len(sent), SentInv, InnerInv(T), Ends
  PROVE  SentInv' /\ alive' = FALSE /\ sent' = sent /\ Idle' /\ NothingLeaks'
<1>1. /\ cpc = "idle" /\ ppc = "idle" /\ alive' = FALSE /\ sent' = sent /\ Idle'
      /\ blocks' = [b \in 1 .. Len(blocks) |-> IF b \in BlocksFrom(frontBlock) THEN Destroyed(b) ELSE blocks[b]]
  BY DEF Ends, Destroy, consumerVars, producerVars, history, semaphore, Idle
<1>2. MemoryInv(T) /\ InRing = 1 .. Len(blocks) /\ Placing = 0
  BY <1>1, WholeState DEF InnerInv, Whole
<1>3. BlocksFrom(frontBlock) = 1 .. Len(blocks) /\ \A b \in 1 .. Len(blocks) : Destroyed(b) = Freed
  BY <1>2, WholeRing, BlockDestroyed
<1>4. Len(blocks) \in Nat
  BY <1>2, InnerFacts
<1>5. Len(blocks') = Len(blocks) /\ \A b \in 1 .. Len(blocks) : blocks'[b] = Freed
  BY <1>1, <1>3, <1>4
<1> QED BY <1>1, <1>5 DEF NothingLeaks, SentInv

\* Distinct things that are numbered from T + 1 to S: how many there are up to e.
Numbered(O, h, T, S) ==
  /\ \A s \in O : h[s] \in (T + 1) .. S
  /\ \A s, r \in O : h[s] = h[r] => s = r
  /\ \A e \in (T + 1) .. S : \E s \in O : h[s] = e

UpTo(O, h, e) == {s \in O : h[s] <= e}

\* Then there are e - T up to e.
LEMMA Ranks ==
  ASSUME NEW O, NEW h, NEW T \in Nat, NEW S \in Nat, T <= S, Numbered(O, h, T, S)
  PROVE  Cardinality(O) = S - T /\ \A e \in (T + 1) .. S : Cardinality(UpTo(O, h, e)) = e - T
<1>1. ASSUME NEW e \in T .. S
      PROVE  Cardinality(UpTo(O, h, e)) = e - T
  <2> DEFINE D == {s \in O : h[s] <= e}
             g == [s \in D |-> h[s]]
  <2>1. g \in [D -> (T + 1) .. e]
    BY <1>1 DEF Numbered
  <2>2. \A s, r \in D : g[s] = g[r] => s = r
    BY DEF Numbered
  <2>3. \A x \in (T + 1) .. e : \E s \in D : g[s] = x
    <3> SUFFICES ASSUME NEW x \in (T + 1) .. e
                 PROVE  \E s \in D : g[s] = x
      OBVIOUS
    <3>1. x \in (T + 1) .. S
      BY <1>1
    <3>2. PICK s \in O : h[s] = x
      BY <3>1 DEF Numbered
    <3>3. s \in D
      BY <3>2
    <3> QED BY <3>2, <3>3
  <2> HIDE DEF D, g
  <2>4. g \in Bijection(D, (T + 1) .. e)
    BY <2>1, <2>2, <2>3, Fun_IsBij
  <2>5. ExistsBijection((T + 1) .. e, D)
    BY <2>4, Fun_ExistsBijSymmetric DEF ExistsBijection
  <2>6. IsFiniteSet((T + 1) .. e) /\ Cardinality((T + 1) .. e) = e - T
    <3>1. T + 1 \in Int /\ e \in Int /\ T \in Int
      BY <1>1
    <3>2. IsFiniteSet((T + 1) .. e) /\ Cardinality((T + 1) .. e) = IF T + 1 > e THEN 0 ELSE e - (T + 1) + 1
      BY <3>1, FS_Interval
    <3> QED BY <1>1, <3>2
  <2>7. Cardinality(D) = e - T
    BY <2>5, <2>6, FS_Bijection
  <2> QED BY <2>7 DEF D, UpTo
<1>2. O = UpTo(O, h, S)
  BY DEF Numbered, UpTo
<1>3. S \in T .. S /\ \A e \in (T + 1) .. S : e \in T .. S
  OBVIOUS
<1>4. Cardinality(UpTo(O, h, S)) = S - T
  BY <1>1, <1>3
<1> QED BY <1>1, <1>2, <1>3, <1>4

\* The slots between front and tail hold the elements from T + 1 on, each of them once.
LEMMA OccupiedNumbered ==
  ASSUME NEW T \in 0 .. Len(sent), SentInv, MemoryInv(T)
  PROVE  Numbered(Occupied, [s \in Occupied |-> Held(s)], T, Len(sent))
<1>1. /\ Len(sent) \in Nat /\ T \in Nat /\ T <= Len(sent) /\ InRing \in SUBSET (1 .. Len(blocks))
      /\ \A b \in 1 .. Len(blocks) : /\ blocks[b] \in BlockSet
                                     /\ BlockOK(blocks[b], IF b = Placing THEN Len(sent) + 1 ELSE NoElement)
  BY InnerFacts
<1>2. ASSUME NEW b \in InRing
      PROVE  /\ SlotsOf(b) = {i \in 0 .. Len(blocks[b].data) - 1 :
                                Ahead(blocks[b].front, i, Len(blocks[b].data)) < Cnt(blocks[b])}
             /\ Len(blocks[b].data) \in Nat /\ Len(blocks[b].data) >= 2
             /\ Cnt(blocks[b]) \in 0 .. Len(blocks[b].data) - 1
             /\ blocks[b].front \in 0 .. Len(blocks[b].data) - 1 /\ First(blocks[b]) \in Nat
  <2>1. blocks[b] \in BlockSet /\ BlockOK(blocks[b], IF b = Placing THEN Len(sent) + 1 ELSE NoElement) /\ b \in 1 .. Len(blocks)
    BY <1>1, <1>2
  <2>2. SlotsOf(b) = {i \in 0 .. Len(blocks[b].data) - 1 :
                        Ahead(blocks[b].front, i, Len(blocks[b].data)) < Cnt(blocks[b])}
    BY <2>1, SlotsAre
  <2>3. /\ Len(blocks[b].data) \in Nat \ {0, 1} /\ Cnt(blocks[b]) \in 0 .. Len(blocks[b].data) - 1
        /\ blocks[b].front \in 0 .. Len(blocks[b].data) - 1 /\ First(blocks[b]) \in Nat
    BY <2>1, BlockCounts
  <2>4. Len(blocks[b].data) \in Nat /\ Len(blocks[b].data) >= 2
    BY <2>1, <2>3 DEF BlockOK
  <2> QED BY <2>2, <2>3, <2>4
<1>3. ASSUME NEW b \in InRing, NEW i \in SlotsOf(b)
      PROVE  /\ <<b, i>> \in Occupied
             /\ Ahead(blocks[b].front, i, Len(blocks[b].data)) \in Nat
             /\ Ahead(blocks[b].front, i, Len(blocks[b].data)) < Cnt(blocks[b])
             /\ Held(<<b, i>>) = First(blocks[b]) + Ahead(blocks[b].front, i, Len(blocks[b].data))
  <2>1. i \in 0 .. Len(blocks[b].data) - 1 /\ Ahead(blocks[b].front, i, Len(blocks[b].data)) < Cnt(blocks[b])
    BY <1>2, <1>3
  <2>2. blocks[b] \in BlockSet /\ BlockOK(blocks[b], IF b = Placing THEN Len(sent) + 1 ELSE NoElement)
    BY <1>1, <1>3
  <2>3. /\ Ahead(blocks[b].front, i, Len(blocks[b].data)) \in Nat
        /\ blocks[b].data[i + 1] = First(blocks[b]) + Ahead(blocks[b].front, i, Len(blocks[b].data))
    BY <2>1, <2>2, SlotHolds
  <2> QED BY <1>3, <2>1, <2>3 DEF Occupied, Held, Slot
<1>4. ASSUME NEW s \in Occupied
      PROVE  \E b \in InRing : \E i \in SlotsOf(b) : s = <<b, i>>
  BY <1>4 DEF Occupied
<1>5. ASSUME NEW b \in InRing, NEW i \in SlotsOf(b)
      PROVE  Held(<<b, i>>) \in (T + 1) .. Len(sent) /\ Cnt(blocks[b]) > 0
  <2>1. PICK a \in Nat : a = Ahead(blocks[b].front, i, Len(blocks[b].data))
    BY <1>3, <1>5
  <2>2. PICK c \in Nat : c = Cnt(blocks[b])
    BY <1>2, <1>5
  <2>3. PICK f \in Nat : f = First(blocks[b])
    BY <1>2, <1>5
  <2>4. a < c /\ Held(<<b, i>>) = f + a
    BY <1>3, <1>5, <2>1, <2>2, <2>3
  <2>5. f > T /\ f + c <= Len(sent) + 1
    BY <1>5, <2>2, <2>3, <2>4, ElementsOf
  <2> QED BY <1>1, <2>2, <2>4, <2>5
<1> DEFINE h == [s \in Occupied |-> Held(s)]
<1>6. \A s \in Occupied : h[s] \in (T + 1) .. Len(sent)
  <2> SUFFICES ASSUME NEW s \in Occupied
               PROVE  Held(s) \in (T + 1) .. Len(sent)
    OBVIOUS
  <2> QED BY <1>4, <1>5
<1>7. ChainOK(InRing, NextOf(blocks, InRing), FirstOf(blocks, InRing), CountOf(blocks, InRing), frontBlock, Last, T, Len(sent))
  BY DEF MemoryInv, MemoryOK
<1>8. \A b \in InRing : CountOf(blocks, InRing)[b] = Cnt(blocks[b]) /\ FirstOf(blocks, InRing)[b] = First(blocks[b])
  BY DEF CountOf, FirstOf
<1>9. \A s, r \in Occupied : h[s] = h[r] => s = r
  <2> SUFFICES ASSUME NEW s \in Occupied, NEW r \in Occupied, Held(s) = Held(r)
               PROVE  s = r
    OBVIOUS
  <2>1. PICK b \in InRing : \E i \in SlotsOf(b) : s = <<b, i>>
    BY <1>4
  <2>2. PICK i \in SlotsOf(b) : s = <<b, i>>
    BY <2>1
  <2>3. PICK c \in InRing : \E j \in SlotsOf(c) : r = <<c, j>>
    BY <1>4
  <2>4. PICK j \in SlotsOf(c) : r = <<c, j>>
    BY <2>3
  <2>5. PICK x \in Nat : x = Ahead(blocks[b].front, i, Len(blocks[b].data))
    BY <1>3
  <2>6. PICK y \in Nat : y = Ahead(blocks[c].front, j, Len(blocks[c].data))
    BY <1>3
  <2>7. PICK n \in Nat : n = Cnt(blocks[b])
    BY <1>2
  <2>8. PICK m \in Nat : m = Cnt(blocks[c])
    BY <1>2
  <2>9. PICK f \in Nat : f = First(blocks[b])
    BY <1>2
  <2>10. PICK g \in Nat : g = First(blocks[c])
    BY <1>2
  <2>11. x < n /\ y < m /\ f + x = g + y
    BY <1>3, <2>2, <2>4, <2>5, <2>6, <2>7, <2>8, <2>9, <2>10
  <2>12. b = c
    <3>1. n > 0 /\ m > 0
      BY <2>11
    <3>2. b # c => f + n <= g \/ g + m <= f
      BY <1>7, <1>8, <2>7, <2>8, <2>9, <2>10, <3>1 DEF ChainOK
    <3> QED BY <2>11, <3>2
  <2>13. x = y
    BY <2>9, <2>10, <2>11, <2>12
  <2>14. i = j
    <3>1. /\ i \in 0 .. Len(blocks[b].data) - 1 /\ j \in 0 .. Len(blocks[b].data) - 1
          /\ blocks[b].front \in 0 .. Len(blocks[b].data) - 1
          /\ Len(blocks[b].data) \in Nat /\ Len(blocks[b].data) >= 2
      BY <1>2, <2>12
    <3>2. PICK w \in Nat : w = Len(blocks[b].data) /\ w >= 2
      BY <3>1
    <3>3. PICK q \in 0 .. w - 1 : q = blocks[b].front
      BY <3>1, <3>2
    <3>4. i \in 0 .. w - 1 /\ j \in 0 .. w - 1 /\ Ahead(q, i, w) = Ahead(q, j, w)
      BY <2>5, <2>6, <2>12, <2>13, <3>1, <3>2, <3>3
    <3> QED BY <3>2, <3>4, AheadSlot
  <2> QED BY <2>2, <2>4, <2>12, <2>14
<1>10. \A e \in (T + 1) .. Len(sent) : \E s \in Occupied : h[s] = e
  <2> SUFFICES ASSUME NEW e \in (T + 1) .. Len(sent)
               PROVE  \E s \in Occupied : Held(s) = e
    OBVIOUS
  <2>1. PICK b \in InRing : /\ FirstOf(blocks, InRing)[b] <= e
                            /\ e < FirstOf(blocks, InRing)[b] + CountOf(blocks, InRing)[b]
    BY <1>7 DEF ChainOK
  <2>2. PICK n \in Nat : n = Len(blocks[b].data) /\ n >= 2
    BY <1>2
  <2>3. PICK f \in 0 .. n - 1 : f = blocks[b].front
    BY <1>2, <2>2
  <2>4. PICK lo \in Nat : lo = First(blocks[b])
    BY <1>2
  <2>5. PICK c \in 0 .. n - 1 : c = Cnt(blocks[b])
    BY <1>2, <2>2
  <2>6. lo <= e /\ e < lo + c
    BY <1>8, <2>1, <2>4, <2>5
  <2> DEFINE i == IF f + (e - lo) < n THEN f + (e - lo) ELSE f + (e - lo) - n
  <2>7. i \in 0 .. n - 1 /\ Ahead(f, i, n) = e - lo /\ e - lo < c
    BY <1>1, <2>6 DEF Ahead
  <2>8. i \in SlotsOf(b)
    BY <1>2, <2>2, <2>3, <2>5, <2>7
  <2> HIDE DEF i
  <2>9. <<b, i>> \in Occupied /\ Held(<<b, i>>) = lo + (e - lo)
    BY <1>3, <2>2, <2>3, <2>4, <2>7, <2>8
  <2>10. lo + (e - lo) = e
    BY <1>1
  <2> QED BY <2>9, <2>10
<1> QED BY <1>6, <1>9, <1>10 DEF Numbered

\* The elements from T + 1 to S, in order.
Between(T, S) == [k \in 1 .. S - T |-> T + k]

\* It has S - T elements; the first of them is T + 1.
LEMMA BetweenFacts ==
  ASSUME NEW T \in Nat, NEW S \in Nat, T <= S
  PROVE  /\ Between(T, S) \in Seq(Nat) /\ Len(Between(T, S)) = S - T
         /\ \A k \in 1 .. S - T : Between(T, S)[k] = T + k
         /\ T < S => Between(T, S) # <<>> /\ Head(Between(T, S)) = T + 1
<1>1. Between(T, S) \in Seq(Nat) /\ Len(Between(T, S)) = S - T /\ \A k \in 1 .. S - T : Between(T, S)[k] = T + k
  BY DEF Between
<1>2. T < S => Between(T, S) # <<>> /\ Head(Between(T, S)) = Between(T, S)[1]
  BY <1>1, HeadTailProperties, EmptySeq
<1> QED BY <1>1, <1>2

\* What is inside is what has been enqueued and not been taken.
LEMMA ContentsAre ==
  ASSUME NEW T \in 0 .. Len(sent), SentInv, MemoryInv(T), alive
  PROVE  Contents = Between(T, Len(sent))
<1> DEFINE h == [s \in Occupied |-> Held(s)]
           rank(e) == Cardinality({s \in Occupied : Held(s) <= e})
           S == Len(sent)
<1>1. S \in Nat /\ T \in Nat /\ T <= S
  BY SemaTypes
<1>2. Numbered(Occupied, h, T, S)
  BY OccupiedNumbered
<1>3. Cardinality(Occupied) = S - T /\ \A e \in (T + 1) .. S : Cardinality(UpTo(Occupied, h, e)) = e - T
  <2> HIDE DEF h
  <2> QED BY <1>1, <1>2, Ranks
<1>4. \A e \in (T + 1) .. S : rank(e) = e - T
  <2>1. \A e : UpTo(Occupied, h, e) = {s \in Occupied : Held(s) <= e}
    BY DEF UpTo
  <2> QED BY <1>3, <2>1
<1>5. {Held(s) : s \in Occupied} = (T + 1) .. S
  BY <1>2 DEF Numbered
<1>6. ASSUME NEW k \in 1 .. S - T
      PROVE  (CHOOSE e \in (T + 1) .. S : rank(e) = k) = T + k
  <2> HIDE DEF rank
  <2>1. T + k \in (T + 1) .. S /\ rank(T + k) = k
    BY <1>1, <1>4, <1>6
  <2>2. \A e \in (T + 1) .. S : rank(e) = k => e = T + k
    BY <1>1, <1>4, <1>6
  <2> QED BY <2>1, <2>2
<1>7. Contents = [k \in 1 .. S - T |-> CHOOSE e \in (T + 1) .. S : rank(e) = k]
  <2> DEFINE H == {Held(s) : s \in Occupied}
             C == Cardinality(Occupied)
  <2>1. Contents = [k \in 1 .. C |-> CHOOSE e \in H : rank(e) = k]
    BY Zenon DEF Contents
  <2>2. C = S - T /\ H = (T + 1) .. S
    BY <1>3, <1>5
  <2> HIDE DEF H, C, rank, S
  <2> QED BY <2>1, <2>2
<1> HIDE DEF rank, S
<1> QED BY <1>6, <1>7 DEF Between, S

\* The same of the state after a step.
ContentsKnown == \A T \in 0 .. Len(sent) : SentInv /\ MemoryInv(T) /\ alive => Contents = Between(T, Len(sent))

\* It holds in every state,
LEMMA ContentsBefore == ContentsKnown
BY ContentsAre DEF ContentsKnown

\* and so in the one a step leads to.
LEMMA ContentsAfter == ContentsKnown'
BY ContentsBefore, PTL

-----------------------------------------------------------------------------
(* The invariant.                                                           *)

\* The same as Progress, of the memory alone.
InnerProgress(T) ==
  /\ SentInv' /\ alive' = alive
  /\ \/ sent' = sent /\ InnerInv(T)'
     \/ sent' = Append(sent, Len(sent) + 1) /\ InnerInv(T)'
     \/ sent' = sent /\ T + 1 \in 0 .. Len(sent) /\ InnerInv(T + 1)'

\* Every step but the destructor's, as the memory sees it.
LEMMA StepInner ==
  ASSUME NEW T \in 0 .. Len(sent), SentInv, InnerInv(T), BlockingNext, ~Ends
  PROVE  InnerProgress(T)
<1>1. ASSUME NEW op \in {CanAlloc, CannotAlloc}, EnqueueBegins(op)
      PROVE  InnerProgress(T)
  <2>1. InnerEnqueue(op) /\ sent' = sent /\ alive' = alive
    BY <1>1 DEF EnqueueBegins, InnerEnqueue
  <2> QED BY <2>1, InnerEnqueueInner DEF InnerProgress, SentInv
<1>2. CASE EnqueueRuns
  BY <1>2, ProducerStepInner DEF EnqueueRuns, InnerProgress
<1>3. CASE \/ EnqueueSignals \/ WaitRuns \/ \E c \in BlockingCalls : WaitBegins(c)
           \/ \E t \in DOMAIN walk : SizeRuns(t)
  <2>1. UNCHANGED <<queueVars, consumerVars, producerVars, sent, alive>>
    BY <1>3 DEF EnqueueSignals, WaitRuns, WaitBegins, SizeRuns, SizeApprox, SizeStep, SizeLoadFront, SizeLoadTail,
                SizeLoadNext, innerVars, history
  <2> QED BY <2>1, InnerSame DEF InnerProgress, SentInv
<1>4. ASSUME NEW op \in DequeueCalls, DequeueBegins(op)
      PROVE  InnerProgress(T)
  <2>1. Dequeue(op) /\ sent' = sent /\ alive' = alive
    BY <1>4 DEF DequeueBegins, Dequeue
  <2> QED BY <2>1, DequeueInner DEF InnerProgress, SentInv
<1>5. CASE DequeueRuns
  <2>1. ConsumerStep
    BY <1>5 DEF DequeueRuns
  <2>2. UNCHANGED <<sent, alive>>
    BY <2>1, ConsumerStepInner
  <2>3. InnerInv(T)' \/ (T + 1 \in 0 .. Len(sent) /\ InnerInv(T + 1)')
    BY <2>1, ConsumerStepInner
  <2> QED BY <2>2, <2>3 DEF InnerProgress, SentInv
<1> QED BY <1>1, <1>2, <1>3, <1>4, <1>5 DEF BlockingNext

\* Every step but the destructor's, with the semaphore.
LEMMA StepAlive ==
  ASSUME NEW T \in 0 .. Len(sent), SentInv, AliveInv(T), DeadlinesValid, BlockingNext, ~Ends
  PROVE  Progress(T)
<1>1. ASSUME NEW op \in {CanAlloc, CannotAlloc}, EnqueueBegins(op)
      PROVE  Progress(T)
  BY <1>1, EnqueueBeginsProgress
<1>2. CASE EnqueueRuns
  BY <1>2, EnqueueRunsProgress
<1>3. CASE EnqueueSignals
  BY <1>3, SignalsProgress
<1>4. CASE WaitRuns \/ \E c \in BlockingCalls : WaitBegins(c)
  BY <1>4, WaitsProgress
<1>5. ASSUME NEW op \in DequeueCalls, DequeueBegins(op)
      PROVE  Progress(T)
  BY <1>5, DequeueBeginsProgress
<1>6. CASE DequeueRuns
  BY <1>6, DequeueRunsProgress
<1>7. ASSUME NEW t \in DOMAIN walk, SizeRuns(t)
      PROVE  Progress(T)
  BY <1>7, SizeProgress
<1> QED BY <1>1, <1>2, <1>3, <1>4, <1>5, <1>6, <1>7 DEF BlockingNext

\* A queue that has been destroyed is left alone.
LEMMA StepDead ==
  ASSUME SentInv, Idle, NothingLeaks, ~alive, BlockingNext
  PROVE  SentInv' /\ Idle' /\ NothingLeaks' /\ ~alive' /\ sent' = sent
<1>1. \A op : ~EnqueueBegins(op) /\ ~DequeueBegins(op) /\ ~WaitBegins(op)
  BY DEF EnqueueBegins, InnerEnqueue, DequeueBegins, Dequeue, WaitBegins
<1>2. ~EnqueueRuns
  BY DEF Idle, EnqueueRuns, ProducerStep, EnqueueCheckNext, EnqueueAhead, EnqueuePlace, EnqueueStoreTail,
         EnqueueAllocFails, EnqueueAlloc, EnqueueLink, EnqueueStoreTailBlock
<1>3. ~DequeueRuns
  BY DEF Idle, DequeueRuns, ConsumerStep, DequeueLoadTailBlock, DequeueRecheck, DequeueLoadNext, DequeueEnter,
         DequeueStoreFrontBlock, DequeueTake, DequeueRelease
<1>4. ~EnqueueSignals
  BY DEF Idle, EnqueueSignals, Sema!SignalStep, Sema!Signal, Sema!Post
<1>5. ~WaitRuns
  BY DEF Idle, WaitRuns, Sema!WaitStep, Sema!Decrement, Sema!Spin, Sema!StopSpinning, Sema!SemaWait,
         Sema!SemaTimedWait, Sema!TimeOut, Sema!Restore, Sema!Retake, Sema!TryPosted
<1>6. ~Ends
  BY DEF Ends, Destroy
<1>7. PICK t \in DOMAIN walk : SizeRuns(t)
  BY <1>1, <1>2, <1>3, <1>4, <1>5, <1>6 DEF BlockingNext
<1>8. UNCHANGED <<queueVars, consumerVars, producerVars, sent, alive, wpc, spc>>
  BY <1>7 DEF SizeRuns, SizeApprox, SizeStep, SizeLoadFront, SizeLoadTail, SizeLoadNext, history, semaphore
<1> QED BY <1>8 DEF SentInv, Idle, NothingLeaks, queueVars, consumerVars, producerVars

\* Every step keeps the invariant of the memory.
LEMMA InnerIInvStep == InnerIInv /\ [BlockingNext]_vars => InnerIInv'
<1> SUFFICES ASSUME InnerIInv, [BlockingNext]_vars
             PROVE  InnerIInv'
  OBVIOUS
<1>1. CASE UNCHANGED vars
  <2>1. UNCHANGED <<queueVars, consumerVars, producerVars, sent, alive, wpc, spc>>
    BY <1>1 DEF vars, innerVars, history, semaphore
  <2>2. SentInv' /\ (Idle /\ NothingLeaks => Idle' /\ NothingLeaks') /\ \A T : InnerInv(T) => InnerInv(T)'
    BY <2>1, InnerSame DEF InnerIInv, SentInv, Idle, NothingLeaks, queueVars, consumerVars, producerVars
  <2> QED BY <2>1, <2>2 DEF InnerIInv
<1>2. CASE BlockingNext /\ ~alive
  BY <1>2, StepDead DEF InnerIInv
<1>3. CASE BlockingNext /\ alive
  <2>1. PICK T \in 0 .. Len(sent) : InnerInv(T)
    BY <1>3 DEF InnerIInv
  <2>2. SentInv
    BY DEF InnerIInv
  <2>3. CASE Ends
    BY <2>1, <2>2, <2>3, EndsFrees DEF InnerIInv
  <2>4. CASE ~Ends
    <3>1. InnerProgress(T)
      BY <1>3, <2>1, <2>2, <2>4, StepInner
    <3>2. T \in 0 .. Len(sent')
      <4>1. Len(sent) \in Nat /\ T \in Nat /\ T <= Len(sent) /\ sent \in Seq(Nat)
        BY <2>1, <2>2, SemaTypes DEF SentInv
      <4>2. Len(sent') = Len(sent) \/ Len(sent') = Len(sent) + 1
        BY <3>1, <4>1, AppendProperties DEF InnerProgress
      <4> QED BY <4>1, <4>2
    <3> QED BY <1>3, <3>1, <3>2 DEF InnerProgress, InnerIInv
  <2> QED BY <2>3, <2>4
<1> QED BY <1>1, <1>2, <1>3

\* Every step keeps the whole invariant.
LEMMA ReaderWriterIInvStep == DeadlinesValid /\ ReaderWriterIInv /\ [BlockingNext]_vars => ReaderWriterIInv'
<1> SUFFICES ASSUME DeadlinesValid, ReaderWriterIInv, [BlockingNext]_vars
             PROVE  ReaderWriterIInv'
  OBVIOUS
<1>1. CASE UNCHANGED vars
  <2>1. UNCHANGED <<queueVars, consumerVars, producerVars, sent, alive, blocking, m_count, m_sema, wpc, spc>>
    BY <1>1 DEF vars, innerVars, history, semaphore
  <2>2. SentInv' /\ (Idle /\ NothingLeaks => Idle' /\ NothingLeaks') /\ \A T : InnerInv(T) => InnerInv(T)'
    BY <2>1, InnerSame DEF ReaderWriterIInv, SentInv, Idle, NothingLeaks, queueVars, consumerVars, producerVars
  <2>3. \A T : SemaInv(T) => SemaInv(T)'
    BY <2>1 DEF SemaInv, Untold, Claimed, Posted, queueVars, consumerVars, producerVars
  <2> QED BY <2>1, <2>2, <2>3 DEF ReaderWriterIInv, AliveInv
<1>2. CASE BlockingNext /\ ~alive
  BY <1>2, StepDead DEF ReaderWriterIInv
<1>3. CASE BlockingNext /\ alive
  <2>1. PICK T \in 0 .. Len(sent) : AliveInv(T)
    BY <1>3 DEF ReaderWriterIInv
  <2>2. SentInv
    BY DEF ReaderWriterIInv
  <2>3. CASE Ends
    BY <2>1, <2>2, <2>3, EndsFrees DEF ReaderWriterIInv, AliveInv
  <2>4. CASE ~Ends
    <3>1. Progress(T)
      BY <1>3, <2>1, <2>2, <2>4, StepAlive
    <3>2. T \in 0 .. Len(sent')
      <4>1. Len(sent) \in Nat /\ T \in Nat /\ T <= Len(sent) /\ sent \in Seq(Nat)
        BY <2>1, <2>2, SemaTypes DEF SentInv
      <4>2. Len(sent') = Len(sent) \/ Len(sent') = Len(sent) + 1
        BY <3>1, <4>1, AppendProperties DEF Progress
      <4> QED BY <4>1, <4>2
    <3> QED BY <1>3, <3>1, <3>2 DEF Progress, ReaderWriterIInv
  <2> QED BY <2>3, <2>4
<1> QED BY <1>1, <1>2, <1>3

\* What the invariant says of the slots that the threads use.
LEMMA SlotsExclusiveIn == InnerIInv => SlotsExclusive
<1> SUFFICES ASSUME InnerIInv
             PROVE  SlotsExclusive
  OBVIOUS
<1>1. CASE ~alive
  BY <1>1 DEF InnerIInv, Idle, SlotsExclusive
<1>2. CASE alive
  <2>1. PICK T \in 0 .. Len(sent) : InnerInv(T)
    BY <1>2 DEF InnerIInv
  <2>2. SentInv /\ MemoryInv(T) /\ ConsumerInv(T) /\ ProducerInv
    BY <2>1 DEF InnerIInv, InnerInv
  <2>3. /\ Len(sent) \in Nat /\ T \in Nat /\ T <= Len(sent) /\ InRing \in SUBSET (1 .. Len(blocks))
        /\ \A b \in 1 .. Len(blocks) : /\ blocks[b] \in BlockSet
                                       /\ BlockOK(blocks[b], IF b = Placing THEN Len(sent) + 1 ELSE NoElement)
    BY <2>1, <2>2, InnerFacts
  <2>4. ppc = "place" => Slot(pblk, blocks[pblk].tail) = NoElement
    <3> SUFFICES ASSUME ppc = "place"
                 PROVE  Slot(pblk, blocks[pblk].tail) = NoElement
      OBVIOUS
    <3>1. pblk \in InRing
      BY <2>1, <2>2, WrittenBlock
    <3>2. Placing = 0
      BY DEF Placing
    <3>3. PICK k \in BlockSet : k = blocks[pblk] /\ BlockOK(k, NoElement)
      BY <2>3, <3>1, <3>2
    <3>4. k.tail \in 0 .. Len(k.data) - 1 /\ Cnt(k) = Ahead(k.front, k.tail, Len(k.data))
          /\ Cnt(k) \in 0 .. Len(k.data) - 1 /\ Len(k.data) \in Nat
      BY <3>3, BlockCounts DEF Cnt
    <3>5. k.data[k.tail + 1] = NoElement
      <4>1. ~(Ahead(k.front, k.tail, Len(k.data)) < Cnt(k))
        BY <3>4
      <4> QED BY <3>3, <3>4, <4>1, SlotHolds
    <3> QED BY <3>3, <3>5 DEF Slot
  <2>5. cpc \in {"take", "release"} => /\ Contents # <<>> /\ Head(Contents) = T + 1 /\ Slot(cblk, cidx) = T + 1
    <3> SUFFICES ASSUME cpc \in {"take", "release"}
                 PROVE  Contents # <<>> /\ Head(Contents) = T + 1 /\ Slot(cblk, cidx) = T + 1
      OBVIOUS
    <3>1. /\ cblk \in InRing /\ cidx = blocks[cblk].front /\ Cnt(blocks[cblk]) > 0
          /\ First(blocks[cblk]) = T + 1
      BY <2>2 DEF ConsumerInv
    <3>2. T < Len(sent)
      <4>1. First(blocks[cblk]) + Cnt(blocks[cblk]) <= Len(sent) + 1
        BY <2>1, <2>2, <3>1, ElementsOf
      <4>2. Cnt(blocks[cblk]) \in Nat
        <5>1. blocks[cblk] \in BlockSet /\ BlockOK(blocks[cblk], IF cblk = Placing THEN Len(sent) + 1 ELSE NoElement)
          BY <2>3, <3>1
        <5>2. Cnt(blocks[cblk]) \in 0 .. Len(blocks[cblk].data) - 1 /\ Len(blocks[cblk].data) \in Nat \ {0, 1}
          BY <5>1, BlockCounts
        <5> QED BY <5>2
      <4> QED BY <2>3, <3>1, <4>1, <4>2
    <3>3. Contents = Between(T, Len(sent))
      BY <1>2, <2>1, <2>2, ContentsAre
    <3> QED BY <2>3, <3>1, <3>2, <3>3, BetweenFacts DEF Slot, First
  <2>6. cpc = "release" => cresult = T + 1
    BY <2>2 DEF ConsumerInv
  <2> QED BY <2>4, <2>5, <2>6 DEF SlotsExclusive
<1> QED BY <1>1, <1>2

\* With the destructor: of the memory as a whole.
LEMMA MemorySoundIn == InnerIInv => MemorySound
BY SlotsExclusiveIn DEF InnerIInv, MemorySound, NothingLeaks

\* What it says of the block ahead of a thread.
LEMMA AssertionsHoldIn == InnerIInv => AssertionsHold
<1> SUFFICES ASSUME InnerIInv, alive
             PROVE  AssertionsHold
  BY DEF InnerIInv, Idle, AssertionsHold
<1>1. PICK T \in 0 .. Len(sent) : InnerInv(T)
  BY DEF InnerIInv
<1>2. SentInv /\ MemoryInv(T) /\ ConsumerInv(T) /\ ProducerInv
  BY <1>1 DEF InnerIInv, InnerInv
<1>3. \A b \in InRing : Count(b) = Cnt(blocks[b])
  <2> SUFFICES ASSUME NEW b \in InRing
               PROVE  Count(b) = Cnt(blocks[b])
    OBVIOUS
  <2>1. b \in 1 .. Len(blocks) /\ blocks[b] \in BlockSet /\ BlockOK(blocks[b], IF b = Placing THEN Len(sent) + 1 ELSE NoElement)
    BY <1>1, <1>2, InnerFacts
  <2> QED BY <2>1, CountIs
<1>4. cpc = "enter" => Count(cblk) # 0
  <2> SUFFICES ASSUME cpc = "enter"
               PROVE  Count(cblk) # 0
    OBVIOUS
  <2>1. frontBlock # tailBlock /\ Cnt(blocks[frontBlock]) = 0 /\ cblk = blocks[frontBlock].next
    BY <1>2 DEF ConsumerInv
  <2>2. cblk \in InRing /\ Cnt(blocks[cblk]) > 0
    BY <1>1, <1>2, <2>1, BeyondFront
  <2> QED BY <1>3, <2>2
<1>5. ppc = "ahead" => Count(blocks[tailBlock].next) = 0
  <2> SUFFICES ASSUME ppc = "ahead"
               PROVE  Count(blocks[tailBlock].next) = 0
    OBVIOUS
  <2>1. Last = tailBlock /\ blocks[tailBlock].next # frontBlock
    BY <1>2 DEF Last, ProducerInv
  <2>2. blocks[tailBlock].next \in InRing /\ Cnt(blocks[blocks[tailBlock].next]) = 0
    BY <1>1, <1>2, <2>1, NextEmpty
  <2> QED BY <1>3, <2>2
<1> QED BY <1>4, <1>5 DEF AssertionsHold

\* The whole invariant contains that of the memory.
LEMMA InnerInFull == ReaderWriterIInv => InnerIInv
BY DEF ReaderWriterIInv, InnerIInv, AliveInv

\* What it says of the assertions.
LEMMA NoAssertionFailsIn == ReaderWriterIInv => NoAssertionFails
<1> SUFFICES ASSUME ReaderWriterIInv
             PROVE  NoAssertionFails
  OBVIOUS
<1>1. AssertionsHold
  BY InnerInFull, AssertionsHoldIn
<1>2. ~alive => SemaAssertionsHold
  BY DEF ReaderWriterIInv, Idle, SemaAssertionsHold
<1>3. ASSUME alive
      PROVE  SemaAssertionsHold
  <2>1. PICK T \in 0 .. Len(sent) : AliveInv(T)
    BY <1>3 DEF ReaderWriterIInv
  <2>2. cpc = "look" => cblk = frontBlock
    BY <2>1 DEF AliveInv, InnerInv, ConsumerInv
  <2> QED BY <2>1, <2>2 DEF AliveInv, SemaInv, SemaAssertionsHold
<1> QED BY <1>1, <1>2, <1>3 DEF NoAssertionFails

\* What it says of the count.
LEMMA CountAgreesIn == ReaderWriterIInv => CountAgrees
<1> SUFFICES ASSUME ReaderWriterIInv, alive, blocking
             PROVE  CountAgrees
  BY DEF CountAgrees, NeverOverstated, SemaSettled
<1>1. PICK T \in 0 .. Len(sent) : AliveInv(T)
  BY DEF ReaderWriterIInv
<1>2. SentInv /\ MemoryInv(T) /\ SemaInv(T)
  BY <1>1 DEF ReaderWriterIInv, AliveInv, InnerInv
<1>3. Len(sent) \in Nat /\ T \in Nat /\ T <= Len(sent)
  BY <1>1, <1>2, SemaTypes
<1>4. Len(Contents) = Len(sent) - T
  BY <1>1, <1>2, <1>3, ContentsAre, BetweenFacts
<1>5. NeverOverstated
  <2>1. m_count = Len(sent) - T - Untold - Claimed /\ m_count \in Int /\ (wpc = "won" => m_count >= 0)
    BY <1>2 DEF SemaInv
  <2>2. Untold \in Nat /\ Claimed \in Nat /\ (wpc = "won" => Claimed = 1)
    BY DEF Untold, Claimed, Bit
  <2>3. m_count <= Len(Contents) - (IF wpc = "won" THEN 1 ELSE 0)
    BY <1>3, <1>4, <2>1, <2>2
  <2>4. 0 <= Len(Contents) - (IF wpc = "won" THEN 1 ELSE 0)
    BY <1>3, <1>4, <2>1, <2>2
  <2> QED BY <2>3, <2>4 DEF NeverOverstated, Sema!AvailableApprox
<1>6. SemaSettled
  BY <1>2, <1>3, <1>4 DEF SemaInv, SemaSettled, Untold, Claimed, Posted, Bit
<1> QED BY <1>5, <1>6 DEF CountAgrees

-----------------------------------------------------------------------------
(* The constructor.                                                         *)

\* A set of numbers has a smallest one.
LEMMA LeastNumber ==
  ASSUME NEW X \in SUBSET Nat, X # {}
  PROVE  \E x \in X : \A y \in X : x <= y
<1>1. PICK x \in X : \A y \in X : ~(<<y, x>> \in OpToRel(<, Nat))
  BY NatLessThanWellFounded, WFMin, Zenon
<1>2. \A y \in X : ~(y < x)
  BY <1>1 DEF OpToRel
<1> QED BY <1>2

\* Following the blocks of the constructor one comes to all of them.
LEMMA InitialRing ==
  ASSUME NEW c \in Nat \ {0}, NEW nx, nx = [i \in 1 .. c |-> IF i = c THEN 1 ELSE i + 1]
  PROVE  RingOK(1 .. c, nx)
<1>1. nx \in [1 .. c -> 1 .. c] /\ \A i \in 1 .. c : nx[i] = IF i = c THEN 1 ELSE i + 1
  OBVIOUS
<1>2. \A a, b \in 1 .. c : nx[a] = nx[b] => a = b
  BY <1>1
<1>3. ASSUME NEW X \in SUBSET (1 .. c), X # {}, \A y \in X : nx[y] \in X
      PROVE  X = 1 .. c
  <2>1. c \in X
    <3> DEFINE D == {c - y : y \in X}
    <3>1. D \in SUBSET Nat /\ D # {}
      <4>1. \A y \in X : c - y \in Nat
        BY <1>3
      <4>2. PICK x \in X : TRUE
        BY <1>3
      <4>3. c - x \in D
        OBVIOUS
      <4> QED BY <4>1, <4>3
    <3>2. PICK d \in D : \A e \in D : d <= e
      <4> HIDE DEF D
      <4> QED BY <3>1, LeastNumber
    <3>3. PICK y \in X : d = c - y
      BY <3>2
    <3>4. y \in 1 .. c
      BY <1>3
    <3>5. CASE y # c
      <4>1. y + 1 \in X
        BY <1>1, <1>3, <3>4, <3>5
      <4>2. c - (y + 1) \in D
        BY <4>1
      <4>3. d <= c - (y + 1)
        BY <3>2, <4>2
      <4> QED BY <3>3, <3>4, <4>3
    <3> QED BY <3>5
  <2>2. 1 \in X
    BY <1>1, <1>3, <2>1
  <2> SUFFICES ASSUME X # 1 .. c
               PROVE  FALSE
    OBVIOUS
  <2> DEFINE Y == (1 .. c) \ X
  <2>3. Y \in SUBSET Nat /\ Y # {}
    <3>1. \A y \in Y : y \in Nat
      OBVIOUS
    <3>2. X \subseteq 1 .. c
      BY <1>3
    <3>3. Y # {}
      <4> HIDE DEF Y
      <4>1. Y = (1 .. c) \ X
        BY DEF Y
      <4> QED BY <3>2, <4>1, Zenon
    <3> QED BY <3>1, <3>3
  <2>4. PICK y \in Y : \A z \in Y : y <= z
    <3> HIDE DEF Y
    <3> QED BY <2>3, LeastNumber
  <2>5. y \in 1 .. c /\ y \notin X /\ y # 1
    BY <2>2, <2>4
  <2>6. y - 1 \in 1 .. c /\ y - 1 \notin Y
    BY <2>4, <2>5
  <2>7. y - 1 \in X /\ y - 1 # c
    BY <2>5, <2>6
  <2>8. nx[y - 1] = y
    BY <1>1, <2>5, <2>6, <2>7
  <2> QED BY <1>3, <2>5, <2>7, <2>8
<1> QED BY <1>1, <1>2, <1>3 DEF RingOK

\* An empty ring of c blocks with z slots each.
LEMMA InitialMemory ==
  ASSUME NEW c \in Nat \ {0}, NEW z \in Nat, z >= 2,
         NEW bs, bs = [i \in 1 .. c |-> MakeBlock(z, IF i = c THEN 1 ELSE i + 1)]
  PROVE  Len(bs) = c /\ Len(bs[1].data) = z /\ MemoryOK(bs, 1 .. c, 0, 1, 1, 0, 0)
<1> DEFINE nx == [i \in 1 .. c |-> IF i = c THEN 1 ELSE i + 1]
<1>1. ASSUME NEW i \in 1 .. c
      PROVE  /\ bs[i] = MakeBlock(z, nx[i]) /\ bs[i] \in BlockSet /\ BlockOK(bs[i], NoElement)
             /\ Cnt(bs[i]) = 0 /\ bs[i].next = nx[i]
  <2>1. bs[i] = MakeBlock(z, nx[i]) /\ nx[i] \in Nat
    BY <1>1
  <2> HIDE DEF nx
  <2> QED BY <2>1, NewBlock
<1>2. bs \in Seq(BlockSet) /\ Len(bs) = c
  <2>1. bs \in [1 .. c -> BlockSet]
    BY <1>1
  <2> QED BY <2>1
<1>3. Len(bs[1].data) = z
  <2>1. 1 \in 1 .. c
    OBVIOUS
  <2>2. bs[1].data = [i \in 1 .. z |-> NoElement]
    BY <1>1, <2>1 DEF MakeBlock
  <2> QED BY <2>2
<1>4. NextOf(bs, 1 .. c) = nx
  BY <1>1 DEF NextOf
<1> HIDE DEF nx
<1>5. RingOK(1 .. c, nx)
  BY InitialRing DEF nx
<1>6. /\ FirstOf(bs, 1 .. c) \in [1 .. c -> Nat] /\ CountOf(bs, 1 .. c) \in [1 .. c -> Nat]
      /\ \A b \in 1 .. c : CountOf(bs, 1 .. c)[b] = 0
  <2>1. \A b \in 1 .. c : Cnt(bs[b]) = 0 /\ First(bs[b]) \in Nat
    BY <1>1, BlockCounts
  <2>2. FirstOf(bs, 1 .. c) \in [1 .. c -> Nat]
    BY <2>1 DEF FirstOf
  <2>3. CountOf(bs, 1 .. c) \in [1 .. c -> Nat] /\ \A b \in 1 .. c : CountOf(bs, 1 .. c)[b] = 0
    BY <2>1 DEF CountOf
  <2> QED BY <2>2, <2>3
<1>7. ChainOK(1 .. c, nx, FirstOf(bs, 1 .. c), CountOf(bs, 1 .. c), 1, 1, 0, 0)
  <2> DEFINE lo == FirstOf(bs, 1 .. c)
             n == CountOf(bs, 1 .. c)
  <2>1. lo \in [1 .. c -> Nat] /\ n \in [1 .. c -> Nat] /\ \A b \in 1 .. c : n[b] = 0
    BY <1>6
  <2> HIDE DEF lo, n
  <2>2. 1 \in 1 .. c /\ (0 + 1) .. 0 = {}
    OBVIOUS
  <2>3. \A b \in 1 .. c : ~(n[b] > 0)
    BY <2>1
  <2>4. ChainOK(1 .. c, nx, lo, n, 1, 1, 0, 0)
    BY <2>1, <2>2, <2>3 DEF ChainOK
  <2> QED BY <2>4 DEF lo, n
<1>8. \A b \in 1 .. Len(bs) : BlockOK(bs[b], IF b = 0 THEN 0 + 1 ELSE NoElement)
  <2> SUFFICES ASSUME NEW b \in 1 .. Len(bs)
               PROVE  BlockOK(bs[b], IF b = 0 THEN 0 + 1 ELSE NoElement)
    OBVIOUS
  <2>1. b \in 1 .. c /\ b # 0
    BY <1>2
  <2>2. BlockOK(bs[b], NoElement)
    BY <1>1, <2>1
  <2> QED BY <2>1, <2>2
<1>9. 1 .. c \in SUBSET (1 .. Len(bs))
  BY <1>2
<1> QED BY <1>2, <1>3, <1>4, <1>5, <1>7, <1>8, <1>9 DEF MemoryOK

\* A quotient that is not zero.
LEMMA QuotientPositive ==
  ASSUME NEW a \in Nat, NEW m \in Nat \ {0}, a >= m
  PROVE  a \div m \in Nat \ {0}
<1> DEFINE q == a \div m
           r == a % m
<1>1. q \in Int /\ a = m * q + r /\ r \in 0 .. m - 1
  BY ModDef, ModRange
<1> HIDE DEF q, r
<1>2. q > 0
  <2> SUFFICES ASSUME q <= 0
               PROVE  FALSE
    BY <1>1
  <2>1. m * q <= 0
    <3>1. q = 0 => m * q = 0
      OBVIOUS
    <3>2. q < 0 => m * 0 >= m * q + m
      BY <1>1, MulGap
    <3>3. m * q \in Int
      BY <1>1
    <3> QED BY <1>1, <3>1, <3>2, <3>3
  <2> QED BY <1>1, <2>1
<1> QED BY <1>1, <1>2 DEF q

\* What the constructor allocates is such a ring.
LEMMA InitialBlocksAre ==
  ASSUME NEW n \in MaxSizes
  PROVE  \E c \in Nat \ {0}, z \in Nat \ {0, 1} :
           InitialBlocks(n) = [i \in 1 .. c |-> MakeBlock(z, IF i = c THEN 1 ELSE i + 1)]
<1> DEFINE M == MAX_BLOCK_SIZE
           size == CeilToPow2(n + 1)
           count == (n + M * 2 - 3) \div (M - 1)
<1>1. M \in Nat \ {0, 1} /\ n \in Nat \ {0} /\ size \in Nat /\ size > n
  BY BlockSizeAssumption, ConstantsAssumption, CeilAssumption
<1> HIDE DEF size, M
<1>2. CASE size > M * 2
  <2>1. n + M * 2 - 3 \in Nat /\ M - 1 \in Nat \ {0} /\ n + M * 2 - 3 >= M - 1
    BY <1>1
  <2>2. count \in Nat \ {0}
    BY <2>1, QuotientPositive
  <2> HIDE DEF count
  <2>3. ASSUME NEW i \in 1 .. count
        PROVE  (i % count) + 1 = IF i = count THEN 1 ELSE i + 1
    <3>1. CASE i = count
      <4>1. i = count * 1 + 0 /\ 0 \in 0 .. count - 1 /\ i \in Int
        BY <2>2, <2>3, <3>1
      <4>2. i % count = 0
        BY <2>2, <4>1, IntModUnique
      <4> QED BY <3>1, <4>2
    <3>2. CASE i # count
      <4>1. i = count * 0 + i /\ i \in 0 .. count - 1 /\ i \in Int
        BY <2>2, <2>3, <3>2
      <4>2. i % count = i
        BY <2>2, <4>1, IntModUnique
      <4> QED BY <3>2, <4>2
    <3> QED BY <3>1, <3>2
  <2>4. InitialBlocks(n) = [i \in 1 .. count |-> MakeBlock(M, (i % count) + 1)]
    BY <1>2 DEF InitialBlocks, size, count, M
  <2>5. InitialBlocks(n) = [i \in 1 .. count |-> MakeBlock(M, IF i = count THEN 1 ELSE i + 1)]
    BY <2>3, <2>4
  <2> QED BY <1>1, <2>2, <2>5
<1>3. CASE ~(size > M * 2)
  <2>1. InitialBlocks(n) = <<MakeBlock(size, 1)>>
    BY <1>3 DEF InitialBlocks, size, M
  <2>2. InitialBlocks(n) = [i \in 1 .. 1 |-> MakeBlock(size, IF i = 1 THEN 1 ELSE i + 1)]
    BY <2>1
  <2>3. size \in Nat \ {0, 1}
    BY <1>1
  <2> QED BY <2>2, <2>3
<1> QED BY <1>2, <1>3

\* The invariant holds of a new queue.
LEMMA ReaderWriterIInvInit == BlockingInit => ReaderWriterIInv
<1> SUFFICES ASSUME BlockingInit
             PROVE  ReaderWriterIInv
  OBVIOUS
<1>1. /\ maxSize \in MaxSizes /\ blocks = InitialBlocks(maxSize) /\ frontBlock = 1 /\ tailBlock = 1
      /\ largestBlockSize = Size(1) /\ alive = TRUE /\ cpc = "idle" /\ ppc = "idle" /\ sent = <<>>
      /\ m_count = 0 /\ m_sema = 0 /\ wpc = "idle" /\ spc = "idle"
  BY DEF BlockingInit, Init, Sema!Init
<1>2. PICK c \in Nat \ {0}, z \in Nat \ {0, 1} :
        blocks = [i \in 1 .. c |-> MakeBlock(z, IF i = c THEN 1 ELSE i + 1)]
  BY <1>1, InitialBlocksAre
<1>3. Len(blocks) = c /\ Len(blocks[1].data) = z /\ MemoryOK(blocks, 1 .. c, 0, 1, 1, 0, 0)
  <2>1. z \in Nat /\ z >= 2
    BY <1>2
  <2> QED BY <1>2, <2>1, InitialMemory
<1>4. InRing = 1 .. c /\ Last = 1 /\ Placing = 0 /\ Len(sent) = 0
  BY <1>1, <1>3 DEF InRing, Last, Placing
<1>5. MemoryInv(0)
  <2>1. MemoryOK(blocks, InRing, Placing, frontBlock, Last, 0, Len(sent))
    BY <1>1, <1>3, <1>4
  <2>2. tailBlock \in InRing
    BY <1>1, <1>2, <1>4
  <2>3. largestBlockSize \in Nat \ {0, 1}
    BY <1>1, <1>2, <1>3 DEF Size
  <2> QED BY <2>1, <2>2, <2>3 DEF MemoryInv
<1>6. ConsumerInv(0) /\ ProducerInv
  BY <1>1 DEF ConsumerInv, ProducerInv
<1>7. SemaInv(0)
  BY <1>1, <1>4 DEF SemaInv, Untold, Claimed, Posted, Bit
<1>8. SentInv
  BY <1>1, <1>4, ConstantsAssumption DEF SentInv
<1> QED BY <1>1, <1>4, <1>5, <1>6, <1>7, <1>8 DEF ReaderWriterIInv, AliveInv, InnerInv

-----------------------------------------------------------------------------
(* The theorems.                                                            *)

\* Whatever the semaphore does: T elements have been taken, and the others are
\* where the two threads expect them, in order, in one ring of blocks.
THEOREM QueueInvariance == BlockingSpec => []InnerIInv
<1>1. BlockingInit => InnerIInv
  BY ReaderWriterIInvInit, InnerInFull
<1>2. InnerIInv /\ [BlockingNext]_vars => InnerIInv'
  BY InnerIInvStep
<1> QED BY <1>1, <1>2, PTL DEF BlockingSpec

\* The same with what the semaphore has counted, when the deadlines of the timed
\* wait are ones the system accepts.
THEOREM ReaderWriterInvariance ==
  ASSUME DeadlinesValid
  PROVE  BlockingSpec => []ReaderWriterIInv
<1>1. BlockingInit => ReaderWriterIInv
  BY ReaderWriterIInvInit
<1>2. ReaderWriterIInv /\ [BlockingNext]_vars => ReaderWriterIInv'
  BY ReaderWriterIInvStep
<1> QED BY <1>1, <1>2, PTL DEF BlockingSpec

\* Producer and consumer never meet in a slot, and the destructor leaves nothing:
\* placement new is into an empty slot, what is moved out or peeked at is the
\* oldest element, every element is destroyed and every block freed.
THEOREM MemoryIsSound == BlockingSpec => []MemorySound
BY QueueInvariance, MemorySoundIn, PTL

\* The assertions of inner_enqueue and try_dequeue about the block ahead hold.
THEOREM AssertionsAlwaysHold == BlockingSpec => []AssertionsHold
BY QueueInvariance, AssertionsHoldIn, PTL

\* So do those of the wrapper and of signal(): a call that the semaphore has let
\* through finds an element.
THEOREM NoAssertionEverFails ==
  ASSUME DeadlinesValid
  PROVE  BlockingSpec => []NoAssertionFails
BY ReaderWriterInvariance, NoAssertionFailsIn, PTL

\* The semaphore never counts an element that is not inside, and has counted every
\* one when nobody is in a call, whatever timeouts and failed allocations came between.
THEOREM CountAlwaysAgrees ==
  ASSUME DeadlinesValid
  PROVE  BlockingSpec => []CountAgrees
BY ReaderWriterInvariance, CountAgreesIn, PTL

\* One more at the end, and one less at the front.
LEMMA BetweenGrows ==
  ASSUME NEW T \in Nat, NEW S \in Nat, T <= S
  PROVE  /\ SubSeq(Between(T, S + 1), 1, S - T) = Between(T, S)
         /\ SubSeq(Between(T, S + 1), S - T + 1, S + 1 - T) = <<S + 1>>
<1>1. /\ Between(T, S) \in Seq(Nat) /\ Len(Between(T, S)) = S - T
      /\ \A k \in 1 .. S - T : Between(T, S)[k] = T + k
  BY BetweenFacts
<1>2. PICK s \in Seq(Nat) : /\ s = Between(T, S + 1) /\ Len(s) = S + 1 - T
                            /\ \A k \in 1 .. S + 1 - T : s[k] = T + k
  <2>1. S + 1 \in Nat /\ T <= S + 1
    OBVIOUS
  <2> QED BY <2>1, BetweenFacts
<1>3. /\ SubSeq(s, 1, S - T) \in Seq(Nat) /\ Len(SubSeq(s, 1, S - T)) = S - T
      /\ \A k \in 1 .. S - T : SubSeq(s, 1, S - T)[k] = T + k
  <2>1. \A k \in 1 .. S - T : s[k] \in Nat /\ s[k] = T + k
    BY <1>2
  <2> QED BY <2>1, SubSeqProperties
<1>4. SubSeq(s, 1, S - T) = Between(T, S)
  BY <1>1, <1>3, SeqEqual
<1>5. SubSeq(s, S - T + 1, S + 1 - T) = <<S + 1>>
  <2>1. PICK m \in Int : m = S - T + 1
    OBVIOUS
  <2>2. m = S + 1 - T /\ s[m] = S + 1 /\ m \in 1 .. Len(s)
    BY <1>2, <2>1
  <2>3. \A i \in m .. m : s[i] \in Nat
    BY <2>2
  <2>4. SubSeq(s, m, m) \in Seq(Nat) /\ Len(SubSeq(s, m, m)) = 1 /\ SubSeq(s, m, m)[1] = s[m]
    BY <2>1, <2>3, SubSeqProperties
  <2>5. <<S + 1>> \in Seq(Nat) /\ Len(<<S + 1>>) = 1 /\ <<S + 1>>[1] = S + 1
    OBVIOUS
  <2>6. SubSeq(s, m, m) = <<S + 1>>
    <3>1. PICK q \in Seq(Nat) : q = SubSeq(s, m, m)
      BY <2>4
    <3>2. PICK r \in Seq(Nat) : r = <<S + 1>>
      BY <2>5
    <3>3. Len(q) = Len(r) /\ \A i \in 1 .. Len(q) : q[i] = r[i]
      BY <2>2, <2>4, <2>5, <3>1, <3>2
    <3> QED BY <3>1, <3>2, <3>3, SeqEqual
  <2> QED BY <2>1, <2>2, <2>6
<1> QED BY <1>2, <1>4, <1>5

\* The front of it leaves.
LEMMA BetweenShrinks ==
  ASSUME NEW T \in Nat, NEW S \in Nat, T < S
  PROVE  Between(T + 1, S) = SubSeq(Between(T, S), 2, S - T)
<1>1. PICK s \in Seq(Nat) : s = Between(T, S) /\ Len(s) = S - T /\ \A k \in 1 .. S - T : s[k] = T + k
  BY BetweenFacts
<1>2. PICK r \in Seq(Nat) : r = Between(T + 1, S) /\ Len(r) = S - (T + 1) /\ \A k \in 1 .. S - (T + 1) : r[k] = T + 1 + k
  <2>1. T + 1 \in Nat /\ T + 1 <= S
    OBVIOUS
  <2> QED BY <2>1, BetweenFacts
<1>3. /\ SubSeq(s, 2, S - T) \in Seq(Nat) /\ Len(SubSeq(s, 2, S - T)) = S - (T + 1)
      /\ \A k \in 1 .. S - (T + 1) : SubSeq(s, 2, S - T)[k] = T + 1 + k
  <2>1. \A k \in 2 .. S - T : s[k] \in Nat /\ s[k] = T + k
    BY <1>1
  <2>2. /\ SubSeq(s, 2, S - T) \in Seq(Nat)
        /\ Len(SubSeq(s, 2, S - T)) = IF 2 <= S - T THEN S - T - 2 + 1 ELSE 0
        /\ \A i \in 1 .. S - T - 2 + 1 : SubSeq(s, 2, S - T)[i] = s[2 + i - 1]
    BY <2>1, SubSeqProperties
  <2> QED BY <2>1, <2>2
<1> QED BY <1>1, <1>2, <1>3, SeqEqual

\* A new queue is empty.
LEMMA FifoInit == BlockingInit => Queue!Init
<1> SUFFICES ASSUME BlockingInit
             PROVE  Queue!Init
  OBVIOUS
<1>1. InnerIInv /\ alive /\ sent = <<>> /\ Len(sent) = 0
  BY ReaderWriterIInvInit, InnerInFull DEF BlockingInit, Init
<1>2. SentInv /\ MemoryInv(0) /\ 0 \in 0 .. Len(sent)
  BY <1>1 DEF InnerIInv, InnerInv
<1>3. Contents = Between(0, 0)
  BY <1>1, <1>2, ContentsAre
<1>4. Between(0, 0) \in Seq(Nat) /\ Len(Between(0, 0)) = 0
  BY BetweenFacts
<1>5. Contents = <<>>
  BY <1>3, <1>4, EmptySeq
<1> QED BY <1>1, <1>5 DEF Queue!Init

\* A step of the queue is a put of one element, a take of one, a take of all that
\* are left (the destructor), or nothing to the abstract queue.
LEMMA FifoStep == InnerIInv /\ [BlockingNext]_vars => [Queue!Next]_<<sent, Contents>>
<1> SUFFICES ASSUME InnerIInv, [BlockingNext]_vars
             PROVE  [Queue!Next]_<<sent, Contents>>
  OBVIOUS
<1>1. CASE ~alive
  <2>1. ~alive' /\ sent' = sent
    <3>1. CASE UNCHANGED vars
      BY <1>1, <3>1 DEF vars, innerVars, history
    <3>2. CASE BlockingNext
      BY <1>1, <3>2, StepDead DEF InnerIInv
    <3> QED BY <3>1, <3>2
  <2>2. Contents = <<>> /\ Contents' = <<>>
    BY <1>1, <2>1 DEF Contents
  <2> QED BY <2>1, <2>2
<1>2. CASE alive
  <2>1. PICK T \in 0 .. Len(sent) : InnerInv(T)
    BY <1>2 DEF InnerIInv
  <2>2. SentInv /\ MemoryInv(T) /\ sent \in Seq(Nat)
    BY <2>1 DEF InnerIInv, InnerInv, SentInv
  <2>3. PICK S \in Nat : S = Len(sent) /\ T \in Nat /\ T <= S
    BY <2>1, <2>2, SemaTypes
  <2>4. Contents = Between(T, S)
    BY <1>2, <2>1, <2>2, <2>3, ContentsAre
  <2>5. Contents \in Seq(Nat) /\ Len(Contents) = S - T
    BY <2>3, <2>4, BetweenFacts
  <2>6. CASE Ends
    <3>1. alive' = FALSE /\ sent' = sent
      BY <2>1, <2>2, <2>6, EndsFrees
    <3>2. Contents' = <<>>
      BY <3>1 DEF Contents
    <3>3. CASE S = T
      <4>1. Contents = <<>>
        BY <2>5, <3>3, EmptySeq
      <4> QED BY <3>1, <3>2, <4>1
    <3>4. CASE S # T
      <4>1. Len(Contents') = 0
        BY <3>2
      <4>2. SubSeq(Contents, Len(Contents) - Len(Contents') + 1, Len(Contents)) = <<>>
        <5>1. PICK m \in Int : m = Len(Contents)
          <6>1. S - T \in Int
            BY <2>3
          <6> QED BY <2>5, <6>1
        <5>2. Len(Contents) - Len(Contents') + 1 = m + 1 /\ m + 1 \in Int /\ m < m + 1
          BY <4>1, <5>1
        <5> QED BY <5>1, <5>2, SubSeqEmpty
      <4>3. Len(Contents') < Len(Contents)
        BY <2>3, <2>5, <3>4, <4>1
      <4> QED BY <3>1, <3>2, <4>2, <4>3 DEF Queue!Next, Queue!Take
    <3> QED BY <3>3, <3>4
  <2>7. CASE ~Ends
    <3>1. InnerProgress(T)
      <4>1. CASE UNCHANGED vars
        <5>1. UNCHANGED <<queueVars, consumerVars, producerVars, sent, alive>>
          BY <4>1 DEF vars, innerVars, history
        <5> QED BY <2>1, <2>2, <5>1, InnerSame DEF InnerProgress, SentInv
      <4>2. CASE BlockingNext
        BY <2>1, <2>2, <2>7, <4>2, StepInner
      <4> QED BY <4>1, <4>2
    <3>2. alive' /\ SentInv'
      BY <1>2, <3>1 DEF InnerProgress
    <3>3. \A U \in 0 .. Len(sent') : InnerInv(U)' => Contents' = Between(U, Len(sent'))
      BY <3>2, ContentsAfter DEF ContentsKnown, InnerInv
    <3>4. CASE sent' = sent /\ InnerInv(T)'
      <4>1. Contents' = Between(T, S)
        BY <2>3, <3>3, <3>4
      <4> QED BY <2>4, <3>4, <4>1
    <3>5. CASE sent' = Append(sent, Len(sent) + 1) /\ InnerInv(T)'
      <4>1. sent' = Append(sent, S + 1) /\ Len(sent') = S + 1 /\ S + 1 \in Nat
        BY <2>2, <2>3, <3>5, AppendProperties
      <4>2. T \in 0 .. Len(sent')
        BY <2>3, <4>1
      <4>3. Contents' = Between(T, S + 1)
        BY <3>3, <3>5, <4>1, <4>2
      <4>4. Len(Contents') = S + 1 - T
        <5>1. T \in Nat /\ T <= S + 1
          BY <2>3
        <5>2. PICK m \in Nat : m = S + 1
          BY <4>1
        <5>3. Len(Between(T, m)) = m - T
          BY <5>1, <5>2, BetweenFacts
        <5> QED BY <4>3, <5>2, <5>3
      <4>5. S + 1 <= MaxItems
        BY <3>2, <4>1 DEF SentInv
      <4>6. Len(Contents) < Len(Contents') /\ Len(Contents') <= MaxItems
        BY <2>3, <2>5, <4>4, <4>5, ConstantsAssumption
      <4>7. SubSeq(Contents', 1, Len(Contents)) = Contents
        BY <2>3, <2>4, <2>5, <4>3, BetweenGrows
      <4>8. SubSeq(Contents', Len(Contents) + 1, Len(Contents')) = <<S + 1>>
        BY <2>3, <2>5, <4>3, <4>4, BetweenGrows
      <4>9. sent' = sent \o <<S + 1>>
        BY <2>2, <4>1, AppendIsConcat
      <4> QED BY <4>6, <4>7, <4>8, <4>9 DEF Queue!Next, Queue!Put
    <3>6. CASE sent' = sent /\ T + 1 \in 0 .. Len(sent) /\ InnerInv(T + 1)'
      <4>1. Contents' = Between(T + 1, S) /\ T < S /\ T + 1 \in Nat /\ T + 1 <= S
        BY <2>3, <3>3, <3>6
      <4>2. Len(Contents') = S - (T + 1)
        BY <2>3, <4>1, BetweenFacts
      <4>3. Len(Contents) - Len(Contents') + 1 = 2 /\ Len(Contents') < Len(Contents)
        BY <2>3, <2>5, <4>1, <4>2
      <4>4. Contents' = SubSeq(Contents, 2, S - T)
        BY <2>3, <2>4, <4>1, BetweenShrinks
      <4> QED BY <2>5, <3>6, <4>3, <4>4 DEF Queue!Next, Queue!Take
    <3> QED BY <3>1, <3>4, <3>5, <3>6 DEF InnerProgress
  <2> QED BY <2>6, <2>7
<1> QED BY <1>1, <1>2

\* Elements leave in the order in which they entered, each of them once, whatever
\* the steps of the two threads: the queue implements Fifo.
THEOREM QueueImplementsFifo == BlockingSpec => ImplementsFifo
<1>1. BlockingInit => Queue!Init
  BY FifoInit
<1>2. InnerIInv /\ [BlockingNext]_vars => [Queue!Next]_<<sent, Contents>>
  BY FifoStep
<1> QED BY <1>1, <1>2, QueueInvariance, PTL DEF BlockingSpec, ImplementsFifo, Queue!Spec
=============================================================================
