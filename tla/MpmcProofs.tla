----------------------------- MODULE MpmcProofs -----------------------------
(***************************************************************************)
(* Proofs about MpmcBoundedQueue for any number of threads and any ring of *)
(* at least two cells.                                                     *)
(***************************************************************************)
EXTENDS MpmcInv, ModLemmas, SequenceTheorems

-----------------------------------------------------------------------------
(* Cells                                                                    *)

\* buffer_mask_ keeps an index within the buffer.
LEMMA CellType == \A n \in Nat : Cell(n) \in 0 .. BufferSize - 1
BY SizeAssumption, ModRange DEF Cell

\* Two positions of one cell are at least a lap apart.
LEMMA CellGap ==
  ASSUME NEW a \in Nat, NEW b \in Nat, a < b, Cell(a) = Cell(b)
  PROVE  b >= a + BufferSize
BY SizeAssumption, ModGap DEF Cell

\* Positions less than a lap apart are in different cells.
LEMMA CellApart ==
  ASSUME NEW a \in Nat, NEW b \in Nat, a # b, a < b + BufferSize, b < a + BufferSize
  PROVE  Cell(a) # Cell(b)
<1>1. CASE a < b
  BY <1>1, SizeAssumption, CellGap
<1>2. CASE b < a
  BY <1>2, SizeAssumption, CellGap
<1> QED BY <1>1, <1>2

\* A lap further on, a position is in the same cell.
LEMMA CellLap == \A n \in Nat : Cell(n + BufferSize) = Cell(n)
<1> TAKE n \in Nat
<1> DEFINE q == n \div BufferSize
           r == n % BufferSize
<1>1. q \in Int /\ n = BufferSize * q + r
  BY SizeAssumption, ModDef
<1>2. r \in 0 .. BufferSize - 1
  BY SizeAssumption, ModRange
<1>3. n + BufferSize = BufferSize * (q + 1) + r /\ q + 1 \in Int /\ n + BufferSize \in Nat
  <2> HIDE DEF q, r
  <2>1. BufferSize * (q + 1) = BufferSize * q + BufferSize
    BY <1>1, SizeAssumption
  <2> QED BY <1>1, <1>2, <2>1, SizeAssumption
<1>4. (n + BufferSize) % BufferSize = r
  <2> HIDE DEF q, r
  <2> QED BY <1>2, <1>3, SizeAssumption, ModUnique
<1> QED BY <1>4 DEF Cell

-----------------------------------------------------------------------------
(* The invariant                                                            *)

\* The constructor establishes the invariant.
LEMMA MpmcInit == Init => MpmcIInv
<1> SUFFICES ASSUME Init
             PROVE  MpmcIInv
  OBVIOUS
<1> USE SizeAssumption, ThreadAssumption DEF Init
<1>1. TypeOK
  BY DEF TypeOK, Threads, Elements, NoData
<1>2. PositionInv /\ FilledInv /\ PassedInv /\ WonOnce
  BY DEF PositionInv, FilledInv, PassedInv, WonOnce, Inside, Threads
<1>3. FreeInv
  <2> SUFFICES ASSUME NEW n \in 0 .. BufferSize - 1
               PROVE  sequence[Cell(n)] = n
    BY DEF FreeInv
  <2>1. n = BufferSize * 0 + n
    OBVIOUS
  <2>2. Cell(n) = n
    BY ONLY <2>1, SizeAssumption, ModUnique DEF Cell
  <2> QED BY <2>2
<1>4. enqueue_pos = 0 /\ dequeue_pos = 0 /\ \A t \in Threads : pc[t] = "idle" /\ pos[t] = 0
  OBVIOUS
<1>5. \A p \in Producers : ProducerInv(p)
  BY ONLY <1>4 DEF ProducerInv, Threads
<1>6. \A c \in Consumers : ConsumerInv(c)
  BY ONLY <1>4 DEF ConsumerInv, Threads
<1> QED
  BY <1>1, <1>2, <1>3, <1>5, <1>6 DEF MpmcIInv

\* A thread that is in no cell and enters none changes only what is its own:
\* it loads a position, looks at a cell, loses the exchange or answers a size.
LEMMA LocalStep ==
  ASSUME MpmcIInv, NEW t \in Threads, NEW l, pc[t] \notin Inside, l \notin Inside,
         Goto(t, l), UNCHANGED <<cells, enqueue_pos, dequeue_pos, item, sent>>,
         \A u \in Threads \ {t} : pos'[u] = pos[u],
         \A u \in Consumers \ {t} : result'[u] = result[u],
         TypeOK',
         t \in Producers => ProducerInv(t)', t \in Consumers => ConsumerInv(t)'
  PROVE  MpmcIInv'
<1> USE SizeAssumption, ThreadAssumption
<1>0. /\ \A u \in Threads \ {t} : pc'[u] = pc[u] /\ pos'[u] = pos[u]
      /\ pc'[t] = l
      /\ \A u \in Threads : pc[u] \in Inside => u # t
      /\ \A u \in Threads : pc'[u] \in Inside => u # t
  BY DEF MpmcIInv, TypeOK, Goto
<1> USE DEF Inside, Threads, cells
<1>1. PositionInv' /\ PassedInv'
  BY DEF MpmcIInv, PositionInv, PassedInv
<1>2. FilledInv'
  BY <1>0 DEF MpmcIInv, FilledInv, Writes
<1>3. FreeInv'
  BY <1>0 DEF MpmcIInv, FreeInv, Reads
<1>4. WonOnce'
  BY <1>0 DEF MpmcIInv, WonOnce
<1>5. ASSUME NEW p \in Producers PROVE ProducerInv(p)'
  <2>1. CASE p = t
    BY <2>1
  <2>2. CASE p # t
    BY <1>0, <2>2 DEF MpmcIInv, ProducerInv, Element
  <2> QED BY <2>1, <2>2
<1>6. ASSUME NEW c \in Consumers PROVE ConsumerInv(c)'
  <2>1. CASE c = t
    BY <2>1
  <2>2. CASE c # t
    BY <1>0, <2>2 DEF MpmcIInv, ConsumerInv
  <2> QED BY <2>1, <2>2
<1> QED BY <1>1, <1>2, <1>3, <1>4, <1>5, <1>6 DEF MpmcIInv

\* Every step keeps the types.
LEMMA MpmcTypes == MpmcIInv /\ [Next]_vars => TypeOK'
<1> SUFFICES ASSUME MpmcIInv, [Next]_vars
             PROVE  TypeOK'
  OBVIOUS
<1> USE SizeAssumption, ThreadAssumption DEF Threads, cells, Goto, Return
<1>0. TypeOK /\ \A t \in Threads : pos[t] \in Nat /\ Cell(pos[t]) \in 0 .. BufferSize - 1
  BY CellType DEF MpmcIInv, TypeOK
<1>1. ASSUME NEW p \in Producers, Enqueue(p) PROVE TypeOK'
  <2>0. Element(p) \in Elements
    BY <1>0 DEF TypeOK, Element, Elements
  <2>1. CASE EnqueueLoadPos(p)
    BY <1>0, <2>1 DEF TypeOK, EnqueueLoadPos
  <2>2. CASE EnqueueLook(p)
    <3>1. PICK l \in {"idle", "cas", "reload"} : pc' = [pc EXCEPT ![p] = l]
      BY <2>2 DEF EnqueueLook
    <3>2. pos' = pos \/ pos' = [pos EXCEPT ![p] = 0]
      BY <2>2 DEF EnqueueLook
    <3>3. UNCHANGED <<sequence, data, enqueue_pos, dequeue_pos, item, result, sent>>
      BY <2>2 DEF EnqueueLook
    <3>4. pos' \in [Threads -> Nat]
      <4>1. CASE pos' = pos
        BY <1>0, <4>1 DEF TypeOK
      <4>2. CASE pos' = [pos EXCEPT ![p] = 0]
        BY <1>0, <4>2 DEF TypeOK
      <4> QED BY <3>2, <4>1, <4>2
    <3> QED BY <1>0, <3>1, <3>3, <3>4 DEF TypeOK
  <2>3. CASE EnqueueCas(p)
    BY <1>0, <2>0, <2>3, SMTT(30) DEF TypeOK, EnqueueCas
  <2>4. CASE EnqueueCasFails(p)
    BY <1>0, <2>4 DEF TypeOK, EnqueueCasFails
  <2>5. CASE EnqueueWrite(p)
    BY <1>0, <2>0, <2>5 DEF TypeOK, EnqueueWrite
  <2>6. CASE EnqueuePublish(p)
    BY <1>0, <2>6, SMTT(30) DEF TypeOK, EnqueuePublish
  <2> QED BY <1>1, <2>1, <2>2, <2>3, <2>4, <2>5, <2>6 DEF Enqueue
<1>2. ASSUME NEW c \in Consumers, Dequeue(c) PROVE TypeOK'
  <2>0. NoData \in Seq(Nat)
    BY DEF NoData
  <2>1. CASE DequeueLoadPos(c)
    BY <1>0, <2>0, <2>1 DEF TypeOK, DequeueLoadPos
  <2>2. CASE DequeueLook(c)
    <3>1. PICK l \in {"idle", "cas", "reload"} : pc' = [pc EXCEPT ![c] = l]
      BY <2>2 DEF DequeueLook
    <3>2. pos' = pos \/ pos' = [pos EXCEPT ![c] = 0]
      BY <2>2 DEF DequeueLook
    <3>3. UNCHANGED <<sequence, data, enqueue_pos, dequeue_pos, item, result, sent>>
      BY <2>2 DEF DequeueLook
    <3>4. pos' \in [Threads -> Nat]
      <4>1. CASE pos' = pos
        BY <1>0, <4>1 DEF TypeOK
      <4>2. CASE pos' = [pos EXCEPT ![c] = 0]
        BY <1>0, <4>2 DEF TypeOK
      <4> QED BY <3>2, <4>1, <4>2
    <3> QED BY <1>0, <3>1, <3>3, <3>4 DEF TypeOK
  <2>3. CASE DequeueCas(c)
    BY <1>0, <2>3 DEF TypeOK, DequeueCas
  <2>4. CASE DequeueCasFails(c)
    BY <1>0, <2>4 DEF TypeOK, DequeueCasFails
  <2>5. CASE DequeueRead(c)
    BY <1>0, <2>0, <2>5 DEF TypeOK, DequeueRead
  <2>6. CASE DequeueRelease(c)
    BY <1>0, <2>0, <2>6, SMTT(30) DEF TypeOK, DequeueRelease
  <2> QED BY <1>2, <2>1, <2>2, <2>3, <2>4, <2>5, <2>6 DEF Dequeue
<1>3. ASSUME NEW c \in Consumers, ApproxSize(c) PROVE TypeOK'
  <2>0. NoData \in Seq(Nat) /\ Clamped(pos[c], enqueue_pos) \in Nat
    BY <1>0 DEF NoData, Clamped, TypeOK
  <2>00. <<Clamped(pos[c], enqueue_pos)>> \in Seq(Nat)
    BY <2>0
  <2>1. CASE ApproxSizeFirst(c)
    BY <1>0, <2>0, <2>1 DEF TypeOK, ApproxSizeFirst
  <2>2. CASE ApproxSizeLast(c)
    BY <1>0, <2>00, <2>2 DEF TypeOK, ApproxSizeLast
  <2> QED BY <1>3, <2>1, <2>2 DEF ApproxSize
<1>4. CASE UNCHANGED vars
  BY <1>0, <1>4 DEF TypeOK, vars
<1> QED BY <1>1, <1>2, <1>3, <1>4 DEF Next

\* Steps of a producer outside the cells.
LEMMA EnqueueLocal ==
  ASSUME MpmcIInv, TypeOK', NEW p \in Producers,
         EnqueueLoadPos(p) \/ EnqueueLook(p) \/ EnqueueCasFails(p)
  PROVE  MpmcIInv'
<1> USE SizeAssumption, ThreadAssumption
<1>0. TypeOK /\ ProducerInv(p) /\ p \in Threads /\ p \notin Consumers
  BY DEF MpmcIInv, Threads
<1>1. CASE EnqueueLoadPos(p) \/ EnqueueCasFails(p)
  <2>1. pc[p] \notin Inside /\ Goto(p, "look") /\ pos' = [pos EXCEPT ![p] = enqueue_pos]
    BY <1>1 DEF EnqueueLoadPos, EnqueueCasFails, Inside
  <2>2. UNCHANGED <<cells, enqueue_pos, dequeue_pos, item, result, sent>>
    BY <1>1 DEF EnqueueLoadPos, EnqueueCasFails
  <2>3. ProducerInv(p)'
    BY <1>0, <2>1, <2>2 DEF ProducerInv, Goto, TypeOK
  <2> QED BY <1>0, <2>1, <2>2, <2>3, LocalStep DEF Inside, TypeOK
<1>2. CASE EnqueueLook(p)
  <2>1. PICK l \in {"idle", "cas", "reload"} : Goto(p, l)
    BY <1>2 DEF EnqueueLook, Return
  <2>2. UNCHANGED <<cells, enqueue_pos, dequeue_pos, item, result, sent>>
    BY <1>2 DEF EnqueueLook
  <2>3. pos' = pos \/ pos' = [pos EXCEPT ![p] = 0]
    BY <1>2 DEF EnqueueLook, Return
  <2>4. l = "cas" => pos' = pos /\ sequence[Cell(pos[p])] - pos[p] = 0
    BY <1>0, <1>2, <2>1 DEF EnqueueLook, Return, Goto, TypeOK
  <2>5. sequence[Cell(pos[p])] \in Nat /\ pos[p] \in Nat /\ pc[p] = "look"
    BY <1>0, <1>2, CellType DEF TypeOK, EnqueueLook
  <2>6. ProducerInv(p)'
    <3>1. pc'[p] = l /\ pos'[p] <= enqueue_pos'
      BY <1>0, <2>1, <2>2, <2>3 DEF ProducerInv, Goto, TypeOK
    <3>2. l = "cas" => sequence'[Cell(pos'[p])] = pos'[p]
      BY <2>2, <2>4, <2>5 DEF cells
    <3> QED BY <3>1, <3>2 DEF ProducerInv
  <2>7. \A u \in Threads \ {p} : pos'[u] = pos[u]
    BY <1>0, <2>3 DEF TypeOK
  <2> QED BY <1>0, <2>1, <2>2, <2>5, <2>6, <2>7, LocalStep DEF Inside
<1> QED BY <1>1, <1>2

\* Steps of a consumer outside the cells, approx_size among them.
LEMMA DequeueLocal ==
  ASSUME MpmcIInv, TypeOK', NEW c \in Consumers,
         DequeueLoadPos(c) \/ DequeueLook(c) \/ DequeueCasFails(c) \/ ApproxSize(c)
  PROVE  MpmcIInv'
<1> USE SizeAssumption, ThreadAssumption
<1>0. TypeOK /\ ConsumerInv(c) /\ c \in Threads /\ c \notin Producers
  BY DEF MpmcIInv, Threads
<1>1. CASE DequeueLoadPos(c) \/ DequeueCasFails(c) \/ ApproxSizeFirst(c)
  <2>1. PICK l \in {"look", "size"} : pc[c] \notin Inside /\ Goto(c, l)
    BY <1>1 DEF DequeueLoadPos, DequeueCasFails, ApproxSizeFirst, Inside
  <2>2. UNCHANGED <<cells, enqueue_pos, dequeue_pos, item, sent>>
    BY <1>1 DEF DequeueLoadPos, DequeueCasFails, ApproxSizeFirst
  <2>3. pos' = [pos EXCEPT ![c] = dequeue_pos]
    BY <1>1 DEF DequeueLoadPos, DequeueCasFails, ApproxSizeFirst
  <2>4. \A u \in Consumers \ {c} : result'[u] = result[u]
    BY <1>0, <1>1 DEF DequeueLoadPos, DequeueCasFails, ApproxSizeFirst, TypeOK
  <2>5. ConsumerInv(c)'
    BY <1>0, <2>1, <2>2, <2>3 DEF ConsumerInv, Goto, TypeOK
  <2> QED BY <1>0, <2>1, <2>2, <2>3, <2>4, <2>5, LocalStep DEF Inside, TypeOK
<1>2. CASE DequeueLook(c)
  <2>1. PICK l \in {"idle", "cas", "reload"} : Goto(c, l)
    BY <1>2 DEF DequeueLook, Return
  <2>2. UNCHANGED <<cells, enqueue_pos, dequeue_pos, item, result, sent>>
    BY <1>2 DEF DequeueLook
  <2>3. pos' = pos \/ pos' = [pos EXCEPT ![c] = 0]
    BY <1>2 DEF DequeueLook, Return
  <2>4. l = "cas" => pos' = pos /\ sequence[Cell(pos[c])] - (pos[c] + 1) = 0
    BY <1>0, <1>2, <2>1 DEF DequeueLook, Return, Goto, TypeOK
  <2>5. sequence[Cell(pos[c])] \in Nat /\ pos[c] \in Nat /\ pc[c] = "look"
    BY <1>0, <1>2, CellType DEF TypeOK, DequeueLook
  <2>6. ConsumerInv(c)'
    <3>1. pc'[c] = l /\ pos'[c] <= dequeue_pos'
      BY <1>0, <2>1, <2>2, <2>3 DEF ConsumerInv, Goto, TypeOK
    <3>2. l = "cas" => sequence'[Cell(pos'[c])] = pos'[c] + 1
      BY <2>2, <2>4, <2>5 DEF cells
    <3> QED BY <3>1, <3>2 DEF ConsumerInv
  <2>7. \A u \in Threads \ {c} : pos'[u] = pos[u]
    BY <1>0, <2>3 DEF TypeOK
  <2> QED BY <1>0, <2>1, <2>2, <2>5, <2>6, <2>7, LocalStep DEF Inside
<1>3. CASE ApproxSizeLast(c)
  <2>1. pc[c] = "size" /\ Goto(c, "idle") /\ pos' = [pos EXCEPT ![c] = 0]
    BY <1>3 DEF ApproxSizeLast, Return
  <2>2. UNCHANGED <<cells, enqueue_pos, dequeue_pos, item, sent>>
    BY <1>3 DEF ApproxSizeLast
  <2>3. \A u \in Consumers \ {c} : result'[u] = result[u]
    BY <1>0, <1>3 DEF ApproxSizeLast, TypeOK
  <2>4. ConsumerInv(c)'
    BY <1>0, <2>1, <2>2 DEF ConsumerInv, Goto, TypeOK
  <2> QED BY <1>0, <2>1, <2>2, <2>3, <2>4, LocalStep DEF Inside, TypeOK
<1> QED BY <1>1, <1>2, <1>3 DEF ApproxSize

\* What the invariant says in terms the cell lemmas need.
LEMMA Typed ==
  ASSUME TypeOK
  PROVE  /\ enqueue_pos \in Nat /\ dequeue_pos \in Nat
         /\ \A t \in Threads : pos[t] \in Nat /\ Cell(pos[t]) \in 0 .. BufferSize - 1
         /\ \A n \in Nat : sequence[Cell(n)] \in Nat /\ Cell(n) \in 0 .. BufferSize - 1
         /\ Producers \subseteq Threads /\ Consumers \subseteq Threads
         /\ \A p \in Producers : pc[p] \in Inside <=> pc[p] \in {"write", "publish"}
         /\ \A c \in Consumers : pc[c] \in Inside <=> pc[c] \in {"read", "release"}
BY CellType, SizeAssumption DEF TypeOK, Threads, Inside

\* A producer wins a position: the ring is not full, and no consumer is in the cell.
LEMMA EnqueueCasInv ==
  ASSUME MpmcIInv, TypeOK', NEW p \in Producers, EnqueueCas(p)
  PROVE  MpmcIInv'
<1> USE SizeAssumption, ThreadAssumption
<1> DEFINE e == enqueue_pos
           d == dequeue_pos
<1>0. TypeOK /\ PositionInv /\ ProducerInv(p) /\ p \in Threads /\ p \notin Consumers
  BY DEF MpmcIInv, Threads
<1>t. /\ e \in Nat /\ d \in Nat
      /\ \A t \in Threads : pos[t] \in Nat
      /\ \A n \in Nat : sequence[Cell(n)] \in Nat
      /\ Producers \subseteq Threads /\ Consumers \subseteq Threads
  BY <1>0, Typed
<1>1. e = pos[p] /\ sequence[Cell(e)] = e /\ pc[p] = "cas"
  BY <1>0 DEF EnqueueCas, ProducerInv
<1>2. /\ e' = e + 1 /\ d' = d /\ sequence' = sequence /\ data' = data /\ pos' = pos
      /\ item' = item /\ result' = result /\ sent' = Append(sent, Element(p))
  BY <1>1 DEF EnqueueCas, cells
<1>3. pc'[p] = "write" /\ \A u \in Threads \ {p} : pc'[u] = pc[u]
  BY <1>0 DEF EnqueueCas, Goto, TypeOK
<1>4. d <= e /\ e < d + BufferSize
  <2>1. d <= e /\ e <= d + BufferSize
    BY <1>0 DEF PositionInv
  <2>2. ASSUME e = d + BufferSize PROVE FALSE
    <3>1. Cell(d) = Cell(e)
      BY <1>t, <2>2, CellLap
    <3>2. d \in d .. e - 1
      BY <1>t, <2>2
    <3>3. sequence[Cell(d)] \in {d, d + 1}
      BY <3>2 DEF MpmcIInv, FilledInv
    <3> QED BY <1>t, <1>1, <2>2, <3>1, <3>3
  <2> QED BY <1>t, <2>1, <2>2
<1>5. Len(sent) = e /\ Len(sent') = e + 1 /\ sent'[e + 1] = Element(p)
      /\ \A n \in 1 .. e : sent'[n] = sent[n]
  <2>1. sent \in Seq(Elements) /\ Element(p) \in Elements /\ Len(sent) = e
    BY <1>0 DEF PositionInv, TypeOK, Element, Elements
  <2> QED BY <1>2, <2>1
<1> HIDE DEF e, d
<1>6. PositionInv'
  BY <1>t, <1>2, <1>4, <1>5 DEF PositionInv, e, d
<1>7. FilledInv'
  <2>0. d' .. e' - 1 = d .. e
    BY <1>t, <1>2
  <2> SUFFICES ASSUME NEW n \in d .. e
               PROVE  \/ sequence[Cell(n)] = n /\ \E q \in Producers : Writes(q, n)'
                      \/ sequence[Cell(n)] = n + 1 /\ data[Cell(n)] = sent'[n + 1]
    BY <1>2, <2>0 DEF FilledInv, e, d
  <2>1. CASE n = e
    BY <1>1, <1>2, <1>3, <2>1 DEF Writes
  <2>2. CASE n # e
    <3>1. n \in d .. e - 1 /\ n + 1 \in 1 .. e
      BY <1>t, <2>2
    <3>2. CASE sequence[Cell(n)] = n + 1 /\ data[Cell(n)] = sent[n + 1]
      BY <1>5, <3>1, <3>2
    <3>3. CASE sequence[Cell(n)] = n /\ \E q \in Producers : Writes(q, n)
      BY <1>t, <1>1, <1>2, <1>3, <3>3 DEF Writes
    <3> QED BY <3>1, <3>2, <3>3 DEF MpmcIInv, FilledInv, e, d
  <2> QED BY <2>1, <2>2
<1>8. FreeInv'
  <2> SUFFICES ASSUME NEW n \in e + 1 .. d + BufferSize - 1
               PROVE  \/ sequence[Cell(n)] = n
                      \/ /\ n >= BufferSize /\ sequence[Cell(n)] = n - BufferSize + 1
                         /\ \E c \in Consumers : Reads(c, n - BufferSize)'
    BY <1>t, <1>2 DEF FreeInv, e, d
  <2>1. n \in e .. d + BufferSize - 1
    BY <1>t
  <2>2. \A c \in Consumers : Reads(c, n - BufferSize) => Reads(c, n - BufferSize)'
    BY <1>t, <1>0, <1>2, <1>3 DEF Reads
  <2> QED BY <2>1, <2>2 DEF MpmcIInv, FreeInv, e, d
<1>9. PassedInv'
  BY <1>t, <1>1, <1>2 DEF MpmcIInv, PassedInv, e, d
<1>10. ASSUME NEW q \in Producers PROVE ProducerInv(q)'
  <2>0. ProducerInv(q) /\ Element(q)' = Element(q) /\ q \in Threads
    BY <1>t, <1>2 DEF MpmcIInv, Element
  <2>1. CASE q = p
    BY <1>t, <1>1, <1>2, <1>3, <1>4, <1>5, <2>0, <2>1 DEF ProducerInv, e, d
  <2>2. CASE q # p
    <3>1. pc'[q] = pc[q] /\ pos'[q] = pos[q] /\ pos[q] \in Nat /\ pos[q] <= e
      BY <1>t, <1>2, <1>3, <2>0, <2>2 DEF ProducerInv, e
    <3>2. pc[q] \in {"write", "publish"} => sent'[pos[q] + 1] = sent[pos[q] + 1]
      BY <1>t, <1>5, <2>0, <3>1 DEF ProducerInv, e
    <3>3. pos[q] <= e + 1 /\ pos[q] # e + 1 /\ (pos[q] < e => pos[q] < e + 1)
      BY <1>t, <3>1
    <3> QED BY <1>2, <2>0, <3>1, <3>2, <3>3 DEF ProducerInv, e, d
  <2> QED BY <2>1, <2>2
<1>11. ASSUME NEW c \in Consumers PROVE ConsumerInv(c)'
  <2>0. ConsumerInv(c) /\ c \in Threads /\ c # p
    BY <1>t, <1>0 DEF MpmcIInv
  <2>1. pc'[c] = pc[c] /\ pos'[c] = pos[c] /\ pos[c] \in Nat /\ result'[c] = result[c]
    BY <1>t, <1>2, <1>3, <2>0
  <2>2. ASSUME pc[c] \in {"read", "release"}
        PROVE  e + 1 <= pos[c] + BufferSize /\ sent'[pos[c] + 1] = sent[pos[c] + 1]
    <3>1. pos[c] < d /\ e <= pos[c] + BufferSize /\ sequence[Cell(pos[c])] = pos[c] + 1
      BY <2>0, <2>2 DEF ConsumerInv, e, d
    <3>2. e # pos[c] + BufferSize
      BY <1>t, <1>1, <2>1, <3>1, CellLap
    <3>3. pos[c] + 1 \in 1 .. e
      BY <1>t, <1>4, <2>1, <3>1
    <3>4. sent'[pos[c] + 1] = sent[pos[c] + 1]
      BY <1>5, <3>3
    <3>5. e + 1 <= pos[c] + BufferSize
      BY <1>t, <2>1, <3>1, <3>2
    <3> QED BY <3>4, <3>5
  <2> QED BY <1>t, <1>2, <2>0, <2>1, <2>2 DEF ConsumerInv, e, d
<1>12. WonOnce'
  <2>1. \A q \in Producers \ {p} : pc'[q] = pc[q] /\ pos'[q] = pos[q]
                                   /\ (pc[q] \in Inside => pos[q] # e)
    <3> SUFFICES ASSUME NEW q \in Producers \ {p}, pc[q] \in Inside
                 PROVE  pos[q] # e
      BY <1>t, <1>2, <1>3
    <3>1. ProducerInv(q) /\ pc[q] \in {"write", "publish"}
      BY <1>0, Typed DEF MpmcIInv
    <3> QED BY <1>t, <3>1 DEF ProducerInv, e
  <2>2. \A c \in Consumers : pc'[c] = pc[c] /\ pos'[c] = pos[c]
    BY <1>t, <1>0, <1>2, <1>3
  <2>3. pos'[p] = e
    BY <1>1, <1>2
  <2> QED BY <2>1, <2>2, <2>3 DEF MpmcIInv, WonOnce
<1> QED BY <1>6, <1>7, <1>8, <1>9, <1>10, <1>11, <1>12 DEF MpmcIInv

\* While a producer is in its cell, no other thread is in it, no consumer waits
\* for it as the next to read, and no producer for it as the next to write.
LEMMA ProducerAlone ==
  ASSUME MpmcIInv, NEW p \in Producers, pc[p] \in {"write", "publish"}
  PROVE  /\ \A n \in dequeue_pos .. enqueue_pos - 1 : n # pos[p] => Cell(n) # Cell(pos[p])
         /\ \A n \in enqueue_pos .. dequeue_pos + BufferSize - 1 : Cell(n) # Cell(pos[p])
         /\ \A q \in Producers : q # p /\ pc[q] \in {"write", "publish"} => Cell(pos[q]) # Cell(pos[p])
         /\ \A q \in Producers : pc[q] = "cas" /\ pos[q] = enqueue_pos => Cell(pos[q]) # Cell(pos[p])
         /\ \A c \in Consumers : pc[c] \in {"read", "release"} => Cell(pos[c]) # Cell(pos[p])
         /\ \A c \in Consumers : pc[c] = "cas" /\ pos[c] = dequeue_pos => Cell(pos[c]) # Cell(pos[p])
<1> USE SizeAssumption, ThreadAssumption
<1> DEFINE e == enqueue_pos
           d == dequeue_pos
           k == pos[p]
<1>0. TypeOK /\ PositionInv /\ ProducerInv(p)
  BY DEF MpmcIInv
<1>t. /\ e \in Nat /\ d \in Nat /\ k \in Nat
      /\ \A t \in Threads : pos[t] \in Nat
      /\ \A n \in Nat : sequence[Cell(n)] \in Nat
      /\ Producers \subseteq Threads /\ Consumers \subseteq Threads
  BY <1>0, Typed
<1>1. d <= k /\ k < e /\ e <= d + BufferSize /\ sequence[Cell(k)] = k
  BY <1>0 DEF ProducerInv, PositionInv
<1> HIDE DEF e, d, k
<1>2. ASSUME NEW n \in d .. e - 1, n # k PROVE Cell(n) # Cell(k)
  BY <1>t, <1>1, <1>2, CellApart
<1>3. ASSUME NEW n \in e .. d + BufferSize - 1 PROVE Cell(n) # Cell(k)
  BY <1>t, <1>1, CellApart
<1>4. ASSUME NEW q \in Producers, q # p, pc[q] \in {"write", "publish"} PROVE Cell(pos[q]) # Cell(k)
  <2>1. ProducerInv(q) /\ pos[q] # k /\ pos[q] \in Nat
    BY <1>t, <1>4 DEF MpmcIInv, WonOnce, Inside, k
  <2>2. pos[q] \in d .. e - 1
    BY <1>t, <1>4, <2>1 DEF ProducerInv, e, d
  <2> QED BY <1>2, <2>1, <2>2
<1>5. ASSUME NEW q \in Producers, pc[q] = "cas", pos[q] = e PROVE Cell(pos[q]) # Cell(k)
  <2>1. ProducerInv(q)
    BY DEF MpmcIInv
  <2> QED BY <1>t, <1>1, <1>5, <2>1 DEF ProducerInv, e
<1>6. ASSUME NEW c \in Consumers, pc[c] \in {"read", "release"} PROVE Cell(pos[c]) # Cell(k)
  <2>1. ConsumerInv(c) /\ pos[c] \in Nat
    BY <1>t DEF MpmcIInv
  <2>2. pos[c] < d /\ e <= pos[c] + BufferSize
    BY <1>6, <2>1 DEF ConsumerInv, e, d
  <2> QED BY <1>t, <1>1, <2>1, <2>2, CellApart
<1>7. ASSUME NEW c \in Consumers, pc[c] = "cas", pos[c] = d PROVE Cell(pos[c]) # Cell(k)
  <2>1. ConsumerInv(c)
    BY DEF MpmcIInv
  <2>2. sequence[Cell(d)] = d + 1
    BY <1>7, <2>1 DEF ConsumerInv, d
  <2>3. d # k
    BY <1>t, <1>1, <2>2
  <2>4. d \in d .. e - 1
    BY <1>t, <1>1
  <2> QED BY <1>2, <1>7, <2>3, <2>4
<1> QED BY <1>2, <1>3, <1>4, <1>5, <1>6, <1>7 DEF e, d, k

\* The element is written into the cell.
LEMMA EnqueueWriteInv ==
  ASSUME MpmcIInv, TypeOK', NEW p \in Producers, EnqueueWrite(p)
  PROVE  MpmcIInv'
<1> USE SizeAssumption, ThreadAssumption
<1> DEFINE k == pos[p]
<1>0. TypeOK /\ PositionInv /\ ProducerInv(p) /\ p \in Threads /\ p \notin Consumers /\ pc[p] = "write"
  BY DEF MpmcIInv, Threads, EnqueueWrite
<1>t. /\ enqueue_pos \in Nat /\ dequeue_pos \in Nat /\ k \in Nat
      /\ Cell(k) \in 0 .. BufferSize - 1
      /\ \A t \in Threads : pos[t] \in Nat /\ Cell(pos[t]) \in 0 .. BufferSize - 1
      /\ \A n \in Nat : sequence[Cell(n)] \in Nat /\ Cell(n) \in 0 .. BufferSize - 1
      /\ Producers \subseteq Threads /\ Consumers \subseteq Threads
  BY <1>0, Typed
<1>2. /\ sequence' = sequence /\ enqueue_pos' = enqueue_pos /\ dequeue_pos' = dequeue_pos /\ pos' = pos
      /\ item' = item /\ result' = result /\ sent' = sent
  BY DEF EnqueueWrite
<1>3. pc'[p] = "publish" /\ \A u \in Threads \ {p} : pc'[u] = pc[u]
  BY <1>0 DEF EnqueueWrite, Goto, TypeOK
<1>4. data'[Cell(k)] = Element(p)
      /\ \A i \in 0 .. BufferSize - 1 : i # Cell(k) => data'[i] = data[i]
  BY <1>0, <1>t DEF EnqueueWrite, TypeOK
<1>5. dequeue_pos <= k /\ k < enqueue_pos /\ sequence[Cell(k)] = k /\ sent[k + 1] = Element(p)
  BY <1>0 DEF ProducerInv
<1> HIDE DEF k
<1>6. PositionInv' /\ PassedInv'
  BY <1>2 DEF MpmcIInv, PositionInv, PassedInv
<1>7. FilledInv'
  <2> SUFFICES ASSUME NEW n \in dequeue_pos .. enqueue_pos - 1
               PROVE  \/ sequence[Cell(n)] = n /\ \E q \in Producers : Writes(q, n)'
                      \/ sequence[Cell(n)] = n + 1 /\ data'[Cell(n)] = sent[n + 1]
    BY <1>2 DEF FilledInv
  <2>1. CASE n = k
    BY <1>2, <1>3, <1>5, <2>1 DEF Writes, k
  <2>2. CASE n # k
    <3>1. Cell(n) # Cell(k) /\ Cell(n) \in 0 .. BufferSize - 1
      BY <1>t, <1>0, <2>2, ProducerAlone DEF k
    <3>2. data'[Cell(n)] = data[Cell(n)]
      BY <1>4, <3>1
    <3>3. \A q \in Producers : Writes(q, n) => Writes(q, n)'
      BY <1>t, <1>2, <1>3 DEF Writes
    <3> QED BY <3>2, <3>3 DEF MpmcIInv, FilledInv
  <2> QED BY <2>1, <2>2
<1>8. FreeInv'
  <2>1. \A n \in Int, c \in Consumers : Reads(c, n) => Reads(c, n)'
    BY <1>t, <1>0, <1>2, <1>3 DEF Reads
  <2> QED BY <1>t, <1>2, <2>1 DEF MpmcIInv, FreeInv
<1>9. WonOnce'
  <2>1. \A t \in Threads : pc'[t] \in Inside <=> pc[t] \in Inside
    BY <1>0, <1>3 DEF Inside
  <2> QED BY <1>t, <1>2, <2>1 DEF MpmcIInv, WonOnce
<1>10. ASSUME NEW q \in Producers PROVE ProducerInv(q)'
  <2>0. ProducerInv(q) /\ Element(q)' = Element(q) /\ q \in Threads
    BY <1>t, <1>2 DEF MpmcIInv, Element
  <2>1. CASE q = p
    BY <1>2, <1>3, <1>4, <1>5, <1>t, <2>0, <2>1 DEF ProducerInv, k
  <2>2. CASE q # p
    <3>1. pc[q] = "publish" => data'[Cell(pos[q])] = data[Cell(pos[q])]
      BY <1>t, <1>0, <1>4, <2>0, <2>2, ProducerAlone DEF k
    <3> QED BY <1>2, <1>3, <2>0, <2>2, <3>1 DEF ProducerInv
  <2> QED BY <2>1, <2>2
<1>11. ASSUME NEW c \in Consumers PROVE ConsumerInv(c)'
  <2>0. ConsumerInv(c) /\ c \in Threads /\ c # p
    BY <1>t, <1>0 DEF MpmcIInv
  <2>1. pc[c] \in {"read", "release"} => data'[Cell(pos[c])] = data[Cell(pos[c])]
    BY <1>t, <1>0, <1>4, <2>0, ProducerAlone DEF k
  <2> QED BY <1>2, <1>3, <2>0, <2>1 DEF ConsumerInv
<1> QED BY <1>6, <1>7, <1>8, <1>9, <1>10, <1>11 DEF MpmcIInv

\* The sequence number is stored: the element can be read.
LEMMA EnqueuePublishInv ==
  ASSUME MpmcIInv, TypeOK', NEW p \in Producers, EnqueuePublish(p)
  PROVE  MpmcIInv'
<1> USE SizeAssumption, ThreadAssumption
<1> DEFINE k == pos[p]
<1>0. TypeOK /\ PositionInv /\ ProducerInv(p) /\ p \in Threads /\ p \notin Consumers /\ pc[p] = "publish"
  BY DEF MpmcIInv, Threads, EnqueuePublish
<1>t. /\ enqueue_pos \in Nat /\ dequeue_pos \in Nat /\ k \in Nat
      /\ Cell(k) \in 0 .. BufferSize - 1
      /\ \A t \in Threads : pos[t] \in Nat /\ Cell(pos[t]) \in 0 .. BufferSize - 1
      /\ \A n \in Nat : sequence[Cell(n)] \in Nat /\ Cell(n) \in 0 .. BufferSize - 1
      /\ Producers \subseteq Threads /\ Consumers \subseteq Threads
  BY <1>0, Typed
<1>2. /\ data' = data /\ enqueue_pos' = enqueue_pos /\ dequeue_pos' = dequeue_pos
      /\ result' = result /\ sent' = sent
  BY DEF EnqueuePublish
<1>3. /\ pc'[p] = "idle" /\ pos'[p] = 0
      /\ \A u \in Threads \ {p} : pc'[u] = pc[u] /\ pos'[u] = pos[u]
      /\ \A q \in Producers \ {p} : item'[q] = item[q]
  BY <1>0 DEF EnqueuePublish, Return, Goto, TypeOK
<1>4. sequence'[Cell(k)] = k + 1
      /\ \A i \in 0 .. BufferSize - 1 : i # Cell(k) => sequence'[i] = sequence[i]
  BY <1>0, <1>t DEF EnqueuePublish, TypeOK
<1>5. /\ dequeue_pos <= k /\ k < enqueue_pos /\ sequence[Cell(k)] = k /\ sent[k + 1] = Element(p)
      /\ data[Cell(k)] = Element(p) /\ enqueue_pos <= dequeue_pos + BufferSize
  BY <1>0 DEF ProducerInv, PositionInv
<1> HIDE DEF k
<1>6. PositionInv'
  BY <1>2 DEF MpmcIInv, PositionInv
<1>7. FilledInv'
  <2> SUFFICES ASSUME NEW n \in dequeue_pos .. enqueue_pos - 1
               PROVE  \/ sequence'[Cell(n)] = n /\ \E q \in Producers : Writes(q, n)'
                      \/ sequence'[Cell(n)] = n + 1 /\ data[Cell(n)] = sent[n + 1]
    BY <1>2 DEF FilledInv
  <2>1. CASE n = k
    BY <1>4, <1>5, <2>1
  <2>2. CASE n # k
    <3>1. Cell(n) # Cell(k) /\ Cell(n) \in 0 .. BufferSize - 1
      BY <1>t, <1>0, <2>2, ProducerAlone DEF k
    <3>2. sequence'[Cell(n)] = sequence[Cell(n)]
      BY <1>4, <3>1
    <3>3. \A q \in Producers : Writes(q, n) => Writes(q, n)'
      BY <1>t, <1>2, <1>3, <2>2 DEF Writes, k
    <3> QED BY <3>2, <3>3 DEF MpmcIInv, FilledInv
  <2> QED BY <2>1, <2>2
<1>8. FreeInv'
  <2>1. \A n \in Int, c \in Consumers : Reads(c, n) => Reads(c, n)'
    BY <1>t, <1>0, <1>2, <1>3 DEF Reads
  <2>2. \A n \in enqueue_pos .. dequeue_pos + BufferSize - 1 : sequence'[Cell(n)] = sequence[Cell(n)]
    BY <1>t, <1>0, <1>4, ProducerAlone DEF k
  <2> QED BY <1>t, <1>2, <2>1, <2>2 DEF MpmcIInv, FreeInv
<1>9. PassedInv'
  <2>1. ASSUME NEW n \in 0 .. enqueue_pos - 1
        PROVE  \/ sequence'[Cell(n)] = sequence[Cell(n)]
               \/ n <= k /\ sequence'[Cell(n)] = k + 1
    <3>1. CASE Cell(n) # Cell(k)
      BY <1>t, <1>4, <3>1
    <3>2. CASE Cell(n) = Cell(k)
      <4>1. n <= k
        BY <1>t, <1>5, <3>2, CellGap
      <4> QED BY <1>4, <3>2, <4>1
    <3> QED BY <3>1, <3>2
  <2>2. ASSUME NEW n \in 0 .. enqueue_pos - 1 PROVE sequence'[Cell(n)] >= n
    BY <1>t, <2>1 DEF MpmcIInv, PassedInv
  <2>3. ASSUME NEW n \in 0 .. dequeue_pos - 1 PROVE sequence'[Cell(n)] >= n + 1
    <3>1. n \in 0 .. enqueue_pos - 1
      BY <1>t, <1>5
    <3>2. sequence[Cell(n)] >= n + 1
      BY DEF MpmcIInv, PassedInv
    <3> QED BY <1>t, <2>1, <3>1, <3>2
  <2> QED BY <1>2, <2>2, <2>3 DEF PassedInv
<1>10. WonOnce'
  BY <1>t, <1>0, <1>3 DEF MpmcIInv, WonOnce, Inside
<1>11. ASSUME NEW q \in Producers PROVE ProducerInv(q)'
  <2>0. ProducerInv(q) /\ q \in Threads
    BY <1>t DEF MpmcIInv
  <2>1. CASE q = p
    BY <1>2, <1>3, <1>t, <2>1 DEF ProducerInv
  <2>2. CASE q # p
    <3>1. Element(q)' = Element(q)
      BY <1>3, <2>2 DEF Element
    <3>2. pc[q] \in {"write", "publish"} \/ (pc[q] = "cas" /\ pos[q] = enqueue_pos)
            => sequence'[Cell(pos[q])] = sequence[Cell(pos[q])]
      BY <1>t, <1>0, <1>4, <2>0, <2>2, ProducerAlone DEF k
    <3> QED BY <1>2, <1>3, <2>0, <2>2, <3>1, <3>2 DEF ProducerInv
  <2> QED BY <2>1, <2>2
<1>12. ASSUME NEW c \in Consumers PROVE ConsumerInv(c)'
  <2>0. ConsumerInv(c) /\ c \in Threads /\ c # p
    BY <1>t, <1>0 DEF MpmcIInv
  <2>1. pc[c] \in {"read", "release"} \/ (pc[c] = "cas" /\ pos[c] = dequeue_pos)
          => sequence'[Cell(pos[c])] = sequence[Cell(pos[c])]
    BY <1>t, <1>0, <1>4, <2>0, ProducerAlone DEF k
  <2> QED BY <1>2, <1>3, <2>0, <2>1 DEF ConsumerInv
<1> QED BY <1>6, <1>7, <1>8, <1>9, <1>10, <1>11, <1>12 DEF MpmcIInv

\* A consumer wins a position: the ring is not empty, and the element is published.
LEMMA DequeueCasInv ==
  ASSUME MpmcIInv, TypeOK', NEW c \in Consumers, DequeueCas(c)
  PROVE  MpmcIInv'
<1> USE SizeAssumption, ThreadAssumption
<1> DEFINE e == enqueue_pos
           d == dequeue_pos
<1>0. TypeOK /\ PositionInv /\ ConsumerInv(c) /\ c \in Threads /\ c \notin Producers
  BY DEF MpmcIInv, Threads
<1>t. /\ e \in Nat /\ d \in Nat
      /\ \A t \in Threads : pos[t] \in Nat
      /\ \A n \in Nat : sequence[Cell(n)] \in Nat
      /\ Producers \subseteq Threads /\ Consumers \subseteq Threads
  BY <1>0, Typed
<1>1. d = pos[c] /\ sequence[Cell(d)] = d + 1 /\ pc[c] = "cas"
  BY <1>0 DEF DequeueCas, ConsumerInv
<1>2. /\ d' = d + 1 /\ e' = e /\ sequence' = sequence /\ data' = data /\ pos' = pos
      /\ item' = item /\ result' = result /\ sent' = sent
  BY <1>1 DEF DequeueCas, cells
<1>3. pc'[c] = "read" /\ \A u \in Threads \ {c} : pc'[u] = pc[u]
  BY <1>0 DEF DequeueCas, Goto, TypeOK
<1>4. d < e /\ e <= d + BufferSize /\ Len(sent) = e
  <2>1. d <= e /\ e <= d + BufferSize /\ Len(sent) = e
    BY <1>0 DEF PositionInv
  <2>2. ASSUME d = e PROVE FALSE
    <3>1. d \in e .. d + BufferSize - 1
      BY <1>t, <2>2
    <3>2. sequence[Cell(d)] = d \/ sequence[Cell(d)] = d - BufferSize + 1
      BY <3>1 DEF MpmcIInv, FreeInv
    <3> QED BY <1>t, <1>1, <3>2
  <2> QED BY <1>t, <2>1, <2>2
<1>5. data[Cell(d)] = sent[d + 1]
  <2>1. d \in d .. e - 1
    BY <1>t, <1>4
  <2>2. sequence[Cell(d)] # d
    BY <1>t, <1>1
  <2> QED BY <2>1, <2>2 DEF MpmcIInv, FilledInv
<1> HIDE DEF e, d
<1>6. PositionInv'
  BY <1>t, <1>2, <1>4 DEF PositionInv, e, d
<1>7. FilledInv'
  <2>1. d' .. e' - 1 \subseteq d .. e - 1
    BY <1>t, <1>2
  <2>2. \A n \in Int, p \in Producers : Writes(p, n) => Writes(p, n)'
    BY <1>t, <1>0, <1>2, <1>3 DEF Writes
  <2> SUFFICES ASSUME NEW n \in d' .. e' - 1
               PROVE  \/ sequence[Cell(n)] = n /\ \E q \in Producers : Writes(q, n)'
                      \/ sequence[Cell(n)] = n + 1 /\ data[Cell(n)] = sent[n + 1]
    BY <1>2 DEF FilledInv, e, d
  <2> QED BY <2>1, <2>2 DEF MpmcIInv, FilledInv, e, d
<1>8. FreeInv'
  <2>0. e' .. d' + BufferSize - 1 = e .. d + BufferSize
    BY <1>t, <1>2
  <2> SUFFICES ASSUME NEW n \in e .. d + BufferSize
               PROVE  \/ sequence[Cell(n)] = n
                      \/ /\ n >= BufferSize /\ sequence[Cell(n)] = n - BufferSize + 1
                         /\ \E x \in Consumers : Reads(x, n - BufferSize)'
    BY <1>2, <2>0 DEF FreeInv, e, d
  <2>1. CASE n = d + BufferSize
    <3>1. Cell(n) = Cell(d) /\ n - BufferSize = d
      BY <1>t, <2>1, CellLap
    <3>2. Reads(c, n - BufferSize)'
      BY <1>1, <1>2, <1>3, <3>1 DEF Reads
    <3> QED BY <1>t, <1>1, <2>1, <3>1, <3>2
  <2>2. CASE n # d + BufferSize
    <3>1. n \in e .. d + BufferSize - 1
      BY <1>t, <2>2
    <3>2. \A x \in Consumers : Reads(x, n - BufferSize) => Reads(x, n - BufferSize)'
      BY <1>t, <1>1, <1>2, <1>3 DEF Reads
    <3> QED BY <3>1, <3>2 DEF MpmcIInv, FreeInv, e, d
  <2> QED BY <2>1, <2>2
<1>9. PassedInv'
  <2>1. ASSUME NEW n \in 0 .. d PROVE sequence[Cell(n)] >= n + 1
    <3>1. CASE n = d
      BY <1>t, <1>1, <3>1
    <3>2. CASE n # d
      <4>1. n \in 0 .. d - 1
        BY <1>t, <3>2
      <4> QED BY <4>1 DEF MpmcIInv, PassedInv, d
    <3> QED BY <3>1, <3>2
  <2>2. 0 .. d' - 1 = 0 .. d
    BY <1>t, <1>2
  <2> QED BY <1>2, <2>1, <2>2 DEF MpmcIInv, PassedInv, e, d
<1>10. ASSUME NEW q \in Producers PROVE ProducerInv(q)'
  <2>0. ProducerInv(q) /\ Element(q)' = Element(q) /\ q \in Threads /\ q # c
    BY <1>t, <1>0, <1>2 DEF MpmcIInv, Element
  <2>1. pc[q] \in {"write", "publish"} => d + 1 <= pos[q]
    <3> SUFFICES ASSUME pc[q] \in {"write", "publish"}
                 PROVE  d + 1 <= pos[q]
      OBVIOUS
    <3>1. d <= pos[q] /\ sequence[Cell(pos[q])] = pos[q] /\ pos[q] \in Nat
      BY <1>t, <2>0 DEF ProducerInv, d
    <3>2. d # pos[q]
      BY <1>t, <1>1, <3>1
    <3> QED BY <1>t, <3>1, <3>2
  <2> QED BY <1>2, <1>3, <2>0, <2>1 DEF ProducerInv, e, d
<1>11. ASSUME NEW x \in Consumers PROVE ConsumerInv(x)'
  <2>0. ConsumerInv(x) /\ x \in Threads
    BY <1>t DEF MpmcIInv
  <2>1. CASE x = c
    BY <1>t, <1>1, <1>2, <1>3, <1>4, <1>5, <2>1 DEF ConsumerInv, e, d
  <2>2. CASE x # c
    <3>1. pos[x] <= d /\ pos[x] \in Nat
      BY <1>t, <2>0 DEF ConsumerInv, d
    <3>2. pos[x] <= d + 1 /\ pos[x] # d + 1 /\ (pos[x] < d => pos[x] < d + 1)
      BY <1>t, <3>1
    <3> QED BY <1>2, <1>3, <2>0, <2>2, <3>2 DEF ConsumerInv, e, d
  <2> QED BY <2>1, <2>2
<1>12. WonOnce'
  <2>1. \A x \in Consumers \ {c} : pc'[x] = pc[x] /\ pos'[x] = pos[x]
                                   /\ (pc[x] \in Inside => pos[x] # d)
    <3> SUFFICES ASSUME NEW x \in Consumers \ {c}, pc[x] \in Inside
                 PROVE  pos[x] # d
      BY <1>t, <1>2, <1>3
    <3>1. ConsumerInv(x) /\ pc[x] \in {"read", "release"}
      BY <1>0, Typed DEF MpmcIInv
    <3> QED BY <1>t, <3>1 DEF ConsumerInv, d
  <2>2. \A p \in Producers : pc'[p] = pc[p] /\ pos'[p] = pos[p]
    BY <1>t, <1>0, <1>2, <1>3
  <2>3. pos'[c] = d
    BY <1>1, <1>2
  <2> QED BY <2>1, <2>2, <2>3 DEF MpmcIInv, WonOnce
<1> QED BY <1>6, <1>7, <1>8, <1>9, <1>10, <1>11, <1>12 DEF MpmcIInv

\* The element is copied out of the cell.
LEMMA DequeueReadInv ==
  ASSUME MpmcIInv, TypeOK', NEW c \in Consumers, DequeueRead(c)
  PROVE  MpmcIInv'
<1> USE SizeAssumption, ThreadAssumption
<1>0. TypeOK /\ ConsumerInv(c) /\ c \in Threads /\ c \notin Producers /\ pc[c] = "read"
      /\ Producers \subseteq Threads /\ Consumers \subseteq Threads
  BY DEF MpmcIInv, Threads, DequeueRead
<1>2. /\ sequence' = sequence /\ data' = data /\ enqueue_pos' = enqueue_pos /\ dequeue_pos' = dequeue_pos
      /\ pos' = pos /\ item' = item /\ sent' = sent
  BY DEF DequeueRead, cells
<1>3. /\ pc'[c] = "release" /\ \A u \in Threads \ {c} : pc'[u] = pc[u]
      /\ result'[c] = data[Cell(pos[c])] /\ \A u \in Consumers \ {c} : result'[u] = result[u]
  BY <1>0 DEF DequeueRead, Goto, TypeOK
<1>4. PositionInv' /\ PassedInv'
  BY <1>2 DEF MpmcIInv, PositionInv, PassedInv
<1>5. FilledInv'
  <2>1. \A n, p : p \in Producers /\ Writes(p, n) => Writes(p, n)'
    BY <1>0, <1>2, <1>3 DEF Writes
  <2> QED BY <1>2, <2>1 DEF MpmcIInv, FilledInv
<1>6. FreeInv'
  <2>1. \A n, x : x \in Consumers /\ Reads(x, n) => Reads(x, n)'
    BY <1>0, <1>2, <1>3 DEF Reads
  <2> QED BY <1>2, <2>1 DEF MpmcIInv, FreeInv
<1>7. WonOnce'
  <2>1. \A t \in Threads : pc'[t] \in Inside <=> pc[t] \in Inside
    BY <1>0, <1>3 DEF Inside
  <2> QED BY <1>0, <1>2, <2>1 DEF MpmcIInv, WonOnce
<1>8. ASSUME NEW q \in Producers PROVE ProducerInv(q)'
  <2>0. ProducerInv(q) /\ Element(q)' = Element(q) /\ q \in Threads /\ q # c
    BY <1>0, <1>2 DEF MpmcIInv, Element
  <2> QED BY <1>2, <1>3, <2>0 DEF ProducerInv
<1>9. ASSUME NEW x \in Consumers PROVE ConsumerInv(x)'
  <2>0. ConsumerInv(x) /\ x \in Threads
    BY <1>0 DEF MpmcIInv
  <2>1. CASE x = c
    BY <1>0, <1>2, <1>3, <2>0, <2>1 DEF ConsumerInv
  <2>2. CASE x # c
    BY <1>2, <1>3, <2>0, <2>2 DEF ConsumerInv
  <2> QED BY <2>1, <2>2
<1> QED BY <1>4, <1>5, <1>6, <1>7, <1>8, <1>9 DEF MpmcIInv

\* The sequence number is stored a lap ahead: the cell can be written again.
LEMMA DequeueReleaseInv ==
  ASSUME MpmcIInv, TypeOK', NEW c \in Consumers, DequeueRelease(c)
  PROVE  MpmcIInv'
<1> USE SizeAssumption, ThreadAssumption
<1> DEFINE k == pos[c]
           e == enqueue_pos
           d == dequeue_pos
<1>0. TypeOK /\ PositionInv /\ ConsumerInv(c) /\ c \in Threads /\ c \notin Producers /\ pc[c] = "release"
  BY DEF MpmcIInv, Threads, DequeueRelease
<1>t. /\ e \in Nat /\ d \in Nat /\ k \in Nat
      /\ Cell(k) \in 0 .. BufferSize - 1
      /\ \A t \in Threads : pos[t] \in Nat /\ Cell(pos[t]) \in 0 .. BufferSize - 1
      /\ \A n \in Nat : sequence[Cell(n)] \in Nat /\ Cell(n) \in 0 .. BufferSize - 1
      /\ Producers \subseteq Threads /\ Consumers \subseteq Threads
  BY <1>0, Typed
<1>2. data' = data /\ e' = e /\ d' = d /\ item' = item /\ sent' = sent
  BY DEF DequeueRelease
<1>3. /\ pc'[c] = "idle" /\ pos'[c] = 0
      /\ \A u \in Threads \ {c} : pc'[u] = pc[u] /\ pos'[u] = pos[u]
      /\ \A x \in Consumers \ {c} : result'[x] = result[x]
  BY <1>0 DEF DequeueRelease, Return, Goto, TypeOK
<1>4. sequence'[Cell(k)] = k + BufferSize
      /\ \A i \in 0 .. BufferSize - 1 : i # Cell(k) => sequence'[i] = sequence[i]
  BY <1>0, <1>t DEF DequeueRelease, TypeOK
<1>5. k < d /\ d <= e /\ e <= d + BufferSize /\ e <= k + BufferSize /\ sequence[Cell(k)] = k + 1
  BY <1>0 DEF ConsumerInv, PositionInv
<1> HIDE DEF k, e, d
<1>6. PositionInv'
  BY <1>2 DEF MpmcIInv, PositionInv, e, d
<1>7. FilledInv'
  <2> SUFFICES ASSUME NEW n \in d .. e - 1
               PROVE  \/ sequence'[Cell(n)] = n /\ \E q \in Producers : Writes(q, n)'
                      \/ sequence'[Cell(n)] = n + 1 /\ data[Cell(n)] = sent[n + 1]
    BY <1>2 DEF FilledInv, e, d
  <2>1. Cell(n) # Cell(k) /\ Cell(n) \in 0 .. BufferSize - 1
    BY <1>t, <1>5, CellApart
  <2>2. sequence'[Cell(n)] = sequence[Cell(n)]
    BY <1>4, <2>1
  <2>3. \A q \in Producers : Writes(q, n) => Writes(q, n)'
    BY <1>t, <1>0, <1>3 DEF Writes
  <2> QED BY <2>2, <2>3 DEF MpmcIInv, FilledInv, e, d
<1>8. FreeInv'
  <2> SUFFICES ASSUME NEW n \in e .. d + BufferSize - 1
               PROVE  \/ sequence'[Cell(n)] = n
                      \/ /\ n >= BufferSize /\ sequence'[Cell(n)] = n - BufferSize + 1
                         /\ \E x \in Consumers : Reads(x, n - BufferSize)'
    BY <1>2 DEF FreeInv, e, d
  <2>0. n \in Nat /\ k + BufferSize \in Nat
    BY <1>t
  <2>1. CASE n = k + BufferSize
    BY <1>t, <1>4, <2>1, CellLap
  <2>2. CASE n # k + BufferSize
    <3>1. Cell(n) # Cell(k + BufferSize)
      BY <1>t, <1>5, <2>0, <2>2, CellApart
    <3>2. sequence'[Cell(n)] = sequence[Cell(n)]
      BY <1>t, <1>4, <2>0, <3>1, CellLap
    <3>3. n - BufferSize # k
      BY <1>t, <2>0, <2>2
    <3>4. \A x \in Consumers : Reads(x, n - BufferSize) => Reads(x, n - BufferSize)'
      BY <1>t, <1>3, <3>3 DEF Reads, k
    <3> QED BY <3>2, <3>4 DEF MpmcIInv, FreeInv, e, d
  <2> QED BY <2>1, <2>2
<1>9. PassedInv'
  <2>1. ASSUME NEW n \in 0 .. e - 1
        PROVE  sequence'[Cell(n)] = sequence[Cell(n)] \/ sequence'[Cell(n)] >= n + 1
    <3>1. CASE Cell(n) # Cell(k)
      BY <1>t, <1>4, <3>1
    <3>2. CASE Cell(n) = Cell(k)
      BY <1>t, <1>4, <1>5, <3>2
    <3> QED BY <3>1, <3>2
  <2>2. ASSUME NEW n \in 0 .. e - 1 PROVE sequence'[Cell(n)] >= n
    <3>1. sequence[Cell(n)] >= n
      BY DEF MpmcIInv, PassedInv, e
    <3>2. CASE sequence'[Cell(n)] = sequence[Cell(n)]
      BY <3>1, <3>2
    <3>3. CASE sequence'[Cell(n)] # sequence[Cell(n)]
      <4>1. Cell(n) = Cell(k)
        BY <1>t, <1>4, <3>3
      <4> QED BY <1>t, <1>4, <1>5, <4>1
    <3> QED BY <3>2, <3>3
  <2>3. ASSUME NEW n \in 0 .. d - 1 PROVE sequence'[Cell(n)] >= n + 1
    <3>1. n \in 0 .. e - 1
      BY <1>t, <1>5
    <3>2. sequence[Cell(n)] >= n + 1
      BY DEF MpmcIInv, PassedInv, d
    <3> QED BY <2>1, <3>1, <3>2
  <2> QED BY <1>2, <2>2, <2>3 DEF PassedInv, e, d
<1>10. WonOnce'
  BY <1>t, <1>0, <1>3 DEF MpmcIInv, WonOnce, Inside
<1>11. ASSUME NEW q \in Producers PROVE ProducerInv(q)'
  <2>0. ProducerInv(q) /\ q \in Threads /\ q # c /\ pos[q] \in Nat
    BY <1>t, <1>0 DEF MpmcIInv
  <2>1. Element(q)' = Element(q)
    BY <1>2 DEF Element
  <2>2. pc[q] \in {"write", "publish"} => Cell(pos[q]) # Cell(k)
    <3> SUFFICES ASSUME pc[q] \in {"write", "publish"}
                 PROVE  Cell(pos[q]) # Cell(k)
      OBVIOUS
    <3>1. d <= pos[q] /\ pos[q] < e
      BY <2>0 DEF ProducerInv, d, e
    <3>2. pos[q] # k /\ pos[q] < k + BufferSize /\ k < pos[q] + BufferSize
      BY <1>t, <1>5, <2>0, <3>1
    <3> QED BY <1>t, <2>0, <3>2, CellApart
  <2>3. pc[q] = "cas" /\ pos[q] = e => Cell(pos[q]) # Cell(k)
    <3> SUFFICES ASSUME pc[q] = "cas", pos[q] = e, Cell(e) = Cell(k)
                 PROVE  FALSE
      OBVIOUS
    <3>1. sequence[Cell(e)] = e
      BY <2>0 DEF ProducerInv, e
    <3>2. e = k + 1
      BY <1>t, <1>5, <3>1
    <3> QED BY <1>t, <3>2, CellApart
  <2>4. pc[q] \in {"write", "publish"} \/ (pc[q] = "cas" /\ pos[q] = e)
          => sequence'[Cell(pos[q])] = sequence[Cell(pos[q])]
    BY <1>t, <1>4, <2>0, <2>2, <2>3
  <2> QED BY <1>2, <1>3, <2>0, <2>1, <2>4 DEF ProducerInv, e, d
<1>12. ASSUME NEW x \in Consumers PROVE ConsumerInv(x)'
  <2>0. ConsumerInv(x) /\ x \in Threads /\ pos[x] \in Nat
    BY <1>t DEF MpmcIInv
  <2>1. CASE x = c
    BY <1>2, <1>3, <1>t, <2>1 DEF ConsumerInv, d
  <2>2. CASE x # c
    <3>1. pc[x] \in {"read", "release"} => Cell(pos[x]) # Cell(k)
      <4> SUFFICES ASSUME pc[x] \in {"read", "release"}
                   PROVE  Cell(pos[x]) # Cell(k)
        OBVIOUS
      <4>1. pos[x] < d /\ e <= pos[x] + BufferSize
        BY <2>0 DEF ConsumerInv, d, e
      <4>2. pos[x] # k
        BY <1>t, <1>0, <2>2 DEF MpmcIInv, WonOnce, Inside, k
      <4> QED BY <1>t, <1>5, <2>0, <4>1, <4>2, CellApart
    <3>2. pc[x] = "cas" /\ pos[x] = d => Cell(pos[x]) # Cell(k)
      <4> SUFFICES ASSUME pc[x] = "cas", pos[x] = d, Cell(d) = Cell(k)
                   PROVE  FALSE
        OBVIOUS
      <4>1. sequence[Cell(d)] = d + 1
        BY <2>0 DEF ConsumerInv, d
      <4> QED BY <1>t, <1>5, <4>1
    <3>3. pc[x] \in {"read", "release"} \/ (pc[x] = "cas" /\ pos[x] = d)
            => sequence'[Cell(pos[x])] = sequence[Cell(pos[x])]
      BY <1>t, <1>4, <2>0, <3>1, <3>2
    <3> QED BY <1>2, <1>3, <2>0, <2>2, <3>3 DEF ConsumerInv, e, d
  <2> QED BY <2>1, <2>2
<1> QED BY <1>6, <1>7, <1>8, <1>9, <1>10, <1>11, <1>12 DEF MpmcIInv

\* Every step keeps the invariant.
LEMMA MpmcStep == MpmcIInv /\ [Next]_vars => MpmcIInv'
<1> SUFFICES ASSUME MpmcIInv, [Next]_vars
             PROVE  MpmcIInv'
  OBVIOUS
<1>0. TypeOK'
  BY MpmcTypes
<1>1. ASSUME NEW p \in Producers, Enqueue(p) PROVE MpmcIInv'
  BY <1>0, <1>1, EnqueueLocal, EnqueueCasInv, EnqueueWriteInv, EnqueuePublishInv DEF Enqueue
<1>2. ASSUME NEW c \in Consumers, Dequeue(c) \/ ApproxSize(c) PROVE MpmcIInv'
  BY <1>0, <1>2, DequeueLocal, DequeueCasInv, DequeueReadInv, DequeueReleaseInv DEF Dequeue
<1>3. CASE UNCHANGED vars
  <2> USE <1>3 DEF vars, cells
  <2>1. PositionInv' /\ PassedInv' /\ WonOnce'
    BY DEF MpmcIInv, PositionInv, PassedInv, WonOnce
  <2>2. FilledInv' /\ FreeInv'
    BY DEF MpmcIInv, FilledInv, FreeInv, Writes, Reads
  <2>3. ASSUME NEW p \in Producers PROVE ProducerInv(p)'
    BY DEF MpmcIInv, ProducerInv, Element
  <2>4. ASSUME NEW c \in Consumers PROVE ConsumerInv(c)'
    BY DEF MpmcIInv, ConsumerInv
  <2> QED BY <1>0, <2>1, <2>2, <2>3, <2>4 DEF MpmcIInv
<1> QED BY <1>1, <1>2, <1>3 DEF Next

\* The sequence numbers, the two positions and the threads' places agree, for any
\* number of threads and cells: what mpmc_bounded_queue's two store operations keep up.
THEOREM MpmcInvariance == Spec => []MpmcIInv
<1>1. Init => MpmcIInv
  BY MpmcInit
<1>2. MpmcIInv /\ [Next]_vars => MpmcIInv'
  BY MpmcStep
<1> QED BY <1>1, <1>2, PTL DEF Spec

\* No two threads are ever in one cell, and a consumer copies out the element of
\* the position it won (enqueue and dequeue touch data_ without a lock).
THEOREM CellSafety == Spec => []CellsSafe
<1>1. MpmcIInv => CellsSafe
  <2> SUFFICES ASSUME MpmcIInv
               PROVE  CellsSafe
    OBVIOUS
  <2>0. TypeOK
    BY DEF MpmcIInv
  <2>1. ASSUME NEW p \in Producers, pc[p] \in Inside, NEW t \in Threads, t # p, pc[t] \in Inside
        PROVE  Cell(pos[t]) # Cell(pos[p])
    <3>1. pc[p] \in {"write", "publish"}
      BY <2>0, <2>1, Typed
    <3>2. CASE t \in Producers
      BY <2>0, <2>1, <3>1, <3>2, Typed, ProducerAlone
    <3>3. CASE t \in Consumers
      BY <2>0, <2>1, <3>1, <3>3, Typed, ProducerAlone
    <3> QED BY <3>2, <3>3 DEF Threads
  <2>2. ASSUME NEW c \in Consumers, pc[c] \in Inside, NEW x \in Consumers, x # c, pc[x] \in Inside
        PROVE  Cell(pos[x]) # Cell(pos[c])
    <3>1. /\ ConsumerInv(c) /\ ConsumerInv(x) /\ PositionInv /\ pos[c] # pos[x]
          /\ pc[c] \in {"read", "release"} /\ pc[x] \in {"read", "release"}
      BY <2>0, <2>2, Typed DEF MpmcIInv, WonOnce
    <3>2. /\ pos[c] \in Nat /\ pos[x] \in Nat /\ enqueue_pos \in Nat /\ dequeue_pos \in Nat
      BY <2>0, Typed
    <3>3. pos[x] < pos[c] + BufferSize /\ pos[c] < pos[x] + BufferSize
      BY <3>1, <3>2, SizeAssumption DEF ConsumerInv, PositionInv
    <3> QED BY <3>1, <3>2, <3>3, CellApart
  <2>3. CellExclusive
    BY <2>1, <2>2 DEF CellExclusive, Threads
  <2>4. Delivered
    BY DEF MpmcIInv, ConsumerInv, Delivered
  <2> QED BY <2>3, <2>4 DEF CellsSafe
<1> QED BY <1>1, MpmcInvariance, PTL
-----------------------------------------------------------------------------
(* What the calls answer                                                    *)

\* A thread moves only in its own steps.
LEMMA OwnStep ==
  ASSUME MpmcIInv, [Next]_vars, NEW t \in Threads, pc'[t] # pc[t]
  PROVE  \/ t \in Producers /\ Enqueue(t)
         \/ t \in Consumers /\ (Dequeue(t) \/ ApproxSize(t))
<1>0. pc \in [Threads -> {"idle", "look", "reload", "cas", "write", "publish", "read", "release", "size"}]
  BY DEF MpmcIInv, TypeOK
<1>1. ASSUME NEW p \in Producers, Enqueue(p) PROVE p = t
  <2>1. \E l : pc' = [pc EXCEPT ![p] = l]
    BY <1>1 DEF Enqueue, EnqueueLoadPos, EnqueueLook, EnqueueCas, EnqueueCasFails, EnqueueWrite,
       EnqueuePublish, Return, Goto
  <2> QED BY <1>0, <2>1
<1>2. ASSUME NEW c \in Consumers, Dequeue(c) \/ ApproxSize(c) PROVE c = t
  <2>1. \E l : pc' = [pc EXCEPT ![c] = l]
    BY <1>2 DEF Dequeue, DequeueLoadPos, DequeueLook, DequeueCas, DequeueCasFails, DequeueRead,
       DequeueRelease, ApproxSize, ApproxSizeFirst, ApproxSizeLast, Return, Goto
  <2> QED BY <1>0, <2>1
<1>3. ~UNCHANGED vars
  BY DEF vars
<1> QED BY <1>1, <1>2, <1>3 DEF Next

\* A producer that is told the ring is full.
LEMMA FullJustified ==
  ASSUME MpmcIInv, [Next]_vars, NEW p \in Producers, pc[p] = "look", pc'[p] = "idle"
  PROVE  \/ enqueue_pos - dequeue_pos = BufferSize
         \/ \E c \in Consumers : pc[c] \in {"read", "release"} /\ pos[c] = pos[p] - BufferSize
<1> USE SizeAssumption, ThreadAssumption
<1>0. TypeOK /\ PositionInv /\ ProducerInv(p) /\ p \in Threads /\ p \notin Consumers
  BY DEF MpmcIInv, Threads
<1>t. /\ enqueue_pos \in Nat /\ dequeue_pos \in Nat /\ pos[p] \in Nat
      /\ sequence[Cell(pos[p])] \in Nat
  BY <1>0, Typed
<1>1. Enqueue(p)
  BY <1>0, OwnStep
<1>2. EnqueueLook(p)
  BY <1>1 DEF Enqueue, EnqueueLoadPos, EnqueueCas, EnqueueCasFails, EnqueueWrite, EnqueuePublish
<1>3. sequence[Cell(pos[p])] - pos[p] < 0
  <2> SUFFICES ASSUME ~(sequence[Cell(pos[p])] - pos[p] < 0)
               PROVE  FALSE
    OBVIOUS
  <2>1. Goto(p, IF sequence[Cell(pos[p])] - pos[p] = 0 THEN "cas" ELSE "reload")
    BY <1>2 DEF EnqueueLook
  <2> QED BY <1>0, <2>1 DEF Goto, TypeOK
<1>4. pos[p] = enqueue_pos
  <2> SUFFICES ASSUME pos[p] # enqueue_pos
               PROVE  FALSE
    OBVIOUS
  <2>1. pos[p] \in 0 .. enqueue_pos - 1
    BY <1>0, <1>t DEF ProducerInv
  <2> QED BY <1>t, <1>3, <2>1 DEF MpmcIInv, PassedInv
<1>5. CASE enqueue_pos = dequeue_pos + BufferSize
  BY <1>t, <1>5
<1>6. CASE enqueue_pos # dequeue_pos + BufferSize
  <2>1. enqueue_pos \in enqueue_pos .. dequeue_pos + BufferSize - 1
    BY <1>0, <1>t, <1>6 DEF PositionInv
  <2>2. sequence[Cell(enqueue_pos)] # enqueue_pos
    BY <1>t, <1>3, <1>4
  <2>3. \E c \in Consumers : Reads(c, enqueue_pos - BufferSize)
    BY <2>1, <2>2 DEF MpmcIInv, FreeInv
  <2> QED BY <1>4, <2>3 DEF Reads
<1> QED BY <1>5, <1>6

\* A consumer that is told the ring is empty.
LEMMA EmptyJustified ==
  ASSUME MpmcIInv, [Next]_vars, NEW c \in Consumers, pc[c] = "look", pc'[c] = "idle"
  PROVE  \/ enqueue_pos = dequeue_pos
         \/ \E p \in Producers : pc[p] \in {"write", "publish"} /\ pos[p] = pos[c]
<1> USE SizeAssumption, ThreadAssumption
<1>0. TypeOK /\ PositionInv /\ ConsumerInv(c) /\ c \in Threads /\ c \notin Producers
  BY DEF MpmcIInv, Threads
<1>t. /\ enqueue_pos \in Nat /\ dequeue_pos \in Nat /\ pos[c] \in Nat
      /\ sequence[Cell(pos[c])] \in Nat
  BY <1>0, Typed
<1>1. Dequeue(c) \/ ApproxSize(c)
  BY <1>0, OwnStep
<1>2. DequeueLook(c)
  BY <1>1 DEF Dequeue, DequeueLoadPos, DequeueCas, DequeueCasFails, DequeueRead, DequeueRelease,
     ApproxSize, ApproxSizeFirst, ApproxSizeLast
<1>3. sequence[Cell(pos[c])] - (pos[c] + 1) < 0
  <2> SUFFICES ASSUME ~(sequence[Cell(pos[c])] - (pos[c] + 1) < 0)
               PROVE  FALSE
    OBVIOUS
  <2>1. Goto(c, IF sequence[Cell(pos[c])] - (pos[c] + 1) = 0 THEN "cas" ELSE "reload")
    BY <1>2 DEF DequeueLook
  <2> QED BY <1>0, <2>1 DEF Goto, TypeOK
<1>4. pos[c] = dequeue_pos
  <2> SUFFICES ASSUME pos[c] # dequeue_pos
               PROVE  FALSE
    OBVIOUS
  <2>1. pos[c] \in 0 .. dequeue_pos - 1
    BY <1>0, <1>t DEF ConsumerInv
  <2> QED BY <1>t, <1>3, <2>1 DEF MpmcIInv, PassedInv
<1>5. CASE enqueue_pos # dequeue_pos
  <2>1. dequeue_pos \in dequeue_pos .. enqueue_pos - 1
    BY <1>0, <1>t, <1>5 DEF PositionInv
  <2>2. sequence[Cell(dequeue_pos)] # dequeue_pos + 1
    BY <1>t, <1>3, <1>4
  <2>3. \E p \in Producers : Writes(p, dequeue_pos)
    BY <2>1, <2>2 DEF MpmcIInv, FilledInv
  <2> QED BY <1>4, <2>3 DEF Writes
<1> QED BY <1>5

\* approx_size, whose two loads other threads come between.
LEMMA SizeNotUnder ==
  ASSUME MpmcIInv, [Next]_vars, NEW c \in Consumers, pc[c] = "size", pc'[c] = "idle"
  PROVE  result'[c][1] >= enqueue_pos - dequeue_pos
<1> USE SizeAssumption, ThreadAssumption
<1>0. TypeOK /\ PositionInv /\ ConsumerInv(c) /\ c \in Threads /\ c \notin Producers
  BY DEF MpmcIInv, Threads
<1>1. Dequeue(c) \/ ApproxSize(c)
  BY <1>0, OwnStep
<1>2. ApproxSizeLast(c)
  BY <1>1 DEF Dequeue, DequeueLoadPos, DequeueLook, DequeueCas, DequeueCasFails, DequeueRead,
     DequeueRelease, ApproxSize, ApproxSizeFirst
<1>3. result'[c] = <<Clamped(pos[c], enqueue_pos)>>
  BY <1>0, <1>2 DEF ApproxSizeLast, TypeOK
<1>4. Clamped(pos[c], enqueue_pos) >= enqueue_pos - dequeue_pos
  <2>1. enqueue_pos \in Nat /\ dequeue_pos \in Nat /\ pos[c] \in Nat
    BY <1>0, Typed
  <2>2. pos[c] <= dequeue_pos /\ dequeue_pos <= enqueue_pos /\ enqueue_pos <= dequeue_pos + BufferSize
    BY <1>0 DEF ConsumerInv, PositionInv
  <2> QED BY <2>1, <2>2 DEF Clamped
<1> QED BY <1>3, <1>4

\* false from enqueue or dequeue, and a size from approx_size, are answered from
\* loads made at different times; they are true of the ring for any number of threads.
THEOREM Answers == Spec => AnswersTrue
<1>1. MpmcIInv /\ [Next]_vars =>
        [/\ \A p \in Producers : pc[p] = "look" /\ pc'[p] = "idle" =>
              \/ enqueue_pos - dequeue_pos = BufferSize
              \/ \E c \in Consumers : pc[c] \in {"read", "release"} /\ pos[c] = pos[p] - BufferSize
         /\ \A c \in Consumers : pc[c] = "look" /\ pc'[c] = "idle" =>
              \/ enqueue_pos = dequeue_pos
              \/ \E p \in Producers : pc[p] \in {"write", "publish"} /\ pos[p] = pos[c]]_vars
  BY FullJustified, EmptyJustified
<1>2. MpmcIInv /\ [Next]_vars =>
        [\A c \in Consumers :
           pc[c] = "size" /\ pc'[c] = "idle" => result'[c][1] >= enqueue_pos - dequeue_pos]_vars
  BY SizeNotUnder
<1> QED BY <1>1, <1>2, MpmcInvariance, PTL DEF Spec, AnswersTrue, AnswersJustified, ApproxNotUnder
-----------------------------------------------------------------------------
(* The ring is a first-in first-out queue                                   *)

\* Append adds one element at the end.
LEMMA AppendPieces ==
  ASSUME NEW S, NEW s \in Seq(S), NEW x \in S
  PROVE  /\ SubSeq(Append(s, x), 1, Len(s)) = s
         /\ SubSeq(Append(s, x), Len(s) + 1, Len(s) + 1) = <<x>>
<1> DEFINE a == Append(s, x)
           n == Len(s)
<1>1. n \in Nat /\ a \in Seq(S) /\ Len(a) = n + 1 /\ a[n + 1] = x /\ \A i \in 1 .. n : a[i] = s[i]
  BY AppendProperties
<1> HIDE DEF a
<1>2. SubSeq(a, 1, n) = s
  <2>1. \A i \in 1 .. n : a[i] \in S
    BY <1>1
  <2>2. SubSeq(a, 1, n) \in Seq(S) /\ Len(SubSeq(a, 1, n)) = n /\ \A i \in 1 .. n : SubSeq(a, 1, n)[i] = a[i]
    BY <1>1, <2>1, SubSeqProperties
  <2> QED BY <1>1, <2>2, SeqEqual
<1>3. SubSeq(a, n + 1, n + 1) = <<x>>
  <2>1. \A i \in n + 1 .. n + 1 : a[i] \in S
    BY <1>1
  <2>2. /\ SubSeq(a, n + 1, n + 1) \in Seq(S) /\ Len(SubSeq(a, n + 1, n + 1)) = 1
        /\ \A i \in 1 .. 1 : SubSeq(a, n + 1, n + 1)[i] = a[n + 1]
    BY <1>1, <2>1, SubSeqProperties
  <2>3. <<x>> \in Seq(S) /\ Len(<<x>>) = 1 /\ <<x>>[1] = x
    OBVIOUS
  <2> DEFINE u == SubSeq(a, n + 1, n + 1)
             v == <<x>>
  <2>4. u \in Seq(S) /\ v \in Seq(S) /\ Len(u) = Len(v) /\ Len(v) = 1
    BY <2>2, <2>3
  <2>5. u[1] = v[1]
    BY <1>1, <2>2, <2>3
  <2>6. \A i \in 1 .. Len(u) : u[i] = v[i]
    <3> HIDE DEF u, v
    <3> QED BY <2>4, <2>5
  <2> HIDE DEF u, v
  <2>7. u = v
    BY <2>4, <2>6, SeqEqual
  <2> QED BY <2>7 DEF u, v
<1> QED BY <1>2, <1>3 DEF a

\* What is inside is what was sent and not yet taken, in order.
LEMMA ContentsAre == MpmcIInv => ContentsInv
<1> SUFFICES ASSUME MpmcIInv
             PROVE  ContentsInv
  OBVIOUS
<1> USE SizeAssumption
<1>0. TypeOK /\ enqueue_pos \in Nat /\ dequeue_pos \in Nat
  BY Typed DEF MpmcIInv
<1>1. ASSUME NEW n \in dequeue_pos .. enqueue_pos - 1
      PROVE  Content(n) = sent[n + 1]
  <2>1. CASE \E p \in Producers : pc[p] = "write" /\ pos[p] = n
    <3> DEFINE w == CHOOSE p \in Producers : pc[p] = "write" /\ pos[p] = n
    <3>1. w \in Producers /\ pc[w] = "write" /\ pos[w] = n
      BY <2>1
    <3>2. Content(n) = Element(w)
      BY <2>1 DEF Content
    <3> HIDE DEF w
    <3>3. ProducerInv(w)
      BY <3>1 DEF MpmcIInv
    <3> QED BY <3>1, <3>2, <3>3 DEF ProducerInv
  <2>2. CASE ~\E p \in Producers : pc[p] = "write" /\ pos[p] = n
    <3>1. Content(n) = data[Cell(n)]
      BY <2>2 DEF Content
    <3>2. CASE data[Cell(n)] = sent[n + 1]
      BY <3>1, <3>2
    <3>3. CASE \E p \in Producers : Writes(p, n)
      <4>1. PICK p \in Producers : Writes(p, n)
        BY <3>3
      <4>2. pc[p] = "publish" /\ pos[p] = n
        BY <2>2, <4>1 DEF Writes
      <4> QED BY <3>1, <4>2 DEF MpmcIInv, ProducerInv
    <3> QED BY <3>2, <3>3 DEF MpmcIInv, FilledInv
  <2> QED BY <2>1, <2>2
<1>2. ASSUME NEW i \in 1 .. enqueue_pos - dequeue_pos
      PROVE  Content(dequeue_pos + i - 1) = sent[dequeue_pos + i]
  <2>1. dequeue_pos + i - 1 \in dequeue_pos .. enqueue_pos - 1 /\ (dequeue_pos + i - 1) + 1 = dequeue_pos + i
    BY <1>0
  <2> QED BY <1>1, <2>1
<1> QED BY <1>2 DEF Contents, ContentsInv

\* Only winning a position moves a position or adds to what was sent.
LEMMA PositionsMove ==
  ASSUME [Next]_vars
  PROVE  \/ \E p \in Producers : EnqueueCas(p)
         \/ \E c \in Consumers : DequeueCas(c)
         \/ UNCHANGED <<enqueue_pos, dequeue_pos, sent>>
<1>1. ASSUME NEW p \in Producers, Enqueue(p), ~EnqueueCas(p)
      PROVE  UNCHANGED <<enqueue_pos, dequeue_pos, sent>>
  BY <1>1 DEF Enqueue, EnqueueLoadPos, EnqueueLook, EnqueueCasFails, EnqueueWrite, EnqueuePublish
<1>2. ASSUME NEW c \in Consumers, Dequeue(c) \/ ApproxSize(c), ~DequeueCas(c)
      PROVE  UNCHANGED <<enqueue_pos, dequeue_pos, sent>>
  BY <1>2 DEF Dequeue, DequeueLoadPos, DequeueLook, DequeueCasFails, DequeueRead, DequeueRelease,
     ApproxSize, ApproxSizeFirst, ApproxSizeLast
<1>3. CASE UNCHANGED vars
  BY <1>3 DEF vars
<1> QED BY <1>1, <1>2, <1>3 DEF Next

\* The ring, whose positions, sequence numbers and elements are stored one at a
\* time, is a first-in first-out queue of BufferSize elements: winning a position
\* is the moment an element enters or leaves.
THEOREM MpmcRefinement == Spec => ImplementsFifo
<1>1. Init => Abstract!Init
  <2> SUFFICES ASSUME Init
               PROVE  Abstract!Init
    OBVIOUS
  <2>1. enqueue_pos - dequeue_pos = 0 /\ sent = <<>>
    BY DEF Init
  <2>2. Contents = <<>>
    BY <2>1 DEF Contents
  <2> QED BY <2>1, <2>2 DEF Abstract!Init
<1>2. MpmcIInv /\ MpmcIInv' /\ ContentsInv /\ ContentsInv' /\ [Next]_vars
        => [Abstract!Next]_<<sent, Contents>>
  <2> SUFFICES ASSUME MpmcIInv, MpmcIInv', ContentsInv, ContentsInv', [Next]_vars
               PROVE  [Abstract!Next]_<<sent, Contents>>
    OBVIOUS
  <2> USE SizeAssumption
  <2> DEFINE e == enqueue_pos
             d == dequeue_pos
  <2>0. e \in Nat /\ d \in Nat /\ d <= e /\ sent \in Seq(Elements) /\ Len(sent) = e
    BY DEF MpmcIInv, TypeOK, PositionInv
  <2>1. Contents = [i \in 1 .. e - d |-> sent[d + i]]
    BY DEF ContentsInv
  <2>2. Contents' = [i \in 1 .. e' - d' |-> sent'[d' + i]]
    BY DEF ContentsInv
  <2>3. e' \in Nat /\ d' \in Nat /\ d' <= e' /\ e' <= d' + BufferSize
    BY DEF MpmcIInv, TypeOK, PositionInv
  <2>4. Contents \in Seq(Elements) /\ Len(Contents) = e - d
    <3>1. \A i \in 1 .. e - d : sent[d + i] \in Elements
      BY <2>0
    <3> QED BY <2>0, <2>1, <3>1
  <2>5. ASSUME NEW p \in Producers, EnqueueCas(p) PROVE Abstract!Put
    <3>1. e' = e + 1 /\ d' = d /\ sent' = Append(sent, Element(p)) /\ Element(p) \in Elements
      BY <2>5 DEF EnqueueCas, MpmcIInv, TypeOK, Element, Elements
    <3> HIDE DEF e, d
    <3>2. /\ sent'[e + 1] = Element(p) /\ \A i \in 1 .. e : sent'[i] = sent[i]
      BY <2>0, <3>1
    <3>3. Contents' = Append(Contents, Element(p))
      <4>1. ASSUME NEW i \in 1 .. e - d PROVE sent'[d + i] = sent[d + i]
        <5>1. d + i \in 1 .. e
          BY <2>0
        <5> QED BY <3>2, <5>1
      <4>2. sent'[d + (e - d + 1)] = Element(p)
        <5>1. d + (e - d + 1) = e + 1
          BY <2>0
        <5> QED BY <3>2, <5>1
      <4>3. Contents' = [i \in 1 .. e - d + 1 |-> sent'[d + i]]
        <5>1. 1 .. e' - d' = 1 .. e - d + 1
          BY <2>0, <3>1
        <5> QED BY <2>2, <3>1, <5>1
      <4>4. /\ Append(Contents, Element(p)) \in Seq(Elements)
            /\ Len(Append(Contents, Element(p))) = e - d + 1
            /\ Append(Contents, Element(p))[e - d + 1] = Element(p)
            /\ \A i \in 1 .. e - d : Append(Contents, Element(p))[i] = Contents[i]
        BY <2>4, <3>1, AppendProperties
      <4>5. ASSUME NEW i \in 1 .. e - d + 1
            PROVE  sent'[d + i] = Append(Contents, Element(p))[i] /\ sent'[d + i] \in Elements
        <5>1. CASE i = e - d + 1
          BY <3>1, <4>2, <4>4, <5>1
        <5>2. CASE i # e - d + 1
          <6>1. i \in 1 .. e - d
            BY <2>0, <5>2
          <6>2. Contents[i] \in Elements
            BY <2>4, <6>1
          <6> QED BY <2>1, <4>1, <4>4, <6>1, <6>2
        <5> QED BY <5>1, <5>2
      <4>6. Contents' \in Seq(Elements) /\ Len(Contents') = e - d + 1
        <5>1. \A i \in 1 .. e - d + 1 : sent'[d + i] \in Elements
          BY <4>5
        <5>2. e - d + 1 \in Nat
          BY <2>0
        <5> QED BY <4>3, <5>1, <5>2
      <4> QED BY <4>3, <4>4, <4>5, <4>6, SeqEqual
    <3>4. Len(Contents') = e - d + 1
      BY <2>4, <3>1, <3>3
    <3>5. SubSeq(Contents', 1, Len(Contents)) = Contents
      BY <2>4, <3>1, <3>3, AppendPieces
    <3>6. SubSeq(Contents', e - d + 1, e - d + 1) = <<Element(p)>>
      BY <2>4, <3>1, <3>3, AppendPieces
    <3>7. sent' = sent \o <<Element(p)>>
      BY <2>0, <3>1
    <3>8. Len(Contents) < Len(Contents') /\ Len(Contents') <= BufferSize
      BY <2>0, <2>3, <2>4, <3>1, <3>4
    <3> QED BY <2>4, <3>4, <3>5, <3>6, <3>7, <3>8 DEF Abstract!Put
  <2>6. ASSUME NEW c \in Consumers, DequeueCas(c) PROVE Abstract!Take
    <3>1. e' = e /\ d' = d + 1 /\ sent' = sent
      BY <2>6 DEF DequeueCas
    <3> HIDE DEF e, d
    <3>2. d < e
      BY <2>0, <2>3, <3>1
    <3>3. Contents' = [i \in 1 .. e - d - 1 |-> sent[d + 1 + i]]
      <4>1. 1 .. e' - d' = 1 .. e - d - 1
        BY <2>0, <3>1
      <4> QED BY <2>2, <3>1, <4>1
    <3>4. \A i \in 1 .. e - d - 1 : sent[d + 1 + i] \in Elements
      BY <2>0
    <3>5. Contents' \in Seq(Elements) /\ Len(Contents') = e - d - 1
      BY <2>0, <3>2, <3>3, <3>4
    <3>6. SubSeq(Contents, 2, e - d) = [i \in 1 .. e - d - 1 |-> Contents[i + 1]]
      BY <2>0, <2>4, <3>2
    <3>7. ASSUME NEW i \in 1 .. e - d - 1 PROVE Contents[i + 1] = sent[d + 1 + i]
      <4>1. i + 1 \in 1 .. e - d /\ d + (i + 1) = d + 1 + i
        BY <2>0
      <4> QED BY <2>1, <4>1
    <3>8. Contents' = SubSeq(Contents, 2, e - d)
      BY <3>3, <3>6, <3>7
    <3>9. Len(Contents) - Len(Contents') + 1 = 2 /\ Len(Contents') < Len(Contents)
      BY <2>0, <2>4, <3>5
    <3> QED BY <2>4, <3>1, <3>8, <3>9 DEF Abstract!Take
  <2>7. CASE UNCHANGED <<enqueue_pos, dequeue_pos, sent>>
    BY <2>1, <2>2, <2>7
  <2> QED BY <2>5, <2>6, <2>7, PositionsMove DEF Abstract!Next
<1> QED BY <1>1, <1>2, MpmcInvariance, ContentsAre, PTL DEF Spec, ImplementsFifo, Abstract!Spec
=============================================================================
