-------------------------- MODULE MpmcBoundedQueue --------------------------
(***************************************************************************)
(* spdlog's mpmc_bounded_queue: a ring of cells, each with a sequence      *)
(* number that says whose turn the cell is.  One action per access to      *)
(* shared memory; compare_exchange_weak may fail for no reason.  The       *)
(* positions are 64-bit counters that do not wrap in practice: they are    *)
(* natural numbers here.                                                   *)
(***************************************************************************)
EXTENDS Integers, Sequences

CONSTANTS Producers, Consumers,  \* threads that enqueue; that dequeue or ask the size
          BufferSize,            \* the constructor's buffer_size
          MaxPuts                \* bound: elements each producer enqueues

\* The constructor asserts a power of two; the algorithm needs two cells.
ASSUME SizeAssumption == BufferSize \in Nat \ {0, 1}
ASSUME ThreadAssumption == Producers \cap Consumers = {} /\ MaxPuts \in Nat

VARIABLES
  sequence,      \* cell |-> cell_t::sequence_
  data,          \* cell |-> cell_t::data_
  enqueue_pos, dequeue_pos,
  pc,            \* thread |-> where it is in its call
  pos,           \* thread |-> its local pos (first_pos in approx_size)
  item,          \* producer |-> the number of the element it enqueues next
  result,        \* consumer |-> the element, or the size, it read
  sent           \* history: elements in the order of their positions

cells == <<sequence, data>>
vars == <<cells, enqueue_pos, dequeue_pos, pc, pos, item, result, sent>>

Threads == Producers \cup Consumers
Cell(n) == n % BufferSize
NoData == <<>>

Init ==
  /\ sequence = [i \in 0 .. BufferSize - 1 |-> i]
  /\ data = [i \in 0 .. BufferSize - 1 |-> NoData]
  /\ enqueue_pos = 0 /\ dequeue_pos = 0
  /\ pc = [t \in Threads |-> "idle"]
  /\ pos = [t \in Threads |-> 0]
  /\ item = [p \in Producers |-> 1]
  /\ result = [c \in Consumers |-> NoData]
  /\ sent = <<>>

Goto(t, l) == pc' = [pc EXCEPT ![t] = l]
Element(p) == <<p, item[p]>>
\* A call that returns loses its locals.
Return(t) == Goto(t, "idle") /\ pos' = [pos EXCEPT ![t] = 0]
-----------------------------------------------------------------------------
\* enqueue(data): the first load of the position, and the reload after losing it.
EnqueueLoadPos(p) ==
  /\ pc[p] \in {"idle", "reload"} /\ item[p] <= MaxPuts
  /\ pos' = [pos EXCEPT ![p] = enqueue_pos]
  /\ Goto(p, "look")
  /\ UNCHANGED <<cells, enqueue_pos, dequeue_pos, item, result, sent>>

\* Mutant: full and taken are confused.
EnqueueLookEager(p) ==
  LET dif == sequence[Cell(pos[p])] - pos[p] IN
  /\ pc[p] = "look"
  /\ IF dif = 0 THEN Goto(p, "cas") /\ UNCHANGED pos ELSE Return(p)
  /\ UNCHANGED <<cells, enqueue_pos, dequeue_pos, item, result, sent>>

\* The sequence number of the cell decides: ours, still occupied, or taken.
EnqueueLook(p) ==
  LET dif == sequence[Cell(pos[p])] - pos[p] IN
  /\ pc[p] = "look"
  /\ IF dif < 0 THEN Return(p) ELSE Goto(p, IF dif = 0 THEN "cas" ELSE "reload") /\ UNCHANGED pos
  /\ UNCHANGED <<cells, enqueue_pos, dequeue_pos, item, result, sent>>

EnqueueCas(p) ==
  /\ pc[p] = "cas" /\ enqueue_pos = pos[p]
  /\ enqueue_pos' = pos[p] + 1
  /\ sent' = Append(sent, Element(p))
  /\ Goto(p, "write")
  /\ UNCHANGED <<cells, dequeue_pos, pos, item, result>>

\* The failed exchange, spurious or not, loads the position into pos.
EnqueueCasFails(p) ==
  /\ pc[p] = "cas"
  /\ pos' = [pos EXCEPT ![p] = enqueue_pos]
  /\ Goto(p, "look")
  /\ UNCHANGED <<cells, enqueue_pos, dequeue_pos, item, result, sent>>

\* Mutant: the sequence number is stored before the element is written.
EnqueueWriteLate(p) ==
  /\ pc[p] = "write"
  /\ sequence' = [sequence EXCEPT ![Cell(pos[p])] = pos[p] + 1]
  /\ Goto(p, "publish")
  /\ UNCHANGED <<data, enqueue_pos, dequeue_pos, pos, item, result, sent>>

EnqueueWrite(p) ==
  /\ pc[p] = "write"
  /\ data' = [data EXCEPT ![Cell(pos[p])] = Element(p)]
  /\ Goto(p, "publish")
  /\ UNCHANGED <<sequence, enqueue_pos, dequeue_pos, pos, item, result, sent>>

EnqueuePublish(p) ==
  /\ pc[p] = "publish"
  /\ sequence' = [sequence EXCEPT ![Cell(pos[p])] = pos[p] + 1]
  /\ item' = [item EXCEPT ![p] = @ + 1]
  /\ Return(p)
  /\ UNCHANGED <<data, enqueue_pos, dequeue_pos, result, sent>>

Enqueue(p) ==
  \/ EnqueueLoadPos(p) \/ EnqueueLook(p) \/ EnqueueCas(p) \/ EnqueueCasFails(p)
  \/ EnqueueWrite(p) \/ EnqueuePublish(p)
-----------------------------------------------------------------------------
\* dequeue(data)
DequeueLoadPos(c) ==
  /\ pc[c] \in {"idle", "reload"}
  /\ pos' = [pos EXCEPT ![c] = dequeue_pos]
  /\ Goto(c, "look")
  /\ result' = [result EXCEPT ![c] = NoData]
  /\ UNCHANGED <<cells, enqueue_pos, dequeue_pos, item, sent>>

DequeueLook(c) ==
  LET dif == sequence[Cell(pos[c])] - (pos[c] + 1) IN
  /\ pc[c] = "look"
  /\ IF dif < 0 THEN Return(c) ELSE Goto(c, IF dif = 0 THEN "cas" ELSE "reload") /\ UNCHANGED pos
  /\ UNCHANGED <<cells, enqueue_pos, dequeue_pos, item, result, sent>>

\* Mutant: the position is stored, not exchanged: two consumers can both get it.
DequeueStore(c) ==
  /\ pc[c] = "cas"
  /\ dequeue_pos' = pos[c] + 1
  /\ Goto(c, "read")
  /\ UNCHANGED <<cells, enqueue_pos, pos, item, result, sent>>

DequeueCas(c) ==
  /\ pc[c] = "cas" /\ dequeue_pos = pos[c]
  /\ dequeue_pos' = pos[c] + 1
  /\ Goto(c, "read")
  /\ UNCHANGED <<cells, enqueue_pos, pos, item, result, sent>>

DequeueCasFails(c) ==
  /\ pc[c] = "cas"
  /\ pos' = [pos EXCEPT ![c] = dequeue_pos]
  /\ Goto(c, "look")
  /\ UNCHANGED <<cells, enqueue_pos, dequeue_pos, item, result, sent>>

DequeueRead(c) ==
  /\ pc[c] = "read"
  /\ result' = [result EXCEPT ![c] = data[Cell(pos[c])]]
  /\ Goto(c, "release")
  /\ UNCHANGED <<cells, enqueue_pos, dequeue_pos, pos, item, sent>>

DequeueRelease(c) ==
  /\ pc[c] = "release"
  /\ sequence' = [sequence EXCEPT ![Cell(pos[c])] = pos[c] + BufferSize]
  /\ result' = [result EXCEPT ![c] = NoData]
  /\ Return(c)
  /\ UNCHANGED <<data, enqueue_pos, dequeue_pos, item, sent>>

Dequeue(c) ==
  \/ DequeueLoadPos(c) \/ DequeueLook(c) \/ DequeueCas(c) \/ DequeueCasFails(c)
  \/ DequeueRead(c) \/ DequeueRelease(c)
-----------------------------------------------------------------------------
\* approx_size(): two loads, then the difference, clamped.
ApproxSizeFirst(c) ==
  /\ pc[c] = "idle"
  /\ pos' = [pos EXCEPT ![c] = dequeue_pos]
  /\ Goto(c, "size")
  /\ result' = [result EXCEPT ![c] = NoData]
  /\ UNCHANGED <<cells, enqueue_pos, dequeue_pos, item, sent>>

\* Mutant: the difference is clamped to the mask instead of the size.
ClampedToMask(first, last) ==
  IF last <= first THEN 0
  ELSE IF last - first < BufferSize - 1 THEN last - first ELSE BufferSize - 1

Clamped(first, last) ==
  IF last <= first THEN 0
  ELSE IF last - first < BufferSize THEN last - first ELSE BufferSize

ApproxSizeLast(c) ==
  /\ pc[c] = "size"
  /\ result' = [result EXCEPT ![c] = <<Clamped(pos[c], enqueue_pos)>>]
  /\ Return(c)
  /\ UNCHANGED <<cells, enqueue_pos, dequeue_pos, item, sent>>

ApproxSize(c) == ApproxSizeFirst(c) \/ ApproxSizeLast(c)

Next ==
  \/ \E p \in Producers : Enqueue(p)
  \/ \E c \in Consumers : Dequeue(c) \/ ApproxSize(c)

Spec == Init /\ [][Next]_vars
-----------------------------------------------------------------------------
Inside == {"write", "publish", "read", "release"}

\* No two threads are ever at work in one cell: between winning a position and
\* storing the cell's sequence number a thread reads or writes data_ without
\* any other protection.
CellExclusive ==
  \A s, t \in Threads :
    s # t /\ pc[s] \in Inside /\ pc[t] \in Inside => Cell(pos[s]) # Cell(pos[t])

\* The element a consumer copied out is the one that was enqueued at the position
\* it won: never that of another lap, never one half published.
Delivered ==
  \A c \in Consumers : pc[c] = "release" => result[c] = sent[pos[c] + 1]

\* The cells protect what is in them: one thread at a time, and the right element.
CellsSafe == CellExclusive /\ Delivered

\* A call that answers false has met a full (an empty) ring, or an element that
\* another thread is still taking out (putting in) exactly there.
AnswersJustified ==
  [][/\ \A p \in Producers : pc[p] = "look" /\ pc'[p] = "idle" =>
          \/ enqueue_pos - dequeue_pos = BufferSize
          \/ \E c \in Consumers : pc[c] \in {"read", "release"} /\ pos[c] = pos[p] - BufferSize
     /\ \A c \in Consumers : pc[c] = "look" /\ pc'[c] = "idle" =>
          \/ enqueue_pos = dequeue_pos
          \/ \E p \in Producers : pc[p] \in {"write", "publish"} /\ pos[p] = pos[c]]_vars

\* approx_size never answers less than there is when it returns: dequeue_pos,
\* which only grows, is loaded first.
ApproxNotUnder ==
  [][\A c \in Consumers :
       pc[c] = "size" /\ pc'[c] = "idle" => result'[c][1] >= enqueue_pos - dequeue_pos]_vars

\* What the calls answer, from values read at different times, was true of the ring.
AnswersTrue == AnswersJustified /\ ApproxNotUnder

\* What is inside, read from the cells and from the producers still writing.
Content(n) ==
  IF \E p \in Producers : pc[p] = "write" /\ pos[p] = n
  THEN Element(CHOOSE p \in Producers : pc[p] = "write" /\ pos[p] = n)
  ELSE data[Cell(n)]

Contents == [i \in 1 .. enqueue_pos - dequeue_pos |-> Content(dequeue_pos + i - 1)]

Abstract == INSTANCE Fifo WITH Capacity <- BufferSize, queue <- Contents

\* The ring is a first-in first-out queue of BufferSize elements.
ImplementsFifo == Abstract!Spec
=============================================================================
