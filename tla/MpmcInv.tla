------------------------------ MODULE MpmcInv -------------------------------
(***************************************************************************)
(* The inductive invariant behind the properties of MpmcBoundedQueue.  It  *)
(* follows a position, not a cell: position n is enqueued when enqueue_pos *)
(* passes it, published when the sequence number of its cell becomes       *)
(* n + 1, dequeued when dequeue_pos passes it, and released when the       *)
(* sequence number becomes n + BufferSize, the next position of the cell.  *)
(***************************************************************************)
EXTENDS MpmcBoundedQueue

Elements == Producers \X Nat

\* The types of the variables.
TypeOK ==
  /\ sequence \in [0 .. BufferSize - 1 -> Nat]
  /\ data \in [0 .. BufferSize - 1 -> Elements \cup {NoData}]
  /\ enqueue_pos \in Nat /\ dequeue_pos \in Nat
  /\ pc \in [Threads -> {"idle", "look", "reload", "cas", "write", "publish", "read", "release", "size"}]
  /\ \A p \in Producers : pc[p] \notin {"read", "release", "size"}
  /\ \A c \in Consumers : pc[c] \notin {"write", "publish"}
  /\ pos \in [Threads -> Nat]
  /\ item \in [Producers -> Nat]
  /\ result \in [Consumers -> Elements \cup Seq(Nat)]
  /\ sent \in Seq(Elements)

Writes(p, n) == pc[p] \in {"write", "publish"} /\ pos[p] = n
Reads(c, n) == pc[c] \in {"read", "release"} /\ pos[c] = n

\* The ring is neither overfull nor overdrawn.
PositionInv ==
  /\ dequeue_pos <= enqueue_pos /\ enqueue_pos <= dequeue_pos + BufferSize
  /\ Len(sent) = enqueue_pos

\* A position between the two is being written, or its element is published.
FilledInv ==
  \A n \in dequeue_pos .. enqueue_pos - 1 :
    \/ sequence[Cell(n)] = n /\ \E p \in Producers : Writes(p, n)
    \/ sequence[Cell(n)] = n + 1 /\ data[Cell(n)] = sent[n + 1]

\* A position to come within the lap is free, or the last one of its cell is being read.
FreeInv ==
  \A n \in enqueue_pos .. dequeue_pos + BufferSize - 1 :
    \/ sequence[Cell(n)] = n
    \/ /\ n >= BufferSize /\ sequence[Cell(n)] = n - BufferSize + 1
       /\ \E c \in Consumers : Reads(c, n - BufferSize)

\* A sequence number does not fall behind the positions that were passed.
PassedInv ==
  /\ \A n \in 0 .. enqueue_pos - 1 : sequence[Cell(n)] >= n
  /\ \A n \in 0 .. dequeue_pos - 1 : sequence[Cell(n)] >= n + 1

\* A producer in its cell, or about to exchange the position of a cell it saw free.
ProducerInv(p) ==
  /\ pos[p] <= enqueue_pos
  /\ pc[p] = "cas" /\ pos[p] = enqueue_pos => sequence[Cell(pos[p])] = pos[p]
  /\ pc[p] \in {"write", "publish"} =>
       /\ dequeue_pos <= pos[p] /\ pos[p] < enqueue_pos
       /\ sequence[Cell(pos[p])] = pos[p] /\ sent[pos[p] + 1] = Element(p)
  /\ pc[p] = "publish" => data[Cell(pos[p])] = Element(p)

\* A consumer in its cell, or about to exchange the position of a cell it saw filled.
ConsumerInv(c) ==
  /\ pos[c] <= dequeue_pos
  /\ pc[c] = "cas" /\ pos[c] = dequeue_pos => sequence[Cell(pos[c])] = pos[c] + 1
  /\ pc[c] \in {"read", "release"} =>
       /\ pos[c] < dequeue_pos /\ enqueue_pos <= pos[c] + BufferSize
       /\ sequence[Cell(pos[c])] = pos[c] + 1 /\ data[Cell(pos[c])] = sent[pos[c] + 1]
  /\ pc[c] = "release" => result[c] = sent[pos[c] + 1]

\* A position is won once by a producer and once by a consumer.
WonOnce ==
  /\ \A p, q \in Producers : p # q /\ pc[p] \in Inside /\ pc[q] \in Inside => pos[p] # pos[q]
  /\ \A c, d \in Consumers : c # d /\ pc[c] \in Inside /\ pc[d] \in Inside => pos[c] # pos[d]

MpmcIInv ==
  /\ TypeOK /\ PositionInv /\ FilledInv /\ FreeInv /\ PassedInv /\ WonOnce
  /\ \A p \in Producers : ProducerInv(p)
  /\ \A c \in Consumers : ConsumerInv(c)

\* What is inside is what was sent and not yet taken, in order.
ContentsInv == Contents = [i \in 1 .. enqueue_pos - dequeue_pos |-> sent[dequeue_pos + i]]
=============================================================================
