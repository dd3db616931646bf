---------------------------- MODULE ProducerBase ----------------------------
(***************************************************************************)
(* ConcurrentQueue::ProducerBase with what its two kinds share: blocks,    *)
(* the pools they come from, the index that finds the block of an element, *)
(* and the way consumers claim elements, which never take a lock and never *)
(* go back.  Element i, counted from 0, is the number i.  The 64-bit       *)
(* indices do not wrap here.  An element's constructor, destructor and     *)
(* assignment do not throw.                                                *)
(***************************************************************************)
EXTENDS Integers, Sequences, FiniteSets

CONSTANTS Consumers,
          BLOCK_SIZE, MAX_SUBQUEUE_SIZE,
          INITIAL_INDEX_SIZE,      \* EXPLICIT_ and IMPLICIT_INITIAL_INDEX_SIZE
          InitialBlockPoolSize,
          ExplicitMallocFails, ImplicitMallocFails,  \* which allocations may fail: "index", "block"
          MaxItems, MaxBlocks,     \* bounds: elements ever enqueued, blocks
          ExplicitMaxBulk, ImplicitMaxBulk,  \* bounds: elements of one enqueue
          DequeueMaxima,           \* what calls of dequeue_bulk ask for; dequeue() asks for 1
          MaxOvercommit            \* bound: no new call once so many were given back

ASSUME SizesAssumption ==
  /\ BLOCK_SIZE \in Nat \ {0, 1} /\ INITIAL_INDEX_SIZE \in Nat \ {0, 1}
  /\ MAX_SUBQUEUE_SIZE \in Nat /\ MAX_SUBQUEUE_SIZE % BLOCK_SIZE = 0

VARIABLES
  isExplicit,
  tailIndex, headIndex, dequeueOptimisticCount, dequeueOvercommit, tailBlock,
  data,          \* block |-> offset |-> the element there
  next,          \* block |-> the block that follows
  emptyFlags,    \* block |-> offsets whose flag is set (explicit)
  elementsCompletelyDequeued,  \* block |-> the counter (implicit)
  where,         \* block |-> "pool", "free", "used", "heap" (not allocated) or "deleted"
  blockIndex,    \* the index headers in the order of their creation; the last one counts
  entries,       \* the index entries: base of a block, and the block
  slotsUsed, indexFront,   \* pr_blockIndexSlotsUsed, pr_blockIndexFront (explicit)
  producer,      \* the producer's call in progress
  consumer,      \* consumer |-> its call in progress
  alive

blockVars == <<data, next, emptyFlags, elementsCompletelyDequeued, where>>
indexVars == <<blockIndex, entries, slotsUsed, indexFront>>
counters == <<headIndex, dequeueOptimisticCount, dequeueOvercommit>>
vars == <<isExplicit, tailIndex, counters, tailBlock, blockVars, indexVars, producer, consumer, alive>>

Blocks == 1 .. MaxBlocks
Offsets == 0 .. BLOCK_SIZE - 1
NoBlock == 0
NoElement == -1
INVALID_BLOCK_BASE == 1
CanAlloc == "enqueue"
CannotAlloc == "try_enqueue"

BaseOf(i) == (i \div BLOCK_SIZE) * BLOCK_SIZE
Offset(i) == i % BLOCK_SIZE
Header == blockIndex[Len(blockIndex)]
SizeOf(h) == Len(h.slots)
EntryAt(h, pos) == entries[h.slots[(pos % SizeOf(h)) + 1]]
MayFail(what) == what \in (IF isExplicit THEN ExplicitMallocFails ELSE ImplicitMallocFails)

\* A header of n slots over the entries that `ids` names, then over new ones.
NewHeader(ids, n, front) ==
  /\ blockIndex' = Append(blockIndex,
       [front |-> front, slots |-> [k \in 1 .. n |-> IF k <= Len(ids) THEN ids[k] ELSE Len(entries) + k - Len(ids)]])
  /\ entries' = entries \o [k \in 1 .. n - Len(ids) |-> [base |-> INVALID_BLOCK_BASE, block |-> NoBlock]]

ProducerIdle == [pc |-> "idle", mode |-> CanAlloc, count |-> 0, need |-> 0, base |-> 0,
                 first |-> NoBlock, start |-> NoBlock, front |-> 0, used |-> 0]
ConsumerIdle == [pc |-> "idle", overcommit |-> 0, desired |-> 0, mine |-> 0,
                 index |-> 0, last |-> 0, header |-> 0, front |-> 0, pos |-> 0, block |-> NoBlock]

\* The constructors: the first index may fail to be allocated.
Init ==
  /\ isExplicit \in BOOLEAN
  /\ tailIndex = 0 /\ headIndex = 0 /\ dequeueOptimisticCount = 0 /\ dequeueOvercommit = 0
  /\ tailBlock = NoBlock
  /\ data = [b \in Blocks |-> [o \in Offsets |-> NoElement]]
  /\ next = [b \in Blocks |-> NoBlock]
  /\ emptyFlags = [b \in Blocks |-> {}]
  /\ elementsCompletelyDequeued = [b \in Blocks |-> 0]
  /\ where = [b \in Blocks |-> IF b <= InitialBlockPoolSize THEN "pool" ELSE "heap"]
  /\ entries = [k \in 1 .. INITIAL_INDEX_SIZE |-> [base |-> INVALID_BLOCK_BASE, block |-> NoBlock]]
  /\ \/ blockIndex = <<[front |-> -1, slots |-> [k \in 1 .. INITIAL_INDEX_SIZE |-> k]]>>
     \/ MayFail("index") /\ blockIndex = <<>>
  /\ slotsUsed = 0 /\ indexFront = 0
  /\ producer = ProducerIdle
  /\ consumer = [c \in Consumers |-> ConsumerIdle]
  /\ alive = TRUE
-----------------------------------------------------------------------------
\* Block
IsEmpty(b) == emptyFlags[b] = Offsets

\* reset_empty of some blocks
ResetEmpty(bs) ==
  /\ emptyFlags' = [b \in Blocks |-> IF b \in bs THEN {} ELSE emptyFlags[b]]
  /\ elementsCompletelyDequeued' = [b \in Blocks |-> IF b \in bs THEN 0 ELSE elementsCompletelyDequeued[b]]

InPlace(w) == {b \in Blocks : where[b] = w}
Lowest(bs) == {b \in bs : \A a \in bs : b <= a}

\* requisition_block<mode>: the initial pool, the free list, the heap.
Requisitioned(mode) ==
  IF InPlace("pool") # {} THEN Lowest(InPlace("pool"))
  ELSE IF InPlace("free") # {} THEN InPlace("free")
  ELSE IF mode = CanAlloc THEN Lowest(InPlace("heap")) ELSE {}
RequisitionFails(mode) ==
  InPlace("pool") = {} /\ InPlace("free") = {} /\ (mode = CannotAlloc \/ MayFail("block"))

\* The size limit, seen from a block that starts at `base`.
Full(base, head) == MAX_SUBQUEUE_SIZE - BLOCK_SIZE < base - head
-----------------------------------------------------------------------------
\* dequeue_bulk(max), or dequeue() when max is 1: what looks available.  The three
\* loads are one step: read apart, they make the same call find less, which is what it
\* finds at another time, or with a smaller max.
Dequeue(c, max) ==
  LET available == tailIndex - (dequeueOptimisticCount - dequeueOvercommit) IN
  /\ consumer[c].pc = "idle" /\ alive /\ available > 0 /\ dequeueOvercommit < MaxOvercommit
  /\ consumer' = [consumer EXCEPT ![c] = [ConsumerIdle EXCEPT
       !.pc = "count", !.overcommit = dequeueOvercommit, !.desired = IF available < max THEN available ELSE max]]
  /\ UNCHANGED <<isExplicit, tailIndex, counters, tailBlock, blockVars, indexVars, producer, alive>>

DequeueCount(c) ==
  LET me == consumer[c] IN
  /\ me.pc = "count"
  /\ dequeueOptimisticCount' = dequeueOptimisticCount + me.desired
  /\ consumer' = [consumer EXCEPT ![c] = [me EXCEPT !.pc = "check", !.mine = dequeueOptimisticCount]]
  /\ UNCHANGED <<isExplicit, tailIndex, headIndex, dequeueOvercommit, tailBlock, blockVars, indexVars, producer, alive>>

\* Mutant: what others gave back is forgotten.
DequeueCheckAll(c) ==
  LET me == consumer[c] IN
  /\ me.pc = "check"
  /\ consumer' = [consumer EXCEPT ![c] = [me EXCEPT !.last = me.desired, !.pc = "claim"]]
  /\ UNCHANGED <<isExplicit, tailIndex, counters, tailBlock, blockVars, indexVars, producer, alive>>

\* The tail again: how many of the desired elements are there really?
DequeueCheck(c) ==
  LET me == consumer[c]
      actual == tailIndex - (me.mine - me.overcommit)
  IN /\ me.pc = "check"
     /\ consumer' = [consumer EXCEPT ![c] =
          [me EXCEPT !.last = IF actual <= 0 THEN 0 ELSE IF actual < me.desired THEN actual ELSE me.desired,
                     !.pc = IF actual <= 0 \/ actual < me.desired THEN "giveback" ELSE "claim"]]
     /\ UNCHANGED <<isExplicit, tailIndex, counters, tailBlock, blockVars, indexVars, producer, alive>>

\* Mutant: a call that got some elements keeps the others accounted for.
DequeueGiveBackNone(c) ==
  LET me == consumer[c] IN
  /\ me.pc = "giveback"
  /\ dequeueOvercommit' = IF me.last = 0 THEN dequeueOvercommit + me.desired ELSE dequeueOvercommit
  /\ consumer' = [consumer EXCEPT ![c] = IF me.last = 0 THEN ConsumerIdle ELSE [me EXCEPT !.pc = "claim"]]
  /\ UNCHANGED <<isExplicit, tailIndex, headIndex, dequeueOptimisticCount, tailBlock, blockVars, indexVars, producer, alive>>

DequeueGiveBack(c) ==
  LET me == consumer[c] IN
  /\ me.pc = "giveback"
  /\ dequeueOvercommit' = dequeueOvercommit + me.desired - me.last
  /\ consumer' = [consumer EXCEPT ![c] = IF me.last = 0 THEN ConsumerIdle ELSE [me EXCEPT !.pc = "claim"]]
  /\ UNCHANGED <<isExplicit, tailIndex, headIndex, dequeueOptimisticCount, tailBlock, blockVars, indexVars, producer, alive>>

\* From here on the elements index .. last - 1 are this call's.
DequeueClaim(c) ==
  LET me == consumer[c] IN
  /\ me.pc = "claim"
  /\ headIndex' = headIndex + me.last
  /\ consumer' = [consumer EXCEPT ![c] =
       [ConsumerIdle EXCEPT !.pc = "header", !.index = headIndex, !.last = headIndex + me.last]]
  /\ UNCHANGED <<isExplicit, tailIndex, dequeueOptimisticCount, dequeueOvercommit, tailBlock, blockVars, indexVars, producer, alive>>

\* The header of the index and its front; the entries are read after that.
DequeueLoadIndex(c) ==
  /\ consumer[c].pc = "header"
  /\ consumer' = [consumer EXCEPT ![c].header = Len(blockIndex), ![c].front = Header.front, ![c].pc = "locate"]
  /\ UNCHANGED <<isExplicit, tailIndex, counters, tailBlock, blockVars, indexVars, producer, alive>>

\* Where the index has element i, counted from its newest entry (slot `front`).
Located(h, front, i) == (front + (BaseOf(i) - EntryAt(h, front).base) \div BLOCK_SIZE) % SizeOf(h)

DequeueLocate(c) ==
  LET me == consumer[c]
      h == blockIndex[me.header]
      pos == Located(h, me.front, me.index)
  IN /\ me.pc = "locate"
     /\ consumer' = [consumer EXCEPT ![c] = [me EXCEPT !.pc = "take", !.front = 0, !.pos = pos, !.block = EntryAt(h, pos).block]]
     /\ UNCHANGED <<isExplicit, tailIndex, counters, tailBlock, blockVars, indexVars, producer, alive>>

\* The elements of this call in the block it has come to.
EndInBlock(me) == IF me.last < BaseOf(me.index) + BLOCK_SIZE THEN me.last ELSE BaseOf(me.index) + BLOCK_SIZE
InBlock(me) == me.index .. EndInBlock(me) - 1

DequeueTake(c) ==
  LET me == consumer[c] IN
  /\ me.pc = "take"
  /\ data' = [data EXCEPT ![me.block] = [o \in Offsets |-> IF o \in {Offset(i) : i \in InBlock(me)} THEN NoElement ELSE @[o]]]
  /\ consumer' = [consumer EXCEPT ![c].pc = "empty"]
  /\ UNCHANGED <<isExplicit, tailIndex, counters, tailBlock, next, emptyFlags, elementsCompletelyDequeued, where, indexVars, producer, alive>>

\* The next block of the call, or its end.
Onward(me) ==
  LET pos == (me.pos + 1) % SizeOf(blockIndex[me.header]) IN
  IF EndInBlock(me) = me.last THEN ConsumerIdle
  ELSE [me EXCEPT !.pc = "next", !.index = EndInBlock(me), !.pos = pos, !.block = NoBlock]

DequeueNextBlock(c) ==
  LET me == consumer[c] IN
  /\ me.pc = "next"
  /\ consumer' = [consumer EXCEPT ![c] = [me EXCEPT !.pc = "take", !.block = EntryAt(blockIndex[me.header], me.pos).block]]
  /\ UNCHANGED <<isExplicit, tailIndex, counters, tailBlock, blockVars, indexVars, producer, alive>>

\* Mutant: every flag of the block is set.
SetManyEmptyAll(c) ==
  LET me == consumer[c] IN
  /\ me.pc = "empty" /\ isExplicit
  /\ emptyFlags' = [emptyFlags EXCEPT ![me.block] = Offsets]
  /\ consumer' = [consumer EXCEPT ![c] = Onward(me)]
  /\ UNCHANGED <<isExplicit, tailIndex, counters, tailBlock, data, next, elementsCompletelyDequeued, where, indexVars, producer, alive>>

\* set_many_empty<explicit_context>: the flags tell the producer.
SetManyEmpty(c) ==
  LET me == consumer[c] IN
  /\ me.pc = "empty" /\ isExplicit
  /\ emptyFlags' = [emptyFlags EXCEPT ![me.block] = @ \cup {Offset(i) : i \in InBlock(me)}]
  /\ consumer' = [consumer EXCEPT ![c] = Onward(me)]
  /\ UNCHANGED <<isExplicit, tailIndex, counters, tailBlock, data, next, elementsCompletelyDequeued, where, indexVars, producer, alive>>

\* set_many_empty<implicit_context>: the one who completes the count frees the block.
CountManyEmpty(c) ==
  LET me == consumer[c]
      total == elementsCompletelyDequeued[me.block] + EndInBlock(me) - me.index
  IN /\ me.pc = "empty" /\ ~isExplicit
     /\ elementsCompletelyDequeued' = [elementsCompletelyDequeued EXCEPT ![me.block] = total]
     /\ consumer' = [consumer EXCEPT ![c] = IF total = BLOCK_SIZE THEN [me EXCEPT !.pc = "unlink"] ELSE Onward(me)]
     /\ UNCHANGED <<isExplicit, tailIndex, counters, tailBlock, data, next, emptyFlags, where, indexVars, producer, alive>>

DequeueUnlink(c) ==
  LET me == consumer[c] IN
  /\ me.pc = "unlink"
  /\ entries' = [entries EXCEPT ![blockIndex[me.header].slots[me.pos + 1]].block = NoBlock]
  /\ consumer' = [consumer EXCEPT ![c].pc = "free"]
  /\ UNCHANGED <<isExplicit, tailIndex, counters, tailBlock, blockVars, blockIndex, slotsUsed, indexFront, producer, alive>>

DequeueFree(c) ==
  LET me == consumer[c] IN
  /\ me.pc = "free"
  /\ where' = [where EXCEPT ![me.block] = "free"]
  /\ consumer' = [consumer EXCEPT ![c] = Onward(me)]
  /\ UNCHANGED <<isExplicit, tailIndex, counters, tailBlock, data, next, emptyFlags, elementsCompletelyDequeued, indexVars, producer, alive>>

DequeueStep(c) ==
  \/ DequeueCount(c) \/ DequeueCheck(c) \/ DequeueGiveBack(c) \/ DequeueClaim(c)
  \/ DequeueLoadIndex(c) \/ DequeueLocate(c) \/ DequeueTake(c)
  \/ SetManyEmpty(c) \/ CountManyEmpty(c) \/ DequeueUnlink(c) \/ DequeueFree(c) \/ DequeueNextBlock(c)
=============================================================================
