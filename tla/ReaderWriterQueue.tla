------------------------- MODULE ReaderWriterQueue --------------------------
(***************************************************************************)
(* moodycamel::ReaderWriterQueue: one producer thread, one consumer        *)
(* thread and a ring of blocks, each of them a ring of slots.  A step has  *)
(* at most one access to what the other thread writes (tail and next of a  *)
(* block and tailBlock: the producer; front and frontBlock: the consumer). *)
(* Elements are numbered in the order in which they are enqueued.          *)
(***************************************************************************)
EXTENDS Integers, Sequences, FiniteSets

CONSTANTS MAX_BLOCK_SIZE,
          MaxSizes,     \* values of the constructor's maxSize
          MaxItems,     \* bound: elements ever enqueued
          MaxAllocs     \* bound: blocks allocated after construction

ASSUME BlockSizeAssumption == MAX_BLOCK_SIZE \in Nat \ {0, 1}

ASSUME ConstantsAssumption ==
  /\ MaxItems \in Nat /\ MaxAllocs \in Nat
  /\ MaxSizes \in SUBSET (Nat \ {0})

VARIABLES
  blocks,        \* block number |-> front, tail, localFront, localTail, next, data
  frontBlock, tailBlock, largestBlockSize,
  maxSize,       \* what the constructor was asked for
  alive,         \* the queue has not been destroyed
  cpc, cop, cblk, cidx, cresult,   \* the consumer: step, call, block, slot, answer
  ppc, pop, pblk,         \* the producer: step, call, block
  walk,          \* thread |-> where its size_approx() is
  sent,          \* history: the elements enqueued so far
  atCall         \* history: thread |-> elements inside when its call began

queueVars == <<blocks, frontBlock, tailBlock, largestBlockSize>>
consumerVars == <<cpc, cop, cblk, cidx, cresult>>
producerVars == <<ppc, pop, pblk>>
history == <<maxSize, sent, atCall>>
innerVars == <<queueVars, consumerVars, producerVars, walk, alive, history>>

NoElement == 0
NotWalking == [pc |-> "idle", start |-> 1, blk |-> 1, front |-> 0, sum |-> 0]
CanAlloc == "enqueue"
CannotAlloc == "try_enqueue"

Size(b) == Len(blocks[b].data)
Slot(b, i) == blocks[b].data[i + 1]
Following(b, i) == (i + 1) % Size(b)
Count(b) == (blocks[b].tail - blocks[b].front) % Size(b)

\* The smallest power of two that is not below n.
CeilToPow2(n) == CHOOSE p \in {2^k : k \in 0 .. n} : p >= n /\ (p = 1 \/ p \div 2 < n)

\* What a recursive power of two puts beyond the provers.
ASSUME CeilAssumption == \A n \in MaxSizes : CeilToPow2(n + 1) \in Nat /\ CeilToPow2(n + 1) > n

\* A block whose memory has been given back.
Freed == [front |-> 0, tail |-> 0, localFront |-> 0, localTail |-> 0, next |-> 0, data |-> <<>>]

MakeBlock(capacity, next) ==
  [front |-> 0, tail |-> 0, localFront |-> 0, localTail |-> 0, next |-> next,
   data |-> [i \in 1 .. capacity |-> NoElement]]

\* Mutant: no spare block for a consumer that has not left an empty one yet.
InitialBlocksTight(n) ==
  LET size == CeilToPow2(n + 1)
      count == (n + MAX_BLOCK_SIZE - 2) \div (MAX_BLOCK_SIZE - 1)
  IN IF size > MAX_BLOCK_SIZE * 2
     THEN [i \in 1 .. count |-> MakeBlock(MAX_BLOCK_SIZE, (i % count) + 1)]
     ELSE <<MakeBlock(size, 1)>>

\* The constructor: one block with a spare slot, or a ring with a spare block.
InitialBlocks(n) ==
  LET size == CeilToPow2(n + 1)
      count == (n + MAX_BLOCK_SIZE * 2 - 3) \div (MAX_BLOCK_SIZE - 1)
  IN IF size > MAX_BLOCK_SIZE * 2
     THEN [i \in 1 .. count |-> MakeBlock(MAX_BLOCK_SIZE, (i % count) + 1)]
     ELSE <<MakeBlock(size, 1)>>

Init ==
  /\ maxSize \in MaxSizes
  /\ blocks = InitialBlocks(maxSize)
  /\ frontBlock = 1 /\ tailBlock = 1
  /\ largestBlockSize = Size(1)
  /\ alive = TRUE
  /\ cpc = "idle" /\ cop = "try_dequeue" /\ cblk = 1 /\ cidx = 0 /\ cresult = NoElement
  /\ ppc = "idle" /\ pop = CanAlloc /\ pblk = 1
  /\ walk = [t \in {"producer", "consumer"} |-> NotWalking]
  /\ sent = <<>>
  /\ atCall = [t \in {"producer", "consumer"} |-> 0]

\* The blocks of the ring; a new one is not among them before it is linked in.
InRing == (1 .. Len(blocks)) \ (IF ppc = "link" THEN {pblk} ELSE {})

\* The blocks that a walk along next from b meets before it is back at frontBlock.
BlocksFrom(b) ==
  {x \in 1 .. Len(blocks) :
     \A S \in SUBSET (1 .. Len(blocks)) :
       b \in S /\ (\A y \in S : blocks[y].next \in S \cup {frontBlock}) => x \in S}

\* The slots between front and tail, and what is inside: their elements, oldest
\* first.  That this is the order in which they leave is for ImplementsFifo to say.
SlotsOf(b) == {i \in 0 .. Size(b) - 1 : (i - blocks[b].front) % Size(b) < Count(b)}
Occupied == UNION {{b} \X SlotsOf(b) : b \in InRing}
Held(s) == Slot(s[1], s[2])
Contents ==
  IF alive
  THEN [k \in 1 .. Cardinality(Occupied) |->
         CHOOSE e \in {Held(s) : s \in Occupied} : Cardinality({s \in Occupied : Held(s) <= e}) = k]
  ELSE <<>>

\* How many elements there are, of those whose enqueue has returned.
Settled == Len(Contents) - (IF ppc = "advance" THEN 1 ELSE 0)
Inside == Len(Contents)
-----------------------------------------------------------------------------
ConsumerReturns ==
  /\ cpc' = "idle" /\ cblk' = 1 /\ cidx' = 0 /\ cresult' = NoElement /\ cop' = "try_dequeue"
  /\ atCall' = [atCall EXCEPT !["consumer"] = 0]

\* try_dequeue(), pop() and peek() start alike: the consumer's copy of the tail, and
\* the tail itself when that says empty.
Dequeue(op) ==
  LET b == blocks[frontBlock]
      tail == IF b.front # b.localTail THEN b.localTail ELSE b.tail
  IN /\ cpc = "idle" /\ walk["consumer"] = NotWalking /\ alive
     /\ cop' = op /\ cblk' = frontBlock /\ cidx' = b.front
     /\ blocks' = [blocks EXCEPT ![frontBlock].localTail = tail]
     /\ cpc' = IF b.front # tail THEN "take" ELSE "look"
     /\ atCall' = [atCall EXCEPT !["consumer"] = Settled]
     /\ UNCHANGED <<frontBlock, tailBlock, largestBlockSize, cresult, producerVars, walk, alive, maxSize, sent>>

DequeueLoadTailBlock ==
  /\ cpc = "look"
  /\ IF cblk = tailBlock THEN ConsumerReturns
     ELSE cpc' = "recheck" /\ UNCHANGED <<cop, cblk, cidx, cresult, atCall>>
  /\ UNCHANGED <<queueVars, producerVars, walk, alive, maxSize, sent>>

\* Mutant: the front block is taken to be still empty.
DequeueRecheckSkipped ==
  /\ cpc = "recheck"
  /\ cpc' = "next"
  /\ UNCHANGED <<queueVars, cop, cblk, cidx, cresult, producerVars, walk, alive, history>>

\* Only now is the front block known to stay empty, if it is empty.
DequeueRecheck ==
  LET b == blocks[cblk] IN
  /\ cpc = "recheck"
  /\ blocks' = [blocks EXCEPT ![cblk].localTail = b.tail]
  /\ cpc' = IF b.front # b.tail THEN "take" ELSE "next"
  /\ UNCHANGED <<frontBlock, tailBlock, largestBlockSize, cop, cblk, cidx, cresult, producerVars, walk, alive, history>>

DequeueLoadNext ==
  /\ cpc = "next"
  /\ cblk' = blocks[cblk].next
  /\ cpc' = "enter"
  /\ UNCHANGED <<queueVars, cop, cidx, cresult, producerVars, walk, alive, history>>

\* The front and the tail of the next block; peek() leaves the block as it is.
DequeueEnter ==
  LET b == blocks[cblk] IN
  /\ cpc = "enter"
  /\ cidx' = b.front
  /\ blocks' = IF cop = "peek" THEN blocks ELSE [blocks EXCEPT ![cblk].localTail = b.tail]
  /\ cpc' = IF cop = "peek" THEN "take" ELSE "move"
  /\ UNCHANGED <<frontBlock, tailBlock, largestBlockSize, cop, cblk, cresult, producerVars, walk, alive, history>>

DequeueStoreFrontBlock ==
  /\ cpc = "move"
  /\ frontBlock' = cblk
  /\ cpc' = "take"
  /\ UNCHANGED <<blocks, tailBlock, largestBlockSize, cop, cblk, cidx, cresult, producerVars, walk, alive, history>>

\* The element is moved out; peek() only returns where it is.
DequeueTake ==
  /\ cpc = "take"
  /\ IF cop = "peek" THEN ConsumerReturns
     ELSE cresult' = Slot(cblk, cidx) /\ cpc' = "release" /\ UNCHANGED <<cop, cblk, cidx, atCall>>
  /\ UNCHANGED <<queueVars, producerVars, walk, alive, maxSize, sent>>

\* The slot, whose element is destroyed, is given to the producer.
DequeueRelease ==
  /\ cpc = "release"
  /\ blocks' = [blocks EXCEPT ![cblk].front = Following(cblk, cidx), ![cblk].data[cidx + 1] = NoElement]
  /\ ConsumerReturns
  /\ UNCHANGED <<frontBlock, tailBlock, largestBlockSize, producerVars, walk, alive, maxSize, sent>>

ConsumerStep ==
  \/ DequeueLoadTailBlock \/ DequeueRecheck \/ DequeueLoadNext \/ DequeueEnter
  \/ DequeueStoreFrontBlock \/ DequeueTake \/ DequeueRelease
-----------------------------------------------------------------------------
ProducerReturns ==
  ppc' = "idle" /\ pblk' = 1 /\ pop' = CanAlloc /\ atCall' = [atCall EXCEPT !["producer"] = 0]

\* inner_enqueue<op>: the producer's copy of the front, and the front itself when
\* that says full.
InnerEnqueue(op) ==
  LET b == blocks[tailBlock]
      next == Following(tailBlock, b.tail)
      front == IF next # b.localFront THEN b.localFront ELSE b.front
  IN /\ ppc = "idle" /\ walk["producer"] = NotWalking /\ alive /\ Len(sent) < MaxItems
     /\ pop' = op /\ pblk' = tailBlock
     /\ blocks' = [blocks EXCEPT ![tailBlock].localFront = front]
     /\ ppc' = IF next # front THEN "place" ELSE "full"
     /\ atCall' = [atCall EXCEPT !["producer"] = Inside]
     /\ UNCHANGED <<frontBlock, tailBlock, largestBlockSize, consumerVars, walk, alive, maxSize, sent>>

\* Mutant: any other block will do, the front block too.
EnqueueCheckNextAny ==
  /\ ppc = "full"
  /\ ppc' = IF blocks[tailBlock].next # tailBlock THEN "ahead" ELSE "alloc"
  /\ UNCHANGED <<queueVars, pop, pblk, consumerVars, walk, alive, history>>

\* The tail block is full: is there a block ahead that is not the front block?
EnqueueCheckNext ==
  LET room == blocks[tailBlock].next # frontBlock IN
  /\ ppc = "full"
  /\ IF room \/ pop = CanAlloc
     THEN ppc' = (IF room THEN "ahead" ELSE "alloc") /\ UNCHANGED <<pop, pblk, atCall>>
     ELSE ProducerReturns
  /\ UNCHANGED <<queueVars, consumerVars, walk, alive, maxSize, sent>>

EnqueueAhead ==
  LET n == blocks[tailBlock].next IN
  /\ ppc = "ahead"
  /\ pblk' = n
  /\ blocks' = [blocks EXCEPT ![n].localFront = blocks[n].front]
  /\ ppc' = "place"
  /\ UNCHANGED <<frontBlock, tailBlock, largestBlockSize, pop, consumerVars, walk, alive, history>>

EnqueuePlace ==
  /\ ppc = "place"
  /\ blocks' = [blocks EXCEPT ![pblk].data[blocks[pblk].tail + 1] = Len(sent) + 1]
  /\ ppc' = "publish"
  /\ UNCHANGED <<frontBlock, tailBlock, largestBlockSize, pop, pblk, consumerVars, walk, alive, history>>

EnqueueStoreTail ==
  /\ ppc = "publish"
  /\ blocks' = [blocks EXCEPT ![pblk].tail = Following(pblk, @)]
  /\ sent' = Append(sent, Len(sent) + 1)
  /\ IF pblk = tailBlock THEN ProducerReturns
     ELSE ppc' = "advance" /\ UNCHANGED <<pop, pblk, atCall>>
  /\ UNCHANGED <<frontBlock, tailBlock, largestBlockSize, consumerVars, walk, alive, maxSize>>

EnqueueAllocFails ==
  /\ ppc = "alloc"
  /\ ProducerReturns
  /\ UNCHANGED <<queueVars, consumerVars, walk, alive, maxSize, sent>>

\* A new block, filled in before anybody can reach it.
EnqueueAlloc ==
  LET size == IF largestBlockSize >= MAX_BLOCK_SIZE THEN largestBlockSize ELSE largestBlockSize * 2
      fresh == MakeBlock(size, blocks[tailBlock].next)
  IN /\ ppc = "alloc" /\ Len(blocks) < Len(InitialBlocks(maxSize)) + MaxAllocs
     /\ blocks' = Append(blocks, [fresh EXCEPT !.tail = 1, !.localTail = 1, !.data[1] = Len(sent) + 1])
     /\ largestBlockSize' = size
     /\ pblk' = Len(blocks) + 1
     /\ ppc' = "link"
     /\ UNCHANGED <<frontBlock, tailBlock, pop, consumerVars, walk, alive, history>>

EnqueueLink ==
  /\ ppc = "link"
  /\ blocks' = [blocks EXCEPT ![tailBlock].next = pblk]
  /\ sent' = Append(sent, Len(sent) + 1)
  /\ ppc' = "advance"
  /\ UNCHANGED <<frontBlock, tailBlock, largestBlockSize, pop, pblk, consumerVars, walk, alive, maxSize, atCall>>

EnqueueStoreTailBlock ==
  /\ ppc = "advance"
  /\ tailBlock' = pblk
  /\ ProducerReturns
  /\ UNCHANGED <<blocks, frontBlock, largestBlockSize, consumerVars, walk, alive, maxSize, sent>>

ProducerStep ==
  \/ EnqueueCheckNext \/ EnqueueAhead \/ EnqueuePlace \/ EnqueueStoreTail
  \/ EnqueueAllocFails \/ EnqueueAlloc \/ EnqueueLink \/ EnqueueStoreTailBlock
-----------------------------------------------------------------------------
\* size_approx(), by either thread between its other calls.
SizeApprox(t) ==
  /\ walk[t] = NotWalking /\ alive
  /\ IF t = "consumer" THEN cpc = "idle" ELSE ppc = "idle"
  /\ walk' = [walk EXCEPT ![t] = [pc |-> "front", start |-> frontBlock, blk |-> frontBlock, front |-> 0, sum |-> 0]]
  /\ atCall' = [atCall EXCEPT ![t] = Inside]
  /\ UNCHANGED <<queueVars, consumerVars, producerVars, alive, maxSize, sent>>

SizeLoadFront(t) ==
  /\ walk[t].pc = "front"
  /\ walk' = [walk EXCEPT ![t].pc = "tail", ![t].front = blocks[walk[t].blk].front]
  /\ UNCHANGED <<queueVars, consumerVars, producerVars, alive, history>>

\* Mutant: a full lap of the tail is not folded back.
SizeLoadTailUnmasked(t) ==
  LET b == walk[t].blk IN
  /\ walk[t].pc = "tail"
  /\ walk' = [walk EXCEPT ![t].pc = "next", ![t].sum = @ + blocks[b].tail - walk[t].front]
  /\ UNCHANGED <<queueVars, consumerVars, producerVars, alive, history>>

SizeLoadTail(t) ==
  LET b == walk[t].blk IN
  /\ walk[t].pc = "tail"
  /\ walk' = [walk EXCEPT ![t].pc = "next", ![t].sum = @ + ((blocks[b].tail - walk[t].front) % Size(b))]
  /\ UNCHANGED <<queueVars, consumerVars, producerVars, alive, history>>

SizeLoadNext(t) ==
  LET n == blocks[walk[t].blk].next
      done == n = walk[t].start
  IN /\ walk[t].pc = "next"
     /\ walk' = [walk EXCEPT ![t] = IF done THEN NotWalking ELSE [@ EXCEPT !.blk = n, !.pc = "front"]]
     /\ atCall' = IF done THEN [atCall EXCEPT ![t] = 0] ELSE atCall
     /\ UNCHANGED <<queueVars, consumerVars, producerVars, alive, maxSize, sent>>

SizeStep(t) == SizeLoadFront(t) \/ SizeLoadTail(t) \/ SizeLoadNext(t)

\* A block after the destructor: if there is something it did not destroy, that shows.
Destroyed(b) ==
  IF \A i \in 0 .. Size(b) - 1 : i \in SlotsOf(b) <=> Slot(b, i) # NoElement THEN Freed ELSE blocks[b]

\* Mutant: the loop stops at the tail block.
DestroyToTail ==
  LET gone == (BlocksFrom(frontBlock) \ BlocksFrom(tailBlock)) \cup {tailBlock} IN
  /\ cpc = "idle" /\ ppc = "idle" /\ alive
  /\ \A t \in DOMAIN walk : walk[t] = NotWalking
  /\ alive' = FALSE
  /\ blocks' = [b \in 1 .. Len(blocks) |-> IF b \in gone THEN Destroyed(b) ELSE blocks[b]]
  /\ UNCHANGED <<frontBlock, tailBlock, largestBlockSize, consumerVars, producerVars, walk, history>>

\* ~ReaderWriterQueue(), when both threads have finished: round the ring once,
\* destroying the elements of every block and the block.
Destroy ==
  LET gone == BlocksFrom(frontBlock) IN
  /\ cpc = "idle" /\ ppc = "idle" /\ alive
  /\ \A t \in DOMAIN walk : walk[t] = NotWalking
  /\ alive' = FALSE
  /\ blocks' = [b \in 1 .. Len(blocks) |-> IF b \in gone THEN Destroyed(b) ELSE blocks[b]]
  /\ UNCHANGED <<frontBlock, tailBlock, largestBlockSize, consumerVars, producerVars, walk, history>>

DequeueCalls == {"try_dequeue", "pop", "peek"}

Next ==
  \/ \E op \in DequeueCalls : Dequeue(op)
  \/ ConsumerStep
  \/ \E op \in {CanAlloc, CannotAlloc} : InnerEnqueue(op)
  \/ ProducerStep
  \/ \E t \in DOMAIN walk : SizeApprox(t) \/ SizeStep(t)
  \/ Destroy

Spec == Init /\ [][Next]_innerVars
-----------------------------------------------------------------------------
\* The two assertions about the block ahead: the one the consumer moves to is not
\* empty ("tailBlock is only ever advanced after being written to"), the one the
\* producer moves to is ("we go through the blocks in a circle").
AssertionsHold ==
  /\ cpc = "enter" => Count(cblk) # 0
  /\ ppc = "ahead" => Count(blocks[tailBlock].next) = 0

\* An element is constructed only where there is none, and the one that is moved
\* out, or that peek() points to, is the oldest: the threads never meet in a slot.
SlotsExclusive ==
  /\ ppc = "place" => Slot(pblk, blocks[pblk].tail) = NoElement
  /\ cpc = "take" => Contents # <<>> /\ Slot(cblk, cidx) = Head(Contents)
  /\ cpc = "release" => Contents # <<>> /\ cresult = Head(Contents)

\* false from try_dequeue, pop or peek: nothing that had been enqueued before the
\* call was inside.  false from try_enqueue: at least maxSize elements were ("can
\* hold maxSize elements without further allocations").
AnswersHonest ==
  [][/\ cpc = "look" /\ cpc' = "idle" => atCall["consumer"] = 0
     /\ ppc = "full" /\ ppc' = "idle" => atCall["producer"] >= maxSize]_innerVars

\* size_approx: to the consumer, no less than there was at the call and no more
\* than there is at the return; to the producer the other way round.
SizeBounds ==
  [][\A t \in DOMAIN walk : walk[t].pc = "next" /\ walk'[t].pc = "idle" =>
       IF t = "consumer" THEN atCall[t] <= walk[t].sum /\ walk[t].sum <= Inside
       ELSE Inside <= walk[t].sum /\ walk[t].sum <= atCall[t]]_innerVars

\* The destructor destroys every element that is left, and frees every block.
NothingLeaks == ~alive => \A b \in 1 .. Len(blocks) : blocks[b] = Freed

\* The memory of the queue is used by one thread at a time, and given back.
MemorySound == SlotsExclusive /\ NothingLeaks

\* What the calls answer was true of the queue at some time during the call.
AnswersTrue == AnswersHonest /\ SizeBounds

Queue == INSTANCE Fifo WITH Capacity <- MaxItems, queue <- Contents

\* Elements leave in the order in which they entered, each of them once.
ImplementsFifo == Queue!Spec
=============================================================================
