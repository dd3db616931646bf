------------------------------ MODULE SubQueue ------------------------------
(***************************************************************************)
(* A producer's part of a ConcurrentQueue: the enqueueing thread, explicit *)
(* (with a token: it keeps its blocks in a ring and reuses them) or        *)
(* implicit (its blocks go back to the free list), and the consumers of    *)
(* ProducerBase.  enqueue() is enqueue_bulk() of one element: both make    *)
(* the same steps in the same order.                                       *)
(***************************************************************************)
EXTENDS ProducerBase

unchangedByProducer == <<isExplicit, counters, consumer, alive>>

Returns == producer' = ProducerIdle

\* enqueue(), enqueue_bulk(count): the blocks that the new elements need first.
Enqueue(mode, count) ==
  LET need == (BaseOf(tailIndex + count - 1) - BaseOf(tailIndex - 1)) \div BLOCK_SIZE IN
  /\ producer.pc = "idle" /\ alive /\ tailIndex + count <= MaxItems
  /\ producer' = [pc |-> IF need = 0 THEN "construct" ELSE "block", mode |-> mode, count |-> count, need |-> need,
                  base |-> BaseOf(tailIndex - 1), first |-> NoBlock, start |-> tailBlock,
                  front |-> indexFront, used |-> slotsUsed]
  /\ UNCHANGED <<unchangedByProducer, tailIndex, tailBlock, blockVars, indexVars>>

\* One more block is there: b, for the elements from base on.
Obtained(b) ==
  [producer EXCEPT !.need = @ - 1, !.base = @ + BLOCK_SIZE, !.first = IF @ = NoBlock THEN b ELSE @,
                   !.pc = IF producer.need = 1 THEN (IF isExplicit THEN "publish" ELSE "construct")
                          ELSE IF isExplicit /\ @ = "block" THEN "block"
                          ELSE IF isExplicit THEN "room" ELSE "block"]
NewBase == producer.base + BLOCK_SIZE
-----------------------------------------------------------------------------
(* The explicit producer *)

WriteEntry(b) ==
  /\ entries' = [entries EXCEPT ![Header.slots[indexFront + 1]] = [base |-> NewBase, block |-> b]]
  /\ indexFront' = (indexFront + 1) % SizeOf(Header)

\* Undo, but keep the blocks that were linked in.
Fail ==
  /\ indexFront' = producer.front /\ slotsUsed' = producer.used
  /\ tailBlock' = IF producer.start = NoBlock THEN producer.first ELSE producer.start
  /\ Returns

\* Mutant: the block ahead is reused without asking.
ReusableAny == isExplicit /\ producer.pc = "block" /\ tailBlock # NoBlock /\ next[tailBlock] # producer.first

Reusable ==
  /\ isExplicit /\ producer.pc = "block" /\ tailBlock # NoBlock
  /\ next[tailBlock] # producer.first /\ IsEmpty(next[tailBlock])

\* "We can re-use the block ahead of us, it's empty!"
Reuse ==
  /\ Reusable
  /\ tailBlock' = next[tailBlock]
  /\ WriteEntry(next[tailBlock])
  /\ producer' = Obtained(next[tailBlock])
  /\ UNCHANGED <<unchangedByProducer, tailIndex, blockVars, blockIndex, slotsUsed>>

\* No block ahead: is there room below the size limit, and in the index?
Room ==
  LET noIndex == blockIndex = <<>> \/ slotsUsed = SizeOf(Header)
      full == Full(NewBase, headIndex)
  IN /\ isExplicit /\ producer.pc \in {"block", "room"} /\ ~Reusable
     /\ IF full \/ (noIndex /\ producer.mode = CannotAlloc)
        THEN Fail
        ELSE /\ producer' = [producer EXCEPT !.pc = IF noIndex THEN "grow" ELSE "requisition"]
             /\ UNCHANGED <<tailBlock, indexFront, slotsUsed>>
     /\ UNCHANGED <<unchangedByProducer, tailIndex, blockVars, blockIndex, entries>>

\* new_block_index: a header twice as large with a copy of the entries, oldest first.
NewBlockIndex ==
  LET old == IF blockIndex = <<>> THEN <<>> ELSE Header.slots
      size == IF blockIndex = <<>> THEN INITIAL_INDEX_SIZE ELSE 2 * Len(old)
      copied(k) == entries[old[((indexFront - slotsUsed + k - 1) % Len(old)) + 1]]
  IN /\ blockIndex' = Append(blockIndex, [front |-> producer.used - 1, slots |-> [k \in 1 .. size |-> Len(entries) + k]])
     /\ entries' = entries \o [k \in 1 .. size |-> IF k <= slotsUsed THEN copied(k)
                                                   ELSE [base |-> INVALID_BLOCK_BASE, block |-> NoBlock]]
     /\ indexFront' = slotsUsed

Grow ==
  /\ isExplicit /\ producer.pc = "grow"
  /\ \/ NewBlockIndex
        /\ producer' = [producer EXCEPT !.pc = "requisition", !.front = producer.used]
        /\ UNCHANGED <<slotsUsed, tailBlock>>
     \/ MayFail("index") /\ Fail /\ UNCHANGED <<blockIndex, entries>>
  /\ UNCHANGED <<unchangedByProducer, tailIndex, blockVars>>

\* A block from the pools is linked in behind the tail block.
Insert(b) ==
  /\ isExplicit /\ producer.pc = "requisition" /\ b \in Requisitioned(producer.mode)
  /\ where' = [where EXCEPT ![b] = "used"]
  /\ emptyFlags' = [emptyFlags EXCEPT ![b] = Offsets]
  /\ next' = IF tailBlock = NoBlock THEN [next EXCEPT ![b] = b]
             ELSE [next EXCEPT ![b] = next[tailBlock], ![tailBlock] = b]
  /\ tailBlock' = b
  /\ slotsUsed' = slotsUsed + 1
  /\ WriteEntry(b)
  /\ producer' = Obtained(b)
  /\ UNCHANGED <<unchangedByProducer, tailIndex, data, elementsCompletelyDequeued, blockIndex>>

InsertFails ==
  /\ isExplicit /\ producer.pc = "requisition" /\ RequisitionFails(producer.mode)
  /\ Fail
  /\ UNCHANGED <<unchangedByProducer, tailIndex, blockVars, blockIndex, entries>>

\* The blocks from b on to the tail block.
UpToTail[b \in Blocks] == {b} \cup (IF b = tailBlock THEN {} ELSE UpToTail[next[b]])

\* The new blocks are marked as in use and the front of the index moves to them.
Publish ==
  /\ producer.pc = "publish"
  /\ ResetEmpty(UpToTail[producer.first])
  /\ blockIndex' = [blockIndex EXCEPT ![Len(blockIndex)].front = (indexFront - 1) % SizeOf(Header)]
  /\ producer' = [producer EXCEPT !.pc = "construct"]
  /\ UNCHANGED <<unchangedByProducer, tailIndex, tailBlock, data, next, where, entries, slotsUsed, indexFront>>
-----------------------------------------------------------------------------
(* The implicit producer *)

\* The blocks allocated so far in this call, oldest first.
FreshCount == (producer.base - BaseOf(tailIndex - 1)) \div BLOCK_SIZE

\* Undo: `inserted` entries, the newest of the index, are emptied and given back, and
\* so are the blocks.
Undo(inserted) ==
  LET ids == {Header.slots[((Header.front - k) % SizeOf(Header)) + 1] : k \in 0 .. inserted - 1}
      bs == {entries[i].block : i \in ids} \ {NoBlock}
  IN /\ IF inserted = 0 THEN UNCHANGED <<blockIndex, entries>>
        ELSE /\ blockIndex' = [blockIndex EXCEPT ![Len(blockIndex)].front = (Header.front - inserted) % SizeOf(Header)]
             /\ entries' = [i \in 1 .. Len(entries) |-> IF i \in ids THEN [entries[i] EXCEPT !.block = NoBlock] ELSE entries[i]]
     /\ where' = [b \in Blocks |-> IF b \in bs THEN "free" ELSE where[b]]
     /\ tailBlock' = producer.start
     /\ Returns

\* insert_block_index_entry: the slot after the newest entry, if its block is gone.
InsertEntry ==
  LET slot == (Header.front + 1) % SizeOf(Header)
      id == Header.slots[slot + 1]
      vacant == entries[id].base = INVALID_BLOCK_BASE \/ entries[id].block = NoBlock
      full == Full(NewBase, headIndex)
  IN /\ ~isExplicit /\ producer.pc = "block"
     /\ IF full \/ blockIndex = <<>> \/ (~vacant /\ producer.mode = CannotAlloc)
        THEN Undo(FreshCount)
        ELSE /\ IF vacant
                THEN /\ entries' = [entries EXCEPT ![id].base = NewBase]
                     /\ blockIndex' = [blockIndex EXCEPT ![Len(blockIndex)].front = slot]
                     /\ producer' = [producer EXCEPT !.pc = "requisition"]
                ELSE producer' = [producer EXCEPT !.pc = "grow"] /\ UNCHANGED <<blockIndex, entries>>
             /\ UNCHANGED <<where, tailBlock>>
     /\ UNCHANGED <<unchangedByProducer, tailIndex, data, next, emptyFlags, elementsCompletelyDequeued, slotsUsed, indexFront>>

\* new_block_index: the entries are shared with the old header, oldest first; then
\* the insertion goes on with the first of the new ones.
GrowImplicit ==
  LET n == SizeOf(Header)
      old == [k \in 1 .. n |-> Header.slots[((Header.front + k) % n) + 1]]
  IN /\ ~isExplicit /\ producer.pc = "grow"
     /\ \/ /\ NewHeader(old, 2 * n, n - 1)
           /\ producer' = [producer EXCEPT !.pc = "block"]
           /\ UNCHANGED <<where, tailBlock>>
        \/ MayFail("index") /\ Undo(FreshCount)
     /\ UNCHANGED <<unchangedByProducer, tailIndex, data, next, emptyFlags, elementsCompletelyDequeued, slotsUsed, indexFront>>

\* Mutant: the counter of a block that was used before is left as it is.
AttachDirty(b) ==
  LET chained == Offset(tailIndex) # 0 \/ producer.first # NoBlock IN
  /\ ~isExplicit /\ producer.pc = "requisition" /\ b \in Requisitioned(producer.mode)
  /\ where' = [where EXCEPT ![b] = "used"]
  /\ next' = IF chained THEN [next EXCEPT ![b] = NoBlock, ![tailBlock] = b] ELSE [next EXCEPT ![b] = NoBlock]
  /\ entries' = [entries EXCEPT ![Header.slots[Header.front + 1]].block = b]
  /\ tailBlock' = b
  /\ producer' = Obtained(b)
  /\ UNCHANGED <<unchangedByProducer, tailIndex, data, emptyFlags, elementsCompletelyDequeued, blockIndex, slotsUsed, indexFront>>

Attach(b) ==
  LET chained == Offset(tailIndex) # 0 \/ producer.first # NoBlock IN
  /\ ~isExplicit /\ producer.pc = "requisition" /\ b \in Requisitioned(producer.mode)
  /\ where' = [where EXCEPT ![b] = "used"]
  /\ ResetEmpty({b})
  /\ next' = IF chained THEN [next EXCEPT ![b] = NoBlock, ![tailBlock] = b] ELSE [next EXCEPT ![b] = NoBlock]
  /\ entries' = [entries EXCEPT ![Header.slots[Header.front + 1]].block = b]
  /\ tailBlock' = b
  /\ producer' = Obtained(b)
  /\ UNCHANGED <<unchangedByProducer, tailIndex, data, blockIndex, slotsUsed, indexFront>>

\* Mutant: the blocks of this call are given back, the index keeps their entries.
AttachFailsKept ==
  /\ ~isExplicit /\ producer.pc = "requisition" /\ RequisitionFails(producer.mode)
  /\ Undo(FreshCount)
  /\ UNCHANGED <<unchangedByProducer, tailIndex, data, next, emptyFlags, elementsCompletelyDequeued, slotsUsed, indexFront>>

AttachFails ==
  /\ ~isExplicit /\ producer.pc = "requisition" /\ RequisitionFails(producer.mode)
  /\ Undo(FreshCount + 1)
  /\ UNCHANGED <<unchangedByProducer, tailIndex, data, next, emptyFlags, elementsCompletelyDequeued, slotsUsed, indexFront>>
-----------------------------------------------------------------------------
\* The block k blocks behind b.
Behind(b, k) == LET at[j \in Nat] == IF j = 0 THEN b ELSE next[at[j - 1]] IN at[k]

\* The elements are constructed, block after block, from the old tail on.
Construct ==
  LET from == IF Offset(tailIndex) = 0 THEN producer.first ELSE producer.start
      target(i) == Behind(from, (BaseOf(i) - BaseOf(tailIndex)) \div BLOCK_SIZE)
      fresh == {<<target(i), Offset(i), i>> : i \in tailIndex .. tailIndex + producer.count - 1}
  IN /\ producer.pc = "construct"
     /\ data' = [b \in Blocks |-> [o \in Offsets |->
          IF \E x \in fresh : x[1] = b /\ x[2] = o
          THEN (CHOOSE x \in fresh : x[1] = b /\ x[2] = o)[3] ELSE data[b][o]]]
     /\ producer' = [producer EXCEPT !.pc = "tail"]
     /\ UNCHANGED <<unchangedByProducer, tailIndex, tailBlock, next, emptyFlags, elementsCompletelyDequeued, where, indexVars>>

StoreTail ==
  /\ producer.pc = "tail"
  /\ tailIndex' = tailIndex + producer.count
  /\ Returns
  /\ UNCHANGED <<unchangedByProducer, tailBlock, blockVars, indexVars>>

ProducerStep ==
  \/ Reuse \/ Room \/ Grow \/ (\E b \in Blocks : Insert(b)) \/ InsertFails \/ Publish
  \/ InsertEntry \/ GrowImplicit \/ (\E b \in Blocks : Attach(b)) \/ AttachFails
  \/ Construct \/ StoreTail
-----------------------------------------------------------------------------
\* The destructors destroy `doomed`, pairs of a block and an offset; one that holds
\* no element would show.
Quiet == producer.pc = "idle" /\ \A c \in Consumers : consumer[c].pc = "idle"
Garbage == -2
DestroyElements(doomed) ==
  data' = [b \in Blocks |-> [o \in Offsets |->
    IF <<b, o>> \notin doomed THEN data[b][o] ELSE IF data[b][o] = NoElement THEN Garbage ELSE NoElement]]

Ring == IF tailBlock = NoBlock THEN {} ELSE UpToTail[next[tailBlock]]

\* Mutant: the block that is partly dequeued is destroyed from its start.
HalfDequeuedNone == NoBlock

\* The block, found through the index, that is partly dequeued.
HalfDequeued ==
  IF Offset(headIndex) = 0 THEN NoBlock
  ELSE LET at(k) == EntryAt(Header, indexFront - slotsUsed + k)
           k0 == CHOOSE k \in 0 .. slotsUsed : at(k).base + BLOCK_SIZE >= headIndex /\ \A j \in 0 .. k - 1 : at(j).base + BLOCK_SIZE < headIndex
       IN at(k0).block

DestroyExplicit ==
  LET from(b) == IF b = HalfDequeued THEN Offset(headIndex) ELSE 0
      to(b) == IF b = tailBlock /\ Offset(tailIndex) # 0 THEN Offset(tailIndex) ELSE BLOCK_SIZE
      full == {b \in Ring : ~IsEmpty(b)}
  IN /\ isExplicit /\ Quiet /\ alive
     /\ DestroyElements({x \in full \X Offsets : from(x[1]) <= x[2] /\ x[2] < to(x[1])})
     /\ where' = [b \in Blocks |-> IF b \notin Ring THEN where[b] ELSE IF b <= InitialBlockPoolSize THEN "free" ELSE "deleted"]
     /\ alive' = FALSE
     /\ UNCHANGED <<isExplicit, tailIndex, counters, tailBlock, next, emptyFlags, elementsCompletelyDequeued, indexVars, producer, consumer>>

\* The block of element i according to the index as it is.
BlockOf(i) == EntryAt(Header, Located(Header, Header.front, i)).block

DestroyImplicit ==
  LET left == headIndex .. tailIndex - 1
      last == IF tailBlock # NoBlock /\ (left # {} \/ Offset(tailIndex) # 0) THEN {tailBlock} ELSE {}
  IN /\ ~isExplicit /\ Quiet /\ alive
     /\ DestroyElements({<<BlockOf(i), Offset(i)>> : i \in left})
     /\ where' = [b \in Blocks |-> IF b \in last \cup {BlockOf(i) : i \in {j \in left : BaseOf(j) # BaseOf(tailIndex - 1)}}
                                   THEN "free" ELSE where[b]]
     /\ alive' = FALSE
     /\ UNCHANGED <<isExplicit, tailIndex, counters, tailBlock, next, emptyFlags, elementsCompletelyDequeued, indexVars, producer, consumer>>

Next ==
  \/ \E mode \in {CanAlloc, CannotAlloc}, count \in 1 .. (IF isExplicit THEN ExplicitMaxBulk ELSE ImplicitMaxBulk) : Enqueue(mode, count)
  \/ ProducerStep
  \/ \E c \in Consumers : (\E max \in DequeueMaxima : Dequeue(c, max)) \/ DequeueStep(c)
  \/ DestroyExplicit \/ DestroyImplicit

Spec == Init /\ [][Next]_vars
-----------------------------------------------------------------------------
\* A call never claims an element that is not there ("this will never exceed tail"),
\* however many calls have counted themselves in and out meanwhile.
HeadWithinTail == headIndex <= tailIndex

\* What a consumer finds through the index is the block with its elements, though
\* blocks are reused and the index is rewritten and replaced meanwhile.
ClaimedFound ==
  \A c \in Consumers : consumer[c].pc = "take" =>
    /\ consumer[c].block # NoBlock
    /\ \A i \in InBlock(consumer[c]) : data[consumer[c].block][Offset(i)] = i

\* "Guaranteed to be room since we're conceptually removing the last block from it
\* first": writing a block into an explicit producer's index overwrites no entry that
\* is needed, so that every element can be found through the published index.
IndexHasRoom ==
  isExplicit /\ alive => \A i \in headIndex .. tailIndex - 1 :
    EntryAt(Header, Located(Header, Header.front, i)).base = BaseOf(i)

\* The assertions: an element is marked dequeued once, a block's counter does not
\* exceed the block, the count read is not below the overcommit read before it, the
\* newly created index has room.
AssertionsHold ==
  /\ \A c \in Consumers :
       LET me == consumer[c] IN
       /\ me.pc = "empty" /\ isExplicit => \A i \in InBlock(me) : Offset(i) \notin emptyFlags[me.block]
       /\ me.pc = "empty" /\ ~isExplicit =>
            elementsCompletelyDequeued[me.block] + EndInBlock(me) - me.index <= BLOCK_SIZE
       /\ me.pc = "check" => me.overcommit <= me.mine
       /\ me.pc = "locate" /\ ~isExplicit =>
            EntryAt(blockIndex[me.header], Located(blockIndex[me.header], me.front, me.index)).base = BaseOf(me.index)
  /\ producer.pc \in {"block", "room"} => headIndex <= NewBase

\* Once all dequeueing calls have returned, what they counted themselves in for is
\* what they took: no later call is told that the queue is empty when it is not.
CountsSettle ==
  (\A c \in Consumers : consumer[c].pc = "idle") => dequeueOptimisticCount - dequeueOvercommit = headIndex

\* The counters by which consumers claim elements, without looking at them, agree with
\* what is there.
CountersAgree == HeadWithinTail /\ CountsSettle

\* Consumers work in the blocks their elements are in, and account for them correctly.
BlocksFound == ClaimedFound /\ AssertionsHold

\* No block is lost: between calls an explicit producer's blocks are those of its ring,
\* an implicit producer's those that hold elements, and its tail block.
NoBlockLost ==
  Quiet /\ alive =>
    InPlace("used") = IF isExplicit THEN Ring
                      ELSE {BlockOf(i) : i \in headIndex .. tailIndex - 1}
                             \cup (IF Offset(tailIndex) = 0 THEN {} ELSE {tailBlock})

\* The destructor destroys the elements that are left, each once and no other, and
\* every block goes back.
DestroyedClean ==
  ~alive => InPlace("used") = {} /\ \A b \in Blocks, o \in Offsets : data[b][o] = NoElement

\* Blocks and elements come back, after failed calls and at the end.
BlocksReturn == NoBlockLost /\ DestroyedClean

Contents == [k \in 1 .. tailIndex - headIndex |-> data[BlockOf(headIndex + k - 1)][Offset(headIndex + k - 1)]]

Queue == INSTANCE Fifo WITH Capacity <- MAX_SUBQUEUE_SIZE,
                            sent <- [k \in 1 .. tailIndex |-> k - 1],
                            queue <- IF alive THEN Contents ELSE <<>>

\* The elements of one producer leave in the order in which they entered, each of
\* them once, and no more than MAX_SUBQUEUE_SIZE are inside.
ImplementsFifo == Queue!Spec
=============================================================================
