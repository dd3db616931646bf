# keryx: verification

TLA+ models of the two working parts of keryx - the shared-memory ring buffer
and the in-process broker - and of the queues it ships under
`externals/include`, with TLC runs on small instances and TLAPS proofs of the
ring, the broker, the bounded queue, the blocking reader-writer queue, the free
list, the producer registry, the rotation of consumers and the counters of a
producer for every instance.

## The system

| Component | State | Operations | What is hard |
|---|---|---|---|
| Ring buffer (`lib/ring_buffer/ring_buffer.h`) | slots of an atomic header {sn, sz} and 56 plain bytes; the writer's slot and sequence number; per reader the expected number, its slot and its last result | `RingBuffer::write`, `RingBufferReader::read_next` | one writer and many readers without a lock: the bytes race; the writer laps readers; `uint32_t` numbers wrap |
| Broker (`lib/broker/OldBroker`) | vectors of producers and consumers, a queue of actions | `make_`/`destroy_` producer and consumer, `publish`, `do_work`, destructor | handlers run inside loops over the vectors and may call the API; they may throw; raw pointers in queue and lists; order of destruction |
| `ProducerImpl`, `ConsumerImpl` | list of connected consumers; filter and handler | `init`, `maybe_add`, `maybe_remove`, `publish`, destructor | each pair connected once, whoever comes last; STOP sent by a destructor |
| `Producer`, `Consumer` handles | references to the above | constructors, destructors, `publish` | life times that overlap in any way |
| Router (`lib/router`) | streams, neighbours | declared; two bodies exist | does not compile, calls functions that are not there |
| `mpmc_bounded_queue` | cells with sequence numbers, two positions | `enqueue`, `dequeue`, `approx_size` | any number of threads without a lock; answers from values read at different times |
| `ReaderWriterQueue` | a ring of blocks, each a ring of slots | `try_enqueue`, `enqueue`, `try_dequeue`, `peek`, `pop`, `size_approx`, destructor | both sides move through blocks the other is leaving; allocation fails half-way |
| `BlockingReaderWriterQueue`, `LightweightSemaphore` | the above, a count, a system semaphore | the same, `wait_dequeue`, `wait_dequeue_timed` | lost wake-ups; a time-out racing a signal |
| `ConcurrentQueue`: free list | list of nodes with reference counts | `add`, `try_get` | ABA; a node added while stale readers hold it |
| `ConcurrentQueue`: producers | head and tail index, two dequeue counters, blocks, block index | `enqueue`, `dequeue`, bulk versions, destructors | consumers claim before they look; blocks and index entries are reused; bulks fail half-way |
| `ConcurrentQueue`: producer list and hash | list of producers, chain of hash tables from thread to producer | tokens, `get_or_add_implicit_producer`, recycling | the hash grows while others look up and insert |
| `ConcurrentQueue`: choice of a producer | a global offset; per token place, count, offset | `try_dequeue...`, `update_current_producer_after_rotation` | producers appear while consumers go round |
| Snapshot handlers, allocators, type lists, benchmarks, `expected.hpp`, `inplace_function.h` | - | - | no behaviour of their own |

The ring and the broker do not call each other (the notes plan a channel over
shared memory between brokers; it is not written). The library does not call
the queues either: they are shipped for the broker's next version, whose notes
plan queues between threads, and are modelled as libraries with any caller. Inside
`ConcurrentQueue` a call finds a producer (registry, or rotation), works on its
indices and blocks, and takes blocks from and gives them to the free list.

What makes each correct:

* ring: an OK of `read_next` is an intact fragment, the next one; a fragment
  that is there is read; calls return; LOSS and NO_DATA have a reason;
* broker: a consumer gets of each matching stream START, every event published
  while both existed, in order, and STOP; nothing after `destroy_consumer`;
  nothing dangles, nothing leaks, no loop is disturbed; every call takes effect;
* queues: what enters leaves once and, per producer, in order; memory is touched
  by one thread at a time, whoever owns it; a refusal has a reason; nothing is
  lost when an allocation fails; nobody sleeps on a queue that holds something.

## Modules

| Module | Content |
|---|---|
| `RingBuffer` | `write` and `read_next` step by step, and their properties |
| `LossyLog` | abstract specification: a growing log of which the last `Depth` fragments are retained, readers handed whole fragments in order |
| `RingBufferInv` | the inductive invariants `IInv` and `RingIInv` |
| `MCRingBuilds` | release and debug build in one run, and the inductive invariant of both, `BuildsIInv` |
| `RingBufferProofs` | the proofs about the ring and its two builds |
| `ModLemmas` | arithmetic of `%` for any modulus |
| `OldBroker` | API, queue, `do_work` and its visits, handlers, destructor, and their properties |
| `MCOldBroker` | TLC module of the broker |
| `OldBrokerInv` | the inductive invariants `BrokerIInv` (memory), `StreamsIInv` (streams) and `DeliveryIInv` (deliveries against the calls) |
| `OldBrokerProofs` | the proofs about memory and loops, streams and deliveries |
| `Fifo` | abstract specification of all queues: a bounded sequence, elements leave in the order they entered |
| `MpmcBoundedQueue` | `mpmc_bounded_queue.h` |
| `MpmcInv`, `MpmcProofs` | its inductive invariant `MpmcIInv`, and the proofs |
| `ReaderWriterQueue` | `ReaderWriterQueue` |
| `LightweightSemaphore` | the semaphore of `atomicops.h` over POSIX semaphores |
| `BlockingReaderWriterQueue` | the two composed, as the class of that name composes them |
| `ReaderWriterInv`, `ReaderWriterProofs` | the inductive invariants `InnerIInv` (queue) and `ReaderWriterIInv` (queue and semaphore), and the proofs |
| `FreeList` | `ConcurrentQueue::FreeList` |
| `FreeListInv`, `FreeListProofs` | its inductive invariant `FreeListIInv`, and the proofs |
| `ProducerBase` | `ConcurrentQueue`: blocks, pools, index, and the consumer's side of a producer |
| `SubQueue` | the explicit and the implicit producer's own side, destructors, and the properties of both |
| `SubQueueInv`, `SubQueueProofs` | the inductive invariant of their counters, `CountersIInv`, and the proofs |
| `ProducerRegistry` | producer list, recycling, tokens, implicit-producer hash |
| `RegistryInv` | its inductive invariant `RegistryIInv` |
| `ConsumerRotation` | how a dequeue, with or without a token, chooses among producers |
| `RotationInv` | its inductive invariant `RotationIInv` |
| `ProducerListProofs` | the proofs about registry and rotation, the two users of the producer list |
| `MCLockFree`, `MCSubQueue` | TLC modules of the queues |

Operators whose comment begins with "Mutant" are altered versions of the
definition that follows them. No specification uses them: each shows that a
property notices the bug it describes.

### RingBuffer against the code

`header`, `data` are `Slot::_header`, `_data`. The writer's program counter
`wpc` goes `idle` -> `clear` -> `copy` -> `clear` ... -> `idle`; the actions
`ClearHeader`, `CopyByte(j)`, `StoreHeader` are the three statements of
`Slot::update`, the last with the rest of `write`'s loop body. A reader's `rpc`
goes `idle` -> `header` -> `copy` -> `idle`: `ReadNext`, `LoadHeader`,
`AppendByte(j)`, `Recheck`.

The bytes are not atomic, and the writer's `memcpy` races the reader's
`append`: formally undefined, in the build a copy of each byte at some time. So
each byte is a step, in any order. The header operations are sequentially
consistent; on x86-64, the platform the repository builds for, the store is a
full barrier and plain accesses do not move across the atomic ones.

Byte k of the m-th accepted message is `<<m, k>>`: the code never looks at a
byte. `NDEBUG` selects the build. A failed assertion ends the process. A reader
created late is a reader that has not moved yet, since the constructor always
starts at sequence number 1 and slot 0.

`sent`, `log` and `got` are history: messages accepted, fragments published,
data of the OK results.

### OldBroker against the code

One thread. `frames` is the stack of `do_work` calls under way, each with the
action it visits, the index of its loop and whether the handler it called is
running. API calls are possible when no `do_work` is under way or the innermost
handler runs (`CanCall`), so every interleaving of calls with turns of the
loops is explored. `MaxDepth` = 1 means handlers do not call `do_work`.

`handle` is the user's side: a handle is made once and dropped once, and the
broker outlives it (`Producer` and `Consumer` hold a reference). `heap` is what
is allocated, `subs[p]` the consumer list of a `ProducerImpl`, `notify[c]` the
user's handler or the empty one that `destroy_consumer` puts in its place.
`producers.erase` moves the pointer out before the destructor runs, so the
producer leaves the vector when the visit of `DestroyProducer` begins and the
heap when it ends. A producer stands for its stream id. Which
topics a filter accepts is `matches`, chosen at the start from `Filterings`. The code of user handlers is external: they call the API,
return, or (`Throws`) throw.

`calls` is the history of enqueued actions. `Owes(calls, k, c, n)` reads off it
whether the k-th call owes consumer c the notification n, without looking at
queue, vectors or lists, and is what the deliveries `seen` are compared with:
everything heard is owed by a call, is heard once, and comes after all that
earlier calls owe (`StreamsFaithful`); when the queue is drained all is heard
(`DrainedIsComplete`).

### The queues against the code

One action is one access to shared memory: a load, a store, an exchange or an
addition, with the local computation that follows it. What a thread keeps
between two accesses is in its record (`pos`, `local`, `consumer[c]`, ...) and
may be stale when it is used; that is what the models are about. Accesses are
interleaved: orderings weaker than sequential consistency are not modelled.
`compare_exchange_weak` may fail for no reason. Positions and indices are
natural numbers; the 64-bit counters wrap after centuries.

* `MpmcBoundedQueue`: `pc` names the next access of `enqueue`, `dequeue` or
  `approx_size`; the winner of an exchange is `Inside` its cell until it stores
  the sequence number. The constructor wants a power of two, the algorithm only
  two cells.
* `ReaderWriterQueue`: one producer and one consumer; both may ask `size_approx`.
  `try_dequeue`, `peek` and `pop` are one path that ends in a read or a removal.
  `InitialBlocks` is the constructor's arithmetic, in both of its branches.
  The destructor runs when nobody else is inside, and `Freed` blocks are marked.
  `Contents` is what the slots between `front` and `tail` hold, in all blocks of the
  ring, oldest first; that the oldest is the one that leaves is what the
  refinement of `Fifo` says.
* `LightweightSemaphore` keeps `m_count` and the number of posts of the system
  semaphore. `Nsec` is the carry of the deadline in `timed_wait`, in seconds of
  `Second` nanoseconds, with the `EINVAL` of the system call on a full second.
  `BlockingReaderWriterQueue` runs the steps of both modules in the order of the
  class: the element, then the signal; the wait, then the element.
* `FreeList`: the reference count and the flag share one word, as in the code.
  A thread adds only what it holds and keeps what it gets.
* `ProducerBase`, `SubQueue`: element i is the number i, so that a wrong slot
  shows. A single `enqueue` or `dequeue` is a bulk of one: both make the same
  accesses in the same order. The steps of `Block`, `requisition_block` and of
  both block indices are there; index entries live on a heap of their own,
  because the implicit producer's headers share them. `ExplicitMallocFails` and
  `ImplicitMallocFails` say which allocations may fail. The free list is a set
  here: `FreeList` shows that it may be one.
* `ProducerRegistry`: a thread's hash is its number modulo `HashMod`, so that
  two of three collide. Producers are created, linked, recycled; a table is added
  while others probe. The build without `thread_local` is modelled: no implicit
  producer is given up, so the decrement after recycling one is in the model but
  never taken. A thread that holds a token and also enqueues without it is two
  members of the cast.
* `ConsumerRotation`: what a producer appears to hold is chosen anew each time it
  is asked. Each consumer records the producers that have answered empty. The
  loops of `update_current_producer_after_rotation` that take `next_prod` n times
  round the list are a remainder here (`After`); `AfterStep` in the proofs says that
  one more turn of the loop is one more step (`Around`).

## Runs

Ring, with 2 slots of 2 bytes (3 in `ring_wrap`) for 56, one reader:

| Run | Shows |
|---|---|
| `ring_builds` | both builds; sizes 0 (refused), 1, 2 (a full slot), 3 (two slots), 5 (too big), up to 4 messages, so the ring is lapped up to four times: the safety properties and, under fairness, that every `read_next` returns and that a polling reader catches up unless lapped. With assertions on (`WholeInDebug`) one read is one whole message. A failed assertion ends the process: deadlock is not checked |
| `ring_wrap` | debug build, `SnMod` = 3, 8 messages: more than two cycles of sequence numbers. The invariant of the proofs, `RingIInv`, is checked where its exceptions happen, and readers do make the mistakes `LossyLog!Mistake` allows, and no other: the refinement of `LossyLog` |
| `ring_assert` | finding: the assertion of `Slot::update` fails |

Two slots are the smallest ring in which a slot can be behind, at or ahead of
the writer; two bytes the fewest that can be torn. One reader is enough: readers
write nothing another process reads (`ReaderKeepsOthers` in the proofs).

Broker, every call in every order; each id is used once, so a run has at most
8 API calls. The broker may be destroyed, so deadlock is not checked:

| Run | Shows |
|---|---|
| `broker_throw` | 1 producer, 2 consumers, 2 events, handlers that may throw: memory safety (`PointersValid`, `NoLeak`), loops, silence after `destroy_consumer`, the shape of streams, and that everything queued is visited |
| `broker_merge` | 2 producers, 1 consumer, 2 events, every filter: deliveries are exactly what the calls say, across streams too |
| `broker_self`, `broker_nested`, `broker_teardown` | findings |

Two consumers let one be destroyed, by the other's handler, in the middle of a
loop over both; two producers do the same for the loop of `InitConsumer` and for
the order between streams; two events are the fewest with an order.

Queues. Their users may stop calling, so deadlock is not checked:

| Run | Shows |
|---|---|
| `lockfree` | four algorithms, one per behaviour (`part`). Bounded queue: 2 producers, 2 consumers, 2 cells, 2 elements each, so each cell is used twice; exclusive cells and right elements (`CellsSafe`), true answers, `Fifo`. Free list: 3 threads, 2 nodes, the fewest with ABA; `NothingStranded`, `NodesSafe`. Registry: 3 threads, or one thread and two token users, a hash of 2 that grows to 8, 4 producers; `OwnProducer`; probing ends and entries are found again (`Findable`). Rotation: one call without token, or one or two tokens, a quota of 2 (for 256), bulks of 2, up to 4 producers and tokens, appearing at any time; everyone is asked; rounds are bounded, the quota holds, tokens spread (`RotationKept`) |
| `rwq` | the blocking queue with its semaphore, blocks of 2, constructed for 1 and for 4 elements (both branches of the constructor), 5 elements, one extra block at most: `Fifo`, true answers and bounds of `size_approx` (`AnswersTrue`), exclusive slots and no leak (`MemorySound`), no failed assertion, a count that agrees with the content (`CountAgrees`) and, under fairness, a waiter that is woken |
| `subqueue` | explicit and implicit producer, 2 consumers that ask for 1 or 2 elements (`DequeueMaxima`), blocks of 2, an index of 2, 5 elements, 4 blocks, at most 4 elements inside; failing allocations: claims stay below the tail (`CountersAgree`), elements are found where they are (`BlocksFound`), blocks come back (`BlocksReturn`), `Fifo`. The explicit producer's bulks stay below two new blocks (`ExplicitMaxBulk`), which keeps out the defect `subqueue_bulk` shows |
| `subqueue_bulk` | finding: a failed bulk leaves the block index too small |

Properties that are conjunctions (`CellsSafe`, `CountAgrees`, ...) gather named parts, and
the parts carry the statements.

Blocks of 2 have a middle; an index of 2 is full and grows within 5 elements, and
blocks are reused. Bounds named `Max...` cap what is called, created or given
back; `MaxOvercommit` also cuts off the endless repetition of two consumers that
make each other fail, which the library permits.

### Fairness

`RingBuffer!FairSpec`: a `write` that has begun goes on, and readers poll; both
are threads of straight code without locks, so being scheduled is all it takes.
New calls of `write` are not forced. `OldBroker!FairSpec`: the owner of the
broker calls `do_work` again and again, as the loops in `main.cpp` do, and
handlers return. That a single `do_work` returns is not claimed: handlers that
always publish keep it going. `BlockingReaderWriterQueue!Fairness`: calls that
have begun go on, and a posted system semaphore releases its waiter; new calls
are not forced, and a wait without time-out may last for ever on an empty queue.

## What the runs found

* `ring_assert`: `write` hands `update` chunks of up to 56 bytes, and `update`
  asserts less than 56. Every message of 56 bytes or more aborts a debug build.
  In a release build such a message is cut into fragments whose headers all
  carry a size, and a reader gets each as an OK of its own: the "size 0 means a
  full slot, go on" convention of `append` and `read_next` is never written.
* `LossExplained` states what LOSS means in this code: the fragment is gone, or
  the reader is up to date and the ring has been filled once. In the second case
  nothing was lost; NO_DATA is only returned during the first lap, while a slot is
  being rewritten, and at the wrap.
* `StallsAtWrap`: after 2^32 - 1 fragments the number is 0, "no data", and every
  reader is stuck.
* A lapped reader stays lapped: nothing moves it forward.
* `subqueue_bulk`: an explicit `enqueue_bulk` that needs several blocks and fails
  at one of them keeps those it has linked into its ring but resets the count
  of index slots. They are reused uncounted later, the circular index wraps onto
  entries that are in use, and consumers look for elements in the wrong block.
* Not in a run of its own: `timed_wait` carries into the seconds when `tv_nsec` is
  more than 1e9; at exactly 1e9 `sem_timedwait` answers `EINVAL`, which is taken
  for success. With a clock reading of 6 in `rwq.cfg` (6 + 4 = `Second`)
  `NeverOverstated` fails. A second observation is about tokens: partial bulks add
  to the count that is compared with the quota by `==`, so a token used for both
  kinds of calls can step over it and no longer starts rotations. A third:
  `dequeue_bulk` with a maximum of 0 that sees an element goes through all its
  steps with nothing to take, and visits the block at the head index all the
  same (concurrentqueue.h:2715). If others have taken the rest meanwhile, an
  implicit producer may have no entry there or an empty one. With 0 in
  `DequeueMaxima` `BlocksFound` fails in this way, so the runs ask for 1 or more;
  the counters are proved for 0 too.
* `broker_self`: `destroy_consumer` in the consumer's own handler overwrites the
  `std::function` that is running.
* `broker_nested`: `do_work` in a handler changes vectors under the outer loop.
* `broker_teardown`: `~OldBroker` with destroy actions queued frees the consumers
  and then lets `~ProducerImpl` notify them. After a last `do_work` it is safe:
  `NoLeak` says the vectors are empty then.

## Proofs

Every theorem is about all instances: any number of threads, slots, nodes,
producers and consumers, and any width of the numbers. TLC has checked each
inductive invariant on small instances before it was proved.

### The ring

From `RingAssumption` alone (everything positive, and more sequence numbers than
slots - 2^32 slots would need 256 GiB):

* `Invariance`, `TypeCorrect`, `NoTornRead`, `NoLappedDelivery`, `WrapStalls`,
  `SingleSlot`: the safety properties of the runs;
* `Refinement`: the ring implements `LossyLog`;
* `NothingMissed` and `LossMeans`: a fragment that is there is read, and LOSS means
  what `LossExplained` says;
* `RingInvariance`, `OrderedBytes`: `write` cuts messages into slots without
  losing, repeating or reordering a byte;
* `WholeDebugMessages`: with assertions on, an OK is one whole message. It assumes
  fewer messages than sequence numbers (`MaxWrites < SnMod`): a reader a full cycle
  behind may deliver a wrong fragment, which is the exception `PrefixOrWrapped`
  makes.

None of the properties is inductive: that an OK is right depends on what the
slot held during the copy. `IInv` adds `At(i)`, the position whose fragment slot
i holds, as a function of the log's length and the writer's slot, and says

* `SlotInv`: a slot with a header holds the whole fragment of its position and
  that position's number; one being rewritten has no header;
* `WriterInv`, `LogInv`: how far the current copy is; fragments are neither
  empty nor larger than a slot, hence no header has size 0;
* `CopyInv`: while a reader copies and its slot still has the header it saw, the
  bytes copied so far are those of the fragment it waits for.

The argument turns on `SnMatch`: a slot whose header carries the expected number
is at the expected position or a full cycle of numbers past it, because a slot
is never NSlots behind the log (`AtBounds`) and equal numbers are SnMod apart
(`SnGap`, from `ModGap`). `Delivery` concludes what an OK hands over; the
invariant, the action property and the refinement all rest on it. Each lemma
`...Keeps...` takes one part of the invariant through all steps of one side.

`RingIInv` adds `TurnInv`, which ties the writer's and each reader's slot to
their positions (without it nothing says that a reader looks where its fragment
is), and `MessageInv`, which ties the last byte published to how far `write` has
got in the message. `BuildsIInv` adds, for the debug build, that the log is the
sequence of messages.

### The broker

For handlers that call the whole API except `do_work` (hypothesis `MaxDepth = 1`,
which holds in every passing run; `broker_nested` shows what a nested `do_work`
does), any number of producers and consumers, any filters, handlers that throw:

* `PointerSafety`, `NothingLeaks`, `LoopsSafe`: `PointersValid`, `NoLeak`,
  `LoopsUndisturbed`;
* `NoUseAfterFreeWhileUp`: the use after free of `broker_teardown` cannot
  happen before the destructor;
* `WellFormedStreams`, `OrderedEvents`: `StreamsWellFormed`, `EventsInOrder`;
* `Silence`: `SilentOnceDestroyed`, at any depth of `do_work` calls.

`BrokerIInv` follows an object through its life. Handle and queue determine
what is in memory and what is registered (`OwnerInv`): an object is alive while
its handle is open or its destruction queued, is registered unless its creation
is still queued, and no queued action points at it afterwards. That needs the
order in the queue - creation first, destruction last (`QueueInv`) - and the
target of the visit under way (`VisitInv`). `SubsInv` says that a producer lists
registered consumers once each, and that the loops of `InitProducer` and
`InitConsumer` have not been where they still have to go, without which a
consumer could be added twice. `StreamsIInv` adds that a consumer is listed
exactly while it has heard START and neither side is gone, and that the numbers of
the events seen, visited and queued increase in this order.

`FaithfulStreams` and `NothingLost` - `StreamsFaithful` and `DrainedIsComplete` -
compare what was heard with the calls themselves. They have a second hypothesis,
`Throws = FALSE`: the exception of a handler leaves `do_work` in the middle of its
loops, the action is off the queue, and those that come after in the loop never
hear of it. `DeliveryIInv` adds what relates three records of the same thing:

* `HistoryInv`: the queue is the end of `calls`, the visit under way is the last
  call taken off it, and the handles say which creations and destructions were
  made, each once. So what is registered can be told from the first `Visited` calls
  (`VisitedSoFar`);
* `ListedInv`: a producer lists every registered consumer that its topic matches,
  except those a loop has still to come to (`ToMatch`), and has told them START;
* `HeardInv`: all that the visited calls owe has been heard, except what the visit
  under way has still to say (`Awaits`). A visit ends when its loop does, and then
  nothing is awaited (`EndVisitDelivery`).

### The bounded queue

From `SizeAssumption` and `ThreadAssumption` (two cells or more, nobody both
producer and consumer): `CellSafety`, `Answers` and `MpmcRefinement` - cells are
exclusive and elements right, `full` and `empty` were true at some moment of the
call, and the queue implements `Fifo`.

`MpmcIInv` follows a position, not a cell: enqueued, published, dequeued,
released. `FilledInv` and `FreeInv` say which sequence number the cell of a
position has at each stage and who is inside; `PassedInv`, that numbers do not
fall behind, makes a stale `pos` harmless: the exchange fails, or the cell is
still as it was seen. `CellGap` (from `ModGap`) separates the positions of one
cell by a lap.

### The reader-writer queue

From `BlockSizeAssumption`, `ConstantsAssumption` and `CeilAssumption` (a block has
two slots at least, sizes and bounds are numbers, and `ceilToPow2` rounds up; the
`rwq` run evaluates them - that a recursive function rounds up for every argument
would need induction): `MemoryIsSound`, `NoAssertionEverFails`, `CountAlwaysAgrees`
and `QueueImplementsFifo`, that is `MemorySound`, `NoAssertionFails`, `CountAgrees`
and `ImplementsFifo` of the composed specification, for every block size, any
number of initial blocks and of elements, and allocations that may fail.

`NoAssertionEverFails` and `CountAlwaysAgrees` have one hypothesis, `DeadlinesValid`:
`timed_wait` never computes a deadline of exactly 1e9 nanoseconds. Without it they
are false: `atomicops.h:529` carries over only what exceeds 1e9, `sem_timedwait`
rejects the deadline with `EINVAL`, everything but `ETIMEDOUT` is reported as
success, and the caller takes an element that nobody signalled. The `rwq` run's clock satisfies the
hypothesis. `MemoryIsSound`, `QueueImplementsFifo` and `AssertionsAlwaysHold`
(the assertions of the queue itself) need no such thing: their invariant,
`InnerIInv`, holds whatever the semaphore lets through.

With T elements taken and S sent, `ReaderWriterIInv` says the following.

* A block (`BlockOK`): the slots from `front` to `tail` hold consecutive elements, the
  others none, but for the one being placed. Each thread's copy of the other's index
  is behind (`CopiesOK`), so a stale copy only makes it look again.
* The ring (`RingOK`): `next` is injective, and a set of blocks closed under it is all of
  them. That states "one circle" without counting steps, so that linking a block in
  (`EnqueueLink`) and the destructor's walk need no induction.
* The chain (`ChainOK`): the blocks' elements together are T + 1 to S, without
  overlap; a block with elements is the front block, follows it when that is
  empty, or continues the block before it; the newest is in the block that was
  written last. When nothing is inside, front block and last block are the same.
* The threads (`ConsumerInv`, `ProducerInv`): the consumer leaves its block only when that is empty
  and the producer has left it; that is why `try_dequeue` reads `tail` again after
  `tailBlock` (`DequeueRecheck`). The producer enters the block after `tailBlock` only
  if that is not the front block, and then it is empty.
* The semaphore (`SemaInv`): `m_count` is what is inside, less what the producer has
  not told yet (`Untold`) and what the waiter has claimed (`Claimed`). A post is
  due or there (`Posted`) exactly when the sleeper's claim has been met, so a time-out
  that finds `m_count` not negative finds a post to take.

For the refinement, `Contents` is T + 1 to S in order: occupied slots and elements
correspond one to one, so sorting them gives the interval.

### The free list

From `FreeListAssumption` (finitely many threads and nodes, the flag above any
reference count: 2^31 in the code, one reference per thread and the list's own;
the `lockfree` run evaluates it): `NodesAreSafe` and `NobodyStranded`.

`FreeListIInv` counts. Each thread has at most one `Role` for a node: it has a
reference, has taken the node off the list, links it with the flag still up, or
links it with the flag cleared. `NodeOK` gives the reference count in terms of
the number of references and of where the node is (`PlaceOf`: with an owner, on the
list, away), and says that at most one thread owns a node. One lemma per change
of a count (`GainOK`, `DropOK`, `DropLastOK`, ...) is pure arithmetic of
cardinalities; the heart is `GainOK`: a count that is not zero below the flag
belongs to a node nobody is linking. `ListOK` says the list is a chain of distinct
nodes nobody owns, and `ThreadOK` that `next` is stable under whoever has a
reference: that is why the exchange of the head is free of ABA.

### The producer registry

From `RegistryAssumption` (thread ids are not 0, tokens are not threads, the
first table has a slot - it need not have a power of two of them; the `lockfree`
run evaluates it): `OwnProducerAlways` and `FindableAlways`, that is `OwnProducer`
and `Findable`, for any number of threads, tokens and tables and any hash that
is a remainder.

`RegistryIInv` has four strands.

* `UseInv`: `Uses(t)` is t's producer from the moment it is created or its flag
  exchanged, while t still links it or looks for a slot. It is active, and nobody
  else's: an exchange that finds the flag up finds an unused producer.
* `HashInv`: every key is in a table once, with its thread's producer, and no
  free slot precedes it on its thread's way (`TableOK`). A thread in the middle of a search for a free slot has
  passed only taken ones, on the way it will take when it looks for its key
  (`ClaimOK`): so where the search ends the key is found. Slots are never freed,
  which keeps this under every other thread's insertion (`FoundKept`,
  `ClaimKept`).
* `CountInv`: that a table always has room is about the order in which threads
  were counted, not about how many keys a table has. There is an order of all counted threads
  in which nobody's place exceeds the count it got, nor - once admitted to a table -
  three quarters of that table. A thread that fails leaves the order, and the
  places after it only fall (`CountLess`); later tables are no smaller, so an
  old key may be added to the main table again. `Room` concludes by counting:
  the keys of a table have different places below three quarters of its capacity.
* `ListInv`: the list has every producer once, except those whose threads are
  linking them.

### The rotation

From `RotationAssumption` (a quota above 1 - 256 in the code; the `lockfree` run
evaluates it): `EveryoneAsked` and `RotationHolds`, that is `EveryoneTried` and
`RotationKept`, for any number of consumers, tokens and producers, while
producers appear at any time.

`RotationIInv` says for each call how far it has come and what that stands for.

* `ScoreOK`, `WalkOK`: above `ptr` every producer that was listed has answered
  empty. The list grows at its tail only, and the walk starts from the tail
  there is, so nobody is below it unseen.
* `RingOK`: from the token's producer round to `ptr`, everyone has (`Passed`), and
  the calls made are at most the rounds completed and the steps of this one
  (`Gone`). When `ptr` is back at the token's producer, `Passed` is the whole list; an
  element found on the way moves the start of the round.
* `TokenOK`: while the list keeps its length a token's place is a function of its
  id and the offset it knows - the rotations it missed are one rotation by their
  sum, arithmetic of remainders - so tokens that know the same offset have ids
  that agree modulo the length (`Spread`). A token with single dequeues that has met
  its quota is about to move the offset, or the offset has moved: it is not asked
  again where it is.

### The counters of a producer

From `CountersAssumption` (finitely many consumers; the sizes of bulks are numbers;
the `subqueue` run evaluates it): `CountersSound`, that is `CountersAgree`, for both
kinds of producers, any number of consumers, and bulks of any size: `DequeueMaxima`,
the maxima consumers may ask for, is any set of numbers, 0 included, and the bounds
on `enqueue_bulk` are any numbers. A consumer counts itself in first
(`dequeueOptimisticCount`), looks at the tail, and then either claims elements
or gives back what it counted in vain (`dequeueOvercommit`); `overcommit` and tail
are stale when it compares them.

`CountersIInv` has two parts. Everything counted was given back, claimed, or is
`Outstanding` in some call. And claims stay below the tail: calls are ordered by
the count they found (`mine`; two calls share it only if one counted nothing). There is a place n in this order such that the calls
before it, together with those already granted something, may claim no more than
there is; each call after it that has not looked yet has no more before it
than its own `mine - overcommit` says (`Granted`). When it looks and goes ahead, the
tail it saw covers it and all before it, and n moves past it. `overcommit` is never
above what was really given back, which is why being stale only makes a consumer
modest. Sums over calls are cardinalities of sets of units (`Total`), since a sum
by recursion would need induction.

### Only model-checked

* Liveness: `ReadReturns`, `CatchesUp`, `CallsTakeEffect`, `WaiterWakes`. The
  prover has no rules for fairness.
* `AnswersTrue` of the reader-writer queue: `size_approx` sums over a walk during which
  the ring grows, and `try_enqueue` answers by the capacity of all blocks. Both are
  sums over a set of blocks of any size, which need induction.
* `BlocksFound`, `BlocksReturn` and `ImplementsFifo` of `SubQueue`. `CountersSound` is
  what they start from; they also need which block of which index generation
  holds which range of elements.

## Plan

1. Done: all modules and runs; proofs about ring, broker, bounded queue,
   reader-writer queue with its semaphore, free list, producer registry, rotation
   and the counters of a producer.
2. Next on the proofs: `BlocksFound`; the half of `AnswersTrue` about `try_dequeue`.
3. Next on the models: several producers of one `ConcurrentQueue` exchanging
   blocks through `FreeList`; an abstract broker that delivers straight from the
   calls.

## Not modelled

The router (no behaviour yet: it does not compile), snapshot handlers (the one
implementation is empty and nothing reads snapshots), type lists, benchmarks,
`expected.hpp` and `inplace_function.h` (value types: overload sets and special
members, no state beyond one call, and no code that uses them).

In keryx' own parts: allocation failure, the typed wrapping of notifications,
filters that run user code with side effects.

In the queues: elements whose constructors or assignments throw; moving and
swapping queues and tokens, which may not run beside other calls; the
thread-exit hooks of the `thread_local` build, which the header itself disables; the Windows and Mach semaphores;
`size_approx` of `ConcurrentQueue`; the wrap of 64-bit indices and of the 32-bit
rotation offset; several producers exchanging blocks, beyond what the free list
promises to each. Orderings that a weaker memory model than sequential
consistency would add are out of TLC's reach in every module.
