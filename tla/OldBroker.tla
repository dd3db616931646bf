------------------------------ MODULE OldBroker -----------------------------
(***************************************************************************)
(* The in-process broker of lib/broker: OldBroker and its action queue,    *)
(* ProducerImpl, ConsumerImpl and the handles Producer and Consumer.       *)
(*                                                                         *)
(* Everything runs in one thread.  What makes it hard is reentrancy: a     *)
(* notification handler runs in the middle of a loop over the broker's     *)
(* vectors and may call the whole API.  So every turn of such a loop is a  *)
(* step, and so is every API call made by a handler that is running.       *)
(*                                                                         *)
(* A ProducerImpl or ConsumerImpl is named by its handle, used once; being *)
(* in memory is being in heap.  A producer stands for its stream id too.   *)
(* Events are numbered in the order of publication.                        *)
(***************************************************************************)
EXTENDS Integers, Sequences, SequencesExt

CONSTANTS
  Producers,  \* the Producer handles, one stream each
  Consumers,  \* the Consumer handles
  Filterings, \* sets of pairs <<p, c>> where c's filter accepts p's topic
  Throws,     \* whether handlers may throw
  MaxEvents,  \* bound: calls of Producer::publish
  MaxDepth    \* bound: do_work() calls under way; 1 unless handlers call it

ASSUME BrokerAssumption ==
  /\ Producers \cap Consumers = {}
  /\ Filterings \subseteq SUBSET (Producers \X Consumers)
  /\ Throws \in BOOLEAN
  /\ MaxEvents \in Nat
  /\ MaxDepth \in Nat \ {0}

VARIABLES
  \* the caller's side
  handle,     \* the Producer and Consumer objects
  matches,    \* the topics and filters they are made with: which pairs match
  life,       \* the broker: up, gone (destroyed) or terminated
  \* OldBroker::PImpl
  producers,
  consumers,
  pending,    \* pending_actions
  \* the heap
  heap,       \* the ProducerImpls and ConsumerImpls in memory
  subs,       \* ProducerImpl::PImpl::consumers
  notify,     \* ConsumerImpl::notify: the user's handler or the empty one
  \* the stack
  frames,     \* the do_work() calls under way, innermost last
  \* history
  calls,      \* the actions enqueued, in order
  seen,       \* the notifications each consumer's handler was called with
  uaf         \* a ConsumerImpl was used after it was freed

apiVars    == <<handle, life>>
brokerVars == <<producers, consumers, pending>>
heapVars   == <<heap, subs, notify>>
vars == <<apiVars, brokerVars, heapVars, frames, calls, seen, uaf, matches>>

Ids == Producers \cup Consumers

\* The Action variant.
InitProducer(p)    == [op |-> "InitProducer", p |-> p]
DestroyProducer(p) == [op |-> "DestroyProducer", p |-> p]
Publish(p, e)      == [op |-> "Publish", p |-> p, ev |-> e]
InitConsumer(c)    == [op |-> "InitConsumer", c |-> c]
DestroyConsumer(c) == [op |-> "DestroyConsumer", c |-> c]
Idle               == [op |-> "Idle"]

Action ==
  {InitProducer(p) : p \in Producers} \cup {DestroyProducer(p) : p \in Producers}
  \cup {Publish(p, e) : p \in Producers, e \in 1 .. MaxEvents}
  \cup {InitConsumer(c) : c \in Consumers} \cup {DestroyConsumer(c) : c \in Consumers}

\* NotificationImpl; START_PRODUCER, EVENT and STOP_PRODUCER.
Start(p)    == [kind |-> "START", p |-> p]
Event(p, e) == [kind |-> "EVENT", p |-> p, ev |-> e]
Stop(p)     == [kind |-> "STOP", p |-> p]

\* Mutant: every filter accepts every topic.
IsMatchAny(p, c) == TRUE

\* ProducerImpl::is_match
IsMatch(p, c) == <<p, c>> \in matches

\* One do_work() under way: the action it visits, the index of its loop, and
\* whether the handler it called is still running.
Frame(a, i, run) == [act |-> a, i |-> i, run |-> run]
Top == Last(frames)
SetTop(f) == frames' = Append(Front(frames), f)

OldBrokerInit ==
  /\ life = "up"
  /\ producers = <<>> /\ consumers = <<>> /\ pending = <<>>

Init ==
  /\ OldBrokerInit
  /\ handle = [x \in Ids |-> "new"]
  /\ matches \in Filterings
  /\ heap = {}
  /\ subs = [p \in Producers |-> <<>>]
  /\ notify = [c \in Consumers |-> "user"]
  /\ frames = <<>>
  /\ calls = <<>> /\ seen = [c \in Consumers |-> <<>>] /\ uaf = FALSE

-----------------------------------------------------------------------------
(* The API, called from outside do_work() or by a handler                   *)

CanCall == life = "up" /\ (frames # <<>> => Top.run)

\* Mutant: the queue is a stack.
EnqueueFront(a) ==
  /\ pending' = <<a>> \o pending
  /\ calls' = Append(calls, a)
  /\ UNCHANGED <<producers, consumers>>

Enqueue(a) ==
  /\ pending' = Append(pending, a)
  /\ calls' = Append(calls, a)
  /\ UNCHANGED <<producers, consumers>>

\* keryx_allocate_unique and the deleter of the pointer it returns.
Allocate(x)   == heap' = heap \cup {x}
Deallocate(x) == heap' = heap \ {x}

\* The constructors: a producer without consumers, a consumer with the user's
\* handler.
NewProducerImpl(p) ==
  /\ Allocate(p)
  /\ subs' = [subs EXCEPT ![p] = <<>>]
  /\ UNCHANGED notify

NewConsumerImpl(c) ==
  /\ Allocate(c)
  /\ notify' = [notify EXCEPT ![c] = "user"]
  /\ UNCHANGED subs

\* The ProducerImpl is built at once, and registered by do_work().
MakeProducer(p) ==
  /\ NewProducerImpl(p)
  /\ Enqueue(InitProducer(p))

DestroyProducerCall(p) ==
  /\ Enqueue(DestroyProducer(p))
  /\ UNCHANGED heapVars

\* The events published so far.
Published == Cardinality({k \in DOMAIN calls : calls[k].op = "Publish"})

PublishCall(p, e) ==
  /\ Enqueue(Publish(p, e))
  /\ UNCHANGED heapVars

\* Mutant: the consumer is registered at once.
MakeConsumerNow(c) ==
  /\ NewConsumerImpl(c)
  /\ consumers' = Append(consumers, c)
  /\ calls' = Append(calls, InitConsumer(c))
  /\ UNCHANGED <<producers, pending>>

MakeConsumer(c) ==
  /\ NewConsumerImpl(c)
  /\ Enqueue(InitConsumer(c))

\* Mutant: destroy_consumer leaves the handler in place.
DestroyConsumerCallLoud(c) ==
  /\ Enqueue(DestroyConsumer(c))
  /\ UNCHANGED heapVars

\* Mutant: destroy_consumer only silences the consumer.
DestroyConsumerCallSilences(c) ==
  /\ notify' = [notify EXCEPT ![c] = "noop"]
  /\ calls' = Append(calls, DestroyConsumer(c))
  /\ UNCHANGED <<brokerVars, heap, subs>>

\* Mutant: destroy_consumer leaves an empty std::function.
DestroyConsumerCallEmpties(c) ==
  /\ notify' = [notify EXCEPT ![c] = "empty"]
  /\ Enqueue(DestroyConsumer(c))
  /\ UNCHANGED <<heap, subs>>

\* destroy_consumer silences the consumer at once and frees it later.
DestroyConsumerCall(c) ==
  /\ notify' = [notify EXCEPT ![c] = "noop"]
  /\ Enqueue(DestroyConsumer(c))
  /\ UNCHANGED <<heap, subs>>

\* The handles: constructors, destructors and Producer::publish.
NewProducer(p) ==
  /\ CanCall /\ handle[p] = "new"
  /\ handle' = [handle EXCEPT ![p] = "open"]
  /\ MakeProducer(p)
  /\ UNCHANGED <<life, frames, seen, uaf>>

NewConsumer(c) ==
  /\ CanCall /\ handle[c] = "new"
  /\ handle' = [handle EXCEPT ![c] = "open"]
  /\ MakeConsumer(c)
  /\ UNCHANGED <<life, frames, seen, uaf>>

DropProducer(p) ==
  /\ CanCall /\ handle[p] = "open"
  /\ handle' = [handle EXCEPT ![p] = "closed"]
  /\ DestroyProducerCall(p)
  /\ UNCHANGED <<life, frames, seen, uaf>>

DropConsumer(c) ==
  /\ CanCall /\ handle[c] = "open"
  /\ handle' = [handle EXCEPT ![c] = "closed"]
  /\ DestroyConsumerCall(c)
  /\ UNCHANGED <<life, frames, seen, uaf>>

PublishEvent(p) ==
  /\ CanCall /\ handle[p] = "open" /\ Published < MaxEvents
  /\ PublishCall(p, Published + 1)
  /\ UNCHANGED <<apiVars, frames, seen, uaf>>

Api ==
  \/ \E p \in Producers : NewProducer(p) \/ DropProducer(p) \/ PublishEvent(p)
  \/ \E c \in Consumers : NewConsumer(c) \/ DropConsumer(c)

\* ~OldBroker, once the handles - which refer to the broker - are gone.  The
\* members die in reverse order: the queue, the consumers, then the producers,
\* and ~ProducerImpl notifies the consumers it still lists.
Teardown ==
  /\ life = "up" /\ frames = <<>>
  /\ \A x \in Ids : handle[x] # "open"
  /\ life' = "gone"
  /\ heap' = {} /\ pending' = <<>> /\ producers' = <<>> /\ consumers' = <<>>
  /\ uaf' = \E k \in DOMAIN producers : subs[producers[k]] # <<>>
  /\ UNCHANGED <<handle, subs, notify, frames, calls, seen>>

-----------------------------------------------------------------------------
(* do_work                                                                  *)

DoWork ==
  /\ CanCall /\ Len(frames) < MaxDepth
  /\ frames' = Append(frames, Frame(Idle, 1, FALSE))
  /\ UNCHANGED <<apiVars, brokerVars, heapVars, calls, seen, uaf>>

\* The innermost do_work() has control.
Working == life = "up" /\ frames # <<>> /\ ~Top.run

\* Mutant: do_work() leaves the last action in the queue.
DoWorkReturnsEarly ==
  /\ Working /\ Top.act = Idle /\ Len(pending) <= 1
  /\ frames' = Front(frames)
  /\ UNCHANGED <<apiVars, brokerVars, heapVars, calls, seen, uaf>>

DoWorkReturns ==
  /\ Working /\ Top.act = Idle /\ pending = <<>>
  /\ frames' = Front(frames)
  /\ UNCHANGED <<apiVars, brokerVars, heapVars, calls, seen, uaf>>

\* The next action is popped and its visit begins.
Pop(op) ==
  /\ Working /\ Top.act = Idle /\ pending # <<>>
  /\ Head(pending).op = op
  /\ pending' = Tail(pending)
  /\ SetTop(Frame(Head(pending), 1, FALSE))
  /\ UNCHANGED <<apiVars, notify, calls, seen, uaf>>

\* Mutant: the producer is not registered.
VisitInitProducerUnregistered ==
  /\ Pop("InitProducer")
  /\ UNCHANGED <<producers, consumers, heap, subs>>

VisitInitProducer ==
  /\ Pop("InitProducer")
  /\ producers' = Append(producers, Head(pending).p)
  /\ UNCHANGED <<consumers, heap, subs>>

VisitPublish ==
  /\ Pop("Publish")
  /\ UNCHANGED <<producers, consumers, heap, subs>>

\* producers.erase moves the pointer out before it runs ~ProducerImpl.
VisitDestroyProducer ==
  /\ Pop("DestroyProducer")
  /\ producers' = RemoveFirst(producers, Head(pending).p)
  /\ UNCHANGED <<consumers, heap, subs>>

VisitInitConsumer ==
  /\ Pop("InitConsumer")
  /\ consumers' = Append(consumers, Head(pending).c)
  /\ UNCHANGED <<producers, heap, subs>>

\* Mutant: the producer keeps the pointer.
MaybeRemoveNothing(s, c) == s

\* ProducerImpl::maybe_remove
MaybeRemove(s, c) == RemoveFirst(s, c)

\* No handler runs: every producer forgets the consumer, which is then freed.
VisitDestroyConsumer ==
  LET c == Head(pending).c
  IN /\ Pop("DestroyConsumer")
     /\ subs' = [p \in Producers |->
                   IF Contains(producers, p) THEN MaybeRemove(subs[p], c) ELSE subs[p]]
     /\ consumers' = RemoveFirst(consumers, c)
     /\ Deallocate(c)
     /\ UNCHANGED producers

\* Mutant: a new consumer is not offered the producers that exist.
LoopOverConsumersOnly(a) ==
  CASE a.op = "InitProducer" -> consumers
    [] a.op \in {"Publish", "DestroyProducer"} -> subs[a.p]
    [] OTHER -> <<>>

\* What the loop of a visit ranges over.
Loop(a) ==
  CASE a.op = "InitProducer" -> consumers
    [] a.op = "InitConsumer" -> producers
    [] a.op \in {"Publish", "DestroyProducer"} -> subs[a.p]
    [] OTHER -> <<>>

InLoop(ops) ==
  /\ Working /\ Top.act.op \in ops
  /\ Top.i <= Len(Loop(Top.act))

\* c.notify(n): the user's handler runs, or nothing does.
Notify(c, n) ==
  /\ SetTop(Frame(Top.act, Top.i + 1, notify[c] = "user"))
  /\ seen' = IF notify[c] = "user" THEN [seen EXCEPT ![c] = Append(@, n)] ELSE seen
  /\ uaf' = (uaf \/ c \notin heap)

\* ProducerImpl::maybe_add, from the loops of InitProducer and InitConsumer.
MaybeAdd ==
  /\ InLoop({"InitProducer", "InitConsumer"})
  /\ LET other == Loop(Top.act)[Top.i]
         p == IF Top.act.op = "InitProducer" THEN Top.act.p ELSE other
         c == IF Top.act.op = "InitProducer" THEN other ELSE Top.act.c
     IN IF IsMatch(p, c)
          THEN /\ subs' = [subs EXCEPT ![p] = Append(@, c)]
               /\ Notify(c, Start(p))
          ELSE /\ SetTop(Frame(Top.act, Top.i + 1, FALSE))
               /\ UNCHANGED <<subs, seen, uaf>>
  /\ UNCHANGED <<apiVars, brokerVars, heap, notify, calls>>

\* The loop of ProducerImpl::publish.
NotifyEvent ==
  /\ InLoop({"Publish"})
  /\ Notify(Loop(Top.act)[Top.i], Event(Top.act.p, Top.act.ev))
  /\ UNCHANGED <<apiVars, brokerVars, heapVars, calls>>

\* The loop of ~ProducerImpl.
NotifyStop ==
  /\ InLoop({"DestroyProducer"})
  /\ Notify(Loop(Top.act)[Top.i], Stop(Top.act.p))
  /\ UNCHANGED <<apiVars, brokerVars, heapVars, calls>>

\* The loop is done; a destroyed producer is freed, an event is handed to the
\* snapshot handler.
EndVisit ==
  /\ Working /\ Top.act # Idle
  /\ Top.i > Len(Loop(Top.act))
  /\ SetTop(Frame(Idle, 1, FALSE))
  /\ IF Top.act.op = "DestroyProducer"
       THEN /\ Deallocate(Top.act.p)
            /\ subs' = [subs EXCEPT ![Top.act.p] = <<>>]
       ELSE UNCHANGED <<heap, subs>>
  /\ UNCHANGED <<apiVars, brokerVars, notify, calls, seen, uaf>>

HandlerReturns ==
  /\ life = "up" /\ frames # <<>> /\ Top.run
  /\ SetTop(Frame(Top.act, Top.i, FALSE))
  /\ UNCHANGED <<apiVars, brokerVars, heapVars, calls, seen, uaf>>

\* Mutant: the action whose handler threw is queued again.
HandlerThrowsRetry ==
  /\ Throws
  /\ life = "up" /\ frames # <<>> /\ Top.run
  /\ frames' = Front(frames)
  /\ pending' = <<Top.act>> \o pending
  /\ UNCHANGED <<apiVars, producers, consumers, heapVars, calls, seen, uaf>>

\* An exception leaves do_work() with the rest of the visit undone; out of
\* ~ProducerImpl, which is noexcept, it ends the process.
HandlerThrows ==
  /\ Throws
  /\ life = "up" /\ frames # <<>> /\ Top.run
  /\ IF Top.act.op = "DestroyProducer"
       THEN life' = "terminated" /\ UNCHANGED frames
       ELSE frames' = Front(frames) /\ UNCHANGED life
  /\ UNCHANGED <<handle, brokerVars, heapVars, calls, seen, uaf>>

Visit ==
  \/ VisitInitProducer \/ VisitPublish \/ VisitDestroyProducer
  \/ VisitInitConsumer \/ VisitDestroyConsumer

Work ==
  \/ Visit
  \/ MaybeAdd \/ NotifyEvent \/ NotifyStop \/ EndVisit
  \/ DoWorkReturns

Next ==
  /\ \/ Api
     \/ DoWork
     \/ Work
     \/ HandlerReturns
     \/ HandlerThrows
     \/ Teardown
  /\ UNCHANGED matches

Spec == Init /\ [][Next]_vars

\* The thread that owns the broker calls do_work() again and again, and
\* handlers return.
FairSpec ==
  /\ Spec
  /\ WF_vars(frames = <<>> /\ DoWork /\ UNCHANGED matches)
  /\ WF_vars(Work /\ UNCHANGED matches)
  /\ WF_vars(HandlerReturns /\ UNCHANGED matches)

-----------------------------------------------------------------------------
(* Properties                                                               *)

\* The frames of do_work(), and what a handler can be called with.
Visiting == [act : Action \cup {Idle}, i : Nat, run : BOOLEAN]
Notification ==
  {Start(p) : p \in Producers} \cup {Stop(p) : p \in Producers}
  \cup {Event(p, e) : p \in Producers, e \in 1 .. MaxEvents}

\* The types of the variables.
TypeOK ==
  /\ handle \in [Ids -> {"new", "open", "closed"}]
  /\ life \in {"up", "gone", "terminated"}
  /\ producers \in Seq(Producers) /\ consumers \in Seq(Consumers)
  /\ pending \in Seq(Action)
  /\ heap \subseteq Ids
  /\ subs \in [Producers -> Seq(Consumers)]
  /\ notify \in [Consumers -> {"user", "noop"}]
  /\ frames \in Seq(Visiting)
  /\ Len(frames) <= MaxDepth
  /\ calls \in Seq(Action)
  /\ seen \in [Consumers -> Seq(Notification)]
  /\ uaf \in BOOLEAN

\* The producers and consumers an action points to.
Targets(a) ==
  IF a.op \in {"InitProducer", "DestroyProducer", "Publish"} THEN {a.p}
  ELSE IF a.op \in {"InitConsumer", "DestroyConsumer"} THEN {a.c} ELSE {}

\* No raw pointer dangles: what the queue, the visit under way and the
\* consumer lists of the producers point to is in memory.  (The consumer a
\* DestroyConsumer frees is not touched after that.)
NoDangling ==
  life = "up" =>
    /\ \A k \in DOMAIN pending : Targets(pending[k]) \subseteq heap
    /\ \A k \in DOMAIN frames :
         frames[k].act.op # "DestroyConsumer" => Targets(frames[k].act) \subseteq heap
    /\ \A p \in Producers : Range(subs[p]) \subseteq heap
    /\ Range(producers) \cup Range(consumers) \subseteq heap

\* keryx_assert(it != producers.end()), and its counterpart for consumers,
\* where erase(end()) would be undefined: the target of a destroy action is
\* registered, once, when its turn comes.
DestroyFindsTarget ==
  life = "up" /\ pending # <<>> /\ (frames = <<>> \/ Top.act = Idle) =>
    LET a == Head(pending)
        Entries(s, x) == Cardinality({k \in DOMAIN s : s[k] = x})
    IN /\ a.op = "DestroyProducer" => Entries(producers, a.p) = 1
       /\ a.op = "DestroyConsumer" => Entries(consumers, a.c) = 1

\* The broker's pointers: of the right kind, alive, and registered when it counts.
PointersValid == TypeOK /\ NoDangling /\ DestroyFindsTarget

\* Once the queue is drained nothing leaks: what is in memory is what has an
\* open handle, and it is registered.
NoLeak ==
  life = "up" /\ frames = <<>> /\ pending = <<>> =>
    /\ heap = {x \in Ids : handle[x] = "open"}
    /\ heap = Range(producers) \cup Range(consumers)

\* a is among the first k of the calls h.
Made(h, a, k) == \E j \in 1 .. k : h[j] = a

\* The k-th of the calls h owes c the notification n: START when it makes the second of
\* producer and consumer, the events published from then on, STOP when the producer
\* goes - up to the moment c is destroyed.
Owes(h, k, c, n) ==
  /\ <<n.p, c>> \in matches
  /\ Made(h, InitProducer(n.p), k) /\ ~Made(h, DestroyProducer(n.p), k - 1)
  /\ Made(h, InitConsumer(c), k) /\ ~Made(h, DestroyConsumer(c), k)
  /\ CASE n.kind = "START" -> h[k] \in {InitProducer(n.p), InitConsumer(c)}
       [] n.kind = "EVENT" -> h[k] = Publish(n.p, n.ev)
       [] n.kind = "STOP" -> h[k] = DestroyProducer(n.p)

\* However calls from outside and from handlers interleave, a consumer hears what the
\* order of the calls says: everything it hears is owed by a call, once, and it has
\* heard all that earlier calls owe it, of every stream.
StreamsFaithful ==
  \A c \in Consumers : \A i \in DOMAIN seen[c] :
    /\ \A j \in 1 .. i - 1 : seen[c][j] # seen[c][i]
    /\ \E k \in DOMAIN calls :
         /\ Owes(calls, k, c, seen[c][i])
         /\ \A j \in 1 .. k - 1, n \in Notification :
              Owes(calls, j, c, n) => \E m \in 1 .. i - 1 : seen[c][m] = n

\* Events of different streams keep the order of their publication too.
EventsInOrder ==
  \A c \in Consumers : \A j, k \in DOMAIN seen[c] :
    j < k /\ seen[c][j].kind = "EVENT" /\ seen[c][k].kind = "EVENT" => seen[c][j].ev < seen[c][k].ev

\* When do_work() has drained the queue, every living consumer has heard
\* everything it is owed.
DrainedIsComplete ==
  life = "up" /\ frames = <<>> /\ pending = <<>> =>
    \A c \in Consumers, k \in DOMAIN calls, n \in Notification :
      notify[c] = "user" /\ Owes(calls, k, c, n) => Contains(seen[c], n)

\* destroy_consumer works at once: the user's handler is never called again,
\* whatever is queued or under way.
SilentOnceDestroyed ==
  [][\A c \in Consumers : handle[c] = "closed" => seen'[c] = seen[c]]_vars

\* The API is safe to call from a handler: while one runs, the vector that the
\* loop around it ranges over does not change.
LoopsUndisturbed ==
  [][\A k \in DOMAIN frames :
       frames[k].run /\ life' = "up" =>
         CASE frames[k].act.op = "InitProducer" -> consumers' = consumers
           [] frames[k].act.op = "InitConsumer" -> producers' = producers
           [] OTHER -> subs'[frames[k].act.p] = subs[frames[k].act.p]]_vars

\* With handlers that throw, deliveries may be missing; a stream still begins
\* with START, ends with STOP and keeps its order.
StreamsWellFormed ==
  \A c \in Consumers : \A k \in DOMAIN seen[c] :
    LET n == seen[c][k]
        Before == {j \in 1 .. k - 1 : seen[c][j].p = n.p}
    IN /\ n.kind = "START" <=> Before = {}
       /\ \A j \in Before : seen[c][j].kind # "STOP"
       /\ n.kind = "EVENT" => \A j \in Before : seen[c][j].kind = "EVENT" => seen[c][j].ev < n.ev

\* A handler is not destroyed while it runs.
RunningHandlerIntact ==
  \A k \in DOMAIN frames :
    frames[k].run =>
      LET a == frames[k].act
          c == IF a.op = "InitConsumer" THEN a.c ELSE Loop(a)[frames[k].i - 1]
      IN notify[c] = "user"

\* Publisher and subscriber may go in any order, the broker last, without a
\* consumer being used after it was freed.
NoUseAfterFree == ~uaf

\* Every call takes effect: whatever is queued is visited in the end, unless the
\* process or the broker ends.
CallsTakeEffect ==
  \A a \in Action : Contains(pending, a) ~> (~Contains(pending, a) \/ life # "up")
=============================================================================
