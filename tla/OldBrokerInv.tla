---------------------------- MODULE OldBrokerInv ----------------------------
(***************************************************************************)
(* The inductive invariant behind the pointer safety of OldBroker, for     *)
(* handlers that do not call do_work() themselves (MaxDepth = 1).  It      *)
(* follows a ProducerImpl or ConsumerImpl through its life: created and    *)
(* queued for registration, registered, queued for destruction, forgotten  *)
(* and freed.                                                              *)
(***************************************************************************)
EXTENDS OldBroker

\* The visit under way.
Cur == IF frames = <<>> THEN Frame(Idle, 1, FALSE) ELSE frames[1]

Target(a) == IF a.op \in {"InitProducer", "DestroyProducer", "Publish"} THEN a.p ELSE a.c
IsCreation(a) == a.op \in {"InitProducer", "InitConsumer"}
IsDestruction(a) == a.op \in {"DestroyProducer", "DestroyConsumer"}

CreationQueued(x) == \E k \in DOMAIN pending : IsCreation(pending[k]) /\ Target(pending[k]) = x
DestructionQueued(x) == \E k \in DOMAIN pending : IsDestruction(pending[k]) /\ Target(pending[k]) = x

Registered(x) == x \in Range(producers) \cup Range(consumers)

\* Made, and not yet taken out by the visit of its destruction.
Live(x) == handle[x] = "open" \/ (handle[x] = "closed" /\ DestructionQueued(x))

Distinct(s) == \A i, j \in DOMAIN s : s[i] = s[j] => i = j

\* Of the queued actions on one target, the creation is the first and the destruction the last.
QueueInv ==
  \A j, k \in DOMAIN pending :
    j < k /\ Target(pending[j]) = Target(pending[k]) =>
      ~IsCreation(pending[k]) /\ ~IsDestruction(pending[j])

\* What is in memory, what is registered and what the queue points to follow from
\* the handle and the queue.
OwnerInv(x) ==
  /\ handle[x] # "closed" => ~DestructionQueued(x)
  /\ Live(x) => x \in heap /\ (Registered(x) <=> ~CreationQueued(x))
  /\ ~Live(x) => /\ ~Registered(x)
                 /\ \A k \in DOMAIN pending : Target(pending[k]) # x
                 /\ x \in heap => Cur.act.op = "DestroyProducer" /\ Cur.act.p = x

\* The visit under way has a target that is registered, or that its own visit took out.
VisitInv ==
  /\ Cur.i >= 1
  /\ Cur.run => Cur.act.op \in {"InitProducer", "InitConsumer", "Publish", "DestroyProducer"}
  /\ Cur.act.op \in {"InitProducer", "InitConsumer", "Publish"} => Registered(Target(Cur.act))
  /\ IsDestruction(Cur.act) => handle[Target(Cur.act)] = "closed" /\ ~Live(Target(Cur.act))
  /\ Cur.act.op = "DestroyProducer" => Cur.act.p \in heap

\* A producer lists registered consumers, each of them once; the loops that add them
\* have not been where they still have to go.
SubsInv(p) ==
  /\ Distinct(subs[p]) /\ Range(subs[p]) \subseteq Range(consumers)
  /\ subs[p] # <<>> => Registered(p) \/ (Cur.act.op = "DestroyProducer" /\ Cur.act.p = p)
  /\ Cur.act.op = "InitProducer" /\ Cur.act.p = p =>
       \A j \in DOMAIN consumers : j >= Cur.i => consumers[j] \notin Range(subs[p])
  /\ Cur.act.op = "InitConsumer" =>
       \A j \in DOMAIN producers : j >= Cur.i /\ producers[j] = p => Cur.act.c \notin Range(subs[p])

\* A consumer whose handle is gone has the empty handler.
SilentInv == \A c \in Consumers : handle[c] = "closed" => notify[c] = "noop"

MemoryInv ==
  /\ QueueInv /\ VisitInv
  /\ Distinct(producers) /\ Distinct(consumers)
  /\ \A x \in Ids : OwnerInv(x)
  /\ \A p \in Producers : SubsInv(p)
  /\ ~uaf

BrokerIInv == TypeOK /\ SilentInv /\ (life = "up" => MemoryInv)

-----------------------------------------------------------------------------
(* The streams, built on it                                                 *)

\* The visit of p's destruction has begun, or is over.
Gone(p) == handle[p] = "closed" /\ ~DestructionQueued(p)

\* The consumers the loop of the visit under way will not get to any more.
Passed(p, c) == \A j \in DOMAIN subs[p] : j >= Cur.i => subs[p][j] # c

\* c has heard of p, and that p has stopped.
Knows(c, p) == \E k \in DOMAIN seen[c] : seen[c][k].p = p
Stopped(c, p) == \E k \in DOMAIN seen[c] : seen[c][k].p = p /\ seen[c][k].kind = "STOP"

\* A consumer that heard of a stream is listed by its producer until one of them goes,
\* a listed one has heard, and STOP is sent when no more is to come.
StreamInv(c, p) ==
  /\ Knows(c, p) => handle[c] = "closed" \/ Gone(p) \/ c \in Range(subs[p])
  /\ c \in Range(subs[p]) /\ notify[c] = "user" => Knows(c, p)
  /\ Stopped(c, p) => Gone(p) /\ (Cur.act.op = "DestroyProducer" /\ Cur.act.p = p => Passed(p, c))

\* Events are numbered as they are queued, and the visit under way is older than the queue.
NumbersInv ==
  /\ \A k \in DOMAIN pending : pending[k].op = "Publish" =>
       /\ pending[k].ev <= Published
       /\ \A j \in 1 .. k - 1 : pending[j].op = "Publish" => pending[j].ev < pending[k].ev
       /\ Cur.act.op = "Publish" => Cur.act.ev < pending[k].ev
  /\ Cur.act.op = "Publish" => Cur.act.ev <= Published

\* What a consumer got is older than what is queued, and no newer than what is visited.
OrderInv(c) ==
  \A k \in DOMAIN seen[c] : seen[c][k].kind = "EVENT" =>
    /\ seen[c][k].ev <= Published
    /\ \A j \in DOMAIN pending : pending[j].op = "Publish" => seen[c][k].ev < pending[j].ev
    /\ Cur.act.op = "Publish" => \/ seen[c][k].ev < Cur.act.ev
                                 \/ seen[c][k].ev = Cur.act.ev /\ Passed(Cur.act.p, c)

StreamsIInv ==
  /\ BrokerIInv /\ StreamsWellFormed /\ EventsInOrder
  /\ life = "up" => /\ NumbersInv
                  /\ \A c \in Consumers : OrderInv(c) /\ \A p \in Producers : StreamInv(c, p)

-----------------------------------------------------------------------------
(* The deliveries, when handlers do not throw, built on both                *)

\* How many calls were taken off the queue.
Visited == Len(calls) - Len(pending)

\* The call that makes x, and the one that destroys it.
Creation(x) == IF x \in Producers THEN InitProducer(x) ELSE InitConsumer(x)
Destruction(x) == IF x \in Producers THEN DestroyProducer(x) ELSE DestroyConsumer(x)

\* The queue is the end of the calls, the visit is the last one taken off it, and the
\* handles say which calls were made, each of them once.
HistoryInv ==
  /\ Len(pending) <= Len(calls)
  /\ \A k \in DOMAIN pending : pending[k] = calls[Visited + k]
  /\ Cur.act # Idle => Visited >= 1 /\ Cur.act = calls[Visited]
  /\ \A x \in Ids : /\ handle[x] # "new" <=> Made(calls, Creation(x), Len(calls))
                    /\ handle[x] = "closed" <=> Made(calls, Destruction(x), Len(calls))
  /\ \A j, k \in DOMAIN calls :
       calls[j] = calls[k] /\ (IsCreation(calls[j]) \/ IsDestruction(calls[j])) => j = k

Told(c, n) == \E i \in DOMAIN seen[c] : seen[c][i] = n

\* The loop that adds consumers to producers has p and c still to match.
ToMatch(p, c) ==
  \/ Cur.act = InitProducer(p) /\ \E j \in DOMAIN consumers : j >= Cur.i /\ consumers[j] = c
  \/ Cur.act = InitConsumer(c) /\ \E j \in DOMAIN producers : j >= Cur.i /\ producers[j] = p

\* A producer lists those, and only those, whose filters accept its topic, and has told
\* them so.
ListedInv(p, c) ==
  /\ c \in Range(subs[p]) => <<p, c>> \in matches /\ (notify[c] = "user" => Told(c, Start(p)))
  /\ <<p, c>> \in matches /\ Registered(c) /\ (Registered(p) \/ Cur.act = DestroyProducer(p)) =>
       c \in Range(subs[p]) \/ ToMatch(p, c)

\* The visit under way has c still to tell of p.
Awaits(p, c) ==
  \/ ToMatch(p, c)
  \/ Cur.act.op \in {"Publish", "DestroyProducer"} /\ Cur.act.p = p /\ ~Passed(p, c)

\* A consumer has heard all that the calls taken off the queue owe it, the one being
\* visited perhaps excepted.
HeardInv(c) ==
  notify[c] = "user" =>
    \A k \in 1 .. Visited, n \in Notification :
      Owes(calls, k, c, n) => Told(c, n) \/ (k = Visited /\ Awaits(n.p, c))

DeliveryIInv ==
  /\ StreamsIInv /\ StreamsFaithful
  /\ life = "up" => /\ HistoryInv
                   /\ \A c \in Consumers : HeardInv(c) /\ \A p \in Producers : ListedInv(p, c)

-----------------------------------------------------------------------------
\* While the broker lives, no ConsumerImpl is used after it was freed.
NoUseWhileUp == life = "up" => ~uaf
=============================================================================
