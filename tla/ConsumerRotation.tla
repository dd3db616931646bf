-------------------------- MODULE ConsumerRotation --------------------------
(***************************************************************************)
(* How a consumer of a ConcurrentQueue chooses among the producers: by the *)
(* size each appears to have, in the order of the list, or with a          *)
(* ConsumerToken, which stays with a producer until everyone rotates.      *)
(* Producers are 1 .. tail in the order in which they were linked, and     *)
(* next_prod() of p is p - 1, 0 for nullptr.  What a producer appears to   *)
(* hold when it is asked is left open: it changes at any time, and its own *)
(* dequeue() may fail under contention.                                    *)
(***************************************************************************)
EXTENDS Integers, FiniteSets

CONSTANTS RotationCasts,       \* the sets of consumers that use a queue together
          Plain,       \* the consumers without a token; the others use theirs in every call
          QUOTA,       \* EXPLICIT_CONSUMER_CONSUMPTION_QUOTA_BEFORE_ROTATE
          MaxBulk,     \* bound: most elements the consumers ask for together
          MaxParties,  \* bound: consumers and producers together
          MaxOffset    \* bound: globalExplicitConsumerOffset

VARIABLES tail,            \* producerListTail
          linking,         \* producers counted in producerCount and not linked yet
          globalOffset,    \* globalExplicitConsumerOffset
          nextId,          \* nextExplicitConsumerId
          token,           \* consumer |-> its ConsumerToken
          call             \* consumer |-> the call it makes, or made last

rotationVars == <<tail, linking, globalOffset, nextId, token, call>>

nullptr == 0
NextProd(p) == p - 1
Around(p, t) == IF NextProd(p) = nullptr THEN t ELSE NextProd(p)    \* the list as a ring
After(p, t, n) == ((p - 1 - n) % t) + 1                             \* n times Around
ProducersCounted == tail + linking
Callers == DOMAIN call

NoCall == [at |-> "idle", kind |-> "none", max |-> 0, need |-> 0, ptr |-> nullptr, tail |-> nullptr,
           count |-> 0, best |-> nullptr, bestSize |-> 0, nonEmpty |-> 0,
           listed |-> 0, exhausted |-> {}, tries |-> 0, missed |-> {}]
\* Not fields of the code: only single dequeues so far; the length of the list at every
\* update, -1 if it varied.
NoToken == [id |-> -1, lastKnown |-> -1, items |-> 0, current |-> nullptr, desired |-> nullptr,
            single |-> TRUE, length |-> 0]

RotationInit ==
  /\ tail = nullptr /\ linking = 0 /\ globalOffset = 0 /\ nextId = 0
  /\ \E cast \in RotationCasts : token = [c \in cast |-> NoToken] /\ call = [c \in cast |-> NoCall]

Put(c, record) == call' = [call EXCEPT ![c] = record]
PutToken(c, record) == token' = [token EXCEPT ![c] = record]
Shared == <<tail, linking, globalOffset, nextId>>

\* A call ends with all it asked for, or short of it; then, who was never found empty?
Full(me) == NoCall
Short(me) == [NoCall EXCEPT !.missed = (1 .. me.listed) \ me.exhausted]
\* p was asked for need elements and gave got: less than that, and it appeared empty.
Asked(me, p, got) ==
  [me EXCEPT !.tries = @ + 1, !.need = @ - got,
             !.exhausted = IF got < me.need THEN @ \cup {p} ELSE @]
-----------------------------------------------------------------------------
CountProducer ==
  /\ ProducersCounted + Cardinality(Callers) < MaxParties /\ linking' = linking + 1
  /\ UNCHANGED <<tail, globalOffset, nextId, token, call>>

LinkProducer ==
  /\ linking > 0 /\ linking' = linking - 1 /\ tail' = tail + 1
  /\ UNCHANGED <<globalOffset, nextId, token, call>>

\* ConsumerToken(queue).
MakeConsumerToken(c) ==
  /\ call[c].at = "idle" /\ c \notin Plain /\ token[c].id = -1
  /\ PutToken(c, [NoToken EXCEPT !.id = nextId])
  /\ nextId' = nextId + 1
  /\ UNCHANGED <<tail, linking, globalOffset, call>>

Begin(c, kind, max, at) ==
  /\ call[c].at = "idle" /\ max * Cardinality(Callers) <= MaxBulk
  /\ Put(c, [NoCall EXCEPT !.at = at, !.kind = kind, !.max = max, !.need = max,
                            !.ptr = IF at = "token" THEN nullptr ELSE tail, !.listed = tail])
  /\ PutToken(c, [token[c] EXCEPT !.single = @ /\ max = 1])
  /\ UNCHANGED Shared

TryDequeue(c) == c \in Plain /\ Begin(c, "try_dequeue", 1, "score")
TryDequeueNonInterleaved(c) == c \in Plain /\ Begin(c, "non_interleaved", 1, "walk")
TryDequeueBulk(c, max) == c \in Plain /\ Begin(c, "bulk", max, "walk")
TryDequeueToken(c, max) ==
  /\ token[c].id # -1
  /\ Begin(c, IF max = 1 THEN "token" ELSE "token_bulk", max, "token")

\* try_dequeue: score the producers until three appear to have something.
Score(c, size) ==
  LET me == call[c]
      better == size > me.bestSize
  IN /\ me.at = "score" /\ me.nonEmpty < 3 /\ me.ptr # nullptr
     /\ Put(c, [me EXCEPT !.ptr = NextProd(@),
                          !.best = IF better THEN me.ptr ELSE @, !.bestSize = IF better THEN size ELSE @,
                          !.nonEmpty = IF size > 0 THEN @ + 1 ELSE @,
                          !.exhausted = IF size = 0 THEN @ \cup {me.ptr} ELSE @])
     /\ UNCHANGED <<Shared, token>>

\* Mutant: when the best producer has nothing after all, so has the queue.
TryBestOnly(c, got) ==
  LET me == call[c] IN
  /\ me.at = "score" /\ (me.nonEmpty = 3 \/ me.ptr = nullptr)
  /\ Put(c, IF me.nonEmpty = 0 \/ got = 0 THEN Short(me) ELSE Full(Asked(me, me.best, 1)))
  /\ UNCHANGED <<Shared, token>>

\* The best of them is tried first, then, from the tail there is now, all the others.
TryBest(c, got) ==
  LET me == call[c] IN
  /\ me.at = "score" /\ (me.nonEmpty = 3 \/ me.ptr = nullptr)
  /\ Put(c, IF me.nonEmpty = 0 THEN Short(me)
            ELSE IF got = 1 THEN Full(Asked(me, me.best, 1))
            ELSE [Asked(me, me.best, 0) EXCEPT !.at = "walk", !.ptr = tail, !.nonEmpty = 0, !.bestSize = 0])
  /\ UNCHANGED <<Shared, token>>

\* Down the list, without a token.
Walk(c, got) ==
  LET me == call[c]
      asked == IF me.ptr = me.best THEN me ELSE Asked(me, me.ptr, got)
  IN /\ me.at = "walk" /\ got <= me.need
     /\ Put(c, IF me.ptr = nullptr THEN Short(me)
               ELSE IF asked.need = 0 THEN Full(asked) ELSE [asked EXCEPT !.ptr = NextProd(@)])
     /\ UNCHANGED <<Shared, token>>
-----------------------------------------------------------------------------
\* With a token: is this its first time, or has the global offset changed?
CheckOffset(c) ==
  /\ call[c].at = "token"
  /\ Put(c, [call[c] EXCEPT !.at = IF token[c].desired = nullptr \/ token[c].lastKnown # globalOffset
                                   THEN "update" ELSE "current"])
  /\ UNCHANGED <<Shared, token>>

\* update_current_producer_after_rotation(): the tail, the count, the offset, in this order.
LoadProducerTail(c) ==
  /\ call[c].at = "update"
  /\ Put(c, IF token[c].desired = nullptr /\ tail = nullptr THEN Short(call[c])
            ELSE [call[c] EXCEPT !.at = "count", !.tail = tail])
  /\ UNCHANGED <<Shared, token>>

LoadProducerCount(c) ==
  /\ call[c].at = "count"
  /\ Put(c, [call[c] EXCEPT !.at = "rotate", !.count = ProducersCounted])
  /\ UNCHANGED <<Shared, token>>

\* Mutant: a token that is used for the first time starts where its id says.
FirstPlaceOnly(me, its) ==
  IF its.desired = nullptr THEN After(me.tail, me.tail, me.count - 1 - (its.id % me.count))
  ELSE After(its.desired, me.tail, (globalOffset - its.lastKnown) % me.count)

\* The designated place: where the token's id says, moved by as many as the offset has.
Place(me, its) ==
  LET first == IF its.desired # nullptr THEN its.desired
               ELSE After(me.tail, me.tail, me.count - 1 - (its.id % me.count))
  IN After(first, me.tail, (globalOffset - its.lastKnown) % me.count)

Rotate(c) ==
  LET me == call[c]
      its == token[c]
      seen == IF me.count = me.tail /\ its.length \in {0, me.count} THEN me.count ELSE -1
  IN /\ me.at = "rotate"
     /\ PutToken(c, [its EXCEPT !.desired = Place(me, its), !.current = Place(me, its),
                                !.lastKnown = globalOffset, !.items = 0, !.length = seen])
     /\ Put(c, [me EXCEPT !.at = "current", !.tail = nullptr, !.count = 0])
     /\ UNCHANGED Shared

\* Mutant: the count is compared before it is incremented.
QuotaMetLate(me, its) == its.items = QUOTA
QuotaMet(me, its) ==
  IF me.kind = "token" THEN its.items + 1 = QUOTA ELSE its.items + me.max >= QUOTA

\* Beyond the quota it makes no difference how many they are (parts of bulks add up).
Capped(items) == IF items > QUOTA THEN QUOTA + 1 ELSE items

\* The token's current producer first.  Enough from it: perhaps everyone must rotate.
TryCurrent(c, got) ==
  LET me == call[c]
      its == token[c]
      asked == Asked(me, its.current, got)
  IN /\ me.at = "current" /\ got <= me.need
     /\ PutToken(c, [its EXCEPT !.items = Capped(@ + got)])
     /\ Put(c, IF asked.need > 0 THEN [asked EXCEPT !.at = "ring", !.tail = tail, !.ptr = Around(its.current, tail)]
               ELSE IF QuotaMet(me, its) THEN [asked EXCEPT !.at = "advance"] ELSE Full(asked))
     /\ UNCHANGED Shared

AdvanceOffset(c) ==
  /\ call[c].at = "advance" /\ globalOffset < MaxOffset
  /\ globalOffset' = globalOffset + 1
  /\ Put(c, Full(call[c]))
  /\ UNCHANGED <<tail, linking, nextId, token>>

\* Mutant: the round ends like the walks without a token.
RoundToEnd(me, its) == me.ptr = nullptr
RoundEnds(me, its) == me.ptr = its.current

\* Then the others, around the list; whoever has something is the current one from then on.
Ring(c, got) ==
  LET me == call[c]
      its == token[c]
      asked == Asked(me, me.ptr, got)
  IN /\ me.at = "ring" /\ got <= me.need
     /\ IF RoundEnds(me, its) THEN Put(c, Short(me)) /\ UNCHANGED token
        ELSE /\ PutToken(c, IF got = 0 THEN its ELSE [its EXCEPT !.current = me.ptr, !.items = got])
             /\ Put(c, IF asked.need = 0 THEN Full(asked) ELSE [asked EXCEPT !.ptr = Around(@, me.tail)])
     /\ UNCHANGED Shared

RotationStep(c) ==
  \/ MakeConsumerToken(c) \/ TryDequeue(c) \/ TryDequeueNonInterleaved(c)
  \/ \E max \in 1 .. MaxBulk : TryDequeueBulk(c, max) \/ TryDequeueToken(c, max)
  \/ \E size \in 0 .. 2 : Score(c, size)
  \/ \E got \in 0 .. 1 : TryBest(c, got)
  \/ \E got \in 0 .. MaxBulk : Walk(c, got) \/ TryCurrent(c, got) \/ Ring(c, got)
  \/ CheckOffset(c) \/ LoadProducerTail(c) \/ LoadProducerCount(c) \/ Rotate(c) \/ AdvanceOffset(c)

RotationNext == CountProducer \/ LinkProducer \/ \E c \in Callers : RotationStep(c)

RotationSpec == RotationInit /\ [][RotationNext]_rotationVars
-----------------------------------------------------------------------------
\* "Returns false if all producer streams appeared empty at the time they were checked":
\* when a call comes back short, every producer that was listed when it began was asked
\* in it and appeared empty, however the list, the offset and the token moved meanwhile.
EveryoneTried ==
  \A c \in Callers : call[c].missed = {}

\* A call comes to an end though the list grows under it and a bulk call goes on from
\* every producer that had something: a call for max elements asks at most max times
\* round the list (a call for one: nobody twice).
RoundsBounded ==
  \A c \in Callers : call[c].tries <= call[c].max * tail

\* "Every 256 items from one producer, make everyone rotate": a token that is used for
\* single dequeues never has more than the quota from the place it is at, whoever else
\* moves the offset.
QuotaRespected ==
  \A c \in Callers : token[c].single => token[c].items <= QUOTA

\* Tokens keep apart: while the list stays as it is, tokens that know the same offset
\* are at different producers, unless there are more of them than producers.
Spread ==
  \A c, d \in Callers :
    /\ token[c].length > 0 /\ token[c].length = token[d].length
    /\ token[c].lastKnown = token[d].lastKnown
    /\ token[c].desired = token[d].desired
    => token[c].id % token[c].length = token[d].id % token[c].length

\* The rotation does what its comment says: calls end, the quota makes tokens move on,
\* and tokens do not crowd one producer.
RotationKept == RoundsBounded /\ QuotaRespected /\ Spread
=============================================================================
