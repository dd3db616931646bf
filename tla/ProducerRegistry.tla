-------------------------- MODULE ProducerRegistry --------------------------
(***************************************************************************)
(* How a thread comes to its producer in a ConcurrentQueue: explicitly, by *)
(* a ProducerToken, which may take over a producer whose token is gone; or *)
(* implicitly, by a hash table from thread ids, which grows without moving *)
(* its entries: a larger table is put before it.  The list of producers    *)
(* only grows at its tail, so its length says which tail a thread saw.     *)
(* Build without thread_local: implicit producers are never given up.      *)
(***************************************************************************)
EXTENDS Integers, Sequences, FiniteSets

CONSTANTS RegistryThreads, \* ids of the threads that enqueue without a token
          TokenThreads,    \* threads that create and destroy a token
          RegistryCasts,   \* the sets of these that use a queue together
          HashMod,         \* hash_thread_id(id) is id % HashMod
          InitialHashSize, \* INITIAL_IMPLICIT_PRODUCER_HASH_SIZE
          MaxProducers, MaxTables    \* bounds: producers, hash tables ever created

VARIABLES
  tables,        \* the hash tables, the main one last: slot |-> key and value
  hashCount,     \* implicitProducerHashCount
  resizing,      \* implicitProducerHashResizeInProgress
  list,          \* the producers, in the order in which they were linked
  producerCount,
  prod,          \* producer |-> its kind, and whether it is inactive
  rpc,           \* thread |-> where it is
  local,         \* thread |-> mainHash, newCount, index, position in the list, producer
  holds          \* thread |-> the producer it uses, 0 if none

registryVars == <<tables, hashCount, resizing, list, producerCount, prod, rpc, local, holds>>

invalid_thread_id == 0
NoProducer == 0
Empty == [key |-> invalid_thread_id, value |-> NoProducer]
Table(capacity) == [i \in 0 .. capacity - 1 |-> Empty]
Capacity(table) == Cardinality(DOMAIN table)
NoLocal == [main |-> 0, count |-> 0, index |-> 0, at |-> 0, producer |-> NoProducer]
KindOf(t) == IF t \in TokenThreads THEN "explicit" ELSE "implicit"

RegistryInit ==
  /\ tables = <<Table(InitialHashSize)>>
  /\ hashCount = 0 /\ resizing = FALSE
  /\ list = <<>> /\ producerCount = 0
  /\ prod = <<>>
  /\ \E cast \in RegistryCasts :
       /\ rpc = [t \in cast |-> "idle"]
       /\ local = [t \in cast |-> NoLocal]
       /\ holds = [t \in cast |-> NoProducer]

StepTo(t, l) == rpc' = [rpc EXCEPT ![t] = l]
Keep(t, record) == local' = [local EXCEPT ![t] = record]
Done(t) == StepTo(t, "idle") /\ Keep(t, NoLocal)
-----------------------------------------------------------------------------
\* The slot that t meets in its n-th probe of a table, counting from 0.
Slot(table, t, n) == ((t % HashMod) + n) % Capacity(table)

\* Probing ends at the thread's own key, or at a free slot.
FoundAt(table, t, n) ==
  /\ table[Slot(table, t, n)].key = t
  /\ \A j \in 0 .. n - 1 : table[Slot(table, t, j)].key \notin {t, invalid_thread_id}
FoundIn(table, t) == \E n \in DOMAIN table : FoundAt(table, t, n)

\* get_or_add_implicit_producer(): through the tables, newest first.  One step: only t
\* itself ever writes its key, and a slot that is taken stays taken.  An entry of an
\* older table is added to the main one.
LookUp(t) ==
  LET found == {k \in DOMAIN tables : FoundIn(tables[k], t)} IN
  /\ rpc[t] = "idle" /\ t \in RegistryThreads
  /\ \E k \in found : \E n \in DOMAIN tables[k] :
       LET value == tables[k][Slot(tables[k], t, n)].value IN
       /\ \A j \in found : j <= k
       /\ FoundAt(tables[k], t, n)
       /\ holds' = [holds EXCEPT ![t] = value]
       /\ IF k = Len(tables) THEN UNCHANGED <<rpc, local>>
          ELSE /\ StepTo(t, "claim")
               /\ Keep(t, [NoLocal EXCEPT !.main = Len(tables), !.index = t % HashMod, !.producer = value])
  /\ UNCHANGED <<tables, hashCount, resizing, list, producerCount, prod>>

LookUpFails(t) ==
  /\ rpc[t] = "idle" /\ t \in RegistryThreads
  /\ \A k \in DOMAIN tables : ~FoundIn(tables[k], t)
  /\ StepTo(t, "count") /\ Keep(t, [NoLocal EXCEPT !.main = Len(tables)])
  /\ UNCHANGED <<tables, hashCount, resizing, list, producerCount, prod, holds>>

\* Mutant: the key is stored where the id hashes to, whoever is there.
ClaimStore(t) ==
  LET me == local[t] IN
  /\ rpc[t] = "claim"
  /\ tables' = [tables EXCEPT ![me.main][me.index % Capacity(tables[me.main])] = [key |-> t, value |-> me.producer]]
  /\ holds' = [holds EXCEPT ![t] = me.producer]
  /\ Done(t)
  /\ UNCHANGED <<hashCount, resizing, list, producerCount, prod>>

\* The key goes into the first free slot of the main table (the one t saw).
Claim(t) ==
  LET me == local[t]
      i == me.index % Capacity(tables[me.main])
  IN /\ rpc[t] = "claim"
     /\ IF tables[me.main][i].key = invalid_thread_id
        THEN /\ tables' = [tables EXCEPT ![me.main][i] = [key |-> t, value |-> me.producer]]
             /\ holds' = [holds EXCEPT ![t] = me.producer]
             /\ Done(t)
        ELSE Keep(t, [me EXCEPT !.index = i + 1]) /\ UNCHANGED <<tables, rpc, holds>>
     /\ UNCHANGED <<hashCount, resizing, list, producerCount, prod>>

CountIn(t) ==
  /\ rpc[t] = "count"
  /\ hashCount' = hashCount + 1
  /\ Keep(t, [local[t] EXCEPT !.count = hashCount + 1])
  /\ StepTo(t, "resize")
  /\ UNCHANGED <<tables, resizing, list, producerCount, prod, holds>>

HalfFull(t, k) == local[t].count >= Capacity(tables[k]) \div 2

\* The capacities that doubling leads to, as far as count calls for it.
Doublings(c, count) == {n \in 2 * c .. 4 * (c + count) : \E k \in 1 .. count + 1 : n = c * 2^k}

\* test_and_set, when the table is half full.
TryResize(t) ==
  LET lock == HalfFull(t, local[t].main) /\ ~resizing IN
  /\ rpc[t] = "resize"
  /\ resizing' = IF lock THEN TRUE ELSE resizing
  /\ StepTo(t, IF lock THEN "locked" ELSE "fit")
  /\ UNCHANGED <<tables, hashCount, list, producerCount, prod, local, holds>>

\* Under the lock: the newest table, and a larger one if that is half full too.
Resize(t) ==
  LET newest == Len(tables)
      larger == {n \in Doublings(Capacity(tables[newest]), local[t].count) : local[t].count < n \div 2}
  IN /\ rpc[t] = "locked"
     /\ IF HalfFull(t, newest)
        THEN /\ Len(tables) < MaxTables
             /\ \E n \in larger : (\A m \in larger : n <= m) /\ tables' = Append(tables, Table(n))
             /\ Keep(t, [local[t] EXCEPT !.main = newest + 1])
        ELSE Keep(t, [local[t] EXCEPT !.main = newest]) /\ UNCHANGED tables
     /\ StepTo(t, "unlock")
     /\ UNCHANGED <<hashCount, resizing, list, producerCount, prod, holds>>

ResizeFails(t) ==
  /\ rpc[t] = "locked" /\ HalfFull(t, Len(tables))
  /\ hashCount' = hashCount - 1
  /\ StepTo(t, "giveup")
  /\ UNCHANGED <<tables, resizing, list, producerCount, prod, local, holds>>

Unlock(t) ==
  /\ rpc[t] \in {"unlock", "giveup"}
  /\ resizing' = FALSE
  /\ IF rpc[t] = "giveup" THEN Done(t) ELSE StepTo(t, "fit") /\ UNCHANGED local
  /\ UNCHANGED <<tables, hashCount, list, producerCount, prod, holds>>

\* Mutant: a table may be filled to the last slot.
ThreeQuartersAll(capacity) == capacity + 1
ThreeQuarters(capacity) == capacity \div 2 + capacity \div 4

\* Below three quarters the table will do; if not, somebody is replacing it.
Fit(t) ==
  LET me == local[t]
      fits == me.count < ThreeQuarters(Capacity(tables[me.main]))
  IN /\ rpc[t] = "fit"
     /\ Keep(t, [me EXCEPT !.main = IF fits THEN @ ELSE Len(tables), !.at = IF fits THEN Len(list) ELSE 0])
     /\ StepTo(t, IF fits THEN "recycle" ELSE "resize")
     /\ UNCHANGED <<tables, hashCount, resizing, list, producerCount, prod, holds>>
-----------------------------------------------------------------------------
\* A new ProducerToken.
MakeToken(t) ==
  /\ rpc[t] = "idle" /\ t \in TokenThreads /\ holds[t] = NoProducer
  /\ StepTo(t, "recycle") /\ Keep(t, [NoLocal EXCEPT !.at = Len(list)])
  /\ UNCHANGED <<tables, hashCount, resizing, list, producerCount, prod, holds>>

\* ~ProducerToken: the producer, with what is in it, may be taken over.
DropToken(t) ==
  /\ rpc[t] = "idle" /\ t \in TokenThreads /\ holds[t] # NoProducer
  /\ prod' = [prod EXCEPT ![holds[t]].inactive = TRUE]
  /\ holds' = [holds EXCEPT ![t] = NoProducer]
  /\ UNCHANGED <<tables, hashCount, resizing, list, producerCount, rpc, local>>

\* The caller has its producer.
Got(t, p) ==
  IF t \in TokenThreads
  THEN holds' = [holds EXCEPT ![t] = p] /\ Done(t)
  ELSE /\ Keep(t, [local[t] EXCEPT !.producer = p, !.index = t % HashMod, !.at = 0])
       /\ StepTo(t, "claim") /\ UNCHANGED holds

\* Mutant: the flag is loaded and stored, not exchanged.
RecycleStore(t) ==
  LET me == local[t] IN
  /\ rpc[t] = "recycle" /\ me.at > 0
  /\ LET p == list[me.at] IN
     IF me.producer = p THEN Got(t, p) /\ prod' = [prod EXCEPT ![p].inactive = FALSE]
     ELSE /\ Keep(t, IF prod[p].inactive /\ prod[p].kind = KindOf(t) THEN [me EXCEPT !.producer = p] ELSE [me EXCEPT !.at = @ - 1])
          /\ UNCHANGED <<prod, rpc, holds>>
  /\ UNCHANGED <<tables, hashCount, resizing, list, producerCount>>

\* recycle_or_create_producer: an inactive one of the same kind, by exchanging its flag.
\* An implicit one was counted when it was created.
Recycle(t) ==
  LET me == local[t]
      p == list[me.at]
  IN /\ rpc[t] = "recycle" /\ me.at > 0
     /\ IF prod[p].inactive /\ prod[p].kind = KindOf(t)
        THEN /\ Got(t, p) /\ prod' = [prod EXCEPT ![p].inactive = FALSE]
             /\ hashCount' = IF t \in RegistryThreads THEN hashCount - 1 ELSE hashCount
        ELSE Keep(t, [me EXCEPT !.at = @ - 1]) /\ UNCHANGED <<hashCount, prod, rpc, holds>>
     /\ UNCHANGED <<tables, resizing, list, producerCount>>

\* None: create one and count it,
Create(t) ==
  /\ rpc[t] = "recycle" /\ local[t].at = 0 /\ Len(prod) < MaxProducers
  /\ prod' = Append(prod, [kind |-> KindOf(t), inactive |-> FALSE])
  /\ producerCount' = producerCount + 1
  /\ Keep(t, [local[t] EXCEPT !.producer = Len(prod) + 1])
  /\ StepTo(t, "tail")
  /\ UNCHANGED <<tables, hashCount, resizing, list, holds>>

CreateFails(t) ==
  /\ rpc[t] = "recycle" /\ local[t].at = 0
  /\ hashCount' = IF t \in RegistryThreads THEN hashCount - 1 ELSE hashCount
  /\ Done(t)
  /\ UNCHANGED <<tables, resizing, list, producerCount, prod, holds>>

\* and link it to the tail it has seen.
LoadTail(t) ==
  /\ rpc[t] = "tail"
  /\ Keep(t, [local[t] EXCEPT !.at = Len(list)])
  /\ StepTo(t, "link")
  /\ UNCHANGED <<tables, hashCount, resizing, list, producerCount, prod, holds>>

\* Mutant: the tail is stored, whatever it has become.
LinkStore(t) ==
  LET me == local[t] IN
  /\ rpc[t] = "link"
  /\ list' = Append(SubSeq(list, 1, me.at), me.producer)
  /\ Got(t, me.producer)
  /\ UNCHANGED <<tables, hashCount, resizing, producerCount, prod>>

Link(t) ==
  LET me == local[t] IN
  /\ rpc[t] = "link"
  /\ IF Len(list) = me.at
     THEN list' = Append(list, me.producer) /\ Got(t, me.producer)
     ELSE Keep(t, [me EXCEPT !.at = Len(list)]) /\ UNCHANGED <<list, rpc, holds>>
  /\ UNCHANGED <<tables, hashCount, resizing, producerCount, prod>>

RegistryStep(t) ==
  \/ LookUp(t) \/ LookUpFails(t) \/ Claim(t) \/ CountIn(t) \/ TryResize(t) \/ Resize(t) \/ ResizeFails(t) \/ Unlock(t) \/ Fit(t)
  \/ MakeToken(t) \/ DropToken(t) \/ Recycle(t) \/ Create(t) \/ CreateFails(t) \/ LoadTail(t) \/ Link(t)

RegistryNext == \E t \in DOMAIN rpc : RegistryStep(t)

RegistrySpec == RegistryInit /\ [][RegistryNext]_registryVars
-----------------------------------------------------------------------------
\* A thread and its producer belong together: no two threads or tokens ever use one
\* producer (a producer is for one thread at a time), and every table that knows a
\* thread knows its producer.
OwnProducer ==
  /\ \A t, u \in DOMAIN holds : t # u /\ holds[t] = holds[u] => holds[t] = NoProducer
  /\ \A k \in DOMAIN tables : \A i \in DOMAIN tables[k] :
       tables[k][i].key # invalid_thread_id => tables[k][i].value = holds[tables[k][i].key]

\* "Not an infinite loop because at least one slot is free in the hash table": with
\* newcomers, and with the keys of older tables that are added again lazily.
HashHasRoom == \A k \in DOMAIN tables : \E i \in DOMAIN tables[k] : tables[k][i] = Empty

\* A thread that has a producer finds it again whatever tables were added since.
FoundAgain ==
  \A t \in RegistryThreads \cap DOMAIN holds : holds[t] # NoProducer => \E k \in DOMAIN tables : FoundIn(tables[k], t)

\* Every producer that was ever created is on the list, once, when nobody is linking
\* one; and it is counted before it can be met there.
ListComplete ==
  /\ Len(list) <= producerCount
  /\ (\A t \in DOMAIN rpc : rpc[t] \notin {"tail", "link"}) =>
       /\ Len(list) = Len(prod) /\ producerCount = Len(list)
       /\ {list[k] : k \in DOMAIN list} = DOMAIN prod

\* Whatever was registered can be found: a producer by its thread, in a search that
\* ends, and by the consumers, on the list.
Findable == HashHasRoom /\ FoundAgain /\ ListComplete
=============================================================================
