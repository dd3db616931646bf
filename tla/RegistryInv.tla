---------------------------- MODULE RegistryInv -----------------------------
(***************************************************************************)
(* The inductive invariant of ProducerRegistry.                            *)
(***************************************************************************)
EXTENDS ProducerRegistry

ASSUME RegistryAssumption ==
  /\ RegistryThreads \subseteq Nat \ {invalid_thread_id}
  /\ RegistryThreads \cap TokenThreads = {}
  /\ \A cast \in RegistryCasts : cast \subseteq RegistryThreads \cup TokenThreads
  /\ HashMod \in Nat \ {0}
  /\ InitialHashSize \in Nat \ {0}

Cast == DOMAIN rpc

\* Before a thread is counted, between that and its admission to a table, and after.
Arriving == {"count", "giveup"}
Waiting  == {"resize", "locked", "unlock", "fit"}
Linking  == {"tail", "link"}
Admitted == {"recycle", "tail", "link", "claim"}
Phases == {"idle"} \cup Arriving \cup Waiting \cup Admitted
Locals == [main : Nat, count : Nat, index : Nat, at : Nat, producer : Nat]

Entry == [key : RegistryThreads \cup {invalid_thread_id}, value : Nat]
IsTable(table) ==
  /\ Capacity(table) \in Nat \ {0}
  /\ table \in [0 .. Capacity(table) - 1 -> Entry]
ProducerStates == [kind : {"explicit", "implicit"}, inactive : BOOLEAN]
IsSequence(s) == s \in Seq({s[k] : k \in DOMAIN s})

\* The types of the variables.
RegistryTypes ==
  /\ IsSequence(tables) /\ Len(tables) > 0 /\ \A k \in DOMAIN tables : IsTable(tables[k])
  /\ resizing \in BOOLEAN
  /\ list \in Seq(Nat)
  /\ prod \in Seq(ProducerStates)
  /\ Cast \subseteq RegistryThreads \cup TokenThreads
  /\ rpc \in [Cast -> Phases]
  /\ local \in [Cast -> Locals]
  /\ holds \in [Cast -> Nat]

\* The producer that is t's, though perhaps not in t's hands yet.
Uses(t) == IF rpc[t] \in {"claim"} \cup Linking THEN local[t].producer ELSE holds[t]

\* A producer is one thread's, and then it is active; an implicit one is never given up.
UseInv ==
  /\ \A t \in Cast : Uses(t) # NoProducer =>
       Uses(t) \in DOMAIN prod /\ ~prod[Uses(t)].inactive /\ prod[Uses(t)].kind = KindOf(t)
  /\ \A p \in DOMAIN prod : prod[p].inactive => prod[p].kind = "explicit"
  /\ \A t, u \in Cast : Uses(t) = Uses(u) => t = u \/ Uses(t) = NoProducer
  /\ \A t \in Cast : holds[t] # NoProducer => rpc[t] \in {"idle", "claim"} /\ holds[t] = Uses(t)
  /\ \A t \in Cast : rpc[t] \in {"claim"} \cup Linking => local[t].producer # NoProducer
  /\ \A i \in DOMAIN list : list[i] \in DOMAIN prod

\* What a table says of its keys, if the threads hold h: each key is there once, where
\* its thread finds it, with the thread's producer.
TableOK(table, h) ==
  \A i \in DOMAIN table :
    IF table[i].key = invalid_thread_id THEN table[i] = Empty
    ELSE /\ table[i].key \in DOMAIN h /\ h[table[i].key] = table[i].value
         /\ table[i].value # NoProducer
         /\ FoundIn(table, table[i].key)
         /\ \A j \in DOMAIN table : table[j].key = table[i].key => i = j

HasKey(table, t) == \E i \in DOMAIN table : table[i].key = t

\* A thread that looks for a free slot has found those taken that it will meet first
\* when it looks for its key.
ClaimOK(table, t, index) ==
  /\ ~HasKey(table, t)
  /\ \E n \in Nat : /\ index % Capacity(table) = Slot(table, t, n)
                    /\ \A j \in 0 .. n - 1 : table[Slot(table, t, j)].key # invalid_thread_id

HashInv ==
  /\ \A k \in DOMAIN tables : TableOK(tables[k], holds)
  /\ FoundAgain
  /\ \A t \in Cast : rpc[t] = "claim" => ClaimOK(tables[local[t].main], t, local[t].index)
  /\ \A j, k \in DOMAIN tables : j <= k => Capacity(tables[j]) <= Capacity(tables[k])

\* Who is where, and with which table.
PhaseInv ==
  \A t \in Cast :
    /\ rpc[t] \in Arriving \cup Waiting \cup {"claim"} => t \in RegistryThreads
    /\ t \in RegistryThreads /\ rpc[t] # "idle" => local[t].main \in DOMAIN tables
    /\ rpc[t] = "recycle" => local[t].at <= Len(list)

\* Every producer is on the list once, or about to be linked.
ListInv ==
  /\ producerCount = Len(prod)
  /\ \A i, j \in DOMAIN list : list[i] = list[j] => i = j
  /\ \A t \in Cast : rpc[t] \in Linking => \A i \in DOMAIN list : list[i] # local[t].producer
  /\ \A p \in DOMAIN prod :
       \/ \E i \in DOMAIN list : list[i] = p
       \/ \E t \in Cast : rpc[t] \in Linking /\ local[t].producer = p

\* Is t counted in implicitProducerHashCount, being at l and holding h?
Counted(t, l, h) == t \in RegistryThreads /\ (h # NoProducer \/ l \in Waiting \cup Admitted)

\* The place i of t in the order of counting does not exceed the count t got, nor three
\* quarters of any table that has its key or will have it.
PlaceOK(t, i, l, r, tabs) ==
  /\ l \in Waiting => i <= r.count
  /\ l \in Admitted => i < ThreeQuarters(Capacity(tabs[r.main]))
  /\ \A k \in DOMAIN tabs : HasKey(tabs[k], t) => i < ThreeQuarters(Capacity(tabs[k]))

\* The threads that are counted, in the order in which they were.
OrderOf(s) ==
  /\ \A t \in Cast : Counted(t, rpc[t], holds[t]) <=> \E i \in DOMAIN s : s[i] = t
  /\ \A i, j \in DOMAIN s : s[i] = s[j] => i = j
  /\ \A i \in DOMAIN s : PlaceOK(s[i], i, rpc[s[i]], local[s[i]], tables)

CountInv == hashCount \in Nat /\ \E s \in [1 .. hashCount -> Cast] : OrderOf(s)

RegistryIInv ==
  RegistryTypes /\ UseInv /\ HashInv /\ PhaseInv /\ ListInv /\ CountInv
=============================================================================
