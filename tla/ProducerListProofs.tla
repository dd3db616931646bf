------------------------- MODULE ProducerListProofs -------------------------
(***************************************************************************)
(* Proofs about ConcurrentQueue's list of producers.  ProducerRegistry: a  *)
(* producer is one thread's, and whoever was registered is found again.    *)
(* ConsumerRotation: every consumer asks everyone, in a bounded number of  *)
(* rounds, and tokens keep their quota and keep apart.                     *)
(***************************************************************************)
EXTENDS RegistryInv, RotationInv, ModLemmas, FiniteSetTheorems, TLAPS

-----------------------------------------------------------------------------
(* Who is registered, and who is found.                                     *)

\* A capacity is the number of slots.
LEMMA CapacityOf ==
  ASSUME NEW c \in Nat \ {0}, NEW X, NEW table \in [0 .. c - 1 -> X]
  PROVE  Capacity(table) = c
<1>1. DOMAIN table = 0 .. c - 1
  OBVIOUS
<1>2. Cardinality(0 .. c - 1) = c
  BY FS_Interval
<1> QED BY <1>1, <1>2 DEF Capacity

\* A new hash table is empty.
LEMMA NewTable ==
  ASSUME NEW c \in Nat \ {0}
  PROVE  /\ IsTable(Table(c)) /\ Capacity(Table(c)) = c
         /\ DOMAIN Table(c) = 0 .. c - 1
         /\ \A i \in 0 .. c - 1 : Table(c)[i] = Empty
<1>1. Table(c) \in [0 .. c - 1 -> Entry]
  BY DEF Table, Empty, Entry, NoProducer
<1>2. Capacity(Table(c)) = c
  BY <1>1, CapacityOf
<1> QED BY <1>1, <1>2 DEF IsTable, Table

\* A probe looks at a slot of the table.
LEMMA SlotRange ==
  ASSUME RegistryAssumption, NEW table, IsTable(table), NEW t \in RegistryThreads, NEW n \in Nat
  PROVE  Slot(table, t, n) \in DOMAIN table
<1>1. t \in Nat /\ HashMod \in Nat \ {0} /\ Capacity(table) \in Nat \ {0}
  BY DEF RegistryAssumption, IsTable
<1>2. t % HashMod \in Nat
  BY <1>1, ModRange
<1>3. ((t % HashMod) + n) \in Nat
  BY <1>2
<1>4. ((t % HashMod) + n) % Capacity(table) \in 0 .. Capacity(table) - 1
  BY <1>1, <1>3, ModRange
<1>5. DOMAIN table = 0 .. Capacity(table) - 1
  BY DEF IsTable
<1> QED BY <1>4, <1>5 DEF Slot

\* Storing into a slot changes that slot only: the probes stay what they were.
LEMMA PutTable ==
  ASSUME NEW table, IsTable(table), NEW i \in DOMAIN table, NEW e \in Entry
  PROVE  \E new : /\ new = [table EXCEPT ![i] = e]
                  /\ IsTable(new) /\ Capacity(new) = Capacity(table) /\ DOMAIN new = DOMAIN table
                  /\ new[i] = e /\ \A j \in DOMAIN table : j # i => new[j] = table[j]
                  /\ \A t, n : Slot(new, t, n) = Slot(table, t, n)
<1>1. PICK new : new = [table EXCEPT ![i] = e]
  OBVIOUS
<1>2. Capacity(table) \in Nat \ {0} /\ table \in [0 .. Capacity(table) - 1 -> Entry]
  BY DEF IsTable
<1>3. /\ DOMAIN new = DOMAIN table /\ new \in [0 .. Capacity(table) - 1 -> Entry]
      /\ new[i] = e /\ \A j \in DOMAIN table : j # i => new[j] = table[j]
  BY <1>1, <1>2
<1>4. Capacity(new) = Capacity(table)
  BY <1>3 DEF Capacity
<1>5. \A t, n : Slot(new, t, n) = Slot(table, t, n)
  BY <1>4 DEF Slot
<1>6. IsTable(new)
  BY <1>2, <1>3, <1>4 DEF IsTable
<1> QED BY <1>1, <1>3, <1>4, <1>5, <1>6

\* What the lemmas below say of a table in which a free slot i has been taken by t.
Taken(table, new, i, t) ==
  /\ IsTable(table) /\ IsTable(new) /\ DOMAIN new = DOMAIN table /\ i \in DOMAIN table
  /\ table[i].key = invalid_thread_id /\ new[i].key = t
  /\ \A j \in DOMAIN table : j # i => new[j] = table[j]
  /\ \A u, n : Slot(new, u, n) = Slot(table, u, n)

\* A key is still found when another thread has taken a free slot.
LEMMA FoundKept ==
  ASSUME RegistryAssumption, NEW table, NEW new, NEW i, NEW t \in RegistryThreads, Taken(table, new, i, t),
         NEW u \in RegistryThreads, u # t, FoundIn(table, u)
  PROVE  FoundIn(new, u)
<1>1. PICK n \in DOMAIN table : FoundAt(table, u, n)
  BY DEF FoundIn
<1>2. n \in Nat
  BY <1>1 DEF Taken, IsTable
<1>3. u # invalid_thread_id
  BY DEF RegistryAssumption
<1>4. \A j \in 0 .. n : Slot(table, u, j) \in DOMAIN table
  BY <1>2, SlotRange DEF Taken
<1>5. \A j \in 0 .. n : table[Slot(table, u, j)].key # invalid_thread_id
  BY <1>1, <1>2, <1>3 DEF FoundAt
<1>6. \A j \in 0 .. n : new[Slot(new, u, j)] = table[Slot(table, u, j)]
  BY <1>4, <1>5 DEF Taken
<1>7. FoundAt(new, u, n)
  BY <1>1, <1>2, <1>6 DEF FoundAt
<1> QED BY <1>7 DEF FoundIn, Taken

\* Who looks for a free slot has still found those taken that were taken.
LEMMA ClaimKept ==
  ASSUME RegistryAssumption, NEW table, NEW new, NEW i, NEW t \in RegistryThreads, Taken(table, new, i, t),
         NEW u \in RegistryThreads, u # t, NEW index, ClaimOK(table, u, index)
  PROVE  ClaimOK(new, u, index)
<1>1. PICK n \in Nat : /\ index % Capacity(table) = Slot(table, u, n)
                       /\ \A j \in 0 .. n - 1 : table[Slot(table, u, j)].key # invalid_thread_id
  BY DEF ClaimOK
<1>2. Capacity(new) = Capacity(table)
  BY DEF Taken, Capacity
<1>3. \A j \in 0 .. n - 1 : Slot(table, u, j) \in DOMAIN table
  BY SlotRange DEF Taken
<1>4. \A j \in 0 .. n - 1 : new[Slot(new, u, j)].key # invalid_thread_id
  BY <1>1, <1>3 DEF Taken
<1>5. index % Capacity(new) = Slot(new, u, n)
  BY <1>1, <1>2 DEF Taken
<1>6. ~HasKey(new, u)
  BY DEF ClaimOK, HasKey, Taken
<1> QED BY <1>4, <1>5, <1>6 DEF ClaimOK

\* The search for a free slot starts where the search for the key does,
LEMMA ClaimStarts ==
  ASSUME RegistryAssumption, NEW table, NEW t \in RegistryThreads, ~HasKey(table, t)
  PROVE  ClaimOK(table, t, t % HashMod)
<1>1. t % HashMod \in Nat
  BY ModRange DEF RegistryAssumption
<1>2. (t % HashMod) % Capacity(table) = Slot(table, t, 0)
  BY <1>1 DEF Slot
<1> QED BY <1>2 DEF ClaimOK

\* goes the same way,
LEMMA ClaimGoesOn ==
  ASSUME RegistryAssumption, NEW table, IsTable(table), NEW t \in RegistryThreads,
         NEW index \in Nat, ClaimOK(table, t, index),
         table[index % Capacity(table)].key # invalid_thread_id
  PROVE  ClaimOK(table, t, (index % Capacity(table)) + 1)
<1>1. PICK n \in Nat : /\ index % Capacity(table) = Slot(table, t, n)
                       /\ \A j \in 0 .. n - 1 : table[Slot(table, t, j)].key # invalid_thread_id
  BY DEF ClaimOK
<1>2. t % HashMod \in Nat /\ Capacity(table) \in Nat \ {0}
  BY ModRange DEF RegistryAssumption, IsTable
<1>3. PICK a \in Nat : a = (t % HashMod) + n
  <2>1. PICK h \in Nat : h = t % HashMod
    BY <1>2
  <2>2. h + n \in Nat
    OBVIOUS
  <2> QED BY <2>1, <2>2
<1>4. (t % HashMod) + (n + 1) = a + 1
  BY <1>2, <1>3
<1>5. ((a % Capacity(table)) + 1) % Capacity(table) = (a + 1) % Capacity(table)
  BY <1>2, ModSucc
<1>6. Slot(table, t, n) = a % Capacity(table)
  BY <1>3 DEF Slot
<1>7. Slot(table, t, n + 1) = (a + 1) % Capacity(table)
  BY <1>4 DEF Slot
<1>8. ((index % Capacity(table)) + 1) % Capacity(table) = Slot(table, t, n + 1)
  BY <1>1, <1>5, <1>6, <1>7, Zenon
<1>9. \A j \in 0 .. (n + 1) - 1 : table[Slot(table, t, j)].key # invalid_thread_id
  <2> SUFFICES ASSUME NEW j \in 0 .. n
               PROVE  table[Slot(table, t, j)].key # invalid_thread_id
    OBVIOUS
  <2>1. CASE j = n
    BY <1>1, <2>1
  <2>2. CASE j # n
    BY <1>1, <2>2
  <2> QED BY <2>1, <2>2
<1>10. n + 1 \in Nat
  OBVIOUS
<1> QED BY <1>8, <1>9, <1>10 DEF ClaimOK

\* and when it ends the key is where it will be found.
LEMMA ClaimEnds ==
  ASSUME RegistryAssumption, NEW table, NEW new, NEW t \in RegistryThreads, NEW index \in Nat,
         Taken(table, new, index % Capacity(table), t), ClaimOK(table, t, index)
  PROVE  FoundIn(new, t)
<1>1. PICK n \in Nat : /\ index % Capacity(table) = Slot(table, t, n)
                       /\ \A j \in 0 .. n - 1 : table[Slot(table, t, j)].key # invalid_thread_id
  BY DEF ClaimOK
<1>2. t % HashMod \in Nat /\ Capacity(table) \in Nat \ {0} /\ DOMAIN new = 0 .. Capacity(table) - 1
  BY ModRange DEF RegistryAssumption, IsTable, Taken
<1>3. n < Capacity(table)
  <2> SUFFICES ASSUME n >= Capacity(table)
               PROVE  FALSE
    BY <1>2
  <2>1. PICK b \in 0 .. n - 1 : b = n - Capacity(table)
    BY <1>2
  <2>2. Slot(table, t, b) = Slot(table, t, n)
    <3>1. PICK a \in Nat : a = (t % HashMod) + b
      BY <1>2, <2>1
    <3>2. (t % HashMod) + n = a + Capacity(table)
      <4>1. PICK h \in Nat, c \in Nat : h = t % HashMod /\ c = Capacity(table)
        BY <1>2
      <4>2. a = h + b /\ b = n - c
        BY <2>1, <3>1, <4>1
      <4>3. h + n = a + c
        BY <4>2
      <4> QED BY <4>1, <4>3
    <3>3. (a + Capacity(table)) % Capacity(table) = a % Capacity(table)
      BY <1>2, ModLap
    <3>4. Slot(table, t, n) = (a + Capacity(table)) % Capacity(table)
      BY <3>2 DEF Slot
    <3>5. Slot(table, t, b) = a % Capacity(table)
      BY <3>1 DEF Slot
    <3> QED BY <3>3, <3>4, <3>5, Zenon
  <2>3. table[Slot(table, t, n)].key = invalid_thread_id
    BY <1>1 DEF Taken
  <2> QED BY <1>1, <2>2, <2>3
<1>4. \A j \in 0 .. n - 1 : Slot(table, t, j) \in DOMAIN table
  BY SlotRange DEF Taken
<1>5. \A j \in 0 .. n - 1 : new[Slot(new, t, j)] = table[Slot(table, t, j)]
  BY <1>1, <1>4 DEF Taken
<1>6. \A j \in 0 .. n - 1 : table[Slot(table, t, j)].key # t
  BY <1>4 DEF ClaimOK, HasKey
<1>7. new[Slot(new, t, n)].key = t
  BY <1>1 DEF Taken
<1>8. FoundAt(new, t, n)
  BY <1>1, <1>5, <1>6, <1>7 DEF FoundAt
<1> QED BY <1>2, <1>3, <1>8 DEF FoundIn

\* A table stays right when threads get producers they had before, or their first ones,
LEMMA TableOther ==
  ASSUME NEW table, IsTable(table), NEW h, NEW g, TableOK(table, h), DOMAIN g = DOMAIN h,
         \A u \in DOMAIN h : u \in RegistryThreads => g[u] = h[u] \/ h[u] = NoProducer
  PROVE  TableOK(table, g)
<1> SUFFICES ASSUME NEW i \in DOMAIN table, table[i].key # invalid_thread_id
             PROVE  table[i].key \in DOMAIN g /\ g[table[i].key] = table[i].value
  BY DEF TableOK
<1>1. table[i].key \in DOMAIN h /\ h[table[i].key] = table[i].value /\ table[i].value # NoProducer
  BY DEF TableOK
<1>2. table[i].key \in RegistryThreads
  BY DEF IsTable, Entry
<1> QED BY <1>1, <1>2

\* and when t has taken a free slot with it.
LEMMA TableClaimed ==
  ASSUME RegistryAssumption, NEW table, NEW new, NEW i, NEW t \in RegistryThreads, Taken(table, new, i, t),
         ~HasKey(table, t), FoundIn(new, t), NEW g, TableOK(table, g),
         t \in DOMAIN g, g[t] = new[i].value, new[i].value # NoProducer
  PROVE  TableOK(new, g)
<1>1. TableOK(table, g)
  OBVIOUS
<1>2. t # invalid_thread_id
  BY DEF RegistryAssumption
<1>3. \A j \in DOMAIN new : new[j].key = t => j = i
  BY DEF HasKey, Taken
<1> SUFFICES ASSUME NEW j \in DOMAIN new
             PROVE  IF new[j].key = invalid_thread_id THEN new[j] = Empty
                    ELSE /\ new[j].key \in DOMAIN g /\ g[new[j].key] = new[j].value
                         /\ new[j].value # NoProducer
                         /\ FoundIn(new, new[j].key)
                         /\ \A k \in DOMAIN new : new[k].key = new[j].key => j = k
  BY DEF TableOK
<1>4. CASE j = i
  BY <1>2, <1>3, <1>4 DEF Taken
<1>5. CASE j # i
  <2>1. new[j] = table[j] /\ j \in DOMAIN table /\ table[j] \in Entry
    BY <1>5 DEF Taken, IsTable
  <2>2. CASE table[j].key = invalid_thread_id
    BY <1>1, <2>1, <2>2 DEF TableOK
  <2>3. CASE table[j].key # invalid_thread_id
    <3>1. table[j].key \in RegistryThreads /\ table[j].key # t
      BY <2>1, <2>3 DEF Entry, HasKey
    <3>2. /\ table[j].key \in DOMAIN g /\ g[table[j].key] = table[j].value /\ table[j].value # NoProducer
          /\ FoundIn(table, table[j].key)
          /\ \A k \in DOMAIN table : table[k].key = table[j].key => j = k
      BY <1>1, <2>1, <2>3 DEF TableOK
    <3>3. FoundIn(new, table[j].key)
      BY <3>1, <3>2, FoundKept
    <3>4. \A k \in DOMAIN new : new[k].key = new[j].key => j = k
      BY <2>1, <3>1, <3>2 DEF Taken
    <3> QED BY <2>1, <2>3, <3>2, <3>3, <3>4
  <2> QED BY <2>2, <2>3
<1> QED BY <1>4, <1>5

\* Three quarters of the slots, of no more than all of them.
LEMMA QuartersFacts ==
  ASSUME NEW c \in Nat, NEW d \in Nat, c <= d
  PROVE  ThreeQuarters(c) \in Nat /\ ThreeQuarters(c) <= c /\ ThreeQuarters(c) <= ThreeQuarters(d)
BY DEF ThreeQuarters

\* A table whose keys have different places below three quarters has a free slot.
LEMMA Room ==
  ASSUME NEW table, IsTable(table), NEW h, TableOK(table, h), NEW m \in Nat, NEW X, NEW s \in [1 .. m -> X],
         \A i \in DOMAIN table : table[i].key # invalid_thread_id =>
            \E j \in 1 .. m : s[j] = table[i].key /\ j < ThreeQuarters(Capacity(table))
  PROVE  \E i \in DOMAIN table : table[i] = Empty
<1> SUFFICES ASSUME \A i \in DOMAIN table : table[i].key # invalid_thread_id
             PROVE  FALSE
  BY DEF TableOK
<1> DEFINE c == Capacity(table)
           Where(i) == CHOOSE j \in 1 .. m : s[j] = table[i].key /\ j < ThreeQuarters(c)
           f == [i \in 0 .. c - 1 |-> Where(i)]
<1>1. c \in Nat \ {0} /\ DOMAIN table = 0 .. c - 1
  BY DEF IsTable
<1>2. ThreeQuarters(c) \in Nat /\ ThreeQuarters(c) <= c
  BY <1>1, QuartersFacts
<1>3. \A i \in 0 .. c - 1 : Where(i) \in 1 .. m /\ s[Where(i)] = table[i].key /\ Where(i) < ThreeQuarters(c)
  BY <1>1
<1> HIDE DEF c, Where
<1>4. f \in [0 .. c - 1 -> 1 .. c - 1]
  BY <1>1, <1>2, <1>3
<1>5. \A i, j \in 0 .. c - 1 : f[i] = f[j] => i = j
  <2> SUFFICES ASSUME NEW i \in 0 .. c - 1, NEW j \in 0 .. c - 1, Where(i) = Where(j)
               PROVE  i = j
    OBVIOUS
  <2>1. table[i].key = table[j].key
    BY <1>3
  <2> QED BY <1>1, <2>1 DEF TableOK
<1>6. f \in Injection(0 .. c - 1, 1 .. c - 1)
  BY <1>4, <1>5 DEF Injection, IsInjective
<1>7. Cardinality(0 .. c - 1) = c /\ Cardinality(1 .. c - 1) = c - 1 /\ IsFiniteSet(1 .. c - 1)
  BY <1>1, FS_Interval
<1>8. Cardinality(0 .. c - 1) <= Cardinality(1 .. c - 1)
  BY <1>6, <1>7, FS_Injection
<1> QED BY <1>1, <1>7, <1>8

-----------------------------------------------------------------------------
\* Sequences, whatever is in them.
LEMMA SequenceFacts ==
  ASSUME NEW s, IsSequence(s)
  PROVE  Len(s) \in Nat /\ DOMAIN s = 1 .. Len(s)
BY DEF IsSequence

\* A sequence of something is a sequence.
LEMMA SequenceOf ==
  ASSUME NEW X, NEW s \in Seq(X)
  PROVE  IsSequence(s)
<1>1. Len(s) \in Nat /\ s \in [1 .. Len(s) -> X]
  OBVIOUS
<1>2. s \in [1 .. Len(s) -> {s[k] : k \in DOMAIN s}]
  BY <1>1
<1> QED BY <1>1, <1>2 DEF IsSequence

\* The sequence new is s and then x.
Grown(s, x, new) ==
  /\ IsSequence(new) /\ Len(new) = Len(s) + 1 /\ DOMAIN new = 1 .. Len(s) + 1
  /\ new[Len(s) + 1] = x /\ \A k \in DOMAIN s : new[k] = s[k]

\* A table is put before the others.
LEMMA SequenceGrows ==
  ASSUME NEW s, IsSequence(s), NEW x, NEW new, new = Append(s, x)
  PROVE  Grown(s, x, new)
<1>1. PICK X : X = {s[k] : k \in DOMAIN s} \cup {x}
  OBVIOUS
<1>2. s \in Seq(X) /\ x \in X
  <2>1. Len(s) \in Nat /\ s \in [1 .. Len(s) -> {s[k] : k \in DOMAIN s}]
    BY DEF IsSequence
  <2>2. s \in [1 .. Len(s) -> X]
    BY <1>1, <2>1
  <2> QED BY <1>1, <2>1, <2>2
<1>3. /\ new \in Seq(X) /\ Len(new) = Len(s) + 1 /\ DOMAIN new = 1 .. Len(s) + 1
      /\ new[Len(s) + 1] = x /\ \A k \in DOMAIN s : new[k] = s[k]
  BY <1>2
<1>4. IsSequence(new)
  BY <1>3, SequenceOf
<1> QED BY <1>3, <1>4 DEF Grown

\* Some of the tables change.
LEMMA SequencePut ==
  ASSUME NEW s, IsSequence(s), NEW new, new = [j \in DOMAIN s |-> new[j]]
  PROVE  IsSequence(new) /\ Len(new) = Len(s) /\ DOMAIN new = DOMAIN s
<1>1. Len(s) \in Nat /\ DOMAIN s = 1 .. Len(s)
  BY SequenceFacts
<1>2. DOMAIN new = 1 .. Len(s)
  BY <1>1
<1>3. new \in [1 .. Len(s) -> {new[j] : j \in DOMAIN new}]
  BY <1>1, <1>2
<1>4. Len(new) = Len(s) /\ new \in Seq({new[j] : j \in DOMAIN new})
  BY <1>1, <1>3
<1> QED BY <1>1, <1>2, <1>4 DEF IsSequence

-----------------------------------------------------------------------------
\* A step of t to l with the locals r leaves the other threads where they are.
Moves(t, l, r) ==
  /\ Cast' = Cast /\ rpc' \in [Cast -> Phases] /\ local' \in [Cast -> Locals]
  /\ rpc'[t] = l /\ local'[t] = r
  /\ \A u \in Cast : u # t => rpc'[u] = rpc[u] /\ local'[u] = local[u]

\* What StepTo and Keep do.
LEMMA Moved ==
  ASSUME RegistryTypes, NEW t \in Cast, NEW l \in Phases, NEW r \in Locals, StepTo(t, l), Keep(t, r)
  PROVE  Moves(t, l, r)
BY DEF Moves, RegistryTypes, StepTo, Keep, Cast

\* A step of t to l with the locals r that keeps the producer it uses.
MoveOK(t, l, r) ==
  /\ Uses(t) = IF l \in {"claim"} \cup Linking THEN r.producer ELSE holds[t]
  /\ l \in Linking <=> rpc[t] \in Linking
  /\ l \in {"claim"} \cup Linking => r.producer # NoProducer
  /\ holds[t] # NoProducer => l \in {"idle", "claim"}
  /\ l \in Arriving \cup Waiting \cup {"claim"} => t \in RegistryThreads
  /\ t \in RegistryThreads /\ l # "idle" => r.main \in DOMAIN tables
  /\ l = "recycle" => r.at <= Len(list)
  /\ l = "claim" => ClaimOK(tables[r.main], t, r.index)

\* If the tables and the list stay as they are too, so does what the invariant says of
\* them.
LEMMA QuietMove ==
  ASSUME RegistryIInv, NEW t \in Cast, NEW l \in Phases, NEW r \in Locals, Moves(t, l, r),
         UNCHANGED <<tables, holds, list, prod, producerCount>>, resizing' \in BOOLEAN, MoveOK(t, l, r)
  PROVE  RegistryTypes' /\ UseInv' /\ HashInv' /\ PhaseInv' /\ ListInv'
<1> USE DEF MoveOK
<1>1. RegistryTypes'
  BY DEF RegistryIInv, RegistryTypes, Moves
<1>2. \A u \in Cast : Uses(u)' = Uses(u)
  BY DEF Uses, Moves
<1>3. UseInv'
  BY <1>2 DEF RegistryIInv, UseInv, Moves
<1>4. HashInv'
  BY DEF RegistryIInv, HashInv, FoundAgain, Moves
<1>5. PhaseInv'
  BY DEF RegistryIInv, PhaseInv, Moves
<1>6. ListInv'
  <2>1. \A u \in Cast : /\ rpc'[u] \in Linking <=> rpc[u] \in Linking
                        /\ rpc[u] \in Linking => local'[u].producer = local[u].producer
    BY DEF Uses, Moves
  <2>2. Cast' = Cast
    BY DEF Moves
  <2> QED BY <2>1, <2>2 DEF RegistryIInv, ListInv
<1> QED BY <1>1, <1>3, <1>4, <1>5, <1>6

\* A step that counts nobody keeps the order of counting.
LEMMA CountKept ==
  ASSUME RegistryIInv, Cast' = Cast, hashCount' = hashCount,
         \A u \in Cast : Counted(u, rpc'[u], holds'[u]) <=> Counted(u, rpc[u], holds[u]),
         \A u \in Cast : \A i \in Nat :
           Counted(u, rpc[u], holds[u]) /\ PlaceOK(u, i, rpc[u], local[u], tables)
             => PlaceOK(u, i, rpc'[u], local'[u], tables')
  PROVE  CountInv'
<1>1. PICK s \in [1 .. hashCount -> Cast] : OrderOf(s)
  BY DEF RegistryIInv, CountInv
<1>2. hashCount \in Nat
  BY DEF RegistryIInv, CountInv
<1>3. OrderOf(s)'
  <2>1. \A i \in DOMAIN s : PlaceOK(s[i], i, rpc'[s[i]], local'[s[i]], tables')
    BY <1>1, <1>2 DEF OrderOf
  <2> QED BY <1>1, <2>1 DEF OrderOf
<1> QED BY <1>1, <1>2, <1>3 DEF CountInv

\* A thread that fails is no longer counted, and nobody's place gets worse.
LEMMA CountLess ==
  ASSUME RegistryIInv, NEW t \in Cast, NEW l \in Phases, NEW r \in Locals, Moves(t, l, r),
         UNCHANGED <<tables, holds>>, hashCount' = hashCount - 1,
         Counted(t, rpc[t], holds[t]), ~Counted(t, l, holds[t])
  PROVE  CountInv'
<1>1. PICK s \in [1 .. hashCount -> Cast] : OrderOf(s)
  BY DEF RegistryIInv, CountInv
<1>2. PICK m \in Nat : m = hashCount
  BY DEF RegistryIInv, CountInv
<1>3. PICK e \in 1 .. m : s[e] = t
  BY <1>1, <1>2 DEF OrderOf
<1>4. PICK x : x = [i \in 1 .. m - 1 |-> IF i < e THEN s[i] ELSE s[i + 1]]
  OBVIOUS
<1>5. \A i \in 1 .. m - 1 : IF i < e THEN x[i] = s[i] ELSE x[i] = s[i + 1]
  BY <1>4
<1>6. s \in [1 .. m -> Cast] /\ DOMAIN s = 1 .. m
  BY <1>1, <1>2
<1>7. x \in [1 .. m - 1 -> Cast] /\ DOMAIN x = 1 .. m - 1
  <2>1. \A i \in 1 .. m - 1 : i \in 1 .. m /\ i + 1 \in 1 .. m
    OBVIOUS
  <2>2. \A i \in 1 .. m - 1 : s[i] \in Cast /\ s[i + 1] \in Cast
    BY <1>6, <2>1
  <2> QED BY <1>4, <2>2
<1>8. \A i, j \in 1 .. m : s[i] = s[j] => i = j
  BY <1>1, <1>6 DEF OrderOf
<1>9. \A i \in 1 .. m - 1 : x[i] # t
  <2> SUFFICES ASSUME NEW i \in 1 .. m - 1, x[i] = t
               PROVE  FALSE
    OBVIOUS
  <2>1. CASE i < e
    BY <1>3, <1>5, <1>8, <2>1
  <2>2. CASE ~(i < e)
    <3>1. i + 1 \in 1 .. m /\ x[i] = s[i + 1]
      BY <1>5, <2>2
    <3> QED BY <1>3, <1>8, <2>2, <3>1
  <2> QED BY <2>1, <2>2
<1>10. OrderOf(x)'
  <2>1. \A u \in Cast : Counted(u, rpc'[u], holds'[u]) <=> \E i \in DOMAIN x : x[i] = u
    <3> SUFFICES ASSUME NEW u \in Cast
                 PROVE  Counted(u, rpc'[u], holds'[u]) <=> \E i \in 1 .. m - 1 : x[i] = u
      BY <1>7
    <3>1. CASE u = t
      BY <1>9, <3>1 DEF Moves
    <3>2. CASE u # t
      <4>1. Counted(u, rpc'[u], holds'[u]) <=> \E i \in 1 .. m : s[i] = u
        BY <1>1, <1>6, <3>2 DEF OrderOf, Moves
      <4>2. ASSUME NEW i \in 1 .. m, s[i] = u
            PROVE  \E j \in 1 .. m - 1 : x[j] = u
        <5>1. CASE i < e
          <6>1. i \in 1 .. m - 1
            BY <5>1
          <6> QED BY <1>5, <4>2, <5>1, <6>1
        <5>2. CASE i > e
          <6>1. PICK j \in 1 .. m - 1 : j = i - 1
            BY <5>2
          <6>2. ~(j < e) /\ j + 1 = i
            BY <5>2, <6>1
          <6> QED BY <1>5, <4>2, <6>2
        <5>3. i # e
          BY <1>3, <3>2, <4>2
        <5> QED BY <5>1, <5>2, <5>3
      <4>3. ASSUME NEW j \in 1 .. m - 1, x[j] = u
            PROVE  \E i \in 1 .. m : s[i] = u
        <5>1. j \in 1 .. m /\ j + 1 \in 1 .. m
          OBVIOUS
        <5> QED BY <1>5, <4>3, <5>1
      <4> QED BY <4>1, <4>2, <4>3
    <3> QED BY <3>1, <3>2
  <2>2. \A i, j \in DOMAIN x : x[i] = x[j] => i = j
    <3> SUFFICES ASSUME NEW i \in 1 .. m - 1, NEW j \in 1 .. m - 1, x[i] = x[j], i < j
                 PROVE  FALSE
      BY <1>7
    <3>1. i \in 1 .. m /\ j \in 1 .. m /\ i + 1 \in 1 .. m /\ j + 1 \in 1 .. m
      OBVIOUS
    <3> QED BY <1>5, <1>8, <3>1
  <2>3. \A i \in DOMAIN x : PlaceOK(x[i], i, rpc'[x[i]], local'[x[i]], tables')
    <3> SUFFICES ASSUME NEW i \in 1 .. m - 1
                 PROVE  PlaceOK(x[i], i, rpc'[x[i]], local'[x[i]], tables')
      BY <1>7
    <3>1. PICK j \in 1 .. m : x[i] = s[j] /\ i <= j
      <4>1. i \in 1 .. m /\ i + 1 \in 1 .. m
        OBVIOUS
      <4> QED BY <1>5, <4>1
    <3>2. PICK u \in Cast : u = x[i]
      BY <1>7
    <3>3. PlaceOK(u, j, rpc[u], local[u], tables)
      BY <1>1, <1>6, <3>1, <3>2 DEF OrderOf
    <3>4. rpc'[u] = rpc[u] /\ local'[u] = local[u] /\ tables' = tables
      BY <1>9, <3>2 DEF Moves
    <3>5. rpc[u] \in Admitted => local[u].main \in DOMAIN tables
      BY <1>1, <1>6, <3>1, <3>2 DEF OrderOf, Counted, RegistryIInv, PhaseInv, Admitted
    <3>6. \A k \in DOMAIN tables : ThreeQuarters(Capacity(tables[k])) \in Nat
      BY QuartersFacts DEF RegistryIInv, RegistryTypes, IsTable
    <3>7. local[u].count \in Nat
      BY DEF RegistryIInv, RegistryTypes, Locals
    <3>8. PlaceOK(u, i, rpc[u], local[u], tables)
      BY <3>1, <3>3, <3>5, <3>6, <3>7 DEF PlaceOK
    <3> QED BY <3>2, <3>4, <3>8
  <2>4. Cast' = Cast
    BY DEF Moves
  <2> QED BY <2>1, <2>2, <2>3, <2>4 DEF OrderOf
<1>11. hashCount' = m - 1 /\ hashCount' \in Nat /\ Cast' = Cast
  BY <1>2, <1>3 DEF Moves
<1> QED BY <1>7, <1>10, <1>11 DEF CountInv

\* A thread that is counted comes last, at the place its count says.
LEMMA CountMore ==
  ASSUME RegistryIInv, NEW t \in Cast, NEW l \in Waiting, NEW r \in Locals, Moves(t, l, r),
         UNCHANGED <<tables, holds>>, hashCount' = hashCount + 1, r.count = hashCount + 1,
         t \in RegistryThreads, ~Counted(t, rpc[t], holds[t]), \A k \in DOMAIN tables : ~HasKey(tables[k], t)
  PROVE  CountInv'
<1>1. PICK s \in [1 .. hashCount -> Cast] : OrderOf(s)
  BY DEF RegistryIInv, CountInv
<1>2. PICK m \in Nat : m = hashCount
  BY DEF RegistryIInv, CountInv
<1>3. PICK x : x = [i \in 1 .. m + 1 |-> IF i = m + 1 THEN t ELSE s[i]]
  OBVIOUS
<1>4. s \in [1 .. m -> Cast] /\ DOMAIN s = 1 .. m
  BY <1>1, <1>2
<1>5. x \in [1 .. m + 1 -> Cast] /\ DOMAIN x = 1 .. m + 1
  <2>1. \A i \in 1 .. m + 1 : i # m + 1 => i \in 1 .. m
    OBVIOUS
  <2>2. \A i \in 1 .. m + 1 : i # m + 1 => s[i] \in Cast
    BY <1>4, <2>1
  <2> QED BY <1>3, <2>2
<1>6. x[m + 1] = t /\ \A i \in 1 .. m : x[i] = s[i]
  BY <1>3
<1>7. \A i \in 1 .. m : s[i] # t
  BY <1>1, <1>4 DEF OrderOf
<1>8. OrderOf(x)'
  <2>1. \A u \in Cast : Counted(u, rpc'[u], holds'[u]) <=> \E i \in 1 .. m + 1 : x[i] = u
    <3> SUFFICES ASSUME NEW u \in Cast
                 PROVE  Counted(u, rpc'[u], holds'[u]) <=> \E i \in 1 .. m + 1 : x[i] = u
      OBVIOUS
    <3>1. CASE u = t
      <4>1. Counted(t, rpc'[t], holds'[t])
        BY DEF Counted, Moves
      <4> QED BY <1>6, <3>1, <4>1
    <3>2. CASE u # t
      <4>1. Counted(u, rpc'[u], holds'[u]) <=> \E i \in 1 .. m : s[i] = u
        BY <1>1, <1>4, <3>2 DEF OrderOf, Moves
      <4>2. \A i \in 1 .. m + 1 : x[i] = u => i \in 1 .. m
        BY <1>6, <3>2
      <4> QED BY <1>6, <4>1, <4>2
    <3> QED BY <3>1, <3>2
  <2>2. \A i, j \in 1 .. m + 1 : x[i] = x[j] => i = j
    <3>1. \A i, j \in 1 .. m : s[i] = s[j] => i = j
      BY <1>1, <1>4 DEF OrderOf
    <3> QED BY <1>6, <1>7, <3>1
  <2>3. \A i \in 1 .. m + 1 : PlaceOK(x[i], i, rpc'[x[i]], local'[x[i]], tables')
    <3> SUFFICES ASSUME NEW i \in 1 .. m + 1
                 PROVE  PlaceOK(x[i], i, rpc'[x[i]], local'[x[i]], tables')
      OBVIOUS
    <3>1. CASE i = m + 1
      <4>1. rpc'[t] = l /\ local'[t] = r /\ l \notin Admitted
        BY DEF Moves, Waiting, Admitted
      <4> QED BY <1>2, <1>6, <3>1, <4>1 DEF PlaceOK
    <3>2. CASE i # m + 1
      <4>1. i \in 1 .. m
        BY <3>2
      <4>2. PICK u \in Cast : u = s[i] /\ u = x[i] /\ u # t
        BY <1>4, <1>6, <1>7, <4>1
      <4>3. PlaceOK(u, i, rpc[u], local[u], tables)
        <5>1. PlaceOK(s[i], i, rpc[s[i]], local[s[i]], tables)
          BY <1>1, <1>4, <4>1 DEF OrderOf
        <5> QED BY <4>2, <5>1
      <4> QED BY <4>2, <4>3 DEF Moves
    <3> QED BY <3>1, <3>2
  <2>4. Cast' = Cast
    BY DEF Moves
  <2> QED BY <1>5, <2>1, <2>2, <2>3, <2>4 DEF OrderOf
<1>9. hashCount' = m + 1 /\ hashCount' \in Nat /\ Cast' = Cast
  BY <1>2 DEF Moves
<1> QED BY <1>5, <1>8, <1>9 DEF CountInv

\* Steps that change nothing.
LEMMA Unmoved ==
  ASSUME RegistryIInv, UNCHANGED registryVars
  PROVE  RegistryIInv'
<1> USE DEF registryVars
<1>1. RegistryTypes' /\ UseInv' /\ PhaseInv' /\ ListInv'
  BY DEF RegistryIInv, RegistryTypes, UseInv, PhaseInv, ListInv, Uses, Cast
<1>2. HashInv'
  BY DEF RegistryIInv, HashInv, FoundAgain, Cast
<1>3. CountInv'
  BY DEF RegistryIInv, CountInv, OrderOf, Cast
<1> QED BY <1>1, <1>2, <1>3 DEF RegistryIInv

-----------------------------------------------------------------------------
\* A key in a table is its thread's: the thread has a producer, and finds it there.
LEMMA KeyFacts ==
  ASSUME RegistryAssumption, RegistryIInv, NEW k \in DOMAIN tables, NEW t \in RegistryThreads, HasKey(tables[k], t)
  PROVE  holds[t] # NoProducer /\ FoundIn(tables[k], t)
<1>1. PICK i \in DOMAIN tables[k] : tables[k][i].key = t
  BY DEF HasKey
<1>2. t # invalid_thread_id
  BY DEF RegistryAssumption
<1>3. TableOK(tables[k], holds)
  BY DEF RegistryIInv, HashInv
<1>4. holds[t] = tables[k][i].value /\ tables[k][i].value # NoProducer /\ FoundIn(tables[k], t)
  BY <1>1, <1>2, <1>3 DEF TableOK
<1> QED BY <1>4

\* What the types say of the number of tables and of a thread's locals.
LEMMA TypeFacts ==
  ASSUME RegistryIInv, NEW t \in Cast
  PROVE  /\ Len(tables) \in Nat \ {0} /\ DOMAIN tables = 1 .. Len(tables) /\ Len(tables) \in DOMAIN tables
         /\ \A k \in DOMAIN tables : IsTable(tables[k]) /\ Capacity(tables[k]) \in Nat \ {0}
         /\ rpc[t] \in Phases /\ local[t] \in Locals /\ holds[t] \in Nat
         /\ Len(list) \in Nat /\ Len(prod) \in Nat /\ DOMAIN list = 1 .. Len(list) /\ DOMAIN prod = 1 .. Len(prod)
         /\ hashCount \in Nat
<1>1. RegistryTypes
  BY DEF RegistryIInv
<1>2. Len(tables) \in Nat \ {0} /\ DOMAIN tables = 1 .. Len(tables)
  BY <1>1, SequenceFacts DEF RegistryTypes
<1>3. \A k \in DOMAIN tables : IsTable(tables[k]) /\ Capacity(tables[k]) \in Nat \ {0}
  BY <1>1 DEF RegistryTypes, IsTable
<1>4. rpc[t] \in Phases /\ local[t] \in Locals /\ holds[t] \in Nat
  BY <1>1 DEF RegistryTypes
<1>5. /\ Len(list) \in Nat /\ Len(prod) \in Nat /\ DOMAIN list = 1 .. Len(list) /\ DOMAIN prod = 1 .. Len(prod)
  BY <1>1 DEF RegistryTypes
<1>6. hashCount \in Nat
  BY DEF RegistryIInv, CountInv
<1> QED BY <1>2, <1>3, <1>4, <1>5, <1>6

\* A step of t to l with the locals r that does not count t, but perhaps admits it to a
\* table: its count is low enough, or an older table has its key.
PlaceKept(t, l, r) ==
  /\ Counted(t, l, holds[t]) <=> Counted(t, rpc[t], holds[t])
  /\ t \in RegistryThreads /\ l \in Waiting => rpc[t] \in Waiting /\ r.count = local[t].count
  /\ t \in RegistryThreads /\ l \in Admitted =>
       /\ r.main \in DOMAIN tables
       /\ \/ rpc[t] \in Admitted /\ r.main = local[t].main
          \/ rpc[t] \in Waiting /\ local[t].count < ThreeQuarters(Capacity(tables[r.main]))
          \/ \E k \in DOMAIN tables : k <= r.main /\ HasKey(tables[k], t)

\* Such a step keeps the order of counting.
LEMMA CountMoved ==
  ASSUME RegistryAssumption, RegistryIInv, NEW t \in Cast, NEW l \in Phases, NEW r \in Locals, Moves(t, l, r),
         UNCHANGED <<tables, holds, hashCount>>, PlaceKept(t, l, r)
  PROVE  CountInv'
<1> USE DEF PlaceKept
<1>1. \A u \in Cast : Counted(u, rpc'[u], holds'[u]) <=> Counted(u, rpc[u], holds[u])
  BY DEF Moves
<1>2. ASSUME NEW u \in Cast, NEW i \in Nat, Counted(u, rpc[u], holds[u]), PlaceOK(u, i, rpc[u], local[u], tables)
      PROVE  PlaceOK(u, i, rpc'[u], local'[u], tables')
  <2>1. CASE u # t
    BY <1>2, <2>1 DEF Moves
  <2>2. CASE u = t
    <3>1. t \in RegistryThreads /\ rpc'[t] = l /\ local'[t] = r /\ tables' = tables
      BY <1>2, <2>2 DEF Counted, Moves
    <3>2. PlaceOK(t, i, rpc[t], local[t], tables)
      BY <1>2, <2>2
    <3>3. l \in Waiting => i <= r.count
      BY <3>1, <3>2 DEF PlaceOK
    <3>4. ASSUME l \in Admitted
          PROVE  i < ThreeQuarters(Capacity(tables[r.main]))
      <4>1. \A k \in DOMAIN tables : ThreeQuarters(Capacity(tables[k])) \in Nat
        BY QuartersFacts, TypeFacts
      <4>2. CASE rpc[t] \in Admitted /\ r.main = local[t].main
        BY <3>2, <4>2 DEF PlaceOK
      <4>3. CASE rpc[t] \in Waiting /\ local[t].count < ThreeQuarters(Capacity(tables[r.main]))
        <5>1. i <= local[t].count /\ local[t].count \in Nat
          BY <3>2, <4>3, TypeFacts DEF PlaceOK, Locals
        <5> QED BY <3>1, <3>4, <4>1, <4>3, <5>1
      <4>4. CASE \E k \in DOMAIN tables : k <= r.main /\ HasKey(tables[k], t)
        <5>1. PICK k \in DOMAIN tables : k <= r.main /\ HasKey(tables[k], t)
          BY <4>4
        <5>2. i < ThreeQuarters(Capacity(tables[k]))
          BY <3>2, <5>1 DEF PlaceOK
        <5>3. Capacity(tables[k]) <= Capacity(tables[r.main])
          BY <3>1, <3>4, <5>1 DEF RegistryIInv, HashInv
        <5>4. ThreeQuarters(Capacity(tables[k])) <= ThreeQuarters(Capacity(tables[r.main]))
          BY <3>1, <3>4, <5>3, QuartersFacts, TypeFacts
        <5> QED BY <3>1, <3>4, <4>1, <5>2, <5>4
      <4> QED BY <3>1, <3>4, <4>2, <4>3, <4>4
    <3> QED BY <2>2, <3>1, <3>2, <3>3, <3>4 DEF PlaceOK
  <2> QED BY <2>1, <2>2
<1>3. Cast' = Cast /\ hashCount' = hashCount
  BY DEF Moves
<1> QED BY <1>1, <1>2, <1>3, CountKept

\* LookUp: the entry that is found has the thread's producer; it is not in the main
\* table if an older one was found first.
LEMMA LookUpKeeps ==
  ASSUME RegistryAssumption, RegistryIInv, NEW t \in Cast, LookUp(t)
  PROVE  RegistryIInv'
<1> DEFINE m == Len(tables)
<1>1. /\ rpc[t] = "idle" /\ t \in RegistryThreads
      /\ UNCHANGED <<tables, hashCount, resizing, list, producerCount, prod>>
  BY DEF LookUp
<1>a. PICK k \in DOMAIN tables : \E n \in DOMAIN tables[k] :
        LET value == tables[k][Slot(tables[k], t, n)].value IN
        /\ \A j \in DOMAIN tables : FoundIn(tables[j], t) => j <= k
        /\ FoundAt(tables[k], t, n)
        /\ holds' = [holds EXCEPT ![t] = value]
        /\ IF k = m THEN UNCHANGED <<rpc, local>>
           ELSE StepTo(t, "claim") /\ Keep(t, [NoLocal EXCEPT !.main = m, !.index = t % HashMod, !.producer = value])
  BY DEF LookUp
<1>2. PICK n \in DOMAIN tables[k] :
        LET value == tables[k][Slot(tables[k], t, n)].value IN
        /\ \A j \in DOMAIN tables : FoundIn(tables[j], t) => j <= k
        /\ FoundAt(tables[k], t, n)
        /\ holds' = [holds EXCEPT ![t] = value]
        /\ IF k = m THEN UNCHANGED <<rpc, local>>
           ELSE StepTo(t, "claim") /\ Keep(t, [NoLocal EXCEPT !.main = m, !.index = t % HashMod, !.producer = value])
  BY <1>a
<1>3. /\ m \in Nat \ {0} /\ DOMAIN tables = 1 .. m /\ IsTable(tables[k]) /\ holds[t] \in Nat
  BY TypeFacts
<1>4. Slot(tables[k], t, n) \in DOMAIN tables[k] /\ tables[k][Slot(tables[k], t, n)].key = t
  <2>1. n \in Nat
    BY <1>2, <1>3 DEF IsTable
  <2> QED BY <1>1, <1>2, <1>3, <2>1, SlotRange DEF FoundAt
<1>5. tables[k][Slot(tables[k], t, n)].value = holds[t] /\ holds[t] # NoProducer
  <2>1. TableOK(tables[k], holds) /\ t # invalid_thread_id
    BY <1>1 DEF RegistryIInv, HashInv, RegistryAssumption
  <2> QED BY <1>4, <2>1 DEF TableOK
<1>6. holds' = holds
  <2>1. holds \in [Cast -> Nat]
    BY DEF RegistryIInv, RegistryTypes
  <2> QED BY <1>2, <1>5, <2>1
<1>7. CASE k = m
  <2>1. UNCHANGED <<tables, hashCount, resizing, list, producerCount, prod, rpc, local, holds>>
    BY <1>1, <1>2, <1>6, <1>7
  <2> QED BY <2>1, Unmoved DEF registryVars
<1>8. CASE k # m
  <2>1. HasKey(tables[k], t)
    BY <1>4 DEF HasKey
  <2>2. ~HasKey(tables[m], t)
    BY <1>1, <1>2, <1>3, <1>8, KeyFacts
  <2>3. PICK h \in Nat : h = t % HashMod
    <3>1. t % HashMod \in Nat
      BY <1>1, ModRange DEF RegistryAssumption
    <3> QED BY <3>1, Zenon
  <2>4. PICK r \in Locals : /\ r = [NoLocal EXCEPT !.main = m, !.index = h, !.producer = holds[t]]
                            /\ r.main = m /\ r.index = h /\ r.producer = holds[t]
    <3> HIDE DEF m
    <3>1. NoLocal \in Locals
      BY DEF Locals, NoLocal, NoProducer
    <3>2. PICK x \in Locals : x = NoLocal
      BY <3>1
    <3>3. PICK p \in Nat : p = holds[t]
      BY <1>3
    <3>4. PICK r : r = [x EXCEPT !.main = m, !.index = h, !.producer = p]
      OBVIOUS
    <3>5. r \in Locals /\ r.main = m /\ r.index = h /\ r.producer = p
      BY <1>3, <3>4 DEF Locals
    <3> QED BY <3>2, <3>3, <3>4, <3>5
  <2>5. Moves(t, "claim", r)
    <3>1. "claim" \in Phases
      BY DEF Phases, Admitted
    <3>2. StepTo(t, "claim") /\ Keep(t, r)
      BY <1>2, <1>5, <1>8, <2>3, <2>4
    <3> QED BY <3>1, <3>2, Moved DEF RegistryIInv
  <2>6. ClaimOK(tables[r.main], t, r.index)
    BY <1>1, <2>2, <2>3, <2>4, ClaimStarts
  <2>7. /\ "claim" \in Phases /\ "claim" \notin Linking /\ "claim" \in Admitted
        /\ "claim" \notin Waiting /\ "idle" \notin Linking
    BY DEF Phases, Arriving, Waiting, Linking, Admitted
  <2>8. RegistryTypes' /\ UseInv' /\ HashInv' /\ PhaseInv' /\ ListInv'
    <3>1. Uses(t) = holds[t] /\ resizing' \in BOOLEAN
      BY <1>1, <2>7 DEF Uses, RegistryIInv, RegistryTypes
    <3>2. MoveOK(t, "claim", r)
      BY <1>1, <1>3, <1>5, <2>4, <2>6, <2>7, <3>1 DEF MoveOK
    <3> QED BY <1>1, <1>6, <2>5, <2>7, <3>1, <3>2, QuietMove
  <2>9. CountInv'
    <3>1. Counted(t, "claim", holds[t]) /\ Counted(t, rpc[t], holds[t])
      BY <1>1, <1>5 DEF Counted
    <3>2. k <= r.main /\ r.main \in DOMAIN tables
      BY <1>3, <2>4
    <3>3. PlaceKept(t, "claim", r)
      BY <1>1, <2>1, <2>7, <3>1, <3>2 DEF PlaceKept
    <3> QED BY <1>1, <1>6, <2>5, <2>7, <3>3, CountMoved
  <2> QED BY <2>8, <2>9 DEF RegistryIInv
<1> QED BY <1>7, <1>8

\* What the invariant says of a thread on its way to a producer.
LEMMA ThreadFacts ==
  ASSUME RegistryAssumption, RegistryIInv, NEW t \in Cast
  PROVE  /\ rpc[t] \notin {"idle", "claim"} => holds[t] = NoProducer
         /\ rpc[t] \in Arriving \cup Waiting \cup {"claim"} => t \in RegistryThreads /\ t \notin TokenThreads
         /\ t \in RegistryThreads /\ rpc[t] # "idle" => local[t].main \in DOMAIN tables
         /\ rpc[t] \in {"claim"} \cup Linking => local[t].producer # NoProducer
         /\ rpc[t] = "recycle" => local[t].at <= Len(list)
         /\ rpc[t] = "claim" => ClaimOK(tables[local[t].main], t, local[t].index)
         /\ t \in RegistryThreads /\ holds[t] = NoProducer => \A k \in DOMAIN tables : ~HasKey(tables[k], t)
<1>1. UseInv /\ PhaseInv /\ HashInv
  BY DEF RegistryIInv
<1>2. t \in RegistryThreads /\ holds[t] = NoProducer => \A k \in DOMAIN tables : ~HasKey(tables[k], t)
  BY KeyFacts
<1> QED BY <1>1, <1>2 DEF UseInv, PhaseInv, HashInv, RegistryAssumption

\* The names of the steps, apart.
LEMMA PhaseFacts ==
  /\ Phases = {"idle", "count", "giveup", "resize", "locked", "unlock", "fit", "recycle", "tail", "link", "claim"}
  /\ Arriving = {"count", "giveup"} /\ Waiting = {"resize", "locked", "unlock", "fit"}
  /\ Linking = {"tail", "link"} /\ Admitted = {"recycle", "tail", "link", "claim"}
BY DEF Phases, Arriving, Waiting, Linking, Admitted

\* LookUpFails: a thread that has a producer would have been found.
LEMMA LookUpFailsKeeps ==
  ASSUME RegistryAssumption, RegistryIInv, NEW t \in Cast, LookUpFails(t)
  PROVE  RegistryIInv'
<1> DEFINE m == Len(tables)
<1>1. /\ rpc[t] = "idle" /\ t \in RegistryThreads /\ \A k \in DOMAIN tables : ~FoundIn(tables[k], t)
      /\ UNCHANGED <<tables, hashCount, resizing, list, producerCount, prod, holds>>
      /\ StepTo(t, "count") /\ Keep(t, [NoLocal EXCEPT !.main = m])
  BY DEF LookUpFails
<1>2. m \in Nat \ {0} /\ m \in DOMAIN tables
  BY TypeFacts
<1>3. holds[t] = NoProducer
  <2>1. DOMAIN holds = Cast
    BY DEF RegistryIInv, RegistryTypes
  <2> QED BY <1>1, <2>1 DEF RegistryIInv, HashInv, FoundAgain
<1>4. PICK r : r = [NoLocal EXCEPT !.main = m]
  OBVIOUS
<1>5. r \in Locals /\ r.main = m
  BY <1>2, <1>4 DEF Locals, NoLocal, NoProducer
<1> HIDE DEF m
<1>6. Moves(t, "count", r)
  BY <1>1, <1>4, <1>5, Moved, PhaseFacts DEF RegistryIInv
<1>7. MoveOK(t, "count", r)
  BY <1>1, <1>2, <1>3, <1>5, PhaseFacts DEF MoveOK, Uses
<1>8. RegistryTypes' /\ UseInv' /\ HashInv' /\ PhaseInv' /\ ListInv'
  <2>1. resizing' \in BOOLEAN /\ "count" \in Phases
    BY <1>1, PhaseFacts DEF RegistryIInv, RegistryTypes
  <2> QED BY <1>1, <1>5, <1>6, <1>7, <2>1, QuietMove
<1>9. CountInv'
  <2>1. PlaceKept(t, "count", r)
    BY <1>1, <1>3, PhaseFacts DEF PlaceKept, Counted
  <2>2. "count" \in Phases
    BY PhaseFacts
  <2> QED BY <1>1, <1>5, <1>6, <2>1, <2>2, CountMoved
<1> QED BY <1>8, <1>9 DEF RegistryIInv

\* CountIn
LEMMA CountInKeeps ==
  ASSUME RegistryAssumption, RegistryIInv, NEW t \in Cast, CountIn(t)
  PROVE  RegistryIInv'
<1>1. /\ rpc[t] = "count" /\ hashCount' = hashCount + 1
      /\ UNCHANGED <<tables, resizing, list, producerCount, prod, holds>>
      /\ StepTo(t, "resize") /\ Keep(t, [local[t] EXCEPT !.count = hashCount + 1])
  BY DEF CountIn
<1>2. hashCount + 1 \in Nat /\ local[t] \in Locals
  BY TypeFacts
<1>3. PICK r : r = [local[t] EXCEPT !.count = hashCount + 1]
  OBVIOUS
<1>4. r \in Locals /\ r.main = local[t].main /\ r.count = hashCount + 1
  BY <1>2, <1>3 DEF Locals
<1>5. "resize" \in Phases /\ "resize" \in Waiting
  BY PhaseFacts
<1>6. Moves(t, "resize", r)
  BY <1>1, <1>3, <1>4, <1>5, Moved DEF RegistryIInv
<1>7. /\ holds[t] = NoProducer /\ t \in RegistryThreads /\ local[t].main \in DOMAIN tables
      /\ \A k \in DOMAIN tables : ~HasKey(tables[k], t)
  BY <1>1, ThreadFacts, PhaseFacts
<1>8. RegistryTypes' /\ UseInv' /\ HashInv' /\ PhaseInv' /\ ListInv'
  <2>1. MoveOK(t, "resize", r)
    BY <1>1, <1>4, <1>7, PhaseFacts DEF MoveOK, Uses
  <2>2. resizing' \in BOOLEAN
    BY <1>1 DEF RegistryIInv, RegistryTypes
  <2> QED BY <1>1, <1>4, <1>5, <1>6, <2>1, <2>2, QuietMove
<1>9. CountInv'
  <2>1. ~Counted(t, rpc[t], holds[t])
    BY <1>1, <1>7, PhaseFacts DEF Counted
  <2> QED BY <1>1, <1>4, <1>5, <1>6, <1>7, <2>1, CountMore
<1> QED BY <1>8, <1>9 DEF RegistryIInv

\* A step between the count and the admission, with the same count and any table.
LEMMA WaitingKeeps ==
  ASSUME RegistryAssumption, RegistryIInv, NEW t \in Cast, NEW l \in Waiting, NEW r \in Locals, Moves(t, l, r),
         UNCHANGED <<tables, hashCount, list, producerCount, prod, holds>>, resizing' \in BOOLEAN,
         rpc[t] \in Waiting, r.count = local[t].count, r.main \in DOMAIN tables
  PROVE  RegistryIInv'
<1>1. l \in Phases
  BY PhaseFacts
<1>2. holds[t] = NoProducer /\ t \in RegistryThreads
  BY ThreadFacts, PhaseFacts
<1>3. MoveOK(t, l, r)
  BY <1>2, PhaseFacts DEF MoveOK, Uses
<1>4. RegistryTypes' /\ UseInv' /\ HashInv' /\ PhaseInv' /\ ListInv'
  BY <1>1, <1>3, QuietMove
<1>5. PlaceKept(t, l, r)
  BY <1>2, PhaseFacts DEF PlaceKept, Counted
<1>6. CountInv'
  BY <1>1, <1>5, CountMoved
<1> QED BY <1>4, <1>6 DEF RegistryIInv

\* TryResize
LEMMA TryResizeKeeps ==
  ASSUME RegistryAssumption, RegistryIInv, NEW t \in Cast, TryResize(t)
  PROVE  RegistryIInv'
<1>1. PICK l \in {"locked", "fit"} : StepTo(t, l)
  BY DEF TryResize
<1>2. /\ rpc[t] = "resize" /\ UNCHANGED <<tables, hashCount, list, producerCount, prod, local, holds>>
  BY DEF TryResize
<1>3. resizing' \in BOOLEAN
  BY DEF TryResize, RegistryIInv, RegistryTypes
<1>4. PICK r \in Locals : r = local[t]
  BY TypeFacts
<1>5. l \in Waiting /\ l \in Phases /\ rpc[t] \in Waiting
  BY <1>1, <1>2, PhaseFacts
<1>6. Moves(t, l, r)
  BY <1>1, <1>2, <1>4, <1>5 DEF Moves, RegistryIInv, RegistryTypes, StepTo, Cast
<1>7. r.main \in DOMAIN tables
  BY <1>2, <1>4, ThreadFacts, PhaseFacts
<1> QED BY <1>2, <1>3, <1>4, <1>5, <1>6, <1>7, WaitingKeeps

\* ResizeFails
LEMMA ResizeFailsKeeps ==
  ASSUME RegistryAssumption, RegistryIInv, NEW t \in Cast, ResizeFails(t)
  PROVE  RegistryIInv'
<1>1. /\ rpc[t] = "locked" /\ hashCount' = hashCount - 1 /\ StepTo(t, "giveup")
      /\ UNCHANGED <<tables, resizing, list, producerCount, prod, local, holds>>
  BY DEF ResizeFails
<1>2. PICK r \in Locals : r = local[t]
  BY TypeFacts
<1>3. "giveup" \in Phases
  BY PhaseFacts
<1>4. Moves(t, "giveup", r)
  BY <1>1, <1>2, <1>3 DEF Moves, RegistryIInv, RegistryTypes, StepTo, Cast
<1>5. holds[t] = NoProducer /\ t \in RegistryThreads /\ local[t].main \in DOMAIN tables
  BY <1>1, ThreadFacts, PhaseFacts
<1>6. MoveOK(t, "giveup", r)
  BY <1>1, <1>2, <1>5, PhaseFacts DEF MoveOK, Uses
<1>7. RegistryTypes' /\ UseInv' /\ HashInv' /\ PhaseInv' /\ ListInv'
  <2>1. resizing' \in BOOLEAN
    BY <1>1 DEF RegistryIInv, RegistryTypes
  <2> QED BY <1>1, <1>3, <1>4, <1>6, <2>1, QuietMove
<1>8. CountInv'
  <2>1. Counted(t, rpc[t], holds[t]) /\ ~Counted(t, "giveup", holds[t])
    BY <1>1, <1>5, PhaseFacts DEF Counted
  <2> QED BY <1>1, <1>3, <1>4, <2>1, CountLess
<1> QED BY <1>7, <1>8 DEF RegistryIInv

\* What Done leaves of a call that got nothing.
LEMMA GivenUp ==
  ASSUME RegistryAssumption, RegistryIInv, NEW t \in Cast, Done(t), rpc[t] \in {"giveup", "recycle"},
         UNCHANGED <<tables, list, producerCount, prod, holds>>, resizing' \in BOOLEAN
  PROVE  /\ Moves(t, "idle", NoLocal) /\ NoLocal \in Locals /\ "idle" \in Phases /\ holds[t] = NoProducer
         /\ RegistryTypes' /\ UseInv' /\ HashInv' /\ PhaseInv' /\ ListInv'
<1>1. NoLocal \in Locals
  BY DEF Locals, NoLocal, NoProducer
<1>2. "idle" \in Phases
  BY PhaseFacts
<1>3. Moves(t, "idle", NoLocal)
  BY <1>1, <1>2, Moved DEF Done, RegistryIInv
<1>4. holds[t] = NoProducer
  BY ThreadFacts
<1>5. MoveOK(t, "idle", NoLocal)
  BY <1>4, PhaseFacts DEF MoveOK, Uses
<1> QED BY <1>1, <1>2, <1>3, <1>4, <1>5, QuietMove

\* Unlock
LEMMA UnlockKeeps ==
  ASSUME RegistryAssumption, RegistryIInv, NEW t \in Cast, Unlock(t)
  PROVE  RegistryIInv'
<1>1. /\ rpc[t] \in {"unlock", "giveup"} /\ resizing' = FALSE
      /\ UNCHANGED <<tables, hashCount, list, producerCount, prod, holds>>
      /\ IF rpc[t] = "giveup" THEN Done(t) ELSE StepTo(t, "fit") /\ UNCHANGED local
  BY DEF Unlock
<1>2. CASE rpc[t] = "giveup"
  <2>1. /\ Moves(t, "idle", NoLocal) /\ NoLocal \in Locals /\ "idle" \in Phases /\ holds[t] = NoProducer
        /\ RegistryTypes' /\ UseInv' /\ HashInv' /\ PhaseInv' /\ ListInv'
    BY <1>1, <1>2, GivenUp
  <2>2. PlaceKept(t, "idle", NoLocal)
    BY <1>2, <2>1, PhaseFacts DEF PlaceKept, Counted
  <2>3. CountInv'
    BY <1>1, <2>1, <2>2, CountMoved
  <2> QED BY <2>1, <2>3 DEF RegistryIInv
<1>3. CASE rpc[t] = "unlock"
  <2>1. PICK r \in Locals : r = local[t]
    BY TypeFacts
  <2>2. "fit" \in Phases /\ "fit" \in Waiting /\ rpc[t] \in Waiting
    BY <1>3, PhaseFacts
  <2>3. Moves(t, "fit", r)
    BY <1>1, <1>3, <2>1, <2>2 DEF Moves, RegistryIInv, RegistryTypes, StepTo, Cast
  <2>4. r.main \in DOMAIN tables
    BY <1>3, <2>1, ThreadFacts, PhaseFacts
  <2> QED BY <1>1, <2>1, <2>2, <2>3, <2>4, WaitingKeeps
<1> QED BY <1>1, <1>2, <1>3

\* Fit
LEMMA FitKeeps ==
  ASSUME RegistryAssumption, RegistryIInv, NEW t \in Cast, Fit(t)
  PROVE  RegistryIInv'
<1> DEFINE fits == local[t].count < ThreeQuarters(Capacity(tables[local[t].main]))
<1>1. /\ rpc[t] = "fit"
      /\ Keep(t, [local[t] EXCEPT !.main = IF fits THEN local[t].main ELSE Len(tables), !.at = IF fits THEN Len(list) ELSE 0])
      /\ StepTo(t, IF fits THEN "recycle" ELSE "resize")
      /\ UNCHANGED <<tables, hashCount, resizing, list, producerCount, prod, holds>>
  BY DEF Fit
<1>2. /\ local[t] \in Locals /\ Len(tables) \in Nat /\ Len(tables) \in DOMAIN tables /\ Len(list) \in Nat
      /\ holds[t] = NoProducer /\ t \in RegistryThreads /\ local[t].main \in DOMAIN tables /\ resizing' \in BOOLEAN
  <2>1. resizing' \in BOOLEAN
    BY <1>1 DEF RegistryIInv, RegistryTypes
  <2> QED BY <1>1, <2>1, TypeFacts, ThreadFacts, PhaseFacts
<1>3. CASE fits
  <2>1. PICK r : r = [local[t] EXCEPT !.main = local[t].main, !.at = Len(list)]
    OBVIOUS
  <2>2. r \in Locals /\ r.main = local[t].main /\ r.at = Len(list)
    BY <1>2, <2>1 DEF Locals
  <2>3. "recycle" \in Phases
    BY PhaseFacts
  <2>4. Moves(t, "recycle", r)
    BY <1>1, <1>3, <2>1, <2>2, <2>3, Moved DEF RegistryIInv
  <2>5. MoveOK(t, "recycle", r)
    BY <1>1, <1>2, <2>2, PhaseFacts DEF MoveOK, Uses
  <2>6. RegistryTypes' /\ UseInv' /\ HashInv' /\ PhaseInv' /\ ListInv'
    BY <1>1, <1>2, <2>2, <2>3, <2>4, <2>5, QuietMove
  <2>7. PlaceKept(t, "recycle", r)
    BY <1>1, <1>2, <1>3, <2>2, PhaseFacts DEF PlaceKept, Counted
  <2>8. CountInv'
    BY <1>1, <2>2, <2>3, <2>4, <2>7, CountMoved
  <2> QED BY <2>6, <2>8 DEF RegistryIInv
<1>4. CASE ~fits
  <2>1. PICK r : r = [local[t] EXCEPT !.main = Len(tables), !.at = 0]
    OBVIOUS
  <2>2. r \in Locals /\ r.main = Len(tables) /\ r.count = local[t].count
    BY <1>2, <2>1 DEF Locals
  <2>3. "resize" \in Phases /\ "resize" \in Waiting /\ rpc[t] \in Waiting
    BY <1>1, PhaseFacts
  <2>4. Moves(t, "resize", r)
    BY <1>1, <1>4, <2>1, <2>2, <2>3, Moved DEF RegistryIInv
  <2> QED BY <1>1, <1>2, <2>2, <2>3, <2>4, WaitingKeeps
<1> QED BY <1>3, <1>4

\* MakeToken
LEMMA MakeTokenKeeps ==
  ASSUME RegistryAssumption, RegistryIInv, NEW t \in Cast, MakeToken(t)
  PROVE  RegistryIInv'
<1>1. /\ rpc[t] = "idle" /\ t \in TokenThreads /\ holds[t] = NoProducer
      /\ StepTo(t, "recycle") /\ Keep(t, [NoLocal EXCEPT !.at = Len(list)])
      /\ UNCHANGED <<tables, hashCount, resizing, list, producerCount, prod, holds>>
  BY DEF MakeToken
<1>2. Len(list) \in Nat /\ t \notin RegistryThreads /\ resizing' \in BOOLEAN
  BY <1>1, TypeFacts DEF RegistryAssumption, RegistryIInv, RegistryTypes
<1>3. PICK r : r = [NoLocal EXCEPT !.at = Len(list)]
  OBVIOUS
<1>4. r \in Locals /\ r.at = Len(list)
  BY <1>2, <1>3 DEF Locals, NoLocal, NoProducer
<1>5. "recycle" \in Phases
  BY PhaseFacts
<1>6. Moves(t, "recycle", r)
  BY <1>1, <1>3, <1>4, <1>5, Moved DEF RegistryIInv
<1>7. MoveOK(t, "recycle", r)
  BY <1>1, <1>2, <1>4, PhaseFacts DEF MoveOK, Uses
<1>8. RegistryTypes' /\ UseInv' /\ HashInv' /\ PhaseInv' /\ ListInv'
  BY <1>1, <1>2, <1>4, <1>5, <1>6, <1>7, QuietMove
<1>9. PlaceKept(t, "recycle", r)
  BY <1>2 DEF PlaceKept, Counted
<1>10. CountInv'
  BY <1>1, <1>4, <1>5, <1>6, <1>9, CountMoved
<1> QED BY <1>8, <1>10 DEF RegistryIInv

\* CreateFails
LEMMA CreateFailsKeeps ==
  ASSUME RegistryAssumption, RegistryIInv, NEW t \in Cast, CreateFails(t)
  PROVE  RegistryIInv'
<1>1. /\ rpc[t] = "recycle" /\ hashCount' = IF t \in RegistryThreads THEN hashCount - 1 ELSE hashCount
      /\ Done(t) /\ UNCHANGED <<tables, resizing, list, producerCount, prod, holds>>
  BY DEF CreateFails
<1>2. resizing' \in BOOLEAN
  BY <1>1 DEF RegistryIInv, RegistryTypes
<1>3. /\ Moves(t, "idle", NoLocal) /\ NoLocal \in Locals /\ "idle" \in Phases /\ holds[t] = NoProducer
      /\ RegistryTypes' /\ UseInv' /\ HashInv' /\ PhaseInv' /\ ListInv'
  BY <1>1, <1>2, GivenUp
<1>4. CASE t \in RegistryThreads
  <2>1. Counted(t, rpc[t], holds[t]) /\ ~Counted(t, "idle", holds[t])
    BY <1>1, <1>3, <1>4, PhaseFacts DEF Counted
  <2>2. CountInv'
    BY <1>1, <1>3, <1>4, <2>1, CountLess
  <2> QED BY <1>3, <2>2 DEF RegistryIInv
<1>5. CASE t \notin RegistryThreads
  <2>1. PlaceKept(t, "idle", NoLocal)
    BY <1>5 DEF PlaceKept, Counted
  <2>2. CountInv'
    BY <1>1, <1>3, <1>5, <2>1, CountMoved
  <2> QED BY <1>3, <2>2 DEF RegistryIInv
<1> QED BY <1>4, <1>5

\* A step of a thread that stays at, or moves within, the phases after its admission,
\* with the same table and producer.
StaysAdmitted(t, l, r) ==
  /\ rpc[t] \in Admitted /\ r.main = local[t].main /\ r.producer = local[t].producer
  /\ l = rpc[t] \/ (l \in Linking /\ rpc[t] \in Linking)
  /\ l = "recycle" => r.at <= Len(list)
  /\ l = "claim" => ClaimOK(tables[r.main], t, r.index)

\* Such a step keeps the invariant.
LEMMA AdmittedKeeps ==
  ASSUME RegistryAssumption, RegistryIInv, NEW t \in Cast, NEW l \in Admitted, NEW r \in Locals, Moves(t, l, r),
         UNCHANGED <<tables, hashCount, resizing, list, producerCount, prod, holds>>, StaysAdmitted(t, l, r)
  PROVE  RegistryIInv'
<1> USE DEF StaysAdmitted
<1>1. l \in Phases /\ resizing' \in BOOLEAN
  BY PhaseFacts DEF RegistryIInv, RegistryTypes
<1>2. /\ rpc[t] # "claim" => holds[t] = NoProducer
      /\ rpc[t] = "claim" => t \in RegistryThreads
      /\ t \in RegistryThreads => local[t].main \in DOMAIN tables
      /\ rpc[t] \in {"claim"} \cup Linking => local[t].producer # NoProducer
  BY ThreadFacts, PhaseFacts
<1>3. MoveOK(t, l, r)
  BY <1>2, PhaseFacts DEF MoveOK, Uses
<1>4. RegistryTypes' /\ UseInv' /\ HashInv' /\ PhaseInv' /\ ListInv'
  BY <1>1, <1>3, QuietMove
<1>5. PlaceKept(t, l, r)
  BY <1>2, PhaseFacts DEF PlaceKept, Counted
<1>6. CountInv'
  BY <1>1, <1>5, CountMoved
<1> QED BY <1>4, <1>6 DEF RegistryIInv

\* LoadTail
LEMMA LoadTailKeeps ==
  ASSUME RegistryAssumption, RegistryIInv, NEW t \in Cast, LoadTail(t)
  PROVE  RegistryIInv'
<1>1. /\ rpc[t] = "tail" /\ StepTo(t, "link") /\ Keep(t, [local[t] EXCEPT !.at = Len(list)])
      /\ UNCHANGED <<tables, hashCount, resizing, list, producerCount, prod, holds>>
  BY DEF LoadTail
<1>2. local[t] \in Locals /\ Len(list) \in Nat
  BY TypeFacts
<1>3. PICK r : r = [local[t] EXCEPT !.at = Len(list)]
  OBVIOUS
<1>4. r \in Locals /\ r.main = local[t].main /\ r.producer = local[t].producer
  BY <1>2, <1>3 DEF Locals
<1>5. "link" \in Phases /\ "link" \in Admitted /\ rpc[t] \in Admitted /\ "link" \in Linking /\ rpc[t] \in Linking
  BY <1>1, PhaseFacts
<1>6. Moves(t, "link", r)
  BY <1>1, <1>3, <1>4, <1>5, Moved DEF RegistryIInv
<1>7. StaysAdmitted(t, "link", r)
  BY <1>4, <1>5 DEF StaysAdmitted
<1> QED BY <1>1, <1>4, <1>5, <1>6, <1>7, AdmittedKeeps

-----------------------------------------------------------------------------
\* The slot that t looks at is free.
AtFree(t) ==
  tables[local[t].main][local[t].index % Capacity(tables[local[t].main])].key = invalid_thread_id

\* Claim, the slot is taken: on to the next one.
LEMMA ClaimMissKeeps ==
  ASSUME RegistryAssumption, RegistryIInv, NEW t \in Cast, Claim(t), ~AtFree(t)
  PROVE  RegistryIInv'
<1> DEFINE k == local[t].main
           i == local[t].index % Capacity(tables[k])
<1>1. /\ rpc[t] = "claim" /\ Keep(t, [local[t] EXCEPT !.index = i + 1])
      /\ UNCHANGED <<tables, rpc, holds, hashCount, resizing, list, producerCount, prod>>
  BY DEF Claim, AtFree
<1>2. /\ local[t] \in Locals /\ k \in DOMAIN tables /\ t \in RegistryThreads /\ ClaimOK(tables[k], t, local[t].index)
      /\ IsTable(tables[k]) /\ Capacity(tables[k]) \in Nat \ {0}
  BY <1>1, TypeFacts, ThreadFacts
<1>3. local[t].index \in Nat
  BY <1>2 DEF Locals
<1>4. i \in Nat
  BY <1>2, <1>3, ModRange
<1>5. ClaimOK(tables[k], t, i + 1)
  BY <1>2, <1>3, ClaimGoesOn DEF AtFree
<1> HIDE DEF i
<1>6. PICK r : r = [local[t] EXCEPT !.index = i + 1]
  OBVIOUS
<1>7. r \in Locals /\ r.main = local[t].main /\ r.producer = local[t].producer /\ r.index = i + 1
  BY <1>2, <1>4, <1>6 DEF Locals
<1>8. "claim" \in Phases /\ "claim" \in Admitted
  BY PhaseFacts
<1>9. Moves(t, "claim", r)
  BY <1>1, <1>6, <1>7, <1>8 DEF Moves, RegistryIInv, RegistryTypes, Keep, Cast
<1>10. StaysAdmitted(t, "claim", r)
  BY <1>1, <1>5, <1>7, <1>8 DEF StaysAdmitted
<1>11. UNCHANGED <<tables, hashCount, resizing, list, producerCount, prod, holds>> /\ r \in Locals
  BY <1>1, <1>7
<1> QED BY <1>8, <1>9, <1>10, <1>11, AdmittedKeeps

\* Claim, the slot is free.
LEMMA ClaimHitKeeps ==
  ASSUME RegistryAssumption, RegistryIInv, NEW t \in Cast, Claim(t), AtFree(t)
  PROVE  RegistryIInv'
<1> DEFINE k == local[t].main
           p == local[t].producer
           i == local[t].index % Capacity(tables[k])
           e == [key |-> t, value |-> p]
<1>1. /\ rpc[t] = "claim" /\ tables' = [tables EXCEPT ![k][i] = e] /\ holds' = [holds EXCEPT ![t] = p]
      /\ Done(t) /\ UNCHANGED <<hashCount, resizing, list, producerCount, prod>>
  BY DEF Claim, AtFree
<1>2. /\ local[t] \in Locals /\ k \in DOMAIN tables /\ t \in RegistryThreads /\ p # NoProducer
      /\ ClaimOK(tables[k], t, local[t].index)
      /\ IsTable(tables[k]) /\ Capacity(tables[k]) \in Nat \ {0}
  BY <1>1, TypeFacts, ThreadFacts
<1>3. local[t].index \in Nat /\ p \in Nat
  BY <1>2 DEF Locals
<1>4. i \in DOMAIN tables[k] /\ tables[k][i].key = invalid_thread_id
  BY <1>2, <1>3, ModRange DEF IsTable, AtFree
<1>5. e \in Entry
  BY <1>2, <1>3 DEF Entry
<1>6. PICK new : /\ new = [tables[k] EXCEPT ![i] = e] /\ new[i] = e
                 /\ Taken(tables[k], new, i, t) /\ Capacity(new) = Capacity(tables[k])
  <2>1. e.key = t
    OBVIOUS
  <2> HIDE DEF e, i, k
  <2>2. PICK x : /\ x = [tables[k] EXCEPT ![i] = e]
                 /\ IsTable(x) /\ Capacity(x) = Capacity(tables[k]) /\ DOMAIN x = DOMAIN tables[k]
                 /\ x[i] = e /\ \A j \in DOMAIN tables[k] : j # i => x[j] = tables[k][j]
                 /\ \A u, n : Slot(x, u, n) = Slot(tables[k], u, n)
    BY <1>2, <1>4, <1>5, PutTable
  <2>3. Taken(tables[k], x, i, t)
    BY <1>2, <1>4, <2>1, <2>2 DEF Taken
  <2> QED BY <2>2, <2>3
<1>7. /\ IsSequence(tables') /\ Len(tables') = Len(tables) /\ DOMAIN tables' = DOMAIN tables
      /\ tables'[k] = new /\ \A j \in DOMAIN tables : j # k => tables'[j] = tables[j]
  <2> HIDE DEF e, i, k
  <2>1. IsSequence(tables)
    BY DEF RegistryIInv, RegistryTypes
  <2>2. tables' = [tables EXCEPT ![k] = new]
    BY <1>1, <1>6
  <2>3. PICK x : x = tables'
    OBVIOUS
  <2>4. /\ DOMAIN x = DOMAIN tables /\ x = [j \in DOMAIN tables |-> x[j]]
        /\ x[k] = new /\ \A j \in DOMAIN tables : j # k => x[j] = tables[j]
    BY <1>2, <2>2, <2>3
  <2>5. IsSequence(x) /\ Len(x) = Len(tables)
    BY <2>1, <2>4, SequencePut
  <2> QED BY <2>3, <2>4, <2>5
<1>8. /\ holds' \in [Cast -> Nat] /\ holds'[t] = p /\ \A u \in Cast : u # t => holds'[u] = holds[u]
      /\ holds[t] = p \/ holds[t] = NoProducer
  <2>1. holds \in [Cast -> Nat]
    BY DEF RegistryIInv, RegistryTypes
  <2>2. holds[t] # NoProducer => holds[t] = p
    BY <1>1 DEF RegistryIInv, UseInv, Uses
  <2> QED BY <1>1, <1>3, <2>1, <2>2
<1>9. Moves(t, "idle", NoLocal)
  <2>1. NoLocal \in Locals /\ "idle" \in Phases
    BY PhaseFacts DEF Locals, NoLocal, NoProducer
  <2> QED BY <1>1, <2>1, Moved DEF Done, RegistryIInv
<1>10. FoundIn(new, t) /\ ~HasKey(tables[k], t)
  BY <1>2, <1>3, <1>6, ClaimEnds DEF ClaimOK
<1> HIDE DEF e, i, k, p
<1>11. RegistryTypes'
  <2>1. IsTable(new)
    BY <1>6 DEF Taken
  <2>2. \A j \in DOMAIN tables' : IsTable(tables'[j])
    BY <1>7, <2>1 DEF RegistryIInv, RegistryTypes
  <2>3. Len(tables') > 0
    BY <1>7 DEF RegistryIInv, RegistryTypes
  <2> QED BY <1>1, <1>7, <1>8, <1>9, <2>2, <2>3 DEF RegistryIInv, RegistryTypes, Moves
<1>12. UseInv'
  <2>1. \A u \in Cast : Uses(u)' = Uses(u)
    <3>1. Uses(t) = p
      BY <1>1 DEF Uses, p
    <3>2. Uses(t)' = p
      BY <1>8, <1>9, PhaseFacts DEF Uses, Moves
    <3>3. \A u \in Cast : u # t => Uses(u)' = Uses(u)
      BY <1>8, <1>9 DEF Uses, Moves
    <3> QED BY <3>1, <3>2, <3>3
  <2>2. \A u \in Cast : holds'[u] # NoProducer => rpc'[u] \in {"idle", "claim"} /\ holds'[u] = Uses(u)'
    <3>1. Uses(t)' = p /\ rpc'[t] = "idle"
      BY <1>8, <1>9, PhaseFacts DEF Uses, Moves
    <3> QED BY <1>8, <1>9, <2>1, <3>1 DEF RegistryIInv, UseInv, Moves
  <2>3. \A u \in Cast : rpc'[u] \in {"claim"} \cup Linking => local'[u].producer # NoProducer
    BY <1>9, PhaseFacts DEF RegistryIInv, UseInv, Moves
  <2> QED BY <1>1, <1>9, <2>1, <2>2, <2>3 DEF RegistryIInv, UseInv, Moves
<1>13. HashInv'
  <2>1. \A j \in DOMAIN tables : TableOK(tables[j], holds) /\ IsTable(tables[j])
    BY DEF RegistryIInv, HashInv, RegistryTypes
  <2>2. /\ DOMAIN holds' = Cast /\ DOMAIN holds = Cast
        /\ \A u \in Cast : holds'[u] = holds[u] \/ holds[u] = NoProducer
    BY <1>8 DEF RegistryIInv, RegistryTypes
  <2>3. PICK g : g = holds'
    OBVIOUS
  <2>5. \A j \in DOMAIN tables : TableOK(tables[j], g)
    BY <2>1, <2>2, <2>3, TableOther
  <2>4. TableOK(new, g)
    <3>1. new[i].value = p
      BY <1>6 DEF e
    <3>2. TableOK(tables[k], g) /\ t \in DOMAIN g
      BY <1>2, <2>2, <2>3, <2>5
    <3>3. g[t] = new[i].value /\ new[i].value # NoProducer
      BY <1>2, <1>8, <2>3, <3>1 DEF p
    <3>4. Taken(tables[k], new, i, t) /\ t \in RegistryThreads
      BY <1>2, <1>6
    <3> QED BY <1>10, <3>2, <3>3, <3>4, TableClaimed
  <2>6. \A j \in DOMAIN tables' : TableOK(tables'[j], holds')
    BY <1>7, <2>3, <2>4, <2>5
  <2>7. FoundAgain'
    <3> SUFFICES ASSUME NEW u \in RegistryThreads, u \in Cast, holds'[u] # NoProducer
                 PROVE  \E j \in DOMAIN tables' : FoundIn(tables'[j], u)
      BY <2>2 DEF FoundAgain
    <3>1. CASE u = t
      BY <1>2, <1>7, <1>10, <3>1
    <3>2. CASE u # t
      <4>1. PICK j \in DOMAIN tables : FoundIn(tables[j], u)
        BY <1>8, <2>2, <3>2 DEF RegistryIInv, HashInv, FoundAgain
      <4>2. CASE j # k
        BY <1>7, <4>1, <4>2
      <4>3. CASE j = k
        <5>1. FoundIn(new, u)
          BY <1>2, <1>6, <3>2, <4>1, <4>3, FoundKept
        <5> QED BY <1>2, <1>7, <5>1
      <4> QED BY <4>2, <4>3
    <3> QED BY <3>1, <3>2
  <2>8. ASSUME NEW u \in Cast, rpc'[u] = "claim"
        PROVE  ClaimOK(tables'[local'[u].main], u, local'[u].index)
    <3>1. u # t /\ rpc[u] = "claim" /\ local'[u] = local[u]
      BY <1>9, <2>8 DEF Moves
    <3>2. /\ u \in RegistryThreads /\ local[u].main \in DOMAIN tables
          /\ ClaimOK(tables[local[u].main], u, local[u].index)
      BY <3>1, ThreadFacts
    <3>3. CASE local[u].main # k
      BY <1>7, <3>1, <3>2, <3>3
    <3>4. CASE local[u].main = k
      <4>1. ClaimOK(new, u, local[u].index)
        BY <1>2, <1>6, <3>1, <3>2, <3>4, ClaimKept
      <4> QED BY <1>7, <3>1, <3>4, <4>1
    <3> QED BY <3>3, <3>4
  <2>9. \A j \in DOMAIN tables : Capacity(tables'[j]) = Capacity(tables[j])
    BY <1>6, <1>7
  <2>10. \A j, m \in DOMAIN tables' : j <= m => Capacity(tables'[j]) <= Capacity(tables'[m])
    BY <1>7, <2>9 DEF RegistryIInv, HashInv
  <2> QED BY <1>9, <2>6, <2>7, <2>8, <2>10 DEF HashInv, Moves
<1>14. PhaseInv'
  BY <1>1, <1>7, <1>9, PhaseFacts DEF RegistryIInv, PhaseInv, Moves
<1>15. ListInv'
  <2>1. \A u \in Cast : /\ rpc'[u] \in Linking <=> rpc[u] \in Linking
                        /\ rpc[u] \in Linking => local'[u].producer = local[u].producer
    BY <1>1, <1>9, PhaseFacts DEF Moves
  <2>2. Cast' = Cast
    BY <1>9 DEF Moves
  <2> QED BY <1>1, <2>1, <2>2 DEF RegistryIInv, ListInv
<1>16. CountInv'
  <2>1. \A u \in Cast : Counted(u, rpc'[u], holds'[u]) <=> Counted(u, rpc[u], holds[u])
    <3>1. Counted(t, rpc'[t], holds'[t]) /\ Counted(t, rpc[t], holds[t])
      BY <1>1, <1>2, <1>8, PhaseFacts DEF Counted, p
    <3>2. \A u \in Cast : u # t => rpc'[u] = rpc[u] /\ holds'[u] = holds[u]
      BY <1>8, <1>9 DEF Moves
    <3> QED BY <3>1, <3>2
  <2>2. ASSUME NEW u \in Cast, NEW n \in Nat, Counted(u, rpc[u], holds[u]), PlaceOK(u, n, rpc[u], local[u], tables)
        PROVE  PlaceOK(u, n, rpc'[u], local'[u], tables')
    <3>1. \A j \in DOMAIN tables : Capacity(tables'[j]) = Capacity(tables[j])
      BY <1>6, <1>7
    <3>2. CASE u = t
      <4>1. n < ThreeQuarters(Capacity(tables[k]))
        BY <1>1, <2>2, <3>2, PhaseFacts DEF PlaceOK, k
      <4>2. \A j \in DOMAIN tables' : HasKey(tables'[j], u) => n < ThreeQuarters(Capacity(tables'[j]))
        BY <1>7, <2>2, <3>1, <4>1 DEF PlaceOK
      <4>3. rpc'[u] = "idle"
        BY <1>9, <3>2 DEF Moves
      <4> QED BY <4>2, <4>3, PhaseFacts DEF PlaceOK
    <3>3. CASE u # t
      <4>1. rpc'[u] = rpc[u] /\ local'[u] = local[u]
        BY <1>9, <3>3 DEF Moves
      <4>2. HasKey(new, u) => HasKey(tables[k], u)
        BY <1>6, <3>3 DEF HasKey, Taken
      <4>3. \A j \in DOMAIN tables' : HasKey(tables'[j], u) => n < ThreeQuarters(Capacity(tables'[j]))
        BY <1>7, <2>2, <3>1, <4>2 DEF PlaceOK
      <4>4. rpc[u] \in Admitted => local[u].main \in DOMAIN tables
        BY <2>2, ThreadFacts, PhaseFacts DEF Counted
      <4> QED BY <2>2, <3>1, <4>1, <4>3, <4>4 DEF PlaceOK
    <3> QED BY <3>2, <3>3
  <2>3. Cast' = Cast /\ hashCount' = hashCount
    BY <1>1, <1>9 DEF Moves
  <2> QED BY <2>1, <2>2, <2>3, CountKept
<1> QED BY <1>11, <1>12, <1>13, <1>14, <1>15, <1>16 DEF RegistryIInv

-----------------------------------------------------------------------------
\* Resize, a larger table is put before the others: it is empty.
LEMMA GrowKeeps ==
  ASSUME RegistryAssumption, RegistryIInv, NEW t \in Cast, NEW r \in Locals, Moves(t, "unlock", r),
         rpc[t] = "locked", r.count = local[t].count, r.main = Len(tables) + 1,
         NEW n \in Nat \ {0}, Capacity(tables[Len(tables)]) <= n, tables' = Append(tables, Table(n)),
         UNCHANGED <<hashCount, resizing, list, producerCount, prod, holds>>
  PROVE  RegistryIInv'
<1>1. PICK m \in Nat \ {0} : m = Len(tables) /\ DOMAIN tables = 1 .. m
  BY TypeFacts
<1>2. /\ IsSequence(tables') /\ Len(tables') = m + 1 /\ DOMAIN tables' = 1 .. m + 1
      /\ tables'[m + 1] = Table(n) /\ \A j \in 1 .. m : tables'[j] = tables[j]
  <2>1. IsSequence(tables)
    BY DEF RegistryIInv, RegistryTypes
  <2>2. PICK s : s = tables
    OBVIOUS
  <2>3. PICK x : x = Table(n)
    OBVIOUS
  <2>4. PICK new : new = Append(s, x)
    OBVIOUS
  <2>5. Grown(s, x, new)
    <3>1. IsSequence(s)
      BY <2>1, <2>2
    <3> QED BY <2>4, <3>1, SequenceGrows, Zenon
  <2>6. tables' = new
    BY <2>2, <2>3, <2>4
  <2> QED BY <1>1, <2>2, <2>3, <2>5, <2>6 DEF Grown
<1>3. /\ IsTable(Table(n)) /\ Capacity(Table(n)) = n /\ DOMAIN Table(n) = 0 .. n - 1
      /\ \A i \in 0 .. n - 1 : Table(n)[i] = Empty
  BY NewTable
<1>4. \A u \in RegistryThreads : ~HasKey(Table(n), u)
  BY <1>3 DEF HasKey, Empty, RegistryAssumption
<1>5. /\ holds[t] = NoProducer /\ t \in RegistryThreads
      /\ \A u \in Cast : u \in RegistryThreads /\ rpc[u] # "idle" => local[u].main \in 1 .. m
      /\ \A u \in Cast : rpc[u] = "claim" => u \in RegistryThreads
  BY <1>1, ThreadFacts, PhaseFacts
<1>6. RegistryTypes'
  <2>1. \A j \in DOMAIN tables' : IsTable(tables'[j])
    BY <1>1, <1>2, <1>3 DEF RegistryIInv, RegistryTypes
  <2>2. Len(tables') > 0
    BY <1>1, <1>2
  <2> QED BY <1>2, <2>1, <2>2 DEF RegistryIInv, RegistryTypes, Moves
<1>7. UseInv' /\ ListInv'
  <2>1. \A u \in Cast : Uses(u)' = Uses(u)
    BY PhaseFacts DEF Uses, Moves
  <2>2. UseInv'
    BY <1>5, <2>1, PhaseFacts DEF RegistryIInv, UseInv, Moves
  <2>3. \A u \in Cast : /\ rpc'[u] \in Linking <=> rpc[u] \in Linking
                        /\ rpc[u] \in Linking => local'[u].producer = local[u].producer
    BY PhaseFacts DEF Moves
  <2>4. Cast' = Cast
    BY DEF Moves
  <2>5. ListInv'
    BY <2>3, <2>4 DEF RegistryIInv, ListInv
  <2> QED BY <2>2, <2>5
<1>8. HashInv'
  <2>1. TableOK(Table(n), holds)
    BY <1>3 DEF TableOK, Empty
  <2>2. \A j \in DOMAIN tables' : TableOK(tables'[j], holds')
    BY <1>1, <1>2, <2>1 DEF RegistryIInv, HashInv
  <2>3. FoundAgain'
    BY <1>1, <1>2 DEF RegistryIInv, HashInv, FoundAgain
  <2>4. \A u \in Cast : rpc'[u] = "claim" => ClaimOK(tables'[local'[u].main], u, local'[u].index)
    BY <1>2, <1>5 DEF RegistryIInv, HashInv, Moves
  <2>5. \A j, k \in DOMAIN tables' : j <= k => Capacity(tables'[j]) <= Capacity(tables'[k])
    <3> SUFFICES ASSUME NEW j \in 1 .. m + 1, NEW k \in 1 .. m + 1, j <= k
                 PROVE  Capacity(tables'[j]) <= Capacity(tables'[k])
      BY <1>2
    <3>1. \A i \in 1 .. m : Capacity(tables[i]) \in Nat
      BY <1>1, TypeFacts
    <3>2. CASE k \in 1 .. m
      <4>1. j \in 1 .. m
        BY <3>2
      <4> QED BY <1>1, <1>2, <3>2, <4>1 DEF RegistryIInv, HashInv
    <3>3. CASE k = m + 1 /\ j \in 1 .. m
      <4>1. Capacity(tables[j]) <= Capacity(tables[m])
        BY <1>1, <3>3 DEF RegistryIInv, HashInv
      <4>2. m \in 1 .. m
        OBVIOUS
      <4>3. Capacity(tables[j]) <= n
        BY <1>1, <3>1, <3>3, <4>1, <4>2
      <4> QED BY <1>2, <1>3, <3>3, <4>3
    <3>4. CASE k = m + 1 /\ j = m + 1
      BY <1>2, <1>3, <3>4
    <3>5. k = m + 1 \/ k \in 1 .. m
      OBVIOUS
    <3>6. j = m + 1 \/ j \in 1 .. m
      OBVIOUS
    <3> QED BY <3>2, <3>3, <3>4, <3>5, <3>6
  <2>6. Cast' = Cast
    BY DEF Moves
  <2> QED BY <2>2, <2>3, <2>4, <2>5, <2>6 DEF HashInv
<1>9. PhaseInv'
  <2>1. r.main \in DOMAIN tables'
    BY <1>1, <1>2
  <2>2. 1 .. m \subseteq DOMAIN tables'
    BY <1>2
  <2> QED BY <1>1, <1>5, <2>1, <2>2, PhaseFacts DEF RegistryIInv, PhaseInv, Moves
<1>10. CountInv'
  <2>1. \A u \in Cast : Counted(u, rpc'[u], holds'[u]) <=> Counted(u, rpc[u], holds[u])
    BY PhaseFacts DEF Counted, Moves
  <2>2. ASSUME NEW u \in Cast, NEW i \in Nat, Counted(u, rpc[u], holds[u]), PlaceOK(u, i, rpc[u], local[u], tables)
        PROVE  PlaceOK(u, i, rpc'[u], local'[u], tables')
    <3>1. u \in RegistryThreads
      BY <2>2 DEF Counted
    <3>2. \A k \in DOMAIN tables' : HasKey(tables'[k], u) => i < ThreeQuarters(Capacity(tables'[k]))
      BY <1>1, <1>2, <1>4, <2>2, <3>1 DEF PlaceOK
    <3>3. rpc'[u] \in Waiting => i <= local'[u].count
      BY <2>2, PhaseFacts DEF PlaceOK, Moves
    <3>4. ASSUME rpc'[u] \in Admitted
          PROVE  i < ThreeQuarters(Capacity(tables'[local'[u].main]))
      <4>1. u # t /\ rpc'[u] = rpc[u] /\ local'[u] = local[u]
        BY <3>4, PhaseFacts DEF Moves
      <4>2. local[u].main \in 1 .. m
        BY <1>5, <3>1, <3>4, <4>1, PhaseFacts
      <4> QED BY <1>2, <2>2, <3>4, <4>1, <4>2 DEF PlaceOK
    <3> QED BY <3>2, <3>3, <3>4 DEF PlaceOK
  <2>3. Cast' = Cast /\ hashCount' = hashCount
    BY DEF Moves
  <2> QED BY <2>1, <2>2, <2>3, CountKept
<1> QED BY <1>6, <1>7, <1>8, <1>9, <1>10 DEF RegistryIInv

\* Resize
LEMMA ResizeKeeps ==
  ASSUME RegistryAssumption, RegistryIInv, NEW t \in Cast, Resize(t)
  PROVE  RegistryIInv'
<1>1. /\ rpc[t] = "locked" /\ StepTo(t, "unlock") /\ UNCHANGED <<hashCount, resizing, list, producerCount, prod, holds>>
  BY DEF Resize
<1>2. /\ local[t] \in Locals /\ Len(tables) \in Nat \ {0} /\ Len(tables) \in DOMAIN tables
      /\ Capacity(tables[Len(tables)]) \in Nat \ {0}
  BY TypeFacts
<1>3. "unlock" \in Phases /\ "unlock" \in Waiting /\ rpc[t] \in Waiting
  BY <1>1, PhaseFacts
<1>4. CASE HalfFull(t, Len(tables))
  <2>1. PICK n \in Doublings(Capacity(tables[Len(tables)]), local[t].count) : tables' = Append(tables, Table(n))
    BY <1>4 DEF Resize
  <2>2. n \in Nat \ {0} /\ Capacity(tables[Len(tables)]) <= n
    <3>1. PICK c \in Nat \ {0} : c = Capacity(tables[Len(tables)])
      BY <1>2
    <3>2. PICK d \in Nat : d = local[t].count
      BY <1>2 DEF Locals
    <3>3. n \in 2 * c .. 4 * (c + d)
      BY <2>1, <3>1, <3>2 DEF Doublings
    <3> QED BY <3>1, <3>3
  <2>a. PICK m \in Nat : m = Len(tables) + 1
    BY <1>2
  <2>3. PICK r : r = [local[t] EXCEPT !.main = m]
    OBVIOUS
  <2>4. r \in Locals /\ r.main = m /\ r.count = local[t].count
    BY <1>2, <2>3 DEF Locals
  <2>5. Keep(t, r)
    BY <1>4, <2>a, <2>3 DEF Resize
  <2>6. Moves(t, "unlock", r)
    BY <1>1, <1>3, <2>4, <2>5, Moved DEF RegistryIInv
  <2>7. r.main = Len(tables) + 1
    BY <2>a, <2>4
  <2> QED BY <1>1, <2>1, <2>2, <2>4, <2>6, <2>7, GrowKeeps
<1>5. CASE ~HalfFull(t, Len(tables))
  <2>1. PICK r : r = [local[t] EXCEPT !.main = Len(tables)]
    OBVIOUS
  <2>2. r \in Locals /\ r.main = Len(tables) /\ r.count = local[t].count
    BY <1>2, <2>1 DEF Locals
  <2>3. Keep(t, r) /\ UNCHANGED tables
    BY <1>5, <2>1 DEF Resize
  <2>4. Moves(t, "unlock", r)
    BY <1>1, <1>3, <2>2, <2>3, Moved DEF RegistryIInv
  <2>5. resizing' \in BOOLEAN
    BY <1>1 DEF RegistryIInv, RegistryTypes
  <2> QED BY <1>1, <1>2, <1>3, <2>2, <2>3, <2>4, <2>5, WaitingKeeps
<1> QED BY <1>4, <1>5


\* Claim
LEMMA ClaimKeeps ==
  ASSUME RegistryAssumption, RegistryIInv, NEW t \in Cast, Claim(t)
  PROVE  RegistryIInv'
BY ClaimHitKeeps, ClaimMissKeeps

-----------------------------------------------------------------------------
\* The producers new are those of s, but the flag of p is b.
Flag(s, p, b, new) ==
  /\ new \in Seq(ProducerStates) /\ Len(new) = Len(s) /\ DOMAIN new = DOMAIN s
  /\ new[p].inactive = b /\ new[p].kind = s[p].kind /\ \A q \in DOMAIN s : q # p => new[q] = s[q]

\* The flag of one producer is set or cleared.
LEMMA Flagged ==
  ASSUME NEW s \in Seq(ProducerStates), NEW p \in DOMAIN s, NEW b \in BOOLEAN,
         NEW new, new = [s EXCEPT ![p].inactive = b]
  PROVE  Flag(s, p, b, new)
<1>1. PICK x \in ProducerStates : x = s[p]
  OBVIOUS
<1>2. PICK y : y = [x EXCEPT !.inactive = b]
  OBVIOUS
<1>3. y \in ProducerStates /\ y.inactive = b /\ y.kind = x.kind
  BY <1>2 DEF ProducerStates
<1>4. new = [s EXCEPT ![p] = y]
  BY <1>1, <1>2
<1> QED BY <1>1, <1>3, <1>4 DEF Flag

\* DropToken: nobody else uses the producer, and no table has the token as a key.
LEMMA DropTokenKeeps ==
  ASSUME RegistryAssumption, RegistryIInv, NEW t \in Cast, DropToken(t)
  PROVE  RegistryIInv'
<1>1. /\ rpc[t] = "idle" /\ t \in TokenThreads /\ holds[t] # NoProducer
      /\ UNCHANGED <<tables, hashCount, resizing, list, producerCount, rpc, local>>
  BY DEF DropToken
<1>2. PICK p \in DOMAIN prod : p = holds[t] /\ Uses(t) = p
  <2>1. Uses(t) = holds[t]
    BY <1>1, PhaseFacts DEF Uses
  <2>2. Uses(t) \in DOMAIN prod
    BY <1>1, <2>1 DEF RegistryIInv, UseInv
  <2> QED BY <2>1, <2>2
<1>3. /\ prod' \in Seq(ProducerStates)
      /\ Len(prod') = Len(prod) /\ DOMAIN prod' = DOMAIN prod
      /\ prod'[p].kind = prod[p].kind /\ \A q \in DOMAIN prod : q # p => prod'[q] = prod[q]
  <2>1. prod \in Seq(ProducerStates)
    BY DEF RegistryIInv, RegistryTypes
  <2>2. prod' = [prod EXCEPT ![p].inactive = TRUE]
    BY <1>2 DEF DropToken
  <2>3. PICK s \in Seq(ProducerStates) : s = prod
    BY <2>1
  <2>4. PICK new : new = [s EXCEPT ![p].inactive = TRUE]
    OBVIOUS
  <2>5. Flag(s, p, TRUE, new)
    <3>1. p \in DOMAIN s
      BY <1>2, <2>3
    <3> QED BY <2>3, <2>4, <3>1, Flagged
  <2>6. prod' = new
    BY <2>2, <2>3, <2>4
  <2> QED BY <2>3, <2>5, <2>6 DEF Flag
<1>4. t \notin RegistryThreads
  BY <1>1 DEF RegistryAssumption
<1>5. Cast' = Cast
  BY <1>1 DEF Cast
<1>6. holds' \in [Cast -> Nat] /\ holds'[t] = NoProducer /\ \A u \in Cast : u # t => holds'[u] = holds[u]
  <2>1. holds \in [Cast -> Nat]
    BY DEF RegistryIInv, RegistryTypes
  <2>2. holds' = [holds EXCEPT ![t] = NoProducer] /\ NoProducer \in Nat
    BY DEF DropToken, NoProducer
  <2> QED BY <2>1, <2>2
<1>7. RegistryTypes'
  BY <1>1, <1>3, <1>5, <1>6 DEF RegistryIInv, RegistryTypes
<1>8. UseInv'
  <2>1. Uses(t)' = NoProducer
    BY <1>1, <1>6, PhaseFacts DEF Uses
  <2>2. \A u \in Cast : u # t => Uses(u)' = Uses(u)
    BY <1>1, <1>6 DEF Uses
  <2>3. \A u \in Cast : u # t => Uses(u) # p
    BY <1>1, <1>2 DEF RegistryIInv, UseInv
  <2>4. \A u \in Cast : Uses(u)' # NoProducer =>
          Uses(u)' \in DOMAIN prod' /\ ~prod'[Uses(u)'].inactive /\ prod'[Uses(u)'].kind = KindOf(u)
    BY <1>3, <2>1, <2>2, <2>3 DEF RegistryIInv, UseInv
  <2>a. \A q \in DOMAIN prod' : prod'[q].inactive => prod'[q].kind = "explicit"
    <3>1. prod[p].kind = "explicit"
      BY <1>1, <1>2 DEF RegistryIInv, UseInv, KindOf
    <3> QED BY <1>3, <3>1 DEF RegistryIInv, UseInv
  <2>5. \A u, v \in Cast : Uses(u)' = Uses(v)' => u = v \/ Uses(u)' = NoProducer
    BY <2>1, <2>2 DEF RegistryIInv, UseInv
  <2>6. \A u \in Cast : holds'[u] # NoProducer => rpc'[u] \in {"idle", "claim"} /\ holds'[u] = Uses(u)'
    BY <1>1, <1>6, <2>2 DEF RegistryIInv, UseInv
  <2> QED BY <1>1, <1>3, <1>5, <2>4, <2>a, <2>5, <2>6 DEF RegistryIInv, UseInv
<1>9. HashInv'
  <2>1. \A k \in DOMAIN tables : TableOK(tables[k], holds) /\ IsTable(tables[k])
    BY DEF RegistryIInv, HashInv, RegistryTypes
  <2>2. PICK g : g = holds'
    OBVIOUS
  <2>3. /\ DOMAIN g = Cast /\ DOMAIN holds = Cast
        /\ \A u \in Cast : u \in RegistryThreads => g[u] = holds[u]
    BY <1>4, <1>6, <2>2 DEF RegistryIInv, RegistryTypes
  <2>4. \A k \in DOMAIN tables : TableOK(tables[k], g)
    BY <2>1, <2>3, TableOther
  <2>5. FoundAgain'
    BY <1>1, <2>2, <2>3 DEF RegistryIInv, HashInv, FoundAgain
  <2> QED BY <1>1, <1>5, <2>2, <2>4, <2>5 DEF RegistryIInv, HashInv
<1>10. PhaseInv' /\ ListInv'
  BY <1>1, <1>3, <1>5 DEF RegistryIInv, PhaseInv, ListInv
<1>11. CountInv'
  <2>1. \A u \in Cast : Counted(u, rpc'[u], holds'[u]) <=> Counted(u, rpc[u], holds[u])
    BY <1>1, <1>4, <1>6 DEF Counted
  <2>2. \A u \in Cast : \A i \in Nat :
          Counted(u, rpc[u], holds[u]) /\ PlaceOK(u, i, rpc[u], local[u], tables)
            => PlaceOK(u, i, rpc'[u], local'[u], tables')
    BY <1>1
  <2> QED BY <1>1, <1>5, <2>1, <2>2, CountKept
<1> QED BY <1>7, <1>8, <1>9, <1>10, <1>11 DEF RegistryIInv

\* The caller has got p: a token holds it; a thread will tell the hash table of it.
NowUses(t, p) ==
  /\ Cast' = Cast /\ rpc' \in [Cast -> Phases] /\ local' \in [Cast -> Locals] /\ holds' \in [Cast -> Nat]
  /\ rpc'[t] \in {"idle", "claim"} /\ Uses(t)' = p /\ (holds'[t] # NoProducer => holds'[t] = p)
  /\ t \in RegistryThreads => rpc'[t] = "claim" /\ holds'[t] = NoProducer
  /\ rpc'[t] = "claim" => /\ t \in RegistryThreads /\ local'[t].producer = p
                          /\ local'[t].main = local[t].main /\ local'[t].index = t % HashMod
  /\ \A u \in Cast : u # t => rpc'[u] = rpc[u] /\ local'[u] = local[u] /\ holds'[u] = holds[u]

\* What Got does.
LEMMA GotFacts ==
  ASSUME RegistryAssumption, RegistryIInv, NEW t \in Cast, NEW p \in Nat \ {0}, Got(t, p),
         rpc[t] \in {"recycle", "link"}
  PROVE  NowUses(t, p)
<1>1. /\ rpc \in [Cast -> Phases] /\ local \in [Cast -> Locals] /\ holds \in [Cast -> Nat] /\ DOMAIN rpc = Cast
      /\ t \in RegistryThreads \cup TokenThreads
  BY DEF RegistryIInv, RegistryTypes
<1>2. holds[t] = NoProducer
  BY ThreadFacts
<1>3. CASE t \in TokenThreads
  <2>1. t \notin RegistryThreads
    BY <1>3 DEF RegistryAssumption
  <2>2. NoLocal \in Locals /\ "idle" \in Phases
    BY PhaseFacts DEF Locals, NoLocal, NoProducer
  <2>3. holds' = [holds EXCEPT ![t] = p] /\ StepTo(t, "idle") /\ Keep(t, NoLocal)
    BY <1>3 DEF Got, Done
  <2>4. Moves(t, "idle", NoLocal)
    BY <2>2, <2>3, Moved DEF RegistryIInv
  <2>5. holds' \in [Cast -> Nat] /\ holds'[t] = p /\ \A u \in Cast : u # t => holds'[u] = holds[u]
    BY <1>1, <2>3
  <2>6. Uses(t)' = p
    BY <2>4, <2>5, PhaseFacts DEF Uses, Moves
  <2> QED BY <2>1, <2>4, <2>5, <2>6 DEF NowUses, Moves
<1>4. CASE t \notin TokenThreads
  <2>1. PICK h \in Nat : h = t % HashMod
    <3>1. t % HashMod \in Nat
      BY <1>1, <1>4, ModRange DEF RegistryAssumption
    <3> QED BY <3>1, Zenon
  <2>2. PICK x \in Locals : x = local[t]
    BY <1>1
  <2>3. PICK r : r = [x EXCEPT !.producer = p, !.index = h, !.at = 0]
    OBVIOUS
  <2>4. r \in Locals /\ r.main = x.main /\ r.producer = p /\ r.index = h
    BY <2>3 DEF Locals
  <2>5. Keep(t, r) /\ StepTo(t, "claim") /\ UNCHANGED holds
    BY <1>4, <2>1, <2>2, <2>3 DEF Got
  <2>6. "claim" \in Phases
    BY PhaseFacts
  <2>7. Moves(t, "claim", r)
    BY <2>4, <2>5, <2>6, Moved DEF RegistryIInv
  <2>8. Uses(t)' = p
    BY <2>4, <2>7 DEF Uses, Moves
  <2> QED BY <1>1, <1>2, <1>4, <2>1, <2>2, <2>4, <2>5, <2>7, <2>8 DEF NowUses, Moves
<1> QED BY <1>3, <1>4

\* Nobody else uses p, which is active from now on if it was not; and the list has no
\* fewer entries.
TakesOver(t, p) ==
  /\ p \in DOMAIN prod /\ DOMAIN prod' = DOMAIN prod /\ ~prod'[p].inactive /\ prod'[p].kind = KindOf(t)
  /\ \A u \in Cast : u # t => Uses(u) # p
  /\ \A q \in DOMAIN prod : q # p => prod'[q] = prod[q]
  /\ \A i \in DOMAIN list' : list'[i] \in DOMAIN prod
  /\ Len(list') \in Nat /\ Len(list) <= Len(list')

\* Then the caller may have it.
LEMMA GotKeeps ==
  ASSUME RegistryAssumption, RegistryIInv, NEW t \in Cast, NEW p \in Nat \ {0}, NowUses(t, p), TakesOver(t, p),
         rpc[t] \in {"recycle", "link"}, UNCHANGED <<tables, hashCount>>
  PROVE  UseInv' /\ HashInv' /\ PhaseInv' /\ CountInv'
<1>1. /\ holds[t] = NoProducer
      /\ t \in RegistryThreads => local[t].main \in DOMAIN tables
      /\ t \in RegistryThreads => \A k \in DOMAIN tables : ~HasKey(tables[k], t)
  BY ThreadFacts
<1>2. UseInv'
  <2>1. Uses(t)' = p /\ p # NoProducer
    BY DEF NowUses, NoProducer
  <2>2. \A u \in Cast : u # t => Uses(u)' = Uses(u)
    BY DEF Uses, NowUses
  <2>3. \A u \in Cast : Uses(u)' # NoProducer =>
          Uses(u)' \in DOMAIN prod' /\ ~prod'[Uses(u)'].inactive /\ prod'[Uses(u)'].kind = KindOf(u)
    BY <2>1, <2>2 DEF RegistryIInv, UseInv, TakesOver
  <2>a. \A q \in DOMAIN prod' : prod'[q].inactive => prod'[q].kind = "explicit"
    BY DEF RegistryIInv, UseInv, TakesOver
  <2>4. \A u, v \in Cast : Uses(u)' = Uses(v)' => u = v \/ Uses(u)' = NoProducer
    BY <2>1, <2>2 DEF RegistryIInv, UseInv, TakesOver
  <2>5. \A u \in Cast : holds'[u] # NoProducer => rpc'[u] \in {"idle", "claim"} /\ holds'[u] = Uses(u)'
    BY <2>1, <2>2 DEF RegistryIInv, UseInv, NowUses
  <2>6. \A u \in Cast : rpc'[u] \in {"claim"} \cup Linking => local'[u].producer # NoProducer
    BY <2>1, PhaseFacts DEF RegistryIInv, UseInv, NowUses
  <2>7. Cast' = Cast /\ \A i \in DOMAIN list' : list'[i] \in DOMAIN prod'
    BY DEF NowUses, TakesOver
  <2> QED BY <2>3, <2>a, <2>4, <2>5, <2>6, <2>7 DEF UseInv
<1>3. HashInv'
  <2>1. \A k \in DOMAIN tables : TableOK(tables[k], holds) /\ IsTable(tables[k])
    BY DEF RegistryIInv, HashInv, RegistryTypes
  <2>2. PICK g : g = holds'
    OBVIOUS
  <2>3. /\ DOMAIN g = Cast /\ DOMAIN holds = Cast
        /\ \A u \in Cast : g[u] = holds[u] \/ holds[u] = NoProducer
    BY <1>1, <2>2 DEF RegistryIInv, RegistryTypes, NowUses
  <2>4. \A k \in DOMAIN tables : TableOK(tables[k], g)
    BY <2>1, <2>3, TableOther
  <2>5. \A u \in Cast : u \in RegistryThreads => holds'[u] = holds[u]
    BY <1>1 DEF NowUses
  <2>6. FoundAgain'
    BY <2>2, <2>3, <2>5 DEF RegistryIInv, HashInv, FoundAgain
  <2>7. ASSUME NEW u \in Cast, rpc'[u] = "claim"
        PROVE  ClaimOK(tables[local'[u].main], u, local'[u].index)
    <3>1. CASE u # t
      BY <2>7, <3>1 DEF RegistryIInv, HashInv, NowUses
    <3>2. CASE u = t
      <4>1. t \in RegistryThreads /\ local'[t].main = local[t].main /\ local'[t].index = t % HashMod
        BY <2>7, <3>2 DEF NowUses
      <4>2. ~HasKey(tables[local[t].main], t)
        BY <1>1, <4>1
      <4>3. ClaimOK(tables[local[t].main], t, t % HashMod)
        BY <4>1, <4>2, ClaimStarts
      <4> QED BY <3>2, <4>1, <4>3, Zenon
    <3> QED BY <3>1, <3>2
  <2>8. Cast' = Cast
    BY DEF NowUses
  <2> QED BY <2>2, <2>4, <2>6, <2>7, <2>8 DEF RegistryIInv, HashInv
<1>4. PhaseInv'
  <2>1. \A u \in Cast : u # t /\ rpc[u] = "recycle" => local[u].at <= Len(list')
    <3>1. \A u \in Cast : local[u].at \in Nat
      BY TypeFacts DEF Locals
    <3>2. Len(list) \in Nat
      BY TypeFacts
    <3> QED BY <3>1, <3>2 DEF RegistryIInv, PhaseInv, TakesOver
  <2> QED BY <1>1, <2>1, PhaseFacts DEF RegistryIInv, PhaseInv, NowUses
<1>5. CountInv'
  <2>1. rpc[t] \in Admitted /\ "claim" \in Admitted /\ rpc[t] \notin Waiting /\ "claim" \notin Waiting
    BY PhaseFacts
  <2>2. \A u \in Cast : Counted(u, rpc'[u], holds'[u]) <=> Counted(u, rpc[u], holds[u])
    BY <2>1 DEF Counted, NowUses
  <2>3. ASSUME NEW u \in Cast, NEW i \in Nat, Counted(u, rpc[u], holds[u]), PlaceOK(u, i, rpc[u], local[u], tables)
        PROVE  PlaceOK(u, i, rpc'[u], local'[u], tables')
    <3>1. CASE u # t
      BY <2>3, <3>1 DEF NowUses
    <3>2. CASE u = t
      <4>1. rpc'[t] = "claim" /\ local'[t].main = local[t].main
        BY <2>3, <3>2 DEF Counted, NowUses
      <4> QED BY <2>1, <2>3, <3>2, <4>1 DEF PlaceOK
    <3> QED BY <3>1, <3>2
  <2>4. Cast' = Cast
    BY DEF NowUses
  <2> QED BY <2>2, <2>3, <2>4, CountKept
<1> QED BY <1>2, <1>3, <1>4, <1>5


\* The flag of a producer nobody uses, exchanged.
LEMMA RecycleHitKeeps ==
  ASSUME RegistryAssumption, RegistryIInv, NEW t \in Cast, rpc[t] = "recycle",
         NEW p \in DOMAIN prod, prod[p].inactive, prod[p].kind = KindOf(t), Got(t, p),
         prod' = [prod EXCEPT ![p].inactive = FALSE], UNCHANGED <<tables, hashCount, resizing, list, producerCount>>
  PROVE  RegistryIInv'
<1>1. p \in Nat \ {0}
  BY TypeFacts
<1>2. NowUses(t, p)
  BY <1>1, GotFacts
<1>3. Flag(prod, p, FALSE, prod')
  <2>1. PICK s \in Seq(ProducerStates) : s = prod
    BY DEF RegistryIInv, RegistryTypes
  <2>2. PICK new : new = [s EXCEPT ![p].inactive = FALSE]
    OBVIOUS
  <2>3. Flag(s, p, FALSE, new)
    <3>1. p \in DOMAIN s
      BY <2>1
    <3> QED BY <2>1, <2>2, <3>1, Flagged
  <2>4. prod' = new
    BY <2>1, <2>2
  <2> QED BY <2>1, <2>3, <2>4
<1>4. TakesOver(t, p)
  <2>1. \A u \in Cast : Uses(u) # p
    BY <1>1 DEF RegistryIInv, UseInv, NoProducer
  <2>2. \A i \in DOMAIN list : list[i] \in DOMAIN prod
    BY DEF RegistryIInv, UseInv
  <2>3. Len(list) \in Nat /\ Len(list) <= Len(list)
    BY TypeFacts
  <2> QED BY <1>3, <2>1, <2>2, <2>3 DEF TakesOver, Flag
<1>5. UseInv' /\ HashInv' /\ PhaseInv' /\ CountInv'
  BY <1>1, <1>2, <1>4, GotKeeps
<1>6. RegistryTypes'
  BY <1>2, <1>3 DEF RegistryIInv, RegistryTypes, NowUses, Flag
<1>7. ListInv'
  <2>1. \A u \in Cast : /\ rpc'[u] \in Linking <=> rpc[u] \in Linking
                        /\ rpc[u] \in Linking => local'[u].producer = local[u].producer
    BY <1>2, PhaseFacts DEF NowUses
  <2>2. Cast' = Cast /\ Len(prod') = Len(prod) /\ DOMAIN prod' = DOMAIN prod
    BY <1>2, <1>3 DEF NowUses, Flag
  <2> QED BY <2>1, <2>2 DEF RegistryIInv, ListInv
<1> QED BY <1>5, <1>6, <1>7 DEF RegistryIInv

\* Recycle
LEMMA RecycleKeeps ==
  ASSUME RegistryAssumption, RegistryIInv, NEW t \in Cast, Recycle(t)
  PROVE  RegistryIInv'
<1>1. rpc[t] = "recycle" /\ local[t].at > 0 /\ UNCHANGED <<tables, resizing, list, producerCount>>
  BY DEF Recycle
<1>2. /\ local[t] \in Locals /\ local[t].at \in Nat /\ local[t].at <= Len(list)
      /\ Len(list) \in Nat /\ DOMAIN list = 1 .. Len(list)
  BY <1>1, TypeFacts, ThreadFacts DEF Locals
<1>3. list[local[t].at] \in DOMAIN prod
  BY <1>1, <1>2 DEF RegistryIInv, UseInv
<1>4. PICK p \in DOMAIN prod : p = list[local[t].at]
  BY <1>3
<1>5. CASE prod[p].inactive /\ prod[p].kind = KindOf(t)
  <2>1. /\ Got(t, p) /\ prod' = [prod EXCEPT ![p].inactive = FALSE]
        /\ hashCount' = IF t \in RegistryThreads THEN hashCount - 1 ELSE hashCount
    BY <1>4, <1>5 DEF Recycle
  <2>2. t \notin RegistryThreads
    <3>1. KindOf(t) = "explicit"
      BY <1>5 DEF RegistryIInv, UseInv
    <3> QED BY <3>1 DEF KindOf, RegistryAssumption
  <2>3. UNCHANGED <<tables, hashCount, resizing, list, producerCount>>
    BY <1>1, <2>1, <2>2
  <2> QED BY <1>1, <1>5, <2>1, <2>3, RecycleHitKeeps
<1>6. CASE ~(prod[p].inactive /\ prod[p].kind = KindOf(t))
  <2>1. PICK a \in Nat : a = local[t].at - 1 /\ a <= Len(list)
    BY <1>1, <1>2
  <2>2. PICK r : r = [local[t] EXCEPT !.at = a]
    OBVIOUS
  <2>3. r \in Locals /\ r.main = local[t].main /\ r.producer = local[t].producer /\ r.at = a
    BY <1>2, <2>1, <2>2 DEF Locals
  <2>4. Keep(t, r) /\ UNCHANGED <<hashCount, prod, rpc, holds>>
    BY <1>4, <1>6, <2>1, <2>2 DEF Recycle
  <2>5. "recycle" \in Phases /\ "recycle" \in Admitted
    BY PhaseFacts
  <2>6. Moves(t, "recycle", r)
    BY <1>1, <2>3, <2>4, <2>5 DEF Moves, RegistryIInv, RegistryTypes, Keep, Cast
  <2>7. StaysAdmitted(t, "recycle", r)
    BY <1>1, <2>1, <2>3, <2>5 DEF StaysAdmitted
  <2> QED BY <1>1, <2>3, <2>4, <2>5, <2>6, <2>7, AdmittedKeeps
<1> QED BY <1>5, <1>6

\* Create: the new producer is nobody else's, and not on the list yet.
LEMMA CreateKeeps ==
  ASSUME RegistryAssumption, RegistryIInv, NEW t \in Cast, Create(t)
  PROVE  RegistryIInv'
<1>1. /\ rpc[t] = "recycle" /\ StepTo(t, "tail") /\ producerCount' = producerCount + 1
      /\ UNCHANGED <<tables, hashCount, resizing, list, holds>>
  BY DEF Create
<1>2. PICK m \in Nat : m = Len(prod) /\ DOMAIN prod = 1 .. m
  BY TypeFacts
<1>3. PICK p \in Nat : p = m + 1
  OBVIOUS
<1>4. local[t] \in Locals
  BY TypeFacts
<1>5. PICK r : r = [local[t] EXCEPT !.producer = p]
  OBVIOUS
<1>6. r \in Locals /\ r.producer = p /\ r.main = local[t].main
  BY <1>4, <1>5 DEF Locals
<1>7. Keep(t, r)
  BY <1>2, <1>3, <1>5 DEF Create
<1>8. "tail" \in Phases /\ "tail" \in Admitted /\ "tail" \in Linking
  BY PhaseFacts
<1>9. Moves(t, "tail", r)
  BY <1>1, <1>6, <1>7, <1>8, Moved DEF RegistryIInv
<1>10. /\ prod' \in Seq(ProducerStates) /\ Len(prod') = p /\ DOMAIN prod' = 1 .. p
       /\ ~prod'[p].inactive /\ prod'[p].kind = KindOf(t) /\ \A q \in 1 .. m : prod'[q] = prod[q]
  <2>1. PICK s \in Seq(ProducerStates) : s = prod
    BY DEF RegistryIInv, RegistryTypes
  <2>2. PICK x \in ProducerStates : /\ x = [kind |-> KindOf(t), inactive |-> FALSE]
                                   /\ x.inactive = FALSE /\ x.kind = KindOf(t)
    <3>1. PICK kind \in {"explicit", "implicit"} : kind = KindOf(t)
      BY DEF KindOf
    <3>2. PICK x : x = [kind |-> kind, inactive |-> FALSE]
      OBVIOUS
    <3>3. x \in ProducerStates /\ x.inactive = FALSE /\ x.kind = kind
      BY <3>2 DEF ProducerStates
    <3> QED BY <3>1, <3>2, <3>3
  <2>3. PICK new : new = Append(s, x)
    OBVIOUS
  <2>4. /\ new \in Seq(ProducerStates) /\ Len(new) = Len(s) + 1 /\ DOMAIN new = 1 .. Len(s) + 1
        /\ new[Len(s) + 1] = x /\ \A q \in 1 .. Len(s) : new[q] = s[q]
    BY <2>3
  <2>5. prod' = new
    BY <2>1, <2>2, <2>3 DEF Create
  <2> QED BY <1>2, <1>3, <2>1, <2>2, <2>4, <2>5
<1>11. holds[t] = NoProducer /\ p # NoProducer /\ Cast' = Cast
  BY <1>1, <1>3, <1>9, ThreadFacts DEF Moves, NoProducer
<1>12. RegistryTypes'
  BY <1>1, <1>9, <1>10 DEF RegistryIInv, RegistryTypes, Moves
<1>13. UseInv'
  <2>1. Uses(t)' = p
    BY <1>6, <1>8, <1>9 DEF Uses, Moves
  <2>2. \A u \in Cast : u # t => Uses(u)' = Uses(u)
    BY <1>1, <1>9 DEF Uses, Moves
  <2>3. \A u \in Cast : Uses(u) # NoProducer =>
          Uses(u) \in 1 .. m /\ ~prod[Uses(u)].inactive /\ prod[Uses(u)].kind = KindOf(u)
    BY <1>2 DEF RegistryIInv, UseInv
  <2>4. \A q \in 1 .. m : q \in 1 .. p /\ q # p
    BY <1>3
  <2>a. \A q \in DOMAIN prod' : prod'[q].inactive => prod'[q].kind = "explicit"
    <3>1. \A q \in 1 .. p : q = p \/ q \in 1 .. m
      BY <1>3
    <3> QED BY <1>2, <1>10, <3>1 DEF RegistryIInv, UseInv
  <2>5. \A u \in Cast : Uses(u)' # NoProducer =>
          Uses(u)' \in DOMAIN prod' /\ ~prod'[Uses(u)'].inactive /\ prod'[Uses(u)'].kind = KindOf(u)
    <3>1. p \in 1 .. p
      BY <1>3
    <3> QED BY <1>10, <2>1, <2>2, <2>3, <2>4, <3>1
  <2>6. \A u \in Cast : u # t => Uses(u) # p
    BY <1>11, <2>3, <2>4
  <2>7. \A u, v \in Cast : Uses(u)' = Uses(v)' => u = v \/ Uses(u)' = NoProducer
    BY <2>1, <2>2, <2>6 DEF RegistryIInv, UseInv
  <2>8. \A u \in Cast : holds'[u] # NoProducer => rpc'[u] \in {"idle", "claim"} /\ holds'[u] = Uses(u)'
    BY <1>1, <1>9, <1>11, <2>2 DEF RegistryIInv, UseInv, Moves
  <2>9. \A u \in Cast : rpc'[u] \in {"claim"} \cup Linking => local'[u].producer # NoProducer
    BY <1>6, <1>9, <1>11 DEF RegistryIInv, UseInv, Moves
  <2>10. \A i \in DOMAIN list' : list'[i] \in DOMAIN prod'
    BY <1>1, <1>2, <1>10, <2>4 DEF RegistryIInv, UseInv
  <2> QED BY <1>11, <2>a, <2>5, <2>7, <2>8, <2>9, <2>10 DEF UseInv
<1>14. HashInv'
  <2>1. \A u \in Cast : rpc'[u] = "claim" => rpc[u] = "claim" /\ local'[u] = local[u]
    BY <1>9 DEF Moves
  <2> QED BY <1>1, <1>11, <2>1 DEF RegistryIInv, HashInv, FoundAgain
<1>15. PhaseInv'
  BY <1>1, <1>6, <1>9, PhaseFacts DEF RegistryIInv, PhaseInv, Moves
<1>16. ListInv'
  <2>1. producerCount' = Len(prod')
    BY <1>1, <1>2, <1>3, <1>10 DEF RegistryIInv, ListInv
  <2>2. \A u \in Cast : u # t => rpc'[u] = rpc[u] /\ local'[u] = local[u]
    BY <1>9 DEF Moves
  <2>3. rpc'[t] \in Linking /\ local'[t].producer = p /\ rpc[t] \notin Linking
    BY <1>1, <1>6, <1>8, <1>9, PhaseFacts DEF Moves
  <2>4. \A i \in DOMAIN list : list[i] # p
    <3>1. \A i \in DOMAIN list : list[i] \in 1 .. m
      BY <1>2 DEF RegistryIInv, UseInv
    <3> QED BY <1>3, <3>1
  <2>5. \A u \in Cast : rpc'[u] \in Linking => \A i \in DOMAIN list : list[i] # local'[u].producer
    BY <2>2, <2>3, <2>4 DEF RegistryIInv, ListInv
  <2>6. ASSUME NEW q \in 1 .. p
        PROVE  \/ \E i \in DOMAIN list : list[i] = q
               \/ \E u \in Cast : rpc'[u] \in Linking /\ local'[u].producer = q
    <3>1. CASE q = p
      BY <2>3, <3>1
    <3>2. CASE q # p
      <4>1. q \in DOMAIN prod
        BY <1>2, <1>3, <3>2
      <4>2. \/ \E i \in DOMAIN list : list[i] = q
            \/ \E u \in Cast : rpc[u] \in Linking /\ local[u].producer = q
        BY <4>1 DEF RegistryIInv, ListInv
      <4> QED BY <2>2, <2>3, <4>2
    <3> QED BY <3>1, <3>2
  <2> QED BY <1>1, <1>10, <1>11, <2>1, <2>5, <2>6 DEF RegistryIInv, ListInv
<1>17. CountInv'
  <2>1. t \in RegistryThreads => local[t].main \in DOMAIN tables
    BY <1>1, ThreadFacts
  <2>2. PlaceKept(t, "tail", r)
    BY <1>1, <1>6, <2>1, PhaseFacts DEF PlaceKept, Counted
  <2> QED BY <1>1, <1>6, <1>8, <1>9, <2>2, CountMoved
<1> QED BY <1>12, <1>13, <1>14, <1>15, <1>16, <1>17 DEF RegistryIInv

\* The tail is what it was: the producer is on the list, and its caller has it.
LEMMA LinkHitKeeps ==
  ASSUME RegistryAssumption, RegistryIInv, NEW t \in Cast, rpc[t] = "link",
         NEW p, p = local[t].producer, list' = Append(list, p), Got(t, p),
         UNCHANGED <<tables, hashCount, resizing, producerCount, prod>>
  PROVE  RegistryIInv'
<1>1. Uses(t) = p /\ p # NoProducer /\ p \in DOMAIN prod /\ ~prod[p].inactive /\ prod[p].kind = KindOf(t)
  <2>1. Uses(t) = p
    BY PhaseFacts DEF Uses
  <2>2. p # NoProducer
    BY ThreadFacts, PhaseFacts
  <2> QED BY <2>1, <2>2 DEF RegistryIInv, UseInv
<1>2. p \in Nat \ {0}
  BY <1>1, TypeFacts
<1>3. NowUses(t, p)
  BY <1>2, GotFacts
<1>4. PICK m \in Nat : m = Len(list) /\ DOMAIN list = 1 .. m
  BY TypeFacts
<1>5. /\ list' \in Seq(Nat) /\ Len(list') = m + 1 /\ DOMAIN list' = 1 .. m + 1
      /\ list'[m + 1] = p /\ \A i \in 1 .. m : list'[i] = list[i]
  <2>1. PICK s \in Seq(Nat) : s = list
    BY DEF RegistryIInv, RegistryTypes
  <2>2. PICK new : new = Append(s, p)
    OBVIOUS
  <2>3. /\ new \in Seq(Nat) /\ Len(new) = Len(s) + 1 /\ DOMAIN new = 1 .. Len(s) + 1
        /\ new[Len(s) + 1] = p /\ \A i \in 1 .. Len(s) : new[i] = s[i]
    BY <1>2, <2>2
  <2>4. list' = new
    BY <2>1, <2>2
  <2> QED BY <1>4, <2>1, <2>3, <2>4
<1>6. \A i \in 1 .. m + 1 : i = m + 1 \/ i \in 1 .. m
  OBVIOUS
<1>7. TakesOver(t, p)
  <2>1. \A u \in Cast : u # t => Uses(u) # p
    BY <1>1 DEF RegistryIInv, UseInv
  <2>2. \A i \in DOMAIN list' : list'[i] \in DOMAIN prod
    BY <1>1, <1>4, <1>5, <1>6 DEF RegistryIInv, UseInv
  <2>3. Len(list') \in Nat /\ Len(list) <= Len(list')
    BY <1>4, <1>5
  <2> QED BY <1>1, <2>1, <2>2, <2>3 DEF TakesOver
<1>8. UseInv' /\ HashInv' /\ PhaseInv' /\ CountInv'
  BY <1>2, <1>3, <1>7, GotKeeps
<1>9. RegistryTypes'
  BY <1>3, <1>5 DEF RegistryIInv, RegistryTypes, NowUses
<1>10. ListInv'
  <2>1. \A i \in 1 .. m : list[i] # p
    BY <1>4, PhaseFacts DEF RegistryIInv, ListInv
  <2>2. \A u \in Cast : rpc'[u] \in Linking => u # t /\ rpc[u] \in Linking /\ local'[u] = local[u]
    BY <1>3, PhaseFacts DEF NowUses
  <2>3. \A i, j \in DOMAIN list' : list'[i] = list'[j] => i = j
    <3>1. \A i, j \in 1 .. m : list[i] = list[j] => i = j
      BY <1>4 DEF RegistryIInv, ListInv
    <3> QED BY <1>5, <1>6, <2>1, <3>1
  <2>4. \A u \in Cast : rpc'[u] \in Linking => \A i \in DOMAIN list' : list'[i] # local'[u].producer
    <3> SUFFICES ASSUME NEW u \in Cast, rpc'[u] \in Linking
                 PROVE  \A i \in DOMAIN list' : list'[i] # local[u].producer
      BY <2>2
    <3>1. u # t /\ rpc[u] \in Linking
      BY <2>2
    <3>2. \A i \in 1 .. m : list[i] # local[u].producer
      BY <1>4, <3>1 DEF RegistryIInv, ListInv
    <3>3. local[u].producer # p
      BY <1>7, <3>1 DEF TakesOver, Uses
    <3> QED BY <1>5, <1>6, <3>2, <3>3
  <2>5. ASSUME NEW q \in DOMAIN prod
        PROVE  \/ \E i \in DOMAIN list' : list'[i] = q
               \/ \E u \in Cast : rpc'[u] \in Linking /\ local'[u].producer = q
    <3>1. CASE \E i \in 1 .. m : list[i] = q
      <4>1. PICK i \in 1 .. m : list[i] = q
        BY <3>1
      <4>2. i \in 1 .. m + 1
        OBVIOUS
      <4> QED BY <1>5, <4>1, <4>2
    <3>2. CASE \E u \in Cast : rpc[u] \in Linking /\ local[u].producer = q
      <4>1. PICK u \in Cast : rpc[u] \in Linking /\ local[u].producer = q
        BY <3>2
      <4>2. CASE u = t
        <5>1. m + 1 \in 1 .. m + 1
          OBVIOUS
        <5> QED BY <1>5, <4>1, <4>2, <5>1
      <4>3. CASE u # t
        BY <1>3, <4>1, <4>3 DEF NowUses
      <4> QED BY <4>2, <4>3
    <3> QED BY <1>4, <3>1, <3>2 DEF RegistryIInv, ListInv
  <2>6. Cast' = Cast
    BY <1>3 DEF NowUses
  <2> QED BY <2>3, <2>4, <2>5, <2>6 DEF RegistryIInv, ListInv
<1> QED BY <1>8, <1>9, <1>10 DEF RegistryIInv

\* Link
LEMMA LinkKeeps ==
  ASSUME RegistryAssumption, RegistryIInv, NEW t \in Cast, Link(t)
  PROVE  RegistryIInv'
<1>1. rpc[t] = "link" /\ UNCHANGED <<tables, hashCount, resizing, producerCount, prod>>
  BY DEF Link
<1>2. CASE Len(list) = local[t].at
  <2>1. PICK p : p = local[t].producer
    OBVIOUS
  <2>2. list' = Append(list, p) /\ Got(t, p)
    BY <1>2, <2>1 DEF Link
  <2> QED BY <1>1, <2>1, <2>2, LinkHitKeeps
<1>3. CASE Len(list) # local[t].at
  <2>1. local[t] \in Locals /\ Len(list) \in Nat
    BY TypeFacts
  <2>2. PICK r : r = [local[t] EXCEPT !.at = Len(list)]
    OBVIOUS
  <2>3. r \in Locals /\ r.main = local[t].main /\ r.producer = local[t].producer
    BY <2>1, <2>2 DEF Locals
  <2>4. Keep(t, r) /\ UNCHANGED <<list, rpc, holds>>
    BY <1>3, <2>2 DEF Link
  <2>5. "link" \in Phases /\ "link" \in Admitted
    BY PhaseFacts
  <2>6. Moves(t, "link", r)
    BY <1>1, <2>3, <2>4, <2>5 DEF Moves, RegistryIInv, RegistryTypes, Keep, Cast
  <2>7. StaysAdmitted(t, "link", r)
    BY <1>1, <2>3, <2>5 DEF StaysAdmitted
  <2> QED BY <1>1, <2>3, <2>4, <2>5, <2>6, <2>7, AdmittedKeeps
<1> QED BY <1>2, <1>3


-----------------------------------------------------------------------------
\* At first there is one empty table, no producer, and nobody is on the way to one.
LEMMA RegistryStarts ==
  ASSUME RegistryAssumption, RegistryInit
  PROVE  RegistryIInv
<1>1. PICK cast \in RegistryCasts : /\ rpc = [t \in cast |-> "idle"]
                                    /\ local = [t \in cast |-> NoLocal]
                                    /\ holds = [t \in cast |-> NoProducer]
  BY DEF RegistryInit
<1>2. /\ tables = <<Table(InitialHashSize)>> /\ hashCount = 0 /\ resizing = FALSE
      /\ list = <<>> /\ producerCount = 0 /\ prod = <<>>
  BY DEF RegistryInit
<1>3. Cast = cast /\ \A t \in Cast : rpc[t] = "idle" /\ holds[t] = NoProducer
  BY <1>1 DEF Cast
<1>4. PICK x : x = Table(InitialHashSize)
  OBVIOUS
<1>5. /\ IsTable(x) /\ Capacity(x) = InitialHashSize /\ Capacity(x) \in Nat
      /\ \A i \in DOMAIN x : x[i] = Empty
  BY <1>4, NewTable DEF RegistryAssumption
<1>6. Len(tables) = 1 /\ DOMAIN tables = {1} /\ tables[1] = x /\ IsSequence(tables)
  <2>1. PICK s : s = <<x>>
    OBVIOUS
  <2>2. s \in Seq({x}) /\ Len(s) = 1 /\ DOMAIN s = {1} /\ s[1] = x
    BY <2>1
  <2>3. IsSequence(s)
    BY <2>2, SequenceOf
  <2>4. tables = s
    BY <1>2, <1>4, <2>1
  <2> QED BY <2>2, <2>3, <2>4
<1>7. /\ list \in Seq(Nat) /\ prod \in Seq(ProducerStates)
      /\ DOMAIN list = {} /\ DOMAIN prod = {} /\ Len(prod) = 0 /\ Len(list) = 0
  BY <1>2
<1>8. RegistryTypes
  <2>1. NoLocal \in Locals /\ NoProducer \in Nat /\ "idle" \in Phases
    BY PhaseFacts DEF Locals, NoLocal, NoProducer
  <2>2. cast \subseteq RegistryThreads \cup TokenThreads
    BY DEF RegistryAssumption
  <2>3. rpc \in [Cast -> Phases] /\ local \in [Cast -> Locals] /\ holds \in [Cast -> Nat]
    BY <1>1, <1>3, <2>1
  <2>4. Len(tables) > 0 /\ \A k \in DOMAIN tables : IsTable(tables[k])
    BY <1>5, <1>6
  <2> QED BY <1>2, <1>3, <1>6, <1>7, <2>2, <2>3, <2>4 DEF RegistryTypes
<1>9. UseInv
  <2>1. \A t \in Cast : Uses(t) = NoProducer
    BY <1>3, PhaseFacts DEF Uses
  <2> QED BY <1>3, <1>7, <2>1, PhaseFacts DEF UseInv
<1>10. HashInv
  <2>1. TableOK(x, holds)
    BY <1>5 DEF TableOK, Empty
  <2>2. FoundAgain
    BY <1>1, <1>3 DEF FoundAgain
  <2>3. \A j, k \in DOMAIN tables : j <= k => Capacity(tables[j]) <= Capacity(tables[k])
    BY <1>5, <1>6
  <2> QED BY <1>3, <1>6, <2>1, <2>2, <2>3 DEF HashInv
<1>11. PhaseInv
  BY <1>3, PhaseFacts DEF PhaseInv
<1>12. ListInv
  BY <1>2, <1>3, <1>7, PhaseFacts DEF ListInv
<1>13. CountInv
  <2>1. \A t \in Cast : ~Counted(t, rpc[t], holds[t])
    BY <1>3, PhaseFacts DEF Counted
  <2>2. PICK s : s = [i \in 1 .. 0 |-> i]
    OBVIOUS
  <2>3. s \in [1 .. hashCount -> Cast] /\ DOMAIN s = {}
    BY <1>2, <2>2
  <2>4. OrderOf(s)
    BY <2>1, <2>3 DEF OrderOf
  <2> QED BY <1>2, <2>3, <2>4 DEF CountInv
<1> QED BY <1>8, <1>9, <1>10, <1>11, <1>12, <1>13 DEF RegistryIInv

\* Every step keeps the invariant.
LEMMA RegistrySteps ==
  ASSUME RegistryAssumption, RegistryIInv, [RegistryNext]_registryVars
  PROVE  RegistryIInv'
<1>1. CASE UNCHANGED registryVars
  BY <1>1, Unmoved
<1>2. CASE RegistryNext
  <2>1. PICK t \in Cast : RegistryStep(t)
    BY <1>2 DEF RegistryNext, Cast
  <2>2. CASE LookUp(t) \/ LookUpFails(t) \/ Claim(t)
    BY <2>2, LookUpKeeps, LookUpFailsKeeps, ClaimKeeps
  <2>3. CASE CountIn(t) \/ TryResize(t) \/ Resize(t) \/ ResizeFails(t) \/ Unlock(t) \/ Fit(t)
    BY <2>3, CountInKeeps, TryResizeKeeps, ResizeKeeps, ResizeFailsKeeps, UnlockKeeps, FitKeeps
  <2>4. CASE MakeToken(t) \/ DropToken(t)
    BY <2>4, MakeTokenKeeps, DropTokenKeeps
  <2>5. CASE Recycle(t) \/ Create(t) \/ CreateFails(t) \/ LoadTail(t) \/ Link(t)
    BY <2>5, RecycleKeeps, CreateKeeps, CreateFailsKeeps, LoadTailKeeps, LinkKeeps
  <2> QED BY <2>1, <2>2, <2>3, <2>4, <2>5 DEF RegistryStep
<1> QED BY <1>1, <1>2

\* The invariant holds of every state of the registry: with any threads and tokens, in
\* any number, and with any size of the first table.
THEOREM RegistryInvariance == RegistrySpec => []RegistryIInv
<1>1. RegistryInit => RegistryIInv
  BY RegistryAssumption, RegistryStarts
<1>2. RegistryIInv /\ [RegistryNext]_registryVars => RegistryIInv'
  BY RegistryAssumption, RegistrySteps
<1> QED BY <1>1, <1>2, PTL DEF RegistrySpec

\* No two threads or tokens use one producer, and every table that knows a thread knows
\* its producer (recycle_or_create_producer, get_or_add_implicit_producer).
THEOREM OwnProducerAlways == RegistrySpec => []OwnProducer
<1>1. RegistryIInv => OwnProducer
  <2> SUFFICES ASSUME RegistryIInv
               PROVE  OwnProducer
    OBVIOUS
  <2>1. DOMAIN holds = Cast
    BY DEF RegistryIInv, RegistryTypes
  <2>2. \A t, u \in Cast : t # u /\ holds[t] = holds[u] => holds[t] = NoProducer
    BY DEF RegistryIInv, UseInv
  <2>3. \A k \in DOMAIN tables : \A i \in DOMAIN tables[k] :
          tables[k][i].key # invalid_thread_id => tables[k][i].value = holds[tables[k][i].key]
    BY DEF RegistryIInv, HashInv, TableOK
  <2> QED BY <2>1, <2>2, <2>3 DEF OwnProducer
<1> QED BY <1>1, RegistryInvariance, PTL

\* Every table has a free slot, so that probing ends.
LEMMA RoomAlways ==
  ASSUME RegistryAssumption, RegistryIInv
  PROVE  HashHasRoom
<1> SUFFICES ASSUME NEW k \in DOMAIN tables
             PROVE  \E i \in DOMAIN tables[k] : tables[k][i] = Empty
  BY DEF HashHasRoom
<1>1. IsTable(tables[k]) /\ TableOK(tables[k], holds) /\ DOMAIN holds = Cast
  BY DEF RegistryIInv, RegistryTypes, HashInv
<1>2. PICK m \in Nat : m = hashCount
  BY DEF RegistryIInv, CountInv
<1>3. PICK s \in [1 .. m -> Cast] : OrderOf(s)
  BY <1>2 DEF RegistryIInv, CountInv
<1>4. ASSUME NEW i \in DOMAIN tables[k], tables[k][i].key # invalid_thread_id
      PROVE  \E j \in 1 .. m : s[j] = tables[k][i].key /\ j < ThreeQuarters(Capacity(tables[k]))
  <2>1. PICK t \in Cast : t = tables[k][i].key /\ holds[t] # NoProducer
    BY <1>1, <1>4 DEF TableOK
  <2>2. t \in RegistryThreads
    BY <1>1, <1>4, <2>1 DEF IsTable, Entry
  <2>3. PICK j \in 1 .. m : s[j] = t
    BY <1>3, <2>1, <2>2 DEF OrderOf, Counted
  <2>4. HasKey(tables[k], t)
    BY <2>1 DEF HasKey
  <2>5. PlaceOK(t, j, rpc[t], local[t], tables)
    <3>1. PlaceOK(s[j], j, rpc[s[j]], local[s[j]], tables)
      BY <1>3 DEF OrderOf
    <3> QED BY <2>3, <3>1
  <2>6. j < ThreeQuarters(Capacity(tables[k]))
    BY <2>4, <2>5 DEF PlaceOK
  <2> QED BY <2>1, <2>3, <2>6
<1> QED BY <1>1, <1>3, <1>4, Room

\* The list has every producer once, or all but those that are being linked.
LEMMA ListAlways ==
  ASSUME RegistryIInv
  PROVE  ListComplete
<1>1. PICK m \in Nat : m = Len(list) /\ DOMAIN list = 1 .. m
  BY DEF RegistryIInv, RegistryTypes
<1>2. PICK n \in Nat : n = Len(prod) /\ DOMAIN prod = 1 .. n /\ producerCount = n
  BY DEF RegistryIInv, RegistryTypes, ListInv
<1>3. \A i \in 1 .. m : list[i] \in 1 .. n
  BY <1>1, <1>2 DEF RegistryIInv, UseInv
<1>4. \A i, j \in 1 .. m : list[i] = list[j] => i = j
  BY <1>1 DEF RegistryIInv, ListInv
<1>5. PICK f : f = [i \in 1 .. m |-> list[i]]
  OBVIOUS
<1>6. f \in [1 .. m -> 1 .. n] /\ \A i \in 1 .. m : f[i] = list[i]
  BY <1>3, <1>5
<1>7. f \in Injection(1 .. m, 1 .. n)
  BY <1>4, <1>6 DEF Injection, IsInjective
<1>8. /\ Cardinality(1 .. m) = m /\ Cardinality(1 .. n) = n
      /\ IsFiniteSet(1 .. m) /\ IsFiniteSet(1 .. n)
  <2>1. ASSUME NEW j \in Nat
        PROVE  Cardinality(1 .. j) = j /\ IsFiniteSet(1 .. j)
    BY FS_Interval
  <2> QED BY <2>1
<1>9. m <= n
  BY <1>7, <1>8, FS_Injection
<1>10. ASSUME \A t \in Cast : rpc[t] \notin Linking
       PROVE  m = n /\ {list[k] : k \in DOMAIN list} = DOMAIN prod
  <2>1. \A p \in 1 .. n : \E i \in 1 .. m : list[i] = p
    BY <1>1, <1>2, <1>10 DEF RegistryIInv, ListInv
  <2>2. f \in Surjection(1 .. m, 1 .. n)
    BY <1>6, <2>1 DEF Surjection
  <2>3. Cardinality(1 .. n) <= Cardinality(1 .. m)
    BY <1>8, <2>2, FS_Surjection
  <2>4. m = n
    BY <1>8, <1>9, <2>3
  <2> QED BY <1>1, <1>2, <1>3, <2>1, <2>4
<1> QED BY <1>1, <1>2, <1>9, <1>10 DEF ListComplete, Cast, Linking

\* Whatever was registered can be found: probing ends, a thread that has a producer
\* finds it again, and every producer is on the list (get_or_add_implicit_producer,
\* add_producer).
THEOREM FindableAlways == RegistrySpec => []Findable
<1>1. RegistryIInv => Findable
  BY RegistryAssumption, RoomAlways, ListAlways DEF Findable, RegistryIInv, HashInv
<1> QED BY <1>1, RegistryInvariance, PTL

-----------------------------------------------------------------------------
(* How consumers choose a producer.                                         *)

\* The list as a ring stays in the list.
LEMMA AfterRange ==
  ASSUME NEW p \in Int, NEW t \in Nat \ {0}, NEW n \in Int
  PROVE  After(p, t, n) \in 1 .. t
<1> DEFINE h == (p - 1 - n) % t
<1>1. h \in 0 .. t - 1
  BY IntModRange
<1> HIDE DEF h
<1>2. h + 1 \in 1 .. t
  BY <1>1
<1>3. After(p, t, n) = h + 1
  BY DEF After, h
<1> QED BY <1>2, <1>3

\* No step of the loop leaves the producer where it is.
LEMMA AfterNone ==
  ASSUME NEW t \in Nat \ {0}, NEW p \in 1 .. t
  PROVE  After(p, t, 0) = p
<1>1. (p - 1 - 0) % t = p - 1
  <2>1. p - 1 - 0 = t * 0 + (p - 1) /\ p - 1 \in 0 .. t - 1 /\ p - 1 - 0 \in Int
    OBVIOUS
  <2> DEFINE a == p - 1 - 0
  <2>2. a = t * 0 + a /\ a \in 0 .. t - 1 /\ a \in Int /\ 0 \in Int
    BY <2>1
  <2>3. a % t = a
    <3> HIDE DEF a
    <3> QED BY <2>2, IntModUnique
  <2> QED BY <2>1, <2>3
<1> QED BY <1>1 DEF After

\* One more step of the loop is one more next_prod(), from the tail again at the end.
LEMMA AfterStep ==
  ASSUME NEW t \in Nat \ {0}, NEW p \in 1 .. t, NEW n \in Nat
  PROVE  After(p, t, n + 1) = Around(After(p, t, n), t)
<1> DEFINE x == (p - 1 - n) \div t
           s == (p - 1 - n) % t
<1>1. p - 1 - n \in Int
  OBVIOUS
<1>2. p - 1 - n = t * x + s /\ x \in Int /\ s \in 0 .. t - 1
  BY <1>1, IntModDef, IntModRange
<1>3. After(p, t, n) = s + 1
  BY DEF After
<1> HIDE DEF x, s
<1>4. CASE s > 0
  <2>1. p - 1 - (n + 1) = t * x + (s - 1) /\ s - 1 \in 0 .. t - 1 /\ p - 1 - (n + 1) \in Int
    BY <1>2, <1>4
  <2>2. (p - 1 - (n + 1)) % t = s - 1
    BY <2>1, <1>2, IntModUnique
  <2>3. After(p, t, n + 1) = s
    BY <2>2, <1>2 DEF After
  <2> QED BY <2>3, <1>2, <1>3, <1>4 DEF Around, NextProd, nullptr
<1>5. CASE s = 0
  <2>1. p - 1 - (n + 1) = t * (x - 1) + (t - 1) /\ t - 1 \in 0 .. t - 1 /\ p - 1 - (n + 1) \in Int /\ x - 1 \in Int
    BY <1>2, <1>5
  <2>2. (p - 1 - (n + 1)) % t = t - 1
    BY <2>1, IntModUnique
  <2>3. After(p, t, n + 1) = t
    BY <2>2 DEF After
  <2> QED BY <2>3, <1>3, <1>5 DEF Around, NextProd, nullptr
<1> QED BY <1>2, <1>4, <1>5

\* Remainders may be taken before a difference as well as after it.
LEMMA ModMinus ==
  ASSUME NEW a \in Int, NEW b \in Int, NEW m \in Nat \ {0}
  PROVE  ((a % m) - b) % m = (a - b) % m
<1> DEFINE x == a \div m
           s == a % m
           y == (s - b) \div m
           r == (s - b) % m
<1>1. a = m * x + s /\ x \in Int /\ s \in 0 .. m - 1
  BY IntModDef, IntModRange
<1>2. s - b = m * y + r /\ y \in Int /\ r \in 0 .. m - 1
  <2>1. s - b \in Int BY <1>1
  <2> QED BY <2>1, IntModDef, IntModRange
<1> SUFFICES (a - b) % m = r OBVIOUS
<1> HIDE DEF x, s, y, r
<1>3. a - b = m * (x + y) + r /\ x + y \in Int /\ a - b \in Int
  <2>1. a - b = m * x + (m * y + r) BY <1>1, <1>2
  <2>2. m * (x + y) = m * x + m * y BY <1>1, <1>2
  <2>3. m * x \in Int /\ m * y \in Int BY <1>1, <1>2
  <2> QED BY <2>1, <2>2, <2>3, <1>1, <1>2
<1> QED BY <1>2, <1>3, IntModUnique

\* Taking a remainder before a subtraction changes nothing afterwards.
LEMMA ModMinusMod ==
  ASSUME NEW a \in Int, NEW b \in Int, NEW m \in Nat \ {0}
  PROVE  (a - (b % m)) % m = (a - b) % m
<1> DEFINE x == b \div m
           s == b % m
           y == (a - s) \div m
           r == (a - s) % m
<1>1. b = m * x + s /\ x \in Int /\ s \in 0 .. m - 1
  BY IntModDef, IntModRange
<1>2. a - s = m * y + r /\ y \in Int /\ r \in 0 .. m - 1
  <2>1. a - s \in Int BY <1>1
  <2> QED BY <2>1, IntModDef, IntModRange
<1> SUFFICES (a - b) % m = r OBVIOUS
<1> HIDE DEF x, s, y, r
<1>3. a - b = m * (y - x) + r /\ y - x \in Int /\ a - b \in Int
  <2>1. a - b = (m * y + r) - m * x BY <1>1, <1>2
  <2>2. m * (y - x) = m * y - m * x BY <1>1, <1>2
  <2>3. m * x \in Int /\ m * y \in Int BY <1>1, <1>2
  <2> QED BY <2>1, <2>2, <2>3, <1>1, <1>2
<1> QED BY <1>2, <1>3, IntModUnique

\* What is subtracted can be added again.
LEMMA ModBack ==
  ASSUME NEW z \in Int, NEW k \in Int, NEW m \in Nat \ {0}
  PROVE  z % m = (((z - k) % m) - (-k)) % m
<1> DEFINE d == z - k
           e == -k
<1>1. d \in Int /\ e \in Int /\ d - e = z
  OBVIOUS
<1> SUFFICES z % m = ((d % m) - e) % m OBVIOUS
<1> HIDE DEF d, e
<1>2. ((d % m) - e) % m = (d - e) % m
  BY <1>1, ModMinus
<1> QED BY <1>1, <1>2
-----------------------------------------------------------------------------
\* The call records.

\* A caller that is in no call is a caller.
LEMMA IdleType == NoCall \in Calls
BY DEF NoCall, Calls, CallPhases, TokenPhases, Kinds, nullptr

\* A call that ended is in order, with whatever token.
LEMMA IdleOK ==
  ASSUME NEW its, NEW t \in Nat
  PROVE  CallOK(NoCall, its, t)
BY DEF CallOK, NoCall, TokenPhases, nullptr

\* A call that got all it wanted is in order.
LEMMA FullOK ==
  ASSUME NEW me, NEW its, NEW t \in Nat
  PROVE  Full(me) \in Calls /\ CallOK(Full(me), its, t) /\ Full(me).at = "idle"
BY IdleType, IdleOK DEF Full, NoCall

\* So is one that ended short, if everyone it listed was found empty.
LEMMA ShortOK ==
  ASSUME NEW me \in Calls, NEW its, NEW t \in Nat, (1 .. me.listed) \subseteq me.exhausted
  PROVE  Short(me) \in Calls /\ CallOK(Short(me), its, t) /\ Short(me).at = "idle"
<1>1. (1 .. me.listed) \ me.exhausted = {}
  OBVIOUS
<1>2. Short(me) = [NoCall EXCEPT !.missed = {}]
  BY <1>1, Zenon DEF Short
<1>3. [NoCall EXCEPT !.missed = {}] = NoCall
  BY DEF NoCall
<1>4. NoCall.at = "idle"
  BY DEF NoCall
<1>5. Short(me) = NoCall
  BY <1>2, <1>3, Zenon
<1>6. NoCall \in Calls /\ CallOK(NoCall, its, t)
  BY IdleType, IdleOK
<1> QED BY <1>4, <1>5, <1>6, Zenon

\* What asking a producer changes of a call.
AskedAs(me, r, p, got) ==
  /\ r \in Calls
  /\ r.at = me.at /\ r.kind = me.kind /\ r.max = me.max /\ r.ptr = me.ptr /\ r.tail = me.tail
  /\ r.count = me.count /\ r.best = me.best /\ r.bestSize = me.bestSize /\ r.nonEmpty = me.nonEmpty
  /\ r.listed = me.listed /\ r.missed = me.missed
  /\ r.tries = me.tries + 1 /\ r.need = me.need - got
  /\ r.exhausted = IF got < me.need THEN me.exhausted \cup {p} ELSE me.exhausted

\* What a call knows once it has asked producer p.
LEMMA AskedFields ==
  ASSUME NEW me \in Calls, NEW p \in Nat, NEW got \in 0 .. me.need
  PROVE  AskedAs(me, Asked(me, p, got), p, got)
<1> DEFINE ex == IF got < me.need THEN me.exhausted \cup {p} ELSE me.exhausted
           n == me.need - got
           k == me.tries + 1
<1>1. me.need \in Nat /\ me.tries \in Nat /\ me.exhausted \in SUBSET Nat
  BY DEF Calls
<1>2. ex \in SUBSET Nat /\ n \in Nat /\ k \in Nat
  BY <1>1
<1>3. Asked(me, p, got) = [[[me EXCEPT !.tries = k] EXCEPT !.need = n] EXCEPT !.exhausted = ex]
  BY Zenon DEF Asked
<1> HIDE DEF ex, n, k
<1>4. PICK r : r = [[[me EXCEPT !.tries = k] EXCEPT !.need = n] EXCEPT !.exhausted = ex]
  OBVIOUS
<1>5. r \in Calls
  BY <1>2, <1>4 DEF Calls
<1>6. /\ r.at = me.at /\ r.kind = me.kind /\ r.max = me.max /\ r.ptr = me.ptr /\ r.tail = me.tail
      /\ r.count = me.count /\ r.best = me.best /\ r.bestSize = me.bestSize /\ r.nonEmpty = me.nonEmpty
      /\ r.listed = me.listed /\ r.missed = me.missed
      /\ r.tries = k /\ r.need = n /\ r.exhausted = ex
  BY <1>4 DEF Calls
<1>7. AskedAs(me, r, p, got)
  BY <1>5, <1>6 DEF AskedAs, ex, n, k
<1> QED BY <1>3, <1>4, <1>7, Zenon
-----------------------------------------------------------------------------
\* The list grows and the offset grows: what holds of a call or a token goes on to hold.
LEMMA CallLater ==
  ASSUME NEW me \in Calls, NEW its \in Tokens, NEW t \in Nat, NEW u \in Nat, t <= u, CallOK(me, its, t)
  PROVE  CallOK(me, its, u)
<1> USE DEF Calls, Tokens
<1>1. me.at = "score" => ScoreOK(me, u)
  BY DEF CallOK, ScoreOK
<1>2. me.at = "walk" => WalkOK(me, u)
  BY DEF CallOK, WalkOK, nullptr
<1>3. me.at = "ring" => RingOK(me, its, u)
  BY DEF CallOK, RingOK
<1> QED BY <1>1, <1>2, <1>3 DEF CallOK

\* A token stays in order as the list and the global offset grow.
LEMMA TokenLater ==
  ASSUME NEW its \in Tokens, NEW at, NEW t \in Nat, NEW u \in Nat, t <= u,
         NEW o \in Nat, NEW n \in Nat, o <= n, TokenOK(its, at, t, o)
  PROVE  TokenOK(its, at, u, n)
<1> USE DEF Tokens
<1>1. its.lastKnown <= o => its.lastKnown <= n
  OBVIOUS
<1>2. its.lastKnown <= o => (its.lastKnown # o => its.lastKnown # n)
  OBVIOUS
<1> QED BY <1>1, <1>2 DEF TokenOK

\* One consumer moves: its call and its token are in order again.
LEMMA OneMoves ==
  ASSUME RotationIInv, NEW c \in Callers, NEW r \in Calls, NEW k \in Tokens,
         call' = [call EXCEPT ![c] = r], token' = [token EXCEPT ![c] = k],
         tail' = tail, linking' \in Nat, nextId' \in Nat, globalOffset' \in Nat,
         globalOffset <= globalOffset',
         CallOK(r, k, tail), TokenOK(k, r.at, tail, globalOffset')
  PROVE  RotationIInv'
<1>1. RotationTypes /\ \A d \in Callers : CallOK(call[d], token[d], tail) /\ TokenOK(token[d], call[d].at, tail, globalOffset)
  BY DEF RotationIInv
<1>2. call \in [Callers -> Calls] /\ token \in [Callers -> Tokens] /\ tail \in Nat /\ globalOffset \in Nat
  BY <1>1 DEF RotationTypes
<1>3. Callers' = Callers
  BY <1>2 DEF Callers
<1>4. call' \in [Callers -> Calls] /\ token' \in [Callers -> Tokens]
  BY <1>2
<1>5. RotationTypes'
  BY <1>2, <1>3, <1>4 DEF RotationTypes
<1>6. ASSUME NEW d \in Callers
      PROVE  CallOK(call'[d], token'[d], tail') /\ TokenOK(token'[d], call'[d].at, tail', globalOffset')
  <2>1. CASE d = c
    BY <1>2, <2>1
  <2>2. CASE d # c
    <3>1. call'[d] = call[d] /\ token'[d] = token[d] /\ token[d] \in Tokens
      BY <1>2, <2>2
    <3>2. TokenOK(token[d], call[d].at, tail, globalOffset')
      BY <1>1, <1>2, <3>1, TokenLater
    <3> QED BY <1>1, <3>1, <3>2
  <2> QED BY <2>1, <2>2
<1> QED BY <1>3, <1>5, <1>6 DEF RotationIInv


\* What is known of a consumer that takes a step.
Known(c) ==
  /\ call \in [Callers -> Calls] /\ token \in [Callers -> Tokens]
  /\ call[c] \in Calls /\ token[c] \in Tokens
  /\ tail \in Nat /\ linking \in Nat /\ globalOffset \in Nat /\ nextId \in Nat
  /\ CallOK(call[c], token[c], tail)
  /\ TokenOK(token[c], call[c].at, tail, globalOffset)

\* What the invariant says of one caller.
LEMMA Knows ==
  ASSUME RotationIInv, NEW c \in Callers
  PROVE  Known(c)
BY DEF RotationIInv, RotationTypes, Known

\* Only its call changes.
LEMMA CallMoves ==
  ASSUME RotationIInv, NEW c \in Callers, NEW r \in Calls, Put(c, r), UNCHANGED <<Shared, token>>,
         CallOK(r, token[c], tail), TokenOK(token[c], r.at, tail, globalOffset)
  PROVE  RotationIInv'
<1>1. Known(c)
  BY Knows
<1>2. /\ tail' = tail /\ linking' = linking /\ globalOffset' = globalOffset /\ nextId' = nextId
      /\ token' = token /\ call' = [call EXCEPT ![c] = r]
  BY DEF Shared, Put
<1>3. token' = [token EXCEPT ![c] = token[c]]
  BY <1>1, <1>2 DEF Known
<1>4. token[c] \in Tokens /\ linking' \in Nat /\ globalOffset' \in Nat /\ nextId' \in Nat /\ globalOffset <= globalOffset'
  BY <1>1, <1>2 DEF Known
<1> QED BY <1>2, <1>3, <1>4, OneMoves

\* Its call and its token change, nothing else.
LEMMA BothMove ==
  ASSUME RotationIInv, NEW c \in Callers, NEW r \in Calls, NEW k \in Tokens,
         Put(c, r), PutToken(c, k), UNCHANGED Shared,
         CallOK(r, k, tail), TokenOK(k, r.at, tail, globalOffset)
  PROVE  RotationIInv'
<1>1. Known(c)
  BY Knows
<1>2. /\ tail' = tail /\ linking' = linking /\ globalOffset' = globalOffset /\ nextId' = nextId
      /\ token' = [token EXCEPT ![c] = k] /\ call' = [call EXCEPT ![c] = r]
  BY DEF Shared, Put, PutToken
<1>3. linking' \in Nat /\ globalOffset' \in Nat /\ nextId' \in Nat /\ globalOffset <= globalOffset'
  BY <1>1, <1>2 DEF Known
<1> QED BY <1>2, <1>3, OneMoves

\* A token minds only whether its consumer uses it or advances the offset.
LEMMA TokenAt ==
  ASSUME NEW its, NEW at, NEW bt, NEW t, NEW o, TokenOK(its, at, t, o),
         at # "advance", bt \notin {"current", "ring"} \/ at \in {"current", "ring"}
  PROVE  TokenOK(its, bt, t, o)
BY DEF TokenOK
-----------------------------------------------------------------------------
\* A producer that is counted and not in the list yet.
LEMMA CountProducerKeeps ==
  ASSUME RotationIInv, CountProducer
  PROVE  RotationIInv'
BY DEF RotationIInv, RotationTypes, CountProducer, Callers

\* The list grows at its head.
LEMMA LinkProducerKeeps ==
  ASSUME RotationIInv, LinkProducer
  PROVE  RotationIInv'
<1>1. RotationTypes /\ \A d \in Callers : Known(d)
  BY Knows DEF RotationIInv
<1>2. /\ tail' = tail + 1 /\ linking > 0 /\ linking' = linking - 1 /\ globalOffset' = globalOffset
      /\ nextId' = nextId /\ call' = call /\ token' = token
  BY DEF LinkProducer
<1>3. RotationTypes' /\ Callers' = Callers
  BY <1>1, <1>2 DEF RotationTypes, Callers
<1>4. ASSUME NEW d \in Callers
      PROVE  CallOK(call[d], token[d], tail + 1) /\ TokenOK(token[d], call[d].at, tail + 1, globalOffset)
  <2>1. tail \in Nat /\ tail + 1 \in Nat /\ tail <= tail + 1 /\ globalOffset \in Nat /\ globalOffset <= globalOffset
    BY <1>1 DEF RotationTypes
  <2>2. Known(d)
    BY <1>1
  <2> QED BY <2>1, <2>2, CallLater, TokenLater DEF Known
<1> QED BY <1>2, <1>3, <1>4 DEF RotationIInv

\* A consumer that makes itself a token.
LEMMA MakeConsumerTokenKeeps ==
  ASSUME RotationIInv, NEW c \in Callers, MakeConsumerToken(c)
  PROVE  RotationIInv'
<1>1. Known(c)
  BY Knows
<1>2. PICK k : k = [NoToken EXCEPT !.id = nextId]
  OBVIOUS
<1>3. /\ token' = [token EXCEPT ![c] = k] /\ call' = call /\ nextId' = nextId + 1
      /\ tail' = tail /\ linking' = linking /\ globalOffset' = globalOffset /\ call[c].at = "idle"
  BY <1>2 DEF MakeConsumerToken, PutToken
<1>4. /\ k.id = nextId /\ k.lastKnown = -1 /\ k.items = 0 /\ k.current = 0 /\ k.desired = 0 /\ k.single = TRUE
      /\ k.length = 0
  BY <1>2 DEF NoToken, nullptr
<1>5. k \in Tokens
  BY <1>1, <1>2 DEF NoToken, nullptr, Tokens, Known
<1>6. call' = [call EXCEPT ![c] = call[c]] /\ call[c] \in Calls
  BY <1>1, <1>3 DEF Known
<1>7. CallOK(call[c], k, tail)
  BY <1>1, <1>3 DEF Known, CallOK, TokenPhases
<1>8. TokenOK(k, call[c].at, tail, globalOffset)
  BY <1>1, <1>3, <1>4, RotationAssumption DEF Known, TokenOK, nullptr
<1>9. linking' \in Nat /\ globalOffset' \in Nat /\ nextId' \in Nat /\ globalOffset <= globalOffset'
  BY <1>1, <1>3 DEF Known
<1> QED BY <1>3, <1>5, <1>6, <1>7, <1>8, <1>9, OneMoves

\* Every call begins in order.
LEMMA BeginKeeps ==
  ASSUME RotationIInv, NEW c \in Callers, NEW kind \in Kinds, NEW max \in Nat \ {0},
         NEW at \in {"score", "walk", "token"}, Begin(c, kind, max, at),
         at = "score" => max = 1,
         at = "token" => token[c].id # -1 /\ (max = 1 => kind = "token")
  PROVE  RotationIInv'
<1>1. Known(c)
  BY Knows
<1> DEFINE p == IF at = "token" THEN nullptr ELSE tail
<1>2. p \in Nat /\ tail \in Nat /\ (at # "token" => p = tail)
  BY <1>1 DEF Known, nullptr
<1> HIDE DEF p
<1>3. PICK r : r = [NoCall EXCEPT !.at = at, !.kind = kind, !.max = max, !.need = max, !.ptr = p, !.listed = tail]
  OBVIOUS
<1>4. PICK s : s = (token[c].single /\ max = 1)
  OBVIOUS
<1>5. PICK k : k = [token[c] EXCEPT !.single = s]
  OBVIOUS
<1>6. Put(c, r) /\ PutToken(c, k) /\ UNCHANGED Shared /\ call[c].at = "idle"
  BY <1>3, <1>4, <1>5 DEF Begin, p
<1>7. r \in Calls
  BY <1>2, <1>3 DEF Calls, NoCall, CallPhases, TokenPhases, nullptr
<1>8. /\ r.at = at /\ r.kind = kind /\ r.max = max /\ r.need = max /\ r.ptr = p /\ r.tail = 0 /\ r.count = 0
      /\ r.best = 0 /\ r.bestSize = 0 /\ r.nonEmpty = 0 /\ r.listed = tail /\ r.exhausted = {} /\ r.tries = 0
      /\ r.missed = {}
  BY <1>3 DEF NoCall, nullptr
<1>9. token[c] \in Tokens /\ s \in BOOLEAN
  BY <1>1, <1>4 DEF Known
<1>10. k \in Tokens
  BY <1>5, <1>9 DEF Tokens
<1>11. /\ k.id = token[c].id /\ k.lastKnown = token[c].lastKnown /\ k.items = token[c].items
       /\ k.current = token[c].current /\ k.desired = token[c].desired /\ k.length = token[c].length
       /\ k.single = s
  BY <1>5, <1>9 DEF Tokens
<1>12. s => token[c].single /\ max = 1
  BY <1>4
<1>13. at = "score" => ScoreOK(r, tail)
  BY <1>2, <1>8 DEF ScoreOK
<1>14. at = "walk" => WalkOK(r, tail)
  BY <1>2, <1>8 DEF WalkOK, nullptr
<1>15. CallOK(r, k, tail)
  BY <1>2, <1>8, <1>11, <1>12, <1>13, <1>14 DEF CallOK, TokenPhases
<1>16. TokenOK(token[c], call[c].at, tail, globalOffset)
  BY <1>1 DEF Known
<1>17. TokenOK(k, r.at, tail, globalOffset)
  BY <1>6, <1>8, <1>11, <1>12, <1>16 DEF TokenOK
<1> QED BY <1>6, <1>7, <1>10, <1>15, <1>17, BothMove


\* try_dequeue without a token: the size of one producer is read.
LEMMA ScoreKeeps ==
  ASSUME RotationIInv, NEW c \in Callers, NEW size \in Nat, Score(c, size)
  PROVE  RotationIInv'
<1> DEFINE me == call[c]
           better == size > me.bestSize
           b == IF better THEN me.ptr ELSE me.best
           z == IF better THEN size ELSE me.bestSize
           n == IF size > 0 THEN me.nonEmpty + 1 ELSE me.nonEmpty
           ex == IF size = 0 THEN me.exhausted \cup {me.ptr} ELSE me.exhausted
           q == me.ptr - 1
<1>1. Known(c)
  BY Knows
<1>2. me \in Calls /\ me.at = "score" /\ me.ptr # 0 /\ CallOK(me, token[c], tail) /\ tail \in Nat
  BY <1>1 DEF Score, Known, nullptr
<1>3. /\ me.ptr \in Nat /\ me.best \in Nat /\ me.bestSize \in Nat /\ me.nonEmpty \in Nat /\ me.listed \in Nat
      /\ me.exhausted \in SUBSET Nat /\ ScoreOK(me, tail) /\ me.listed <= tail
  BY <1>2 DEF Calls, CallOK
<1>4. b \in Nat /\ z \in Nat /\ n \in Nat /\ ex \in SUBSET Nat /\ q \in Nat
  BY <1>2, <1>3
<1>5. q <= me.listed /\ (IF n = 0 THEN z = 0 /\ (q + 1 .. me.listed) \subseteq ex ELSE b \in 1 .. tail)
  <2>1. CASE me.nonEmpty = 0 /\ size = 0
    <3>1. n = 0 /\ z = 0 /\ q <= me.listed
      BY <1>2, <1>3, <2>1 DEF ScoreOK
    <3>2. ASSUME NEW i \in q + 1 .. me.listed
          PROVE  i \in ex
      <4>1. i = me.ptr \/ i \in me.ptr + 1 .. me.listed
        BY <1>3
      <4> QED BY <1>2, <1>3, <2>1, <4>1 DEF ScoreOK
    <3> QED BY <3>1, <3>2
  <2>2. CASE me.nonEmpty # 0 \/ size # 0
    BY <1>2, <1>3, <2>2 DEF ScoreOK
  <2> QED BY <2>1, <2>2
<1>6. Put(c, [me EXCEPT !.ptr = q, !.best = b, !.bestSize = z, !.nonEmpty = n, !.exhausted = ex])
      /\ UNCHANGED <<Shared, token>>
  BY DEF Score, NextProd
<1>7. token[c] \in Tokens /\ TokenOK(token[c], me.at, tail, globalOffset)
  BY <1>1 DEF Known
<1> HIDE DEF me, better, b, z, n, ex, q
<1>8. PICK r : r = [me EXCEPT !.ptr = q, !.best = b, !.bestSize = z, !.nonEmpty = n, !.exhausted = ex]
  OBVIOUS
<1>9. r \in Calls
  BY <1>2, <1>4, <1>8 DEF Calls
<1>10. /\ r.at = me.at /\ r.max = me.max /\ r.need = me.need /\ r.tries = me.tries /\ r.listed = me.listed
       /\ r.missed = me.missed /\ r.ptr = q /\ r.best = b /\ r.bestSize = z /\ r.nonEmpty = n /\ r.exhausted = ex
  BY <1>2, <1>8 DEF Calls
<1>11. ScoreOK(r, tail)
  BY <1>3, <1>5, <1>10 DEF ScoreOK
<1>12. CallOK(r, token[c], tail)
  BY <1>2, <1>10, <1>11 DEF CallOK, TokenPhases
<1>13. TokenOK(token[c], r.at, tail, globalOffset)
  BY <1>7, <1>10
<1> QED BY <1>6, <1>8, <1>9, <1>12, <1>13, CallMoves

\* An idle consumer's token.
LEMMA TokenIdle ==
  ASSUME RotationIInv, NEW c \in Callers, NEW r, r.at \notin {"current", "ring"}, call[c].at # "advance"
  PROVE  TokenOK(token[c], r.at, tail, globalOffset)
BY Knows, TokenAt DEF Known

\* The fullest of those it read is asked first.
LEMMA TryBestKeeps ==
  ASSUME RotationIInv, NEW c \in Callers, NEW got \in 0 .. 1, TryBest(c, got)
  PROVE  RotationIInv'
<1> DEFINE me == call[c]
           its == token[c]
<1>1. Known(c)
  BY Knows
<1>2. /\ me \in Calls /\ me.at = "score" /\ CallOK(me, its, tail) /\ tail \in Nat
      /\ me.nonEmpty = 3 \/ me.ptr = 0
  BY <1>1 DEF TryBest, Known, nullptr
<1>3. me.need \in Nat /\ me.best \in Nat /\ me.listed \in Nat /\ ScoreOK(me, tail) /\ me.listed <= tail /\ me.missed = {}
  BY <1>2 DEF Calls, CallOK
<1>4. UNCHANGED <<Shared, token>>
  BY DEF TryBest
<1>5. CASE me.nonEmpty = 0
  <2>1. Put(c, Short(me))
    BY <1>5 DEF TryBest
  <2>2. (1 .. me.listed) \subseteq me.exhausted
    BY <1>2, <1>3, <1>5 DEF ScoreOK
  <2>3. Short(me) \in Calls /\ CallOK(Short(me), its, tail) /\ Short(me).at = "idle"
    BY <1>2, <2>2, ShortOK
  <2>4. TokenOK(its, Short(me).at, tail, globalOffset)
    BY <1>2, <2>3, TokenIdle
  <2> QED BY <1>4, <2>1, <2>3, <2>4, CallMoves
<1>6. CASE me.nonEmpty # 0 /\ got = 1
  <2> DEFINE r == Full(Asked(me, me.best, 1))
  <2>1. Put(c, r)
    BY <1>6 DEF TryBest
  <2>2. r \in Calls /\ CallOK(r, its, tail) /\ r.at = "idle"
    BY <1>2, FullOK
  <2> HIDE DEF r
  <2>3. TokenOK(its, r.at, tail, globalOffset)
    BY <1>2, <2>2, TokenIdle
  <2> QED BY <1>4, <2>1, <2>2, <2>3, CallMoves
<1>7. CASE me.nonEmpty # 0 /\ got # 1
  <2>1. PICK a : a = Asked(me, me.best, 0)
    OBVIOUS
  <2>2. AskedAs(me, a, me.best, 0)
    BY <1>2, <1>3, <2>1, AskedFields
  <2>3. PICK r : r = [a EXCEPT !.at = "walk", !.ptr = tail, !.nonEmpty = 0, !.bestSize = 0]
    OBVIOUS
  <2>4. Put(c, r)
    BY <1>7, <2>1, <2>3 DEF TryBest
  <2>5. a \in Calls
    BY <2>2 DEF AskedAs
  <2>6. r \in Calls
    BY <1>2, <2>3, <2>5 DEF Calls, CallPhases
  <2>7. /\ r.at = "walk" /\ r.ptr = tail /\ r.need = a.need /\ r.max = a.max /\ r.listed = a.listed /\ r.best = a.best
        /\ r.exhausted = a.exhausted /\ r.tries = a.tries /\ r.missed = a.missed
    BY <2>3, <2>5 DEF Calls
  <2>8. /\ r.need = 1 /\ r.max = 1 /\ r.listed = me.listed /\ r.best = me.best /\ r.best \in r.exhausted /\ r.tries = 1
        /\ r.missed = {} /\ me.best \in 1 .. tail
    BY <1>3, <1>7, <2>2, <2>7 DEF AskedAs, ScoreOK
  <2>9. WalkOK(r, tail)
    BY <1>2, <1>3, <2>7, <2>8 DEF WalkOK, nullptr
  <2>10. CallOK(r, its, tail)
    BY <1>3, <2>7, <2>8, <2>9 DEF CallOK, TokenPhases
  <2>11. TokenOK(its, r.at, tail, globalOffset)
    BY <1>2, <2>7, TokenIdle
  <2> QED BY <1>4, <2>4, <2>6, <2>10, <2>11, CallMoves
<1> QED BY <1>5, <1>6, <1>7

\* Then all of them, from the head of the list.
LEMMA WalkKeeps ==
  ASSUME RotationIInv, NEW c \in Callers, NEW got \in Nat, Walk(c, got)
  PROVE  RotationIInv'
<1> DEFINE me == call[c]
           its == token[c]
           asked == IF me.ptr = me.best THEN me ELSE Asked(me, me.ptr, got)
<1>1. Known(c)
  BY Knows
<1>2. /\ me \in Calls /\ me.at = "walk" /\ CallOK(me, its, tail) /\ tail \in Nat /\ got <= me.need
  BY <1>1 DEF Walk, Known
<1>3. /\ me.need \in Nat /\ me.best \in Nat /\ me.listed \in Nat /\ me.ptr \in Nat /\ me.tries \in Nat
      /\ WalkOK(me, tail) /\ me.listed <= tail /\ me.missed = {} /\ got \in 0 .. me.need
  BY <1>2 DEF Calls, CallOK
<1>4. UNCHANGED <<Shared, token>>
  BY DEF Walk
<1>5. CASE me.ptr = 0
  <2>1. Put(c, Short(me))
    BY <1>5 DEF Walk, nullptr
  <2>2. (1 .. me.listed) \subseteq me.exhausted
    BY <1>2, <1>3, <1>5 DEF WalkOK
  <2>3. Short(me) \in Calls /\ CallOK(Short(me), its, tail) /\ Short(me).at = "idle"
    BY <1>2, <2>2, ShortOK
  <2>4. TokenOK(its, Short(me).at, tail, globalOffset)
    BY <1>2, <2>3, TokenIdle
  <2> QED BY <1>4, <2>1, <2>3, <2>4, CallMoves
<1>6. CASE me.ptr # 0 /\ asked.need = 0
  <2> DEFINE r == Full(asked)
  <2>1. Put(c, r)
    BY <1>6 DEF Walk, nullptr
  <2>2. r \in Calls /\ CallOK(r, its, tail) /\ r.at = "idle"
    BY <1>2, FullOK
  <2> HIDE DEF r
  <2>3. TokenOK(its, r.at, tail, globalOffset)
    BY <1>2, <2>2, TokenIdle
  <2> QED BY <1>4, <2>1, <2>2, <2>3, CallMoves
<1>7. CASE me.ptr # 0 /\ asked.need # 0
  <2>1. PICK a : a = asked
    OBVIOUS
  <2>2. Put(c, [a EXCEPT !.ptr = NextProd(@)])
    BY <1>7, <2>1 DEF Walk, nullptr
  <2>3. /\ a \in Calls /\ a.at = "walk" /\ a.max = me.max /\ a.ptr = me.ptr /\ a.best = me.best /\ a.listed = me.listed
        /\ a.missed = {} /\ a.need > 0 /\ me.exhausted \subseteq a.exhausted /\ me.ptr \in a.exhausted
        /\ a.tries = IF me.ptr = me.best THEN me.tries ELSE me.tries + 1
    <3>1. CASE me.ptr = me.best
      BY <1>2, <1>3, <1>7, <2>1, <3>1 DEF WalkOK, nullptr
    <3>2. CASE me.ptr # me.best
      <4>1. a = Asked(me, me.ptr, got)
        BY <2>1, <3>2
      <4>2. AskedAs(me, a, me.ptr, got)
        BY <1>2, <1>3, <4>1, AskedFields
      <4>3. a.need # 0
        BY <1>7, <2>1
      <4>4. a.need \in Nat /\ a.need = me.need - got /\ got < me.need
        BY <1>3, <4>2, <4>3 DEF AskedAs
      <4> QED BY <1>2, <1>3, <3>2, <4>2, <4>4 DEF AskedAs
    <3> QED BY <3>1, <3>2
  <2> HIDE DEF asked
  <2>4. PICK q : q = me.ptr - 1
    OBVIOUS
  <2>5. q \in Nat /\ q + 1 = me.ptr
    BY <1>3, <1>7, <2>4
  <2>6. PICK r : r = [a EXCEPT !.ptr = q]
    OBVIOUS
  <2>7. Put(c, r)
    <3>1. [a EXCEPT !.ptr = NextProd(@)] = [a EXCEPT !.ptr = q]
      BY <2>3, <2>4 DEF NextProd
    <3> QED BY <2>2, <2>6, <3>1
  <2>8. r \in Calls
    BY <2>3, <2>5, <2>6 DEF Calls
  <2>9. /\ r.at = "walk" /\ r.ptr = q /\ r.need = a.need /\ r.max = a.max /\ r.listed = a.listed /\ r.best = a.best
        /\ r.exhausted = a.exhausted /\ r.tries = a.tries /\ r.missed = a.missed
    BY <2>3, <2>6 DEF Calls
  <2>10. (q + 1 .. me.listed) \subseteq a.exhausted
    <3>1. ASSUME NEW i \in q + 1 .. me.listed
          PROVE  i \in a.exhausted
      <4>1. i = me.ptr \/ i \in me.ptr + 1 .. me.listed
        BY <1>3, <2>5
      <4> QED BY <1>3, <2>3, <4>1 DEF WalkOK
    <3> QED BY <3>1
  <2>11. WalkOK(r, tail)
    <3>1. r.need > 0 /\ r.ptr <= tail /\ (r.ptr + 1 .. r.listed) \subseteq r.exhausted
      BY <1>2, <1>3, <2>3, <2>5, <2>9, <2>10 DEF WalkOK
    <3>2. CASE me.best = 0
      BY <1>2, <1>3, <1>7, <2>3, <2>5, <2>9, <3>1, <3>2 DEF WalkOK, nullptr
    <3>3. CASE me.best # 0
      <4>1. r.best <= tail /\ r.best \in r.exhausted
        BY <1>3, <2>3, <2>9, <3>3 DEF WalkOK, nullptr
      <4>2. r.tries <= (tail - r.ptr) + (IF r.ptr < r.best THEN 0 ELSE 1)
        BY <1>2, <1>3, <1>7, <2>3, <2>5, <2>9, <3>3 DEF WalkOK, nullptr
      <4> QED BY <2>3, <2>9, <3>1, <3>3, <4>1, <4>2 DEF WalkOK, nullptr
    <3> QED BY <3>2, <3>3
  <2>12. CallOK(r, its, tail)
    BY <1>2, <1>3, <2>3, <2>9, <2>11 DEF CallOK, TokenPhases
  <2>13. TokenOK(its, r.at, tail, globalOffset)
    BY <1>2, <2>9, TokenIdle
  <2> QED BY <1>4, <2>7, <2>8, <2>12, <2>13, CallMoves
<1> QED BY <1>5, <1>6, <1>7

-----------------------------------------------------------------------------
\* With a token: has the global offset moved?
LEMMA CheckOffsetKeeps ==
  ASSUME RotationIInv, NEW c \in Callers, CheckOffset(c)
  PROVE  RotationIInv'
<1> DEFINE me == call[c]
           its == token[c]
<1>1. PICK at : at = IF its.desired = nullptr \/ its.lastKnown # globalOffset THEN "update" ELSE "current"
  OBVIOUS
<1>2. Known(c)
  BY Knows
<1>3. me \in Calls /\ me.at = "token" /\ CallOK(me, its, tail) /\ its \in Tokens /\ TokenOK(its, "token", tail, globalOffset)
  BY <1>2 DEF CheckOffset, Known
<1>4. PICK r : r = [me EXCEPT !.at = at]
  OBVIOUS
<1>5. Put(c, r) /\ UNCHANGED <<Shared, token>>
  BY <1>1, <1>4 DEF CheckOffset
<1> HIDE DEF me, its
<1>6. at \in {"update", "current"} /\ (at = "current" => its.desired # 0 /\ its.lastKnown = globalOffset)
  BY <1>1 DEF nullptr
<1>7. r \in Calls
  BY <1>3, <1>4, <1>6 DEF Calls, CallPhases, TokenPhases
<1>8. /\ r.at = at /\ r.kind = me.kind /\ r.max = me.max /\ r.need = me.need /\ r.listed = me.listed
      /\ r.missed = me.missed /\ r.tries = me.tries
  BY <1>3, <1>4 DEF Calls
<1>9. CallOK(r, its, tail)
  BY <1>3, <1>6, <1>8 DEF CallOK, TokenPhases, nullptr
<1>10. TokenOK(its, r.at, tail, globalOffset)
  BY <1>3, <1>6, <1>8, RotationAssumption DEF TokenOK, Tokens
<1> QED BY <1>5, <1>7, <1>9, <1>10, CallMoves DEF its

\* Rotating: the head of the list.
LEMMA LoadProducerTailKeeps ==
  ASSUME RotationIInv, NEW c \in Callers, LoadProducerTail(c)
  PROVE  RotationIInv'
<1> DEFINE me == call[c]
           its == token[c]
<1>1. Known(c)
  BY Knows
<1>2. /\ me \in Calls /\ me.at = "update" /\ CallOK(me, its, tail) /\ its \in Tokens /\ tail \in Nat
      /\ TokenOK(its, me.at, tail, globalOffset)
  BY <1>1 DEF LoadProducerTail, Known
<1>3. UNCHANGED <<Shared, token>>
  BY DEF LoadProducerTail
<1>4. CASE its.desired = 0 /\ tail = 0
  <2>1. Put(c, Short(me))
    BY <1>4 DEF LoadProducerTail, nullptr
  <2>2. (1 .. me.listed) \subseteq me.exhausted
    BY <1>2, <1>4 DEF CallOK, Calls
  <2>3. Short(me) \in Calls /\ CallOK(Short(me), its, tail) /\ Short(me).at = "idle"
    BY <1>2, <2>2, ShortOK
  <2>4. TokenOK(its, Short(me).at, tail, globalOffset)
    BY <1>2, <2>3, TokenIdle
  <2> QED BY <1>3, <2>1, <2>3, <2>4, CallMoves
<1>5. CASE its.desired # 0 \/ tail # 0
  <2>1. PICK r : r = [me EXCEPT !.at = "count", !.tail = tail]
    OBVIOUS
  <2>2. Put(c, r)
    BY <1>5, <2>1 DEF LoadProducerTail, nullptr
  <2> HIDE DEF me, its
  <2>3. r \in Calls
    BY <1>2, <2>1 DEF Calls, CallPhases, TokenPhases
  <2>4. /\ r.at = "count" /\ r.tail = tail /\ r.kind = me.kind /\ r.max = me.max /\ r.need = me.need /\ r.listed = me.listed
        /\ r.missed = me.missed /\ r.tries = me.tries
    BY <1>2, <2>1 DEF Calls
  <2>5. its.desired <= tail /\ tail \in 1 .. tail
    BY <1>2, <1>5 DEF TokenOK, Tokens, nullptr
  <2>6. CallOK(r, its, tail)
    BY <1>2, <2>4, <2>5 DEF CallOK, TokenPhases
  <2>7. TokenOK(its, r.at, tail, globalOffset)
    BY <1>2, <2>4, TokenIdle DEF me, its
  <2> QED BY <1>3, <2>2, <2>3, <2>6, <2>7, CallMoves DEF its
<1> QED BY <1>4, <1>5

\* Rotating: the number of producers.
LEMMA LoadProducerCountKeeps ==
  ASSUME RotationIInv, NEW c \in Callers, LoadProducerCount(c)
  PROVE  RotationIInv'
<1> DEFINE me == call[c]
           its == token[c]
<1>1. Known(c)
  BY Knows
<1>2. /\ me \in Calls /\ me.at = "count" /\ CallOK(me, its, tail) /\ its \in Tokens /\ tail \in Nat /\ linking \in Nat
      /\ TokenOK(its, me.at, tail, globalOffset)
  BY <1>1 DEF LoadProducerCount, Known
<1>n. PICK n \in Nat : n = tail + linking
  BY <1>2
<1>3. PICK r : r = [me EXCEPT !.at = "rotate", !.count = n]
  OBVIOUS
<1>4. Put(c, r) /\ UNCHANGED <<Shared, token>>
  BY <1>n, <1>3 DEF LoadProducerCount, ProducersCounted
<1> HIDE DEF me, its
<1>5. r \in Calls
  BY <1>2, <1>3 DEF Calls, CallPhases, TokenPhases
<1>6. /\ r.at = "rotate" /\ r.tail = me.tail /\ r.kind = me.kind /\ r.max = me.max /\ r.need = me.need /\ r.listed = me.listed
      /\ r.missed = me.missed /\ r.tries = me.tries /\ r.count = n
  BY <1>2, <1>3 DEF Calls
<1>7. me.tail \in 1 .. tail /\ n >= me.tail
  BY <1>2, <1>n DEF CallOK
<1>8. CallOK(r, its, tail)
  BY <1>2, <1>6, <1>7 DEF CallOK, TokenPhases
<1>9. TokenOK(its, r.at, tail, globalOffset)
  BY <1>2, <1>6, TokenIdle DEF me, its
<1> QED BY <1>4, <1>5, <1>8, <1>9, CallMoves DEF its

\* The place a token is given is a producer of the list.
LEMMA PlaceRange ==
  ASSUME NEW me \in Calls, NEW its \in Tokens, globalOffset \in Nat, me.tail # 0, me.count >= me.tail
  PROVE  Place(me, its) \in 1 .. me.tail
<1>1. /\ me.tail \in Nat \ {0} /\ me.count \in Nat \ {0} /\ its.desired \in Nat /\ globalOffset - its.lastKnown \in Int
      /\ its.id \in Int
  BY DEF Calls, Tokens
<1>2. PICK d : d = (globalOffset - its.lastKnown) % me.count
  OBVIOUS
<1>3. PICK j : j = its.id % me.count
  OBVIOUS
<1>4. d \in Int /\ j \in Int
  BY <1>1, <1>2, <1>3, IntModRange
<1>5. PICK n : n = me.count - 1 - j
  OBVIOUS
<1>6. n \in Int
  BY <1>1, <1>4, <1>5
<1>7. PICK f : f = IF its.desired # 0 THEN its.desired ELSE After(me.tail, me.tail, n)
  OBVIOUS
<1>8. f \in Int
  <2>1. PICK t : t = me.tail
    OBVIOUS
  <2>2. t \in Nat \ {0} /\ t \in Int
    BY <1>1, <2>1
  <2>3. After(t, t, n) \in 1 .. t
    BY <1>6, <2>2, AfterRange
  <2>4. f = IF its.desired # 0 THEN its.desired ELSE After(t, t, n)
    BY <1>7, <2>1
  <2> QED BY <1>1, <2>3, <2>4
<1>9. Place(me, its) = After(f, me.tail, d)
  BY <1>2, <1>3, <1>5, <1>7, Zenon DEF Place, nullptr
<1> QED BY <1>1, <1>4, <1>8, <1>9, AfterRange

\* A first place: the id, and an offset unknown so far.
LEMMA FirstPlace ==
  ASSUME NEW id \in Nat, NEW o \in Nat, NEW l \in Nat \ {0}
  PROVE  After(After(l, l, l - 1 - (id % l)), l, (o - (-1)) % l) = ((id - o - 1) % l) + 1
<1>1. PICK j : j = id % l
  OBVIOUS
<1>2. PICK d : d = (o - (-1)) % l
  OBVIOUS
<1>3. j \in 0 .. l - 1 /\ d \in Int /\ o - (-1) \in Int /\ o - (-1) = o + 1
  BY <1>1, <1>2, IntModRange
<1>4. After(l, l, l - 1 - j) = j + 1
  <2>1. l - 1 - (l - 1 - j) = j
    BY <1>3
  <2>2. j % l = j
    <3>1. j = l * 0 + j /\ j \in Int /\ 0 \in Int BY <1>3
    <3> QED BY <1>3, <3>1, IntModUnique
  <2> QED BY <2>1, <2>2 DEF After
<1>5. After(j + 1, l, d) = ((j - d) % l) + 1
  <2>1. j + 1 - 1 - d = j - d
    BY <1>3
  <2>2. After(j + 1, l, d) = (((j + 1) - 1 - d) % l) + 1
    BY Zenon DEF After
  <2> QED BY <1>3, <2>1, <2>2
<1>6. (j - d) % l = (id - d) % l
  <2>1. id \in Int OBVIOUS
  <2>2. ((id % l) - d) % l = (id - d) % l
    BY <1>3, <2>1, ModMinus
  <2> QED BY <1>1, <2>2
<1>7. (id - d) % l = (id - (o + 1)) % l
  <2>1. id \in Int /\ o + 1 \in Int OBVIOUS
  <2>2. (id - ((o + 1) % l)) % l = (id - (o + 1)) % l
    BY <2>1, ModMinusMod
  <2> QED BY <1>2, <1>3, <2>2
<1>8. id - (o + 1) = id - o - 1
  OBVIOUS
<1> QED BY <1>1, <1>2, <1>4, <1>5, <1>6, <1>7, <1>8, Zenon

\* A place moves by as many as the offset has.
LEMMA NextPlace ==
  ASSUME NEW id \in Nat, NEW o \in Nat, NEW k \in Nat, NEW l \in Nat \ {0}
  PROVE  After(((id - k - 1) % l) + 1, l, (o - k) % l) = ((id - o - 1) % l) + 1
<1>1. PICK j : j = (id - k - 1) % l
  OBVIOUS
<1>2. PICK d : d = (o - k) % l
  OBVIOUS
<1>3. id - k - 1 \in Int /\ o - k \in Int
  OBVIOUS
<1>4. j \in Int /\ d \in Int
  BY <1>1, <1>2, <1>3, IntModRange
<1>5. After(j + 1, l, d) = ((j - d) % l) + 1
  <2>1. j + 1 - 1 - d = j - d
    BY <1>4
  <2>2. After(j + 1, l, d) = (((j + 1) - 1 - d) % l) + 1
    BY Zenon DEF After
  <2> QED BY <1>4, <2>1, <2>2
<1>6. (j - d) % l = ((id - k - 1) - d) % l
  BY <1>1, <1>3, <1>4, ModMinus
<1>7. ((id - k - 1) - d) % l = ((id - k - 1) - (o - k)) % l
  BY <1>2, <1>3, ModMinusMod
<1>8. (id - k - 1) - (o - k) = id - o - 1
  OBVIOUS
<1> QED BY <1>1, <1>2, <1>5, <1>6, <1>7, <1>8, Zenon


\* Rotating: the offset brings the token to a producer.
LEMMA RotateKeeps ==
  ASSUME RotationIInv, NEW c \in Callers, Rotate(c)
  PROVE  RotationIInv'
<1> DEFINE me == call[c]
           its == token[c]
<1>1. Known(c)
  BY Knows
<1>2. /\ me \in Calls /\ me.at = "rotate" /\ CallOK(me, its, tail) /\ its \in Tokens /\ tail \in Nat /\ globalOffset \in Nat
      /\ TokenOK(its, me.at, tail, globalOffset)
  BY <1>1 DEF Rotate, Known
<1>3. PICK p : p = Place(me, its)
  OBVIOUS
<1>4. PICK l : l = IF me.count = me.tail /\ its.length \in {0, me.count} THEN me.count ELSE -1
  OBVIOUS
<1>5. PICK r : r = [me EXCEPT !.at = "current", !.tail = nullptr, !.count = 0]
  OBVIOUS
<1>6. PICK k : k = [its EXCEPT !.desired = p, !.current = p, !.lastKnown = globalOffset, !.items = 0, !.length = l]
  OBVIOUS
<1>7. Put(c, r) /\ PutToken(c, k) /\ UNCHANGED Shared
  BY <1>3, <1>4, <1>5, <1>6 DEF Rotate
<1> HIDE DEF me, its
<1>8. /\ me.tail \in 1 .. tail /\ its.desired <= me.tail /\ me.count >= me.tail /\ its.id # -1 /\ me.tail \in Nat \ {0}
      /\ me.count \in Nat /\ its.id \in Nat /\ its.desired \in Nat
  BY <1>2 DEF CallOK, TokenPhases, Calls, Tokens
<1>9. p \in 1 .. me.tail
  BY <1>2, <1>3, <1>8, PlaceRange
<1>10. p \in Nat /\ p # 0 /\ p <= tail
  BY <1>2, <1>8, <1>9
<1>11. l \in Nat \cup {-1} /\ l # 0 /\ l <= tail
  BY <1>2, <1>4, <1>8
<1>12. l > 0 => p = ((its.id - globalOffset - 1) % l) + 1
  <2> SUFFICES ASSUME l > 0
               PROVE  p = ((its.id - globalOffset - 1) % l) + 1
    OBVIOUS
  <2>1. l = me.count /\ l = me.tail /\ its.length \in {0, l} /\ l \in Nat \ {0}
    BY <1>4, <1>8
  <2>2. CASE its.desired = 0
    <3>1. its.lastKnown = -1
      BY <1>2, <2>2 DEF TokenOK, nullptr
    <3>2. p = After(After(l, l, l - 1 - (its.id % l)), l, (globalOffset - (-1)) % l)
      BY <1>3, <2>1, <2>2, <3>1, Zenon DEF Place, nullptr
    <3> QED BY <1>2, <1>8, <2>1, <3>2, FirstPlace
  <2>3. CASE its.desired # 0
    <3>1. its.length = l /\ its.lastKnown \in Nat
      BY <1>2, <2>1, <2>3 DEF TokenOK, Tokens, nullptr
    <3>2. its.desired = ((its.id - its.lastKnown - 1) % l) + 1
      BY <1>2, <2>1, <3>1 DEF TokenOK
    <3>3. p = After(its.desired, l, (globalOffset - its.lastKnown) % l)
      BY <1>3, <2>1, <2>3, Zenon DEF Place, nullptr
    <3>4. PICK i : i = its.id
      OBVIOUS
    <3>5. PICK n : n = its.lastKnown
      OBVIOUS
    <3>6. i \in Nat /\ n \in Nat
      BY <1>8, <3>1, <3>4, <3>5
    <3>7. p = After(((i - n - 1) % l) + 1, l, (globalOffset - n) % l)
      BY <3>2, <3>3, <3>4, <3>5, Zenon
    <3> QED BY <1>2, <2>1, <3>4, <3>6, <3>7, NextPlace
  <2> QED BY <2>2, <2>3
<1>13. r \in Calls
  BY <1>2, <1>5 DEF Calls, CallPhases, TokenPhases, nullptr
<1>14. k \in Tokens
  BY <1>2, <1>6, <1>10, <1>11 DEF Tokens
<1>15. /\ r.at = "current" /\ r.kind = me.kind /\ r.max = me.max /\ r.need = me.need /\ r.listed = me.listed
       /\ r.missed = me.missed /\ r.tries = me.tries
  BY <1>2, <1>5 DEF Calls
<1>16. /\ k.id = its.id /\ k.lastKnown = globalOffset /\ k.items = 0 /\ k.current = p /\ k.desired = p
       /\ k.length = l /\ k.single = its.single
  BY <1>2, <1>6 DEF Tokens
<1>17. CallOK(r, k, tail)
  BY <1>2, <1>10, <1>15, <1>16 DEF CallOK, TokenPhases, nullptr
<1>18. TokenOK(k, r.at, tail, globalOffset)
  <2>1. k.length > 0 => k.desired = ((k.id - k.lastKnown - 1) % k.length) + 1
    BY <1>12, <1>16, Zenon
  <2>2. PICK e : e = ((k.id - k.lastKnown - 1) % k.length) + 1
    OBVIOUS
  <2>3. k.length > 0 => k.desired = e
    BY <2>1, <2>2
  <2>4. k.current \in 1 .. tail
    BY <1>2, <1>8, <1>9, <1>16
  <2>5. k.items < QUOTA /\ k.items <= QUOTA /\ k.items # QUOTA
    BY <1>16, RotationAssumption
  <2>6. k.lastKnown <= globalOffset /\ k.lastKnown >= 0 /\ k.desired # 0 /\ k.desired <= tail /\ k.length # 0 /\ k.length <= tail /\ k.id # -1
    BY <1>2, <1>8, <1>10, <1>11, <1>16
  <2> QED BY <2>1, <2>4, <2>5, <2>6, Zenon DEF TokenOK, nullptr
<1> QED BY <1>7, <1>13, <1>14, <1>17, <1>18, BothMove
-----------------------------------------------------------------------------
\* A round begins with one producer passed, the token's own.
LEMMA RoundBegins ==
  ASSUME NEW t \in Nat, NEW p \in 1 .. t
  PROVE  /\ Around(p, t) \in 1 .. t
         /\ Passed(p, Around(p, t), t) = {p}
         /\ Gone(p, Around(p, t), t) = 1
<1>1. CASE p = 1
  <2>1. Around(p, t) = t
    BY <1>1 DEF Around, NextProd, nullptr
  <2>2. Passed(p, t, t) = {p} /\ Gone(p, t, t) = 1
    BY <1>1 DEF Passed, Gone
  <2> QED BY <2>1, <2>2
<1>2. CASE p # 1
  <2>1. Around(p, t) = p - 1
    BY <1>2 DEF Around, NextProd, nullptr
  <2>2. Passed(p, p - 1, t) = {p} /\ Gone(p, p - 1, t) = 1
    BY <1>2 DEF Passed, Gone
  <2> QED BY <1>2, <2>1, <2>2
<1> QED BY <1>1, <1>2

\* A producer that is not the token's own makes it one more.
LEMMA RoundGoesOn ==
  ASSUME NEW t \in Nat, NEW p \in 1 .. t, NEW q \in 1 .. t, p # q
  PROVE  /\ Around(q, t) \in 1 .. t
         /\ Passed(p, Around(q, t), t) \subseteq Passed(p, q, t) \cup {q}
         /\ Gone(p, Around(q, t), t) = Gone(p, q, t) + 1
         /\ Gone(p, q, t) \in 1 .. t - 1
<1>1. CASE q = 1
  <2>1. Around(q, t) = t
    BY <1>1 DEF Around, NextProd, nullptr
  <2>2. Passed(p, t, t) \subseteq Passed(p, q, t) \cup {q} /\ Gone(p, t, t) = Gone(p, q, t) + 1
    BY <1>1 DEF Passed, Gone
  <2> QED BY <1>1, <2>1, <2>2 DEF Gone
<1>2. CASE q # 1
  <2>1. Around(q, t) = q - 1
    BY <1>2 DEF Around, NextProd, nullptr
  <2>2. Passed(p, q - 1, t) \subseteq Passed(p, q, t) \cup {q}
    BY <1>2 DEF Passed
  <2>3. Gone(p, q - 1, t) = Gone(p, q, t) + 1
    BY <1>2 DEF Gone
  <2> QED BY <1>2, <2>1, <2>2, <2>3 DEF Gone
<1> QED BY <1>1, <1>2

\* A whole round has passed everyone.
LEMMA RoundDone ==
  ASSUME NEW t \in Nat, NEW p \in 1 .. t
  PROVE  (1 .. t) \subseteq Passed(p, p, t)
<1>1. Passed(p, p, t) = (1 .. p) \cup (p + 1 .. t)
  BY DEF Passed
<1>2. ASSUME NEW i \in 1 .. t
      PROVE  i \in 1 .. p \/ i \in p + 1 .. t
  OBVIOUS
<1> QED BY <1>1, <1>2

\* One element more is one round more.
LEMMA RoundMore ==
  ASSUME NEW max \in Nat, NEW need \in Nat, NEW less \in Nat, less < need, need <= max, NEW t \in Nat
  PROVE  (max - need) * t + t <= (max - less) * t
<1>1. PICK a \in Nat : a = max - need
  OBVIOUS
<1>2. PICK b \in Nat : b = (max - less) - (a + 1)
  BY <1>1
<1>3. max - less = a + 1 + b
  BY <1>1, <1>2
<1>4. (a + 1 + b) * t = a * t + t + b * t
  OBVIOUS
<1>5. b * t >= 0 /\ b * t \in Int /\ a * t \in Int
  OBVIOUS
<1> QED BY <1>1, <1>3, <1>4, <1>5


\* The producer of the token is asked.
LEMMA TryCurrentKeeps ==
  ASSUME RotationIInv, NEW c \in Callers, NEW got \in Nat, TryCurrent(c, got)
  PROVE  RotationIInv'
<1> DEFINE me == call[c]
           its == token[c]
<1>1. Known(c)
  BY Knows
<1>2. /\ me \in Calls /\ me.at = "current" /\ CallOK(me, its, tail) /\ its \in Tokens /\ tail \in Nat /\ got <= me.need
      /\ TokenOK(its, me.at, tail, globalOffset) /\ UNCHANGED Shared
  BY <1>1 DEF TryCurrent, Known
<1>3. PICK a : a = Asked(me, its.current, got)
  OBVIOUS
<1>4. PICK n : n = Capped(its.items + got)
  OBVIOUS
<1>5. PICK k : k = [its EXCEPT !.items = n]
  OBVIOUS
<1>6. PICK q : q = Around(its.current, tail)
  OBVIOUS
<1>7. /\ PutToken(c, k)
      /\ Put(c, IF a.need > 0 THEN [a EXCEPT !.at = "ring", !.tail = tail, !.ptr = q]
                ELSE IF QuotaMet(me, its) THEN [a EXCEPT !.at = "advance"] ELSE Full(a))
  BY <1>3, <1>4, <1>5, <1>6 DEF TryCurrent
<1> HIDE DEF me, its
<1>8. /\ its.items \in Nat /\ me.need \in Nat /\ me.max \in Nat /\ me.need = me.max /\ me.max > 0 /\ me.tries = 0
      /\ me.listed <= tail /\ me.missed = {} /\ its.current \in 1 .. tail /\ its.current \in Nat /\ got \in 0 .. me.need
      /\ its.desired # 0 /\ its.id # -1
      /\ me.max = 1 => me.kind = "token"
      /\ its.single => me.max = 1 /\ its.items < QUOTA
  BY <1>2 DEF CallOK, TokenOK, Calls, Tokens, TokenPhases, nullptr
<1>9. AskedAs(me, a, its.current, got)
  BY <1>2, <1>3, <1>8, AskedFields
<1>10. n \in Nat /\ (its.items + got <= QUOTA => n = its.items + got)
  BY <1>4, <1>8, RotationAssumption DEF Capped
<1>11. k \in Tokens
  BY <1>2, <1>5, <1>10 DEF Tokens
<1>12. /\ k.id = its.id /\ k.lastKnown = its.lastKnown /\ k.items = n /\ k.current = its.current /\ k.desired = its.desired
       /\ k.length = its.length /\ k.single = its.single
  BY <1>2, <1>5 DEF Tokens
<1>13. /\ a \in Calls /\ a.at = "current" /\ a.kind = me.kind /\ a.max = me.max /\ a.listed = me.listed /\ a.missed = {}
       /\ a.tries = 1 /\ a.need = me.max - got /\ a.need \in Nat
       /\ got < me.max => its.current \in a.exhausted
  BY <1>2, <1>8, <1>9 DEF AskedAs, Calls
<1>14. ASSUME NEW at, its.single => k.items <= QUOTA /\ (k.items = QUOTA => at = "advance")
                                    /\ (at \in {"current", "ring"} => k.items < QUOTA)
       PROVE  TokenOK(k, at, tail, globalOffset)
  BY <1>2, <1>8, <1>12, <1>14 DEF TokenOK, nullptr
<1>15. CASE a.need > 0
  <2>1. PICK r : r = [a EXCEPT !.at = "ring", !.tail = tail, !.ptr = q]
    OBVIOUS
  <2>2. Put(c, r)
    BY <1>7, <1>15, <2>1
  <2>3. q \in 1 .. tail /\ Passed(its.current, q, tail) = {its.current} /\ Gone(its.current, q, tail) = 1
    BY <1>2, <1>6, <1>8, RoundBegins
  <2>4. r \in Calls
    <3>1. q \in Nat
      BY <2>3
    <3> QED BY <1>2, <1>13, <2>1, <3>1 DEF Calls, CallPhases, TokenPhases
  <2>5. /\ r.at = "ring" /\ r.kind = a.kind /\ r.max = a.max /\ r.need = a.need /\ r.listed = a.listed /\ r.tail = tail
        /\ r.ptr = q /\ r.exhausted = a.exhausted /\ r.missed = a.missed /\ r.tries = a.tries
    BY <1>13, <2>1 DEF Calls
  <2>6. RingOK(r, k, tail)
    <3>1. (r.max - r.need) * r.tail >= 0 /\ (r.max - r.need) * r.tail \in Int
      <4>1. PICK g \in Nat : g = r.max - r.need
        BY <1>8, <1>13, <2>5
      <4>2. g * tail >= 0 /\ g * tail \in Int
        BY <1>2
      <4> QED BY <2>5, <4>1, <4>2
    <3>2. r.need \in 1 .. r.max /\ r.tail <= tail /\ r.listed <= r.tail /\ k.current \in 1 .. r.tail /\ r.ptr \in 1 .. r.tail
      BY <1>2, <1>8, <1>12, <1>13, <1>15, <2>3, <2>5
    <3>3. Passed(k.current, r.ptr, r.tail) \subseteq r.exhausted
      BY <1>8, <1>12, <1>13, <1>15, <2>3, <2>5
    <3>4. r.tries <= (r.max - r.need) * r.tail + Gone(k.current, r.ptr, r.tail)
      BY <1>12, <1>13, <2>3, <2>5, <3>1
    <3> QED BY <3>2, <3>3, <3>4 DEF RingOK
  <2>7. CallOK(r, k, tail)
    BY <1>8, <1>12, <1>13, <2>5, <2>6 DEF CallOK, nullptr
  <2>8. its.single => k.items < QUOTA /\ k.items <= QUOTA /\ k.items # QUOTA
    BY <1>8, <1>10, <1>12, <1>13, <1>15, RotationAssumption
  <2>9. TokenOK(k, r.at, tail, globalOffset)
    BY <1>14, <2>8
  <2> QED BY <1>2, <1>7, <1>11, <2>2, <2>4, <2>7, <2>9, BothMove
<1>16. CASE a.need = 0 /\ QuotaMet(me, its)
  <2>1. PICK r : r = [a EXCEPT !.at = "advance"]
    OBVIOUS
  <2>2. Put(c, r)
    BY <1>7, <1>16, <2>1
  <2>3. r \in Calls
    BY <1>13, <2>1 DEF Calls, CallPhases, TokenPhases
  <2>4. /\ r.at = "advance" /\ r.kind = a.kind /\ r.max = a.max /\ r.need = a.need /\ r.listed = a.listed
        /\ r.missed = a.missed /\ r.tries = a.tries
    BY <1>13, <2>1 DEF Calls
  <2>5. CallOK(r, k, tail)
    BY <1>8, <1>12, <1>13, <2>4 DEF CallOK, nullptr
  <2>6. its.single => k.items <= QUOTA
    BY <1>8, <1>10, <1>12, <1>13, <1>16, RotationAssumption
  <2>7. TokenOK(k, r.at, tail, globalOffset)
    BY <1>14, <2>4, <2>6
  <2> QED BY <1>2, <1>7, <1>11, <2>2, <2>3, <2>5, <2>7, BothMove
<1>17. CASE a.need = 0 /\ ~QuotaMet(me, its)
  <2>1. PICK r : r = Full(a)
    OBVIOUS
  <2>2. Put(c, r)
    BY <1>7, <1>17, <2>1
  <2>3. r \in Calls /\ CallOK(r, k, tail) /\ r.at = "idle"
    BY <1>2, <2>1, FullOK
  <2>4. its.single => k.items < QUOTA /\ k.items <= QUOTA /\ k.items # QUOTA
    BY <1>8, <1>10, <1>12, <1>13, <1>17, RotationAssumption DEF QuotaMet
  <2>5. TokenOK(k, r.at, tail, globalOffset)
    BY <1>14, <2>4
  <2> QED BY <1>2, <1>7, <1>11, <2>2, <2>3, <2>5, BothMove
<1> QED BY <1>13, <1>15, <1>16, <1>17

\* The quota is used up: everyone is told to move on.
LEMMA AdvanceOffsetKeeps ==
  ASSUME RotationIInv, NEW c \in Callers, AdvanceOffset(c)
  PROVE  RotationIInv'
<1> DEFINE its == token[c]
<1>1. Known(c)
  BY Knows
<1>2. PICK r : r = Full(call[c])
  OBVIOUS
<1>3. /\ call' = [call EXCEPT ![c] = r] /\ token' = token /\ globalOffset' = globalOffset + 1
      /\ tail' = tail /\ linking' = linking /\ nextId' = nextId
  BY <1>2 DEF AdvanceOffset, Put
<1>4. token' = [token EXCEPT ![c] = its] /\ its \in Tokens /\ tail \in Nat /\ globalOffset \in Nat
  BY <1>1, <1>3 DEF Known
<1>5. r \in Calls /\ CallOK(r, its, tail) /\ r.at = "idle"
  BY <1>2, <1>4, FullOK
<1>6. TokenOK(its, call[c].at, tail, globalOffset)
  BY <1>1 DEF Known
<1> HIDE DEF its
<1>7. TokenOK(its, r.at, tail, globalOffset + 1)
  <2>1. its.lastKnown <= globalOffset => its.lastKnown <= globalOffset + 1 /\ its.lastKnown # globalOffset + 1
    BY <1>4 DEF Tokens
  <2> QED BY <1>5, <1>6, <2>1 DEF TokenOK
<1>8. linking' \in Nat /\ globalOffset' \in Nat /\ nextId' \in Nat /\ globalOffset <= globalOffset'
  BY <1>1, <1>3 DEF Known
<1> QED BY <1>3, <1>4, <1>5, <1>7, <1>8, OneMoves


\* The others are asked, round the list.
LEMMA RingKeeps ==
  ASSUME RotationIInv, NEW c \in Callers, NEW got \in Nat, Ring(c, got)
  PROVE  RotationIInv'
<1> DEFINE me == call[c]
           its == token[c]
<1>1. Known(c)
  BY Knows
<1>2. /\ me \in Calls /\ me.at = "ring" /\ CallOK(me, its, tail) /\ its \in Tokens /\ tail \in Nat /\ got <= me.need
      /\ TokenOK(its, me.at, tail, globalOffset) /\ UNCHANGED Shared
  BY <1>1 DEF Ring, Known
<1>3. /\ me.need \in 1 .. me.max /\ me.need \in Nat /\ me.max \in Nat /\ me.tail \in Nat /\ me.listed \in Nat
      /\ me.tail <= tail /\ me.listed <= me.tail /\ its.current \in 1 .. me.tail /\ me.ptr \in 1 .. me.tail
      /\ me.ptr \in Nat /\ me.tries \in Nat /\ me.missed = {} /\ got \in 0 .. me.need /\ its.id # -1
      /\ Passed(its.current, me.ptr, me.tail) \subseteq me.exhausted
      /\ me.tries <= (me.max - me.need) * me.tail + Gone(its.current, me.ptr, me.tail)
      /\ me.max = 1 => me.kind = "token"
      /\ its.single => me.max = 1 /\ its.items < QUOTA
  BY <1>2 DEF CallOK, RingOK, TokenOK, Calls, Tokens, TokenPhases
<1>4. CASE me.ptr = its.current
  <2>1. Put(c, Short(me)) /\ UNCHANGED token
    BY <1>4 DEF Ring, RoundEnds
  <2>2. (1 .. me.listed) \subseteq me.exhausted
    <3>1. (1 .. me.tail) \subseteq me.exhausted
      BY <1>3, <1>4, RoundDone
    <3>2. (1 .. me.listed) \subseteq 1 .. me.tail
      BY <1>3
    <3> QED BY <3>1, <3>2
  <2>3. Short(me) \in Calls /\ CallOK(Short(me), its, tail) /\ Short(me).at = "idle"
    BY <1>2, <2>2, ShortOK
  <2>4. TokenOK(its, Short(me).at, tail, globalOffset)
    BY <1>2, <2>3, TokenIdle
  <2>5. UNCHANGED <<Shared, token>>
    BY <1>2, <2>1
  <2> QED BY <2>1, <2>3, <2>4, <2>5, CallMoves
<1>5. CASE me.ptr # its.current
  <2>1. PICK a : a = Asked(me, me.ptr, got)
    OBVIOUS
  <2>2. PICK q : q = Around(me.ptr, me.tail)
    OBVIOUS
  <2>3. PICK k : k = IF got = 0 THEN its ELSE [its EXCEPT !.current = me.ptr, !.items = got]
    OBVIOUS
  <2>4. AskedAs(me, a, me.ptr, got)
    BY <1>2, <1>3, <2>1, AskedFields
  <2>5. /\ a \in Calls /\ a.at = "ring" /\ a.kind = me.kind /\ a.max = me.max /\ a.listed = me.listed /\ a.missed = {}
        /\ a.tail = me.tail /\ a.ptr = me.ptr /\ a.tries = me.tries + 1 /\ a.need = me.need - got /\ a.need \in Nat
        /\ got < me.need => a.exhausted = me.exhausted \cup {me.ptr}
    BY <1>2, <1>3, <2>4 DEF AskedAs, Calls
  <2>6. /\ PutToken(c, k)
        /\ Put(c, IF a.need = 0 THEN Full(a) ELSE [a EXCEPT !.ptr = q])
    <3>1. /\ PutToken(c, k)
          /\ Put(c, IF a.need = 0 THEN Full(a) ELSE [a EXCEPT !.ptr = Around(@, me.tail)])
      BY <1>5, <2>1, <2>3 DEF Ring, RoundEnds
    <3>2. [a EXCEPT !.ptr = Around(@, me.tail)] = [a EXCEPT !.ptr = q]
      BY <2>2, <2>5
    <3> QED BY <3>1, <3>2
  <2> HIDE DEF me, its
  <2>7. /\ k \in Tokens /\ k.id = its.id /\ k.lastKnown = its.lastKnown /\ k.desired = its.desired
        /\ k.length = its.length /\ k.single = its.single
        /\ k.current = IF got = 0 THEN its.current ELSE me.ptr
        /\ k.items = IF got = 0 THEN its.items ELSE got
    <3>1. CASE got = 0
      BY <1>2, <2>3, <3>1
    <3>2. CASE got # 0
      <4>1. k = [its EXCEPT !.current = me.ptr, !.items = got]
        BY <2>3, <3>2
      <4>2. k \in Tokens
        BY <1>2, <1>3, <4>1 DEF Tokens
      <4> QED BY <1>2, <3>2, <4>1, <4>2 DEF Tokens
    <3> QED BY <3>1, <3>2
  <2>8. its.desired # 0
    BY <1>2 DEF CallOK, nullptr
  <2>9. its.single => k.items < QUOTA /\ k.items <= QUOTA /\ k.items # QUOTA
    BY <1>2, <1>3, <2>7, RotationAssumption DEF Tokens
  <2>10. k.current \in 1 .. me.tail /\ k.current \in 1 .. tail
    BY <1>2, <1>3, <2>7
  <2>11. ASSUME NEW at
         PROVE  TokenOK(k, at, tail, globalOffset)
    BY <1>2, <2>7, <2>8, <2>9, <2>10 DEF TokenOK, nullptr
  <2>12. CASE a.need = 0
    <3>1. PICK r : r = Full(a)
      OBVIOUS
    <3>2. Put(c, r)
      BY <2>6, <2>12, <3>1
    <3>3. r \in Calls /\ CallOK(r, k, tail) /\ r.at = "idle"
      BY <1>2, <3>1, FullOK
    <3> QED BY <1>2, <2>6, <2>7, <2>11, <3>2, <3>3, BothMove
  <2>13. CASE a.need # 0
    <3>1. PICK r : r = [a EXCEPT !.ptr = q]
      OBVIOUS
    <3>2. Put(c, r)
      BY <2>6, <2>13, <3>1
    <3>3. /\ q \in 1 .. me.tail
          /\ Passed(its.current, q, me.tail) \subseteq Passed(its.current, me.ptr, me.tail) \cup {me.ptr}
          /\ Gone(its.current, q, me.tail) = Gone(its.current, me.ptr, me.tail) + 1
          /\ Gone(its.current, me.ptr, me.tail) \in 1 .. me.tail - 1
      <4>1. PICK t \in Nat : t = me.tail
        BY <1>3
      <4>2. PICK p \in 1 .. t : p = its.current
        BY <1>3, <4>1
      <4>3. PICK x \in 1 .. t : x = me.ptr
        BY <1>3, <4>1
      <4>4. p # x
        BY <1>5, <4>2, <4>3
      <4>5. /\ Around(x, t) \in 1 .. t
            /\ Passed(p, Around(x, t), t) \subseteq Passed(p, x, t) \cup {x}
            /\ Gone(p, Around(x, t), t) = Gone(p, x, t) + 1
            /\ Gone(p, x, t) \in 1 .. t - 1
        BY <4>4, RoundGoesOn
      <4> QED BY <2>2, <4>1, <4>2, <4>3, <4>5
    <3>4. Passed(me.ptr, q, me.tail) = {me.ptr} /\ Gone(me.ptr, q, me.tail) = 1
      BY <1>3, <2>2, RoundBegins
    <3>5. q \in Nat
      BY <3>3
    <3>6. r \in Calls
      BY <2>5, <3>1, <3>5 DEF Calls
    <3>7. /\ r.at = "ring" /\ r.kind = me.kind /\ r.max = me.max /\ r.need = a.need /\ r.listed = me.listed /\ r.tail = me.tail
          /\ r.ptr = q /\ r.exhausted = a.exhausted /\ r.missed = {} /\ r.tries = a.tries
      BY <2>5, <3>1 DEF Calls
    <3>8. got < me.need /\ a.need \in 1 .. me.max
      BY <1>3, <2>5, <2>13
    <3>9. Passed(k.current, q, me.tail) \subseteq a.exhausted
      BY <1>3, <2>5, <2>7, <3>3, <3>4, <3>8
    <3>10. a.tries <= (me.max - a.need) * me.tail + Gone(k.current, q, me.tail)
      <4>1. PICK g : g = (me.max - me.need) * me.tail
        OBVIOUS
      <4>2. g \in Int
        BY <1>3, <4>1
      <4>3. me.tries <= g + Gone(its.current, me.ptr, me.tail)
        BY <1>3, <4>1
      <4>4. CASE got = 0
        <5>1. a.need = me.need /\ k.current = its.current
          BY <1>3, <2>5, <2>7, <4>4
        <5> QED BY <1>3, <2>5, <3>3, <4>1, <4>2, <4>3, <5>1
      <4>5. CASE got # 0
        <5>1. k.current = me.ptr /\ a.need < me.need
          BY <1>3, <2>5, <2>7, <4>5
        <5>2. PICK h : h = (me.max - a.need) * me.tail
          OBVIOUS
        <5>3. g + me.tail <= h /\ h \in Int
          <6>1. PICK x \in Nat : x = me.max
            BY <1>3
          <6>2. PICK y \in Nat : y = me.need
            BY <1>3
          <6>3. PICK z \in Nat : z = a.need
            BY <2>5
          <6>4. PICK t \in Nat : t = me.tail
            BY <1>3
          <6>5. z < y /\ y <= x
            BY <1>3, <5>1, <6>1, <6>2, <6>3
          <6>6. (x - y) * t + t <= (x - z) * t /\ (x - z) * t \in Int
            BY <6>5, RoundMore
          <6> QED BY <4>1, <5>2, <6>1, <6>2, <6>3, <6>4, <6>6
        <5>4. a.tries <= h + 1
          BY <1>3, <2>5, <3>3, <4>2, <4>3, <5>3
        <5> QED BY <3>4, <5>1, <5>2, <5>4
      <4> QED BY <4>4, <4>5
    <3>11. RingOK(r, k, tail)
      BY <1>3, <2>10, <3>3, <3>7, <3>8, <3>9, <3>10 DEF RingOK
    <3>12. CallOK(r, k, tail)
      <4>1. me.listed <= tail /\ me.max > 0
        BY <1>2, <1>3
      <4> QED BY <1>3, <2>7, <2>8, <3>7, <3>11, <4>1 DEF CallOK, TokenPhases, nullptr
    <3>13. TokenOK(k, r.at, tail, globalOffset)
      BY <2>11
    <3> QED BY <1>2, <2>6, <2>7, <3>2, <3>6, <3>12, <3>13, BothMove
  <2> QED BY <2>12, <2>13
<1> QED BY <1>4, <1>5
-----------------------------------------------------------------------------
\* Nobody has a token or a call to begin with.
LEMMA RotationStarts ==
  ASSUME RotationInit
  PROVE  RotationIInv
<1>1. PICK cast \in RotationCasts : token = [c \in cast |-> NoToken] /\ call = [c \in cast |-> NoCall]
  BY DEF RotationInit
<1>2. tail = 0 /\ linking = 0 /\ globalOffset = 0 /\ nextId = 0
  BY DEF RotationInit, nullptr
<1>3. Callers = cast
  BY <1>1 DEF Callers
<1>4. NoToken \in Tokens
  BY DEF NoToken, Tokens, nullptr
<1>5. RotationTypes
  BY <1>1, <1>2, <1>3, <1>4, IdleType DEF RotationTypes
<1>6. CallOK(NoCall, NoToken, 0)
  BY IdleOK
<1>7. TokenOK(NoToken, NoCall.at, 0, 0)
  BY RotationAssumption DEF TokenOK, NoToken, NoCall, nullptr
<1> QED BY <1>1, <1>2, <1>3, <1>5, <1>6, <1>7 DEF RotationIInv

\* Every step of a consumer keeps the invariant.
LEMMA ConsumerKeeps ==
  ASSUME RotationIInv, NEW c \in Callers, RotationStep(c)
  PROVE  RotationIInv'
<1>1. CASE MakeConsumerToken(c)
  BY <1>1, MakeConsumerTokenKeeps
<1>2. CASE TryDequeue(c)
  <2>1. "try_dequeue" \in Kinds /\ 1 \in Nat \ {0} /\ Begin(c, "try_dequeue", 1, "score")
    BY <1>2 DEF Kinds, TryDequeue
  <2> QED BY <2>1, BeginKeeps
<1>3. CASE TryDequeueNonInterleaved(c)
  <2>1. "non_interleaved" \in Kinds /\ 1 \in Nat \ {0} /\ Begin(c, "non_interleaved", 1, "walk")
    BY <1>3 DEF Kinds, TryDequeueNonInterleaved
  <2> QED BY <2>1, BeginKeeps
<1>4. ASSUME NEW max \in 1 .. MaxBulk, TryDequeueBulk(c, max)
      PROVE  RotationIInv'
  <2>1. "bulk" \in Kinds /\ max \in Nat \ {0} /\ Begin(c, "bulk", max, "walk")
    BY <1>4, RotationAssumption DEF Kinds, TryDequeueBulk
  <2> QED BY <2>1, BeginKeeps
<1>5. ASSUME NEW max \in 1 .. MaxBulk, TryDequeueToken(c, max)
      PROVE  RotationIInv'
  <2>1. PICK kind : kind = IF max = 1 THEN "token" ELSE "token_bulk"
    OBVIOUS
  <2>2. /\ kind \in Kinds /\ max \in Nat \ {0} /\ Begin(c, kind, max, "token") /\ token[c].id # -1
        /\ max = 1 => kind = "token"
    BY <1>5, <2>1, RotationAssumption DEF Kinds, TryDequeueToken
  <2> QED BY <2>2, BeginKeeps
<1>6. CASE \E size \in 0 .. 2 : Score(c, size)
  BY <1>6, ScoreKeeps
<1>7. CASE \E got \in 0 .. 1 : TryBest(c, got)
  BY <1>7, TryBestKeeps
<1>8. ASSUME NEW got \in 0 .. MaxBulk, Walk(c, got) \/ TryCurrent(c, got) \/ Ring(c, got)
      PROVE  RotationIInv'
  <2>1. got \in Nat
    BY RotationAssumption
  <2> QED BY <1>8, <2>1, WalkKeeps, TryCurrentKeeps, RingKeeps
<1>9. CASE CheckOffset(c)
  BY <1>9, CheckOffsetKeeps
<1>10. CASE LoadProducerTail(c)
  BY <1>10, LoadProducerTailKeeps
<1>11. CASE LoadProducerCount(c)
  BY <1>11, LoadProducerCountKeeps
<1>12. CASE Rotate(c)
  BY <1>12, RotateKeeps
<1>13. CASE AdvanceOffset(c)
  BY <1>13, AdvanceOffsetKeeps
<1> QED BY <1>1, <1>2, <1>3, <1>4, <1>5, <1>6, <1>7, <1>8, <1>9, <1>10, <1>11, <1>12, <1>13 DEF RotationStep

\* Every step keeps the invariant.
LEMMA RotationSteps ==
  ASSUME RotationIInv, [RotationNext]_rotationVars
  PROVE  RotationIInv'
<1>1. CASE CountProducer
  BY <1>1, CountProducerKeeps
<1>2. CASE LinkProducer
  BY <1>2, LinkProducerKeeps
<1>3. CASE \E c \in Callers : RotationStep(c)
  BY <1>3, ConsumerKeeps
<1>4. CASE UNCHANGED rotationVars
  BY <1>4 DEF RotationIInv, RotationTypes, Callers, rotationVars
<1> QED BY <1>1, <1>2, <1>3, <1>4 DEF RotationNext

\* At every moment, for any number of consumers and producers, any quota above one and
\* bulks of any size: calls have asked whom they have passed, and tokens are at the
\* places their ids and the offsets they know give them.
THEOREM RotationInvariance == RotationSpec => []RotationIInv
BY RotationStarts, RotationSteps, PTL DEF RotationSpec

\* EveryoneTried for every cast, list and bulk size: no dequeue of ConcurrentQueue comes
\* back short without having found every producer empty that was listed when it began.
THEOREM EveryoneAsked == RotationSpec => []EveryoneTried
<1>1. ASSUME RotationIInv
      PROVE  EveryoneTried
  BY <1>1 DEF RotationIInv, CallOK, EveryoneTried
<1> QED BY <1>1, RotationInvariance, PTL

\* A call has asked at most max times round the list.
LEMMA Bounded ==
  ASSUME RotationIInv
  PROVE  RoundsBounded
<1> SUFFICES ASSUME NEW c \in Callers
             PROVE  call[c].tries <= call[c].max * tail
  BY DEF RoundsBounded
<1> DEFINE me == call[c]
           its == token[c]
<1>1. Known(c)
  BY Knows
<1>2. me \in Calls /\ its \in Tokens /\ tail \in Nat /\ CallOK(me, its, tail) /\ TokenOK(its, me.at, tail, globalOffset)
  BY <1>1 DEF Known
<1> SUFFICES me.tries <= me.max * tail OBVIOUS
<1> HIDE DEF me, its
<1>3. me.at \in CallPhases /\ me.max \in Nat /\ me.tries \in Nat
  BY <1>2 DEF Calls
<1>4. PICK m \in Nat : m = me.max
  BY <1>3
<1>5. m * tail \in Nat
  BY <1>2
<1>6. CASE me.tries = 0
  BY <1>4, <1>5, <1>6
<1>7. CASE me.at = "walk"
  <2>1. m > 0 /\ me.tries <= tail
    BY <1>2, <1>4, <1>7 DEF CallOK, WalkOK, nullptr, Calls
  <2>2. tail <= m * tail
    BY <1>2, <2>1
  <2> QED BY <1>2, <1>3, <1>4, <1>5, <2>1, <2>2
<1>8. CASE me.at = "advance"
  <2>1. m > 0 /\ me.tries = 1 /\ tail >= 1
    BY <1>2, <1>4, <1>8 DEF CallOK, TokenOK, nullptr, Tokens
  <2>2. tail <= m * tail
    BY <1>2, <2>1
  <2> QED BY <1>2, <1>4, <1>5, <2>1, <2>2
<1>9. CASE me.at = "ring"
  <2>1. RingOK(me, its, tail)
    BY <1>2, <1>9 DEF CallOK
  <2>2. PICK n \in Nat : n = me.need
    BY <1>2 DEF Calls
  <2>3. PICK t \in Nat : t = me.tail
    BY <1>2 DEF Calls
  <2>4. n \in 1 .. m /\ t <= tail /\ its.current \in 1 .. t /\ me.ptr \in 1 .. t
    BY <1>4, <2>1, <2>2, <2>3 DEF RingOK
  <2>5. Gone(its.current, me.ptr, t) \in 1 .. t
    BY <2>4 DEF Gone
  <2>6. me.tries <= (m - n) * t + Gone(its.current, me.ptr, t)
    BY <1>4, <2>1, <2>2, <2>3 DEF RingOK
  <2>7. (m - n) * t + t <= (m - 0) * t
    BY <2>4, RoundMore
  <2>8. m * t <= m * tail /\ m * t \in Int /\ (m - n) * t \in Int
    BY <1>2, <2>4
  <2> QED BY <1>3, <1>4, <1>5, <2>4, <2>5, <2>6, <2>7, <2>8
<1> QED BY <1>2, <1>3, <1>6, <1>7, <1>8, <1>9 DEF CallPhases, TokenPhases, CallOK, ScoreOK

\* Tokens that know the same offset and are at the same place have ids that agree.
LEMMA Apart ==
  ASSUME RotationIInv
  PROVE  Spread
<1> SUFFICES ASSUME NEW c \in Callers, NEW d \in Callers,
                    token[c].length > 0, token[c].length = token[d].length,
                    token[c].lastKnown = token[d].lastKnown, token[c].desired = token[d].desired
             PROVE  token[c].id % token[c].length = token[d].id % token[c].length
  BY DEF Spread
<1>1. Known(c) /\ Known(d)
  BY Knows
<1>2. PICK l : l = token[c].length
  OBVIOUS
<1>3. PICK n : n = token[c].lastKnown
  OBVIOUS
<1>4. PICK i : i = token[c].id
  OBVIOUS
<1>5. PICK j : j = token[d].id
  OBVIOUS
<1>6. l \in Nat \ {0} /\ n \in Int /\ i \in Int /\ j \in Int
  BY <1>1, <1>2, <1>3, <1>4, <1>5 DEF Known, Tokens
<1>7. token[c].desired = ((i - n - 1) % l) + 1 /\ token[d].desired = ((j - n - 1) % l) + 1
  BY <1>1, <1>2, <1>3, <1>4, <1>5, Zenon DEF Known, TokenOK
<1>8. PICK k : k = n + 1
  OBVIOUS
<1>9. k \in Int /\ i - n - 1 = i - k /\ j - n - 1 = j - k /\ i - k \in Int /\ j - k \in Int
  BY <1>6, <1>8
<1>10. (i - k) % l = (j - k) % l
  <2>1. (i - k) % l \in Int /\ (j - k) % l \in Int
    BY <1>6, <1>9, IntModRange
  <2>2. ((i - k) % l) + 1 = ((j - k) % l) + 1
    BY <1>7, <1>9
  <2>3. PICK x \in Int : x = (i - k) % l
    BY <2>1
  <2>4. PICK y \in Int : y = (j - k) % l
    BY <2>1
  <2>5. x + 1 = y + 1
    BY <2>2, <2>3, <2>4, Zenon
  <2>6. x = y
    BY <2>5
  <2> QED BY <2>3, <2>4, <2>6, Zenon
<1>11. i % l = j % l
  <2>1. ASSUME NEW z \in Int
        PROVE  z % l = (((z - k) % l) - (-k)) % l
    BY <1>6, <1>9, ModBack
  <2> QED BY <1>6, <1>10, <2>1
<1> QED BY <1>2, <1>4, <1>5, <1>11, Zenon

\* RotationKept for every cast and quota: calls end after a bounded number of rounds
\* though the list grows, the quota holds for single dequeues whoever moves the offset,
\* and tokens that have settled on the same list share a producer only if their ids do.
THEOREM RotationHolds == RotationSpec => []RotationKept
<1>1. ASSUME RotationIInv
      PROVE  RotationKept
  <2>1. QuotaRespected
    BY <1>1 DEF RotationIInv, TokenOK, QuotaRespected
  <2> QED BY <1>1, <2>1, Bounded, Apart DEF RotationKept
<1> QED BY <1>1, RotationInvariance, PTL
=============================================================================
