--------------------------- MODULE OldBrokerProofs --------------------------
(***************************************************************************)
(* Proofs about OldBroker for any number of producers, consumers, filters  *)
(* and events, and handlers that may call the API, or throw, but do not    *)
(* call do_work() themselves: MaxDepth = 1.                                *)
(***************************************************************************)
EXTENDS OldBrokerInv, SequenceTheorems, FiniteSetTheorems, TLAPS

-----------------------------------------------------------------------------
(* Vectors without duplicates                                               *)

\* push_back of something new.
LEMMA AppendDistinct ==
  ASSUME NEW S, NEW s \in Seq(S), NEW x \in S
  PROVE  /\ Append(s, x) \in Seq(S) /\ Len(Append(s, x)) = Len(s) + 1
         /\ Append(s, x)[Len(s) + 1] = x
         /\ \A i \in 1 .. Len(s) : Append(s, x)[i] = s[i]
         /\ Range(Append(s, x)) = Range(s) \cup {x}
         /\ Distinct(s) /\ x \notin Range(s) => Distinct(Append(s, x))
<1> DEFINE a == Append(s, x)
           n == Len(s)
<1>1. /\ n \in Nat /\ a \in Seq(S) /\ Len(a) = n + 1 /\ a[n + 1] = x /\ \A i \in 1 .. n : a[i] = s[i]
      /\ DOMAIN s = 1 .. n /\ DOMAIN a = 1 .. n + 1
  BY AppendProperties
<1> HIDE DEF a, n
<1>2. Range(a) = Range(s) \cup {x}
  <2>1. ASSUME NEW y \in Range(a) PROVE y \in Range(s) \cup {x}
    BY <1>1 DEF Range
  <2>2. ASSUME NEW y \in Range(s) \cup {x} PROVE y \in Range(a)
    BY <1>1 DEF Range
  <2> QED BY <2>1, <2>2
<1>3. ASSUME Distinct(s), x \notin Range(s) PROVE Distinct(a)
  BY <1>1, <1>3 DEF Distinct, Range
<1> QED BY <1>1, <1>2, <1>3 DEF a, n

\* erase of what find() found.
LEMMA RemoveFirstDistinct ==
  ASSUME NEW S, NEW s \in Seq(S), Distinct(s), NEW x
  PROVE  /\ RemoveFirst(s, x) \in Seq(S)
         /\ Distinct(RemoveFirst(s, x))
         /\ Range(RemoveFirst(s, x)) = Range(s) \ {x}
<1> DEFINE n == Len(s)
<1>0. n \in Nat /\ DOMAIN s = 1 .. n /\ \A i \in 1 .. n : s[i] \in S
  OBVIOUS
<1>1. CASE ~\E i \in 1 .. n : s[i] = x
  <2>1. RemoveFirst(s, x) = s
    BY <1>1 DEF RemoveFirst
  <2>2. x \notin Range(s)
    BY <1>0, <1>1 DEF Range
  <2> QED BY <2>1, <2>2
<1>2. CASE \E i \in 1 .. n : s[i] = x
  <2>1. PICK k \in 1 .. n : s[k] = x
    BY <1>2
  <2>2. {i \in 1 .. n : s[i] = x} = {k}
    BY <1>0, <2>1 DEF Distinct
  <2>3. Min({k}) = k
    BY <1>0, <2>1 DEF Min
  <2>4. SelectInSeq(s, LAMBDA v : v = x) = k
    BY <2>2, <2>3 DEF SelectInSeq
  <2> DEFINE u == SubSeq(s, 1, k - 1)
             v == SubSeq(s, k + 1, n)
             r == u \o v
  <2>5. RemoveFirst(s, x) = r
    BY <1>2, <2>4 DEF RemoveFirst, RemoveAt
  <2>6. u \in Seq(S) /\ Len(u) = k - 1 /\ \A i \in 1 .. k - 1 : u[i] = s[i]
    <3>1. \A i \in 1 .. k - 1 : s[i] \in S
      BY <1>0, <2>1
    <3>2. 1 \in Int /\ k - 1 \in Int /\ (k - 1) - 1 + 1 = k - 1
      BY <1>0, <2>1
    <3> QED BY <1>0, <3>1, <3>2, <2>1, SubSeqProperties
  <2>7. v \in Seq(S) /\ Len(v) = n - k /\ \A i \in 1 .. n - k : v[i] = s[k + i]
    <3>1. \A i \in k + 1 .. n : s[i] \in S
      BY <1>0, <2>1
    <3>2. k + 1 \in Int /\ n \in Int /\ n - (k + 1) + 1 = n - k
      BY <1>0, <2>1
    <3>3. \A i \in 1 .. n - k : (k + 1) + i - 1 = k + i
      BY <1>0, <2>1
    <3> HIDE DEF n
    <3>4. /\ SubSeq(s, k + 1, n) \in Seq(S)
          /\ Len(SubSeq(s, k + 1, n)) = IF k + 1 <= n THEN n - (k + 1) + 1 ELSE 0
          /\ \A i \in 1 .. n - (k + 1) + 1 : SubSeq(s, k + 1, n)[i] = s[(k + 1) + i - 1]
      BY <3>1, <3>2, SubSeqProperties
    <3> QED BY <1>0, <2>1, <3>2, <3>3, <3>4
  <2> HIDE DEF u, v, n
  <2>8. r \in Seq(S) /\ Len(r) = n - 1
    BY <1>0, <2>1, <2>6, <2>7
  <2>9. \A i \in 1 .. n - 1 : r[i] = IF i < k THEN s[i] ELSE s[i + 1]
    <3> SUFFICES ASSUME NEW i \in 1 .. n - 1
                 PROVE  r[i] = IF i < k THEN s[i] ELSE s[i + 1]
      OBVIOUS
    <3>1. CASE i < k
      BY <1>0, <2>1, <2>6, <2>7, <3>1
    <3>2. CASE i >= k
      <4>1. i - (k - 1) \in 1 .. n - k /\ k + (i - (k - 1)) = i + 1
        BY <1>0, <2>1, <3>2
      <4>2. r[i] = v[i - (k - 1)]
        BY <1>0, <2>1, <2>6, <2>7, <3>2
      <4> QED BY <1>0, <2>1, <2>7, <3>2, <4>1, <4>2
    <3>3. i < k \/ i >= k
      BY <1>0, <2>1
    <3> QED BY <3>1, <3>2, <3>3
  <2>10. DOMAIN r = 1 .. n - 1
    BY <2>8
  <2> HIDE DEF r
  <2>11. Distinct(r)
    <3> SUFFICES ASSUME NEW i \in 1 .. n - 1, NEW j \in 1 .. n - 1, r[i] = r[j]
                 PROVE  i = j
      BY <2>10 DEF Distinct
    <3> DEFINE f(z) == IF z < k THEN z ELSE z + 1
    <3>1. f(i) \in 1 .. n /\ f(j) \in 1 .. n /\ s[f(i)] = s[f(j)]
      BY <1>0, <2>1, <2>9
    <3>2. f(i) = f(j)
      BY <1>0, <3>1 DEF Distinct
    <3> QED BY <1>0, <2>1, <3>2
  <2>12. Range(r) = Range(s) \ {x}
    <3>1. ASSUME NEW i \in 1 .. n - 1 PROVE r[i] \in Range(s) /\ r[i] # x
      <4> DEFINE f == IF i < k THEN i ELSE i + 1
      <4>1. f \in 1 .. n /\ f # k /\ r[i] = s[f]
        BY <1>0, <2>1, <2>9
      <4> HIDE DEF f
      <4> QED BY <1>0, <2>1, <4>1 DEF Distinct, Range
    <3>2. ASSUME NEW i \in 1 .. n, s[i] # x PROVE s[i] \in Range(r)
      <4> DEFINE f == IF i < k THEN i ELSE i - 1
      <4>1. f \in 1 .. n - 1 /\ r[f] = s[i]
        <5>1. CASE i < k
          BY <1>0, <2>1, <2>9, <5>1
        <5>2. CASE i > k
          BY <1>0, <2>1, <2>9, <5>2
        <5> QED BY <1>0, <2>1, <3>2, <5>1, <5>2
      <4> HIDE DEF f
      <4> QED BY <2>10, <4>1 DEF Range
    <3> QED BY <1>0, <2>10, <3>1, <3>2 DEF Range
  <2> QED BY <2>5, <2>8, <2>11, <2>12
<1> QED BY <1>1, <1>2

-----------------------------------------------------------------------------
(* Actions and the queue                                                    *)

\* What the six alternatives of the Action variant carry.
LEMMA ActionFacts ==
  ASSUME NEW a \in Action
  PROVE  /\ a.op \in {"InitProducer", "DestroyProducer", "Publish", "InitConsumer", "DestroyConsumer"}
         /\ a.op \in {"InitProducer", "DestroyProducer", "Publish"} => a.p \in Producers /\ Target(a) = a.p
         /\ a.op \in {"InitConsumer", "DestroyConsumer"} => a.c \in Consumers /\ Target(a) = a.c
         /\ a.op = "Publish" => a.ev \in 1 .. MaxEvents
         /\ Target(a) \in Ids /\ a # Idle /\ ~(IsCreation(a) /\ IsDestruction(a))
BY DEF Action, InitProducer, DestroyProducer, Publish, InitConsumer, DestroyConsumer, Target, Ids,
   Idle, IsCreation, IsDestruction

\* What each of them is.
LEMMA ActionKinds ==
  /\ \A p \in Producers : /\ InitProducer(p) \in Action /\ InitProducer(p).op = "InitProducer"
                          /\ Target(InitProducer(p)) = p
                          /\ IsCreation(InitProducer(p)) /\ ~IsDestruction(InitProducer(p))
  /\ \A p \in Producers : /\ DestroyProducer(p) \in Action /\ DestroyProducer(p).op = "DestroyProducer"
                          /\ Target(DestroyProducer(p)) = p
                          /\ IsDestruction(DestroyProducer(p)) /\ ~IsCreation(DestroyProducer(p))
  /\ \A p \in Producers, e \in 1 .. MaxEvents :
       /\ Publish(p, e) \in Action /\ Publish(p, e).op = "Publish" /\ Target(Publish(p, e)) = p
       /\ ~IsDestruction(Publish(p, e)) /\ ~IsCreation(Publish(p, e))
  /\ \A c \in Consumers : /\ InitConsumer(c) \in Action /\ InitConsumer(c).op = "InitConsumer"
                          /\ Target(InitConsumer(c)) = c
                          /\ IsCreation(InitConsumer(c)) /\ ~IsDestruction(InitConsumer(c))
  /\ \A c \in Consumers : /\ DestroyConsumer(c) \in Action /\ DestroyConsumer(c).op = "DestroyConsumer"
                          /\ Target(DestroyConsumer(c)) = c
                          /\ IsDestruction(DestroyConsumer(c)) /\ ~IsCreation(DestroyConsumer(c))
<1>1. ASSUME NEW p \in Producers
      PROVE  /\ InitProducer(p) \in Action /\ InitProducer(p).op = "InitProducer"
             /\ Target(InitProducer(p)) = p
             /\ IsCreation(InitProducer(p)) /\ ~IsDestruction(InitProducer(p))
  BY DEF Action, IsCreation, IsDestruction, Target, InitProducer
<1>2. ASSUME NEW p \in Producers
      PROVE  /\ DestroyProducer(p) \in Action /\ DestroyProducer(p).op = "DestroyProducer"
             /\ Target(DestroyProducer(p)) = p
             /\ IsDestruction(DestroyProducer(p)) /\ ~IsCreation(DestroyProducer(p))
  BY DEF Action, IsCreation, IsDestruction, Target, DestroyProducer
<1>3. ASSUME NEW p \in Producers, NEW e \in 1 .. MaxEvents
      PROVE  /\ Publish(p, e) \in Action /\ Publish(p, e).op = "Publish" /\ Target(Publish(p, e)) = p
             /\ ~IsDestruction(Publish(p, e)) /\ ~IsCreation(Publish(p, e))
  BY DEF Action, IsCreation, IsDestruction, Target, Publish
<1>4. ASSUME NEW c \in Consumers
      PROVE  /\ InitConsumer(c) \in Action /\ InitConsumer(c).op = "InitConsumer"
             /\ Target(InitConsumer(c)) = c
             /\ IsCreation(InitConsumer(c)) /\ ~IsDestruction(InitConsumer(c))
  BY DEF Action, IsCreation, IsDestruction, Target, InitConsumer
<1>5. ASSUME NEW c \in Consumers
      PROVE  /\ DestroyConsumer(c) \in Action /\ DestroyConsumer(c).op = "DestroyConsumer"
             /\ Target(DestroyConsumer(c)) = c
             /\ IsDestruction(DestroyConsumer(c)) /\ ~IsCreation(DestroyConsumer(c))
  BY DEF Action, IsCreation, IsDestruction, Target, DestroyConsumer
<1> QED BY <1>1, <1>2, <1>3, <1>4, <1>5

\* Nothing is a target of Idle.
LEMMA IdleFacts == Idle.op = "Idle" /\ ~IsDestruction(Idle) /\ ~IsCreation(Idle)
BY DEF Idle, IsDestruction, IsCreation

\* pending_actions.push_back.
LEMMA EnqueueQueue ==
  ASSUME pending \in Seq(Action), NEW a \in Action, pending' = Append(pending, a)
  PROVE  /\ pending' \in Seq(Action)
         /\ \A x \in Ids : CreationQueued(x)' <=> CreationQueued(x) \/ (IsCreation(a) /\ Target(a) = x)
         /\ \A x \in Ids : DestructionQueued(x)' <=> DestructionQueued(x) \/ (IsDestruction(a) /\ Target(a) = x)
         /\ \A x \in Ids : Target(a) # x /\ (\A k \in DOMAIN pending : Target(pending[k]) # x)
                              => \A k \in DOMAIN pending' : Target(pending'[k]) # x
         /\ QueueInv /\ ~DestructionQueued(Target(a))
                     /\ (IsCreation(a) => \A k \in DOMAIN pending : Target(pending[k]) # Target(a))
              => QueueInv'
<1> DEFINE n == Len(pending)
<1>1. /\ n \in Nat /\ pending' \in Seq(Action) /\ DOMAIN pending = 1 .. n /\ DOMAIN pending' = 1 .. n + 1
      /\ pending'[n + 1] = a /\ \A i \in 1 .. n : pending'[i] = pending[i]
  BY AppendProperties
<1> HIDE DEF n
<1>2. ASSUME NEW x \in Ids
      PROVE  CreationQueued(x)' <=> CreationQueued(x) \/ (IsCreation(a) /\ Target(a) = x)
  <2>1. ASSUME CreationQueued(x) PROVE CreationQueued(x)'
    BY <1>1, <2>1 DEF CreationQueued
  <2>2. ASSUME IsCreation(a), Target(a) = x PROVE CreationQueued(x)'
    BY <1>1, <2>2 DEF CreationQueued
  <2>3. ASSUME CreationQueued(x)' PROVE CreationQueued(x) \/ (IsCreation(a) /\ Target(a) = x)
    BY <1>1, <2>3 DEF CreationQueued
  <2> QED BY <2>1, <2>2, <2>3
<1>3. ASSUME NEW x \in Ids
      PROVE  DestructionQueued(x)' <=> DestructionQueued(x) \/ (IsDestruction(a) /\ Target(a) = x)
  <2>1. ASSUME DestructionQueued(x) PROVE DestructionQueued(x)'
    BY <1>1, <2>1 DEF DestructionQueued
  <2>2. ASSUME IsDestruction(a), Target(a) = x PROVE DestructionQueued(x)'
    BY <1>1, <2>2 DEF DestructionQueued
  <2>3. ASSUME DestructionQueued(x)' PROVE DestructionQueued(x) \/ (IsDestruction(a) /\ Target(a) = x)
    BY <1>1, <2>3 DEF DestructionQueued
  <2> QED BY <2>1, <2>2, <2>3
<1>4. ASSUME NEW x \in Ids, Target(a) # x, \A k \in DOMAIN pending : Target(pending[k]) # x
      PROVE  \A k \in DOMAIN pending' : Target(pending'[k]) # x
  BY <1>1, <1>4
<1>5. ASSUME QueueInv, ~DestructionQueued(Target(a)),
             IsCreation(a) => \A k \in DOMAIN pending : Target(pending[k]) # Target(a)
      PROVE  QueueInv'
  <2> SUFFICES ASSUME NEW j \in 1 .. n + 1, NEW k \in 1 .. n + 1, j < k,
                      Target(pending'[j]) = Target(pending'[k])
               PROVE  ~IsCreation(pending'[k]) /\ ~IsDestruction(pending'[j])
    BY <1>1 DEF QueueInv
  <2>1. j \in 1 .. n /\ pending'[j] = pending[j]
    BY <1>1
  <2>2. CASE k = n + 1
    BY <1>1, <1>5, <2>1, <2>2 DEF DestructionQueued
  <2>3. CASE k # n + 1
    <3>1. k \in 1 .. n /\ pending'[k] = pending[k]
      BY <1>1, <2>3
    <3> QED BY <1>1, <1>5, <2>1, <3>1 DEF QueueInv
  <2> QED BY <2>2, <2>3
<1> QED BY <1>1, <1>2, <1>3, <1>4, <1>5

\* pending_actions.pop_front.
LEMMA PopQueue ==
  ASSUME pending \in Seq(Action), pending # <<>>, pending' = Tail(pending), QueueInv
  PROVE  /\ Head(pending) \in Action /\ pending' \in Seq(Action) /\ QueueInv'
         /\ \A x \in Ids : CreationQueued(x) <=>
              CreationQueued(x)' \/ (IsCreation(Head(pending)) /\ Target(Head(pending)) = x)
         /\ \A x \in Ids : DestructionQueued(x) <=>
              DestructionQueued(x)' \/ (IsDestruction(Head(pending)) /\ Target(Head(pending)) = x)
         /\ \A x \in Ids : (\A k \in DOMAIN pending : Target(pending[k]) # x)
              => Target(Head(pending)) # x /\ \A k \in DOMAIN pending' : Target(pending'[k]) # x
         /\ \A x \in Ids : x = Target(Head(pending)) => ~CreationQueued(x)'
         /\ IsDestruction(Head(pending))
              => \A k \in DOMAIN pending' : Target(pending'[k]) # Target(Head(pending))
<1> DEFINE n == Len(pending)
           h == Head(pending)
<1>1. /\ n \in Nat /\ n >= 1 /\ pending' \in Seq(Action) /\ DOMAIN pending = 1 .. n /\ DOMAIN pending' = 1 .. n - 1
      /\ h = pending[1] /\ h \in Action /\ \A i \in 1 .. n - 1 : pending'[i] = pending[i + 1]
  BY HeadTailProperties
<1> HIDE DEF n, h
<1>2. \A i \in 2 .. n : i - 1 \in 1 .. n - 1 /\ pending'[i - 1] = pending[i]
  BY <1>1
<1>3. \A i \in 1 .. n - 1 : i + 1 \in 2 .. n /\ i + 1 \in 1 .. n
  BY <1>1
<1>4. ASSUME NEW x \in Ids
      PROVE  CreationQueued(x) <=> CreationQueued(x)' \/ (IsCreation(h) /\ Target(h) = x)
  <2>1. ASSUME CreationQueued(x)' PROVE CreationQueued(x)
    BY <1>1, <1>3, <2>1 DEF CreationQueued
  <2>2. ASSUME IsCreation(h), Target(h) = x PROVE CreationQueued(x)
    <3>1. 1 \in DOMAIN pending
      BY <1>1
    <3> QED BY <1>1, <2>2, <3>1 DEF CreationQueued
  <2>3. ASSUME CreationQueued(x) PROVE CreationQueued(x)' \/ (IsCreation(h) /\ Target(h) = x)
    <3>1. PICK k \in 1 .. n : IsCreation(pending[k]) /\ Target(pending[k]) = x
      BY <1>1, <2>3 DEF CreationQueued
    <3>2. CASE k = 1
      BY <1>1, <3>1, <3>2
    <3>3. CASE k \in 2 .. n
      BY <1>1, <1>2, <3>1, <3>3 DEF CreationQueued
    <3> QED BY <1>1, <3>2, <3>3
  <2> QED BY <2>1, <2>2, <2>3
<1>5. ASSUME NEW x \in Ids
      PROVE  DestructionQueued(x) <=> DestructionQueued(x)' \/ (IsDestruction(h) /\ Target(h) = x)
  <2>1. ASSUME DestructionQueued(x)' PROVE DestructionQueued(x)
    BY <1>1, <1>3, <2>1 DEF DestructionQueued
  <2>2. ASSUME IsDestruction(h), Target(h) = x PROVE DestructionQueued(x)
    <3>1. 1 \in DOMAIN pending
      BY <1>1
    <3> QED BY <1>1, <2>2, <3>1 DEF DestructionQueued
  <2>3. ASSUME DestructionQueued(x) PROVE DestructionQueued(x)' \/ (IsDestruction(h) /\ Target(h) = x)
    <3>1. PICK k \in 1 .. n : IsDestruction(pending[k]) /\ Target(pending[k]) = x
      BY <1>1, <2>3 DEF DestructionQueued
    <3>2. CASE k = 1
      BY <1>1, <3>1, <3>2
    <3>3. CASE k \in 2 .. n
      BY <1>1, <1>2, <3>1, <3>3 DEF DestructionQueued
    <3> QED BY <1>1, <3>2, <3>3
  <2> QED BY <2>1, <2>2, <2>3
<1>6. ASSUME NEW x \in Ids, \A k \in DOMAIN pending : Target(pending[k]) # x
      PROVE  Target(h) # x /\ \A k \in DOMAIN pending' : Target(pending'[k]) # x
  <2>1. 1 \in DOMAIN pending
    BY <1>1
  <2> QED BY <1>1, <1>3, <1>6, <2>1
<1>7. QueueInv'
  <2> SUFFICES ASSUME NEW j \in 1 .. n - 1, NEW k \in 1 .. n - 1, j < k,
                      Target(pending'[j]) = Target(pending'[k])
               PROVE  ~IsCreation(pending'[k]) /\ ~IsDestruction(pending'[j])
    BY <1>1 DEF QueueInv
  <2>1. j + 1 < k + 1 /\ j + 1 \in 1 .. n /\ k + 1 \in 1 .. n
    BY <1>1
  <2> QED BY <1>1, <2>1 DEF QueueInv
<1>8. ASSUME NEW k \in 1 .. n - 1, Target(pending'[k]) = Target(h)
      PROVE  ~IsCreation(pending'[k]) /\ ~IsDestruction(h)
  <2>1. 1 < k + 1 /\ 1 \in 1 .. n /\ k + 1 \in 1 .. n
    BY <1>1
  <2> QED BY <1>1, <1>8, <2>1 DEF QueueInv
<1>9. ASSUME NEW x \in Ids, x = Target(h) PROVE ~CreationQueued(x)'
  BY <1>1, <1>8, <1>9 DEF CreationQueued
<1>10. IsDestruction(h) => \A k \in DOMAIN pending' : Target(pending'[k]) # Target(h)
  BY <1>1, <1>8
<1> QED BY <1>1, <1>4, <1>5, <1>6, <1>7, <1>9, <1>10 DEF h

-----------------------------------------------------------------------------
(* One do_work() at a time                                                  *)

\* The fields of a frame.
LEMMA VisitingFacts ==
  /\ \A f \in Visiting : f.act \in Action \cup {Idle} /\ f.i \in Nat /\ f.run \in BOOLEAN
  /\ \A a \in Action \cup {Idle}, i \in Nat, r \in BOOLEAN :
       /\ Frame(a, i, r) \in Visiting
       /\ Frame(a, i, r).act = a /\ Frame(a, i, r).i = i /\ Frame(a, i, r).run = r
<1>1. \A f \in Visiting : f.act \in Action \cup {Idle} /\ f.i \in Nat /\ f.run \in BOOLEAN
  BY DEF Visiting
<1>2. ASSUME NEW a \in Action \cup {Idle}, NEW i \in Nat, NEW r \in BOOLEAN
      PROVE  /\ Frame(a, i, r) \in Visiting
             /\ Frame(a, i, r).act = a /\ Frame(a, i, r).i = i /\ Frame(a, i, r).run = r
  BY DEF Visiting, Frame
<1> QED BY <1>1, <1>2

\* The stack of do_work() calls has one frame at most.
LEMMA FrameFacts ==
  ASSUME MaxDepth = 1, TypeOK, frames # <<>>
  PROVE  /\ Len(frames) = 1 /\ DOMAIN frames = {1} /\ Top = Cur /\ Cur = frames[1] /\ Front(frames) = <<>>
         /\ Cur \in Visiting
<1>1. frames \in Seq(Visiting) /\ Len(frames) <= 1
  BY DEF TypeOK
<1>2. Len(frames) = 1
  <2> DEFINE n == Len(frames)
  <2>1. n \in Nat \ {0} /\ n <= 1
    BY <1>1, EmptySeq
  <2> HIDE DEF n
  <2>2. n = 1
    BY <2>1
  <2> QED BY <2>2 DEF n
<1>3. DOMAIN frames = {1} /\ frames[1] \in Visiting
  BY <1>1, <1>2
<1>4. SubSeq(frames, 1, 0) = <<>>
  BY SubSeqEmpty
<1> QED BY <1>2, <1>3, <1>4 DEF Top, Last, Cur, Front

\* The frame is replaced,
LEMMA SetTopFacts ==
  ASSUME MaxDepth = 1, TypeOK, frames # <<>>, NEW f, SetTop(f)
  PROVE  frames' = <<f>> /\ frames' # <<>> /\ Cur' = f
<1>1. frames' = Append(<<>>, f)
  BY FrameFacts DEF SetTop
<1>2. frames' = <<f>> /\ frames' # <<>> /\ frames'[1] = f
  BY <1>1
<1> QED BY <1>2 DEF Cur

\* and it is of the type of a frame when what it is replaced by is.
LEMMA SetTopType ==
  ASSUME MaxDepth = 1, TypeOK, frames # <<>>,
         NEW f \in Visiting, SetTop(f)
  PROVE  /\ frames' \in Seq(Visiting)
         /\ Len(frames') <= MaxDepth
<1>1. frames' = <<f>>
  BY SetTopFacts
<1> QED BY <1>1

\* What a loop ranges over.
LEMMA LoopFacts ==
  ASSUME TypeOK, NEW a \in Action, NEW i \in Nat \ {0}, i <= Len(Loop(a))
  PROVE  /\ a.op = "InitProducer" =>
              i \in DOMAIN consumers /\ Loop(a)[i] = consumers[i] /\ consumers[i] \in Consumers
         /\ a.op = "InitConsumer" =>
              i \in DOMAIN producers /\ Loop(a)[i] = producers[i] /\ producers[i] \in Producers
         /\ a.op \in {"Publish", "DestroyProducer"} =>
              /\ i \in DOMAIN subs[a.p] /\ Loop(a)[i] = subs[a.p][i]
              /\ subs[a.p][i] \in Consumers /\ subs[a.p][i] \in Range(subs[a.p])
         /\ a.op \in {"InitProducer", "InitConsumer", "Publish", "DestroyProducer"}
<1>0. producers \in Seq(Producers) /\ consumers \in Seq(Consumers) /\ subs \in [Producers -> Seq(Consumers)]
  BY DEF TypeOK
<1>1. CASE a.op = "InitProducer"
  <2>1. Loop(a) = consumers
    BY <1>1 DEF Loop
  <2> QED BY <1>0, <1>1, <2>1
<1>2. CASE a.op = "InitConsumer"
  <2>1. Loop(a) = producers
    BY <1>2 DEF Loop
  <2> QED BY <1>0, <1>2, <2>1
<1>3. CASE a.op \in {"Publish", "DestroyProducer"}
  <2>1. Loop(a) = subs[a.p] /\ subs[a.p] \in Seq(Consumers)
    BY <1>0, <1>3, ActionFacts DEF Loop
  <2>2. i \in DOMAIN subs[a.p] /\ subs[a.p][i] \in Consumers
    BY <2>1
  <2> QED BY <1>3, <2>1, <2>2 DEF Range
<1>4. CASE a.op = "DestroyConsumer"
  <2>1. Loop(a) = <<>>
    BY <1>4 DEF Loop
  <2> QED BY <2>1
<1> QED BY <1>1, <1>2, <1>3, <1>4, ActionFacts

-----------------------------------------------------------------------------
(* Types                                                                    *)

\* The number of events published is a number.
LEMMA PublishedNat == ASSUME TypeOK PROVE Published \in Nat
<1>1. calls \in Seq(Action)
  BY DEF TypeOK
<1>2. DOMAIN calls = 1 .. Len(calls) /\ Len(calls) \in Nat
  BY <1>1
<1>3. IsFiniteSet(DOMAIN calls)
  BY <1>2, FS_Interval
<1>4. IsFiniteSet({k \in DOMAIN calls : calls[k].op = "Publish"})
  BY <1>3, FS_Subset
<1> QED BY <1>4, FS_CardinalityType DEF Published

\* The calls of the API keep the types.
LEMMA ApiTypes == ASSUME TypeOK, Api PROVE TypeOK'
<1> USE DEF TypeOK, apiVars, brokerVars, heapVars, Ids
<1>0. ASSUME NEW a \in Action, Enqueue(a)
      PROVE  pending' \in Seq(Action) /\ calls' \in Seq(Action) /\ UNCHANGED <<producers, consumers>>
  BY <1>0, AppendProperties DEF Enqueue
<1>1. ASSUME NEW p \in Producers, NewProducer(p) PROVE TypeOK'
  <2>1. pending' \in Seq(Action) /\ calls' \in Seq(Action) /\ UNCHANGED <<producers, consumers>>
    BY <1>0, <1>1, ActionKinds DEF NewProducer, MakeProducer
  <2>2. subs' \in [Producers -> Seq(Consumers)] /\ heap' \subseteq Ids /\ UNCHANGED notify
    BY <1>1 DEF NewProducer, MakeProducer, NewProducerImpl, Allocate
  <2> QED BY <1>1, <2>1, <2>2 DEF NewProducer
<1>2. ASSUME NEW c \in Consumers, NewConsumer(c) PROVE TypeOK'
  <2>1. pending' \in Seq(Action) /\ calls' \in Seq(Action) /\ UNCHANGED <<producers, consumers>>
    BY <1>0, <1>2, ActionKinds DEF NewConsumer, MakeConsumer
  <2>2. notify' \in [Consumers -> {"user", "noop"}] /\ heap' \subseteq Ids /\ UNCHANGED subs
    BY <1>2 DEF NewConsumer, MakeConsumer, NewConsumerImpl, Allocate
  <2> QED BY <1>2, <2>1, <2>2 DEF NewConsumer
<1>3. ASSUME NEW p \in Producers, DropProducer(p) PROVE TypeOK'
  <2>1. pending' \in Seq(Action) /\ calls' \in Seq(Action) /\ UNCHANGED <<producers, consumers>>
    BY <1>0, <1>3, ActionKinds DEF DropProducer, DestroyProducerCall
  <2> QED BY <1>3, <2>1 DEF DropProducer, DestroyProducerCall
<1>4. ASSUME NEW c \in Consumers, DropConsumer(c) PROVE TypeOK'
  <2>1. pending' \in Seq(Action) /\ calls' \in Seq(Action) /\ UNCHANGED <<producers, consumers>>
    BY <1>0, <1>4, ActionKinds DEF DropConsumer, DestroyConsumerCall
  <2>2. notify' \in [Consumers -> {"user", "noop"}] /\ UNCHANGED <<heap, subs>>
    BY <1>4 DEF DropConsumer, DestroyConsumerCall
  <2> QED BY <1>4, <2>1, <2>2 DEF DropConsumer
<1>5. ASSUME NEW p \in Producers, PublishEvent(p) PROVE TypeOK'
  <2>1. Published + 1 \in 1 .. MaxEvents
    BY <1>5, PublishedNat, BrokerAssumption DEF PublishEvent
  <2>2. Publish(p, Published + 1) \in Action
    BY <2>1, ActionKinds
  <2>3. pending' \in Seq(Action) /\ calls' \in Seq(Action) /\ UNCHANGED <<producers, consumers>>
    BY <1>0, <1>5, <2>2 DEF PublishEvent, PublishCall
  <2> QED BY <1>5, <2>3 DEF PublishEvent, PublishCall
<1> QED BY <1>1, <1>2, <1>3, <1>4, <1>5 DEF Api

\* What c got when notify(n) was called on it.
Heard(c, n) ==
  seen' = IF notify[c] = "user" THEN [seen EXCEPT ![c] = Append(@, n)] ELSE seen

\* A call of a handler keeps the types.
LEMMA NotifyTypes ==
  ASSUME MaxDepth = 1, TypeOK, frames # <<>>, NEW c \in Consumers, NEW n \in Notification, Notify(c, n)
  PROVE  /\ frames' \in Seq(Visiting) /\ Len(frames') <= MaxDepth
         /\ seen' \in [Consumers -> Seq(Notification)]
         /\ uaf' \in BOOLEAN
         /\ frames' # <<>> /\ Cur'.act = Cur.act /\ Cur'.i = Cur.i + 1 /\ Cur'.run \in BOOLEAN
         /\ uaf' <=> (uaf \/ c \notin heap)
         /\ Heard(c, n)
<1> DEFINE f == Frame(Top.act, Top.i + 1, notify[c] = "user")
<1>1. Top = Cur /\ Cur \in Visiting
  BY FrameFacts
<1>2. f \in Visiting /\ f.act = Cur.act /\ f.i = Cur.i + 1 /\ f.run \in BOOLEAN
  <2>1. PICK r \in BOOLEAN : r = (notify[c] = "user")
    OBVIOUS
  <2>2. f = Frame(Cur.act, Cur.i + 1, r)
    BY <1>1, <2>1
  <2>3. Cur.act \in Action \cup {Idle} /\ Cur.i + 1 \in Nat
    BY <1>1, VisitingFacts
  <2> HIDE DEF f
  <2> QED BY <2>2, <2>3, VisitingFacts
<1>3. SetTop(f)
  BY DEF Notify
<1>4. seen \in [Consumers -> Seq(Notification)]
  BY DEF TypeOK
<1>5. seen' \in [Consumers -> Seq(Notification)]
  <2>1. Append(seen[c], n) \in Seq(Notification)
    BY <1>4, AppendProperties
  <2>2. CASE notify[c] = "user"
    BY <1>4, <2>1, <2>2 DEF Notify
  <2>3. CASE notify[c] # "user"
    BY <1>4, <2>3 DEF Notify
  <2> QED BY <2>2, <2>3
<1>6. uaf' = (uaf \/ c \notin heap) /\ uaf \in BOOLEAN
  BY DEF Notify, TypeOK
<1> HIDE DEF f
<1>7. frames' # <<>> /\ Cur' = f
  BY <1>3, SetTopFacts
<1>8. frames' \in Seq(Visiting) /\ Len(frames') <= MaxDepth
  BY <1>2, <1>3, SetTopType
<1>9. uaf' \in BOOLEAN /\ (uaf' <=> (uaf \/ c \notin heap))
  BY <1>6
<1>10. Heard(c, n)
  BY DEF Notify, Heard
<1> QED BY <1>2, <1>5, <1>7, <1>8, <1>9, <1>10

\* The queue's head becomes the visit under way.
LEMMA PopFacts ==
  ASSUME MaxDepth = 1, BrokerIInv, NEW op, Pop(op)
  PROVE  /\ life = "up" /\ life' = "up" /\ MemoryInv /\ TypeOK
         /\ frames # <<>> /\ Cur.act = Idle /\ Cur.run = FALSE
         /\ pending # <<>> /\ Head(pending) \in Action /\ Head(pending).op = op
         /\ pending' = Tail(pending) /\ pending' \in Seq(Action)
         /\ Cur'.act = Head(pending) /\ Cur'.i = 1 /\ Cur'.run = FALSE
         /\ frames' \in Seq(Visiting) /\ Len(frames') <= MaxDepth
         /\ UNCHANGED <<handle, notify, calls, seen, uaf>>
<1>1. life = "up" /\ frames # <<>> /\ ~Top.run /\ Top.act = Idle /\ pending # <<>> /\ Head(pending).op = op
      /\ pending' = Tail(pending) /\ SetTop(Frame(Head(pending), 1, FALSE))
  BY DEF Pop, Working
<1>2. MemoryInv /\ TypeOK
  BY <1>1 DEF BrokerIInv
<1>3. Top = Cur /\ Cur \in Visiting
  BY <1>1, <1>2, FrameFacts
<1>4. Cur.run = FALSE
  BY <1>1, <1>3, VisitingFacts
<1>5. pending \in Seq(Action) /\ QueueInv
  BY <1>2 DEF TypeOK, MemoryInv
<1>6. Head(pending) \in Action /\ pending' \in Seq(Action)
  BY <1>1, <1>5, PopQueue
<1>7. /\ Frame(Head(pending), 1, FALSE) \in Visiting /\ Frame(Head(pending), 1, FALSE).act = Head(pending)
      /\ Frame(Head(pending), 1, FALSE).i = 1 /\ Frame(Head(pending), 1, FALSE).run = FALSE
  BY <1>6 DEF Frame, Visiting
<1>8. Cur' = Frame(Head(pending), 1, FALSE)
  BY <1>1, <1>2, SetTopFacts
<1>9. frames' \in Seq(Visiting) /\ Len(frames') <= MaxDepth
  BY <1>1, <1>2, <1>7, SetTopType
<1>10. UNCHANGED <<handle, life, notify, calls, seen, uaf>>
  BY DEF Pop, apiVars
<1> QED BY <1>1, <1>2, <1>3, <1>4, <1>6, <1>7, <1>8, <1>9, <1>10

\* Popping keeps the types.
LEMMA VisitTypes ==
  ASSUME MaxDepth = 1, BrokerIInv, Visit
  PROVE  TypeOK'
<1>0. TypeOK /\ (life = "up" => Distinct(producers) /\ Distinct(consumers) /\ \A p \in Producers : Distinct(subs[p]))
  BY DEF BrokerIInv, MemoryInv, SubsInv
<1>t. /\ producers \in Seq(Producers) /\ consumers \in Seq(Consumers) /\ subs \in [Producers -> Seq(Consumers)]
      /\ heap \subseteq Ids
  BY <1>0 DEF TypeOK
<1>1. ASSUME NEW op, Pop(op), producers' \in Seq(Producers), consumers' \in Seq(Consumers),
             subs' \in [Producers -> Seq(Consumers)], heap' \subseteq Ids
      PROVE  TypeOK'
  <2>1. /\ frames' \in Seq(Visiting) /\ Len(frames') <= MaxDepth /\ pending' \in Seq(Action) /\ life' = life
        /\ UNCHANGED <<handle, notify, calls, seen, uaf>>
    BY <1>1, PopFacts
  <2> QED BY <1>0, <1>1, <2>1 DEF TypeOK
<1>2. CASE VisitInitProducer
  <2>1. Pop("InitProducer") /\ UNCHANGED <<consumers, heap, subs>> /\ producers' = Append(producers, Head(pending).p)
    BY <1>2 DEF VisitInitProducer
  <2>2. Head(pending).p \in Producers
    BY <2>1, PopFacts, ActionFacts
  <2>3. producers' \in Seq(Producers)
    BY <1>t, <2>1, <2>2, AppendProperties
  <2> QED BY <1>t, <1>1, <2>1, <2>3
<1>3. CASE VisitPublish
  <2>1. Pop("Publish") /\ UNCHANGED <<producers, consumers, heap, subs>>
    BY <1>3 DEF VisitPublish
  <2> QED BY <1>t, <1>1, <2>1
<1>4. CASE VisitDestroyProducer
  <2>1. Pop("DestroyProducer") /\ UNCHANGED <<consumers, heap, subs>> /\ producers' = RemoveFirst(producers, Head(pending).p)
    BY <1>4 DEF VisitDestroyProducer
  <2>2. Distinct(producers)
    BY <1>0, <2>1, PopFacts
  <2>3. producers' \in Seq(Producers)
    BY <1>t, <2>1, <2>2, RemoveFirstDistinct
  <2> QED BY <1>t, <1>1, <2>1, <2>3
<1>5. CASE VisitInitConsumer
  <2>1. Pop("InitConsumer") /\ UNCHANGED <<producers, heap, subs>> /\ consumers' = Append(consumers, Head(pending).c)
    BY <1>5 DEF VisitInitConsumer
  <2>2. Head(pending).c \in Consumers
    BY <2>1, PopFacts, ActionFacts
  <2>3. consumers' \in Seq(Consumers)
    BY <1>t, <2>1, <2>2, AppendProperties
  <2> QED BY <1>t, <1>1, <2>1, <2>3
<1>6. CASE VisitDestroyConsumer
  <2> DEFINE c == Head(pending).c
  <2>1. /\ Pop("DestroyConsumer") /\ UNCHANGED producers
        /\ consumers' = RemoveFirst(consumers, c) /\ heap' = heap \ {c}
        /\ subs' = [p \in Producers |-> IF Contains(producers, p) THEN RemoveFirst(subs[p], c) ELSE subs[p]]
    BY <1>6 DEF VisitDestroyConsumer, Deallocate, MaybeRemove
  <2>2. Distinct(consumers) /\ \A p \in Producers : Distinct(subs[p])
    BY <1>0, <2>1, PopFacts
  <2> HIDE DEF c
  <2>3. consumers' \in Seq(Consumers)
    BY <1>t, <2>1, <2>2, RemoveFirstDistinct
  <2>4. \A p \in Producers : RemoveFirst(subs[p], c) \in Seq(Consumers)
    BY <1>t, <2>2, RemoveFirstDistinct
  <2>5. subs' \in [Producers -> Seq(Consumers)]
    BY <1>t, <2>1, <2>4
  <2> QED BY <1>t, <1>1, <2>1, <2>3, <2>5
<1> QED BY <1>2, <1>3, <1>4, <1>5, <1>6 DEF Visit

\* A turn of a loop: which handler is called, if any.
LEMMA TurnFacts ==
  ASSUME MaxDepth = 1, BrokerIInv, NEW ops, InLoop(ops),
         ops \subseteq {"InitProducer", "InitConsumer", "Publish", "DestroyProducer"}
  PROVE  /\ life = "up" /\ MemoryInv /\ TypeOK /\ frames # <<>> /\ Top = Cur /\ Cur \in Visiting
         /\ Cur.run = FALSE /\ Cur.act \in Action /\ Cur.act.op \in ops
         /\ Cur.i \in Nat \ {0} /\ Cur.i <= Len(Loop(Cur.act))
<1>1. life = "up" /\ frames # <<>> /\ ~Top.run /\ Top.act.op \in ops /\ Top.i <= Len(Loop(Top.act))
  BY DEF InLoop, Working
<1>2. MemoryInv /\ TypeOK
  BY <1>1 DEF BrokerIInv
<1>3. Top = Cur /\ Cur \in Visiting
  BY <1>1, <1>2, FrameFacts
<1>4. Cur.run = FALSE /\ Cur.act \in Action \cup {Idle} /\ Cur.i \in Nat
  BY <1>1, <1>3, VisitingFacts
<1>5. Cur.act # Idle
  BY <1>1, <1>3, IdleFacts
<1>6. Cur.i >= 1
  BY <1>2 DEF MemoryInv, VisitInv
<1> QED BY <1>1, <1>2, <1>3, <1>4, <1>5, <1>6

\* A turn of the loops of publish and ~ProducerImpl.
LEMMA NotifyTurn ==
  ASSUME MaxDepth = 1, BrokerIInv, NotifyEvent \/ NotifyStop
  PROVE  /\ TypeOK' /\ life = "up" /\ MemoryInv
         /\ Cur'.act = Cur.act /\ Cur'.i = Cur.i + 1 /\ Cur.i \in Nat
         /\ Cur.act.op \in {"Publish", "DestroyProducer"}
         /\ UNCHANGED <<handle, life, producers, consumers, pending, heap, subs, notify, calls>>
         /\ \E c \in Range(subs[Cur.act.p]) :
              /\ c \in Consumers /\ (uaf' <=> (uaf \/ c \notin heap))
              /\ Cur.i \in DOMAIN subs[Cur.act.p] /\ c = subs[Cur.act.p][Cur.i]
              /\ Heard(c, IF Cur.act.op = "Publish" THEN Event(Cur.act.p, Cur.act.ev) ELSE Stop(Cur.act.p))
<1>1. /\ Cur.act \in Action /\ Cur.act.op \in {"Publish", "DestroyProducer"}
      /\ life = "up" /\ MemoryInv /\ TypeOK /\ frames # <<>> /\ Top = Cur /\ Cur.i \in Nat \ {0}
      /\ Cur.i <= Len(Loop(Cur.act))
  <2>1. CASE NotifyEvent
    BY <2>1, TurnFacts DEF NotifyEvent
  <2>2. CASE NotifyStop
    BY <2>2, TurnFacts DEF NotifyStop
  <2> QED BY <2>1, <2>2
<1> DEFINE c == Loop(Cur.act)[Cur.i]
<1>2. /\ c \in Range(subs[Cur.act.p]) /\ c \in Consumers
      /\ Cur.i \in DOMAIN subs[Cur.act.p] /\ c = subs[Cur.act.p][Cur.i]
  BY <1>1, LoopFacts
<1> DEFINE m == IF Cur.act.op = "Publish" THEN Event(Cur.act.p, Cur.act.ev) ELSE Stop(Cur.act.p)
<1>3. m \in Notification /\ Notify(c, m)
  <2>1. Cur.act.p \in Producers /\ (Cur.act.op = "Publish" => Cur.act.ev \in 1 .. MaxEvents)
    BY <1>1, ActionFacts
  <2>2. CASE NotifyEvent
    <3>1. Cur.act.op = "Publish" /\ Notify(c, Event(Cur.act.p, Cur.act.ev))
      BY <1>1, <2>2 DEF NotifyEvent, InLoop
    <3>2. Event(Cur.act.p, Cur.act.ev) \in Notification
      BY <2>1, <3>1 DEF Notification
    <3> QED BY <3>1, <3>2
  <2>3. CASE NotifyStop
    <3>1. Cur.act.op # "Publish" /\ Notify(c, Stop(Cur.act.p))
      BY <1>1, <2>3 DEF NotifyStop, InLoop
    <3>2. Stop(Cur.act.p) \in Notification
      BY <2>1 DEF Notification
    <3> QED BY <3>1, <3>2
  <2> QED BY <2>2, <2>3
<1>4. UNCHANGED <<handle, life, producers, consumers, pending, heap, subs, notify, calls>>
  BY DEF NotifyEvent, NotifyStop, apiVars, brokerVars, heapVars
<1> HIDE DEF c, m
<1>5. /\ frames' \in Seq(Visiting) /\ Len(frames') <= MaxDepth /\ seen' \in [Consumers -> Seq(Notification)]
      /\ uaf' \in BOOLEAN /\ Cur'.act = Cur.act /\ Cur'.i = Cur.i + 1 /\ (uaf' <=> (uaf \/ c \notin heap))
      /\ Heard(c, m)
  BY <1>1, <1>2, <1>3, NotifyTypes
<1>6. TypeOK'
  BY <1>1, <1>4, <1>5 DEF TypeOK
<1> QED BY <1>1, <1>2, <1>4, <1>5, <1>6 DEF m

\* A turn of the loops that offer a consumer to a producer.
LEMMA MaybeAddTurn ==
  ASSUME MaxDepth = 1, BrokerIInv, MaybeAdd
  PROVE  /\ TypeOK' /\ life = "up" /\ MemoryInv
         /\ Cur'.act = Cur.act /\ Cur'.i = Cur.i + 1 /\ Cur.i \in Nat \ {0}
         /\ UNCHANGED <<handle, life, producers, consumers, pending, heap, notify, calls>>
         /\ \E p \in Producers, c \in Consumers :
              /\ \/ /\ Cur.act.op = "InitProducer" /\ p = Cur.act.p
                    /\ Cur.i \in DOMAIN consumers /\ c = consumers[Cur.i]
                 \/ /\ Cur.act.op = "InitConsumer" /\ c = Cur.act.c
                    /\ Cur.i \in DOMAIN producers /\ p = producers[Cur.i]
              /\ \/ /\ subs' = [subs EXCEPT ![p] = Append(@, c)] /\ (uaf' <=> (uaf \/ c \notin heap))
                    /\ Heard(c, Start(p)) /\ <<p, c>> \in matches
                 \/ subs' = subs /\ uaf' = uaf /\ seen' = seen /\ <<p, c>> \notin matches
<1>1. /\ Cur.act \in Action /\ Cur.act.op \in {"InitProducer", "InitConsumer"} /\ Cur \in Visiting
      /\ life = "up" /\ MemoryInv /\ TypeOK /\ frames # <<>> /\ Top = Cur /\ Cur.i \in Nat \ {0}
      /\ Cur.i <= Len(Loop(Cur.act))
  BY TurnFacts DEF MaybeAdd
<1> DEFINE other == Loop(Cur.act)[Cur.i]
           p == IF Cur.act.op = "InitProducer" THEN Cur.act.p ELSE other
           c == IF Cur.act.op = "InitProducer" THEN other ELSE Cur.act.c
<1>2. /\ p \in Producers /\ c \in Consumers
      /\ \/ /\ Cur.act.op = "InitProducer" /\ p = Cur.act.p
            /\ Cur.i \in DOMAIN consumers /\ c = consumers[Cur.i]
         \/ /\ Cur.act.op = "InitConsumer" /\ c = Cur.act.c
            /\ Cur.i \in DOMAIN producers /\ p = producers[Cur.i]
  BY <1>1, LoopFacts, ActionFacts
<1>3. \/ /\ subs' = [subs EXCEPT ![p] = Append(@, c)] /\ Notify(c, Start(p))
         /\ <<p, c>> \in matches
      \/ /\ SetTop(Frame(Top.act, Top.i + 1, FALSE)) /\ UNCHANGED <<subs, seen, uaf>>
         /\ <<p, c>> \notin matches
  BY <1>1 DEF MaybeAdd, IsMatch
<1>4. UNCHANGED <<handle, life, producers, consumers, pending, heap, notify, calls>>
  BY DEF MaybeAdd, apiVars, brokerVars
<1> HIDE DEF p, c
<1>5. CASE /\ subs' = [subs EXCEPT ![p] = Append(@, c)] /\ Notify(c, Start(p))
           /\ <<p, c>> \in matches
  <2>1. Start(p) \in Notification
    BY <1>2 DEF Notification
  <2>2. /\ frames' \in Seq(Visiting) /\ Len(frames') <= MaxDepth /\ seen' \in [Consumers -> Seq(Notification)]
        /\ uaf' \in BOOLEAN /\ Cur'.act = Cur.act /\ Cur'.i = Cur.i + 1 /\ (uaf' <=> (uaf \/ c \notin heap))
        /\ Heard(c, Start(p))
    BY <1>1, <1>2, <1>5, <2>1, NotifyTypes
  <2>3. subs' \in [Producers -> Seq(Consumers)]
    <3>1. subs \in [Producers -> Seq(Consumers)] /\ subs[p] \in Seq(Consumers)
      BY <1>1, <1>2 DEF TypeOK
    <3>2. Append(subs[p], c) \in Seq(Consumers)
      BY <1>2, <3>1, AppendProperties
    <3> QED BY <1>5, <3>1, <3>2
  <2>4. TypeOK'
    BY <1>1, <1>4, <2>2, <2>3 DEF TypeOK
  <2> QED BY <1>1, <1>2, <1>4, <1>5, <2>2, <2>4
<1>6. CASE /\ SetTop(Frame(Top.act, Top.i + 1, FALSE)) /\ UNCHANGED <<subs, seen, uaf>>
           /\ <<p, c>> \notin matches
  <2> DEFINE f == Frame(Top.act, Top.i + 1, FALSE)
  <2>1. f \in Visiting /\ f.act = Cur.act /\ f.i = Cur.i + 1
    BY <1>1 DEF Frame, Visiting
  <2> HIDE DEF f
  <2>2. SetTop(f)
    BY <1>6 DEF f
  <2>3. Cur' = f /\ frames' \in Seq(Visiting) /\ Len(frames') <= MaxDepth
    BY <1>1, <2>1, <2>2, SetTopFacts, SetTopType
  <2>4. TypeOK'
    BY <1>1, <1>4, <1>6, <2>3 DEF TypeOK
  <2> QED BY <1>1, <1>2, <1>4, <1>6, <2>1, <2>3, <2>4
<1> QED BY <1>3, <1>5, <1>6

\* The end of a visit.
LEMMA EndVisitFacts ==
  ASSUME MaxDepth = 1, BrokerIInv, EndVisit
  PROVE  /\ TypeOK' /\ life = "up" /\ MemoryInv /\ Cur.act \in Action
         /\ Cur'.act = Idle /\ Cur'.i = 1 /\ Cur'.run = FALSE
         /\ UNCHANGED <<handle, life, producers, consumers, pending, notify, calls, seen, uaf>>
         /\ IF Cur.act.op = "DestroyProducer"
              THEN heap' = heap \ {Cur.act.p} /\ subs' = [subs EXCEPT ![Cur.act.p] = <<>>]
              ELSE UNCHANGED <<heap, subs>>
<1>1. /\ life = "up" /\ frames # <<>> /\ Top.act # Idle /\ SetTop(Frame(Idle, 1, FALSE))
      /\ IF Top.act.op = "DestroyProducer"
           THEN heap' = heap \ {Top.act.p} /\ subs' = [subs EXCEPT ![Top.act.p] = <<>>]
           ELSE UNCHANGED <<heap, subs>>
      /\ UNCHANGED <<handle, life, producers, consumers, pending, notify, calls, seen, uaf>>
  BY DEF EndVisit, Working, Deallocate, apiVars, brokerVars
<1>2. MemoryInv /\ TypeOK
  BY <1>1 DEF BrokerIInv
<1>3. Top = Cur /\ Cur \in Visiting
  BY <1>1, <1>2, FrameFacts
<1>4. Cur.act \in Action
  BY <1>1, <1>3, VisitingFacts
<1> DEFINE f == Frame(Idle, 1, FALSE)
<1>5. f \in Visiting /\ f.act = Idle /\ f.i = 1 /\ f.run = FALSE
  BY DEF Frame, Visiting
<1> HIDE DEF f
<1>6. SetTop(f)
  BY <1>1 DEF f
<1>7. Cur' = f /\ frames' \in Seq(Visiting) /\ Len(frames') <= MaxDepth
  BY <1>1, <1>2, <1>5, <1>6, SetTopFacts, SetTopType
<1>8. subs' \in [Producers -> Seq(Consumers)] /\ heap' \subseteq Ids
  <2>1. subs \in [Producers -> Seq(Consumers)] /\ heap \subseteq Ids
    BY <1>2 DEF TypeOK
  <2>2. CASE Top.act.op = "DestroyProducer"
    <3>1. <<>> \in Seq(Consumers)
      BY EmptySeq
    <3>2. subs' = [subs EXCEPT ![Top.act.p] = <<>>] /\ heap' = heap \ {Top.act.p}
      BY <1>1, <2>2
    <3>3. subs' \in [Producers -> Seq(Consumers)]
      BY <2>1, <3>1, <3>2
    <3> QED BY <2>1, <3>2, <3>3
  <2>3. CASE Top.act.op # "DestroyProducer"
    BY <1>1, <2>1, <2>3
  <2> QED BY <2>2, <2>3
<1>9. TypeOK'
  BY <1>1, <1>2, <1>7, <1>8 DEF TypeOK
<1> QED BY <1>1, <1>2, <1>3, <1>4, <1>5, <1>7, <1>9

\* The steps that touch nothing but the stack.
LEMMA StackFacts ==
  ASSUME MaxDepth = 1, BrokerIInv, DoWork \/ DoWorkReturns \/ HandlerReturns \/ HandlerThrows, life' = "up"
  PROVE  /\ TypeOK' /\ life = "up" /\ MemoryInv
         /\ UNCHANGED <<handle, life, producers, consumers, pending, heap, subs, notify, calls, seen, uaf>>
         /\ \/ Cur'.act = Cur.act /\ Cur'.i = Cur.i /\ Cur'.run = FALSE
            \/ /\ Cur'.act = Idle /\ Cur'.i = 1 /\ Cur'.run = FALSE
               /\ Cur.act.op # "DestroyProducer"
<1>1. life = "up" /\ UNCHANGED <<handle, life, producers, consumers, pending, heap, subs, notify, calls, seen, uaf>>
  BY DEF DoWork, DoWorkReturns, HandlerReturns, HandlerThrows, CanCall, Working, apiVars, brokerVars, heapVars
<1>2. MemoryInv /\ TypeOK
  BY <1>1 DEF BrokerIInv
<1> DEFINE g == Frame(Idle, 1, FALSE)
<1>g. g \in Visiting /\ g.act = Idle /\ g.i = 1 /\ g.run = FALSE
  BY DEF Frame, Visiting
<1>e. ASSUME frames' = <<>> PROVE Cur' = g /\ frames' \in Seq(Visiting) /\ Len(frames') <= MaxDepth
  BY <1>e, EmptySeq DEF Cur
<1> HIDE DEF g
<1>3. CASE DoWork
  <2>1. frames' = Append(frames, g) /\ Len(frames) < 1
    BY <1>3 DEF DoWork, g
  <2>2. frames = <<>>
    BY <1>2, <2>1, EmptySeq DEF TypeOK
  <2>3. frames' = <<g>> /\ frames' # <<>> /\ frames'[1] = g
    BY <2>1, <2>2
  <2>4. Cur' = g /\ Cur = g
    BY <2>2, <2>3 DEF Cur, g
  <2>5. TypeOK'
    BY <1>1, <1>2, <1>g, <2>3 DEF TypeOK
  <2> QED BY <1>1, <1>2, <1>g, <2>4, <2>5
<1>4. CASE DoWorkReturns
  <2>1. frames # <<>> /\ frames' = Front(frames) /\ Top.act = Idle
    BY <1>4 DEF DoWorkReturns, Working
  <2>2. frames' = <<>> /\ Cur.act = Idle
    BY <1>2, <2>1, FrameFacts
  <2>3. TypeOK'
    BY <1>1, <1>2, <1>e, <2>2 DEF TypeOK
  <2> QED BY <1>1, <1>2, <1>e, <1>g, <2>2, <2>3, IdleFacts
<1>5. CASE HandlerReturns
  <2> DEFINE f == Frame(Top.act, Top.i, FALSE)
  <2>1. frames # <<>> /\ SetTop(f)
    BY <1>5 DEF HandlerReturns
  <2>2. Top = Cur /\ Cur \in Visiting
    BY <1>2, <2>1, FrameFacts
  <2>3. f \in Visiting /\ f.act = Cur.act /\ f.i = Cur.i /\ f.run = FALSE
    BY <2>2 DEF Frame, Visiting
  <2> HIDE DEF f
  <2>4. Cur' = f /\ frames' \in Seq(Visiting) /\ Len(frames') <= MaxDepth
    BY <1>2, <2>1, <2>3, SetTopFacts, SetTopType
  <2>5. TypeOK'
    BY <1>1, <1>2, <2>4 DEF TypeOK
  <2> QED BY <1>1, <1>2, <2>3, <2>4, <2>5
<1>6. CASE HandlerThrows
  <2>1. frames # <<>> /\ frames' = Front(frames) /\ Top.act.op # "DestroyProducer"
    BY <1>1, <1>6 DEF HandlerThrows
  <2>2. frames' = <<>> /\ Cur.act.op # "DestroyProducer"
    BY <1>2, <2>1, FrameFacts
  <2>3. TypeOK'
    BY <1>1, <1>2, <1>e, <2>2 DEF TypeOK
  <2> QED BY <1>1, <1>2, <1>e, <1>g, <2>2, <2>3
<1> QED BY <1>3, <1>4, <1>5, <1>6

-----------------------------------------------------------------------------
(* The life of a ProducerImpl or ConsumerImpl                               *)

\* The visit under way is a frame, and its target a producer or a consumer.
LEMMA CurFacts ==
  ASSUME TypeOK
  PROVE  Cur \in Visiting /\ (IsDestruction(Cur.act) => Cur.act \in Action /\ Target(Cur.act) \in Ids)
<1>1. Frame(Idle, 1, FALSE) \in Visiting
  BY DEF Frame, Visiting
<1>2. frames \in Seq(Visiting)
  BY DEF TypeOK
<1>3. frames # <<>> => frames[1] \in Visiting
  BY <1>2, EmptySeq
<1>4. Cur \in Visiting
  BY <1>1, <1>3 DEF Cur
<1>5. Cur.act \in Action \cup {Idle}
  BY <1>4, VisitingFacts
<1> QED BY <1>4, <1>5, IdleFacts, ActionFacts

\* An API call queues an action on an object it just made, or one whose handle was open.
LEMMA ApiMemory ==
  ASSUME TypeOK, MemoryInv, NEW a \in Action, NEW x \in Ids, x = Target(a),
         pending' = Append(pending, a), UNCHANGED <<producers, consumers, frames, uaf, subs>>,
         \/ /\ handle[x] = "new" /\ handle' = [handle EXCEPT ![x] = "open"] /\ heap' = heap \cup {x}
            /\ IsCreation(a)
         \/ /\ handle[x] = "open" /\ handle' = [handle EXCEPT ![x] = "closed"] /\ heap' = heap
            /\ IsDestruction(a)
         \/ handle[x] = "open" /\ handle' = handle /\ heap' = heap /\ ~IsCreation(a) /\ ~IsDestruction(a)
  PROVE  MemoryInv'
<1>0. handle \in [Ids -> {"new", "open", "closed"}] /\ ~(IsCreation(a) /\ IsDestruction(a))
  BY ActionFacts DEF TypeOK
<1>1. QueueInv /\ VisitInv /\ (\A y \in Ids : OwnerInv(y)) /\ (\A p \in Producers : SubsInv(p))
  BY DEF MemoryInv
<1>2. pending \in Seq(Action)
  BY DEF TypeOK
<1>3. /\ \A y \in Ids : CreationQueued(y)' <=> CreationQueued(y) \/ (IsCreation(a) /\ x = y)
      /\ \A y \in Ids : DestructionQueued(y)' <=> DestructionQueued(y) \/ (IsDestruction(a) /\ x = y)
      /\ \A y \in Ids : x # y /\ (\A k \in DOMAIN pending : Target(pending[k]) # y)
                          => \A k \in DOMAIN pending' : Target(pending'[k]) # y
      /\ QueueInv /\ ~DestructionQueued(x)
                  /\ (IsCreation(a) => \A k \in DOMAIN pending : Target(pending[k]) # x)
           => QueueInv'
  BY <1>2, EnqueueQueue
<1>4. Cur' = Cur
  BY DEF Cur
<1>5. \A y \in Ids : Registered(y)' <=> Registered(y)
  BY DEF Registered
<1>6. ~DestructionQueued(x) /\ handle[x] # "closed"
  BY <1>0, <1>1 DEF OwnerInv
<1>7. handle[x] = "new" =>
        ~Live(x) /\ ~Registered(x) /\ \A k \in DOMAIN pending : Target(pending[k]) # x
  BY <1>1 DEF OwnerInv, Live
<1>8. QueueInv'
  BY <1>0, <1>1, <1>3, <1>6, <1>7
<1>9. ASSUME NEW y \in Ids, y # x
      PROVE  /\ handle'[y] = handle[y] /\ (y \in heap' <=> y \in heap)
             /\ (DestructionQueued(y)' <=> DestructionQueued(y))
             /\ (CreationQueued(y)' <=> CreationQueued(y))
  BY <1>0, <1>3, <1>9
<1>10. ASSUME NEW y \in Ids, y # x PROVE Live(y)' <=> Live(y)
  BY <1>9, <1>10 DEF Live
<1>11. ASSUME NEW y \in Ids, y # x PROVE OwnerInv(y)'
  BY <1>1, <1>3, <1>4, <1>5, <1>9, <1>10, <1>11 DEF OwnerInv
<1>12. OwnerInv(x)'
  <2>1. CASE handle[x] = "new"
    <3>1. handle'[x] = "open" /\ x \in heap' /\ IsCreation(a) /\ ~IsDestruction(a)
      BY <1>0, <2>1
    <3>2. ~DestructionQueued(x)' /\ CreationQueued(x)' /\ ~Registered(x)'
      BY <1>3, <1>5, <1>6, <1>7, <2>1, <3>1
    <3> QED BY <3>1, <3>2 DEF OwnerInv, Live
  <2>2. CASE handle[x] = "open"
    <3>1. Live(x) /\ x \in heap /\ (Registered(x) <=> ~CreationQueued(x))
      BY <1>1, <2>2 DEF OwnerInv, Live
    <3>2. x \in heap' /\ (CreationQueued(x)' <=> CreationQueued(x))
      BY <1>0, <1>3, <2>2, <3>1
    <3>3. \/ handle'[x] = "closed" /\ DestructionQueued(x)'
          \/ handle'[x] = "open" /\ ~DestructionQueued(x)'
      BY <1>0, <1>3, <1>6, <2>2
    <3> QED BY <1>5, <3>1, <3>2, <3>3 DEF OwnerInv, Live
  <2> QED BY <2>1, <2>2
<1>13. VisitInv'
  <2>1. IsDestruction(Cur.act) => Target(Cur.act) \in Ids /\ Target(Cur.act) # x
    BY <1>1, <1>6, CurFacts DEF VisitInv
  <2>2. \A y \in Ids : y = Target(Cur.act) /\ IsDestruction(Cur.act) => handle'[y] = "closed" /\ ~Live(y)'
    BY <1>1, <1>9, <1>10, <2>1 DEF VisitInv
  <2>3. \A y : Registered(y)' <=> Registered(y)
    BY DEF Registered
  <2>4. heap \subseteq heap'
    OBVIOUS
  <2>5. IsDestruction(Cur.act) => handle'[Target(Cur.act)] = "closed" /\ ~Live(Target(Cur.act))'
    BY <1>4, <2>1, <2>2
  <2> QED BY <1>1, <1>4, <2>3, <2>4, <2>5 DEF VisitInv
<1>14. ASSUME NEW p \in Producers PROVE SubsInv(p)'
  <2>1. p \in Ids
    BY DEF Ids
  <2> QED BY <1>1, <1>4, <1>5, <2>1 DEF SubsInv, Distinct
<1>15. Distinct(producers)' /\ Distinct(consumers)' /\ ~uaf'
  BY DEF MemoryInv, Distinct
<1> QED BY <1>8, <1>11, <1>12, <1>13, <1>14, <1>15 DEF MemoryInv

\* The steps that only move the visit on, or end one that frees nothing.
LEMMA StackMemory ==
  ASSUME TypeOK, MemoryInv, UNCHANGED <<handle, producers, consumers, pending, heap, subs>>, ~uaf',
         Cur.i \in Nat,
         \/ /\ Cur'.act = Cur.act /\ Cur'.i \in {Cur.i, Cur.i + 1}
            /\ Cur'.run => Cur.act.op \in {"InitProducer", "InitConsumer", "Publish", "DestroyProducer"}
         \/ Cur'.act = Idle /\ Cur'.i = 1 /\ Cur'.run = FALSE /\ Cur.act.op # "DestroyProducer"
  PROVE  MemoryInv'
<1>1. QueueInv /\ VisitInv /\ (\A y \in Ids : OwnerInv(y)) /\ (\A p \in Producers : SubsInv(p))
  BY DEF MemoryInv
<1>2. QueueInv'
  BY <1>1 DEF QueueInv
<1>3. \A y : /\ CreationQueued(y)' <=> CreationQueued(y)
             /\ DestructionQueued(y)' <=> DestructionQueued(y)
             /\ Registered(y)' <=> Registered(y)
  BY DEF CreationQueued, DestructionQueued, Registered
<1>4. \A y : Live(y)' <=> Live(y)
  BY <1>3 DEF Live
<1>5. Cur.i >= 1
  BY <1>1 DEF VisitInv
<1>6. \/ Cur'.act = Cur.act
      \/ Cur'.act.op = "Idle" /\ ~IsDestruction(Cur'.act) /\ Cur.act.op # "DestroyProducer"
  BY IdleFacts
<1>7. ASSUME NEW y \in Ids PROVE OwnerInv(y)'
  <2>1. OwnerInv(y)
    BY <1>1
  <2> QED BY <1>3, <1>4, <1>6, <2>1 DEF OwnerInv
<1>8. VisitInv'
  <2>1. Cur'.i >= 1
    BY <1>5
  <2>2. CASE Cur'.act = Cur.act
    <3>1. Target(Cur'.act) = Target(Cur.act)
      BY <2>2
    <3>2. IsDestruction(Cur'.act) => handle'[Target(Cur'.act)] = "closed" /\ ~Live(Target(Cur.act))
      BY <1>1, <2>2, <3>1 DEF VisitInv
    <3>3. \A y : y = Target(Cur.act) /\ ~Live(y) => ~Live(y)'
      BY <1>4
    <3>4. IsDestruction(Cur.act) => ~Live(Target(Cur.act))'
      BY <2>2, <3>2, <3>3
    <3>5. Registered(Target(Cur.act)) => Registered(Target(Cur.act))'
      BY <1>3, <3>1
    <3> QED BY <1>1, <2>1, <2>2, <3>2, <3>4, <3>5 DEF VisitInv
  <2>3. CASE Cur'.act = Idle
    BY <2>1, <2>3, IdleFacts DEF VisitInv
  <2> QED BY <2>2, <2>3
<1>9. ASSUME NEW p \in Producers PROVE SubsInv(p)'
  <2>1. SubsInv(p)
    BY <1>1
  <2>2. CASE Cur'.act = Cur.act /\ Cur'.i \in {Cur.i, Cur.i + 1}
    <3>0. Cur'.i >= Cur.i /\ Cur'.i \in Nat
      BY <2>2
    <3>1. ASSUME NEW j \in Nat, j >= Cur'.i PROVE j >= Cur.i
      BY <3>0, <3>1
    <3>2. DOMAIN producers \subseteq Nat /\ DOMAIN consumers \subseteq Nat
      BY DEF TypeOK
    <3>3. UNCHANGED <<subs, consumers, producers>> /\ Cur'.act = Cur.act
      BY <2>2
    <3>4. /\ Distinct(subs'[p]) /\ Range(subs'[p]) \subseteq Range(consumers')
          /\ subs'[p] # <<>> => Registered(p)' \/ (Cur'.act.op = "DestroyProducer" /\ Cur'.act.p = p)
      BY <1>3, <2>1, <3>3 DEF SubsInv
    <3>5. Cur'.act.op = "InitProducer" /\ Cur'.act.p = p =>
            \A j \in DOMAIN consumers' : j >= Cur'.i => consumers'[j] \notin Range(subs'[p])
      BY <2>1, <3>1, <3>2, <3>3 DEF SubsInv
    <3>6. Cur'.act.op = "InitConsumer" =>
            \A j \in DOMAIN producers' : j >= Cur'.i /\ producers'[j] = p => Cur'.act.c \notin Range(subs'[p])
      BY <2>1, <3>1, <3>2, <3>3 DEF SubsInv
    <3> QED BY <3>4, <3>5, <3>6 DEF SubsInv
  <2>3. CASE Cur'.act = Idle /\ Cur.act.op # "DestroyProducer"
    BY <1>3, <2>1, <2>3, IdleFacts DEF SubsInv, Distinct
  <2>4. \/ Cur'.act = Cur.act /\ Cur'.i \in {Cur.i, Cur.i + 1}
        \/ Cur'.act = Idle /\ Cur.act.op # "DestroyProducer"
    OBVIOUS
  <2> QED BY <2>2, <2>3, <2>4
<1>10. Distinct(producers)' /\ Distinct(consumers)'
  BY DEF MemoryInv, Distinct
<1> QED BY <1>2, <1>7, <1>8, <1>9, <1>10 DEF MemoryInv

\* Before a visit: the head of the queue is on an object that lives, and what is in
\* memory is what lives.
LEMMA PopMemory ==
  ASSUME MaxDepth = 1, BrokerIInv, NEW op, Pop(op), NEW x, x = Target(Head(pending))
  PROVE  /\ x \in Ids /\ x \in heap /\ (Registered(x) <=> ~IsCreation(Head(pending)))
         /\ \A y \in Ids : y \in heap <=> Live(y)
         /\ QueueInv' /\ ~CreationQueued(x)'
         /\ \A y \in Ids : y # x => (CreationQueued(y)' <=> CreationQueued(y)) /\ (Live(y)' <=> Live(y))
         /\ \A y \in Ids : handle[y] # "closed" => ~DestructionQueued(y)'
         /\ \A y \in Ids : ~Live(y) => y # x /\ \A k \in DOMAIN pending' : Target(pending'[k]) # y
         /\ ~IsDestruction(Head(pending)) => Live(x)'
         /\ IsDestruction(Head(pending)) =>
              /\ handle'[x] = "closed" /\ ~Live(x)'
              /\ \A k \in DOMAIN pending' : Target(pending'[k]) # x
         /\ \A p \in Producers : subs[p] # <<>> => Registered(p)
         /\ ~uaf'
<1> DEFINE h == Head(pending)
<1>0. /\ MemoryInv /\ TypeOK /\ Cur.act = Idle /\ pending # <<>> /\ h \in Action
      /\ pending' = Tail(pending) /\ UNCHANGED <<handle, uaf>>
  BY PopFacts
<1>1. QueueInv /\ VisitInv /\ (\A y \in Ids : OwnerInv(y)) /\ (\A p \in Producers : SubsInv(p)) /\ ~uaf
  BY <1>0 DEF MemoryInv
<1>2. pending \in Seq(Action) /\ handle \in [Ids -> {"new", "open", "closed"}]
  BY <1>0 DEF TypeOK
<1>3. /\ QueueInv'
      /\ \A y \in Ids : CreationQueued(y) <=> CreationQueued(y)' \/ (IsCreation(h) /\ x = y)
      /\ \A y \in Ids : DestructionQueued(y) <=> DestructionQueued(y)' \/ (IsDestruction(h) /\ x = y)
      /\ \A y \in Ids : (\A k \in DOMAIN pending : Target(pending[k]) # y)
           => x # y /\ \A k \in DOMAIN pending' : Target(pending'[k]) # y
      /\ \A y \in Ids : y = x => ~CreationQueued(y)'
      /\ IsDestruction(h) => \A k \in DOMAIN pending' : Target(pending'[k]) # x
  BY <1>0, <1>1, <1>2, PopQueue
<1>4. x \in Ids /\ ~(IsCreation(h) /\ IsDestruction(h))
  BY <1>0, ActionFacts
<1> HIDE DEF h
<1>5. \A y \in Ids : y \in heap <=> Live(y)
  BY <1>0, <1>1, IdleFacts DEF OwnerInv
<1>6. \A y \in Ids : ~Live(y) => y # x /\ \A k \in DOMAIN pending' : Target(pending'[k]) # y
  BY <1>1, <1>3 DEF OwnerInv
<1>7. Live(x) /\ ~CreationQueued(x)'
  BY <1>3, <1>4, <1>6
<1>8. Registered(x) <=> ~IsCreation(h)
  BY <1>1, <1>3, <1>4, <1>7 DEF OwnerInv
<1>9. \A y \in Ids : handle[y] # "closed" => ~DestructionQueued(y)'
  BY <1>1, <1>3 DEF OwnerInv
<1>10. \A y \in Ids : y # x => (CreationQueued(y)' <=> CreationQueued(y)) /\ (Live(y)' <=> Live(y))
  BY <1>0, <1>3 DEF Live
<1>11. ~IsDestruction(h) => Live(x)'
  BY <1>0, <1>3, <1>4, <1>7 DEF Live
<1>12. ASSUME IsDestruction(h) PROVE handle'[x] = "closed" /\ ~Live(x)'
  <2>1. DestructionQueued(x)
    BY <1>3, <1>4, <1>12
  <2>2. handle[x] = "closed"
    BY <1>1, <1>4, <2>1 DEF OwnerInv
  <2>3. ~DestructionQueued(x)'
    BY <1>3, <1>12 DEF DestructionQueued
  <2> QED BY <1>0, <2>2, <2>3 DEF Live
<1>13. \A p \in Producers : subs[p] # <<>> => Registered(p)
  BY <1>0, <1>1, IdleFacts DEF SubsInv
<1> QED BY <1>0, <1>1, <1>3, <1>4, <1>5, <1>6, <1>7, <1>8, <1>9, <1>10, <1>11, <1>12, <1>13 DEF h

\* A visit registers or takes out its target: what OwnerInv and VisitInv say of the rest stays.
LEMMA PopOwner ==
  ASSUME MaxDepth = 1, BrokerIInv, NEW op, Pop(op), NEW x, x = Target(Head(pending)),
         \/ /\ ~IsDestruction(Head(pending)) /\ heap' = heap
            /\ \A y \in Ids : Registered(y)' <=> Registered(y) \/ y = x
         \/ /\ op = "DestroyProducer" /\ heap' = heap
            /\ \A y \in Ids : Registered(y)' <=> Registered(y) /\ y # x
         \/ /\ op = "DestroyConsumer" /\ heap' = heap \ {x}
            /\ \A y \in Ids : Registered(y)' <=> Registered(y) /\ y # x
  PROVE  VisitInv' /\ \A y \in Ids : OwnerInv(y)'
<1> DEFINE h == Head(pending)
<1>0. /\ MemoryInv /\ h \in Action /\ h.op = op
      /\ Cur'.act = h /\ Cur'.i = 1 /\ Cur'.run = FALSE /\ UNCHANGED handle
  BY PopFacts
<1>1. \A y \in Ids : OwnerInv(y)
  BY <1>0 DEF MemoryInv
<1>2. /\ x \in Ids /\ x \in heap /\ (Registered(x) <=> ~IsCreation(h))
      /\ \A y \in Ids : y \in heap <=> Live(y)
      /\ ~CreationQueued(x)'
      /\ \A y \in Ids : y # x => (CreationQueued(y)' <=> CreationQueued(y)) /\ (Live(y)' <=> Live(y))
      /\ \A y \in Ids : handle[y] # "closed" => ~DestructionQueued(y)'
      /\ \A y \in Ids : ~Live(y) => y # x /\ \A k \in DOMAIN pending' : Target(pending'[k]) # y
      /\ ~IsDestruction(h) => Live(x)'
      /\ IsDestruction(h) => /\ handle'[x] = "closed" /\ ~Live(x)'
                             /\ \A k \in DOMAIN pending' : Target(pending'[k]) # x
  BY PopMemory
<1>3. /\ op \in {"DestroyProducer", "DestroyConsumer"} <=> IsDestruction(h)
      /\ op = "DestroyProducer" => h.p = x
      /\ h.op \in {"InitProducer", "DestroyProducer", "Publish", "InitConsumer", "DestroyConsumer"}
  BY <1>0, ActionFacts DEF IsDestruction
<1> HIDE DEF h
<1>4. ASSUME NEW y \in Ids, y # x PROVE OwnerInv(y)'
  <2>1. OwnerInv(y)
    BY <1>1
  <2>2. (Registered(y)' <=> Registered(y)) /\ (y \in heap' <=> y \in heap)
    BY <1>4
  <2> QED BY <1>0, <1>2, <1>4, <2>1, <2>2 DEF OwnerInv
<1>5. OwnerInv(x)'
  <2>1. CASE ~IsDestruction(h)
    <3>1. Live(x)' /\ x \in heap' /\ Registered(x)' /\ ~CreationQueued(x)'
      BY <1>2, <1>3, <2>1
    <3> QED BY <1>0, <1>2, <3>1 DEF OwnerInv
  <2>2. CASE IsDestruction(h)
    <3>1. ~Live(x)' /\ handle'[x] = "closed" /\ ~Registered(x)' /\ \A k \in DOMAIN pending' : Target(pending'[k]) # x
      BY <1>2, <1>3, <2>2 DEF h
    <3>2. x \in heap' => Cur'.act.op = "DestroyProducer" /\ Cur'.act.p = x
      BY <1>0, <1>2, <1>3, <2>2 DEF h
    <3> QED BY <3>1, <3>2 DEF OwnerInv
  <2> QED BY <2>1, <2>2
<1>6. VisitInv'
  <2>1. Target(Cur'.act) = x
    BY <1>0 DEF h
  <2>2. Cur'.act.op \in {"InitProducer", "InitConsumer", "Publish"} => Registered(x)'
    BY <1>0, <1>2, <1>3 DEF h
  <2>3. IsDestruction(Cur'.act) => handle'[x] = "closed" /\ ~Live(x)'
    BY <1>0, <1>2
  <2>4. Cur'.act.op = "DestroyProducer" => Cur'.act.p \in heap'
    BY <1>0, <1>2, <1>3 DEF h
  <2>5. \A y : y = Target(Cur'.act) => /\ Registered(y)' <=> Registered(x)'
                                       /\ Live(y)' <=> Live(x)'
    BY <2>1
  <2> QED BY <1>0, <2>1, <2>2, <2>3, <2>4, <2>5 DEF VisitInv
<1> QED BY <1>4, <1>5, <1>6

\* A vector of producers holds no consumer.
LEMMA KindsApart ==
  ASSUME TypeOK
  PROVE  /\ \A p \in Producers : (Registered(p) <=> p \in Range(producers)) /\ p \in Ids /\ p \notin Consumers
         /\ \A c \in Consumers : (Registered(c) <=> c \in Range(consumers)) /\ c \in Ids /\ c \notin Producers
<1>1. producers \in Seq(Producers) /\ consumers \in Seq(Consumers)
  BY DEF TypeOK
<1>2. Range(producers) \subseteq Producers /\ Range(consumers) \subseteq Consumers
  BY <1>1 DEF Range
<1> QED BY <1>2, BrokerAssumption DEF Registered, Ids

\* Registering a producer, whose loop over the consumers has not begun.
LEMMA InitProducerMemory ==
  ASSUME MaxDepth = 1, BrokerIInv, VisitInitProducer PROVE MemoryInv'
<1> DEFINE h == Head(pending)
<1>1. Pop("InitProducer") /\ UNCHANGED <<consumers, heap, subs>> /\ producers' = Append(producers, h.p)
  BY DEF VisitInitProducer
<1>2. /\ MemoryInv /\ TypeOK /\ h \in Action /\ h.op = "InitProducer"
      /\ Cur'.act = h /\ Cur'.i = 1 /\ Cur'.run = FALSE
  BY <1>1, PopFacts
<1>3. h.p \in Producers /\ Target(h) = h.p /\ IsCreation(h) /\ ~IsDestruction(h)
  BY <1>2, ActionFacts DEF IsCreation, IsDestruction
<1>4. PICK x \in Producers : x = h.p
  BY <1>3
<1>5. x = Target(h)
  BY <1>3, <1>4
<1>6. ~Registered(x) /\ QueueInv' /\ ~uaf' /\ \A p \in Producers : subs[p] # <<>> => Registered(p)
  BY <1>1, <1>3, <1>5, PopMemory
<1>7. producers \in Seq(Producers) /\ Distinct(producers) /\ Distinct(consumers) /\ \A p \in Producers : SubsInv(p)
  BY <1>2 DEF TypeOK, MemoryInv
<1>8. x \notin Range(producers)
  BY <1>6 DEF Registered
<1>9. Range(producers') = Range(producers) \cup {x} /\ Distinct(producers')
  BY <1>1, <1>4, <1>7, <1>8, AppendDistinct
<1> HIDE DEF h
<1>10. \A y : Registered(y)' <=> Registered(y) \/ y = x
  BY <1>1, <1>9 DEF Registered
<1>11. VisitInv' /\ \A y \in Ids : OwnerInv(y)'
  BY <1>1, <1>3, <1>5, <1>10, PopOwner DEF h
<1>12. ASSUME NEW p \in Producers PROVE SubsInv(p)'
  <2>1. SubsInv(p) /\ (subs[p] # <<>> => Registered(p))
    BY <1>6, <1>7
  <2>2. p = x => Range(subs[p]) = {}
    BY <1>6 DEF Range
  <2> QED BY <1>1, <1>2, <1>4, <1>10, <2>1, <2>2 DEF SubsInv, Distinct
<1>13. Distinct(consumers)'
  BY <1>1, <1>7 DEF Distinct
<1> QED BY <1>6, <1>9, <1>11, <1>12, <1>13 DEF MemoryInv, Distinct

\* Registering a consumer, whose loop over the producers has not begun.
LEMMA InitConsumerMemory ==
  ASSUME MaxDepth = 1, BrokerIInv, VisitInitConsumer PROVE MemoryInv'
<1> DEFINE h == Head(pending)
<1>1. Pop("InitConsumer") /\ UNCHANGED <<producers, heap, subs>> /\ consumers' = Append(consumers, h.c)
  BY DEF VisitInitConsumer
<1>2. /\ MemoryInv /\ TypeOK /\ h \in Action /\ h.op = "InitConsumer"
      /\ Cur'.act = h /\ Cur'.i = 1 /\ Cur'.run = FALSE
  BY <1>1, PopFacts
<1>3. h.c \in Consumers /\ Target(h) = h.c /\ IsCreation(h) /\ ~IsDestruction(h)
  BY <1>2, ActionFacts DEF IsCreation, IsDestruction
<1>4. PICK x \in Consumers : x = h.c
  BY <1>3
<1>5. x = Target(h)
  BY <1>3, <1>4
<1>6. ~Registered(x) /\ QueueInv' /\ ~uaf' /\ \A p \in Producers : subs[p] # <<>> => Registered(p)
  BY <1>1, <1>3, <1>5, PopMemory
<1>7. consumers \in Seq(Consumers) /\ Distinct(producers) /\ Distinct(consumers) /\ \A p \in Producers : SubsInv(p)
  BY <1>2 DEF TypeOK, MemoryInv
<1>8. x \notin Range(consumers)
  BY <1>6 DEF Registered
<1>9. Range(consumers') = Range(consumers) \cup {x} /\ Distinct(consumers')
  BY <1>1, <1>4, <1>7, <1>8, AppendDistinct
<1> HIDE DEF h
<1>10. \A y : Registered(y)' <=> Registered(y) \/ y = x
  BY <1>1, <1>9 DEF Registered
<1>11. VisitInv' /\ \A y \in Ids : OwnerInv(y)'
  BY <1>1, <1>3, <1>5, <1>10, PopOwner DEF h
<1>12. ASSUME NEW p \in Producers PROVE SubsInv(p)'
  <2>1. SubsInv(p) /\ (subs[p] # <<>> => Registered(p))
    BY <1>6, <1>7
  <2>2. x \notin Range(subs[p]) /\ Range(subs[p]) \subseteq Range(consumers')
    BY <1>8, <1>9, <2>1 DEF SubsInv
  <2> QED BY <1>1, <1>2, <1>4, <1>10, <2>1, <2>2 DEF SubsInv, Distinct
<1>13. Distinct(producers)'
  BY <1>1, <1>7 DEF Distinct
<1> QED BY <1>6, <1>9, <1>11, <1>12, <1>13 DEF MemoryInv, Distinct

\* An event goes to a producer that is registered.
LEMMA PublishMemory ==
  ASSUME MaxDepth = 1, BrokerIInv, VisitPublish PROVE MemoryInv'
<1> DEFINE h == Head(pending)
<1>1. Pop("Publish") /\ UNCHANGED <<producers, consumers, heap, subs>>
  BY DEF VisitPublish
<1>2. /\ MemoryInv /\ TypeOK /\ h \in Action /\ h.op = "Publish" /\ Cur'.act = h
  BY <1>1, PopFacts
<1>3. PICK x : x = Target(h)
  OBVIOUS
<1>4. ~IsCreation(h) /\ ~IsDestruction(h)
  BY <1>2 DEF IsCreation, IsDestruction
<1>5. Registered(x) /\ QueueInv' /\ ~uaf' /\ \A p \in Producers : subs[p] # <<>> => Registered(p)
  BY <1>1, <1>3, <1>4, PopMemory
<1>6. Distinct(producers) /\ Distinct(consumers) /\ \A p \in Producers : SubsInv(p)
  BY <1>2 DEF MemoryInv
<1> HIDE DEF h
<1>7. \A y : Registered(y)' <=> Registered(y) \/ y = x
  BY <1>1, <1>5 DEF Registered
<1>8. VisitInv' /\ \A y \in Ids : OwnerInv(y)'
  BY <1>1, <1>3, <1>4, <1>7, PopOwner DEF h
<1>9. ASSUME NEW p \in Producers PROVE SubsInv(p)'
  <2>1. SubsInv(p) /\ (subs[p] # <<>> => Registered(p))
    BY <1>5, <1>6
  <2> QED BY <1>1, <1>2, <1>7, <2>1 DEF SubsInv, Distinct
<1> QED BY <1>1, <1>5, <1>6, <1>8, <1>9 DEF MemoryInv, Distinct

\* Taking a producer out before ~ProducerImpl runs.
LEMMA DestroyProducerMemory ==
  ASSUME MaxDepth = 1, BrokerIInv, VisitDestroyProducer PROVE MemoryInv'
<1> DEFINE h == Head(pending)
<1>1. Pop("DestroyProducer") /\ UNCHANGED <<consumers, heap, subs>> /\ producers' = RemoveFirst(producers, h.p)
  BY DEF VisitDestroyProducer
<1>2. /\ MemoryInv /\ TypeOK /\ h \in Action /\ h.op = "DestroyProducer"
      /\ Cur'.act = h /\ Cur'.i = 1 /\ Cur'.run = FALSE
  BY <1>1, PopFacts
<1>3. h.p \in Producers /\ Target(h) = h.p /\ ~IsCreation(h) /\ IsDestruction(h)
  BY <1>2, ActionFacts DEF IsCreation, IsDestruction
<1>4. PICK x \in Producers : x = h.p
  BY <1>3
<1>5. x = Target(h)
  BY <1>3, <1>4
<1>6. Registered(x) /\ QueueInv' /\ ~uaf' /\ \A p \in Producers : subs[p] # <<>> => Registered(p)
  BY <1>1, <1>3, <1>5, PopMemory
<1>7. producers \in Seq(Producers) /\ Distinct(producers) /\ Distinct(consumers) /\ \A p \in Producers : SubsInv(p)
  BY <1>2 DEF TypeOK, MemoryInv
<1>8. x \notin Range(consumers)
  <2>1. consumers \in Seq(Consumers) /\ x \notin Consumers
    BY <1>2, <1>4, BrokerAssumption DEF TypeOK
  <2> QED BY <2>1 DEF Range
<1>9. Range(producers') = Range(producers) \ {x} /\ Distinct(producers')
  BY <1>1, <1>4, <1>7, RemoveFirstDistinct
<1> HIDE DEF h
<1>10. \A y : Registered(y)' <=> Registered(y) /\ y # x
  BY <1>1, <1>8, <1>9 DEF Registered
<1>11. VisitInv' /\ \A y \in Ids : OwnerInv(y)'
  BY <1>1, <1>3, <1>5, <1>10, PopOwner DEF h
<1>12. ASSUME NEW p \in Producers PROVE SubsInv(p)'
  <2>1. SubsInv(p) /\ (subs[p] # <<>> => Registered(p))
    BY <1>6, <1>7
  <2> QED BY <1>1, <1>2, <1>4, <1>10, <2>1 DEF SubsInv, Distinct
<1>13. Distinct(consumers)'
  BY <1>1, <1>7 DEF Distinct
<1> QED BY <1>6, <1>9, <1>11, <1>12, <1>13 DEF MemoryInv, Distinct

\* A consumer leaves the broker's vector and every producer's.
LEMMA DestroyConsumerMemory ==
  ASSUME MaxDepth = 1, BrokerIInv, VisitDestroyConsumer PROVE MemoryInv'
<1> DEFINE h == Head(pending)
<1>1. /\ Pop("DestroyConsumer") /\ UNCHANGED producers
      /\ consumers' = RemoveFirst(consumers, h.c) /\ heap' = heap \ {h.c}
      /\ subs' = [p \in Producers |-> IF Contains(producers, p) THEN RemoveFirst(subs[p], h.c) ELSE subs[p]]
  BY DEF VisitDestroyConsumer, Deallocate, MaybeRemove
<1>2. /\ MemoryInv /\ TypeOK /\ h \in Action /\ h.op = "DestroyConsumer"
      /\ Cur'.act = h /\ Cur'.i = 1 /\ Cur'.run = FALSE
  BY <1>1, PopFacts
<1>3. h.c \in Consumers /\ Target(h) = h.c /\ ~IsCreation(h) /\ IsDestruction(h)
  BY <1>2, ActionFacts DEF IsCreation, IsDestruction
<1>4. PICK x \in Consumers : x = h.c
  BY <1>3
<1>5. x = Target(h)
  BY <1>3, <1>4
<1>6. Registered(x) /\ QueueInv' /\ ~uaf' /\ \A p \in Producers : subs[p] # <<>> => Registered(p)
  BY <1>1, <1>3, <1>5, PopMemory
<1>7. /\ producers \in Seq(Producers) /\ consumers \in Seq(Consumers) /\ subs \in [Producers -> Seq(Consumers)]
      /\ Distinct(producers) /\ Distinct(consumers) /\ \A p \in Producers : SubsInv(p)
  BY <1>2 DEF TypeOK, MemoryInv
<1>8. x \notin Range(producers)
  <2>1. x \notin Producers
    BY <1>4, BrokerAssumption
  <2> QED BY <1>7, <2>1 DEF Range
<1> HIDE DEF h
<1>9. Range(consumers') = Range(consumers) \ {x} /\ Distinct(consumers')
  BY <1>1, <1>4, <1>7, RemoveFirstDistinct
<1>10. \A y : Registered(y)' <=> Registered(y) /\ y # x
  BY <1>1, <1>8, <1>9 DEF Registered
<1>11. VisitInv' /\ \A y \in Ids : OwnerInv(y)'
  BY <1>1, <1>3, <1>4, <1>5, <1>10, PopOwner DEF h
<1>12. ASSUME NEW p \in Producers PROVE SubsInv(p)'
  <2>1. SubsInv(p) /\ (subs[p] # <<>> => Registered(p)) /\ subs[p] \in Seq(Consumers)
    BY <1>6, <1>7
  <2>2. Distinct(subs[p]) /\ Range(subs[p]) \subseteq Range(consumers)
    BY <2>1 DEF SubsInv
  <2>3. Registered(p) <=> Contains(producers, p)
    <3>1. Registered(p) <=> p \in Range(producers)
      BY <1>2, KindsApart
    <3>2. DOMAIN producers = 1 .. Len(producers)
      BY <1>7
    <3> QED BY <3>1, <3>2 DEF Contains, Range
  <2>4. Registered(p)' <=> Registered(p)
    <3>1. p # x
      BY <1>4, BrokerAssumption
    <3> QED BY <1>10, <3>1
  <2>5. Distinct(subs'[p]) /\ Range(subs'[p]) \subseteq Range(consumers') /\ (subs'[p] # <<>> => Registered(p))
    <3>1. CASE Registered(p)
      <4>1. subs'[p] = RemoveFirst(subs[p], x)
        BY <1>1, <1>4, <2>3, <3>1
      <4>2. Distinct(subs'[p]) /\ Range(subs'[p]) = Range(subs[p]) \ {x}
        BY <2>1, <2>2, <4>1, RemoveFirstDistinct
      <4> QED BY <1>9, <2>2, <3>1, <4>2
    <3>2. CASE ~Registered(p)
      <4>1. subs'[p] = subs[p] /\ subs[p] = <<>>
        BY <1>1, <2>1, <2>3, <3>2
      <4>2. Range(<<>>) = {}
        BY DEF Range
      <4> QED BY <2>2, <4>1, <4>2
    <3> QED BY <3>1, <3>2
  <2> QED BY <1>2, <2>4, <2>5 DEF SubsInv, Distinct
<1> QED BY <1>1, <1>6, <1>7, <1>9, <1>11, <1>12 DEF MemoryInv, Distinct

\* What is registered is in memory.
LEMMA RegisteredInHeap ==
  ASSUME MemoryInv, NEW x \in Ids, Registered(x) PROVE x \in heap
BY DEF MemoryInv, OwnerInv

\* maybe_add adds a consumer the producer does not list yet, and one that is in memory.
LEMMA MaybeAddMemory ==
  ASSUME MaxDepth = 1, BrokerIInv, MaybeAdd PROVE MemoryInv'
<1>1. /\ MemoryInv /\ TypeOK
      /\ Cur'.act = Cur.act /\ Cur'.i = Cur.i + 1 /\ Cur.i \in Nat \ {0}
      /\ UNCHANGED <<handle, producers, consumers, pending, heap>>
  BY MaybeAddTurn DEF BrokerIInv
<1>2. PICK p \in Producers, c \in Consumers :
        /\ \/ /\ Cur.act.op = "InitProducer" /\ p = Cur.act.p
              /\ Cur.i \in DOMAIN consumers /\ c = consumers[Cur.i]
           \/ /\ Cur.act.op = "InitConsumer" /\ c = Cur.act.c
              /\ Cur.i \in DOMAIN producers /\ p = producers[Cur.i]
        /\ \/ subs' = [subs EXCEPT ![p] = Append(@, c)] /\ (uaf' <=> (uaf \/ c \notin heap))
           \/ subs' = subs /\ uaf' = uaf
  BY MaybeAddTurn
<1>3. CASE subs' = subs /\ uaf' = uaf
  BY <1>1, <1>2, <1>3, StackMemory DEF MemoryInv
<1>4. CASE subs' = [subs EXCEPT ![p] = Append(@, c)] /\ (uaf' <=> (uaf \/ c \notin heap))
  <2>1. /\ QueueInv /\ VisitInv /\ (\A y \in Ids : OwnerInv(y)) /\ (\A q \in Producers : SubsInv(q))
        /\ Distinct(producers) /\ Distinct(consumers) /\ ~uaf
    BY <1>1 DEF MemoryInv
  <2>t. /\ subs \in [Producers -> Seq(Consumers)] /\ subs[p] \in Seq(Consumers)
        /\ DOMAIN producers \subseteq Nat /\ DOMAIN consumers \subseteq Nat
    BY <1>1 DEF TypeOK
  <2>2. Registered(c)
    <3>1. CASE Cur.act.op = "InitProducer"
      BY <1>2, <3>1 DEF Registered, Range
    <3>2. CASE Cur.act.op = "InitConsumer"
      BY <1>2, <2>1, <3>2 DEF VisitInv, Target
    <3> QED BY <1>2, <3>1, <3>2
  <2>3. Registered(p)
    <3>1. CASE Cur.act.op = "InitProducer"
      BY <1>2, <2>1, <3>1 DEF VisitInv, Target
    <3>2. CASE Cur.act.op = "InitConsumer"
      BY <1>2, <3>2 DEF Registered, Range
    <3> QED BY <1>2, <3>1, <3>2
  <2>4. c \in Range(consumers) /\ c \in heap
    BY <1>1, <2>2, KindsApart, RegisteredInHeap
  <2>5. c \notin Range(subs[p])
    <3>1. Cur.i >= Cur.i
      BY <1>1
    <3>2. SubsInv(p)
      BY <2>1
    <3> QED BY <1>2, <3>1, <3>2 DEF SubsInv
  <2>6. /\ subs'[p] = Append(subs[p], c)
        /\ \A q \in Producers : q # p => subs'[q] = subs[q]
    BY <1>4, <2>t
  <2>7. Distinct(subs[p])
    BY <2>1 DEF SubsInv
  <2>8. Distinct(subs'[p]) /\ Range(subs'[p]) = Range(subs[p]) \cup {c}
    BY <2>t, <2>5, <2>6, <2>7, AppendDistinct
  <2>9. \A y : /\ CreationQueued(y)' <=> CreationQueued(y)
               /\ DestructionQueued(y)' <=> DestructionQueued(y)
               /\ Registered(y)' <=> Registered(y)
    BY <1>1 DEF CreationQueued, DestructionQueued, Registered
  <2>10. \A y : Live(y)' <=> Live(y)
    BY <1>1, <2>9 DEF Live
  <2>11. QueueInv'
    BY <1>1, <2>1 DEF QueueInv
  <2>12. ASSUME NEW y \in Ids PROVE OwnerInv(y)'
    <3>1. OwnerInv(y)
      BY <2>1
    <3> QED BY <1>1, <2>9, <2>10, <3>1 DEF OwnerInv
  <2>13. VisitInv'
    <3>1. Cur'.act.op \in {"InitProducer", "InitConsumer"} /\ ~IsDestruction(Cur'.act)
      BY <1>1, <1>2 DEF IsDestruction
    <3>2. Registered(Target(Cur.act)) /\ Cur'.i >= 1
      BY <1>1, <2>1, <3>1 DEF VisitInv
    <3>3. Registered(Target(Cur.act))'
      BY <1>1, <2>9, <3>2
    <3> QED BY <1>1, <3>1, <3>2, <3>3 DEF VisitInv
  <2>14. ASSUME NEW q \in Producers PROVE SubsInv(q)'
    <3>0. SubsInv(q)
      BY <2>1
    <3>1. /\ Distinct(subs'[q]) /\ Range(subs'[q]) \subseteq Range(consumers')
          /\ subs'[q] # <<>> => Registered(q)' \/ (Cur'.act.op = "DestroyProducer" /\ Cur'.act.p = q)
      <4>1. CASE q = p
        BY <1>1, <2>3, <2>4, <2>8, <2>9, <3>0, <4>1 DEF SubsInv
      <4>2. CASE q # p
        BY <1>1, <2>6, <2>9, <3>0, <4>2 DEF SubsInv
      <4> QED BY <4>1, <4>2
    <3>2. ASSUME Cur.act.op = "InitProducer", Cur.act.p = q,
                 NEW j \in DOMAIN consumers, j >= Cur.i + 1
          PROVE  consumers[j] \notin Range(subs'[q])
      <4>1. q = p /\ Cur.i \in DOMAIN consumers /\ c = consumers[Cur.i]
        BY <1>2, <3>2
      <4>2. j >= Cur.i /\ j # Cur.i
        BY <1>1, <2>t, <3>2
      <4>3. consumers[j] # c
        BY <2>1, <4>1, <4>2 DEF Distinct
      <4>4. consumers[j] \notin Range(subs[q])
        BY <3>0, <3>2, <4>2 DEF SubsInv
      <4> QED BY <2>8, <4>1, <4>3, <4>4
    <3>3. ASSUME Cur.act.op = "InitConsumer",
                 NEW j \in DOMAIN producers, j >= Cur.i + 1, producers[j] = q
          PROVE  Cur.act.c \notin Range(subs'[q])
      <4>1. Cur.i \in DOMAIN producers /\ p = producers[Cur.i]
        BY <1>2, <3>3
      <4>2. j >= Cur.i /\ j # Cur.i
        BY <1>1, <2>t, <3>3
      <4>3. q # p
        BY <2>1, <3>3, <4>1, <4>2 DEF Distinct
      <4> QED BY <2>6, <3>0, <3>3, <4>2, <4>3 DEF SubsInv
    <3> QED BY <1>1, <3>1, <3>2, <3>3 DEF SubsInv
  <2> QED BY <1>1, <1>4, <2>1, <2>4, <2>11, <2>12, <2>13, <2>14 DEF MemoryInv, Distinct
<1> QED BY <1>2, <1>3, <1>4

\* The consumers that the loops of publish and ~ProducerImpl call are in memory.
LEMMA NotifyMemory ==
  ASSUME MaxDepth = 1, BrokerIInv, NotifyEvent \/ NotifyStop PROVE MemoryInv'
<1>1. /\ MemoryInv /\ TypeOK
      /\ Cur'.act = Cur.act /\ Cur'.i = Cur.i + 1 /\ Cur.i \in Nat
      /\ Cur.act.op \in {"Publish", "DestroyProducer"}
      /\ UNCHANGED <<handle, producers, consumers, pending, heap, subs>>
  BY NotifyTurn DEF BrokerIInv
<1>2. PICK c \in Range(subs[Cur.act.p]) : c \in Consumers /\ (uaf' <=> (uaf \/ c \notin heap))
  BY NotifyTurn
<1>3. Cur.act.p \in Producers
  <2>1. Cur.act \in Action \cup {Idle}
    BY <1>1, CurFacts, VisitingFacts
  <2> QED BY <1>1, <2>1, ActionFacts, IdleFacts
<1>4. c \in Range(consumers)
  BY <1>1, <1>2, <1>3 DEF MemoryInv, SubsInv
<1>5. c \in heap
  BY <1>1, <1>2, <1>4, KindsApart, RegisteredInHeap
<1>6. ~uaf'
  BY <1>1, <1>2, <1>5 DEF MemoryInv
<1> QED BY <1>1, <1>6, StackMemory

\* The end of ~ProducerImpl, or of a visit that frees nothing.
LEMMA EndVisitMemory ==
  ASSUME MaxDepth = 1, BrokerIInv, EndVisit PROVE MemoryInv'
<1>1. /\ MemoryInv /\ TypeOK /\ Cur.act \in Action
      /\ Cur'.act = Idle /\ Cur'.i = 1 /\ Cur'.run = FALSE
      /\ UNCHANGED <<handle, producers, consumers, pending, uaf>>
      /\ IF Cur.act.op = "DestroyProducer"
           THEN heap' = heap \ {Cur.act.p} /\ subs' = [subs EXCEPT ![Cur.act.p] = <<>>]
           ELSE UNCHANGED <<heap, subs>>
  BY EndVisitFacts DEF BrokerIInv
<1>2. Cur.i \in Nat
  BY <1>1, CurFacts, VisitingFacts
<1>3. CASE Cur.act.op # "DestroyProducer"
  BY <1>1, <1>2, <1>3, StackMemory DEF MemoryInv
<1>4. CASE Cur.act.op = "DestroyProducer"
  <2>1. PICK p \in Producers : p = Cur.act.p /\ p = Target(Cur.act)
    BY <1>1, <1>4, ActionFacts
  <2>2. /\ QueueInv /\ VisitInv /\ (\A y \in Ids : OwnerInv(y)) /\ (\A q \in Producers : SubsInv(q)) /\ ~uaf
    BY <1>1 DEF MemoryInv
  <2>3. handle[p] = "closed" /\ ~Live(p)
    BY <1>4, <2>1, <2>2 DEF VisitInv, IsDestruction
  <2>4. heap' = heap \ {p} /\ subs' = [subs EXCEPT ![p] = <<>>] /\ subs \in [Producers -> Seq(Consumers)]
    BY <1>1, <1>4, <2>1 DEF TypeOK
  <2>5. \A y : /\ CreationQueued(y)' <=> CreationQueued(y)
               /\ DestructionQueued(y)' <=> DestructionQueued(y)
               /\ Registered(y)' <=> Registered(y)
    BY <1>1 DEF CreationQueued, DestructionQueued, Registered
  <2>6. \A y : Live(y)' <=> Live(y)
    BY <1>1, <2>5 DEF Live
  <2>7. QueueInv'
    BY <1>1, <2>2 DEF QueueInv
  <2>8. ASSUME NEW y \in Ids PROVE OwnerInv(y)'
    <3>1. OwnerInv(y)
      BY <2>2
    <3>2. ~Live(y) => y \notin heap'
      BY <2>1, <2>4, <3>1 DEF OwnerInv
    <3>3. Live(y) => (y \in heap' <=> y \in heap)
      BY <2>3, <2>4
    <3> QED BY <1>1, <2>5, <2>6, <3>1, <3>2, <3>3 DEF OwnerInv
  <2>9. VisitInv'
    BY <1>1, IdleFacts DEF VisitInv
  <2>10. ASSUME NEW q \in Producers PROVE SubsInv(q)'
    <3>1. SubsInv(q)
      BY <2>2
    <3>2. CASE q = p
      <4>1. subs'[q] = <<>> /\ Range(<<>>) = {} /\ Distinct(<<>>)
        BY <2>4, <3>2 DEF Range, Distinct
      <4> QED BY <1>1, <4>1, IdleFacts DEF SubsInv
    <3>3. CASE q # p
      <4>1. subs'[q] = subs[q]
        BY <2>4, <3>3
      <4> QED BY <1>1, <2>1, <2>5, <3>1, <3>3, <4>1, IdleFacts DEF SubsInv
    <3> QED BY <3>2, <3>3
  <2> QED BY <1>1, <2>2, <2>7, <2>8, <2>9, <2>10 DEF MemoryInv, Distinct
<1> QED BY <1>3, <1>4

\* Every call of the API.
LEMMA ApiKeeps ==
  ASSUME BrokerIInv, Api
  PROVE  MemoryInv' /\ SilentInv' /\ life' = "up" /\ life = "up" /\ UNCHANGED <<producers, consumers, subs>>
<1>1. life = "up" /\ life' = life /\ UNCHANGED <<frames, uaf, seen>>
  BY DEF Api, NewProducer, NewConsumer, DropProducer, DropConsumer, PublishEvent, CanCall, apiVars
<1>2. TypeOK /\ MemoryInv /\ SilentInv
  BY <1>1 DEF BrokerIInv
<1>3. /\ handle \in [Ids -> {"new", "open", "closed"}] /\ notify \in [Consumers -> {"user", "noop"}]
      /\ subs \in [Producers -> Seq(Consumers)] /\ pending \in Seq(Action)
  BY <1>2 DEF TypeOK
<1>4. ASSUME NEW p \in Producers, NewProducer(p)
      PROVE  MemoryInv' /\ SilentInv' /\ UNCHANGED <<producers, consumers, subs>>
  <2>1. /\ handle[p] = "new" /\ handle' = [handle EXCEPT ![p] = "open"] /\ heap' = heap \cup {p}
        /\ subs' = [subs EXCEPT ![p] = <<>>] /\ UNCHANGED <<notify, producers, consumers>>
        /\ pending' = Append(pending, InitProducer(p))
    BY <1>4 DEF NewProducer, MakeProducer, NewProducerImpl, Allocate, Enqueue
  <2>2. /\ InitProducer(p) \in Action /\ p = Target(InitProducer(p)) /\ IsCreation(InitProducer(p))
        /\ p \in Ids /\ p \notin Consumers
    BY <1>2, ActionKinds, KindsApart
  <2>3. ~Registered(p)
    BY <1>2, <2>1, <2>2 DEF MemoryInv, OwnerInv, Live
  <2>4. ~(Cur.act.op = "DestroyProducer" /\ Cur.act.p = p)
    BY <1>2, <2>1 DEF MemoryInv, VisitInv, IsDestruction, Target
  <2>5. subs[p] = <<>>
    BY <1>2, <2>3, <2>4 DEF MemoryInv, SubsInv
  <2>6. subs' = subs
    BY <1>3, <2>1, <2>5
  <2>7. MemoryInv'
    BY <1>1, <1>2, <2>1, <2>2, <2>6, ApiMemory
  <2> QED BY <1>2, <1>3, <2>1, <2>2, <2>6, <2>7 DEF SilentInv, Ids
<1>5. ASSUME NEW c \in Consumers, NewConsumer(c)
      PROVE  MemoryInv' /\ SilentInv' /\ UNCHANGED <<producers, consumers, subs>>
  <2>1. /\ handle[c] = "new" /\ handle' = [handle EXCEPT ![c] = "open"] /\ heap' = heap \cup {c}
        /\ notify' = [notify EXCEPT ![c] = "user"] /\ UNCHANGED <<subs, producers, consumers>>
        /\ pending' = Append(pending, InitConsumer(c))
    BY <1>5 DEF NewConsumer, MakeConsumer, NewConsumerImpl, Allocate, Enqueue
  <2>2. /\ InitConsumer(c) \in Action /\ c = Target(InitConsumer(c)) /\ IsCreation(InitConsumer(c))
        /\ c \in Ids
    BY <1>2, ActionKinds, KindsApart
  <2>3. MemoryInv'
    BY <1>1, <1>2, <2>1, <2>2, ApiMemory
  <2> QED BY <1>2, <1>3, <2>1, <2>2, <2>3 DEF SilentInv, Ids
<1>6. ASSUME NEW p \in Producers, DropProducer(p)
      PROVE  MemoryInv' /\ SilentInv' /\ UNCHANGED <<producers, consumers, subs>>
  <2>1. /\ handle[p] = "open" /\ handle' = [handle EXCEPT ![p] = "closed"] /\ heap' = heap
        /\ UNCHANGED <<notify, subs, producers, consumers>>
        /\ pending' = Append(pending, DestroyProducer(p))
    BY <1>6 DEF DropProducer, DestroyProducerCall, Enqueue, heapVars
  <2>2. /\ DestroyProducer(p) \in Action /\ p = Target(DestroyProducer(p)) /\ IsDestruction(DestroyProducer(p))
        /\ p \in Ids /\ p \notin Consumers
    BY <1>2, ActionKinds, KindsApart
  <2>3. MemoryInv'
    BY <1>1, <1>2, <2>1, <2>2, ApiMemory
  <2> QED BY <1>2, <1>3, <2>1, <2>2, <2>3 DEF SilentInv, Ids
<1>7. ASSUME NEW c \in Consumers, DropConsumer(c)
      PROVE  MemoryInv' /\ SilentInv' /\ UNCHANGED <<producers, consumers, subs>>
  <2>1. /\ handle[c] = "open" /\ handle' = [handle EXCEPT ![c] = "closed"] /\ heap' = heap
        /\ notify' = [notify EXCEPT ![c] = "noop"] /\ UNCHANGED <<subs, producers, consumers>>
        /\ pending' = Append(pending, DestroyConsumer(c))
    BY <1>7 DEF DropConsumer, DestroyConsumerCall, Enqueue
  <2>2. /\ DestroyConsumer(c) \in Action /\ c = Target(DestroyConsumer(c)) /\ IsDestruction(DestroyConsumer(c))
        /\ c \in Ids
    BY <1>2, ActionKinds, KindsApart
  <2>3. MemoryInv'
    BY <1>1, <1>2, <2>1, <2>2, ApiMemory
  <2> QED BY <1>2, <1>3, <2>1, <2>2, <2>3 DEF SilentInv, Ids
<1>8. ASSUME NEW p \in Producers, PublishEvent(p)
      PROVE  MemoryInv' /\ SilentInv' /\ UNCHANGED <<producers, consumers, subs>>
  <2>1. Published + 1 \in 1 .. MaxEvents
    BY <1>2, <1>8, PublishedNat, BrokerAssumption DEF PublishEvent
  <2>2. PICK a \in Action : a = Publish(p, Published + 1)
    BY <2>1, ActionKinds
  <2>3. p = Target(a) /\ ~IsCreation(a) /\ ~IsDestruction(a) /\ p \in Ids
    BY <1>2, <2>1, <2>2, ActionKinds, KindsApart
  <2>4. /\ handle[p] = "open" /\ UNCHANGED <<handle, heap, notify, subs, producers, consumers>>
        /\ pending' = Append(pending, a)
    BY <1>8, <2>2 DEF PublishEvent, PublishCall, Enqueue, heapVars, apiVars
  <2>5. MemoryInv'
    BY <1>1, <1>2, <2>3, <2>4, ApiMemory
  <2> QED BY <1>2, <2>4, <2>5 DEF SilentInv
<1> QED BY <1>1, <1>4, <1>5, <1>6, <1>7, <1>8 DEF Api

-----------------------------------------------------------------------------
(* The invariant                                                            *)

\* The initial state: nothing is made, nothing is queued.
LEMMA InitKeeps == Init => BrokerIInv
<1> SUFFICES ASSUME Init PROVE BrokerIInv
  OBVIOUS
<1> USE DEF Init, OldBrokerInit
<1>e. <<>> \in Seq(Action) /\ <<>> \in Seq(Visiting) /\ <<>> \in Seq(Producers) /\ <<>> \in Seq(Consumers)
      /\ <<>> \in Seq(Notification) /\ Len(<<>>) = 0 /\ DOMAIN <<>> = {}
  BY EmptySeq
<1>1. TypeOK
  <2>1. Len(frames) <= MaxDepth
    BY <1>e, BrokerAssumption
  <2> QED BY <1>e, <2>1 DEF TypeOK
<1>2. SilentInv
  BY DEF SilentInv, Ids
<1>3. Cur.act = Idle /\ Cur.i = 1 /\ Cur.run = FALSE
  BY DEF Cur, Frame
<1>4. \A y : ~CreationQueued(y) /\ ~DestructionQueued(y) /\ ~Registered(y)
  BY <1>e DEF CreationQueued, DestructionQueued, Registered, Range
<1>5. \A y \in Ids : OwnerInv(y)
  BY <1>e, <1>4 DEF OwnerInv, Live
<1>6. VisitInv
  <2> HIDE DEF Init, OldBrokerInit
  <2> QED BY <1>3, IdleFacts DEF VisitInv
<1>7. \A p \in Producers : SubsInv(p)
  BY <1>e, <1>3, IdleFacts DEF SubsInv, Range, Distinct
<1>8. QueueInv /\ Distinct(producers) /\ Distinct(consumers)
  BY <1>e DEF QueueInv, Distinct
<1> QED BY <1>1, <1>2, <1>5, <1>6, <1>7, <1>8 DEF BrokerIInv, MemoryInv

\* The end of the process, and of the broker.
LEMMA EndKeeps ==
  ASSUME BrokerIInv, HandlerThrows \/ Teardown, life' # "up" PROVE BrokerIInv'
<1>0. TypeOK /\ SilentInv
  BY DEF BrokerIInv
<1>1. CASE HandlerThrows
  <2>1. /\ life' = "terminated"
        /\ UNCHANGED <<frames, handle, producers, consumers, pending, heap, subs, notify, calls, seen, uaf>>
    BY <1>1 DEF HandlerThrows, brokerVars, heapVars
  <2>2. TypeOK'
    BY <1>0, <2>1 DEF TypeOK
  <2> QED BY <1>0, <2>1, <2>2 DEF BrokerIInv, SilentInv
<1>2. CASE Teardown
  <2>1. /\ life' = "gone" /\ heap' = {} /\ pending' = <<>> /\ producers' = <<>> /\ consumers' = <<>>
        /\ uaf' \in BOOLEAN
        /\ UNCHANGED <<handle, subs, notify, frames, calls, seen>>
    BY <1>2 DEF Teardown
  <2>2. <<>> \in Seq(Action) /\ <<>> \in Seq(Producers) /\ <<>> \in Seq(Consumers)
    BY EmptySeq
  <2>3. TypeOK'
    BY <1>0, <2>1, <2>2 DEF TypeOK
  <2> QED BY <1>0, <2>1, <2>3 DEF BrokerIInv, SilentInv
<1> QED BY <1>1, <1>2

\* Every step keeps the invariant.
LEMMA NextKeeps ==
  ASSUME MaxDepth = 1, BrokerIInv, [Next]_vars PROVE BrokerIInv'
<1>0. TypeOK /\ SilentInv
  BY DEF BrokerIInv
<1>s. ASSUME UNCHANGED <<handle, notify>>, TypeOK', MemoryInv' PROVE BrokerIInv'
  BY <1>0, <1>s DEF BrokerIInv, SilentInv
<1>1. CASE Api
  BY <1>0, <1>1, ApiKeeps, ApiTypes DEF BrokerIInv
<1>2. CASE Visit
  <2>1. MemoryInv'
    BY <1>2, InitProducerMemory, InitConsumerMemory, PublishMemory, DestroyProducerMemory,
       DestroyConsumerMemory DEF Visit
  <2>2. UNCHANGED <<handle, notify>>
    BY <1>2 DEF Visit, VisitInitProducer, VisitInitConsumer, VisitPublish, VisitDestroyProducer,
       VisitDestroyConsumer, Pop, apiVars
  <2> QED BY <1>2, <1>s, <2>1, <2>2, VisitTypes
<1>3. CASE MaybeAdd
  BY <1>3, <1>s, MaybeAddTurn, MaybeAddMemory
<1>4. CASE NotifyEvent \/ NotifyStop
  BY <1>4, <1>s, NotifyTurn, NotifyMemory
<1>5. CASE EndVisit
  BY <1>5, <1>s, EndVisitFacts, EndVisitMemory
<1>6. CASE (DoWork \/ DoWorkReturns \/ HandlerReturns \/ HandlerThrows) /\ life' = "up"
  <2>1. /\ TypeOK' /\ MemoryInv
        /\ UNCHANGED <<handle, producers, consumers, pending, heap, subs, notify, uaf>>
        /\ \/ Cur'.act = Cur.act /\ Cur'.i = Cur.i /\ Cur'.run = FALSE
           \/ /\ Cur'.act = Idle /\ Cur'.i = 1 /\ Cur'.run = FALSE
              /\ Cur.act.op # "DestroyProducer"
    BY <1>6, StackFacts
  <2>2. Cur.i \in Nat /\ ~uaf'
    BY <1>0, <2>1, CurFacts, VisitingFacts DEF MemoryInv
  <2>3. MemoryInv'
    BY <1>0, <2>1, <2>2, StackMemory
  <2> QED BY <1>s, <2>1, <2>3
<1>7. CASE (DoWork \/ DoWorkReturns \/ HandlerReturns \/ HandlerThrows) /\ life' # "up"
  <2>1. HandlerThrows
    BY <1>7 DEF DoWork, DoWorkReturns, HandlerReturns, CanCall, Working, apiVars
  <2> QED BY <1>7, <2>1, EndKeeps
<1>8. CASE Teardown
  <2>1. life' # "up"
    BY <1>8 DEF Teardown
  <2> QED BY <1>8, <2>1, EndKeeps
<1>9. CASE UNCHANGED vars
  <2>1. UNCHANGED <<handle, life, producers, consumers, pending, heap, subs, notify, frames, calls, seen, uaf>>
    BY <1>9 DEF vars, apiVars, brokerVars, heapVars
  <2>2. TypeOK'
    BY <1>0, <2>1 DEF TypeOK
  <2>3. CASE life = "up"
    <3>1. MemoryInv /\ Cur.i \in Nat /\ Cur' = Cur
      BY <1>0, <2>1, <2>3, CurFacts, VisitingFacts DEF BrokerIInv, Cur
    <3>2. MemoryInv'
      BY <1>0, <2>1, <3>1, StackMemory DEF MemoryInv, VisitInv
    <3> QED BY <1>s, <2>1, <2>2, <3>2
  <2>4. CASE life # "up"
    BY <1>0, <2>1, <2>2, <2>4 DEF BrokerIInv, SilentInv
  <2> QED BY <2>3, <2>4
<1> QED BY <1>1, <1>2, <1>3, <1>4, <1>5, <1>6, <1>7, <1>8, <1>9 DEF Next, Work

\* The inductive invariant of the broker: QueueInv orders the actions queued on one
\* object, OwnerInv derives from handle and queue whether it is registered and in
\* memory, VisitInv and SubsInv say the same of the visit under way and of the
\* producers' consumer lists.  Handlers may call every part of the API but do_work().
THEOREM BrokerInvariance ==
  ASSUME MaxDepth = 1 PROVE Spec => []BrokerIInv
<1>1. Init => BrokerIInv
  BY InitKeeps
<1>2. BrokerIInv /\ [Next]_vars => BrokerIInv'
  BY NextKeeps
<1> QED BY <1>1, <1>2, PTL DEF Spec

-----------------------------------------------------------------------------
(* What it gives                                                            *)

\* The objects an action points to.
LEMMA TargetsOf ==
  ASSUME NEW a \in Action \cup {Idle}
  PROVE  Targets(a) = IF a = Idle THEN {} ELSE {Target(a)}
<1>1. CASE a = Idle
  BY <1>1, IdleFacts DEF Targets
<1>2. CASE a \in Action
  <2>1. /\ a.op \in {"InitProducer", "DestroyProducer", "Publish", "InitConsumer", "DestroyConsumer"}
        /\ a.op \in {"InitProducer", "DestroyProducer", "Publish"} => Target(a) = a.p
        /\ a.op \in {"InitConsumer", "DestroyConsumer"} => Target(a) = a.c
        /\ a # Idle
    BY <1>2, ActionFacts
  <2> QED BY <2>1 DEF Targets
<1> QED BY <1>1, <1>2

\* No pointer dangles.
LEMMA NothingDangles ==
  ASSUME MaxDepth = 1, BrokerIInv PROVE NoDangling
<1> SUFFICES ASSUME life = "up" PROVE NoDangling
  BY DEF NoDangling
<1>1. TypeOK /\ MemoryInv
  BY DEF BrokerIInv
<1>2. VisitInv /\ (\A y \in Ids : OwnerInv(y)) /\ (\A p \in Producers : SubsInv(p))
  BY <1>1 DEF MemoryInv
<1>3. ASSUME NEW k \in DOMAIN pending PROVE Targets(pending[k]) \subseteq heap
  <2>1. pending[k] \in Action
    BY <1>1 DEF TypeOK
  <2>2. Target(pending[k]) \in Ids /\ pending[k] # Idle
    BY <2>1, ActionFacts
  <2>3. Target(pending[k]) \in heap
    BY <1>2, <2>2 DEF OwnerInv
  <2> QED BY <2>1, <2>2, <2>3, TargetsOf
<1>4. ASSUME NEW k \in DOMAIN frames, frames[k].act.op # "DestroyConsumer"
      PROVE  Targets(frames[k].act) \subseteq heap
  <2>1. frames # <<>>
    BY EmptySeq
  <2>2. frames[k] = Cur /\ Cur \in Visiting
    BY <1>1, <2>1, FrameFacts
  <2>3. Cur.act \in Action \cup {Idle}
    BY <2>2, VisitingFacts
  <2>4. ASSUME Cur.act \in Action PROVE Target(Cur.act) \in heap
    <3>1. /\ Cur.act.op \in {"InitProducer", "DestroyProducer", "Publish", "InitConsumer"}
          /\ Cur.act.op = "DestroyProducer" => Target(Cur.act) = Cur.act.p
          /\ Target(Cur.act) \in Ids
      BY <1>4, <2>2, <2>4, ActionFacts
    <3>2. CASE Cur.act.op = "DestroyProducer"
      BY <1>2, <3>1, <3>2 DEF VisitInv
    <3>3. CASE Cur.act.op # "DestroyProducer"
      BY <1>1, <1>2, <3>1, <3>3, RegisteredInHeap DEF VisitInv
    <3> QED BY <3>2, <3>3
  <2> QED BY <2>2, <2>3, <2>4, TargetsOf
<1>5. Range(producers) \cup Range(consumers) \subseteq heap
  <2>1. producers \in Seq(Producers) /\ consumers \in Seq(Consumers)
    BY <1>1 DEF TypeOK
  <2>2. Range(producers) \cup Range(consumers) \subseteq Ids
    BY <2>1 DEF Range, Ids
  <2> QED BY <1>1, <2>2, RegisteredInHeap DEF Registered
<1>6. ASSUME NEW p \in Producers PROVE Range(subs[p]) \subseteq heap
  BY <1>2, <1>5 DEF SubsInv
<1> QED BY <1>3, <1>4, <1>5, <1>6 DEF NoDangling

\* What a vector without duplicates contains it contains once.
LEMMA FoundOnce ==
  ASSUME NEW s, Distinct(s), NEW x \in Range(s)
  PROVE  Cardinality({k \in DOMAIN s : s[k] = x}) = 1
<1>1. PICK k \in DOMAIN s : s[k] = x
  BY DEF Range
<1>2. {j \in DOMAIN s : s[j] = x} = {k}
  BY <1>1 DEF Distinct
<1> QED BY <1>2, FS_Singleton

\* A destruction finds its target.
LEMMA TargetFound ==
  ASSUME BrokerIInv PROVE DestroyFindsTarget
<1> SUFFICES ASSUME life = "up", pending # <<>> PROVE DestroyFindsTarget
  BY DEF DestroyFindsTarget
<1> DEFINE a == Head(pending)
<1>1. TypeOK /\ MemoryInv
  BY DEF BrokerIInv
<1>2. QueueInv /\ (\A y \in Ids : OwnerInv(y)) /\ Distinct(producers) /\ Distinct(consumers) /\ pending \in Seq(Action)
  BY <1>1 DEF MemoryInv, TypeOK
<1>3. 1 \in DOMAIN pending /\ a = pending[1] /\ a \in Action /\ DOMAIN pending \subseteq Nat \ {0}
  BY <1>2, EmptySeq
<1> HIDE DEF a
<1>4. Target(a) \in Ids /\ Live(Target(a))
  <2>1. Target(a) \in Ids
    BY <1>3, ActionFacts
  <2> QED BY <1>2, <1>3, <2>1 DEF OwnerInv
<1>5. ASSUME IsDestruction(a) PROVE Registered(Target(a))
  <2>1. ~IsCreation(a)
    BY <1>3, <1>5, ActionFacts
  <2>2. ASSUME NEW k \in DOMAIN pending, IsCreation(pending[k]), Target(pending[k]) = Target(a) PROVE FALSE
    <3>1. CASE k = 1
      BY <1>3, <2>1, <2>2, <3>1
    <3>2. CASE k # 1
      <4>1. 1 < k
        BY <1>3, <3>2
      <4> QED BY <1>2, <1>3, <1>5, <2>2, <4>1 DEF QueueInv
    <3> QED BY <3>1, <3>2
  <2>3. ~CreationQueued(Target(a))
    BY <2>2 DEF CreationQueued
  <2> QED BY <1>2, <1>4, <2>3 DEF OwnerInv
<1>6. ASSUME a.op = "DestroyProducer" PROVE Cardinality({k \in DOMAIN producers : producers[k] = a.p}) = 1
  <2>1. IsDestruction(a) /\ Target(a) = a.p /\ a.p \in Producers
    BY <1>3, <1>6, ActionFacts DEF IsDestruction
  <2>2. a.p \in Range(producers)
    BY <1>1, <1>5, <2>1, KindsApart
  <2> QED BY <1>2, <2>2, FoundOnce
<1>7. ASSUME a.op = "DestroyConsumer" PROVE Cardinality({k \in DOMAIN consumers : consumers[k] = a.c}) = 1
  <2>1. IsDestruction(a) /\ Target(a) = a.c /\ a.c \in Consumers
    BY <1>3, <1>7, ActionFacts DEF IsDestruction
  <2>2. a.c \in Range(consumers)
    BY <1>1, <1>5, <2>1, KindsApart
  <2> QED BY <1>2, <2>2, FoundOnce
<1> QED BY <1>6, <1>7 DEF DestroyFindsTarget, a

\* Pointer safety: the raw pointers of the queue, of the visit under way and of the
\* producers' lists point to objects in memory, and the find() of a destroy action
\* finds its target, once (keryx_assert(it != producers.end())).
THEOREM PointerSafety ==
  ASSUME MaxDepth = 1 PROVE Spec => []PointersValid
<1>1. BrokerIInv => PointersValid
  BY NothingDangles, TargetFound DEF PointersValid, BrokerIInv
<1> QED BY <1>1, BrokerInvariance, PTL

\* When do_work() has emptied the queue, nothing leaks: what is in memory is what has
\* an open handle, and all of it is registered.
THEOREM NothingLeaks ==
  ASSUME MaxDepth = 1 PROVE Spec => []NoLeak
<1>1. ASSUME BrokerIInv PROVE NoLeak
  <2> SUFFICES ASSUME life = "up", frames = <<>>, pending = <<>> PROVE NoLeak
    BY DEF NoLeak
  <2>1. TypeOK /\ MemoryInv
    BY <1>1 DEF BrokerIInv
  <2>2. \A y \in Ids : OwnerInv(y)
    BY <2>1 DEF MemoryInv
  <2>3. Cur.act.op # "DestroyProducer"
    BY DEF Cur, Frame, Idle
  <2>4. \A y : ~CreationQueued(y) /\ ~DestructionQueued(y)
    <3>1. DOMAIN pending = {}
      BY EmptySeq
    <3> QED BY <3>1 DEF CreationQueued, DestructionQueued
  <2>5. \A y \in Ids : (y \in heap <=> handle[y] = "open") /\ (y \in heap <=> Registered(y))
    BY <2>2, <2>3, <2>4 DEF OwnerInv, Live
  <2>6. heap \subseteq Ids /\ Range(producers) \cup Range(consumers) \subseteq Ids
    <3>1. heap \subseteq Ids /\ producers \in Seq(Producers) /\ consumers \in Seq(Consumers)
      BY <2>1 DEF TypeOK
    <3> QED BY <3>1 DEF Range, Ids
  <2>7. heap = {x \in Ids : handle[x] = "open"}
    BY <2>5, <2>6
  <2>8. heap = Range(producers) \cup Range(consumers)
    BY <2>5, <2>6 DEF Registered
  <2> QED BY <2>7, <2>8 DEF NoLeak
<1> QED BY <1>1, BrokerInvariance, PTL

\* As long as the broker lives no ConsumerImpl is used after it was freed, whatever
\* the order in which handles are dropped; ~OldBroker alone can do that.
THEOREM NoUseAfterFreeWhileUp ==
  ASSUME MaxDepth = 1 PROVE Spec => []NoUseWhileUp
<1>1. BrokerIInv => NoUseWhileUp
  BY DEF BrokerIInv, MemoryInv, NoUseWhileUp
<1> QED BY <1>1, BrokerInvariance, PTL

\* While a handler runs - and calls the API - the vector that the loop around it
\* ranges over stays as it is: no iterator is invalidated.
THEOREM LoopsSafe ==
  ASSUME MaxDepth = 1 PROVE Spec => LoopsUndisturbed
<1> DEFINE L == \A k \in DOMAIN frames :
                  frames[k].run /\ life' = "up" =>
                    CASE frames[k].act.op = "InitProducer" -> consumers' = consumers
                      [] frames[k].act.op = "InitConsumer" -> producers' = producers
                      [] OTHER -> subs'[frames[k].act.p] = subs[frames[k].act.p]
<1>1. ASSUME BrokerIInv, [Next]_vars PROVE [L]_vars
  <2>1. ASSUME UNCHANGED <<producers, consumers, subs>> PROVE L
    BY <2>1
  <2>2. CASE Api
    BY <1>1, <2>1, <2>2, ApiKeeps
  <2>3. CASE DoWork \/ HandlerReturns \/ HandlerThrows \/ DoWorkReturns
    <3>1. UNCHANGED <<producers, consumers, subs>>
      BY <2>3 DEF DoWork, HandlerReturns, HandlerThrows, DoWorkReturns, brokerVars, heapVars
    <3> QED BY <2>1, <3>1
  <2>4. CASE Teardown
    BY <2>4 DEF Teardown
  <2>5. ASSUME Working PROVE L
    <3>1. frames # <<>> /\ ~Top.run /\ TypeOK
      BY <1>1, <2>5 DEF Working, BrokerIInv
    <3>2. DOMAIN frames = {1} /\ ~frames[1].run
      BY <3>1, FrameFacts
    <3> QED BY <3>2
  <2>6. CASE Visit \/ MaybeAdd \/ NotifyEvent \/ NotifyStop \/ EndVisit
    <3>1. Working
      BY <2>6 DEF Visit, VisitInitProducer, VisitInitConsumer, VisitPublish, VisitDestroyProducer,
         VisitDestroyConsumer, Pop, MaybeAdd, NotifyEvent, NotifyStop, EndVisit, InLoop
    <3> QED BY <2>5, <3>1
  <2> HIDE DEF L
  <2> QED BY <1>1, <2>2, <2>3, <2>4, <2>6 DEF Next, Work
<1> QED BY <1>1, BrokerInvariance, PTL DEF Spec, LoopsUndisturbed

-----------------------------------------------------------------------------
(* Silence, whether or not handlers call do_work()                          *)

\* A step calls at most one handler, and a step other than an API call changes
\* neither a handle nor a consumer's handler.
LEMMA HandlerCalls ==
  ASSUME [Next]_vars
  PROVE  /\ UNCHANGED seen \/ \E c, n : Notify(c, n)
         /\ Api \/ UNCHANGED <<handle, notify>>
<1>1. CASE Api
  BY <1>1 DEF Api, NewProducer, NewConsumer, DropProducer, DropConsumer, PublishEvent
<1>2. CASE DoWork \/ DoWorkReturns \/ HandlerReturns \/ HandlerThrows \/ Teardown
  BY <1>2 DEF DoWork, DoWorkReturns, HandlerReturns, HandlerThrows, Teardown, apiVars, heapVars
<1>3. CASE Visit
  BY <1>3 DEF Visit, VisitInitProducer, VisitInitConsumer, VisitPublish, VisitDestroyProducer,
     VisitDestroyConsumer, Pop, apiVars
<1>4. CASE MaybeAdd
  <2>1. UNCHANGED <<handle, notify>>
    BY <1>4 DEF MaybeAdd, apiVars
  <2>2. UNCHANGED seen \/ \E c, n : Notify(c, n)
    BY <1>4 DEF MaybeAdd
  <2> QED BY <2>1, <2>2
<1>5. CASE NotifyEvent
  BY <1>5 DEF NotifyEvent, apiVars, heapVars
<1>6. CASE NotifyStop
  BY <1>6 DEF NotifyStop, apiVars, heapVars
<1>7. CASE EndVisit
  BY <1>7 DEF EndVisit, apiVars
<1>8. CASE UNCHANGED vars
  BY <1>8 DEF vars, apiVars, heapVars
<1> QED BY <1>1, <1>2, <1>3, <1>4, <1>5, <1>6, <1>7, <1>8 DEF Next, Work

\* destroy_consumer works at once: the user's handler is never called again, whatever
\* is queued or under way.
THEOREM Silence == Spec => SilentOnceDestroyed
<1> DEFINE S == \A c \in Consumers : handle[c] = "closed" => seen'[c] = seen[c]
           I == /\ handle \in [Ids -> {"new", "open", "closed"}] /\ notify \in [Consumers -> {"user", "noop"}]
                /\ DOMAIN seen = Consumers /\ SilentInv
<1>1. Init => I
  BY DEF Init, SilentInv, Ids
<1>2. ASSUME I, [Next]_vars PROVE I' /\ [S]_vars
  <2>0. /\ UNCHANGED seen \/ \E c, n : Notify(c, n)
        /\ Api \/ UNCHANGED <<handle, notify>>
    BY <1>2, HandlerCalls
  <2>1. DOMAIN seen' = Consumers /\ S
    <3>1. CASE UNCHANGED seen
      BY <1>2, <3>1
    <3>2. CASE \E c, n : Notify(c, n)
      <4>1. PICK c, n : Notify(c, n)
        BY <3>2
      <4>2. seen' = IF notify[c] = "user" THEN [seen EXCEPT ![c] = Append(@, n)] ELSE seen
        BY <4>1 DEF Notify
      <4>3. \A d \in Consumers : handle[d] = "closed" => notify[d] # "user"
        BY <1>2 DEF SilentInv
      <4> QED BY <1>2, <4>2, <4>3
    <3> QED BY <2>0, <3>1, <3>2
  <2>2. /\ handle' \in [Ids -> {"new", "open", "closed"}] /\ notify' \in [Consumers -> {"user", "noop"}]
        /\ SilentInv'
    <3>0. Producers \cap Consumers = {} /\ Ids = Producers \cup Consumers
      BY BrokerAssumption DEF Ids
    <3>1. CASE UNCHANGED <<handle, notify>>
      BY <1>2, <3>1 DEF SilentInv
    <3>2. ASSUME NEW p \in Producers, NewProducer(p) \/ DropProducer(p) \/ PublishEvent(p)
          PROVE  /\ handle' \in [Ids -> {"new", "open", "closed"}] /\ notify' \in [Consumers -> {"user", "noop"}]
                 /\ SilentInv'
      <4>1. notify' = notify /\ (handle' = handle \/ \E v \in {"open", "closed"} : handle' = [handle EXCEPT ![p] = v])
        BY <3>2 DEF NewProducer, DropProducer, PublishEvent, MakeProducer, NewProducerImpl,
           DestroyProducerCall, PublishCall, heapVars, apiVars
      <4>2. \A c \in Consumers : handle'[c] = handle[c]
        BY <1>2, <3>0, <4>1
      <4> QED BY <1>2, <4>1, <4>2 DEF SilentInv
    <3>3. ASSUME NEW c \in Consumers, NewConsumer(c) \/ DropConsumer(c)
          PROVE  /\ handle' \in [Ids -> {"new", "open", "closed"}] /\ notify' \in [Consumers -> {"user", "noop"}]
                 /\ SilentInv'
      <4>1. \/ handle' = [handle EXCEPT ![c] = "open"] /\ notify' = [notify EXCEPT ![c] = "user"]
            \/ handle' = [handle EXCEPT ![c] = "closed"] /\ notify' = [notify EXCEPT ![c] = "noop"]
        BY <3>3 DEF NewConsumer, DropConsumer, MakeConsumer, NewConsumerImpl, DestroyConsumerCall
      <4> QED BY <1>2, <3>0, <4>1 DEF SilentInv
    <3> QED BY <2>0, <3>1, <3>2, <3>3 DEF Api
  <2> QED BY <2>1, <2>2
<1> HIDE DEF S
<1>3. Spec => []I
  BY <1>1, <1>2, PTL DEF Spec
<1> QED BY <1>2, <1>3, PTL DEF Spec, SilentOnceDestroyed, S
-----------------------------------------------------------------------------
(* What a consumer hears: proofs that streams are well formed and events   *)
(* in the order of their publication, whatever handlers call - do_work()   *)
(* excepted - and whenever they throw; and that, when they do not throw,   *)
(* consumers hear what the calls owe them and nothing else.                *)

\* What a notification carries.
LEMMA NotificationFacts ==
  /\ \A n \in Notification : /\ n.p \in Producers /\ n.kind \in {"START", "EVENT", "STOP"}
                             /\ n.kind = "EVENT" => n.ev \in 1 .. MaxEvents
  /\ \A p \in Producers : Start(p) \in Notification /\ Start(p).kind = "START" /\ Start(p).p = p
  /\ \A p \in Producers : Stop(p) \in Notification /\ Stop(p).kind = "STOP" /\ Stop(p).p = p
  /\ \A p \in Producers, e \in 1 .. MaxEvents :
       Event(p, e) \in Notification /\ Event(p, e).kind = "EVENT" /\ Event(p, e).p = p /\ Event(p, e).ev = e
<1>1. ASSUME NEW n \in Notification
      PROVE  /\ n.p \in Producers /\ n.kind \in {"START", "EVENT", "STOP"}
             /\ n.kind = "EVENT" => n.ev \in 1 .. MaxEvents
  BY DEF Notification, Start, Stop, Event
<1>2. ASSUME NEW p \in Producers
      PROVE  /\ Start(p) \in Notification /\ Start(p).kind = "START" /\ Start(p).p = p
             /\ Stop(p) \in Notification /\ Stop(p).kind = "STOP" /\ Stop(p).p = p
  BY DEF Notification, Start, Stop
<1>3. ASSUME NEW p \in Producers, NEW e \in 1 .. MaxEvents
      PROVE  Event(p, e) \in Notification /\ Event(p, e).kind = "EVENT" /\ Event(p, e).p = p /\ Event(p, e).ev = e
  BY DEF Notification, Event
<1> QED BY <1>1, <1>2, <1>3

\* A call of publish() takes the next number.
LEMMA PublishedGrows ==
  ASSUME TypeOK, NEW a \in Action, calls' = Append(calls, a)
  PROVE  /\ Published \in Nat
         /\ Published' = IF a.op = "Publish" THEN Published + 1 ELSE Published
<1> DEFINE n == Len(calls)
           P == {k \in DOMAIN calls : calls[k].op = "Publish"}
           Q == {k \in DOMAIN calls' : calls'[k].op = "Publish"}
<1>1. /\ n \in Nat /\ DOMAIN calls = 1 .. n /\ DOMAIN calls' = 1 .. n + 1
      /\ calls'[n + 1] = a /\ \A i \in 1 .. n : calls'[i] = calls[i]
  <2>1. calls \in Seq(Action)
    BY DEF TypeOK
  <2> QED BY <2>1, AppendProperties
<1>2. Published = Cardinality(P) /\ Published' = Cardinality(Q)
  BY DEF Published
<1>3. IsFiniteSet(P)
  <2>1. IsFiniteSet(1 .. n)
    BY <1>1, FS_Interval
  <2> QED BY <1>1, <2>1, FS_Subset
<1> HIDE DEF n
<1>4. Q = IF a.op = "Publish" THEN P \cup {n + 1} ELSE P
  BY <1>1
<1>5. n + 1 \notin P
  BY <1>1
<1> HIDE DEF P, Q
<1>6. Cardinality(P) \in Nat /\ Cardinality(P \cup {n + 1}) = Cardinality(P) + 1
  BY <1>3, <1>5, FS_CardinalityType, FS_AddElement
<1> QED BY <1>2, <1>4, <1>6

-----------------------------------------------------------------------------
(* A notification is received                                               *)

\* What c may be told next: START first, nothing after STOP, events in order.
LEMMA HeardWellFormed ==
  ASSUME TypeOK, StreamsWellFormed, EventsInOrder, NEW c \in Consumers, NEW n \in Notification,
         seen' = [seen EXCEPT ![c] = Append(@, n)],
         n.kind = "START" => \A k \in DOMAIN seen[c] : seen[c][k].p # n.p,
         n.kind # "START" => \E k \in DOMAIN seen[c] : seen[c][k].p = n.p,
         \A k \in DOMAIN seen[c] : seen[c][k].p = n.p => seen[c][k].kind # "STOP",
         n.kind = "EVENT" => \A k \in DOMAIN seen[c] : seen[c][k].kind = "EVENT" => seen[c][k].ev < n.ev
  PROVE  StreamsWellFormed' /\ EventsInOrder'
<1> DEFINE s == seen[c]
           m == Len(s)
           t == seen'[c]
<1>1. seen \in [Consumers -> Seq(Notification)] /\ s \in Seq(Notification)
  BY DEF TypeOK
<1>2. t = Append(s, n) /\ \A d \in Consumers : d # c => seen'[d] = seen[d]
  BY <1>1
<1>3. /\ m \in Nat /\ DOMAIN s = 1 .. m /\ DOMAIN t = 1 .. m + 1 /\ t[m + 1] = n
      /\ \A i \in 1 .. m : t[i] = s[i]
  BY <1>1, <1>2, AppendProperties
<1> HIDE DEF m, s, t
<1>4. ASSUME NEW d \in Consumers, NEW k \in DOMAIN seen'[d]
      PROVE  LET e == seen'[d][k]
                 Before == {j \in 1 .. k - 1 : seen'[d][j].p = e.p}
             IN /\ e.kind = "START" <=> Before = {}
                /\ \A j \in Before : seen'[d][j].kind # "STOP"
                /\ e.kind = "EVENT" => \A j \in Before : seen'[d][j].kind = "EVENT" => seen'[d][j].ev < e.ev
  <2>1. CASE d # c
    BY <1>2, <2>1 DEF StreamsWellFormed
  <2>2. CASE d = c /\ k \in 1 .. m
    <3>1. k \in DOMAIN s /\ t[k] = s[k] /\ \A j \in 1 .. k - 1 : t[j] = s[j]
      BY <1>3, <2>2
    <3>2. {j \in 1 .. k - 1 : t[j].p = t[k].p} = {j \in 1 .. k - 1 : s[j].p = s[k].p}
      BY <3>1
    <3> QED BY <2>2, <3>1, <3>2 DEF StreamsWellFormed, s, t
  <2>3. CASE d = c /\ k = m + 1
    <3>1. t[k] = n /\ k - 1 = m /\ \A j \in 1 .. m : t[j] = s[j]
      BY <1>3, <2>3
    <3>2. {j \in 1 .. k - 1 : t[j].p = t[k].p} = {j \in 1 .. m : s[j].p = n.p}
      BY <3>1
    <3>3. (n.kind = "START" <=> {j \in 1 .. m : s[j].p = n.p} = {})
      BY <1>3 DEF s
    <3>4. ASSUME NEW j \in 1 .. m, s[j].p = n.p
          PROVE  s[j].kind # "STOP" /\ (n.kind = "EVENT" => (s[j].kind = "EVENT" => s[j].ev < n.ev))
      BY <1>3, <3>4 DEF s
    <3> QED BY <2>3, <3>1, <3>2, <3>3, <3>4, SMTT(30) DEF t
  <2>4. d = c => k \in 1 .. m \/ k = m + 1
    BY <1>3 DEF t
  <2> QED BY <2>1, <2>2, <2>3, <2>4
<1>5. StreamsWellFormed'
  BY <1>4 DEF StreamsWellFormed
<1>6. ASSUME NEW d \in Consumers, NEW j \in DOMAIN seen'[d], NEW k \in DOMAIN seen'[d],
             j < k, seen'[d][j].kind = "EVENT", seen'[d][k].kind = "EVENT"
      PROVE  seen'[d][j].ev < seen'[d][k].ev
  <2>1. CASE d # c
    BY <1>2, <1>6, <2>1 DEF EventsInOrder
  <2>2. CASE d = c /\ k \in 1 .. m
    <3>1. j \in 1 .. m /\ t[k] = s[k] /\ t[j] = s[j]
      BY <1>3, <1>6, <2>2 DEF t
    <3> QED BY <1>3, <1>6, <2>2, <3>1 DEF EventsInOrder, s, t
  <2>3. CASE d = c /\ k = m + 1
    <3>1. j \in 1 .. m /\ t[k] = n /\ t[j] = s[j]
      BY <1>3, <1>6, <2>3 DEF t
    <3> QED BY <1>3, <1>6, <2>3, <3>1 DEF s, t
  <2>4. d = c => k \in 1 .. m \/ k = m + 1
    BY <1>3 DEF t
  <2> QED BY <2>1, <2>2, <2>3, <2>4
<1>7. EventsInOrder'
  BY <1>6 DEF EventsInOrder
<1> QED BY <1>5, <1>7

\* A consumer that is told nothing.
LEMMA QuietStream ==
  ASSUME TypeOK, NEW c \in Consumers, NEW p \in Producers, StreamInv(c, p), seen'[c] = seen[c],
         Cur.i \in Nat, Cur'.i \in Nat,
         Gone(p) => Gone(p)',
         handle[c] = "closed" => handle'[c] = "closed",
         c \in Range(subs[p]) => c \in Range(subs'[p]) \/ handle'[c] = "closed" \/ Gone(p)',
         c \in Range(subs'[p]) /\ notify'[c] = "user" => c \in Range(subs[p]) /\ notify[c] = "user",
         Gone(p) /\ Cur'.act.op = "DestroyProducer" /\ Cur'.act.p = p =>
           Cur.act = Cur'.act /\ Cur.i <= Cur'.i /\ subs'[p] = subs[p]
  PROVE  StreamInv(c, p)'
<1>1. (Knows(c, p)' <=> Knows(c, p)) /\ (Stopped(c, p)' <=> Stopped(c, p))
  BY DEF Knows, Stopped
<1>2. DOMAIN subs[p] \subseteq Nat
  BY DEF TypeOK
<1>3. ASSUME Stopped(c, p), Cur'.act.op = "DestroyProducer", Cur'.act.p = p PROVE Passed(p, c)'
  <2>1. Gone(p)
    BY <1>3 DEF StreamInv
  <2>2. Cur.act = Cur'.act /\ Cur.i <= Cur'.i /\ subs'[p] = subs[p]
    BY <1>3, <2>1
  <2>3. Passed(p, c)
    BY <1>3, <2>2 DEF StreamInv
  <2> QED BY <1>2, <2>2, <2>3 DEF Passed
<1> QED BY <1>1, <1>3 DEF StreamInv

\* A consumer that is told n.
LEMMA ToldFacts ==
  ASSUME TypeOK, NEW c \in Consumers, NEW n \in Notification, seen' = [seen EXCEPT ![c] = Append(@, n)]
  PROVE  /\ \A d \in Consumers : d # c => seen'[d] = seen[d]
         /\ \A p \in Producers : Knows(c, p)' <=> Knows(c, p) \/ n.p = p
         /\ \A p \in Producers : Stopped(c, p)' <=> Stopped(c, p) \/ (n.p = p /\ n.kind = "STOP")
         /\ \A k \in DOMAIN seen'[c] : seen'[c][k] = n \/ (k \in DOMAIN seen[c] /\ seen'[c][k] = seen[c][k])
<1> DEFINE m == Len(seen[c])
<1>1. seen \in [Consumers -> Seq(Notification)] /\ seen[c] \in Seq(Notification)
  BY DEF TypeOK
<1>2. seen'[c] = Append(seen[c], n) /\ \A d \in Consumers : d # c => seen'[d] = seen[d]
  BY <1>1
<1>3. /\ m \in Nat /\ DOMAIN seen[c] = 1 .. m /\ DOMAIN seen'[c] = 1 .. m + 1 /\ seen'[c][m + 1] = n
      /\ \A i \in 1 .. m : seen'[c][i] = seen[c][i]
  BY <1>1, <1>2, AppendProperties
<1> HIDE DEF m
<1>4. \A k \in DOMAIN seen'[c] : seen'[c][k] = n \/ (k \in DOMAIN seen[c] /\ seen'[c][k] = seen[c][k])
  BY <1>3
<1>5. \A k \in DOMAIN seen[c] : k \in DOMAIN seen'[c] /\ seen'[c][k] = seen[c][k]
  BY <1>3
<1>6. \E k \in DOMAIN seen'[c] : seen'[c][k] = n
  BY <1>3
<1>7. ASSUME NEW p \in Producers PROVE Knows(c, p)' <=> Knows(c, p) \/ n.p = p
  BY <1>4, <1>5, <1>6 DEF Knows
<1>8. ASSUME NEW p \in Producers PROVE Stopped(c, p)' <=> Stopped(c, p) \/ (n.p = p /\ n.kind = "STOP")
  BY <1>4, <1>5, <1>6 DEF Stopped
<1> QED BY <1>2, <1>4, <1>7, <1>8

\* The facts of the invariant that the steps below start from.
LEMMA StreamFacts ==
  ASSUME StreamsIInv, life = "up"
  PROVE  /\ BrokerIInv /\ TypeOK /\ MemoryInv /\ SilentInv /\ StreamsWellFormed /\ EventsInOrder /\ NumbersInv
         /\ \A c \in Consumers : OrderInv(c)
         /\ \A c \in Consumers, p \in Producers : StreamInv(c, p)
         /\ Cur.i \in Nat /\ Cur \in Visiting /\ Cur.act \in Action \cup {Idle}
         /\ Published \in Nat
         /\ \A c \in Consumers : \A k \in DOMAIN seen[c] :
              seen[c][k] \in Notification /\ (seen[c][k].kind = "EVENT" => seen[c][k].ev \in Int)
         /\ \A k \in DOMAIN pending : pending[k] \in Action /\ (pending[k].op = "Publish" => pending[k].ev \in Int)
         /\ Cur.act.op = "Publish" => Cur.act.ev \in Int /\ Cur.act.p \in Producers
         /\ \A c \in Consumers, p \in Producers : c \in Range(subs[p]) => Registered(c) /\ handle[c] # "new"
<1>1. /\ BrokerIInv /\ TypeOK /\ MemoryInv /\ SilentInv /\ StreamsWellFormed /\ EventsInOrder /\ NumbersInv
      /\ \A c \in Consumers : OrderInv(c)
      /\ \A c \in Consumers, p \in Producers : StreamInv(c, p)
  BY DEF StreamsIInv, BrokerIInv
<1>2. Cur \in Visiting /\ Cur.i \in Nat /\ Cur.act \in Action \cup {Idle}
  BY <1>1, CurFacts, VisitingFacts
<1>3. Published \in Nat
  BY <1>1, PublishedNat
<1>4. seen \in [Consumers -> Seq(Notification)] /\ pending \in Seq(Action)
  BY <1>1 DEF TypeOK
<1>5. ASSUME NEW c \in Consumers, NEW k \in DOMAIN seen[c]
      PROVE  seen[c][k] \in Notification /\ (seen[c][k].kind = "EVENT" => seen[c][k].ev \in Int)
  <2>1. seen[c][k] \in Notification
    BY <1>4
  <2> QED BY <2>1, NotificationFacts
<1>6. ASSUME NEW k \in DOMAIN pending
      PROVE  pending[k] \in Action /\ (pending[k].op = "Publish" => pending[k].ev \in Int)
  <2>1. pending[k] \in Action
    BY <1>4
  <2> QED BY <2>1, ActionFacts
<1>7. Cur.act.op = "Publish" => Cur.act.ev \in Int /\ Cur.act.p \in Producers
  BY <1>2, ActionFacts, IdleFacts
<1>8. ASSUME NEW c \in Consumers, NEW p \in Producers, c \in Range(subs[p]) PROVE Registered(c) /\ handle[c] # "new"
  <2>1. Registered(c)
    BY <1>1, <1>8 DEF MemoryInv, SubsInv, Registered
  <2>2. c \in Ids
    BY DEF Ids
  <2> QED BY <1>1, <2>1, <2>2 DEF MemoryInv, OwnerInv, Live
<1> QED BY <1>1, <1>2, <1>3, <1>5, <1>6, <1>7, <1>8

-----------------------------------------------------------------------------
(* API calls                                                                *)

\* What every call of the API does to handle, queue and notify.
LEMMA ApiFacts ==
  ASSUME TypeOK, Api
  PROVE  \E a \in Action :
           /\ pending' = Append(pending, a) /\ calls' = Append(calls, a)
           /\ handle[Target(a)] # "closed" /\ Target(a) \in Ids
           /\ a.op = "Publish" => a.ev = Published + 1
           /\ UNCHANGED <<seen, frames>>
           /\ \A y \in Ids : handle[y] = "closed" => handle'[y] = "closed"
           /\ \A c \in Consumers : notify'[c] = "user" => notify[c] = "user" \/ handle[c] = "new"
<1>0. /\ handle \in [Ids -> {"new", "open", "closed"}] /\ notify \in [Consumers -> {"user", "noop"}]
      /\ Producers \subseteq Ids /\ Consumers \subseteq Ids
  BY DEF TypeOK, Ids
<1>1. UNCHANGED <<seen, frames>>
  BY DEF Api, NewProducer, NewConsumer, DropProducer, DropConsumer, PublishEvent
<1>2. ASSUME NEW p \in Producers, NewProducer(p) PROVE
        \E a \in Action : /\ pending' = Append(pending, a) /\ calls' = Append(calls, a)
                          /\ a = InitProducer(p) /\ handle[p] = "new"
                          /\ handle' = [handle EXCEPT ![p] = "open"] /\ notify' = notify
  BY <1>2, ActionKinds DEF NewProducer, MakeProducer, NewProducerImpl, Enqueue
<1>3. ASSUME NEW c \in Consumers, NewConsumer(c) PROVE
        \E a \in Action : /\ pending' = Append(pending, a) /\ calls' = Append(calls, a)
                          /\ a = InitConsumer(c) /\ handle[c] = "new"
                          /\ handle' = [handle EXCEPT ![c] = "open"] /\ notify' = [notify EXCEPT ![c] = "user"]
  BY <1>3, ActionKinds DEF NewConsumer, MakeConsumer, NewConsumerImpl, Enqueue
<1>4. ASSUME NEW p \in Producers, DropProducer(p) PROVE
        \E a \in Action : /\ pending' = Append(pending, a) /\ calls' = Append(calls, a)
                          /\ a = DestroyProducer(p) /\ handle[p] = "open"
                          /\ handle' = [handle EXCEPT ![p] = "closed"] /\ notify' = notify
  BY <1>4, ActionKinds DEF DropProducer, DestroyProducerCall, Enqueue, heapVars
<1>5. ASSUME NEW c \in Consumers, DropConsumer(c) PROVE
        \E a \in Action : /\ pending' = Append(pending, a) /\ calls' = Append(calls, a)
                          /\ a = DestroyConsumer(c) /\ handle[c] = "open"
                          /\ handle' = [handle EXCEPT ![c] = "closed"] /\ notify' = [notify EXCEPT ![c] = "noop"]
  BY <1>5, ActionKinds DEF DropConsumer, DestroyConsumerCall, Enqueue
<1>6. ASSUME NEW p \in Producers, PublishEvent(p) PROVE
        \E a \in Action : /\ pending' = Append(pending, a) /\ calls' = Append(calls, a)
                          /\ a.ev = Published + 1 /\ Target(a) = p /\ handle[p] = "open"
                          /\ handle' = handle /\ notify' = notify
  <2>1. Published + 1 \in 1 .. MaxEvents
    BY <1>6, PublishedNat, BrokerAssumption DEF PublishEvent
  <2>2. PICK e \in 1 .. MaxEvents : e = Published + 1
    BY <2>1
  <2>3. Publish(p, e).ev = e
    BY DEF Publish
  <2>4. Enqueue(Publish(p, e)) /\ handle[p] = "open" /\ handle' = handle /\ notify' = notify
    BY <1>6, <2>2 DEF PublishEvent, PublishCall, heapVars, apiVars
  <2> QED BY <2>2, <2>3, <2>4, ActionKinds DEF Enqueue
<1>7. CASE \E p \in Producers : NewProducer(p)
  BY <1>0, <1>1, <1>2, <1>7, ActionKinds
<1>8. CASE \E c \in Consumers : NewConsumer(c)
  BY <1>0, <1>1, <1>3, <1>8, ActionKinds
<1>9. CASE \E p \in Producers : DropProducer(p)
  BY <1>0, <1>1, <1>4, <1>9, ActionKinds
<1>10. CASE \E c \in Consumers : DropConsumer(c)
  BY <1>0, <1>1, <1>5, <1>10, ActionKinds
<1>11. CASE \E p \in Producers : PublishEvent(p)
  BY <1>0, <1>1, <1>6, <1>11
<1> QED BY <1>7, <1>8, <1>9, <1>10, <1>11 DEF Api

\* An API call keeps the streams.
LEMMA ApiStreams ==
  ASSUME StreamsIInv, Api
  PROVE  StreamsIInv'
<1>1. BrokerIInv
  BY DEF StreamsIInv
<1>2. life = "up" /\ life' = "up" /\ BrokerIInv' /\ UNCHANGED subs
  BY <1>1, ApiKeeps, ApiTypes DEF BrokerIInv
<1>3. PICK a \in Action :
           /\ pending' = Append(pending, a) /\ calls' = Append(calls, a)
           /\ handle[Target(a)] # "closed" /\ Target(a) \in Ids
           /\ a.op = "Publish" => a.ev = Published + 1
           /\ UNCHANGED <<seen, frames>>
           /\ \A y \in Ids : handle[y] = "closed" => handle'[y] = "closed"
           /\ \A c \in Consumers : notify'[c] = "user" => notify[c] = "user" \/ handle[c] = "new"
  BY <1>1, ApiFacts DEF BrokerIInv
<1>4. /\ TypeOK /\ StreamsWellFormed /\ EventsInOrder /\ NumbersInv
      /\ \A c \in Consumers : OrderInv(c)
      /\ \A c \in Consumers, p \in Producers : StreamInv(c, p)
      /\ Cur.i \in Nat /\ Published \in Nat
      /\ \A c \in Consumers : \A k \in DOMAIN seen[c] : seen[c][k].kind = "EVENT" => seen[c][k].ev \in Int
      /\ \A k \in DOMAIN pending : pending[k].op = "Publish" => pending[k].ev \in Int
      /\ Cur.act.op = "Publish" => Cur.act.ev \in Int
      /\ \A c \in Consumers, p \in Producers : c \in Range(subs[p]) => handle[c] # "new"
  BY <1>2, StreamFacts
<1>5. StreamsWellFormed' /\ EventsInOrder'
  BY <1>3, <1>4 DEF StreamsWellFormed, EventsInOrder
<1>6. Cur' = Cur
  BY <1>3 DEF Cur
<1>7. ASSUME NEW c \in Consumers, NEW p \in Producers PROVE StreamInv(c, p)'
  <2>1. p \in Ids /\ c \in Ids /\ pending \in Seq(Action)
    BY <1>4 DEF Ids, TypeOK
  <2>2. DestructionQueued(p)' <=> DestructionQueued(p) \/ (IsDestruction(a) /\ Target(a) = p)
    BY <1>3, <2>1, EnqueueQueue
  <2>3. Gone(p) => Gone(p)'
    BY <1>3, <2>1, <2>2 DEF Gone
  <2>4. Cur'.i \in Nat /\ seen'[c] = seen[c] /\ StreamInv(c, p) /\ subs' = subs
    BY <1>2, <1>3, <1>4, <1>6
  <2>5. Cur.i <= Cur'.i
    BY <1>4, <1>6
  <2> QED BY <1>3, <1>4, <1>6, <2>1, <2>3, <2>4, <2>5, QuietStream
<1>8. Published' = IF a.op = "Publish" THEN Published + 1 ELSE Published
  BY <1>3, <1>4, PublishedGrows
<1>9. Published' >= Published /\ Published' \in Nat /\ (a.op = "Publish" => a.ev \in Int /\ a.ev > Published /\ a.ev = Published')
  BY <1>3, <1>4, <1>8
<1> DEFINE m == Len(pending)
<1>10. /\ m \in Nat /\ DOMAIN pending = 1 .. m /\ DOMAIN pending' = 1 .. m + 1 /\ pending'[m + 1] = a
       /\ \A i \in 1 .. m : pending'[i] = pending[i]
  <2>1. pending \in Seq(Action)
    BY <1>4 DEF TypeOK
  <2> QED BY <1>3, <2>1, AppendProperties
<1> HIDE DEF m
<1>11. NumbersInv'
  <2>1. Cur.act.op = "Publish" => Cur.act.ev <= Published /\ Cur.act.ev <= Published'
    BY <1>4, <1>9 DEF NumbersInv
  <2>2. ASSUME NEW k \in 1 .. m + 1, pending'[k].op = "Publish"
        PROVE  /\ pending'[k].ev <= Published'
               /\ \A j \in 1 .. k - 1 : pending'[j].op = "Publish" => pending'[j].ev < pending'[k].ev
               /\ Cur.act.op = "Publish" => Cur.act.ev < pending'[k].ev
    <3>1. CASE k \in 1 .. m
      <4>1. k \in DOMAIN pending /\ pending'[k] = pending[k] /\ \A j \in 1 .. k - 1 : pending'[j] = pending[j]
        BY <1>10, <3>1
      <4>2. /\ pending[k].ev <= Published
            /\ \A j \in 1 .. k - 1 : pending[j].op = "Publish" => pending[j].ev < pending[k].ev
            /\ Cur.act.op = "Publish" => Cur.act.ev < pending[k].ev
            /\ pending[k].ev \in Int
        BY <1>4, <2>2, <4>1 DEF NumbersInv
      <4>3. pending[k].ev <= Published'
        BY <1>4, <1>9, <4>2
      <4> QED BY <4>1, <4>2, <4>3
    <3>2. CASE k = m + 1
      <4>1. pending'[k] = a /\ a.op = "Publish" /\ k - 1 = m /\ \A j \in 1 .. m : j \in DOMAIN pending /\ pending'[j] = pending[j]
        BY <1>10, <2>2, <3>2
      <4>2. \A j \in 1 .. m : pending[j].op = "Publish" => pending[j].ev <= Published /\ pending[j].ev \in Int
        BY <1>4, <4>1 DEF NumbersInv
      <4>3. \A j \in 1 .. m : pending[j].op = "Publish" => pending[j].ev < a.ev
        BY <1>4, <1>9, <4>1, <4>2
      <4>4. Cur.act.op = "Publish" => Cur.act.ev < a.ev
        BY <1>4, <1>9, <2>1, <4>1
      <4> QED BY <1>9, <4>1, <4>3, <4>4
    <3> QED BY <1>10, <3>1, <3>2
  <2> QED BY <1>6, <1>10, <2>1, <2>2 DEF NumbersInv
<1>12. ASSUME NEW c \in Consumers PROVE OrderInv(c)'
  <2> SUFFICES ASSUME NEW k \in DOMAIN seen[c], seen[c][k].kind = "EVENT"
               PROVE  /\ seen[c][k].ev <= Published'
                      /\ \A j \in DOMAIN pending' : pending'[j].op = "Publish" => seen[c][k].ev < pending'[j].ev
                      /\ Cur.act.op = "Publish" => \/ seen[c][k].ev < Cur.act.ev
                                                   \/ seen[c][k].ev = Cur.act.ev /\ Passed(Cur.act.p, c)
    BY <1>2, <1>3, <1>6 DEF OrderInv, Passed
  <2>1. /\ seen[c][k].ev <= Published /\ seen[c][k].ev \in Int
        /\ \A j \in DOMAIN pending : pending[j].op = "Publish" => seen[c][k].ev < pending[j].ev
        /\ Cur.act.op = "Publish" => \/ seen[c][k].ev < Cur.act.ev
                                     \/ seen[c][k].ev = Cur.act.ev /\ Passed(Cur.act.p, c)
    BY <1>4 DEF OrderInv
  <2>2. seen[c][k].ev <= Published' /\ (a.op = "Publish" => seen[c][k].ev < a.ev)
    BY <1>4, <1>9, <2>1
  <2>3. ASSUME NEW j \in 1 .. m + 1, pending'[j].op = "Publish" PROVE seen[c][k].ev < pending'[j].ev
    <3>1. CASE j \in 1 .. m
      BY <1>10, <2>1, <2>3, <3>1
    <3>2. CASE j = m + 1
      BY <1>10, <2>2, <2>3, <3>2
    <3> QED BY <1>10, <3>1, <3>2
  <2> QED BY <1>10, <2>1, <2>2, <2>3
<1> QED BY <1>2, <1>5, <1>7, <1>11, <1>12 DEF StreamsIInv

-----------------------------------------------------------------------------
(* Steps of do_work()                                                       *)

\* Whom a producer lists after the queue's head is popped.
LEMMA VisitSubs ==
  ASSUME MaxDepth = 1, BrokerIInv, Visit, NEW p \in Producers
  PROVE  /\ Range(subs'[p]) \subseteq Range(subs[p])
         /\ \A c \in Consumers : c \in Range(subs[p]) => c \in Range(subs'[p]) \/ handle'[c] = "closed"
<1>1. CASE VisitDestroyConsumer
  <2> DEFINE c == Head(pending).c
  <2>1. /\ Pop("DestroyConsumer")
        /\ subs' = [q \in Producers |-> IF Contains(producers, q) THEN RemoveFirst(subs[q], c) ELSE subs[q]]
    BY <1>1 DEF VisitDestroyConsumer, MaybeRemove
  <2>2. /\ MemoryInv /\ TypeOK /\ Head(pending) \in Action /\ Head(pending).op = "DestroyConsumer"
    BY <2>1, PopFacts
  <2>3. PICK x : x = Target(Head(pending)) /\ x = c
    BY <2>2, ActionFacts
  <2>4. handle'[x] = "closed"
    BY <2>1, <2>2, <2>3, PopMemory DEF IsDestruction
  <2>5. subs[p] \in Seq(Consumers) /\ Distinct(subs[p])
    BY <2>2 DEF TypeOK, MemoryInv, SubsInv
  <2> HIDE DEF c
  <2>6. Range(RemoveFirst(subs[p], c)) = Range(subs[p]) \ {x}
    BY <2>3, <2>5, RemoveFirstDistinct
  <2>7. Range(subs'[p]) = Range(subs[p]) \/ Range(subs'[p]) = Range(subs[p]) \ {x}
    BY <2>1, <2>6
  <2> QED BY <2>1, <2>4, <2>7
<1>2. CASE VisitInitProducer \/ VisitInitConsumer \/ VisitPublish \/ VisitDestroyProducer
  BY <1>2 DEF VisitInitProducer, VisitInitConsumer, VisitPublish, VisitDestroyProducer
<1> QED BY <1>1, <1>2 DEF Visit

\* Popping keeps the streams.
LEMMA VisitStreams ==
  ASSUME MaxDepth = 1, StreamsIInv, BrokerIInv', Visit
  PROVE  StreamsIInv'
<1>0. BrokerIInv
  BY DEF StreamsIInv
<1>1. PICK op : Pop(op)
  BY DEF Visit, VisitInitProducer, VisitInitConsumer, VisitPublish, VisitDestroyProducer, VisitDestroyConsumer
<1> DEFINE h == Head(pending)
<1>2. /\ life = "up" /\ life' = "up" /\ Cur.act = Idle
      /\ pending # <<>> /\ h \in Action
      /\ pending' = Tail(pending)
      /\ Cur'.act = h /\ Cur'.i = 1
      /\ UNCHANGED <<handle, notify, calls, seen>>
  BY <1>0, <1>1, PopFacts
<1>3. /\ TypeOK /\ MemoryInv /\ StreamsWellFormed /\ EventsInOrder /\ NumbersInv
      /\ \A c \in Consumers : OrderInv(c)
      /\ \A c \in Consumers, p \in Producers : StreamInv(c, p)
      /\ Cur.i \in Nat /\ Published \in Nat
      /\ \A c \in Consumers : \A k \in DOMAIN seen[c] : seen[c][k].kind = "EVENT" => seen[c][k].ev \in Int
      /\ \A k \in DOMAIN pending : pending[k].op = "Publish" => pending[k].ev \in Int
  BY <1>2, StreamFacts
<1>4. StreamsWellFormed' /\ EventsInOrder'
  BY <1>2, <1>3, SMTT(30) DEF StreamsWellFormed, EventsInOrder
<1>5. Published' = Published
  BY <1>2 DEF Published
<1> DEFINE m == Len(pending)
<1>6. /\ m \in Nat /\ m >= 1 /\ DOMAIN pending = 1 .. m /\ DOMAIN pending' = 1 .. m - 1
      /\ h = pending[1] /\ \A i \in 1 .. m - 1 : pending'[i] = pending[i + 1]
  <2>1. pending \in Seq(Action)
    BY <1>3 DEF TypeOK
  <2> QED BY <1>2, <2>1, HeadTailProperties
<1> HIDE DEF m, h
<1>7. NumbersInv'
  <2>1. h.op = "Publish" => h.ev <= Published
    BY <1>3, <1>6 DEF NumbersInv
  <2>2. ASSUME NEW k \in 1 .. m - 1, pending'[k].op = "Publish"
        PROVE  /\ pending'[k].ev <= Published
               /\ \A j \in 1 .. k - 1 : pending'[j].op = "Publish" => pending'[j].ev < pending'[k].ev
               /\ h.op = "Publish" => h.ev < pending'[k].ev
    <3>1. k + 1 \in 1 .. m /\ pending'[k] = pending[k + 1] /\ (k + 1) - 1 = k /\ 1 \in 1 .. k
      BY <1>6
    <3>2. \A j \in 1 .. k - 1 : j + 1 \in 1 .. k /\ pending'[j] = pending[j + 1]
      BY <1>6
    <3>3. /\ pending[k + 1].ev <= Published
          /\ \A j \in 1 .. k : pending[j].op = "Publish" => pending[j].ev < pending[k + 1].ev
      BY <1>3, <1>6, <2>2, <3>1 DEF NumbersInv
    <3> QED BY <1>6, <3>1, <3>2, <3>3
  <2> QED BY <1>2, <1>5, <1>6, <2>1, <2>2 DEF NumbersInv
<1>8. ASSUME NEW c \in Consumers PROVE OrderInv(c)'
  <2> SUFFICES ASSUME NEW k \in DOMAIN seen[c], seen[c][k].kind = "EVENT"
               PROVE  /\ seen[c][k].ev <= Published
                      /\ \A j \in DOMAIN pending' : pending'[j].op = "Publish" => seen[c][k].ev < pending'[j].ev
                      /\ h.op = "Publish" => seen[c][k].ev < h.ev
    BY <1>2, <1>5 DEF OrderInv
  <2>1. /\ seen[c][k].ev <= Published
        /\ \A j \in 1 .. m : pending[j].op = "Publish" => seen[c][k].ev < pending[j].ev
    BY <1>3, <1>6 DEF OrderInv
  <2>2. 1 \in 1 .. m /\ \A j \in 1 .. m - 1 : j + 1 \in 1 .. m
    BY <1>6
  <2> QED BY <1>6, <2>1, <2>2
<1>9. ASSUME NEW c \in Consumers, NEW p \in Producers PROVE StreamInv(c, p)'
  <2>0. p \in Ids /\ pending \in Seq(Action) /\ QueueInv
    BY <1>3 DEF Ids, TypeOK, MemoryInv
  <2>1. DestructionQueued(p) <=> DestructionQueued(p)' \/ (IsDestruction(h) /\ Target(h) = p)
    BY <1>2, <2>0, PopQueue DEF h
  <2>2. Gone(p) => Gone(p)'
    BY <1>2, <2>1 DEF Gone
  <2>3. Cur'.act.op = "DestroyProducer" /\ Cur'.act.p = p => ~Gone(p)
    <3>1. h.op = "DestroyProducer" /\ h.p = p => IsDestruction(h) /\ Target(h) = p
      BY DEF IsDestruction, Target
    <3> QED BY <1>2, <2>1, <3>1 DEF Gone
  <2>4. /\ Range(subs'[p]) \subseteq Range(subs[p])
        /\ c \in Range(subs[p]) => c \in Range(subs'[p]) \/ handle'[c] = "closed"
    BY <1>0, VisitSubs
  <2>5. StreamInv(c, p) /\ seen'[c] = seen[c] /\ Cur'.i \in Nat
    BY <1>2, <1>3
  <2> QED BY <1>2, <1>3, <2>2, <2>3, <2>4, <2>5, QuietStream
<1> QED BY <1>2, <1>4, <1>7, <1>8, <1>9 DEF StreamsIInv

\* A turn that tells nobody anything, the end of a visit, a handler that returns or throws:
\* the streams are kept when subs loses nobody but for a producer that is gone, and gains
\* only consumers whose handler is the empty one.
LEMMA QuietTurn ==
  ASSUME StreamsIInv, BrokerIInv', life = "up", life' = "up",
         UNCHANGED <<handle, pending, notify, calls, seen>>,
         \/ Cur'.act = Cur.act /\ Cur'.i \in {Cur.i, Cur.i + 1}
         \/ Cur'.act = Idle /\ Cur'.i = 1,
         \A c \in Consumers, p \in Producers :
           /\ c \in Range(subs[p]) => c \in Range(subs'[p]) \/ Gone(p)
           /\ c \in Range(subs'[p]) /\ notify[c] = "user" => c \in Range(subs[p]),
         Cur'.act.op \in {"Publish", "DestroyProducer"} => subs' = subs
  PROVE  StreamsIInv'
<1>1. /\ TypeOK /\ StreamsWellFormed /\ EventsInOrder /\ NumbersInv
      /\ \A c \in Consumers : OrderInv(c)
      /\ \A c \in Consumers, p \in Producers : StreamInv(c, p)
      /\ Cur.i \in Nat
      /\ \A c \in Consumers : \A k \in DOMAIN seen[c] : seen[c][k].kind = "EVENT" => seen[c][k].ev \in Int
      /\ Cur.act.op = "Publish" => Cur.act.ev \in Int /\ Cur.act.p \in Producers
  BY StreamFacts
<1>2. StreamsWellFormed' /\ EventsInOrder'
  BY <1>1 DEF StreamsWellFormed, EventsInOrder
<1>3. Published' = Published
  BY DEF Published
<1>4. (Cur'.act = Cur.act /\ Cur'.i >= Cur.i /\ Cur'.i \in Nat) \/ (Cur'.act.op = "Idle" /\ Cur'.i \in Nat)
  <2>1. CASE Cur'.act = Cur.act /\ Cur'.i \in {Cur.i, Cur.i + 1}
    <3>1. Cur'.i >= Cur.i /\ Cur'.i \in Nat
      BY <1>1, <2>1
    <3> QED BY <2>1, <3>1
  <2>2. CASE Cur'.act = Idle /\ Cur'.i = 1
    BY <2>2, IdleFacts
  <2> QED BY <2>1, <2>2
<1>5. NumbersInv'
  BY <1>1, <1>3, <1>4 DEF NumbersInv
<1>6. ASSUME NEW c \in Consumers PROVE OrderInv(c)'
  <2>1. CASE Cur'.act.op # "Publish"
    BY <1>1, <1>3, <2>1 DEF OrderInv
  <2>2. CASE Cur'.act.op = "Publish"
    <3>1. Cur'.act = Cur.act /\ Cur'.i >= Cur.i /\ Cur'.i \in Nat /\ subs' = subs /\ Cur.act.p \in Producers
      BY <1>1, <1>4, <2>2
    <3>2. DOMAIN subs[Cur.act.p] \subseteq Nat
      BY <1>1, <3>1, SMTT(30) DEF TypeOK
    <3>3. ASSUME Passed(Cur.act.p, c)
          PROVE  \A j \in DOMAIN subs'[Cur'.act.p] : j >= Cur'.i => subs'[Cur'.act.p][j] # c
      <4> SUFFICES ASSUME NEW j \in DOMAIN subs[Cur.act.p], j >= Cur'.i PROVE subs[Cur.act.p][j] # c
        BY <3>1
      <4>1. j >= Cur.i
        BY <1>1, <3>1, <3>2
      <4> QED BY <3>3, <4>1 DEF Passed
    <3> QED BY <1>1, <1>3, <3>1, <3>3 DEF OrderInv, Passed
  <2> QED BY <2>1, <2>2
<1>7. ASSUME NEW c \in Consumers, NEW p \in Producers PROVE StreamInv(c, p)'
  <2>1. Gone(p)' <=> Gone(p)
    BY DEF Gone, DestructionQueued
  <2>2. StreamInv(c, p) /\ seen'[c] = seen[c] /\ Cur'.i \in Nat
    BY <1>1, <1>4
  <2>3. Gone(p) /\ Cur'.act.op = "DestroyProducer" /\ Cur'.act.p = p =>
          Cur.act = Cur'.act /\ Cur.i <= Cur'.i /\ subs'[p] = subs[p]
    BY <1>1, <1>4
  <2> QED BY <1>1, <2>1, <2>2, <2>3, QuietStream
<1> QED BY <1>2, <1>5, <1>6, <1>7 DEF StreamsIInv

\* The end of a visit, and the steps that touch nothing but the stack.
LEMMA StackStreams ==
  ASSUME MaxDepth = 1, StreamsIInv, BrokerIInv', life' = "up",
         EndVisit \/ DoWork \/ DoWorkReturns \/ HandlerReturns \/ HandlerThrows
  PROVE  StreamsIInv'
<1>0. BrokerIInv
  BY DEF StreamsIInv
<1>1. CASE EndVisit
  <2>1. /\ life = "up" /\ MemoryInv /\ Cur.act \in Action /\ Cur'.act = Idle /\ Cur'.i = 1
        /\ UNCHANGED <<handle, pending, notify, calls, seen>>
        /\ IF Cur.act.op = "DestroyProducer"
             THEN heap' = heap \ {Cur.act.p} /\ subs' = [subs EXCEPT ![Cur.act.p] = <<>>]
             ELSE UNCHANGED <<heap, subs>>
    BY <1>0, <1>1, EndVisitFacts
  <2>2. ASSUME NEW c \in Consumers, NEW p \in Producers
        PROVE  /\ c \in Range(subs[p]) => c \in Range(subs'[p]) \/ Gone(p)
               /\ c \in Range(subs'[p]) /\ notify[c] = "user" => c \in Range(subs[p])
    <3>0. subs \in [Producers -> Seq(Consumers)]
      BY <1>0 DEF BrokerIInv, TypeOK
    <3>1. CASE Cur.act.op = "DestroyProducer" /\ Cur.act.p = p
      <4>1. subs'[p] = <<>>
        BY <2>1, <3>0, <3>1
      <4>2. handle[p] = "closed" /\ ~Live(p)
        BY <2>1, <3>1 DEF MemoryInv, VisitInv, IsDestruction, Target
      <4> QED BY <4>1, <4>2 DEF Gone, Live, Range
    <3>2. CASE ~(Cur.act.op = "DestroyProducer" /\ Cur.act.p = p)
      <4>1. subs'[p] = subs[p]
        BY <2>1, <3>0, <3>2
      <4> QED BY <4>1
    <3> QED BY <3>1, <3>2
  <2> QED BY <2>1, <2>2, QuietTurn, IdleFacts
<1>2. CASE DoWork \/ DoWorkReturns \/ HandlerReturns \/ HandlerThrows
  <2>1. /\ life = "up"
        /\ UNCHANGED <<handle, pending, subs, notify, calls, seen>>
        /\ \/ Cur'.act = Cur.act /\ Cur'.i = Cur.i
           \/ Cur'.act = Idle /\ Cur'.i = 1
    BY <1>0, <1>2, StackFacts
  <2> QED BY <2>1, QuietTurn
<1> QED BY <1>1, <1>2

\* A turn of the loops of publish and ~ProducerImpl: c, whose turn it is, is told an event
\* newer than all it got, or STOP.
LEMMA NotifyStreams ==
  ASSUME MaxDepth = 1, StreamsIInv, BrokerIInv', NotifyEvent \/ NotifyStop
  PROVE  StreamsIInv'
<1>0. BrokerIInv
  BY DEF StreamsIInv
<1>1. /\ life = "up" /\ life' = "up" /\ MemoryInv
      /\ Cur'.act = Cur.act /\ Cur'.i = Cur.i + 1 /\ Cur.i \in Nat
      /\ Cur.act.op \in {"Publish", "DestroyProducer"}
      /\ UNCHANGED <<handle, producers, consumers, pending, heap, subs, notify, calls>>
  BY <1>0, NotifyTurn
<1> DEFINE n == IF Cur.act.op = "Publish" THEN Event(Cur.act.p, Cur.act.ev) ELSE Stop(Cur.act.p)
<1>2. PICK c \in Consumers : /\ Cur.i \in DOMAIN subs[Cur.act.p] /\ c = subs[Cur.act.p][Cur.i]
                             /\ c \in Range(subs[Cur.act.p]) /\ Heard(c, n)
  BY <1>0, NotifyTurn
<1>3. /\ TypeOK /\ SilentInv /\ StreamsWellFormed /\ EventsInOrder /\ NumbersInv
      /\ \A d \in Consumers : OrderInv(d)
      /\ \A d \in Consumers, q \in Producers : StreamInv(d, q)
      /\ Cur.act \in Action \cup {Idle}
      /\ \A d \in Consumers : \A k \in DOMAIN seen[d] : seen[d][k].kind = "EVENT" => seen[d][k].ev \in Int
      /\ Published \in Nat
  BY <1>1, StreamFacts
<1>4. PICK p \in Producers : p = Cur.act.p /\ p = Target(Cur.act)
  BY <1>1, <1>3, ActionFacts, IdleFacts
<1>5. CASE notify[c] # "user"
  <2>1. seen' = seen
    BY <1>2, <1>5 DEF Heard
  <2> QED BY <1>1, <2>1, QuietTurn
<1>6. CASE notify[c] = "user"
  <2>1. seen' = [seen EXCEPT ![c] = Append(@, n)]
    BY <1>2, <1>6 DEF Heard
  <2>2. /\ n \in Notification /\ n.p = p /\ n.kind \in {"EVENT", "STOP"}
        /\ Cur.act.op = "Publish" => n.kind = "EVENT" /\ n.ev = Cur.act.ev /\ n.ev \in Int
        /\ Cur.act.op # "Publish" => n.kind = "STOP"
    <3>1. Cur.act.op = "Publish" => Cur.act.ev \in 1 .. MaxEvents
      BY <1>3, ActionFacts, IdleFacts
    <3> QED BY <1>4, <3>1, NotificationFacts
  <2> HIDE DEF n
  <2>3. /\ \A d \in Consumers : d # c => seen'[d] = seen[d]
        /\ \A q \in Producers : Knows(c, q)' <=> Knows(c, q) \/ p = q
        /\ \A q \in Producers : Stopped(c, q)' <=> Stopped(c, q) \/ (p = q /\ n.kind = "STOP")
        /\ \A k \in DOMAIN seen'[c] : seen'[c][k] = n \/ (k \in DOMAIN seen[c] /\ seen'[c][k] = seen[c][k])
    <3>1. PICK e \in Notification : e = n
      BY <2>2
    <3>2. seen' = [seen EXCEPT ![c] = Append(@, e)]
      BY <2>1, <3>1
    <3>3. /\ \A d \in Consumers : d # c => seen'[d] = seen[d]
          /\ \A q \in Producers : Knows(c, q)' <=> Knows(c, q) \/ e.p = q
          /\ \A q \in Producers : Stopped(c, q)' <=> Stopped(c, q) \/ (e.p = q /\ e.kind = "STOP")
          /\ \A k \in DOMAIN seen'[c] : seen'[c][k] = e \/ (k \in DOMAIN seen[c] /\ seen'[c][k] = seen[c][k])
      <4>1. TypeOK
        BY <1>3
      <4> QED BY <3>2, <4>1, ToldFacts, ZenonT(90)
    <3> QED BY <2>2, <3>1, <3>3
  <2>4. handle[c] # "closed"
    BY <1>3, <1>6 DEF SilentInv
  <2>5. Knows(c, p)
    BY <1>2, <1>3, <1>4, <1>6 DEF StreamInv
  <2>6. c \in Range(subs[p]) /\ Cur.i \in DOMAIN subs[p] /\ c = subs[p][Cur.i] /\ Distinct(subs[p])
    BY <1>1, <1>2, <1>4 DEF MemoryInv, SubsInv
  <2>7. ~Passed(p, c)
    <3>1. Cur.i >= Cur.i
      BY <1>1
    <3> QED BY <2>6, <3>1 DEF Passed
  <2>8. ~Stopped(c, p)
    <3>1. CASE Cur.act.op = "Publish"
      <4>1. Registered(p) /\ p \in Ids
        BY <1>1, <1>4, <3>1 DEF MemoryInv, VisitInv, Ids
      <4>2. Live(p)
        BY <1>1, <4>1 DEF MemoryInv, OwnerInv
      <4>3. ~Gone(p)
        BY <4>2 DEF Live, Gone
      <4> QED BY <1>3, <4>3 DEF StreamInv
    <3>2. CASE Cur.act.op = "DestroyProducer"
      BY <1>3, <1>4, <2>7, <3>2 DEF StreamInv
    <3> QED BY <1>1, <3>1, <3>2
  <2>9. ASSUME Cur.act.op = "Publish", NEW k \in DOMAIN seen[c], seen[c][k].kind = "EVENT"
        PROVE  seen[c][k].ev < n.ev
    BY <1>3, <1>4, <2>2, <2>7, <2>9 DEF OrderInv
  <2>10. StreamsWellFormed' /\ EventsInOrder'
    <3>1. \E k \in DOMAIN seen[c] : seen[c][k].p = n.p
      BY <2>2, <2>5 DEF Knows
    <3>2. \A k \in DOMAIN seen[c] : seen[c][k].p = n.p => seen[c][k].kind # "STOP"
      BY <2>2, <2>8 DEF Stopped
    <3>3. n.kind = "EVENT" => \A k \in DOMAIN seen[c] : seen[c][k].kind = "EVENT" => seen[c][k].ev < n.ev
      BY <2>2, <2>9
    <3>4. n.kind # "START"
      BY <2>2
    <3> QED BY <1>3, <2>1, <2>2, <3>1, <3>2, <3>3, <3>4, HeardWellFormed
  <2>11. Published' = Published /\ NumbersInv'
    BY <1>1, <1>3 DEF Published, NumbersInv
  <2>12. subs[p] \in Seq(Consumers) /\ DOMAIN subs[p] \subseteq Nat
    BY <1>3 DEF TypeOK
  <2>13. Passed(p, c)'
    <3> SUFFICES ASSUME NEW j \in DOMAIN subs[p], j >= Cur.i + 1 PROVE subs[p][j] # c
      BY <1>1 DEF Passed
    <3>1. j # Cur.i
      BY <1>1, <2>12
    <3> QED BY <2>6, <3>1 DEF Distinct
  <2>14. \A d \in Consumers : Passed(p, d) => Passed(p, d)'
    <3> SUFFICES ASSUME NEW d \in Consumers, Passed(p, d), NEW j \in DOMAIN subs[p], j >= Cur.i + 1
                 PROVE  subs[p][j] # d
      BY <1>1 DEF Passed
    <3>1. j >= Cur.i
      BY <1>1, <2>12
    <3> QED BY <3>1 DEF Passed
  <2>15. \A d, q : Passed(d, q)' <=> \A j \in DOMAIN subs[d] : j >= Cur'.i => subs[d][j] # q
    BY <1>1 DEF Passed
  <2>16. ASSUME NEW d \in Consumers PROVE OrderInv(d)'
    <3> SUFFICES ASSUME NEW k \in DOMAIN seen'[d], seen'[d][k].kind = "EVENT"
                 PROVE  /\ seen'[d][k].ev <= Published
                        /\ \A j \in DOMAIN pending : pending[j].op = "Publish" => seen'[d][k].ev < pending[j].ev
                        /\ Cur.act.op = "Publish" => \/ seen'[d][k].ev < Cur.act.ev
                                                     \/ seen'[d][k].ev = Cur.act.ev /\ Passed(p, d)'
      BY <1>1, <1>4, <2>11 DEF OrderInv, Passed
    <3>1. CASE k \in DOMAIN seen[d] /\ seen'[d][k] = seen[d][k]
      BY <1>3, <1>4, <2>14, <3>1 DEF OrderInv
    <3>2. CASE d = c /\ seen'[d][k] = n
      <4>1. Cur.act.op = "Publish" /\ n.ev = Cur.act.ev
        BY <1>1, <2>2, <3>2
      <4> QED BY <1>3, <2>13, <3>2, <4>1 DEF NumbersInv
    <3> QED BY <2>3, <3>1, <3>2
  <2>17. ASSUME NEW d \in Consumers, NEW q \in Producers PROVE StreamInv(d, q)'
    <3>1. StreamInv(d, q) /\ (Gone(q)' <=> Gone(q))
      BY <1>1, <1>3 DEF Gone, DestructionQueued
    <3>2. CASE d # c
      <4>1. seen'[d] = seen[d] /\ Cur'.i \in Nat /\ Cur.i <= Cur'.i
        BY <1>1, <2>3, <3>2
      <4> QED BY <1>1, <1>3, <3>1, <4>1, QuietStream
    <3>3. CASE d = c
      <4>1. Knows(c, q)' => handle'[c] = "closed" \/ Gone(q)' \/ c \in Range(subs'[q])
        BY <1>1, <2>3, <2>6, <3>1, <3>3 DEF StreamInv
      <4>2. c \in Range(subs'[q]) /\ notify'[c] = "user" => Knows(c, q)'
        BY <1>1, <2>3, <3>1, <3>3 DEF StreamInv
      <4>3. ASSUME Stopped(c, q)'
            PROVE  Gone(q)' /\ (Cur'.act.op = "DestroyProducer" /\ Cur'.act.p = q => Passed(q, c)')
        <5>1. CASE Stopped(c, q)
          <6>1. Gone(q) /\ (Cur.act.op = "DestroyProducer" /\ Cur.act.p = q => Passed(q, c))
            BY <3>1, <3>3, <5>1 DEF StreamInv
          <6> QED BY <1>1, <1>4, <2>14, <3>1, <6>1
        <5>2. CASE p = q /\ n.kind = "STOP"
          <6>1. Cur.act.op = "DestroyProducer"
            BY <1>1, <2>2, <5>2
          <6>2. handle[p] = "closed" /\ ~Live(p)
            BY <1>1, <1>4, <6>1 DEF MemoryInv, VisitInv, IsDestruction
          <6>3. Gone(p)
            BY <6>2 DEF Gone, Live
          <6> QED BY <2>13, <3>1, <5>2, <6>3
        <5> QED BY <2>3, <4>3, <5>1, <5>2
      <4> QED BY <3>3, <4>1, <4>2, <4>3 DEF StreamInv
    <3> QED BY <3>2, <3>3
  <2> QED BY <1>1, <2>10, <2>11, <2>16, <2>17 DEF StreamsIInv
<1> QED BY <1>5, <1>6

\* maybe_add tells a consumer START of a stream it has not heard of.
LEMMA MaybeAddStreams ==
  ASSUME MaxDepth = 1, StreamsIInv, BrokerIInv', MaybeAdd
  PROVE  StreamsIInv'
<1>0. BrokerIInv
  BY DEF StreamsIInv
<1>1. /\ life = "up" /\ life' = "up" /\ MemoryInv
      /\ Cur'.act = Cur.act /\ Cur'.i = Cur.i + 1 /\ Cur.i \in Nat
      /\ UNCHANGED <<handle, producers, consumers, pending, heap, notify, calls>>
  BY <1>0, MaybeAddTurn
<1>2. PICK p \in Producers, c \in Consumers :
        /\ \/ /\ Cur.act.op = "InitProducer" /\ p = Cur.act.p
              /\ Cur.i \in DOMAIN consumers /\ c = consumers[Cur.i]
           \/ /\ Cur.act.op = "InitConsumer" /\ c = Cur.act.c
              /\ Cur.i \in DOMAIN producers /\ p = producers[Cur.i]
        /\ \/ subs' = [subs EXCEPT ![p] = Append(@, c)] /\ Heard(c, Start(p))
           \/ subs' = subs /\ seen' = seen
  BY <1>0, MaybeAddTurn
<1>3. /\ TypeOK /\ SilentInv /\ StreamsWellFormed /\ EventsInOrder /\ NumbersInv
      /\ \A d \in Consumers : OrderInv(d)
      /\ \A d \in Consumers, q \in Producers : StreamInv(d, q)
  BY <1>1, StreamFacts
<1>4. Cur'.act.op \notin {"Publish", "DestroyProducer"}
  BY <1>1, <1>2
<1>5. CASE subs' = subs /\ seen' = seen
  BY <1>1, <1>4, <1>5, QuietTurn
<1>6. CASE subs' = [subs EXCEPT ![p] = Append(@, c)] /\ Heard(c, Start(p))
  <2>1. subs \in [Producers -> Seq(Consumers)] /\ subs[p] \in Seq(Consumers)
    BY <1>3 DEF TypeOK
  <2>2. /\ Range(subs'[p]) = Range(subs[p]) \cup {c}
        /\ \A q \in Producers : q # p => subs'[q] = subs[q]
    <3>1. subs'[p] = Append(subs[p], c)
      BY <1>6, <2>1
    <3>2. Range(Append(subs[p], c)) = Range(subs[p]) \cup {c}
      BY <2>1, AppendDistinct
    <3> QED BY <1>6, <2>1, <3>1, <3>2
  <2>3. CASE notify[c] # "user"
    <3>1. seen' = seen
      BY <1>6, <2>3 DEF Heard
    <3>2. ASSUME NEW d \in Consumers, NEW q \in Producers
          PROVE  /\ d \in Range(subs[q]) => d \in Range(subs'[q]) \/ Gone(q)
                 /\ d \in Range(subs'[q]) /\ notify[d] = "user" => d \in Range(subs[q])
      BY <2>2, <2>3
    <3> QED BY <1>1, <1>4, <3>1, <3>2, QuietTurn
  <2>4. CASE notify[c] = "user"
    <3>1. seen' = [seen EXCEPT ![c] = Append(@, Start(p))]
      BY <1>6, <2>4 DEF Heard
    <3>2. PICK n \in Notification : n = Start(p) /\ n.kind = "START" /\ n.p = p
      BY NotificationFacts
    <3>3. seen' = [seen EXCEPT ![c] = Append(@, n)]
      BY <3>1, <3>2
    <3>4. /\ \A d \in Consumers : d # c => seen'[d] = seen[d]
          /\ \A q \in Producers : Knows(c, q)' <=> Knows(c, q) \/ n.p = q
          /\ \A q \in Producers : Stopped(c, q)' <=> Stopped(c, q) \/ (n.p = q /\ n.kind = "STOP")
          /\ \A k \in DOMAIN seen'[c] : seen'[c][k] = n \/ (k \in DOMAIN seen[c] /\ seen'[c][k] = seen[c][k])
      <4>1. TypeOK
        BY <1>3
      <4> QED BY <3>3, <4>1, ToldFacts, ZenonT(90)
    <3>5. handle[c] # "closed"
      BY <1>3, <2>4 DEF SilentInv
    <3>6. c \notin Range(subs[p])
      <4>1. Cur.i >= Cur.i
        BY <1>1
      <4>2. SubsInv(p)
        BY <1>1 DEF MemoryInv
      <4> QED BY <1>2, <4>1, <4>2 DEF SubsInv
    <3>7. ~Gone(p)
      <4>1. Registered(p)
        <5>1. CASE Cur.act.op = "InitProducer"
          BY <1>1, <1>2, <5>1 DEF MemoryInv, VisitInv, Target
        <5>2. CASE Cur.act.op = "InitConsumer"
          BY <1>2, <5>2 DEF Registered, Range
        <5> QED BY <1>2, <5>1, <5>2
      <4>2. p \in Ids
        BY DEF Ids
      <4>3. Live(p)
        BY <1>1, <4>1, <4>2 DEF MemoryInv, OwnerInv
      <4> QED BY <4>3 DEF Live, Gone
    <3>8. ~Knows(c, p)
      BY <1>3, <3>5, <3>6, <3>7 DEF StreamInv
    <3>9. StreamsWellFormed' /\ EventsInOrder'
      <4>1. \A k \in DOMAIN seen[c] : seen[c][k].p # n.p
        BY <3>2, <3>8 DEF Knows
      <4>2. n.kind # "EVENT" /\ n.kind = "START"
        BY <3>2
      <4> QED BY <1>3, <3>3, <4>1, <4>2, HeardWellFormed
    <3>10. Published' = Published /\ NumbersInv'
      BY <1>1, <1>3, <1>4 DEF Published, NumbersInv
    <3>11. ASSUME NEW d \in Consumers PROVE OrderInv(d)'
      <4> SUFFICES ASSUME NEW k \in DOMAIN seen'[d], seen'[d][k].kind = "EVENT"
                   PROVE  /\ seen'[d][k].ev <= Published
                          /\ \A j \in DOMAIN pending : pending[j].op = "Publish" => seen'[d][k].ev < pending[j].ev
        BY <1>1, <1>4, <3>10 DEF OrderInv
      <4>1. k \in DOMAIN seen[d] /\ seen'[d][k] = seen[d][k]
        BY <3>2, <3>4
      <4> QED BY <1>3, <4>1 DEF OrderInv
    <3>12. ASSUME NEW d \in Consumers, NEW q \in Producers PROVE StreamInv(d, q)'
      <4>1. StreamInv(d, q) /\ (Gone(q)' <=> Gone(q))
        BY <1>1, <1>3 DEF Gone, DestructionQueued
      <4>2. Cur'.act.op # "DestroyProducer"
        BY <1>4
      <4>3. CASE d # c
        <5>1. seen'[d] = seen[d] /\ Cur'.i \in Nat /\ (d \in Range(subs'[q]) <=> d \in Range(subs[q]))
          BY <1>1, <2>2, <3>4, <4>3
        <5> QED BY <1>1, <1>3, <4>1, <4>2, <5>1, QuietStream
      <4>4. CASE d = c
        <5>1. Knows(c, q)' => handle'[c] = "closed" \/ Gone(q)' \/ c \in Range(subs'[q])
          BY <1>1, <2>2, <3>2, <3>4, <4>1, <4>4 DEF StreamInv
        <5>2. c \in Range(subs'[q]) /\ notify'[c] = "user" => Knows(c, q)'
          BY <1>1, <2>2, <3>2, <3>4, <4>1, <4>4 DEF StreamInv
        <5>3. Stopped(c, q)' => Gone(q)'
          BY <3>2, <3>4, <4>1, <4>4 DEF StreamInv
        <5> QED BY <4>2, <4>4, <5>1, <5>2, <5>3 DEF StreamInv
      <4> QED BY <4>3, <4>4
    <3> QED BY <1>1, <3>9, <3>10, <3>11, <3>12 DEF StreamsIInv
  <2> QED BY <2>3, <2>4
<1> QED BY <1>2, <1>5, <1>6

-----------------------------------------------------------------------------
(* The theorems                                                             *)

\* Nobody has heard anything at first.
LEMMA InitStreams == Init => StreamsIInv
<1> SUFFICES ASSUME Init PROVE StreamsIInv
  OBVIOUS
<1>1. BrokerIInv
  BY InitKeeps
<1>2. /\ pending = <<>> /\ DOMAIN pending = {} /\ Cur.act = Idle
      /\ \A c \in Consumers : seen[c] = <<>> /\ DOMAIN seen[c] = {}
      /\ \A p \in Producers : subs[p] = <<>> /\ Range(subs[p]) = {}
  <2>1. DOMAIN <<>> = {} /\ Range(<<>>) = {}
    BY DEF Range
  <2> QED BY <2>1 DEF Init, OldBrokerInit, Cur, Frame
<1>3. StreamsWellFormed /\ EventsInOrder
  BY <1>2 DEF StreamsWellFormed, EventsInOrder
<1>4. NumbersInv
  BY <1>2, IdleFacts DEF NumbersInv
<1>5. ASSUME NEW c \in Consumers PROVE OrderInv(c) /\ \A p \in Producers : StreamInv(c, p)
  BY <1>2 DEF OrderInv, StreamInv, Knows, Stopped
<1> QED BY <1>1, <1>3, <1>4, <1>5 DEF StreamsIInv

\* Every step keeps the streams.
LEMMA NextStreams ==
  ASSUME MaxDepth = 1, StreamsIInv, [Next]_vars PROVE StreamsIInv'
<1>0. BrokerIInv /\ BrokerIInv'
  BY NextKeeps DEF StreamsIInv
<1>1. CASE Api
  BY <1>1, ApiStreams
<1>2. CASE Visit
  BY <1>0, <1>2, VisitStreams
<1>3. CASE MaybeAdd
  BY <1>0, <1>3, MaybeAddStreams
<1>4. CASE NotifyEvent \/ NotifyStop
  BY <1>0, <1>4, NotifyStreams
<1>5. CASE (EndVisit \/ DoWork \/ DoWorkReturns \/ HandlerReturns \/ HandlerThrows) /\ life' = "up"
  BY <1>0, <1>5, StackStreams
<1>6. CASE life' # "up" /\ UNCHANGED seen
  BY <1>0, <1>6 DEF StreamsIInv, StreamsWellFormed, EventsInOrder
<1>7. (EndVisit \/ DoWork \/ DoWorkReturns \/ HandlerReturns \/ HandlerThrows) => UNCHANGED seen
  BY DEF EndVisit, DoWork, DoWorkReturns, HandlerReturns, HandlerThrows
<1>8. Teardown => life' # "up" /\ UNCHANGED seen
  BY DEF Teardown
<1>9. CASE UNCHANGED vars
  <2>1. UNCHANGED <<handle, life, pending, subs, notify, frames, calls, seen>> /\ Cur' = Cur
    BY <1>9 DEF vars, apiVars, brokerVars, heapVars, Cur
  <2>2. CASE life = "up"
    BY <1>0, <2>1, <2>2, QuietTurn
  <2>3. CASE life # "up"
    BY <1>6, <2>1, <2>3
  <2> QED BY <2>2, <2>3
<1> QED BY <1>1, <1>2, <1>3, <1>4, <1>5, <1>6, <1>7, <1>8, <1>9 DEF Next, Work

\* The inductive invariant of the streams.
THEOREM StreamsInvariance ==
  ASSUME MaxDepth = 1 PROVE Spec => []StreamsIInv
<1>1. Init => StreamsIInv
  BY InitStreams
<1>2. StreamsIInv /\ [Next]_vars => StreamsIInv'
  BY NextStreams
<1> QED BY <1>1, <1>2, PTL DEF Spec

\* A consumer's view of a stream begins with START, has START nowhere else, keeps the
\* order of the events and ends with STOP, whichever handlers throw or call the API.
THEOREM WellFormedStreams ==
  ASSUME MaxDepth = 1 PROVE Spec => []StreamsWellFormed
<1>1. StreamsIInv => StreamsWellFormed
  BY DEF StreamsIInv
<1> QED BY <1>1, StreamsInvariance, PTL

\* Events reach a consumer in the order of their publication, those of different
\* streams too, and none of them twice.
THEOREM OrderedEvents ==
  ASSUME MaxDepth = 1 PROVE Spec => []EventsInOrder
<1>1. StreamsIInv => EventsInOrder
  BY DEF StreamsIInv
<1> QED BY <1>1, StreamsInvariance, PTL

-----------------------------------------------------------------------------
(* Calls and what they owe                                                  *)

\* The calls that make and destroy a producer or a consumer.
LEMMA CreationFacts ==
  ASSUME NEW x \in Ids
  PROVE  /\ Creation(x) \in Action /\ IsCreation(Creation(x)) /\ ~IsDestruction(Creation(x)) /\ Target(Creation(x)) = x
         /\ Destruction(x) \in Action /\ IsDestruction(Destruction(x)) /\ ~IsCreation(Destruction(x))
         /\ Target(Destruction(x)) = x
         /\ Creation(x).op # "Publish" /\ Destruction(x).op # "Publish"
<1>1. CASE x \in Producers
  BY <1>1, ActionKinds DEF Creation, Destruction
<1>2. CASE x \in Consumers /\ x \notin Producers
  BY <1>2, ActionKinds DEF Creation, Destruction
<1> QED BY <1>1, <1>2 DEF Ids

\* The calls about a producer, and those about a consumer.
LEMMA KindOfId ==
  /\ \A p \in Producers : p \in Ids /\ Creation(p) = InitProducer(p) /\ Destruction(p) = DestroyProducer(p)
  /\ \A c \in Consumers : c \in Ids /\ Creation(c) = InitConsumer(c) /\ Destruction(c) = DestroyConsumer(c)
<1>1. \A c \in Consumers : c \notin Producers
  BY BrokerAssumption
<1> QED BY <1>1 DEF Ids, Creation, Destruction

\* What the kind of an action says of the rest of it.
LEMMA ActionNamed ==
  ASSUME NEW a \in Action, NEW x, x = Target(a)
  PROVE  /\ x \in Ids
         /\ IsCreation(a) => a = Creation(x)
         /\ IsDestruction(a) => a = Destruction(x)
         /\ a.op = "InitProducer" => x \in Producers /\ a = InitProducer(x) /\ a.p = x
         /\ a.op = "DestroyProducer" => x \in Producers /\ a = DestroyProducer(x) /\ a.p = x
         /\ a.op = "Publish" => x \in Producers /\ a.ev \in 1 .. MaxEvents /\ a = Publish(x, a.ev) /\ a.p = x
         /\ a.op = "InitConsumer" => x \in Consumers /\ a = InitConsumer(x) /\ a.c = x
         /\ a.op = "DestroyConsumer" => x \in Consumers /\ a = DestroyConsumer(x) /\ a.c = x
<1>1. x \in Ids
  BY ActionFacts
<1>2. CASE \E p \in Producers : a = InitProducer(p)
  BY <1>1, <1>2, ActionKinds, KindOfId DEF InitProducer
<1>3. CASE \E p \in Producers : a = DestroyProducer(p)
  BY <1>1, <1>3, ActionKinds, KindOfId DEF DestroyProducer
<1>4. CASE \E p \in Producers, e \in 1 .. MaxEvents : a = Publish(p, e)
  <2>1. PICK p \in Producers, e \in 1 .. MaxEvents : a = Publish(p, e)
    BY <1>4
  <2>2. a.p = p /\ a.ev = e
    BY <2>1 DEF Publish
  <2> QED BY <1>1, <2>1, <2>2, ActionKinds
<1>5. CASE \E c \in Consumers : a = InitConsumer(c)
  BY <1>1, <1>5, ActionKinds, KindOfId DEF InitConsumer
<1>6. CASE \E c \in Consumers : a = DestroyConsumer(c)
  BY <1>1, <1>6, ActionKinds, KindOfId DEF DestroyConsumer
<1> QED BY <1>2, <1>3, <1>4, <1>5, <1>6 DEF Action

\* A notification is known by its kind, its stream and its event.
LEMMA NotificationNamed ==
  ASSUME NEW n \in Notification
  PROVE  /\ n.kind = "START" => n = Start(n.p)
         /\ n.kind = "EVENT" => n = Event(n.p, n.ev)
         /\ n.kind = "STOP" => n = Stop(n.p)
         /\ n.kind \in {"START", "EVENT", "STOP"}
<1>1. CASE \E p \in Producers : n = Start(p)
  BY <1>1 DEF Start
<1>2. CASE \E p \in Producers : n = Stop(p)
  BY <1>2 DEF Stop
<1>3. CASE \E p \in Producers, e \in 1 .. MaxEvents : n = Event(p, e)
  BY <1>3 DEF Event
<1> QED BY <1>1, <1>2, <1>3 DEF Notification

\* A call adds itself to what was made, and takes nothing back.
LEMMA MadeAppend ==
  ASSUME NEW h \in Seq(Action), NEW a \in Action, NEW g \in {Append(h, a)}
  PROVE  /\ Len(h) \in Nat /\ Len(g) = Len(h) + 1 /\ g[Len(h) + 1] = a
         /\ DOMAIN h = 1 .. Len(h) /\ DOMAIN g = 1 .. Len(h) + 1
         /\ \A k \in 1 .. Len(h) : g[k] = h[k]
         /\ \A k \in 0 .. Len(h) : \A b : Made(g, b, k) <=> Made(h, b, k)
         /\ \A b : Made(g, b, Len(g)) <=> Made(h, b, Len(h)) \/ a = b
<1> DEFINE m == Len(h)
<1>1. /\ m \in Nat /\ Len(g) = m + 1 /\ g[m + 1] = a /\ DOMAIN h = 1 .. m /\ DOMAIN g = 1 .. m + 1
      /\ \A k \in 1 .. m : g[k] = h[k]
  BY AppendProperties
<1> HIDE DEF m
<1>2. ASSUME NEW k \in 0 .. m, NEW b PROVE Made(g, b, k) <=> Made(h, b, k)
  <2>1. \A j \in 1 .. k : j \in 1 .. m
    BY <1>1
  <2> QED BY <1>1, <2>1 DEF Made
<1>3. ASSUME NEW b PROVE Made(g, b, m + 1) <=> Made(h, b, m) \/ a = b
  <2>1. \A j : j \in 1 .. m + 1 <=> j \in 1 .. m \/ j = m + 1
    BY <1>1
  <2> QED BY <1>1, <2>1 DEF Made
<1> QED BY <1>1, <1>2, <1>3 DEF m

\* The last call is one of the calls.
LEMMA MadeLast ==
  ASSUME NEW h \in Seq(Action), NEW a \in Action, NEW b
  PROVE  Made(Append(h, a), b, Len(h) + 1) <=> Made(h, b, Len(h)) \/ a = b
<1> DEFINE g == Append(h, a)
           m == Len(h)
<1>1. m \in Nat /\ g[m + 1] = a /\ \A k \in 1 .. m : g[k] = h[k]
  BY AppendProperties
<1> HIDE DEF g, m
<1>2. \A j : j \in 1 .. m + 1 <=> j \in 1 .. m \/ j = m + 1
  BY <1>1
<1>3. Made(g, b, m + 1) <=> Made(h, b, m) \/ a = b
  BY <1>1, <1>2 DEF Made
<1> QED BY <1>3 DEF g, m

\* What a call owes does not depend on the calls after it.
LEMMA OwesStable ==
  ASSUME calls \in Seq(Action), NEW a \in Action, calls' = Append(calls, a), matches' = matches,
         NEW k \in 1 .. Len(calls), NEW c, NEW n
  PROVE  Owes(calls, k, c, n)' <=> Owes(calls, k, c, n)
<1>1. /\ Len(calls) \in Nat /\ calls'[k] = calls[k]
      /\ \A i \in 0 .. Len(calls) : \A b : Made(calls', b, i) <=> Made(calls, b, i)
  <2>1. calls' \in {Append(calls, a)}
    OBVIOUS
  <2> QED BY <2>1, MadeAppend
<1>2. k \in 0 .. Len(calls) /\ k - 1 \in 0 .. Len(calls)
  BY <1>1
<1>3. \A b : (Made(calls', b, k) <=> Made(calls, b, k)) /\ (Made(calls', b, k - 1) <=> Made(calls, b, k - 1))
  BY <1>1, <1>2
<1> QED BY <1>1, <1>3 DEF Owes

\* The handles and the queue say which creations and destructions were visited.
LEMMA VisitedSoFar ==
  ASSUME TypeOK, HistoryInv, NEW x \in Ids
  PROVE  /\ Made(calls, Creation(x), Visited) <=> handle[x] # "new" /\ ~CreationQueued(x)
         /\ Made(calls, Destruction(x), Visited) <=> handle[x] = "closed" /\ ~DestructionQueued(x)
<1> DEFINE v == Visited
           m == Len(pending)
<1>1. /\ pending \in Seq(Action) /\ m \in Nat /\ DOMAIN pending = 1 .. m
      /\ v \in Nat /\ Len(calls) = v + m /\ DOMAIN calls = 1 .. v + m
  <2>1. /\ pending \in Seq(Action) /\ m \in Nat /\ DOMAIN pending = 1 .. m
        /\ Len(calls) \in Nat /\ DOMAIN calls = 1 .. Len(calls)
    BY DEF TypeOK
  <2>2. m <= Len(calls)
    BY DEF HistoryInv
  <2> QED BY <2>1, <2>2 DEF Visited
<1>2. \A k \in 1 .. m : pending[k] = calls[v + k] /\ pending[k] \in Action
  BY <1>1 DEF HistoryInv
<1>3. /\ \A j, k \in 1 .. v + m :
           calls[j] = calls[k] /\ (IsCreation(calls[j]) \/ IsDestruction(calls[j])) => j = k
      /\ handle[x] # "new" <=> Made(calls, Creation(x), v + m)
      /\ handle[x] = "closed" <=> Made(calls, Destruction(x), v + m)
  BY <1>1 DEF HistoryInv
<1> HIDE DEF v, m
<1>4. ASSUME NEW b, IsCreation(b) \/ IsDestruction(b)
      PROVE  Made(calls, b, v) <=> Made(calls, b, v + m) /\ ~\E k \in 1 .. m : pending[k] = b
  <2>1. ASSUME NEW j \in 1 .. v, calls[j] = b PROVE Made(calls, b, v + m) /\ ~\E k \in 1 .. m : pending[k] = b
    <3>1. j \in 1 .. v + m /\ \A k \in 1 .. m : v + k \in 1 .. v + m /\ v + k # j
      BY <1>1
    <3> QED BY <1>2, <1>3, <1>4, <2>1, <3>1 DEF Made
  <2>2. ASSUME NEW j \in 1 .. v + m, calls[j] = b, ~\E k \in 1 .. m : pending[k] = b PROVE Made(calls, b, v)
    <3>1. CASE j \in 1 .. v
      BY <2>2, <3>1 DEF Made
    <3>2. CASE j - v \in 1 .. m
      <4>1. v + (j - v) = j
        BY <1>1
      <4> QED BY <1>2, <2>2, <3>2, <4>1
    <3> QED BY <1>1, <3>1, <3>2
  <2> QED BY <2>1, <2>2 DEF Made
<1>5. CreationQueued(x) <=> \E k \in 1 .. m : pending[k] = Creation(x)
  <2>1. ASSUME NEW k \in 1 .. m PROVE IsCreation(pending[k]) /\ Target(pending[k]) = x <=> pending[k] = Creation(x)
    BY <1>2, ActionNamed, CreationFacts
  <2> QED BY <1>1, <2>1 DEF CreationQueued
<1>6. DestructionQueued(x) <=> \E k \in 1 .. m : pending[k] = Destruction(x)
  <2>1. ASSUME NEW k \in 1 .. m PROVE IsDestruction(pending[k]) /\ Target(pending[k]) = x <=> pending[k] = Destruction(x)
    BY <1>2, ActionNamed, CreationFacts
  <2> QED BY <1>1, <2>1 DEF DestructionQueued
<1>7. IsCreation(Creation(x)) /\ IsDestruction(Destruction(x))
  BY CreationFacts
<1> QED BY <1>3, <1>4, <1>5, <1>6, <1>7 DEF v

\* What is registered is what the visited calls made and did not destroy.
LEMMA Standing ==
  ASSUME TypeOK, MemoryInv, HistoryInv, NEW x \in Ids
  PROVE  Registered(x) <=> Made(calls, Creation(x), Visited) /\ ~Made(calls, Destruction(x), Visited)
<1>1. OwnerInv(x) /\ handle[x] \in {"new", "open", "closed"}
  BY DEF MemoryInv, TypeOK
<1> QED BY <1>1, VisitedSoFar DEF OwnerInv, Live

\* The lengths of the calls and of the queue.
LEMMA HistoryLengths ==
  ASSUME TypeOK, HistoryInv
  PROVE  /\ calls \in Seq(Action) /\ Len(calls) \in Nat /\ DOMAIN calls = 1 .. Len(calls)
         /\ Len(pending) \in Nat /\ DOMAIN pending = 1 .. Len(pending)
         /\ Visited \in Nat /\ Visited <= Len(calls) /\ Len(calls) = Visited + Len(pending)
<1>1. /\ calls \in Seq(Action) /\ Len(calls) \in Nat /\ DOMAIN calls = 1 .. Len(calls)
      /\ Len(pending) \in Nat /\ DOMAIN pending = 1 .. Len(pending)
  BY DEF TypeOK
<1>2. Len(pending) <= Len(calls)
  BY DEF HistoryInv
<1> QED BY <1>1, <1>2 DEF Visited

-----------------------------------------------------------------------------
(* The history of the calls                                                 *)

\* What an API call does to the handle it is about.
LEMMA ApiCalls ==
  ASSUME TypeOK, Api
  PROVE  \E a \in Action, x \in Ids :
           /\ x = Target(a) /\ pending' = Append(pending, a) /\ calls' = Append(calls, a)
           /\ \/ a = Creation(x) /\ handle[x] = "new" /\ handle' = [handle EXCEPT ![x] = "open"]
              \/ a = Destruction(x) /\ handle[x] = "open" /\ handle' = [handle EXCEPT ![x] = "closed"]
              \/ a.op = "Publish" /\ handle[x] = "open" /\ handle' = handle
<1>1. CASE \E p \in Producers : NewProducer(p)
  BY <1>1, ActionKinds, KindOfId, ZenonT(30) DEF NewProducer, MakeProducer, Enqueue
<1>2. CASE \E c \in Consumers : NewConsumer(c)
  BY <1>2, ActionKinds, KindOfId, ZenonT(30) DEF NewConsumer, MakeConsumer, Enqueue
<1>3. CASE \E p \in Producers : DropProducer(p)
  BY <1>3, ActionKinds, KindOfId, ZenonT(30) DEF DropProducer, DestroyProducerCall, Enqueue
<1>4. CASE \E c \in Consumers : DropConsumer(c)
  <2>1. PICK c \in Consumers : DropConsumer(c)
    BY <1>4
  <2>2. Enqueue(DestroyConsumer(c)) /\ handle[c] = "open" /\ handle' = [handle EXCEPT ![c] = "closed"]
    BY <2>1 DEF DropConsumer, DestroyConsumerCall
  <2> QED BY <2>2, ActionKinds, KindOfId DEF Enqueue
<1>5. CASE \E p \in Producers : PublishEvent(p)
  <2>1. PICK p \in Producers : PublishEvent(p)
    BY <1>5
  <2>2. Published + 1 \in 1 .. MaxEvents
    BY <2>1, PublishedNat, BrokerAssumption DEF PublishEvent
  <2>3. PICK e \in 1 .. MaxEvents : e = Published + 1
    BY <2>2
  <2>4. Enqueue(Publish(p, e)) /\ handle[p] = "open" /\ handle' = handle
    BY <2>1, <2>3 DEF PublishEvent, PublishCall, apiVars
  <2> QED BY <2>4, ActionKinds, KindOfId DEF Enqueue
<1> QED BY <1>1, <1>2, <1>3, <1>4, <1>5 DEF Api

\* An API call is the last of the calls and of the queue.
LEMMA ApiHistory ==
  ASSUME TypeOK, HistoryInv, Api, UNCHANGED frames
  PROVE  HistoryInv' /\ Visited' = Visited
<1>1. PICK a \in Action, x \in Ids :
           /\ x = Target(a) /\ pending' = Append(pending, a) /\ calls' = Append(calls, a)
           /\ \/ a = Creation(x) /\ handle[x] = "new" /\ handle' = [handle EXCEPT ![x] = "open"]
              \/ a = Destruction(x) /\ handle[x] = "open" /\ handle' = [handle EXCEPT ![x] = "closed"]
              \/ a.op = "Publish" /\ handle[x] = "open" /\ handle' = handle
  BY ApiCalls
<1> DEFINE m == Len(pending)
           l == Len(calls)
           v == Visited
<1>2. /\ calls \in Seq(Action) /\ l \in Nat /\ DOMAIN calls = 1 .. l /\ v \in Nat /\ v <= l /\ l = v + m /\ m \in Nat
      /\ DOMAIN pending = 1 .. m
  BY HistoryLengths
<1>3. /\ Len(calls') = l + 1 /\ calls'[l + 1] = a /\ DOMAIN calls' = 1 .. l + 1
      /\ \A k \in 1 .. l : calls'[k] = calls[k]
      /\ \A b : Made(calls', b, l + 1) <=> Made(calls, b, l) \/ a = b
  <2>1. calls' \in {Append(calls, a)}
    BY <1>1
  <2>2. calls \in Seq(Action)
    BY <1>2
  <2>3. /\ Len(calls') = l + 1 /\ calls'[l + 1] = a /\ DOMAIN calls' = 1 .. l + 1
        /\ \A k \in 1 .. l : calls'[k] = calls[k]
    BY <1>1, <2>2, AppendProperties
  <2>4. ASSUME NEW b PROVE Made(calls', b, l + 1) <=> Made(calls, b, l) \/ a = b
    <3>1. Made(Append(calls, a), b, Len(calls) + 1) <=> Made(calls, b, Len(calls)) \/ a = b
      BY <2>2, MadeLast
    <3> QED BY <1>1, <3>1
  <2> QED BY <2>3, <2>4
<1>4. pending \in Seq(Action)
  BY DEF TypeOK
<1>5. /\ Len(pending') = m + 1 /\ DOMAIN pending' = 1 .. m + 1 /\ pending'[m + 1] = a
      /\ \A k \in 1 .. m : pending'[k] = pending[k]
  BY <1>1, <1>4, AppendProperties
<1>6. Visited' = v
  BY <1>2, <1>3, <1>5 DEF Visited
<1>7. Cur' = Cur
  BY DEF Cur
<1>8. /\ \A k \in 1 .. m : pending[k] = calls[v + k]
      /\ Cur.act # Idle => v >= 1 /\ Cur.act = calls[v]
      /\ \A y \in Ids : /\ handle[y] # "new" <=> Made(calls, Creation(y), l)
                        /\ handle[y] = "closed" <=> Made(calls, Destruction(y), l)
      /\ \A j, k \in 1 .. l :
           calls[j] = calls[k] /\ (IsCreation(calls[j]) \/ IsDestruction(calls[j])) => j = k
  BY <1>2 DEF HistoryInv
<1> HIDE DEF m, l, v
<1>9. \A k \in 1 .. m + 1 : pending'[k] = calls'[v + k]
  <2> SUFFICES ASSUME NEW k \in 1 .. m + 1 PROVE pending'[k] = calls'[v + k]
    OBVIOUS
  <2>1. CASE k \in 1 .. m
    <3>1. v + k \in 1 .. l
      BY <1>2, <2>1
    <3> QED BY <1>3, <1>5, <1>8, <2>1, <3>1
  <2>2. CASE k = m + 1
    <3>1. v + k = l + 1
      BY <1>2, <2>2
    <3> QED BY <1>3, <1>5, <2>2, <3>1
  <2> QED BY <1>2, <2>1, <2>2
<1>10. Cur'.act # Idle => v >= 1 /\ Cur'.act = calls'[v]
  <2>1. v >= 1 => v \in 1 .. l
    BY <1>2
  <2> QED BY <1>3, <1>7, <1>8, <2>1
<1>11. ASSUME NEW y \in Ids
       PROVE  /\ handle'[y] # "new" <=> Made(calls', Creation(y), l + 1)
              /\ handle'[y] = "closed" <=> Made(calls', Destruction(y), l + 1)
  <2>1. handle \in [Ids -> {"new", "open", "closed"}]
    BY DEF TypeOK
  <2>2. y # x => handle'[y] = handle[y] /\ a # Creation(y) /\ a # Destruction(y)
    BY <1>1, <2>1, CreationFacts
  <2>3. CASE y # x
    BY <1>3, <1>8, <2>2, <2>3
  <2>4. CASE y = x /\ a = Creation(x) /\ handle[x] = "new" /\ handle'[x] = "open"
    <3>1. a # Destruction(x)
      BY <2>4, CreationFacts
    <3> QED BY <1>3, <1>8, <2>4, <3>1
  <2>5. CASE y = x /\ a = Destruction(x) /\ handle[x] = "open" /\ handle'[x] = "closed"
    <3>1. a # Creation(x)
      BY <2>5, CreationFacts
    <3> QED BY <1>3, <1>8, <2>5, <3>1
  <2>6. CASE y = x /\ a.op = "Publish" /\ handle' = handle
    <3>1. a # Creation(x) /\ a # Destruction(x)
      BY <2>6, CreationFacts
    <3> QED BY <1>3, <1>8, <2>6, <3>1
  <2>7. handle' = [handle EXCEPT ![x] = "open"] => handle'[x] = "open"
    BY <2>1
  <2>8. handle' = [handle EXCEPT ![x] = "closed"] => handle'[x] = "closed"
    BY <2>1
  <2> QED BY <1>1, <2>3, <2>4, <2>5, <2>6, <2>7, <2>8
<1>12. IsCreation(a) \/ IsDestruction(a) => \A k \in 1 .. l : calls[k] # a
  <2>1. IsCreation(a) => a = Creation(x) /\ handle[x] = "new"
    BY <1>1, CreationFacts DEF IsCreation
  <2>2. IsDestruction(a) => a = Destruction(x) /\ handle[x] = "open"
    BY <1>1, CreationFacts DEF IsDestruction
  <2> QED BY <1>8, <2>1, <2>2 DEF Made
<1>13. ASSUME NEW j \in 1 .. l + 1, NEW k \in 1 .. l + 1,
              calls'[j] = calls'[k], IsCreation(calls'[j]) \/ IsDestruction(calls'[j])
       PROVE  j = k
  <2>1. (j \in 1 .. l \/ j = l + 1) /\ (k \in 1 .. l \/ k = l + 1)
    BY <1>2
  <2> QED BY <1>3, <1>8, <1>12, <1>13, <2>1
<1>14. m + 1 <= l + 1
  BY <1>2
<1>15. Visited' = v /\ DOMAIN pending' = 1 .. m + 1 /\ DOMAIN calls' = 1 .. l + 1
       /\ Len(pending') = m + 1 /\ Len(calls') = l + 1
  BY <1>3, <1>5, <1>6
<1> QED BY <1>9, <1>10, <1>11, <1>13, <1>14, <1>15 DEF HistoryInv, v

\* A pop moves the head of the queue to the visit.
LEMMA PopHistory ==
  ASSUME TypeOK, HistoryInv, UNCHANGED <<handle, calls>>, pending # <<>>, pending' = Tail(pending),
         Cur'.act = Head(pending)
  PROVE  /\ HistoryInv' /\ Visited' = Visited + 1
         /\ Visited + 1 \in 1 .. Len(calls) /\ calls[Visited + 1] = Head(pending)
<1> DEFINE m == Len(pending)
           v == Visited
<1>1. /\ v \in Nat /\ Len(calls) = v + m /\ m \in Nat /\ DOMAIN calls = 1 .. v + m /\ DOMAIN pending = 1 .. m
  BY HistoryLengths
<1>2. pending \in Seq(Action)
  BY DEF TypeOK
<1>3. /\ m >= 1 /\ Len(pending') = m - 1 /\ DOMAIN pending' = 1 .. m - 1
      /\ Head(pending) = pending[1] /\ \A i \in 1 .. m - 1 : pending'[i] = pending[i + 1]
  BY <1>1, <1>2, HeadTailProperties
<1>4. Visited' = v + 1
  BY <1>1, <1>3 DEF Visited
<1>5. \A k \in 1 .. m : pending[k] = calls[v + k]
  BY <1>1 DEF HistoryInv
<1> HIDE DEF m, v
<1>6. \A k \in 1 .. m - 1 : pending'[k] = calls[(v + 1) + k]
  <2> SUFFICES ASSUME NEW k \in 1 .. m - 1 PROVE pending'[k] = calls[(v + 1) + k]
    OBVIOUS
  <2>1. k + 1 \in 1 .. m /\ v + (k + 1) = (v + 1) + k
    BY <1>1
  <2> QED BY <1>3, <1>5, <2>1
<1>7. calls[v + 1] = Head(pending) /\ v + 1 \in 1 .. v + m
  BY <1>1, <1>3, <1>5
<1>8. m - 1 <= v + m /\ v + 1 >= 1
  BY <1>1
<1>9. HistoryInv'
  BY <1>1, <1>3, <1>4, <1>6, <1>7, <1>8 DEF HistoryInv
<1> QED BY <1>1, <1>4, <1>7, <1>9 DEF v

\* The other steps of do_work() leave the history alone.
LEMMA StackHistory ==
  ASSUME HistoryInv, UNCHANGED <<handle, calls, pending>>, Cur'.act = Cur.act \/ Cur'.act = Idle
  PROVE  HistoryInv' /\ Visited' = Visited
<1>1. Visited' = Visited
  BY DEF Visited
<1> QED BY <1>1 DEF HistoryInv

-----------------------------------------------------------------------------
(* What is heard is owed                                                    *)

\* The facts of the invariant that the steps below start from.
LEMMA DeliveryFacts ==
  ASSUME DeliveryIInv, life = "up"
  PROVE  /\ StreamsIInv /\ StreamsFaithful /\ HistoryInv /\ BrokerIInv /\ TypeOK /\ MemoryInv /\ SilentInv
         /\ \A c \in Consumers : HeardInv(c)
         /\ \A c \in Consumers, p \in Producers : ListedInv(p, c)
         /\ Cur.i \in Nat /\ Cur.act \in Action \cup {Idle}
         /\ calls \in Seq(Action) /\ DOMAIN calls = 1 .. Len(calls) /\ Len(calls) \in Nat
         /\ Visited \in Nat /\ Visited <= Len(calls)
<1>1. /\ StreamsIInv /\ StreamsFaithful /\ HistoryInv
      /\ \A c \in Consumers : HeardInv(c)
      /\ \A c \in Consumers, p \in Producers : ListedInv(p, c)
  BY DEF DeliveryIInv
<1>2. BrokerIInv /\ TypeOK /\ MemoryInv /\ SilentInv /\ Cur.i \in Nat /\ Cur.act \in Action \cup {Idle}
  BY <1>1, StreamFacts
<1> QED BY <1>1, <1>2, HistoryLengths

\* Which notification a call can owe.
LEMMA OwedBy ==
  ASSUME NEW k, NEW c \in Consumers, NEW n \in Notification, Owes(calls, k, c, n),
         NEW a \in Action, a = calls[k]
  PROVE  /\ n.p \in Producers /\ <<n.p, c>> \in matches
         /\ a.op \in {"InitProducer", "InitConsumer", "Publish", "DestroyProducer"}
         /\ a.op = "InitProducer" => n = Start(n.p) /\ a = InitProducer(n.p)
         /\ a.op = "InitConsumer" => n = Start(n.p) /\ a = InitConsumer(c)
         /\ a.op = "Publish" => n.p = a.p /\ n = Event(a.p, a.ev)
         /\ a.op = "DestroyProducer" => n.p = a.p /\ n = Stop(a.p)
<1>1. /\ n.kind = "START" => n = Start(n.p)
      /\ n.kind = "EVENT" => n = Event(n.p, n.ev)
      /\ n.kind = "STOP" => n = Stop(n.p)
      /\ n.kind \in {"START", "EVENT", "STOP"} /\ n.p \in Producers
  BY NotificationNamed, NotificationFacts
<1>2. /\ InitProducer(n.p).op = "InitProducer" /\ InitConsumer(c).op = "InitConsumer"
      /\ Publish(n.p, n.ev).op = "Publish" /\ DestroyProducer(n.p).op = "DestroyProducer"
      /\ Publish(n.p, n.ev).p = n.p /\ Publish(n.p, n.ev).ev = n.ev /\ DestroyProducer(n.p).p = n.p
  BY DEF InitProducer, InitConsumer, Publish, DestroyProducer
<1>3. /\ n.kind = "START" => a \in {InitProducer(n.p), InitConsumer(c)}
      /\ n.kind = "EVENT" => a = Publish(n.p, n.ev)
      /\ n.kind = "STOP" => a = DestroyProducer(n.p)
      /\ <<n.p, c>> \in matches
  BY <1>1 DEF Owes
<1>4. CASE n.kind = "START"
  BY <1>1, <1>2, <1>3, <1>4
<1>5. CASE n.kind = "EVENT"
  BY <1>1, <1>2, <1>3, <1>5
<1>6. CASE n.kind = "STOP"
  BY <1>1, <1>2, <1>3, <1>6
<1> QED BY <1>1, <1>4, <1>5, <1>6

\* A call owes nothing about a producer, or to a consumer, that was not there.
LEMMA OwedStanding ==
  ASSUME NEW k, NEW c \in Consumers, NEW n \in Notification, Owes(calls, k, c, n)
  PROVE  /\ Made(calls, Creation(n.p), k) /\ ~Made(calls, Destruction(n.p), k - 1)
         /\ Made(calls, Creation(c), k) /\ ~Made(calls, Destruction(c), k)
<1>1. n.p \in Producers
  BY NotificationFacts
<1> QED BY <1>1, KindOfId DEF Owes

\* One more notification is heard.
LEMMA ToldMore ==
  ASSUME TypeOK, NEW c \in Consumers, NEW n \in Notification, seen' = [seen EXCEPT ![c] = Append(@, n)]
  PROVE  /\ Told(c, n)'
         /\ \A d \in Consumers, e \in Notification : Told(d, e) => Told(d, e)'
<1> DEFINE m == Len(seen[c])
<1>1. seen \in [Consumers -> Seq(Notification)] /\ seen[c] \in Seq(Notification)
  BY DEF TypeOK
<1>2. seen'[c] = Append(seen[c], n) /\ \A d \in Consumers : d # c => seen'[d] = seen[d]
  BY <1>1
<1>3. /\ m \in Nat /\ DOMAIN seen[c] = 1 .. m /\ DOMAIN seen'[c] = 1 .. m + 1 /\ seen'[c][m + 1] = n
      /\ \A i \in 1 .. m : seen'[c][i] = seen[c][i]
  BY <1>1, <1>2, AppendProperties
<1> HIDE DEF m
<1>4. Told(c, n)'
  BY <1>3 DEF Told
<1>5. ASSUME NEW d \in Consumers, NEW e \in Notification, Told(d, e) PROVE Told(d, e)'
  <2>1. CASE d # c
    BY <1>2, <1>5, <2>1 DEF Told
  <2>2. CASE d = c
    <3>1. \A i \in 1 .. m : i \in 1 .. m + 1
      BY <1>3
    <3> QED BY <1>3, <1>5, <2>2, <3>1 DEF Told
  <2> QED BY <2>1, <2>2
<1> QED BY <1>4, <1>5

\* Calls and steps that tell nobody anything keep the deliveries faithful.
LEMMA FaithfulGrows ==
  ASSUME TypeOK, StreamsFaithful, seen' = seen, matches' = matches,
         calls' = calls \/ \E a \in Action : calls' = Append(calls, a)
  PROVE  StreamsFaithful'
<1> DEFINE l == Len(calls)
<1>1. calls \in Seq(Action) /\ l \in Nat /\ DOMAIN calls = 1 .. l
  BY DEF TypeOK
<1>2. \A k \in 1 .. l : \A c, n : Owes(calls, k, c, n)' <=> Owes(calls, k, c, n)
  <2>1. CASE calls' = calls
    BY <2>1 DEF Owes
  <2>2. CASE \E a \in Action : calls' = Append(calls, a)
    BY <1>1, <2>2, OwesStable
  <2> QED BY <2>1, <2>2
<1>3. 1 .. l \subseteq DOMAIN calls'
  <2>1. CASE calls' = calls
    BY <1>1, <2>1
  <2>2. CASE \E a \in Action : calls' = Append(calls, a)
    <3>1. PICK a \in Action : calls' = Append(calls, a)
      BY <2>2
    <3>2. DOMAIN calls' = 1 .. l + 1
      <4>1. calls' \in {Append(calls, a)}
        BY <3>1
      <4> QED BY <1>1, <4>1, MadeAppend
    <3> QED BY <1>1, <3>2
  <2> QED BY <2>1, <2>2
<1> HIDE DEF l
<1> SUFFICES ASSUME NEW c \in Consumers, NEW i \in DOMAIN seen[c]
             PROVE  /\ \A j \in 1 .. i - 1 : seen[c][j] # seen[c][i]
                    /\ \E k \in DOMAIN calls' :
                         /\ Owes(calls, k, c, seen[c][i])'
                         /\ \A j \in 1 .. k - 1, n \in Notification :
                              Owes(calls, j, c, n)' => \E m \in 1 .. i - 1 : seen[c][m] = n
  BY DEF StreamsFaithful
<1>4. PICK k \in 1 .. l :
        /\ Owes(calls, k, c, seen[c][i])
        /\ \A j \in 1 .. k - 1, n \in Notification : Owes(calls, j, c, n) => \E m \in 1 .. i - 1 : seen[c][m] = n
  BY <1>1 DEF StreamsFaithful
<1>5. \A j \in 1 .. k - 1 : j \in 1 .. l
  BY <1>1
<1>6. Owes(calls, k, c, seen[c][i])'
  BY <1>2, <1>4
<1>7. \A j \in 1 .. k - 1, n \in Notification : Owes(calls, j, c, n)' => \E m \in 1 .. i - 1 : seen[c][m] = n
  BY <1>2, <1>4, <1>5
<1> QED BY <1>3, <1>6, <1>7 DEF StreamsFaithful


\* A notification that the visited call owes, to one who heard all that earlier calls owe.
LEMMA HeardFaithful ==
  ASSUME TypeOK, HistoryInv, StreamsFaithful, StreamsWellFormed', UNCHANGED <<calls, matches>>,
         NEW c \in Consumers, NEW n \in Notification, seen' = [seen EXCEPT ![c] = Append(@, n)],
         notify[c] = "user", HeardInv(c), Visited >= 1, Owes(calls, Visited, c, n)
  PROVE  StreamsFaithful'
<1> DEFINE s == seen[c]
           m == Len(s)
           t == seen'[c]
           v == Visited
<1>1. seen \in [Consumers -> Seq(Notification)] /\ s \in Seq(Notification)
  BY DEF TypeOK
<1>2. t = Append(s, n) /\ \A d \in Consumers : d # c => seen'[d] = seen[d]
  BY <1>1
<1>3. /\ m \in Nat /\ DOMAIN s = 1 .. m /\ DOMAIN t = 1 .. m + 1 /\ t[m + 1] = n
      /\ \A i \in 1 .. m : t[i] = s[i]
  BY <1>1, <1>2, AppendProperties
<1>4. v \in DOMAIN calls /\ v \in Nat
  BY HistoryLengths
<1>5. \A k, d, e : Owes(calls, k, d, e)' <=> Owes(calls, k, d, e)
  BY DEF Owes
<1>6. \A j \in 1 .. v - 1, e \in Notification : Owes(calls, j, c, e) => \E i \in 1 .. m : s[i] = e
  <2>1. \A j \in 1 .. v - 1 : j \in 1 .. v /\ j # v
    BY <1>4
  <2> QED BY <1>3, <2>1 DEF HeardInv, Told
<1>7. Owes(calls, v, c, n)
  OBVIOUS
<1> HIDE DEF s, m, t, v
<1>8. ASSUME NEW j \in 1 .. m PROVE t[j] # n
  <2>1. SUFFICES ASSUME t[j] = n PROVE FALSE
    OBVIOUS
  <2>2. m + 1 \in DOMAIN t /\ (m + 1) - 1 = m
    BY <1>3
  <2>3. LET Before == {i \in 1 .. (m + 1) - 1 : t[i].p = t[m + 1].p}
        IN /\ t[m + 1].kind = "START" <=> Before = {}
           /\ \A i \in Before : t[i].kind # "STOP"
           /\ t[m + 1].kind = "EVENT" => \A i \in Before : t[i].kind = "EVENT" => t[i].ev < t[m + 1].ev
    BY <2>2 DEF StreamsWellFormed, t
  <2>4. j \in {i \in 1 .. (m + 1) - 1 : t[i].p = t[m + 1].p}
    BY <1>3, <2>1, <2>2
  <2>5. n.kind # "START" /\ n.kind # "STOP" /\ (n.kind = "EVENT" => n.ev < n.ev)
    BY <1>3, <2>1, <2>3, <2>4
  <2>6. n.kind \in {"START", "EVENT", "STOP"} /\ (n.kind = "EVENT" => n.ev \in 1 .. MaxEvents)
    BY NotificationFacts
  <2> QED BY <2>5, <2>6, BrokerAssumption
<1> SUFFICES ASSUME NEW d \in Consumers, NEW i \in DOMAIN seen'[d]
             PROVE  /\ \A j \in 1 .. i - 1 : seen'[d][j] # seen'[d][i]
                    /\ \E k \in DOMAIN calls :
                         /\ Owes(calls, k, d, seen'[d][i])
                         /\ \A j \in 1 .. k - 1, e \in Notification :
                              Owes(calls, j, d, e) => \E q \in 1 .. i - 1 : seen'[d][q] = e
  BY <1>5 DEF StreamsFaithful
<1>9. CASE d # c
  <2>1. seen'[d] = seen[d]
    BY <1>2, <1>9
  <2>2. i \in DOMAIN seen[d]
    BY <2>1
  <2>3. /\ \A j \in 1 .. i - 1 : seen[d][j] # seen[d][i]
        /\ \E k \in DOMAIN calls :
             /\ Owes(calls, k, d, seen[d][i])
             /\ \A j \in 1 .. k - 1, e \in Notification :
                  Owes(calls, j, d, e) => \E q \in 1 .. i - 1 : seen[d][q] = e
    BY <2>2 DEF StreamsFaithful
  <2> QED BY <2>1, <2>3
<1>10. CASE d = c /\ i \in 1 .. m
  <2>1. i \in DOMAIN s /\ t[i] = s[i] /\ \A j \in 1 .. i - 1 : t[j] = s[j]
    BY <1>3, <1>10
  <2>2. /\ \A j \in 1 .. i - 1 : s[j] # s[i]
        /\ \E k \in DOMAIN calls :
             /\ Owes(calls, k, c, s[i])
             /\ \A j \in 1 .. k - 1, e \in Notification : Owes(calls, j, c, e) => \E q \in 1 .. i - 1 : s[q] = e
    BY <2>1 DEF StreamsFaithful, s
  <2>3. /\ \A j \in 1 .. i - 1 : t[j] # t[i]
        /\ \E k \in DOMAIN calls :
             /\ Owes(calls, k, c, t[i])
             /\ \A j \in 1 .. k - 1, e \in Notification : Owes(calls, j, c, e) => \E q \in 1 .. i - 1 : t[q] = e
    BY <2>1, <2>2
  <2> QED BY <1>10, <2>3 DEF t
<1>11. CASE d = c /\ i = m + 1
  <2>1. i - 1 = m /\ t[i] = n /\ \A j \in 1 .. m : t[j] = s[j]
    BY <1>3, <1>11
  <2>2. \A j \in 1 .. i - 1 : t[j] # t[i]
    BY <1>8, <2>1
  <2>3. \A j \in 1 .. v - 1, e \in Notification : Owes(calls, j, c, e) => \E q \in 1 .. i - 1 : t[q] = e
    BY <1>6, <2>1
  <2>4. v \in DOMAIN calls /\ Owes(calls, v, c, t[i])
    BY <1>4, <1>7, <2>1
  <2> QED BY <1>11, <2>2, <2>3, <2>4 DEF t
<1>12. d = c => i \in 1 .. m \/ i = m + 1
  BY <1>3 DEF t
<1> QED BY <1>9, <1>10, <1>11, <1>12

-----------------------------------------------------------------------------
(* The steps                                                                *)

\* An API call owes something at its visit, and nothing before.
LEMMA ApiDelivery ==
  ASSUME MaxDepth = 1, DeliveryIInv, StreamsIInv', Api, matches' = matches
  PROVE  DeliveryIInv'
<1>1. BrokerIInv
  BY DEF DeliveryIInv, StreamsIInv
<1>2. life = "up" /\ life' = "up" /\ UNCHANGED <<producers, consumers, subs>>
  BY <1>1, ApiKeeps
<1>3. /\ StreamsIInv /\ StreamsFaithful /\ HistoryInv /\ TypeOK
      /\ \A c \in Consumers : HeardInv(c)
      /\ \A c \in Consumers, p \in Producers : ListedInv(p, c)
      /\ calls \in Seq(Action) /\ Len(calls) \in Nat /\ Visited \in Nat /\ Visited <= Len(calls)
  BY <1>2, DeliveryFacts
<1>4. \A c \in Consumers, p \in Producers : c \in Range(subs[p]) => handle[c] # "new"
  BY <1>2, <1>3, StreamFacts
<1>5. PICK a \in Action :
           /\ calls' = Append(calls, a) /\ UNCHANGED <<seen, frames>>
           /\ \A c \in Consumers : notify'[c] = "user" => notify[c] = "user" \/ handle[c] = "new"
  BY <1>3, ApiFacts
<1>6. HistoryInv' /\ Visited' = Visited
  BY <1>3, <1>5, ApiHistory
<1>7. StreamsFaithful'
  BY <1>3, <1>5, FaithfulGrows
<1>8. Cur' = Cur
  BY <1>5 DEF Cur
<1>9. \A c, p, n : /\ Told(c, n)' <=> Told(c, n)
                   /\ ToMatch(p, c)' <=> ToMatch(p, c)
                   /\ Awaits(p, c)' <=> Awaits(p, c)
  BY <1>2, <1>5, <1>8 DEF Told, ToMatch, Awaits, Passed
<1>10. ASSUME NEW c \in Consumers PROVE HeardInv(c)'
  <2> SUFFICES ASSUME notify'[c] = "user", NEW k \in 1 .. Visited, NEW n \in Notification, Owes(calls, k, c, n)'
               PROVE  Told(c, n) \/ (k = Visited /\ Awaits(n.p, c))
    BY <1>6, <1>9 DEF HeardInv
  <2>1. k \in 1 .. Len(calls)
    BY <1>3
  <2>2. Owes(calls, k, c, n)
    BY <1>3, <1>5, <2>1, OwesStable
  <2>3. handle[c] # "new"
    <3>1. c \in Ids /\ Made(calls, Creation(c), k)
      BY <2>2, OwedStanding, KindOfId
    <3>2. Made(calls, Creation(c), Len(calls))
      BY <1>3, <2>1, <3>1 DEF Made
    <3> QED BY <1>3, <3>1, <3>2 DEF HistoryInv
  <2> QED BY <1>3, <1>5, <2>2, <2>3 DEF HeardInv
<1>11. ASSUME NEW c \in Consumers, NEW p \in Producers PROVE ListedInv(p, c)'
  <2>1. ListedInv(p, c) /\ (c \in Range(subs[p]) => handle[c] # "new")
    BY <1>3, <1>4
  <2>2. \A x : Registered(x)' <=> Registered(x)
    BY <1>2 DEF Registered
  <2> QED BY <1>2, <1>5, <1>8, <1>9, <2>1, <2>2 DEF ListedInv
<1> QED BY <1>6, <1>7, <1>10, <1>11 DEF DeliveryIInv


\* Between two visits nobody waits to be told anything.
LEMMA NobodyAwaits ==
  ASSUME NEW p \in Producers, NEW c \in Consumers, Cur.act = Idle PROVE ~ToMatch(p, c) /\ ~Awaits(p, c)
<1>1. InitProducer(p) # Idle /\ InitConsumer(c) # Idle /\ Idle.op \notin {"Publish", "DestroyProducer"}
  BY DEF InitProducer, InitConsumer, Idle
<1> QED BY <1>1 DEF ToMatch, Awaits

\* What popping an action registers and takes out.
VisitRegisters(a, x) ==
  /\ a.op # "DestroyConsumer" => subs' = subs
  /\ IF IsCreation(a) THEN \A y \in Ids : Registered(y)' <=> Registered(y) \/ y = x
     ELSE IF IsDestruction(a) THEN \A y \in Ids : Registered(y)' <=> Registered(y) /\ y # x
     ELSE \A y \in Ids : Registered(y)' <=> Registered(y)
  /\ a.op # "InitProducer" /\ a.op # "DestroyProducer" => producers' = producers
  /\ a.op # "InitConsumer" /\ a.op # "DestroyConsumer" => consumers' = consumers

\* The visits do that, and a consumer stays listed unless it is the one destroyed.
LEMMA VisitRegistered ==
  ASSUME MaxDepth = 1, BrokerIInv, BrokerIInv', Visit, NEW a, NEW x, a = Head(pending), x = Target(a)
  PROVE  /\ a \in Action /\ x \in Ids
         /\ VisitRegisters(a, x)
         /\ Registered(x) <=> ~IsCreation(a)
         /\ \A p \in Producers, c \in Consumers :
              c \in Range(subs[p]) /\ (a.op = "DestroyConsumer" => c # x) => c \in Range(subs'[p])
<1>1. PICK op : Pop(op)
  BY DEF Visit, VisitInitProducer, VisitInitConsumer, VisitPublish, VisitDestroyProducer, VisitDestroyConsumer
<1>2. MemoryInv /\ TypeOK /\ a \in Action /\ a.op = op
  BY <1>1, PopFacts
<1>3. x \in Ids /\ (Registered(x) <=> ~IsCreation(a))
  BY <1>1, PopMemory
<1>4. /\ producers \in Seq(Producers) /\ consumers \in Seq(Consumers) /\ subs \in [Producers -> Seq(Consumers)]
      /\ Distinct(producers) /\ Distinct(consumers) /\ \A p \in Producers : Distinct(subs[p])
  BY <1>2 DEF TypeOK, MemoryInv, SubsInv
<1>5. /\ a.op = "InitProducer" => x \in Producers /\ a.p = x /\ IsCreation(a)
      /\ a.op = "DestroyProducer" => x \in Producers /\ a.p = x /\ IsDestruction(a) /\ ~IsCreation(a)
      /\ a.op = "Publish" => ~IsCreation(a) /\ ~IsDestruction(a)
      /\ a.op = "InitConsumer" => x \in Consumers /\ a.c = x /\ IsCreation(a)
      /\ a.op = "DestroyConsumer" => x \in Consumers /\ a.c = x /\ IsDestruction(a) /\ ~IsCreation(a)
  BY <1>2, ActionNamed DEF IsCreation, IsDestruction
<1>6. /\ \A p \in Producers : (Registered(p) <=> p \in Range(producers)) /\ p \notin Consumers
      /\ \A c \in Consumers : (Registered(c) <=> c \in Range(consumers)) /\ c \notin Producers
  BY <1>2, KindsApart
<1>7. CASE VisitInitProducer
  <2>1. op = "InitProducer" /\ producers' = Append(producers, x) /\ UNCHANGED <<consumers, subs>>
    BY <1>1, <1>2, <1>5, <1>7, PopFacts DEF VisitInitProducer, Pop
  <2>2. Range(producers') = Range(producers) \cup {x}
    BY <1>2, <1>4, <1>5, <2>1, AppendDistinct
  <2> QED BY <1>2, <1>3, <1>5, <2>1, <2>2 DEF VisitRegisters, Registered
<1>8. CASE VisitInitConsumer
  <2>1. op = "InitConsumer" /\ consumers' = Append(consumers, x) /\ UNCHANGED <<producers, subs>>
    BY <1>1, <1>2, <1>5, <1>8, PopFacts DEF VisitInitConsumer, Pop
  <2>2. Range(consumers') = Range(consumers) \cup {x}
    BY <1>2, <1>4, <1>5, <2>1, AppendDistinct
  <2> QED BY <1>2, <1>3, <1>5, <2>1, <2>2 DEF VisitRegisters, Registered
<1>9. CASE VisitPublish
  <2>1. op = "Publish" /\ UNCHANGED <<producers, consumers, subs>>
    BY <1>1, <1>2, <1>9 DEF VisitPublish, Pop
  <2> QED BY <1>2, <1>3, <1>5, <2>1 DEF VisitRegisters, Registered
<1>10. CASE VisitDestroyProducer
  <2>1. op = "DestroyProducer" /\ producers' = RemoveFirst(producers, x) /\ UNCHANGED <<consumers, subs>>
    BY <1>1, <1>2, <1>5, <1>10 DEF VisitDestroyProducer, Pop
  <2>2. Range(producers') = Range(producers) \ {x} /\ x \notin Range(consumers)
    <3>1. Range(RemoveFirst(producers, x)) = Range(producers) \ {x}
      BY <1>4, RemoveFirstDistinct
    <3>2. x \notin Consumers /\ Range(consumers) \subseteq Consumers
      BY <1>2, <1>4, <1>5, <1>6, <2>1 DEF Range
    <3> QED BY <2>1, <3>1, <3>2
  <2> QED BY <1>2, <1>3, <1>5, <2>1, <2>2 DEF VisitRegisters, Registered
<1>11. CASE VisitDestroyConsumer
  <2>1. /\ op = "DestroyConsumer" /\ consumers' = RemoveFirst(consumers, x) /\ UNCHANGED producers
        /\ subs' = [q \in Producers |-> IF Contains(producers, q) THEN RemoveFirst(subs[q], x) ELSE subs[q]]
    BY <1>1, <1>2, <1>5, <1>11 DEF VisitDestroyConsumer, MaybeRemove, Pop
  <2>2. Range(consumers') = Range(consumers) \ {x} /\ x \notin Range(producers)
    <3>1. Range(RemoveFirst(consumers, x)) = Range(consumers) \ {x}
      BY <1>4, RemoveFirstDistinct
    <3>2. x \notin Producers /\ Range(producers) \subseteq Producers
      BY <1>2, <1>4, <1>5, <1>6, <2>1 DEF Range
    <3> QED BY <2>1, <3>1, <3>2
  <2>3. ASSUME NEW p \in Producers PROVE Range(subs[p]) \ {x} \subseteq Range(subs'[p])
    <3>1. Range(RemoveFirst(subs[p], x)) = Range(subs[p]) \ {x}
      BY <1>4, RemoveFirstDistinct
    <3> QED BY <2>1, <3>1
  <2>4. VisitRegisters(a, x)
    BY <1>2, <1>5, <2>1, <2>2 DEF VisitRegisters, Registered
  <2> QED BY <1>2, <1>3, <2>1, <2>3, <2>4
<1> QED BY <1>7, <1>8, <1>9, <1>10, <1>11 DEF Visit


\* What Made says of one more call.
LEMMA MadeNext ==
  ASSUME NEW h, NEW v \in Nat, NEW b
  PROVE  Made(h, b, v + 1) <=> Made(h, b, v) \/ h[v + 1] = b
<1>1. \A j : j \in 1 .. v + 1 <=> j \in 1 .. v \/ j = v + 1
  OBVIOUS
<1> QED BY <1>1 DEF Made

\* The visit of a call begins: what it owes is what its loop ranges over.
LEMMA VisitDelivery ==
  ASSUME MaxDepth = 1, DeliveryIInv, StreamsIInv', Visit, matches' = matches
  PROVE  DeliveryIInv'
<1>0. BrokerIInv /\ BrokerIInv'
  BY DEF DeliveryIInv, StreamsIInv
<1>1. PICK op : Pop(op)
  BY DEF Visit, VisitInitProducer, VisitInitConsumer, VisitPublish, VisitDestroyProducer, VisitDestroyConsumer
<1>2. PICK a : a = Head(pending)
  OBVIOUS
<1>3. PICK x : x = Target(a)
  OBVIOUS
<1>4. /\ life = "up" /\ Cur.act = Idle /\ pending # <<>> /\ pending' = Tail(pending)
      /\ Cur'.act = a /\ Cur'.i = 1
      /\ UNCHANGED <<handle, notify, calls, seen>>
  BY <1>0, <1>1, <1>2, PopFacts
<1>5. /\ a \in Action /\ x \in Ids /\ VisitRegisters(a, x) /\ (Registered(x) <=> ~IsCreation(a))
      /\ \A p \in Producers, c \in Consumers :
           c \in Range(subs[p]) /\ (a.op = "DestroyConsumer" => c # x) => c \in Range(subs'[p])
  BY <1>0, <1>2, <1>3, VisitRegistered
<1>6. /\ StreamsFaithful /\ HistoryInv /\ TypeOK /\ MemoryInv
      /\ \A c \in Consumers : HeardInv(c)
      /\ \A c \in Consumers, p \in Producers : ListedInv(p, c)
      /\ Visited \in Nat
  BY <1>4, DeliveryFacts
<1>7. HistoryInv' /\ Visited' = Visited + 1 /\ calls[Visited + 1] = a
  BY <1>2, <1>4, <1>6, PopHistory
<1>8. StreamsFaithful'
  BY <1>4, <1>6, FaithfulGrows
<1>9. \A p \in Producers, c \in Consumers : ~ToMatch(p, c) /\ ~Awaits(p, c)
  BY <1>4, NobodyAwaits
<1>10. /\ \A p \in Producers : (Registered(p) <=> p \in Range(producers)) /\ p \in Ids
       /\ \A c \in Consumers : (Registered(c) <=> c \in Range(consumers)) /\ c \in Ids
  BY <1>6, KindsApart
<1>11. \A p \in Producers, c \in Consumers :
         <<p, c>> \in matches /\ Registered(c) /\ Registered(p) => c \in Range(subs[p])
  BY <1>6, <1>9 DEF ListedInv
<1>12. /\ \A p \in Producers : InitProducer(p).op = "InitProducer" /\ InitProducer(p).p = p
       /\ \A c \in Consumers : InitConsumer(c).op = "InitConsumer" /\ InitConsumer(c).c = c
       /\ \A p \in Producers : DestroyProducer(p).op = "DestroyProducer" /\ DestroyProducer(p).p = p
  BY DEF InitProducer, InitConsumer, DestroyProducer
<1>13. ASSUME NEW p \in Producers, NEW c \in Consumers
       PROVE  /\ a = InitProducer(p) /\ c \in Range(consumers) => ToMatch(p, c)'
              /\ a = InitConsumer(c) /\ p \in Range(producers) => ToMatch(p, c)'
  <2>1. a = InitProducer(p) => consumers' = consumers
    BY <1>5, <1>12 DEF VisitRegisters
  <2>2. a = InitConsumer(c) => producers' = producers
    BY <1>5, <1>12 DEF VisitRegisters
  <2>3. c \in Range(consumers) => \E j \in DOMAIN consumers : j >= 1 /\ consumers[j] = c
    BY <1>6 DEF Range, TypeOK
  <2>4. p \in Range(producers) => \E j \in DOMAIN producers : j >= 1 /\ producers[j] = p
    BY <1>6 DEF Range, TypeOK
  <2> QED BY <1>4, <2>1, <2>2, <2>3, <2>4 DEF ToMatch
<1>14. ASSUME NEW c \in Consumers PROVE HeardInv(c)'
  <2> SUFFICES ASSUME notify[c] = "user", NEW k \in 1 .. Visited + 1, NEW n \in Notification, Owes(calls, k, c, n)
               PROVE  Told(c, n) \/ (k = Visited + 1 /\ Awaits(n.p, c)')
    BY <1>4, <1>7 DEF HeardInv, Owes, Told
  <2>0. n.p \in Producers
    BY NotificationFacts
  <2>1. CASE k \in 1 .. Visited
    BY <1>6, <1>9, <2>0, <2>1 DEF HeardInv
  <2>2. CASE k = Visited + 1
    <3>1. /\ <<n.p, c>> \in matches
          /\ a.op \in {"InitProducer", "InitConsumer", "Publish", "DestroyProducer"}
          /\ a.op = "InitProducer" => a = InitProducer(n.p)
          /\ a.op = "InitConsumer" => a = InitConsumer(c)
          /\ a.op = "Publish" => n.p = a.p
          /\ a.op = "DestroyProducer" => n.p = a.p
      BY <1>5, <1>7, <2>2, OwedBy
    <3>2. /\ Made(calls, Creation(n.p), Visited + 1) /\ ~Made(calls, Destruction(n.p), Visited)
          /\ Made(calls, Creation(c), Visited + 1) /\ ~Made(calls, Destruction(c), Visited + 1)
      <4>1. (Visited + 1) - 1 = Visited
        BY <1>6
      <4> QED BY <2>2, <4>1, OwedStanding
    <3>3. /\ Made(calls, Creation(n.p), Visited) \/ a = Creation(n.p)
          /\ Made(calls, Creation(c), Visited) \/ a = Creation(c)
          /\ ~Made(calls, Destruction(c), Visited)
      BY <1>6, <1>7, <3>2, MadeNext
    <3>4. /\ Registered(n.p) <=> Made(calls, Creation(n.p), Visited) /\ ~Made(calls, Destruction(n.p), Visited)
          /\ Registered(c) <=> Made(calls, Creation(c), Visited) /\ ~Made(calls, Destruction(c), Visited)
      BY <1>6, <1>10, <2>0, Standing
    <3>5. Creation(n.p) = InitProducer(n.p) /\ Creation(c) = InitConsumer(c)
      BY <2>0, KindOfId
    <3>6. CASE a.op = "InitProducer"
      <4>1. Registered(c)
        BY <1>12, <2>0, <3>2, <3>3, <3>4, <3>5, <3>6
      <4> QED BY <1>10, <1>13, <2>0, <2>2, <3>1, <3>6, <4>1 DEF Awaits
    <3>7. CASE a.op = "InitConsumer"
      <4>1. Registered(n.p)
        BY <1>12, <2>0, <3>2, <3>3, <3>4, <3>5, <3>7
      <4> QED BY <1>10, <1>13, <2>0, <2>2, <3>1, <3>7, <4>1 DEF Awaits
    <3>8. CASE a.op \in {"Publish", "DestroyProducer"}
      <4>1. Registered(c) /\ Registered(n.p)
        BY <1>12, <2>0, <3>2, <3>3, <3>4, <3>5, <3>8
      <4>2. c \in Range(subs[n.p]) /\ subs' = subs /\ n.p = a.p
        BY <1>5, <1>11, <2>0, <3>1, <3>8, <4>1 DEF VisitRegisters
      <4>3. \E j \in DOMAIN subs[n.p] : j >= 1 /\ subs[n.p][j] = c
        BY <1>6, <2>0, <4>2 DEF Range, TypeOK
      <4>4. ~Passed(n.p, c)'
        BY <1>4, <4>2, <4>3 DEF Passed
      <4> QED BY <1>4, <2>2, <3>8, <4>2, <4>4 DEF Awaits
    <3> QED BY <3>1, <3>6, <3>7, <3>8
  <2> QED BY <1>6, <2>1, <2>2
<1>15. ASSUME NEW c \in Consumers, NEW p \in Producers PROVE ListedInv(p, c)'
  <2>1. c \in Range(subs'[p]) => c \in Range(subs[p])
    BY <1>0, VisitSubs
  <2>2. c \in Range(subs'[p]) => <<p, c>> \in matches' /\ (notify'[c] = "user" => Told(c, Start(p))')
    BY <1>4, <1>6, <2>1 DEF ListedInv, Told
  <2>3. ASSUME <<p, c>> \in matches, Registered(c)', Registered(p)' \/ a = DestroyProducer(p)
        PROVE  c \in Range(subs'[p]) \/ ToMatch(p, c)'
    <3>1. /\ a.op = "InitProducer" => a = InitProducer(x) /\ x \in Producers /\ IsCreation(a)
          /\ a.op = "DestroyProducer" => a = DestroyProducer(x) /\ x \in Producers /\ IsDestruction(a) /\ ~IsCreation(a)
          /\ a.op = "Publish" => ~IsCreation(a) /\ ~IsDestruction(a)
          /\ a.op = "InitConsumer" => a = InitConsumer(x) /\ x \in Consumers /\ IsCreation(a)
          /\ a.op = "DestroyConsumer" => x \in Consumers /\ IsDestruction(a) /\ ~IsCreation(a)
          /\ a.op \in {"InitProducer", "DestroyProducer", "Publish", "InitConsumer", "DestroyConsumer"}
      BY <1>3, <1>5, ActionNamed, ActionFacts DEF IsCreation, IsDestruction
    <3>2. c \in Ids /\ p \in Ids /\ p \notin Consumers /\ c \notin Producers
      BY <1>6, KindsApart
    <3>3. CASE Registered(c) /\ Registered(p) /\ (a.op = "DestroyConsumer" => c # x)
      BY <1>5, <1>11, <2>3, <3>3
    <3>4. CASE a.op = "InitProducer"
      <4>1. Registered(c) /\ (Registered(p) \/ p = x)
        BY <1>5, <1>12, <2>3, <3>1, <3>2, <3>4 DEF VisitRegisters
      <4>2. CASE p = x
        BY <1>10, <1>13, <3>1, <3>4, <4>1, <4>2
      <4> QED BY <3>3, <3>4, <4>1, <4>2
    <3>5. CASE a.op = "InitConsumer"
      <4>1. Registered(p) /\ (Registered(c) \/ c = x)
        BY <1>5, <1>12, <2>3, <3>1, <3>2, <3>5 DEF VisitRegisters
      <4>2. CASE c = x
        BY <1>10, <1>13, <3>1, <3>5, <4>1, <4>2
      <4> QED BY <3>3, <3>5, <4>1, <4>2
    <3>6. CASE a.op = "Publish"
      BY <1>5, <1>12, <2>3, <3>1, <3>2, <3>3, <3>6 DEF VisitRegisters
    <3>7. CASE a.op = "DestroyProducer"
      <4>1. Registered(c)
        BY <1>5, <2>3, <3>1, <3>2, <3>7 DEF VisitRegisters
      <4>2. a = DestroyProducer(p) => p = x
        BY <1>12, <3>1, <3>7
      <4>3. Registered(p)
        BY <1>5, <2>3, <3>1, <3>2, <3>7, <4>2 DEF VisitRegisters
      <4> QED BY <3>3, <3>7, <4>1, <4>3
    <3>8. CASE a.op = "DestroyConsumer"
      BY <1>5, <1>12, <2>3, <3>1, <3>2, <3>3, <3>8 DEF VisitRegisters
    <3> QED BY <3>1, <3>4, <3>5, <3>6, <3>7, <3>8
  <2> QED BY <1>4, <2>2, <2>3 DEF ListedInv
<1> QED BY <1>7, <1>8, <1>14, <1>15 DEF DeliveryIInv


\* The visit under way is the last call taken off the queue.
LEMMA CurIsVisited ==
  ASSUME HistoryInv, Cur.act \in Action
  PROVE  Visited >= 1 /\ calls[Visited] = Cur.act
<1>1. Cur.act # Idle
  BY ActionFacts
<1> QED BY <1>1 DEF HistoryInv

\* A turn of the loops that offer a consumer to a producer: the pair is matched, or had
\* not to be.
LEMMA MaybeAddDelivery ==
  ASSUME MaxDepth = 1, DeliveryIInv, StreamsIInv', MaybeAdd, matches' = matches
  PROVE  DeliveryIInv'
<1>0. BrokerIInv /\ StreamsWellFormed'
  BY DEF DeliveryIInv, StreamsIInv
<1>1. /\ life = "up" /\ Cur'.act = Cur.act /\ Cur'.i = Cur.i + 1 /\ Cur.i \in Nat
      /\ UNCHANGED <<handle, producers, consumers, pending, heap, notify, calls>>
  BY <1>0, MaybeAddTurn
<1>2. PICK p \in Producers, c \in Consumers :
        /\ \/ /\ Cur.act.op = "InitProducer" /\ p = Cur.act.p
              /\ Cur.i \in DOMAIN consumers /\ c = consumers[Cur.i]
           \/ /\ Cur.act.op = "InitConsumer" /\ c = Cur.act.c
              /\ Cur.i \in DOMAIN producers /\ p = producers[Cur.i]
        /\ \/ subs' = [subs EXCEPT ![p] = Append(@, c)] /\ Heard(c, Start(p)) /\ <<p, c>> \in matches
           \/ subs' = subs /\ seen' = seen /\ <<p, c>> \notin matches
  BY <1>0, MaybeAddTurn
<1>3. /\ StreamsFaithful /\ HistoryInv /\ TypeOK /\ MemoryInv
      /\ \A d \in Consumers : HeardInv(d)
      /\ \A d \in Consumers, q \in Producers : ListedInv(q, d)
      /\ Visited \in Nat /\ Cur.act \in Action \cup {Idle}
  BY <1>1, DeliveryFacts
<1>4. /\ Cur.act \in Action
      /\ Cur.act.op = "InitProducer" => Cur.act = InitProducer(p)
      /\ Cur.act.op = "InitConsumer" => Cur.act = InitConsumer(c)
      /\ Cur.act.op \in {"InitProducer", "InitConsumer"}
  <2>1. Cur.act \in Action
    BY <1>2, <1>3, IdleFacts
  <2> QED BY <1>2, <2>1, ActionNamed
<1>5. Visited >= 1 /\ calls[Visited] = Cur.act
  BY <1>3, <1>4, CurIsVisited
<1>6. HistoryInv' /\ Visited' = Visited
  BY <1>1, <1>3, StackHistory
<1>7. /\ \A q, e : InitProducer(q).op = "InitProducer" /\ InitProducer(q).p = q
      /\ \A d, e : InitConsumer(d).op = "InitConsumer" /\ InitConsumer(d).c = d
      /\ \A q : DestroyProducer(q).op = "DestroyProducer"
  BY DEF InitProducer, InitConsumer, DestroyProducer
<1>8. ASSUME NEW q \in Producers, NEW d \in Consumers, ToMatch(q, d)
      PROVE  ToMatch(q, d)' \/ (q = p /\ d = c)
  <2>1. \A j \in Nat : j >= Cur.i => j = Cur.i \/ j >= Cur.i + 1
    BY <1>1
  <2>2. CASE Cur.act = InitProducer(q)
    <3>1. PICK j \in DOMAIN consumers : j >= Cur.i /\ consumers[j] = d
      BY <1>7, <1>8, <2>2 DEF ToMatch
    <3>2. j \in Nat /\ q = p /\ (j = Cur.i => d = c)
      <4>1. DOMAIN consumers = 1 .. Len(consumers)
        BY <1>3 DEF TypeOK
      <4>2. q = p /\ (j = Cur.i => d = c)
        BY <1>2, <1>7, <2>2, <3>1
      <4> QED BY <3>1, <4>1, <4>2
    <3> QED BY <1>1, <2>1, <2>2, <3>1, <3>2 DEF ToMatch
  <2>3. CASE Cur.act = InitConsumer(d)
    <3>1. PICK j \in DOMAIN producers : j >= Cur.i /\ producers[j] = q
      BY <1>7, <1>8, <2>3 DEF ToMatch
    <3>2. j \in Nat /\ d = c /\ (j = Cur.i => q = p)
      <4>1. DOMAIN producers = 1 .. Len(producers)
        BY <1>3 DEF TypeOK
      <4>2. d = c /\ (j = Cur.i => q = p)
        BY <1>2, <1>7, <2>3, <3>1
      <4> QED BY <3>1, <4>1, <4>2
    <3> QED BY <1>1, <2>1, <2>3, <3>1, <3>2 DEF ToMatch
  <2> QED BY <1>8, <2>2, <2>3 DEF ToMatch
<1>9. ASSUME NEW q \in Producers, NEW d \in Consumers, Awaits(q, d)
      PROVE  Awaits(q, d)' \/ (q = p /\ d = c)
  BY <1>4, <1>8, <1>9 DEF Awaits
<1>10. \A x : Registered(x)' <=> Registered(x)
  BY <1>1 DEF Registered
<1>11. CASE subs' = subs /\ seen' = seen /\ <<p, c>> \notin matches
  <2>1. StreamsFaithful'
    BY <1>1, <1>3, <1>11, FaithfulGrows
  <2>2. ASSUME NEW d \in Consumers PROVE HeardInv(d)'
    <3> SUFFICES ASSUME notify[d] = "user", NEW k \in 1 .. Visited, NEW n \in Notification, Owes(calls, k, d, n)
                 PROVE  Told(d, n) \/ (k = Visited /\ Awaits(n.p, d)')
      BY <1>1, <1>6, <1>11 DEF HeardInv, Owes, Told
    <3>1. n.p \in Producers /\ <<n.p, d>> \in matches
      BY NotificationFacts DEF Owes
    <3> QED BY <1>3, <1>9, <1>11, <3>1 DEF HeardInv
  <2>3. ASSUME NEW d \in Consumers, NEW q \in Producers PROVE ListedInv(q, d)'
    <3>1. ListedInv(q, d) /\ (Told(d, Start(q))' <=> Told(d, Start(q)))
      BY <1>3, <1>11 DEF Told
    <3> QED BY <1>1, <1>8, <1>10, <1>11, <3>1 DEF ListedInv
  <2> QED BY <1>6, <2>1, <2>2, <2>3 DEF DeliveryIInv
<1>12. CASE subs' = [subs EXCEPT ![p] = Append(@, c)] /\ Heard(c, Start(p)) /\ <<p, c>> \in matches
  <2>1. PICK n \in Notification : n = Start(p) /\ n.kind = "START" /\ n.p = p
    BY NotificationFacts
  <2>2. /\ Range(subs'[p]) = Range(subs[p]) \cup {c}
        /\ \A q \in Producers : q # p => subs'[q] = subs[q]
    <3>1. subs \in [Producers -> Seq(Consumers)] /\ subs[p] \in Seq(Consumers)
      BY <1>3 DEF TypeOK
    <3>2. subs'[p] = Append(subs[p], c)
      BY <1>12, <3>1
    <3>3. Range(Append(subs[p], c)) = Range(subs[p]) \cup {c}
      BY <3>1, AppendDistinct
    <3> QED BY <1>12, <3>1, <3>2, <3>3
  <2>3. Owes(calls, Visited, c, n)
    <3>1. Registered(p) /\ Registered(c)
      <4>1. Registered(Target(Cur.act))
        BY <1>3, <1>4 DEF MemoryInv, VisitInv
      <4>2. Target(Cur.act) = IF Cur.act.op = "InitProducer" THEN Cur.act.p ELSE Cur.act.c
        BY <1>4 DEF Target
      <4>3. Cur.act.op = "InitProducer" => Registered(c)
        BY <1>2 DEF Registered, Range
      <4>4. Cur.act.op = "InitConsumer" => Registered(p)
        BY <1>2 DEF Registered, Range
      <4> QED BY <1>2, <1>4, <4>1, <4>2, <4>3, <4>4
    <3>2. /\ Made(calls, InitProducer(p), Visited) /\ ~Made(calls, DestroyProducer(p), Visited)
          /\ Made(calls, InitConsumer(c), Visited) /\ ~Made(calls, DestroyConsumer(c), Visited)
      BY <1>3, <3>1, Standing, KindOfId
    <3>3. ~Made(calls, DestroyProducer(p), Visited - 1)
      <4>1. \A j \in 1 .. Visited - 1 : j \in 1 .. Visited
        BY <1>3
      <4> QED BY <3>2, <4>1 DEF Made
    <3>4. calls[Visited] \in {InitProducer(p), InitConsumer(c)}
      BY <1>4, <1>5
    <3> QED BY <1>12, <2>1, <3>2, <3>3, <3>4 DEF Owes
  <2>4. /\ \A d \in Consumers, e \in Notification : Told(d, e) => Told(d, e)'
        /\ notify[c] = "user" => Told(c, n)'
        /\ StreamsFaithful'
    <3>1. CASE notify[c] # "user"
      <4>1. seen' = seen
        BY <1>12, <3>1 DEF Heard
      <4>2. StreamsFaithful'
        BY <1>1, <1>3, <4>1, FaithfulGrows
      <4> QED BY <3>1, <4>1, <4>2 DEF Told
    <3>2. CASE notify[c] = "user"
      <4>1. seen' = [seen EXCEPT ![c] = Append(@, n)]
        BY <1>12, <2>1, <3>2 DEF Heard
      <4>2. Told(c, n)' /\ \A d \in Consumers, e \in Notification : Told(d, e) => Told(d, e)'
        BY <1>3, <4>1, ToldMore
      <4>3. StreamsFaithful'
        BY <1>0, <1>1, <1>3, <1>5, <2>3, <3>2, <4>1, HeardFaithful
      <4> QED BY <4>2, <4>3
    <3> QED BY <3>1, <3>2
  <2>5. ASSUME NEW d \in Consumers PROVE HeardInv(d)'
    <3> SUFFICES ASSUME notify[d] = "user", NEW k \in 1 .. Visited, NEW e \in Notification, Owes(calls, k, d, e)
                 PROVE  Told(d, e)' \/ (k = Visited /\ Awaits(e.p, d)')
      BY <1>1, <1>6 DEF HeardInv, Owes
    <3>1. e.p \in Producers
      BY NotificationFacts
    <3>2. Told(d, e) \/ (k = Visited /\ Awaits(e.p, d))
      BY <1>3 DEF HeardInv
    <3>3. ASSUME k = Visited PROVE e = Start(e.p)
      <4>1. PICK a \in Action : a = Cur.act
        BY <1>4
      <4>2. a = calls[k]
        BY <1>5, <3>3, <4>1
      <4>3. /\ a.op = "InitProducer" => e = Start(e.p)
            /\ a.op = "InitConsumer" => e = Start(e.p)
        BY <4>2, OwedBy
      <4> QED BY <1>4, <4>1, <4>3
    <3> QED BY <1>9, <2>1, <2>4, <3>1, <3>2, <3>3
  <2>6. ASSUME NEW d \in Consumers, NEW q \in Producers PROVE ListedInv(q, d)'
    <3>1. ListedInv(q, d) /\ Start(q) \in Notification
      BY <1>3, NotificationFacts
    <3>2. d \in Range(subs'[q]) <=> d \in Range(subs[q]) \/ (q = p /\ d = c)
      BY <2>2
    <3> QED BY <1>1, <1>8, <1>10, <1>12, <2>1, <2>4, <3>1, <3>2 DEF ListedInv
  <2> QED BY <1>6, <2>4, <2>5, <2>6 DEF DeliveryIInv
<1> QED BY <1>2, <1>11, <1>12


\* A turn of the loops of publish and ~ProducerImpl.
LEMMA NotifyDelivery ==
  ASSUME MaxDepth = 1, DeliveryIInv, StreamsIInv', NotifyEvent \/ NotifyStop, matches' = matches
  PROVE  DeliveryIInv'
<1>0. BrokerIInv /\ StreamsWellFormed'
  BY DEF DeliveryIInv, StreamsIInv
<1>1. /\ life = "up" /\ Cur'.act = Cur.act /\ Cur'.i = Cur.i + 1 /\ Cur.i \in Nat
      /\ Cur.act.op \in {"Publish", "DestroyProducer"}
      /\ UNCHANGED <<handle, producers, consumers, pending, subs, notify, calls>>
  BY <1>0, NotifyTurn
<1>2. /\ StreamsFaithful /\ HistoryInv /\ TypeOK /\ MemoryInv
      /\ \A d \in Consumers : HeardInv(d)
      /\ \A d \in Consumers, q \in Producers : ListedInv(q, d)
      /\ Visited \in Nat /\ Cur.act \in Action \cup {Idle}
  BY <1>1, DeliveryFacts
<1>3. PICK a \in Action : a = Cur.act
  BY <1>1, <1>2, IdleFacts
<1>4. PICK p \in Producers : p = a.p /\ p = Target(a)
  BY <1>1, <1>3, ActionFacts
<1>5. PICK n : n = IF a.op = "Publish" THEN Event(p, a.ev) ELSE Stop(p)
  OBVIOUS
<1>6. PICK c \in Consumers : /\ Cur.i \in DOMAIN subs[p] /\ c = subs[p][Cur.i]
                             /\ c \in Range(subs[p]) /\ Heard(c, n)
  BY <1>0, <1>3, <1>4, <1>5, NotifyTurn
<1>7. /\ a.op = "Publish" => a.ev \in 1 .. MaxEvents /\ a = Publish(p, a.ev)
      /\ a.op = "DestroyProducer" => a = DestroyProducer(p)
      /\ a.op \in {"Publish", "DestroyProducer"}
  BY <1>1, <1>3, <1>4, ActionNamed
<1>8. /\ n \in Notification /\ n.p = p
      /\ a.op = "Publish" => n.kind = "EVENT" /\ n.ev = a.ev
      /\ a.op = "DestroyProducer" => n.kind = "STOP"
  BY <1>5, <1>7, NotificationFacts
<1>9. Visited >= 1 /\ calls[Visited] = a
  BY <1>2, <1>3, CurIsVisited
<1>10. HistoryInv' /\ Visited' = Visited
  BY <1>1, <1>2, StackHistory
<1>11. Owes(calls, Visited, c, n)
  <2>1. p \in Ids /\ c \in Ids /\ Creation(p) = InitProducer(p) /\ Destruction(p) = DestroyProducer(p)
        /\ Creation(c) = InitConsumer(c) /\ Destruction(c) = DestroyConsumer(c)
    BY KindOfId
  <2>2. Registered(c)
    BY <1>2, <1>6 DEF MemoryInv, SubsInv, Registered
  <2>3. Made(calls, InitConsumer(c), Visited) /\ ~Made(calls, DestroyConsumer(c), Visited)
    BY <1>2, <2>1, <2>2, Standing
  <2>4. Made(calls, InitProducer(p), Visited) /\ ~Made(calls, DestroyProducer(p), Visited - 1)
    <3>1. CASE a.op = "Publish"
      <4>1. Registered(p)
        BY <1>2, <1>3, <1>4, <3>1 DEF MemoryInv, VisitInv
      <4>2. Made(calls, InitProducer(p), Visited) /\ ~Made(calls, DestroyProducer(p), Visited)
        BY <1>2, <2>1, <4>1, Standing
      <4>3. \A j \in 1 .. Visited - 1 : j \in 1 .. Visited
        BY <1>2
      <4> QED BY <4>2, <4>3 DEF Made
    <3>2. CASE a.op = "DestroyProducer"
      <4>1. handle[p] = "closed" /\ ~Live(p)
        BY <1>2, <1>3, <1>4, <3>2 DEF MemoryInv, VisitInv, IsDestruction
      <4>2. ~CreationQueued(p)
        BY <1>2, <2>1, <4>1 DEF MemoryInv, OwnerInv, CreationQueued
      <4>3. Made(calls, InitProducer(p), Visited)
        BY <1>2, <2>1, <4>1, <4>2, VisitedSoFar
      <4>4. ASSUME NEW j \in 1 .. Visited - 1 PROVE calls[j] # a
        <5>1. j \in DOMAIN calls /\ Visited \in DOMAIN calls /\ j # Visited
          BY <1>2, <1>9, HistoryLengths
        <5>2. IsDestruction(a)
          BY <3>2 DEF IsDestruction
        <5> QED BY <1>2, <1>9, <5>1, <5>2 DEF HistoryInv
      <4> QED BY <1>7, <3>2, <4>3, <4>4 DEF Made
    <3> QED BY <1>7, <3>1, <3>2
  <2>5. <<p, c>> \in matches
    BY <1>2, <1>6 DEF ListedInv
  <2> QED BY <1>7, <1>8, <1>9, <2>3, <2>4, <2>5 DEF Owes
<1>12. /\ \A d \in Consumers, e \in Notification : Told(d, e) => Told(d, e)'
       /\ notify[c] = "user" => Told(c, n)'
       /\ StreamsFaithful'
  <2>1. CASE notify[c] # "user"
    <3>1. seen' = seen
      BY <1>6, <2>1 DEF Heard
    <3>2. StreamsFaithful'
      BY <1>1, <1>2, <3>1, FaithfulGrows
    <3> QED BY <2>1, <3>1, <3>2 DEF Told
  <2>2. CASE notify[c] = "user"
    <3>1. seen' = [seen EXCEPT ![c] = Append(@, n)]
      BY <1>6, <2>2 DEF Heard
    <3>2. Told(c, n)' /\ \A d \in Consumers, e \in Notification : Told(d, e) => Told(d, e)'
      BY <1>2, <1>8, <3>1, ToldMore
    <3>3. StreamsFaithful'
      BY <1>0, <1>1, <1>2, <1>8, <1>9, <1>11, <2>2, <3>1, HeardFaithful
    <3> QED BY <3>2, <3>3
  <2> QED BY <2>1, <2>2
<1>13. ASSUME NEW q \in Producers, NEW d \in Consumers PROVE ~ToMatch(q, d)
  <2>1. InitProducer(q).op = "InitProducer" /\ InitConsumer(d).op = "InitConsumer"
    BY ActionKinds
  <2> QED BY <1>1, <2>1 DEF ToMatch
<1>14. ASSUME NEW q \in Producers, NEW d \in Consumers, Awaits(q, d)
       PROVE  q = p /\ (Awaits(q, d)' \/ d = c)
  <2>1. q = p /\ ~Passed(p, d)
    BY <1>3, <1>4, <1>13, <1>14 DEF Awaits
  <2>2. PICK j \in DOMAIN subs[p] : j >= Cur.i /\ subs[p][j] = d
    BY <2>1 DEF Passed
  <2>3. j \in Nat
    BY <1>2 DEF TypeOK
  <2>4. j = Cur.i \/ j >= Cur.i + 1
    BY <1>1, <2>2, <2>3
  <2>5. CASE j >= Cur.i + 1
    <3>1. ~Passed(p, d)'
      BY <1>1, <2>2, <2>5 DEF Passed
    <3> QED BY <1>1, <1>3, <1>4, <2>1, <3>1 DEF Awaits
  <2> QED BY <1>6, <2>1, <2>2, <2>4, <2>5
<1>15. ASSUME NEW d \in Consumers PROVE HeardInv(d)'
  <2> SUFFICES ASSUME notify[d] = "user", NEW k \in 1 .. Visited, NEW e \in Notification, Owes(calls, k, d, e)
               PROVE  Told(d, e)' \/ (k = Visited /\ Awaits(e.p, d)')
    BY <1>1, <1>10 DEF HeardInv, Owes
  <2>1. e.p \in Producers
    BY NotificationFacts
  <2>2. Told(d, e) \/ (k = Visited /\ Awaits(e.p, d))
    BY <1>2 DEF HeardInv
  <2>3. ASSUME k = Visited PROVE e = n
    <3>1. a = calls[k]
      BY <1>9, <2>3
    <3>2. /\ a.op = "Publish" => e = Event(a.p, a.ev)
          /\ a.op = "DestroyProducer" => e = Stop(a.p)
      BY <3>1, OwedBy
    <3> QED BY <1>4, <1>5, <1>7, <3>2
  <2> QED BY <1>12, <1>14, <2>1, <2>2, <2>3
<1>16. ASSUME NEW d \in Consumers, NEW q \in Producers PROVE ListedInv(q, d)'
  <2>1. ListedInv(q, d) /\ Start(q) \in Notification /\ ~ToMatch(q, d)
    BY <1>2, <1>13, NotificationFacts
  <2>2. \A x : Registered(x)' <=> Registered(x)
    BY <1>1 DEF Registered
  <2> QED BY <1>1, <1>12, <2>1, <2>2 DEF ListedInv
<1> QED BY <1>10, <1>12, <1>15, <1>16 DEF DeliveryIInv

\* The end of a visit: its loop has told everybody.
LEMMA EndVisitDelivery ==
  ASSUME MaxDepth = 1, DeliveryIInv, StreamsIInv', EndVisit, matches' = matches
  PROVE  DeliveryIInv'
<1>0. BrokerIInv
  BY DEF DeliveryIInv, StreamsIInv
<1>1. /\ life = "up" /\ Cur.act \in Action /\ Cur'.act = Idle /\ Cur'.i = 1
      /\ UNCHANGED <<handle, producers, consumers, pending, notify, calls, seen>>
      /\ IF Cur.act.op = "DestroyProducer" THEN subs' = [subs EXCEPT ![Cur.act.p] = <<>>] ELSE subs' = subs
  BY <1>0, EndVisitFacts
<1>2. /\ StreamsFaithful /\ HistoryInv /\ TypeOK /\ MemoryInv
      /\ \A d \in Consumers : HeardInv(d)
      /\ \A d \in Consumers, q \in Producers : ListedInv(q, d)
      /\ Cur.i \in Nat
  BY <1>1, DeliveryFacts
<1>3. PICK a \in Action : a = Cur.act
  BY <1>1
<1>4. Cur.i > Len(Loop(a))
  <2>1. frames # <<>> /\ Top.i > Len(Loop(Top.act))
    BY DEF EndVisit, Working
  <2>2. Top = Cur
    BY <1>2, <2>1, FrameFacts
  <2> QED BY <1>3, <2>1, <2>2
<1>5. /\ consumers \in Seq(Consumers) /\ producers \in Seq(Producers) /\ subs \in [Producers -> Seq(Consumers)]
  BY <1>2 DEF TypeOK
<1>6. ASSUME NEW q \in Producers, NEW d \in Consumers PROVE ~ToMatch(q, d) /\ ~Awaits(q, d)
  <2>1. InitProducer(q).op = "InitProducer" /\ InitConsumer(d).op = "InitConsumer"
    BY ActionKinds
  <2>2. ~(a.op = "InitProducer" /\ \E j \in DOMAIN consumers : j >= Cur.i)
    BY <1>2, <1>4, <1>5 DEF Loop
  <2>3. ~(a.op = "InitConsumer" /\ \E j \in DOMAIN producers : j >= Cur.i)
    BY <1>2, <1>4, <1>5 DEF Loop
  <2>4. a.op \in {"Publish", "DestroyProducer"} /\ a.p = q => \A j \in DOMAIN subs[q] : ~(j >= Cur.i)
    BY <1>2, <1>4, <1>5 DEF Loop
  <2>5. ~ToMatch(q, d)
    BY <1>3, <2>1, <2>2, <2>3 DEF ToMatch
  <2>6. a.op \in {"Publish", "DestroyProducer"} /\ a.p = q => Passed(q, d)
    BY <2>4 DEF Passed
  <2> QED BY <1>3, <2>5, <2>6 DEF Awaits
<1>7. HistoryInv' /\ Visited' = Visited
  BY <1>1, <1>2, StackHistory
<1>8. StreamsFaithful'
  BY <1>1, <1>2, FaithfulGrows
<1>9. ASSUME NEW d \in Consumers PROVE HeardInv(d)'
  <2> SUFFICES ASSUME notify[d] = "user", NEW k \in 1 .. Visited, NEW n \in Notification, Owes(calls, k, d, n)
               PROVE  Told(d, n)
    BY <1>1, <1>7 DEF HeardInv, Owes, Told
  <2>1. n.p \in Producers
    BY NotificationFacts
  <2> QED BY <1>2, <1>6, <2>1 DEF HeardInv
<1>10. ASSUME NEW d \in Consumers, NEW q \in Producers PROVE ListedInv(q, d)'
  <2>1. ListedInv(q, d) /\ ~ToMatch(q, d)
    BY <1>2, <1>6
  <2>2. /\ \A x : Registered(x)' <=> Registered(x)
        /\ Told(d, Start(q))' <=> Told(d, Start(q))
        /\ DestroyProducer(q) # Idle
    BY <1>1 DEF Registered, Told, DestroyProducer, Idle
  <2>3. CASE a.op = "DestroyProducer" /\ a.p = q
    <3>1. subs'[q] = <<>>
      BY <1>1, <1>3, <1>5, <2>3
    <3>2. Range(subs'[q]) = {}
      BY <3>1 DEF Range
    <3>3. ~Registered(q)
      <4>1. Target(a) = q /\ IsDestruction(a)
        BY <2>3 DEF Target, IsDestruction
      <4>2. ~Live(q) /\ q \in Ids
        BY <1>2, <1>3, <4>1 DEF MemoryInv, VisitInv, Ids
      <4> QED BY <1>2, <4>2 DEF MemoryInv, OwnerInv
    <3> QED BY <1>1, <2>2, <3>2, <3>3 DEF ListedInv
  <2>4. CASE ~(a.op = "DestroyProducer" /\ a.p = q)
    <3>1. subs'[q] = subs[q]
      BY <1>1, <1>3, <1>5, <2>4
    <3> QED BY <1>1, <2>1, <2>2, <3>1 DEF ListedInv
  <2> QED BY <2>3, <2>4
<1> QED BY <1>7, <1>8, <1>9, <1>10 DEF DeliveryIInv

\* The steps that touch nothing but the stack, when no handler throws.
LEMMA StackDelivery ==
  ASSUME DeliveryIInv, StreamsIInv', life = "up", UNCHANGED matches,
         UNCHANGED <<handle, producers, consumers, pending, subs, notify, calls, seen>>,
         Cur'.act = Cur.act /\ (Cur'.i = Cur.i \/ Cur.act = Idle)
  PROVE  DeliveryIInv'
<1>2. /\ StreamsFaithful /\ HistoryInv /\ TypeOK
      /\ \A d \in Consumers : HeardInv(d)
      /\ \A d \in Consumers, q \in Producers : ListedInv(q, d)
  BY DeliveryFacts
<1>3. HistoryInv' /\ Visited' = Visited
  BY <1>2, StackHistory
<1>4. StreamsFaithful'
  BY <1>2, FaithfulGrows
<1>5. ASSUME NEW q \in Producers, NEW d \in Consumers
      PROVE  (ToMatch(q, d)' <=> ToMatch(q, d)) /\ (Awaits(q, d)' <=> Awaits(q, d))
  <2>1. CASE Cur'.i = Cur.i
    BY <2>1 DEF ToMatch, Awaits, Passed
  <2>2. CASE Cur.act = Idle
    <3>1. InitProducer(q) # Idle /\ InitConsumer(d) # Idle /\ Idle.op \notin {"Publish", "DestroyProducer"}
      BY DEF InitProducer, InitConsumer, Idle
    <3> QED BY <2>2, <3>1 DEF ToMatch, Awaits
  <2> QED BY <2>1, <2>2
<1>6. ASSUME NEW d \in Consumers PROVE HeardInv(d)'
  <2> SUFFICES ASSUME notify[d] = "user", NEW k \in 1 .. Visited, NEW n \in Notification, Owes(calls, k, d, n)
               PROVE  Told(d, n) \/ (k = Visited /\ Awaits(n.p, d)')
    BY <1>3 DEF HeardInv, Owes, Told
  <2>1. n.p \in Producers
    BY NotificationFacts
  <2> QED BY <1>2, <1>5, <2>1 DEF HeardInv
<1>7. ASSUME NEW d \in Consumers, NEW q \in Producers PROVE ListedInv(q, d)'
  <2>1. ListedInv(q, d)
    BY <1>2
  <2>2. /\ \A x : Registered(x)' <=> Registered(x)
        /\ Told(d, Start(q))' <=> Told(d, Start(q))
    BY DEF Registered, Told
  <2> QED BY <1>5, <2>1, <2>2 DEF ListedInv
<1> QED BY <1>3, <1>4, <1>6, <1>7 DEF DeliveryIInv


-----------------------------------------------------------------------------
(* The theorems about deliveries                                            *)

\* Nothing was called and nobody was told anything at first.
LEMMA InitDelivery == Init => DeliveryIInv
<1> SUFFICES ASSUME Init PROVE DeliveryIInv
  OBVIOUS
<1>1. StreamsIInv
  BY InitStreams
<1>2. /\ Len(pending) = 0 /\ DOMAIN pending = {} /\ Len(calls) = 0 /\ DOMAIN calls = {} /\ Cur.act = Idle
      /\ \A x \in Ids : handle[x] = "new"
      /\ \A c \in Consumers : DOMAIN seen[c] = {}
      /\ \A p \in Producers : Range(subs[p]) = {}
      /\ \A x : ~Registered(x)
  <2>1. DOMAIN <<>> = {} /\ Range(<<>>) = {} /\ Len(<<>>) = 0
    BY DEF Range
  <2> QED BY <2>1 DEF Init, OldBrokerInit, Cur, Frame, Registered
<1>3. Visited = 0
  BY <1>2 DEF Visited
<1>4. \A a : ~Made(calls, a, 0)
  BY DEF Made
<1>5. HistoryInv
  BY <1>2, <1>4 DEF HistoryInv
<1>6. StreamsFaithful
  BY <1>2 DEF StreamsFaithful
<1>7. ASSUME NEW c \in Consumers PROVE HeardInv(c) /\ \A p \in Producers : ListedInv(p, c)
  BY <1>2, <1>3 DEF HeardInv, ListedInv
<1> QED BY <1>1, <1>5, <1>6, <1>7 DEF DeliveryIInv

\* do_work() is entered and left between visits, and a handler returns into its loop.
LEMMA StackTurn ==
  ASSUME MaxDepth = 1, BrokerIInv, DoWork \/ DoWorkReturns \/ HandlerReturns
  PROVE  /\ life = "up"
         /\ UNCHANGED <<handle, producers, consumers, pending, subs, notify, calls, seen>>
         /\ Cur'.act = Cur.act /\ (Cur'.i = Cur.i \/ Cur.act = Idle)
<1>1. life = "up" /\ UNCHANGED <<handle, life, producers, consumers, pending, subs, notify, calls, seen>>
  BY DEF DoWork, DoWorkReturns, HandlerReturns, CanCall, Working, apiVars, brokerVars, heapVars
<1>2. TypeOK
  BY DEF BrokerIInv
<1>3. CASE DoWork
  <2>1. frames \in Seq(Visiting) /\ Len(frames) < 1
    BY <1>2, <1>3 DEF DoWork, TypeOK
  <2>2. frames = <<>>
    BY <2>1
  <2>3. Cur.act = Idle
    BY <2>2 DEF Cur, Frame
  <2>4. Cur'.act = Cur.act \/ Cur'.act = Idle
    BY <1>1, <1>3, StackFacts
  <2> QED BY <1>1, <2>3, <2>4
<1>4. CASE DoWorkReturns
  <2>1. frames # <<>> /\ Top.act = Idle
    BY <1>4 DEF DoWorkReturns, Working
  <2>2. Cur.act = Idle
    BY <1>2, <2>1, FrameFacts
  <2>3. Cur'.act = Cur.act \/ Cur'.act = Idle
    BY <1>1, <1>4, StackFacts
  <2> QED BY <1>1, <2>2, <2>3
<1>5. CASE HandlerReturns
  <2>1. frames # <<>> /\ SetTop(Frame(Top.act, Top.i, FALSE))
    BY <1>5 DEF HandlerReturns
  <2>2. Top = Cur /\ Cur' = Frame(Top.act, Top.i, FALSE)
    BY <1>2, <2>1, FrameFacts, SetTopFacts
  <2>3. Frame(Top.act, Top.i, FALSE).act = Top.act /\ Frame(Top.act, Top.i, FALSE).i = Top.i
    BY DEF Frame
  <2> QED BY <1>1, <2>2, <2>3
<1> QED BY <1>3, <1>4, <1>5

\* Every step keeps the deliveries.
LEMMA NextDelivery ==
  ASSUME MaxDepth = 1, Throws = FALSE, DeliveryIInv, [Next]_vars PROVE DeliveryIInv'
<1>0. BrokerIInv /\ StreamsIInv /\ StreamsIInv' /\ StreamsFaithful /\ TypeOK
  BY NextStreams DEF DeliveryIInv, StreamsIInv, BrokerIInv
<1>1. matches' = matches
  BY DEF Next, vars
<1>2. CASE Api
  BY <1>0, <1>1, <1>2, ApiDelivery
<1>3. CASE Visit
  BY <1>0, <1>1, <1>3, VisitDelivery
<1>4. CASE MaybeAdd
  BY <1>0, <1>1, <1>4, MaybeAddDelivery
<1>5. CASE NotifyEvent \/ NotifyStop
  BY <1>0, <1>1, <1>5, NotifyDelivery
<1>6. CASE EndVisit
  BY <1>0, <1>1, <1>6, EndVisitDelivery
<1>7. CASE DoWork \/ DoWorkReturns \/ HandlerReturns
  BY <1>0, <1>1, <1>7, StackTurn, StackDelivery
<1>8. ~HandlerThrows
  BY DEF HandlerThrows
<1>9. CASE life' # "up" /\ UNCHANGED <<calls, seen>>
  <2>1. StreamsFaithful'
    BY <1>0, <1>1, <1>9, FaithfulGrows
  <2> QED BY <1>0, <1>9, <2>1 DEF DeliveryIInv
<1>10. Teardown => life' # "up" /\ UNCHANGED <<calls, seen>>
  BY DEF Teardown
<1>11. CASE UNCHANGED vars
  <2>1. /\ UNCHANGED <<handle, life, producers, consumers, pending, subs, notify, calls, seen>>
        /\ Cur' = Cur
    BY <1>11 DEF vars, apiVars, brokerVars, heapVars, Cur
  <2>2. CASE life = "up"
    BY <1>0, <1>1, <2>1, <2>2, StackDelivery
  <2>3. CASE life # "up"
    BY <1>9, <2>1, <2>3
  <2> QED BY <2>2, <2>3
<1> QED BY <1>2, <1>3, <1>4, <1>5, <1>6, <1>7, <1>8, <1>9, <1>10, <1>11 DEF Next, Work

\* The inductive invariant of the deliveries.
THEOREM DeliveryInvariance ==
  ASSUME MaxDepth = 1, Throws = FALSE PROVE Spec => []DeliveryIInv
<1>1. Init => DeliveryIInv
  BY InitDelivery
<1>2. DeliveryIInv /\ [Next]_vars => DeliveryIInv'
  BY NextDelivery
<1> QED BY <1>1, <1>2, PTL DEF Spec

\* Whatever a consumer hears, some call owes it, no other delivery repeats it, and what
\* earlier calls owe was heard before - however the calls of handlers and of the program
\* interleave with the visits.
THEOREM FaithfulStreams ==
  ASSUME MaxDepth = 1, Throws = FALSE PROVE Spec => []StreamsFaithful
<1>1. DeliveryIInv => StreamsFaithful
  BY DEF DeliveryIInv
<1> QED BY <1>1, DeliveryInvariance, PTL

\* When do_work() has drained the queue, every consumer with its user's handler has heard
\* everything that the calls owe it: no notification is lost.
THEOREM NothingLost ==
  ASSUME MaxDepth = 1, Throws = FALSE PROVE Spec => []DrainedIsComplete
<1>1. ASSUME DeliveryIInv PROVE DrainedIsComplete
  <2> SUFFICES ASSUME life = "up", frames = <<>>, pending = <<>>, NEW c \in Consumers, NEW k \in DOMAIN calls,
                      NEW n \in Notification, notify[c] = "user", Owes(calls, k, c, n)
               PROVE  Contains(seen[c], n)
    BY DEF DrainedIsComplete
  <2>1. /\ HistoryInv /\ TypeOK /\ HeardInv(c) /\ DOMAIN calls = 1 .. Len(calls) /\ Len(calls) \in Nat
    BY <1>1, DeliveryFacts
  <2>2. Visited = Len(calls)
    BY <2>1 DEF Visited
  <2>3. Cur.act = Idle
    BY DEF Cur, Frame
  <2>4. n.p \in Producers
    BY NotificationFacts
  <2>5. Told(c, n)
    BY <2>1, <2>2, <2>3, <2>4, NobodyAwaits DEF HeardInv
  <2>6. seen[c] \in Seq(Notification) /\ DOMAIN seen[c] = 1 .. Len(seen[c])
    BY <2>1 DEF TypeOK
  <2> QED BY <2>5, <2>6 DEF Told, Contains
<1> QED BY <1>1, DeliveryInvariance, PTL
=============================================================================
