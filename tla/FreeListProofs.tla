--------------------------- MODULE FreeListProofs ---------------------------
(***************************************************************************)
(* Proofs about FreeList for any number of threads and nodes.              *)
(***************************************************************************)
EXTENDS FreeListInv, ModLemmas, FiniteSetTheorems, SequenceTheorems

RoleNames == {"none", "ref", "taken", "flagged", "linked"}

-----------------------------------------------------------------------------
(* The references to one node                                               *)

\* Every thread has one of the roles.
LEMMA RoleType == \A l : RoleAt(l) \in RoleNames
BY DEF RoleAt, RoleNames

\* The roles of the threads as they go through add and try_get.
LEMMA RoleTable ==
  /\ RoleAt("idle") = "none" /\ RoleAt("get") = "none"
  /\ RoleAt("refs") = "none" /\ RoleAt("hold") = "none"
  /\ RoleAt("next") = "ref" /\ RoleAt("pop") = "ref" /\ RoleAt("drop") = "ref"
  /\ RoleAt("got") = "taken"
  /\ RoleAt("add") = "flagged" /\ RoleAt("link") = "flagged" /\ RoleAt("one") = "flagged"
  /\ RoleAt("push") = "linked" /\ RoleAt("again") = "linked"
BY DEF RoleAt

\* There are no more references than threads.
LEMMA ReferrersBound ==
  ASSUME FreeListConstants, NEW f
  PROVE  /\ IsFiniteSet(Referrers(f))
         /\ Cardinality(Referrers(f)) \in Nat
         /\ Cardinality(Referrers(f)) + 1 < SHOULD_BE_ON_FREELIST
<1>1. Referrers(f) \subseteq FreeThreads /\ IsFiniteSet(FreeThreads)
  BY DEF Referrers, FreeListConstants
<1>2. /\ IsFiniteSet(Referrers(f))
      /\ Cardinality(Referrers(f)) <= Cardinality(FreeThreads)
  BY <1>1, FS_Subset
<1>3. Cardinality(Referrers(f)) \in Nat /\ Cardinality(FreeThreads) \in Nat
  BY <1>1, <1>2, FS_CardinalityType
<1> QED
  BY <1>2, <1>3 DEF FreeListConstants

\* A thread gets a reference.
LEMMA ReferrersGain ==
  ASSUME FreeListConstants, NEW f \in [FreeThreads -> RoleNames], NEW t \in FreeThreads,
         NEW a \in RoleNames, NEW g, g = [f EXCEPT ![t] = a],
         f[t] \notin {"ref", "taken"}, a \in {"ref", "taken"}
  PROVE  Cardinality(Referrers(g)) = Cardinality(Referrers(f)) + 1
<1>0. IsFiniteSet(Referrers(f)) /\ Cardinality(Referrers(f)) \in Nat
  BY ReferrersBound
<1>1. g[t] = a /\ \A u \in FreeThreads : u # t => g[u] = f[u]
  OBVIOUS
<1>2. Referrers(g) = Referrers(f) \cup {t} /\ t \notin Referrers(f)
  BY <1>1 DEF Referrers
<1> QED
  BY <1>0, <1>2, FS_AddElement

\* A thread gives its reference back.
LEMMA ReferrersDrop ==
  ASSUME FreeListConstants, NEW f \in [FreeThreads -> RoleNames], NEW t \in FreeThreads,
         NEW a \in RoleNames, NEW g, g = [f EXCEPT ![t] = a],
         f[t] \in {"ref", "taken"}, a \notin {"ref", "taken"}
  PROVE  Cardinality(Referrers(g)) = Cardinality(Referrers(f)) - 1
<1>0. IsFiniteSet(Referrers(f)) /\ Cardinality(Referrers(f)) \in Nat
  BY ReferrersBound
<1>1. g[t] = a /\ \A u \in FreeThreads : u # t => g[u] = f[u]
  OBVIOUS
<1>2. Referrers(g) = Referrers(f) \ {t} /\ t \in Referrers(f)
  BY <1>1 DEF Referrers
<1> QED
  BY <1>0, <1>2, FS_RemoveElement

\* A thread changes its role, and not whether it has a reference.
LEMMA ReferrersSame ==
  ASSUME FreeListConstants, NEW f \in [FreeThreads -> RoleNames], NEW t \in FreeThreads,
         NEW a \in RoleNames, NEW g, g = [f EXCEPT ![t] = a],
         f[t] \in {"ref", "taken"} <=> a \in {"ref", "taken"}
  PROVE  Cardinality(Referrers(g)) = Cardinality(Referrers(f))
<1>0. IsFiniteSet(Referrers(f)) /\ Cardinality(Referrers(f)) \in Nat
  BY ReferrersBound
<1>1. g[t] = a /\ \A u \in FreeThreads : u # t => g[u] = f[u]
  OBVIOUS
<1>2. Referrers(g) = Referrers(f)
  BY <1>1 DEF Referrers
<1> QED
  BY <1>0, <1>2

\* A thread with a reference is counted.
LEMMA ReferrersPositive ==
  ASSUME FreeListConstants, NEW f, NEW t \in FreeThreads, f[t] \in {"ref", "taken"}
  PROVE  Cardinality(Referrers(f)) > 0
<1>1. t \in Referrers(f)
  BY DEF Referrers
<1>2. IsFiniteSet(Referrers(f)) /\ Cardinality(Referrers(f)) \in Nat
  BY ReferrersBound
<1> QED
  BY <1>1, <1>2, FS_EmptySet

\* The compare-exchange of the reference count succeeds on a node with a
\* reference: a flagged node nobody refers to cannot be picked up.
LEMMA GainOK ==
  ASSUME FreeListConstants, NEW f \in [FreeThreads -> RoleNames], NEW t \in FreeThreads,
         NEW place \in {"held", "listed", "away"}, NEW r \in Nat,
         NodeOK(f, place, r), f[t] = "none", Count(r) # 0
  PROVE  NodeOK([f EXCEPT ![t] = "ref"], place, r + 1)
<1>1. PICK g : g = [f EXCEPT ![t] = "ref"]
  OBVIOUS
<1>2. PICK c \in Nat : c = Cardinality(Referrers(f))
  BY ReferrersBound
<1>3. Cardinality(Referrers(g)) = c + 1
  BY <1>1, <1>2, ReferrersGain DEF RoleNames
<1>4. \A u \in FreeThreads : g[u] \in Owning <=> f[u] \in Owning
  BY <1>1 DEF Owning
<1>5. \A u \in FreeThreads : f[u] \in Owning => g[u] = f[u]
  BY <1>1 DEF Owning
<1>6. Owned(g) <=> Owned(f)
  BY <1>4 DEF Owned
<1>7. r # SHOULD_BE_ON_FREELIST
  <2>1. SHOULD_BE_ON_FREELIST \in Nat \ {0}
    BY ReferrersBound, FS_CardinalityType DEF FreeListConstants
  <2>2. SHOULD_BE_ON_FREELIST % SHOULD_BE_ON_FREELIST = 0
    BY <2>1, ModUnique
  <2> QED
    BY <2>2 DEF Count
<1>8. SHOULD_BE_ON_FREELIST \in Nat
  BY DEF FreeListConstants
<1>9. /\ place = "held" => r + 1 = c + 1
      /\ place = "listed" => r + 1 = c + 1 + 1
  BY <1>2 DEF NodeOK
<1>10. place = "away" =>
       \/ (\E u \in FreeThreads : g[u] \in {"linked", "taken"}) /\ r + 1 = c + 1 + 1
       \/ ~Owned(g) /\ r + 1 = SHOULD_BE_ON_FREELIST + (c + 1) /\ c + 1 > 0
  BY <1>2, <1>5, <1>6, <1>7, <1>8 DEF NodeOK, Owning
<1>11. NodeOK(g, place, r + 1)
  BY <1>3, <1>4, <1>6, <1>9, <1>10 DEF NodeOK
<1> QED
  BY <1>1, <1>11

\* A reference is dropped by a thread that is not the last one of a node that
\* waits to be added.
LEMMA DropOK ==
  ASSUME FreeListConstants, NEW f \in [FreeThreads -> RoleNames], NEW t \in FreeThreads,
         NEW place \in {"held", "listed", "away"}, NEW r \in Nat,
         NodeOK(f, place, r), f[t] = "ref", r # SHOULD_BE_ON_FREELIST + 1
  PROVE  /\ r - 1 \in Nat
         /\ NodeOK([f EXCEPT ![t] = "none"], place, r - 1)
<1>1. PICK g : g = [f EXCEPT ![t] = "none"]
  OBVIOUS
<1>2. PICK c \in Nat : c = Cardinality(Referrers(f))
  BY ReferrersBound
<1>3. Cardinality(Referrers(g)) = c - 1
  <2>1. "none" \in RoleNames /\ f[t] \in {"ref", "taken"} /\ "none" \notin {"ref", "taken"}
    BY DEF RoleNames
  <2> QED
    BY <1>1, <1>2, <2>1, ReferrersDrop
<1>4. c > 0
  BY <1>2, ReferrersPositive
<1>5. \A u \in FreeThreads : g[u] \in Owning <=> f[u] \in Owning
  BY <1>1 DEF Owning
<1>6. \A u \in FreeThreads : f[u] \in Owning => g[u] = f[u]
  BY <1>1 DEF Owning
<1>7. Owned(g) <=> Owned(f)
  BY <1>5 DEF Owned
<1>8. SHOULD_BE_ON_FREELIST \in Nat
  BY DEF FreeListConstants
<1>9. /\ place = "held" => r = c
      /\ place = "listed" => r = c + 1
      /\ place = "away" =>
           \/ (\E u \in FreeThreads : g[u] \in {"linked", "taken"}) /\ r = c + 1
           \/ ~Owned(g) /\ r = SHOULD_BE_ON_FREELIST + c
  BY <1>2, <1>4, <1>6, <1>7 DEF NodeOK, Owning
<1>10. r >= 1
  BY <1>4, <1>8, <1>9
<1>11. /\ place = "held" => r - 1 = c - 1
       /\ place = "listed" => r - 1 = (c - 1) + 1
       /\ place = "away" =>
           \/ (\E u \in FreeThreads : g[u] \in {"linked", "taken"}) /\ r - 1 = (c - 1) + 1
           \/ ~Owned(g) /\ r - 1 = SHOULD_BE_ON_FREELIST + (c - 1) /\ c - 1 > 0
  BY <1>4, <1>8, <1>9
<1>12. /\ place = "held" => ~Owned(g)
       /\ place = "listed" => ~Owned(g)
       /\ \A u, v \in FreeThreads : g[u] \in Owning /\ g[v] \in Owning => u = v
  BY <1>5, <1>7 DEF NodeOK
<1>13. NodeOK(g, place, r - 1)
  BY <1>3, <1>11, <1>12 DEF NodeOK
<1> QED
  BY <1>1, <1>10, <1>13

\* The last reference to a node that waits to be added is dropped: that thread
\* links it, and nobody else refers to it.
LEMMA DropLastOK ==
  ASSUME FreeListConstants, NEW f \in [FreeThreads -> RoleNames], NEW t \in FreeThreads,
         NEW place \in {"held", "listed", "away"},
         NodeOK(f, place, SHOULD_BE_ON_FREELIST + 1), f[t] = "ref"
  PROVE  /\ place = "away"
         /\ NodeOK([f EXCEPT ![t] = "flagged"], place, SHOULD_BE_ON_FREELIST)
<1>1. PICK g : g = [f EXCEPT ![t] = "flagged"]
  OBVIOUS
<1>2. PICK c \in Nat : c = Cardinality(Referrers(f))
  BY ReferrersBound
<1>3. Cardinality(Referrers(g)) = c - 1
  <2>1. "flagged" \in RoleNames /\ f[t] \in {"ref", "taken"} /\ "flagged" \notin {"ref", "taken"}
    BY DEF RoleNames
  <2> QED
    BY <1>1, <1>2, <2>1, ReferrersDrop
<1>4. c + 1 < SHOULD_BE_ON_FREELIST /\ SHOULD_BE_ON_FREELIST \in Nat
  BY <1>2, ReferrersBound DEF FreeListConstants
<1>5. place = "away" /\ ~Owned(f) /\ SHOULD_BE_ON_FREELIST + 1 = SHOULD_BE_ON_FREELIST + c
  BY <1>2, <1>4 DEF NodeOK
<1>6. c - 1 = 0
  BY <1>4, <1>5
<1>7. g[t] = "flagged" /\ \A u \in FreeThreads : g[u] \in Owning => u = t
  BY <1>1, <1>5 DEF Owned, Owning
<1>8. NodeOK(g, place, SHOULD_BE_ON_FREELIST)
  BY <1>3, <1>5, <1>6, <1>7 DEF NodeOK
<1> QED
  BY <1>1, <1>5, <1>8

\* add(): the owner raises the flag; with no reference left it links the node.
LEMMA AddOK ==
  ASSUME FreeListConstants, NEW f \in [FreeThreads -> RoleNames], NEW t \in FreeThreads,
         NEW r \in Nat, NodeOK(f, "held", r), f[t] = "none"
  PROVE  /\ r = 0 => NodeOK([f EXCEPT ![t] = "flagged"], "away", r + SHOULD_BE_ON_FREELIST)
         /\ r # 0 => NodeOK(f, "away", r + SHOULD_BE_ON_FREELIST)
<1>1. PICK g : g = [f EXCEPT ![t] = "flagged"]
  OBVIOUS
<1>2. PICK c \in Nat : c = Cardinality(Referrers(f))
  BY ReferrersBound
<1>3. Cardinality(Referrers(g)) = c
  BY <1>1, <1>2, ReferrersSame DEF RoleNames
<1>4. r = c /\ ~Owned(f) /\ SHOULD_BE_ON_FREELIST \in Nat
  BY <1>2 DEF NodeOK, FreeListConstants
<1>5. g[t] = "flagged" /\ \A u \in FreeThreads : g[u] \in Owning => u = t
  BY <1>1, <1>4 DEF Owned, Owning
<1>6. ASSUME r = 0
      PROVE  NodeOK(g, "away", r + SHOULD_BE_ON_FREELIST)
  <2>1. r + SHOULD_BE_ON_FREELIST = SHOULD_BE_ON_FREELIST /\ c = 0
    BY <1>4, <1>6
  <2> QED
    BY <1>3, <1>5, <2>1 DEF NodeOK
<1>7. ASSUME r # 0
      PROVE  NodeOK(f, "away", r + SHOULD_BE_ON_FREELIST)
  <2>1. r + SHOULD_BE_ON_FREELIST = SHOULD_BE_ON_FREELIST + c /\ c > 0
    BY <1>4, <1>7
  <2>2. \A u, v \in FreeThreads : f[u] \in Owning /\ f[v] \in Owning => u = v
    BY DEF NodeOK
  <2> QED
    BY <1>2, <1>4, <2>1, <2>2 DEF NodeOK
<1> QED
  BY <1>1, <1>6, <1>7

\* The linking thread gives the list its reference, and clears the flag.
LEMMA StoreOK ==
  ASSUME FreeListConstants, NEW f \in [FreeThreads -> RoleNames], NEW t \in FreeThreads,
         NEW place \in {"held", "listed", "away"}, NEW r,
         NodeOK(f, place, r), f[t] = "flagged"
  PROVE  NodeOK([f EXCEPT ![t] = "linked"], place, 1) /\ place = "away"
<1>1. PICK g : g = [f EXCEPT ![t] = "linked"]
  OBVIOUS
<1>2. PICK c \in Nat : c = Cardinality(Referrers(f))
  BY ReferrersBound
<1>3. Cardinality(Referrers(g)) = c
  BY <1>1, <1>2, ReferrersSame DEF RoleNames
<1>4. Owned(f) /\ place = "away"
  BY DEF NodeOK, Owned, Owning
<1>5. \A u \in FreeThreads : f[u] \in Owning => u = t
  BY DEF NodeOK, Owning
<1>6. c = 0
  BY <1>2, <1>4, <1>5 DEF NodeOK, Owning
<1>7. g[t] = "linked" /\ \A u \in FreeThreads : g[u] \in Owning => u = t
  BY <1>1, <1>5
<1>8. NodeOK(g, place, 1)
  BY <1>3, <1>4, <1>6, <1>7 DEF NodeOK
<1> QED
  BY <1>1, <1>4, <1>8

\* The exchange of the head succeeds: the node is on the list.
LEMMA PushOK ==
  ASSUME FreeListConstants, NEW f \in [FreeThreads -> RoleNames], NEW t \in FreeThreads,
         NEW place \in {"held", "listed", "away"}, NEW r,
         NodeOK(f, place, r), f[t] = "linked"
  PROVE  NodeOK([f EXCEPT ![t] = "none"], "listed", r) /\ place = "away"
<1>1. PICK g : g = [f EXCEPT ![t] = "none"]
  OBVIOUS
<1>2. PICK c \in Nat : c = Cardinality(Referrers(f))
  BY ReferrersBound
<1>3. Cardinality(Referrers(g)) = c
  <2>1. "none" \in RoleNames /\ (f[t] \in {"ref", "taken"} <=> "none" \in {"ref", "taken"})
    BY DEF RoleNames
  <2> QED
    BY <1>1, <1>2, <2>1, ReferrersSame
<1>4. Owned(f) /\ place = "away"
  BY DEF NodeOK, Owned, Owning
<1>5. \A u \in FreeThreads : f[u] \in Owning => u = t
  BY DEF NodeOK, Owning
<1>6. r = c + 1
  BY <1>2, <1>4, <1>5 DEF NodeOK, Owning
<1>7. \A u \in FreeThreads : g[u] \notin Owning
  BY <1>1, <1>5 DEF Owning
<1>8. NodeOK(g, "listed", r)
  BY <1>3, <1>6, <1>7 DEF NodeOK, Owned
<1> QED
  BY <1>1, <1>4, <1>8

\* The exchange failed: the reference is given back and the flag raised again.
LEMMA RetryOK ==
  ASSUME FreeListConstants, NEW f \in [FreeThreads -> RoleNames], NEW t \in FreeThreads,
         NEW place \in {"held", "listed", "away"}, NEW r \in Nat,
         NodeOK(f, place, r), f[t] = "linked"
  PROVE  /\ r >= 1 /\ place = "away"
         /\ r = 1 => NodeOK([f EXCEPT ![t] = "flagged"], place, r + (SHOULD_BE_ON_FREELIST - 1))
         /\ r # 1 => NodeOK([f EXCEPT ![t] = "none"], place, r + (SHOULD_BE_ON_FREELIST - 1))
<1>1. PICK g : g = [f EXCEPT ![t] = "none"]
  OBVIOUS
<1>2. PICK k : k = [f EXCEPT ![t] = "flagged"]
  OBVIOUS
<1>3. PICK c \in Nat : c = Cardinality(Referrers(f))
  BY ReferrersBound
<1>4. Cardinality(Referrers(g)) = c /\ Cardinality(Referrers(k)) = c
  <2>1. /\ "none" \in RoleNames /\ "flagged" \in RoleNames
        /\ {f[t], "none", "flagged"} \cap {"ref", "taken"} = {}
    BY DEF RoleNames
  <2>2. Cardinality(Referrers(g)) = c
    BY <1>1, <1>3, <2>1, ReferrersSame
  <2>3. Cardinality(Referrers(k)) = c
    BY <1>2, <1>3, <2>1, ReferrersSame
  <2> QED
    BY <2>2, <2>3
<1>5. Owned(f) /\ place = "away"
  BY DEF NodeOK, Owned, Owning
<1>6. \A u \in FreeThreads : f[u] \in Owning => u = t
  BY DEF NodeOK, Owning
<1>7. r = c + 1 /\ SHOULD_BE_ON_FREELIST \in Nat
  BY <1>3, <1>5, <1>6 DEF NodeOK, Owning, FreeListConstants
<1>8. r + (SHOULD_BE_ON_FREELIST - 1) = SHOULD_BE_ON_FREELIST + c
  BY <1>7
<1>9. \A u \in FreeThreads : g[u] \notin Owning
  BY <1>1, <1>6 DEF Owning
<1>10. k[t] = "flagged" /\ \A u \in FreeThreads : k[u] \in Owning => u = t
  BY <1>2, <1>6
<1>11. ASSUME r = 1
       PROVE  NodeOK(k, place, r + (SHOULD_BE_ON_FREELIST - 1))
  <2>1. c = 0 /\ r + (SHOULD_BE_ON_FREELIST - 1) = SHOULD_BE_ON_FREELIST
    BY <1>7, <1>11
  <2> QED
    BY <1>4, <1>5, <1>10, <2>1 DEF NodeOK
<1>12. ASSUME r # 1
       PROVE  NodeOK(g, place, r + (SHOULD_BE_ON_FREELIST - 1))
  <2>1. c > 0
    BY <1>7, <1>12
  <2> QED
    BY <1>4, <1>5, <1>8, <1>9, <2>1 DEF NodeOK, Owned
<1> QED
  BY <1>1, <1>2, <1>5, <1>7, <1>11, <1>12

\* The head is exchanged with its successor: the node is the thread's.
LEMMA PopOK ==
  ASSUME FreeListConstants, NEW f \in [FreeThreads -> RoleNames], NEW t \in FreeThreads,
         NEW r, NodeOK(f, "listed", r), f[t] = "ref"
  PROVE  NodeOK([f EXCEPT ![t] = "taken"], "away", r)
<1>1. PICK g : g = [f EXCEPT ![t] = "taken"]
  OBVIOUS
<1>2. PICK c \in Nat : c = Cardinality(Referrers(f))
  BY ReferrersBound
<1>3. Cardinality(Referrers(g)) = c
  BY <1>1, <1>2, ReferrersSame DEF RoleNames
<1>4. r = c + 1 /\ ~Owned(f)
  BY <1>2 DEF NodeOK
<1>5. g[t] = "taken" /\ \A u \in FreeThreads : g[u] \in Owning => u = t
  BY <1>1, <1>4 DEF Owned
<1>6. NodeOK(g, "away", r)
  BY <1>3, <1>4, <1>5 DEF NodeOK
<1> QED
  BY <1>1, <1>6

\* Both references are given back: the caller of try_get owns the node.
LEMMA ReturnOK ==
  ASSUME FreeListConstants, NEW f \in [FreeThreads -> RoleNames], NEW t \in FreeThreads,
         NEW place \in {"held", "listed", "away"}, NEW r \in Nat,
         NodeOK(f, place, r), f[t] = "taken"
  PROVE  /\ r - 2 \in Nat /\ place = "away"
         /\ NodeOK([f EXCEPT ![t] = "none"], "held", r - 2)
<1>1. PICK g : g = [f EXCEPT ![t] = "none"]
  OBVIOUS
<1>2. PICK c \in Nat : c = Cardinality(Referrers(f))
  BY ReferrersBound
<1>3. Cardinality(Referrers(g)) = c - 1
  <2>1. "none" \in RoleNames /\ f[t] \in {"ref", "taken"} /\ "none" \notin {"ref", "taken"}
    BY DEF RoleNames
  <2> QED
    BY <1>1, <1>2, <2>1, ReferrersDrop
<1>4. Owned(f) /\ place = "away" /\ c > 0
  BY <1>2, ReferrersPositive DEF NodeOK, Owned, Owning
<1>5. \A u \in FreeThreads : f[u] \in Owning => u = t
  BY DEF NodeOK, Owning
<1>6. r = c + 1
  BY <1>2, <1>4, <1>5 DEF NodeOK, Owning
<1>7. \A u \in FreeThreads : g[u] \notin Owning
  BY <1>1, <1>5 DEF Owning
<1>8. r - 2 = c - 1 /\ r - 2 \in Nat
  BY <1>4, <1>6
<1>9. NodeOK(g, "held", r - 2)
  BY <1>3, <1>7, <1>8 DEF NodeOK, Owned
<1> QED
  BY <1>1, <1>4, <1>8, <1>9

-----------------------------------------------------------------------------
(* The list and the threads                                                 *)

\* The roles of the threads are roles.
LEMMA RolesType == \A n : Roles(n) \in [FreeThreads -> RoleNames]
BY RoleType DEF Roles, RolesIn, RoleNames

\* A thread that takes up node n.
LEMMA RolesUp ==
  ASSUME FreeListTypes, NEW t \in FreeThreads, NEW n \in Nodes, NEW l, NEW at, NEW of,
         at = [fpc EXCEPT ![t] = l], of = [node EXCEPT ![t] = n], RoleAt(fpc[t]) = "none"
  PROVE  /\ RolesIn(at, of, n) = [Roles(n) EXCEPT ![t] = RoleAt(l)]
         /\ \A m \in Nodes \ {n} : RolesIn(at, of, m) = Roles(m)
<1>1. at[t] = l /\ of[t] = n /\ \A u \in FreeThreads \ {t} : at[u] = fpc[u] /\ of[u] = node[u]
  BY DEF FreeListTypes
<1>2. RolesIn(at, of, n) = [Roles(n) EXCEPT ![t] = RoleAt(l)]
  <2>1. PICK f : f = [u \in FreeThreads |-> IF node[u] = n THEN RoleAt(fpc[u]) ELSE "none"]
    OBVIOUS
  <2>2. [u \in FreeThreads |-> IF of[u] = n THEN RoleAt(at[u]) ELSE "none"] = [f EXCEPT ![t] = RoleAt(l)]
    BY <1>1, <2>1
  <2> QED
    BY <2>1, <2>2 DEF Roles, RolesIn
<1>3. ASSUME NEW m \in Nodes \ {n}
      PROVE  RolesIn(at, of, m) = Roles(m)
  BY <1>1 DEF Roles, RolesIn
<1> QED
  BY <1>2, <1>3

\* A thread that goes on with its node.
LEMMA RolesOn ==
  ASSUME FreeListTypes, NEW t \in FreeThreads, NEW l, NEW at,
         at = [fpc EXCEPT ![t] = l]
  PROVE  RolesIn(at, node, node[t]) = [Roles(node[t]) EXCEPT ![t] = RoleAt(l)]
<1>1. PICK n : n = node[t]
  OBVIOUS
<1>2. at[t] = l /\ \A u \in FreeThreads \ {t} : at[u] = fpc[u] /\ node[u] = node[u]
  BY DEF FreeListTypes
<1>3. PICK f : f = [u \in FreeThreads |-> IF node[u] = n THEN RoleAt(fpc[u]) ELSE "none"]
  OBVIOUS
<1>4. [u \in FreeThreads |-> IF node[u] = n THEN RoleAt(at[u]) ELSE "none"] = [f EXCEPT ![t] = RoleAt(l)]
  BY <1>1, <1>2, <1>3
<1> QED
  BY <1>1, <1>3, <1>4 DEF Roles, RolesIn

\* A thread that leaves its node.
LEMMA RolesOff ==
  ASSUME NEW t \in FreeThreads, NEW at, NEW of,
         \A u \in FreeThreads \ {t} : at[u] = fpc[u] /\ of[u] = node[u],
         RoleAt(at[t]) = "none"
  PROVE  RolesIn(at, of, node[t]) = [Roles(node[t]) EXCEPT ![t] = "none"]
<1>1. PICK n : n = node[t]
  OBVIOUS
<1>2. PICK f : f = [u \in FreeThreads |-> IF node[u] = n THEN RoleAt(fpc[u]) ELSE "none"]
  OBVIOUS
<1>3. [u \in FreeThreads |-> IF of[u] = n THEN RoleAt(at[u]) ELSE "none"] = [f EXCEPT ![t] = "none"]
  BY <1>1, <1>2
<1> QED
  BY <1>1, <1>2, <1>3 DEF Roles, RolesIn

\* Either way its roles for the other nodes are what they were.
LEMMA RolesElse ==
  ASSUME NEW t \in FreeThreads, NEW n \in {node[t]},
         \A u \in FreeThreads \ {t} : fpc'[u] = fpc[u] /\ node'[u] = node[u],
         node'[t] \in {n} \/ RoleAt(fpc'[t]) = "none"
  PROVE  \A m \in Nodes \ {n} : Roles(m)' = Roles(m)
<1> SUFFICES ASSUME NEW m \in Nodes \ {n}
             PROVE  RolesIn(fpc', node', m) = RolesIn(fpc, node, m)
  BY DEF Roles
<1> QED
  BY DEF RolesIn

\* A thread that keeps its role for the node it works on changes no role.
LEMMA RolesKeep ==
  ASSUME FreeListTypes, NEW t \in FreeThreads, NEW l, NEW y,
         fpc' = [fpc EXCEPT ![t] = l], node' = [node EXCEPT ![t] = y],
         RoleAt(l) = RoleAt(fpc[t]),
         y = node[t] \/ RoleAt(l) = "none"
  PROVE  \A m : Roles(m)' = Roles(m)
<1>1. fpc'[t] = l /\ node'[t] = y
  BY DEF FreeListTypes
<1>2. \A u \in FreeThreads \ {t} : fpc'[u] = fpc[u] /\ node'[u] = node[u]
  BY DEF FreeListTypes
<1> QED
  BY <1>1, <1>2 DEF Roles, RolesIn

\* A node has a place.
LEMMA PlaceType == \A n, s : PlaceOf(n, s) \in {"held", "listed", "away"}
BY DEF PlaceOf

\* A step that changes neither the list nor a role nor a reference count.
LEMMA ListKept ==
  ASSUME ListOK, \A m \in Nodes : Roles(m)' = Roles(m),
         UNCHANGED <<freeListHead, freeListRefs, freeListNext, held>>
  PROVE  ListOK'
<1>1. PICK s \in Seq(Nodes) :
         /\ ListIs(s) /\ \A i \in 1 .. Len(s) : s[i] \notin held
         /\ \A n \in Nodes : NodeOK(Roles(n), PlaceOf(n, s), freeListRefs[n])
  BY DEF ListOK
<1>2. ListIs(s)'
  BY <1>1 DEF ListIs
<1>3. ASSUME NEW n \in Nodes
      PROVE  NodeOK(Roles(n)', PlaceOf(n, s)', freeListRefs'[n])
  <2>1. PlaceOf(n, s)' = PlaceOf(n, s) /\ Roles(n)' = Roles(n) /\ freeListRefs'[n] = freeListRefs[n]
    BY DEF PlaceOf
  <2> QED
    BY <1>1, <2>1
<1>4. \A i \in 1 .. Len(s) : s[i] \notin held'
  BY <1>1
<1> QED
  BY <1>1, <1>2, <1>3, <1>4 DEF ListOK

\* A step that changes the roles and the reference count of one node only, and
\* neither the list nor whose the nodes are.
LEMMA ListKeptButOne ==
  ASSUME ListOK, NEW n \in Nodes,
         \A m \in Nodes \ {n} : Roles(m)' = Roles(m) /\ freeListRefs'[m] = freeListRefs[m],
         \A place \in {"held", "listed", "away"} :
           NodeOK(Roles(n), place, freeListRefs[n]) => NodeOK(Roles(n)', place, freeListRefs'[n]),
         UNCHANGED <<freeListHead, freeListNext, held>>
  PROVE  ListOK'
<1>1. PICK s \in Seq(Nodes) :
         /\ ListIs(s) /\ \A i \in 1 .. Len(s) : s[i] \notin held
         /\ \A m \in Nodes : NodeOK(Roles(m), PlaceOf(m, s), freeListRefs[m])
  BY DEF ListOK
<1>2. ListIs(s)'
  BY <1>1 DEF ListIs
<1>3. ASSUME NEW m \in Nodes
      PROVE  NodeOK(Roles(m)', PlaceOf(m, s)', freeListRefs'[m])
  <2>1. PlaceOf(m, s)' = PlaceOf(m, s)
    BY DEF PlaceOf
  <2>2. CASE m = n
    BY <1>1, <2>1, <2>2, PlaceType
  <2>3. CASE m # n
    BY <1>1, <2>1, <2>3
  <2> QED
    BY <2>2, <2>3
<1>4. \A i \in 1 .. Len(s) : s[i] \notin held'
  BY <1>1
<1> QED
  BY <1>1, <1>2, <1>3, <1>4 DEF ListOK

\* A node with an owner is not on the list.
LEMMA OwnedIsAway ==
  ASSUME FreeListConstants, NEW f, NEW place \in {"held", "listed", "away"}, NEW r,
         NodeOK(f, place, r), NEW t \in FreeThreads, f[t] \in Owning
  PROVE  /\ place = "away"
         /\ \A u \in FreeThreads : f[u] \in Owning => u = t
         /\ f[t] = "flagged" => \A u \in FreeThreads : f[u] \notin {"ref", "taken"}
<1>1. Owned(f)
  BY DEF Owned
<1>2. place = "away"
  BY <1>1 DEF NodeOK
<1>3. \A u \in FreeThreads : f[u] \in Owning => u = t
  BY DEF NodeOK
<1>4. ASSUME f[t] = "flagged", NEW u \in FreeThreads, f[u] \in {"ref", "taken"}
      PROVE  FALSE
  <2>1. Cardinality(Referrers(f)) = 0
    BY <1>1, <1>2, <1>3, <1>4 DEF NodeOK, Owning
  <2>2. Cardinality(Referrers(f)) > 0
    BY <1>4, ReferrersPositive
  <2> QED
    BY <2>1, <2>2
<1> QED
  BY <1>2, <1>3, <1>4

-----------------------------------------------------------------------------
(* The steps of add                                                         *)

\* A step of one thread that leaves next as it is does not concern the others.
LEMMA OthersKept ==
  ASSUME FreeListIInv, NEW t \in FreeThreads, freeListNext' = freeListNext,
         \A u \in FreeThreads \ {t} :
           /\ fpc'[u] = fpc[u] /\ node'[u] = node[u] /\ head'[u] = head[u] /\ refs'[u] = refs[u],
         ThreadOK(t)'
  PROVE  \A u \in FreeThreads : ThreadOK(u)'
<1> SUFFICES ASSUME NEW u \in FreeThreads \ {t}
             PROVE  ThreadOK(u)'
  OBVIOUS
<1>1. ThreadOK(u)
  BY DEF FreeListIInv
<1> QED
  BY <1>1 DEF ThreadOK, Count

\* add(): the flag is raised.
LEMMA AddKeeps ==
  ASSUME FreeListConstants, FreeListIInv, NEW t \in FreeThreads, NEW n \in Nodes, Add(t, n)
  PROVE  FreeListIInv'
<1>0. FreeListTypes /\ ThreadOK(t)
  BY DEF FreeListIInv
<1>1. PICK r \in Nat : r = freeListRefs[n]
  BY <1>0 DEF FreeListTypes
<1>2. /\ fpc[t] = "idle" /\ n \in held /\ held' = held \ {n}
      /\ freeListRefs' = [freeListRefs EXCEPT ![n] = r + SHOULD_BE_ON_FREELIST]
      /\ UNCHANGED <<freeListHead, freeListNext, head, refs, resume>>
      /\ r = 0 => fpc' = [fpc EXCEPT ![t] = "add"] /\ node' = [node EXCEPT ![t] = n]
      /\ r # 0 => fpc' = fpc /\ node' = node
  BY <1>1 DEF Add, AddRefs, MoveTo, locals
<1>3. FreeListTypes'
  BY <1>0, <1>1, <1>2 DEF FreeListTypes, Pointer, FreeListConstants
<1>4. ThreadOK(t)'
  BY <1>0, <1>2, RoleTable DEF ThreadOK, FreeListTypes
<1>5. \A u \in FreeThreads : ThreadOK(u)'
  BY <1>0, <1>2, <1>4, OthersKept DEF FreeListTypes
<1>6. /\ Roles(n)' = IF r = 0 THEN [Roles(n) EXCEPT ![t] = "flagged"] ELSE Roles(n)
      /\ \A m \in Nodes \ {n} : Roles(m)' = Roles(m)
  <2>1. CASE r = 0
    BY <1>0, <1>2, <2>1, RolesUp, RoleTable DEF Roles
  <2>2. CASE r # 0
    BY <1>2, <2>2 DEF Roles, RolesIn
  <2> QED
    BY <2>1, <2>2
<1>7. ListOK'
  <2>1. PICK s \in Seq(Nodes) :
          /\ ListIs(s) /\ \A i \in 1 .. Len(s) : s[i] \notin held
          /\ \A m \in Nodes : NodeOK(Roles(m), PlaceOf(m, s), freeListRefs[m])
    BY DEF FreeListIInv, ListOK
  <2>2. ListIs(s)' /\ \A i \in 1 .. Len(s) : s[i] \notin held'
    BY <1>2, <2>1 DEF ListIs
  <2>3. PlaceOf(n, s) = "held" /\ PlaceOf(n, s)' = "away"
    BY <1>2, <2>1 DEF PlaceOf
  <2>4. Roles(n) \in [FreeThreads -> RoleNames] /\ Roles(n)[t] = "none"
    BY <1>2, RolesType, RoleTable DEF Roles, RolesIn
  <2>5. NodeOK(Roles(n)', "away", r + SHOULD_BE_ON_FREELIST)
    BY <1>1, <1>6, <2>1, <2>3, <2>4, AddOK
  <2>6. freeListRefs'[n] = r + SHOULD_BE_ON_FREELIST
    BY <1>0, <1>2 DEF FreeListTypes
  <2>7. ASSUME NEW m \in Nodes \ {n}
        PROVE  NodeOK(Roles(m)', PlaceOf(m, s)', freeListRefs'[m])
    <3>1. PlaceOf(m, s)' = PlaceOf(m, s)
      BY <1>2 DEF PlaceOf
    <3>2. freeListRefs'[m] = freeListRefs[m]
      BY <1>0, <1>2 DEF FreeListTypes
    <3> QED
      BY <1>6, <2>1, <3>1, <3>2
  <2> QED
    BY <2>2, <2>3, <2>5, <2>6, <2>7 DEF ListOK
<1> QED
  BY <1>3, <1>5, <1>7 DEF FreeListIInv

\* add_knowing_refcount_is_zero loads the head.
LEMMA AddLoadHeadKeeps ==
  ASSUME FreeListConstants, FreeListIInv, NEW t \in FreeThreads, AddLoadHead(t)
  PROVE  FreeListIInv'
<1>0. FreeListTypes /\ ThreadOK(t)
  BY DEF FreeListIInv
<1>1. /\ fpc[t] = "add" /\ fpc' = [fpc EXCEPT ![t] = "link"]
      /\ head' = [head EXCEPT ![t] = freeListHead]
      /\ UNCHANGED <<freeListHead, freeListRefs, freeListNext, held, node, refs, resume>>
  BY DEF AddLoadHead, MoveTo, fields
<1>2. FreeListTypes'
  BY <1>0, <1>1 DEF FreeListTypes
<1>3. ThreadOK(t)'
  BY <1>0, <1>1, RoleTable DEF ThreadOK, FreeListTypes
<1>4. \A u \in FreeThreads : ThreadOK(u)'
  BY <1>0, <1>1, <1>3, OthersKept DEF FreeListTypes
<1>5. node' = [node EXCEPT ![t] = node[t]]
  BY <1>0, <1>1 DEF FreeListTypes
<1>6. \A m : Roles(m)' = Roles(m)
  BY <1>0, <1>1, <1>5, RolesKeep, RoleTable
<1> QED
  BY <1>1, <1>2, <1>4, <1>6, ListKept DEF FreeListIInv

\* The next pointer of a node is stored by the thread that links it, when no
\* other thread has a reference to it.
LEMMA AddStoreNextKeeps ==
  ASSUME FreeListConstants, FreeListIInv, NEW t \in FreeThreads, AddStoreNext(t)
  PROVE  FreeListIInv'
<1>0. FreeListTypes /\ ThreadOK(t)
  BY DEF FreeListIInv
<1>1. /\ fpc[t] = "link" /\ fpc' = [fpc EXCEPT ![t] = "one"]
      /\ freeListNext' = [freeListNext EXCEPT ![node[t]] = head[t]]
      /\ UNCHANGED <<freeListHead, freeListRefs, held, node, head, refs, resume>>
  BY DEF AddStoreNext, MoveTo, locals
<1>2. FreeListTypes'
  BY <1>0, <1>1 DEF FreeListTypes
<1>3. PICK n \in Nodes : n = node[t]
  BY <1>0, <1>1, RoleTable DEF ThreadOK
<1>4. PICK s \in Seq(Nodes) :
        /\ ListIs(s) /\ \A i \in 1 .. Len(s) : s[i] \notin held
        /\ \A m \in Nodes : NodeOK(Roles(m), PlaceOf(m, s), freeListRefs[m])
  BY DEF FreeListIInv, ListOK
<1>5. Roles(n)[t] = "flagged"
  BY <1>1, <1>3, RoleTable DEF Roles, RolesIn
<1>6. /\ PlaceOf(n, s) = "away"
      /\ \A u \in FreeThreads : Roles(n)[u] \in Owning => u = t
      /\ \A u \in FreeThreads : Roles(n)[u] \notin {"ref", "taken"}
  BY <1>4, <1>5, OwnedIsAway, PlaceType DEF Owning
<1>7. \A i \in 1 .. Len(s) : s[i] # n
  BY <1>6 DEF PlaceOf
<1>8. ASSUME NEW u \in FreeThreads
      PROVE  ThreadOK(u)'
  <2>1. ThreadOK(u)
    BY DEF FreeListIInv
  <2>2. CASE u = t
    BY <1>0, <1>1, <1>3, <2>1, <2>2, RoleTable DEF ThreadOK, FreeListTypes
  <2>3. CASE u # t
    <3>1. fpc'[u] = fpc[u]
      BY <1>0, <1>1, <2>3 DEF FreeListTypes
    <3>2. fpc[u] \in {"pop", "one", "push"} => node[u] # n
      <4>1. SUFFICES ASSUME fpc[u] \in {"pop", "one", "push"}, node[u] = n
                     PROVE  FALSE
        OBVIOUS
      <4>2. Roles(n)[u] \in {"ref", "flagged", "linked"}
        BY <4>1, RoleTable DEF Roles, RolesIn
      <4> QED
        BY <1>6, <2>3, <4>2 DEF Owning
    <3>3. fpc[u] \in {"pop", "one", "push"} => node[u] \in Nodes
      BY <2>1, RoleTable DEF ThreadOK
    <3>4. fpc[u] \in {"pop", "one", "push"} => freeListNext'[node[u]] = freeListNext[node[u]]
      BY <1>0, <1>1, <1>3, <3>2, <3>3 DEF FreeListTypes
    <3> QED
      BY <1>1, <2>1, <3>1, <3>4 DEF ThreadOK, Count
  <2> QED
    BY <2>2, <2>3
<1>9. node' = [node EXCEPT ![t] = node[t]]
  BY <1>0, <1>1 DEF FreeListTypes
<1>10. \A m : Roles(m)' = Roles(m)
  BY <1>0, <1>1, <1>9, RolesKeep, RoleTable
<1>11. ListIs(s)'
  <2>1. \A i \in 1 .. Len(s) : s[i] \in Nodes
    BY ElementOfSeq
  <2>2. \A i \in 1 .. Len(s) : freeListNext'[s[i]] = freeListNext[s[i]]
    BY <1>0, <1>1, <1>3, <1>7, <2>1 DEF FreeListTypes
  <2> QED
    BY <1>1, <1>4, <2>2 DEF ListIs
<1>12. ASSUME NEW m \in Nodes
       PROVE  NodeOK(Roles(m)', PlaceOf(m, s)', freeListRefs'[m])
  <2>1. PlaceOf(m, s)' = PlaceOf(m, s)
    BY <1>1 DEF PlaceOf
  <2> QED
    BY <1>1, <1>4, <1>10, <2>1
<1>13. ListOK'
  BY <1>1, <1>4, <1>11, <1>12 DEF ListOK
<1> QED
  BY <1>2, <1>8, <1>13 DEF FreeListIInv

\* The list gets its reference, and the flag is cleared.
LEMMA AddStoreRefsKeeps ==
  ASSUME FreeListConstants, FreeListIInv, NEW t \in FreeThreads, AddStoreRefs(t)
  PROVE  FreeListIInv'
<1>0. FreeListTypes /\ ThreadOK(t)
  BY DEF FreeListIInv
<1>1. /\ fpc[t] = "one" /\ fpc' = [fpc EXCEPT ![t] = "push"]
      /\ freeListRefs' = [freeListRefs EXCEPT ![node[t]] = 1]
      /\ UNCHANGED <<freeListHead, freeListNext, held, node, head, refs, resume>>
  BY DEF AddStoreRefs, MoveTo, locals
<1>2. FreeListTypes'
  BY <1>0, <1>1 DEF FreeListTypes
<1>3. PICK n \in Nodes : n = node[t]
  BY <1>0, <1>1, RoleTable DEF ThreadOK
<1>4. ThreadOK(t)'
  BY <1>0, <1>1, <1>3, RoleTable DEF ThreadOK, FreeListTypes
<1>5. \A u \in FreeThreads : ThreadOK(u)'
  BY <1>0, <1>1, <1>4, OthersKept DEF FreeListTypes
<1>7. /\ Roles(n)' = [Roles(n) EXCEPT ![t] = "linked"]
      /\ \A m \in Nodes \ {n} : Roles(m)' = Roles(m)
  <2>1. PICK at : at = fpc'
    OBVIOUS
  <2>2. at = [fpc EXCEPT ![t] = "push"] /\ "linked" = RoleAt("push") /\ node[t] = n
    BY <1>1, <1>3, <2>1, RoleTable
  <2>3. RolesIn(at, node, n) = [Roles(n) EXCEPT ![t] = RoleAt("push")]
    BY <1>0, <2>2, RolesOn
  <2>4. Roles(n)' = [Roles(n) EXCEPT ![t] = "linked"]
    BY <1>1, <2>1, <2>2, <2>3 DEF Roles
  <2>5. \A m \in Nodes \ {n} : Roles(m)' = Roles(m)
    BY <1>0, <1>1, <2>2, RolesElse DEF FreeListTypes
  <2> QED
    BY <2>4, <2>5
<1>8. Roles(n) \in [FreeThreads -> RoleNames] /\ Roles(n)[t] = "flagged"
  BY <1>1, <1>3, RolesType, RoleTable DEF Roles, RolesIn
<1>9. \A place \in {"held", "listed", "away"} :
        NodeOK(Roles(n), place, freeListRefs[n]) => NodeOK(Roles(n)', place, freeListRefs'[n])
  <2>1. freeListRefs'[n] = 1
    BY <1>0, <1>1, <1>3 DEF FreeListTypes
  <2> QED
    BY <1>7, <1>8, <2>1, StoreOK
<1>10. \A m \in Nodes \ {n} : freeListRefs'[m] = freeListRefs[m]
  BY <1>0, <1>1, <1>3 DEF FreeListTypes
<1>11. ListOK'
  BY <1>1, <1>7, <1>9, <1>10, ListKeptButOne DEF FreeListIInv
<1> QED
  BY <1>2, <1>5, <1>11 DEF FreeListIInv

\* A thread at the top of the loop of try_get, or returned.
LEMMA LoopFacts ==
  ASSUME FreeListTypes, NEW t \in FreeThreads, NEW x \in Pointer, Loop(t, x)
  PROVE  /\ \E l \in {"idle", "refs"} : fpc' = [fpc EXCEPT ![t] = l]
         /\ node' = [node EXCEPT ![t] = NullNode] /\ head' \in [FreeThreads -> Pointer]
         /\ refs' \in [FreeThreads -> Nat] /\ resume' \in [FreeThreads -> Pointer]
         /\ ThreadOK(t)'
         /\ \A u \in FreeThreads \ {t} :
              /\ fpc'[u] = fpc[u] /\ node'[u] = node[u] /\ head'[u] = head[u] /\ refs'[u] = refs[u]
<1>1. PICK l \in {"idle", "refs"} : l = IF x = NullNode THEN "idle" ELSE "refs"
  OBVIOUS
<1>2. /\ fpc' = [fpc EXCEPT ![t] = l] /\ node' = [node EXCEPT ![t] = NullNode]
      /\ head' = [head EXCEPT ![t] = x] /\ refs' = [refs EXCEPT ![t] = 0]
      /\ resume' = [resume EXCEPT ![t] = NullNode]
  BY <1>1 DEF Loop, MoveTo
<1>3. /\ head' \in [FreeThreads -> Pointer] /\ refs' \in [FreeThreads -> Nat]
      /\ resume' \in [FreeThreads -> Pointer]
  BY <1>2 DEF FreeListTypes, Pointer
<1>4. /\ fpc'[t] = l /\ head'[t] = x
      /\ \A u \in FreeThreads \ {t} :
           /\ fpc'[u] = fpc[u] /\ node'[u] = node[u] /\ head'[u] = head[u] /\ refs'[u] = refs[u]
  BY <1>2 DEF FreeListTypes
<1>5. RoleAt(l) = "none" /\ (l = "refs" => x \in Nodes)
  BY <1>1, RoleTable DEF Pointer
<1>6. ThreadOK(t)'
  BY <1>1, <1>4, <1>5 DEF ThreadOK
<1> QED
  BY <1>2, <1>3, <1>4, <1>6

\* A node is put in front of the list.
LEMMA InFront ==
  ASSUME NEW s \in Seq(Nodes), NEW n \in Nodes, NEW q, q = <<n>> \o s
  PROVE  /\ q \in Seq(Nodes) /\ Len(q) = Len(s) + 1 /\ q # <<>> /\ q[1] = n
         /\ \A i \in 1 .. Len(s) : q[i + 1] = s[i]
         /\ \A i \in 1 .. Len(q) : i = 1 \/ (i - 1 \in 1 .. Len(s) /\ q[i] = s[i - 1])
<1>1. q \in Seq(Nodes) /\ Len(q) = Len(s) + 1
  OBVIOUS
<1>2. q[1] = n /\ q # <<>>
  BY <1>1
<1>3. \A i \in 1 .. Len(s) : q[i + 1] = s[i]
  OBVIOUS
<1>4. ASSUME NEW i \in 1 .. Len(q), i # 1
      PROVE  i - 1 \in 1 .. Len(s) /\ q[i] = s[i - 1]
  BY <1>1, <1>3, <1>4
<1> QED
  BY <1>1, <1>2, <1>3, <1>4

\* The head is exchanged: the node is on the list, or the thread has to give the
\* list's reference back.
LEMMA AddCasKeeps ==
  ASSUME FreeListConstants, FreeListIInv, NEW t \in FreeThreads, AddCas(t)
  PROVE  FreeListIInv'
<1>0. FreeListTypes /\ ThreadOK(t)
  BY DEF FreeListIInv
<1>1. fpc[t] = "push" /\ UNCHANGED <<freeListRefs, freeListNext, held>>
  BY DEF AddCas, fields
<1>3. PICK n \in Nodes : n = node[t]
  BY <1>0, <1>1, RoleTable DEF ThreadOK
<1>4. CASE freeListHead = head[t]
  <2>1. PICK x \in Pointer : x = resume[t]
    BY <1>0 DEF FreeListTypes
  <2>2. freeListHead' = n /\ Loop(t, x)
    BY <1>3, <1>4, <2>1 DEF AddCas
  <2>3. PICK l \in {"idle", "refs"} : fpc' = [fpc EXCEPT ![t] = l]
    BY <1>0, <2>2, LoopFacts
  <2>4. /\ node' = [node EXCEPT ![t] = NullNode] /\ head' \in [FreeThreads -> Pointer]
        /\ refs' \in [FreeThreads -> Nat] /\ resume' \in [FreeThreads -> Pointer]
        /\ ThreadOK(t)'
        /\ \A u \in FreeThreads \ {t} :
             /\ fpc'[u] = fpc[u] /\ node'[u] = node[u] /\ head'[u] = head[u] /\ refs'[u] = refs[u]
    BY <1>0, <2>2, LoopFacts
  <2>5. FreeListTypes'
    BY <1>0, <1>1, <2>2, <2>3, <2>4 DEF FreeListTypes, Pointer
  <2>6. \A u \in FreeThreads : ThreadOK(u)'
    BY <1>1, <2>4, OthersKept
  <2>7. /\ Roles(n)' = [Roles(n) EXCEPT ![t] = "none"]
        /\ \A m \in Nodes \ {n} : Roles(m)' = Roles(m)
    <3>1. PICK at : at = fpc'
      OBVIOUS
    <3>2. PICK of : of = node'
      OBVIOUS
    <3>3. /\ fpc'[t] = l /\ RoleAt(l) = "none" /\ node[t] = n
          /\ \A u \in FreeThreads \ {t} : fpc'[u] = fpc[u] /\ node'[u] = node[u]
      BY <1>0, <2>3, <2>4, <1>3, RoleTable DEF FreeListTypes
    <3>4. RolesIn(at, of, node[t]) = [Roles(node[t]) EXCEPT ![t] = "none"]
      BY <3>1, <3>2, <3>3, RolesOff
    <3>5. Roles(n)' = [Roles(n) EXCEPT ![t] = "none"]
      BY <3>1, <3>2, <3>3, <3>4 DEF Roles
    <3>6. \A m \in Nodes \ {n} : Roles(m)' = Roles(m)
      BY <3>3, RolesElse
    <3> QED
      BY <3>5, <3>6
  <2>8. PICK s \in Seq(Nodes) :
          /\ ListIs(s) /\ \A i \in 1 .. Len(s) : s[i] \notin held
          /\ \A m \in Nodes : NodeOK(Roles(m), PlaceOf(m, s), freeListRefs[m])
    BY DEF FreeListIInv, ListOK
  <2>9. Roles(n) \in [FreeThreads -> RoleNames] /\ Roles(n)[t] = "linked"
    BY <1>1, <1>3, RolesType, RoleTable DEF Roles, RolesIn
  <2>10. NodeOK(Roles(n)', "listed", freeListRefs[n]) /\ PlaceOf(n, s) = "away"
    <3>1. PICK f \in [FreeThreads -> RoleNames] : f = Roles(n)
      BY <2>9
    <3>2. f[t] = "linked" /\ NodeOK(f, PlaceOf(n, s), freeListRefs[n])
      BY <2>8, <2>9, <3>1
    <3>3. NodeOK([f EXCEPT ![t] = "none"], "listed", freeListRefs[n]) /\ PlaceOf(n, s) = "away"
      BY <3>2, PushOK, PlaceType
    <3> QED
      BY <2>7, <3>1, <3>3
  <2>11. n \notin held /\ \A i \in 1 .. Len(s) : s[i] # n
    BY <2>10 DEF PlaceOf
  <2>12. PICK q : q = <<n>> \o s
    OBVIOUS
  <2>13. /\ q \in Seq(Nodes) /\ Len(q) = Len(s) + 1 /\ q # <<>> /\ q[1] = n
         /\ \A i \in 1 .. Len(s) : q[i + 1] = s[i]
         /\ \A i \in 1 .. Len(q) : i = 1 \/ (i - 1 \in 1 .. Len(s) /\ q[i] = s[i - 1])
    BY <2>12, InFront
  <2>14. Len(s) \in Nat /\ (s = <<>> <=> Len(s) = 0)
    BY EmptySeq
  <2>15. ListIs(q)'
    <3>1. freeListNext[n] = IF s = <<>> THEN NullNode ELSE s[1]
      BY <1>0, <1>1, <1>3, <1>4, <2>8 DEF ThreadOK, ListIs
    <3>2. ASSUME NEW i \in 1 .. Len(q)
          PROVE  freeListNext[q[i]] = IF i = Len(q) THEN NullNode ELSE q[i + 1]
      <4>1. CASE i = 1
        BY <2>13, <2>14, <3>1, <4>1
      <4>2. CASE i # 1
        <5>1. PICK j \in 1 .. Len(s) : j = i - 1 /\ q[i] = s[j]
          BY <2>13, <4>2
        <5>2. freeListNext[s[j]] = IF j = Len(s) THEN NullNode ELSE s[j + 1]
          BY <2>8 DEF ListIs
        <5>3. CASE j = Len(s)
          BY <2>13, <2>14, <5>1, <5>2, <5>3
        <5>4. CASE j # Len(s)
          <6>1. j + 1 \in 1 .. Len(s) /\ j + 1 = i /\ i # Len(q)
            BY <2>13, <2>14, <5>1, <5>4
          <6> QED
            BY <2>13, <5>1, <5>2, <5>4, <6>1
        <5> QED
          BY <5>3, <5>4
      <4> QED
        BY <4>1, <4>2
    <3>3. ASSUME NEW i \in 1 .. Len(q), NEW j \in 1 .. Len(q), q[i] = q[j]
          PROVE  i = j
      <4>1. CASE i = 1 /\ j = 1
        BY <4>1
      <4>2. CASE i = 1 /\ j # 1
        BY <2>11, <2>13, <3>3, <4>2
      <4>3. CASE i # 1 /\ j = 1
        BY <2>11, <2>13, <3>3, <4>3
      <4>4. CASE i # 1 /\ j # 1
        <5>1. PICK a \in 1 .. Len(s) : a = i - 1 /\ q[i] = s[a]
          BY <2>13, <4>4
        <5>2. PICK b \in 1 .. Len(s) : b = j - 1 /\ q[j] = s[b]
          BY <2>13, <4>4
        <5>3. a = b
          BY <2>8, <3>3, <5>1, <5>2 DEF ListIs
        <5> QED
          BY <2>13, <2>14, <5>1, <5>2, <5>3
      <4> QED
        BY <4>1, <4>2, <4>3, <4>4
    <3> QED
      BY <1>1, <2>2, <2>13, <3>2, <3>3 DEF ListIs
  <2>16. \A i \in 1 .. Len(q) : q[i] \notin held'
    BY <1>1, <2>8, <2>11, <2>13
  <2>17. 1 \in 1 .. Len(q)
    BY <2>13, <2>14
  <2>18. PlaceOf(n, q)' = "listed"
    BY <1>1, <2>11, <2>13, <2>17 DEF PlaceOf
  <2>19. ASSUME NEW m \in Nodes \ {n}
         PROVE  PlaceOf(m, q)' = PlaceOf(m, s)
    <3>1. (\E i \in 1 .. Len(q) : q[i] = m) <=> (\E i \in 1 .. Len(s) : s[i] = m)
      <4>1. ASSUME NEW i \in 1 .. Len(s), s[i] = m
            PROVE  \E j \in 1 .. Len(q) : q[j] = m
        <5>1. i + 1 \in 1 .. Len(q) /\ q[i + 1] = m
          BY <2>13, <2>14, <4>1
        <5> QED
          BY <5>1
      <4>2. ASSUME NEW i \in 1 .. Len(q), q[i] = m
            PROVE  \E j \in 1 .. Len(s) : s[j] = m
        BY <2>13, <4>2
      <4> QED
        BY <4>1, <4>2
    <3> QED
      BY <1>1, <3>1 DEF PlaceOf
  <2>20. ASSUME NEW m \in Nodes
         PROVE  NodeOK(Roles(m)', PlaceOf(m, q)', freeListRefs'[m])
    BY <1>1, <2>7, <2>8, <2>10, <2>18, <2>19
  <2>21. ListOK'
    BY <2>13, <2>15, <2>16, <2>20 DEF ListOK
  <2> QED
    BY <2>5, <2>6, <2>21 DEF FreeListIInv
<1>5. CASE freeListHead # head[t]
  <2>1. /\ fpc' = [fpc EXCEPT ![t] = "again"] /\ head' = [head EXCEPT ![t] = freeListHead]
        /\ UNCHANGED <<freeListHead, node, refs, resume>>
    BY <1>5 DEF AddCas, MoveTo
  <2>2. FreeListTypes'
    BY <1>0, <1>1, <2>1 DEF FreeListTypes
  <2>3. ThreadOK(t)'
    BY <1>0, <1>1, <1>3, <2>1, RoleTable DEF ThreadOK, FreeListTypes
  <2>4. \A u \in FreeThreads : ThreadOK(u)'
    BY <1>0, <1>1, <2>1, <2>3, OthersKept DEF FreeListTypes
  <2>5. node' = [node EXCEPT ![t] = node[t]]
    BY <1>0, <2>1 DEF FreeListTypes
  <2>6. \A m : Roles(m)' = Roles(m)
    BY <1>0, <1>1, <2>1, <2>5, RolesKeep, RoleTable
  <2> QED
    BY <1>1, <2>1, <2>2, <2>4, <2>6, ListKept DEF FreeListIInv
<1> QED
  BY <1>4, <1>5

\* The exchange failed: the list's reference is given back, and the flag says
\* that whoever drops the last reference has to link the node.
LEMMA AddRetryKeeps ==
  ASSUME FreeListConstants, FreeListIInv, NEW t \in FreeThreads, AddRetry(t)
  PROVE  FreeListIInv'
<1>0. FreeListTypes /\ ThreadOK(t)
  BY DEF FreeListIInv
<1>1. fpc[t] = "again" /\ UNCHANGED <<freeListHead, freeListNext, held>>
  BY DEF AddRetry
<1>3. PICK n \in Nodes : n = node[t]
  BY <1>0, <1>1, RoleTable DEF ThreadOK
<1>4. PICK r \in Nat : r = freeListRefs[n]
  BY <1>0 DEF FreeListTypes
<1>5. freeListRefs' = [freeListRefs EXCEPT ![n] = r + (SHOULD_BE_ON_FREELIST - 1)]
  BY <1>3, <1>4 DEF AddRetry, AddRefs
<1>6. r + (SHOULD_BE_ON_FREELIST - 1) \in Nat
  BY <1>4, ReferrersBound DEF FreeListConstants
<1>7. freeListRefs' \in [Nodes -> Nat] /\ freeListRefs'[n] = r + (SHOULD_BE_ON_FREELIST - 1)
      /\ \A m \in Nodes \ {n} : freeListRefs'[m] = freeListRefs[m]
  BY <1>0, <1>5, <1>6 DEF FreeListTypes
<1>8. PICK f \in [FreeThreads -> RoleNames] : f = Roles(n)
  BY RolesType
<1>9. f[t] = "linked"
  BY <1>1, <1>3, <1>8, RoleTable DEF Roles, RolesIn
<1>10. CASE r = 1
  <2>1. fpc' = [fpc EXCEPT ![t] = "link"] /\ UNCHANGED <<node, head, refs, resume>>
    BY <1>3, <1>4, <1>10 DEF AddRetry, MoveTo, locals
  <2>2. FreeListTypes'
    BY <1>0, <1>1, <1>7, <2>1 DEF FreeListTypes
  <2>3. ThreadOK(t)'
    BY <1>0, <1>3, <2>1, RoleTable DEF ThreadOK, FreeListTypes
  <2>4. \A u \in FreeThreads : ThreadOK(u)'
    BY <1>0, <1>1, <2>1, <2>3, OthersKept DEF FreeListTypes
  <2>5. /\ Roles(n)' = [Roles(n) EXCEPT ![t] = "flagged"]
        /\ \A m \in Nodes \ {n} : Roles(m)' = Roles(m)
    <3>1. PICK at : at = fpc'
      OBVIOUS
    <3>2. at = [fpc EXCEPT ![t] = "link"] /\ "flagged" = RoleAt("link") /\ node[t] = n
      BY <2>1, <1>3, <3>1, RoleTable
    <3>3. RolesIn(at, node, n) = [Roles(n) EXCEPT ![t] = RoleAt("link")]
      BY <1>0, <3>2, RolesOn
    <3>4. Roles(n)' = [Roles(n) EXCEPT ![t] = "flagged"]
      BY <2>1, <3>1, <3>2, <3>3 DEF Roles
    <3>5. \A m \in Nodes \ {n} : Roles(m)' = Roles(m)
      BY <1>0, <2>1, <3>2, RolesElse DEF FreeListTypes
    <3> QED
      BY <3>4, <3>5
  <2>6. \A place \in {"held", "listed", "away"} :
          NodeOK(f, place, r) => NodeOK([f EXCEPT ![t] = "flagged"], place, r + (SHOULD_BE_ON_FREELIST - 1))
    BY <1>9, <1>10, RetryOK
  <2>7. \A place \in {"held", "listed", "away"} :
          NodeOK(Roles(n), place, freeListRefs[n]) => NodeOK(Roles(n)', place, freeListRefs'[n])
    BY <1>4, <1>7, <1>8, <2>5, <2>6
  <2>8. ListOK'
    BY <1>1, <1>7, <2>5, <2>7, ListKeptButOne DEF FreeListIInv
  <2> QED
    BY <2>2, <2>4, <2>8 DEF FreeListIInv
<1>11. CASE r # 1
  <2>1. PICK x \in Pointer : x = resume[t]
    BY <1>0 DEF FreeListTypes
  <2>2. Loop(t, x)
    BY <1>3, <1>4, <1>11, <2>1 DEF AddRetry
  <2>3. PICK l \in {"idle", "refs"} : fpc' = [fpc EXCEPT ![t] = l]
    BY <1>0, <2>2, LoopFacts
  <2>4. /\ node' = [node EXCEPT ![t] = NullNode] /\ head' \in [FreeThreads -> Pointer]
        /\ refs' \in [FreeThreads -> Nat] /\ resume' \in [FreeThreads -> Pointer]
        /\ ThreadOK(t)'
        /\ \A u \in FreeThreads \ {t} :
             /\ fpc'[u] = fpc[u] /\ node'[u] = node[u] /\ head'[u] = head[u] /\ refs'[u] = refs[u]
    BY <1>0, <2>2, LoopFacts
  <2>5. FreeListTypes'
    BY <1>0, <1>1, <1>7, <2>3, <2>4 DEF FreeListTypes, Pointer
  <2>6. \A u \in FreeThreads : ThreadOK(u)'
    BY <1>1, <2>4, OthersKept
  <2>7. /\ Roles(n)' = [Roles(n) EXCEPT ![t] = "none"]
        /\ \A m \in Nodes \ {n} : Roles(m)' = Roles(m)
    <3>1. PICK at : at = fpc'
      OBVIOUS
    <3>2. PICK of : of = node'
      OBVIOUS
    <3>3. /\ fpc'[t] = l /\ RoleAt(l) = "none" /\ node[t] = n
          /\ \A u \in FreeThreads \ {t} : fpc'[u] = fpc[u] /\ node'[u] = node[u]
      BY <1>0, <2>3, <2>4, <1>3, RoleTable DEF FreeListTypes
    <3>4. RolesIn(at, of, node[t]) = [Roles(node[t]) EXCEPT ![t] = "none"]
      BY <3>1, <3>2, <3>3, RolesOff
    <3>5. Roles(n)' = [Roles(n) EXCEPT ![t] = "none"]
      BY <3>1, <3>2, <3>3, <3>4 DEF Roles
    <3>6. \A m \in Nodes \ {n} : Roles(m)' = Roles(m)
      BY <3>3, RolesElse
    <3> QED
      BY <3>5, <3>6
  <2>8. \A place \in {"held", "listed", "away"} :
          NodeOK(f, place, r) => NodeOK([f EXCEPT ![t] = "none"], place, r + (SHOULD_BE_ON_FREELIST - 1))
    BY <1>9, <1>11, RetryOK
  <2>9. \A place \in {"held", "listed", "away"} :
          NodeOK(Roles(n), place, freeListRefs[n]) => NodeOK(Roles(n)', place, freeListRefs'[n])
    BY <1>4, <1>7, <1>8, <2>7, <2>8
  <2>10. ListOK'
    BY <1>1, <1>7, <2>7, <2>9, ListKeptButOne DEF FreeListIInv
  <2> QED
    BY <2>5, <2>6, <2>10 DEF FreeListIInv
<1> QED
  BY <1>10, <1>11

-----------------------------------------------------------------------------
(* The steps of try_get                                                     *)

\* The head is loaded, or the call returns with nothing.
LEMMA GetLoadHeadKeeps ==
  ASSUME FreeListConstants, FreeListIInv, NEW t \in FreeThreads, GetLoadHead(t)
  PROVE  FreeListIInv'
<1>0. FreeListTypes /\ ThreadOK(t)
  BY DEF FreeListIInv
<1>1. fpc[t] \in {"idle", "get"} /\ UNCHANGED <<freeListHead, freeListRefs, freeListNext, held>>
  BY DEF GetLoadHead, fields
<1>2. PICK x \in Pointer : x = freeListHead
  BY <1>0 DEF FreeListTypes
<1>3. Loop(t, x)
  BY <1>2 DEF GetLoadHead
<1>4. PICK l \in {"idle", "refs"} : fpc' = [fpc EXCEPT ![t] = l]
  BY <1>0, <1>3, LoopFacts
<1>5. /\ node' = [node EXCEPT ![t] = NullNode] /\ head' \in [FreeThreads -> Pointer]
      /\ refs' \in [FreeThreads -> Nat] /\ resume' \in [FreeThreads -> Pointer]
      /\ ThreadOK(t)'
      /\ \A u \in FreeThreads \ {t} :
           /\ fpc'[u] = fpc[u] /\ node'[u] = node[u] /\ head'[u] = head[u] /\ refs'[u] = refs[u]
  BY <1>0, <1>3, LoopFacts
<1>6. FreeListTypes'
  BY <1>0, <1>1, <1>4, <1>5 DEF FreeListTypes, Pointer
<1>7. \A u \in FreeThreads : ThreadOK(u)'
  BY <1>1, <1>5, OthersKept
<1>8. \A m : Roles(m)' = Roles(m)
  <2>1. RoleAt(l) = "none" /\ RoleAt(fpc[t]) = "none"
    BY <1>1, RoleTable
  <2> QED
    BY <1>0, <1>4, <1>5, <2>1, RolesKeep
<1> QED
  BY <1>1, <1>6, <1>7, <1>8, ListKept DEF FreeListIInv

\* The reference count is loaded; a node nobody refers to is left alone.
LEMMA GetLoadRefsKeeps ==
  ASSUME FreeListConstants, FreeListIInv, NEW t \in FreeThreads, GetLoadRefs(t)
  PROVE  FreeListIInv'
<1>0. FreeListTypes /\ ThreadOK(t)
  BY DEF FreeListIInv
<1>1. /\ fpc[t] = "refs" /\ head[t] \in Nodes
      /\ UNCHANGED <<freeListHead, freeListRefs, freeListNext, held, head, resume>>
  BY <1>0 DEF GetLoadRefs, fields, ThreadOK
<1>2. PICK x \in Nodes : x = head[t]
  BY <1>1
<1>3. PICK r \in Nat : r = freeListRefs[x]
  BY <1>0 DEF FreeListTypes
<1>4. PICK l \in {"get", "hold"} : l = IF Count(r) = 0 THEN "get" ELSE "hold"
  OBVIOUS
<1>5. /\ fpc' = [fpc EXCEPT ![t] = l] /\ node' = [node EXCEPT ![t] = x]
      /\ refs' = [refs EXCEPT ![t] = r]
  BY <1>2, <1>3, <1>4 DEF GetLoadRefs, MoveTo
<1>6. FreeListTypes'
  BY <1>0, <1>1, <1>5 DEF FreeListTypes, Pointer
<1>7. fpc'[t] = l /\ node'[t] = x /\ refs'[t] = r /\ RoleAt(l) = "none"
  BY <1>0, <1>5, RoleTable DEF FreeListTypes
<1>8. ThreadOK(t)'
  BY <1>4, <1>7 DEF ThreadOK, Count
<1>9. \A u \in FreeThreads : ThreadOK(u)'
  BY <1>0, <1>1, <1>5, <1>8, OthersKept DEF FreeListTypes
<1>10. \A m : Roles(m)' = Roles(m)
  <2>1. RoleAt(fpc[t]) = "none"
    BY <1>1, RoleTable
  <2> QED
    BY <1>0, <1>5, <1>7, <2>1, RolesKeep
<1> QED
  BY <1>1, <1>6, <1>9, <1>10, ListKept DEF FreeListIInv

\* A reference is taken, on a count that was not zero.
LEMMA GetCasRefsKeeps ==
  ASSUME FreeListConstants, FreeListIInv, NEW t \in FreeThreads, GetCasRefs(t)
  PROVE  FreeListIInv'
<1>0. FreeListTypes /\ ThreadOK(t)
  BY DEF FreeListIInv
<1>1. /\ fpc[t] = "hold" /\ UNCHANGED <<freeListHead, freeListNext, held, node, head, refs, resume>>
  BY DEF GetCasRefs, locals
<1>3. PICK n \in Nodes : n = node[t]
  BY <1>0, <1>1 DEF ThreadOK
<1>4. PICK r \in Nat : r = freeListRefs[n]
  BY <1>0 DEF FreeListTypes
<1>5. CASE r = refs[t]
  <2>1. fpc' = [fpc EXCEPT ![t] = "next"] /\ freeListRefs' = [freeListRefs EXCEPT ![n] = r + 1]
    BY <1>3, <1>4, <1>5 DEF GetCasRefs, AddRefs, MoveTo
  <2>2. FreeListTypes'
    BY <1>0, <1>1, <2>1 DEF FreeListTypes
  <2>3. ThreadOK(t)'
    BY <1>0, <1>1, <1>3, <2>1, RoleTable DEF ThreadOK, FreeListTypes
  <2>4. \A u \in FreeThreads : ThreadOK(u)'
    BY <1>0, <1>1, <2>1, <2>3, OthersKept DEF FreeListTypes
  <2>5. /\ Roles(n)' = [Roles(n) EXCEPT ![t] = "ref"]
        /\ \A m \in Nodes \ {n} : Roles(m)' = Roles(m)
    <3>1. PICK at : at = fpc'
      OBVIOUS
    <3>2. at = [fpc EXCEPT ![t] = "next"] /\ "ref" = RoleAt("next") /\ node[t] = n
      BY <1>1, <2>1, <1>3, <3>1, RoleTable
    <3>3. RolesIn(at, node, n) = [Roles(n) EXCEPT ![t] = RoleAt("next")]
      BY <1>0, <3>2, RolesOn
    <3>4. Roles(n)' = [Roles(n) EXCEPT ![t] = "ref"]
      BY <1>1, <2>1, <3>1, <3>2, <3>3 DEF Roles
    <3>5. \A m \in Nodes \ {n} : Roles(m)' = Roles(m)
      BY <1>0, <1>1, <2>1, <3>2, RolesElse DEF FreeListTypes
    <3> QED
      BY <3>4, <3>5
  <2>6. PICK f \in [FreeThreads -> RoleNames] : f = Roles(n)
    BY RolesType
  <2>7. f[t] = "none"
    BY <1>1, <1>3, <2>6, RoleTable DEF Roles, RolesIn
  <2>8. Count(r) # 0
    BY <1>0, <1>1, <1>5 DEF ThreadOK
  <2>9. \A place \in {"held", "listed", "away"} :
          NodeOK(f, place, r) => NodeOK([f EXCEPT ![t] = "ref"], place, r + 1)
    BY <2>7, <2>8, GainOK
  <2>10. /\ freeListRefs'[n] = r + 1
         /\ \A m \in Nodes \ {n} : freeListRefs'[m] = freeListRefs[m]
    BY <1>0, <2>1 DEF FreeListTypes
  <2>11. \A place \in {"held", "listed", "away"} :
          NodeOK(Roles(n), place, freeListRefs[n]) => NodeOK(Roles(n)', place, freeListRefs'[n])
    BY <1>4, <2>5, <2>6, <2>9, <2>10
  <2>12. ListOK'
    BY <1>1, <2>5, <2>10, <2>11, ListKeptButOne DEF FreeListIInv
  <2> QED
    BY <2>2, <2>4, <2>12 DEF FreeListIInv
<1>6. CASE r # refs[t]
  <2>1. fpc' = [fpc EXCEPT ![t] = "get"] /\ UNCHANGED freeListRefs
    BY <1>3, <1>4, <1>6 DEF GetCasRefs, MoveTo
  <2>2. FreeListTypes'
    BY <1>0, <1>1, <2>1 DEF FreeListTypes
  <2>3. ThreadOK(t)'
    BY <1>0, <2>1, RoleTable DEF ThreadOK, FreeListTypes
  <2>4. \A u \in FreeThreads : ThreadOK(u)'
    BY <1>0, <1>1, <2>1, <2>3, OthersKept DEF FreeListTypes
  <2>5. node' = [node EXCEPT ![t] = node[t]]
    BY <1>0, <1>1 DEF FreeListTypes
  <2>6. \A m : Roles(m)' = Roles(m)
    BY <1>0, <1>1, <2>1, <2>5, RolesKeep, RoleTable
  <2> QED
    BY <1>1, <2>1, <2>2, <2>4, <2>6, ListKept DEF FreeListIInv
<1> QED
  BY <1>5, <1>6

\* The successor of the node is read.
LEMMA GetLoadNextKeeps ==
  ASSUME FreeListConstants, FreeListIInv, NEW t \in FreeThreads, GetLoadNext(t)
  PROVE  FreeListIInv'
<1>0. FreeListTypes /\ ThreadOK(t)
  BY DEF FreeListIInv
<1>1. /\ fpc[t] = "next" /\ fpc' = [fpc EXCEPT ![t] = "pop"]
      /\ head' = [head EXCEPT ![t] = freeListNext[node[t]]]
      /\ UNCHANGED <<freeListHead, freeListRefs, freeListNext, held, node, refs, resume>>
  BY DEF GetLoadNext, MoveTo, fields
<1>2. PICK n \in Nodes : n = node[t]
  BY <1>0, <1>1, RoleTable DEF ThreadOK
<1>3. FreeListTypes'
  BY <1>0, <1>1, <1>2 DEF FreeListTypes
<1>4. ThreadOK(t)'
  BY <1>0, <1>1, <1>2, RoleTable DEF ThreadOK, FreeListTypes
<1>5. \A u \in FreeThreads : ThreadOK(u)'
  BY <1>0, <1>1, <1>4, OthersKept DEF FreeListTypes
<1>6. node' = [node EXCEPT ![t] = node[t]]
  BY <1>0, <1>1 DEF FreeListTypes
<1>7. \A m : Roles(m)' = Roles(m)
  BY <1>0, <1>1, <1>6, RolesKeep, RoleTable
<1> QED
  BY <1>1, <1>3, <1>5, <1>7, ListKept DEF FreeListIInv

\* The first node is taken off the list.
LEMMA OffFront ==
  ASSUME NEW s \in Seq(Nodes), s # <<>>
  PROVE  \E q \in Seq(Nodes) :
           /\ Len(q) = Len(s) - 1 /\ Len(s) \in Nat /\ Len(s) >= 1
           /\ (q = <<>> <=> Len(q) = 0)
           /\ \A i \in 1 .. Len(q) : i + 1 \in 1 .. Len(s) /\ q[i] = s[i + 1]
           /\ \A i \in 1 .. Len(s) : i = 1 \/ (i - 1 \in 1 .. Len(q) /\ s[i] = q[i - 1])
<1>1. Len(s) \in Nat /\ Len(s) >= 1
  BY EmptySeq
<1>2. PICK q : q = Tail(s)
  OBVIOUS
<1>3. q \in Seq(Nodes) /\ Len(q) = Len(s) - 1 /\ \A i \in 1 .. Len(q) : q[i] = s[i + 1]
  BY <1>2, HeadTailProperties
<1>4. q = <<>> <=> Len(q) = 0
  BY <1>3, EmptySeq
<1>5. \A i \in 1 .. Len(q) : i + 1 \in 1 .. Len(s)
  BY <1>1, <1>3
<1>6. ASSUME NEW i \in 1 .. Len(s), i # 1
      PROVE  i - 1 \in 1 .. Len(q) /\ s[i] = q[i - 1]
  BY <1>1, <1>3, <1>6
<1> QED
  BY <1>1, <1>3, <1>4, <1>5, <1>6

\* The head is exchanged with the successor that was read: the node is off the
\* list and the thread's alone.
LEMMA GetCasHeadKeeps ==
  ASSUME FreeListConstants, FreeListIInv, NEW t \in FreeThreads, GetCasHead(t)
  PROVE  FreeListIInv'
<1>0. FreeListTypes /\ ThreadOK(t)
  BY DEF FreeListIInv
<1>1. fpc[t] = "pop" /\ UNCHANGED <<freeListRefs, freeListNext, held>>
  BY DEF GetCasHead, fields
<1>3. PICK n \in Nodes : n = node[t]
  BY <1>0, <1>1, RoleTable DEF ThreadOK
<1>4. CASE freeListHead = node[t]
  <2>1. /\ freeListHead' = head[t] /\ fpc' = [fpc EXCEPT ![t] = "got"]
        /\ UNCHANGED <<node, head, refs, resume>>
    BY <1>4 DEF GetCasHead, MoveTo, locals
  <2>2. FreeListTypes'
    BY <1>0, <1>1, <2>1 DEF FreeListTypes
  <2>3. ThreadOK(t)'
    BY <1>0, <1>3, <2>1, RoleTable DEF ThreadOK, FreeListTypes
  <2>4. \A u \in FreeThreads : ThreadOK(u)'
    BY <1>0, <1>1, <2>1, <2>3, OthersKept DEF FreeListTypes
  <2>5. /\ Roles(n)' = [Roles(n) EXCEPT ![t] = "taken"]
        /\ \A m \in Nodes \ {n} : Roles(m)' = Roles(m)
    <3>1. PICK at : at = fpc'
      OBVIOUS
    <3>2. at = [fpc EXCEPT ![t] = "got"] /\ "taken" = RoleAt("got") /\ node[t] = n
      BY <2>1, <1>3, <3>1, RoleTable
    <3>3. RolesIn(at, node, n) = [Roles(n) EXCEPT ![t] = RoleAt("got")]
      BY <1>0, <3>2, RolesOn
    <3>4. Roles(n)' = [Roles(n) EXCEPT ![t] = "taken"]
      BY <2>1, <3>1, <3>2, <3>3 DEF Roles
    <3>5. \A m \in Nodes \ {n} : Roles(m)' = Roles(m)
      BY <1>0, <2>1, <3>2, RolesElse DEF FreeListTypes
    <3> QED
      BY <3>4, <3>5
  <2>6. PICK s \in Seq(Nodes) :
          /\ ListIs(s) /\ \A i \in 1 .. Len(s) : s[i] \notin held
          /\ \A m \in Nodes : NodeOK(Roles(m), PlaceOf(m, s), freeListRefs[m])
    BY DEF FreeListIInv, ListOK
  <2>7. s # <<>> /\ s[1] = n
    BY <1>3, <1>4, <2>6 DEF ListIs, FreeListConstants
  <2>8. PICK q \in Seq(Nodes) :
          /\ Len(q) = Len(s) - 1 /\ Len(s) \in Nat /\ Len(s) >= 1
          /\ (q = <<>> <=> Len(q) = 0)
          /\ \A i \in 1 .. Len(q) : i + 1 \in 1 .. Len(s) /\ q[i] = s[i + 1]
          /\ \A i \in 1 .. Len(s) : i = 1 \/ (i - 1 \in 1 .. Len(q) /\ s[i] = q[i - 1])
    BY <2>7, OffFront
  <2>10. 1 \in 1 .. Len(s) /\ n \notin held
    BY <2>6, <2>7, <2>8
  <2>11. PlaceOf(n, s) = "listed"
    BY <2>7, <2>10 DEF PlaceOf
  <2>12. ASSUME NEW i \in 1 .. Len(q)
         PROVE  q[i] # n
    <3>1. SUFFICES ASSUME q[i] = n
                   PROVE  FALSE
      OBVIOUS
    <3>2. i + 1 \in 1 .. Len(s) /\ s[i + 1] = s[1]
      BY <2>7, <2>8, <3>1
    <3>3. i + 1 = 1
      BY <2>6, <2>10, <3>2 DEF ListIs
    <3> QED
      BY <2>8, <3>3
  <2>13. ListIs(q)'
    <3>1. head[t] = IF 1 = Len(s) THEN NullNode ELSE s[1 + 1]
      BY <1>0, <1>1, <1>3, <2>6, <2>7, <2>10 DEF ThreadOK, ListIs
    <3>2. head[t] = IF q = <<>> THEN NullNode ELSE q[1]
      <4>1. CASE q = <<>>
        BY <2>8, <3>1, <4>1
      <4>2. CASE q # <<>>
        <5>1. 1 \in 1 .. Len(q) /\ 1 # Len(s)
          BY <2>8, <4>2
        <5> QED
          BY <2>8, <3>1, <4>2, <5>1
      <4> QED
        BY <4>1, <4>2
    <3>3. ASSUME NEW i \in 1 .. Len(q)
          PROVE  freeListNext[q[i]] = IF i = Len(q) THEN NullNode ELSE q[i + 1]
      <4>1. PICK j \in 1 .. Len(s) : j = i + 1 /\ q[i] = s[j]
        BY <2>8
      <4>2. freeListNext[s[j]] = IF j = Len(s) THEN NullNode ELSE s[j + 1]
        BY <2>6 DEF ListIs
      <4>3. CASE i = Len(q)
        BY <2>8, <4>1, <4>2, <4>3
      <4>4. CASE i # Len(q)
        <5>1. i + 1 \in 1 .. Len(q) /\ j # Len(s)
          BY <2>8, <4>1, <4>4
        <5> QED
          BY <2>8, <4>1, <4>2, <4>4, <5>1
      <4> QED
        BY <4>3, <4>4
    <3>4. ASSUME NEW i \in 1 .. Len(q), NEW j \in 1 .. Len(q), q[i] = q[j]
          PROVE  i = j
      <4>1. PICK a \in 1 .. Len(s) : a = i + 1 /\ q[i] = s[a]
        BY <2>8
      <4>2. PICK b \in 1 .. Len(s) : b = j + 1 /\ q[j] = s[b]
        BY <2>8
      <4>3. a = b
        BY <2>6, <3>4, <4>1, <4>2 DEF ListIs
      <4> QED
        BY <2>8, <4>1, <4>2, <4>3
    <3> QED
      BY <1>1, <2>1, <3>2, <3>3, <3>4 DEF ListIs
  <2>14. \A i \in 1 .. Len(q) : q[i] \notin held'
    BY <1>1, <2>6, <2>8
  <2>15. PlaceOf(n, q)' = "away"
    BY <1>1, <2>10, <2>12 DEF PlaceOf
  <2>16. ASSUME NEW m \in Nodes \ {n}
         PROVE  PlaceOf(m, q)' = PlaceOf(m, s)
    <3>1. (\E i \in 1 .. Len(q) : q[i] = m) <=> (\E i \in 1 .. Len(s) : s[i] = m)
      <4>1. ASSUME NEW i \in 1 .. Len(s), s[i] = m
            PROVE  \E j \in 1 .. Len(q) : q[j] = m
        BY <2>7, <2>8, <4>1
      <4>2. ASSUME NEW i \in 1 .. Len(q), q[i] = m
            PROVE  \E j \in 1 .. Len(s) : s[j] = m
        BY <2>8, <4>2
      <4> QED
        BY <4>1, <4>2
    <3> QED
      BY <1>1, <3>1 DEF PlaceOf
  <2>17. NodeOK(Roles(n)', "away", freeListRefs[n])
    <3>1. PICK f \in [FreeThreads -> RoleNames] : f = Roles(n)
      BY RolesType
    <3>2. f[t] = "ref" /\ NodeOK(f, "listed", freeListRefs[n])
      BY <1>1, <1>3, <2>6, <2>11, <3>1, RoleTable DEF Roles, RolesIn
    <3>3. NodeOK([f EXCEPT ![t] = "taken"], "away", freeListRefs[n])
      BY <3>2, PopOK
    <3> QED
      BY <2>5, <3>1, <3>3
  <2>18. ASSUME NEW m \in Nodes
         PROVE  NodeOK(Roles(m)', PlaceOf(m, q)', freeListRefs'[m])
    BY <1>1, <2>5, <2>6, <2>15, <2>16, <2>17
  <2>19. ListOK'
    BY <2>8, <2>13, <2>14, <2>18 DEF ListOK
  <2> QED
    BY <2>2, <2>4, <2>19 DEF FreeListIInv
<1>5. CASE freeListHead # node[t]
  <2>1. /\ fpc' = [fpc EXCEPT ![t] = "drop"] /\ head' = [head EXCEPT ![t] = freeListHead]
        /\ UNCHANGED <<freeListHead, node, refs, resume>>
    BY <1>5 DEF GetCasHead, MoveTo
  <2>2. FreeListTypes'
    BY <1>0, <1>1, <2>1 DEF FreeListTypes
  <2>3. ThreadOK(t)'
    BY <1>0, <1>3, <2>1, RoleTable DEF ThreadOK, FreeListTypes
  <2>4. \A u \in FreeThreads : ThreadOK(u)'
    BY <1>0, <1>1, <2>1, <2>3, OthersKept DEF FreeListTypes
  <2>5. node' = [node EXCEPT ![t] = node[t]]
    BY <1>0, <2>1 DEF FreeListTypes
  <2>6. \A m : Roles(m)' = Roles(m)
    BY <1>0, <1>1, <2>1, <2>5, RolesKeep, RoleTable
  <2> QED
    BY <1>1, <2>1, <2>2, <2>4, <2>6, ListKept DEF FreeListIInv
<1> QED
  BY <1>4, <1>5

\* try_get returns the node: the list's reference and its own are given back.
LEMMA GetReturnKeeps ==
  ASSUME FreeListConstants, FreeListIInv, NEW t \in FreeThreads, GetReturn(t)
  PROVE  FreeListIInv'
<1>0. FreeListTypes /\ ThreadOK(t)
  BY DEF FreeListIInv
<1>1. fpc[t] = "got" /\ UNCHANGED <<freeListHead, freeListNext>>
  BY DEF GetReturn
<1>3. PICK n \in Nodes : n = node[t]
  BY <1>0, <1>1, RoleTable DEF ThreadOK
<1>4. PICK r \in Nat : r = freeListRefs[n]
  BY <1>0 DEF FreeListTypes
<1>5. PICK x \in Pointer : x = NullNode
  BY DEF Pointer
<1>6. /\ Loop(t, x) /\ held' = held \cup {n}
      /\ freeListRefs' = [freeListRefs EXCEPT ![n] = r - 2]
  BY <1>3, <1>4, <1>5 DEF GetReturn, AddRefs
<1>7. PICK l \in {"idle", "refs"} : fpc' = [fpc EXCEPT ![t] = l]
  BY <1>0, <1>6, LoopFacts
<1>8. /\ node' = [node EXCEPT ![t] = NullNode] /\ head' \in [FreeThreads -> Pointer]
      /\ refs' \in [FreeThreads -> Nat] /\ resume' \in [FreeThreads -> Pointer]
      /\ ThreadOK(t)'
      /\ \A u \in FreeThreads \ {t} :
           /\ fpc'[u] = fpc[u] /\ node'[u] = node[u] /\ head'[u] = head[u] /\ refs'[u] = refs[u]
  BY <1>0, <1>6, LoopFacts
<1>9. /\ Roles(n)' = [Roles(n) EXCEPT ![t] = "none"]
      /\ \A m \in Nodes \ {n} : Roles(m)' = Roles(m)
  <2>1. PICK at : at = fpc'
    OBVIOUS
  <2>2. PICK of : of = node'
    OBVIOUS
  <2>3. /\ fpc'[t] = l /\ RoleAt(l) = "none" /\ node[t] = n
        /\ \A u \in FreeThreads \ {t} : fpc'[u] = fpc[u] /\ node'[u] = node[u]
    BY <1>0, <1>7, <1>8, <1>3, RoleTable DEF FreeListTypes
  <2>4. RolesIn(at, of, node[t]) = [Roles(node[t]) EXCEPT ![t] = "none"]
    BY <2>1, <2>2, <2>3, RolesOff
  <2>5. Roles(n)' = [Roles(n) EXCEPT ![t] = "none"]
    BY <2>1, <2>2, <2>3, <2>4 DEF Roles
  <2>6. \A m \in Nodes \ {n} : Roles(m)' = Roles(m)
    BY <2>3, RolesElse
  <2> QED
    BY <2>5, <2>6
<1>10. PICK s \in Seq(Nodes) :
        /\ ListIs(s) /\ \A i \in 1 .. Len(s) : s[i] \notin held
        /\ \A m \in Nodes : NodeOK(Roles(m), PlaceOf(m, s), freeListRefs[m])
  BY DEF FreeListIInv, ListOK
<1>11. r - 2 \in Nat /\ PlaceOf(n, s) = "away" /\ NodeOK(Roles(n)', "held", r - 2)
  <2>1. PICK f \in [FreeThreads -> RoleNames] : f = Roles(n)
    BY RolesType
  <2>2. f[t] = "taken" /\ NodeOK(f, PlaceOf(n, s), r)
    BY <1>1, <1>3, <1>4, <1>10, <2>1, RoleTable DEF Roles, RolesIn
  <2>3. r - 2 \in Nat /\ PlaceOf(n, s) = "away" /\ NodeOK([f EXCEPT ![t] = "none"], "held", r - 2)
    BY <2>2, ReturnOK, PlaceType
  <2> QED
    BY <1>9, <2>1, <2>3
<1>12. FreeListTypes'
  BY <1>0, <1>1, <1>6, <1>7, <1>8, <1>11 DEF FreeListTypes, Pointer
<1>13. \A u \in FreeThreads : ThreadOK(u)'
  BY <1>1, <1>8, OthersKept
<1>14. \A i \in 1 .. Len(s) : s[i] # n
  BY <1>11 DEF PlaceOf
<1>15. ListIs(s)' /\ \A i \in 1 .. Len(s) : s[i] \notin held'
  BY <1>1, <1>6, <1>10, <1>14 DEF ListIs
<1>16. PlaceOf(n, s)' = "held" /\ freeListRefs'[n] = r - 2
  BY <1>0, <1>6 DEF PlaceOf, FreeListTypes
<1>17. ASSUME NEW m \in Nodes \ {n}
       PROVE  PlaceOf(m, s)' = PlaceOf(m, s) /\ freeListRefs'[m] = freeListRefs[m]
  BY <1>0, <1>6 DEF PlaceOf, FreeListTypes
<1>18. ASSUME NEW m \in Nodes
       PROVE  NodeOK(Roles(m)', PlaceOf(m, s)', freeListRefs'[m])
  BY <1>9, <1>10, <1>11, <1>16, <1>17
<1>19. ListOK'
  BY <1>10, <1>15, <1>18 DEF ListOK
<1> QED
  BY <1>12, <1>13, <1>19 DEF FreeListIInv

\* A reference is dropped; whoever drops the last one of a flagged node links it.
LEMMA GetDropKeeps ==
  ASSUME FreeListConstants, FreeListIInv, NEW t \in FreeThreads, GetDrop(t)
  PROVE  FreeListIInv'
<1>0. FreeListTypes /\ ThreadOK(t)
  BY DEF FreeListIInv
<1>1. fpc[t] = "drop" /\ UNCHANGED <<freeListHead, freeListNext, held>>
  BY DEF GetDrop
<1>3. PICK n \in Nodes : n = node[t]
  BY <1>0, <1>1, RoleTable DEF ThreadOK
<1>4. PICK r \in Nat : r = freeListRefs[n]
  BY <1>0 DEF FreeListTypes
<1>5. freeListRefs' = [freeListRefs EXCEPT ![n] = r - 1]
  BY <1>3, <1>4 DEF GetDrop, AddRefs
<1>6. PICK f \in [FreeThreads -> RoleNames] : f = Roles(n)
  BY RolesType
<1>7. f[t] = "ref"
  BY <1>1, <1>3, <1>6, RoleTable DEF Roles, RolesIn
<1>8. PICK s \in Seq(Nodes) : NodeOK(f, PlaceOf(n, s), r)
  BY <1>4, <1>6 DEF FreeListIInv, ListOK
<1>9. /\ freeListRefs'[n] = r - 1
      /\ \A m \in Nodes \ {n} : freeListRefs'[m] = freeListRefs[m]
  BY <1>0, <1>5 DEF FreeListTypes
<1>10. CASE r = SHOULD_BE_ON_FREELIST + 1
  <2>0. SHOULD_BE_ON_FREELIST \in Nat /\ r - 1 = SHOULD_BE_ON_FREELIST
    BY <1>10 DEF FreeListConstants
  <2>1. /\ fpc' = [fpc EXCEPT ![t] = "add"] /\ resume' = [resume EXCEPT ![t] = head[t]]
        /\ UNCHANGED <<node, head, refs>>
    BY <1>3, <1>4, <1>10 DEF GetDrop, MoveTo
  <2>2. FreeListTypes'
    BY <1>0, <1>1, <1>5, <2>0, <2>1 DEF FreeListTypes
  <2>3. ThreadOK(t)'
    BY <1>0, <1>3, <2>1, RoleTable DEF ThreadOK, FreeListTypes
  <2>4. \A u \in FreeThreads : ThreadOK(u)'
    BY <1>0, <1>1, <2>1, <2>3, OthersKept DEF FreeListTypes
  <2>5. /\ Roles(n)' = [Roles(n) EXCEPT ![t] = "flagged"]
        /\ \A m \in Nodes \ {n} : Roles(m)' = Roles(m)
    <3>1. PICK at : at = fpc'
      OBVIOUS
    <3>2. at = [fpc EXCEPT ![t] = "add"] /\ "flagged" = RoleAt("add") /\ node[t] = n
      BY <2>1, <1>3, <3>1, RoleTable
    <3>3. RolesIn(at, node, n) = [Roles(n) EXCEPT ![t] = RoleAt("add")]
      BY <1>0, <3>2, RolesOn
    <3>4. Roles(n)' = [Roles(n) EXCEPT ![t] = "flagged"]
      BY <2>1, <3>1, <3>2, <3>3 DEF Roles
    <3>5. \A m \in Nodes \ {n} : Roles(m)' = Roles(m)
      BY <1>0, <2>1, <3>2, RolesElse DEF FreeListTypes
    <3> QED
      BY <3>4, <3>5
  <2>6. \A place \in {"held", "listed", "away"} :
          NodeOK(f, place, r) => NodeOK([f EXCEPT ![t] = "flagged"], place, r - 1)
    BY <1>7, <1>10, <2>0, DropLastOK
  <2>7. \A place \in {"held", "listed", "away"} :
          NodeOK(Roles(n), place, freeListRefs[n]) => NodeOK(Roles(n)', place, freeListRefs'[n])
    BY <1>4, <1>6, <1>9, <2>5, <2>6
  <2>8. ListOK'
    BY <1>1, <1>9, <2>5, <2>7, ListKeptButOne DEF FreeListIInv
  <2> QED
    BY <2>2, <2>4, <2>8 DEF FreeListIInv
<1>11. CASE r # SHOULD_BE_ON_FREELIST + 1
  <2>1. PICK x \in Pointer : x = head[t]
    BY <1>0 DEF FreeListTypes
  <2>2. Loop(t, x)
    BY <1>3, <1>4, <1>11, <2>1 DEF GetDrop
  <2>3. PICK l \in {"idle", "refs"} : fpc' = [fpc EXCEPT ![t] = l]
    BY <1>0, <2>2, LoopFacts
  <2>4. /\ node' = [node EXCEPT ![t] = NullNode] /\ head' \in [FreeThreads -> Pointer]
        /\ refs' \in [FreeThreads -> Nat] /\ resume' \in [FreeThreads -> Pointer]
        /\ ThreadOK(t)'
        /\ \A u \in FreeThreads \ {t} :
             /\ fpc'[u] = fpc[u] /\ node'[u] = node[u] /\ head'[u] = head[u] /\ refs'[u] = refs[u]
    BY <1>0, <2>2, LoopFacts
  <2>5. r - 1 \in Nat
    BY <1>7, <1>8, <1>11, DropOK, PlaceType
  <2>6. FreeListTypes'
    BY <1>0, <1>1, <1>5, <2>3, <2>4, <2>5 DEF FreeListTypes, Pointer
  <2>7. \A u \in FreeThreads : ThreadOK(u)'
    BY <1>1, <2>4, OthersKept
  <2>8. /\ Roles(n)' = [Roles(n) EXCEPT ![t] = "none"]
        /\ \A m \in Nodes \ {n} : Roles(m)' = Roles(m)
    <3>1. PICK at : at = fpc'
      OBVIOUS
    <3>2. PICK of : of = node'
      OBVIOUS
    <3>3. /\ fpc'[t] = l /\ RoleAt(l) = "none" /\ node[t] = n
          /\ \A u \in FreeThreads \ {t} : fpc'[u] = fpc[u] /\ node'[u] = node[u]
      BY <1>0, <2>3, <2>4, <1>3, RoleTable DEF FreeListTypes
    <3>4. RolesIn(at, of, node[t]) = [Roles(node[t]) EXCEPT ![t] = "none"]
      BY <3>1, <3>2, <3>3, RolesOff
    <3>5. Roles(n)' = [Roles(n) EXCEPT ![t] = "none"]
      BY <3>1, <3>2, <3>3, <3>4 DEF Roles
    <3>6. \A m \in Nodes \ {n} : Roles(m)' = Roles(m)
      BY <3>3, RolesElse
    <3> QED
      BY <3>5, <3>6
  <2>9. \A place \in {"held", "listed", "away"} :
          NodeOK(f, place, r) => NodeOK([f EXCEPT ![t] = "none"], place, r - 1)
    BY <1>7, <1>11, DropOK
  <2>10. \A place \in {"held", "listed", "away"} :
          NodeOK(Roles(n), place, freeListRefs[n]) => NodeOK(Roles(n)', place, freeListRefs'[n])
    BY <1>4, <1>6, <1>9, <2>8, <2>9
  <2>11. ListOK'
    BY <1>1, <1>9, <2>8, <2>10, ListKeptButOne DEF FreeListIInv
  <2> QED
    BY <2>6, <2>7, <2>11 DEF FreeListIInv
<1> QED
  BY <1>10, <1>11

-----------------------------------------------------------------------------
(* The theorems                                                             *)

\* All nodes are elsewhere, and the list is empty.
LEMMA FreeListStarts == FreeListConstants /\ FreeListInit => FreeListIInv
<1> SUFFICES ASSUME FreeListConstants, FreeListInit
             PROVE  FreeListIInv
  OBVIOUS
<1>1. FreeListTypes
  BY DEF FreeListInit, FreeListTypes, Pointer
<1>2. ASSUME NEW t \in FreeThreads
      PROVE  ThreadOK(t)
  BY RoleTable DEF FreeListInit, ThreadOK
<1>3. PICK s \in Seq(Nodes) : s = <<>> /\ Len(s) = 0
  BY EmptySeq
<1>4. ListIs(s) /\ \A i \in 1 .. Len(s) : s[i] \notin held
  BY <1>3 DEF ListIs, FreeListInit
<1>5. ASSUME NEW n \in Nodes
      PROVE  NodeOK(Roles(n), PlaceOf(n, s), freeListRefs[n])
  <2>1. PICK f : f = Roles(n)
    OBVIOUS
  <2>2. \A t \in FreeThreads : f[t] = "none"
    BY <2>1, RoleTable DEF Roles, RolesIn, FreeListInit
  <2>3. Referrers(f) = {} /\ ~Owned(f)
    BY <2>2 DEF Referrers, Owned, Owning
  <2>4. Cardinality(Referrers(f)) = 0
    BY <2>3, FS_EmptySet
  <2>5. PlaceOf(n, s) = "held" /\ freeListRefs[n] = 0
    BY DEF PlaceOf, FreeListInit
  <2>6. \A t \in FreeThreads : f[t] \notin Owning
    BY <2>2 DEF Owning
  <2>7. NodeOK(f, "held", 0)
    BY <2>3, <2>4, <2>6 DEF NodeOK
  <2> QED
    BY <2>1, <2>5, <2>7
<1>6. ListOK
  BY <1>3, <1>4, <1>5 DEF ListOK
<1> QED
  BY <1>1, <1>2, <1>6 DEF FreeListIInv

\* Every step keeps the invariant.
LEMMA FreeListSteps == FreeListConstants /\ FreeListIInv /\ [FreeListNext]_freeListVars => FreeListIInv'
<1> SUFFICES ASSUME FreeListConstants, FreeListIInv, [FreeListNext]_freeListVars
             PROVE  FreeListIInv'
  OBVIOUS
<1>1. CASE UNCHANGED freeListVars
  <2>1. UNCHANGED <<freeListHead, freeListRefs, freeListNext, held, fpc, node, head, refs, resume>>
    BY <1>1 DEF freeListVars, fields, locals
  <2>2. FreeListTypes'
    BY <2>1 DEF FreeListIInv, FreeListTypes
  <2>3. ASSUME NEW t \in FreeThreads
        PROVE  ThreadOK(t)'
    <3>1. ThreadOK(t)
      BY DEF FreeListIInv
    <3> QED
      BY <2>1, <3>1 DEF ThreadOK, Count
  <2>4. \A m : Roles(m)' = Roles(m)
    BY <2>1 DEF Roles, RolesIn
  <2> QED
    BY <2>1, <2>2, <2>3, <2>4, ListKept DEF FreeListIInv
<1>2. CASE FreeListNext
  <2>1. PICK t \in FreeThreads :
          (\E n \in Nodes : Add(t, n)) \/ AddKnowingRefcountIsZero(t) \/ TryGet(t)
    BY <1>2 DEF FreeListNext
  <2>2. CASE \E n \in Nodes : Add(t, n)
    BY <2>2, AddKeeps
  <2>3. CASE AddKnowingRefcountIsZero(t)
    <3>1. CASE AddLoadHead(t)
      BY <3>1, AddLoadHeadKeeps
    <3>2. CASE AddStoreNext(t)
      BY <3>2, AddStoreNextKeeps
    <3>3. CASE AddStoreRefs(t)
      BY <3>3, AddStoreRefsKeeps
    <3>4. CASE AddCas(t)
      BY <3>4, AddCasKeeps
    <3>5. CASE AddRetry(t)
      BY <3>5, AddRetryKeeps
    <3> QED
      BY <2>3, <3>1, <3>2, <3>3, <3>4, <3>5 DEF AddKnowingRefcountIsZero
  <2>4. CASE TryGet(t)
    <3>1. CASE GetLoadHead(t)
      BY <3>1, GetLoadHeadKeeps
    <3>2. CASE GetLoadRefs(t)
      BY <3>2, GetLoadRefsKeeps
    <3>3. CASE GetCasRefs(t)
      BY <3>3, GetCasRefsKeeps
    <3>4. CASE GetLoadNext(t)
      BY <3>4, GetLoadNextKeeps
    <3>5. CASE GetCasHead(t)
      BY <3>5, GetCasHeadKeeps
    <3>6. CASE GetReturn(t)
      BY <3>6, GetReturnKeeps
    <3>7. CASE GetDrop(t)
      BY <3>7, GetDropKeeps
    <3> QED
      BY <2>4, <3>1, <3>2, <3>3, <3>4, <3>5, <3>6, <3>7 DEF TryGet
  <2> QED
    BY <2>1, <2>2, <2>3, <2>4
<1> QED
  BY <1>1, <1>2

\* The reference counts of the free list (freeListRefs) are, at every step of
\* add and try_get, what the threads' references and the flag make them.
THEOREM FreeListInvariance == FreeListSpec => []FreeListIInv
<1>1. FreeListInit => FreeListIInv
  BY FreeListStarts, FreeListAssumption
<1>2. FreeListIInv /\ [FreeListNext]_freeListVars => FreeListIInv'
  BY FreeListSteps, FreeListAssumption
<1> QED
  BY <1>1, <1>2, PTL DEF FreeListSpec

\* With the invariant, a node that try_get got is one call's, carries no flag,
\* and the exchange of the head installs its true successor.
LEMMA FreeListIsSafe == FreeListConstants /\ FreeListIInv => NodesSafe
<1> SUFFICES ASSUME FreeListConstants, FreeListIInv
             PROVE  NodesSafe
  OBVIOUS
<1>0. FreeListTypes /\ \A t \in FreeThreads : ThreadOK(t)
  BY DEF FreeListIInv
<1>1. PICK s \in Seq(Nodes) :
        /\ ListIs(s) /\ \A i \in 1 .. Len(s) : s[i] \notin held
        /\ \A m \in Nodes : NodeOK(Roles(m), PlaceOf(m, s), freeListRefs[m])
  BY DEF FreeListIInv, ListOK
<1>2. ASSUME NEW t \in FreeThreads, fpc[t] = "got"
      PROVE  /\ node[t] \notin held /\ freeListRefs[node[t]] < SHOULD_BE_ON_FREELIST
             /\ \A u \in FreeThreads \ {t} :
                  fpc[u] \in {"got", "add", "link", "one", "push", "again"} => node[u] # node[t]
  <2>1. PICK n \in Nodes : n = node[t]
    BY <1>0, <1>2, RoleTable DEF ThreadOK
  <2>2. PICK f : f = Roles(n)
    OBVIOUS
  <2>3. f[t] = "taken" /\ f[t] \in Owning
    BY <1>2, <2>1, <2>2, RoleTable DEF Roles, RolesIn, Owning
  <2>4. NodeOK(f, PlaceOf(n, s), freeListRefs[n])
    BY <1>1, <2>2
  <2>5. PlaceOf(n, s) = "away" /\ \A u \in FreeThreads : f[u] \in Owning => u = t
    BY <2>3, <2>4, OwnedIsAway, PlaceType
  <2>6. PICK c \in Nat : c = Cardinality(Referrers(f)) /\ c + 1 < SHOULD_BE_ON_FREELIST
    BY ReferrersBound
  <2>7. freeListRefs[n] = c + 1
    BY <2>3, <2>4, <2>5, <2>6 DEF NodeOK, Owned, Owning
  <2>8. n \notin held
    BY <2>5 DEF PlaceOf
  <2>9. ASSUME NEW u \in FreeThreads \ {t}, fpc[u] \in {"got", "add", "link", "one", "push", "again"},
               node[u] = n
        PROVE  FALSE
    <3>1. f[u] \in Owning
      BY <2>2, <2>9, RoleTable DEF Roles, RolesIn, Owning
    <3> QED
      BY <2>5, <3>1
  <2> QED
    BY <2>1, <2>6, <2>7, <2>8, <2>9
<1>3. ASSUME NEW n \in held
      PROVE  freeListRefs[n] < SHOULD_BE_ON_FREELIST
  <2>1. n \in Nodes /\ PlaceOf(n, s) = "held"
    BY <1>0 DEF FreeListTypes, PlaceOf
  <2>2. freeListRefs[n] = Cardinality(Referrers(Roles(n)))
    BY <1>1, <2>1 DEF NodeOK
  <2>3. PICK c \in Nat : c = Cardinality(Referrers(Roles(n))) /\ c + 1 < SHOULD_BE_ON_FREELIST
    BY ReferrersBound
  <2> QED
    BY <2>2, <2>3 DEF FreeListConstants
<1>4. FlagClear
  BY <1>2, <1>3 DEF FlagClear
<1>5. NextStable
  BY <1>0 DEF NextStable, ThreadOK
<1>6. OneOwner
  BY <1>2 DEF OneOwner
<1> QED
  BY <1>4, <1>5, <1>6 DEF NodesSafe

\* FreeList::add and try_get, for any number of threads and nodes: a node is on
\* the list or one call's, no exchange of the head installs a stale successor,
\* and the asserted flag is clear.
THEOREM NodesAreSafe == FreeListSpec => []NodesSafe
<1>1. FreeListIInv => NodesSafe
  BY FreeListIsSafe, FreeListAssumption
<1> QED
  BY <1>1, FreeListInvariance, PTL

\* With the invariant, nobody is left to link a node once all calls returned.
LEMMA FreeListIsWhole == FreeListConstants /\ FreeListIInv => NothingStranded
<1> SUFFICES ASSUME FreeListConstants, FreeListIInv, Quiet,
                    NEW added, added = Nodes \ held
             PROVE  /\ \E s \in [1 .. Cardinality(added) -> added] : ListIs(s)
                    /\ \A n \in added : freeListRefs[n] = 1
  BY DEF NothingStranded
<1>1. PICK s \in Seq(Nodes) :
        /\ ListIs(s) /\ \A i \in 1 .. Len(s) : s[i] \notin held
        /\ \A m \in Nodes : NodeOK(Roles(m), PlaceOf(m, s), freeListRefs[m])
  BY DEF FreeListIInv, ListOK
<1>2. ASSUME NEW n \in added
      PROVE  freeListRefs[n] = 1 /\ \E i \in 1 .. Len(s) : s[i] = n
  <2>1. PICK f : f = Roles(n)
    OBVIOUS
  <2>2. \A t \in FreeThreads : f[t] = "none"
    BY <2>1, RoleTable DEF Roles, RolesIn, Quiet
  <2>3. Referrers(f) = {} /\ ~Owned(f)
    BY <2>2 DEF Referrers, Owned, Owning
  <2>4. Cardinality(Referrers(f)) = 0
    BY <2>3, FS_EmptySet
  <2>5. NodeOK(f, PlaceOf(n, s), freeListRefs[n]) /\ PlaceOf(n, s) # "held"
    BY <1>1, <2>1 DEF PlaceOf
  <2>6. PlaceOf(n, s) # "away"
    BY <2>2, <2>4, <2>5 DEF NodeOK
  <2>7. PlaceOf(n, s) = "listed"
    BY <2>5, <2>6, PlaceType
  <2> QED
    BY <2>4, <2>5, <2>7 DEF NodeOK, PlaceOf
<1>3. PICK k \in Nat : k = Len(s)
  OBVIOUS
<1>4. s \in [1 .. k -> added]
  <2>1. s \in [1 .. k -> Nodes]
    BY <1>3
  <2>2. \A i \in 1 .. k : s[i] \in added
    BY <1>1, <1>3, <2>1
  <2> QED
    BY <2>1, <2>2
<1>5. s \in Bijection(1 .. k, added)
  <2>1. \A i, j \in 1 .. k : s[i] = s[j] => i = j
    BY <1>1, <1>3 DEF ListIs
  <2>2. \A n \in added : \E i \in 1 .. k : s[i] = n
    BY <1>2, <1>3
  <2> QED
    BY <1>4, <2>1, <2>2 DEF Bijection, Injection, Surjection, IsInjective
<1>6. Cardinality(added) = k
  <2>1. ExistsBijection(1 .. k, added)
    BY <1>5 DEF ExistsBijection
  <2> QED
    BY <2>1, FS_CountingElements
<1> QED
  BY <1>1, <1>2, <1>4, <1>6

\* FreeList, for any number of threads and nodes: when every call has returned,
\* each node that was added is on the list once, with the list's reference only.
THEOREM NobodyStranded == FreeListSpec => []NothingStranded
<1>1. FreeListIInv => NothingStranded
  BY FreeListIsWhole, FreeListAssumption
<1> QED
  BY <1>1, FreeListInvariance, PTL
=============================================================================
