---------------------------- MODULE FreeListInv -----------------------------
(***************************************************************************)
(* The inductive invariant of FreeList.                                    *)
(***************************************************************************)
EXTENDS FreeList

\* Reference counts stay below the flag: 2^31 in the code, with one reference
\* per thread and the list's own.
FreeListConstants ==
  /\ IsFiniteSet(FreeThreads) /\ IsFiniteSet(Nodes)
  /\ NullNode \notin Nodes
  /\ SHOULD_BE_ON_FREELIST \in Nat
  /\ Cardinality(FreeThreads) + 1 < SHOULD_BE_ON_FREELIST

ASSUME FreeListAssumption == FreeListConstants

Pointer == Nodes \cup {NullNode}

\* The types of the variables.
FreeListTypes ==
  /\ freeListHead \in Pointer
  /\ freeListRefs \in [Nodes -> Nat]
  /\ freeListNext \in [Nodes -> Pointer]
  /\ held \subseteq Nodes
  /\ fpc \in [FreeThreads -> {"idle", "get", "refs", "hold", "next", "pop", "got", "drop",
                         "add", "link", "one", "push", "again"}]
  /\ node \in [FreeThreads -> Pointer]
  /\ head \in [FreeThreads -> Pointer]
  /\ refs \in [FreeThreads -> Nat]
  /\ resume \in [FreeThreads -> Pointer]

\* What a thread is to a node: it has a reference; it has taken the node off
\* the list; it links the node and has, or has not, cleared the flag.
RoleAt(l) ==
  CASE l \in {"next", "pop", "drop"}  -> "ref"
    [] l = "got"                      -> "taken"
    [] l \in {"add", "link", "one"}   -> "flagged"
    [] l \in {"push", "again"}        -> "linked"
    [] OTHER                          -> "none"
RolesIn(at, of, n) == [t \in FreeThreads |-> IF of[t] = n THEN RoleAt(at[t]) ELSE "none"]
Roles(n) == RolesIn(fpc, node, n)

\* Where a node is, if the list is s.
PlaceOf(n, s) ==
  IF n \in held THEN "held"
  ELSE IF \E i \in 1 .. Len(s) : s[i] = n THEN "listed" ELSE "away"

Owning == {"taken", "flagged", "linked"}
Referrers(f) == {t \in FreeThreads : f[t] \in {"ref", "taken"}}
Owned(f) == \E t \in FreeThreads : f[t] \in Owning

\* The reference count r of a node in terms of the threads' roles f and its
\* place: a node away from the list and its owner belongs to one thread, or to
\* the one that will drop the last reference.
NodeOK(f, place, r) ==
  LET c == Cardinality(Referrers(f)) IN
  /\ \A t, u \in FreeThreads : f[t] \in Owning /\ f[u] \in Owning => t = u
  /\ place = "held" => ~Owned(f) /\ r = c
  /\ place = "listed" => ~Owned(f) /\ r = c + 1
  /\ place = "away" =>
       \/ (\E t \in FreeThreads : f[t] = "flagged") /\ r = SHOULD_BE_ON_FREELIST /\ c = 0
       \/ (\E t \in FreeThreads : f[t] \in {"linked", "taken"}) /\ r = c + 1
       \/ ~Owned(f) /\ r = SHOULD_BE_ON_FREELIST + c /\ c > 0

\* What a thread knows: next does not change under a thread with a reference,
\* nor under the one that links the node.
ThreadOK(t) ==
  /\ fpc[t] = "refs" => head[t] \in Nodes
  /\ fpc[t] = "hold" => node[t] \in Nodes /\ Count(refs[t]) # 0
  /\ RoleAt(fpc[t]) # "none" => node[t] \in Nodes
  /\ fpc[t] = "pop" => head[t] = freeListNext[node[t]]
  /\ fpc[t] \in {"one", "push"} => freeListNext[node[t]] = head[t]

\* The list is a chain of nodes that nobody owns.
ListOK ==
  \E s \in Seq(Nodes) :
    /\ ListIs(s)
    /\ \A i \in 1 .. Len(s) : s[i] \notin held
    /\ \A n \in Nodes : NodeOK(Roles(n), PlaceOf(n, s), freeListRefs[n])

FreeListIInv == FreeListTypes /\ (\A t \in FreeThreads : ThreadOK(t)) /\ ListOK
=============================================================================
