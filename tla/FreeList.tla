------------------------------ MODULE FreeList ------------------------------
(***************************************************************************)
(* ConcurrentQueue::FreeList, the lock-free stack of blocks: every node    *)
(* has a reference count (the list's own reference and one per thread in   *)
(* try_get) with the flag SHOULD_BE_ON_FREELIST above it.  One action per  *)
(* access to shared memory.                                                *)
(***************************************************************************)
EXTENDS Integers, Sequences, FiniteSets

CONSTANTS FreeThreads, Nodes, NullNode,
          SHOULD_BE_ON_FREELIST   \* the flag bit, above any reference count

VARIABLES
  freeListHead,
  freeListRefs, freeListNext,    \* node |-> its two fields
  held,          \* nodes whose owner is outside the list
  fpc,           \* thread |-> where it is in add or try_get
  node,          \* thread |-> the node it works on (prevHead, or the one to add)
  head,          \* thread |-> its local head
  refs,          \* thread |-> its local refs
  resume         \* thread |-> where try_get goes on after linking a node

fields == <<freeListRefs, freeListNext>>
locals == <<node, head, refs, resume>>
freeListVars == <<freeListHead, fields, held, fpc, locals>>

Count(r) == r % SHOULD_BE_ON_FREELIST

\* The blocks start out elsewhere: in the initial pool, or not yet allocated.
FreeListInit ==
  /\ freeListHead = NullNode
  /\ freeListRefs = [n \in Nodes |-> 0]
  /\ freeListNext = [n \in Nodes |-> NullNode]
  /\ held = Nodes
  /\ fpc = [t \in FreeThreads |-> "idle"]
  /\ node = [t \in FreeThreads |-> NullNode]
  /\ head = [t \in FreeThreads |-> NullNode]
  /\ refs = [t \in FreeThreads |-> 0]
  /\ resume = [t \in FreeThreads |-> NullNode]

MoveTo(t, l) == fpc' = [fpc EXCEPT ![t] = l]

\* try_get goes round its loop with head n, and returns if that is nullptr.  A call
\* that returns loses its locals.
Loop(t, n) ==
  /\ MoveTo(t, IF n = NullNode THEN "idle" ELSE "refs")
  /\ node' = [node EXCEPT ![t] = NullNode]
  /\ head' = [head EXCEPT ![t] = n]
  /\ refs' = [refs EXCEPT ![t] = 0]
  /\ resume' = [resume EXCEPT ![t] = NullNode]

AddRefs(n, d) == freeListRefs' = [freeListRefs EXCEPT ![n] = @ + d]
-----------------------------------------------------------------------------
\* add(node): raise the flag; the last one to hold a reference links the node.
Add(t, n) ==
  /\ fpc[t] = "idle" /\ n \in held
  /\ held' = held \ {n}
  /\ AddRefs(n, SHOULD_BE_ON_FREELIST)
  /\ IF freeListRefs[n] = 0
     THEN MoveTo(t, "add") /\ node' = [node EXCEPT ![t] = n] /\ UNCHANGED <<head, refs, resume>>
     ELSE UNCHANGED <<fpc, locals>>
  /\ UNCHANGED <<freeListHead, freeListNext>>

\* add_knowing_refcount_is_zero(node)
AddLoadHead(t) ==
  /\ fpc[t] = "add"
  /\ head' = [head EXCEPT ![t] = freeListHead]
  /\ MoveTo(t, "link")
  /\ UNCHANGED <<freeListHead, fields, held, node, refs, resume>>

AddStoreNext(t) ==
  /\ fpc[t] = "link"
  /\ freeListNext' = [freeListNext EXCEPT ![node[t]] = head[t]]
  /\ MoveTo(t, "one")
  /\ UNCHANGED <<freeListHead, freeListRefs, held, locals>>

\* Mutant: the list's reference is added to what is there.
AddStoreRefsAdds(t) ==
  /\ fpc[t] = "one"
  /\ AddRefs(node[t], 1)
  /\ MoveTo(t, "push")
  /\ UNCHANGED <<freeListHead, freeListNext, held, locals>>

AddStoreRefs(t) ==
  /\ fpc[t] = "one"
  /\ freeListRefs' = [freeListRefs EXCEPT ![node[t]] = 1]
  /\ MoveTo(t, "push")
  /\ UNCHANGED <<freeListHead, freeListNext, held, locals>>

AddCas(t) ==
  /\ fpc[t] = "push"
  /\ IF freeListHead = head[t]
     THEN freeListHead' = node[t] /\ Loop(t, resume[t])
     ELSE /\ head' = [head EXCEPT ![t] = freeListHead]
          /\ MoveTo(t, "again")
          /\ UNCHANGED <<freeListHead, node, refs, resume>>
  /\ UNCHANGED <<fields, held>>

\* Mutant: the failed add retries at once, whoever still reads the node.
AddRetryAtOnce(t) ==
  /\ fpc[t] = "again"
  /\ MoveTo(t, "link")
  /\ UNCHANGED <<freeListHead, fields, held, locals>>

\* The add failed: give the reference back; whoever drops the last one links.
AddRetry(t) ==
  /\ fpc[t] = "again"
  /\ AddRefs(node[t], SHOULD_BE_ON_FREELIST - 1)
  /\ IF freeListRefs[node[t]] = 1 THEN MoveTo(t, "link") /\ UNCHANGED locals ELSE Loop(t, resume[t])
  /\ UNCHANGED <<freeListHead, freeListNext, held>>

AddKnowingRefcountIsZero(t) ==
  AddLoadHead(t) \/ AddStoreNext(t) \/ AddStoreRefs(t) \/ AddCas(t) \/ AddRetry(t)
-----------------------------------------------------------------------------
\* try_get(): the loop's loads of the head; nullptr ends the call.
GetLoadHead(t) ==
  /\ fpc[t] \in {"idle", "get"}
  /\ Loop(t, freeListHead)
  /\ UNCHANGED <<freeListHead, fields, held>>

\* Mutant: a node that nobody refers to is picked up again.
GetLoadRefsAny(t) ==
  /\ fpc[t] = "refs"
  /\ node' = [node EXCEPT ![t] = head[t]]
  /\ refs' = [refs EXCEPT ![t] = freeListRefs[head[t]]]
  /\ MoveTo(t, "hold")
  /\ UNCHANGED <<freeListHead, fields, held, head, resume>>

\* prevHead = head; refs is loaded; a node without references is not to be touched.
GetLoadRefs(t) ==
  LET r == freeListRefs[head[t]] IN
  /\ fpc[t] = "refs"
  /\ node' = [node EXCEPT ![t] = head[t]]
  /\ refs' = [refs EXCEPT ![t] = r]
  /\ MoveTo(t, IF Count(r) = 0 THEN "get" ELSE "hold")
  /\ UNCHANGED <<freeListHead, fields, held, head, resume>>

GetCasRefs(t) ==
  /\ fpc[t] = "hold"
  /\ IF freeListRefs[node[t]] = refs[t]
     THEN AddRefs(node[t], 1) /\ MoveTo(t, "next")
     ELSE MoveTo(t, "get") /\ UNCHANGED freeListRefs
  /\ UNCHANGED <<freeListHead, freeListNext, held, locals>>

\* next is read here and used by the exchange of the head that follows.
GetLoadNext(t) ==
  /\ fpc[t] = "next"
  /\ head' = [head EXCEPT ![t] = freeListNext[node[t]]]
  /\ MoveTo(t, "pop")
  /\ UNCHANGED <<freeListHead, fields, held, node, refs, resume>>

GetCasHead(t) ==
  /\ fpc[t] = "pop"
  /\ IF freeListHead = node[t]
     THEN freeListHead' = head[t] /\ MoveTo(t, "got") /\ UNCHANGED locals
     ELSE /\ head' = [head EXCEPT ![t] = freeListHead]
          /\ MoveTo(t, "drop") /\ UNCHANGED <<freeListHead, node, refs, resume>>
  /\ UNCHANGED <<fields, held>>

\* Both references, the list's and ours, are given back and the node returned.
GetReturn(t) ==
  /\ fpc[t] = "got"
  /\ AddRefs(node[t], -2)
  /\ held' = held \cup {node[t]}
  /\ Loop(t, NullNode)
  /\ UNCHANGED <<freeListHead, freeListNext>>

\* Mutant: the reference is dropped without looking at the flag.
GetDropBlind(t) ==
  /\ fpc[t] = "drop"
  /\ AddRefs(node[t], -1)
  /\ Loop(t, head[t])
  /\ UNCHANGED <<freeListHead, freeListNext, held>>

\* The head moved: drop our reference; if the node waits to be added, add it.
GetDrop(t) ==
  /\ fpc[t] = "drop"
  /\ AddRefs(node[t], -1)
  /\ IF freeListRefs[node[t]] = SHOULD_BE_ON_FREELIST + 1
     THEN /\ resume' = [resume EXCEPT ![t] = head[t]]
          /\ MoveTo(t, "add") /\ UNCHANGED <<node, head, refs>>
     ELSE Loop(t, head[t])
  /\ UNCHANGED <<freeListHead, freeListNext, held>>

TryGet(t) ==
  GetLoadHead(t) \/ GetLoadRefs(t) \/ GetCasRefs(t) \/ GetLoadNext(t) \/ GetCasHead(t)
    \/ GetReturn(t) \/ GetDrop(t)

FreeListNext ==
  \E t \in FreeThreads :
    (\E n \in Nodes : Add(t, n)) \/ AddKnowingRefcountIsZero(t) \/ TryGet(t)

FreeListSpec == FreeListInit /\ [][FreeListNext]_freeListVars
-----------------------------------------------------------------------------
Quiet == \A t \in FreeThreads : fpc[t] = "idle"

\* The list, from the head to the end, is s, and no node is on it twice.
ListIs(s) ==
  /\ freeListHead = IF s = <<>> THEN NullNode ELSE s[1]
  /\ \A i \in 1 .. Len(s) :
       freeListNext[s[i]] = IF i = Len(s) THEN NullNode ELSE s[i + 1]
  /\ \A i, j \in 1 .. Len(s) : s[i] = s[j] => i = j

\* When all calls have returned, every node that was added is on the list, once:
\* none was left for a thread that had already gone, and the list has no cycle.
NothingStranded ==
  LET added == Nodes \ held IN
  Quiet => /\ \E s \in [1 .. Cardinality(added) -> added] : ListIs(s)
           /\ \A n \in added : freeListRefs[n] = 1

\* The two assumptions the code states: a node just taken off the list does not
\* carry the flag (its assert), nor does one that an owner is about to add.
FlagClear ==
  /\ \A t \in FreeThreads : fpc[t] = "got" => freeListRefs[node[t]] < SHOULD_BE_ON_FREELIST
  /\ \A n \in held : freeListRefs[n] < SHOULD_BE_ON_FREELIST

\* Nobody's next pointer changes while a thread holds a reference and is about to
\* exchange the head with it: the exchange never installs a stale successor (ABA).
NextStable ==
  \A t \in FreeThreads :
    fpc[t] = "pop" /\ freeListHead = node[t] => head[t] = freeListNext[node[t]]

\* A node that try_get is about to return belongs to that call alone: nobody owns
\* it, no other call got it too, and nobody is linking it.
OneOwner ==
  \A t \in FreeThreads : fpc[t] = "got" =>
    /\ node[t] \notin held
    /\ \A u \in FreeThreads \ {t} :
         fpc[u] \in {"got", "add", "link", "one", "push", "again"} => node[u] # node[t]

\* A node is on the list or one call's, never both: the list is not corrupted by ABA,
\* nobody gets a node twice, and the asserted flag is clear.
NodesSafe == FlagClear /\ NextStable /\ OneOwner
=============================================================================
