-------------------------- MODULE ReaderWriterInv ---------------------------
(***************************************************************************)
(* The inductive invariant of the blocking reader-writer queue: where the  *)
(* elements are in the ring of blocks, what each thread relies on between  *)
(* two steps, and what the semaphore has counted.                          *)
(***************************************************************************)
EXTENDS BlockingReaderWriterQueue

BlockSet == [front : Nat, tail : Nat, localFront : Nat, localTail : Nat, next : Nat, data : Seq(Nat)]

\* How far j is ahead of i, and the slot after i, in a ring of n slots.
Ahead(i, j, n) == IF j >= i THEN j - i ELSE j - i + n
Succ(i, n) == IF i + 1 = n THEN 0 ELSE i + 1

\* The number of elements of block k, and the oldest of them.
Cnt(k) == Ahead(k.front, k.tail, Len(k.data))
First(k) == k.data[k.front + 1]

\* The copies of front and tail that the threads keep are behind.
CopiesOK(front, tail, localFront, localTail, n) ==
  /\ front < n /\ tail < n /\ localFront < n /\ localTail < n
  /\ Ahead(front, localTail, n) <= Ahead(front, tail, n)
  /\ Ahead(front, tail, n) <= Ahead(localFront, tail, n)

\* From front to tail there are consecutive elements; after them, if anything, the
\* element x that is being placed.
SlotsOK(data, front, tail, x) ==
  \A i \in 0 .. Len(data) - 1 :
    data[i + 1] =
      IF Ahead(front, i, Len(data)) < Ahead(front, tail, Len(data)) THEN data[front + 1] + Ahead(front, i, Len(data))
      ELSE IF i = tail THEN x ELSE NoElement

BlockOK(k, x) ==
  /\ Len(k.data) >= 2
  /\ CopiesOK(k.front, k.tail, k.localFront, k.localTail, Len(k.data))
  /\ SlotsOK(k.data, k.front, k.tail, x)

\* The blocks R are one ring.
RingOK(R, nx) ==
  /\ nx \in [R -> R]
  /\ \A a, b \in R : nx[a] = nx[b] => a = b
  /\ \A X \in SUBSET R : X # {} /\ (\A y \in X : nx[y] \in X) => X = R

\* Block b has the n[b] elements from lo[b] on; together they are those from T + 1
\* to S.  The last one is in block `last`, and from front on a block continues the
\* one before it.
ChainOK(R, nx, lo, n, front, last, T, S) ==
  /\ front \in R /\ last \in R /\ lo \in [R -> Nat] /\ n \in [R -> Nat]
  /\ \A b \in R : n[b] > 0 => T < lo[b] /\ lo[b] + n[b] <= S + 1
  /\ \A b \in R : n[b] > 0 /\ lo[b] + n[b] = S + 1 => b = last
  /\ \A e \in (T + 1) .. S : \E b \in R : lo[b] <= e /\ e < lo[b] + n[b]
  /\ \A a, b \in R : a # b /\ n[a] > 0 /\ n[b] > 0 => lo[a] + n[a] <= lo[b] \/ lo[b] + n[b] <= lo[a]
  /\ \A b \in R : n[b] > 0 =>
       \/ b = front
       \/ n[front] = 0 /\ b = nx[front]
       \/ \E a \in R : n[a] > 0 /\ b = nx[a] /\ lo[a] + n[a] = lo[b]
  /\ T = S => front = last

NextOf(bs, R) == [b \in R |-> bs[b].next]
FirstOf(bs, R) == [b \in R |-> First(bs[b])]
CountOf(bs, R) == [b \in R |-> Cnt(bs[b])]

\* The blocks bs, of which R are the ring: element S + 1 is being placed in block p.
MemoryOK(bs, R, p, front, last, T, S) ==
  /\ bs \in Seq(BlockSet) /\ R \in SUBSET (1 .. Len(bs))
  /\ \A b \in 1 .. Len(bs) : BlockOK(bs[b], IF b = p THEN S + 1 ELSE NoElement)
  /\ RingOK(R, NextOf(bs, R))
  /\ ChainOK(R, NextOf(bs, R), FirstOf(bs, R), CountOf(bs, R), front, last, T, S)

\* The block the producer has written to last; it may have to say so yet.
Last == IF ppc = "advance" THEN pblk ELSE tailBlock
Placing == IF ppc = "publish" THEN pblk ELSE 0

MemoryInv(T) ==
  /\ MemoryOK(blocks, InRing, Placing, frontBlock, Last, T, Len(sent))
  /\ tailBlock \in InRing /\ largestBlockSize \in Nat \ {0, 1}

\* The consumer.  Beyond the front block it goes only once that is empty and the
\* producer has left it.
ConsumerInv(T) ==
  /\ cpc \in {"idle", "look", "recheck", "next", "enter", "move", "take", "release"}
  /\ cpc \in {"look", "recheck", "next"} => cblk = frontBlock
  /\ cpc \in {"look", "recheck"} => cidx = blocks[cblk].front
  /\ cpc \in {"recheck", "next", "enter", "move"} => frontBlock # tailBlock
  /\ cpc \in {"next", "enter", "move"} => Cnt(blocks[frontBlock]) = 0
  /\ cpc \in {"enter", "move"} => cblk = blocks[frontBlock].next
  /\ cpc \in {"move", "take", "release"} => cblk \in InRing /\ cidx = blocks[cblk].front
  /\ cpc \in {"take", "release"} => Cnt(blocks[cblk]) > 0 /\ First(blocks[cblk]) = T + 1
  /\ cpc \in {"move", "take", "release"} /\ cop # "peek" => blocks[cblk].localTail # blocks[cblk].front
  /\ cpc \in {"take", "release"} /\ cop # "peek" => cblk = frontBlock
  /\ cpc = "release" => cresult = T + 1
  /\ cpc \in {"move", "release"} => cop # "peek"

\* The producer.  It goes beyond the tail block only where that is not followed by
\* the front block.
ProducerInv ==
  /\ ppc \in {"idle", "full", "ahead", "place", "publish", "alloc", "link", "advance"}
  /\ ppc \notin {"idle", "advance"} => Len(sent) < MaxItems
  /\ ppc \in {"ahead", "advance"} => blocks[tailBlock].next # frontBlock
  /\ ppc \in {"place", "publish"} =>
       /\ pblk = tailBlock \/ (pblk = blocks[tailBlock].next /\ pblk # frontBlock)
       /\ Succ(blocks[pblk].tail, Len(blocks[pblk].data)) # blocks[pblk].localFront
  /\ ppc = "link" =>
       /\ pblk = Len(blocks) /\ blocks[pblk].next = blocks[tailBlock].next
       /\ Cnt(blocks[pblk]) = 1 /\ First(blocks[pblk]) = Len(sent) + 1
  /\ ppc = "advance" => pblk = blocks[tailBlock].next /\ Cnt(blocks[pblk]) <= 1

\* The semaphore: elements it has not been told of yet, and a waiter it has let through.
Bit(p) == IF p THEN 1 ELSE 0
Untold == Bit(spc = "signal") + Bit(ppc = "advance")
Claimed == Bit(wpc \in {"won", "sleep", "restore", "posted"})
Posted == m_sema + Bit(spc = "post")

SemaInv(T) ==
  /\ wpc \in {"idle", "spin", "dec", "won", "sleep", "restore", "retake", "posted"}
  /\ spc \in {"idle", "signal", "post"}
  /\ m_sema \in Nat /\ m_count \in Int
  /\ ppc # "idle" => spc = "idle"
  /\ cpc # "idle" => wpc = IF cop = "peek" THEN "idle" ELSE "won"
  /\ wpc = "won" /\ cpc = "look" => frontBlock # tailBlock
  /\ m_count = Len(sent) - T - Untold - Claimed
  /\ m_count >= -1
  /\ wpc \in {"idle", "spin", "won"} => m_count >= 0
  /\ wpc \in {"dec", "retake"} => m_count >= 1
  /\ Posted = IF wpc = "retake" \/ (wpc \in {"sleep", "restore", "posted"} /\ m_count >= 0) THEN 1 ELSE 0

InnerInv(T) == MemoryInv(T) /\ ConsumerInv(T) /\ ProducerInv

AliveInv(T) == InnerInv(T) /\ IF blocking THEN SemaInv(T) ELSE wpc = "idle" /\ spc = "idle"

SentInv == sent \in Seq(Nat) /\ Len(sent) <= MaxItems /\ \A i \in 1 .. Len(sent) : sent[i] = i

Idle == cpc = "idle" /\ ppc = "idle" /\ wpc = "idle" /\ spc = "idle"

\* T elements have been taken; none of the others is lost.
ReaderWriterIInv ==
  /\ SentInv
  /\ IF alive THEN \E T \in 0 .. Len(sent) : AliveInv(T) ELSE Idle /\ NothingLeaks

\* The part that does not depend on what the semaphore does.
InnerIInv ==
  /\ SentInv
  /\ IF alive THEN \E T \in 0 .. Len(sent) : InnerInv(T) ELSE Idle /\ NothingLeaks
=============================================================================
