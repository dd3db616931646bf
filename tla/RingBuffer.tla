----------------------------- MODULE RingBuffer -----------------------------
(***************************************************************************)
(* The shared-memory ring of lib/ring_buffer/ring_buffer.h: one writer     *)
(* thread (RingBuffer::write), any number of reader threads, each with its *)
(* own RingBufferReader (read_next), and no lock between them.             *)
(*                                                                         *)
(* A slot is an atomic header {sn, sz} and plain bytes.  The writer zeroes *)
(* the header, copies the bytes and stores the new header; a reader loads  *)
(* the header, copies the bytes and loads the header again.  The bytes are *)
(* a data race: every byte copied is a step of its own, and a copy touches *)
(* its bytes in any order, so a reader can come away with any mixture.     *)
(* The header accesses are sequentially consistent and, on the x86-64      *)
(* build, nothing moves across them.                                       *)
(*                                                                         *)
(* Byte k of the m-th accepted message is the pair <<m, k>>: the code never*)
(* looks at a byte, so distinct bytes are all a property can tell apart.   *)
(***************************************************************************)
EXTENDS Integers, Sequences

CONSTANTS
  Readers,    \* the reader threads
  NSlots,     \* _slots.size()
  SlotBytes,  \* sizeof(SlotData): 56 in the code
  SnMod,      \* 2^32: sequence numbers are uint32_t
  NDEBUG,     \* TRUE in the release build, where assert() is compiled out
  Sizes,      \* the sizes of the messages offered to write()
  MaxWrites   \* bound: accepted calls of write()

\* n_slots > 0 is asserted by the constructor.  A ring of 2^32 slots would
\* need 256 GiB: sequence numbers outnumber slots.
ASSUME RingAssumption ==
  /\ NSlots \in Nat \ {0}
  /\ SlotBytes \in Nat \ {0}
  /\ SnMod \in Nat \ {0}
  /\ NSlots < SnMod
  /\ NDEBUG \in BOOLEAN
  /\ Sizes \subseteq Nat
  /\ MaxWrites \in Nat

VARIABLES
  \* the slots
  header,        \* Slot::_header
  data,          \* Slot::_data
  \* the writer
  wpc,           \* where write() is
  msg,           \* the sview argument
  current_byte,
  wleft,         \* the bytes memcpy has still to copy
  current_slot,  \* RingBuffer::_current_slot
  current_sn,    \* RingBuffer::_current_sn
  wres,          \* the result of the last write()
  \* the readers
  rpc,           \* where read_next() is
  expected_sn,   \* RingBufferReader::_expected_sn
  rslot,         \* RingBufferReader::_current_slot
  w,             \* the locals w_esn and w_cs
  h,             \* the local h
  rleft,         \* the bytes append has still to copy
  result,        \* ReadResult::_result
  rdata,         \* ReadResult::_data
  \* history
  sent,          \* the messages accepted by write()
  log,           \* the fragments published, in order
  got            \* the data of each reader's OK results, in order

slotVars   == <<header, data>>
writerVars == <<wpc, msg, current_byte, wleft, current_slot, current_sn, wres>>
readerVars == <<rpc, expected_sn, rslot, w, h, rleft, result, rdata>>
vars == <<slotVars, writerVars, readerVars, sent, log, got>>

Slots    == 0 .. NSlots - 1
Byte     == Nat \X Nat
ZeroByte == <<0, 0>>
SlotHeader  == [sn : 0 .. SnMod - 1, sz : 0 .. SlotBytes]
WriteResult == {"OK", "MSG_TOO_BIG", "EMPTY_MSG"}
ReadResult  == {"OK", "NO_DATA", "LOSS"}
NoHeader    == [sn |-> 0, sz |-> 0]

\* Mutant: the increment skips the 0 that means "no data".
NextSnSkipsZero(sn) == IF sn + 1 = SnMod THEN 1 ELSE sn + 1

\* uint32_t increment of a sequence number.
NextSn(sn) == (sn + 1) % SnMod

\* The wrap-around shared by RingBuffer::move_next and
\* RingBufferReader::move_next.
NextSlot(i) == IF i + 1 = NSlots THEN 0 ELSE i + 1

-----------------------------------------------------------------------------
(* RingBuffer::write                                                        *)

\* The constructor: all headers {0,0}, first slot, sequence number 1.
WriterInit ==
  /\ header = [i \in Slots |-> NoHeader]
  /\ data = [i \in Slots |-> [j \in 1 .. SlotBytes |-> ZeroByte]]
  /\ wpc = "idle" /\ msg = <<>> /\ current_byte = 0 /\ wleft = {}
  /\ current_slot = 0 /\ current_sn = 1 /\ wres = "OK"
  /\ sent = <<>> /\ log = <<>>

\* The message of n bytes that the next accepted write() carries.
Message(n) == [k \in 1 .. n |-> <<Len(sent) + 1, k>>]

TooBig(n) == n > NSlots * SlotBytes

\* write() refuses a message and changes nothing.
Refuse(n) ==
  /\ wpc = "idle"
  /\ \/ TooBig(n) /\ wres' = "MSG_TOO_BIG"
     \/ n = 0 /\ wres' = "EMPTY_MSG"
  /\ UNCHANGED <<slotVars, wpc, msg, current_byte, wleft, current_slot,
                 current_sn, readerVars, sent, log, got>>

\* write() accepts a message and enters its loop.
Write(n) ==
  /\ wpc = "idle" /\ Len(sent) < MaxWrites
  /\ ~TooBig(n) /\ n # 0
  /\ msg' = Message(n)
  /\ sent' = Append(sent, msg')
  /\ current_byte' = 0
  /\ wpc' = "clear"
  /\ UNCHANGED <<slotVars, wleft, current_slot, current_sn, wres,
                 readerVars, log, got>>

\* to_write = min(sizeof(SlotData), remaining)
ToWrite ==
  LET remaining == Len(msg) - current_byte
  IN  IF remaining < SlotBytes THEN remaining ELSE SlotBytes

\* Mutant: the assertion allows a full slot.
UpdateAssertionFull == ToWrite <= SlotBytes

\* assert(d.size() < sizeof(SlotData)) at the head of Slot::update
UpdateAssertion == ToWrite < SlotBytes

AssertFails ==
  /\ wpc = "clear" /\ ~NDEBUG /\ ~UpdateAssertion
  /\ wpc' = "aborted"
  /\ UNCHANGED <<slotVars, msg, current_byte, wleft, current_slot,
                 current_sn, wres, readerVars, sent, log, got>>

\* Mutant: update() leaves the old header in place while it copies.
ClearHeaderKept ==
  /\ wpc = "clear" /\ (NDEBUG \/ UpdateAssertion)
  /\ wleft' = 1 .. ToWrite
  /\ wpc' = "copy"
  /\ UNCHANGED <<slotVars, msg, current_byte, current_slot, current_sn, wres,
                 readerVars, sent, log, got>>

\* Slot::update invalidates the header before it touches the bytes.
ClearHeader ==
  /\ wpc = "clear" /\ (NDEBUG \/ UpdateAssertion)
  /\ header' = [header EXCEPT ![current_slot] = NoHeader]
  /\ wleft' = 1 .. ToWrite
  /\ wpc' = "copy"
  /\ UNCHANGED <<data, msg, current_byte, current_slot, current_sn, wres,
                 readerVars, sent, log, got>>

\* memcpy copies one more byte.
CopyByte(j) ==
  /\ wpc = "copy" /\ j \in wleft
  /\ data' = [data EXCEPT ![current_slot][j] = msg[current_byte + j]]
  /\ wleft' = wleft \ {j}
  /\ UNCHANGED <<header, wpc, msg, current_byte, current_slot, current_sn,
                 wres, readerVars, sent, log, got>>

\* Mutant: a full slot is stored with size 0, as ReadResult::append decodes it.
NewHeaderFullIsZero ==
  [sn |-> current_sn, sz |-> IF ToWrite = SlotBytes THEN 0 ELSE ToWrite]

\* The header that makes the slot readable.
NewHeader == [sn |-> current_sn, sz |-> ToWrite]

\* The bytes of this turn of the loop.
Fragment == SubSeq(msg, current_byte + 1, current_byte + ToWrite)

\* Mutant: write() stops after one slot.
StoreHeaderOnce ==
  /\ wpc = "copy" /\ wleft = {}
  /\ header' = [header EXCEPT ![current_slot] = NewHeader]
  /\ current_byte' = current_byte + ToWrite
  /\ current_sn' = NextSn(current_sn)
  /\ current_slot' = NextSlot(current_slot)
  /\ wpc' = "idle" /\ wres' = "OK"
  /\ log' = Append(log, Fragment)
  /\ UNCHANGED <<data, msg, wleft, readerVars, sent, got>>

\* Slot::update stores the new header; write() advances and loops or returns.
StoreHeader ==
  /\ wpc = "copy" /\ wleft = {}
  /\ header' = [header EXCEPT ![current_slot] = NewHeader]
  /\ current_byte' = current_byte + ToWrite
  /\ current_sn' = NextSn(current_sn)
  /\ current_slot' = NextSlot(current_slot)
  /\ IF current_byte' = Len(msg)
       THEN wpc' = "idle" /\ wres' = "OK"
       ELSE wpc' = "clear" /\ UNCHANGED wres
  /\ log' = Append(log, Fragment)
  /\ UNCHANGED <<data, msg, wleft, readerVars, sent, got>>

WriterStep ==
  \/ ClearHeader
  \/ \E j \in 1 .. SlotBytes : CopyByte(j)
  \/ StoreHeader

Writer ==
  \/ \E n \in Sizes : Refuse(n) \/ Write(n)
  \/ AssertFails
  \/ WriterStep

-----------------------------------------------------------------------------
(* RingBufferReader::read_next                                              *)

\* The constructor: whatever the writer has done by then, a reader starts
\* from sequence number 1 in slot 0.
ReaderInit ==
  /\ rpc = [r \in Readers |-> "idle"]
  /\ expected_sn = [r \in Readers |-> 1]
  /\ rslot = [r \in Readers |-> 0]
  /\ w = [r \in Readers |-> [sn |-> 1, cs |-> 0]]
  /\ h = [r \in Readers |-> NoHeader]
  /\ rleft = [r \in Readers |-> {}]
  /\ result = [r \in Readers |-> "NO_DATA"]
  /\ rdata = [r \in Readers |-> <<>>]
  /\ got = [r \in Readers |-> <<>>]

\* A failed assertion ends the process, readers included.
Running == wpc # "aborted"

\* read_next() is called: the working copies are taken, the result cleared.
ReadNext(r) ==
  /\ Running /\ rpc[r] = "idle"
  /\ w' = [w EXCEPT ![r] = [sn |-> expected_sn[r], cs |-> rslot[r]]]
  /\ rdata' = [rdata EXCEPT ![r] = <<>>]
  /\ rpc' = [rpc EXCEPT ![r] = "header"]
  /\ UNCHANGED <<slotVars, writerVars, expected_sn, rslot, h, rleft, result,
                 sent, log, got>>

\* Mutant: the expected fragment itself is taken for "not yet".
VerdictLate(sn, expected) ==
  IF sn <= expected THEN "NO_DATA" ELSE "LOSS"

\* Mutant: an empty slot is reported as a loss.
VerdictEmptyIsLoss(sn, expected) ==
  IF sn # expected \/ sn = 0 THEN "LOSS" ELSE "copy"

\* What the first header load decides: give up, or copy the slot.
Verdict(sn, expected) ==
  IF sn = 0 THEN "NO_DATA" ELSE IF sn # expected THEN "LOSS" ELSE "copy"

\* ReadResult::append takes a size of 0 for a full slot.
AppendSize(sz) == IF sz # 0 THEN sz ELSE SlotBytes

\* Mutant: read_next() waits in its loop for the expected fragment.
LoadHeaderWaits(r) ==
  LET now == header[rslot[r]]
      n   == AppendSize(now.sz)
  IN /\ Running /\ rpc[r] = "header"
     /\ Verdict(now.sn, expected_sn[r]) = "copy"
     /\ h' = [h EXCEPT ![r] = now]
     /\ rpc' = [rpc EXCEPT ![r] = "copy"]
     /\ rleft' = [rleft EXCEPT ![r] = 1 .. n]
     /\ rdata' = [rdata EXCEPT ![r] = @ \o [j \in 1 .. n |-> ZeroByte]]
     /\ UNCHANGED <<slotVars, writerVars, expected_sn, rslot, w, result, sent,
                    log, got>>

\* The loop's first header load; append() grows the string before it copies.
LoadHeader(r) ==
  LET now == header[rslot[r]]
      v   == Verdict(now.sn, expected_sn[r])
      n   == AppendSize(now.sz)
  IN /\ Running /\ rpc[r] = "header"
     /\ h' = [h EXCEPT ![r] = now]
     /\ IF v = "copy"
          THEN /\ rpc' = [rpc EXCEPT ![r] = "copy"]
               /\ rleft' = [rleft EXCEPT ![r] = 1 .. n]
               /\ rdata' = [rdata EXCEPT ![r] = @ \o [j \in 1 .. n |-> ZeroByte]]
               /\ UNCHANGED result
          ELSE /\ rpc' = [rpc EXCEPT ![r] = "idle"]
               /\ result' = [result EXCEPT ![r] = v]
               /\ UNCHANGED <<rleft, rdata>>
     /\ UNCHANGED <<slotVars, writerVars, expected_sn, rslot, w, sent, log, got>>

\* append() copies one more byte of the slot.
AppendByte(r, j) ==
  /\ Running /\ rpc[r] = "copy" /\ j \in rleft[r]
  /\ rdata' = [rdata EXCEPT ![r][Len(rdata[r]) - AppendSize(h[r].sz) + j] =
                              data[rslot[r]][j]]
  /\ rleft' = [rleft EXCEPT ![r] = @ \ {j}]
  /\ UNCHANGED <<slotVars, writerVars, rpc, expected_sn, rslot, w, h, result,
                 sent, log, got>>

\* Mutant: the second header is not compared with the first.
SameSlotAssumed(before, now) == TRUE

\* The slot is still the one the first load saw.
SameSlot(before, now) == before.sn = now.sn

\* The second header load: LOSS if the slot has changed, else the end of the
\* read, or - were the size 0 - another turn of the loop on the same slot.
Recheck(r) ==
  LET now   == header[rslot[r]]
      moved == [sn |-> NextSn(w[r].sn), cs |-> NextSlot(w[r].cs)]
  IN /\ Running /\ rpc[r] = "copy" /\ rleft[r] = {}
     /\ w' = [w EXCEPT ![r] = moved]
     /\ IF SameSlot(h[r], now) /\ now.sz # 0
          THEN /\ expected_sn' = [expected_sn EXCEPT ![r] = moved.sn]
               /\ rslot' = [rslot EXCEPT ![r] = moved.cs]
               /\ got' = [got EXCEPT ![r] = Append(@, rdata[r])]
          ELSE UNCHANGED <<expected_sn, rslot, got>>
     /\ IF SameSlot(h[r], now) /\ now.sz = 0
          THEN /\ rpc' = [rpc EXCEPT ![r] = "header"]
               /\ UNCHANGED result
          ELSE /\ rpc' = [rpc EXCEPT ![r] = "idle"]
               /\ result' = [result EXCEPT ![r] =
                               IF SameSlot(h[r], now) THEN "OK" ELSE "LOSS"]
     /\ UNCHANGED <<slotVars, writerVars, h, rleft, rdata, sent, log>>

Reader(r) ==
  \/ ReadNext(r)
  \/ LoadHeader(r)
  \/ \E j \in 1 .. SlotBytes : AppendByte(r, j)
  \/ Recheck(r)

-----------------------------------------------------------------------------
Init == WriterInit /\ ReaderInit
Next == Writer \/ \E r \in Readers : Reader(r)
Spec == Init /\ [][Next]_vars

\* A write() that has begun runs to its end, and every reader polls: its
\* thread is scheduled and calls read_next() again and again.
FairSpec ==
  /\ Spec
  /\ WF_vars(WriterStep)
  /\ \A r \in Readers : WF_vars(Reader(r))

-----------------------------------------------------------------------------
(* Properties                                                               *)

\* The types of the variables, as the C++ declarations and write()'s loop
\* bounds give them.
TypeOK ==
  /\ header \in [Slots -> SlotHeader]
  /\ data \in [Slots -> [1 .. SlotBytes -> Byte]]
  /\ wpc \in {"idle", "clear", "copy", "aborted"}
  /\ msg \in Seq(Byte)
  /\ current_byte \in Nat
  /\ wleft \subseteq 1 .. SlotBytes
  /\ current_slot \in Slots
  /\ current_sn \in 0 .. SnMod - 1
  /\ wres \in WriteResult
  /\ rpc \in [Readers -> {"idle", "header", "copy"}]
  /\ expected_sn \in [Readers -> 0 .. SnMod - 1]
  /\ rslot \in [Readers -> Slots]
  /\ w \in [Readers -> [sn : 0 .. SnMod - 1, cs : Slots]]
  /\ h \in [Readers -> SlotHeader]
  /\ rleft \in [Readers -> SUBSET (1 .. SlotBytes)]
  /\ result \in [Readers -> ReadResult]
  /\ rdata \in [Readers -> Seq(Byte)]
  /\ sent \in Seq(Seq(Byte))
  /\ log \in Seq(Seq(Byte))
  /\ got \in [Readers -> Seq(Seq(Byte))]

\* How far the writer is ahead of reader r, in fragments.
Lag(r) == Len(log) - Len(got[r])

\* The fragment r waits for.
NextPos(r) == Len(got[r]) + 1

\* The writer has taken the slot of position p for position p + NSlots.
Overwritten(p) ==
  \/ p + NSlots <= Len(log)
  \/ p + NSlots = Len(log) + 1 /\ wpc = "copy"

Lapped(r) == Overwritten(NextPos(r))

\* The fragment r waits for is published and intact.
Readable(r) == NextPos(r) <= Len(log) /\ ~Lapped(r)

\* No torn, skipped, repeated or reordered data: the OK results of read_next()
\* are the published fragments from the first on, byte for byte, whatever the
\* writer does meanwhile.  The one exception is a reader that fell a full
\* cycle of sequence numbers behind.
PrefixOrWrapped ==
  \A r \in Readers :
    \/ /\ Len(got[r]) <= Len(log)
       /\ \A k \in 1 .. Len(got[r]) : got[r][k] = log[k]
    \/ Lag(r) >= SnMod

\* A slot whose header the writer has zeroed, or reused, is never delivered:
\* a reader that has been lapped gets no OK from read_next() any more, unless
\* the writer is a cycle of sequence numbers ahead.
LappedNeverDelivers ==
  [][\A r \in Readers :
       Lapped(r) /\ Lag(r) <= SnMod => got'[r] = got[r]]_vars

\* read_next() misses nothing: if the next fragment is there and intact when
\* the call returns, the call returns it - no LOSS, no NO_DATA.  (Position
\* SnMod has the sequence number 0 and is never readable.)
ReadableIsRead ==
  [][\A r \in Readers :
       /\ rpc[r] # "idle" /\ rpc'[r] = "idle"
       /\ Readable(r) /\ NextPos(r) < SnMod
       => result'[r] = "OK"]_vars

\* A LOSS is a loss, or the reader has caught up with a writer that has filled
\* the ring: the slot it waits at then holds the fragment of the lap before,
\* whose sequence number read_next() does not tell from a later one.
LossExplained ==
  [][\A r \in Readers :
       /\ rpc[r] # "idle" /\ rpc'[r] = "idle" /\ result'[r] = "LOSS"
       => \/ Lapped(r)
          \/ Len(got[r]) = Len(log) /\ Len(log) >= NSlots]_vars

\* The counter wraps into 0, which read_next() takes for an empty slot: no
\* reader ever gets more than 2^32 - 1 fragments.
StallsAtWrap == \A r \in Readers : Len(got[r]) < SnMod

\* The reader's loop makes one turn: no header with a sequence number has
\* size 0, so no read appends the bytes of a slot twice.
OneSlotPerRead == \A r \in Readers : Len(rdata[r]) <= SlotBytes

\* The byte that follows b in the messages accepted.
Follows(b, c) ==
  \/ b[2] < Len(sent[b[1]]) /\ c = <<b[1], b[2] + 1>>
  \/ b[2] = Len(sent[b[1]]) /\ b[1] < Len(sent) /\ c = <<b[1] + 1, 1>>

LastByte(fragment) == fragment[Len(fragment)]

\* write() cuts a message into slots without losing, repeating or reordering a
\* byte: the fragments published, put together, are the messages accepted -
\* all of them whenever write() is not under way.
BytesInOrder ==
  /\ \A p \in 1 .. Len(log) :
       /\ IF p = 1 THEN log[p][1] = <<1, 1>>
                   ELSE Follows(LastByte(log[p - 1]), log[p][1])
       /\ \A j \in 2 .. Len(log[p]) : Follows(log[p][j - 1], log[p][j])
  /\ wpc = "idle" =>
       IF sent = <<>>
         THEN log = <<>>
         ELSE log # <<>> /\ LastByte(log[Len(log)]) = LastByte(sent[Len(sent)])

\* One OK of read_next() is one message of write(), complete.
WholeMessages ==
  \A r \in Readers : \A k \in 1 .. Len(got[r]) :
    k <= Len(sent) /\ got[r][k] = sent[k]

\* assert(d.size() < sizeof(SlotData)) in Slot::update never fails.
AssertionHolds == wpc = "clear" => UpdateAssertion

\* read_next() never spins: every call returns, unless an assertion ends the
\* process.
ReadReturns ==
  \A r \in Readers : rpc[r] # "idle" ~> rpc[r] = "idle" \/ ~Running

\* Once the writer is done a polling reader gets everything published, unless
\* it has been lapped (or an assertion has ended the process).
CatchesUp ==
  \A r \in Readers : <>[](Len(got[r]) = Len(log) \/ Lapped(r) \/ ~Running)

\* The ring implements the lossy log.
Abstract == INSTANCE LossyLog WITH Depth <- NSlots
ImplementsLossyLog == Abstract!Spec
=============================================================================
