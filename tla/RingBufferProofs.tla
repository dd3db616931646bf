-------------------------- MODULE RingBufferProofs --------------------------
(***************************************************************************)
(* Proofs about RingBuffer for every number of slots, slot size, width of  *)
(* the sequence numbers, set of readers and set of message sizes: no torn  *)
(* fragment is read, no counter repeats, and then what the readers get -   *)
(* which slot a fragment is in, what NO_DATA and LOSS mean, which bytes a  *)
(* fragment holds, what the assertion of the debug build does for messages.*)
(***************************************************************************)
EXTENDS MCRingBuilds, ModLemmas, SequenceTheorems

-----------------------------------------------------------------------------
(* Sequence numbers and slots                                               *)

\* A sequence number is a uint32_t.
LEMMA SnType == \A p \in Nat : SnOf(p) \in 0 .. SnMod - 1
BY RingAssumption, ModRange DEF SnOf

\* move_next increments sequence numbers as positions are incremented.
LEMMA SnNext == \A p \in Nat : NextSn(SnOf(p)) = SnOf(p + 1)
BY RingAssumption, ModSucc DEF SnOf, NextSn

\* Positions with one sequence number are SnMod apart.
LEMMA SnGap ==
  ASSUME NEW p \in Nat, NEW q \in Nat, p < q, SnOf(p) = SnOf(q)
  PROVE  q >= p + SnMod
BY RingAssumption, ModGap DEF SnOf

\* The first position has sequence number 1, the last of a cycle has 0.
LEMMA SnEnds == SnOf(1) = 1 /\ SnOf(SnMod) = 0
BY RingAssumption DEF SnOf

\* move_next stays within the slots.
LEMMA NextSlotType == \A i \in Slots : NextSlot(i) \in Slots
BY RingAssumption DEF NextSlot, Slots

\* A slot holds one of the last NSlots fragments: none older, none to come.
LEMMA AtBounds ==
  ASSUME TypeOK, WriterInv, NEW i \in Slots
  PROVE  /\ At(i) \in Int
         /\ At(i) <= Len(log)
         /\ Len(log) < At(i) + NSlots
BY RingAssumption DEF TypeOK, WriterInv, At, Slots

\* The sizes of a turn of the loop of write().
LEMMA ToWriteBounds ==
  ASSUME TypeOK, current_byte < Len(msg)
  PROVE  /\ ToWrite \in 1 .. SlotBytes
         /\ current_byte + ToWrite <= Len(msg)
BY RingAssumption DEF TypeOK, ToWrite

\* The fragment of a turn of the loop of write(), byte for byte.
LEMMA FragmentBytes ==
  ASSUME TypeOK, current_byte < Len(msg)
  PROVE  /\ Fragment \in Seq(Byte)
         /\ Len(Fragment) = ToWrite
         /\ \A j \in 1 .. ToWrite : Fragment[j] = msg[current_byte + j]
<1>1. ToWrite \in 1 .. SlotBytes /\ current_byte + ToWrite <= Len(msg)
  BY ToWriteBounds
<1>2. current_byte \in Nat /\ Len(msg) \in Nat /\ SlotBytes \in Nat
  BY RingAssumption DEF TypeOK
<1>3. msg \in Seq(Byte)
  BY DEF TypeOK
<1> DEFINE m == current_byte + 1
           n == current_byte + ToWrite
<1>4. m \in Int /\ n \in Int /\ m <= n /\ n - m + 1 = ToWrite
  BY <1>1, <1>2
<1>5. \A i \in m .. n : msg[i] \in Byte
  <2> TAKE i \in m .. n
  <2>1. i \in 1 .. Len(msg)
    BY <1>1, <1>2
  <2> QED
    BY <1>3, <2>1, ElementOfSeq
<1>6. Fragment = SubSeq(msg, m, n)
  BY DEF Fragment
<1> HIDE DEF m, n
<1>7. /\ Fragment \in Seq(Byte)
      /\ Len(Fragment) = n - m + 1
      /\ \A j \in 1 .. n - m + 1 : Fragment[j] = msg[m + j - 1]
  BY <1>4, <1>5, <1>6, SubSeqProperties
<1>8. ASSUME NEW j \in 1 .. ToWrite
      PROVE  m + j - 1 = current_byte + j
  BY <1>1, <1>2 DEF m
<1> QED
  BY <1>4, <1>7, <1>8

-----------------------------------------------------------------------------
(* The type invariant and the initial state                                 *)

\* The constructors of the ring and of its readers establish the invariant.
LEMMA InitIInv == Init => IInv
<1> SUFFICES ASSUME Init
             PROVE  IInv
  OBVIOUS
<1> USE RingAssumption DEF Init, WriterInit, ReaderInit
<1>0. Len(log) = 0 /\ \A r \in Readers : Len(got[r]) = 0 /\ Len(rdata[r]) = 0
  OBVIOUS
<1>1. TypeOK
  BY DEF TypeOK, Slots, Byte, ZeroByte, SlotHeader, NoHeader, WriteResult, ReadResult
<1>2. WriterInv
  BY <1>0, SnEnds DEF WriterInv
<1>3. LogInv
  BY <1>0 DEF LogInv
<1>4. SlotInv
  <2> SUFFICES ASSUME NEW i \in Slots
               PROVE  Blank(i) /\ header[i] = NoHeader
    BY DEF SlotInv
  <2>1. At(i) <= 0
    BY <1>0 DEF At, Slots
  <2> QED
    BY <2>1 DEF Blank
<1>5. \A r \in Readers : ReaderInv(r)
  <2> SUFFICES ASSUME NEW r \in Readers
               PROVE  ReaderInv(r)
    OBVIOUS
  <2>1. rpc[r] = "idle" /\ expected_sn[r] = 1 /\ NextPos(r) = 1
    BY <1>0 DEF NextPos
  <2> QED
    BY <1>0, <2>1, SnEnds DEF ReaderInv
<1>6. PrefixOrWrapped
  <2> SUFFICES ASSUME NEW r \in Readers
               PROVE  /\ Len(got[r]) <= Len(log)
                      /\ \A k \in 1 .. Len(got[r]) : got[r][k] = log[k]
    BY DEF PrefixOrWrapped
  <2> QED
    BY <1>0
<1> QED
  BY <1>1, <1>2, <1>3, <1>4, <1>5, <1>6 DEF IInv

\* Every step of write() keeps the types of the ring and of the writer.
LEMMA WriterType ==
  ASSUME IInv, Writer
  PROVE  TypeOK'
<1> USE RingAssumption DEF IInv, WriteResult, ReadResult
<1>1. ASSUME NEW n \in Sizes, Refuse(n)
      PROVE  TypeOK'
  BY <1>1 DEF TypeOK, Refuse, slotVars, readerVars
<1>2. ASSUME NEW n \in Sizes, Write(n)
      PROVE  TypeOK'
  <2>1. n \in Nat
    OBVIOUS
  <2>2. Len(sent) + 1 \in Nat
    BY DEF TypeOK
  <2>3. \A k \in 1 .. n : <<Len(sent) + 1, k>> \in Byte
    BY <2>1, <2>2 DEF Byte
  <2>4. msg' \in Seq(Byte)
    BY <1>2, <2>1, <2>3, IsASeq DEF Write, Message
  <2>5. sent' \in Seq(Seq(Byte))
    BY <1>2, <2>4, AppendProperties DEF Write, TypeOK
  <2> QED
    BY <1>2, <2>4, <2>5 DEF TypeOK, Write, slotVars, readerVars
<1>3. CASE AssertFails
  BY <1>3 DEF TypeOK, AssertFails, slotVars, readerVars
<1>4. CASE ClearHeader
  <2>1. ToWrite \in 1 .. SlotBytes
    BY <1>4, ToWriteBounds DEF WriterInv, ClearHeader
  <2>2. NoHeader \in SlotHeader
    BY DEF NoHeader, SlotHeader
  <2> QED
    BY <1>4, <2>1, <2>2 DEF TypeOK, ClearHeader, readerVars
<1>5. ASSUME NEW j \in 1 .. SlotBytes, CopyByte(j)
      PROVE  TypeOK'
  <2>1. ToWrite \in 1 .. SlotBytes /\ current_byte + ToWrite <= Len(msg)
    BY <1>5, ToWriteBounds DEF WriterInv, CopyByte
  <2>2. j \in 1 .. ToWrite
    BY <1>5 DEF WriterInv, CopyByte
  <2>3. msg[current_byte + j] \in Byte
    BY <2>1, <2>2, ElementOfSeq DEF TypeOK
  <2>4. data' \in [Slots -> [1 .. SlotBytes -> Byte]]
    BY <1>5, <2>3 DEF TypeOK, CopyByte
  <2> QED
    BY <1>5, <2>4 DEF TypeOK, CopyByte, readerVars
<1>6. CASE StoreHeader
  <2>0. current_byte < Len(msg)
    BY <1>6 DEF StoreHeader, WriterInv
  <2>1. ToWrite \in 1 .. SlotBytes /\ current_byte + ToWrite <= Len(msg)
    BY <2>0, ToWriteBounds
  <2>2. NewHeader \in SlotHeader
    BY <2>1 DEF NewHeader, SlotHeader, TypeOK
  <2>3. current_slot' \in Slots
    BY <1>6, NextSlotType DEF StoreHeader, TypeOK
  <2>4. current_sn' \in 0 .. SnMod - 1
    BY <1>6, SnType, SnNext DEF StoreHeader, WriterInv, TypeOK
  <2>5. log' \in Seq(Seq(Byte))
    BY <1>6, <2>0, FragmentBytes, AppendProperties DEF StoreHeader, TypeOK
  <2> QED
    BY <1>6, <2>1, <2>2, <2>3, <2>4, <2>5 DEF TypeOK, StoreHeader, readerVars
<1> QED
  BY <1>1, <1>2, <1>3, <1>4, <1>5, <1>6 DEF Writer, WriterStep

\* Every step of read_next() keeps the types of the reader.
LEMMA ReaderType ==
  ASSUME IInv, NEW r \in Readers, Reader(r)
  PROVE  TypeOK'
<1> USE RingAssumption DEF IInv, WriteResult, ReadResult
<1>0. ReaderInv(r)
  OBVIOUS
<1>1. CASE ReadNext(r)
  BY <1>1 DEF TypeOK, ReadNext, slotVars, writerVars
<1>2. CASE LoadHeader(r)
  <2> DEFINE now == header[rslot[r]]
             n == AppendSize(now.sz)
  <2>1. now \in SlotHeader
    BY DEF TypeOK
  <2>2. n \in 1 .. SlotBytes
    BY <2>1 DEF SlotHeader, AppendSize
  <2>3. [j \in 1 .. n |-> ZeroByte] \in Seq(Byte)
    BY <2>2, IsASeq DEF Byte, ZeroByte
  <2>4. rdata[r] \o [j \in 1 .. n |-> ZeroByte] \in Seq(Byte)
    BY <2>3, ConcatProperties DEF TypeOK
  <2>5. Verdict(now.sn, expected_sn[r]) \in {"NO_DATA", "LOSS", "copy"}
    BY DEF Verdict
  <2> HIDE DEF n
  <2>6. CASE Verdict(now.sn, expected_sn[r]) = "copy"
    <3>1. rleft' = [rleft EXCEPT ![r] = 1 .. n]
      BY <1>2, <2>6 DEF LoadHeader, n
    <3>2. rdata' = [rdata EXCEPT ![r] = rdata[r] \o [j \in 1 .. n |-> ZeroByte]]
      BY <1>2, <2>6 DEF LoadHeader, n
    <3>3. rdata' \in [Readers -> Seq(Byte)]
      BY <3>2, <2>4 DEF TypeOK
    <3>4. rleft' \in [Readers -> SUBSET (1 .. SlotBytes)]
      BY <3>1, <2>2 DEF TypeOK
    <3> QED
      BY <1>2, <2>1, <2>6, <3>3, <3>4
      DEF TypeOK, LoadHeader, slotVars, writerVars
  <2> HIDE DEF now
  <2>7. CASE Verdict(now.sn, expected_sn[r]) # "copy"
    BY <1>2, <2>1, <2>5, <2>7 DEF TypeOK, LoadHeader, slotVars, writerVars, now
  <2> QED BY <2>6, <2>7
<1>3. ASSUME NEW j \in 1 .. SlotBytes, AppendByte(r, j)
      PROVE  TypeOK'
  <2>1. data[rslot[r]][j] \in Byte
    BY DEF TypeOK
  <2>2. Len(rdata[r]) - AppendSize(h[r].sz) + j = j /\ j \in 1 .. Len(rdata[r])
    BY <1>0, <1>3 DEF ReaderInv, AppendByte, AppendSize, TypeOK, SlotHeader
  <2>3. [rdata[r] EXCEPT ![j] = data[rslot[r]][j]] \in Seq(Byte)
    BY <2>1, <2>2, ExceptSeq DEF TypeOK
  <2>4. rdata' = [rdata EXCEPT ![r] = [rdata[r] EXCEPT ![j] = data[rslot[r]][j]]]
    BY <1>3, <2>2 DEF AppendByte
  <2> QED
    BY <1>3, <2>3, <2>4, ZenonT(30) DEF TypeOK, AppendByte, slotVars, writerVars
<1>4. CASE Recheck(r)
  <2> DEFINE moved == [sn |-> NextSn(w[r].sn), cs |-> NextSlot(w[r].cs)]
  <2>1. w[r].sn + 1 \in Nat
    BY DEF TypeOK
  <2>2. NextSn(w[r].sn) \in 0 .. SnMod - 1
    BY <2>1, ModRange DEF NextSn
  <2>3. NextSlot(w[r].cs) \in Slots
    BY NextSlotType DEF TypeOK
  <2>4. moved \in [sn : 0 .. SnMod - 1, cs : Slots]
    BY <2>2, <2>3
  <2>5. w' \in [Readers -> [sn : 0 .. SnMod - 1, cs : Slots]]
    BY <1>4, <2>4 DEF TypeOK, Recheck
  <2>6. expected_sn' \in [Readers -> 0 .. SnMod - 1]
    BY <1>4, <2>2 DEF TypeOK, Recheck
  <2>7. rslot' \in [Readers -> Slots]
    BY <1>4, <2>3 DEF TypeOK, Recheck
  <2>8. Append(got[r], rdata[r]) \in Seq(Seq(Byte))
    BY AppendProperties DEF TypeOK
  <2>9. got' \in [Readers -> Seq(Seq(Byte))]
    <3>1. got' = got \/ got' = [got EXCEPT ![r] = Append(got[r], rdata[r])]
      BY <1>4 DEF Recheck
    <3>2. got \in [Readers -> Seq(Seq(Byte))]
      BY DEF TypeOK
    <3> QED
      BY <2>8, <3>1, <3>2
  <2>10. /\ rpc' \in [Readers -> {"idle", "header", "copy"}]
         /\ result' \in [Readers -> {"OK", "NO_DATA", "LOSS"}]
    BY <1>4 DEF TypeOK, Recheck
  <2>11. UNCHANGED <<slotVars, writerVars, h, rleft, rdata, sent, log>>
    BY <1>4 DEF Recheck
  <2> QED
    BY <2>5, <2>6, <2>7, <2>9, <2>10, <2>11 DEF TypeOK, slotVars, writerVars
<1> QED
  BY <1>1, <1>2, <1>3, <1>4 DEF Reader

-----------------------------------------------------------------------------
(* The steps of write()                                                     *)

\* What the last step of Slot::update does to the log and to the positions of
\* the slots: the writer's slot holds the new fragment, the others keep theirs.
LEMMA StoreEffect ==
  ASSUME IInv, StoreHeader
  PROVE  /\ Len(log') = Len(log) + 1
         /\ \A p \in 1 .. Len(log) : log'[p] = log[p]
         /\ log'[Len(log) + 1] = Fragment
         /\ \A i \in Slots :
              At(i)' = IF i = current_slot THEN Len(log) + 1 ELSE At(i)
<1> USE RingAssumption
<1>1. TypeOK /\ current_byte < Len(msg)
  BY DEF IInv, WriterInv, StoreHeader
<1>2. Fragment \in Seq(Byte)
  BY <1>1, FragmentBytes
<1>3. log \in Seq(Seq(Byte)) /\ log' = Append(log, Fragment)
  BY <1>1 DEF TypeOK, StoreHeader
<1>4. /\ Len(log') = Len(log) + 1
      /\ \A p \in 1 .. Len(log) : log'[p] = log[p]
      /\ log'[Len(log) + 1] = Fragment
  BY <1>2, <1>3, AppendProperties
<1>5. current_slot' = NextSlot(current_slot) /\ current_slot \in Slots /\ Len(log) \in Nat
  BY <1>1 DEF TypeOK, StoreHeader
<1>6. ASSUME NEW i \in Slots
      PROVE  At(i)' = IF i = current_slot THEN Len(log) + 1 ELSE At(i)
  BY <1>4, <1>5 DEF At, NextSlot, Slots
<1> QED
  BY <1>4, <1>6

\* The loop of write() goes on through the message.
LEMMA WriterKeepsWriterInv ==
  ASSUME IInv, Writer
  PROVE  WriterInv'
<1> USE RingAssumption
<1>0. TypeOK /\ WriterInv
  BY DEF IInv
<1>1. ASSUME NEW n \in Sizes, Refuse(n)
      PROVE  WriterInv'
  BY <1>0, <1>1 DEF WriterInv, Refuse, slotVars, ToWrite
<1>2. ASSUME NEW n \in Sizes, Write(n)
      PROVE  WriterInv'
  <2>1. Len(msg') = n /\ n > 0
    BY <1>2 DEF Write, Message
  <2> QED
    BY <1>0, <1>2, <2>1 DEF WriterInv, Write, slotVars
<1>3. CASE AssertFails
  BY <1>0, <1>3 DEF WriterInv, AssertFails
<1>4. CASE ClearHeader
  BY <1>0, <1>4 DEF WriterInv, ClearHeader, ToWrite
<1>5. ASSUME NEW j \in 1 .. SlotBytes, CopyByte(j)
      PROVE  WriterInv'
  <2>1. ToWrite' = ToWrite /\ UNCHANGED <<msg, current_byte, current_slot, current_sn, wpc, log>>
    BY <1>5 DEF CopyByte, ToWrite
  <2>2. ASSUME NEW k \in (1 .. ToWrite) \ wleft'
        PROVE  data'[current_slot][k] = msg[current_byte + k]
    <3>1. k \in 1 .. SlotBytes /\ wpc = "copy"
      BY <1>0, <1>5, ToWriteBounds DEF WriterInv, CopyByte
    <3>2. data'[current_slot] = [data[current_slot] EXCEPT ![j] = msg[current_byte + j]]
      BY <1>0, <1>5 DEF CopyByte, TypeOK
    <3>3. CASE k = j
      BY <1>0, <3>1, <3>2, <3>3 DEF TypeOK
    <3>4. CASE k # j
      <4>1. k \in (1 .. ToWrite) \ wleft
        BY <1>5, <3>4 DEF CopyByte
      <4> QED
        BY <1>0, <3>1, <3>2, <3>4, <4>1 DEF TypeOK, WriterInv
    <3> QED BY <3>3, <3>4
  <2>3. wleft' \subseteq 1 .. ToWrite
    BY <1>0, <1>5 DEF WriterInv, CopyByte
  <2> QED
    BY <1>0, <2>1, <2>2, <2>3 DEF WriterInv
<1>6. CASE StoreHeader
  <2>0. current_byte < Len(msg) /\ wpc = "copy"
    BY <1>0, <1>6 DEF StoreHeader, WriterInv
  <2>1. ToWrite \in 1 .. SlotBytes /\ current_byte + ToWrite <= Len(msg)
    BY <1>0, <2>0, ToWriteBounds
  <2>2. current_sn' = SnOf(Len(log) + 2)
    BY <1>0, <1>6, SnNext DEF StoreHeader, WriterInv, TypeOK
  <2>3. Len(log') = Len(log) + 1
    BY <1>6, StoreEffect
  <2>4. current_slot' <= Len(log')
    BY <1>0, <1>6, <2>3 DEF StoreHeader, NextSlot, WriterInv, TypeOK, Slots
  <2>5. wpc' # "copy" /\ (wpc' = "clear" => current_byte' < Len(msg'))
    BY <1>0, <1>6, <2>1 DEF StoreHeader, TypeOK
  <2> QED
    BY <1>0, <2>2, <2>3, <2>4, <2>5 DEF WriterInv, TypeOK
<1> QED
  BY <1>1, <1>2, <1>3, <1>4, <1>5, <1>6 DEF Writer, WriterStep

\* write() publishes no empty fragment and none larger than a slot.
LEMMA WriterKeepsLogInv ==
  ASSUME IInv, Writer
  PROVE  LogInv'
<1>0. TypeOK /\ LogInv
  BY DEF IInv
<1>1. CASE StoreHeader
  <2>0. current_byte < Len(msg)
    BY <1>1 DEF StoreHeader, WriterInv, IInv
  <2>1. Len(Fragment) \in 1 .. SlotBytes
    BY <1>0, <2>0, ToWriteBounds, FragmentBytes
  <2>2. Len(log) \in Nat
    BY <1>0 DEF TypeOK
  <2> QED
    BY <1>0, <1>1, <2>1, <2>2, StoreEffect DEF LogInv
<1>2. CASE UNCHANGED log
  BY <1>0, <1>2 DEF LogInv
<1> QED
  BY <1>1, <1>2 DEF Writer, WriterStep, Refuse, Write, AssertFails, ClearHeader, CopyByte

\* The slots keep agreeing with the log: the one being rewritten has no header,
\* and it gets one when its bytes are those of the fragment.
LEMMA WriterKeepsSlotInv ==
  ASSUME IInv, Writer
  PROVE  SlotInv'
<1> USE RingAssumption
<1>0. TypeOK /\ WriterInv /\ SlotInv
  BY DEF IInv
<1> SUFFICES ASSUME NEW i \in Slots
             PROVE  IF Blank(i)'
                      THEN header'[i] = NoHeader
                      ELSE /\ header'[i] = [sn |-> SnOf(At(i)'), sz |-> Len(log'[At(i)'])]
                           /\ \A j \in 1 .. Len(log'[At(i)']) :
                                data'[i][j] = log'[At(i)'][j]
  BY DEF SlotInv, SnOf
<1> DEFINE Holds == IF Blank(i)
                      THEN header[i] = NoHeader
                      ELSE /\ header[i] = [sn |-> SnOf(At(i)), sz |-> Len(log[At(i)])]
                           /\ \A j \in 1 .. Len(log[At(i)]) :
                                data[i][j] = log[At(i)][j]
<1>1. Holds
  BY <1>0 DEF SlotInv
<1>2. CASE /\ UNCHANGED <<header, data, current_slot, log>>
           /\ wpc # "copy" /\ wpc' # "copy"
  <2>1. At(i)' = At(i) /\ Blank(i)' = Blank(i)
    BY <1>2 DEF At, Blank
  <2> QED
    BY <1>1, <1>2, <2>1
<1>3. CASE ClearHeader
  <2>1. At(i)' = At(i) /\ log' = log /\ data' = data /\ wpc = "clear" /\ wpc' = "copy"
    BY <1>3 DEF ClearHeader, At
  <2>2. current_slot' = current_slot
    BY <1>3 DEF ClearHeader
  <2>3. CASE i = current_slot
    <3>1. header'[i] = NoHeader
      BY <1>0, <1>3, <2>3 DEF ClearHeader, TypeOK
    <3>2. Blank(i)'
      BY <2>1, <2>2, <2>3 DEF Blank
    <3> QED BY <3>1, <3>2
  <2>4. CASE i # current_slot
    <3>1. header'[i] = header[i]
      BY <1>0, <1>3, <2>4 DEF ClearHeader, TypeOK
    <3>2. Blank(i)' = Blank(i)
      BY <2>1, <2>2, <2>4 DEF Blank
    <3> QED BY <1>1, <2>1, <3>1, <3>2
  <2> QED BY <2>3, <2>4
<1>4. ASSUME NEW k \in 1 .. SlotBytes, CopyByte(k)
      PROVE  IF Blank(i)'
               THEN header'[i] = NoHeader
               ELSE /\ header'[i] = [sn |-> SnOf(At(i)'), sz |-> Len(log'[At(i)'])]
                    /\ \A j \in 1 .. Len(log'[At(i)']) :
                         data'[i][j] = log'[At(i)'][j]
  <2>1. At(i)' = At(i) /\ Blank(i)' = Blank(i) /\ log' = log /\ header' = header
    BY <1>4 DEF CopyByte, At, Blank
  <2>2. CASE i = current_slot
    <3>1. Blank(i)
      BY <1>4, <2>2 DEF Blank, CopyByte
    <3> QED BY <1>1, <2>1, <3>1
  <2>3. CASE i # current_slot
    <3>1. data'[i] = data[i]
      BY <1>0, <1>4, <2>3 DEF CopyByte, TypeOK
    <3> QED BY <1>1, <2>1, <3>1
  <2> QED BY <2>2, <2>3
<1>5. CASE StoreHeader
  <2>0. current_byte < Len(msg) /\ wpc = "copy" /\ wleft = {} /\ wpc' # "copy" /\ data' = data
    BY <1>0, <1>5 DEF StoreHeader, WriterInv
  <2>1. CASE i = current_slot
    <3>1. At(i)' = Len(log) + 1 /\ log'[At(i)'] = Fragment
      BY <1>5, <2>1, StoreEffect
    <3>2. header'[i] = [sn |-> SnOf(Len(log) + 1), sz |-> ToWrite]
      BY <1>0, <1>5, <2>1 DEF StoreHeader, TypeOK, NewHeader, WriterInv
    <3>3. Len(Fragment) = ToWrite /\ \A j \in 1 .. ToWrite : Fragment[j] = msg[current_byte + j]
      BY <1>0, <2>0, FragmentBytes
    <3>4. \A j \in 1 .. ToWrite : data[i][j] = msg[current_byte + j]
      BY <1>0, <2>0, <2>1 DEF WriterInv
    <3>5. ~Blank(i)'
      BY <1>0, <2>0, <3>1 DEF Blank, TypeOK
    <3> QED BY <2>0, <3>1, <3>2, <3>3, <3>4, <3>5
  <2>2. CASE i # current_slot
    <3>1. At(i)' = At(i)
      BY <1>5, <2>2, StoreEffect
    <3>2. header'[i] = header[i]
      BY <1>0, <1>5, <2>2 DEF StoreHeader, TypeOK
    <3>3. Blank(i)' = Blank(i)
      BY <2>0, <2>2, <3>1 DEF Blank
    <3>4. ~Blank(i) => At(i) \in 1 .. Len(log)
      BY <1>0, AtBounds DEF Blank, TypeOK
    <3>5. ~Blank(i) => log'[At(i)] = log[At(i)]
      BY <1>5, <3>4, StoreEffect
    <3> QED BY <1>1, <2>0, <3>1, <3>2, <3>3, <3>5
  <2> QED BY <2>1, <2>2
<1> QED
  BY <1>2, <1>3, <1>4, <1>5
  DEF Writer, WriterStep, Refuse, Write, AssertFails, slotVars

\* A step of write() leaves every reader's half-done copy consistent: zeroing
\* the header, or moving on, is what tells the reader.
LEMMA WriterKeepsReaderInv ==
  ASSUME IInv, Writer, NEW r \in Readers
  PROVE  ReaderInv(r)'
<1> USE RingAssumption
<1>0. TypeOK /\ WriterInv /\ ReaderInv(r)
  BY DEF IInv
<1>1. UNCHANGED <<readerVars, got>>
  BY DEF Writer, WriterStep, Refuse, Write, AssertFails, ClearHeader, CopyByte, StoreHeader
<1>2. /\ Len(log) \in Nat /\ Len(got[r]) \in Nat /\ NextPos(r) \in Nat \ {0}
      /\ NextPos(r)' = NextPos(r) /\ rslot[r] \in Slots
  BY <1>0, <1>1 DEF TypeOK, NextPos
<1>3. ASSUME Len(log') >= Len(log), rpc[r] = "copy" /\ CopyInv(r) => CopyInv(r)'
      PROVE  ReaderInv(r)'
  <2>1. Len(got[r]) <= Len(log')
    BY <1>0, <1>2, <1>3 DEF ReaderInv, TypeOK
  <2> QED
    BY <1>0, <1>1, <1>2, <1>3, <2>1 DEF ReaderInv, readerVars, SnOf
<1>4. CASE UNCHANGED <<header, current_slot, log>>
  <2>1. At(rslot[r])' = At(rslot[r]) /\ Lag(r)' = Lag(r)
    BY <1>1, <1>4 DEF At, Lag, readerVars
  <2>2. CopyInv(r)' = CopyInv(r)
    BY <1>1, <1>2, <1>4, <2>1 DEF CopyInv, readerVars
  <2> QED BY <1>2, <1>3, <1>4, <2>2
<1>5. CASE ClearHeader
  <2>1. At(rslot[r])' = At(rslot[r]) /\ Lag(r)' = Lag(r) /\ log' = log
    BY <1>1, <1>5 DEF At, Lag, readerVars, ClearHeader
  <2>2. header'[rslot[r]] = header[rslot[r]] \/ header'[rslot[r]].sn = 0
    BY <1>0, <1>2, <1>5 DEF ClearHeader, TypeOK, NoHeader
  <2>3. CopyInv(r) => CopyInv(r)'
    BY <1>1, <1>2, <2>1, <2>2 DEF CopyInv, readerVars
  <2> QED BY <1>2, <1>3, <2>1, <2>3
<1>6. CASE StoreHeader
  <2>1. Len(log') = Len(log) + 1
    BY <1>6, StoreEffect
  <2>2. Lag(r) >= SnMod => (Lag(r) >= SnMod)'
    BY <1>1, <1>2, <2>1 DEF Lag
  <2>3. ASSUME CopyInv(r), ~(Lag(r) >= SnMod)
        PROVE  CopyInv(r)'
    <3>1. NextPos(r) \in 1 .. Len(log) /\ log'[NextPos(r)] = log[NextPos(r)]
      BY <1>2, <1>6, <2>3, StoreEffect DEF CopyInv
    <3>2. CASE rslot[r] = current_slot
      <4>1. At(rslot[r])' = Len(log) + 1
        BY <1>1, <1>2, <1>6, <3>2, StoreEffect DEF readerVars, At
      <4> QED
        BY <1>1, <1>2, <2>1, <2>3, <3>1, <4>1 DEF CopyInv, readerVars
    <3>3. CASE rslot[r] # current_slot
      <4>1. At(rslot[r])' = At(rslot[r])
        BY <1>1, <1>2, <1>6, <3>3, StoreEffect DEF readerVars, At
      <4>2. header'[rslot[r]] = header[rslot[r]]
        BY <1>0, <1>2, <1>6, <3>3 DEF StoreHeader, TypeOK
      <4> QED
        BY <1>1, <1>2, <2>1, <2>3, <3>1, <4>1, <4>2 DEF CopyInv, readerVars
    <3> QED BY <3>2, <3>3
  <2>4. CopyInv(r) => CopyInv(r)'
    BY <2>2, <2>3 DEF CopyInv
  <2> QED BY <1>2, <1>3, <2>1, <2>4
<1> QED
  BY <1>4, <1>5, <1>6
  DEF Writer, WriterStep, Refuse, Write, AssertFails, CopyByte, slotVars

\* A step of write() only makes the log longer.
LEMMA WriterKeepsPrefix ==
  ASSUME IInv, Writer
  PROVE  PrefixOrWrapped'
<1>0. TypeOK /\ PrefixOrWrapped
  BY DEF IInv
<1> SUFFICES ASSUME NEW r \in Readers
             PROVE  \/ /\ Len(got'[r]) <= Len(log')
                       /\ \A k \in 1 .. Len(got'[r]) : got'[r][k] = log'[k]
                    \/ Len(log') - Len(got'[r]) >= SnMod
  BY DEF PrefixOrWrapped, Lag
<1>1. Len(log) \in Nat /\ Len(got[r]) \in Nat /\ SnMod \in Nat
  BY <1>0, RingAssumption DEF TypeOK
<1>2. got' = got
  BY DEF Writer, WriterStep, Refuse, Write, AssertFails, ClearHeader, CopyByte, StoreHeader
<1>3. CASE log' = log
  BY <1>0, <1>2, <1>3 DEF PrefixOrWrapped, Lag
<1>4. CASE StoreHeader
  <2>1. Len(log') = Len(log) + 1 /\ \A p \in 1 .. Len(log) : log'[p] = log[p]
    BY <1>4, StoreEffect
  <2> QED
    BY <1>0, <1>1, <1>2, <2>1 DEF PrefixOrWrapped, Lag
<1> QED
  BY <1>3, <1>4 DEF Writer, WriterStep, Refuse, Write, AssertFails, ClearHeader, CopyByte

-----------------------------------------------------------------------------
(* The steps of read_next()                                                 *)

\* A slot whose header has a sequence number holds the fragment of its position.
LEMMA SlotHolds ==
  ASSUME SlotInv, NEW i \in Slots, header[i].sn # 0
  PROVE  /\ ~Blank(i)
         /\ header[i].sn = SnOf(At(i)) /\ header[i].sz = Len(log[At(i)])
         /\ \A j \in 1 .. Len(log[At(i)]) : data[i][j] = log[At(i)][j]
<1>1. /\ Blank(i) => header[i] = NoHeader
      /\ ~Blank(i) => /\ header[i] = [sn |-> SnOf(At(i)), sz |-> Len(log[At(i)])]
                      /\ \A j \in 1 .. Len(log[At(i)]) : data[i][j] = log[At(i)][j]
  BY DEF SlotInv
<1>2. ~Blank(i)
  BY <1>1 DEF NoHeader
<1> QED
  BY <1>1, <1>2

\* What a header with the expected sequence number tells the reader: its slot
\* holds the fragment it waits for, or one a full cycle later.
LEMMA SnMatch ==
  ASSUME IInv, NEW r \in Readers,
         header[rslot[r]].sn = expected_sn[r], expected_sn[r] # 0
  PROVE  /\ At(rslot[r]) \in 1 .. Len(log)
         /\ header[rslot[r]].sz = Len(log[At(rslot[r])])
         /\ header[rslot[r]].sz \in 1 .. SlotBytes
         /\ \A j \in 1 .. Len(log[At(rslot[r])]) :
              data[rslot[r]][j] = log[At(rslot[r])][j]
         /\ Len(log) < At(rslot[r]) + NSlots
         /\ ~Blank(rslot[r])
         /\ \/ At(rslot[r]) = NextPos(r) /\ ~(Lag(r) >= SnMod)
            \/ At(rslot[r]) >= NextPos(r) + SnMod
<1> USE RingAssumption
<1> DEFINE i == rslot[r]
           p == At(i)
<1>0. TypeOK /\ WriterInv /\ SlotInv /\ LogInv /\ ReaderInv(r)
  BY DEF IInv
<1>1. i \in Slots /\ Len(log) \in Nat /\ Len(got[r]) \in Nat
  BY <1>0 DEF TypeOK
<1> HIDE DEF i
<1>2. /\ ~Blank(i)
      /\ header[i].sn = SnOf(p) /\ header[i].sz = Len(log[p])
      /\ \A j \in 1 .. Len(log[p]) : data[i][j] = log[p][j]
  BY <1>0, <1>1, SlotHolds DEF i
<1>3. p \in Int /\ p <= Len(log) /\ Len(log) < p + NSlots
  BY <1>0, <1>1, AtBounds
<1>4. p \in 1 .. Len(log)
  BY <1>1, <1>2, <1>3 DEF Blank
<1>5. /\ header[i].sn = SnOf(p)
      /\ header[i].sz = Len(log[p])
      /\ \A j \in 1 .. Len(log[p]) : data[i][j] = log[p][j]
  BY <1>2
<1>6. header[i].sz \in 1 .. SlotBytes
  BY <1>0, <1>4, <1>5 DEF LogInv
<1>7. SnOf(p) = SnOf(NextPos(r)) /\ NextPos(r) \in Nat /\ NextPos(r) <= Len(log) + 1
  BY <1>0, <1>1, <1>5 DEF ReaderInv, NextPos, i
<1> HIDE DEF p
<1>8. CASE p < NextPos(r)
  <2>1. NextPos(r) >= p + SnMod
    BY <1>4, <1>7, <1>8, SnGap
  <2> QED
    BY <2>1, <1>1, <1>3, <1>7
<1>9. CASE p = NextPos(r)
  BY <1>1, <1>2, <1>3, <1>4, <1>5, <1>6, <1>9 DEF NextPos, Lag, p, i
<1>10. CASE p > NextPos(r)
  <2>1. p >= NextPos(r) + SnMod
    BY <1>4, <1>7, <1>10, SnGap
  <2> QED
    BY <2>1, <1>2, <1>3, <1>4, <1>5, <1>6 DEF p, i
<1>11. p < NextPos(r) \/ p = NextPos(r) \/ p > NextPos(r)
  BY <1>3, <1>7
<1> QED
  BY <1>8, <1>9, <1>10, <1>11

\* The parts of the invariant a reader does not touch.
LEMMA ReaderKeepsWriterParts ==
  ASSUME IInv, NEW r \in Readers, Reader(r)
  PROVE  WriterInv' /\ LogInv' /\ SlotInv'
<1>1. UNCHANGED <<slotVars, writerVars, log>>
  BY DEF Reader, ReadNext, LoadHeader, AppendByte, Recheck
<1>2. WriterInv /\ LogInv /\ SlotInv
  BY DEF IInv
<1>3. WriterInv' /\ LogInv'
  BY <1>1, <1>2 DEF WriterInv, LogInv, slotVars, writerVars, ToWrite, SnOf
<1>4. \A i : At(i)' = At(i) /\ Blank(i)' = Blank(i)
  BY <1>1 DEF At, Blank, writerVars
<1>5. SlotInv'
  BY <1>1, <1>2, <1>4 DEF SlotInv, slotVars, SnOf
<1> QED
  BY <1>3, <1>5

\* Readers share nothing: a step of one leaves the others as they are.
LEMMA ReaderKeepsOthers ==
  ASSUME IInv, NEW r \in Readers, Reader(r), NEW q \in Readers \ {r}
  PROVE  ReaderInv(q)' /\ got'[q] = got[q]
<1>0. TypeOK /\ ReaderInv(q)
  BY DEF IInv
<1>1. UNCHANGED <<slotVars, writerVars, log>>
  BY DEF Reader, ReadNext, LoadHeader, AppendByte, Recheck
<1> DEFINE Same ==
      /\ rpc'[q] = rpc[q] /\ expected_sn'[q] = expected_sn[q] /\ rslot'[q] = rslot[q]
      /\ w'[q] = w[q] /\ h'[q] = h[q] /\ rleft'[q] = rleft[q]
      /\ rdata'[q] = rdata[q] /\ got'[q] = got[q]
<1>2. Same
  <2>1. CASE ReadNext(r)
    BY <1>0, <2>1 DEF ReadNext, TypeOK
  <2>2. CASE LoadHeader(r)
    BY <1>0, <2>2 DEF LoadHeader, TypeOK
  <2>3. ASSUME NEW j \in 1 .. SlotBytes, AppendByte(r, j)
        PROVE  Same
    BY <1>0, <2>3 DEF AppendByte, TypeOK
  <2>4. CASE Recheck(r)
    BY <1>0, <2>4 DEF Recheck, TypeOK
  <2> QED BY <2>1, <2>2, <2>3, <2>4 DEF Reader
<1>3. /\ At(rslot[q])' = At(rslot[q]) /\ Lag(q)' = Lag(q) /\ NextPos(q)' = NextPos(q)
  BY <1>1, <1>2 DEF At, Lag, NextPos, writerVars
<1>4. CopyInv(q)' = CopyInv(q)
  BY <1>1, <1>2, <1>3 DEF CopyInv, slotVars
<1> QED
  BY <1>0, <1>1, <1>2, <1>3, <1>4 DEF ReaderInv, SnOf

\* read_next() returns OK: it hands over the fragment the reader waits for, out
\* of a slot that still holds it - unless the writer is a full cycle ahead.
LEMMA Delivery ==
  ASSUME IInv, NEW r \in Readers, Recheck(r), SameSlot(h[r], header[rslot[r]])
  PROVE  /\ header[rslot[r]].sz # 0
         /\ got' = [got EXCEPT ![r] = Append(got[r], rdata[r])]
         /\ expected_sn[r] # 0
         /\ \/ /\ rdata[r] = log[NextPos(r)]
               /\ NextPos(r) <= Len(log)
               /\ Len(log) < NextPos(r) + NSlots
               /\ At(rslot[r]) = NextPos(r)
               /\ ~Blank(rslot[r])
               /\ ~(Lag(r) >= SnMod)
            \/ Len(log) >= NextPos(r) + SnMod
<1> USE RingAssumption
<1>0. TypeOK /\ ReaderInv(r)
  BY DEF IInv
<1>1. /\ rpc[r] = "copy" /\ rleft[r] = {}
      /\ h[r].sn = expected_sn[r] /\ h[r].sn # 0
      /\ h[r].sz # 0 /\ Len(rdata[r]) = h[r].sz /\ CopyInv(r)
  BY <1>0 DEF Recheck, ReaderInv
<1>2. header[rslot[r]].sn = expected_sn[r] /\ expected_sn[r] # 0
  BY <1>1 DEF SameSlot
<1>3. /\ Len(log) \in Nat /\ NextPos(r) \in Nat /\ rdata[r] \in Seq(Byte)
      /\ log \in Seq(Seq(Byte))
  BY <1>0 DEF TypeOK, NextPos
<1>4. header[rslot[r]].sz # 0
  BY <1>2, SnMatch
<1>5. got' = [got EXCEPT ![r] = Append(got[r], rdata[r])]
  BY <1>4 DEF Recheck
<1>6. CASE At(rslot[r]) >= NextPos(r) + SnMod
  <2>1. At(rslot[r]) \in 1 .. Len(log)
    BY <1>2, SnMatch
  <2> QED
    BY <1>2, <1>3, <1>4, <1>5, <1>6, <2>1
<1>7. CASE At(rslot[r]) = NextPos(r) /\ ~(Lag(r) >= SnMod)
  <2>1. NextPos(r) \in 1 .. Len(log) /\ Len(log) < NextPos(r) + NSlots /\ ~Blank(rslot[r])
    BY <1>2, <1>7, SnMatch
  <2>2. log[NextPos(r)] \in Seq(Byte)
    BY <1>3, <2>1, ElementOfSeq
  <2>3. Len(log[NextPos(r)]) = Len(rdata[r])
    BY <1>1, <1>7 DEF CopyInv
  <2>4. \A j \in 1 .. Len(rdata[r]) : rdata[r][j] = log[NextPos(r)][j]
    BY <1>1, <1>2, <1>7 DEF CopyInv
  <2>5. rdata[r] = log[NextPos(r)]
    BY <1>3, <2>2, <2>3, <2>4, SeqEqual
  <2> QED
    BY <1>2, <1>3, <1>4, <1>5, <1>7, <2>1, <2>5
<1> QED
  BY <1>2, <1>6, <1>7, SnMatch

\* A step of read_next() keeps the reader's own part of the invariant.
LEMMA ReaderKeepsOwn ==
  ASSUME IInv, NEW r \in Readers, Reader(r)
  PROVE  ReaderInv(r)'
<1> USE RingAssumption
<1>0. TypeOK /\ ReaderInv(r)
  BY DEF IInv
<1>1. UNCHANGED <<slotVars, writerVars, log>>
  BY DEF Reader, ReadNext, LoadHeader, AppendByte, Recheck
<1>2. /\ Len(log) \in Nat /\ Len(got[r]) \in Nat /\ rslot[r] \in Slots
      /\ header[rslot[r]] \in SlotHeader
  BY <1>0 DEF TypeOK
<1>3. CASE ReadNext(r)
  <2>1. NextPos(r)' = NextPos(r) /\ rpc'[r] = "header" /\ rdata'[r] = <<>>
    BY <1>0, <1>3 DEF ReadNext, NextPos, TypeOK
  <2>2. w'[r] = [sn |-> expected_sn[r], cs |-> rslot[r]]
    BY <1>0, <1>3 DEF ReadNext, TypeOK
  <2>3. Len(rdata'[r]) <= SlotBytes
    BY <2>1
  <2> QED
    BY <1>0, <1>1, <1>3, <2>1, <2>2, <2>3 DEF ReadNext, ReaderInv, SnOf
<1>4. CASE LoadHeader(r)
  <2> DEFINE now == header[rslot[r]]
             n == AppendSize(now.sz)
  <2>0. NextPos(r)' = NextPos(r) /\ UNCHANGED <<expected_sn, rslot, w, got>>
    BY <1>4 DEF LoadHeader, NextPos
  <2>1. CASE Verdict(now.sn, expected_sn[r]) # "copy"
    <3>1. rpc'[r] = "idle" /\ rdata' = rdata
      BY <1>0, <1>4, <2>1 DEF LoadHeader, TypeOK
    <3> QED
      BY <1>0, <1>1, <2>0, <3>1 DEF ReaderInv, SnOf
  <2>2. CASE Verdict(now.sn, expected_sn[r]) = "copy"
    <3>1. now.sn = expected_sn[r] /\ expected_sn[r] # 0
      BY <2>2 DEF Verdict
    <3>2. n = now.sz /\ now.sz \in 1 .. SlotBytes
      BY <3>1, SnMatch DEF AppendSize
    <3>3. /\ rpc'[r] = "copy" /\ h'[r] = now /\ rleft'[r] = 1 .. n
          /\ rdata'[r] = rdata[r] \o [j \in 1 .. n |-> ZeroByte]
      BY <1>0, <1>4, <2>2 DEF LoadHeader, TypeOK
    <3>4. rdata[r] = <<>> /\ w[r] = [sn |-> expected_sn[r], cs |-> rslot[r]]
      BY <1>0, <1>4 DEF LoadHeader, ReaderInv
    <3>5. [j \in 1 .. n |-> ZeroByte] \in Seq(Byte) /\ Len([j \in 1 .. n |-> ZeroByte]) = n
      BY <3>2, IsASeq DEF Byte, ZeroByte
    <3>6. Len(rdata'[r]) = now.sz
      BY <3>2, <3>3, <3>4, <3>5, ConcatProperties
    <3>7. CopyInv(r)'
      <4>1. At(rslot[r])' = At(rslot[r]) /\ (Lag(r) >= SnMod)' = (Lag(r) >= SnMod)
        BY <1>1, <2>0 DEF At, Lag, writerVars
      <4>2. CASE At(rslot[r]) >= NextPos(r) + SnMod
        <5>1. Lag(r) >= SnMod
          BY <1>2, <3>1, <4>2, SnMatch DEF Lag, NextPos
        <5> QED
          BY <4>1, <5>1 DEF CopyInv
      <4>3. CASE At(rslot[r]) = NextPos(r)
        <5>1. NextPos(r) <= Len(log) /\ now.sz = Len(log[NextPos(r)])
          BY <1>2, <3>1, <4>3, SnMatch
        <5>2. (1 .. now.sz) \ rleft'[r] = {}
          BY <3>2, <3>3
        <5>3. h'[r].sz = now.sz /\ NextPos(r) <= NextPos(r)
          BY <1>2, <3>3 DEF NextPos
        <5> QED
          BY <1>1, <2>0, <4>1, <4>3, <5>1, <5>2, <5>3 DEF CopyInv
      <4> QED
        BY <3>1, <4>2, <4>3, SnMatch
    <3>8. /\ h'[r].sn = expected_sn[r] /\ h'[r].sn # 0 /\ h'[r].sz = now.sz
          /\ h'[r].sz # 0 /\ rleft'[r] \subseteq 1 .. h'[r].sz
      BY <3>1, <3>2, <3>3
    <3>9. Len(rdata'[r]) <= SlotBytes
      BY <3>2, <3>6
    <3> QED
      BY <1>0, <1>1, <2>0, <3>3, <3>4, <3>6, <3>7, <3>8, <3>9 DEF ReaderInv, SnOf
  <2> QED BY <2>1, <2>2
<1>5. ASSUME NEW j \in 1 .. SlotBytes, AppendByte(r, j)
      PROVE  ReaderInv(r)'
  <2>0. /\ NextPos(r)' = NextPos(r) /\ UNCHANGED <<rpc, expected_sn, rslot, w, h, got>>
        /\ rpc[r] = "copy" /\ j \in rleft[r]
    BY <1>5 DEF AppendByte, NextPos
  <2>1. /\ h[r].sz # 0 /\ Len(rdata[r]) = h[r].sz /\ rleft[r] \subseteq 1 .. h[r].sz
        /\ h[r].sz \in Nat /\ CopyInv(r)
    BY <1>0, <2>0 DEF ReaderInv, TypeOK, SlotHeader
  <2>2. Len(rdata[r]) - AppendSize(h[r].sz) + j = j
    BY <2>1 DEF AppendSize
  <2>3. rdata'[r] = [rdata[r] EXCEPT ![j] = data[rslot[r]][j]]
    BY <1>0, <1>5, <2>2 DEF AppendByte, TypeOK
  <2>4. /\ Len(rdata'[r]) = Len(rdata[r])
        /\ rdata'[r][j] = data[rslot[r]][j]
        /\ \A k \in (1 .. h[r].sz) \ {j} : rdata'[r][k] = rdata[r][k]
    BY <1>0, <2>0, <2>1, <2>3, ExceptSeq DEF TypeOK
  <2>5. rleft'[r] = rleft[r] \ {j}
    BY <1>0, <1>5 DEF AppendByte, TypeOK
  <2>6. CopyInv(r)'
    <3>1. At(rslot[r])' = At(rslot[r]) /\ (Lag(r) >= SnMod)' = (Lag(r) >= SnMod)
      BY <1>1, <2>0 DEF At, Lag, writerVars
    <3>2. ASSUME At(rslot[r]) = NextPos(r), header[rslot[r]].sn # 0
          PROVE  data[rslot[r]][j] = log[NextPos(r)][j] \/ ~(h[r].sz = Len(log[NextPos(r)]))
      <4>1. \A k \in 1 .. Len(log[NextPos(r)]) : data[rslot[r]][k] = log[NextPos(r)][k]
        BY <1>2, <3>2, SlotHolds DEF IInv
      <4> QED BY <2>0, <2>1, <4>1
    <3> QED
      BY <1>1, <2>0, <2>1, <2>4, <2>5, <3>1, <3>2 DEF CopyInv, slotVars
  <2> QED
    BY <1>0, <1>1, <2>0, <2>1, <2>4, <2>5, <2>6 DEF ReaderInv, SnOf
<1>6. CASE Recheck(r)
  <2>0. /\ rdata' = rdata /\ rpc[r] = "copy" /\ w[r] = [sn |-> expected_sn[r], cs |-> rslot[r]]
        /\ expected_sn[r] # 0
    BY <1>0, <1>6 DEF Recheck, ReaderInv
  <2>1. CASE ~SameSlot(h[r], header[rslot[r]])
    <3>1. rpc'[r] = "idle" /\ UNCHANGED <<expected_sn, rslot, got>>
      BY <1>0, <1>6, <2>1 DEF Recheck, TypeOK
    <3> QED
      BY <1>0, <1>1, <2>0, <3>1 DEF ReaderInv, NextPos, SnOf
  <2>2. CASE SameSlot(h[r], header[rslot[r]])
    <3>1. /\ header[rslot[r]].sz # 0
          /\ got' = [got EXCEPT ![r] = Append(got[r], rdata[r])]
          /\ NextPos(r) <= Len(log)
      BY <1>2, <1>6, <2>2, Delivery DEF NextPos
    <3>2. rpc'[r] = "idle" /\ expected_sn'[r] = NextSn(expected_sn[r])
      BY <1>0, <1>6, <2>0, <2>2, <3>1 DEF Recheck, TypeOK
    <3>3. Len(got'[r]) = Len(got[r]) + 1
      BY <1>0, <3>1, AppendProperties DEF TypeOK
    <3>4. expected_sn'[r] = SnOf(NextPos(r) + 1) /\ NextPos(r)' = NextPos(r) + 1
      BY <1>0, <1>2, <3>2, <3>3, SnNext DEF ReaderInv, NextPos
    <3>5. Len(got'[r]) < SnMod
      <4>1. NextPos(r) # SnMod
        BY <1>0, <2>0, SnEnds DEF ReaderInv
      <4> QED
        BY <1>0, <1>2, <3>3, <4>1 DEF ReaderInv, NextPos
    <3>6. Len(got'[r]) <= Len(log)
      BY <1>2, <3>1, <3>3 DEF NextPos
    <3> QED
      BY <1>0, <1>1, <2>0, <3>2, <3>4, <3>5, <3>6 DEF ReaderInv, SnOf
  <2> QED BY <2>1, <2>2
<1> QED
  BY <1>3, <1>4, <1>5, <1>6 DEF Reader

\* What read_next() hands over continues the prefix.
LEMMA ReaderKeepsPrefix ==
  ASSUME IInv, NEW r \in Readers, Reader(r)
  PROVE  PrefixOrWrapped'
<1> USE RingAssumption
<1>0. TypeOK /\ PrefixOrWrapped
  BY DEF IInv
<1>1. log' = log
  BY DEF Reader, ReadNext, LoadHeader, AppendByte, Recheck
<1> SUFFICES ASSUME NEW q \in Readers
             PROVE  \/ /\ Len(got'[q]) <= Len(log)
                       /\ \A k \in 1 .. Len(got'[q]) : got'[q][k] = log[k]
                    \/ Len(log) - Len(got'[q]) >= SnMod
  BY <1>1 DEF PrefixOrWrapped, Lag
<1>2. /\ Len(log) \in Nat /\ Len(got[q]) \in Nat
      /\ got[q] \in Seq(Seq(Byte)) /\ rdata[q] \in Seq(Byte)
  BY <1>0 DEF TypeOK
<1>3. CASE got'[q] = got[q]
  BY <1>0, <1>3 DEF PrefixOrWrapped, Lag
<1>4. CASE q = r /\ Recheck(r) /\ SameSlot(h[r], header[rslot[r]])
  <2>1. got'[q] = Append(got[q], rdata[q])
    BY <1>0, <1>4, Delivery DEF TypeOK
  <2>2. /\ Len(got'[q]) = Len(got[q]) + 1
        /\ \A k \in 1 .. Len(got[q]) : got'[q][k] = got[q][k]
        /\ got'[q][Len(got[q]) + 1] = rdata[q]
    BY <1>2, <2>1, AppendProperties
  <2>3. CASE Len(log) >= NextPos(r) + SnMod
    <3> DEFINE n == Len(got'[q])
    <3>1. NextPos(r) = n
      BY <1>4, <2>2 DEF NextPos
    <3>2. n \in Nat /\ SnMod \in Nat /\ Len(log) >= n + SnMod
      BY <1>2, <2>2, <2>3, <3>1
    <3> HIDE DEF n
    <3>3. Len(log) - n >= SnMod
      BY <1>2, <3>2
    <3> QED BY <3>3 DEF n
  <2>4. CASE rdata[r] = log[NextPos(r)] /\ NextPos(r) <= Len(log) /\ ~(Lag(r) >= SnMod)
    <3>1. \A k \in 1 .. Len(got[q]) : got[q][k] = log[k]
      BY <1>0, <1>4, <2>4 DEF PrefixOrWrapped
    <3>2. ASSUME NEW k \in 1 .. Len(got'[q])
          PROVE  got'[q][k] = log[k]
      <4>1. k \in 1 .. Len(got[q]) \/ k = Len(got[q]) + 1
        BY <1>2, <2>2
      <4> QED
        BY <1>4, <2>2, <2>4, <3>1, <4>1 DEF NextPos
    <3> QED
      BY <1>2, <1>4, <2>2, <2>4, <3>2 DEF NextPos
  <2> QED
    BY <1>4, <2>3, <2>4, Delivery
<1>5. got'[q] = got[q] \/ (q = r /\ Recheck(r) /\ SameSlot(h[r], header[rslot[r]]))
  <2>1. CASE q # r
    BY <2>1, ReaderKeepsOthers
  <2>2. CASE q = r
    BY <2>2 DEF Reader, ReadNext, LoadHeader, AppendByte, Recheck
  <2> QED BY <2>1, <2>2
<1> QED
  BY <1>3, <1>4, <1>5

-----------------------------------------------------------------------------
(* The theorems                                                             *)

\* The invariant depends on the variables alone.
LEMMA StutterIInv ==
  ASSUME IInv, UNCHANGED vars
  PROVE  IInv'
<1>1. UNCHANGED <<header, data, wpc, msg, current_byte, wleft, current_slot,
                  current_sn, wres, rpc, expected_sn, rslot, w, h, rleft,
                  result, rdata, sent, log, got>>
  BY DEF vars, slotVars, writerVars, readerVars
<1>2. TypeOK'
  BY <1>1 DEF IInv, TypeOK
<1>3. WriterInv' /\ LogInv' /\ PrefixOrWrapped'
  BY <1>1 DEF IInv, WriterInv, LogInv, PrefixOrWrapped, Lag, ToWrite, SnOf
<1>4. \A i : At(i)' = At(i) /\ Blank(i)' = Blank(i)
  BY <1>1 DEF At, Blank
<1>5. SlotInv'
  BY <1>1, <1>4 DEF IInv, SlotInv, SnOf
<1>6. ASSUME NEW r \in Readers
      PROVE  ReaderInv(r)'
  <2>1. CopyInv(r)' = CopyInv(r)
    BY <1>1 DEF CopyInv, Lag, NextPos, At
  <2> QED
    BY <1>1, <2>1 DEF IInv, ReaderInv, NextPos, SnOf
<1> QED
  BY <1>2, <1>3, <1>5, <1>6 DEF IInv

\* Every step of write() and of read_next(), in any interleaving, keeps the
\* invariant.
LEMMA NextIInv == IInv /\ [Next]_vars => IInv'
<1> SUFFICES ASSUME IInv, [Next]_vars
             PROVE  IInv'
  OBVIOUS
<1>1. CASE Writer
  BY <1>1, WriterType, WriterKeepsWriterInv, WriterKeepsLogInv,
     WriterKeepsSlotInv, WriterKeepsReaderInv, WriterKeepsPrefix DEF IInv
<1>2. ASSUME NEW r \in Readers, Reader(r)
      PROVE  IInv'
  <2>1. \A q \in Readers : ReaderInv(q)'
    BY <1>2, ReaderKeepsOwn, ReaderKeepsOthers
  <2> QED
    BY <1>2, <2>1, ReaderType, ReaderKeepsWriterParts, ReaderKeepsPrefix DEF IInv
<1>3. CASE UNCHANGED vars
  BY <1>3, StutterIInv
<1> QED
  BY <1>1, <1>2, <1>3 DEF Next

\* The ring, its slots, the half-done copies and the results stay consistent
\* with the log of published fragments, for any number of readers and slots.
THEOREM Invariance == Spec => []IInv
BY InitIInv, NextIInv, PTL DEF Spec

\* The variables keep the types of the C++ declarations.
THEOREM TypeCorrect == Spec => []TypeOK
BY Invariance, PTL DEF IInv

\* No torn, skipped, repeated or reordered data: what read_next() returns with
\* OK is a prefix of what write() published, unless the reader is 2^32 behind.
THEOREM NoTornRead == Spec => []PrefixOrWrapped
BY Invariance, PTL DEF IInv

\* No reader ever gets more than 2^32 - 1 fragments.
THEOREM WrapStalls == Spec => []StallsAtWrap
<1>1. IInv => StallsAtWrap
  BY DEF IInv, ReaderInv, StallsAtWrap
<1> QED
  BY <1>1, Invariance, PTL

\* read_next() never appends two slots to one result.
THEOREM SingleSlot == Spec => []OneSlotPerRead
<1>1. IInv => OneSlotPerRead
  BY DEF IInv, ReaderInv, OneSlotPerRead
<1> QED
  BY <1>1, Invariance, PTL

\* A reader whose slot the writer has taken, or reused, gets no OK any more:
\* zeroing the header first and storing it last is enough.
THEOREM NoLappedDelivery == Spec => LappedNeverDelivers
<1>1. ASSUME IInv, [Next]_vars, NEW r \in Readers, Lapped(r), Lag(r) <= SnMod
      PROVE  got'[r] = got[r]
  <2>0. TypeOK /\ WriterInv
    BY <1>1 DEF IInv
  <2>1. ASSUME Recheck(r), SameSlot(h[r], header[rslot[r]])
        PROVE  FALSE
    <3>1. /\ Len(log) \in Nat /\ Len(got[r]) \in Nat /\ NSlots \in Nat /\ SnMod \in Nat
          /\ rslot[r] \in Slots /\ current_slot \in Slots
      BY <2>0, RingAssumption DEF TypeOK
    <3>2. CASE Len(log) >= NextPos(r) + SnMod
      BY <1>1, <3>1, <3>2 DEF Lag, NextPos
    <3>3. CASE /\ Len(log) < NextPos(r) + NSlots
               /\ At(rslot[r]) = NextPos(r)
               /\ ~Blank(rslot[r])
      <4>1. NextPos(r) + NSlots = Len(log) + 1 /\ wpc = "copy"
        BY <1>1, <3>1, <3>3 DEF Lapped, Overwritten, NextPos
      <4>2. rslot[r] = current_slot
        BY <3>1, <3>3, <4>1 DEF At, Slots
      <4> QED
        BY <3>3, <4>1, <4>2 DEF Blank
    <3> QED
      BY <1>1, <2>1, <3>2, <3>3, Delivery
  <2>2. CASE Writer
    BY <2>2 DEF Writer, WriterStep, Refuse, Write, AssertFails, ClearHeader,
                CopyByte, StoreHeader
  <2>3. ASSUME NEW q \in Readers, Reader(q)
        PROVE  got'[r] = got[r]
    <3>1. CASE q # r
      BY <1>1, <2>3, <3>1, ReaderKeepsOthers
    <3>2. CASE q = r
      BY <2>1, <2>3, <3>2 DEF Reader, ReadNext, LoadHeader, AppendByte, Recheck
    <3> QED BY <3>1, <3>2
  <2>4. CASE UNCHANGED vars
    BY <2>4 DEF vars
  <2> QED
    BY <1>1, <2>2, <2>3, <2>4 DEF Next
<1>2. IInv /\ [Next]_vars =>
        [\A r \in Readers : Lapped(r) /\ Lag(r) <= SnMod => got'[r] = got[r]]_vars
  BY <1>1
<1> QED
  BY <1>2, Invariance, PTL DEF Spec, LappedNeverDelivers

\* The ring implements the lossy log: publishing is the header store that ends
\* Slot::update, delivering is the second header load of read_next().
THEOREM Refinement == Spec => ImplementsLossyLog
<1> USE RingAssumption
<1>1. Init => Abstract!Init
  BY DEF Init, WriterInit, ReaderInit, Abstract!Init
<1>2. IInv /\ [Next]_vars => [Abstract!Next]_<<log, got>>
  <2> SUFFICES ASSUME IInv, [Next]_vars
               PROVE  [Abstract!Next]_<<log, got>>
    OBVIOUS
  <2>1. CASE StoreHeader
    <3>1. Abstract!Publish
      BY <2>1, StoreEffect DEF Abstract!Publish, StoreHeader
    <3> QED BY <3>1 DEF Abstract!Next
  <2>2. ASSUME NEW r \in Readers, Recheck(r), SameSlot(h[r], header[rslot[r]])
        PROVE  [Abstract!Next]_<<log, got>>
    <3>1. /\ got' = [got EXCEPT ![r] = Append(got[r], rdata[r])] /\ log' = log
          /\ got \in [Readers -> Seq(Seq(Byte))] /\ rdata[r] \in Seq(Byte)
      BY <2>2, Delivery DEF Recheck, IInv, TypeOK
    <3>2. got'[r] = Append(got[r], rdata[r])
      BY <3>1
    <3>3. Len(got'[r]) = Len(got[r]) + 1 /\ got'[r][Len(got[r]) + 1] = rdata[r]
      BY <3>1, <3>2, AppendProperties
    <3>4. NextPos(r) = Abstract!Following(r)
      BY DEF NextPos, Abstract!Following
    <3>5. CASE /\ rdata[r] = log[NextPos(r)] /\ NextPos(r) <= Len(log)
               /\ Len(log) < NextPos(r) + NSlots
      <4>1. Abstract!Deliver(r)
        BY <3>1, <3>4, <3>5 DEF Abstract!Deliver
      <4> QED BY <4>1 DEF Abstract!Next
    <3>6. CASE Len(log) >= NextPos(r) + SnMod
      <4>1. Abstract!Mistake(r)
        BY <3>1, <3>3, <3>4, <3>6 DEF Abstract!Mistake, NextPos
      <4> QED BY <4>1 DEF Abstract!Next
    <3> QED
      BY <2>2, <3>5, <3>6, Delivery
  <2>3. CASE UNCHANGED <<log, got>>
    BY <2>3
  <2> QED
    BY <2>1, <2>2, <2>3
    DEF Next, Writer, WriterStep, Refuse, Write, AssertFails, ClearHeader,
        CopyByte, Reader, ReadNext, LoadHeader, AppendByte, Recheck, vars
<1> QED
  BY <1>1, <1>2, Invariance, PTL DEF Spec, ImplementsLossyLog, Abstract!Spec

-----------------------------------------------------------------------------
(* Slots and positions                                                      *)

\* move_next goes round the slots as positions are counted.
LEMMA SlotTurn == \A n \in Nat : NextSlot(n % NSlots) = (n + 1) % NSlots
<1> SUFFICES ASSUME NEW n \in Nat
             PROVE  NextSlot(n % NSlots) = (n + 1) % NSlots
  OBVIOUS
<1> USE RingAssumption
<1>1. PICK s : s = n % NSlots
  OBVIOUS
<1>2. s \in 0 .. NSlots - 1 /\ (s + 1) % NSlots = (n + 1) % NSlots
  BY <1>1, ModRange, ModSucc
<1>3. CASE s + 1 = NSlots
  <2>1. (s + 1) % NSlots = 0
    <3>1. s + 1 \in Nat /\ s + 1 = NSlots * 1 + 0 /\ 0 \in 0 .. NSlots - 1
      BY <1>2, <1>3
    <3> QED
      BY <3>1, ModUnique
  <2> QED
    BY <1>1, <1>2, <1>3, <2>1 DEF NextSlot
<1>4. CASE s + 1 # NSlots
  <2>1. (s + 1) % NSlots = s + 1
    <3>1. s + 1 \in Nat /\ s + 1 = NSlots * 0 + (s + 1) /\ s + 1 \in 0 .. NSlots - 1
      BY <1>2, <1>4
    <3> QED
      BY <3>1, ModUnique
  <2> QED
    BY <1>1, <1>2, <1>4, <2>1 DEF NextSlot
<1> QED
  BY <1>3, <1>4

\* Adding a multiple of the modulus keeps the remainder.
LEMMA ModShift ==
  ASSUME NEW n \in Nat \ {0}, NEW a \in Nat, NEW q \in Int, NEW s \in 0 .. n - 1,
         a + n = n * q + s \/ a = n * q + s
  PROVE  (a + n) % n = s
<1>1. CASE a + n = n * q + s
  <2>1. a + n \in Nat
    OBVIOUS
  <2> QED
    BY <1>1, <2>1, ModUnique
<1>2. CASE a = n * q + s
  <2>1. n * (q + 1) = n * q + n
    OBVIOUS
  <2>2. PICK x \in Int : x = q + 1
    OBVIOUS
  <2>3. a + n \in Nat /\ a + n = n * x + s
    BY <1>2, <2>1, <2>2
  <2> QED
    BY <2>3, ModUnique
<1> QED
  BY <1>1, <1>2

\* Position and slot agree: slot i holds fragments p with (p - 1) % NSlots = i.
\* (NSlots is added because a slot that was never written has no position.)
LEMMA AtTurn ==
  ASSUME TypeOK, WriterInv, TurnInv, NEW i \in Slots
  PROVE  /\ At(i) - 1 + NSlots \in Nat
         /\ (At(i) - 1 + NSlots) % NSlots = i
<1> USE RingAssumption
<1>1. PICK n \in Nat : n = Len(log)
  BY DEF TypeOK
<1>2. PICK q \in Int : n = NSlots * q + current_slot
  BY <1>1, ModDef DEF TurnInv
<1>3. PICK a \in Int : a = At(i)
  BY AtBounds
<1>4. /\ n < a + NSlots
      /\ i \in 0 .. NSlots - 1 /\ current_slot \in 0 .. NSlots - 1
  BY <1>1, <1>3, AtBounds DEF TypeOK, Slots
<1>5. a = n - current_slot + i + 1 \/ a = n - current_slot + i + 1 - NSlots
  BY <1>1, <1>3 DEF At
<1>6. PICK b \in Nat : b = a - 1 + NSlots
  BY <1>4
<1>7. PICK t \in Int : t = NSlots * q
  OBVIOUS
<1>8. b = t + i \/ b = t + NSlots + i
  BY <1>2, <1>4, <1>5, <1>6, <1>7
<1>9. b % NSlots = i
  <2>1. CASE b = t + i
    <3>1. b = NSlots * q + i
      BY <1>7, <2>1
    <3> QED
      BY <1>4, <3>1, ModUnique
  <2>2. CASE b = t + NSlots + i
    <3>1. PICK x \in Int : x = q + 1
      OBVIOUS
    <3>2. NSlots * x = t + NSlots
      BY <1>7, <3>1
    <3>3. b = NSlots * x + i
      BY <2>2, <3>2
    <3> QED
      BY <1>4, <3>3, ModUnique
  <2> QED
    BY <1>8, <2>1, <2>2
<1> QED
  BY <1>3, <1>6, <1>9

\* A reader that is less than a ring behind looks at the slot of the fragment
\* it waits for; a reader that has caught up looks at the writer's slot.
LEMMA ReaderSlot ==
  ASSUME IInv, TurnInv, NEW r \in Readers
  PROVE  /\ NextPos(r) <= Len(log) /\ Len(log) < NextPos(r) + NSlots
              => At(rslot[r]) = NextPos(r)
         /\ Len(got[r]) = Len(log)
              => rslot[r] = current_slot /\ At(rslot[r]) = Len(log) + 1 - NSlots
<1> USE RingAssumption
<1>0. TypeOK /\ WriterInv
  BY DEF IInv
<1>1. PICK n \in Nat : n = Len(log)
  BY <1>0 DEF TypeOK
<1>2. PICK g \in Nat : g = Len(got[r])
  BY <1>0 DEF TypeOK
<1>3. PICK i \in Slots : i = rslot[r]
  BY <1>0 DEF TypeOK
<1>4. i = g % NSlots
  BY <1>2, <1>3, Zenon DEF TurnInv
<1>5. ASSUME NextPos(r) <= n, n < NextPos(r) + NSlots
      PROVE  At(i) = NextPos(r)
  <2>1. PICK x \in Int : x = At(i)
    BY <1>0, AtBounds
  <2>2. x <= n /\ n < x + NSlots
    BY <1>0, <1>1, <2>1, AtBounds
  <2>3. PICK a \in Nat : a = x - 1 + NSlots
    BY <2>2
  <2>4. a % NSlots = i
    BY <1>0, <2>1, <2>3, AtTurn
  <2>5. PICK b \in Nat : b = g + NSlots
    OBVIOUS
  <2>6. b % NSlots = i
    <3>1. PICK q \in Int : g = NSlots * q + i
      BY <1>4, ModDef
    <3>2. i \in 0 .. NSlots - 1
      BY DEF Slots
    <3> QED
      BY <2>5, <3>1, <3>2, ModShift
  <2>7. NextPos(r) = g + 1
    BY <1>2 DEF NextPos
  <2>8. ~(a < b)
    <3>1. a < b => b >= a + NSlots
      BY <2>4, <2>6, ModGap
    <3> QED
      BY <1>5, <2>2, <2>3, <2>5, <2>7, <3>1
  <2>9. ~(b < a)
    <3>1. b < a => a >= b + NSlots
      BY <2>4, <2>6, ModGap
    <3> QED
      BY <1>5, <2>2, <2>3, <2>5, <2>7, <3>1
  <2> QED
    BY <2>1, <2>3, <2>5, <2>7, <2>8, <2>9
<1>6. ASSUME g = n
      PROVE  i = current_slot /\ At(i) = n + 1 - NSlots
  <2>1. i = current_slot
    BY <1>1, <1>4, <1>6, Zenon DEF TurnInv
  <2>2. current_slot \in Int
    BY <2>1 DEF Slots
  <2> QED
    BY <1>1, <2>1, <2>2 DEF At
<1> QED
  BY <1>1, <1>2, <1>3, <1>5, <1>6

\* The header a reader finds while the fragment it waits for is there.
LEMMA ReadableHeader ==
  ASSUME IInv, TurnInv, NEW r \in Readers, Readable(r)
  PROVE  /\ header[rslot[r]].sn = expected_sn[r]
         /\ header[rslot[r]].sz # 0
         /\ NextPos(r) < SnMod => expected_sn[r] # 0
<1> USE RingAssumption
<1>0. TypeOK /\ WriterInv /\ SlotInv /\ LogInv /\ ReaderInv(r)
  BY DEF IInv
<1>1. /\ Len(log) \in Nat /\ Len(got[r]) \in Nat /\ rslot[r] \in Slots
      /\ NextPos(r) = Len(got[r]) + 1
  BY <1>0 DEF TypeOK, NextPos
<1>2. NextPos(r) <= Len(log) /\ Len(log) < NextPos(r) + NSlots
  BY <1>1 DEF Readable, Lapped, Overwritten
<1>3. At(rslot[r]) = NextPos(r)
  BY <1>2, ReaderSlot
<1>4. ~Blank(rslot[r])
  <2>1. ~(rslot[r] = current_slot /\ wpc = "copy")
    <3>1. SUFFICES ASSUME rslot[r] = current_slot, wpc = "copy"
                   PROVE  FALSE
      OBVIOUS
    <3>2. At(rslot[r]) = Len(log) + 1 - NSlots
      BY <1>1, <3>1 DEF At, Slots
    <3> QED
      BY <1>1, <1>3, <3>1, <3>2 DEF Readable, Lapped, Overwritten
  <2> QED
    BY <1>1, <1>3, <2>1 DEF Blank
<1>5. header[rslot[r]] = [sn |-> SnOf(NextPos(r)), sz |-> Len(log[NextPos(r)])]
  BY <1>0, <1>1, <1>3, <1>4 DEF SlotInv
<1>6. Len(log[NextPos(r)]) \in 1 .. SlotBytes
  BY <1>0, <1>1, <1>2 DEF LogInv
<1>7. ASSUME NextPos(r) < SnMod
      PROVE  expected_sn[r] # 0
  <2>1. NextPos(r) % SnMod = NextPos(r)
    <3>1. PICK n \in Nat : n = NextPos(r)
      BY <1>1
    <3>2. n = SnMod * 0 + n /\ n \in 0 .. SnMod - 1
      BY <1>7, <3>1
    <3>3. n % SnMod = n
      BY <3>2, ModUnique
    <3> QED
      BY <3>1, <3>3
  <2>2. expected_sn[r] = NextPos(r) % SnMod
    BY <1>0, Zenon DEF ReaderInv, SnOf
  <2>3. expected_sn[r] = NextPos(r)
    BY <2>1, <2>2, Zenon
  <2> QED
    BY <1>1, <2>3
<1> QED
  BY <1>0, <1>5, <1>6, <1>7 DEF ReaderInv

-----------------------------------------------------------------------------
(* The slots of write() and read_next() go round together                   *)

\* Both constructors start at slot 0, before the first fragment.
LEMMA InitTurn == Init => TurnInv
<1> SUFFICES ASSUME Init
             PROVE  TurnInv
  OBVIOUS
<1>1. 0 % NSlots = 0
  <2>1. 0 = NSlots * 0 + 0 /\ 0 \in 0 .. NSlots - 1
    BY RingAssumption
  <2> QED
    BY <2>1, RingAssumption, ModUnique
<1>2. Len(log) = 0 /\ current_slot = 0
  BY DEF Init, WriterInit
<1>3. \A r \in Readers : Len(got[r]) = 0 /\ rslot[r] = 0
  BY DEF Init, ReaderInit
<1> QED
  BY <1>1, <1>2, <1>3, Zenon DEF TurnInv

\* Every step that moves a slot index moves it with the fragments counted.
LEMMA NextTurn ==
  ASSUME IInv, TurnInv, [Next]_vars
  PROVE  TurnInv'
<1> USE RingAssumption
<1>0. TypeOK
  BY DEF IInv
<1>1. CASE UNCHANGED <<current_slot, log, rslot, got>>
  BY <1>1, Zenon DEF TurnInv
<1>2. CASE StoreHeader
  <2>1. UNCHANGED <<rslot, got>> /\ current_slot' = NextSlot(current_slot)
    BY <1>2 DEF StoreHeader, readerVars
  <2>2. PICK n \in Nat : n = Len(log)
    BY <1>0 DEF TypeOK
  <2>3. Len(log') = n + 1
    BY <1>2, <2>2, StoreEffect
  <2>4. current_slot' = (n + 1) % NSlots
    <3>1. current_slot = n % NSlots
      BY <2>2, Zenon DEF TurnInv
    <3>2. NextSlot(n % NSlots) = (n + 1) % NSlots
      BY SlotTurn
    <3> QED
      BY <2>1, <3>1, <3>2, Zenon
  <2> QED
    BY <2>1, <2>3, <2>4, Zenon DEF TurnInv
<1>3. ASSUME NEW r \in Readers, Recheck(r), SameSlot(h[r], header[rslot[r]])
      PROVE  TurnInv'
  <2>1. /\ UNCHANGED <<current_slot, log>>
        /\ header[rslot[r]].sz # 0
        /\ got' = [got EXCEPT ![r] = Append(got[r], rdata[r])]
        /\ w[r] = [sn |-> expected_sn[r], cs |-> rslot[r]]
    BY <1>3, Delivery DEF Recheck, writerVars, IInv, ReaderInv
  <2>2. rslot' = [rslot EXCEPT ![r] = NextSlot(rslot[r])]
    BY <1>3, <2>1 DEF Recheck
  <2>3. PICK n \in Nat : n = Len(got[r])
    BY <1>0 DEF TypeOK
  <2>4. got'[r] = Append(got[r], rdata[r]) /\ Len(got'[r]) = n + 1
    BY <1>0, <2>1, <2>3, AppendProperties DEF TypeOK
  <2>5. rslot'[r] = (n + 1) % NSlots
    <3>1. rslot[r] = n % NSlots
      BY <2>3, Zenon DEF TurnInv
    <3>2. NextSlot(n % NSlots) = (n + 1) % NSlots
      BY SlotTurn
    <3>3. rslot'[r] = NextSlot(rslot[r])
      BY <1>0, <2>2 DEF TypeOK
    <3> QED
      BY <3>1, <3>2, <3>3, Zenon
  <2>6. ASSUME NEW q \in Readers
        PROVE  rslot'[q] = Len(got'[q]) % NSlots
    <3>1. CASE q = r
      BY <2>4, <2>5, <3>1, Zenon
    <3>2. CASE q # r
      <4>1. rslot'[q] = rslot[q] /\ got'[q] = got[q]
        BY <1>0, <2>1, <2>2, <3>2 DEF TypeOK
      <4> QED
        BY <4>1, Zenon DEF TurnInv
    <3> QED
      BY <3>1, <3>2
  <2> QED
    BY <2>1, <2>6, Zenon DEF TurnInv
<1>4. \/ UNCHANGED <<current_slot, log, rslot, got>>
      \/ StoreHeader
      \/ \E r \in Readers : Recheck(r) /\ SameSlot(h[r], header[rslot[r]])
  BY ZenonT(30) DEF Next, Writer, WriterStep, Refuse, Write, AssertFails, ClearHeader,
         CopyByte, Reader, ReadNext, LoadHeader, AppendByte, Recheck, vars,
         writerVars, readerVars
<1> QED
  BY <1>1, <1>2, <1>3, <1>4

\* Fragment p is written to, and looked for in, slot (p - 1) % NSlots.
LEMMA TurnInvariance == Spec => [](IInv /\ TurnInv)
<1>1. IInv /\ TurnInv /\ [Next]_vars => TurnInv'
  BY NextTurn
<1> QED
  BY <1>1, InitIInv, NextIInv, InitTurn, PTL DEF Spec

-----------------------------------------------------------------------------
(* What read_next() answers                                                 *)

\* How a call of read_next() ends.
LEMMA ReadEnds ==
  ASSUME IInv, [Next]_vars, NEW r \in Readers, rpc[r] # "idle", rpc'[r] = "idle"
  PROVE  \/ /\ rpc[r] = "header"
            /\ Verdict(header[rslot[r]].sn, expected_sn[r]) # "copy"
            /\ result'[r] = Verdict(header[rslot[r]].sn, expected_sn[r])
         \/ /\ rpc[r] = "copy"
            /\ result'[r] = IF SameSlot(h[r], header[rslot[r]]) THEN "OK" ELSE "LOSS"
<1>0. TypeOK
  BY DEF IInv
<1>1. CASE Writer \/ UNCHANGED vars
  <2>1. rpc' = rpc
    BY <1>1 DEF Writer, WriterStep, Refuse, Write, AssertFails, ClearHeader,
                CopyByte, StoreHeader, vars, readerVars
  <2> QED
    BY <2>1
<1>2. ASSUME NEW q \in Readers, Reader(q), q # r
      PROVE  FALSE
  <2>1. rpc'[r] = rpc[r]
    BY <1>0, <1>2 DEF Reader, ReadNext, LoadHeader, AppendByte, Recheck, TypeOK
  <2> QED
    BY <2>1
<1>3. CASE Reader(r)
  <2>1. CASE LoadHeader(r)
    <3>1. Verdict(header[rslot[r]].sn, expected_sn[r]) = "copy" => rpc'[r] = "copy"
      BY <1>0, <2>1 DEF LoadHeader, TypeOK
    <3>2. Verdict(header[rslot[r]].sn, expected_sn[r]) # "copy"
      BY <3>1
    <3> QED
      BY <1>0, <2>1, <3>2 DEF LoadHeader, TypeOK
  <2>2. CASE Recheck(r)
    <3>1. ~(SameSlot(h[r], header[rslot[r]]) /\ header[rslot[r]].sz = 0)
      BY <2>2, Delivery
    <3>2. result' = [result EXCEPT ![r] =
                       IF SameSlot(h[r], header[rslot[r]]) THEN "OK" ELSE "LOSS"]
      BY <2>2, <3>1 DEF Recheck
    <3> QED
      BY <1>0, <2>2, <3>2 DEF Recheck, TypeOK
  <2>3. CASE ReadNext(r) \/ \E j \in 1 .. SlotBytes : AppendByte(r, j)
    BY <1>0, <2>3 DEF ReadNext, AppendByte, TypeOK
  <2> QED
    BY <1>3, <2>1, <2>2, <2>3 DEF Reader
<1> QED
  BY <1>1, <1>2, <1>3 DEF Next

\* read_next() misses nothing: a call that returns while the next fragment is
\* in its slot returns it, whatever the writer does meanwhile.
THEOREM NothingMissed == Spec => ReadableIsRead
<1>1. ASSUME IInv, TurnInv, [Next]_vars, NEW r \in Readers,
             rpc[r] # "idle", rpc'[r] = "idle", Readable(r), NextPos(r) < SnMod
      PROVE  result'[r] = "OK"
  <2>1. header[rslot[r]].sn = expected_sn[r] /\ expected_sn[r] # 0
    BY <1>1, ReadableHeader
  <2>2. Verdict(header[rslot[r]].sn, expected_sn[r]) = "copy"
    BY <2>1 DEF Verdict
  <2>3. rpc[r] = "copy" => h[r].sn = expected_sn[r]
    BY <1>1 DEF IInv, ReaderInv
  <2> QED
    BY <1>1, <2>1, <2>2, <2>3, ReadEnds DEF SameSlot
<1>2. IInv /\ TurnInv /\ [Next]_vars =>
        [\A r \in Readers :
           /\ rpc[r] # "idle" /\ rpc'[r] = "idle"
           /\ Readable(r) /\ NextPos(r) < SnMod
           => result'[r] = "OK"]_vars
  BY <1>1
<1> QED
  BY <1>2, TurnInvariance, PTL DEF Spec, ReadableIsRead

\* A LOSS means that the fragment is gone, or that the reader has caught up with
\* a writer that has filled the ring; there is no third reason.
THEOREM LossMeans == Spec => LossExplained
<1>1. ASSUME IInv, TurnInv, [Next]_vars, NEW r \in Readers,
             rpc[r] # "idle", rpc'[r] = "idle", result'[r] = "LOSS", ~Lapped(r)
      PROVE  Len(got[r]) = Len(log) /\ Len(log) >= NSlots
  <2> USE RingAssumption
  <2>0. TypeOK /\ WriterInv /\ SlotInv /\ ReaderInv(r)
    BY <1>1 DEF IInv
  <2>1. /\ Len(log) \in Nat /\ Len(got[r]) \in Nat /\ rslot[r] \in Slots
        /\ Len(got[r]) <= Len(log) /\ NextPos(r) = Len(got[r]) + 1
    BY <2>0 DEF TypeOK, ReaderInv, NextPos
  <2>2. CASE rpc[r] = "header"
    <3>1. header[rslot[r]].sn # 0 /\ header[rslot[r]].sn # expected_sn[r]
      BY <1>1, <2>2, ReadEnds DEF Verdict
    <3>2. ~Readable(r)
      BY <1>1, <3>1, ReadableHeader
    <3>3. Len(got[r]) = Len(log)
      BY <1>1, <2>1, <3>2 DEF Readable
    <3>4. At(rslot[r]) = Len(log) + 1 - NSlots
      BY <1>1, <3>3, ReaderSlot
    <3>5. ~(At(rslot[r]) <= 0)
      BY <2>0, <2>1, <3>1, SlotHolds DEF Blank
    <3> QED
      BY <2>1, <3>3, <3>4, <3>5
  <2>3. CASE rpc[r] = "copy"
    <3>1. ~SameSlot(h[r], header[rslot[r]]) /\ h[r].sn = expected_sn[r] /\ CopyInv(r)
      BY <1>1, <2>0, <2>3, ReadEnds DEF ReaderInv
    <3>2. ~Readable(r)
      BY <1>1, <3>1, ReadableHeader DEF SameSlot
    <3>3. Len(got[r]) = Len(log)
      BY <1>1, <2>1, <3>2 DEF Readable
    <3> QED
      BY <2>1, <3>1, <3>3 DEF CopyInv, Lag
  <2> QED
    BY <1>1, <2>2, <2>3, ReadEnds
<1>2. IInv /\ TurnInv /\ [Next]_vars =>
        [\A r \in Readers :
           /\ rpc[r] # "idle" /\ rpc'[r] = "idle" /\ result'[r] = "LOSS"
           => \/ Lapped(r)
              \/ Len(got[r]) = Len(log) /\ Len(log) >= NSlots]_vars
  BY <1>1
<1> QED
  BY <1>2, TurnInvariance, PTL DEF Spec, LossExplained

-----------------------------------------------------------------------------
(* Messages and fragments                                                   *)

\* Nothing is accepted and nothing published.
LEMMA InitMessages == Init => MessageInv /\ BytesInOrder
<1> SUFFICES ASSUME Init
             PROVE  MessageInv /\ BytesInOrder
  OBVIOUS
<1>1. sent = <<>> /\ log = <<>> /\ Len(sent) = 0 /\ Len(log) = 0 /\ wpc = "idle"
  BY DEF Init, WriterInit
<1> QED
  BY <1>1 DEF MessageInv, BytesInOrder

\* A longer list of messages keeps what follows a byte of an earlier one.
LEMMA FollowsStable ==
  ASSUME NEW b, NEW c, Follows(b, c), sent \in Seq(Seq(Byte)),
         b[1] \in 1 .. Len(sent),
         Len(sent') = Len(sent) + 1,
         \A m \in 1 .. Len(sent) : sent'[m] = sent[m]
  PROVE  Follows(b, c)'
<1>1. Len(sent) \in Nat /\ sent'[b[1]] = sent[b[1]]
  OBVIOUS
<1>2. b[1] < Len(sent) => b[1] < Len(sent')
  BY <1>1
<1> QED
  BY <1>1, <1>2 DEF Follows

\* write() accepts a message: the next byte to publish is its first.
LEMMA WriteMessages ==
  ASSUME IInv, MessageInv, BytesInOrder, NEW n \in Sizes, Write(n)
  PROVE  MessageInv' /\ BytesInOrder'
<1> USE RingAssumption
<1>0. TypeOK /\ LogInv
  BY DEF IInv
<1>1. PICK s \in Nat : s = Len(sent)
  BY <1>0 DEF TypeOK
<1>2. PICK m : m = [k \in 1 .. n |-> <<s + 1, k>>]
  OBVIOUS
<1>3. n \in Nat \ {0} /\ m \in Seq(Byte) /\ Len(m) = n
  <2>1. n \in Nat \ {0}
    BY DEF Write
  <2>2. \A k \in 1 .. n : <<s + 1, k>> \in Byte
    BY <2>1 DEF Byte
  <2> QED
    BY <1>2, <2>1, <2>2, IsASeq
<1>4. \A k \in 1 .. Len(m) : m[k] = <<s + 1, k>>
  BY <1>2, <1>3
<1>5. msg' = m /\ sent' = Append(sent, m) /\ wpc = "idle" /\ wpc' = "clear"
  BY <1>1, <1>2 DEF Write, Message
<1>6. UNCHANGED log /\ current_byte' = 0
  BY DEF Write
<1>7. /\ Len(sent') = s + 1 /\ sent'[s + 1] = m
      /\ \A k \in 1 .. s : sent'[k] = sent[k]
  BY <1>0, <1>1, <1>3, <1>5, AppendProperties DEF TypeOK
<1>8. sent \in Seq(Seq(Byte)) /\ log \in Seq(Seq(Byte)) /\ Len(log) \in Nat
  BY <1>0 DEF TypeOK
<1>9. BytesInOrder'
  <2> SUFFICES ASSUME NEW p \in 1 .. Len(log)
               PROVE  /\ p = 1 => log[p][1] = <<1, 1>>
                      /\ p # 1 => Follows(LastByte(log[p - 1]), log[p][1])'
                      /\ \A j \in 2 .. Len(log[p]) : Follows(log[p][j - 1], log[p][j])'
    BY <1>5, <1>6 DEF BytesInOrder
  <2>1. p = 1 => log[p][1] = <<1, 1>>
    BY DEF BytesInOrder
  <2>2. ASSUME p # 1
        PROVE  Follows(LastByte(log[p - 1]), log[p][1])'
    <3>1. PICK b : b = LastByte(log[p - 1])
      OBVIOUS
    <3>2. PICK c : c = log[p][1]
      OBVIOUS
    <3>3. p - 1 \in 1 .. Len(log) /\ Len(log[p - 1]) \in 1 .. Len(log[p - 1])
      BY <1>0, <1>8, <2>2 DEF LogInv
    <3>4. b[1] \in 1 .. Len(sent)
      BY <3>1, <3>3 DEF MessageInv, LastByte
    <3>5. Follows(b, c)
      BY <2>2, <3>1, <3>2 DEF BytesInOrder
    <3>6. Follows(b, c)'
      BY <1>1, <1>7, <1>8, <3>4, <3>5, FollowsStable
    <3> QED
      BY <1>6, <3>1, <3>2, <3>6 DEF LastByte
  <2>3. ASSUME NEW j \in 2 .. Len(log[p])
        PROVE  Follows(log[p][j - 1], log[p][j])'
    <3>1. PICK b : b = log[p][j - 1]
      OBVIOUS
    <3>2. PICK c : c = log[p][j]
      OBVIOUS
    <3>3. j - 1 \in 1 .. Len(log[p])
      BY <1>0 DEF LogInv
    <3>4. b[1] \in 1 .. Len(sent)
      BY <3>1, <3>3 DEF MessageInv
    <3>5. Follows(b, c)
      BY <3>1, <3>2 DEF BytesInOrder
    <3>6. Follows(b, c)'
      BY <1>1, <1>7, <1>8, <3>4, <3>5, FollowsStable
    <3> QED
      BY <1>6, <3>1, <3>2, <3>6
  <2> QED
    BY <2>1, <2>2, <2>3
<1>10. \A k \in 1 .. Len(sent') :
         Len(sent'[k]) > 0 /\ \A j \in 1 .. Len(sent'[k]) : sent'[k][j] = <<k, j>>
  <2> SUFFICES ASSUME NEW k \in 1 .. s + 1
               PROVE  /\ Len(sent'[k]) > 0
                      /\ \A j \in 1 .. Len(sent'[k]) : sent'[k][j] = <<k, j>>
    BY <1>7
  <2>1. CASE k = s + 1
    BY <1>3, <1>4, <1>7, <2>1
  <2>2. CASE k \in 1 .. s
    BY <1>1, <1>7, <2>2 DEF MessageInv
  <2> QED
    BY <2>1, <2>2
<1>11. \A p \in 1 .. Len(log) : \A j \in 1 .. Len(log[p]) :
         log[p][j][1] \in 1 .. s + 1
  <2> SUFFICES ASSUME NEW p \in 1 .. Len(log), NEW j \in 1 .. Len(log[p])
               PROVE  log[p][j][1] \in 1 .. s + 1
    OBVIOUS
  <2>1. log[p][j][1] \in 1 .. s
    BY <1>1 DEF MessageInv
  <2> QED
    BY <2>1
<1>12. IF s + 1 = 1 THEN log = <<>>
         ELSE log # <<>> /\ LastByte(log[Len(log)]) = LastByte(sent'[s])
  <2>1. CASE s = 0
    <3>1. sent = <<>>
      BY <1>1, <1>8, <2>1, EmptySeq
    <3> QED
      BY <1>5, <2>1, <3>1 DEF BytesInOrder
  <2>2. CASE s # 0
    <3>1. sent # <<>> /\ s \in 1 .. s
      BY <1>1, <2>2
    <3>2. log # <<>> /\ LastByte(log[Len(log)]) = LastByte(sent[s])
      BY <1>1, <1>5, <3>1 DEF BytesInOrder
    <3> QED
      BY <1>7, <3>1, <3>2 DEF LastByte
  <2> QED
    BY <2>1, <2>2
<1>13. LastByte(log'[Len(log')]) = LastByte(log[Len(log)])
  BY <1>6
<1>14. MessageInv'
  <2>1. s + 1 > 0 /\ (s + 1) - 1 = s /\ msg' = sent'[s + 1]
    BY <1>5, <1>7
  <2> QED
    BY <1>5, <1>6, <1>7, <1>10, <1>11, <1>12, <2>1, SMTT(30) DEF MessageInv, LastByte
<1> QED
  BY <1>9, <1>14

\* Slot::update publishes the next bytes of the message.
LEMMA StoreMessages ==
  ASSUME IInv, MessageInv, BytesInOrder, StoreHeader
  PROVE  MessageInv' /\ BytesInOrder'
<1> USE RingAssumption
<1>0. TypeOK /\ LogInv /\ WriterInv
  BY DEF IInv
<1>1. PICK s \in Nat : s = Len(sent)
  BY <1>0 DEF TypeOK
<1>2. PICK n \in Nat : n = Len(log)
  BY <1>0 DEF TypeOK
<1>3. PICK f : f = Fragment
  OBVIOUS
<1>4. PICK t \in Int : t = ToWrite
  BY <1>0, ToWriteBounds DEF StoreHeader, WriterInv
<1>5. PICK c \in Nat : c = current_byte
  BY <1>0 DEF TypeOK
<1>6. PICK u \in Nat : u = Len(msg)
  BY <1>0 DEF TypeOK
<1>7. c < u /\ t >= 1 /\ c + t <= u /\ Len(f) = t
      /\ \A j \in 1 .. t : f[j] = msg[c + j]
  BY <1>0, <1>3, <1>4, <1>5, <1>6, ToWriteBounds, FragmentBytes DEF StoreHeader, WriterInv
<1>8. /\ s > 0 /\ msg = sent[s] /\ wpc = "copy"
      /\ \A k \in 1 .. u : msg[k] = <<s, k>>
  BY <1>1, <1>6 DEF MessageInv, StoreHeader
<1>9. \A j \in 1 .. t : f[j] = <<s, c + j>>
  <2> TAKE j \in 1 .. t
  <2>1. c + j \in 1 .. u
    BY <1>7
  <2> QED
    BY <1>7, <1>8, <2>1
<1>10. /\ Len(log') = n + 1 /\ log'[n + 1] = f
       /\ \A p \in 1 .. n : log'[p] = log[p]
  BY <1>2, <1>3, StoreEffect
<1>11. sent' = sent /\ msg' = msg /\ current_byte' = c + t
  BY <1>4, <1>5 DEF StoreHeader
<1>12. wpc' = IF c + t = u THEN "idle" ELSE "clear"
  BY <1>6, <1>11 DEF StoreHeader
<1>13. LastByte(f) = <<s, c + t>> /\ f[1] = <<s, c + 1>>
  BY <1>7, <1>9 DEF LastByte
<1>14. log' # <<>>
  BY <1>2, <1>10
<1>15. LastByte(log'[Len(log')]) = <<s, c + t>>
  BY <1>10, <1>13
<1>16. log \in Seq(Seq(Byte)) /\ sent \in Seq(Seq(Byte))
  BY <1>0 DEF TypeOK
<1>17. \A b, d : Follows(b, d)' = Follows(b, d)
  BY <1>11 DEF Follows
<1>18. IF n + 1 = 1 THEN f[1] = <<1, 1>> ELSE Follows(LastByte(log[n]), f[1])
  <2>1. CASE c > 0
    <3>1. log # <<>> /\ LastByte(log[n]) = <<s, c>>
      BY <1>1, <1>2, <1>5, <1>8, <2>1 DEF MessageInv
    <3>2. n # 0
      BY <1>2, <1>16, <3>1, EmptySeq
    <3>3. Follows(<<s, c>>, <<s, c + 1>>)
      BY <1>6, <1>7, <1>8 DEF Follows
    <3> QED
      BY <1>13, <3>1, <3>2, <3>3
  <2>2. CASE c = 0 /\ s = 1
    <3>1. log = <<>>
      BY <1>1, <1>5, <1>8, <2>2 DEF MessageInv
    <3>2. n = 0
      BY <1>2, <3>1
    <3> QED
      BY <1>13, <2>2, <3>2
  <2>3. CASE c = 0 /\ s # 1
    <3>1. log # <<>> /\ LastByte(log[n]) = LastByte(sent[s - 1])
      BY <1>1, <1>2, <1>5, <1>8, <2>3 DEF MessageInv
    <3>2. n # 0
      BY <1>2, <1>16, <3>1, EmptySeq
    <3>3. PICK v \in Nat : v = Len(sent[s - 1])
      <4>1. s - 1 \in 1 .. Len(sent)
        BY <1>1, <1>8, <2>3
      <4> QED
        BY <1>16, <4>1, ElementOfSeq
    <3>4. PICK x \in 1 .. s : x = s - 1
      BY <1>8, <2>3
    <3>5. v > 0 /\ sent[x][v] = <<x, v>>
      BY <1>1, <3>3, <3>4 DEF MessageInv
    <3>6. LastByte(log[n]) = <<x, v>>
      BY <3>1, <3>3, <3>4, <3>5 DEF LastByte
    <3>7. Follows(<<x, v>>, <<x + 1, 1>>)
      BY <1>1, <1>8, <3>3, <3>4 DEF Follows
    <3>8. f[1] = <<x + 1, 1>>
      BY <1>13, <2>3, <3>4
    <3> QED
      BY <3>2, <3>6, <3>7, <3>8
  <2> QED
    BY <2>1, <2>2, <2>3
<1>19. \A j \in 2 .. Len(f) : Follows(f[j - 1], f[j])
  <2> TAKE j \in 2 .. Len(f)
  <2>1. PICK k \in Nat : k = c + j - 1
    BY <1>7
  <2>2. j - 1 \in 1 .. t /\ j \in 1 .. t /\ c + (j - 1) = k /\ c + j = k + 1 /\ k < u
    BY <1>7, <2>1
  <2>3. f[j - 1] = <<s, k>> /\ f[j] = <<s, k + 1>>
    BY <1>9, <2>2
  <2>4. Follows(<<s, k>>, <<s, k + 1>>)
    BY <1>6, <1>8, <2>2 DEF Follows
  <2> QED
    BY <2>3, <2>4
<1>20. ASSUME NEW p \in 1 .. n + 1
       PROVE  /\ IF p = 1 THEN log'[p][1] = <<1, 1>>
                          ELSE Follows(LastByte(log'[p - 1]), log'[p][1])
              /\ \A j \in 2 .. Len(log'[p]) : Follows(log'[p][j - 1], log'[p][j])
              /\ \A j \in 1 .. Len(log'[p]) : log'[p][j][1] \in 1 .. s
  <2>1. CASE p \in 1 .. n
    <3>1. log'[p] = log[p] /\ (p # 1 => log'[p - 1] = log[p - 1])
      BY <1>10, <2>1
    <3>2. /\ IF p = 1 THEN log[p][1] = <<1, 1>>
                      ELSE Follows(LastByte(log[p - 1]), log[p][1])
          /\ \A j \in 2 .. Len(log[p]) : Follows(log[p][j - 1], log[p][j])
      BY <1>2, <2>1 DEF BytesInOrder
    <3>3. \A j \in 1 .. Len(log[p]) : log[p][j][1] \in 1 .. s
      BY <1>1, <1>2, <2>1 DEF MessageInv
    <3> QED
      BY <3>1, <3>2, <3>3
  <2>2. CASE p = n + 1
    <3>1. log'[p] = f /\ (p # 1 => p - 1 = n /\ log'[p - 1] = log[n])
      BY <1>10, <2>2
    <3>2. \A j \in 1 .. Len(f) : f[j][1] \in 1 .. s
      BY <1>7, <1>8, <1>9
    <3> QED
      BY <1>18, <1>19, <2>2, <3>1, <3>2
  <2> QED
    BY <2>1, <2>2
<1>21. wpc' = "idle" =>
         IF sent = <<>> THEN log' = <<>>
           ELSE log' # <<>> /\ LastByte(log'[Len(log')]) = LastByte(sent[Len(sent)])
  <2>1. SUFFICES ASSUME c + t = u
                 PROVE  sent # <<>> /\ LastByte(sent[s]) = <<s, u>>
    BY <1>1, <1>12, <1>14, <1>15
  <2> QED
    BY <1>1, <1>6, <1>7, <1>8 DEF LastByte
<1>22. BytesInOrder'
  BY <1>10, <1>11, <1>17, <1>20, <1>21 DEF BytesInOrder, LastByte
<1>23. MessageInv'
  <2>1. \A m \in 1 .. Len(sent) :
          Len(sent[m]) > 0 /\ \A k \in 1 .. Len(sent[m]) : sent[m][k] = <<m, k>>
    BY DEF MessageInv
  <2>2. c + t > 0
    BY <1>7
  <2> QED
    BY <1>1, <1>8, <1>10, <1>11, <1>14, <1>15, <1>20, <2>1, <2>2 DEF MessageInv, LastByte
<1> QED
  BY <1>22, <1>23

\* Only accepting a message and publishing a fragment change how far write() has
\* got.
LEMMA NextMessages ==
  ASSUME IInv, MessageInv, BytesInOrder, [Next]_vars
  PROVE  MessageInv' /\ BytesInOrder'
<1>1. CASE /\ UNCHANGED <<sent, log, msg, current_byte>>
           /\ (wpc = "idle") <=> (wpc' = "idle")
  BY <1>1, SMTT(30) DEF MessageInv, BytesInOrder, LastByte, Follows
<1>2. \/ /\ UNCHANGED <<sent, log, msg, current_byte>>
         /\ (wpc = "idle") <=> (wpc' = "idle")
      \/ StoreHeader
      \/ \E n \in Sizes : Write(n)
  BY ZenonT(30) DEF Next, Writer, WriterStep, Refuse, AssertFails, ClearHeader,
         CopyByte, Reader, ReadNext, LoadHeader, AppendByte, Recheck, vars,
         writerVars
<1> QED
  BY <1>1, <1>2, StoreMessages, WriteMessages

\* The strengthened invariant of the ring: slots, half-done copies, results,
\* messages and fragments are consistent with one another.
THEOREM RingInvariance == Spec => []RingIInv
<1>1. Init => RingIInv
  BY InitIInv, InitTurn, InitMessages DEF RingIInv
<1>2. RingIInv /\ [Next]_vars => RingIInv'
  BY NextIInv, NextTurn, NextMessages DEF RingIInv
<1> QED
  BY <1>1, <1>2, PTL DEF Spec

\* write() cuts messages into slots without losing, repeating or reordering a
\* byte, for every slot size and every list of messages.
THEOREM OrderedBytes == Spec => []BytesInOrder
BY RingInvariance, PTL DEF RingIInv

-----------------------------------------------------------------------------
(* The debug build                                                          *)

\* A failing assertion ends the process and leaves the ring as it is.
LEMMA AbortRing ==
  ASSUME RingIInv, Debug!AssertFails
  PROVE  RingIInv'
<1>1. /\ wpc = "clear" /\ wpc' = "aborted"
      /\ UNCHANGED <<header, data, msg, current_byte, wleft, current_slot,
                     current_sn, wres, rpc, expected_sn, rslot, w, h, rleft,
                     result, rdata, sent, log, got>>
  BY DEF Debug!AssertFails, Debug!slotVars, Debug!readerVars
<1>2. TypeOK /\ WriterInv /\ LogInv /\ SlotInv /\ PrefixOrWrapped
      /\ (\A r \in Readers : ReaderInv(r)) /\ TurnInv /\ MessageInv /\ BytesInOrder
  BY DEF RingIInv, IInv
<1>3. TypeOK'
  BY <1>1, <1>2 DEF TypeOK
<1>4. WriterInv' /\ LogInv' /\ PrefixOrWrapped'
  BY <1>1, <1>2 DEF WriterInv, LogInv, PrefixOrWrapped, Lag, ToWrite, SnOf
<1>5. \A i : At(i)' = At(i) /\ Blank(i)' = Blank(i)
  BY <1>1 DEF At, Blank
<1>6. SlotInv'
  BY <1>1, <1>2, <1>5 DEF SlotInv, SnOf
<1>7. ASSUME NEW r \in Readers
      PROVE  ReaderInv(r)'
  <2>1. CopyInv(r)' = CopyInv(r)
    BY <1>1 DEF CopyInv, Lag, NextPos, At
  <2> QED
    BY <1>1, <1>2, <2>1 DEF ReaderInv, NextPos, SnOf
<1>8. TurnInv'
  BY <1>1, <1>2, Zenon DEF TurnInv
<1>9. MessageInv' /\ BytesInOrder'
  BY <1>1, <1>2, SMTT(30) DEF MessageInv, BytesInOrder, LastByte, Follows
<1> QED
  BY <1>3, <1>4, <1>6, <1>7, <1>8, <1>9 DEF RingIInv, IInv

\* The debug build does what the release build does, except that it checks the
\* size of a fragment before it touches the slot.
LEMMA DebugStep ==
  ASSUME Debug!Next
  PROVE  \/ Debug!AssertFails
         \/ Next /\ (ClearHeader => UpdateAssertion)
<1>1. ASSUME NEW r \in Readers, Debug!Reader(r)
      PROVE  Reader(r) /\ wpc' = wpc
  <2>1. CASE Debug!ReadNext(r)
    BY <2>1 DEF Debug!ReadNext, Debug!Running, Debug!slotVars, Debug!writerVars,
                Reader, ReadNext, Running, slotVars, writerVars
  <2>2. CASE Debug!LoadHeader(r)
    BY <2>2 DEF Debug!LoadHeader, Debug!Running, Debug!slotVars, Debug!writerVars,
                Debug!Verdict, Debug!AppendSize, Debug!ZeroByte,
                Reader, LoadHeader, Running, slotVars, writerVars,
                Verdict, AppendSize, ZeroByte
  <2>3. ASSUME NEW j \in 1 .. SlotBytes, Debug!AppendByte(r, j)
        PROVE  AppendByte(r, j) /\ wpc' = wpc
    BY <2>3 DEF Debug!AppendByte, Debug!Running, Debug!slotVars, Debug!writerVars,
                Debug!AppendSize, AppendByte, Running, slotVars, writerVars, AppendSize
  <2>4. CASE Debug!Recheck(r)
    BY <2>4 DEF Debug!Recheck, Debug!Running, Debug!slotVars, Debug!writerVars,
                Debug!SameSlot, Debug!NextSn, Debug!NextSlot,
                Reader, Recheck, Running, slotVars, writerVars, SameSlot,
                NextSn, NextSlot
  <2> QED
    BY <1>1, <2>1, <2>2, <2>3, <2>4 DEF Debug!Reader, Reader
<1>2. ASSUME NEW n \in Sizes, Debug!Refuse(n)
      PROVE  Refuse(n) /\ wpc' = wpc
  BY <1>2 DEF Debug!Refuse, Debug!TooBig, Debug!slotVars, Debug!readerVars,
              Refuse, TooBig, slotVars, readerVars
<1>3. ASSUME NEW n \in Sizes, Debug!Write(n)
      PROVE  Write(n) /\ wpc' # "copy"
  BY <1>3 DEF Debug!Write, Debug!TooBig, Debug!Message, Debug!slotVars,
              Debug!readerVars, Write, TooBig, Message, slotVars, readerVars
<1>4. ASSUME NEW j \in 1 .. SlotBytes, Debug!CopyByte(j)
      PROVE  CopyByte(j) /\ wpc' = wpc
  BY <1>4 DEF Debug!CopyByte, Debug!readerVars, CopyByte, readerVars
<1>5. CASE Debug!StoreHeader
  <2>1. StoreHeader
    BY <1>5 DEF Debug!StoreHeader, Debug!NewHeader, Debug!NextSn, Debug!NextSlot,
                Debug!ToWrite, Debug!Fragment, Debug!readerVars,
                StoreHeader, NewHeader, NextSn, NextSlot, ToWrite, Fragment, readerVars
  <2>2. ~ClearHeader
    BY <2>1 DEF StoreHeader, ClearHeader
  <2> QED
    BY <2>1, <2>2 DEF Next, Writer, WriterStep
<1>6. CASE Debug!ClearHeader
  <2>1. ClearHeader /\ UpdateAssertion
    BY <1>6 DEF Debug!ClearHeader, Debug!UpdateAssertion, Debug!NoHeader,
                Debug!ToWrite, Debug!readerVars,
                ClearHeader, UpdateAssertion, NoHeader, ToWrite, readerVars
  <2> QED
    BY <2>1 DEF Next, Writer, WriterStep
<1>7. ClearHeader => wpc = "clear" /\ wpc' = "copy"
  BY DEF ClearHeader
<1>8. CASE \E r \in Readers : Debug!Reader(r)
  BY <1>1, <1>7, <1>8 DEF Next
<1>9. CASE \E n \in Sizes : Debug!Refuse(n)
  BY <1>2, <1>7, <1>9 DEF Next, Writer
<1>10. CASE \E n \in Sizes : Debug!Write(n)
  BY <1>3, <1>7, <1>10 DEF Next, Writer
<1>11. CASE \E j \in 1 .. SlotBytes : Debug!CopyByte(j)
  BY <1>4, <1>7, <1>11 DEF Next, Writer, WriterStep
<1> QED
  BY <1>5, <1>6, <1>8, <1>9, <1>10, <1>11
  DEF Debug!Next, Debug!Writer, Debug!WriterStep

\* The bound on the calls of write() holds.
LEMMA SentBound ==
  ASSUME TypeOK, Len(sent) <= MaxWrites, [Next]_vars
  PROVE  Len(sent') <= MaxWrites
<1>1. CASE \E n \in Sizes : Write(n)
  <2>1. PICK m : sent' = Append(sent, m)
    BY <1>1 DEF Write
  <2>2. Len(sent') = Len(sent) + 1
    BY <2>1 DEF TypeOK
  <2> QED
    BY <1>1, <2>2, RingAssumption DEF Write, TypeOK
<1>2. CASE sent' = sent
  BY <1>2
<1> QED
  BY <1>1, <1>2
  DEF Next, Writer, WriterStep, Refuse, AssertFails, ClearHeader, CopyByte,
      StoreHeader, Reader, ReadNext, LoadHeader, AppendByte, Recheck, vars

\* In the debug build a message is in one slot, or stopped by the assertion.
LEMMA DebugKept ==
  ASSUME RingIInv, DebugInv, debug = TRUE, debug' = TRUE, Next,
         ClearHeader => UpdateAssertion
  PROVE  DebugInv'
<1> USE RingAssumption
<1>0. TypeOK /\ MessageInv /\ WriterInv
  BY DEF RingIInv, IInv
<1>1. PICK n \in Nat : n = Len(log)
  BY <1>0 DEF TypeOK
<1>2. PICK s \in Nat : s = Len(sent)
  BY <1>0 DEF TypeOK
<1>3. /\ n = IF wpc = "idle" THEN s ELSE s - 1
      /\ \A k \in 1 .. n : log[k] = sent[k]
      /\ wpc # "idle" => current_byte = 0
      /\ wpc = "copy" => Len(msg) < SlotBytes
  BY <1>1, <1>2 DEF DebugInv
<1>4. ASSUME /\ Len(log') = IF wpc' = "idle" THEN Len(sent') ELSE Len(sent') - 1
             /\ \A k \in 1 .. Len(log') : log'[k] = sent'[k]
             /\ wpc' # "idle" => current_byte' = 0
             /\ wpc' = "copy" => Len(msg') < SlotBytes
      PROVE  DebugInv'
  BY <1>4 DEF DebugInv
<1>5. CASE UNCHANGED <<wpc, msg, current_byte, sent, log>>
  BY <1>1, <1>2, <1>3, <1>4, <1>5
<1>6. ASSUME NEW x \in Sizes, Write(x)
      PROVE  DebugInv'
  <2>1. /\ wpc = "idle" /\ wpc' = "clear" /\ current_byte' = 0 /\ log' = log
        /\ sent' = Append(sent, msg')
    BY <1>6 DEF Write
  <2>2. PICK m : m = msg'
    OBVIOUS
  <2>3. Len(sent') = s + 1 /\ \A k \in 1 .. s : sent'[k] = sent[k]
    BY <1>0, <1>2, <2>1, <2>2 DEF TypeOK
  <2>4. n = s
    BY <1>3, <2>1
  <2>5. Len(log') = s /\ Len(sent') - 1 = s
    BY <1>1, <2>1, <2>3, <2>4
  <2>6. \A k \in 1 .. s : log'[k] = sent'[k]
    BY <1>3, <2>1, <2>3, <2>4
  <2> QED
    BY <1>4, <2>1, <2>5, <2>6
<1>7. CASE ClearHeader
  <2>1. /\ wpc = "clear" /\ wpc' = "copy"
        /\ UNCHANGED <<msg, current_byte, sent, log>>
    BY <1>7 DEF ClearHeader
  <2>2. ToWrite < SlotBytes /\ current_byte = 0
    BY <1>3, <1>7, <2>1 DEF UpdateAssertion
  <2>3. Len(msg) < SlotBytes
    BY <1>0, <2>2 DEF ToWrite, TypeOK
  <2> QED
    BY <1>1, <1>2, <1>3, <1>4, <2>1, <2>2, <2>3
<1>8. CASE StoreHeader
  <2>1. wpc = "copy" /\ sent' = sent /\ current_byte = 0 /\ Len(msg) < SlotBytes
    BY <1>3, <1>8 DEF StoreHeader
  <2>2. PICK u \in Nat : u = Len(msg)
    BY <1>0 DEF TypeOK
  <2>3. ToWrite = u
    BY <2>1, <2>2 DEF ToWrite
  <2>4. wpc' = "idle"
    BY <1>8, <2>1, <2>2, <2>3 DEF StoreHeader
  <2>5. msg = sent[s] /\ n + 1 = s
    BY <1>2, <1>3, <2>1 DEF MessageInv, RingIInv
  <2>6. Fragment = msg
    <3>1. /\ Fragment \in Seq(Byte) /\ Len(Fragment) = u
          /\ \A j \in 1 .. u : Fragment[j] = msg[0 + j]
      BY <1>0, <2>1, <2>3, FragmentBytes DEF WriterInv
    <3>2. \A j \in 1 .. u : Fragment[j] = msg[j]
      BY <2>2, <3>1
    <3> QED
      BY <1>0, <2>2, <3>1, <3>2, SeqEqual DEF TypeOK
  <2>7. /\ Len(log') = n + 1 /\ log'[n + 1] = msg
        /\ \A k \in 1 .. n : log'[k] = log[k]
    BY <1>1, <1>8, <2>6, StoreEffect DEF RingIInv
  <2>8. ASSUME NEW k \in 1 .. n + 1
        PROVE  log'[k] = sent'[k]
    <3>1. k \in 1 .. n \/ k = n + 1
      OBVIOUS
    <3> QED
      BY <1>3, <2>1, <2>5, <2>7, <3>1
  <2> QED
    BY <1>2, <1>4, <2>1, <2>4, <2>5, <2>7, <2>8
<1>9. CASE AssertFails
  <2>1. /\ wpc = "clear" /\ wpc' = "aborted"
        /\ UNCHANGED <<msg, current_byte, sent, log>>
    BY <1>9 DEF AssertFails
  <2> QED
    BY <1>1, <1>2, <1>3, <1>4, <2>1
<1> QED
  BY <1>5, <1>6, <1>7, <1>8, <1>9
  DEF Next, Writer, WriterStep, Refuse, CopyByte, Reader, ReadNext, LoadHeader,
      AppendByte, Recheck, writerVars

\* Both builds keep the invariant of the ring; the debug build keeps messages
\* whole.
LEMMA BuildsNextIInv == BuildsIInv /\ [BuildsNext]_BuildsVars => BuildsIInv'
<1> SUFFICES ASSUME BuildsIInv, [BuildsNext]_BuildsVars
             PROVE  BuildsIInv'
  OBVIOUS
<1>0. /\ RingIInv /\ DebugInv /\ debug \in BOOLEAN /\ Len(sent) <= MaxWrites
      /\ TypeOK
  BY DEF BuildsIInv, RingIInv, IInv
<1>1. ASSUME [Next]_vars
      PROVE  RingIInv' /\ Len(sent') <= MaxWrites
  BY <1>0, <1>1, NextIInv, NextTurn, NextMessages, SentBound DEF RingIInv
<1>2. CASE debug /\ Debug!Next /\ UNCHANGED debug
  <2>1. CASE Debug!AssertFails
    <3>1. /\ wpc = "clear" /\ wpc' = "aborted"
          /\ UNCHANGED <<msg, current_byte, sent, log>>
      BY <2>1 DEF Debug!AssertFails
    <3>2. DebugInv'
      BY <1>0, <1>2, <3>1 DEF DebugInv
    <3> QED
      BY <1>0, <1>2, <2>1, <3>1, <3>2, AbortRing DEF BuildsIInv
  <2>2. CASE Next /\ (ClearHeader => UpdateAssertion)
    <3>1. debug = TRUE /\ debug' = TRUE
      BY <1>0, <1>2
    <3>2. DebugInv'
      BY <1>0, <2>2, <3>1, DebugKept
    <3> QED
      BY <1>1, <2>2, <3>1, <3>2 DEF BuildsIInv
  <2> QED
    BY <1>2, <2>1, <2>2, DebugStep
<1>3. CASE ~debug /\ Next /\ UNCHANGED debug
  BY <1>0, <1>1, <1>3 DEF BuildsIInv, DebugInv
<1>4. CASE UNCHANGED BuildsVars
  <2>1. UNCHANGED vars /\ UNCHANGED debug
    BY <1>4 DEF BuildsVars
  <2>2. UNCHANGED <<wpc, msg, current_byte, sent, log>>
    BY <2>1 DEF vars, writerVars
  <2>3. DebugInv'
    BY <1>0, <2>1, <2>2 DEF DebugInv
  <2> QED
    BY <1>0, <1>1, <2>1, <2>3 DEF BuildsIInv
<1> QED
  BY <1>2, <1>3, <1>4 DEF BuildsNext

\* In the debug build one OK of read_next() is one message of write(), complete:
\* the assertion in Slot::update stops every message that needs a second slot.
\* (With 2^32 messages a reader could fall a cycle of sequence numbers behind.)
THEOREM WholeDebugMessages ==
  ASSUME MaxWrites < SnMod
  PROVE  BuildsSpec => []WholeInDebug
<1> USE RingAssumption
<1>1. BuildsInit => BuildsIInv
  <2> SUFFICES ASSUME BuildsInit
               PROVE  BuildsIInv
    OBVIOUS
  <2>1. RingIInv /\ debug \in BOOLEAN
    BY InitIInv, InitTurn, InitMessages DEF BuildsInit, RingIInv
  <2>2. Len(sent) = 0 /\ Len(log) = 0 /\ wpc = "idle"
    BY DEF BuildsInit, Init, WriterInit
  <2> QED
    BY <2>1, <2>2 DEF BuildsIInv, DebugInv
<1>2. BuildsIInv => WholeInDebug
  <2> SUFFICES ASSUME BuildsIInv, debug, NEW r \in Readers, NEW k \in 1 .. Len(got[r])
               PROVE  k <= Len(sent) /\ got[r][k] = sent[k]
    BY DEF WholeInDebug, WholeMessages
  <2>1. /\ Len(log) \in Nat /\ Len(sent) \in Nat /\ Len(got[r]) \in Nat
        /\ Len(sent) <= MaxWrites
    BY DEF BuildsIInv, RingIInv, IInv, TypeOK
  <2>2. Len(log) <= Len(sent) /\ \A i \in 1 .. Len(log) : log[i] = sent[i]
    BY <2>1 DEF BuildsIInv, DebugInv
  <2>3. ~(Lag(r) >= SnMod)
    BY <2>1, <2>2 DEF Lag
  <2>4. /\ Len(got[r]) <= Len(log)
        /\ \A i \in 1 .. Len(got[r]) : got[r][i] = log[i]
    BY <2>3 DEF BuildsIInv, RingIInv, IInv, PrefixOrWrapped
  <2> QED
    BY <2>1, <2>2, <2>4
<1> QED
  BY <1>1, <1>2, BuildsNextIInv, PTL DEF BuildsSpec
=============================================================================
