--------------------------- MODULE RingBufferInv ----------------------------
(***************************************************************************)
(* The inductive invariant behind the safety properties of RingBuffer.     *)
(***************************************************************************)
EXTENDS RingBuffer

\* The position whose fragment slot i holds, or held until the writer took the
\* slot for its present turn; not positive if there was none.  Slots below the
\* writer's are one lap ahead of the others.
At(i) ==
  IF i < current_slot THEN Len(log) - current_slot + i + 1
                      ELSE Len(log) - current_slot + i + 1 - NSlots

\* The sequence number of position p.
SnOf(p) == p % SnMod

\* No fragment to read in slot i.
Blank(i) == At(i) <= 0 \/ (i = current_slot /\ wpc = "copy")

\* The loop of write() is on its way through the message.
WriterInv ==
  /\ current_slot <= Len(log)
  /\ current_sn = SnOf(Len(log) + 1)
  /\ wpc \in {"clear", "copy"} => current_byte < Len(msg)
  /\ wpc = "copy" =>
       /\ wleft \subseteq 1 .. ToWrite
       /\ \A j \in (1 .. ToWrite) \ wleft :
            data[current_slot][j] = msg[current_byte + j]

LogInv == \A p \in 1 .. Len(log) : Len(log[p]) \in 1 .. SlotBytes

\* A slot with a header holds the whole fragment of its position.
SlotInv ==
  \A i \in Slots :
    IF Blank(i)
      THEN header[i] = NoHeader
      ELSE /\ header[i] = [sn |-> SnOf(At(i)), sz |-> Len(log[At(i)])]
           /\ \A j \in 1 .. Len(log[At(i)]) : data[i][j] = log[At(i)][j]

\* What a reader that is copying knows: as long as its slot has not been taken
\* over, the bytes it has copied are those of the fragment it waits for.
CopyInv(r) ==
  \/ Lag(r) >= SnMod
  \/ /\ NextPos(r) <= Len(log)
     /\ NextPos(r) <= At(rslot[r])
     /\ h[r].sz = Len(log[NextPos(r)])
     /\ At(rslot[r]) = NextPos(r) /\ header[rslot[r]].sn # 0 =>
          \A j \in (1 .. h[r].sz) \ rleft[r] : rdata[r][j] = log[NextPos(r)][j]

ReaderInv(r) ==
  /\ Len(got[r]) <= Len(log)
  /\ Len(got[r]) < SnMod
  /\ expected_sn[r] = SnOf(NextPos(r))
  /\ Len(rdata[r]) <= SlotBytes
  /\ rpc[r] # "idle" => w[r] = [sn |-> expected_sn[r], cs |-> rslot[r]]
  /\ rpc[r] = "header" => rdata[r] = <<>>
  /\ rpc[r] = "copy" =>
       /\ h[r].sn = expected_sn[r] /\ h[r].sn # 0
       /\ h[r].sz # 0 /\ Len(rdata[r]) = h[r].sz
       /\ rleft[r] \subseteq 1 .. h[r].sz
       /\ CopyInv(r)

\* The inductive invariant: write() and read_next() keep every slot, every
\* half-done copy and every result consistent with the log.
IInv ==
  /\ TypeOK
  /\ WriterInv
  /\ LogInv
  /\ SlotInv
  /\ \A r \in Readers : ReaderInv(r)
  /\ PrefixOrWrapped

\* move_next of the ring and of a reader go round the slots together: fragment
\* p is written to, and looked for in, slot (p - 1) % NSlots.
TurnInv ==
  /\ current_slot = Len(log) % NSlots
  /\ \A r \in Readers : rslot[r] = Len(got[r]) % NSlots

\* How far write() has got in the messages accepted.
MessageInv ==
  /\ \A m \in 1 .. Len(sent) :
       Len(sent[m]) > 0 /\ \A k \in 1 .. Len(sent[m]) : sent[m][k] = <<m, k>>
  /\ \A p \in 1 .. Len(log) : \A j \in 1 .. Len(log[p]) :
       log[p][j][1] \in 1 .. Len(sent)
  /\ wpc # "idle" =>
       /\ Len(sent) > 0 /\ msg = sent[Len(sent)]
       /\ IF current_byte > 0
            THEN /\ log # <<>>
                 /\ LastByte(log[Len(log)]) = <<Len(sent), current_byte>>
            ELSE IF Len(sent) = 1
              THEN log = <<>>
              ELSE /\ log # <<>>
                   /\ LastByte(log[Len(log)]) = LastByte(sent[Len(sent) - 1])

\* The strengthening of IInv that says which fragment a slot is for, and which
\* bytes a fragment holds.
RingIInv == IInv /\ TurnInv /\ MessageInv /\ BytesInOrder
=============================================================================
