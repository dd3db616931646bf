---------------------------- MODULE MCRingBuilds ----------------------------
(***************************************************************************)
(* Both builds of the ring side by side: `debug` says whose behaviour it   *)
(* is.  NDEBUG is TRUE in the configuration.                               *)
(***************************************************************************)
EXTENDS RingBufferInv

VARIABLE debug

Debug == INSTANCE RingBuffer WITH NDEBUG <- FALSE

BuildsInit == Init /\ debug \in BOOLEAN
BuildsNext ==
  \/ debug /\ Debug!Next /\ UNCHANGED debug
  \/ ~debug /\ Next /\ UNCHANGED debug
BuildsVars == <<vars, debug>>
StepOfWriter ==
  \/ debug /\ Debug!WriterStep /\ UNCHANGED debug
  \/ ~debug /\ WriterStep /\ UNCHANGED debug

\* The fairness of RingBuffer!FairSpec.
BuildsSpec ==
  /\ BuildsInit /\ [][BuildsNext]_BuildsVars
  /\ WF_BuildsVars(StepOfWriter)
  /\ \A r \in Readers : WF_BuildsVars(Reader(r) /\ UNCHANGED debug)

\* What the debug build has published: the messages accepted, each in a slot of
\* its own, but for the one under way.
DebugInv ==
  debug =>
    /\ Len(log) = IF wpc = "idle" THEN Len(sent) ELSE Len(sent) - 1
    /\ \A k \in 1 .. Len(log) : log[k] = sent[k]
    /\ wpc # "idle" => current_byte = 0
    /\ wpc = "copy" => Len(msg) < SlotBytes

BuildsIInv == RingIInv /\ DebugInv /\ debug \in BOOLEAN /\ Len(sent) <= MaxWrites

\* In the debug build, where the assertion keeps out every message that fills a
\* slot, one OK of read_next() is one message of write(), complete.
WholeInDebug == debug => WholeMessages
=============================================================================
