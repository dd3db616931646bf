--------------------- MODULE BlockingReaderWriterQueue ----------------------
(***************************************************************************)
(* moodycamel::BlockingReaderWriterQueue: a ReaderWriterQueue whose        *)
(* elements are counted by a LightweightSemaphore.  `blocking` says which  *)
(* of the two classes the program uses.                                    *)
(***************************************************************************)
EXTENDS ReaderWriterQueue

CONSTANTS Second, ClockNsecs, TimeoutNsecs

VARIABLES blocking, m_count, m_sema, wpc, call, spc

Sema == INSTANCE LightweightSemaphore

semaphore == <<m_count, m_sema, wpc, call, spc>>
vars == <<innerVars, blocking, semaphore>>

BlockingInit == Init /\ Sema!Init /\ blocking \in BOOLEAN

\* try_enqueue and enqueue: the semaphore is signalled once the element is inside.
EnqueueBegins(op) ==
  /\ blocking => spc = "idle"
  /\ InnerEnqueue(op)
  /\ UNCHANGED <<blocking, semaphore>>

\* Mutant: the semaphore is signalled whatever the inner queue answered.
EnqueueRunsAlways ==
  /\ ProducerStep
  /\ spc' = IF blocking /\ ppc' = "idle" THEN "signal" ELSE spc
  /\ UNCHANGED <<blocking, m_count, m_sema, wpc, call>>

EnqueueRuns ==
  LET succeeds == ppc \in {"publish", "advance"} /\ ppc' = "idle" IN
  /\ ProducerStep
  /\ spc' = IF blocking /\ succeeds THEN "signal" ELSE spc
  /\ UNCHANGED <<blocking, m_count, m_sema, wpc, call>>

EnqueueSignals == Sema!SignalStep /\ UNCHANGED <<innerVars, blocking>>

\* try_dequeue, pop, wait_dequeue, wait_dequeue_timed: the semaphore first.
BlockingCalls == {"try_dequeue", "pop", "wait_dequeue", "wait_dequeue_timed"}
WaitBegins(c) == blocking /\ cpc = "idle" /\ alive /\ Sema!TryWait(c) /\ UNCHANGED <<innerVars, blocking>>
WaitRuns == Sema!WaitStep /\ UNCHANGED <<innerVars, blocking>>

\* The inner call: after the semaphore, or, for peek and without it, at any time.
DequeueBegins(op) ==
  /\ blocking => IF op = "peek" THEN wpc = "idle" ELSE wpc = "won" /\ (op = "pop" <=> call = "pop")
  /\ Dequeue(op)
  /\ UNCHANGED <<blocking, semaphore>>

DequeueRuns ==
  /\ ConsumerStep
  /\ IF cpc' = "idle" THEN wpc' = "idle" /\ call' = "none" ELSE UNCHANGED <<wpc, call>>
  /\ UNCHANGED <<blocking, m_count, m_sema, spc>>

SizeRuns(t) == ~blocking /\ (SizeApprox(t) \/ SizeStep(t)) /\ UNCHANGED <<blocking, semaphore>>

Ends == wpc = "idle" /\ spc = "idle" /\ Destroy /\ UNCHANGED <<blocking, semaphore>>

BlockingNext ==
  \/ \E op \in {CanAlloc, CannotAlloc} : EnqueueBegins(op)
  \/ EnqueueRuns \/ EnqueueSignals
  \/ \E c \in BlockingCalls : WaitBegins(c)
  \/ WaitRuns
  \/ \E op \in DequeueCalls : DequeueBegins(op)
  \/ DequeueRuns
  \/ \E t \in DOMAIN walk : SizeRuns(t)
  \/ Ends

\* A thread that is in a call goes on with it; nobody is obliged to make calls.
Fairness ==
  /\ WF_vars(EnqueueRuns) /\ WF_vars(EnqueueSignals)
  /\ WF_vars(WaitRuns)
  /\ WF_vars(wpc = "won" /\ \E op \in {"try_dequeue", "pop"} : DequeueBegins(op))
  /\ WF_vars(DequeueRuns)

BlockingSpec == BlockingInit /\ [][BlockingNext]_vars /\ Fairness
-----------------------------------------------------------------------------
\* The assertions of the wrapper and of signal(): a call that got past the semaphore
\* does not come back empty-handed, and at most one thread is accounted asleep.
SemaAssertionsHold ==
  /\ blocking /\ wpc = "won" /\ cpc = "look" => cblk # tailBlock
  /\ spc = "signal" => m_count >= -1

\* No assertion of the queue, the wrapper or the semaphore fails.
NoAssertionFails == AssertionsHold /\ SemaAssertionsHold

\* size_approx() of the blocking queue never promises an element that is not inside.
NeverOverstated == blocking /\ alive => Sema!AvailableApprox <= Len(Contents) - (IF wpc = "won" THEN 1 ELSE 0)

\* false from the timed wait leaves the semaphore as it was: with nobody at it, the
\* count is the number of elements and nothing is left posted.
SemaSettled ==
  blocking /\ alive /\ wpc = "idle" /\ ppc = "idle" /\ spc = "idle" =>
    m_count = Len(Contents) /\ m_sema = 0

\* The semaphore's count and the queue's content agree, time-outs and failed
\* allocations included.
CountAgrees == NeverOverstated /\ SemaSettled

\* No wake-up is lost: a consumer in wait_dequeue does not stay there while there
\* is an element.
WaiterWakes == (call = "wait_dequeue" /\ Contents # <<>>) ~> (call = "none")
=============================================================================
