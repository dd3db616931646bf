------------------------ MODULE LightweightSemaphore ------------------------
(***************************************************************************)
(* moodycamel::spsc_sema::LightweightSemaphore: a counter in user space    *)
(* over a POSIX semaphore.  One thread waits, another one signals.  The    *)
(* spinning loop is a choice: it may see a positive count, or give up.     *)
(* Timeouts expire at any time.  Of a deadline only the nanoseconds count, *)
(* in units that make Second of them a second.                             *)
(***************************************************************************)
EXTENDS Integers

CONSTANTS Second, ClockNsecs, TimeoutNsecs  \* the clock's readings; the timeout given

VARIABLES
  m_count,   \* the counter; negative while the waiter may be asleep
  m_sema,    \* the value of the POSIX semaphore
  wpc,       \* the waiter
  call,      \* the call it is in
  spc        \* the signaller

waiter == <<wpc, call>>

Init == m_count = 0 /\ m_sema = 0 /\ wpc = "idle" /\ call = "none" /\ spc = "idle"

Lost == wpc' = "idle" /\ call' = "none"
-----------------------------------------------------------------------------
\* tryWait(), with which wait() and wait(timeout) start too.
TryWait(c) ==
  /\ wpc = "idle"
  /\ IF m_count > 0 THEN wpc' = "dec" /\ call' = c
     ELSE IF c \in {"wait_dequeue", "wait_dequeue_timed"} THEN wpc' = "spin" /\ call' = c
     ELSE Lost
  /\ UNCHANGED <<m_count, m_sema, spc>>

\* The count was seen positive; only this thread makes it smaller.
Decrement ==
  /\ wpc = "dec"
  /\ m_count' = m_count - 1
  /\ wpc' = "won"
  /\ UNCHANGED <<m_sema, call, spc>>

Spin ==
  /\ wpc = "spin" /\ m_count > 0
  /\ wpc' = "dec"
  /\ UNCHANGED <<m_count, m_sema, call, spc>>

StopSpinning ==
  /\ wpc = "spin"
  /\ m_count' = m_count - 1
  /\ wpc' = IF m_count > 0 THEN "won" ELSE "sleep"
  /\ UNCHANGED <<m_sema, call, spc>>

\* Semaphore::wait: interrupted calls are repeated.
SemaWait ==
  /\ wpc = "sleep" /\ call = "wait_dequeue" /\ m_sema > 0
  /\ m_sema' = m_sema - 1
  /\ wpc' = "won"
  /\ UNCHANGED <<m_count, call, spc>>

\* Semaphore::timed_wait: the nanoseconds of the deadline, carried into the seconds
\* when there are too many of them.
Nsec(now) == LET n == now + TimeoutNsecs IN IF n > Second THEN n - Second ELSE n

\* Any error but a timeout is reported as success.  A second or more of nanoseconds
\* is an error (EINVAL) at once.
SemaTimedWait ==
  /\ wpc = "sleep" /\ call = "wait_dequeue_timed"
  /\ \E now \in ClockNsecs :
       LET refused == Nsec(now) >= Second IN
       /\ refused \/ m_sema > 0
       /\ m_sema' = IF refused THEN m_sema ELSE m_sema - 1
  /\ wpc' = "won"
  /\ UNCHANGED <<m_count, call, spc>>

\* Mutant: what a late signal brought is forgotten.
TimeOutForgets ==
  /\ wpc = "sleep" /\ call = "wait_dequeue_timed"
  /\ Lost
  /\ UNCHANGED <<m_count, m_sema, spc>>

TimeOut ==
  /\ wpc = "sleep" /\ call = "wait_dequeue_timed"
  /\ wpc' = "restore"
  /\ UNCHANGED <<m_count, m_sema, call, spc>>

\* Mutant: the count is restored, the signal that came meanwhile is not taken back.
RestoreAlways ==
  /\ wpc = "restore"
  /\ m_count' = m_count + 1
  /\ Lost
  /\ UNCHANGED <<m_sema, spc>>

\* After a timeout the count is put back, unless a signal has come since.
Restore ==
  /\ wpc = "restore"
  /\ m_count' = m_count + 1
  /\ IF m_count < 0 THEN Lost ELSE wpc' = "retake" /\ UNCHANGED call
  /\ UNCHANGED <<m_sema, spc>>

Retake ==
  /\ wpc = "retake"
  /\ m_count' = m_count - 1
  /\ wpc' = IF m_count > 0 THEN "posted" ELSE "restore"
  /\ UNCHANGED <<m_sema, call, spc>>

\* The signaller may have counted and not posted yet: then round the loop again.
TryPosted ==
  /\ wpc = "posted"
  /\ m_sema' = IF m_sema > 0 THEN m_sema - 1 ELSE m_sema
  /\ wpc' = IF m_sema > 0 THEN "won" ELSE "restore"
  /\ UNCHANGED <<m_count, call, spc>>

WaitStep ==
  \/ Decrement \/ Spin \/ StopSpinning \/ SemaWait \/ SemaTimedWait \/ TimeOut
  \/ Restore \/ Retake \/ TryPosted
-----------------------------------------------------------------------------
\* Mutant: only a second waiter would be woken.
SignalOffByOne ==
  /\ spc = "signal"
  /\ m_count' = m_count + 1
  /\ spc' = IF m_count < -1 THEN "post" ELSE "idle"
  /\ UNCHANGED <<m_sema, waiter>>

\* signal(): the waiter is woken only if it may be asleep.
Signal ==
  /\ spc = "signal"
  /\ m_count' = m_count + 1
  /\ spc' = IF m_count < 0 THEN "post" ELSE "idle"
  /\ UNCHANGED <<m_sema, waiter>>

Post ==
  /\ spc = "post"
  /\ m_sema' = m_sema + 1
  /\ spc' = "idle"
  /\ UNCHANGED <<m_count, waiter>>

SignalStep == Signal \/ Post

AvailableApprox == IF m_count > 0 THEN m_count ELSE 0
=============================================================================
