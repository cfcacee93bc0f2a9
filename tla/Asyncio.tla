------------------------------- MODULE Asyncio -------------------------------
(* What the library takes from Python's asyncio: an event loop that runs one  *)
(* task at a time, cancellation, and asyncio.Lock.  None of it is code of     *)
(* src/; it is modelled from how src/otlp_client uses it.                     *)
(*                                                                            *)
(* A task gives the loop away only where a coroutine suspends.  `running` is  *)
(* the task that holds the loop: its steps follow each other with nothing in  *)
(* between, and every other task, timer, network answer and synchronous call  *)
(* waits until running = NoTask.                                              *)
EXTENDS Naturals, SequencesExt

CONSTANT NoTask      \* nobody

VARIABLES pc,        \* where each task is
          cancelled, \* a CancelledError is due at the task's suspension
          running,   \* the task that holds the event loop
          holder,    \* the task that holds the lock
          waiters,   \* Lock._waiters, first come first
          woken      \* the waiter whose future release() has resolved

lock == <<holder, waiters, woken>>

\* The task that holds the loop goes to program point p and keeps running.
Goto(t, p) == /\ pc' = [pc EXCEPT ![t] = p]
              /\ running' = t

\* The task suspends (or ends) at program point p: the loop is free.
Suspend(t, p) == /\ pc' = [pc EXCEPT ![t] = p]
                 /\ running' = NoTask

Resumable(t, p) == running = NoTask /\ pc[t] = p /\ ~cancelled[t]
Interrupted(t, p) == running = NoTask /\ pc[t] = p /\ cancelled[t]

\* Lock.acquire returns at once: the lock is free and no live waiter is queued.
LockIsFree == holder = NoTask /\ \A w \in ToSet(waiters) : cancelled[w] /\ w # woken

\* Lock._wake_up_first over the waiters ws.
WakeFirst(ws) ==
  IF ws # <<>> /\ (Head(ws) = woken \/ ~cancelled[Head(ws)])
  THEN Head(ws) ELSE NoTask

\* _waiters.remove(fut), for the future task t waits on.
LeaveWaiters(t) == \E i \in 1..Len(waiters) :
                     /\ waiters[i] = t
                     /\ waiters' = RemoveAt(waiters, i)

\* Lock.release, at the end of `async with lock`.
Release == /\ holder' = NoTask
           /\ woken' = WakeFirst(waiters)
           /\ waiters' = waiters
=============================================================================
