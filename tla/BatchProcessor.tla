--------------------------- MODULE BatchProcessor ---------------------------
(* BatchProcessor of src/otlp_client/processor.py: three bounded queues, a   *)
(* background task, an asyncio.Lock round flush(), and a shutdown that       *)
(* cancels the background task and flushes once more.                        *)
EXTENDS FiniteSets, Asyncio

CONSTANTS Callers,      \* application tasks that call flush()
          Bg,           \* the task that __aenter__ creates, running _run
          Closer,       \* the task that leaves the `async with` block
          MaxQueue,     \* max_queue
          MaxBatch,     \* max_batch
          MaxRecords,   \* bound: records submitted in a behaviour
          SubmitMax,    \* bound: records of one submit_* call
          MaxRejected,  \* bound: rejected count of a partial success
          UsedKinds,    \* bound: the signals the application submits
          WithConsumer  \* does a consumer wait on the `flushed` event?

ASSUME ConstantsAssumption ==
  /\ Bg \notin Callers /\ Closer \notin Callers /\ NoTask \notin Callers
  /\ Bg # Closer /\ Bg # NoTask /\ Closer # NoTask
  /\ MaxQueue \in Nat /\ MaxBatch \in Nat /\ MaxRecords \in Nat
  /\ SubmitMax \in Nat /\ MaxRejected \in Nat
  /\ UsedKinds \subseteq 1..3
  /\ WithConsumer \in BOOLEAN

Tasks == Callers \union {Bg, Closer}
Kinds == 1..3                      \* METRICS, LOGS, TRACES: the dict's order

VARIABLES queue,       \* _queues: per kind, the ids of the waiting records
          submitted,   \* _submitted; a record's id is its submission number
          exported,    \* _exported
          dropped,     \* _dropped
          failures,    \* _consecutive_failures
          lastError,   \* _last_error, by its cause
          wake,        \* _wake
          flushed,     \* flushed
          closed,      \* _closed
          at,          \* the kind a task in flush() has reached
          batch,       \* the records a task in flush() has drained
          refused,     \* history: records the collector answered and rejected
          lost,        \* history: ids counted in _dropped
          lastLoss,    \* history: what the last increment of _dropped was for
          mark,        \* history: _submitted when the task began its flush()
          watch        \* history: id the consumer of `flushed` waits for, or 0

counters == <<submitted, exported, dropped, failures, lastError>>
events   == <<wake, flushed>>
control  == <<pc, at, batch, cancelled, running>>
losses   == <<refused, lost, lastLoss>>
history  == <<losses, mark, watch>>
vars     == <<queue, counters, events, closed, lock, control, history>>

PcOf(t) == {"flush", "lock", "drain", "export"} \union
           (IF t = Bg THEN {"absent", "new", "loop", "wait", "done"}
            ELSE IF t = Closer THEN {"idle", "join", "done", "aborted"}
            ELSE {"idle"})
Points == {"flush", "lock", "drain", "export", "absent", "new", "loop", "wait",
           "idle", "join", "done", "aborted"}

Init ==
  /\ queue = [k \in Kinds |-> <<>>]
  /\ submitted = 0 /\ exported = 0 /\ dropped = 0 /\ failures = 0
  /\ lastError = "none"
  /\ wake = FALSE /\ flushed = FALSE /\ closed = FALSE
  /\ holder = NoTask /\ waiters = <<>> /\ woken = NoTask
  /\ pc = [t \in Tasks |-> IF t = Bg THEN "absent" ELSE "idle"]
  /\ at = [t \in Tasks |-> 1]
  /\ batch = [t \in Tasks |-> <<>>]
  /\ cancelled = [t \in Tasks |-> FALSE]
  /\ running = NoTask
  /\ refused = 0 /\ lost = {} /\ lastLoss = "none" /\ watch = 0
  /\ mark = [t \in Tasks |-> 0]

-----------------------------------------------------------------------------
(* Helpers.                                                                  *)

Monus(m, n) == IF m > n THEN m - n ELSE 0            \* max(0, m - n)

Oldest(s, n) == {s[i] : i \in 1..n}

\* The queue s with n records appended, numbered after `from`.
Appended(s, from, n) == s \o [i \in 1..n |-> from + i]

\* deque(maxlen = m): what is left of s after appending one by one.
Newest(s, m) == IF Len(s) > m THEN SubSeq(s, Len(s) - m + 1, Len(s)) ELSE s

\* A call of flush(); mark[t] remembers what was submitted before it.
BeginFlush(t) == /\ Goto(t, "flush")
                 /\ mark' = [mark EXCEPT ![t] = submitted]

\* Records S leave the system counted in _dropped.
Lose(n, S, cause) == /\ dropped' = dropped + n
                     /\ lost' = lost \union S
                     /\ lastLoss' = IF n > 0 THEN cause ELSE lastLoss

-----------------------------------------------------------------------------
(* Synchronous calls of the application: they run whole, between two steps   *)
(* of the tasks.                                                             *)

\* Mutant: the size trigger fires one record late.
EnqueueWakesLate(k, n) ==
  LET all == Appended(queue[k], submitted, n)
      over == Monus(Len(all), MaxQueue)
  IN  /\ queue' = [queue EXCEPT ![k] = Newest(all, MaxQueue)]
      /\ submitted' = submitted + n
      /\ Lose(over, Oldest(all, over), "overflow")
      /\ wake' = (wake \/ Len(queue'[k]) > MaxBatch)

\* _submit(kind, records) for n records on an open processor.
Enqueue(k, n) ==
  LET all == Appended(queue[k], submitted, n)
      over == Monus(Len(all), MaxQueue)
  IN  /\ queue' = [queue EXCEPT ![k] = Newest(all, MaxQueue)]
      /\ submitted' = submitted + n
      /\ Lose(over, Oldest(all, over), "overflow")
      /\ wake' = (wake \/ Len(queue'[k]) >= MaxBatch)

\* Mutant: a closed processor still queues.
SubmitWhenClosed(k, n) ==
  /\ running = NoTask
  /\ submitted + n <= MaxRecords
  /\ Enqueue(k, n)
  /\ UNCHANGED <<exported, failures, lastError, flushed, closed, lock,
                 control, refused, mark, watch>>

Submit(k, n) ==
  /\ running = NoTask
  /\ ~closed
  /\ submitted + n <= MaxRecords
  /\ Enqueue(k, n)
  /\ UNCHANGED <<exported, failures, lastError, flushed, closed, lock,
                 control, refused, mark, watch>>

\* A consumer: flushed.clear(); submit_*([record]); await flushed.wait().
SubmitAndWait(k) ==
  /\ WithConsumer
  /\ running = NoTask
  /\ ~closed
  /\ watch = 0
  /\ submitted < MaxRecords
  /\ flushed' = FALSE
  /\ Enqueue(k, 1)
  /\ watch' = submitted + 1
  /\ UNCHANGED <<exported, failures, lastError, closed, lock, control,
                 refused, mark>>

\* __aenter__ on a processor that was not entered before.
Aenter ==
  /\ running = NoTask
  /\ ~closed
  /\ pc[Bg] = "absent"
  /\ pc' = [pc EXCEPT ![Bg] = "new"]
  /\ UNCHANGED <<queue, counters, events, closed, lock, at, batch, cancelled,
                 running, history>>

\* An application task calls flush().
CallFlush(c) ==
  /\ Resumable(c, "idle")
  /\ BeginFlush(c)
  /\ UNCHANGED <<queue, counters, events, closed, lock, at, batch, cancelled,
                 losses, watch>>

\* task.cancel() on an application task that is inside flush() or __aexit__
\* (a timeout round the call, the loop shutting down).
CancelTask(t) ==
  /\ running = NoTask
  /\ t # Bg
  /\ pc[t] \in {"lock", "export", "join"}
  /\ ~cancelled[t]
  /\ cancelled' = [cancelled EXCEPT ![t] = TRUE]
  /\ UNCHANGED <<queue, counters, events, closed, lock, pc, at, batch,
                 running, history>>

\* Mutant: __aexit__ waits for the background task without cancelling it.
AexitNoCancel ==
  /\ Resumable(Closer, "idle")
  /\ closed' = TRUE
  /\ IF pc[Bg] \in {"absent", "done"} THEN BeginFlush(Closer)
                                      ELSE Suspend(Closer, "join") /\ UNCHANGED mark
  /\ UNCHANGED <<queue, counters, events, lock, at, batch, cancelled, losses,
                 watch>>

\* __aexit__ up to its first suspension: refuse new work, cancel the background
\* task and join it, or, where none is left to wait for, go on to the final flush.
Aexit ==
  /\ Resumable(Closer, "idle")
  /\ closed' = TRUE
  /\ IF pc[Bg] \in {"absent", "done"}
     THEN /\ BeginFlush(Closer)
          /\ UNCHANGED cancelled
     ELSE /\ Suspend(Closer, "join")
          /\ cancelled' = [cancelled EXCEPT ![Bg] = TRUE]
          /\ UNCHANGED mark
  /\ UNCHANGED <<queue, counters, events, lock, at, batch, losses, watch>>

\* Mutant: __aexit__ cancels the background task and does not wait for its end.
JoinReturnsEarly ==
  /\ running = NoTask
  /\ pc[Closer] = "join"
  /\ cancelled' = [cancelled EXCEPT ![Closer] = FALSE]
  /\ BeginFlush(Closer)
  /\ UNCHANGED <<queue, counters, events, closed, lock, at, batch, losses,
                 watch>>

\* The joined task has ended.  `except asyncio.CancelledError: pass` also
\* swallows a cancellation of the closing task itself.
JoinReturns ==
  /\ running = NoTask
  /\ pc[Closer] = "join"
  /\ pc[Bg] = "done"
  /\ cancelled' = [cancelled EXCEPT ![Closer] = FALSE]
  /\ BeginFlush(Closer)
  /\ UNCHANGED <<queue, counters, events, closed, lock, at, batch, losses,
                 watch>>

-----------------------------------------------------------------------------
(* The background task, _run.                                                *)

BgStart ==
  /\ Resumable(Bg, "new")
  /\ Goto(Bg, "loop")
  /\ UNCHANGED <<queue, counters, events, closed, lock, at, batch, cancelled,
                 history>>

\* wake.clear(); flushed.clear(); then flush().
BeginBgFlush ==
  /\ wake' = FALSE
  /\ flushed' = FALSE
  /\ BeginFlush(Bg)

\* Top of the loop: Event.wait() returns at once when the event is set.
BgTop ==
  /\ running = Bg
  /\ pc[Bg] = "loop"
  /\ IF wake THEN BeginBgFlush
             ELSE Suspend(Bg, "wait") /\ UNCHANGED <<events, mark>>
  /\ UNCHANGED <<queue, counters, closed, lock, at, batch, cancelled, losses,
                 watch>>

\* Mutant: no timeout round wake.wait().
BgWakesOnEvent ==
  /\ Resumable(Bg, "wait")
  /\ wake
  /\ BeginBgFlush
  /\ UNCHANGED <<queue, counters, closed, lock, at, batch, cancelled, losses,
                 watch>>

\* The event is set, or flush_interval has passed.
BgWakes ==
  /\ Resumable(Bg, "wait")
  /\ BeginBgFlush
  /\ UNCHANGED <<queue, counters, closed, lock, at, batch, cancelled, losses,
                 watch>>

\* Cancelled before its first step, or while it waits: _run ends.
BgCancelled ==
  /\ \E p \in {"new", "wait"} : Interrupted(Bg, p)
  /\ Suspend(Bg, "done")
  /\ cancelled' = [cancelled EXCEPT ![Bg] = FALSE]
  /\ UNCHANGED <<queue, counters, events, closed, lock, at, batch, history>>

-----------------------------------------------------------------------------
(* flush(), run by any task.                                                 *)

\* Mutant: flush() without the lock.
AcquireUnlocked(t) ==
  /\ running = t
  /\ pc[t] = "flush"
  /\ holder' = t
  /\ Goto(t, "drain")
  /\ UNCHANGED <<queue, counters, events, closed, waiters, woken, at, batch, cancelled,
                 history>>

\* Lock.acquire: at once when the lock is free and no live waiter is queued.
Acquire(t) ==
  /\ running = t
  /\ pc[t] = "flush"
  /\ IF LockIsFree
     THEN /\ holder' = t
          /\ Goto(t, "drain")
          /\ UNCHANGED waiters
     ELSE /\ waiters' = Append(waiters, t)
          /\ Suspend(t, "lock")
          /\ UNCHANGED holder
  /\ UNCHANGED <<queue, counters, events, closed, woken, at, batch, cancelled,
                 history>>

\* A waiter whose future was resolved takes the lock.
Granted(t) ==
  /\ Resumable(t, "lock")
  /\ woken = t
  /\ holder' = t
  /\ woken' = NoTask
  /\ LeaveWaiters(t)
  /\ Goto(t, "drain")
  /\ UNCHANGED <<queue, counters, events, closed, at, batch, cancelled,
                 history>>

\* What follows flush() in its caller, on normal return.
ReturnFrom(t) ==
  IF t = Bg THEN /\ Goto(t, "loop")
                 /\ flushed' = TRUE
            ELSE /\ Suspend(t, IF t = Closer THEN "done" ELSE "idle")
                 /\ UNCHANGED flushed

\* The next kind from at[t] on that has records: drain it and await the export.
DrainNext(t) ==
  /\ running = t
  /\ pc[t] = "drain"
  /\ \E k \in at[t]..3 :
       /\ queue[k] # <<>>
       /\ \A j \in at[t]..(k - 1) : queue[j] = <<>>
       /\ batch' = [batch EXCEPT ![t] = queue[k]]
       /\ queue' = [queue EXCEPT ![k] = <<>>]
       /\ at' = [at EXCEPT ![t] = k]
  /\ Suspend(t, "export")
  /\ UNCHANGED <<counters, events, closed, lock, cancelled, history>>

\* Mutant: an empty queue ends the flush (`break` for `continue`).
LeaveFlushAtEmpty(t) ==
  /\ running = t
  /\ pc[t] = "drain"
  /\ at[t] \in Kinds => queue[at[t]] = <<>>
  /\ Release
  /\ ReturnFrom(t)
  /\ at' = [at EXCEPT ![t] = 1]
  /\ mark' = [mark EXCEPT ![t] = 0]
  /\ UNCHANGED <<queue, counters, wake, closed, batch, cancelled, losses,
                 watch>>

\* No kind is left: release the lock and return.
LeaveFlush(t) ==
  /\ running = t
  /\ pc[t] = "drain"
  /\ \A k \in at[t]..3 : queue[k] = <<>>
  /\ Release
  /\ ReturnFrom(t)
  /\ at' = [at EXCEPT ![t] = 1]
  /\ mark' = [mark EXCEPT ![t] = 0]
  /\ UNCHANGED <<queue, counters, wake, closed, batch, cancelled, losses,
                 watch>>

\* The export has ended one way or another and the loop goes to the next kind.
NextKind(t) ==
  /\ Resumable(t, "export")
  /\ batch' = [batch EXCEPT ![t] = <<>>]
  /\ at' = [at EXCEPT ![t] = @ + 1]
  /\ Goto(t, "drain")
  /\ UNCHANGED <<queue, submitted, events, closed, lock, cancelled, mark,
                 watch>>

ExportSucceeds(t) ==
  /\ NextKind(t)
  /\ exported' = exported + Len(batch[t])
  /\ failures' = 0
  /\ lastError' = "none"
  /\ UNCHANGED <<dropped, refused, lost, lastLoss>>

\* Mutant: exported += len(batch) - rejected, without max(0, .).
ExportPartialUnclamped(t, r) ==
  /\ NextKind(t)
  /\ exported' = exported + Len(batch[t]) - r
  /\ refused' = refused + r
  /\ failures' = 0
  /\ lastError' = "partial"
  /\ UNCHANGED <<dropped, lost, lastLoss>>

\* PartialSuccess(rejected = r): r may exceed the batch, one metric can hold
\* many data points.
ExportPartial(t, r) ==
  LET accepted == Monus(Len(batch[t]), r)
  IN  /\ NextKind(t)
      /\ exported' = exported + accepted
      /\ refused' = refused + (Len(batch[t]) - accepted)
      /\ failures' = 0
      /\ lastError' = "partial"
      /\ UNCHANGED <<dropped, lost, lastLoss>>

\* Mutant: a failed batch is counted as dropped and put back.
ExportFailsRequeues(t) ==
  /\ Resumable(t, "export")
  /\ batch' = [batch EXCEPT ![t] = <<>>]
  /\ at' = [at EXCEPT ![t] = @ + 1]
  /\ Goto(t, "drain")
  /\ queue' = [queue EXCEPT ![at[t]] = Newest(batch[t] \o @, MaxQueue)]
  /\ Lose(Len(batch[t]), ToSet(batch[t]), "failure")
  /\ failures' = failures + 1
  /\ lastError' = "failure"
  /\ UNCHANGED <<submitted, exported, refused, events, closed, lock,
                 cancelled, mark, watch>>

\* Any exception but CancelledError.
ExportFails(t) ==
  /\ NextKind(t)
  /\ Lose(Len(batch[t]), ToSet(batch[t]), "failure")
  /\ failures' = failures + 1
  /\ lastError' = "failure"
  /\ UNCHANGED <<exported, refused>>

\* What a CancelledError that leaves flush() makes of its caller.
AbortFlush(t) ==
  /\ Suspend(t, IF t = Bg THEN "done"
                ELSE IF t = Closer THEN "aborted" ELSE "idle")
  /\ cancelled' = [cancelled EXCEPT ![t] = FALSE]
  /\ mark' = [mark EXCEPT ![t] = 0]

\* Mutant: a cancelled export forgets its batch.
CancelledInExportUncounted(t) ==
  /\ running = NoTask /\ pc[t] = "export"
  /\ Release
  /\ batch' = [batch EXCEPT ![t] = <<>>]
  /\ at' = [at EXCEPT ![t] = 1]
  /\ AbortFlush(t)
  /\ UNCHANGED <<queue, counters, events, closed, losses, watch>>

\* Mutant: a cancelled export keeps the lock.
CancelledInExportLocked(t) ==
  /\ running = NoTask /\ pc[t] = "export"
  /\ Lose(Len(batch[t]), ToSet(batch[t]), "cancelled")
  /\ batch' = [batch EXCEPT ![t] = <<>>]
  /\ at' = [at EXCEPT ![t] = 1]
  /\ AbortFlush(t)
  /\ UNCHANGED <<queue, submitted, exported, failures, lastError, events,
                 closed, lock, refused, watch>>

\* CancelledError at the export: the drained batch is counted, the lock freed.
\* The task was cancelled, or the export raises one of its own accord, as a call
\* over a gRPC channel does that is closed under it; _run ends by either.
CancelledInExport(t) ==
  /\ running = NoTask /\ pc[t] = "export"
  /\ Lose(Len(batch[t]), ToSet(batch[t]),
          IF t = Bg /\ cancelled[t] THEN "shutdown" ELSE "cancelled")
  /\ Release
  /\ batch' = [batch EXCEPT ![t] = <<>>]
  /\ at' = [at EXCEPT ![t] = 1]
  /\ AbortFlush(t)
  /\ UNCHANGED <<queue, submitted, exported, failures, lastError, events,
                 closed, refused, watch>>

\* Lock.acquire interrupted: leave the queue of waiters, pass the turn on.
CancelledInLock(t) ==
  /\ Interrupted(t, "lock")
  /\ LeaveWaiters(t)
  /\ woken' = IF holder = NoTask THEN WakeFirst(waiters') ELSE woken
  /\ AbortFlush(t)
  /\ UNCHANGED <<queue, counters, events, closed, holder, at, batch, losses,
                 watch>>

-----------------------------------------------------------------------------
ExportEnds(t) == \/ ExportSucceeds(t)
                 \/ \E r \in 0..MaxRejected : ExportPartial(t, r)
                 \/ ExportFails(t)
                 \/ CancelledInExport(t)

FlushStep(t) == \/ Acquire(t) \/ Granted(t) \/ DrainNext(t) \/ LeaveFlush(t)
                \/ CancelledInLock(t) \/ ExportEnds(t)

BgStep == BgStart \/ BgTop \/ BgWakes \/ BgCancelled

Application == \/ \E k \in UsedKinds, n \in 1..SubmitMax : Submit(k, n)
               \/ \E k \in UsedKinds : SubmitAndWait(k)
               \/ Aenter
               \/ \E c \in Callers : CallFlush(c)
               \/ \E t \in Callers \union {Closer} : CancelTask(t)
               \/ Aexit

Next == \/ Application
        \/ BgStep
        \/ JoinReturns
        \/ \E t \in Tasks : FlushStep(t)

Spec == Init /\ [][Next]_vars

\* asyncio's ready queue is first come first served, so a step that is ready
\* again and again is taken; flush_interval passes; an export ends because the
\* client bounds every attempt and the time spent retrying.  Nothing is assumed
\* of the application: it may submit, call, cancel and close, or not.
Fairness ==
  /\ SF_vars(BgStep)
  /\ SF_vars(JoinReturns)
  /\ \A t \in Tasks : SF_vars(FlushStep(t))

FairSpec == Spec /\ Fairness

-----------------------------------------------------------------------------
(* Properties.                                                               *)

Fates == {"future", "queued", "sending", "answered", "lost"}
Queued == UNION {ToSet(queue[k]) : k \in Kinds}
Sending == UNION {ToSet(batch[t]) : t \in Tasks}
Backlog == Len(queue[1]) + Len(queue[2]) + Len(queue[3])
InFlight == IF holder = NoTask THEN 0 ELSE Len(batch[holder])

StoreOK == /\ queue \in [Kinds -> Seq(Nat)]
           /\ submitted \in Nat /\ exported \in Nat /\ dropped \in Nat
           /\ failures \in Nat
           /\ lastError \in {"none", "failure", "partial"}
EventsOK == wake \in BOOLEAN /\ flushed \in BOOLEAN /\ closed \in BOOLEAN
LockOK == /\ holder \in Tasks \union {NoTask}
          /\ waiters \in Seq(Tasks)
          /\ woken \in Tasks \union {NoTask}
ControlOK == /\ pc \in [Tasks -> Points]
             /\ \A t \in Tasks : pc[t] \in PcOf(t)
             /\ at \in [Tasks -> 1..4]
             /\ \A t \in Tasks : pc[t] = "export" => at[t] \in Kinds
             /\ batch \in [Tasks -> Seq(Nat)]
             /\ cancelled \in [Tasks -> BOOLEAN]
             /\ running \in Tasks \union {NoTask}
HistoryOK == /\ refused \in Nat
             /\ lost \subseteq Nat
             /\ lastLoss \in {"none", "overflow", "failure", "cancelled", "shutdown"}
             /\ mark \in [Tasks -> Nat]
             /\ watch \in Nat

\* Every variable has its type (the state __init__ 53-84 declares), every task
\* is at a point of its own code, and a task that exports has a kind to export.
TypeOK == StoreOK /\ EventsOK /\ LockOK /\ ControlOK /\ HistoryOK

\* Every submitted record is in exactly one account: exported, refused by the
\* collector, dropped, waiting, or in the batch of the flush that holds the
\* lock.  No path of flush(), cancellation included, loses count of a batch.
Accounting ==
  submitted = exported + refused + dropped + InFlight + Backlog

\* _dropped counts each lost record once, and never one that is still waiting
\* or being sent.
LostOnce ==
  /\ dropped = Cardinality(lost)
  /\ lost \intersect (Queued \union Sending) = {}

\* Background, requested and final flushes never drain or export side by side.
OneFlushAtATime ==
  \A t, u \in Tasks :
    pc[t] \in {"drain", "export"} /\ pc[u] \in {"drain", "export"} => t = u

\* A full batch is never left to the timer: until the background task ends,
\* _wake is set or the flush it is in has yet to reach that queue.
BgWillDrain(k) == \/ pc[Bg] \in {"flush", "lock"}
                  \/ pc[Bg] = "drain" /\ at[Bg] <= k
                  \/ pc[Bg] = "export" /\ at[Bg] < k

NoLostWakeup ==
  MaxBatch > 0 /\ pc[Bg] # "done" =>
    \A k \in Kinds : Len(queue[k]) >= MaxBatch => wake \/ BgWillDrain(k)

\* flush() settles: when a flush returns, every record submitted before it
\* began has been answered or counted as lost, whichever task drained it.
FlushSettles ==
  [][\A t \in Tasks : pc[t] = "drain" /\ pc'[t] \in {"idle", "loop", "done"} =>
       \A i \in (Queued \union Sending)' : i > mark[t]]_vars

\* Once __aexit__ has joined the background task, that task never touches the
\* queues again; and a shutdown that completes leaves no record behind.
ShutdownIsFinal ==
  /\ pc[Closer] \notin {"idle", "join"} => pc[Bg] \in {"absent", "done"}
  /\ pc[Closer] = "done" =>
       /\ Queued \union Sending = {}
       /\ submitted = exported + refused + dropped

\* While the processor is open and its task alive, no record waits for ever; an
\* export that raises CancelledError of its own accord ends that task.
Live == pc[Bg] \notin {"absent", "done"} /\ ~closed
NoRecordIsStuck ==
  \A i \in 1..MaxRecords :
    (i \in Queued \union Sending /\ Live) ~>
      (i \notin Queued \union Sending \/ closed \/ pc[Bg] = "done")

\* A flush() the application asks for returns, or raises its cancellation.
FlushReturns == \A c \in Callers : pc[c] = "flush" ~> pc[c] = "idle"

\* __aexit__ returns, or raises the cancellation of the task that runs it.
ShutdownEnds == closed ~> pc[Closer] \in {"done", "aborted"}

\* The docstring of __aexit__: "make one final flush, then cancel the task".
\* A shutdown in that order cancels no export of the background task.
FinalFlushBeforeCancel == lastLoss # "shutdown"

\* tests/test_processor.py: a consumer that clears `flushed`, submits and waits
\* blocks until the flush of that record.
FlushedMeansDrained == watch > 0 /\ flushed => watch \notin Queued

\* What the processor promises, record by record.
Fate == [i \in 1..MaxRecords |->
           IF i > submitted THEN "future"
           ELSE IF i \in Queued THEN "queued"
           ELSE IF i \in Sending THEN "sending"
           ELSE IF i \in lost THEN "lost"
           ELSE "answered"]

Ledger == INSTANCE DeliveryLedger WITH
            Records <- 1..MaxRecords, fate <- Fate, open <- ~closed
RefinesLedger == Ledger!Spec
=============================================================================
