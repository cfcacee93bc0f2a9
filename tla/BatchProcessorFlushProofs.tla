---------------------- MODULE BatchProcessorFlushProofs ----------------------
(* What flush() owes the records that wait: no full batch is left to the     *)
(* timer, a flush that returns has settled what was submitted before it, and *)
(* a shutdown that completes leaves nothing behind.                          *)
EXTENDS BatchProcessorProofs

\* The points of flush() between acquire and release.
Inside == {"drain", "export"}

-----------------------------------------------------------------------------
(* SettleInv.                                                                *)

LEMMA InitSettle == Init => SettleInv
<1> SUFFICES ASSUME Init PROVE SettleInv
  OBVIOUS
<1>1. \A t \in Tasks : at[t] = 1 /\ mark[t] = 0 /\ submitted = 0
  BY DEF Init
<1>2. \A k \in Kinds : ToSet(queue[k]) = {}
  BY EmptySeq, LenProperties DEF Init, ToSet
<1> QED
  BY <1>1, <1>2 DEF SettleInv, Done

\* A task moves outside the section the lock guards, and nothing else does.
LEMMA SettleQuiet ==
  ASSUME TypeOK, SettleInv, NEW t \in Tasks, NEW p,
         pc[t] \notin Inside, p # "export",
         pc' = [pc EXCEPT ![t] = p], UNCHANGED <<queue, submitted, at>>,
         mark' = mark \/ mark' = [mark EXCEPT ![t] = submitted]
                      \/ mark' = [mark EXCEPT ![t] = 0]
  PROVE  SettleInv'
<1>1. \A u \in Tasks : pc'[u] = IF u = t THEN p ELSE pc[u]
  BY DEF TypeOK, ControlOK
<1>2. \A u \in Tasks : mark'[u] = mark[u] \/ (u = t /\ mark'[u] \in {0, submitted})
  BY DEF TypeOK, HistoryOK
<1>3. at[t] = 1
  BY DEF SettleInv, Inside
<1>4. Done(t)' = {}
  BY <1>1, <1>3 DEF Done, Kinds
<1>5. \A u \in Tasks \ {t} : Done(u)' = Done(u)
  BY <1>1 DEF Done
<1>6. \A u \in Tasks : mark'[u] <= submitted'
  BY <1>2 DEF SettleInv, TypeOK, StoreOK
<1>7. \A u \in Tasks : pc'[u] \notin Inside => at'[u] = 1
  BY <1>1, <1>3 DEF SettleInv, Inside
<1>8. \A u \in Tasks \ {t} : \A k \in Done(u)' : \A i \in ToSet(queue'[k]) : i > mark'[u]
  BY <1>2, <1>5 DEF SettleInv
<1> QED
  BY <1>4, <1>6, <1>7, <1>8 DEF SettleInv, Inside

\* A flush that ends has no kind behind it any more.
LEMMA SettleEnd ==
  ASSUME TypeOK, SettleInv, NEW t \in Tasks, NEW p, p # "export",
         pc' = [pc EXCEPT ![t] = p], UNCHANGED <<queue, submitted>>,
         at' = [at EXCEPT ![t] = 1], mark' = [mark EXCEPT ![t] = 0]
  PROVE  SettleInv'
<1>1. \A u \in Tasks : /\ pc'[u] = IF u = t THEN p ELSE pc[u]
                       /\ at'[u] = IF u = t THEN 1 ELSE at[u]
                       /\ mark'[u] = IF u = t THEN 0 ELSE mark[u]
  BY DEF TypeOK, ControlOK, HistoryOK
<1>2. Done(t)' = {}
  BY <1>1 DEF Done, Kinds
<1>3. \A u \in Tasks \ {t} : Done(u)' = Done(u)
  BY <1>1 DEF Done
<1>4. \A u \in Tasks : mark'[u] <= submitted'
  BY <1>1 DEF SettleInv, TypeOK, StoreOK
<1>5. \A u \in Tasks : pc'[u] \notin Inside => at'[u] = 1
  BY <1>1 DEF SettleInv, Inside
<1> QED
  BY <1>1, <1>2, <1>3, <1>4, <1>5 DEF SettleInv, Inside

\* New records are younger than every flush under way.
LEMMA SettleEnqueue ==
  ASSUME TypeOK, SettleInv, NEW k \in Kinds, NEW n \in Nat, Enqueue(k, n),
         UNCHANGED <<pc, at, mark>>
  PROVE  SettleInv'
<1> DEFINE q == queue[k]
           new == Newest(Appended(q, submitted, n), MaxQueue)
<1>1. q \in Seq(Nat) /\ submitted \in Nat /\ MaxQueue \in Nat
  BY ConstantsAssumption DEF TypeOK, StoreOK
<1>2. queue' = [queue EXCEPT ![k] = new] /\ submitted' = submitted + n
  BY DEF Enqueue
<1>3. /\ new \in Seq(Nat)
      /\ \A x \in ToSet(new) : x \in ToSet(q) \/ x > submitted
  BY <1>1, EnqueueProperties, Zenon
<1>4. ToSet(new) \subseteq Nat
  BY <1>3, LenProperties, ElementOfSeq DEF ToSet
<1> HIDE DEF new
<1>5. \A u \in Tasks : mark[u] \in Nat /\ mark[u] <= submitted
  BY DEF SettleInv, TypeOK, HistoryOK
<1>6. \A u \in Tasks : Done(u)' = Done(u)
  BY DEF Done
<1>7. \A j \in Kinds : queue'[j] = IF j = k THEN new ELSE queue[j]
  BY <1>2 DEF TypeOK, StoreOK
<1>8. \A u \in Tasks : mark'[u] <= submitted'
  BY <1>1, <1>2, <1>5
<1>9. \A u \in Tasks : \A j \in Done(u) : \A i \in ToSet(queue'[j]) : i > mark[u]
  <2> SUFFICES ASSUME NEW u \in Tasks, NEW j \in Done(u), NEW i \in ToSet(queue'[j])
               PROVE  i > mark[u]
    OBVIOUS
  <2>1. j \in Kinds
    BY DEF Done
  <2>2. CASE i \in ToSet(queue[j])
    BY <2>2 DEF SettleInv
  <2>3. CASE i \notin ToSet(queue[j])
    <3>1. i \in Nat /\ i > submitted
      BY <1>3, <1>4, <1>7, <2>1, <2>3
    <3> QED
      BY <1>1, <1>5, <3>1
  <2> QED
    BY <2>2, <2>3
<1> QED
  BY <1>6, <1>8, <1>9 DEF SettleInv

\* A flush drains the next queue that is not empty: those it skips are.
LEMMA SettleDrain ==
  ASSUME TypeOK, SettleInv, NEW t \in Tasks, DrainNext(t)
  PROVE  SettleInv'
<1>1. PICK k \in at[t]..3 : /\ \A j \in at[t]..(k - 1) : queue[j] = <<>>
                            /\ queue' = [queue EXCEPT ![k] = <<>>]
                            /\ at' = [at EXCEPT ![t] = k]
  BY DEF DrainNext
<1>2. at[t] \in 1..4 /\ k \in Kinds
  <2>1. at[t] \in 1..4
    BY DEF TypeOK, ControlOK
  <2> QED
    BY <1>1, <2>1 DEF Kinds
<1>3. pc' = [pc EXCEPT ![t] = "export"] /\ submitted' = submitted /\ mark' = mark
  BY DEF DrainNext, Suspend, counters, history
<1>4. \A u \in Tasks : /\ pc'[u] = IF u = t THEN "export" ELSE pc[u]
                       /\ at'[u] = IF u = t THEN k ELSE at[u]
  BY <1>1, <1>3 DEF TypeOK, ControlOK
<1>5. \A j \in Kinds : queue'[j] = IF j = k THEN <<>> ELSE queue[j]
  BY <1>1 DEF TypeOK, StoreOK
<1>6. ToSet(<<>>) = {}
  BY DEF ToSet
<1>7. \A u \in Tasks \ {t} : Done(u)' = Done(u)
  BY <1>4 DEF Done
<1>8. \A j \in Done(t)' : j \in Done(t) \/ queue'[j] = <<>>
  <2> SUFFICES ASSUME NEW j \in Kinds, j <= k
               PROVE  j \in Done(t) \/ queue'[j] = <<>>
    BY <1>2, <1>4 DEF Done, Kinds
  <2>1. CASE j < at[t]
    BY <2>1 DEF Done
  <2>2. CASE ~(j < at[t]) /\ j < k
    <3>1. j \in at[t]..(k - 1)
      BY <1>2, <2>2 DEF Kinds
    <3> QED
      BY <1>1, <1>5, <2>2, <3>1
  <2>3. CASE j = k
    BY <1>5, <2>3
  <2> QED
    BY <1>2, <2>1, <2>2, <2>3 DEF Kinds
<1>9. \A u \in Tasks : \A j \in Done(u)' : \A i \in ToSet(queue'[j]) : i > mark'[u]
  <2> SUFFICES ASSUME NEW u \in Tasks, NEW j \in Done(u)', NEW i \in ToSet(queue'[j])
               PROVE  i > mark[u]
    BY <1>3
  <2>1. queue'[j] # <<>> /\ j \in Kinds
    BY <1>6 DEF Done
  <2>2. queue'[j] = queue[j]
    BY <1>5, <2>1
  <2>3. j \in Done(u)
    BY <1>7, <1>8, <2>1
  <2> QED
    BY <2>2, <2>3 DEF SettleInv
<1>10. \A u \in Tasks : pc'[u] \notin Inside => at'[u] = 1
  BY <1>4 DEF SettleInv, Inside
<1> QED
  BY <1>3, <1>9, <1>10 DEF SettleInv, Inside

LEMMA NextSettle == TypeOK /\ SettleInv /\ [Next]_vars => SettleInv'
<1> SUFFICES ASSUME TypeOK, SettleInv, [Next]_vars PROVE SettleInv'
  OBVIOUS
<1>1. Bg \in Tasks /\ Closer \in Tasks /\ Callers \subseteq Tasks
  BY DEF Tasks
<1>2. UNCHANGED <<queue, submitted, at, mark, pc>> => SettleInv'
  BY DEF SettleInv, Done
<1> USE DEF Inside
<1>3. CASE Application
  <2>1. ASSUME NEW k \in UsedKinds, NEW n \in 1..SubmitMax, Submit(k, n)
        PROVE  SettleInv'
    <3>1. k \in Kinds /\ n \in Nat
      BY ConstantsAssumption DEF Kinds
    <3> QED
      BY <2>1, <3>1, SettleEnqueue DEF Submit, control
  <2>2. ASSUME NEW k \in UsedKinds, SubmitAndWait(k) PROVE SettleInv'
    <3>1. k \in Kinds /\ 1 \in Nat
      BY ConstantsAssumption DEF Kinds
    <3> QED
      BY <2>2, <3>1, SettleEnqueue DEF SubmitAndWait, control
  <2>3. CASE Aenter
    BY <1>1, <2>3, SettleQuiet DEF Aenter, counters, history
  <2>4. ASSUME NEW c \in Callers, CallFlush(c) PROVE SettleInv'
    BY <1>1, <2>4, SettleQuiet DEF CallFlush, BeginFlush, Goto, Resumable, counters
  <2>5. ASSUME NEW t \in Callers \union {Closer}, CancelTask(t) PROVE SettleInv'
    BY <1>2, <2>5 DEF CancelTask, counters, history
  <2>6. CASE Aexit
    <3>1. CASE pc[Bg] \in {"absent", "done"}
      BY <1>1, <2>6, <3>1, SettleQuiet
      DEF Aexit, BeginFlush, Goto, Resumable, counters
    <3>2. CASE pc[Bg] \notin {"absent", "done"}
      BY <1>1, <2>6, <3>2, SettleQuiet DEF Aexit, Suspend, Resumable, counters
    <3> QED
      BY <3>1, <3>2
  <2> QED
    BY <1>3, <2>1, <2>2, <2>3, <2>4, <2>5, <2>6 DEF Application
<1>4. CASE BgStep
  <2>1. CASE BgStart
    BY <1>1, <2>1, SettleQuiet DEF BgStart, Goto, Resumable, counters, history
  <2>2. CASE BgTop
    <3>1. CASE wake
      BY <1>1, <2>2, <3>1, SettleQuiet
      DEF BgTop, BeginBgFlush, BeginFlush, Goto, counters
    <3>2. CASE ~wake
      BY <1>1, <2>2, <3>2, SettleQuiet DEF BgTop, Suspend, counters
    <3> QED
      BY <3>1, <3>2
  <2>3. CASE BgWakes
    BY <1>1, <2>3, SettleQuiet
    DEF BgWakes, BeginBgFlush, BeginFlush, Goto, Resumable, counters
  <2>4. CASE BgCancelled
    BY <1>1, <2>4, SettleQuiet DEF BgCancelled, Suspend, Interrupted, counters, history
  <2> QED
    BY <1>4, <2>1, <2>2, <2>3, <2>4 DEF BgStep
<1>5. CASE JoinReturns
  BY <1>1, <1>5, SettleQuiet DEF JoinReturns, BeginFlush, Goto, counters
<1>6. ASSUME NEW t \in Tasks, FlushStep(t) PROVE SettleInv'
  <2>1. CASE Acquire(t)
    <3>1. PICK p \in {"drain", "lock"} : pc' = [pc EXCEPT ![t] = p]
      BY <2>1 DEF Acquire, Goto, Suspend
    <3> QED
      BY <2>1, <3>1, SettleQuiet DEF Acquire, counters, history
  <2>2. CASE Granted(t)
    BY <2>2, SettleQuiet DEF Granted, Goto, Resumable, counters, history
  <2>3. CASE DrainNext(t)
    BY <2>3, SettleDrain
  <2>4. CASE LeaveFlush(t)
    <3>1. PICK p \in {"loop", "done", "idle"} : pc' = [pc EXCEPT ![t] = p]
      BY <2>4 DEF LeaveFlush, ReturnFrom, Goto, Suspend
    <3> QED
      BY <2>4, <3>1, SettleEnd DEF LeaveFlush, counters
  <2>5. CASE CancelledInLock(t)
    <3>1. PICK p \in {"done", "aborted", "idle"} : pc' = [pc EXCEPT ![t] = p]
      BY <2>5 DEF CancelledInLock, AbortFlush, Suspend
    <3> QED
      BY <2>5, <3>1, SettleQuiet DEF CancelledInLock, AbortFlush, Interrupted, counters
  <2>6. CASE NextKind(t)
    <3>1. /\ pc[t] = "export" /\ pc' = [pc EXCEPT ![t] = "drain"]
          /\ at' = [at EXCEPT ![t] = @ + 1]
          /\ UNCHANGED <<queue, submitted, mark>>
      BY <2>6 DEF NextKind, Goto, Resumable
    <3>2. \A u \in Tasks : /\ pc'[u] = IF u = t THEN "drain" ELSE pc[u]
                           /\ at'[u] = IF u = t THEN at[u] + 1 ELSE at[u]
                           /\ at[u] \in 1..4
      BY <3>1 DEF TypeOK, ControlOK
    <3>3. \A u \in Tasks : Done(u)' = Done(u)
      BY <3>1, <3>2 DEF Done, Kinds
    <3> QED
      BY <3>1, <3>2, <3>3 DEF SettleInv
  <2>7. CASE CancelledInExport(t)
    <3>1. PICK p \in {"done", "aborted", "idle"} : pc' = [pc EXCEPT ![t] = p]
      BY <2>7 DEF CancelledInExport, AbortFlush, Suspend
    <3> QED
      BY <2>7, <3>1, SettleEnd DEF CancelledInExport, AbortFlush
  <2> QED
    BY <1>6, <2>1, <2>2, <2>3, <2>4, <2>5, <2>6, <2>7
    DEF FlushStep, ExportEnds, ExportSucceeds, ExportPartial, ExportFails
<1>7. CASE UNCHANGED vars
  BY <1>2, <1>7 DEF vars, control, counters, history
<1> QED
  BY <1>3, <1>4, <1>5, <1>6, <1>7 DEF Next

\* Only the step that returns from flush() takes a task out of the loop over
\* the kinds without an export.
LEMMA LeavesByReturn ==
  ASSUME TypeOK, [Next]_vars, NEW t \in Tasks,
         pc[t] = "drain", pc'[t] \in {"idle", "loop", "done"}
  PROVE  LeaveFlush(t)
<1>1. Bg \in Tasks /\ Closer \in Tasks /\ Callers \subseteq Tasks
  BY DEF Tasks
<1>2. ASSUME NEW u \in Tasks, NEW p, pc' = [pc EXCEPT ![u] = p] PROVE u = t
  BY <1>2 DEF TypeOK, ControlOK
<1>3. pc' # pc
  OBVIOUS
<1>4. ~Application
  <2>1. \A k \in UsedKinds, n \in 1..SubmitMax : ~Submit(k, n)
    BY <1>3 DEF Submit, control
  <2>2. \A k \in UsedKinds : ~SubmitAndWait(k)
    BY <1>3 DEF SubmitAndWait, control
  <2>3. ~Aenter
    BY <1>1, <1>2 DEF Aenter
  <2>4. \A c \in Callers : ~CallFlush(c)
    BY <1>1, <1>2 DEF CallFlush, BeginFlush, Goto, Resumable
  <2>5. \A u \in Callers \union {Closer} : ~CancelTask(u)
    BY <1>3 DEF CancelTask
  <2>6. ~Aexit
    BY <1>1, <1>2 DEF Aexit, BeginFlush, Goto, Suspend, Resumable
  <2> QED
    BY <2>1, <2>2, <2>3, <2>4, <2>5, <2>6 DEF Application
<1>5. ~BgStep
  <2>1. ~BgStart /\ ~BgWakes /\ ~BgCancelled
    BY <1>1, <1>2 DEF BgStart, BgWakes, BgCancelled, BeginBgFlush, BeginFlush,
                      Goto, Suspend, Resumable, Interrupted
  <2>2. ~BgTop
    BY <1>1, <1>2 DEF BgTop, BeginBgFlush, BeginFlush, Goto, Suspend
  <2> QED
    BY <2>1, <2>2 DEF BgStep
<1>6. ~JoinReturns
  BY <1>1, <1>2 DEF JoinReturns, BeginFlush, Goto
<1>7. ASSUME NEW u \in Tasks, FlushStep(u) PROVE LeaveFlush(t)
  <2>1. ~Acquire(u)
    BY <1>2 DEF Acquire, Goto, Suspend
  <2>2. ~Granted(u)
    BY <1>2 DEF Granted, Goto, Resumable
  <2>3. ~DrainNext(u)
    <3> SUFFICES ASSUME DrainNext(u) PROVE FALSE
      OBVIOUS
    <3>1. pc' = [pc EXCEPT ![u] = "export"]
      BY DEF DrainNext, Suspend
    <3> QED
      BY <3>1 DEF TypeOK, ControlOK
  <2>4. ~CancelledInLock(u)
    <3> SUFFICES ASSUME CancelledInLock(u) PROVE FALSE
      OBVIOUS
    <3>1. PICK p \in {"done", "aborted", "idle"} : pc' = [pc EXCEPT ![u] = p]
      BY DEF CancelledInLock, AbortFlush, Suspend
    <3> QED
      BY <1>2, <3>1 DEF CancelledInLock, Interrupted
  <2>5. ~NextKind(u)
    BY <1>2 DEF NextKind, Goto, Resumable
  <2>6. ~CancelledInExport(u)
    <3> SUFFICES ASSUME CancelledInExport(u) PROVE FALSE
      OBVIOUS
    <3>1. PICK p \in {"done", "aborted", "idle"} : pc' = [pc EXCEPT ![u] = p]
      BY DEF CancelledInExport, AbortFlush, Suspend
    <3> QED
      BY <1>2, <3>1 DEF CancelledInExport, Interrupted
  <2>7. LeaveFlush(u)
    BY <1>7, <2>1, <2>2, <2>3, <2>4, <2>5, <2>6
    DEF FlushStep, ExportEnds, ExportSucceeds, ExportPartial, ExportFails
  <2>8. PICK p \in {"loop", "done", "idle"} : pc' = [pc EXCEPT ![u] = p]
    BY <2>7 DEF LeaveFlush, ReturnFrom, Goto, Suspend
  <2> QED
    BY <1>2, <2>7, <2>8
<1>8. ~UNCHANGED vars
  BY <1>3 DEF vars, control
<1> QED
  BY <1>4, <1>5, <1>6, <1>7, <1>8 DEF Next

\* flush() settles, whoever drained a record: when a call of flush() returns,
\* every record submitted before the call has been answered or counted as lost.
THEOREM FlushesSettle == Spec => FlushSettles
<1> DEFINE Settles(t) == pc[t] = "drain" /\ pc'[t] \in {"idle", "loop", "done"} =>
                           \A i \in (Queued \union Sending)' : i > mark[t]
<1>1. ASSUME TypeOK, LockInv, SettleInv, [Next]_vars, NEW t \in Tasks
      PROVE  Settles(t)
  <2> SUFFICES ASSUME pc[t] = "drain", pc'[t] \in {"idle", "loop", "done"},
                      NEW i \in (Queued \union Sending)'
               PROVE  i > mark[t]
    OBVIOUS
  <2>1. LeaveFlush(t)
    BY <1>1, LeavesByReturn
  <2>2. queue' = queue /\ batch' = batch /\ \A k \in at[t]..3 : queue[k] = <<>>
    BY <2>1 DEF LeaveFlush
  <2>3. \A u \in Tasks : batch[u] = <<>>
    <3>1. holder = t
      BY <1>1, <2>1 DEF LeaveFlush, LockInv
    <3>2. \A u \in Tasks : pc[u] = "export" => u = t
      BY <1>1, <3>1 DEF LockInv
    <3> QED
      BY <1>1, <3>2 DEF LockInv
  <2>4. ToSet(<<>>) = {}
    BY DEF ToSet
  <2>5. i \in Queued
    BY <2>2, <2>3, <2>4 DEF Queued, Sending
  <2>6. PICK k \in Kinds : i \in ToSet(queue[k])
    BY <2>5 DEF Queued
  <2>7. at[t] \in 1..4
    BY <1>1 DEF TypeOK, ControlOK
  <2>8. k < at[t]
    BY <2>2, <2>4, <2>6, <2>7 DEF Kinds
  <2>9. k \in Done(t)
    BY <2>8 DEF Done
  <2> QED
    BY <1>1, <2>6, <2>9 DEF SettleInv
<1>2. TypeOK /\ LockInv /\ SettleInv /\ [Next]_vars
      => [\A t \in Tasks : Settles(t)]_vars
  BY <1>1
<1>3. Spec => [](TypeOK /\ LockInv /\ SettleInv)
  BY InitTypeOK, NextTypeOK, InitLock, NextLock, InitSettle, NextSettle, PTL DEF Spec
<1> QED
  BY <1>2, <1>3, PTL DEF Spec, FlushSettles

-----------------------------------------------------------------------------
(* The size trigger.                                                         *)

LEMMA InitWakeup == Init => NoLostWakeup
<1> SUFFICES ASSUME Init PROVE NoLostWakeup
  OBVIOUS
<1>1. \A k \in Kinds : Len(queue[k]) = 0
  BY EmptySeq DEF Init
<1> QED
  BY <1>1, ConstantsAssumption DEF NoLostWakeup

\* Another task than the background one moves, and queues only get shorter.
LEMMA WakeupOther ==
  ASSUME TypeOK, NoLostWakeup, NEW t \in Tasks, t # Bg, NEW p,
         pc' = [pc EXCEPT ![t] = p], at'[Bg] = at[Bg], wake' = wake,
         \A k \in Kinds : queue'[k] \in {queue[k], <<>>}
  PROVE  NoLostWakeup'
<1>1. pc'[Bg] = pc[Bg]
  BY DEF TypeOK, ControlOK, Tasks
<1>2. \A k \in Kinds : MaxBatch > 0 /\ Len(queue'[k]) >= MaxBatch => queue'[k] = queue[k]
  BY EmptySeq, ConstantsAssumption
<1>3. \A k \in Kinds : BgWillDrain(k)' = BgWillDrain(k)
  BY <1>1 DEF BgWillDrain
<1> QED
  BY <1>1, <1>2, <1>3 DEF NoLostWakeup

\* A submission that fills a batch sets the event.
LEMMA WakeupEnqueue ==
  ASSUME TypeOK, NoLostWakeup, NEW k \in Kinds, NEW n \in Nat, Enqueue(k, n),
         UNCHANGED <<pc, at>>
  PROVE  NoLostWakeup'
<1>1. /\ \A j \in Kinds \ {k} : queue'[j] = queue[j]
      /\ wake' = (wake \/ Len(queue'[k]) >= MaxBatch)
  BY DEF Enqueue, TypeOK, StoreOK
<1>2. \A j \in Kinds : BgWillDrain(j)' = BgWillDrain(j)
  BY DEF BgWillDrain
<1> QED
  BY <1>1, <1>2 DEF NoLostWakeup

\* The background task is on its way to every queue, or has ended.
LEMMA WakeupAhead ==
  ASSUME pc'[Bg] \in {"flush", "lock", "done"} \/ (pc'[Bg] = "drain" /\ at'[Bg] = 1)
  PROVE  NoLostWakeup'
BY DEF NoLostWakeup, BgWillDrain, Kinds

LEMMA NextWakeup == TypeOK /\ SettleInv /\ NoLostWakeup /\ [Next]_vars => NoLostWakeup'
<1> SUFFICES ASSUME TypeOK, SettleInv, NoLostWakeup, [Next]_vars PROVE NoLostWakeup'
  OBVIOUS
<1>1. Bg \in Tasks /\ Closer \in Tasks /\ Callers \subseteq Tasks
      /\ Bg # Closer /\ Bg \notin Callers
  BY ConstantsAssumption DEF Tasks
<1>2. UNCHANGED <<queue, at, pc, wake>> => NoLostWakeup'
  BY DEF NoLostWakeup, BgWillDrain
<1>3. ASSUME NEW p, pc' = [pc EXCEPT ![Bg] = p] PROVE pc'[Bg] = p
  BY <1>1, <1>3 DEF TypeOK, ControlOK
<1>4. ASSUME pc[Bg] \notin {"flush", "lock", "drain", "export", "done"},
             NEW p, pc' = [pc EXCEPT ![Bg] = p], UNCHANGED <<queue, wake>>
      PROVE  NoLostWakeup'
  BY <1>3, <1>4 DEF NoLostWakeup, BgWillDrain
<1>5. CASE Application
  <2>1. ASSUME NEW k \in UsedKinds, NEW n \in 1..SubmitMax, Submit(k, n)
        PROVE  NoLostWakeup'
    <3>1. k \in Kinds /\ n \in Nat
      BY ConstantsAssumption DEF Kinds
    <3> QED
      BY <2>1, <3>1, WakeupEnqueue DEF Submit, control
  <2>2. ASSUME NEW k \in UsedKinds, SubmitAndWait(k) PROVE NoLostWakeup'
    <3>1. k \in Kinds /\ 1 \in Nat
      BY ConstantsAssumption DEF Kinds
    <3> QED
      BY <2>2, <3>1, WakeupEnqueue DEF SubmitAndWait, control
  <2>3. CASE Aenter
    BY <1>4, <2>3 DEF Aenter, events
  <2>4. ASSUME NEW c \in Callers, CallFlush(c) PROVE NoLostWakeup'
    BY <1>1, <2>4, WakeupOther DEF CallFlush, BeginFlush, Goto, events
  <2>5. ASSUME NEW t \in Callers \union {Closer}, CancelTask(t) PROVE NoLostWakeup'
    BY <1>2, <2>5 DEF CancelTask, events
  <2>6. CASE Aexit
    <3>1. PICK p \in {"flush", "join"} : pc' = [pc EXCEPT ![Closer] = p]
      BY <2>6 DEF Aexit, BeginFlush, Goto, Suspend
    <3> QED
      BY <1>1, <2>6, <3>1, WakeupOther DEF Aexit, events
  <2> QED
    BY <1>5, <2>1, <2>2, <2>3, <2>4, <2>5, <2>6 DEF Application
<1>6. CASE BgStep
  <2>1. CASE BgStart
    BY <1>4, <2>1 DEF BgStart, Goto, Resumable, events
  <2>2. CASE BgTop
    <3>1. CASE wake
      BY <1>3, <2>2, <3>1, WakeupAhead DEF BgTop, BeginBgFlush, BeginFlush, Goto
    <3>2. CASE ~wake
      BY <1>4, <2>2, <3>2 DEF BgTop, Suspend, events
    <3> QED
      BY <3>1, <3>2
  <2>3. CASE BgWakes
    BY <1>3, <2>3, WakeupAhead DEF BgWakes, BeginBgFlush, BeginFlush, Goto
  <2>4. CASE BgCancelled
    BY <1>3, <2>4, WakeupAhead DEF BgCancelled, Suspend
  <2> QED
    BY <1>6, <2>1, <2>2, <2>3, <2>4 DEF BgStep
<1>7. CASE JoinReturns
  BY <1>1, <1>7, WakeupOther DEF JoinReturns, BeginFlush, Goto, events
<1>8. ASSUME NEW t \in Tasks, t # Bg, FlushStep(t) PROVE NoLostWakeup'
  <2>1. PICK p : pc' = [pc EXCEPT ![t] = p]
    BY <1>8 DEF FlushStep, Acquire, Granted, DrainNext, LeaveFlush, ReturnFrom,
                CancelledInLock, AbortFlush, ExportEnds, ExportSucceeds,
                ExportPartial, ExportFails, NextKind, CancelledInExport, Goto, Suspend
  <2>2. wake' = wake /\ at'[Bg] = at[Bg]
    BY <1>1, <1>8 DEF FlushStep, Acquire, Granted, DrainNext, LeaveFlush,
                CancelledInLock, ExportEnds, ExportSucceeds, ExportPartial,
                ExportFails, NextKind, CancelledInExport, events, TypeOK, ControlOK
  <2>3. \A k \in Kinds : queue'[k] \in {queue[k], <<>>}
    BY <1>8 DEF FlushStep, Acquire, Granted, DrainNext, LeaveFlush,
                CancelledInLock, ExportEnds, ExportSucceeds, ExportPartial,
                ExportFails, NextKind, CancelledInExport, TypeOK, StoreOK
  <2> QED
    BY <1>8, <2>1, <2>2, <2>3, WakeupOther
<1>9. CASE FlushStep(Bg)
  <2>1. CASE Acquire(Bg)
    <3>1. PICK p \in {"drain", "lock"} : pc' = [pc EXCEPT ![Bg] = p]
      BY <2>1 DEF Acquire, Goto, Suspend
    <3>2. at'[Bg] = 1
      BY <1>1, <2>1 DEF Acquire, SettleInv
    <3> QED
      BY <1>3, <3>1, <3>2, WakeupAhead
  <2>2. CASE Granted(Bg)
    <3>1. at'[Bg] = 1
      BY <1>1, <2>2 DEF Granted, Resumable, SettleInv
    <3> QED
      BY <1>3, <2>2, <3>1, WakeupAhead DEF Granted, Goto
  <2>3. CASE DrainNext(Bg)
    <3>1. PICK k \in at[Bg]..3 : /\ \A j \in at[Bg]..(k - 1) : queue[j] = <<>>
                                 /\ queue' = [queue EXCEPT ![k] = <<>>]
                                 /\ at' = [at EXCEPT ![Bg] = k]
      BY <2>3 DEF DrainNext
    <3>2. at[Bg] \in 1..4 /\ k \in Kinds
      <4>1. at[Bg] \in 1..4
        BY <1>1 DEF TypeOK, ControlOK
      <4> QED
        BY <3>1, <4>1 DEF Kinds
    <3>3. pc[Bg] = "drain" /\ pc'[Bg] = "export" /\ at'[Bg] = k /\ wake' = wake
      BY <1>1, <1>3, <2>3, <3>1 DEF DrainNext, Suspend, events, TypeOK, ControlOK
    <3>4. \A j \in Kinds : queue'[j] = IF j = k THEN <<>> ELSE queue[j]
      BY <3>1 DEF TypeOK, StoreOK
    <3> SUFFICES ASSUME MaxBatch > 0, NEW j \in Kinds, Len(queue'[j]) >= MaxBatch, ~wake'
                 PROVE  at'[Bg] < j
      BY <3>3 DEF NoLostWakeup, BgWillDrain
    <3>5. queue'[j] # <<>>
      BY EmptySeq, ConstantsAssumption
    <3>6. queue[j] # <<>> /\ j # k /\ Len(queue[j]) >= MaxBatch
      BY <3>4, <3>5
    <3>7. at[Bg] <= j
      BY <3>3, <3>6 DEF NoLostWakeup, BgWillDrain
    <3>8. ~(j \in at[Bg]..(k - 1))
      BY <3>1, <3>6
    <3> QED
      BY <3>2, <3>3, <3>6, <3>7, <3>8 DEF Kinds
  <2>4. CASE LeaveFlush(Bg)
    <3>1. /\ pc[Bg] = "drain" /\ pc'[Bg] = "loop" /\ queue' = queue /\ wake' = wake
          /\ \A k \in at[Bg]..3 : queue[k] = <<>>
      BY <1>3, <2>4 DEF LeaveFlush, ReturnFrom, Goto
    <3>2. at[Bg] \in 1..4
      BY <1>1 DEF TypeOK, ControlOK
    <3> SUFFICES ASSUME MaxBatch > 0, NEW j \in Kinds, Len(queue[j]) >= MaxBatch
                 PROVE  wake
      BY <3>1 DEF NoLostWakeup
    <3>3. queue[j] # <<>>
      BY EmptySeq, ConstantsAssumption
    <3>4. ~(at[Bg] <= j)
      BY <3>1, <3>2, <3>3 DEF Kinds
    <3> QED
      BY <3>1, <3>4 DEF NoLostWakeup, BgWillDrain
  <2>5. CASE CancelledInLock(Bg) \/ CancelledInExport(Bg)
    <3>1. pc' = [pc EXCEPT ![Bg] = "done"]
      BY <2>5 DEF CancelledInLock, CancelledInExport, AbortFlush, Suspend
    <3> QED
      BY <1>3, <3>1, WakeupAhead
  <2>6. CASE NextKind(Bg)
    <3>1. /\ pc[Bg] = "export" /\ pc'[Bg] = "drain" /\ queue' = queue
          /\ wake' = wake /\ at'[Bg] = at[Bg] + 1 /\ at[Bg] \in 1..4
      BY <1>1, <1>3, <2>6 DEF NextKind, Goto, Resumable, events, TypeOK, ControlOK
    <3>2. \A k \in Kinds : at[Bg] < k => at'[Bg] <= k
      BY <3>1 DEF Kinds
    <3> QED
      BY <3>1, <3>2 DEF NoLostWakeup, BgWillDrain
  <2> QED
    BY <1>9, <2>1, <2>2, <2>3, <2>4, <2>5, <2>6
    DEF FlushStep, ExportEnds, ExportSucceeds, ExportPartial, ExportFails
<1>10. CASE UNCHANGED vars
  BY <1>2, <1>10 DEF vars, control, events
<1> QED
  BY <1>5, <1>6, <1>7, <1>8, <1>9, <1>10 DEF Next

\* _wake is cleared before the flush it asks for, never after it: whatever the
\* sizes, a full batch has the event set or the background task on its way.
THEOREM WakeupsAreKept == Spec => []NoLostWakeup
<1>1. Init => TypeOK /\ SettleInv /\ NoLostWakeup
  BY InitTypeOK, InitSettle, InitWakeup
<1>2. TypeOK /\ SettleInv /\ NoLostWakeup /\ [Next]_vars
      => (TypeOK /\ SettleInv /\ NoLostWakeup)'
  BY NextTypeOK, NextSettle, NextWakeup
<1> QED
  BY <1>1, <1>2, PTL DEF Spec

-----------------------------------------------------------------------------
(* The shutdown.                                                             *)

LEMMA InitClose == Init => CloseInv
<1>1. Bg # Closer /\ Closer \in Tasks
  BY ConstantsAssumption DEF Tasks
<1> QED
  BY <1>1 DEF Init, CloseInv

\* A task other than the closing one moves; a background task that is gone
\* stays so; queues and batches get no record.
LEMMA CloseOther ==
  ASSUME TypeOK, CloseInv, NEW t \in Tasks, t # Closer, NEW p,
         pc' = [pc EXCEPT ![t] = p], closed' = closed, at'[Closer] = at[Closer],
         t = Bg => ~(pc[Bg] \in {"absent", "done"} /\ closed),
         \A k \in Kinds : queue'[k] \in {queue[k], <<>>},
         \A u \in Tasks : batch[u] = <<>> /\ (\A k \in Kinds : queue[k] = <<>>)
                          => batch'[u] = <<>>
  PROVE  CloseInv'
<1>1. \A u \in Tasks : pc'[u] = IF u = t THEN p ELSE pc[u]
  BY DEF TypeOK, ControlOK
<1>2. Closer \in Tasks /\ Bg \in Tasks
  BY DEF Tasks
<1>3. pc'[Closer] = pc[Closer] /\ Done(Closer)' = Done(Closer)
  BY <1>1, <1>2 DEF Done
<1>4. pc'[Closer] # "idle" => closed'
  BY <1>3 DEF CloseInv
<1>5. pc'[Closer] \notin {"idle", "join"} => pc'[Bg] \in {"absent", "done"}
  BY <1>1, <1>2, <1>3 DEF CloseInv
<1>6. pc'[Closer] \in {"drain", "export"} => \A k \in Done(Closer)' : queue'[k] = <<>>
  <2>1. \A k \in Done(Closer) : k \in Kinds
    BY DEF Done
  <2> QED
    BY <1>3, <2>1 DEF CloseInv
<1>7. pc'[Closer] = "done" => /\ \A k \in Kinds : queue'[k] = <<>>
                              /\ \A u \in Tasks : batch'[u] = <<>>
  BY <1>3 DEF CloseInv
<1> QED
  BY <1>4, <1>5, <1>6, <1>7 DEF CloseInv

\* The closing task moves before its final flush reaches the queues.
LEMMA CloseQuiet ==
  ASSUME TypeOK, NEW p, p \notin {"idle", "drain", "export", "done"},
         pc' = [pc EXCEPT ![Closer] = p], closed',
         p # "join" => pc[Bg] \in {"absent", "done"}
  PROVE  CloseInv'
<1>1. pc'[Closer] = p /\ pc'[Bg] = pc[Bg]
  BY ConstantsAssumption DEF TypeOK, ControlOK, Tasks
<1> QED
  BY <1>1 DEF CloseInv

\* A step of flush() taken by another task than the closing one.
LEMMA CloseFlushOther ==
  ASSUME TypeOK, CloseInv, NEW t \in Tasks, t # Closer, FlushStep(t)
  PROVE  CloseInv'
<1>1. PICK p : pc' = [pc EXCEPT ![t] = p]
  BY DEF FlushStep, Acquire, Granted, DrainNext, LeaveFlush, ReturnFrom,
         CancelledInLock, AbortFlush, ExportEnds, ExportSucceeds,
         ExportPartial, ExportFails, NextKind, CancelledInExport, Goto, Suspend
<1>2. closed' = closed
  BY DEF FlushStep, Acquire, Granted, DrainNext, LeaveFlush, CancelledInLock,
         ExportEnds, ExportSucceeds, ExportPartial, ExportFails, NextKind,
         CancelledInExport
<1>3. at'[Closer] = at[Closer]
  BY DEF FlushStep, Acquire, Granted, DrainNext, LeaveFlush, CancelledInLock,
         ExportEnds, ExportSucceeds, ExportPartial, ExportFails, NextKind,
         CancelledInExport, TypeOK, ControlOK, Tasks
<1>4. \A k \in Kinds : queue'[k] \in {queue[k], <<>>}
  BY DEF FlushStep, Acquire, Granted, DrainNext, LeaveFlush, CancelledInLock,
         ExportEnds, ExportSucceeds, ExportPartial, ExportFails, NextKind,
         CancelledInExport, TypeOK, StoreOK
<1>5. pc[t] \notin {"absent", "done"}
  BY DEF FlushStep, Acquire, Granted, DrainNext, LeaveFlush, CancelledInLock,
         ExportEnds, ExportSucceeds, ExportPartial, ExportFails, NextKind,
         CancelledInExport, Resumable, Interrupted
<1>6. ASSUME NEW u \in Tasks, batch[u] = <<>>, \A k \in Kinds : queue[k] = <<>>
      PROVE  batch'[u] = <<>>
  <2>1. CASE DrainNext(t)
    <3>1. at[t] \in 1..4
      BY DEF TypeOK, ControlOK
    <3> QED
      BY <1>6, <2>1, <3>1 DEF DrainNext, Kinds
  <2>2. CASE ~DrainNext(t)
    BY <1>6, <2>2
    DEF FlushStep, Acquire, Granted, LeaveFlush, CancelledInLock, ExportEnds,
        ExportSucceeds, ExportPartial, ExportFails, NextKind,
        CancelledInExport, TypeOK, ControlOK
  <2> QED
    BY <2>1, <2>2
<1> QED
  BY <1>1, <1>2, <1>3, <1>4, <1>5, <1>6, CloseOther

\* The final flush: the queues it has passed are empty and stay so.
LEMMA CloseFlush ==
  ASSUME TypeOK, LockInv, SettleInv, CloseInv, FlushStep(Closer)
  PROVE  CloseInv'
<1>1. Closer \in Tasks /\ Bg \in Tasks /\ Bg # Closer
  BY ConstantsAssumption DEF Tasks
<1>2. ASSUME NEW p, pc' = [pc EXCEPT ![Closer] = p]
      PROVE  pc'[Closer] = p /\ pc'[Bg] = pc[Bg]
  BY <1>1, <1>2 DEF TypeOK, ControlOK
<1>3. pc[Closer] \notin {"idle", "join", "done"} /\ closed' = closed
  BY DEF FlushStep, Acquire, Granted, DrainNext, LeaveFlush, CancelledInLock,
         ExportEnds, ExportSucceeds, ExportPartial, ExportFails, NextKind,
         CancelledInExport, Resumable, Interrupted
<1>4. closed /\ pc[Bg] \in {"absent", "done"}
  BY <1>3 DEF CloseInv
<1>5. ASSUME pc' = [pc EXCEPT ![Closer] = "drain"], at'[Closer] = 1
      PROVE  CloseInv'
  <2>1. pc'[Closer] = "drain" /\ pc'[Bg] = pc[Bg]
    BY <1>2, <1>5
  <2>2. Done(Closer)' = {}
    BY <1>5, <2>1 DEF Done, Kinds
  <2> QED
    BY <1>3, <1>4, <2>1, <2>2 DEF CloseInv
<1>6. CASE Acquire(Closer)
  <2>1. CASE LockIsFree
    <3>1. at'[Closer] = 1
      BY <1>1, <1>6 DEF Acquire, SettleInv
    <3> QED
      BY <1>5, <1>6, <2>1, <3>1 DEF Acquire, Goto
  <2>2. CASE ~LockIsFree
    <3>1. closed' /\ pc' = [pc EXCEPT ![Closer] = "lock"]
      BY <1>3, <1>4, <1>6, <2>2 DEF Acquire, Suspend
    <3> QED
      BY <1>4, <3>1, CloseQuiet
  <2> QED
    BY <2>1, <2>2
<1>7. CASE Granted(Closer)
  <2>1. at'[Closer] = 1
    BY <1>1, <1>7 DEF Granted, Resumable, SettleInv
  <2> QED
    BY <1>5, <1>7, <2>1 DEF Granted, Goto
<1>8. CASE DrainNext(Closer)
  <2>1. PICK k \in at[Closer]..3 : /\ \A j \in at[Closer]..(k - 1) : queue[j] = <<>>
                                   /\ queue' = [queue EXCEPT ![k] = <<>>]
                                   /\ at' = [at EXCEPT ![Closer] = k]
    BY <1>8 DEF DrainNext
  <2>2. at[Closer] \in 1..4 /\ k \in Kinds
    <3>1. at[Closer] \in 1..4
      BY <1>1 DEF TypeOK, ControlOK
    <3> QED
      BY <2>1, <3>1 DEF Kinds
  <2>3. pc[Closer] = "drain" /\ pc'[Closer] = "export" /\ at'[Closer] = k
        /\ pc'[Bg] = pc[Bg]
    BY <1>1, <1>2, <1>8, <2>1 DEF DrainNext, Suspend, TypeOK, ControlOK
  <2>4. \A j \in Kinds : queue'[j] = IF j = k THEN <<>> ELSE queue[j]
    BY <2>1 DEF TypeOK, StoreOK
  <2>5. ASSUME NEW j \in Done(Closer)' PROVE queue'[j] = <<>>
    <3>1. j \in Kinds /\ j <= k
      BY <2>2, <2>3, <2>5 DEF Done, Kinds
    <3>2. CASE j < at[Closer]
      <4>1. j \in Done(Closer)
        BY <3>1, <3>2 DEF Done
      <4> QED
        BY <2>3, <2>4, <3>1, <4>1 DEF CloseInv
    <3>3. CASE ~(j < at[Closer]) /\ j < k
      <4>1. j \in at[Closer]..(k - 1)
        BY <2>2, <3>1, <3>3 DEF Kinds
      <4> QED
        BY <2>1, <2>4, <3>1, <4>1
    <3>4. CASE j = k
      BY <2>2, <2>4, <3>4
    <3> QED
      BY <2>2, <3>1, <3>2, <3>3, <3>4 DEF Kinds
  <2> QED
    BY <1>3, <1>4, <2>3, <2>5 DEF CloseInv
<1>9. CASE LeaveFlush(Closer)
  <2>1. /\ pc[Closer] = "drain" /\ pc' = [pc EXCEPT ![Closer] = "done"]
        /\ queue' = queue /\ batch' = batch
        /\ \A k \in at[Closer]..3 : queue[k] = <<>>
    BY <1>1, <1>9 DEF LeaveFlush, ReturnFrom, Suspend
  <2>2. \A k \in Kinds : queue[k] = <<>>
    <3>1. at[Closer] \in 1..4
      BY <1>1 DEF TypeOK, ControlOK
    <3>2. \A k \in Kinds : k < at[Closer] => k \in Done(Closer)
      BY DEF Done
    <3>3. \A k \in Kinds : ~(k < at[Closer]) => k \in at[Closer]..3
      BY <3>1 DEF Kinds
    <3> QED
      BY <2>1, <3>2, <3>3 DEF CloseInv
  <2>3. \A u \in Tasks : batch[u] = <<>>
    <3>1. \A u \in Tasks : pc[u] # "export"
      BY <1>1, <2>1 DEF LockInv
    <3> QED
      BY <3>1 DEF LockInv
  <2> QED
    BY <1>2, <1>3, <1>4, <2>1, <2>2, <2>3 DEF CloseInv
<1>10. CASE CancelledInLock(Closer) \/ CancelledInExport(Closer)
  <2>1. pc' = [pc EXCEPT ![Closer] = "aborted"]
    BY <1>1, <1>10 DEF CancelledInLock, CancelledInExport, AbortFlush, Suspend
  <2> QED
    BY <1>3, <1>4, <2>1, CloseQuiet
<1>11. CASE NextKind(Closer)
  <2>1. /\ pc[Closer] = "export" /\ pc'[Closer] = "drain" /\ queue' = queue
        /\ at'[Closer] = at[Closer] + 1 /\ at[Closer] \in 1..4
        /\ pc'[Bg] = pc[Bg]
    BY <1>1, <1>2, <1>11 DEF NextKind, Goto, Resumable, TypeOK, ControlOK
  <2>2. Done(Closer)' = Done(Closer)
    BY <2>1 DEF Done, Kinds
  <2> QED
    BY <1>3, <1>4, <2>1, <2>2 DEF CloseInv
<1> QED
  BY <1>6, <1>7, <1>8, <1>9, <1>10, <1>11
  DEF FlushStep, ExportEnds, ExportSucceeds, ExportPartial, ExportFails

LEMMA NextClose ==
  TypeOK /\ LockInv /\ SettleInv /\ CloseInv /\ [Next]_vars => CloseInv'
<1> SUFFICES ASSUME TypeOK, LockInv, SettleInv, CloseInv, [Next]_vars PROVE CloseInv'
  OBVIOUS
<1>1. Bg \in Tasks /\ Closer \in Tasks /\ Callers \subseteq Tasks
      /\ Bg # Closer /\ Closer \notin Callers /\ Bg \notin Callers
  BY ConstantsAssumption DEF Tasks
<1>2. UNCHANGED <<queue, at, pc, batch, closed>> => CloseInv'
  BY DEF CloseInv, Done
<1>3. ASSUME ~closed, UNCHANGED <<pc, closed>> PROVE CloseInv'
  BY <1>3 DEF CloseInv
<1>4. ASSUME NEW t \in Tasks, t # Closer, NEW p, pc' = [pc EXCEPT ![t] = p],
             t = Bg => ~(pc[Bg] \in {"absent", "done"} /\ closed),
             UNCHANGED <<queue, at, batch, closed>>
      PROVE  CloseInv'
  BY <1>4, CloseOther
<1>5. CASE Application
  <2>1. ASSUME NEW k \in UsedKinds, NEW n \in 1..SubmitMax, Submit(k, n)
        PROVE  CloseInv'
    BY <1>3, <2>1 DEF Submit, control
  <2>2. ASSUME NEW k \in UsedKinds, SubmitAndWait(k) PROVE CloseInv'
    BY <1>3, <2>2 DEF SubmitAndWait, control
  <2>3. CASE Aenter
    BY <1>1, <1>4, <2>3 DEF Aenter
  <2>4. ASSUME NEW c \in Callers, CallFlush(c) PROVE CloseInv'
    BY <1>1, <1>4, <2>4 DEF CallFlush, BeginFlush, Goto
  <2>5. ASSUME NEW t \in Callers \union {Closer}, CancelTask(t) PROVE CloseInv'
    BY <1>2, <2>5 DEF CancelTask
  <2>6. CASE Aexit
    <3>1. CASE pc[Bg] \in {"absent", "done"}
      BY <2>6, <3>1, CloseQuiet DEF Aexit, BeginFlush, Goto
    <3>2. CASE pc[Bg] \notin {"absent", "done"}
      BY <2>6, <3>2, CloseQuiet DEF Aexit, Suspend
    <3> QED
      BY <3>1, <3>2
  <2> QED
    BY <1>5, <2>1, <2>2, <2>3, <2>4, <2>5, <2>6 DEF Application
<1>6. CASE BgStep
  <2>1. PICK p : pc' = [pc EXCEPT ![Bg] = p]
    BY <1>6 DEF BgStep, BgStart, BgTop, BgWakes, BgCancelled, BeginBgFlush,
                BeginFlush, Goto, Suspend
  <2>2. UNCHANGED <<queue, at, batch, closed>> /\ pc[Bg] \notin {"absent", "done"}
    BY <1>6 DEF BgStep, BgStart, BgTop, BgWakes, BgCancelled, Resumable, Interrupted
  <2> QED
    BY <1>1, <1>4, <2>1, <2>2
<1>7. CASE JoinReturns
  <2>1. closed'
    BY <1>7 DEF JoinReturns, CloseInv
  <2> QED
    BY <1>7, <2>1, CloseQuiet DEF JoinReturns, BeginFlush, Goto
<1>8. CASE UNCHANGED vars
  BY <1>2, <1>8 DEF vars, control
<1> QED
  BY <1>5, <1>6, <1>7, <1>8, CloseFlush, CloseFlushOther DEF Next

\* However many callers flush, submit and are cancelled meanwhile, __aexit__
\* that returns leaves no record queued, sending or uncounted, and no
\* background task that could touch one.
THEOREM ShutdownsAreFinal == Spec => []ShutdownIsFinal
<1> DEFINE Inv == TypeOK /\ LockInv /\ Accounting /\ SettleInv /\ CloseInv
<1>1. Init => Inv
  BY InitTypeOK, InitLock, InitAccounting, InitSettle, InitClose
<1>2. Inv /\ [Next]_vars => Inv'
  BY NextTypeOK, NextLock, NextAccounting, NextSettle, NextClose
<1>3. Inv => ShutdownIsFinal
  <2> SUFFICES ASSUME Inv, pc[Closer] = "done"
               PROVE  /\ Queued \union Sending = {}
                      /\ submitted = exported + refused + dropped
    BY DEF ShutdownIsFinal, CloseInv
  <2>1. /\ \A k \in Kinds : queue[k] = <<>>
        /\ \A t \in Tasks : batch[t] = <<>>
    BY DEF CloseInv
  <2>2. ToSet(<<>>) = {} /\ Len(<<>>) = 0
    BY EmptySeq DEF ToSet
  <2>3. Queued \union Sending = {}
    BY <2>1, <2>2 DEF Queued, Sending
  <2>4. InFlight = 0
    BY <2>1, <2>2 DEF InFlight, TypeOK, LockOK
  <2>5. Backlog = 0
    <3>1. queue[1] = <<>> /\ queue[2] = <<>> /\ queue[3] = <<>>
      BY <2>1 DEF Kinds
    <3> QED
      BY <2>2, <3>1 DEF Backlog
  <2> QED
    BY <2>3, <2>4, <2>5, AccountsType DEF Accounting
<1> QED
  BY <1>1, <1>2, <1>3, PTL DEF Spec
=============================================================================
