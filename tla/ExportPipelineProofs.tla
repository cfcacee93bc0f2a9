------------------------- MODULE ExportPipelineProofs -------------------------
(* What the processor counts as answered was taken by the collector, and what *)
(* the collector has acknowledged is final: for every number of records, tasks *)
(* and clients.  That the processor in the pipeline is the BatchProcessor of   *)
(* the other proofs makes what they prove of it hold here too.                *)
EXTENDS ExportPipeline, TLAPS

BP == INSTANCE BatchProcessorLedgerProofs WITH WithConsumer <- FALSE

EC == INSTANCE ExportClientBoundProofs WITH
        Exports <- Tasks \union Others, Anonymous <- {},
        pc <- exportPc, cancelled <- exportCancelled, running <- exportRunning,
        holder <- tokenHolder, waiters <- tokenWaiters, woken <- tokenWoken

-----------------------------------------------------------------------------
(* The processor of the pipeline.                                            *)

LEMMA SameAssumption == BP!ConstantsAssumption
BY PipelineAssumption DEF P!ConstantsAssumption, BP!ConstantsAssumption

LEMMA SameSets ==
  /\ P!Tasks = BP!Tasks /\ P!Kinds = BP!Kinds
  /\ \A s : BP!ToSet(s) = ToSet(s)
  /\ P!Fate = BP!Fate
<1>1. P!Tasks = BP!Tasks /\ P!Kinds = BP!Kinds
  BY DEF P!Tasks, BP!Tasks, P!Kinds, BP!Kinds
<1>2. \A s : BP!ToSet(s) = ToSet(s) /\ P!ToSet(s) = ToSet(s)
  BY DEF BP!ToSet, P!ToSet, ToSet
<1> QED
  BY <1>1, <1>2 DEF P!Fate, BP!Fate, P!Queued, BP!Queued, P!Sending, BP!Sending

\* What the application does.
LEMMA SameApplication == P!Application => BP!Application
<1> USE DEF P!Tasks, BP!Tasks, P!Goto, BP!Goto, P!Suspend, BP!Suspend,
            P!Resumable, BP!Resumable, P!Interrupted, BP!Interrupted,
            P!lock, BP!lock, P!counters, BP!counters, P!events, BP!events, P!control, BP!control,
            P!losses, BP!losses, P!history, BP!history,
            P!BeginFlush, BP!BeginFlush
<1>1. ASSUME NEW k, NEW n, P!Submit(k, n) PROVE BP!Submit(k, n)
  BY <1>1 DEF P!Submit, BP!Submit, P!Enqueue, BP!Enqueue, P!Lose, BP!Lose, P!Appended, BP!Appended,
              P!Newest, BP!Newest, P!Oldest, BP!Oldest, P!Monus, BP!Monus
<1>2. ASSUME NEW k, P!SubmitAndWait(k) PROVE FALSE
  BY <1>2 DEF P!SubmitAndWait
<1>3. P!Aenter => BP!Aenter
  BY DEF P!Aenter, BP!Aenter
<1>4. ASSUME NEW c, P!CallFlush(c) PROVE BP!CallFlush(c)
  BY <1>4 DEF P!CallFlush, BP!CallFlush
<1>5. ASSUME NEW t, P!CancelTask(t) PROVE BP!CancelTask(t)
  BY <1>5 DEF P!CancelTask, BP!CancelTask
<1>6. P!Aexit => BP!Aexit
  BY DEF P!Aexit, BP!Aexit
<1> QED
  BY <1>1, <1>2, <1>3, <1>4, <1>5, <1>6 DEF P!Application, BP!Application

\* What the tasks of the processor do outside and around exports.
LEMMA SameTaskSteps ==
  /\ P!BgStep => BP!BgStep
  /\ P!JoinReturns => BP!JoinReturns
  /\ \A t : /\ P!Acquire(t) => BP!Acquire(t)
            /\ P!Granted(t) => BP!Granted(t)
            /\ P!LeaveFlush(t) => BP!LeaveFlush(t)
            /\ P!CancelledInLock(t) => BP!CancelledInLock(t)
            /\ P!DrainNext(t) => BP!DrainNext(t)
<1> USE DEF P!Tasks, BP!Tasks, P!Goto, BP!Goto, P!Suspend, BP!Suspend,
            P!Resumable, BP!Resumable, P!Interrupted, BP!Interrupted,
            P!lock, BP!lock, P!counters, BP!counters, P!events, BP!events, P!control, BP!control,
            P!losses, BP!losses, P!history, BP!history
<1>1. P!BgStep => BP!BgStep
  BY DEF P!BgStep, BP!BgStep, P!BgStart, BP!BgStart, P!BgTop, BP!BgTop, P!BgWakes, BP!BgWakes,
         P!BgCancelled, BP!BgCancelled, P!BeginBgFlush, BP!BeginBgFlush, P!BeginFlush, BP!BeginFlush
<1>2. P!JoinReturns => BP!JoinReturns
  BY DEF P!JoinReturns, BP!JoinReturns, P!BeginFlush, BP!BeginFlush
<1>3. ASSUME NEW t, P!Acquire(t) PROVE BP!Acquire(t)
  BY <1>3 DEF P!Acquire, BP!Acquire, P!LockIsFree, BP!LockIsFree, P!ToSet, BP!ToSet
<1>4. ASSUME NEW t, P!Granted(t) PROVE BP!Granted(t)
  BY <1>4 DEF P!Granted, BP!Granted, P!LeaveWaiters, BP!LeaveWaiters, P!RemoveAt, BP!RemoveAt
<1>5. ASSUME NEW t, P!LeaveFlush(t) PROVE BP!LeaveFlush(t)
  BY <1>5 DEF P!LeaveFlush, BP!LeaveFlush, P!ReturnFrom, BP!ReturnFrom,
              P!Release, BP!Release, P!WakeFirst, BP!WakeFirst
<1>6. ASSUME NEW t, P!CancelledInLock(t) PROVE BP!CancelledInLock(t)
  BY <1>6 DEF P!CancelledInLock, BP!CancelledInLock, P!AbortFlush, BP!AbortFlush,
              P!LeaveWaiters, BP!LeaveWaiters, P!RemoveAt, BP!RemoveAt, P!WakeFirst, BP!WakeFirst
<1>7. ASSUME NEW t, P!DrainNext(t) PROVE BP!DrainNext(t)
  BY <1>7 DEF P!DrainNext, BP!DrainNext
<1> QED
  BY <1>1, <1>2, <1>3, <1>4, <1>5, <1>6, <1>7

LEMMA SameEnds ==
  ASSUME NEW t
  PROVE  /\ P!ExportSucceeds(t) => BP!ExportSucceeds(t)
         /\ \A r : P!ExportPartial(t, r) => BP!ExportPartial(t, r)
         /\ P!ExportFails(t) => BP!ExportFails(t)
         /\ P!CancelledInExport(t) => BP!CancelledInExport(t)
<1> USE DEF P!Goto, BP!Goto, P!Suspend, BP!Suspend, P!Resumable, BP!Resumable,
            P!Interrupted, BP!Interrupted, P!lock, BP!lock, P!events, BP!events,
            P!NextKind, BP!NextKind, P!Lose, BP!Lose, P!ToSet, BP!ToSet, P!Monus, BP!Monus
<1>1. P!ExportSucceeds(t) => BP!ExportSucceeds(t)
  BY DEF P!ExportSucceeds, BP!ExportSucceeds
<1>2. ASSUME NEW r, P!ExportPartial(t, r) PROVE BP!ExportPartial(t, r)
  BY <1>2 DEF P!ExportPartial, BP!ExportPartial
<1>3. P!ExportFails(t) => BP!ExportFails(t)
  BY DEF P!ExportFails, BP!ExportFails
<1>4. P!CancelledInExport(t) => BP!CancelledInExport(t)
  BY DEF P!CancelledInExport, BP!CancelledInExport, P!AbortFlush, BP!AbortFlush,
         P!Release, BP!Release, P!WakeFirst, BP!WakeFirst
<1> QED
  BY <1>1, <1>2, <1>3, <1>4

-----------------------------------------------------------------------------
(* The client of the pipeline.                                               *)

\* The export of t goes on.
GoesOn(t) == /\ \E p \in C!Points \ {"idle", "done"} : exportPc' = [exportPc EXCEPT ![t] = p]
             /\ result' = result

\* The export of t returns, or raises what r names.
EndsWith(t, r) == /\ exportPc' = [exportPc EXCEPT ![t] = "done"]
                  /\ result' = [result EXCEPT ![t] = r]

Failures == C!Results \ {"none", "returned"}

LEMMA ClientPoints ==
  /\ C!Points = {"mint", "send", "backoff", "idle", "headers", "lock", "recheck", "got", "down",
                 "permanent", "other", "cancelled", "done"}
  /\ Failures = {"permanent", "transport", "overflow", "other", "cancelled"}
BY DEF C!Points, C!Timed, Failures, C!Results

\* A Retryable outcome ends the export with a failure or starts a sleep.
LEMMA RetriesOrFails ==
  ASSUME NEW t, NEW hint, C!Retry(t, hint)
  PROVE  GoesOn(t) \/ \E r \in Failures : EndsWith(t, r)
<1>1. ASSUME NEW d, C!Backoff(t, d, hint) PROVE GoesOn(t)
  BY <1>1, ClientPoints DEF C!Backoff, C!Suspend, C!loop, GoesOn
<1>2. ASSUME NEW r \in Failures, C!Finish(t, r) PROVE EndsWith(t, r)
  BY <1>2 DEF C!Finish, C!Suspend, EndsWith
<1> QED
  BY <1>1, <1>2, ClientPoints DEF C!Retry

\* A call of headers() goes on, where its result or its exception takes it.
LEMMA HeadersGoOn ==
  ASSUME NEW t, C!HeadersStep(t), result' = result
  PROVE  GoesOn(t) /\ exportPc[t] \in {"headers", "lock", "recheck", "mint"}
<1> USE ClientPoints DEF C!Goto, C!Suspend, C!Resumable, C!Interrupted, GoesOn
<1>1. ASSUME NEW a \in Answers, C!MintAnswered(t, a)
      PROVE  GoesOn(t) /\ exportPc[t] = "mint"
  <2>1. C!Refreshed(a) \in {"got", "down", "permanent", "other"}
    BY DEF C!Refreshed
  <2> QED
    BY <1>1, <2>1 DEF C!MintAnswered, C!MintSucceeds, C!MintFails
<1>2. CASE C!Headers(t)
  BY <1>2 DEF C!Headers
<1>3. CASE C!LockGranted(t)
  BY <1>3 DEF C!LockGranted
<1>4. CASE C!Recheck(t)
  BY <1>4 DEF C!Recheck, C!BeginMint
<1>5. CASE C!MintUnanswered(t) \/ C!CancelledInMint(t) \/ C!CancelledInLock(t)
  BY <1>5 DEF C!MintUnanswered, C!MintFails, C!CancelledInMint, C!CancelledInLock
<1> QED
  BY <1>1, <1>2, <1>3, <1>4, <1>5 DEF C!HeadersStep

\* A step of the client: only where the collector has answered does it return,
\* and with that the batch is acknowledged.
LEMMA ClientSteps ==
  ASSUME NEW t, ClientStep(t)
  PROVE  /\ exportPc[t] \notin {"idle", "done"}
         /\ \/ /\ GoesOn(t) \/ \E r \in Failures : EndsWith(t, r)
               /\ acknowledged' = acknowledged /\ taken \subseteq taken'
            \/ /\ EndsWith(t, "returned")
               /\ acknowledged' = acknowledged \union Carried(t)
               /\ taken' = taken \union Carried(t)
         /\ UNCHANGED processor
<1> USE DEF C!Resumable, C!Interrupted, C!Finish, C!Suspend, C!Goto
<1>1. CASE RequestAccepted(t)
  BY <1>1 DEF RequestAccepted, C!Answered, EndsWith, ClientStep
<1>2. ASSUME NEW r \in {"permanent", "other", "cancelled"}, C!Answered(t, r)
      PROVE  exportPc[t] = "send" /\ EndsWith(t, r)
  BY <1>2 DEF C!Answered, EndsWith
<1>3. ASSUME NEW hint, C!SendFails(t, hint)
      PROVE  exportPc[t] = "send" /\ (GoesOn(t) \/ \E r \in Failures : EndsWith(t, r))
  BY <1>3, RetriesOrFails DEF C!SendFails
<1>4. ASSUME C!CredentialsRejected(t)
      PROVE  exportPc[t] = "send" /\ (GoesOn(t) \/ EndsWith(t, "permanent"))
  BY <1>4, ClientPoints DEF C!CredentialsRejected, C!Reauthenticate, C!Resolve, GoesOn, EndsWith
<1>5. ASSUME C!ExportCancelled(t)
      PROVE  exportPc[t] \in {"send", "backoff"} /\ EndsWith(t, "cancelled")
  BY <1>5 DEF C!ExportCancelled, EndsWith
<1>6. CASE RequestRejected(t)
  <2>1. acknowledged' = acknowledged /\ taken \subseteq taken'
    BY <1>6 DEF RequestRejected, collector
  <2> QED
    BY <1>2, <1>3, <1>4, <1>6, <2>1, ClientPoints DEF RequestRejected, ClientStep
<1>7. CASE RequestUnanswered(t)
  <2>1. acknowledged' = acknowledged /\ taken \subseteq taken'
    BY <1>7 DEF RequestUnanswered
  <2> QED
    BY <1>2, <1>3, <1>5, <1>7, <2>1, ClientPoints DEF RequestUnanswered, ClientStep
<1>8. CASE BetweenRequests(t)
  <2>1. acknowledged' = acknowledged /\ taken \subseteq taken'
    BY <1>8 DEF BetweenRequests, collector
  <2>2. ASSUME C!Send(t) \/ C!NextAttempt(t)
        PROVE  exportPc[t] \in {"got", "backoff"} /\ GoesOn(t)
    BY <2>2, ClientPoints DEF C!Send, C!NextAttempt, C!Resolve, C!loop, GoesOn
  <2>3. ASSUME C!ProviderDown(t)
        PROVE  exportPc[t] = "down" /\ (GoesOn(t) \/ \E r \in Failures : EndsWith(t, r))
    BY <2>3, RetriesOrFails DEF C!ProviderDown
  <2>4. ASSUME C!ProviderRaises(t)
        PROVE  /\ exportPc[t] \in {"permanent", "other", "cancelled"}
               /\ \E r \in Failures : EndsWith(t, r)
    BY <2>4, ClientPoints DEF C!ProviderRaises, EndsWith
  <2>5. UNCHANGED processor
    BY DEF ClientStep
  <2>6. /\ exportPc[t] \notin {"idle", "done"}
        /\ GoesOn(t) \/ \E r \in Failures : EndsWith(t, r)
    BY <1>5, <1>8, <2>2, <2>3, <2>4, HeadersGoOn, ClientPoints DEF BetweenRequests
  <2> QED
    BY <2>1, <2>5, <2>6
<1> QED
  BY <1>1, <1>6, <1>7, <1>8 DEF ClientStep

-----------------------------------------------------------------------------
(* The steps of the pipeline.                                                *)

AllExports == Tasks \union Others

\* A step of the application, or of a task outside its exports.
OutsideStep == \/ BP!Application \/ BP!BgStep \/ BP!JoinReturns
               \/ \E t \in Tasks : \/ BP!Acquire(t) \/ BP!Granted(t)
                                   \/ BP!LeaveFlush(t) \/ BP!CancelledInLock(t)

LEMMA PipelineSteps ==
  ASSUME [Next]_vars
  PROVE  \/ OutsideStep /\ UNCHANGED <<exportPc, result, collector>>
         \/ \E t \in Tasks : StartExport(t) \/ ReturnToFlush(t)
         \/ \E t \in AllExports : ClientStep(t)
         \/ \E t \in Others : OtherCalls(t) \/ OtherReturns(t)
         \/ UNCHANGED <<processor, exportPc, result, collector>>
<1>1. CASE ProcessorStep(P!Application)
  BY <1>1, SameApplication DEF ProcessorStep, OutsideStep
<1>2. ASSUME NEW t \in Tasks, ProcessorStep(FlushStep(t))
      PROVE  OutsideStep /\ UNCHANGED <<exportPc, result, collector>>
  BY <1>2, SameTaskSteps DEF ProcessorStep, OutsideStep, FlushStep
<1>3. CASE ProcessorStep(P!BgStep) \/ ProcessorStep(P!JoinReturns)
  BY <1>3, SameTaskSteps DEF ProcessorStep, OutsideStep
<1>4. CASE Tick
  BY <1>4 DEF Tick, C!Tick, C!loop
<1>5. CASE UNCHANGED vars
  BY <1>5 DEF vars
<1> QED
  BY <1>1, <1>2, <1>3, <1>4, <1>5 DEF Next, TaskStep, AllExports

\* flush() goes on as the export has ended.
LEMMA ReturnsAsEnded ==
  ASSUME NEW t \in Tasks, ReturnToFlush(t)
  PROVE  /\ exportPc[t] = "done" /\ UNCHANGED collector
         /\ exportPc' = [exportPc EXCEPT ![t] = "idle"]
         /\ result' = [result EXCEPT ![t] = "none"]
         /\ \/ /\ result[t] = "returned"
               /\ BP!ExportSucceeds(t) \/ \E r \in 0..MaxRejected : BP!ExportPartial(t, r)
            \/ /\ result[t] # "returned"
               /\ BP!ExportFails(t) \/ BP!CancelledInExport(t)
BY SameEnds DEF ReturnToFlush

\* Every step is one of the processor, or leaves the processor as it is.
LEMMA ProcessorSteps == [Next]_vars => [BP!Next]_(BP!vars)
<1> SUFFICES ASSUME [Next]_vars PROVE BP!Next \/ UNCHANGED BP!vars
  OBVIOUS
<1>1. CASE OutsideStep
  BY <1>1, SameSets DEF OutsideStep, BP!Next, BP!FlushStep, Tasks
<1>2. ASSUME NEW t \in Tasks, StartExport(t) PROVE BP!Next
  BY <1>2, SameSets, SameTaskSteps DEF StartExport, BP!Next, BP!FlushStep, Tasks
<1>3. ASSUME NEW t \in Tasks, ReturnToFlush(t) PROVE BP!Next
  BY <1>3, SameSets, ReturnsAsEnded DEF BP!Next, BP!FlushStep, BP!ExportEnds, Tasks
<1>4. UNCHANGED processor => UNCHANGED BP!vars
  BY DEF processor, BP!vars, BP!counters, BP!events, BP!lock, BP!control, BP!history, BP!losses
<1>5. ASSUME NEW t, ClientStep(t) \/ OtherCalls(t) \/ OtherReturns(t) PROVE UNCHANGED BP!vars
  BY <1>4, <1>5 DEF ClientStep, OtherCalls, OtherReturns
<1> QED
  BY <1>1, <1>2, <1>3, <1>4, <1>5, PipelineSteps

\* What is proved of the processor alone holds of it here.
ProcessorInv == BP!TypeOK /\ BP!LockInv /\ BP!RecordsInv

\* With the client and the collector under it, the processor does what it does
\* with exports that end in any way, so all that is proved of it holds here.
THEOREM PipelineImplementsProcessor == Spec => BP!Spec
<1>1. Init => BP!Init
  BY DEF Init, P!Init, BP!Init, P!Tasks, BP!Tasks, P!Kinds, BP!Kinds
<1> QED
  BY <1>1, ProcessorSteps, PTL DEF Spec, BP!Spec

LEMMA ProcessorCorrect == Spec => []ProcessorInv
<1>1. BP!Spec => []ProcessorInv
  BY BP!RecordsCorrect, SameAssumption DEF ProcessorInv
<1> QED
  BY <1>1, PipelineImplementsProcessor, PTL

\* Record by record the pipeline, too, does what DeliveryLedger promises.
THEOREM PipelineKeepsLedger == Spec => BP!RefinesLedger
<1>1. BP!Spec => BP!RefinesLedger
  BY BP!ProcessorKeepsLedger, SameAssumption
<1> QED
  BY <1>1, PipelineImplementsProcessor, PTL

\* A step outside the exports begins and ends none of them, and touches the
\* records only to take new ones.
LEMMA OutsideSteps ==
  ASSUME ProcessorInv, OutsideStep
  PROVE  /\ \A t \in Tasks : pc'[t] = "export" <=> pc[t] = "export"
         /\ batch' = batch
<1> USE DEF BP!Goto, BP!Suspend, BP!Resumable, BP!Interrupted, BP!BeginFlush, BP!control
<1>1. /\ pc \in [Tasks -> BP!Points]
      /\ \A t \in Tasks : pc[t] = "export" => pc[t] # "absent"
      /\ Bg \in Tasks /\ Closer \in Tasks /\ Callers \subseteq Tasks
  BY SameSets DEF ProcessorInv, BP!TypeOK, BP!ControlOK, Tasks, BP!Tasks
<1>2. CASE BP!Application
  <2>1. ASSUME NEW k, NEW n, BP!Submit(k, n) PROVE pc' = pc /\ batch' = batch
    BY <2>1 DEF BP!Submit
  <2>2. ASSUME NEW k, BP!SubmitAndWait(k) PROVE pc' = pc /\ batch' = batch
    BY <2>2 DEF BP!SubmitAndWait
  <2>3. CASE BP!Aenter
    BY <1>1, <2>3 DEF BP!Aenter
  <2>4. ASSUME NEW c \in Callers, BP!CallFlush(c)
        PROVE  batch' = batch /\ \A t \in Tasks : pc'[t] = "export" <=> pc[t] = "export"
    BY <1>1, <2>4 DEF BP!CallFlush
  <2>5. ASSUME NEW t, BP!CancelTask(t) PROVE pc' = pc /\ batch' = batch
    BY <2>5 DEF BP!CancelTask
  <2>6. CASE BP!Aexit
    BY <1>1, <2>6 DEF BP!Aexit
  <2> QED
    BY <1>2, <2>1, <2>2, <2>3, <2>4, <2>5, <2>6 DEF BP!Application
<1>3. CASE BP!BgStep
  BY <1>1, <1>3 DEF BP!BgStep, BP!BgStart, BP!BgTop, BP!BgWakes, BP!BgCancelled, BP!BeginBgFlush
<1>4. CASE BP!JoinReturns
  BY <1>1, <1>4 DEF BP!JoinReturns
<1>5. ASSUME NEW t \in Tasks, BP!Acquire(t) \/ BP!Granted(t)
      PROVE  batch' = batch /\ \A u \in Tasks : pc'[u] = "export" <=> pc[u] = "export"
  BY <1>1, <1>5 DEF BP!Acquire, BP!Granted
<1>6. ASSUME NEW t \in Tasks, BP!LeaveFlush(t) \/ BP!CancelledInLock(t)
      PROVE  batch' = batch /\ \A u \in Tasks : pc'[u] = "export" <=> pc[u] = "export"
  BY <1>1, <1>6 DEF BP!LeaveFlush, BP!ReturnFrom, BP!CancelledInLock, BP!AbortFlush
<1> QED
  BY <1>2, <1>3, <1>4, <1>5, <1>6 DEF OutsideStep

-----------------------------------------------------------------------------
(* The inductive invariant.                                                  *)

\* The collector's answer has reached the client and not yet the processor.
Delivered(t) == exportPc[t] = "done" /\ result[t] = "returned"

\* The client runs for a task exactly while flush() awaits it.
ControlInv ==
  /\ exportPc \in [AllExports -> C!Points] /\ result \in [AllExports -> C!Results]
  /\ \A t \in Tasks : pc[t] = "export" <=> exportPc[t] # "idle"

\* An acknowledged record was taken, and waits and fails nowhere; a submitted
\* one waits, is sent, is lost or is acknowledged; and a batch is acknowledged
\* as a whole, no sooner than its answer is there.
DeliveryInv ==
  /\ acknowledged \subseteq taken
  /\ acknowledged \subseteq 1..submitted
  /\ acknowledged \intersect (BP!Queued \union lost) = {}
  /\ 1..submitted \subseteq BP!Queued \union BP!Sending \union lost \union acknowledged
  /\ \A t \in Tasks : IF Delivered(t) THEN ToSet(batch[t]) \subseteq acknowledged
                                      ELSE ToSet(batch[t]) \intersect acknowledged = {}

LEMMA EmptyBatch == ToSet(<<>>) = {}
<1>1. BP!ToSet(<<>>) = {}
  BY BP!EmptyRecords, SameAssumption
<1> QED
  BY <1>1, SameSets

LEMMA InitPipeline == Init => ControlInv /\ DeliveryInv
<1> SUFFICES ASSUME Init PROVE ControlInv /\ DeliveryInv
  OBVIOUS
<1>1. /\ \A t \in AllExports : exportPc[t] = "idle" /\ result[t] = "none"
      /\ \A t \in Tasks : pc[t] # "export" /\ batch[t] = <<>>
      /\ exportPc \in [AllExports -> {"idle"}] /\ result \in [AllExports -> {"none"}]
      /\ submitted = 0 /\ lost = {} /\ acknowledged = {} /\ taken = {}
      /\ \A k \in P!Kinds : queue[k] = <<>>
  BY DEF Init, C!Init, P!Init, AllExports, Tasks
<1>2. ControlInv
  BY <1>1 DEF ControlInv, C!Points, C!Results, AllExports
<1>3. BP!Queued = {}
  BY <1>1, SameSets, EmptyBatch DEF BP!Queued
<1> QED
  BY <1>1, <1>2, <1>3, SameSets, EmptyBatch DEF DeliveryInv, Delivered, AllExports

\* One task at most has a batch, the one that awaits its export.
LEMMA OneBatch ==
  ASSUME ProcessorInv, ControlInv, NEW t \in Tasks, pc[t] \in {"drain", "export"}
  PROVE  \A u \in Tasks \ {t} : exportPc[u] = "idle" /\ batch[u] = <<>>
<1>1. \A u \in Tasks : pc[u] \in {"drain", "export"} <=> holder = u
  BY SameSets DEF ProcessorInv, BP!LockInv, Tasks
<1>2. \A u \in Tasks : pc[u] # "export" => batch[u] = <<>>
  BY SameSets DEF ProcessorInv, BP!LockInv, Tasks
<1> QED
  BY <1>1, <1>2 DEF ControlInv

-----------------------------------------------------------------------------
(* The steps.                                                                *)

\* What a task drains from a queue was never acknowledged.
LEMMA StartDelivery ==
  ASSUME ProcessorInv, ControlInv, DeliveryInv, NEW t \in Tasks, StartExport(t)
  PROVE  ControlInv' /\ DeliveryInv'
<1>1. /\ pc[t] = "drain" /\ pc' = [pc EXCEPT ![t] = "export"]
      /\ submitted' = submitted /\ UNCHANGED collector
  BY DEF StartExport, P!DrainNext, P!Suspend, P!counters
<1>2. exportPc[t] = "idle"
  BY <1>1 DEF ControlInv
<1>3. \/ exportPc' = [exportPc EXCEPT ![t] = "headers"] /\ result' = result
      \/ exportPc' = [exportPc EXCEPT ![t] = "done"] /\ result' = [result EXCEPT ![t] = "other"]
  BY DEF StartExport, C!BeginExport, C!SendNothing, C!Resolve, C!Goto, C!Finish, C!Suspend
<1>4. pc \in [Tasks -> BP!Points] /\ t \in AllExports
  BY SameSets DEF ProcessorInv, BP!TypeOK, BP!ControlOK, Tasks, AllExports
<1>5. ControlInv'
  BY <1>1, <1>3, <1>4, ClientPoints DEF ControlInv, C!Results, AllExports
<1>6. \A u \in Tasks \ {t} : exportPc[u] = "idle"
  BY <1>1, OneBatch
<1>7. \A u \in Tasks : ~Delivered(u)'
  BY <1>3, <1>4, <1>6 DEF Delivered, ControlInv, AllExports
<1>8. PICK k \in BP!Kinds :
           /\ BP!Sending = {}
           /\ BP!Sending' = ToSet(queue[k])
           /\ BP!Queued' = BP!Queued \ ToSet(queue[k])
           /\ lost' = lost
           /\ ToSet(queue[k]) \subseteq BP!Queued
  <2>1. BP!DrainNext(t) /\ t \in BP!Tasks
    BY SameTaskSteps, SameSets DEF StartExport, Tasks
  <2>2. PICK k \in BP!Kinds : /\ BP!Sending = {}
                              /\ BP!Sending' = BP!ToSet(queue[k])
                              /\ BP!Queued' = BP!Queued \ BP!ToSet(queue[k])
                              /\ lost' = lost
    BY <2>1, BP!DrainRecords, SameAssumption DEF ProcessorInv
  <2>3. BP!ToSet(queue[k]) \subseteq BP!Queued
    BY BP!RecordsType, SameAssumption DEF ProcessorInv
  <2> QED
    BY <2>2, <2>3, SameSets
<1>9. \A u \in Tasks : ToSet(batch'[u]) \subseteq BP!Sending'
  BY SameSets DEF BP!Sending, Tasks
<1> QED
  BY <1>1, <1>5, <1>7, <1>8, <1>9 DEF DeliveryInv, collector

\* A batch that flush() counts as answered is acknowledged; one that it counts
\* as dropped is not.
LEMMA ReturnDelivery ==
  ASSUME ProcessorInv, ControlInv, DeliveryInv, NEW t \in Tasks, ReturnToFlush(t)
  PROVE  ControlInv' /\ DeliveryInv'
<1> USE DEF BP!ExportSucceeds, BP!ExportPartial, BP!ExportFails, BP!CancelledInExport,
            BP!NextKind, BP!AbortFlush, BP!Goto, BP!Suspend, BP!Lose
<1>1. /\ exportPc[t] = "done" /\ UNCHANGED collector
      /\ exportPc' = [exportPc EXCEPT ![t] = "idle"]
      /\ result' = [result EXCEPT ![t] = "none"]
  BY ReturnsAsEnded
<1>2. /\ pc[t] = "export" /\ t \in AllExports
      /\ pc \in [Tasks -> BP!Points]
  BY <1>1, SameSets DEF ProcessorInv, BP!TypeOK, BP!ControlOK, Tasks, AllExports, ControlInv
<1>3. /\ submitted' = submitted /\ queue' = queue
      /\ batch' = [batch EXCEPT ![t] = <<>>]
      /\ \E p \in {"drain", "done", "aborted", "idle"} : pc' = [pc EXCEPT ![t] = p]
  BY ReturnsAsEnded
<1>4. ControlInv'
  BY <1>1, <1>2, <1>3, ClientPoints DEF ControlInv, C!Results, AllExports
<1>5. \A u \in Tasks \ {t} : exportPc[u] = "idle" /\ batch[u] = <<>>
  BY <1>2, OneBatch
<1>6. \A u \in Tasks : batch'[u] = <<>> /\ ~Delivered(u)'
  BY <1>1, <1>2, <1>3, <1>5, SameSets
  DEF ProcessorInv, BP!TypeOK, BP!ControlOK, Tasks, ControlInv, AllExports, Delivered
<1>7. /\ BP!Sending = ToSet(batch[t])
      /\ BP!Queued' = BP!Queued
  BY <1>3, <1>5, SameSets, EmptyBatch DEF BP!Sending, BP!Queued, Tasks
<1>8. CASE result[t] = "returned"
  <2>1. lost' = lost
    BY <1>8, ReturnsAsEnded
  <2>2. ToSet(batch[t]) \subseteq acknowledged
    BY <1>1, <1>8 DEF DeliveryInv, Delivered
  <2> QED
    BY <1>1, <1>3, <1>4, <1>6, <1>7, <2>1, <2>2, EmptyBatch DEF DeliveryInv, collector
<1>9. CASE result[t] # "returned"
  <2>1. lost' = lost \union ToSet(batch[t])
    BY <1>9, ReturnsAsEnded, SameSets
  <2>2. ToSet(batch[t]) \intersect acknowledged = {}
    BY <1>9 DEF DeliveryInv, Delivered
  <2> QED
    BY <1>1, <1>3, <1>4, <1>6, <1>7, <2>1, <2>2, EmptyBatch DEF DeliveryInv, collector
<1> QED
  BY <1>8, <1>9

\* Records enter, or stay where they are; nothing is acknowledged.
LEMMA OutsideDelivery ==
  ASSUME ProcessorInv, ControlInv, DeliveryInv, OutsideStep, [BP!Next]_(BP!vars),
         UNCHANGED <<exportPc, result, collector>>
  PROVE  ControlInv' /\ DeliveryInv'
<1>1. /\ \A t \in Tasks : pc'[t] = "export" <=> pc[t] = "export"
      /\ batch' = batch
  BY OutsideSteps
<1>2. ControlInv'
  BY <1>1 DEF ControlInv
<1>3. \A t \in Tasks : Delivered(t)' = Delivered(t)
  BY DEF Delivered
<1>4. ASSUME NEW k \in BP!Kinds, NEW n \in Nat \ {0}, submitted + n <= MaxRecords, BP!Enqueue(k, n)
      PROVE  DeliveryInv'
  <2> DEFINE new == (submitted + 1)..(submitted + n)
  <2>1. PICK evicted \in SUBSET (BP!ToSet(queue[k]) \union new) :
           /\ BP!Queued' = (BP!Queued \union new) \ evicted
           /\ BP!Sending' = BP!Sending
           /\ lost' = lost \union evicted
    BY <1>1, <1>4, BP!EnqueueRecords, SameAssumption DEF ProcessorInv
  <2>2. BP!ToSet(queue[k]) \subseteq BP!Queued
    BY BP!RecordsType, SameAssumption DEF ProcessorInv
  <2>3. submitted' = submitted + n /\ submitted \in Nat
    BY <1>4 DEF BP!Enqueue, ProcessorInv, BP!TypeOK, BP!StoreOK
  <2>4. 1..submitted' = 1..submitted \union new /\ 1..submitted \intersect new = {}
    BY <2>3
  <2> HIDE DEF new
  <2>5. /\ acknowledged \intersect (BP!Queued' \union lost') = {}
        /\ 1..submitted' \subseteq BP!Queued' \union BP!Sending' \union lost' \union acknowledged
        /\ acknowledged \subseteq 1..submitted'
    BY <2>1, <2>2, <2>4 DEF DeliveryInv
  <2> QED
    BY <1>1, <1>3, <2>5 DEF DeliveryInv, collector
<1>5. ASSUME UNCHANGED <<queue, batch, lost, submitted>> PROVE DeliveryInv'
  BY <1>3, <1>5 DEF DeliveryInv, collector, BP!Queued, BP!Sending
<1>6. ASSUME NEW t \in Tasks, BP!DrainNext(t) \/ BP!ExportEnds(t) PROVE FALSE
  <2>1. /\ pc \in [Tasks -> BP!Points]
        /\ BP!DrainNext(t) => pc[t] = "drain" /\ pc' = [pc EXCEPT ![t] = "export"]
    BY SameSets DEF ProcessorInv, BP!TypeOK, BP!ControlOK, Tasks, BP!DrainNext, BP!Suspend
  <2>2. BP!ExportEnds(t) => /\ pc[t] = "export"
                            /\ \E p \in {"drain", "done", "aborted", "idle"} : pc' = [pc EXCEPT ![t] = p]
    BY DEF BP!ExportEnds, BP!ExportSucceeds, BP!ExportPartial, BP!ExportFails, BP!CancelledInExport,
           BP!NextKind, BP!AbortFlush, BP!Goto, BP!Suspend, BP!Resumable, BP!Interrupted
  <2> QED
    BY <1>1, <1>6, <2>1, <2>2
<1> QED
  BY <1>2, <1>4, <1>5, <1>6, BP!NextKinds, SameAssumption, SameSets
  DEF ProcessorInv, BP!QuietStep, Tasks

\* The client runs on, fails, or returns with the collector's answer.
LEMMA ClientDelivery ==
  ASSUME ProcessorInv, ControlInv, DeliveryInv, NEW t \in AllExports, ClientStep(t)
  PROVE  ControlInv' /\ DeliveryInv'
<1>1. /\ pc' = pc /\ batch' = batch /\ submitted' = submitted /\ lost' = lost /\ queue' = queue
      /\ exportPc[t] \notin {"idle", "done"}
  BY ClientSteps DEF processor
<1>2. BP!Queued' = BP!Queued /\ BP!Sending' = BP!Sending
  BY <1>1 DEF BP!Queued, BP!Sending
<1>3. /\ exportPc \in [AllExports -> C!Points] /\ result \in [AllExports -> C!Results]
      /\ Tasks \subseteq AllExports
  BY DEF ControlInv, AllExports
<1>4. \/ GoesOn(t) \/ \E r \in Failures : EndsWith(t, r)
      \/ EndsWith(t, "returned")
  BY ClientSteps
<1>5. ControlInv'
  BY <1>1, <1>3, <1>4, ClientPoints DEF ControlInv, GoesOn, EndsWith, Failures, C!Results
<1>6. \A u \in Tasks \ {t} : Delivered(u)' = Delivered(u)
  BY <1>3, <1>4 DEF Delivered, GoesOn, EndsWith
<1>7. CASE /\ GoesOn(t) \/ \E r \in Failures : EndsWith(t, r)
           /\ acknowledged' = acknowledged /\ taken \subseteq taken'
  <2>1. t \in Tasks => ~Delivered(t) /\ ~Delivered(t)'
    BY <1>1, <1>3, <1>7 DEF Delivered, GoesOn, EndsWith, Failures
  <2> QED
    BY <1>1, <1>2, <1>5, <1>6, <1>7, <2>1 DEF DeliveryInv
<1>8. CASE /\ EndsWith(t, "returned")
           /\ acknowledged' = acknowledged \union Carried(t)
           /\ taken' = taken \union Carried(t)
  <2>1. CASE t \notin Tasks
    BY <1>1, <1>2, <1>5, <1>6, <1>8, <2>1 DEF DeliveryInv, Carried
  <2>2. CASE t \in Tasks
    <3>1. Carried(t) = ToSet(batch[t]) /\ Delivered(t)'
      BY <1>3, <1>8, <2>2 DEF Carried, Delivered, EndsWith
    <3>2. \A u \in Tasks \ {t} : batch[u] = <<>>
      BY <1>1, <2>2, OneBatch DEF ControlInv
    <3>3. /\ ToSet(batch[t]) \subseteq 1..submitted
          /\ ToSet(batch[t]) \intersect (BP!Queued \union lost) = {}
      <4>1. ToSet(batch[t]) \subseteq BP!Sending
        BY <2>2, SameSets DEF BP!Sending, Tasks
      <4> QED
        BY <4>1 DEF ProcessorInv, BP!RecordsInv
    <3>4. \A u \in Tasks : IF Delivered(u)' THEN ToSet(batch'[u]) \subseteq acknowledged'
                                            ELSE ToSet(batch'[u]) \intersect acknowledged' = {}
      BY <1>1, <1>8, <3>1, <3>2, EmptyBatch
    <3>5. /\ acknowledged' \subseteq taken'
          /\ acknowledged' \subseteq 1..submitted'
          /\ acknowledged' \intersect (BP!Queued' \union lost') = {}
          /\ 1..submitted' \subseteq BP!Queued' \union BP!Sending' \union lost' \union acknowledged'
      BY <1>1, <1>2, <1>8, <3>1, <3>3 DEF DeliveryInv
    <3> QED
      BY <1>5, <3>4, <3>5 DEF DeliveryInv
  <2> QED
    BY <2>1, <2>2
<1> QED
  BY <1>7, <1>8, ClientSteps

\* Exports of other clients carry no record of this processor.
LEMMA OtherDelivery ==
  ASSUME ControlInv, DeliveryInv, NEW t \in Others, OtherCalls(t) \/ OtherReturns(t)
  PROVE  ControlInv' /\ DeliveryInv'
<1>1. /\ pc' = pc /\ batch' = batch /\ submitted' = submitted /\ lost' = lost /\ queue' = queue
      /\ UNCHANGED collector
  BY DEF OtherCalls, OtherReturns, processor
<1>2. /\ exportPc' \in {[exportPc EXCEPT ![t] = "headers"], [exportPc EXCEPT ![t] = "idle"]}
      /\ result' \in {result, [result EXCEPT ![t] = "none"]}
  BY DEF OtherCalls, OtherReturns, C!BeginExport, C!Resolve, C!Goto
<1>3. t \in AllExports /\ t \notin Tasks
  BY PipelineAssumption DEF AllExports
<1>4. ControlInv'
  <2>1. {"headers", "idle"} \subseteq C!Points /\ "none" \in C!Results
    BY DEF C!Points, C!Results
  <2>2. exportPc' \in [AllExports -> C!Points] /\ result' \in [AllExports -> C!Results]
    BY <1>2, <2>1 DEF ControlInv
  <2>3. \A u \in Tasks : exportPc'[u] = exportPc[u]
    BY <1>2, <1>3 DEF ControlInv, AllExports
  <2> QED
    BY <1>1, <2>2, <2>3 DEF ControlInv
<1>5. \A u \in Tasks : Delivered(u)' = Delivered(u)
  BY <1>2, <1>3 DEF Delivered, ControlInv, AllExports
<1> QED
  BY <1>1, <1>4, <1>5 DEF DeliveryInv, collector, BP!Queued, BP!Sending

LEMMA NextDelivery ==
  ProcessorInv /\ ControlInv /\ DeliveryInv /\ [Next]_vars => ControlInv' /\ DeliveryInv'
<1> SUFFICES ASSUME ProcessorInv, ControlInv, DeliveryInv, [Next]_vars
             PROVE  ControlInv' /\ DeliveryInv'
  OBVIOUS
<1>1. CASE OutsideStep /\ UNCHANGED <<exportPc, result, collector>>
  BY <1>1, OutsideDelivery, ProcessorSteps
<1>2. ASSUME NEW t \in Tasks, StartExport(t) \/ ReturnToFlush(t)
      PROVE  ControlInv' /\ DeliveryInv'
  BY <1>2, StartDelivery, ReturnDelivery
<1>3. ASSUME NEW t \in AllExports, ClientStep(t) PROVE ControlInv' /\ DeliveryInv'
  BY <1>3, ClientDelivery
<1>4. ASSUME NEW t \in Others, OtherCalls(t) \/ OtherReturns(t)
      PROVE  ControlInv' /\ DeliveryInv'
  BY <1>4, OtherDelivery
<1>5. CASE UNCHANGED <<processor, exportPc, result, collector>>
  <2>1. /\ UNCHANGED <<pc, queue, batch, submitted, lost, exportPc, result>>
        /\ UNCHANGED <<taken, acknowledged>>
    BY <1>5 DEF processor, collector
  <2>2. ControlInv'
    BY <2>1 DEF ControlInv
  <2>3. BP!Queued' = BP!Queued /\ BP!Sending' = BP!Sending
    BY <2>1 DEF BP!Queued, BP!Sending
  <2> QED
    BY <2>1, <2>2, <2>3 DEF DeliveryInv, Delivered
<1> QED
  BY <1>1, <1>2, <1>3, <1>4, <1>5, PipelineSteps

-----------------------------------------------------------------------------
(* The theorems.                                                             *)

LEMMA PipelineCorrect == Spec => [](ProcessorInv /\ ControlInv /\ DeliveryInv)
BY ProcessorCorrect, InitPipeline, NextDelivery, PTL DEF Spec

\* flush() counts a batch as answered only where the client returned, and the
\* client returns only what the collector said after taking the request.
THEOREM AnsweredRecordsWereTaken == Spec => []AnsweredWasTaken
<1>1. ASSUME ProcessorInv, DeliveryInv PROVE AnsweredWasTaken
  <2> SUFFICES ASSUME NEW i \in Records, P!Fate[i] = "answered" PROVE i \in acknowledged
    BY <1>1 DEF AnsweredWasTaken, DeliveryInv
  <2>1. BP!Fate[i] = IF i > submitted THEN "future"
                     ELSE IF i \in BP!Queued THEN "queued"
                     ELSE IF i \in BP!Sending THEN "sending"
                     ELSE IF i \in lost THEN "lost"
                     ELSE "answered"
    BY <1>1, BP!FateIs, SameAssumption DEF ProcessorInv, Records
  <2>2. i \notin BP!Queued \union BP!Sending \union lost /\ ~(i > submitted)
    BY <2>1, SameSets
  <2>3. i \in 1..submitted
    BY <1>1, <2>2 DEF Records, ProcessorInv, BP!TypeOK, BP!StoreOK
  <2> QED
    BY <1>1, <2>2, <2>3 DEF DeliveryInv
<1> QED
  BY <1>1, PipelineCorrect, PTL

\* Neither the retries of the client nor the counters of flush() touch a record
\* again whose acknowledgement was received.
THEOREM AcknowledgementsAreFinal == Spec => []AcknowledgedIsFinal
<1>1. DeliveryInv => AcknowledgedIsFinal
  BY DEF DeliveryInv, AcknowledgedIsFinal, Delivered
<1> QED
  BY <1>1, PipelineCorrect, PTL

-----------------------------------------------------------------------------
(* The client of the pipeline is the one of the other proofs.                *)

LEMMA SameClientAssumption == EC!ClientAssumption /\ EC!ProviderAssumption
BY PipelineAssumption
DEF C!ClientAssumption, EC!ClientAssumption, C!ProviderAssumption, EC!ProviderAssumption,
    C!IsFiniteSet, EC!IsFiniteSet

\* The steps of a call of headers().
LEMMA SameHeaders == \A t : C!HeadersStep(t) => EC!HeadersStep(t)
<1> USE DEF C!Goto, EC!Goto, C!Suspend, EC!Suspend, C!Resumable, EC!Resumable,
            C!Interrupted, EC!Interrupted, C!cache, EC!cache, C!lock, EC!lock,
            C!Usable, EC!Usable, C!Release, EC!Release, C!WakeFirst, EC!WakeFirst
<1> SUFFICES ASSUME NEW t, C!HeadersStep(t) PROVE EC!HeadersStep(t)
  OBVIOUS
<1>1. C!Headers(t) => EC!Headers(t)
  BY DEF C!Headers, EC!Headers, C!LockIsFree, EC!LockIsFree, C!ToSet, EC!ToSet
<1>2. C!LockGranted(t) => EC!LockGranted(t)
  BY DEF C!LockGranted, EC!LockGranted, C!LeaveWaiters, EC!LeaveWaiters, C!RemoveAt, EC!RemoveAt
<1>3. C!Recheck(t) => EC!Recheck(t)
  BY DEF C!Recheck, EC!Recheck, C!BeginMint, EC!BeginMint
<1>4. \A p : C!MintFails(t, p) => EC!MintFails(t, p)
  BY DEF C!MintFails, EC!MintFails
<1>5. \A e : C!MintSucceeds(t, e) => EC!MintSucceeds(t, e)
  BY DEF C!MintSucceeds, EC!MintSucceeds, C!Lifetime, EC!Lifetime
<1>6. \A a : C!MintAnswered(t, a) => EC!MintAnswered(t, a)
  <2>1. \A a : C!Refreshed(a) = EC!Refreshed(a)
    BY DEF C!Refreshed, EC!Refreshed
  <2> QED
    BY <1>4, <1>5, <2>1 DEF C!MintAnswered, EC!MintAnswered
<1>7. C!CancelledInMint(t) => EC!CancelledInMint(t)
  BY DEF C!CancelledInMint, EC!CancelledInMint
<1>8. C!CancelledInLock(t) => EC!CancelledInLock(t)
  BY DEF C!CancelledInLock, EC!CancelledInLock, C!LeaveWaiters, EC!LeaveWaiters,
         C!RemoveAt, EC!RemoveAt
<1> QED
  BY <1>1, <1>2, <1>3, <1>4, <1>6, <1>7, <1>8
  DEF C!HeadersStep, EC!HeadersStep, C!MintUnanswered, EC!MintUnanswered

\* A Retryable outcome.
LEMMA SameRetry ==
  /\ \A t, r : C!Finish(t, r) => EC!Finish(t, r)
  /\ \A t, hint : C!Retry(t, hint) => EC!Retry(t, hint)
<1> USE DEF C!Suspend, EC!Suspend, C!loop, EC!loop, C!Elapsed, EC!Elapsed
<1>1. \A t, r : C!Finish(t, r) => EC!Finish(t, r)
  BY DEF C!Finish, EC!Finish
<1>2. \A t, d, hint : C!Backoff(t, d, hint) => EC!Backoff(t, d, hint)
  BY DEF C!Backoff, EC!Backoff
<1>3. \A t, hint : C!Delays(t, hint) = EC!Delays(t, hint)
  BY DEF C!Delays, EC!Delays, C!Min, EC!Min
<1> QED
  BY <1>1, <1>2, <1>3 DEF C!Retry, EC!Retry

\* The steps of an export once it has begun.
LEMMA SameExport == \A t : C!ExportStep(t) => EC!ExportStep(t)
<1> USE DEF C!Goto, EC!Goto, C!Suspend, EC!Suspend, C!Resumable, EC!Resumable,
            C!Interrupted, EC!Interrupted, C!cache, EC!cache, C!lock, EC!lock,
            C!loop, EC!loop, C!trace, EC!trace, C!Resolve, EC!Resolve
<1> SUFFICES ASSUME NEW t, C!ExportStep(t) PROVE EC!ExportStep(t)
  OBVIOUS
<1>1. C!Send(t) => EC!Send(t)
  BY DEF C!Send, EC!Send
<1>2. \A r : C!Answered(t, r) => EC!Answered(t, r)
  BY SameRetry DEF C!Answered, EC!Answered
<1>3. C!CredentialsRejected(t) => EC!CredentialsRejected(t)
  BY SameRetry
  DEF C!CredentialsRejected, EC!CredentialsRejected, C!Reauthenticate, EC!Reauthenticate,
      C!Invalidate, EC!Invalidate, C!Usable, EC!Usable
<1>4. \A hint : C!SendFails(t, hint) => EC!SendFails(t, hint)
  BY SameRetry DEF C!SendFails, EC!SendFails
<1>5. C!ProviderDown(t) => EC!ProviderDown(t)
  BY SameRetry DEF C!ProviderDown, EC!ProviderDown
<1>6. C!ProviderRaises(t) => EC!ProviderRaises(t)
  BY SameRetry DEF C!ProviderRaises, EC!ProviderRaises
<1>7. C!NextAttempt(t) => EC!NextAttempt(t)
  BY DEF C!NextAttempt, EC!NextAttempt
<1>8. C!ExportCancelled(t) => EC!ExportCancelled(t)
  BY SameRetry DEF C!ExportCancelled, EC!ExportCancelled
<1>9. C!HeadersStep(t) /\ UNCHANGED <<C!loop, C!trace>>
        => EC!HeadersStep(t) /\ UNCHANGED <<EC!loop, EC!trace>>
  BY SameHeaders
<1> QED
  BY <1>1, <1>2, <1>3, <1>4, <1>5, <1>6, <1>7, <1>8, <1>9 DEF C!ExportStep, EC!ExportStep

\* What the pipeline lets the client do in an export.
LEMMA ClientTakesExportStep ==
  ASSUME NEW t, ClientStep(t)
  PROVE  C!ExportStep(t)
<1>1. CASE RequestAccepted(t)
  BY <1>1 DEF RequestAccepted, C!ExportStep
<1>2. CASE RequestRejected(t)
  BY <1>2 DEF RequestRejected, C!ExportStep
<1>3. CASE RequestUnanswered(t)
  BY <1>3 DEF RequestUnanswered, C!ExportStep
<1>4. CASE BetweenRequests(t)
  BY <1>4 DEF BetweenRequests, C!ExportStep, retries, C!loop, C!trace
<1> QED
  BY <1>1, <1>2, <1>3, <1>4 DEF ClientStep

\* The clock.
LEMMA SameTick == C!Tick => EC!Tick
BY DEF C!Tick, EC!Tick, C!Timed, EC!Timed, C!Elapse, EC!Elapse, C!Usable, EC!Usable,
       C!lock, EC!lock, C!loop, EC!loop, C!trace, EC!trace

\* The first step of an export.
LEMMA SameStart ==
  ASSUME NEW t
  PROVE  /\ C!BeginExport(t) => EC!AttemptStep(t)
         /\ C!SendNothing(t, "other") => EC!EndStep(t)
<1> USE DEF C!Goto, EC!Goto, C!Resumable, EC!Resumable, C!cache, EC!cache, C!lock, EC!lock,
            C!trace, EC!trace, C!Resolve, EC!Resolve
<1>1. C!BeginExport(t) => EC!AttemptStep(t)
  BY DEF C!BeginExport, EC!BeginExport, EC!AttemptStep
<1>2. ASSUME C!SendNothing(t, "other") PROVE EC!EndStep(t)
  <2>1. EC!Finish(t, "other") /\ "other" \in EC!Results
    BY <1>2, SameRetry DEF C!SendNothing, EC!Results
  <2> QED
    BY <1>2, <2>1 DEF C!SendNothing, EC!EndStep
<1> QED
  BY <1>1, <1>2

\* What callers leave of a client alone.
ClientKept == UNCHANGED <<now, provider, requests, retries, exportRunning>>

\* A task cancelled outside its export or in it, be it due there only now.
LEMMA OutsideIsCallerStep ==
  ASSUME EC!TypeOK, PassOnCancellation, ClientKept, UNCHANGED <<result, exportPc>>
  PROVE  EC!CallerStep
<1>1. /\ exportCancelled \in [AllExports -> BOOLEAN] /\ exportPc \in [AllExports -> EC!Points]
      /\ result \in [AllExports -> EC!Results]
  BY DEF EC!TypeOK, AllExports
<1>2. exportCancelled' \in [AllExports -> BOOLEAN]
  BY <1>1 DEF PassOnCancellation
<1>3. \A t \in AllExports : exportCancelled[t] => exportCancelled'[t]
  BY <1>1 DEF PassOnCancellation
<1>4. UNCHANGED <<now, EC!cache, deadline, EC!lock, exportRunning, started, attempt, reauthed, EC!trace>>
  BY DEF ClientKept, provider, requests, retries, EC!cache, EC!lock, EC!trace
<1> QED
  BY <1>1, <1>2, <1>3, <1>4 DEF EC!CallerStep, AllExports

\* The caller of an export takes its result, and may export again.
LEMMA ReturnIsCallerStep ==
  ASSUME EC!TypeOK, NEW t \in AllExports, exportPc[t] = "done", ClientKept,
         exportCancelled' = exportCancelled, result' = [result EXCEPT ![t] = "none"],
         exportPc' = exportPc \/ exportPc' = [exportPc EXCEPT ![t] = "idle"]
  PROVE  EC!CallerStep
<1>1. /\ exportCancelled \in [AllExports -> BOOLEAN] /\ exportPc \in [AllExports -> EC!Points]
      /\ result \in [AllExports -> EC!Results]
  BY DEF EC!TypeOK, AllExports
<1>2. "idle" \in EC!Points /\ "none" \in EC!Results
  BY DEF EC!Points, EC!Results
<1>3. exportPc' \in [AllExports -> EC!Points] /\ result' \in [AllExports -> EC!Results]
  BY <1>1, <1>2
<1>4. \A u \in AllExports : exportPc'[u] = exportPc[u] \/ (exportPc[u] = "done" /\ exportPc'[u] = "idle")
  BY <1>1
<1>5. UNCHANGED <<now, EC!cache, deadline, EC!lock, exportRunning, started, attempt, reauthed, EC!trace>>
  BY DEF ClientKept, provider, requests, retries, EC!cache, EC!lock, EC!trace
<1> QED
  BY <1>1, <1>3, <1>4, <1>5 DEF EC!CallerStep, AllExports

\* Every step is one of the client or of its callers.
LEMMA StepsOfClient == EC!TypeOK /\ [Next]_vars => EC!AnyStep
<1> SUFFICES ASSUME EC!TypeOK, [Next]_vars PROVE EC!AnyStep
  OBVIOUS
<1>1. ASSUME PassOnCancellation, ClientKept, UNCHANGED <<result, exportPc>> PROVE EC!AnyStep
  BY <1>1, OutsideIsCallerStep DEF EC!AnyStep
<1>2. CASE ProcessorStep(P!Application)
  BY <1>1, <1>2 DEF ProcessorStep, ClientKept
<1>3. ASSUME NEW t \in Tasks, ProcessorStep(FlushStep(t)) PROVE EC!AnyStep
  BY <1>1, <1>3 DEF ProcessorStep, ClientKept
<1>4. CASE ProcessorStep(P!BgStep) \/ ProcessorStep(P!JoinReturns)
  BY <1>1, <1>4 DEF ProcessorStep, ClientKept
<1>5. ASSUME NEW t \in AllExports, C!BeginExport(t) \/ C!SendNothing(t, "other") PROVE EC!AnyStep
  BY <1>5, SameStart DEF EC!AnyStep, EC!TaskStep, AllExports
<1>6. ASSUME NEW t \in Tasks, StartExport(t) PROVE EC!AnyStep
  BY <1>5, <1>6 DEF StartExport, AllExports
<1>7. ASSUME NEW t \in Tasks, ReturnToFlush(t) PROVE EC!AnyStep
  BY <1>7, ReturnIsCallerStep DEF ReturnToFlush, ClientKept, EC!AnyStep, AllExports
<1>8. ASSUME NEW t \in AllExports, ClientStep(t) PROVE EC!AnyStep
  <2>1. EC!ExportStep(t)
    BY <1>8, ClientTakesExportStep, SameExport
  <2> QED
    BY <2>1, EC!NextIsAnyStep, SameClientAssumption DEF EC!Next, AllExports
<1>9. ASSUME NEW t \in Others, OtherCalls(t) \/ OtherReturns(t) PROVE EC!AnyStep
  <2>1. CASE OtherCalls(t)
    BY <1>5, <2>1 DEF OtherCalls, AllExports
  <2>2. CASE OtherReturns(t)
    BY <2>2, ReturnIsCallerStep DEF OtherReturns, ClientKept, EC!AnyStep, AllExports
  <2> QED
    BY <1>9, <2>1, <2>2
<1>10. CASE Tick
  BY <1>10, SameTick DEF Tick, EC!AnyStep
<1>11. CASE UNCHANGED vars
  <2>1. UNCHANGED EC!vars
    BY <1>11 DEF vars, provider, requests, retries, EC!vars, EC!cache, EC!lock, EC!loop, EC!trace
  <2> QED
    BY <2>1 DEF EC!AnyStep
<1> QED
  BY <1>2, <1>3, <1>4, <1>6, <1>7, <1>8, <1>9, <1>10, <1>11 DEF Next, TaskStep, AllExports

LEMMA PipelineClient == Spec => []EC!ClientInv
<1>1. Init => EC!ClientInv
  <2>1. Init => EC!Init
    BY DEF Init, C!Init, EC!Init
  <2> QED
    BY <2>1, EC!InitClientInv, SameClientAssumption
<1>2. EC!ClientInv /\ [Next]_vars => EC!ClientInv'
  <2>1. EC!ClientInv => EC!TypeOK
    BY DEF EC!ClientInv, EC!IInv
  <2> QED
    BY <2>1, StepsOfClient, EC!NextClientInv, SameClientAssumption
<1> QED
  BY <1>1, <1>2, PTL DEF Spec

LEMMA ClientSays == EC!ClientInv => ClientKeepsPromises
<1> SUFFICES ASSUME EC!ClientInv PROVE ClientKeepsPromises
  OBVIOUS
<1>1. /\ EC!SingleFlight /\ EC!NoRedundantMint /\ EC!NoEmptyToken
      /\ EC!FreshTokenAfterRejection /\ EC!RetriesInBudget /\ EC!HonoursRetryAfter
  BY EC!IInvImplies, SameClientAssumption DEF EC!ClientInv
<1>2. EC!ExportIsBounded
  BY EC!ClientInvBounds, SameClientAssumption
<1>3. C!SingleFlight /\ C!NoRedundantMint /\ C!NoEmptyToken
  BY <1>1 DEF C!SingleFlight, EC!SingleFlight, C!NoRedundantMint, EC!NoRedundantMint,
              C!NoEmptyToken, EC!NoEmptyToken
<1>4. C!FreshTokenAfterRejection /\ C!RetriesInBudget /\ C!HonoursRetryAfter
  BY <1>1 DEF C!FreshTokenAfterRejection, EC!FreshTokenAfterRejection,
              C!RetriesInBudget, EC!RetriesInBudget, C!HonoursRetryAfter, EC!HonoursRetryAfter
<1>5. C!ExportIsBounded
  BY <1>2 DEF C!ExportIsBounded, EC!ExportIsBounded, C!Elapsed, EC!Elapsed,
              C!AttemptBound, EC!AttemptBound, C!Cardinality, EC!Cardinality
<1> QED
  BY <1>3, <1>4, <1>5 DEF ClientKeepsPromises

\* One task at the endpoint and no mint in vain, a token in every request and a
\* newer one after a rejection, delays within the budget and as long as asked,
\* and an end in time: the client keeps this up for a processor that cancels its
\* exports and begins them again, and for any number of other clients beside it.
THEOREM ClientKeepsPromisesInPipeline == Spec => []ClientKeepsPromises
BY PipelineClient, ClientSays, PTL

\* An export of the pipeline drops one token at most, and a call of headers()
\* that raises in one leaves the cached token and its expiry alone.
THEOREM PipelineTokenSteps == Spec => C!OneReauth /\ C!CachesWholeAnswers
<1>1. EC!ClientInv /\ [Next]_vars
        => [\A t \in AllExports : denied[t] # 0 => denied'[t] \in {0, denied[t]}]_(C!vars)
  <2> SUFFICES ASSUME EC!ClientInv, [Next]_vars, NEW t \in AllExports, denied[t] # 0
               PROVE  denied'[t] \in {0, denied[t]}
    OBVIOUS
  <2>1. EC!IInv /\ EC!AnyStep
    BY StepsOfClient DEF EC!ClientInv, EC!IInv
  <2> QED
    BY <2>1, EC!DeniedOnce, SameClientAssumption DEF AllExports
<1>2. EC!ClientInv /\ [Next]_vars
        => [\A t \in AllExports : exportPc[t] = "mint" /\ exportPc'[t] \notin {"mint", "got"}
                                   => UNCHANGED C!cache]_<<exportPc, C!cache>>
  <2> SUFFICES ASSUME EC!ClientInv, [Next]_vars, NEW t \in AllExports, exportPc[t] = "mint",
                      exportPc'[t] \notin {"mint", "got"}
               PROVE  UNCHANGED C!cache
    OBVIOUS
  <2>1. EC!TypeOK /\ EC!AnyStep
    BY StepsOfClient DEF EC!ClientInv, EC!IInv
  <2>2. UNCHANGED EC!cache
    BY <2>1, EC!FailedMintKeepsCache, SameClientAssumption DEF AllExports
  <2> QED
    BY <2>2 DEF C!cache, EC!cache
<1> QED
  BY <1>1, <1>2, PipelineClient, PTL DEF Spec, C!OneReauth, C!CachesWholeAnswers, AllExports
=============================================================================
