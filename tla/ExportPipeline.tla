---------------------------- MODULE ExportPipeline ----------------------------
(* The batch processor on top of the client: flush() of processor.py awaits   *)
(* _export of client.py, which retries over a credential provider that other  *)
(* clients share, and a collector takes what arrives.  An answer may be lost  *)
(* after the collector has taken a request.                                   *)
(*                                                                            *)
(* BatchProcessor alone lets an export end in any way at any time; here the   *)
(* client decides.  The two coroutines are one task: where flush() awaits     *)
(* (pc[t] = "export") the task is at exportPc[t], and a cancellation is       *)
(* raised there first.  Nobody closes the provider here; see ExportClient.    *)
EXTENDS Naturals, SequencesExt

CONSTANTS Callers, Bg, Closer, NoTask, MaxQueue, MaxBatch, MaxRecords,
          SubmitMax, MaxRejected, UsedKinds,                \* of BatchProcessor
          Answers, Absent, Malformed, TooLarge, SessionGiven, DefaultTtl,
          ExpirySkew, MintTime, InitialBackoff, MaxBackoff, Multiplier, MaxElapsed,
          Timeout, OverflowAt, Hints, LastStart,            \* of ExportClient
          Others,      \* clients that share the provider, one export at a time
          MaxMinted    \* bound: with so many tokens issued no other client begins

VARIABLES pc, cancelled, running, holder, waiters, woken, queue, submitted,
          exported, dropped, failures, lastError, wake, flushed, closed, at,
          batch, refused, lost, lastLoss, mark, watch,      \* of BatchProcessor
          exportPc, exportCancelled, exportRunning, tokenHolder, tokenWaiters,
          tokenWoken, now, token, expiresAt, minted, session, deadline, wanted,
          started, attempt, reauthed, result, used, denied, notBefore,
                                                            \* of ExportClient
          taken,       \* the records that have reached the collector
          acknowledged \* ... and those of which its answer has reached the client

P == INSTANCE BatchProcessor WITH WithConsumer <- FALSE
Tasks == P!Tasks

C == INSTANCE ExportClient WITH
       Exports <- Tasks \union Others, Anonymous <- {},
       pc <- exportPc, cancelled <- exportCancelled, running <- exportRunning,
       holder <- tokenHolder, waiters <- tokenWaiters, woken <- tokenWoken

\* Other clients are no tasks of this processor.
ASSUME PipelineAssumption == /\ P!ConstantsAssumption
                             /\ C!ClientAssumption /\ C!ProviderAssumption
                             /\ Others \intersect Tasks = {} /\ MaxMinted \in Nat

Records == 1..MaxRecords
processor == <<pc, cancelled, running, holder, waiters, woken, queue, submitted,
               exported, dropped, failures, lastError, wake, flushed, closed,
               at, batch, refused, lost, lastLoss, mark, watch>>
provider == <<token, expiresAt, minted, wanted, session, tokenHolder, tokenWaiters,
              tokenWoken>>
requests == <<deadline, used, denied, notBefore>>
retries == <<started, attempt, reauthed>>
collector == <<taken, acknowledged>>
vars == <<processor, provider, requests, retries, collector, exportPc,
          exportCancelled, exportRunning, now, result>>

Init == /\ P!Init
        /\ C!Init
        /\ taken = {} /\ acknowledged = {}

-----------------------------------------------------------------------------
\* An export that has ended: the await in flush() returns without suspending.
Returning == \E t \in Tasks \union Others : exportPc[t] = "done"

\* No coroutine of the client, and none that has just ended, holds the loop.
ClientIsAway == exportRunning = NoTask /\ ~Returning

\* A cancellation of a task that awaits its export is due in the export.
PassOnCancellation ==
  exportCancelled' = [t \in DOMAIN exportCancelled |->
    exportCancelled[t] \/ (t \in Tasks /\ pc[t] = "export" /\ cancelled'[t])]

\* A step of the application or of the processor outside an export.
ProcessorStep(Step) ==
  /\ ClientIsAway
  /\ Step
  /\ PassOnCancellation
  /\ UNCHANGED <<now, provider, requests, retries, result, exportPc,
                 exportRunning, collector>>

\* flush() drains a queue and calls the client, which runs on at once; an
\* encoder that raises ends the call there.
StartExport(t) ==
  /\ ClientIsAway
  /\ P!DrainNext(t)
  /\ C!BeginExport(t) \/ C!SendNothing(t, "other")
  /\ UNCHANGED collector

\* Mutant: an exception of the client is taken for success.
ReturnToFlushQuietly(t) ==
  /\ exportPc[t] = "done"
  /\ \/ /\ result[t] # "cancelled"
        /\ P!ExportSucceeds(t) \/ \E r \in 0..MaxRejected : P!ExportPartial(t, r)
     \/ result[t] = "cancelled" /\ P!CancelledInExport(t)
  /\ exportPc' = [exportPc EXCEPT ![t] = "idle"]
  /\ result' = [result EXCEPT ![t] = "none"]
  /\ UNCHANGED <<now, provider, requests, retries, exportCancelled,
                 exportRunning, collector>>

\* The await in flush() returns or raises what the client returned or raised.
ReturnToFlush(t) ==
  /\ exportPc[t] = "done"
  /\ \/ /\ result[t] = "returned"
        /\ P!ExportSucceeds(t) \/ \E r \in 0..MaxRejected : P!ExportPartial(t, r)
     \/ /\ result[t] \in {"permanent", "transport", "overflow", "other"}
        /\ P!ExportFails(t)
     \/ result[t] = "cancelled" /\ P!CancelledInExport(t)
  /\ exportPc' = [exportPc EXCEPT ![t] = "idle"]
  /\ result' = [result EXCEPT ![t] = "none"]
  /\ UNCHANGED <<now, provider, requests, retries, exportCancelled,
                 exportRunning, collector>>

-----------------------------------------------------------------------------
(* Requests and the collector.                                               *)

Carried(t) == IF t \in Tasks THEN ToSet(batch[t]) ELSE {}

\* Success or PartialSuccess: the collector has taken the request.
RequestAccepted(t) ==
  /\ C!Answered(t, "returned")
  /\ taken' = taken \union Carried(t)
  /\ acknowledged' = acknowledged \union Carried(t)

\* The collector says no, for now or for good: it has taken nothing.
RequestRejected(t) ==
  /\ \/ C!Answered(t, "permanent")
     \/ C!CredentialsRejected(t)
     \/ \E hint \in Hints \union {Absent} : C!SendFails(t, hint)
  /\ UNCHANGED collector

\* A lost connection, a timeout, an unreadable answer, a cancellation: the
\* collector may have taken the request, or may not.
RequestUnanswered(t) ==
  /\ exportPc[t] = "send"
  /\ \/ C!SendFails(t, Absent)
     \/ C!Answered(t, "other") \/ C!Answered(t, "cancelled")
     \/ C!ExportCancelled(t)
  /\ taken' \in {taken, taken \union Carried(t)}
  /\ UNCHANGED acknowledged

\* The steps of the client between requests.
BetweenRequests(t) ==
  /\ \/ C!HeadersStep(t) /\ UNCHANGED <<retries, result, used, denied, notBefore>>
     \/ C!Send(t) \/ C!ProviderDown(t) \/ C!ProviderRaises(t) \/ C!NextAttempt(t)
     \/ exportPc[t] = "backoff" /\ C!ExportCancelled(t)
  /\ UNCHANGED collector

ClientStep(t) ==
  /\ running = NoTask
  /\ ~Returning
  /\ RequestAccepted(t) \/ RequestRejected(t) \/ RequestUnanswered(t) \/ BetweenRequests(t)
  /\ UNCHANGED processor

-----------------------------------------------------------------------------
FlushStep(t) == P!Acquire(t) \/ P!Granted(t) \/ P!LeaveFlush(t) \/ P!CancelledInLock(t)

TaskStep(t) == \/ ProcessorStep(FlushStep(t))
               \/ t = Bg /\ ProcessorStep(P!BgStep)
               \/ t = Closer /\ ProcessorStep(P!JoinReturns)
               \/ StartExport(t)
               \/ ReturnToFlush(t)
               \/ ClientStep(t)

\* An export of another client, over the same provider.
OtherCalls(t) == /\ running = NoTask
                 /\ ~Returning
                 /\ now <= LastStart /\ minted < MaxMinted
                 /\ C!BeginExport(t)
                 /\ UNCHANGED <<processor, collector>>

\* What its export returned or raised is that client's affair; it may call again.
OtherReturns(t) == /\ exportPc[t] = "done"
                   /\ exportPc' = [exportPc EXCEPT ![t] = "idle"]
                   /\ result' = [result EXCEPT ![t] = "none"]
                   /\ UNCHANGED <<processor, provider, requests, retries, collector,
                                  exportCancelled, exportRunning, now>>

Tick == /\ running = NoTask
        /\ ~Returning
        /\ C!Tick
        /\ UNCHANGED <<processor, collector>>

Next == \/ ProcessorStep(P!Application)
        \/ \E t \in Tasks : TaskStep(t)
        \/ \E t \in Others : OtherCalls(t) \/ ClientStep(t) \/ OtherReturns(t)
        \/ Tick

Spec == Init /\ [][Next]_vars

\* As in BatchProcessor and ExportClient, but nothing is assumed of an export
\* as a whole.  The clock moves on however busy the processor is.
Fairness == /\ \A t \in Tasks : SF_vars(TaskStep(t))
            /\ \A t \in Others : SF_vars(ClientStep(t) \/ OtherReturns(t))
            /\ SF_vars(Tick)

FairSpec == Spec /\ Fairness

-----------------------------------------------------------------------------
(* Properties.                                                               *)

\* Whatever the processor counts as answered did reach the collector: no
\* failure of the client, however late, is taken for an export.
AnsweredWasTaken ==
  /\ acknowledged \subseteq taken
  /\ {i \in Records : P!Fate[i] = "answered"} \subseteq acknowledged

\* A record the collector has acknowledged is neither sent again nor counted as
\* dropped.  So it arrives twice, or arrives and is counted as dropped, only
\* where an answer was lost.
AcknowledgedIsFinal ==
  /\ \A t \in Tasks : exportPc[t] \notin {"idle", "done"} =>
                        ToSet(batch[t]) \intersect acknowledged = {}
  /\ lost \intersect acknowledged = {}

\* What the client promises alone it keeps under the processor, whose tasks are
\* cancelled before, in and after their exports and export again, and beside
\* other clients: of the tokens they share, of requests and of delays.
ClientKeepsPromises ==
  /\ C!SingleFlight /\ C!NoRedundantMint
  /\ C!NoEmptyToken /\ C!FreshTokenAfterRejection
  /\ C!RetriesInBudget /\ C!HonoursRetryAfter /\ C!ExportIsBounded

\* What BatchProcessor assumes of its exports, that each of them ends, holds of
\* the client: so shutdowns, flushes and records come to an end here as there,
\* with the lock of the provider inside that of flush().
ExportsEndAsAssumed == P!Fairness

\* Exports of other clients end too: the processor, cancelled anywhere, keeps
\* nothing of the provider they share.
OthersEnd == \A t \in Others : exportPc[t] # "idle" ~> exportPc[t] = "done"
=============================================================================
