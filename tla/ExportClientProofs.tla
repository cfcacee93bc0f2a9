-------------------------- MODULE ExportClientProofs --------------------------
(* Theorems about ExportClient and the provider it shares, for every number   *)
(* of exports, retry policy, lifetime of tokens and answer of the collector   *)
(* and of the token endpoint, with their proofs.                              *)
EXTENDS ExportClient, AsyncioProofs

-----------------------------------------------------------------------------
(* The kinds of step.                                                        *)

\* Retryable outcomes end the export or start a sleep within the budget, as
\* long as the collector asked for when it asked for something.
LEMMA RetryOutcomes ==
  ASSUME NEW t \in Exports, NEW hint \in Hints \union {Absent}, Retry(t, hint)
  PROVE  \/ \E r \in Results : Finish(t, r)
         \/ \E d \in Nat : /\ ~(d > MaxElapsed - Elapsed(t))
                           /\ hint # Absent => d = hint
                           /\ Backoff(t, d, hint)
<1>1. \A d \in Delays(t, hint) : d \in Nat /\ (hint # Absent => d = hint)
  BY ClientAssumption DEF Delays
<1>2. "transport" \in Results /\ "overflow" \in Results
  BY DEF Results
<1> QED
  BY <1>1, <1>2 DEF Retry

\* The export of t ends.
EndStep(t) ==
  /\ pc[t] \in {"idle", "send", "backoff", "down", "permanent", "other", "cancelled"}
  /\ running \in {NoTask, t}
  /\ \E r \in Results : Finish(t, r)
  /\ cancelled' = cancelled \/ cancelled' = [cancelled EXCEPT ![t] = FALSE]
  /\ UNCHANGED <<now, cache, lock>>

\* The export of t goes to sleep.
SleepStep(t) ==
  /\ pc[t] \in {"send", "down"}
  /\ running \in {NoTask, t}
  /\ \E hint \in Hints \union {Absent}, d \in Nat :
       /\ ~(d > MaxElapsed - Elapsed(t))
       /\ hint # Absent => d = hint
       /\ Backoff(t, d, hint)
  /\ UNCHANGED <<now, cache, lock, cancelled>>

\* The export of t drops its token and tries again.
ReauthStep(t) ==
  /\ Resumable(t, "send")
  /\ ~reauthed[t] /\ t \notin Anonymous
  /\ Reauthenticate(t) /\ reauthed' = [reauthed EXCEPT ![t] = TRUE]
  /\ UNCHANGED <<now, lock, cancelled>>

\* The first or a further attempt of the export of t.
AttemptStep(t) == BeginExport(t) \/ NextAttempt(t)

LEMMA StepKinds ==
  ASSUME [Next]_vars
  PROVE  \/ \E t \in Exports : \/ HeadersStep(t) /\ UNCHANGED <<loop, trace>>
                               \/ EndStep(t) \/ SleepStep(t) \/ ReauthStep(t)
                               \/ AttemptStep(t) \/ Send(t) \/ Cancel(t)
         \/ CloseProvider \/ Tick \/ UNCHANGED vars
<1>1. {"returned", "permanent", "other", "cancelled"} \subseteq Results
  BY DEF Results
<1>2. ASSUME NEW t \in Exports, Calls(t) PROVE EndStep(t) \/ AttemptStep(t)
  BY <1>1, <1>2 DEF Calls, SendNothing, EndStep, AttemptStep, Resumable
<1>3. ASSUME NEW t \in Exports, NEW hint \in Hints \union {Absent}, Retry(t, hint),
             pc[t] \in {"send", "down"}, running \in {NoTask, t},
             UNCHANGED <<now, cache, lock, cancelled>>
      PROVE  EndStep(t) \/ SleepStep(t)
  BY <1>3, RetryOutcomes DEF EndStep, SleepStep
<1>4. ASSUME NEW t \in Exports, ExportStep(t)
      PROVE  \/ HeadersStep(t) /\ UNCHANGED <<loop, trace>>
             \/ EndStep(t) \/ SleepStep(t) \/ ReauthStep(t) \/ AttemptStep(t) \/ Send(t)
  <2>1. ASSUME NEW r \in {"returned", "permanent", "other", "cancelled"}, Answered(t, r)
        PROVE  EndStep(t)
    BY <1>1, <2>1 DEF Answered, EndStep, Resumable
  <2>2. CASE CredentialsRejected(t)
    BY <1>1, <2>2 DEF CredentialsRejected, EndStep, ReauthStep, Resumable
  <2>3. ASSUME NEW hint \in Hints \union {Absent}, SendFails(t, hint)
        PROVE  EndStep(t) \/ SleepStep(t)
    BY <1>3, <2>3 DEF SendFails, Resumable
  <2>4. CASE ProviderDown(t)
    BY <1>3, <2>4 DEF ProviderDown
  <2>5. CASE ProviderRaises(t)
    BY <1>1, <2>5 DEF ProviderRaises, EndStep
  <2>6. CASE NextAttempt(t)
    BY <2>6 DEF AttemptStep
  <2>7. CASE ExportCancelled(t)
    BY <1>1, <2>7 DEF ExportCancelled, EndStep, Interrupted
  <2> QED
    BY <1>4, <2>1, <2>2, <2>3, <2>4, <2>5, <2>6, <2>7 DEF ExportStep
<1> QED
  BY <1>2, <1>4 DEF Next, Application, Quiet

\* A step of one export.
TaskStep(t) == \/ HeadersStep(t) /\ UNCHANGED <<loop, trace>>
               \/ EndStep(t) \/ SleepStep(t) \/ ReauthStep(t)
               \/ AttemptStep(t) \/ Send(t) \/ Cancel(t)

\* What callers may do round the exports, whoever has the loop: cancel them, and
\* take the result of one that has ended, to begin it anew or not.
CallerStep ==
  /\ cancelled' \in [Exports -> BOOLEAN] /\ result' \in [Exports -> Results]
  /\ pc' \in [Exports -> Points]
  /\ \A t \in Exports : pc'[t] = pc[t] \/ (pc[t] = "done" /\ pc'[t] = "idle")
  /\ \A t \in Exports : cancelled[t] => cancelled'[t]
  /\ UNCHANGED <<now, cache, deadline, lock, running, started, attempt, reauthed, trace>>

\* A step of the client, in this specification or in one that composes it with
\* its callers: they call at any time, and again.
AnyStep == \/ \E t \in Exports : TaskStep(t)
           \/ CloseProvider \/ Tick \/ CallerStep \/ UNCHANGED vars

LEMMA NextIsAnyStep == [Next]_vars => AnyStep
BY StepKinds DEF AnyStep, TaskStep

\* The answers of the token endpoint.
LEMMA MintOutcomes ==
  ASSUME NEW t \in Exports, NEW a \in Answers, MintAnswered(t, a)
  PROVE  \/ \E e \in Int \union {Absent} : Lifetime(e) \in Nat /\ MintSucceeds(t, e)
         \/ \E p \in {"down", "permanent", "other"} :
              (p = "other" => a.expires_in = TooLarge) /\ MintFails(t, p)
<1>1. a.expires_in \in Int \union {Absent, Malformed, TooLarge}
  BY ProviderAssumption
<1>2. Refreshed(a) \in {"down", "permanent", "other", "got"}
  BY DEF Refreshed
<1>3. CASE Refreshed(a) = "got"
  <2>1. a.expires_in \in Int \union {Absent}
    BY <1>1, <1>3 DEF Refreshed
  <2>2. Lifetime(a.expires_in) \in Nat
    BY <2>1, ProviderAssumption DEF Lifetime
  <2> QED
    BY <1>3, <2>1, <2>2 DEF MintAnswered
<1>4. CASE Refreshed(a) # "got"
  <2>1. Refreshed(a) = "other" => a.expires_in = TooLarge
    BY DEF Refreshed
  <2> QED
    BY <1>2, <1>4, <2>1 DEF MintAnswered
<1> QED
  BY <1>3, <1>4

-----------------------------------------------------------------------------
(* Type correctness.                                                         *)

ClockOK == now \in Nat
CacheOK == /\ token \in 0..minted /\ expiresAt \in Nat /\ minted \in Nat /\ wanted \in Nat
           /\ session \in {"none", "given", "own", "closed"}
LockOK == /\ holder \in Exports \union {NoTask} /\ waiters \in Seq(Exports)
          /\ woken \in Exports \union {NoTask}
ControlOK == /\ running \in Exports \union {NoTask}
             /\ pc \in [Exports -> Points]
             /\ cancelled \in [Exports -> BOOLEAN]
             /\ deadline \in [Exports -> Nat]
LoopOK == /\ started \in [Exports -> Nat] /\ attempt \in [Exports -> Nat]
          /\ reauthed \in [Exports -> BOOLEAN] /\ result \in [Exports -> Results]
TraceOK == /\ used \in [Exports -> Nat] /\ denied \in [Exports -> Nat]
           /\ notBefore \in [Exports -> Nat]

LEMMA TypeParts ==
  /\ TypeOK <=> ClockOK /\ CacheOK /\ LockOK /\ ControlOK /\ LoopOK /\ TraceOK
  /\ TypeOK' <=> ClockOK' /\ CacheOK' /\ LockOK' /\ ControlOK' /\ LoopOK' /\ TraceOK'
BY DEF TypeOK, ClockOK, CacheOK, LockOK, ControlOK, LoopOK, TraceOK

LEMMA InitTypeOK == Init => TypeOK
<1> SUFFICES ASSUME Init PROVE TypeOK
  OBVIOUS
<1>1. ClockOK /\ CacheOK /\ LockOK
  BY EmptySeq DEF Init, ClockOK, CacheOK, LockOK
<1>2. ControlOK /\ LoopOK /\ TraceOK
  BY DEF Init, ControlOK, LoopOK, TraceOK, Points, Results
<1> QED
  BY <1>1, <1>2, TypeParts

LEMMA ReleaseType == LockOK /\ Release => LockOK'
BY WakeFirstType DEF LockOK, Release

\* What headers() changes keeps its type.
LEMMA HeadersTypeOK ==
  ASSUME TypeOK, NEW t \in Exports, HeadersStep(t)
  PROVE  ClockOK' /\ CacheOK' /\ LockOK' /\ ControlOK'
<1> USE DEF Goto, Suspend
<1>1. ClockOK /\ CacheOK /\ LockOK /\ ControlOK
  BY TypeParts
<1>2. {"got", "recheck", "lock", "other", "mint", "down", "permanent", "cancelled"} \subseteq Points
  BY DEF Points, Timed
<1>3. UNCHANGED now => ClockOK'
  BY <1>1 DEF ClockOK
<1>4. UNCHANGED cache => CacheOK'
  BY <1>1 DEF CacheOK, cache
<1>5. UNCHANGED lock => LockOK'
  BY <1>1 DEF LockOK, lock
<1>6. ASSUME NEW p \in Points, pc' = [pc EXCEPT ![t] = p], running' \in {t, NoTask},
             cancelled' = cancelled \/ cancelled' = [cancelled EXCEPT ![t] = FALSE],
             deadline' = deadline \/ deadline' = [deadline EXCEPT ![t] = now + MintTime]
      PROVE  ControlOK'
  <2>1. cancelled' \in [Exports -> BOOLEAN]
    BY <1>1, <1>6 DEF ControlOK
  <2>2. now + MintTime \in Nat
    BY <1>1, ProviderAssumption DEF ClockOK
  <2>3. deadline' \in [Exports -> Nat]
    BY <1>1, <1>6, <2>2 DEF ControlOK
  <2>4. pc' \in [Exports -> Points] /\ running' \in Exports \union {NoTask}
    BY <1>1, <1>6 DEF ControlOK
  <2> QED
    BY <2>1, <2>3, <2>4 DEF ControlOK
<1>7. CASE Headers(t)
  <2>1. LockOK'
    BY <1>1, <1>7, AppendProperties DEF Headers, LockOK
  <2> QED
    BY <1>2, <1>3, <1>4, <1>6, <1>7, <2>1 DEF Headers
<1>8. CASE LockGranted(t)
  <2>1. LockOK'
    BY <1>1, <1>8, LeaveWaitersType DEF LockGranted, LockOK
  <2> QED
    BY <1>2, <1>3, <1>4, <1>6, <1>8, <2>1 DEF LockGranted
<1>9. CASE Recheck(t)
  <2>1. LockOK'
    BY <1>1, <1>5, <1>9, ReleaseType DEF Recheck, BeginMint
  <2>2. CacheOK'
    BY <1>1, <1>4, <1>9 DEF Recheck, BeginMint, CacheOK
  <2> QED
    BY <1>2, <1>3, <1>6, <1>9, <2>1, <2>2 DEF Recheck, BeginMint
<1>10. ASSUME NEW e \in Int \union {Absent}, Lifetime(e) \in Nat, MintSucceeds(t, e)
       PROVE  ClockOK' /\ CacheOK' /\ LockOK' /\ ControlOK'
  <2>1. LockOK'
    BY <1>1, <1>10, ReleaseType DEF MintSucceeds
  <2>2. CacheOK'
    BY <1>1, <1>10 DEF MintSucceeds, CacheOK, ClockOK
  <2> QED
    BY <1>2, <1>3, <1>6, <1>10, <2>1, <2>2 DEF MintSucceeds
<1>11. ASSUME NEW p \in {"down", "permanent", "other"}, MintFails(t, p)
       PROVE  ClockOK' /\ CacheOK' /\ LockOK' /\ ControlOK'
  BY <1>1, <1>2, <1>3, <1>4, <1>6, <1>11, ReleaseType DEF MintFails
<1>12. CASE CancelledInMint(t)
  BY <1>1, <1>2, <1>3, <1>4, <1>6, <1>12, ReleaseType DEF CancelledInMint
<1>13. CASE CancelledInLock(t)
  <2>1. waiters' \in Seq(Exports)
    BY <1>1, <1>13, LeaveWaitersType DEF CancelledInLock, LockOK
  <2>2. LockOK'
    BY <1>1, <1>13, <2>1, WakeFirstType DEF CancelledInLock, LockOK
  <2> QED
    BY <1>2, <1>3, <1>4, <1>6, <1>13, <2>2 DEF CancelledInLock
<1> QED
  BY <1>7, <1>8, <1>9, <1>10, <1>11, <1>12, <1>13, MintOutcomes DEF HeadersStep, MintUnanswered

LEMMA NextTypeOK == TypeOK /\ AnyStep => TypeOK'
<1> SUFFICES ASSUME TypeOK, AnyStep PROVE TypeOK'
  OBVIOUS
<1> USE DEF Goto, Suspend
<1>1. ClockOK /\ CacheOK /\ LockOK /\ ControlOK /\ LoopOK /\ TraceOK
  BY TypeParts
<1>2. /\ UNCHANGED now => ClockOK'
      /\ UNCHANGED cache => CacheOK'
      /\ UNCHANGED lock => LockOK'
      /\ UNCHANGED loop => LoopOK'
      /\ UNCHANGED trace => TraceOK'
      /\ UNCHANGED <<running, pc, cancelled, deadline>> => ControlOK'
  BY <1>1 DEF ClockOK, CacheOK, LockOK, ControlOK, LoopOK, TraceOK, cache, lock, loop, trace
<1>3. Points \intersect {"headers", "got", "send", "backoff", "done"}
        = {"headers", "got", "send", "backoff", "done"}
  BY DEF Points, Timed
<1>4. ASSUME NEW t \in Exports, HeadersStep(t), UNCHANGED <<loop, trace>> PROVE TypeOK'
  BY <1>2, <1>4, HeadersTypeOK, TypeParts
<1>5. ASSUME NEW t \in Exports, EndStep(t) PROVE TypeOK'
  <2>1. PICK r \in Results : Finish(t, r)
    BY <1>5 DEF EndStep
  <2>2. cancelled' \in [Exports -> BOOLEAN]
    BY <1>1, <1>5 DEF EndStep, ControlOK
  <2>3. ControlOK'
    BY <1>1, <1>3, <2>1, <2>2 DEF Finish, ControlOK
  <2>4. LoopOK'
    BY <1>1, <2>1 DEF Finish, LoopOK
  <2>5. TraceOK'
    BY <1>1, <2>1 DEF Finish, TraceOK
  <2> QED
    BY <1>2, <1>5, <2>3, <2>4, <2>5, TypeParts DEF EndStep
<1>6. ASSUME NEW t \in Exports, SleepStep(t) PROVE TypeOK'
  <2>1. PICK hint \in Hints \union {Absent}, d \in Nat : Backoff(t, d, hint)
    BY <1>6 DEF SleepStep
  <2>2. hint # Absent => hint \in Nat
    BY ClientAssumption
  <2>3. now + d \in Nat /\ (IF hint = Absent THEN 0 ELSE now + hint) \in Nat
    BY <1>1, <2>2 DEF ClockOK
  <2>4. ControlOK' /\ TraceOK'
    BY <1>1, <1>3, <1>6, <2>1, <2>3 DEF SleepStep, Backoff, ControlOK, TraceOK
  <2> QED
    BY <1>2, <1>6, <2>1, <2>4, TypeParts DEF SleepStep, Backoff
<1>7. ASSUME NEW t \in Exports, ReauthStep(t) PROVE TypeOK'
  <2>1. ControlOK' /\ TraceOK'
    BY <1>1, <1>3, <1>7 DEF ReauthStep, Reauthenticate, Resolve, ControlOK, TraceOK
  <2>2. LoopOK'
    BY <1>1, <1>7 DEF ReauthStep, Reauthenticate, LoopOK
  <2>3. CacheOK'
    BY <1>1, <1>7 DEF ReauthStep, Reauthenticate, Invalidate, CacheOK
  <2> QED
    BY <1>2, <1>7, <2>1, <2>2, <2>3, TypeParts DEF ReauthStep
<1>8. ASSUME NEW t \in Exports, AttemptStep(t) PROVE TypeOK'
  <2>1. ControlOK' /\ LoopOK'
    BY <1>1, <1>3, <1>8
    DEF AttemptStep, BeginExport, NextAttempt, Resolve, ControlOK, LoopOK, ClockOK
  <2> QED
    BY <1>2, <1>8, <2>1, TypeParts DEF AttemptStep, BeginExport, NextAttempt
<1>9. ASSUME NEW t \in Exports, Send(t) PROVE TypeOK'
  <2>1. token \in Nat /\ now + Timeout \in Nat
    BY <1>1, ClientAssumption DEF ClockOK, CacheOK
  <2>2. ControlOK' /\ TraceOK'
    BY <1>1, <1>3, <1>9, <2>1 DEF Send, ControlOK, TraceOK
  <2> QED
    BY <1>2, <1>9, <2>2, TypeParts DEF Send
<1>10. ASSUME NEW t \in Exports, Cancel(t) PROVE TypeOK'
  <2>1. ControlOK'
    BY <1>1, <1>10 DEF Cancel, ControlOK
  <2> QED
    BY <1>2, <1>10, <2>1, TypeParts DEF Cancel
<1>11. CASE CloseProvider
  <2>1. CacheOK'
    BY <1>1, <1>11 DEF CloseProvider, Aclose, CacheOK
  <2> QED
    BY <1>2, <1>11, <2>1, TypeParts DEF CloseProvider
<1>12. CASE Tick
  <2>1. ClockOK' /\ CacheOK'
    BY <1>1, <1>12 DEF Tick, Elapse, ClockOK, CacheOK
  <2> QED
    BY <1>2, <1>12, <2>1, TypeParts DEF Tick
<1>13. CASE CallerStep
  <2>1. ControlOK' /\ LoopOK'
    BY <1>1, <1>13 DEF CallerStep, ControlOK, LoopOK
  <2> QED
    BY <1>2, <1>13, <2>1, TypeParts DEF CallerStep
<1>14. CASE UNCHANGED vars
  BY <1>2, <1>14, TypeParts DEF vars
<1> QED
  BY <1>4, <1>5, <1>6, <1>7, <1>8, <1>9, <1>10, <1>11, <1>12, <1>13, <1>14 DEF AnyStep, TaskStep

\* Nothing an endpoint answers, and no interleaving, gives _expires_at, a
\* deadline or the number of a token a value that is no number.
THEOREM ClientTypeCorrect == Spec => []TypeOK
BY InitTypeOK, NextTypeOK, NextIsAnyStep, PTL DEF Spec

-----------------------------------------------------------------------------
(* The inductive invariant.                                                  *)

\* Points a task passes without giving the loop away.
Immediate == {"headers", "recheck", "got", "down", "permanent", "other", "cancelled"}

\* Whoever is between two suspensions has the loop.
TurnInv == \A t \in Exports : pc[t] \in Immediate => running = t

\* The lock is held by the task that rechecks or mints, and a waiter is woken
\* only when it is free.
LockInv == /\ \A t \in Exports : holder = t <=> pc[t] \in {"recheck", "mint"}
           /\ woken # NoTask => holder = NoTask /\ woken \in ToSet(waiters)

\* The tokens minted are those that were needed but for the next one, and a
\* request to the endpoint is under way only while there is none to use.
MintInv == /\ wanted = IF Usable THEN minted ELSE minted + 1
           /\ \A t \in Exports : pc[t] = "mint" => ~Usable

\* A task about to send has a token; every token a task used or had rejected is
\* an old one, and a rejected one never comes back.
TokenInv == \A t \in Exports :
  /\ used[t] <= minted
  /\ denied[t] # 0 => reauthed[t] /\ t \notin Anonymous /\ denied[t] <= minted
  /\ denied[t] # 0 /\ token # 0 => token > denied[t]
  /\ pc[t] = "got" /\ t \notin Anonymous => token # 0
  /\ pc[t] = "send" /\ t \notin Anonymous => used[t] # 0
  /\ pc[t] = "send" /\ denied[t] # 0 => used[t] > denied[t]

\* No task waits past its deadline; a sleep ends within the budget and not
\* before the tick the collector asked for, which has come when it is over.
TimeInv == \A t \in Exports :
  /\ pc[t] \in Timed => now <= deadline[t]
  /\ pc[t] = "backoff" => /\ deadline[t] <= started[t] + MaxElapsed
                          /\ notBefore[t] <= deadline[t]
  /\ pc[t] # "backoff" => notBefore[t] <= now
  /\ pc[t] = "send" => deadline[t] - Timeout >= notBefore[t]

-----------------------------------------------------------------------------
(* What a step leaves alone.                                                 *)

\* One of an export is taken with the loop free or its own.
LEMMA OthersStay ==
  ASSUME TypeOK, NEW t \in Exports, TaskStep(t)
  PROVE  /\ running \in {NoTask, t} /\ running' \in {NoTask, t} /\ now' = now
         /\ \A u \in Exports \ {t} :
              /\ pc'[u] = pc[u] /\ deadline'[u] = deadline[u]
              /\ started'[u] = started[u] /\ reauthed'[u] = reauthed[u]
              /\ used'[u] = used[u] /\ denied'[u] = denied[u]
              /\ notBefore'[u] = notBefore[u]
<1> USE DEF Goto, Suspend, Resumable, Interrupted
<1>1. ControlOK /\ LoopOK /\ TraceOK
  BY TypeParts
<1> USE <1>1 DEF ControlOK, LoopOK, TraceOK, loop, trace
<1>2. CASE HeadersStep(t) /\ UNCHANGED <<loop, trace>>
  <2>1. CASE Headers(t)
    BY <1>2, <2>1 DEF Headers
  <2>2. CASE LockGranted(t)
    BY <1>2, <2>2 DEF LockGranted
  <2>3. CASE Recheck(t)
    BY <1>2, <2>3 DEF Recheck, BeginMint
  <2>4. ASSUME NEW e \in Int \union {Absent}, MintSucceeds(t, e)
        PROVE  /\ running \in {NoTask, t} /\ running' \in {NoTask, t} /\ now' = now
               /\ \A u \in Exports \ {t} : pc'[u] = pc[u] /\ deadline'[u] = deadline[u]
    BY <2>4 DEF MintSucceeds
  <2>5. ASSUME NEW p \in {"down", "permanent", "other"}, MintFails(t, p)
        PROVE  /\ running \in {NoTask, t} /\ running' \in {NoTask, t} /\ now' = now
               /\ \A u \in Exports \ {t} : pc'[u] = pc[u] /\ deadline'[u] = deadline[u]
    BY <2>5 DEF MintFails
  <2>6. CASE CancelledInMint(t)
    BY <1>2, <2>6 DEF CancelledInMint
  <2>7. CASE CancelledInLock(t)
    BY <1>2, <2>7 DEF CancelledInLock
  <2> QED
    BY <1>2, <2>1, <2>2, <2>3, <2>4, <2>5, <2>6, <2>7, MintOutcomes
    DEF HeadersStep, MintUnanswered
<1>3. CASE EndStep(t)
  BY <1>3 DEF EndStep, Finish
<1>4. CASE SleepStep(t)
  BY <1>4 DEF SleepStep, Backoff
<1>5. CASE ReauthStep(t)
  BY <1>5 DEF ReauthStep, Reauthenticate, Resolve
<1>6. CASE AttemptStep(t)
  BY <1>6 DEF AttemptStep, BeginExport, NextAttempt, Resolve
<1>7. CASE Send(t)
  BY <1>7 DEF Send
<1>8. CASE Cancel(t)
  BY <1>8 DEF Cancel
<1> QED
  BY <1>2, <1>3, <1>4, <1>5, <1>6, <1>7, <1>8 DEF TaskStep

-----------------------------------------------------------------------------
(* Turns and the lock.                                                       *)

\* A task that ends its step at an immediate point keeps the loop.
LEMMA KeepsTurn ==
  ASSUME TypeOK, NEW t \in Exports, TaskStep(t)
  PROVE  pc'[t] \in Immediate => running' = t
<1> USE DEF Goto, Suspend, Resumable, Immediate
<1>1. ControlOK
  BY TypeParts
<1> USE <1>1 DEF ControlOK
<1>2. CASE HeadersStep(t)
  BY <1>2 DEF HeadersStep, Headers, LockGranted, Recheck, BeginMint, MintAnswered, MintSucceeds,
              MintUnanswered, MintFails, CancelledInMint, CancelledInLock
<1>3. CASE EndStep(t)
  BY <1>3 DEF EndStep, Finish
<1>4. CASE SleepStep(t)
  BY <1>4 DEF SleepStep, Backoff
<1>5. CASE ReauthStep(t) \/ AttemptStep(t)
  BY <1>5 DEF ReauthStep, Reauthenticate, AttemptStep, BeginExport, NextAttempt, Resolve
<1>6. CASE Send(t)
  BY <1>6 DEF Send
<1>7. CASE Cancel(t)
  BY <1>7 DEF Cancel
<1> QED
  BY <1>2, <1>3, <1>4, <1>5, <1>6, <1>7 DEF TaskStep

LEMMA InitTurn == Init => TurnInv
BY DEF Init, TurnInv, Immediate

LEMMA NextTurn == TypeOK /\ TurnInv /\ AnyStep => TurnInv'
<1> SUFFICES ASSUME TypeOK, TurnInv, AnyStep PROVE TurnInv'
  OBVIOUS
<1>1. ASSUME NEW t \in Exports, TaskStep(t) PROVE TurnInv'
  <2> SUFFICES ASSUME NEW u \in Exports, pc'[u] \in Immediate PROVE running' = u
    BY DEF TurnInv
  <2>1. CASE u = t
    BY <1>1, <2>1, KeepsTurn
  <2>2. CASE u # t
    BY <1>1, <2>2, OthersStay, ProviderAssumption DEF TurnInv
  <2> QED
    BY <2>1, <2>2
<1>2. CASE CloseProvider \/ Tick \/ UNCHANGED vars
  BY <1>2 DEF CloseProvider, Tick, vars, TurnInv
<1>3. CASE CallerStep
  BY <1>3 DEF CallerStep, TurnInv, Immediate
<1> QED
  BY <1>1, <1>2, <1>3 DEF AnyStep

LEMMA InitLock == Init => LockInv
BY ProviderAssumption DEF Init, LockInv

\* Outside headers() the lock stays as it is.
LEMMA LockStays ==
  ASSUME LockInv, UNCHANGED lock,
         \A u \in Exports : pc'[u] \in {"recheck", "mint"} <=> pc[u] \in {"recheck", "mint"}
  PROVE  LockInv'
BY DEF LockInv, lock

\* Its holder releases it, and goes on elsewhere.
LEMMA LockReleased ==
  ASSUME TypeOK, LockInv, NEW t \in Exports, pc[t] \in {"recheck", "mint"}, Release,
         NEW p \in Points \ {"recheck", "mint"}, pc' = [pc EXCEPT ![t] = p]
  PROVE  LockInv'
<1>1. \A u \in Exports : u # t => pc[u] \notin {"recheck", "mint"}
  BY DEF LockInv
<1>2. \A u \in Exports : pc'[u] \notin {"recheck", "mint"}
  BY <1>1 DEF TypeOK
<1>3. holder' = NoTask /\ waiters' = waiters
  BY DEF Release
<1>4. woken' # NoTask => woken' \in ToSet(waiters')
  BY WakeFirstType DEF Release, TypeOK
<1> QED
  BY <1>2, <1>3, <1>4, ProviderAssumption DEF LockInv

\* A task takes it when nobody has it.
LEMMA LockTaken ==
  ASSUME TypeOK, LockInv, NEW t \in Exports, holder = NoTask, holder' = t, woken' = NoTask,
         pc' = [pc EXCEPT ![t] = "recheck"]
  PROVE  LockInv'
<1>1. \A u \in Exports : pc[u] \notin {"recheck", "mint"}
  BY ProviderAssumption DEF LockInv
<1>2. \A u \in Exports : pc'[u] \in {"recheck", "mint"} <=> u = t
  BY <1>1 DEF TypeOK
<1> QED
  BY <1>2, ProviderAssumption DEF LockInv

LEMMA HeadersLock ==
  ASSUME TypeOK, LockInv, NEW t \in Exports, HeadersStep(t)
  PROVE  LockInv'
<1> USE DEF Goto, Suspend, Resumable, Interrupted
<1>1. pc \in [Exports -> Points] /\ waiters \in Seq(Exports)
  BY DEF TypeOK
<1>2. {"got", "lock", "other", "down", "permanent", "cancelled"} \subseteq Points \ {"recheck", "mint"}
  BY DEF Points, Timed
<1>3. ASSUME NEW p \in Points \ {"recheck", "mint"}, pc' = [pc EXCEPT ![t] = p],
             pc[t] \notin {"recheck", "mint"}
      PROVE  \A u \in Exports : pc'[u] \in {"recheck", "mint"} <=> pc[u] \in {"recheck", "mint"}
  BY <1>1, <1>3
<1>4. CASE Headers(t)
  <2>1. CASE Usable
    <3>1. pc' = [pc EXCEPT ![t] = "got"] /\ UNCHANGED lock /\ pc[t] = "headers"
      BY <1>4, <2>1 DEF Headers, lock
    <3> QED
      BY <1>2, <1>3, <3>1, LockStays
  <2>2. CASE ~Usable /\ LockIsFree
    <3>1. woken = NoTask
      BY <2>2 DEF LockIsFree, LockInv
    <3> QED
      BY <1>4, <2>2, <3>1, LockTaken DEF Headers, LockIsFree
  <2>3. CASE ~Usable /\ ~LockIsFree
    <3>1. /\ pc' = [pc EXCEPT ![t] = "lock"] /\ pc[t] = "headers"
          /\ waiters' = Append(waiters, t) /\ holder' = holder /\ woken' = woken
      BY <1>4, <2>3 DEF Headers
    <3>2. \A u \in Exports : pc'[u] \in {"recheck", "mint"} <=> pc[u] \in {"recheck", "mint"}
      BY <1>2, <1>3, <3>1
    <3>3. \A w \in ToSet(waiters) : w \in ToSet(waiters')
      <4>1. /\ waiters' \in Seq(Exports) /\ Len(waiters') = Len(waiters) + 1
            /\ Len(waiters) \in Nat /\ \A i \in 1..Len(waiters) : waiters'[i] = waiters[i]
        BY <1>1, <3>1, AppendProperties, LenProperties
      <4>2. \A i \in DOMAIN waiters : i \in DOMAIN waiters' /\ waiters'[i] = waiters[i]
        BY <1>1, <4>1, LenProperties
      <4> QED
        BY <4>2 DEF ToSet
    <3> QED
      BY <3>1, <3>2, <3>3 DEF LockInv
  <2> QED
    BY <2>1, <2>2, <2>3
<1>5. CASE LockGranted(t)
  <2>1. holder = NoTask
    BY <1>5, ProviderAssumption DEF LockGranted, LockInv
  <2> QED
    BY <1>5, <2>1, LockTaken DEF LockGranted
<1>6. CASE Recheck(t)
  <2>1. CASE Usable \/ session = "closed"
    BY <1>2, <1>6, <2>1, LockReleased DEF Recheck, BeginMint
  <2>2. CASE ~Usable /\ session # "closed"
    <3>1. UNCHANGED lock /\ pc' = [pc EXCEPT ![t] = "mint"] /\ pc[t] = "recheck"
      BY <1>6, <2>2 DEF Recheck, BeginMint
    <3>2. \A u \in Exports : pc'[u] \in {"recheck", "mint"} <=> pc[u] \in {"recheck", "mint"}
      BY <1>1, <3>1
    <3> QED
      BY <3>1, <3>2, LockStays
  <2> QED
    BY <2>1, <2>2
<1>7. ASSUME NEW e \in Int \union {Absent}, MintSucceeds(t, e) PROVE LockInv'
  BY <1>2, <1>7, LockReleased DEF MintSucceeds
<1>8. ASSUME NEW p \in {"down", "permanent", "other"}, MintFails(t, p) PROVE LockInv'
  BY <1>2, <1>8, LockReleased DEF MintFails
<1>9. CASE CancelledInMint(t)
  BY <1>2, <1>9, LockReleased DEF CancelledInMint
<1>10. CASE CancelledInLock(t)
  <2>1. /\ pc' = [pc EXCEPT ![t] = "cancelled"] /\ pc[t] = "lock" /\ holder' = holder
        /\ waiters' \in Seq(Exports)
    BY <1>1, <1>10, LeaveWaitersType DEF CancelledInLock
  <2>2. woken' # NoTask => holder' = NoTask /\ woken' \in ToSet(waiters')
    BY <1>10, <2>1, WakeFirstType DEF CancelledInLock, LockInv
  <2>3. \A u \in Exports : pc'[u] \in {"recheck", "mint"} <=> pc[u] \in {"recheck", "mint"}
    BY <1>2, <1>3, <2>1
  <2> QED
    BY <2>1, <2>2, <2>3 DEF LockInv
<1> QED
  BY <1>4, <1>5, <1>6, <1>7, <1>8, <1>9, <1>10, MintOutcomes DEF HeadersStep, MintUnanswered

LEMMA NextLock == TypeOK /\ LockInv /\ AnyStep => LockInv'
<1> SUFFICES ASSUME TypeOK, LockInv, AnyStep PROVE LockInv'
  OBVIOUS
<1> USE DEF Goto, Suspend, Resumable, Interrupted
<1>1. pc \in [Exports -> Points]
  BY DEF TypeOK
<1>2. ASSUME NEW t \in Exports, NEW p, p \notin {"recheck", "mint"},
             pc[t] \notin {"recheck", "mint"}, pc' = [pc EXCEPT ![t] = p], UNCHANGED lock
      PROVE  LockInv'
  <2>1. \A u \in Exports : pc'[u] \in {"recheck", "mint"} <=> pc[u] \in {"recheck", "mint"}
    BY <1>1, <1>2
  <2> QED
    BY <1>2, <2>1, LockStays
<1>3. ASSUME NEW t \in Exports, EndStep(t) \/ SleepStep(t) PROVE LockInv'
  BY <1>2, <1>3 DEF EndStep, Finish, SleepStep, Backoff
<1>4. ASSUME NEW t \in Exports, ReauthStep(t) \/ AttemptStep(t) \/ Send(t) PROVE LockInv'
  BY <1>2, <1>4
  DEF ReauthStep, Reauthenticate, AttemptStep, BeginExport, NextAttempt, Resolve, Send
<1>5. CASE CloseProvider \/ Tick \/ UNCHANGED vars \/ \E t \in Exports : Cancel(t)
  BY <1>5, LockStays DEF CloseProvider, Tick, vars, Cancel
<1>6. CASE CallerStep
  BY <1>6, LockStays DEF CallerStep
<1> QED
  BY <1>3, <1>4, <1>5, <1>6, HeadersLock DEF AnyStep, TaskStep

LEMMA ClientLockCorrect == Spec => [](TypeOK /\ TurnInv /\ LockInv)
BY NextIsAnyStep, InitTypeOK, NextTypeOK, InitTurn, NextTurn, InitLock, NextLock, PTL DEF Spec

\* However many exports ask for headers at once, one of them at most is at the
\* token endpoint, cancellations and failures included.
THEOREM OneMintAtATime == Spec => []SingleFlight
<1>1. LockInv => SingleFlight
  BY DEF LockInv, SingleFlight
<1> QED
  BY <1>1, ClientLockCorrect, PTL

-----------------------------------------------------------------------------
(* The cache.                                                                *)

\* What a step does to the cached token.
LEMMA CacheSteps ==
  ASSUME TypeOK, AnyStep
  PROVE  \/ UNCHANGED <<now, cache>>
         \/ \E t \in Exports : Recheck(t) /\ ~Usable
         \/ \E t \in Exports, e \in Int \union {Absent} : Lifetime(e) \in Nat /\ MintSucceeds(t, e)
         \/ \E t \in Exports : ReauthStep(t)
         \/ CloseProvider \/ Tick
<1>1. ASSUME NEW t \in Exports, HeadersStep(t)
      PROVE  \/ UNCHANGED <<now, cache>>
             \/ Recheck(t) /\ ~Usable
             \/ \E e \in Int \union {Absent} : Lifetime(e) \in Nat /\ MintSucceeds(t, e)
  BY <1>1, MintOutcomes
  DEF HeadersStep, Headers, LockGranted, Recheck, MintUnanswered, MintFails,
      CancelledInMint, CancelledInLock
<1>2. ASSUME NEW t \in Exports,
             EndStep(t) \/ SleepStep(t) \/ AttemptStep(t) \/ Send(t) \/ Cancel(t)
      PROVE  UNCHANGED <<now, cache>>
  BY <1>2 DEF EndStep, SleepStep, AttemptStep, BeginExport, NextAttempt, Send, Cancel
<1>3. CallerStep \/ UNCHANGED vars => UNCHANGED <<now, cache>>
  BY DEF CallerStep, vars
<1> QED
  BY <1>1, <1>2, <1>3 DEF AnyStep, TaskStep

LEMMA InitMint == Init => MintInv
<1> SUFFICES ASSUME Init PROVE MintInv
  OBVIOUS
<1>1. ~Usable
  BY DEF Init, Usable
<1> QED
  BY <1>1 DEF Init, MintInv

\* A task is at the endpoint because it found no usable token.
LEMMA EntersMint ==
  ASSUME TypeOK, AnyStep, NEW u \in Exports, pc'[u] = "mint"
  PROVE  pc[u] = "mint" \/ (Recheck(u) /\ ~Usable)
<1> USE DEF Goto, Suspend
<1>1. pc \in [Exports -> Points]
  BY DEF TypeOK
<1>2. ASSUME NEW t \in Exports, TaskStep(t), u # t PROVE pc[u] = "mint"
  BY <1>2, OthersStay
<1>3. CASE HeadersStep(u)
  <2>1. CASE Recheck(u)
    BY <1>1, <2>1 DEF Recheck
  <2>2. CASE ~Recheck(u)
    BY <1>1, <1>3, <2>2, MintOutcomes
    DEF HeadersStep, Headers, LockGranted, MintUnanswered, MintSucceeds, MintFails,
        CancelledInMint, CancelledInLock
  <2> QED
    BY <2>1, <2>2
<1>4. CASE EndStep(u) \/ SleepStep(u) \/ ReauthStep(u) \/ AttemptStep(u) \/ Send(u) \/ Cancel(u)
  BY <1>1, <1>4
  DEF EndStep, Finish, SleepStep, Backoff, ReauthStep, Reauthenticate, AttemptStep,
      BeginExport, NextAttempt, Resolve, Send, Cancel
<1>5. CASE CloseProvider \/ Tick \/ CallerStep \/ UNCHANGED vars
  BY <1>5 DEF CloseProvider, Tick, CallerStep, vars
<1> QED
  BY <1>2, <1>3, <1>4, <1>5 DEF AnyStep, TaskStep

LEMMA NextMint == TypeOK /\ LockInv /\ MintInv /\ AnyStep => MintInv'
<1> SUFFICES ASSUME TypeOK, LockInv, MintInv, AnyStep PROVE MintInv'
  OBVIOUS
<1>1. /\ now \in Nat /\ token \in 0..minted /\ expiresAt \in Nat /\ minted \in Nat /\ wanted \in Nat
      /\ ExpirySkew \in Nat /\ pc \in [Exports -> Points]
  BY ProviderAssumption DEF TypeOK
<1>2. ASSUME ~Usable => ~Usable',
             \A u \in Exports : pc[u] = "mint" => ~Usable'
      PROVE  \A u \in Exports : pc'[u] = "mint" => ~Usable'
  BY <1>2, EntersMint
<1>3. ASSUME UNCHANGED <<now, token, expiresAt, minted, wanted>> PROVE MintInv'
  <2>1. Usable' = Usable
    BY <1>3 DEF Usable
  <2> QED
    BY <1>2, <1>3, <2>1 DEF MintInv
<1>4. ASSUME NEW t \in Exports, Recheck(t), ~Usable PROVE MintInv'
  BY <1>3, <1>4 DEF Recheck, BeginMint
<1>5. ASSUME NEW t \in Exports, NEW e \in Int \union {Absent}, Lifetime(e) \in Nat,
             MintSucceeds(t, e)
      PROVE  MintInv'
  <2>1. pc[t] = "mint" /\ pc'[t] # "mint" /\ minted' = minted + 1 /\ token' = minted + 1
    BY <1>1, <1>5 DEF MintSucceeds, Resumable, Goto
  <2>2. wanted = minted + 1
    BY <2>1 DEF MintInv
  <2>3. Usable' <=> now < expiresAt' - ExpirySkew
    BY <1>1, <1>5, <2>1 DEF MintSucceeds, Usable
  <2>4. wanted' = IF Usable' THEN minted' ELSE minted' + 1
    BY <1>1, <1>5, <2>1, <2>2, <2>3 DEF MintSucceeds
  <2>5. \A u \in Exports : pc'[u] # "mint"
    BY <2>1, EntersMint DEF LockInv, Recheck
  <2> QED
    BY <2>4, <2>5 DEF MintInv
<1>6. ASSUME NEW t \in Exports, ReauthStep(t) PROVE MintInv'
  <2>1. ~Usable' /\ minted' = minted /\ wanted' = IF Usable THEN wanted + 1 ELSE wanted
    BY <1>6 DEF ReauthStep, Reauthenticate, Invalidate, Usable
  <2> QED
    BY <1>1, <2>1 DEF MintInv
<1>7. CASE CloseProvider
  BY <1>3, <1>7 DEF CloseProvider, Aclose
<1>8. CASE Tick
  <2>1. /\ now' = now + 1 /\ token' = token /\ expiresAt' = expiresAt /\ minted' = minted
        /\ wanted' = IF Usable /\ ~Usable' THEN wanted + 1 ELSE wanted
    BY <1>8 DEF Tick, Elapse
  <2>2. ~Usable => ~Usable'
    BY <1>1, <2>1 DEF Usable
  <2>3. \A u \in Exports : pc'[u] = "mint" => ~Usable'
    BY <1>2, <2>2 DEF MintInv
  <2> QED
    BY <1>1, <2>1, <2>2, <2>3 DEF MintInv
<1> QED
  BY <1>3, <1>4, <1>5, <1>6, <1>7, <1>8, CacheSteps DEF cache

LEMMA MintCorrect == Spec => [](TypeOK /\ TurnInv /\ LockInv /\ MintInv)
BY ClientLockCorrect, InitMint, NextMint, NextIsAnyStep, PTL DEF Spec

\* A token is asked for only to replace one that was dropped, that expired or
\* that came too short-lived: waiting for the lock never leads to another mint.
THEOREM MintsAreNeeded == Spec => []NoRedundantMint
<1>1. TypeOK /\ MintInv => NoRedundantMint
  BY DEF TypeOK, MintInv, NoRedundantMint
<1> QED
  BY <1>1, MintCorrect, PTL

-----------------------------------------------------------------------------
(* The tokens of the requests.                                               *)

\* The cached token stays, goes, or gives way to the next one minted.
LEMMA TokenSteps ==
  ASSUME TypeOK, AnyStep
  PROVE  \/ token' \in {token, 0} /\ minted' = minted
         \/ token' = minted + 1 /\ minted' = minted + 1
<1>1. ASSUME NEW t \in Exports, Recheck(t), ~Usable
      PROVE  token' \in {token, 0} /\ minted' = minted
  BY <1>1 DEF Recheck, BeginMint
<1>2. ASSUME NEW t \in Exports, NEW e \in Int \union {Absent}, MintSucceeds(t, e)
      PROVE  token' = minted + 1 /\ minted' = minted + 1
  BY <1>2 DEF MintSucceeds
<1>3. ASSUME NEW t \in Exports, ReauthStep(t)
      PROVE  token' \in {token, 0} /\ minted' = minted
  BY <1>3 DEF ReauthStep, Reauthenticate, Invalidate
<1> QED
  BY <1>1, <1>2, <1>3, CacheSteps DEF CloseProvider, Aclose, Tick, Elapse, cache

\* headers() returns with a token.
LEMMA HeadersGiveToken ==
  ASSUME TypeOK, NEW t \in Exports, HeadersStep(t)
  PROVE  pc'[t] # "send" /\ (pc'[t] = "got" => token' # 0)
<1> USE DEF Goto, Suspend
<1>1. pc \in [Exports -> Points] /\ minted \in Nat
  BY DEF TypeOK
<1>2. CASE Headers(t) \/ LockGranted(t) \/ CancelledInMint(t) \/ CancelledInLock(t)
  BY <1>1, <1>2 DEF Headers, LockGranted, CancelledInMint, CancelledInLock, Usable, cache
<1>3. CASE Recheck(t)
  BY <1>1, <1>3 DEF Recheck, BeginMint, Usable, cache
<1>4. ASSUME NEW e \in Int \union {Absent}, MintSucceeds(t, e)
      PROVE  pc'[t] # "send" /\ token' # 0
  BY <1>1, <1>4 DEF MintSucceeds
<1>5. ASSUME NEW p \in {"down", "permanent", "other"}, MintFails(t, p)
      PROVE  pc'[t] \notin {"send", "got"}
  BY <1>1, <1>5 DEF MintFails
<1> QED
  BY <1>2, <1>3, <1>4, <1>5, MintOutcomes DEF HeadersStep, MintUnanswered

LEMMA InitToken == Init => TokenInv
BY DEF Init, TokenInv

LEMMA NextToken == TypeOK /\ TurnInv /\ TokenInv /\ AnyStep => TokenInv'
<1> USE DEF Goto, Suspend, Resumable
<1> DEFINE Inv(u) == /\ used[u] <= minted
                     /\ denied[u] # 0 => reauthed[u] /\ u \notin Anonymous /\ denied[u] <= minted
                     /\ denied[u] # 0 /\ token # 0 => token > denied[u]
                     /\ pc[u] = "got" /\ u \notin Anonymous => token # 0
                     /\ pc[u] = "send" /\ u \notin Anonymous => used[u] # 0
                     /\ pc[u] = "send" /\ denied[u] # 0 => used[u] > denied[u]
<1> SUFFICES ASSUME TypeOK, TurnInv, TokenInv, AnyStep, NEW u \in Exports
             PROVE  Inv(u)'
  BY DEF TokenInv
<1>1. Inv(u)
  BY DEF TokenInv
<1>2. /\ used[u] \in Nat /\ denied[u] \in Nat /\ minted \in Nat /\ token \in 0..minted
      /\ pc \in [Exports -> Points] /\ used \in [Exports -> Nat] /\ denied \in [Exports -> Nat]
      /\ reauthed \in [Exports -> BOOLEAN]
  BY DEF TypeOK
<1>3. \/ token' \in {token, 0} /\ minted' = minted
      \/ token' = minted + 1 /\ minted' = minted + 1
  BY TokenSteps
\* Nothing of u changes, or only where it is and it is not about to send.
<1>4. ASSUME used'[u] = used[u], denied'[u] = denied[u], reauthed'[u] = reauthed[u],
             pc'[u] = "got" /\ u \notin Anonymous => token' # 0,
             pc'[u] = "send" => pc[u] = "send"
      PROVE  Inv(u)'
  BY <1>1, <1>2, <1>3, <1>4
<1>5. ASSUME NEW t \in Exports, TaskStep(t), u # t PROVE Inv(u)'
  <2>1. pc'[u] = pc[u] /\ pc[u] # "got"
    BY <1>5, OthersStay, ProviderAssumption DEF TurnInv, Immediate
  <2> QED
    BY <1>4, <1>5, <2>1, OthersStay
<1>6. CASE HeadersStep(u) /\ UNCHANGED <<loop, trace>>
  BY <1>4, <1>6, HeadersGiveToken DEF loop, trace
<1>7. CASE EndStep(u)
  <2>1. used'[u] = 0 /\ denied'[u] = 0 /\ pc'[u] = "done"
    BY <1>2, <1>7 DEF EndStep, Finish
  <2> QED
    BY <1>2, <1>3, <2>1
<1>8. CASE SleepStep(u)
  BY <1>2, <1>4, <1>8 DEF SleepStep, Backoff, loop
<1>9. CASE ReauthStep(u)
  <2>1. /\ pc[u] = "send" /\ pc'[u] = "headers" /\ u \notin Anonymous /\ used'[u] = used[u]
        /\ denied'[u] = used[u] /\ token' = 0 /\ minted' = minted
    BY <1>2, <1>9 DEF ReauthStep, Reauthenticate, Resolve, Invalidate
  <2>2. reauthed'[u] = TRUE
    BY <1>2, <1>9 DEF ReauthStep
  <2> QED
    BY <1>1, <1>2, <2>1, <2>2
<1>10. CASE AttemptStep(u)
  <2>1. /\ UNCHANGED <<cache, reauthed, trace>>
        /\ pc'[u] = IF u \in Anonymous THEN "got" ELSE "headers"
    BY <1>2, <1>10 DEF AttemptStep, BeginExport, NextAttempt, Resolve
  <2> QED
    BY <1>4, <2>1 DEF trace
<1>11. CASE Send(u)
  <2>1. /\ pc[u] = "got" /\ pc'[u] = "send" /\ used'[u] = IF u \in Anonymous THEN 0 ELSE token
        /\ UNCHANGED <<token, minted, denied, reauthed>>
    BY <1>2, <1>11 DEF Send, cache, loop
  <2> QED
    BY <1>1, <1>2, <2>1
<1>12. CASE Cancel(u)
  BY <1>1, <1>12 DEF Cancel, cache, loop, trace
<1>13. CASE CloseProvider
  BY <1>1, <1>13 DEF CloseProvider, Aclose, loop, trace
<1>14. CASE Tick
  BY <1>1, <1>14 DEF Tick, Elapse, loop, trace
<1>15. CASE UNCHANGED vars
  BY <1>1, <1>15 DEF vars, cache, loop, trace
<1>16. CASE CallerStep
  BY <1>1, <1>16 DEF CallerStep, cache, trace
<1> QED
  BY <1>5, <1>6, <1>7, <1>8, <1>9, <1>10, <1>11, <1>12, <1>13, <1>14, <1>15, <1>16
  DEF AnyStep, TaskStep

-----------------------------------------------------------------------------
(* Deadlines.                                                                *)

LEMMA InitTime == Init => TimeInv
BY DEF Init, TimeInv, Timed

\* A request to the endpoint has its whole timeout before it.
LEMMA HeadersDeadline ==
  ASSUME TypeOK, NEW t \in Exports, HeadersStep(t)
  PROVE  /\ pc[t] # "backoff" /\ pc'[t] \notin {"backoff", "send"}
         /\ pc'[t] = "mint" => deadline'[t] = now + MintTime
<1> USE DEF Goto, Suspend, Resumable, Interrupted
<1>1. pc \in [Exports -> Points] /\ deadline \in [Exports -> Nat]
  BY DEF TypeOK
<1>2. CASE Headers(t) \/ LockGranted(t) \/ CancelledInMint(t) \/ CancelledInLock(t)
  BY <1>1, <1>2 DEF Headers, LockGranted, CancelledInMint, CancelledInLock
<1>3. CASE Recheck(t)
  BY <1>1, <1>3 DEF Recheck, BeginMint
<1>4. ASSUME NEW e \in Int \union {Absent}, MintSucceeds(t, e)
      PROVE  pc[t] = "mint" /\ pc'[t] = "got"
  BY <1>1, <1>4 DEF MintSucceeds
<1>5. ASSUME NEW p \in {"down", "permanent", "other"}, MintFails(t, p)
      PROVE  pc[t] = "mint" /\ pc'[t] = p
  BY <1>1, <1>5 DEF MintFails
<1> QED
  BY <1>2, <1>3, <1>4, <1>5, MintOutcomes DEF HeadersStep, MintUnanswered

LEMMA NextTime == TypeOK /\ TimeInv /\ AnyStep => TimeInv'
<1> USE DEF Goto, Suspend, Resumable
<1> DEFINE Inv(u) == /\ pc[u] \in Timed => now <= deadline[u]
                     /\ pc[u] = "backoff" => /\ deadline[u] <= started[u] + MaxElapsed
                                             /\ notBefore[u] <= deadline[u]
                     /\ pc[u] # "backoff" => notBefore[u] <= now
                     /\ pc[u] = "send" => deadline[u] - Timeout >= notBefore[u]
<1> SUFFICES ASSUME TypeOK, TimeInv, AnyStep, NEW u \in Exports
             PROVE  Inv(u)'
  BY DEF TimeInv
<1>1. Inv(u)
  BY DEF TimeInv
<1>2. /\ now \in Nat /\ pc \in [Exports -> Points] /\ deadline \in [Exports -> Nat]
      /\ started \in [Exports -> Nat] /\ notBefore \in [Exports -> Nat]
      /\ MaxElapsed \in Nat /\ Timeout \in Nat /\ MintTime \in Nat
  BY ClientAssumption, ProviderAssumption DEF TypeOK
<1>3. ASSUME pc'[u] = pc[u], deadline'[u] = deadline[u], started'[u] = started[u],
             notBefore'[u] = notBefore[u], now' = now
      PROVE  Inv(u)'
  BY <1>1, <1>3
<1>4. ASSUME NEW t \in Exports, TaskStep(t), u # t PROVE Inv(u)'
  BY <1>3, <1>4, OthersStay
<1>5. CASE HeadersStep(u) /\ UNCHANGED <<loop, trace>>
  <2>1. notBefore' = notBefore
    BY <1>5 DEF trace
  <2>2. now' = now
    BY <1>5, OthersStay DEF TaskStep
  <2> QED
    BY <1>1, <1>2, <1>5, <2>1, <2>2, HeadersDeadline DEF Timed
<1>6. CASE EndStep(u)
  BY <1>2, <1>6 DEF EndStep, Finish, Timed
<1>7. CASE SleepStep(u)
  <2>1. PICK hint \in Hints \union {Absent}, d \in Nat :
             /\ ~(d > MaxElapsed - Elapsed(u))
             /\ hint # Absent => d = hint
             /\ Backoff(u, d, hint)
    BY <1>7 DEF SleepStep
  <2>2. /\ pc'[u] = "backoff" /\ deadline'[u] = now + d /\ now' = now
        /\ started' = started
        /\ notBefore'[u] = IF hint = Absent THEN 0 ELSE now + hint
    BY <1>2, <1>7, <2>1 DEF SleepStep, Backoff, loop
  <2>3. notBefore'[u] <= deadline'[u]
    BY <1>2, <2>1, <2>2
  <2>4. deadline'[u] <= started[u] + MaxElapsed
    <3>1. started[u] \in Nat /\ ~(d > MaxElapsed - (now - started[u]))
      BY <1>2, <2>1 DEF Elapsed
    <3> QED
      BY <1>2, <2>2, <3>1
  <2> QED
    BY <1>2, <2>2, <2>3, <2>4 DEF Timed
<1>8. CASE ReauthStep(u)
  <2>1. /\ pc[u] = "send" /\ pc'[u] = "headers" /\ notBefore' = notBefore /\ now' = now
    BY <1>2, <1>8 DEF ReauthStep, Reauthenticate, Resolve
  <2> QED
    BY <1>1, <2>1 DEF Timed
<1>9. CASE AttemptStep(u)
  <2>1. /\ pc'[u] \in {"got", "headers"} /\ now' = now /\ notBefore' = notBefore
        /\ pc[u] = "idle" \/ (pc[u] = "backoff" /\ now >= deadline[u])
    BY <1>2, <1>9 DEF AttemptStep, BeginExport, NextAttempt, Resolve, trace
  <2>2. notBefore[u] <= now
    BY <1>1, <1>2, <2>1
  <2> QED
    BY <2>1, <2>2 DEF Timed
<1>10. CASE Send(u)
  <2>1. /\ pc[u] = "got" /\ pc'[u] = "send" /\ deadline'[u] = now + Timeout
        /\ notBefore' = notBefore /\ now' = now
    BY <1>2, <1>10 DEF Send
  <2> QED
    BY <1>1, <1>2, <2>1
<1>11. CASE Cancel(u) \/ CloseProvider \/ UNCHANGED vars
  BY <1>3, <1>11 DEF Cancel, CloseProvider, vars, loop, trace
<1>12. CASE Tick
  <2>1. now' = now + 1 /\ (pc[u] \in Timed => now < deadline[u])
        /\ UNCHANGED <<pc, deadline, started, notBefore>>
    BY <1>12 DEF Tick, Elapse, loop, trace
  <2> QED
    BY <1>1, <1>2, <2>1 DEF Timed
<1>13. CASE CallerStep
  BY <1>1, <1>13 DEF CallerStep, trace, Timed
<1> QED
  BY <1>4, <1>5, <1>6, <1>7, <1>8, <1>9, <1>10, <1>11, <1>12, <1>13 DEF AnyStep, TaskStep

-----------------------------------------------------------------------------
(* What the client promises.                                                 *)

IInv == TypeOK /\ TurnInv /\ LockInv /\ MintInv /\ TokenInv /\ TimeInv

LEMMA InitIInv == Init => IInv
BY InitTypeOK, InitTurn, InitLock, InitMint, InitToken, InitTime DEF IInv

LEMMA NextIInv == IInv /\ AnyStep => IInv'
BY NextTypeOK, NextTurn, NextLock, NextMint, NextToken, NextTime DEF IInv

LEMMA ClientCorrect == Spec => []IInv
BY InitIInv, NextIInv, NextIsAnyStep, PTL DEF Spec

\* What the invariant says of requests, mints and sleeps.
LEMMA IInvImplies ==
  IInv => /\ SingleFlight /\ NoRedundantMint /\ NoEmptyToken
          /\ FreshTokenAfterRejection /\ RetriesInBudget /\ HonoursRetryAfter
<1> SUFFICES ASSUME IInv PROVE /\ SingleFlight /\ NoRedundantMint /\ NoEmptyToken
                              /\ FreshTokenAfterRejection /\ RetriesInBudget /\ HonoursRetryAfter
  OBVIOUS
<1>1. SingleFlight
  BY DEF IInv, LockInv, SingleFlight
<1>2. NoRedundantMint
  BY DEF IInv, TypeOK, MintInv, NoRedundantMint
<1>3. NoEmptyToken /\ FreshTokenAfterRejection
  BY DEF IInv, TokenInv, NoEmptyToken, FreshTokenAfterRejection
<1>4. RetriesInBudget /\ HonoursRetryAfter
  BY DEF IInv, TimeInv, RetriesInBudget, HonoursRetryAfter
<1> QED
  BY <1>1, <1>2, <1>3, <1>4

\* No request of a client with credentials says "Bearer None": invalidate()
\* never slips between headers() and the request that uses its result.
THEOREM RequestsCarryTokens == Spec => []NoEmptyToken
BY IInvImplies, ClientCorrect, PTL

\* After a 401 or 403 the export sends a newer token, whoever minted it.
THEOREM RejectedTokensStayRejected == Spec => []FreshTokenAfterRejection
BY IInvImplies, ClientCorrect, PTL

\* Whatever retry_after and jitter say, no sleep ends after max_elapsed.
THEOREM SleepsInBudget == Spec => []RetriesInBudget
BY IInvImplies, ClientCorrect, PTL

\* The collector is not asked again before its retry_after has passed, not even
\* after a further attempt that the provider delayed or failed.
THEOREM RetryAfterIsHonoured == Spec => []HonoursRetryAfter
BY IInvImplies, ClientCorrect, PTL

\* `reauthed` of _export outlives attempts.
LEMMA DeniedOnce ==
  ASSUME IInv, AnyStep, NEW u \in Exports, denied[u] # 0
  PROVE  denied'[u] \in {0, denied[u]}
<1>1. denied \in [Exports -> Nat] /\ TypeOK
  BY DEF IInv, TypeOK
<1>2. reauthed[u]
  BY DEF IInv, TokenInv
<1>3. ASSUME NEW t \in Exports, TaskStep(t), u # t PROVE denied'[u] = denied[u]
  BY <1>1, <1>3, OthersStay
<1>4. CASE HeadersStep(u) /\ UNCHANGED <<loop, trace>>
  BY <1>4 DEF trace
<1>5. CASE EndStep(u)
  BY <1>1, <1>5 DEF EndStep, Finish
<1>6. CASE ReauthStep(u)
  BY <1>2, <1>6 DEF ReauthStep
<1>7. CASE SleepStep(u) \/ AttemptStep(u) \/ Send(u) \/ Cancel(u)
  BY <1>7 DEF SleepStep, Backoff, AttemptStep, BeginExport, NextAttempt, Send, Cancel, trace
<1>8. CASE CloseProvider \/ Tick \/ CallerStep \/ UNCHANGED vars
  BY <1>8 DEF CloseProvider, Tick, CallerStep, vars, trace
<1> QED
  BY <1>3, <1>4, <1>5, <1>6, <1>7, <1>8 DEF AnyStep, TaskStep

\* An export drops one token at most, however many attempts it makes.
THEOREM OneReauthPerExport == Spec => OneReauth
<1>1. IInv /\ [Next]_vars => [\A t \in Exports : denied[t] # 0 => denied'[t] \in {0, denied[t]}]_vars
  BY DeniedOnce, NextIsAnyStep
<1> QED
  BY <1>1, ClientCorrect, PTL DEF Spec, OneReauth

\* Where headers() raises at the request for a token, _token and _expires_at stay.
LEMMA FailedMintKeepsCache ==
  ASSUME TypeOK, AnyStep, NEW u \in Exports, pc[u] = "mint", pc'[u] \notin {"mint", "got"}
  PROVE  UNCHANGED cache
<1>1. pc \in [Exports -> Points]
  BY DEF TypeOK
<1>2. ASSUME NEW t \in Exports, TaskStep(t), u # t PROVE FALSE
  BY <1>2, OthersStay
<1>3. CASE HeadersStep(u)
  <2>1. ASSUME NEW e \in Int \union {Absent}, MintSucceeds(u, e) PROVE FALSE
    BY <1>1, <2>1 DEF MintSucceeds, Goto
  <2> QED
    BY <1>3, <2>1, MintOutcomes
    DEF HeadersStep, Headers, LockGranted, Recheck, Resumable, MintUnanswered, MintFails,
        CancelledInMint, CancelledInLock, Interrupted
<1>4. CASE EndStep(u) \/ SleepStep(u) \/ ReauthStep(u) \/ AttemptStep(u) \/ Send(u) \/ Cancel(u)
  BY <1>4
  DEF EndStep, SleepStep, ReauthStep, AttemptStep, BeginExport, NextAttempt, Send, Cancel, Resumable
<1>5. CASE CloseProvider \/ Tick \/ CallerStep \/ UNCHANGED vars
  BY <1>5 DEF CloseProvider, Tick, CallerStep, vars
<1> QED
  BY <1>2, <1>3, <1>4, <1>5 DEF AnyStep, TaskStep

\* A call of headers() that raises, be it for the answer, for its cancellation
\* or for a closed session, leaves the cached token and its expiry alone.
THEOREM FailedMintsCacheNothing == Spec => CachesWholeAnswers
<1>1. TypeOK /\ [Next]_vars
        => [\A t \in Exports :
              pc[t] = "mint" /\ pc'[t] \notin {"mint", "got"} => UNCHANGED cache]_<<pc, cache>>
  BY FailedMintKeepsCache, NextIsAnyStep
<1> QED
  BY <1>1, ClientTypeCorrect, PTL DEF Spec, CachesWholeAnswers

-----------------------------------------------------------------------------
(* What headers() raises.                                                    *)

\* A task comes to "other" where the session was closed or float() overflowed.
LEMMA EntersOther ==
  ASSUME TypeOK, NEW u \in Exports, HeadersStep(u), pc'[u] = "other"
  PROVE  session = "closed" \/ \E a \in Answers : a.expires_in = TooLarge
<1> USE DEF Goto, Suspend
<1>1. pc \in [Exports -> Points]
  BY DEF TypeOK
<1>2. CASE Recheck(u)
  BY <1>1, <1>2 DEF Recheck, BeginMint
<1>3. ASSUME NEW a \in Answers, MintAnswered(u, a) PROVE a.expires_in = TooLarge
  BY <1>1, <1>3, MintOutcomes DEF MintSucceeds, MintFails
<1>4. ~(Headers(u) \/ LockGranted(u) \/ MintUnanswered(u) \/ CancelledInMint(u) \/ CancelledInLock(u))
  BY <1>1 DEF Headers, LockGranted, MintUnanswered, MintFails, CancelledInMint, CancelledInLock
<1> QED
  BY <1>2, <1>3, <1>4 DEF HeadersStep

\* aclose() is for good.
LEMMA StaysClosed ==
  ASSUME TypeOK, AnyStep, session = "closed"
  PROVE  session' = "closed"
BY CacheSteps
DEF cache, Recheck, BeginMint, MintSucceeds, ReauthStep, Reauthenticate, Invalidate,
    CloseProvider, Aclose, Tick, Elapse

LEMMA NextRaises == TypeOK /\ RaisesAsDocumented /\ AnyStep => RaisesAsDocumented'
<1> USE DEF Goto, Suspend
<1> SUFFICES ASSUME TypeOK, RaisesAsDocumented, AnyStep, NEW u \in Exports,
                    pc'[u] = "other"
             PROVE  session' = "closed" \/ \E a \in Answers : a.expires_in = TooLarge
  BY DEF RaisesAsDocumented
<1>1. pc \in [Exports -> Points]
  BY DEF TypeOK
<1>2. CASE pc[u] = "other"
  BY <1>2, StaysClosed DEF RaisesAsDocumented
<1>3. CASE pc[u] # "other"
  <2>1. ASSUME NEW t \in Exports, TaskStep(t), u # t PROVE FALSE
    BY <1>3, <2>1, OthersStay
  <2>2. ~(EndStep(u) \/ SleepStep(u) \/ ReauthStep(u) \/ AttemptStep(u) \/ Send(u) \/ Cancel(u))
    BY <1>1, <1>3
    DEF EndStep, Finish, SleepStep, Backoff, ReauthStep, Reauthenticate, AttemptStep,
        BeginExport, NextAttempt, Resolve, Send, Cancel
  <2>3. ~(CloseProvider \/ Tick \/ CallerStep \/ UNCHANGED vars)
    BY <1>3 DEF CloseProvider, Tick, CallerStep, vars
  <2> QED
    BY <2>1, <2>2, <2>3, EntersOther, StaysClosed DEF AnyStep, TaskStep
<1> QED
  BY <1>2, <1>3

\* headers() raises one of the two OTLP errors for every answer of the endpoint
\* but an expires_in beyond the floats, unless its session has been closed.
THEOREM HeadersRaiseOTLPErrors == Spec => []RaisesAsDocumented
<1>1. Init => RaisesAsDocumented
  BY DEF Init, RaisesAsDocumented
<1> QED
  BY <1>1, NextRaises, NextIsAnyStep, ClientTypeCorrect, PTL DEF Spec
=============================================================================
