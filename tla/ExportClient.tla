---------------------------- MODULE ExportClient ----------------------------
(* OTLPClient._export of src/otlp_client/client.py with the retry loop of      *)
(* src/otlp_client/retry.py, for several exports that share one credential     *)
(* provider.  Time is discrete: computing takes none, requests and sleeps do,  *)
(* and every one of them ends by its deadline.                                 *)
EXTENDS OAuth2Provider, FiniteSets, FiniteSetsExt

CONSTANTS Anonymous,      \* exports of a client without a credential provider
          InitialBackoff, \* policy.initial_backoff, in ticks
          MaxBackoff,     \* policy.max_backoff
          Multiplier,     \* policy.multiplier
          MaxElapsed,     \* policy.max_elapsed
          Timeout,        \* the transport's timeout for one request
          OverflowAt,     \* first n for which the float multiplier ** n overflows
          Hints,          \* the retry_after values the collector may send
          LastStart       \* bound: no export begins after this tick

ASSUME ClientAssumption ==
  /\ Anonymous \subseteq Exports
  /\ InitialBackoff \in Nat /\ MaxBackoff \in Nat /\ Multiplier \in Nat \ {0}
  /\ MaxElapsed \in Nat \ {0} /\ Timeout \in Nat \ {0}
  /\ OverflowAt \in Nat /\ Hints \subseteq Nat /\ LastStart \in Nat
  /\ IsFiniteSet(Exports)

VARIABLES started,  \* with_retry's started
          attempt,  \* with_retry's attempt
          reauthed, \* _export's reauthed
          result,   \* how the export ended
          used,     \* the token of the last request, 0 for none
          denied,   \* history: the token whose rejection led to invalidate()
          notBefore \* history: the tick the collector asked the client to await

loop == <<started, attempt, reauthed, result>>
trace == <<used, denied, notBefore>>
vars == <<now, cache, deadline, lock, pc, cancelled, running, loop, trace>>

Init ==
  /\ now = 0 /\ token = 0 /\ expiresAt = 0 /\ minted = 0 /\ wanted = 1
  /\ session = IF SessionGiven THEN "given" ELSE "none"
  /\ holder = NoTask /\ waiters = <<>> /\ woken = NoTask /\ running = NoTask
  /\ pc = [t \in Exports |-> "idle"]
  /\ cancelled = [t \in Exports |-> FALSE]
  /\ deadline = [t \in Exports |-> 0]
  /\ started = [t \in Exports |-> 0]
  /\ attempt = [t \in Exports |-> 0]
  /\ reauthed = [t \in Exports |-> FALSE]
  /\ result = [t \in Exports |-> "none"]
  /\ used = [t \in Exports |-> 0]
  /\ denied = [t \in Exports |-> 0]
  /\ notBefore = [t \in Exports |-> 0]

-----------------------------------------------------------------------------
(* with_retry.                                                               *)

\* resolve(): ask the provider, when there is one.
Resolve(t) == Goto(t, IF t \in Anonymous THEN "got" ELSE "headers")

\* The coroutine ends, returning or raising r, and its locals with it.
Finish(t, r) ==
  /\ Suspend(t, "done")
  /\ result' = [result EXCEPT ![t] = r]
  /\ reauthed' = [reauthed EXCEPT ![t] = FALSE]
  /\ started' = [started EXCEPT ![t] = 0]
  /\ attempt' = [attempt EXCEPT ![t] = 0]
  /\ deadline' = [deadline EXCEPT ![t] = 0]
  /\ used' = [used EXCEPT ![t] = 0]
  /\ denied' = [denied EXCEPT ![t] = 0]
  /\ notBefore' = [notBefore EXCEPT ![t] = 0]

Elapsed(t) == now - started[t]

\* The delays full jitter allows, or the one the collector asks for.
Delays(t, hint) ==
  IF hint = Absent
  THEN 0..Min({MaxBackoff, InitialBackoff * Multiplier ^ attempt[t]})
  ELSE {hint}

\* asyncio.sleep(d), and what the collector asked for meanwhile.
Backoff(t, d, hint) ==
  /\ Suspend(t, "backoff")
  /\ deadline' = [deadline EXCEPT ![t] = now + d]
  /\ notBefore' = [notBefore EXCEPT ![t] = IF hint = Absent THEN 0 ELSE now + hint]
  /\ UNCHANGED <<loop, used, denied>>

\* Mutant: a delay beyond the budget is slept all the same.
RetryUnbounded(t, hint) ==
  IF Elapsed(t) >= MaxElapsed THEN Finish(t, "transport")
  ELSE IF attempt[t] >= OverflowAt THEN Finish(t, "overflow")
  ELSE \E d \in Delays(t, hint) : Backoff(t, d, hint)

\* Mutant: a delay beyond the budget is cut to what is left of it.
RetryTruncated(t, hint) ==
  IF Elapsed(t) >= MaxElapsed THEN Finish(t, "transport")
  ELSE IF attempt[t] >= OverflowAt THEN Finish(t, "overflow")
  ELSE \E d \in Delays(t, hint) : Backoff(t, Min({d, MaxElapsed - Elapsed(t)}), hint)

\* A Retryable outcome: give up, fail to compute the backoff, or sleep.  The
\* power is computed before retry_after is looked at.
Retry(t, hint) ==
  IF Elapsed(t) >= MaxElapsed THEN Finish(t, "transport")
  ELSE IF attempt[t] >= OverflowAt THEN Finish(t, "overflow")
  ELSE \E d \in Delays(t, hint) :
         IF d > MaxElapsed - Elapsed(t) THEN Finish(t, "transport")
                                       ELSE Backoff(t, d, hint)

\* The sleep is over: one more attempt.
NextAttempt(t) ==
  /\ Resumable(t, "backoff")
  /\ now >= deadline[t]
  /\ attempt' = [attempt EXCEPT ![t] = @ + 1]
  /\ Resolve(t)
  /\ UNCHANGED <<now, cache, deadline, lock, cancelled, started, reauthed,
                 result, trace>>

-----------------------------------------------------------------------------
(* _export.                                                                  *)

BeginExport(t) ==
  /\ Resumable(t, "idle")
  /\ started' = [started EXCEPT ![t] = now]
  /\ Resolve(t)
  /\ UNCHANGED <<now, cache, deadline, lock, cancelled, attempt, reauthed,
                 result, trace>>

\* No data, or an encoder that raises: nothing is sent.
SendNothing(t, r) ==
  /\ Resumable(t, "idle")
  /\ Finish(t, r)
  /\ UNCHANGED <<now, cache, lock, cancelled>>

\* The provider's headers are in hand: send the payload.
Send(t) ==
  /\ running = t
  /\ pc[t] = "got"
  /\ Suspend(t, "send")
  /\ used' = [used EXCEPT ![t] = IF t \in Anonymous THEN 0 ELSE token]
  /\ deadline' = [deadline EXCEPT ![t] = now + Timeout]
  /\ UNCHANGED <<now, cache, lock, cancelled, loop, denied, notBefore>>

\* Mutant: an answer that was received is retried like one that was not.
AnsweredRetries(t, r) ==
  /\ Resumable(t, "send")
  /\ Retry(t, Absent)
  /\ UNCHANGED <<now, cache, lock, cancelled>>

\* "returned" is Success or PartialSuccess, "permanent" a Permanent that is no
\* rejection of credentials, "other" an exception the transport lets through,
\* "cancelled" the CancelledError of a gRPC call whose channel is closed under it.
Answered(t, r) ==
  /\ Resumable(t, "send")
  /\ Finish(t, r)
  /\ UNCHANGED <<now, cache, lock, cancelled>>

\* invalidate(), then headers and request once more, at once.
Reauthenticate(t) ==
  /\ denied' = [denied EXCEPT ![t] = used[t]]
  /\ Invalidate
  /\ Resolve(t)
  /\ UNCHANGED <<deadline, started, attempt, result, used, notBefore>>

\* Mutant: the re-auth budget is one per attempt at best (`nonlocal` left out).
CredentialsRejectedAgain(t) ==
  /\ Resumable(t, "send")
  /\ IF t \notin Anonymous
     THEN Reauthenticate(t) /\ UNCHANGED reauthed
     ELSE Finish(t, "permanent") /\ UNCHANGED cache
  /\ UNCHANGED <<now, lock, cancelled>>

\* A 401 or 403: the first one of an export costs the cached token.
CredentialsRejected(t) ==
  /\ Resumable(t, "send")
  /\ IF ~reauthed[t] /\ t \notin Anonymous
     THEN Reauthenticate(t) /\ reauthed' = [reauthed EXCEPT ![t] = TRUE]
     ELSE Finish(t, "permanent") /\ UNCHANGED cache
  /\ UNCHANGED <<now, lock, cancelled>>

\* A transient answer, a connection error or a timeout of the request.
SendFails(t, hint) ==
  /\ Resumable(t, "send")
  /\ Retry(t, hint)
  /\ UNCHANGED <<now, cache, lock, cancelled>>

\* The provider raised OTLPTransportError: an outcome like a failed request.
ProviderDown(t) ==
  /\ running = t
  /\ pc[t] = "down"
  /\ Retry(t, Absent)
  /\ UNCHANGED <<now, cache, lock, cancelled>>

\* Any other exception of the provider leaves _export as it is.
ProviderRaises(t) ==
  /\ running = t
  /\ pc[t] \in {"permanent", "other", "cancelled"}
  /\ Finish(t, pc[t])
  /\ UNCHANGED <<now, cache, lock, cancelled>>

\* CancelledError at the request or in the sleep between two attempts.
ExportCancelled(t) ==
  /\ \E p \in {"send", "backoff"} : Interrupted(t, p)
  /\ Finish(t, "cancelled")
  /\ cancelled' = [cancelled EXCEPT ![t] = FALSE]
  /\ UNCHANGED <<now, cache, lock>>

-----------------------------------------------------------------------------
(* The world round the client.                                               *)

\* task.cancel() on a suspended export.
Cancel(t) ==
  /\ running = NoTask
  /\ pc[t] \in {"lock", "mint", "send", "backoff"}
  /\ ~cancelled[t]
  /\ cancelled' = [cancelled EXCEPT ![t] = TRUE]
  /\ UNCHANGED <<now, cache, deadline, lock, pc, running, loop, trace>>

Timed == {"mint", "send", "backoff"}

\* Time passes while every task waits for something that is not there yet.
Tick ==
  /\ running = NoTask /\ woken = NoTask
  /\ \A t \in Exports : ~cancelled[t] /\ (pc[t] \in Timed => now < deadline[t])
  /\ now < LastStart \/ \E t \in Exports : pc[t] \in Timed
  /\ Elapse
  /\ UNCHANGED <<deadline, lock, pc, cancelled, running, loop, trace>>

\* Nothing is under way and nothing more begins.
Quiet == /\ \A t \in Exports : \/ pc[t] = "done"
                               \/ pc[t] = "idle" /\ now > LastStart
         /\ UNCHANGED vars

ExportStep(t) ==
  \/ HeadersStep(t) /\ UNCHANGED <<loop, trace>>
  \/ Send(t)
  \/ \E r \in {"returned", "permanent", "other", "cancelled"} : Answered(t, r)
  \/ CredentialsRejected(t)
  \/ \E hint \in Hints \union {Absent} : SendFails(t, hint)
  \/ ProviderDown(t)
  \/ ProviderRaises(t)
  \/ NextAttempt(t)
  \/ ExportCancelled(t)

Calls(t) == \/ BeginExport(t)
            \/ \E r \in {"returned", "other"} : SendNothing(t, r)

\* Whoever made the provider closes it, be it under the exports that use it.
CloseProvider ==
  /\ running = NoTask
  /\ Aclose
  /\ UNCHANGED <<now, deadline, lock, pc, cancelled, running, loop, trace>>

Application == \/ \E t \in Exports : \/ now <= LastStart /\ Calls(t)
                                     \/ Cancel(t)
               \/ CloseProvider

Next == \/ Application
        \/ \E t \in Exports : ExportStep(t)
        \/ Tick
        \/ Quiet

Spec == Init /\ [][Next]_vars

-----------------------------------------------------------------------------
(* Properties.                                                               *)

Points == Timed \union {"idle", "headers", "lock", "recheck", "got", "down",
                        "permanent", "other", "cancelled", "done"}
Results == {"none", "returned", "permanent", "transport", "overflow", "other",
            "cancelled"}

\* Every variable has its type, _expires_at included: it may lie in the past.
TypeOK ==
  /\ now \in Nat /\ token \in 0..minted /\ expiresAt \in Nat /\ minted \in Nat
  /\ wanted \in Nat /\ session \in {"none", "given", "own", "closed"}
  /\ holder \in Exports \union {NoTask} /\ waiters \in Seq(Exports)
  /\ woken \in Exports \union {NoTask} /\ running \in Exports \union {NoTask}
  /\ pc \in [Exports -> Points] /\ result \in [Exports -> Results]
  /\ cancelled \in [Exports -> BOOLEAN] /\ reauthed \in [Exports -> BOOLEAN]
  /\ \A f \in {deadline, started, attempt, used, denied, notBefore} :
       f \in [Exports -> Nat]

\* headers() never hands out a token that was dropped: no request says
\* "Bearer None", whoever calls invalidate() while others wait or mint.
NoEmptyToken ==
  \A t \in Exports \ Anonymous : pc[t] = "send" => used[t] # 0

\* Once its credentials were rejected an export sends a newer token, so that a
\* second rejection, which is final, is never of the same one.
FreshTokenAfterRejection ==
  \A t \in Exports : denied[t] # 0 /\ pc[t] = "send" => used[t] > denied[t]

\* The re-auth budget is one per export, not one per attempt: an export that has
\* dropped a token drops no other one, however many attempts it makes.
OneReauth ==
  [][\A t \in Exports : denied[t] # 0 => denied'[t] \in {0, denied[t]}]_vars

\* No attempt is planned for later than max_elapsed after the export began.
RetriesInBudget ==
  \A t \in Exports : pc[t] = "backoff" => deadline[t] <= started[t] + MaxElapsed

\* No request is sent earlier than the collector asked with retry_after.
HonoursRetryAfter ==
  \A t \in Exports : pc[t] = "send" => deadline[t] - Timeout >= notBefore[t]

\* How long one attempt may take: twice the lock, the mint and the request.
AttemptBound ==
  2 * (Timeout + MintTime * Cardinality(Exports \ Anonymous))

\* An export under way never outlasts max_elapsed and the attempt begun in it.
ExportIsBounded ==
  \A t \in Exports : pc[t] \notin {"idle", "done"} =>
                        Elapsed(t) <= MaxElapsed + AttemptBound

\* README: export_* raises OTLPPermanentError or OTLPTransportError on failure.
RaisesOTLPErrors == \A t \in Exports : result[t] # "overflow"
=============================================================================
