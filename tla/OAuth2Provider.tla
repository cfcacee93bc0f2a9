--------------------------- MODULE OAuth2Provider ---------------------------
(* OAuth2ClientCredentials of src/otlp_client/credentials.py: a bearer token   *)
(* cached until it nears expiry, shared by concurrent exports, fetched by one  *)
(* of them at a time under an asyncio.Lock, dropped by invalidate().           *)
(*                                                                             *)
(* The module has the steps of a call of headers() by a task t.  The caller    *)
(* sends t to "headers" and takes it over where the call leaves it: at "got",  *)
(* or at the point named for the exception the call raised.                    *)
EXTENDS Integers, Asyncio

CONSTANTS Exports,     \* the tasks that call headers() and invalidate()
          Answers,     \* what the endpoint may answer: its status, whether the
                       \* body is an object with an access_token, and expires_in
          Absent,      \* an answer without expires_in,
          Malformed,   \* ... with one that float() refuses,
          TooLarge,    \* ... or with an integer beyond the floats
          SessionGiven, \* a session was passed in
          DefaultTtl,  \* default_ttl
          ExpirySkew,  \* expiry_skew
          MintTime     \* the session's timeout for the request to the endpoint

ASSUME ProviderAssumption ==
  /\ NoTask \notin Exports
  /\ Answers \subseteq [status : Nat, token : BOOLEAN,
                         expires_in : Int \union {Absent, Malformed, TooLarge}]
  /\ {Absent, Malformed, TooLarge} \intersect Int = {}
  /\ SessionGiven \in BOOLEAN
  /\ DefaultTtl \in Nat /\ ExpirySkew \in Nat /\ MintTime \in Nat

VARIABLES now,         \* the monotonic clock, in ticks
          token,       \* _token: the number of the mint that made it, 0 for None
          expiresAt,   \* _expires_at
          minted,      \* tokens the endpoint has issued to this provider
          session,     \* _session: "none", "given", "own" (_owns_session) or
                       \* "closed", one of its own that aclose() has closed
          deadline,    \* when the task's request times out or its sleep ends
          wanted       \* history: how many tokens it took to stay usable so far

cache == <<token, expiresAt, minted, wanted, session>>

-----------------------------------------------------------------------------
\* Mutant: only the age of the token is looked at.
UsableByAge == now < expiresAt - ExpirySkew

\* _usable(): a token is cached and not about to expire.
Usable == token # 0 /\ now < expiresAt - ExpirySkew

\* Mutant: no max(ttl, 0.0).
LifetimeUnclamped(e) == IF e = Absent THEN DefaultTtl ELSE e

\* _refresh: a missing expires_in stands for default_ttl, a negative one for 0.
\* NaN, of which no time is less, comes to the same as 0.
Lifetime(e) == IF e = Absent THEN DefaultTtl ELSE IF e < 0 THEN 0 ELSE e

\* Mutant: float(expires_in) outside the try.
RefreshedUncaught(a) ==
  IF a.status >= 500 THEN "down"
  ELSE IF a.status >= 400 \/ ~a.token THEN "permanent"
  ELSE IF a.expires_in \in {Malformed, TooLarge} THEN "other"
  ELSE "got"

\* _refresh: what an answer comes to.  A 5xx is OTLPTransportError whatever its
\* body; a 4xx, no JSON, no access_token or a malformed expires_in is
\* OTLPPermanentError; OverflowError leaves it as it is.
Refreshed(a) ==
  IF a.status >= 500 THEN "down"
  ELSE IF a.status >= 400 \/ ~a.token \/ a.expires_in = Malformed THEN "permanent"
  ELSE IF a.expires_in = TooLarge THEN "other"
  ELSE "got"

\* Mutant: invalidate() drops nothing.
InvalidateNothing == UNCHANGED cache

\* invalidate(): drop the token, whoever obtained it and whenever.
Invalidate == /\ token' = 0
              /\ wanted' = IF Usable THEN wanted + 1 ELSE wanted
              /\ UNCHANGED <<expiresAt, minted, session>>

\* aclose(): a session that was passed in stays open, and one that is yet to be
\* created will be.
Aclose == /\ session = "own"
          /\ session' = "closed"
          /\ UNCHANGED <<token, expiresAt, minted, wanted>>

\* The clock moves: a cached token may grow too old to be used.
Elapse == /\ now' = now + 1
          /\ UNCHANGED <<token, expiresAt, minted, session>>
          /\ wanted' = IF Usable /\ ~Usable' THEN wanted + 1 ELSE wanted

\* Mutant: headers() without the lock.
HeadersUnlocked(t) ==
  /\ running = t
  /\ pc[t] = "headers"
  /\ IF Usable THEN Goto(t, "got") /\ UNCHANGED holder
               ELSE holder' = t /\ Goto(t, "recheck")
  /\ UNCHANGED <<now, cache, deadline, waiters, woken, cancelled>>

\* headers(): the cached token, or the lock.
Headers(t) ==
  /\ running = t
  /\ pc[t] = "headers"
  /\ IF Usable THEN Goto(t, "got") /\ UNCHANGED <<holder, waiters>>
     ELSE IF LockIsFree THEN /\ holder' = t
                             /\ Goto(t, "recheck")
                             /\ UNCHANGED waiters
                        ELSE /\ waiters' = Append(waiters, t)
                             /\ Suspend(t, "lock")
                             /\ UNCHANGED holder
  /\ UNCHANGED <<now, cache, deadline, woken, cancelled>>

LockGranted(t) ==
  /\ Resumable(t, "lock")
  /\ woken = t
  /\ holder' = t
  /\ woken' = NoTask
  /\ LeaveWaiters(t)
  /\ Goto(t, "recheck")
  /\ UNCHANGED <<now, cache, deadline, cancelled>>

\* Mutant: a session whose timeout was meant in other units.
BeginMintUntimed(t) ==
  /\ IF session = "closed"
     THEN Release /\ Goto(t, "other") /\ UNCHANGED deadline
     ELSE /\ Suspend(t, "mint")
          /\ deadline' = [deadline EXCEPT ![t] = now + 1000 * MintTime]
          /\ UNCHANGED lock
  /\ session' = IF session = "none" THEN "own" ELSE session
  /\ UNCHANGED <<token, expiresAt, minted, wanted>>

\* _refresh up to its first suspension: the request to the endpoint, over a
\* session created at need.  A closed one raises RuntimeError at once.
BeginMint(t) ==
  /\ IF session = "closed"
     THEN Release /\ Goto(t, "other") /\ UNCHANGED deadline
     ELSE /\ Suspend(t, "mint")
          /\ deadline' = [deadline EXCEPT ![t] = now + MintTime]
          /\ UNCHANGED lock
  /\ session' = IF session = "none" THEN "own" ELSE session
  /\ UNCHANGED <<token, expiresAt, minted, wanted>>

\* Mutant: whoever waited for the lock mints.
RecheckNothing(t) ==
  /\ running = t
  /\ pc[t] = "recheck"
  /\ BeginMint(t)
  /\ UNCHANGED <<now, cancelled>>

\* Inside the lock: another task may have minted meanwhile.
Recheck(t) ==
  /\ running = t
  /\ pc[t] = "recheck"
  /\ IF Usable THEN Release /\ Goto(t, "got") /\ UNCHANGED <<cache, deadline>>
               ELSE BeginMint(t)
  /\ UNCHANGED <<now, cancelled>>

\* The endpoint issues a token; headers() returns it whatever its lifetime.
MintSucceeds(t, e) ==
  /\ Resumable(t, "mint")
  /\ minted' = minted + 1
  /\ token' = minted + 1
  /\ expiresAt' = now + Lifetime(e)
  /\ wanted' = IF now < expiresAt' - ExpirySkew THEN wanted ELSE wanted + 1
  /\ Release
  /\ Goto(t, "got")
  /\ UNCHANGED <<now, session, deadline, cancelled>>

\* Mutant: the lock is released only where a token was minted.
MintFailsLocked(t, p) ==
  /\ Resumable(t, "mint")
  /\ Goto(t, p)
  /\ UNCHANGED <<now, cache, deadline, lock, cancelled>>

\* _refresh raises, where the caller goes on at p.
MintFails(t, p) ==
  /\ Resumable(t, "mint")
  /\ Release
  /\ Goto(t, p)
  /\ UNCHANGED <<now, cache, deadline, cancelled>>

\* Mutant: _token is assigned before expires_in is read.
MintAnsweredHalf(t, a) ==
  IF Refreshed(a) = "got" THEN MintSucceeds(t, a.expires_in)
  ELSE IF a.status >= 400 \/ ~a.token THEN MintFails(t, Refreshed(a))
  ELSE /\ Resumable(t, "mint")
       /\ minted' = minted + 1
       /\ token' = minted + 1
       /\ Release
       /\ Goto(t, Refreshed(a))
       /\ UNCHANGED <<now, expiresAt, wanted, session, deadline, cancelled>>

MintAnswered(t, a) == IF Refreshed(a) = "got" THEN MintSucceeds(t, a.expires_in)
                                              ELSE MintFails(t, Refreshed(a))

\* No connection, a timeout, or the session closed meanwhile: ClientError.
MintUnanswered(t) == MintFails(t, "down")

\* Mutant: a cancelled mint keeps the lock.
CancelledInMintLocked(t) ==
  /\ Interrupted(t, "mint")
  /\ Goto(t, "cancelled")
  /\ cancelled' = [cancelled EXCEPT ![t] = FALSE]
  /\ UNCHANGED <<now, cache, deadline, lock>>

\* CancelledError at the request: the lock is released on the way out.
CancelledInMint(t) ==
  /\ Interrupted(t, "mint")
  /\ Release
  /\ Goto(t, "cancelled")
  /\ cancelled' = [cancelled EXCEPT ![t] = FALSE]
  /\ UNCHANGED <<now, cache, deadline>>

\* CancelledError in Lock.acquire: leave the queue of waiters, pass the turn on.
CancelledInLock(t) ==
  /\ Interrupted(t, "lock")
  /\ LeaveWaiters(t)
  /\ woken' = IF holder = NoTask THEN WakeFirst(waiters') ELSE woken
  /\ Goto(t, "cancelled")
  /\ cancelled' = [cancelled EXCEPT ![t] = FALSE]
  /\ UNCHANGED <<now, cache, deadline, holder>>

HeadersStep(t) ==
  \/ Headers(t) \/ LockGranted(t) \/ Recheck(t)
  \/ (\E a \in Answers : MintAnswered(t, a)) \/ MintUnanswered(t)
  \/ CancelledInMint(t) \/ CancelledInLock(t)

-----------------------------------------------------------------------------
(* Properties.                                                               *)

\* A burst of headers() calls collapses into one request: at most one task is
\* at the endpoint, and it holds the lock.
SingleFlight == \A t \in Exports : pc[t] \in {"recheck", "mint"} => holder = t

\* No request to the endpoint is redundant: a token is minted only to replace
\* one that was dropped, that expired, or that came too short-lived to use.
NoRedundantMint == minted <= wanted

\* A call of headers() that raises leaves the cache as it was: no token without
\* the expiry that came with it, to be used as long as an earlier one was good for.
CachesWholeAnswers ==
  [][\A t \in Exports :
       pc[t] = "mint" /\ pc'[t] \notin {"mint", "got"} => UNCHANGED cache]_<<pc, cache>>

\* Whatever the endpoint answers, headers() raises one of the two OTLP errors,
\* which the client retries or passes on as documented; only with its session
\* closed does it raise another.
RaisesAsDocumented ==
  \A t \in Exports : pc[t] = "other" =>
    session = "closed" \/ \E a \in Answers : a.expires_in = TooLarge
=============================================================================
