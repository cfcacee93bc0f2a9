----------------------- MODULE ExportClientBoundProofs -----------------------
(* How long an export may last.  Two requests at most are made in an attempt, *)
(* each after a turn in the queue for the token endpoint, in which no task    *)
(* waits for more mints than there are tasks.                                 *)
EXTENDS ExportClientProofs

-----------------------------------------------------------------------------
(* The inductive invariant.                                                  *)

Authenticated == Exports \ Anonymous

\* The waiters are the tasks suspended in Lock.acquire.  The first of them is
\* woken when the lock is free, or else has been cancelled and passes its turn on.
QueueInv ==
  /\ Distinct(waiters)
  /\ \A t \in Exports : t \in ToSet(waiters) <=> pc[t] = "lock"
  /\ \A t \in Exports : pc[t] \in {"headers", "lock", "recheck", "mint"} => t \notin Anonymous
  /\ woken # NoTask => waiters # <<>> /\ woken = waiters[1]
  /\ holder = NoTask /\ woken = NoTask /\ waiters # <<>> => cancelled[waiters[1]]

\* A turn of every task at the token endpoint.
Turns == MintTime * Cardinality(Authenticated)

\* When the attempt of t, or its second request, began at the latest.
LatestStart(t) == started[t] + MaxElapsed + (IF reauthed[t] THEN Timeout + Turns ELSE 0)

\* When the lock is free at the latest.
Free == IF holder = NoTask THEN now
        ELSE IF pc[holder] = "mint" THEN deadline[holder]
        ELSE now + MintTime

\* Where t is, and how late it may be.
InTime(t) ==
  /\ pc[t] = "headers" => now <= LatestStart(t)
  /\ pc[t] = "recheck" => now + MintTime <= LatestStart(t) + Turns
  /\ pc[t] = "mint" => deadline[t] <= LatestStart(t) + Turns /\ deadline[t] <= now + MintTime
  /\ pc[t] \in {"lock", "got", "down", "permanent", "other", "cancelled"} =>
       now <= LatestStart(t) + Turns
  /\ pc[t] = "send" => deadline[t] <= LatestStart(t) + Turns + Timeout

\* The i-th waiter has its token after i mints.
Waits(i) == ~cancelled[waiters[i]] =>
              Free + i * MintTime <= LatestStart(waiters[i]) + Turns

BoundInv == /\ \A t \in Exports : InTime(t)
            /\ \A i \in 1..Len(waiters) : Waits(i)

-----------------------------------------------------------------------------
(* The queue.                                                                *)

Provided == {"headers", "lock", "recheck", "mint"}

LEMMA InitQueue == Init => QueueInv
<1> SUFFICES ASSUME Init PROVE QueueInv
  OBVIOUS
<1>1. Len(waiters) = 0 /\ ToSet(waiters) = {}
  BY EmptySeq DEF Init, ToSet
<1> QED
  BY <1>1 DEF Init, QueueInv, Distinct

\* The lock as it is, and no waiter joining or leaving.
LEMMA QueueStays ==
  ASSUME TypeOK, QueueInv, UNCHANGED lock,
         \A u \in Exports : /\ pc'[u] = "lock" <=> pc[u] = "lock"
                            /\ pc'[u] \in Provided => u \notin Anonymous
                            /\ pc[u] = "lock" /\ cancelled[u] => cancelled'[u]
  PROVE  QueueInv'
<1>1. ASSUME waiters # <<>> PROVE waiters[1] \in Exports /\ pc[waiters[1]] = "lock"
  BY <1>1, FirstElement DEF TypeOK, QueueInv
<1> QED
  BY <1>1 DEF QueueInv, lock, Provided

\* The holder releases the lock: the first waiter is woken unless cancelled.
LEMMA QueueReleased ==
  ASSUME TypeOK, QueueInv, NEW t \in Exports, pc[t] \in {"recheck", "mint"}, Release,
         NEW p, p \notin Provided, pc' = [pc EXCEPT ![t] = p],
         cancelled' = cancelled \/ cancelled' = [cancelled EXCEPT ![t] = FALSE]
  PROVE  QueueInv'
<1>1. waiters \in Seq(Exports) /\ waiters' = waiters /\ woken' = WakeFirst(waiters) /\ NoTask \notin Exports
  BY ProviderAssumption DEF TypeOK, Release
<1>2. \A u \in Exports : /\ pc'[u] = IF u = t THEN p ELSE pc[u]
                         /\ pc'[u] = "lock" <=> pc[u] = "lock"
                         /\ pc'[u] \in Provided => u \notin Anonymous
  BY DEF TypeOK, QueueInv, Provided
<1>3. ASSUME waiters # <<>>, cancelled[waiters[1]] PROVE cancelled'[waiters[1]]
  <2>1. waiters[1] \in Exports /\ waiters[1] \in ToSet(waiters)
    BY <1>1, <1>3, FirstElement
  <2>2. waiters[1] # t
    BY <2>1 DEF QueueInv
  <2> QED
    BY <1>3, <2>1, <2>2 DEF TypeOK
<1>4. /\ woken' # NoTask => waiters' # <<>> /\ woken' = waiters'[1]
      /\ woken' = NoTask /\ waiters' # <<>> => cancelled'[waiters'[1]]
  BY <1>1, <1>3, WakeFirstChoice
<1> QED
  BY <1>1, <1>2, <1>4 DEF QueueInv, Provided

LEMMA HeadersQueue ==
  ASSUME TypeOK, LockInv, QueueInv, NEW t \in Exports, HeadersStep(t)
  PROVE  QueueInv'
<1> USE DEF Goto, Suspend, Resumable, Interrupted
<1>1. /\ pc \in [Exports -> Points] /\ waiters \in Seq(Exports) /\ cancelled \in [Exports -> BOOLEAN]
      /\ NoTask \notin Exports
  BY ProviderAssumption DEF TypeOK
<1>2. pc[t] \in Provided => t \notin Anonymous
  BY DEF QueueInv, Provided
<1>3. ASSUME NEW p, p # "lock", p \in Provided => t \notin Anonymous, pc' = [pc EXCEPT ![t] = p],
             pc[t] # "lock", UNCHANGED <<lock, cancelled>>
      PROVE  QueueInv'
  <2>1. \A u \in Exports : /\ pc'[u] = "lock" <=> pc[u] = "lock"
                           /\ pc'[u] \in Provided => u \notin Anonymous
    BY <1>1, <1>3 DEF QueueInv, Provided
  <2> QED
    BY <1>3, <2>1, QueueStays
<1>4. CASE Headers(t)
  <2>1. CASE Usable
    BY <1>3, <1>4, <2>1 DEF Headers, Provided, lock
  <2>2. CASE ~Usable /\ LockIsFree
    <3>1. /\ pc[t] = "headers" /\ pc' = [pc EXCEPT ![t] = "recheck"]
          /\ holder' = t /\ waiters' = waiters /\ woken' = woken /\ cancelled' = cancelled
      BY <1>4, <2>2 DEF Headers
    <3>2. \A u \in Exports : /\ pc'[u] = "lock" <=> pc[u] = "lock"
                             /\ pc'[u] \in Provided => u \notin Anonymous
      BY <1>1, <1>2, <3>1 DEF QueueInv, Provided
    <3> QED
      BY <1>1, <3>1, <3>2 DEF QueueInv, Provided
  <2>3. CASE ~Usable /\ ~LockIsFree
    <3>1. /\ pc[t] = "headers" /\ pc' = [pc EXCEPT ![t] = "lock"]
          /\ waiters' = Append(waiters, t)
          /\ holder' = holder /\ woken' = woken /\ cancelled' = cancelled
      BY <1>4, <2>3 DEF Headers
    <3>2. t \notin ToSet(waiters)
      BY <3>1 DEF QueueInv
    <3>3. /\ Distinct(waiters') /\ ToSet(waiters') = ToSet(waiters) \union {t}
          /\ \A i \in 1..Len(waiters) : waiters'[i] = waiters[i]
      BY <1>1, <3>1, <3>2, JoinWaitersProperties DEF QueueInv
    <3>4. \A u \in Exports : /\ u \in ToSet(waiters') <=> pc'[u] = "lock"
                             /\ pc'[u] \in Provided => u \notin Anonymous
      BY <1>1, <1>2, <3>1, <3>3 DEF QueueInv, Provided
    <3>5. waiters # <<>> => waiters' # <<>> /\ waiters'[1] = waiters[1]
      <4>1. Len(waiters) \in Nat /\ (waiters # <<>> => Len(waiters) # 0)
        BY <1>1, EmptySeq, LenProperties
      <4>2. Len(waiters') = Len(waiters) + 1
        BY <1>1, <3>1, AppendProperties
      <4> QED
        BY <3>3, <4>1, <4>2, EmptySeq
    <3>6. holder = NoTask /\ woken = NoTask => waiters # <<>>
      <4>1. CASE waiters = <<>>
        <5>1. ToSet(waiters) = {}
          BY <4>1, EmptySeq DEF ToSet
        <5> QED
          BY <2>3, <5>1 DEF LockIsFree
      <4> QED
        BY <4>1
    <3> QED
      BY <3>1, <3>3, <3>4, <3>5, <3>6 DEF QueueInv, Provided
  <2> QED
    BY <2>1, <2>2, <2>3
<1>5. CASE LockGranted(t)
  <2>1. /\ pc[t] = "lock" /\ pc' = [pc EXCEPT ![t] = "recheck"] /\ holder' = t /\ woken' = NoTask
    BY <1>5 DEF LockGranted
  <2>2. Distinct(waiters') /\ ToSet(waiters') = ToSet(waiters) \ {t}
    BY <1>1, <1>5, LeaveWaitersProperties DEF LockGranted, QueueInv
  <2>3. \A u \in Exports : /\ u \in ToSet(waiters') <=> pc'[u] = "lock"
                           /\ pc'[u] \in Provided => u \notin Anonymous
    BY <1>1, <1>2, <2>1, <2>2 DEF QueueInv, Provided
  <2> QED
    BY <1>1, <2>1, <2>2, <2>3 DEF QueueInv, Provided
<1>6. CASE Recheck(t)
  <2>1. CASE Usable \/ session = "closed"
    BY <1>6, <2>1, QueueReleased DEF Recheck, BeginMint, Provided
  <2>2. CASE ~Usable /\ session # "closed"
    BY <1>2, <1>3, <1>6, <2>2 DEF Recheck, BeginMint, Provided
  <2> QED
    BY <2>1, <2>2
<1>7. ASSUME NEW e \in Int \union {Absent}, MintSucceeds(t, e) PROVE QueueInv'
  BY <1>7, QueueReleased DEF MintSucceeds, Provided
<1>8. ASSUME NEW p \in {"down", "permanent", "other"}, MintFails(t, p) PROVE QueueInv'
  BY <1>8, QueueReleased DEF MintFails, Provided
<1>9. CASE CancelledInMint(t)
  BY <1>9, QueueReleased DEF CancelledInMint, Provided
<1>10. CASE CancelledInLock(t)
  <2>1. /\ pc[t] = "lock" /\ pc' = [pc EXCEPT ![t] = "cancelled"] /\ holder' = holder
        /\ cancelled' = [cancelled EXCEPT ![t] = FALSE]
        /\ woken' = IF holder = NoTask THEN WakeFirst(waiters') ELSE woken
    BY <1>10 DEF CancelledInLock
  <2>2. waiters' \in Seq(Exports) /\ Distinct(waiters') /\ ToSet(waiters') = ToSet(waiters) \ {t}
    BY <1>1, <1>10, LeaveWaitersProperties DEF CancelledInLock, QueueInv
  <2>3. \A u \in Exports : /\ u \in ToSet(waiters') <=> pc'[u] = "lock"
                           /\ pc'[u] \in Provided => u \notin Anonymous
    BY <1>1, <1>2, <2>1, <2>2 DEF QueueInv, Provided
  <2>4. ASSUME waiters' # <<>>, cancelled[waiters'[1]] PROVE cancelled'[waiters'[1]]
    <3>1. waiters'[1] \in Exports /\ waiters'[1] \in ToSet(waiters')
      BY <2>2, <2>4, FirstElement
    <3>2. waiters'[1] # t
      BY <2>2, <3>1
    <3> QED
      BY <1>1, <2>1, <2>4, <3>1, <3>2
  <2>5. CASE holder = NoTask
    <3>1. woken' = WakeFirst(waiters')
      BY <2>1, <2>5
    <3>2. /\ woken' # NoTask => waiters' # <<>> /\ woken' = waiters'[1]
          /\ woken' = NoTask /\ waiters' # <<>> => cancelled'[waiters'[1]]
      BY <1>1, <2>2, <2>4, <3>1, WakeFirstChoice
    <3> QED
      BY <2>2, <2>3, <3>2 DEF QueueInv, Provided
  <2>6. CASE holder # NoTask
    <3>1. woken' = NoTask /\ holder' # NoTask
      BY <2>1, <2>6 DEF LockInv
    <3> QED
      BY <2>2, <2>3, <3>1 DEF QueueInv, Provided
  <2> QED
    BY <2>5, <2>6
<1> QED
  BY <1>4, <1>5, <1>6, <1>7, <1>8, <1>9, <1>10, MintOutcomes DEF HeadersStep, MintUnanswered

LEMMA NextQueue == TypeOK /\ LockInv /\ QueueInv /\ AnyStep => QueueInv'
<1> SUFFICES ASSUME TypeOK, LockInv, QueueInv, AnyStep PROVE QueueInv'
  OBVIOUS
<1> USE DEF Goto, Suspend, Resumable, Interrupted
<1>1. pc \in [Exports -> Points] /\ cancelled \in [Exports -> BOOLEAN]
  BY DEF TypeOK
<1>2. ASSUME NEW t \in Exports, NEW p, p # "lock", p \in Provided => t \notin Anonymous,
             pc' = [pc EXCEPT ![t] = p], pc[t] # "lock", UNCHANGED lock,
             cancelled' = cancelled \/ cancelled' = [cancelled EXCEPT ![t] = FALSE]
      PROVE  QueueInv'
  <2>1. \A u \in Exports : /\ pc'[u] = "lock" <=> pc[u] = "lock"
                           /\ pc'[u] \in Provided => u \notin Anonymous
    BY <1>1, <1>2 DEF QueueInv, Provided
  <2>2. \A u \in Exports : pc[u] = "lock" /\ cancelled[u] => cancelled'[u]
    BY <1>1, <1>2
  <2> QED
    BY <1>2, <2>1, <2>2, QueueStays
<1>3. ASSUME NEW t \in Exports, EndStep(t) PROVE QueueInv'
  <2>1. pc' = [pc EXCEPT ![t] = "done"] /\ pc[t] # "lock"
    BY <1>3 DEF EndStep, Finish
  <2> QED
    BY <1>2, <1>3, <2>1 DEF EndStep, Provided
<1>4. ASSUME NEW t \in Exports, SleepStep(t) PROVE QueueInv'
  <2>1. pc' = [pc EXCEPT ![t] = "backoff"] /\ pc[t] # "lock"
    BY <1>4 DEF SleepStep, Backoff
  <2> QED
    BY <1>2, <1>4, <2>1 DEF SleepStep, Provided
<1>5. ASSUME NEW t \in Exports, ReauthStep(t) \/ AttemptStep(t) PROVE QueueInv'
  <2>1. /\ pc' = [pc EXCEPT ![t] = IF t \in Anonymous THEN "got" ELSE "headers"]
        /\ pc[t] # "lock" /\ UNCHANGED <<lock, cancelled>>
    BY <1>5 DEF ReauthStep, Reauthenticate, AttemptStep, BeginExport, NextAttempt, Resolve
  <2>2. CASE t \in Anonymous
    BY <1>2, <2>1, <2>2 DEF Provided
  <2>3. CASE t \notin Anonymous
    BY <1>2, <2>1, <2>3
  <2> QED
    BY <2>2, <2>3
<1>6. ASSUME NEW t \in Exports, Send(t) PROVE QueueInv'
  BY <1>2, <1>6 DEF Send, Provided
<1>7. ASSUME NEW t \in Exports, Cancel(t) PROVE QueueInv'
  <2>1. UNCHANGED <<lock, pc>> /\ \A u \in Exports : cancelled[u] => cancelled'[u]
    BY <1>1, <1>7 DEF Cancel
  <2> QED
    BY <2>1, QueueStays DEF QueueInv, Provided
<1>8. CASE CloseProvider \/ Tick \/ UNCHANGED vars
  <2>1. UNCHANGED <<lock, pc, cancelled>>
    BY <1>8 DEF CloseProvider, Tick, vars
  <2> QED
    BY <2>1, QueueStays DEF QueueInv, Provided
<1>9. CASE CallerStep
  <2>1. UNCHANGED lock /\ \A u \in Exports : cancelled[u] => cancelled'[u]
    BY <1>9 DEF CallerStep
  <2>2. \A u \in Exports : pc'[u] = "lock" <=> pc[u] = "lock"
    BY <1>9 DEF CallerStep
  <2>3. \A u \in Exports : pc'[u] \in Provided => u \notin Anonymous
    BY <1>9 DEF CallerStep, QueueInv, Provided
  <2> QED
    BY <2>1, <2>2, <2>3, QueueStays
<1> QED
  BY <1>3, <1>4, <1>5, <1>6, <1>7, <1>8, <1>9, HeadersQueue DEF AnyStep, TaskStep

-----------------------------------------------------------------------------
(* Turns.                                                                    *)

LEMMA TurnTimes ==
  /\ MintTime \in Nat
  /\ \A i \in Nat : i * MintTime \in Nat /\ (i + 1) * MintTime = i * MintTime + MintTime
<1>1. MintTime \in Nat
  BY ProviderAssumption
<1>2. ASSUME NEW i \in Nat, NEW m \in Nat
      PROVE  i * m \in Nat /\ (i + 1) * m = i * m + m
  OBVIOUS
<1> QED
  BY <1>1, <1>2

LEMMA TurnsBound ==
  /\ IsFiniteSet(Authenticated) /\ Cardinality(Authenticated) \in Nat /\ Turns \in Nat
  /\ \A n \in Nat : n <= Cardinality(Authenticated) => n * MintTime <= Turns
<1>1. IsFiniteSet(Authenticated)
  BY ClientAssumption, FS_Subset DEF Authenticated
<1>2. Cardinality(Authenticated) \in Nat
  BY <1>1, FS_CardinalityType
<1>3. ASSUME NEW c \in Nat, NEW m \in Nat, NEW n \in Nat, n <= c
      PROVE  m * c \in Nat /\ n * m <= m * c
  <2>1. c - n \in Nat /\ (c - n) * m \in Nat
    BY <1>3
  <2>2. m * c = n * m + (c - n) * m
    BY <1>3
  <2>3. n * m \in Nat
    OBVIOUS
  <2> QED
    BY <2>1, <2>2, <2>3
<1>4. MintTime \in Nat
  BY ProviderAssumption
<1>5. Turns \in Nat
  BY <1>2, <1>3, <1>4 DEF Turns
<1>6. ASSUME NEW n \in Nat, n <= Cardinality(Authenticated) PROVE n * MintTime <= Turns
  BY <1>2, <1>3, <1>4, <1>6 DEF Turns
<1> QED
  BY <1>1, <1>2, <1>5, <1>6

\* Whoever comes to the lock is one more task than those that wait or hold it.
LEMMA QueueRoom ==
  ASSUME TypeOK, LockInv, QueueInv, NEW t \in Exports, pc[t] = "headers"
  PROVE  /\ Len(waiters) \in Nat
         /\ Len(waiters) + 1 <= Cardinality(Authenticated)
         /\ holder # NoTask => Len(waiters) + 2 <= Cardinality(Authenticated)
<1> DEFINE W == ToSet(waiters)
<1>1. waiters \in Seq(Exports) /\ Distinct(waiters)
  BY DEF TypeOK, QueueInv
<1>2. IsFiniteSet(W) /\ Cardinality(W) = Len(waiters) /\ Len(waiters) \in Nat
  BY <1>1, DistinctCount, LenProperties
<1>3. W \subseteq Exports
  BY <1>1, ToSetIsImage, ElementOfSeq
<1>4. W \subseteq Authenticated /\ t \in Authenticated /\ t \notin W
  BY <1>3 DEF QueueInv, Authenticated
<1>5. IsFiniteSet(W \union {t}) /\ Cardinality(W \union {t}) = Len(waiters) + 1
  BY <1>2, <1>4, FS_AddElement
<1>6. Len(waiters) + 1 <= Cardinality(Authenticated)
  <2>1. W \union {t} \in SUBSET Authenticated
    BY <1>4
  <2> QED
    BY <1>5, <2>1, TurnsBound, FS_Subset
<1>7. ASSUME holder # NoTask PROVE Len(waiters) + 2 <= Cardinality(Authenticated)
  <2>1. holder \in Exports /\ pc[holder] \in {"recheck", "mint"}
    BY <1>7 DEF TypeOK, LockInv
  <2>2. holder \in Authenticated /\ holder \notin W \union {t}
    BY <2>1 DEF QueueInv, Authenticated
  <2> DEFINE All == (W \union {t}) \union {holder}
  <2>3. Cardinality(All) = Len(waiters) + 1 + 1
    BY <1>5, <2>2, FS_AddElement
  <2>4. All \in SUBSET Authenticated
    BY <1>4, <2>2
  <2>5. Cardinality(All) <= Cardinality(Authenticated)
    BY <2>4, TurnsBound, FS_Subset
  <2> QED
    BY <1>2, <2>3, <2>5
<1> QED
  BY <1>2, <1>6, <1>7

LEMMA BoundTypes ==
  ASSUME TypeOK
  PROVE  /\ now \in Nat /\ Free \in Nat /\ Timeout \in Nat /\ MaxElapsed \in Nat
         /\ \A u \in Exports : LatestStart(u) \in Nat /\ deadline[u] \in Nat /\ started[u] \in Nat
<1>1. now \in Nat /\ Timeout \in Nat /\ MaxElapsed \in Nat /\ MintTime \in Nat /\ Turns \in Nat
  BY ClientAssumption, TurnTimes, TurnsBound DEF TypeOK
<1>2. \A u \in Exports : deadline[u] \in Nat /\ started[u] \in Nat
  BY DEF TypeOK
<1>3. Free \in Nat
  BY <1>1, <1>2 DEF Free, TypeOK
<1>4. \A u \in Exports : LatestStart(u) \in Nat
  BY <1>1, <1>2 DEF LatestStart
<1> QED
  BY <1>1, <1>2, <1>3, <1>4

-----------------------------------------------------------------------------
(* Where each task is.                                                       *)

LEMMA InitBound == Init => BoundInv
<1> SUFFICES ASSUME Init PROVE BoundInv
  OBVIOUS
<1>1. Len(waiters) = 0
  BY EmptySeq DEF Init
<1> QED
  BY <1>1 DEF Init, BoundInv, InTime

\* A task that stays where it is, at the same instant, is as late as before.
LEMMA InTimeStays ==
  ASSUME NEW u \in Exports, InTime(u), now' = now, pc'[u] = pc[u], deadline'[u] = deadline[u],
         started'[u] = started[u], reauthed'[u] = reauthed[u]
  PROVE  InTime(u)'
BY DEF InTime, LatestStart

\* A task in headers() has its turn in time.
LEMMA HeadersInTime ==
  ASSUME IInv, QueueInv, BoundInv, NEW t \in Exports, HeadersStep(t), UNCHANGED <<loop, trace>>
  PROVE  InTime(t)'
<1> USE DEF Goto, Suspend, Resumable, Interrupted
<1> DEFINE L == LatestStart(t)
<1>1. /\ now \in Nat /\ L \in Nat /\ Turns \in Nat /\ MintTime \in Nat /\ now + MintTime \in Nat
      /\ TypeOK /\ LockInv
  BY BoundTypes, TurnTimes, TurnsBound DEF IInv
<1>2. now' = now /\ LatestStart(t)' = L
  BY <1>1, OthersStay DEF TaskStep, LatestStart, loop
<1>3. pc \in [Exports -> Points] /\ deadline \in [Exports -> Nat]
  BY <1>1 DEF TypeOK
<1>4. InTime(t)
  BY DEF BoundInv
<1>5. pc[t] = "headers" => now <= L /\ now <= L + Turns
  BY <1>1, <1>4 DEF InTime
<1>6. pc[t] = "recheck" => now + MintTime <= L + Turns /\ now <= L + Turns
  BY <1>1, <1>4 DEF InTime
<1>7. pc[t] = "mint" => now <= L + Turns
  <2>1. pc[t] = "mint" => now <= deadline[t]
    BY DEF IInv, TimeInv, Timed
  <2> QED
    BY <1>1, <1>3, <1>4, <2>1 DEF InTime
<1>8. pc[t] = "lock" => now <= L + Turns
  BY <1>4 DEF InTime
<1> HIDE DEF L
\* Where it may go from here.
<1>9. ASSUME NEW p \in {"lock", "got", "down", "permanent", "other", "cancelled"},
             pc' = [pc EXCEPT ![t] = p], now <= L + Turns
      PROVE  InTime(t)'
  BY <1>2, <1>3, <1>9 DEF InTime
<1>10. ASSUME pc' = [pc EXCEPT ![t] = "recheck"], now + MintTime <= L + Turns
       PROVE  InTime(t)'
  BY <1>2, <1>3, <1>10 DEF InTime
<1>11. CASE Headers(t)
  <2>1. pc[t] = "headers"
    BY <1>11 DEF Headers
  <2>2. now + MintTime <= L + Turns
    <3>1. 1 <= Cardinality(Authenticated)
      BY <1>1, <2>1, QueueRoom, TurnsBound
    <3>2. MintTime <= Turns
      BY <1>1, <3>1, TurnsBound
    <3> QED
      BY <1>1, <1>5, <2>1, <3>2
  <2> QED
    BY <1>5, <1>9, <1>10, <1>11, <2>1, <2>2 DEF Headers
<1>12. CASE LockGranted(t)
  <2>1. waiters \in Seq(Exports) /\ woken = t /\ t # NoTask /\ ~cancelled[t]
    BY <1>1, <1>12, ProviderAssumption DEF LockGranted, TypeOK
  <2>2. waiters # <<>> /\ waiters[1] = t /\ holder = NoTask
    BY <1>1, <2>1 DEF QueueInv, LockInv
  <2>3. 1 \in 1..Len(waiters)
    BY <2>1, <2>2, FirstElement
  <2>4. Free + 1 * MintTime <= LatestStart(t) + Turns
    BY <2>1, <2>2, <2>3 DEF BoundInv, Waits
  <2>5. now + MintTime <= L + Turns
    BY <1>1, <2>2, <2>4 DEF Free, L
  <2> QED
    BY <1>10, <1>12, <2>5 DEF LockGranted
<1>13. CASE Recheck(t)
  <2>1. CASE Usable \/ session = "closed"
    BY <1>6, <1>9, <1>13, <2>1 DEF Recheck, BeginMint
  <2>2. CASE ~Usable /\ session # "closed"
    <3>1. pc[t] = "recheck" /\ pc'[t] = "mint" /\ deadline'[t] = now + MintTime
      BY <1>3, <1>13, <2>2 DEF Recheck, BeginMint
    <3> QED
      BY <1>1, <1>2, <1>6, <3>1 DEF InTime
  <2> QED
    BY <2>1, <2>2
<1>14. ASSUME NEW e \in Int \union {Absent}, MintSucceeds(t, e) PROVE InTime(t)'
  BY <1>7, <1>9, <1>14 DEF MintSucceeds
<1>15. ASSUME NEW p \in {"down", "permanent", "other"}, MintFails(t, p) PROVE InTime(t)'
  BY <1>7, <1>9, <1>15 DEF MintFails
<1>16. CASE CancelledInMint(t)
  BY <1>7, <1>9, <1>16 DEF CancelledInMint
<1>17. CASE CancelledInLock(t)
  BY <1>8, <1>9, <1>17 DEF CancelledInLock
<1> QED
  BY <1>11, <1>12, <1>13, <1>14, <1>15, <1>16, <1>17, MintOutcomes DEF HeadersStep, MintUnanswered

\* While time passes nobody is between two suspensions, and who waits for the
\* lock waits for a mint that is not over.
LEMMA TickInTime ==
  ASSUME IInv, QueueInv, BoundInv, NEW u \in Exports, Tick
  PROVE  InTime(u)'
<1>1. /\ now \in Nat /\ LatestStart(u) \in Nat /\ Turns \in Nat /\ MintTime \in Nat
      /\ TypeOK /\ LockInv
  BY BoundTypes, TurnTimes, TurnsBound DEF IInv
<1>2. /\ now' = now + 1 /\ running = NoTask /\ woken = NoTask
      /\ pc' = pc /\ deadline' = deadline /\ started' = started /\ reauthed' = reauthed
      /\ \A t \in Exports : ~cancelled[t] /\ (pc[t] = "mint" => now < deadline[t])
  BY DEF Tick, Elapse, Timed, loop
<1>3. LatestStart(u)' = LatestStart(u)
  BY <1>2 DEF LatestStart
<1>4. \A t \in Exports : pc[t] \notin Immediate
  BY <1>2, ProviderAssumption DEF IInv, TurnInv
<1>5. ASSUME pc[u] = "lock" PROVE now + 1 <= LatestStart(u) + Turns
  <2>1. u \in ToSet(waiters) /\ waiters \in Seq(Exports)
    BY <1>1, <1>5 DEF QueueInv, TypeOK
  <2>2. PICK i \in 1..Len(waiters) : waiters[i] = u
    BY <2>1, ToSetIsImage
  <2>3. waiters # <<>> /\ waiters[1] \in Exports
    BY <2>1, FirstElement DEF ToSet
  <2>4. holder \in Exports
    BY <1>1, <1>2, <2>3 DEF QueueInv, TypeOK
  <2>5. pc[holder] = "mint"
    BY <1>1, <1>4, <2>4 DEF LockInv, Immediate
  <2>6. Free = deadline[holder] /\ now < deadline[holder] /\ deadline[holder] \in Nat
    BY <1>1, <1>2, <2>4, <2>5, ProviderAssumption, BoundTypes DEF Free
  <2>7. Free + i * MintTime <= LatestStart(u) + Turns
    BY <1>2, <2>2 DEF BoundInv, Waits
  <2>8. i * MintTime \in Nat
    BY TurnTimes
  <2> QED
    BY <1>1, <2>6, <2>7, <2>8
<1>6. InTime(u) /\ deadline[u] \in Nat
  BY <1>1, BoundTypes DEF BoundInv
<1> QED
  BY <1>1, <1>2, <1>3, <1>4, <1>5, <1>6 DEF InTime, Immediate

LEMMA NextInTime ==
  ASSUME IInv, QueueInv, BoundInv, AnyStep, NEW u \in Exports
  PROVE  InTime(u)'
<1> USE DEF Goto, Suspend, Resumable
<1>1. /\ now \in Nat /\ Turns \in Nat /\ Timeout \in Nat /\ MaxElapsed \in Nat
      /\ LatestStart(u) \in Nat /\ deadline[u] \in Nat /\ started[u] \in Nat /\ TypeOK
  BY BoundTypes, TurnsBound DEF IInv
<1>2. /\ pc \in [Exports -> Points] /\ deadline \in [Exports -> Nat]
      /\ started \in [Exports -> Nat] /\ reauthed \in [Exports -> BOOLEAN]
  BY <1>1 DEF TypeOK
<1>3. InTime(u)
  BY DEF BoundInv
<1>4. ASSUME NEW t \in Exports, TaskStep(t), u # t PROVE InTime(u)'
  BY <1>1, <1>3, <1>4, OthersStay, InTimeStays
<1>5. CASE HeadersStep(u) /\ UNCHANGED <<loop, trace>>
  BY <1>5, HeadersInTime
<1>6. CASE EndStep(u) \/ SleepStep(u)
  <2>1. pc'[u] \in {"done", "backoff"}
    BY <1>2, <1>6 DEF EndStep, Finish, SleepStep, Backoff
  <2> QED
    BY <2>1 DEF InTime
\* The request or the attempt that begins is in time, with all turns before it.
<1>7. ASSUME pc' = [pc EXCEPT ![u] = IF u \in Anonymous THEN "got" ELSE "headers"],
             now' = now, now <= LatestStart(u)', LatestStart(u)' \in Nat
      PROVE  InTime(u)'
  BY <1>1, <1>2, <1>7 DEF InTime
<1>8. CASE ReauthStep(u)
  <2>1. /\ pc[u] = "send" /\ ~reauthed[u] /\ now' = now /\ started' = started /\ reauthed'[u]
        /\ pc' = [pc EXCEPT ![u] = IF u \in Anonymous THEN "got" ELSE "headers"]
    BY <1>2, <1>8 DEF ReauthStep, Reauthenticate, Resolve
  <2>2. now <= deadline[u] /\ deadline[u] <= LatestStart(u) + Turns + Timeout
    BY <1>3, <2>1 DEF IInv, TimeInv, Timed, InTime
  <2>3. LatestStart(u) = started[u] + MaxElapsed /\ LatestStart(u)' = started[u] + MaxElapsed + (Timeout + Turns)
    BY <1>1, <2>1 DEF LatestStart, Turns
  <2> QED
    BY <1>1, <1>7, <2>1, <2>2, <2>3
<1>9. CASE AttemptStep(u)
  <2>1. /\ now' = now /\ reauthed' = reauthed
        /\ pc' = [pc EXCEPT ![u] = IF u \in Anonymous THEN "got" ELSE "headers"]
    BY <1>9 DEF AttemptStep, BeginExport, NextAttempt, Resolve
  <2>2. started'[u] \in Nat /\ now <= started'[u] + MaxElapsed
    <3>1. CASE BeginExport(u)
      BY <1>1, <1>2, <3>1 DEF BeginExport
    <3>2. CASE NextAttempt(u)
      <4>1. pc[u] = "backoff" /\ started' = started
        BY <3>2 DEF NextAttempt
      <4>2. now <= deadline[u] /\ deadline[u] <= started[u] + MaxElapsed
        BY <4>1 DEF IInv, TimeInv, Timed
      <4> QED
        BY <1>1, <4>1, <4>2
    <3> QED
      BY <1>9, <3>1, <3>2 DEF AttemptStep
  <2>3. LatestStart(u)' = started'[u] + MaxElapsed + (IF reauthed[u] THEN Timeout + Turns ELSE 0)
    BY <2>1 DEF LatestStart, Turns
  <2>4. LatestStart(u)' \in Nat /\ now <= LatestStart(u)'
    BY <1>1, <2>2, <2>3
  <2> QED
    BY <1>7, <2>1, <2>4
<1>10. CASE Send(u)
  <2>1. /\ pc[u] = "got" /\ pc'[u] = "send" /\ now' = now /\ deadline'[u] = now + Timeout
        /\ started' = started /\ reauthed' = reauthed
    BY <1>2, <1>10 DEF Send, loop
  <2>2. now <= LatestStart(u) + Turns
    BY <1>3, <2>1 DEF InTime
  <2>3. LatestStart(u)' = LatestStart(u)
    BY <2>1 DEF LatestStart, Turns
  <2> QED
    BY <1>1, <2>1, <2>2, <2>3 DEF InTime
<1>11. CASE Cancel(u) \/ CloseProvider \/ UNCHANGED vars
  BY <1>3, <1>11, InTimeStays DEF Cancel, CloseProvider, vars, loop
<1>12. CASE Tick
  BY <1>12, TickInTime
<1>13. CASE CallerStep
  <2>1. /\ UNCHANGED <<now, deadline, started, reauthed>>
        /\ pc'[u] = pc[u] \/ pc'[u] = "idle"
    BY <1>13 DEF CallerStep
  <2>2. pc'[u] = "idle" => InTime(u)'
    BY DEF InTime
  <2> QED
    BY <1>3, <2>1, <2>2, InTimeStays
<1> QED
  BY <1>4, <1>5, <1>6, <1>8, <1>9, <1>10, <1>11, <1>12, <1>13 DEF AnyStep, TaskStep

-----------------------------------------------------------------------------
(* The turns to come.                                                        *)

LEMMA WaitersWait ==
  ASSUME TypeOK, QueueInv, NEW i \in 1..Len(waiters)
  PROVE  /\ i \in Nat \ {0} /\ Len(waiters) \in Nat
         /\ waiters[i] \in Exports /\ pc[waiters[i]] = "lock"
<1>1. waiters \in Seq(Exports) /\ Len(waiters) \in Nat
  BY LenProperties DEF TypeOK
<1>2. waiters[i] \in Exports /\ waiters[i] \in ToSet(waiters)
  BY <1>1, ElementOfSeq, ToSetIsImage
<1> QED
  BY <1>1, <1>2 DEF QueueInv

\* The lock is free no later than it was to be, for the same waiters.
LEMMA WaitsStay ==
  ASSUME TypeOK, QueueInv, BoundInv, waiters' = waiters, Free' \in Nat, Free' <= Free,
         \A u \in Exports : pc[u] = "lock" => /\ LatestStart(u)' = LatestStart(u)
                                              /\ cancelled[u] => cancelled'[u]
  PROVE  \A i \in 1..Len(waiters') : Waits(i)'
<1> SUFFICES ASSUME NEW i \in 1..Len(waiters), ~cancelled'[waiters[i]]
             PROVE  Free' + i * MintTime <= LatestStart(waiters[i])' + Turns
  BY DEF Waits, Turns
<1>1. waiters[i] \in Exports /\ pc[waiters[i]] = "lock" /\ i \in Nat
  BY WaitersWait
<1>2. Free + i * MintTime <= LatestStart(waiters[i]) + Turns
  BY <1>1 DEF BoundInv, Waits
<1>3. i * MintTime \in Nat /\ Free \in Nat /\ LatestStart(waiters[i]) \in Nat /\ Turns \in Nat
  BY <1>1, TurnTimes, TurnsBound, BoundTypes
<1>4. LatestStart(waiters[i])' = LatestStart(waiters[i])
  BY <1>1
<1> QED
  BY <1>2, <1>3, <1>4

\* Its holder is rid of the lock at once.
LEMMA ReleaseWaits ==
  ASSUME IInv, QueueInv, BoundInv, NEW t \in Exports, pc[t] \in {"recheck", "mint"}, Release,
         now' = now, started' = started, reauthed' = reauthed,
         cancelled' = cancelled \/ cancelled' = [cancelled EXCEPT ![t] = FALSE]
  PROVE  \A i \in 1..Len(waiters') : Waits(i)'
<1>1. TypeOK /\ now \in Nat /\ MintTime \in Nat /\ Free \in Nat
  BY BoundTypes, TurnTimes DEF IInv
<1>2. holder = t /\ t # NoTask
  BY ProviderAssumption DEF IInv, LockInv
<1>3. now <= Free
  <2>1. CASE pc[t] = "mint"
    BY <1>2, <2>1 DEF Free, IInv, TimeInv, Timed
  <2>2. CASE pc[t] = "recheck"
    BY <1>1, <1>2, <2>2 DEF Free
  <2> QED
    BY <2>1, <2>2
<1>4. Free' = now /\ waiters' = waiters
  BY DEF Release, Free
<1>5. \A u \in Exports : pc[u] = "lock" => /\ LatestStart(u)' = LatestStart(u)
                                           /\ cancelled[u] => cancelled'[u]
  BY <1>1 DEF LatestStart, TypeOK
<1> QED
  BY <1>1, <1>3, <1>4, <1>5, WaitsStay

\* One more task in the queue.
LEMMA JoinWaits ==
  ASSUME IInv, QueueInv, BoundInv, NEW t \in Exports, pc[t] = "headers",
         waiters' = Append(waiters, t), pc' = [pc EXCEPT ![t] = "lock"],
         UNCHANGED <<now, deadline, holder, cancelled, started, reauthed>>
  PROVE  \A i \in 1..Len(waiters') : Waits(i)'
<1> DEFINE l == Len(waiters)
<1>1. /\ TypeOK /\ LockInv /\ waiters \in Seq(Exports) /\ l \in Nat
      /\ now \in Nat /\ MintTime \in Nat /\ Free \in Nat /\ Turns \in Nat /\ LatestStart(t) \in Nat
  BY BoundTypes, TurnTimes, TurnsBound, LenProperties DEF IInv, TypeOK
<1>2. \A u \in Exports : LatestStart(u)' = LatestStart(u)
  BY DEF LatestStart
<1>3. Free' = Free
  <2>1. holder \in Exports => holder # t
    BY <1>1 DEF LockInv
  <2> QED
    BY <1>1, <2>1 DEF Free, TypeOK
<1>4. Len(waiters') = l + 1 /\ waiters'[l + 1] = t /\ \A i \in 1..l : waiters'[i] = waiters[i]
  <2>1. t \notin ToSet(waiters)
    BY DEF QueueInv
  <2> QED
    BY <1>1, <2>1, JoinWaitersProperties DEF QueueInv
<1> SUFFICES ASSUME NEW i \in 1..Len(waiters')
             PROVE  Waits(i)'
  OBVIOUS
<1>5. CASE i \in 1..l
  <2>1. waiters[i] \in Exports /\ Waits(i)
    BY <1>1, <1>5, WaitersWait DEF BoundInv
  <2> QED
    BY <1>2, <1>3, <1>4, <1>5, <2>1 DEF Waits, Turns
<1>6. CASE i = l + 1
  <2>1. Free + i * MintTime <= now + Turns
    <3>1. l + 1 <= Cardinality(Authenticated) /\ (holder # NoTask => l + 2 <= Cardinality(Authenticated))
      BY <1>1, QueueRoom
    <3>2. CASE holder = NoTask
      <4>1. (l + 1) * MintTime <= Turns /\ (l + 1) * MintTime \in Nat
        BY <1>1, <3>1, TurnsBound, TurnTimes
      <4>2. Free = now
        BY <3>2 DEF Free
      <4> QED
        BY <1>1, <1>6, <4>1, <4>2
    <3>3. CASE holder # NoTask
      <4>1. l + 1 \in Nat /\ l + 2 \in Nat /\ l + 2 = (l + 1) + 1
        BY <1>1
      <4>2. (l + 2) * MintTime <= Turns /\ (l + 2) * MintTime = (l + 1) * MintTime + MintTime
            /\ (l + 1) * MintTime \in Nat
        BY <3>1, <3>3, <4>1, TurnsBound, TurnTimes
      <4>3. holder \in Exports
        BY <1>1, <3>3 DEF TypeOK
      <4>4. Free <= now + MintTime
        BY <1>1, <4>3 DEF Free, BoundInv, InTime
      <4> DEFINE m == (l + 1) * MintTime
      <4>5. m \in Nat /\ m + MintTime <= Turns /\ i * MintTime = m
        BY <1>6, <4>2
      <4> HIDE DEF m
      <4> QED
        BY <1>1, <4>4, <4>5
    <3> QED
      BY <3>2, <3>3
  <2>2. now <= LatestStart(t)
    BY DEF BoundInv, InTime
  <2>3. i * MintTime \in Nat
    BY <1>1, <1>6, TurnTimes
  <2>4. Free + i * MintTime <= LatestStart(t) + Turns
    BY <1>1, <2>1, <2>2, <2>3
  <2> QED
    BY <1>2, <1>3, <1>4, <1>6, <2>4 DEF Waits, Turns
<1> QED
  BY <1>1, <1>4, <1>5, <1>6

\* The first of the queue has its turn, and the others one turn less to wait.
LEMMA GrantWaits ==
  ASSUME IInv, QueueInv, BoundInv, NEW t \in Exports, LockGranted(t), UNCHANGED <<loop, trace>>
  PROVE  \A i \in 1..Len(waiters') : Waits(i)'
<1> USE DEF Goto, Resumable
<1>1. /\ TypeOK /\ LockInv /\ waiters \in Seq(Exports) /\ Len(waiters) \in Nat
      /\ now \in Nat /\ MintTime \in Nat /\ Turns \in Nat
  BY BoundTypes, TurnTimes, TurnsBound, LenProperties DEF IInv, TypeOK
<1>2. \A u \in Exports : LatestStart(u)' = LatestStart(u)
  BY DEF LatestStart, loop
<1>3. /\ now' = now /\ holder' = t /\ pc'[t] = "recheck" /\ cancelled' = cancelled
      /\ woken = t /\ t # NoTask
  BY <1>1, ProviderAssumption DEF LockGranted, TypeOK
<1>4. holder = NoTask /\ waiters # <<>> /\ waiters[1] = t
  BY <1>1, <1>3 DEF LockInv, QueueInv
<1>5. Free = now /\ Free' = now + MintTime
  BY <1>3, <1>4 DEF Free
<1>6. PICK k \in 1..Len(waiters) :
           /\ waiters[k] = t
           /\ Len(waiters') = Len(waiters) - 1
           /\ \A j \in 1..(Len(waiters) - 1) :
                waiters'[j] = IF j < k THEN waiters[j] ELSE waiters[j + 1]
  BY <1>1, LeaveWaitersProperties DEF LockGranted, QueueInv
<1>7. k = 1
  <2>1. 1 \in 1..Len(waiters)
    BY <1>1, <1>4, FirstElement
  <2> QED
    BY <1>4, <1>6, <2>1 DEF QueueInv, Distinct
<1> SUFFICES ASSUME NEW i \in 1..Len(waiters'), ~cancelled'[waiters'[i]]
             PROVE  Free' + i * MintTime <= LatestStart(waiters[i])' + Turns
  BY DEF Waits, Turns
<1>8. i \in Nat \ {0} /\ i + 1 \in 1..Len(waiters) /\ waiters'[i] = waiters[i + 1]
  BY <1>1, <1>6, <1>7
<1>9. waiters[i + 1] \in Exports /\ LatestStart(waiters[i + 1]) \in Nat
  BY <1>1, <1>8, WaitersWait, BoundTypes
<1>10. Free + (i + 1) * MintTime <= LatestStart(waiters[i + 1]) + Turns
  BY <1>3, <1>8 DEF BoundInv, Waits
<1> DEFINE m == i * MintTime
<1>11. m \in Nat /\ (i + 1) * MintTime = m + MintTime
  BY <1>8, TurnTimes
<1> HIDE DEF m
<1>12. now + MintTime + m <= LatestStart(waiters[i + 1]) + Turns
  BY <1>1, <1>5, <1>9, <1>10, <1>11
<1>13. LatestStart(waiters[i])' = LatestStart(waiters[i + 1])
  BY <1>2, <1>8, <1>9 DEF LatestStart, loop
<1> QED
  BY <1>5, <1>12, <1>13 DEF m

\* A waiter that leaves lets those behind it move up.
LEMMA LeaveWaits ==
  ASSUME IInv, QueueInv, BoundInv, NEW t \in Exports, CancelledInLock(t), UNCHANGED <<loop, trace>>
  PROVE  \A i \in 1..Len(waiters') : Waits(i)'
<1> USE DEF Goto, Interrupted
<1>1. /\ TypeOK /\ LockInv /\ waiters \in Seq(Exports) /\ Len(waiters) \in Nat
      /\ MintTime \in Nat /\ Turns \in Nat /\ Free \in Nat
  BY BoundTypes, TurnTimes, TurnsBound, LenProperties DEF IInv, TypeOK
<1>2. /\ now' = now /\ holder' = holder /\ deadline' = deadline /\ pc[t] = "lock"
      /\ pc' = [pc EXCEPT ![t] = "cancelled"] /\ cancelled' = [cancelled EXCEPT ![t] = FALSE]
  BY DEF CancelledInLock
<1>3. Free' = Free
  <2>1. holder \in Exports => holder # t
    BY <1>1, <1>2 DEF LockInv
  <2> QED
    BY <1>1, <1>2, <2>1 DEF Free, TypeOK
<1>4. /\ waiters' \in Seq(Exports) /\ Distinct(waiters) /\ ToSet(waiters') = ToSet(waiters) \ {t}
  BY <1>1, LeaveWaitersProperties DEF CancelledInLock, QueueInv
<1>5. PICK k \in 1..Len(waiters) :
           /\ waiters[k] = t
           /\ Len(waiters') = Len(waiters) - 1
           /\ \A j \in 1..(Len(waiters) - 1) :
                waiters'[j] = IF j < k THEN waiters[j] ELSE waiters[j + 1]
  BY <1>1, LeaveWaitersProperties DEF CancelledInLock, QueueInv
<1> SUFFICES ASSUME NEW i \in 1..Len(waiters'), ~cancelled'[waiters'[i]]
             PROVE  Free' + i * MintTime <= LatestStart(waiters[i])' + Turns
  BY DEF Waits, Turns
<1>6. PICK j \in 1..Len(waiters) : i <= j /\ waiters'[i] = waiters[j]
  <2>1. i \in 1..(Len(waiters) - 1) /\ i \in 1..Len(waiters) /\ i + 1 \in 1..Len(waiters) /\ i <= i + 1
    BY <1>1, <1>5
  <2>2. CASE i < k
    BY <1>5, <2>1, <2>2
  <2>3. CASE ~(i < k)
    BY <1>5, <2>1, <2>3
  <2> QED
    BY <2>2, <2>3
<1>7. /\ i \in Nat /\ j \in Nat /\ waiters[j] \in Exports /\ LatestStart(waiters[j]) \in Nat
      /\ waiters'[i] # t
  <2>1. i \in Nat /\ waiters'[i] \in ToSet(waiters')
    BY <1>4, LenProperties, ToSetIsImage
  <2> QED
    BY <1>1, <1>4, <1>6, <2>1, WaitersWait, BoundTypes
<1>8. Free + j * MintTime <= LatestStart(waiters[j]) + Turns
  <2>1. ~cancelled[waiters[j]]
    BY <1>1, <1>2, <1>6, <1>7 DEF TypeOK
  <2> QED
    BY <1>6, <2>1 DEF BoundInv, Waits
<1>9. i * MintTime \in Nat /\ i * MintTime <= j * MintTime /\ j * MintTime \in Nat
  <2>1. ASSUME NEW a \in Nat, NEW b \in Nat, NEW m \in Nat, a <= b
        PROVE  a * m \in Nat /\ a * m <= b * m /\ b * m \in Nat
    <3>1. b - a \in Nat /\ (b - a) * m \in Nat /\ a * m \in Nat
      BY <2>1
    <3>2. b * m = a * m + (b - a) * m
      BY <2>1
    <3> QED
      BY <3>1, <3>2
  <2> QED
    BY <1>1, <1>6, <1>7, <2>1
<1>10. LatestStart(waiters[i])' = LatestStart(waiters[j])
  BY <1>6 DEF LatestStart, loop
<1> QED
  BY <1>1, <1>3, <1>7, <1>8, <1>9, <1>10, SMTT(30)

LEMMA HeadersWaits ==
  ASSUME IInv, QueueInv, BoundInv, NEW t \in Exports, HeadersStep(t), UNCHANGED <<loop, trace>>
  PROVE  \A i \in 1..Len(waiters') : Waits(i)'
<1> USE DEF Goto, Suspend, Resumable, Interrupted
<1>1. /\ TypeOK /\ LockInv /\ now \in Nat /\ Free \in Nat
      /\ started' = started /\ reauthed' = reauthed
  BY BoundTypes DEF IInv, loop
<1>2. \A u \in Exports : LatestStart(u)' = LatestStart(u)
  BY <1>1 DEF LatestStart
<1>3. CASE Headers(t)
  <2>1. pc[t] = "headers" /\ now' = now /\ deadline' = deadline /\ cancelled' = cancelled
    BY <1>3 DEF Headers
  <2>2. CASE Usable
    <3>1. /\ waiters' = waiters /\ holder' = holder /\ pc' = [pc EXCEPT ![t] = "got"]
      BY <1>3, <2>2 DEF Headers
    <3>2. holder # t
      BY <1>1, <2>1 DEF LockInv
    <3>3. Free' = Free
      BY <1>1, <2>1, <3>1, <3>2 DEF Free, TypeOK
    <3> QED
      BY <1>1, <1>2, <2>1, <3>1, <3>3, WaitsStay
  <2>3. CASE ~Usable /\ LockIsFree
    <3>1. waiters' = waiters /\ waiters \in Seq(Exports) /\ \A w \in ToSet(waiters) : cancelled[w]
      BY <1>1, <1>3, <2>3 DEF Headers, LockIsFree, TypeOK
    <3>2. \A i \in 1..Len(waiters) : cancelled[waiters[i]]
      BY <3>1, ToSetIsImage
    <3> QED
      BY <2>1, <3>1, <3>2 DEF Waits
  <2>4. CASE ~Usable /\ ~LockIsFree
    BY <1>1, <1>3, <2>1, <2>4, JoinWaits DEF Headers
  <2> QED
    BY <2>2, <2>3, <2>4
<1>4. CASE LockGranted(t)
  BY <1>4, GrantWaits
<1>5. CASE Recheck(t)
  <2>1. CASE Usable \/ session = "closed"
    BY <1>1, <1>5, <2>1, ReleaseWaits DEF Recheck, BeginMint
  <2>2. CASE ~Usable /\ session # "closed"
    <3>1. /\ pc[t] = "recheck" /\ pc'[t] = "mint" /\ deadline'[t] = now + MintTime
          /\ UNCHANGED lock /\ now' = now /\ cancelled' = cancelled
      BY <1>1, <1>5, <2>2 DEF Recheck, BeginMint, TypeOK
    <3>2. holder = t /\ holder' = t /\ t # NoTask /\ waiters' = waiters
      BY <1>1, <3>1, ProviderAssumption DEF LockInv, lock
    <3>3. Free' = Free
      BY <3>1, <3>2 DEF Free
    <3> QED
      BY <1>1, <1>2, <3>1, <3>2, <3>3, WaitsStay
  <2> QED
    BY <2>1, <2>2
<1>6. ASSUME NEW e \in Int \union {Absent}, MintSucceeds(t, e)
      PROVE  \A i \in 1..Len(waiters') : Waits(i)'
  BY <1>1, <1>6, ReleaseWaits DEF MintSucceeds
<1>7. ASSUME NEW p \in {"down", "permanent", "other"}, MintFails(t, p)
      PROVE  \A i \in 1..Len(waiters') : Waits(i)'
  BY <1>1, <1>7, ReleaseWaits DEF MintFails
<1>8. CASE CancelledInMint(t)
  BY <1>1, <1>8, ReleaseWaits DEF CancelledInMint
<1>9. CASE CancelledInLock(t)
  BY <1>9, LeaveWaits
<1> QED
  BY <1>3, <1>4, <1>5, <1>6, <1>7, <1>8, <1>9, MintOutcomes DEF HeadersStep, MintUnanswered

LEMMA NextWaits ==
  ASSUME IInv, QueueInv, BoundInv, AnyStep
  PROVE  \A i \in 1..Len(waiters') : Waits(i)'
<1> USE DEF Goto, Suspend, Resumable
<1>1. /\ TypeOK /\ LockInv /\ Free \in Nat /\ now \in Nat /\ pc \in [Exports -> Points]
  BY BoundTypes DEF IInv, TypeOK
\* A step of a task outside headers().
<1>2. ASSUME NEW t \in Exports, TaskStep(t), UNCHANGED lock,
             pc[t] \notin {"lock", "recheck", "mint"},
             \A u \in Exports : u # t /\ cancelled[u] => cancelled'[u]
      PROVE  \A i \in 1..Len(waiters') : Waits(i)'
  <2>1. /\ now' = now
        /\ \A u \in Exports \ {t} : /\ pc'[u] = pc[u] /\ deadline'[u] = deadline[u]
                                    /\ LatestStart(u)' = LatestStart(u)
    BY <1>1, <1>2, OthersStay DEF LatestStart, Turns
  <2>2. holder' = holder /\ waiters' = waiters /\ (holder \in Exports => holder # t)
    BY <1>1, <1>2 DEF LockInv, lock
  <2>3. Free' = Free
    BY <1>1, <2>1, <2>2 DEF Free, TypeOK
  <2> QED
    BY <1>1, <1>2, <2>1, <2>2, <2>3, WaitsStay
<1>3. ASSUME NEW t \in Exports, TaskStep(t), ~Cancel(t),
             ~(HeadersStep(t) /\ UNCHANGED <<loop, trace>>)
      PROVE  \A i \in 1..Len(waiters') : Waits(i)'
  <2>1. /\ UNCHANGED lock /\ pc[t] \notin {"lock", "recheck", "mint"}
        /\ cancelled' = cancelled \/ cancelled' = [cancelled EXCEPT ![t] = FALSE]
    BY <1>3
    DEF TaskStep, EndStep, SleepStep, ReauthStep, AttemptStep, BeginExport, NextAttempt, Send
  <2>2. \A u \in Exports : u # t /\ cancelled[u] => cancelled'[u]
    BY <1>1, <2>1 DEF TypeOK
  <2> QED
    BY <1>2, <1>3, <2>1, <2>2
<1>4. ASSUME NEW t \in Exports, HeadersStep(t), UNCHANGED <<loop, trace>>
      PROVE  \A i \in 1..Len(waiters') : Waits(i)'
  BY <1>4, HeadersWaits
<1>5. ASSUME NEW t \in Exports, Cancel(t) PROVE \A i \in 1..Len(waiters') : Waits(i)'
  <2>1. /\ UNCHANGED <<lock, pc, now, deadline, started, reauthed>>
        /\ \A u \in Exports : cancelled[u] => cancelled'[u]
    BY <1>1, <1>5 DEF Cancel, TypeOK, loop
  <2>2. Free' = Free /\ waiters' = waiters /\ \A u \in Exports : LatestStart(u)' = LatestStart(u)
    BY <2>1 DEF Free, LatestStart, lock
  <2> QED
    BY <1>1, <2>1, <2>2, WaitsStay
<1>6. CASE CloseProvider \/ UNCHANGED vars
  <2>1. UNCHANGED <<lock, pc, now, deadline, started, reauthed, cancelled>>
    BY <1>6 DEF CloseProvider, vars, loop
  <2>2. Free' = Free /\ waiters' = waiters /\ \A u \in Exports : LatestStart(u)' = LatestStart(u)
    BY <2>1 DEF Free, LatestStart, lock
  <2> QED
    BY <1>1, <2>1, <2>2, WaitsStay
<1>7. CASE Tick
  <2>1. /\ UNCHANGED <<lock, pc, deadline, started, reauthed, cancelled>>
        /\ running = NoTask /\ woken = NoTask /\ \A t \in Exports : ~cancelled[t]
    BY <1>7 DEF Tick, loop
  <2>2. waiters' = waiters /\ holder' = holder /\ \A u \in Exports : LatestStart(u)' = LatestStart(u)
    BY <2>1 DEF LatestStart, lock
  <2>3. CASE waiters = <<>>
    BY <2>2, <2>3, EmptySeq
  <2>4. CASE waiters # <<>>
    <3>1. waiters[1] \in Exports
      BY <1>1, <2>4, FirstElement DEF TypeOK
    <3>2. holder \in Exports /\ holder # NoTask
      BY <1>1, <2>1, <2>4, <3>1 DEF QueueInv, TypeOK
    <3>3. pc[holder] = "mint"
      BY <1>1, <2>1, <3>2 DEF LockInv, IInv, TurnInv, Immediate
    <3>4. Free' = Free
      BY <2>1, <2>2, <3>2, <3>3 DEF Free
    <3> QED
      BY <1>1, <2>1, <2>2, <3>4, WaitsStay
  <2> QED
    BY <2>3, <2>4
<1>8. CASE CallerStep
  <2>1. /\ UNCHANGED <<lock, now, deadline, started, reauthed>>
        /\ \A u \in Exports : cancelled[u] => cancelled'[u]
    BY <1>8 DEF CallerStep
  <2>2. holder \in Exports => pc'[holder] = pc[holder]
    BY <1>1, <1>8 DEF CallerStep, LockInv
  <2>3. Free' = Free /\ waiters' = waiters /\ \A u \in Exports : LatestStart(u)' = LatestStart(u)
    BY <1>1, <2>1, <2>2 DEF Free, LatestStart, lock, TypeOK
  <2> QED
    BY <1>1, <2>1, <2>3, WaitsStay
<1> QED
  BY <1>3, <1>4, <1>5, <1>6, <1>7, <1>8 DEF AnyStep, TaskStep

-----------------------------------------------------------------------------
(* How long an export lasts.                                                 *)

\* The client's whole invariant, of which each part needs those before it.
ClientInv == IInv /\ QueueInv /\ BoundInv

LEMMA InitClientInv == Init => ClientInv
BY InitIInv, InitQueue, InitBound DEF ClientInv

LEMMA NextClientInv == ClientInv /\ AnyStep => ClientInv'
<1> SUFFICES ASSUME IInv, QueueInv, BoundInv, AnyStep PROVE IInv' /\ QueueInv' /\ BoundInv'
  BY DEF ClientInv
<1>1. IInv' /\ QueueInv'
  BY NextIInv, NextQueue DEF IInv
<1>2. \A u \in Exports : InTime(u)'
  BY NextInTime
<1> QED
  BY <1>1, <1>2, NextWaits DEF BoundInv

LEMMA BoundCorrect == Spec => []ClientInv
BY InitClientInv, NextClientInv, NextIsAnyStep, PTL DEF Spec

LEMMA ClientInvBounds == ClientInv => ExportIsBounded
<1> SUFFICES ASSUME IInv, QueueInv, BoundInv, NEW t \in Exports, pc[t] \notin {"idle", "done"}
             PROVE  Elapsed(t) <= MaxElapsed + AttemptBound
  BY DEF ExportIsBounded, ClientInv
<1>1. /\ now \in Nat /\ Turns \in Nat /\ Timeout \in Nat /\ MaxElapsed \in Nat
      /\ LatestStart(t) \in Nat /\ deadline[t] \in Nat /\ started[t] \in Nat /\ TypeOK
      /\ MintTime \in Nat
  BY BoundTypes, TurnsBound, TurnTimes DEF IInv
<1>2. LatestStart(t) <= started[t] + MaxElapsed + Timeout + Turns
  BY <1>1 DEF LatestStart
<1>3. now <= LatestStart(t) + Turns + Timeout
  <2>1. CASE pc[t] \in {"headers", "recheck", "lock", "got", "down", "permanent", "other", "cancelled"}
    BY <1>1, <2>1 DEF BoundInv, InTime
  <2>2. CASE pc[t] \in {"mint", "send"}
    BY <1>1, <2>2 DEF BoundInv, InTime, IInv, TimeInv, Timed
  <2>3. CASE pc[t] = "backoff"
    <3>1. now <= deadline[t] /\ deadline[t] <= started[t] + MaxElapsed
      BY <2>3 DEF IInv, TimeInv, Timed
    <3>2. started[t] + MaxElapsed <= LatestStart(t)
      BY <1>1 DEF LatestStart
    <3> QED
      BY <1>1, <3>1, <3>2
  <2>4. pc[t] \in Points
    BY <1>1 DEF TypeOK
  <2> QED
    BY <2>1, <2>2, <2>3, <2>4 DEF Points, Timed
<1>4. AttemptBound = 2 * (Timeout + Turns)
  BY DEF AttemptBound, Turns, Authenticated
<1> QED
  BY <1>1, <1>2, <1>3, <1>4 DEF Elapsed

\* However many exports queue for the endpoint, however they are cancelled and
\* whatever it and the collector answer, an export ends within max_elapsed and
\* the two requests of its last attempt, each after a turn of every task at most.
THEOREM ExportsAreBounded == Spec => []ExportIsBounded
BY ClientInvBounds, BoundCorrect, PTL
=============================================================================
