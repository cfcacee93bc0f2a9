------------------------ MODULE BatchProcessorProofs ------------------------
(* Theorems about BatchProcessor for every number of callers, queue size,    *)
(* batch size and bound, with their proofs.                                  *)
EXTENDS BatchProcessor, AsyncioProofs

-----------------------------------------------------------------------------
(* Lemmas on the sequence operators the model is built from.                 *)

\* deque(maxlen = m) keeps a sequence of the same elements, m of them at most.
LEMMA NewestProperties ==
  ASSUME NEW S, NEW s \in Seq(S), NEW m \in Nat
  PROVE  /\ Newest(s, m) \in Seq(S)
         /\ Len(Newest(s, m)) = IF Len(s) > m THEN m ELSE Len(s)
         /\ ToSet(Newest(s, m)) \subseteq ToSet(s)
<1>0. Len(s) \in Nat /\ s \in [1..Len(s) -> S] /\ DOMAIN s = 1..Len(s)
  BY LenProperties
<1>1. CASE Len(s) > m
  <2> DEFINE a == Len(s) - m + 1
             u == SubSeq(s, a, Len(s))
  <2>1. a \in Int /\ Len(s) \in Int /\ a >= 1 /\ \A i \in a..Len(s) : s[i] \in S
    BY <1>0, <1>1
  <2>2. /\ u \in Seq(S)
        /\ Len(u) = IF a <= Len(s) THEN Len(s) - a + 1 ELSE 0
        /\ \A i \in 1..(Len(s) - a + 1) : u[i] = s[a + i - 1]
    BY <2>1, SubSeqProperties
  <2>3. Len(u) = m
    BY <2>2, <1>0, <1>1
  <2>4. DOMAIN u = 1..m
    BY <2>2, <2>3, LenProperties
  <2>5. \A i \in DOMAIN u : u[i] = s[a + i - 1] /\ a + i - 1 \in DOMAIN s
    BY <2>2, <2>4, <1>0, <1>1
  <2>6. ToSet(u) \subseteq ToSet(s)
    BY <2>5 DEF ToSet
  <2> QED
    BY <2>2, <2>3, <2>6, <1>1 DEF Newest
<1>2. CASE ~(Len(s) > m)
  BY <1>0, <1>2 DEF Newest
<1> QED
  BY <1>1, <1>2

\* The n new records come behind those that wait.
LEMMA AppendedProperties ==
  ASSUME NEW q \in Seq(Nat), NEW n \in Nat, NEW from \in Nat
  PROVE  /\ Appended(q, from, n) \in Seq(Nat)
         /\ Len(Appended(q, from, n)) = Len(q) + n
         /\ \A i \in 1..(Len(q) + n) :
              Appended(q, from, n)[i] = IF i <= Len(q) THEN q[i] ELSE from + (i - Len(q))
<1> DEFINE new == [i \in 1..n |-> from + i]
<1>1. new \in Seq(Nat) /\ Len(new) = n /\ Len(q) \in Nat
  <2>1. \A i \in 1..n : from + i \in Nat
    OBVIOUS
  <2>2. new \in [1..n -> Nat]
    BY <2>1
  <2>3. new \in Seq(Nat)
    BY <2>2, SeqDef
  <2>4. Len(new) = n
    BY <2>2, <2>3, LenProperties
  <2> QED
    BY <2>3, <2>4, LenProperties
<1>2. \A j \in 1..n : new[j] = from + j
  OBVIOUS
<1>3. Appended(q, from, n) = q \o new
  BY DEF Appended
<1> HIDE DEF new
<1>4. /\ q \o new \in Seq(Nat) /\ Len(q \o new) = Len(q) + n
      /\ \A i \in 1..(Len(q) + n) :
           (q \o new)[i] = IF i <= Len(q) THEN q[i] ELSE new[i - Len(q)]
  BY <1>1, ConcatProperties
<1>5. \A i \in 1..(Len(q) + n) : i > Len(q) => i - Len(q) \in 1..n
  BY <1>1
<1> QED
  BY <1>1, <1>2, <1>3, <1>4, <1>5

\* What _submit leaves in a queue, and what it evicts.
LEMMA EnqueueProperties ==
  ASSUME NEW q \in Seq(Nat), NEW n \in Nat, NEW from \in Nat, NEW max \in Nat
  PROVE  /\ Monus(Len(Appended(q, from, n)), max) \in Nat
         /\ Oldest(Appended(q, from, n), Monus(Len(Appended(q, from, n)), max))
              \subseteq Nat
         /\ Newest(Appended(q, from, n), max) \in Seq(Nat)
         /\ \A x \in ToSet(Newest(Appended(q, from, n), max)) :
              x \in ToSet(q) \/ x > from
<1> DEFINE all == Appended(q, from, n)
           over == Monus(Len(all), max)
<1>1. Len(q) \in Nat /\ DOMAIN q = 1..Len(q)
  BY LenProperties
<1>2. /\ all \in Seq(Nat) /\ Len(all) = Len(q) + n
      /\ \A i \in 1..(Len(q) + n) :
           all[i] = IF i <= Len(q) THEN q[i] ELSE from + (i - Len(q))
  BY AppendedProperties
<1> HIDE DEF all
<1>3. DOMAIN all = 1..(Len(q) + n)
  BY <1>1, <1>2, LenProperties
<1>4. over \in Nat /\ over <= Len(all)
  BY <1>1, <1>2 DEF Monus
<1>5. \A i \in 1..(Len(q) + n) : all[i] \in ToSet(q) \/ all[i] > from
  <2> SUFFICES ASSUME NEW i \in 1..(Len(q) + n)
               PROVE  all[i] \in ToSet(q) \/ all[i] > from
    OBVIOUS
  <2>1. CASE i <= Len(q)
    <3>1. all[i] = q[i] /\ i \in DOMAIN q
      BY <1>1, <1>2, <2>1
    <3> QED
      BY <3>1 DEF ToSet
  <2>2. CASE i > Len(q)
    <3>1. ~(i <= Len(q)) /\ from + (i - Len(q)) > from
      BY <1>1, <2>2
    <3>2. all[i] = from + (i - Len(q))
      BY <1>2, <3>1
    <3> QED
      BY <3>1, <3>2
  <2>3. i <= Len(q) \/ i > Len(q)
    BY <1>1
  <2> QED
    BY <2>1, <2>2, <2>3
<1>6. \A x \in ToSet(all) : x \in ToSet(q) \/ x > from
  BY <1>3, <1>5 DEF ToSet
<1>7. /\ Newest(all, max) \in Seq(Nat)
      /\ Len(Newest(all, max)) = IF Len(all) > max THEN max ELSE Len(all)
      /\ ToSet(Newest(all, max)) \subseteq ToSet(all)
  BY <1>2, NewestProperties
<1>8. Oldest(all, over) \subseteq Nat
  <2>1. \A i \in 1..over : all[i] \in Nat
    BY <1>1, <1>2, <1>4, ElementOfSeq
  <2> QED
    BY <2>1 DEF Oldest
<1> HIDE DEF over
<1> QED
  BY <1>4, <1>6, <1>7, <1>8, Zenon DEF all, over

-----------------------------------------------------------------------------
(* Type correctness.                                                         *)

LEMMA InitTypeOK == Init => TypeOK
<1> SUFFICES ASSUME Init PROVE TypeOK
  OBVIOUS
<1>1. <<>> \in Seq(Nat) /\ <<>> \in Seq(Tasks)
  BY EmptySeq
<1>2. StoreOK
  BY <1>1 DEF Init, StoreOK
<1>3. EventsOK
  BY DEF Init, EventsOK
<1>4. LockOK
  BY <1>1 DEF Init, LockOK
<1>5. ControlOK
  <2>1. pc \in [Tasks -> Points] /\ \A t \in Tasks : pc[t] # "export"
    BY DEF Init, Points
  <2>2. \A t \in Tasks : pc[t] \in PcOf(t)
    BY ConstantsAssumption DEF Init, Tasks, PcOf
  <2>3. at \in [Tasks -> 1..4] /\ cancelled \in [Tasks -> BOOLEAN]
        /\ running \in Tasks \union {NoTask}
    BY DEF Init
  <2>4. batch \in [Tasks -> Seq(Nat)]
    BY <1>1 DEF Init
  <2> QED
    BY <2>1, <2>2, <2>3, <2>4 DEF ControlOK
<1>6. HistoryOK
  <2>1. lost \subseteq Nat /\ mark \in [Tasks -> Nat]
    BY DEF Init
  <2> QED
    BY <2>1 DEF Init, HistoryOK
<1> QED
  BY <1>2, <1>3, <1>4, <1>5, <1>6 DEF TypeOK

\* A task moves to one of its program points.
LEMMA PcStep ==
  ASSUME ControlOK, NEW t \in Tasks, NEW p \in PcOf(t),
         pc' = [pc EXCEPT ![t] = p]
  PROVE  /\ pc' \in [Tasks -> Points]
         /\ \A u \in Tasks : pc'[u] \in PcOf(u)
         /\ pc'[t] = p
         /\ \A u \in Tasks \ {t} : pc'[u] = pc[u]
<1>1. p \in Points
  BY DEF PcOf, Points
<1> QED
  BY <1>1 DEF ControlOK

\* ... and neither drains nor ends an export.
LEMMA PlainStep ==
  ASSUME ControlOK, NEW t \in Tasks, NEW p \in PcOf(t), p # "export",
         pc' = [pc EXCEPT ![t] = p],
         running' \in Tasks \union {NoTask},
         cancelled' \in [Tasks -> BOOLEAN],
         batch' = batch \/ batch' = [batch EXCEPT ![t] = <<>>],
         at' = at \/ at' = [at EXCEPT ![t] = 1]
  PROVE  ControlOK'
<1>1. /\ pc' \in [Tasks -> Points]
      /\ \A u \in Tasks : pc'[u] \in PcOf(u)
      /\ pc'[t] = p
      /\ \A u \in Tasks \ {t} : pc'[u] = pc[u]
  BY PcStep
<1>2. batch' \in [Tasks -> Seq(Nat)]
  <2>1. batch \in [Tasks -> Seq(Nat)] /\ <<>> \in Seq(Nat)
    BY EmptySeq DEF ControlOK
  <2>2. [batch EXCEPT ![t] = <<>>] \in [Tasks -> Seq(Nat)]
    BY <2>1
  <2> QED
    BY <2>1, <2>2
<1>3. at' \in [Tasks -> 1..4] /\ \A u \in Tasks \ {t} : at'[u] = at[u]
  <2>1. at \in [Tasks -> 1..4] /\ 1 \in 1..4
    BY DEF ControlOK
  <2>2. CASE at' = at
    BY <2>1, <2>2
  <2>3. CASE at' = [at EXCEPT ![t] = 1]
    BY <2>1, <2>3
  <2> QED
    BY <2>2, <2>3
<1>4. \A u \in Tasks : pc'[u] = "export" => at'[u] \in Kinds
  BY <1>1, <1>3 DEF ControlOK
<1> QED
  BY <1>1, <1>2, <1>3, <1>4 DEF ControlOK

\* Adding lost records to the count.
LEMMA LoseType ==
  ASSUME HistoryOK, dropped \in Nat, NEW n \in Nat, NEW S \in SUBSET Nat,
         NEW cause \in {"overflow", "failure", "cancelled", "shutdown"},
         Lose(n, S, cause)
  PROVE  /\ dropped' \in Nat
         /\ lost' \subseteq Nat
         /\ lastLoss' \in {"none", "overflow", "failure", "cancelled", "shutdown"}
<1>1. dropped' \in Nat
  BY DEF Lose
<1>2. lost' \subseteq Nat
  BY DEF Lose, HistoryOK
<1>3. lastLoss' \in {"none", "overflow", "failure", "cancelled", "shutdown"}
  BY DEF Lose, HistoryOK
<1> QED
  BY <1>1, <1>2, <1>3

\* What _submit changes keeps its type.
LEMMA EnqueueType ==
  ASSUME TypeOK, NEW k \in Kinds, NEW n \in Nat, Enqueue(k, n),
         UNCHANGED <<exported, failures, lastError, closed, refused, mark>>,
         flushed' \in BOOLEAN, watch' \in Nat
  PROVE  StoreOK' /\ EventsOK' /\ HistoryOK'
<1> DEFINE all == Appended(queue[k], submitted, n)
           over == Monus(Len(all), MaxQueue)
<1>1. queue[k] \in Seq(Nat) /\ submitted \in Nat /\ MaxQueue \in Nat
  BY ConstantsAssumption DEF TypeOK, StoreOK
<1>2. /\ over \in Nat
      /\ Oldest(all, over) \subseteq Nat
      /\ Newest(all, MaxQueue) \in Seq(Nat)
  BY <1>1, EnqueueProperties
<1>3. /\ queue' = [queue EXCEPT ![k] = Newest(all, MaxQueue)]
      /\ submitted' = submitted + n
      /\ Lose(over, Oldest(all, over), "overflow")
      /\ wake' \in BOOLEAN
  BY DEF Enqueue, TypeOK, EventsOK
<1> HIDE DEF all, over
<1>4. /\ dropped' \in Nat
      /\ lost' \subseteq Nat
      /\ lastLoss' \in {"none", "overflow", "failure", "cancelled", "shutdown"}
  BY <1>2, <1>3, LoseType DEF TypeOK, StoreOK
<1>5. queue' \in [Kinds -> Seq(Nat)] /\ submitted' \in Nat
  BY <1>2, <1>3 DEF TypeOK, StoreOK
<1> QED
  BY <1>3, <1>4, <1>5 DEF TypeOK, StoreOK, EventsOK, HistoryOK

\* The groups of variables a step leaves alone keep their types.
LEMMA UnchangedTypes ==
  ASSUME TypeOK
  PROVE  /\ UNCHANGED <<queue, counters>> => StoreOK'
         /\ UNCHANGED <<events, closed>> => EventsOK'
         /\ UNCHANGED lock => LockOK'
         /\ UNCHANGED control => ControlOK'
         /\ UNCHANGED history => HistoryOK'
         /\ UNCHANGED <<losses, watch>> /\ mark' \in [Tasks -> Nat] => HistoryOK'
<1>1. UNCHANGED <<queue, counters>> => StoreOK'
  BY DEF TypeOK, StoreOK, counters
<1>2. UNCHANGED <<events, closed>> => EventsOK'
  BY DEF TypeOK, EventsOK, events
<1>3. UNCHANGED lock => LockOK'
  BY DEF TypeOK, LockOK, lock
<1>4. UNCHANGED control => ControlOK'
  BY DEF TypeOK, ControlOK, control
<1>5. UNCHANGED <<losses, watch>> /\ mark' \in [Tasks -> Nat] => HistoryOK'
  BY DEF TypeOK, HistoryOK, losses
<1>6. UNCHANGED history => HistoryOK'
  BY DEF TypeOK, HistoryOK, history, losses
<1> QED
  BY <1>1, <1>2, <1>3, <1>4, <1>5, <1>6

\* The calls of the application.
LEMMA ApplicationTypeOK == TypeOK /\ Application => TypeOK'
<1> SUFFICES ASSUME TypeOK, Application PROVE TypeOK'
  OBVIOUS
<1> USE ConstantsAssumption, UnchangedTypes
<1>1. Bg \in Tasks /\ Closer \in Tasks /\ Callers \subseteq Tasks
  BY DEF Tasks
<1>2. ASSUME NEW k \in UsedKinds, NEW n \in 1..SubmitMax, Submit(k, n)
      PROVE  TypeOK'
  <2>1. k \in Kinds /\ n \in Nat
    BY DEF Kinds
  <2>2. StoreOK' /\ EventsOK' /\ HistoryOK'
    BY <1>2, <2>1, EnqueueType DEF Submit, TypeOK, EventsOK, HistoryOK
  <2> QED
    BY <1>2, <2>2 DEF Submit, TypeOK
<1>3. ASSUME NEW k \in UsedKinds, SubmitAndWait(k)
      PROVE  TypeOK'
  <2>1. k \in Kinds /\ submitted + 1 \in Nat
    BY DEF Kinds, TypeOK, StoreOK
  <2>2. StoreOK' /\ EventsOK' /\ HistoryOK'
    BY <1>3, <2>1, EnqueueType DEF SubmitAndWait
  <2> QED
    BY <1>3, <2>2 DEF SubmitAndWait, TypeOK
<1>4. CASE Aenter
  <2>1. "new" \in PcOf(Bg)
    BY DEF PcOf
  <2>2. ControlOK'
    BY <1>1, <1>4, <2>1, PlainStep DEF Aenter, TypeOK, ControlOK
  <2> QED
    BY <1>4, <2>2 DEF Aenter, TypeOK
<1>5. ASSUME NEW c \in Callers, CallFlush(c)
      PROVE  TypeOK'
  <2>1. c \in Tasks /\ "flush" \in PcOf(c)
    BY <1>1 DEF PcOf
  <2>2. ControlOK'
    BY <1>5, <2>1, PlainStep DEF CallFlush, BeginFlush, Goto, TypeOK, ControlOK
  <2>3. mark' \in [Tasks -> Nat]
    BY <1>5 DEF CallFlush, BeginFlush, TypeOK, StoreOK, HistoryOK
  <2> QED
    BY <1>5, <2>2, <2>3 DEF CallFlush, TypeOK
<1>6. ASSUME NEW t \in Callers \union {Closer}, CancelTask(t)
      PROVE  TypeOK'
  <2>1. ControlOK'
    BY <1>1, <1>6 DEF CancelTask, TypeOK, ControlOK
  <2> QED
    BY <1>6, <2>1 DEF CancelTask, TypeOK
<1>7. CASE Aexit
  <2>1. "flush" \in PcOf(Closer) /\ "join" \in PcOf(Closer)
    BY DEF PcOf
  <2>2. EventsOK'
    BY <1>7 DEF Aexit, TypeOK, EventsOK, events
  <2>3. CASE pc[Bg] \in {"absent", "done"}
    <3>1. ControlOK'
      BY <1>1, <1>7, <2>1, <2>3, PlainStep
      DEF Aexit, BeginFlush, Goto, TypeOK, ControlOK
    <3>2. mark' \in [Tasks -> Nat]
      BY <1>7, <2>3 DEF Aexit, BeginFlush, TypeOK, StoreOK, HistoryOK
    <3> QED
      BY <1>7, <2>2, <3>1, <3>2 DEF Aexit, TypeOK
  <2>4. CASE pc[Bg] \notin {"absent", "done"}
    <3>1. ControlOK'
      BY <1>1, <1>7, <2>1, <2>4, PlainStep DEF Aexit, Suspend, TypeOK, ControlOK
    <3>2. mark' \in [Tasks -> Nat]
      BY <1>7, <2>4 DEF Aexit, TypeOK, HistoryOK
    <3> QED
      BY <1>7, <2>2, <3>1, <3>2 DEF Aexit, TypeOK
  <2> QED
    BY <2>3, <2>4
<1> QED
  BY <1>2, <1>3, <1>4, <1>5, <1>6, <1>7 DEF Application

\* The background loop and the join.
LEMMA LoopTypeOK == TypeOK /\ (BgStep \/ JoinReturns) => TypeOK'
<1> SUFFICES ASSUME TypeOK, BgStep \/ JoinReturns PROVE TypeOK'
  OBVIOUS
<1> USE ConstantsAssumption, UnchangedTypes
<1>1. Bg \in Tasks /\ Closer \in Tasks
  BY DEF Tasks
<1>2. {"loop", "wait", "flush", "done"} \subseteq PcOf(Bg) /\ "flush" \in PcOf(Closer)
  BY DEF PcOf
<1>3. CASE BgStart
  <2>1. ControlOK'
    BY <1>1, <1>2, <1>3, PlainStep DEF BgStart, Goto, TypeOK, ControlOK
  <2> QED
    BY <1>3, <2>1 DEF BgStart, TypeOK
<1>4. ASSUME BeginBgFlush,
             UNCHANGED <<queue, counters, closed, lock, at, batch, cancelled,
                         losses, watch>>
      PROVE  TypeOK'
  <2>1. ControlOK'
    BY <1>1, <1>2, <1>4, PlainStep
    DEF BeginBgFlush, BeginFlush, Goto, TypeOK, ControlOK
  <2>2. mark' \in [Tasks -> Nat]
    BY <1>4 DEF BeginBgFlush, BeginFlush, TypeOK, StoreOK, HistoryOK
  <2>3. EventsOK'
    BY <1>4 DEF BeginBgFlush, TypeOK, EventsOK
  <2> QED
    BY <1>4, <2>1, <2>2, <2>3 DEF TypeOK
<1>5. CASE BgTop
  <2>1. CASE wake
    BY <1>4, <1>5, <2>1 DEF BgTop
  <2>2. CASE ~wake
    <3>1. ControlOK'
      BY <1>1, <1>2, <1>5, <2>2, PlainStep DEF BgTop, Suspend, TypeOK, ControlOK
    <3>2. mark' \in [Tasks -> Nat]
      BY <1>5, <2>2 DEF BgTop, TypeOK, HistoryOK
    <3> QED
      BY <1>5, <2>2, <3>1, <3>2 DEF BgTop, TypeOK
  <2> QED
    BY <2>1, <2>2
<1>6. CASE BgWakes
  BY <1>4, <1>6 DEF BgWakes
<1>7. CASE BgCancelled
  <2>1. ControlOK'
    BY <1>1, <1>2, <1>7, PlainStep DEF BgCancelled, Suspend, TypeOK, ControlOK
  <2> QED
    BY <1>7, <2>1 DEF BgCancelled, TypeOK
<1>8. CASE JoinReturns
  <2>1. ControlOK'
    BY <1>1, <1>2, <1>8, PlainStep
    DEF JoinReturns, BeginFlush, Goto, TypeOK, ControlOK
  <2>2. mark' \in [Tasks -> Nat]
    BY <1>8 DEF JoinReturns, BeginFlush, TypeOK, StoreOK, HistoryOK
  <2> QED
    BY <1>8, <2>1, <2>2 DEF JoinReturns, TypeOK
<1> QED
  BY <1>3, <1>5, <1>6, <1>7, <1>8 DEF BgStep

\* One task inside flush().
LEMMA FlushTypeOK == ASSUME TypeOK, NEW t \in Tasks, FlushStep(t) PROVE TypeOK'
<1> USE ConstantsAssumption, UnchangedTypes
<1>1. {"flush", "lock", "drain", "export"} \subseteq PcOf(t)
  BY DEF PcOf
<1>2. /\ batch[t] \in Seq(Nat) /\ Len(batch[t]) \in Nat
      /\ ToSet(batch[t]) \subseteq Nat
      /\ [batch EXCEPT ![t] = <<>>] \in [Tasks -> Seq(Nat)]
  BY LenProperties, ElementOfSeq, EmptySeq DEF ToSet, TypeOK, ControlOK
<1>3. ASSUME AbortFlush(t),
             batch' = batch \/ batch' = [batch EXCEPT ![t] = <<>>],
             at' = at \/ at' = [at EXCEPT ![t] = 1]
      PROVE  ControlOK' /\ mark' \in [Tasks -> Nat]
  <2> DEFINE p == IF t = Bg THEN "done"
                  ELSE IF t = Closer THEN "aborted" ELSE "idle"
  <2>1. p \in PcOf(t) /\ p # "export"
    BY DEF PcOf
  <2> HIDE DEF p
  <2>2. /\ pc' = [pc EXCEPT ![t] = p]
        /\ running' = NoTask
        /\ cancelled' \in [Tasks -> BOOLEAN]
    BY <1>3 DEF AbortFlush, Suspend, p, TypeOK, ControlOK
  <2>3. ControlOK'
    BY <1>3, <2>1, <2>2, PlainStep DEF TypeOK
  <2>4. mark' \in [Tasks -> Nat]
    BY <1>3 DEF AbortFlush, TypeOK, HistoryOK
  <2> QED
    BY <2>3, <2>4
<1>4. ASSUME LeaveWaiters(t) PROVE waiters' \in Seq(Tasks)
  BY <1>4, LeaveWaitersType DEF TypeOK, LockOK
<1>5. ASSUME Release PROVE LockOK'
  BY <1>5, WakeFirstType DEF Release, TypeOK, LockOK
<1>6. CASE Acquire(t)
  <2>1. CASE LockIsFree
    <3>1. ControlOK'
      BY <1>1, <1>6, <2>1, PlainStep DEF Acquire, Goto, TypeOK, ControlOK
    <3>2. LockOK'
      BY <1>6, <2>1 DEF Acquire, TypeOK, LockOK
    <3> QED
      BY <1>6, <3>1, <3>2 DEF Acquire, TypeOK
  <2>2. CASE ~LockIsFree
    <3>1. ControlOK'
      BY <1>1, <1>6, <2>2, PlainStep DEF Acquire, Suspend, TypeOK, ControlOK
    <3>2. LockOK'
      BY <1>6, <2>2, AppendProperties DEF Acquire, TypeOK, LockOK
    <3> QED
      BY <1>6, <3>1, <3>2 DEF Acquire, TypeOK
  <2> QED
    BY <2>1, <2>2
<1>7. CASE Granted(t)
  <2>1. ControlOK'
    BY <1>1, <1>7, PlainStep DEF Granted, Goto, TypeOK, ControlOK
  <2>2. LockOK'
    BY <1>4, <1>7 DEF Granted, TypeOK, LockOK
  <2> QED
    BY <1>7, <2>1, <2>2 DEF Granted, TypeOK
<1>8. CASE DrainNext(t)
  <2>1. PICK k \in at[t]..3 :
          /\ batch' = [batch EXCEPT ![t] = queue[k]]
          /\ queue' = [queue EXCEPT ![k] = <<>>]
          /\ at' = [at EXCEPT ![t] = k]
    BY <1>8 DEF DrainNext
  <2>2. k \in Kinds /\ k \in 1..4
    <3>1. at[t] \in 1..4
      BY DEF TypeOK, ControlOK
    <3> QED
      BY <2>1, <3>1 DEF Kinds
  <2>3. StoreOK'
    <3>1. queue' \in [Kinds -> Seq(Nat)]
      BY <2>1, EmptySeq DEF TypeOK, StoreOK
    <3> QED
      BY <1>8, <3>1 DEF DrainNext, TypeOK, StoreOK, counters
  <2>4. ControlOK'
    <3>1. pc' = [pc EXCEPT ![t] = "export"] /\ running' = NoTask
          /\ cancelled' = cancelled
      BY <1>8 DEF DrainNext, Suspend
    <3>2. /\ pc' \in [Tasks -> Points]
          /\ \A u \in Tasks : pc'[u] \in PcOf(u)
          /\ \A u \in Tasks \ {t} : pc'[u] = pc[u]
      BY <1>1, <3>1, PcStep DEF TypeOK
    <3>3. at' \in [Tasks -> 1..4] /\ at'[t] = k
          /\ \A u \in Tasks \ {t} : at'[u] = at[u]
      BY <2>1, <2>2 DEF TypeOK, ControlOK
    <3>4. batch' \in [Tasks -> Seq(Nat)]
      BY <2>1, <2>2 DEF TypeOK, StoreOK, ControlOK
    <3>5. \A u \in Tasks : pc'[u] = "export" => at'[u] \in Kinds
      BY <2>2, <3>2, <3>3 DEF TypeOK, ControlOK
    <3> QED
      BY <3>1, <3>2, <3>3, <3>4, <3>5 DEF TypeOK, ControlOK
  <2> QED
    BY <1>8, <2>3, <2>4 DEF DrainNext, TypeOK
<1>9. CASE LeaveFlush(t)
  <2> DEFINE p == IF t = Bg THEN "loop"
                  ELSE IF t = Closer THEN "done" ELSE "idle"
  <2>1. p \in PcOf(t) /\ p # "export"
    BY DEF PcOf
  <2> HIDE DEF p
  <2>2. pc' = [pc EXCEPT ![t] = p] /\ running' \in Tasks \union {NoTask}
    BY <1>9 DEF LeaveFlush, ReturnFrom, Goto, Suspend, p
  <2>3. ControlOK'
    BY <1>9, <2>1, <2>2, PlainStep DEF LeaveFlush, TypeOK, ControlOK
  <2>4. EventsOK'
    BY <1>9 DEF LeaveFlush, ReturnFrom, TypeOK, EventsOK
  <2>5. mark' \in [Tasks -> Nat]
    BY <1>9 DEF LeaveFlush, TypeOK, HistoryOK
  <2> QED
    BY <1>5, <1>9, <2>3, <2>4, <2>5 DEF LeaveFlush, TypeOK
<1>10. CASE CancelledInLock(t)
  <2>1. LockOK'
    BY <1>4, <1>10, WakeFirstType DEF CancelledInLock, TypeOK, LockOK
  <2> QED
    BY <1>3, <1>10, <2>1 DEF CancelledInLock, TypeOK
<1>11. ASSUME NextKind(t), exported' \in Nat, dropped' \in Nat, failures' \in Nat,
              lastError' \in {"none", "failure", "partial"},
              refused' \in Nat, lost' \subseteq Nat,
              lastLoss' \in {"none", "overflow", "failure", "cancelled", "shutdown"}
       PROVE  TypeOK'
  <2>1. pc[t] = "export" /\ at' = [at EXCEPT ![t] = @ + 1]
        /\ pc' = [pc EXCEPT ![t] = "drain"] /\ running' = t
    BY <1>11 DEF NextKind, Goto, Resumable
  <2>2. at[t] \in Kinds
    BY <2>1 DEF TypeOK, ControlOK
  <2>3. at[t] + 1 \in 1..4
    BY <2>2 DEF Kinds
  <2>4. at' \in [Tasks -> 1..4] /\ \A u \in Tasks \ {t} : at'[u] = at[u]
    BY <2>1, <2>3 DEF TypeOK, ControlOK
  <2>5. /\ pc' \in [Tasks -> Points]
        /\ \A u \in Tasks : pc'[u] \in PcOf(u)
        /\ pc'[t] = "drain"
        /\ \A u \in Tasks \ {t} : pc'[u] = pc[u]
    BY <1>1, <2>1, PcStep DEF TypeOK
  <2>6. \A u \in Tasks : pc'[u] = "export" => at'[u] \in Kinds
    BY <2>4, <2>5 DEF TypeOK, ControlOK
  <2>7. ControlOK'
    BY <1>2, <1>11, <2>1, <2>4, <2>5, <2>6 DEF NextKind, TypeOK, ControlOK
  <2>8. HistoryOK' /\ StoreOK'
    BY <1>11 DEF NextKind, TypeOK, StoreOK, HistoryOK
  <2> QED
    BY <1>11, <2>7, <2>8 DEF NextKind, TypeOK
<1>12. CASE ExportSucceeds(t)
  <2>1. exported' \in Nat
    BY <1>2, <1>12 DEF ExportSucceeds, TypeOK, StoreOK
  <2> QED
    BY <1>11, <1>12, <2>1 DEF ExportSucceeds, TypeOK, StoreOK, HistoryOK
<1>13. ASSUME NEW r \in 0..MaxRejected, ExportPartial(t, r) PROVE TypeOK'
  <2>1. exported' \in Nat /\ refused' \in Nat
    BY <1>2, <1>13 DEF ExportPartial, Monus, TypeOK, StoreOK, HistoryOK
  <2> QED
    BY <1>11, <1>13, <2>1 DEF ExportPartial, TypeOK, StoreOK, HistoryOK
<1>14. CASE ExportFails(t)
  <2>1. /\ dropped' \in Nat /\ lost' \subseteq Nat
        /\ lastLoss' \in {"none", "overflow", "failure", "cancelled", "shutdown"}
    BY <1>2, <1>14, LoseType DEF ExportFails, TypeOK, StoreOK
  <2> QED
    BY <1>11, <1>14, <2>1 DEF ExportFails, TypeOK, StoreOK, HistoryOK
<1>15. CASE CancelledInExport(t)
  <2>1. /\ dropped' \in Nat /\ lost' \subseteq Nat
        /\ lastLoss' \in {"none", "overflow", "failure", "cancelled", "shutdown"}
    BY <1>2, <1>15, LoseType DEF CancelledInExport, TypeOK, StoreOK
  <2>2. ControlOK' /\ mark' \in [Tasks -> Nat]
    BY <1>3, <1>15 DEF CancelledInExport
  <2>3. StoreOK' /\ HistoryOK'
    BY <1>15, <2>1, <2>2 DEF CancelledInExport, TypeOK, StoreOK, HistoryOK
  <2> QED
    BY <1>5, <1>15, <2>2, <2>3 DEF CancelledInExport, TypeOK
<1> QED
  BY <1>6, <1>7, <1>8, <1>9, <1>10, <1>12, <1>13, <1>14, <1>15
  DEF FlushStep, ExportEnds

LEMMA NextTypeOK == TypeOK /\ [Next]_vars => TypeOK'
<1>1. ASSUME TypeOK, UNCHANGED vars PROVE TypeOK'
  BY <1>1, UnchangedTypes DEF vars, TypeOK
<1> QED
  BY <1>1, ApplicationTypeOK, LoopTypeOK, FlushTypeOK DEF Next

\* Every variable keeps its type, whatever the tasks, signals and answers are.
THEOREM TypeCorrect == Spec => []TypeOK
BY InitTypeOK, NextTypeOK, PTL DEF Spec

-----------------------------------------------------------------------------
(* The inductive invariant, in named parts.                                  *)

\* The lock belongs to the task between acquire and release; only a task that
\* exports holds a batch; a waiter is woken only when the lock is free.
LockInv ==
  /\ \A t \in Tasks : pc[t] \in {"drain", "export"} <=> holder = t
  /\ \A t \in Tasks : pc[t] # "export" => batch[t] = <<>>
  /\ woken # NoTask => holder = NoTask /\ woken \in ToSet(waiters)

\* The kinds a task in flush() has drained already.
Done(t) == {k \in Kinds : k < at[t] \/ (k = at[t] /\ pc[t] = "export")}

\* A queue that a flush has passed holds only records younger than that flush.
SettleInv ==
  /\ \A t \in Tasks : pc[t] \notin {"drain", "export"} => at[t] = 1
  /\ \A t \in Tasks : mark[t] <= submitted
  /\ \A t \in Tasks : \A k \in Done(t) : \A i \in ToSet(queue[k]) : i > mark[t]

\* What the closing task knows: nothing is accepted, the background task has
\* ended, and the queues it has passed stay empty.
CloseInv ==
  /\ pc[Closer] # "idle" => closed
  /\ pc[Closer] \notin {"idle", "join"} => pc[Bg] \in {"absent", "done"}
  /\ pc[Closer] \in {"drain", "export"} => \A k \in Done(Closer) : queue[k] = <<>>
  /\ pc[Closer] = "done" => /\ \A k \in Kinds : queue[k] = <<>>
                            /\ \A t \in Tasks : batch[t] = <<>>

IInv == TypeOK /\ LockInv /\ Accounting /\ NoLostWakeup /\ SettleInv /\ CloseInv

-----------------------------------------------------------------------------
(* The lock.                                                                 *)

LEMMA InitLock == Init => LockInv
BY ConstantsAssumption DEF Init, LockInv, Tasks

\* A task that moves outside the critical section, the lock left alone.
LEMMA LockQuiet ==
  ASSUME TypeOK, LockInv, NEW t \in Tasks, NEW p,
         pc[t] \notin {"drain", "export"}, p \notin {"drain", "export"},
         pc' = [pc EXCEPT ![t] = p], UNCHANGED <<lock, batch>>
  PROVE  LockInv'
<1>1. /\ pc'[t] = p
      /\ \A u \in Tasks \ {t} : pc'[u] = pc[u]
  BY DEF TypeOK, ControlOK
<1>2. \A u \in Tasks : pc'[u] \in {"drain", "export"} <=> pc[u] \in {"drain", "export"}
  BY <1>1
<1>3. \A u \in Tasks : pc'[u] = "export" <=> pc[u] = "export"
  BY <1>1
<1>4. holder' = holder /\ waiters' = waiters /\ woken' = woken /\ batch' = batch
  BY DEF lock
<1> QED
  BY <1>2, <1>3, <1>4 DEF LockInv

\* The task that holds the lock gives it up.
LEMMA LockRelease ==
  ASSUME TypeOK, LockInv, NEW t \in Tasks, NEW p,
         holder = t, p \notin {"drain", "export"},
         pc' = [pc EXCEPT ![t] = p], Release,
         batch' = batch \/ batch' = [batch EXCEPT ![t] = <<>>],
         pc[t] = "export" => batch'[t] = <<>>
  PROVE  LockInv'
<1>1. /\ pc'[t] = p
      /\ \A u \in Tasks \ {t} : pc'[u] = pc[u]
  BY DEF TypeOK, ControlOK
<1>2. \A u \in Tasks : pc'[u] \notin {"drain", "export"}
  BY <1>1 DEF LockInv
<1>3. holder' = NoTask /\ NoTask \notin Tasks
  BY ConstantsAssumption DEF Release, Tasks
<1>4. \A u \in Tasks : batch'[u] = <<>>
  <2>1. \A u \in Tasks \ {t} : pc[u] # "export" /\ batch[u] = <<>>
    BY DEF LockInv
  <2>2. \A u \in Tasks \ {t} : batch'[u] = batch[u]
    BY DEF TypeOK, ControlOK
  <2>3. batch'[t] = <<>>
    BY DEF LockInv, TypeOK, ControlOK
  <2> QED
    BY <2>1, <2>2, <2>3
<1>5. woken' # NoTask => woken' \in ToSet(waiters')
  BY WakeFirstType DEF Release, TypeOK, LockOK
<1> QED
  BY <1>2, <1>3, <1>4, <1>5 DEF LockInv

\* A task enters the critical section when nobody is in it or about to be.
LEMMA LockTake ==
  ASSUME TypeOK, LockInv, NEW t \in Tasks, holder = NoTask, holder' = t,
         woken' = NoTask, pc' = [pc EXCEPT ![t] = "drain"], batch' = batch
  PROVE  LockInv'
<1>1. NoTask \notin Tasks
  BY ConstantsAssumption DEF Tasks
<1>2. \A u \in Tasks : pc[u] \notin {"drain", "export"} /\ batch[u] = <<>>
  BY <1>1 DEF LockInv
<1>3. /\ pc'[t] = "drain"
      /\ \A u \in Tasks \ {t} : pc'[u] = pc[u]
  BY DEF TypeOK, ControlOK
<1> QED
  BY <1>2, <1>3 DEF LockInv

LEMMA NextLock == TypeOK /\ LockInv /\ [Next]_vars => LockInv'
<1> SUFFICES ASSUME TypeOK, LockInv, [Next]_vars PROVE LockInv'
  OBVIOUS
<1>1. Bg \in Tasks /\ Closer \in Tasks /\ Callers \subseteq Tasks /\ NoTask \notin Tasks
  BY ConstantsAssumption DEF Tasks
<1>2. UNCHANGED <<lock, pc, batch>> => LockInv'
  BY DEF LockInv, lock
<1>3. CASE Application
  <2>1. ASSUME NEW k \in UsedKinds, NEW n \in 1..SubmitMax, Submit(k, n)
        PROVE  LockInv'
    BY <1>2, <2>1 DEF Submit, control
  <2>2. ASSUME NEW k \in UsedKinds, SubmitAndWait(k) PROVE LockInv'
    BY <1>2, <2>2 DEF SubmitAndWait, control
  <2>3. CASE Aenter
    BY <1>1, <2>3, LockQuiet DEF Aenter
  <2>4. ASSUME NEW c \in Callers, CallFlush(c) PROVE LockInv'
    BY <1>1, <2>4, LockQuiet DEF CallFlush, BeginFlush, Goto, Resumable
  <2>5. ASSUME NEW t \in Callers \union {Closer}, CancelTask(t) PROVE LockInv'
    BY <1>2, <2>5 DEF CancelTask
  <2>6. CASE Aexit
    <3>1. CASE pc[Bg] \in {"absent", "done"}
      BY <1>1, <2>6, <3>1, LockQuiet DEF Aexit, BeginFlush, Goto, Resumable
    <3>2. CASE pc[Bg] \notin {"absent", "done"}
      BY <1>1, <2>6, <3>2, LockQuiet DEF Aexit, Suspend, Resumable
    <3> QED
      BY <3>1, <3>2
  <2> QED
    BY <1>3, <2>1, <2>2, <2>3, <2>4, <2>5, <2>6 DEF Application
<1>4. CASE BgStep
  <2>1. CASE BgStart
    BY <1>1, <2>1, LockQuiet DEF BgStart, Goto, Resumable
  <2>2. CASE BgTop
    <3>1. CASE wake
      BY <1>1, <2>2, <3>1, LockQuiet DEF BgTop, BeginBgFlush, BeginFlush, Goto
    <3>2. CASE ~wake
      BY <1>1, <2>2, <3>2, LockQuiet DEF BgTop, Suspend
    <3> QED
      BY <3>1, <3>2
  <2>3. CASE BgWakes
    BY <1>1, <2>3, LockQuiet DEF BgWakes, BeginBgFlush, BeginFlush, Goto, Resumable
  <2>4. CASE BgCancelled
    BY <1>1, <2>4, LockQuiet DEF BgCancelled, Suspend, Interrupted
  <2> QED
    BY <1>4, <2>1, <2>2, <2>3, <2>4 DEF BgStep
<1>5. CASE JoinReturns
  BY <1>1, <1>5, LockQuiet DEF JoinReturns, BeginFlush, Goto
<1>6. ASSUME NEW t \in Tasks, FlushStep(t) PROVE LockInv'
  <2>1. CASE Acquire(t)
    <3>1. CASE LockIsFree
      <4>1. woken = NoTask
        BY <3>1 DEF LockInv, LockIsFree
      <4> QED
        BY <2>1, <3>1, <4>1, LockTake DEF Acquire, Goto, LockIsFree
    <3>2. CASE ~LockIsFree
      <4>1. /\ waiters' = Append(waiters, t)
            /\ holder' = holder /\ woken' = woken /\ batch' = batch
            /\ pc' = [pc EXCEPT ![t] = "lock"] /\ pc[t] = "flush"
        BY <2>1, <3>2 DEF Acquire, Suspend
      <4>2. \A w \in ToSet(waiters) : w \in ToSet(waiters')
        <5>1. waiters \in Seq(Tasks) /\ waiters' \in Seq(Tasks)
              /\ Len(waiters') = Len(waiters) + 1 /\ Len(waiters) \in Nat
              /\ \A i \in 1..Len(waiters) : waiters'[i] = waiters[i]
          BY <4>1, AppendProperties, LenProperties DEF TypeOK, LockOK
        <5>2. \A i \in DOMAIN waiters : i \in DOMAIN waiters' /\ waiters'[i] = waiters[i]
          BY <5>1, LenProperties
        <5> QED
          BY <5>2 DEF ToSet
      <4>3. \A u \in Tasks : pc'[u] = IF u = t THEN "lock" ELSE pc[u]
        BY <4>1 DEF TypeOK, ControlOK
      <4> QED
        BY <4>1, <4>2, <4>3 DEF LockInv
    <3> QED
      BY <3>1, <3>2
  <2>2. CASE Granted(t)
    <3>1. holder = NoTask
      BY <1>1, <2>2 DEF Granted, LockInv
    <3> QED
      BY <2>2, <3>1, LockTake DEF Granted, Goto
  <2>3. CASE DrainNext(t)
    <3>1. PICK k \in at[t]..3 : batch' = [batch EXCEPT ![t] = queue[k]]
      BY <2>3 DEF DrainNext
    <3>2. pc[t] = "drain" /\ pc' = [pc EXCEPT ![t] = "export"]
          /\ holder' = holder /\ woken' = woken /\ waiters' = waiters
      BY <2>3 DEF DrainNext, Suspend, lock
    <3>3. \A u \in Tasks : /\ pc'[u] = IF u = t THEN "export" ELSE pc[u]
                           /\ u # t => batch'[u] = batch[u]
      BY <3>1, <3>2 DEF TypeOK, ControlOK
    <3> QED
      BY <3>2, <3>3 DEF LockInv
  <2>4. CASE LeaveFlush(t)
    <3>1. holder = t /\ batch' = batch /\ Release /\ pc[t] # "export"
      BY <2>4 DEF LeaveFlush, LockInv
    <3> DEFINE p == IF t = Bg THEN "loop"
                    ELSE IF t = Closer THEN "done" ELSE "idle"
    <3>2. pc' = [pc EXCEPT ![t] = p] /\ p \notin {"drain", "export"}
      BY <2>4 DEF LeaveFlush, ReturnFrom, Goto, Suspend
    <3> HIDE DEF p
    <3> QED
      BY <3>1, <3>2, LockRelease
  <2>5. CASE CancelledInLock(t)
    <3> DEFINE p == IF t = Bg THEN "done"
                    ELSE IF t = Closer THEN "aborted" ELSE "idle"
    <3>1. /\ pc' = [pc EXCEPT ![t] = p] /\ p \notin {"drain", "export"}
          /\ pc[t] = "lock" /\ holder' = holder /\ batch' = batch
      BY <2>5 DEF CancelledInLock, AbortFlush, Suspend, Interrupted
    <3> HIDE DEF p
    <3>2. waiters' \in Seq(Tasks)
      BY <2>5, LeaveWaitersType DEF CancelledInLock, TypeOK, LockOK
    <3>3. woken' # NoTask => holder' = NoTask /\ woken' \in ToSet(waiters')
      BY <2>5, <3>1, <3>2, WakeFirstType DEF CancelledInLock, LockInv
    <3>4. \A u \in Tasks : pc'[u] = IF u = t THEN p ELSE pc[u]
      BY <3>1 DEF TypeOK, ControlOK
    <3> QED
      BY <3>1, <3>3, <3>4 DEF LockInv
  <2>6. CASE NextKind(t)
    <3>1. /\ pc[t] = "export" /\ pc' = [pc EXCEPT ![t] = "drain"]
          /\ batch' = [batch EXCEPT ![t] = <<>>]
          /\ holder' = holder /\ woken' = woken /\ waiters' = waiters
      BY <2>6 DEF NextKind, Goto, Resumable, lock
    <3>2. \A u \in Tasks : /\ pc'[u] = IF u = t THEN "drain" ELSE pc[u]
                           /\ batch'[u] = IF u = t THEN <<>> ELSE batch[u]
      BY <3>1 DEF TypeOK, ControlOK
    <3> QED
      BY <3>1, <3>2 DEF LockInv
  <2>7. CASE CancelledInExport(t)
    <3>1. /\ holder = t /\ Release
          /\ batch' = [batch EXCEPT ![t] = <<>>] /\ batch'[t] = <<>>
      BY <2>7 DEF CancelledInExport, Interrupted, LockInv, TypeOK, ControlOK
    <3> DEFINE p == IF t = Bg THEN "done"
                    ELSE IF t = Closer THEN "aborted" ELSE "idle"
    <3>2. pc' = [pc EXCEPT ![t] = p] /\ p \notin {"drain", "export"}
      BY <2>7 DEF CancelledInExport, AbortFlush, Suspend
    <3> HIDE DEF p
    <3> QED
      BY <3>1, <3>2, LockRelease
  <2> QED
    BY <1>6, <2>1, <2>2, <2>3, <2>4, <2>5, <2>6, <2>7
    DEF FlushStep, ExportEnds, ExportSucceeds, ExportPartial, ExportFails
<1>7. CASE UNCHANGED vars
  BY <1>2, <1>7 DEF vars, control
<1> QED
  BY <1>3, <1>4, <1>5, <1>6, <1>7 DEF Next

LEMMA LockCorrect == Spec => [](TypeOK /\ LockInv)
BY InitTypeOK, NextTypeOK, InitLock, NextLock, PTL DEF Spec

\* However many tasks flush, no two drain or export at the same time.
THEOREM MutualExclusion == Spec => []OneFlushAtATime
<1>1. TypeOK /\ LockInv => OneFlushAtATime
  BY DEF LockInv, OneFlushAtATime
<1> QED
  BY <1>1, LockCorrect, PTL

-----------------------------------------------------------------------------
(* The accounts.                                                             *)

LEMMA InitAccounting == Init => Accounting
<1> SUFFICES ASSUME Init PROVE Accounting
  OBVIOUS
<1>1. queue[1] = <<>> /\ queue[2] = <<>> /\ queue[3] = <<>>
  BY DEF Init, Kinds
<1>2. InFlight = 0
  BY DEF Init, InFlight
<1>3. Backlog = 0
  BY <1>1, EmptySeq DEF Backlog
<1>4. submitted = 0 /\ exported = 0 /\ refused = 0 /\ dropped = 0
  BY DEF Init
<1> QED
  BY <1>2, <1>3, <1>4 DEF Accounting

\* The terms of the accounts are numbers.
LEMMA AccountsType ==
  ASSUME TypeOK
  PROVE  /\ submitted \in Nat /\ exported \in Nat /\ refused \in Nat /\ dropped \in Nat
         /\ InFlight \in Nat /\ Backlog \in Nat
<1>1. \A k \in Kinds : Len(queue[k]) \in Nat
  BY LenProperties DEF TypeOK, StoreOK
<1>2. \A t \in Tasks : Len(batch[t]) \in Nat
  BY LenProperties DEF TypeOK, ControlOK
<1>3. submitted \in Nat /\ exported \in Nat /\ refused \in Nat /\ dropped \in Nat
  BY DEF TypeOK, StoreOK, HistoryOK
<1>4. InFlight \in Nat
  BY <1>2 DEF InFlight, TypeOK, LockOK
<1>5. Backlog \in Nat
  <2> DEFINE a == Len(queue[1])
             b == Len(queue[2])
             c == Len(queue[3])
  <2>1. a \in Nat /\ b \in Nat /\ c \in Nat
    BY <1>1 DEF Kinds
  <2>2. Backlog = a + b + c
    BY DEF Backlog
  <2> HIDE DEF a, b, c
  <2> QED
    BY <2>1, <2>2
<1> QED
  BY <1>3, <1>4, <1>5

\* Replacing one queue changes the backlog by the difference of the lengths.
LEMMA BacklogStep ==
  ASSUME TypeOK, NEW k \in Kinds, NEW s \in Seq(Nat),
         queue' = [queue EXCEPT ![k] = s]
  PROVE  /\ Len(queue[k]) \in Nat /\ Len(s) \in Nat /\ Backlog' \in Nat
         /\ Backlog' + Len(queue[k]) = Backlog + Len(s)
<1> DEFINE a == Len(queue[1])
           b == Len(queue[2])
           c == Len(queue[3])
           a1 == Len(queue'[1])
           b1 == Len(queue'[2])
           c1 == Len(queue'[3])
           n == Len(s)
           m == Len(queue[k])
<1>1. \A j \in Kinds : Len(queue[j]) \in Nat
  BY LenProperties DEF TypeOK, StoreOK
<1>2. a \in Nat /\ b \in Nat /\ c \in Nat /\ m \in Nat
  BY <1>1 DEF Kinds
<1>3. n \in Nat
  BY LenProperties
<1>4. Backlog = a + b + c /\ Backlog' = a1 + b1 + c1
  BY DEF Backlog
<1>5. \A j \in Kinds : queue'[j] = IF j = k THEN s ELSE queue[j]
  BY DEF TypeOK, StoreOK
<1>6. \/ k = 1 /\ m = a /\ a1 = n /\ b1 = b /\ c1 = c
      \/ k = 2 /\ m = b /\ a1 = a /\ b1 = n /\ c1 = c
      \/ k = 3 /\ m = c /\ a1 = a /\ b1 = b /\ c1 = n
  <2>1. CASE k = 1
    BY <1>5, <2>1 DEF Kinds
  <2>2. CASE k = 2
    BY <1>5, <2>2 DEF Kinds
  <2>3. CASE k = 3
    BY <1>5, <2>3 DEF Kinds
  <2> QED
    BY <2>1, <2>2, <2>3 DEF Kinds
<1> HIDE DEF a, b, c, a1, b1, c1, n, m
<1>7. Backlog' \in Nat /\ Backlog' + m = Backlog + n
  <2>1. CASE k = 1 /\ m = a /\ a1 = n /\ b1 = b /\ c1 = c
    BY <1>2, <1>3, <1>4, <2>1
  <2>2. CASE k = 2 /\ m = b /\ a1 = a /\ b1 = n /\ c1 = c
    BY <1>2, <1>3, <1>4, <2>2
  <2>3. CASE k = 3 /\ m = c /\ a1 = a /\ b1 = b /\ c1 = n
    BY <1>2, <1>3, <1>4, <2>3
  <2> QED
    BY <1>6, <2>1, <2>2, <2>3
<1> QED
  BY <1>2, <1>3, <1>7 DEF m, n

\* Submitting n records: those evicted and those waiting add up.
LEMMA EnqueueAccounting ==
  ASSUME TypeOK, Accounting, NEW k \in Kinds, NEW n \in Nat, Enqueue(k, n),
         UNCHANGED <<exported, refused, holder, batch>>
  PROVE  Accounting'
<1> DEFINE q == queue[k]
           all == Appended(q, submitted, n)
           over == Monus(Len(all), MaxQueue)
           new == Newest(all, MaxQueue)
           old == Len(q)
           len == Len(new)
<1>1. q \in Seq(Nat) /\ submitted \in Nat /\ MaxQueue \in Nat
  BY ConstantsAssumption DEF TypeOK, StoreOK
<1>2. /\ queue' = [queue EXCEPT ![k] = new]
      /\ submitted' = submitted + n
      /\ dropped' = dropped + over
  BY DEF Enqueue, Lose
<1> HIDE DEF q
<1>3. all \in Seq(Nat) /\ Len(all) = Len(q) + n /\ Len(q) \in Nat
  BY <1>1, AppendedProperties, LenProperties
<1> HIDE DEF all
<1>4. over \in Nat /\ new \in Seq(Nat) /\ Len(new) + over = Len(q) + n
  <2>1. new \in Seq(Nat) /\ Len(new) = IF Len(all) > MaxQueue THEN MaxQueue ELSE Len(all)
    BY <1>1, <1>3, NewestProperties
  <2> HIDE DEF new
  <2> QED
    BY <1>1, <1>3, <2>1 DEF Monus
<1> HIDE DEF over, new
<1>5. Len(q) \in Nat /\ len \in Nat /\ Backlog' \in Nat /\ Backlog' + Len(q) = Backlog + len
  BY <1>2, <1>4, BacklogStep DEF q
<1>6. old \in Nat /\ Backlog' + old = Backlog + len /\ len + over = old + n
  BY <1>4, <1>5
<1> HIDE DEF old, len
<1>7. /\ exported' = exported /\ refused' = refused /\ InFlight' = InFlight
      /\ submitted' = submitted + n /\ dropped' = dropped + over
  BY <1>2 DEF InFlight
<1>8. len \in Nat /\ over \in Nat /\ Backlog' \in Nat
  BY <1>4, <1>5
<1> QED
  BY <1>6, <1>7, <1>8, AccountsType DEF Accounting

\* One step of flush() moves records from one account to another.
LEMMA FlushAccounting ==
  ASSUME TypeOK, LockInv, Accounting, NEW t \in Tasks, FlushStep(t)
  PROVE  Accounting'
<1>1. NoTask \notin Tasks /\ Len(<<>>) = 0
  BY ConstantsAssumption, EmptySeq DEF Tasks
<1>2. UNCHANGED <<queue, submitted, exported, dropped, refused>> /\ InFlight' = InFlight
      => Accounting'
  BY DEF Accounting, Backlog
<1>3. CASE Acquire(t) \/ Granted(t)
  <2>1. batch' = batch /\ batch[t] = <<>>
    BY <1>3 DEF Acquire, Granted, Resumable, LockInv
  <2>2. holder' = holder \/ (holder = NoTask /\ holder' = t)
    <3>1. CASE Acquire(t)
      BY <3>1 DEF Acquire, LockIsFree
    <3>2. CASE Granted(t)
      BY <1>1, <3>2 DEF Granted, LockInv
    <3> QED
      BY <1>3, <3>1, <3>2
  <2>3. InFlight' = InFlight
    BY <1>1, <2>1, <2>2 DEF InFlight
  <2> QED
    BY <1>2, <1>3, <2>3 DEF Acquire, Granted, counters, history, losses
<1>4. CASE LeaveFlush(t)
  <2>1. holder = t /\ batch[t] = <<>> /\ holder' = NoTask
    BY <1>4 DEF LeaveFlush, LockInv, Release
  <2>2. InFlight' = InFlight
    BY <1>1, <2>1 DEF InFlight
  <2> QED
    BY <1>2, <1>4, <2>2 DEF LeaveFlush, counters, losses
<1>5. CASE CancelledInLock(t)
  <2>1. InFlight' = InFlight
    BY <1>5 DEF CancelledInLock, InFlight
  <2> QED
    BY <1>2, <1>5, <2>1 DEF CancelledInLock, counters, losses
<1>6. CASE DrainNext(t)
  <2>1. PICK k \in at[t]..3 : /\ batch' = [batch EXCEPT ![t] = queue[k]]
                              /\ queue' = [queue EXCEPT ![k] = <<>>]
    BY <1>6 DEF DrainNext
  <2>2. k \in Kinds
    <3>1. at[t] \in 1..4
      BY DEF TypeOK, ControlOK
    <3> QED
      BY <2>1, <3>1 DEF Kinds
  <2>3. holder = t /\ holder' = t /\ pc[t] = "drain"
    BY <1>6 DEF DrainNext, LockInv, lock
  <2>4. batch[t] = <<>> /\ batch'[t] = queue[k]
    BY <2>1, <2>3 DEF LockInv, TypeOK, ControlOK
  <2> DEFINE sent == Len(queue[k])
  <2>5. InFlight = 0 /\ InFlight' = sent
    BY <1>1, <2>3, <2>4 DEF InFlight
  <2>6. sent \in Nat /\ Backlog' \in Nat /\ Backlog' + sent = Backlog + 0
    BY <1>1, <2>1, <2>2, BacklogStep, EmptySeq
  <2>7. /\ submitted' = submitted /\ exported' = exported
        /\ dropped' = dropped /\ refused' = refused
    BY <1>6 DEF DrainNext, counters, history, losses
  <2> HIDE DEF sent
  <2> QED
    BY <2>5, <2>6, <2>7, AccountsType DEF Accounting
<1>7. CASE ExportEnds(t)
  <2> USE DEF ExportEnds, ExportSucceeds, ExportPartial, ExportFails,
              CancelledInExport
  <2>1. pc[t] = "export" /\ holder = t
    BY <1>7 DEF NextKind, Resumable, Interrupted, LockInv
  <2> DEFINE sent == Len(batch[t])
  <2>2. InFlight = sent /\ sent \in Nat
    BY <1>1, <2>1, LenProperties DEF InFlight, TypeOK, ControlOK
  <2>3. batch'[t] = <<>>
    BY <1>7 DEF NextKind, TypeOK, ControlOK
  <2>4. holder' = NoTask \/ holder' = t
    BY <1>7, <2>1 DEF NextKind, Release, lock
  <2>5. InFlight' = 0
    BY <1>1, <2>3, <2>4 DEF InFlight
  <2>6. submitted' = submitted /\ Backlog' = Backlog
    BY <1>7 DEF NextKind, Backlog
  <2>7. CASE ExportSucceeds(t)
    <3>1. exported' = exported + sent /\ refused' = refused /\ dropped' = dropped
      BY <2>7
    <3> HIDE DEF sent
    <3> QED
      BY <2>2, <2>5, <2>6, <3>1, AccountsType DEF Accounting
  <2>8. ASSUME NEW r \in 0..MaxRejected, ExportPartial(t, r) PROVE Accounting'
    <3> DEFINE accepted == Monus(sent, r)
    <3>1. /\ exported' = exported + accepted
          /\ refused' = refused + (sent - accepted)
          /\ dropped' = dropped
      BY <2>8
    <3> HIDE DEF sent
    <3>2. r \in Nat
      BY ConstantsAssumption
    <3>3. accepted \in Nat
      BY <2>2, <3>2 DEF Monus
    <3> HIDE DEF accepted
    <3> QED
      BY <2>2, <2>5, <2>6, <3>1, <3>3, AccountsType DEF Accounting
  <2>9. CASE ExportFails(t) \/ CancelledInExport(t)
    <3>1. exported' = exported /\ refused' = refused /\ dropped' = dropped + sent
      BY <2>9 DEF Lose
    <3> HIDE DEF sent
    <3> QED
      BY <2>2, <2>5, <2>6, <3>1, AccountsType DEF Accounting
  <2> QED
    BY <1>7, <2>7, <2>8, <2>9
<1> QED
  BY <1>3, <1>4, <1>5, <1>6, <1>7 DEF FlushStep

LEMMA NextAccounting ==
  TypeOK /\ LockInv /\ Accounting /\ [Next]_vars => Accounting'
<1> SUFFICES ASSUME TypeOK, LockInv, Accounting, [Next]_vars PROVE Accounting'
  OBVIOUS
<1>1. UNCHANGED <<queue, counters, holder, batch, refused>> => Accounting'
  BY DEF Accounting, InFlight, Backlog, counters
<1>2. CASE Application
  <2>1. ASSUME NEW k \in UsedKinds, NEW n \in 1..SubmitMax, Submit(k, n)
        PROVE  Accounting'
    <3>1. k \in Kinds /\ n \in Nat
      BY ConstantsAssumption DEF Kinds
    <3> QED
      BY <2>1, <3>1, EnqueueAccounting DEF Submit, lock, control
  <2>2. ASSUME NEW k \in UsedKinds, SubmitAndWait(k) PROVE Accounting'
    <3>1. k \in Kinds /\ 1 \in Nat
      BY ConstantsAssumption DEF Kinds
    <3> QED
      BY <2>2, <3>1, EnqueueAccounting DEF SubmitAndWait, lock, control
  <2>3. CASE Aenter \/ Aexit
    BY <1>1, <2>3 DEF Aenter, Aexit, lock, history, losses
  <2>4. ASSUME NEW c \in Callers, CallFlush(c) PROVE Accounting'
    BY <1>1, <2>4 DEF CallFlush, lock, losses
  <2>5. ASSUME NEW t \in Callers \union {Closer}, CancelTask(t) PROVE Accounting'
    BY <1>1, <2>5 DEF CancelTask, lock, history, losses
  <2> QED
    BY <1>2, <2>1, <2>2, <2>3, <2>4, <2>5 DEF Application
<1>3. CASE BgStep \/ JoinReturns
  BY <1>1, <1>3 DEF BgStep, BgStart, BgTop, BgWakes, BgCancelled, JoinReturns,
                    lock, history, losses
<1>4. CASE UNCHANGED vars
  BY <1>1, <1>4 DEF vars, lock, control, history, losses
<1> QED
  BY <1>2, <1>3, <1>4, FlushAccounting DEF Next

\* No record is created, duplicated or forgotten by any interleaving of
\* submissions, flushes, failures, cancellations and a shutdown.
THEOREM AccountsBalance == Spec => []Accounting
<1>1. Init => TypeOK /\ LockInv /\ Accounting
  BY InitTypeOK, InitLock, InitAccounting
<1>2. TypeOK /\ LockInv /\ Accounting /\ [Next]_vars
      => (TypeOK /\ LockInv /\ Accounting)'
  BY NextTypeOK, NextLock, NextAccounting
<1> QED
  BY <1>1, <1>2, PTL DEF Spec
=============================================================================
