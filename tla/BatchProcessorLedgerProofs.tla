---------------------- MODULE BatchProcessorLedgerProofs ----------------------
(* The fate of every single record: each is lost at most once and never while *)
(* it waits or is sent, and the processor implements DeliveryLedger.          *)
EXTENDS BatchProcessorProofs

-----------------------------------------------------------------------------
(* Records in a queue.                                                       *)

\* Evicting the oldest n records evicts n.
LEMMA OldestCount ==
  ASSUME NEW S, NEW s \in Seq(S), Distinct(s), NEW n \in 0..Len(s)
  PROVE  IsFiniteSet(Oldest(s, n)) /\ Cardinality(Oldest(s, n)) = n
BY PrefixCount DEF Oldest

\* Records that are not counted as lost yet add up with those that are.
LEMMA LostCount ==
  ASSUME NEW S, NEW T, IsFiniteSet(S), IsFiniteSet(T), S \intersect T = {}
  PROVE  IsFiniteSet(S \union T) /\ Cardinality(S \union T) = Cardinality(S) + Cardinality(T)
<1>1. /\ IsFiniteSet(S \union T)
      /\ Cardinality(S \union T)
         = Cardinality(S) + Cardinality(T) - Cardinality(S \intersect T)
  BY FS_Union
<1>2. Cardinality(S \intersect T) = 0
  BY FS_EmptySet
<1>3. Cardinality(S) \in Nat /\ Cardinality(T) \in Nat
  BY FS_CardinalityType
<1> QED
  BY <1>1, <1>2, <1>3

\* The records a submission appends have numbers no other record has.
LEMMA AppendedDistinct ==
  ASSUME NEW q \in Seq(Nat), Distinct(q), NEW from \in Nat, NEW n \in Nat,
         ToSet(q) \subseteq 1..from
  PROVE  /\ Appended(q, from, n) \in Seq(Nat)
         /\ Len(Appended(q, from, n)) = Len(q) + n
         /\ Distinct(Appended(q, from, n))
         /\ ToSet(Appended(q, from, n)) = ToSet(q) \union (from + 1)..(from + n)
<1> DEFINE new == [i \in 1..n |-> from + i]
           all == Appended(q, from, n)
<1>1. new \in Seq(Nat) /\ Len(new) = n
  <2>1. new \in [1..n -> Nat]
    OBVIOUS
  <2>2. new \in Seq(Nat)
    BY <2>1, SeqDef
  <2> QED
    BY <2>1, <2>2, LenProperties
<1>2. \A j \in 1..n : new[j] = from + j
  OBVIOUS
<1> HIDE DEF new
<1>3. /\ all \in Seq(Nat)
      /\ Len(all) = Len(q) + n
      /\ \A i \in 1..(Len(q) + n) :
           all[i] = IF i <= Len(q) THEN q[i] ELSE new[i - Len(q)]
  BY <1>1, ConcatProperties DEF Appended, new
<1> HIDE DEF all
<1> DEFINE m == Len(q)
<1>4. m \in Nat /\ ToSet(q) = {q[i] : i \in 1..m} /\ ToSet(all) = {all[i] : i \in 1..(m + n)}
  BY <1>3, ToSetIsImage, LenProperties
<1>5. \A i \in 1..m : all[i] = q[i] /\ q[i] \in 1..from
  BY <1>3, <1>4
<1>6. \A i \in (m + 1)..(m + n) : all[i] = from + (i - m)
  <2> SUFFICES ASSUME NEW i \in (m + 1)..(m + n) PROVE all[i] = from + (i - m)
    OBVIOUS
  <2>1. i \in 1..(m + n) /\ ~(i <= m) /\ i - m \in 1..n
    BY <1>4
  <2> QED
    BY <1>2, <1>3, <2>1
<1>7. \A i, j \in 1..m : q[i] = q[j] => i = j
  BY DEF Distinct
<1>8. \A i, j \in 1..(m + n) : all[i] = all[j] => i = j
  <2> HIDE DEF m
  <2> SUFFICES ASSUME NEW i \in 1..(m + n), NEW j \in 1..(m + n), all[i] = all[j]
               PROVE  i = j
    OBVIOUS
  <2>1. CASE i \in 1..m /\ j \in 1..m
    BY <1>5, <1>7, <2>1
  <2>2. CASE i \in 1..m /\ j \in (m + 1)..(m + n)
    BY <1>4, <1>5, <1>6, <2>2
  <2>3. CASE i \in (m + 1)..(m + n) /\ j \in 1..m
    BY <1>4, <1>5, <1>6, <2>3
  <2>4. CASE i \in (m + 1)..(m + n) /\ j \in (m + 1)..(m + n)
    BY <1>4, <1>6, <2>4
  <2> QED
    BY <1>4, <2>1, <2>2, <2>3, <2>4
<1>9. Distinct(all)
  BY <1>3, <1>8 DEF Distinct
<1>10. ToSet(all) \subseteq ToSet(q) \union (from + 1)..(from + n)
  <2> SUFFICES ASSUME NEW i \in 1..(m + n)
               PROVE  all[i] \in ToSet(q) \union (from + 1)..(from + n)
    BY <1>4
  <2>1. CASE i \in 1..m
    BY <1>4, <1>5, <2>1
  <2>2. CASE i \in (m + 1)..(m + n)
    BY <1>4, <1>6, <2>2
  <2> QED
    BY <1>4, <2>1, <2>2
<1>11. ToSet(q) \subseteq ToSet(all)
  <2> SUFFICES ASSUME NEW i \in 1..m PROVE q[i] \in ToSet(all)
    BY <1>4
  <2>1. i \in 1..(m + n)
    BY <1>4
  <2> QED
    BY <1>4, <1>5, <2>1
<1>12. (from + 1)..(from + n) \subseteq ToSet(all)
  <2> SUFFICES ASSUME NEW x \in (from + 1)..(from + n) PROVE x \in ToSet(all)
    OBVIOUS
  <2> DEFINE i == m + (x - from)
  <2>1. i \in (m + 1)..(m + n) /\ i \in 1..(m + n) /\ x = from + (i - m)
    BY <1>4
  <2>2. all[i] = x
    BY <1>6, <2>1
  <2> QED
    BY <1>4, <2>1, <2>2
<1> QED
  BY <1>3, <1>9, <1>10, <1>11, <1>12 DEF all

\* A bounded deque keeps the newest: they and the evicted ones are all.
LEMMA NewestDistinct ==
  ASSUME NEW s \in Seq(Nat), Distinct(s), NEW m \in Nat
  PROVE  /\ Newest(s, m) \in Seq(Nat)
         /\ Distinct(Newest(s, m))
         /\ Monus(Len(s), m) \in 0..Len(s)
         /\ ToSet(Newest(s, m)) \union Oldest(s, Monus(Len(s), m)) = ToSet(s)
         /\ ToSet(Newest(s, m)) \intersect Oldest(s, Monus(Len(s), m)) = {}
<1> DEFINE l == Len(s)
           over == Monus(l, m)
           u == Newest(s, m)
<1>1. l \in Nat /\ ToSet(s) = {s[i] : i \in 1..l} /\ \A i \in 1..l : s[i] \in Nat
  BY ToSetIsImage, LenProperties, ElementOfSeq
<1>2. over \in 0..l /\ over = (IF l > m THEN l - m ELSE 0)
  BY <1>1 DEF Monus
<1>3. u \in Seq(Nat) /\ Len(u) = l - over /\ \A i \in 1..(l - over) : u[i] = s[over + i]
  <2>1. CASE l > m
    <3>1. over + 1 \in Int /\ l \in Int /\ \A i \in (over + 1)..l : s[i] \in Nat
      BY <1>1, <1>2
    <3>2. over + 1 = l - m + 1 /\ u = SubSeq(s, over + 1, l)
      BY <1>1, <1>2, <2>1 DEF Newest
    <3> HIDE DEF u, over, l
    <3>3. /\ u \in Seq(Nat)
          /\ Len(u) = IF over + 1 <= l THEN l - (over + 1) + 1 ELSE 0
          /\ \A i \in 1..(l - (over + 1) + 1) : u[i] = s[(over + 1) + i - 1]
      BY <3>1, <3>2, SubSeqProperties
    <3>4. l - (over + 1) + 1 = l - over /\ \A i \in 1..(l - over) : (over + 1) + i - 1 = over + i
      BY <1>1, <1>2
    <3>5. over + 1 <= l \/ l - over = 0
      BY <1>1, <1>2
    <3> QED
      BY <1>1, <1>2, <3>3, <3>4, <3>5
  <2>2. CASE ~(l > m)
    <3>1. u = s /\ over = 0
      BY <1>2, <2>2 DEF Newest
    <3> QED
      BY <1>1, <3>1
  <2> QED
    BY <2>1, <2>2
<1> HIDE DEF u, over
<1>4. \A i, j \in 1..l : s[i] = s[j] => i = j
  BY DEF Distinct
<1>5. ToSet(u) = {s[i] : i \in (over + 1)..l}
  <2>1. ToSet(u) = {u[i] : i \in 1..(l - over)}
    BY <1>3, ToSetIsImage
  <2>2. \A i \in 1..(l - over) : over + i \in (over + 1)..l
    BY <1>1, <1>2
  <2>3. \A i \in (over + 1)..l : i - over \in 1..(l - over) /\ over + (i - over) = i
    BY <1>1, <1>2
  <2>4. ToSet(u) \subseteq {s[i] : i \in (over + 1)..l}
    BY <1>3, <2>1, <2>2
  <2>5. {s[i] : i \in (over + 1)..l} \subseteq ToSet(u)
    <3> SUFFICES ASSUME NEW i \in (over + 1)..l PROVE s[i] \in ToSet(u)
      OBVIOUS
    <3>1. u[i - over] = s[i]
      BY <1>3, <2>3
    <3> QED
      BY <2>1, <2>3, <3>1
  <2> QED
    BY <2>4, <2>5
<1>6. Distinct(u)
  <2> SUFFICES ASSUME NEW i \in 1..(l - over), NEW j \in 1..(l - over), u[i] = u[j]
               PROVE  i = j
    BY <1>3 DEF Distinct
  <2> HIDE DEF l
  <2>1. over + i \in 1..l /\ over + j \in 1..l
    BY <1>1, <1>2
  <2>2. u[i] = s[over + i] /\ u[j] = s[over + j]
    BY <1>3
  <2>3. over + i = over + j
    BY <1>4, <2>1, <2>2
  <2> QED
    BY <1>2, <2>3
<1>7. ToSet(u) \union Oldest(s, over) = ToSet(s)
  <2>1. \A i \in 1..l : i \in 1..over \/ i \in (over + 1)..l
    BY <1>1, <1>2
  <2>2. \A i \in 1..over : i \in 1..l
    BY <1>1, <1>2
  <2>3. \A i \in (over + 1)..l : i \in 1..l
    BY <1>1, <1>2
  <2> QED
    BY <1>1, <1>5, <2>1, <2>2, <2>3 DEF Oldest
<1>8. ToSet(u) \intersect Oldest(s, over) = {}
  <2> SUFFICES ASSUME NEW i \in (over + 1)..l, NEW j \in 1..over, s[i] = s[j]
               PROVE  FALSE
    BY <1>5 DEF Oldest
  <2>1. i \in 1..l /\ j \in 1..l /\ i # j
    BY <1>1, <1>2, SMTT(30)
  <2> QED
    BY <1>4, <2>1
<1> QED
  BY <1>2, <1>3, <1>6, <1>7, <1>8 DEF u, over

-----------------------------------------------------------------------------
(* The inductive invariant.                                                  *)

\* A record is in one place at most: once in one queue, once in the batch under
\* way, or in `lost`; and its number was given out.
RecordsInv ==
  /\ submitted <= MaxRecords
  /\ \A k \in Kinds : Distinct(queue[k])
  /\ \A t \in Tasks : Distinct(batch[t])
  /\ \A j, k \in Kinds : j # k => ToSet(queue[j]) \intersect ToSet(queue[k]) = {}
  /\ Queued \intersect Sending = {}
  /\ lost \intersect (Queued \union Sending) = {}
  /\ Queued \union Sending \union lost \subseteq 1..submitted
  /\ IsFiniteSet(lost) /\ dropped = Cardinality(lost)

LEMMA EmptyRecords == ToSet(<<>>) = {} /\ Distinct(<<>>)
<1>1. Len(<<>>) = 0
  BY EmptySeq
<1> QED
  BY <1>1 DEF ToSet, Distinct

LEMMA InitRecords == Init => RecordsInv
<1> SUFFICES ASSUME Init PROVE RecordsInv
  OBVIOUS
<1>1. /\ \A k \in Kinds : queue[k] = <<>>
      /\ \A t \in Tasks : batch[t] = <<>>
      /\ lost = {} /\ dropped = 0 /\ submitted = 0
  BY DEF Init
<1>2. Queued = {} /\ Sending = {}
  BY <1>1, EmptyRecords DEF Queued, Sending
<1>3. MaxRecords \in Nat
  BY ConstantsAssumption
<1> QED
  BY <1>1, <1>2, <1>3, EmptyRecords, FS_EmptySet DEF RecordsInv

\* The queues and batches of a typed state, and what is in them.
LEMMA RecordsType ==
  ASSUME TypeOK
  PROVE  /\ \A k \in Kinds : queue[k] \in Seq(Nat) /\ ToSet(queue[k]) \subseteq Queued
         /\ \A t \in Tasks : batch[t] \in Seq(Nat) /\ ToSet(batch[t]) \subseteq Sending
BY DEF TypeOK, StoreOK, ControlOK, Queued, Sending

\* What a submission does to the records: the new ones and those of one queue
\* are kept or evicted, and counted accordingly.
LEMMA EnqueueRecords ==
  ASSUME TypeOK, RecordsInv, NEW k \in Kinds, NEW n \in Nat,
         submitted + n <= MaxRecords, Enqueue(k, n), batch' = batch
  PROVE  \E evicted \in SUBSET (ToSet(queue[k]) \union (submitted + 1)..(submitted + n)) :
           /\ Queued' = (Queued \union (submitted + 1)..(submitted + n)) \ evicted
           /\ Sending' = Sending
           /\ lost' = lost \union evicted
           /\ RecordsInv'
<1> DEFINE q == queue[k]
           all == Appended(q, submitted, n)
           over == Monus(Len(all), MaxQueue)
           new == (submitted + 1)..(submitted + n)
           kept == Newest(all, MaxQueue)
           evicted == Oldest(all, over)
<1>1. /\ q \in Seq(Nat) /\ Distinct(q) /\ submitted \in Nat /\ MaxQueue \in Nat
      /\ ToSet(q) \subseteq 1..submitted /\ MaxRecords \in Nat /\ dropped \in Nat
  BY ConstantsAssumption, RecordsType DEF RecordsInv, TypeOK, StoreOK
<1>2. /\ queue' = [queue EXCEPT ![k] = kept]
      /\ submitted' = submitted + n
      /\ dropped' = dropped + over
      /\ lost' = lost \union evicted
  BY DEF Enqueue, Lose
<1>3. /\ all \in Seq(Nat) /\ Distinct(all)
      /\ ToSet(all) = ToSet(q) \union new
  BY <1>1, AppendedDistinct
<1> HIDE DEF all
<1>4. /\ Distinct(kept)
      /\ over \in 0..Len(all)
      /\ ToSet(kept) \union evicted = ToSet(all)
      /\ ToSet(kept) \intersect evicted = {}
  BY <1>1, <1>3, NewestDistinct
<1>5. IsFiniteSet(evicted) /\ Cardinality(evicted) = over
  BY <1>3, <1>4, OldestCount
<1> HIDE DEF kept, over, evicted, q
<1>6. \A j \in Kinds : queue'[j] = IF j = k THEN kept ELSE queue[j]
  BY <1>2 DEF TypeOK, StoreOK
<1>7. Queued \intersect new = {} /\ Sending \intersect new = {} /\ lost \intersect new = {}
  BY <1>1 DEF RecordsInv
<1>8. \A j \in Kinds : j # k => ToSet(queue[j]) \intersect ToSet(q) = {}
                             /\ ToSet(queue[j]) \subseteq Queued
  BY RecordsType DEF RecordsInv, q
<1>9. ToSet(q) \subseteq Queued
  BY RecordsType DEF q
<1>10. Queued' = (Queued \union new) \ evicted
  <2>1. Queued' \subseteq (Queued \union new) \ evicted
    <3> SUFFICES ASSUME NEW j \in Kinds, NEW x \in ToSet(queue'[j])
                 PROVE  x \in (Queued \union new) \ evicted
      BY DEF Queued
    <3>1. CASE j = k
      BY <1>3, <1>4, <1>6, <1>9, <3>1
    <3>2. CASE j # k
      BY <1>3, <1>4, <1>6, <1>7, <1>8, <3>2
    <3> QED
      BY <3>1, <3>2
  <2>2. (Queued \union new) \ evicted \subseteq Queued'
    <3> SUFFICES ASSUME NEW x \in (Queued \union new) \ evicted PROVE x \in Queued'
      OBVIOUS
    <3>1. CASE x \in ToSet(q) \union new
      <4>1. x \in ToSet(queue'[k])
        BY <1>3, <1>4, <1>6, <3>1
      <4> QED
        BY <4>1 DEF Queued
    <3>2. CASE x \notin ToSet(q) \union new
      <4>1. PICK j \in Kinds : x \in ToSet(queue[j])
        BY <3>2 DEF Queued
      <4>2. j # k
        BY <3>2, <4>1 DEF q
      <4> QED
        BY <1>6, <4>1, <4>2 DEF Queued
    <3> QED
      BY <3>1, <3>2
  <2> QED
    BY <2>1, <2>2
<1>11. Sending' = Sending
  BY DEF Sending
<1>12. lost \intersect evicted = {} /\ Sending \intersect evicted = {}
  BY <1>3, <1>4, <1>7, <1>9 DEF RecordsInv
<1>13. IsFiniteSet(lost') /\ dropped' = Cardinality(lost')
  BY <1>2, <1>5, <1>12, LostCount DEF RecordsInv
<1>14. \A i, j \in Kinds : i # j => ToSet(queue'[i]) \intersect ToSet(queue'[j]) = {}
  <2>1. \A j \in Kinds : j # k => ToSet(queue[j]) \intersect ToSet(kept) = {}
    BY <1>3, <1>4, <1>7, <1>8
  <2> QED
    BY <1>6, <2>1 DEF RecordsInv
<1>15. Queued' \union Sending' \union lost' \subseteq 1..submitted'
  <2>1. 1..submitted \subseteq 1..(submitted + n) /\ new \subseteq 1..(submitted + n)
    BY <1>1
  <2>2. evicted \subseteq 1..(submitted + n)
    BY <1>1, <1>3, <1>4, <2>1
  <2> QED
    BY <1>2, <1>10, <1>11, <2>1, <2>2 DEF RecordsInv
<1>16. RecordsInv'
  <2>1. Queued' \intersect Sending' = {}
    BY <1>7, <1>10, <1>11 DEF RecordsInv
  <2>2. lost' \intersect (Queued' \union Sending') = {}
    BY <1>2, <1>7, <1>10, <1>11, <1>12 DEF RecordsInv
  <2>3. \A j \in Kinds : Distinct(queue'[j])
    BY <1>4, <1>6 DEF RecordsInv
  <2> QED
    BY <1>2, <1>13, <1>14, <1>15, <2>1, <2>2, <2>3 DEF RecordsInv
<1>17. evicted \in SUBSET (ToSet(queue[k]) \union new)
  BY <1>3, <1>4 DEF q
<1> QED
  BY <1>2, <1>10, <1>11, <1>16, <1>17

\* A queue becomes the batch of the task that holds the lock.
LEMMA DrainRecords ==
  ASSUME TypeOK, LockInv, RecordsInv, NEW t \in Tasks, DrainNext(t)
  PROVE  \E k \in Kinds :
           /\ queue[k] # <<>>
           /\ Sending = {}
           /\ Sending' = ToSet(queue[k])
           /\ Queued' = Queued \ ToSet(queue[k])
           /\ lost' = lost
           /\ RecordsInv'
<1>1. PICK k \in at[t]..3 : /\ queue[k] # <<>>
                            /\ batch' = [batch EXCEPT ![t] = queue[k]]
                            /\ queue' = [queue EXCEPT ![k] = <<>>]
  BY DEF DrainNext
<1>2. k \in Kinds
  <2>1. at[t] \in 1..4
    BY DEF TypeOK, ControlOK
  <2> QED
    BY <1>1, <2>1 DEF Kinds
<1>3. pc[t] = "drain" /\ submitted' = submitted /\ dropped' = dropped /\ lost' = lost
  BY DEF DrainNext, counters, history, losses
<1>4. \A u \in Tasks : batch[u] = <<>>
  <2>1. \A u \in Tasks : pc[u] # "export"
    BY <1>3 DEF LockInv
  <2> QED
    BY <2>1 DEF LockInv
<1>5. \A u \in Tasks : batch'[u] = IF u = t THEN queue[k] ELSE <<>>
  BY <1>1, <1>4 DEF TypeOK, ControlOK
<1>6. \A j \in Kinds : queue'[j] = IF j = k THEN <<>> ELSE queue[j]
  BY <1>1 DEF TypeOK, StoreOK
<1>7. Sending = {}
  BY <1>4, EmptyRecords DEF Sending
<1>8. Sending' = ToSet(queue[k])
  BY <1>5, EmptyRecords DEF Sending
<1>9. Queued' = Queued \ ToSet(queue[k])
  <2>1. Queued' \subseteq Queued \ ToSet(queue[k])
    <3> SUFFICES ASSUME NEW j \in Kinds, NEW x \in ToSet(queue'[j])
                 PROVE  x \in Queued \ ToSet(queue[k])
      BY DEF Queued
    <3>1. j # k /\ x \in ToSet(queue[j])
      BY <1>6, EmptyRecords
    <3> QED
      BY <1>2, <3>1 DEF RecordsInv, Queued
  <2>2. Queued \ ToSet(queue[k]) \subseteq Queued'
    <3> SUFFICES ASSUME NEW j \in Kinds, NEW x \in ToSet(queue[j]), x \notin ToSet(queue[k])
                 PROVE  x \in Queued'
      BY DEF Queued
    <3>1. j # k
      OBVIOUS
    <3> QED
      BY <1>6, <3>1 DEF Queued
  <2> QED
    BY <2>1, <2>2
<1>10. ToSet(queue[k]) \subseteq Queued
  BY <1>2, RecordsType
<1>11. RecordsInv'
  <2>1. \A i, j \in Kinds : i # j => ToSet(queue'[i]) \intersect ToSet(queue'[j]) = {}
    BY <1>6, EmptyRecords DEF RecordsInv
  <2>2. \A j \in Kinds : Distinct(queue'[j])
    BY <1>6, EmptyRecords DEF RecordsInv
  <2>3. \A u \in Tasks : Distinct(batch'[u])
    BY <1>2, <1>5, EmptyRecords DEF RecordsInv
  <2>4. /\ Queued' \intersect Sending' = {}
        /\ lost' \intersect (Queued' \union Sending') = {}
        /\ Queued' \union Sending' \union lost' \subseteq 1..submitted'
    BY <1>3, <1>8, <1>9, <1>10 DEF RecordsInv
  <2> QED
    BY <1>3, <2>1, <2>2, <2>3, <2>4 DEF RecordsInv
<1> QED
  BY <1>1, <1>2, <1>3, <1>7, <1>8, <1>9, <1>11

\* The batch under way is done with, as a whole: answered, or counted as lost.
LEMMA EndRecords ==
  ASSUME TypeOK, LockInv, RecordsInv, NEW t \in Tasks, ExportEnds(t)
  PROVE  /\ Sending' = {}
         /\ Queued' = Queued
         /\ lost' \in {lost, lost \union Sending}
         /\ RecordsInv'
<1> USE DEF ExportEnds, ExportSucceeds, ExportPartial, ExportFails, CancelledInExport
<1>1. /\ pc[t] = "export" /\ queue' = queue /\ submitted' = submitted
      /\ batch' = [batch EXCEPT ![t] = <<>>]
  BY DEF NextKind, Resumable, Interrupted
<1>2. \A u \in Tasks : u # t => batch[u] = <<>>
  BY <1>1 DEF LockInv
<1>3. \A u \in Tasks : batch'[u] = <<>>
  BY <1>1, <1>2 DEF TypeOK, ControlOK
<1>4. Sending = ToSet(batch[t]) /\ Sending' = {} /\ Queued' = Queued
  BY <1>1, <1>2, <1>3, EmptyRecords DEF Sending, Queued
<1>5. \/ lost' = lost /\ dropped' = dropped
      \/ lost' = lost \union ToSet(batch[t]) /\ dropped' = dropped + Len(batch[t])
  BY DEF Lose
<1>6. IsFiniteSet(lost') /\ dropped' = Cardinality(lost')
  <2>1. CASE lost' = lost /\ dropped' = dropped
    BY <2>1 DEF RecordsInv
  <2>2. CASE lost' = lost \union ToSet(batch[t]) /\ dropped' = dropped + Len(batch[t])
    <3>1. IsFiniteSet(ToSet(batch[t])) /\ Cardinality(ToSet(batch[t])) = Len(batch[t])
      BY RecordsType, DistinctCount DEF RecordsInv
    <3>2. lost \intersect ToSet(batch[t]) = {}
      BY <1>4 DEF RecordsInv
    <3> QED
      BY <2>2, <3>1, <3>2, LostCount DEF RecordsInv
  <2> QED
    BY <1>5, <2>1, <2>2
<1>7. /\ Queued' \intersect Sending' = {}
      /\ lost' \intersect (Queued' \union Sending') = {}
      /\ Queued' \union Sending' \union lost' \subseteq 1..submitted'
  BY <1>1, <1>4, <1>5 DEF RecordsInv
<1> QED
  BY <1>1, <1>3, <1>4, <1>5, <1>6, <1>7, EmptyRecords DEF RecordsInv

\* Every other step leaves the records where they are.
LEMMA RecordsQuiet ==
  ASSUME RecordsInv, UNCHANGED <<queue, batch, lost, submitted, dropped>>
  PROVE  RecordsInv' /\ Queued' = Queued /\ Sending' = Sending
BY DEF RecordsInv, Queued, Sending

\* The queues, the batches, the counts and the doors stay as they are.
QuietStep == UNCHANGED <<queue, batch, lost, submitted, dropped, closed>>

\* What a step of the processor is to the records.
LEMMA NextKinds ==
  ASSUME TypeOK, LockInv, [Next]_vars
  PROVE  \/ \E k \in Kinds, n \in Nat \ {0} :
              /\ ~closed /\ submitted + n <= MaxRecords
              /\ Enqueue(k, n) /\ UNCHANGED <<batch, closed>>
         \/ \E t \in Tasks : DrainNext(t)
         \/ \E t \in Tasks : ExportEnds(t)
         \/ closed' = TRUE /\ UNCHANGED <<queue, batch, lost, submitted, dropped>>
         \/ QuietStep
<1> USE DEF QuietStep
<1>1. CASE Application
  <2>1. ASSUME NEW k \in UsedKinds, NEW n \in 1..SubmitMax, Submit(k, n)
        PROVE  \E j \in Kinds, m \in Nat \ {0} :
                 /\ ~closed /\ submitted + m <= MaxRecords
                 /\ Enqueue(j, m) /\ UNCHANGED <<batch, closed>>
    <3>1. k \in Kinds /\ n \in Nat \ {0}
      BY ConstantsAssumption DEF Kinds
    <3> QED
      BY <2>1, <3>1 DEF Submit, control
  <2>2. ASSUME NEW k \in UsedKinds, SubmitAndWait(k)
        PROVE  \E j \in Kinds, m \in Nat \ {0} :
                 /\ ~closed /\ submitted + m <= MaxRecords
                 /\ Enqueue(j, m) /\ UNCHANGED <<batch, closed>>
    <3>1. k \in Kinds /\ 1 \in Nat \ {0}
      BY ConstantsAssumption DEF Kinds
    <3>2. submitted + 1 <= MaxRecords
      BY <2>2, ConstantsAssumption DEF SubmitAndWait, TypeOK, StoreOK
    <3> QED
      BY <2>2, <3>1, <3>2 DEF SubmitAndWait, control
  <2>3. CASE Aexit
    BY <2>3 DEF Aexit, counters, losses
  <2>4. CASE Aenter
    BY <2>4 DEF Aenter, counters, history, losses
  <2>5. ASSUME NEW c \in Callers, CallFlush(c) PROVE QuietStep
    BY <2>5 DEF CallFlush, counters, losses
  <2>6. ASSUME NEW t \in Callers \union {Closer}, CancelTask(t) PROVE QuietStep
    BY <2>6 DEF CancelTask, counters, history, losses
  <2> QED
    BY <1>1, <2>1, <2>2, <2>3, <2>4, <2>5, <2>6 DEF Application
<1>2. CASE BgStep \/ JoinReturns
  BY <1>2 DEF BgStep, BgStart, BgTop, BgWakes, BgCancelled, JoinReturns,
              counters, history, losses
<1>3. ASSUME NEW t \in Tasks, FlushStep(t)
      PROVE  DrainNext(t) \/ ExportEnds(t) \/ QuietStep
  BY <1>3 DEF FlushStep, Acquire, Granted, LeaveFlush, CancelledInLock, counters,
              history, losses
<1>4. CASE UNCHANGED vars
  BY <1>4 DEF vars, counters, control, history, losses
<1> QED
  BY <1>1, <1>2, <1>3, <1>4 DEF Next

LEMMA NextRecords == TypeOK /\ LockInv /\ RecordsInv /\ [Next]_vars => RecordsInv'
<1> SUFFICES ASSUME TypeOK, LockInv, RecordsInv, [Next]_vars PROVE RecordsInv'
  OBVIOUS
<1>1. ASSUME NEW k \in Kinds, NEW n \in Nat, submitted + n <= MaxRecords,
             Enqueue(k, n), batch' = batch
      PROVE  RecordsInv'
  BY <1>1, EnqueueRecords
<1>2. ASSUME NEW t \in Tasks, DrainNext(t) PROVE RecordsInv'
  BY <1>2, DrainRecords
<1>3. ASSUME NEW t \in Tasks, ExportEnds(t) PROVE RecordsInv'
  BY <1>3, EndRecords
<1>4. CASE UNCHANGED <<queue, batch, lost, submitted, dropped>>
  BY <1>4, RecordsQuiet
<1> QED
  BY <1>1, <1>2, <1>3, <1>4, NextKinds DEF QuietStep

LEMMA RecordsCorrect == Spec => [](TypeOK /\ LockInv /\ RecordsInv)
BY InitTypeOK, NextTypeOK, InitLock, NextLock, InitRecords, NextRecords, PTL DEF Spec

\* _dropped (incremented in _submit and in the two handlers of flush()) counts
\* each lost record once, and no record that still waits or is being sent.
THEOREM LossesAreCountedOnce == Spec => []LostOnce
<1>1. RecordsInv => LostOnce
  BY DEF RecordsInv, LostOnce
<1> QED
  BY <1>1, RecordsCorrect, PTL

-----------------------------------------------------------------------------
(* The processor implements DeliveryLedger.                                  *)

\* Where a record is determines its fate, and the other way round.
LEMMA FateIs ==
  ASSUME TypeOK, RecordsInv
  PROVE  /\ Queued \union Sending \union lost \subseteq 1..MaxRecords
         /\ \A i \in 1..MaxRecords :
              /\ Fate[i] = IF i > submitted THEN "future"
                           ELSE IF i \in Queued THEN "queued"
                           ELSE IF i \in Sending THEN "sending"
                           ELSE IF i \in lost THEN "lost"
                           ELSE "answered"
              /\ i \in Queued \union Sending \union lost => i <= submitted
         /\ Ledger!With("future") = (submitted + 1)..MaxRecords
         /\ Ledger!With("queued") = Queued
         /\ Ledger!With("sending") = Sending
<1>1. submitted \in Nat /\ MaxRecords \in Nat /\ submitted <= MaxRecords
  BY ConstantsAssumption DEF TypeOK, StoreOK, RecordsInv
<1>2. \A i \in Queued \union Sending \union lost : i \in 1..submitted
  BY DEF RecordsInv
<1>3. \A i \in 1..submitted : i \in 1..MaxRecords /\ i <= submitted /\ ~(i > submitted)
  BY <1>1
<1>4. \A i \in 1..MaxRecords : Fate[i] = IF i > submitted THEN "future"
                                         ELSE IF i \in Queued THEN "queued"
                                         ELSE IF i \in Sending THEN "sending"
                                         ELSE IF i \in lost THEN "lost"
                                         ELSE "answered"
  BY DEF Fate
<1>5. \A i \in 1..MaxRecords : i > submitted <=> i \in (submitted + 1)..MaxRecords
  BY <1>1
<1>6. (submitted + 1)..MaxRecords \subseteq 1..MaxRecords
  BY <1>1
<1>7. Queued \intersect Sending = {}
  BY DEF RecordsInv
<1>8. Ledger!With("future") = (submitted + 1)..MaxRecords
  BY <1>4, <1>5, <1>6 DEF Ledger!With
<1>9. Ledger!With("queued") = Queued /\ Ledger!With("sending") = Sending
  BY <1>2, <1>3, <1>4, <1>7 DEF Ledger!With
<1> QED
  BY <1>2, <1>3, <1>4, <1>8, <1>9

LEMMA InitLedger == Init => Ledger!Init
<1> SUFFICES ASSUME Init PROVE Ledger!Init
  OBVIOUS
<1>1. submitted = 0 /\ closed = FALSE
  BY DEF Init
<1>2. \A i \in 1..MaxRecords : i > submitted
  BY <1>1, ConstantsAssumption
<1>3. Fate = [i \in 1..MaxRecords |-> "future"]
  BY <1>2 DEF Fate
<1> QED
  BY <1>1, <1>3 DEF Ledger!Init

\* Submitting is accepting the new records, evicting some.
LEMMA EnqueueLedger ==
  ASSUME TypeOK, TypeOK', RecordsInv, NEW k \in Kinds, NEW n \in Nat \ {0}, ~closed,
         submitted + n <= MaxRecords, Enqueue(k, n), UNCHANGED <<batch, closed>>
  PROVE  Ledger!Next
<1> DEFINE new == (submitted + 1)..(submitted + n)
<1>1. submitted \in Nat /\ MaxRecords \in Nat /\ submitted' = submitted + n
  BY ConstantsAssumption DEF TypeOK, StoreOK, Enqueue
<1>2. PICK evicted \in SUBSET (ToSet(queue[k]) \union new) :
           /\ Queued' = (Queued \union new) \ evicted
           /\ Sending' = Sending
           /\ lost' = lost \union evicted
           /\ RecordsInv'
  BY EnqueueRecords
<1>3. new # {} /\ new \subseteq (submitted + 1)..MaxRecords
  <2>1. submitted + 1 \in new
    BY <1>1
  <2> QED
    BY <1>1, <2>1
<1>4. \A i \in 1..MaxRecords : i > submitted' <=> i > submitted /\ i \notin new
  BY <1>1
<1>5. \A i \in new : i > submitted /\ ~(i > submitted')
  BY <1>1
<1> HIDE DEF new
<1>6. evicted \in SUBSET (Queued \union new)
  BY RecordsType
<1>7. \A i \in 1..MaxRecords : i \in Queued \union Sending \union lost => ~(i > submitted)
  BY <1>1 DEF RecordsInv
<1>8. \A i \in 1..MaxRecords :
        Fate'[i] = IF i \in evicted THEN "lost"
                   ELSE IF i \in new THEN "queued" ELSE Fate[i]
  <2> SUFFICES ASSUME NEW i \in 1..MaxRecords
               PROVE  Fate'[i] = IF i \in evicted THEN "lost"
                                 ELSE IF i \in new THEN "queued" ELSE Fate[i]
    OBVIOUS
  <2>1. /\ Fate[i] = IF i > submitted THEN "future"
                     ELSE IF i \in Queued THEN "queued"
                     ELSE IF i \in Sending THEN "sending"
                     ELSE IF i \in lost THEN "lost"
                     ELSE "answered"
        /\ Fate'[i] = IF i > submitted' THEN "future"
                      ELSE IF i \in Queued' THEN "queued"
                      ELSE IF i \in Sending' THEN "sending"
                      ELSE IF i \in lost' THEN "lost"
                      ELSE "answered"
    BY DEF Fate
  <2>2. i \in Sending => i \notin Queued
    BY DEF RecordsInv
  <2>3. CASE i \in evicted
    BY <1>2, <1>4, <1>5, <1>6, <1>7, <2>1, <2>2, <2>3
  <2>4. CASE i \notin evicted /\ i \in new
    BY <1>2, <1>4, <1>5, <2>1, <2>4
  <2>5. CASE i \notin evicted /\ i \notin new
    BY <1>2, <1>4, <2>1, <2>5
  <2> QED
    BY <2>3, <2>4, <2>5
<1>9. Fate' = [r \in 1..MaxRecords |-> IF r \in evicted THEN "lost"
                                       ELSE IF r \in new THEN "queued" ELSE Fate[r]]
  BY <1>8 DEF Fate
<1>10. Ledger!Accept(new, evicted)
  BY <1>3, <1>9 DEF Ledger!Accept
<1>11. new \in SUBSET Ledger!With("future") /\ evicted \in SUBSET (Ledger!With("queued") \union new)
  BY <1>3, <1>6, FateIs
<1> QED
  BY <1>10, <1>11 DEF Ledger!Next

\* Draining a queue is sending its records.
LEMMA DrainLedger ==
  ASSUME TypeOK, LockInv, RecordsInv, NEW t \in Tasks, DrainNext(t)
  PROVE  Ledger!Next
<1>1. PICK k \in Kinds :
           /\ queue[k] # <<>>
           /\ Sending = {}
           /\ Sending' = ToSet(queue[k])
           /\ Queued' = Queued \ ToSet(queue[k])
           /\ lost' = lost
           /\ RecordsInv'
  BY DrainRecords
<1> DEFINE S == ToSet(queue[k])
<1>2. S # {} /\ S \subseteq Queued
  <2>1. queue[k] \in Seq(Nat) /\ Len(queue[k]) \in Nat /\ Len(queue[k]) # 0
    BY <1>1, EmptySeq, LenProperties, RecordsType
  <2>2. queue[k][1] \in S
    BY <2>1, ToSetIsImage
  <2> QED
    BY <2>2, RecordsType
<1>3. submitted' = submitted /\ closed' = closed
  BY DEF DrainNext, counters
<1> HIDE DEF S
<1>4. \A i \in 1..MaxRecords : Fate'[i] = IF i \in S THEN "sending" ELSE Fate[i]
  <2> SUFFICES ASSUME NEW i \in 1..MaxRecords
               PROVE  Fate'[i] = IF i \in S THEN "sending" ELSE Fate[i]
    OBVIOUS
  <2>1. /\ Fate[i] = IF i > submitted THEN "future"
                     ELSE IF i \in Queued THEN "queued"
                     ELSE IF i \in Sending THEN "sending"
                     ELSE IF i \in lost THEN "lost"
                     ELSE "answered"
        /\ Fate'[i] = IF i > submitted THEN "future"
                      ELSE IF i \in Queued' THEN "queued"
                      ELSE IF i \in Sending' THEN "sending"
                      ELSE IF i \in lost' THEN "lost"
                      ELSE "answered"
    BY <1>3 DEF Fate
  <2>2. i \in S => ~(i > submitted)
    BY <1>2, FateIs DEF TypeOK, StoreOK
  <2> QED
    BY <1>1, <1>2, <2>1, <2>2 DEF S
<1>5. Fate' = [r \in 1..MaxRecords |-> IF r \in S THEN "sending" ELSE Fate[r]]
  BY <1>4 DEF Fate
<1>6. Ledger!With("sending") = {} /\ S \in SUBSET Ledger!With("queued")
  BY <1>1, <1>2, FateIs
<1>7. Ledger!Send(S)
  BY <1>2, <1>3, <1>5, <1>6 DEF Ledger!Send, Ledger!Move
<1> QED
  BY <1>6, <1>7 DEF Ledger!Next

\* The end of an export settles the batch under way, as a whole.
LEMMA EndLedger ==
  ASSUME TypeOK, LockInv, RecordsInv, NEW t \in Tasks, ExportEnds(t)
  PROVE  [Ledger!Next]_(Ledger!ledger)
<1>1. /\ Sending' = {}
      /\ Queued' = Queued
      /\ lost' \in {lost, lost \union Sending}
  BY EndRecords
<1>2. submitted' = submitted /\ closed' = closed
  BY DEF ExportEnds, ExportSucceeds, ExportPartial, ExportFails, CancelledInExport, NextKind
<1> DEFINE f == IF lost' = lost THEN "answered" ELSE "lost"
<1>3. \A i \in 1..MaxRecords : Fate'[i] = IF i \in Sending THEN f ELSE Fate[i]
  <2> SUFFICES ASSUME NEW i \in 1..MaxRecords
               PROVE  Fate'[i] = IF i \in Sending THEN f ELSE Fate[i]
    OBVIOUS
  <2>1. /\ Fate[i] = IF i > submitted THEN "future"
                     ELSE IF i \in Queued THEN "queued"
                     ELSE IF i \in Sending THEN "sending"
                     ELSE IF i \in lost THEN "lost"
                     ELSE "answered"
        /\ Fate'[i] = IF i > submitted THEN "future"
                      ELSE IF i \in Queued' THEN "queued"
                      ELSE IF i \in Sending' THEN "sending"
                      ELSE IF i \in lost' THEN "lost"
                      ELSE "answered"
    BY <1>2 DEF Fate
  <2>2. i \in Sending => ~(i > submitted) /\ i \notin Queued /\ i \notin lost
    BY FateIs DEF TypeOK, StoreOK, RecordsInv
  <2> QED
    BY <1>1, <2>1, <2>2
<1> HIDE DEF f
<1>4. Fate' = [r \in 1..MaxRecords |-> IF r \in Sending THEN f ELSE Fate[r]]
  BY <1>3 DEF Fate
<1>5. f \in {"answered", "lost"}
  BY DEF f
<1>6. CASE Sending = {}
  <2>1. Fate' = Fate
    BY <1>4, <1>6 DEF Fate
  <2> QED
    BY <1>2, <2>1 DEF Ledger!ledger
<1>7. CASE Sending # {}
  <2>1. Ledger!With("sending") = Sending
    BY FateIs
  <2>2. Ledger!Settle
    BY <1>2, <1>4, <1>5, <1>7, <2>1 DEF Ledger!Settle, Ledger!Move
  <2> QED
    BY <2>2 DEF Ledger!Next
<1> QED
  BY <1>6, <1>7

LEMMA NextLedger ==
  TypeOK /\ TypeOK' /\ LockInv /\ RecordsInv /\ [Next]_vars
    => [Ledger!Next]_(Ledger!ledger)
<1> SUFFICES ASSUME TypeOK, TypeOK', LockInv, RecordsInv, [Next]_vars
             PROVE  [Ledger!Next]_(Ledger!ledger)
  OBVIOUS
<1>1. ASSUME NEW k \in Kinds, NEW n \in Nat \ {0}, ~closed,
             submitted + n <= MaxRecords, Enqueue(k, n), UNCHANGED <<batch, closed>>
      PROVE  Ledger!Next
  BY <1>1, EnqueueLedger
<1>2. ASSUME NEW t \in Tasks, DrainNext(t) PROVE Ledger!Next
  BY <1>2, DrainLedger
<1>3. ASSUME NEW t \in Tasks, ExportEnds(t) PROVE [Ledger!Next]_(Ledger!ledger)
  BY <1>3, EndLedger
<1>4. ASSUME UNCHANGED <<queue, batch, lost, submitted, dropped>>
      PROVE  Fate' = Fate
  BY <1>4, RecordsQuiet DEF Fate
<1>5. CASE closed' = TRUE /\ UNCHANGED <<queue, batch, lost, submitted, dropped>>
  BY <1>4, <1>5 DEF Ledger!Next, Ledger!Close
<1>6. CASE QuietStep
  BY <1>4, <1>6 DEF QuietStep, Ledger!ledger
<1> QED
  BY <1>1, <1>2, <1>3, <1>5, <1>6, NextKinds

\* Whatever flushes, failures, cancellations and shutdowns come between, the
\* processor gives every record the life DeliveryLedger promises: accepted while
\* open, sent at most once and alone, then answered or lost for good.
THEOREM ProcessorKeepsLedger == Spec => RefinesLedger
<1>1. Init => Ledger!Init
  BY InitLedger
<1>2. TypeOK /\ TypeOK' /\ LockInv /\ RecordsInv /\ [Next]_vars
        => [Ledger!Next]_(Ledger!ledger)
  BY NextLedger
<1> QED
  BY <1>1, <1>2, RecordsCorrect, PTL DEF Spec, RefinesLedger, Ledger!Spec
=============================================================================
