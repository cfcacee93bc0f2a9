---------------------------- MODULE AsyncioProofs ----------------------------
(* Lemmas about the operators of Asyncio: the queue of an asyncio.Lock, whose *)
(* waiters are sequences without repetition.                                  *)
EXTENDS Asyncio, FiniteSets, SequenceTheorems, FiniteSetTheorems, FunctionTheorems, TLAPS

-----------------------------------------------------------------------------
(* Sequences without repetition.                                             *)

Distinct(s) == \A i, j \in 1..Len(s) : s[i] = s[j] => i = j

\* ToSet, by the positions.
LEMMA ToSetIsImage ==
  ASSUME NEW S, NEW s \in Seq(S)
  PROVE  ToSet(s) = {s[i] : i \in 1..Len(s)}
BY LenProperties DEF ToSet

\* The first element is one of them.
LEMMA FirstElement ==
  ASSUME NEW S, NEW s \in Seq(S), s # <<>>
  PROVE  Len(s) \in Nat \ {0} /\ s[1] \in S /\ s[1] \in ToSet(s)
<1>1. Len(s) \in Nat /\ Len(s) # 0
  BY EmptySeq, LenProperties
<1>2. 1 \in 1..Len(s)
  BY <1>1
<1> QED
  BY <1>1, <1>2, ElementOfSeq, ToSetIsImage

\* As many elements as positions.
LEMMA PrefixCount ==
  ASSUME NEW S, NEW s \in Seq(S), Distinct(s), NEW n \in 0..Len(s)
  PROVE  /\ IsFiniteSet({s[i] : i \in 1..n})
         /\ Cardinality({s[i] : i \in 1..n}) = n
<1> DEFINE f == [i \in 1..n |-> s[i]]
           T == {s[i] : i \in 1..n}
<1>1. Len(s) \in Nat /\ n \in Nat /\ 1..n \subseteq 1..Len(s)
  BY LenProperties
<1>2. f \in [1..n -> T]
  OBVIOUS
<1>3. \A a, b \in 1..n : f[a] = f[b] => a = b
  BY <1>1 DEF Distinct
<1>4. \A e \in T : \E i \in 1..n : f[i] = e
  OBVIOUS
<1> HIDE DEF f, T
<1>5. f \in Bijection(1..n, T)
  BY <1>2, <1>3, <1>4, Fun_IsBij, Zenon
<1>6. ExistsBijection(1..n, T)
  BY <1>5, Fun_ExistsBij, Zenon
<1> QED
  BY <1>1, <1>6, FS_NatBijection, FS_CountingElements, Zenon DEF T

\* All of a sequence.
LEMMA DistinctCount ==
  ASSUME NEW S, NEW s \in Seq(S), Distinct(s)
  PROVE  IsFiniteSet(ToSet(s)) /\ Cardinality(ToSet(s)) = Len(s)
<1>1. Len(s) \in 0..Len(s)
  BY LenProperties
<1>2. ToSet(s) = {s[i] : i \in 1..Len(s)}
  BY ToSetIsImage
<1> QED
  BY <1>1, <1>2, PrefixCount

-----------------------------------------------------------------------------
(* The queue of a lock.                                                      *)

\* What removing a waiter leaves: the others, in their order.
LEMMA RemoveAtProperties ==
  ASSUME NEW S, NEW s \in Seq(S), NEW i \in 1..Len(s)
  PROVE  /\ RemoveAt(s, i) \in Seq(S)
         /\ Len(RemoveAt(s, i)) = Len(s) - 1
         /\ \A j \in 1..(Len(s) - 1) :
              RemoveAt(s, i)[j] = IF j < i THEN s[j] ELSE s[j + 1]
<1> DEFINE l == Len(s)
           before == SubSeq(s, 1, i - 1)
           after == SubSeq(s, i + 1, l)
<1>1. l \in Nat /\ i \in 1..l /\ \A j \in 1..l : s[j] \in S
  BY LenProperties, ElementOfSeq
<1> HIDE DEF l
<1>2. 1 \in Int /\ i - 1 \in Int /\ i + 1 \in Int /\ l \in Int
      /\ (\A j \in 1..(i - 1) : s[j] \in S) /\ (\A j \in (i + 1)..l : s[j] \in S)
  BY <1>1
<1>3. /\ before \in Seq(S)
      /\ Len(before) = i - 1
      /\ \A j \in 1..(i - 1) : before[j] = s[j]
  <2>1. /\ before \in Seq(S)
        /\ Len(before) = IF 1 <= i - 1 THEN (i - 1) - 1 + 1 ELSE 0
        /\ \A j \in 1..((i - 1) - 1 + 1) : before[j] = s[1 + j - 1]
    BY <1>2, SubSeqProperties
  <2> HIDE DEF before
  <2>2. (i - 1) - 1 + 1 = i - 1 /\ \A j \in 1..(i - 1) : 1 + j - 1 = j
    BY <1>1
  <2> QED
    BY <1>1, <2>1, <2>2
<1>4. /\ after \in Seq(S)
      /\ Len(after) = l - i
      /\ \A j \in 1..(l - i) : after[j] = s[i + j]
  <2>1. /\ after \in Seq(S)
        /\ Len(after) = IF i + 1 <= l THEN l - (i + 1) + 1 ELSE 0
        /\ \A j \in 1..(l - (i + 1) + 1) : after[j] = s[(i + 1) + j - 1]
    BY <1>2, SubSeqProperties
  <2> HIDE DEF after
  <2>2. l - (i + 1) + 1 = l - i /\ \A j \in 1..(l - i) : (i + 1) + j - 1 = i + j
    BY <1>1
  <2> QED
    BY <1>1, <2>1, <2>2
<1>5. RemoveAt(s, i) = before \o after
  BY DEF RemoveAt, l
<1> HIDE DEF before, after
<1>6. /\ before \o after \in Seq(S)
      /\ Len(before \o after) = (i - 1) + (l - i)
      /\ \A j \in 1..((i - 1) + (l - i)) :
           (before \o after)[j] = IF j <= i - 1 THEN before[j] ELSE after[j - (i - 1)]
  <2>1. /\ before \o after \in Seq(S)
        /\ Len(before \o after) = Len(before) + Len(after)
        /\ \A j \in 1..(Len(before) + Len(after)) :
             (before \o after)[j] = IF j <= Len(before) THEN before[j]
                                    ELSE after[j - Len(before)]
    BY <1>3, <1>4, ConcatProperties
  <2> QED
    BY <1>3, <1>4, <2>1
<1>7. (i - 1) + (l - i) = l - 1
  BY <1>1
<1>8. ASSUME NEW j \in 1..(l - 1)
      PROVE  (before \o after)[j] = IF j < i THEN s[j] ELSE s[j + 1]
  <2>1. CASE j < i
    <3>1. j \in 1..(i - 1) /\ j <= i - 1
      BY <1>1, <2>1
    <3> QED
      BY <1>3, <1>6, <1>7, <2>1, <3>1
  <2>2. CASE ~(j < i)
    <3>1. ~(j <= i - 1) /\ j - (i - 1) \in 1..(l - i) /\ i + (j - (i - 1)) = j + 1
      BY <1>1, <2>2
    <3> QED
      BY <1>4, <1>6, <1>7, <2>2, <3>1
  <2> QED
    BY <2>1, <2>2
<1> QED
  BY <1>5, <1>6, <1>7, <1>8 DEF l

\* A task that leaves the waiters leaves a sequence of waiters.
LEMMA LeaveWaitersType ==
  ASSUME NEW S, waiters \in Seq(S), NEW t, LeaveWaiters(t)
  PROVE  waiters' \in Seq(S)
BY RemoveAtProperties DEF LeaveWaiters

\* The first waiter, when there is one to wake.
LEMMA WakeFirstType ==
  ASSUME NEW S, NEW ws \in Seq(S)
  PROVE  WakeFirst(ws) \in (ToSet(ws) \intersect S) \union {NoTask}
<1>1. CASE ws # <<>>
  <2>1. 1 \in DOMAIN ws /\ Head(ws) = ws[1] /\ ws[1] \in S
    BY <1>1, LenProperties, EmptySeq, ElementOfSeq
  <2> QED
    BY <2>1 DEF WakeFirst, ToSet
<1>2. CASE ws = <<>>
  BY <1>2 DEF WakeFirst
<1> QED
  BY <1>1, <1>2

\* The first waiter is woken unless it is cancelled.
LEMMA WakeFirstChoice ==
  ASSUME NEW S, NEW ws \in Seq(S), NoTask \notin S
  PROVE  /\ WakeFirst(ws) # NoTask => ws # <<>> /\ WakeFirst(ws) = ws[1]
         /\ WakeFirst(ws) = NoTask /\ ws # <<>> => cancelled[ws[1]]
<1>1. CASE ws # <<>>
  <2>1. Head(ws) = ws[1] /\ ws[1] \in S
    BY <1>1, LenProperties, EmptySeq, ElementOfSeq
  <2> QED
    BY <1>1, <2>1 DEF WakeFirst
<1>2. CASE ws = <<>>
  BY <1>2 DEF WakeFirst
<1> QED
  BY <1>1, <1>2

\* A task that leaves was there once, and is there no more.
LEMMA LeaveWaitersProperties ==
  ASSUME NEW S, waiters \in Seq(S), Distinct(waiters), NEW t, LeaveWaiters(t)
  PROVE  /\ waiters' \in Seq(S) /\ Distinct(waiters')
         /\ ToSet(waiters') = ToSet(waiters) \ {t}
         /\ \E k \in 1..Len(waiters) :
              /\ waiters[k] = t
              /\ Len(waiters') = Len(waiters) - 1
              /\ \A j \in 1..(Len(waiters) - 1) :
                   waiters'[j] = IF j < k THEN waiters[j] ELSE waiters[j + 1]
<1> DEFINE l == Len(waiters)
<1>1. PICK k \in 1..l : waiters[k] = t /\ waiters' = RemoveAt(waiters, k)
  BY DEF LeaveWaiters
<1>2. /\ waiters' \in Seq(S) /\ Len(waiters') = l - 1
      /\ \A j \in 1..(l - 1) : waiters'[j] = IF j < k THEN waiters[j] ELSE waiters[j + 1]
  BY <1>1, RemoveAtProperties
<1>3. l \in Nat /\ \A i, j \in 1..l : waiters[i] = waiters[j] => i = j
  BY LenProperties DEF Distinct
<1>4. ToSet(waiters) = {waiters[i] : i \in 1..l} /\ ToSet(waiters') = {waiters'[i] : i \in 1..(l - 1)}
  BY <1>2, ToSetIsImage
<1> HIDE DEF l
<1>5. ASSUME NEW i \in 1..(l - 1), NEW j \in 1..(l - 1), waiters'[i] = waiters'[j] PROVE i = j
  <2> DEFINE from(m) == IF m < k THEN m ELSE m + 1
  <2>1. from(i) \in 1..l /\ from(j) \in 1..l
    BY <1>3
  <2>2. waiters'[i] = waiters[from(i)] /\ waiters'[j] = waiters[from(j)]
    BY <1>2
  <2>3. from(i) = from(j)
    BY <1>3, <1>5, <2>1, <2>2
  <2> QED
    BY <1>1, <1>3, <2>3
<1>6. Distinct(waiters')
  BY <1>2, <1>5 DEF Distinct
<1>7. ToSet(waiters') = ToSet(waiters) \ {t}
  <2>1. ASSUME NEW j \in 1..(l - 1) PROVE waiters'[j] \in ToSet(waiters) \ {t}
    <3>1. CASE j < k
      <4>1. j \in 1..l /\ j # k /\ waiters'[j] = waiters[j]
        BY <1>2, <1>3, <3>1
      <4> QED
        BY <1>1, <1>3, <1>4, <4>1
    <3>2. CASE ~(j < k)
      <4>1. j + 1 \in 1..l /\ j + 1 # k /\ waiters'[j] = waiters[j + 1]
        BY <1>1, <1>2, <1>3, <3>2
      <4> QED
        BY <1>1, <1>3, <1>4, <4>1
    <3> QED
      BY <3>1, <3>2
  <2>2. ASSUME NEW i \in 1..l, waiters[i] # t PROVE waiters[i] \in ToSet(waiters')
    <3>1. i # k
      BY <1>1, <2>2
    <3>2. CASE i < k
      <4>1. i \in 1..(l - 1) /\ waiters'[i] = waiters[i]
        BY <1>1, <1>2, <1>3, <3>2
      <4> QED
        BY <1>4, <4>1
    <3>3. CASE i > k
      <4>1. i - 1 \in 1..(l - 1) /\ ~(i - 1 < k) /\ (i - 1) + 1 = i
        BY <1>1, <1>3, <3>3
      <4>2. waiters'[i - 1] = waiters[i]
        BY <1>2, <4>1
      <4> QED
        BY <1>4, <4>1, <4>2
    <3> QED
      BY <1>1, <1>3, <3>1, <3>2, <3>3
  <2> QED
    BY <1>4, <2>1, <2>2
<1> QED
  BY <1>1, <1>2, <1>6, <1>7 DEF l

\* A task that joins the waiters was not among them.
LEMMA JoinWaitersProperties ==
  ASSUME NEW S, NEW s \in Seq(S), Distinct(s), NEW t \in S, t \notin ToSet(s)
  PROVE  /\ Append(s, t) \in Seq(S) /\ Distinct(Append(s, t))
         /\ ToSet(Append(s, t)) = ToSet(s) \union {t}
         /\ Len(Append(s, t)) = Len(s) + 1
         /\ \A i \in 1..Len(s) : Append(s, t)[i] = s[i]
         /\ Append(s, t)[Len(s) + 1] = t
<1> DEFINE l == Len(s)
           u == Append(s, t)
<1>1. /\ u \in Seq(S) /\ Len(u) = l + 1 /\ l \in Nat
      /\ (\A i \in 1..l : u[i] = s[i]) /\ u[l + 1] = t
  BY AppendProperties, LenProperties
<1>2. ToSet(s) = {s[i] : i \in 1..l} /\ ToSet(u) = {u[i] : i \in 1..(l + 1)}
  BY <1>1, ToSetIsImage
<1>3. \A i, j \in 1..l : s[i] = s[j] => i = j
  BY DEF Distinct
<1> HIDE DEF l, u
<1>4. \A i \in 1..(l + 1) : i \in 1..l \/ i = l + 1
  BY <1>1
<1>5. \A i \in 1..l : i \in 1..(l + 1) /\ s[i] # t
  BY <1>1, <1>2
<1>6. Distinct(u)
  <2> SUFFICES ASSUME NEW i \in 1..(l + 1), NEW j \in 1..(l + 1), u[i] = u[j] PROVE i = j
    BY <1>1 DEF Distinct
  <2> QED
    BY <1>1, <1>3, <1>4, <1>5
<1>7. ToSet(u) = ToSet(s) \union {t}
  <2>1. l + 1 \in 1..(l + 1)
    BY <1>1
  <2> QED
    BY <1>1, <1>2, <1>4, <1>5, <2>1
<1> QED
  BY <1>1, <1>6, <1>7 DEF l, u
=============================================================================
