----------------------------- MODULE QueueLemmas -----------------------------
(***************************************************************************)
(* What the operations on lists that hold nothing twice return: the lemmas *)
(* the proofs about WorkQueue, LoopRun and SocketIO share.                 *)
(***************************************************************************)
EXTENDS Queues, FiniteSets, FiniteSetTheorems, SequenceTheorems, TLAPS

\* QUEUE_INSERT_TAIL of what is not in the queue.
LEMMA AppendOnce ==
  ASSUME NEW S, NEW s \in Seq(S), NEW e \in S, Once(s), ~In(s, e)
  PROVE  /\ Append(s, e) \in Seq(S) /\ Once(Append(s, e))
         /\ \A r : In(Append(s, e), r) <=> In(s, r) \/ r = e
         /\ Len(Append(s, e)) = Len(s) + 1
<1> DEFINE t == Append(s, e)
<1>1. /\ t \in Seq(S) /\ Len(t) = Len(s) + 1 /\ DOMAIN t = 1 .. Len(s) + 1
      /\ \A i \in 1 .. Len(s) : t[i] = s[i]
      /\ t[Len(s) + 1] = e
      /\ DOMAIN s = 1 .. Len(s) /\ Len(s) \in Nat
  BY AppendProperties, LenProperties
<1> HIDE DEF t
<1>2. Once(t)
  BY <1>1 DEF Once, In
<1>3. \A r : In(t, r) <=> In(s, r) \/ r = e
  BY <1>1 DEF In
<1> QED BY <1>1, <1>2, <1>3 DEF t

\* QUEUE_HEAD and QUEUE_REMOVE of it.
LEMMA TailOnce ==
  ASSUME NEW S, NEW s \in Seq(S), Once(s), s # <<>>
  PROVE  /\ Head(s) \in S /\ In(s, Head(s))
         /\ Tail(s) \in Seq(S) /\ Once(Tail(s))
         /\ \A r : In(Tail(s), r) <=> In(s, r) /\ r # Head(s)
         /\ Len(s) \in Nat /\ Len(Tail(s)) = Len(s) - 1 /\ Len(s) > 0
<1> DEFINE t == Tail(s)
<1>1. /\ t \in Seq(S) /\ Len(t) = Len(s) - 1 /\ DOMAIN t = 1 .. Len(s) - 1
      /\ \A i \in 1 .. Len(s) - 1 : t[i] = s[i + 1]
      /\ Head(s) = s[1] /\ Head(s) \in S
      /\ DOMAIN s = 1 .. Len(s) /\ Len(s) \in Nat /\ Len(s) > 0
  BY HeadTailProperties, LenProperties, EmptySeq
<1> HIDE DEF t
<1>2. Once(t)
  BY <1>1 DEF Once
<1>3. ASSUME NEW r PROVE In(t, r) <=> In(s, r) /\ r # Head(s)
  <2>1. ASSUME In(t, r) PROVE In(s, r) /\ r # Head(s)
    BY <1>1, <2>1 DEF In, Once
  <2>2. ASSUME In(s, r), r # Head(s) PROVE In(t, r)
    <3>1. PICK i \in 1 .. Len(s) : s[i] = r
      BY <1>1, <2>2 DEF In
    <3>2. i - 1 \in 1 .. Len(s) - 1 /\ t[i - 1] = r
      BY <1>1, <2>2, <3>1
    <3> QED BY <1>1, <3>2 DEF In
  <2> QED BY <2>1, <2>2
<1>4. In(s, Head(s))
  BY <1>1 DEF In
<1> QED BY <1>1, <1>2, <1>3, <1>4 DEF t

\* QUEUE_REMOVE anywhere in the queue.
LEMMA WithoutOnce ==
  ASSUME NEW S, NEW s \in Seq(S), NEW e, Once(s)
  PROVE  /\ Without(s, e) \in Seq(S) /\ Once(Without(s, e))
         /\ \A r : In(Without(s, e), r) <=> In(s, r) /\ r # e
         /\ Len(s) \in Nat /\ Len(Without(s, e)) \in Nat /\ Len(Without(s, e)) <= Len(s)
<1>1. DOMAIN s = 1 .. Len(s) /\ Len(s) \in Nat
  BY LenProperties
<1>2. CASE \A i \in DOMAIN s : s[i] # e
  <2>1. Without(s, e) = s
    BY <1>2 DEF Without
  <2>2. \A r : In(s, r) <=> In(s, r) /\ r # e
    BY <1>2 DEF In
  <2> QED BY <1>1, <2>1, <2>2
<1>3. CASE In(s, e)
  <2> DEFINE k == CHOOSE i \in DOMAIN s : s[i] = e
             t == [i \in 1 .. Len(s) - 1 |-> IF i < k THEN s[i] ELSE s[i + 1]]
  <2>1. k \in 1 .. Len(s) /\ s[k] = e
    BY <1>1, <1>3 DEF In
  <2>2. Without(s, e) = t
    BY <1>3 DEF In, Without
  <2>3. \A i \in 1 .. Len(s) : s[i] \in S
    BY ElementOfSeq
  <2> HIDE DEF k
  <2>4. t \in Seq(S) /\ Len(t) = Len(s) - 1 /\ DOMAIN t = 1 .. Len(s) - 1
    <3>1. Len(s) - 1 \in Nat
      BY <1>1, <2>1
    <3>2. \A i \in 1 .. Len(s) - 1 : t[i] \in S
      BY <1>1, <2>1, <2>3
    <3>3. t \in [1 .. Len(s) - 1 -> S]
      BY <3>2
    <3> HIDE DEF t
    <3>4. t \in Seq(S)
      BY <3>1, <3>3, IsASeq, SeqDef
    <3> QED BY <3>1, <3>3, <3>4, LenProperties
  <2>5. \A i \in 1 .. Len(s) - 1 : t[i] = IF i < k THEN s[i] ELSE s[i + 1]
    OBVIOUS
  <2> HIDE DEF t
  <2>6. Once(t)
    <3> SUFFICES ASSUME NEW i \in 1 .. Len(s) - 1, NEW j \in 1 .. Len(s) - 1, t[i] = t[j] PROVE i = j
      BY <2>4 DEF Once
    <3> DEFINE from(n) == IF n < k THEN n ELSE n + 1
    <3>1. from(i) \in 1 .. Len(s) /\ from(j) \in 1 .. Len(s) /\ (from(i) = from(j) => i = j)
      BY <1>1, <2>1
    <3>2. s[from(i)] = s[from(j)]
      BY <2>5
    <3> HIDE DEF from
    <3> QED BY <1>1, <3>1, <3>2 DEF Once
  <2>7. ASSUME NEW r PROVE In(t, r) <=> In(s, r) /\ r # e
    <3>1. ASSUME In(t, r) PROVE In(s, r) /\ r # e
      <4>1. PICK i \in 1 .. Len(s) - 1 : t[i] = r
        BY <2>4, <3>1 DEF In
      <4>2. PICK j \in 1 .. Len(s) : s[j] = r /\ j # k
        BY <1>1, <2>1, <2>5, <4>1
      <4> QED BY <1>1, <2>1, <4>2 DEF In, Once
    <3>2. ASSUME In(s, r), r # e PROVE In(t, r)
      <4>1. PICK i \in 1 .. Len(s) : s[i] = r
        BY <1>1, <3>2 DEF In
      <4>2. i # k
        BY <2>1, <3>2, <4>1
      <4>3. CASE i < k
        BY <1>1, <2>1, <2>4, <2>5, <4>1, <4>3 DEF In
      <4>4. CASE i > k
        <5>1. i - 1 \in 1 .. Len(s) - 1 /\ ~(i - 1 < k) /\ t[i - 1] = r
          BY <1>1, <2>1, <2>5, <4>1, <4>4
        <5> QED BY <2>4, <5>1 DEF In
      <4> QED BY <1>1, <2>1, <4>1, <4>2, <4>3, <4>4
    <3> QED BY <3>1, <3>2
  <2> QED BY <1>1, <2>1, <2>2, <2>4, <2>6, <2>7
<1> QED BY <1>1, <1>2, <1>3 DEF In

\* An empty queue.
LEMMA EmptyOnce == \A S : <<>> \in Seq(S) /\ Once(<<>>) /\ \A r : ~In(<<>>, r)
BY EmptySeq DEF Once, In

\* QUEUE_INSERT_HEAD of what is not in the queue.
LEMMA PushOnce ==
  ASSUME NEW S, NEW s \in Seq(S), NEW e \in S, Once(s), ~In(s, e)
  PROVE  /\ <<e>> \o s \in Seq(S) /\ Once(<<e>> \o s) /\ <<e>> \o s # <<>>
         /\ \A r : In(<<e>> \o s, r) <=> In(s, r) \/ r = e
<1> DEFINE t == <<e>> \o s
<1>1. <<e>> \in Seq(S) /\ Len(<<e>>) = 1 /\ <<e>>[1] = e
  OBVIOUS
<1>2. DOMAIN s = 1 .. Len(s) /\ Len(s) \in Nat
  BY LenProperties
<1>3. /\ t \in Seq(S) /\ Len(t) = 1 + Len(s)
      /\ \A i \in 1 .. 1 + Len(s) : t[i] = IF i <= 1 THEN <<e>>[i] ELSE s[i - 1]
  BY <1>1, ConcatProperties
<1> HIDE DEF t
<1>4. DOMAIN t = 1 .. 1 + Len(s)
  BY <1>3, LenProperties
<1>5. t[1] = e /\ \A i \in 1 .. Len(s) : t[i + 1] = s[i]
  BY <1>1, <1>2, <1>3
<1>6. Once(t)
  <2> SUFFICES ASSUME NEW i \in DOMAIN t, NEW j \in DOMAIN t, t[i] = t[j] PROVE i = j
    BY DEF Once
  <2>1. \A n \in DOMAIN t : n # 1 => n - 1 \in 1 .. Len(s) /\ t[n] = s[n - 1] /\ t[n] # e
    BY <1>2, <1>3, <1>4 DEF In
  <2> QED BY <1>2, <1>4, <1>5, <2>1 DEF Once
<1>7. ASSUME NEW r PROVE In(t, r) <=> In(s, r) \/ r = e
  <2>1. ASSUME In(t, r) PROVE In(s, r) \/ r = e
    <3>1. PICK i \in 1 .. 1 + Len(s) : t[i] = r
      BY <1>4, <2>1 DEF In
    <3>2. i # 1 => i - 1 \in DOMAIN s /\ s[i - 1] = r
      BY <1>2, <1>3, <3>1
    <3> QED BY <1>5, <3>1, <3>2 DEF In
  <2>2. ASSUME In(s, r) PROVE In(t, r)
    <3>1. PICK i \in 1 .. Len(s) : s[i] = r
      BY <1>2, <2>2 DEF In
    <3>2. i + 1 \in DOMAIN t /\ t[i + 1] = r
      BY <1>2, <1>4, <1>5, <3>1
    <3> QED BY <3>2 DEF In
  <2>3. In(t, e)
    BY <1>2, <1>4, <1>5 DEF In
  <2> QED BY <2>1, <2>2, <2>3
<1> QED BY <1>2, <1>3, <1>6, <1>7, EmptySeq DEF t

\* Two queues that share nothing, one after the other.
LEMMA ConcatOnce ==
  ASSUME NEW S, NEW s \in Seq(S), NEW t \in Seq(S), Once(s), Once(t), \A r : ~(In(s, r) /\ In(t, r))
  PROVE  /\ s \o t \in Seq(S) /\ Once(s \o t)
         /\ \A r : In(s \o t, r) <=> In(s, r) \/ In(t, r)
<1> DEFINE u == s \o t
<1>1. /\ DOMAIN s = 1 .. Len(s) /\ Len(s) \in Nat
      /\ DOMAIN t = 1 .. Len(t) /\ Len(t) \in Nat
  BY LenProperties
<1>2. /\ u \in Seq(S) /\ Len(u) = Len(s) + Len(t)
      /\ \A i \in 1 .. Len(s) + Len(t) : u[i] = IF i <= Len(s) THEN s[i] ELSE t[i - Len(s)]
  BY ConcatProperties
<1> HIDE DEF u
<1>3. DOMAIN u = 1 .. Len(s) + Len(t)
  BY <1>2, LenProperties
<1>4. \A i \in DOMAIN u :
        \/ i \in DOMAIN s /\ u[i] = s[i]
        \/ i - Len(s) \in DOMAIN t /\ u[i] = t[i - Len(s)]
  BY <1>1, <1>2, <1>3
<1>5. Once(u)
  <2> SUFFICES ASSUME NEW i \in DOMAIN u, NEW j \in DOMAIN u, u[i] = u[j] PROVE i = j
    BY DEF Once
  <2>1. CASE i \in DOMAIN s /\ u[i] = s[i] /\ j \in DOMAIN s /\ u[j] = s[j]
    BY <2>1 DEF Once
  <2>2. CASE /\ i - Len(s) \in DOMAIN t /\ u[i] = t[i - Len(s)]
             /\ j - Len(s) \in DOMAIN t /\ u[j] = t[j - Len(s)]
    <3>1. i - Len(s) = j - Len(s)
      BY <2>2 DEF Once
    <3> QED BY <1>1, <1>3, <3>1
  <2> QED BY <1>4, <2>1, <2>2 DEF In
<1>6. ASSUME NEW r PROVE In(u, r) <=> In(s, r) \/ In(t, r)
  <2>1. In(u, r) => In(s, r) \/ In(t, r)
    BY <1>4 DEF In
  <2>2. In(s, r) => In(u, r)
    BY <1>1, <1>2, <1>3 DEF In
  <2>3. ASSUME In(t, r) PROVE In(u, r)
    <3>1. PICK i \in 1 .. Len(t) : t[i] = r
      BY <1>1, <2>3 DEF In
    <3>2. i + Len(s) \in DOMAIN u /\ u[i + Len(s)] = r
      BY <1>1, <1>2, <1>3, <3>1
    <3> QED BY <3>2 DEF In
  <2> QED BY <2>1, <2>2, <2>3
<1> QED BY <1>2, <1>5, <1>6 DEF u

-----------------------------------------------------------------------------
(* Lists kept in an order: date gives each element its place.              *)

Sorted(s, date) == \A i, j \in DOMAIN s : i < j => date[s[i]] <= date[s[j]]

\* Taking the head off keeps the order.
LEMMA TailSorted ==
  ASSUME NEW S, NEW s \in Seq(S), s # <<>>, NEW date, Sorted(s, date)
  PROVE  /\ Sorted(Tail(s), date)
         /\ \A i \in DOMAIN s : i # 1 => date[Head(s)] <= date[s[i]]
<1> DEFINE t == Tail(s)
<1>1. /\ t \in Seq(S) /\ DOMAIN t = 1 .. Len(s) - 1
      /\ \A i \in 1 .. Len(s) - 1 : t[i] = s[i + 1]
      /\ Head(s) = s[1] /\ DOMAIN s = 1 .. Len(s) /\ Len(s) \in Nat /\ Len(s) > 0
  BY HeadTailProperties, LenProperties, EmptySeq
<1> HIDE DEF t
<1>2. Sorted(t, date)
  <2> SUFFICES ASSUME NEW i \in DOMAIN t, NEW j \in DOMAIN t, i < j PROVE date[t[i]] <= date[t[j]]
    BY DEF Sorted
  <2>1. i + 1 \in DOMAIN s /\ j + 1 \in DOMAIN s /\ i + 1 < j + 1
    BY <1>1
  <2>2. date[s[i + 1]] <= date[s[j + 1]]
    BY <2>1 DEF Sorted
  <2> QED BY <1>1, <2>2
<1>3. \A i \in DOMAIN s : i # 1 => date[Head(s)] <= date[s[i]]
  <2> SUFFICES ASSUME NEW i \in DOMAIN s, i # 1 PROVE date[s[1]] <= date[s[i]]
    BY <1>1
  <2>1. 1 \in DOMAIN s /\ 1 < i
    BY <1>1
  <2> QED BY <2>1 DEF Sorted
<1> QED BY <1>2, <1>3 DEF t

\* Taking an element out keeps the order.
LEMMA WithoutSorted ==
  ASSUME NEW S, NEW s \in Seq(S), NEW e, NEW date, Sorted(s, date)
  PROVE  Sorted(Without(s, e), date)
<1>1. DOMAIN s = 1 .. Len(s) /\ Len(s) \in Nat
  BY LenProperties
<1>2. CASE \A i \in DOMAIN s : s[i] # e
  BY <1>2 DEF Without
<1>3. CASE \E i \in DOMAIN s : s[i] = e
  <2> DEFINE k == CHOOSE i \in DOMAIN s : s[i] = e
             t == [i \in 1 .. Len(s) - 1 |-> IF i < k THEN s[i] ELSE s[i + 1]]
             from(n) == IF n < k THEN n ELSE n + 1
  <2>1. k \in 1 .. Len(s)
    BY <1>1, <1>3
  <2>2. Without(s, e) = t
    BY <1>3 DEF Without
  <2> HIDE DEF k
  <2> SUFFICES ASSUME NEW i \in 1 .. Len(s) - 1, NEW j \in 1 .. Len(s) - 1, i < j
               PROVE  date[t[i]] <= date[t[j]]
    BY <2>2 DEF Sorted
  <2>3. from(i) \in DOMAIN s /\ from(j) \in DOMAIN s /\ from(i) < from(j)
    BY <1>1, <2>1
  <2>4. t[i] = s[from(i)] /\ t[j] = s[from(j)]
    OBVIOUS
  <2> HIDE DEF from, t
  <2> QED BY <2>3, <2>4 DEF Sorted
<1> QED BY <1>2, <1>3

\* A set of numbers from 1 on without gaps: its last number is its size.
LEMMA PrefixSize ==
  ASSUME NEW n \in Nat, NEW P \in SUBSET (1 .. n), \A i \in P : \A j \in 1 .. i : j \in P
  PROVE  Cardinality(P) \in 0 .. n /\ P = 1 .. Cardinality(P)
<1> DEFINE c == Cardinality(P)
<1>1. IsFiniteSet(1 .. n) /\ Cardinality(1 .. n) = n
  BY FS_Interval
<1>2. IsFiniteSet(P) /\ c \in Nat /\ c <= n
  BY <1>1, FS_Subset, FS_CardinalityType
<1>3. ASSUME NEW i \in P PROVE i <= c
  <2>1. 1 .. i \in SUBSET P /\ i \in Nat
    OBVIOUS
  <2>2. Cardinality(1 .. i) = i
    BY <2>1, FS_Interval
  <2> QED BY <1>2, <2>1, <2>2, FS_Subset
<1>4. P \in SUBSET (1 .. c)
  BY <1>2, <1>3
<1>5. IsFiniteSet(1 .. c) /\ Cardinality(1 .. c) = c
  BY <1>2, FS_Interval
<1>6. P = 1 .. c
  BY <1>4, <1>5, FS_Subset
<1> QED BY <1>2, <1>6

\* An element put into a sequence behind its first n.
LEMMA SplicedIs ==
  ASSUME NEW S, NEW s \in Seq(S), NEW n \in Nat, n <= Len(s), NEW e \in S
  PROVE  LET u == Spliced(s, n, e) IN
         /\ u \in Seq(S) /\ DOMAIN u = 1 .. Len(s) + 1
         /\ \A i \in 1 .. n : u[i] = s[i]
         /\ u[n + 1] = e
         /\ \A i \in n + 2 .. Len(s) + 1 : u[i] = s[i - 1]
<1> DEFINE a == SubSeq(s, 1, n)
           b == SubSeq(s, n + 1, Len(s))
           one == <<e>>
           v == a \o one
           u == Spliced(s, n, e)
<1>0. u = v \o b
  BY DEF Spliced
<1> HIDE DEF u
<1>1. Len(s) \in Nat /\ \A i \in 1 .. Len(s) : s[i] \in S
  BY LenProperties, ElementOfSeq
<1>2. a \in Seq(S) /\ Len(a) = n /\ \A i \in 1 .. n : a[i] = s[i]
  <2>1. \A i \in 1 .. n : s[i] \in S
    BY <1>1
  <2>2. a \in Seq(S) /\ Len(a) = (IF 1 <= n THEN n - 1 + 1 ELSE 0)
        /\ \A i \in 1 .. n - 1 + 1 : a[i] = s[1 + i - 1]
    BY <2>1, SubSeqProperties
  <2> HIDE DEF a
  <2>3. \A i \in 1 .. n : 1 + i - 1 = i /\ i \in 1 .. n - 1 + 1
    OBVIOUS
  <2> QED BY <2>2, <2>3
<1>3. b \in Seq(S) /\ Len(b) = Len(s) - n /\ \A i \in 1 .. Len(s) - n : b[i] = s[n + i]
  <2>1. \A i \in n + 1 .. Len(s) : s[i] \in S
    BY <1>1
  <2>2. b \in Seq(S) /\ Len(b) = (IF n + 1 <= Len(s) THEN Len(s) - (n + 1) + 1 ELSE 0)
        /\ \A i \in 1 .. Len(s) - (n + 1) + 1 : b[i] = s[n + 1 + i - 1]
    BY <1>1, <2>1, SubSeqProperties
  <2> HIDE DEF b
  <2>3. \A i \in 1 .. Len(s) - n : n + 1 + i - 1 = n + i /\ i \in 1 .. Len(s) - (n + 1) + 1
    BY <1>1
  <2> QED BY <1>1, <2>2, <2>3
<1> HIDE DEF a, b
<1>4. one \in Seq(S) /\ Len(one) = 1 /\ one[1] = e
  OBVIOUS
<1> HIDE DEF one
<1>5. /\ v \in Seq(S) /\ Len(v) = n + 1
      /\ \A i \in 1 .. n + 1 : v[i] = IF i <= n THEN a[i] ELSE one[i - n]
  <2>1. /\ v \in Seq(S) /\ Len(v) = Len(a) + Len(one)
        /\ \A i \in 1 .. Len(a) + Len(one) : v[i] = IF i <= Len(a) THEN a[i] ELSE one[i - Len(a)]
    BY <1>2, <1>4, ConcatProperties
  <2> HIDE DEF v
  <2> QED BY <1>2, <1>4, <2>1
<1> HIDE DEF v
<1>6. v[n + 1] = e /\ \A i \in 1 .. n : v[i] = s[i]
  <2>1. n + 1 - n = 1 /\ n + 1 \in 1 .. n + 1 /\ ~(n + 1 <= n)
    OBVIOUS
  <2>2. v[n + 1] = one[1]
    BY <1>5, <2>1
  <2> QED BY <1>2, <1>4, <1>5, <2>2
<1>7. /\ u \in Seq(S) /\ Len(u) = Len(v) + Len(b)
      /\ \A i \in 1 .. Len(v) + Len(b) : u[i] = IF i <= Len(v) THEN v[i] ELSE b[i - Len(v)]
  BY <1>0, <1>3, <1>5, ConcatProperties
<1>8. Len(v) + Len(b) = Len(s) + 1 /\ Len(v) = n + 1 /\ DOMAIN u = 1 .. Len(s) + 1
  BY <1>1, <1>3, <1>5, <1>7, LenProperties
<1>9. \A i \in 1 .. n + 1 : u[i] = v[i]
  BY <1>1, <1>7, <1>8
<1>10. ASSUME NEW i \in n + 2 .. Len(s) + 1 PROVE u[i] = s[i - 1]
  <2>1. i \in 1 .. Len(s) + 1 /\ ~(i <= n + 1) /\ i - (n + 1) \in 1 .. Len(s) - n /\ n + (i - (n + 1)) = i - 1
    BY <1>1
  <2>2. u[i] = b[i - (n + 1)]
    BY <1>7, <1>8, <2>1
  <2> QED BY <1>3, <2>1, <2>2
<1>11. n + 1 \in 1 .. n + 1 /\ \A i \in 1 .. n : i \in 1 .. n + 1
  OBVIOUS
<1> QED BY <1>6, <1>7, <1>8, <1>9, <1>10, <1>11 DEF u

-----------------------------------------------------------------------------
(* Two lists in a row: requests that are done, then requests that wait.    *)

\* A list that has each element once is two such lists, with none in both.
LEMMA SplitOnce ==
  ASSUME NEW S, NEW s \in Seq(S), NEW t \in Seq(S)
  PROVE  /\ \A r : In(s \o t, r) <=> In(s, r) \/ In(t, r)
         /\ Once(s \o t) <=> Once(s) /\ Once(t) /\ \A r : ~(In(s, r) /\ In(t, r))
<1> DEFINE u == s \o t
<1>1. /\ DOMAIN s = 1 .. Len(s) /\ Len(s) \in Nat
      /\ DOMAIN t = 1 .. Len(t) /\ Len(t) \in Nat
  BY LenProperties
<1>2. u \in Seq(S) /\ Len(u) = Len(s) + Len(t)
  BY ConcatProperties
<1>3. \A i \in 1 .. Len(s) + Len(t) : u[i] = IF i <= Len(s) THEN s[i] ELSE t[i - Len(s)]
  BY ConcatProperties
<1>4. DOMAIN u = 1 .. Len(s) + Len(t)
  BY <1>2, LenProperties
<1> HIDE DEF u
<1>5. \A i \in DOMAIN s : i \in DOMAIN u /\ u[i] = s[i]
  BY <1>1, <1>3, <1>4
<1>6. \A i \in DOMAIN t : i + Len(s) \in DOMAIN u /\ u[i + Len(s)] = t[i]
  <2> SUFFICES ASSUME NEW i \in DOMAIN t PROVE i + Len(s) \in DOMAIN u /\ u[i + Len(s)] = t[i]
    OBVIOUS
  <2>1. i + Len(s) \in 1 .. Len(s) + Len(t) /\ ~(i + Len(s) <= Len(s)) /\ (i + Len(s)) - Len(s) = i
    BY <1>1
  <2> QED BY <1>3, <1>4, <2>1
<1>7. \A r : In(u, r) <=> In(s, r) \/ In(t, r)
  <2> SUFFICES ASSUME NEW r PROVE In(u, r) <=> In(s, r) \/ In(t, r)
    OBVIOUS
  <2>1. In(s, r) \/ In(t, r) => In(u, r)
    BY <1>5, <1>6 DEF In
  <2>2. ASSUME In(u, r) PROVE In(s, r) \/ In(t, r)
    <3>1. PICK i \in DOMAIN u : u[i] = r
      BY <2>2 DEF In
    <3>2. CASE i <= Len(s)
      <4>1. i \in DOMAIN s /\ s[i] = r
        BY <1>1, <1>3, <1>4, <3>1, <3>2
      <4> QED BY <4>1 DEF In
    <3>3. CASE ~(i <= Len(s))
      <4>1. i - Len(s) \in DOMAIN t /\ t[i - Len(s)] = r
        BY <1>1, <1>3, <1>4, <3>1, <3>3
      <4> QED BY <4>1 DEF In
    <3> QED BY <3>2, <3>3
  <2> QED BY <2>1, <2>2
<1>8. ASSUME Once(u) PROVE Once(s) /\ Once(t) /\ \A r : ~(In(s, r) /\ In(t, r))
  <2>1. Once(s)
    BY <1>5, <1>8 DEF Once
  <2>2. Once(t)
    <3> SUFFICES ASSUME NEW i \in DOMAIN t, NEW j \in DOMAIN t, t[i] = t[j] PROVE i = j
      BY DEF Once
    <3>1. i + Len(s) = j + Len(s)
      BY <1>6, <1>8 DEF Once
    <3> QED BY <1>1, <3>1
  <2>3. ASSUME NEW i \in DOMAIN s, NEW j \in DOMAIN t, s[i] = t[j] PROVE FALSE
    <3>1. i = j + Len(s)
      BY <1>5, <1>6, <1>8, <2>3 DEF Once
    <3> QED BY <1>1, <3>1
  <2> QED BY <2>1, <2>2, <2>3 DEF In
<1> QED BY <1>7, <1>8, ConcatOnce DEF u

\* One more waits.
LEMMA AppendBehind ==
  ASSUME NEW S, NEW s \in Seq(S), NEW t \in Seq(S), NEW e \in S
  PROVE  s \o Append(t, e) = Append(s \o t, e) /\ Append(t, e) \in Seq(S)
<1>1. <<e>> \in Seq(S) /\ s \o t \in Seq(S)
  BY ConcatProperties
<1>2. Append(t, e) = t \o <<e>> /\ Append(s \o t, e) = (s \o t) \o <<e>>
  BY <1>1, AppendIsConcat
<1> QED BY <1>1, <1>2, ConcatAssociative, AppendProperties

\* The first that waits is done.
LEMMA HeadMoved ==
  ASSUME NEW S, NEW s \in Seq(S), NEW t \in Seq(S), t # <<>>
  PROVE  /\ Append(s, Head(t)) \in Seq(S) /\ Tail(t) \in Seq(S) /\ Head(t) \in S
         /\ Append(s, Head(t)) \o Tail(t) = s \o t
<1> DEFINE e == Head(t)
           r == Tail(t)
<1>1. e \in S /\ r \in Seq(S)
  BY HeadTailProperties
<1>2. t = <<e>> \o r
  OBVIOUS
<1> HIDE DEF e, r
<1>3. <<e>> \in Seq(S) /\ Append(s, e) = s \o <<e>>
  BY <1>1, AppendIsConcat
<1>4. (s \o <<e>>) \o r = s \o (<<e>> \o r)
  BY <1>1, <1>3, ConcatAssociative
<1>5. Append(s, e) \in Seq(S)
  BY <1>1, AppendProperties
<1> QED BY <1>1, <1>2, <1>3, <1>4, <1>5 DEF e, r

\* The first n that wait are done.
LEMMA PrefixMoved ==
  ASSUME NEW S, NEW s \in Seq(S), NEW t \in Seq(S), NEW n \in Nat, n <= Len(t)
  PROVE  /\ s \o SubSeq(t, 1, n) \in Seq(S) /\ SubSeq(t, n + 1, Len(t)) \in Seq(S)
         /\ (s \o SubSeq(t, 1, n)) \o SubSeq(t, n + 1, Len(t)) = s \o t
         /\ n = Len(t) => SubSeq(t, n + 1, Len(t)) = <<>>
<1> DEFINE a == SubSeq(t, 1, n)
           b == SubSeq(t, n + 1, Len(t))
<1>1. Len(t) \in Nat /\ n \in Int /\ \A i \in 1 .. Len(t) : t[i] \in S
  BY LenProperties, ElementOfSeq
<1>2. a \in Seq(S)
  <2>1. \A i \in 1 .. n : t[i] \in S
    BY <1>1
  <2> QED BY <1>1, <2>1, SubSeqProperties
<1>3. b \in Seq(S)
  <2>1. \A i \in n + 1 .. Len(t) : t[i] \in S
    BY <1>1
  <2> QED BY <1>1, <2>1, SubSeqProperties
<1>4. a \o b = t
  <2>1. SubSeq(t, 1, n) \o SubSeq(t, n + 1, Len(t)) = SubSeq(t, 1, Len(t))
    <3>1. 1 \in 1 .. Len(t) + 1 /\ n \in 1 - 1 .. Len(t) /\ Len(t) \in n .. Len(t)
      BY <1>1
    <3> QED BY <3>1, ConcatAdjacentSubSeq
  <2> QED BY <2>1, SubSeqFull
<1>5. n = Len(t) => b = <<>>
  BY <1>1, SubSeqEmpty
<1> HIDE DEF a, b
<1>6. (s \o a) \o b = s \o t /\ s \o a \in Seq(S)
  <2>1. (s \o a) \o b = s \o (a \o b)
    BY <1>2, <1>3, ConcatAssociative
  <2>2. s \o a \in Seq(S)
    BY <1>2, ConcatProperties
  <2> QED BY <1>4, <2>1, <2>2
<1> QED BY <1>2, <1>3, <1>5, <1>6 DEF a, b

\* The first that is done leaves: it was the first of all.
LEMMA HeadTaken ==
  ASSUME NEW S, NEW s \in Seq(S), NEW t \in Seq(S), s # <<>>, Once(s \o t)
  PROVE  /\ Head(s) \in S /\ Tail(s) \in Seq(S) /\ In(s \o t, Head(s))
         /\ Without(s \o t, Head(s)) = Tail(s \o t) /\ Tail(s \o t) = Tail(s) \o t
         /\ Once(Tail(s) \o t)
         /\ \A r : In(Tail(s) \o t, r) <=> In(s \o t, r) /\ r # Head(s)
<1> DEFINE u == s \o t
           e == Head(s)
           r == Tail(s)
<1>1. e \in S /\ r \in Seq(S) /\ s = <<e>> \o r /\ u \in Seq(S)
  BY HeadTailProperties, ConcatProperties
<1>2. u = <<e>> \o (r \o t) /\ r \o t \in Seq(S)
  <2> HIDE DEF e, r
  <2>1. <<e>> \in Seq(S)
    BY <1>1
  <2> QED BY <1>1, <2>1, ConcatAssociative, ConcatProperties
<1>3. u # <<>> /\ Head(u) = e /\ Tail(u) = r \o t
  <2> DEFINE v == r \o t
  <2>1. v \in Seq(S) /\ u = <<e>> \o v
    BY <1>2
  <2> HIDE DEF v, e, u
  <2>2. <<e>> \in Seq(S) /\ Len(<<e>>) = 1 /\ <<e>>[1] = e
    BY <1>1
  <2>3. Len(v) \in Nat
    BY <2>1, LenProperties
  <2>4. /\ u \in Seq(S) /\ Len(u) = 1 + Len(v)
        /\ \A i \in 1 .. 1 + Len(v) : u[i] = IF i <= 1 THEN <<e>>[1] ELSE v[i - 1]
    <3>1. /\ <<e>> \o v \in Seq(S) /\ Len(<<e>> \o v) = Len(<<e>>) + Len(v)
          /\ \A i \in 1 .. Len(<<e>>) + Len(v) : (<<e>> \o v)[i] = IF i <= Len(<<e>>) THEN <<e>>[i] ELSE v[i - Len(<<e>>)]
      BY <2>1, <2>2, ConcatProperties
    <3>2. \A i \in 1 .. 1 + Len(v) : i <= 1 => i = 1
      BY <2>3
    <3> QED BY <2>1, <2>2, <3>1, <3>2
  <2>5. u # <<>>
    BY <2>3, <2>4, EmptySeq
  <2>6. /\ Tail(u) \in Seq(S) /\ Len(Tail(u)) = Len(u) - 1
        /\ \A i \in 1 .. Len(Tail(u)) : Tail(u)[i] = u[i + 1]
    BY <2>4, <2>5, HeadTailProperties
  <2>7. Head(u) = u[1]
    BY <2>4, <2>5
  <2>8. Len(Tail(u)) = Len(v) /\ \A i \in 1 .. Len(Tail(u)) : Tail(u)[i] = v[i]
    <3>1. Len(Tail(u)) = Len(v)
      BY <2>3, <2>4, <2>6
    <3>2. ASSUME NEW i \in 1 .. Len(v) PROVE u[i + 1] = v[i]
      <4>1. i + 1 \in 1 .. 1 + Len(v) /\ ~(i + 1 <= 1) /\ (i + 1) - 1 = i
        BY <2>3
      <4> QED BY <2>4, <4>1
    <3> QED BY <2>6, <3>1, <3>2
  <2>9. Tail(u) = v
    BY <2>1, <2>6, <2>8, SeqEqual
  <2>10. 1 \in 1 .. 1 + Len(v) /\ 1 <= 1
    BY <2>3
  <2> QED BY <2>2, <2>4, <2>5, <2>7, <2>9, <2>10 DEF v
<1>4. Len(u) \in Nat /\ DOMAIN u = 1 .. Len(u) /\ Len(u) > 0 /\ u[1] = e
  <2> HIDE DEF u, e
  <2> QED BY <1>1, <1>3, LenProperties, EmptySeq
<1>5. Tail(u) = [i \in 1 .. Len(u) - 1 |-> u[i + 1]]
  <2> HIDE DEF u
  <2>1. Tail(u) \in Seq(S) /\ Len(Tail(u)) = Len(u) - 1 /\ \A i \in 1 .. Len(Tail(u)) : Tail(u)[i] = u[i + 1]
    BY <1>1, <1>3, HeadTailProperties
  <2>2. Tail(u) \in [1 .. Len(u) - 1 -> S]
    BY <2>1, LenProperties
  <2> HIDE DEF e, r
  <2> QED BY <2>1, <2>2
<1>6. Without(u, e) = Tail(u)
  <2> HIDE DEF u, e
  <2>1. \A i \in DOMAIN u : u[i] = e => i = 1
    BY <1>4 DEF Once, u
  <2>2. (CHOOSE i \in DOMAIN u : u[i] = e) = 1
    BY <1>4, <2>1
  <2>3. Without(u, e) = [i \in 1 .. Len(u) - 1 |-> IF i < 1 THEN u[i] ELSE u[i + 1]]
    <3>1. ~\A i \in DOMAIN u : u[i] # e
      BY <1>4
    <3> QED BY <2>2, <3>1 DEF Without
  <2>4. [i \in 1 .. Len(u) - 1 |-> IF i < 1 THEN u[i] ELSE u[i + 1]] = [i \in 1 .. Len(u) - 1 |-> u[i + 1]]
    BY <1>4
  <2> QED BY <1>5, <2>3, <2>4
<1>7. /\ In(u, Head(u)) /\ Once(Tail(u))
      /\ \A x : In(Tail(u), x) <=> In(u, x) /\ x # Head(u)
  <2>1. Once(u)
    OBVIOUS
  <2> HIDE DEF u
  <2> QED BY <1>1, <1>3, <2>1, TailOnce
<1> QED BY <1>1, <1>3, <1>6, <1>7

\* A list that has each element once is no longer than there are elements.
LEMMA OnceLength ==
  ASSUME NEW S, IsFiniteSet(S), NEW s \in Seq(S), Once(s)
  PROVE  Len(s) <= Cardinality(S)
<1>1. Len(s) \in Nat /\ s \in [1 .. Len(s) -> S] /\ DOMAIN s = 1 .. Len(s)
  BY LenProperties
<1>2. s \in Injection(1 .. Len(s), S)
  BY <1>1 DEF Injection, IsInjective, Once
<1>3. Cardinality(1 .. Len(s)) <= Cardinality(S)
  BY <1>2, FS_Injection
<1>4. Cardinality(1 .. Len(s)) = Len(s)
  <2>1. Cardinality(1 .. Len(s)) = IF 1 > Len(s) THEN 0 ELSE Len(s) - 1 + 1
    BY <1>1, FS_Interval
  <2> QED BY <1>1, <2>1
<1> QED BY <1>3, <1>4

\* What a queue that may hold a message twice holds when one is appended.
LEMMA AppendIn ==
  ASSUME NEW S, NEW s \in Seq(S), NEW e \in S
  PROVE  /\ Append(s, e) \in Seq(S) /\ Append(s, e) # <<>>
         /\ \A r : In(Append(s, e), r) <=> In(s, r) \/ r = e
         /\ s # <<>> => /\ Head(Append(s, e)) = Head(s)
                        /\ \A r : In(Tail(s), r) \/ r = e => In(Tail(Append(s, e)), r)
<1> DEFINE t == Append(s, e)
<1>1. /\ t \in Seq(S) /\ Len(t) = Len(s) + 1 /\ DOMAIN t = 1 .. Len(s) + 1
      /\ DOMAIN s = 1 .. Len(s) /\ Len(s) \in Nat
      /\ \A i \in 1 .. Len(s) : t[i] = s[i]
      /\ t[Len(s) + 1] = e
  OBVIOUS
<1>2. t # <<>>
  BY <1>1
<1>3. \A r : In(t, r) <=> In(s, r) \/ r = e
  BY <1>1 DEF In
<1>4. ASSUME s # <<>> PROVE Head(t) = Head(s)
  <2>1. 1 \in 1 .. Len(s)
    BY <1>1, <1>4
  <2> QED  BY <1>1, <1>2, <1>4, <2>1
<1>5. ASSUME s # <<>>, NEW r, In(Tail(s), r) \/ r = e PROVE In(Tail(t), r)
  <2>1. /\ Len(s) > 0 /\ DOMAIN Tail(s) = 1 .. Len(s) - 1 /\ \A i \in 1 .. Len(s) - 1 : Tail(s)[i] = s[i + 1]
    BY <1>1, <1>5
  <2>2. DOMAIN Tail(t) = 1 .. Len(s) /\ \A i \in 1 .. Len(s) : Tail(t)[i] = t[i + 1]
    BY <1>1, <1>2
  <2> HIDE DEF t
  <2>3. CASE r = e
    <3>1. Len(s) \in 1 .. Len(s)
      BY <1>1, <2>1
    <3> QED  BY <1>1, <2>2, <2>3, <3>1 DEF In
  <2>4. CASE In(Tail(s), r)
    <3>1. PICK i \in 1 .. Len(s) - 1 : s[i + 1] = r
      BY <2>1, <2>4 DEF In
    <3>2. i \in 1 .. Len(s) /\ i + 1 \in 1 .. Len(s)
      BY <1>1, <2>1
    <3> QED  BY <1>1, <2>2, <3>1, <3>2 DEF In
  <2> QED  BY <1>5, <2>3, <2>4
<1> QED  BY <1>1, <1>2, <1>3, <1>4, <1>5

\* What it holds beside its head when the head is taken.
LEMMA TailIn ==
  ASSUME NEW S, NEW s \in Seq(S), s # <<>>
  PROVE  /\ Tail(s) \in Seq(S) /\ Head(s) \in S /\ In(s, Head(s))
         /\ \A r : In(s, r) <=> r = Head(s) \/ In(Tail(s), r)
<1>1. /\ Tail(s) \in Seq(S) /\ Head(s) = s[1] /\ DOMAIN s = 1 .. Len(s) /\ Len(s) \in Nat /\ Len(s) > 0
      /\ DOMAIN Tail(s) = 1 .. Len(s) - 1 /\ \A i \in 1 .. Len(s) - 1 : Tail(s)[i] = s[i + 1]
  OBVIOUS
<1>2. 1 \in DOMAIN s
  BY <1>1
<1>3. ASSUME NEW r, In(s, r), r # Head(s) PROVE In(Tail(s), r)
  <2>1. PICK i \in 1 .. Len(s) : s[i] = r
    BY <1>1, <1>3 DEF In
  <2>2. i # 1
    BY <1>1, <1>3, <2>1
  <2>3. i - 1 \in 1 .. Len(s) - 1 /\ (i - 1) + 1 = i
    BY <1>1, <2>1, <2>2
  <2> QED  BY <1>1, <2>1, <2>3 DEF In
<1>4. ASSUME NEW r, In(Tail(s), r) PROVE In(s, r)
  <2>1. PICK i \in 1 .. Len(s) - 1 : s[i + 1] = r
    BY <1>1, <1>4 DEF In
  <2>2. i + 1 \in DOMAIN s
    BY <1>1
  <2> QED  BY <2>1, <2>2 DEF In
<1> QED  BY <1>1, <1>2, <1>3, <1>4 DEF In
=============================================================================
