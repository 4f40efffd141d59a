-------------------------- MODULE EventQueueTheorems --------------------------
(***************************************************************************)
(* What the methods of the queue do to the events in it, for every queue,  *)
(* batch and capacity: each is a way of cutting one sequence in two, so    *)
(* that no event appears or disappears on the way.                         *)
(***************************************************************************)
EXTENDS EventQueue, SequenceTheorems, TLAPS

\* A concatenation has no repeated element iff neither part has and the
\* parts share none.
LEMMA InjectiveConcat ==
  ASSUME NEW S, NEW s \in Seq(S), NEW t \in Seq(S)
  PROVE  IsInjective(s \o t) <=>
           /\ IsInjective(s) /\ IsInjective(t)
           /\ Range(s) \cap Range(t) = {}
PROOF
<1> DEFINE u == s \o t
<1>1. /\ u \in Seq(S)
      /\ Len(u) = Len(s) + Len(t)
      /\ \A i \in 1..Len(s) + Len(t) :
           u[i] = IF i <= Len(s) THEN s[i] ELSE t[i - Len(s)]
  BY ConcatProperties
<1>2. /\ Len(s) \in Nat /\ Len(t) \in Nat
      /\ DOMAIN s = 1..Len(s) /\ DOMAIN t = 1..Len(t) /\ DOMAIN u = 1..Len(u)
  BY <1>1, LenProperties
<1> HIDE DEF u
<1>left. \A i \in 1..Len(s) : i \in 1..Len(u) /\ u[i] = s[i]
  BY <1>1, <1>2
<1>right. \A i \in 1..Len(t) : i + Len(s) \in 1..Len(u) /\ u[i + Len(s)] = t[i]
  <2> TAKE i \in 1..Len(t)
  <2>1. /\ i + Len(s) \in 1..Len(u) /\ i + Len(s) \in 1..Len(s) + Len(t)
        /\ ~(i + Len(s) <= Len(s)) /\ (i + Len(s)) - Len(s) = i
    BY <1>1, <1>2
  <2>2. u[i + Len(s)] = t[(i + Len(s)) - Len(s)]
    BY <2>1, <1>1
  <2> QED BY <2>1, <2>2
<1>3. ASSUME IsInjective(u)
      PROVE  IsInjective(s) /\ IsInjective(t) /\ Range(s) \cap Range(t) = {}
  <2>1. IsInjective(s)
    <3> SUFFICES ASSUME NEW i \in 1..Len(s), NEW j \in 1..Len(s), s[i] = s[j]
                 PROVE  i = j
      BY <1>2 DEF IsInjective
    <3> QED BY <1>left, <1>2, <1>3 DEF IsInjective
  <2>2. IsInjective(t)
    <3> SUFFICES ASSUME NEW i \in 1..Len(t), NEW j \in 1..Len(t), t[i] = t[j]
                 PROVE  i = j
      BY <1>2 DEF IsInjective
    <3>1. /\ i + Len(s) \in 1..Len(u) /\ j + Len(s) \in 1..Len(u)
          /\ u[i + Len(s)] = t[i] /\ u[j + Len(s)] = t[j]
      BY <1>right
    <3>2. i + Len(s) = j + Len(s)
      BY <3>1, <1>2, <1>3 DEF IsInjective
    <3> QED BY <3>2, <1>2
  <2>3. Range(s) \cap Range(t) = {}
    <3> SUFFICES ASSUME NEW i \in 1..Len(s), NEW j \in 1..Len(t), s[i] = t[j]
                 PROVE  FALSE
      BY <1>2 DEF Range
    <3>1. /\ i \in 1..Len(u) /\ j + Len(s) \in 1..Len(u)
          /\ u[i] = s[i] /\ u[j + Len(s)] = t[j]
      BY <1>left, <1>right
    <3>2. i = j + Len(s)
      BY <3>1, <1>2, <1>3 DEF IsInjective
    <3> QED BY <3>2, <1>2
  <2> QED BY <2>1, <2>2, <2>3
<1>4. ASSUME IsInjective(s), IsInjective(t), Range(s) \cap Range(t) = {}
      PROVE  IsInjective(u)
  <2> SUFFICES ASSUME NEW i \in 1..Len(u), NEW j \in 1..Len(u), u[i] = u[j], i <= j
               PROVE  i = j
    BY <1>1, <1>2 DEF IsInjective
  <2> DEFINE ii == i - Len(s)
             jj == j - Len(s)
  <2>1. CASE j <= Len(s)
    <3>1. i \in 1..Len(s) /\ j \in 1..Len(s)
      BY <2>1, <1>2
    <3>2. s[i] = s[j]
      BY <3>1, <1>left
    <3> QED BY <3>1, <3>2, <1>2, <1>4 DEF IsInjective
  <2>2. CASE i <= Len(s) /\ j > Len(s)
    <3>1. i \in 1..Len(s) /\ jj \in 1..Len(t) /\ jj + Len(s) = j
      BY <2>2, <1>1, <1>2
    <3> HIDE DEF jj
    <3>2. s[i] = t[jj]
      BY <3>1, <1>left, <1>right
    <3>3. s[i] \in Range(s) /\ t[jj] \in Range(t)
      BY <3>1, <1>2 DEF Range
    <3> QED BY <3>2, <3>3, <1>4
  <2>3. CASE i > Len(s)
    <3>1. /\ ii \in 1..Len(t) /\ ii + Len(s) = i
          /\ jj \in 1..Len(t) /\ jj + Len(s) = j
      BY <2>3, <1>1, <1>2
    <3> HIDE DEF ii, jj
    <3>2. t[ii] = t[jj]
      BY <3>1, <1>right
    <3>3. ii = jj
      BY <3>1, <3>2, <1>2, <1>4 DEF IsInjective
    <3> QED BY <3>1, <3>3
  <2> QED BY <2>1, <2>2, <2>3, <1>1, <1>2
<1> QED BY <1>3, <1>4 DEF u

\* a and b are the two parts of q: nothing is added, lost or repeated.
Parts(q, a, b) ==
  /\ a \o b = q
  /\ Range(a) \cup Range(b) = Range(q)
  /\ IsInjective(q) => /\ IsInjective(a) /\ IsInjective(b)
                       /\ Range(a) \cap Range(b) = {}

\* Cutting a sequence after its first k elements.
LEMMA Cut ==
  ASSUME NEW S, NEW q \in Seq(S), NEW k \in 0..Len(q)
  PROVE  /\ SubSeq(q, 1, k) \in Seq(S) /\ Len(SubSeq(q, 1, k)) = k
         /\ SubSeq(q, k + 1, Len(q)) \in Seq(S)
         /\ Len(SubSeq(q, k + 1, Len(q))) = Len(q) - k
         /\ Parts(q, SubSeq(q, 1, k), SubSeq(q, k + 1, Len(q)))
PROOF
<1> DEFINE a == SubSeq(q, 1, k)
           b == SubSeq(q, k + 1, Len(q))
<1>1. Len(q) \in Nat /\ q \in [1..Len(q) -> S]
  BY LenProperties
<1>2. a \in Seq(S) /\ Len(a) = k
  <2>1. \A i \in 1..k : q[i] \in S
    BY <1>1
  <2>2. /\ SubSeq(q, 1, k) \in Seq(S)
        /\ Len(SubSeq(q, 1, k)) = IF 1 <= k THEN k - 1 + 1 ELSE 0
    BY <1>1, <2>1, SubSeqProperties
  <2> QED BY <1>1, <2>2
<1>3. b \in Seq(S) /\ Len(b) = Len(q) - k
  <2>1. \A i \in (k + 1)..Len(q) : q[i] \in S
    BY <1>1
  <2>2. /\ SubSeq(q, k + 1, Len(q)) \in Seq(S)
        /\ Len(SubSeq(q, k + 1, Len(q))) =
             IF k + 1 <= Len(q) THEN Len(q) - (k + 1) + 1 ELSE 0
    BY <1>1, <2>1, SubSeqProperties
  <2>3. k \in Nat /\ k <= Len(q) /\ Len(q) - (k + 1) + 1 = Len(q) - k
    BY <1>1
  <2>4. CASE k + 1 <= Len(q)
    BY <2>2, <2>3, <2>4
  <2>5. CASE ~(k + 1 <= Len(q))
    <3> DEFINE n == Len(q)
    <3>1. n \in Nat /\ k \in Nat /\ k <= n /\ ~(k + 1 <= n)
      BY <1>1, <2>3, <2>5
    <3> HIDE DEF n
    <3>2. n - k = 0
      BY <3>1
    <3> QED BY <2>2, <2>5, <3>2 DEF n
  <2> QED BY <2>4, <2>5
<1>4. a \o b = q
  <2>1. /\ 1 \in 1..Len(q) + 1 /\ k \in 1 - 1..Len(q) /\ Len(q) \in k..Len(q)
    BY <1>1
  <2>2. a \o b = SubSeq(q, 1, Len(q))
    BY <2>1, ConcatAdjacentSubSeq
  <2> HIDE DEF a, b
  <2> QED BY <2>2, SubSeqFull
<1>5. Range(a) \cup Range(b) = Range(q)
  <2> HIDE DEF a, b
  <2>1. Range(a \o b) = Range(a) \cup Range(b)
    BY <1>2, <1>3, RangeConcatenation
  <2> QED BY ONLY <2>1, <1>4
<1>6. IsInjective(q) => IsInjective(a) /\ IsInjective(b) /\ Range(a) \cap Range(b) = {}
  <2>1. IsInjective(a \o b) <=>
           IsInjective(a) /\ IsInjective(b) /\ Range(a) \cap Range(b) = {}
    BY <1>2, <1>3, InjectiveConcat
  <2> QED BY <2>1, <1>4
<1> QED BY <1>2, <1>3, <1>4, <1>5, <1>6 DEF Parts

\* dequeue(n) cuts the queue in the batch it hands out and the queue it
\* leaves; the batch is empty only if the queue was.
LEMMA DequeueSplits ==
  ASSUME NEW S, NEW q \in Seq(S), NEW n \in Nat \ {0}
  PROVE  /\ Taken(q, n) \in Seq(S) /\ Dequeue(q, n) \in Seq(S)
         /\ Len(Dequeue(q, n)) <= Len(q)
         /\ q # <<>> => Taken(q, n) # <<>>
         /\ Parts(q, Taken(q, n), Dequeue(q, n))
PROOF
<1> DEFINE k == BatchLen(q, n)
<1>1. Len(q) \in Nat /\ k \in 0..Len(q) /\ (q # <<>> => k > 0)
  BY LenProperties, EmptySeq DEF BatchLen
<1>2. /\ Taken(q, n) = SubSeq(q, 1, k)
      /\ Dequeue(q, n) = SubSeq(q, k + 1, Len(q))
  BY DEF Taken, Dequeue
<1> HIDE DEF k
<1>3. /\ Taken(q, n) \in Seq(S) /\ Dequeue(q, n) \in Seq(S)
      /\ Len(Taken(q, n)) = k /\ Len(Dequeue(q, n)) = Len(q) - k
      /\ Parts(q, Taken(q, n), Dequeue(q, n))
  BY <1>1, <1>2, Cut
<1>4. Len(Dequeue(q, n)) <= Len(q)
  BY <1>1, <1>3
<1>5. q # <<>> => Taken(q, n) # <<>>
  BY <1>1, <1>3, EmptySeq
<1> QED BY <1>3, <1>4, <1>5

\* requeue(b) cuts b \o q in what overflows and the queue it leaves, which
\* fits the capacity and is full if anything overflowed.
LEMMA RequeueSplits ==
  ASSUME NEW S, NEW q \in Seq(S), NEW b \in Seq(S), NEW cap \in Nat
  PROVE  /\ Requeue(q, b, cap) \in Seq(S)
         /\ Len(Requeue(q, b, cap)) <= cap
         /\ Truncated(q, b, cap) # {} => Len(Requeue(q, b, cap)) = cap
         /\ Range(Requeue(q, b, cap)) \cup Truncated(q, b, cap) = Range(b) \cup Range(q)
         /\ IsInjective(b) /\ IsInjective(q) /\ Range(b) \cap Range(q) = {} =>
              /\ IsInjective(Requeue(q, b, cap))
              /\ Range(Requeue(q, b, cap)) \cap Truncated(q, b, cap) = {}
PROOF
<1> DEFINE u == b \o q
           k == Excess(q, b, cap)
           x == SubSeq(u, 1, k)
           r == SubSeq(u, k + 1, Len(u))
<1>1. u \in Seq(S) /\ Len(u) \in Nat /\ Range(u) = Range(b) \cup Range(q)
  BY ConcatProperties, LenProperties, RangeConcatenation
<1>2. k = IF Len(u) > cap THEN Len(u) - cap ELSE 0
  BY DEF Excess
<1>3. Requeue(q, b, cap) = r /\ Truncated(q, b, cap) = Range(x)
  BY DEF Requeue, Truncated
<1> HIDE DEF u, k
<1>4. k \in 0..Len(u)
  BY <1>1, <1>2
<1>5. /\ x \in Seq(S) /\ r \in Seq(S)
      /\ Len(x) = k /\ Len(r) = Len(u) - k
      /\ Parts(u, x, r)
  BY <1>1, <1>4, Cut
<1> HIDE DEF x, r
<1>6. Len(r) <= cap
  BY <1>1, <1>2, <1>5
<1>7. ASSUME Range(x) # {} PROVE Len(r) = cap
  <2>1. x # <<>>
    BY <1>7 DEF Range
  <2>2. k > 0
    BY <2>1, <1>5, EmptySeq
  <2> QED BY <2>2, <1>1, <1>2, <1>5
<1>8. Range(r) \cup Range(x) = Range(b) \cup Range(q)
  BY <1>1, <1>5 DEF Parts
<1>9. IsInjective(u) => IsInjective(r) /\ Range(r) \cap Range(x) = {}
  BY <1>5 DEF Parts
<1>10. IsInjective(u) <=>
         IsInjective(b) /\ IsInjective(q) /\ Range(b) \cap Range(q) = {}
  BY InjectiveConcat DEF u
<1> QED BY <1>3, <1>5, <1>6, <1>7, <1>8, <1>9, <1>10

\* enqueue(e) trades the head of a full queue for e and keeps the rest.
LEMMA EnqueueSplits ==
  ASSUME NEW S, NEW q \in Seq(S), NEW e \in S, NEW cap \in Nat \ {0},
         Len(q) <= cap
  PROVE  /\ Enqueue(q, e, cap) \in Seq(S)
         /\ Len(Enqueue(q, e, cap)) <= cap
         /\ Evicted(q, cap) # {} => Len(Enqueue(q, e, cap)) = cap
         /\ Range(Enqueue(q, e, cap)) \cup Evicted(q, cap) = Range(q) \cup {e}
         /\ IsInjective(q) /\ e \notin Range(q) =>
              /\ IsInjective(Enqueue(q, e, cap))
              /\ Range(Enqueue(q, e, cap)) \cap Evicted(q, cap) = {}
PROOF
<1> DEFINE keep == IF Len(q) >= cap THEN Tail(q) ELSE q
           d == Evicted(q, cap)
<1>1. Len(q) \in Nat /\ <<e>> \in Seq(S) /\ Range(<<e>>) = {e} /\ IsInjective(<<e>>)
  BY LenProperties DEF Range, IsInjective
<1>2. /\ keep \in Seq(S) /\ Len(keep) + 1 <= cap
      /\ d # {} => Len(keep) + 1 = cap
      /\ Range(keep) \cup d = Range(q)
      /\ IsInjective(q) => IsInjective(keep) /\ Range(keep) \cap d = {}
  <2>1. CASE Len(q) >= cap
    <3>1. q # <<>> /\ Len(q) = cap /\ 1 \in 0..Len(q)
      BY <2>1, <1>1, EmptySeq
    <3>2. /\ SubSeq(q, 1, 1) \in Seq(S) /\ Len(SubSeq(q, 1, 1)) = 1
          /\ SubSeq(q, 1 + 1, Len(q)) \in Seq(S)
          /\ Len(SubSeq(q, 1 + 1, Len(q))) = Len(q) - 1
          /\ Parts(q, SubSeq(q, 1, 1), SubSeq(q, 1 + 1, Len(q)))
      BY <3>1, Cut
    <3>3. Tail(q) = SubSeq(q, 1 + 1, Len(q))
      BY <3>1, TailIsSubSeq
    <3>4. Range(SubSeq(q, 1, 1)) = {Head(q)}
      <4> DEFINE h == SubSeq(q, 1, 1)
      <4>1. Head(h) = q[1] /\ Head(q) = q[1]
        BY <3>1, <1>1, HeadTailOfSubSeq
      <4> HIDE DEF h
      <4>2. h \in Seq(S) /\ Len(h) = 1
        BY <3>2 DEF h
      <4>3. DOMAIN h = {1} /\ h[1] = Head(h)
        BY <4>2, LenProperties
      <4>4. Range(h) = {Head(q)}
        BY <4>1, <4>3 DEF Range
      <4> QED BY <4>4 DEF h
    <3>5. keep = SubSeq(q, 1 + 1, Len(q)) /\ d = {Head(q)}
      BY <2>1, <3>3 DEF Evicted
    <3>6. Len(keep) + 1 = cap
      BY <3>1, <3>2, <3>5, <1>1
    <3>7. Range(keep) \cup d = Range(q)
      BY <3>2, <3>4, <3>5 DEF Parts
    <3>8. IsInjective(q) => IsInjective(keep) /\ Range(keep) \cap d = {}
      BY <3>2, <3>4, <3>5 DEF Parts
    <3> QED BY <3>2, <3>5, <3>6, <3>7, <3>8
  <2>2. CASE ~(Len(q) >= cap)
    BY <2>2, <1>1 DEF Evicted
  <2> QED BY <2>1, <2>2
<1>3. Enqueue(q, e, cap) = Append(keep, e)
  BY DEF Enqueue
<1> HIDE DEF keep, d
<1>4. /\ Append(keep, e) \in Seq(S)
      /\ Len(Append(keep, e)) = Len(keep) + 1
      /\ Append(keep, e) = keep \o <<e>>
  BY <1>2, AppendProperties, AppendIsConcat
<1>5. Range(keep \o <<e>>) = Range(keep) \cup {e}
  <2> DEFINE one == <<e>>
  <2>1. keep \in Seq(S) /\ one \in Seq(S) /\ Range(one) = {e}
    BY <1>1, <1>2
  <2> HIDE DEF one
  <2>2. Range(keep \o one) = Range(keep) \cup Range(one)
    BY <2>1, RangeConcatenation
  <2>3. Range(keep \o one) = Range(keep) \cup {e}
    BY <2>1, <2>2
  <2> QED BY <2>3 DEF one
<1>6. ASSUME IsInjective(q), e \notin Range(q)
      PROVE  IsInjective(keep \o <<e>>) /\ Range(keep \o <<e>>) \cap d = {}
  <2>1. IsInjective(keep) /\ Range(keep) \cap {e} = {} /\ Range(keep) \cap d = {}
        /\ e \notin d
    BY <1>2, <1>6
  <2>2. IsInjective(keep \o <<e>>) <=>
          IsInjective(keep) /\ IsInjective(<<e>>) /\ Range(keep) \cap Range(<<e>>) = {}
    BY <1>1, <1>2, InjectiveConcat
  <2> QED BY <2>1, <2>2, <1>1, <1>5
<1>7. Range(Append(keep, e)) \cup d = Range(q) \cup {e}
  BY <1>2, <1>4, <1>5
<1>8. Len(Append(keep, e)) <= cap /\ (d # {} => Len(Append(keep, e)) = cap)
  BY <1>2, <1>4
<1> QED BY <1>3, <1>4, <1>6, <1>7, <1>8 DEF d
===============================================================================
