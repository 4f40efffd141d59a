-------------------------- MODULE WorkflowBatchProofs --------------------------
(***************************************************************************)
(* Theorems about WorkflowBatch, for imports of every size, every limit on *)
(* facts and bytes, and every set of refused keys.                         *)
(***************************************************************************)
EXTENDS WorkflowBatchProperties, FiniteSetTheorems, SequenceTheorems, TLAPS

-------------------------------------------------------------------------------
(***************************************************************************)
(* Induction, for sets: from the fact that the finite sets are well        *)
(* founded, since the numbers up to n are a finite set.                    *)
(***************************************************************************)
\* A set of numbers has a least one.
LEMMA LeastNumber ==
  ASSUME NEW T \in SUBSET Nat, T # {}
  PROVE  \E n \in T : \A k \in T : n <= k
PROOF
<1> DEFINE Up == {0..n : n \in T}
           R  == StrictSubsetOrdering(Nat)
<1>1. Up \subseteq FiniteSubsetsOf(Nat) /\ Up # {}
  <2> SUFFICES ASSUME NEW n \in T PROVE 0..n \in SUBSET Nat /\ IsFiniteSet(0..n)
    BY DEF FiniteSubsetsOf
  <2> QED BY FS_Interval
<1>2. IsWellFoundedOn(R, FiniteSubsetsOf(Nat))
  BY FS_StrictSubsetOrderingWellFounded
<1>3. \E x \in Up : \A y \in Up : <<y, x>> \notin R
  <2> HIDE DEF Up, R
  <2> QED BY <1>1, <1>2, WFMin
<1>4. PICK n \in T : \A k \in T : <<0..k, 0..n>> \notin R
  BY <1>3
<1>5. ASSUME NEW k \in T, k < n PROVE FALSE
  <2>1. 0..k \subseteq 0..n /\ n \notin 0..k /\ n \in 0..n
    BY <1>5
  <2>2. 0..k \in SUBSET Nat /\ 0..n \in SUBSET Nat /\ 0..k # 0..n
    BY <2>1
  <2> QED BY <1>4, <2>1, <2>2 DEF StrictSubsetOrdering
<1> QED BY <1>5

\* A set that has 0, and with every number the next, has all of them.
LEMMA Induction ==
  ASSUME NEW n \in Nat, NEW T, 0 \in T, \A i \in 1..n : i - 1 \in T => i \in T
  PROVE  0..n \subseteq T
PROOF
<1> SUFFICES ASSUME ~(0..n \subseteq T) PROVE FALSE
  OBVIOUS
<1> DEFINE U == (0..n) \ T
<1>1. U \in SUBSET Nat /\ U # {}
  OBVIOUS
<1>2. PICK i \in U : \A k \in U : i <= k
  <2> HIDE DEF U
  <2> QED BY <1>1, LeastNumber
<1>3. i \in 1..n /\ i - 1 \in 0..n
  BY <1>2
<1>4. i - 1 \in T
  BY <1>2, <1>3
<1> QED BY <1>2, <1>3, <1>4

\* The functions of the numbers up to n that are given by their first value and
\* by each value from the one before it.
Recursive(n, V, c, d) ==
  {g \in [0..n -> V] : g[0] = c /\ \A i \in 1..n : g[i] = d[i][g[i - 1]]}

\* There is one.
LEMMA Recursion ==
  ASSUME NEW n, NEW V, NEW c, NEW d,
         n \in Nat, c \in V, d \in [1..n -> [V -> V]]
  PROVE  \E g : g \in Recursive(n, V, c, d)
PROOF
<1> DEFINE Upto(m, g) == g[0] = c /\ \A i \in 1..m : g[i] = d[i][g[i - 1]]
           Exists(m)  == \E g \in [0..m -> V] : Upto(m, g)
           T          == {m \in 0..n : Exists(m)}
<1>1. Exists(0)
  <2>1. [i \in 0..0 |-> c] \in [0..0 -> V] /\ Upto(0, [i \in 0..0 |-> c])
    OBVIOUS
  <2> HIDE DEF Upto
  <2> QED BY <2>1
<1>2. ASSUME NEW i \in 1..n, Exists(i - 1) PROVE Exists(i)
  <2>1. PICK g \in [0..(i - 1) -> V] : Upto(i - 1, g)
    BY <1>2
  <2> DEFINE h == [j \in 0..i |-> IF j = i THEN d[i][g[i - 1]] ELSE g[j]]
  <2>2. i - 1 \in 0..(i - 1) /\ g[i - 1] \in V /\ d[i] \in [V -> V]
    OBVIOUS
  <2>3. h \in [0..i -> V]
    <3> SUFFICES ASSUME NEW j \in 0..i
                 PROVE  (IF j = i THEN d[i][g[i - 1]] ELSE g[j]) \in V
      OBVIOUS
    <3> QED BY <2>2
  <2>4. h[0] = c
    BY <2>1
  <2>5. ASSUME NEW j \in 1..i PROVE h[j] = d[j][h[j - 1]]
    <3>1. h[j - 1] = g[j - 1]
      OBVIOUS
    <3>2. CASE j = i
      BY <3>1, <3>2
    <3>3. CASE j # i
      <4>1. j \in 1..(i - 1) /\ h[j] = g[j]
        BY <3>3
      <4> QED BY <2>1, <3>1, <4>1
    <3> QED BY <3>2, <3>3
  <2>6. Upto(i, h)
    <3> HIDE DEF h
    <3> QED BY <2>4, <2>5
  <2> HIDE DEF h, Upto
  <2> QED BY <2>3, <2>6
<1>3. Exists(n)
  <2> HIDE DEF Exists
  <2>1. 0 \in T
    BY <1>1
  <2>2. ASSUME NEW i \in 1..n, i - 1 \in T PROVE i \in T
    BY <1>2, <2>2
  <2> HIDE DEF T
  <2>3. 0..n \subseteq T
    BY <2>1, <2>2, Induction
  <2>4. n \in T
    BY <2>3
  <2> QED BY <2>4 DEF T
<1> QED BY <1>3 DEF Recursive

\* Functions that start alike and go on alike.
GrowAlike(n, g, h) ==
  g[0] = h[0] /\ \A i \in 1..n : g[i - 1] = h[i - 1] => g[i] = h[i]
Alike(n, g, h) == \A i \in 0..n : g[i] = h[i]

\* There is only one function that grows in a given way.
LEMMA Uniqueness ==
  ASSUME NEW n \in Nat, NEW g, NEW h, GrowAlike(n, g, h)
  PROVE  Alike(n, g, h)
PROOF
<1> DEFINE T == {i \in 0..n : g[i] = h[i]}
<1>1. 0 \in T
  BY DEF GrowAlike
<1>2. ASSUME NEW i \in 1..n, i - 1 \in T PROVE i \in T
  BY <1>2 DEF GrowAlike
<1>3. 0..n \subseteq T
  <2> HIDE DEF T
  <2> QED BY <1>1, <1>2, Induction
<1> QED BY <1>3 DEF Alike

-------------------------------------------------------------------------------
(***************************************************************************)
(* The loop that cuts an import.                                           *)
(***************************************************************************)
Facts   == [key : Keys, length : Lengths]
States  == [starts : Seq(Nat), size : Nat]
First   == [starts |-> <<1>>, size |-> Envelope]

\* A fact's length is a number.
LEMMA FactLength ==
  ASSUME NEW f \in Facts
  PROVE  f.length \in Nat
PROOF
<1>1. f.length \in Lengths
  BY DEF Facts
<1> QED BY <1>1, InputsAssumption

\* One turn of the loop.
CutStep(fs, i, before) ==
  LET full == Full(i, before.starts[Len(before.starts)], before.size, fs[i])
  IN [starts |-> IF full THEN Append(before.starts, i) ELSE before.starts,
      size |-> ItemBytes(fs[i]) + IF full THEN Envelope ELSE before.size]

\* Cuts is the last state of the loop.
LEMMA CutsLoop ==
  ASSUME NEW fs \in Seq(Facts)
  PROVE  \E g \in [0..Len(fs) -> States] :
           /\ g[0] = First
           /\ \A i \in 1..Len(fs) : g[i] = CutStep(fs, i, g[i - 1])
           /\ Cuts(fs) = g[Len(fs)].starts
PROOF
<1> DEFINE n == Len(fs)
           d == [i \in 1..n |-> [b \in States |-> CutStep(fs, i, b)]]
           Body(g) == [i \in 0..n |-> IF i = 0 THEN First ELSE CutStep(fs, i, g[i - 1])]
           f == CHOOSE g : g = Body(g)
<1>1. First \in States
  BY LimitsAssumption DEF First, States
<1>2. ASSUME NEW i \in 1..n, NEW b \in States PROVE CutStep(fs, i, b) \in States
  <2>1. fs[i].length \in Nat
    <3>1. fs[i] \in Facts
      OBVIOUS
    <3> QED BY <3>1, FactLength
  <2>2. Append(b.starts, i) \in Seq(Nat) /\ b.starts \in Seq(Nat) /\ b.size \in Nat
    BY DEF States
  <2> DEFINE full == Full(i, b.starts[Len(b.starts)], b.size, fs[i])
  <2> HIDE DEF full
  <2>3. (IF full THEN Append(b.starts, i) ELSE b.starts) \in Seq(Nat)
    BY <2>2
  <2>4. ItemBytes(fs[i]) + (IF full THEN Envelope ELSE b.size) \in Nat
    BY <2>1, <2>2, LimitsAssumption DEF ItemBytes
  <2> QED BY <2>3, <2>4 DEF CutStep, States, full
<1>3. d \in [1..n -> [States -> States]]
  <2> HIDE DEF States, CutStep
  <2> QED BY <1>2
<1>4. n \in Nat
  OBVIOUS
<1> HIDE DEF States, First, CutStep
<1>5. PICK g \in [0..n -> States] : g[0] = First /\ \A i \in 1..n : g[i] = d[i][g[i - 1]]
  <2>1. \E g : g \in Recursive(n, States, First, d)
    <3> HIDE DEF d, n
    <3> QED BY <1>1, <1>3, <1>4, Recursion
  <2> HIDE DEF d, n
  <2> QED BY <2>1 DEF Recursive
<1>6. \A i \in 1..n : g[i] = CutStep(fs, i, g[i - 1])
  <2> TAKE i \in 1..n
  <2>1. g[i - 1] \in States
    OBVIOUS
  <2> QED BY <1>5, <2>1
<1>7. g = Body(g)
  <2>1. ASSUME NEW i \in 0..n
        PROVE  g[i] = IF i = 0 THEN First ELSE CutStep(fs, i, g[i - 1])
    <3>1. CASE i = 0
      BY <1>5, <3>1
    <3>2. CASE i # 0
      <4>1. i \in 1..n
        BY <3>2
      <4> QED BY <1>6, <3>2, <4>1
    <3> QED BY <3>1, <3>2
  <2> QED BY <2>1
<1>8. f = Body(f)
  <2> HIDE DEF Body
  <2> QED BY <1>7
<1>9. f[0] = First /\ \A i \in 1..n : f[i] = CutStep(fs, i, f[i - 1])
  <2> HIDE DEF f, n
  <2>1. f = [i \in 0..n |-> IF i = 0 THEN First ELSE CutStep(fs, i, f[i - 1])]
    BY <1>8
  <2> QED BY <1>4, <2>1
<1>10. f[n] = g[n]
  <2> HIDE DEF f, n
  <2>0. g[0] = f[0]
    BY <1>5, <1>9
  <2>1. \A i \in 1..n : g[i - 1] = f[i - 1] => g[i] = f[i]
    BY <1>6, <1>9
  <2>2. GrowAlike(n, g, f)
    BY <2>0, <2>1 DEF GrowAlike
  <2>3. Alike(n, g, f)
    BY <1>4, <2>2, Uniqueness
  <2> QED BY <1>4, <2>3 DEF Alike
<1>11. Cuts(fs) = f[n].starts
  BY DEF Cuts, CutStep, First
<1> QED BY <1>5, <1>6, <1>10, <1>11

\* The length of a body is a sum over its facts.
LEMMA BodyBytesLoop ==
  ASSUME NEW c \in Seq(Facts)
  PROVE  \E g \in [0..Len(c) -> Nat] :
           /\ g[0] = 0
           /\ \A i \in 1..Len(c) : g[i] = g[i - 1] + c[i].length
           /\ BodyBytes(c) = Envelope + g[Len(c)] + Len(c) - 1
PROOF
<1> DEFINE n == Len(c)
           d == [i \in 1..n |-> [b \in Nat |-> b + c[i].length]]
           Body(g) == [i \in 0..n |-> IF i = 0 THEN 0 ELSE g[i - 1] + c[i].length]
           f == CHOOSE g : g = Body(g)
<1>1. ASSUME NEW i \in 1..n, NEW b \in Nat PROVE b + c[i].length \in Nat
  <2>1. c[i] \in Facts
    OBVIOUS
  <2>2. c[i].length \in Nat
    BY <2>1, FactLength
  <2> QED BY <2>2
<1>2. d \in [1..n -> [Nat -> Nat]]
  BY <1>1
<1>3. n \in Nat
  OBVIOUS
<1>4. PICK g \in [0..n -> Nat] : g[0] = 0 /\ \A i \in 1..n : g[i] = d[i][g[i - 1]]
  <2>1. \E g : g \in Recursive(n, Nat, 0, d)
    <3> HIDE DEF d, n
    <3> QED BY <1>2, <1>3, Recursion
  <2> HIDE DEF d, n
  <2> QED BY <2>1 DEF Recursive
<1>5. \A i \in 1..n : g[i] = g[i - 1] + c[i].length
  <2> TAKE i \in 1..n
  <2>1. g[i - 1] \in Nat
    OBVIOUS
  <2> QED BY <1>4, <2>1
<1>6. g = Body(g)
  <2>1. ASSUME NEW i \in 0..n
        PROVE  g[i] = IF i = 0 THEN 0 ELSE g[i - 1] + c[i].length
    <3>1. CASE i = 0
      BY <1>4, <3>1
    <3>2. CASE i # 0
      <4>1. i \in 1..n
        BY <3>2
      <4> QED BY <1>5, <3>2, <4>1
    <3> QED BY <3>1, <3>2
  <2> QED BY <2>1
<1>7. f = Body(f)
  <2> HIDE DEF Body
  <2> QED BY <1>6
<1>8. f[0] = 0 /\ \A i \in 1..n : f[i] = f[i - 1] + c[i].length
  <2> HIDE DEF f, n
  <2>1. f = [i \in 0..n |-> IF i = 0 THEN 0 ELSE f[i - 1] + c[i].length]
    BY <1>7
  <2> QED BY <1>3, <2>1
<1>9. f[n] = g[n]
  <2> HIDE DEF f, n
  <2>1. \A i \in 1..n : g[i - 1] = f[i - 1] => g[i] = f[i]
    BY <1>5, <1>8
  <2>2. g[0] = f[0]
    BY <1>4, <1>8
  <2>3. GrowAlike(n, g, f)
    BY <2>1, <2>2 DEF GrowAlike
  <2>4. Alike(n, g, f)
    BY <1>3, <2>3, Uniqueness
  <2> QED BY <1>3, <2>4 DEF Alike
<1>10. BodyBytes(c) = Envelope + f[n] + n - 1
  BY DEF BodyBytes
<1> QED BY <1>4, <1>5, <1>9, <1>10

\* It grows by a fact and a comma with each fact.
LEMMA BodyBytesGrows ==
  ASSUME NEW c \in Seq(Facts), NEW f \in Facts
  PROVE  /\ BodyBytes(<<>>) = Envelope - 1
         /\ BodyBytes(c) \in Int
         /\ BodyBytes(Append(c, f)) = BodyBytes(c) + f.length + 1
PROOF
<1> DEFINE n == Len(c)
           e == Append(c, f)
<1>1. e \in Seq(Facts) /\ Len(e) = n + 1 /\ e[n + 1] = f
      /\ \A i \in 1..n : e[i] = c[i]
  BY AppendProperties
<1>2. n \in Nat /\ Envelope \in Nat /\ f.length \in Nat
  BY FactLength, LimitsAssumption
<1>3. PICK g \in [0..n -> Nat] :
        /\ g[0] = 0
        /\ \A i \in 1..n : g[i] = g[i - 1] + c[i].length
        /\ BodyBytes(c) = Envelope + g[n] + n - 1
  BY BodyBytesLoop
<1>4. PICK h \in [0..(n + 1) -> Nat] :
        /\ h[0] = 0
        /\ \A i \in 1..(n + 1) : h[i] = h[i - 1] + e[i].length
        /\ BodyBytes(e) = Envelope + h[n + 1] + (n + 1) - 1
  <2> HIDE DEF e
  <2>1. \E h \in [0..Len(e) -> Nat] :
          /\ h[0] = 0
          /\ \A i \in 1..Len(e) : h[i] = h[i - 1] + e[i].length
          /\ BodyBytes(e) = Envelope + h[Len(e)] + Len(e) - 1
    BY <1>1, BodyBytesLoop
  <2> QED BY <1>1, <2>1
<1>5. h[n] = g[n]
  <2> HIDE DEF e, n
  <2>1. \A i \in 1..n : g[i - 1] = h[i - 1] => g[i] = h[i]
    <3> TAKE i \in 1..n
    <3>1. i \in 1..(n + 1) /\ e[i] = c[i]
      BY <1>1, <1>2
    <3> QED BY <1>3, <1>4, <3>1
  <2>2. g[0] = h[0]
    BY <1>3, <1>4
  <2>3. n \in Nat
    BY <1>2
  <2>4. GrowAlike(n, g, h)
    BY <2>1, <2>2 DEF GrowAlike
  <2>5. Alike(n, g, h)
    BY <2>3, <2>4, Uniqueness
  <2> QED BY <2>3, <2>5 DEF Alike
<1>6. h[n + 1] = h[n] + f.length
  <2> HIDE DEF e, n
  <2>1. n + 1 \in 1..(n + 1) /\ (n + 1) - 1 = n
    BY <1>2
  <2> QED BY <1>1, <1>4, <2>1
<1>7. g[n] \in Nat
  BY <1>2
<1>8. BodyBytes(<<>>) = Envelope - 1
  <2>1. <<>> \in Seq(Facts) /\ Len(<<>>) = 0
    OBVIOUS
  <2>2. PICK k \in [0..0 -> Nat] : k[0] = 0 /\ BodyBytes(<<>>) = Envelope + k[0] + 0 - 1
    BY <2>1, BodyBytesLoop
  <2> QED BY <1>2, <2>2
<1> QED
  <2> HIDE DEF n
  <2>1. BodyBytes(c) \in Int
    BY <1>2, <1>3, <1>7
  <2>2. BodyBytes(e) = BodyBytes(c) + f.length + 1
    <3> HIDE DEF e
    <3>1. BodyBytes(e) = Envelope + (g[n] + f.length) + (n + 1) - 1
      BY <1>4, <1>5, <1>6
    <3>2. BodyBytes(c) = Envelope + g[n] + n - 1
      BY <1>3
    <3>3. \A x, y, z, k \in Nat : x + (y + z) + (k + 1) - 1 = (x + y + k - 1) + z + 1
      OBVIOUS
    <3>4. Envelope + (g[n] + f.length) + (n + 1) - 1 = (Envelope + g[n] + n - 1) + f.length + 1
      BY <1>2, <1>7, <3>3
    <3> QED BY <3>1, <3>2, <3>4
  <2> QED BY <1>8, <2>1, <2>2

-------------------------------------------------------------------------------
(***************************************************************************)
(* What the loop keeps true, once every fact has been found short enough.  *)
(***************************************************************************)
\* Request c is within the limits, and fact f would have reached one of them.
Closed(c, f) ==
  /\ Len(c) \in 1..MaxFacts
  /\ BodyBytes(c) <= MaxBytes
  /\ Len(c) = MaxFacts \/ BodyBytes(Append(c, f)) >= MaxBytes

LastStart(st) == st[Len(st)]

\* After i facts the requests so far begin in order, those before the last one
\* are closed, and the size kept for the last one is that of its body.
Sound(fs, i, b) ==
  /\ b.starts \in Seq(1..i) /\ b.starts # <<>> /\ b.starts[1] = 1
  /\ \A k \in 1..(Len(b.starts) - 1) :
       /\ b.starts[k] < b.starts[k + 1]
       /\ Closed(SubSeq(fs, b.starts[k], b.starts[k + 1] - 1), fs[b.starts[k + 1]])
  /\ Len(SubSeq(fs, LastStart(b.starts), i)) \in 1..MaxFacts
  /\ BodyBytes(SubSeq(fs, LastStart(b.starts), i)) = b.size - 1
  /\ b.size <= MaxBytes

\* The facts from j to i.
LEMMA Part ==
  ASSUME NEW fs \in Seq(Facts), NEW j \in 1..Len(fs), NEW i \in j..Len(fs)
  PROVE  /\ SubSeq(fs, j, i) \in Seq(Facts)
         /\ Len(SubSeq(fs, j, i)) = i - j + 1
         /\ \A k \in 1..(i - j + 1) : SubSeq(fs, j, i)[k] = fs[j + k - 1]
         /\ SubSeq(fs, j, i - 1) \in Seq(Facts)
         /\ SubSeq(fs, j, i) = Append(SubSeq(fs, j, i - 1), fs[i])
         /\ SubSeq(fs, j, j - 1) = <<>>
PROOF
<1>1. \A k \in j..i : fs[k] \in Facts
  BY ElementOfSeq
<1>2. j \in Int /\ i \in Int /\ i - 1 \in Int /\ j - 1 \in Int /\ j <= i /\ j - 1 < j
  OBVIOUS
<1>3. /\ SubSeq(fs, j, i) \in Seq(Facts)
      /\ Len(SubSeq(fs, j, i)) = i - j + 1
      /\ \A k \in 1..(i - j + 1) : SubSeq(fs, j, i)[k] = fs[j + k - 1]
  BY <1>1, <1>2, SubSeqProperties
<1>4. SubSeq(fs, j, i - 1) \in Seq(Facts)
  BY <1>1, <1>2, SubSeqProperties
<1>5. SubSeq(fs, j, i) = SubSeq(fs, j, i - 1) \o <<fs[i]>>
  BY SubSeqRecursiveSecond
<1>6. fs[i] \in Facts
  BY <1>1, <1>2
<1>7. Append(SubSeq(fs, j, i - 1), fs[i]) = SubSeq(fs, j, i - 1) \o <<fs[i]>>
  BY <1>4, <1>6, AppendIsConcat
<1>8. SubSeq(fs, j, j - 1) = <<>>
  BY <1>2, SubSeqEmpty
<1> QED BY <1>3, <1>4, <1>5, <1>7, <1>8

\* One more fact: the part from j on grows by it and a comma.
LEMMA PartBytes ==
  ASSUME NEW fs \in Seq(Facts), NEW j \in 1..Len(fs), NEW i \in j..Len(fs)
  PROVE  /\ BodyBytes(SubSeq(fs, j, i - 1)) \in Int
         /\ BodyBytes(SubSeq(fs, j, i)) =
              BodyBytes(SubSeq(fs, j, i - 1)) + ItemBytes(fs[i])
         /\ BodyBytes(SubSeq(fs, i, i)) = Envelope + ItemBytes(fs[i]) - 1
PROOF
<1>1. fs[i] \in Facts /\ fs[i].length \in Nat /\ i \in 1..Len(fs)
  BY ElementOfSeq, FactLength
<1>2. /\ SubSeq(fs, j, i - 1) \in Seq(Facts)
      /\ SubSeq(fs, j, i) = Append(SubSeq(fs, j, i - 1), fs[i])
  BY Part
<1>3. /\ BodyBytes(SubSeq(fs, j, i - 1)) \in Int
      /\ BodyBytes(Append(SubSeq(fs, j, i - 1), fs[i])) =
           BodyBytes(SubSeq(fs, j, i - 1)) + fs[i].length + 1
  BY <1>1, <1>2, BodyBytesGrows
<1>4. i \in i..Len(fs)
  BY <1>1
<1>5. SubSeq(fs, i, i - 1) = <<>> /\ SubSeq(fs, i, i) = Append(SubSeq(fs, i, i - 1), fs[i])
  BY <1>1, <1>4, Part
<1>6. <<>> \in Seq(Facts)
  OBVIOUS
<1>7. /\ BodyBytes(<<>>) = Envelope - 1
      /\ BodyBytes(Append(<<>>, fs[i])) = BodyBytes(<<>>) + fs[i].length + 1
  BY <1>1, <1>6, BodyBytesGrows
<1>8. BodyBytes(SubSeq(fs, i, i)) = (Envelope - 1) + fs[i].length + 1
  BY <1>5, <1>7
<1>9. BodyBytes(SubSeq(fs, j, i)) = BodyBytes(SubSeq(fs, j, i - 1)) + (fs[i].length + 1)
  BY <1>1, <1>2, <1>3
<1> QED BY <1>1, <1>3, <1>8, <1>9, LimitsAssumption DEF ItemBytes

\* The first fact opens the first request.
LEMMA LoopBegins ==
  ASSUME NEW fs \in Seq(Facts), Len(fs) >= 1, ~TooLong(fs[1])
  PROVE  Sound(fs, 1, CutStep(fs, 1, First))
PROOF
<1>1. 1 \in 1..Len(fs) /\ 1 \in 1..1 /\ 1 \in 1..Len(fs)
  OBVIOUS
<1>2. fs[1] \in Facts /\ fs[1].length \in Nat
  BY <1>1, ElementOfSeq, FactLength
<1>3. Envelope + ItemBytes(fs[1]) <= MaxBytes /\ ItemBytes(fs[1]) \in Nat
  BY <1>2, LimitsAssumption DEF TooLong, ItemBytes
<1>4. First.starts = <<1>> /\ First.size = Envelope /\ Len(<<1>>) = 1 /\ <<1>>[1] = 1
  BY DEF First
<1>5. ~Full(1, <<1>>[1], Envelope, fs[1])
  BY <1>3, <1>4, LimitsAssumption DEF Full
<1>6. CutStep(fs, 1, First) = [starts |-> <<1>>, size |-> ItemBytes(fs[1]) + Envelope]
  BY <1>4, <1>5 DEF CutStep
<1>7. /\ SubSeq(fs, 1, 1) \in Seq(Facts)
      /\ Len(SubSeq(fs, 1, 1)) = 1
      /\ BodyBytes(SubSeq(fs, 1, 1)) = Envelope + ItemBytes(fs[1]) - 1
  <2>1. 1 \in 1..Len(fs)
    BY <1>1
  <2>2. Len(SubSeq(fs, 1, 1)) = (1 - 1) + 1 /\ SubSeq(fs, 1, 1) \in Seq(Facts)
    BY <2>1, Part
  <2>3. BodyBytes(SubSeq(fs, 1, 1)) = Envelope + ItemBytes(fs[1]) - 1
    BY <2>1, PartBytes
  <2> QED BY <2>2, <2>3
<1>8. <<1>> \in Seq(1..1) /\ <<1>> # <<>> /\ LastStart(<<1>>) = 1
  BY DEF LastStart
<1>9. ItemBytes(fs[1]) + Envelope <= MaxBytes
      /\ Envelope + ItemBytes(fs[1]) - 1 = (ItemBytes(fs[1]) + Envelope) - 1
  BY <1>3, LimitsAssumption
<1> DEFINE b == CutStep(fs, 1, First)
<1>10. b.starts = <<1>> /\ b.size = ItemBytes(fs[1]) + Envelope
  BY <1>6
<1> HIDE DEF b
<1>11. 1 \in 1..MaxFacts
  BY LimitsAssumption
<1>12. Sound(fs, 1, b)
  BY <1>4, <1>7, <1>8, <1>9, <1>10, <1>11 DEF Sound
<1> QED BY <1>12 DEF b

\* Every other fact joins the last request or opens a new one.
LEMMA LoopGoesOn ==
  ASSUME NEW fs \in Seq(Facts), NEW i \in 2..Len(fs), ~TooLong(fs[i]),
         NEW b \in States, Sound(fs, i - 1, b)
  PROVE  Sound(fs, i, CutStep(fs, i, b))
PROOF
<1> DEFINE st == b.starts
           m == Len(st)
           j == st[m]
           old == SubSeq(fs, j, i - 1)
           full == Full(i, j, b.size, fs[i])
<1>1. fs[i] \in Facts /\ fs[i].length \in Nat /\ i \in 1..Len(fs) /\ i - 1 \in Nat
  <2>1. i \in 1..Len(fs)
    OBVIOUS
  <2> QED BY <2>1, ElementOfSeq, FactLength
<1>2. /\ st \in Seq(1..(i - 1)) /\ st # <<>> /\ st[1] = 1
      /\ b.size \in Nat /\ b.size <= MaxBytes
      /\ Len(old) \in 1..MaxFacts /\ BodyBytes(old) = b.size - 1
  BY DEF Sound, States, LastStart
<1>3. m \in Nat \ {0} /\ j \in 1..(i - 1) /\ st \in [1..m -> 1..(i - 1)]
  <2>1. m \in Nat \ {0}
    BY <1>2, EmptySeq
  <2>2. st \in [1..m -> 1..(i - 1)]
    BY <1>2, LenProperties
  <2>3. m \in 1..m
    BY <2>1
  <2> HIDE DEF st, m
  <2>4. st[m] \in 1..(i - 1)
    BY <2>2, <2>3
  <2> QED BY <2>1, <2>2, <2>4
<1>4. j \in 1..Len(fs) /\ i - 1 \in j..Len(fs) /\ i \in j..Len(fs) /\ i \in i..Len(fs)
  BY <1>1, <1>3
<1>5. Len(old) = (i - 1) - j + 1 /\ old \in Seq(Facts)
  BY <1>4, Part
<1>6. ASSUME NEW k \in 1..(m - 1)
      PROVE  /\ st[k] < st[k + 1]
             /\ Closed(SubSeq(fs, st[k], st[k + 1] - 1), fs[st[k + 1]])
  BY <1>6 DEF Sound
<1>7. MaxFacts \in Nat \ {0} /\ MaxBytes \in Nat /\ Envelope \in Nat
      /\ ItemBytes(fs[i]) \in Nat /\ ItemBytes(fs[i]) = fs[i].length + 1
      /\ Envelope + ItemBytes(fs[i]) <= MaxBytes
  <2>1. MaxFacts \in Nat \ {0} /\ MaxBytes \in Nat /\ Envelope \in Nat
    BY LimitsAssumption
  <2>2. ItemBytes(fs[i]) = fs[i].length + 1
    BY DEF ItemBytes
  <2>3. ~(Envelope + ItemBytes(fs[i]) > MaxBytes)
    BY DEF TooLong
  <2> QED BY <1>1, <2>1, <2>2, <2>3
<1>8. full <=> b.size + ItemBytes(fs[i]) > MaxBytes \/ i - j = MaxFacts
  BY DEF Full
<1>9. BodyBytes(SubSeq(fs, j, i)) = BodyBytes(old) + ItemBytes(fs[i])
      /\ BodyBytes(SubSeq(fs, i, i)) = Envelope + ItemBytes(fs[i]) - 1
  BY <1>4, PartBytes
<1>10. CutStep(fs, i, b) =
         [starts |-> IF full THEN Append(st, i) ELSE st,
          size |-> ItemBytes(fs[i]) + IF full THEN Envelope ELSE b.size]
  BY DEF CutStep
<1>11. CASE full
  <2> DEFINE c == CutStep(fs, i, b)
             tt == Append(st, i)
  <2>1. c.starts = tt /\ c.size = ItemBytes(fs[i]) + Envelope
    BY <1>10, <1>11
  <2>2. st \in Seq(1..i) /\ i \in 1..i
    <3>1. 1..(i - 1) \subseteq 1..i /\ i \in 1..i
      BY <1>1
    <3> QED BY <1>2, <3>1, SeqMonotonic
  <2>3. /\ tt \in Seq(1..i) /\ tt # <<>> /\ Len(tt) = m + 1
        /\ \A k \in 1..m : tt[k] = st[k]
        /\ tt[m + 1] = i
    <3> DEFINE S == 1..i
    <3>1. st \in Seq(S) /\ i \in S
      BY <2>2
    <3> HIDE DEF st, S
    <3>2. /\ tt \in Seq(S) /\ tt # <<>> /\ Len(tt) = m + 1
          /\ \A k \in 1..m : tt[k] = st[k]
          /\ tt[m + 1] = i
      BY <3>1, AppendProperties
    <3> QED BY <3>2 DEF S
  <2>4. tt[1] = 1 /\ LastStart(tt) = i
    BY <1>2, <1>3, <2>3 DEF LastStart
  <2>5. Closed(old, fs[i])
    <3>1. BodyBytes(Append(old, fs[i])) = BodyBytes(old) + fs[i].length + 1
      BY <1>1, <1>5, BodyBytesGrows
    <3>2. Len(old) = i - j
      BY <1>1, <1>3, <1>5
    <3>3. BodyBytes(old) <= MaxBytes
      BY <1>2, <1>7
    <3>4. Len(old) = MaxFacts \/ BodyBytes(Append(old, fs[i])) >= MaxBytes
      <4> HIDE DEF old, j
      <4>1. CASE i - j = MaxFacts
        BY <3>2, <4>1
      <4>2. CASE b.size + ItemBytes(fs[i]) > MaxBytes
        <5>1. BodyBytes(Append(old, fs[i])) = (b.size - 1) + (ItemBytes(fs[i]) - 1) + 1
          BY <1>1, <1>2, <1>7, <3>1
        <5>2. \A x, y, z \in Nat : x + y > z => (x - 1) + (y - 1) + 1 >= z
          OBVIOUS
        <5>3. (b.size - 1) + (ItemBytes(fs[i]) - 1) + 1 >= MaxBytes
          BY <1>2, <1>7, <4>2, <5>2
        <5> QED BY <5>1, <5>3
      <4> QED BY <1>8, <1>11, <4>1, <4>2
    <3> QED BY <1>2, <3>3, <3>4 DEF Closed
  <2>6. ASSUME NEW k \in 1..m
        PROVE  /\ tt[k] < tt[k + 1]
               /\ Closed(SubSeq(fs, tt[k], tt[k + 1] - 1), fs[tt[k + 1]])
    <3>1. CASE k = m
      <4>1. tt[k] = j /\ tt[k + 1] = i
        BY <2>3, <3>1
      <4>2. j < i
        BY <1>1, <1>3
      <4> QED BY <2>5, <4>1, <4>2
    <3>2. CASE k # m
      <4>1. k \in 1..(m - 1) /\ k + 1 \in 1..m
        BY <1>3, <3>2
      <4>2. tt[k] = st[k] /\ tt[k + 1] = st[k + 1]
        BY <2>3, <4>1
      <4> QED BY <1>6, <4>1, <4>2
    <3> QED BY <3>1, <3>2
  <2>7. Len(SubSeq(fs, i, i)) \in 1..MaxFacts
    <3>1. Len(SubSeq(fs, i, i)) = i - i + 1
      BY <1>1, <1>4, Part
    <3> QED BY <1>1, <1>7, <3>1
  <2>8. BodyBytes(SubSeq(fs, i, i)) = c.size - 1 /\ c.size <= MaxBytes
    BY <1>7, <1>9, <2>1
  <2>9. Len(c.starts) - 1 = m
    BY <1>3, <2>1, <2>3
  <2> HIDE DEF c, tt, m
  <2> QED BY <2>1, <2>3, <2>4, <2>6, <2>7, <2>8, <2>9 DEF Sound, c
<1>12. CASE ~full
  <2> DEFINE c == CutStep(fs, i, b)
  <2>1. c.starts = st /\ c.size = ItemBytes(fs[i]) + b.size
    BY <1>10, <1>12
  <2>2. st \in Seq(1..i)
    <3>1. 1..(i - 1) \subseteq 1..i
      BY <1>1
    <3> QED BY <1>2, <3>1, SeqMonotonic
  <2>3. Len(SubSeq(fs, j, i)) \in 1..MaxFacts
    <3>1. Len(SubSeq(fs, j, i)) = i - j + 1
      BY <1>4, Part
    <3> HIDE DEF j, old
    <3>2. i - j <= MaxFacts
      BY <1>1, <1>2, <1>3, <1>5, <1>7
    <3>3. i - j # MaxFacts
      BY <1>8, <1>12
    <3>4. i - j + 1 \in 1..MaxFacts
      BY <1>1, <1>3, <1>7, <3>2, <3>3
    <3> QED BY <3>1, <3>4
  <2>4. BodyBytes(SubSeq(fs, j, i)) = c.size - 1
    <3> HIDE DEF c, j, old
    <3>1. BodyBytes(SubSeq(fs, j, i)) = (b.size - 1) + ItemBytes(fs[i])
      BY <1>2, <1>9
    <3>2. \A x, y \in Nat : (x + y) - 1 = (y - 1) + x
      OBVIOUS
    <3>3. (ItemBytes(fs[i]) + b.size) - 1 = (b.size - 1) + ItemBytes(fs[i])
      BY <1>2, <1>7, <3>2
    <3> QED BY <2>1, <3>1, <3>3
  <2>5. c.size <= MaxBytes
    BY <1>2, <1>7, <1>8, <1>12, <2>1
  <2>6. LastStart(st) = j
    BY DEF LastStart
  <2> HIDE DEF c, st, j, m
  <2>7. \A k \in 1..(Len(st) - 1) :
          /\ st[k] < st[k + 1]
          /\ Closed(SubSeq(fs, st[k], st[k + 1] - 1), fs[st[k + 1]])
    BY <1>6 DEF m
  <2> QED BY <1>2, <2>1, <2>2, <2>3, <2>4, <2>5, <2>6, <2>7 DEF Sound, c
<1> QED BY <1>11, <1>12

\* What Cuts returns is the starts of a sound state after the last fact.
LEMMA CutsSound ==
  ASSUME NEW fs \in Seq(Facts), ~Rejected(fs)
  PROVE  \E b \in States : Sound(fs, Len(fs), b) /\ Cuts(fs) = b.starts
PROOF
<1> DEFINE n == Len(fs)
<1>1. n \in Nat /\ n >= 1
  <2>1. fs # <<>>
    BY DEF Rejected
  <2> QED BY <2>1, EmptySeq
<1>2. \A i \in 1..n : ~TooLong(fs[i])
  BY DEF Rejected
<1>3. PICK g \in [0..n -> States] :
        /\ g[0] = First
        /\ \A i \in 1..n : g[i] = CutStep(fs, i, g[i - 1])
        /\ Cuts(fs) = g[n].starts
  BY CutsLoop
<1> DEFINE T == {0} \cup {i \in 1..n : Sound(fs, i, g[i])}
<1>4. ASSUME NEW i \in 1..n, i - 1 \in T PROVE i \in T
  <2>1. g[i] = CutStep(fs, i, g[i - 1]) /\ ~TooLong(fs[i])
    BY <1>2, <1>3
  <2>2. CASE i = 1
    <3>1. g[1] = CutStep(fs, 1, First) /\ ~TooLong(fs[1])
      BY <1>3, <2>1, <2>2
    <3>2. Sound(fs, 1, g[1])
      BY <1>1, <3>1, LoopBegins
    <3> QED BY <2>2, <3>2
  <2>3. CASE i # 1
    <3>1. i \in 2..Len(fs) /\ i - 1 \in 1..n /\ i - 1 \in 0..n
      BY <1>1, <2>3
    <3>2. g[i - 1] \in States
      BY <3>1
    <3>3. Sound(fs, i - 1, g[i - 1])
      BY <1>4, <3>1
    <3>4. Sound(fs, i, CutStep(fs, i, g[i - 1]))
      BY <2>1, <3>1, <3>2, <3>3, LoopGoesOn
    <3> QED BY <2>1, <3>4
  <2> QED BY <2>2, <2>3
<1>5. n \in T
  <2>1. 0 \in T
    OBVIOUS
  <2>2. n \in Nat
    BY <1>1
  <2> HIDE DEF T, n
  <2>3. 0..n \subseteq T
    BY <1>4, <2>1, <2>2, Induction
  <2> QED BY <2>2, <2>3
<1>6. g[n] \in States /\ Sound(fs, n, g[n])
  BY <1>1, <1>5
<1> QED BY <1>3, <1>6

\* Every request begins after the one before it.
LEMMA StartsAscend ==
  ASSUME NEW fs \in Seq(Facts), ~Rejected(fs)
  PROVE  /\ Cuts(fs) \in Seq(1..Len(fs)) /\ Cuts(fs) # <<>> /\ Cuts(fs)[1] = 1
         /\ \A k \in 1..(Len(Cuts(fs)) - 1) : Cuts(fs)[k] < Cuts(fs)[k + 1]
         /\ Len(Cuts(fs)) \in 1..Len(fs)
PROOF
<1> DEFINE st == Cuts(fs)
           n  == Len(fs)
           m  == Len(st)
<1>1. PICK b \in States : Sound(fs, Len(fs), b) /\ Cuts(fs) = b.starts
  BY CutsSound
<1>2. /\ st \in Seq(1..n) /\ st # <<>> /\ st[1] = 1
      /\ \A k \in 1..(m - 1) : st[k] < st[k + 1]
  BY <1>1 DEF Sound
<1>3. m \in Nat \ {0} /\ n \in Nat
  BY <1>2, EmptySeq, LenProperties
<1> HIDE DEF st, m, n
<1>4. \A k \in 1..m : st[k] \in 1..n
  BY <1>2, ElementOfSeq DEF m
<1> DEFINE T == {0} \cup {k \in 1..m : k <= st[k]}
<1>5. ASSUME NEW i \in 1..m, i - 1 \in T PROVE i \in T
  <2>1. CASE i = 1
    BY <1>2, <2>1
  <2>2. CASE i # 1
    <3>1. i - 1 \in 1..(m - 1) /\ i - 1 \in 1..m /\ (i - 1) + 1 = i
      BY <1>3, <2>2
    <3>2. i - 1 <= st[i - 1]
      BY <1>5, <3>1
    <3>3. st[i - 1] < st[i]
      BY <1>2, <3>1
    <3>4. st[i] \in 1..n /\ st[i - 1] \in 1..n
      BY <1>4, <3>1
    <3> QED BY <1>3, <3>2, <3>3, <3>4
  <2> QED BY <2>1, <2>2
<1>6. m \in T
  <2>1. 0 \in T /\ m \in Nat
    BY <1>3
  <2> HIDE DEF T
  <2>2. 0..m \subseteq T
    BY <1>5, <2>1, Induction
  <2> QED BY <2>1, <2>2
<1>7. m <= st[m] /\ st[m] \in 1..n
  BY <1>3, <1>4, <1>6
<1>8. m \in 1..n
  BY <1>3, <1>7
<1> QED BY <1>2, <1>8 DEF st, m, n

\* The facts of request k, and the fact after its last one.
LEMMA ChunkFacts ==
  ASSUME NEW fs \in Seq(Facts), ~Rejected(fs), NEW k \in 1..Len(Cuts(fs))
  PROVE  LET st   == Cuts(fs)
             c    == Chunk(fs, st, k)
             next == IF k < Len(st) THEN st[k + 1] ELSE Len(fs) + 1
         IN /\ st[k] \in 1..Len(fs) /\ next \in (st[k] + 1)..(Len(fs) + 1)
            /\ c \in Seq(Facts) /\ Len(c) = next - st[k]
            /\ \A i \in 1..Len(c) : c[i] = fs[st[k] + i - 1]
PROOF
<1> DEFINE st   == Cuts(fs)
           m    == Len(st)
           n    == Len(fs)
           next == IF k < m THEN st[k + 1] ELSE n + 1
<1>1. /\ st \in Seq(1..n) /\ m \in 1..n /\ n \in Nat
      /\ \A j \in 1..(m - 1) : st[j] < st[j + 1]
  BY StartsAscend, LenProperties
<1> HIDE DEF st, m, n
<1>2. \A j \in 1..m : st[j] \in 1..n
  BY <1>1, ElementOfSeq DEF m
<1>3. k \in 1..m
  BY DEF m, st
<1>4. st[k] \in 1..n
  BY <1>2, <1>3
<1>5. next \in (st[k] + 1)..(n + 1)
  <2>1. CASE k < m
    <3>1. k \in 1..(m - 1) /\ k + 1 \in 1..m
      BY <1>1, <1>3, <2>1
    <3>2. st[k] < st[k + 1] /\ st[k + 1] \in 1..n
      BY <1>1, <1>2, <3>1
    <3> QED BY <1>1, <1>4, <2>1, <3>2
  <2>2. CASE ~(k < m)
    BY <1>1, <1>4, <2>2
  <2> QED BY <2>1, <2>2
<1>6. Chunk(fs, st, k) = SubSeq(fs, st[k], next - 1)
  <2>1. CASE k < m
    BY <2>1 DEF Chunk, m
  <2>2. CASE ~(k < m)
    <3>1. (n + 1) - 1 = n
      BY <1>1
    <3> QED BY <2>2, <3>1 DEF Chunk, m, n
  <2> QED BY <2>1, <2>2
<1> HIDE DEF next
<1>7. next - 1 \in st[k]..n /\ (next - 1) - st[k] + 1 = next - st[k]
  BY <1>1, <1>4, <1>5
<1>8. /\ SubSeq(fs, st[k], next - 1) \in Seq(Facts)
      /\ Len(SubSeq(fs, st[k], next - 1)) = (next - 1) - st[k] + 1
      /\ \A i \in 1..((next - 1) - st[k] + 1) :
           SubSeq(fs, st[k], next - 1)[i] = fs[st[k] + i - 1]
  BY <1>4, <1>7, Part DEF n
<1>9. /\ Chunk(fs, st, k) \in Seq(Facts)
      /\ Len(Chunk(fs, st, k)) = next - st[k]
      /\ \A i \in 1..Len(Chunk(fs, st, k)) : Chunk(fs, st, k)[i] = fs[st[k] + i - 1]
  BY <1>6, <1>7, <1>8
<1> QED BY <1>4, <1>5, <1>9 DEF next, st, m, n

\* Every request is within both limits, and none but the last has room left.
LEMMA WellCut ==
  ASSUME NEW fs \in Seq(Facts), ~Rejected(fs), NEW k \in 1..Len(Cuts(fs))
  PROVE  LET c == Chunk(fs, Cuts(fs), k) IN
           /\ Len(c) \in 1..MaxFacts
           /\ BodyBytes(c) <= MaxBytes
           /\ k < Len(Cuts(fs)) =>
                \/ Len(c) = MaxFacts
                \/ BodyBytes(Append(c, fs[Cuts(fs)[k + 1]])) >= MaxBytes
PROOF
<1> DEFINE st == Cuts(fs)
           c  == Chunk(fs, st, k)
<1>1. PICK b \in States : Sound(fs, Len(fs), b) /\ st = b.starts
  BY CutsSound
<1>2. Len(st) \in Nat
  BY StartsAscend, LenProperties
<1>3. CASE k < Len(st)
  <2>1. k \in 1..(Len(st) - 1)
    BY <1>2, <1>3
  <2>2. Closed(SubSeq(fs, st[k], st[k + 1] - 1), fs[st[k + 1]])
    BY <1>1, <2>1 DEF Sound
  <2>3. c = SubSeq(fs, st[k], st[k + 1] - 1)
    BY <1>3 DEF Chunk
  <2> QED BY <2>2, <2>3 DEF Closed
<1>4. CASE ~(k < Len(st))
  <2>1. k = Len(st)
    BY <1>2, <1>4
  <2>2. c = SubSeq(fs, LastStart(st), Len(fs))
    BY <1>4, <2>1 DEF Chunk, LastStart
  <2>3. /\ Len(c) \in 1..MaxFacts
        /\ BodyBytes(c) = b.size - 1 /\ b.size <= MaxBytes /\ b.size \in Nat
    BY <1>1, <2>2 DEF Sound, States
  <2>4. BodyBytes(c) <= MaxBytes
    <3> HIDE DEF c
    <3> QED BY <2>3, LimitsAssumption
  <2> QED BY <1>4, <2>3, <2>4
<1> QED BY <1>3, <1>4

-------------------------------------------------------------------------------
(***************************************************************************)
(* What the service answers, and what is kept of it.                       *)
(***************************************************************************)
RowSet == [index : Nat, key : Keys, accepted : BOOLEAN, duplicate : BOOLEAN]

\* One row per fact, in order.
LEMMA RowsAreRows ==
  ASSUME NEW c \in Seq(Facts)
  PROVE  /\ Rows(c) \in Seq(RowSet) /\ Len(Rows(c)) = Len(c)
         /\ \A i \in 1..Len(c) :
              /\ Rows(c)[i].index = i - 1
              /\ Rows(c)[i].key = c[i].key
              /\ Rows(c)[i].accepted <=> c[i].key \notin Refused
              /\ Rows(c)[i].duplicate <=>
                   /\ c[i].key \notin Refused
                   /\ \/ c[i].key \in ledger
                      \/ \E j \in 1..(i - 1) : c[j].key = c[i].key
PROOF
<1> DEFINE n == Len(c)
           ok(i) == c[i].key \notin Refused
           dup(i) == ok(i) /\ \/ c[i].key \in ledger
                              \/ \E j \in 1..(i - 1) : c[j].key = c[i].key
           row(i) == [index |-> i - 1, key |-> c[i].key, accepted |-> ok(i),
                      duplicate |-> dup(i)]
<1>1. n \in Nat
  OBVIOUS
<1>2. ASSUME NEW i \in 1..n PROVE row(i) \in RowSet
  <2>1. c[i].key \in Keys
    <3>1. c[i] \in Facts
      BY ElementOfSeq
    <3> QED BY <3>1 DEF Facts
  <2>2. i - 1 \in Nat
    OBVIOUS
  <2>3. ok(i) \in BOOLEAN /\ dup(i) \in BOOLEAN
    OBVIOUS
  <2> HIDE DEF ok, dup
  <2> QED BY <2>1, <2>2, <2>3 DEF RowSet
<1>3. Rows(c) = [i \in 1..n |-> row(i)]
  BY DEF Rows
<1>4. Rows(c) \in [1..n -> RowSet]
  <2> HIDE DEF row
  <2> QED BY <1>2, <1>3
<1>5. Rows(c) \in Seq(RowSet) /\ Len(Rows(c)) = n
  <2>1. Rows(c) \in Seq(RowSet) /\ DOMAIN Rows(c) = 1..n
    BY <1>1, <1>4, SeqDef
  <2>2. DOMAIN Rows(c) = 1..Len(Rows(c)) /\ Len(Rows(c)) \in Nat
    BY <2>1, LenProperties
  <2> QED BY <1>1, <2>1, <2>2
<1>6. ASSUME NEW i \in 1..n
      PROVE  /\ Rows(c)[i].index = i - 1
             /\ Rows(c)[i].key = c[i].key
             /\ Rows(c)[i].accepted <=> ok(i)
             /\ Rows(c)[i].duplicate <=> dup(i)
  <2>1. Rows(c)[i] = row(i)
    <3> HIDE DEF row
    <3> QED BY <1>3
  <2> HIDE DEF ok, dup
  <2> QED BY <2>1
<1> QED BY <1>5, <1>6

\* A count is at most the number of rows, and then every row is counted.
LEMMA CountBounds ==
  ASSUME NEW S, NEW rows \in Seq(S), NEW field
  PROVE  /\ Count(rows, field) \in Nat
         /\ Count(rows, field) <= Len(rows)
         /\ Count(rows, field) = Len(rows) => \A i \in 1..Len(rows) : rows[i][field]
PROOF
<1> DEFINE D == 1..Len(rows)
           T == {i \in D : rows[i][field]}
<1>1. IsFiniteSet(D) /\ Cardinality(D) = Len(rows)
  <2>1. Len(rows) \in Nat /\ Len(rows) \in Int /\ 1 \in Int
    BY LenProperties
  <2>2. /\ IsFiniteSet(1..Len(rows))
        /\ Cardinality(1..Len(rows)) = IF 1 > Len(rows) THEN 0 ELSE Len(rows) - 1 + 1
    BY <2>1, FS_Interval
  <2> QED BY <2>1, <2>2
<1>2. T \in SUBSET D
  OBVIOUS
<1> HIDE DEF D
<1>3. /\ IsFiniteSet(T) /\ Cardinality(T) <= Cardinality(D)
      /\ Cardinality(D) = Cardinality(T) => D = T
  <2> HIDE DEF T
  <2> QED BY <1>1, <1>2, FS_Subset
<1>4. Cardinality(T) \in Nat
  <2> HIDE DEF T
  <2> QED BY <1>3, FS_CardinalityType
<1>5. Count(rows, field) = Cardinality(T)
  BY DEF Count, D
<1>6. Count(rows, field) = Len(rows) => D = T
  <2> HIDE DEF T
  <2> QED BY <1>1, <1>3, <1>5
<1>7. D = T => \A i \in D : rows[i][field]
  OBVIOUS
<1> HIDE DEF T
<1> QED BY <1>1, <1>3, <1>4, <1>5, <1>6, <1>7 DEF D

\* Counting is additive.
LEMMA CountConcat ==
  ASSUME NEW S, NEW r \in Seq(S), NEW s \in Seq(S), NEW field
  PROVE  Count(r \o s, field) = Count(r, field) + Count(s, field)
PROOF
<1> DEFINE m == Len(r)
           n == Len(s)
           R == {i \in 1..m : r[i][field]}
           T == {i \in 1..n : s[i][field]}
           U == {i \in (m + 1)..(m + n) : s[i - m][field]}
           W == {i \in 1..(m + n) : (r \o s)[i][field]}
<1>1. m \in Nat /\ n \in Nat
  BY LenProperties
<1>2. /\ Len(r \o s) = m + n
      /\ \A i \in 1..(m + n) : (r \o s)[i] = IF i <= m THEN r[i] ELSE s[i - m]
  BY ConcatProperties
<1>3. W = R \cup U
  <2> HIDE DEF m, n
  <2>1. ASSUME NEW i PROVE i \in W <=> i \in R \cup U
    <3>1. CASE i \in 1..m
      BY <1>1, <1>2, <3>1
    <3>2. CASE i \in (m + 1)..(m + n)
      BY <1>1, <1>2, <3>2
    <3>3. CASE i \notin 1..m /\ i \notin (m + 1)..(m + n)
      <4>1. i \notin 1..(m + n)
        BY <1>1, <3>3
      <4> QED BY <3>3, <4>1
    <3> QED BY <3>1, <3>2, <3>3
  <2> HIDE DEF W, R, U
  <2> QED BY <2>1
<1>4. R \cap U = {}
  <2> HIDE DEF m, n
  <2> QED BY <1>1
<1>5. IsFiniteSet(R) /\ IsFiniteSet(T)
  <2>1. IsFiniteSet(1..m) /\ IsFiniteSet(1..n)
    BY <1>1, FS_Interval
  <2>2. R \in SUBSET (1..m) /\ T \in SUBSET (1..n)
    OBVIOUS
  <2> HIDE DEF m, n, R, T
  <2> QED BY <2>1, <2>2, FS_Subset
<1>6. IsFiniteSet(U) /\ Cardinality(U) = Cardinality(T)
  <2> DEFINE f == [i \in T |-> i + m]
  <2>1. f \in Bijection(T, U)
    <3> HIDE DEF m, n
    <3>1. f \in [T -> U]
      <4> SUFFICES ASSUME NEW i \in T PROVE i + m \in U
        OBVIOUS
      <4>1. i + m \in (m + 1)..(m + n) /\ (i + m) - m = i
        BY <1>1
      <4> QED BY <4>1
    <3>2. \A a, b \in T : f[a] = f[b] => a = b
      BY <1>1
    <3>3. ASSUME NEW u \in U PROVE \E a \in T : f[a] = u
      <4>1. u - m \in T /\ (u - m) + m = u
        BY <1>1
      <4> QED BY <4>1
    <3> HIDE DEF f, T, U
    <3> QED BY <3>1, <3>2, <3>3 DEF Bijection, Injection, Surjection, IsInjective
  <2>2. ExistsBijection(T, U)
    <3> HIDE DEF f, T, U
    <3> QED BY <2>1 DEF ExistsBijection
  <2> HIDE DEF T, U
  <2> QED BY <1>5, <2>2, FS_Bijection
<1>7. Cardinality(R \cup U) = Cardinality(R) + Cardinality(U) - Cardinality(R \cap U)
  <2> HIDE DEF R, U
  <2> QED BY <1>5, <1>6, FS_Union
<1>8. Cardinality(R) \in Nat /\ Cardinality(U) \in Nat
  <2> HIDE DEF R, U
  <2> QED BY <1>5, <1>6, FS_CardinalityType
<1>9. Cardinality(R \cap U) = 0
  BY <1>4, FS_EmptySet
<1>10. Cardinality(W) = Cardinality(R) + Cardinality(T)
  <2> HIDE DEF R, T, U, W
  <2> QED BY <1>3, <1>6, <1>7, <1>8, <1>9
<1>11. /\ Count(r \o s, field) = Cardinality(W)
       /\ Count(r, field) = Cardinality(R)
       /\ Count(s, field) = Cardinality(T)
  BY <1>2 DEF Count
<1> QED BY <1>10, <1>11

\* Of the answers the service may give, the one that is not turned down is the
\* true one.
LEMMA ValidIsHonest ==
  ASSUME NEW c \in Seq(Facts), Len(c) >= 1,
         NEW a \in Answers(c), Valid(a, Len(c))
  PROVE  a = Counted(Rows(c))
PROOF
<1> DEFINE rows   == Rows(c)
           honest == Counted(rows)
           n      == Len(c)
           late   == [i \in 1..n |-> [rows[i] EXCEPT !.index = i]]
<1>1. n \in Nat /\ 1 \in 1..n
  OBVIOUS
<1>2. rows \in Seq(RowSet) /\ Len(rows) = n /\ \A i \in 1..n : rows[i].index = i - 1
  BY RowsAreRows
<1>3. honest.results = rows
  BY DEF Counted
<1> HIDE DEF rows, honest
<1>4. a.results = rows => a = honest
  <2> SUFFICES ASSUME a.results = rows PROVE a = honest
    OBVIOUS
  <2>1. a.accepted = Count(rows, "accepted") /\ a.rejected = n - Count(rows, "accepted")
        /\ a.duplicates = Count(rows, "duplicate")
    BY DEF Valid
  <2>2. honest = [results |-> rows, accepted |-> Count(rows, "accepted"),
                  rejected |-> n - Count(rows, "accepted"),
                  duplicates |-> Count(rows, "duplicate")]
    BY <1>2 DEF honest, Counted
  <2>3. \E w, x, y, z : a = [results |-> w, accepted |-> x, rejected |-> y, duplicates |-> z]
    <3>1. a \in {honest, Nothing, Counted(SubSeq(rows, 1, n - 1)),
                 [honest EXCEPT !.results = late],
                 [honest EXCEPT !.rejected = 0],
                 [honest EXCEPT !.accepted = @ + 1],
                 [honest EXCEPT !.duplicates = 0]}
      BY DEF Answers, rows, honest
    <3> QED BY <2>2, <3>1 DEF Nothing, Counted
  <2> QED BY <2>1, <2>2, <2>3
<1>5. a.results # <<>>
  <2>1. Len(a.results) = n
    BY DEF Valid
  <2> QED BY <1>1, <2>1
<1>6. a.results # SubSeq(rows, 1, n - 1)
  <2>1. Len(a.results) = n
    BY DEF Valid
  <2>2. \A i \in 1..(n - 1) : rows[i] \in RowSet
    <3>1. \A i \in 1..(n - 1) : i \in 1..Len(rows)
      BY <1>1, <1>2
    <3> QED BY <1>2, <3>1, ElementOfSeq
  <2>3. 1 \in Int /\ n - 1 \in Int
    BY <1>1
  <2>4. Len(SubSeq(rows, 1, n - 1)) = IF 1 <= n - 1 THEN (n - 1) - 1 + 1 ELSE 0
    BY <2>2, <2>3, SubSeqProperties
  <2> QED BY <1>1, <2>1, <2>4
<1>7. a.results # late
  <2>1. ASSUME a.results = late PROVE FALSE
    <3>1. 1 \in 1..Len(a.results)
      BY <1>1 DEF Valid
    <3>2. a.results[1].index = 0
      BY <3>1 DEF Valid
    <3>3. rows[1] \in RowSet
      BY <1>1, <1>2, ElementOfSeq
    <3>4. late[1].index = 1
      BY <1>1, <3>3 DEF RowSet
    <3> QED BY <2>1, <3>2, <3>4
  <2> QED BY <2>1
<1>8. \/ a.results = rows
      \/ a.results = <<>>
      \/ a.results = SubSeq(rows, 1, n - 1)
      \/ a.results = late
  <2>1. a \in {honest, Nothing, Counted(SubSeq(rows, 1, n - 1)),
               [honest EXCEPT !.results = late],
               [honest EXCEPT !.rejected = 0],
               [honest EXCEPT !.accepted = @ + 1],
               [honest EXCEPT !.duplicates = 0]}
    BY DEF Answers, rows, honest
  <2>2. honest = [results |-> rows, accepted |-> Count(rows, "accepted"),
                  rejected |-> n - Count(rows, "accepted"),
                  duplicates |-> Count(rows, "duplicate")]
    BY <1>2 DEF honest, Counted
  <2> HIDE DEF late
  <2>3. Nothing.results = <<>>
    BY DEF Nothing, Counted
  <2>4. Counted(SubSeq(rows, 1, n - 1)).results = SubSeq(rows, 1, n - 1)
    BY DEF Counted
  <2> QED BY <2>1, <2>2, <2>3, <2>4
<1> QED BY <1>4, <1>5, <1>6, <1>7, <1>8 DEF honest, rows

\* Adding a true answer to a true result gives the true result of both.
LEMMA MergedIsTrue ==
  ASSUME NEW c \in Seq(Facts),
         out.results \in Seq(RowSet), out = Counted(out.results),
         Len(out.results) = offset
  PROVE  LET o == Merged(Counted(Rows(c))) IN
           /\ o.results \in Seq(RowSet)
           /\ o = Counted(o.results)
           /\ Len(o.results) = offset + Len(c)
           /\ \A i \in 1..offset : o.results[i] = out.results[i]
           /\ \A i \in (offset + 1)..(offset + Len(c)) :
                /\ o.results[i].index = i - 1
                /\ o.results[i].key = c[i - offset].key
                /\ o.results[i].accepted <=> c[i - offset].key \notin Refused
                /\ o.results[i].duplicate = Rows(c)[i - offset].duplicate
PROOF
<1> DEFINE n       == Len(c)
           rows    == Rows(c)
           old     == out.results
           shifted == [i \in 1..n |-> [rows[i] EXCEPT !.index = @ + offset]]
           new     == old \o shifted
<1>1. n \in Nat /\ offset \in Nat
  BY LenProperties
<1>2. /\ rows \in Seq(RowSet) /\ Len(rows) = n
      /\ \A i \in 1..n : /\ rows[i].index = i - 1
                         /\ rows[i].key = c[i].key
                         /\ rows[i].accepted <=> c[i].key \notin Refused
  BY RowsAreRows
<1> HIDE DEF rows
<1>3. ASSUME NEW i \in 1..n
      PROVE  /\ shifted[i] \in RowSet
             /\ shifted[i].index = (i - 1) + offset
             /\ shifted[i].key = rows[i].key
             /\ shifted[i].accepted = rows[i].accepted
             /\ shifted[i].duplicate = rows[i].duplicate
             /\ shifted[i]["accepted"] = rows[i]["accepted"]
             /\ shifted[i]["duplicate"] = rows[i]["duplicate"]
  <2>1. rows[i] \in RowSet /\ rows[i].index = i - 1
    BY <1>2, ElementOfSeq
  <2>2. shifted[i] = [rows[i] EXCEPT !.index = @ + offset]
    OBVIOUS
  <2>3. rows[i].index + offset \in Nat
    BY <1>1, <2>1
  <2> HIDE DEF shifted
  <2> QED BY <2>1, <2>2, <2>3 DEF RowSet
<1>4. shifted \in Seq(RowSet) /\ Len(shifted) = n
  <2>1. shifted \in [1..n -> RowSet]
    <3> DEFINE e(i) == [rows[i] EXCEPT !.index = @ + offset]
    <3>1. \A i \in 1..n : e(i) \in RowSet
      BY <1>3
    <3> HIDE DEF e
    <3>2. [i \in 1..n |-> e(i)] \in [1..n -> RowSet]
      BY <3>1
    <3> QED BY <3>2 DEF e
  <2> HIDE DEF shifted
  <2>2. shifted \in Seq(RowSet) /\ DOMAIN shifted = 1..n
    BY <1>1, <2>1, SeqDef
  <2>3. DOMAIN shifted = 1..Len(shifted) /\ Len(shifted) \in Nat
    BY <2>2, LenProperties
  <2> QED BY <1>1, <2>2, <2>3
<1>5. /\ Count(shifted, "accepted") = Count(rows, "accepted")
      /\ Count(shifted, "duplicate") = Count(rows, "duplicate")
  <2> HIDE DEF shifted
  <2>1. /\ {i \in 1..n : shifted[i]["accepted"]} = {i \in 1..n : rows[i]["accepted"]}
        /\ {i \in 1..n : shifted[i]["duplicate"]} = {i \in 1..n : rows[i]["duplicate"]}
    BY <1>3
  <2> QED BY <1>2, <1>4, <2>1 DEF Count
<1> HIDE DEF shifted, n, old
<1>6. old \in Seq(RowSet) /\ Len(old) = offset
  BY DEF old
<1>7. /\ new \in Seq(RowSet)
      /\ Len(new) = offset + n
      /\ \A i \in 1..(offset + n) : new[i] = IF i <= offset THEN old[i] ELSE shifted[i - offset]
  <2>1. /\ new \in Seq(RowSet)
        /\ Len(new) = Len(old) + Len(shifted)
        /\ \A i \in 1..(Len(old) + Len(shifted)) :
             new[i] = IF i <= Len(old) THEN old[i] ELSE shifted[i - Len(old)]
    BY <1>4, <1>6, ConcatProperties
  <2> HIDE DEF new
  <2> QED BY <1>4, <1>6, <2>1
<1>8. \A field : Count(new, field) = Count(old, field) + Count(shifted, field)
  BY <1>4, <1>6, CountConcat
<1> HIDE DEF new
<1>9. /\ Count(old, "accepted") \in Nat /\ Count(rows, "accepted") \in Nat
      /\ Count(old, "duplicate") \in Nat /\ Count(rows, "duplicate") \in Nat
  BY <1>2, <1>6, CountBounds
<1>10. Merged(Counted(rows)) =
         [results |-> new,
          accepted |-> Count(old, "accepted") + Count(rows, "accepted"),
          rejected |-> (offset - Count(old, "accepted")) + (n - Count(rows, "accepted")),
          duplicates |-> Count(old, "duplicate") + Count(rows, "duplicate")]
  <2>1. /\ out.accepted = Count(old, "accepted")
        /\ out.rejected = offset - Count(old, "accepted")
        /\ out.duplicates = Count(old, "duplicate")
    BY <1>6 DEF Counted, old
  <2>2. /\ Counted(rows).results = rows
        /\ Counted(rows).accepted = Count(rows, "accepted")
        /\ Counted(rows).rejected = n - Count(rows, "accepted")
        /\ Counted(rows).duplicates = Count(rows, "duplicate")
    BY <1>2 DEF Counted
  <2>3. new = out.results \o
          [i \in 1..Len(rows) |-> [rows[i] EXCEPT !.index = @ + offset]]
    BY <1>2 DEF new, old, shifted
  <2> QED BY <2>1, <2>2, <2>3 DEF Merged
<1> DEFINE o == Merged(Counted(rows))
<1>11. o.results = new
  BY <1>10
<1>12. o = Counted(new)
  <2>1. Count(new, "accepted") = Count(old, "accepted") + Count(rows, "accepted")
        /\ Count(new, "duplicate") = Count(old, "duplicate") + Count(rows, "duplicate")
    BY <1>5, <1>8
  <2>2. Len(new) - Count(new, "accepted") =
          (offset - Count(old, "accepted")) + (n - Count(rows, "accepted"))
    BY <1>1, <1>7, <1>9, <2>1
  <2> QED BY <1>10, <2>1, <2>2 DEF Counted
<1> HIDE DEF o
<1>13. \A i \in 1..offset : new[i] = old[i]
  BY <1>1, <1>7
<1>14. ASSUME NEW i \in (offset + 1)..(offset + n)
       PROVE  /\ new[i].index = i - 1
              /\ new[i].key = c[i - offset].key
              /\ new[i].accepted <=> c[i - offset].key \notin Refused
              /\ new[i].duplicate = rows[i - offset].duplicate
  <2> DEFINE j == i - offset
  <2>1. j \in 1..n /\ new[i] = shifted[j] /\ (j - 1) + offset = i - 1
    BY <1>1, <1>7
  <2> HIDE DEF j
  <2>2. /\ shifted[j].index = i - 1
        /\ shifted[j].key = c[j].key
        /\ shifted[j].accepted <=> c[j].key \notin Refused
        /\ shifted[j].duplicate = rows[j].duplicate
    BY <1>2, <1>3, <2>1
  <2> QED BY <2>1, <2>2 DEF j
<1> QED BY <1>7, <1>11, <1>12, <1>13, <1>14 DEF o, rows, old, n

-------------------------------------------------------------------------------
(***************************************************************************)
(* The inductive invariant.                                                *)
(***************************************************************************)
Imported == facts \in Seq(Facts) /\ Len(facts) <= MaxInput

\* The requests are cut from the import, and from one that can be sent.
Planned == starts = <<>> \/ (~Rejected(facts) /\ starts = Cuts(facts))

\* The next request begins after the facts that have been answered.
Positioned ==
  /\ pc \in {"idle", "sending", "nil", "error"}
  /\ pc = "idle" => starts = <<>>
  /\ starts = <<>> => pc \in {"idle", "error"} /\ chunk = 1 /\ offset = 0
  /\ starts # <<>> /\ pc # "nil" => chunk \in 1..Len(starts) /\ offset + 1 = starts[chunk]
  /\ pc = "nil" => chunk = Len(starts) + 1 /\ offset = Len(facts)

Reported ==
  /\ out.results \in Seq(RowSet) /\ ResultsAligned
  /\ \A i \in 1..offset : out.results[i].accepted => out.results[i].key \in ledger

\* What is committed is what the first h requests hold, and h never falls behind.
FirstRequests(h) == UNION {Acceptable(Chunk(facts, starts, i)) : i \in 1..h}

Committed ==
  \E h \in 0..Len(starts) : chunk <= h + 1 /\ ledger = FirstRequests(h)

IInv == Imported /\ Planned /\ Positioned /\ Reported /\ Committed

\* An import that has not begun.
LEMMA InitOK == Init => IInv
PROOF
<1> SUFFICES ASSUME Init PROVE IInv
  OBVIOUS
<1>1. Imported
  <2>1. PICK n \in 0..MaxInput : facts \in [1..n -> Facts]
    BY DEF Init, Facts
  <2>2. n \in Nat /\ n <= MaxInput
    BY InputsAssumption
  <2>3. facts \in Seq(Facts) /\ DOMAIN facts = 1..n
    BY <2>1, <2>2, SeqDef
  <2>4. DOMAIN facts = 1..Len(facts) /\ Len(facts) \in Nat
    BY <2>3, LenProperties
  <2>5. Len(facts) = n
    BY <2>2, <2>3, <2>4
  <2> QED BY <2>2, <2>3, <2>5 DEF Imported
<1>2. Planned /\ Positioned
  BY DEF Init, Planned, Positioned
<1>3. Reported
  <2>1. out = Counted(<<>>) /\ offset = 0
    BY DEF Init, Nothing
  <2>2. out.results = <<>> /\ Len(<<>>) = 0 /\ <<>> \in Seq(RowSet)
    BY <2>1 DEF Counted
  <2>3. Len(out.results) = 0 /\ out = Counted(out.results)
    BY <2>1, <2>2
  <2>4. ResultsAligned
    BY <2>1, <2>3 DEF ResultsAligned
  <2>5. \A i \in 1..offset : out.results[i].accepted => out.results[i].key \in ledger
    BY <2>1
  <2> QED BY <2>2, <2>4, <2>5 DEF Reported
<1>4. Committed
  <2>1. starts = <<>> /\ chunk = 1 /\ ledger = {} /\ Len(<<>>) = 0
    BY DEF Init
  <2>2. FirstRequests(0) = {} /\ 0 \in 0..Len(starts)
    BY <2>1 DEF FirstRequests
  <2> QED BY <2>1, <2>2 DEF Committed
<1> QED BY <1>1, <1>2, <1>3, <1>4 DEF IInv

\* The request that is next, as the invariant describes it.
LEMMA CurrentFacts ==
  ASSUME IInv, pc = "sending"
  PROVE  /\ facts \in Seq(Facts) /\ ~Rejected(facts) /\ starts = Cuts(facts)
         /\ starts # <<>> /\ Len(starts) \in Nat /\ Len(facts) \in Nat
         /\ chunk \in 1..Len(starts) /\ offset \in Nat /\ offset + 1 = starts[chunk]
         /\ Current \in Seq(Facts) /\ Len(Current) \in Nat /\ Len(Current) >= 1
         /\ \A i \in 1..Len(Current) : Current[i] = facts[offset + i]
         /\ offset + Len(Current) <= Len(facts)
         /\ chunk = Len(starts) => offset + Len(Current) = Len(facts)
         /\ chunk # Len(starts) => offset + Len(Current) + 1 = starts[chunk + 1]
PROOF
<1>1. starts # <<>> /\ facts \in Seq(Facts) /\ ~Rejected(facts) /\ starts = Cuts(facts)
  BY DEF IInv, Imported, Positioned, Planned
<1>2. Len(starts) \in Nat /\ Len(facts) \in Nat
  BY <1>1, StartsAscend, LenProperties
<1>3. chunk \in 1..Len(starts) /\ offset + 1 = starts[chunk]
  BY <1>1 DEF IInv, Positioned
<1>4. offset \in Nat
  BY LenProperties DEF IInv, Reported, ResultsAligned
<1> DEFINE next == IF chunk < Len(starts) THEN starts[chunk + 1] ELSE Len(facts) + 1
<1>5. /\ next \in (starts[chunk] + 1)..(Len(facts) + 1)
      /\ Current \in Seq(Facts) /\ Len(Current) = next - starts[chunk]
      /\ \A i \in 1..Len(Current) : Current[i] = facts[starts[chunk] + i - 1]
  BY <1>1, <1>3, ChunkFacts DEF Current
<1> DEFINE n == Len(Current)
<1> HIDE DEF next, n
<1>6. n \in Nat /\ n >= 1 /\ offset + n + 1 = next /\ offset + n <= Len(facts)
  <2>1. starts[chunk] = offset + 1
    BY <1>3
  <2>2. next \in ((offset + 1) + 1)..(Len(facts) + 1) /\ n = next - (offset + 1)
    BY <1>5, <2>1 DEF n
  <2> QED BY <1>2, <1>4, <2>2
<1>7. ASSUME NEW i \in 1..n PROVE Current[i] = facts[offset + i]
  <2>1. starts[chunk] + i - 1 = offset + i
    BY <1>3, <1>4, <1>6
  <2> QED BY <1>5, <2>1 DEF n
<1>8. chunk = Len(starts) => offset + n = Len(facts)
  BY <1>2, <1>4, <1>6 DEF next
<1>9. chunk # Len(starts) => offset + n + 1 = starts[chunk + 1]
  BY <1>2, <1>3, <1>6 DEF next
<1> QED BY <1>1, <1>2, <1>3, <1>4, <1>5, <1>6, <1>7, <1>8, <1>9 DEF n

\* Committing the next request keeps the ledger at the facts of the first ones.
LEMMA CommitGrows ==
  ASSUME IInv, pc = "sending", Commit
  PROVE  \E h \in 0..Len(starts) : chunk <= h /\ ledger' = FirstRequests(h)
PROOF
<1>1. chunk \in 1..Len(starts) /\ Len(starts) \in Nat
  BY CurrentFacts
<1>2. PICK h \in 0..Len(starts) : chunk <= h + 1 /\ ledger = FirstRequests(h)
  BY DEF IInv, Committed
<1>3. ledger' = FirstRequests(h) \cup Acceptable(Chunk(facts, starts, chunk))
  BY <1>2 DEF Commit, Current
<1>4. CASE chunk <= h
  <2>1. chunk \in 1..h
    BY <1>1, <1>4
  <2>2. Acceptable(Chunk(facts, starts, chunk)) \subseteq FirstRequests(h)
    BY <2>1 DEF FirstRequests
  <2> QED BY <1>3, <1>4, <2>2
<1>5. CASE ~(chunk <= h)
  <2>1. chunk = h + 1 /\ h + 1 \in 0..Len(starts)
    BY <1>1, <1>2, <1>5
  <2>2. 1..(h + 1) = 1..h \cup {h + 1}
    BY <1>1
  <2>3. FirstRequests(h + 1) =
          FirstRequests(h) \cup Acceptable(Chunk(facts, starts, h + 1))
    BY <2>2 DEF FirstRequests
  <2> QED BY <1>3, <2>1, <2>3
<1> QED BY <1>4, <1>5

\* The facts that the service keeps.
LEMMA AcceptableKeys ==
  ASSUME NEW c \in Seq(Facts)
  PROVE  /\ Acceptable(c) \subseteq Keys \ Refused
         /\ \A i \in 1..Len(c) : c[i].key \notin Refused => c[i].key \in Acceptable(c)
PROOF
<1>1. ASSUME NEW i \in 1..Len(c) PROVE c[i].key \in Keys
  <2>1. c[i] \in Facts
    BY ElementOfSeq
  <2> QED BY <2>1 DEF Facts
<1> QED BY <1>1 DEF Acceptable

\* A call, or its replay, cuts the import as before and starts over.
LEMMA AppendBatchOK == IInv /\ AppendBatch => IInv'
PROOF
<1> SUFFICES ASSUME IInv, AppendBatch PROVE IInv'
  OBVIOUS
<1>1. /\ facts' = facts /\ ledger' = ledger
      /\ chunk' = 1 /\ offset' = 0 /\ out' = Nothing
  BY DEF AppendBatch
<1>2. facts \in Seq(Facts)
  BY DEF IInv, Imported
<1>3. Imported'
  BY <1>1 DEF IInv, Imported
<1>4. Reported'
  <2>1. out' = Counted(<<>>) /\ offset' = 0
    BY <1>1 DEF Nothing
  <2>2. out'.results = <<>> /\ Len(<<>>) = 0 /\ <<>> \in Seq(RowSet)
    BY <2>1 DEF Counted
  <2>3. Len(out'.results) = 0 /\ out' = Counted(out'.results)
    BY <2>1, <2>2
  <2>4. ResultsAligned'
    BY <2>1, <2>3 DEF ResultsAligned, Counted, Count
  <2>5. \A i \in 1..offset' : out'.results[i].accepted => out'.results[i].key \in ledger'
    BY <2>1
  <2> QED BY <2>2, <2>4, <2>5 DEF Reported
<1>5. PICK h \in 0..Len(starts) : chunk <= h + 1 /\ ledger = FirstRequests(h)
  BY DEF IInv, Committed
<1>6. starts = <<>> => ledger = {}
  <2>1. starts = <<>> => h = 0
    BY <1>5
  <2> QED BY <1>5, <2>1 DEF FirstRequests
<1>7. (FirstRequests(0))' = {}
  BY DEF FirstRequests
<1>8. CASE Rejected(facts)
  <2>1. starts' = <<>> /\ pc' = "error" /\ Len(<<>>) = 0
    BY <1>8 DEF AppendBatch
  <2>2. starts = <<>>
    BY <1>8 DEF IInv, Planned
  <2>3. Planned' /\ Positioned'
    BY <1>1, <2>1 DEF Planned, Positioned
  <2>4. 0 \in 0..Len(starts') /\ chunk' <= 0 + 1
    BY <1>1, <2>1
  <2>5. ledger' = (FirstRequests(0))'
    BY <1>1, <1>6, <1>7, <2>2
  <2>6. Committed'
    BY <2>4, <2>5 DEF Committed
  <2> QED BY <1>3, <1>4, <2>3, <2>6 DEF IInv
<1>9. CASE ~Rejected(facts)
  <2>1. starts' = Cuts(facts) /\ pc' = "sending"
    BY <1>9 DEF AppendBatch
  <2>2. Planned'
    BY <1>1, <1>9, <2>1 DEF Planned
  <2>3. /\ starts' # <<>> /\ starts'[1] = 1 /\ Len(starts') \in Nat
        /\ 1 \in 1..Len(starts')
    BY <1>2, <1>9, <2>1, StartsAscend, LenProperties
  <2>4. Positioned'
    BY <1>1, <2>1, <2>3 DEF Positioned
  <2>5. Committed'
    <3>1. CASE starts = <<>>
      <4>1. 0 \in 0..Len(starts') /\ chunk' <= 0 + 1
        BY <1>1, <2>3
      <4>2. ledger' = (FirstRequests(0))'
        BY <1>1, <1>6, <1>7, <3>1
      <4> QED BY <4>1, <4>2 DEF Committed
    <3>2. CASE starts # <<>>
      <4>1. starts' = starts
        BY <2>1, <3>2 DEF IInv, Planned
      <4>2. (FirstRequests(h))' = FirstRequests(h)
        BY <1>1, <4>1 DEF FirstRequests
      <4>3. h \in 0..Len(starts') /\ chunk' <= h + 1 /\ ledger' = (FirstRequests(h))'
        BY <1>1, <1>5, <4>1, <4>2
      <4> QED BY <4>3 DEF Committed
    <3> QED BY <3>1, <3>2
  <2> QED BY <1>3, <1>4, <2>2, <2>4, <2>5 DEF IInv
<1> QED BY <1>8, <1>9

\* A request that is answered commits and moves on.
LEMMA AppendedOK == IInv /\ Appended => IInv'
PROOF
<1> SUFFICES ASSUME IInv, Appended PROVE IInv'
  OBVIOUS
<1> DEFINE c == Current
           n == Len(c)
<1>1. /\ facts' = facts /\ starts' = starts
      /\ offset' = offset + n /\ chunk' = chunk + 1
      /\ pc = "sending" /\ pc' = (IF chunk = Len(starts) THEN "nil" ELSE "sending")
      /\ Commit
  BY DEF Appended
<1>2. /\ facts \in Seq(Facts) /\ ~Rejected(facts) /\ starts = Cuts(facts)
      /\ starts # <<>> /\ Len(starts) \in Nat /\ Len(facts) \in Nat
      /\ chunk \in 1..Len(starts) /\ offset \in Nat
      /\ c \in Seq(Facts) /\ n \in Nat /\ n >= 1
      /\ \A i \in 1..n : c[i] = facts[offset + i]
      /\ chunk = Len(starts) => offset + n = Len(facts)
      /\ chunk # Len(starts) => offset + n + 1 = starts[chunk + 1]
  BY <1>1, CurrentFacts
<1>3. ledger' = ledger \cup Acceptable(c)
  BY <1>1 DEF Commit
<1>4. out' = Merged(Counted(Rows(c)))
  <2>1. PICK a \in Answers(c) : Valid(a, n) /\ out' = Merged(a)
    BY DEF Appended
  <2>2. a = Counted(Rows(c))
    <3> HIDE DEF c
    <3> QED BY <1>2, <2>1, ValidIsHonest
  <2> QED BY <2>1, <2>2
<1> HIDE DEF c, n
<1>5. Imported' /\ Planned'
  <2>1. Imported'
    BY <1>1 DEF IInv, Imported
  <2>2. Planned'
    BY <1>1, <1>2 DEF Planned
  <2> QED BY <2>1, <2>2
<1>6. Positioned'
  <2>1. CASE chunk = Len(starts)
    <3>1. pc' = "nil" /\ chunk' = Len(starts') + 1 /\ offset' = Len(facts')
      BY <1>1, <1>2, <2>1
    <3> QED BY <1>1, <1>2, <3>1 DEF Positioned
  <2>2. CASE chunk # Len(starts)
    <3>1. pc' = "sending" /\ chunk' \in 1..Len(starts')
      BY <1>1, <1>2, <2>2
    <3>2. offset' + 1 = starts'[chunk']
      BY <1>1, <1>2, <2>2
    <3> QED BY <1>1, <1>2, <3>1, <3>2 DEF Positioned
  <2> QED BY <2>1, <2>2
<1>7. /\ out.results \in Seq(RowSet) /\ Len(out.results) = offset
      /\ out = Counted(out.results)
      /\ \A i \in 1..offset :
           /\ out.results[i].index = i - 1 /\ out.results[i].key = facts[i].key
           /\ out.results[i].accepted => out.results[i].key \in ledger
  BY DEF IInv, Reported, ResultsAligned
<1>8. /\ out'.results \in Seq(RowSet)
      /\ out' = Counted(out'.results)
      /\ Len(out'.results) = offset + n
      /\ \A i \in 1..offset : out'.results[i] = out.results[i]
      /\ \A i \in (offset + 1)..(offset + n) :
           /\ out'.results[i].index = i - 1
           /\ out'.results[i].key = c[i - offset].key
           /\ out'.results[i].accepted <=> c[i - offset].key \notin Refused
  <2> DEFINE o == Merged(Counted(Rows(c)))
  <2>1. /\ o.results \in Seq(RowSet)
        /\ o = Counted(o.results)
        /\ Len(o.results) = offset + n
        /\ \A i \in 1..offset : o.results[i] = out.results[i]
        /\ \A i \in (offset + 1)..(offset + n) :
             /\ o.results[i].index = i - 1
             /\ o.results[i].key = c[i - offset].key
             /\ o.results[i].accepted <=> c[i - offset].key \notin Refused
    BY <1>2, <1>7, MergedIsTrue DEF n
  <2>2. out' = o
    BY <1>4
  <2> HIDE DEF o
  <2> QED BY <2>1, <2>2
<1>9. ASSUME NEW i \in 1..(offset + n)
      PROVE  /\ out'.results[i].index = i - 1 /\ out'.results[i].key = facts[i].key
             /\ out'.results[i].accepted => out'.results[i].key \in ledger'
  <2>1. CASE i <= offset
    <3>1. i \in 1..offset
      BY <1>2, <2>1
    <3> QED BY <1>3, <1>7, <1>8, <3>1
  <2>2. CASE ~(i <= offset)
    <3> DEFINE j == i - offset
    <3>1. i \in (offset + 1)..(offset + n) /\ j \in 1..n /\ offset + j = i
      BY <1>2, <2>2
    <3>2. /\ out'.results[i].index = i - 1
          /\ out'.results[i].key = c[j].key
          /\ out'.results[i].accepted <=> c[j].key \notin Refused
      BY <1>8, <3>1
    <3> HIDE DEF j
    <3>3. c[j] = facts[i]
      BY <1>2, <3>1
    <3>4. c[j].key \notin Refused => c[j].key \in Acceptable(c)
      BY <1>2, <3>1, AcceptableKeys DEF n
    <3> QED BY <1>3, <3>2, <3>3, <3>4
  <2> QED BY <2>1, <2>2
<1>10. Reported'
  <2>1. Len(out'.results) = offset' /\ offset' = offset + n
    BY <1>1, <1>8 DEF n
  <2>2. ResultsAligned'
    BY <1>1, <1>8, <1>9, <2>1 DEF ResultsAligned, Counted, Count
  <2>3. \A i \in 1..offset' : out'.results[i].accepted => out'.results[i].key \in ledger'
    BY <1>9, <2>1
  <2> QED BY <1>8, <2>2, <2>3 DEF Reported
<1>11. Committed'
  <2>1. PICK h \in 0..Len(starts) : chunk <= h /\ ledger' = FirstRequests(h)
    BY <1>1, CommitGrows
  <2>2. (FirstRequests(h))' = FirstRequests(h)
    BY <1>1 DEF FirstRequests
  <2>3. h \in 0..Len(starts') /\ chunk' <= h + 1 /\ ledger' = (FirstRequests(h))'
    BY <1>1, <1>2, <2>1, <2>2
  <2> QED BY <2>3 DEF Committed
<1> QED BY <1>5, <1>6, <1>10, <1>11 DEF IInv

\* A request that failed leaves everything where it was, but for the ledger.
LEMMA StoppedOK ==
  ASSUME IInv, pc = "sending", Commit \/ UNCHANGED ledger,
         pc' = "error", UNCHANGED <<facts, starts, chunk, offset, out>>
  PROVE  IInv'
PROOF
<1>1. facts' = facts /\ starts' = starts /\ chunk' = chunk /\ offset' = offset /\ out' = out
  OBVIOUS
<1>2. starts # <<>> /\ chunk \in 1..Len(starts) /\ offset + 1 = starts[chunk]
      /\ Len(starts) \in Nat
  BY CurrentFacts
<1>3. Imported'
  BY <1>1 DEF IInv, Imported
<1>4. Planned'
  BY <1>1 DEF IInv, Planned
<1>5. Positioned'
  BY <1>1, <1>2 DEF Positioned
<1>6. ledger \subseteq ledger'
  BY DEF Commit
<1>7. Reported'
  <2>1. ResultsAligned'
    BY <1>1 DEF IInv, Reported, ResultsAligned, Counted, Count
  <2> QED BY <1>1, <1>6, <2>1 DEF IInv, Reported
<1>8. Committed'
  <2>1. PICK h \in 0..Len(starts) : chunk <= h + 1 /\ ledger' = FirstRequests(h)
    <3>1. CASE Commit
      <4>1. PICK h \in 0..Len(starts) : chunk <= h /\ ledger' = FirstRequests(h)
        BY <3>1, CommitGrows
      <4>2. chunk <= h + 1
        BY <1>2, <4>1
      <4> QED BY <4>1, <4>2
    <3>2. CASE UNCHANGED ledger
      BY <3>2 DEF IInv, Committed
    <3> QED BY <3>1, <3>2
  <2>2. (FirstRequests(h))' = FirstRequests(h)
    BY <1>1 DEF FirstRequests
  <2>3. h \in 0..Len(starts') /\ chunk' <= h + 1 /\ ledger' = (FirstRequests(h))'
    BY <1>1, <2>1, <2>2
  <2> QED BY <2>3 DEF Committed
<1> QED BY <1>3, <1>4, <1>5, <1>7, <1>8 DEF IInv

\* Nothing else changes it.
LEMMA StutterOK == IInv /\ UNCHANGED vars => IInv'
PROOF
<1> SUFFICES ASSUME IInv, UNCHANGED vars PROVE IInv'
  OBVIOUS
<1>1. /\ facts' = facts /\ pc' = pc /\ starts' = starts /\ chunk' = chunk
      /\ offset' = offset /\ out' = out /\ ledger' = ledger
  BY DEF vars
<1>2. Imported'
  BY <1>1 DEF IInv, Imported
<1>3. Planned'
  BY <1>1 DEF IInv, Planned
<1>4. Positioned'
  BY <1>1 DEF IInv, Positioned
<1>5. Reported'
  BY <1>1 DEF IInv, Reported, ResultsAligned, Counted, Count
<1>6. Committed'
  BY <1>1 DEF IInv, Committed, FirstRequests
<1> QED BY <1>2, <1>3, <1>4, <1>5, <1>6 DEF IInv

\* Every step keeps the invariant.
LEMMA NextKeepsInv == IInv /\ [Next]_vars => IInv'
PROOF
<1> SUFFICES ASSUME IInv, [Next]_vars PROVE IInv'
  OBVIOUS
<1>1. CASE AppendBatch
  BY <1>1, AppendBatchOK
<1>2. CASE Appended
  BY <1>2, AppendedOK
<1>3. CASE Unaccounted
  <2>1. pc = "sending" /\ Commit /\ pc' = "error"
        /\ UNCHANGED <<facts, starts, chunk, offset, out>>
    BY <1>3 DEF Unaccounted
  <2> QED BY <2>1, StoppedOK
<1>4. CASE Failed
  <2>1. pc = "sending" /\ (Commit \/ UNCHANGED ledger) /\ pc' = "error"
        /\ UNCHANGED <<facts, starts, chunk, offset, out>>
    BY <1>4 DEF Failed
  <2> QED BY <2>1, StoppedOK
<1>5. CASE UNCHANGED vars
  BY <1>5, StutterOK
<1> QED BY <1>1, <1>2, <1>3, <1>4, <1>5 DEF Next

\* The plan, the position, the result and the ledger agree in every reachable
\* state of AppendBatch.
THEOREM Inductive == Spec => []IInv
PROOF BY InitOK, NextKeepsInv, PTL DEF Spec

-------------------------------------------------------------------------------
(***************************************************************************)
(* What the invariant says of the properties.                              *)
(***************************************************************************)
\* The requests of an import that was cut.
LEMMA RequestFacts ==
  ASSUME IInv, starts # <<>>
  PROVE  /\ facts \in Seq(Facts) /\ ~Rejected(facts) /\ starts = Cuts(facts)
         /\ Len(starts) \in 1..Len(facts) /\ Len(facts) \in Nat /\ Len(starts) \in Nat
         /\ Len(facts) <= MaxInput
         /\ starts \in Seq(1..Len(facts))
         /\ \A k \in Requests : Chunk(facts, starts, k) \in Seq(Facts)
PROOF
<1>1. facts \in Seq(Facts) /\ ~Rejected(facts) /\ starts = Cuts(facts)
      /\ Len(facts) <= MaxInput
  BY DEF IInv, Imported, Planned
<1>2. /\ Len(starts) \in 1..Len(facts) /\ starts \in Seq(1..Len(facts))
      /\ Len(facts) \in Nat /\ Len(starts) \in Nat
  BY <1>1, StartsAscend, LenProperties
<1>3. \A k \in Requests : Chunk(facts, starts, k) \in Seq(Facts)
  BY <1>1, ChunkFacts DEF Requests
<1> QED BY <1>1, <1>2, <1>3

\* Every variable has its type, and while a request is being sent exactly the
\* facts before it have been answered.
THEOREM TypeCorrect == Spec => []TypeOK
PROOF
<1>1. IInv => TypeOK
  <2> SUFFICES ASSUME IInv PROVE TypeOK
    OBVIOUS
  <2>1. facts \in Seq([key : Keys, length : Lengths]) /\ Len(facts) <= MaxInput
        /\ Len(facts) \in Nat /\ MaxInput \in Nat
    BY LenProperties, InputsAssumption DEF IInv, Imported, Facts
  <2>2. pc \in {"idle", "sending", "nil", "error"}
    BY DEF IInv, Positioned
  <2>3. pc # "error" => (starts = <<>>) = (pc = "idle")
    BY DEF IInv, Positioned
  <2>4. pc = "sending" => offset + 1 = starts[chunk]
    BY DEF IInv, Positioned
  <2>5. starts \in Seq(1..MaxInput)
    <3>1. CASE starts = <<>>
      BY <3>1
    <3>2. CASE starts # <<>>
      <4>1. starts \in Seq(1..Len(facts)) /\ 1..Len(facts) \subseteq 1..MaxInput
        BY <2>1, <3>2, RequestFacts
      <4> QED BY <4>1, SeqMonotonic
    <3> QED BY <3>1, <3>2
  <2>6. chunk \in 1..(MaxInput + 1) /\ offset \in 0..MaxInput
    <3>1. CASE starts = <<>>
      <4>1. chunk = 1 /\ offset = 0
        BY <3>1 DEF IInv, Positioned
      <4> QED BY <2>1, <4>1
    <3>2. CASE starts # <<>> /\ pc # "nil"
      <4>1. chunk \in 1..Len(starts) /\ offset + 1 = starts[chunk]
        BY <3>2 DEF IInv, Positioned
      <4>2. Len(starts) \in 1..Len(facts) /\ starts \in Seq(1..Len(facts))
        BY <3>2, RequestFacts
      <4>3. starts[chunk] \in 1..Len(facts)
        BY <4>1, <4>2, ElementOfSeq
      <4>4. offset \in Nat
        BY LenProperties DEF IInv, Reported, ResultsAligned
      <4>5. offset + 1 \in 1..Len(facts)
        BY <4>1, <4>3
      <4> QED BY <2>1, <4>1, <4>2, <4>4, <4>5
    <3>3. CASE starts # <<>> /\ pc = "nil"
      <4>1. chunk = Len(starts) + 1 /\ offset = Len(facts)
        BY <3>3 DEF IInv, Positioned
      <4>2. Len(starts) \in 1..Len(facts)
        BY <3>3, RequestFacts
      <4> QED BY <2>1, <4>1, <4>2
    <3> QED BY <3>1, <3>2, <3>3
  <2>7. ledger \subseteq Keys \ Refused
    <3>1. PICK h \in 0..Len(starts) : ledger = FirstRequests(h)
      BY DEF IInv, Committed
    <3>2. CASE starts = <<>>
      <4>1. 1..h = {}
        BY <3>1, <3>2
      <4> QED BY <3>1, <4>1 DEF FirstRequests
    <3>3. CASE starts # <<>>
      <4>1. \A k \in 1..h : k \in Requests
        BY <3>3, RequestFacts DEF Requests
      <4>2. \A k \in 1..h : Acceptable(Chunk(facts, starts, k)) \subseteq Keys \ Refused
        BY <3>3, <4>1, RequestFacts, AcceptableKeys
      <4> QED BY <3>1, <4>2 DEF FirstRequests
    <3> QED BY <3>2, <3>3
  <2> QED BY <2>1, <2>2, <2>3, <2>4, <2>5, <2>6, <2>7 DEF TypeOK
<1> QED BY Inductive, <1>1, PTL

\* However long the facts of an import are, workflowTimingChunks cuts it into
\* requests that stay within the API's limits as the API counts them.
THEOREM RequestsAreBounded == Spec => []RequestsBounded
PROOF
<1>1. IInv => RequestsBounded
  <2> SUFFICES ASSUME IInv, NEW k \in Requests
               PROVE  LET c == Chunk(facts, starts, k) IN
                        Len(c) \in 1..MaxFacts /\ BodyBytes(c) <= MaxBytes
    BY DEF RequestsBounded
  <2>1. starts # <<>>
    BY DEF Requests
  <2> QED BY <2>1, RequestFacts, WellCut DEF Requests
<1> QED BY Inductive, <1>1, PTL

\* Nor does it send a request that had room for the next fact.
THEOREM RequestsAreFull == Spec => []RequestsFull
PROOF
<1>1. IInv => RequestsFull
  <2> SUFFICES ASSUME IInv, NEW k \in Requests, k + 1 \in Requests
               PROVE  LET c == Chunk(facts, starts, k) IN
                        \/ Len(c) = MaxFacts
                        \/ BodyBytes(Append(c, facts[starts[k + 1]])) >= MaxBytes
    BY DEF RequestsFull
  <2>1. starts # <<>>
    BY DEF Requests
  <2>2. Len(starts) \in Nat
    BY <2>1, RequestFacts
  <2>3. k \in 1..Len(starts) /\ k < Len(starts)
    BY <2>2 DEF Requests
  <2> QED BY <2>1, <2>3, RequestFacts, WellCut
<1> QED BY Inductive, <1>1, PTL

\* However an import is cut and replayed, each result stands at its fact's place
\* and the counters are those of the results.
THEOREM ResultsAreAligned == Spec => []ResultsAligned
PROOF
<1>1. IInv => ResultsAligned
  BY DEF IInv, Reported
<1> QED BY Inductive, <1>1, PTL

\* What AppendBatch and RequireAccepted report as accepted is committed.
THEOREM AcceptedSurvives == Spec => []AcceptedIsDurable
PROOF
<1>1. IInv => AcceptedIsDurable
  <2> SUFFICES ASSUME IInv PROVE AcceptedIsDurable
    OBVIOUS
  <2>1. /\ out.results \in Seq(RowSet) /\ Len(out.results) = offset
        /\ out = Counted(out.results)
        /\ \A i \in 1..offset : out.results[i].key = facts[i].key
        /\ \A i \in 1..offset : out.results[i].accepted => out.results[i].key \in ledger
    BY DEF IInv, Reported, ResultsAligned
  <2>2. ASSUME pc = "nil", AllAccepted(out), NEW i \in 1..Len(facts)
        PROVE  facts[i].key \in ledger
    <3>1. offset = Len(facts)
      BY <2>2 DEF IInv, Positioned
    <3>2. out.rejected = Len(out.results) - Count(out.results, "accepted")
      BY <2>1 DEF Counted
    <3>3. Count(out.results, "accepted") = Len(out.results)
      <4>1. Count(out.results, "accepted") \in Nat /\ Len(out.results) \in Nat
        BY <2>1, CountBounds, LenProperties
      <4>2. Len(out.results) - Count(out.results, "accepted") = 0
        BY <2>2, <3>2 DEF AllAccepted
      <4> QED BY <4>1, <4>2
    <3>4. \A j \in 1..Len(out.results) : out.results[j]["accepted"]
      BY <2>1, <3>3, CountBounds
    <3>5. out.results[i].accepted /\ i \in 1..offset
      BY <2>1, <2>2, <3>1, <3>4
    <3> QED BY <2>1, <3>5
  <2> QED BY <2>1, <2>2 DEF AcceptedIsDurable
<1> QED BY Inductive, <1>1, PTL

\* A failed import leaves the facts of its first requests committed, however
\* often it has been replayed.
THEOREM CommitsInOrder == Spec => []CommittedInOrder
PROOF
<1>1. IInv => CommittedInOrder
  <2> SUFFICES ASSUME IInv, NEW k \in Requests
               PROVE  \/ Acceptable(Chunk(facts, starts, k)) \subseteq ledger
                      \/ \A j \in Requests : j > k =>
                           ledger \cap Acceptable(Chunk(facts, starts, j)) \subseteq
                             UNION {Acceptable(Chunk(facts, starts, i)) : i \in 1..k}
    BY DEF CommittedInOrder
  <2>1. PICK h \in 0..Len(starts) : ledger = FirstRequests(h)
    BY DEF IInv, Committed
  <2>2. k \in Nat /\ k >= 1 /\ h \in Nat
    <3>1. starts # <<>>
      BY DEF Requests
    <3>2. Len(starts) \in Nat
      BY <3>1, RequestFacts
    <3> QED BY <3>2 DEF Requests
  <2>3. CASE k <= h
    <3>1. k \in 1..h
      BY <2>2, <2>3
    <3> QED BY <2>1, <3>1 DEF FirstRequests
  <2>4. CASE ~(k <= h)
    <3>1. 1..h \subseteq 1..k
      BY <2>2, <2>4
    <3> QED BY <2>1, <3>1 DEF FirstRequests
  <2> QED BY <2>3, <2>4
<1> QED BY Inductive, <1>1, PTL

-------------------------------------------------------------------------------
(***************************************************************************)
(* The ledger that the import promises.                                    *)
(***************************************************************************)
\* What the mapped sequences hold.
Mapped ==
  /\ ImportKeys \in Seq(Keys) /\ Len(ImportKeys) = Len(facts)
  /\ \A i \in 1..Len(facts) : ImportKeys[i] = facts[i].key
  /\ Fates \in Seq({"refused", "duplicate", "new"}) /\ Len(Fates) = offset
  /\ \A i \in 1..offset : Fates[i] = Said(out.results[i])

\* The mapping follows from the invariant.
LEMMA IsMapped == IInv => Mapped
PROOF
<1> SUFFICES ASSUME IInv PROVE Mapped
  OBVIOUS
<1>1. facts \in Seq(Facts) /\ Len(facts) \in Nat
  BY LenProperties DEF IInv, Imported
<1>2. out.results \in Seq(RowSet) /\ Len(out.results) = offset /\ offset \in Nat
  BY LenProperties DEF IInv, Reported, ResultsAligned
<1>3. ASSUME NEW S, NEW n \in Nat, NEW f \in [1..n -> S] PROVE f \in Seq(S) /\ Len(f) = n
  <2>1. f \in Seq(S) /\ DOMAIN f = 1..n
    BY SeqDef
  <2>2. DOMAIN f = 1..Len(f) /\ Len(f) \in Nat
    BY <2>1, LenProperties
  <2> QED BY <2>1, <2>2
<1>4. ImportKeys \in [1..Len(facts) -> Keys]
  <2>1. \A i \in 1..Len(facts) : facts[i] \in Facts
    BY <1>1, ElementOfSeq
  <2>2. \A i \in 1..Len(facts) : facts[i].key \in Keys
    BY <2>1 DEF Facts
  <2> QED BY <2>2 DEF ImportKeys
<1>5. Fates \in [1..offset -> {"refused", "duplicate", "new"}]
  <2>1. \A row : Said(row) \in {"refused", "duplicate", "new"}
    BY DEF Said
  <2> QED BY <1>2, <2>1 DEF Fates
<1>6. ImportKeys \in Seq(Keys) /\ Len(ImportKeys) = Len(facts)
  BY <1>1, <1>3, <1>4
<1>7. Fates \in Seq({"refused", "duplicate", "new"}) /\ Len(Fates) = offset
  BY <1>2, <1>3, <1>5
<1>8. \A i \in 1..Len(facts) : ImportKeys[i] = facts[i].key
  BY DEF ImportKeys
<1>9. \A i \in 1..offset : Fates[i] = Said(out.results[i])
  BY <1>2 DEF Fates
<1> QED BY <1>6, <1>7, <1>8, <1>9 DEF Mapped

\* The same after a step.
LEMMA StaysMapped == IInv' => Mapped'
PROOF BY IsMapped, PTL

\* The next request is some of the facts that follow those told of, and what it
\* commits is what committing those does.
LEMMA CurrentIsNext ==
  ASSUME IInv, pc = "sending"
  PROVE  /\ offset + Len(Current) \in Ledger!Ends
         /\ Commit => Ledger!Commit(offset + Len(Current))
PROOF
<1> DEFINE n == Len(Current)
           m == offset + n
<1>1. /\ facts \in Seq(Facts) /\ ~Rejected(facts) /\ starts = Cuts(facts)
      /\ chunk \in 1..Len(starts) /\ offset \in Nat /\ Len(facts) \in Nat
      /\ n \in Nat /\ n >= 1 /\ m <= Len(facts)
      /\ \A i \in 1..n : Current[i] = facts[offset + i]
  BY CurrentFacts
<1>2. n \in 1..MaxFacts
  BY <1>1, WellCut DEF Current
<1>3. /\ Len(ImportKeys) = Len(facts) /\ Len(Fates) = offset
      /\ \A i \in 1..Len(facts) : ImportKeys[i] = facts[i].key
  BY IsMapped DEF Mapped
<1> HIDE DEF n
<1>4. m \in 1..Len(facts) /\ m > offset /\ m <= offset + MaxFacts
  BY <1>1, <1>2, LimitsAssumption
<1>5. m \in Ledger!Ends
  BY <1>3, <1>4 DEF Ledger!Ends
<1>6. {Current[i].key : i \in 1..n} = {ImportKeys[i] : i \in Ledger!Following(m)}
  <2>1. Ledger!Following(m) = (offset + 1)..m
    BY <1>3 DEF Ledger!Following
  <2>2. ASSUME NEW i \in 1..n
        PROVE  offset + i \in (offset + 1)..m /\ Current[i].key = ImportKeys[offset + i]
    <3>1. offset + i \in (offset + 1)..m /\ offset + i \in 1..Len(facts)
      BY <1>1
    <3> QED BY <1>1, <1>3, <3>1
  <2>3. ASSUME NEW i \in (offset + 1)..m
        PROVE  i - offset \in 1..n /\ ImportKeys[i] = Current[i - offset].key
    <3>1. i - offset \in 1..n /\ offset + (i - offset) = i
      BY <1>1
    <3> QED BY <2>2, <3>1
  <2> HIDE DEF m
  <2>4. \A k : (\E i \in 1..n : k = Current[i].key)
               <=> (\E i \in (offset + 1)..m : k = ImportKeys[i])
    BY <2>2, <2>3
  <2> QED BY <2>1, <2>4
<1>7. Commit => Ledger!Commit(m)
  <2>1. Acceptable(Current) = {ImportKeys[i] : i \in Ledger!Following(m)} \ Refused
    BY <1>6 DEF Acceptable, n
  <2> QED BY <2>1 DEF Commit, Ledger!Commit
<1> QED BY <1>5, <1>7 DEF n

\* A call, or its replay, tells of every fact afresh.
LEMMA AppendBatchIsCall == IInv /\ IInv' /\ AppendBatch => Ledger!Call
PROOF
<1> SUFFICES ASSUME IInv, IInv', AppendBatch PROVE Ledger!Call
  OBVIOUS
<1>1. /\ facts' = facts /\ ledger' = ledger /\ offset' = 0
      /\ pc \in {"idle", "error"} /\ pc' \in {"sending", "error"}
  BY DEF AppendBatch
<1>2. ImportKeys' = ImportKeys
  BY <1>1 DEF ImportKeys
<1>3. Fates' = <<>>
  <2>1. Fates' \in Seq({"refused", "duplicate", "new"}) /\ Len(Fates') = 0
    BY <1>1, StaysMapped DEF Mapped
  <2> QED BY <2>1, EmptySeq
<1>4. CallState \in {"idle", "error"} /\ CallState' \in {"running", "error"}
  BY <1>1 DEF CallState
<1> QED BY <1>1, <1>2, <1>3, <1>4 DEF Ledger!Call

\* A request that is answered properly is told of fact by fact.
LEMMA AppendedIsTell == IInv /\ IInv' /\ Appended => Ledger!Tell
PROOF
<1> SUFFICES ASSUME IInv, IInv', Appended PROVE Ledger!Tell
  OBVIOUS
<1> DEFINE c == Current
           n == Len(c)
           m == offset + n
<1>1. /\ facts' = facts /\ starts' = starts /\ offset' = m
      /\ pc = "sending" /\ pc' = (IF chunk = Len(starts) THEN "nil" ELSE "sending")
      /\ Commit
  BY DEF Appended
<1>2. /\ chunk \in 1..Len(starts) /\ offset \in Nat /\ Len(facts) \in Nat
      /\ starts \in Seq(1..Len(facts)) /\ Len(starts) \in Nat
      /\ c \in Seq(Facts) /\ n \in Nat /\ n >= 1
      /\ \A i \in 1..n : c[i] = facts[offset + i]
      /\ m <= Len(facts)
      /\ chunk = Len(starts) => m = Len(facts)
      /\ chunk # Len(starts) => m + 1 = starts[chunk + 1]
  BY <1>1, CurrentFacts, RequestFacts
<1>3. out' = Merged(Counted(Rows(c)))
  <2>1. PICK a \in Answers(c) : Valid(a, n) /\ out' = Merged(a)
    BY DEF Appended
  <2>2. a = Counted(Rows(c))
    <3> HIDE DEF c
    <3> QED BY <1>2, <2>1, ValidIsHonest
  <2> QED BY <2>1, <2>2
<1>4. m \in Ledger!Ends /\ Ledger!Commit(m)
  BY <1>1, CurrentIsNext
<1> HIDE DEF c, n
<1>5. /\ Len(ImportKeys) = Len(facts) /\ Len(Fates) = offset
      /\ \A i \in 1..Len(facts) : ImportKeys[i] = facts[i].key
      /\ \A i \in 1..offset : Fates[i] = Said(out.results[i])
  BY IsMapped DEF Mapped
<1>6. /\ Fates' \in Seq({"refused", "duplicate", "new"}) /\ Len(Fates') = m
      /\ \A i \in 1..m : Fates'[i] = Said(out'.results[i])
  <2>1. /\ Fates' \in Seq({"refused", "duplicate", "new"}) /\ Len(Fates') = offset'
        /\ \A i \in 1..offset' : Fates'[i] = Said(out'.results[i])
    BY StaysMapped DEF Mapped, Said
  <2> QED BY <1>1, <2>1
<1>7. /\ \A i \in 1..offset : out'.results[i] = out.results[i]
      /\ \A i \in (offset + 1)..m :
           /\ out'.results[i].accepted <=> c[i - offset].key \notin Refused
           /\ out'.results[i].duplicate = Rows(c)[i - offset].duplicate
  <2> DEFINE o == Merged(Counted(Rows(c)))
  <2>1. /\ out.results \in Seq(RowSet) /\ Len(out.results) = offset
        /\ out = Counted(out.results)
    BY DEF IInv, Reported, ResultsAligned
  <2>2. /\ \A i \in 1..offset : o.results[i] = out.results[i]
        /\ \A i \in (offset + 1)..(offset + Len(c)) :
             /\ o.results[i].accepted <=> c[i - offset].key \notin Refused
             /\ o.results[i].duplicate = Rows(c)[i - offset].duplicate
    BY <1>2, <2>1, MergedIsTrue
  <2>3. out' = o
    BY <1>3
  <2> HIDE DEF o
  <2> QED BY <2>2, <2>3 DEF n
<1>8. ASSUME NEW i \in (offset + 1)..m PROVE Said(out'.results[i]) = Ledger!Fate(i)
  <2> DEFINE j == i - offset
             dup == \/ ImportKeys[i] \in ledger
                    \/ \E k \in Ledger!Following(i - 1) : ImportKeys[k] = ImportKeys[i]
  <2>1. j \in 1..n /\ offset + j = i /\ i \in 1..Len(facts)
    BY <1>2
  <2>2. c[j].key = ImportKeys[i]
    BY <1>2, <1>5, <2>1
  <2>3. Ledger!Following(i - 1) = (offset + 1)..(i - 1)
    BY <1>5 DEF Ledger!Following
  <2>4. (\E k \in 1..(j - 1) : c[k].key = c[j].key)
          <=> (\E k \in (offset + 1)..(i - 1) : ImportKeys[k] = ImportKeys[i])
    <3>1. ASSUME NEW k \in 1..(j - 1)
          PROVE  offset + k \in (offset + 1)..(i - 1) /\ c[k].key = ImportKeys[offset + k]
      <4>1. offset + k \in (offset + 1)..(i - 1) /\ offset + k \in 1..Len(facts) /\ k \in 1..n
        BY <1>2, <2>1
      <4> QED BY <1>2, <1>5, <4>1
    <3>2. ASSUME NEW k \in (offset + 1)..(i - 1)
          PROVE  k - offset \in 1..(j - 1) /\ ImportKeys[k] = c[k - offset].key
      <4>1. k - offset \in 1..(j - 1) /\ offset + (k - offset) = k
        BY <1>2, <2>1
      <4> QED BY <3>1, <4>1
    <3> HIDE DEF j
    <3> QED BY <2>2, <3>1, <3>2
  <2>5. Rows(c)[j].duplicate <=> c[j].key \notin Refused /\ dup
    <3>1. Rows(c)[j].duplicate <=>
            /\ c[j].key \notin Refused
            /\ \/ c[j].key \in ledger
               \/ \E k \in 1..(j - 1) : c[k].key = c[j].key
      <4> HIDE DEF j
      <4> QED BY <1>2, <2>1, RowsAreRows DEF n
    <3> HIDE DEF j
    <3> QED BY <2>2, <2>3, <2>4, <3>1
  <2>6. /\ out'.results[i].accepted <=> ImportKeys[i] \notin Refused
        /\ out'.results[i].duplicate <=> ImportKeys[i] \notin Refused /\ dup
    BY <1>7, <2>2, <2>5
  <2>7. Ledger!Fate(i) = IF ImportKeys[i] \in Refused THEN "refused"
                         ELSE IF dup THEN "duplicate" ELSE "new"
    BY DEF Ledger!Fate
  <2> HIDE DEF dup
  <2> QED BY <2>6, <2>7 DEF Said
<1>9. Fates' = [i \in 1..m |-> IF i <= Len(Fates) THEN Fates[i] ELSE Ledger!Fate(i)]
  <2> DEFINE f(i) == IF i <= Len(Fates) THEN Fates[i] ELSE Ledger!Fate(i)
  <2>1. ASSUME NEW i \in 1..m PROVE Fates'[i] = f(i)
    <3>1. CASE i <= offset
      <4>1. i \in 1..offset
        BY <1>2, <3>1
      <4> QED BY <1>5, <1>6, <1>7, <3>1, <4>1
    <3>2. CASE ~(i <= offset)
      <4>1. i \in (offset + 1)..m
        BY <1>2, <3>2
      <4> QED BY <1>5, <1>6, <1>8, <3>2, <4>1
    <3> QED BY <3>1, <3>2
  <2>2. Fates' \in [1..m -> {"refused", "duplicate", "new"}]
    BY <1>6, LenProperties
  <2> HIDE DEF f, m
  <2>3. Fates' = [i \in 1..m |-> f(i)]
    BY <2>1, <2>2
  <2> QED BY <2>3 DEF f
<1>10. CallState = "running" /\ CallState' = IF m = Len(facts) THEN "nil" ELSE "running"
  <2>1. chunk # Len(starts) => m # Len(facts)
    <3> SUFFICES ASSUME chunk # Len(starts) PROVE m # Len(facts)
      OBVIOUS
    <3>1. chunk + 1 \in 1..Len(starts)
      BY <1>2
    <3>2. starts[chunk + 1] \in 1..Len(facts)
      BY <1>2, <3>1, ElementOfSeq
    <3> QED BY <1>2, <3>2
  <2>2. chunk = Len(starts) <=> m = Len(facts)
    BY <1>2, <2>1
  <2> HIDE DEF m
  <2> QED BY <1>1, <2>2 DEF CallState
<1>11. ImportKeys' = ImportKeys
  BY <1>1 DEF ImportKeys
<1> HIDE DEF m
<1> QED BY <1>4, <1>5, <1>9, <1>10, <1>11 DEF Ledger!Tell

\* Every step of the code is a step of the ledger or leaves it alone.
LEMMA LedgerStep == IInv /\ [Next]_vars => [Ledger!Next]_(Ledger!vars)
PROOF
<1> SUFFICES ASSUME IInv, [Next]_vars PROVE [Ledger!Next]_(Ledger!vars)
  OBVIOUS
<1>inv. IInv'
  BY NextKeepsInv
<1>1. CASE AppendBatch
  BY <1>inv, <1>1, AppendBatchIsCall DEF Ledger!Next
<1>2. CASE Appended
  BY <1>inv, <1>2, AppendedIsTell DEF Ledger!Next
<1>3. CASE Unaccounted \/ Failed
  <2>1. /\ pc = "sending" /\ pc' = "error" /\ facts' = facts /\ out' = out
        /\ Commit \/ ledger' = ledger
    BY <1>3 DEF Unaccounted, Failed
  <2>2. ImportKeys' = ImportKeys /\ Fates' = Fates
    BY <2>1 DEF ImportKeys, Fates
  <2>3. CallState = "running" /\ CallState' = "error"
    BY <2>1 DEF CallState
  <2>4. ledger' = ledger \/ \E m \in Ledger!Ends : Ledger!Commit(m)
    BY <2>1, CurrentIsNext
  <2>5. Ledger!Fail
    BY <2>2, <2>3, <2>4 DEF Ledger!Fail
  <2> QED BY <2>5 DEF Ledger!Next
<1>4. CASE UNCHANGED vars
  <2>1. facts' = facts /\ out' = out /\ pc' = pc /\ ledger' = ledger
    BY <1>4 DEF vars
  <2>2. ImportKeys' = ImportKeys /\ Fates' = Fates /\ CallState' = CallState
    BY <2>1 DEF ImportKeys, Fates, CallState
  <2> QED BY <2>1, <2>2 DEF Ledger!vars
<1> QED BY <1>1, <1>2, <1>3, <1>4 DEF Next

\* Nobody was told of anything at first.
LEMMA LedgerInit == Init => Ledger!Init
PROOF
<1> SUFFICES ASSUME Init PROVE Ledger!Init
  OBVIOUS
<1>1. pc = "idle" /\ offset = 0 /\ ledger = {} /\ Mapped
  BY InitOK, IsMapped DEF Init
<1>2. Fates = <<>>
  BY <1>1, EmptySeq DEF Mapped
<1>3. CallState = "idle"
  BY <1>1 DEF CallState
<1> QED BY <1>1, <1>2, <1>3 DEF Ledger!Init

\* AppendBatch keeps the promise of ImportLedger: facts are committed front to
\* back, in order, each is told of truthfully in its place, and a failure can
\* have committed only the very next ones.
THEOREM ImportImplementsLedger == Spec => ImplementsLedger
PROOF BY LedgerInit, LedgerStep, Inductive, PTL DEF Spec, ImplementsLedger, Ledger!Spec
===============================================================================
