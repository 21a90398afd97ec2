--------------------------- MODULE SamplingProofs ---------------------------
(***************************************************************************)
(* Sampling, for collections and weights of every size: what running totals  *)
(* and the bisection in them give, that picks are distinct, and that items    *)
(* of weight zero come last.  The recursion of the totals is met by the least *)
(* number principle: the induction theorems of the library are stated for     *)
(* operators, this one is for sets.  And random_int, which agrees with         *)
(* Python's randrange for integers of every width.                             *)
(***************************************************************************)
EXTENDS Sampling, RandomInts, SequenceTheorems, FiniteSetTheorems, WellFoundedInduction, TLAPS

-----------------------------------------------------------------------------
(* Running totals                                                          *)

\* A set of numbers that is not empty has a least one.
LEMMA LeastNumber ==
  ASSUME NEW T \in SUBSET Nat, T # {}
  PROVE  \E x \in T : \A y \in T : x <= y
<1>1. PICK x \in T : \A y \in T : ~(<<y, x>> \in OpToRel(<, Nat))
  BY NatLessThanWellFounded, WFMin
<1>2. \A y \in T : ~(y < x)
  BY <1>1 DEF OpToRel
<1> QED
  BY <1>2

\* The running totals up to n.
Totals(w, n, c) == c \in [0..n -> Int] /\ c[0] = 0 /\ \A i \in 1..n : c[i] = c[i - 1] + w[i]

LEMMA TotalsExist ==
  ASSUME NEW w, NEW N \in Nat, \A i \in 1..N : w[i] \in Int
  PROVE  \E c : Totals(w, N, c)
<1> DEFINE T == {n \in 0..N : ~\E c : Totals(w, n, c)}
<1> SUFFICES ASSUME T # {} PROVE FALSE
  OBVIOUS
<1>1. PICK n \in T : \A m \in T : n <= m
  <2> T \in SUBSET Nat
    OBVIOUS
  <2> HIDE DEF T
  <2> QED
    BY LeastNumber
<1>2. n # 0
  <2> DEFINE z == [i \in 0..0 |-> 0]
  <2>1. Totals(w, 0, z)
    BY DEF Totals
  <2> QED
    BY <2>1
<1>3. n - 1 \in 0..N /\ n - 1 \notin T /\ n \in 1..N
  BY <1>1, <1>2
<1>4. PICK c : Totals(w, n - 1, c)
  BY <1>3
<1> DEFINE d == [i \in 0..n |-> IF i = n THEN c[n - 1] + w[n] ELSE c[i]]
<1>5. c \in [0..(n - 1) -> Int] /\ c[0] = 0 /\ \A i \in 1..(n - 1) : c[i] = c[i - 1] + w[i]
  BY <1>4 DEF Totals
<1>6. d \in [0..n -> Int]
  BY <1>3, <1>5
<1>7. d[0] = 0 /\ \A i \in 1..n : d[i] = d[i - 1] + w[i]
  BY <1>3, <1>5
<1> HIDE DEF d
<1>8. Totals(w, n, d)
  BY <1>6, <1>7 DEF Totals
<1> QED
  BY <1>1, <1>8

\* What the recursive definition of the running totals comes to.
LEMMA CumulativeTotals ==
  ASSUME NEW w, Len(w) \in Nat, \A i \in 1..Len(w) : w[i] \in Int
  PROVE  Totals(w, Len(w), Cumulative(w))
<1> DEFINE N == Len(w)
           step(c) == [i \in 0..N |-> IF i = 0 THEN 0 ELSE c[i - 1] + w[i]]
           C == Cumulative(w)
<1>1. PICK c : Totals(w, N, c)
  BY TotalsExist
<1>2. c = step(c)
  <2>1. c \in [0..N -> Int] /\ c[0] = 0 /\ \A i \in 1..N : c[i] = c[i - 1] + w[i]
    BY <1>1 DEF Totals
  <2> QED
    BY <2>1
<1>3. C = step(C)
  BY <1>2 DEF Cumulative
<1> HIDE DEF C
<1>4. C[0] = 0 /\ \A i \in 1..N : C[i] = C[i - 1] + w[i]
  BY <1>3
<1> DEFINE T == {i \in 0..N : C[i] \notin Int}
<1>5. T = {}
  <2> SUFFICES ASSUME T # {} PROVE FALSE
    OBVIOUS
  <2>1. PICK n \in T : \A m \in T : n <= m
    <3> T \in SUBSET Nat
      OBVIOUS
    <3> HIDE DEF T
    <3> QED
      BY LeastNumber
  <2>2. n \in 1..N /\ n - 1 \in 0..N /\ n - 1 \notin T
    BY <1>4, <2>1
  <2>3. C[n - 1] \in Int /\ w[n] \in Int
    BY <2>2
  <2> QED
    BY <1>4, <2>1, <2>2, <2>3
<1>6. C \in [0..N -> Int]
  <2>1. \A i \in 0..N : C[i] \in Int
    BY <1>5
  <2>2. DOMAIN C = 0..N /\ C = [i \in DOMAIN C |-> C[i]]
    BY <1>3
  <2> QED
    BY <2>1, <2>2
<1> QED
  BY <1>4, <1>6 DEF Totals, C

\* Weights as cumulative lets them through.
SoundWeights(w, n) == n \in Nat /\ Len(w) = n /\ \A i \in 1..n : w[i] \in Nat

\* Running totals of sound weights start from zero and never go down.
LEMMA SoundTotals ==
  ASSUME NEW w, NEW n, SoundWeights(w, n)
  PROVE  /\ Cumulative(w) \in [0..n -> Nat]
         /\ Cumulative(w)[0] = 0
         /\ \A i \in 1..n : Cumulative(w)[i] = Cumulative(w)[i - 1] + w[i]
         /\ \A i, j \in 0..n : i <= j => Cumulative(w)[i] <= Cumulative(w)[j]
         /\ TotalWeight(w) = Cumulative(w)[n] /\ TotalWeight(w) \in Nat
<1> DEFINE C == Cumulative(w)
<1>0. n \in Nat /\ Len(w) = n /\ \A i \in 1..n : w[i] \in Nat
  BY DEF SoundWeights
<1>1. C \in [0..n -> Int] /\ C[0] = 0 /\ \A i \in 1..n : C[i] = C[i - 1] + w[i]
  <2>1. Totals(w, n, Cumulative(w))
    BY <1>0, CumulativeTotals
  <2> QED
    BY <2>1 DEF Totals
<1> HIDE DEF C
<1>2. ASSUME NEW i \in 0..n
      PROVE  \A j \in 0..n : i <= j => C[i] <= C[j]
  <2> DEFINE T == {j \in 0..n : i <= j /\ ~(C[i] <= C[j])}
  <2> SUFFICES ASSUME T # {} PROVE FALSE
    OBVIOUS
  <2>1. PICK j \in T : \A k \in T : j <= k
    <3> T \in SUBSET Nat
      BY <1>0
    <3> HIDE DEF T
    <3> QED
      BY LeastNumber
  <2>2. j # i /\ j \in 1..n /\ j - 1 \in 0..n /\ i <= j - 1
    BY <1>0, <1>1, <2>1
  <2>3. C[i] <= C[j - 1]
    <3>1. j - 1 \notin T
      BY <1>0, <2>1, <2>2
    <3> QED
      BY <2>2, <3>1
  <2>4. C[j] = C[j - 1] + w[j] /\ w[j] \in Nat
    BY <1>0, <1>1, <2>2
  <2>5. C[i] \in Int /\ C[j - 1] \in Int
    BY <1>1, <2>2
  <2> QED
    BY <2>1, <2>3, <2>4, <2>5
<1>3. \A i \in 0..n : C[i] \in Nat
  BY <1>0, <1>1, <1>2
<1>4. C \in [0..n -> Nat]
  BY <1>1, <1>3
<1>5. TotalWeight(w) = C[n]
  BY <1>0 DEF TotalWeight, C
<1> QED
  BY <1>0, <1>1, <1>2, <1>3, <1>4, <1>5 DEF C

\* Running totals of which the last one is above x: the bisection finds the one
\* place where they pass it.
LEMMA BisectPlace ==
  ASSUME NEW n \in Nat, NEW c \in [0..n -> Nat], c[0] = 0,
         \A i, j \in 0..n : i <= j => c[i] <= c[j],
         NEW x \in Nat, x < c[n]
  PROVE  /\ Bisect(c, n, x) \in 1..n
         /\ c[Bisect(c, n, x) - 1] <= x /\ x < c[Bisect(c, n, x)]
<1> DEFINE T == {i \in 1..n : x < c[i]}
           below == {i \in 1..n : c[i] <= x}
<1>1. n \in T
  BY Z3
<1>2. PICK m \in T : \A i \in T : m <= i
  <2> T \in SUBSET Nat /\ T # {}
    BY <1>1
  <2> HIDE DEF T
  <2> QED
    BY LeastNumber
<1>3. m \in 1..n /\ x < c[m] /\ m - 1 \in 0..n
  BY <1>2
<1>4. c[m - 1] <= x
  <2>1. CASE m = 1
    BY <2>1
  <2>2. CASE m # 1
    <3>1. m - 1 \in 1..n /\ m - 1 \notin T
      BY <1>2, <1>3, <2>2
    <3> QED
      BY <3>1
  <2> QED
    BY <2>1, <2>2
<1>5. \A i \in 1..n : c[i] <= x <=> i <= m - 1
  <2> SUFFICES ASSUME NEW i \in 1..n PROVE c[i] <= x <=> i <= m - 1
    OBVIOUS
  <2>1. i \in 0..n /\ m \in 0..n /\ c[i] \in Nat /\ c[m] \in Nat /\ c[m - 1] \in Nat
    BY <1>3
  <2>2. CASE i <= m - 1
    <3>1. c[i] <= c[m - 1]
      BY <1>3, <2>1, <2>2
    <3> QED
      BY <1>4, <2>1, <2>2, <3>1
  <2>3. CASE ~(i <= m - 1)
    <3>1. m <= i
      BY <1>3, <2>3
    <3>2. c[m] <= c[i]
      BY <2>1, <3>1
    <3> QED
      BY <1>3, <2>1, <2>3, <3>2
  <2> QED
    BY <2>2, <2>3
<1>6. below = 1..(m - 1)
  BY <1>3, <1>5
<1>7. Cardinality(below) = m - 1
  <2>1. Cardinality(1..(m - 1)) = IF 1 > m - 1 THEN 0 ELSE m - 1 - 1 + 1
    BY <1>3, FS_Interval
  <2>2. Cardinality(1..(m - 1)) = m - 1
    BY <1>3, <2>1
  <2> HIDE DEF below
  <2> QED
    BY <1>6, <2>2
<1>8. Bisect(c, n, x) = m
  <2>1. Bisect(c, n, x) = IF Cardinality(below) < n THEN Cardinality(below) + 1 ELSE n
    BY DEF Bisect
  <2> HIDE DEF below
  <2> QED
    BY <1>3, <1>7, <2>1
<1> QED
  BY <1>3, <1>4, <1>8

\* A draw from weights that do not all weigh nothing: item k is found by the
\* draws from the total before it to the one with it, of which there are w[k].
LEMMA BisectDraw ==
  ASSUME NEW w, NEW n, SoundWeights(w, n), NEW x \in Nat, x < TotalWeight(w), NEW k \in 1..n
  PROVE  Bisect(Cumulative(w), n, x) = k
           <=> Cumulative(w)[k - 1] <= x /\ x < Cumulative(w)[k - 1] + w[k]
<1> DEFINE C == Cumulative(w)
           b == Bisect(C, n, x)
<1>1. /\ n \in Nat /\ C \in [0..n -> Nat] /\ C[0] = 0
      /\ \A i \in 1..n : C[i] = C[i - 1] + w[i]
      /\ \A i, j \in 0..n : i <= j => C[i] <= C[j]
      /\ x < C[n]
  BY SoundTotals DEF SoundWeights
<1> HIDE DEF C
<1>2. b \in 1..n /\ C[b - 1] <= x /\ x < C[b]
  BY <1>1, BisectPlace
<1> HIDE DEF b
<1>3. ASSUME C[k - 1] <= x, x < C[k]
      PROVE  b = k
  <2>1. /\ k \in 0..n /\ b \in 0..n /\ k - 1 \in 0..n /\ b - 1 \in 0..n
        /\ C[k] \in Nat /\ C[b] \in Nat /\ C[k - 1] \in Nat /\ C[b - 1] \in Nat
    BY <1>1, <1>2
  <2>2. ~(b <= k - 1)
    BY <1>1, <1>2, <1>3, <2>1
  <2>3. ~(k <= b - 1)
    BY <1>1, <1>2, <1>3, <2>1
  <2> QED
    BY <1>1, <1>2, <2>2, <2>3
<1>4. C[k] = C[k - 1] + w[k]
  BY <1>1
<1> QED
  BY <1>2, <1>3, <1>4 DEF b, C

-----------------------------------------------------------------------------
(* Distinct picks                                                          *)

\* A function on 1..n is a sequence of length n.
LEMMA FunctionIsSequence ==
  ASSUME NEW S, NEW n \in Nat, NEW f \in [1..n -> S]
  PROVE  f \in Seq(S) /\ Len(f) = n
<1>1. f \in Seq(S)
  BY SeqDef
<1>2. Len(f) \in Nat /\ DOMAIN f = 1..Len(f)
  BY <1>1, LenProperties
<1>3. 1..n = 1..Len(f)
  BY <1>2
<1> QED
  BY <1>1, <1>2, <1>3

\* partition_point(...).min(n - 1) is an index of the n items.
LEMMA BisectIndex ==
  ASSUME NEW c, NEW x, NEW n \in Nat, n > 0
  PROVE  Bisect(c, n, x) \in 1..n
<1> DEFINE below == {i \in 1..n : c[i] <= x}
<1>1. IsFiniteSet(1..n)
  BY FS_Interval
<1>2. Cardinality(below) \in Nat
  BY <1>1, FS_Subset, FS_CardinalityType
<1>3. Bisect(c, n, x) = IF Cardinality(below) < n THEN Cardinality(below) + 1 ELSE n
  BY DEF Bisect
<1> HIDE DEF below
<1> QED
  BY <1>2, <1>3

\* The pool starts as the identity permutation.
LEMMA IndicesSequence ==
  ASSUME NEW n \in Nat
  PROVE  /\ Indices(n) \in Seq(1..n) /\ Len(Indices(n)) = n
         /\ Injective(Indices(n))
<1>1. Indices(n) \in [1..n -> 1..n]
  BY DEF Indices
<1>2. Indices(n) \in Seq(1..n) /\ Len(Indices(n)) = n
  BY <1>1, FunctionIsSequence
<1>3. Injective(Indices(n))
  BY <1>2 DEF Indices, Injective
<1> QED
  BY <1>2, <1>3

\* A swap keeps the members of a sequence distinct.
LEMMA SwappedSequence ==
  ASSUME NEW S, NEW p \in Seq(S), NEW i \in 1..Len(p), NEW j \in 1..Len(p), Injective(p)
  PROVE  /\ Swapped(p, i, j) \in Seq(S) /\ Len(Swapped(p, i, j)) = Len(p)
         /\ Injective(Swapped(p, i, j))
<1> DEFINE q == [k \in 1..Len(p) |-> IF k = j THEN p[i] ELSE IF k = i THEN p[j] ELSE p[k]]
<1>0. Len(p) \in Nat /\ p \in [1..Len(p) -> S] /\ DOMAIN p = 1..Len(p)
  BY LenProperties
<1>1. Swapped(p, i, j) = q
  BY <1>0 DEF Swapped
<1>2. q \in [1..Len(p) -> S]
  BY <1>0
<1>3. q \in Seq(S) /\ Len(q) = Len(p)
  BY <1>0, <1>2, FunctionIsSequence
<1>4. Injective(q)
  <2> SUFFICES ASSUME NEW a \in 1..Len(p), NEW b \in 1..Len(p), a # b
               PROVE  q[a] # q[b]
    BY <1>3 DEF Injective
  <2> QED
    BY DEF Injective
<1> QED
  BY <1>1, <1>3, <1>4

\* remove(k) takes one member out, and leaves the others distinct from it and
\* from each other.
LEMMA WithoutSequence ==
  ASSUME NEW S, NEW p \in Seq(S), NEW k \in 1..Len(p)
  PROVE  /\ Without(p, k) \in Seq(S) /\ Len(Without(p, k)) = Len(p) - 1
         /\ \A a \in 1..(Len(p) - 1) : \E b \in 1..Len(p) : Without(p, k)[a] = p[b]
         /\ Injective(p) =>
              /\ Injective(Without(p, k))
              /\ \A a \in 1..(Len(p) - 1) : Without(p, k)[a] # p[k]
<1>0. Len(p) \in Nat /\ p \in [1..Len(p) -> S]
  BY LenProperties
<1>1. Len(p) - 1 \in Nat
  BY <1>0
<1>2. Without(p, k) \in [1..(Len(p) - 1) -> S]
  BY <1>0 DEF Without
<1>3. Without(p, k) \in Seq(S) /\ Len(Without(p, k)) = Len(p) - 1
  BY <1>1, <1>2, FunctionIsSequence
<1>4. \A a \in 1..(Len(p) - 1) : Without(p, k)[a] = IF a < k THEN p[a] ELSE p[a + 1]
  BY DEF Without
<1>5. \A a \in 1..(Len(p) - 1) : \E b \in 1..Len(p) : b # k /\ Without(p, k)[a] = p[b]
  <2> SUFFICES ASSUME NEW a \in 1..(Len(p) - 1)
               PROVE  \E b \in 1..Len(p) : b # k /\ Without(p, k)[a] = p[b]
    OBVIOUS
  <2>1. CASE a < k
    BY <1>0, <1>4, <2>1
  <2>2. CASE ~(a < k)
    <3>1. a + 1 \in 1..Len(p) /\ a + 1 # k
      BY <1>0, <2>2
    <3> QED
      BY <1>4, <2>2, <3>1
  <2> QED
    BY <2>1, <2>2
<1>6. ASSUME Injective(p)
      PROVE  Injective(Without(p, k)) /\ \A a \in 1..(Len(p) - 1) : Without(p, k)[a] # p[k]
  <2>1. \A a \in 1..(Len(p) - 1) : Without(p, k)[a] # p[k]
    BY <1>5, <1>6 DEF Injective
  <2>2. ASSUME NEW a \in 1..(Len(p) - 1), NEW b \in 1..(Len(p) - 1), a # b
        PROVE  Without(p, k)[a] # Without(p, k)[b]
    <3> DEFINE at(c) == IF c < k THEN c ELSE c + 1
    <3>1. at(a) \in 1..Len(p) /\ at(b) \in 1..Len(p) /\ at(a) # at(b)
      BY <1>0, <2>2
    <3>2. Without(p, k)[a] = p[at(a)] /\ Without(p, k)[b] = p[at(b)]
      BY <1>4
    <3> QED
      BY <1>6, <3>1, <3>2 DEF Injective
  <2> QED
    BY <1>3, <2>1, <2>2 DEF Injective
<1> QED
  BY <1>3, <1>5, <1>6

\* Appending an index to what was picked.
LEMMA AppendPicked ==
  ASSUME NEW S, NEW p \in Seq(S), NEW e \in S
  PROVE  /\ Append(p, e) \in Seq(S) /\ Len(Append(p, e)) = Len(p) + 1
         /\ Injective(p) /\ (\A a \in 1..Len(p) : p[a] # e) => Injective(Append(p, e))
         /\ \A a \in 1..Len(Append(p, e)) :
              (a \in 1..Len(p) /\ Append(p, e)[a] = p[a]) \/ Append(p, e)[a] = e
<1>1. /\ Append(p, e) \in Seq(S) /\ Len(Append(p, e)) = Len(p) + 1
      /\ \A a \in 1..Len(p) : Append(p, e)[a] = p[a]
      /\ Append(p, e)[Len(p) + 1] = e
      /\ Len(p) \in Nat
  BY AppendProperties, LenProperties
<1>2. \A a \in 1..Len(Append(p, e)) : a \in 1..Len(p) \/ a = Len(p) + 1
  BY <1>1
<1>3. ASSUME Injective(p), \A a \in 1..Len(p) : p[a] # e
      PROVE  Injective(Append(p, e))
  BY <1>1, <1>2, <1>3 DEF Injective
<1> QED
  BY <1>1, <1>2, <1>3

\* The calls a specification step may start are those SampleTypeOK allows.
LEMMA InitSample == SampleInit => SampleInv
<1> SUFFICES ASSUME SampleInit PROVE SampleInv
  OBVIOUS
<1>1. request \in [n : 0..MaxItems, weights : WeightVectors,
                   length : 0..(MaxItems + 1), unique : BOOLEAN]
  BY SamplingAssumption DEF SampleInit, NoRequest, WeightVectors
<1>2. pool \in Seq(1..request.n) /\ picked \in Seq(1..request.n) /\ Len(pool) = 0
  BY EmptySeq DEF SampleInit
<1>3. SampleTypeOK
  BY <1>1, <1>2 DEF SampleInit, SampleTypeOK, NoRequest
<1> QED
  BY <1>3 DEF SampleInit, SampleInv, Fresh, DistinctPicks

\* A new request finds a fresh pool.
LEMMA StartStep ==
  ASSUME SampleInv, sampling = "idle",
         NEW n \in 0..MaxItems, NEW w \in WeightVectors, NEW l \in 0..(MaxItems + 1),
         NEW unique \in BOOLEAN, l > 0 => n > 0, unique => l <= n,
         Start(n, w, l, unique)
  PROVE  SampleInv'
<1>0. n \in Nat /\ Fresh
  BY SamplingAssumption DEF SampleInv
<1>1. /\ sampling' = "drawing" /\ drawn' = 0 /\ picked' = <<>> /\ pool' = Indices(n)
      /\ request' = [n |-> n, weights |-> w, length |-> l, unique |-> unique]
  BY <1>0 DEF Start, Fresh
<1>2. pool' \in Seq(1..n) /\ Len(pool') = n /\ Injective(pool')
  BY <1>0, <1>1, IndicesSequence
<1>3. picked' \in Seq(1..n) /\ Len(picked') = 0
  BY <1>1, EmptySeq
<1>4. SampleTypeOK'
  BY <1>0, <1>1, <1>2, <1>3 DEF SampleTypeOK
<1>5. Injective(picked') /\ Apart(picked', pool')
  BY <1>3 DEF Injective, Apart
<1>6. request'.unique => UniqueInv'
  BY <1>0, <1>1, <1>2, <1>3, <1>5 DEF UniqueInv
<1> QED
  BY <1>1, <1>3, <1>4, <1>6 DEF SampleInv, DistinctPicks

\* A refused call changes nothing but the answer.
LEMMA FailStep ==
  ASSUME SampleInv, sampling = "idle", Fail
  PROVE  SampleInv'
  BY DEF SampleInv, SampleTypeOK, Fail, Fresh, DistinctPicks, UniqueInv, Weighted

LEMMA AskElementsStep ==
  ASSUME SampleInv, NEW n \in 0..MaxItems, NEW w \in WeightVectors, NEW length \in Lengths,
         NEW unique \in BOOLEAN, sampling = "idle", AskElements(n, w, length, unique)
  PROVE  SampleInv'
<1>0. sampling = "idle"
  OBVIOUS
<1>1. CASE Fail
  BY <1>0, <1>1, FailStep
<1>2. ASSUME ~Refused(n, w, length, unique), NEW l \in LengthsFor(n, length),
             Start(n, w, l, unique)
      PROVE  SampleInv'
  <2>1. n \in Nat /\ AnyLength \notin Int /\ MaxItems \in Nat
    BY SamplingAssumption
  <2>2. CASE length = AnyLength
    <3>1. l \in 1..n
      BY <2>2, <1>2 DEF LengthsFor
    <3> QED
      BY <1>0, <1>2, <2>1, <3>1, StartStep
  <2>3. CASE length # AnyLength
    <3>1. l = length /\ l \in 0..(MaxItems + 1)
      BY <2>3, <1>2 DEF LengthsFor, Lengths
    <3>2. (l > 0 => n > 0) /\ (unique => l <= n)
      BY <2>1, <2>3, <1>2, <3>1 DEF Refused
    <3> QED
      BY <1>0, <1>2, <3>1, <3>2, StartStep
  <2> QED
    BY <2>2, <2>3
<1> QED
  BY <1>1, <1>2 DEF AskElements

LEMMA AskWordsStep ==
  ASSUME SampleInv, NEW n \in 0..MaxItems, NEW nb \in (-1)..(MaxItems + 1),
         NEW unique \in BOOLEAN, sampling = "idle", AskWords(n, nb, unique)
  PROVE  SampleInv'
<1> DEFINE length == IF nb < 0 /\ ~unique THEN 0 ELSE nb
<1>0. sampling = "idle" /\ MaxItems \in Nat /\ AnyLength \notin Int
  BY SamplingAssumption
<1>1. CASE Fail
  BY <1>0, <1>1, FailStep
<1>2. CASE length >= 0 /\ ~Refused(n, NoWeights, length, unique) /\ Start(n, NoWeights, length, unique)
  <2>1. length \in 0..(MaxItems + 1)
    BY <1>0, <1>2
  <2>2. (length > 0 => n > 0) /\ (unique => length <= n)
    BY <1>0, <1>2, <2>1 DEF Refused
  <2>3. NoWeights \in WeightVectors
    BY DEF WeightVectors
  <2> HIDE DEF length
  <2> QED
    BY <1>0, <1>2, <2>1, <2>2, <2>3, StartStep
<1> QED
  BY <1>1, <1>2 DEF AskWords

\* A round that appends index e, with replacement.
LEMMA ReplacementStep ==
  ASSUME SampleInv, MoreToDraw, ~request.unique, NEW e \in 1..request.n,
         picked' = Append(picked, e), drawn' = drawn + 1,
         UNCHANGED <<sampling, request, pool>>
  PROVE  SampleInv'
<1>1. picked \in Seq(1..request.n) /\ drawn \in 0..request.length /\ drawn < request.length
      /\ request.length \in Nat
  BY SamplingAssumption DEF SampleInv, SampleTypeOK, MoreToDraw
<1>2. picked' \in Seq(1..request.n) /\ Len(picked') = Len(picked) + 1
  BY <1>1, AppendPicked
<1>3. SampleTypeOK'
  BY <1>1, <1>2 DEF SampleInv, SampleTypeOK
<1>4. Len(picked') = drawn'
  BY <1>2 DEF SampleInv, MoreToDraw
<1> QED
  BY <1>3, <1>4 DEF SampleInv, MoreToDraw, DistinctPicks

LEMMA DrawUniformStep ==
  ASSUME SampleInv, NEW i \in 1..request.n, DrawUniform(i)
  PROVE  SampleInv'
  BY ReplacementStep DEF DrawUniform

LEMMA DrawWeightedStep ==
  ASSUME SampleInv, NEW x, DrawWeighted(x)
  PROVE  SampleInv'
<1>1. request.n \in Nat /\ request.n > 0
  BY SamplingAssumption DEF DrawWeighted, MoreToDraw, SampleInv, SampleTypeOK
<1>2. Bisect(Cumulative(request.weights), request.n, x) \in 1..request.n
  BY <1>1, BisectIndex
<1> QED
  BY <1>2, ReplacementStep DEF DrawWeighted

LEMMA SwapStep ==
  ASSUME SampleInv, NEW j \in 1..request.n, Swap(j)
  PROVE  SampleInv'
<1>1. /\ sampling = "drawing" /\ drawn \in 0..request.length /\ drawn < request.length
      /\ request.length \in Nat /\ request.n \in Nat /\ request.unique /\ ~Weighted
      /\ pool \in Seq(1..request.n) /\ picked \in Seq(1..request.n)
  BY SamplingAssumption DEF Swap, MoreToDraw, Sampled, SampleInv, SampleTypeOK
<1>2. UniqueInv /\ Len(pool) = request.n /\ request.length <= request.n /\ Injective(pool)
  BY <1>1 DEF SampleInv, UniqueInv
<1>3. drawn + 1 \in 1..Len(pool) /\ j \in 1..Len(pool)
  BY <1>1, <1>2
<1>4. pool' = Swapped(pool, drawn + 1, j) /\ drawn' = drawn + 1
      /\ UNCHANGED <<sampling, request, picked>>
  BY DEF Swap
<1>5. pool' \in Seq(1..request.n) /\ Len(pool') = request.n /\ Injective(pool')
  BY <1>1, <1>2, <1>3, <1>4, SwappedSequence
<1>6. SampleTypeOK'
  BY <1>1, <1>4, <1>5 DEF SampleInv, SampleTypeOK
<1>7. UniqueInv'
  BY <1>1, <1>2, <1>4, <1>5 DEF UniqueInv, Weighted
<1> QED
  BY <1>1, <1>4, <1>6, <1>7 DEF SampleInv, DistinctPicks

LEMMA TakeStep ==
  ASSUME SampleInv, NEW x, Take(x)
  PROVE  SampleInv'
<1> DEFINE k == Bisect(Cumulative(WeightsOf(pool, request.weights)), Len(pool), x)
<1>1. /\ sampling = "drawing" /\ drawn \in 0..request.length /\ drawn < request.length
      /\ request.length \in Nat /\ request.n \in Nat /\ request.unique /\ Weighted
      /\ pool \in Seq(1..request.n) /\ picked \in Seq(1..request.n)
  BY SamplingAssumption DEF Take, MoreToDraw, SampleInv, SampleTypeOK
<1>2. /\ UniqueInv /\ Len(pool) = request.n - drawn /\ request.length <= request.n
      /\ Len(picked) = drawn /\ Injective(pool) /\ Injective(picked) /\ Apart(picked, pool)
  BY <1>1 DEF SampleInv, UniqueInv
<1>3. Len(pool) \in Nat /\ Len(pool) > 0 /\ Len(picked) \in Nat
  BY <1>1, <1>2
<1>4. k \in 1..Len(pool)
  BY <1>3, BisectIndex
<1>5. /\ picked' = Append(picked, pool[k]) /\ pool' = Without(pool, k)
      /\ drawn' = drawn + 1 /\ UNCHANGED <<sampling, request>>
  BY DEF Take
<1> HIDE DEF k
<1>6. pool[k] \in 1..request.n
  BY <1>1, <1>4, ElementOfSeq
<1>7. /\ pool' \in Seq(1..request.n) /\ Len(pool') = Len(pool) - 1 /\ Injective(pool')
      /\ \A a \in 1..Len(pool') : \E b \in 1..Len(pool) : pool'[a] = pool[b]
      /\ \A a \in 1..Len(pool') : pool'[a] # pool[k]
  <2> DEFINE S == 1..request.n
  <2>0. pool \in Seq(S) /\ Injective(pool) /\ k \in 1..Len(pool)
    BY <1>1, <1>2, <1>4
  <2> HIDE DEF S
  <2>1. /\ Without(pool, k) \in Seq(S) /\ Len(Without(pool, k)) = Len(pool) - 1
        /\ Injective(Without(pool, k))
        /\ \A a \in 1..(Len(pool) - 1) : \E b \in 1..Len(pool) : Without(pool, k)[a] = pool[b]
        /\ \A a \in 1..(Len(pool) - 1) : Without(pool, k)[a] # pool[k]
    BY <2>0, WithoutSequence
  <2> QED
    BY <2>1, <1>5 DEF S
<1>8. \A a \in 1..Len(picked) : picked[a] # pool[k]
  BY <1>2, <1>4 DEF Apart
<1>9. /\ picked' \in Seq(1..request.n) /\ Len(picked') = Len(picked) + 1 /\ Injective(picked')
      /\ \A a \in 1..Len(picked') :
           (a \in 1..Len(picked) /\ picked'[a] = picked[a]) \/ picked'[a] = pool[k]
  BY <1>1, <1>2, <1>5, <1>6, <1>8, AppendPicked
<1>10. Apart(picked', pool')
  <2> SUFFICES ASSUME NEW a \in 1..Len(picked'), NEW b \in 1..Len(pool')
               PROVE  picked'[a] # pool'[b]
    BY DEF Apart
  <2>1. PICK c \in 1..Len(pool) : pool'[b] = pool[c]
    BY <1>7
  <2> QED
    BY <1>2, <1>7, <1>9, <2>1 DEF Apart
<1>11. SampleTypeOK'
  BY <1>1, <1>2, <1>3, <1>5, <1>7, <1>9 DEF SampleInv, SampleTypeOK
<1>12. UniqueInv'
  <2>1. request' = request /\ Weighted'
    BY <1>1, <1>5 DEF Weighted
  <2>2. Len(pool') = request'.n - drawn' /\ Len(picked') = drawn'
    <3>1. Len(pool') = Len(pool) - 1 /\ Len(picked') = Len(picked) + 1 /\ drawn' = drawn + 1
      BY <1>5, <1>7, <1>9
    <3>2. drawn \in Int /\ request.n \in Int
      BY <1>1
    <3> QED
      BY <1>2, <2>1, <3>1, <3>2
  <2>3. request'.length <= request'.n
    BY <1>2, <2>1
  <2> QED
    BY <1>7, <1>9, <1>10, <2>1, <2>2, <2>3 DEF UniqueInv
<1>13. request' = request /\ sampling' = "drawing"
  BY <1>1, <1>5
<1>14. request.length > 0 => request.n > 0
  BY <1>1, <1>2
<1>15. DistinctPicks'
  BY <1>13 DEF DistinctPicks
<1> QED
  BY <1>1, <1>11, <1>12, <1>13, <1>14, <1>15 DEF SampleInv

LEMMA FinishStep ==
  ASSUME SampleInv, Finish
  PROVE  SampleInv'
<1>1. /\ sampling = "drawing" /\ sampling' = "done" /\ drawn = request.length
      /\ request.length \in Nat /\ request.n \in Nat /\ UNCHANGED <<request, pool, drawn>>
      /\ pool \in Seq(1..request.n) /\ picked \in Seq(1..request.n)
      /\ picked' = IF Sampled THEN SubSeq(pool, 1, drawn) ELSE picked
  BY SamplingAssumption DEF Finish, SampleInv, SampleTypeOK
<1>2. /\ picked' \in Seq(1..request.n) /\ Len(picked') = request.length
      /\ request.unique => Injective(picked')
  <2>1. CASE Sampled
    <3>1. /\ request.unique /\ Len(pool) = request.n /\ Injective(pool)
          /\ request.length <= request.n
      BY <1>1, <2>1 DEF SampleInv, UniqueInv, Sampled
    <3>2. \A i \in 1..drawn : pool[i] \in 1..request.n
      <4>1. \A i \in 1..drawn : i \in 1..Len(pool)
        BY <1>1, <3>1
      <4> QED
        BY <1>1, <4>1, ElementOfSeq
    <3>3. /\ picked' = SubSeq(pool, 1, drawn)
          /\ picked' \in Seq(1..request.n) /\ Len(picked') = request.length
          /\ \A i \in 1..request.length : picked'[i] = pool[i]
      BY <1>1, <2>1, <3>2, SubSeqProperties
    <3>4. ASSUME NEW a \in 1..Len(picked'), NEW b \in 1..Len(picked'), a # b
          PROVE  picked'[a] # picked'[b]
      <4>1. a \in 1..request.length /\ b \in 1..request.length
        BY <3>3
      <4>2. a \in 1..Len(pool) /\ b \in 1..Len(pool)
        BY <1>1, <3>1, <4>1
      <4>3. pool[a] # pool[b]
        BY <3>1, <3>4, <4>2 DEF Injective
      <4> QED
        BY <3>3, <4>1, <4>3
    <3>5. Injective(picked')
      BY <3>4 DEF Injective
    <3> QED
      BY <3>3, <3>5
  <2>2. CASE ~Sampled
    <3>1. picked' = picked /\ Len(picked) = drawn
      BY <1>1, <2>2 DEF SampleInv, UniqueInv, Sampled
    <3>2. request.unique => Injective(picked)
      BY <1>1, <2>2 DEF SampleInv, UniqueInv, Sampled
    <3> QED
      BY <1>1, <3>1, <3>2
  <2> QED
    BY <2>1, <2>2
<1>3. SampleTypeOK'
  BY <1>1, <1>2 DEF SampleInv, SampleTypeOK
<1>4. \A a \in 1..Len(picked') : picked'[a] \in 1..request.n
  BY <1>2, ElementOfSeq
<1>5. DistinctPicks'
  BY <1>1, <1>2, <1>4 DEF DistinctPicks, Injective
<1> QED
  BY <1>1, <1>3, <1>5 DEF SampleInv

LEMMA GotIndicesStep ==
  ASSUME SampleInv, GotIndices
  PROVE  SampleInv'
<1>1. /\ sampling' = "idle" /\ request' = NoRequest
      /\ pool' = <<>> /\ picked' = <<>> /\ drawn' = 0
  BY DEF GotIndices
<1>2. request' \in [n : 0..MaxItems, weights : WeightVectors,
                    length : 0..(MaxItems + 1), unique : BOOLEAN]
  BY <1>1, SamplingAssumption DEF NoRequest, WeightVectors
<1>3. pool' \in Seq(1..request'.n) /\ picked' \in Seq(1..request'.n) /\ Len(pool') = 0
  BY <1>1, EmptySeq
<1>4. SampleTypeOK'
  BY <1>1, <1>2, <1>3 DEF SampleTypeOK, NoRequest
<1> QED
  BY <1>1, <1>4 DEF SampleInv, Fresh, DistinctPicks

\* SampleInv holds of every call, whatever its arguments and draws.
THEOREM SampleInvariant == SampleSpec => []SampleInv
<1>1. SampleInit => SampleInv
  BY InitSample
<1>2. SampleInv /\ [SampleNext]_sampleVars => SampleInv'
  <2> SUFFICES ASSUME SampleInv, [SampleNext]_sampleVars
               PROVE  SampleInv'
    OBVIOUS
  <2>1. ASSUME NEW n \in 0..MaxItems, NEW w \in WeightVectors, NEW length \in Lengths,
               NEW unique \in BOOLEAN, sampling = "idle",
               AskElements(n, w, length, unique)
        PROVE  SampleInv'
    BY <2>1, AskElementsStep
  <2>2. ASSUME NEW n \in 0..MaxItems, NEW nb \in (-1)..(MaxItems + 1), NEW unique \in BOOLEAN,
               sampling = "idle", AskWords(n, nb, unique)
        PROVE  SampleInv'
    BY <2>2, AskWordsStep
  <2>3. ASSUME NEW i \in 1..request.n, DrawUniform(i)
        PROVE  SampleInv'
    BY <2>3, DrawUniformStep
  <2>4. ASSUME NEW x, DrawWeighted(x)
        PROVE  SampleInv'
    BY <2>4, DrawWeightedStep
  <2>5. ASSUME NEW x, Take(x)
        PROVE  SampleInv'
    BY <2>5, TakeStep
  <2>6. ASSUME NEW j \in 1..request.n, Swap(j)
        PROVE  SampleInv'
    BY <2>6, SwapStep
  <2>7. CASE Finish
    BY <2>7, FinishStep
  <2>8. CASE GotIndices
    BY <2>8, GotIndicesStep
  <2>9. CASE UNCHANGED sampleVars
    BY <2>9 DEF sampleVars, SampleInv, SampleTypeOK, Fresh, UniqueInv, DistinctPicks,
                Weighted, Injective, Apart
  <2> QED
    BY <2>1, <2>2, <2>3, <2>4, <2>5, <2>6, <2>7, <2>8, <2>9 DEF SampleNext, SampleStep
<1> QED
  BY <1>1, <1>2, PTL DEF SampleSpec

\* A unique call that succeeds gives as many indices as it was asked for, each
\* that of an item, none twice (base.rs, sample_indices and weighted_unique).
THEOREM DistinctPicksTheorem == SampleSpec => []DistinctPicks
<1>1. SampleInv => DistinctPicks
  BY DEF SampleInv
<1> QED
  BY <1>1, SampleInvariant, PTL

-----------------------------------------------------------------------------
(* Items of weight zero                                                    *)

\* Some item has a weight: the one a draw finds does.
LEMMA BisectPositive ==
  ASSUME NEW w, NEW n, SoundWeights(w, n), NEW x \in DrawsUpTo(TotalWeight(w)),
         TotalWeight(w) > 0
  PROVE  Bisect(Cumulative(w), n, x) \in 1..n /\ w[Bisect(Cumulative(w), n, x)] # 0
<1> DEFINE C == Cumulative(w)
           b == Bisect(C, n, x)
<1>1. /\ n \in Nat /\ C \in [0..n -> Nat] /\ C[0] = 0
      /\ \A i \in 1..n : C[i] = C[i - 1] + w[i]
      /\ \A i, j \in 0..n : i <= j => C[i] <= C[j]
      /\ TotalWeight(w) = C[n] /\ TotalWeight(w) \in Nat
  BY SoundTotals DEF SoundWeights
<1>2. x \in Nat /\ x < C[n]
  BY <1>1 DEF DrawsUpTo
<1> HIDE DEF C
<1>3. b \in 1..n /\ C[b - 1] <= x /\ x < C[b]
  BY <1>1, <1>2, BisectPlace
<1> HIDE DEF b
<1>4. C[b] = C[b - 1] + w[b] /\ C[b - 1] \in Nat
  BY <1>1, <1>3
<1>5. w[b] # 0
  BY <1>2, <1>3, <1>4
<1> QED
  BY <1>3, <1>5 DEF b, C

\* No item has a weight.
LEMMA NoWeightLeft ==
  ASSUME NEW w, NEW n, SoundWeights(w, n), ~(TotalWeight(w) > 0)
  PROVE  \A i \in 1..n : w[i] = 0
<1> DEFINE C == Cumulative(w)
<1>1. /\ n \in Nat /\ C \in [0..n -> Nat] /\ \A i \in 1..n : w[i] \in Nat
      /\ \A i \in 1..n : C[i] = C[i - 1] + w[i]
      /\ \A i, j \in 0..n : i <= j => C[i] <= C[j]
      /\ TotalWeight(w) = C[n] /\ TotalWeight(w) \in Nat
  BY SoundTotals DEF SoundWeights
<1> HIDE DEF C
<1> SUFFICES ASSUME NEW i \in 1..n PROVE w[i] = 0
  OBVIOUS
<1>2. C[i] <= C[n] /\ C[n] = 0 /\ C[i] \in Nat /\ C[i - 1] \in Nat
  BY <1>1
<1> QED
  BY <1>1, <1>2

\* The weights of a call that was not refused.
LEMMA AskedWeights ==
  ASSUME NEW n \in 0..MaxItems, NEW w \in WeightVectors, NEW length, NEW unique,
         w # NoWeights, ~Refused(n, w, length, unique)
  PROVE  SoundWeights(w, n) /\ (n > 0 => TotalWeight(w) > 0)
<1>1. n \in Nat /\ Len(w) = n /\ ~BadWeights(w)
  BY SamplingAssumption DEF Refused
<1>2. PICK k \in 0..MaxItems : w \in [1..k -> (-1)..MaxWeight]
  BY DEF WeightVectors
<1>3. k = n
  BY <1>1, <1>2, FunctionIsSequence, SamplingAssumption
<1>4. \A i \in 1..n : w[i] \in Nat
  <2>1. \A i \in 1..n : w[i] \in Int
    BY <1>2, <1>3, SamplingAssumption
  <2> QED
    BY <1>1, <2>1 DEF BadWeights
<1>5. SoundWeights(w, n)
  BY <1>1, <1>4 DEF SoundWeights
<1>6. TotalWeight(w) \in Nat
  BY <1>5, SoundTotals
<1>7. n > 0 => TotalWeight(w) # 0
  BY <1>1 DEF BadWeights
<1> QED
  BY <1>5, <1>6, <1>7

\* Once an item of weight zero was picked, nothing else is left.
ZeroLast ==
  \A a \in 1..Len(picked) : request.weights[picked[a]] = 0 =>
    /\ request.unique
    /\ \A b \in (a + 1)..Len(picked) : request.weights[picked[b]] = 0
    /\ \A k \in 1..Len(pool) : request.weights[pool[k]] = 0

ZeroInv ==
  sampling \in {"drawing", "done"} /\ Weighted =>
    /\ SoundWeights(request.weights, request.n)
    /\ request.length > 0 => TotalWeight(request.weights) > 0
    /\ ZeroLast

LEMMA StartZero ==
  ASSUME SampleInv, sampling = "idle", NEW n, NEW w, NEW l \in Nat, NEW unique,
         Start(n, w, l, unique), l > 0 => n > 0,
         w # NoWeights => SoundWeights(w, n) /\ (n > 0 => TotalWeight(w) > 0)
  PROVE  ZeroInv'
<1>1. picked' = <<>> /\ request' = [n |-> n, weights |-> w, length |-> l, unique |-> unique]
  BY DEF Start, SampleInv, Fresh
<1>2. ZeroLast'
  BY <1>1, EmptySeq DEF ZeroLast
<1>3. Weighted' => w # NoWeights
  BY <1>1 DEF Weighted
<1> QED
  BY <1>1, <1>2, <1>3 DEF ZeroInv

LEMMA AskZero ==
  ASSUME SampleInv, sampling = "idle",
         NEW n \in 0..MaxItems, NEW w \in WeightVectors, NEW length \in Lengths,
         NEW unique \in BOOLEAN, AskElements(n, w, length, unique)
  PROVE  ZeroInv'
<1>1. CASE Fail
  BY <1>1 DEF Fail, ZeroInv
<1>2. ASSUME ~Refused(n, w, length, unique), NEW l \in LengthsFor(n, length),
             Start(n, w, l, unique)
      PROVE  ZeroInv'
  <2>1. l \in Nat /\ (l > 0 => n > 0)
    BY <1>2, SamplingAssumption DEF LengthsFor, Lengths, Refused
  <2>2. w # NoWeights => SoundWeights(w, n) /\ (n > 0 => TotalWeight(w) > 0)
    BY <1>2, AskedWeights
  <2> QED
    BY <1>2, <2>1, <2>2, StartZero
<1> QED
  BY <1>1, <1>2 DEF AskElements

LEMMA WordsZero ==
  ASSUME SampleInv, sampling = "idle",
         NEW n \in 0..MaxItems, NEW nb \in (-1)..(MaxItems + 1), NEW unique \in BOOLEAN,
         AskWords(n, nb, unique)
  PROVE  ZeroInv'
<1>1. CASE Fail
  BY <1>1 DEF Fail, ZeroInv
<1>2. ASSUME NEW l, Start(n, NoWeights, l, unique)
      PROVE  ZeroInv'
  <2>1. request'.weights = NoWeights
    BY <1>2 DEF Start
  <2> QED
    BY <2>1 DEF ZeroInv, Weighted
<1> QED
  BY <1>1, <1>2 DEF AskWords

LEMMA DrawZero ==
  ASSUME SampleInv, ZeroInv, NEW x, DrawWeighted(x)
  PROVE  ZeroInv'
<1> DEFINE e == Bisect(Cumulative(request.weights), request.n, x)
<1>1. /\ sampling = "drawing" /\ request.length > 0 /\ ~request.unique /\ Weighted
      /\ picked \in Seq(1..request.n)
      /\ picked' = Append(picked, e) /\ UNCHANGED <<sampling, request, pool>>
      /\ x \in DrawsUpTo(TotalWeight(request.weights))
  BY SamplingAssumption DEF DrawWeighted, MoreToDraw, SampleInv, SampleTypeOK
<1>2. SoundWeights(request.weights, request.n) /\ TotalWeight(request.weights) > 0 /\ ZeroLast
  BY <1>1 DEF ZeroInv
<1>3. e \in 1..request.n /\ request.weights[e] # 0
  BY <1>1, <1>2, BisectPositive
<1> HIDE DEF e
<1>4. \A a \in 1..Len(picked') : (a \in 1..Len(picked) /\ picked'[a] = picked[a]) \/ picked'[a] = e
  BY <1>1, <1>3, AppendPicked
<1>5. \A a \in 1..Len(picked') : request'.weights[picked'[a]] # 0
  BY <1>1, <1>2, <1>3, <1>4 DEF ZeroLast
<1>6. ZeroLast'
  BY <1>5 DEF ZeroLast
<1> QED
  BY <1>1, <1>2, <1>6 DEF ZeroInv, Weighted

LEMMA TakeZero ==
  ASSUME SampleInv, ZeroInv, NEW x, Take(x)
  PROVE  ZeroInv'
<1> DEFINE w == request.weights
           v == WeightsOf(pool, w)
           k == Bisect(Cumulative(v), Len(pool), x)
<1>1. /\ sampling = "drawing" /\ request.length > 0 /\ request.unique /\ Weighted
      /\ drawn < request.length /\ drawn \in Nat
      /\ pool \in Seq(1..request.n) /\ picked \in Seq(1..request.n)
      /\ picked' = Append(picked, pool[k]) /\ pool' = Without(pool, k)
      /\ UNCHANGED <<sampling, request>>
      /\ x \in DrawsUpTo(TotalWeight(v)) /\ request.length \in Nat /\ request.n \in Nat
  BY SamplingAssumption DEF Take, MoreToDraw, SampleInv, SampleTypeOK
<1>2. SoundWeights(w, request.n) /\ TotalWeight(w) > 0 /\ ZeroLast
  BY <1>1 DEF ZeroInv
<1>3. Len(pool) \in Nat /\ Len(pool) > 0
  BY <1>1 DEF SampleInv, UniqueInv
<1>4. SoundWeights(v, Len(pool))
  <2>1. \A i \in 1..Len(pool) : w[pool[i]] \in Nat
    BY <1>1, <1>2, ElementOfSeq DEF SoundWeights
  <2>2. v \in [1..Len(pool) -> Nat]
    BY <2>1 DEF WeightsOf
  <2>3. Len(v) = Len(pool)
    BY <1>3, <2>2, FunctionIsSequence
  <2> QED
    BY <1>3, <2>2, <2>3 DEF SoundWeights
<1>5. \A i \in 1..Len(pool) : v[i] = w[pool[i]]
  BY DEF WeightsOf
<1>6. k \in 1..Len(pool)
  BY <1>3, BisectIndex
<1>7. w[pool[k]] # 0 \/ \A i \in 1..Len(pool) : w[pool[i]] = 0
  <2>1. CASE TotalWeight(v) > 0
    <3>1. x \in DrawsUpTo(TotalWeight(v))
      BY <1>1
    <3> HIDE DEF v
    <3>2. v[Bisect(Cumulative(v), Len(pool), x)] # 0
      BY <1>4, <2>1, <3>1, BisectPositive
    <3> QED
      BY <1>5, <1>6, <3>2
  <2>2. CASE ~(TotalWeight(v) > 0)
    BY <1>4, <1>5, <2>2, NoWeightLeft
  <2> QED
    BY <2>1, <2>2
<1> HIDE DEF k, v
<1>8. pool[k] \in 1..request.n
  BY <1>1, <1>6, ElementOfSeq
<1>9. /\ Len(picked') = Len(picked) + 1 /\ Len(picked) \in Nat
      /\ \A a \in 1..Len(picked') :
           (a \in 1..Len(picked) /\ picked'[a] = picked[a]) \/ picked'[a] = pool[k]
  BY <1>1, <1>8, AppendPicked, LenProperties
<1>10. picked'[Len(picked) + 1] = pool[k]
  BY <1>1, <1>8, AppendProperties
<1>11. \A a \in 1..Len(pool') : \E b \in 1..Len(pool) : pool'[a] = pool[b]
  <2> DEFINE S == 1..request.n
  <2>1. pool \in Seq(S)
    BY <1>1
  <2> HIDE DEF S
  <2>2. /\ Len(Without(pool, k)) = Len(pool) - 1
        /\ \A a \in 1..(Len(pool) - 1) : \E b \in 1..Len(pool) : Without(pool, k)[a] = pool[b]
    BY <1>6, <2>1, WithoutSequence
  <2> QED
    BY <1>1, <2>2
<1>12. ZeroLast'
  <2> SUFFICES ASSUME NEW a \in 1..Len(picked'), w[picked'[a]] = 0
               PROVE  /\ \A b \in (a + 1)..Len(picked') : w[picked'[b]] = 0
                      /\ \A i \in 1..Len(pool') : w[pool'[i]] = 0
    BY <1>1 DEF ZeroLast
  <2>1. \A i \in 1..Len(pool) : w[pool[i]] = 0
    BY <1>2, <1>6, <1>7, <1>9 DEF ZeroLast
  <2>2. \A b \in (a + 1)..Len(picked') : w[picked'[b]] = 0
    <3> SUFFICES ASSUME NEW b \in (a + 1)..Len(picked') PROVE w[picked'[b]] = 0
      OBVIOUS
    <3>1. b \in 1..Len(picked') /\ (b \in 1..Len(picked) => a \in 1..Len(picked))
      BY <1>9
    <3>2. CASE picked'[b] = pool[k]
      BY <1>6, <2>1, <3>2
    <3>3. CASE b \in 1..Len(picked) /\ picked'[b] = picked[b]
      <4>1. a \in 1..Len(picked) /\ b \in (a + 1)..Len(picked)
        BY <1>9, <3>1, <3>3
      <4>2. picked'[a] = picked[a]
        BY <1>1, <1>8, <4>1, AppendProperties
      <4> QED
        BY <1>2, <3>3, <4>1, <4>2 DEF ZeroLast
    <3> QED
      BY <1>9, <3>1, <3>2, <3>3
  <2> QED
    BY <1>11, <2>1, <2>2
<1> QED
  BY <1>1, <1>2, <1>12 DEF ZeroInv, Weighted

LEMMA FinishZero ==
  ASSUME ZeroInv, Finish
  PROVE  ZeroInv'
<1>1. sampling = "drawing" /\ UNCHANGED <<request, pool>>
  BY DEF Finish
<1>2. Weighted => picked' = picked
  BY DEF Finish, Sampled
<1> QED
  BY <1>1, <1>2 DEF ZeroInv, ZeroLast, Weighted

LEMMA NextZero == SampleInv /\ ZeroInv /\ [SampleNext]_sampleVars => ZeroInv'
<1> SUFFICES ASSUME SampleInv, ZeroInv, [SampleNext]_sampleVars PROVE ZeroInv'
  OBVIOUS
<1>1. ASSUME NEW n \in 0..MaxItems, NEW w \in WeightVectors, NEW length \in Lengths,
             NEW unique \in BOOLEAN, sampling = "idle", AskElements(n, w, length, unique)
      PROVE  ZeroInv'
  BY <1>1, AskZero
<1>2. ASSUME NEW n \in 0..MaxItems, NEW nb \in (-1)..(MaxItems + 1), NEW unique \in BOOLEAN,
             sampling = "idle", AskWords(n, nb, unique)
      PROVE  ZeroInv'
  BY <1>2, WordsZero
<1>3. ASSUME NEW i, DrawUniform(i) \/ Swap(i)
      PROVE  ZeroInv'
  BY <1>3 DEF DrawUniform, Swap, Sampled, ZeroInv, Weighted
<1>4. ASSUME NEW x, DrawWeighted(x)
      PROVE  ZeroInv'
  BY <1>4, DrawZero
<1>5. ASSUME NEW x, Take(x)
      PROVE  ZeroInv'
  BY <1>5, TakeZero
<1>6. CASE Finish
  BY <1>6, FinishZero
<1>7. CASE GotIndices
  BY <1>7 DEF GotIndices, ZeroInv
<1>8. CASE UNCHANGED sampleVars
  BY <1>8 DEF sampleVars, ZeroInv, ZeroLast, Weighted
<1> QED
  BY <1>1, <1>2, <1>3, <1>4, <1>5, <1>6, <1>7, <1>8 DEF SampleNext, SampleStep

\* Whatever the weights, an item of weight zero is chosen only without
\* replacement, and only once no item with a weight is left (base.rs,
\* weighted_choices and weighted_unique).
THEOREM ZeroWeightTheorem == SampleSpec => []ZeroWeightLast
<1>1. SampleInit => ZeroInv
  BY DEF SampleInit, ZeroInv
<1>2. ZeroInv => ZeroWeightLast
  BY DEF ZeroInv, ZeroLast, ZeroWeightLast
<1> QED
  BY <1>1, <1>2, NextZero, SampleInvariant, PTL DEF SampleSpec

-----------------------------------------------------------------------------
(* random_int and randrange                                                *)

\* Steps of either sign are brought back to one: a range is the multiples k * s
\* below d, for the size s of the step and the distance d to go.
Bounds == [min : MinInt..MaxInt, max : MinInt..MaxInt, step : MinInt..MaxInt]

\* The size of the step, and how far it is to the stop, in its direction.
StepSize(b) == IF b.step > 0 THEN b.step ELSE -b.step
Distance(b) == IF b.step > 0 THEN b.max + 1 - b.min ELSE b.min - b.max - 1

LEMMA Widths ==
  /\ MaxInt \in Nat \ {0} /\ MinInt = -MaxInt - 1 /\ MinInt \in Int
  /\ MaxUnsigned = 2 * MaxInt + 1 /\ MaxUnsigned \in Nat
BY WidthAssumption DEF MinInt, MaxUnsigned

LEMMA Monotone ==
  ASSUME NEW a \in Int, NEW b \in Int, a <= b, NEW s \in Nat
  PROVE  a * s <= b * s /\ a * s \in Int /\ b * s \in Int
OBVIOUS

LEMMA Division ==
  ASSUME NEW a \in Nat, NEW s \in Nat \ {0}
  PROVE  /\ a \div s \in Nat
         /\ (a \div s) * s <= a
         /\ a < (a \div s) * s + s
<1>1. a \div s \in Int /\ s * (a \div s) <= a /\ a < s * (a \div s) + s
  OBVIOUS
<1>2. a \div s >= 0
  OBVIOUS
<1>3. s * (a \div s) = (a \div s) * s
  BY <1>1
<1> QED
  BY <1>1, <1>2, <1>3

\* What the quotient of d + s - 1 is: the least number whose multiple reaches d.
LEMMA Ceiling ==
  ASSUME NEW d \in Int, NEW s \in Nat \ {0},
         NEW q, q = Quotient(d + s - 1, s)
  PROVE  /\ q \in Int
         /\ q <= 0 => d <= 0
         /\ q > 0 => (q - 1) * s <= d - 1
<1>1. CASE d + s - 1 >= 0
  <2> DEFINE p == (d + s - 1) \div s
  <2>1. q = p
    BY <1>1 DEF Quotient
  <2>2. d + s - 1 \in Nat
    BY <1>1
  <2>3. p \in Nat /\ p * s <= d + s - 1 /\ d + s - 1 < p * s + s
    BY <2>2, Division
  <2> HIDE DEF p
  <2>4. (p - 1) * s = p * s - s
    BY <2>3
  <2>5. p = 0 => p * s = 0
    OBVIOUS
  <2>6. p * s \in Int
    BY <2>3
  <2> QED
    BY <2>1, <2>3, <2>4, <2>5, <2>6
<1>2. CASE d + s - 1 < 0
  <2> DEFINE p == (-(d + s - 1)) \div s
  <2>1. q = -p
    BY <1>2 DEF Quotient
  <2>2. -(d + s - 1) \in Nat
    BY <1>2
  <2>3. p \in Nat
    BY <2>2, Division
  <2> QED
    BY <1>2, <2>1, <2>3
<1> QED
  BY <1>1, <1>2

\* Rounding towards zero knows no sign.
LEMMA Mirror ==
  ASSUME NEW a \in Int, NEW s \in Nat \ {0}
  PROVE  Quotient(-a, -s) = Quotient(a, s)
<1>1. CASE a > 0
  BY <1>1 DEF Quotient
<1>2. CASE a < 0
  BY <1>2 DEF Quotient
<1>3. CASE a = 0
  <2>1. 0 \div s = 0
    BY Division
  <2> QED
    BY <1>3, <2>1 DEF Quotient
<1> QED
  BY <1>1, <1>2, <1>3

\* The members that Count promises fit into the distance, and none are missed.
LEMMA CountFits ==
  ASSUME NEW b \in Bounds, b.step # 0,
         NEW n, n = Count(b.min, b.max, b.step)
  PROVE  /\ StepSize(b) \in Nat \ {0} /\ Distance(b) \in Int /\ n \in Int
         /\ n <= 0 => Distance(b) <= 0
         /\ n > 0 => (n - 1) * StepSize(b) <= Distance(b) - 1
<1>1. b.min \in Int /\ b.max \in Int /\ b.step \in Int
  BY Widths DEF Bounds
<1>2. StepSize(b) \in Nat \ {0} /\ Distance(b) \in Int
  BY <1>1 DEF StepSize, Distance
<1>3. n = Quotient(Distance(b) + StepSize(b) - 1, StepSize(b))
  <2>1. CASE b.step > 0
    BY <2>1 DEF Count, StepSize, Distance
  <2>2. CASE b.step < 0
    <3> DEFINE a == Distance(b) + StepSize(b) - 1
    <3>1. a \in Int
      BY <1>2
    <3>2. b.max + 1 - b.min + b.step + 1 = -a /\ b.step = -StepSize(b)
      BY <1>1, <2>2 DEF StepSize, Distance
    <3>3. n = Quotient(-a, -StepSize(b))
      BY <2>2, <3>2, <1>1 DEF Count
    <3> HIDE DEF a
    <3>4. n = Quotient(a, StepSize(b))
      BY <3>1, <3>3, <1>2, Mirror
    <3> QED
      BY <3>4 DEF a
  <2> QED
    BY <2>1, <2>2, <1>1
<1> QED
  BY <1>2, <1>3, Ceiling

-----------------------------------------------------------------------------
(* The range                                                               *)

\* What makes v a member.
LEMMA InRange ==
  ASSUME NEW b, NEW v \in MinInt..MaxInt, NEW k \in 0..MaxUnsigned, v = b.min + k * b.step,
         IF b.step > 0 THEN v < b.max + 1 ELSE v > b.max + 1
  PROVE  v \in PythonRange(b)
BY DEF PythonRange

\* The member that an offset below the distance leads to.
LEMMA Member ==
  ASSUME NEW b \in Bounds, b.step # 0, NEW k \in 0..MaxInt,
         k * StepSize(b) <= Distance(b) - 1
  PROVE  b.min + b.step * k \in PythonRange(b)
<1> DEFINE v == b.min + b.step * k
           t == k * StepSize(b)
<1>1. /\ b.min \in MinInt..MaxInt /\ b.max \in MinInt..MaxInt /\ b.step \in Int
      /\ b.min \in Int /\ b.max \in Int
  BY Widths DEF Bounds
<1>2. StepSize(b) \in Nat /\ k \in Nat /\ t \in Nat
  BY <1>1, Widths DEF StepSize
<1>3. v = b.min + k * b.step
  BY <1>1, <1>2
<1>4. k \in 0..MaxUnsigned
  BY Widths
<1>5. CASE b.step > 0
  <2>1. v = b.min + t /\ t <= b.max - b.min
    BY <1>1, <1>3, <1>5 DEF StepSize, Distance
  <2>2. v \in MinInt..MaxInt /\ v < b.max + 1
    BY <2>1, <1>1, <1>2, Widths
  <2> QED
    BY <1>3, <1>4, <1>5, <2>2, InRange
<1>6. CASE b.step < 0
  <2>1. k * b.step = -(k * (-b.step))
    BY <1>1, <1>2
  <2>2. v = b.min - t /\ t <= b.min - b.max - 2
    BY <1>1, <1>2, <1>3, <1>6, <2>1 DEF StepSize, Distance
  <2>3. v \in MinInt..MaxInt /\ v > b.max + 1
    BY <2>2, <1>1, <1>2, Widths
  <2>4. ~(b.step > 0)
    BY <1>1, <1>6
  <2> QED
    BY <1>3, <1>4, <2>3, <2>4, InRange
<1> QED
  BY <1>1, <1>5, <1>6

\* Where there is no distance, there is no member.
LEMMA NoMember ==
  ASSUME NEW b \in Bounds, b.step # 0, Distance(b) <= 0
  PROVE  PythonRange(b) = {}
<1> SUFFICES ASSUME NEW v \in PythonRange(b) PROVE FALSE
  OBVIOUS
<1>1. b.min \in Int /\ b.max \in Int /\ b.step \in Int
  BY Widths DEF Bounds
<1>2. PICK k \in 0..MaxUnsigned :
        /\ v = b.min + k * b.step
        /\ IF b.step > 0 THEN v < b.max + 1 ELSE v > b.max + 1
  BY DEF PythonRange
<1>3. k \in Nat
  BY Widths
<1>4. CASE b.step > 0
  <2>1. k * b.step >= 0
    BY <1>1, <1>3, <1>4
  <2> QED
    BY <1>1, <1>2, <1>3, <1>4, <2>1 DEF Distance
<1>5. CASE b.step < 0
  <2>1. k * b.step <= 0 /\ k * b.step \in Int
    BY <1>1, <1>3, <1>5
  <2> QED
    BY <1>1, <1>2, <1>3, <1>5, <2>1 DEF Distance
<1> QED
  BY <1>1, <1>4, <1>5

\* What is refused is no range, is empty, or is all that there are.
LEMMA RefusedMeans ==
  ASSUME NEW b \in Bounds, RefusedRange(b)
  PROVE  \/ b.step = 0
         \/ PythonRange(b) = {}
         \/ b = [min |-> MinInt, max |-> MaxInt, step |-> 1]
<1> DEFINE n == Count(b.min, b.max, b.step)
           s == StepSize(b)
           d == Distance(b)
<1> SUFFICES ASSUME b.step # 0, d > 0
             PROVE  b = [min |-> MinInt, max |-> MaxInt, step |-> 1]
  <2>1. d \in Int
    BY Widths DEF Distance, Bounds
  <2> QED
    BY <2>1, NoMember
<1>1. s \in Nat \ {0} /\ d \in Int /\ n \in Int /\ (n <= 0 => d <= 0)
      /\ (n > 0 => (n - 1) * s <= d - 1)
  BY CountFits
<1>2. n > MaxUnsigned
  BY <1>1 DEF RefusedRange
<1>3. /\ b.min \in MinInt..MaxInt /\ b.max \in MinInt..MaxInt /\ b.step \in Int
      /\ b.min \in Int /\ b.max \in Int
  BY Widths DEF Bounds
<1>4. d <= MaxUnsigned + 1 /\ (b.step < 0 => d <= MaxUnsigned - 1)
  BY <1>3, Widths DEF Distance
<1> HIDE DEF n, s, d
<1>5. MaxUnsigned * s <= d - 1
  <2>1. MaxUnsigned <= n - 1 /\ n > 0
    BY <1>1, <1>2, Widths
  <2>2. MaxUnsigned * s <= (n - 1) * s /\ MaxUnsigned * s \in Int /\ (n - 1) * s \in Int
    BY <1>1, <2>1, Widths, Monotone
  <2> QED
    BY <1>1, <2>1, <2>2
<1>6. MaxUnsigned * s >= MaxUnsigned /\ (s # 1 => MaxUnsigned * s >= 2 * MaxUnsigned)
  BY <1>1, Widths
<1>7. s = 1 /\ d = MaxUnsigned + 1 /\ b.step > 0
  BY <1>1, <1>3, <1>4, <1>5, <1>6, Widths
<1>8. b.step = 1 /\ b.max = MaxInt /\ b.min = MinInt
  BY <1>3, <1>7, Widths DEF s, d, StepSize, Distance
<1> QED
  BY <1>8 DEF Bounds

-----------------------------------------------------------------------------
(* The specification                                                       *)

IntInv ==
  /\ rolling \in {"idle", "rolling", "done", "failed"}
  /\ bounds \in Bounds
  /\ rolling = "rolling" => ~RefusedRange(bounds)
  /\ rolling = "failed" => RefusedRange(bounds)
  /\ rolling = "done" => rolled \in PythonRange(bounds)

LEMMA InitInt == IntInit => IntInv
BY Widths DEF IntInit, IntInv, NoBounds, Bounds

LEMMA RollKeeps ==
  ASSUME IntInv, NEW offset \in 0..MaxInt, Roll(offset)
  PROVE  IntInv'
<1> DEFINE b == bounds
           n == Count(b.min, b.max, b.step)
           r == b.min + b.step * offset
<1>1. b \in Bounds /\ b.step # 0 /\ ~(n <= 0) /\ offset \in Offsets(n) /\ bounds' = b
  BY DEF Roll, IntInv, RefusedRange
<1>2. StepSize(b) \in Nat \ {0} /\ Distance(b) \in Int /\ n \in Int
      /\ (n > 0 => (n - 1) * StepSize(b) <= Distance(b) - 1)
  BY <1>1, CountFits
<1> HIDE DEF n
<1>3. offset <= n - 1 /\ offset \in Int
  BY <1>1, <1>2, Widths DEF Offsets
<1>4. offset * StepSize(b) <= Distance(b) - 1
  BY <1>1, <1>2, <1>3, Monotone
<1>5. r \in PythonRange(b)
  BY <1>1, <1>4, Member
<1>6. r \in MinInt..MaxInt
  BY <1>5 DEF PythonRange
<1>7. rolling' = "done" /\ rolled' = r
  BY <1>6 DEF Roll
<1> QED
  BY <1>1, <1>5, <1>7 DEF IntInv

LEMMA NextInt == IntInv /\ [IntNext]_intVars => IntInv'
<1> SUFFICES ASSUME IntInv, [IntNext]_intVars PROVE IntInv'
  OBVIOUS
<1>1. ASSUME NEW min \in MinInt..MaxInt, NEW max \in MinInt..MaxInt, NEW step \in MinInt..MaxInt,
             AskInt([min |-> min, max |-> max, step |-> step])
      PROVE  IntInv'
  <2>1. [min |-> min, max |-> max, step |-> step] \in Bounds
    BY DEF Bounds
  <2> QED
    BY <1>1, <2>1 DEF AskInt, IntInv
<1>2. ASSUME NEW offset \in 0..MaxInt, Roll(offset)
      PROVE  IntInv'
  BY <1>2, RollKeeps
<1>3. CASE GotInt
  BY <1>3, Widths DEF GotInt, IntInv, NoBounds, Bounds
<1>4. CASE UNCHANGED intVars
  BY <1>4 DEF intVars, IntInv
<1> QED
  BY <1>1, <1>2, <1>3, <1>4 DEF IntNext

\* random_int gives a member of Python's range or refuses what is none, is empty
\* or is the whole of i64, for integers of every width (base.rs:14-38).
THEOREM RandrangeTheorem == IntSpec => []RandrangeAgrees
<1>1. IntSpec => []IntInv
  BY InitInt, NextInt, PTL DEF IntSpec
<1>2. IntInv => RandrangeAgrees
  BY RefusedMeans DEF IntInv, RandrangeAgrees
<1> QED
  BY <1>1, <1>2, PTL
=============================================================================
