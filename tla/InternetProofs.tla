---------------------------- MODULE InternetProofs ----------------------------
(***************************************************************************)
(* What internet.rs makes.  A pool of addresses is what its class has less     *)
(* what is reserved, each address once, for addresses of every width and all   *)
(* tables of networks.  Host names, e-mail addresses and URLs are well formed,  *)
(* whatever names the templates of templates bring in.                          *)
(***************************************************************************)
EXTENDS Networks, Rendering, SamplingProofs, FunctionTheorems

-----------------------------------------------------------------------------
(* Powers of two                                                           *)

\* As many as a set of k elements has subsets.
LEMMA PowerCount ==
  ASSUME NEW k \in Nat
  PROVE  IsFiniteSet(SUBSET (1..k)) /\ Cardinality(SUBSET (1..k)) = 2 ^ k /\ 2 ^ k \in Nat
<1>1. IsFiniteSet(1..k) /\ Cardinality(1..k) = k
  <2>1. Cardinality(1..k) = IF 1 > k THEN 0 ELSE k - 1 + 1
    BY FS_Interval
  <2>2. IsFiniteSet(1..k)
    BY FS_Interval
  <2> QED
    BY <2>1, <2>2
<1>2. IsFiniteSet(SUBSET (1..k)) /\ Cardinality(SUBSET (1..k)) = 2 ^ Cardinality(1..k)
  BY <1>1, FS_SUBSET
<1>3. IsFiniteSet(SUBSET (1..k)) /\ Cardinality(SUBSET (1..k)) = 2 ^ k
  BY <1>1, <1>2
<1>4. Cardinality(SUBSET (1..k)) \in Nat
  BY <1>3, FS_CardinalityType
<1> QED
  BY <1>3, <1>4

\* A subset of 1..(k + 1) has k + 1 or not.
LEMMA PowerDoubles ==
  ASSUME NEW k \in Nat
  PROVE  2 ^ (k + 1) = 2 ^ k + 2 ^ k
<1> DEFINE S == SUBSET (1..k)
           T == {s \cup {k + 1} : s \in S}
           U == SUBSET (1..(k + 1))
<1>1. U = S \cup T
  <2>1. ASSUME NEW u \in U PROVE u \in S \cup T
    <3>1. CASE k + 1 \in u
      <4>1. u \ {k + 1} \in S /\ u = (u \ {k + 1}) \cup {k + 1}
        BY <3>1
      <4> QED
        BY <4>1
    <3>2. CASE k + 1 \notin u
      BY <3>2
    <3> QED
      BY <3>1, <3>2
  <2>2. ASSUME NEW s \in S PROVE s \in U /\ s \cup {k + 1} \in U
    OBVIOUS
  <2>3. \A t \in T : t \in U
    <3> HIDE DEF U, S
    <3> QED
      BY <2>2, Zenon
  <2>4. \A s \in S : s \in U
    BY <2>2
  <2> HIDE DEF S, T, U
  <2>5. U \subseteq S \cup T /\ S \cup T \subseteq U
    BY <2>1, <2>3, <2>4
  <2> QED
    BY <2>5, Zenon
<1>2. S \cap T = {}
  <2>1. \A s \in S : k + 1 \notin s
    OBVIOUS
  <2> QED
    BY <2>1
<1>3. IsFiniteSet(S) /\ Cardinality(S) = 2 ^ k /\ 2 ^ k \in Nat
  BY PowerCount
<1>4. IsFiniteSet(T) /\ Cardinality(T) = 2 ^ k
  <2> DEFINE f == [s \in S |-> s \cup {k + 1}]
  <2>1. f \in Bijection(S, T)
    <3>1. \A s \in S : k + 1 \notin s
      OBVIOUS
    <3>2. ASSUME NEW s \in S, NEW t \in S, s \cup {k + 1} = t \cup {k + 1} PROVE s = t
      BY <3>1, <3>2
    <3>3. f \in [S -> T] /\ (\A t \in T : \E s \in S : f[s] = t)
      OBVIOUS
    <3>4. \A s, t \in S : f[s] = f[t] => s = t
      BY <3>2
    <3> HIDE DEF f, S, T
    <3> QED
      BY <3>3, <3>4, Fun_IsInj, Fun_IsSurj DEF Bijection
  <2> HIDE DEF f, S, T
  <2>2. ExistsBijection(S, T)
    BY <2>1 DEF ExistsBijection
  <2> QED
    BY <1>3, <2>2, FS_Bijection
<1>5. Cardinality(U) = 2 ^ (k + 1)
  <2>1. k + 1 \in Nat
    OBVIOUS
  <2> QED
    BY <2>1, PowerCount
<1>6. Cardinality({}) = 0
  BY FS_EmptySet
<1> HIDE DEF S, T, U
<1>7. Cardinality(S \cup T) = Cardinality(S) + Cardinality(T) - Cardinality(S \cap T)
  BY <1>3, <1>4, FS_Union
<1>8. PICK p \in Nat : p = 2 ^ k
  BY <1>3
<1>9. Cardinality(S \cup T) = p + p
  BY <1>2, <1>3, <1>4, <1>6, <1>7, <1>8
<1>10. Cardinality(U) = p + p
  BY <1>1, <1>9
<1> QED
  BY <1>5, <1>8, <1>10, Zenon

\* No power of two is zero.
LEMMA PowerPositive ==
  ASSUME NEW k \in Nat
  PROVE  2 ^ k \in Nat \ {0}
<1>1. IsFiniteSet(SUBSET (1..k)) /\ Cardinality(SUBSET (1..k)) = 2 ^ k /\ 2 ^ k \in Nat
  BY PowerCount
<1>2. SUBSET (1..k) # {}
  OBVIOUS
<1> QED
  BY <1>1, <1>2, FS_EmptySet

\* The empty set has one subset.
LEMMA PowerZero == 2 ^ 0 = 1
<1>1. Cardinality(SUBSET (1..0)) = 2 ^ 0
  BY PowerCount
<1>2. SUBSET (1..0) = {{}}
  OBVIOUS
<1>3. Cardinality({{}}) = 1
  BY FS_Singleton
<1> QED
  BY <1>1, <1>2, <1>3

-----------------------------------------------------------------------------
(* Networks that start at a multiple of their size                         *)

SizeAt(p) == 2 ^ (Bits - p)

\* A longer prefix by one is half the size.
LEMMA BlockSizes ==
  ASSUME NEW p \in 0..Bits
  PROVE  /\ SizeAt(p) \in Nat \ {0}
         /\ p = Bits => SizeAt(p) = 1
         /\ p < Bits => SizeAt(p) = 2 * SizeAt(p + 1)
<1>1. Bits \in Nat
  BY NetworkAssumption
<1>2. PICK k \in Nat : k = Bits - p
  BY <1>1
<1>3. SizeAt(p) = 2 ^ k /\ SizeAt(p) \in Nat \ {0}
  BY <1>2, PowerPositive DEF SizeAt
<1>4. ASSUME p = Bits PROVE SizeAt(p) = 1
  <2>1. k = 0
    BY <1>1, <1>2, <1>4
  <2> QED
    BY <1>3, <2>1, PowerZero
<1>5. ASSUME p < Bits PROVE SizeAt(p) = 2 * SizeAt(p + 1)
  <2>1. PICK j \in Nat : j = Bits - (p + 1) /\ k = j + 1
    BY <1>1, <1>2, <1>5
  <2>2. SizeAt(p + 1) = 2 ^ j /\ 2 ^ j \in Nat
    BY <2>1, PowerPositive DEF SizeAt
  <2>3. 2 ^ (j + 1) = 2 ^ j + 2 ^ j
    BY PowerDoubles
  <2>4. SizeAt(p) = 2 ^ (j + 1)
    BY <1>3, <2>1
  <2>5. PICK s \in Nat : s = SizeAt(p + 1) /\ SizeAt(p) = s + s
    BY <2>2, <2>3, <2>4, Zenon
  <2> QED
    BY <2>5
<1> QED
  BY <1>3, <1>4, <1>5

\* A larger size is a multiple of a smaller one.
LEMMA Divides ==
  ASSUME NEW q \in 0..Bits, NEW p \in 0..q
  PROVE  \E k \in Nat \ {0} : SizeAt(p) = k * SizeAt(q)
<1> DEFINE T == {d \in 0..q : ~\E k \in Nat \ {0} : SizeAt(q - d) = k * SizeAt(q)}
<1>1. Bits \in Nat /\ q \in Nat
  BY NetworkAssumption
<1>2. T = {}
  <2> SUFFICES ASSUME T # {} PROVE FALSE
    OBVIOUS
  <2>1. PICK d \in T : \A e \in T : d <= e
    <3> T \in SUBSET Nat
      BY <1>1
    <3> HIDE DEF T
    <3> QED
      BY LeastNumber
  <2>2. d \in 0..q /\ ~\E k \in Nat \ {0} : SizeAt(q - d) = k * SizeAt(q)
    OBVIOUS
  <2>3. d # 0
    <3>1. SizeAt(q - 0) = 1 * SizeAt(q)
      BY <1>1, BlockSizes
    <3> QED
      BY <2>2, <3>1
  <2>4. d - 1 \in 0..q /\ d - 1 \notin T
    BY <1>1, <2>1, <2>3
  <2>5. PICK k \in Nat \ {0} : SizeAt(q - (d - 1)) = k * SizeAt(q)
    BY <2>4
  <2>6. PICK i \in 0..Bits : i = q - d /\ i < Bits /\ i + 1 = q - (d - 1)
    BY <1>1, <2>2, <2>3
  <2>7. SizeAt(i) = 2 * SizeAt(i + 1)
    BY <2>6, BlockSizes
  <2>8. SizeAt(i) = (2 * k) * SizeAt(q)
    <3>1. PICK s \in Nat : s = SizeAt(q)
      BY BlockSizes
    <3>2. 2 * (k * s) = (2 * k) * s
      OBVIOUS
    <3> QED
      BY <2>5, <2>6, <2>7, <3>1, <3>2
  <2>9. 2 * k \in Nat \ {0}
    OBVIOUS
  <2> QED
    BY <2>2, <2>6, <2>8, <2>9
<1>3. PICK d \in 0..q : d = q - p
  BY <1>1
<1>4. q - d = p
  BY <1>1, <1>3
<1> QED
  BY <1>2, <1>3, <1>4

\* What the tables promise of a network.
LEMMA BlockShape ==
  ASSUME NEW n \in Block
  PROVE  /\ n.prefix \in 0..Bits /\ n.addr \in Nat /\ n.addr < SizeAt(0)
         /\ Size(n) = SizeAt(n.prefix) /\ Size(n) \in Nat \ {0}
         /\ n.addr % Size(n) = 0 /\ LastOf(n) \in Nat
<1>1. Bits \in Nat /\ 2 ^ Bits \in Nat
  BY NetworkAssumption, PowerPositive
<1>2. n.prefix \in 0..Bits /\ n.addr \in 0..(2 ^ Bits - 1) /\ n.addr % Size(n) = 0
  BY DEF Block, Net
<1>3. Size(n) = SizeAt(n.prefix)
  BY DEF Size, SizeAt
<1>4. SizeAt(0) = 2 ^ Bits
  BY <1>1 DEF SizeAt
<1>5. Size(n) \in Nat \ {0}
  BY <1>2, <1>3, BlockSizes
<1> QED
  BY <1>1, <1>2, <1>3, <1>4, <1>5 DEF LastOf

\* How many multiples of its size a network starts after zero.
LEMMA BlockIndex ==
  ASSUME NEW n \in Block
  PROVE  \E a \in Nat : n.addr = a * Size(n)
<1>1. PICK x \in Nat, s \in Nat \ {0} : x = n.addr /\ s = Size(n) /\ x % s = 0
  BY BlockShape
<1>2. PICK a \in Nat : a = x \div s
  BY Division
<1>3. x % s = x - s * (x \div s)
  OBVIOUS
<1>4. s * a = a * s
  OBVIOUS
<1> QED
  BY <1>1, <1>2, <1>3, <1>4

\* Multiples are in the order of their factors.
LEMMA Below ==
  ASSUME NEW a \in Int, NEW b \in Int, NEW s \in Nat \ {0}, a * s < b * s
  PROVE  a < b
<1>1. b <= a => b * s <= a * s
  BY Monotone
<1> QED
  BY <1>1, Monotone

\* The multiples of a size that a network of a multiple of it lies between.
LEMMA BlockEnds ==
  ASSUME NEW n \in Block, NEW o \in Block, n.prefix <= o.prefix,
         NEW x \in Int, n.addr <= x, x <= LastOf(n), o.addr <= x, x <= LastOf(o)
  PROVE  n.addr <= o.addr /\ LastOf(o) <= LastOf(n)
<1>1. PICK s \in Nat \ {0}, t \in Nat \ {0} : s = Size(n) /\ t = Size(o)
  BY BlockShape
<1>2. PICK k \in Nat \ {0} : s = k * t
  <2>1. o.prefix \in 0..Bits /\ n.prefix \in 0..(o.prefix)
    BY BlockShape
  <2>2. \E k \in Nat \ {0} : SizeAt(n.prefix) = k * SizeAt(o.prefix)
    BY <2>1, Divides
  <2> QED
    BY <1>1, <2>2, BlockShape
<1>3. PICK a \in Nat, b \in Nat : n.addr = a * s /\ o.addr = b * t
  BY <1>1, BlockIndex
<1>4. PICK i \in Nat : i = a * k
  OBVIOUS
<1>5. n.addr = i * t /\ n.addr + s = (i + k) * t
  <2>1. a * (k * t) = (a * k) * t
    OBVIOUS
  <2>2. (i + k) * t = i * t + k * t
    OBVIOUS
  <2> QED
    BY <1>2, <1>3, <1>4, <2>1, <2>2
<1>6. i * t <= x /\ x < (i + k) * t
  BY <1>1, <1>5 DEF LastOf
<1>7. b * t <= x /\ x < b * t + t /\ (b + 1) * t = b * t + t
  BY <1>1, <1>3 DEF LastOf
<1>8. /\ i * t \in Int /\ (i + k) * t \in Int /\ b * t \in Int /\ (b + 1) * t \in Int
      /\ i + k \in Int /\ b + 1 \in Int
  OBVIOUS
<1>9. i < b + 1 /\ b < i + k
  <2>1. i * t < (b + 1) * t /\ b * t < (i + k) * t
    BY <1>6, <1>7, <1>8
  <2> QED
    BY <1>8, <2>1, Below
<1>10. i * t <= b * t /\ (b + 1) * t <= (i + k) * t
  BY <1>8, <1>9, Monotone
<1> QED
  BY <1>1, <1>3, <1>5, <1>7, <1>8, <1>10 DEF LastOf

\* A network is not empty and has no address past the last.
LEMMA BlockFits ==
  ASSUME NEW n \in Block
  PROVE  n.addr <= LastOf(n) /\ LastOf(n) < SizeAt(0)
<1>1. PICK s \in Nat \ {0}, a \in Nat : s = Size(n) /\ n.addr = a * s
  BY BlockShape, BlockIndex
<1>2. PICK k \in Nat \ {0} : SizeAt(0) = k * s
  <2>1. n.prefix \in 0..Bits /\ 0 \in 0..(n.prefix) /\ s = SizeAt(n.prefix)
    BY <1>1, BlockShape, NetworkAssumption
  <2> QED
    BY <2>1, Divides
<1>3. a < k
  BY <1>1, <1>2, BlockShape, Below
<1>4. (a + 1) * s <= k * s /\ (a + 1) * s = a * s + s /\ a * s \in Int /\ k * s \in Int
  BY <1>3, Monotone
<1> QED
  BY <1>1, <1>2, <1>4 DEF LastOf

\* Two networks are one within the other or apart.
LEMMA NestedOrApart ==
  ASSUME NEW n \in Block, NEW o \in Block, n.prefix <= o.prefix,
         NEW x, x \in Addresses(n), x \in Addresses(o)
  PROVE  Covers(n, o)
<1>1. x \in Int /\ n.addr <= x /\ x <= LastOf(n) /\ o.addr <= x /\ x <= LastOf(o)
  BY BlockShape DEF Addresses
<1> QED
  BY <1>1, BlockEnds DEF Covers

\* A network that covers another has its addresses.
LEMMA CoversAddresses ==
  ASSUME NEW n \in Block, NEW o \in Block, Covers(n, o)
  PROVE  Addresses(o) \subseteq Addresses(n) /\ o.addr \in Addresses(o)
BY BlockShape, BlockFits DEF Covers, Addresses

\* Networks that do not overlap have no address in common.
LEMMA NoOverlap ==
  ASSUME NEW n \in Block, NEW o \in Block, ~Overlaps(n, o)
  PROVE  Addresses(n) \cap Addresses(o) = {}
<1> SUFFICES ASSUME NEW x, x \in Addresses(n), x \in Addresses(o) PROVE FALSE
  OBVIOUS
<1>1. n.prefix <= o.prefix \/ o.prefix <= n.prefix
  BY BlockShape, NetworkAssumption
<1>2. Covers(n, o) \/ Covers(o, n)
  BY <1>1, NestedOrApart
<1> QED
  BY <1>2 DEF Overlaps

\* A number below another is its own rest.
LEMMA SmallRest ==
  ASSUME NEW m \in Nat \ {0}, NEW x \in Nat, x < m
  PROVE  x % m = x
OBVIOUS

\* A multiple leaves no rest.
LEMMA MultipleRest ==
  ASSUME NEW a \in Nat, NEW s \in Nat \ {0}
  PROVE  (a * s) % s = 0
OBVIOUS

\* split cuts a network into two of half the size.
LEMMA Halves ==
  ASSUME NEW n \in Block, n.prefix < Bits
  PROVE  /\ Low(n) \in Block /\ High(n) \in Block
         /\ Low(n).prefix = n.prefix + 1 /\ High(n).prefix = n.prefix + 1
         /\ Addresses(Low(n)) \cap Addresses(High(n)) = {}
         /\ Addresses(Low(n)) \cup Addresses(High(n)) = Addresses(n)
<1>1. PICK p \in 0..Bits : p = n.prefix /\ p + 1 \in 0..Bits
  BY BlockShape, NetworkAssumption
<1>2. PICK h \in Nat \ {0} : h = SizeAt(p + 1)
  BY <1>1, BlockSizes
<1>3. Size(n) = 2 * h
  BY <1>1, <1>2, BlockSizes, BlockShape
<1>4. PICK x \in Nat, a \in Nat : x = n.addr /\ x = a * (2 * h)
  BY <1>3, BlockShape, BlockIndex
<1>5. /\ Low(n) = [addr |-> x, prefix |-> p + 1]
      /\ High(n) = [addr |-> x + h, prefix |-> p + 1]
  BY <1>1, <1>3, <1>4 DEF Low, High
<1>6. Size(Low(n)) = h /\ Size(High(n)) = h
  BY <1>2, <1>5 DEF Size, SizeAt
<1>7. x % h = 0 /\ (x + h) % h = 0
  <2>1. PICK b \in Nat : b = 2 * a
    OBVIOUS
  <2>2. x = b * h /\ x + h = (b + 1) * h
    BY <1>4, <2>1
  <2> QED
    BY <2>2, MultipleRest
<1>8. LastOf(n) = x + 2 * h - 1 /\ LastOf(n) < SizeAt(0)
  BY <1>3, <1>4, BlockFits DEF LastOf
<1>9. x + h < SizeAt(0) /\ x < SizeAt(0) /\ SizeAt(0) = 2 ^ Bits /\ SizeAt(0) \in Nat
  <2>1. SizeAt(0) \in Nat /\ 0 \in 0..Bits /\ Bits - 0 = Bits
    BY BlockSizes, NetworkAssumption
  <2> QED
    BY <1>8, <2>1 DEF SizeAt
<1>10. Low(n) \in Block /\ High(n) \in Block
  BY <1>1, <1>4, <1>5, <1>6, <1>7, <1>9 DEF Block, Net
<1>11. /\ Addresses(Low(n)) = x..(x + h - 1)
       /\ Addresses(High(n)) = (x + h)..(x + h + h - 1)
       /\ Addresses(n) = x..(x + 2 * h - 1)
  BY <1>4, <1>5, <1>6, <1>8 DEF Addresses, LastOf
<1> QED
  BY <1>1, <1>5, <1>10, <1>11

\* One round of exclude.
LEMMA ExcludeRound ==
  ASSUME NEW n \in Block, NEW o \in Block, Covers(n, o), n.prefix < o.prefix
  PROVE  /\ Halved(n, o) \in Block /\ Spared(n, o) \in Block
         /\ Halved(n, o).prefix = n.prefix + 1 /\ Covers(Halved(n, o), o)
         /\ Addresses(Halved(n, o)) \subseteq Addresses(n)
         /\ Addresses(Spared(n, o)) = Addresses(n) \ Addresses(Halved(n, o))
<1>1. n.prefix \in 0..Bits /\ o.prefix \in 0..Bits /\ n.prefix < Bits /\ n.prefix + 1 <= o.prefix
  BY BlockShape, NetworkAssumption
<1>2. /\ Low(n) \in Block /\ High(n) \in Block
      /\ Low(n).prefix = n.prefix + 1 /\ High(n).prefix = n.prefix + 1
      /\ Addresses(Low(n)) \cap Addresses(High(n)) = {}
      /\ Addresses(Low(n)) \cup Addresses(High(n)) = Addresses(n)
  BY <1>1, Halves
<1>3. CASE Covers(Low(n), o)
  BY <1>2, <1>3 DEF Halved, Spared
<1>4. CASE ~Covers(Low(n), o)
  <2>1. o.addr \in Addresses(o) /\ o.addr \in Addresses(n)
    BY CoversAddresses
  <2>2. o.addr \notin Addresses(Low(n))
    BY <1>1, <1>2, <1>4, <2>1, NestedOrApart
  <2>3. Covers(High(n), o)
    BY <1>1, <1>2, <2>1, <2>2, NestedOrApart
  <2> QED
    BY <1>2, <1>4, <2>3 DEF Halved, Spared
<1> QED
  BY <1>3, <1>4

-----------------------------------------------------------------------------
(* Recursion and induction from lo to hi                                   *)

\* What holds at lo, and at i if at i - 1, holds up to hi: else there were a least number without it.
LEMMA Induction ==
  ASSUME NEW lo \in Int, NEW hi \in Int, NEW S, lo \in S,
         \A i \in (lo + 1)..hi : i - 1 \in S => i \in S
  PROVE  \A i \in lo..hi : i \in S
<1> DEFINE T == {d \in 0..(hi - lo) : lo + d \notin S}
<1>1. T = {}
  <2> SUFFICES ASSUME T # {} PROVE FALSE
    OBVIOUS
  <2>1. PICK d \in T : \A e \in T : d <= e
    <3> T \in SUBSET Nat
      OBVIOUS
    <3> HIDE DEF T
    <3> QED
      BY LeastNumber
  <2>2. d # 0 /\ d - 1 \in 0..(hi - lo) /\ d - 1 \notin T
    BY <2>1
  <2>3. lo + (d - 1) \in S /\ lo + d \in (lo + 1)..hi /\ lo + d - 1 = lo + (d - 1)
    BY <2>2
  <2> QED
    BY <2>1, <2>3
<1>2. ASSUME NEW i \in lo..hi PROVE i \in S
  <2>1. PICK d \in 0..(hi - lo) : d = i - lo /\ lo + d = i
    OBVIOUS
  <2>2. lo + d \in S
    BY <1>1
  <2> QED
    BY <2>1, <2>2
<1> QED
  BY <1>2

\* A function f with values f[i] in W[i], from a in steps of h.
Solves(f, lo, hi, W, a, h) ==
  /\ f = [i \in lo..hi |-> f[i]]
  /\ f[lo] = a
  /\ \A i \in lo..hi : f[i] \in W[i]
  /\ \A i \in (lo + 1)..hi : f[i] = h[i][f[i - 1]]

\* A function defined by its value at lo and by steps exists, and its values are where the steps lead.
LEMMA Recursion ==
  ASSUME NEW lo \in Int, NEW hi \in Int, lo <= hi, NEW W, NEW a \in W[lo], NEW h,
         \A i \in (lo + 1)..hi : \A x \in W[i - 1] : h[i][x] \in W[i]
  PROVE  \E f : Solves(f, lo, hi, W, a, h)
<1> DEFINE S == {j \in lo..hi : \E f : Solves(f, lo, j, W, a, h)}
<1>1. lo \in S
  <2> DEFINE f == [i \in lo..lo |-> a]
  <2>1. Solves(f, lo, lo, W, a, h)
    BY DEF Solves
  <2> HIDE DEF f
  <2> QED
    BY <2>1
<1>2. ASSUME NEW j \in (lo + 1)..hi, j - 1 \in S PROVE j \in S
  <2>1. PICK f : Solves(f, lo, j - 1, W, a, h)
    BY <1>2
  <2>2. /\ f[lo] = a /\ \A i \in lo..(j - 1) : f[i] \in W[i]
        /\ \A i \in (lo + 1)..(j - 1) : f[i] = h[i][f[i - 1]]
    BY <2>1 DEF Solves
  <2> DEFINE g == [i \in lo..j |-> IF i = j THEN h[j][f[j - 1]] ELSE f[i]]
  <2>3. \A i \in lo..(j - 1) : g[i] = f[i]
    OBVIOUS
  <2>4. g[j] = h[j][f[j - 1]] /\ j - 1 \in lo..(j - 1) /\ lo \in lo..(j - 1)
    OBVIOUS
  <2>5. g = [i \in lo..j |-> g[i]]
    OBVIOUS
  <2> HIDE DEF g
  <2>6. g[j] \in W[j]
    BY <2>2, <2>4
  <2>7. \A i \in lo..j : g[i] \in W[i]
    BY <2>2, <2>3, <2>6
  <2>8. ASSUME NEW i \in (lo + 1)..j PROVE g[i] = h[i][g[i - 1]]
    <3>1. CASE i = j
      BY <2>3, <2>4, <3>1
    <3>2. CASE i # j
      <4>1. i \in (lo + 1)..(j - 1) /\ i \in lo..(j - 1) /\ i - 1 \in lo..(j - 1)
        BY <3>2
      <4> QED
        BY <2>2, <2>3, <4>1
    <3> QED
      BY <3>1, <3>2
  <2>9. Solves(g, lo, j, W, a, h)
    BY <2>2, <2>3, <2>4, <2>5, <2>7, <2>8 DEF Solves
  <2> QED
    BY <2>9
<1>3. \A i \in lo..hi : i \in S
  <2> HIDE DEF S
  <2> QED
    BY <1>1, <1>2, Induction
<1> QED
  BY <1>3

\* The sets D[lo] >= D[lo + 1] >= ...: what falls away from one to the next is
\* apart, and together what falls away from the first to the last.
LEMMA Peeling ==
  ASSUME NEW lo \in Int, NEW hi \in Int, lo <= hi, NEW D,
         \A i \in (lo + 1)..hi : D[i] \subseteq D[i - 1]
  PROVE  /\ \A i, j \in (lo + 1)..hi :
              i # j => (D[i - 1] \ D[i]) \cap (D[j - 1] \ D[j]) = {}
         /\ UNION {D[i - 1] \ D[i] : i \in (lo + 1)..hi} = D[lo] \ D[hi]
<1>1. ASSUME NEW i \in lo..hi PROVE \A j \in i..hi : D[j] \subseteq D[i]
  <2> DEFINE S == {j \in i..hi : D[j] \subseteq D[i]}
  <2>1. i \in S
    OBVIOUS
  <2>2. \A j \in (i + 1)..hi : j - 1 \in S => j \in S
    OBVIOUS
  <2>3. \A j \in i..hi : j \in S
    <3> HIDE DEF S
    <3> QED
      BY <2>1, <2>2, Induction
  <2> QED
    BY <2>3
<1>2. ASSUME NEW i \in (lo + 1)..hi, NEW j \in (lo + 1)..hi, i < j
      PROVE  (D[i - 1] \ D[i]) \cap (D[j - 1] \ D[j]) = {}
  <2>1. i \in lo..hi /\ j - 1 \in i..hi
    BY <1>2
  <2>2. D[j - 1] \subseteq D[i]
    BY <1>1, <2>1
  <2> QED
    BY <2>2
<1>3. ASSUME NEW i \in (lo + 1)..hi, NEW j \in (lo + 1)..hi, i # j
      PROVE  (D[i - 1] \ D[i]) \cap (D[j - 1] \ D[j]) = {}
  <2>1. i < j \/ j < i
    BY <1>3
  <2> QED
    BY <1>2, <2>1
<1>4. ASSUME NEW x, x \in D[lo], x \notin D[hi]
      PROVE  \E i \in (lo + 1)..hi : x \in D[i - 1] \ D[i]
  <2> DEFINE S == {i \in lo..hi : x \in D[i]}
  <2>1. lo \in S /\ hi \notin S /\ hi \in lo..hi
    BY <1>4
  <2>2. ~\A i \in (lo + 1)..hi : i - 1 \in S => i \in S
    <3> HIDE DEF S
    <3> QED
      BY <2>1, Induction
  <2> QED
    BY <2>2
<1>5. ASSUME NEW i \in (lo + 1)..hi PROVE D[i - 1] \ D[i] \subseteq D[lo] \ D[hi]
  <2>1. i - 1 \in lo..hi /\ i \in lo..hi /\ lo \in lo..hi /\ i - 1 \in lo..hi /\ hi \in i..hi
    OBVIOUS
  <2>2. D[i - 1] \subseteq D[lo] /\ D[hi] \subseteq D[i]
    BY <1>1, <2>1
  <2> QED
    BY <2>2
<1> QED
  BY <1>3, <1>4, <1>5

-----------------------------------------------------------------------------
(* Networks that are apart                                                 *)

\* The networks hold every address of A once, and no other.
Tiles(nets, A) ==
  /\ nets \in Seq(Block)
  /\ \A i, j \in 1..Len(nets) : i # j => Addresses(nets[i]) \cap Addresses(nets[j]) = {}
  /\ AddressesOf(nets) = A

\* No networks have no addresses.
LEMMA TilesEmpty == Tiles(<<>>, {})
<1>1. <<>> \in Seq(Block) /\ Len(<<>>) = 0
  BY EmptySeq
<1>2. 1..Len(<<>>) = {}
  BY <1>1
<1> QED
  BY <1>1, <1>2 DEF Tiles, AddressesOf

\* One network has its own.
LEMMA TilesOne ==
  ASSUME NEW n \in Block
  PROVE  Tiles(<<n>>, Addresses(n))
<1> DEFINE s == <<n>>
<1>1. s \in Seq(Block) /\ Len(s) = 1 /\ s[1] = n
  OBVIOUS
<1> HIDE DEF s
<1>2. 1..Len(s) = {1}
  BY <1>1
<1>3. AddressesOf(s) = Addresses(n)
  BY <1>1, <1>2 DEF AddressesOf
<1>4. Tiles(s, Addresses(n))
  BY <1>1, <1>2, <1>3 DEF Tiles
<1> QED
  BY <1>4 DEF s

\* exclude halves a network until what is left is the other; the halves that it
\* spares are the network without the other.
LEMMA ExcludeTiles ==
  ASSUME NEW n \in Block, NEW o \in Block, Covers(n, o)
  PROVE  Tiles(Exclude(n, o), Addresses(n) \ Addresses(o))
<1> DEFINE lo == n.prefix
           hi == o.prefix
           step(c) == [p \in lo..hi |-> IF p = lo THEN n ELSE Halved(c[p - 1], o)]
           C == CHOOSE c : c = step(c)
           W == [p \in lo..hi |-> {m \in Block : m.prefix = p /\ Covers(m, o)}]
           h == [p \in lo..hi |-> [x \in W[p - 1] |-> Halved(x, o)]]
<1>1. lo \in Nat /\ hi \in Nat /\ lo <= hi /\ lo \in 0..Bits /\ hi \in 0..Bits
  BY BlockShape, NetworkAssumption DEF Covers
<1>2. ASSUME NEW p \in (lo + 1)..hi, NEW x \in Block, x.prefix = p - 1, Covers(x, o)
      PROVE  /\ Halved(x, o) \in Block /\ Spared(x, o) \in Block
             /\ Halved(x, o).prefix = p /\ Covers(Halved(x, o), o)
             /\ Addresses(Halved(x, o)) \subseteq Addresses(x)
             /\ Addresses(Spared(x, o)) = Addresses(x) \ Addresses(Halved(x, o))
  <2>1. x.prefix < o.prefix /\ x.prefix + 1 = p
    BY <1>1, <1>2
  <2> QED
    BY <1>2, <2>1, ExcludeRound
<1>3. n \in W[lo] /\ \A p \in (lo + 1)..hi : \A x \in W[p - 1] : h[p][x] = Halved(x, o) /\ h[p][x] \in W[p]
  <2>1. n \in W[lo]
    BY <1>1
  <2>2. ASSUME NEW p \in (lo + 1)..hi, NEW x \in W[p - 1]
        PROVE  h[p][x] = Halved(x, o) /\ h[p][x] \in W[p]
    <3>1. p \in lo..hi /\ p - 1 \in lo..hi
      BY <1>1
    <3>2. x \in Block /\ x.prefix = p - 1 /\ Covers(x, o)
      BY <3>1
    <3>3. h[p][x] = Halved(x, o)
      BY <3>1
    <3> QED
      BY <1>2, <3>1, <3>2, <3>3
  <2> QED
    BY <2>1, <2>2
<1>4. PICK f : Solves(f, lo, hi, W, n, h)
  <2>1. lo \in Int /\ hi \in Int /\ lo <= hi /\ n \in W[lo]
    BY <1>1, <1>3
  <2>2. \A p \in (lo + 1)..hi : \A x \in W[p - 1] : h[p][x] \in W[p]
    BY <1>3
  <2> HIDE DEF lo, hi, W, h
  <2> QED
    BY <2>1, <2>2, Recursion, Zenon
<1>5. f = step(f)
  <2>1. f = [i \in lo..hi |-> f[i]] /\ f[lo] = n
    BY <1>4 DEF Solves
  <2>2. ASSUME NEW p \in lo..hi, p # lo PROVE f[p] = Halved(f[p - 1], o)
    <3>1. p \in (lo + 1)..hi /\ p - 1 \in lo..hi
      BY <1>1, <2>2
    <3>2. f[p] = h[p][f[p - 1]] /\ f[p - 1] \in W[p - 1]
      BY <1>4, <3>1 DEF Solves
    <3> HIDE DEF h, W
    <3> QED
      BY <1>3, <3>1, <3>2
  <2> HIDE DEF lo, hi, W, h
  <2> QED
    BY <2>1, <2>2
<1>6. C = step(C)
  BY <1>5
<1>7. Exclude(n, o) = [i \in 1..(hi - lo) |-> Spared(C[lo + i - 1], o)]
  BY DEF Exclude
<1> HIDE DEF C
<1>8. C[lo] = n /\ \A p \in (lo + 1)..hi : C[p] = Halved(C[p - 1], o)
  BY <1>1, <1>6
<1> DEFINE S == {p \in lo..hi : C[p] \in Block /\ C[p].prefix = p /\ Covers(C[p], o)}
<1>9. lo \in S
  BY <1>1, <1>8
<1>10. \A p \in (lo + 1)..hi : p - 1 \in S => p \in S
  <2> SUFFICES ASSUME NEW p \in (lo + 1)..hi, p - 1 \in S PROVE p \in S
    OBVIOUS
  <2>1. p \in lo..hi /\ C[p - 1] \in Block /\ C[p - 1].prefix = p - 1 /\ Covers(C[p - 1], o)
    BY <1>1
  <2>2. C[p] = Halved(C[p - 1], o)
    BY <1>8
  <2>3. C[p] \in Block /\ C[p].prefix = p /\ Covers(C[p], o)
    BY <1>2, <2>1, <2>2
  <2> QED
    BY <2>1, <2>3
<1>11. \A p \in lo..hi : p \in S
  <2> HIDE DEF S, lo, hi
  <2> QED
    BY <1>1, <1>9, <1>10, Induction
<1> DEFINE D == [p \in lo..hi |-> Addresses(C[p])]
           E == Exclude(n, o)
<1>12. ASSUME NEW p \in (lo + 1)..hi
       PROVE  /\ Spared(C[p - 1], o) \in Block
              /\ Addresses(Spared(C[p - 1], o)) = D[p - 1] \ D[p]
              /\ D[p] \subseteq D[p - 1]
  <2>1. p - 1 \in lo..hi /\ p \in lo..hi
    BY <1>1
  <2>2. C[p - 1] \in Block /\ C[p - 1].prefix = p - 1 /\ Covers(C[p - 1], o)
    BY <1>11, <2>1
  <2>3. C[p] = Halved(C[p - 1], o)
    BY <1>8
  <2> QED
    BY <1>2, <2>1, <2>2, <2>3
<1>13. D[lo] = Addresses(n) /\ D[hi] = Addresses(o)
  <2>1. C[hi] \in Block /\ C[hi].prefix = o.prefix /\ Covers(C[hi], o)
    BY <1>1, <1>11
  <2>2. Size(C[hi]) = Size(o)
    BY <2>1 DEF Size
  <2>3. C[hi].addr = o.addr
    BY <2>1, <2>2, BlockShape DEF Covers, LastOf
  <2>4. Addresses(C[hi]) = Addresses(o)
    BY <2>2, <2>3 DEF Addresses, LastOf
  <2> QED
    BY <1>1, <1>8, <2>4
<1> HIDE DEF D, S
<1>14. /\ \A i, j \in (lo + 1)..hi :
             i # j => (D[i - 1] \ D[i]) \cap (D[j - 1] \ D[j]) = {}
       /\ UNION {D[i - 1] \ D[i] : i \in (lo + 1)..hi} = Addresses(n) \ Addresses(o)
  <2>1. \A i \in (lo + 1)..hi : D[i] \subseteq D[i - 1]
    BY <1>12
  <2>2. lo \in Int /\ hi \in Int /\ lo <= hi
    BY <1>1
  <2> HIDE DEF lo, hi
  <2>3. /\ \A i, j \in (lo + 1)..hi :
             i # j => (D[i - 1] \ D[i]) \cap (D[j - 1] \ D[j]) = {}
        /\ UNION {D[i - 1] \ D[i] : i \in (lo + 1)..hi} = D[lo] \ D[hi]
    BY <2>1, <2>2, Peeling, Zenon
  <2> QED
    BY <1>13, <2>3, Zenon
<1>15. \A i \in 1..(hi - lo) : lo + i \in (lo + 1)..hi /\ lo + i - 1 = (lo + i) - 1
  BY <1>1
<1>16. \A i \in 1..(hi - lo) : E[i] \in Block /\ Addresses(E[i]) = D[(lo + i) - 1] \ D[lo + i]
  BY <1>7, <1>12, <1>15
<1>17. E \in Seq(Block) /\ Len(E) = hi - lo
  <2>1. E \in [1..(hi - lo) -> Block] /\ hi - lo \in Nat
    BY <1>1, <1>7, <1>16
  <2> HIDE DEF E, lo, hi
  <2> QED
    BY <2>1, FunctionIsSequence
<1> HIDE DEF E, lo, hi
<1>18. ASSUME NEW i \in 1..Len(E), NEW j \in 1..Len(E), i # j
       PROVE  Addresses(E[i]) \cap Addresses(E[j]) = {}
  <2>1. i \in 1..(hi - lo) /\ j \in 1..(hi - lo)
    BY <1>17
  <2>2. PICK a \in (lo + 1)..hi, b \in (lo + 1)..hi : a = lo + i /\ b = lo + j /\ a # b
    BY <1>1, <1>18, <2>1
  <2>3. Addresses(E[i]) = D[a - 1] \ D[a] /\ Addresses(E[j]) = D[b - 1] \ D[b]
    BY <1>16, <2>1, <2>2, Zenon
  <2>4. (D[a - 1] \ D[a]) \cap (D[b - 1] \ D[b]) = {}
    BY <1>14, <2>2
  <2> QED
    BY <2>3, <2>4
<1>19. AddressesOf(E) = UNION {D[i - 1] \ D[i] : i \in (lo + 1)..hi}
  <2>1. ASSUME NEW k \in (lo + 1)..hi
        PROVE  \E i \in 1..Len(E) : Addresses(E[i]) = D[k - 1] \ D[k]
    <3>1. PICK i \in 1..(hi - lo) : lo + i = k
      <4>1. k - lo \in 1..(hi - lo) /\ lo + (k - lo) = k
        BY <1>1
      <4> QED
        BY <4>1
    <3>2. Addresses(E[i]) = D[(lo + i) - 1] \ D[lo + i] /\ i \in 1..Len(E)
      BY <1>16, <1>17, <3>1
    <3> QED
      BY <3>1, <3>2, Zenon
  <2>2. ASSUME NEW i \in 1..Len(E)
        PROVE  \E k \in (lo + 1)..hi : Addresses(E[i]) = D[k - 1] \ D[k]
    <3>1. i \in 1..(hi - lo)
      BY <1>17
    <3>2. Addresses(E[i]) = D[(lo + i) - 1] \ D[lo + i] /\ lo + i \in (lo + 1)..hi
      BY <1>15, <1>16, <3>1
    <3> QED
      BY <3>2, Zenon
  <2>3. \A x : (\E i \in 1..Len(E) : x \in Addresses(E[i]))
               <=> (\E k \in (lo + 1)..hi : x \in D[k - 1] \ D[k])
    BY <2>1, <2>2, Zenon
  <2>4. \A x : x \in AddressesOf(E) <=> \E i \in 1..Len(E) : x \in Addresses(E[i])
    BY Zenon DEF AddressesOf
  <2>5. \A x : x \in UNION {D[i - 1] \ D[i] : i \in (lo + 1)..hi}
               <=> \E k \in (lo + 1)..hi : x \in D[k - 1] \ D[k]
    BY Zenon
  <2> QED
    BY <2>3, <2>4, <2>5, Zenon
<1> QED
  BY <1>14, <1>17, <1>18, <1>19 DEF Tiles, E

\* Two lists, one after the other.
LEMMA Concatenated ==
  ASSUME NEW S, NEW s \in Seq(S), NEW t \in Seq(S)
  PROVE  /\ s \o t \in Seq(S) /\ Len(s) \in Nat /\ Len(t) \in Nat
         /\ Len(s \o t) = Len(s) + Len(t)
         /\ \A i \in 1..Len(s) : (s \o t)[i] = s[i]
         /\ \A i \in 1..Len(t) : (s \o t)[Len(s) + i] = t[i]
         /\ \A k \in 1..Len(s \o t) :
              k \in 1..Len(s) \/ \E i \in 1..Len(t) : k = Len(s) + i
<1>1. /\ s \o t \in Seq(S) /\ Len(s) \in Nat /\ Len(t) \in Nat
      /\ Len(s \o t) = Len(s) + Len(t)
      /\ \A i \in 1..Len(s) : (s \o t)[i] = s[i]
      /\ \A i \in 1..Len(t) : (s \o t)[Len(s) + i] = t[i]
  OBVIOUS
<1>2. ASSUME NEW k \in 1..Len(s \o t), k \notin 1..Len(s)
      PROVE  \E i \in 1..Len(t) : k = Len(s) + i
  <2>1. k - Len(s) \in 1..Len(t) /\ k = Len(s) + (k - Len(s))
    BY <1>1, <1>2
  <2> QED
    BY <2>1
<1> QED
  BY <1>1, <1>2

\* The members of a sequence.
Elements(s) == {s[i] : i \in 1..Len(s)}

\* Their elements are those of both.
LEMMA ConcatenatedElements ==
  ASSUME NEW S, NEW s \in Seq(S), NEW t \in Seq(S)
  PROVE  Elements(s \o t) = Elements(s) \cup Elements(t)
<1>1. ASSUME NEW x \in Elements(s \o t) PROVE x \in Elements(s) \cup Elements(t)
  <2>1. PICK k \in 1..Len(s \o t) : x = (s \o t)[k]
    BY DEF Elements
  <2>2. CASE k \in 1..Len(s)
    <3>1. x = s[k]
      BY <2>1, <2>2, Concatenated
    <3> QED
      BY <2>2, <3>1 DEF Elements
  <2>3. CASE \E i \in 1..Len(t) : k = Len(s) + i
    <3>1. PICK i \in 1..Len(t) : k = Len(s) + i
      BY <2>3
    <3>2. x = t[i]
      BY <2>1, <3>1, Concatenated
    <3> QED
      BY <3>2 DEF Elements
  <2>4. k \in 1..Len(s) \/ \E i \in 1..Len(t) : k = Len(s) + i
    BY Concatenated
  <2> QED
    BY <2>2, <2>3, <2>4
<1>2. ASSUME NEW x \in Elements(s) PROVE x \in Elements(s \o t)
  <2>1. PICK k \in 1..Len(s) : x = s[k]
    BY DEF Elements
  <2>2. k \in 1..Len(s \o t) /\ x = (s \o t)[k]
    BY <2>1, Concatenated
  <2> QED
    BY <2>2 DEF Elements
<1>3. ASSUME NEW x \in Elements(t) PROVE x \in Elements(s \o t)
  <2>1. PICK k \in 1..Len(t) : x = t[k]
    BY DEF Elements
  <2>2. Len(s) + k \in 1..Len(s \o t) /\ x = (s \o t)[Len(s) + k]
    BY <2>1, Concatenated
  <2> QED
    BY <2>2 DEF Elements
<1> QED
  BY <1>1, <1>2, <1>3

\* Lists of networks apart from one another are one such list.
LEMMA TilesConcatenated ==
  ASSUME NEW s, NEW t, NEW A, NEW B, Tiles(s, A), Tiles(t, B), A \cap B = {}
  PROVE  Tiles(s \o t, A \cup B)
<1>1. s \in Seq(Block) /\ t \in Seq(Block)
  BY DEF Tiles
<1> DEFINE r == s \o t
<1>2. /\ r \in Seq(Block) /\ Len(s) \in Nat /\ Len(t) \in Nat
      /\ Len(r) = Len(s) + Len(t)
      /\ \A i \in 1..Len(s) : r[i] = s[i]
      /\ \A i \in 1..Len(t) : r[Len(s) + i] = t[i]
      /\ \A k \in 1..Len(r) :
           k \in 1..Len(s) \/ \E i \in 1..Len(t) : k = Len(s) + i
  BY <1>1, Concatenated
<1>3. Elements(r) = Elements(s) \cup Elements(t)
  BY <1>1, ConcatenatedElements
<1> HIDE DEF r
<1>4. AddressesOf(r) = A \cup B
  <2>1. \A q : AddressesOf(q) = UNION {Addresses(n) : n \in Elements(q)}
    BY DEF AddressesOf, Elements
  <2>2. AddressesOf(s) = A /\ AddressesOf(t) = B
    BY DEF Tiles
  <2> QED
    BY <1>3, <2>1, <2>2
<1>5. \A i \in 1..Len(s) : Addresses(s[i]) \subseteq A
  BY DEF Tiles, AddressesOf
<1>6. \A i \in 1..Len(t) : Addresses(t[i]) \subseteq B
  BY DEF Tiles, AddressesOf
<1>7. ASSUME NEW i \in 1..Len(r), NEW j \in 1..Len(r), i # j
      PROVE  Addresses(r[i]) \cap Addresses(r[j]) = {}
  <2>1. CASE i \in 1..Len(s) /\ j \in 1..Len(s)
    BY <1>2, <1>7, <2>1 DEF Tiles
  <2>2. CASE i \in 1..Len(s) /\ j \notin 1..Len(s)
    <3>1. PICK b \in 1..Len(t) : j = Len(s) + b
      BY <1>2, <2>2
    <3>2. r[i] = s[i] /\ r[j] = t[b]
      BY <1>2, <2>2, <3>1
    <3> QED
      BY <1>5, <1>6, <2>2, <3>2
  <2>3. CASE i \notin 1..Len(s) /\ j \in 1..Len(s)
    <3>1. PICK b \in 1..Len(t) : i = Len(s) + b
      BY <1>2, <2>3
    <3>2. r[j] = s[j] /\ r[i] = t[b]
      BY <1>2, <2>3, <3>1
    <3> QED
      BY <1>5, <1>6, <2>3, <3>2
  <2>4. CASE i \notin 1..Len(s) /\ j \notin 1..Len(s)
    <3>1. PICK a \in 1..Len(t), b \in 1..Len(t) : i = Len(s) + a /\ j = Len(s) + b
      BY <1>2, <2>4
    <3>2. a # b /\ r[i] = t[a] /\ r[j] = t[b]
      BY <1>2, <1>7, <3>1
    <3> QED
      BY <3>2 DEF Tiles
  <2> QED
    BY <2>1, <2>2, <2>3, <2>4
<1>8. Tiles(r, A \cup B)
  BY <1>2, <1>4, <1>7 DEF Tiles
<1> QED
  BY <1>8 DEF r

\* FlattenSeq appends one sequence after another.
LEMMA FlattenSteps ==
  ASSUME NEW S, NEW seqs, Len(seqs) \in Nat \ {0}, \A i \in 1..Len(seqs) : seqs[i] \in Seq(S)
  PROVE  \E F : /\ F[1] = seqs[1]
                /\ \A i \in 2..Len(seqs) : F[i] = F[i - 1] \o seqs[i]
                /\ \A i \in 1..Len(seqs) : F[i] \in Seq(S)
                /\ Seqs!FlattenSeq(seqs) = F[Len(seqs)]
<1> DEFINE n == Len(seqs)
           step(c) == [i \in 1..n |-> IF i = 1 THEN seqs[i] ELSE c[i - 1] \o seqs[i]]
           C == CHOOSE c : c = step(c)
           W == [i \in 1..n |-> Seq(S)]
           h == [i \in 1..n |-> [x \in Seq(S) |-> x \o seqs[i]]]
<1>1. ASSUME NEW i \in 2..n, NEW x \in Seq(S)
      PROVE  i - 1 \in 1..n /\ i \in 1..n /\ h[i][x] = x \o seqs[i] /\ x \o seqs[i] \in Seq(S)
  <2>1. i - 1 \in 1..n /\ i \in 1..n
    OBVIOUS
  <2>2. h[i][x] = x \o seqs[i] /\ seqs[i] \in Seq(S)
    BY <2>1
  <2>3. x \o seqs[i] \in Seq(S)
    BY <2>2, Concatenated
  <2> QED
    BY <2>1, <2>2, <2>3
<1>2. PICK f : Solves(f, 1, n, W, seqs[1], h)
  <2>1. n \in Int /\ 1 <= n /\ seqs[1] \in W[1] /\ 1 \in Int
    OBVIOUS
  <2>2. \A i \in (1 + 1)..n : \A x \in W[i - 1] : h[i][x] \in W[i]
    <3>1. \A i \in 2..n : W[i] = Seq(S) /\ W[i - 1] = Seq(S) /\ \A x \in Seq(S) : h[i][x] \in Seq(S)
      BY <1>1
    <3>2. 1 + 1 = 2
      OBVIOUS
    <3> HIDE DEF n, W, h
    <3> QED
      BY <3>1, <3>2
  <2> HIDE DEF n, W, h
  <2> QED
    BY <2>1, <2>2, Recursion, Zenon
<1>3. /\ f = [i \in 1..n |-> f[i]] /\ f[1] = seqs[1]
      /\ \A i \in 1..n : f[i] \in Seq(S)
      /\ \A i \in 2..n : f[i] = f[i - 1] \o seqs[i]
  <2>1. f = [i \in 1..n |-> f[i]] /\ f[1] = seqs[1] /\ \A i \in 1..n : f[i] \in W[i]
    BY <1>2 DEF Solves
  <2>2. \A i \in 2..n : f[i] = h[i][f[i - 1]]
    <3>1. 1 + 1 = 2
      OBVIOUS
    <3> QED
      BY <1>2, <3>1 DEF Solves
  <2>3. \A i \in 1..n : f[i] \in Seq(S)
    BY <2>1
  <2>4. ASSUME NEW i \in 2..n PROVE f[i] = f[i - 1] \o seqs[i]
    <3>1. i - 1 \in 1..n
      OBVIOUS
    <3>2. f[i - 1] \in Seq(S)
      BY <2>3, <3>1
    <3> HIDE DEF h, n
    <3> QED
      BY <1>1, <2>2, <3>2
  <2> QED
    BY <2>1, <2>3, <2>4
<1>4. f = step(f)
  <2>1. ASSUME NEW i \in 1..n PROVE f[i] = IF i = 1 THEN seqs[i] ELSE f[i - 1] \o seqs[i]
    <3>1. i = 1 \/ i \in 2..n
      OBVIOUS
    <3> HIDE DEF n
    <3> QED
      BY <1>3, <3>1, Zenon
  <2> HIDE DEF n
  <2> QED
    BY <1>3, <2>1, Zenon
<1>5. C = step(C)
  BY <1>4
<1>6. Seqs!FlattenSeq(seqs) = C[n]
  BY DEF Seqs!FlattenSeq
<1> HIDE DEF C
<1>7. C[1] = seqs[1] /\ \A i \in 2..n : C[i] = C[i - 1] \o seqs[i]
  <2>1. \A i \in 1..n : C[i] = IF i = 1 THEN seqs[i] ELSE C[i - 1] \o seqs[i]
    <3> HIDE DEF n
    <3> QED
      BY <1>5, Zenon
  <2>2. 1 \in 1..n /\ \A i \in 2..n : i \in 1..n /\ i # 1
    OBVIOUS
  <2> HIDE DEF n
  <2> QED
    BY <2>1, <2>2, Zenon
<1> DEFINE T == {i \in 1..n : C[i] \in Seq(S)}
<1>8. \A i \in 1..n : i \in T
  <2>1. 1 \in T
    BY <1>7
  <2>2. \A i \in (1 + 1)..n : i - 1 \in T => i \in T
    <3> SUFFICES ASSUME NEW i \in 2..n, i - 1 \in T PROVE i \in T
      OBVIOUS
    <3>1. C[i - 1] \in Seq(S) /\ i \in 1..n
      OBVIOUS
    <3>2. C[i] = C[i - 1] \o seqs[i] /\ seqs[i] \in Seq(S)
      BY <1>1, <1>7, <3>1
    <3>3. C[i] \in Seq(S)
      BY <3>1, <3>2, ConcatProperties
    <3> QED
      BY <3>1, <3>3
  <2>3. n \in Int /\ 1 \in Int
    OBVIOUS
  <2> HIDE DEF T, n
  <2> QED
    BY <2>1, <2>2, <2>3, Induction, Zenon
<1>9. \A i \in 1..n : C[i] \in Seq(S)
  BY <1>8
<1> QED
  BY <1>6, <1>7, <1>9

\* So are any number of them.
LEMMA FlattenTiles ==
  ASSUME NEW seqs \in Seq(Seq(Block)), NEW B,
         \A i \in 1..Len(seqs) : Tiles(seqs[i], B[i]),
         \A i, j \in 1..Len(seqs) : i # j => B[i] \cap B[j] = {}
  PROVE  Tiles(Seqs!FlattenSeq(seqs), UNION {B[i] : i \in 1..Len(seqs)})
<1>1. CASE Len(seqs) = 0
  <2>1. seqs = <<>>
    BY <1>1, EmptySeq
  <2>2. Seqs!FlattenSeq(seqs) = <<>>
    BY <1>1, <2>1 DEF Seqs!FlattenSeq
  <2>3. UNION {B[i] : i \in 1..Len(seqs)} = {}
    BY <1>1
  <2> QED
    BY <2>2, <2>3, TilesEmpty
<1>2. CASE Len(seqs) # 0
  <2> DEFINE n == Len(seqs)
             U(i) == UNION {B[k] : k \in 1..i}
  <2>1. n \in Nat \ {0} /\ \A i \in 1..n : seqs[i] \in Seq(Block)
    BY <1>2, LenProperties
  <2>2. PICK F : /\ F[1] = seqs[1]
                 /\ \A i \in 2..n : F[i] = F[i - 1] \o seqs[i]
                 /\ \A i \in 1..n : F[i] \in Seq(Block)
                 /\ Seqs!FlattenSeq(seqs) = F[n]
    BY <2>1, FlattenSteps
  <2> DEFINE S == {i \in 1..n : Tiles(F[i], U(i))}
  <2>3. 1 \in S
    <3>1. 1 \in 1..n /\ 1..1 = {1}
      BY <2>1
    <3>2. U(1) = B[1]
      BY <3>1
    <3>3. Tiles(seqs[1], B[1])
      BY <3>1
    <3> HIDE DEF n, U
    <3>4. Tiles(F[1], U(1))
      BY <2>2, <3>2, <3>3
    <3> QED
      BY <3>1, <3>4
  <2>4. ASSUME NEW i \in 2..n, i - 1 \in S PROVE i \in S
    <3>1. i \in 1..n /\ i - 1 \in 1..n /\ 1..i = (1..(i - 1)) \cup {i}
      BY <2>1
    <3>2. U(i) = U(i - 1) \cup B[i]
      BY <3>1
    <3>3. \A k \in 1..(i - 1) : k \in 1..n /\ k # i
      BY <2>1
    <3>4. U(i - 1) \cap B[i] = {}
      BY <3>1, <3>3
    <3>5. Tiles(F[i - 1], U(i - 1)) /\ Tiles(seqs[i], B[i])
      BY <2>4, <3>1
    <3> HIDE DEF U
    <3>6. Tiles(F[i - 1] \o seqs[i], U(i - 1) \cup B[i])
      BY <3>4, <3>5, TilesConcatenated
    <3>7. Tiles(F[i], U(i))
      BY <2>2, <3>2, <3>6
    <3> QED
      BY <3>1, <3>7
  <2>5. \A i \in 1..n : i \in S
    <3>1. n \in Int /\ 1 \in Int /\ 1 + 1 = 2
      BY <2>1
    <3> HIDE DEF n, S
    <3> QED
      BY <2>3, <2>4, <3>1, Induction
  <2>6. Tiles(F[n], U(n))
    <3>1. n \in 1..n
      BY <2>1
    <3> HIDE DEF n, U
    <3> QED
      BY <2>5, <3>1
  <2> QED
    BY <2>2, <2>6
<1> QED
  BY <1>1, <1>2

\* The elements of a flattened list are those of all its lists.
LEMMA FlattenElements ==
  ASSUME NEW T, NEW seqs \in Seq(Seq(T))
  PROVE  /\ Seqs!FlattenSeq(seqs) \in Seq(T)
         /\ Elements(Seqs!FlattenSeq(seqs)) = UNION {Elements(seqs[i]) : i \in 1..Len(seqs)}
<1>1. CASE Len(seqs) = 0
  <2>1. seqs = <<>>
    BY <1>1, EmptySeq
  <2>2. Seqs!FlattenSeq(seqs) = seqs
    BY <1>1 DEF Seqs!FlattenSeq
  <2>3. Elements(seqs) = {} /\ UNION {Elements(seqs[i]) : i \in 1..Len(seqs)} = {}
    BY <1>1 DEF Elements
  <2> QED
    BY <2>1, <2>2, <2>3, EmptySeq
<1>2. CASE Len(seqs) # 0
  <2> DEFINE n == Len(seqs)
             U(i) == UNION {Elements(seqs[k]) : k \in 1..i}
  <2>1. n \in Nat \ {0} /\ \A i \in 1..n : seqs[i] \in Seq(T)
    BY <1>2, LenProperties
  <2>2. PICK F : /\ F[1] = seqs[1]
                 /\ \A i \in 2..n : F[i] = F[i - 1] \o seqs[i]
                 /\ \A i \in 1..n : F[i] \in Seq(T)
                 /\ Seqs!FlattenSeq(seqs) = F[n]
    BY <2>1, FlattenSteps
  <2> DEFINE S == {i \in 1..n : Elements(F[i]) = U(i)}
  <2>3. 1 \in S
    <3>1. 1 \in 1..n /\ 1..1 = {1}
      BY <2>1
    <3>2. U(1) = Elements(seqs[1])
      BY <3>1
    <3> QED
      BY <2>2, <3>1, <3>2
  <2>4. ASSUME NEW i \in 2..n, i - 1 \in S PROVE i \in S
    <3>1. i \in 1..n /\ i - 1 \in 1..n /\ 1..i = (1..(i - 1)) \cup {i}
      BY <2>1
    <3>2. U(i) = U(i - 1) \cup Elements(seqs[i])
      BY <3>1
    <3>3. Elements(F[i - 1]) = U(i - 1)
      BY <2>4
    <3>4. F[i - 1] \in Seq(T) /\ seqs[i] \in Seq(T)
      BY <2>1, <2>2, <3>1
    <3>5. F[i] = F[i - 1] \o seqs[i]
      BY <2>2
    <3> HIDE DEF U
    <3>6. Elements(F[i]) = U(i)
      BY <3>2, <3>3, <3>4, <3>5, ConcatenatedElements
    <3> QED
      BY <3>1, <3>6
  <2>5. \A i \in 1..n : i \in S
    <3>1. n \in Int /\ 1 \in Int /\ 1 + 1 = 2
      BY <2>1
    <3> HIDE DEF n, S
    <3> QED
      BY <2>3, <2>4, <3>1, Induction
  <2>6. Elements(F[n]) = U(n) /\ F[n] \in Seq(T)
    <3>1. n \in 1..n
      BY <2>1
    <3> HIDE DEF n, U
    <3> QED
      BY <2>2, <2>5, <3>1
  <2> QED
    BY <2>2, <2>6
<1> QED
  BY <1>1, <1>2

-----------------------------------------------------------------------------
(* Cutting networks out                                                    *)

\* Filtering keeps what is in the set ...
LEMMA AmongElements ==
  ASSUME NEW nets \in Seq(Block), NEW set
  PROVE  /\ Among(nets, set) \in Seq(Block)
         /\ Elements(Among(nets, set)) = Elements(nets) \cap set
<1> DEFINE n == Len(nets)
           pieces == [i \in 1..n |-> IF nets[i] \in set THEN <<nets[i]>> ELSE <<>>]
<1>1. n \in Nat /\ \A i \in 1..n : nets[i] \in Block
  BY LenProperties
<1>2. \A i \in 1..n : <<nets[i]>> \in Seq(Block)
  BY <1>1
<1>3. <<>> \in Seq(Block) /\ Elements(<<>>) = {}
  <2>1. <<>> \in Seq(Block) /\ Len(<<>>) = 0
    BY EmptySeq
  <2> QED
    BY <2>1 DEF Elements
<1>4. \A x : Elements(<<x>>) = {x}
  <2> TAKE x
  <2>1. Len(<<x>>) = 1 /\ <<x>>[1] = x /\ 1..1 = {1}
    OBVIOUS
  <2> QED
    BY <2>1 DEF Elements
<1>5. pieces \in Seq(Seq(Block)) /\ Len(pieces) = n
  <2>1. pieces \in [1..n -> Seq(Block)]
    BY <1>2, <1>3
  <2> HIDE DEF pieces, n
  <2> QED
    BY <1>1, <2>1, FunctionIsSequence
<1>6. \A i \in 1..n : Elements(pieces[i]) = {nets[i]} \cap set
  BY <1>3, <1>4
<1>7. Among(nets, set) = Seqs!FlattenSeq(pieces)
  BY DEF Among
<1> HIDE DEF pieces
<1>8. UNION {Elements(pieces[i]) : i \in 1..n} = Elements(nets) \cap set
  BY <1>6 DEF Elements
<1> HIDE DEF n
<1> QED
  BY <1>5, <1>7, <1>8, FlattenElements

\* ... and sorting keeps all.
LEMMA SortedElements ==
  ASSUME NEW nets \in Seq(Block)
  PROVE  ByPrefix(nets) \in Seq(Block) /\ Elements(ByPrefix(nets)) = Elements(nets)
<1> DEFINE Of(i) == {m \in Net : m.prefix = i - 1}
           pieces == [i \in 1..(Bits + 1) |-> Among(nets, Of(i))]
<1>1. Bits + 1 \in Nat
  BY NetworkAssumption
<1>2. \A i \in 1..(Bits + 1) : /\ Among(nets, Of(i)) \in Seq(Block)
                               /\ Elements(Among(nets, Of(i))) = Elements(nets) \cap Of(i)
  BY AmongElements
<1>3. pieces \in Seq(Seq(Block)) /\ Len(pieces) = Bits + 1
  <2>1. pieces \in [1..(Bits + 1) -> Seq(Block)]
    BY <1>2
  <2> HIDE DEF pieces
  <2> QED
    BY <1>1, <2>1, FunctionIsSequence
<1>4. \A i \in 1..(Bits + 1) : Elements(pieces[i]) = Elements(nets) \cap Of(i)
  BY <1>2
<1>5. ByPrefix(nets) = Seqs!FlattenSeq(pieces)
  BY DEF ByPrefix
<1>6. \A x \in Elements(nets) : \E i \in 1..(Bits + 1) : x \in Of(i)
  <2> SUFFICES ASSUME NEW x \in Elements(nets) PROVE \E i \in 1..(Bits + 1) : x \in Of(i)
    OBVIOUS
  <2>1. x \in Block /\ x \in Net
    BY LenProperties DEF Elements, Block
  <2>2. PICK i \in 1..(Bits + 1) : i - 1 = x.prefix
    <3>1. x.prefix \in 0..Bits
      BY <2>1, BlockShape
    <3>2. x.prefix + 1 \in 1..(Bits + 1) /\ (x.prefix + 1) - 1 = x.prefix
      BY <3>1, NetworkAssumption
    <3> QED
      BY <3>2
  <2> QED
    BY <2>1, <2>2
<1> HIDE DEF pieces, Of
<1>7. UNION {Elements(pieces[i]) : i \in 1..(Bits + 1)} = Elements(nets)
  BY <1>4, <1>6
<1> QED
  BY <1>3, <1>5, <1>7, FlattenElements

\* The addresses of a list do not depend on its order.
LEMMA ElementAddresses ==
  \A nets : AddressesOf(nets) = UNION {Addresses(n) : n \in Elements(nets)}
BY DEF AddressesOf, Elements

\* One network is cut out.
LEMMA CutTiles ==
  ASSUME NEW nets, NEW A, Tiles(nets, A), NEW o \in Block
  PROVE  Tiles(Cut(nets, o), A \ Addresses(o))
<1> DEFINE n == Len(nets)
           piece(m) == IF Covers(m, o) THEN Exclude(m, o)
                       ELSE IF Overlaps(m, o) THEN <<>>
                       ELSE <<m>>
           pieces == [i \in 1..n |-> piece(nets[i])]
           B == [i \in 1..n |-> Addresses(nets[i]) \ Addresses(o)]
<1>1. nets \in Seq(Block) /\ n \in Nat /\ \A i \in 1..n : nets[i] \in Block
  BY LenProperties DEF Tiles
<1>2. ASSUME NEW m \in Block PROVE Tiles(piece(m), Addresses(m) \ Addresses(o))
  <2>1. CASE Covers(m, o)
    BY <2>1, ExcludeTiles
  <2>2. CASE ~Covers(m, o) /\ Overlaps(m, o)
    <3>1. Covers(o, m)
      BY <2>2 DEF Overlaps
    <3>2. Addresses(m) \ Addresses(o) = {}
      BY <3>1, CoversAddresses
    <3> QED
      BY <2>2, <3>2, TilesEmpty
  <2>3. CASE ~Covers(m, o) /\ ~Overlaps(m, o)
    <3>1. Addresses(m) \ Addresses(o) = Addresses(m)
      BY <2>3, NoOverlap
    <3> QED
      BY <2>3, <3>1, TilesOne
  <2> QED
    BY <2>1, <2>2, <2>3
<1> HIDE DEF piece
<1>3. \A i \in 1..n : Tiles(pieces[i], B[i])
  BY <1>1, <1>2
<1>4. pieces \in Seq(Seq(Block)) /\ Len(pieces) = n
  <2>1. \A i \in 1..n : pieces[i] \in Seq(Block)
    BY <1>3 DEF Tiles
  <2>2. pieces \in [1..n -> Seq(Block)]
    BY <2>1
  <2> HIDE DEF pieces, n
  <2> QED
    BY <1>1, <2>2, FunctionIsSequence
<1>5. \A i, j \in 1..n : i # j => B[i] \cap B[j] = {}
  <2>1. \A i, j \in 1..n : i # j => Addresses(nets[i]) \cap Addresses(nets[j]) = {}
    BY DEF Tiles
  <2> QED
    BY <2>1
<1>6. Cut(nets, o) = Seqs!FlattenSeq(pieces)
  BY DEF Cut, piece
<1>7. UNION {B[i] : i \in 1..n} = A \ Addresses(o)
  <2>1. AddressesOf(nets) = A
    BY DEF Tiles
  <2> QED
    BY <2>1 DEF AddressesOf
<1> HIDE DEF pieces, B, n
<1>8. Tiles(Seqs!FlattenSeq(pieces), UNION {B[i] : i \in 1..n})
  <2>1. \A i \in 1..Len(pieces) : Tiles(pieces[i], B[i])
    BY <1>3, <1>4, Zenon
  <2>2. \A i, j \in 1..Len(pieces) : i # j => B[i] \cap B[j] = {}
    BY <1>4, <1>5, Zenon
  <2>3. Tiles(Seqs!FlattenSeq(pieces), UNION {B[i] : i \in 1..Len(pieces)})
    BY <1>4, <2>1, <2>2, FlattenTiles, Zenon
  <2> QED
    BY <1>4, <2>3, Zenon
<1> QED
  BY <1>6, <1>7, <1>8

\* One network after another is cut out: what is left is what is in none.
LEMMA ExcludeNetworksTiles ==
  ASSUME NEW networks, NEW A, Tiles(networks, A), NEW toExclude \in Seq(Block)
  PROVE  Tiles(ExcludeNetworks(networks, toExclude), A \ AddressesOf(toExclude))
<1> DEFINE order == ByPrefix(toExclude)
           n == Len(order)
           R(i) == A \ UNION {Addresses(order[k]) : k \in 1..i}
           step(c) == [i \in 0..n |-> IF i = 0 THEN networks ELSE Cut(c[i - 1], order[i])]
           C == CHOOSE c : c = step(c)
           W == [i \in 0..n |-> {s \in Seq(Block) : Tiles(s, R(i))}]
           h == [i \in 0..n |-> [x \in W[i - 1] |-> Cut(x, order[i])]]
<1>1. n \in Nat /\ \A i \in 1..n : order[i] \in Block
  BY SortedElements, LenProperties
<1>2. A \ AddressesOf(toExclude) = R(n)
  <2>1. AddressesOf(order) = AddressesOf(toExclude)
    BY SortedElements, ElementAddresses
  <2>2. AddressesOf(order) = UNION {Addresses(order[k]) : k \in 1..n}
    BY DEF AddressesOf
  <2> QED
    BY <2>1, <2>2
<1>3. ExcludeNetworks(networks, toExclude) = C[n]
  BY DEF ExcludeNetworks
<1> HIDE DEF order, n
<1>4. ASSUME NEW i \in 1..n, NEW x, Tiles(x, R(i - 1))
      PROVE  Tiles(Cut(x, order[i]), R(i)) /\ Cut(x, order[i]) \in Seq(Block)
  <2>1. 1..i = (1..(i - 1)) \cup {i}
    BY <1>1
  <2>2. R(i) = R(i - 1) \ Addresses(order[i])
    BY <2>1
  <2> HIDE DEF R
  <2>3. Tiles(Cut(x, order[i]), R(i - 1) \ Addresses(order[i]))
    BY <1>1, <1>4, CutTiles
  <2>4. Tiles(Cut(x, order[i]), R(i))
    BY <2>2, <2>3
  <2> QED
    BY <2>4 DEF Tiles
<1>5. networks \in W[0] /\ Tiles(networks, R(0))
  <2>1. R(0) = A /\ 0 \in 0..n
    BY <1>1
  <2>2. networks \in Seq(Block)
    BY DEF Tiles
  <2> HIDE DEF R
  <2> QED
    BY <2>1, <2>2
<1>6. ASSUME NEW i \in 1..n, NEW x \in W[i - 1]
      PROVE  h[i][x] = Cut(x, order[i]) /\ h[i][x] \in W[i]
  <2>1. i \in 0..n /\ i - 1 \in 0..n
    BY <1>1
  <2>2. h[i][x] = Cut(x, order[i]) /\ Tiles(x, R(i - 1))
    BY <2>1
  <2> HIDE DEF R
  <2>3. Tiles(Cut(x, order[i]), R(i)) /\ Cut(x, order[i]) \in Seq(Block)
    BY <1>4, <2>2
  <2> HIDE DEF h
  <2> QED
    BY <2>1, <2>2, <2>3
<1>7. PICK f : Solves(f, 0, n, W, networks, h)
  <2>1. n \in Int /\ 0 \in Int /\ 0 <= n
    BY <1>1
  <2>2. \A i \in (0 + 1)..n : \A x \in W[i - 1] : h[i][x] \in W[i]
    <3>1. 0 + 1 = 1
      OBVIOUS
    <3> HIDE DEF W, h
    <3> QED
      BY <1>6, <3>1
  <2> HIDE DEF W, h
  <2> QED
    BY <1>5, <2>1, <2>2, Recursion, Zenon
<1>8. f = step(f)
  <2>1. f = [i \in 0..n |-> f[i]] /\ f[0] = networks
    BY <1>7 DEF Solves
  <2>2. ASSUME NEW i \in 0..n, i # 0 PROVE f[i] = Cut(f[i - 1], order[i])
    <3>1. i \in 1..n /\ i - 1 \in 0..n /\ i \in (0 + 1)..n
      BY <1>1, <2>2
    <3> HIDE DEF W, h
    <3>2. f[i] = h[i][f[i - 1]] /\ f[i - 1] \in W[i - 1]
      BY <1>7, <3>1 DEF Solves
    <3> QED
      BY <1>6, <3>1, <3>2
  <2>3. ASSUME NEW i \in 0..n PROVE f[i] = IF i = 0 THEN networks ELSE Cut(f[i - 1], order[i])
    BY <2>1, <2>2, Zenon
  <2> QED
    BY <2>1, <2>3, Zenon
<1>9. C = step(C)
  BY <1>8
<1> HIDE DEF C
<1>10. C[0] = networks /\ \A i \in 1..n : C[i] = Cut(C[i - 1], order[i])
  <2>1. \A i \in 0..n : C[i] = IF i = 0 THEN networks ELSE Cut(C[i - 1], order[i])
    BY <1>9, Zenon
  <2>2. 0 \in 0..n /\ \A i \in 1..n : i \in 0..n /\ i # 0
    BY <1>1
  <2> QED
    BY <2>1, <2>2, Zenon
<1> DEFINE S == {i \in 0..n : Tiles(C[i], R(i))}
<1>11. 0 \in S
  <2>1. 0 \in 0..n
    BY <1>1
  <2> HIDE DEF R
  <2> QED
    BY <1>5, <1>10, <2>1
<1>12. ASSUME NEW i \in 1..n, i - 1 \in S PROVE i \in S
  <2>1. i \in 0..n
    BY <1>1
  <2> HIDE DEF R
  <2> QED
    BY <1>4, <1>10, <1>12, <2>1
<1>13. \A i \in 0..n : i \in S
  <2>1. n \in Int /\ 0 \in Int /\ 0 + 1 = 1
    BY <1>1
  <2> HIDE DEF S
  <2> QED
    BY <1>11, <1>12, <2>1, Induction
<1>14. n \in 0..n
  BY <1>1
<1> HIDE DEF R
<1> QED
  BY <1>2, <1>3, <1>13, <1>14

-----------------------------------------------------------------------------
(* The pools                                                               *)

\* 0.0.0.0/0 has all addresses.
LEMMA Everything ==
  LET everything == [addr |-> 0, prefix |-> 0]
  IN  everything \in Block /\ Addresses(everything) = 0..(2 ^ Bits - 1)
<1> DEFINE e == [addr |-> 0, prefix |-> 0]
<1>1. Bits \in Nat /\ Bits - 0 = Bits
  BY NetworkAssumption
<1>2. PICK s \in Nat \ {0} : s = 2 ^ Bits
  BY <1>1, PowerPositive
<1>3. Size(e) = s
  BY <1>1, <1>2 DEF Size
<1>4. 0 % s = 0 /\ 0 \in 0..(s - 1) /\ 0 \in 0..Bits /\ 0 + s - 1 = s - 1
  BY <1>1
<1>5. e \in Block
  BY <1>2, <1>3, <1>4 DEF Block, Net
<1>6. Addresses(e) = 0..(s - 1)
  BY <1>3, <1>4 DEF Addresses, LastOf
<1> QED
  BY <1>2, <1>5, <1>6

\* The private networks of a class.
LEMMA PrivateTiles ==
  ASSUME NEW c \in 1..Len(NetworkClasses)
  PROVE  Tiles(Among(PrivateNetworks, {m \in Net : Overlaps(m, NetworkClasses[c])}),
               Addresses(NetworkClasses[c]) \cap AddressesOf(PrivateNetworks))
<1> DEFINE P == PrivateNetworks
           n == Len(P)
           k == NetworkClasses[c]
           set == {m \in Net : Overlaps(m, k)}
           pieces == [i \in 1..n |-> IF P[i] \in set THEN <<P[i]>> ELSE <<>>]
           B == [i \in 1..n |-> Addresses(P[i]) \cap Addresses(k)]
<1>1. /\ P \in Seq(Block) /\ NetworkClasses \in Seq(Block)
      /\ \A i, j \in 1..n : i # j => ~Overlaps(P[i], P[j])
      /\ \A i \in 1..n : Overlaps(P[i], k) => Covers(k, P[i])
  BY NetworkAssumption
<1>2. n \in Nat /\ k \in Block /\ \A i \in 1..n : P[i] \in Block /\ P[i] \in Net
  BY <1>1, LenProperties DEF Block
<1> HIDE DEF P, k
<1>3. \A i \in 1..n : Tiles(pieces[i], B[i])
  <2> SUFFICES ASSUME NEW i \in 1..n PROVE Tiles(pieces[i], B[i])
    OBVIOUS
  <2>1. CASE Overlaps(P[i], k)
    <3>1. Addresses(P[i]) \subseteq Addresses(k)
      BY <1>1, <1>2, <2>1, CoversAddresses
    <3>2. B[i] = Addresses(P[i]) /\ pieces[i] = <<P[i]>>
      BY <1>2, <2>1, <3>1
    <3> QED
      BY <1>2, <3>2, TilesOne
  <2>2. CASE ~Overlaps(P[i], k)
    <3>1. B[i] = {} /\ pieces[i] = <<>>
      BY <1>2, <2>2, NoOverlap
    <3> QED
      BY <3>1, TilesEmpty
  <2> QED
    BY <2>1, <2>2
<1>4. \A i, j \in 1..n : i # j => B[i] \cap B[j] = {}
  <2>1. ASSUME NEW i \in 1..n, NEW j \in 1..n, i # j
        PROVE  Addresses(P[i]) \cap Addresses(P[j]) = {}
    BY <1>1, <1>2, <2>1, NoOverlap
  <2> QED
    BY <2>1
<1>5. pieces \in Seq(Seq(Block)) /\ Len(pieces) = n
  <2>1. \A i \in 1..n : pieces[i] \in Seq(Block)
    BY <1>3 DEF Tiles
  <2>2. pieces \in [1..n -> Seq(Block)]
    BY <2>1
  <2> HIDE DEF pieces, n
  <2> QED
    BY <1>2, <2>2, FunctionIsSequence
<1>6. Among(P, set) = Seqs!FlattenSeq(pieces)
  BY DEF Among
<1>7. UNION {B[i] : i \in 1..n} = Addresses(k) \cap AddressesOf(P)
  BY DEF AddressesOf
<1> HIDE DEF pieces, B, n
<1>8. Tiles(Seqs!FlattenSeq(pieces), UNION {B[i] : i \in 1..n})
  <2>1. \A i \in 1..Len(pieces) : Tiles(pieces[i], B[i])
    BY <1>3, <1>5, Zenon
  <2>2. \A i, j \in 1..Len(pieces) : i # j => B[i] \cap B[j] = {}
    BY <1>4, <1>5, Zenon
  <2>3. Tiles(Seqs!FlattenSeq(pieces), UNION {B[i] : i \in 1..Len(pieces)})
    BY <1>5, <2>1, <2>2, FlattenTiles, Zenon
  <2> QED
    BY <1>5, <2>3, Zenon
<1> QED
  BY <1>6, <1>7, <1>8 DEF P, k

\* What NetNext can ask for, and from then on keeps.
WantedOK(kind, class) ==
  /\ kind \in {"all", "private", "public"} /\ class \in 0..Len(NetworkClasses)
  /\ kind # "all" => class # 0

\* A pool is made of the eligible addresses, once each.
LEMMA PoolTiles ==
  ASSUME NEW kind, NEW class, WantedOK(kind, class)
  PROVE  Tiles(Pool(kind, class), EligibleOf(kind, class))
<1> DEFINE inClass == IF class = 0 THEN 0..(2 ^ Bits - 1) ELSE Addresses(NetworkClasses[class])
           P == PrivateNetworks
           E == ExcludedNetworks
<1>1. /\ P \in Seq(Block) /\ E \in Seq(Block) /\ NetworkClasses \in Seq(Block)
  BY NetworkAssumption
<1>2. Len(NetworkClasses) \in Nat /\ \A i \in 1..Len(NetworkClasses) : NetworkClasses[i] \in Block
  BY <1>1, LenProperties
<1>3. CASE kind = "all"
  <2> DEFINE first == IF class = 0 THEN [addr |-> 0, prefix |-> 0] ELSE NetworkClasses[class]
  <2>1. first \in Block /\ Addresses(first) = inClass
    <3>1. CASE class = 0
      BY <3>1, Everything
    <3>2. CASE class # 0
      BY <1>2, <3>2 DEF WantedOK
    <3> QED
      BY <3>1, <3>2
  <2>2. Pool(kind, class) = ExcludeNetworks(<<first>>, E)
    BY <1>3 DEF Pool
  <2>3. EligibleOf(kind, class) = inClass \ AddressesOf(E)
    BY <1>3 DEF EligibleOf
  <2> HIDE DEF first, inClass, E
  <2>4. Tiles(<<first>>, inClass)
    BY <2>1, TilesOne
  <2> QED
    BY <1>1, <2>2, <2>3, <2>4, ExcludeNetworksTiles
<1>4. CASE kind # "all"
  <2>1. class \in 1..Len(NetworkClasses) /\ class # 0
    BY <1>2, <1>4 DEF WantedOK
  <2> DEFINE net == NetworkClasses[class]
  <2>2. net \in Block /\ inClass = Addresses(net)
    BY <1>2, <2>1
  <2>3. CASE kind = "private"
    <3> DEFINE first == Among(P, {m \in Net : Overlaps(m, net)})
    <3>1. Pool(kind, class) = ExcludeNetworks(first, E)
      BY <2>1, <2>3 DEF Pool
    <3>2. EligibleOf(kind, class) = (Addresses(net) \cap AddressesOf(P)) \ AddressesOf(E)
      BY <2>1, <2>3 DEF EligibleOf
    <3>3. Tiles(first, Addresses(net) \cap AddressesOf(P))
      BY <2>1, PrivateTiles
    <3> HIDE DEF first, net, E, P
    <3> QED
      BY <1>1, <3>1, <3>2, <3>3, ExcludeNetworksTiles
  <2>4. CASE kind = "public"
    <3>1. Pool(kind, class) = ExcludeNetworks(<<net>>, P \o E)
      BY <2>1, <2>4 DEF Pool
    <3>2. EligibleOf(kind, class) = (Addresses(net) \ AddressesOf(P)) \ AddressesOf(E)
      BY <2>1, <2>4 DEF EligibleOf
    <3>3. P \o E \in Seq(Block) /\ Elements(P \o E) = Elements(P) \cup Elements(E)
      BY <1>1, Concatenated, ConcatenatedElements
    <3>4. AddressesOf(P \o E) = AddressesOf(P) \cup AddressesOf(E)
      BY <3>3, ElementAddresses
    <3>5. EligibleOf(kind, class) = Addresses(net) \ AddressesOf(P \o E)
      BY <3>2, <3>4
    <3> DEFINE reserved == P \o E
               first == <<net>>
    <3>6. Tiles(first, Addresses(net))
      BY <2>2, TilesOne
    <3>7. /\ reserved \in Seq(Block) /\ Pool(kind, class) = ExcludeNetworks(first, reserved)
          /\ EligibleOf(kind, class) = Addresses(net) \ AddressesOf(reserved)
      BY <3>1, <3>3, <3>5
    <3> HIDE DEF net, reserved, first
    <3> QED
      BY <3>6, <3>7, ExcludeNetworksTiles
  <2> QED
    BY <1>4, <2>3, <2>4 DEF WantedOK
<1> QED
  BY <1>3, <1>4

-----------------------------------------------------------------------------
(* Draws                                                                   *)

\* The size of it is the number of addresses.
LEMMA AllSizes == SizeAt(0) = 2 ^ Bits /\ SizeAt(0) \in Nat \ {0}
<1>1. 0 \in 0..Bits /\ Bits - 0 = Bits
  BY NetworkAssumption
<1> QED
  BY <1>1, BlockSizes DEF SizeAt

\* The sizes of a pool are weights, none of them zero.
LEMMA PoolWeights ==
  ASSUME NEW nets \in Seq(Block)
  PROVE  /\ Len(nets) \in Nat /\ SoundWeights(SizesOf(nets), Len(nets))
         /\ \A i \in 1..Len(nets) : nets[i] \in Block /\ SizesOf(nets)[i] = Size(nets[i])
<1>1. Len(nets) \in Nat /\ \A i \in 1..Len(nets) : nets[i] \in Block
  BY LenProperties
<1>2. \A i \in 1..Len(nets) : SizesOf(nets)[i] = Size(nets[i]) /\ Size(nets[i]) \in Nat
  BY <1>1, BlockShape DEF SizesOf
<1>3. SizesOf(nets) \in [1..Len(nets) -> Nat]
  <2>1. \A i \in 1..Len(nets) : Size(nets[i]) \in Nat
    BY <1>2
  <2> QED
    BY <2>1 DEF SizesOf
<1>4. Len(SizesOf(nets)) = Len(nets)
  BY <1>1, <1>3, FunctionIsSequence
<1> QED
  BY <1>1, <1>2, <1>4 DEF SoundWeights

\* Where a draw falls.
LEMMA DrawPlace ==
  ASSUME NEW nets \in Seq(Block), NEW d \in Nat, d < TotalWeight(SizesOf(nets))
  PROVE  \E i \in 1..Len(nets) :
           /\ Drawn(nets, d).net = nets[i]
           /\ Drawn(nets, d).addr = nets[i].addr + (d - Cumulative(SizesOf(nets))[i - 1])
           /\ Drawn(nets, d).addr \in Addresses(nets[i])
<1> DEFINE n == Len(nets)
           w == SizesOf(nets)
           C == Cumulative(w)
           i == Bisect(C, n, d)
<1>1. /\ n \in Nat /\ SoundWeights(w, n)
      /\ \A k \in 1..n : nets[k] \in Block /\ w[k] = Size(nets[k])
  BY PoolWeights
<1>2. /\ C \in [0..n -> Nat] /\ C[0] = 0
      /\ \A k \in 1..n : C[k] = C[k - 1] + w[k]
      /\ \A k, j \in 0..n : k <= j => C[k] <= C[j]
      /\ TotalWeight(w) = C[n]
  <2> HIDE DEF w, n
  <2> QED
    BY <1>1, SoundTotals
<1>3. i \in 1..n /\ C[i - 1] <= d /\ d < C[i]
  <2>1. d < C[n]
    BY <1>2
  <2> HIDE DEF C, n, w
  <2> QED
    BY <1>1, <1>2, <2>1, BisectPlace
<1>4. Drawn(nets, d) = [net |-> nets[i], addr |-> (nets[i].addr + (d - C[i - 1])) % 2 ^ Bits]
  BY DEF Drawn
<1> HIDE DEF C, i, w, n
<1>5. nets[i] \in Block /\ w[i] = Size(nets[i]) /\ C[i] = C[i - 1] + w[i] /\ i - 1 \in 0..n
  BY <1>1, <1>2, <1>3
<1>6. PICK a \in Nat, s \in Nat \ {0} : a = nets[i].addr /\ s = Size(nets[i])
  BY <1>5, BlockShape
<1>7. PICK t \in Nat : t = C[i - 1] /\ t <= d /\ d < t + s
  BY <1>2, <1>3, <1>5, <1>6
<1>8. PICK m \in Nat \ {0} : m = 2 ^ Bits /\ a + s - 1 < m
  <2>1. SizeAt(0) = 2 ^ Bits /\ SizeAt(0) \in Nat \ {0}
    BY AllSizes
  <2>2. a + s - 1 < SizeAt(0)
    BY <1>5, <1>6, BlockFits DEF LastOf
  <2> QED
    BY <2>1, <2>2
<1>9. a + (d - t) \in a..(a + s - 1) /\ (a + (d - t)) % m = a + (d - t)
  <2>1. PICK x \in Nat : x = a + (d - t) /\ a <= x /\ x <= a + s - 1 /\ x < m
    <3>1. a + (d - t) \in Nat /\ a <= a + (d - t) /\ a + (d - t) <= a + s - 1
      BY <1>7
    <3> QED
      BY <1>8, <3>1
  <2>2. x % m = x
    BY <2>1, SmallRest, Zenon
  <2> QED
    BY <2>1, <2>2
<1>10. Drawn(nets, d).net = nets[i] /\ Drawn(nets, d).addr = a + (d - t)
  BY <1>4, <1>6, <1>7, <1>8, <1>9
<1>11. Addresses(nets[i]) = a..(a + s - 1)
  BY <1>6 DEF Addresses, LastOf
<1>12. i \in 1..Len(nets) /\ t = Cumulative(SizesOf(nets))[i - 1]
  BY <1>3, <1>7 DEF n, C, w
<1> QED
  BY <1>6, <1>9, <1>10, <1>11, <1>12

\* Every address of the pool answers to one draw.
LEMMA DrawsExact ==
  ASSUME NEW nets, NEW A, Tiles(nets, A)
  PROVE  /\ TotalWeight(SizesOf(nets)) \in Nat
         /\ TotalWeight(SizesOf(nets)) = Cardinality(A) /\ IsFiniteSet(A)
         /\ {Drawn(nets, d).addr : d \in 0..(TotalWeight(SizesOf(nets)) - 1)} = A
<1> DEFINE n == Len(nets)
           w == SizesOf(nets)
           C == Cumulative(w)
           total == TotalWeight(w)
           g == [d \in 0..(total - 1) |-> Drawn(nets, d).addr]
<1>1. /\ nets \in Seq(Block) /\ A = AddressesOf(nets)
      /\ \A i, j \in 1..n : i # j => Addresses(nets[i]) \cap Addresses(nets[j]) = {}
  BY DEF Tiles
<1>2. /\ n \in Nat /\ SoundWeights(w, n)
      /\ \A k \in 1..n : nets[k] \in Block /\ w[k] = Size(nets[k])
  BY <1>1, PoolWeights
<1>3. /\ C \in [0..n -> Nat]
      /\ \A k \in 1..n : C[k] = C[k - 1] + w[k]
      /\ \A k, j \in 0..n : k <= j => C[k] <= C[j]
      /\ total = C[n] /\ total \in Nat
  <2> HIDE DEF w, n
  <2> QED
    BY <1>2, SoundTotals
<1>4. \A d \in 0..(total - 1) : \E i \in 1..n :
        g[d] = nets[i].addr + (d - C[i - 1]) /\ g[d] \in Addresses(nets[i])
  <2> SUFFICES ASSUME NEW d \in 0..(total - 1)
               PROVE  \E i \in 1..n :
                        g[d] = nets[i].addr + (d - C[i - 1]) /\ g[d] \in Addresses(nets[i])
    OBVIOUS
  <2>1. d \in Nat /\ d < total /\ g[d] = Drawn(nets, d).addr
    BY <1>3
  <2> HIDE DEF g
  <2> QED
    BY <1>1, <2>1, DrawPlace, Zenon
<1>5. {Drawn(nets, d).addr : d \in 0..(total - 1)} = {g[d] : d \in 0..(total - 1)}
  <2> HIDE DEF total
  <2> QED
    OBVIOUS
<1>6. \A x \in A : \E d \in 0..(total - 1) : g[d] = x
  <2> SUFFICES ASSUME NEW x \in A PROVE \E d \in 0..(total - 1) : g[d] = x
    OBVIOUS
  <2>1. PICK k \in 1..n : x \in Addresses(nets[k])
    BY <1>1 DEF AddressesOf
  <2>2. PICK a \in Nat, s \in Nat \ {0} : a = nets[k].addr /\ s = Size(nets[k]) /\ s = w[k]
    BY <1>2, BlockShape
  <2>3. x \in a..(a + s - 1)
    BY <2>1, <2>2 DEF Addresses, LastOf
  <2>4. PICK t \in Nat : t = C[k - 1] /\ C[k] = t + s /\ C[k] <= total
    <3>1. k - 1 \in 0..n /\ k \in 0..n /\ n \in 0..n /\ k <= n
      BY <1>2
    <3> HIDE DEF C, total, n, w
    <3> QED
      BY <1>3, <2>2, <3>1
  <2>5. PICK d \in Nat : d = t + (x - a) /\ t <= d /\ d < t + s
    BY <2>3
  <2>6. d \in 0..(total - 1) /\ d < total
    BY <1>3, <2>4, <2>5
  <2>7. Bisect(C, n, d) = k
    <3>1. C[k - 1] <= d /\ d < C[k - 1] + w[k]
      BY <2>2, <2>4, <2>5
    <3> HIDE DEF w, n
    <3> QED
      BY <1>2, <2>6, <3>1, BisectDraw
  <2>8. Drawn(nets, d).addr = (a + (d - t)) % 2 ^ Bits
    BY <2>2, <2>4, <2>7 DEF Drawn
  <2>9. PICK m \in Nat \ {0} : m = 2 ^ Bits /\ a + s - 1 < m
    <3>1. SizeAt(0) = 2 ^ Bits /\ SizeAt(0) \in Nat \ {0}
      BY AllSizes
    <3>2. a + s - 1 < SizeAt(0)
      BY <1>2, <2>2, BlockFits DEF LastOf
    <3> QED
      BY <3>1, <3>2
  <2>10. a + (d - t) = x /\ x % m = x
    BY <2>3, <2>5, <2>9
  <2>11. g[d] = Drawn(nets, d).addr
    BY <2>6
  <2>12. g[d] = x
    BY <2>8, <2>9, <2>10, <2>11
  <2> QED
    BY <2>6, <2>12
<1> HIDE DEF g, C, total, w
<1>7. \A d \in 0..(total - 1) : g[d] \in A
  BY <1>1, <1>4 DEF AddressesOf
<1>8. ASSUME NEW d \in 0..(total - 1), NEW e \in 0..(total - 1), g[d] = g[e] PROVE d = e
  <2>1. PICK i \in 1..n : g[d] = nets[i].addr + (d - C[i - 1]) /\ g[d] \in Addresses(nets[i])
    BY <1>4
  <2>2. PICK j \in 1..n : g[e] = nets[j].addr + (e - C[j - 1]) /\ g[e] \in Addresses(nets[j])
    BY <1>4
  <2>3. i = j
    BY <1>1, <1>8, <2>1, <2>2
  <2>4. PICK a \in Nat : a = nets[i].addr
    BY <1>2, BlockShape
  <2>5. PICK t \in Nat : t = C[i - 1]
    <3>1. i - 1 \in 0..n
      BY <1>2
    <3> HIDE DEF n
    <3> QED
      BY <1>3, <3>1
  <2>6. a + (d - t) = a + (e - t)
    BY <1>8, <2>1, <2>2, <2>3, <2>4, <2>5, Zenon
  <2>7. d \in Int /\ e \in Int
    OBVIOUS
  <2> QED
    BY <2>6, <2>7
<1>9. {g[d] : d \in 0..(total - 1)} = A
  BY <1>6, <1>7
<1>10. IsFiniteSet(0..(total - 1)) /\ Cardinality(0..(total - 1)) = total
  <2>1. PICK last \in Int : last = total - 1 /\ last >= -1 /\ total = last + 1
    BY <1>3
  <2>2. PICK z \in Int : z = 0
    OBVIOUS
  <2>3. IsFiniteSet(z..last) /\ Cardinality(z..last) = IF z > last THEN 0 ELSE last - z + 1
    BY FS_Interval
  <2>4. Cardinality(z..last) = last + 1
    BY <2>1, <2>2, <2>3
  <2> QED
    BY <2>1, <2>2, <2>3, <2>4
<1>11. ExistsBijection(0..(total - 1), A)
  <2>1. g \in [0..(total - 1) -> A]
    BY <1>7 DEF g
  <2>2. g \in Bijection(0..(total - 1), A)
    BY <1>6, <1>8, <2>1, Fun_IsInj, Fun_IsSurj DEF Bijection
  <2> QED
    BY <2>2 DEF ExistsBijection
<1>12. IsFiniteSet(A) /\ Cardinality(A) = total
  BY <1>10, <1>11, FS_Bijection
<1> QED
  BY <1>3, <1>5, <1>9, <1>12 DEF total, w

-----------------------------------------------------------------------------
(* The steps                                                               *)

\* A part of a network that holds one of its addresses.
LEMMA MaskedBlock ==
  ASSUME NEW n \in Block, NEW x \in Addresses(n), NEW p \in (n.prefix)..Bits
  PROVE  LET b == [addr |-> Masked(x, p), prefix |-> p]
         IN  b.addr % Size(b) = 0 /\ Addresses(b) \subseteq Addresses(n)
<1> DEFINE b == [addr |-> Masked(x, p), prefix |-> p]
<1>1. p \in 0..Bits /\ n.prefix <= p /\ x \in Nat /\ x < SizeAt(0)
  <2>1. PICK a \in Nat, z \in Nat, q \in Nat, m \in Nat :
          a = n.addr /\ z = LastOf(n) /\ q = n.prefix /\ m = SizeAt(0) /\ z < m
    <3>1. n.addr \in Nat /\ LastOf(n) \in Nat /\ n.prefix \in 0..Bits /\ LastOf(n) < SizeAt(0)
      BY BlockShape, BlockFits
    <3>2. n.prefix \in Nat /\ SizeAt(0) \in Nat
      BY <3>1, AllSizes, NetworkAssumption
    <3> QED
      BY <3>1, <3>2, Zenon
  <2>2. x \in a..z /\ p \in q..Bits /\ Bits \in Nat
    BY <2>1, NetworkAssumption DEF Addresses
  <2>3. p \in 0..Bits /\ q <= p /\ x \in Nat /\ x < m
    BY <2>1, <2>2
  <2> QED
    BY <2>1, <2>3
<1>2. PICK s \in Nat \ {0} : s = SizeAt(p) /\ s = 2 ^ (Bits - p)
  BY <1>1, BlockSizes DEF SizeAt
<1>3. Size(b) = s
  BY <1>2 DEF Size
<1>4. PICK q \in Nat : q = x \div s
  BY <1>1, Division
<1>5. PICK m \in Nat : m = q * s /\ m <= x /\ x < m + s
  BY <1>1, <1>4, Division
<1>6. x % s = x - m
  <2>1. x % s = x - s * (x \div s) /\ s * q = q * s
    BY <1>1
  <2> QED
    BY <1>4, <1>5, <2>1
<1>7. Masked(x, p) = m
  BY <1>1, <1>2, <1>5, <1>6 DEF Masked
<1>8. m % s = 0
  BY <1>4, <1>5, MultipleRest
<1>9. m \in 0..(2 ^ Bits - 1)
  BY <1>1, <1>5, AllSizes
<1>10. b \in Block
  BY <1>1, <1>3, <1>7, <1>8, <1>9 DEF Block, Net
<1>11. x \in Addresses(b)
  BY <1>1, <1>3, <1>5, <1>7 DEF Addresses, LastOf
<1>12. b.prefix = p
  OBVIOUS
<1> HIDE DEF b
<1>13. Covers(n, b)
  BY <1>1, <1>10, <1>11, <1>12, NestedOrApart
<1>14. Addresses(b) \subseteq Addresses(n) /\ b.addr % Size(b) = 0
  BY <1>10, <1>13, CoversAddresses, BlockShape
<1> QED
  BY <1>14 DEF b

\* There is an eligible address of every kind, in every class.
LEMMA SomeEligible ==
  ASSUME NEW kind, NEW class, WantedOK(kind, class)
  PROVE  EligibleOf(kind, class) # {}
<1>1. NetworkClasses \in Seq(Block) /\ 1..Len(NetworkClasses) # {}
  BY NetworkAssumption, EligibleAssumption
<1>2. Len(NetworkClasses) \in Nat /\ \A i \in 1..Len(NetworkClasses) : NetworkClasses[i] \in Block
  BY <1>1, LenProperties
<1>3. CASE kind # "all"
  BY <1>2, <1>3, EligibleAssumption DEF WantedOK
<1>4. CASE kind = "all"
  <2>1. PICK c \in 1..Len(NetworkClasses) : class # 0 => c = class
    BY <1>1, <1>2 DEF WantedOK
  <2>2. PICK x : x \in EligibleOf("public", c)
    BY EligibleAssumption
  <2>3. c # 0 /\ "public" # "all" /\ "public" # "private"
    BY <1>2
  <2>4. x \in Addresses(NetworkClasses[c]) /\ x \notin AddressesOf(ExcludedNetworks)
    BY <2>2, <2>3 DEF EligibleOf
  <2>5. x \in 0..(2 ^ Bits - 1)
    BY <1>2, <2>4, BlockShape, BlockFits, AllSizes DEF Addresses
  <2>6. x \in EligibleOf("all", class)
    BY <2>1, <2>4, <2>5 DEF EligibleOf
  <2> QED
    BY <1>4, <2>6
<1> QED
  BY <1>3, <1>4

\* What an address or a network that is returned comes to.
ResultOK(net, kind, class) ==
  net.addr % Size(net) = 0 /\ Addresses(net) \subseteq EligibleOf(kind, class)

\* The kind and class of a call under way are ones that a pool is made for, and
\* its result is eligible.
NetInv ==
  /\ addressing \in {"idle", "asked", "done"}
  /\ addressing \in {"asked", "done"} => WantedOK(wanted.kind, wanted.class)
  /\ addressing = "done" => ResultOK(address, wanted.kind, wanted.class)

\* NetInv holds at first, ...
LEMMA InitNet == NetInit => NetInv
BY DEF NetInit, NetInv

\* ... a call asks for a class there is, ...
LEMMA AskStep ==
  ASSUME NetInv, NEW kind \in {"all", "private", "public"}, NEW class \in 0..Len(NetworkClasses),
         NEW network \in BOOLEAN, AskAddress(kind, class, network)
  PROVE  NetInv'
<1>1. Len(NetworkClasses) \in Nat
  BY NetworkAssumption, LenProperties
<1>2. PICK c \in IF class = 0 /\ kind # "all" THEN 1..Len(NetworkClasses) ELSE {class} :
        wanted' = [kind |-> kind, class |-> c, network |-> network]
  BY DEF AskAddress
<1>3. WantedOK(kind, c)
  BY <1>1, <1>2 DEF WantedOK
<1>4. wanted'.kind = kind /\ wanted'.class = c /\ addressing' = "asked"
  BY <1>2 DEF AskAddress
<1>5. WantedOK(wanted'.kind, wanted'.class)
  BY <1>3, <1>4
<1> QED
  BY <1>4, <1>5 DEF NetInv

\* ... a draw gives eligible addresses, ...
LEMMA DrawStep ==
  ASSUME NetInv, NEW draw \in Nat, DrawAddress(draw)
  PROVE  NetInv'
<1> DEFINE nets == Pool(wanted.kind, wanted.class)
           A == EligibleOf(wanted.kind, wanted.class)
           total == TotalWeight(SizesOf(nets))
           d == Drawn(nets, draw)
<1>1. addressing = "asked" /\ addressing' = "done" /\ wanted' = wanted
  BY DEF DrawAddress
<1>2. WantedOK(wanted.kind, wanted.class)
  BY <1>1 DEF NetInv
<1>3. Tiles(nets, A) /\ A # {}
  BY <1>2, PoolTiles, SomeEligible
<1>4. total \in Nat /\ total = Cardinality(A) /\ IsFiniteSet(A)
  <2> HIDE DEF nets, A
  <2> QED
    BY <1>3, DrawsExact
<1>5. total # 0
  <2> HIDE DEF total, A
  <2> QED
    BY <1>3, <1>4, FS_EmptySet
<1>6. /\ draw < total
      /\ IF ~wanted.network THEN address' = [addr |-> d.addr, prefix |-> Bits]
         ELSE \E p \in PrefixesIn(d.net) : address' = [addr |-> Masked(d.addr, p), prefix |-> p]
  BY <1>5 DEF DrawAddress
<1>7. nets \in Seq(Block)
  BY <1>3 DEF Tiles
<1> HIDE DEF nets, A
<1>8. PICK i \in 1..Len(nets) : d.net = nets[i] /\ d.addr \in Addresses(nets[i])
  BY <1>6, <1>7, DrawPlace
<1>9. nets[i] \in Block /\ Addresses(nets[i]) \subseteq A
  BY <1>3, <1>7, <1>8, LenProperties DEF Tiles, AddressesOf
<1> HIDE DEF d
<1>10. PICK p \in (nets[i].prefix)..Bits : address' = [addr |-> Masked(d.addr, p), prefix |-> p]
  <2>1. CASE wanted.network
    BY <1>6, <1>8, <2>1 DEF PrefixesIn
  <2>2. CASE ~wanted.network
    <3>1. Bits \in (nets[i].prefix)..Bits /\ Bits \in 0..Bits
      BY <1>9, BlockShape, NetworkAssumption
    <3>2. d.addr \in Int
      BY <1>8, <1>9, BlockShape DEF Addresses
    <3>3. 2 ^ (Bits - Bits) = 1
      BY <3>1, BlockSizes DEF SizeAt
    <3>4. Masked(d.addr, Bits) = d.addr
      BY <3>2, <3>3 DEF Masked
    <3> QED
      BY <1>6, <2>2, <3>1, <3>4
  <2> QED
    BY <2>1, <2>2
<1>11. address'.addr % Size(address') = 0 /\ Addresses(address') \subseteq Addresses(nets[i])
  BY <1>8, <1>9, <1>10, MaskedBlock
<1>12. ResultOK(address', wanted'.kind, wanted'.class)
  BY <1>1, <1>9, <1>11 DEF ResultOK, A
<1> QED
  BY <1>1, <1>2, <1>12 DEF NetInv

\* ... and so NetInv is inductive.
LEMMA NextNet == NetInv /\ [NetNext]_netVars => NetInv'
<1> SUFFICES ASSUME NetInv, [NetNext]_netVars PROVE NetInv'
  OBVIOUS
<1>1. ASSUME NEW kind \in {"all", "private", "public"}, NEW class \in 0..Len(NetworkClasses),
             NEW network \in BOOLEAN, AskAddress(kind, class, network)
      PROVE  NetInv'
  BY <1>1, AskStep
<1>2. ASSUME NEW draw \in 0..(2 ^ Bits - 1), DrawAddress(draw) PROVE NetInv'
  <2>1. draw \in Nat
    BY AllSizes
  <2> QED
    BY <1>2, <2>1, DrawStep
<1>3. CASE GotAddress
  BY <1>3 DEF GotAddress, NetInv
<1>4. CASE UNCHANGED netVars
  BY <1>4 DEF netVars, NetInv
<1> QED
  BY <1>1, <1>2, <1>3, <1>4 DEF NetNext

\* What is asked for exists, so that its pool is not empty, and what was drawn is
\* eligible (internet.rs:399-457).
THEOREM NetInvariant == NetSpec => []NetInv
<1> QED
  BY InitNet, NextNet, PTL DEF NetSpec

\* Every eligible address of the kind and class of a call has one draw, and no
\* other address has any, for all tables and widths.
THEOREM PoolTheorem == NetSpec => []PoolExact
<1>1. NetInv => PoolExact
  <2> SUFFICES ASSUME NetInv, addressing = "asked"
               PROVE  LET nets == Pool(wanted.kind, wanted.class)
                          total == TotalWeight(SizesOf(nets))
                      IN /\ total = Cardinality(EligibleAddresses)
                         /\ {Drawn(nets, draw).addr : draw \in 0..(total - 1)} = EligibleAddresses
    BY DEF PoolExact
  <2>1. WantedOK(wanted.kind, wanted.class)
    BY DEF NetInv
  <2>2. Tiles(Pool(wanted.kind, wanted.class), EligibleAddresses)
    BY <2>1, PoolTiles DEF EligibleAddresses
  <2> QED
    BY <2>2, DrawsExact
<1> QED
  BY <1>1, NetInvariant, PTL

\* An address or a network that is returned is eligible in all its addresses.
THEOREM EligibleTheorem == NetSpec => []NetworkEligible
<1>1. NetInv => NetworkEligible
  BY DEF NetInv, NetworkEligible, ResultOK, EligibleAddresses
<1> QED
  BY <1>1, NetInvariant, PTL

-----------------------------------------------------------------------------
(* Names that nested templates write, for any templates of these shapes      *)

Marks == STRING \cup {Blank, "A", "a", "1", "-", ".", "/", ":", "@"}
Known == DOMAIN LeafTexts \cup Composites
Pieces == {Say(c) : c \in Seq(Marks)} \cup {Token(g) : g \in Known} \cup {Clear}

\* So many labels, each with its dot.
Dotted(s, n) ==
  IF n = 0 THEN s = <<>>
  ELSE s # <<>> /\ s[Len(s)] = "." /\ HostLike(SubSeq(s, 1, Len(s) - 1), {n - 1})

\* What a slug makes of a user name.
LocalLike(s) == s # <<>> /\ \A i \in 1..Len(s) : s[i] \in {"a", "1", "-"}

\* What a formatter that is called for one of the others writes.
Wrote(g, x) ==
  /\ x \in Seq(Marks)
  /\ g \in {"tld", "hostname_prefix", "domain_word"} => HostLike(x, {0})
  /\ g \in {"domain_name", "free_email_domain", "safe_domain_name"} => HostLike(x, {1})
  /\ g = "company" => Worded(x)
  /\ g = "user_name" => LocalLike(x)
  /\ g \in DOMAIN LeafTexts => x \in LeafTexts[g]

\* What s is when the first p segments of t are written, by formatter.
NameSoFar(t, p, s) ==
  IF p = 0 THEN s = <<>>
  ELSE /\ s # <<>> /\ s[1] \in LettersDigits
       /\ \A i \in 1..Len(s) : s[i] = "-" =>
            IF i < Len(s) THEN s[i + 1] \in LettersDigits ELSE p < Len(t) /\ t[p + 1].op = "token"

UserSoFar(t, p, s) == Lasts(s) \/ \E k \in (p + 1)..Len(t) : Lasting(t[k])

\* Labels after so many dots.
DomainSoFar(p, s, dots) ==
  \E j \in 0..p : \/ p = 2 * j /\ Dotted(s, j + dots)
                  \/ p = 2 * j + 1 /\ HostLike(s, {j + dots})

HostSoFar(p, s) ==
  /\ p = 0 => s = <<>>
  /\ p \in {1, 2} => HostLike(s, {0})
  /\ p > 2 => DomainSoFar(p - 3, s, 1)

MailSoFar(p, s) ==
  /\ p = 0 => s = <<>>
  /\ p = 1 => LocalLike(s)
  /\ p = 2 => s # <<>> /\ s[Len(s)] = "@" /\ LocalLike(SubSeq(s, 1, Len(s) - 1))
  /\ p = 3 => MailLike(s)

Rooted(scheme) == scheme \o <<":", "/", "/">>
After(scheme, s) == SubSeq(s, Len(scheme) + 4, Len(s))
UrlHost(b, p, h) ==
  IF p = Len(b) - 1 THEN HostLike(h, {Len(b) - 2}) ELSE Dotted(h, p - 1)
UrlSoFar(b, p, s) ==
  IF p = 0 THEN s = <<>>
  ELSE IF p >= Len(b) THEN UrlLike(s)
  ELSE \E scheme \in {<<"a">>, <<>>} :
         s = Rooted(scheme) \o After(scheme, s) /\ UrlHost(b, p, After(scheme, s))

Begins(b, t) == Len(b) <= Len(t) /\ SubSeq(t, 1, Len(b)) = b

Shape(f, t, p, s) ==
  /\ s \in Seq(Marks)
  /\ f = "domain_word" => IF p = 0 THEN s = <<>> ELSE Worded(s)
  /\ f = "company" => NameSoFar(t, p, s)
  /\ f = "user_name" => UserSoFar(t, p, s)
  /\ f = "domain_name" => DomainSoFar(p, s, 0)
  /\ f = "hostname" => HostSoFar(p, s)
  /\ f \in {"safe_email", "free_email", "company_email"} => MailSoFar(p, s)
  /\ f = "email" /\ p >= 3 => MailSoFar(p - 3, s)
  /\ f \in {"url", "uri"} => \E b \in UrlBase : Begins(b, t) /\ UrlSoFar(b, p, s)

\* A formatter that goes on, and one that waits for another.
Ready(frame, n) ==
  \E t \in Contents(frame.f, n) : \E p \in 0..Len(t) :
    frame.todo = SubSeq(t, p + 1, Len(t)) /\ Shape(frame.f, t, p, frame.text)
Waits(frame, n, g) ==
  \E t \in Contents(frame.f, n) : \E p \in 0..(Len(t) - 1) :
    /\ t[p + 1] = Token(g) /\ frame.todo = SubSeq(t, p + 2, Len(t))
    /\ Shape(frame.f, t, p, frame.text)

Frames == [f : Composites, todo : Seq(Pieces), text : Seq(Marks)]

\* The frames fs of a request q: only the outermost was asked for its levels.
LevelOf(fs, q, k) == IF k = Len(fs) THEN q.n ELSE 1
Stacked(fs, q) ==
  /\ fs \in Seq(Frames) /\ fs # <<>> /\ q.n \in Int
  /\ fs[Len(fs)].f = q.f
  /\ Ready(fs[1], LevelOf(fs, q, 1))
  /\ \A k \in 2..Len(fs) : Waits(fs[k], LevelOf(fs, q, k), fs[k - 1].f)

RenderInv ==
  /\ NamesWellFormed
  /\ rendering = "rendering" =>
       Stacked(frames, renderRequest) /\ (renderRequest.f = "domain_name" => renderRequest.n >= 1)

-----------------------------------------------------------------------------
(* Texts one after the other                                               *)

LEMMA Joined ==
  ASSUME NEW S, NEW s \in Seq(S), NEW r \in Seq(S)
  PROVE  /\ s \o r \in Seq(S) /\ Len(s \o r) = Len(s) + Len(r)
         /\ \A i \in 1..Len(s) : (s \o r)[i] = s[i]
         /\ \A i \in 1..Len(r) : (s \o r)[Len(s) + i] = r[i]
         /\ \A i \in 1..Len(s \o r) : i \in 1..Len(s) \/ i - Len(s) \in 1..Len(r)
<1>1. Len(s) \in Nat /\ Len(r) \in Nat
  OBVIOUS
<1>2. ASSUME NEW i \in 1..Len(r) PROVE (s \o r)[Len(s) + i] = r[i]
  <2>1. Len(s) + i \in 1..(Len(s) + Len(r)) /\ ~(Len(s) + i <= Len(s)) /\ Len(s) + i - Len(s) = i
    BY <1>1
  <2> QED
    BY <2>1, ConcatProperties
<1>3. ASSUME NEW i \in 1..Len(s) PROVE (s \o r)[i] = s[i]
  <2>1. i \in 1..(Len(s) + Len(r)) /\ i <= Len(s)
    BY <1>1
  <2> QED
    BY <2>1, ConcatProperties
<1>4. s \o r \in Seq(S) /\ Len(s \o r) = Len(s) + Len(r)
  BY ConcatProperties
<1> QED
  BY <1>1, <1>2, <1>3, <1>4

LEMMA Prefix ==
  ASSUME NEW S, NEW s \in Seq(S), NEW n \in 0..Len(s)
  PROVE  /\ SubSeq(s, 1, n) \in Seq(S) /\ Len(SubSeq(s, 1, n)) = n
         /\ \A i \in 1..n : SubSeq(s, 1, n)[i] = s[i]
<1>1. \A i \in 1..n : s[i] \in S
  OBVIOUS
<1> QED
  BY <1>1, SubSeqProperties

LEMMA SameSequence ==
  ASSUME NEW S, NEW s \in Seq(S), NEW r \in Seq(S), Len(s) = Len(r),
         \A i \in 1..Len(s) : s[i] = r[i]
  PROVE  s = r
OBVIOUS

\* What follows s in s \o r is r.
LEMMA Behind ==
  ASSUME NEW S, NEW s \in Seq(S), NEW r \in Seq(S)
  PROVE  /\ SubSeq(s \o r, Len(s) + 1, Len(s \o r)) = r
         /\ SubSeq(s \o r, 1, Len(s)) = s
<1> DEFINE q == s \o r
<1>1. /\ q \in Seq(S) /\ Len(q) = Len(s) + Len(r) /\ Len(s) \in Nat /\ Len(r) \in Nat
      /\ \A i \in 1..Len(s) : q[i] = s[i]
      /\ \A i \in 1..Len(r) : q[Len(s) + i] = r[i]
  BY Joined
<1> HIDE DEF q
<1>2. \A i \in 1..Len(q) : q[i] \in S
  BY <1>1
<1>3. \A i \in (Len(s) + 1)..Len(q) : q[i] \in S
  BY <1>1, <1>2
<1>4. /\ SubSeq(q, Len(s) + 1, Len(q)) \in Seq(S)
      /\ Len(SubSeq(q, Len(s) + 1, Len(q))) = Len(r)
      /\ \A i \in 1..Len(r) : SubSeq(q, Len(s) + 1, Len(q))[i] = q[Len(s) + i]
  <2>1. Len(q) \in Int /\ Len(s) + 1 \in Int /\ Len(q) - (Len(s) + 1) + 1 = Len(r)
    BY <1>1
  <2>2. \A i \in 1..Len(r) : Len(s) + 1 + i - 1 = Len(s) + i
    BY <1>1
  <2>3. IF Len(s) + 1 <= Len(q) THEN TRUE ELSE Len(r) = 0
    BY <1>1
  <2> QED
    BY <1>3, <2>1, <2>2, <2>3, SubSeqProperties
<1>5. SubSeq(q, Len(s) + 1, Len(q)) = r
  BY <1>1, <1>4, SameSequence
<1>6. Len(s) \in 0..Len(q)
  BY <1>1
<1>7. SubSeq(q, 1, Len(s)) = s
  <2>1. /\ SubSeq(q, 1, Len(s)) \in Seq(S) /\ Len(SubSeq(q, 1, Len(s))) = Len(s)
        /\ \A i \in 1..Len(s) : SubSeq(q, 1, Len(s))[i] = q[i]
    BY <1>1, <1>6, Prefix
  <2> QED
    BY <1>1, <2>1, SameSequence
<1> QED
  BY <1>5, <1>7 DEF q

Dots(s) == {i \in 1..Len(s) : s[i] = "."}

LEMMA Shifted ==
  ASSUME NEW k \in Nat, NEW T \in SUBSET Nat, IsFiniteSet(T)
  PROVE  IsFiniteSet({k + i : i \in T}) /\ Cardinality({k + i : i \in T}) = Cardinality(T)
<1> DEFINE U == {k + i : i \in T}
           f == [i \in T |-> k + i]
<1>1. \A i, j \in T : k + i = k + j => i = j
  OBVIOUS
<1>2. f \in [T -> U] /\ (\A u \in U : \E i \in T : f[i] = u)
  OBVIOUS
<1>3. \A i, j \in T : f[i] = f[j] => i = j
  BY <1>1
<1>4. f \in Bijection(T, U)
  <2> HIDE DEF f, U
  <2> QED
    BY <1>2, <1>3, Fun_IsInj, Fun_IsSurj DEF Bijection
<1>5. ExistsBijection(T, U)
  <2> HIDE DEF f, U
  <2> QED
    BY <1>4 DEF ExistsBijection
<1> HIDE DEF U
<1>6. IsFiniteSet(U) /\ Cardinality(U) = Cardinality(T)
  BY <1>5, FS_Bijection
<1> QED
  BY <1>6 DEF U

LEMMA DotsFinite ==
  ASSUME NEW s \in Seq(Marks)
  PROVE  IsFiniteSet(Dots(s)) /\ Dots(s) \in SUBSET Nat /\ Cardinality(Dots(s)) \in Nat
<1>1. Len(s) \in Nat /\ Dots(s) \subseteq 1..Len(s)
  BY DEF Dots
<1>2. IsFiniteSet(1..Len(s))
  BY <1>1, FS_Interval
<1>3. IsFiniteSet(Dots(s))
  BY <1>1, <1>2, FS_Subset
<1> QED
  BY <1>1, <1>3, FS_CardinalityType

LEMMA DotsJoined ==
  ASSUME NEW s \in Seq(Marks), NEW r \in Seq(Marks)
  PROVE  Cardinality(Dots(s \o r)) = Cardinality(Dots(s)) + Cardinality(Dots(r))
<1> DEFINE q == s \o r
           U == {Len(s) + i : i \in Dots(r)}
<1>1. /\ q \in Seq(Marks) /\ Len(q) = Len(s) + Len(r) /\ Len(s) \in Nat /\ Len(r) \in Nat
      /\ \A i \in 1..Len(s) : q[i] = s[i]
      /\ \A i \in 1..Len(r) : q[Len(s) + i] = r[i]
      /\ \A i \in 1..Len(q) : i \in 1..Len(s) \/ i - Len(s) \in 1..Len(r)
  BY Joined
<1> HIDE DEF q
<1>2. ASSUME NEW i \in Dots(q) PROVE i \in Dots(s) \cup U
  <2>1. i \in 1..Len(q) /\ q[i] = "."
    BY DEF Dots
  <2>2. CASE i \in 1..Len(s)
    BY <1>1, <2>1, <2>2 DEF Dots
  <2>3. CASE i - Len(s) \in 1..Len(r)
    <3>0. i \in Int /\ Len(s) \in Nat /\ Len(r) \in Nat
      BY <1>1, <2>1
    <3> DEFINE j == i - Len(s)
    <3>1. j \in 1..Len(r) /\ i = Len(s) + j
      BY ONLY <2>3, <3>0
    <3> HIDE DEF j
    <3>2. j \in Dots(r)
      BY <1>1, <2>1, <3>1 DEF Dots
    <3> QED
      BY <3>1, <3>2
  <2> QED
    BY <1>1, <2>1, <2>2, <2>3
<1>3. Dots(s) \subseteq Dots(q)
  BY <1>1 DEF Dots
<1>4. U \subseteq Dots(q)
  <2> SUFFICES ASSUME NEW j \in Dots(r) PROVE Len(s) + j \in Dots(q)
    OBVIOUS
  <2>1. j \in 1..Len(r) /\ r[j] = "."
    BY DEF Dots
  <2>2. Len(s) + j \in 1..Len(q) /\ q[Len(s) + j] = "."
    BY <1>1, <2>1
  <2> QED
    BY <2>2 DEF Dots
<1>5. Dots(s) \cap U = {}
  BY <1>1 DEF Dots
<1>6. /\ IsFiniteSet(Dots(s)) /\ IsFiniteSet(Dots(r)) /\ Dots(r) \in SUBSET Nat
      /\ Cardinality(Dots(s)) \in Nat /\ Cardinality(Dots(r)) \in Nat
  BY DotsFinite
<1>7. IsFiniteSet(U) /\ Cardinality(U) = Cardinality(Dots(r))
  BY <1>1, <1>6, Shifted
<1> HIDE DEF U
<1>8. Dots(q) = Dots(s) \cup U
  BY <1>2, <1>3, <1>4
<1>9. Cardinality(Dots(s) \cup U) = Cardinality(Dots(s)) + Cardinality(U) - Cardinality(Dots(s) \cap U)
  BY <1>6, <1>7, FS_Union
<1>10. Cardinality({}) = 0
  BY FS_EmptySet
<1>11. Cardinality(Dots(q)) = Cardinality(Dots(s)) + Cardinality(Dots(r)) - 0
  BY <1>5, <1>7, <1>8, <1>9, <1>10
<1>12. Cardinality(Dots(q)) = Cardinality(Dots(s)) + Cardinality(Dots(r))
  BY <1>6, <1>11
<1> QED
  BY <1>12 DEF q

\* HostLike for one number of dots, by parts.
LEMMA HostParts ==
  ASSUME NEW s \in Seq(Marks), NEW n
  PROVE  HostLike(s, {n}) <=>
           /\ s # <<>> /\ \A i \in 1..Len(s) : s[i] \in {"a", "1", "-", "."}
           /\ \A i \in 1..Len(s) : s[i] \in {".", "-"} =>
                i # 1 /\ i # Len(s) /\ s[i - 1] # "." /\ s[i + 1] # "."
           /\ Cardinality(Dots(s)) = n
<1>1. Len(s) \in Nat
  OBVIOUS
<1>2. \A i \in 1..Len(s) : i \in 2..(Len(s) - 1) <=> i # 1 /\ i # Len(s)
  BY <1>1
<1>3. \A i \in 1..Len(s) : (s[i] = "." \/ s[i] = "-") <=> s[i] \in {".", "-"}
  OBVIOUS
<1> QED
  BY <1>2, <1>3 DEF HostLike, Dots

LEMMA AfterDot ==
  ASSUME NEW s \in Seq(Marks), NEW n \in Nat, HostLike(s, {n})
  PROVE  s \o <<".">> \in Seq(Marks) /\ Dotted(s \o <<".">>, n + 1)
<1>1. <<".">> \in Seq(Marks) /\ Len(<<".">>) = 1 /\ <<".">>[1] = "."
  BY DEF Marks
<1> DEFINE q == s \o <<".">>
<1>2. /\ q \in Seq(Marks) /\ Len(q) = Len(s) + 1 /\ q[Len(s) + 1] = "."
      /\ SubSeq(q, 1, Len(s)) = s /\ Len(s) \in Nat
  BY <1>1, Joined, Behind
<1> HIDE DEF q
<1>3. q # <<>> /\ Len(q) - 1 = Len(s) /\ q[Len(q)] = "." /\ n + 1 # 0 /\ n + 1 - 1 = n
  BY <1>2
<1>4. HostLike(SubSeq(q, 1, Len(q) - 1), {n + 1 - 1})
  <2>1. SubSeq(q, 1, Len(q) - 1) = s /\ {n + 1 - 1} = {n}
    BY <1>2, <1>3
  <2> QED
    BY <2>1
<1>5. Dotted(q, n + 1)
  BY <1>3, <1>4 DEF Dotted
<1> QED
  BY <1>2, <1>5 DEF q

\* Labels with their dots, and a host after them.
LEMMA HostAfterDot ==
  ASSUME NEW s \in Seq(Marks), NEW r \in Seq(Marks), NEW n \in Nat, NEW m \in Nat,
         Dotted(s, n), HostLike(r, {m})
  PROVE  s \o r \in Seq(Marks) /\ HostLike(s \o r, {n + m})
<1>1. CASE n = 0
  <2>1. s = <<>> /\ s \o r = r /\ n + m = m
    BY <1>1 DEF Dotted
  <2> QED
    BY <2>1
<1>2. CASE n # 0
  <2> DEFINE q == s \o r
             L == Len(s)
             h == SubSeq(s, 1, L - 1)
  <2>1. s # <<>> /\ s[L] = "." /\ HostLike(h, {n - 1})
    BY <1>2 DEF Dotted
  <2>2. L \in Nat /\ L > 0 /\ Len(r) \in Nat
    BY <2>1
  <2>3. h \in Seq(Marks) /\ Len(h) = L - 1 /\ \A i \in 1..(L - 1) : h[i] = s[i]
    <3>1. L - 1 \in 0..Len(s)
      BY <2>2
    <3> QED
      BY <3>1, Prefix
  <2>4. /\ h # <<>> /\ \A i \in 1..Len(h) : h[i] \in {"a", "1", "-", "."}
        /\ \A i \in 1..Len(h) : h[i] \in {".", "-"} =>
             i # 1 /\ i # Len(h) /\ h[i - 1] # "." /\ h[i + 1] # "."
        /\ Cardinality(Dots(h)) = n - 1
    <3> HIDE DEF h, L
    <3> QED
      BY <2>1, <2>3, HostParts
  <2>5. /\ r # <<>> /\ \A i \in 1..Len(r) : r[i] \in {"a", "1", "-", "."}
        /\ \A i \in 1..Len(r) : r[i] \in {".", "-"} =>
             i # 1 /\ i # Len(r) /\ r[i - 1] # "." /\ r[i + 1] # "."
        /\ Cardinality(Dots(r)) = m
    BY HostParts
  <2>6. /\ q \in Seq(Marks) /\ Len(q) = L + Len(r)
        /\ \A i \in 1..L : q[i] = s[i]
        /\ \A i \in 1..Len(r) : q[L + i] = r[i]
        /\ \A i \in 1..Len(q) : i \in 1..L \/ i - L \in 1..Len(r)
    BY Joined
  <2>7. s = h \o <<".">>
    <3> DEFINE p == h \o <<".">>
    <3>1. <<".">> \in Seq(Marks) /\ Len(<<".">>) = 1 /\ <<".">>[1] = "."
      BY DEF Marks
    <3> HIDE DEF h
    <3>2. /\ p \in Seq(Marks) /\ Len(p) = Len(h) + 1 /\ p[Len(h) + 1] = "."
          /\ \A i \in 1..Len(h) : p[i] = h[i]
      BY <2>3, <3>1, Joined
    <3> HIDE DEF p
    <3>3. ASSUME NEW i \in 1..L PROVE s[i] = p[i]
      <4>1. CASE i \in 1..(L - 1)
        <5>1. h[i] = s[i] /\ p[i] = h[i]
          BY <2>3, <3>2, <4>1
        <5> QED
          BY <5>1
      <4>2. CASE i = L
        BY <2>1, <2>2, <2>3, <3>2, <4>2
      <4> QED
        BY <2>2, <4>1, <4>2
    <3>4. Len(p) = Len(s)
      BY <2>2, <2>3, <3>2
    <3>5. s = p
      BY <3>2, <3>3, <3>4, SameSequence
    <3> QED
      BY <3>5 DEF p
  <2> HIDE DEF q, h, L
  <2>13. \A i \in 1..(L - 1) : q[i] = h[i]
    <3>1. \A i \in 1..(L - 1) : i \in 1..L
      BY <2>2
    <3> QED
      BY <2>3, <2>6, <3>1
  <2>14. \A i \in 1..Len(r) : L + i - 1 = L + (i - 1)
    BY <2>2
  <2>8. ASSUME NEW i \in 1..Len(q) PROVE q[i] \in {"a", "1", "-", "."}
    <3>1. CASE i \in 1..(L - 1)
      BY <2>2, <2>3, <2>4, <2>6, <3>1
    <3>2. CASE i = L
      BY <2>1, <2>2, <2>6, <3>2
    <3>3. CASE i - L \in 1..Len(r)
      <4>1. q[L + (i - L)] = r[i - L] /\ L + (i - L) = i
        BY <2>2, <2>6, <3>3
      <4> QED
        BY <2>5, <3>3, <4>1
    <3> QED
      BY <2>2, <2>6, <3>1, <3>2, <3>3
  <2>9. ASSUME NEW i \in 1..Len(q), q[i] \in {".", "-"}
        PROVE  i # 1 /\ i # Len(q) /\ q[i - 1] # "." /\ q[i + 1] # "."
    <3>1. CASE i \in 1..(L - 1)
      <4>1. q[i] = h[i] /\ i \in 1..Len(h)
        BY <2>13, <2>3, <3>1
      <4>2. i # 1 /\ i # L - 1 /\ h[i - 1] # "." /\ h[i + 1] # "."
        BY <2>3, <2>4, <2>9, <4>1
      <4>3. i - 1 \in 1..(L - 1) /\ i + 1 \in 1..(L - 1)
        BY <2>2, <3>1, <4>2
      <4>4. q[i - 1] = h[i - 1] /\ q[i + 1] = h[i + 1]
        BY <2>13, <4>3
      <4> QED
        BY <2>2, <2>5, <2>6, <3>1, <4>2, <4>4
    <3>2. CASE i = L
      <4>1. Len(h) >= 1 /\ Len(h) = L - 1
        BY <2>3, <2>4
      <4>6. L - 1 \in 1..Len(h) /\ L - 1 \in 1..(L - 1)
        BY <2>2, <4>1
      <4>2. q[L - 1] = h[L - 1] /\ L - 1 \in 1..Len(h)
        BY <2>13, <4>6
      <4>3. h[L - 1] # "."
        BY <2>4, <4>1, <4>2
      <4>4. Len(r) >= 1 /\ q[L + 1] = r[1] /\ 1 \in 1..Len(r)
        BY <2>2, <2>5, <2>6
      <4>5. r[1] # "."
        BY <2>5, <4>4
      <4> QED
        BY <2>2, <2>6, <3>2, <4>1, <4>2, <4>3, <4>4, <4>5
    <3>3. CASE i - L \in 1..Len(r)
      <4> DEFINE j == i - L
      <4>1. j \in 1..Len(r) /\ i = L + j
        BY <2>2, <3>3
      <4> HIDE DEF j
      <4>2. q[i] = r[j]
        BY <2>6, <4>1
      <4>3. j # 1 /\ j # Len(r) /\ r[j - 1] # "." /\ r[j + 1] # "."
        BY <2>5, <2>9, <4>1, <4>2
      <4>4. /\ j - 1 \in 1..Len(r) /\ j + 1 \in 1..Len(r)
            /\ L + (j - 1) = i - 1 /\ L + (j + 1) = i + 1
        BY <2>2, <4>1, <4>3
      <4>6. q[L + (j - 1)] = r[j - 1] /\ q[L + (j + 1)] = r[j + 1]
        BY <2>6, <4>4
      <4>5. q[i - 1] = r[j - 1] /\ q[i + 1] = r[j + 1]
        BY <4>4, <4>6
      <4> QED
        BY <2>2, <2>6, <4>1, <4>3, <4>5
    <3> QED
      BY <2>2, <2>6, <3>1, <3>2, <3>3
  <2>10. Cardinality(Dots(q)) = n + m
    <3>1. Dots(<<".">>) = {1}
      BY DEF Dots
    <3>2. Cardinality({1}) = 1
      BY FS_Singleton
    <3>3. <<".">> \in Seq(Marks)
      BY DEF Marks
    <3>6. Cardinality(Dots(h \o <<".">>)) = Cardinality(Dots(h)) + Cardinality(Dots(<<".">>))
      BY <2>3, <3>3, DotsJoined
    <3>4. Cardinality(Dots(s)) = n - 1 + 1
      BY <2>4, <2>7, <3>1, <3>2, <3>6
    <3>5. Cardinality(Dots(q)) = Cardinality(Dots(s)) + Cardinality(Dots(r))
      BY DotsJoined DEF q
    <3> QED
      BY <2>5, <3>4, <3>5
  <2>11. q # <<>>
    BY <2>2, <2>6
  <2>12. HostLike(q, {n + m})
    BY <2>6, <2>8, <2>9, <2>10, <2>11, HostParts
  <2> QED
    BY <2>6, <2>12 DEF q
<1> QED
  BY <1>1, <1>2

\* A label keeps to its shape with a number after it.
LEMMA Numbered ==
  ASSUME NEW s \in Seq(Marks), HostLike(s, {0})
  PROVE  s \o <<"-", "1", "1">> \in Seq(Marks) /\ HostLike(s \o <<"-", "1", "1">>, {0})
<1> DEFINE r == <<"-", "1", "1">>
           q == s \o r
           L == Len(s)
<1>1. r \in Seq(Marks) /\ Len(r) = 3 /\ r[1] = "-" /\ r[2] = "1" /\ r[3] = "1"
  BY DEF Marks
<1>2. Dots(r) = {} /\ Cardinality({}) = 0
  BY <1>1, FS_EmptySet DEF Dots
<1> HIDE DEF r
<1>3. /\ s # <<>> /\ \A i \in 1..L : s[i] \in {"a", "1", "-", "."}
      /\ \A i \in 1..L : s[i] \in {".", "-"} =>
           i # 1 /\ i # L /\ s[i - 1] # "." /\ s[i + 1] # "."
      /\ Cardinality(Dots(s)) = 0
  BY HostParts
<1>13. /\ q \in Seq(Marks) /\ Len(q) = L + Len(r)
       /\ \A i \in 1..L : q[i] = s[i]
       /\ \A i \in 1..Len(r) : q[L + i] = r[i]
  <2>1. r \in Seq(Marks)
    BY <1>1
  <2> QED
    BY ONLY <2>1, s \in Seq(Marks), Joined
<1>14. Cardinality(Dots(q)) = Cardinality(Dots(s)) + Cardinality(Dots(r))
  BY <1>1, DotsJoined
<1>5. Cardinality(Dots(q)) = 0
  <2>1. Cardinality(Dots(s)) = 0 /\ Cardinality(Dots(r)) = 0
    BY <1>2, <1>3
  <2> QED
    BY <1>14, <2>1
<1>4. /\ q \in Seq(Marks) /\ Len(q) = L + 3
      /\ \A i \in 1..L : q[i] = s[i]
      /\ \A i \in 1..3 : q[L + i] = r[i]
  <2> HIDE DEF q
  <2> QED
    BY <1>1, <1>13
<1> HIDE DEF q, L
<1>6. L \in Nat /\ L > 0
  BY <1>3 DEF L
<1>7. q[L + 1] = "-" /\ q[L + 2] = "1" /\ q[L + 3] = "1"
  BY <1>1, <1>4
<1>8. ASSUME NEW i \in 1..Len(q) PROVE i \in 1..L \/ i = L + 1 \/ i = L + 2 \/ i = L + 3
  BY <1>4, <1>6
<1>9. \A i \in 1..Len(q) : q[i] \in {"a", "1", "-", "."}
  BY <1>3, <1>4, <1>7, <1>8
<1>10. ASSUME NEW i \in 1..Len(q), q[i] \in {".", "-"}
       PROVE  i # 1 /\ i # Len(q) /\ q[i - 1] # "." /\ q[i + 1] # "."
  <2>1. CASE i \in 1..L
    <3>1. s[i] \in {".", "-"} /\ i # 1 /\ i # L /\ s[i - 1] # "." /\ s[i + 1] # "."
      BY <1>3, <1>4, <1>10, <2>1
    <3>2. i - 1 \in 1..L /\ i + 1 \in 1..L
      BY <1>6, <2>1, <3>1
    <3>3. q[i - 1] = s[i - 1] /\ q[i + 1] = s[i + 1]
      BY <1>4, <3>2
    <3> QED
      BY <1>4, <1>6, <2>1, <3>1, <3>3
  <2>2. CASE i = L + 1
    <3>1. i - 1 = L /\ i + 1 = L + 2 /\ L \in 1..L
      BY <1>6, <2>2
    <3>2. q[L] = s[L] /\ s[L] # "."
      BY <1>3, <1>4, <3>1
    <3> QED
      BY <1>4, <1>6, <1>7, <2>2, <3>1, <3>2
  <2> QED
    BY <1>7, <1>8, <1>10, <2>1, <2>2
<1>11. q # <<>>
  BY <1>4, <1>6
<1>12. HostLike(q, {0})
  BY <1>4, <1>5, <1>9, <1>10, <1>11, HostParts DEF L
<1> QED
  BY <1>4, <1>12 DEF q, r

\* A host holds nothing that lower case or the removal of blanks would change.
LEMMA HostOf ==
  ASSUME NEW s \in Seq(Marks), NEW n, HostLike(s, {n})
  PROVE  s # <<>> /\ \A i \in 1..Len(s) : s[i] \in {"a", "1", "-", "."}
BY HostParts

LEMMA MailJoined ==
  ASSUME NEW s \in Seq(Marks), NEW r \in Seq(Marks), s # <<>>, s[Len(s)] = "@",
         LocalLike(SubSeq(s, 1, Len(s) - 1)), HostLike(r, {1})
  PROVE  s \o r \in Seq(Marks) /\ MailLike(s \o r)
<1> DEFINE q == s \o r
           L == Len(s)
<1>1. /\ q \in Seq(Marks) /\ Len(q) = L + Len(r) /\ L \in Nat /\ Len(r) \in Nat
      /\ \A i \in 1..L : q[i] = s[i]
      /\ SubSeq(q, L + 1, Len(q)) = r
  BY Joined, Behind
<1>2. L - 1 \in 0..Len(s) /\ L > 0
  OBVIOUS
<1>3. /\ Len(SubSeq(s, 1, L - 1)) = L - 1
      /\ \A i \in 1..(L - 1) : SubSeq(s, 1, L - 1)[i] = s[i]
  BY <1>2, Prefix
<1>4. L - 1 # 0 /\ \A i \in 1..(L - 1) : s[i] \in {"a", "1", "-"}
  BY <1>3 DEF LocalLike
<1>5. q[L] = "@"
  BY <1>1, <1>2
<1> HIDE DEF q, L
<1>10. L # 1 /\ Len(q) >= L /\ Len(q) \in Nat
  BY <1>1, <1>4
<1>6. L \in 2..Len(q)
  BY <1>1, <1>2, <1>10
<1>7. ASSUME NEW j \in 1..(L - 1) PROVE q[j] \in {"a", "1", "-"}
  <2>1. j \in 1..L /\ q[j] = s[j]
    BY <1>1
  <2> QED
    BY <1>4, <2>1
<1>8. HostLike(SubSeq(q, L + 1, Len(q)), {1})
  BY <1>1
<1>9. MailLike(q)
  BY <1>5, <1>6, <1>7, <1>8 DEF MailLike
<1> QED
  BY <1>1, <1>9 DEF q

LEMMA MailOf ==
  ASSUME NEW s \in Seq(Marks), MailLike(s)
  PROVE  \A i \in 1..Len(s) : s[i] \in {"a", "1", "-", ".", "@"}
<1>1. PICK i \in 2..Len(s) :
        /\ s[i] = "@"
        /\ \A j \in 1..(i - 1) : s[j] \in {"a", "1", "-"}
        /\ HostLike(SubSeq(s, i + 1, Len(s)), {1})
  BY DEF MailLike
<1> DEFINE r == SubSeq(s, i + 1, Len(s))
<1>2. i \in Nat /\ Len(s) \in Nat /\ i <= Len(s) /\ i >= 2
  OBVIOUS
<1>3. \A k \in (i + 1)..Len(s) : s[k] \in Marks
  BY <1>2
<1>4. r \in Seq(Marks) /\ \A k \in 1..(Len(s) - (i + 1) + 1) : r[k] = s[i + 1 + k - 1]
  BY <1>2, <1>3, SubSeqProperties
<1>5. Len(r) = Len(s) - i
  BY <1>2, <1>3, SubSeqProperties
<1>6. \A k \in 1..Len(r) : r[k] \in {"a", "1", "-", "."}
  BY <1>1, <1>4, HostOf
<1> HIDE DEF r
<1>7. ASSUME NEW k \in (i + 1)..Len(s) PROVE s[k] \in {"a", "1", "-", "."}
  <2> DEFINE d == k - i
  <2>1. d \in 1..Len(r) /\ d \in 1..(Len(s) - (i + 1) + 1) /\ i + 1 + d - 1 = k
    BY <1>2, <1>5
  <2> HIDE DEF d
  <2> QED
    BY <1>4, <1>6, <2>1
<1> QED
  BY <1>1, <1>2, <1>7

\* A part of s is the same part of s \o r.
LEMMA PartKept ==
  ASSUME NEW S, NEW s \in Seq(S), NEW r \in Seq(S), NEW a \in Nat \ {0}, NEW b \in Int, b <= Len(s)
  PROVE  SubSeq(s \o r, a, b) = SubSeq(s, a, b)
<1> DEFINE q == s \o r
<1>1. q \in Seq(S) /\ Len(s) \in Nat /\ \A i \in 1..Len(s) : q[i] = s[i]
  BY Joined
<1> HIDE DEF q
<1>2. \A i \in a..b : i \in 1..Len(s)
  BY <1>1
<1>3. \A i \in a..b : q[i] \in S /\ s[i] \in S /\ q[i] = s[i]
  BY <1>1, <1>2
<1> DEFINE u == SubSeq(q, a, b)
           v == SubSeq(s, a, b)
<1>4. /\ u \in Seq(S) /\ Len(u) = IF a <= b THEN b - a + 1 ELSE 0
      /\ \A i \in 1..(b - a + 1) : u[i] = q[a + i - 1]
  BY <1>3, SubSeqProperties
<1>5. /\ v \in Seq(S) /\ Len(v) = IF a <= b THEN b - a + 1 ELSE 0
      /\ \A i \in 1..(b - a + 1) : v[i] = s[a + i - 1]
  BY <1>3, SubSeqProperties
<1> HIDE DEF u, v
<1>6. ASSUME NEW i \in 1..Len(u) PROVE u[i] = v[i]
  <2>1. i \in 1..(b - a + 1) /\ a + i - 1 \in a..b
    BY <1>4
  <2>2. u[i] = q[a + i - 1] /\ v[i] = s[a + i - 1]
    BY <1>4, <1>5, <2>1
  <2> QED
    BY <1>3, <2>1, <2>2
<1>7. u = v
  BY <1>4, <1>5, <1>6, SameSequence
<1> QED
  BY <1>7 DEF u, v, q

LEMMA UrlKept ==
  ASSUME NEW s \in Seq(Marks), NEW r \in Seq(Marks), UrlLike(s)
  PROVE  s \o r \in Seq(Marks) /\ UrlLike(s \o r)
<1>1. PICK i \in 1..Len(s), j \in 1..Len(s) :
        /\ i + 3 < j /\ SubSeq(s, i, i + 2) = <<":", "/", "/">> /\ s[j] = "/"
        /\ HostLike(SubSeq(s, i + 3, j - 1), {1, 2})
  BY DEF UrlLike
<1> DEFINE q == s \o r
<1>2. q \in Seq(Marks) /\ Len(q) = Len(s) + Len(r) /\ q[j] = s[j] /\ Len(s) \in Nat /\ Len(r) \in Nat
  BY Joined
<1>3. /\ i \in Nat \ {0} /\ i + 2 \in Int /\ i + 2 <= Len(s)
      /\ i + 3 \in Nat \ {0} /\ j - 1 \in Int /\ j - 1 <= Len(s)
  BY <1>1
<1>4. SubSeq(q, i, i + 2) = SubSeq(s, i, i + 2)
  BY <1>3, PartKept
<1>5. SubSeq(q, i + 3, j - 1) = SubSeq(s, i + 3, j - 1)
  BY <1>3, PartKept
<1> HIDE DEF q
<1>6. i \in 1..Len(q) /\ j \in 1..Len(q)
  BY <1>2
<1>7. SubSeq(q, i, i + 2) = <<":", "/", "/">> /\ q[j] = "/" /\ HostLike(SubSeq(q, i + 3, j - 1), {1, 2})
  BY <1>1, <1>2, <1>4, <1>5
<1>8. UrlLike(q)
  BY <1>1, <1>6, <1>7 DEF UrlLike
<1> QED
  BY <1>2, <1>8 DEF q

Schemes == {<<"a">>, <<>>}

LEMMA RootIs ==
  ASSUME NEW scheme \in Schemes
  PROVE  /\ scheme \in Seq(Marks) /\ Rooted(scheme) \in Seq(Marks)
         /\ Len(Rooted(scheme)) = Len(scheme) + 3 /\ Len(scheme) \in Nat
         /\ SubSeq(Rooted(scheme), Len(scheme) + 1, Len(scheme) + 3) = <<":", "/", "/">>
<1> DEFINE r == <<":", "/", "/">>
<1>1. r \in Seq(Marks) /\ Len(r) = 3
  BY DEF Marks
<1>2. scheme \in Seq(Marks) /\ Len(scheme) \in Nat
  <2>1. <<>> \in Seq(Marks) /\ <<"a">> \in Seq(Marks)
    BY DEF Marks
  <2>2. scheme \in Seq(Marks)
    BY <2>1 DEF Schemes
  <2> QED
    BY <2>2
<1>3. Len(scheme \o r) = Len(scheme) + Len(r) /\ scheme \o r \in Seq(Marks)
  BY <1>1, <1>2, Joined
<1>4. SubSeq(scheme \o r, Len(scheme) + 1, Len(scheme \o r)) = r
  BY <1>1, <1>2, Behind
<1>5. Len(scheme \o r) = Len(scheme) + 3
  <2> HIDE DEF r
  <2> QED
    BY <1>1, <1>3
<1> HIDE DEF r
<1>6. Rooted(scheme) = scheme \o r
  BY DEF Rooted, r
<1>7. SubSeq(Rooted(scheme), Len(scheme) + 1, Len(scheme) + 3) = r
  BY <1>4, <1>5, <1>6
<1> QED
  BY <1>2, <1>3, <1>5, <1>6, <1>7 DEF r

\* A slash after a scheme and a host makes a URL.
LEMMA UrlClosed ==
  ASSUME NEW scheme \in Schemes, NEW h \in Seq(Marks), NEW m \in {1, 2}, HostLike(h, {m})
  PROVE  /\ (Rooted(scheme) \o h) \o <<"/">> \in Seq(Marks)
         /\ UrlLike((Rooted(scheme) \o h) \o <<"/">>)
<1> DEFINE root == Rooted(scheme)
           s == root \o h
           q == s \o <<"/">>
           R == Len(scheme) + 3
<1>1. root \in Seq(Marks) /\ Len(root) = R /\ Len(scheme) \in Nat
      /\ SubSeq(root, Len(scheme) + 1, R) = <<":", "/", "/">>
  BY RootIs
<1>2. <<"/">> \in Seq(Marks) /\ Len(<<"/">>) = 1 /\ <<"/">>[1] = "/"
  BY DEF Marks
<1> HIDE DEF root
<1>3. s \in Seq(Marks) /\ Len(s) = Len(root) + Len(h) /\ SubSeq(s, Len(root) + 1, Len(s)) = h
  BY <1>1, Joined, Behind
<1>4. SubSeq(s, Len(scheme) + 1, R) = SubSeq(root, Len(scheme) + 1, R)
  <2>1. Len(scheme) + 1 \in Nat \ {0} /\ R \in Int /\ R <= Len(root)
    BY <1>1
  <2> QED
    BY <1>1, <2>1, PartKept
<1> HIDE DEF s
<1>5. q \in Seq(Marks) /\ Len(q) = Len(s) + 1 /\ q[Len(s) + 1] = "/"
  BY <1>2, <1>3, Joined
<1>6. Len(h) \in Nat /\ Len(h) > 0
  <2>1. h # <<>>
    BY HostOf
  <2> QED
    BY <2>1
<1>7. SubSeq(q, Len(scheme) + 1, R) = SubSeq(s, Len(scheme) + 1, R)
  <2>1. Len(scheme) + 1 \in Nat \ {0} /\ R \in Int /\ R <= Len(s)
    BY <1>1, <1>3, <1>6
  <2> QED
    BY <1>2, <1>3, <2>1, PartKept
<1>8. SubSeq(q, R + 1, Len(s)) = SubSeq(s, R + 1, Len(s))
  <2>1. R + 1 \in Nat \ {0} /\ Len(s) \in Int /\ Len(s) <= Len(s)
    BY <1>1, <1>3, <1>6
  <2> QED
    BY <1>2, <1>3, <2>1, PartKept
<1> HIDE DEF q
<1> DEFINE i == Len(scheme) + 1
           j == Len(s) + 1
<1>9. /\ i \in 1..Len(q) /\ j \in 1..Len(q) /\ i + 3 < j
      /\ i + 2 = R /\ i + 3 = R + 1 /\ j - 1 = Len(s)
  BY <1>1, <1>3, <1>5, <1>6
<1>10. HostLike(h, {1, 2})
  BY DEF HostLike
<1>11. SubSeq(q, i, i + 2) = <<":", "/", "/">>
  BY <1>1, <1>4, <1>7, <1>9
<1>12. SubSeq(q, i + 3, j - 1) = h
  BY <1>1, <1>3, <1>8, <1>9
<1> HIDE DEF i
<1>13. q[j] = "/"
  BY <1>5
<1> HIDE DEF j
<1>14. UrlLike(q)
  BY <1>9, <1>10, <1>11, <1>12, <1>13 DEF UrlLike
<1> QED
  BY <1>5, <1>14 DEF q, s, root

-----------------------------------------------------------------------------
(* Characters chosen from a text                                           *)

\* One more character of s.
OneMore(c, s, S, k) == IF s[k] \in S THEN Append(c, s[k]) ELSE c

LEMMA ChosenSteps ==
  ASSUME NEW V, NEW s \in Seq(V), NEW S
  PROVE  \E c : /\ c[0] = <<>> /\ Chosen(s, S) = c[Len(s)]
                /\ \A k \in 1..Len(s) : c[k] = OneMore(c[k - 1], s, S, k)
                /\ \A k \in 0..Len(s) : c[k] \in Seq(V \cap S)
<1> DEFINE n == Len(s)
           T == Seq(V \cap S)
           step(c) == [i \in 0..n |->
                         IF i = 0 THEN <<>>
                         ELSE IF s[i] \in S THEN Append(c[i - 1], s[i]) ELSE c[i - 1]]
           C == CHOOSE c : c = step(c)
           W == [k \in 0..n |-> T]
           h == [k \in 0..n |-> [x \in T |-> OneMore(x, s, S, k)]]
<1>1. n \in Nat
  BY LenProperties
<1>2. Chosen(s, S) = C[n]
  BY DEF Chosen
<1>3. ASSUME NEW k \in 1..n, NEW x \in T PROVE OneMore(x, s, S, k) \in T
  <2>1. s[k] \in V
    BY <1>1
  <2> QED
    BY <2>1 DEF OneMore
<1>4. <<>> \in T
  OBVIOUS
<1> HIDE DEF n, T
<1>5. ASSUME NEW k \in 1..n, NEW x \in W[k - 1]
      PROVE  h[k][x] = OneMore(x, s, S, k) /\ h[k][x] \in W[k] /\ x \in T
  <2>1. k \in 0..n /\ k - 1 \in 0..n
    BY <1>1
  <2>2. x \in T /\ h[k][x] = OneMore(x, s, S, k)
    BY <2>1
  <2> QED
    BY <1>3, <2>1, <2>2
<1>6. PICK f : Solves(f, 0, n, W, <<>>, h)
  <2>1. n \in Int /\ 0 \in Int /\ 0 <= n /\ <<>> \in W[0]
    BY <1>1, <1>4
  <2>2. \A k \in (0 + 1)..n : \A x \in W[k - 1] : h[k][x] \in W[k]
    <3>1. 0 + 1 = 1
      OBVIOUS
    <3> HIDE DEF W, h
    <3> QED
      BY <1>5, <3>1
  <2> HIDE DEF W, h
  <2> QED
    BY <2>1, <2>2, Recursion, Zenon
<1>7. f = step(f)
  <2>1. f = [k \in 0..n |-> f[k]] /\ f[0] = <<>>
    BY <1>6 DEF Solves
  <2>2. ASSUME NEW k \in 0..n, k # 0 PROVE f[k] = OneMore(f[k - 1], s, S, k)
    <3>1. k \in 1..n /\ k - 1 \in 0..n /\ k \in (0 + 1)..n
      BY <1>1, <2>2
    <3> HIDE DEF W, h
    <3>2. f[k] = h[k][f[k - 1]] /\ f[k - 1] \in W[k - 1]
      BY <1>6, <3>1 DEF Solves
    <3> QED
      BY <1>5, <3>1, <3>2
  <2>3. ASSUME NEW k \in 0..n
        PROVE  f[k] = IF k = 0 THEN <<>>
                      ELSE IF s[k] \in S THEN Append(f[k - 1], s[k]) ELSE f[k - 1]
    BY <2>1, <2>2, Zenon DEF OneMore
  <2> QED
    BY <2>1, <2>3, Zenon
<1>8. C = step(C)
  BY <1>7
<1> HIDE DEF C
<1>9. C[0] = <<>> /\ \A k \in 1..n : C[k] = OneMore(C[k - 1], s, S, k)
  <2>1. \A k \in 0..n : C[k] = IF k = 0 THEN <<>> ELSE OneMore(C[k - 1], s, S, k)
    BY <1>8, Zenon DEF OneMore
  <2>2. 0 \in 0..n /\ \A k \in 1..n : k \in 0..n /\ k # 0
    BY <1>1
  <2> QED
    BY <2>1, <2>2, Zenon
<1>10. \A k \in 0..n : C[k] \in T
  <2> DEFINE U == {k \in 0..n : C[k] \in T}
  <2>1. 0 \in U
    BY <1>1, <1>4, <1>9
  <2>2. ASSUME NEW k \in (0 + 1)..n, k - 1 \in U PROVE k \in U
    <3>1. k \in 1..n /\ k \in 0..n
      BY <1>1
    <3>2. C[k - 1] \in T
      BY <2>2
    <3>3. C[k] \in T
      BY <1>3, <1>9, <3>1, <3>2
    <3> QED
      BY <3>1, <3>3
  <2>3. n \in Int /\ 0 \in Int
    BY <1>1
  <2> HIDE DEF U
  <2>4. \A k \in 0..n : k \in U
    BY <2>1, <2>2, <2>3, Induction
  <2> QED
    BY <2>4 DEF U
<1> QED
  BY <1>2, <1>9, <1>10 DEF n, T

\* What c has of the first k characters of s, when they are in S.
Selected(c, s, S, k) ==
  /\ \A i \in 1..k : s[i] \in S => \E m \in 1..Len(c) : c[m] = s[i]
  /\ k > 0 /\ s[1] \in S => Len(c) > 0 /\ c[1] = s[1]
  /\ \A i \in 1..k : s[i] \in S /\ (\A j \in (i + 1)..k : s[j] \notin S) => c[Len(c)] = s[i]
  /\ (\A i \in 1..k : s[i] \in S) => Len(c) = k /\ \A i \in 1..k : c[i] = s[i]

LEMMA SelectedMore ==
  ASSUME NEW V, NEW s \in Seq(V), NEW S, NEW k \in 1..Len(s), NEW c \in Seq(V),
         Selected(c, s, S, k - 1)
  PROVE  Selected(OneMore(c, s, S, k), s, S, k)
<1>1. k \in Nat /\ Len(s) \in Nat /\ Len(c) \in Nat /\ s[k] \in V
  OBVIOUS
<1>2. \A i \in 1..k : i \in 1..(k - 1) \/ i = k
  BY <1>1
<1>3. CASE s[k] \notin S
  <2>1. OneMore(c, s, S, k) = c
    BY <1>3 DEF OneMore
  <2>2. \A i \in 1..k : s[i] \in S => i \in 1..(k - 1)
    BY <1>2, <1>3
  <2>3. \A i \in 1..k : s[i] \in S => \E m \in 1..Len(c) : c[m] = s[i]
    BY <2>2 DEF Selected
  <2>4. k > 0 /\ s[1] \in S => Len(c) > 0 /\ c[1] = s[1]
    <3>1. s[1] \in S => 1 \in 1..k /\ k - 1 > 0
      BY <1>1, <1>3
    <3> QED
      BY <3>1 DEF Selected
  <2>5. ASSUME NEW i \in 1..k, s[i] \in S, \A j \in (i + 1)..k : s[j] \notin S
        PROVE  c[Len(c)] = s[i]
    <3>1. i \in 1..(k - 1) /\ \A j \in (i + 1)..(k - 1) : j \in (i + 1)..k
      BY <1>1, <2>2, <2>5
    <3>2. \A j \in (i + 1)..(k - 1) : s[j] \notin S
      BY <2>5, <3>1
    <3> QED
      BY <2>5, <3>1, <3>2 DEF Selected
  <2>6. ~ \A i \in 1..k : s[i] \in S
    BY <1>1, <1>3
  <2> QED
    BY <2>1, <2>3, <2>4, <2>5, <2>6 DEF Selected
<1>4. CASE s[k] \in S
  <2> DEFINE d == Append(c, s[k])
  <2>1. OneMore(c, s, S, k) = d
    BY <1>4 DEF OneMore
  <2>2. /\ Len(d) = Len(c) + 1 /\ d[Len(d)] = s[k]
        /\ \A m \in 1..Len(c) : d[m] = c[m]
    BY <1>1
  <2> HIDE DEF d
  <2>3. ASSUME NEW i \in 1..k, s[i] \in S PROVE \E m \in 1..Len(d) : d[m] = s[i]
    <3>1. CASE i = k
      <4>1. Len(d) \in 1..Len(d)
        BY <1>1, <2>2
      <4> QED
        BY <2>2, <3>1, <4>1
    <3>2. CASE i \in 1..(k - 1)
      <4>1. PICK m \in 1..Len(c) : c[m] = s[i]
        BY <2>3, <3>2 DEF Selected
      <4>2. m \in 1..Len(d) /\ d[m] = s[i]
        BY <1>1, <2>2, <4>1
      <4> QED
        BY <4>2
    <3> QED
      BY <1>2, <3>1, <3>2
  <2>4. ASSUME s[1] \in S PROVE Len(d) > 0 /\ d[1] = s[1]
    <3>1. CASE k = 1
      <4>1. Len(c) = 0
        BY <1>1, <3>1 DEF Selected
      <4> QED
        BY <2>2, <3>1, <4>1
    <3>2. CASE k - 1 > 0
      <4>1. Len(c) > 0 /\ c[1] = s[1]
        BY <2>4, <3>2 DEF Selected
      <4> QED
        BY <1>1, <2>2, <4>1
    <3> QED
      BY <1>1, <3>1, <3>2
  <2>5. ASSUME NEW i \in 1..k, s[i] \in S, \A j \in (i + 1)..k : s[j] \notin S
        PROVE  d[Len(d)] = s[i]
    <3>1. i = k
      BY <1>1, <1>4, <2>5
    <3> QED
      BY <2>2, <3>1
  <2>6. ASSUME \A i \in 1..k : s[i] \in S PROVE Len(d) = k /\ \A i \in 1..k : d[i] = s[i]
    <3>1. \A i \in 1..(k - 1) : s[i] \in S
      BY <1>1, <2>6
    <3>2. Len(c) = k - 1 /\ \A i \in 1..(k - 1) : c[i] = s[i]
      BY <3>1 DEF Selected
    <3> QED
      BY <1>1, <1>2, <2>2, <3>2
  <2> QED
    BY <2>1, <2>3, <2>4, <2>5, <2>6 DEF Selected
<1> QED
  BY <1>3, <1>4

\* The characters of s in S are chosen, in their order.
LEMMA ChosenIs ==
  ASSUME NEW V, NEW s \in Seq(V), NEW S
  PROVE  Chosen(s, S) \in Seq(V \cap S) /\ Selected(Chosen(s, S), s, S, Len(s))
<1>1. PICK c : /\ c[0] = <<>> /\ Chosen(s, S) = c[Len(s)]
               /\ \A k \in 1..Len(s) : c[k] = OneMore(c[k - 1], s, S, k)
               /\ \A k \in 0..Len(s) : c[k] \in Seq(V \cap S)
  BY ChosenSteps
<1>2. Len(s) \in Nat /\ Len(s) \in Int /\ 0 \in Int
  OBVIOUS
<1> DEFINE U == {k \in 0..Len(s) : Selected(c[k], s, S, k)}
<1>3. 0 \in U
  <2>1. Selected(<<>>, s, S, 0)
    BY DEF Selected
  <2> QED
    BY <1>1, <1>2, <2>1
<1>4. ASSUME NEW k \in (0 + 1)..Len(s), k - 1 \in U PROVE k \in U
  <2>1. k \in 1..Len(s) /\ k - 1 \in 0..Len(s) /\ k \in 0..Len(s)
    BY <1>2
  <2>2. c[k - 1] \in Seq(V)
    BY <1>1, <2>1
  <2>3. Selected(OneMore(c[k - 1], s, S, k), s, S, k)
    BY <1>4, <2>1, <2>2, SelectedMore
  <2> QED
    BY <1>1, <2>1, <2>3
<1>5. \A k \in 0..Len(s) : k \in U
  <2> HIDE DEF U
  <2> QED
    BY <1>2, <1>3, <1>4, Induction
<1> QED
  BY <1>1, <1>2, <1>5

-----------------------------------------------------------------------------
(* Slugs                                                                   *)

KeptMarks == {"A", "a", "1", "blank", "-"}

LEMMA LowerIs ==
  ASSUME NEW s \in Seq(Marks)
  PROVE  /\ Lower(s) \in Seq(Marks) /\ Len(Lower(s)) = Len(s)
         /\ \A i \in 1..Len(s) : Lower(s)[i] = IF s[i] = "A" THEN "a" ELSE s[i]
         /\ (\A i \in 1..Len(s) : s[i] # "A") => Lower(s) = s
<1>1. \A i \in 1..Len(s) : (IF s[i] = "A" THEN "a" ELSE s[i]) \in Marks
  BY DEF Marks
<1>2. /\ Lower(s) \in Seq(Marks) /\ Len(Lower(s)) = Len(s)
      /\ \A i \in 1..Len(s) : Lower(s)[i] = IF s[i] = "A" THEN "a" ELSE s[i]
  BY <1>1 DEF Lower
<1>3. ASSUME \A i \in 1..Len(s) : s[i] # "A" PROVE Lower(s) = s
  <2>1. \A i \in 1..Len(s) : Lower(s)[i] = s[i]
    BY <1>2, <1>3
  <2> QED
    BY <1>2, <2>1, SameSequence
<1> QED
  BY <1>2, <1>3

LEMMA BothifiedIs ==
  ASSUME NEW s \in Seq(Marks)
  PROVE  /\ Bothified(s) \in Seq(Marks) /\ Len(Bothified(s)) = Len(s)
         /\ \A i \in 1..Len(s) : Bothified(s)[i] =
              CASE s[i] = "#" -> "1" [] s[i] = "?" -> "A" [] OTHER -> s[i]
<1>1. \A i \in 1..Len(s) :
        (CASE s[i] = "#" -> "1" [] s[i] = "?" -> "A" [] OTHER -> s[i]) \in Marks
  BY DEF Marks
<1> QED
  BY <1>1 DEF Bothified

LEMMA LeastPlace ==
  ASSUME NEW n \in Nat, NEW S \in SUBSET (1..n), S # {}
  PROVE  Places!Min(S) \in S /\ \A i \in S : Places!Min(S) <= i
<1>1. S \in SUBSET Nat
  OBVIOUS
<1>2. \E i \in S : \A j \in S : i <= j
  BY <1>1, LeastNumber
<1> QED
  BY <1>2 DEF Places!Min

LEMMA GreatestPlace ==
  ASSUME NEW n \in Nat, NEW S \in SUBSET (1..n), S # {}
  PROVE  Places!Max(S) \in S /\ \A i \in S : Places!Max(S) >= i
<1> DEFINE T == {n - i : i \in S}
<1>1. T \in SUBSET Nat /\ T # {}
  <2>1. \A i \in S : n - i \in Nat
    OBVIOUS
  <2> QED
    BY <2>1
<1>2. PICK d \in T : \A e \in T : d <= e
  <2> HIDE DEF T
  <2> QED
    BY <1>1, LeastNumber
<1>3. PICK i \in S : d = n - i
  BY <1>2
<1>4. ASSUME NEW j \in S PROVE i >= j
  <2>1. n - j \in T /\ i \in Int /\ j \in Int
    OBVIOUS
  <2>2. d <= n - j
    BY <1>2, <2>1
  <2> QED
    BY <1>3, <2>1, <2>2
<1>5. \E k \in S : \A j \in S : k >= j
  BY <1>4
<1> QED
  BY <1>5 DEF Places!Max

LEMMA TrimmedIs ==
  ASSUME NEW s \in Seq(KeptMarks)
  PROVE  /\ Trimmed(s) \in Seq(KeptMarks)
         /\ (\E i \in 1..Len(s) : s[i] # Blank) => Trimmed(s) # <<>>
         /\ s # <<>> /\ s[1] # Blank /\ s[Len(s)] # Blank => Trimmed(s) = s
<1> DEFINE inner == {i \in 1..Len(s) : s[i] # Blank}
<1>1. Trimmed(s) = IF inner = {} THEN <<>> ELSE SubSeq(s, Places!Min(inner), Places!Max(inner))
  BY DEF Trimmed
<1>2. Len(s) \in Nat /\ inner \in SUBSET (1..Len(s))
  OBVIOUS
<1>3. CASE inner = {}
  <2>1. Trimmed(s) = <<>> /\ ~ \E i \in 1..Len(s) : s[i] # Blank
    BY <1>1, <1>3
  <2>2. s # <<>> => 1 \in 1..Len(s)
    BY <1>2
  <2> QED
    BY <2>1, <2>2
<1>4. CASE inner # {}
  <2> DEFINE a == Places!Min(inner)
             b == Places!Max(inner)
  <2>1. a \in inner /\ b \in inner /\ (\A i \in inner : a <= i) /\ \A i \in inner : b >= i
    BY <1>2, <1>4, LeastPlace, GreatestPlace
  <2>2. Trimmed(s) = SubSeq(s, a, b)
    BY <1>1, <1>4
  <2>3. a \in 1..Len(s) /\ b \in 1..Len(s) /\ a <= b
    BY <2>1
  <2>4. s # <<>> /\ s[1] # Blank /\ s[Len(s)] # Blank => a = 1 /\ b = Len(s)
    <3>1. SUFFICES ASSUME s # <<>>, s[1] # Blank, s[Len(s)] # Blank PROVE a = 1 /\ b = Len(s)
      OBVIOUS
    <3>2. 1 \in inner /\ Len(s) \in inner
      BY <1>2, <3>1
    <3>3. a <= 1 /\ b >= Len(s)
      BY <2>1, <3>2
    <3> HIDE DEF a, b, inner
    <3> QED
      BY <1>2, <2>3, <3>3
  <2> HIDE DEF a, b, inner
  <2>5. a \in Int /\ b \in Int /\ \A i \in a..b : s[i] \in KeptMarks
    BY <1>2, <2>3
  <2>6. SubSeq(s, a, b) \in Seq(KeptMarks) /\ Len(SubSeq(s, a, b)) = b - a + 1
    BY <2>3, <2>5, SubSeqProperties
  <2>7. SubSeq(s, a, b) # <<>>
    BY <2>3, <2>5, <2>6
  <2>8. SubSeq(s, 1, Len(s)) = s
    BY SubSeqFull
  <2> QED
    BY <2>2, <2>4, <2>6, <2>7, <2>8
<1> QED
  BY <1>3, <1>4

LEMMA HyphenatedIs ==
  ASSUME NEW s \in Seq(KeptMarks), s # <<>>
  PROVE  /\ Hyphenated(s) \in Seq({"A", "a", "1", "-"}) /\ Hyphenated(s) # <<>>
         /\ s[1] \in LettersDigits => Hyphenated(s)[1] = s[1]
         /\ s[Len(s)] \in LettersDigits => Hyphenated(s)[Len(Hyphenated(s))] = s[Len(s)]
<1> DEFINE n == Len(s)
           places == [i \in 1..n |-> i]
           begins == {i \in 1..n : i > 1 /\ Separates(s, i) => ~Separates(s, i - 1)}
           c == Chosen(places, begins)
           h == Hyphenated(s)
<1>1. n \in Nat /\ n > 0 /\ 1 \in 1..n /\ n \in 1..n
  OBVIOUS
<1>2. h = [k \in 1..Len(c) |-> IF Separates(s, c[k]) THEN "-" ELSE s[c[k]]]
  BY DEF Hyphenated
<1>3. places \in Seq(1..n) /\ Len(places) = n /\ \A i \in 1..n : places[i] = i
  BY <1>1
<1>4. c \in Seq((1..n) \cap begins) /\ Selected(c, places, begins, Len(places))
  <2> HIDE DEF places, begins
  <2> QED
    BY <1>3, ChosenIs
<1>5. 1 \in begins
  BY <1>1
<1>6. Len(c) > 0 /\ c[1] = 1 /\ Len(c) \in Nat
  <2> HIDE DEF c, begins, places
  <2>1. Len(places) > 0 /\ places[1] \in begins
    BY <1>1, <1>3, <1>5
  <2>2. Len(c) > 0 /\ c[1] = places[1]
    BY <1>4, <2>1 DEF Selected
  <2>3. Len(c) \in Nat
    BY <1>4
  <2> QED
    BY <1>1, <1>3, <2>2, <2>3
<1>7. ASSUME s[n] \in LettersDigits PROVE c[Len(c)] = n
  <2>1. ~Separates(s, n)
    BY <1>7 DEF Separates, LettersDigits, Blank
  <2>2. n \in begins
    BY <1>1, <2>1
  <2> HIDE DEF c, begins, places
  <2>3. places[n] \in begins /\ n \in 1..Len(places) /\ \A j \in (n + 1)..Len(places) : FALSE
    BY <1>1, <1>3, <2>2
  <2>4. c[Len(c)] = places[n]
    BY <1>4, <2>3 DEF Selected
  <2> QED
    BY <1>1, <1>3, <2>4
<1> HIDE DEF c, h
<1>8. \A k \in 1..Len(c) : c[k] \in 1..n
  BY <1>4
<1> HIDE DEF begins
<1>9. ASSUME NEW k \in 1..Len(c)
      PROVE  (IF Separates(s, c[k]) THEN "-" ELSE s[c[k]]) \in {"A", "a", "1", "-"}
  <2>1. s[c[k]] \in KeptMarks
    BY <1>8
  <2> QED
    BY <2>1 DEF KeptMarks, Separates, Blank
<1>10. /\ h \in Seq({"A", "a", "1", "-"}) /\ Len(h) = Len(c)
       /\ \A k \in 1..Len(c) : h[k] = IF Separates(s, c[k]) THEN "-" ELSE s[c[k]]
  BY <1>2, <1>6, <1>9
<1>11. s[1] \in LettersDigits => h[1] = s[1]
  <2>1. s[1] \in LettersDigits => ~Separates(s, 1)
    BY DEF Separates, LettersDigits, Blank
  <2>2. 1 \in 1..Len(c)
    BY <1>6
  <2> QED
    BY <1>6, <1>10, <2>1, <2>2
<1>12. s[n] \in LettersDigits => h[Len(h)] = s[n]
  <2>1. s[n] \in LettersDigits => ~Separates(s, n)
    BY DEF Separates, LettersDigits, Blank
  <2>2. Len(c) \in 1..Len(c)
    BY <1>6
  <2> QED
    BY <1>7, <1>10, <2>1, <2>2
<1> QED
  BY <1>6, <1>10, <1>11, <1>12 DEF h

LEMMA KeptIs ==
  ASSUME NEW s \in Seq(Marks)
  PROVE  Kept(s) \in Seq(KeptMarks) /\ Selected(Kept(s), s, KeptMarks, Len(s))
<1>1. Kept(s) = Chosen(s, KeptMarks)
  BY DEF Kept, KeptMarks, Blank
<1>2. Chosen(s, KeptMarks) \in Seq(Marks \cap KeptMarks)
      /\ Selected(Chosen(s, KeptMarks), s, KeptMarks, Len(s))
  <2> HIDE DEF KeptMarks
  <2> QED
    BY ChosenIs
<1>3. Seq(Marks \cap KeptMarks) \subseteq Seq(KeptMarks)
  <2> HIDE DEF KeptMarks
  <2> QED
    OBVIOUS
<1> QED
  BY <1>1, <1>2, <1>3

LEMMA SlugIs ==
  ASSUME NEW s
  PROVE  Slug(s) = Lower(Hyphenated(Trimmed(Kept(s))))
<1> DEFINE k == Kept(s)
           t == Trimmed(k)
           h == Hyphenated(t)
<1>1. Through(k, Trimmed) = t /\ Through(t, Hyphenated) = h /\ Through(h, Lower) = Lower(h)
  BY DEF Through
<1>2. Slug(s) = Through(Through(Through(k, Trimmed), Hyphenated), Lower)
  BY DEF Slug
<1> QED
  BY <1>1, <1>2

\* Of text that a slug cannot lose it leaves something.
LEMMA UserSlug ==
  ASSUME NEW s \in Seq(Marks), Lasts(s)
  PROVE  /\ Slug(Lower(Bothified(s))) \in Seq(Marks)
         /\ LocalLike(Slug(Lower(Bothified(s))))
<1> DEFINE b == Bothified(s)
           l == Lower(b)
           k == Kept(l)
           t == Trimmed(k)
           h == Hyphenated(t)
<1>1. PICK i \in 1..Len(s) : s[i] \in {"A", "a", "1", "#", "?"}
  <2>1. LettersDigits \cup {"#", "?"} = {"A", "a", "1", "#", "?"}
    BY DEF LettersDigits
  <2> QED
    BY <2>1 DEF Lasts
<1>2. b \in Seq(Marks) /\ Len(b) = Len(s) /\ b[i] \in {"A", "a", "1"}
  <2>1. b \in Seq(Marks) /\ Len(b) = Len(s)
    BY BothifiedIs
  <2>2. b[i] = CASE s[i] = "#" -> "1" [] s[i] = "?" -> "A" [] OTHER -> s[i]
    BY BothifiedIs
  <2> HIDE DEF b
  <2> QED
    BY <1>1, <2>1, <2>2
<1> HIDE DEF b
<1>3. l \in Seq(Marks) /\ Len(l) = Len(s) /\ l[i] \in {"a", "1"}
  <2>1. l \in Seq(Marks) /\ Len(l) = Len(b)
    BY <1>2, LowerIs
  <2>2. l[i] = IF b[i] = "A" THEN "a" ELSE b[i]
    BY <1>2, LowerIs
  <2> HIDE DEF l
  <2> QED
    BY <1>2, <2>1, <2>2
<1> HIDE DEF l
<1>4. k \in Seq(KeptMarks) /\ \E m \in 1..Len(k) : k[m] = l[i]
  <2>1. k \in Seq(KeptMarks) /\ Selected(k, l, KeptMarks, Len(l))
    BY <1>3, KeptIs
  <2>2. i \in 1..Len(l) /\ l[i] \in KeptMarks
    BY <1>3 DEF KeptMarks
  <2> HIDE DEF k
  <2> QED
    BY <2>1, <2>2 DEF Selected
<1> HIDE DEF k
<1>5. t \in Seq(KeptMarks) /\ t # <<>>
  <2>1. l[i] # Blank
    BY <1>3 DEF Blank
  <2>2. \E m \in 1..Len(k) : k[m] # Blank
    BY <1>4, <2>1
  <2> QED
    BY <1>4, <2>2, TrimmedIs
<1> HIDE DEF t
<1>6. h \in Seq({"A", "a", "1", "-"}) /\ h # <<>>
  BY <1>5, HyphenatedIs
<1> HIDE DEF h
<1>7. h \in Seq(Marks) /\ \A j \in 1..Len(h) : h[j] \in {"A", "a", "1", "-"}
  <2>1. {"A", "a", "1", "-"} \subseteq Marks
    BY DEF Marks
  <2> QED
    BY <1>6, <2>1
<1>8. /\ Lower(h) \in Seq(Marks) /\ Len(Lower(h)) = Len(h)
      /\ \A j \in 1..Len(h) : Lower(h)[j] = IF h[j] = "A" THEN "a" ELSE h[j]
  BY <1>7, LowerIs
<1>9. LocalLike(Lower(h))
  <2>1. Len(h) > 0
    BY <1>6
  <2>2. Lower(h) # <<>>
    BY <1>8, <2>1
  <2>3. \A j \in 1..Len(Lower(h)) : Lower(h)[j] \in {"a", "1", "-"}
    BY <1>7, <1>8
  <2> QED
    BY <2>2, <2>3 DEF LocalLike
<1>10. Slug(Lower(Bothified(s))) = Lower(h)
  BY SlugIs DEF h, t, k, l, b
<1> QED
  BY <1>8, <1>9, <1>10

\* The first word of a text that begins with a letter or a digit does so, too.
LEMMA FirstWordIs ==
  ASSUME NEW s \in Seq(Marks), Worded(s)
  PROVE  /\ FirstWord(s) \in Seq(Marks) /\ Worded(FirstWord(s))
         /\ \A i \in 1..Len(FirstWord(s)) : FirstWord(s)[i] # Blank
<1> DEFINE blanks == {i \in 1..Len(s) : s[i] = Blank}
           m == Places!Min(blanks)
<1>1. FirstWord(s) = IF blanks = {} THEN s ELSE SubSeq(s, 1, m - 1)
  BY DEF FirstWord
<1>2. /\ Len(s) \in Nat /\ Len(s) > 0 /\ blanks \in SUBSET (1..Len(s)) /\ s[1] \in LettersDigits
      /\ \A i \in 1..Len(s) : s[i] = "-" => i < Len(s) /\ s[i + 1] \in LettersDigits
  BY DEF Worded
<1>3. CASE blanks = {}
  <2>1. FirstWord(s) = s
    BY <1>1, <1>3
  <2>2. \A i \in 1..Len(s) : s[i] # Blank
    BY <1>3
  <2> QED
    BY <2>1, <2>2
<1>4. CASE blanks # {}
  <2>1. m \in blanks /\ \A i \in blanks : m <= i
    BY <1>2, <1>4, LeastPlace
  <2>2. m \in 1..Len(s) /\ s[m] = Blank
    BY <2>1
  <2>3. m # 1
    BY <1>2, <2>2 DEF Blank, LettersDigits
  <2>4. FirstWord(s) = SubSeq(s, 1, m - 1)
    BY <1>1, <1>4
  <2>5. \A i \in 1..Len(s) : s[i] = Blank => m <= i
    BY <2>1
  <2> DEFINE w == SubSeq(s, 1, m - 1)
  <2> HIDE DEF m, blanks
  <2>6. m - 1 \in 0..Len(s) /\ m - 1 \in Nat /\ m - 1 > 0
    BY <1>2, <2>2, <2>3
  <2>7. w \in Seq(Marks) /\ Len(w) = m - 1 /\ \A i \in 1..(m - 1) : w[i] = s[i]
    BY <2>6, Prefix
  <2> HIDE DEF w
  <2>8. \A i \in 1..Len(w) : i \in 1..Len(s) /\ ~(m <= i) /\ w[i] = s[i] /\ w[i] # Blank
    <3>1. \A i \in 1..Len(w) : i \in 1..Len(s) /\ ~(m <= i) /\ w[i] = s[i]
      BY <1>2, <2>2, <2>7
    <3> QED
      BY <2>5, <3>1
  <2>9. ASSUME NEW i \in 1..Len(w), w[i] = "-" PROVE i < Len(w) /\ w[i + 1] \in LettersDigits
    <3>1. s[i + 1] \in LettersDigits
      BY <1>2, <2>8, <2>9
    <3>2. i + 1 # m
      BY <2>2, <3>1 DEF Blank, LettersDigits
    <3>3. i + 1 \in 1..(m - 1) /\ i < Len(w)
      BY <2>2, <2>6, <2>7, <3>2
    <3> QED
      BY <2>7, <3>1, <3>3
  <2>10. w # <<>> /\ w[1] = s[1]
    <3>1. 1 \in 1..(m - 1)
      BY <2>6
    <3> QED
      BY <2>6, <2>7, <3>1
  <2>11. Worded(w)
    BY <1>2, <2>9, <2>10 DEF Worded
  <2> QED
    BY <2>4, <2>7, <2>8, <2>11 DEF w
<1> QED
  BY <1>3, <1>4

\* A label has its shape and no dot.
LEMMA LabelIs ==
  ASSUME NEW s \in Seq(Marks), s # <<>>, \A i \in 1..Len(s) : s[i] \in {"a", "1", "-"},
         s[1] # "-", s[Len(s)] # "-"
  PROVE  HostLike(s, {0})
<1>1. Dots(s) = {} /\ Cardinality({}) = 0
  BY FS_EmptySet DEF Dots
<1>2. \A i \in 1..Len(s) : s[i] \in {"a", "1", "-", "."} /\ s[i] # "."
  OBVIOUS
<1>3. ASSUME NEW i \in 1..Len(s), s[i] \in {".", "-"}
      PROVE  i # 1 /\ i # Len(s) /\ s[i - 1] # "." /\ s[i + 1] # "."
  <2>1. s[i] = "-"
    BY <1>2, <1>3
  <2>2. i # 1 /\ i # Len(s)
    BY <2>1
  <2>3. i - 1 \in 1..Len(s) /\ i + 1 \in 1..Len(s)
    BY <2>2
  <2> QED
    BY <1>2, <2>2, <2>3
<1> QED
  BY <1>1, <1>2, <1>3, HostParts

\* The first word of a company's name becomes a label.
LEMMA WordSlug ==
  ASSUME NEW s \in Seq(Marks), Worded(s)
  PROVE  DomainWord(s) \in Seq(Marks) /\ HostLike(DomainWord(s), {0})
<1> DEFINE w == FirstWord(s)
           k == Kept(w)
           h == Hyphenated(Trimmed(k))
           n == Len(w)
<1>1. /\ w \in Seq(Marks) /\ Worded(w)
      /\ \A i \in 1..Len(w) : w[i] # Blank
  BY FirstWordIs
<1> HIDE DEF w
<1>2. /\ n \in Nat /\ n > 0 /\ w[1] \in LettersDigits
      /\ \A i \in 1..n : w[i] = "-" => i < n /\ w[i + 1] \in LettersDigits
  BY <1>1 DEF Worded
<1>3. k \in Seq(KeptMarks) /\ Selected(k, w, KeptMarks, n)
  BY <1>1, KeptIs
<1> HIDE DEF k
<1>4. LettersDigits \subseteq KeptMarks /\ "-" \notin LettersDigits /\ Blank \notin LettersDigits
      /\ KeptMarks \subseteq LettersDigits \cup {Blank, "-"}
  BY DEF LettersDigits, KeptMarks, Blank
<1>5. Len(k) > 0 /\ k[1] = w[1] /\ Len(k) \in Nat
  <2>1. n > 0 /\ w[1] \in KeptMarks
    BY <1>2, <1>4
  <2>2. Len(k) > 0 /\ k[1] = w[1]
    BY <1>3, <2>1 DEF Selected
  <2> QED
    BY <1>3, <2>2
<1>6. k[Len(k)] \in LettersDigits
  <2> DEFINE U == {i \in 1..n : w[i] \in KeptMarks}
             m == Places!Max(U)
  <2>1. U \in SUBSET (1..n) /\ 1 \in U
    BY <1>2, <1>4
  <2>2. m \in U /\ \A i \in U : m >= i
    <3> HIDE DEF U
    <3> QED
      BY <1>2, <2>1, GreatestPlace
  <2>3. m \in 1..n /\ w[m] \in KeptMarks /\ \A i \in 1..n : w[i] \in KeptMarks => m >= i
    BY <2>2
  <2> HIDE DEF m, U
  <2>4. \A j \in (m + 1)..n : j \in 1..n /\ ~(m >= j)
    BY <1>2, <2>3
  <2>5. k[Len(k)] = w[m]
    <3>1. \A j \in (m + 1)..n : w[j] \notin KeptMarks
      BY <2>3, <2>4
    <3> QED
      BY <1>3, <2>3, <3>1 DEF Selected
  <2>6. w[m] # "-"
    <3> SUFFICES ASSUME w[m] = "-" PROVE FALSE
      OBVIOUS
    <3>1. m < n /\ w[m + 1] \in KeptMarks
      BY <1>2, <1>4, <2>3
    <3>2. m + 1 \in (m + 1)..n
      BY <1>2, <2>3, <3>1
    <3> QED
      BY <2>3, <2>4, <3>1, <3>2
  <2>7. w[m] # Blank
    BY <1>1, <2>3
  <2> QED
    BY <1>4, <2>3, <2>5, <2>6, <2>7
<1>7. Trimmed(k) = k
  <2>1. k # <<>> /\ k[1] # Blank /\ k[Len(k)] # Blank
    BY <1>2, <1>4, <1>5, <1>6
  <2> QED
    BY <1>3, <2>1, TrimmedIs
<1>8. /\ h \in Seq({"A", "a", "1", "-"}) /\ h # <<>>
      /\ h[1] \in LettersDigits /\ h[Len(h)] \in LettersDigits
  <2>1. k # <<>> /\ k[1] \in LettersDigits
    BY <1>2, <1>5
  <2>2. /\ Hyphenated(k) \in Seq({"A", "a", "1", "-"}) /\ Hyphenated(k) # <<>>
        /\ Hyphenated(k)[1] = k[1] /\ Hyphenated(k)[Len(Hyphenated(k))] = k[Len(k)]
    BY <1>3, <1>6, <2>1, HyphenatedIs
  <2> QED
    BY <1>6, <1>7, <2>1, <2>2
<1> HIDE DEF h
<1> DEFINE l == Lower(h)
           d == Lower(l)
<1>9. h \in Seq(Marks) /\ Len(h) \in Nat /\ Len(h) > 0
      /\ \A j \in 1..Len(h) : h[j] \in {"A", "a", "1", "-"}
  <2>1. {"A", "a", "1", "-"} \subseteq Marks
    BY DEF Marks
  <2> QED
    BY <1>8, <2>1
<1>10. /\ l \in Seq(Marks) /\ Len(l) = Len(h)
       /\ \A j \in 1..Len(h) : l[j] = IF h[j] = "A" THEN "a" ELSE h[j]
  BY <1>9, LowerIs
<1> HIDE DEF l
<1>11. \A j \in 1..Len(l) : l[j] \in {"a", "1", "-"}
  BY <1>9, <1>10
<1>12. d = l
  <2>1. \A j \in 1..Len(l) : l[j] # "A"
    BY <1>11
  <2> QED
    BY <1>10, <2>1, LowerIs
<1>13. l # <<>> /\ l[1] # "-" /\ l[Len(l)] # "-"
  <2>1. 1 \in 1..Len(h) /\ Len(h) \in 1..Len(h)
    BY <1>9
  <2>2. l[1] = IF h[1] = "A" THEN "a" ELSE h[1]
    BY <1>10, <2>1
  <2>3. l[Len(l)] = IF h[Len(h)] = "A" THEN "a" ELSE h[Len(h)]
    BY <1>10, <2>1
  <2> QED
    BY <1>4, <1>8, <1>9, <1>10, <2>2, <2>3
<1>14. HostLike(l, {0})
  BY <1>10, <1>11, <1>13, LabelIs
<1>15. DomainWord(s) = d
  BY SlugIs DEF DomainWord, d, l, h, k, w
<1> QED
  BY <1>10, <1>12, <1>14, <1>15

-----------------------------------------------------------------------------
(* Segments                                                                *)

\* r is what s becomes when the next segment is written.
Follows(seg, s, r) ==
  \/ \E c \in Seq(Marks) : seg = Say(c) /\ r = s \o c
  \/ \E g \in Known : \E x : seg = Token(g) /\ Wrote(g, x) /\ r = s \o x
  \/ seg = Clear /\ r = <<>>

LEMMA Distinct ==
  /\ \A c, d : Say(c) = Say(d) => c = d
  /\ \A g, h : Token(g) = Token(h) => g = h
  /\ \A c, g : Say(c) # Token(g)
  /\ \A c : Say(c) # Clear
  /\ \A g : Token(g) # Clear
<1>1. ASSUME NEW c, NEW d, Say(c) = Say(d) PROVE c = d
  <2>1. Say(c).what = c /\ Say(d).what = d
    BY DEF Say
  <2> QED
    BY <1>1, <2>1
<1>2. ASSUME NEW g, NEW h, Token(g) = Token(h) PROVE g = h
  <2>1. Token(g).what = <<g>> /\ Token(h).what = <<h>>
    BY DEF Token
  <2>2. <<g>> = <<h>>
    BY <1>2, <2>1
  <2> QED
    BY <2>2
<1>3. /\ \A c : Say(c).op = "say"
      /\ \A g : Token(g).op = "token"
      /\ Clear.op = "clear"
  BY DEF Say, Token, Clear
<1> QED
  BY <1>1, <1>2, <1>3

LEMMA FollowsSay ==
  ASSUME NEW c, NEW s, NEW r, Follows(Say(c), s, r)
  PROVE  c \in Seq(Marks) /\ r = s \o c
BY Distinct DEF Follows

LEMMA FollowsToken ==
  ASSUME NEW g, NEW s, NEW r, Follows(Token(g), s, r)
  PROVE  \E x \in Seq(Marks) : Wrote(g, x) /\ r = s \o x
BY Distinct DEF Follows, Wrote

LEMMA FollowsClear ==
  ASSUME NEW s, NEW r, Follows(Clear, s, r)
  PROVE  r = <<>>
BY Distinct DEF Follows

LEMMA FollowsMarks ==
  ASSUME NEW seg, NEW s \in Seq(Marks), NEW r, Follows(seg, s, r)
  PROVE  r \in Seq(Marks)
<1>1. <<>> \in Seq(Marks)
  OBVIOUS
<1>2. \A c \in Seq(Marks) : s \o c \in Seq(Marks)
  BY Joined
<1> QED
  BY <1>1, <1>2 DEF Follows, Wrote

\* What is written after nothing.
LEMMA NothingBefore ==
  ASSUME NEW x \in Seq(Marks)
  PROVE  <<>> \o x = x
BY ConcatEmptySeq

\* What the formatters with code of their own consist of.
LEMMA CodedContents ==
  ASSUME NEW n
  PROVE  /\ Contents("domain_word", n) = {<<Token("company")>>}
         /\ Contents("domain_name", n) = {DomainName(n)}
         /\ Contents("hostname", n) = {Hostname(n)}
         /\ Contents("safe_email", n) = {<<Token("user_name"), Say(<<"@">>), Token("safe_domain_name")>>}
         /\ Contents("free_email", n) = {<<Token("user_name"), Say(<<"@">>), Token("free_email_domain")>>}
         /\ Contents("company_email", n) = {<<Token("user_name"), Say(<<"@">>), Token("domain_name")>>}
         /\ Contents("email", n) =
              {<<Token("user_name"), Say(<<"@">>), Clear>> \o t : t \in TableOf("email")}
         /\ Contents("url", n) = UrlBase
         /\ Contents("uri", n) =
              {b \o p \o <<Token("uri_page"), Token("uri_extension")>> :
                 b \in UrlBase, p \in UriPaths(n)}
BY DEF Contents

LEMMA TableContents ==
  ASSUME NEW n, NEW f, f \notin Coded, f \notin {"email", "url"}
  PROVE  Contents(f, n) = TableOf(f)
BY DEF Contents, Coded

-----------------------------------------------------------------------------
(* One segment more, formatter by formatter                                *)

LEMMA WordStep ==
  ASSUME NEW n, NEW t \in Contents("domain_word", n), NEW p \in 0..(Len(t) - 1),
         NEW s \in Seq(Marks), NEW r,
         IF p = 0 THEN s = <<>> ELSE Worded(s), Follows(t[p + 1], s, r)
  PROVE  Worded(r)
<1>1. t = <<Token("company")>>
  BY CodedContents
<1>2. Len(t) = 1 /\ t[1] = Token("company") /\ p = 0
  BY <1>1
<1>3. PICK x \in Seq(Marks) : Wrote("company", x) /\ r = s \o x
  BY <1>2, FollowsToken
<1>4. r = x
  BY <1>2, <1>3, NothingBefore
<1> QED
  BY <1>3, <1>4 DEF Wrote

LEMMA NameStep ==
  ASSUME NEW t \in Seq(Pieces), NameTemplate(t), NEW p \in 0..(Len(t) - 1),
         NEW s \in Seq(Marks), NEW r, NameSoFar(t, p, s), Follows(t[p + 1], s, r),
         t[p + 1] # Clear
  PROVE  NameSoFar(t, p + 1, r)
<1> DEFINE seg == t[p + 1]
<1>1. /\ p \in Nat /\ p + 1 \in 1..Len(t) /\ p + 1 # 0 /\ seg \in Pieces
      /\ r \in Seq(Marks) /\ Len(s) \in Nat
  <2>1. p \in Nat /\ p + 1 \in 1..Len(t) /\ p + 1 # 0 /\ seg \in Pieces
    OBVIOUS
  <2> QED
    BY <2>1, FollowsMarks
<1>2. p = 0 => s = <<>> /\ seg.op = "token"
  BY DEF NameSoFar, NameTemplate
<1>3. p # 0 => /\ s # <<>> /\ s[1] \in LettersDigits
               /\ \A i \in 1..Len(s) : s[i] = "-" =>
                    IF i < Len(s) THEN s[i + 1] \in LettersDigits ELSE seg.op = "token"
  BY DEF NameSoFar
<1>4. ASSUME NEW g \in Known, NEW x, seg = Token(g), Wrote(g, x), r = s \o x
      PROVE  NameSoFar(t, p + 1, r)
  <2>1. seg.op = "token" /\ seg.what[1] = g
    BY <1>4 DEF Token
  <2>2. g \in DOMAIN LeafTexts /\ \A y \in LeafTexts[g] : Worded(y)
    BY <1>1, <2>1 DEF NameTemplate
  <2>3. x \in Seq(Marks) /\ Worded(x)
    BY <1>4, <2>2 DEF Wrote
  <2>4. /\ x # <<>> /\ x[1] \in LettersDigits
        /\ \A i \in 1..Len(x) : x[i] = "-" => i < Len(x) /\ x[i + 1] \in LettersDigits
    BY <2>3 DEF Worded
  <2>5. /\ Len(r) = Len(s) + Len(x) /\ Len(x) \in Nat /\ Len(x) > 0
        /\ \A i \in 1..Len(s) : r[i] = s[i]
        /\ \A i \in 1..Len(x) : r[Len(s) + i] = x[i]
        /\ \A i \in 1..Len(r) : i \in 1..Len(s) \/ i - Len(s) \in 1..Len(x)
    <3>1. Len(x) \in Nat /\ Len(x) > 0
      BY <2>3, <2>4
    <3> QED
      BY <1>4, <2>3, <3>1, Joined
  <2>6. r # <<>> /\ r[1] \in LettersDigits
    <3>1. CASE p = 0
      <4>1. Len(s) = 0 /\ 1 \in 1..Len(x)
        BY <1>2, <2>5, <3>1
      <4>2. r[0 + 1] = x[1]
        BY <2>5, <4>1
      <4> QED
        BY <1>1, <2>4, <2>5, <4>1, <4>2
    <3>2. CASE p # 0
      <4>1. 1 \in 1..Len(s)
        BY <1>3, <3>2
      <4> QED
        BY <1>1, <1>3, <2>5, <3>2, <4>1
    <3> QED
      BY <3>1, <3>2
  <2>7. ASSUME NEW i \in 1..Len(r), r[i] = "-"
        PROVE  i < Len(r) /\ r[i + 1] \in LettersDigits
    <3>1. CASE i \in 1..Len(s)
      <4>1. p # 0 /\ s[i] = "-"
        BY <1>2, <2>5, <2>7, <3>1
      <4>2. CASE i < Len(s)
        <5>1. i + 1 \in 1..Len(s) /\ s[i + 1] \in LettersDigits
          BY <1>3, <3>1, <4>1, <4>2
        <5> QED
          BY <1>1, <2>5, <4>2, <5>1
      <4>3. CASE i = Len(s)
        <5>1. r[Len(s) + 1] = x[1]
          BY <2>5
        <5> QED
          BY <1>1, <2>4, <2>5, <4>3, <5>1
      <4> QED
        BY <3>1, <4>2, <4>3
    <3>2. CASE i - Len(s) \in 1..Len(x)
      <4> DEFINE j == i - Len(s)
      <4>1. j \in 1..Len(x) /\ i = Len(s) + j
        BY <1>1, <3>2
      <4> HIDE DEF j
      <4>2. x[j] = "-"
        BY <2>5, <2>7, <4>1
      <4>3. j < Len(x) /\ x[j + 1] \in LettersDigits
        BY <2>4, <4>1, <4>2
      <4>4. j + 1 \in 1..Len(x) /\ Len(s) + (j + 1) = i + 1
        BY <1>1, <2>5, <4>1, <4>3
      <4>5. r[i + 1] = x[j + 1]
        BY <2>5, <4>4
      <4> QED
        BY <1>1, <2>5, <4>1, <4>3, <4>5
    <3> QED
      BY <2>5, <3>1, <3>2
  <2> QED
    BY <1>1, <2>6, <2>7 DEF NameSoFar
<1>5. ASSUME NEW c \in Seq(Marks), seg = Say(c), r = s \o c
      PROVE  NameSoFar(t, p + 1, r)
  <2>1. seg.op = "say" /\ seg.what = c
    BY <1>5 DEF Say
  <2>2. p # 0
    BY <1>2, <2>1
  <2>3. \A i \in 1..Len(c) : c[i] = "-" =>
          IF i < Len(c) THEN c[i + 1] \in LettersDigits
          ELSE p + 1 < Len(t) /\ t[p + 1 + 1].op = "token"
    BY <1>1, <2>1 DEF NameTemplate
  <2>4. /\ Len(r) = Len(s) + Len(c) /\ Len(c) \in Nat
        /\ \A i \in 1..Len(s) : r[i] = s[i]
        /\ \A i \in 1..Len(c) : r[Len(s) + i] = c[i]
        /\ \A i \in 1..Len(r) : i \in 1..Len(s) \/ i - Len(s) \in 1..Len(c)
    <3>1. Len(c) \in Nat
      OBVIOUS
    <3> QED
      BY <1>5, <3>1, Joined
  <2>5. r # <<>> /\ r[1] \in LettersDigits
    <3>1. 1 \in 1..Len(s)
      BY <1>3, <2>2
    <3> QED
      BY <1>1, <1>3, <2>2, <2>4, <3>1
  <2>6. ASSUME NEW i \in 1..Len(r), r[i] = "-"
        PROVE  IF i < Len(r) THEN r[i + 1] \in LettersDigits
               ELSE p + 1 < Len(t) /\ t[p + 1 + 1].op = "token"
    <3>1. CASE i \in 1..Len(s)
      <4>1. s[i] = "-"
        BY <2>4, <2>6, <3>1
      <4>2. i < Len(s) /\ s[i + 1] \in LettersDigits
        BY <1>3, <2>1, <2>2, <3>1, <4>1
      <4>3. i + 1 \in 1..Len(s) /\ i < Len(r)
        BY <1>1, <2>4, <3>1, <4>2
      <4> QED
        BY <2>4, <4>2, <4>3
    <3>2. CASE i - Len(s) \in 1..Len(c)
      <4> DEFINE j == i - Len(s)
      <4>1. j \in 1..Len(c) /\ i = Len(s) + j
        BY <1>1, <3>2
      <4> HIDE DEF j
      <4>2. c[j] = "-"
        BY <2>4, <2>6, <4>1
      <4>3. IF j < Len(c) THEN c[j + 1] \in LettersDigits
            ELSE p + 1 < Len(t) /\ t[p + 1 + 1].op = "token"
        BY <2>3, <4>1, <4>2
      <4>4. CASE j < Len(c)
        <5>1. j + 1 \in 1..Len(c) /\ Len(s) + (j + 1) = i + 1 /\ i < Len(r)
          BY <1>1, <2>4, <4>1, <4>4
        <5>2. r[i + 1] = c[j + 1]
          BY <2>4, <5>1
        <5> QED
          BY <4>3, <4>4, <5>1, <5>2
      <4>5. CASE j = Len(c)
        <5>1. ~(i < Len(r))
          BY <1>1, <2>4, <4>1, <4>5
        <5> QED
          BY <2>4, <4>3, <4>5, <5>1
      <4> QED
        BY <2>4, <4>1, <4>4, <4>5
    <3> QED
      BY <2>4, <3>1, <3>2
  <2> QED
    BY <1>1, <2>5, <2>6 DEF NameSoFar
<1> QED
  BY <1>4, <1>5 DEF Follows

LEMMA UserStep ==
  ASSUME NEW t \in Seq(Pieces), NEW p \in 0..(Len(t) - 1), NEW s \in Seq(Marks), NEW r,
         UserSoFar(t, p, s), Follows(t[p + 1], s, r), t[p + 1] # Clear
  PROVE  UserSoFar(t, p + 1, r)
<1> DEFINE seg == t[p + 1]
<1>1. /\ p \in Nat /\ Len(t) \in Nat /\ Len(s) \in Nat
      /\ \A k \in (p + 1)..Len(t) : k = p + 1 \/ k \in (p + 1 + 1)..Len(t)
  OBVIOUS
<1>2. ASSUME NEW x \in Seq(Marks), r = s \o x PROVE Lasts(s) \/ Lasts(x) => Lasts(r)
  <2>1. /\ Len(r) = Len(s) + Len(x) /\ Len(x) \in Nat
        /\ \A i \in 1..Len(s) : r[i] = s[i]
        /\ \A i \in 1..Len(x) : r[Len(s) + i] = x[i]
    <3>1. Len(x) \in Nat
      OBVIOUS
    <3> QED
      BY <1>2, <3>1, Joined
  <2>2. \A i \in 1..Len(s) : i \in 1..Len(r)
    BY <1>1, <2>1
  <2>3. \A i \in 1..Len(x) : Len(s) + i \in 1..Len(r)
    BY <1>1, <2>1
  <2>4. Lasts(s) => Lasts(r)
    BY <2>1, <2>2 DEF Lasts
  <2>5. Lasts(x) => Lasts(r)
    BY <2>1, <2>3 DEF Lasts
  <2> QED
    BY <2>4, <2>5
<1>3. Lasts(s) \/ Lasting(seg) \/ \E k \in (p + 1 + 1)..Len(t) : Lasting(t[k])
  BY <1>1 DEF UserSoFar
<1>4. ASSUME NEW g \in Known, NEW x, seg = Token(g), Wrote(g, x), r = s \o x
      PROVE  Lasts(s) \/ Lasting(seg) => Lasts(r)
  <2>1. x \in Seq(Marks) /\ (g \in DOMAIN LeafTexts => x \in LeafTexts[g])
    BY <1>4 DEF Wrote
  <2>2. seg.op = "token" /\ seg.what[1] = g
    BY <1>4 DEF Token
  <2>3. Lasting(seg) => Lasts(x)
    BY <2>1, <2>2 DEF Lasting
  <2> QED
    BY <1>2, <1>4, <2>1, <2>3
<1>5. ASSUME NEW c \in Seq(Marks), seg = Say(c), r = s \o c
      PROVE  Lasts(s) \/ Lasting(seg) => Lasts(r)
  <2>1. seg.op = "say" /\ seg.what = c
    BY <1>5 DEF Say
  <2>2. Lasting(seg) => Lasts(c)
    BY <2>1 DEF Lasting
  <2> QED
    BY <1>2, <1>5, <2>2
<1>6. Lasts(s) \/ Lasting(seg) => Lasts(r)
  BY <1>4, <1>5 DEF Follows
<1> QED
  BY <1>3, <1>6 DEF UserSoFar

\* The segments of a domain name: labels, dots, and the top level at the end.
LEMMA DomainIs ==
  ASSUME NEW n \in Int
  PROVE  \E L \in Nat \ {0} :
           /\ L = Levels(n) /\ Len(DomainName(n)) = 2 * L + 1 /\ DomainName(n) \in Seq(Pieces)
           /\ DomainName(n)[2 * L + 1] = Token("tld")
           /\ \A j \in 1..L : DomainName(n)[2 * j] = Say(<<".">>)
           /\ \A j \in 0..(L - 1) : DomainName(n)[2 * j + 1] = Token("domain_word")
<1> DEFINE L == Levels(n)
           t == DomainName(n)
           N == 2 * L + 1
<1>1. L \in Nat \ {0}
  BY DEF Levels
<1> HIDE DEF L
<1>2. t = [i \in 1..N |-> CASE i = N -> Token("tld")
                            [] i % 2 = 0 -> Say(<<".">>)
                            [] OTHER -> Token("domain_word")]
  BY DEF DomainName, L
<1>3. "tld" \in Known /\ "domain_word" \in Known /\ <<".">> \in Seq(Marks)
  BY NamesAssumption DEF Known, Composites, Coded, Marks
<1>4. N \in Nat
  BY <1>1
<1> HIDE DEF N, t
<1>5. \A i \in 1..N : t[i] \in Pieces
  BY <1>2, <1>3 DEF Pieces
<1>6. t \in Seq(Pieces) /\ Len(t) = N
  BY <1>2, <1>4, <1>5
<1>7. t[N] = Token("tld")
  BY <1>1, <1>2 DEF N
<1>8. ASSUME NEW j \in 1..L PROVE t[2 * j] = Say(<<".">>)
  <2>1. 2 * j \in 1..N /\ 2 * j # N /\ (2 * j) % 2 = 0
    BY <1>1 DEF N
  <2> QED
    BY <1>2, <2>1
<1>9. ASSUME NEW j \in 0..(L - 1) PROVE t[2 * j + 1] = Token("domain_word")
  <2>1. 2 * j + 1 \in 1..N /\ 2 * j + 1 # N /\ (2 * j + 1) % 2 # 0
    BY <1>1 DEF N
  <2> QED
    BY <1>2, <2>1
<1> QED
  BY <1>1, <1>6, <1>7, <1>8, <1>9 DEF t, N, L

LEMMA DomainStep ==
  ASSUME NEW n \in Int, NEW p \in 0..(Len(DomainName(n)) - 1), NEW dots \in Nat,
         NEW s \in Seq(Marks), NEW r, DomainSoFar(p, s, dots), Follows(DomainName(n)[p + 1], s, r)
  PROVE  DomainSoFar(p + 1, r, dots)
<1> DEFINE t == DomainName(n)
<1>1. PICK L \in Nat \ {0} :
        /\ Len(t) = 2 * L + 1
        /\ t[2 * L + 1] = Token("tld")
        /\ \A j \in 1..L : t[2 * j] = Say(<<".">>)
        /\ \A j \in 0..(L - 1) : t[2 * j + 1] = Token("domain_word")
  BY DomainIs
<1>2. p \in Nat /\ p < 2 * L + 1 /\ Follows(t[p + 1], s, r)
  BY <1>1
<1> HIDE DEF t
<1>3. PICK j \in 0..p : \/ p = 2 * j /\ Dotted(s, j + dots)
                        \/ p = 2 * j + 1 /\ HostLike(s, {j + dots})
  BY DEF DomainSoFar
<1>4. CASE p = 2 * j /\ Dotted(s, j + dots)
  <2>1. j \in 0..L /\ j \in 0..(p + 1) /\ j \in Nat /\ j + dots \in Nat /\ p + 1 = 2 * j + 1
    BY <1>2, <1>4
  <2>2. t[p + 1] = Token("tld") \/ t[p + 1] = Token("domain_word")
    <3>1. CASE j = L
      BY <1>1, <2>1, <3>1
    <3>2. CASE j # L
      <4>1. j \in 0..(L - 1)
        BY <2>1, <3>2
      <4> QED
        BY <1>1, <2>1, <4>1
    <3> QED
      BY <3>1, <3>2
  <2>3. PICK g \in {"tld", "domain_word"} : t[p + 1] = Token(g)
    BY <2>2
  <2>4. PICK x \in Seq(Marks) : Wrote(g, x) /\ r = s \o x
    BY <1>2, <2>3, FollowsToken
  <2>5. HostLike(x, {0})
    BY <2>4 DEF Wrote
  <2>6. HostLike(r, {j + dots + 0})
    BY <1>4, <2>1, <2>4, <2>5, HostAfterDot
  <2>7. j + dots + 0 = j + dots
    BY <2>1
  <2>8. HostLike(r, {j + dots})
    BY <2>6, <2>7
  <2> QED
    BY <2>1, <2>8 DEF DomainSoFar
<1>5. CASE p = 2 * j + 1 /\ HostLike(s, {j + dots})
  <2> DEFINE k == j + 1
  <2>1. k \in 1..L /\ k \in 0..(p + 1) /\ j + dots \in Nat /\ p + 1 = 2 * k /\ j + dots + 1 = k + dots
    BY <1>2, <1>5
  <2> HIDE DEF k
  <2>2. t[p + 1] = Say(<<".">>)
    BY <1>1, <2>1
  <2>3. r = s \o <<".">>
    BY <1>2, <2>2, FollowsSay
  <2>4. Dotted(r, j + dots + 1)
    BY <1>5, <2>1, <2>3, AfterDot
  <2>5. Dotted(r, k + dots)
    BY <2>1, <2>4
  <2> QED
    BY <2>1, <2>5 DEF DomainSoFar
<1> QED
  BY <1>3, <1>4, <1>5

\* The segments of a host name.
LEMMA HostnameIs ==
  ASSUME NEW n \in Int
  PROVE  /\ Hostname(n) \in Seq(Pieces)
         /\ Hostname(n)[1] = Token("hostname_prefix") /\ Hostname(n)[2] = Say(<<"-", "1", "1">>)
         /\ n < 1 => Len(Hostname(n)) = 2
         /\ n >= 1 => /\ Hostname(n)[3] = Say(<<".">>)
                      /\ Len(Hostname(n)) = 3 + Len(DomainName(n))
                      /\ \A i \in 1..Len(DomainName(n)) : Hostname(n)[3 + i] = DomainName(n)[i]
<1> DEFINE a == <<Token("hostname_prefix"), Say(<<"-", "1", "1">>)>>
           d == <<Say(<<".">>)>>
           t == DomainName(n)
           u == IF n >= 1 THEN d \o t ELSE <<>>
<1>1. a \in Seq(Pieces) /\ Len(a) = 2 /\ a[1] = Token("hostname_prefix") /\ a[2] = Say(<<"-", "1", "1">>)
  <2>1. "hostname_prefix" \in Known /\ <<"-", "1", "1">> \in Seq(Marks)
    BY NamesAssumption DEF Known, Marks
  <2>2. Token("hostname_prefix") \in Pieces /\ Say(<<"-", "1", "1">>) \in Pieces
    BY <2>1 DEF Pieces
  <2> QED
    BY <2>2
<1>2. d \in Seq(Pieces) /\ Len(d) = 1 /\ d[1] = Say(<<".">>)
  <2>1. <<".">> \in Seq(Marks)
    BY DEF Marks
  <2>2. Say(<<".">>) \in Pieces
    BY <2>1 DEF Pieces
  <2> QED
    BY <2>2
<1>3. t \in Seq(Pieces) /\ Len(t) \in Nat
  <2>1. t \in Seq(Pieces)
    BY DomainIs
  <2> QED
    BY <2>1
<1> HIDE DEF a, d, t
<1>4. Hostname(n) = a \o u
  BY DEF Hostname, a, d, t
<1>5. CASE n < 1
  <2>1. u = <<>>
    BY <1>5
  <2>2. Hostname(n) = a
    BY <1>1, <1>4, <2>1, ConcatEmptySeq
  <2>3. ~(n >= 1)
    BY <1>5
  <2> QED
    BY <1>1, <2>2, <2>3
<1>6. CASE n >= 1
  <2> DEFINE v == d \o t
  <2>1. /\ v \in Seq(Pieces) /\ Len(v) = Len(d) + Len(t)
        /\ \A i \in 1..Len(d) : v[i] = d[i]
        /\ \A i \in 1..Len(t) : v[Len(d) + i] = t[i]
    <3>1. d \in Seq(Pieces) /\ t \in Seq(Pieces)
      BY <1>2, <1>3
    <3> QED
      BY ONLY <3>1, Joined
  <2>2. Hostname(n) = a \o v
    BY <1>4, <1>6
  <2> HIDE DEF v
  <2>3. /\ a \o v \in Seq(Pieces) /\ Len(a \o v) = Len(a) + Len(v)
        /\ \A i \in 1..Len(a) : (a \o v)[i] = a[i]
        /\ \A i \in 1..Len(v) : (a \o v)[Len(a) + i] = v[i]
    <3>1. a \in Seq(Pieces) /\ v \in Seq(Pieces)
      BY <1>1, <2>1
    <3> QED
      BY ONLY <3>1, Joined
  <2> DEFINE w == a \o v
  <2> HIDE DEF w
  <2>4. w[1] = a[1] /\ w[2] = a[2] /\ Len(w) = 2 + Len(v)
    BY <1>1, <2>3 DEF w
  <2>5. Len(v) = 1 + Len(t) /\ v[1] = d[1]
    BY <1>2, <2>1
  <2>6. w[2 + 1] = v[1] /\ Len(w) = 3 + Len(t)
    <3>1. 1 \in 1..Len(v) /\ Len(a) = 2
      BY <1>1, <1>3, <2>5
    <3>2. w[Len(a) + 1] = v[1]
      BY <2>3, <3>1 DEF w
    <3> QED
      BY <1>3, <2>4, <2>5, <3>1, <3>2
  <2>7. ASSUME NEW i \in 1..Len(t) PROVE w[3 + i] = t[i]
    <3>1. v[1 + i] = t[i]
      BY <1>2, <2>1
    <3>2. 1 + i \in 1..Len(v) /\ 2 + (1 + i) = 3 + i
      BY <1>3, <2>5
    <3>3. w[Len(a) + (1 + i)] = v[1 + i]
      BY <2>3, <3>2 DEF w
    <3> QED
      BY <1>1, <3>1, <3>2, <3>3
  <2>8. w \in Seq(Pieces) /\ w = Hostname(n)
    BY <2>2, <2>3 DEF w
  <2>9. ~(n < 1)
    BY <1>6
  <2> QED
    BY <1>1, <1>2, <2>4, <2>5, <2>6, <2>7, <2>8, <2>9 DEF t
<1> QED
  BY <1>5, <1>6

LEMMA HostStep ==
  ASSUME NEW n \in Int, NEW p \in 0..(Len(Hostname(n)) - 1),
         NEW s \in Seq(Marks), NEW r, HostSoFar(p, s), Follows(Hostname(n)[p + 1], s, r)
  PROVE  HostSoFar(p + 1, r)
<1> DEFINE t == Hostname(n)
<1>1. /\ t[1] = Token("hostname_prefix") /\ t[2] = Say(<<"-", "1", "1">>)
      /\ n < 1 => Len(t) = 2
      /\ n >= 1 => /\ t[3] = Say(<<".">>) /\ Len(t) = 3 + Len(DomainName(n))
                   /\ \A i \in 1..Len(DomainName(n)) : t[3 + i] = DomainName(n)[i]
  BY HostnameIs
<1>2. p \in Nat /\ p < Len(t) /\ Len(t) \in Nat /\ Follows(t[p + 1], s, r)
  <2>1. t \in Seq(Pieces)
    BY HostnameIs
  <2>2. Len(t) \in Nat
    BY <2>1
  <2> QED
    BY <2>2
<1>9. Len(DomainName(n)) \in Nat
  <2>1. DomainName(n) \in Seq(Pieces)
    BY DomainIs
  <2> QED
    BY <2>1
<1> HIDE DEF t
<1>3. CASE p = 0
  <2>0. Follows(Token("hostname_prefix"), s, r)
    BY <1>1, <1>2, <1>3
  <2>1. PICK x \in Seq(Marks) : Wrote("hostname_prefix", x) /\ r = s \o x
    BY <2>0, FollowsToken
  <2>2. r = x
    BY <1>3, <2>1, NothingBefore DEF HostSoFar
  <2> QED
    BY <1>3, <2>1, <2>2 DEF HostSoFar, Wrote
<1>4. CASE p = 1
  <2>0. Follows(Say(<<"-", "1", "1">>), s, r) /\ HostLike(s, {0})
    <3>1. p + 1 = 2
      BY <1>4
    <3> QED
      BY <1>1, <1>2, <1>4, <3>1 DEF HostSoFar
  <2>1. r = s \o <<"-", "1", "1">> /\ HostLike(s, {0})
    BY <2>0, FollowsSay
  <2>2. HostLike(r, {0})
    BY <2>1, Numbered
  <2> QED
    BY <1>4, <2>2 DEF HostSoFar
<1>5. CASE p = 2
  <2>1. n >= 1
    BY <1>1, <1>2, <1>5
  <2>0. Follows(Say(<<".">>), s, r) /\ HostLike(s, {0})
    <3>1. p + 1 = 3
      BY <1>5
    <3> QED
      BY <1>1, <1>2, <1>5, <2>1, <3>1 DEF HostSoFar
  <2>2. r = s \o <<".">> /\ HostLike(s, {0})
    BY <2>0, FollowsSay
  <2>3. Dotted(r, 0 + 1)
    BY <2>2, AfterDot
  <2>4. DomainSoFar(0, r, 1)
    <3>1. 0 \in 0..0 /\ 0 = 2 * 0
      OBVIOUS
    <3> QED
      BY <2>3, <3>1 DEF DomainSoFar
  <2>5. p + 1 = 3 /\ p + 1 - 3 = 0
    BY <1>5
  <2> QED
    BY <2>4, <2>5 DEF HostSoFar
<1>6. CASE p > 2
  <2>1. n >= 1
    BY <1>1, <1>2, <1>6
  <2> DEFINE q == p - 3
  <2>2. q \in 0..(Len(DomainName(n)) - 1) /\ q + 1 \in 1..Len(DomainName(n)) /\ 3 + (q + 1) = p + 1
    BY <1>1, <1>2, <1>6, <1>9, <2>1
  <2>3. DomainSoFar(q, s, 1)
    BY <1>6 DEF HostSoFar
  <2>6. p + 1 > 2 /\ p + 1 - 3 = q + 1 /\ p + 1 # 0 /\ p + 1 \notin {1, 2}
    BY <1>2, <1>6
  <2> HIDE DEF q
  <2>4. Follows(DomainName(n)[q + 1], s, r)
    <3>1. t[3 + (q + 1)] = DomainName(n)[q + 1]
      BY <1>1, <2>1, <2>2
    <3> QED
      BY <1>2, <2>2, <3>1
  <2>5. DomainSoFar(q + 1, r, 1)
    BY <2>2, <2>3, <2>4, DomainStep
  <2> QED
    BY <2>5, <2>6 DEF HostSoFar
<1> QED
  BY <1>2, <1>3, <1>4, <1>5, <1>6

MailHosts == {"domain_name", "free_email_domain", "safe_domain_name"}
Mailed(h) == <<Token("user_name"), Say(<<"@">>), Token(h)>>

LEMMA MailStep ==
  ASSUME NEW h \in MailHosts,
         NEW p \in 0..2, NEW s \in Seq(Marks), NEW r,
         MailSoFar(p, s), Follows(Mailed(h)[p + 1], s, r)
  PROVE  MailSoFar(p + 1, r)
<1> DEFINE t == Mailed(h)
<1>1. t[1] = Token("user_name") /\ t[2] = Say(<<"@">>) /\ t[3] = Token(h)
  BY DEF Mailed
<1> HIDE DEF t
<1>9. Follows(t[p + 1], s, r)
  BY DEF t
<1>2. CASE p = 0
  <2>0. s = <<>>
    BY <1>2 DEF MailSoFar
  <2>1. Follows(Token("user_name"), s, r)
    <3>1. p + 1 = 1
      BY <1>2
    <3> QED
      BY <1>1, <1>9, <3>1
  <2>2. PICK x \in Seq(Marks) : Wrote("user_name", x) /\ r = s \o x
    BY <2>1, FollowsToken
  <2>3. r = x /\ LocalLike(x)
    BY <2>0, <2>2, NothingBefore DEF Wrote
  <2>4. p + 1 = 1
    BY <1>2
  <2> QED
    BY <2>3, <2>4 DEF MailSoFar
<1>3. CASE p = 1
  <2>0. LocalLike(s) /\ p + 1 = 2
    BY <1>3 DEF MailSoFar
  <2>1. Follows(Say(<<"@">>), s, r)
    BY <1>1, <1>9, <2>0
  <2>2. r = s \o <<"@">>
    BY <2>1, FollowsSay
  <2>3. <<"@">> \in Seq(Marks) /\ Len(<<"@">>) = 1 /\ <<"@">>[1] = "@"
    BY DEF Marks
  <2>4. /\ Len(r) = Len(s) + 1 /\ r[Len(s) + 1] = "@" /\ SubSeq(r, 1, Len(s)) = s
        /\ Len(s) \in Nat /\ r \in Seq(Marks)
    BY <2>2, <2>3, Joined, Behind
  <2>5. r # <<>> /\ r[Len(r)] = "@" /\ SubSeq(r, 1, Len(r) - 1) = s
    <3>1. Len(r) - 1 = Len(s) /\ r # <<>>
      BY <2>4
    <3> QED
      BY <2>4, <3>1
  <2>6. LocalLike(SubSeq(r, 1, Len(r) - 1))
    BY <2>0, <2>5
  <2> QED
    BY <2>0, <2>5, <2>6 DEF MailSoFar
<1>4. CASE p = 2
  <2>0. p + 1 = 3
    BY <1>4
  <2>1. s # <<>> /\ s[Len(s)] = "@" /\ LocalLike(SubSeq(s, 1, Len(s) - 1))
    BY <1>4 DEF MailSoFar
  <2>9. Follows(Token(h), s, r)
    BY <1>1, <1>9, <2>0
  <2>2. PICK x \in Seq(Marks) : Wrote(h, x) /\ r = s \o x
    BY <2>9, FollowsToken
  <2>3. HostLike(x, {1})
    BY <2>2 DEF Wrote, MailHosts
  <2>4. MailLike(r)
    BY <2>1, <2>2, <2>3, MailJoined
  <2> QED
    BY <2>0, <2>4 DEF MailSoFar
<1> QED
  BY <1>2, <1>3, <1>4

\* A user name that is thrown away, and a template of the table.
LEMMA EmailIs ==
  ASSUME NEW n, NEW t \in Contents("email", n)
  PROVE  /\ t \in Seq(Pieces) /\ Len(t) = 6 /\ t[3] = Clear
         /\ \E h \in MailHosts : \A i \in 1..3 : t[3 + i] = Mailed(h)[i]
<1> DEFINE a == <<Token("user_name"), Say(<<"@">>), Clear>>
<1>0. t \in {<<Token("user_name"), Say(<<"@">>), Clear>> \o m : m \in TableOf("email")}
  <2>1. Contents("email", n) =
          {<<Token("user_name"), Say(<<"@">>), Clear>> \o m : m \in TableOf("email")}
    BY DEF Contents
  <2> QED
    BY <2>1
<1>1. PICK m \in TableOf("email") : t = a \o m
  BY <1>0
<1>2. MailTemplate(m)
  BY NamesAssumption DEF TableOf
<1>3. PICK h \in MailHosts : m = Mailed(h)
  BY <1>2 DEF MailTemplate, MailHosts, Mailed
<1>4. "user_name" \in Known /\ h \in Known /\ <<"@">> \in Seq(Marks)
  BY NamesAssumption DEF Known, Composites, Coded, Marks, MailHosts
<1>5. Token("user_name") \in Pieces /\ Token(h) \in Pieces /\ Say(<<"@">>) \in Pieces /\ Clear \in Pieces
  BY <1>4 DEF Pieces
<1>6. /\ a \in Seq(Pieces) /\ Len(a) = 3 /\ a[3] = Clear
      /\ m \in Seq(Pieces) /\ Len(m) = 3
  BY <1>3, <1>5 DEF Mailed
<1> HIDE DEF a
<1>7. /\ t \in Seq(Pieces) /\ Len(t) = 3 + 3
      /\ \A i \in 1..Len(a) : t[i] = a[i]
      /\ \A i \in 1..Len(m) : t[Len(a) + i] = m[i]
  <2>1. a \in Seq(Pieces) /\ m \in Seq(Pieces)
    BY <1>6
  <2>2. /\ a \o m \in Seq(Pieces) /\ Len(a \o m) = Len(a) + Len(m)
        /\ \A i \in 1..Len(a) : (a \o m)[i] = a[i]
        /\ \A i \in 1..Len(m) : (a \o m)[Len(a) + i] = m[i]
    BY ONLY <2>1, Joined
  <2> QED
    BY <1>1, <1>6, <2>2
<1>8. t[3] = Clear /\ Len(t) = 6 /\ \A i \in 1..3 : t[3 + i] = m[i]
  BY <1>6, <1>7
<1> QED
  BY <1>3, <1>7, <1>8

LEMMA Three ==
  ASSUME NEW x, NEW y, NEW z
  PROVE  <<x>> \o <<y, z>> = <<x, y, z>>
<1> DEFINE S == {x, y, z}
<1>1. <<x>> \in Seq(S) /\ <<y, z>> \in Seq(S) /\ <<x, y, z>> \in Seq(S)
  OBVIOUS
<1>2. /\ <<x>> \o <<y, z>> \in Seq(S) /\ Len(<<x>> \o <<y, z>>) = 3
      /\ \A i \in 1..3 : (<<x>> \o <<y, z>>)[i] = <<x, y, z>>[i]
  <2>1. /\ <<x>> \o <<y, z>> \in Seq(S) /\ Len(<<x>> \o <<y, z>>) = Len(<<x>>) + Len(<<y, z>>)
        /\ \A i \in 1..Len(<<x>>) : (<<x>> \o <<y, z>>)[i] = <<x>>[i]
        /\ \A i \in 1..Len(<<y, z>>) : (<<x>> \o <<y, z>>)[Len(<<x>>) + i] = <<y, z>>[i]
    BY ONLY <1>1, Joined
  <2>2. Len(<<x>>) = 1 /\ Len(<<y, z>>) = 2
    OBVIOUS
  <2> DEFINE q == <<x>> \o <<y, z>>
  <2>3. q[1] = x /\ q[1 + 1] = y /\ q[1 + 2] = z
    <3>1. 1 \in 1..Len(<<x>>) /\ 1 \in 1..Len(<<y, z>>) /\ 2 \in 1..Len(<<y, z>>)
      BY <2>2
    <3>2. q[1] = <<x>>[1] /\ q[Len(<<x>>) + 1] = <<y, z>>[1] /\ q[Len(<<x>>) + 2] = <<y, z>>[2]
      BY <2>1, <3>1
    <3> QED
      BY <2>2, <3>2
  <2> HIDE DEF q
  <2>4. \A i \in 1..3 : i = 1 \/ i = 2 \/ i = 3
    OBVIOUS
  <2>5. \A i \in 1..3 : q[i] = <<x, y, z>>[i]
    BY <2>3, <2>4
  <2> QED
    BY <2>1, <2>2, <2>5 DEF q
<1> HIDE DEF S
<1>3. Len(<<x, y, z>>) = 3
  OBVIOUS
<1> QED
  BY <1>1, <1>2, <1>3, SameSequence

LEMMA Readable ==
  ASSUME NEW c \in Seq(STRING)
  PROVE  c \in Seq(Marks)
<1>1. Len(c) \in Nat /\ c = [i \in 1..Len(c) |-> c[i]]
  OBVIOUS
<1>2. \A i \in 1..Len(c) : c[i] \in Marks
  BY DEF Marks
<1> QED
  BY <1>1, <1>2

\* The parts of a URL up to its path.
LEMMA BaseIs ==
  ASSUME NEW b \in UrlBase
  PROVE  /\ b \in Seq(Pieces) /\ Len(b) \in {3, 4}
         /\ \E scheme \in Schemes : b[1] = Say(Rooted(scheme))
         /\ Len(b) = 4 => \E c \in Seq(Marks) : b[2] = Say(c) /\ Dotted(c, 1)
         /\ b[Len(b) - 1] = Token("domain_name") /\ b[Len(b)] = Say(<<"/">>)
<1>0. UrlBase = {<<Say(Rooted(scheme))>> \o t : scheme \in Schemes, t \in TableOf("url")}
  BY DEF UrlBase, Schemes, Rooted
<1>1. PICK scheme \in Schemes, t \in TableOf("url") : b = <<Say(Rooted(scheme))>> \o t
  BY <1>0
<1>2. UrlTemplate(t) /\ t \in Seq(TemplatePieces)
  BY NamesAssumption DEF TableOf
<1> DEFINE a == <<Say(Rooted(scheme))>>
           d == Token("domain_name")
           e == Say(<<"/">>)
<1>3. d \in Pieces /\ e \in Pieces /\ Say(Rooted(scheme)) \in Pieces
  <2>1. "domain_name" \in Known /\ <<"/">> \in Seq(Marks) /\ Rooted(scheme) \in Seq(Marks)
    BY RootIs DEF Known, Composites, Coded, Marks
  <2> QED
    BY <2>1 DEF Pieces
<1>4. a \in Seq(Pieces) /\ Len(a) = 1 /\ a[1] = Say(Rooted(scheme))
  BY <1>3
<1>5. t \in Seq(Pieces) /\ Len(t) \in {2, 3} /\ t[Len(t) - 1] = d /\ t[Len(t)] = e
      /\ (Len(t) = 3 => \E c \in Seq(Marks) : t[1] = Say(c) /\ Dotted(c, 1))
  <2>1. CASE t = UrlEnd
    <3>1. t = <<d, e>>
      BY <2>1 DEF UrlEnd
    <3> HIDE DEF d, e
    <3> QED
      BY <1>3, <3>1
  <2>2. CASE t # UrlEnd
    <3> DEFINE c == t[1].what
    <3>1. /\ t = <<Say(c)>> \o UrlEnd /\ Len(c) > 0 /\ c[Len(c)] = "."
          /\ HostLike(SubSeq(c, 1, Len(c) - 1), {0})
      BY <1>2, <2>2 DEF UrlTemplate
    <3>2. t = <<Say(c), d, e>>
      <4> DEFINE f == Say(c)
      <4>1. t = <<f>> \o <<d, e>>
        BY <3>1 DEF UrlEnd
      <4> HIDE DEF f, d, e
      <4>2. t = <<f, d, e>>
        BY <4>1, Three
      <4> QED
        BY <4>2 DEF f
    <3>3. t[1] = Say(c) /\ t[1] \in TemplatePieces
      <4> HIDE DEF c, d, e
      <4>1. Len(t) = 3 /\ t[1] = Say(c)
        BY <3>2
      <4> QED
        BY <1>2, <4>1
    <3>4. c \in Seq(STRING)
      <4>1. t[1].op = "say"
        BY <3>3 DEF Say
      <4> QED
        BY <3>3, <4>1 DEF TemplatePieces, Token
    <3>5. c \in Seq(Marks)
      <4> HIDE DEF c
      <4> QED
        BY <3>4, Readable
    <3>6. Dotted(c, 1)
      <4>1. c # <<>> /\ 1 # 0 /\ {1 - 1} = {0}
        BY <3>1, <3>5
      <4> QED
        BY <3>1, <4>1 DEF Dotted
    <3>7. Say(c) \in Pieces
      BY <3>5 DEF Pieces
    <3>8. t \in Seq(Pieces) /\ Len(t) = 3 /\ t[2] = d /\ t[3] = e
      <4> DEFINE f == Say(c)
      <4>1. t = <<f, d, e>> /\ f \in Pieces
        BY <3>2, <3>7
      <4> HIDE DEF f, c, d, e
      <4> QED
        BY <1>3, <4>1
    <3> QED
      BY <3>3, <3>5, <3>6, <3>8
  <2> QED
    BY <2>1, <2>2
<1> HIDE DEF a, d, e
<1>6. /\ b \in Seq(Pieces) /\ Len(b) = 1 + Len(t)
      /\ \A i \in 1..1 : b[i] = a[i] /\ \A j \in 1..Len(t) : b[1 + j] = t[j]
  <2>1. b = a \o t
    BY <1>1 DEF a
  <2>2. a \in Seq(Pieces) /\ t \in Seq(Pieces)
    BY <1>4, <1>5
  <2>3. /\ a \o t \in Seq(Pieces) /\ Len(a \o t) = Len(a) + Len(t)
        /\ \A i \in 1..Len(a) : (a \o t)[i] = a[i]
        /\ \A j \in 1..Len(t) : (a \o t)[Len(a) + j] = t[j]
    BY ONLY <2>2, Joined
  <2> QED
    BY <1>4, <2>1, <2>3
<1>7. b[1] = Say(Rooted(scheme)) /\ Len(b) \in {3, 4}
  <2>1. 1 \in 1..1 /\ Len(b) = 1 + Len(t)
    BY <1>6
  <2>2. b[1] = a[1]
    BY <1>6, <2>1
  <2>3. Len(b) \in {3, 4}
    <3>1. Len(t) = 2 \/ Len(t) = 3
      BY <1>5
    <3>2. CASE Len(t) = 2
      BY <2>1, <3>2
    <3>3. CASE Len(t) = 3
      BY <2>1, <3>3
    <3> QED
      BY <3>1, <3>2, <3>3
  <2> QED
    BY <1>4, <2>2, <2>3
<1>8. b[Len(b) - 1] = d /\ b[Len(b)] = e
  <2>1. Len(t) - 1 \in 1..Len(t) /\ Len(t) \in 1..Len(t) /\ 1 + (Len(t) - 1) = Len(b) - 1
    BY <1>5, <1>6
  <2>2. b[1 + (Len(t) - 1)] = t[Len(t) - 1] /\ b[1 + Len(t)] = t[Len(t)]
    BY <1>6, <2>1
  <2> QED
    BY <1>5, <1>6, <2>1, <2>2
<1>9. ASSUME Len(b) = 4 PROVE \E c \in Seq(Marks) : b[2] = Say(c) /\ Dotted(c, 1)
  <2>1. Len(t) = 3
    <3>1. Len(t) = 2 \/ Len(t) = 3
      BY <1>5
    <3>2. Len(b) = 1 + Len(t)
      BY <1>6
    <3>3. CASE Len(t) = 2
      BY <1>9, <3>2, <3>3
    <3> QED
      BY <3>1, <3>3
  <2>2. 1 \in 1..Len(t) /\ 1 + 1 = 2
    BY <2>1
  <2>3. b[2] = t[1]
    BY <1>6, <2>2
  <2> QED
    BY <1>5, <2>1, <2>3
<1> QED
  BY <1>6, <1>7, <1>8, <1>9 DEF d, e

LEMMA UrlGoes ==
  ASSUME NEW b \in UrlBase, NEW p \in 1..(Len(b) - 1), NEW scheme \in Schemes,
         NEW h \in Seq(Marks), UrlHost(b, p, h)
  PROVE  UrlSoFar(b, p, Rooted(scheme) \o h)
<1> DEFINE s == Rooted(scheme) \o h
<1>1. /\ Rooted(scheme) \in Seq(Marks) /\ Len(Rooted(scheme)) = Len(scheme) + 3
      /\ Len(scheme) \in Nat
  BY RootIs
<1>2. SubSeq(s, Len(Rooted(scheme)) + 1, Len(s)) = h
  BY <1>1, Behind
<1>3. Len(Rooted(scheme)) + 1 = Len(scheme) + 4
  BY <1>1
<1>4. After(scheme, s) = h
  BY <1>2, <1>3 DEF After
<1>5. p # 0 /\ ~(p >= Len(b))
  <2>1. Len(b) \in Nat
    BY BaseIs
  <2> QED
    BY <2>1
<1>6. s = Rooted(scheme) \o After(scheme, s) /\ UrlHost(b, p, After(scheme, s))
  BY <1>4
<1> HIDE DEF s
<1>7. UrlSoFar(b, p, s)
  BY <1>5, <1>6 DEF UrlSoFar, Schemes
<1> QED
  BY <1>7 DEF s

LEMMA UrlWent ==
  ASSUME NEW b \in UrlBase, NEW p \in 1..(Len(b) - 1), NEW s \in Seq(Marks), UrlSoFar(b, p, s)
  PROVE  \E scheme \in Schemes, h \in Seq(Marks) : s = Rooted(scheme) \o h /\ UrlHost(b, p, h)
<1>1. p # 0 /\ ~(p >= Len(b))
  <2>1. Len(b) \in Nat
    BY BaseIs
  <2> QED
    BY <2>1
<1>2. PICK scheme \in Schemes : s = Rooted(scheme) \o After(scheme, s) /\ UrlHost(b, p, After(scheme, s))
  BY <1>1 DEF UrlSoFar, Schemes
<1>3. After(scheme, s) \in Seq(Marks)
  <2>1. Len(scheme) \in Nat /\ Len(s) \in Nat
    BY RootIs
  <2>2. Len(scheme) + 4 \in Int /\ \A i \in (Len(scheme) + 4)..Len(s) : s[i] \in Marks
    BY <2>1
  <2> QED
    BY <2>1, <2>2, SubSeqProperties DEF After
<1> QED
  BY <1>2, <1>3

LEMMA UrlCounts ==
  ASSUME NEW N \in 3..4, NEW p \in Nat
  PROVE  /\ p = 0 => p < N /\ p + 1 = 1
         /\ 1 \in 1..(N - 1) /\ 1 # N - 1 /\ 1 - 1 = 0
         /\ p >= N => p # 0 /\ p + 1 # 0 /\ p + 1 >= N
         /\ p = 0 \/ (p = 1 /\ N = 4) \/ p = N - 2 \/ p = N - 1 \/ p >= N
OBVIOUS

LEMMA UrlStep ==
  ASSUME NEW b \in UrlBase, NEW t \in Seq(Pieces), Begins(b, t), NEW p \in 0..(Len(t) - 1),
         NEW s \in Seq(Marks), NEW r, UrlSoFar(b, p, s), Follows(t[p + 1], s, r), t[p + 1] # Clear
  PROVE  UrlSoFar(b, p + 1, r)
<1>1. /\ b \in Seq(Pieces) /\ Len(b) \in {3, 4} /\ Len(b) <= Len(t) /\ p \in Nat /\ Len(t) \in Nat
      /\ b[Len(b) - 1] = Token("domain_name") /\ b[Len(b)] = Say(<<"/">>)
  <2>1. b \in Seq(Pieces) /\ Len(b) \in {3, 4}
    BY BaseIs
  <2>2. b[Len(b) - 1] = Token("domain_name") /\ b[Len(b)] = Say(<<"/">>)
    BY BaseIs
  <2>3. Len(b) <= Len(t) /\ p \in Nat /\ Len(t) \in Nat
    BY DEF Begins
  <2> QED
    BY <2>1, <2>2, <2>3
<1>2. Len(b) \in 3..4
  <2>1. 3 \in 3..4 /\ 4 \in 3..4
    OBVIOUS
  <2> QED
    BY <1>1, <2>1
<1>10. /\ p = 0 => p < Len(b) /\ p + 1 = 1
       /\ 1 \in 1..(Len(b) - 1) /\ 1 # Len(b) - 1 /\ 1 - 1 = 0
       /\ p >= Len(b) => p # 0 /\ p + 1 # 0 /\ p + 1 >= Len(b)
       /\ p = 0 \/ (p = 1 /\ Len(b) = 4) \/ p = Len(b) - 2 \/ p = Len(b) - 1 \/ p >= Len(b)
  <2>1. p \in Nat
    BY <1>1
  <2> QED
    BY <1>2, <2>1, UrlCounts
<1>3. ASSUME p < Len(b) PROVE Follows(b[p + 1], s, r)
  <2>1. Len(b) \in 0..Len(t) /\ p + 1 \in 1..Len(b)
    BY <1>1, <1>3
  <2>2. \A i \in 1..Len(b) : SubSeq(t, 1, Len(b))[i] = t[i]
    BY <2>1, Prefix
  <2>3. b[p + 1] = t[p + 1]
    BY <2>1, <2>2 DEF Begins
  <2> QED
    BY <2>3
<1>4. CASE p = 0
  <2>1. PICK scheme \in Schemes : b[1] = Say(Rooted(scheme))
    BY BaseIs
  <2>2. Follows(Say(Rooted(scheme)), s, r)
    <3>1. p < Len(b) /\ p + 1 = 1
      BY <1>4, <1>10
    <3> QED
      BY <1>3, <2>1, <3>1
  <2>3. s = <<>> /\ Rooted(scheme) \in Seq(Marks)
    BY <1>4, RootIs DEF UrlSoFar
  <2>4. r = Rooted(scheme) \o <<>> /\ <<>> \in Seq(Marks)
    <3>1. r = s \o Rooted(scheme)
      BY <2>2, FollowsSay
    <3>2. r = Rooted(scheme)
      BY <2>3, <3>1, NothingBefore
    <3> QED
      BY <2>3, <3>2, ConcatEmptySeq
  <2>5. UrlHost(b, 1, <<>>)
    <3>1. 1 # Len(b) - 1 /\ 1 - 1 = 0
      BY <1>10
    <3> QED
      BY <3>1 DEF UrlHost, Dotted
  <2>6. 1 \in 1..(Len(b) - 1) /\ p + 1 = 1
    BY <1>4, <1>10
  <2>7. UrlSoFar(b, 1, Rooted(scheme) \o <<>>)
    BY <2>4, <2>5, <2>6, UrlGoes
  <2> QED
    BY <2>4, <2>6, <2>7
<1>5. CASE p = 1 /\ Len(b) = 4
  <2>1. PICK c \in Seq(Marks) : b[2] = Say(c) /\ Dotted(c, 1)
    BY <1>5, BaseIs
  <2>2. Follows(Say(c), s, r)
    <3>1. p < Len(b) /\ p + 1 = 2
      BY <1>5
    <3> QED
      BY <1>3, <2>1, <3>1
  <2>3. r = s \o c
    BY <2>2, FollowsSay
  <2>4. p \in 1..(Len(b) - 1) /\ p # Len(b) - 1 /\ p - 1 = 0
    BY <1>5
  <2>5. PICK scheme \in Schemes, h \in Seq(Marks) : s = Rooted(scheme) \o h /\ UrlHost(b, p, h)
    BY <2>4, UrlWent
  <2>6. h = <<>>
    BY <2>4, <2>5 DEF UrlHost, Dotted
  <2>7. r = Rooted(scheme) \o c
    <3>1. Rooted(scheme) \in Seq(Marks)
      BY RootIs
    <3>2. s = Rooted(scheme)
      BY <2>5, <2>6, <3>1, ConcatEmptySeq
    <3> QED
      BY <2>3, <3>2
  <2>8. 2 \in 1..(Len(b) - 1) /\ 2 # Len(b) - 1 /\ 2 - 1 = 1 /\ p + 1 = 2
    BY <1>5
  <2>9. UrlHost(b, 2, c)
    BY <2>1, <2>8 DEF UrlHost
  <2>10. UrlSoFar(b, 2, Rooted(scheme) \o c)
    BY <2>8, <2>9, UrlGoes
  <2> QED
    BY <2>7, <2>8, <2>10
<1>6. CASE p = Len(b) - 2
  <2>1. /\ p < Len(b) /\ p + 1 = Len(b) - 1 /\ p \in 1..(Len(b) - 1) /\ p # Len(b) - 1
        /\ p + 1 \in 1..(Len(b) - 1) /\ p - 1 \in Nat /\ p - 1 + 1 = Len(b) - 2
    BY <1>2, <1>6
  <2>2. Follows(Token("domain_name"), s, r)
    BY <1>1, <1>3, <2>1
  <2>3. PICK x \in Seq(Marks) : Wrote("domain_name", x) /\ r = s \o x
    BY <2>2, FollowsToken, SMTT(30)
  <2>4. HostLike(x, {1})
    BY <2>3 DEF Wrote
  <2>5. PICK scheme \in Schemes, h \in Seq(Marks) : s = Rooted(scheme) \o h /\ UrlHost(b, p, h)
    BY <2>1, UrlWent
  <2>6. Dotted(h, p - 1)
    BY <2>1, <2>5 DEF UrlHost
  <2>7. h \o x \in Seq(Marks) /\ HostLike(h \o x, {p - 1 + 1})
    BY <2>1, <2>4, <2>6, HostAfterDot
  <2>8. HostLike(h \o x, {Len(b) - 2})
    BY <2>1, <2>7
  <2>9. UrlHost(b, p + 1, h \o x)
    BY <2>1, <2>8 DEF UrlHost
  <2>10. UrlSoFar(b, p + 1, Rooted(scheme) \o (h \o x))
    BY <2>1, <2>7, <2>9, UrlGoes
  <2>11. r = Rooted(scheme) \o (h \o x)
    <3>1. Rooted(scheme) \in Seq(Marks)
      BY RootIs
    <3>2. (Rooted(scheme) \o h) \o x = Rooted(scheme) \o (h \o x)
      <4>1. h \in Seq(Marks) /\ x \in Seq(Marks)
        OBVIOUS
      <4> QED
        BY ONLY <3>1, <4>1, ConcatAssociative, SMTT(40)
    <3> QED
      BY <2>3, <2>5, <3>2
  <2> QED
    BY <2>10, <2>11
<1>7. CASE p = Len(b) - 1
  <2>1. /\ p < Len(b) /\ p + 1 = Len(b) /\ p \in 1..(Len(b) - 1) /\ Len(b) - 2 \in {1, 2}
        /\ p + 1 # 0 /\ p + 1 >= Len(b)
    BY <1>2, <1>7
  <2>2. Follows(Say(<<"/">>), s, r)
    BY <1>1, <1>3, <2>1
  <2>3. r = s \o <<"/">>
    BY <2>2, FollowsSay
  <2>4. PICK scheme \in Schemes, h \in Seq(Marks) : s = Rooted(scheme) \o h /\ UrlHost(b, p, h)
    BY <2>1, UrlWent
  <2>5. HostLike(h, {Len(b) - 2})
    BY <1>7, <2>4 DEF UrlHost
  <2>6. UrlLike((Rooted(scheme) \o h) \o <<"/">>)
    BY <2>1, <2>5, UrlClosed
  <2> QED
    BY <2>1, <2>3, <2>4, <2>6 DEF UrlSoFar
<1>8. CASE p >= Len(b)
  <2>1. p # 0 /\ p + 1 # 0 /\ p + 1 >= Len(b)
    BY <1>8, <1>10
  <2>2. UrlLike(s)
    BY <1>8, <2>1 DEF UrlSoFar
  <2>3. PICK x \in Seq(Marks) : r = s \o x
    BY DEF Follows, Wrote
  <2>4. UrlLike(r)
    BY <2>2, <2>3, UrlKept
  <2> QED
    BY <2>1, <2>4 DEF UrlSoFar
<1> QED
  BY <1>4, <1>5, <1>6, <1>7, <1>8, <1>10

-----------------------------------------------------------------------------
(* What the formatters are made of, as sequences of pieces                 *)

Solid == Pieces \ {Clear}

LEMMA SolidIs ==
  ASSUME NEW t \in Seq(Solid)
  PROVE  t \in Seq(Pieces) /\ \A i \in 1..Len(t) : t[i] # Clear
<1>1. Len(t) \in Nat /\ \A i \in 1..Len(t) : t[i] \in Solid
  OBVIOUS
<1>2. \A i \in 1..Len(t) : t[i] \in Pieces /\ t[i] # Clear
  BY <1>1 DEF Solid
<1>3. t = [i \in 1..Len(t) |-> t[i]]
  OBVIOUS
<1> QED
  BY <1>1, <1>2, <1>3

LEMMA SolidPieces ==
  /\ \A c \in Seq(Marks) : Say(c) \in Solid
  /\ \A g \in Known : Token(g) \in Solid
<1>1. ASSUME NEW c \in Seq(Marks) PROVE Say(c) \in Solid
  <2>1. Say(c) # Clear
    BY Distinct
  <2> QED
    BY <2>1 DEF Solid, Pieces
<1>2. ASSUME NEW g \in Known PROVE Token(g) \in Solid
  <2>1. Token(g) # Clear
    BY Distinct
  <2> QED
    BY <2>1 DEF Solid, Pieces
<1> QED
  BY <1>1, <1>2

LEMMA TemplateIs ==
  ASSUME NEW f \in DOMAIN TemplateTables, NEW t \in TableOf(f)
  PROVE  t \in Seq(Solid)
<1>1. t \in Seq(TemplatePieces)
  BY NamesAssumption DEF TableOf
<1>2. ASSUME NEW x \in TemplatePieces PROVE x \in Solid
  <2>1. CASE x \in [op : {"say"}, what : Seq(STRING)]
    <3>1. x = Say(x.what) /\ x.what \in Seq(STRING)
      BY <2>1 DEF Say
    <3>2. x.what \in Seq(Marks)
      BY <3>1, Readable
    <3> QED
      BY <3>1, <3>2, SolidPieces
  <2>2. CASE x \in {Token(g) : g \in DOMAIN LeafTexts \cup Composites}
    BY <2>2, SolidPieces DEF Known
  <2> QED
    BY <2>1, <2>2 DEF TemplatePieces
<1>3. Len(t) \in Nat /\ t = [i \in 1..Len(t) |-> t[i]] /\ \A i \in 1..Len(t) : t[i] \in TemplatePieces
  BY <1>1
<1> QED
  BY <1>2, <1>3

LEMMA BaseSolid ==
  ASSUME NEW b \in UrlBase
  PROVE  b \in Seq(Solid)
<1>1. b \in Seq(Pieces) /\ Len(b) \in {3, 4}
  BY BaseIs
<1>2. b[Len(b) - 1] \in Solid /\ b[Len(b)] \in Solid
  <2>1. <<"/">> \in Seq(Marks) /\ "domain_name" \in Known
    BY DEF Marks, Known, Composites, Coded
  <2> QED
    BY <2>1, BaseIs, SolidPieces
<1>3. b[1] \in Solid
  BY BaseIs, RootIs, SolidPieces
<1>4. CASE Len(b) = 3
  <2>1. \A i \in 1..3 : i = 1 \/ i = 3 - 1 \/ i = 3
    OBVIOUS
  <2>2. \A i \in 1..3 : b[i] \in Solid
    BY <1>2, <1>3, <1>4, <2>1
  <2>3. b = [i \in 1..3 |-> b[i]]
    BY <1>1, <1>4
  <2> QED
    BY <2>2, <2>3
<1>5. CASE Len(b) = 4
  <2>1. \A i \in 1..4 : i = 1 \/ i = 2 \/ i = 4 - 1 \/ i = 4
    OBVIOUS
  <2>2. b[2] \in Solid
    BY <1>5, BaseIs, SolidPieces
  <2>3. \A i \in 1..4 : b[i] \in Solid
    BY <1>2, <1>3, <1>5, <2>1, <2>2
  <2>4. b = [i \in 1..4 |-> b[i]]
    BY <1>1, <1>5
  <2> QED
    BY <2>3, <2>4
<1> QED
  BY <1>1, <1>4, <1>5

LEMMA PathsAre ==
  ASSUME NEW n \in Int, NEW u \in UriPaths(n)
  PROVE  u \in Seq(Solid)
<1>1. PICK d \in Nat :
        u = [i \in 1..(2 * d - 1) |-> IF i % 2 = 0 THEN Say(<<"/">>) ELSE Token("uri_path")]
  <2>1. (IF n = 0 THEN 1..3 ELSE {IF n > 0 THEN n ELSE 0}) \subseteq Nat
    OBVIOUS
  <2> QED
    BY <2>1 DEF UriPaths
<1>2. "uri_path" \in Known /\ <<"/">> \in Seq(Marks)
  BY NamesAssumption DEF Known, Marks
<1>3. Say(<<"/">>) \in Solid /\ Token("uri_path") \in Solid
  BY <1>2, SolidPieces
<1> DEFINE x == Say(<<"/">>)
           y == Token("uri_path")
<1>4. u = [i \in 1..(2 * d - 1) |-> IF i % 2 = 0 THEN x ELSE y] /\ x \in Solid /\ y \in Solid
  BY <1>1, <1>3
<1> HIDE DEF x, y
<1>5. CASE d = 0
  <2>1. 1..(2 * d - 1) = 1..0 /\ 1..0 = {}
    BY <1>5
  <2>2. u = [i \in 1..0 |-> x]
    BY <1>4, <2>1
  <2> QED
    BY <2>2
<1>6. CASE d # 0
  <2> DEFINE k == 2 * d - 1
  <2>1. k \in Nat
    BY <1>6
  <2> HIDE DEF k
  <2>2. u = [i \in 1..k |-> IF i % 2 = 0 THEN x ELSE y]
    BY <1>4 DEF k
  <2>3. \A i \in 1..k : u[i] \in Solid
    BY <1>4, <2>2
  <2>4. u \in [1..k -> Solid]
    BY <2>2, <2>3
  <2> QED
    BY <2>1, <2>4
<1> QED
  BY <1>5, <1>6

LEMMA PathPieces ==
  ASSUME NEW n \in Int, NEW u \in UriPaths(n), NEW k \in 1..Len(u)
  PROVE  u[k] = Say(<<"/">>) \/ u[k] = Token("uri_path")
<1>1. PICK d \in Nat :
        u = [i \in 1..(2 * d - 1) |-> IF i % 2 = 0 THEN Say(<<"/">>) ELSE Token("uri_path")]
  <2>1. (IF n = 0 THEN 1..3 ELSE {IF n > 0 THEN n ELSE 0}) \subseteq Nat
    OBVIOUS
  <2> QED
    BY <2>1 DEF UriPaths
<1>2. u \in Seq(Solid)
  BY PathsAre
<1>3. k \in DOMAIN u
  BY <1>2
<1>4. k \in 1..(2 * d - 1)
  BY <1>1, <1>3
<1> QED
  BY <1>1, <1>4

LEMMA UriIs ==
  ASSUME NEW n \in Int, NEW t \in Contents("uri", n)
  PROVE  t \in Seq(Solid) /\ \E b \in UrlBase : Begins(b, t)
<1> DEFINE e == <<Token("uri_page"), Token("uri_extension")>>
<1> HIDE DEF e
<1>1. PICK b \in UrlBase, u \in UriPaths(n) : t = b \o u \o e
  <2> DEFINE U == {x \o u \o e : x \in UrlBase, u \in UriPaths(n)}
  <2>1. Contents("uri", n) = U
    BY DEF Contents, e
  <2> HIDE DEF U
  <2>2. t \in U
    BY <2>1
  <2> QED
    BY <2>2 DEF U
<1>2. b \in Seq(Solid) /\ u \in Seq(Solid)
  BY BaseSolid, PathsAre
<1>3. e \in Seq(Solid)
  <2>1. "uri_page" \in Known /\ "uri_extension" \in Known
    BY NamesAssumption DEF Known
  <2>2. Token("uri_page") \in Solid /\ Token("uri_extension") \in Solid
    BY <2>1, SolidPieces
  <2> QED
    BY <2>2 DEF e
<1>4. u \o e \in Seq(Solid) /\ (b \o u) \o e = b \o (u \o e)
  <2>1. b \in Seq(Solid) /\ u \in Seq(Solid) /\ e \in Seq(Solid)
    BY <1>2, <1>3
  <2>2. u \o e \in Seq(Solid)
    BY ONLY <2>1, Joined
  <2>3. (b \o u) \o e = b \o (u \o e)
    BY ONLY <2>1, ConcatAssociative, SMTT(40)
  <2> QED
    BY <2>2, <2>3
<1> DEFINE v == u \o e
<1>5. t = b \o v /\ v \in Seq(Solid)
  BY <1>1, <1>4
<1> HIDE DEF v
<1>6. b \o v \in Seq(Solid) /\ Len(b \o v) = Len(b) + Len(v) /\ SubSeq(b \o v, 1, Len(b)) = b
  BY ONLY <1>2, <1>5, Joined, Behind
<1>7. Len(b) <= Len(t)
  <2>1. Len(b) \in Nat /\ Len(v) \in Nat
    BY <1>2, <1>5
  <2> QED
    BY <1>5, <1>6, <2>1
<1> QED
  BY <1>5, <1>6, <1>7 DEF Begins

\* What the formatters with templates, and the codes, are made of.
LEMMA ContentsAre ==
  ASSUME NEW f \in Composites, NEW n \in Int, NEW t \in Contents(f, n)
  PROVE  /\ t \in Seq(Pieces)
         /\ f \in {"company", "user_name", "url", "uri"} => \A i \in 1..Len(t) : t[i] # Clear
<1>1. CASE f = "domain_word"
  <2>1. t = <<Token("company")>>
    BY <1>1, CodedContents
  <2>2. Token("company") \in Solid
    <3>1. "company" \in Known
      BY NamesAssumption DEF Known, Composites
    <3> QED
      BY <3>1, SolidPieces
  <2>3. t \in Seq(Solid)
    BY <2>1, <2>2
  <2> QED
    BY <2>3, SolidIs
<1>2. CASE f = "domain_name"
  <2>1. t = DomainName(n)
    BY <1>2, CodedContents
  <2>2. t \in Seq(Pieces)
    BY <2>1, DomainIs
  <2> QED
    BY <1>2, <2>2
<1>3. CASE f = "hostname"
  <2>1. t = Hostname(n)
    BY <1>3, CodedContents
  <2>2. t \in Seq(Pieces)
    BY <2>1, HostnameIs
  <2> QED
    BY <1>3, <2>2
<1>4. CASE f \in {"safe_email", "free_email", "company_email"}
  <2>1. PICK h \in MailHosts : t = Mailed(h)
    BY <1>4, CodedContents DEF MailHosts, Mailed
  <2>2. h \in Known /\ "user_name" \in Known /\ <<"@">> \in Seq(Marks)
    BY NamesAssumption DEF MailHosts, Known, Composites, Coded, Marks
  <2>3. Token("user_name") \in Solid /\ Say(<<"@">>) \in Solid /\ Token(h) \in Solid
    BY <2>2, SolidPieces
  <2>4. t \in Seq(Solid)
    BY <2>1, <2>3 DEF Mailed
  <2> QED
    BY <2>4, SolidIs
<1>5. CASE f = "email"
  <2>1. t \in Seq(Pieces)
    BY <1>5, EmailIs
  <2> QED
    BY <1>5, <2>1
<1>6. CASE f = "url"
  <2>1. t \in UrlBase
    BY <1>6, CodedContents
  <2> QED
    BY <2>1, BaseSolid, SolidIs
<1>7. CASE f = "uri"
  <2>1. t \in Seq(Solid)
    BY <1>7, UriIs
  <2> QED
    BY <2>1, SolidIs
<1>8. CASE f \notin Coded /\ f \notin {"email", "url"}
  <2>1. f \in DOMAIN TemplateTables /\ t \in TableOf(f)
    BY <1>8, TableContents DEF Composites
  <2>2. t \in Seq(Solid)
    BY <2>1, TemplateIs
  <2> QED
    BY <2>2, SolidIs
<1> QED
  BY <1>1, <1>2, <1>3, <1>4, <1>5, <1>6, <1>7, <1>8 DEF Coded

LEMMA MailIs ==
  ASSUME NEW f \in {"safe_email", "free_email", "company_email"}, NEW n, NEW t \in Contents(f, n)
  PROVE  \E h \in MailHosts : t = Mailed(h)
BY CodedContents DEF MailHosts, Mailed

LEMMA TableIs ==
  ASSUME NEW f \in {"company", "user_name"}, NEW n, NEW t \in Contents(f, n)
  PROVE  /\ f = "company" => NameTemplate(t)
         /\ f = "user_name" => \E k \in 1..Len(t) : Lasting(t[k])
<1>1. t \in TemplateTables[f]
  BY TableContents DEF TableOf, Coded
<1> QED
  BY <1>1, NamesAssumption

LEMMA UrlIs ==
  ASSUME NEW f \in {"url", "uri"}, NEW n \in Int, NEW t \in Contents(f, n)
  PROVE  \E b \in UrlBase : Begins(b, t)
<1>1. CASE f = "url"
  <2>1. t \in UrlBase
    BY <1>1, CodedContents
  <2>2. t \in Seq(Pieces) /\ Len(t) \in 0..Len(t)
    <3>1. t \in Seq(Pieces)
      BY <2>1, BaseIs
    <3> QED
      BY <3>1
  <2>3. /\ SubSeq(t, 1, Len(t)) \in Seq(Pieces) /\ Len(SubSeq(t, 1, Len(t))) = Len(t)
        /\ \A i \in 1..Len(t) : SubSeq(t, 1, Len(t))[i] = t[i]
    BY <2>2, Prefix
  <2>4. SubSeq(t, 1, Len(t)) = t
    BY <2>2, <2>3, SameSequence
  <2> QED
    BY <2>1, <2>2, <2>4 DEF Begins
<1>2. CASE f = "uri"
  BY <1>2, UriIs
<1> QED
  BY <1>1, <1>2

LEMMA ShapeStarts ==
  ASSUME NEW f \in Composites, NEW n \in Int, NEW t \in Contents(f, n)
  PROVE  Shape(f, t, 0, <<>>)
<1>1. <<>> \in Seq(Marks)
  OBVIOUS
<1>2. f = "company" => NameSoFar(t, 0, <<>>)
  BY DEF NameSoFar
<1>3. f = "user_name" => UserSoFar(t, 0, <<>>)
  <2>1. f = "user_name" => \E k \in 1..Len(t) : Lasting(t[k])
    BY TableIs
  <2>2. 0 + 1 = 1
    OBVIOUS
  <2> QED
    BY <2>1, <2>2 DEF UserSoFar
<1>4. DomainSoFar(0, <<>>, 0)
  <2>1. 0 \in 0..0 /\ 0 = 2 * 0 /\ 0 + 0 = 0
    OBVIOUS
  <2>2. Dotted(<<>>, 0)
    BY DEF Dotted
  <2> QED
    BY <2>1, <2>2 DEF DomainSoFar
<1>5. HostSoFar(0, <<>>)
  BY DEF HostSoFar
<1>6. MailSoFar(0, <<>>)
  BY DEF MailSoFar
<1>7. ~(0 >= 3)
  OBVIOUS
<1>8. f \in {"url", "uri"} => \E b \in UrlBase : Begins(b, t) /\ UrlSoFar(b, 0, <<>>)
  <2>1. \A b : UrlSoFar(b, 0, <<>>)
    BY DEF UrlSoFar
  <2> QED
    BY <2>1, UrlIs
<1> QED
  BY <1>1, <1>2, <1>3, <1>4, <1>5, <1>6, <1>7, <1>8 DEF Shape

LEMMA ShapeSteps ==
  ASSUME NEW f \in Composites, NEW n \in Int, NEW t \in Contents(f, n), NEW p \in 0..(Len(t) - 1),
         NEW s, Shape(f, t, p, s), NEW r, Follows(t[p + 1], s, r)
  PROVE  Shape(f, t, p + 1, r)
<1>1. /\ t \in Seq(Pieces)
      /\ f \in {"company", "user_name", "url", "uri"} => \A i \in 1..Len(t) : t[i] # Clear
  BY ContentsAre
<1>2. p \in Nat /\ p + 1 \in 1..Len(t) /\ p + 1 # 0
  <2>1. Len(t) \in Nat
    BY <1>1
  <2> QED
    BY <2>1
<1>3. s \in Seq(Marks)
  BY DEF Shape
<1>4. r \in Seq(Marks)
  BY <1>3, FollowsMarks
<1>5. f = "domain_word" => Worded(r)
  <2> SUFFICES ASSUME f = "domain_word" PROVE Worded(r)
    OBVIOUS
  <2>1. IF p = 0 THEN s = <<>> ELSE Worded(s)
    BY DEF Shape
  <2> QED
    BY <1>3, <2>1, WordStep
<1>6. f = "company" => NameSoFar(t, p + 1, r)
  <2> SUFFICES ASSUME f = "company" PROVE NameSoFar(t, p + 1, r)
    OBVIOUS
  <2>1. NameSoFar(t, p, s) /\ NameTemplate(t) /\ t[p + 1] # Clear
    BY <1>1, <1>2, TableIs DEF Shape
  <2> QED
    BY <1>1, <1>3, <2>1, NameStep
<1>7. f = "user_name" => UserSoFar(t, p + 1, r)
  <2> SUFFICES ASSUME f = "user_name" PROVE UserSoFar(t, p + 1, r)
    OBVIOUS
  <2>1. UserSoFar(t, p, s) /\ t[p + 1] # Clear
    BY <1>1, <1>2 DEF Shape
  <2> QED
    BY <1>1, <1>3, <2>1, UserStep
<1>8. f = "domain_name" => DomainSoFar(p + 1, r, 0)
  <2> SUFFICES ASSUME f = "domain_name" PROVE DomainSoFar(p + 1, r, 0)
    OBVIOUS
  <2>1. t = DomainName(n) /\ DomainSoFar(p, s, 0)
    BY CodedContents DEF Shape
  <2> QED
    BY <1>3, <2>1, DomainStep
<1>9. f = "hostname" => HostSoFar(p + 1, r)
  <2> SUFFICES ASSUME f = "hostname" PROVE HostSoFar(p + 1, r)
    OBVIOUS
  <2>1. t = Hostname(n) /\ HostSoFar(p, s)
    BY CodedContents DEF Shape
  <2> QED
    BY <1>3, <2>1, HostStep
<1>10. f \in {"safe_email", "free_email", "company_email"} => MailSoFar(p + 1, r)
  <2> SUFFICES ASSUME f \in {"safe_email", "free_email", "company_email"} PROVE MailSoFar(p + 1, r)
    OBVIOUS
  <2>1. PICK h \in MailHosts : t = Mailed(h)
    BY MailIs
  <2>2. MailSoFar(p, s)
    BY DEF Shape
  <2>3. p \in 0..2
    <3>1. Len(t) = 3
      BY <2>1 DEF Mailed
    <3> QED
      BY <1>2, <3>1
  <2> QED
    BY <1>3, <2>1, <2>2, <2>3, MailStep
<1>11. f = "email" /\ p + 1 >= 3 => MailSoFar(p + 1 - 3, r)
  <2> SUFFICES ASSUME f = "email", p + 1 >= 3 PROVE MailSoFar(p + 1 - 3, r)
    OBVIOUS
  <2>1. Len(t) = 6 /\ t[3] = Clear
    BY EmailIs
  <2>2. PICK h \in MailHosts : \A i \in 1..3 : t[3 + i] = Mailed(h)[i]
    BY EmailIs
  <2>3. CASE p = 2
    <3>1. p + 1 = 3 /\ p + 1 - 3 = 0
      BY <2>3
    <3>2. r = <<>>
      <4>1. Follows(Clear, s, r)
        BY <2>1, <3>1
      <4> QED
        BY <4>1, FollowsClear
    <3> QED
      BY <3>1, <3>2 DEF MailSoFar
  <2>4. CASE p # 2
    <3> DEFINE q == p - 3
    <3>1. q \in 0..2 /\ q + 1 \in 1..3 /\ 3 + (q + 1) = p + 1 /\ p + 1 - 3 = q + 1 /\ p >= 3
      BY <1>2, <2>1, <2>4
    <3>2. MailSoFar(q, s)
      BY <3>1 DEF Shape
    <3> HIDE DEF q
    <3>3. Follows(Mailed(h)[q + 1], s, r)
      <4>1. t[3 + (q + 1)] = Mailed(h)[q + 1]
        BY <2>2, <3>1
      <4> QED
        BY <3>1, <4>1
    <3>4. MailSoFar(q + 1, r)
      BY <1>3, <3>1, <3>2, <3>3, MailStep
    <3> QED
      BY <3>1, <3>4
  <2> QED
    BY <2>3, <2>4
<1>12. f \in {"url", "uri"} => \E b \in UrlBase : Begins(b, t) /\ UrlSoFar(b, p + 1, r)
  <2> SUFFICES ASSUME f \in {"url", "uri"}
               PROVE  \E b \in UrlBase : Begins(b, t) /\ UrlSoFar(b, p + 1, r)
    OBVIOUS
  <2>1. PICK b \in UrlBase : Begins(b, t) /\ UrlSoFar(b, p, s)
    BY DEF Shape
  <2>2. t[p + 1] # Clear
    BY <1>1, <1>2
  <2>3. UrlSoFar(b, p + 1, r)
    BY <1>1, <1>3, <2>1, <2>2, UrlStep
  <2> QED
    BY <2>1, <2>3
<1> QED
  BY <1>2, <1>4, <1>5, <1>6, <1>7, <1>8, <1>9, <1>10, <1>11, <1>12 DEF Shape

-----------------------------------------------------------------------------
(* What the formatters make of the texts they wrote                        *)

LEMMA LeafWrote ==
  ASSUME NEW g \in DOMAIN LeafTexts, NEW x \in LeafTexts[g]
  PROVE  Wrote(g, x)
<1>1. x \in Seq(Marks)
  <2>1. x \in Seq(STRING)
    BY NamesAssumption
  <2> QED
    BY <2>1, Readable
<1>2. g \notin {"domain_word", "domain_name", "company", "user_name"}
  BY NamesAssumption DEF Composites, Coded
<1>3. g \in {"tld", "hostname_prefix"} => HostLike(x, {0})
  BY NamesAssumption
<1>4. g \in {"free_email_domain", "safe_domain_name"} => HostLike(x, {1})
  BY NamesAssumption
<1> QED
  BY <1>1, <1>2, <1>3, <1>4 DEF Wrote

LEMMA DomainFinished ==
  ASSUME NEW L \in Nat, NEW s, NEW dots \in Nat, DomainSoFar(2 * L + 1, s, dots)
  PROVE  HostLike(s, {L + dots})
<1>1. PICK j \in 0..(2 * L + 1) : \/ 2 * L + 1 = 2 * j /\ Dotted(s, j + dots)
                                  \/ 2 * L + 1 = 2 * j + 1 /\ HostLike(s, {j + dots})
  BY DEF DomainSoFar
<1>2. 2 * L + 1 # 2 * j
  OBVIOUS
<1>3. 2 * L + 1 = 2 * j + 1 /\ HostLike(s, {j + dots})
  BY <1>1, <1>2
<1>4. j = L
  BY <1>3
<1> QED
  BY <1>3, <1>4

LEMMA LowerHost ==
  ASSUME NEW s \in Seq(Marks), NEW n, HostLike(s, {n})
  PROVE  Lower(s) = s
<1>1. \A i \in 1..Len(s) : s[i] \in {"a", "1", "-", "."}
  BY HostOf
<1>2. \A i \in 1..Len(s) : s[i] # "A"
  BY <1>1
<1> QED
  BY <1>2, LowerIs

LEMMA LowerMail ==
  ASSUME NEW s \in Seq(Marks), MailLike(s)
  PROVE  Lower(s) = s /\ Unblanked(s) = s
<1>1. \A i \in 1..Len(s) : s[i] \in {"a", "1", "-", ".", "@"}
  BY MailOf
<1>2. \A i \in 1..Len(s) : s[i] # "A" /\ s[i] # Blank
  BY <1>1 DEF Blank
<1>3. Lower(s) = s
  BY <1>2, LowerIs
<1> DEFINE S == {s[i] : i \in 1..Len(s)} \ {Blank}
           c == Chosen(s, S)
<1>4. \A i \in 1..Len(s) : s[i] \in S
  BY <1>2
<1>5. c \in Seq(Marks \cap S) /\ Selected(c, s, S, Len(s))
  BY ChosenIs
<1> HIDE DEF S, c
<1>6. Len(c) = Len(s) /\ \A i \in 1..Len(s) : c[i] = s[i]
  BY <1>4, <1>5 DEF Selected
<1>7. c \in Seq(Marks)
  <2>1. Len(c) \in Nat /\ c = [i \in 1..Len(c) |-> c[i]] /\ \A i \in 1..Len(c) : c[i] \in Marks
    BY <1>5
  <2> QED
    BY <2>1
<1>8. c = s
  BY <1>6, <1>7, SameSequence
<1> QED
  BY <1>3, <1>8 DEF Unblanked, c, S

LEMMA TextFinished ==
  ASSUME NEW f \in Composites, NEW n \in Int, NEW t \in Contents(f, n), NEW s,
         Shape(f, t, Len(t), s)
  PROVE  /\ Finished(f, s) \in Seq(Marks)
         /\ f = "company" => Worded(Finished(f, s))
         /\ f = "user_name" => LocalLike(Finished(f, s))
         /\ f = "domain_word" => HostLike(Finished(f, s), {0})
         /\ f = "domain_name" => HostLike(Finished(f, s), {Levels(n)})
         /\ f = "hostname" => HostLike(Finished(f, s), {IF n < 1 THEN 0 ELSE n + 1})
         /\ f \in {"email", "safe_email", "free_email", "company_email"} => MailLike(Finished(f, s))
         /\ f \in {"url", "uri"} => UrlLike(Finished(f, s))
<1>1. s \in Seq(Marks)
  BY DEF Shape
<1>2. t \in Seq(Pieces) /\ Len(t) \in Nat
  <2>1. t \in Seq(Pieces)
    BY ContentsAre
  <2> QED
    BY <2>1
<1>3. CASE f = "company"
  <2>1. NameTemplate(t) /\ NameSoFar(t, Len(t), s)
    BY <1>3, TableIs DEF Shape
  <2>2. Len(t) # 0 /\ ~(Len(t) < Len(t))
    BY <1>2, <2>1 DEF NameTemplate
  <2>3. Worded(s)
    <3>1. /\ s # <<>> /\ s[1] \in LettersDigits
          /\ \A i \in 1..Len(s) : s[i] = "-" => i < Len(s) /\ s[i + 1] \in LettersDigits
      BY <2>1, <2>2 DEF NameSoFar
    <3> QED
      BY <3>1 DEF Worded
  <2>4. Finished(f, s) = s
    BY <1>3 DEF Finished
  <2> QED
    BY <1>1, <1>3, <2>3, <2>4
<1>4. CASE f = "user_name"
  <2>1. UserSoFar(t, Len(t), s)
    BY <1>4 DEF Shape
  <2>2. (Len(t) + 1)..Len(t) = {}
    BY <1>2
  <2>3. Lasts(s)
    BY <2>1, <2>2 DEF UserSoFar
  <2>4. Finished(f, s) = Slug(Lower(Bothified(s)))
    BY <1>4 DEF Finished
  <2>5. Finished(f, s) \in Seq(Marks) /\ LocalLike(Finished(f, s))
    BY <1>1, <2>3, <2>4, UserSlug
  <2> QED
    BY <1>4, <2>5
<1>5. CASE f = "domain_word"
  <2>1. t = <<Token("company")>>
    BY <1>5, CodedContents
  <2>2. Len(t) = 1
    BY <2>1
  <2>3. Worded(s)
    BY <1>5, <2>2 DEF Shape
  <2>4. Finished(f, s) = DomainWord(s)
    BY <1>5 DEF Finished
  <2>5. Finished(f, s) \in Seq(Marks) /\ HostLike(Finished(f, s), {0})
    BY <1>1, <2>3, <2>4, WordSlug
  <2> QED
    BY <1>5, <2>5
<1>6. CASE f = "domain_name"
  <2>1. PICK L \in Nat \ {0} : L = Levels(n) /\ Len(DomainName(n)) = 2 * L + 1
    BY DomainIs
  <2>2. t = DomainName(n)
    BY <1>6, CodedContents
  <2>3. DomainSoFar(2 * L + 1, s, 0)
    BY <1>6, <2>1, <2>2 DEF Shape
  <2>4. HostLike(s, {L + 0})
    BY <2>3, DomainFinished
  <2>5. L + 0 = L
    OBVIOUS
  <2>6. Finished(f, s) = s
    BY <1>6 DEF Finished
  <2>7. HostLike(Finished(f, s), {Levels(n)})
    BY <2>1, <2>4, <2>5, <2>6
  <2> QED
    BY <1>1, <1>6, <2>6, <2>7
<1>7. CASE f = "hostname"
  <2>1. t = Hostname(n) /\ HostSoFar(Len(t), s)
    BY <1>7, CodedContents DEF Shape
  <2> DEFINE d == IF n < 1 THEN 0 ELSE n + 1
  <2>2. HostLike(s, {d})
    <3>1. CASE n < 1
      <4>1. Len(t) = 2
        BY <2>1, <3>1, HostnameIs
      <4>2. HostLike(s, {0})
        BY <2>1, <4>1 DEF HostSoFar
      <4> QED
        BY <3>1, <4>2
    <3>2. CASE ~(n < 1)
      <4>1. PICK L \in Nat \ {0} : L = Levels(n) /\ Len(DomainName(n)) = 2 * L + 1
        BY DomainIs
      <4>2. L = n /\ n >= 1
        BY <3>2, <4>1 DEF Levels
      <4>3. Len(t) = 3 + (2 * L + 1)
        BY <2>1, <4>1, <4>2, HostnameIs
      <4>4. Len(t) > 2 /\ Len(t) - 3 = 2 * L + 1
        BY <4>3
      <4>5. DomainSoFar(2 * L + 1, s, 1)
        BY <2>1, <4>4 DEF HostSoFar
      <4>6. HostLike(s, {L + 1})
        BY <4>5, DomainFinished
      <4> QED
        BY <3>2, <4>2, <4>6
    <3> QED
      BY <3>1, <3>2
  <2> HIDE DEF d
  <2>3. Finished(f, s) = s
    <3>1. Finished(f, s) = Lower(s)
      BY <1>7 DEF Finished
    <3> QED
      BY <1>1, <2>2, <3>1, LowerHost
  <2>4. HostLike(Finished(f, s), {d})
    BY <2>2, <2>3
  <2> QED
    BY <1>1, <1>7, <2>3, <2>4 DEF d
<1>8. CASE f \in {"email", "safe_email", "free_email", "company_email"}
  <2>1. MailSoFar(3, s)
    <3>1. CASE f = "email"
      <4>1. Len(t) = 6
        BY <3>1, EmailIs
      <4>2. Len(t) >= 3 /\ Len(t) - 3 = 3
        BY <4>1
      <4> QED
        BY <3>1, <4>2 DEF Shape
    <3>2. CASE f # "email"
      <4>1. PICK h \in MailHosts : t = Mailed(h)
        BY <1>8, <3>2, MailIs
      <4>2. Len(t) = 3
        BY <4>1 DEF Mailed
      <4> QED
        BY <1>8, <3>2, <4>2 DEF Shape
    <3> QED
      BY <3>1, <3>2
  <2>2. MailLike(s)
    BY <2>1 DEF MailSoFar
  <2>3. Lower(s) = s /\ Unblanked(s) = s
    BY <1>1, <2>2, LowerMail
  <2>4. Finished(f, s) = s
    <3>1. CASE f = "email"
      BY <2>3, <3>1 DEF Finished
    <3>2. CASE f \in {"safe_email", "free_email", "company_email"}
      BY <2>3, <3>2 DEF Finished
    <3> QED
      BY <1>8, <3>1, <3>2
  <2> QED
    BY <1>1, <1>8, <2>2, <2>4
<1>9. CASE f \in {"url", "uri"}
  <2>1. PICK b \in UrlBase : Begins(b, t) /\ UrlSoFar(b, Len(t), s)
    BY <1>9 DEF Shape
  <2>2. Len(t) # 0 /\ Len(t) >= Len(b)
    <3>1. Len(b) = 3 \/ Len(b) = 4
      BY BaseIs
    <3>2. Len(b) <= Len(t)
      BY <2>1 DEF Begins
    <3>3. CASE Len(b) = 3
      BY <1>2, <3>2, <3>3
    <3>4. CASE Len(b) = 4
      BY <1>2, <3>2, <3>4
    <3> QED
      BY <3>1, <3>3, <3>4
  <2>3. UrlLike(s)
    BY <2>1, <2>2 DEF UrlSoFar
  <2>4. Finished(f, s) = s
    BY <1>9 DEF Finished
  <2> QED
    BY <1>1, <1>9, <2>3, <2>4
<1>10. CASE f \notin {"company", "user_name", "domain_word", "domain_name", "hostname", "email",
                      "safe_email", "free_email", "company_email", "url", "uri"}
  <2>1. Finished(f, s) = s
    BY <1>10 DEF Finished
  <2> QED
    BY <1>1, <1>10, <2>1
<1> QED
  BY <1>3, <1>4, <1>5, <1>6, <1>7, <1>8, <1>9, <1>10

LEMMA FinishWrote ==
  ASSUME NEW f \in Composites, NEW t \in Contents(f, 1), NEW s, Shape(f, t, Len(t), s)
  PROVE  Wrote(f, Finished(f, s))
<1>1. /\ Finished(f, s) \in Seq(Marks)
      /\ f = "company" => Worded(Finished(f, s))
      /\ f = "user_name" => LocalLike(Finished(f, s))
      /\ f = "domain_word" => HostLike(Finished(f, s), {0})
      /\ f = "domain_name" => HostLike(Finished(f, s), {Levels(1)})
  <2> DEFINE n == 1
  <2>1. n \in Int /\ t \in Contents(f, n)
    OBVIOUS
  <2> HIDE DEF n
  <2>2. /\ Finished(f, s) \in Seq(Marks)
        /\ f = "company" => Worded(Finished(f, s))
        /\ f = "user_name" => LocalLike(Finished(f, s))
        /\ f = "domain_word" => HostLike(Finished(f, s), {0})
        /\ f = "domain_name" => HostLike(Finished(f, s), {Levels(n)})
    BY <2>1, TextFinished
  <2> QED
    BY <2>2 DEF n
<1>2. Levels(1) = 1
  BY DEF Levels
<1>3. f \notin DOMAIN LeafTexts
  BY NamesAssumption
<1>4. f \notin {"tld", "hostname_prefix", "free_email_domain", "safe_domain_name"}
  BY <1>3, NamesAssumption
<1> QED
  BY <1>1, <1>2, <1>3, <1>4 DEF Wrote

-----------------------------------------------------------------------------
(* The frames: each at a place of its template, with the text for it       *)

\* What is left of a template, when p segments of it are written.
LEMMA LeftOf ==
  ASSUME NEW S, NEW t \in Seq(S), NEW p \in 0..Len(t)
  PROVE  /\ SubSeq(t, p + 1, Len(t)) \in Seq(S)
         /\ SubSeq(t, p + 1, Len(t)) = <<>> => p = Len(t)
         /\ SubSeq(t, p + 1, Len(t)) # <<>> =>
              /\ p \in 0..(Len(t) - 1) /\ SubSeq(t, p + 1, Len(t))[1] = t[p + 1]
              /\ Tail(SubSeq(t, p + 1, Len(t))) = SubSeq(t, p + 2, Len(t))
<1> DEFINE d == SubSeq(t, p + 1, Len(t))
           e == SubSeq(t, p + 2, Len(t))
<1>0. Len(t) \in Nat /\ p \in Nat /\ p <= Len(t)
  OBVIOUS
<1>1. /\ p + 1 \in Int /\ p + 2 \in Int /\ Len(t) \in Int
      /\ \A i \in (p + 1)..Len(t) : t[i] \in S
      /\ \A i \in (p + 2)..Len(t) : t[i] \in S
  BY <1>0
<1>2. /\ d \in Seq(S) /\ Len(d) = IF p + 1 <= Len(t) THEN Len(t) - (p + 1) + 1 ELSE 0
      /\ \A i \in 1..(Len(t) - (p + 1) + 1) : d[i] = t[p + 1 + i - 1]
  BY <1>1, SubSeqProperties
<1>3. /\ e \in Seq(S) /\ Len(e) = IF p + 2 <= Len(t) THEN Len(t) - (p + 2) + 1 ELSE 0
      /\ \A i \in 1..(Len(t) - (p + 2) + 1) : e[i] = t[p + 2 + i - 1]
  BY <1>1, SubSeqProperties
<1> HIDE DEF d, e
<1>4. Len(d) = Len(t) - p
  BY <1>0, <1>2
<1>5. d = <<>> => p = Len(t)
  BY <1>0, <1>4
<1>6. ASSUME d # <<>> PROVE p \in 0..(Len(t) - 1) /\ d[1] = t[p + 1] /\ Tail(d) = e
  <2>1. Len(d) > 0
    BY <1>2, <1>6
  <2>2. p \in 0..(Len(t) - 1)
    BY <1>0, <1>4, <2>1
  <2>3. 1 \in 1..(Len(t) - (p + 1) + 1) /\ p + 1 + 1 - 1 = p + 1
    BY <1>0, <2>2
  <2>4. d[1] = t[p + 1]
    BY <1>2, <2>3
  <2>5. Len(e) = Len(d) - 1
    BY <1>0, <1>3, <1>4, <2>2
  <2>6. Tail(d) \in Seq(S) /\ Len(Tail(d)) = Len(d) - 1 /\ \A i \in 1..(Len(d) - 1) : Tail(d)[i] = d[i + 1]
    BY <1>2, <1>6, HeadTailProperties
  <2>7. ASSUME NEW i \in 1..(Len(d) - 1) PROVE Tail(d)[i] = e[i]
    <3>1. /\ i + 1 \in 1..(Len(t) - (p + 1) + 1) /\ i \in 1..(Len(t) - (p + 2) + 1)
          /\ p + 1 + (i + 1) - 1 = p + 2 + i - 1
      BY <1>0, <1>4, <2>2
    <3>2. d[i + 1] = t[p + 1 + (i + 1) - 1] /\ e[i] = t[p + 2 + i - 1]
      BY <1>2, <1>3, <3>1
    <3> QED
      BY <2>6, <3>1, <3>2
  <2>8. Tail(d) = e
    BY <1>3, <2>5, <2>6, <2>7, SameSequence
  <2> QED
    BY <2>2, <2>4, <2>8
<1> QED
  BY <1>2, <1>5, <1>6 DEF d, e

LEMMA StackStarts ==
  ASSUME NEW f \in Composites, NEW n \in Int, NEW t \in Contents(f, n)
  PROVE  Stacked(<<Frame(f, t)>>, [f |-> f, n |-> n]) /\ Ready(Frame(f, t), n) /\ Frame(f, t) \in Frames
<1> DEFINE a == Frame(f, t)
           q == [f |-> f, n |-> n]
<1>1. t \in Seq(Pieces) /\ Len(t) \in Nat
  <2>1. t \in Seq(Pieces)
    BY ContentsAre
  <2> QED
    BY <2>1
<1>2. a.f = f /\ a.todo = t /\ a.text = <<>> /\ a \in Frames
  BY <1>1 DEF Frame, Frames
<1>3. q.f = f /\ q.n = n
  OBVIOUS
<1> HIDE DEF a, q
<1>4. Ready(a, n)
  <2>1. 0 \in 0..Len(t) /\ 0 + 1 = 1
    BY <1>1
  <2>2. SubSeq(t, 1, Len(t)) = t
    <3>1. Len(t) \in 0..Len(t)
      BY <1>1
    <3>2. /\ SubSeq(t, 1, Len(t)) \in Seq(Pieces) /\ Len(SubSeq(t, 1, Len(t))) = Len(t)
          /\ \A i \in 1..Len(t) : SubSeq(t, 1, Len(t))[i] = t[i]
      BY <1>1, <3>1, Prefix
    <3> QED
      BY <1>1, <3>2, SameSequence
  <2>3. Shape(f, t, 0, <<>>)
    BY ShapeStarts
  <2> QED
    BY <1>2, <2>1, <2>2, <2>3 DEF Ready
<1>5. <<a>> \in Seq(Frames) /\ <<a>> # <<>> /\ Len(<<a>>) = 1 /\ <<a>>[1] = a
  BY <1>2
<1>6. LevelOf(<<a>>, q, 1) = n
  BY <1>3, <1>5 DEF LevelOf
<1>7. 2..Len(<<a>>) = {}
  BY <1>5
<1>8. Stacked(<<a>>, q)
  BY <1>2, <1>3, <1>4, <1>5, <1>6, <1>7 DEF Stacked
<1> QED
  BY <1>2, <1>4, <1>8 DEF a, q

LEMMA LevelsWhole ==
  ASSUME NEW fs, NEW q, Stacked(fs, q), NEW k
  PROVE  LevelOf(fs, q, k) \in Int
BY DEF Stacked, LevelOf

\* fs, when the innermost frame went on to its next segment with text s.
Advanced(fs, s) == [fs EXCEPT ![1].todo = Tail(@), ![1].text = s]

LEMMA AdvancedIs ==
  ASSUME NEW fs \in Seq(Frames), fs # <<>>, fs[1].todo # <<>>, NEW s \in Seq(Marks)
  PROVE  /\ Advanced(fs, s) \in Seq(Frames) /\ Len(Advanced(fs, s)) = Len(fs)
         /\ Advanced(fs, s)[1].f = fs[1].f /\ Advanced(fs, s)[1].todo = Tail(fs[1].todo)
         /\ Advanced(fs, s)[1].text = s
         /\ \A k \in 2..Len(fs) : Advanced(fs, s)[k] = fs[k]
         /\ \A k \in 1..Len(fs) : Advanced(fs, s)[k].f = fs[k].f
<1> DEFINE a == [fs[1] EXCEPT !.todo = Tail(fs[1].todo), !.text = s]
<1>1. Len(fs) \in Nat /\ 1 \in 1..Len(fs) /\ fs[1] \in Frames
  OBVIOUS
<1>2. Tail(fs[1].todo) \in Seq(Pieces)
  <2>1. fs[1].todo \in Seq(Pieces)
    BY <1>1 DEF Frames
  <2> QED
    BY <2>1, HeadTailProperties
<1>3. a \in Frames /\ a.f = fs[1].f /\ a.todo = Tail(fs[1].todo) /\ a.text = s
  BY <1>1, <1>2 DEF Frames
<1>4. Advanced(fs, s) = [fs EXCEPT ![1] = a]
  BY Zenon DEF Advanced
<1> HIDE DEF a
<1>5. /\ Advanced(fs, s) \in Seq(Frames) /\ Len(Advanced(fs, s)) = Len(fs) /\ Advanced(fs, s)[1] = a
      /\ \A k \in 2..Len(fs) : Advanced(fs, s)[k] = fs[k]
  BY <1>1, <1>3, <1>4
<1>6. ASSUME NEW k \in 1..Len(fs) PROVE Advanced(fs, s)[k].f = fs[k].f
  <2>1. k = 1 \/ k \in 2..Len(fs)
    BY <1>1
  <2> QED
    BY <1>3, <1>5, <2>1
<1> QED
  BY <1>3, <1>5, <1>6

\* Where the innermost frame is.
LEMMA InnermostIs ==
  ASSUME NEW fs, NEW q, Stacked(fs, q)
  PROVE  /\ fs[1] \in Frames /\ LevelOf(fs, q, 1) \in Int
         /\ \E t \in Contents(fs[1].f, LevelOf(fs, q, 1)) : \E p \in 0..Len(t) :
              /\ fs[1].todo = SubSeq(t, p + 1, Len(t)) /\ Shape(fs[1].f, t, p, fs[1].text)
              /\ fs[1].todo = <<>> => p = Len(t)
              /\ fs[1].todo # <<>> =>
                   /\ p \in 0..(Len(t) - 1) /\ fs[1].todo[1] = t[p + 1] /\ t[p + 1] \in Pieces
                   /\ Tail(fs[1].todo) = SubSeq(t, p + 2, Len(t))
<1>1. fs \in Seq(Frames) /\ fs # <<>> /\ Ready(fs[1], LevelOf(fs, q, 1))
  BY DEF Stacked
<1>2. fs[1] \in Frames /\ fs[1].f \in Composites
  <2>1. 1 \in 1..Len(fs)
    BY <1>1
  <2>2. fs[1] \in Frames
    BY <1>1, <2>1
  <2> QED
    BY <2>2 DEF Frames
<1>3. LevelOf(fs, q, 1) \in Int
  BY LevelsWhole
<1>8. PICK t \in Contents(fs[1].f, LevelOf(fs, q, 1)) : \E p \in 0..Len(t) :
        fs[1].todo = SubSeq(t, p + 1, Len(t)) /\ Shape(fs[1].f, t, p, fs[1].text)
  BY <1>1 DEF Ready
<1>4. PICK p \in 0..Len(t) :
        fs[1].todo = SubSeq(t, p + 1, Len(t)) /\ Shape(fs[1].f, t, p, fs[1].text)
  BY <1>8
<1>5. t \in Seq(Pieces)
  BY <1>2, <1>3, ContentsAre
<1>6. /\ fs[1].todo = <<>> => p = Len(t)
      /\ fs[1].todo # <<>> => /\ p \in 0..(Len(t) - 1) /\ fs[1].todo[1] = t[p + 1]
                              /\ Tail(fs[1].todo) = SubSeq(t, p + 2, Len(t))
  BY <1>4, <1>5, LeftOf
<1>7. p \in 0..(Len(t) - 1) => t[p + 1] \in Pieces
  BY <1>5
<1> QED
  BY <1>2, <1>3, <1>4, <1>6, <1>7

\* The innermost frame writes a segment.
LEMMA StackAdvances ==
  ASSUME NEW fs, NEW q, Stacked(fs, q), fs[1].todo # <<>>,
         NEW r, Follows(fs[1].todo[1], fs[1].text, r)
  PROVE  Stacked(Advanced(fs, r), q)
<1> DEFINE gs == Advanced(fs, r)
           n == LevelOf(fs, q, 1)
<1>1. /\ fs \in Seq(Frames) /\ fs # <<>> /\ q.n \in Int /\ fs[Len(fs)].f = q.f
      /\ \A k \in 2..Len(fs) : Waits(fs[k], LevelOf(fs, q, k), fs[k - 1].f)
  BY DEF Stacked
<1>2. fs[1] \in Frames /\ n \in Int
  BY InnermostIs
<1>3. PICK t \in Contents(fs[1].f, n) : \E p \in 0..Len(t) :
        /\ fs[1].todo = SubSeq(t, p + 1, Len(t)) /\ Shape(fs[1].f, t, p, fs[1].text)
        /\ fs[1].todo = <<>> => p = Len(t)
        /\ fs[1].todo # <<>> =>
             /\ p \in 0..(Len(t) - 1) /\ fs[1].todo[1] = t[p + 1] /\ t[p + 1] \in Pieces
             /\ Tail(fs[1].todo) = SubSeq(t, p + 2, Len(t))
  BY InnermostIs
<1>4. PICK p \in 0..(Len(t) - 1) :
        /\ Shape(fs[1].f, t, p, fs[1].text) /\ fs[1].todo[1] = t[p + 1]
        /\ Tail(fs[1].todo) = SubSeq(t, p + 2, Len(t))
  BY <1>3
<1> HIDE DEF n
<1>5. fs[1].f \in Composites
  BY <1>2 DEF Frames
<1>6. Shape(fs[1].f, t, p + 1, r)
  <2>1. Follows(t[p + 1], fs[1].text, r)
    BY <1>4
  <2> QED
    BY <1>2, <1>4, <1>5, <2>1, ShapeSteps
<1>7. r \in Seq(Marks)
  BY <1>6 DEF Shape
<1>8. /\ gs \in Seq(Frames) /\ Len(gs) = Len(fs) /\ gs[1].f = fs[1].f
      /\ gs[1].todo = Tail(fs[1].todo) /\ gs[1].text = r
      /\ \A k \in 2..Len(fs) : gs[k] = fs[k]
      /\ \A k \in 1..Len(fs) : gs[k].f = fs[k].f
  BY <1>1, <1>7, AdvancedIs
<1> HIDE DEF gs
<1>9. Len(fs) \in Nat /\ Len(fs) \in 1..Len(fs)
  BY <1>1
<1>10. gs # <<>> /\ gs[Len(gs)].f = q.f
  BY <1>1, <1>8, <1>9
<1>11. \A k : LevelOf(gs, q, k) = LevelOf(fs, q, k)
  BY <1>8 DEF LevelOf
<1>12. Ready(gs[1], n)
  <2>1. p + 1 \in 0..Len(t) /\ p + 1 + 1 = p + 2
    <3>1. t \in Seq(Pieces)
      BY <1>2, <1>5, ContentsAre
    <3>2. Len(t) \in Nat
      BY <3>1
    <3> QED
      BY <3>2
  <2>2. gs[1].todo = SubSeq(t, p + 1 + 1, Len(t))
    BY <1>4, <1>8, <2>1
  <2> QED
    BY <1>6, <1>8, <2>1, <2>2 DEF Ready
<1>13. Ready(gs[1], LevelOf(gs, q, 1))
  BY <1>11, <1>12 DEF n
<1>14. ASSUME NEW k \in 2..Len(gs) PROVE Waits(gs[k], LevelOf(gs, q, k), gs[k - 1].f)
  <2>1. k \in 2..Len(fs) /\ k - 1 \in 1..Len(fs)
    BY <1>8, <1>9
  <2>2. gs[k] = fs[k] /\ gs[k - 1].f = fs[k - 1].f
    BY <1>8, <2>1
  <2> QED
    BY <1>1, <1>11, <2>1, <2>2
<1>15. Stacked(gs, q)
  BY <1>1, <1>8, <1>10, <1>13, <1>14 DEF Stacked
<1> QED
  BY <1>15 DEF gs

\* The innermost frame calls another formatter.
LEMMA StackCalls ==
  ASSUME NEW fs, NEW q, Stacked(fs, q), fs[1].todo # <<>>, NEW g \in Composites,
         fs[1].todo[1] = Token(g), NEW t \in Contents(g, 1)
  PROVE  Stacked(<<Frame(g, t)>> \o Advanced(fs, fs[1].text), q)
<1> DEFINE ds == Advanced(fs, fs[1].text)
           a == Frame(g, t)
           gs == <<a>> \o ds
           n == LevelOf(fs, q, 1)
<1>1. /\ fs \in Seq(Frames) /\ fs # <<>> /\ q.n \in Int /\ fs[Len(fs)].f = q.f
      /\ \A k \in 2..Len(fs) : Waits(fs[k], LevelOf(fs, q, k), fs[k - 1].f)
  BY DEF Stacked
<1>2. fs[1] \in Frames /\ n \in Int
  BY InnermostIs
<1>3. PICK u \in Contents(fs[1].f, n) : \E p \in 0..Len(u) :
        /\ fs[1].todo = SubSeq(u, p + 1, Len(u)) /\ Shape(fs[1].f, u, p, fs[1].text)
        /\ fs[1].todo = <<>> => p = Len(u)
        /\ fs[1].todo # <<>> =>
             /\ p \in 0..(Len(u) - 1) /\ fs[1].todo[1] = u[p + 1] /\ u[p + 1] \in Pieces
             /\ Tail(fs[1].todo) = SubSeq(u, p + 2, Len(u))
  BY InnermostIs
<1>4. PICK p \in 0..(Len(u) - 1) :
        /\ Shape(fs[1].f, u, p, fs[1].text) /\ u[p + 1] = Token(g)
        /\ Tail(fs[1].todo) = SubSeq(u, p + 2, Len(u))
  BY <1>3
<1> HIDE DEF n
<1>5. fs[1].text \in Seq(Marks)
  BY <1>2 DEF Frames
<1>6. /\ ds \in Seq(Frames) /\ Len(ds) = Len(fs) /\ ds[1].f = fs[1].f
      /\ ds[1].todo = Tail(fs[1].todo) /\ ds[1].text = fs[1].text
      /\ \A k \in 2..Len(fs) : ds[k] = fs[k]
      /\ \A k \in 1..Len(fs) : ds[k].f = fs[k].f
  BY <1>1, <1>5, AdvancedIs
<1>7. a \in Frames /\ Ready(a, 1) /\ a.f = g
  <2> DEFINE m == 1
  <2>1. m \in Int /\ t \in Contents(g, m)
    OBVIOUS
  <2> HIDE DEF m
  <2>2. Ready(Frame(g, t), m) /\ Frame(g, t) \in Frames
    BY <2>1, StackStarts
  <2> QED
    BY <2>2 DEF m, Frame
<1> HIDE DEF ds, a
<1>8. Len(fs) \in Nat /\ Len(fs) \in 1..Len(fs) /\ Len(ds) = Len(fs) /\ Len(fs) # 0
  BY <1>1, <1>6
<1>9. /\ gs \in Seq(Frames) /\ Len(gs) = 1 + Len(fs) /\ gs[1] = a
      /\ \A k \in 1..Len(fs) : gs[1 + k] = ds[k]
  <2>1. <<a>> \in Seq(Frames) /\ ds \in Seq(Frames) /\ Len(<<a>>) = 1 /\ <<a>>[1] = a
    BY <1>6, <1>7
  <2>2. /\ gs \in Seq(Frames) /\ Len(gs) = Len(<<a>>) + Len(ds)
        /\ \A i \in 1..Len(<<a>>) : gs[i] = <<a>>[i]
        /\ \A i \in 1..Len(ds) : gs[Len(<<a>>) + i] = ds[i]
    BY ONLY <2>1, Joined
  <2>3. 1 \in 1..Len(<<a>>)
    BY <2>1
  <2>4. gs[1] = a
    BY <2>1, <2>2, <2>3
  <2> QED
    BY <1>8, <2>1, <2>2, <2>4
<1> HIDE DEF gs
<1>10. gs # <<>> /\ gs[Len(gs)].f = q.f
  <2>1. gs[1 + Len(fs)] = ds[Len(fs)] /\ ds[Len(fs)].f = fs[Len(fs)].f
    BY <1>6, <1>8, <1>9
  <2>2. Len(gs) # 0
    BY <1>8, <1>9
  <2> QED
    BY <1>1, <1>9, <2>1, <2>2
<1>11. LevelOf(gs, q, 1) = 1
  <2>1. 1 # Len(gs)
    BY <1>8, <1>9
  <2> QED
    BY <2>1 DEF LevelOf
<1>12. ASSUME NEW k \in 1..Len(fs) PROVE LevelOf(gs, q, 1 + k) = LevelOf(fs, q, k)
  <2>1. 1 + k = Len(gs) <=> k = Len(fs)
    BY <1>8, <1>9
  <2> QED
    BY <2>1 DEF LevelOf
<1>13. ASSUME NEW k \in 2..Len(gs) PROVE Waits(gs[k], LevelOf(gs, q, k), gs[k - 1].f)
  <2>1. CASE k = 2
    <3>1. 1 \in 1..Len(fs) /\ 1 + 1 = 2 /\ 2 - 1 = 1
      BY <1>8
    <3>2. gs[2] = ds[1] /\ LevelOf(gs, q, 2) = n /\ gs[2 - 1].f = g
      BY <1>7, <1>9, <1>12, <3>1 DEF n
    <3>3. Waits(ds[1], n, g)
      BY <1>4, <1>6 DEF Waits
    <3> QED
      BY <2>1, <3>2, <3>3
  <2>2. CASE k # 2
    <3> DEFINE j == k - 1
    <3>1. j \in 2..Len(fs) /\ j - 1 \in 1..Len(fs) /\ j \in 1..Len(fs) /\ 1 + j = k /\ 1 + (j - 1) = k - 1
      BY <1>8, <1>9, <2>2
    <3> HIDE DEF j
    <3>2. gs[k] = fs[j] /\ LevelOf(gs, q, k) = LevelOf(fs, q, j)
      <4>1. gs[1 + j] = ds[j] /\ ds[j] = fs[j] /\ LevelOf(gs, q, 1 + j) = LevelOf(fs, q, j)
        BY <1>6, <1>9, <1>12, <3>1
      <4> QED
        BY <3>1, <4>1
    <3>3. gs[k - 1].f = fs[j - 1].f
      <4>1. gs[1 + (j - 1)] = ds[j - 1] /\ ds[j - 1].f = fs[j - 1].f
        BY <1>6, <1>9, <3>1
      <4> QED
        BY <3>1, <4>1
    <3>4. Waits(fs[j], LevelOf(fs, q, j), fs[j - 1].f)
      BY <1>1, <3>1
    <3> QED
      BY <3>2, <3>3, <3>4
  <2> QED
    BY <2>1, <2>2
<1>14. Ready(gs[1], LevelOf(gs, q, 1))
  BY <1>7, <1>9, <1>11
<1>15. Stacked(gs, q)
  BY <1>1, <1>9, <1>10, <1>13, <1>14 DEF Stacked
<1> QED
  BY <1>15 DEF gs, ds, a

\* The innermost frame is done, and its caller goes on with its text.
HandedOver(fs) ==
  <<[fs[2] EXCEPT !.text = @ \o Finished(fs[1].f, fs[1].text)]>> \o SubSeq(fs, 3, Len(fs))

LEMMA FramesCount ==
  ASSUME NEW m \in Nat, m > 1
  PROVE  /\ 1 # m /\ m \in Int /\ m - 3 + 1 = m - 2
         /\ \A i \in 1..(m - 2) : 3 + i - 1 = 2 + i
         /\ (IF 3 <= m THEN TRUE ELSE m - 2 = 0)
OBVIOUS

LEMMA ReturnedIs ==
  ASSUME NEW fs \in Seq(Frames), Len(fs) > 1, NEW r \in Seq(Marks),
         r = fs[2].text \o Finished(fs[1].f, fs[1].text)
  PROVE  /\ HandedOver(fs) \in Seq(Frames) /\ Len(HandedOver(fs)) = Len(fs) - 1
         /\ HandedOver(fs)[1].f = fs[2].f /\ HandedOver(fs)[1].todo = fs[2].todo
         /\ HandedOver(fs)[1].text = r
         /\ \A k \in 2..(Len(fs) - 1) : HandedOver(fs)[k] = fs[k + 1]
         /\ \A k \in 1..(Len(fs) - 1) : HandedOver(fs)[k].f = fs[k + 1].f
<1> DEFINE x == Finished(fs[1].f, fs[1].text)
           a == [fs[2] EXCEPT !.text = @ \o x]
           ds == SubSeq(fs, 3, Len(fs))
           gs == <<a>> \o ds
<1>1. Len(fs) \in Nat /\ 2 \in 1..Len(fs) /\ \A k \in 1..Len(fs) : fs[k] \in Frames
  OBVIOUS
<1>2. fs[2] \in Frames
  BY <1>1
<1> HIDE DEF x
<1>3. a \in Frames /\ a.f = fs[2].f /\ a.todo = fs[2].todo /\ a.text = r
  BY <1>2 DEF Frames, x
<1>4. /\ ds \in Seq(Frames) /\ Len(ds) = Len(fs) - 2
      /\ \A i \in 1..(Len(fs) - 2) : ds[i] = fs[2 + i]
  <2>1. /\ 3 \in Int /\ Len(fs) \in Int /\ \A i \in 3..Len(fs) : fs[i] \in Frames
        /\ Len(fs) - 3 + 1 = Len(fs) - 2 /\ \A i \in 1..(Len(fs) - 2) : 3 + i - 1 = 2 + i
        /\ (IF 3 <= Len(fs) THEN TRUE ELSE Len(fs) - 2 = 0)
    <3>1. \A i \in 3..Len(fs) : fs[i] \in Frames
      BY <1>1
    <3>2. Len(fs) \in Nat /\ Len(fs) > 1
      BY <1>1
    <3>3. /\ Len(fs) \in Int /\ Len(fs) - 3 + 1 = Len(fs) - 2
          /\ \A i \in 1..(Len(fs) - 2) : 3 + i - 1 = 2 + i
          /\ (IF 3 <= Len(fs) THEN TRUE ELSE Len(fs) - 2 = 0)
      BY <3>2, FramesCount
    <3> QED
      BY <3>1, <3>3
  <2> QED
    BY <2>1, SubSeqProperties
<1> HIDE DEF a, ds
<1>5. /\ gs \in Seq(Frames) /\ Len(gs) = 1 + Len(ds) /\ gs[1] = a
      /\ \A k \in 1..Len(ds) : gs[1 + k] = ds[k]
  <2>1. <<a>> \in Seq(Frames) /\ ds \in Seq(Frames) /\ Len(<<a>>) = 1 /\ <<a>>[1] = a
    BY <1>3, <1>4
  <2>2. /\ gs \in Seq(Frames) /\ Len(gs) = Len(<<a>>) + Len(ds)
        /\ \A i \in 1..Len(<<a>>) : gs[i] = <<a>>[i]
        /\ \A i \in 1..Len(ds) : gs[Len(<<a>>) + i] = ds[i]
    BY ONLY <2>1, Joined
  <2>3. 1 \in 1..Len(<<a>>)
    BY <2>1
  <2>4. gs[1] = a
    BY <2>1, <2>2, <2>3
  <2> QED
    BY <2>1, <2>2, <2>4
<1> HIDE DEF gs
<1>6. ASSUME NEW k \in 2..(Len(fs) - 1) PROVE gs[k] = fs[k + 1]
  <2> DEFINE j == k - 1
  <2>1. j \in 1..Len(ds) /\ j \in 1..(Len(fs) - 2) /\ 1 + j = k /\ 2 + j = k + 1
    BY <1>1, <1>4
  <2> HIDE DEF j
  <2>2. gs[1 + j] = ds[j] /\ ds[j] = fs[2 + j]
    BY <1>4, <1>5, <2>1
  <2> QED
    BY <2>1, <2>2
<1>7. Len(gs) = Len(fs) - 1
  BY <1>1, <1>4, <1>5
<1>8. ASSUME NEW k \in 1..(Len(fs) - 1) PROVE gs[k].f = fs[k + 1].f
  <2>1. k = 1 \/ k \in 2..(Len(fs) - 1)
    BY <1>1
  <2>2. 1 + 1 = 2
    OBVIOUS
  <2> QED
    BY <1>3, <1>5, <1>6, <2>1, <2>2
<1>9. gs = HandedOver(fs)
  BY DEF gs, a, ds, x, HandedOver
<1>10. gs[1].f = fs[2].f /\ gs[1].todo = fs[2].todo /\ gs[1].text = r
  BY <1>3, <1>5
<1> QED
  BY <1>5, <1>6, <1>7, <1>8, <1>9, <1>10

LEMMA StackReturns ==
  ASSUME NEW fs, NEW q, Stacked(fs, q), Len(fs) > 1, fs[1].todo = <<>>
  PROVE  Stacked(HandedOver(fs), q)
<1> DEFINE gs == HandedOver(fs)
           n == LevelOf(fs, q, 2)
           x == Finished(fs[1].f, fs[1].text)
           r == fs[2].text \o x
<1>1. /\ fs \in Seq(Frames) /\ fs # <<>> /\ q.n \in Int /\ fs[Len(fs)].f = q.f
      /\ \A k \in 2..Len(fs) : Waits(fs[k], LevelOf(fs, q, k), fs[k - 1].f)
  BY DEF Stacked
<1>2. Len(fs) \in Nat /\ 1 \in 1..Len(fs) /\ 2 \in 2..Len(fs) /\ 2 \in 1..Len(fs) /\ 2 - 1 = 1
  BY <1>1
<1>3. fs[1].f \in Composites /\ fs[2].f \in Composites /\ fs[2].text \in Seq(Marks)
  <2>1. fs[1] \in Frames /\ fs[2] \in Frames
    BY <1>1, <1>2
  <2> QED
    BY <2>1 DEF Frames
<1>4. LevelOf(fs, q, 1) = 1
  <2>1. 1 # Len(fs)
    BY <1>2, FramesCount
  <2> QED
    BY <2>1 DEF LevelOf
<1>5. Wrote(fs[1].f, x)
  <2>1. PICK t \in Contents(fs[1].f, LevelOf(fs, q, 1)) : \E p \in 0..Len(t) :
          Shape(fs[1].f, t, p, fs[1].text) /\ p = Len(t)
    BY InnermostIs
  <2>2. t \in Contents(fs[1].f, 1) /\ Shape(fs[1].f, t, Len(t), fs[1].text)
    BY <1>4, <2>1
  <2> QED
    BY <1>3, <2>2, FinishWrote
<1>6. n \in Int
  BY LevelsWhole
<1>7. Waits(fs[2], n, fs[1].f)
  BY <1>1, <1>2
<1> HIDE DEF n
<1>8. PICK t \in Contents(fs[2].f, n) : \E p \in 0..(Len(t) - 1) :
        /\ t[p + 1] = Token(fs[1].f) /\ fs[2].todo = SubSeq(t, p + 2, Len(t))
        /\ Shape(fs[2].f, t, p, fs[2].text)
  BY <1>7 DEF Waits
<1>9. PICK p \in 0..(Len(t) - 1) :
        /\ t[p + 1] = Token(fs[1].f) /\ fs[2].todo = SubSeq(t, p + 2, Len(t))
        /\ Shape(fs[2].f, t, p, fs[2].text)
  BY <1>8
<1> HIDE DEF x
<1>10. Shape(fs[2].f, t, p + 1, r)
  <2>1. Follows(Token(fs[1].f), fs[2].text, r)
    <3>1. fs[1].f \in Known
      BY <1>3 DEF Known
    <3> QED
      BY <1>5, <3>1 DEF Follows
  <2>2. Follows(t[p + 1], fs[2].text, r)
    BY <1>9, <2>1
  <2> HIDE DEF r
  <2> QED
    BY <1>3, <1>6, <1>9, <2>2, ShapeSteps
<1>11. r \in Seq(Marks)
  BY <1>10 DEF Shape
<1>12. /\ gs \in Seq(Frames) /\ Len(gs) = Len(fs) - 1
       /\ gs[1].f = fs[2].f /\ gs[1].todo = fs[2].todo /\ gs[1].text = r
       /\ \A k \in 2..(Len(fs) - 1) : gs[k] = fs[k + 1]
       /\ \A k \in 1..(Len(fs) - 1) : gs[k].f = fs[k + 1].f
  <2>1. r = fs[2].text \o Finished(fs[1].f, fs[1].text)
    BY DEF x
  <2> HIDE DEF r
  <2> QED
    BY <1>1, <1>11, <2>1, ReturnedIs
<1> HIDE DEF gs, r
<1>13. Len(gs) \in Nat /\ Len(gs) > 0 /\ Len(gs) \in 1..(Len(fs) - 1) /\ Len(gs) + 1 = Len(fs)
  BY <1>2, <1>12
<1>14. gs # <<>> /\ gs[Len(gs)].f = q.f
  <2>1. gs[Len(gs)].f = fs[Len(gs) + 1].f
    BY <1>12, <1>13
  <2>2. gs # <<>>
    BY <1>13
  <2> QED
    BY <1>1, <1>13, <2>1, <2>2
<1>15. ASSUME NEW k \in 1..Len(gs) PROVE LevelOf(gs, q, k) = LevelOf(fs, q, k + 1)
  <2>1. k = Len(gs) <=> k + 1 = Len(fs)
    BY <1>13
  <2> QED
    BY <2>1 DEF LevelOf
<1>16. Ready(gs[1], LevelOf(gs, q, 1))
  <2>1. p + 1 \in 0..Len(t) /\ p + 1 + 1 = p + 2
    <3>1. t \in Seq(Pieces)
      BY <1>3, <1>6, ContentsAre
    <3>2. Len(t) \in Nat
      BY <3>1
    <3> QED
      BY <3>2
  <2>2. Ready(gs[1], n)
    <3>1. gs[1].todo = SubSeq(t, p + 1 + 1, Len(t))
      BY <1>9, <1>12, <2>1
    <3> QED
      BY <1>10, <1>12, <2>1, <3>1 DEF Ready
  <2>3. LevelOf(gs, q, 1) = n
    <3>1. 1 \in 1..Len(gs) /\ 1 + 1 = 2
      BY <1>13
    <3> QED
      BY <1>15, <3>1 DEF n
  <2> QED
    BY <2>2, <2>3
<1>17. ASSUME NEW k \in 2..Len(gs) PROVE Waits(gs[k], LevelOf(gs, q, k), gs[k - 1].f)
  <2>1. /\ k \in 2..(Len(fs) - 1) /\ k - 1 \in 1..(Len(fs) - 1) /\ k \in 1..Len(gs)
        /\ k + 1 \in 2..Len(fs) /\ k - 1 + 1 = k /\ k + 1 - 1 = k
    BY <1>2, <1>12, <1>13
  <2>2. gs[k] = fs[k + 1] /\ gs[k - 1].f = fs[k - 1 + 1].f /\ LevelOf(gs, q, k) = LevelOf(fs, q, k + 1)
    BY <1>12, <1>15, <2>1
  <2>3. Waits(fs[k + 1], LevelOf(fs, q, k + 1), fs[k + 1 - 1].f)
    <3> DEFINE j == k + 1
    <3>1. j \in 2..Len(fs)
      BY <2>1
    <3> HIDE DEF j
    <3>2. Waits(fs[j], LevelOf(fs, q, j), fs[j - 1].f)
      BY <1>1, <3>1
    <3> QED
      BY <3>2 DEF j
  <2> QED
    BY <2>1, <2>2, <2>3
<1>18. Stacked(gs, q)
  BY <1>1, <1>12, <1>14, <1>16, <1>17 DEF Stacked
<1> QED
  BY <1>18 DEF gs

\* The outermost frame is done.
LEMMA StackEnds ==
  ASSUME NEW fs, NEW q, Stacked(fs, q), Len(fs) = 1, fs[1].todo = <<>>
  PROVE  /\ fs[1].f = q.f /\ q.f \in Composites /\ q.n \in Int
         /\ \E t \in Contents(q.f, q.n) : Shape(q.f, t, Len(t), fs[1].text)
<1>1. fs[1].f = q.f /\ q.n \in Int
  BY DEF Stacked
<1>2. LevelOf(fs, q, 1) = q.n
  BY DEF LevelOf
<1>3. fs[1] \in Frames /\ \E t \in Contents(fs[1].f, LevelOf(fs, q, 1)) : \E p \in 0..Len(t) :
        Shape(fs[1].f, t, p, fs[1].text) /\ p = Len(t)
  BY InnermostIs
<1>4. q.f \in Composites
  BY <1>1, <1>3 DEF Frames
<1> QED
  BY <1>1, <1>2, <1>3, <1>4

-----------------------------------------------------------------------------
(* The steps of a call                                                     *)

LEMMA PieceIs ==
  ASSUME NEW x \in Pieces
  PROVE  /\ x.op = "say" => x = Say(x.what) /\ x.what \in Seq(Marks)
         /\ x.op = "token" => \E g \in Known : x = Token(g) /\ x.what[1] = g
         /\ x.op = "clear" => x = Clear
<1>1. ASSUME NEW c \in Seq(Marks), x = Say(c)
      PROVE  x.op = "say" /\ x = Say(x.what) /\ x.what \in Seq(Marks)
  BY <1>1 DEF Say
<1>2. ASSUME NEW g \in Known, x = Token(g)
      PROVE  x.op = "token" /\ x = Token(g) /\ x.what[1] = g
  BY <1>2 DEF Token
<1>3. Clear.op = "clear"
  BY DEF Clear
<1> QED
  BY <1>1, <1>2, <1>3 DEF Pieces

LEMMA RenderStarts ==
  RenderInit => RenderInv
BY DEF RenderInit, RenderInv, NamesWellFormed

\* Nothing is to be said of the result while a call is under way.
LEMMA StillRendering ==
  ASSUME Stacked(frames', renderRequest'), rendering' = "rendering",
         renderRequest'.f = "domain_name" => renderRequest'.n >= 1
  PROVE  RenderInv'
BY DEF RenderInv, NamesWellFormed

LEMMA RenderAsked ==
  ASSUME NEW f \in Composites, NEW n \in Int, AskRender(f, n)
  PROVE  RenderInv'
<1>1. renderRequest' = [f |-> f, n |-> n]
  BY DEF AskRender
<1>2. CASE f = "domain_name" /\ n < 1
  <2>1. rendering' = "failed" /\ renderRequest'.n < 1
    BY <1>1, <1>2 DEF AskRender
  <2> QED
    BY <2>1 DEF RenderInv, NamesWellFormed
<1>3. CASE ~(f = "domain_name" /\ n < 1)
  <2>1. rendering' = "rendering"
    BY <1>3 DEF AskRender
  <2>2. PICK t \in Contents(f, n) : frames' = <<Frame(f, t)>>
    BY <1>3 DEF AskRender
  <2>3. Stacked(frames', renderRequest')
    BY <1>1, <2>2, StackStarts
  <2>4. renderRequest'.f = "domain_name" => renderRequest'.n >= 1
    BY <1>1, <1>3
  <2> QED
    BY <2>1, <2>3, <2>4, StillRendering
<1> QED
  BY <1>2, <1>3

LEMMA RenderAnswered ==
  GotRendered => RenderInv'
BY DEF GotRendered, RenderInv, NamesWellFormed

\* The innermost formatter writes one segment.
LEMMA RenderWritten ==
  ASSUME Stacked(frames, renderRequest), WriteLiteral \/ ClearText \/ WriteLeaf
  PROVE  Stacked(frames', renderRequest)
<1> DEFINE seg == frames[1].todo[1]
<1>1. frames[1].todo # <<>>
  BY DEF WriteLiteral, ClearText, WriteLeaf, NextIs
<1>2. seg \in Pieces
  BY <1>1, InnermostIs
<1>3. CASE WriteLiteral
  <2>1. seg.op = "say" /\ frames' = Advanced(frames, frames[1].text \o seg.what)
    BY <1>3 DEF WriteLiteral, NextIs, Written, Segment, Advanced
  <2>2. seg = Say(seg.what) /\ seg.what \in Seq(Marks)
    BY <1>2, <2>1, PieceIs
  <2>3. Follows(seg, frames[1].text, frames[1].text \o seg.what)
    BY <2>2 DEF Follows
  <2> QED
    BY <1>1, <2>1, <2>3, StackAdvances
<1>4. CASE ClearText
  <2>1. seg.op = "clear" /\ frames' = Advanced(frames, <<>>)
    BY <1>4 DEF ClearText, NextIs, Written, Advanced
  <2>2. seg = Clear
    BY <1>2, <2>1, PieceIs
  <2>3. Follows(seg, frames[1].text, <<>>)
    BY <2>2 DEF Follows
  <2> QED
    BY <1>1, <2>1, <2>3, StackAdvances
<1>5. CASE WriteLeaf
  <2>1. seg.op = "token" /\ seg.what[1] \in DOMAIN LeafTexts
    BY <1>5 DEF WriteLeaf, NextIs, Callee, Segment
  <2>2. PICK s \in LeafTexts[seg.what[1]] : frames' = Advanced(frames, frames[1].text \o s)
    BY <1>5 DEF WriteLeaf, Callee, Segment, Written, Advanced
  <2>3. PICK g \in Known : seg = Token(g) /\ seg.what[1] = g
    BY <1>2, <2>1, PieceIs
  <2>4. Wrote(g, s)
    BY <2>1, <2>2, <2>3, LeafWrote
  <2>5. Follows(seg, frames[1].text, frames[1].text \o s)
    BY <2>3, <2>4 DEF Follows
  <2> QED
    BY <1>1, <2>2, <2>5, StackAdvances
<1> QED
  BY <1>3, <1>4, <1>5

LEMMA RenderCalled ==
  ASSUME Stacked(frames, renderRequest), CallFormatter
  PROVE  Stacked(frames', renderRequest)
<1> DEFINE seg == frames[1].todo[1]
<1>1. frames[1].todo # <<>> /\ seg.op = "token" /\ seg.what[1] \notin DOMAIN LeafTexts
  BY DEF CallFormatter, NextIs, Callee, Segment
<1>2. seg \in Pieces
  BY <1>1, InnermostIs
<1>3. PICK g \in Known : seg = Token(g) /\ seg.what[1] = g
  BY <1>1, <1>2, PieceIs
<1>4. g \in Composites
  BY <1>1, <1>3 DEF Known
<1>5. PICK t \in Contents(g, 1) :
        frames' = IF Len(frames) < MaxDepth THEN <<Frame(g, t)>> \o Advanced(frames, frames[1].text)
                  ELSE frames
  <2>1. Callee = g
    BY <1>3 DEF Callee, Segment
  <2> QED
    BY <2>1 DEF CallFormatter, Written, Advanced
<1>6. CASE Len(frames) < MaxDepth
  <2>1. frames' = <<Frame(g, t)>> \o Advanced(frames, frames[1].text)
    BY <1>5, <1>6
  <2>2. Stacked(<<Frame(g, t)>> \o Advanced(frames, frames[1].text), renderRequest)
    BY <1>1, <1>3, <1>4, StackCalls
  <2> QED
    BY <2>1, <2>2
<1>7. CASE ~(Len(frames) < MaxDepth)
  BY <1>5, <1>7
<1> QED
  BY <1>6, <1>7

LEMMA RenderReturned ==
  ASSUME Stacked(frames, renderRequest), ReturnText
  PROVE  Stacked(frames', renderRequest)
<1>1. Len(frames) > 1 /\ frames[1].todo = <<>> /\ frames' = HandedOver(frames)
  BY DEF ReturnText, HandedOver
<1> QED
  BY <1>1, StackReturns

LEMMA RenderDone ==
  ASSUME Stacked(frames, renderRequest), renderRequest.f = "domain_name" => renderRequest.n >= 1,
         Len(frames) = 1, frames[1].todo = <<>>, rendering' = "done",
         rendered' = Finished(frames[1].f, frames[1].text), UNCHANGED renderRequest
  PROVE  RenderInv'
<1> DEFINE f == renderRequest.f
           n == renderRequest.n
           s == frames[1].text
<1>1. /\ frames[1].f = f /\ f \in Composites /\ n \in Int
      /\ \E t \in Contents(f, n) : Shape(f, t, Len(t), s)
  BY StackEnds
<1>2. PICK t \in Contents(f, n) : Shape(f, t, Len(t), s)
  BY <1>1
<1>3. rendered' = Finished(f, s) /\ renderRequest'.f = f /\ renderRequest'.n = n
  BY <1>1
<1>4. f = "domain_name" => n >= 1
  OBVIOUS
<1> HIDE DEF f, n, s
<1>5. /\ f = "domain_word" => HostLike(Finished(f, s), {0})
      /\ f = "domain_name" => HostLike(Finished(f, s), {Levels(n)})
      /\ f = "hostname" => HostLike(Finished(f, s), {IF n < 1 THEN 0 ELSE n + 1})
      /\ f \in {"email", "safe_email", "free_email", "company_email"} => MailLike(Finished(f, s))
      /\ f \in {"url", "uri"} => UrlLike(Finished(f, s))
  BY <1>1, <1>2, TextFinished
<1>6. f = "domain_name" => Levels(n) = n
  BY <1>1, <1>4 DEF Levels
<1>7. NamesWellFormed'
  BY <1>3, <1>5, <1>6 DEF NamesWellFormed
<1> QED
  BY <1>7 DEF RenderInv

\* Each frame stays at a place of its template with the text for that place.
LEMMA RenderKept ==
  RenderInv /\ [RenderNext]_renderVars => RenderInv'
<1> SUFFICES ASSUME RenderInv, [RenderNext]_renderVars PROVE RenderInv'
  OBVIOUS
<1>1. ASSUME NEW f, NEW n, rendering = "idle", AskRender(f, n),
             \/ f \in Renderable /\ n = 1
             \/ f \in {"domain_name", "hostname", "uri"} /\ n \in (-1)..MaxLevels
      PROVE  RenderInv'
  <2>1. f \in Composites
    BY <1>1 DEF Renderable, Composites, Coded
  <2>2. n \in Int
    BY <1>1, RenderingAssumption
  <2> QED
    BY <1>1, <2>1, <2>2, RenderAsked
<1>2. ASSUME UnderWay PROVE Stacked(frames, renderRequest)
                            /\ (renderRequest.f = "domain_name" => renderRequest.n >= 1)
  BY <1>2 DEF RenderInv, UnderWay
<1>3. CASE /\ WriteLiteral \/ ClearText \/ WriteLeaf \/ CallFormatter \/ ReturnText
           /\ UNCHANGED <<rendering, renderRequest, rendered>>
  <2>1. UnderWay
    BY <1>3 DEF WriteLiteral, ClearText, WriteLeaf, CallFormatter, ReturnText, NextIs
  <2>2. Stacked(frames', renderRequest)
    BY <1>2, <1>3, <2>1, RenderWritten, RenderCalled, RenderReturned
  <2>3. rendering' = "rendering" /\ renderRequest' = renderRequest
    BY <1>3, <2>1 DEF UnderWay
  <2>4. Stacked(frames', renderRequest') /\ (renderRequest'.f = "domain_name" => renderRequest'.n >= 1)
    BY <1>2, <2>1, <2>2, <2>3
  <2> QED
    BY <2>3, <2>4, StillRendering
<1>4. CASE /\ UnderWay /\ Len(frames) = 1 /\ frames[1].todo = <<>>
           /\ rendering' = "done" /\ frames' = <<>>
           /\ rendered' = Finished(frames[1].f, frames[1].text)
           /\ UNCHANGED renderRequest
  BY <1>2, <1>4, RenderDone
<1>5. CASE GotRendered
  BY <1>5, RenderAnswered
<1>6. CASE UNCHANGED renderVars
  BY <1>6 DEF renderVars, RenderInv, NamesWellFormed
<1> QED
  BY <1>1, <1>3, <1>4, <1>5, <1>6 DEF RenderNext, RenderStep

\* However deep templates call one another, whatever names, punctuation and case
\* they bring in: an address has one local part, one "@" and a host, a domain
\* name the levels asked for, a URL a host between "://" and "/" (internet.rs:
\* 200-393, slugify of text.rs), and only a domain without a level is refused.
THEOREM NamesWellFormedTheorem == RenderSpec => []NamesWellFormed
<1>1. RenderInv => NamesWellFormed
  BY DEF RenderInv
<1> QED
  BY <1>1, RenderStarts, RenderKept, PTL DEF RenderSpec

-----------------------------------------------------------------------------
(* What calls what, for any templates that lead round no circle             *)

\* The formatters with templates that segments name are in G.
CallsIn(s, G) == \A k \in 1..Len(s) : \A g \in Composites : s[k] = Token(g) => g \in G

LEMMA CallsJoined ==
  ASSUME NEW G, NEW a \in Seq(Pieces), NEW b \in Seq(Pieces), CallsIn(a, G), CallsIn(b, G)
  PROVE  CallsIn(a \o b, G)
<1> DEFINE q == a \o b
<1>1. /\ \A i \in 1..Len(a) : q[i] = a[i]
      /\ \A i \in 1..Len(b) : q[Len(a) + i] = b[i]
      /\ \A i \in 1..Len(q) : i \in 1..Len(a) \/ i - Len(a) \in 1..Len(b)
      /\ Len(a) \in Nat
  BY Joined
<1> HIDE DEF q
<1>2. ASSUME NEW k \in 1..Len(q), NEW g \in Composites, q[k] = Token(g)
      PROVE  g \in G
  <2>1. CASE k \in 1..Len(a)
    BY <1>1, <1>2, <2>1 DEF CallsIn
  <2>2. CASE k - Len(a) \in 1..Len(b)
    <3>1. Len(a) + (k - Len(a)) = k
      BY <1>1
    <3>2. b[k - Len(a)] = Token(g)
      BY <1>1, <1>2, <2>2, <3>1
    <3> QED
      BY <2>2, <3>2 DEF CallsIn
  <2> QED
    BY <1>1, <2>1, <2>2
<1> QED
  BY <1>2 DEF q, CallsIn

\* Words are no formatters with templates.
LEMMA LeafCalls ==
  ASSUME NEW h \in {"tld", "hostname_prefix", "free_email_domain", "safe_domain_name", "uri_path",
                   "uri_page", "uri_extension"},
         NEW g \in Composites
  PROVE  Token(h) # Token(g)
<1>1. h \in DOMAIN LeafTexts /\ DOMAIN LeafTexts \cap Composites = {}
  BY NamesAssumption
<1>2. h # g
  BY <1>1
<1> QED
  BY <1>2, Distinct

LEMMA DomainCalls ==
  ASSUME NEW n \in Int
  PROVE  CallsIn(DomainName(n), {"domain_word"})
<1> SUFFICES ASSUME NEW k \in 1..Len(DomainName(n)), NEW g \in Composites,
                    DomainName(n)[k] = Token(g)
             PROVE  g = "domain_word"
  BY DEF CallsIn
<1> DEFINE L == Levels(n)
           N == 2 * L + 1
           t == DomainName(n)
<1>1. L \in Nat
  BY DEF Levels
<1>2. t = [i \in 1..N |-> CASE i = N -> Token("tld")
                            [] i % 2 = 0 -> Say(<<".">>)
                            [] OTHER -> Token("domain_word")]
  BY DEF DomainName
<1>3. Len(t) = N
  BY DomainIs
<1> HIDE DEF L, t
<1>4. t[k] \in {Token("tld"), Say(<<".">>), Token("domain_word")}
  BY <1>2, <1>3 DEF t
<1>5. t[k] # Token("tld")
  BY LeafCalls DEF t
<1>6. t[k] # Say(<<".">>)
  BY Distinct DEF t
<1>7. Token(g) = Token("domain_word")
  BY <1>4, <1>5, <1>6 DEF t
<1> QED
  BY <1>7, Distinct

LEMMA HostCalls ==
  ASSUME NEW n \in Int
  PROVE  CallsIn(Hostname(n), {"domain_word"})
<1> SUFFICES ASSUME NEW k \in 1..Len(Hostname(n)), NEW g \in Composites, Hostname(n)[k] = Token(g)
             PROVE  g = "domain_word"
  BY DEF CallsIn
<1>1. k # 1
  BY HostnameIs, LeafCalls
<1>2. k # 2
  BY HostnameIs, Distinct
<1>3. n >= 1
  <2> SUFFICES ASSUME n < 1 PROVE FALSE
    OBVIOUS
  <2>1. Len(Hostname(n)) = 2
    BY HostnameIs
  <2>2. k \in 1..2
    BY <2>1
  <2> QED
    BY <1>1, <1>2, <2>2
<1>4. k # 3
  BY <1>3, HostnameIs, Distinct
<1>5. Len(Hostname(n)) = 3 + Len(DomainName(n)) /\ Len(DomainName(n)) \in Nat
  <2>1. DomainName(n) \in Seq(Pieces)
    BY DomainIs
  <2> QED
    BY <1>3, <2>1, HostnameIs
<1> DEFINE i == k - 3
<1>6. i \in 1..Len(DomainName(n)) /\ 3 + i = k
  BY <1>1, <1>2, <1>4, <1>5
<1> HIDE DEF i
<1>7. DomainName(n)[i] = Token(g)
  BY <1>3, <1>6, HostnameIs
<1> QED
  BY <1>6, <1>7, DomainCalls DEF CallsIn

LEMMA BaseCalls ==
  ASSUME NEW b \in UrlBase
  PROVE  CallsIn(b, {"domain_name"})
<1> SUFFICES ASSUME NEW k \in 1..Len(b), NEW g \in Composites, b[k] = Token(g)
             PROVE  g = "domain_name"
  BY DEF CallsIn
<1>1. k # 1 /\ k # Len(b)
  BY BaseIs, Distinct
<1>2. Len(b) = 4 => k # 2
  BY BaseIs, Distinct
<1>3. Len(b) \in {3, 4}
  BY BaseIs
<1>4. k = Len(b) - 1
  <2> DEFINE m == Len(b)
  <2>1. k \in 1..m /\ k # 1 /\ k # m /\ (m = 4 => k # 2) /\ m \in {3, 4}
    BY <1>1, <1>2, <1>3
  <2> HIDE DEF m
  <2>2. k = m - 1
    BY ONLY <2>1
  <2> QED
    BY <2>2 DEF m
<1>5. Token(g) = Token("domain_name")
  BY <1>4, BaseIs
<1> QED
  BY <1>5, Distinct

LEMMA UriCalls ==
  ASSUME NEW n \in Int, NEW t \in Contents("uri", n)
  PROVE  CallsIn(t, {"domain_name"})
<1> DEFINE e == <<Token("uri_page"), Token("uri_extension")>>
           G == {"domain_name"}
<1> HIDE DEF e, G
<1>1. PICK b \in UrlBase, u \in UriPaths(n) : t = b \o u \o e
  <2> DEFINE U == {x \o y \o e : x \in UrlBase, y \in UriPaths(n)}
  <2>1. Contents("uri", n) = U
    BY DEF Contents, e
  <2> HIDE DEF U
  <2>2. t \in U
    BY <2>1
  <2> QED
    BY <2>2 DEF U
<1>2. b \in Seq(Pieces) /\ u \in Seq(Pieces)
  BY BaseSolid, PathsAre, SolidIs
<1>3. e \in Seq(Pieces)
  BY NamesAssumption DEF e, Known, Pieces
<1>4. CallsIn(b, G)
  BY BaseCalls DEF G
<1>5. CallsIn(u, G)
  <2> SUFFICES ASSUME NEW k \in 1..Len(u), NEW g \in Composites, u[k] = Token(g) PROVE FALSE
    BY DEF CallsIn
  <2>1. u[k] = Say(<<"/">>) \/ u[k] = Token("uri_path")
    BY PathPieces
  <2> QED
    BY <2>1, LeafCalls, Distinct
<1>6. CallsIn(e, G)
  <2>1. Len(e) = 2 /\ e[1] = Token("uri_page") /\ e[2] = Token("uri_extension")
    BY DEF e
  <2> SUFFICES ASSUME NEW k \in 1..2, NEW g \in Composites, e[k] = Token(g) PROVE FALSE
    BY <2>1 DEF CallsIn
  <2> QED
    BY <2>1, LeafCalls
<1>7. b \o u \in Seq(Pieces) /\ CallsIn(b \o u, G)
  BY <1>2, <1>4, <1>5, CallsJoined, Joined
<1> QED
  BY <1>1, <1>3, <1>6, <1>7, CallsJoined DEF G

LEMMA EmailCalls ==
  ASSUME NEW n, NEW t \in Contents("email", n)
  PROVE  CallsIn(t, Calls("email"))
<1> DEFINE G == Calls("email")
           c == <<Token("user_name"), Say(<<"@">>), Clear>>
<1>0. t \in {<<Token("user_name"), Say(<<"@">>), Clear>> \o m : m \in TableOf("email")}
  BY DEF Contents
<1>1. PICK m \in TableOf("email") : t = c \o m
  BY <1>0
<1>2. m \in TemplateTables["email"] /\ m \in Seq(Pieces)
  <2>1. m \in Seq(Solid)
    BY <1>1, TemplateIs, NamesAssumption
  <2> QED
    BY <1>1, <2>1, SolidIs DEF TableOf
<1>3. c \in Seq(Pieces)
  <2>1. "user_name" \in Known /\ <<"@">> \in Seq(Marks)
    BY NamesAssumption DEF Known, Composites, Marks
  <2>2. Token("user_name") \in Pieces /\ Say(<<"@">>) \in Pieces /\ Clear \in Pieces
    BY <2>1 DEF Pieces
  <2> QED
    BY <2>2
<1>4. CallsIn(c, G)
  <2> SUFFICES ASSUME NEW k \in 1..3, NEW g \in Composites, c[k] = Token(g) PROVE g \in G
    BY DEF CallsIn
  <2>1. c[1] = Token("user_name") /\ c[2] = Say(<<"@">>) /\ c[3] = Clear
    OBVIOUS
  <2> HIDE DEF c
  <2>2. Token(g) = Token("user_name")
    BY <2>1, Distinct
  <2>3. g = "user_name"
    BY <2>2, Distinct
  <2> QED
    BY <2>3 DEF Calls, CodeCalls
<1>5. CallsIn(m, G)
  <2> SUFFICES ASSUME NEW k \in 1..Len(m), NEW g \in Composites, m[k] = Token(g) PROVE g \in G
    BY DEF CallsIn
  <2>1. g \in TemplateCalls("email")
    BY <1>2 DEF TemplateCalls
  <2> QED
    BY <2>1, NamesAssumption DEF Calls
<1> HIDE DEF G, c
<1> QED
  BY <1>1, <1>2, <1>3, <1>4, <1>5, CallsJoined DEF G

\* What a formatter writes names none but those.
LEMMA CallsAre ==
  ASSUME NEW f \in Composites, NEW n \in Int, NEW t \in Contents(f, n),
         NEW k \in 1..Len(t), NEW g \in Composites, t[k] = Token(g)
  PROVE  g \in Calls(f)
<1>1. CASE f = "domain_word"
  <2>1. t = <<Token("company")>>
    BY <1>1, CodedContents
  <2>2. g = "company"
    BY <2>1, Distinct
  <2> QED
    BY <1>1, <2>2 DEF Calls, CodeCalls
<1>2. CASE f = "domain_name"
  <2>1. g = "domain_word"
    BY <1>2, CodedContents, DomainCalls DEF CallsIn
  <2> QED
    BY <1>2, <2>1 DEF Calls, CodeCalls
<1>3. CASE f = "hostname"
  <2>1. g = "domain_word"
    BY <1>3, CodedContents, HostCalls DEF CallsIn
  <2> QED
    BY <1>3, <2>1 DEF Calls, CodeCalls
<1>4. CASE f \in {"safe_email", "free_email"}
  <2>1. PICK h \in {"safe_domain_name", "free_email_domain"} :
           t = <<Token("user_name"), Say(<<"@">>), Token(h)>>
    BY <1>4, CodedContents
  <2>2. Token(h) # Token(g)
    BY LeafCalls
  <2>3. Token(g) = Token("user_name")
    BY <2>1, <2>2, Distinct
  <2>4. g = "user_name"
    BY <2>3, Distinct
  <2> QED
    BY <1>4, <2>4 DEF Calls, CodeCalls
<1>5. CASE f = "company_email"
  <2>1. t = <<Token("user_name"), Say(<<"@">>), Token("domain_name")>>
    BY <1>5, CodedContents
  <2>2. Token(g) = Token("user_name") \/ Token(g) = Token("domain_name")
    BY <2>1, Distinct
  <2>3. g \in {"user_name", "domain_name"}
    BY <2>2, Distinct
  <2> QED
    BY <1>5, <2>3 DEF Calls, CodeCalls
<1>6. CASE f = "email"
  BY <1>6, EmailCalls DEF CallsIn
<1>7. CASE f \in {"url", "uri"}
  <2>1. CallsIn(t, {"domain_name"})
    BY <1>7, CodedContents, BaseCalls, UriCalls
  <2>2. g = "domain_name"
    BY <2>1 DEF CallsIn
  <2> QED
    BY <1>7, <2>2 DEF Calls, CodeCalls
<1>8. CASE f \notin Coded /\ f \notin {"email", "url"}
  <2>1. f \in DOMAIN TemplateTables /\ t \in TemplateTables[f]
    BY <1>8, TableContents DEF Composites, TableOf
  <2>2. g \in TemplateCalls(f)
    BY <2>1 DEF TemplateCalls
  <2> QED
    BY <2>1, <2>2 DEF Calls
<1> QED
  BY <1>1, <1>2, <1>3, <1>4, <1>5, <1>6, <1>7, <1>8 DEF Coded

\* A frame has a lower rank than the one that waits for it.
LEMMA RankFalls ==
  ASSUME NEW rank, Ordered(rank), NEW fs, NEW q, Stacked(fs, q), NEW k \in 2..Len(fs)
  PROVE  rank[fs[k - 1].f] < rank[fs[k].f]
<1> DEFINE n == LevelOf(fs, q, k)
           g == fs[k - 1].f
           f == fs[k].f
<1>1. fs \in Seq(Frames) /\ Waits(fs[k], n, g) /\ n \in Int
  BY DEF Stacked, LevelOf
<1>2. k \in 1..Len(fs) /\ k - 1 \in 1..Len(fs)
  BY <1>1
<1>3. fs[k] \in Frames /\ fs[k - 1] \in Frames
  BY <1>1, <1>2
<1>4. f \in Composites /\ g \in Composites
  BY <1>3 DEF Frames
<1> HIDE DEF n, g
<1>5. PICK t \in Contents(f, n) : \E p \in 0..(Len(t) - 1) : t[p + 1] = Token(g)
  BY <1>1 DEF Waits
<1>6. t \in Seq(Pieces)
  BY <1>1, <1>4, <1>5, ContentsAre
<1>7. PICK p \in 0..(Len(t) - 1) : t[p + 1] = Token(g)
  BY <1>5
<1>8. p + 1 \in 1..Len(t)
  BY <1>6
<1>9. g \in Calls(f)
  BY <1>1, <1>4, <1>7, <1>8, CallsAre
<1> QED
  BY <1>4, <1>9 DEF Ordered, g

\* So no two frames have one formatter.
LEMMA RankApart ==
  ASSUME NEW rank, Ordered(rank), NEW fs, NEW q, Stacked(fs, q),
         NEW i \in 1..Len(fs), NEW j \in 1..Len(fs), i < j
  PROVE  fs[i].f # fs[j].f
<1>1. fs \in Seq(Frames) /\ Len(fs) \in Nat
  BY DEF Stacked
<1>2. \A k \in 1..Len(fs) : fs[k].f \in Composites
  <2> SUFFICES ASSUME NEW k \in 1..Len(fs) PROVE fs[k].f \in Composites
    OBVIOUS
  <2>1. fs[k] \in Frames
    BY <1>1
  <2> QED
    BY <2>1 DEF Frames
<1>3. \A k \in 1..Len(fs) : rank[fs[k].f] \in Nat
  BY <1>2 DEF Ordered
<1> DEFINE S == {k \in 1..Len(fs) : rank[fs[i].f] < rank[fs[k].f]}
<1>4. i + 1 \in S
  <2>1. i + 1 \in 2..Len(fs) /\ i + 1 - 1 = i /\ i + 1 \in 1..Len(fs)
    BY <1>1
  <2>2. rank[fs[i + 1 - 1].f] < rank[fs[i + 1].f]
    BY <2>1, RankFalls
  <2> QED
    BY <2>1, <2>2
<1>5. ASSUME NEW k \in (i + 1 + 1)..Len(fs), k - 1 \in S PROVE k \in S
  <2>1. k \in 2..Len(fs) /\ k \in 1..Len(fs) /\ k - 1 \in 1..Len(fs)
    BY <1>1
  <2>2. rank[fs[k - 1].f] < rank[fs[k].f]
    BY <2>1, RankFalls
  <2>3. rank[fs[i].f] < rank[fs[k - 1].f]
    BY <1>5
  <2>4. rank[fs[i].f] \in Nat /\ rank[fs[k - 1].f] \in Nat /\ rank[fs[k].f] \in Nat
    BY <1>3, <2>1
  <2>5. rank[fs[i].f] < rank[fs[k].f]
    BY ONLY <2>2, <2>3, <2>4
  <2> QED
    BY <2>1, <2>5
<1> HIDE DEF S
<1>6. \A k \in (i + 1)..Len(fs) : k \in S
  <2> DEFINE lo == i + 1
             hi == Len(fs)
  <2>1. lo \in Int /\ hi \in Int /\ lo \in S /\ \A k \in (lo + 1)..hi : k - 1 \in S => k \in S
    BY <1>1, <1>4, <1>5
  <2> HIDE DEF lo, hi
  <2>2. \A k \in lo..hi : k \in S
    BY ONLY <2>1, Induction
  <2> QED
    BY <2>2 DEF lo, hi
<1>7. j \in S
  BY <1>1, <1>6
<1>8. rank[fs[i].f] < rank[fs[j].f] /\ rank[fs[i].f] \in Nat
  BY <1>3, <1>7 DEF S
<1> QED
  BY <1>8

\* Without a rendering there are no frames.
LEMMA NoFrames ==
  /\ RenderInit => (rendering # "rendering" => frames = <<>>)
  /\ (rendering # "rendering" => frames = <<>>) /\ [RenderNext]_renderVars
       => (rendering # "rendering" => frames = <<>>)'
<1>1. RenderInit => (rendering # "rendering" => frames = <<>>)
  BY DEF RenderInit
<1>2. ASSUME rendering # "rendering" => frames = <<>>, [RenderNext]_renderVars,
             rendering' # "rendering"
      PROVE  frames' = <<>>
  <2>1. ASSUME NEW f, NEW n, rendering = "idle", AskRender(f, n) PROVE frames' = <<>>
    BY <1>2, <2>1 DEF AskRender
  <2>2. ~(UnderWay /\ UNCHANGED <<rendering, renderRequest, rendered>>)
    BY <1>2 DEF UnderWay
  <2>3. CASE RenderStep
    BY <2>2, <2>3 DEF RenderStep, WriteLiteral, ClearText, WriteLeaf, CallFormatter, ReturnText, NextIs
  <2>4. CASE GotRendered
    BY <2>4 DEF GotRendered
  <2>5. CASE UNCHANGED renderVars
    BY <1>2, <2>5 DEF renderVars
  <2> QED
    BY <1>2, <2>1, <2>3, <2>4, <2>5 DEF RenderNext
<1> QED
  BY <1>1, <1>2

\* For all templates that lead from formatters of a higher rank to lower ones:
\* none is called while it is under way (template.rs:98-130), however many levels
\* are asked for.  So the calls are never deeper than there are formatters.
THEOREM NoReentryTheorem ==
  ASSUME NEW CONSTANT rank, Ordered(rank)
  PROVE  RenderSpec => []NoReentry
<1> DEFINE Emptied == rendering # "rendering" => frames = <<>>
<1>1. RenderInv /\ Emptied => NoReentry
  <2> SUFFICES ASSUME RenderInv, Emptied, NEW i \in 1..Len(frames), NEW j \in 1..Len(frames),
                      frames[i].f = frames[j].f
               PROVE  i = j
    BY DEF NoReentry
  <2>1. CASE rendering = "rendering"
    <3>1. Stacked(frames, renderRequest)
      BY <2>1 DEF RenderInv
    <3>2. ~(i < j) /\ ~(j < i)
      BY <3>1, RankApart
    <3>3. i \in Int /\ j \in Int
      OBVIOUS
    <3> QED
      BY ONLY <3>2, <3>3
  <2>2. CASE rendering # "rendering"
    <3>1. frames = <<>>
      BY <2>2
    <3> QED
      BY <3>1
  <2> QED
    BY <2>1, <2>2
<1>2. (RenderInit => Emptied) /\ (Emptied /\ [RenderNext]_renderVars => Emptied')
  BY NoFrames
<1> HIDE DEF Emptied
<1> QED
  BY <1>1, <1>2, RenderStarts, RenderKept, PTL DEF RenderSpec
===============================================================================
