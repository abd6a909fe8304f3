----------------------------- MODULE PrefillProofs -----------------------------
(***************************************************************************)
(* Proofs about Prefill and its planner, for any prompts, geometry, policy *)
(* for waves and set of captured traces.                                   *)
(*                                                                         *)
(* First what a plan looks like: lengths and buckets, rows and waves in    *)
(* order, and PlanShape, which says that every row is in one request and   *)
(* a single one runs after the rows before it.  Then, one on top of the    *)
(* other, what the scheduler admits (AdmissionInv), what the chunks of a   *)
(* call write (CacheInv), and what the call returns (ResultInv).           *)
(***************************************************************************)
EXTENDS Prefill, FiniteSetTheorems, TLAPS

-----------------------------------------------------------------------------
(* Numbers.  A set of numbers that holds 0 and with n also n + 1 holds them all, by the pigeonhole *)
(* principle: up to a number it lacks, adding one would be an injection into a smaller set.        *)

LEMMA InductionOnNat ==
    ASSUME NEW G, 0 \in G, \A n \in Nat : n \in G => n + 1 \in G
    PROVE  \A n \in Nat : n \in G
<1> SUFFICES ASSUME NEW k \in Nat, k \notin G PROVE FALSE
  OBVIOUS
<1> DEFINE H == {i \in 0 .. k : i \in G}
           T == H \ {0}
           f == [i \in H |-> i + 1]
<1>1. IsFiniteSet(H)
  <2>1. IsFiniteSet(0 .. k)
    BY FS_Interval
  <2> QED BY <2>1, FS_Subset
<1>2. 0 \in H
  OBVIOUS
<1>3. f \in [H -> T] /\ \A x, y \in H : f[x] = f[y] => x = y
  <2>1. \A i \in H : i \in Nat /\ i < k /\ i + 1 \in H
    OBVIOUS
  <2>2. \A i \in H : i + 1 \in T
    BY <2>1
  <2>3. \A x, y \in H : x + 1 = y + 1 => x = y
    BY <2>1
  <2> QED BY <2>2, <2>3
<1> HIDE DEF H, f
<1>4. IsFiniteSet(T) /\ Cardinality(T) = Cardinality(H) - 1 /\ Cardinality(H) \in Nat
  BY <1>1, <1>2, FS_RemoveElement, FS_CardinalityType
<1> HIDE DEF T
<1>5. Cardinality(T) < Cardinality(H)
  BY <1>4
<1> QED BY <1>1, <1>3, <1>4, <1>5, FS_PigeonHole

LEMMA Minimum ==
    ASSUME NEW S \in SUBSET Nat, S # {}
    PROVE  \E m \in S : \A x \in S : m <= x
<1> DEFINE G == {n \in Nat : (\E x \in S : x <= n) => \E m \in S : \A x \in S : m <= x}
<1>1. 0 \in G
  OBVIOUS
<1>2. ASSUME NEW n \in Nat, n \in G PROVE n + 1 \in G
  <2>1. CASE \E x \in S : x <= n
    BY <1>2, <2>1
  <2>2. CASE ~\E x \in S : x <= n
    <3>1. \A x \in S : n + 1 <= x
      BY <2>2
    <3> QED BY <3>1
  <2> QED BY <2>1, <2>2
<1>3. \A n \in Nat : n \in G
  <2> HIDE DEF G
  <2> QED BY <1>1, <1>2, InductionOnNat
<1>4. PICK x \in S : TRUE
  OBVIOUS
<1>5. x \in G /\ x \in Nat /\ x <= x
  BY <1>3
<1> QED BY <1>5

LEMMA Maximum ==
    ASSUME NEW b \in Nat, NEW S \in SUBSET (0 .. b), S # {}
    PROVE  \E m \in S : \A x \in S : x <= m
<1> DEFINE D == {b - x : x \in S}
<1>1. D \in SUBSET Nat /\ D # {}
  <2>1. \A x \in S : x \in Int /\ 0 <= x /\ x <= b
    OBVIOUS
  <2>2. \A x \in S : b - x \in Nat
    BY <2>1
  <2> QED BY <2>2
<1>2. PICK d \in D : \A x \in D : d <= x
  BY <1>1, Minimum
<1>3. PICK m \in S : d = b - m
  BY <1>2
<1>4. \A x \in S : d <= b - x
  BY <1>2
<1> QED BY <1>3, <1>4

LEMMA Ceiling ==
    ASSUME NEW n \in Nat, NEW d \in Nat \ {0}
    PROVE  /\ CeilDiv(n, d) \in Nat
           /\ n <= CeilDiv(n, d) * d /\ CeilDiv(n, d) * d < n + d
           /\ n > 0 => CeilDiv(n, d) > 0
<1> DEFINE q == (n + d - 1) \div d
           r == (n + d - 1) % d
<1>1. q \in Nat /\ r \in 0 .. d - 1 /\ n + d - 1 = q * d + r
  OBVIOUS
<1>2. n > 0 => q > 0
  <2> SUFFICES ASSUME n > 0, q = 0 PROVE FALSE
    BY <1>1
  <2> QED BY <1>1
<1> QED BY <1>1, <1>2 DEF CeilDiv

\* The least multiple: a number of units that is enough is no less than the quotient.
LEMMA CeilingLeast ==
    ASSUME NEW n \in Nat, NEW d \in Nat \ {0}, NEW m \in Nat, n <= m * d
    PROVE  CeilDiv(n, d) <= m
<1>1. CeilDiv(n, d) \in Nat /\ CeilDiv(n, d) * d < n + d
  BY Ceiling
<1> SUFFICES ASSUME m + 1 <= CeilDiv(n, d) PROVE FALSE
  BY <1>1
<1>2. (m + 1) * d <= CeilDiv(n, d) * d /\ (m + 1) * d = m * d + d
  BY <1>1
<1> QED BY <1>1, <1>2

LEMMA CeilingGrows ==
    ASSUME NEW n \in Nat, NEW m \in Nat, n <= m, NEW d \in Nat \ {0}
    PROVE  CeilDiv(n, d) <= CeilDiv(m, d)
<1>1. CeilDiv(m, d) \in Nat /\ m <= CeilDiv(m, d) * d
  BY Ceiling
<1>2. n <= CeilDiv(m, d) * d
  BY <1>1
<1> QED BY <1>1, <1>2, CeilingLeast

-----------------------------------------------------------------------------
(* Powers of two. *)

LEMMA TwoToIsPower == TwoTo = [k \in Nat |-> IF k = 0 THEN 1 ELSE 2 * TwoTo[k - 1]]
<1> DEFINE Powers(n, f) == f[0] = 1 /\ \A k \in 1 .. n : f[k] = 2 * f[k - 1]
           G == {n \in Nat : \E f \in [Nat -> Nat] : Powers(n, f)}
<1>1. 0 \in G
  <2>1. [k \in Nat |-> 1] \in [Nat -> Nat] /\ Powers(0, [k \in Nat |-> 1])
    OBVIOUS
  <2> QED BY <2>1
<1>2. ASSUME NEW n \in Nat, n \in G PROVE n + 1 \in G
  <2>1. PICK f \in [Nat -> Nat] : Powers(n, f)
    BY <1>2
  <2> DEFINE g == [k \in Nat |-> IF k = n + 1 THEN 2 * f[n] ELSE f[k]]
  <2>2. g \in [Nat -> Nat]
    OBVIOUS
  <2>3. g[0] = 1
    BY <2>1
  <2>4. ASSUME NEW k \in 1 .. n + 1 PROVE g[k] = 2 * g[k - 1]
    BY <2>1
  <2>5. Powers(n + 1, g)
    BY <2>3, <2>4
  <2> HIDE DEF g, Powers
  <2> QED BY <2>2, <2>5
<1>3. \A n \in Nat : n \in G
  <2> HIDE DEF G
  <2> QED BY <1>1, <1>2, InductionOnNat
<1> DEFINE power(n) == CHOOSE f \in [Nat -> Nat] : Powers(n, f)
<1>4. \A n \in Nat : power(n) \in [Nat -> Nat] /\ Powers(n, power(n))
  BY <1>3
<1>5. ASSUME NEW f \in [Nat -> Nat], NEW g \in [Nat -> Nat], NEW n \in Nat, NEW m \in Nat, n <= m,
             Powers(n, f), Powers(m, g)
      PROVE  f[n] = g[n]
  <2> DEFINE E == {k \in Nat : k <= n => f[k] = g[k]}
  <2>1. 0 \in E
    BY <1>5
  <2>2. ASSUME NEW k \in Nat, k \in E PROVE k + 1 \in E
    BY <1>5, <2>2
  <2>3. \A k \in Nat : k \in E
    <3> HIDE DEF E
    <3> QED BY <2>1, <2>2, InductionOnNat
  <2> QED BY <2>3
<1> DEFINE F == [n \in Nat |-> power(n)[n]]
<1>6. ASSUME NEW n \in Nat PROVE F[n] = IF n = 0 THEN 1 ELSE 2 * F[n - 1]
  <2>1. CASE n = 0
    BY <1>4, <2>1
  <2>2. CASE n # 0
    <3>1. n - 1 \in Nat /\ n \in 1 .. n /\ n - 1 <= n
      BY <2>2
    <3>2. /\ power(n) \in [Nat -> Nat] /\ Powers(n, power(n))
          /\ power(n - 1) \in [Nat -> Nat] /\ Powers(n - 1, power(n - 1))
      BY <1>4, <3>1
    <3>3. F[n] = power(n)[n] /\ F[n - 1] = power(n - 1)[n - 1]
      BY <3>1
    <3> HIDE DEF power, F
    <3>4. power(n)[n] = 2 * power(n)[n - 1]
      BY <3>1, <3>2
    <3>5. power(n - 1)[n - 1] = power(n)[n - 1]
      <4> HIDE DEF Powers
      <4> QED BY <1>5, <3>1, <3>2
    <3> QED BY <2>2, <3>3, <3>4, <3>5
  <2> QED BY <2>1, <2>2
<1>7. F = [k \in Nat |-> IF k = 0 THEN 1 ELSE 2 * F[k - 1]]
  <2>1. F = [k \in Nat |-> F[k]]
    OBVIOUS
  <2> HIDE DEF F
  <2> QED BY <1>6, <2>1
<1> HIDE DEF F
<1> QED BY <1>7 DEF TwoTo

LEMMA Doubling ==
    /\ TwoTo[0] = 1
    /\ \A k \in Nat : TwoTo[k] \in Nat \ {0} /\ TwoTo[k + 1] = 2 * TwoTo[k]
<1>1. TwoTo[0] = 1 /\ \A k \in Nat : TwoTo[k + 1] = 2 * TwoTo[k]
  BY TwoToIsPower
<1> DEFINE G == {k \in Nat : TwoTo[k] \in Nat \ {0}}
<1>2. 0 \in G /\ \A k \in Nat : k \in G => k + 1 \in G
  BY <1>1
<1>3. \A k \in Nat : k \in G
  <2> HIDE DEF G
  <2> QED BY <1>2, InductionOnNat
<1> QED BY <1>1, <1>3

\* Some power of two lies in any n .. 2 * n - 1.
LEMMA PowerAbove ==
    ASSUME NEW n \in Nat \ {0}
    PROVE  \E k \in 0 .. n : n <= TwoTo[k] /\ TwoTo[k] < 2 * n
<1> DEFINE G == {m \in Nat : \E k \in 0 .. m : m + 1 <= TwoTo[k] /\ TwoTo[k] < 2 * (m + 1)}
<1>1. 0 \in G
  BY Doubling
<1>2. ASSUME NEW m \in Nat, m \in G PROVE m + 1 \in G
  <2>1. PICK k \in 0 .. m : m + 1 <= TwoTo[k] /\ TwoTo[k] < 2 * (m + 1)
    BY <1>2
  <2>2. k \in Nat /\ TwoTo[k] \in Nat /\ TwoTo[k + 1] = 2 * TwoTo[k] /\ k + 1 \in 0 .. m + 1 /\ k \in 0 .. m + 1
    BY <2>1, Doubling
  <2>3. CASE m + 2 <= TwoTo[k]
    BY <2>1, <2>2, <2>3
  <2>4. CASE TwoTo[k] = m + 1
    BY <2>2, <2>4
  <2> QED BY <2>1, <2>2, <2>3, <2>4
<1>3. \A m \in Nat : m \in G
  <2> HIDE DEF G
  <2> QED BY <1>1, <1>2, InductionOnNat
<1>4. n - 1 \in G
  BY <1>3
<1> QED BY <1>4

LEMMA PowersDivide ==
    ASSUME NEW m \in Nat, NEW j \in Nat
    PROVE  TwoTo[m + j] = TwoTo[j] * TwoTo[m]
<1> DEFINE G == {i \in Nat : TwoTo[m + i] = TwoTo[i] * TwoTo[m]}
<1>1. 0 \in G
  BY Doubling
<1>2. ASSUME NEW i \in Nat, i \in G PROVE i + 1 \in G
  <2>1. /\ TwoTo[m] \in Nat /\ TwoTo[i] \in Nat /\ TwoTo[m + i] = TwoTo[i] * TwoTo[m]
        /\ TwoTo[i + 1] = 2 * TwoTo[i] /\ TwoTo[(m + i) + 1] = 2 * TwoTo[m + i]
    BY <1>2, Doubling
  <2>2. m + (i + 1) = (m + i) + 1
    OBVIOUS
  <2>3. TwoTo[m + (i + 1)] = TwoTo[i + 1] * TwoTo[m]
    BY <2>1, <2>2
  <2> QED BY <2>3
<1>3. \A i \in Nat : i \in G
  <2> HIDE DEF G
  <2> QED BY <1>1, <1>2, InductionOnNat
<1> QED BY <1>3

LEMMA PowersGrow ==
    ASSUME NEW m \in Nat, NEW k \in Nat, TwoTo[m] < TwoTo[k]
    PROVE  m <= k
<1> SUFFICES ASSUME k < m PROVE FALSE
  OBVIOUS
<1>1. k + (m - k) = m /\ m - k \in Nat
  OBVIOUS
<1>2. TwoTo[m] = TwoTo[m - k] * TwoTo[k]
  BY <1>1, PowersDivide
<1>3. TwoTo[m - k] \in Nat \ {0} /\ TwoTo[k] \in Nat \ {0}
  BY <1>1, Doubling
<1>4. TwoTo[k] <= TwoTo[m - k] * TwoTo[k]
  BY <1>3
<1>5. TwoTo[m] \in Nat
  BY Doubling
<1> QED BY <1>2, <1>3, <1>4, <1>5

-----------------------------------------------------------------------------
(* Buckets and chunk sizes. *)

LEMMA Geometry ==
    /\ BlockSize \in Nat \ {0} /\ PhysicalBlocks \in Nat \ {0} /\ MaxLength \in Nat \ {0}
    /\ MaxBatch \in Nat \ {0} /\ SmallBucket \in Nat \ {0} /\ MediumBucket \in Nat \ {0}
    /\ MinChunk \in Nat \ {0} /\ MaxChunk \in Nat \ {0} /\ Alignment \in Nat \ {0}
    /\ BatchSizes \subseteq Nat \ {0} /\ MinChunk % BlockSize = 0
    /\ SmallBucket <= MediumBucket /\ MediumBucket <= MaxChunk /\ MaxChunk % MinChunk = 0
BY GeometryAssumption, BucketAssumption DEF Lengths

LEMMA PaddedCovers ==
    ASSUME NEW n \in Nat \ {0}
    PROVE  /\ PaddedLength(n) \in Nat \ {0} /\ n <= PaddedLength(n)
           /\ PaddedLength(n) > MaxChunk => \E k \in Nat : PaddedLength(n) = TwoTo[k]
<1> DEFINE k == CHOOSE i \in 0 .. n : n <= TwoTo[i] /\ TwoTo[i] < 2 * n
<1>1. k \in 0 .. n /\ n <= TwoTo[k] /\ TwoTo[k] < 2 * n
  BY PowerAbove
<1>2. TwoTo[k] \in Nat \ {0}
  BY <1>1, Doubling
<1> HIDE DEF k
<1>3. CASE n <= SmallBucket
  BY <1>3, Geometry DEF PaddedLength
<1>4. CASE n > SmallBucket /\ n <= MediumBucket
  BY <1>4, Geometry DEF PaddedLength
<1>5. CASE n > SmallBucket /\ n > MediumBucket
  <2>1. PaddedLength(n) = TwoTo[k]
    BY <1>5, Geometry DEF PaddedLength, k
  <2> QED BY <1>1, <1>2, <2>1
<1> QED BY <1>3, <1>4, <1>5, Geometry

LEMMA ChunkSizesExist ==
    ASSUME NEW n \in Nat \ {0}
    PROVE  ChunkSizes(PaddedLength(n)) # {}
<1> DEFINE p == PaddedLength(n)
<1>1. p \in Nat \ {0}
  BY PaddedCovers
<1>2. CASE p <= MaxChunk
  BY <1>2 DEF ChunkSizes
<1>3. CASE p > MaxChunk
  <2>1. PICK m \in Nat : MinChunk = TwoTo[m]
    BY BucketAssumption, Geometry
  <2>2. PICK k \in Nat : p = TwoTo[k]
    BY <1>3, PaddedCovers
  <2>3. MinChunk <= MaxChunk
    <3> SUFFICES ASSUME MaxChunk < MinChunk PROVE FALSE
      BY Geometry
    <3>1. MaxChunk % MinChunk = MaxChunk
      BY Geometry
    <3> QED BY <3>1, Geometry
  <2>4. m <= k
    <3>1. TwoTo[m] < TwoTo[k]
      BY <1>1, <1>3, <2>1, <2>2, <2>3, Geometry
    <3> QED BY <3>1, PowersGrow
  <2>5. p = TwoTo[k - m] * MinChunk /\ TwoTo[k - m] \in Nat
    <3>1. m + (k - m) = k /\ k - m \in Nat
      BY <2>4
    <3>2. TwoTo[m + (k - m)] = TwoTo[k - m] * TwoTo[m]
      BY <3>1, PowersDivide
    <3> QED BY <2>1, <2>2, <3>1, <3>2, Doubling
  <2>6. p % MinChunk = 0 /\ MinChunk % MinChunk = 0
    <3>1. \A a \in Nat, b \in Nat \ {0} : (a * b) % b = 0
      OBVIOUS
    <3>2. MinChunk % MinChunk = 0
      BY Geometry
    <3> HIDE DEF p
    <3> QED BY <2>5, <3>1, <3>2, Geometry
  <2>7. MinChunk \in ChunkSizes(p)
    <3> HIDE DEF p
    <3> QED BY <1>1, <1>3, <2>3, <2>6, Geometry DEF ChunkSizes
  <2> QED BY <2>7
<1> QED BY <1>1, <1>2, <1>3, Geometry

LEMMA ChunkSizeFacts ==
    ASSUME NEW p \in Nat \ {0}, ChunkSizes(p) # {}
    PROVE  /\ ChunkSize(p) \in Nat \ {0} /\ ChunkSize(p) <= MaxChunk
           /\ p <= MaxChunk => ChunkSize(p) = p
           /\ p > MaxChunk => ChunkSize(p) % BlockSize = 0
<1>1. ChunkSizes(p) \in SUBSET (0 .. MaxChunk)
  BY Geometry DEF ChunkSizes
<1>2. \E x \in ChunkSizes(p) : \A y \in ChunkSizes(p) : y <= x
  BY <1>1, Geometry, Maximum
<1>3. ChunkSize(p) \in ChunkSizes(p)
  BY <1>1, <1>2 DEF ChunkSize, Max
<1>4. CASE p <= MaxChunk
  BY <1>3, <1>4, Geometry DEF ChunkSizes
<1>5. CASE p > MaxChunk
  <2>1. /\ ChunkSize(p) \in MinChunk .. MaxChunk /\ ChunkSize(p) % MinChunk = 0
    BY <1>3, <1>5, Geometry DEF ChunkSizes
  <2>2. ChunkSize(p) % BlockSize = 0
    <3>1. \A x \in Nat, a \in Nat \ {0}, b \in Nat \ {0} : x % a = 0 /\ a % b = 0 => x % b = 0
      <4> SUFFICES ASSUME NEW x \in Nat, NEW a \in Nat \ {0}, NEW b \in Nat \ {0}, x % a = 0, a % b = 0
                   PROVE  x % b = 0
        OBVIOUS
      <4>1. x = (x \div a) * a /\ a = (a \div b) * b /\ x \div a \in Nat /\ a \div b \in Nat
        OBVIOUS
      <4>2. x = ((x \div a) * (a \div b)) * b
        BY <4>1
      <4>3. \A c \in Nat : (c * b) % b = 0
        OBVIOUS
      <4>4. (x \div a) * (a \div b) \in Nat
        BY <4>1
      <4> QED BY <4>2, <4>3, <4>4
    <3> QED BY <2>1, <3>1, Geometry
  <2> QED BY <1>5, <2>1, <2>2, Geometry
<1> QED BY <1>4, <1>5, Geometry

-----------------------------------------------------------------------------
(* Sets as sequences: the n-th element is the one with n elements up to it. *)

LEMMA Enumeration ==
    ASSUME NEW S, IsFiniteSet(S), NEW B \in [S -> SUBSET S],
           \A x \in S : x \in B[x],
           \A x, y \in S : x # y => \/ B[x] \subseteq B[y] /\ y \notin B[x]
                                    \/ B[y] \subseteq B[x] /\ x \notin B[y]
    PROVE  /\ Cardinality(S) \in Nat
           /\ \A x \in S : Cardinality(B[x]) \in 1 .. Cardinality(S)
           /\ \A x, y \in S : B[x] \subseteq B[y] /\ y \notin B[x] => Cardinality(B[x]) < Cardinality(B[y])
           /\ \A x, y \in S : Cardinality(B[x]) = Cardinality(B[y]) => x = y
           /\ \A n \in 1 .. Cardinality(S) : \E x \in S : Cardinality(B[x]) = n
<1>1. Cardinality(S) \in Nat /\ \A x \in S : IsFiniteSet(B[x]) /\ B[x] # {}
  BY FS_CardinalityType, FS_Subset
<1>2. ASSUME NEW x \in S PROVE Cardinality(B[x]) \in 1 .. Cardinality(S)
  <2>1. Cardinality(B[x]) \in Nat /\ Cardinality(B[x]) # 0 /\ Cardinality(B[x]) <= Cardinality(S)
    BY <1>1, FS_CardinalityType, FS_Subset, FS_EmptySet
  <2> QED BY <1>1, <2>1
<1>3. ASSUME NEW x \in S, NEW y \in S, B[x] \subseteq B[y], y \notin B[x]
      PROVE  Cardinality(B[x]) < Cardinality(B[y])
  <2>1. Cardinality(B[x]) <= Cardinality(B[y]) /\ Cardinality(B[x]) # Cardinality(B[y])
    BY <1>1, <1>3, FS_Subset
  <2> QED BY <1>2, <2>1
<1>4. ASSUME NEW x \in S, NEW y \in S, Cardinality(B[x]) = Cardinality(B[y]) PROVE x = y
  <2> SUFFICES ASSUME x # y PROVE FALSE
    OBVIOUS
  <2>1. Cardinality(B[x]) < Cardinality(B[y]) \/ Cardinality(B[y]) < Cardinality(B[x])
    BY <1>3
  <2>2. Cardinality(B[x]) \in Int /\ Cardinality(B[y]) \in Int
    BY <1>1, <1>2
  <2> QED BY <1>4, <2>1, <2>2
<1>5. ASSUME NEW n \in 1 .. Cardinality(S) PROVE \E x \in S : Cardinality(B[x]) = n
  <2> SUFFICES ASSUME \A x \in S : Cardinality(B[x]) # n PROVE FALSE
    OBVIOUS
  <2> DEFINE T == (1 .. Cardinality(S)) \ {n}
             f == [x \in S |-> Cardinality(B[x])]
  <2>1. f \in [S -> T]
    BY <1>2
  <2>2. IsFiniteSet(T) /\ Cardinality(T) < Cardinality(S)
    <3>1. IsFiniteSet(1 .. Cardinality(S)) /\ Cardinality(1 .. Cardinality(S)) = Cardinality(S)
      BY <1>1, FS_Interval
    <3>2. IsFiniteSet(T) /\ Cardinality(T) = Cardinality(S) - 1
      BY <3>1, FS_RemoveElement
    <3> QED BY <1>1, <3>2
  <2>3. PICK x, y \in S : x # y /\ f[x] = f[y]
    <3> HIDE DEF T, f
    <3> QED BY <2>1, <2>2, FS_PigeonHole
  <2> QED BY <1>4, <2>3
<1> QED BY <1>1, <1>2, <1>3, <1>4, <1>5

LEMMA InOrderFacts ==
    ASSUME NEW S \in SUBSET Int, IsFiniteSet(S)
    PROVE  /\ Cardinality(S) \in Nat /\ Len(InOrder(S)) = Cardinality(S) /\ InOrder(S) \in Seq(S)
           /\ \A n \in 1 .. Cardinality(S) : InOrder(S)[n] \in S
           /\ \A m, n \in 1 .. Cardinality(S) : InOrder(S)[m] = InOrder(S)[n] => m = n
           /\ \A m, n \in 1 .. Cardinality(S) : InOrder(S)[m] < InOrder(S)[n] => m < n
           /\ \A r \in S : \E n \in 1 .. Cardinality(S) : InOrder(S)[n] = r
<1> DEFINE B == [r \in S |-> {q \in S : q <= r}]
<1>1. B \in [S -> SUBSET S] /\ \A r \in S : r \in B[r] /\ Rank(S, r) = Cardinality(B[r])
  BY DEF Rank
<1>2. ASSUME NEW q \in S, NEW r \in S, q < r PROVE B[q] \subseteq B[r] /\ r \notin B[q]
  <2>1. q \in Int /\ r \in Int /\ B[q] = {x \in S : x <= q} /\ B[r] = {x \in S : x <= r}
    OBVIOUS
  <2>2. \A x \in S : x <= q => x <= r
    BY <1>2, <2>1
  <2>3. ~(r <= q)
    BY <1>2, <2>1
  <2> HIDE DEF B
  <2> QED BY <2>1, <2>2, <2>3
<1>3. \A q, r \in S : q # r => q < r \/ r < q
  OBVIOUS
<1> HIDE DEF B
<1>4. /\ Cardinality(S) \in Nat
      /\ \A r \in S : Cardinality(B[r]) \in 1 .. Cardinality(S)
      /\ \A q, r \in S : B[q] \subseteq B[r] /\ r \notin B[q] => Cardinality(B[q]) < Cardinality(B[r])
      /\ \A q, r \in S : Cardinality(B[q]) = Cardinality(B[r]) => q = r
      /\ \A n \in 1 .. Cardinality(S) : \E r \in S : Cardinality(B[r]) = n
  <2>1. \A q, r \in S : q # r => \/ B[q] \subseteq B[r] /\ r \notin B[q]
                                 \/ B[r] \subseteq B[q] /\ q \notin B[r]
    BY <1>2, <1>3
  <2>2. \A r \in S : r \in B[r]
    BY <1>1
  <2>3. B \in [S -> SUBSET S] /\ IsFiniteSet(S)
    BY <1>1
  <2>4. ASSUME NEW X, X = S
        PROVE  /\ Cardinality(X) \in Nat
               /\ \A r \in X : Cardinality(B[r]) \in 1 .. Cardinality(X)
               /\ \A q, r \in X : B[q] \subseteq B[r] /\ r \notin B[q] => Cardinality(B[q]) < Cardinality(B[r])
               /\ \A q, r \in X : Cardinality(B[q]) = Cardinality(B[r]) => q = r
               /\ \A n \in 1 .. Cardinality(X) : \E r \in X : Cardinality(B[r]) = n
    <3>1. B \in [X -> SUBSET X] /\ IsFiniteSet(X)
      BY <2>3, <2>4
    <3>2. \A r \in X : r \in B[r]
      BY <2>2, <2>4
    <3>3. \A q, r \in X : q # r => \/ B[q] \subseteq B[r] /\ r \notin B[q]
                                   \/ B[r] \subseteq B[q] /\ q \notin B[r]
      BY <2>1, <2>4
    <3> QED BY <3>1, <3>2, <3>3, Enumeration
  <2> QED BY <2>4
<1>5. ASSUME NEW n \in 1 .. Cardinality(S)
      PROVE  InOrder(S)[n] \in S /\ Rank(S, InOrder(S)[n]) = n
  <2>1. \E r \in S : Rank(S, r) = n
    BY <1>1, <1>4
  <2> QED BY <2>1 DEF InOrder
<1>6. Len(InOrder(S)) = Cardinality(S) /\ InOrder(S) \in Seq(S)
  <2>1. InOrder(S) = [n \in 1 .. Cardinality(S) |-> InOrder(S)[n]]
    BY DEF InOrder
  <2> QED BY <1>4, <1>5, <2>1
<1>7. ASSUME NEW m \in 1 .. Cardinality(S), NEW n \in 1 .. Cardinality(S), InOrder(S)[m] < InOrder(S)[n]
      PROVE  m < n
  <2> DEFINE q == InOrder(S)[m]
             r == InOrder(S)[n]
  <2>1. q \in S /\ r \in S /\ q < r /\ Cardinality(B[q]) = m /\ Cardinality(B[r]) = n
    BY <1>1, <1>5, <1>7
  <2> HIDE DEF q, r
  <2>2. B[q] \subseteq B[r] /\ r \notin B[q]
    BY <1>2, <2>1
  <2> QED BY <1>4, <2>1, <2>2
<1>8. ASSUME NEW r \in S PROVE \E n \in 1 .. Cardinality(S) : InOrder(S)[n] = r
  <2>1. Rank(S, r) \in 1 .. Cardinality(S)
    BY <1>1, <1>4
  <2>2. InOrder(S)[Rank(S, r)] \in S /\ Rank(S, InOrder(S)[Rank(S, r)]) = Rank(S, r)
    BY <1>5, <2>1
  <2>3. InOrder(S)[Rank(S, r)] = r
    BY <1>1, <1>4, <2>2
  <2> QED BY <2>1, <2>3
<1>9. \A m, n \in 1 .. Cardinality(S) : InOrder(S)[m] = InOrder(S)[n] => m = n
  BY <1>5
<1> QED BY <1>4, <1>5, <1>6, <1>7, <1>8, <1>9

\* L takes every place of the sequences of waves in some order, and each once.
Turns(L, waves) ==
    \E place \in [1 .. Len(L) -> Places(waves)] :
        /\ \A n \in 1 .. Len(L) : L[n] = waves[place[n][1]][place[n][2]]
        /\ \A m, n \in 1 .. Len(L) : place[m] = place[n] => m = n
        /\ \A p \in Places(waves) : \E n \in 1 .. Len(L) : place[n] = p

LEMMA InTurnFacts ==
    ASSUME NEW waves, Len(waves) \in Nat, NEW M \in Nat,
           \A b \in 1 .. Len(waves) : Len(waves[b]) \in 0 .. M
    PROVE  Len(InTurn(waves)) \in Nat /\ Turns(InTurn(waves), waves)
<1> DEFINE P == Places(waves)
           B == [p \in P |-> UpTo(P, p)]
<1>1. \A p \in P : /\ p = <<p[1], p[2]>> /\ p[1] \in 1 .. Len(waves) /\ p[2] \in 1 .. M
  BY DEF Places
<1>2. IsFiniteSet(P)
  <2>1. P \in SUBSET ((1 .. Len(waves)) \X (1 .. M))
    BY <1>1
  <2>2. IsFiniteSet((1 .. Len(waves)) \X (1 .. M))
    <3>1. IsFiniteSet(1 .. Len(waves)) /\ IsFiniteSet(1 .. M)
      BY FS_Interval
    <3> QED BY <3>1, FS_Product
  <2> QED BY <2>1, <2>2, FS_Subset
<1> HIDE DEF P
<1>3. B \in [P -> SUBSET P] /\ \A p \in P : p \in B[p]
  BY <1>1 DEF UpTo
<1>4. ASSUME NEW p \in P, NEW q \in P, p # q
      PROVE  (B[p] \subseteq B[q] /\ q \notin B[p]) \/ (B[q] \subseteq B[p] /\ p \notin B[q])
  <2>1. /\ p[1] \in Int /\ p[2] \in Int /\ q[1] \in Int /\ q[2] \in Int
        /\ p[1] # q[1] \/ p[2] # q[2]
        /\ \A x \in P : x[1] \in Int /\ x[2] \in Int
    BY <1>1, <1>4
  <2>2. CASE p[1] < q[1] \/ (p[1] = q[1] /\ p[2] < q[2])
    BY <2>1, <2>2 DEF UpTo
  <2>3. CASE q[1] < p[1] \/ (q[1] = p[1] /\ q[2] < p[2])
    BY <2>1, <2>3 DEF UpTo
  <2> QED BY <2>1, <2>2, <2>3
<1>5. /\ Cardinality(P) \in Nat
      /\ \A n \in 1 .. Cardinality(P) : \E p \in P : Cardinality(B[p]) = n
      /\ \A p \in P : Cardinality(B[p]) \in 1 .. Cardinality(P)
      /\ \A p, q \in P : Cardinality(B[p]) = Cardinality(B[q]) => p = q
  <2> HIDE DEF B
  <2> QED BY <1>2, <1>3, <1>4, Enumeration
<1> DEFINE nth(n) == CHOOSE p \in P : Cardinality(UpTo(P, p)) = n
           place == [n \in 1 .. Cardinality(P) |-> nth(n)]
<1>6. ASSUME NEW n \in 1 .. Cardinality(P) PROVE nth(n) \in P /\ Cardinality(UpTo(P, nth(n))) = n
  <2>1. \E p \in P : Cardinality(UpTo(P, p)) = n
    BY <1>5
  <2> QED BY <2>1
<1>7. InTurn(waves) = [n \in 1 .. Cardinality(P) |-> waves[place[n][1]][place[n][2]]]
  BY DEF InTurn, P
<1>8. Len(InTurn(waves)) = Cardinality(P) /\ DOMAIN InTurn(waves) = 1 .. Cardinality(P)
  <2> HIDE DEF place
  <2> QED BY <1>5, <1>7
<1>9. place \in [1 .. Cardinality(P) -> P]
  <2> HIDE DEF nth
  <2> QED BY <1>6
<1>10. \A m, n \in 1 .. Cardinality(P) : place[m] = place[n] => m = n
  <2> HIDE DEF nth
  <2> QED BY <1>6
<1>12. ASSUME NEW p \in P PROVE \E n \in 1 .. Cardinality(P) : place[n] = p
  <2>1. PICK n \in 1 .. Cardinality(P) : n = Cardinality(UpTo(P, p))
    BY <1>5
  <2>2. PICK q \in P : q = nth(n)
    BY <1>6
  <2>3. Cardinality(UpTo(P, q)) = n
    BY <1>6, <2>2
  <2> HIDE DEF nth
  <2>4. q = p
    BY <1>5, <2>1, <2>3
  <2> QED BY <2>2, <2>4
<1> HIDE DEF place
<1>11. \A n \in 1 .. Cardinality(P) : InTurn(waves)[n] = waves[place[n][1]][place[n][2]]
  BY <1>7
<1>13. PICK L : L = InTurn(waves)
  OBVIOUS
<1>14. PICK q : q = place
  OBVIOUS
<1>15. /\ q \in [1 .. Len(L) -> P]
       /\ \A n \in 1 .. Len(L) : L[n] = waves[q[n][1]][q[n][2]]
       /\ \A m, n \in 1 .. Len(L) : q[m] = q[n] => m = n
       /\ \A p \in P : \E n \in 1 .. Len(L) : q[n] = p
  BY <1>8, <1>9, <1>10, <1>11, <1>12, <1>13, <1>14
<1>16. P = Places(waves)
  BY DEF P
<1>17. Turns(L, waves)
  BY <1>15, <1>16 DEF Turns
<1> QED BY <1>5, <1>8, <1>13, <1>17

-----------------------------------------------------------------------------
(* Waves: every row of a call is in one request at most. *)

LEMMA LeastFacts ==
    ASSUME NEW a \in Nat, NEW b \in Nat
    PROVE  Least(a, b) \in {a, b} /\ Least(a, b) <= a /\ Least(a, b) <= b
BY DEF Least

Distinct(s) == \A i, j \in 1 .. Len(s) : s[i] = s[j] => i = j

\* L is a sequence of waves or of requests.
RowsApart(L) ==
    \A v, w \in 1 .. Len(L) : \A i \in 1 .. Len(L[v].rows), j \in 1 .. Len(L[w].rows) :
        L[v].rows[i] = L[w].rows[j] => v = w /\ i = j



WavesFrom(L, R, size) ==
    \A w \in 1 .. Len(L) : L[w].size = size /\ L[w].rows \in Seq(R) /\ Len(L[w].rows) \in 1 .. size

LEMMA WavesFacts ==
    ASSUME NEW R, NEW s \in Seq(R), Distinct(s), NEW size \in Nat \ {0}
    PROVE  /\ Len(Waves(s, size)) \in 0 .. Len(s)
           /\ WavesFrom(Waves(s, size), R, size) /\ RowsApart(Waves(s, size))
<1> DEFINE n == Len(s)
           k == CeilDiv(n, size)
           W == Waves(s, size)
           from(w) == (w - 1) * size
           upto(w) == Least(w * size, n)
<1>1. n \in Nat /\ k \in Nat /\ n <= k * size /\ k * size < n + size
  <2>1. Len(s) \in Nat
    OBVIOUS
  <2> QED BY <2>1, Ceiling
<1>2. k <= n
  <2>1. n <= n * size
    BY <1>1
  <2> QED BY <1>1, <2>1, CeilingLeast
<1>3. W = [w \in 1 .. k |-> [rows |-> SubSeq(s, from(w) + 1, upto(w)), size |-> size]]
  BY DEF Waves
<1> HIDE DEF n, k, W
<1>4. Len(W) = k
  BY <1>1, <1>3
<1>5. ASSUME NEW w \in 1 .. k
      PROVE  /\ from(w) \in Nat /\ upto(w) \in Nat /\ upto(w) <= n
             /\ upto(w) - from(w) \in 1 .. size /\ from(w) + size = w * size
  <2>1. w \in Nat /\ w - 1 \in Nat /\ k - 1 \in Nat /\ w - 1 <= k - 1
    BY <1>1
  <2>2. from(w) \in Nat /\ (w - 1) * size <= (k - 1) * size
    BY <2>1
  <2>3. (k - 1) * size = k * size - size /\ k * size \in Nat
    BY <1>1
  <2>4. w * size = (w - 1) * size + size /\ w * size \in Nat
    BY <2>1
  <2>5. from(w) < n
    BY <1>1, <2>2, <2>3
  <2>6. Least(w * size, n) \in {w * size, n} /\ Least(w * size, n) <= w * size /\ Least(w * size, n) <= n
    BY <1>1, <2>4, LeastFacts
  <2> QED BY <1>1, <2>2, <2>4, <2>5, <2>6
<1>6. ASSUME NEW w \in 1 .. k
      PROVE  /\ W[w].size = size /\ W[w].rows \in Seq(R) /\ Len(W[w].rows) = upto(w) - from(w)
             /\ \A i \in 1 .. upto(w) - from(w) : from(w) + i \in 1 .. n /\ W[w].rows[i] = s[from(w) + i]
  <2> DEFINE lo == from(w)
             hi == upto(w)
  <2>1. W[w].size = size /\ W[w].rows = SubSeq(s, lo + 1, hi)
    BY <1>3
  <2>2. lo \in Nat /\ hi \in Nat /\ hi <= n /\ hi - lo \in 1 .. size
    BY <1>5
  <2> HIDE DEF lo, hi
  <2>3. \A i \in 1 .. hi - lo : lo + i \in 1 .. n
    BY <1>1, <2>2
  <2>4. SubSeq(s, lo + 1, hi) = [i \in 1 .. hi - lo |-> s[lo + i]]
    BY <1>1, <2>2 DEF n
  <2>5. \A i \in 1 .. hi - lo : s[lo + i] \in R
    BY <2>3 DEF n
  <2>6. hi - lo \in Nat
    BY <2>2
  <2>7. /\ SubSeq(s, lo + 1, hi) \in Seq(R) /\ Len(SubSeq(s, lo + 1, hi)) = hi - lo
        /\ \A i \in 1 .. hi - lo : SubSeq(s, lo + 1, hi)[i] = s[lo + i]
    <3> DEFINE d == hi - lo
               t == [i \in 1 .. d |-> s[lo + i]]
    <3>1. d \in Nat /\ \A i \in 1 .. d : t[i] = s[lo + i] /\ t[i] \in R
      BY <2>5, <2>6
    <3>2. t \in [1 .. d -> R]
      BY <2>5
    <3>3. SubSeq(s, lo + 1, hi) = t
      BY <2>4
    <3> HIDE DEF d, t
    <3>4. t \in Seq(R) /\ Len(t) = d
      BY <3>1, <3>2
    <3> QED BY <3>1, <3>3, <3>4 DEF d
  <2> QED BY <2>1, <2>3, <2>7 DEF lo, hi
<1>7. ASSUME NEW v \in 1 .. k, NEW w \in 1 .. k, NEW i \in 1 .. upto(v) - from(v), NEW j \in 1 .. upto(w) - from(w),
             from(v) + i = from(w) + j, v < w
      PROVE  FALSE
  <2>1. from(v) \in Nat /\ from(w) \in Nat /\ i <= size /\ i \in Nat /\ j \in Nat \ {0} /\ from(v) + size = v * size
    BY SMTT(30), <1>5
  <2>2. v * size <= from(w) /\ v * size \in Nat
    BY <1>1, <1>7
  <2>3. from(v) + i = from(w) + j
    BY <1>7
  <2> HIDE DEF from, upto
  <2> QED BY <2>1, <2>2, <2>3
<1>8. ASSUME NEW v \in 1 .. k, NEW w \in 1 .. k,
             NEW i \in 1 .. upto(v) - from(v), NEW j \in 1 .. upto(w) - from(w), W[v].rows[i] = W[w].rows[j]
      PROVE  v = w /\ i = j
  <2>1. from(v) + i \in 1 .. n /\ from(w) + j \in 1 .. n /\ s[from(v) + i] = s[from(w) + j]
    BY <1>6, <1>8
  <2>2. from(v) + i = from(w) + j
    BY <2>1 DEF n, Distinct
  <2>3. ~(v < w) /\ ~(w < v)
    BY <1>7, <2>2
  <2>4. v = w
    BY <1>1, <2>3
  <2>5. from(v) \in Nat /\ i \in Int /\ j \in Int
    BY <1>5
  <2> QED BY <2>2, <2>4, <2>5
<1> HIDE DEF from, upto
<1>9. \A w \in 1 .. k : upto(w) - from(w) \in 1 .. size
  BY <1>5
<1>10. k \in 0 .. n
  BY <1>1, <1>2
<1>11. \A w \in 1 .. k : W[w].size = size /\ W[w].rows \in Seq(R) /\ Len(W[w].rows) \in 1 .. size
  BY <1>6, <1>9
<1>12. \A v, w \in 1 .. k : \A i \in 1 .. Len(W[v].rows), j \in 1 .. Len(W[w].rows) :
            W[v].rows[i] = W[w].rows[j] => v = w /\ i = j
  BY <1>6, <1>8
<1> QED BY <1>4, <1>10, <1>11, <1>12 DEF W, n, WavesFrom, RowsApart

LEMMA SubSequences == ASSUME NEW S, NEW R \in SUBSET S, NEW s \in Seq(R) PROVE s \in Seq(S)
<1>1. Len(s) \in Nat /\ s \in [1 .. Len(s) -> R]
  OBVIOUS
<1>2. s \in [1 .. Len(s) -> S]
  BY <1>1
<1> QED BY <1>1, <1>2

LegalPolicy(policy) ==
    policy.kind = "fixed" => \A b \in DOMAIN policy.waves : policy.waves[b] \in BatchSizes

LEMMA RowsOfBucketFacts ==
    ASSUME NEW rows, Len(rows) \in Nat, NEW bucket
    PROVE  /\ Working(rows) \in SUBSET Int /\ IsFiniteSet(Working(rows))
           /\ Cardinality(Working(rows)) \in 0 .. Len(rows)
           /\ RowsOfBucket(rows, bucket) \subseteq Working(rows)
           /\ RowsOfBucket(rows, bucket) \in SUBSET Int /\ IsFiniteSet(RowsOfBucket(rows, bucket))
           /\ Cardinality(RowsOfBucket(rows, bucket)) \in 0 .. Len(rows)
<1>1. IsFiniteSet(1 .. Len(rows)) /\ Cardinality(1 .. Len(rows)) = Len(rows)
  <2>1. Len(rows) \in Int /\ 0 <= Len(rows)
    OBVIOUS
  <2>2. Cardinality(1 .. Len(rows)) = IF 1 > Len(rows) THEN 0 ELSE Len(rows) - 1 + 1
    BY <2>1, FS_Interval
  <2>3. IsFiniteSet(1 .. Len(rows))
    BY <2>1, FS_Interval
  <2> QED BY <2>1, <2>2, <2>3
<1>2. Working(rows) \subseteq 1 .. Len(rows) /\ RowsOfBucket(rows, bucket) \subseteq Working(rows)
  BY DEF Working, RowsOfBucket
<1>3. ASSUME NEW S \in SUBSET (1 .. Len(rows))
      PROVE  IsFiniteSet(S) /\ Cardinality(S) \in 0 .. Len(rows) /\ S \in SUBSET Int
  <2>1. IsFiniteSet(S) /\ Cardinality(S) <= Len(rows) /\ Cardinality(S) \in Nat
    BY <1>1, FS_Subset, FS_CardinalityType
  <2> QED BY <2>1
<1> QED BY <1>2, <1>3

LEMMA FittingSize ==
    ASSUME NEW count \in Nat, NEW bucket, NEW largest, Fits(count, bucket, largest)
    PROVE  Min(WaveSizes(count)) \in BatchSizes /\ count \in 1 .. Min(WaveSizes(count))
<1>1. WaveSizes(count) \in SUBSET Nat /\ WaveSizes(count) # {} /\ count > 1
  BY Geometry DEF Fits, WaveSizes
<1>2. \E m \in WaveSizes(count) : \A x \in WaveSizes(count) : m <= x
  BY <1>1, Minimum
<1>3. Min(WaveSizes(count)) \in WaveSizes(count)
  BY <1>2 DEF Min
<1> QED BY <1>1, <1>3, Geometry DEF WaveSizes

\* A wave has rows of one bucket that start at position 0, once each, and no more than its size.
IsWave(rows, wave) ==
    /\ wave.size \in BatchSizes
    /\ wave.rows \in Seq(Working(rows)) /\ Len(wave.rows) \in 1 .. wave.size
    /\ Distinct(wave.rows)
    /\ \A i \in 1 .. Len(wave.rows) : /\ rows[wave.rows[i]].cached = 0
                                      /\ Bucket(rows[wave.rows[i]]) = Bucket(rows[wave.rows[1]])

WavesIn(rows, L, R) == \A w \in 1 .. Len(L) : IsWave(rows, L[w]) /\ L[w].rows \in Seq(R)

LEMMA WavesOfBucketFacts ==
    ASSUME NEW policy, LegalPolicy(policy), NEW rows, Len(rows) \in Nat, NEW bucket,
           NEW W, W = WavesOfBucket(policy, rows, bucket)
    PROVE  /\ Len(W) \in 0 .. Len(rows) + 1
           /\ WavesIn(rows, W, RowsOfBucket(rows, bucket)) /\ RowsApart(W)
<1> DEFINE R == RowsOfBucket(rows, bucket)
<1>1. /\ R \subseteq Working(rows) /\ R \in SUBSET Int /\ IsFiniteSet(R)
      /\ Cardinality(R) \in 0 .. Len(rows)
  BY RowsOfBucketFacts
<1>2. \A r \in R : Bucket(rows[r]) = bucket
  BY DEF RowsOfBucket
<1> HIDE DEF R
<1>3. ASSUME NEW wave, wave.size \in BatchSizes, wave.rows \in Seq(R), Len(wave.rows) \in 1 .. wave.size,
             Distinct(wave.rows),
             \A i \in 1 .. Len(wave.rows) : rows[wave.rows[i]].cached = 0
      PROVE  IsWave(rows, wave)
  <2>1. wave.rows \in Seq(Working(rows))
    BY <1>1, <1>3, SubSequences
  <2>2. Len(wave.rows) \in Nat /\ \A i \in 1 .. Len(wave.rows) : wave.rows[i] \in R
    BY <1>3
  <2>3. 1 \in 1 .. Len(wave.rows)
    BY <1>3, Geometry
  <2>4. \A i \in 1 .. Len(wave.rows) : Bucket(rows[wave.rows[i]]) = Bucket(rows[wave.rows[1]])
    BY <1>2, <2>2, <2>3
  <2> QED BY <1>3, <2>1, <2>4 DEF IsWave
<1>4. CASE FixedBucket(policy, bucket)
  <2> DEFINE S == {r \in R : rows[r].cached = 0}
             s == InOrder(S)
             size == policy.waves[bucket]
  <2>1. W = Waves(s, size)
    BY <1>4 DEF WavesOfBucket, R
  <2>2. size \in BatchSizes /\ size \in Nat \ {0}
    BY <1>4, Geometry DEF FixedBucket, LegalPolicy
  <2>3. S \subseteq R /\ S \in SUBSET Int /\ IsFiniteSet(S) /\ Cardinality(S) <= Cardinality(R)
    <3>1. S \subseteq R
      OBVIOUS
    <3> HIDE DEF S
    <3> QED BY <1>1, <3>1, FS_Subset
  <2>4. \A r \in S : rows[r].cached = 0
    OBVIOUS
  <2> HIDE DEF S
  <2>5. s \in Seq(S) /\ Len(s) \in Nat /\ Len(s) <= Len(rows) /\ Distinct(s)
    BY <1>1, <2>3, InOrderFacts DEF Distinct
  <2> HIDE DEF s, size
  <2>6. Len(W) \in 0 .. Len(s) /\ WavesFrom(W, S, size) /\ RowsApart(W)
    BY <2>1, <2>2, <2>5, WavesFacts
  <2>7. ASSUME NEW w \in 1 .. Len(W) PROVE IsWave(rows, W[w]) /\ W[w].rows \in Seq(R)
    <3>1. W[w].size = size /\ W[w].rows \in Seq(S) /\ Len(W[w].rows) \in 1 .. size
      BY <2>6 DEF WavesFrom
    <3>2. W[w].rows \in Seq(R)
      BY <2>3, <3>1, SubSequences
    <3>3. \A i \in 1 .. Len(W[w].rows) : rows[W[w].rows[i]].cached = 0
      BY <2>4, <3>1
    <3>4. Distinct(W[w].rows)
      BY <2>6 DEF RowsApart, Distinct
    <3> QED BY <1>3, <2>2, <3>1, <3>2, <3>3, <3>4
  <2>8. Len(W) \in 0 .. Len(rows) + 1
    BY <2>5, <2>6
  <2> QED BY <2>6, <2>7, <2>8 DEF R, WavesIn
<1>5. CASE ~FixedBucket(policy, bucket) /\ BatchesBucket(policy, rows, bucket)
  <2> DEFINE size == Min(WaveSizes(Cardinality(R)))
             s == InOrder(R)
  <2>1. W = <<[rows |-> s, size |-> size]>>
    BY <1>5 DEF WavesOfBucket, R
  <2>2. \A r \in R : rows[r].cached = 0
    BY <1>5 DEF BatchesBucket, AllUncached, R
  <2>3. \E largest : Fits(Cardinality(R), bucket, largest)
    BY <1>5 DEF BatchesBucket, R
  <2>4. size \in BatchSizes /\ Cardinality(R) \in 1 .. size
    BY <1>1, <2>3, FittingSize
  <2>5. s \in Seq(R) /\ Len(s) = Cardinality(R) /\ Distinct(s)
    BY <1>1, InOrderFacts DEF Distinct
  <2> HIDE DEF s, size
  <2>6. Len(W) = 1 /\ W[1].rows = s /\ W[1].size = size
    BY <2>1
  <2>7. IsWave(rows, W[1])
    <3>1. \A i \in 1 .. Len(s) : rows[s[i]].cached = 0
      BY <2>2, <2>5
    <3> QED BY <1>3, <2>4, <2>5, <2>6, <3>1
  <2>8. 1 \in 0 .. Len(rows) + 1 /\ \A w \in 1 .. 1 : w = 1
    OBVIOUS
  <2> QED BY <2>5, <2>6, <2>7, <2>8 DEF R, WavesIn, RowsApart, Distinct
<1>6. CASE ~FixedBucket(policy, bucket) /\ ~BatchesBucket(policy, rows, bucket)
  <2>1. W = <<>>
    BY <1>6 DEF WavesOfBucket
  <2>2. Len(W) = 0 /\ 0 \in 0 .. Len(rows) + 1
    BY <2>1
  <2> QED BY <2>2 DEF WavesIn, RowsApart
<1> QED BY <1>4, <1>5, <1>6

LEMMA BucketsFacts ==
    ASSUME NEW rows, Len(rows) \in Nat, NEW B, B = BucketsInOrder(rows)
    PROVE  Len(B) \in Nat /\ \A i, j \in 1 .. Len(B) : B[i] = B[j] => i = j
<1> DEFINE F == FirstOfBucket(rows)
           s == InOrder(F)
<1>1. F \in SUBSET Int /\ IsFiniteSet(F) /\ F \subseteq Working(rows)
  <2>1. F \subseteq Working(rows)
    BY DEF FirstOfBucket
  <2> QED BY <2>1, RowsOfBucketFacts, FS_Subset
<1>2. /\ Len(s) \in Nat /\ \A i \in 1 .. Len(s) : s[i] \in F
      /\ \A i, j \in 1 .. Len(s) : s[i] = s[j] => i = j
  BY <1>1, InOrderFacts
<1>3. B = [i \in 1 .. Len(s) |-> Bucket(rows[s[i]])]
  BY DEF BucketsInOrder
<1>4. \A q, r \in F : q < r => Bucket(rows[q]) # Bucket(rows[r])
  BY <1>1 DEF FirstOfBucket
<1> HIDE DEF F, s
<1>5. Len(B) = Len(s) /\ \A i \in 1 .. Len(s) : B[i] = Bucket(rows[s[i]])
  BY <1>2, <1>3
<1>6. ASSUME NEW i \in 1 .. Len(s), NEW j \in 1 .. Len(s), B[i] = B[j] PROVE i = j
  <2>1. s[i] \in F /\ s[j] \in F /\ s[i] \in Int /\ s[j] \in Int
    BY <1>1, <1>2
  <2>2. ~(s[i] < s[j]) /\ ~(s[j] < s[i])
    BY <1>4, <1>5, <1>6, <2>1
  <2>3. s[i] = s[j]
    BY <2>1, <2>2
  <2> QED BY <1>2, <2>3
<1> QED BY <1>2, <1>5, <1>6

LEMMA BatchedFacts ==
    ASSUME NEW policy, LegalPolicy(policy), NEW rows, Len(rows) \in Nat,
           NEW L, L = Batched(policy, rows)
    PROVE  /\ Len(L) \in Nat
           /\ \A w \in 1 .. Len(L) : IsWave(rows, L[w])
           /\ RowsApart(L)
<1> DEFINE B == BucketsInOrder(rows)
           W == WavesByBucket(policy, rows)
<1>1. Len(B) \in Nat /\ \A i, j \in 1 .. Len(B) : B[i] = B[j] => i = j
  BY BucketsFacts
<1>2. W = [b \in 1 .. Len(B) |-> WavesOfBucket(policy, rows, B[b])]
  BY DEF WavesByBucket
<1>3. L = InTurn(W)
  BY DEF Batched
<1> HIDE DEF B, W
<1>4. Len(W) = Len(B) /\ \A b \in 1 .. Len(B) : W[b] = WavesOfBucket(policy, rows, B[b])
  BY <1>1, <1>2
<1>5. ASSUME NEW b \in 1 .. Len(W)
      PROVE  /\ Len(W[b]) \in 0 .. Len(rows) + 1
             /\ WavesIn(rows, W[b], RowsOfBucket(rows, B[b])) /\ RowsApart(W[b])
  <2>1. W[b] = WavesOfBucket(policy, rows, B[b])
    BY <1>4, <1>5
  <2>2. LegalPolicy(policy) /\ Len(rows) \in Nat
    OBVIOUS
  <2> HIDE DEF WavesOfBucket
  <2> QED BY <2>1, <2>2, WavesOfBucketFacts
<1>6. Len(W) \in Nat /\ Len(rows) + 1 \in Nat /\ \A b \in 1 .. Len(W) : Len(W[b]) \in 0 .. Len(rows) + 1
  BY <1>1, <1>4, <1>5
<1>7. Len(L) \in Nat /\ Turns(L, W)
  BY <1>3, <1>6, InTurnFacts
<1>8. PICK place \in [1 .. Len(L) -> Places(W)] :
            /\ \A n \in 1 .. Len(L) : L[n] = W[place[n][1]][place[n][2]]
            /\ \A m, n \in 1 .. Len(L) : place[m] = place[n] => m = n
  BY <1>7 DEF Turns
<1>9. ASSUME NEW n \in 1 .. Len(L)
      PROVE  /\ place[n] = <<place[n][1], place[n][2]>>
             /\ place[n][1] \in 1 .. Len(W) /\ place[n][2] \in 1 .. Len(W[place[n][1]])
  <2>1. place[n] \in Places(W)
    BY <1>8
  <2> QED BY <2>1 DEF Places
<1>10. \A w \in 1 .. Len(L) : IsWave(rows, L[w])
  BY SMTT(30), <1>5, <1>8, <1>9 DEF WavesIn
<1>11. ASSUME NEW v \in 1 .. Len(L), NEW w \in 1 .. Len(L),
              NEW i \in 1 .. Len(L[v].rows), NEW j \in 1 .. Len(L[w].rows), L[v].rows[i] = L[w].rows[j]
       PROVE  v = w /\ i = j
  <2> DEFINE b == place[v][1]
             c == place[w][1]
             x == place[v][2]
             y == place[w][2]
             r == L[v].rows[i]
  <2>1. /\ b \in 1 .. Len(W) /\ x \in 1 .. Len(W[b]) /\ L[v] = W[b][x]
        /\ c \in 1 .. Len(W) /\ y \in 1 .. Len(W[c]) /\ L[w] = W[c][y]
        /\ place[v] = <<b, x>> /\ place[w] = <<c, y>>
    BY <1>8, <1>9
  <2> HIDE DEF b, c, x, y
  <2>2. r \in RowsOfBucket(rows, B[b]) /\ r \in RowsOfBucket(rows, B[c])
    <3>1. L[v].rows \in Seq(RowsOfBucket(rows, B[b])) /\ L[w].rows \in Seq(RowsOfBucket(rows, B[c]))
      BY <1>5, <2>1 DEF WavesIn
    <3>2. L[v].rows[i] \in RowsOfBucket(rows, B[b]) /\ L[w].rows[j] \in RowsOfBucket(rows, B[c])
      BY <3>1
    <3> QED BY <1>11, <3>2
  <2>3. B[b] = B[c]
    BY <2>2 DEF RowsOfBucket
  <2>4. b = c
    BY <1>1, <1>4, <2>1, <2>3
  <2>5. x = y /\ i = j
    <3>1. PICK V : V = W[b]
      OBVIOUS
    <3>2. /\ i \in 1 .. Len(V[x].rows) /\ j \in 1 .. Len(V[y].rows) /\ V[x].rows[i] = V[y].rows[j]
          /\ x \in 1 .. Len(V) /\ y \in 1 .. Len(V)
      BY <1>11, <2>1, <2>4, <3>1
    <3>3. RowsApart(V)
      BY <1>5, <2>1, <3>1
    <3>4. \A k \in 1 .. Len(V[x].rows), m \in 1 .. Len(V[y].rows) :
            V[x].rows[k] = V[y].rows[m] => x = y /\ k = m
      BY <3>2, <3>3 DEF RowsApart
    <3> QED BY <3>2, <3>4
  <2>6. place[v] = place[w]
    BY <2>1, <2>4, <2>5
  <2>7. \A m, n \in 1 .. Len(L) : place[m] = place[n] => m = n
    BY <1>8
  <2>8. v = w
    BY <2>6, <2>7
  <2> QED BY <2>5, <2>8
<1> QED BY <1>7, <1>10, <1>11 DEF RowsApart

IsRequest(rows, request) ==
    \/ \E size \in BatchSizes :
        /\ IsWave(rows, [rows |-> request.rows, size |-> size])
        /\ request = BatchedRequest(rows, [rows |-> request.rows, size |-> size])
    \/ \E r \in Working(rows) : request = SingleRequest(rows, r)

\* Every row that has something to compute is in one request, the rows before a single one earlier.
PlanShape(rows, plan) ==
    /\ Len(plan) \in Nat
    /\ \A i \in 1 .. Len(plan) : IsRequest(rows, plan[i])
    /\ RowsApart(plan)
    /\ \A r \in Working(rows) : \E i \in 1 .. Len(plan) : \E k \in 1 .. Len(plan[i].rows) : plan[i].rows[k] = r
    /\ \A j \in 1 .. Len(plan) : plan[j].kind # "batched" =>
            \A q \in Working(rows) : q < plan[j].rows[1] =>
                \E i \in 1 .. j - 1 : \E k \in 1 .. Len(plan[i].rows) : plan[i].rows[k] = q

LEMMA Concatenation ==
    ASSUME NEW X, NEW p \in Seq(X), NEW t \in Seq(X)
    PROVE  /\ Len(p \o t) = Len(p) + Len(t)
           /\ \A i \in 1 .. Len(p) : (p \o t)[i] = p[i]
           /\ \A i \in Len(p) + 1 .. Len(p) + Len(t) : (p \o t)[i] = t[i - Len(p)] /\ i - Len(p) \in 1 .. Len(t)
OBVIOUS

BatchedFill(rows, wave) ==
    [i \in 1 .. wave.size |-> IF i <= Len(wave.rows) THEN PageTable(rows[wave.rows[i]], Skip) ELSE NoRow]

LEMMA BatchedFields ==
    ASSUME NEW rows, NEW wave, NEW request, request = BatchedRequest(rows, wave)
    PROVE  /\ request.rows = wave.rows /\ request.kind = "batched" /\ request.padded = wave.size
           /\ Len(request.chunks) = 1 /\ request.chunks[1].start = 0
           /\ request.chunks[1].size = Bucket(rows[wave.rows[1]])
           /\ request.chunks[1].fill = BatchedFill(rows, wave)
<1> DEFINE fill == BatchedFill(rows, wave)
           chunk == [start |-> 0, size |-> Bucket(rows[wave.rows[1]]), fill |-> fill]
<1>1. request = [kind |-> "batched", rows |-> wave.rows, padded |-> wave.size, context |-> <<>>,
                 chunks |-> <<chunk>>]
  BY DEF BatchedRequest, BatchedFill
<1>2. chunk.start = 0 /\ chunk.size = Bucket(rows[wave.rows[1]]) /\ chunk.fill = fill
  OBVIOUS
<1> HIDE DEF chunk, fill
<1>3. request.chunks = <<chunk>> /\ request.rows = wave.rows /\ request.kind = "batched" /\ request.padded = wave.size
  BY <1>1
<1>4. Len(request.chunks) = 1 /\ request.chunks[1] = chunk
  BY <1>3
<1> QED BY <1>2, <1>3, <1>4 DEF fill

LEMMA SingleFields ==
    ASSUME NEW rows, NEW r, NEW request, request = SingleRequest(rows, r)
    PROVE  /\ request.rows = <<r>> /\ Len(request.rows) = 1 /\ request.rows[1] = r
           /\ request.kind = (IF UsesChunks(rows[r]) THEN "chunked" ELSE "single") /\ request.padded = 1
           /\ UsesChunks(rows[r]) => /\ request.chunks = ChunksOf(rows[r])
                                     /\ request.context = PageTable(rows[r], 0)
           /\ ~UsesChunks(rows[r]) => /\ Len(request.chunks) = 1 /\ request.chunks[1].start = 0
                                      /\ request.chunks[1].size = Bucket(rows[r])
                                      /\ request.chunks[1].fill = <<PageTable(rows[r], Skip)>>
<1> DEFINE chunk == [start |-> 0, size |-> Bucket(rows[r]), fill |-> <<PageTable(rows[r], Skip)>>]
<1>1. /\ request.rows = <<r>> /\ request.padded = 1
      /\ request.kind = (IF UsesChunks(rows[r]) THEN "chunked" ELSE "single")
      /\ UsesChunks(rows[r]) => request.chunks = ChunksOf(rows[r]) /\ request.context = PageTable(rows[r], 0)
      /\ ~UsesChunks(rows[r]) => request.chunks = <<chunk>>
  BY DEF SingleRequest
<1>2. chunk.start = 0 /\ chunk.size = Bucket(rows[r]) /\ chunk.fill = <<PageTable(rows[r], Skip)>>
  OBVIOUS
<1> HIDE DEF chunk
<1>3. ~UsesChunks(rows[r]) => Len(request.chunks) = 1 /\ request.chunks[1] = chunk
  BY <1>1
<1>4. Len(request.rows) = 1 /\ request.rows[1] = r
  BY <1>1
<1> QED BY <1>1, <1>2, <1>3, <1>4

LEMMA PlannedFacts ==
    ASSUME NEW policy, LegalPolicy(policy), NEW rows, Len(rows) \in Nat,
           NEW plan, plan = Planned(policy, rows)
    PROVE  PlanShape(rows, plan)
<1> DEFINE L == Batched(policy, rows)
           left == Working(rows) \ InWave(L)
           s == InOrder(left)
           n == Len(L)
           m == Len(s)
<1>0. /\ n \in Nat
      /\ \A w \in 1 .. n : IsWave(rows, L[w])
      /\ RowsApart(L)
  <2>1. LegalPolicy(policy) /\ Len(rows) \in Nat
    OBVIOUS
  <2> QED BY <2>1, BatchedFacts
<1>1. /\ n \in Nat
      /\ \A w \in 1 .. n : IsWave(rows, L[w])
      /\ \A v, w \in 1 .. n : \A i \in 1 .. Len(L[v].rows), j \in 1 .. Len(L[w].rows) :
            L[v].rows[i] = L[w].rows[j] => v = w /\ i = j
  BY <1>0 DEF RowsApart
<1>2. left \in SUBSET Int /\ IsFiniteSet(left) /\ Working(rows) \in SUBSET Int
  <2>1. left \subseteq Working(rows)
    OBVIOUS
  <2> HIDE DEF left
  <2> QED BY <2>1, RowsOfBucketFacts, FS_Subset
<1>3. plan = [w \in 1 .. n |-> BatchedRequest(rows, L[w])] \o [i \in 1 .. m |-> SingleRequest(rows, s[i])]
  BY DEF Planned, Sequential
<1>4. \A r \in Working(rows) : r \in left \/ \E w \in 1 .. n : \E k \in 1 .. Len(L[w].rows) : L[w].rows[k] = r
  <2> SUFFICES ASSUME NEW r \in Working(rows), r \in InWave(L)
               PROVE  \E w \in 1 .. n : \E k \in 1 .. Len(L[w].rows) : L[w].rows[k] = r
    OBVIOUS
  <2>1. PICK w \in 1 .. n : r \in ToSet(L[w].rows)
    BY DEF InWave
  <2> QED BY <2>1 DEF ToSet
<1>5. \A w \in 1 .. n : \A k \in 1 .. Len(L[w].rows) : L[w].rows[k] \notin left
  <2> SUFFICES ASSUME NEW w \in 1 .. n, NEW k \in 1 .. Len(L[w].rows) PROVE L[w].rows[k] \notin left
    OBVIOUS
  <2>1. L[w].rows \in Seq(Working(rows))
    BY <1>1 DEF IsWave
  <2>2. L[w].rows[k] \in ToSet(L[w].rows)
    BY <2>1 DEF ToSet
  <2> QED BY <2>2 DEF InWave
<1>6. left \subseteq Working(rows)
  OBVIOUS
<1> HIDE DEF L, left
<1>7. /\ m \in Nat /\ \A i \in 1 .. m : s[i] \in left
      /\ \A i, j \in 1 .. m : s[i] = s[j] => i = j
      /\ \A i, j \in 1 .. m : s[i] < s[j] => i < j
      /\ \A r \in left : \E i \in 1 .. m : s[i] = r
  BY <1>2, InOrderFacts
<1> HIDE DEF s, n, m
<1>8. /\ Len(plan) = n + m
      /\ \A i \in 1 .. n : plan[i] = BatchedRequest(rows, L[i])
      /\ \A i \in n + 1 .. n + m : plan[i] = SingleRequest(rows, s[i - n])
  <2> DEFINE p == [w \in 1 .. n |-> BatchedRequest(rows, L[w])]
             t == [i \in 1 .. m |-> SingleRequest(rows, s[i])]
  <2>1. /\ Len(p) = n /\ \A i \in 1 .. n : p[i] = BatchedRequest(rows, L[i])
        /\ Len(t) = m /\ \A i \in 1 .. m : t[i] = SingleRequest(rows, s[i])
    BY <1>1, <1>7
  <2>2. p \in Seq({p[i] : i \in 1 .. n} \cup {t[i] : i \in 1 .. m}) /\ t \in Seq({p[i] : i \in 1 .. n} \cup {t[i] : i \in 1 .. m})
    BY SMTT(30), <1>1, <1>7
  <2>3. plan = p \o t
    BY <1>3
  <2> HIDE DEF p, t
  <2>c. /\ Len(p \o t) = Len(p) + Len(t)
        /\ \A i \in 1 .. Len(p) : (p \o t)[i] = p[i]
        /\ \A i \in Len(p) + 1 .. Len(p) + Len(t) : (p \o t)[i] = t[i - Len(p)] /\ i - Len(p) \in 1 .. Len(t)
    BY <2>2, Concatenation
  <2>4. Len(plan) = n + m
    BY <2>1, <2>c, <2>3
  <2>5. \A i \in 1 .. n : plan[i] = p[i]
    BY <2>1, <2>c, <2>3
  <2>6. \A i \in n + 1 .. n + m : plan[i] = t[i - n] /\ i - n \in 1 .. m
    BY <2>1, <2>c, <2>3
  <2> QED BY <2>1, <2>4, <2>5, <2>6
<1>9. \A i \in 1 .. n : plan[i].rows = L[i].rows /\ plan[i].kind = "batched"
  <2> SUFFICES ASSUME NEW i \in 1 .. n PROVE plan[i].rows = L[i].rows /\ plan[i].kind = "batched"
    OBVIOUS
  <2>1. plan[i] = BatchedRequest(rows, L[i])
    BY <1>8
  <2> QED BY <2>1, BatchedFields
<1>10. \A i \in n + 1 .. n + m : /\ i - n \in 1 .. m /\ plan[i].rows = <<s[i - n]>>
                                 /\ Len(plan[i].rows) = 1 /\ plan[i].rows[1] = s[i - n]
  <2> SUFFICES ASSUME NEW i \in n + 1 .. n + m
               PROVE  /\ i - n \in 1 .. m /\ plan[i].rows = <<s[i - n]>>
                      /\ Len(plan[i].rows) = 1 /\ plan[i].rows[1] = s[i - n]
    OBVIOUS
  <2>1. i - n \in 1 .. m
    BY <1>1, <1>7
  <2> QED BY <1>8, <2>1, SingleFields
<1>11. \A i \in 1 .. Len(plan) : i \in 1 .. n \/ i \in n + 1 .. n + m
  BY <1>1, <1>7, <1>8
<1>12. ASSUME NEW i \in 1 .. Len(plan) PROVE IsRequest(rows, plan[i])
  <2>1. CASE i \in 1 .. n
    <3> DEFINE wave == [rows |-> plan[i].rows, size |-> L[i].size]
    <3>1. wave.rows = L[i].rows /\ wave.size = L[i].size
      BY <1>9, <2>1
    <3> HIDE DEF wave
    <3>2. IsWave(rows, wave) /\ L[i].size \in BatchSizes
      BY <1>1, <2>1, <3>1 DEF IsWave
    <3>3. plan[i] = BatchedRequest(rows, wave)
      BY <1>8, <2>1, <3>1 DEF BatchedRequest
    <3> QED BY <3>2, <3>3 DEF IsRequest, wave
  <2>2. CASE i \in n + 1 .. n + m
    BY <1>6, <1>7, <1>8, <1>10, <2>2 DEF IsRequest
  <2> QED BY <1>11, <2>1, <2>2
<1>13. ASSUME NEW i \in 1 .. Len(plan), NEW j \in 1 .. Len(plan),
              NEW k \in 1 .. Len(plan[i].rows), NEW l \in 1 .. Len(plan[j].rows),
              plan[i].rows[k] = plan[j].rows[l]
       PROVE  i = j /\ k = l
  <2>1. CASE i \in 1 .. n /\ j \in 1 .. n
    BY SMTT(30), <1>1, <1>9, <1>13, <2>1
  <2>2. CASE i \in n + 1 .. n + m /\ j \in n + 1 .. n + m
    <3>1. s[i - n] = s[j - n] /\ k = 1 /\ l = 1
      BY SMTT(30), <1>10, <1>13, <2>2
    <3>2. i - n = j - n
      BY <1>7, <1>10, <2>2, <3>1
    <3> QED BY <1>1, <2>2, <3>1, <3>2
  <2>3. CASE i \in 1 .. n /\ j \in n + 1 .. n + m
    <3>1. plan[i].rows[k] = s[j - n] /\ s[j - n] \in left
      BY SMTT(30), <1>7, <1>10, <1>13, <2>3
    <3> QED BY <1>5, <1>9, <2>3, <3>1
  <2>4. CASE i \in n + 1 .. n + m /\ j \in 1 .. n
    <3>1. plan[j].rows[l] = s[i - n] /\ s[i - n] \in left
      BY SMTT(30), <1>7, <1>10, <1>13, <2>4
    <3> QED BY <1>5, <1>9, <2>4, <3>1
  <2> QED BY <1>11, <2>1, <2>2, <2>3, <2>4
<1>14. ASSUME NEW q \in Working(rows)
       PROVE  /\ \A j \in n + 1 .. n + m : q < s[j - n] =>
                    \E i \in 1 .. j - 1 : \E k \in 1 .. Len(plan[i].rows) : plan[i].rows[k] = q
              /\ \E i \in 1 .. Len(plan) : \E k \in 1 .. Len(plan[i].rows) : plan[i].rows[k] = q
  <2>1. CASE \E w \in 1 .. n : \E k \in 1 .. Len(L[w].rows) : L[w].rows[k] = q
    <3>1. PICK w \in 1 .. n : \E k \in 1 .. Len(plan[w].rows) : plan[w].rows[k] = q
      BY <1>9, <2>1
    <3>2. w \in 1 .. Len(plan) /\ \A j \in n + 1 .. n + m : w \in 1 .. j - 1
      BY <1>1, <1>7, <1>8
    <3> QED BY <3>1, <3>2
  <2>2. CASE q \in left
    <3>1. PICK i \in 1 .. m : s[i] = q
      BY <1>7, <2>2
    <3>2. n + i \in n + 1 .. n + m /\ n + i \in 1 .. Len(plan) /\ (n + i) - n = i
      BY <1>1, <1>7, <1>8
    <3>3. 1 \in 1 .. Len(plan[n + i].rows) /\ plan[n + i].rows[1] = q
      BY <1>10, <3>1, <3>2
    <3>4. \A j \in n + 1 .. n + m : q < s[j - n] => n + i \in 1 .. j - 1
      <4> SUFFICES ASSUME NEW j \in n + 1 .. n + m, q < s[j - n] PROVE n + i \in 1 .. j - 1
        OBVIOUS
      <4>1. i < j - n
        BY <1>7, <1>10, <3>1
      <4> QED BY <1>1, <1>7, <4>1
    <3> QED BY <3>2, <3>3, <3>4
  <2> QED BY <1>4, <2>1, <2>2
<1>15. \A j \in 1 .. Len(plan) : plan[j].kind # "batched" =>
            \A q \in Working(rows) : q < plan[j].rows[1] =>
                \E i \in 1 .. j - 1 : \E k \in 1 .. Len(plan[i].rows) : plan[i].rows[k] = q
  BY <1>9, <1>10, <1>11, <1>14
<1>16. Len(plan) \in Nat
  BY <1>1, <1>7, <1>8
<1> QED BY <1>12, <1>13, <1>14, <1>15, <1>16 DEF PlanShape, RowsApart

-----------------------------------------------------------------------------
(* The scheduler. *)

LEMMA BlocksOfLength ==
    ASSUME NEW n \in Nat
    PROVE  /\ NumBlocks(n) \in Nat
           /\ n <= NumBlocks(n) * BlockSize /\ NumBlocks(n) * BlockSize < n + BlockSize
           /\ n > 0 => NumBlocks(n) > 0
           /\ n % BlockSize = 0 => NumBlocks(n) = n \div BlockSize /\ NumBlocks(n) * BlockSize = n
<1>1. /\ NumBlocks(n) \in Nat
      /\ n <= NumBlocks(n) * BlockSize /\ NumBlocks(n) * BlockSize < n + BlockSize
      /\ n > 0 => NumBlocks(n) > 0
  BY Geometry, Ceiling DEF NumBlocks
<1>2. ASSUME n % BlockSize = 0
      PROVE  NumBlocks(n) = n \div BlockSize /\ NumBlocks(n) * BlockSize = n
  <2> DEFINE m == n \div BlockSize
  <2>1. m \in Nat /\ n = m * BlockSize
    BY <1>2, Geometry
  <2> HIDE DEF m
  <2>2. NumBlocks(n) <= m
    BY <2>1, Geometry, CeilingLeast DEF NumBlocks
  <2>3. m <= NumBlocks(n)
    <3> SUFFICES ASSUME NumBlocks(n) + 1 <= m PROVE FALSE
      BY <1>1, <2>1
    <3>1. (NumBlocks(n) + 1) * BlockSize <= m * BlockSize
      BY <1>1, <2>1, Geometry
    <3>2. (NumBlocks(n) + 1) * BlockSize = NumBlocks(n) * BlockSize + BlockSize
      BY <1>1, Geometry
    <3>3. NumBlocks(n) * BlockSize \in Nat /\ m * BlockSize \in Nat
      BY <1>1, <2>1, Geometry
    <3> QED BY <1>1, <2>1, <3>1, <3>2, <3>3, Geometry
  <2> QED BY <1>1, <2>1, <2>2, <2>3 DEF m
<1> QED BY <1>1, <1>2

LEMMA WidthFacts ==
    /\ RawWidth \in Nat \ {0} /\ RawWidth <= PhysicalBlocks /\ RawWidth <= NumBlocks(MaxLength)
    /\ PrefillWidth \in Nat /\ RawWidth + NumBlocks(MaxChunk - 1) <= PrefillWidth
<1>1. NumBlocks(MaxLength) \in Nat \ {0} /\ NumBlocks(MaxChunk - 1) \in Nat
  <2>1. MaxLength \in Nat /\ MaxLength > 0 /\ MaxChunk - 1 \in Nat
    BY Geometry
  <2> QED BY <2>1, BlocksOfLength
<1>2. RawWidth \in Nat \ {0} /\ RawWidth <= PhysicalBlocks /\ RawWidth <= NumBlocks(MaxLength)
  BY <1>1, Geometry, LeastFacts DEF RawWidth
<1>3. PrefillWidth \in Nat /\ RawWidth + NumBlocks(MaxChunk - 1) <= PrefillWidth
  <2> DEFINE w == RawWidth + NumBlocks(MaxChunk - 1)
  <2>1. w \in Nat /\ Alignment \in Nat \ {0}
    BY <1>1, <1>2, Geometry
  <2>2. PrefillWidth = CeilDiv(w, Alignment) * Alignment
    BY DEF PrefillWidth, PaddingBlocks, RoundUp
  <2> HIDE DEF w
  <2>3. CeilDiv(w, Alignment) \in Nat /\ w <= CeilDiv(w, Alignment) * Alignment
    BY <2>1, Ceiling
  <2>4. CeilDiv(w, Alignment) * Alignment \in Nat
    BY <2>1, <2>3
  <2> QED BY <2>2, <2>3, <2>4 DEF w
<1> QED BY <1>2, <1>3

BlocksIn(s) == 1 .. NumBlocks(LengthOf[running[s]])
Row == [slot : Slots, length : Nat, cached : Nat, table : [1 .. RawWidth -> Blocks]]
InCall(s) == \E r \in 1 .. Len(call.rows) : call.rows[r].slot = s

SchedulerTypes ==
    /\ config \in Configs
    /\ running \in [Slots -> Prompts \cup {None}]
    /\ tables \in [Slots -> [1 .. RawWidth -> Blocks]]

CallTypes ==
    /\ call.rows \in Seq(Row)
    /\ call = [rows |-> call.rows, plan |-> call.plan, mode |-> call.mode]
    /\ phase \in {"idle", "admitting", "submitted", "running", "closed"}
    /\ phase \in {"idle", "closed"} => call = NoCall
    /\ phase # "running" => at = <<1, 1>> /\ pending = <<>> /\ tokens = <<>>

TablesAreWide == \A s \in Busy : NumBlocks(LengthOf[running[s]]) <= RawWidth

\* Two prompts share a block only where they have the same tokens.
BlocksAreShared ==
    \A s, t \in Busy : \A i \in BlocksIn(s), j \in BlocksIn(t) :
        tables[s][i] = tables[t][j] => BlockOf(running[s], i) = BlockOf(running[t], j)

RowsAreAdmitted ==
    \A r \in 1 .. Len(call.rows) :
        LET row == call.rows[r] IN
        /\ row.slot \in Busy /\ row.length = LengthOf[running[row.slot]] /\ row.table = tables[row.slot]
        /\ row.cached \in {0, SharedLength} /\ row.cached < row.length
        /\ \A q \in 1 .. Len(call.rows) : call.rows[q].slot = row.slot => q = r

\* The prefix of a row is in the table of a request that is not in the call, or of an earlier row.
PrefixesAreHeld ==
    \A r \in 1 .. Len(call.rows) : call.rows[r].cached > 0 =>
        \E s \in Busy :
            /\ \A q \in 1 .. Len(call.rows) : call.rows[q].slot = s => q < r
            /\ \A i \in 1 .. NumBlocks(SharedLength) :
                /\ i \in BlocksIn(s) /\ tables[s][i] = call.rows[r].table[i]
                /\ BlockOf(running[s], i) = BlockOf(running[call.rows[r].slot], i)

AdmissionInv ==
    /\ SchedulerTypes /\ CallTypes
    /\ TablesAreWide /\ BlocksAreShared /\ RowsAreAdmitted /\ PrefixesAreHeld

LEMMA PromptFacts ==
    ASSUME NEW q \in Prompts
    PROVE  /\ q # None /\ LengthOf[q] \in Nat \ {0} /\ LengthOf[q] <= MaxLength
           /\ NumBlocks(LengthOf[q]) \in Nat /\ NumBlocks(LengthOf[q]) <= NumBlocks(MaxLength)
<1>1. LengthOf[q] \in Nat \ {0} /\ LengthOf[q] <= MaxLength /\ q # None
  BY PromptsAssumption, Geometry
<1> QED BY <1>1, Geometry, BlocksOfLength, CeilingGrows DEF NumBlocks

\* The blocks of the shared prefix are whole, and hold the tokens of the family.
LEMMA SharedFacts ==
    /\ SharedLength \in Nat /\ SharedLength % BlockSize = 0 /\ 0 % BlockSize = 0
    /\ NumBlocks(0) = 0 /\ NumBlocks(SharedLength) \in Nat
    /\ \A p, q \in Prompts : \A i \in 1 .. NumBlocks(SharedLength) :
            FamilyOf[p] = FamilyOf[q] => BlockOf(p, i) = BlockOf(q, i)
<1>1. SharedLength \in Nat /\ SharedLength % BlockSize = 0
  BY PromptsAssumption
<1>2. 0 % BlockSize = 0 /\ 0 \div BlockSize = 0
  BY Geometry
<1>3. NumBlocks(SharedLength) \in Nat /\ NumBlocks(SharedLength) * BlockSize = SharedLength
  BY <1>1, BlocksOfLength
<1>4. \A i \in 1 .. NumBlocks(SharedLength) : i * BlockSize <= NumBlocks(SharedLength) * BlockSize
  BY <1>3, Geometry
<1>5. \A i \in 1 .. NumBlocks(SharedLength) : i * BlockSize <= SharedLength
  BY <1>3, <1>4
<1>6. \A p, q \in Prompts : \A i \in 1 .. NumBlocks(SharedLength) :
            FamilyOf[p] = FamilyOf[q] => BlockOf(p, i) = BlockOf(q, i)
  BY <1>5 DEF BlockOf
<1>7. NumBlocks(0) = 0
  BY <1>2, BlocksOfLength
<1> QED BY <1>1, <1>2, <1>3, <1>6, <1>7

LEMMA BlockNumber == \A p, q : \A i, j : BlockOf(p, i) = BlockOf(q, j) => i = j
BY DEF BlockOf

LEMMA SlotFacts ==
    /\ \A s \in Slots : s \in Nat
    /\ SchedulerTypes => \A s \in Busy : s \in Slots /\ running[s] \in Prompts
    /\ Free # {} => LowestSlot \in Free /\ LowestSlot \in Slots
<1>1. \A s \in Slots : s \in Nat
  BY Geometry DEF Slots
<1>2. ASSUME Free # {} PROVE LowestSlot \in Free
  <2>1. Free \in SUBSET Nat
    BY <1>1 DEF Free
  <2>2. \E s \in Free : \A t \in Free : s <= t
    BY <1>2, <2>1, Minimum
  <2> QED BY <2>2 DEF LowestSlot
<1> QED BY <1>1, <1>2 DEF SchedulerTypes, Busy, Free

LEMMA CachedFacts ==
    ASSUME SchedulerTypes, NEW q \in Prompts
    PROVE  /\ CachedLength(q) \in {0, SharedLength} /\ CachedLength(q) < LengthOf[q]
           /\ CachedLength(q) \in Nat /\ CachedLength(q) % BlockSize = 0
           /\ CachedLength(q) > 0 => CachedLength(q) = SharedLength
           /\ NumBlocks(CachedLength(q)) \in Nat
           /\ NumBlocks(CachedLength(q)) <= NumBlocks(LengthOf[q])
           /\ \A i \in 1 .. NumBlocks(CachedLength(q)) :
                \A s \in {CHOOSE s \in Holders(q) : TRUE} :
                    s \in Busy /\ i \in BlocksIn(s) /\ BlockOf(running[s], i) = BlockOf(q, i)
<1>1. LengthOf[q] \in Nat \ {0} /\ SharedLength \in Nat
  BY PromptFacts, SharedFacts
<1>2. CASE Holders(q) = {}
  <2>1. CachedLength(q) = 0
    BY <1>2 DEF CachedLength
  <2>2. NumBlocks(CachedLength(q)) = 0
    BY <2>1, SharedFacts
  <2> QED BY <1>1, <2>1, <2>2, SharedFacts, PromptFacts
<1>3. CASE Holders(q) # {}
  <2> DEFINE s == CHOOSE s \in Holders(q) : TRUE
  <2>1. s \in Holders(q)
    BY <1>3
  <2> HIDE DEF s
  <2>2. /\ s \in Busy /\ FamilyOf[running[s]] = FamilyOf[q]
        /\ SharedLength \in 1 .. LengthOf[running[s]] /\ SharedLength < LengthOf[q]
    BY <2>1 DEF Holders
  <2>3. running[s] \in Prompts
    BY <2>2, SlotFacts
  <2>4. CachedLength(q) = SharedLength
    BY <1>3 DEF CachedLength
  <2>5. NumBlocks(SharedLength) <= NumBlocks(LengthOf[q])
    BY <1>1, <2>2, Geometry, CeilingGrows DEF NumBlocks
  <2>6. NumBlocks(SharedLength) <= NumBlocks(LengthOf[running[s]]) /\ NumBlocks(LengthOf[running[s]]) \in Nat
    <3>1. LengthOf[running[s]] \in Nat
      BY <2>3, PromptFacts
    <3> QED BY <1>1, <2>2, <2>3, <3>1, Geometry, CeilingGrows, PromptFacts DEF NumBlocks
  <2>7. \A i \in 1 .. NumBlocks(SharedLength) : i \in BlocksIn(s) /\ BlockOf(running[s], i) = BlockOf(q, i)
    BY <2>2, <2>3, <2>6, SharedFacts DEF BlocksIn
  <2> QED BY <1>1, <2>2, <2>4, <2>5, <2>7, SharedFacts DEF s
<1> QED BY <1>2, <1>3

LEMMA UsedFacts ==
    ASSUME SchedulerTypes, TablesAreWide
    PROVE  /\ IsFiniteSet(Blocks) /\ Cardinality(Blocks) = PhysicalBlocks
           /\ \A s \in Busy : /\ NumBlocks(LengthOf[running[s]]) \in Nat
                              /\ \A i \in BlocksIn(s) : i \in 1 .. RawWidth /\ tables[s][i] \in Used /\ tables[s][i] \in Blocks
           /\ IsFiniteSet(Unused) /\ Unused \in SUBSET Int /\ Unused \in SUBSET Blocks
<1>1. IsFiniteSet(Blocks) /\ Cardinality(Blocks) = PhysicalBlocks
  <2>1. PhysicalBlocks - 1 \in Int /\ 0 .. PhysicalBlocks - 1 = Blocks
    BY Geometry DEF Blocks
  <2>2. IsFiniteSet(0 .. PhysicalBlocks - 1)
    BY <2>1, FS_Interval
  <2>3. Cardinality(0 .. PhysicalBlocks - 1) = IF 0 > PhysicalBlocks - 1 THEN 0 ELSE PhysicalBlocks - 1 - 0 + 1
    BY <2>1, FS_Interval
  <2> QED BY <2>1, <2>2, <2>3, Geometry
<1>2. ASSUME NEW s \in Busy
      PROVE  /\ NumBlocks(LengthOf[running[s]]) \in Nat
             /\ \A i \in BlocksIn(s) : i \in 1 .. RawWidth /\ tables[s][i] \in Used /\ tables[s][i] \in Blocks
  <2>1. s \in Slots /\ running[s] \in Prompts
    BY <1>2, SlotFacts
  <2>2. NumBlocks(LengthOf[running[s]]) \in Nat /\ NumBlocks(LengthOf[running[s]]) <= RawWidth /\ RawWidth \in Nat
    BY <2>1, PromptFacts, WidthFacts DEF TablesAreWide
  <2>3. \A i \in BlocksIn(s) : i \in 1 .. RawWidth
    BY <2>2 DEF BlocksIn
  <2> QED BY <2>1, <2>2, <2>3 DEF Used, BlocksOf, BlocksIn, SchedulerTypes
<1>3. IsFiniteSet(Unused) /\ Unused \in SUBSET Int /\ Unused \in SUBSET Blocks
  <2>1. Unused \subseteq Blocks
    BY DEF Unused
  <2>2. IsFiniteSet(Unused)
    BY <1>1, <2>1, FS_Subset
  <2> QED BY <2>1, <2>2 DEF Blocks
<1> QED BY <1>1, <1>2, <1>3

\* What the table of an admitted request holds: blocks of the prefix, then unused ones.
LEMMA NewTableFacts ==
    ASSUME AdmissionInv, NEW q \in Prompts, NEW slot \in Slots,
           NumBlocks(LengthOf[q]) - NumBlocks(CachedLength(q)) <= Cardinality(Unused)
    PROVE  /\ NewTable(q, slot) \in [1 .. RawWidth -> Blocks]
           /\ NumBlocks(LengthOf[q]) <= RawWidth
           /\ \A i \in 1 .. NumBlocks(CachedLength(q)) :
                \A s \in {CHOOSE s \in Holders(q) : TRUE} : NewTable(q, slot)[i] = tables[s][i]
           /\ \A i \in 1 .. NumBlocks(LengthOf[q]) :
                i > NumBlocks(CachedLength(q)) => NewTable(q, slot)[i] \in Unused
           /\ \A i, j \in 1 .. NumBlocks(LengthOf[q]) : NewTable(q, slot)[i] = NewTable(q, slot)[j] => i = j
<1> DEFINE first == NumBlocks(CachedLength(q))
           n == NumBlocks(LengthOf[q])
           h == CHOOSE s \in Holders(q) : TRUE
           order == InOrder(Unused)
           f == [i \in 1 .. n |-> IF i <= first THEN tables[h][i] ELSE order[i - first]]
           T == NewTable(q, slot)
<1>0. SchedulerTypes /\ TablesAreWide /\ BlocksAreShared
  BY DEF AdmissionInv
<1>1. first \in Nat /\ n \in Nat /\ first <= n /\ n <= NumBlocks(MaxLength) /\ NumBlocks(MaxLength) \in Nat
  BY <1>0, CachedFacts, PromptFacts, Geometry, BlocksOfLength
<1>2. \A i \in 1 .. first : h \in Busy /\ i \in BlocksIn(h)
  BY <1>0, CachedFacts
<1>3. Cardinality(Unused) \in Nat /\ n - first <= Cardinality(Unused)
  BY <1>0, UsedFacts, FS_CardinalityType
<1>4. /\ \A m \in 1 .. Cardinality(Unused) : order[m] \in Unused
      /\ \A l, m \in 1 .. Cardinality(Unused) : order[l] = order[m] => l = m
  BY <1>0, UsedFacts, InOrderFacts
<1>5. T = [i \in 1 .. RawWidth |-> IF i <= first THEN tables[h][i]
                                  ELSE IF i <= n THEN order[i - first] ELSE tables[slot][i]]
  BY DEF NewTable
<1> HIDE DEF first, n, h, order, T
<1>6. \A i \in 1 .. first : tables[h][i] \in Used /\ tables[h][i] \in Blocks /\ i \in 1 .. RawWidth
  BY <1>0, <1>2, UsedFacts
<1>7. \A i \in 1 .. n : i > first => i - first \in 1 .. Cardinality(Unused) /\ order[i - first] \in Unused
  BY <1>1, <1>3, <1>4
<1>8. \A i, j \in 1 .. first : tables[h][i] = tables[h][j] => i = j
  <2> SUFFICES ASSUME NEW i \in 1 .. first, NEW j \in 1 .. first, tables[h][i] = tables[h][j] PROVE i = j
    OBVIOUS
  <2>1. BlockOf(running[h], i) = BlockOf(running[h], j)
    BY <1>0, <1>2 DEF BlocksAreShared
  <2> QED BY <2>1, BlockNumber
<1>9. ASSUME NEW i \in 1 .. n, NEW j \in 1 .. n, f[i] = f[j] PROVE i = j
  <2>1. CASE i <= first /\ j <= first
    BY <1>1, <1>8, <1>9, <2>1
  <2>2. CASE i > first /\ j > first
    <3>1. order[i - first] = order[j - first]
      BY <1>1, <1>9, <2>2
    <3>2. i - first = j - first
      BY <1>4, <1>7, <2>2, <3>1
    <3> QED BY <1>1, <3>2
  <2>3. CASE i <= first /\ j > first
    BY <1>1, <1>6, <1>7, <1>9, <2>3 DEF Unused
  <2>4. CASE i > first /\ j <= first
    BY <1>1, <1>6, <1>7, <1>9, <2>4 DEF Unused
  <2> QED BY <1>1, <2>1, <2>2, <2>3, <2>4
<1>10. n <= PhysicalBlocks
  <2> SUFFICES ASSUME PhysicalBlocks < n PROVE FALSE
    BY <1>1, Geometry
  <2>1. f \in [1 .. n -> Blocks]
    BY <1>0, <1>1, <1>6, <1>7, UsedFacts
  <2>2. IsFiniteSet(1 .. n) /\ Cardinality(1 .. n) = n
    BY <1>1, FS_Interval
  <2>3. IsFiniteSet(Blocks) /\ Cardinality(Blocks) < Cardinality(1 .. n)
    BY <1>0, <2>2, UsedFacts
  <2>4. \E i, j \in 1 .. n : i # j /\ f[i] = f[j]
    <3> HIDE DEF f
    <3> QED BY <2>1, <2>2, <2>3, FS_PigeonHole
  <2> QED BY <1>9, <2>4
<1>11. n <= RawWidth /\ RawWidth \in Nat
  BY <1>1, <1>10, Geometry, LeastFacts, WidthFacts DEF RawWidth
<1>12. \A i \in 1 .. n : i \in 1 .. RawWidth /\ T[i] = f[i]
  BY <1>1, <1>5, <1>11
<1>13. T \in [1 .. RawWidth -> Blocks]
  <2>1. \A i \in 1 .. RawWidth : tables[slot][i] \in Blocks
    BY <1>0 DEF SchedulerTypes
  <2>2. \A i \in 1 .. RawWidth : i <= first => tables[h][i] \in Blocks
    BY <1>1, <1>6, <1>11
  <2>3. \A i \in 1 .. RawWidth : ~(i <= first) /\ i <= n => order[i - first] \in Blocks
    BY <1>0, <1>1, <1>7, <1>11, UsedFacts
  <2> QED BY <1>5, <2>1, <2>2, <2>3
<1>14. \A i \in 1 .. first : i \in 1 .. n /\ T[i] = tables[h][i]
  BY <1>1, <1>12
<1>15. \A i \in 1 .. n : i > first => T[i] \in Unused
  BY <1>1, <1>7, <1>12
<1>16. \A i, j \in 1 .. n : T[i] = T[j] => i = j
  BY <1>9, <1>12
<1> QED BY <1>11, <1>13, <1>14, <1>15, <1>16 DEF first, n, h, T

LEMMA AdmissionInit == PrefillInit => AdmissionInv
<1> SUFFICES ASSUME PrefillInit PROVE AdmissionInv
  OBVIOUS
<1>1. call.rows = <<>> /\ Len(call.rows) = 0
  BY DEF PrefillInit, NoCall
<1>2. Busy = {}
  BY DEF PrefillInit, Busy
<1>3. SchedulerTypes
  <2>1. 0 \in Blocks
    BY Geometry DEF Blocks
  <2> QED BY <2>1 DEF PrefillInit, SchedulerTypes
<1>4. CallTypes
  BY <1>1 DEF PrefillInit, CallTypes, NoCall
<1>5. TablesAreWide /\ BlocksAreShared
  BY <1>2 DEF TablesAreWide, BlocksAreShared
<1>6. RowsAreAdmitted /\ PrefixesAreHeld
  BY <1>1 DEF RowsAreAdmitted, PrefixesAreHeld
<1> QED BY <1>3, <1>4, <1>5, <1>6 DEF AdmissionInv

\* Most steps leave the scheduler and the rows of the call alone.
SameRows == /\ UNCHANGED <<config, running, tables>> /\ call'.rows = call.rows

LEMMA AdmissionUnchanged ==
    ASSUME AdmissionInv, SameRows, CallTypes'
    PROVE  AdmissionInv'
<1>1. /\ config' = config /\ running' = running /\ tables' = tables /\ call'.rows = call.rows
      /\ Busy' = Busy
  BY DEF SameRows, Busy
<1>2. SchedulerTypes'
  BY <1>1 DEF AdmissionInv, SchedulerTypes
<1>3. TablesAreWide'
  BY <1>1 DEF AdmissionInv, TablesAreWide
<1>4. BlocksAreShared'
  BY <1>1 DEF AdmissionInv, BlocksAreShared, BlocksIn
<1>5. RowsAreAdmitted'
  BY <1>1 DEF AdmissionInv, RowsAreAdmitted
<1>6. PrefixesAreHeld'
  BY <1>1 DEF AdmissionInv, PrefixesAreHeld, BlocksIn
<1> QED BY <1>2, <1>3, <1>4, <1>5, <1>6 DEF AdmissionInv

\* A call that is over, or a request that has finished, only frees slots.
Frees ==
    /\ UNCHANGED <<config, tables>>
    /\ running' \in [Slots -> Prompts \cup {None}] /\ \A s \in Slots : running'[s] \in {running[s], None}
    /\ call' = NoCall

LEMMA AdmissionFreed ==
    ASSUME AdmissionInv, Frees, CallTypes'
    PROVE  AdmissionInv'
<1>1. /\ config' = config /\ tables' = tables /\ call'.rows = <<>> /\ Len(call'.rows) = 0
  BY DEF Frees, NoCall
<1>2. \A s \in Busy' : s \in Busy /\ running'[s] = running[s]
  BY DEF Frees, Busy
<1>3. SchedulerTypes'
  BY <1>1 DEF AdmissionInv, SchedulerTypes, Frees
<1>4. TablesAreWide'
  BY <1>1, <1>2 DEF AdmissionInv, TablesAreWide
<1>5. BlocksAreShared'
  BY <1>1, <1>2 DEF AdmissionInv, BlocksAreShared, BlocksIn
<1>6. RowsAreAdmitted' /\ PrefixesAreHeld'
  BY <1>1 DEF RowsAreAdmitted, PrefixesAreHeld
<1> QED BY <1>3, <1>4, <1>5, <1>6, CallTypes' DEF AdmissionInv

NewRow(q) == [slot |-> LowestSlot, length |-> LengthOf[q], cached |-> CachedLength(q),
              table |-> NewTable(q, LowestSlot)]

LEMMA AdmissionAdmit ==
    ASSUME AdmissionInv, NEW q \in Prompts, Admit(q)
    PROVE  AdmissionInv'
<1> DEFINE slot == LowestSlot
           table == NewTable(q, slot)
           first == NumBlocks(CachedLength(q))
           n == NumBlocks(LengthOf[q])
           h == CHOOSE s \in Holders(q) : TRUE
           new == NewRow(q)
           k == Len(call.rows) + 1
<1>0. SchedulerTypes /\ CallTypes /\ TablesAreWide /\ BlocksAreShared /\ RowsAreAdmitted /\ PrefixesAreHeld
  BY DEF AdmissionInv
<1>1. slot \in Free /\ slot \in Slots /\ slot \notin Busy /\ running[slot] = None
  <2>1. Free # {}
    BY DEF Admit
  <2> QED BY <2>1, SlotFacts DEF Free, Busy
<1>2. /\ running' = [running EXCEPT ![slot] = q] /\ tables' = [tables EXCEPT ![slot] = table]
      /\ call' = [call EXCEPT !.rows = Append(@, new)] /\ config' = config
      /\ phase' = "admitting" /\ at' = at /\ pending' = pending /\ tokens' = tokens
      /\ phase \in {"idle", "admitting"}
  BY DEF Admit, NewRow
<1>3. /\ table \in [1 .. RawWidth -> Blocks] /\ n <= RawWidth
      /\ \A i \in 1 .. first : table[i] = tables[h][i]
      /\ \A i \in 1 .. n : i > first => table[i] \in Unused
      /\ \A i, j \in 1 .. n : table[i] = table[j] => i = j
  <2>1. n - first <= Cardinality(Unused)
    BY DEF Admit
  <2> QED BY <1>1, <2>1, NewTableFacts
<1>4. /\ first \in Nat /\ n \in Nat /\ first <= n
      /\ \A i \in 1 .. first : h \in Busy /\ i \in BlocksIn(h) /\ BlockOf(running[h], i) = BlockOf(q, i)
  BY <1>0, CachedFacts, PromptFacts
<1>5. /\ new.slot = slot /\ new.length = LengthOf[q] /\ new.cached = CachedLength(q) /\ new.table = table
      /\ new \in Row
  <2>1. CachedLength(q) \in Nat /\ LengthOf[q] \in Nat
    BY <1>0, CachedFacts, PromptFacts
  <2> QED BY <1>1, <1>3, <2>1 DEF NewRow, Row
<1> HIDE DEF slot, table, first, n, h, new
<1>6. /\ call'.rows = Append(call.rows, new) /\ call'.plan = call.plan /\ call'.mode = call.mode
      /\ call' = [rows |-> call'.rows, plan |-> call'.plan, mode |-> call'.mode]
      /\ call.rows \in Seq(Row) /\ k \in Nat \ {0} /\ Len(call'.rows) = k /\ call'.rows[k] = new
      /\ call'.rows \in Seq(Row)
      /\ \A r \in 1 .. k : r # k => r \in 1 .. Len(call.rows) /\ call'.rows[r] = call.rows[r] /\ r < k
  <2>1. call = [rows |-> call.rows, plan |-> call.plan, mode |-> call.mode] /\ call.rows \in Seq(Row)
    BY <1>0 DEF CallTypes
  <2>2. call'.rows = Append(call.rows, new) /\ call'.plan = call.plan /\ call'.mode = call.mode
    BY <1>2, <2>1
  <2>3. call' = [rows |-> call'.rows, plan |-> call'.plan, mode |-> call'.mode]
    BY <1>2, <2>1
  <2> QED BY <1>5, <2>1, <2>2, <2>3
<1> HIDE DEF k
<1>7. SchedulerTypes'
  BY <1>0, <1>2, <1>3 DEF SchedulerTypes
<1>8. CallTypes'
  BY <1>0, <1>2, <1>6 DEF CallTypes
<1>9. /\ Busy' = Busy \cup {slot} /\ running'[slot] = q /\ tables'[slot] = table
      /\ \A s \in Busy : s # slot /\ running'[s] = running[s] /\ tables'[s] = tables[s]
  <2>1. running'[slot] = q /\ q # None /\ \A s \in Slots : s # slot => running'[s] = running[s]
    BY <1>0, <1>1, <1>2, PromptFacts DEF SchedulerTypes
  <2>2. Busy' = Busy \cup {slot}
    BY <1>1, <2>1 DEF Busy
  <2>3. tables'[slot] = table /\ \A s \in Slots : s # slot => tables'[s] = tables[s]
    BY <1>0, <1>1, <1>2 DEF SchedulerTypes
  <2>4. \A s \in Busy : s \in Slots /\ s # slot
    BY <1>1 DEF Busy
  <2> QED BY <2>1, <2>2, <2>3, <2>4
<1>10. TablesAreWide'
  BY <1>0, <1>3, <1>9 DEF TablesAreWide, n
<1>11. BlocksAreShared'
  <2>1. \A s \in Busy : BlocksIn(s)' = BlocksIn(s)
    BY <1>9 DEF BlocksIn
  <2>2. 1 .. NumBlocks(LengthOf[running'[slot]]) = 1 .. n
    BY <1>9 DEF n
  <2>3. \A s, t \in Busy : \A i \in BlocksIn(s), j \in BlocksIn(t) :
            tables'[s][i] = tables'[t][j] => BlockOf(running'[s], i) = BlockOf(running'[t], j)
    BY <1>0, <1>9 DEF BlocksAreShared
  <2>4. ASSUME NEW i \in 1 .. n, NEW t \in Busy, NEW j \in BlocksIn(t), table[i] = tables[t][j]
        PROVE  BlockOf(q, i) = BlockOf(running[t], j)
    <3>1. i <= first
      <4>1. tables[t][j] \in Used
        BY <1>0, UsedFacts
      <4> QED BY <1>3, <1>4, <2>4, <4>1 DEF Unused
    <3>2. i \in 1 .. first
      BY <1>4, <3>1
    <3> QED BY <1>0, <1>3, <1>4, <2>4, <3>2 DEF BlocksAreShared
  <2>5. \A i, j \in 1 .. n : table[i] = table[j] => BlockOf(q, i) = BlockOf(q, j)
    BY <1>3
  <2>6. ASSUME NEW s \in Busy', NEW t \in Busy', NEW i \in BlocksIn(s)', NEW j \in BlocksIn(t)',
               tables'[s][i] = tables'[t][j]
        PROVE  BlockOf(running'[s], i) = BlockOf(running'[t], j)
    <3>1. CASE s \in Busy /\ t \in Busy
      BY <2>1, <2>3, <2>6, <3>1
    <3>2. CASE s = slot /\ t \in Busy
      <4>1. i \in 1 .. n /\ running'[s] = q /\ tables'[s] = table
        BY <1>9, <2>2, <3>2 DEF BlocksIn
      <4> QED BY <1>9, <2>1, <2>4, <2>6, <3>2, <4>1
    <3>3. CASE s \in Busy /\ t = slot
      <4>1. j \in 1 .. n /\ running'[t] = q /\ tables'[t] = table
        BY <1>9, <2>2, <3>3 DEF BlocksIn
      <4> QED BY <1>9, <2>1, <2>4, <2>6, <3>3, <4>1
    <3>4. CASE s = slot /\ t = slot
      <4>1. i \in 1 .. n /\ j \in 1 .. n /\ running'[s] = q /\ tables'[s] = table
        BY <1>9, <2>2, <3>4 DEF BlocksIn
      <4> QED BY <2>5, <2>6, <3>4, <4>1
    <3> QED BY <1>9, <3>1, <3>2, <3>3, <3>4
  <2> QED BY <2>6 DEF BlocksAreShared
<1>12. \A r \in 1 .. Len(call.rows) :
            call.rows[r].slot \in Busy /\ call.rows[r].slot # slot
  BY <1>0, <1>1 DEF RowsAreAdmitted
<1>13. RowsAreAdmitted'
  <2>1. ASSUME NEW r \in 1 .. k
        PROVE  LET row == call'.rows[r] IN
               /\ row.slot \in Busy' /\ row.length = LengthOf[running'[row.slot]] /\ row.table = tables'[row.slot]
               /\ row.cached \in {0, SharedLength} /\ row.cached < row.length
    <3>1. CASE r = k
      <4>1. CachedLength(q) \in {0, SharedLength} /\ CachedLength(q) < LengthOf[q]
        BY <1>0, CachedFacts
      <4> QED BY <1>5, <1>6, <1>9, <3>1, <4>1
    <3>2. CASE r # k
      BY <1>0, <1>6, <1>9, <1>12, <3>2 DEF RowsAreAdmitted
    <3> QED BY <3>1, <3>2
  <2>2. ASSUME NEW r \in 1 .. k, NEW p \in 1 .. k, call'.rows[p].slot = call'.rows[r].slot
        PROVE  p = r
    <3>1. CASE r = k /\ p # k
      BY <1>5, <1>6, <1>12, <2>2, <3>1
    <3>2. CASE p = k /\ r # k
      BY <1>5, <1>6, <1>12, <2>2, <3>2
    <3>3. CASE p # k /\ r # k
      BY <1>0, <1>6, <2>2, <3>3 DEF RowsAreAdmitted
    <3> QED BY <3>1, <3>2, <3>3
  <2> QED BY <1>6, <2>1, <2>2 DEF RowsAreAdmitted
<1>14. PrefixesAreHeld'
  <2> DEFINE Held(r, s) ==
                /\ \A p \in 1 .. k : call'.rows[p].slot = s => p < r
                /\ \A i \in 1 .. NumBlocks(SharedLength) :
                    /\ i \in BlocksIn(s)' /\ tables'[s][i] = call'.rows[r].table[i]
                    /\ BlockOf(running'[s], i) = BlockOf(running'[call'.rows[r].slot], i)
  <2>0. \A s \in Busy : BlocksIn(s)' = BlocksIn(s) /\ s \in Busy'
    BY <1>9 DEF BlocksIn
  <2>1. ASSUME NEW r \in 1 .. k, call'.rows[r].cached > 0, r = k PROVE \E s \in Busy' : Held(r, s)
    <3>1. CachedLength(q) > 0
      BY <1>5, <1>6, <2>1
    <3>2. CachedLength(q) = SharedLength
      BY <1>0, <3>1, CachedFacts
    <3>3. first = NumBlocks(SharedLength) /\ NumBlocks(SharedLength) > 0
      <4>1. NumBlocks(SharedLength) > 0
        BY <3>1, <3>2, SharedFacts, BlocksOfLength
      <4> QED BY <3>2, <4>1 DEF first
    <3>4. PICK s \in Busy : s = h
      BY <1>4, <3>3, SharedFacts
    <3>5. \A p \in 1 .. k : call'.rows[p].slot = s => p < r
      BY <1>5, <1>6, <1>9, <2>1, <3>4
    <3>6. ASSUME NEW i \in 1 .. NumBlocks(SharedLength)
          PROVE  /\ i \in BlocksIn(s)' /\ tables'[s][i] = call'.rows[r].table[i]
                 /\ BlockOf(running'[s], i) = BlockOf(running'[call'.rows[r].slot], i)
      <4>1. /\ i \in BlocksIn(s) /\ BlockOf(running[s], i) = BlockOf(q, i) /\ table[i] = tables[s][i]
        BY <1>3, <1>4, <3>3, <3>4
      <4>2. call'.rows[r].slot = slot /\ call'.rows[r].table = table
        BY <1>5, <1>6, <2>1
      <4> QED BY <1>9, <2>0, <4>1, <4>2
    <3> QED BY <2>0, <3>5, <3>6
  <2>2. ASSUME NEW r \in 1 .. k, call'.rows[r].cached > 0, r # k PROVE \E s \in Busy' : Held(r, s)
    <3>1. r \in 1 .. Len(call.rows) /\ call'.rows[r] = call.rows[r] /\ call.rows[r].slot \in Busy
      BY <1>6, <1>12, <2>2
    <3>2. PICK s \in Busy :
            /\ \A p \in 1 .. Len(call.rows) : call.rows[p].slot = s => p < r
            /\ \A i \in 1 .. NumBlocks(SharedLength) :
                /\ i \in BlocksIn(s) /\ tables[s][i] = call.rows[r].table[i]
                /\ BlockOf(running[s], i) = BlockOf(running[call.rows[r].slot], i)
      BY <1>0, <2>2, <3>1 DEF PrefixesAreHeld
    <3>3. \A p \in 1 .. k : call'.rows[p].slot = s => p < r
      BY <1>5, <1>6, <1>9, <3>2
    <3>4. \A i \in 1 .. NumBlocks(SharedLength) :
            /\ i \in BlocksIn(s)' /\ tables'[s][i] = call'.rows[r].table[i]
            /\ BlockOf(running'[s], i) = BlockOf(running'[call'.rows[r].slot], i)
      BY <1>9, <2>0, <3>1, <3>2
    <3> QED BY <2>0, <3>3, <3>4
  <2>3. \A r \in 1 .. k : call'.rows[r].cached > 0 => \E s \in Busy' : Held(r, s)
    <3> HIDE DEF Held
    <3> QED BY <2>1, <2>2
  <2> QED BY ZenonT(40), <1>6, <2>3 DEF PrefixesAreHeld
<1> QED BY <1>7, <1>8, <1>10, <1>11, <1>13, <1>14 DEF AdmissionInv

\* The steps that end a call with an error.
Fails == Refused \/ EagerRaises \/ ReplayRaises \/ ReplayRefused \/ FinishRaises \/ CollectRaises

LEMMA FailsRaises == Fails => Raises
BY DEF Fails, Refused, EagerRaises, ReplayRaises, ReplayRefused, FinishRaises, CollectRaises

LEMMA AdmissionEnds ==
    ASSUME AdmissionInv, Raises \/ Return \/ (\E s \in Slots : Finish(s))
    PROVE  AdmissionInv'
<1>1. SchedulerTypes /\ CallTypes
  BY DEF AdmissionInv
<1>2. CASE Raises
  <2>1. Frees
    BY <1>1, <1>2 DEF Raises, Ended, Frees, SchedulerTypes
  <2>2. CallTypes'
    BY <1>2 DEF Raises, Ended, NoCall, CallTypes
  <2> QED BY <2>1, <2>2, AdmissionFreed
<1>3. CASE Return
  <2>1. Frees
    BY <1>1, <1>3 DEF Return, Ended, schedulerVars, Frees, SchedulerTypes
  <2>2. CallTypes'
    BY <1>3 DEF Return, Ended, NoCall, CallTypes
  <2> QED BY <2>1, <2>2, AdmissionFreed
<1>4. ASSUME NEW s \in Slots, Finish(s) PROVE AdmissionInv'
  <2>1. /\ call = NoCall /\ call' = call /\ phase' = phase /\ phase = "idle"
        /\ at' = at /\ pending' = pending /\ tokens' = tokens /\ config' = config /\ tables' = tables
        /\ running' = [running EXCEPT ![s] = None]
    BY <1>1, <1>4 DEF Finish, callVars, CallTypes
  <2>2. Frees
    BY <1>1, <2>1 DEF Frees, SchedulerTypes
  <2>3. CallTypes'
    BY <1>1, <2>1 DEF CallTypes
  <2> QED BY <2>2, <2>3, AdmissionFreed
<1> QED BY <1>2, <1>3, <1>4

LEMMA AdmissionStep == AdmissionInv /\ [PrefillNext]_prefillVars => AdmissionInv'
<1> SUFFICES ASSUME AdmissionInv, [PrefillNext]_prefillVars PROVE AdmissionInv'
  OBVIOUS
<1>1. SchedulerTypes /\ CallTypes
  BY DEF AdmissionInv
<1>2. ASSUME NEW q \in Prompts, Admit(q) PROVE AdmissionInv'
  BY <1>2, AdmissionAdmit
<1>3. CASE Fails \/ Return \/ \E s \in Slots : Finish(s)
  BY <1>3, FailsRaises, AdmissionEnds
<1>4. CASE Submit
  <2>1. SameRows /\ CallTypes'
    BY <1>1, <1>4 DEF Submit, schedulerVars, CallTypes, SameRows
  <2> QED BY <2>1, AdmissionUnchanged
<1>5. CASE Prepare
  <2>1. PICK plan : call' = [call EXCEPT !.plan = plan]
    BY <1>5 DEF Prepare
  <2>2. phase' = "running" /\ UNCHANGED <<config, running, tables>>
    BY <1>5 DEF Prepare, schedulerVars
  <2>3. SameRows /\ CallTypes'
    BY <1>1, <2>1, <2>2 DEF CallTypes, SameRows
  <2> QED BY <2>3, AdmissionUnchanged
<1>6. CASE RunEager \/ Replay \/ Collect
  <2>1. phase = "running" /\ phase' = phase /\ call' = call /\ UNCHANGED <<config, running, tables>>
    BY <1>6 DEF RunEager, Replay, Collect, Runnable, Collecting, schedulerVars
  <2>2. SameRows /\ CallTypes'
    BY <1>1, <2>1 DEF CallTypes, SameRows
  <2> QED BY <2>2, AdmissionUnchanged
<1>7. CASE Cleanup
  <2>1. phase' = "closed" /\ phase \in {"idle", "closed"} /\ call' = call /\ UNCHANGED <<config, running, tables>>
    BY <1>7 DEF Cleanup, schedulerVars
  <2>2. UNCHANGED <<at, pending, tokens>>
    BY <1>7 DEF Cleanup
  <2>3. SameRows /\ CallTypes'
    BY <1>1, <2>1, <2>2 DEF CallTypes, SameRows
  <2> QED BY <2>3, AdmissionUnchanged
<1>8. CASE UNCHANGED prefillVars
  <2>1. SameRows /\ CallTypes'
    BY <1>1, <1>8 DEF prefillVars, schedulerVars, callVars, CallTypes, SameRows
  <2> QED BY <2>1, AdmissionUnchanged
<1> QED BY <1>2, <1>3, <1>4, <1>5, <1>6, <1>7, <1>8 DEF PrefillNext, Step, Fails

(* The scheduler's part: whatever is admitted, a request's blocks fit the raw page table, and two *)
(* requests share a block only where their prompts have the same tokens.                          *)
THEOREM AdmissionInvariance == PrefillSpec => []AdmissionInv
<1>1. PrefillInit => AdmissionInv
  BY AdmissionInit
<1>2. AdmissionInv /\ [PrefillNext]_prefillVars => AdmissionInv'
  BY AdmissionStep
<1> QED BY <1>1, <1>2, PTL DEF PrefillSpec

-----------------------------------------------------------------------------
(* The planner accepts what the scheduler admits. *)

LEMMA RowFacts ==
    ASSUME AdmissionInv, NEW r \in 1 .. Len(call.rows)
    PROVE  /\ call.rows[r] \in Row /\ call.rows[r].slot \in Busy
           /\ running[call.rows[r].slot] \in Prompts
           /\ call.rows[r].length = LengthOf[running[call.rows[r].slot]]
           /\ call.rows[r].length \in Nat \ {0} /\ call.rows[r].cached \in Nat
           /\ call.rows[r].cached < call.rows[r].length /\ call.rows[r].cached % BlockSize = 0
           /\ call.rows[r].cached > 0 => call.rows[r].cached = SharedLength
           /\ Uncached(call.rows[r]) \in Nat \ {0}
           /\ Mapped(call.rows[r]) \in Nat /\ Mapped(call.rows[r]) <= RawWidth
           /\ call.rows[r].table = tables[call.rows[r].slot]
           /\ call.rows[r].table \in [1 .. RawWidth -> Blocks] /\ Len(call.rows[r].table) = RawWidth
<1> DEFINE row == call.rows[r]
           q == running[row.slot]
<1>1. /\ row \in Row /\ row.slot \in Busy /\ row.length = LengthOf[q] /\ row.table = tables[row.slot]
      /\ row.cached \in {0, SharedLength} /\ row.cached < row.length
  BY DEF AdmissionInv, CallTypes, RowsAreAdmitted
<1>2. q \in Prompts
  BY <1>1, SlotFacts DEF AdmissionInv
<1>3. row.length \in Nat \ {0} /\ NumBlocks(row.length) \in Nat /\ NumBlocks(row.length) <= RawWidth
  BY <1>1, <1>2, PromptFacts DEF AdmissionInv, TablesAreWide
<1>4. row.cached \in Nat /\ row.cached % BlockSize = 0 /\ (row.cached > 0 => row.cached = SharedLength)
  BY <1>1, SharedFacts
<1>5. row.table \in [1 .. RawWidth -> Blocks] /\ Len(row.table) = RawWidth
  <2>1. row.table \in [1 .. RawWidth -> Blocks]
    BY <1>1 DEF Row
  <2> QED BY <2>1, WidthFacts
<1> HIDE DEF row, q
<1>6. Uncached(row) \in Nat \ {0}
  BY <1>1, <1>3, <1>4 DEF Uncached
<1> QED BY <1>1, <1>2, <1>3, <1>4, <1>5, <1>6 DEF Mapped, row, q

IsRow(row) ==
    /\ row.length \in Nat \ {0} /\ row.cached \in Nat /\ row.cached < row.length
    /\ row.cached % BlockSize = 0

\* The chunks of a row: each starts at a block, the last one reaches the end of the prompt.
Chunking(row, chunks, size) ==
    /\ size \in Nat \ {0} /\ size <= MaxChunk /\ Len(chunks) \in Nat \ {0}
    /\ \A c \in 1 .. Len(chunks) :
        /\ chunks[c].size = size /\ chunks[c].start \in Nat /\ chunks[c].start < row.length
        /\ chunks[c].start % BlockSize = 0
        /\ chunks[c].fill = <<FillView(row, chunks[c].start \div BlockSize, size)>>
        /\ c < Len(chunks) => chunks[c + 1].start = chunks[c].start + size /\ size % BlockSize = 0
    /\ chunks[1].start = row.cached /\ row.length <= chunks[Len(chunks)].start + size

LEMMA ChunkFacts ==
    ASSUME NEW row, IsRow(row)
    PROVE  /\ Bucket(row) \in Nat \ {0} /\ Uncached(row) <= Bucket(row)
           /\ Bucket(row) <= MaxChunk => ChunkSize(Bucket(row)) = Bucket(row)
           /\ Chunking(row, ChunksOf(row), ChunkSize(Bucket(row)))
<1> DEFINE size == ChunkSize(Bucket(row))
           n == CeilDiv(Uncached(row), size)
           u == Uncached(row)
           start(c) == row.cached + (c - 1) * size
<1>1. u \in Nat \ {0} /\ row.length = row.cached + u
  BY DEF IsRow, Uncached
<1>2. /\ Bucket(row) \in Nat \ {0} /\ u <= Bucket(row) /\ ChunkSizes(Bucket(row)) # {}
  BY <1>1, PaddedCovers, ChunkSizesExist DEF Bucket
<1>3. /\ size \in Nat \ {0} /\ size <= MaxChunk
      /\ Bucket(row) <= MaxChunk => size = Bucket(row)
      /\ Bucket(row) > MaxChunk => size % BlockSize = 0
  BY <1>2, ChunkSizeFacts
<1> HIDE DEF u, size
<1>4. n \in Nat \ {0} /\ u <= n * size /\ n * size < u + size
  <2>1. n = CeilDiv(u, size) /\ u \in Nat /\ u > 0 /\ size \in Nat \ {0}
    BY <1>1, <1>3 DEF u
  <2> HIDE DEF n
  <2>2. CeilDiv(u, size) \in Nat /\ u <= CeilDiv(u, size) * size /\ CeilDiv(u, size) * size < u + size
        /\ CeilDiv(u, size) > 0
    BY <2>1, Ceiling
  <2> QED BY <2>1, <2>2
<1>5. Len(ChunksOf(row)) = n /\ DOMAIN ChunksOf(row) = 1 .. n
      /\ \A c \in 1 .. n : ChunksOf(row)[c] = [start |-> start(c), size |-> size,
                                              fill |-> <<FillView(row, start(c) \div BlockSize, size)>>]
  BY <1>4 DEF ChunksOf, u, size
<1> HIDE DEF n
<1>6. n = 1 \/ size % BlockSize = 0
  <2> SUFFICES ASSUME n # 1, Bucket(row) <= MaxChunk PROVE FALSE
    BY <1>2, <1>3, Geometry
  <2>1. u <= 1 * size
    BY <1>1, <1>2, <1>3
  <2>2. n <= 1
    BY <1>1, <1>3, <2>1, CeilingLeast DEF u, n
  <2> QED BY <1>4, <2>2
<1>7. \A c \in 1 .. n : (c - 1) * size \in Nat /\ (c - 1) * size < u
  <2> SUFFICES ASSUME NEW c \in 1 .. n PROVE (c - 1) * size \in Nat /\ (c - 1) * size < u
    OBVIOUS
  <2>1. c - 1 \in Nat /\ n - 1 \in Nat /\ c - 1 <= n - 1
    BY <1>4
  <2>2. (c - 1) * size \in Nat /\ (c - 1) * size <= (n - 1) * size
    BY <1>3, <2>1
  <2>3. (n - 1) * size = n * size - size /\ n * size \in Nat
    BY <1>3, <1>4
  <2> QED BY <1>1, <1>3, <1>4, <2>2, <2>3
<1>8. ASSUME NEW c \in 1 .. n PROVE start(c) % BlockSize = 0
  <2>1. row.cached = (row.cached \div BlockSize) * BlockSize /\ row.cached \div BlockSize \in Nat
    BY Geometry DEF IsRow
  <2>2. \A a \in Nat : (a * BlockSize) % BlockSize = 0
    BY Geometry
  <2>3. CASE size % BlockSize = 0
    <3> DEFINE a == row.cached \div BlockSize
               b == size \div BlockSize
    <3>1. size = b * BlockSize /\ b \in Nat
      <4>1. size \in Nat /\ BlockSize \in Nat \ {0}
        BY <1>3, Geometry
      <4> QED BY <2>3, <4>1
    <3>b. c - 1 \in Nat /\ a \in Nat
      BY <1>4, <2>1
    <3>2. row.cached = a * BlockSize
      BY <2>1
    <3> HIDE DEF a, b
    <3>3. (c - 1) * (b * BlockSize) = ((c - 1) * b) * BlockSize
      BY <3>1, <3>b, Geometry
    <3>4. start(c) = (a + (c - 1) * b) * BlockSize /\ a + (c - 1) * b \in Nat
      BY <3>1, <3>b, <3>2, <3>3, Geometry
    <3> QED BY <2>2, <3>4
  <2>4. CASE n = 1
    <3>1. start(c) = row.cached
      BY <1>3, <2>4 DEF IsRow
    <3> QED BY <3>1 DEF IsRow
  <2> QED BY <1>6, <2>3, <2>4
<1>9. \A c \in 1 .. n : start(c) \in Nat /\ start(c) < row.length
  BY <1>1, <1>7 DEF IsRow
<1>10. row.length <= start(n) + size
  <2>1. (n - 1) * size = n * size - size
    BY <1>3, <1>4
  <2> QED BY <1>1, <1>3, <1>4, <2>1 DEF IsRow
<1>11. \A c \in 1 .. n : c < n => size % BlockSize = 0
  BY <1>4, <1>6
<1>12. start(1) = row.cached
  BY <1>3 DEF IsRow
<1>13. \A c \in 1 .. n : c < n => c + 1 \in 1 .. n /\ start(c + 1) = start(c) + size
  <2> SUFFICES ASSUME NEW c \in 1 .. n, c < n PROVE c + 1 \in 1 .. n /\ start(c + 1) = start(c) + size
    OBVIOUS
  <2>1. ((c + 1) - 1) * size = (c - 1) * size + size
    BY <1>3, <1>4
  <2>2. (c - 1) * size \in Nat
    BY <1>7
  <2> QED BY <1>3, <1>4, <2>1, <2>2 DEF IsRow
<1>14. /\ 1 \in 1 .. n /\ n \in 1 .. n
       /\ \A c \in 1 .. n : /\ ChunksOf(row)[c].start = start(c) /\ ChunksOf(row)[c].size = size
                            /\ ChunksOf(row)[c].fill = <<FillView(row, start(c) \div BlockSize, size)>>
  <2> HIDE DEF start
  <2> QED BY <1>4, <1>5
<1> HIDE DEF start
<1>15. Chunking(row, ChunksOf(row), size)
  <2> DEFINE chunks == ChunksOf(row)
  <2>1. Len(chunks) = n /\ \A c \in 1 .. n : /\ chunks[c].start = start(c) /\ chunks[c].size = size
                                            /\ chunks[c].fill = <<FillView(row, start(c) \div BlockSize, size)>>
    BY <1>5, <1>14
  <2> HIDE DEF chunks
  <2>2. ASSUME NEW c \in 1 .. Len(chunks)
        PROVE  /\ chunks[c].size = size /\ chunks[c].start \in Nat /\ chunks[c].start < row.length
               /\ chunks[c].start % BlockSize = 0
               /\ chunks[c].fill = <<FillView(row, chunks[c].start \div BlockSize, size)>>
               /\ c < Len(chunks) => chunks[c + 1].start = chunks[c].start + size /\ size % BlockSize = 0
    <3>1. c \in 1 .. n /\ chunks[c].start = start(c)
      BY <2>1
    <3>2. c < n => c + 1 \in 1 .. n /\ chunks[c + 1].start = chunks[c].start + size /\ size % BlockSize = 0
      BY <1>11, <1>13, <2>1, <3>1
    <3> QED BY <1>8, <1>9, <2>1, <3>1, <3>2
  <2>3. chunks[1].start = row.cached /\ row.length <= chunks[Len(chunks)].start + size
    BY <1>10, <1>12, <1>14, <2>1
  <2>4. Chunking(row, chunks, size)
    BY <1>3, <1>4, <2>1, <2>2, <2>3 DEF Chunking
  <2> QED BY <2>4 DEF chunks
<1> QED BY <1>2, <1>3, <1>15 DEF u, size

LEMMA RowFitsWidth ==
    ASSUME NEW row, IsRow(row), Mapped(row) <= RawWidth
    PROVE  FitsWidth(row)
<1> DEFINE size == ChunkSize(Bucket(row))
           n == Len(ChunksOf(row))
           chunks == SingleRequest(<<row>>, 1).chunks
           end == RawWidth * BlockSize + (MaxChunk - 1)
<1>0. Bucket(row) \in Nat \ {0} /\ Chunking(row, ChunksOf(row), size)
  BY ChunkFacts
<1>1. /\ Bucket(row) \in Nat \ {0}
      /\ size \in Nat \ {0} /\ size <= MaxChunk /\ n \in Nat \ {0}
      /\ Len(ChunksOf(row)) = n /\ n \in 1 .. n
      /\ \A c \in 1 .. n : ChunksOf(row)[c].start \in Nat /\ ChunksOf(row)[c].start < row.length
                           /\ ChunksOf(row)[c].size = size
  BY <1>0 DEF Chunking
<1>2. end <= PrefillWidth * BlockSize /\ MaxChunk <= end
  <2>1. /\ RawWidth \in Nat \ {0} /\ PrefillWidth \in Nat /\ NumBlocks(MaxChunk - 1) \in Nat
        /\ MaxChunk - 1 <= NumBlocks(MaxChunk - 1) * BlockSize
        /\ RawWidth + NumBlocks(MaxChunk - 1) <= PrefillWidth
    BY Geometry, WidthFacts, BlocksOfLength
  <2>2. (RawWidth + NumBlocks(MaxChunk - 1)) * BlockSize <= PrefillWidth * BlockSize
    BY <2>1, Geometry
  <2>3. (RawWidth + NumBlocks(MaxChunk - 1)) * BlockSize = RawWidth * BlockSize + NumBlocks(MaxChunk - 1) * BlockSize
    BY <2>1, Geometry
  <2>4. RawWidth * BlockSize \in Nat \ {0} /\ NumBlocks(MaxChunk - 1) * BlockSize \in Nat
        /\ PrefillWidth * BlockSize \in Nat
    BY <2>1, Geometry
  <2> QED BY <2>1, <2>2, <2>3, <2>4, Geometry
<1>3. row.length <= RawWidth * BlockSize
  <2>1. Mapped(row) \in Nat /\ row.length <= Mapped(row) * BlockSize
    BY BlocksOfLength DEF IsRow, Mapped
  <2>2. Mapped(row) * BlockSize <= RawWidth * BlockSize
    BY <2>1, WidthFacts, Geometry
  <2>3. Mapped(row) * BlockSize \in Nat /\ RawWidth * BlockSize \in Nat
    BY <2>1, WidthFacts, Geometry
  <2> QED BY <2>1, <2>2, <2>3 DEF IsRow
<1>4. RawWidth * BlockSize \in Nat /\ PrefillWidth * BlockSize \in Nat
  BY WidthFacts, Geometry
<1> HIDE DEF size, n, end
<1>5. CASE UsesChunks(row)
  <2>1. chunks = ChunksOf(row)
    BY <1>5 DEF SingleRequest
  <2>2. Last(chunks) = ChunksOf(row)[n]
    BY <1>1, <2>1 DEF Last
  <2>3. /\ ChunksOf(row)[n].start \in Nat /\ ChunksOf(row)[n].start < row.length
        /\ ChunksOf(row)[n].size = size
    BY <1>1
  <2> HIDE DEF chunks
  <2>4. Last(chunks).start + Last(chunks).size <= end
    BY <1>1, <1>3, <1>4, <2>2, <2>3, Geometry DEF end, IsRow
  <2>5. end \in Int /\ Last(chunks).start + Last(chunks).size \in Int
    BY <1>1, <1>4, <2>2, <2>3, Geometry DEF end
  <2> QED BY <1>2, <1>4, <2>4, <2>5 DEF FitsWidth, chunks
<1>6. CASE ~UsesChunks(row)
  <2>1. Bucket(row) <= MaxChunk
    BY <1>1, <1>6, Geometry DEF UsesChunks
  <2>2. chunks = <<[start |-> 0, size |-> Bucket(row), fill |-> <<PageTable(row, Skip)>>]>>
    BY <1>6 DEF SingleRequest
  <2>3. Last(chunks).start = 0 /\ Last(chunks).size = Bucket(row)
    BY <2>2 DEF Last
  <2>4. end \in Int
    BY <1>4, Geometry DEF end
  <2> HIDE DEF chunks
  <2>5. Last(chunks).start + Last(chunks).size = Bucket(row)
    BY <1>1, <2>3
  <2> QED BY <1>1, <1>2, <1>4, <2>1, <2>4, <2>5, Geometry DEF FitsWidth, chunks
<1> QED BY <1>5, <1>6

LEMMA CallIsPlannable == AdmissionInv => Plannable(config.policy, call.rows)
<1> SUFFICES ASSUME AdmissionInv PROVE Plannable(config.policy, call.rows)
  OBVIOUS
<1>1. \A r, s \in 1 .. Len(call.rows) : call.rows[r].slot = call.rows[s].slot => r = s
  BY DEF AdmissionInv, RowsAreAdmitted
<1>2. ASSUME NEW r \in 1 .. Len(call.rows)
      PROVE  ValidRow(call.rows[r]) /\ IsRow(call.rows[r])
  <2>1. call.rows[r].slot \in 0 .. MaxBatch - 1
    BY <1>2, RowFacts DEF Busy, Slots
  <2> QED BY <1>2, <2>1, RowFacts DEF ValidRow, IsRow
<1>3. ASSUME NEW r \in 1 .. Len(call.rows)
      PROVE  FitsTable(call.rows[r]) /\ ChunkSizes(Bucket(call.rows[r])) # {} /\ FitsWidth(call.rows[r])
  <2>1. FitsTable(call.rows[r])
    BY <1>3, RowFacts, WidthFacts DEF FitsTable
  <2>2. ChunkSizes(Bucket(call.rows[r])) # {}
    BY <1>3, RowFacts, ChunkSizesExist DEF Bucket
  <2>3. FitsWidth(call.rows[r])
    BY <1>2, <1>3, RowFacts, RowFitsWidth
  <2> QED BY <2>1, <2>2, <2>3
<1>4. Working(call.rows) \subseteq 1 .. Len(call.rows)
  BY DEF Working
<1> QED BY <1>1, <1>2, <1>3, <1>4 DEF Plannable

(* The planner accepts every call of prompts the model serves: every block fits the raw table, a *)
(* chunk size divides every bucket, and the padded end of the last chunk fits the canonical width *)
(* (config.py, PageTableLayout.resolve; plan.py).                                                 *)
THEOREM EveryLegalCallIsPlanned == PrefillSpec => []LegalCallsArePlanned
<1>1. AdmissionInv => LegalCallsArePlanned
  BY CallIsPlannable DEF LegalCallsArePlanned
<1> QED BY <1>1, AdmissionInvariance, PTL

-----------------------------------------------------------------------------
(* What a chunk writes: through its entries, the blocks of the prompts of its rows and no other. *)

GoodRow(row) ==
    /\ IsRow(row) /\ Mapped(row) \in Nat /\ Mapped(row) <= RawWidth
    /\ row.table \in [1 .. RawWidth -> Blocks]

LEMMA WidthOrder == PrefillWidth \in Nat /\ RawWidth \in Nat /\ RawWidth <= PrefillWidth
<1>1. MaxChunk - 1 \in Nat
  BY Geometry
<1>2. NumBlocks(MaxChunk - 1) \in Nat
  BY <1>1, BlocksOfLength
<1> QED BY <1>2, WidthFacts

LEMMA PageTableFacts ==
    ASSUME NEW row, NEW filler
    PROVE  /\ Len(PageTable(row, filler)) = PrefillWidth
           /\ \A i \in 1 .. PrefillWidth :
                PageTable(row, filler)[i] = IF i <= Mapped(row) THEN row.table[i] ELSE filler
<1>1. PrefillWidth \in Nat
  BY WidthFacts
<1> QED BY <1>1 DEF PageTable

LEMMA FillViewFacts ==
    ASSUME NEW row, NEW block, NEW size \in Nat
    PROVE  /\ Len(FillView(row, block, size)) = NumBlocks(size)
           /\ \A i \in 1 .. NumBlocks(size) :
                FillView(row, block, size)[i] =
                    IF block + i <= Mapped(row) THEN row.table[block + i] ELSE Skip
<1>1. NumBlocks(size) \in Nat
  BY BlocksOfLength
<1> QED BY <1>1 DEF FillView

FillIsOf(rows, request, chunk) ==
    LET block == chunk.start \div BlockSize IN
    \A i \in 1 .. Len(chunk.fill), j \in 1 .. NumBlocks(chunk.size) :
        j <= Len(chunk.fill[i]) /\ chunk.fill[i][j] # Skip =>
            /\ i \in 1 .. Len(request.rows) /\ block + j <= Mapped(rows[request.rows[i]])
            /\ chunk.fill[i][j] = rows[request.rows[i]].table[block + j]

FillIsWhole(rows, request, chunk) ==
    LET block == chunk.start \div BlockSize IN
    \A i \in 1 .. Len(request.rows), j \in 1 .. NumBlocks(chunk.size) :
        block + j <= Mapped(rows[request.rows[i]]) =>
            /\ i \in 1 .. Len(chunk.fill) /\ j <= Len(chunk.fill[i])
            /\ chunk.fill[i][j] = rows[request.rows[i]].table[block + j]

ContextIsOf(rows, request, chunk) ==
    \A i \in 1 .. chunk.start \div BlockSize :
        /\ i <= Mapped(rows[request.rows[1]])
        /\ request.context[i] = rows[request.rows[1]].table[i]

ChunkIsOk(rows, request, c) ==
    LET chunk == request.chunks[c] IN
    /\ chunk.start \in Nat /\ chunk.start % BlockSize = 0 /\ chunk.size \in Nat \ {0}
    /\ FillIsOf(rows, request, chunk) /\ FillIsWhole(rows, request, chunk)
    /\ c = Len(request.chunks) =>
            \A i \in 1 .. Len(request.rows) : rows[request.rows[i]].length <= chunk.start + chunk.size
    /\ c < Len(request.chunks) =>
            chunk.size % BlockSize = 0 /\ request.chunks[c + 1].start = chunk.start + chunk.size
    /\ request.kind = "chunked" => ContextIsOf(rows, request, chunk)
    /\ request.kind # "chunked" => chunk.start = 0

RequestIsOk(rows, request) ==
    /\ request.rows \in Seq(Working(rows)) /\ Len(request.rows) \in Nat \ {0}
    /\ request.padded \in Nat /\ Len(request.rows) <= request.padded
    /\ Len(request.chunks) \in Nat \ {0}
    /\ request.kind # "batched" => Len(request.rows) = 1
    /\ request.kind = "chunked" => request.chunks[1].start = rows[request.rows[1]].cached
    /\ \A c \in 1 .. Len(request.chunks) : ChunkIsOk(rows, request, c)

LEMMA PagesOfRow ==
    ASSUME NEW row, GoodRow(row), NEW j \in Nat \ {0}
    PROVE  /\ j <= Len(PageTable(row, Skip)) /\ PageTable(row, Skip)[j] # Skip =>
                j <= Mapped(row) /\ PageTable(row, Skip)[j] = row.table[j]
           /\ j <= Mapped(row) => j <= Len(PageTable(row, Skip)) /\ PageTable(row, Skip)[j] = row.table[j]
<1>1. PrefillWidth \in Nat /\ RawWidth \in Nat /\ RawWidth <= PrefillWidth
  BY WidthOrder
<1>2. /\ Len(PageTable(row, Skip)) = PrefillWidth
      /\ \A i \in 1 .. PrefillWidth : PageTable(row, Skip)[i] = IF i <= Mapped(row) THEN row.table[i] ELSE Skip
  BY PageTableFacts
<1>3. j \in 1 .. PrefillWidth \/ ~(j <= PrefillWidth)
  BY <1>1
<1>4. Mapped(row) \in Nat /\ Mapped(row) <= PrefillWidth
  BY <1>1 DEF GoodRow
<1> QED BY <1>1, <1>2, <1>3, <1>4

LEMMA BatchedIsOk ==
    ASSUME NEW rows, \A r \in Working(rows) : GoodRow(rows[r]),
           NEW wave, IsWave(rows, wave), NEW request, request = BatchedRequest(rows, wave)
    PROVE  RequestIsOk(rows, request)
<1> DEFINE chunk == request.chunks[1]
           bucket == Bucket(rows[wave.rows[1]])
<1>1. /\ request.rows = wave.rows /\ request.kind = "batched" /\ request.padded = wave.size
      /\ Len(request.chunks) = 1 /\ chunk.start = 0 /\ chunk.size = bucket
      /\ chunk.fill = BatchedFill(rows, wave)
  BY BatchedFields
<1> HIDE DEF chunk, bucket
<1>2. wave.size \in Nat /\ Len(wave.rows) \in Nat \ {0} /\ Len(wave.rows) <= wave.size
  <2>1. wave.size \in BatchSizes /\ Len(wave.rows) \in 1 .. wave.size
    BY DEF IsWave
  <2>2. wave.size \in Nat \ {0}
    BY <2>1, Geometry
  <2> QED BY <2>1, <2>2
<1>3. ASSUME NEW i \in 1 .. Len(wave.rows)
      PROVE  /\ GoodRow(rows[wave.rows[i]]) /\ bucket \in Nat \ {0} /\ rows[wave.rows[i]].length <= bucket
  <2> DEFINE row == rows[wave.rows[i]]
  <2>1. wave.rows[i] \in Working(rows)
    BY DEF IsWave
  <2>2. GoodRow(row) /\ row.cached = 0 /\ Bucket(row) = bucket
    BY <2>1 DEF IsWave, bucket
  <2> HIDE DEF row
  <2>3. IsRow(row)
    BY <2>2 DEF GoodRow
  <2>4. Uncached(row) = row.length
    BY <2>2, <2>3 DEF IsRow, Uncached
  <2>5. bucket \in Nat \ {0} /\ row.length <= bucket
    BY <2>2, <2>3, <2>4, ChunkFacts
  <2> QED BY <2>2, <2>5 DEF row
<1>4. bucket \in Nat \ {0} /\ 0 % BlockSize = 0 /\ 0 \div BlockSize = 0 /\ NumBlocks(bucket) \in Nat
  <2>1. 1 \in 1 .. Len(wave.rows)
    BY <1>2
  <2>2. bucket \in Nat \ {0}
    BY <1>3, <2>1
  <2> QED BY <2>2, Geometry, BlocksOfLength
<1>5. /\ Len(chunk.fill) = wave.size
      /\ \A i \in 1 .. wave.size :
            chunk.fill[i] = IF i <= Len(wave.rows) THEN PageTable(rows[wave.rows[i]], Skip) ELSE NoRow
  BY <1>1, <1>2 DEF BatchedFill
<1>6. FillIsOf(rows, request, chunk)
  <2> SUFFICES ASSUME NEW i \in 1 .. wave.size, NEW j \in 1 .. NumBlocks(bucket),
                      j <= Len(chunk.fill[i]), chunk.fill[i][j] # Skip
               PROVE  /\ i \in 1 .. Len(wave.rows) /\ j <= Mapped(rows[wave.rows[i]])
                      /\ chunk.fill[i][j] = rows[wave.rows[i]].table[j]
    BY <1>1, <1>4, <1>5 DEF FillIsOf
  <2>1. i \in 1 .. Len(wave.rows)
    <3> SUFFICES ASSUME ~(i <= Len(wave.rows)) PROVE FALSE
      BY <1>2
    <3>1. chunk.fill[i] = NoRow
      BY <1>5
    <3>2. Len(NoRow) = PrefillWidth /\ \A l \in 1 .. PrefillWidth : NoRow[l] = Skip
      BY WidthFacts DEF NoRow
    <3> QED BY <1>4, <3>1, <3>2, WidthFacts
  <2>2. chunk.fill[i] = PageTable(rows[wave.rows[i]], Skip) /\ GoodRow(rows[wave.rows[i]])
    BY <1>2, <1>3, <1>5, <2>1
  <2>3. j \in Nat \ {0}
    BY <1>4
  <2> QED BY <2>1, <2>2, <2>3, PagesOfRow
<1>7. FillIsWhole(rows, request, chunk)
  <2> SUFFICES ASSUME NEW i \in 1 .. Len(wave.rows), NEW j \in 1 .. NumBlocks(bucket), j <= Mapped(rows[wave.rows[i]])
               PROVE  /\ i \in 1 .. wave.size /\ j <= Len(chunk.fill[i])
                      /\ chunk.fill[i][j] = rows[wave.rows[i]].table[j]
    BY <1>1, <1>4, <1>5 DEF FillIsWhole
  <2>1. i \in 1 .. wave.size
    BY <1>2
  <2>2. chunk.fill[i] = PageTable(rows[wave.rows[i]], Skip) /\ GoodRow(rows[wave.rows[i]])
    BY <1>2, <1>3, <1>5, <2>1
  <2>3. j \in Nat \ {0}
    BY <1>4
  <2> QED BY <2>1, <2>2, <2>3, PagesOfRow
<1>8. ChunkIsOk(rows, request, 1)
  <2>1. \A i \in 1 .. Len(request.rows) : rows[request.rows[i]].length <= chunk.start + chunk.size
    <3> SUFFICES ASSUME NEW i \in 1 .. Len(wave.rows) PROVE rows[wave.rows[i]].length <= 0 + bucket
      BY <1>1
    <3> QED BY <1>3, <1>4
  <2> QED BY <1>1, <1>4, <1>6, <1>7, <2>1 DEF ChunkIsOk, chunk
<1>9. wave.rows \in Seq(Working(rows))
  BY DEF IsWave
<1> QED BY <1>1, <1>2, <1>8, <1>9 DEF RequestIsOk

LEMMA SingleIsOk ==
    ASSUME NEW rows, NEW r \in Working(rows), GoodRow(rows[r]),
           NEW request, request = SingleRequest(rows, r)
    PROVE  RequestIsOk(rows, request)
<1> DEFINE row == rows[r]
           bucket == Bucket(row)
<1>0. GoodRow(row) /\ IsRow(row)
  BY DEF GoodRow
<1>1. /\ request.rows = <<r>> /\ Len(request.rows) = 1 /\ request.rows[1] = r
      /\ request.kind = (IF UsesChunks(row) THEN "chunked" ELSE "single") /\ request.padded = 1
      /\ UsesChunks(row) => request.chunks = ChunksOf(row) /\ request.context = PageTable(row, 0)
      /\ ~UsesChunks(row) => /\ Len(request.chunks) = 1 /\ request.chunks[1].start = 0
                             /\ request.chunks[1].size = bucket
                             /\ request.chunks[1].fill = <<PageTable(row, Skip)>>
  BY SingleFields
<1>2. request.rows \in Seq(Working(rows))
  BY <1>1
<1>3. bucket \in Nat \ {0} /\ Uncached(row) <= bucket /\ Chunking(row, ChunksOf(row), ChunkSize(bucket))
  BY <1>0, ChunkFacts
<1>a. \A i \in 1 .. 1 : i = 1
  OBVIOUS
<1>b. r = request.rows[1] /\ rows[request.rows[1]] = row
  BY <1>1
<1>4. CASE ~UsesChunks(row)
  <2> DEFINE chunk == request.chunks[1]
  <2>1. row.cached = 0 /\ Uncached(row) = row.length /\ row.length <= bucket
    BY <1>0, <1>3, <1>4 DEF UsesChunks, IsRow, Uncached
  <2>2. /\ chunk.start = 0 /\ chunk.size = bucket /\ chunk.fill = <<PageTable(row, Skip)>>
        /\ Len(request.chunks) = 1 /\ request.kind = "single"
    BY <1>1, <1>4
  <2> HIDE DEF chunk, bucket, row
  <2>3. Len(chunk.fill) = 1 /\ chunk.fill[1] = PageTable(row, Skip)
    BY <2>2
  <2>4. 0 % BlockSize = 0 /\ 0 \div BlockSize = 0 /\ NumBlocks(bucket) \in Nat
    BY <1>3, Geometry, BlocksOfLength
  <2>5. \A j \in 1 .. NumBlocks(bucket) :
            /\ j <= Len(PageTable(row, Skip)) /\ PageTable(row, Skip)[j] # Skip =>
                    j <= Mapped(row) /\ PageTable(row, Skip)[j] = row.table[j]
            /\ j <= Mapped(row) => j <= Len(PageTable(row, Skip)) /\ PageTable(row, Skip)[j] = row.table[j]
    BY <1>0, <2>4, PagesOfRow
  <2>6. FillIsOf(rows, request, chunk)
    <3> SUFFICES ASSUME NEW i \in 1 .. Len(chunk.fill), NEW j \in 1 .. NumBlocks(chunk.size),
                        j <= Len(chunk.fill[i]), chunk.fill[i][j] # Skip
                 PROVE  /\ i \in 1 .. Len(request.rows)
                        /\ (chunk.start \div BlockSize) + j <= Mapped(rows[request.rows[i]])
                        /\ chunk.fill[i][j] = rows[request.rows[i]].table[(chunk.start \div BlockSize) + j]
      BY DEF FillIsOf
    <3>1. i = 1 /\ j \in 1 .. NumBlocks(bucket) /\ 0 + j = j
      BY <2>2, <2>3, <2>4
    <3> QED BY <1>1, <1>b, <2>2, <2>3, <2>4, <2>5, <3>1
  <2>7. FillIsWhole(rows, request, chunk)
    <3> SUFFICES ASSUME NEW i \in 1 .. Len(request.rows), NEW j \in 1 .. NumBlocks(chunk.size),
                        (chunk.start \div BlockSize) + j <= Mapped(rows[request.rows[i]])
                 PROVE  /\ i \in 1 .. Len(chunk.fill) /\ j <= Len(chunk.fill[i])
                        /\ chunk.fill[i][j] = rows[request.rows[i]].table[(chunk.start \div BlockSize) + j]
      BY DEF FillIsWhole
    <3>1. i = 1 /\ j \in 1 .. NumBlocks(bucket) /\ 0 + j = j
      BY <1>1, <2>2, <2>4
    <3> QED BY <1>b, <2>2, <2>3, <2>4, <2>5, <3>1
  <2>8. ChunkIsOk(rows, request, 1)
    <3>1. \A i \in 1 .. Len(request.rows) : rows[request.rows[i]].length <= chunk.start + chunk.size
      <4>1. rows[request.rows[1]].length <= 0 + bucket
        BY <1>3, <1>b, <2>1
      <4> QED BY <1>1, <1>a, <2>2, <4>1
    <3> QED BY <1>3, <2>2, <2>4, <2>6, <2>7, <3>1 DEF ChunkIsOk, chunk
  <2> QED BY <1>1, <1>2, <2>2, <2>8 DEF RequestIsOk
<1>5. CASE UsesChunks(row)
  <2> DEFINE size == ChunkSize(bucket)
             chunks == ChunksOf(row)
             n == Len(chunks)
  <2>1. /\ request.kind = "chunked" /\ request.chunks = chunks /\ request.context = PageTable(row, 0)
    BY <1>1, <1>5
  <2>2. Chunking(row, chunks, size)
    BY <1>3
  <2> HIDE DEF chunks, size, bucket, row
  <2>3. n \in Nat \ {0} /\ chunks[1].start = row.cached /\ size \in Nat \ {0} /\ NumBlocks(size) \in Nat
    BY <2>2, BlocksOfLength DEF Chunking
  <2>4. ASSUME NEW c \in 1 .. n PROVE ChunkIsOk(rows, request, c)
    <3> DEFINE chunk == chunks[c]
               block == chunk.start \div BlockSize
    <3>1. /\ chunk.size = size /\ chunk.start \in Nat /\ chunk.start < row.length /\ chunk.start % BlockSize = 0
          /\ chunk.fill = <<FillView(row, block, size)>>
          /\ c < n => chunks[c + 1].start = chunk.start + size /\ size % BlockSize = 0
          /\ c = n => row.length <= chunk.start + size
      BY <2>2 DEF Chunking
    <3>2. block \in Nat /\ chunk.start = block * BlockSize
      BY <3>1, Geometry
    <3> HIDE DEF chunk, block
    <3>3. Len(chunk.fill) = 1 /\ chunk.fill[1] = FillView(row, block, size)
      BY <3>1
    <3>4. /\ Len(chunk.fill[1]) = NumBlocks(size)
          /\ \A j \in 1 .. NumBlocks(size) :
                chunk.fill[1][j] = IF block + j <= Mapped(row) THEN row.table[block + j] ELSE Skip
      BY <2>3, <3>3, FillViewFacts
    <3>5. FillIsOf(rows, request, chunk)
      <4> SUFFICES ASSUME NEW i \in 1 .. Len(chunk.fill), NEW j \in 1 .. NumBlocks(chunk.size),
                          j <= Len(chunk.fill[i]), chunk.fill[i][j] # Skip
                   PROVE  /\ i \in 1 .. Len(request.rows) /\ block + j <= Mapped(rows[request.rows[i]])
                          /\ chunk.fill[i][j] = rows[request.rows[i]].table[block + j]
        BY DEF FillIsOf, block
      <4>1. i = 1 /\ j \in 1 .. NumBlocks(size)
        BY <3>1, <3>3
      <4> QED BY <1>1, <1>b, <3>4, <4>1
    <3>6. FillIsWhole(rows, request, chunk)
      <4> SUFFICES ASSUME NEW i \in 1 .. Len(request.rows), NEW j \in 1 .. NumBlocks(chunk.size),
                          block + j <= Mapped(rows[request.rows[i]])
                   PROVE  /\ i \in 1 .. Len(chunk.fill) /\ j <= Len(chunk.fill[i])
                          /\ chunk.fill[i][j] = rows[request.rows[i]].table[block + j]
        BY DEF FillIsWhole, block
      <4>1. i = 1 /\ j \in 1 .. NumBlocks(size)
        BY <1>1, <3>1
      <4> QED BY <1>b, <2>3, <3>3, <3>4, <4>1
    <3>7. ContextIsOf(rows, request, chunk)
      <4> SUFFICES ASSUME NEW i \in 1 .. block
                   PROVE  i <= Mapped(row) /\ request.context[i] = row.table[i]
        BY <1>b DEF ContextIsOf, block
      <4>1. i <= Mapped(row)
        <5>1. row.length \in Nat /\ row.length <= Mapped(row) * BlockSize /\ Mapped(row) \in Nat
          BY <1>0, BlocksOfLength DEF IsRow, Mapped
        <5>2. block * BlockSize < Mapped(row) * BlockSize
          BY <3>1, <3>2, <5>1, Geometry
        <5>3. ~(Mapped(row) <= block)
          <6> SUFFICES ASSUME Mapped(row) <= block PROVE FALSE
            OBVIOUS
          <6>1. Mapped(row) * BlockSize <= block * BlockSize
            BY <3>2, <5>1, Geometry
          <6>2. Mapped(row) * BlockSize \in Nat /\ block * BlockSize \in Nat
            BY <3>2, <5>1, Geometry
          <6> QED BY <5>2, <6>1, <6>2
        <5> QED BY <3>2, <5>1, <5>3
      <4>2. i \in 1 .. PrefillWidth
        <5>1. RawWidth \in Nat /\ PrefillWidth \in Nat /\ RawWidth <= PrefillWidth
          BY WidthOrder
        <5> QED BY <1>0, <3>2, <4>1, <5>1 DEF GoodRow
      <4> QED BY <2>1, <4>1, <4>2, PageTableFacts
    <3>8. c = n => \A i \in 1 .. Len(request.rows) : rows[request.rows[i]].length <= chunk.start + chunk.size
      BY <1>1, <1>b, <3>1
    <3> QED BY <2>1, <2>3, <3>1, <3>5, <3>6, <3>7, <3>8 DEF ChunkIsOk, chunk
  <2> QED BY <1>1, <1>2, <1>b, <2>1, <2>3, <2>4 DEF RequestIsOk
<1> QED BY <1>4, <1>5

LEMMA EveryRequestIsOk ==
    ASSUME NEW rows, \A r \in Working(rows) : GoodRow(rows[r]), NEW request, IsRequest(rows, request)
    PROVE  RequestIsOk(rows, request)
<1>1. CASE \E size \in BatchSizes :
            /\ IsWave(rows, [rows |-> request.rows, size |-> size])
            /\ request = BatchedRequest(rows, [rows |-> request.rows, size |-> size])
  <2>1. PICK wave : IsWave(rows, wave) /\ request = BatchedRequest(rows, wave)
    BY <1>1
  <2> QED BY <2>1, BatchedIsOk
<1>2. CASE \E r \in Working(rows) : request = SingleRequest(rows, r)
  BY <1>2, SingleIsOk
<1> QED BY <1>1, <1>2 DEF IsRequest

-----------------------------------------------------------------------------
(* The cache. *)

DoneRow(r) == \E i \in 1 .. at[1] - 1 : \E k \in 1 .. Len(call.plan[i].rows) : call.plan[i].rows[k] = r
HeldBy(s) == \A i \in BlocksIn(s) : cache[tables[s][i]] = BlockOf(running[s], i)

PlanInv ==
    phase = "running" =>
        /\ PlanShape(call.rows, call.plan)
        /\ at \in Nat \X Nat /\ at[1] \in 1 .. Len(call.plan) + 1
        /\ Runnable => at[2] \in 1 .. Len(Request.chunks)

\* Within a row, a chunk finds what the chunks before it have written.
ChunksBefore == Runnable /\ at[2] # 1 => HasContext

CacheInv == AdmissionInv /\ PlanInv /\ CacheHoldsPrompts /\ ChunksBefore

LEMMA EveryRowIsGood ==
    ASSUME AdmissionInv
    PROVE  /\ Working(call.rows) = 1 .. Len(call.rows) /\ Len(call.rows) \in Nat
           /\ \A r \in Working(call.rows) : GoodRow(call.rows[r])
<1>1. Working(call.rows) = 1 .. Len(call.rows)
  BY RowFacts DEF Working
<1>2. \A r \in 1 .. Len(call.rows) : GoodRow(call.rows[r])
  BY RowFacts DEF GoodRow, IsRow
<1>3. Len(call.rows) \in Nat
  BY DEF AdmissionInv, CallTypes
<1> QED BY <1>1, <1>2, <1>3

LEMMA PlanIsOk ==
    ASSUME AdmissionInv, PlanInv, phase = "running"
    PROVE  /\ Len(call.plan) \in Nat /\ RowsApart(call.plan)
           /\ \A i \in 1 .. Len(call.plan) : RequestIsOk(call.rows, call.plan[i])
<1>1. PlanShape(call.rows, call.plan)
  BY DEF PlanInv
<1>2. \A i \in 1 .. Len(call.plan) : IsRequest(call.rows, call.plan[i])
  BY <1>1 DEF PlanShape
<1>3. \A r \in Working(call.rows) : GoodRow(call.rows[r])
  BY EveryRowIsGood
<1> QED BY <1>1, <1>2, <1>3, EveryRequestIsOk DEF PlanShape

LEMMA RequestNow ==
    ASSUME AdmissionInv, PlanInv, Runnable
    PROVE  /\ at[1] \in 1 .. Len(call.plan) /\ at[2] \in 1 .. Len(Request.chunks)
           /\ RequestIsOk(call.rows, Request) /\ ChunkIsOk(call.rows, Request, at[2])
           /\ Len(Request.chunks) \in Nat \ {0} /\ Len(Request.rows) \in Nat \ {0}
           /\ \A k \in 1 .. Len(Request.rows) :
                /\ Request.rows[k] \in 1 .. Len(call.rows)
                /\ GoodRow(call.rows[Request.rows[k]])
<1>1. phase = "running" /\ at[1] <= Len(call.plan)
  BY DEF Runnable
<1>2. at[1] \in 1 .. Len(call.plan) /\ at[2] \in 1 .. Len(Request.chunks)
  BY <1>1, PlanIsOk DEF PlanInv
<1>3. RequestIsOk(call.rows, Request)
  BY <1>1, <1>2, PlanIsOk DEF Request
<1>4. ChunkIsOk(call.rows, Request, at[2])
  BY <1>2, <1>3 DEF RequestIsOk
<1>5. /\ Len(Request.chunks) \in Nat \ {0} /\ Len(Request.rows) \in Nat \ {0}
      /\ Request.rows \in Seq(Working(call.rows))
  BY <1>3 DEF RequestIsOk
<1>6. \A k \in 1 .. Len(Request.rows) : Request.rows[k] \in Working(call.rows)
  BY <1>5
<1> QED BY <1>2, <1>3, <1>4, <1>5, <1>6, EveryRowIsGood

LEMMA PrefilledMeans ==
    ASSUME AdmissionInv, PlanInv, NEW s \in Slots
    PROVE  Prefilled(s) <=> /\ s \in Busy
                            /\ \A r \in 1 .. Len(call.rows) :
                                call.rows[r].slot = s => phase = "running" /\ DoneRow(r)
<1>1. ASSUME phase = "running", NEW i \in 1 .. at[1] - 1, NEW r
      PROVE  r \in ToSet(call.plan[i].rows) <=> \E k \in 1 .. Len(call.plan[i].rows) : call.plan[i].rows[k] = r
  <2>1. i \in 1 .. Len(call.plan)
    BY <1>1, PlanIsOk DEF PlanInv
  <2>2. call.plan[i].rows \in Seq(Working(call.rows))
    BY <1>1, <2>1, PlanIsOk DEF RequestIsOk
  <2>3. DOMAIN call.plan[i].rows = 1 .. Len(call.plan[i].rows)
    BY <2>2
  <2> QED BY <2>3 DEF ToSet
<1> QED BY ZenonT(40), <1>1 DEF Prefilled, DoneRow, Busy

\* What the row of a slot is in the call and in the scheduler's tables.
LEMMA SlotOfRow ==
    ASSUME AdmissionInv, NEW r \in 1 .. Len(call.rows), NEW s, s = call.rows[r].slot
    PROVE  /\ s \in Busy /\ s \in Slots /\ call.rows[r].table = tables[s] /\ PromptAt(r) = running[s]
           /\ BlocksIn(s) = 1 .. Mapped(call.rows[r])
           /\ \A i \in BlocksIn(s) : tables[s][i] \in Blocks
           /\ \A q \in 1 .. Len(call.rows) : call.rows[q].slot = s => q = r
<1>1. s \in Busy /\ call.rows[r].table = tables[s] /\ call.rows[r].length = LengthOf[running[s]]
      /\ \A q \in 1 .. Len(call.rows) : call.rows[q].slot = s => q = r
  BY DEF AdmissionInv, RowsAreAdmitted
<1>2. \A i \in BlocksIn(s) : tables[s][i] \in Blocks
  BY <1>1, UsedFacts DEF AdmissionInv
<1> QED BY <1>1, <1>2 DEF PromptAt, BlocksIn, Mapped, Busy

Reached(b) == \E e \in Entries : Chunk.fill[e[1]][e[2]] = b

LEMMA FilledFacts ==
    ASSUME AdmissionInv, PlanInv, Runnable, HasContext, NEW b \in Blocks
    PROVE  /\ ~Reached(b) => Filled[b] = cache[b]
           /\ Reached(b) => \E s \in Busy : \E i \in BlocksIn(s) :
                                tables[s][i] = b /\ Filled[b] = BlockOf(running[s], i)
<1> DEFINE R == {e \in Entries : Chunk.fill[e[1]][e[2]] = b}
           e == CHOOSE x \in R : TRUE
<1>1. Filled[b] = IF R = {} THEN cache[b] ELSE Content(HasContext, e[1], e[2])
  BY DEF Filled
<1>2. Reached(b) <=> R # {}
  BY DEF Reached
<1>3. ASSUME Reached(b)
      PROVE  \E s \in Busy : \E i \in BlocksIn(s) : tables[s][i] = b /\ Filled[b] = BlockOf(running[s], i)
  <2>1. e \in R
    BY <1>2, <1>3
  <2>2. Filled[b] = Content(HasContext, e[1], e[2])
    BY ZenonT(40), <1>1, <2>1
  <2>3. e \in Entries /\ Chunk.fill[e[1]][e[2]] = b
    BY ZenonT(40), <2>1
  <2> HIDE DEF e, R
  <2>4. /\ e[1] \in 1 .. Len(Chunk.fill) /\ e[2] \in 1 .. NumBlocks(Chunk.size)
        /\ e[2] <= Len(Chunk.fill[e[1]]) /\ Chunk.fill[e[1]][e[2]] # Skip
    BY <2>3 DEF Entries
  <2> DEFINE block == Chunk.start \div BlockSize
             r == Request.rows[e[1]]
             s == call.rows[r].slot
  <2>5. FillIsOf(call.rows, Request, Chunk)
    BY RequestNow DEF ChunkIsOk, Chunk
  <2>6. /\ e[1] \in 1 .. Len(Request.rows) /\ block + e[2] <= Mapped(call.rows[r])
        /\ b = call.rows[r].table[block + e[2]]
    BY <2>3, <2>4, <2>5 DEF FillIsOf
  <2>7. block \in Nat /\ e[2] \in Nat \ {0} /\ Chunk.start \in Nat
    <3>1. Chunk.start \in Nat /\ Chunk.size \in Nat
      BY RequestNow DEF ChunkIsOk, Chunk
    <3>2. NumBlocks(Chunk.size) \in Nat
      BY <3>1, BlocksOfLength
    <3>3. e[2] \in Nat \ {0}
      BY <2>4, <3>2
    <3>4. block \in Nat
      BY <3>1, Geometry
    <3> QED BY <3>1, <3>3, <3>4
  <2>8. r \in 1 .. Len(call.rows) /\ Len(Request.rows) \in Nat
    BY <2>6, RequestNow
  <2>a. /\ s \in Busy /\ call.rows[r].table = tables[s] /\ PromptAt(r) = running[s]
        /\ BlocksIn(s) = 1 .. Mapped(call.rows[r])
    BY <2>8, SlotOfRow
  <2>b. Mapped(call.rows[r]) \in Nat
    BY <2>8, RowFacts
  <2>9. /\ s \in Busy /\ call.rows[r].table = tables[s] /\ PromptAt(r) = running[s]
        /\ BlocksIn(s) = 1 .. Mapped(call.rows[r]) /\ Mapped(call.rows[r]) \in Nat
    BY <2>a, <2>b
  <2>10. block + e[2] \in BlocksIn(s)
    BY <2>6, <2>7, <2>9
  <2>11. Content(HasContext, e[1], e[2]) = BlockOf(running[s], block + e[2])
    <3>1. ~(e[1] > Len(Request.rows)) /\ ~(block + e[2] > Mapped(call.rows[r]))
      BY <2>6, <2>7, <2>8, <2>9
    <3> QED BY <2>9, <3>1, HasContext DEF Content, Mapped
  <2> QED BY ZenonT(40), <2>2, <2>6, <2>9, <2>10, <2>11
<1> QED BY <1>1, <1>2, <1>3

LEMMA FilledKeeps ==
    ASSUME AdmissionInv, PlanInv, Runnable, HasContext, NEW s \in Busy, NEW i \in BlocksIn(s),
           cache[tables[s][i]] = BlockOf(running[s], i) \/ Reached(tables[s][i])
    PROVE  Filled[tables[s][i]] = BlockOf(running[s], i)
<1>1. tables[s][i] \in Blocks
  BY UsedFacts DEF AdmissionInv
<1>2. CASE ~Reached(tables[s][i])
  BY <1>1, <1>2, FilledFacts
<1>3. CASE Reached(tables[s][i])
  <2>1. PICK t \in Busy : \E j \in BlocksIn(t) :
            tables[t][j] = tables[s][i] /\ Filled[tables[s][i]] = BlockOf(running[t], j)
    BY <1>1, <1>3, FilledFacts
  <2>2. PICK j \in BlocksIn(t) :
            tables[t][j] = tables[s][i] /\ Filled[tables[s][i]] = BlockOf(running[t], j)
    BY <2>1
  <2>3. BlockOf(running[t], j) = BlockOf(running[s], i)
    BY <2>2 DEF AdmissionInv, BlocksAreShared
  <2> QED BY <2>2, <2>3
<1> QED BY <1>2, <1>3

LEMMA WholeBlocks ==
    ASSUME NEW n \in Nat
    PROVE  /\ n \div BlockSize \in Nat
           /\ n % BlockSize = 0 => n = (n \div BlockSize) * BlockSize
BY Geometry

LEMMA FillReaches ==
    ASSUME AdmissionInv, PlanInv, Runnable, NEW k \in 1 .. Len(Request.rows),
           NEW j \in 1 .. NumBlocks(Chunk.size), NEW r, r = Request.rows[k],
           Chunk.start \div BlockSize + j <= Mapped(call.rows[r])
    PROVE  Reached(call.rows[r].table[Chunk.start \div BlockSize + j])
<1> DEFINE block == Chunk.start \div BlockSize
<1>1. Chunk.start \in Nat /\ Chunk.size \in Nat /\ FillIsWhole(call.rows, Request, Chunk)
  BY RequestNow DEF ChunkIsOk, Chunk
<1>2. /\ k \in 1 .. Len(Chunk.fill) /\ j <= Len(Chunk.fill[k])
      /\ Chunk.fill[k][j] = call.rows[r].table[block + j]
  BY <1>1 DEF FillIsWhole
<1>3. r \in 1 .. Len(call.rows)
  BY RequestNow
<1>4. /\ Mapped(call.rows[r]) \in Nat /\ Mapped(call.rows[r]) <= RawWidth
      /\ call.rows[r].table \in [1 .. RawWidth -> Blocks]
  BY <1>3, RowFacts
<1>5. block + j \in 1 .. RawWidth
  <2>1. block \in Nat
    BY <1>1, Geometry
  <2>2. NumBlocks(Chunk.size) \in Nat
    BY <1>1, BlocksOfLength
  <2>3. j \in Nat \ {0} /\ RawWidth \in Nat
    BY <2>2, WidthFacts
  <2>4. block + j <= Mapped(call.rows[r])
    OBVIOUS
  <2> HIDE DEF block
  <2> QED BY <1>4, <2>1, <2>3, <2>4
<1>6. Chunk.fill[k][j] \in Blocks
  BY <1>2, <1>4, <1>5
<1>7. Chunk.fill[k][j] # Skip
  BY <1>6, Geometry DEF Blocks, Skip
<1>8. <<k, j>> \in Entries
  BY SMTT(30), <1>2, <1>7 DEF Entries
<1> QED BY ZenonT(40), <1>2, <1>8 DEF Reached

\* Once a chunk has run, the blocks of its rows hold their prompts up to the end of the chunk.
LEMMA FilledSoFar ==
    ASSUME AdmissionInv, PlanInv, Runnable, HasContext, NEW k \in 1 .. Len(Request.rows),
           NEW s, s = call.rows[Request.rows[k]].slot, NEW i \in BlocksIn(s),
           i <= Chunk.start \div BlockSize + NumBlocks(Chunk.size)
    PROVE  Filled[tables[s][i]] = BlockOf(running[s], i)
<1> DEFINE block == Chunk.start \div BlockSize
           r == Request.rows[k]
<1>1. r \in 1 .. Len(call.rows)
  BY RequestNow
<1>2. /\ s \in Busy /\ call.rows[r].table = tables[s] /\ PromptAt(r) = running[s]
      /\ BlocksIn(s) = 1 .. Mapped(call.rows[r])
  BY <1>1, SlotOfRow
<1>3. Mapped(call.rows[r]) \in Nat
  BY <1>1, RowFacts
<1>4. /\ Chunk.start \in Nat /\ Chunk.size \in Nat
      /\ Request.kind = "chunked" => ContextIsOf(call.rows, Request, Chunk)
      /\ Request.kind # "chunked" => Chunk.start = 0
  BY RequestNow DEF ChunkIsOk, Chunk
<1>5. block \in Nat /\ NumBlocks(Chunk.size) \in Nat
  BY <1>4, WholeBlocks, BlocksOfLength
<1>6. Request.kind # "batched" => Len(Request.rows) = 1
  BY RequestNow DEF RequestIsOk
<1>a. i \in Nat \ {0} /\ i <= Mapped(call.rows[r])
  BY <1>2, <1>3
<1>b. i <= block + NumBlocks(Chunk.size)
  OBVIOUS
<1>7. CASE i <= block
  <2>1. Request.kind = "chunked"
    <3> SUFFICES ASSUME Request.kind # "chunked" PROVE FALSE
      OBVIOUS
    <3>1. block = 0
      BY <1>4, Geometry
    <3> QED BY <1>7, <1>a, <3>1
  <2>2. k = 1 /\ r = Request.rows[1]
    BY <1>6, <2>1
  <2>3. i \in 1 .. block
    BY <1>5, <1>7, <1>a
  <2>4. Request.context[i] = call.rows[r].table[i]
    BY <1>4, <2>1, <2>2, <2>3 DEF ContextIsOf
  <2>5. cache[Request.context[i]] = BlockOf(PromptAt(r), i)
    BY <2>1, <2>2, <2>3 DEF HasContext
  <2>6. cache[tables[s][i]] = BlockOf(running[s], i)
    BY <1>2, <2>4, <2>5
  <2> QED BY <1>2, <2>6, FilledKeeps
<1>8. CASE i > block
  <2>1. PICK j \in 1 .. NumBlocks(Chunk.size) : block + j = i
    <3> HIDE DEF block
    <3>1. i - block \in 1 .. NumBlocks(Chunk.size) /\ block + (i - block) = i
      BY <1>5, <1>8, <1>a, <1>b
    <3> QED BY <3>1
  <2>2. Reached(call.rows[r].table[block + j])
    BY <1>a, <2>1, FillReaches
  <2>3. Reached(tables[s][i])
    BY ZenonT(40), <1>2, <2>1, <2>2
  <2> QED BY ZenonT(40), <1>2, <2>3, FilledKeeps
<1> QED BY <1>5, <1>7, <1>8, <1>a

LEMMA LastFills ==
    ASSUME AdmissionInv, PlanInv, Runnable, HasContext, IsLastChunk, NEW k \in 1 .. Len(Request.rows),
           NEW s, s = call.rows[Request.rows[k]].slot, NEW i \in BlocksIn(s)
    PROVE  Filled[tables[s][i]] = BlockOf(running[s], i)
<1> DEFINE block == Chunk.start \div BlockSize
           row == call.rows[Request.rows[k]]
<1>1. /\ Chunk.start \in Nat /\ Chunk.size \in Nat /\ Chunk.start % BlockSize = 0
      /\ row.length <= Chunk.start + Chunk.size
  BY RequestNow DEF ChunkIsOk, Chunk, IsLastChunk
<1>2. block \in Nat /\ Chunk.start = block * BlockSize
  BY <1>1, WholeBlocks
<1>3. NumBlocks(Chunk.size) \in Nat /\ Chunk.size <= NumBlocks(Chunk.size) * BlockSize
  BY <1>1, BlocksOfLength
<1>4. row.length \in Nat /\ BlocksIn(s) = 1 .. Mapped(row) /\ Mapped(row) \in Nat
  <2>1. Request.rows[k] \in 1 .. Len(call.rows)
    BY RequestNow
  <2>2. BlocksIn(s) = 1 .. Mapped(row)
    BY <2>1, SlotOfRow
  <2>3. row.length \in Nat /\ Mapped(row) \in Nat
    BY <2>1, RowFacts
  <2> QED BY <2>2, <2>3
<1> HIDE DEF block, row
<1>5. row.length <= (block + NumBlocks(Chunk.size)) * BlockSize
  <2> DEFINE n == NumBlocks(Chunk.size)
  <2>1. (block + n) * BlockSize = block * BlockSize + n * BlockSize
    BY <1>2, <1>3, Geometry
  <2>2. block * BlockSize \in Nat /\ n * BlockSize \in Nat /\ (block + n) * BlockSize \in Nat
    BY <1>2, <1>3, Geometry
  <2> HIDE DEF n
  <2>3. Chunk.size <= n * BlockSize
    BY <1>3 DEF n
  <2>4. row.length <= (block + n) * BlockSize
    BY <1>1, <1>2, <1>4, <2>1, <2>2, <2>3
  <2> QED BY <2>4 DEF n
<1>6. Mapped(row) <= block + NumBlocks(Chunk.size)
  BY <1>2, <1>3, <1>4, <1>5, Geometry, CeilingLeast DEF Mapped, NumBlocks
<1>7. i <= block + NumBlocks(Chunk.size)
  BY <1>2, <1>3, <1>4, <1>6
<1> QED BY <1>7, FilledSoFar DEF block

LEMMA NextHasContext ==
    ASSUME AdmissionInv, PlanInv, Runnable, HasContext, ~IsLastChunk, Request.kind = "chunked",
           NEW i \in 1 .. Request.chunks[at[2] + 1].start \div BlockSize
    PROVE  Filled[Request.context[i]] = BlockOf(PromptAt(Request.rows[1]), i)
<1> DEFINE next == Request.chunks[at[2] + 1]
           block == Chunk.start \div BlockSize
           r == Request.rows[1]
           s == call.rows[r].slot
<1>1. at[2] \in 1 .. Len(Request.chunks) /\ Len(Request.chunks) \in Nat /\ RequestIsOk(call.rows, Request)
      /\ ChunkIsOk(call.rows, Request, at[2]) /\ 1 \in 1 .. Len(Request.rows)
  BY RequestNow
<1>2. at[2] < Len(Request.chunks) /\ at[2] + 1 \in 1 .. Len(Request.chunks)
  BY <1>1 DEF IsLastChunk
<1>3. ContextIsOf(call.rows, Request, next)
  BY <1>1, <1>2 DEF RequestIsOk, ChunkIsOk
<1>4. /\ Chunk.start \in Nat /\ Chunk.size \in Nat /\ Chunk.start % BlockSize = 0
      /\ Chunk.size % BlockSize = 0 /\ next.start = Chunk.start + Chunk.size
  BY <1>1, <1>2 DEF ChunkIsOk, Chunk
<1>5. NumBlocks(Chunk.size) \in Nat /\ Chunk.size = NumBlocks(Chunk.size) * BlockSize
  BY <1>4, BlocksOfLength
<1>6. block \in Nat /\ Chunk.start = block * BlockSize
  BY <1>4, WholeBlocks
<1>7. next.start \div BlockSize = block + NumBlocks(Chunk.size)
  <2> DEFINE n == NumBlocks(Chunk.size)
  <2>1. next.start = (block + n) * BlockSize
    <3>1. (block + n) * BlockSize = block * BlockSize + n * BlockSize
      BY <1>5, <1>6, Geometry
    <3> QED BY <1>4, <1>5, <1>6, <3>1
  <2>2. block + n \in Nat
    BY <1>5, <1>6
  <2> HIDE DEF n, block, next
  <2>3. PICK m \in Nat : m = block + n
    BY <2>2
  <2>4. (m * BlockSize) \div BlockSize = m
    BY <2>3, Geometry
  <2>5. next.start \div BlockSize = block + n
    BY <2>1, <2>3, <2>4
  <2> QED BY <2>5 DEF n
<1>8. i <= Mapped(call.rows[r]) /\ Request.context[i] = call.rows[r].table[i]
  BY <1>3 DEF ContextIsOf
<1>a. r \in 1 .. Len(call.rows)
  BY <1>1, RequestNow
<1>9. /\ r \in 1 .. Len(call.rows)
      /\ call.rows[r].table = tables[s] /\ PromptAt(r) = running[s] /\ BlocksIn(s) = 1 .. Mapped(call.rows[r])
  BY SMTT(30), <1>a, SlotOfRow
<1>10. Mapped(call.rows[r]) \in Nat
  BY <1>9, RowFacts
<1>11. i \in BlocksIn(s) /\ i <= block + NumBlocks(Chunk.size)
  BY <1>5, <1>6, <1>7, <1>8, <1>9, <1>10
<1>12. Filled[tables[s][i]] = BlockOf(running[s], i)
  BY <1>1, <1>11, FilledSoFar
<1> QED BY <1>8, <1>9, <1>12

\* A cached prefix is held by a request that is prefilled, or by an earlier row: single requests run
\* in source order, after the waves.
LEMMA ContextAtStart ==
    ASSUME CacheInv, Runnable, at[2] = 1
    PROVE  HasContext
<1>0. AdmissionInv /\ PlanInv /\ CacheHoldsPrompts
  BY DEF CacheInv
<1> SUFFICES ASSUME Request.kind = "chunked", NEW i \in 1 .. Chunk.start \div BlockSize
             PROVE  cache[Request.context[i]] = BlockOf(PromptAt(Request.rows[1]), i)
  BY DEF HasContext
<1> DEFINE r == Request.rows[1]
           row == call.rows[r]
<1>1. /\ RequestIsOk(call.rows, Request) /\ ChunkIsOk(call.rows, Request, 1)
      /\ at[1] \in 1 .. Len(call.plan) /\ r \in 1 .. Len(call.rows)
  BY <1>0, RequestNow
<1>2. Chunk.start = row.cached /\ ContextIsOf(call.rows, Request, Chunk)
  BY <1>1 DEF RequestIsOk, ChunkIsOk, Chunk
<1>3. Request.context[i] = row.table[i]
  BY <1>2 DEF ContextIsOf
<1>4. /\ row.cached \in Nat /\ row.cached % BlockSize = 0
      /\ row.cached > 0 => row.cached = SharedLength
      /\ row.length = LengthOf[running[row.slot]] /\ PromptAt(r) = running[row.slot]
  BY <1>0, <1>1, RowFacts DEF PromptAt
<1>5. NumBlocks(row.cached) = Chunk.start \div BlockSize
  BY <1>2, <1>4, BlocksOfLength
<1>6. row.cached > 0
  <2>1. ASSUME row.cached = 0 PROVE FALSE
    <3>1. Chunk.start \div BlockSize = 0
      BY <1>2, <2>1, Geometry
    <3> QED BY <3>1
  <2>2. row.cached \in Nat
    BY <1>4
  <2> HIDE DEF row
  <2> QED BY <2>1, <2>2
<1>7. i \in 1 .. NumBlocks(SharedLength)
  BY <1>4, <1>5, <1>6
<1>8. PICK s \in Busy :
        /\ \A q \in 1 .. Len(call.rows) : call.rows[q].slot = s => q < r
        /\ \A n \in 1 .. NumBlocks(SharedLength) :
            /\ n \in BlocksIn(s) /\ tables[s][n] = row.table[n]
            /\ BlockOf(running[s], n) = BlockOf(running[row.slot], n)
  BY <1>0, <1>1, <1>6 DEF AdmissionInv, PrefixesAreHeld
<1>9. ASSUME NEW q \in 1 .. Len(call.rows), q < r PROVE DoneRow(q)
  <2>1. q \in Working(call.rows)
    BY <1>0, EveryRowIsGood
  <2>2. PlanShape(call.rows, call.plan)
    BY <1>0 DEF PlanInv, Runnable
  <2>3. \E v \in 1 .. at[1] - 1 : \E k \in 1 .. Len(call.plan[v].rows) : call.plan[v].rows[k] = q
    BY <1>1, <1>9, <2>1, <2>2 DEF PlanShape, Request
  <2> QED BY <2>3 DEF DoneRow
<1>10. Prefilled(s)
  <2>1. s \in Slots /\ phase = "running"
    BY DEF Busy, Runnable
  <2>2. \A q \in 1 .. Len(call.rows) : call.rows[q].slot = s => DoneRow(q)
    BY <1>8, <1>9
  <2> QED BY <1>0, <2>1, <2>2, PrefilledMeans
<1>11. /\ i \in BlocksIn(s) /\ tables[s][i] = row.table[i]
       /\ BlockOf(running[s], i) = BlockOf(running[row.slot], i)
  BY <1>7, <1>8
<1>12. cache[tables[s][i]] = BlockOf(running[s], i)
  BY <1>0, <1>10, <1>11 DEF CacheHoldsPrompts, BlocksIn, Busy
<1> QED BY <1>3, <1>4, <1>11, <1>12

LEMMA CacheHasContext == CacheInv => ContextIsPresent
<1> SUFFICES ASSUME CacheInv, Runnable PROVE HasContext
  BY DEF ContextIsPresent
<1> QED BY ContextAtStart DEF CacheInv, ChunksBefore

LEMMA CacheKept ==
    ASSUME \A s \in Slots : Prefilled(s)' =>
            /\ running'[s] = running[s] /\ tables'[s] = tables[s]
            /\ \A i \in BlocksIn(s) : cache'[tables[s][i]] = BlockOf(running[s], i)
    PROVE  CacheHoldsPrompts'
BY DEF CacheHoldsPrompts, BlocksIn

\* Between calls, what is prefilled is what runs.
LEMMA PrefilledOutside ==
    ASSUME phase # "running", NEW s
    PROVE  Prefilled(s) <=> running[s] # None /\ ~InCall(s)
BY DEF Prefilled, InCall

LEMMA PrefilledHolds ==
    ASSUME CacheInv, NEW s \in Slots, Prefilled(s)
    PROVE  s \in Busy /\ \A i \in BlocksIn(s) : cache[tables[s][i]] = BlockOf(running[s], i)
BY DEF CacheInv, CacheHoldsPrompts, BlocksIn, Prefilled, Busy

LEMMA CacheAdmit ==
    ASSUME CacheInv, AdmissionInv', NEW q \in Prompts, Admit(q)
    PROVE  CacheInv'
<1>0. AdmissionInv /\ SchedulerTypes /\ CallTypes /\ TablesAreWide
  BY DEF CacheInv, AdmissionInv
<1>1. phase # "running" /\ phase' = "admitting" /\ Free # {}
  BY DEF Admit
<1> DEFINE slot == LowestSlot
           table == NewTable(q, slot)
           k == Len(call.rows) + 1
<1>2. slot \in Slots
  BY <1>1, SlotFacts
<1>3. /\ running' = [running EXCEPT ![slot] = q] /\ tables' = [tables EXCEPT ![slot] = table]
      /\ call'.rows = Append(call.rows, NewRow(q))
      /\ cache' = [b \in Blocks |-> IF b \in Used THEN cache[b] ELSE Junk]
  BY <1>0 DEF Admit, CallTypes, NewRow
<1>4. /\ call.rows \in Seq(Row) /\ Len(call'.rows) = k /\ call'.rows[k].slot = slot
      /\ \A r \in 1 .. Len(call.rows) : call'.rows[r] = call.rows[r]
  BY <1>0, <1>3 DEF CallTypes, NewRow
<1> HIDE DEF slot, table
<1>5. ASSUME NEW s \in Slots, Prefilled(s)'
      PROVE  /\ running'[s] = running[s] /\ tables'[s] = tables[s]
             /\ \A i \in BlocksIn(s) : cache'[tables[s][i]] = BlockOf(running[s], i)
  <2>1. running'[s] # None /\ \A r \in 1 .. k : call'.rows[r].slot # s
    BY <1>1, <1>4, <1>5 DEF Prefilled
  <2>2. Len(call.rows) \in Nat /\ k \in 1 .. k
    BY <1>4
  <2>3. s # slot
    BY <1>4, <2>1, <2>2
  <2>4. running'[s] = running[s] /\ tables'[s] = tables[s]
    BY <1>0, <1>2, <1>3, <2>3 DEF SchedulerTypes
  <2>5. \A r \in 1 .. Len(call.rows) : call.rows[r].slot # s
    BY <1>4, <2>1, <2>2
  <2>6. Prefilled(s)
    BY <1>1, <2>1, <2>4, <2>5, PrefilledOutside DEF InCall
  <2>7. s \in Busy /\ \A i \in BlocksIn(s) : cache[tables[s][i]] = BlockOf(running[s], i)
    BY <2>6, PrefilledHolds
  <2>8. \A i \in BlocksIn(s) : tables[s][i] \in Used /\ tables[s][i] \in Blocks
    BY <1>0, <2>7, UsedFacts
  <2> QED BY <1>3, <2>4, <2>7, <2>8
<1>6. CacheHoldsPrompts'
  BY <1>5, CacheKept
<1>7. PlanInv' /\ ChunksBefore'
  BY <1>1 DEF PlanInv, ChunksBefore, Runnable
<1> QED BY <1>6, <1>7 DEF CacheInv

\* Steps that neither run nor end anything.
LEMMA CacheQuiet ==
    ASSUME CacheInv, AdmissionInv', UNCHANGED <<running, tables, cache>>, call'.rows = call.rows,
           phase # "running", phase' # "running"
    PROVE  CacheInv'
<1>1. \A s \in Slots : Prefilled(s)' => Prefilled(s)
  BY DEF Prefilled
<1>2. CacheHoldsPrompts'
  BY <1>1, PrefilledHolds, CacheKept
<1>3. PlanInv' /\ ChunksBefore'
  BY DEF PlanInv, ChunksBefore, Runnable
<1> QED BY <1>2, <1>3 DEF CacheInv

LEMMA CacheSame ==
    ASSUME CacheInv, AdmissionInv', UNCHANGED <<running, tables, cache, call, phase, at>>
    PROVE  CacheInv'
<1>1. CacheHoldsPrompts'
  BY DEF CacheInv, CacheHoldsPrompts, Prefilled
<1>2. PlanInv'
  BY DEF CacheInv, PlanInv, Runnable, Request
<1>3. ChunksBefore'
  BY ZenonT(40) DEF CacheInv, ChunksBefore, Runnable, HasContext, Request, Chunk, PromptAt
<1> QED BY <1>1, <1>2, <1>3 DEF CacheInv

LEMMA CachePrepare ==
    ASSUME CacheInv, AdmissionInv', Prepare
    PROVE  CacheInv'
<1>0. AdmissionInv /\ SchedulerTypes /\ CallTypes
  BY DEF CacheInv, AdmissionInv
<1>1. /\ phase = "submitted" /\ phase' = "running" /\ UNCHANGED <<running, tables, cache, at>>
      /\ call'.rows = call.rows /\ call'.plan = Planned(config.policy, call.rows)
  BY <1>0 DEF Prepare, schedulerVars, deviceVars, CallTypes
<1>2. at' = <<1, 1>> /\ Len(call.rows) \in Nat
  BY <1>0, <1>1 DEF CallTypes
<1>3. LegalPolicy(config.policy)
  BY <1>0, ConfigsAssumption DEF SchedulerTypes, LegalPolicy
<1>4. PlanShape(call.rows, call'.plan)
  BY <1>1, <1>2, <1>3, PlannedFacts
<1>5. Len(call'.plan) \in Nat /\ \A i \in 1 .. Len(call'.plan) : RequestIsOk(call.rows, call'.plan[i])
  BY <1>0, <1>4, EveryRowIsGood, EveryRequestIsOk DEF PlanShape
<1>6. PlanInv'
  <2>1. Runnable' => at'[2] \in 1 .. Len(Request'.chunks)
    <3>1. Runnable' => Len(call'.plan[1].chunks) \in Nat \ {0}
      BY <1>2, <1>5 DEF Runnable, RequestIsOk
    <3> QED BY <1>2, <3>1 DEF Request
  <2>2. at' \in Nat \X Nat /\ at'[1] \in 1 .. Len(call'.plan) + 1
    BY <1>2, <1>5
  <2> QED BY <1>1, <1>4, <2>1, <2>2 DEF PlanInv
<1>7. CacheHoldsPrompts'
  <2>1. ASSUME NEW s \in Slots, Prefilled(s)' PROVE Prefilled(s)
    <3>1. running[s] # None
      BY <1>1, <2>1 DEF Prefilled
    <3>2. \A r \in 1 .. Len(call.rows) :
            call.rows[r].slot = s => \E i \in 1 .. at'[1] - 1 : r \in ToSet(call'.plan[i].rows)
      BY <1>1, <2>1 DEF Prefilled
    <3>3. ~InCall(s)
      BY <1>2, <3>2 DEF InCall
    <3> QED BY <1>1, <3>1, <3>3, PrefilledOutside
  <2> QED BY <1>1, <2>1, PrefilledHolds, CacheKept
<1>8. ChunksBefore'
  BY <1>2 DEF ChunksBefore
<1> QED BY <1>6, <1>7, <1>8 DEF CacheInv

\* A chunk of the request under way has run.
LEMMA CacheRuns ==
    ASSUME CacheInv, AdmissionInv', Runnable, cache' = Filled, UNCHANGED <<running, tables, call, phase>>,
           at' = IF IsLastChunk THEN <<at[1] + 1, 1>> ELSE <<at[1], at[2] + 1>>
    PROVE  CacheInv'
<1>0. AdmissionInv /\ PlanInv /\ phase = "running"
  BY DEF CacheInv, Runnable
<1>1. HasContext
  BY CacheHasContext DEF ContextIsPresent
<1>2. /\ at[1] \in 1 .. Len(call.plan) /\ at[2] \in 1 .. Len(Request.chunks)
      /\ Len(Request.chunks) \in Nat \ {0} /\ RequestIsOk(call.rows, Request)
  BY <1>0, RequestNow
<1>3. Len(call.plan) \in Nat /\ \A i \in 1 .. Len(call.plan) : RequestIsOk(call.rows, call.plan[i])
  BY <1>0, PlanIsOk
<1>4. PlanInv'
  <2>1. PlanShape(call.rows, call.plan)'
    BY <1>0 DEF PlanInv
  <2>2. CASE IsLastChunk
    <3>1. at' = <<at[1] + 1, 1>> /\ at[1] + 1 \in 1 .. Len(call.plan) + 1
      BY <1>2, <1>3, <2>2
    <3>2. Runnable' => Len(call.plan[at[1] + 1].chunks) \in Nat \ {0}
      BY <1>3, <3>1 DEF Runnable, RequestIsOk
    <3>3. Runnable' => at'[2] \in 1 .. Len(Request'.chunks)
      BY <3>1, <3>2 DEF Request
    <3> QED BY <2>1, <3>1, <3>3 DEF PlanInv
  <2>3. CASE ~IsLastChunk
    <3>1. at' = <<at[1], at[2] + 1>> /\ at[2] + 1 \in 1 .. Len(Request.chunks)
      BY <1>2, <2>3 DEF IsLastChunk
    <3>2. Request' = Request
      BY <3>1 DEF Request
    <3>3. at' \in Nat \X Nat /\ at'[1] \in 1 .. Len(call.plan) + 1
      BY <1>2, <1>3, <3>1
    <3> QED BY <2>1, <3>1, <3>2, <3>3 DEF PlanInv
  <2> QED BY <2>2, <2>3
<1>5. CacheHoldsPrompts'
  <2>1. ASSUME NEW s \in Slots, Prefilled(s)', NEW i \in BlocksIn(s)
        PROVE  Filled[tables[s][i]] = BlockOf(running[s], i)
    <3>1. Prefilled(s)' <=> /\ s \in Busy'
                            /\ \A r \in 1 .. Len(call.rows) : call.rows[r].slot = s => DoneRow(r)'
      <4>1. (AdmissionInv /\ PlanInv => (Prefilled(s) <=>
                /\ s \in Busy
                /\ \A r \in 1 .. Len(call.rows) : call.rows[r].slot = s => phase = "running" /\ DoneRow(r)))'
        BY PrefilledMeans, PTL
      <4> QED BY <1>0, <1>4, <4>1
    <3>2. s \in Busy
      BY <2>1, <3>1 DEF Busy
    <3>3. CASE \A r \in 1 .. Len(call.rows) : call.rows[r].slot = s => DoneRow(r)
      <4>1. Prefilled(s)
        BY <1>0, <3>2, <3>3, PrefilledMeans
      <4>2. cache[tables[s][i]] = BlockOf(running[s], i)
        BY <4>1, PrefilledHolds
      <4> QED BY <1>0, <1>1, <3>2, <4>2, FilledKeeps
    <3>4. CASE \E r \in 1 .. Len(call.rows) : call.rows[r].slot = s /\ ~DoneRow(r)
      <4>1. PICK r \in 1 .. Len(call.rows) : call.rows[r].slot = s /\ ~DoneRow(r)
        BY <3>4
      <4>2. DoneRow(r)'
        BY <2>1, <3>1, <4>1
      <4>3. PICK v \in 1 .. at'[1] - 1 : \E k \in 1 .. Len(call.plan[v].rows) : call.plan[v].rows[k] = r
        BY <4>2 DEF DoneRow
      <4>4. v \notin 1 .. at[1] - 1
        BY <4>1, <4>3 DEF DoneRow
      <4>5. IsLastChunk /\ v = at[1]
        BY <1>2, <4>3, <4>4
      <4>6. PICK k \in 1 .. Len(Request.rows) : Request.rows[k] = r
        BY <4>3, <4>5 DEF Request
      <4> QED BY <1>0, <1>1, <4>1, <4>5, <4>6, LastFills
    <3> QED BY <3>3, <3>4
  <2> QED BY <2>1, CacheKept
<1>6. ChunksBefore'
  <2> SUFFICES ASSUME ~IsLastChunk, Request'.kind = "chunked", NEW i \in 1 .. Chunk'.start \div BlockSize
               PROVE  cache'[Request'.context[i]] = BlockOf(PromptAt(Request.rows[1])', i)
    <3>1. IsLastChunk => at'[2] = 1
      OBVIOUS
    <3>2. ~IsLastChunk => Request' = Request
      BY DEF Request
    <3> QED BY <3>1, <3>2 DEF ChunksBefore, HasContext
  <2>1. Request' = Request /\ Chunk' = Request.chunks[at[2] + 1] /\ PromptAt(Request.rows[1])' = PromptAt(Request.rows[1])
    BY DEF Request, Chunk, PromptAt
  <2> QED BY <1>0, <1>1, <2>1, NextHasContext
<1> QED BY <1>4, <1>5, <1>6 DEF CacheInv

LEMMA FailsCache == Fails => cache' = cache \/ (Runnable /\ cache' = Filled)
BY DEF Fails, Refused, EagerRaises, ReplayRaises, ReplayRefused, FinishRaises, CollectRaises, deviceVars

\* A call that ends hands its slots back when it raises, and keeps them when it has run all its rows.
LEMMA CacheEnds ==
    ASSUME CacheInv, AdmissionInv', Fails \/ Return \/ (\E s \in Slots : Finish(s))
    PROVE  CacheInv'
<1>0. AdmissionInv /\ PlanInv /\ SchedulerTypes /\ CallTypes
  BY DEF CacheInv, AdmissionInv
<1>1. phase' = "idle" /\ UNCHANGED tables /\ call'.rows = <<>>
  <2>1. CASE Fails
    BY <2>1, FailsRaises DEF Raises, Ended, NoCall
  <2>2. CASE Return
    BY <2>2 DEF Return, Ended, NoCall, schedulerVars
  <2>3. ASSUME NEW s \in Slots, Finish(s) PROVE phase' = "idle" /\ UNCHANGED tables /\ call'.rows = <<>>
    BY <1>0, <2>3 DEF Finish, callVars, NoCall, CallTypes
  <2> QED BY <2>1, <2>2, <2>3
<1>2. PlanInv' /\ ChunksBefore'
  BY <1>1 DEF PlanInv, ChunksBefore, Runnable
<1>3. ASSUME NEW s \in Slots, Prefilled(s)' PROVE running'[s] = running[s] /\ Prefilled(s)
  <2>1. running'[s] # None
    BY <1>3 DEF Prefilled
  <2>2. CASE Fails
    <3>1. running'[s] = IF \E r \in 1 .. Len(call.rows) : call.rows[r].slot = s THEN None ELSE running[s]
      BY <2>2, FailsRaises DEF Raises
    <3> QED BY <2>1, <3>1 DEF Prefilled
  <2>3. CASE Return
    <3>1. phase = "running" /\ ~(at[1] <= Len(call.plan)) /\ UNCHANGED running
      BY <2>3 DEF Return, Complete, Runnable, schedulerVars
    <3>2. PlanShape(call.rows, call.plan) /\ at[1] \in 1 .. Len(call.plan) + 1 /\ Len(call.plan) \in Nat
      BY <1>0, <3>1, PlanIsOk DEF PlanInv
    <3>3. 1 .. at[1] - 1 = 1 .. Len(call.plan)
      BY <3>1, <3>2
    <3>4. ASSUME NEW r \in 1 .. Len(call.rows) PROVE DoneRow(r)
      <4>1. r \in Working(call.rows)
        BY <1>0, EveryRowIsGood
      <4> QED BY <3>2, <3>3, <4>1 DEF PlanShape, DoneRow
    <3>5. s \in Busy
      BY <2>1, <3>1 DEF Busy
    <3> QED BY <1>0, <3>1, <3>4, <3>5, PrefilledMeans
  <2>4. ASSUME NEW t \in Slots, Finish(t) PROVE running'[s] = running[s] /\ Prefilled(s)
    <3>1. phase = "idle" /\ running' = [running EXCEPT ![t] = None]
      BY <2>4 DEF Finish
    <3>2. s # t /\ running'[s] = running[s]
      BY <1>0, <2>1, <3>1 DEF SchedulerTypes
    <3>3. call.rows = <<>>
      BY <1>0, <3>1 DEF CallTypes, NoCall
    <3> QED BY <2>1, <3>2, <3>3 DEF Prefilled
  <2> QED BY <2>2, <2>3, <2>4
<1>4. ASSUME NEW s \in Slots, Prefilled(s), NEW i \in BlocksIn(s)
      PROVE  cache'[tables[s][i]] = BlockOf(running[s], i)
  <2>1. s \in Busy /\ cache[tables[s][i]] = BlockOf(running[s], i)
    BY <1>4, PrefilledHolds
  <2>2. cache' = cache \/ (Runnable /\ cache' = Filled)
    BY FailsCache DEF Return, Finish, deviceVars
  <2>3. CASE Runnable /\ cache' = Filled
    <3>1. HasContext
      BY <2>3, CacheHasContext DEF ContextIsPresent
    <3> QED BY <1>0, <2>1, <2>3, <3>1, FilledKeeps
  <2> QED BY <2>1, <2>2, <2>3
<1>5. CacheHoldsPrompts'
  BY <1>1, <1>3, <1>4, CacheKept
<1> QED BY <1>2, <1>5 DEF CacheInv

LEMMA CacheInit == PrefillInit => CacheInv
<1> SUFFICES ASSUME PrefillInit PROVE CacheInv
  OBVIOUS
<1>1. AdmissionInv
  BY AdmissionInit
<1>2. CacheHoldsPrompts
  BY DEF PrefillInit, CacheHoldsPrompts, Prefilled
<1> QED BY <1>1, <1>2 DEF PrefillInit, CacheInv, PlanInv, ChunksBefore, Runnable

LEMMA CacheStep == CacheInv /\ [PrefillNext]_prefillVars => CacheInv'
<1> SUFFICES ASSUME CacheInv, [PrefillNext]_prefillVars PROVE CacheInv'
  OBVIOUS
<1>1. AdmissionInv /\ CallTypes /\ AdmissionInv'
  BY AdmissionStep DEF CacheInv, AdmissionInv
<1>2. ASSUME NEW q \in Prompts, Admit(q) PROVE CacheInv'
  BY <1>1, <1>2, CacheAdmit
<1>3. CASE Submit \/ Cleanup
  <2>1. UNCHANGED <<running, tables, cache>> /\ call'.rows = call.rows /\ phase # "running" /\ phase' # "running"
    BY <1>1, <1>3 DEF Submit, Cleanup, schedulerVars, deviceVars, CallTypes
  <2> QED BY <1>1, <2>1, CacheQuiet
<1>4. CASE Prepare
  BY <1>1, <1>4, CachePrepare
<1>5. CASE RunEager \/ Replay
  <2>1. Runnable /\ cache' = Filled /\ UNCHANGED <<running, tables, call, phase>>
    BY <1>5 DEF RunEager, Replay, schedulerVars
  <2>2. at' = IF IsLastChunk THEN <<at[1] + 1, 1>> ELSE <<at[1], at[2] + 1>>
    BY <1>5 DEF RunEager, Replay, Advanced
  <2> QED BY <1>1, <2>1, <2>2, CacheRuns
<1>6. CASE Collect \/ UNCHANGED prefillVars
  <2>1. UNCHANGED <<running, tables, cache, call, phase, at>>
    BY <1>6 DEF Collect, prefillVars, schedulerVars, callVars, deviceVars
  <2> QED BY <1>1, <2>1, CacheSame
<1>7. CASE Fails \/ Return \/ (\E s \in Slots : Finish(s))
  BY <1>1, <1>7, CacheEnds
<1> QED BY <1>2, <1>3, <1>4, <1>5, <1>6, <1>7 DEF PrefillNext, Step, Fails

\* The plan of a call covers its rows, every prefilled prompt is in its blocks, and within a request
\* each chunk finds the ones before it: what a call does to the cache, inductively.
THEOREM CacheInvariance == PrefillSpec => []CacheInv
<1>1. PrefillInit => CacheInv
  BY CacheInit
<1>2. CacheInv /\ [PrefillNext]_prefillVars => CacheInv'
  BY CacheStep
<1> QED BY <1>1, <1>2, PTL DEF PrefillSpec

\* Every block of every prefilled prompt holds what that prompt put there, whatever the padding, the
\* stale ends of page tables, shared prefixes, waves, chunks and failures of device calls
\* (plan.py, the -1 sentinel; attention_1d.py, _kv_fill_prefill_paged).
THEOREM PrefilledPromptsStay == PrefillSpec => []CacheHoldsPrompts
<1>1. CacheInv => CacheHoldsPrompts
  BY DEF CacheInv
<1> QED BY <1>1, CacheInvariance, PTL

\* When a chunk runs, the blocks before it hold the tokens before it, also when an earlier row of the
\* same call computes them (plan.py).
THEOREM EveryChunkHasItsContext == PrefillSpec => []ContextIsPresent
<1>1. CacheInv => ContextIsPresent
  BY CacheHasContext
<1> QED BY <1>1, CacheInvariance, PTL

-----------------------------------------------------------------------------
(* What a call returns. *)

CallInv ==
    /\ faults \in Nat
    /\ phase = "running" /\ Traced => Preflighted(call.plan)

\* Unless a refresh has failed, the positions of a trace are those of its signature.
Shaped(W) ==
    W = [k \in Keys |->
            [position |-> W[k].position, signature |-> W[k].signature, output |-> W[k].output]]
Level(W) == \A k \in Keys : W[k].signature = W[k].position
WorkspaceInv == Shaped(workspace) /\ (~failed => Level(workspace))

\* The requests whose results have been read, and the results that wait, in order.
Read == at[1] - 1 - Len(pending)
Values == Seq(Prompts \cup {Wrong})
PendingInv ==
    phase = "running" =>
        /\ pending \in Seq([request : Nat, shown : Values])
        /\ Read \in Nat
        /\ \A k \in 1 .. Len(pending) : pending[k].request = Read + k
        /\ Traced => Len(pending) <= 1

\* A result shows the prompts of the rows of its request; a traced one is in the output of its trace.
Own(request, value) == \A i \in 1 .. Len(request.rows) : value[i] = PromptAt(request.rows[i])
ValueOf(result) ==
    IF Traced THEN workspace[KeyOf(call.plan[result.request])].output ELSE result.shown
ValuesInv ==
    phase = "running" =>
        \A k \in 1 .. Len(pending) : Own(call.plan[pending[k].request], ValueOf(pending[k]))

\* A token for each row of the requests read, and no other.
TokenOf(token, v, k) == token = <<call.plan[v].rows[k], PromptAt(call.plan[v].rows[k])>>
TokensInv ==
    phase = "running" =>
        /\ tokens \in Seq((1 .. Len(call.rows)) \X Prompts)
        /\ \A n \in 1 .. Len(tokens) :
            \E v \in 1 .. Read : \E k \in 1 .. Len(call.plan[v].rows) : TokenOf(tokens[n], v, k)
        /\ \A v \in 1 .. Read : \A k \in 1 .. Len(call.plan[v].rows) :
            \E n \in 1 .. Len(tokens) : TokenOf(tokens[n], v, k)
        /\ \A m, n \in 1 .. Len(tokens) : tokens[m][1] = tokens[n][1] => m = n

ResultInv == CacheInv /\ CallInv /\ WorkspaceInv /\ PendingInv /\ ValuesInv /\ TokensInv

LEMMA Outside ==
    ASSUME CacheInv', faults' \in Nat, WorkspaceInv', phase' # "running"
    PROVE  ResultInv'
BY DEF ResultInv, CallInv, PendingInv, ValuesInv, TokensInv

LEMMA FaultsCounted ==
    ASSUME faults \in Nat, [PrefillNext]_prefillVars
    PROVE  faults' \in Nat /\ (Fails /\ UNCHANGED faults => Refused \/ ReplayRefused)
<1>1. \A n \in {1, 2} : Fault(n) => faults' \in Nat /\ faults' # faults
  BY DEF Fault
<1>2. \A mine, others : ReleasedOrRetained(mine, others, 1) => Fault(1) \/ Fault(2)
  BY DEF ReleasedOrRetained
<1>3. EagerRaises \/ ReplayRaises \/ FinishRaises \/ CollectRaises => Fault(1) \/ Fault(2)
  BY <1>2 DEF EagerRaises, ReplayRaises, FinishRaises, CollectRaises
<1>4. Cleanup => Fault(1) \/ UNCHANGED faults
  BY DEF Cleanup
<1>5. PrefillNext => Fault(1) \/ Fault(2) \/ UNCHANGED faults
  BY ZenonT(40), <1>3, <1>4 DEF PrefillNext, Step, Admit, Submit, Finish, Prepare, Refused, RunEager, Replay,
                    ReplayRefused, Collect, Return
<1> QED BY <1>1, <1>3, <1>5 DEF Fails, prefillVars

Copied(V, W, key, p) == V = [W EXCEPT ![key] = [@ EXCEPT !.position = p, !.signature = p]]
Written(V, W, key, o) == V = [W EXCEPT ![key].output = o]

LEMMA ShapedFacts ==
    ASSUME NEW W
    PROVE  Shaped(W) <=>
            /\ W = [k \in Keys |-> W[k]]
            /\ \A k \in Keys : W[k] = [position |-> W[k].position, signature |-> W[k].signature,
                                       output |-> W[k].output]
<1>1. ASSUME Shaped(W)
      PROVE  /\ W = [k \in Keys |-> W[k]]
             /\ \A k \in Keys : W[k] = [position |-> W[k].position, signature |-> W[k].signature,
                                        output |-> W[k].output]
  <2>1. PICK f : f = [k \in Keys |-> [position |-> W[k].position, signature |-> W[k].signature,
                                      output |-> W[k].output]]
    OBVIOUS
  <2>2. f = [k \in Keys |-> f[k]] /\ W = f
    BY <1>1, <2>1 DEF Shaped
  <2>3. \A k \in Keys : f[k] = [position |-> W[k].position, signature |-> W[k].signature, output |-> W[k].output]
    BY <2>1
  <2> QED BY <2>2, <2>3
<1>2. ASSUME W = [k \in Keys |-> W[k]],
             \A k \in Keys : W[k] = [position |-> W[k].position, signature |-> W[k].signature,
                                     output |-> W[k].output]
      PROVE  Shaped(W)
  <2>1. [k \in Keys |-> W[k]] = [k \in Keys |-> [position |-> W[k].position, signature |-> W[k].signature,
                                                 output |-> W[k].output]]
    BY <1>2
  <2> QED BY <1>2, <2>1 DEF Shaped
<1> QED BY <1>1, <1>2

LEMMA PositionsCopied ==
    ASSUME NEW W, Shaped(W), NEW key, NEW p, NEW V, Copied(V, W, key, p)
    PROVE  /\ Shaped(V) /\ (Level(W) => Level(V))
           /\ key \in Keys => V[key].position = p
<1>0. /\ W = [k \in Keys |-> W[k]]
      /\ \A k \in Keys : W[k] = [position |-> W[k].position, signature |-> W[k].signature,
                                 output |-> W[k].output]
  BY ShapedFacts
<1>1. ASSUME NEW k \in Keys
      PROVE  V[k] = IF k = key THEN [position |-> p, signature |-> p, output |-> W[k].output] ELSE W[k]
  <2>1. V[k] = IF k = key THEN [W[k] EXCEPT !.position = p, !.signature = p] ELSE W[k]
    BY <1>0 DEF Copied
  <2>2. PICK w : w = W[k]
    OBVIOUS
  <2>3. w = [position |-> w.position, signature |-> w.signature, output |-> w.output]
    BY <1>0, <2>2
  <2>4. [w EXCEPT !.position = p, !.signature = p] = [position |-> p, signature |-> p, output |-> w.output]
    <3>1. [w EXCEPT !.position = p] = [position |-> p, signature |-> w.signature, output |-> w.output]
      BY <2>3
    <3>2. PICK v : v = [w EXCEPT !.position = p]
      OBVIOUS
    <3>3. v = [position |-> p, signature |-> w.signature, output |-> w.output]
      BY <3>1, <3>2
    <3>4. [v EXCEPT !.signature = p] = [position |-> p, signature |-> p, output |-> w.output]
      BY <3>3
    <3>5. [w EXCEPT !.position = p, !.signature = p] = [v EXCEPT !.signature = p]
      BY <3>2
    <3> QED BY <3>4, <3>5
  <2> QED BY <2>1, <2>2, <2>4
<1>2. V = [k \in Keys |-> V[k]]
  BY <1>0 DEF Copied
<1>3. Shaped(V)
  BY <1>0, <1>1, <1>2, ShapedFacts
<1>4. ASSUME NEW k \in Keys
      PROVE  /\ k = key => V[k].position = p /\ V[k].signature = p
             /\ k # key => V[k] = W[k]
  <2>1. k = key => V[k] = [position |-> p, signature |-> p, output |-> W[k].output]
    BY <1>1
  <2>2. k # key => V[k] = W[k]
    BY <1>1
  <2> QED BY <2>1, <2>2
<1> QED BY <1>3, <1>4 DEF Level

LEMMA OutputWritten ==
    ASSUME NEW W, Shaped(W), NEW key, NEW o, NEW V, Written(V, W, key, o)
    PROVE  /\ Shaped(V) /\ (Level(W) => Level(V))
           /\ key \in Keys => V[key].output = o
<1>0. /\ W = [k \in Keys |-> W[k]]
      /\ \A k \in Keys : W[k] = [position |-> W[k].position, signature |-> W[k].signature,
                                 output |-> W[k].output]
  BY ShapedFacts
<1>1. ASSUME NEW k \in Keys
      PROVE  V[k] = IF k = key THEN [position |-> W[k].position, signature |-> W[k].signature, output |-> o]
                    ELSE W[k]
  <2>1. V[k] = IF k = key THEN [W[k] EXCEPT !.output = o] ELSE W[k]
    BY <1>0 DEF Written
  <2>2. PICK w : w = W[k]
    OBVIOUS
  <2>3. w = [position |-> w.position, signature |-> w.signature, output |-> w.output]
    BY <1>0, <2>2
  <2>4. [w EXCEPT !.output = o] = [position |-> w.position, signature |-> w.signature, output |-> o]
    BY <2>3
  <2> QED BY <2>1, <2>2, <2>4
<1>2. V = [k \in Keys |-> V[k]]
  BY <1>0 DEF Written
<1>3. Shaped(V)
  BY <1>0, <1>1, <1>2, ShapedFacts
<1>4. ASSUME NEW k \in Keys
      PROVE  /\ V[k].position = W[k].position /\ V[k].signature = W[k].signature
             /\ k = key => V[k].output = o
  <2>1. k = key => V[k] = [position |-> W[k].position, signature |-> W[k].signature, output |-> o]
    BY <1>1
  <2>2. k # key => V[k] = W[k]
    BY <1>1
  <2> QED BY <2>1, <2>2
<1> QED BY <1>3, <1>4 DEF Level

LEMMA RefreshedFacts ==
    ASSUME Shaped(workspace)
    PROVE  /\ Shaped(Refreshed) /\ (Level(workspace) => Level(Refreshed))
           /\ Level(workspace) /\ KeyOf(Request) \in Keys => Refreshed[KeyOf(Request)].position = LastPosition(Request)
<1> DEFINE key == KeyOf(Request)
           p == LastPosition(Request)
<1>1. CASE Stale
  <2>1. Copied(Refreshed, workspace, key, p)
    BY <1>1 DEF Refreshed, Copied
  <2> QED BY <2>1, PositionsCopied
<1>2. CASE ~Stale
  <2>1. Refreshed = workspace
    <3>1. Refreshed = [workspace EXCEPT ![key] = @]
      BY <1>2 DEF Refreshed
    <3>2. workspace = [k \in Keys |-> workspace[k]]
      BY ShapedFacts
    <3> QED BY <3>1, <3>2
  <2> QED BY <1>2, <2>1 DEF Stale, Level
<1> QED BY <1>1, <1>2

LEMMA WorkspaceStep ==
    ASSUME WorkspaceInv, [PrefillNext]_prefillVars
    PROVE  WorkspaceInv'
<1>0. Shaped(workspace) /\ (~failed => Level(workspace))
  BY DEF WorkspaceInv
<1> SUFFICES Shaped(workspace') /\ (~failed' => Level(workspace'))
  BY DEF WorkspaceInv
<1>1. CASE UNCHANGED <<workspace, failed>>
  BY <1>0, <1>1
<1>2. CASE Replay
  <2>1. ~failed /\ UNCHANGED failed /\ workspace' \in {Sampled, Refreshed}
    BY <1>2 DEF Replay
  <2>2. Shaped(Refreshed) /\ Level(Refreshed)
    BY <1>0, <2>1, RefreshedFacts
  <2>3. Shaped(Sampled) /\ Level(Sampled)
    BY <2>2, OutputWritten DEF Sampled, Written
  <2> QED BY <2>1, <2>2, <2>3
<1>3. CASE FinishRaises
  <2>1. ~failed /\ UNCHANGED failed /\ workspace' = Refreshed
    BY <1>3 DEF FinishRaises
  <2> QED BY <1>0, <2>1, RefreshedFacts
<1>4. CASE ReplayRaises
  <2>1. /\ failed'
        /\ workspace' \in {workspace, Refreshed, [workspace EXCEPT ![KeyOf(Request)].position = Mixed]}
    BY <1>4 DEF ReplayRaises
  <2>2. Shaped(Refreshed)
    BY <1>0, RefreshedFacts
  <2>3. Shaped([workspace EXCEPT ![KeyOf(Request)].position = Mixed])
    <3>1. PICK W : W = workspace
      OBVIOUS
    <3>2. PICK V : V = [W EXCEPT ![KeyOf(Request)].position = Mixed]
      OBVIOUS
    <3>3. /\ W = [k \in Keys |-> W[k]]
          /\ \A k \in Keys : W[k] = [position |-> W[k].position, signature |-> W[k].signature,
                                     output |-> W[k].output]
      BY <1>0, <3>1, ShapedFacts
    <3>4. ASSUME NEW k \in Keys
          PROVE  V[k] = [position |-> V[k].position, signature |-> V[k].signature, output |-> V[k].output]
      <4>1. PICK w : w = W[k]
        OBVIOUS
      <4>2. w = [position |-> w.position, signature |-> w.signature, output |-> w.output]
        BY <3>3, <4>1
      <4>3. [w EXCEPT !.position = Mixed] = [position |-> Mixed, signature |-> w.signature, output |-> w.output]
        BY <4>2
      <4>4. V[k] = IF k = KeyOf(Request) THEN [w EXCEPT !.position = Mixed] ELSE w
        BY <3>2, <3>3, <4>1
      <4> QED BY <4>2, <4>3, <4>4
    <3>5. V = [k \in Keys |-> V[k]]
      BY <3>2, <3>3
    <3>6. Shaped(V)
      BY <3>4, <3>5, ShapedFacts
    <3> QED BY <3>1, <3>2, <3>6
  <2> QED BY <1>0, <2>1, <2>2, <2>3
<1>5. CASE Collect
  <2>1. UNCHANGED failed /\ workspace' \in {workspace, [workspace EXCEPT ![ResultKey].output = NoOutput(ResultKey)]}
    BY <1>5 DEF Collect
  <2>2. /\ Shaped([workspace EXCEPT ![ResultKey].output = NoOutput(ResultKey)])
        /\ Level(workspace) => Level([workspace EXCEPT ![ResultKey].output = NoOutput(ResultKey)])
    BY <1>0, OutputWritten DEF Written
  <2> QED BY <1>0, <2>1, <2>2
<1>6. PrefillNext => UNCHANGED <<workspace, failed>> \/ Replay \/ FinishRaises \/ ReplayRaises \/ Collect
  BY DEF PrefillNext, Step, Admit, Submit, Finish, Prepare, Refused, RunEager, EagerRaises, ReplayRefused,
         CollectRaises, Return, Cleanup, deviceVars
<1> QED BY <1>1, <1>2, <1>3, <1>4, <1>5, <1>6 DEF prefillVars, deviceVars

LEMMA PromptOfRow ==
    ASSUME AdmissionInv, NEW r \in 1 .. Len(call.rows)
    PROVE  PromptAt(r) \in Prompts
BY RowFacts DEF PromptAt

LEMMA ShownFacts ==
    ASSUME CacheInv, Runnable, NEW p
    PROVE  /\ ShownAt(p) \in Values
           /\ p = LastPosition(Request) => Own(Request, ShownAt(p))
<1>0. AdmissionInv /\ PlanInv /\ HasContext
  BY CacheHasContext DEF CacheInv, ContextIsPresent
<1>1. /\ Request.padded \in Nat /\ Len(Request.rows) \in Nat /\ Len(Request.rows) <= Request.padded
      /\ \A k \in 1 .. Len(Request.rows) : Request.rows[k] \in 1 .. Len(call.rows)
  BY <1>0, RequestNow DEF RequestIsOk
<1>2. \A k \in 1 .. Len(Request.rows) : PromptAt(Request.rows[k]) \in Prompts
  BY <1>0, <1>1, PromptOfRow
<1> DEFINE right == HasContext /\ (Request.kind = "batched" \/ p = LastPosition(Request))
           f == [i \in 1 .. Request.padded |->
                    IF i <= Len(Request.rows) /\ right THEN PromptAt(Request.rows[i]) ELSE Wrong]
<1>3. ShownAt(p) = f
  BY DEF ShownAt
<1>4. ASSUME NEW i \in 1 .. Request.padded
      PROVE  (IF i <= Len(Request.rows) /\ right THEN PromptAt(Request.rows[i]) ELSE Wrong) \in Prompts \cup {Wrong}
  <2>1. i <= Len(Request.rows) => i \in 1 .. Len(Request.rows)
    BY <1>1
  <2> QED BY <1>2, <2>1
<1>5. f \in [1 .. Request.padded -> Prompts \cup {Wrong}]
  BY <1>4
<1>6. f \in Values
  BY <1>1, <1>5 DEF Values
<1>7. p = LastPosition(Request) => Own(Request, f)
  <2> SUFFICES ASSUME p = LastPosition(Request), NEW i \in 1 .. Len(Request.rows)
               PROVE  f[i] = PromptAt(Request.rows[i])
    BY DEF Own
  <2>1. i \in 1 .. Request.padded /\ i <= Len(Request.rows)
    BY <1>1
  <2> QED BY <1>0, <2>1
<1> QED BY <1>3, <1>6, <1>7

\* While a call runs, its rows and its plan stay.
SameCall == UNCHANGED <<running, call, phase>> /\ phase = "running"

LEMMA OwnStays ==
    ASSUME SameCall
    PROVE  \A request, value : Own(request, value)' <=> Own(request, value)
BY DEF SameCall, Own, PromptAt

LEMMA TokensStay ==
    ASSUME TokensInv, SameCall, UNCHANGED tokens, Read' = Read
    PROVE  TokensInv'
BY ZenonT(60) DEF TokensInv, SameCall, TokenOf, PromptAt

\* The last chunk of a request appends its result.
LEMMA PendingAppended ==
    ASSUME CacheInv, PendingInv, ValuesInv, SameCall, Runnable, NEW result,
           result \in [request : Nat, shown : Values], result.request = at[1],
           pending' = Append(pending, result), at' = <<at[1] + 1, 1>>,
           Traced => pending = <<>>,
           Traced => Own(Request, workspace'[KeyOf(Request)].output),
           ~Traced => Own(Request, result.shown)
    PROVE  PendingInv' /\ ValuesInv' /\ Read' = Read
<1>1. /\ phase = "running" /\ phase' = "running" /\ call' = call
      /\ pending \in Seq([request : Nat, shown : Values]) /\ Read \in Nat
      /\ \A k \in 1 .. Len(pending) : pending[k].request = Read + k
      /\ \A k \in 1 .. Len(pending) : Own(call.plan[pending[k].request], ValueOf(pending[k]))
  BY DEF SameCall, PendingInv, ValuesInv
<1>2. /\ Len(pending) \in Nat /\ Len(pending') = Len(pending) + 1 /\ pending'[Len(pending) + 1] = result
      /\ \A k \in 1 .. Len(pending) : pending'[k] = pending[k]
  BY <1>1
<1>3. at[1] \in Nat
  BY RequestNow DEF CacheInv, PlanInv, Runnable
<1>4. Read' = Read /\ at[1] = Read + (Len(pending) + 1)
  <2>1. Read' = at'[1] - 1 - Len(pending') /\ Read = at[1] - 1 - Len(pending) /\ at'[1] = at[1] + 1
    BY DEF Read
  <2>2. PICK n \in Nat : n = Len(pending)
    BY <1>2
  <2>3. PICK a \in Nat : a = at[1]
    BY <1>3
  <2>4. Read = a - 1 - n /\ Read' = (a + 1) - 1 - (n + 1)
    BY <1>2, <2>1, <2>2, <2>3
  <2> QED BY SMTT(40), <2>2, <2>3, <2>4
<1>5. ASSUME NEW k \in 1 .. Len(pending') PROVE k \in 1 .. Len(pending) \/ k = Len(pending) + 1
  BY <1>2
<1>6. PendingInv'
  <2>1. pending' \in Seq([request : Nat, shown : Values])
    BY <1>1
  <2>2. ASSUME NEW k \in 1 .. Len(pending') PROVE pending'[k].request = Read' + k
    BY <1>1, <1>2, <1>4, <1>5
  <2>3. Traced' => Len(pending') <= 1
    <3>1. Traced' => Len(pending) = 0
      BY <1>1 DEF Traced
    <3> QED BY <1>2, <3>1
  <2> QED BY <1>1, <1>4, <2>1, <2>2, <2>3 DEF PendingInv
<1>7. ValuesInv'
  <2>1. ASSUME NEW k \in 1 .. Len(pending')
        PROVE  Own(call.plan[pending'[k].request], ValueOf(pending[k])')
    <3>1. CASE k \in 1 .. Len(pending)
      <4>1. ~Traced
        BY <1>1, <3>1
      <4>2. ValueOf(pending[k])' = pending[k].shown /\ ValueOf(pending[k]) = pending[k].shown
        BY <1>1, <1>2, <3>1, <4>1 DEF ValueOf, Traced
      <4> QED BY <1>1, <1>2, <3>1, <4>2
    <3>2. CASE k = Len(pending) + 1
      <4>1. pending'[k] = result /\ call.plan[result.request] = Request
        BY <1>2, <3>2 DEF Request
      <4>2. ValueOf(pending[k])' = IF Traced THEN workspace'[KeyOf(Request)].output ELSE result.shown
        BY <1>1, <4>1 DEF ValueOf, Traced, KeyOf
      <4> QED BY <4>1, <4>2
    <3> QED BY <1>5, <3>1, <3>2
  <2>2. ASSUME NEW k \in 1 .. Len(pending')
        PROVE  Own(call.plan[pending[k].request], ValueOf(pending[k]))'
    <3>1. PICK v : v = ValueOf(pending[k])'
      OBVIOUS
    <3>2. Own(call.plan[pending'[k].request], v)
      BY <2>1, <3>1
    <3> QED BY ZenonT(60), <1>1, <3>1, <3>2 DEF Own, PromptAt, SameCall
  <2> QED BY <2>2 DEF ValuesInv
<1> QED BY <1>4, <1>6, <1>7

\* Any other chunk leaves the results as they are.
LEMMA PendingKept ==
    ASSUME PendingInv, ValuesInv, SameCall, UNCHANGED pending, at'[1] = at[1],
           Traced => pending = <<>> \/ UNCHANGED workspace
    PROVE  PendingInv' /\ ValuesInv' /\ Read' = Read
<1>1. Read' = Read /\ call' = call /\ phase' = phase /\ pending' = pending
  BY DEF Read, SameCall
<1>2. PendingInv'
  BY <1>1 DEF PendingInv, Traced
<1>3. ValuesInv'
  <2> SUFFICES ASSUME phase = "running", NEW k \in 1 .. Len(pending)
               PROVE  Own(call.plan[pending[k].request], ValueOf(pending[k]))'
    BY <1>1 DEF ValuesInv
  <2>1. pending # <<>>
    OBVIOUS
  <2>2. ValueOf(pending[k])' = ValueOf(pending[k])
    BY <1>1, <2>1 DEF ValueOf, Traced, KeyOf
  <2>3. Own(call.plan[pending[k].request], ValueOf(pending[k]))
    BY DEF ValuesInv
  <2> QED BY ZenonT(40), <1>1, <2>2, <2>3 DEF Own, PromptAt, SameCall
<1> QED BY <1>1, <1>2, <1>3

LEMMA ResultsRunEager ==
    ASSUME ResultInv, RunEager
    PROVE  PendingInv' /\ ValuesInv' /\ TokensInv'
<1>0. CacheInv /\ PendingInv /\ ValuesInv /\ TokensInv /\ Runnable /\ ~Traced
  BY DEF ResultInv, RunEager
<1>1. SameCall /\ UNCHANGED tokens
  BY DEF RunEager, SameCall, schedulerVars, Runnable
<1>2. CASE IsLastChunk
  <2> DEFINE result == [request |-> at[1], shown |-> ShownAt(LastPosition(Request))]
  <2>1. pending' = Append(pending, result) /\ at' = <<at[1] + 1, 1>>
    BY <1>2 DEF RunEager, Advanced
  <2>2. ShownAt(LastPosition(Request)) \in Values /\ Own(Request, ShownAt(LastPosition(Request)))
    BY <1>0, ShownFacts
  <2>3. at[1] \in Nat
    BY <1>0 DEF CacheInv, PlanInv, Runnable
  <2>4. /\ result \in [request : Nat, shown : Values] /\ result.request = at[1]
        /\ Own(Request, result.shown)
    BY <2>2, <2>3
  <2> HIDE DEF result
  <2>5. PendingInv' /\ ValuesInv' /\ Read' = Read
    BY <1>0, <1>1, <2>1, <2>4, PendingAppended
  <2> QED BY <1>0, <1>1, <2>5, TokensStay
<1>3. CASE ~IsLastChunk
  <2>1. UNCHANGED pending /\ at'[1] = at[1]
    BY <1>3 DEF RunEager, Advanced
  <2>2. PendingInv' /\ ValuesInv' /\ Read' = Read
    BY <1>0, <1>1, <2>1, PendingKept
  <2> QED BY <1>0, <1>1, <2>2, TokensStay
<1> QED BY <1>2, <1>3

\* A replay samples at the last position of its request: the positions of its trace are copied when
\* their signature is another one, and else they are already right.
LEMMA ResultsReplay ==
    ASSUME ResultInv, Replay
    PROVE  PendingInv' /\ ValuesInv' /\ TokensInv'
<1>0. CacheInv /\ PendingInv /\ ValuesInv /\ TokensInv /\ WorkspaceInv /\ Runnable /\ Traced /\ pending = <<>>
  BY DEF ResultInv, Replay, OneAtATime
<1>1. SameCall /\ UNCHANGED tokens
  BY DEF Replay, SameCall, schedulerVars, Runnable
<1>2. CASE IsLastChunk
  <2> DEFINE result == [request |-> at[1], shown |-> <<>>]
  <2>1. pending' = Append(pending, result) /\ at' = <<at[1] + 1, 1>> /\ workspace' = Sampled
    BY <1>2 DEF Replay, Advanced
  <2>2. at[1] \in Nat
    BY <1>0 DEF CacheInv, PlanInv, Runnable
  <2>3. <<>> \in Values
    BY DEF Values
  <2>4. result \in [request : Nat, shown : Values] /\ result.request = at[1]
    BY <2>2, <2>3
  <2>5. KeyOf(Request) \in Keys
    <3>1. KeyOf(Request) \in config.captured /\ config \in Configs
      BY <1>0 DEF Replay, Covered, CacheInv, AdmissionInv, SchedulerTypes
    <3> QED BY <3>1, ConfigsAssumption
  <2>6. Shaped(Refreshed) /\ Refreshed[KeyOf(Request)].position = LastPosition(Request)
    BY <1>0, <2>5, RefreshedFacts DEF WorkspaceInv, Replay
  <2>7. Sampled[KeyOf(Request)].output = ShownAt(LastPosition(Request))
    <3>1. Written(Sampled, Refreshed, KeyOf(Request), ShownAt(LastPosition(Request)))
      BY <2>6 DEF Sampled, Written
    <3> QED BY <2>5, <2>6, <3>1, OutputWritten
  <2>8. Own(Request, workspace'[KeyOf(Request)].output)
    BY <1>0, <2>1, <2>7, ShownFacts
  <2> HIDE DEF result
  <2>9. PendingInv' /\ ValuesInv' /\ Read' = Read
    BY <1>0, <1>1, <2>1, <2>4, <2>8, PendingAppended
  <2> QED BY <1>0, <1>1, <2>9, TokensStay
<1>3. CASE ~IsLastChunk
  <2>1. UNCHANGED pending /\ at'[1] = at[1]
    BY <1>3 DEF Replay, Advanced
  <2>2. PendingInv' /\ ValuesInv' /\ Read' = Read
    BY <1>0, <1>1, <2>1, PendingKept
  <2> QED BY <1>0, <1>1, <2>2, TokensStay
<1> QED BY <1>2, <1>3

LEMMA Joined ==
    ASSUME NEW X, NEW p \in Seq(X), NEW t \in Seq(X)
    PROVE  /\ Len(p \o t) = Len(p) + Len(t) /\ p \o t \in Seq(X)
           /\ \A i \in 1 .. Len(p) : (p \o t)[i] = p[i]
           /\ \A i \in 1 .. Len(t) : (p \o t)[Len(p) + i] = t[i]
<1>1. Len(p) \in Nat /\ Len(t) \in Nat /\ Len(p \o t) = Len(p) + Len(t) /\ p \o t \in Seq(X)
  OBVIOUS
<1>2. ASSUME NEW i \in 1 .. Len(t) PROVE (p \o t)[Len(p) + i] = t[i]
  <2>1. Len(p) + i \in Len(p) + 1 .. Len(p) + Len(t) /\ (Len(p) + i) - Len(p) = i
    BY <1>1
  <2> QED BY <2>1, Concatenation
<1> QED BY <1>1, <1>2, Concatenation

\* Reading the next result adds the tokens of its rows, which no earlier request has.
LEMMA ResultsCollect ==
    ASSUME ResultInv, Collect
    PROVE  PendingInv' /\ ValuesInv' /\ TokensInv'
<1>0. CacheInv /\ PendingInv /\ ValuesInv /\ TokensInv /\ Collecting
  BY DEF ResultInv, Collect
<1>1. SameCall /\ UNCHANGED at /\ pending' = Tail(pending) /\ pending # <<>>
  BY DEF Collect, SameCall, schedulerVars, Collecting
<1>2. /\ phase = "running" /\ phase' = "running" /\ call' = call
      /\ pending \in Seq([request : Nat, shown : Values]) /\ Read \in Nat
      /\ \A k \in 1 .. Len(pending) : pending[k].request = Read + k
      /\ Traced => Len(pending) <= 1
  BY <1>0, <1>1 DEF SameCall, PendingInv
<1>3. /\ Len(pending) \in Nat \ {0} /\ Len(pending') = Len(pending) - 1
      /\ pending' \in Seq([request : Nat, shown : Values])
      /\ \A k \in 1 .. Len(pending') : k + 1 \in 1 .. Len(pending) /\ pending'[k] = pending[k + 1]
  BY <1>1, <1>2
<1>4. at[1] \in 1 .. Len(call.plan) + 1 /\ Len(call.plan) \in Nat
  BY <1>0, <1>2, PlanIsOk DEF CacheInv, PlanInv
<1> DEFINE v == Read + 1
           rows == call.plan[v].rows
<1>5. Read' = v /\ v \in 1 .. Len(call.plan)
  <2>1. Read = at[1] - 1 - Len(pending) /\ Read' = at[1] - 1 - Len(pending')
    BY <1>1 DEF Read
  <2>2. PICK n \in Nat \ {0} : n = Len(pending)
    BY <1>3
  <2>3. PICK a \in Nat : a = at[1]
    BY <1>4
  <2>4. Read = a - 1 - n /\ Read' = a - 1 - (n - 1)
    BY <1>3, <2>1, <2>2, <2>3
  <2>5. PICK l \in Nat : l = Len(call.plan)
    BY <1>4
  <2>6. a \in 1 .. l + 1 /\ a - 1 - n \in Nat
    BY <1>2, <1>4, <2>3, <2>4, <2>5
  <2>7. (a - 1 - n) + 1 = a - 1 - (n - 1) /\ (a - 1 - n) + 1 \in 1 .. l
    BY <2>6
  <2> QED BY <2>4, <2>5, <2>7
<1>6. Result = pending[1] /\ Result.request = v
  <2>1. Result = pending[1] /\ 1 \in 1 .. Len(pending)
    BY <1>1, <1>2, <1>3 DEF Result
  <2> QED BY <1>2, <2>1
<1>7. rows \in Seq(Working(call.rows)) /\ Len(rows) \in Nat
  BY <1>0, <1>2, <1>5, PlanIsOk DEF CacheInv, RequestIsOk
<1>8. \A i \in 1 .. Len(rows) : rows[i] \in 1 .. Len(call.rows) /\ PromptAt(rows[i]) \in Prompts
  <2>1. \A i \in 1 .. Len(rows) : rows[i] \in 1 .. Len(call.rows)
    BY <1>0, <1>7, EveryRowIsGood DEF CacheInv
  <2> QED BY <1>0, <2>1, PromptOfRow DEF CacheInv
<1>9. \A i \in 1 .. Len(rows) : Value[i] = PromptAt(rows[i])
  <2>1. Own(call.plan[pending[1].request], ValueOf(pending[1]))
    BY <1>0, <1>2, <1>3 DEF ValuesInv
  <2>2. Value = ValueOf(pending[1])
    BY <1>6 DEF Value, ValueOf, ResultKey
  <2> QED BY <1>6, <2>1, <2>2 DEF Own
<1> DEFINE new == [i \in 1 .. Len(rows) |-> <<rows[i], Value[i]>>]
<1>10. tokens' = tokens \o new
  BY <1>6 DEF Collect
<1>11. PendingInv'
  <2>1. ASSUME NEW k \in 1 .. Len(pending') PROVE pending'[k].request = Read' + k
    <3>0. k + 1 \in 1 .. Len(pending) /\ pending'[k] = pending[k + 1] /\ k \in Nat
      BY <1>3
    <3>1. pending'[k].request = Read + (k + 1) /\ k \in Nat
      BY <1>2, <3>0
    <3> QED BY <1>2, <1>5, <3>1
  <2>2. Traced' => Len(pending') <= 1
    BY <1>2, <1>3 DEF Traced
  <2>3. Read' \in Nat
    BY <1>2, <1>5
  <2> QED BY <1>3, <2>1, <2>2, <2>3 DEF PendingInv
<1>12. ValuesInv'
  <2>1. ASSUME NEW k \in 1 .. Len(pending')
        PROVE  Own(call.plan[pending[k].request], ValueOf(pending[k]))'
    <3>1. ~Traced
      BY <1>2, <1>3
    <3>2. Own(call.plan[pending[k + 1].request], ValueOf(pending[k + 1]))
      BY <1>0, <1>2, <1>3 DEF ValuesInv
    <3>3. ValueOf(pending[k])' = ValueOf(pending[k + 1])
      BY <1>2, <1>3, <3>1 DEF ValueOf, Traced
    <3>4. PICK x : x = ValueOf(pending[k + 1])
      OBVIOUS
    <3>5. Own(call.plan[pending'[k].request], x)
      BY <1>3, <3>2, <3>4
    <3>6. running' = running
      BY <1>1 DEF SameCall
    <3> QED BY ZenonT(40), <1>2, <3>3, <3>4, <3>5, <3>6 DEF Own, PromptAt
  <2> QED BY <2>1 DEF ValuesInv
<1>13. TokensInv'
  <2> DEFINE T == (1 .. Len(call.rows)) \X Prompts
             N == Len(tokens)
  <2>1. /\ tokens \in Seq(T) /\ N \in Nat
        /\ \A n \in 1 .. N : \E u \in 1 .. Read : \E k \in 1 .. Len(call.plan[u].rows) : TokenOf(tokens[n], u, k)
        /\ \A u \in 1 .. Read : \A k \in 1 .. Len(call.plan[u].rows) : \E n \in 1 .. N : TokenOf(tokens[n], u, k)
        /\ \A m, n \in 1 .. N : tokens[m][1] = tokens[n][1] => m = n
    BY <1>0, <1>2 DEF TokensInv
  <2>2. new \in Seq(T) /\ Len(new) = Len(rows) /\ \A i \in 1 .. Len(rows) : new[i] = <<rows[i], PromptAt(rows[i])>>
    BY <1>7, <1>8, <1>9
  <2> HIDE DEF T, new
  <2>3. /\ tokens' \in Seq(T) /\ Len(tokens') = N + Len(rows)
        /\ \A n \in 1 .. N : tokens'[n] = tokens[n]
        /\ \A i \in 1 .. Len(rows) : tokens'[N + i] = new[i]
    <3>1. /\ Len(tokens \o new) = Len(tokens) + Len(new) /\ tokens \o new \in Seq(T)
          /\ \A i \in 1 .. Len(tokens) : (tokens \o new)[i] = tokens[i]
          /\ \A i \in 1 .. Len(new) : (tokens \o new)[Len(tokens) + i] = new[i]
      <4>1. tokens \in Seq(T) /\ new \in Seq(T)
        BY <2>1, <2>2
      <4> QED BY <4>1, Joined
    <3> QED BY <1>10, <2>2, <3>1
  <2>4. \A token, u, k : TokenOf(token, u, k)' <=> TokenOf(token, u, k)
    BY <1>1 DEF TokenOf, PromptAt, SameCall
  <2>5. \A i \in 1 .. Len(rows) : TokenOf(tokens'[N + i], v, i)
    BY <2>2, <2>3 DEF TokenOf
  <2>6. ASSUME NEW n \in 1 .. Len(tokens')
        PROVE  n \in 1 .. N \/ \E i \in 1 .. Len(rows) : n = N + i
    <3>1. n \in Nat \ {0} /\ N \in Nat
      BY <1>7, <2>1, <2>3
    <3>2. n > N => n - N \in 1 .. Len(rows) /\ n = N + (n - N)
      BY <1>7, <2>1, <2>3
    <3>3. ~(n > N) => n \in 1 .. N
      BY <3>1
    <3> QED BY <3>2, <3>3
  <2>7. \A n \in 1 .. N : n \in 1 .. Len(tokens')
    BY <1>7, <2>1, <2>3
  <2>8. \A i \in 1 .. Len(rows) : N + i \in 1 .. Len(tokens')
    BY SMTT(30), <1>7, <2>1, <2>3
  <2>9. \A u \in 1 .. v : u \in 1 .. Read \/ u = v
    BY <1>2
  <2>10. v \in 1 .. v /\ \A u \in 1 .. Read : u \in 1 .. v /\ u # v /\ u \in 1 .. Len(call.plan)
    BY <1>2, <1>5
  <2>11. ASSUME NEW n \in 1 .. Len(tokens')
         PROVE  \E u \in 1 .. v : \E k \in 1 .. Len(call.plan[u].rows) : TokenOf(tokens'[n], u, k)
    <3>1. CASE n \in 1 .. N
      BY <2>1, <2>3, <2>10, <3>1
    <3>2. CASE \E i \in 1 .. Len(rows) : n = N + i
      BY <2>5, <2>10, <3>2
    <3> QED BY <2>6, <3>1, <3>2
  <2>12. ASSUME NEW u \in 1 .. v, NEW k \in 1 .. Len(call.plan[u].rows)
         PROVE  \E n \in 1 .. Len(tokens') : TokenOf(tokens'[n], u, k)
    <3>1. CASE u \in 1 .. Read
      <4>1. PICK n \in 1 .. N : TokenOf(tokens[n], u, k)
        BY <2>1, <3>1
      <4> QED BY <2>3, <2>7, <4>1
    <3>2. CASE u = v
      <4>1. k \in 1 .. Len(rows)
        BY <3>2
      <4> QED BY <2>5, <2>8, <3>2, <4>1
    <3> QED BY <2>9, <3>1, <3>2
  <2>13. RowsApart(call.plan)
    BY <1>0, <1>2, PlanIsOk DEF CacheInv
  <2>14. ASSUME NEW m \in 1 .. N, NEW i \in 1 .. Len(rows), tokens'[m][1] = tokens'[N + i][1] PROVE FALSE
    <3>1. PICK u \in 1 .. Read : \E k \in 1 .. Len(call.plan[u].rows) : TokenOf(tokens[m], u, k)
      BY <2>1
    <3>2. PICK k \in 1 .. Len(call.plan[u].rows) : TokenOf(tokens[m], u, k)
      BY <3>1
    <3>3. tokens'[m][1] = call.plan[u].rows[k]
      BY <2>3, <3>2 DEF TokenOf
    <3>4. tokens'[N + i][1] = rows[i]
      BY SMTT(30), <2>2, <2>3
    <3>a. call.plan[u].rows[k] = call.plan[v].rows[i] /\ u \in 1 .. Len(call.plan)
      BY <2>10, <2>14, <3>3, <3>4
    <3>5. u = v
      BY <1>5, <2>13, <3>a DEF RowsApart
    <3> QED BY <2>10, <3>5
  <2>15. ASSUME NEW i \in 1 .. Len(rows), NEW j \in 1 .. Len(rows), tokens'[N + i][1] = tokens'[N + j][1]
         PROVE  i = j
    <3>0. \A k \in 1 .. Len(rows) : tokens'[N + k][1] = rows[k]
      BY <2>5 DEF TokenOf
    <3>1. rows[i] = rows[j]
      BY <2>15, <3>0
    <3> QED BY <1>5, <2>13, <3>1 DEF RowsApart
  <2>16. ASSUME NEW m \in 1 .. Len(tokens'), NEW n \in 1 .. Len(tokens'), tokens'[m][1] = tokens'[n][1]
         PROVE  m = n
    <3>1. CASE m \in 1 .. N /\ n \in 1 .. N
      BY <2>1, <2>3, <2>16, <3>1
    <3>2. CASE m \in 1 .. N /\ \E i \in 1 .. Len(rows) : n = N + i
      BY <2>14, <2>16, <3>2
    <3>3. CASE n \in 1 .. N /\ \E i \in 1 .. Len(rows) : m = N + i
      BY <2>14, <2>16, <3>3
    <3>4. CASE (\E i \in 1 .. Len(rows) : m = N + i) /\ (\E i \in 1 .. Len(rows) : n = N + i)
      BY <2>15, <2>16, <3>4
    <3> QED BY <2>6, <3>1, <3>2, <3>3, <3>4
  <2>17. tokens' \in Seq((1 .. Len(call'.rows)) \X Prompts)
    BY <1>2, <2>3 DEF T
  <2> QED BY <1>2, <1>5, <2>4, <2>11, <2>12, <2>16, <2>17 DEF TokensInv
<1> QED BY <1>11, <1>12, <1>13

\* A traced call runs only when every request of its plan has a trace; the configuration stays.
LEMMA CallStep ==
    ASSUME CallInv, CallTypes, [PrefillNext]_prefillVars
    PROVE  CallInv'
<1>1. faults' \in Nat
  BY FaultsCounted DEF CallInv
<1>2. ASSUME phase' = "running", Traced' PROVE Preflighted(call.plan)'
  <2>1. CASE Prepare
    <3> DEFINE plan == Planned(config.policy, call.rows)
    <3>1. (Traced => Preflighted(plan)) /\ call' = [call EXCEPT !.plan = plan] /\ config' = config
      BY <2>1 DEF Prepare
    <3>2. call'.plan = plan /\ call'.mode = call.mode
      BY <3>1 DEF CallTypes
    <3> HIDE DEF plan
    <3>3. Preflighted(plan)
      BY <1>2, <3>1, <3>2 DEF Traced
    <3> QED BY <3>1, <3>2, <3>3 DEF Preflighted, Covered, KeyOf
  <2>2. CASE UNCHANGED <<config, call, phase>>
    BY <1>2, <2>2 DEF CallInv, Traced, Preflighted, Covered, KeyOf
  <2>3. ASSUME NEW q \in Prompts, Admit(q) PROVE FALSE
    BY <1>2, <2>3 DEF Admit
  <2>4. ~Fails
    BY <1>2, FailsRaises DEF Raises, Ended
  <2>5. ~Submit /\ ~Return /\ ~Cleanup
    BY <1>2 DEF Submit, Return, Ended, Cleanup
  <2>6. RunEager \/ Replay \/ Collect \/ UNCHANGED prefillVars => UNCHANGED <<config, call, phase>>
    BY DEF RunEager, Replay, Collect, prefillVars, callVars
  <2>7. ASSUME NEW s \in Slots, Finish(s) PROVE FALSE
    BY <1>2, <2>7 DEF Finish, callVars
  <2> QED BY <2>1, <2>2, <2>3, <2>4, <2>5, <2>6, <2>7 DEF PrefillNext, Step, Fails
<1> QED BY <1>1, <1>2 DEF CallInv

LEMMA ResultInit == PrefillInit => ResultInv
<1> SUFFICES ASSUME PrefillInit PROVE ResultInv
  OBVIOUS
<1>1. CacheInv
  BY CacheInit
<1>2. Shaped(workspace) /\ Level(workspace)
  <2>1. workspace = [k \in Keys |-> FreshWorkspace(k)]
    BY DEF PrefillInit
  <2>2. \A k \in Keys : workspace[k] = [position |-> k[3] - 1, signature |-> k[3] - 1, output |-> NoOutput(k)]
    BY <2>1 DEF FreshWorkspace
  <2>3. ASSUME NEW k \in Keys
        PROVE  workspace[k].position = k[3] - 1 /\ workspace[k].signature = k[3] - 1
               /\ workspace[k].output = NoOutput(k)
    <3>1. PICK p : p = k[3] - 1
      OBVIOUS
    <3>2. PICK o : o = NoOutput(k)
      OBVIOUS
    <3>3. workspace[k] = [position |-> p, signature |-> p, output |-> o]
      BY <2>2, <3>1, <3>2
    <3> QED BY <3>1, <3>2, <3>3
  <2>4. \A k \in Keys : workspace[k] = [position |-> workspace[k].position, signature |-> workspace[k].signature,
                                        output |-> workspace[k].output]
    BY <2>2, <2>3
  <2>5. workspace = [k \in Keys |-> workspace[k]]
    BY <2>1
  <2> QED BY <2>3, <2>4, <2>5, ShapedFacts DEF Level
<1> QED BY <1>1, <1>2 DEF PrefillInit, ResultInv, CallInv, WorkspaceInv, PendingInv, ValuesInv, TokensInv

LEMMA ResultStep == ResultInv /\ [PrefillNext]_prefillVars => ResultInv'
<1> SUFFICES ASSUME ResultInv, [PrefillNext]_prefillVars PROVE ResultInv'
  OBVIOUS
<1>1. CacheInv /\ CallInv /\ WorkspaceInv /\ PendingInv /\ ValuesInv /\ TokensInv /\ CallTypes
  BY DEF ResultInv, CacheInv, AdmissionInv
<1>2. CacheInv' /\ WorkspaceInv' /\ CallInv'
  BY <1>1, CacheStep, WorkspaceStep, CallStep
<1>3. CASE phase' # "running"
  BY <1>2, <1>3, Outside DEF CallInv
<1>4. CASE Prepare
  <2>1. phase' = "running" /\ pending' = <<>> /\ tokens' = <<>> /\ at' = <<1, 1>>
    BY <1>1, <1>4 DEF Prepare, CallTypes
  <2>2. Len(pending') = 0 /\ Len(tokens') = 0 /\ Read' = 0
    BY <2>1 DEF Read
  <2>3. <<>> \in Seq([request : Nat, shown : Values]) /\ <<>> \in Seq((1 .. Len(call'.rows)) \X Prompts)
    OBVIOUS
  <2>4. PendingInv' /\ ValuesInv'
    BY <2>1, <2>2, <2>3 DEF PendingInv, ValuesInv
  <2>5. TokensInv'
    BY <2>1, <2>2, <2>3 DEF TokensInv
  <2> QED BY <1>2, <2>4, <2>5 DEF ResultInv
<1>5. CASE RunEager
  BY <1>2, <1>5, ResultsRunEager DEF ResultInv
<1>6. CASE Replay
  BY <1>2, <1>6, ResultsReplay DEF ResultInv
<1>7. CASE Collect
  BY <1>2, <1>7, ResultsCollect DEF ResultInv
<1>8. CASE UNCHANGED prefillVars /\ phase' = "running"
  <2>1. UNCHANGED <<running, call, phase, pending, tokens, at, workspace>> /\ phase = "running"
    BY <1>8 DEF prefillVars, schedulerVars, callVars, deviceVars
  <2>2. SameCall /\ at'[1] = at[1]
    BY <2>1 DEF SameCall
  <2>3. PendingInv' /\ ValuesInv' /\ Read' = Read
    BY <1>1, <2>1, <2>2, PendingKept
  <2>4. TokensInv'
    BY <1>1, <2>1, <2>2, <2>3, TokensStay
  <2> QED BY <1>2, <2>3, <2>4 DEF ResultInv
<1>9. PrefillNext /\ phase' = "running" => Prepare \/ RunEager \/ Replay \/ Collect
  <2>1. Fails => phase' # "running"
    BY FailsRaises DEF Raises, Ended
  <2>2. Submit \/ Return \/ Cleanup => phase' # "running"
    BY DEF Submit, Return, Ended, Cleanup
  <2>3. ASSUME NEW s \in Slots, Finish(s) PROVE phase' # "running"
    BY <2>3 DEF Finish, callVars
  <2>4. ASSUME NEW q \in Prompts, Admit(q) PROVE phase' # "running"
    BY <2>4 DEF Admit
  <2> QED BY <2>1, <2>2, <2>3, <2>4 DEF PrefillNext, Step, Fails
<1> QED BY <1>3, <1>4, <1>5, <1>6, <1>7, <1>8, <1>9

\* What a call has read and what waits to be read is of the prompts of its rows, and the positions of
\* a trace are those of its signature unless a refresh has failed.
THEOREM ResultInvariance == PrefillSpec => []ResultInv
<1>1. PrefillInit => ResultInv
  BY ResultInit
<1>2. ResultInv /\ [PrefillNext]_prefillVars => ResultInv'
  BY ResultStep
<1> QED BY <1>1, <1>2, PTL DEF PrefillSpec

\* A call returns, for every row that had something to compute, the token of its own prompt, once, at
\* its source row, although traces share output buffers and skip copies of positions they have
\* (result_collector.py, trace.py).
THEOREM EveryResultIsOwn == PrefillSpec => []ResultsAreOwn
<1>1. ResultInv => ResultsAreOwn
  <2> SUFFICES ASSUME ResultInv, Complete, NEW r \in Working(call.rows)
               PROVE  \E i \in 1 .. Len(tokens) :
                        /\ tokens[i] = <<r, PromptAt(r)>>
                        /\ \A j \in 1 .. Len(tokens) : tokens[j][1] = r => j = i
    BY DEF ResultsAreOwn
  <2>1. phase = "running" /\ ~(at[1] <= Len(call.plan)) /\ pending = <<>>
    BY DEF Complete, Runnable
  <2>2. /\ PlanShape(call.rows, call.plan) /\ at[1] \in 1 .. Len(call.plan) + 1 /\ Len(call.plan) \in Nat
    BY <2>1, PlanIsOk DEF ResultInv, CacheInv, PlanInv
  <2>3. Read = Len(call.plan)
    BY <2>1, <2>2 DEF Read
  <2>4. PICK v \in 1 .. Len(call.plan) : \E k \in 1 .. Len(call.plan[v].rows) : call.plan[v].rows[k] = r
    BY <2>2 DEF PlanShape
  <2>5. PICK k \in 1 .. Len(call.plan[v].rows) : call.plan[v].rows[k] = r
    BY <2>4
  <2>6. PICK i \in 1 .. Len(tokens) : TokenOf(tokens[i], v, k)
    BY <2>1, <2>3 DEF ResultInv, TokensInv
  <2>7. tokens[i] = <<r, PromptAt(r)>> /\ tokens[i][1] = r
    BY <2>5, <2>6 DEF TokenOf
  <2>8. \A j \in 1 .. Len(tokens) : tokens[j][1] = r => j = i
    BY <2>1, <2>7 DEF ResultInv, TokensInv
  <2> QED BY <2>7, <2>8
<1> QED BY <1>1, ResultInvariance, PTL

\* A traced call that no device failure meets writes the cache for all of its rows or for none: its
\* preflight has found a trace for every request it will replay (execution.py, preflight_prefill).
THEOREM TracedCallsAreWhole == PrefillSpec => AllOrNothing
<1>1. ResultInv /\ [PrefillNext]_prefillVars
        => [Traced /\ phase = "running" /\ wrote /\ ~failed /\ phase' = "idle" /\ UNCHANGED faults
                => Complete]_prefillVars
  <2> SUFFICES ASSUME ResultInv, PrefillNext, Traced, phase = "running", ~failed, phase' = "idle", UNCHANGED faults
               PROVE  Complete
    OBVIOUS
  <2>1. Fails => Refused \/ ReplayRefused
    BY FaultsCounted DEF ResultInv, CallInv
  <2>2. ~Refused
    BY DEF Refused
  <2>3. ASSUME ReplayRefused PROVE FALSE
    <3>1. Runnable /\ ~Covered(Request)
      BY <2>3 DEF ReplayRefused
    <3>2. at[1] \in 1 .. Len(call.plan)
      BY <3>1, RequestNow DEF ResultInv, CacheInv
    <3>3. Preflighted(call.plan)
      BY DEF ResultInv, CallInv
    <3> QED BY <3>1, <3>2, <3>3 DEF Preflighted, Request
  <2>4. ~(Prepare \/ RunEager \/ Replay \/ Collect \/ Submit \/ Cleanup)
    BY DEF Prepare, RunEager, Replay, Collect, Submit, Cleanup
  <2>5. ASSUME NEW q \in Prompts, Admit(q) PROVE FALSE
    BY <2>5 DEF Admit
  <2>6. ASSUME NEW s \in Slots, Finish(s) PROVE FALSE
    BY <2>6 DEF Finish
  <2>7. Return
    BY <2>1, <2>2, <2>3, <2>4, <2>5, <2>6 DEF PrefillNext, Step, Fails
  <2> QED BY <2>7 DEF Return
<1> QED BY <1>1, ResultInvariance, PTL DEF PrefillSpec, AllOrNothing

=============================================================================
