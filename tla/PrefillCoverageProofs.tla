--------------------------- MODULE PrefillCoverageProofs ---------------------------
(***************************************************************************)
(* Proofs about PrefillCoverage, for any configuration of a lane, any      *)
(* script of warm-up calls and any failures.                               *)
(*                                                                         *)
(* First what the plan of a warm-up call lists (Lists, FromPlan): the      *)
(* cases of the plan and no others, each with its steps before it, and the *)
(* full wave of a bucket before its single rows.  Then where the calls of  *)
(* the caller stand (CallsInv), from which warm-up is never refused.       *)
(*                                                                         *)
(* Then the promise of warm-up itself.  ReadyInv says, at every point of   *)
(* the setup, what is compiled already and what the list still to do owes: *)
(* from it every lane that serves has the programs of every bucket of its  *)
(* declared lengths (RowsAreReady).  The arithmetic of buckets, chunks and *)
(* tiles says that each program a step of serving calls for is one of      *)
(* those, or of the priming requests (ServedIsCompiled).                   *)
(***************************************************************************)
EXTENDS PrefillCoverage, PrefillProofs

-----------------------------------------------------------------------------
(* Sequences of sequences: block i of ss lies in L behind the place o[i]. *)

LaidOut(L, ss, n, o) ==
    /\ \A i \in 1 .. n : \A j \in 1 .. Len(ss[i]) : o[i] + j \in 1 .. Len(L) /\ L[o[i] + j] = ss[i][j]
    /\ \A k \in 1 .. Len(L) : \E i \in 1 .. n : \E j \in 1 .. Len(ss[i]) : k = o[i] + j
    /\ \A h, i \in 1 .. n : h < i => o[h] + Len(ss[h]) <= o[i]
    /\ \A i \in 1 .. n : o[i] + Len(ss[i]) <= Len(L)

\* The n-th element of F is the first n blocks of ss, one after the other.
Joins(F, ss) ==
    \A i \in DOMAIN F : F[i] = IF i = 1 THEN ss[i] ELSE F[i - 1] \o ss[i]

LEMMA JoinsExist ==
    ASSUME NEW S, NEW ss, Len(ss) \in Nat, \A i \in 1 .. Len(ss) : ss[i] \in Seq(S)
    PROVE  \E F \in [1 .. Len(ss) -> Seq(S)] : Joins(F, ss)
<1> DEFINE G == {n \in Nat : n <= Len(ss) => \E F \in [1 .. n -> Seq(S)] : Joins(F, ss)}
<1>1. 0 \in G
  <2>1. [i \in 1 .. 0 |-> <<>>] \in [1 .. 0 -> Seq(S)] /\ Joins([i \in 1 .. 0 |-> <<>>], ss)
    BY DEF Joins
  <2> QED BY <2>1
<1>2. ASSUME NEW n \in Nat, n \in G PROVE n + 1 \in G
  <2> SUFFICES ASSUME n + 1 <= Len(ss) PROVE \E F \in [1 .. n + 1 -> Seq(S)] : Joins(F, ss)
    OBVIOUS
  <2>1. PICK F \in [1 .. n -> Seq(S)] : Joins(F, ss)
    BY <1>2
  <2> DEFINE last == IF n = 0 THEN ss[1] ELSE F[n] \o ss[n + 1]
             H == [i \in 1 .. n + 1 |-> IF i = n + 1 THEN last ELSE F[i]]
  <2>2. last \in Seq(S)
    <3>1. CASE n = 0
      BY <3>1
    <3>2. CASE n # 0
      <4>1. F[n] \in Seq(S) /\ ss[n + 1] \in Seq(S)
        BY <3>2
      <4> QED BY <3>2, <4>1
    <3> QED BY <3>1, <3>2
  <2>3. H \in [1 .. n + 1 -> Seq(S)]
    <3> HIDE DEF last
    <3> QED BY <2>2
  <2>4. ASSUME NEW i \in 1 .. n + 1 PROVE H[i] = IF i = 1 THEN ss[i] ELSE H[i - 1] \o ss[i]
    <3>1. CASE i = n + 1
      BY <3>1
    <3>2. CASE i # n + 1
      <4>1. i \in 1 .. n /\ DOMAIN F = 1 .. n /\ (i # 1 => i - 1 \in 1 .. n)
        BY <2>1, <3>2
      <4>2. H[i] = F[i] /\ (i # 1 => H[i - 1] = F[i - 1])
        <5>1. i # 1 => i - 1 \in 1 .. n + 1 /\ i - 1 # n + 1
          BY <4>1
        <5> QED BY <3>2, <5>1
      <4>3. F[i] = IF i = 1 THEN ss[i] ELSE F[i - 1] \o ss[i]
        BY <2>1, <4>1 DEF Joins
      <4> QED BY <4>2, <4>3
    <3> QED BY <3>1, <3>2
  <2>5. Joins(H, ss)
    <3> HIDE DEF last
    <3>1. DOMAIN H = 1 .. n + 1
      OBVIOUS
    <3> HIDE DEF H
    <3> QED BY <2>4, <3>1 DEF Joins
  <2> HIDE DEF H
  <2> QED BY <2>3, <2>5
<1>3. \A n \in Nat : n \in G
  <2> HIDE DEF G
  <2> QED BY <1>1, <1>2, InductionOnNat
<1> QED BY <1>3

LEMMA FlattenIsLast ==
    ASSUME NEW S, NEW ss, Len(ss) \in Nat, Len(ss) # 0, \A i \in 1 .. Len(ss) : ss[i] \in Seq(S)
    PROVE  \E F : DOMAIN F = 1 .. Len(ss) /\ Joins(F, ss) /\ FlattenSeq(ss) = F[Len(ss)]
<1> DEFINE body(f) == [i \in 1 .. Len(ss) |-> IF i = 1 THEN ss[i] ELSE f[i - 1] \o ss[i]]
<1>1. PICK F \in [1 .. Len(ss) -> Seq(S)] : Joins(F, ss)
  BY JoinsExist
<1>2. F = body(F)
  BY <1>1 DEF Joins
<1> DEFINE C == CHOOSE f : f = body(f)
<1>3. C = body(C)
  <2> HIDE DEF body
  <2> QED BY <1>2
<1>4. FlattenSeq(ss) = C[Len(ss)]
  BY DEF FlattenSeq
<1> HIDE DEF C
<1>5. DOMAIN C = 1 .. Len(ss) /\ Joins(C, ss)
  BY <1>3 DEF Joins
<1> QED BY <1>4, <1>5

LEMMA LaidOutMore ==
    ASSUME NEW S, NEW A \in Seq(S), NEW B \in Seq(S), NEW n \in Nat, NEW ss, ss[n + 1] = B,
           NEW o, \A i \in 1 .. n : o[i] \in Nat /\ Len(ss[i]) \in Nat, LaidOut(A, ss, n, o),
           NEW L, L = A \o B
    PROVE  /\ L \in Seq(S)
           /\ \E q : LaidOut(L, ss, n + 1, q) /\ \A i \in 1 .. n + 1 : q[i] \in Nat
<1>1. /\ L \in Seq(S) /\ Len(L) = Len(A) + Len(B) /\ Len(A) \in Nat /\ Len(B) \in Nat
      /\ \A i \in 1 .. Len(A) : L[i] = A[i]
      /\ \A i \in Len(A) + 1 .. Len(A) + Len(B) : L[i] = B[i - Len(A)]
  BY Concatenation
<1>2. /\ \A i \in 1 .. n : \A j \in 1 .. Len(ss[i]) : o[i] + j \in 1 .. Len(A) /\ A[o[i] + j] = ss[i][j]
      /\ \A k \in 1 .. Len(A) : \E i \in 1 .. n : \E j \in 1 .. Len(ss[i]) : k = o[i] + j
      /\ \A h, i \in 1 .. n : h < i => o[h] + Len(ss[h]) <= o[i]
      /\ \A i \in 1 .. n : o[i] + Len(ss[i]) <= Len(A)
  BY DEF LaidOut
<1> DEFINE q == [i \in 1 .. n + 1 |-> IF i = n + 1 THEN Len(A) ELSE o[i]]
<1>3. /\ n + 1 \in 1 .. n + 1 /\ q[n + 1] = Len(A)
      /\ \A i \in 1 .. n : q[i] = o[i] /\ i \in 1 .. n + 1
  OBVIOUS
<1>4. \A i \in 1 .. n + 1 : i = n + 1 \/ i \in 1 .. n
  OBVIOUS
<1> HIDE DEF q
<1>5. ASSUME NEW i \in 1 .. n + 1, NEW j \in 1 .. Len(ss[i])
      PROVE  q[i] + j \in 1 .. Len(L) /\ L[q[i] + j] = ss[i][j]
  <2>1. CASE i = n + 1
    <3>1. j \in 1 .. Len(B) /\ q[i] = Len(A)
      BY <1>3, <2>1
    <3>2. Len(A) + j \in Len(A) + 1 .. Len(A) + Len(B) /\ Len(A) + j - Len(A) = j
      BY <1>1, <3>1
    <3> QED BY <1>1, <2>1, <3>1, <3>2
  <2>2. CASE i \in 1 .. n
    <3>1. q[i] = o[i] /\ o[i] + j \in 1 .. Len(A) /\ A[o[i] + j] = ss[i][j]
      BY <1>2, <1>3, <2>2
    <3>2. \A k \in 1 .. Len(A) : k \in 1 .. Len(L)
      BY <1>1
    <3> QED BY <1>1, <3>1, <3>2
  <2> QED BY <1>4, <2>1, <2>2
<1>6. ASSUME NEW k \in 1 .. Len(L) PROVE \E i \in 1 .. n + 1 : \E j \in 1 .. Len(ss[i]) : k = q[i] + j
  <2>1. CASE k <= Len(A)
    <3>1. k \in 1 .. Len(A)
      BY <1>1, <2>1
    <3>2. PICK i \in 1 .. n : \E j \in 1 .. Len(ss[i]) : k = o[i] + j
      BY <1>2, <3>1
    <3> QED BY <1>3, <3>2
  <2>2. CASE k > Len(A)
    <3>1. k - Len(A) \in 1 .. Len(B) /\ k = Len(A) + (k - Len(A))
      BY <1>1, <2>2
    <3>2. k - Len(A) \in 1 .. Len(ss[n + 1]) /\ k = q[n + 1] + (k - Len(A))
      BY <1>3, <3>1
    <3> QED BY <1>3, <3>2
  <2> QED BY <1>1, <2>1, <2>2
<1>7. ASSUME NEW h \in 1 .. n + 1, NEW i \in 1 .. n + 1, h < i PROVE q[h] + Len(ss[h]) <= q[i]
  <2>1. h \in 1 .. n /\ q[h] = o[h]
    BY <1>3, <1>4, <1>7
  <2>2. i = n + 1 \/ (i \in 1 .. n /\ q[i] = o[i])
    BY <1>3, <1>4
  <2> QED BY <1>2, <1>3, <1>7, <2>1, <2>2
<1>8. ASSUME NEW i \in 1 .. n + 1 PROVE q[i] + Len(ss[i]) <= Len(L) /\ q[i] \in Nat
  <2>1. CASE i = n + 1
    BY <1>1, <1>3, <2>1
  <2>2. CASE i \in 1 .. n
    <3>1. q[i] = o[i] /\ o[i] \in Nat /\ Len(ss[i]) \in Nat /\ o[i] + Len(ss[i]) <= Len(A)
      BY <1>2, <1>3, <2>2
    <3> QED BY <1>1, <3>1
  <2> QED BY <1>4, <2>1, <2>2
<1>9. LaidOut(L, ss, n + 1, q)
  BY <1>5, <1>6, <1>7, <1>8 DEF LaidOut
<1> QED BY <1>1, <1>8, <1>9

\* X is the first n sequences of ss, one after the other.
IsFlat(S, ss, n, X) ==
    X \in Seq(S) /\ \E o : LaidOut(X, ss, n, o) /\ \A i \in 1 .. n : o[i] \in Nat

LEMMA FlatMore ==
    ASSUME NEW S, NEW A, NEW B \in Seq(S), NEW n \in Nat, NEW ss, ss[n + 1] = B,
           \A i \in 1 .. n : Len(ss[i]) \in Nat, IsFlat(S, ss, n, A)
    PROVE  IsFlat(S, ss, n + 1, A \o B)
<1>1. PICK o : LaidOut(A, ss, n, o) /\ \A i \in 1 .. n : o[i] \in Nat
  BY DEF IsFlat
<1>2. A \in Seq(S)
  BY DEF IsFlat
<1>3. \A i \in 1 .. n : o[i] \in Nat /\ Len(ss[i]) \in Nat
  BY <1>1
<1>4. PICK L : L = A \o B
  OBVIOUS
<1>5. L \in Seq(S) /\ \E q : LaidOut(L, ss, n + 1, q) /\ \A i \in 1 .. n + 1 : q[i] \in Nat
  BY <1>1, <1>2, <1>3, <1>4, LaidOutMore
<1> QED BY <1>4, <1>5 DEF IsFlat

LEMMA FlatOne ==
    ASSUME NEW S, NEW ss, ss[1] \in Seq(S)
    PROVE  IsFlat(S, ss, 1, ss[1])
<1>1. Len(ss[1]) \in Nat /\ 1 .. 1 = {1}
  OBVIOUS
<1>2. PICK o : o = [i \in {1} |-> 0]
  OBVIOUS
<1>3. o[1] = 0
  BY <1>2
<1>4. LaidOut(ss[1], ss, 1, o)
  <2>1. \A j \in 1 .. Len(ss[1]) : 0 + j = j
    OBVIOUS
  <2> QED BY <1>1, <1>3, <2>1 DEF LaidOut
<1> QED BY <1>1, <1>3, <1>4 DEF IsFlat

LEMMA FlattenFacts ==
    ASSUME NEW S, NEW ss, Len(ss) \in Nat, ss \in Seq(Seq(S))
    PROVE  IsFlat(S, ss, Len(ss), FlattenSeq(ss))
<1>0. \A i \in 1 .. Len(ss) : ss[i] \in Seq(S) /\ Len(ss[i]) \in Nat
  OBVIOUS
<1>1. CASE Len(ss) = 0
  <2>1. ss = <<>>
    BY <1>1
  <2>2. FlattenSeq(ss) = <<>>
    BY <2>1 DEF FlattenSeq
  <2>3. LaidOut(<<>>, ss, 0, <<>>)
    <3>1. 1 .. 0 = {} /\ Len(<<>>) = 0
      OBVIOUS
    <3> QED BY <3>1 DEF LaidOut
  <2>4. 1 .. 0 = {} /\ <<>> \in Seq(S)
    OBVIOUS
  <2>5. IsFlat(S, ss, 0, <<>>)
    BY <2>3, <2>4 DEF IsFlat
  <2> QED BY <1>1, <2>2, <2>5
<1>2. CASE Len(ss) # 0
  <2>1. PICK F : DOMAIN F = 1 .. Len(ss) /\ Joins(F, ss) /\ FlattenSeq(ss) = F[Len(ss)]
    BY <1>0, <1>2, FlattenIsLast
  <2> DEFINE G == {n \in Nat : n + 1 <= Len(ss) => IsFlat(S, ss, n + 1, F[n + 1])}
  <2>2. 0 \in G
    <3>1. 1 \in 1 .. Len(ss)
      BY <1>2
    <3>2. F[1] = ss[1]
      BY <2>1, <3>1 DEF Joins
    <3>3. ss[1] \in Seq(S)
      BY <1>0, <3>1
    <3>4. IsFlat(S, ss, 1, F[1])
      BY <3>2, <3>3, FlatOne
    <3> QED BY <3>4
  <2>3. ASSUME NEW m \in Nat, m \in G PROVE m + 1 \in G
    <3> SUFFICES ASSUME NEW n \in Nat, n = m + 1, n + 1 <= Len(ss) PROVE IsFlat(S, ss, n + 1, F[n + 1])
      OBVIOUS
    <3>1. IsFlat(S, ss, n, F[n])
      BY <2>3
    <3>2. n + 1 \in 1 .. Len(ss) /\ n + 1 # 1 /\ (n + 1) - 1 = n /\ \A i \in 1 .. n : i \in 1 .. Len(ss)
      OBVIOUS
    <3>3. F[n + 1] = F[n] \o ss[n + 1]
      BY <2>1, <3>2 DEF Joins
    <3>4. ss[n + 1] \in Seq(S) /\ \A i \in 1 .. n : Len(ss[i]) \in Nat
      BY <1>0, <3>2
    <3>5. IsFlat(S, ss, n + 1, F[n] \o ss[n + 1])
      BY <3>1, <3>4, FlatMore
    <3> QED BY <3>3, <3>5
  <2>4. \A m \in Nat : m \in G
    <3> HIDE DEF G
    <3> QED BY <2>2, <2>3, InductionOnNat
  <2>5. IsFlat(S, ss, Len(ss), F[Len(ss)])
    <3>1. Len(ss) - 1 \in Nat /\ (Len(ss) - 1) + 1 = Len(ss)
      BY <1>2
    <3>2. Len(ss) - 1 \in G
      BY <2>4, <3>1
    <3> QED BY <3>1, <3>2
  <2> QED BY <2>1, <2>5
<1> QED BY <1>1, <1>2

LEMMA FlattenElements ==
    ASSUME NEW S, NEW ss, Len(ss) \in Nat, ss \in Seq(Seq(S)), NEW X, X = FlattenSeq(ss)
    PROVE  X \in Seq(S) /\ ToSet(X) = UNION {ToSet(ss[i]) : i \in 1 .. Len(ss)}
<1>1. IsFlat(S, ss, Len(ss), FlattenSeq(ss))
  BY FlattenFacts
<1>2. IsFlat(S, ss, Len(ss), X)
  BY <1>1
<1>3. PICK o : LaidOut(X, ss, Len(ss), o)
  BY <1>2 DEF IsFlat
<1>4. /\ \A i \in 1 .. Len(ss) : \A j \in 1 .. Len(ss[i]) : o[i] + j \in 1 .. Len(X) /\ X[o[i] + j] = ss[i][j]
      /\ \A k \in 1 .. Len(X) : \E i \in 1 .. Len(ss) : \E j \in 1 .. Len(ss[i]) : k = o[i] + j
  BY <1>3 DEF LaidOut
<1>5. X \in Seq(S) /\ DOMAIN X = 1 .. Len(X) /\ \A i \in 1 .. Len(ss) : DOMAIN ss[i] = 1 .. Len(ss[i])
  BY <1>2 DEF IsFlat
<1>6. ASSUME NEW x \in ToSet(X) PROVE \E i \in 1 .. Len(ss) : x \in ToSet(ss[i])
  <2>1. PICK k \in 1 .. Len(X) : x = X[k]
    BY <1>5 DEF ToSet
  <2>2. PICK i \in 1 .. Len(ss) : \E j \in 1 .. Len(ss[i]) : k = o[i] + j
    BY <1>4
  <2>3. PICK j \in 1 .. Len(ss[i]) : k = o[i] + j
    BY <2>2
  <2>4. x = ss[i][j]
    BY <1>4, <2>1, <2>3
  <2> QED BY <1>5, <2>4 DEF ToSet
<1>7. ASSUME NEW i \in 1 .. Len(ss), NEW x \in ToSet(ss[i]) PROVE x \in ToSet(X)
  <2>1. PICK j \in 1 .. Len(ss[i]) : x = ss[i][j]
    BY <1>5 DEF ToSet
  <2>2. x = X[o[i] + j] /\ o[i] + j \in 1 .. Len(X)
    BY <1>4, <2>1
  <2> QED BY <1>5, <2>2 DEF ToSet
<1>8. ToSet(X) = UNION {ToSet(ss[i]) : i \in 1 .. Len(ss)}
  BY <1>6, <1>7
<1> QED BY <1>5, <1>8

LEMMA JoinedSet ==
    ASSUME NEW S, NEW p \in Seq(S), NEW t \in Seq(S)
    PROVE  p \o t \in Seq(S) /\ ToSet(p \o t) = ToSet(p) \cup ToSet(t)
<1>1. /\ p \o t \in Seq(S) /\ Len(p \o t) = Len(p) + Len(t) /\ Len(p) \in Nat /\ Len(t) \in Nat
      /\ \A i \in 1 .. Len(p) : (p \o t)[i] = p[i]
      /\ \A i \in Len(p) + 1 .. Len(p) + Len(t) : (p \o t)[i] = t[i - Len(p)] /\ i - Len(p) \in 1 .. Len(t)
  BY Concatenation
<1>2. PICK L : L = p \o t
  OBVIOUS
<1>3. DOMAIN L = 1 .. Len(p) + Len(t) /\ DOMAIN p = 1 .. Len(p) /\ DOMAIN t = 1 .. Len(t)
  BY <1>1, <1>2
<1>4. ASSUME NEW x \in ToSet(L) PROVE x \in ToSet(p) \cup ToSet(t)
  <2>1. PICK k \in 1 .. Len(p) + Len(t) : x = L[k]
    BY <1>3 DEF ToSet
  <2>2. k \in 1 .. Len(p) \/ k \in Len(p) + 1 .. Len(p) + Len(t)
    BY <1>1
  <2> QED BY <1>1, <1>2, <1>3, <2>1, <2>2 DEF ToSet
<1>5. ASSUME NEW x \in ToSet(p) PROVE x \in ToSet(L)
  <2>1. PICK k \in 1 .. Len(p) : x = p[k]
    BY <1>3 DEF ToSet
  <2>2. L[k] = x /\ k \in 1 .. Len(p) + Len(t)
    BY <1>1, <1>2, <2>1
  <2> QED BY <1>3, <2>2 DEF ToSet
<1>6. ASSUME NEW x \in ToSet(t) PROVE x \in ToSet(L)
  <2>1. PICK k \in 1 .. Len(t) : x = t[k]
    BY <1>3 DEF ToSet
  <2>2. Len(p) + k \in Len(p) + 1 .. Len(p) + Len(t) /\ (Len(p) + k) - Len(p) = k
    BY <1>1
  <2>3. L[Len(p) + k] = x /\ Len(p) + k \in 1 .. Len(p) + Len(t)
    BY <1>1, <1>2, <2>1, <2>2
  <2> QED BY <1>3, <2>3 DEF ToSet
<1> QED BY <1>1, <1>2, <1>4, <1>5, <1>6

LEMMA ListSet ==
    ASSUME NEW S, NEW n \in Nat, NEW ss, DOMAIN ss = 1 .. n, ss = [i \in 1 .. n |-> ss[i]],
           \A i \in 1 .. n : ss[i] \in S
    PROVE  ss \in Seq(S) /\ Len(ss) = n /\ ToSet(ss) = {ss[i] : i \in 1 .. n}
BY DEF ToSet

LEMMA ShortSets == ASSUME NEW S, NEW x \in S
                   PROVE  <<x>> \in Seq(S) /\ <<>> \in Seq(S) /\ ToSet(<<x>>) = {x} /\ ToSet(<<>>) = {}
BY DEF ToSet

-----------------------------------------------------------------------------
(* The cases of the plan as a set. *)

PathNames == {"logits", "topk", "argmax"}
Samples == [path : PathNames, penalties : BOOLEAN, logprobs : BOOLEAN]
CaseType == [batch : Nat, length : Nat, cached : Nat, sampling : Samples]

LEMMA SetupFacts ==
    ASSUME setup \in Setups
    PROVE  /\ setup.lane \in Nat \ {0} /\ setup.mode \in {"decode_only", "all"}
           /\ setup.script \in Scripts(setup.mode)
           /\ setup.sampling \in BOOLEAN /\ setup.argmax \in BOOLEAN /\ setup.logprobs \in BOOLEAN
           /\ setup.argmax \/ setup.logprobs => setup.sampling
           /\ setup.primes \in {"before", "around"}
           /\ \A b \in DOMAIN setup.waves : /\ b \in 1 .. MaxChunk /\ PaddedLength(b) = b
                                            /\ setup.waves[b] \in BatchSizes /\ setup.waves[b] \in Nat
                                            /\ 2 <= setup.waves[b] /\ setup.waves[b] <= setup.lane
           /\ setup.declared \subseteq Nat /\ IsFiniteSet(setup.declared)
           /\ \A length \in WarmLengths(setup) : length > 0 /\ PaddedLength(length) = length
<1> DEFINE s == setup
<1>1. /\ s.lane \in Nat \ {0} /\ s.mode \in {"decode_only", "all"} /\ s.script \in Scripts(s.mode)
      /\ {s.sampling, s.argmax, s.logprobs} \subseteq BOOLEAN /\ (s.argmax \/ s.logprobs => s.sampling)
      /\ s.primes \in {"before", "around"}
      /\ \A b \in DOMAIN s.waves : /\ b \in 1 .. MaxChunk /\ PaddedLength(b) = b
                                   /\ s.waves[b] \in BatchSizes \cap 2 .. s.lane
      /\ s.declared \subseteq Nat /\ IsFiniteSet(s.declared)
      /\ \A length \in WarmLengths(s) : length > 0 /\ PaddedLength(length) = length
  BY SetupsAssumption
<1> QED BY <1>1

\* The lengths of warm-up are finitely many positive buckets.
LEMMA WarmLengthsFacts ==
    ASSUME setup \in Setups
    PROVE  /\ WarmLengths(setup) \in SUBSET Nat /\ IsFiniteSet(WarmLengths(setup))
           /\ WarmLengths(setup) \in SUBSET Int
           /\ \A length \in WarmLengths(setup) : length \in Nat \ {0} /\ PaddedLength(length) = length
<1>1. Ladder(MaxLength) \subseteq Nat /\ IsFiniteSet(Ladder(MaxLength))
  <2> DEFINE top == Least(MaxChunk, LadderTop(MaxLength))
             buckets == {b \in SmallBucket .. top : PaddedLength(b) = b}
  <2>1. top \in Nat
    <3>1. PaddedLength(MaxLength) \in Nat
      BY Geometry, PaddedCovers
    <3>2. LadderTop(MaxLength) \in Nat
      BY <3>1, Geometry DEF LadderTop
    <3> QED BY <3>2, Geometry DEF Least
  <2>2. Ladder(MaxLength) = IF buckets = {} THEN {top} ELSE buckets
    BY DEF Ladder
  <2>3. IsFiniteSet(SmallBucket .. top) /\ IsFiniteSet({top})
    <3>1. SmallBucket \in Int /\ top \in Int
      BY <2>1, Geometry
    <3>2. IsFiniteSet(SmallBucket .. top)
      BY <3>1, FS_Interval
    <3> QED BY <3>2, FS_Singleton
  <2>4. buckets \subseteq SmallBucket .. top /\ SmallBucket .. top \subseteq Nat
    BY <2>1, Geometry
  <2> HIDE DEF top, buckets
  <2>5. IsFiniteSet(buckets)
    BY <2>3, <2>4, FS_Subset
  <2> QED BY <2>1, <2>2, <2>3, <2>4, <2>5
<1>2. IsFiniteSet(Supported \cup Ladder(MaxLength))
  BY <1>1, SupportedAssumption, FS_Union
<1>3. WarmLengths(setup) \subseteq Nat /\ IsFiniteSet(WarmLengths(setup))
  BY <1>1, <1>2, SupportedAssumption, SetupFacts DEF WarmLengths
<1>4. \A length \in WarmLengths(setup) : length > 0 /\ PaddedLength(length) = length
  BY SetupFacts
<1> QED BY <1>3, <1>4

PathSet(single) ==
    {"logits"} \cup (IF setup.sampling THEN {"topk"} ELSE {})
    \cup (IF setup.sampling /\ setup.argmax /\ single THEN {"argmax"} ELSE {})

LEMMA PathsFacts ==
    ASSUME NEW single
    PROVE  /\ Paths(single) \in Seq(PathNames) /\ ToSet(Paths(single)) = PathSet(single)
           /\ Paths(single)[1] = "logits" /\ Len(Paths(single)) \in Nat \ {0}
<1> DEFINE P == PathNames
           a == <<"logits">>
           b == IF setup.sampling THEN <<"topk">> ELSE <<>>
           c == IF setup.sampling /\ setup.argmax /\ single THEN <<"argmax">> ELSE <<>>
<1>1. "logits" \in P /\ "topk" \in P /\ "argmax" \in P
  BY DEF PathNames
<1> HIDE DEF P
<1>2. a \in Seq(P) /\ ToSet(a) = {"logits"}
  BY <1>1, ShortSets
<1>3. b \in Seq(P) /\ ToSet(b) = IF setup.sampling THEN {"topk"} ELSE {}
  BY <1>1, ShortSets
<1>4. c \in Seq(P) /\ ToSet(c) = IF setup.sampling /\ setup.argmax /\ single THEN {"argmax"} ELSE {}
  BY <1>1, ShortSets
<1>5. Paths(single) = (a \o b) \o c
  BY DEF Paths
<1>6. a[1] = "logits" /\ Len(a) = 1
  OBVIOUS
<1> HIDE DEF a, b, c
<1>7. /\ a \o b \in Seq(P) /\ ToSet(a \o b) = ToSet(a) \cup ToSet(b)
      /\ Len(a \o b) \in Nat \ {0} /\ (a \o b)[1] = "logits"
  <2>1. Len(a \o b) = Len(a) + Len(b) /\ Len(b) \in Nat /\ \A i \in 1 .. Len(a) : (a \o b)[i] = a[i]
    BY <1>2, <1>3, Concatenation
  <2>2. a \o b \in Seq(P) /\ ToSet(a \o b) = ToSet(a) \cup ToSet(b)
    BY <1>2, <1>3, JoinedSet
  <2> QED BY <1>6, <2>1, <2>2
<1>8. PICK q : q = a \o b
  OBVIOUS
<1>9. q \in Seq(P) /\ Len(q) \in Nat \ {0} /\ q[1] = "logits" /\ ToSet(q) = ToSet(a) \cup ToSet(b)
  BY <1>7, <1>8
<1>10. /\ Len(q \o c) = Len(q) + Len(c) /\ Len(c) \in Nat /\ \A i \in 1 .. Len(q) : (q \o c)[i] = q[i]
  BY <1>4, <1>9, Concatenation
<1>11. q \o c \in Seq(P) /\ ToSet(q \o c) = ToSet(q) \cup ToSet(c)
  BY <1>4, <1>9, JoinedSet
<1>12. (q \o c)[1] = "logits" /\ Len(q \o c) \in Nat \ {0}
  BY <1>9, <1>10
<1>13. Paths(single) = q \o c
  BY <1>5, <1>8
<1>14. PathSet(single) = (ToSet(a) \cup ToSet(b)) \cup ToSet(c)
  BY <1>2, <1>3, <1>4 DEF PathSet
<1> QED BY <1>9, <1>11, <1>12, <1>13, <1>14 DEF P

PathsOf(batch) == PathSet(batch = 1)

CaseOf(batch, length, cached, sampling) ==
    [batch |-> batch, length |-> length, cached |-> cached, sampling |-> sampling]

LEMMA CasesOfFacts ==
    ASSUME NEW batch \in Nat, NEW length \in Nat, NEW cached \in Nat, NEW L, L = CasesOf(batch, length, cached)
    PROVE  /\ L \in Seq(CaseType) /\ Len(L) \in Nat \ {0}
           /\ ToSet(L) = {CaseOf(batch, length, cached, Plain(path)) : path \in PathsOf(batch)}
           /\ L[1] = CaseOf(batch, length, cached, Plain("logits"))
<1> DEFINE P == Paths(batch = 1)
           C(path) == CaseOf(batch, length, cached, Plain(path))
<1>1. P \in Seq(PathNames) /\ ToSet(P) = PathsOf(batch) /\ P[1] = "logits" /\ Len(P) \in Nat \ {0}
  BY PathsFacts DEF PathsOf
<1>2. L = [p \in 1 .. Len(P) |-> C(P[p])]
  BY DEF CasesOf, CaseOf
<1>3. \A path \in PathNames : C(path) \in CaseType
  BY DEF CaseOf, CaseType, Samples, Plain
<1> HIDE DEF P, C
<1>4. DOMAIN P = 1 .. Len(P) /\ \A p \in 1 .. Len(P) : P[p] \in PathNames
  BY <1>1
<1>5. Len(L) = Len(P) /\ DOMAIN L = 1 .. Len(P) /\ \A p \in 1 .. Len(P) : L[p] = C(P[p])
  BY <1>1, <1>2
<1>6. L \in Seq(CaseType)
  BY <1>1, <1>2, <1>3, <1>4
<1>7. ToSet(L) = {C(path) : path \in ToSet(P)}
  BY <1>4, <1>5 DEF ToSet
<1>8. L[1] = C("logits")
  BY <1>1, <1>5
<1> QED BY <1>1, <1>5, <1>6, <1>7, <1>8 DEF C

FullCase(bucket) == CaseOf(setup.waves[bucket], bucket, 0, Plain("logits"))

\* The batches and prefixes that the plan has for a length.
Planning(batch, length, cached) ==
    \/ cached = 0 /\ (batch = 1 \/ (length \in DOMAIN setup.waves /\ batch = setup.waves[length]))
    \/ cached = BlockSize /\ batch = 1 /\ FitsCached(length)

LEMMA FlattenFirst ==
    ASSUME NEW S, NEW ss, Len(ss) \in Nat \ {0}, ss \in Seq(Seq(S)), ss[1] # <<>>, NEW X, X = FlattenSeq(ss)
    PROVE  Len(X) # 0 /\ X[1] = ss[1][1]
<1>1. IsFlat(S, ss, Len(ss), FlattenSeq(ss))
  BY FlattenFacts
<1>2. IsFlat(S, ss, Len(ss), X)
  BY <1>1
<1>3. PICK o : LaidOut(X, ss, Len(ss), o) /\ \A i \in 1 .. Len(ss) : o[i] \in Nat
  BY <1>2 DEF IsFlat
<1>4. /\ \A i \in 1 .. Len(ss) : \A j \in 1 .. Len(ss[i]) : o[i] + j \in 1 .. Len(X) /\ X[o[i] + j] = ss[i][j]
      /\ \A k \in 1 .. Len(X) : \E i \in 1 .. Len(ss) : \E j \in 1 .. Len(ss[i]) : k = o[i] + j
      /\ \A h, i \in 1 .. Len(ss) : h < i => o[h] + Len(ss[h]) <= o[i]
  BY <1>3 DEF LaidOut
<1>5. 1 \in 1 .. Len(ss) /\ Len(ss[1]) \in Nat \ {0} /\ Len(X) \in Nat
  <2>1. 1 \in 1 .. Len(ss) /\ ss[1] \in Seq(S) /\ X \in Seq(S)
    BY <1>2 DEF IsFlat
  <2> QED BY <2>1
<1>6. 1 \in 1 .. Len(ss[1]) /\ o[1] \in Nat
  BY <1>3, <1>5
<1>7. o[1] + 1 \in 1 .. Len(X) /\ X[o[1] + 1] = ss[1][1]
  BY <1>4, <1>5, <1>6
<1>8. 1 \in 1 .. Len(X)
  BY <1>5, <1>6, <1>7
<1>9. PICK i \in 1 .. Len(ss) : \E j \in 1 .. Len(ss[i]) : 1 = o[i] + j
  BY <1>4, <1>8
<1>10. PICK j \in 1 .. Len(ss[i]) : 1 = o[i] + j
  BY <1>9
<1>11. i = 1 \/ o[1] + Len(ss[1]) <= o[i]
  <2>1. i = 1 \/ 1 < i
    OBVIOUS
  <2> QED BY <1>4, <1>5, <2>1
<1>12. o[i] \in Nat /\ j \in Nat /\ j >= 1
  <2>1. ss[i] \in Seq(S)
    OBVIOUS
  <2>2. Len(ss[i]) \in Nat
    BY <2>1
  <2> QED BY <1>3, <2>2
<1>13. o[1] = 0
  BY <1>5, <1>6, <1>10, <1>11, <1>12
<1> QED BY <1>5, <1>7, <1>8, <1>13

LEMMA UncachedCases ==
    ASSUME setup \in Setups, NEW length \in Nat, NEW B, B = Batches(length),
           NEW ss, ss = [b \in 1 .. Len(B) |->
                           IF B[b] <= setup.lane THEN CasesOf(B[b], length, 0) ELSE <<>>],
           NEW X, X = FlattenSeq(ss)
    PROVE  /\ X \in Seq(CaseType) /\ Len(X) # 0
           /\ ToSet(X) = UNION {ToSet(CasesOf(b, length, 0)) : b \in ToSet(B)}
           /\ length \in DOMAIN setup.waves => X[1] = FullCase(length)
<1>1. /\ Len(B) \in Nat \ {0} /\ DOMAIN B = 1 .. Len(B)
      /\ \A b \in 1 .. Len(B) : B[b] \in Nat \ {0} /\ B[b] <= setup.lane
      /\ length \in DOMAIN setup.waves => B[1] = setup.waves[length]
  <2>1. CASE length \in DOMAIN setup.waves
    <3>1. setup.waves[length] \in Nat /\ 2 <= setup.waves[length] /\ setup.waves[length] <= setup.lane
      BY <2>1, SetupFacts
    <3>2. B = <<setup.waves[length], 1>>
      BY <2>1 DEF Batches
    <3>3. setup.lane \in Nat
      BY SetupFacts
    <3> QED BY <3>1, <3>2, <3>3
  <2>2. CASE length \notin DOMAIN setup.waves
    <3>1. B = <<1>> /\ setup.lane \in Nat \ {0}
      BY <2>2, SetupFacts DEF Batches
    <3> QED BY <2>2, <3>1
  <2> QED BY <2>1, <2>2
<1>2. PICK F : F = [b \in 1 .. Len(B) |-> CasesOf(B[b], length, 0)]
  OBVIOUS
<1>3. ss = F
  <2> HIDE DEF CasesOf
  <2>1. \A b \in 1 .. Len(B) : B[b] <= setup.lane
    BY <1>1
  <2> QED BY <1>2, <2>1
<1>4. DOMAIN F = 1 .. Len(B) /\ \A b \in 1 .. Len(B) : F[b] = CasesOf(B[b], length, 0)
  BY <1>2
<1>5. ASSUME NEW b \in 1 .. Len(B)
      PROVE  /\ F[b] \in Seq(CaseType) /\ Len(F[b]) \in Nat \ {0}
             /\ F[b][1] = CaseOf(B[b], length, 0, Plain("logits"))
  <2>1. PICK n : n = B[b]
    OBVIOUS
  <2>2. n \in Nat /\ 0 \in Nat /\ length \in Nat /\ F[b] = CasesOf(n, length, 0)
    BY <1>1, <1>4, <2>1
  <2>3. /\ F[b] \in Seq(CaseType) /\ Len(F[b]) \in Nat \ {0}
        /\ F[b][1] = CaseOf(n, length, 0, Plain("logits"))
    BY <2>2, CasesOfFacts
  <2> QED BY <2>1, <2>3
<1>6. F \in Seq(Seq(CaseType)) /\ Len(F) = Len(B)
  <2>1. F = [b \in 1 .. Len(B) |-> F[b]]
    BY <1>2, <1>4
  <2> QED BY <1>1, <1>4, <1>5, <2>1, ListSet
<1>7. Len(F) \in Nat /\ X = FlattenSeq(F)
  BY <1>1, <1>3, <1>6
<1>8. X \in Seq(CaseType) /\ ToSet(X) = UNION {ToSet(F[b]) : b \in 1 .. Len(F)}
  BY <1>6, <1>7, FlattenElements
<1>9. ToSet(B) = {B[b] : b \in 1 .. Len(B)}
  BY <1>1 DEF ToSet
<1>10. UNION {ToSet(F[b]) : b \in 1 .. Len(F)} = UNION {ToSet(CasesOf(n, length, 0)) : n \in ToSet(B)}
  <2> HIDE DEF CasesOf
  <2>1. ASSUME NEW b \in 1 .. Len(F) PROVE B[b] \in ToSet(B) /\ F[b] = CasesOf(B[b], length, 0)
    BY <1>4, <1>6, <1>9
  <2>2. ASSUME NEW n \in ToSet(B) PROVE \E b \in 1 .. Len(F) : n = B[b] /\ F[b] = CasesOf(n, length, 0)
    <3>1. PICK b \in 1 .. Len(B) : n = B[b]
      BY <1>9
    <3> QED BY <1>4, <1>6, <3>1
  <2>3. PICK U : U = UNION {ToSet(F[b]) : b \in 1 .. Len(F)}
    OBVIOUS
  <2>4. PICK V : V = UNION {ToSet(CasesOf(n, length, 0)) : n \in ToSet(B)}
    OBVIOUS
  <2>5. \A x \in U : x \in V
    BY <2>1, <2>3, <2>4
  <2>6. \A x \in V : x \in U
    BY <2>2, <2>3, <2>4
  <2>7. U = V
    BY <2>5, <2>6
  <2> QED BY <2>3, <2>4, <2>7
<1>11. 1 \in 1 .. Len(B) /\ Len(F) # 0
  BY <1>1, <1>6
<1>12. F[1] # <<>>
  BY <1>5, <1>11
<1>13. Len(X) # 0 /\ X[1] = F[1][1]
  BY <1>6, <1>7, <1>11, <1>12, FlattenFirst
<1>14. length \in DOMAIN setup.waves => X[1] = FullCase(length)
  BY <1>1, <1>5, <1>11, <1>13 DEF FullCase
<1> QED BY <1>8, <1>10, <1>13, <1>14

LEMMA CasesOfLengthFacts ==
    ASSUME setup \in Setups, NEW length \in Nat, NEW L, L = CasesOfLength(length)
    PROVE  /\ L \in Seq(CaseType)
           /\ length \in DOMAIN setup.waves => Len(L) # 0 /\ L[1] = FullCase(length)
           /\ \A case \in CaseType : case \in ToSet(L) <=>
                 /\ case.length = length /\ Planning(case.batch, length, case.cached)
                 /\ \E path \in PathsOf(case.batch) : case.sampling = Plain(path)
<1> DEFINE B == Batches(length)
           ss == [b \in 1 .. Len(B) |-> IF B[b] <= setup.lane THEN CasesOf(B[b], length, 0) ELSE <<>>]
           X == FlattenSeq(ss)
           Y == IF FitsCached(length) THEN CasesOf(1, length, BlockSize) ELSE <<>>
<1>1. /\ X \in Seq(CaseType) /\ ToSet(X) = UNION {ToSet(CasesOf(b, length, 0)) : b \in ToSet(B)}
      /\ Len(X) # 0 /\ (length \in DOMAIN setup.waves => X[1] = FullCase(length))
  <2>1. PICK b : b = B
    OBVIOUS
  <2>2. PICK s : s = [i \in 1 .. Len(b) |-> IF b[i] <= setup.lane THEN CasesOf(b[i], length, 0) ELSE <<>>]
    OBVIOUS
  <2>3. PICK x : x = FlattenSeq(s)
    OBVIOUS
  <2>4. x = X
    BY <2>1, <2>2, <2>3
  <2>5. /\ x \in Seq(CaseType) /\ ToSet(x) = UNION {ToSet(CasesOf(i, length, 0)) : i \in ToSet(b)}
        /\ Len(x) # 0 /\ (length \in DOMAIN setup.waves => x[1] = FullCase(length))
    BY <2>1, <2>2, <2>3, UncachedCases
  <2> HIDE DEF B, X
  <2> QED BY <2>1, <2>4, <2>5
<1>2. /\ Y \in Seq(CaseType)
      /\ ToSet(Y) = IF FitsCached(length) THEN ToSet(CasesOf(1, length, BlockSize)) ELSE {}
  <2>1. CasesOf(1, length, BlockSize) \in Seq(CaseType)
    BY Geometry, CasesOfFacts
  <2>2. <<>> \in Seq(CaseType) /\ ToSet(<<>>) = {}
    BY DEF ToSet
  <2> HIDE DEF CasesOf
  <2> QED BY <2>1, <2>2
<1>3. L = X \o Y
  BY DEF CasesOfLength
<1>4. \A b : b \in ToSet(B) <=> b = 1 \/ (length \in DOMAIN setup.waves /\ b = setup.waves[length])
  BY DEF Batches, ToSet
<1> HIDE DEF B, ss, X, Y
<1>5. L \in Seq(CaseType) /\ ToSet(L) = ToSet(X) \cup ToSet(Y)
  <2>1. X \in Seq(CaseType) /\ Y \in Seq(CaseType)
    BY <1>1, <1>2
  <2>2. X \o Y \in Seq(CaseType) /\ ToSet(X \o Y) = ToSet(X) \cup ToSet(Y)
    BY <2>1, JoinedSet
  <2> QED BY <1>3, <2>2
<1>6. length \in DOMAIN setup.waves => Len(L) # 0 /\ L[1] = FullCase(length)
  <2>1. Len(L) = Len(X) + Len(Y) /\ \A i \in 1 .. Len(X) : L[i] = X[i]
    BY <1>1, <1>2, <1>3, Concatenation
  <2>2. Len(X) \in Nat \ {0} /\ Len(Y) \in Nat /\ 1 \in 1 .. Len(X)
    BY <1>1, <1>2
  <2> QED BY <1>1, <2>1, <2>2
<1>7. \A b \in ToSet(B) : b \in Nat
  BY <1>4, SetupFacts
<1>8. ASSUME NEW b \in Nat, NEW c \in Nat, NEW case \in CaseType
      PROVE  case \in ToSet(CasesOf(b, length, c)) <=>
               /\ case.batch = b /\ case.length = length /\ case.cached = c
               /\ \E path \in PathsOf(b) : case.sampling = Plain(path)
  <2>1. ToSet(CasesOf(b, length, c)) = {CaseOf(b, length, c, Plain(path)) : path \in PathsOf(b)}
    <3> HIDE DEF CasesOf
    <3>1. PICK Q : Q = CasesOf(b, length, c) /\ b \in Nat /\ c \in Nat /\ length \in Nat
      OBVIOUS
    <3>2. ToSet(Q) = {CaseOf(b, length, c, Plain(path)) : path \in PathsOf(b)}
      BY <3>1, CasesOfFacts
    <3> QED BY <3>1, <3>2
  <2>2. ASSUME NEW path
        PROVE  case = CaseOf(b, length, c, Plain(path)) <=>
                 /\ case.batch = b /\ case.length = length /\ case.cached = c /\ case.sampling = Plain(path)
    BY DEF CaseOf, CaseType
  <2> QED BY <2>1, <2>2
<1>9. ASSUME NEW case \in CaseType
      PROVE  case \in ToSet(L) <=>
               /\ case.length = length /\ Planning(case.batch, length, case.cached)
               /\ \E path \in PathsOf(case.batch) : case.sampling = Plain(path)
  <2>1. case \in ToSet(X) <=>
          /\ case.length = length /\ case.cached = 0 /\ case.batch \in ToSet(B)
          /\ \E path \in PathsOf(case.batch) : case.sampling = Plain(path)
    <3>1. \A b \in ToSet(B) : case \in ToSet(CasesOf(b, length, 0)) <=>
               /\ case.batch = b /\ case.length = length /\ case.cached = 0
               /\ \E path \in PathsOf(b) : case.sampling = Plain(path)
      <4>1. 0 \in Nat
        OBVIOUS
      <4> QED BY <1>7, <1>8, <4>1
    <3> QED BY <1>1, <3>1
  <2>2. case \in ToSet(Y) <=>
          /\ FitsCached(length)
          /\ case.batch = 1 /\ case.length = length /\ case.cached = BlockSize
          /\ \E path \in PathsOf(case.batch) : case.sampling = Plain(path)
    <3>1. 1 \in Nat /\ BlockSize \in Nat
      BY Geometry
    <3>2. case \in ToSet(CasesOf(1, length, BlockSize)) <=>
               /\ case.batch = 1 /\ case.length = length /\ case.cached = BlockSize
               /\ \E path \in PathsOf(1) : case.sampling = Plain(path)
      BY <1>8, <3>1
    <3> QED BY <1>2, <3>2
  <2> QED BY <1>4, <1>5, <2>1, <2>2 DEF Planning
<1> QED BY <1>5, <1>6, <1>9

\* L has the cases of these paths, and each of them behind those that come before it in cases.
OrderKept(L, cases, paths) ==
    \A k \in 1 .. Len(L) : \E i \in 1 .. Len(cases) :
        /\ L[k] = cases[i]
        /\ \A h \in 1 .. i : cases[h].sampling.path \in paths => \E j \in 1 .. k : L[j] = cases[h]

LEMMA OnPathsFacts ==
    ASSUME NEW S, NEW cases \in Seq(S), NEW paths, NEW L, L = OnPaths(cases, paths)
    PROVE  /\ L \in Seq(S) /\ ToSet(L) = {case \in ToSet(cases) : case.sampling.path \in paths}
           /\ OrderKept(L, cases, paths)
<1>1. Len(cases) \in Nat /\ DOMAIN cases = 1 .. Len(cases) /\ \A i \in 1 .. Len(cases) : cases[i] \in S
  OBVIOUS
<1>2. PICK F : F = [i \in 1 .. Len(cases) |-> IF cases[i].sampling.path \in paths THEN <<cases[i]>> ELSE <<>>]
  OBVIOUS
<1>3. /\ DOMAIN F = 1 .. Len(cases) /\ F = [i \in 1 .. Len(cases) |-> F[i]]
      /\ \A i \in 1 .. Len(cases) : F[i] = IF cases[i].sampling.path \in paths THEN <<cases[i]>> ELSE <<>>
  BY <1>2
<1>4. ASSUME NEW i \in 1 .. Len(cases)
      PROVE  /\ F[i] \in Seq(S) /\ DOMAIN F[i] = 1 .. Len(F[i])
             /\ cases[i].sampling.path \in paths => Len(F[i]) = 1 /\ F[i][1] = cases[i] /\ ToSet(F[i]) = {cases[i]}
             /\ cases[i].sampling.path \notin paths => Len(F[i]) = 0 /\ ToSet(F[i]) = {}
  <2>1. PICK x : x = cases[i]
    OBVIOUS
  <2>2. x \in S /\ <<x>> \in Seq(S) /\ <<>> \in Seq(S) /\ ToSet(<<x>>) = {x} /\ ToSet(<<>>) = {}
    BY <1>1, <2>1, ShortSets
  <2>3. F[i] = IF x.sampling.path \in paths THEN <<x>> ELSE <<>>
    BY <1>3, <2>1
  <2>4. Len(<<x>>) = 1 /\ <<x>>[1] = x /\ Len(<<>>) = 0 /\ DOMAIN <<x>> = 1 .. 1 /\ DOMAIN <<>> = 1 .. 0
    OBVIOUS
  <2>5. CASE x.sampling.path \in paths
    BY <2>1, <2>2, <2>3, <2>4, <2>5
  <2>6. CASE x.sampling.path \notin paths
    BY <2>1, <2>2, <2>3, <2>4, <2>6
  <2> QED BY <2>5, <2>6
<1>5. F \in Seq(Seq(S)) /\ Len(F) = Len(cases) /\ Len(F) \in Nat
  BY <1>1, <1>3, <1>4, ListSet
<1>6. L = FlattenSeq(F)
  BY <1>2 DEF OnPaths
<1>7. L \in Seq(S) /\ ToSet(L) = UNION {ToSet(F[i]) : i \in 1 .. Len(F)}
  BY <1>5, <1>6, FlattenElements
<1>8. ToSet(L) = {case \in ToSet(cases) : case.sampling.path \in paths}
  <2>1. ToSet(cases) = {cases[i] : i \in 1 .. Len(cases)}
    BY <1>1 DEF ToSet
  <2>2. ASSUME NEW case \in ToSet(L) PROVE case \in ToSet(cases) /\ case.sampling.path \in paths
    <3>1. PICK i \in 1 .. Len(cases) : case \in ToSet(F[i])
      BY <1>5, <1>7
    <3>2. case = cases[i] /\ cases[i].sampling.path \in paths
      BY <1>4, <3>1
    <3> QED BY <2>1, <3>2
  <2>3. ASSUME NEW case \in ToSet(cases), case.sampling.path \in paths PROVE case \in ToSet(L)
    <3>1. PICK i \in 1 .. Len(cases) : case = cases[i]
      BY <2>1
    <3>2. case \in ToSet(F[i])
      BY <1>4, <2>3, <3>1
    <3> QED BY <1>5, <1>7, <3>2
  <2> QED BY <2>2, <2>3
<1>9. IsFlat(S, F, Len(F), FlattenSeq(F))
  BY <1>5, FlattenFacts
<1>10. IsFlat(S, F, Len(F), L)
  BY <1>6, <1>9
<1>11. PICK o : LaidOut(L, F, Len(F), o) /\ \A i \in 1 .. Len(F) : o[i] \in Nat
  BY <1>10 DEF IsFlat
<1>12. /\ \A i \in 1 .. Len(F) : \A j \in 1 .. Len(F[i]) : o[i] + j \in 1 .. Len(L) /\ L[o[i] + j] = F[i][j]
       /\ \A k \in 1 .. Len(L) : \E i \in 1 .. Len(F) : \E j \in 1 .. Len(F[i]) : k = o[i] + j
       /\ \A h, i \in 1 .. Len(F) : h < i => o[h] + Len(F[h]) <= o[i]
  BY <1>11 DEF LaidOut
<1>13. ASSUME NEW k \in 1 .. Len(L)
       PROVE  \E i \in 1 .. Len(cases) :
                /\ L[k] = cases[i]
                /\ \A h \in 1 .. i : cases[h].sampling.path \in paths => \E j \in 1 .. k : L[j] = cases[h]
  <2>1. PICK i \in 1 .. Len(F) : \E j \in 1 .. Len(F[i]) : k = o[i] + j
    BY <1>12
  <2>2. PICK m \in 1 .. Len(F[i]) : k = o[i] + m
    BY <2>1
  <2>3. i \in 1 .. Len(cases) /\ cases[i].sampling.path \in paths /\ Len(F[i]) = 1 /\ F[i][1] = cases[i]
    <3>1. i \in 1 .. Len(cases)
      BY <1>5
    <3>2. Len(F[i]) # 0
      BY <2>2
    <3> QED BY <1>4, <3>1, <3>2
  <2>4. m = 1 /\ k = o[i] + 1 /\ L[k] = cases[i]
    BY <1>12, <2>2, <2>3
  <2>5. ASSUME NEW h \in 1 .. i, cases[h].sampling.path \in paths PROVE \E j \in 1 .. k : L[j] = cases[h]
    <3>1. CASE h = i
      <4>1. k \in 1 .. k
        BY <1>7
      <4> QED BY <2>4, <3>1, <4>1
    <3>2. CASE h # i
      <4>1. h \in 1 .. Len(cases) /\ h \in 1 .. Len(F) /\ h < i
        BY <1>5, <2>3, <3>2
      <4>2. Len(F[h]) = 1 /\ F[h][1] = cases[h]
        BY <1>4, <2>5, <4>1
      <4>3. o[h] + 1 \in 1 .. Len(L) /\ L[o[h] + 1] = cases[h]
        <5>1. 1 \in 1 .. Len(F[h])
          BY <4>2
        <5> QED BY <1>12, <4>1, <4>2, <5>1
      <4>4. o[h] + 1 <= o[i]
        BY <1>12, <4>1, <4>2
      <4>5. o[h] \in Nat /\ o[i] \in Nat
        BY <1>11, <4>1
      <4>6. o[h] + 1 \in 1 .. k
        BY <2>4, <4>4, <4>5, SMTT(30)
      <4> QED BY <4>3, <4>6
    <3> QED BY <3>1, <3>2
  <2> QED BY <2>3, <2>4, <2>5
<1>14. OrderKept(L, cases, paths)
  BY <1>13 DEF OrderKept
<1> QED BY <1>7, <1>8, <1>14

Marked(sampling, field) == [sampling EXCEPT ![field] = TRUE]

LEMMA MarkedFacts ==
    ASSUME NEW s \in Samples, NEW field \in {"penalties", "logprobs"}
    PROVE  /\ Marked(s, field) \in Samples /\ Marked(s, field).path = s.path
           /\ Marked(s, field).penalties = (field = "penalties" \/ s.penalties)
           /\ Marked(s, field).logprobs = (field = "logprobs" \/ s.logprobs)
<1>1. CASE field = "penalties"
  BY <1>1 DEF Marked, Samples
<1>2. CASE field = "logprobs"
  BY <1>2 DEF Marked, Samples
<1> QED BY <1>1, <1>2

LEMMA MarkedCase ==
    ASSUME NEW case \in CaseType, NEW field \in {"penalties", "logprobs"}
    PROVE  /\ [case EXCEPT !.sampling[field] = TRUE]
                = CaseOf(case.batch, case.length, case.cached, Marked(case.sampling, field))
           /\ CaseOf(case.batch, case.length, case.cached, Marked(case.sampling, field)) \in CaseType
           /\ case.sampling \in Samples
<1>1. PICK s : s = Marked(case.sampling, field)
  OBVIOUS
<1>2. case.sampling \in Samples
  BY DEF CaseType
<1>3. s \in Samples
  BY <1>1, <1>2, MarkedFacts
<1>4. [case EXCEPT !.sampling[field] = TRUE] = [case EXCEPT !.sampling = s]
  BY <1>1 DEF Marked
<1>5. [case EXCEPT !.sampling = s] = CaseOf(case.batch, case.length, case.cached, s)
  BY DEF CaseOf, CaseType
<1>6. CaseOf(case.batch, case.length, case.cached, s) \in CaseType
  BY <1>3 DEF CaseOf, CaseType
<1> QED BY <1>1, <1>2, <1>4, <1>5, <1>6

\* The lengths, batches and prefixes of the plan.
Belongs(case) == case.length \in WarmLengths(setup) /\ Planning(case.batch, case.length, case.cached)

\* L has the cases of the plan that sample in one of the ways A has for their batch.
Lists(L, A) == \A case \in CaseType : case \in ToSet(L) <=> Belongs(case) /\ case.sampling \in A[case.batch]

\* The logits cases of this bucket and of longer ones are at the full wave of the bucket, or behind it.
LogitsLead(L, bucket) ==
    \A k \in 1 .. Len(L) :
        L[k].sampling.path = "logits" /\ L[k].length >= bucket => \E j \in 1 .. k : L[j] = FullCase(bucket)

MarkedToo(A, paths, field) ==
    [n \in Nat |-> A[n] \cup {Marked(s, field) : s \in {u \in A[n] : u.path \in paths}}]

LEMMA TwinsFacts ==
    ASSUME NEW cases \in Seq(CaseType), NEW A \in [Nat -> SUBSET Samples], Lists(cases, A),
           NEW paths \in SUBSET {"topk", "argmax"}, NEW field \in {"penalties", "logprobs"},
           NEW L, L = Twins(cases, paths, field)
    PROVE  /\ L \in Seq(CaseType) /\ MarkedToo(A, paths, field) \in [Nat -> SUBSET Samples]
           /\ Lists(L, MarkedToo(A, paths, field))
           /\ \A bucket \in DOMAIN setup.waves : LogitsLead(cases, bucket) => LogitsLead(L, bucket)
<1>1. PICK T : T = OnPaths(cases, paths)
  OBVIOUS
<1>2. T \in Seq(CaseType) /\ ToSet(T) = {case \in ToSet(cases) : case.sampling.path \in paths}
  BY <1>1, OnPathsFacts
<1>3. PICK M : M = [i \in 1 .. Len(T) |-> [T[i] EXCEPT !.sampling[field] = TRUE]]
  OBVIOUS
<1>4. L = cases \o M
  BY <1>1, <1>3 DEF Twins
<1>5. Len(T) \in Nat /\ DOMAIN T = 1 .. Len(T) /\ \A i \in 1 .. Len(T) : T[i] \in CaseType
  BY <1>2
<1>6. DOMAIN M = 1 .. Len(T) /\ \A i \in 1 .. Len(T) : M[i] = [T[i] EXCEPT !.sampling[field] = TRUE]
  BY <1>3
<1>7. ASSUME NEW i \in 1 .. Len(T)
      PROVE  /\ M[i] \in CaseType
             /\ M[i] = CaseOf(T[i].batch, T[i].length, T[i].cached, Marked(T[i].sampling, field))
             /\ T[i].sampling \in Samples
             /\ M[i].batch = T[i].batch /\ M[i].length = T[i].length /\ M[i].cached = T[i].cached
             /\ M[i].sampling = Marked(T[i].sampling, field)
  <2>1. PICK case : case = T[i]
    OBVIOUS
  <2>2. case \in CaseType /\ M[i] = [case EXCEPT !.sampling[field] = TRUE]
    BY <1>5, <1>6, <2>1
  <2>3. /\ M[i] = CaseOf(case.batch, case.length, case.cached, Marked(case.sampling, field))
        /\ CaseOf(case.batch, case.length, case.cached, Marked(case.sampling, field)) \in CaseType
        /\ case.sampling \in Samples
    BY <2>2, MarkedCase
  <2>4. PICK s : s = Marked(case.sampling, field)
    OBVIOUS
  <2>5. M[i] = CaseOf(case.batch, case.length, case.cached, s)
    BY <2>3, <2>4
  <2>6. /\ M[i].batch = case.batch /\ M[i].length = case.length /\ M[i].cached = case.cached
        /\ M[i].sampling = s
    BY <2>5 DEF CaseOf
  <2> QED BY <2>1, <2>3, <2>4, <2>6
<1>8. M \in Seq(CaseType) /\ Len(M) = Len(T) /\ ToSet(M) = {M[i] : i \in 1 .. Len(T)}
  <2>1. M = [i \in 1 .. Len(T) |-> M[i]]
    BY <1>3, <1>6
  <2>2. PICK n : n = Len(T)
    OBVIOUS
  <2>3. \A i \in 1 .. n : M[i] \in CaseType
    BY <1>7, <2>2
  <2>4. n \in Nat /\ DOMAIN M = 1 .. n /\ M = [i \in 1 .. n |-> M[i]]
    BY <1>5, <1>6, <2>1, <2>2
  <2>5. M \in Seq(CaseType) /\ Len(M) = n /\ ToSet(M) = {M[i] : i \in 1 .. n}
    <3>1. Len(M) = n
      BY <2>4
    <3>2. M \in Seq(CaseType)
      BY <2>3, <2>4, SMTT(30)
    <3>3. ToSet(M) = {M[i] : i \in 1 .. n}
      BY <2>4 DEF ToSet
    <3> QED BY <3>1, <3>2, <3>3
  <2> QED BY <2>2, <2>5
<1>9. L \in Seq(CaseType) /\ ToSet(L) = ToSet(cases) \cup ToSet(M)
  BY <1>4, <1>8, JoinedSet
<1> DEFINE B == MarkedToo(A, paths, field)
<1>10. B \in [Nat -> SUBSET Samples]
  <2>1. \A n \in Nat : \A s \in A[n] : s \in Samples /\ Marked(s, field) \in Samples
    BY MarkedFacts
  <2> HIDE DEF Marked
  <2> QED BY <2>1 DEF MarkedToo
<1>11. \A n \in Nat : B[n] = A[n] \cup {Marked(s, field) : s \in {u \in A[n] : u.path \in paths}}
  BY DEF MarkedToo
<1> HIDE DEF B
<1>12. ASSUME NEW case \in CaseType, case \in ToSet(L) PROVE Belongs(case) /\ case.sampling \in B[case.batch]
  <2>0. case.batch \in Nat
    BY DEF CaseType
  <2>1. CASE case \in ToSet(cases)
    BY <1>11, <2>0, <2>1 DEF Lists
  <2>2. CASE case \in ToSet(M)
    <3>1. PICK i \in 1 .. Len(T) : case = M[i]
      BY <1>8, <2>2
    <3>2. T[i] \in ToSet(T)
      BY <1>5 DEF ToSet
    <3>3. T[i] \in CaseType /\ T[i] \in ToSet(cases) /\ T[i].sampling.path \in paths
      BY <1>2, <1>5, <3>2
    <3>4. Belongs(T[i]) /\ T[i].sampling \in A[T[i].batch]
      BY <3>3 DEF Lists
    <3>5. /\ case.batch = T[i].batch /\ case.length = T[i].length /\ case.cached = T[i].cached
          /\ case.sampling = Marked(T[i].sampling, field)
      BY <1>7, <3>1
    <3>6. Belongs(case)
      BY <3>4, <3>5 DEF Belongs
    <3> QED BY <1>11, <2>0, <3>3, <3>4, <3>5, <3>6
  <2> QED BY <1>9, <1>12, <2>1, <2>2
<1>13. ASSUME NEW case \in CaseType, Belongs(case), case.sampling \in B[case.batch] PROVE case \in ToSet(L)
  <2>0. case.batch \in Nat /\ case = CaseOf(case.batch, case.length, case.cached, case.sampling)
    BY DEF CaseType, CaseOf
  <2>1. CASE case.sampling \in A[case.batch]
    BY <1>9, <1>13, <2>1 DEF Lists
  <2>2. CASE case.sampling \notin A[case.batch]
    <3>1. PICK s \in A[case.batch] : s.path \in paths /\ case.sampling = Marked(s, field)
      BY <1>11, <1>13, <2>0, <2>2
    <3>2. s \in Samples
      BY <2>0
    <3>3. PICK d : d = CaseOf(case.batch, case.length, case.cached, s)
      OBVIOUS
    <3>4. /\ d \in CaseType /\ d.batch = case.batch /\ d.length = case.length /\ d.cached = case.cached
          /\ d.sampling = s
      BY <3>2, <3>3 DEF CaseOf, CaseType
    <3>5. Belongs(d)
      BY <1>13, <3>4 DEF Belongs
    <3>6. d \in ToSet(cases)
      BY <3>1, <3>4, <3>5 DEF Lists
    <3>7. d \in ToSet(T)
      BY <1>2, <3>1, <3>4, <3>6
    <3>8. PICK i \in 1 .. Len(T) : d = T[i]
      BY <1>5, <3>7 DEF ToSet
    <3>9. M[i] = case
      BY <1>7, <2>0, <3>1, <3>4, <3>8
    <3> QED BY <1>8, <1>9, <3>9
  <2> QED BY <2>1, <2>2
<1>14. Lists(L, B)
  BY <1>12, <1>13 DEF Lists
<1>15. ASSUME NEW bucket \in DOMAIN setup.waves, LogitsLead(cases, bucket) PROVE LogitsLead(L, bucket)
  <2>1. /\ Len(L) = Len(cases) + Len(M) /\ Len(cases) \in Nat /\ Len(M) \in Nat
        /\ \A i \in 1 .. Len(cases) : L[i] = cases[i]
        /\ \A i \in Len(cases) + 1 .. Len(cases) + Len(M) :
              L[i] = M[i - Len(cases)] /\ i - Len(cases) \in 1 .. Len(M)
    <3>1. cases \in Seq(CaseType) /\ M \in Seq(CaseType)
      BY <1>8
    <3>2. Len(cases) \in Nat /\ Len(M) \in Nat
      BY <3>1
    <3> QED BY <1>4, <3>1, <3>2, Concatenation
  <2> SUFFICES ASSUME NEW k \in 1 .. Len(L), L[k].sampling.path = "logits", L[k].length >= bucket
               PROVE  \E j \in 1 .. k : L[j] = FullCase(bucket)
    BY DEF LogitsLead
  <2>2. CASE k \in 1 .. Len(cases)
    <3>1. PICK j \in 1 .. k : cases[j] = FullCase(bucket)
      BY <1>15, <2>1, <2>2 DEF LogitsLead
    <3>2. j \in 1 .. Len(cases)
      BY <2>1, <2>2
    <3> QED BY <2>1, <3>1, <3>2
  <2>3. CASE k \notin 1 .. Len(cases)
    <3>1. PICK i \in 1 .. Len(T) : L[k] = M[i]
      BY <1>8, <2>1, <2>3, SMTT(30)
    <3>2. T[i] \in ToSet(T)
      BY <1>5 DEF ToSet
    <3>3. T[i].sampling.path \in paths
      BY <1>2, <3>2
    <3>4. M[i].sampling = Marked(T[i].sampling, field) /\ T[i].sampling \in Samples
      BY <1>7
    <3>5. M[i].sampling.path = T[i].sampling.path
      BY <3>4, MarkedFacts
    <3> QED BY <3>1, <3>3, <3>5
  <2> QED BY <2>2, <2>3
<1> QED BY <1>9, <1>10, <1>14, <1>15 DEF B

PlainSamples == [n \in Nat |-> {Plain(path) : path \in PathsOf(n)}]

PlainCases ==
    LET lengths == InOrder(WarmLengths(setup))
    IN  FlattenSeq([l \in 1 .. Len(lengths) |-> CasesOfLength(lengths[l])])

LEMMA PlainCasesFacts ==
    ASSUME setup \in Setups, NEW X, X = PlainCases
    PROVE  /\ X \in Seq(CaseType) /\ Lists(X, PlainSamples)
           /\ \A bucket \in DOMAIN setup.waves \cap WarmLengths(setup) : LogitsLead(X, bucket)
<1>1. /\ WarmLengths(setup) \in SUBSET Nat /\ IsFiniteSet(WarmLengths(setup))
      /\ WarmLengths(setup) \in SUBSET Int
  BY WarmLengthsFacts
<1>2. PICK W : W = WarmLengths(setup)
  OBVIOUS
<1>0. PICK lengths : lengths = InOrder(W)
  OBVIOUS
<1>3. W \in SUBSET Int /\ IsFiniteSet(W) /\ lengths = InOrder(W) /\ W \subseteq Nat
  BY <1>0, <1>1, <1>2
<1>4. /\ Len(lengths) \in Nat
      /\ \A n \in 1 .. Len(lengths) : lengths[n] \in W
      /\ \A m, n \in 1 .. Len(lengths) : lengths[m] = lengths[n] => m = n
      /\ \A m, n \in 1 .. Len(lengths) : lengths[m] < lengths[n] => m < n
      /\ \A r \in W : \E n \in 1 .. Len(lengths) : lengths[n] = r
  BY <1>3, InOrderFacts
<1>14. PICK F : F = [l \in 1 .. Len(lengths) |-> CasesOfLength(lengths[l])]
  OBVIOUS
<1>15. X = FlattenSeq(F)
  BY <1>0, <1>2, <1>14 DEF PlainCases
<1>5. /\ DOMAIN F = 1 .. Len(lengths) /\ F = [l \in 1 .. Len(lengths) |-> F[l]]
      /\ \A l \in 1 .. Len(lengths) : F[l] = CasesOfLength(lengths[l])
  BY <1>14
<1>6. ASSUME NEW l \in 1 .. Len(lengths)
      PROVE  /\ F[l] \in Seq(CaseType)
             /\ lengths[l] \in DOMAIN setup.waves => Len(F[l]) # 0 /\ F[l][1] = FullCase(lengths[l])
             /\ \A case \in CaseType : case \in ToSet(F[l]) <=>
                   /\ case.length = lengths[l] /\ Planning(case.batch, lengths[l], case.cached)
                   /\ \E path \in PathsOf(case.batch) : case.sampling = Plain(path)
  <2>1. PICK length : length = lengths[l]
    OBVIOUS
  <2>2. length \in Nat /\ F[l] = CasesOfLength(length)
    BY <1>3, <1>4, <1>5, <2>1
  <2>3. /\ F[l] \in Seq(CaseType)
        /\ length \in DOMAIN setup.waves => Len(F[l]) # 0 /\ F[l][1] = FullCase(length)
        /\ \A case \in CaseType : case \in ToSet(F[l]) <=>
               /\ case.length = length /\ Planning(case.batch, length, case.cached)
               /\ \E path \in PathsOf(case.batch) : case.sampling = Plain(path)
    BY <2>2, CasesOfLengthFacts
  <2> QED BY <2>1, <2>3
<1>7. F \in Seq(Seq(CaseType)) /\ Len(F) = Len(lengths) /\ Len(F) \in Nat
  <2>1. \A l \in 1 .. Len(lengths) : F[l] \in Seq(CaseType)
    BY <1>6
  <2> QED BY <1>4, <1>5, <2>1, ListSet
<1>8. X \in Seq(CaseType) /\ ToSet(X) = UNION {ToSet(F[l]) : l \in 1 .. Len(F)}
  BY <1>7, <1>15, FlattenElements
<1>16. IsFlat(CaseType, F, Len(F), FlattenSeq(F))
  BY <1>7, FlattenFacts
<1>9. IsFlat(CaseType, F, Len(F), X)
  BY <1>15, <1>16
<1>10. PICK o : LaidOut(X, F, Len(F), o) /\ \A i \in 1 .. Len(F) : o[i] \in Nat
  BY <1>9 DEF IsFlat
<1>11. /\ \A i \in 1 .. Len(F) : \A j \in 1 .. Len(F[i]) : o[i] + j \in 1 .. Len(X) /\ X[o[i] + j] = F[i][j]
       /\ \A k \in 1 .. Len(X) : \E i \in 1 .. Len(F) : \E j \in 1 .. Len(F[i]) : k = o[i] + j
       /\ \A h, i \in 1 .. Len(F) : h < i => o[h] + Len(F[h]) <= o[i]
  BY <1>10 DEF LaidOut
<1> HIDE DEF CaseType
<1>12. ASSUME NEW case \in CaseType
       PROVE  case \in ToSet(X) <=> Belongs(case) /\ case.sampling \in PlainSamples[case.batch]
  <2>1. case.batch \in Nat
    BY DEF CaseType
  <2>2. case.sampling \in PlainSamples[case.batch] <=> \E path \in PathsOf(case.batch) : case.sampling = Plain(path)
    BY <2>1 DEF PlainSamples
  <2>3. case \in ToSet(X) <=> \E l \in 1 .. Len(lengths) : case \in ToSet(F[l])
    BY <1>7, <1>8
  <2>4. \A l \in 1 .. Len(lengths) : case \in ToSet(F[l]) <=>
               /\ case.length = lengths[l] /\ Planning(case.batch, lengths[l], case.cached)
               /\ \E path \in PathsOf(case.batch) : case.sampling = Plain(path)
    BY <1>6
  <2>5. case.length \in W <=> \E l \in 1 .. Len(lengths) : case.length = lengths[l]
    BY <1>4
  <2> QED BY <1>2, <2>2, <2>3, <2>4, <2>5 DEF Belongs
<1>13. ASSUME NEW bucket \in DOMAIN setup.waves \cap WarmLengths(setup),
              NEW k \in 1 .. Len(X), X[k].length >= bucket
       PROVE  \E j \in 1 .. k : X[j] = FullCase(bucket)
  <2>1. PICK i \in 1 .. Len(F) : \E j \in 1 .. Len(F[i]) : k = o[i] + j
    BY <1>11
  <2>2. PICK m \in 1 .. Len(F[i]) : k = o[i] + m
    BY <2>1
  <2>3. X[k] = F[i][m] /\ i \in 1 .. Len(lengths) /\ m \in Nat /\ m >= 1 /\ o[i] \in Nat
    <3>1. i \in 1 .. Len(lengths)
      BY <1>7
    <3>2. F[i] \in Seq(CaseType)
      BY <1>6, <3>1
    <3>3. Len(F[i]) \in Nat
      BY <3>2
    <3> QED BY <1>10, <1>11, <2>2, <3>1, <3>3
  <2>4. X[k].length = lengths[i]
    <3>1. F[i] \in Seq(CaseType)
      BY <1>6, <2>3
    <3>2. F[i][m] \in CaseType /\ F[i][m] \in ToSet(F[i])
      BY <3>1 DEF ToSet
    <3> QED BY <1>6, <2>3, <3>2
  <2>5. PICK h \in 1 .. Len(lengths) : lengths[h] = bucket
    BY <1>2, <1>4
  <2>6. h = i \/ h < i
    <3>1. lengths[i] \in Nat /\ lengths[h] \in Nat
      BY <1>3, <1>4, <2>3
    <3>2. lengths[h] = lengths[i] \/ lengths[h] < lengths[i]
      BY <1>13, <2>4, <2>5, <3>1
    <3> QED BY <1>4, <2>3, <3>2
  <2>7. h \in 1 .. Len(F) /\ Len(F[h]) \in Nat \ {0} /\ F[h][1] = FullCase(bucket)
    <3>1. F[h] \in Seq(CaseType) /\ Len(F[h]) # 0 /\ F[h][1] = FullCase(bucket)
      BY <1>6, <2>5
    <3>2. Len(F[h]) \in Nat
      BY <3>1
    <3> QED BY <1>7, <3>1, <3>2
  <2>8. o[h] + 1 \in 1 .. Len(X) /\ X[o[h] + 1] = FullCase(bucket) /\ o[h] \in Nat
    <3>1. 1 \in 1 .. Len(F[h])
      BY <2>7
    <3> QED BY <1>10, <1>11, <2>7, <3>1
  <2>9. h = i \/ o[h] + Len(F[h]) <= o[i]
    BY <1>11, <2>6, <2>7
  <2>10. o[h] + 1 \in 1 .. k
    <3>1. CASE h = i
      BY <2>2, <2>3, <2>8, <3>1
    <3>2. CASE o[h] + Len(F[h]) <= o[i]
      <4>1. PICK a, b, c : a = o[h] /\ b = o[i] /\ c = Len(F[h])
        OBVIOUS
      <4>2. a \in Nat /\ b \in Nat /\ c \in Nat \ {0} /\ a + c <= b /\ k = b + m
        BY <2>2, <2>3, <2>7, <2>8, <3>2, <4>1
      <4>3. a + 1 \in 1 .. k
        BY <2>3, <4>2
      <4> QED BY <4>1, <4>3
    <3> QED BY <2>9, <3>1, <3>2
  <2> QED BY <2>8, <2>10
<1> QED BY <1>8, <1>12, <1>13 DEF Lists, LogitsLead

Unmarked(sampling, field) == [sampling EXCEPT ![field] = FALSE]

LEMMA MarkedIn ==
    ASSUME NEW A \in [Nat -> SUBSET Samples], NEW paths, NEW field \in {"penalties", "logprobs"},
           NEW n \in Nat, NEW s \in Samples
    PROVE  s \in MarkedToo(A, paths, field)[n] <=>
             \/ s \in A[n]
             \/ s.path \in paths /\ s[field] /\ Unmarked(s, field) \in A[n]
<1>1. MarkedToo(A, paths, field)[n] = A[n] \cup {Marked(u, field) : u \in {v \in A[n] : v.path \in paths}}
  BY DEF MarkedToo
<1>2. ASSUME NEW u \in A[n], u.path \in paths, s = Marked(u, field)
      PROVE  s \in A[n] \/ (s.path \in paths /\ s[field] /\ Unmarked(s, field) \in A[n])
  <2>1. u \in Samples
    OBVIOUS
  <2>2. CASE field = "penalties"
    <3>1. s = [path |-> u.path, penalties |-> TRUE, logprobs |-> u.logprobs]
      BY <1>2, <2>1, <2>2 DEF Marked, Samples
    <3>2. CASE u.penalties
      BY <2>1, <3>1, <3>2 DEF Samples
    <3>3. CASE ~u.penalties
      <4>1. Unmarked(s, field) = u
        BY <2>1, <2>2, <3>1, <3>3 DEF Unmarked, Samples
      <4> QED BY <1>2, <2>2, <3>1, <4>1
    <3> QED BY <3>2, <3>3
  <2>3. CASE field = "logprobs"
    <3>1. s = [path |-> u.path, penalties |-> u.penalties, logprobs |-> TRUE]
      BY <1>2, <2>1, <2>3 DEF Marked, Samples
    <3>2. CASE u.logprobs
      BY <2>1, <3>1, <3>2 DEF Samples
    <3>3. CASE ~u.logprobs
      <4>1. Unmarked(s, field) = u
        BY <2>1, <2>3, <3>1, <3>3 DEF Unmarked, Samples
      <4> QED BY <1>2, <2>3, <3>1, <4>1
    <3> QED BY <3>2, <3>3
  <2> QED BY <2>2, <2>3
<1>3. ASSUME s.path \in paths, s[field], Unmarked(s, field) \in A[n]
      PROVE  \E u \in A[n] : u.path \in paths /\ s = Marked(u, field)
  <2>1. PICK u \in A[n] : u = Unmarked(s, field)
    BY <1>3
  <2>2. CASE field = "penalties"
    <3>1. u = [path |-> s.path, penalties |-> FALSE, logprobs |-> s.logprobs]
      BY <2>1, <2>2 DEF Unmarked, Samples
    <3>2. s.penalties = TRUE
      BY <1>3, <2>2 DEF Samples
    <3>3. Marked(u, field) = s
      BY <2>2, <3>1, <3>2 DEF Marked, Samples
    <3> QED BY <1>3, <3>1, <3>3
  <2>3. CASE field = "logprobs"
    <3>1. u = [path |-> s.path, penalties |-> s.penalties, logprobs |-> FALSE]
      BY <2>1, <2>3 DEF Unmarked, Samples
    <3>2. s.logprobs = TRUE
      BY <1>3, <2>3 DEF Samples
    <3>3. Marked(u, field) = s
      BY <2>3, <3>1, <3>2 DEF Marked, Samples
    <3> QED BY <1>3, <3>1, <3>3
  <2> QED BY <2>2, <2>3
<1> HIDE DEF Marked, Unmarked
<1> QED BY <1>1, <1>2, <1>3

PlannedSamples == [n \in Nat |-> {s \in Samplings : n # 1 => s.path # "argmax"}]

LEMMA PlannedCasesFacts ==
    ASSUME setup \in Setups
    PROVE  /\ PlannedCases \in Seq(CaseType) /\ Lists(PlannedCases, PlannedSamples)
           /\ \A bucket \in DOMAIN setup.waves \cap WarmLengths(setup) : LogitsLead(PlannedCases, bucket)
<1>1. PICK X : X = PlainCases
  OBVIOUS
<1>2. PICK A : A = PlainSamples
  OBVIOUS
<1>3. /\ X \in Seq(CaseType) /\ Lists(X, A)
      /\ \A bucket \in DOMAIN setup.waves \cap WarmLengths(setup) : LogitsLead(X, bucket)
  BY <1>1, <1>2, PlainCasesFacts
<1>4. \A n \in Nat : \A path \in PathsOf(n) : path \in PathNames
  BY DEF PathsOf, PathSet, PathNames
<1>5. A \in [Nat -> SUBSET Samples]
  <2>1. \A path \in PathNames : Plain(path) \in Samples
    BY DEF Plain, Samples
  <2> QED BY <1>2, <1>4, <2>1 DEF PlainSamples
<1>6. \A n \in Nat, s \in Samples : s \in A[n] <=> s.path \in PathsOf(n) /\ ~s.penalties /\ ~s.logprobs
  <2> TAKE n \in Nat, s \in Samples
  <2>1. s \in A[n] <=> \E path \in PathsOf(n) : s = Plain(path)
    BY <1>2 DEF PlainSamples
  <2>2. \A path : s = Plain(path) <=> s.path = path /\ ~s.penalties /\ ~s.logprobs
    BY DEF Plain, Samples
  <2> QED BY <2>1, <2>2
<1>7. PICK Y : Y = IF setup.sampling THEN Twins(X, {"topk", "argmax"}, "penalties") ELSE X
  OBVIOUS
<1>8. PICK B : B = IF setup.sampling THEN MarkedToo(A, {"topk", "argmax"}, "penalties") ELSE A
  OBVIOUS
<1>9. /\ Y \in Seq(CaseType) /\ B \in [Nat -> SUBSET Samples] /\ Lists(Y, B)
      /\ \A bucket \in DOMAIN setup.waves \cap WarmLengths(setup) : LogitsLead(Y, bucket)
  <2>1. CASE setup.sampling
    <3>1. PICK paths \in SUBSET {"topk", "argmax"} : paths = {"topk", "argmax"}
      OBVIOUS
    <3>2. PICK field \in {"penalties", "logprobs"} : field = "penalties"
      OBVIOUS
    <3>3. Y = Twins(X, paths, field) /\ B = MarkedToo(A, paths, field)
      BY <1>7, <1>8, <2>1, <3>1, <3>2
    <3>4. /\ Y \in Seq(CaseType) /\ MarkedToo(A, paths, field) \in [Nat -> SUBSET Samples]
          /\ Lists(Y, MarkedToo(A, paths, field))
          /\ \A bucket \in DOMAIN setup.waves : LogitsLead(X, bucket) => LogitsLead(Y, bucket)
      BY <1>3, <1>5, <3>3, TwinsFacts
    <3> QED BY <1>3, <3>3, <3>4
  <2>2. CASE ~setup.sampling
    BY <1>3, <1>5, <1>7, <1>8, <2>2
  <2> QED BY <2>1, <2>2
<1>10. PICK Z : Z = IF setup.logprobs THEN Twins(Y, {"topk"}, "logprobs") ELSE Y
  OBVIOUS
<1>11. PICK C : C = IF setup.logprobs THEN MarkedToo(B, {"topk"}, "logprobs") ELSE B
  OBVIOUS
<1>12. /\ Z \in Seq(CaseType) /\ Lists(Z, C) /\ C \in [Nat -> SUBSET Samples]
       /\ \A bucket \in DOMAIN setup.waves \cap WarmLengths(setup) : LogitsLead(Z, bucket)
  <2>1. CASE setup.logprobs
    <3>1. PICK paths \in SUBSET {"topk", "argmax"} : paths = {"topk"}
      OBVIOUS
    <3>2. PICK field \in {"penalties", "logprobs"} : field = "logprobs"
      OBVIOUS
    <3>3. Z = Twins(Y, paths, field) /\ C = MarkedToo(B, paths, field)
      BY <1>10, <1>11, <2>1, <3>1, <3>2
    <3>4. /\ Z \in Seq(CaseType) /\ MarkedToo(B, paths, field) \in [Nat -> SUBSET Samples]
          /\ Lists(Z, MarkedToo(B, paths, field))
          /\ \A bucket \in DOMAIN setup.waves : LogitsLead(Y, bucket) => LogitsLead(Z, bucket)
      BY <1>9, <3>3, TwinsFacts
    <3> QED BY <1>9, <3>3, <3>4
  <2>2. CASE ~setup.logprobs
    BY <1>9, <1>10, <1>11, <2>2
  <2> QED BY <2>1, <2>2
<1>13. PlannedCases = Z
  BY <1>1, <1>7, <1>10 DEF PlannedCases, PlainCases
<1>14. ASSUME NEW n \in Nat, NEW s \in Samples PROVE s \in C[n] <=> s \in PlannedSamples[n]
  <2>1. /\ s.path \in PathNames /\ s.penalties \in BOOLEAN /\ s.logprobs \in BOOLEAN
    BY DEF Samples
  <2>2. \A p : p \in PathsOf(n) <=>
                 \/ p = "logits"
                 \/ setup.sampling /\ p = "topk"
                 \/ setup.sampling /\ setup.argmax /\ n = 1 /\ p = "argmax"
    BY DEF PathsOf, PathSet
  <2>3. setup.argmax \/ setup.logprobs => setup.sampling
    BY SetupFacts
  <2>4. ASSUME NEW u \in Samples, NEW field \in {"penalties", "logprobs"}
        PROVE  /\ Unmarked(u, field) \in Samples /\ Unmarked(u, field).path = u.path
               /\ Unmarked(u, field).penalties = (field # "penalties" /\ u.penalties)
               /\ Unmarked(u, field).logprobs = (field # "logprobs" /\ u.logprobs)
    <3>1. CASE field = "penalties"
      BY <3>1 DEF Unmarked, Samples
    <3>2. CASE field = "logprobs"
      BY <3>2 DEF Unmarked, Samples
    <3> QED BY <3>1, <3>2
  <2>5. ASSUME NEW u \in Samples
        PROVE  u \in B[n] <=> u.path \in PathsOf(n) /\ ~u.logprobs /\ (u.penalties => u.path # "logits")
    <3>1. u \in A[n] <=> u.path \in PathsOf(n) /\ ~u.penalties /\ ~u.logprobs
      BY <1>6
    <3>2. CASE setup.sampling
      <4>1. PICK paths : paths = {"topk", "argmax"}
        OBVIOUS
      <4>2. PICK field \in {"penalties", "logprobs"} : field = "penalties"
        OBVIOUS
      <4>3. u \in B[n] <=> u \in A[n] \/ (u.path \in paths /\ u[field] /\ Unmarked(u, field) \in A[n])
        <5>1. B = MarkedToo(A, paths, field)
          BY <1>8, <3>2, <4>1, <4>2
        <5> QED BY <1>5, <5>1, MarkedIn
      <4>4. Unmarked(u, field) \in A[n] <=> u.path \in PathsOf(n) /\ ~u.logprobs
        <5>1. PICK w \in Samples : w = Unmarked(u, field)
          BY <2>4
        <5>2. w.path = u.path /\ ~w.penalties /\ (w.logprobs <=> u.logprobs)
          BY <2>4, <4>2, <5>1
        <5> QED BY <1>6, <5>1, <5>2
      <4>5. u[field] = u.penalties /\ u.penalties \in BOOLEAN /\ u.path \in PathNames
        BY <4>2 DEF Samples
      <4>6. u.path \in paths <=> u.path # "logits"
        BY <4>1, <4>5 DEF PathNames
      <4> QED BY <3>1, <4>3, <4>4, <4>5, <4>6
    <3>3. CASE ~setup.sampling
      <4>1. u \in B[n] <=> u \in A[n]
        BY <1>8, <3>3
      <4>2. u.path \in PathsOf(n) => u.path = "logits"
        BY <2>2, <3>3
      <4> QED BY <3>1, <4>1, <4>2
    <3> QED BY <3>2, <3>3
  <2>6. s \in C[n] <=> /\ s.path \in PathsOf(n) /\ (s.penalties => s.path # "logits")
                       /\ s.logprobs => setup.logprobs /\ s.path = "topk"
    <3>1. s \in B[n] <=> s.path \in PathsOf(n) /\ ~s.logprobs /\ (s.penalties => s.path # "logits")
      BY <2>5
    <3>2. CASE setup.logprobs
      <4>1. PICK paths : paths = {"topk"}
        OBVIOUS
      <4>2. PICK field \in {"penalties", "logprobs"} : field = "logprobs"
        OBVIOUS
      <4>3. s \in C[n] <=> s \in B[n] \/ (s.path \in paths /\ s[field] /\ Unmarked(s, field) \in B[n])
        <5>1. C = MarkedToo(B, paths, field)
          BY <1>11, <3>2, <4>1, <4>2
        <5> QED BY <1>9, <5>1, MarkedIn
      <4>4. Unmarked(s, field) \in B[n] <=> s.path \in PathsOf(n) /\ (s.penalties => s.path # "logits")
        <5>1. PICK w \in Samples : w = Unmarked(s, field)
          BY <2>4
        <5>2. w.path = s.path /\ ~w.logprobs /\ (w.penalties <=> s.penalties)
          BY <2>4, <4>2, <5>1
        <5>3. w \in B[n] <=> w.path \in PathsOf(n) /\ ~w.logprobs /\ (w.penalties => w.path # "logits")
          BY <2>5
        <5> QED BY <5>1, <5>2, <5>3
      <4>5. s[field] = s.logprobs
        BY <4>2
      <4>6. s.path \in paths <=> s.path = "topk"
        BY <4>1
      <4> QED BY <3>1, <3>2, <4>3, <4>4, <4>5, <4>6
    <3>3. CASE ~setup.logprobs
      <4>1. s \in C[n] <=> s \in B[n]
        BY <1>11, <3>3
      <4> QED BY <3>1, <3>3, <4>1
    <3> QED BY <3>2, <3>3
  <2>7. s \in PlannedSamples[n] <=> s \in Samplings /\ (n # 1 => s.path # "argmax")
    BY DEF PlannedSamples
  <2>8. s \in Samplings <=>
          \/ s.path = "logits" /\ ~s.penalties /\ ~s.logprobs
          \/ /\ setup.sampling /\ s.path \in {"topk", "argmax"}
             /\ s.path = "argmax" => setup.argmax /\ ~s.logprobs
             /\ s.logprobs => setup.logprobs
    <3>1. s = Plain("logits") <=> s.path = "logits" /\ ~s.penalties /\ ~s.logprobs
      BY DEF Plain, Samples
    <3>2. s \in [path : {"topk", "argmax"}, penalties : BOOLEAN, logprobs : BOOLEAN] <=> s.path \in {"topk", "argmax"}
      BY DEF Samples
    <3> QED BY <3>1, <3>2 DEF Samplings
  <2> QED BY <2>1, <2>2, <2>3, <2>6, <2>7, <2>8 DEF PathNames
<1>15. Lists(Z, PlannedSamples)
  <2>1. \A case \in CaseType : case.batch \in Nat /\ case.sampling \in Samples
    BY DEF CaseType
  <2> QED BY <1>12, <1>14, <2>1 DEF Lists
<1> QED BY <1>12, <1>13, <1>15

LEMMA WarmupOrderFacts ==
    ASSUME setup \in Setups, NEW trace \in BOOLEAN, NEW L, L = InWarmupOrder(trace)
    PROVE  /\ L \in Seq(CaseType) /\ ToSet(L) = Required
           /\ \A bucket \in DOMAIN setup.waves \cap WarmLengths(setup) : LogitsLead(L, bucket)
<1>1. PICK cases : cases = PlannedCases
  OBVIOUS
<1>2. /\ cases \in Seq(CaseType)
      /\ \A bucket \in DOMAIN setup.waves \cap WarmLengths(setup) : LogitsLead(cases, bucket)
  BY <1>1, PlannedCasesFacts
<1>3. Required = ToSet(cases)
  BY <1>1 DEF Required
<1>4. CASE ~(trace /\ setup.sampling)
  BY <1>1, <1>2, <1>3, <1>4 DEF InWarmupOrder
<1>5. CASE trace /\ setup.sampling
  <2>1. PICK P : P = OnPaths(cases, {"topk"})
    OBVIOUS
  <2>2. PICK Q : Q = OnPaths(cases, {"logits", "argmax"})
    OBVIOUS
  <2>3. L = P \o Q
    BY <1>1, <1>5, <2>1, <2>2 DEF InWarmupOrder
  <2>4. /\ P \in Seq(CaseType) /\ ToSet(P) = {case \in ToSet(cases) : case.sampling.path \in {"topk"}}
    BY <1>2, <2>1, OnPathsFacts
  <2>5. /\ Q \in Seq(CaseType) /\ ToSet(Q) = {case \in ToSet(cases) : case.sampling.path \in {"logits", "argmax"}}
        /\ OrderKept(Q, cases, {"logits", "argmax"})
    BY <1>2, <2>2, OnPathsFacts
  <2>6. L \in Seq(CaseType) /\ ToSet(L) = ToSet(P) \cup ToSet(Q)
    BY <2>3, <2>4, <2>5, JoinedSet
  <2>7. ToSet(L) = ToSet(cases)
    <3>1. \A case \in ToSet(cases) : case \in CaseType
      BY <1>2 DEF ToSet
    <3>2. \A case \in CaseType : case.sampling.path \in {"topk", "logits", "argmax"}
      BY DEF CaseType, Samples, PathNames
    <3> QED BY <2>4, <2>5, <2>6, <3>1, <3>2
  <2>8. ASSUME NEW bucket \in DOMAIN setup.waves \cap WarmLengths(setup),
               NEW k \in 1 .. Len(L), L[k].sampling.path = "logits", L[k].length >= bucket
        PROVE  \E j \in 1 .. k : L[j] = FullCase(bucket)
    <3>1. /\ Len(L) = Len(P) + Len(Q) /\ Len(P) \in Nat /\ Len(Q) \in Nat
          /\ \A i \in 1 .. Len(P) : L[i] = P[i]
          /\ \A i \in Len(P) + 1 .. Len(P) + Len(Q) : L[i] = Q[i - Len(P)] /\ i - Len(P) \in 1 .. Len(Q)
      <4>1. Len(P) \in Nat /\ Len(Q) \in Nat
        BY <2>4, <2>5
      <4> QED BY <2>3, <2>4, <2>5, <4>1, Concatenation
    <3>2. k \notin 1 .. Len(P)
      <4>1. SUFFICES ASSUME k \in 1 .. Len(P) PROVE FALSE
        OBVIOUS
      <4>2. P[k] \in ToSet(P)
        BY <2>4, <4>1 DEF ToSet
      <4>3. P[k].sampling.path = "topk" /\ L[k] = P[k]
        BY <2>4, <3>1, <4>1, <4>2
      <4> QED BY <2>8, <4>3
    <3>3. k \in Len(P) + 1 .. Len(P) + Len(Q)
      BY <3>1, <3>2
    <3>4. PICK m \in 1 .. Len(Q) : m = k - Len(P) /\ L[k] = Q[m]
      BY <3>1, <3>3
    <3>5. PICK i \in 1 .. Len(cases) :
            /\ Q[m] = cases[i]
            /\ \A h \in 1 .. i : cases[h].sampling.path \in {"logits", "argmax"} => \E j \in 1 .. m : Q[j] = cases[h]
      BY <2>5 DEF OrderKept
    <3>6. PICK h \in 1 .. i : cases[h] = FullCase(bucket)
      <4>1. cases[i].sampling.path = "logits" /\ cases[i].length >= bucket
        BY <2>8, <3>4, <3>5
      <4> QED BY <1>2, <2>8, <4>1 DEF LogitsLead
    <3>7. cases[h].sampling.path = "logits"
      BY <3>6 DEF FullCase, CaseOf, Plain
    <3>8. PICK j \in 1 .. m : Q[j] = FullCase(bucket)
      BY <3>5, <3>6, <3>7
    <3>9. PICK x : x = Len(P) + j
      OBVIOUS
    <3>10. x \in Len(P) + 1 .. Len(P) + Len(Q) /\ x - Len(P) = j /\ x \in 1 .. k
      BY <3>1, <3>3, <3>4, <3>9
    <3>11. L[x] = FullCase(bucket)
      BY <3>1, <3>8, <3>10
    <3> QED BY <3>10, <3>11
  <2> QED BY <1>3, <2>6, <2>7, <2>8 DEF LogitsLead
<1> QED BY <1>4, <1>5

-----------------------------------------------------------------------------
(* The steps of a warm-up call. *)

WarmCall(batch, cached, uncached) == [r \in 1 .. batch |-> WarmRow(r - 1, cached, uncached)]
WarmCalls == {WarmCall(batch, cached, uncached) : batch \in Nat, cached \in Nat, uncached \in Int}
CompileSteps == [does : {"compile"}, call : WarmCalls, sampling : Samples, traced : BOOLEAN]
WarmedStep(case, traced) == [does |-> "warmed", case |-> case, traced |-> traced]
CaptureStep == [does |-> "capture"]
PrimedStep(trace) == [does |-> "primed", trace |-> trace]
DecodeStep(trace) == [does |-> "decode", trace |-> trace]
Steps ==
    CompileSteps \cup {WarmedStep(case, traced) : case \in CaseType, traced \in BOOLEAN} \cup {CaptureStep}
    \cup {PrimedStep(trace) : trace \in BOOLEAN} \cup {DecodeStep(trace) : trace \in BOOLEAN}

LEMMA StepTypes ==
    ASSUME NEW t \in BOOLEAN
    PROVE  /\ PrimedStep(t) \in Steps /\ DecodeStep(t) \in Steps /\ CaptureStep \in Steps
           /\ \A case \in CaseType : WarmedStep(case, t) \in Steps
           /\ \A batch, cached \in Nat, uncached \in Int, s \in Samples :
                 CompileStep(batch, cached, uncached, s, t) \in Steps
<1>1. PrimedStep(t) \in {PrimedStep(trace) : trace \in BOOLEAN}
  BY DEF PrimedStep
<1>2. DecodeStep(t) \in {DecodeStep(trace) : trace \in BOOLEAN}
  BY DEF DecodeStep
<1>3. ASSUME NEW case \in CaseType
      PROVE  WarmedStep(case, t) \in {WarmedStep(c, traced) : c \in CaseType, traced \in BOOLEAN}
  <2> HIDE DEF CaseType
  <2> QED BY DEF WarmedStep
<1>4. ASSUME NEW batch \in Nat, NEW cached \in Nat, NEW uncached \in Int, NEW s \in Samples
      PROVE  CompileStep(batch, cached, uncached, s, t) \in CompileSteps
  <2>1. PICK rows : rows = WarmCall(batch, cached, uncached)
    OBVIOUS
  <2>2. rows \in WarmCalls
    BY <2>1 DEF WarmCalls
  <2>3. CompileStep(batch, cached, uncached, s, t) = [does |-> "compile", call |-> rows, sampling |-> s, traced |-> t]
    BY <2>1 DEF CompileStep, WarmCall
  <2> QED BY <2>2, <2>3 DEF CompileSteps
<1> QED BY <1>1, <1>2, <1>3, <1>4 DEF Steps

CaseStep(case, uncached, traced) == CompileStep(case.batch, case.cached, uncached, case.sampling, traced)
CaseSteps(case, traced) == {CaseStep(case, uncached, traced) : uncached \in ToSet(UncachedLengths(case))}

LEMMA Exactly ==
    ASSUME NEW n \in Nat, NEW d \in Nat \ {0}, n % d = 0
    PROVE  n \div d \in Nat /\ (n \div d) * d = n
OBVIOUS

LEMMA TileEndsFacts ==
    /\ SmallBucket \div TileSize \in Nat \ {0} /\ (SmallBucket \div TileSize) * TileSize = SmallBucket
    /\ TileEnds \in Seq(Nat) /\ Len(TileEnds) = SmallBucket \div TileSize
    /\ \A t \in 1 .. SmallBucket \div TileSize : TileEnds[t] = t * TileSize
<1>1. TileSize \in Nat \ {0} /\ SmallBucket \in Nat \ {0} /\ SmallBucket % TileSize = 0
  BY Geometry, TileAssumption
<1>2. PICK n : n = SmallBucket \div TileSize
  OBVIOUS
<1>3. n \in Nat /\ n * TileSize = SmallBucket
  BY <1>1, <1>2, Exactly
<1>4. n # 0
  BY <1>1, <1>3
<1>5. TileEnds = [t \in 1 .. n |-> t * TileSize]
  BY <1>2 DEF TileEnds
<1>6. \A t \in 1 .. n : t * TileSize \in Nat
  BY <1>1, <1>3
<1>7. TileEnds \in Seq(Nat) /\ Len(TileEnds) = n /\ \A t \in 1 .. n : TileEnds[t] = t * TileSize
  BY <1>3, <1>5, <1>6
<1> QED BY <1>2, <1>3, <1>4, <1>7

LEMMA ServableFacts == Servable \in Nat \ {0}
<1>1. RawWidth \in Nat \ {0} /\ BlockSize \in Nat \ {0}
  BY WidthFacts, Geometry
<1> QED BY <1>1 DEF Servable

LEMMA UncachedLengthsFacts ==
    ASSUME NEW case \in CaseType
    PROVE  UncachedLengths(case) \in Seq(Int) /\ Len(UncachedLengths(case)) \in Nat \ {0}
<1>1. Least(case.length, Servable - case.cached) \in Int
  BY ServableFacts DEF CaseType, Least
<1>2. PICK x \in Int : x = Least(case.length, Servable - case.cached)
  BY <1>1
<1>3. <<x>> \in Seq(Int) /\ Len(<<x>>) = 1
  OBVIOUS
<1>4. TileEnds \in Seq(Int) /\ Len(TileEnds) \in Nat \ {0}
  BY TileEndsFacts
<1> QED BY <1>2, <1>3, <1>4 DEF UncachedLengths

\* Step k of L compiles for this case, or records that all of its compilations came before.
StepOf(L, k, case, traced) ==
    \/ L[k] \in CaseSteps(case, traced)
    \/ /\ L[k] = WarmedStep(case, traced)
       /\ \A step \in CaseSteps(case, traced) : \E j \in 1 .. k - 1 : L[j] = step

\* L compiles for a case and records it; it is empty for a case that is done.
WorksOff(L, case, traced) ==
    /\ L \in Seq(Steps)
    /\ L = <<>> => case \in warmed[traced]
    /\ \A k \in 1 .. Len(L) : StepOf(L, k, case, traced)
    /\ L # <<>> => \A step \in CaseSteps(case, traced) : \E j \in 1 .. Len(L) : L[j] = step

LEMMA StepsOfCaseFacts ==
    ASSUME setup \in Setups, NEW case \in CaseType, NEW trace \in BOOLEAN, NEW L, L = StepsOfCase(case, trace)
    PROVE  \E traced \in BOOLEAN : WorksOff(L, case, traced)
<1>0. PICK traced \in BOOLEAN : traced = (trace /\ TracesLength(case.length))
  OBVIOUS
<1>1. CASE case \in warmed[traced]
  <2>1. L = <<>>
    BY <1>0, <1>1 DEF StepsOfCase
  <2> QED BY <1>1, <2>1 DEF WorksOff
<1>2. CASE case \notin warmed[traced]
  <2>1. PICK U : U = UncachedLengths(case)
    OBVIOUS
  <2>2. U \in Seq(Int) /\ Len(U) \in Nat /\ DOMAIN U = 1 .. Len(U) /\ \A i \in 1 .. Len(U) : U[i] \in Int
    BY <2>1, UncachedLengthsFacts
  <2>3. PICK C : C = [i \in 1 .. Len(U) |-> CaseStep(case, U[i], traced)]
    OBVIOUS
  <2>4. PICK w : w = WarmedStep(case, traced)
    OBVIOUS
  <2>5. L = C \o <<w>>
    BY <1>0, <1>2, <2>1, <2>3, <2>4 DEF StepsOfCase, CaseStep, WarmedStep
  <2>6. \A i \in 1 .. Len(U) : CaseStep(case, U[i], traced) \in Steps
    <3>1. /\ case.batch \in Nat /\ case.cached \in Nat /\ case.sampling \in Samples
      BY DEF CaseType
    <3> SUFFICES ASSUME NEW i \in 1 .. Len(U) PROVE CaseStep(case, U[i], traced) \in Steps
      OBVIOUS
    <3>2. U[i] \in Int
      BY <2>2
    <3>3. CompileStep(case.batch, case.cached, U[i], case.sampling, traced) \in Steps
      BY <3>1, <3>2, StepTypes
    <3> QED BY <3>3 DEF CaseStep
  <2>7. w \in Steps
    BY <2>4, StepTypes
  <2>8. /\ C \in Seq(Steps) /\ Len(C) = Len(U)
        /\ \A i \in 1 .. Len(U) : C[i] = CaseStep(case, U[i], traced)
    BY <2>2, <2>3, <2>6
  <2>9. /\ <<w>> \in Seq(Steps) /\ Len(<<w>>) = 1 /\ <<w>>[1] = w
    BY <2>7
  <2>10. /\ L \in Seq(Steps) /\ Len(L) = Len(U) + 1
         /\ \A i \in 1 .. Len(U) : L[i] = CaseStep(case, U[i], traced)
         /\ L[Len(U) + 1] = w
    <3>1. PICK t : t = <<w>>
      OBVIOUS
    <3>2. t \in Seq(Steps) /\ Len(t) = 1 /\ t[1] = w /\ C \in Seq(Steps) /\ L = C \o t
      BY <2>5, <2>8, <2>9, <3>1
    <3>3. /\ Len(C \o t) = Len(C) + Len(t)
          /\ \A i \in 1 .. Len(C) : (C \o t)[i] = C[i]
          /\ \A i \in Len(C) + 1 .. Len(C) + Len(t) : (C \o t)[i] = t[i - Len(C)]
      BY <3>2, Concatenation
    <3>4. Len(U) + 1 \in Len(C) + 1 .. Len(C) + Len(t) /\ (Len(U) + 1) - Len(C) = 1
      BY <2>2, <2>8, <3>2
    <3>5. C \o t \in Seq(Steps)
      BY <3>2
    <3>6. L[Len(U) + 1] = w
      BY <3>2, <3>3, <3>4
    <3> QED BY <2>8, <3>2, <3>3, <3>5, <3>6
  <2>11. CaseSteps(case, traced) = {CaseStep(case, U[i], traced) : i \in 1 .. Len(U)}
    <3>1. ToSet(U) = {U[i] : i \in 1 .. Len(U)}
      BY <2>2 DEF ToSet
    <3> HIDE DEF CaseStep
    <3> QED BY <2>1, <3>1 DEF CaseSteps
  <2>12. \A step \in CaseSteps(case, traced) : \E j \in 1 .. Len(U) : L[j] = step
    BY <2>10, <2>11
  <2>13. ASSUME NEW k \in 1 .. Len(L) PROVE StepOf(L, k, case, traced)
    <3>1. CASE k \in 1 .. Len(U)
      BY <2>10, <2>11, <3>1 DEF StepOf
    <3>2. CASE k = Len(U) + 1
      <4>1. k - 1 = Len(U)
        BY <2>2, <3>2
      <4> QED BY <2>4, <2>10, <2>12, <3>2, <4>1 DEF StepOf
    <3> QED BY <2>2, <2>10, <3>1, <3>2
  <2>14. \A step \in CaseSteps(case, traced) : \E j \in 1 .. Len(L) : L[j] = step
    <3>1. \A j \in 1 .. Len(U) : j \in 1 .. Len(L)
      BY <2>2, <2>10
    <3> QED BY <2>12, <3>1
  <2>15. L # <<>>
    BY <2>2, <2>10
  <2> QED BY <2>10, <2>13, <2>14, <2>15 DEF WorksOff
<1> QED BY <1>1, <1>2

\* The full wave of a fixed bucket comes before any logits step of that bucket or of longer ones.
FullStep(bucket, traced) == CaseStep(FullCase(bucket), Least(bucket, Servable), traced)
FullSteps(bucket) == {FullStep(bucket, TRUE), FullStep(bucket, FALSE)}
FullWaveFirst(L, k, case) ==
    case.sampling.path = "logits" =>
        \A bucket \in DOMAIN setup.waves \cap WarmLengths(setup) : bucket <= case.length =>
            \/ FullCase(bucket) \in warmed[TRUE] \cup warmed[FALSE]
            \/ \E j \in 1 .. k : L[j] \in FullSteps(bucket)

FromCase(L, k) ==
    \E case \in Required, traced \in BOOLEAN : StepOf(L, k, case, traced) /\ FullWaveFirst(L, k, case)

LEMMA FullCaseFacts ==
    ASSUME setup \in Setups, NEW bucket \in DOMAIN setup.waves, NEW traced
    PROVE  /\ FullCase(bucket) \in CaseType /\ CaseSteps(FullCase(bucket), traced) = {FullStep(bucket, traced)}
           /\ FullCase(bucket).sampling = Plain("logits") /\ FullCase(bucket).length = bucket
           /\ FullCase(bucket).batch = setup.waves[bucket] /\ FullCase(bucket).cached = 0
<1>1. setup.waves[bucket] \in Nat /\ setup.waves[bucket] # 1 /\ bucket \in Nat
  BY SetupFacts
<1>2. Plain("logits") \in Samples
  BY DEF Plain, Samples, PathNames
<1>3. PICK w : w = setup.waves[bucket]
  OBVIOUS
<1>4. PICK s : s = Plain("logits")
  OBVIOUS
<1>5. FullCase(bucket) = [batch |-> w, length |-> bucket, cached |-> 0, sampling |-> s]
  BY <1>3, <1>4 DEF FullCase, CaseOf
<1>6. FullCase(bucket) \in CaseType
  BY <1>1, <1>2, <1>3, <1>4, <1>5 DEF CaseType
<1>7. FullCase(bucket).sampling = s /\ FullCase(bucket).length = bucket /\ FullCase(bucket).batch = w /\ FullCase(bucket).cached = 0
  BY <1>5
<1>8. UncachedLengths(FullCase(bucket)) = <<Least(bucket, Servable - 0)>>
  BY <1>1, <1>3, <1>7 DEF UncachedLengths
<1>9. Servable - 0 = Servable
  BY ServableFacts
<1>10. ToSet(UncachedLengths(FullCase(bucket))) = {Least(bucket, Servable)}
  <2>1. PICK x : x = Least(bucket, Servable)
    OBVIOUS
  <2>2. ToSet(<<x>>) = {x}
    BY DEF ToSet
  <2> QED BY <1>8, <1>9, <2>1, <2>2
<1>11. CaseSteps(FullCase(bucket), traced) = {FullStep(bucket, traced)}
  BY <1>10 DEF CaseSteps, FullStep
<1> QED BY <1>3, <1>4, <1>6, <1>7, <1>11

LEMMA CasesStepsFacts ==
    ASSUME setup \in Setups, NEW trace \in BOOLEAN, NEW cases, cases = InWarmupOrder(trace),
           NEW L, L = FlattenSeq([i \in 1 .. Len(cases) |-> StepsOfCase(cases[i], trace)])
    PROVE  L \in Seq(Steps) /\ \A k \in 1 .. Len(L) : FromCase(L, k)
<1>1. /\ cases \in Seq(CaseType) /\ ToSet(cases) = Required
      /\ \A bucket \in DOMAIN setup.waves \cap WarmLengths(setup) : LogitsLead(cases, bucket)
  BY WarmupOrderFacts
<1>2. PICK F : F = [i \in 1 .. Len(cases) |-> StepsOfCase(cases[i], trace)]
  OBVIOUS
<1>3. L = FlattenSeq(F)
  BY <1>2
<1>4. /\ Len(cases) \in Nat /\ DOMAIN cases = 1 .. Len(cases)
      /\ DOMAIN F = 1 .. Len(cases) /\ F = [i \in 1 .. Len(cases) |-> F[i]]
      /\ \A i \in 1 .. Len(cases) : F[i] = StepsOfCase(cases[i], trace) /\ cases[i] \in CaseType /\ cases[i] \in Required
  <2>1. \A i \in 1 .. Len(cases) : F[i] = StepsOfCase(cases[i], trace)
    BY <1>2
  <2>2. Len(cases) \in Nat /\ DOMAIN cases = 1 .. Len(cases) /\ \A i \in 1 .. Len(cases) : cases[i] \in CaseType
    BY <1>1
  <2>3. \A i \in 1 .. Len(cases) : cases[i] \in Required
    BY <1>1, <2>2 DEF ToSet
  <2> QED BY <1>2, <2>1, <2>2, <2>3
<1>5. ASSUME NEW i \in 1 .. Len(cases)
      PROVE  F[i] \in Seq(Steps) /\ \E traced \in BOOLEAN : WorksOff(F[i], cases[i], traced)
  <2>1. PICK case \in CaseType : case = cases[i]
    BY <1>4
  <2>2. PICK M : M = F[i]
    OBVIOUS
  <2>3. M = StepsOfCase(case, trace)
    BY <1>4, <2>1, <2>2
  <2>4. \E traced \in BOOLEAN : WorksOff(M, case, traced)
    BY <2>3, StepsOfCaseFacts
  <2> QED BY <2>1, <2>2, <2>4 DEF WorksOff
<1>6. F \in Seq(Seq(Steps)) /\ Len(F) = Len(cases) /\ Len(F) \in Nat
  <2>1. \A i \in 1 .. Len(cases) : F[i] \in Seq(Steps)
    BY <1>5
  <2> QED BY <1>4, <2>1, ListSet
<1>7. IsFlat(Steps, F, Len(F), FlattenSeq(F))
  BY <1>6, FlattenFacts
<1>8. IsFlat(Steps, F, Len(F), L)
  BY <1>3, <1>7
<1>9. PICK o : LaidOut(L, F, Len(F), o) /\ \A i \in 1 .. Len(F) : o[i] \in Nat
  BY <1>8 DEF IsFlat
<1>10. /\ \A i \in 1 .. Len(F) : \A j \in 1 .. Len(F[i]) : o[i] + j \in 1 .. Len(L) /\ L[o[i] + j] = F[i][j]
       /\ \A k \in 1 .. Len(L) : \E i \in 1 .. Len(F) : \E j \in 1 .. Len(F[i]) : k = o[i] + j
       /\ \A h, i \in 1 .. Len(F) : h < i => o[h] + Len(F[h]) <= o[i]
  BY <1>9 DEF LaidOut
<1>11. ASSUME NEW k \in 1 .. Len(L) PROVE FromCase(L, k)
  <2>1. PICK i \in 1 .. Len(F) : \E j \in 1 .. Len(F[i]) : k = o[i] + j
    BY <1>10
  <2>2. PICK m \in 1 .. Len(F[i]) : k = o[i] + m
    BY <2>1
  <2>3. i \in 1 .. Len(cases) /\ cases[i] \in Required /\ cases[i] \in CaseType /\ L[k] = F[i][m]
    BY <1>4, <1>6, <1>10, <2>2
  <2>4. PICK traced \in BOOLEAN : F[i] \in Seq(Steps) /\ \A n \in 1 .. Len(F[i]) : StepOf(F[i], n, cases[i], traced)
    BY <1>5, <2>3 DEF WorksOff
  <2>5. m \in Nat /\ m >= 1 /\ o[i] \in Nat /\ Len(F[i]) \in Nat /\ m <= Len(F[i])
    BY <1>9, <2>4
  <2>10. PICK a \in Nat : a = o[i] /\ k = a + m
    BY <2>2, <2>5
  <2>6. ASSUME NEW j \in 1 .. m PROVE o[i] + j \in 1 .. k /\ L[o[i] + j] = F[i][j]
    <3>1. j \in 1 .. Len(F[i])
      BY <2>5
    <3>2. a + j \in 1 .. k
      BY <2>5, <2>10, SMTT(30)
    <3> QED BY <1>10, <2>10, <3>1, <3>2
  <2>7. StepOf(L, k, cases[i], traced)
    <3>1. CASE F[i][m] \in CaseSteps(cases[i], traced)
      BY <2>3, <3>1 DEF StepOf
    <3>2. CASE F[i][m] \notin CaseSteps(cases[i], traced)
      <4>1. /\ F[i][m] = WarmedStep(cases[i], traced)
            /\ \A step \in CaseSteps(cases[i], traced) : \E j \in 1 .. m - 1 : F[i][j] = step
        BY <2>4, <3>2 DEF StepOf
      <4>2. \A j \in 1 .. m - 1 : o[i] + j \in 1 .. k - 1 /\ L[o[i] + j] = F[i][j]
        <5> TAKE j \in 1 .. m - 1
        <5>1. j \in 1 .. m
          BY <2>5
        <5>2. a + j \in 1 .. k - 1
          <6>1. m \in Nat /\ a \in Nat /\ k = a + m
            BY <2>5, <2>10
          <6> QED BY <6>1
        <5> QED BY <2>6, <2>10, <5>1, <5>2
      <4>3. \A step \in CaseSteps(cases[i], traced) : \E j \in 1 .. k - 1 : L[j] = step
        BY <4>1, <4>2, ZenonT(60)
      <4> QED BY <2>3, <4>1, <4>3 DEF StepOf
    <3> QED BY <3>1, <3>2
  <2>8. ASSUME cases[i].sampling.path = "logits",
               NEW bucket \in DOMAIN setup.waves \cap WarmLengths(setup), bucket <= cases[i].length
        PROVE  \/ FullCase(bucket) \in warmed[TRUE] \cup warmed[FALSE]
               \/ \E j \in 1 .. k : L[j] \in FullSteps(bucket)
    <3>1. PICK h \in 1 .. i : cases[h] = FullCase(bucket)
      <4>1. cases[i].length \in Nat /\ bucket \in Nat
        BY <2>3, WarmLengthsFacts DEF CaseType
      <4>2. cases[i].length >= bucket
        BY <2>8, <4>1
      <4> QED BY <1>1, <2>3, <2>8, <4>2 DEF LogitsLead
    <3>2. h \in 1 .. Len(cases) /\ h \in 1 .. Len(F)
      BY <1>4, <1>6, <2>3
    <3>3. PICK d \in BOOLEAN :
            /\ F[h] \in Seq(Steps)
            /\ F[h] = <<>> => cases[h] \in warmed[d]
            /\ \A n \in 1 .. Len(F[h]) : StepOf(F[h], n, cases[h], d)
            /\ F[h] # <<>> => \A step \in CaseSteps(cases[h], d) : \E j \in 1 .. Len(F[h]) : F[h][j] = step
      BY <1>5, <3>2 DEF WorksOff
    <3>4. CaseSteps(cases[h], d) = {FullStep(bucket, d)} /\ FullStep(bucket, d) \in FullSteps(bucket)
      <4>1. CaseSteps(FullCase(bucket), d) = {FullStep(bucket, d)}
        BY FullCaseFacts
      <4>2. FullStep(bucket, d) \in FullSteps(bucket)
        <5>1. d = TRUE \/ d = FALSE
          OBVIOUS
        <5> QED BY <5>1 DEF FullSteps
      <4> QED BY <3>1, <4>1, <4>2
    <3>5. CASE F[h] = <<>>
      <4>1. FullCase(bucket) \in warmed[d] /\ (d = TRUE \/ d = FALSE)
        BY <3>1, <3>3, <3>5
      <4> QED BY <4>1
    <3>6. CASE F[h] # <<>> /\ h # i
      <4>1. PICK j \in 1 .. Len(F[h]) : F[h][j] = FullStep(bucket, d)
        BY <3>3, <3>4, <3>6
      <4>2. Len(F[h]) \in Nat /\ o[h] \in Nat /\ j \in Nat /\ j <= Len(F[h]) /\ 1 <= j
        BY <1>9, <3>2, <3>3
      <4>3. o[h] + Len(F[h]) <= o[i]
        BY <1>10, <3>2, <3>6
      <4>4. o[h] + j \in 1 .. k
        <5>1. PICK b \in Nat, c \in Nat : b = o[h] /\ c = Len(F[h])
          BY <4>2
        <5>2. b + c <= a /\ j \in Nat /\ 1 <= j /\ j <= c
          BY <2>10, <4>2, <4>3, <5>1
        <5>3. b + j \in 1 .. k
          BY <2>5, <2>10, <5>2
        <5> QED BY <5>1, <5>3
      <4>5. L[o[h] + j] = FullStep(bucket, d)
        BY <1>10, <3>2, <4>1
      <4> QED BY <3>4, <4>4, <4>5
    <3>7. CASE F[h] # <<>> /\ h = i
      <4>1. StepOf(F[i], m, cases[i], d)
        BY <3>3, <3>7
      <4>2. \E j \in 1 .. m : F[i][j] = FullStep(bucket, d)
        <5>1. CASE F[i][m] \in CaseSteps(cases[i], d)
          <6>1. m \in 1 .. m
            BY <2>5
          <6> QED BY <3>4, <3>7, <5>1, <6>1
        <5>2. CASE F[i][m] \notin CaseSteps(cases[i], d)
          <6>1. \E j \in 1 .. m - 1 : F[i][j] = FullStep(bucket, d)
            BY <3>4, <3>7, <4>1, <5>2 DEF StepOf
          <6>2. \A j \in 1 .. m - 1 : j \in 1 .. m
            BY <2>5
          <6> QED BY <6>1, <6>2
        <5> QED BY <5>1, <5>2
      <4> QED BY <2>6, <3>4, <4>2, ZenonT(60)
    <3> QED BY <3>5, <3>6, <3>7
  <2>9. FullWaveFirst(L, k, cases[i])
    BY <2>8 DEF FullWaveFirst
  <2> QED BY <2>3, <2>7, <2>9 DEF FromCase
<1>12. L \in Seq(Steps)
  BY <1>8 DEF IsFlat
<1> QED BY <1>11, <1>12

TopKSet == {s \in Samples : s.path = "topk" /\ (s.logprobs => setup.logprobs)}

LEMMA TopKFacts ==
    /\ TopKSamplings \in Seq(Samples) /\ Len(TopKSamplings) \in Nat /\ ToSet(TopKSamplings) = TopKSet
    /\ \A i \in 1 .. Len(TopKSamplings) : TopKSamplings[i] \in Samples /\ TopKSamplings[i].path = "topk"
<1> DEFINE a == Plain("topk")
           b == [Plain("topk") EXCEPT !.penalties = TRUE]
           c == [Plain("topk") EXCEPT !.logprobs = TRUE]
           d == [b EXCEPT !.logprobs = TRUE]
<1>1. /\ a = [path |-> "topk", penalties |-> FALSE, logprobs |-> FALSE]
      /\ b = [path |-> "topk", penalties |-> TRUE, logprobs |-> FALSE]
      /\ c = [path |-> "topk", penalties |-> FALSE, logprobs |-> TRUE]
      /\ d = [path |-> "topk", penalties |-> TRUE, logprobs |-> TRUE]
  <2>0. ASSUME NEW s \in Samples
        PROVE  /\ [s EXCEPT !.penalties = TRUE] = [path |-> s.path, penalties |-> TRUE, logprobs |-> s.logprobs]
               /\ [s EXCEPT !.logprobs = TRUE] = [path |-> s.path, penalties |-> s.penalties, logprobs |-> TRUE]
    <3>1. PICK u : u = [s EXCEPT !.penalties = TRUE]
      OBVIOUS
    <3>2. PICK v : v = [s EXCEPT !.logprobs = TRUE]
      OBVIOUS
    <3>3. u \in Samples /\ u.path = s.path /\ u.penalties = TRUE /\ u.logprobs = s.logprobs
      BY <3>1 DEF Samples
    <3>4. v \in Samples /\ v.path = s.path /\ v.penalties = s.penalties /\ v.logprobs = TRUE
      BY <3>2 DEF Samples
    <3>5. \A x \in Samples : x = [path |-> x.path, penalties |-> x.penalties, logprobs |-> x.logprobs]
      BY DEF Samples
    <3>6. u = [path |-> s.path, penalties |-> TRUE, logprobs |-> s.logprobs]
      BY <3>3, <3>5
    <3>7. v = [path |-> s.path, penalties |-> s.penalties, logprobs |-> TRUE]
      BY <3>4, <3>5
    <3> QED BY <3>1, <3>2, <3>6, <3>7
  <2>1. a = [path |-> "topk", penalties |-> FALSE, logprobs |-> FALSE] /\ a \in Samples
    BY DEF Plain, Samples, PathNames
  <2>2. b = [path |-> "topk", penalties |-> TRUE, logprobs |-> FALSE] /\ b \in Samples
    BY <2>0, <2>1 DEF Samples
  <2>3. c = [path |-> "topk", penalties |-> FALSE, logprobs |-> TRUE]
    BY <2>0, <2>1
  <2>4. d = [path |-> "topk", penalties |-> TRUE, logprobs |-> TRUE]
    BY <2>0, <2>2
  <2> QED BY <2>1, <2>2, <2>3, <2>4
<1>2. PICK s : s = <<a, b>>
  OBVIOUS
<1>3. PICK u : u = [i \in 1 .. 2 |-> [s[i] EXCEPT !.logprobs = TRUE]]
  OBVIOUS
<1>4. TopKSamplings = IF setup.logprobs THEN s \o u ELSE s
  BY <1>2, <1>3 DEF TopKSamplings
<1>5. s[1] = a /\ s[2] = b /\ Len(s) = 2
  BY <1>2
<1>6. DOMAIN u = 1 .. 2 /\ u[1] = c /\ u[2] = d
  <2>1. 1 \in 1 .. 2 /\ 2 \in 1 .. 2
    OBVIOUS
  <2>2. DOMAIN u = 1 .. 2 /\ u[1] = [s[1] EXCEPT !.logprobs = TRUE] /\ u[2] = [s[2] EXCEPT !.logprobs = TRUE]
    BY <1>3, <2>1
  <2> QED BY <1>5, <2>2
<1> HIDE DEF a, b, c, d
<1>7. a \in Samples /\ b \in Samples /\ c \in Samples /\ d \in Samples
  BY <1>1 DEF Samples, PathNames
<1>8. s \in Seq(Samples) /\ ToSet(s) = {a, b}
  BY <1>2, <1>7 DEF ToSet
<1>9. u \in Seq(Samples) /\ ToSet(u) = {c, d}
  <2>1. u = [i \in 1 .. 2 |-> u[i]]
    BY <1>3, <1>6
  <2>2. \A i \in 1 .. 2 : i = 1 \/ i = 2
    OBVIOUS
  <2>3. \A i \in 1 .. 2 : u[i] \in Samples
    BY <1>6, <1>7, <2>2
  <2>4. u \in Seq(Samples)
    BY <2>1, <2>3
  <2> QED BY <1>6, <2>2, <2>4 DEF ToSet
<1>10. s \o u \in Seq(Samples) /\ ToSet(s \o u) = {a, b} \cup {c, d}
  BY <1>8, <1>9, JoinedSet
<1>11. ASSUME NEW x \in Samples PROVE x \in TopKSet <=> x = a \/ x = b \/ (setup.logprobs /\ (x = c \/ x = d))
  <2>1. x = a <=> x.path = "topk" /\ ~x.penalties /\ ~x.logprobs
    BY <1>1 DEF Samples
  <2>2. x = b <=> x.path = "topk" /\ x.penalties /\ ~x.logprobs
    BY <1>1 DEF Samples
  <2>3. x = c <=> x.path = "topk" /\ ~x.penalties /\ x.logprobs
    BY <1>1 DEF Samples
  <2>4. x = d <=> x.path = "topk" /\ x.penalties /\ x.logprobs
    BY <1>1 DEF Samples
  <2>5. x \in TopKSet <=> x.path = "topk" /\ (x.logprobs => setup.logprobs)
    BY DEF TopKSet
  <2> QED BY <2>1, <2>2, <2>3, <2>4, <2>5
<1>12. TopKSet \subseteq Samples
  BY DEF TopKSet
<1>13. ToSet(TopKSamplings) = TopKSet /\ TopKSamplings \in Seq(Samples)
  <2>1. CASE setup.logprobs
    BY <1>4, <1>7, <1>10, <1>11, <1>12, <2>1
  <2>2. CASE ~setup.logprobs
    BY <1>4, <1>7, <1>8, <1>11, <1>12, <2>2
  <2> QED BY <2>1, <2>2
<1>14. PICK L : L = TopKSamplings
  OBVIOUS
<1>15. Len(L) \in Nat /\ DOMAIN L = 1 .. Len(L) /\ ToSet(L) = TopKSet
  BY <1>13, <1>14
<1>16. \A i \in 1 .. Len(L) : L[i] \in TopKSet
  BY <1>15 DEF ToSet
<1> QED BY <1>13, <1>14, <1>15, <1>16 DEF TopKSet

PrimingOwed == setup.sampling /\ ~PrimesTileEnds /\ SmallBucket \in WarmLengths(setup)
PrimingTraced(trace) == trace /\ TracesLength(SmallBucket)
PrimingSet(trace) ==
    {CompileStep(1, 0, TileEnds[e], s, PrimingTraced(trace)) : e \in 1 .. Len(TileEnds) - 1, s \in TopKSet}

\* Step k of L primes the end of a tile, or records that this is done for all of them.
FromPriming(L, k) ==
    \E trace \in BOOLEAN :
        \/ L[k] \in PrimingSet(trace)
        \/ /\ L[k] = PrimedStep(trace)
           /\ \A step \in PrimingSet(trace) : \E j \in 1 .. k - 1 : L[j] = step

LEMMA PrimingStepsFacts ==
    ASSUME setup \in Setups, NEW trace \in BOOLEAN, NEW L, L = PrimingSteps(trace)
    PROVE  /\ L \in Seq(Steps) /\ \A k \in 1 .. Len(L) : FromPriming(L, k)
           /\ PrimingOwed /\ trace \notin primed => Len(L) # 0 /\ L[Len(L)] = PrimedStep(trace)
<1>1. CASE trace \in primed \/ ~PrimingOwed
  <2>1. L = <<>>
    BY <1>1 DEF PrimingSteps, PrimingOwed
  <2> QED BY <1>1, <2>1
<1>2. CASE trace \notin primed /\ PrimingOwed
  <2>1. PICK traced : traced = PrimingTraced(trace)
    OBVIOUS
  <2>2. traced \in BOOLEAN
    BY <2>1 DEF PrimingTraced
  <2>3. PICK T : T = TopKSamplings
    OBVIOUS
  <2>4. PICK E : E = TileEnds
    OBVIOUS
  <2>5. PICK n : n = Len(E) - 1
    OBVIOUS
  <2>6. /\ T \in Seq(Samples) /\ Len(T) \in Nat /\ DOMAIN T = 1 .. Len(T) /\ ToSet(T) = TopKSet
        /\ \A i \in 1 .. Len(T) : T[i] \in Samples
        /\ n \in Nat /\ \A e \in 1 .. n : E[e] \in Int
    <3>1. /\ T \in Seq(Samples) /\ Len(T) \in Nat /\ ToSet(T) = TopKSet
          /\ \A i \in 1 .. Len(T) : T[i] \in Samples
      BY <2>3, TopKFacts
    <3>2. E \in Seq(Nat) /\ Len(E) \in Nat \ {0}
      BY <2>4, TileEndsFacts
    <3>3. n \in Nat /\ \A e \in 1 .. n : e \in 1 .. Len(E)
      BY <2>5, <3>2
    <3> QED BY <3>1, <3>2, <3>3
  <2>7. PICK F : F = [s \in 1 .. Len(T) |-> [e \in 1 .. n |-> CompileStep(1, 0, E[e], T[s], traced)]]
    OBVIOUS
  <2>8. PICK w : w = PrimedStep(trace)
    OBVIOUS
  <2>9. PICK M : M = FlattenSeq(F)
    OBVIOUS
  <2>10. L = M \o <<w>>
    BY <1>2, <2>1, <2>3, <2>4, <2>5, <2>7, <2>8, <2>9 DEF PrimingSteps, PrimingOwed, PrimingTraced, PrimedStep
  <2>11. ASSUME NEW s \in 1 .. Len(T)
         PROVE  /\ F[s] \in Seq(Steps) /\ DOMAIN F[s] = 1 .. n
                /\ \A e \in 1 .. n : F[s][e] = CompileStep(1, 0, E[e], T[s], traced)
    <3>1. \A e \in 1 .. n : CompileStep(1, 0, E[e], T[s], traced) \in Steps
      <4> TAKE e \in 1 .. n
      <4>1. 1 \in Nat /\ 0 \in Nat /\ E[e] \in Int /\ T[s] \in Samples
        BY <2>6
      <4> QED BY <2>2, <4>1, StepTypes
    <3>2. F[s] = [e \in 1 .. n |-> CompileStep(1, 0, E[e], T[s], traced)]
      BY <2>7
    <3> QED BY <2>6, <3>1, <3>2
  <2>12. DOMAIN F = 1 .. Len(T) /\ F = [s \in 1 .. Len(T) |-> F[s]]
    BY <2>7
  <2>13. F \in Seq(Seq(Steps)) /\ Len(F) = Len(T) /\ Len(F) \in Nat
    <3>1. \A s \in 1 .. Len(T) : F[s] \in Seq(Steps)
      BY <2>11
    <3> QED BY <2>6, <2>12, <3>1, ListSet
  <2>14. M \in Seq(Steps) /\ ToSet(M) = UNION {ToSet(F[s]) : s \in 1 .. Len(F)}
    BY <2>9, <2>13, FlattenElements
  <2>15. ToSet(M) = PrimingSet(trace)
    <3>1. TopKSet = {T[s] : s \in 1 .. Len(T)}
      BY <2>6 DEF ToSet
    <3>2. PrimingSet(trace) = {CompileStep(1, 0, E[e], s, traced) : e \in 1 .. n, s \in TopKSet}
      BY <2>1, <2>4, <2>5 DEF PrimingSet
    <3>3. \A s \in 1 .. Len(T) : ToSet(F[s]) = {CompileStep(1, 0, E[e], T[s], traced) : e \in 1 .. n}
      BY <2>11 DEF ToSet
    <3>4. ASSUME NEW x \in ToSet(M) PROVE x \in PrimingSet(trace)
      <4>1. PICK s \in 1 .. Len(T) : x \in ToSet(F[s])
        BY <2>13, <2>14
      <4>2. PICK e \in 1 .. n : x = CompileStep(1, 0, E[e], T[s], traced)
        BY <3>3, <4>1
      <4>3. T[s] \in TopKSet
        BY <3>1
      <4> QED BY <3>2, <4>2, <4>3
    <3>5. ASSUME NEW x \in PrimingSet(trace) PROVE x \in ToSet(M)
      <4>1. PICK e \in 1 .. n, y \in TopKSet : x = CompileStep(1, 0, E[e], y, traced)
        BY <3>2
      <4>2. PICK s \in 1 .. Len(T) : y = T[s]
        BY <3>1
      <4>3. x \in ToSet(F[s])
        BY <3>3, <4>1, <4>2
      <4> QED BY <2>13, <2>14, <4>3
    <3> QED BY <3>4, <3>5
  <2>16. PICK t : t = <<w>>
    OBVIOUS
  <2>17. w \in Steps /\ t \in Seq(Steps) /\ Len(t) = 1 /\ t[1] = w /\ Len(M) \in Nat /\ DOMAIN M = 1 .. Len(M)
    <3>1. w \in Steps
      BY <2>8, StepTypes
    <3> QED BY <2>14, <2>16, <3>1
  <2>18. /\ L \in Seq(Steps) /\ Len(L) = Len(M) + 1
         /\ \A i \in 1 .. Len(M) : L[i] = M[i]
         /\ L[Len(M) + 1] = w
    <3>1. M \in Seq(Steps) /\ t \in Seq(Steps) /\ L = M \o t
      BY <2>10, <2>14, <2>16, <2>17
    <3>2. /\ Len(M \o t) = Len(M) + Len(t)
          /\ \A i \in 1 .. Len(M) : (M \o t)[i] = M[i]
          /\ \A i \in Len(M) + 1 .. Len(M) + Len(t) : (M \o t)[i] = t[i - Len(M)]
      BY <3>1, Concatenation
    <3>3. Len(M) + 1 \in Len(M) + 1 .. Len(M) + Len(t) /\ (Len(M) + 1) - Len(M) = 1
      BY <2>17
    <3>4. M \o t \in Seq(Steps)
      BY <3>1
    <3>5. L[Len(M) + 1] = w
      BY <2>17, <3>1, <3>2, <3>3
    <3> QED BY <2>17, <3>1, <3>2, <3>4, <3>5
  <2>19. \A step \in PrimingSet(trace) : \E j \in 1 .. Len(M) : L[j] = step
    <3>1. ToSet(M) = {M[j] : j \in 1 .. Len(M)}
      BY <2>17 DEF ToSet
    <3> QED BY <2>15, <2>18, <3>1
  <2>20. ASSUME NEW k \in 1 .. Len(L) PROVE FromPriming(L, k)
    <3>1. CASE k \in 1 .. Len(M)
      <4>1. M[k] \in ToSet(M)
        BY <2>17, <3>1 DEF ToSet
      <4>2. L[k] \in PrimingSet(trace)
        BY <2>15, <2>18, <3>1, <4>1
      <4> QED BY <4>2 DEF FromPriming
    <3>2. CASE k = Len(M) + 1
      <4>1. k - 1 = Len(M)
        BY <2>17, <3>2
      <4>2. L[k] = PrimedStep(trace) /\ \A step \in PrimingSet(trace) : \E j \in 1 .. k - 1 : L[j] = step
        BY <2>8, <2>18, <2>19, <3>2, <4>1
      <4> QED BY <4>2 DEF FromPriming
    <3> QED BY <2>17, <2>18, <3>1, <3>2
  <2> QED BY <2>8, <2>17, <2>18, <2>20
<1> QED BY <1>1, <1>2

\* Nothing stands behind step k of L but what the cases and the priming have.
FromPlan(L, k) == FromCase(L, k) \/ FromPriming(L, k)

LEMMA StepKinds ==
    ASSUME NEW L, NEW k, FromPlan(L, k)
    PROVE  L[k].does \in {"compile", "warmed", "primed"}
<1>1. \A case, traced : \A step \in CaseSteps(case, traced) : step.does = "compile"
  BY DEF CaseSteps, CaseStep, CompileStep
<1>2. \A trace : \A step \in PrimingSet(trace) : step.does = "compile"
  BY DEF PrimingSet, CompileStep
<1>3. \A case, traced : WarmedStep(case, traced).does = "warmed"
  BY DEF WarmedStep
<1>4. \A trace : PrimedStep(trace).does = "primed"
  BY DEF PrimedStep
<1>5. CASE FromCase(L, k)
  <2>1. PICK case \in Required, traced \in BOOLEAN : StepOf(L, k, case, traced)
    BY <1>5 DEF FromCase
  <2> QED BY <1>1, <1>3, <2>1 DEF StepOf
<1>6. CASE FromPriming(L, k)
  <2>1. PICK trace \in BOOLEAN : L[k] \in PrimingSet(trace) \/ L[k] = PrimedStep(trace)
    BY <1>6 DEF FromPriming
  <2> QED BY <1>2, <1>4, <2>1
<1> QED BY <1>5, <1>6 DEF FromPlan

LEMMA JoinedSteps ==
    ASSUME NEW M \in Seq(Steps), NEW N \in Seq(Steps), NEW L, L = M \o N
    PROVE  /\ L \in Seq(Steps) /\ Len(M) \in Nat /\ Len(N) \in Nat /\ Len(L) = Len(M) + Len(N)
           /\ \A k \in 1 .. Len(M) : k \in 1 .. Len(L) /\ L[k] = M[k]
           /\ \A k \in 1 .. Len(N) : Len(M) + k \in 1 .. Len(L) /\ L[Len(M) + k] = N[k]
           /\ \A k \in 1 .. Len(L) : k \in 1 .. Len(M) \/ \E j \in 1 .. Len(N) : k = Len(M) + j
<1>1. /\ Len(M \o N) = Len(M) + Len(N) /\ M \o N \in Seq(Steps)
      /\ \A i \in 1 .. Len(M) : (M \o N)[i] = M[i]
      /\ \A i \in Len(M) + 1 .. Len(M) + Len(N) : (M \o N)[i] = N[i - Len(M)]
  BY Concatenation
<1>2. Len(M) \in Nat /\ Len(N) \in Nat
  OBVIOUS
<1>3. PICK a \in Nat, b \in Nat : a = Len(M) /\ b = Len(N)
  BY <1>2
<1>4. ASSUME NEW k \in 1 .. b PROVE a + k \in 1 .. a + b /\ L[a + k] = N[k]
  <2>1. a + k \in a + 1 .. a + b /\ (a + k) - a = k
    BY <1>3
  <2> QED BY <1>1, <1>3, <2>1
<1>5. ASSUME NEW k \in 1 .. a + b, k \notin 1 .. a PROVE \E j \in 1 .. b : k = a + j
  <2>1. k - a \in 1 .. b /\ k = a + (k - a)
    BY <1>3, <1>5
  <2> QED BY <2>1
<1>6. \A k \in 1 .. a : k \in 1 .. a + b
  BY <1>3
<1>7. L \in Seq(Steps) /\ Len(L) = a + b /\ \A k \in 1 .. a : L[k] = M[k]
  BY <1>1, <1>3
<1>8. \A k \in 1 .. a : k \in 1 .. a + b /\ L[k] = M[k]
  BY <1>6, <1>7, Zenon
<1>9. \A k \in 1 .. b : a + k \in 1 .. a + b /\ L[a + k] = N[k]
  BY <1>4, Zenon
<1>10. \A k \in 1 .. a + b : k \in 1 .. a \/ \E j \in 1 .. b : k = a + j
  BY <1>5, Zenon
<1> QED BY <1>2, <1>3, <1>7, <1>8, <1>9, <1>10, ZenonT(60)

\* What is said of the steps of M holds of them behind others in L.
LEMMA Shifted ==
    ASSUME NEW M, Len(M) \in Nat, NEW L, NEW s \in Nat, \A j \in 1 .. Len(M) : L[s + j] = M[j],
           NEW k \in 1 .. Len(M), FromPlan(M, k)
    PROVE  FromPlan(L, s + k)
<1>1. k \in Nat /\ k >= 1 /\ k <= Len(M)
  OBVIOUS
<1>2. L[s + k] = M[k]
  OBVIOUS
<1>3. ASSUME NEW j \in 1 .. k PROVE s + j \in 1 .. s + k /\ L[s + j] = M[j]
  <2>1. j \in 1 .. Len(M)
    BY <1>1
  <2> QED BY <1>1, <2>1
<1>4. ASSUME NEW j \in 1 .. k - 1 PROVE s + j \in 1 .. (s + k) - 1 /\ L[s + j] = M[j]
  <2>1. j \in 1 .. Len(M)
    BY <1>1
  <2> QED BY <1>1, <2>1
<1>5. CASE FromCase(M, k)
  <2>1. PICK case \in Required, traced \in BOOLEAN : StepOf(M, k, case, traced) /\ FullWaveFirst(M, k, case)
    BY <1>5 DEF FromCase
  <2>2. StepOf(L, s + k, case, traced)
    BY <1>2, <1>4, <2>1 DEF StepOf
  <2>3. FullWaveFirst(L, s + k, case)
    BY <1>3, <2>1 DEF FullWaveFirst
  <2> QED BY <2>2, <2>3 DEF FromCase, FromPlan
<1>6. CASE FromPriming(M, k)
  <2>1. PICK trace \in BOOLEAN :
          \/ M[k] \in PrimingSet(trace)
          \/ /\ M[k] = PrimedStep(trace)
             /\ \A step \in PrimingSet(trace) : \E j \in 1 .. k - 1 : M[j] = step
    BY <1>6 DEF FromPriming
  <2>2. CASE M[k] \in PrimingSet(trace)
    BY <1>2, <2>2 DEF FromPriming, FromPlan
  <2>3. CASE M[k] \notin PrimingSet(trace)
    <3>1. /\ L[s + k] = PrimedStep(trace)
          /\ \A step \in PrimingSet(trace) : \E j \in 1 .. (s + k) - 1 : L[j] = step
      BY <1>2, <1>4, <2>1, <2>3
    <3> QED BY <3>1 DEF FromPriming, FromPlan
  <2> QED BY <2>2, <2>3
<1> QED BY <1>5, <1>6 DEF FromPlan

LEMMA DefaultStepsFacts ==
    ASSUME setup \in Setups, NEW trace \in BOOLEAN, NEW L, L = DefaultSteps(trace)
    PROVE  /\ L \in Seq(Steps) /\ Len(L) \in Nat \ {0} /\ L[Len(L)] = CaptureStep
           /\ \A k \in 1 .. Len(L) : k # Len(L) => FromPlan(L, k)
<1>1. PICK cases : cases = InWarmupOrder(trace)
  OBVIOUS
<1>2. PICK M : M = FlattenSeq([i \in 1 .. Len(cases) |-> StepsOfCase(cases[i], trace)])
  OBVIOUS
<1>3. M \in Seq(Steps) /\ \A k \in 1 .. Len(M) : FromCase(M, k)
  BY <1>1, <1>2, CasesStepsFacts
<1>4. PICK N : N = <<CaptureStep>>
  OBVIOUS
<1>5. L = M \o N
  BY <1>1, <1>2, <1>4 DEF DefaultSteps, CaptureStep
<1>6. N \in Seq(Steps) /\ Len(N) = 1 /\ N[1] = CaptureStep
  <2>1. CaptureStep \in Steps
    BY DEF Steps
  <2> QED BY <1>4, <2>1
<1>7. /\ L \in Seq(Steps) /\ Len(M) \in Nat /\ Len(L) = Len(M) + 1
      /\ \A k \in 1 .. Len(M) : L[k] = M[k]
      /\ \A k \in 1 .. 1 : L[Len(M) + k] = N[k]
  <2>1. M \in Seq(Steps) /\ N \in Seq(Steps) /\ L = M \o N
    BY <1>3, <1>5, <1>6
  <2>2. /\ L \in Seq(Steps) /\ Len(M) \in Nat /\ Len(L) = Len(M) + Len(N)
        /\ \A k \in 1 .. Len(M) : L[k] = M[k]
        /\ \A k \in 1 .. Len(N) : L[Len(M) + k] = N[k]
    BY <2>1, JoinedSteps
  <2> QED BY <1>6, <2>2
<1>8. PICK a \in Nat : a = Len(M)
  BY <1>7
<1>9. L[Len(L)] = CaptureStep
  <2>1. 1 \in 1 .. 1
    OBVIOUS
  <2> QED BY <1>6, <1>7, <2>1
<1>10. ASSUME NEW k \in 1 .. Len(L), k # Len(L) PROVE FromPlan(L, k)
  <2>1. k \in 1 .. Len(M) /\ 0 \in Nat /\ 0 + k = k
    BY <1>7, <1>10
  <2>2. \A j \in 1 .. Len(M) : L[0 + j] = M[j]
    <3>1. \A j \in 1 .. Len(M) : 0 + j = j
      OBVIOUS
    <3> QED BY <1>7, <3>1
  <2>3. FromPlan(M, k)
    BY <1>3, <2>1 DEF FromPlan
  <2>4. FromPlan(L, 0 + k)
    BY <1>7, <2>1, <2>2, <2>3, Shifted
  <2> QED BY <2>1, <2>4
<1>11. Len(L) \in Nat \ {0}
  BY <1>7
<1> QED BY <1>7, <1>9, <1>10, <1>11

LEMMA PrefillStepsFacts ==
    ASSUME setup \in Setups, NEW trace \in BOOLEAN, NEW L, L = PrefillSteps(trace)
    PROVE  /\ L \in Seq(Steps) /\ Len(L) \in Nat \ {0}
           /\ \A k \in 1 .. Len(L) : FromPlan(L, k) \/ L[k] = CaptureStep
           /\ setup.primes = "before" \/ trace => \A k \in 1 .. Len(L) : L[k].does = "capture" => k = Len(L)
           /\ PrimingOwed /\ trace \notin primed => \E k \in 1 .. Len(L) : L[k] = PrimedStep(trace)
<1>1. PICK D : D = DefaultSteps(trace)
  OBVIOUS
<1>2. PICK P : P = PrimingSteps(trace)
  OBVIOUS
<1>3. /\ D \in Seq(Steps) /\ Len(D) \in Nat \ {0} /\ D[Len(D)] = CaptureStep
      /\ \A k \in 1 .. Len(D) : k # Len(D) => FromPlan(D, k)
  BY <1>1, DefaultStepsFacts
<1>4. /\ P \in Seq(Steps) /\ \A k \in 1 .. Len(P) : FromPriming(P, k)
      /\ PrimingOwed /\ trace \notin primed => Len(P) # 0 /\ P[Len(P)] = PrimedStep(trace)
  BY <1>2, PrimingStepsFacts
<1>5. \A k \in 1 .. Len(P) : FromPlan(P, k)
  BY <1>4 DEF FromPlan
<1>6. Len(P) \in Nat
  <2> QED BY <1>4
<1>7. CASE setup.primes = "before" \/ trace
  <2>1. L = P \o D
    BY <1>1, <1>2, <1>7 DEF PrefillSteps
  <2>2. /\ L \in Seq(Steps) /\ Len(L) = Len(P) + Len(D)
        /\ \A k \in 1 .. Len(P) : k \in 1 .. Len(L) /\ L[k] = P[k]
        /\ \A k \in 1 .. Len(D) : Len(P) + k \in 1 .. Len(L) /\ L[Len(P) + k] = D[k]
        /\ \A k \in 1 .. Len(L) : k \in 1 .. Len(P) \/ \E j \in 1 .. Len(D) : k = Len(P) + j
    BY <1>3, <1>4, <2>1, JoinedSteps
  <2>3. ASSUME NEW k \in 1 .. Len(L) PROVE FromPlan(L, k) \/ (L[k] = CaptureStep /\ k = Len(L))
    <3>1. CASE k \in 1 .. Len(P)
      <4>1. 0 + k = k /\ \A j \in 1 .. Len(P) : L[0 + j] = P[j]
        <5>1. \A j \in 1 .. Len(P) : 0 + j = j
          OBVIOUS
        <5> QED BY <2>2, <3>1, <5>1
      <4>2. FromPlan(L, 0 + k)
        BY <1>5, <1>6, <3>1, <4>1, Shifted
      <4> QED BY <4>1, <4>2
    <3>2. CASE k \notin 1 .. Len(P)
      <4>1. PICK j \in 1 .. Len(D) : k = Len(P) + j
        BY <2>2, <3>2
      <4>2. CASE j = Len(D)
        BY <1>3, <2>2, <4>1, <4>2
      <4>3. CASE j # Len(D)
        <5>1. FromPlan(D, j)
          BY <1>3, <4>3
        <5>2. FromPlan(L, Len(P) + j)
          BY <1>3, <1>6, <2>2, <5>1, Shifted
        <5> QED BY <4>1, <5>2
      <4> QED BY <4>2, <4>3
    <3> QED BY <3>1, <3>2
  <2>4. ASSUME NEW k \in 1 .. Len(L), L[k].does = "capture" PROVE k = Len(L)
    BY <2>3, <2>4, StepKinds
  <2>5. ASSUME PrimingOwed, trace \notin primed PROVE \E k \in 1 .. Len(L) : L[k] = PrimedStep(trace)
    <3>1. Len(P) \in 1 .. Len(P) /\ P[Len(P)] = PrimedStep(trace)
      BY <1>4, <1>6, <2>5
    <3> QED BY <2>2, <3>1
  <2>6. Len(L) \in Nat \ {0}
    BY <1>3, <1>6, <2>2
  <2> QED BY <2>2, <2>3, <2>4, <2>5, <2>6
<1>8. CASE ~(setup.primes = "before" \/ trace)
  <2>1. L = D \o P
    BY <1>1, <1>2, <1>8 DEF PrefillSteps
  <2>2. /\ L \in Seq(Steps) /\ Len(L) = Len(D) + Len(P)
        /\ \A k \in 1 .. Len(D) : k \in 1 .. Len(L) /\ L[k] = D[k]
        /\ \A k \in 1 .. Len(P) : Len(D) + k \in 1 .. Len(L) /\ L[Len(D) + k] = P[k]
        /\ \A k \in 1 .. Len(L) : k \in 1 .. Len(D) \/ \E j \in 1 .. Len(P) : k = Len(D) + j
    BY <1>3, <1>4, <2>1, JoinedSteps, ZenonT(60)
  <2>3. ASSUME NEW k \in 1 .. Len(L) PROVE FromPlan(L, k) \/ L[k] = CaptureStep
    <3>1. CASE k \in 1 .. Len(D)
      <4>1. 0 + k = k /\ \A j \in 1 .. Len(D) : L[0 + j] = D[j]
        <5>1. \A j \in 1 .. Len(D) : 0 + j = j
          OBVIOUS
        <5> QED BY <2>2, <3>1, <5>1
      <4>2. CASE k = Len(D)
        BY <1>3, <2>2, <3>1, <4>2
      <4>3. CASE k # Len(D)
        <5>1. FromPlan(D, k)
          BY <1>3, <3>1, <4>3
        <5>2. FromPlan(L, 0 + k)
          BY <1>3, <3>1, <4>1, <5>1, Shifted
        <5> QED BY <4>1, <5>2
      <4> QED BY <4>2, <4>3
    <3>2. CASE k \notin 1 .. Len(D)
      <4>1. PICK j \in 1 .. Len(P) : k = Len(D) + j
        BY <2>2, <3>2
      <4>2. FromPlan(L, Len(D) + j)
        BY <1>3, <1>5, <1>6, <2>2, Shifted
      <4> QED BY <4>1, <4>2
    <3> QED BY <3>1, <3>2
  <2>5. ASSUME PrimingOwed, trace \notin primed PROVE \E k \in 1 .. Len(L) : L[k] = PrimedStep(trace)
    <3>1. Len(P) \in 1 .. Len(P) /\ P[Len(P)] = PrimedStep(trace)
      BY <1>4, <1>6, <2>5
    <3> QED BY <2>2, <3>1
  <2>6. Len(L) \in Nat \ {0}
    BY <1>3, <1>6, <2>2
  <2> QED BY <1>8, <2>2, <2>3, <2>5, <2>6
<1> QED BY <1>7, <1>8

LEMMA DecodeStepsFacts ==
    ASSUME NEW trace \in BOOLEAN, NEW L, L = DecodeSteps(trace)
    PROVE  /\ L \in Seq(Steps) /\ Len(L) \in Nat \ {0}
           /\ \A k \in 1 .. Len(L) : L[k] = DecodeStep(trace) \/ L[k] = CaptureStep
           /\ \A k \in 1 .. Len(L) : L[k].does = "capture" => k = Len(L)
<1>1. PICK c \in Steps : c = CaptureStep
  BY DEF Steps
<1>2. PICK d \in Steps : d = DecodeStep(trace)
  BY StepTypes
<1>3. d.does = "decode"
  BY <1>2 DEF DecodeStep
<1>4. CASE trace \in decode
  <2>1. L = <<>> \o <<c>>
    BY <1>1, <1>4 DEF DecodeSteps, CaptureStep
  <2>2. L = <<c>>
    BY <2>1
  <2> QED BY <1>1, <2>2
<1>5. CASE trace \notin decode
  <2>1. L = <<d>> \o <<c>>
    BY <1>1, <1>2, <1>5 DEF DecodeSteps, CaptureStep, DecodeStep
  <2>2. Len(L) = 2 /\ L[1] = d /\ L[2] = c /\ L \in Seq(Steps)
    BY <2>1
  <2>3. \A k \in 1 .. 2 : k = 1 \/ k = 2
    OBVIOUS
  <2> QED BY <1>1, <1>2, <1>3, <2>2, <2>3
<1> QED BY <1>4, <1>5

-----------------------------------------------------------------------------
(* The calls of the caller, and what each leaves behind. *)

Traces == BOOLEAN \cup {Unset}
CoverageTypeOK ==
    /\ setup \in Setups /\ CoversBuckets(setup)
    /\ todo \in Seq(Steps)
    /\ decisions \in [{"prefill", "decode"} -> Traces]
    /\ warmed \in [BOOLEAN -> SUBSET CaseType]
    /\ primed \in SUBSET BOOLEAN /\ decode \in SUBSET BOOLEAN
    /\ captured \in BOOLEAN /\ refused \in BOOLEAN

TracesAll == setup.mode = "all"
LastDecode == <<Asks("decode", TRUE)>>
LastPrefill == <<Asks("prefill", TracesAll)>>
BothTraced == <<Asks("prefill", TracesAll), Asks("decode", TRUE)>>
DecodeThenPrefill == <<Asks("decode", TRUE), Asks("prefill", TracesAll)>>
EagerDecodeFirst == <<Asks("decode", FALSE), Asks("prefill", TracesAll), Asks("decode", TRUE)>>
BothPasses ==
    <<Asks("prefill", FALSE), Asks("decode", FALSE), Asks("prefill", TracesAll), Asks("decode", TRUE)>>

\* Where the caller is, and the decisions of the calls before.
ScriptInv ==
    \/ script = <<>> /\ todo = <<>>
    \/ script = LastDecode
    \/ script = LastPrefill /\ setup.script = DecodeThenPrefill
    \/ script = DecodeThenPrefill /\ setup.script = DecodeThenPrefill /\ decisions["prefill"] = Unset
    \/ script = BothTraced /\ \/ decisions["decode"] = Unset
                              \/ decisions["decode"] = FALSE /\ decisions["prefill"] = FALSE
    \/ script = EagerDecodeFirst /\ decisions["prefill"] = FALSE /\ decisions["decode"] \in {Unset, FALSE}
    \/ script = BothPasses /\ decisions["prefill"] \in {Unset, FALSE} /\ decisions["decode"] = Unset

\* A call in progress is the first one of the script, and its decision is taken.
CallDecides == todo # <<>> => script # <<>> /\ decisions[script[1].op] = script[1].trace

\* Capture ends a call, except for an untraced prefill of a family that primes around.
CaptureLast ==
    \A k \in 1 .. Len(todo) : todo[k].does = "capture" =>
        k = Len(todo) \/ (script[1] = Asks("prefill", FALSE) /\ setup.primes = "around")

\* Once traces are active the caller is done, or PrimesTooLate.
CapturedInv == (captured => PrimesTooLate \/ (script = <<>> /\ todo = <<>>)) /\ (refused => PrimesTooLate)

LEMMA TailFacts ==
    ASSUME NEW S, NEW L \in Seq(S), L # <<>>
    PROVE  /\ Tail(L) \in Seq(S) /\ Len(L) \in Nat \ {0} /\ Len(Tail(L)) = Len(L) - 1 /\ L[1] \in S
           /\ \A k \in 1 .. Len(Tail(L)) : k + 1 \in 1 .. Len(L) /\ Tail(L)[k] = L[k + 1]
           /\ Len(L) = 1 => Tail(L) = <<>>
OBVIOUS

LEMMA Scriptwork ==
    /\ PrefillFirst(setup.mode) = BothTraced /\ DecodeFirst(setup.mode) = DecodeThenPrefill
    /\ EagerPass \o PrefillFirst(setup.mode) = BothPasses
    /\ Tail(LastDecode) = <<>> /\ Tail(LastPrefill) = <<>>
    /\ Tail(DecodeThenPrefill) = LastPrefill /\ Tail(BothTraced) = LastDecode
    /\ Tail(EagerDecodeFirst) = BothTraced /\ Tail(BothPasses) = EagerDecodeFirst
    /\ LastDecode[1] = Asks("decode", TRUE) /\ LastPrefill[1] = Asks("prefill", TracesAll)
    /\ DecodeThenPrefill[1] = Asks("decode", TRUE) /\ BothTraced[1] = Asks("prefill", TracesAll)
    /\ EagerDecodeFirst[1] = Asks("decode", FALSE) /\ BothPasses[1] = Asks("prefill", FALSE)
<1>1. PICK a : a = Asks("prefill", FALSE)
  OBVIOUS
<1>2. PICK b : b = Asks("decode", FALSE)
  OBVIOUS
<1>3. PICK c : c = Asks("prefill", TracesAll)
  OBVIOUS
<1>4. PICK d : d = Asks("decode", TRUE)
  OBVIOUS
<1>5. c = Asks("prefill", setup.mode = "all")
  BY <1>3 DEF TracesAll
<1>6. /\ LastDecode = <<d>> /\ LastPrefill = <<c>> /\ BothTraced = <<c, d>> /\ DecodeThenPrefill = <<d, c>>
      /\ EagerDecodeFirst = <<b, c, d>> /\ BothPasses = <<a, b, c, d>>
  BY <1>1, <1>2, <1>3, <1>4
     DEF LastDecode, LastPrefill, BothTraced, DecodeThenPrefill, EagerDecodeFirst, BothPasses
<1>7. PrefillFirst(setup.mode) = <<c, d>> /\ DecodeFirst(setup.mode) = <<d, c>> /\ EagerPass = <<a, b>>
  BY <1>1, <1>2, <1>4, <1>5 DEF PrefillFirst, DecodeFirst, EagerPass
<1>8. <<a, b>> \o <<c, d>> = <<a, b, c, d>>
  <2>1. PICK S : S = {a, b, c, d}
    OBVIOUS
  <2>2. PICK p : p = <<a, b>>
    OBVIOUS
  <2>3. PICK q : q = <<c, d>>
    OBVIOUS
  <2>4. PICK s : s = <<a, b, c, d>>
    OBVIOUS
  <2>5. /\ p \in Seq(S) /\ Len(p) = 2 /\ p[1] = a /\ p[2] = b
        /\ q \in Seq(S) /\ Len(q) = 2 /\ q[1] = c /\ q[2] = d
        /\ s \in Seq(S) /\ Len(s) = 4 /\ s[1] = a /\ s[2] = b /\ s[3] = c /\ s[4] = d
    BY <2>1, <2>2, <2>3, <2>4
  <2>11. PICK u : u = p \o q
    OBVIOUS
  <2>6. /\ Len(u) = 4 /\ u \in Seq(S) /\ \A i \in 1 .. 2 : u[i] = p[i]
        /\ \A i \in 3 .. 4 : u[i] = q[i - 2]
    <3>1. /\ Len(p \o q) = Len(p) + Len(q) /\ p \o q \in Seq(S)
          /\ \A i \in 1 .. Len(p) : (p \o q)[i] = p[i]
          /\ \A i \in Len(p) + 1 .. Len(p) + Len(q) : (p \o q)[i] = q[i - Len(p)]
      <4>1. p \in Seq(S) /\ q \in Seq(S)
        BY <2>5
      <4>2. p \o q \in Seq(S)
        BY <4>1
      <4> QED BY <4>1, <4>2, Concatenation
    <3>2. Len(p) = 2 /\ Len(p) + Len(q) = 4
      BY <2>5
    <3> QED BY <2>11, <3>1, <3>2
  <2>7. u[1] = a /\ u[2] = b /\ u[3] = c /\ u[4] = d
    BY <2>5, <2>6
  <2>8. \A i \in 1 .. 4 : i = 1 \/ i = 2 \/ i = 3 \/ i = 4
    OBVIOUS
  <2>9. \A i \in 1 .. 4 : u[i] = s[i]
    BY <2>5, <2>7, <2>8
  <2>10. u = s
    BY <2>5, <2>6, <2>9
  <2> QED BY <2>2, <2>3, <2>4, <2>10, <2>11
<1>9. /\ Tail(<<d>>) = <<>> /\ Tail(<<c>>) = <<>> /\ Tail(<<d, c>>) = <<c>> /\ Tail(<<c, d>>) = <<d>>
      /\ Tail(<<b, c, d>>) = <<c, d>> /\ Tail(<<a, b, c, d>>) = <<b, c, d>>
  OBVIOUS
<1> QED BY <1>1, <1>2, <1>3, <1>4, <1>6, <1>7, <1>8, <1>9

LEMMA FirstCalls ==
    /\ LastDecode[1].op = "decode" /\ LastDecode[1].trace = TRUE
    /\ LastPrefill[1].op = "prefill" /\ LastPrefill[1].trace = TracesAll
    /\ DecodeThenPrefill[1].op = "decode" /\ DecodeThenPrefill[1].trace = TRUE
    /\ BothTraced[1].op = "prefill" /\ BothTraced[1].trace = TracesAll
    /\ EagerDecodeFirst[1].op = "decode" /\ EagerDecodeFirst[1].trace = FALSE
    /\ BothPasses[1].op = "prefill" /\ BothPasses[1].trace = FALSE
    /\ Asks("prefill", FALSE).op = "prefill" /\ Asks("prefill", FALSE).trace = FALSE
<1>1. /\ Asks("decode", TRUE).op = "decode" /\ Asks("decode", TRUE).trace = TRUE
      /\ Asks("decode", FALSE).op = "decode" /\ Asks("decode", FALSE).trace = FALSE
      /\ Asks("prefill", FALSE).op = "prefill" /\ Asks("prefill", FALSE).trace = FALSE
  BY DEF Asks
<1>2. Asks("prefill", TracesAll).op = "prefill" /\ Asks("prefill", TracesAll).trace = TracesAll
  BY DEF Asks
<1> QED BY <1>1, <1>2, Scriptwork

LEMMA Stages ==
    ASSUME ScriptInv, script # <<>>
    PROVE  /\ script[1].trace \in BOOLEAN /\ script[1].op \in {"prefill", "decode"}
           /\ script[1] = Asks(script[1].op, script[1].trace)
<1>1. \A op, trace : Asks(op, trace).op = op /\ Asks(op, trace).trace = trace
  BY DEF Asks
<1>2. \E op \in {"prefill", "decode"}, trace \in BOOLEAN : script[1] = Asks(op, trace)
  <2>1. TracesAll \in BOOLEAN
    BY DEF TracesAll
  <2>2. \/ script[1] = Asks("decode", TRUE) \/ script[1] = Asks("prefill", TracesAll)
        \/ script[1] = Asks("decode", FALSE) \/ script[1] = Asks("prefill", FALSE)
    BY Scriptwork DEF ScriptInv
  <2> QED BY <2>1, <2>2
<1> QED BY <1>1, <1>2

LEMMA StepFields ==
    ASSUME NEW step \in Steps
    PROVE  /\ step.does \in {"compile", "warmed", "capture", "primed", "decode"}
           /\ step.does = "compile" => step \in CompileSteps /\ step.sampling \in Samples /\ step.traced \in BOOLEAN
           /\ step.does = "warmed" =>
                 step.case \in CaseType /\ step.traced \in BOOLEAN /\ step = WarmedStep(step.case, step.traced)
           /\ step.does = "primed" => step.trace \in BOOLEAN /\ step = PrimedStep(step.trace)
           /\ step.does = "decode" => step.trace \in BOOLEAN /\ step = DecodeStep(step.trace)
           /\ step.does = "capture" => step = CaptureStep
<1>1. ASSUME step \in CompileSteps
      PROVE  step.does = "compile" /\ step.sampling \in Samples /\ step.traced \in BOOLEAN
  BY <1>1 DEF CompileSteps
<1>2. ASSUME NEW case \in CaseType, NEW traced \in BOOLEAN, step = WarmedStep(case, traced)
      PROVE  step.does = "warmed" /\ step.case = case /\ step.traced = traced
  BY <1>2 DEF WarmedStep
<1>3. ASSUME step = CaptureStep PROVE step.does = "capture"
  BY <1>3 DEF CaptureStep
<1>4. ASSUME NEW trace \in BOOLEAN, step = PrimedStep(trace)
      PROVE  step.does = "primed" /\ step.trace = trace
  BY <1>4 DEF PrimedStep
<1>5. ASSUME NEW trace \in BOOLEAN, step = DecodeStep(trace)
      PROVE  step.does = "decode" /\ step.trace = trace
  BY <1>5 DEF DecodeStep
<1>6. \/ step \in CompileSteps \/ step = CaptureStep
      \/ \E case \in CaseType, traced \in BOOLEAN : step = WarmedStep(case, traced)
      \/ \E trace \in BOOLEAN : step = PrimedStep(trace) \/ step = DecodeStep(trace)
  BY DEF Steps
<1>7. CASE step \in CompileSteps
  BY <1>1, <1>7
<1>8. CASE step = CaptureStep
  BY <1>3, <1>8
<1>9. CASE \E case \in CaseType, traced \in BOOLEAN : step = WarmedStep(case, traced)
  <2>1. PICK case \in CaseType, traced \in BOOLEAN : step = WarmedStep(case, traced)
    BY <1>9
  <2>2. step.does = "warmed" /\ step.case = case /\ step.traced = traced
    BY <1>2, <2>1
  <2> QED BY <2>1, <2>2
<1>10. CASE \E trace \in BOOLEAN : step = PrimedStep(trace) \/ step = DecodeStep(trace)
  <2>1. PICK trace \in BOOLEAN : step = PrimedStep(trace) \/ step = DecodeStep(trace)
    BY <1>10
  <2>2. CASE step = PrimedStep(trace)
    <3>1. step.does = "primed" /\ step.trace = trace
      BY <1>4, <2>2
    <3> QED BY <2>2, <3>1
  <2>3. CASE step = DecodeStep(trace)
    <3>1. step.does = "decode" /\ step.trace = trace
      BY <1>5, <2>3
    <3> QED BY <2>3, <3>1
  <2> QED BY <2>1, <2>2, <2>3
<1> QED BY <1>6, <1>7, <1>8, <1>9, <1>10

CallsInv == ScriptInv /\ CallDecides /\ CaptureLast

\* Doing one step of the call in progress keeps the order of the calls.
LEMMA Advance ==
    ASSUME todo \in Seq(Steps), CallsInv, todo # <<>>, Done, UNCHANGED <<setup, decisions>>
    PROVE  CallsInv' /\ todo' \in Seq(Steps) /\ (Len(todo) # 1 => script' = script)
<1> DEFINE L == todo
<1>1. /\ todo' \in Seq(Steps) /\ Len(todo) \in Nat \ {0} /\ Len(todo') = Len(todo) - 1
      /\ \A k \in 1 .. Len(todo') : k + 1 \in 1 .. Len(todo) /\ todo'[k] = todo[k + 1]
      /\ Len(todo) = 1 => todo' = <<>>
  BY TailFacts DEF Done
<1>2. script # <<>>
  BY DEF CallsInv, CallDecides
<1>3. CASE Len(todo) # 1
  <2>1. script' = script /\ setup' = setup /\ decisions' = decisions
    BY <1>3 DEF Done
  <2>2. ScriptInv'
    BY <1>2, <2>1 DEF CallsInv, ScriptInv, LastDecode, LastPrefill, BothTraced, DecodeThenPrefill,
                      EagerDecodeFirst, BothPasses, TracesAll
  <2>3. CallDecides'
    BY <2>1 DEF CallsInv, CallDecides
  <2>4. ASSUME NEW k \in 1 .. Len(todo'), todo'[k].does = "capture"
        PROVE  k = Len(todo') \/ (script'[1] = Asks("prefill", FALSE) /\ setup'.primes = "around")
    <3>1. k + 1 \in 1 .. Len(todo) /\ todo[k + 1].does = "capture"
      BY <1>1, <2>4
    <3>2. k + 1 = Len(todo) \/ (script[1] = Asks("prefill", FALSE) /\ setup.primes = "around")
      BY <3>1 DEF CallsInv, CaptureLast
    <3>3. k + 1 = Len(todo) => k = Len(todo')
      BY <1>1
    <3> QED BY <2>1, <3>2, <3>3
  <2>5. CaptureLast'
    BY <2>4 DEF CaptureLast
  <2> QED BY <1>1, <2>1, <2>2, <2>3, <2>5 DEF CallsInv
<1>4. CASE Len(todo) = 1
  <2>1. script' = Tail(script) /\ setup' = setup /\ decisions' = decisions /\ todo' = <<>>
    BY <1>1, <1>4 DEF Done
  <2>2. Len(todo') = 0
    BY <1>1, <1>4
  <2>3. CallDecides' /\ CaptureLast'
    BY <2>1, <2>2 DEF CallDecides, CaptureLast
  <2>4. /\ LastDecode' = LastDecode /\ LastPrefill' = LastPrefill /\ BothTraced' = BothTraced
        /\ DecodeThenPrefill' = DecodeThenPrefill /\ EagerDecodeFirst' = EagerDecodeFirst
    BY <2>1 DEF LastDecode, LastPrefill, BothTraced, DecodeThenPrefill, EagerDecodeFirst, TracesAll
  <2>5. decisions[script[1].op] = script[1].trace
    BY DEF CallsInv, CallDecides
  <2>7. ASSUME script = LastDecode \/ script = LastPrefill
         PROVE  ScriptInv'
    <3>1. Tail(script) = <<>>
      BY <2>7, Scriptwork
    <3>2. script' = <<>> /\ todo' = <<>>
      BY <2>1, <3>1
    <3> QED BY <3>2 DEF ScriptInv
  <2>8. ASSUME script = DecodeThenPrefill /\ setup.script = DecodeThenPrefill
         PROVE  ScriptInv'
    <3>1. Tail(script) = LastPrefill
      BY <2>8, Scriptwork
    <3>2. script' = LastPrefill' /\ setup'.script = DecodeThenPrefill'
      BY <2>1, <2>4, <2>8, <3>1
    <3> QED BY <3>2 DEF ScriptInv
  <2>9. ASSUME script = BothTraced
         PROVE  ScriptInv'
    <3>1. Tail(script) = LastDecode
      BY <2>9, Scriptwork
    <3>2. script' = LastDecode'
      BY <2>1, <2>4, <3>1
    <3> QED BY <3>2 DEF ScriptInv
  <2>10. ASSUME script = EagerDecodeFirst /\ decisions["prefill"] = FALSE /\ decisions["decode"] \in {Unset, FALSE}
         PROVE  ScriptInv'
    <3>1. Tail(script) = BothTraced
      BY <2>10, Scriptwork
    <3>2. /\ script' = BothTraced'
          /\ decisions'["decode"] = Unset \/ (decisions'["decode"] = FALSE /\ decisions'["prefill"] = FALSE)
      BY <2>1, <2>4, <2>10, <3>1
    <3> QED BY <3>2 DEF ScriptInv
  <2>11. ASSUME script = BothPasses /\ decisions["decode"] = Unset
         PROVE  ScriptInv'
    <3>1. decisions["prefill"] = FALSE
      BY <2>5, <2>11, FirstCalls
    <3>2. Tail(script) = EagerDecodeFirst
      BY <2>11, Scriptwork
    <3>3. /\ script' = EagerDecodeFirst' /\ decisions'["prefill"] = FALSE
          /\ decisions'["decode"] \in {Unset, FALSE}
      BY <2>1, <2>4, <2>11, <3>1, <3>2
    <3> QED BY <3>3 DEF ScriptInv
  <2>12. ScriptInv'
    BY <1>2, <2>7, <2>8, <2>9, <2>10, <2>11 DEF CallsInv, ScriptInv
  <2> QED BY <1>1, <1>4, <2>3, <2>12 DEF CallsInv
<1> QED BY <1>3, <1>4

\* A call only captures when nothing is left to call, or PrimesTooLate.
LEMMA CapturesAtTheEnd ==
    ASSUME CoverageTypeOK, CallsInv, Does("capture"), AllWarmed, TracesRegistered, ~PrimesTooLate
    PROVE  Len(todo) = 1 /\ Tail(script) = <<>>
<1>1. /\ decisions["prefill"] # Unset /\ decisions["decode"] # Unset
      /\ decisions["prefill"] = TRUE \/ decisions["decode"] = TRUE
  BY DEF AllWarmed, TracesRegistered, RequiredTraces
<1>2. Unset # FALSE /\ Unset # TRUE
  BY UnsetAssumption
<1>3. todo # <<>> /\ todo[1].does = "capture" /\ Len(todo) \in Nat \ {0}
  <2>1. todo # <<>> /\ todo \in Seq(Steps)
    BY DEF Does, CoverageTypeOK
  <2> QED BY <2>1, TailFacts DEF Does
<1>4. script # <<>> /\ decisions[script[1].op] = script[1].trace
  BY <1>3 DEF CallsInv, CallDecides
<1>6. 1 = Len(todo) \/ (script[1] = Asks("prefill", FALSE) /\ setup.primes = "around")
  <2>1. 1 \in 1 .. Len(todo)
    BY <1>3
  <2> QED BY <1>3, <2>1 DEF CallsInv, CaptureLast
<1>7. CASE script = LastDecode
  <2>1. script[1] # Asks("prefill", FALSE)
    BY <1>7, FirstCalls
  <2>2. Tail(script) = <<>>
    BY <1>7, Scriptwork
  <2> QED BY <1>6, <2>1, <2>2
<1>8. CASE script = LastPrefill /\ setup.script = DecodeThenPrefill
  <2>1. setup.script[1].op = "decode"
    BY <1>8, FirstCalls
  <2>2. script[1] = Asks("prefill", FALSE) => ~TracesAll
    BY <1>8, FirstCalls
  <2>3. ~(script[1] = Asks("prefill", FALSE) /\ setup.primes = "around")
    BY <2>1, <2>2 DEF PrimesTooLate, PrefillTraced, TracesAll
  <2>4. Tail(script) = <<>>
    BY <1>8, Scriptwork
  <2> QED BY <1>6, <2>3, <2>4
<1>9. CASE /\ script = BothTraced
           /\ \/ decisions["decode"] = Unset
              \/ decisions["decode"] = FALSE /\ decisions["prefill"] = FALSE
  BY <1>1, <1>2, <1>9
<1>10. CASE script = DecodeThenPrefill /\ decisions["prefill"] = Unset
  BY <1>1, <1>10
<1>11. CASE script = EagerDecodeFirst /\ decisions["prefill"] = FALSE /\ decisions["decode"] \in {Unset, FALSE}
  BY <1>1, <1>2, <1>11
<1>12. CASE script = BothPasses /\ decisions["decode"] = Unset
  BY <1>1, <1>12
<1> QED BY <1>4, <1>7, <1>8, <1>9, <1>10, <1>11, <1>12 DEF CallsInv, ScriptInv

WarmupInv == CoverageTypeOK /\ CallsInv /\ CapturedInv

LEMMA WarmupStarts == CoverageInit => WarmupInv
<1> SUFFICES ASSUME CoverageInit PROVE WarmupInv
  OBVIOUS
<1>1. setup \in Setups /\ CoversBuckets(setup) /\ script = setup.script /\ todo = <<>>
  BY DEF CoverageInit
<1>2. decisions["prefill"] = Unset /\ decisions["decode"] = Unset
  BY DEF CoverageInit
<1>3. CoverageTypeOK
  <2>1. decisions \in [{"prefill", "decode"} -> Traces]
    BY DEF CoverageInit, Traces
  <2>2. warmed \in [BOOLEAN -> SUBSET CaseType]
    BY DEF CoverageInit
  <2>3. todo \in Seq(Steps)
    BY <1>1
  <2> QED BY <1>1, <2>1, <2>2, <2>3 DEF CoverageInit, CoverageTypeOK
<1>4. ScriptInv
  <2>1. setup.script \in Scripts(setup.mode)
    BY <1>1, SetupFacts
  <2>2. setup.script = BothTraced \/ setup.script = DecodeThenPrefill \/ setup.script = BothPasses
    BY <2>1, Scriptwork DEF Scripts
  <2> QED BY <1>1, <1>2, <2>2 DEF ScriptInv
<1>5. CallDecides /\ CaptureLast
  <2>1. Len(todo) = 0
    BY <1>1
  <2> QED BY <1>1, <2>1 DEF CallDecides, CaptureLast
<1>6. CapturedInv
  BY DEF CoverageInit, CapturedInv
<1> QED BY <1>3, <1>4, <1>5, <1>6 DEF WarmupInv, CallsInv

LEMMA PrefillCalled ==
    ASSUME WarmupInv, CallPrefill PROVE WarmupInv'
<1>1. PICK trace : trace = script[1].trace
  OBVIOUS
<1>2. /\ script # <<>> /\ todo = <<>> /\ script[1].op = "prefill" /\ todo' = PrefillSteps(trace)
      /\ decisions' = [decisions EXCEPT !["prefill"] = trace,
                                        !["decode"] = IF trace /\ @ = FALSE THEN Unset ELSE @]
      /\ setup' = setup /\ script' = script /\ warmed' = warmed /\ primed' = primed /\ decode' = decode
      /\ captured' = captured /\ refused' = refused
  BY <1>1 DEF CallPrefill, Call, coverage
<1>3. trace \in BOOLEAN /\ script[1] = Asks("prefill", trace) /\ setup \in Setups /\ CoversBuckets(setup)
  BY <1>1, <1>2, Stages DEF WarmupInv, CallsInv, CoverageTypeOK
<1>4. /\ todo' \in Seq(Steps) /\ Len(todo') \in Nat \ {0}
      /\ setup.primes = "before" \/ trace =>
            \A k \in 1 .. Len(todo') : todo'[k].does = "capture" => k = Len(todo')
  BY <1>2, <1>3, PrefillStepsFacts
<1>5. /\ decisions \in [{"prefill", "decode"} -> Traces] /\ trace \in Traces /\ Unset \in Traces
      /\ Unset # FALSE /\ Unset # TRUE
  BY <1>3, UnsetAssumption DEF WarmupInv, CoverageTypeOK, Traces
<1>6. /\ decisions' \in [{"prefill", "decode"} -> Traces] /\ decisions'["prefill"] = trace
      /\ decisions'["decode"] = IF trace /\ decisions["decode"] = FALSE THEN Unset ELSE decisions["decode"]
  BY <1>2, <1>5
<1>7. CoverageTypeOK'
  BY <1>2, <1>3, <1>4, <1>6 DEF WarmupInv, CoverageTypeOK, CoversBuckets, WarmLengths
<1>8. CallDecides'
  BY <1>1, <1>2, <1>3, <1>6 DEF CallDecides
<1>9. CaptureLast'
  <2>1. ASSUME NEW k \in 1 .. Len(todo'), todo'[k].does = "capture", k # Len(todo')
        PROVE  script'[1] = Asks("prefill", FALSE) /\ setup'.primes = "around"
    <3>1. ~(setup.primes = "before" \/ trace) /\ setup.primes \in {"before", "around"}
      BY <1>3, <1>4, <2>1, SetupFacts
    <3>2. trace = FALSE
      BY <1>3, <3>1
    <3> QED BY <1>2, <1>3, <3>1, <3>2
  <2> QED BY <2>1 DEF CaptureLast
<1>10. ScriptInv'
  <2>1. /\ LastDecode' = LastDecode /\ LastPrefill' = LastPrefill /\ BothTraced' = BothTraced
        /\ DecodeThenPrefill' = DecodeThenPrefill /\ EagerDecodeFirst' = EagerDecodeFirst
        /\ BothPasses' = BothPasses
    BY <1>2 DEF LastDecode, LastPrefill, BothTraced, DecodeThenPrefill, EagerDecodeFirst, BothPasses, TracesAll
  <2>2. script # LastDecode /\ script # DecodeThenPrefill /\ script # EagerDecodeFirst
    BY <1>2, FirstCalls
  <2>3. CASE script = LastPrefill /\ setup.script = DecodeThenPrefill
    BY <1>2, <2>1, <2>3 DEF ScriptInv
  <2>4. CASE /\ script = BothTraced
             /\ \/ decisions["decode"] = Unset
                \/ decisions["decode"] = FALSE /\ decisions["prefill"] = FALSE
    <3>1. \/ decisions'["decode"] = Unset
          \/ decisions'["decode"] = FALSE /\ decisions'["prefill"] = FALSE
      BY <1>3, <1>5, <1>6, <2>4
    <3> QED BY <1>2, <2>1, <2>4, <3>1 DEF ScriptInv
  <2>5. CASE script = BothPasses /\ decisions["decode"] = Unset
    <3>1. trace = FALSE
      BY <1>1, <2>5, FirstCalls
    <3>2. decisions'["decode"] = Unset /\ decisions'["prefill"] \in {Unset, FALSE}
      BY <1>6, <2>5, <3>1
    <3> QED BY <1>2, <2>1, <2>5, <3>2 DEF ScriptInv
  <2> QED BY <1>2, <2>2, <2>3, <2>4, <2>5 DEF WarmupInv, CallsInv, ScriptInv
<1>11. CapturedInv'
  BY <1>2 DEF WarmupInv, CapturedInv, PrimesTooLate, PrefillTraced
<1> QED BY <1>7, <1>8, <1>9, <1>10, <1>11 DEF WarmupInv, CallsInv

LEMMA DecodeCalled ==
    ASSUME WarmupInv, CallDecode PROVE WarmupInv'
<1>1. PICK trace : trace = script[1].trace
  OBVIOUS
<1>2. /\ script # <<>> /\ todo = <<>> /\ script[1].op = "decode" /\ todo' = DecodeSteps(trace)
      /\ decisions' = [decisions EXCEPT !["decode"] = trace]
      /\ setup' = setup /\ script' = script /\ warmed' = warmed /\ primed' = primed /\ decode' = decode
      /\ captured' = captured /\ refused' = refused
  BY <1>1 DEF CallDecode, Call, coverage
<1>3. trace \in BOOLEAN /\ setup \in Setups /\ CoversBuckets(setup)
  BY <1>1, <1>2, Stages DEF WarmupInv, CallsInv, CoverageTypeOK
<1>4. /\ todo' \in Seq(Steps)
      /\ \A k \in 1 .. Len(todo') : todo'[k].does = "capture" => k = Len(todo')
  BY <1>2, <1>3, DecodeStepsFacts
<1>5. decisions \in [{"prefill", "decode"} -> Traces] /\ trace \in Traces /\ Unset # FALSE /\ Unset # TRUE
  BY <1>3, UnsetAssumption DEF WarmupInv, CoverageTypeOK, Traces
<1>6. /\ decisions' \in [{"prefill", "decode"} -> Traces] /\ decisions'["decode"] = trace
      /\ decisions'["prefill"] = decisions["prefill"]
  BY <1>2, <1>5
<1>7. CoverageTypeOK'
  BY <1>2, <1>3, <1>4, <1>6 DEF WarmupInv, CoverageTypeOK, CoversBuckets, WarmLengths
<1>8. CallDecides'
  BY <1>1, <1>2, <1>3, <1>6 DEF CallDecides
<1>9. CaptureLast'
  BY <1>4 DEF CaptureLast
<1>10. ScriptInv'
  <2>1. /\ LastDecode' = LastDecode /\ LastPrefill' = LastPrefill /\ BothTraced' = BothTraced
        /\ DecodeThenPrefill' = DecodeThenPrefill /\ EagerDecodeFirst' = EagerDecodeFirst
        /\ BothPasses' = BothPasses
    BY <1>2 DEF LastDecode, LastPrefill, BothTraced, DecodeThenPrefill, EagerDecodeFirst, BothPasses, TracesAll
  <2>2. script # LastPrefill /\ script # BothTraced /\ script # BothPasses
    BY <1>2, FirstCalls
  <2>3. CASE script = LastDecode
    BY <1>2, <2>1, <2>3 DEF ScriptInv
  <2>4. CASE script = DecodeThenPrefill /\ setup.script = DecodeThenPrefill /\ decisions["prefill"] = Unset
    BY <1>2, <1>6, <2>1, <2>4 DEF ScriptInv
  <2>5. CASE script = EagerDecodeFirst /\ decisions["prefill"] = FALSE
    <3>1. trace = FALSE
      BY <1>1, <2>5, FirstCalls
    <3>2. decisions'["prefill"] = FALSE /\ decisions'["decode"] \in {Unset, FALSE}
      BY <1>6, <2>5, <3>1
    <3> QED BY <1>2, <2>1, <2>5, <3>2 DEF ScriptInv
  <2> QED BY <1>2, <2>2, <2>3, <2>4, <2>5 DEF WarmupInv, CallsInv, ScriptInv
<1>11. CapturedInv'
  BY <1>2 DEF WarmupInv, CapturedInv, PrimesTooLate, PrefillTraced
<1> QED BY <1>7, <1>8, <1>9, <1>10, <1>11 DEF WarmupInv, CallsInv

LEMMA NotCapturedYet ==
    ASSUME WarmupInv, todo # <<>> PROVE captured => PrimesTooLate
BY DEF WarmupInv, CapturedInv

\* A step of a call other than its capture.
LEMMA StepDone ==
    ASSUME WarmupInv, todo # <<>>, Done, UNCHANGED <<setup, decisions, captured, refused>>,
           warmed' \in [BOOLEAN -> SUBSET CaseType], primed' \in SUBSET BOOLEAN, decode' \in SUBSET BOOLEAN
    PROVE  WarmupInv'
<1>1. CallsInv' /\ todo' \in Seq(Steps)
  BY Advance DEF WarmupInv, CoverageTypeOK
<1>2. CapturedInv'
  BY NotCapturedYet DEF WarmupInv, CapturedInv, PrimesTooLate, PrefillTraced
<1>3. CoverageTypeOK'
  BY <1>1 DEF WarmupInv, CoverageTypeOK, CoversBuckets, WarmLengths
<1> QED BY <1>1, <1>2, <1>3 DEF WarmupInv

LEMMA CallStops ==
    ASSUME WarmupInv, todo # <<>>, todo' = <<>>, script' = script \/ script' = <<>>,
           UNCHANGED <<setup, coverage, decisions, captured>>, refused' = refused \/ (refused' = TRUE /\ captured)
    PROVE  WarmupInv'
<1>1. CoverageTypeOK'
  <2>1. todo' \in Seq(Steps)
    OBVIOUS
  <2>2. /\ setup' = setup /\ decisions' = decisions /\ warmed' = warmed /\ primed' = primed
        /\ decode' = decode /\ captured' = captured /\ refused' \in BOOLEAN
    BY DEF WarmupInv, CoverageTypeOK, coverage
  <2> QED BY <2>1, <2>2 DEF WarmupInv, CoverageTypeOK, CoversBuckets, WarmLengths
<1>2. CapturedInv'
  BY NotCapturedYet DEF WarmupInv, CapturedInv, PrimesTooLate, PrefillTraced
<1>3. Len(todo') = 0
  OBVIOUS
<1>4. CallDecides' /\ CaptureLast'
  BY <1>3 DEF CallDecides, CaptureLast
<1>5. ScriptInv'
  BY DEF WarmupInv, CallsInv, ScriptInv, LastDecode, LastPrefill, BothTraced, DecodeThenPrefill,
         EagerDecodeFirst, BothPasses, TracesAll
<1> QED BY <1>1, <1>2, <1>4, <1>5 DEF WarmupInv, CallsInv

LEMMA CaptureKeeps ==
    ASSUME WarmupInv, MaybeCapture PROVE WarmupInv'
<1>1. /\ todo # <<>> /\ todo[1].does = "capture" /\ Done
      /\ captured' = (captured \/ (AllWarmed /\ TracesRegistered))
      /\ setup' = setup /\ decisions' = decisions /\ refused' = refused
      /\ warmed' = warmed /\ primed' = primed /\ decode' = decode
  BY DEF MaybeCapture, Does, coverage
<1>2. CallsInv' /\ todo' \in Seq(Steps)
  BY <1>1, Advance DEF WarmupInv, CoverageTypeOK
<1>3. CoverageTypeOK'
  BY <1>1, <1>2 DEF WarmupInv, CoverageTypeOK, CoversBuckets, WarmLengths
<1>4. PrimesTooLate' <=> PrimesTooLate
  BY <1>1 DEF PrimesTooLate, PrefillTraced
<1>5. ASSUME captured', ~PrimesTooLate PROVE script' = <<>> /\ todo' = <<>>
  <2>1. AllWarmed /\ TracesRegistered
    BY <1>1, <1>5, NotCapturedYet
  <2>2. Len(todo) = 1 /\ Tail(script) = <<>>
    BY <1>1, <1>5, <2>1, CapturesAtTheEnd DEF WarmupInv, Does
  <2>3. Tail(todo) = <<>>
    BY <1>1, <2>2, TailFacts DEF WarmupInv, CoverageTypeOK
  <2> QED BY <1>1, <2>2, <2>3 DEF Done
<1>6. CapturedInv'
  BY <1>1, <1>4, <1>5 DEF WarmupInv, CapturedInv
<1> QED BY <1>2, <1>3, <1>6 DEF WarmupInv

LEMMA WarmupInvKept == WarmupInv /\ [CoverageNext]_vars => WarmupInv'
<1> SUFFICES ASSUME WarmupInv, [CoverageNext]_vars PROVE WarmupInv'
  OBVIOUS
<1>1. /\ todo \in Seq(Steps) /\ warmed \in [BOOLEAN -> SUBSET CaseType]
      /\ primed \in SUBSET BOOLEAN /\ decode \in SUBSET BOOLEAN
  BY DEF WarmupInv, CoverageTypeOK
<1>2. todo # <<>> => todo[1] \in Steps
  BY <1>1, TailFacts
<1>3. CASE CallPrefill
  BY <1>3, PrefillCalled
<1>4. CASE CallDecode
  BY <1>4, DecodeCalled
<1>5. CASE Compile
  BY <1>1, <1>5, StepDone DEF Compile, Does, coverage
<1>6. CASE CompileRaises
  <2>1. /\ todo # <<>> /\ todo' = <<>> /\ script' = script /\ UNCHANGED <<setup, coverage, decisions, captured>>
        /\ refused' = refused
    BY <1>6 DEF CompileRaises, Does
  <2> QED BY <2>1, CallStops
<1>7. CASE CompileDecode
  <2>1. todo[1].trace \in BOOLEAN
    BY <1>2, <1>7, StepFields DEF CompileDecode, Does
  <2>2. decode' \in SUBSET BOOLEAN
    BY <1>1, <1>7, <2>1 DEF CompileDecode
  <2> QED BY <1>1, <1>7, <2>2, StepDone DEF CompileDecode, Does
<1>8. CASE WarmupRefused
  BY <1>8, CallStops DEF WarmupRefused, Gated
<1>9. CASE CaseDone
  <2>1. todo[1].case \in CaseType /\ todo[1].traced \in BOOLEAN
    BY <1>2, <1>9, StepFields DEF CaseDone, Does
  <2>2. warmed' \in [BOOLEAN -> SUBSET CaseType]
    BY <1>1, <1>9, <2>1 DEF CaseDone
  <2> QED BY <1>1, <1>9, <2>2, StepDone DEF CaseDone, Does
<1>10. CASE PrimingDone
  <2>1. todo[1].trace \in BOOLEAN
    BY <1>2, <1>10, StepFields DEF PrimingDone, Does
  <2>2. primed' \in SUBSET BOOLEAN
    BY <1>1, <1>10, <2>1 DEF PrimingDone
  <2> QED BY <1>1, <1>10, <2>2, StepDone DEF PrimingDone, Does
<1>11. CASE MaybeCapture
  BY <1>11, CaptureKeeps
<1>12. CASE UNCHANGED vars
  <2>1. /\ setup' = setup /\ script' = script /\ todo' = todo /\ warmed' = warmed /\ primed' = primed
        /\ decode' = decode /\ decisions' = decisions /\ captured' = captured /\ refused' = refused
    BY <1>12 DEF vars, coverage
  <2> QED BY <2>1 DEF WarmupInv, CoverageTypeOK, CallsInv, CapturedInv, ScriptInv, CallDecides, CaptureLast,
                 PrimesTooLate, PrefillTraced, LastDecode, LastPrefill, BothTraced, DecodeThenPrefill,
                 EagerDecodeFirst, BothPasses, TracesAll, CoversBuckets, WarmLengths
<1> QED BY <1>3, <1>4, <1>5, <1>6, <1>7, <1>8, <1>9, <1>10, <1>11, <1>12 DEF CoverageNext

\* Through a whole warm-up, with failures and repeated calls, a traced capture ends the last call.
THEOREM WarmupInvariance == CoverageSpec => []WarmupInv
<1>1. CoverageInit => WarmupInv
  BY WarmupStarts
<1>2. WarmupInv /\ [CoverageNext]_vars => WarmupInv'
  BY WarmupInvKept
<1> QED BY <1>1, <1>2, PTL DEF CoverageSpec

\* No call of warm-up, a repeated one after a failure included, is refused a program or a trace by the
\* gate an earlier call closed, but for a family that primes after its default warm-up has captured.
THEOREM WarmupIsAlwaysAccepted == CoverageSpec => []WarmupIsAccepted
<1>1. WarmupInv => WarmupIsAccepted
  BY DEF WarmupInv, CapturedInv, WarmupIsAccepted
<1> QED BY <1>1, WarmupInvariance, PTL

-----------------------------------------------------------------------------
(* Plans under the policies of a lane: fixed waves, or none. *)

LEMMA Growing ==
    ASSUME NEW a \in Nat, NEW b \in Nat, a <= b, NEW c \in Nat
    PROVE  a * c <= b * c /\ a * c \in Nat /\ b * c \in Nat /\ (a + 1) * c = a * c + c
OBVIOUS

\* Each element of s has its place in some wave, and there is one wave only when they all fit.
Covering(W, s) ==
    \A i \in 1 .. Len(s) : \E w \in 1 .. Len(W) : \E j \in 1 .. Len(W[w].rows) : W[w].rows[j] = s[i]
WholeWaves(W, s, size) == Len(s) <= size => \A w \in 1 .. Len(W) : Len(W[w].rows) = Len(s)

LEMMA WavesCover ==
    ASSUME NEW R, NEW s \in Seq(R), NEW size \in Nat \ {0}, NEW W, W = Waves(s, size)
    PROVE  Covering(W, s) /\ WholeWaves(W, s, size)
<1>1. PICK n : n = Len(s)
  OBVIOUS
<1>2. PICK k : k = CeilDiv(n, size)
  OBVIOUS
<1>3. n \in Nat /\ k \in Nat /\ n <= k * size /\ k * size < n + size
  <2>1. n \in Nat
    BY <1>1
  <2> QED BY <1>2, <2>1, Ceiling
<1>4. W = [w \in 1 .. k |-> [rows |-> SubSeq(s, (w - 1) * size + 1, Least(w * size, n)), size |-> size]]
  BY <1>1, <1>2 DEF Waves
<1>5. Len(W) = k /\ \A w \in 1 .. k : W[w].rows = SubSeq(s, (w - 1) * size + 1, Least(w * size, n))
  BY <1>3, <1>4
<1>9. ASSUME NEW w \in 1 .. k, NEW lo, lo = (w - 1) * size, NEW hi, hi = Least(w * size, n)
      PROVE  W[w].rows = SubSeq(s, lo + 1, hi)
  BY <1>5, <1>9
<1>6. ASSUME NEW a \in Nat, NEW b \in Nat, b <= n, a <= b
      PROVE  /\ Len(SubSeq(s, a + 1, b)) = b - a
             /\ \A j \in 1 .. b - a : SubSeq(s, a + 1, b)[j] = s[a + j]
  <2>1. s = [i \in 1 .. n |-> s[i]]
    BY <1>1
  <2>2. SubSeq(s, a + 1, b) = [j \in 1 .. b - a |-> s[a + j]]
    BY <1>1, <1>3, <1>6
  <2>3. b - a \in Nat
    BY <1>6
  <2> QED BY <2>2, <2>3
<1>7. ASSUME NEW i \in 1 .. n
      PROVE  \E w \in 1 .. k : \E j \in 1 .. Len(W[w].rows) : W[w].rows[j] = s[i]
  <2>0. PICK a : a = (i - 1) \div size
    OBVIOUS
  <2>1. PICK x : x = (i - 1) % size
    OBVIOUS
  <2>2. a \in Nat /\ x \in Nat /\ i - 1 = a * size + x /\ x < size /\ a * size \in Nat
    BY <1>3, <2>0, <2>1
  <2>3. a < k
    <3> SUFFICES ASSUME k <= a PROVE FALSE
      BY <1>3, <2>2
    <3>1. k * size <= a * size
      BY <1>3, <2>2, Growing
    <3> QED BY <1>3, <2>2, <3>1
  <2>12. PICK w : w = a + 1
    OBVIOUS
  <2>4. w \in 1 .. k /\ w - 1 = a
    BY <1>3, <2>2, <2>3, <2>12
  <2>5. (w - 1) * size = a * size /\ w * size = a * size + size
    <3>1. (a + 1) * size = a * size + size
      BY <2>2, Growing
    <3> QED BY <2>4, <2>12, <3>1
  <2>6. PICK lo \in Nat : lo = a * size
    BY <2>2
  <2>7. PICK hi : hi = Least(w * size, n)
    OBVIOUS
  <2>8. hi \in Nat /\ hi <= n /\ i <= hi /\ lo < i
    BY <1>3, <2>2, <2>5, <2>6, <2>7 DEF Least
  <2>13. PICK j : j = i - lo
    OBVIOUS
  <2>9. j \in 1 .. hi - lo /\ lo + j = i
    BY <1>3, <2>6, <2>8, <2>13
  <2>10. W[w].rows = SubSeq(s, lo + 1, hi)
    <3>1. lo = (w - 1) * size
      BY <2>5, <2>6
    <3> QED BY <1>9, <2>4, <2>7, <3>1
  <2>11. Len(SubSeq(s, lo + 1, hi)) = hi - lo /\ SubSeq(s, lo + 1, hi)[j] = s[lo + j]
    <3>1. lo <= hi
      BY <2>6, <2>8
    <3> QED BY <1>6, <2>6, <2>8, <2>9, <3>1
  <2> QED BY <2>4, <2>9, <2>10, <2>11
<1>8. ASSUME n <= size, NEW w \in 1 .. k PROVE Len(W[w].rows) = n
  <2>1. k <= 1
    <3>1. n <= 1 * size
      BY <1>3, <1>8
    <3> QED BY <1>2, <1>3, <3>1, CeilingLeast
  <2>2. w = 1 /\ (w - 1) * size = 0 /\ w * size = size
    BY <1>3, <2>1
  <2>3. Least(w * size, n) = n
    BY <1>3, <1>8, <2>2 DEF Least
  <2>4. W[w].rows = SubSeq(s, 0 + 1, n)
    BY <1>5, <2>2, <2>3
  <2>5. Len(SubSeq(s, 0 + 1, n)) = n - 0
    BY <1>3, <1>6
  <2> QED BY <1>3, <2>4, <2>5
<1> QED BY <1>1, <1>5, <1>7, <1>8 DEF Covering, WholeWaves

LEMMA BucketsCover ==
    ASSUME NEW rows, Len(rows) \in Nat, NEW B, B = BucketsInOrder(rows), NEW r \in Working(rows)
    PROVE  \E i \in 1 .. Len(B) : B[i] = Bucket(rows[r])
<1>1. PICK F : F = FirstOfBucket(rows)
  OBVIOUS
<1>2. PICK s : s = InOrder(F)
  OBVIOUS
<1>3. F \in SUBSET Int /\ IsFiniteSet(F) /\ F \subseteq Working(rows)
  <2>1. F \subseteq Working(rows)
    BY <1>1 DEF FirstOfBucket
  <2> QED BY <2>1, RowsOfBucketFacts, FS_Subset
<1>4. Len(s) \in Nat /\ \A q \in F : \E i \in 1 .. Len(s) : s[i] = q
  BY <1>2, <1>3, InOrderFacts
<1>5. B = [i \in 1 .. Len(s) |-> Bucket(rows[s[i]])]
  BY <1>1, <1>2 DEF BucketsInOrder
<1>6. PICK S : S = {q \in Working(rows) : Bucket(rows[q]) = Bucket(rows[r])}
  OBVIOUS
<1>7. Working(rows) \subseteq Nat
  BY DEF Working
<1>8. PICK q \in S : \A x \in S : q <= x
  BY <1>6, <1>7, Minimum
<1>9. q \in F
  <2>1. q \in Working(rows) /\ Bucket(rows[q]) = Bucket(rows[r])
    BY <1>6
  <2>2. ASSUME NEW x \in Working(rows), x < q PROVE Bucket(rows[x]) # Bucket(rows[q])
    <3>1. x \in Nat /\ q \in Nat
      BY <1>7, <2>1
    <3>2. x \notin S
      BY <1>8, <2>2, <3>1
    <3> QED BY <1>6, <2>1, <3>2
  <2> QED BY <1>1, <2>1, <2>2 DEF FirstOfBucket
<1>10. PICK i \in 1 .. Len(s) : s[i] = q
  BY <1>4, <1>9
<1>11. Len(B) = Len(s) /\ B[i] = Bucket(rows[q])
  BY <1>4, <1>5, <1>10
<1> QED BY <1>6, <1>10, <1>11

\* L is the waves of the buckets B, wave by wave.
WavesOf(L, policy, rows, B) ==
    /\ \A n \in 1 .. Len(L) : \E b \in 1 .. Len(B) :
          \E x \in 1 .. Len(WavesOfBucket(policy, rows, B[b])) : L[n] = WavesOfBucket(policy, rows, B[b])[x]
    /\ \A b \in 1 .. Len(B) : \A x \in 1 .. Len(WavesOfBucket(policy, rows, B[b])) :
          \E n \in 1 .. Len(L) : L[n] = WavesOfBucket(policy, rows, B[b])[x]

LEMMA BatchedPlaces ==
    ASSUME NEW policy, LegalPolicy(policy), NEW rows, Len(rows) \in Nat,
           NEW L, L = Batched(policy, rows), NEW B, B = BucketsInOrder(rows)
    PROVE  Len(L) \in Nat /\ WavesOf(L, policy, rows, B)
<1>1. PICK W : W = WavesByBucket(policy, rows)
  OBVIOUS
<1>2. Len(B) \in Nat
  BY BucketsFacts
<1>3. W = [b \in 1 .. Len(B) |-> WavesOfBucket(policy, rows, B[b])]
  BY <1>1 DEF WavesByBucket
<1>4. L = InTurn(W)
  BY <1>1 DEF Batched
<1>5. Len(W) = Len(B) /\ \A b \in 1 .. Len(B) : W[b] = WavesOfBucket(policy, rows, B[b])
  BY <1>2, <1>3
<1>6. ASSUME NEW b \in 1 .. Len(W) PROVE Len(W[b]) \in 0 .. Len(rows) + 1
  <2>1. PICK V : V = W[b]
    OBVIOUS
  <2>2. V = WavesOfBucket(policy, rows, B[b])
    BY <1>5, <2>1
  <2>3. Len(V) \in 0 .. Len(rows) + 1
    BY <2>2, WavesOfBucketFacts
  <2> QED BY <2>1, <2>3
<1>7. Len(L) \in Nat /\ Turns(L, W)
  <2>1. Len(W) \in Nat /\ Len(rows) + 1 \in Nat
    BY <1>2, <1>5
  <2> QED BY <1>4, <1>6, <2>1, InTurnFacts
<1>8. PICK place \in [1 .. Len(L) -> Places(W)] :
            /\ \A n \in 1 .. Len(L) : L[n] = W[place[n][1]][place[n][2]]
            /\ \A p \in Places(W) : \E n \in 1 .. Len(L) : place[n] = p
  BY <1>7 DEF Turns
<1>9. ASSUME NEW n \in 1 .. Len(L)
      PROVE  \E b \in 1 .. Len(W) : \E x \in 1 .. Len(W[b]) : L[n] = W[b][x]
  <2>1. PICK p \in Places(W) : p = place[n]
    BY <1>8
  <2>2. PICK b \in 1 .. Len(W) : \E x \in 1 .. Len(W[b]) : p = <<b, x>>
    BY DEF Places
  <2>3. PICK x \in 1 .. Len(W[b]) : p = <<b, x>>
    BY <2>2
  <2>4. p[1] = b /\ p[2] = x
    BY <2>3
  <2> QED BY <1>8, <2>1, <2>4
<1>10. ASSUME NEW b \in 1 .. Len(W), NEW x \in 1 .. Len(W[b])
       PROVE  \E n \in 1 .. Len(L) : L[n] = W[b][x]
  <2>1. PICK p : p = <<b, x>>
    OBVIOUS
  <2>2. p \in Places(W)
    BY <2>1 DEF Places
  <2>3. PICK n \in 1 .. Len(L) : place[n] = p
    BY <1>8, <2>2
  <2>4. p[1] = b /\ p[2] = x
    BY <2>1
  <2> QED BY <1>8, <2>3, <2>4
<1>11. ASSUME NEW n \in 1 .. Len(L)
       PROVE  \E b \in 1 .. Len(B) :
                 \E x \in 1 .. Len(WavesOfBucket(policy, rows, B[b])) : L[n] = WavesOfBucket(policy, rows, B[b])[x]
  <2>1. PICK b \in 1 .. Len(W) : \E x \in 1 .. Len(W[b]) : L[n] = W[b][x]
    BY <1>9
  <2>2. b \in 1 .. Len(B) /\ W[b] = WavesOfBucket(policy, rows, B[b])
    BY <1>5
  <2> QED BY <2>1, <2>2
<1>12. ASSUME NEW b \in 1 .. Len(B), NEW x \in 1 .. Len(WavesOfBucket(policy, rows, B[b]))
       PROVE  \E n \in 1 .. Len(L) : L[n] = WavesOfBucket(policy, rows, B[b])[x]
  <2>1. b \in 1 .. Len(W) /\ W[b] = WavesOfBucket(policy, rows, B[b])
    BY <1>5
  <2> QED BY <1>10, <2>1
<1> QED BY <1>7, <1>11, <1>12 DEF WavesOf

LanePolicy(policy) == LegalPolicy(policy) /\ policy.kind \in {"fixed", "sequential"}
Waiting(rows, bucket) == {r \in RowsOfBucket(rows, bucket) : rows[r].cached = 0}

\* A wave of a fixed bucket: uncached rows of the bucket, all of them when they fit.
FixedWave(policy, rows, bucket, wave) ==
    /\ FixedBucket(policy, bucket) /\ wave.size = policy.waves[bucket]
    /\ wave.rows \in Seq(Waiting(rows, bucket)) /\ Len(wave.rows) \in 1 .. wave.size
    /\ Cardinality(Waiting(rows, bucket)) <= wave.size => Len(wave.rows) = Cardinality(Waiting(rows, bucket))

LEMMA FixedWaves ==
    ASSUME NEW policy, LanePolicy(policy), NEW rows, Len(rows) \in Nat, NEW bucket,
           NEW W, W = WavesOfBucket(policy, rows, bucket)
    PROVE  /\ \A w \in 1 .. Len(W) : FixedWave(policy, rows, bucket, W[w])
           /\ FixedBucket(policy, bucket) =>
                 \A r \in Waiting(rows, bucket) : \E w \in 1 .. Len(W) : r \in ToSet(W[w].rows)
<1>1. CASE ~FixedBucket(policy, bucket)
  <2>1. W = <<>>
    BY <1>1 DEF WavesOfBucket, BatchesBucket, LanePolicy
  <2>2. Len(W) = 0
    BY <2>1
  <2> QED BY <1>1, <2>2
<1>2. CASE FixedBucket(policy, bucket)
  <2>1. PICK S : S = Waiting(rows, bucket)
    OBVIOUS
  <2>2. PICK s : s = InOrder(S)
    OBVIOUS
  <2>3. PICK size : size = policy.waves[bucket]
    OBVIOUS
  <2>4. W = Waves(s, size)
    BY <1>2, <2>1, <2>2, <2>3 DEF WavesOfBucket, Waiting
  <2>5. size \in Nat \ {0}
    BY <1>2, <2>3, Geometry DEF FixedBucket, LegalPolicy, LanePolicy
  <2>6. S \in SUBSET Int /\ IsFiniteSet(S)
    <3>1. S \subseteq RowsOfBucket(rows, bucket)
      BY <2>1 DEF Waiting
    <3> QED BY <3>1, RowsOfBucketFacts, FS_Subset
  <2>7. /\ s \in Seq(S) /\ Len(s) = Cardinality(S) /\ Cardinality(S) \in Nat /\ Distinct(s)
        /\ \A r \in S : \E n \in 1 .. Len(s) : s[n] = r
    BY <2>2, <2>6, InOrderFacts DEF Distinct
  <2>8. WavesFrom(W, S, size)
    BY <2>4, <2>5, <2>7, WavesFacts
  <2>20. Covering(W, s) /\ WholeWaves(W, s, size)
    <3>1. s \in Seq(S) /\ size \in Nat \ {0} /\ W = Waves(s, size)
      BY <2>4, <2>5, <2>7
    <3> QED BY <3>1, WavesCover
  <2>9. /\ \A i \in 1 .. Len(s) : \E w \in 1 .. Len(W) : \E j \in 1 .. Len(W[w].rows) : W[w].rows[j] = s[i]
        /\ \A w \in 1 .. Len(W) : Len(s) <= size => Len(W[w].rows) = Len(s)
    BY <2>20 DEF Covering, WholeWaves
  <2>10. \A w \in 1 .. Len(W) : W[w].size = size /\ W[w].rows \in Seq(S) /\ Len(W[w].rows) \in 1 .. size
    BY <2>8 DEF WavesFrom
  <2>11. ASSUME NEW w \in 1 .. Len(W) PROVE FixedWave(policy, rows, bucket, W[w])
    BY <1>2, <2>1, <2>3, <2>7, <2>9, <2>10 DEF FixedWave
  <2>12. ASSUME NEW r \in S PROVE \E w \in 1 .. Len(W) : r \in ToSet(W[w].rows)
    <3>1. PICK i \in 1 .. Len(s) : s[i] = r
      BY <2>7
    <3>2. PICK w \in 1 .. Len(W) : \E j \in 1 .. Len(W[w].rows) : W[w].rows[j] = r
      BY <2>9, <3>1
    <3>3. PICK t \in Seq(S) : t = W[w].rows
      BY <2>10
    <3>4. r \in ToSet(t)
      BY <3>2, <3>3 DEF ToSet
    <3> QED BY <3>3, <3>4
  <2> QED BY <2>1, <2>11, <2>12
<1> QED BY <1>1, <1>2

\* What a request of a lane may be: a wave of a fixed bucket, or a row that no wave takes.
BatchedOf(policy, rows, bucket, q) ==
    /\ FixedBucket(policy, bucket) /\ q.kind = "batched" /\ q.padded = policy.waves[bucket]
    /\ Len(q.chunks) = 1 /\ q.chunks[1].size = bucket
    /\ q.rows \in Seq(Waiting(rows, bucket)) /\ Len(q.rows) \in 1 .. q.padded
    /\ Cardinality(Waiting(rows, bucket)) <= q.padded => Len(q.rows) = Cardinality(Waiting(rows, bucket))
InNoWave(policy, rows, r) == ~(rows[r].cached = 0 /\ FixedBucket(policy, Bucket(rows[r])))
SingleOf(policy, rows, r, q) ==
    r \in Working(rows) /\ q = SingleRequest(rows, r) /\ InNoWave(policy, rows, r)

LEMMA WaveRequests ==
    ASSUME NEW policy, LanePolicy(policy), NEW rows, Len(rows) \in Nat, NEW bucket, NEW wave,
           FixedWave(policy, rows, bucket, wave), NEW q, q = BatchedRequest(rows, wave)
    PROVE  BatchedOf(policy, rows, bucket, q)
<1>1. /\ q.rows = wave.rows /\ q.kind = "batched" /\ q.padded = wave.size /\ Len(q.chunks) = 1
      /\ q.chunks[1].size = Bucket(rows[wave.rows[1]])
  BY BatchedFields
<1>2. /\ FixedBucket(policy, bucket) /\ wave.size = policy.waves[bucket]
      /\ wave.rows \in Seq(Waiting(rows, bucket)) /\ Len(wave.rows) \in 1 .. wave.size
      /\ Cardinality(Waiting(rows, bucket)) <= wave.size => Len(wave.rows) = Cardinality(Waiting(rows, bucket))
  BY DEF FixedWave
<1>3. Bucket(rows[wave.rows[1]]) = bucket
  <2>0. wave.size \in Nat
    BY <1>2, Geometry DEF LanePolicy, LegalPolicy, FixedBucket
  <2>1. wave.rows[1] \in Waiting(rows, bucket)
    BY <1>2, <2>0
  <2> QED BY <2>1 DEF Waiting, RowsOfBucket
<1> QED BY <1>1, <1>2, <1>3 DEF BatchedOf

LEMMA LanePlan ==
    ASSUME NEW policy, LanePolicy(policy), NEW rows, Len(rows) \in Nat,
           NEW plan, plan = Planned(policy, rows), NEW i \in 1 .. Len(plan)
    PROVE  \/ \E bucket : BatchedOf(policy, rows, bucket, plan[i])
           \/ \E r \in Working(rows) : SingleOf(policy, rows, r, plan[i])
<1>1. PICK L : L = Batched(policy, rows)
  OBVIOUS
<1>2. PICK B : B = BucketsInOrder(rows)
  OBVIOUS
<1>3. PICK left : left = Working(rows) \ InWave(L)
  OBVIOUS
<1>4. PICK s : s = InOrder(left)
  OBVIOUS
<1>5. LegalPolicy(policy)
  BY DEF LanePolicy
<1>6. /\ Len(L) \in Nat
      /\ \A n \in 1 .. Len(L) : \E b \in 1 .. Len(B) :
            \E x \in 1 .. Len(WavesOfBucket(policy, rows, B[b])) : L[n] = WavesOfBucket(policy, rows, B[b])[x]
      /\ \A b \in 1 .. Len(B) : \A x \in 1 .. Len(WavesOfBucket(policy, rows, B[b])) :
            \E n \in 1 .. Len(L) : L[n] = WavesOfBucket(policy, rows, B[b])[x]
  <2>1. LegalPolicy(policy) /\ Len(rows) \in Nat /\ L = Batched(policy, rows) /\ B = BucketsInOrder(rows)
    BY <1>1, <1>2, <1>5
  <2>2. Len(L) \in Nat /\ WavesOf(L, policy, rows, B)
    BY <2>1, BatchedPlaces
  <2> QED BY <2>2 DEF WavesOf
<1>7. left \in SUBSET Int /\ IsFiniteSet(left) /\ left \subseteq Working(rows)
  <2>1. left \subseteq Working(rows)
    BY <1>3
  <2> QED BY <2>1, RowsOfBucketFacts, FS_Subset
<1>8. Len(s) \in Nat /\ \A n \in 1 .. Len(s) : s[n] \in left
  BY <1>4, <1>7, InOrderFacts
<1>9. plan = [w \in 1 .. Len(L) |-> BatchedRequest(rows, L[w])] \o [n \in 1 .. Len(s) |-> SingleRequest(rows, s[n])]
  BY <1>1, <1>3, <1>4 DEF Planned, Sequential
<1>10. \/ \E w \in 1 .. Len(L) : plan[i] = BatchedRequest(rows, L[w])
       \/ \E n \in 1 .. Len(s) : plan[i] = SingleRequest(rows, s[n])
  <2>1. PICK p : p = [w \in 1 .. Len(L) |-> BatchedRequest(rows, L[w])]
    OBVIOUS
  <2>2. PICK t : t = [n \in 1 .. Len(s) |-> SingleRequest(rows, s[n])]
    OBVIOUS
  <2>3. /\ Len(p) = Len(L) /\ \A w \in 1 .. Len(L) : p[w] = BatchedRequest(rows, L[w])
        /\ Len(t) = Len(s) /\ \A n \in 1 .. Len(s) : t[n] = SingleRequest(rows, s[n])
    BY <1>6, <1>8, <2>1, <2>2
  <2>4. PICK X : X = {p[w] : w \in 1 .. Len(L)} \cup {t[n] : n \in 1 .. Len(s)}
    OBVIOUS
  <2>5. p \in Seq(X) /\ t \in Seq(X)
    <3>1. (\A w \in 1 .. Len(L) : p[w] \in X) /\ \A n \in 1 .. Len(s) : t[n] \in X
      BY <2>4
    <3>2. p = [w \in 1 .. Len(L) |-> p[w]] /\ t = [n \in 1 .. Len(s) |-> t[n]]
      BY <2>1, <2>2
    <3> QED BY <1>6, <1>8, <3>1, <3>2, ListSet
  <2>6. plan = p \o t
    BY <1>9, <2>1, <2>2
  <2>c. /\ Len(p \o t) = Len(p) + Len(t)
        /\ \A k \in 1 .. Len(p) : (p \o t)[k] = p[k]
        /\ \A k \in Len(p) + 1 .. Len(p) + Len(t) : (p \o t)[k] = t[k - Len(p)] /\ k - Len(p) \in 1 .. Len(t)
    BY <2>5, Concatenation
  <2>7. i \in 1 .. Len(p) \/ i \in Len(p) + 1 .. Len(p) + Len(t)
    BY <1>6, <1>8, <2>3, <2>6, <2>c
  <2>8. CASE i \in 1 .. Len(p)
    BY <2>3, <2>6, <2>8, <2>c
  <2>9. CASE i \in Len(p) + 1 .. Len(p) + Len(t)
    BY <2>3, <2>6, <2>9, <2>c
  <2> QED BY <2>7, <2>8, <2>9
<1>11. ASSUME NEW w \in 1 .. Len(L) PROVE \E bucket : FixedWave(policy, rows, bucket, L[w])
  <2>1. PICK b \in 1 .. Len(B) :
           \E x \in 1 .. Len(WavesOfBucket(policy, rows, B[b])) : L[w] = WavesOfBucket(policy, rows, B[b])[x]
    BY <1>6
  <2>2. PICK W : W = WavesOfBucket(policy, rows, B[b])
    OBVIOUS
  <2>3. PICK x \in 1 .. Len(W) : L[w] = W[x]
    BY <2>1, <2>2
  <2>4. \A v \in 1 .. Len(W) : FixedWave(policy, rows, B[b], W[v])
    BY <2>2, FixedWaves
  <2> QED BY <2>3, <2>4
<1>12. ASSUME NEW r \in left PROVE InNoWave(policy, rows, r)
  <2> SUFFICES ASSUME rows[r].cached = 0, FixedBucket(policy, Bucket(rows[r])) PROVE r \in InWave(L)
    BY <1>3 DEF InNoWave
  <2>1. PICK b \in 1 .. Len(B) : B[b] = Bucket(rows[r])
    BY <1>2, <1>7, BucketsCover
  <2>2. PICK W : W = WavesOfBucket(policy, rows, B[b])
    OBVIOUS
  <2>3. r \in Waiting(rows, B[b])
    BY <1>7, <2>1 DEF Waiting, RowsOfBucket
  <2>4. \A q \in Waiting(rows, B[b]) : \E w \in 1 .. Len(W) : q \in ToSet(W[w].rows)
    BY <2>1, <2>2, FixedWaves
  <2>5. PICK w \in 1 .. Len(W) : r \in ToSet(W[w].rows)
    BY <2>3, <2>4
  <2>6. PICK n \in 1 .. Len(L) : L[n] = W[w]
    BY <1>6, <2>2
  <2> QED BY <2>5, <2>6 DEF InWave
<1>13. ASSUME NEW w \in 1 .. Len(L), plan[i] = BatchedRequest(rows, L[w])
       PROVE  \E bucket : BatchedOf(policy, rows, bucket, plan[i])
  <2>1. PICK bucket : FixedWave(policy, rows, bucket, L[w])
    BY <1>11
  <2> QED BY <1>13, <2>1, WaveRequests
<1>14. ASSUME NEW n \in 1 .. Len(s), plan[i] = SingleRequest(rows, s[n])
       PROVE  \E r \in Working(rows) : SingleOf(policy, rows, r, plan[i])
  <2>1. s[n] \in left /\ s[n] \in Working(rows)
    BY <1>7, <1>8
  <2> QED BY <1>12, <1>14, <2>1 DEF SingleOf
<1> QED BY <1>10, <1>13, <1>14

LEMMA LanePlanCovers ==
    ASSUME NEW policy, LanePolicy(policy), NEW rows, Len(rows) \in Nat,
           NEW plan, plan = Planned(policy, rows), NEW r \in Working(rows)
    PROVE  \E i \in 1 .. Len(plan) :
              \/ BatchedOf(policy, rows, Bucket(rows[r]), plan[i]) /\ ~InNoWave(policy, rows, r)
              \/ SingleOf(policy, rows, r, plan[i])
<1>1. PlanShape(rows, plan)
  BY PlannedFacts DEF LanePolicy
<1>2. PICK i \in 1 .. Len(plan) : \E k \in 1 .. Len(plan[i].rows) : plan[i].rows[k] = r
  BY <1>1 DEF PlanShape
<1>3. PICK k \in 1 .. Len(plan[i].rows) : plan[i].rows[k] = r
  BY <1>2
<1>4. ASSUME NEW bucket, BatchedOf(policy, rows, bucket, plan[i])
      PROVE  bucket = Bucket(rows[r]) /\ ~InNoWave(policy, rows, r)
  <2>1. PICK t : t = plan[i].rows
    OBVIOUS
  <2>2. t \in Seq(Waiting(rows, bucket)) /\ FixedBucket(policy, bucket)
    BY <1>4, <2>1 DEF BatchedOf
  <2>3. r \in Waiting(rows, bucket)
    BY <1>3, <2>1, <2>2
  <2> QED BY <2>2, <2>3 DEF Waiting, RowsOfBucket, InNoWave
<1>5. ASSUME NEW q \in Working(rows), SingleOf(policy, rows, q, plan[i]) PROVE q = r
  <2>1. plan[i] = SingleRequest(rows, q)
    BY <1>5 DEF SingleOf
  <2>2. Len(plan[i].rows) = 1 /\ plan[i].rows[1] = q
    BY <2>1, SingleFields
  <2> QED BY <1>3, <2>2
<1>6. \/ \E bucket : BatchedOf(policy, rows, bucket, plan[i])
      \/ \E q \in Working(rows) : SingleOf(policy, rows, q, plan[i])
  BY LanePlan
<1> QED BY <1>4, <1>5, <1>6

-----------------------------------------------------------------------------
(* The keys of a request. *)

ProgramKey(variant, batch, size, path, sampling, tile) ==
    [variant |-> variant, batch |-> batch, size |-> size, path |-> path,
     penalties |-> sampling.penalties, logprobs |-> sampling.logprobs, tile |-> tile]

\* A wave samples greedy rows with top-k as well.
WavePath(path) == IF path = "logits" THEN "logits" ELSE "topk"
TileFrom(uncached) == ((uncached - 1) \div TileSize) * TileSize
TileFor(row, path) == IF path # "logits" /\ Bucket(row) = SmallBucket THEN TileFrom(Uncached(row)) ELSE Unset
WaveKey(bucket, s) == ProgramKey("batched", setup.waves[bucket], bucket, WavePath(s.path), s, Unset)

LEMMA BatchedKeys ==
    ASSUME NEW policy, NEW rows, NEW bucket, NEW q, BatchedOf(policy, rows, bucket, q), NEW s
    PROVE  /\ KeysOf(rows, q, s) =
                 {ProgramKey("batched", policy.waves[bucket], bucket, WavePath(s.path), s, Unset)}
           /\ RowsFilled(q) = {<<policy.waves[bucket], bucket, i>> : i \in 1 .. Len(q.rows)}
<1>1. /\ q.kind = "batched" /\ q.padded = policy.waves[bucket]
      /\ Len(q.chunks) = 1 /\ q.chunks[1].size = bucket
  BY DEF BatchedOf
<1>2. PathOf(q, s) = WavePath(s.path)
  BY <1>1 DEF PathOf, WavePath
<1>3. TileOf(rows, q, PathOf(q, s)) = Unset
  BY <1>1 DEF TileOf
<1>4. 1 .. Len(q.chunks) = {1}
  BY <1>1
<1>5. KeysOf(rows, q, s) =
        {[variant |-> q.kind, batch |-> q.padded, size |-> q.chunks[c].size, path |-> PathOf(q, s),
          penalties |-> s.penalties, logprobs |-> s.logprobs, tile |-> TileOf(rows, q, PathOf(q, s))] :
            c \in 1 .. Len(q.chunks)}
  BY DEF KeysOf
<1>6. KeysOf(rows, q, s) = {ProgramKey(q.kind, q.padded, q.chunks[1].size, PathOf(q, s), s, TileOf(rows, q, PathOf(q, s)))}
  BY <1>4, <1>5 DEF ProgramKey
<1> QED BY <1>1, <1>2, <1>3, <1>6 DEF RowsFilled

LEMMA LoneKeys ==
    ASSUME NEW rows, NEW r, NEW q, q = SingleRequest(rows, r), NEW s
    PROVE  /\ ~UsesChunks(rows[r]) =>
                 KeysOf(rows, q, s) = {ProgramKey("single", 1, Bucket(rows[r]), s.path, s, TileFor(rows[r], s.path))}
           /\ UsesChunks(rows[r]) /\ Uncached(rows[r]) \in Nat \ {0} /\ ChunkSize(Bucket(rows[r])) \in Nat \ {0} =>
                 KeysOf(rows, q, s) = {ProgramKey("chunked", 1, ChunkSize(Bucket(rows[r])), s.path, s, Unset)}
<1>1. /\ q.rows[1] = r /\ q.kind = (IF UsesChunks(rows[r]) THEN "chunked" ELSE "single") /\ q.padded = 1
      /\ UsesChunks(rows[r]) => q.chunks = ChunksOf(rows[r])
      /\ ~UsesChunks(rows[r]) => Len(q.chunks) = 1 /\ q.chunks[1].size = Bucket(rows[r])
  BY SingleFields
<1>2. PathOf(q, s) = s.path
  BY <1>1 DEF PathOf
<1>3. KeysOf(rows, q, s) =
        {[variant |-> q.kind, batch |-> q.padded, size |-> q.chunks[c].size, path |-> PathOf(q, s),
          penalties |-> s.penalties, logprobs |-> s.logprobs, tile |-> TileOf(rows, q, PathOf(q, s))] :
            c \in 1 .. Len(q.chunks)}
  BY DEF KeysOf
<1>4. KeysOf(rows, q, s) =
        {ProgramKey(q.kind, q.padded, q.chunks[c].size, s.path, s, TileOf(rows, q, s.path)) : c \in 1 .. Len(q.chunks)}
  BY <1>2, <1>3 DEF ProgramKey
<1>5. ASSUME ~UsesChunks(rows[r])
      PROVE  KeysOf(rows, q, s) = {ProgramKey("single", 1, Bucket(rows[r]), s.path, s, TileFor(rows[r], s.path))}
  <2>1. q.kind = "single" /\ Len(q.chunks) = 1 /\ q.chunks[1].size = Bucket(rows[r]) /\ q.rows[1] = r /\ q.padded = 1
    BY <1>1, <1>5
  <2>2. TileOf(rows, q, s.path) = TileFor(rows[r], s.path)
    BY <2>1 DEF TileOf, TileFor, TileFrom
  <2>3. 1 .. Len(q.chunks) = {1}
    BY <2>1
  <2> QED BY <1>4, <2>1, <2>2, <2>3
<1>6. ASSUME UsesChunks(rows[r]), Uncached(rows[r]) \in Nat \ {0}, ChunkSize(Bucket(rows[r])) \in Nat \ {0}
      PROVE  KeysOf(rows, q, s) = {ProgramKey("chunked", 1, ChunkSize(Bucket(rows[r])), s.path, s, Unset)}
  <2>1. q.kind = "chunked" /\ q.chunks = ChunksOf(rows[r]) /\ q.padded = 1
    BY <1>1, <1>6
  <2>2. TileOf(rows, q, s.path) = Unset
    BY <2>1 DEF TileOf
  <2>3. PICK size : size = ChunkSize(Bucket(rows[r]))
    OBVIOUS
  <2>4. PICK n : n = CeilDiv(Uncached(rows[r]), size)
    OBVIOUS
  <2>5. n \in Nat \ {0}
    BY <1>6, <2>3, <2>4, Ceiling
  <2>6. q.chunks = [c \in 1 .. n |->
            [start |-> rows[r].cached + (c - 1) * size, size |-> size,
             fill |-> <<FillView(rows[r], (rows[r].cached + (c - 1) * size) \div BlockSize, size)>>]]
    BY <2>1, <2>3, <2>4 DEF ChunksOf
  <2>7. Len(q.chunks) = n /\ \A c \in 1 .. n : q.chunks[c].size = size
    BY <2>5, <2>6
  <2>8. KeysOf(rows, q, s) = {ProgramKey("chunked", 1, q.chunks[c].size, s.path, s, Unset) : c \in 1 .. n}
    BY <1>4, <2>1, <2>2, <2>7
  <2>9. \A c \in 1 .. n : ProgramKey("chunked", 1, q.chunks[c].size, s.path, s, Unset) = ProgramKey("chunked", 1, size, s.path, s, Unset)
    BY <2>7
  <2>10. 1 \in 1 .. n
    BY <2>5
  <2> QED BY <2>3, <2>8, <2>9, <2>10
<1> QED BY <1>5, <1>6

LEMMA PolicyFacts ==
    ASSUME setup \in Setups
    PROVE  /\ LanePolicy(Policy) /\ Policy.waves = setup.waves
           /\ \A bucket : FixedBucket(Policy, bucket) <=> bucket \in DOMAIN setup.waves
<1>1. \A b \in DOMAIN setup.waves : setup.waves[b] \in BatchSizes
  BY SetupFacts
<1>2. Policy.kind = (IF setup.waves = <<>> THEN "sequential" ELSE "fixed") /\ Policy.waves = setup.waves
  BY DEF Policy
<1>3. ASSUME NEW bucket \in DOMAIN setup.waves PROVE setup.waves # <<>>
  <2>1. DOMAIN <<>> = {}
    OBVIOUS
  <2> QED BY <1>3, <2>1
<1>4. ASSUME NEW bucket PROVE FixedBucket(Policy, bucket) <=> bucket \in DOMAIN setup.waves
  BY <1>2, <1>3 DEF FixedBucket
<1>5. LanePolicy(Policy)
  BY <1>1, <1>2 DEF LanePolicy, LegalPolicy
<1> QED BY <1>2, <1>4, <1>5

LEMMA WarmCallFacts ==
    ASSUME NEW batch \in Nat, NEW cached \in Nat, NEW uncached \in Nat \ {0},
           NEW rows, rows = WarmCall(batch, cached, uncached)
    PROVE  /\ Len(rows) = batch
           /\ \A r \in 1 .. batch : /\ rows[r].cached = cached /\ Uncached(rows[r]) = uncached
                                    /\ Bucket(rows[r]) = PaddedLength(uncached)
           /\ Working(rows) = 1 .. batch
           /\ \A bucket : Waiting(rows, bucket) =
                 IF cached = 0 /\ bucket = PaddedLength(uncached) THEN 1 .. batch ELSE {}
<1>1. rows = [r \in 1 .. batch |-> WarmRow(r - 1, cached, uncached)]
  BY DEF WarmCall
<1>2. Len(rows) = batch /\ \A r \in 1 .. batch : rows[r] = WarmRow(r - 1, cached, uncached)
  BY <1>1
<1>3. \A r \in 1 .. batch : rows[r].cached = cached /\ rows[r].length = cached + uncached
  BY <1>2 DEF WarmRow
<1>4. \A r \in 1 .. batch : Uncached(rows[r]) = uncached /\ Bucket(rows[r]) = PaddedLength(uncached)
  BY <1>3 DEF Uncached, Bucket
<1>5. Working(rows) = 1 .. batch
  BY <1>2, <1>4 DEF Working
<1>6. ASSUME NEW bucket
      PROVE  Waiting(rows, bucket) = IF cached = 0 /\ bucket = PaddedLength(uncached) THEN 1 .. batch ELSE {}
  BY <1>3, <1>4, <1>5 DEF Waiting, RowsOfBucket
<1> QED BY <1>2, <1>3, <1>4, <1>5, <1>6

LEMMA PlanIsSequence ==
    ASSUME NEW policy, LanePolicy(policy), NEW rows, Len(rows) \in Nat, NEW plan, plan = Planned(policy, rows)
    PROVE  Len(plan) \in Nat /\ ToSet(plan) = {plan[i] : i \in 1 .. Len(plan)}
<1>1. PICK L : L = Batched(policy, rows)
  OBVIOUS
<1>2. PICK left : left = Working(rows) \ InWave(L)
  OBVIOUS
<1>3. PICK s : s = InOrder(left)
  OBVIOUS
<1>4. Len(L) \in Nat
  BY <1>1, BatchedFacts DEF LanePolicy
<1>5. Len(s) \in Nat
  <2>1. left \subseteq Working(rows)
    BY <1>2
  <2>2. left \in SUBSET Int /\ IsFiniteSet(left)
    BY <2>1, RowsOfBucketFacts, FS_Subset
  <2> QED BY <1>3, <2>2, InOrderFacts
<1>6. PICK p : p = [w \in 1 .. Len(L) |-> BatchedRequest(rows, L[w])]
  OBVIOUS
<1>7. PICK t : t = [n \in 1 .. Len(s) |-> SingleRequest(rows, s[n])]
  OBVIOUS
<1>8. plan = p \o t
  BY <1>1, <1>2, <1>3, <1>6, <1>7 DEF Planned, Sequential
<1>9. PICK X : X = {p[w] : w \in 1 .. Len(L)} \cup {t[n] : n \in 1 .. Len(s)}
  OBVIOUS
<1>10. p \in Seq(X) /\ t \in Seq(X)
  <2>1. (\A w \in 1 .. Len(L) : p[w] \in X) /\ \A n \in 1 .. Len(s) : t[n] \in X
    BY <1>9
  <2>2. p = [w \in 1 .. Len(L) |-> p[w]] /\ t = [n \in 1 .. Len(s) |-> t[n]]
    BY <1>6, <1>7
  <2> QED BY <1>4, <1>5, <2>1, <2>2, ListSet
<1>11. plan \in Seq(X)
  BY <1>8, <1>10
<1> QED BY <1>11 DEF ToSet

LEMMA RequestsAre ==
    ASSUME setup \in Setups, NEW rows, Len(rows) \in Nat
    PROVE  /\ \A q \in Requests(rows) : \/ \E bucket : BatchedOf(Policy, rows, bucket, q)
                                        \/ \E r \in Working(rows) : SingleOf(Policy, rows, r, q)
           /\ \A r \in Working(rows) : \E q \in Requests(rows) :
                 \/ BatchedOf(Policy, rows, Bucket(rows[r]), q) /\ ~InNoWave(Policy, rows, r)
                 \/ SingleOf(Policy, rows, r, q)
<1>1. PICK plan : plan = Planned(Policy, rows)
  OBVIOUS
<1>2. LanePolicy(Policy)
  BY PolicyFacts
<1>3. Requests(rows) = {plan[i] : i \in 1 .. Len(plan)}
  <2>1. ToSet(plan) = {plan[i] : i \in 1 .. Len(plan)}
    BY <1>1, <1>2, PlanIsSequence
  <2> QED BY <1>1, <2>1 DEF Requests
<1>4. ASSUME NEW i \in 1 .. Len(plan)
      PROVE  \/ \E bucket : BatchedOf(Policy, rows, bucket, plan[i])
             \/ \E r \in Working(rows) : SingleOf(Policy, rows, r, plan[i])
  BY <1>1, <1>2, LanePlan
<1>5. ASSUME NEW r \in Working(rows)
      PROVE  \E i \in 1 .. Len(plan) :
                \/ BatchedOf(Policy, rows, Bucket(rows[r]), plan[i]) /\ ~InNoWave(Policy, rows, r)
                \/ SingleOf(Policy, rows, r, plan[i])
  BY <1>1, <1>2, LanePlanCovers
<1> QED BY <1>3, <1>4, <1>5

LEMMA NeededHas ==
    ASSUME NEW rows, NEW s, NEW q \in Requests(rows)
    PROVE  KeysOf(rows, q, s) \subseteq Needed(rows, s)
BY DEF Needed

\* What a warm-up call of one prompt, in one or several rows, compiles.
LEMMA WarmKeys ==
    ASSUME setup \in Setups, NEW batch \in Nat \ {0}, NEW cached \in Nat, NEW uncached \in Nat \ {0},
           NEW rows, rows = WarmCall(batch, cached, uncached), NEW s \in Samples,
           NEW bucket, bucket = PaddedLength(uncached), bucket \in Nat \ {0}, bucket <= MaxChunk
    PROVE  /\ cached = 0 /\ bucket \in DOMAIN setup.waves =>
                 \E q \in Requests(rows) : BatchedOf(Policy, rows, bucket, q) /\ KeysOf(rows, q, s) = {WaveKey(bucket, s)}
           /\ cached = 0 /\ bucket \in DOMAIN setup.waves => WaveKey(bucket, s) \in Needed(rows, s)
           /\ cached = 0 /\ bucket \notin DOMAIN setup.waves =>
                 ProgramKey("single", 1, bucket, s.path, s,
                       IF s.path # "logits" /\ bucket = SmallBucket THEN TileFrom(uncached) ELSE Unset) \in Needed(rows, s)
           /\ cached # 0 => ProgramKey("chunked", 1, bucket, s.path, s, Unset) \in Needed(rows, s)
<1>1. /\ Len(rows) = batch /\ 1 \in Working(rows)
      /\ rows[1].cached = cached /\ Uncached(rows[1]) = uncached /\ Bucket(rows[1]) = bucket
  <2>1. batch \in Nat /\ 1 \in 1 .. batch
    OBVIOUS
  <2>2. /\ Len(rows) = batch
        /\ \A r \in 1 .. batch : /\ rows[r].cached = cached /\ Uncached(rows[r]) = uncached
                                 /\ Bucket(rows[r]) = PaddedLength(uncached)
        /\ Working(rows) = 1 .. batch
    BY <2>1, WarmCallFacts, SMTT(30)
  <2> QED BY <2>1, <2>2
<1>2. /\ Policy.waves = setup.waves
      /\ \A b : FixedBucket(Policy, b) <=> b \in DOMAIN setup.waves
  BY PolicyFacts
<1>3. PICK q \in Requests(rows) :
            \/ BatchedOf(Policy, rows, bucket, q) /\ ~InNoWave(Policy, rows, 1)
            \/ SingleOf(Policy, rows, 1, q)
  BY <1>1, RequestsAre
<1>4. InNoWave(Policy, rows, 1) <=> ~(cached = 0 /\ bucket \in DOMAIN setup.waves)
  BY <1>1, <1>2 DEF InNoWave
<1>5. ASSUME cached = 0, bucket \in DOMAIN setup.waves
      PROVE  BatchedOf(Policy, rows, bucket, q) /\ KeysOf(rows, q, s) = {WaveKey(bucket, s)}
  <2>1. BatchedOf(Policy, rows, bucket, q)
    BY <1>3, <1>4, <1>5 DEF SingleOf
  <2> QED BY <1>2, <2>1, BatchedKeys DEF WaveKey
<1>6. UsesChunks(rows[1]) <=> cached # 0
  <2>1. UsesChunks(rows[1]) <=> Bucket(rows[1]) > MaxChunk \/ rows[1].cached > 0
    BY DEF UsesChunks
  <2>2. UsesChunks(rows[1]) <=> bucket > MaxChunk \/ cached > 0
    BY <1>1, <2>1
  <2>3. ~(bucket > MaxChunk) /\ (cached > 0 <=> cached # 0)
    BY Geometry
  <2> QED BY <2>2, <2>3
<1>7. ASSUME cached = 0, bucket \notin DOMAIN setup.waves
      PROVE  ProgramKey("single", 1, bucket, s.path, s,
                   IF s.path # "logits" /\ bucket = SmallBucket THEN TileFrom(uncached) ELSE Unset) \in Needed(rows, s)
  <2>1. q = SingleRequest(rows, 1)
    BY <1>3, <1>4, <1>7 DEF SingleOf
  <2>2. ~UsesChunks(rows[1])
    BY <1>6, <1>7
  <2>3. KeysOf(rows, q, s) = {ProgramKey("single", 1, bucket, s.path, s, TileFor(rows[1], s.path))}
    BY <1>1, <2>1, <2>2, LoneKeys
  <2>4. TileFor(rows[1], s.path) = IF s.path # "logits" /\ bucket = SmallBucket THEN TileFrom(uncached) ELSE Unset
    BY <1>1 DEF TileFor
  <2> QED BY <2>3, <2>4, NeededHas
<1>8. ASSUME cached # 0 PROVE ProgramKey("chunked", 1, bucket, s.path, s, Unset) \in Needed(rows, s)
  <2>1. q = SingleRequest(rows, 1)
    BY <1>3, <1>4, <1>8 DEF SingleOf
  <2>2. UsesChunks(rows[1])
    BY <1>6, <1>8
  <2>3. ChunkSize(bucket) = bucket
    <3>1. ChunkSizes(bucket) # {}
      BY DEF ChunkSizes
    <3> QED BY <3>1, ChunkSizeFacts
  <2>4. KeysOf(rows, q, s) = {ProgramKey("chunked", 1, bucket, s.path, s, Unset)}
    BY <1>1, <2>1, <2>2, <2>3, LoneKeys
  <2> QED BY <2>4, NeededHas
<1>9. ASSUME cached = 0, bucket \in DOMAIN setup.waves PROVE WaveKey(bucket, s) \in Needed(rows, s)
  BY <1>5, <1>9, NeededHas
<1> QED BY <1>5, <1>7, <1>8, <1>9

-----------------------------------------------------------------------------
(* Lengths and their buckets. *)

LEMMA PowerNext ==
    ASSUME NEW j \in Nat, NEW k \in Nat, TwoTo[j] < TwoTo[k]
    PROVE  2 * TwoTo[j] <= TwoTo[k]
<1>1. j <= k /\ j # k
  BY PowersGrow, Doubling
<1>2. PICK d \in Nat : k = (j + 1) + d
  <2>1. k - (j + 1) \in Nat /\ k = (j + 1) + (k - (j + 1))
    BY <1>1
  <2> QED BY <2>1
<1>3. TwoTo[k] = TwoTo[d] * TwoTo[j + 1] /\ TwoTo[j + 1] = 2 * TwoTo[j]
  <2>1. TwoTo[(j + 1) + d] = TwoTo[d] * TwoTo[j + 1]
    <3>1. j + 1 \in Nat
      OBVIOUS
    <3> QED BY <3>1, PowersDivide
  <2> QED BY <1>2, <2>1, Doubling
<1>4. TwoTo[d] \in Nat /\ 1 <= TwoTo[d] /\ TwoTo[j + 1] \in Nat
  <2>1. j + 1 \in Nat
    OBVIOUS
  <2>2. TwoTo[d] \in Nat \ {0} /\ TwoTo[j + 1] \in Nat \ {0}
    BY <2>1, Doubling
  <2> QED BY <2>2
<1>5. 1 * TwoTo[j + 1] <= TwoTo[d] * TwoTo[j + 1]
  BY <1>4, Growing
<1> QED BY <1>3, <1>4, <1>5

LEMMA PaddedShape ==
    ASSUME NEW n \in Nat \ {0}
    PROVE  \/ n <= SmallBucket /\ PaddedLength(n) = SmallBucket
           \/ n > SmallBucket /\ n <= MediumBucket /\ PaddedLength(n) = MediumBucket
           \/ /\ n > SmallBucket /\ n > MediumBucket
              /\ \E k \in Nat : PaddedLength(n) = TwoTo[k] /\ n <= TwoTo[k] /\ TwoTo[k] < 2 * n
<1>0. SmallBucket \in Nat /\ MediumBucket \in Nat
  BY Geometry
<1>1. CASE n <= SmallBucket
  BY <1>1 DEF PaddedLength
<1>2. CASE n > SmallBucket /\ n <= MediumBucket
  BY <1>0, <1>2 DEF PaddedLength
<1>3. CASE n > SmallBucket /\ n > MediumBucket
  <2>1. \E k \in 0 .. n : n <= TwoTo[k] /\ TwoTo[k] < 2 * n
    BY PowerAbove
  <2>2. PICK j : j = CHOOSE k \in 0 .. n : n <= TwoTo[k] /\ TwoTo[k] < 2 * n
    OBVIOUS
  <2>3. j \in 0 .. n /\ n <= TwoTo[j] /\ TwoTo[j] < 2 * n
    BY <2>1, <2>2
  <2>4. PaddedLength(n) = TwoTo[j]
    BY <1>0, <1>3, <2>2 DEF PaddedLength
  <2>5. j \in Nat
    BY <2>3
  <2> QED BY <1>3, <2>3, <2>4, <2>5
<1> QED BY <1>0, <1>1, <1>2, <1>3

\* A longer prompt has no shorter bucket.
LEMMA PaddedGrows ==
    ASSUME NEW n \in Nat \ {0}, NEW m \in Nat \ {0}, n <= m
    PROVE  PaddedLength(n) <= PaddedLength(m)
<1>0. SmallBucket \in Nat /\ MediumBucket \in Nat /\ SmallBucket <= MediumBucket
  BY Geometry
<1>1. PaddedLength(n) \in Nat /\ PaddedLength(m) \in Nat /\ m <= PaddedLength(m)
  BY PaddedCovers
<1>2. CASE n <= SmallBucket
  BY <1>0, <1>1, <1>2, PaddedShape
<1>3. CASE n > SmallBucket /\ n <= MediumBucket
  BY <1>0, <1>1, <1>3, PaddedShape
<1>4. CASE n > SmallBucket /\ n > MediumBucket
  <2>1. PICK k \in Nat : PaddedLength(n) = TwoTo[k] /\ n <= TwoTo[k] /\ TwoTo[k] < 2 * n
    BY <1>0, <1>4, PaddedShape
  <2>2. PICK j \in Nat : PaddedLength(m) = TwoTo[j] /\ m <= TwoTo[j] /\ TwoTo[j] < 2 * m
    BY <1>0, <1>4, PaddedShape
  <2>3. TwoTo[k] \in Nat /\ TwoTo[j] \in Nat
    BY <1>1, <2>1, <2>2
  <2>4. ~(TwoTo[j] < TwoTo[k])
    <3> SUFFICES ASSUME TwoTo[j] < TwoTo[k] PROVE FALSE
      OBVIOUS
    <3>1. 2 * TwoTo[j] <= TwoTo[k]
      BY PowerNext
    <3> QED BY <2>1, <2>2, <2>3, <3>1
  <2> QED BY <2>1, <2>2, <2>3, <2>4
<1> QED BY <1>0, <1>2, <1>3, <1>4

\* Above the medium bucket every power of two is a bucket.
LEMMA PowersAreBuckets ==
    ASSUME NEW k \in Nat, MediumBucket <= TwoTo[k]
    PROVE  PaddedLength(TwoTo[k]) = TwoTo[k]
<1>0. SmallBucket \in Nat \ {0} /\ MediumBucket \in Nat \ {0} /\ SmallBucket <= MediumBucket /\ TwoTo[k] \in Nat \ {0}
  BY Geometry, Doubling
<1>1. PICK n \in Nat \ {0} : n = TwoTo[k]
  BY <1>0
<1>2. CASE n <= MediumBucket
  BY <1>0, <1>1, <1>2, PaddedShape
<1>3. CASE n > MediumBucket
  <2>1. PICK j \in Nat : PaddedLength(n) = TwoTo[j] /\ n <= TwoTo[j] /\ TwoTo[j] < 2 * n
    BY <1>0, <1>3, PaddedShape
  <2>2. ~(TwoTo[k] < TwoTo[j])
    <3> SUFFICES ASSUME TwoTo[k] < TwoTo[j] PROVE FALSE
      OBVIOUS
    <3>1. 2 * TwoTo[k] <= TwoTo[j]
      BY PowerNext
    <3>2. TwoTo[j] \in Nat
      BY Doubling
    <3> QED BY <1>1, <2>1, <3>1, <3>2
  <2>3. TwoTo[j] \in Nat
    BY Doubling
  <2> QED BY <1>1, <2>1, <2>2, <2>3
<1> QED BY <1>0, <1>1, <1>2, <1>3

\* A bucket is its own bucket.
LEMMA PaddedAgain ==
    ASSUME NEW n \in Nat \ {0}
    PROVE  PaddedLength(PaddedLength(n)) = PaddedLength(n) /\ SmallBucket <= PaddedLength(n)
<1>0. SmallBucket \in Nat \ {0} /\ MediumBucket \in Nat \ {0} /\ SmallBucket <= MediumBucket
  BY Geometry
<1>1. CASE n <= SmallBucket
  <2>1. PaddedLength(n) = SmallBucket
    BY <1>0, <1>1, PaddedShape
  <2>2. PaddedLength(SmallBucket) = SmallBucket
    BY <1>0, PaddedShape
  <2> QED BY <1>0, <2>1, <2>2
<1>2. CASE n > SmallBucket /\ n <= MediumBucket
  <2>1. PaddedLength(n) = MediumBucket
    BY <1>0, <1>2, PaddedShape
  <2>2. PaddedLength(MediumBucket) = MediumBucket
    BY <1>0, <1>2, PaddedShape
  <2> QED BY <1>0, <2>1, <2>2
<1>3. CASE n > SmallBucket /\ n > MediumBucket
  <2>1. PICK k \in Nat : PaddedLength(n) = TwoTo[k] /\ n <= TwoTo[k]
    BY <1>0, <1>3, PaddedShape
  <2>2. TwoTo[k] \in Nat
    BY Doubling
  <2>3. MediumBucket <= TwoTo[k]
    BY <1>0, <1>3, <2>1, <2>2
  <2> QED BY <1>0, <2>1, <2>2, <2>3, PowersAreBuckets
<1> QED BY <1>0, <1>1, <1>2, <1>3

LEMMA SameBucket ==
    ASSUME NEW n \in Nat \ {0}, NEW m \in Nat, n <= m, m <= PaddedLength(n)
    PROVE  PaddedLength(m) = PaddedLength(n)
<1>1. m \in Nat \ {0}
  OBVIOUS
<1>2. PaddedLength(n) \in Nat \ {0} /\ PaddedLength(m) \in Nat
  BY <1>1, PaddedCovers
<1>3. PaddedLength(n) <= PaddedLength(m)
  BY <1>1, PaddedGrows
<1>4. PaddedLength(m) <= PaddedLength(PaddedLength(n))
  BY <1>1, <1>2, PaddedGrows
<1> QED BY <1>2, <1>3, <1>4, PaddedAgain

\* The configuration is accepted only when warm-up knows every bucket a served prompt may have.
LEMMA KnownBuckets ==
    ASSUME setup \in Setups, CoversBuckets(setup)
    PROVE  /\ SmallBucket <= Servable
           /\ \A b \in Nat : b <= MaxChunk /\ b <= PaddedLength(Servable) /\ SmallBucket <= b /\ PaddedLength(b) = b =>
                 b \in WarmLengths(setup)
<1>0. /\ SmallBucket \in Nat \ {0} /\ MediumBucket \in Nat \ {0} /\ SmallBucket <= MediumBucket
      /\ MediumBucket <= MaxChunk /\ MaxChunk \in Nat \ {0} /\ Servable \in Nat \ {0}
  BY Geometry, ServableFacts
<1>1. Ladder(Servable) \subseteq WarmLengths(setup)
  BY DEF CoversBuckets
<1>2. PICK top : top = Least(MaxChunk, LadderTop(Servable))
  OBVIOUS
<1>3. PICK B : B = {b \in SmallBucket .. top : PaddedLength(b) = b}
  OBVIOUS
<1>4. Ladder(Servable) = IF B = {} THEN {top} ELSE B
  BY <1>2, <1>3 DEF Ladder
<1>5. SmallBucket <= Servable
  <2> SUFFICES ASSUME ~(SmallBucket <= Servable) PROVE FALSE
    OBVIOUS
  <2>1. LadderTop(Servable) = Servable
    BY DEF LadderTop
  <2>2. top = Servable
    BY <1>0, <1>2, <2>1 DEF Least
  <2>3. B = {}
    BY <1>0, <1>3, <2>2
  <2>4. Servable \in WarmLengths(setup)
    BY <1>1, <1>4, <2>2, <2>3
  <2>5. PaddedLength(Servable) = Servable
    BY <2>4, WarmLengthsFacts
  <2>6. PaddedLength(Servable) = SmallBucket
    BY <1>0, PaddedShape
  <2> QED BY <1>0, <2>5, <2>6
<1>6. ASSUME NEW b \in Nat, b <= MaxChunk, b <= PaddedLength(Servable), SmallBucket <= b, PaddedLength(b) = b
      PROVE  b \in WarmLengths(setup)
  <2>1. LadderTop(Servable) = PaddedLength(Servable) /\ PaddedLength(Servable) \in Nat
    BY <1>0, <1>5, PaddedCovers DEF LadderTop
  <2>2. top \in Nat /\ b <= top
    BY <1>0, <1>2, <1>6, <2>1 DEF Least
  <2>3. b \in B
    BY <1>0, <1>3, <1>6, <2>2
  <2> QED BY <1>1, <1>4, <2>3
<1> QED BY <1>5, <1>6

\* The bucket of a prompt that fits the page table.
LEMMA ServedBucket ==
    ASSUME setup \in Setups, CoversBuckets(setup), NEW n \in Nat \ {0}, n <= Servable, PaddedLength(n) <= MaxChunk
    PROVE  /\ PaddedLength(n) \in WarmLengths(setup)
           /\ PaddedLength(Least(PaddedLength(n), Servable)) = PaddedLength(n)
           /\ Least(PaddedLength(n), Servable) \in Nat \ {0}
<1>1. PICK b : b = PaddedLength(n)
  OBVIOUS
<1>2. b \in Nat \ {0} /\ n <= b /\ Servable \in Nat \ {0}
  BY <1>1, PaddedCovers, ServableFacts
<1>3. SmallBucket <= b /\ PaddedLength(b) = b
  BY <1>1, PaddedAgain
<1>4. b <= PaddedLength(Servable)
  BY <1>1, <1>2, PaddedGrows
<1>5. b \in WarmLengths(setup)
  BY <1>1, <1>2, <1>3, <1>4, KnownBuckets
<1>6. PICK l : l = Least(b, Servable)
  OBVIOUS
<1>7. l \in Nat \ {0} /\ n <= l /\ l <= b
  BY <1>2, <1>6 DEF Least
<1>8. PaddedLength(l) = b
  BY <1>1, <1>7, SameBucket
<1> QED BY <1>1, <1>5, <1>6, <1>7, <1>8

-----------------------------------------------------------------------------
(* The first full wave of a bucket. *)

\* The buckets a full wave of warm-up really has.
FullBuckets == {b \in DOMAIN setup.waves \cap WarmLengths(setup) : PaddedLength(Least(b, Servable)) = b}
LogitsKey(bucket) == WaveKey(bucket, Plain("logits"))
FullRows(bucket) == {<<setup.waves[bucket], bucket, i>> : i \in 1 .. setup.waves[bucket]}

LEMMA KeyKinds ==
    ASSUME NEW rows, NEW q, NEW s, NEW key \in KeysOf(rows, q, s)
    PROVE  key.variant = q.kind /\ key.path = PathOf(q, s)
BY DEF KeysOf

LEMMA KeyFields ==
    ASSUME NEW variant, NEW batch, NEW size, NEW path, NEW s, NEW tile,
           NEW key, key = ProgramKey(variant, batch, size, path, s, tile)
    PROVE  /\ key.variant = variant /\ key.batch = batch /\ key.size = size /\ key.path = path
           /\ key.penalties = s.penalties /\ key.logprobs = s.logprobs /\ key.tile = tile
BY DEF ProgramKey

LEMMA LogitsKeyFields ==
    ASSUME NEW bucket, NEW key, key = LogitsKey(bucket)
    PROVE  /\ key.variant = "batched" /\ key.size = bucket /\ key.path = "logits"
<1>1. key = ProgramKey("batched", setup.waves[bucket], bucket, WavePath(Plain("logits").path), Plain("logits"), Unset)
  BY DEF LogitsKey, WaveKey
<1>2. WavePath(Plain("logits").path) = "logits"
  BY DEF WavePath, Plain
<1> QED BY <1>1, <1>2, KeyFields

\* A warm-up call that needs the logits program of a full wave has rows of that bucket.
LEMMA NeedsLogitsKey ==
    ASSUME setup \in Setups, NEW batch \in Nat, NEW cached \in Nat, NEW uncached \in Int,
           NEW rows, rows = WarmCall(batch, cached, uncached), NEW s \in Samples,
           NEW bucket, LogitsKey(bucket) \in Needed(rows, s)
    PROVE  s.path = "logits" /\ uncached \in Nat \ {0} /\ PaddedLength(uncached) = bucket
<1>1. PICK q \in Requests(rows) : LogitsKey(bucket) \in KeysOf(rows, q, s)
  BY DEF Needed
<1>2. q.kind = "batched" /\ PathOf(q, s) = "logits"
  <2>1. PICK key : key = LogitsKey(bucket)
    OBVIOUS
  <2>2. key.variant = q.kind /\ key.path = PathOf(q, s)
    BY <1>1, <2>1, KeyKinds
  <2> QED BY <2>1, <2>2, LogitsKeyFields
<1>3. s.path = "logits"
  BY <1>2 DEF PathOf
<1>4. rows = [r \in 1 .. batch |-> WarmRow(r - 1, cached, uncached)]
  BY DEF WarmCall
<1>5. Len(rows) = batch
  BY <1>4
<1>6. PICK b : BatchedOf(Policy, rows, b, q)
  <2>1. ASSUME NEW r \in Working(rows), SingleOf(Policy, rows, r, q) PROVE FALSE
    <3>1. q = SingleRequest(rows, r)
      BY <2>1 DEF SingleOf
    <3>2. q.kind \in {"chunked", "single"}
      BY <3>1, SingleFields
    <3> QED BY <1>2, <3>2
  <2>2. Len(rows) \in Nat
    BY <1>5
  <2> QED BY <2>1, <2>2, RequestsAre
<1>7. b = bucket
  <2>1. KeysOf(rows, q, s) = {ProgramKey("batched", Policy.waves[b], b, WavePath(s.path), s, Unset)}
    BY <1>6, BatchedKeys
  <2>2. PICK key : key = LogitsKey(bucket)
    OBVIOUS
  <2>3. key = ProgramKey("batched", Policy.waves[b], b, WavePath(s.path), s, Unset)
    BY <1>1, <2>1, <2>2
  <2>4. key.size = b
    BY <2>3, KeyFields
  <2> QED BY <2>2, <2>4, LogitsKeyFields
<1>8. PICK r \in Working(rows) : Bucket(rows[r]) = bucket
  <2>1. PICK t : t = q.rows
    OBVIOUS
  <2>2. t \in Seq(Waiting(rows, b)) /\ Len(t) \in 1 .. q.padded
    BY <1>6, <2>1 DEF BatchedOf
  <2>3. t[1] \in Waiting(rows, b)
    BY <2>2
  <2> QED BY <1>7, <2>3 DEF Waiting, RowsOfBucket
<1>9. r \in 1 .. Len(rows) /\ Uncached(rows[r]) > 0
  BY DEF Working
<1>10. rows[r] = WarmRow(r - 1, cached, uncached)
  BY <1>4, <1>5, <1>9
<1>11. rows[r].length = cached + uncached /\ rows[r].cached = cached
  BY <1>10 DEF WarmRow
<1>12. Uncached(rows[r]) = uncached
  BY <1>11 DEF Uncached
<1>13. Bucket(rows[r]) = PaddedLength(uncached)
  BY <1>12 DEF Bucket
<1> QED BY <1>3, <1>8, <1>9, <1>12, <1>13

\* The call of a full wave fills every one of its rows.
LEMMA FullStepNeeds ==
    ASSUME setup \in Setups, NEW bucket \in FullBuckets, NEW traced, NEW step, step = FullStep(bucket, traced)
    PROVE  /\ LogitsKey(bucket) \in Needed(step.call, step.sampling) /\ step.does = "compile"
           /\ \E q \in Requests(step.call) :
                 KeysOf(step.call, q, step.sampling) = {LogitsKey(bucket)} /\ RowsFilled(q) = FullRows(bucket)
<1>1. /\ bucket \in DOMAIN setup.waves /\ bucket \in WarmLengths(setup)
      /\ PaddedLength(Least(bucket, Servable)) = bucket
  BY DEF FullBuckets
<1>2. /\ bucket \in Nat \ {0} /\ bucket <= MaxChunk /\ setup.waves[bucket] \in Nat /\ 2 <= setup.waves[bucket]
      /\ MaxChunk \in Nat
  BY <1>1, SetupFacts, Geometry
<1>3. PICK wave : wave = setup.waves[bucket]
  OBVIOUS
<1>4. PICK u : u = Least(bucket, Servable)
  OBVIOUS
<1>5. u \in Nat \ {0} /\ wave \in Nat \ {0}
  BY <1>2, <1>3, <1>4, ServableFacts DEF Least
<1>6. PICK rows : rows = WarmCall(wave, 0, u)
  OBVIOUS
<1>7. /\ FullCase(bucket).batch = wave /\ FullCase(bucket).cached = 0
      /\ FullCase(bucket).sampling = Plain("logits")
  BY <1>1, <1>3, FullCaseFacts
<1>8. step.does = "compile" /\ step.call = rows /\ step.sampling = Plain("logits")
  BY <1>4, <1>6, <1>7 DEF FullStep, CaseStep, CompileStep, WarmCall
<1>9. Plain("logits") \in Samples /\ Plain("logits").path = "logits"
  BY DEF Plain, Samples, PathNames
<1>10. PICK q \in Requests(rows) :
            BatchedOf(Policy, rows, bucket, q) /\ KeysOf(rows, q, Plain("logits")) = {WaveKey(bucket, Plain("logits"))}
  <2>1. bucket = PaddedLength(u) /\ bucket \in DOMAIN setup.waves
    BY <1>1, <1>4
  <2>2. PICK z : z = 0
    OBVIOUS
  <2>3. PICK s : s = Plain("logits")
    OBVIOUS
  <2>4. /\ setup \in Setups /\ wave \in Nat \ {0} /\ z \in Nat /\ u \in Nat \ {0} /\ rows = WarmCall(wave, z, u)
        /\ s \in Samples /\ bucket \in Nat \ {0} /\ bucket <= MaxChunk
    BY <1>2, <1>5, <1>6, <1>9, <2>2, <2>3
  <2>5. z = 0 /\ bucket \in DOMAIN setup.waves =>
           \E q \in Requests(rows) : BatchedOf(Policy, rows, bucket, q) /\ KeysOf(rows, q, s) = {WaveKey(bucket, s)}
    BY <2>1, <2>4, WarmKeys, SMTT(30)
  <2> QED BY <2>1, <2>2, <2>3, <2>5
<1>11. Policy.waves = setup.waves
  BY PolicyFacts
<1>12. Waiting(rows, bucket) = 1 .. wave
  <2>1. 0 \in Nat /\ wave \in Nat /\ bucket = PaddedLength(u)
    BY <1>1, <1>4, <1>5
  <2>2. \A b : Waiting(rows, b) = IF 0 = 0 /\ b = PaddedLength(u) THEN 1 .. wave ELSE {}
    BY <1>5, <1>6, <2>1, WarmCallFacts
  <2> QED BY <2>1, <2>2
<1>13. Cardinality(1 .. wave) = wave
  BY <1>5, FS_Interval
<1>14. Len(q.rows) = wave
  <2>1. /\ q.padded = Policy.waves[bucket]
        /\ Cardinality(Waiting(rows, bucket)) <= q.padded => Len(q.rows) = Cardinality(Waiting(rows, bucket))
    BY <1>10 DEF BatchedOf
  <2>2. q.padded = wave /\ Cardinality(Waiting(rows, bucket)) = wave
    BY <1>3, <1>11, <1>12, <1>13, <2>1
  <2> QED BY <1>5, <2>1, <2>2
<1>15. RowsFilled(q) = FullRows(bucket)
  <2>1. RowsFilled(q) = {<<Policy.waves[bucket], bucket, i>> : i \in 1 .. Len(q.rows)}
    BY <1>10, BatchedKeys
  <2> QED BY <1>3, <1>11, <1>14, <2>1 DEF FullRows
<1>16. KeysOf(rows, q, Plain("logits")) = {LogitsKey(bucket)}
  BY <1>10 DEF LogitsKey
<1>17. LogitsKey(bucket) \in Needed(rows, Plain("logits"))
  BY <1>16, NeededHas
<1> QED BY <1>8, <1>15, <1>16, <1>17

-----------------------------------------------------------------------------
(* What warm-up has compiled by the time it says so. *)

\* All the step needs is there.
Ready(step) ==
    /\ Needed(step.call, step.sampling) \subseteq compiled
    /\ step.traced => Needed(step.call, step.sampling) \subseteq aliased
Before(L, k, step) == \E j \in 1 .. k - 1 : L[j] = step

\* What the steps to come rely on is there, or comes first.
OwedWarmed(L, k) ==
    \A case \in CaseType, traced \in BOOLEAN : L[k] = WarmedStep(case, traced) =>
        \A step \in CaseSteps(case, traced) : Ready(step) \/ Before(L, k, step)
OwedPrimed(L, k) ==
    \A trace \in BOOLEAN : L[k] = PrimedStep(trace) =>
        \A step \in PrimingSet(trace) : Ready(step) \/ Before(L, k, step)
OwedRows(L, k) ==
    L[k].does = "compile" => \A bucket \in FullBuckets :
        LogitsKey(bucket) \in Needed(L[k].call, L[k].sampling) =>
            LogitsKey(bucket) \in compiled \/ \E j \in 1 .. k : L[j] \in FullSteps(bucket)
Owed(L) == \A k \in 1 .. Len(L) : OwedWarmed(L, k) /\ OwedPrimed(L, k) /\ OwedRows(L, k)

CasesReady == \A traced \in BOOLEAN : \A case \in warmed[traced] : \A step \in CaseSteps(case, traced) : Ready(step)
PrimingReady == \A trace \in primed : \A step \in PrimingSet(trace) : Ready(step)
RowsInv == \A bucket \in FullBuckets : LogitsKey(bucket) \in compiled => FullRows(bucket) \subseteq filled

IsRequired(case) == Belongs(case) /\ case.sampling \in PlannedSamples[case.batch]
CoveredCase(case) ==
    /\ case \in warmed[FALSE] \cup warmed[TRUE]
    /\ PrefillTraced /\ decisions["prefill"] = TRUE /\ TracesLength(case.length) => case \in warmed[TRUE]
CapturedCovers ==
    captured => /\ decisions["prefill"] # Unset
                /\ \A case \in CaseType : IsRequired(case) => CoveredCase(case)

ReadyInv == CasesReady /\ PrimingReady /\ Owed(todo) /\ RowsInv /\ CapturedCovers

LEMMA RequiredCases ==
    ASSUME setup \in Setups
    PROVE  Required \subseteq CaseType /\ \A case \in CaseType : case \in Required <=> IsRequired(case)
<1>1. PlannedCases \in Seq(CaseType) /\ Lists(PlannedCases, PlannedSamples)
  BY PlannedCasesFacts
<1>2. Required \subseteq CaseType
  BY <1>1 DEF Required, ToSet
<1> QED BY <1>1, <1>2 DEF Required, Lists, IsRequired

\* What the configuration alone decides.
LEMMA SetupStays ==
    ASSUME setup' = setup
    PROVE  /\ \A rows, s : Needed(rows, s)' = Needed(rows, s)
           /\ \A case, traced : CaseSteps(case, traced)' = CaseSteps(case, traced)
           /\ \A trace : PrimingSet(trace)' = PrimingSet(trace)
           /\ \A bucket : /\ LogitsKey(bucket)' = LogitsKey(bucket) /\ FullRows(bucket)' = FullRows(bucket)
                          /\ FullSteps(bucket)' = FullSteps(bucket)
           /\ FullBuckets' = FullBuckets
           /\ \A case : IsRequired(case)' <=> IsRequired(case)
           /\ \A length : TracesLength(length)' <=> TracesLength(length)
           /\ PrefillTraced' <=> PrefillTraced
<1>1. Policy' = Policy
  BY DEF Policy
<1>2. ASSUME NEW rows, NEW s PROVE Needed(rows, s)' = Needed(rows, s)
  BY <1>1 DEF Needed, Requests
<1>3. ASSUME NEW case, NEW traced PROVE CaseSteps(case, traced)' = CaseSteps(case, traced)
  BY DEF CaseSteps, UncachedLengths, PrimesTileEnds
<1>4. (PrefillTraced' <=> PrefillTraced) /\ \A length : TracesLength(length)' <=> TracesLength(length)
  BY DEF PrefillTraced, TracesLength
<1>5. ASSUME NEW trace PROVE PrimingSet(trace)' = PrimingSet(trace)
  <2>1. TopKSet' = TopKSet
    BY DEF TopKSet
  <2>2. PrimingTraced(trace)' = PrimingTraced(trace)
    BY <1>4 DEF PrimingTraced
  <2> QED BY <2>1, <2>2 DEF PrimingSet
<1>6. ASSUME NEW bucket
      PROVE  /\ LogitsKey(bucket)' = LogitsKey(bucket) /\ FullRows(bucket)' = FullRows(bucket)
             /\ FullSteps(bucket)' = FullSteps(bucket)
  BY DEF LogitsKey, WaveKey, FullRows, FullSteps, FullStep, FullCase, CaseStep
<1>7. WarmLengths(setup)' = WarmLengths(setup)
  BY DEF WarmLengths
<1>8. FullBuckets' = FullBuckets
  BY <1>7 DEF FullBuckets
<1>9. ASSUME NEW case PROVE IsRequired(case)' <=> IsRequired(case)
  <2>1. Belongs(case)' <=> Belongs(case)
    BY <1>7 DEF Belongs, Planning
  <2>2. PlannedSamples' = PlannedSamples
    <3>1. Samplings' = Samplings
      BY DEF Samplings
    <3> QED BY <3>1 DEF PlannedSamples
  <2> QED BY <2>1, <2>2 DEF IsRequired
<1> QED BY <1>2, <1>3, <1>4, <1>5, <1>6, <1>8, <1>9

LEMMA ReadyStays ==
    ASSUME setup' = setup, compiled \subseteq compiled', aliased \subseteq aliased', NEW step, Ready(step)
    PROVE  Ready(step)'
<1>1. Needed(step.call, step.sampling)' = Needed(step.call, step.sampling)
  BY SetupStays
<1> QED BY <1>1 DEF Ready

-----------------------------------------------------------------------------
(* The list of a call owes nothing it does not do first. *)

LEMMA StepDoes ==
    /\ \A case, traced : /\ WarmedStep(case, traced).does = "warmed" /\ WarmedStep(case, traced).case = case
                         /\ WarmedStep(case, traced).traced = traced
    /\ \A trace : PrimedStep(trace).does = "primed" /\ PrimedStep(trace).trace = trace
    /\ \A trace : DecodeStep(trace).does = "decode"
    /\ CaptureStep.does = "capture"
BY DEF WarmedStep, PrimedStep, DecodeStep, CaptureStep

LEMMA CompileFields ==
    ASSUME NEW batch, NEW cached, NEW uncached, NEW s, NEW traced,
           NEW step, step = CompileStep(batch, cached, uncached, s, traced)
    PROVE  /\ step.does = "compile" /\ step.call = WarmCall(batch, cached, uncached)
           /\ step.sampling = s /\ step.traced = traced
BY DEF CompileStep, WarmCall

LEMMA CaseStepFields ==
    ASSUME NEW case, NEW traced, NEW step \in CaseSteps(case, traced)
    PROVE  /\ step.does = "compile" /\ step.sampling = case.sampling /\ step.traced = traced
           /\ \E u \in ToSet(UncachedLengths(case)) : step.call = WarmCall(case.batch, case.cached, u)
<1>1. PICK u \in ToSet(UncachedLengths(case)) : step = CaseStep(case, u, traced)
  BY DEF CaseSteps
<1>2. step = CompileStep(case.batch, case.cached, u, case.sampling, traced)
  BY <1>1 DEF CaseStep
<1> QED BY <1>2, CompileFields

LEMMA PrimingFields ==
    ASSUME NEW trace, NEW step \in PrimingSet(trace)
    PROVE  /\ step.does = "compile" /\ step.sampling \in TopKSet /\ step.traced = PrimingTraced(trace)
           /\ \E e \in 1 .. Len(TileEnds) - 1 : step.call = WarmCall(1, 0, TileEnds[e])
<1>1. PICK e \in 1 .. Len(TileEnds) - 1, s \in TopKSet : step = CompileStep(1, 0, TileEnds[e], s, PrimingTraced(trace))
  BY DEF PrimingSet
<1> QED BY <1>1, CompileFields

\* A step of a case that needs the logits program of a full wave belongs to a case as long as its bucket.
LEMMA CaseNeedsLogitsKey ==
    ASSUME setup \in Setups, NEW case \in Required, NEW traced, NEW step \in CaseSteps(case, traced),
           NEW bucket, LogitsKey(bucket) \in Needed(step.call, step.sampling)
    PROVE  case.sampling.path = "logits" /\ bucket <= case.length
<1>1. case \in CaseType /\ IsRequired(case)
  BY RequiredCases
<1>2. /\ case.batch \in Nat /\ case.cached \in Nat /\ case.sampling \in Samples
      /\ case.length \in Nat \ {0} /\ PaddedLength(case.length) = case.length
  <2>1. case.length \in WarmLengths(setup)
    BY <1>1 DEF IsRequired, Belongs
  <2> QED BY <1>1, <2>1, WarmLengthsFacts DEF CaseType
<1>3. PICK u \in ToSet(UncachedLengths(case)) : step.call = WarmCall(case.batch, case.cached, u)
  BY CaseStepFields
<1>4. step.sampling = case.sampling
  BY CaseStepFields
<1>5. u \in Int
  BY <1>1, UncachedLengthsFacts DEF ToSet
<1>6. PICK s : s = case.sampling
  OBVIOUS
<1>7. PICK rows : rows = WarmCall(case.batch, case.cached, u)
  OBVIOUS
<1>8. s.path = "logits" /\ u \in Nat \ {0} /\ PaddedLength(u) = bucket
  <2>1. LogitsKey(bucket) \in Needed(rows, s) /\ s \in Samples
    BY <1>2, <1>3, <1>4, <1>6, <1>7
  <2> QED BY <1>2, <1>5, <1>7, <2>1, NeedsLogitsKey
<1>9. u <= case.length
  <2>1. UncachedLengths(case) = <<Least(case.length, Servable - case.cached)>>
    BY <1>6, <1>8 DEF UncachedLengths
  <2>2. PICK l : l = Least(case.length, Servable - case.cached)
    OBVIOUS
  <2>3. u = l
    BY <1>3, <2>1, <2>2 DEF ToSet
  <2>4. l <= case.length
    BY <1>2, <2>2, ServableFacts DEF Least
  <2> QED BY <2>3, <2>4
<1>10. bucket <= case.length
  BY <1>2, <1>8, <1>9, PaddedGrows
<1> QED BY <1>6, <1>8, <1>10

\* The logits program of a full wave is compiled once its case is warmed.
LEMMA WarmedHasKey ==
    ASSUME setup \in Setups, CasesReady, NEW bucket \in FullBuckets,
           FullCase(bucket) \in warmed[TRUE] \cup warmed[FALSE]
    PROVE  LogitsKey(bucket) \in compiled
<1>1. PICK traced \in BOOLEAN : FullCase(bucket) \in warmed[traced]
  OBVIOUS
<1>2. PICK step : step = FullStep(bucket, traced)
  OBVIOUS
<1>3. step \in CaseSteps(FullCase(bucket), traced)
  BY <1>2, FullCaseFacts DEF FullBuckets
<1>4. Ready(step)
  BY <1>1, <1>3 DEF CasesReady
<1>5. LogitsKey(bucket) \in Needed(step.call, step.sampling)
  BY <1>2, FullStepNeeds
<1> QED BY <1>4, <1>5 DEF Ready

\* A call of prefill has its steps in an order that keeps what they rely on.
LEMMA PlanOwes ==
    ASSUME setup \in Setups, CasesReady, NEW L, \A k \in 1 .. Len(L) : FromPlan(L, k) \/ L[k] = CaptureStep
    PROVE  Owed(L)
<1> SUFFICES ASSUME NEW k \in 1 .. Len(L) PROVE OwedWarmed(L, k) /\ OwedPrimed(L, k) /\ OwedRows(L, k)
  BY DEF Owed
<1>1. CASE L[k] = CaptureStep
  <2>1. L[k].does = "capture"
    BY <1>1, StepDoes
  <2> QED BY <2>1, StepDoes DEF OwedWarmed, OwedPrimed, OwedRows
<1>2. CASE FromCase(L, k)
  <2>1. PICK case \in Required, traced \in BOOLEAN : StepOf(L, k, case, traced) /\ FullWaveFirst(L, k, case)
    BY <1>2 DEF FromCase
  <2>2. CASE L[k] \in CaseSteps(case, traced)
    <3>1. L[k].does = "compile"
      BY <2>2, CaseStepFields
    <3>2. ASSUME NEW bucket \in FullBuckets, LogitsKey(bucket) \in Needed(L[k].call, L[k].sampling)
          PROVE  LogitsKey(bucket) \in compiled \/ \E j \in 1 .. k : L[j] \in FullSteps(bucket)
      <4>1. PICK step : step = L[k]
        OBVIOUS
      <4>2. step \in CaseSteps(case, traced) /\ LogitsKey(bucket) \in Needed(step.call, step.sampling)
        BY <2>2, <3>2, <4>1
      <4>3. case.sampling.path = "logits" /\ bucket <= case.length
        BY <4>2, CaseNeedsLogitsKey
      <4>4. bucket \in DOMAIN setup.waves \cap WarmLengths(setup)
        BY DEF FullBuckets
      <4>5. \/ FullCase(bucket) \in warmed[TRUE] \cup warmed[FALSE]
            \/ \E j \in 1 .. k : L[j] \in FullSteps(bucket)
        BY <2>1, <4>3, <4>4 DEF FullWaveFirst
      <4> QED BY <4>5, WarmedHasKey
    <3> QED BY <3>1, <3>2, StepDoes DEF OwedWarmed, OwedPrimed, OwedRows
  <2>3. CASE /\ L[k] = WarmedStep(case, traced)
             /\ \A step \in CaseSteps(case, traced) : \E j \in 1 .. k - 1 : L[j] = step
    <3>1. L[k].does = "warmed"
      BY <2>3, StepDoes
    <3>2. OwedPrimed(L, k) /\ OwedRows(L, k)
      BY <3>1, StepDoes DEF OwedPrimed, OwedRows
    <3>3. ASSUME NEW c \in CaseType, NEW t \in BOOLEAN, L[k] = WarmedStep(c, t), NEW step \in CaseSteps(c, t)
          PROVE  Before(L, k, step)
      <4>1. c = case /\ t = traced
        <5>1. WarmedStep(case, traced) = WarmedStep(c, t)
          BY <2>3, <3>3
        <5>2. /\ WarmedStep(case, traced).case = case /\ WarmedStep(case, traced).traced = traced
              /\ WarmedStep(c, t).case = c /\ WarmedStep(c, t).traced = t
          BY StepDoes
        <5> QED BY <5>1, <5>2
      <4> QED BY <2>3, <3>3, <4>1 DEF Before
    <3> QED BY <3>2, <3>3 DEF OwedWarmed
  <2> QED BY <2>1, <2>2, <2>3 DEF StepOf
<1>3. CASE FromPriming(L, k)
  <2>1. PICK trace \in BOOLEAN :
          \/ L[k] \in PrimingSet(trace)
          \/ /\ L[k] = PrimedStep(trace)
             /\ \A step \in PrimingSet(trace) : \E j \in 1 .. k - 1 : L[j] = step
    BY <1>3 DEF FromPriming
  <2>2. CASE L[k] \in PrimingSet(trace)
    <3>1. PICK step : step = L[k]
      OBVIOUS
    <3>2. PICK e \in 1 .. Len(TileEnds) - 1 : step.call = WarmCall(1, 0, TileEnds[e])
      BY <2>2, <3>1, PrimingFields
    <3>3. step.does = "compile" /\ step.sampling \in TopKSet
      BY <2>2, <3>1, PrimingFields
    <3>4. ASSUME NEW bucket, LogitsKey(bucket) \in Needed(step.call, step.sampling) PROVE FALSE
      <4>1. PICK s : s = step.sampling
        OBVIOUS
      <4>2. s \in Samples /\ s.path = "topk"
        BY <3>3, <4>1 DEF TopKSet
      <4>3. PICK u : u = TileEnds[e]
        OBVIOUS
      <4>4. u \in Int
        <5>1. TileEnds \in Seq(Nat)
          BY TileEndsFacts
        <5> QED BY <4>3, <5>1
      <4>5. PICK rows : rows = WarmCall(1, 0, u)
        OBVIOUS
      <4>6. LogitsKey(bucket) \in Needed(rows, s) /\ 1 \in Nat /\ 0 \in Nat
        BY <3>2, <3>4, <4>1, <4>3, <4>5
      <4>7. s.path = "logits"
        BY <4>2, <4>4, <4>5, <4>6, NeedsLogitsKey
      <4> QED BY <4>2, <4>7
    <3>5. OwedRows(L, k)
      BY <3>1, <3>4 DEF OwedRows
    <3> QED BY <3>1, <3>3, <3>5, StepDoes DEF OwedWarmed, OwedPrimed
  <2>3. CASE /\ L[k] = PrimedStep(trace)
             /\ \A step \in PrimingSet(trace) : \E j \in 1 .. k - 1 : L[j] = step
    <3>1. L[k].does = "primed"
      BY <2>3, StepDoes
    <3>2. OwedWarmed(L, k) /\ OwedRows(L, k)
      BY <3>1, StepDoes DEF OwedWarmed, OwedRows
    <3>3. ASSUME NEW t \in BOOLEAN, L[k] = PrimedStep(t), NEW step \in PrimingSet(t)
          PROVE  Before(L, k, step)
      <4>1. t = trace
        <5>1. PrimedStep(trace) = PrimedStep(t)
          BY <2>3, <3>3
        <5>2. PrimedStep(trace).trace = trace /\ PrimedStep(t).trace = t
          BY StepDoes
        <5> QED BY <5>1, <5>2
      <4> QED BY <2>3, <3>3, <4>1 DEF Before
    <3> QED BY <3>2, <3>3 DEF OwedPrimed
  <2> QED BY <2>1, <2>2, <2>3
<1> QED BY <1>1, <1>2, <1>3 DEF FromPlan

-----------------------------------------------------------------------------
(* Nothing warm-up has compiled, aliased or filled is forgotten. *)

Grows == compiled \subseteq compiled' /\ aliased \subseteq aliased' /\ filled \subseteq filled'

LEMMA LearnedStays ==
    ASSUME setup' = setup, Grows
    PROVE  /\ CasesReady /\ warmed' = warmed => CasesReady'
           /\ PrimingReady /\ primed' = primed => PrimingReady'
<1>1. \A case, traced : CaseSteps(case, traced)' = CaseSteps(case, traced)
  BY SetupStays
<1>2. \A trace : PrimingSet(trace)' = PrimingSet(trace)
  BY SetupStays
<1>3. \A step : Ready(step) => Ready(step)'
  BY ReadyStays DEF Grows
<1> QED BY <1>1, <1>2, <1>3 DEF CasesReady, PrimingReady

\* The first step is done: the steps behind it find what they rely on.
LEMMA OwedAdvances ==
    ASSUME setup \in Setups, setup' = setup, Grows, todo \in Seq(Steps), todo # <<>>, Owed(todo), todo' = Tail(todo),
           NEW first, first = todo[1], first.does = "compile" => Ready(first)'
    PROVE  Owed(todo)'
<1>1. PICK L : L = todo
  OBVIOUS
<1>2. PICK M : M = todo'
  OBVIOUS
<1>3. /\ Len(L) \in Nat \ {0} /\ Len(M) = Len(L) - 1
      /\ \A k \in 1 .. Len(M) : k + 1 \in 1 .. Len(L) /\ M[k] = L[k + 1]
  BY <1>1, <1>2, TailFacts
<1>4. first = L[1]
  BY <1>1
<1>5. \A step : Ready(step) => Ready(step)'
  BY ReadyStays DEF Grows
<1>6. first.does = "compile" => Ready(first)'
  OBVIOUS
<1>7. ASSUME NEW k \in 1 .. Len(M), NEW step, step.does = "compile", Before(L, k + 1, step)
      PROVE  Ready(step)' \/ Before(M, k, step)
  <2>1. PICK j \in 1 .. (k + 1) - 1 : L[j] = step
    BY <1>7 DEF Before
  <2>2. CASE j = 1
    BY <1>4, <1>6, <1>7, <2>1, <2>2
  <2>3. CASE j # 1
    <3>1. j - 1 \in 1 .. k - 1 /\ j - 1 \in 1 .. Len(M) /\ (j - 1) + 1 = j
      BY <1>3, <2>3
    <3>2. M[j - 1] = step
      BY <1>3, <2>1, <3>1
    <3> QED BY <3>1, <3>2 DEF Before
  <2> QED BY <2>2, <2>3
<1>8. ASSUME NEW k \in 1 .. Len(M)
      PROVE  OwedWarmed(M, k)' /\ OwedPrimed(M, k)' /\ OwedRows(M, k)'
  <2>1. M[k] = L[k + 1] /\ k + 1 \in 1 .. Len(L)
    BY <1>3
  <2>2. OwedWarmed(L, k + 1) /\ OwedPrimed(L, k + 1) /\ OwedRows(L, k + 1)
    BY <1>1, <2>1 DEF Owed
  <2>3. ASSUME NEW case \in CaseType, NEW traced \in BOOLEAN, M[k] = WarmedStep(case, traced),
               NEW step \in CaseSteps(case, traced)
        PROVE  Ready(step)' \/ Before(M, k, step)
    <3>1. Ready(step) \/ Before(L, k + 1, step)
      BY <2>1, <2>2, <2>3 DEF OwedWarmed
    <3>2. step.does = "compile"
      BY CaseStepFields
    <3> QED BY <1>5, <1>7, <3>1, <3>2
  <2>4. ASSUME NEW trace \in BOOLEAN, M[k] = PrimedStep(trace), NEW step \in PrimingSet(trace)
        PROVE  Ready(step)' \/ Before(M, k, step)
    <3>1. Ready(step) \/ Before(L, k + 1, step)
      BY <2>1, <2>2, <2>4 DEF OwedPrimed
    <3>2. step.does = "compile"
      BY PrimingFields
    <3> QED BY <1>5, <1>7, <3>1, <3>2
  <2>5. ASSUME M[k].does = "compile", NEW bucket \in FullBuckets,
               LogitsKey(bucket) \in Needed(M[k].call, M[k].sampling)
        PROVE  LogitsKey(bucket) \in compiled' \/ \E j \in 1 .. k : M[j] \in FullSteps(bucket)
    <3>1. LogitsKey(bucket) \in compiled \/ \E j \in 1 .. k + 1 : L[j] \in FullSteps(bucket)
      BY <2>1, <2>2, <2>5 DEF OwedRows
    <3>2. CASE LogitsKey(bucket) \in compiled
      BY <3>2 DEF Grows
    <3>3. ASSUME NEW j \in 1 .. k + 1, L[j] \in FullSteps(bucket), j = 1 PROVE LogitsKey(bucket) \in compiled'
      <4>1. PICK traced \in BOOLEAN : first = FullStep(bucket, traced)
        BY <1>4, <3>3 DEF FullSteps
      <4>2. LogitsKey(bucket) \in Needed(first.call, first.sampling) /\ first.does = "compile"
        BY <4>1, FullStepNeeds
      <4>3. Ready(first)'
        BY <1>6, <4>2
      <4>4. Needed(first.call, first.sampling)' = Needed(first.call, first.sampling)
        BY SetupStays
      <4> QED BY <4>2, <4>3, <4>4 DEF Ready
    <3>4. ASSUME NEW j \in 1 .. k + 1, L[j] \in FullSteps(bucket), j # 1
          PROVE  \E i \in 1 .. k : M[i] \in FullSteps(bucket)
      <4>1. j - 1 \in 1 .. k /\ j - 1 \in 1 .. Len(M) /\ (j - 1) + 1 = j
        BY <1>3, <3>4
      <4> QED BY <1>3, <3>4, <4>1
    <3> QED BY <3>1, <3>2, <3>3, <3>4
  <2>6. /\ \A case, traced : CaseSteps(case, traced)' = CaseSteps(case, traced)
        /\ \A trace : PrimingSet(trace)' = PrimingSet(trace)
    BY SetupStays
  <2>7. /\ FullBuckets' = FullBuckets
        /\ \A bucket : LogitsKey(bucket)' = LogitsKey(bucket) /\ FullSteps(bucket)' = FullSteps(bucket)
        /\ \A rows, s : Needed(rows, s)' = Needed(rows, s)
    BY SetupStays
  <2>8. OwedWarmed(M, k)'
    BY <2>3, <2>6 DEF OwedWarmed
  <2>9. OwedPrimed(M, k)'
    BY <2>4, <2>6 DEF OwedPrimed
  <2>10. OwedRows(M, k)'
    BY <2>5, <2>7 DEF OwedRows
  <2> QED BY <2>8, <2>9, <2>10
<1> QED BY <1>2, <1>8 DEF Owed

-----------------------------------------------------------------------------
(* ReadyInv holds at first and through every step. *)

LEMMA RowsStay ==
    ASSUME setup' = setup, compiled' = compiled, Grows, RowsInv
    PROVE  RowsInv'
<1>1. /\ FullBuckets' = FullBuckets
      /\ \A bucket : LogitsKey(bucket)' = LogitsKey(bucket) /\ FullRows(bucket)' = FullRows(bucket)
  BY SetupStays
<1> QED BY <1>1 DEF RowsInv, Grows

LEMMA RowsCompiled ==
    ASSUME setup \in Setups, setup' = setup, todo # <<>>, todo \in Seq(Steps), Owed(todo), RowsInv,
           NEW first, first = todo[1], first.does = "compile",
           compiled' = compiled \cup Fresh(first), filled' = filled \cup NewRows(first)
    PROVE  RowsInv'
<1>1. ASSUME NEW bucket \in FullBuckets, LogitsKey(bucket) \in compiled' PROVE FullRows(bucket) \subseteq filled'
  <2>1. CASE LogitsKey(bucket) \in compiled
    BY <2>1 DEF RowsInv
  <2>2. CASE LogitsKey(bucket) \notin compiled
    <3>1. LogitsKey(bucket) \in Needed(first.call, first.sampling)
      BY <1>1, <2>2 DEF Fresh
    <3>2. 1 \in 1 .. Len(todo)
      BY TailFacts
    <3>3. OwedRows(todo, 1)
      BY <3>2 DEF Owed
    <3>4. first \in FullSteps(bucket)
      BY <2>2, <3>1, <3>3 DEF OwedRows
    <3>5. PICK traced \in BOOLEAN : first = FullStep(bucket, traced)
      BY <3>4 DEF FullSteps
    <3>6. PICK q \in Requests(first.call) :
             KeysOf(first.call, q, first.sampling) = {LogitsKey(bucket)} /\ RowsFilled(q) = FullRows(bucket)
      BY <3>5, FullStepNeeds
    <3>7. KeysOf(first.call, q, first.sampling) \ compiled # {}
      BY <2>2, <3>6
    <3>8. RowsFilled(q) \subseteq NewRows(first)
      BY <3>7 DEF NewRows
    <3> QED BY <3>6, <3>8
  <2> QED BY <2>1, <2>2
<1>2. /\ FullBuckets' = FullBuckets
      /\ \A bucket : LogitsKey(bucket)' = LogitsKey(bucket) /\ FullRows(bucket)' = FullRows(bucket)
  BY SetupStays
<1> QED BY <1>1, <1>2 DEF RowsInv

LEMMA CoversStays ==
    ASSUME setup' = setup, captured' = captured, decisions'["prefill"] = decisions["prefill"],
           warmed[TRUE] \subseteq warmed'[TRUE], warmed[FALSE] \subseteq warmed'[FALSE], CapturedCovers
    PROVE  CapturedCovers'
<1>1. /\ \A case : IsRequired(case)' <=> IsRequired(case)
      /\ \A length : TracesLength(length)' <=> TracesLength(length)
      /\ PrefillTraced' <=> PrefillTraced
  BY SetupStays
<1>2. \A case : CoveredCase(case) => CoveredCase(case)'
  BY <1>1 DEF CoveredCase
<1> QED BY <1>1, <1>2 DEF CapturedCovers

LEMMA FirstStep ==
    ASSUME WarmupInv, todo # <<>>
    PROVE  /\ todo \in Seq(Steps) /\ setup \in Setups /\ todo[1] \in Steps /\ 1 \in 1 .. Len(todo)
           /\ warmed \in [BOOLEAN -> SUBSET CaseType] /\ primed \in SUBSET BOOLEAN
BY TailFacts DEF WarmupInv, CoverageTypeOK

LEMMA ReadyStarts == CoverageInit => ReadyInv
<1> SUFFICES ASSUME CoverageInit PROVE ReadyInv
  OBVIOUS
<1>1. /\ todo = <<>> /\ compiled = {} /\ warmed = [traced \in BOOLEAN |-> {}] /\ primed = {} /\ captured = FALSE
  BY DEF CoverageInit
<1>2. Owed(todo)
  <2>1. Len(todo) = 0
    BY <1>1
  <2> QED BY <2>1 DEF Owed
<1>3. CasesReady /\ PrimingReady
  BY <1>1 DEF CasesReady, PrimingReady
<1>4. RowsInv /\ CapturedCovers
  BY <1>1 DEF RowsInv, CapturedCovers
<1> QED BY <1>2, <1>3, <1>4 DEF ReadyInv

LEMMA ReadyPrefillCalled ==
    ASSUME WarmupInv, ReadyInv, CallPrefill PROVE ReadyInv'
<1>1. PICK trace : trace = script[1].trace
  OBVIOUS
<1>2. /\ script # <<>> /\ todo' = PrefillSteps(trace)
      /\ decisions' = [decisions EXCEPT !["prefill"] = trace,
                                        !["decode"] = IF trace /\ @ = FALSE THEN Unset ELSE @]
      /\ setup' = setup /\ warmed' = warmed /\ primed' = primed /\ captured' = captured
      /\ compiled' = compiled /\ aliased' = aliased /\ filled' = filled
  BY <1>1 DEF CallPrefill, Call, coverage, registries
<1>3. trace \in BOOLEAN /\ setup \in Setups
  BY <1>1, <1>2, Stages DEF WarmupInv, CallsInv, CoverageTypeOK
<1>4. Grows
  BY <1>2 DEF Grows
<1>5. CasesReady' /\ PrimingReady' /\ RowsInv'
  BY <1>2, <1>4, LearnedStays, RowsStay DEF ReadyInv
<1>6. Owed(todo)'
  <2>1. PICK L : L = PrefillSteps(trace)
    OBVIOUS
  <2>2. \A k \in 1 .. Len(L) : FromPlan(L, k) \/ L[k] = CaptureStep
    BY <1>3, <2>1, PrefillStepsFacts
  <2>3. CasesReady
    BY DEF ReadyInv
  <2>4. Owed(L)
    BY <1>3, <2>2, <2>3, PlanOwes
  <2>5. /\ \A case, traced : CaseSteps(case, traced)' = CaseSteps(case, traced)
        /\ \A t : PrimingSet(t)' = PrimingSet(t)
        /\ FullBuckets' = FullBuckets
        /\ \A bucket : LogitsKey(bucket)' = LogitsKey(bucket) /\ FullSteps(bucket)' = FullSteps(bucket)
        /\ \A rows, s : Needed(rows, s)' = Needed(rows, s)
    BY <1>2, SetupStays
  <2>6. \A step : Ready(step)' <=> Ready(step)
    BY <1>2, <2>5 DEF Ready
  <2>7. \A k : OwedWarmed(L, k)' <=> OwedWarmed(L, k)
    BY <2>5, <2>6 DEF OwedWarmed
  <2>8. \A k : OwedPrimed(L, k)' <=> OwedPrimed(L, k)
    BY <2>5, <2>6 DEF OwedPrimed
  <2>9. \A k : OwedRows(L, k)' <=> OwedRows(L, k)
    BY <1>2, <2>5 DEF OwedRows
  <2> QED BY <1>2, <2>1, <2>4, <2>7, <2>8, <2>9 DEF Owed
<1>7. CapturedCovers'
  <2> SUFFICES ASSUME captured PROVE CapturedCovers'
    BY <1>2 DEF CapturedCovers
  <2>1. ~PrefillTraced
    BY <1>2 DEF WarmupInv, CapturedInv, PrimesTooLate
  <2>2. ~PrefillTraced' /\ \A case : IsRequired(case)' <=> IsRequired(case)
    BY <1>2, <2>1, SetupStays
  <2>3. decisions'["prefill"] = trace /\ trace # Unset
    BY <1>2, <1>3, UnsetAssumption DEF WarmupInv, CoverageTypeOK
  <2>4. \A case \in CaseType : IsRequired(case) => case \in warmed[FALSE] \cup warmed[TRUE]
    BY DEF ReadyInv, CapturedCovers, CoveredCase
  <2> QED BY <1>2, <2>2, <2>3, <2>4 DEF CapturedCovers, CoveredCase
<1> QED BY <1>5, <1>6, <1>7 DEF ReadyInv

LEMMA ReadyDecodeCalled ==
    ASSUME WarmupInv, ReadyInv, CallDecode PROVE ReadyInv'
<1>1. PICK trace : trace = script[1].trace
  OBVIOUS
<1>2. /\ script # <<>> /\ todo' = DecodeSteps(trace) /\ decisions' = [decisions EXCEPT !["decode"] = trace]
      /\ setup' = setup /\ warmed' = warmed /\ primed' = primed /\ captured' = captured
      /\ compiled' = compiled /\ aliased' = aliased /\ filled' = filled
  BY <1>1 DEF CallDecode, Call, coverage, registries
<1>3. trace \in BOOLEAN
  BY <1>1, <1>2, Stages DEF WarmupInv, CallsInv, CoverageTypeOK
<1>4. Grows
  BY <1>2 DEF Grows
<1>5. CasesReady' /\ PrimingReady' /\ RowsInv'
  BY <1>2, <1>4, LearnedStays, RowsStay DEF ReadyInv
<1>6. Owed(todo)'
  <2>1. PICK L : L = todo'
    OBVIOUS
  <2>2. ASSUME NEW k \in 1 .. Len(L) PROVE L[k].does \in {"decode", "capture"}
    <3>1. L[k] = DecodeStep(trace) \/ L[k] = CaptureStep
      BY <1>2, <1>3, <2>1, DecodeStepsFacts
    <3> QED BY <3>1, StepDoes
  <2>3. ASSUME NEW k \in 1 .. Len(L) PROVE OwedWarmed(L, k)' /\ OwedPrimed(L, k)' /\ OwedRows(L, k)'
    <3>1. L[k].does \in {"decode", "capture"}
      BY <2>2
    <3>2. OwedWarmed(L, k)'
      BY <3>1, StepDoes DEF OwedWarmed
    <3>3. OwedPrimed(L, k)'
      BY <3>1, StepDoes DEF OwedPrimed
    <3>4. OwedRows(L, k)'
      BY <3>1 DEF OwedRows
    <3> QED BY <3>2, <3>3, <3>4
  <2> QED BY <2>1, <2>3 DEF Owed
<1>7. CapturedCovers'
  <2>1. decisions'["prefill"] = decisions["prefill"]
    BY <1>2 DEF WarmupInv, CoverageTypeOK
  <2> QED BY <1>2, <2>1, CoversStays DEF ReadyInv
<1> QED BY <1>5, <1>6, <1>7 DEF ReadyInv

\* A step that compiles leaves all it needs.
LEMMA CompiledIsReady ==
    ASSUME setup' = setup, NEW step, compiled' = compiled \cup Fresh(step), aliased' = aliased \cup ToAlias(step)
    PROVE  Ready(step)'
<1>1. Needed(step.call, step.sampling)' = Needed(step.call, step.sampling)
  BY SetupStays
<1>2. Needed(step.call, step.sampling) \subseteq compiled'
  BY DEF Fresh
<1>3. step.traced => Needed(step.call, step.sampling) \subseteq aliased'
  BY DEF ToAlias
<1> QED BY <1>1, <1>2, <1>3 DEF Ready

LEMMA ReadyCompile ==
    ASSUME WarmupInv, ReadyInv, Compile PROVE ReadyInv'
<1>1. PICK first : first = todo[1]
  OBVIOUS
<1>2. /\ todo # <<>> /\ first.does = "compile" /\ todo' = Tail(todo)
      /\ compiled' = compiled \cup Fresh(first) /\ filled' = filled \cup NewRows(first)
      /\ aliased' = aliased \cup ToAlias(first)
      /\ setup' = setup /\ warmed' = warmed /\ primed' = primed /\ captured' = captured /\ decisions' = decisions
  BY <1>1 DEF Compile, Does, Done, coverage
<1>3. Grows
  BY <1>2 DEF Grows
<1>4. todo \in Seq(Steps) /\ setup \in Setups
  BY <1>2, FirstStep
<1>5. Owed(todo) /\ RowsInv /\ CasesReady /\ PrimingReady /\ CapturedCovers
  BY DEF ReadyInv
<1>6. Ready(first)'
  BY <1>2, CompiledIsReady
<1>7. Owed(todo)'
  BY <1>1, <1>2, <1>3, <1>4, <1>5, <1>6, OwedAdvances
<1>8. RowsInv'
  BY <1>1, <1>2, <1>4, <1>5, RowsCompiled
<1>9. CasesReady' /\ PrimingReady' /\ CapturedCovers'
  BY <1>2, <1>3, <1>5, LearnedStays, CoversStays
<1> QED BY <1>7, <1>8, <1>9 DEF ReadyInv

LEMMA ReadyCompileRaises ==
    ASSUME WarmupInv, ReadyInv, CompileRaises PROVE ReadyInv'
<1>1. PICK first : first = todo[1]
  OBVIOUS
<1>2. /\ todo # <<>> /\ first.does = "compile" /\ todo' = <<>>
      /\ setup' = setup /\ warmed' = warmed /\ primed' = primed /\ captured' = captured /\ decisions' = decisions
      /\ aliased' = aliased
      /\ \/ compiled' = compiled /\ filled' = filled
         \/ compiled' = compiled \cup Fresh(first) /\ filled' = filled \cup NewRows(first)
  BY <1>1 DEF CompileRaises, Does, coverage, registries
<1>3. Grows
  BY <1>2 DEF Grows
<1>4. todo \in Seq(Steps) /\ setup \in Setups
  BY <1>2, FirstStep
<1>5. Owed(todo) /\ RowsInv /\ CasesReady /\ PrimingReady /\ CapturedCovers
  BY DEF ReadyInv
<1>6. Owed(todo)'
  <2>1. Len(todo') = 0
    BY <1>2
  <2> QED BY <2>1 DEF Owed
<1>7. RowsInv'
  <2>1. CASE compiled' = compiled
    BY <1>2, <1>3, <1>5, <2>1, RowsStay
  <2>2. CASE compiled' = compiled \cup Fresh(first) /\ filled' = filled \cup NewRows(first)
    BY <1>1, <1>2, <1>4, <1>5, <2>2, RowsCompiled
  <2> QED BY <1>2, <2>1, <2>2
<1>8. CasesReady' /\ PrimingReady' /\ CapturedCovers'
  BY <1>2, <1>3, <1>5, LearnedStays, CoversStays
<1> QED BY <1>6, <1>7, <1>8 DEF ReadyInv

\* A step that compiles nothing: what is there stays.
LEMMA ReadyPasses ==
    ASSUME WarmupInv, ReadyInv, todo # <<>>, setup' = setup, UNCHANGED registries,
           (todo' = Tail(todo) /\ todo[1].does # "compile") \/ todo' = <<>>
    PROVE  /\ Grows /\ Owed(todo)' /\ RowsInv'
           /\ (warmed' = warmed => CasesReady') /\ (primed' = primed => PrimingReady')
<1>1. compiled' = compiled /\ aliased' = aliased /\ filled' = filled
  BY DEF registries
<1>2. Grows
  BY <1>1 DEF Grows
<1>3. todo \in Seq(Steps) /\ setup \in Setups
  BY FirstStep
<1>4. Owed(todo) /\ RowsInv /\ CasesReady /\ PrimingReady
  BY DEF ReadyInv
<1>5. Owed(todo)'
  <2>1. CASE todo' = <<>>
    <3>1. Len(todo') = 0
      BY <2>1
    <3> QED BY <3>1 DEF Owed
  <2>2. CASE todo' = Tail(todo) /\ todo[1].does # "compile"
    <3>1. PICK first : first = todo[1]
      OBVIOUS
    <3>2. first.does # "compile"
      BY <2>2, <3>1
    <3> QED BY <1>2, <1>3, <1>4, <2>2, <3>1, <3>2, OwedAdvances
  <2> QED BY <2>1, <2>2
<1>6. RowsInv'
  BY <1>1, <1>2, <1>4, RowsStay
<1> QED BY <1>2, <1>4, <1>5, <1>6, LearnedStays

LEMMA ReadyCaseDone ==
    ASSUME WarmupInv, ReadyInv, CaseDone PROVE ReadyInv'
<1>1. PICK first : first = todo[1]
  OBVIOUS
<1>2. /\ todo # <<>> /\ first.does = "warmed" /\ todo' = Tail(todo) /\ UNCHANGED registries
      /\ warmed' = [warmed EXCEPT ![first.traced] = @ \cup {first.case}]
      /\ setup' = setup /\ primed' = primed /\ captured' = captured /\ decisions' = decisions
  BY <1>1 DEF CaseDone, Does, Done
<1>3. /\ first \in Steps /\ 1 \in 1 .. Len(todo) /\ warmed \in [BOOLEAN -> SUBSET CaseType]
  BY <1>1, <1>2, FirstStep
<1>4. first.case \in CaseType /\ first.traced \in BOOLEAN /\ first = WarmedStep(first.case, first.traced)
  BY <1>2, <1>3, StepFields
<1>5. Grows /\ Owed(todo)' /\ RowsInv' /\ PrimingReady'
  <2>1. todo' = Tail(todo) /\ todo[1].does # "compile"
    BY <1>1, <1>2
  <2> QED BY <1>2, <2>1, ReadyPasses
<1>6. CasesReady'
  <2>1. PICK case : case = first.case
    OBVIOUS
  <2>2. PICK traced : traced = first.traced
    OBVIOUS
  <2>3. \A step \in CaseSteps(case, traced) : Ready(step)
    <3>1. OwedWarmed(todo, 1)
      BY <1>3 DEF ReadyInv, Owed
    <3>2. \A step : ~Before(todo, 1, step)
      BY DEF Before
    <3>3. todo[1] = WarmedStep(case, traced) /\ case \in CaseType /\ traced \in BOOLEAN
      BY <1>1, <1>4, <2>1, <2>2
    <3> QED BY <3>1, <3>2, <3>3 DEF OwedWarmed
  <2>4. ASSUME NEW t \in BOOLEAN, NEW c \in warmed'[t], NEW step \in CaseSteps(c, t) PROVE Ready(step)
    <3>1. c \in warmed[t] \/ (t = traced /\ c = case)
      BY <1>2, <1>3, <1>4, <2>1, <2>2, <2>4
    <3> QED BY <2>3, <3>1 DEF ReadyInv, CasesReady
  <2>5. \A c, t : CaseSteps(c, t)' = CaseSteps(c, t)
    BY <1>2, SetupStays
  <2>6. \A step : Ready(step) => Ready(step)'
    BY <1>2, <1>5, ReadyStays DEF Grows
  <2> QED BY <2>4, <2>5, <2>6 DEF CasesReady
<1>7. CapturedCovers'
  <2>1. warmed[TRUE] \subseteq warmed'[TRUE] /\ warmed[FALSE] \subseteq warmed'[FALSE]
    BY <1>2, <1>3, <1>4
  <2> QED BY <1>2, <2>1, CoversStays DEF ReadyInv
<1> QED BY <1>5, <1>6, <1>7 DEF ReadyInv

LEMMA ReadyPrimingDone ==
    ASSUME WarmupInv, ReadyInv, PrimingDone PROVE ReadyInv'
<1>1. PICK first : first = todo[1]
  OBVIOUS
<1>2. /\ todo # <<>> /\ first.does = "primed" /\ todo' = Tail(todo) /\ UNCHANGED registries
      /\ primed' = primed \cup {first.trace}
      /\ setup' = setup /\ warmed' = warmed /\ captured' = captured /\ decisions' = decisions
  BY <1>1 DEF PrimingDone, Does, Done
<1>3. first \in Steps /\ 1 \in 1 .. Len(todo)
  BY <1>1, <1>2, FirstStep
<1>4. first.trace \in BOOLEAN /\ first = PrimedStep(first.trace)
  BY <1>2, <1>3, StepFields
<1>5. Grows /\ Owed(todo)' /\ RowsInv' /\ CasesReady'
  <2>1. todo' = Tail(todo) /\ todo[1].does # "compile"
    BY <1>1, <1>2
  <2> QED BY <1>2, <2>1, ReadyPasses
<1>6. PrimingReady'
  <2>1. PICK trace : trace = first.trace
    OBVIOUS
  <2>2. \A step \in PrimingSet(trace) : Ready(step)
    <3>1. OwedPrimed(todo, 1)
      BY <1>3 DEF ReadyInv, Owed
    <3>2. \A step : ~Before(todo, 1, step)
      BY DEF Before
    <3>3. todo[1] = PrimedStep(trace) /\ trace \in BOOLEAN
      BY <1>1, <1>4, <2>1
    <3> QED BY <3>1, <3>2, <3>3 DEF OwedPrimed
  <2>3. \A t \in primed' : \A step \in PrimingSet(t) : Ready(step)
    BY <1>2, <2>1, <2>2 DEF ReadyInv, PrimingReady
  <2>4. \A t : PrimingSet(t)' = PrimingSet(t)
    BY <1>2, SetupStays
  <2>5. \A step : Ready(step) => Ready(step)'
    BY <1>2, <1>5, ReadyStays DEF Grows
  <2> QED BY <2>3, <2>4, <2>5 DEF PrimingReady
<1>7. CapturedCovers'
  BY <1>2, CoversStays DEF ReadyInv
<1> QED BY <1>5, <1>6, <1>7 DEF ReadyInv

LEMMA ReadyCapture ==
    ASSUME WarmupInv, ReadyInv, MaybeCapture PROVE ReadyInv'
<1>1. /\ todo # <<>> /\ todo[1].does = "capture" /\ todo' = Tail(todo) /\ UNCHANGED registries
      /\ captured' = (captured \/ (AllWarmed /\ TracesRegistered))
      /\ setup' = setup /\ warmed' = warmed /\ primed' = primed /\ decisions' = decisions
  BY DEF MaybeCapture, Does, Done, coverage
<1>2. Owed(todo)' /\ RowsInv' /\ CasesReady' /\ PrimingReady'
  <2>1. todo' = Tail(todo) /\ todo[1].does # "compile"
    BY <1>1
  <2> QED BY <1>1, <2>1, ReadyPasses
<1>3. CapturedCovers'
  <2>1. CASE captured
    BY <1>1, <2>1, CoversStays DEF ReadyInv, WarmupInv, CoverageTypeOK
  <2>2. CASE ~captured
    <3> SUFFICES ASSUME AllWarmed, TracesRegistered PROVE CapturedCovers'
      BY <1>1, <2>2 DEF CapturedCovers
    <3>1. setup \in Setups
      BY <1>1, FirstStep
    <3>2. \A case \in CaseType : case \in Required <=> IsRequired(case)
      BY <3>1, RequiredCases
    <3>3. decisions["prefill"] # Unset /\ Required \subseteq warmed[FALSE] \cup warmed[TRUE]
      BY DEF AllWarmed
    <3>4. RequiredTraces \subseteq warmed[TRUE]
      BY DEF TracesRegistered
    <3>5. \A case \in CaseType : IsRequired(case) => CoveredCase(case)
      BY <3>2, <3>3, <3>4 DEF CoveredCase, RequiredTraces
    <3>6. /\ \A case : IsRequired(case)' <=> IsRequired(case)
          /\ \A length : TracesLength(length)' <=> TracesLength(length)
          /\ PrefillTraced' <=> PrefillTraced
      BY <1>1, SetupStays
    <3>7. \A case : CoveredCase(case) => CoveredCase(case)'
      BY <1>1, <3>6 DEF CoveredCase
    <3> QED BY <1>1, <3>3, <3>5, <3>6, <3>7 DEF CapturedCovers
  <2> QED BY <2>1, <2>2
<1> QED BY <1>2, <1>3 DEF ReadyInv

LEMMA ReadyInvKept == WarmupInv /\ ReadyInv /\ [CoverageNext]_vars => ReadyInv'
<1> SUFFICES ASSUME WarmupInv, ReadyInv, [CoverageNext]_vars PROVE ReadyInv'
  OBVIOUS
<1>1. CASE CallPrefill
  BY <1>1, ReadyPrefillCalled
<1>2. CASE CallDecode
  BY <1>2, ReadyDecodeCalled
<1>3. CASE Compile
  BY <1>3, ReadyCompile
<1>4. CASE CompileRaises
  BY <1>4, ReadyCompileRaises
<1>5. CASE CompileDecode
  <2>1. /\ todo # <<>> /\ todo' = Tail(todo) /\ todo[1].does # "compile" /\ UNCHANGED registries
        /\ setup' = setup /\ warmed' = warmed /\ primed' = primed /\ captured' = captured /\ decisions' = decisions
    BY <1>5 DEF CompileDecode, Does, Done
  <2>2. Owed(todo)' /\ RowsInv' /\ CasesReady' /\ PrimingReady'
    BY <2>1, ReadyPasses
  <2>3. CapturedCovers'
    BY <2>1, CoversStays DEF ReadyInv
  <2> QED BY <2>2, <2>3 DEF ReadyInv
<1>6. CASE WarmupRefused
  <2>1. /\ todo # <<>> /\ todo' = <<>> /\ UNCHANGED registries
        /\ setup' = setup /\ warmed' = warmed /\ primed' = primed /\ captured' = captured /\ decisions' = decisions
    BY <1>6 DEF WarmupRefused, coverage
  <2>2. Owed(todo)' /\ RowsInv' /\ CasesReady' /\ PrimingReady'
    BY <2>1, ReadyPasses
  <2>3. CapturedCovers'
    BY <2>1, CoversStays DEF ReadyInv
  <2> QED BY <2>2, <2>3 DEF ReadyInv
<1>7. CASE CaseDone
  BY <1>7, ReadyCaseDone
<1>8. CASE PrimingDone
  BY <1>8, ReadyPrimingDone
<1>9. CASE MaybeCapture
  BY <1>9, ReadyCapture
<1>10. CASE UNCHANGED vars
  <2>1. /\ setup' = setup /\ todo' = todo /\ compiled' = compiled /\ aliased' = aliased /\ filled' = filled
        /\ warmed' = warmed /\ primed' = primed /\ captured' = captured /\ decisions' = decisions
    BY <1>10 DEF vars, registries, coverage
  <2>2. Grows
    BY <2>1 DEF Grows
  <2>3. CasesReady' /\ PrimingReady' /\ RowsInv' /\ CapturedCovers'
    BY <2>1, <2>2, LearnedStays, RowsStay, CoversStays DEF ReadyInv
  <2>4. Owed(todo)'
    <3>1. PICK L : L = todo
      OBVIOUS
    <3>2. /\ \A case, traced : CaseSteps(case, traced)' = CaseSteps(case, traced)
          /\ \A t : PrimingSet(t)' = PrimingSet(t)
          /\ FullBuckets' = FullBuckets
          /\ \A bucket : LogitsKey(bucket)' = LogitsKey(bucket) /\ FullSteps(bucket)' = FullSteps(bucket)
          /\ \A rows, s : Needed(rows, s)' = Needed(rows, s)
      BY <2>1, SetupStays
    <3>3. \A step : Ready(step)' <=> Ready(step)
      BY <2>1, <3>2 DEF Ready
    <3>4. \A k : OwedWarmed(L, k)' <=> OwedWarmed(L, k)
      BY <3>2, <3>3 DEF OwedWarmed
    <3>5. \A k : OwedPrimed(L, k)' <=> OwedPrimed(L, k)
      BY <3>2, <3>3 DEF OwedPrimed
    <3>6. \A k : OwedRows(L, k)' <=> OwedRows(L, k)
      BY <2>1, <3>2 DEF OwedRows
    <3>7. Owed(L)
      BY <3>1 DEF ReadyInv
    <3> QED BY <2>1, <3>1, <3>4, <3>5, <3>6, <3>7 DEF Owed
  <2> QED BY <2>3, <2>4 DEF ReadyInv
<1> QED BY <1>1, <1>2, <1>3, <1>4, <1>5, <1>6, <1>7, <1>8, <1>9, <1>10 DEF CoverageNext

\* Through a whole warm-up, with failures and repeated calls: what counts as warmed or primed has all
\* its programs, the first logits program of a full wave comes with all its rows, and capture covers
\* every case of the plan.
THEOREM ReadyInvariance == CoverageSpec => [](WarmupInv /\ ReadyInv)
<1>1. CoverageInit => WarmupInv /\ ReadyInv
  BY WarmupStarts, ReadyStarts
<1>2. (WarmupInv /\ ReadyInv) /\ [CoverageNext]_vars => (WarmupInv /\ ReadyInv)'
  BY WarmupInvKept, ReadyInvKept
<1> QED BY <1>1, <1>2, PTL DEF CoverageSpec

-----------------------------------------------------------------------------
(* From what is ready to the rows a served call fills. *)

\* A row of a served call that has something to compute.
LEMMA ServedRow ==
    ASSUME setup \in Setups, NEW rows \in Calls, Plannable(Policy, rows), NEW r \in Working(rows)
    PROVE  /\ r \in 1 .. Len(rows) /\ rows[r].cached \in Nat /\ rows[r].length \in Nat
           /\ Uncached(rows[r]) \in Nat \ {0} /\ rows[r].cached + Uncached(rows[r]) <= Servable
           /\ rows[r].cached % BlockSize = 0 /\ ChunkSizes(Bucket(rows[r])) # {}
<1>1. rows \in Seq([slot : Nat, length : Nat, cached : Nat, table : Seq(Nat)])
  BY CallsAssumption
<1>2. r \in 1 .. Len(rows) /\ Uncached(rows[r]) > 0
  BY DEF Working
<1>3. rows[r].cached \in Nat /\ rows[r].length \in Nat
  <2>1. PICK R : R = [slot : Nat, length : Nat, cached : Nat, table : Seq(Nat)]
    OBVIOUS
  <2>2. PICK row : row = rows[r]
    OBVIOUS
  <2>3. rows \in Seq(R)
    BY <1>1, <2>1
  <2>4. row \in R
    BY <1>2, <2>2, <2>3
  <2> QED BY <2>1, <2>2, <2>4
<1>4. Uncached(rows[r]) = rows[r].length - rows[r].cached
  BY DEF Uncached
<1>5. /\ ValidRow(rows[r]) /\ FitsTable(rows[r]) /\ ChunkSizes(Bucket(rows[r])) # {}
  BY <1>2 DEF Plannable
<1>6. rows[r].cached % BlockSize = 0
  BY <1>5 DEF ValidRow
<1>7. rows[r].length <= Servable
  <2>1. NumBlocks(rows[r].length) <= RawWidth
    BY <1>5 DEF FitsTable, Mapped
  <2>2. NumBlocks(rows[r].length) \in Nat /\ rows[r].length <= NumBlocks(rows[r].length) * BlockSize
    BY <1>3, BlocksOfLength
  <2>3. PICK n : n = NumBlocks(rows[r].length)
    OBVIOUS
  <2>4. n * BlockSize <= RawWidth * BlockSize /\ n * BlockSize \in Nat /\ RawWidth * BlockSize \in Nat
    <3>1. n \in Nat /\ RawWidth \in Nat /\ n <= RawWidth /\ BlockSize \in Nat
      BY <2>1, <2>2, <2>3, WidthFacts, Geometry
    <3> QED BY <3>1, Growing
  <2> QED BY <1>3, <2>2, <2>3, <2>4 DEF Servable
<1>8. Servable \in Nat
  BY ServableFacts
<1> QED BY <1>2, <1>3, <1>4, <1>5, <1>6, <1>7, <1>8

LEMMA LogitsPlanned ==
    ASSUME NEW batch \in Nat
    PROVE  Plain("logits") \in PlannedSamples[batch]
BY DEF PlannedSamples, Samplings, Plain

\* A served wave of a bucket: its full wave was warmed.
LEMMA WaveWarmed ==
    ASSUME WarmupInv, ReadyInv, captured, NEW rows \in Calls, Plannable(Policy, rows),
           NEW bucket, NEW q, BatchedOf(Policy, rows, bucket, q)
    PROVE  /\ bucket \in FullBuckets /\ CoveredCase(FullCase(bucket))
           /\ \E r \in Working(rows) : Bucket(rows[r]) = bucket /\ rows[r].cached = 0
<1>0. setup \in Setups /\ CoversBuckets(setup)
  BY DEF WarmupInv, CoverageTypeOK
<1>1. bucket \in DOMAIN setup.waves
  BY <1>0, PolicyFacts DEF BatchedOf
<1>2. PICK r \in Working(rows) : Bucket(rows[r]) = bucket /\ rows[r].cached = 0
  <2>1. PICK t : t = q.rows
    OBVIOUS
  <2>2. t \in Seq(Waiting(rows, bucket)) /\ Len(t) \in 1 .. q.padded
    BY <2>1 DEF BatchedOf
  <2>3. t[1] \in Waiting(rows, bucket)
    BY <2>2
  <2> QED BY <2>3 DEF Waiting, RowsOfBucket
<1>3. PICK u : u = Uncached(rows[r])
  OBVIOUS
<1>4. u \in Nat \ {0} /\ u <= Servable
  <2>1. /\ Uncached(rows[r]) \in Nat \ {0} /\ rows[r].cached + Uncached(rows[r]) <= Servable
        /\ rows[r].cached \in Nat
    BY <1>0, ServedRow
  <2> QED BY <1>3, <2>1, ServableFacts
<1>5. bucket = PaddedLength(u) /\ bucket \in Nat /\ bucket <= MaxChunk /\ setup.waves[bucket] \in Nat
  BY <1>0, <1>1, <1>2, <1>3, SetupFacts, Geometry DEF Bucket
<1>6. bucket \in WarmLengths(setup) /\ PaddedLength(Least(bucket, Servable)) = bucket
  BY <1>0, <1>4, <1>5, ServedBucket
<1>7. bucket \in FullBuckets
  BY <1>1, <1>6 DEF FullBuckets
<1>8. /\ FullCase(bucket) \in CaseType /\ FullCase(bucket).sampling = Plain("logits")
      /\ FullCase(bucket).length = bucket /\ FullCase(bucket).batch = setup.waves[bucket]
      /\ FullCase(bucket).cached = 0
  BY <1>0, <1>1, FullCaseFacts
<1>9. IsRequired(FullCase(bucket))
  BY <1>1, <1>5, <1>6, <1>8, LogitsPlanned DEF IsRequired, Belongs, Planning
<1>10. CoveredCase(FullCase(bucket))
  BY <1>8, <1>9 DEF ReadyInv, CapturedCovers
<1> QED BY <1>2, <1>7, <1>10

LEMMA ReadyRows ==
    ASSUME WarmupInv, ReadyInv PROVE RowsAreReady
<1> SUFFICES ASSUME captured, NEW rows \in Calls, Legal(rows), NEW q \in Requests(rows), q.kind = "batched"
             PROVE  RowsFilled(q) \subseteq filled
  BY DEF RowsAreReady
<1>1. setup \in Setups /\ Plannable(Policy, rows) /\ Len(rows) \in Nat
  <2>1. rows \in Seq([slot : Nat, length : Nat, cached : Nat, table : Seq(Nat)])
    BY CallsAssumption
  <2> QED BY <2>1 DEF WarmupInv, CoverageTypeOK, Legal
<1>2. PICK bucket : BatchedOf(Policy, rows, bucket, q)
  <2>1. ASSUME NEW r \in Working(rows), SingleOf(Policy, rows, r, q) PROVE FALSE
    <3>1. q = SingleRequest(rows, r)
      BY <2>1 DEF SingleOf
    <3>2. q.kind \in {"chunked", "single"}
      BY <3>1, SingleFields
    <3> QED BY <3>2
  <2> QED BY <1>1, <2>1, RequestsAre
<1>3. bucket \in FullBuckets /\ CoveredCase(FullCase(bucket))
  BY <1>1, <1>2, WaveWarmed
<1>4. LogitsKey(bucket) \in compiled
  BY <1>1, <1>3, WarmedHasKey DEF CoveredCase, ReadyInv
<1>5. FullRows(bucket) \subseteq filled
  BY <1>3, <1>4 DEF ReadyInv, RowsInv
<1>6. RowsFilled(q) = {<<Policy.waves[bucket], bucket, i>> : i \in 1 .. Len(q.rows)}
  BY <1>2, BatchedKeys
<1>7. Policy.waves = setup.waves
  BY <1>1, PolicyFacts
<1>8. Len(q.rows) \in 1 .. setup.waves[bucket] /\ setup.waves[bucket] \in Nat
  <2>1. Len(q.rows) \in 1 .. q.padded /\ q.padded = Policy.waves[bucket] /\ FixedBucket(Policy, bucket)
    BY <1>2 DEF BatchedOf
  <2>2. bucket \in DOMAIN setup.waves
    BY <1>3 DEF FullBuckets
  <2> QED BY <1>1, <1>7, <2>1, <2>2, SetupFacts
<1>9. RowsFilled(q) \subseteq FullRows(bucket)
  BY <1>6, <1>7, <1>8 DEF FullRows
<1> QED BY <1>5, <1>9

\* An eager wave fills the cache row by row, each row with a program of its own that no key names:
\* once traces are active, whatever legal call comes, every row its waves fill was filled by warm-up.
THEOREM RowsAreAlwaysReady == CoverageSpec => []RowsAreReady
<1>1. WarmupInv /\ ReadyInv => RowsAreReady
  BY ReadyRows
<1> QED BY <1>1, ReadyInvariance, PTL

-----------------------------------------------------------------------------
(* Chunks of a long prompt, and prefixes. *)

LEMMA OddTimesOdd ==
    ASSUME NEW a \in Nat, NEW b \in Nat, NEW n \in Nat, (2 * a + 1) * (2 * b + 1) = 2 * n
    PROVE  FALSE
<1>1. PICK c \in Nat : c = a * b
  <2>1. a * b \in Nat
    OBVIOUS
  <2> QED BY <2>1
<1>2. (2 * a + 1) * (2 * b + 1) = 4 * (a * b) + 2 * a + 2 * b + 1
  OBVIOUS
<1>3. 4 * c + 2 * a + 2 * b + 1 = 2 * n
  BY <1>1, <1>2
<1> QED BY <1>3

LEMMA EvenOrOdd == ASSUME NEW n \in Nat PROVE \E a \in Nat : n = 2 * a \/ n = 2 * a + 1
<1>1. n \div 2 \in Nat /\ (n = 2 * (n \div 2) \/ n = 2 * (n \div 2) + 1)
  OBVIOUS
<1> QED BY <1>1

\* Whatever divides a power of two is one.
LEMMA PowerFactors ==
    ASSUME NEW k \in Nat, NEW s \in Nat, NEW q \in Nat, s * q = TwoTo[k]
    PROVE  \E j \in Nat : s = TwoTo[j]
<1>1. PICK G : G = {n \in Nat : \A x, y \in Nat : x * y = TwoTo[n] => \E j \in Nat : x = TwoTo[j]}
  OBVIOUS
<1>2. 0 \in G
  <2>1. ASSUME NEW x \in Nat, NEW y \in Nat, x * y = 1 PROVE x = 1
    <3>1. x # 0 /\ y # 0
      BY <2>1
    <3>2. ~(x >= 2)
      <4> SUFFICES ASSUME x >= 2 PROVE FALSE
        OBVIOUS
      <4>1. 2 * y <= x * y
        BY Growing
      <4> QED BY <2>1, <3>1, <4>1
    <3> QED BY <3>1, <3>2
  <2> QED BY <1>1, <2>1, Doubling
<1>3. ASSUME NEW n \in Nat, n \in G PROVE n + 1 \in G
  <2> SUFFICES ASSUME NEW x \in Nat, NEW y \in Nat, x * y = TwoTo[n + 1] PROVE \E j \in Nat : x = TwoTo[j]
    BY <1>1
  <2>1. PICK p \in Nat : p = TwoTo[n]
    BY Doubling
  <2>2. x * y = 2 * p
    BY <2>1, Doubling
  <2>3. \A u, v \in Nat : u * v = p => \E j \in Nat : u = TwoTo[j]
    BY <1>1, <1>3, <2>1
  <2>4. PICK a \in Nat : x = 2 * a \/ x = 2 * a + 1
    BY EvenOrOdd
  <2>5. PICK b \in Nat : y = 2 * b \/ y = 2 * b + 1
    BY EvenOrOdd
  <2>6. CASE x = 2 * a
    <3>1. 2 * (a * y) = 2 * p /\ a * y \in Nat
      BY <2>2, <2>6
    <3>2. a * y = p
      BY <3>1
    <3>3. PICK j \in Nat : a = TwoTo[j]
      BY <2>3, <3>2
    <3>4. x = TwoTo[j + 1] /\ j + 1 \in Nat
      BY <2>6, <3>3, Doubling
    <3> QED BY <3>4
  <2>7. CASE y = 2 * b
    <3>1. 2 * (x * b) = 2 * p /\ x * b \in Nat
      BY <2>2, <2>7
    <3>2. x * b = p
      BY <3>1
    <3> QED BY <2>3, <3>2
  <2>8. CASE x = 2 * a + 1 /\ y = 2 * b + 1
    <3>1. (2 * a + 1) * (2 * b + 1) = 2 * p
      BY <2>2, <2>8
    <3> QED BY <3>1, OddTimesOdd
  <2> QED BY <2>4, <2>5, <2>6, <2>7, <2>8
<1>4. \A n \in Nat : n \in G
  BY <1>2, <1>3, InductionOnNat
<1> QED BY <1>1, <1>4

\* The chunks of a prompt longer than the longest chunk have a bucket of their own, and a shorter length.
LEMMA ChunkIsBucket ==
    ASSUME NEW n \in Nat \ {0}, PaddedLength(n) > MaxChunk, NEW size, size = ChunkSize(PaddedLength(n))
    PROVE  /\ size \in Nat \ {0} /\ size <= MaxChunk /\ size < n /\ size % BlockSize = 0
           /\ PaddedLength(size) = size /\ SmallBucket <= size /\ ChunkSize(size) = size
<1>0. /\ MinChunk \in Nat \ {0} /\ MaxChunk \in Nat \ {0} /\ MediumBucket \in Nat \ {0} /\ SmallBucket \in Nat \ {0}
      /\ SmallBucket <= MediumBucket /\ MediumBucket <= MaxChunk /\ MediumBucket <= MinChunk
  BY Geometry, TileAssumption
<1>1. PICK p : p = PaddedLength(n)
  OBVIOUS
<1>2. PICK k \in Nat : p = TwoTo[k] /\ p < 2 * n
  BY <1>0, <1>1, PaddedShape
<1>3. p \in Nat \ {0} /\ p > MaxChunk /\ ChunkSizes(p) # {}
  BY <1>1, PaddedCovers, ChunkSizesExist
<1>4. size \in Nat \ {0} /\ size <= MaxChunk /\ size % BlockSize = 0
  BY <1>1, <1>3, ChunkSizeFacts
<1>5. size \in ChunkSizes(p)
  <2>1. ChunkSizes(p) \in SUBSET (0 .. MaxChunk)
    BY <1>0, <1>3 DEF ChunkSizes
  <2>2. \E x \in ChunkSizes(p) : \A y \in ChunkSizes(p) : y <= x
    BY <1>0, <1>3, <2>1, Maximum
  <2> QED BY <1>1, <2>1, <2>2 DEF ChunkSize, Max
<1>6. size >= MinChunk /\ p % size = 0
  BY <1>0, <1>3, <1>5 DEF ChunkSizes
<1>7. PICK m \in Nat : m * size = p
  <2>1. p \div size \in Nat /\ (p \div size) * size = p
    BY <1>3, <1>4, <1>6, Exactly
  <2> QED BY <2>1
<1>8. size * m = p
  BY <1>4, <1>7
<1>9. PICK j \in Nat : size = TwoTo[j]
  BY <1>2, <1>4, <1>8, PowerFactors
<1>10. PaddedLength(size) = size
  BY <1>0, <1>4, <1>6, <1>9, PowersAreBuckets
<1>11. 2 * size <= p
  <2>1. m # 0 /\ m # 1
    BY <1>0, <1>3, <1>4, <1>7
  <2>2. 2 <= m
    BY <2>1
  <2>3. 2 * size <= m * size
    BY <1>4, <2>2, Growing
  <2> QED BY <1>7, <2>3
<1>12. size < n
  BY <1>2, <1>3, <1>4, <1>11
<1>13. ChunkSize(size) = size
  <2>1. ChunkSizes(size) # {}
    BY <1>4 DEF ChunkSizes
  <2> QED BY <1>4, <2>1, ChunkSizeFacts
<1> QED BY <1>0, <1>4, <1>6, <1>10, <1>12, <1>13

\* A chunk of a prompt that fits the page table fits behind a prefix of one block.
LEMMA ChunkFitsCached ==
    ASSUME NEW size \in Nat \ {0}, size < Servable, size % BlockSize = 0, PaddedLength(size) = size
    PROVE  FitsCached(size) /\ Least(size, Servable - BlockSize) = size
<1>1. BlockSize \in Nat \ {0} /\ RawWidth \in Nat \ {0} /\ Servable = RawWidth * BlockSize /\ Servable \in Nat \ {0}
  BY WidthFacts, Geometry, ServableFacts DEF Servable
<1>2. PICK m \in Nat : m * BlockSize = size
  <2>1. size \div BlockSize \in Nat /\ (size \div BlockSize) * BlockSize = size
    BY <1>1, Exactly
  <2> QED BY <2>1
<1>3. m < RawWidth
  <2> SUFFICES ASSUME RawWidth <= m PROVE FALSE
    BY <1>1, <1>2
  <2>1. RawWidth * BlockSize <= m * BlockSize
    BY <1>1, Growing
  <2> QED BY <1>1, <1>2, <2>1
<1>4. (m + 1) * BlockSize <= RawWidth * BlockSize /\ (m + 1) * BlockSize = m * BlockSize + BlockSize
  <2>1. m + 1 \in Nat /\ m + 1 <= RawWidth
    BY <1>1, <1>3
  <2>2. (m + 1) * BlockSize <= RawWidth * BlockSize
    BY <1>1, <2>1, Growing
  <2>3. (m + 1) * BlockSize = m * BlockSize + BlockSize
    BY <1>1, Growing
  <2> QED BY <2>2, <2>3
<1>5. size + BlockSize <= Servable
  BY <1>1, <1>2, <1>4
<1>6. PICK rest \in Nat \ {0} : rest = Servable - BlockSize
  <2>1. Servable - BlockSize \in Nat \ {0}
    BY <1>1, <1>5
  <2> QED BY <2>1
<1>7. size <= rest /\ Servable > BlockSize
  BY <1>1, <1>5, <1>6
<1>8. size <= PaddedLength(rest)
  <2>1. rest <= PaddedLength(rest) /\ PaddedLength(rest) \in Nat
    BY <1>6, PaddedCovers
  <2> QED BY <1>6, <1>7, <2>1
<1>9. Least(size, rest) = size
  BY <1>7 DEF Least
<1> QED BY <1>6, <1>7, <1>8, <1>9 DEF FitsCached

\* So does the bucket of what is left behind a longer prefix.
LEMMA BucketFitsCached ==
    ASSUME NEW c \in Nat, c # 0, c % BlockSize = 0, NEW n \in Nat \ {0}, c + n <= Servable,
           NEW b, b = PaddedLength(n)
    PROVE  /\ FitsCached(b) /\ Least(b, Servable - BlockSize) \in Nat \ {0}
           /\ PaddedLength(Least(b, Servable - BlockSize)) = b
<1>1. BlockSize \in Nat \ {0} /\ Servable \in Nat \ {0}
  BY Geometry, ServableFacts
<1>2. BlockSize <= c
  BY <1>1
<1>3. PICK rest \in Nat \ {0} : rest = Servable - BlockSize
  <2>1. Servable - BlockSize \in Nat \ {0}
    BY <1>1, <1>2
  <2> QED BY <2>1
<1>4. n <= rest /\ Servable > BlockSize
  BY <1>1, <1>2, <1>3
<1>5. b \in Nat \ {0} /\ n <= b
  BY PaddedCovers
<1>6. b <= PaddedLength(rest)
  BY <1>3, <1>4, PaddedGrows
<1>7. PICK l : l = Least(b, rest)
  OBVIOUS
<1>8. l \in Nat \ {0} /\ n <= l /\ l <= b
  BY <1>3, <1>4, <1>5, <1>7 DEF Least
<1>9. PaddedLength(l) = b
  BY <1>8, SameBucket
<1> QED BY <1>3, <1>4, <1>6, <1>7, <1>8, <1>9 DEF FitsCached

\* The tile a short prompt ends in, and the prompt of warm-up that ends where the tile does.
LEMMA TileOfPrompt ==
    ASSUME NEW n \in Nat \ {0}, n <= SmallBucket
    PROVE  \E t \in 1 .. SmallBucket \div TileSize :
              /\ t * TileSize \in Nat \ {0} /\ PaddedLength(t * TileSize) = SmallBucket
              /\ TileFrom(t * TileSize) = TileFrom(n)
<1>1. TileSize \in Nat \ {0} /\ SmallBucket \in Nat \ {0}
  BY Geometry, TileAssumption
<1>2. PICK N : N = SmallBucket \div TileSize
  OBVIOUS
<1>3. N \in Nat \ {0} /\ N * TileSize = SmallBucket
  BY <1>2, TileEndsFacts
<1>4. PICK i \in Nat : i = (n - 1) \div TileSize
  <2>1. (n - 1) \div TileSize \in Nat
    BY <1>1
  <2> QED BY <2>1
<1>5. i * TileSize <= n - 1 /\ n - 1 < i * TileSize + TileSize
  <2>1. \A x \in Nat, d \in Nat \ {0} : (x \div d) * d <= x /\ x < (x \div d) * d + d
    OBVIOUS
  <2>2. n - 1 \in Nat
    OBVIOUS
  <2> QED BY <1>1, <1>4, <2>1, <2>2
<1>6. i < N
  <2> SUFFICES ASSUME N <= i PROVE FALSE
    BY <1>3
  <2>1. N * TileSize <= i * TileSize
    BY <1>1, <1>3, Growing
  <2>2. i * TileSize \in Nat
    BY <1>1
  <2> QED BY <1>1, <1>3, <1>5, <2>1, <2>2
<1>7. PICK t : t = i + 1
  OBVIOUS
<1>8. t \in 1 .. N /\ t \in Nat
  BY <1>3, <1>6, <1>7
<1>9. t * TileSize = i * TileSize + TileSize /\ i * TileSize \in Nat
  BY <1>1, <1>7, Growing
<1>10. PICK e \in Nat \ {0} : e = t * TileSize
  <2>1. t * TileSize \in Nat \ {0}
    BY <1>1, <1>9
  <2> QED BY <2>1
<1>11. e <= SmallBucket
  <2>1. t * TileSize <= N * TileSize
    BY <1>1, <1>3, <1>8, Growing
  <2> QED BY <1>3, <1>10, <2>1
<1>12. PaddedLength(e) = SmallBucket
  BY <1>1, <1>11 DEF PaddedLength
<1>13. (e - 1) \div TileSize = i
  <2>1. e - 1 = i * TileSize + (TileSize - 1) /\ TileSize - 1 \in Nat /\ TileSize - 1 < TileSize
    BY <1>1, <1>9, <1>10
  <2>2. PICK x \in Nat : x = e - 1
    <3>1. e - 1 \in Nat
      OBVIOUS
    <3> QED BY <3>1
  <2>3. PICK y \in Nat : y = x \div TileSize
    <3>1. x \div TileSize \in Nat
      BY <1>1
    <3> QED BY <3>1
  <2>4. y * TileSize <= x /\ x < y * TileSize + TileSize
    <3>1. \A z \in Nat, d \in Nat \ {0} : (z \div d) * d <= z /\ z < (z \div d) * d + d
      OBVIOUS
    <3> QED BY <1>1, <2>3, <3>1
  <2>5. ~(y < i)
    <3> SUFFICES ASSUME y + 1 <= i PROVE FALSE
      OBVIOUS
    <3>1. (y + 1) * TileSize <= i * TileSize /\ (y + 1) * TileSize = y * TileSize + TileSize
      <4>1. y + 1 \in Nat
        OBVIOUS
      <4>2. (y + 1) * TileSize <= i * TileSize
        BY <1>1, <4>1, Growing
      <4>3. (y + 1) * TileSize = y * TileSize + TileSize
        BY <1>1, Growing
      <4> QED BY <4>2, <4>3
    <3>2. y * TileSize \in Nat
      BY <1>1
    <3> QED BY <1>1, <1>9, <2>1, <2>2, <2>4, <3>1, <3>2
  <2>6. ~(i < y)
    <3> SUFFICES ASSUME t <= y PROVE FALSE
      BY <1>7
    <3>1. t * TileSize <= y * TileSize
      BY <1>1, <1>8, Growing
    <3>2. y * TileSize \in Nat
      BY <1>1
    <3> QED BY <1>10, <2>2, <2>4, <3>1, <3>2
  <2>7. y = i
    BY <2>5, <2>6
  <2> QED BY <2>2, <2>3, <2>7
<1>14. TileFrom(e) = TileFrom(n)
  BY <1>4, <1>13 DEF TileFrom
<1> QED BY <1>2, <1>8, <1>10, <1>12, <1>14

-----------------------------------------------------------------------------
(* A call of prefill that owes the family's priming ends with it. *)

\* The call that took the decision stays the first of the script until its priming is done.
PrimingComes(trace) ==
    /\ script # <<>> /\ script[1] = Asks("prefill", trace)
    /\ todo # <<>> => \E k \in 1 .. Len(todo) : todo[k] = PrimedStep(trace)

\* Where the priming comes in time: once prefill has its decision, it is primed or about to be.
PrimedInv ==
    PrimingOwed /\ ~PrimesTooLate /\ decisions["prefill"] # Unset =>
        decisions["prefill"] \in primed \/ PrimingComes(decisions["prefill"])

LEMMA OwedStays ==
    ASSUME setup' = setup
    PROVE  (PrimingOwed' <=> PrimingOwed) /\ (PrimesTooLate' <=> PrimesTooLate)
<1>1. WarmLengths(setup)' = WarmLengths(setup)
  BY DEF WarmLengths
<1>2. PrimesTileEnds' <=> PrimesTileEnds
  BY DEF PrimesTileEnds
<1>3. PrimingOwed' <=> PrimingOwed
  BY <1>1, <1>2 DEF PrimingOwed
<1>4. PrimesTooLate' <=> PrimesTooLate
  BY DEF PrimesTooLate, PrefillTraced
<1> QED BY <1>3, <1>4

LEMMA PrimedStarts == CoverageInit => PrimedInv
<1> SUFFICES ASSUME CoverageInit PROVE PrimedInv
  OBVIOUS
<1>1. decisions["prefill"] = Unset
  BY DEF CoverageInit
<1> QED BY <1>1 DEF PrimedInv

\* A step of the call is done.
LEMMA PrimedAdvances ==
    ASSUME WarmupInv, PrimedInv, todo # <<>>, Done, setup' = setup, decisions' = decisions, primed \subseteq primed',
           todo[1].does = "primed" => todo[1].trace \in primed'
    PROVE  PrimedInv'
<1> SUFFICES ASSUME PrimingOwed, ~PrimesTooLate, decisions["prefill"] # Unset,
                    decisions["prefill"] \notin primed'
             PROVE  PrimingComes(decisions["prefill"])'
  BY OwedStays DEF PrimedInv
<1>1. PICK d : d = decisions["prefill"]
  OBVIOUS
<1>2. PrimingComes(d) /\ d \notin primed'
  BY <1>1 DEF PrimedInv
<1>3. PICK k \in 1 .. Len(todo) : todo[k] = PrimedStep(d)
  BY <1>2 DEF PrimingComes
<1>4. k # 1
  <2> SUFFICES ASSUME k = 1 PROVE FALSE
    OBVIOUS
  <2>1. todo[1].does = "primed" /\ todo[1].trace = d
    BY <1>3, StepDoes
  <2> QED BY <1>2, <2>1
<1>5. todo \in Seq(Steps)
  BY FirstStep
<1>6. /\ Len(todo) \in Nat \ {0} /\ Len(Tail(todo)) = Len(todo) - 1
      /\ \A i \in 1 .. Len(Tail(todo)) : Tail(todo)[i] = todo[i + 1]
  BY <1>5, TailFacts
<1>7. k - 1 \in 1 .. Len(Tail(todo)) /\ (k - 1) + 1 = k /\ Len(todo) # 1
  BY <1>3, <1>4, <1>6
<1>8. Tail(todo)[k - 1] = PrimedStep(d)
  BY <1>3, <1>6, <1>7
<1>9. script' = script /\ todo' = Tail(todo)
  BY <1>7 DEF Done
<1>10. PrimingComes(d)'
  BY <1>2, <1>7, <1>8, <1>9 DEF PrimingComes
<1> QED BY <1>1, <1>10 DEF PrimingComes

LEMMA PrimedPrefillCalled ==
    ASSUME WarmupInv, PrimedInv, CallPrefill PROVE PrimedInv'
<1>1. PICK trace : trace = script[1].trace
  OBVIOUS
<1>2. /\ script # <<>> /\ todo' = PrefillSteps(trace) /\ script[1].op = "prefill"
      /\ decisions' = [decisions EXCEPT !["prefill"] = trace,
                                        !["decode"] = IF trace /\ @ = FALSE THEN Unset ELSE @]
      /\ setup' = setup /\ primed' = primed /\ script' = script
  BY <1>1 DEF CallPrefill, Call, coverage, registries
<1>3. trace \in BOOLEAN /\ setup \in Setups /\ script[1] = Asks("prefill", trace)
  BY <1>1, <1>2, Stages DEF WarmupInv, CallsInv, CoverageTypeOK
<1>4. decisions'["prefill"] = trace
  BY <1>2 DEF WarmupInv, CoverageTypeOK
<1>5. PICK L : L = PrefillSteps(trace)
  OBVIOUS
<1>6. PrimingOwed /\ trace \notin primed => \E k \in 1 .. Len(L) : L[k] = PrimedStep(trace)
  BY <1>3, <1>5, PrefillStepsFacts
<1>7. PrimingOwed /\ trace \notin primed => PrimingComes(trace)'
  BY <1>2, <1>3, <1>5, <1>6 DEF PrimingComes
<1>8. PrimingOwed' => PrimingOwed
  BY <1>2, OwedStays
<1>9. PrimingOwed' /\ trace \notin primed' => PrimingComes(trace)'
  BY <1>2, <1>7, <1>8
<1>10. PrimingComes(trace)' => PrimingComes(decisions["prefill"])'
  BY <1>4 DEF PrimingComes
<1> QED BY <1>4, <1>9, <1>10 DEF PrimedInv

LEMMA PrimedDecodeCalled ==
    ASSUME WarmupInv, PrimedInv, CallDecode PROVE PrimedInv'
<1>1. /\ script[1].op = "decode" /\ setup' = setup /\ primed' = primed
      /\ decisions' = [decisions EXCEPT !["decode"] = script[1].trace]
  BY DEF CallDecode, Call, coverage
<1>2. decisions'["prefill"] = decisions["prefill"]
  BY <1>1 DEF WarmupInv, CoverageTypeOK
<1>3. ASSUME NEW d PROVE ~PrimingComes(d)
  <2>1. Asks("prefill", d).op = "prefill"
    BY DEF Asks
  <2> QED BY <1>1, <2>1 DEF PrimingComes
<1>4. PrimingOwed /\ ~PrimesTooLate /\ decisions["prefill"] # Unset => decisions["prefill"] \in primed
  BY <1>3 DEF PrimedInv
<1> QED BY <1>1, <1>2, <1>4, OwedStays DEF PrimedInv

LEMMA PrimedInvKept == WarmupInv /\ PrimedInv /\ [CoverageNext]_vars => PrimedInv'
<1> SUFFICES ASSUME WarmupInv, PrimedInv, [CoverageNext]_vars PROVE PrimedInv'
  OBVIOUS
<1>1. CASE CallPrefill
  BY <1>1, PrimedPrefillCalled
<1>2. CASE CallDecode
  BY <1>2, PrimedDecodeCalled
<1>3. CASE Compile
  <2>1. /\ todo # <<>> /\ Done /\ setup' = setup /\ decisions' = decisions /\ primed \subseteq primed'
        /\ todo[1].does # "primed"
    BY <1>3 DEF Compile, Does, coverage
  <2> QED BY <2>1, PrimedAdvances
<1>4. CASE CompileRaises
  <2>1. /\ todo # <<>> /\ todo' = <<>> /\ setup' = setup /\ decisions' = decisions /\ primed' = primed
        /\ script' = script
    BY <1>4 DEF CompileRaises, Does, coverage
  <2>2. \A d : PrimingComes(d) => PrimingComes(d)'
    BY <2>1 DEF PrimingComes
  <2>3. PrimingComes(decisions["prefill"]) => PrimingComes(decisions["prefill"])'
    BY <2>1 DEF PrimingComes
  <2> QED BY <2>1, <2>3, OwedStays DEF PrimedInv
<1>5. CASE CompileDecode
  <2>1. /\ todo # <<>> /\ Done /\ setup' = setup /\ decisions' = decisions /\ primed \subseteq primed'
        /\ todo[1].does # "primed"
    BY <1>5 DEF CompileDecode, Does
  <2> QED BY <2>1, PrimedAdvances
<1>6. CASE WarmupRefused
  <2>1. WarmupInv'
    BY WarmupInvKept
  <2>2. refused'
    BY <1>6 DEF WarmupRefused
  <2>3. PrimesTooLate'
    BY <2>1, <2>2 DEF WarmupInv, CapturedInv
  <2> QED BY <2>3 DEF PrimedInv
<1>7. CASE CaseDone
  <2>1. /\ todo # <<>> /\ Done /\ setup' = setup /\ decisions' = decisions /\ primed \subseteq primed'
        /\ todo[1].does # "primed"
    BY <1>7 DEF CaseDone, Does
  <2> QED BY <2>1, PrimedAdvances
<1>8. CASE PrimingDone
  <2>1. /\ todo # <<>> /\ Done /\ setup' = setup /\ decisions' = decisions /\ primed \subseteq primed'
        /\ todo[1].trace \in primed'
    BY <1>8 DEF PrimingDone, Does
  <2> QED BY <2>1, PrimedAdvances
<1>9. CASE MaybeCapture
  <2>1. /\ todo # <<>> /\ Done /\ setup' = setup /\ decisions' = decisions /\ primed \subseteq primed'
        /\ todo[1].does # "primed"
    BY <1>9 DEF MaybeCapture, Does, coverage
  <2> QED BY <2>1, PrimedAdvances
<1>10. CASE UNCHANGED vars
  <2>1. /\ setup' = setup /\ decisions' = decisions /\ primed' = primed /\ script' = script /\ todo' = todo
    BY <1>10 DEF vars, coverage
  <2> QED BY <2>1, OwedStays DEF PrimedInv, PrimingComes
<1> QED BY <1>1, <1>2, <1>3, <1>4, <1>5, <1>6, <1>7, <1>8, <1>9, <1>10 DEF CoverageNext

\* Once traces are active the priming a caller was owed is there.
LEMMA PrimingDoneInTime ==
    ASSUME WarmupInv, ReadyInv, PrimedInv, captured, ~PrimesTooLate, PrimingOwed
    PROVE  decisions["prefill"] \in BOOLEAN /\ \A step \in PrimingSet(decisions["prefill"]) : Ready(step)
<1>1. script = <<>>
  BY DEF WarmupInv, CapturedInv
<1>2. decisions["prefill"] # Unset
  BY DEF ReadyInv, CapturedCovers
<1>3. decisions["prefill"] \in primed
  BY <1>1, <1>2 DEF PrimedInv, PrimingComes
<1>4. primed \in SUBSET BOOLEAN
  BY DEF WarmupInv, CoverageTypeOK
<1> QED BY <1>3, <1>4 DEF ReadyInv, PrimingReady

-----------------------------------------------------------------------------
(* What a served call needs, request by request. *)

\* What the promise asks for a program of a call, and where it is made.
Served(rows, key) == key \in compiled /\ (RunsTraced(rows) => key \in aliased)
Serving(rows, s) ==
    /\ WarmupInv /\ ReadyInv /\ PrimedInv /\ captured /\ ~PrimesTooLate
    /\ rows \in Calls /\ Legal(rows) /\ s \in Samplings

LEMMA SamplingFacts ==
    ASSUME NEW s \in Samplings, setup \in Setups
    PROVE  /\ s \in Samples /\ s \in PlannedSamples[1] /\ s.path \in PathNames
           /\ s.path = "argmax" => ~s.logprobs
           /\ s.path = "logits" => s = Plain("logits")
           /\ s.path # "logits" => setup.sampling
           /\ s.logprobs => setup.logprobs
<1>1. s \in Samples
  <2>1. CASE s = Plain("logits")
    BY <2>1 DEF Samples, PathNames, Plain
  <2>2. CASE s # Plain("logits")
    <3>1. s \in [path : {"topk", "argmax"}, penalties : BOOLEAN, logprobs : BOOLEAN]
      BY <2>2 DEF Samplings
    <3> QED BY <3>1 DEF Samples, PathNames
  <2> QED BY <2>1, <2>2
<1>2. s \in PlannedSamples[1]
  BY DEF PlannedSamples
<1>3. s.path \in PathNames
  BY <1>1 DEF Samples
<1>4. CASE s = Plain("logits")
  BY <1>1, <1>2, <1>3, <1>4 DEF Plain
<1>5. CASE s # Plain("logits")
  <2>1. /\ setup.sampling /\ s.path \in {"topk", "argmax"}
        /\ s.path = "argmax" => setup.argmax /\ ~s.logprobs
        /\ s.logprobs => setup.logprobs
    BY <1>5 DEF Samplings
  <2> QED BY <1>1, <1>2, <1>3, <2>1
<1> QED BY <1>4, <1>5

LEMMA WarmWave ==
    ASSUME setup \in Setups, NEW batch \in Nat \ {0}, NEW uncached \in Nat \ {0},
           NEW rows, rows = WarmCall(batch, 0, uncached), NEW s \in Samples,
           NEW bucket \in DOMAIN setup.waves, bucket = PaddedLength(uncached), bucket \in Nat \ {0}, bucket <= MaxChunk
    PROVE  WaveKey(bucket, s) \in Needed(rows, s)
<1>1. PICK z : z = 0
  OBVIOUS
<1>2. /\ setup \in Setups /\ batch \in Nat \ {0} /\ z \in Nat /\ uncached \in Nat \ {0}
      /\ rows = WarmCall(batch, z, uncached)
      /\ s \in Samples /\ bucket = PaddedLength(uncached) /\ bucket \in Nat \ {0} /\ bucket <= MaxChunk
  BY <1>1
<1>3. z = 0 /\ bucket \in DOMAIN setup.waves => WaveKey(bucket, s) \in Needed(rows, s)
  BY <1>2, WarmKeys
<1> QED BY <1>1, <1>3

LEMMA WarmSingle ==
    ASSUME setup \in Setups, NEW uncached \in Nat \ {0},
           NEW rows, rows = WarmCall(1, 0, uncached), NEW s \in Samples,
           NEW bucket, bucket \notin DOMAIN setup.waves, bucket = PaddedLength(uncached),
           bucket \in Nat \ {0}, bucket <= MaxChunk
    PROVE  ProgramKey("single", 1, bucket, s.path, s,
                 IF s.path # "logits" /\ bucket = SmallBucket THEN TileFrom(uncached) ELSE Unset) \in Needed(rows, s)
<1>1. PICK z : z = 0
  OBVIOUS
<1>0. PICK batch : batch = 1
  OBVIOUS
<1>2. /\ setup \in Setups /\ batch \in Nat \ {0} /\ z \in Nat /\ uncached \in Nat \ {0}
      /\ rows = WarmCall(batch, z, uncached)
      /\ s \in Samples /\ bucket = PaddedLength(uncached) /\ bucket \in Nat \ {0} /\ bucket <= MaxChunk
  BY <1>0, <1>1
<1>3. z = 0 /\ bucket \notin DOMAIN setup.waves =>
         ProgramKey("single", 1, bucket, s.path, s,
               IF s.path # "logits" /\ bucket = SmallBucket THEN TileFrom(uncached) ELSE Unset) \in Needed(rows, s)
  BY <1>2, WarmKeys
<1> QED BY <1>1, <1>3

LEMMA WarmChunk ==
    ASSUME setup \in Setups, NEW cached \in Nat \ {0}, NEW uncached \in Nat \ {0},
           NEW rows, rows = WarmCall(1, cached, uncached), NEW s \in Samples,
           NEW bucket, bucket = PaddedLength(uncached), bucket \in Nat \ {0}, bucket <= MaxChunk
    PROVE  ProgramKey("chunked", 1, bucket, s.path, s, Unset) \in Needed(rows, s)
<1>0. PICK batch : batch = 1
  OBVIOUS
<1>2. /\ setup \in Setups /\ batch \in Nat \ {0} /\ cached \in Nat /\ uncached \in Nat \ {0}
      /\ rows = WarmCall(batch, cached, uncached)
      /\ s \in Samples /\ bucket = PaddedLength(uncached) /\ bucket \in Nat \ {0} /\ bucket <= MaxChunk
  BY <1>0
<1>3. cached # 0 => ProgramKey("chunked", 1, bucket, s.path, s, Unset) \in Needed(rows, s)
  BY <1>2, WarmKeys
<1> QED BY <1>3

\* What a wave samples with.
WaveSampling(s) == [path |-> WavePath(s.path), penalties |-> s.penalties, logprobs |-> s.logprobs]
LEMMA WaveSamplings ==
    ASSUME NEW s \in Samplings, setup \in Setups, NEW batch \in Nat \ {0, 1}, NEW t, t = WaveSampling(s)
    PROVE  t \in PlannedSamples[batch] /\ t \in Samples /\ WavePath(t.path) = WavePath(s.path)
           /\ t.penalties = s.penalties /\ t.logprobs = s.logprobs
<1>1. /\ s \in Samples /\ s.path \in PathNames /\ (s.path = "argmax" => ~s.logprobs)
      /\ (s.path = "logits" => s = Plain("logits")) /\ (s.path # "logits" => setup.sampling)
      /\ (s.logprobs => setup.logprobs)
  BY SamplingFacts
<1>2. /\ t.path = WavePath(s.path) /\ t.penalties = s.penalties /\ t.logprobs = s.logprobs
      /\ t = [path |-> t.path, penalties |-> t.penalties, logprobs |-> t.logprobs]
  BY DEF WaveSampling
<1>3. s.penalties \in BOOLEAN /\ s.logprobs \in BOOLEAN
  BY <1>1 DEF Samples
<1>4. CASE s.path = "logits"
  <2>1. t.path = "logits"
    BY <1>2, <1>4 DEF WavePath
  <2>2. s.penalties = FALSE /\ s.logprobs = FALSE
    BY <1>1, <1>4 DEF Plain
  <2>3. t = Plain("logits")
    BY <1>2, <2>1, <2>2 DEF Plain
  <2>4. t \in Samplings
    BY <2>3 DEF Samplings
  <2>5. t \in PlannedSamples[batch]
    BY <2>1, <2>4 DEF PlannedSamples
  <2> QED BY <1>2, <1>3, <2>1, <2>5 DEF WavePath, Samples, PathNames
<1>5. CASE s.path # "logits"
  <2>1. t.path = "topk"
    BY <1>2, <1>5 DEF WavePath
  <2>2. t \in [path : {"topk", "argmax"}, penalties : BOOLEAN, logprobs : BOOLEAN]
    BY <1>2, <1>3, <2>1
  <2>3. t \in Samplings
    BY <1>1, <1>2, <1>5, <2>1, <2>2 DEF Samplings
  <2>4. t \in PlannedSamples[batch]
    BY <2>1, <2>3 DEF PlannedSamples
  <2> QED BY <1>2, <1>3, <2>1, <2>4 DEF WavePath, Samples, PathNames
<1> QED BY <1>4, <1>5

\* A case of the plan serves what it compiled, and replays it where its length has a trace.
LEMMA CaseServes ==
    ASSUME WarmupInv, ReadyInv, captured, NEW rows, NEW case \in CaseType, IsRequired(case),
           RunsTraced(rows) => TracesLength(case.length),
           NEW u \in ToSet(UncachedLengths(case)),
           NEW key \in Needed(WarmCall(case.batch, case.cached, u), case.sampling)
    PROVE  Served(rows, key)
<1>1. CoveredCase(case)
  BY DEF ReadyInv, CapturedCovers
<1>2. ASSUME NEW t \in BOOLEAN, case \in warmed[t] PROVE key \in compiled /\ (t => key \in aliased)
  <2>1. PICK step : step = CaseStep(case, u, t)
    OBVIOUS
  <2>2. step \in CaseSteps(case, t)
    BY <2>1 DEF CaseSteps
  <2>3. Ready(step)
    BY <1>2, <2>2 DEF ReadyInv, CasesReady
  <2>4. step.call = WarmCall(case.batch, case.cached, u) /\ step.sampling = case.sampling /\ step.traced = t
    BY <2>1, CompileFields DEF CaseStep
  <2> QED BY <2>3, <2>4 DEF Ready
<1>3. key \in compiled
  BY <1>1, <1>2 DEF CoveredCase
<1>4. ASSUME RunsTraced(rows) PROVE key \in aliased
  <2>1. PrefillTraced /\ decisions["prefill"] = TRUE
    BY <1>4 DEF RunsTraced
  <2>2. case \in warmed[TRUE]
    BY <1>1, <1>4, <2>1 DEF CoveredCase
  <2> QED BY <1>2, <2>2
<1> QED BY <1>3, <1>4 DEF Served

\* The case a row was matched with has a trace when the row has.
LEMMA TracesSame ==
    ASSUME NEW rows, RunsTraced(rows), NEW r \in 1 .. Len(rows), NEW length \in Nat,
           PaddedLength(length) = length, ChunkSize(length) = ChunkSize(Bucket(rows[r]))
    PROVE  TracesLength(length)
<1>1. PrefillTraced /\ InvocationLength(rows[r]) \in TraceLengths
  BY DEF RunsTraced
<1>2. PICK row : row = [length |-> length, cached |-> 0]
  OBVIOUS
<1>3. Uncached(row) = length
  BY <1>2 DEF Uncached
<1>4. Bucket(row) = length
  BY <1>3 DEF Bucket
<1>5. InvocationLength(row) = InvocationLength(rows[r])
  BY <1>4 DEF InvocationLength
<1> QED BY <1>1, <1>2, <1>5 DEF TracesLength

LEMMA ServingFacts ==
    ASSUME NEW rows, NEW s, Serving(rows, s)
    PROVE  /\ setup \in Setups /\ CoversBuckets(setup) /\ rows \in Calls /\ Plannable(Policy, rows)
           /\ Len(rows) \in Nat /\ s \in Samplings
           /\ \A r \in Working(rows) :
                 /\ r \in 1 .. Len(rows) /\ rows[r].cached \in Nat /\ rows[r].cached % BlockSize = 0
                 /\ Uncached(rows[r]) \in Nat \ {0} /\ rows[r].cached + Uncached(rows[r]) <= Servable
                 /\ Uncached(rows[r]) <= Servable /\ Bucket(rows[r]) \in Nat \ {0}
<1>1. setup \in Setups /\ CoversBuckets(setup) /\ rows \in Calls /\ Plannable(Policy, rows) /\ s \in Samplings
  BY DEF Serving, WarmupInv, CoverageTypeOK, Legal
<1>2. rows \in Seq([slot : Nat, length : Nat, cached : Nat, table : Seq(Nat)])
  BY <1>1, CallsAssumption
<1>3. ASSUME NEW r \in Working(rows)
      PROVE  /\ r \in 1 .. Len(rows) /\ rows[r].cached \in Nat /\ rows[r].cached % BlockSize = 0
             /\ Uncached(rows[r]) \in Nat \ {0} /\ rows[r].cached + Uncached(rows[r]) <= Servable
             /\ Uncached(rows[r]) <= Servable /\ Bucket(rows[r]) \in Nat \ {0}
  <2>1. /\ r \in 1 .. Len(rows) /\ rows[r].cached \in Nat /\ rows[r].cached % BlockSize = 0
        /\ Uncached(rows[r]) \in Nat \ {0} /\ rows[r].cached + Uncached(rows[r]) <= Servable
    BY <1>1, ServedRow
  <2>2. Bucket(rows[r]) \in Nat \ {0}
    BY <2>1, PaddedCovers DEF Bucket
  <2> QED BY <2>1, <2>2, ServableFacts
<1> QED BY <1>1, <1>2, <1>3

\* A wave finds the programs of the full wave of its bucket.
LEMMA WaveServed ==
    ASSUME NEW rows, NEW s, Serving(rows, s), NEW bucket, NEW q, BatchedOf(Policy, rows, bucket, q),
           NEW key \in KeysOf(rows, q, s)
    PROVE  Served(rows, key)
<1>0. /\ setup \in Setups /\ rows \in Calls /\ Plannable(Policy, rows) /\ s \in Samplings
      /\ WarmupInv /\ ReadyInv /\ captured
  BY ServingFacts DEF Serving
<1>1. bucket \in FullBuckets /\ \E r \in Working(rows) : Bucket(rows[r]) = bucket /\ rows[r].cached = 0
  BY <1>0, WaveWarmed
<1>2. /\ bucket \in DOMAIN setup.waves /\ bucket \in WarmLengths(setup) /\ PaddedLength(Least(bucket, Servable)) = bucket
  BY <1>1 DEF FullBuckets
<1>3. /\ bucket \in Nat \ {0} /\ bucket <= MaxChunk /\ setup.waves[bucket] \in Nat \ {0, 1}
      /\ PaddedLength(bucket) = bucket
  BY <1>0, <1>2, SetupFacts, Geometry
<1>4. PICK wave : wave = setup.waves[bucket]
  OBVIOUS
<1>5. PICK t : t = WaveSampling(s)
  OBVIOUS
<1>6. /\ t \in PlannedSamples[wave] /\ t \in Samples /\ WavePath(t.path) = WavePath(s.path)
      /\ t.penalties = s.penalties /\ t.logprobs = s.logprobs
  BY <1>0, <1>3, <1>4, <1>5, WaveSamplings
<1>7. key = WaveKey(bucket, t)
  <2>1. KeysOf(rows, q, s) = {ProgramKey("batched", Policy.waves[bucket], bucket, WavePath(s.path), s, Unset)}
    BY BatchedKeys
  <2>2. Policy.waves = setup.waves
    BY <1>0, PolicyFacts
  <2>3. ProgramKey("batched", wave, bucket, WavePath(s.path), s, Unset)
          = ProgramKey("batched", wave, bucket, WavePath(t.path), t, Unset)
    BY <1>6 DEF ProgramKey
  <2> QED BY <1>4, <2>1, <2>2, <2>3 DEF WaveKey
<1>8. PICK case : case = CaseOf(wave, bucket, 0, t)
  OBVIOUS
<1>9. case.batch = wave /\ case.length = bucket /\ case.cached = 0 /\ case.sampling = t
  BY <1>8 DEF CaseOf
<1>10. case \in CaseType
  BY <1>3, <1>4, <1>6, <1>8 DEF CaseOf, CaseType
<1>11. IsRequired(case)
  BY <1>2, <1>4, <1>6, <1>9 DEF IsRequired, Belongs, Planning
<1>12. PICK u : u = Least(bucket, Servable)
  OBVIOUS
<1>13. u \in Nat \ {0} /\ u = Least(bucket, Servable - 0)
  BY <1>3, <1>12, ServableFacts DEF Least
<1>14. u \in ToSet(UncachedLengths(case))
  <2>1. case.batch # 1
    BY <1>3, <1>4, <1>9
  <2>2. UncachedLengths(case) = <<u>>
    BY <1>9, <1>13, <2>1 DEF UncachedLengths
  <2> QED BY <2>2 DEF ToSet
<1>15. PICK call2 : call2 = WarmCall(wave, 0, u)
  OBVIOUS
<1>16. key \in Needed(call2, t)
  <2>1. bucket = PaddedLength(u)
    BY <1>2, <1>12
  <2>2. wave \in Nat \ {0}
    BY <1>3, <1>4
  <2>3. WaveKey(bucket, t) \in Needed(call2, t)
    BY <1>0, <1>2, <1>3, <1>6, <1>13, <1>15, <2>1, <2>2, WarmWave
  <2> QED BY <1>7, <2>3
<1>17. RunsTraced(rows) => TracesLength(case.length)
  <2> SUFFICES ASSUME RunsTraced(rows) PROVE TracesLength(bucket)
    BY <1>9
  <2>1. PICK r \in Working(rows) : Bucket(rows[r]) = bucket
    BY <1>1
  <2>2. r \in 1 .. Len(rows)
    BY DEF Working
  <2> QED BY <1>3, <2>1, <2>2, TracesSame
<1>18. key \in Needed(WarmCall(case.batch, case.cached, u), case.sampling)
  BY <1>9, <1>15, <1>16
<1> QED BY <1>0, <1>10, <1>11, <1>14, <1>17, <1>18, CaseServes

\* The case a lone row is matched with: of its bucket or its chunk, behind no prefix or one block.
LoneCase(length, cached, s) == CaseOf(1, length, cached, s)
LEMMA LoneCaseFacts ==
    ASSUME setup \in Setups, NEW s \in Samplings, NEW length \in WarmLengths(setup), NEW cached \in Nat,
           cached = 0 \/ (cached = BlockSize /\ FitsCached(length)),
           NEW case, case = LoneCase(length, cached, s)
    PROVE  /\ case \in CaseType /\ IsRequired(case)
           /\ case.batch = 1 /\ case.length = length /\ case.cached = cached /\ case.sampling = s
<1>1. case.batch = 1 /\ case.length = length /\ case.cached = cached /\ case.sampling = s
  BY DEF LoneCase, CaseOf
<1>2. s \in Samples /\ s \in PlannedSamples[1]
  BY SamplingFacts
<1>3. length \in Nat
  BY WarmLengthsFacts
<1>4. case \in CaseType
  BY <1>2, <1>3 DEF LoneCase, CaseOf, CaseType
<1>5. IsRequired(case)
  BY <1>1, <1>2 DEF IsRequired, Belongs, Planning
<1> QED BY <1>1, <1>4, <1>5

\* What one prompt of warm-up compiled serves a row of the same length.
LEMMA LoneServes ==
    ASSUME NEW rows, NEW s, Serving(rows, s), NEW r \in Working(rows),
           NEW length \in WarmLengths(setup), PaddedLength(length) = length,
           ChunkSize(length) = ChunkSize(Bucket(rows[r])),
           NEW cached \in Nat, cached = 0 \/ (cached = BlockSize /\ FitsCached(length)),
           NEW u \in ToSet(UncachedLengths(LoneCase(length, cached, s))),
           NEW key \in Needed(WarmCall(1, cached, u), s)
    PROVE  Served(rows, key)
<1>1. /\ setup \in Setups /\ s \in Samplings /\ r \in 1 .. Len(rows)
  BY ServingFacts
<1>2. PICK case : case = LoneCase(length, cached, s)
  OBVIOUS
<1>3. /\ case \in CaseType /\ IsRequired(case)
      /\ case.batch = 1 /\ case.length = length /\ case.cached = cached /\ case.sampling = s
  BY <1>1, <1>2, LoneCaseFacts
<1>4. u \in ToSet(UncachedLengths(case)) /\ key \in Needed(WarmCall(case.batch, case.cached, u), case.sampling)
  BY <1>2, <1>3
<1>5. RunsTraced(rows) => TracesLength(case.length)
  <2>1. length \in Nat
    BY <1>1, WarmLengthsFacts
  <2> QED BY <1>1, <1>3, <2>1, TracesSame
<1>6. WarmupInv /\ ReadyInv /\ captured
  BY DEF Serving
<1> QED BY <1>3, <1>4, <1>5, <1>6, CaseServes

\* A row alone in its request, without a prefix and no longer than a chunk.
LEMMA SingleServed ==
    ASSUME NEW rows, NEW s, Serving(rows, s), NEW r \in Working(rows), NEW q, SingleOf(Policy, rows, r, q),
           ~UsesChunks(rows[r]), NEW key \in KeysOf(rows, q, s)
    PROVE  Served(rows, key)
<1>1. /\ setup \in Setups /\ CoversBuckets(setup) /\ s \in Samplings /\ r \in 1 .. Len(rows)
      /\ rows[r].cached \in Nat /\ Uncached(rows[r]) \in Nat \ {0} /\ Uncached(rows[r]) <= Servable
      /\ Bucket(rows[r]) \in Nat \ {0}
  BY ServingFacts
<1>2. PICK n : n = Uncached(rows[r])
  OBVIOUS
<1>3. PICK b : b = Bucket(rows[r])
  OBVIOUS
<1>4. n \in Nat \ {0} /\ n <= Servable /\ b = PaddedLength(n) /\ b \in Nat \ {0}
  BY <1>1, <1>2, <1>3 DEF Bucket
<1>5. b <= MaxChunk /\ rows[r].cached = 0
  BY <1>1, <1>3, <1>4, Geometry DEF UsesChunks
<1>6. b \notin DOMAIN setup.waves
  BY <1>1, <1>3, <1>5, PolicyFacts DEF SingleOf, InNoWave
<1>7. PICK tile : tile = TileFor(rows[r], s.path)
  OBVIOUS
<1>8. key = ProgramKey("single", 1, b, s.path, s, tile)
  <2>1. q = SingleRequest(rows, r)
    BY DEF SingleOf
  <2>2. KeysOf(rows, q, s) = {ProgramKey("single", 1, Bucket(rows[r]), s.path, s, TileFor(rows[r], s.path))}
    BY <2>1, LoneKeys
  <2> QED BY <1>3, <1>7, <2>2
<1>9. tile = IF s.path # "logits" /\ b = SmallBucket THEN TileFrom(n) ELSE Unset
  BY <1>2, <1>3, <1>7 DEF TileFor
<1>10. /\ b \in WarmLengths(setup) /\ PaddedLength(Least(b, Servable)) = b /\ Least(b, Servable) \in Nat \ {0}
  BY <1>1, <1>4, <1>5, ServedBucket
<1>11. PaddedLength(b) = b
  BY <1>4, PaddedAgain
<1>12. s \in Samples
  BY <1>1, SamplingFacts
\* What the case at this length compiles.
<1>13. ASSUME NEW u \in Nat \ {0}, PaddedLength(u) = b, u \in ToSet(UncachedLengths(LoneCase(b, 0, s))),
              s.path # "logits" /\ b = SmallBucket => TileFrom(u) = TileFrom(n)
       PROVE  Served(rows, key)
  <2>1. PICK warm : warm = WarmCall(1, 0, u)
    OBVIOUS
  <2>2. ProgramKey("single", 1, b, s.path, s,
              IF s.path # "logits" /\ b = SmallBucket THEN TileFrom(u) ELSE Unset) \in Needed(warm, s)
    BY <1>1, <1>4, <1>5, <1>6, <1>12, <1>13, <2>1, WarmSingle
  <2>3. tile = IF s.path # "logits" /\ b = SmallBucket THEN TileFrom(u) ELSE Unset
    BY <1>9, <1>13
  <2>4. key \in Needed(WarmCall(1, 0, u), s)
    BY <1>8, <2>1, <2>2, <2>3
  <2>5. ChunkSize(b) = ChunkSize(Bucket(rows[r])) /\ 0 \in Nat
    BY <1>3
  <2> QED BY <1>10, <1>11, <1>13, <2>4, <2>5, LoneServes
<1>14. PICK case : case = LoneCase(b, 0, s)
  OBVIOUS
<1>15. case.batch = 1 /\ case.length = b /\ case.cached = 0 /\ case.sampling = s
  BY <1>14 DEF LoneCase, CaseOf
<1>16. PICK tiled : tiled = (b = SmallBucket /\ s.path \in {"argmax"} \cup (IF PrimesTileEnds THEN {"topk"} ELSE {}))
  OBVIOUS
<1>17. UncachedLengths(case) = IF tiled THEN TileEnds ELSE <<Least(b, Servable - 0)>>
  BY <1>15, <1>16 DEF UncachedLengths
<1>18. Least(b, Servable - 0) = Least(b, Servable)
  BY ServableFacts
<1>19. CASE ~(s.path # "logits" /\ b = SmallBucket)
  <2>1. ~tiled
    BY <1>16, <1>19
  <2>2. PICK u : u = Least(b, Servable)
    OBVIOUS
  <2>3. u \in ToSet(UncachedLengths(case))
    BY <1>17, <1>18, <2>1, <2>2 DEF ToSet
  <2> QED BY <1>10, <1>13, <1>14, <1>19, <2>2, <2>3
<1>20. CASE s.path # "logits" /\ b = SmallBucket
  <2>1. n <= SmallBucket
    BY <1>4, <1>20, PaddedCovers
  <2>2. PICK t \in 1 .. SmallBucket \div TileSize :
           /\ t * TileSize \in Nat \ {0} /\ PaddedLength(t * TileSize) = SmallBucket
           /\ TileFrom(t * TileSize) = TileFrom(n)
    BY <1>4, <2>1, TileOfPrompt
  <2>3. PICK e : e = t * TileSize
    OBVIOUS
  <2>4. /\ TileEnds \in Seq(Nat) /\ Len(TileEnds) = SmallBucket \div TileSize /\ TileEnds[t] = e
        /\ SmallBucket \div TileSize \in Nat \ {0}
    BY <2>2, <2>3, TileEndsFacts
  <2>5. CASE tiled
    <3>1. e \in ToSet(UncachedLengths(case))
      BY <1>17, <2>2, <2>4, <2>5 DEF ToSet
    <3> QED BY <1>13, <1>14, <1>20, <2>2, <2>3, <3>1
  <2>6. CASE ~tiled /\ t = SmallBucket \div TileSize
    <3>1. e = SmallBucket
      BY <2>3, <2>6, TileEndsFacts
    <3>2. Least(b, Servable) = e
      BY <1>1, <1>4, <1>20, <3>1, KnownBuckets, Geometry, ServableFacts DEF Least
    <3>3. e \in ToSet(UncachedLengths(case))
      BY <1>17, <1>18, <2>6, <3>2 DEF ToSet
    <3> QED BY <1>13, <1>14, <1>20, <2>2, <2>3, <3>3
  <2>7. CASE ~tiled /\ t # SmallBucket \div TileSize
    <3>1. s.path = "topk" /\ ~PrimesTileEnds
      <4>1. s.path \in PathNames
        BY <1>1, SamplingFacts
      <4> QED BY <1>16, <1>20, <2>7, <4>1 DEF PathNames
    <3>2. setup.sampling /\ (s.logprobs => setup.logprobs)
      BY <1>1, <3>1, SamplingFacts
    <3>3. PrimingOwed
      BY <1>10, <1>20, <3>1, <3>2 DEF PrimingOwed
    <3>4. PICK d : d = decisions["prefill"]
      OBVIOUS
    <3>5. d \in BOOLEAN /\ \A step \in PrimingSet(d) : Ready(step)
      BY <3>3, <3>4, PrimingDoneInTime DEF Serving
    <3>6. PICK step : step = CompileStep(1, 0, TileEnds[t], s, PrimingTraced(d))
      OBVIOUS
    <3>7. step \in PrimingSet(d)
      <4>1. t \in 1 .. Len(TileEnds) - 1
        BY <2>2, <2>4, <2>7
      <4>2. s \in TopKSet
        BY <1>12, <3>1, <3>2 DEF TopKSet
      <4> QED BY <3>6, <4>1, <4>2 DEF PrimingSet
    <3>8. step.call = WarmCall(1, 0, e) /\ step.sampling = s /\ step.traced = PrimingTraced(d)
      BY <2>4, <3>6, CompileFields
    <3>9. key \in Needed(step.call, step.sampling)
      <4>1. PICK warm : warm = WarmCall(1, 0, e)
        OBVIOUS
      <4>2. e \in Nat \ {0} /\ b = PaddedLength(e)
        BY <1>20, <2>2, <2>3
      <4>3. ProgramKey("single", 1, b, s.path, s,
                  IF s.path # "logits" /\ b = SmallBucket THEN TileFrom(e) ELSE Unset) \in Needed(warm, s)
        BY <1>1, <1>4, <1>5, <1>6, <1>12, <4>1, <4>2, WarmSingle
      <4>4. tile = TileFrom(e)
        BY <1>9, <1>20, <2>2, <2>3
      <4> QED BY <1>8, <1>20, <3>8, <4>1, <4>3, <4>4
    <3>10. key \in compiled
      BY <3>5, <3>7, <3>9 DEF Ready
    <3>11. ASSUME RunsTraced(rows) PROVE key \in aliased
      <4>1. TracesLength(b)
        BY <1>1, <1>3, <1>4, <1>11, <3>11, TracesSame
      <4>2. d = TRUE
        BY <3>4, <3>11 DEF RunsTraced
      <4>3. PrimingTraced(d)
        BY <1>20, <4>1, <4>2 DEF PrimingTraced
      <4> QED BY <3>5, <3>7, <3>8, <3>9, <4>3 DEF Ready
    <3> QED BY <3>10, <3>11 DEF Served
  <2> QED BY <2>5, <2>6, <2>7
<1> QED BY <1>19, <1>20

\* A row behind a prefix, or in several chunks.
LEMMA ChunkedServed ==
    ASSUME NEW rows, NEW s, Serving(rows, s), NEW r \in Working(rows), NEW q, SingleOf(Policy, rows, r, q),
           UsesChunks(rows[r]), NEW key \in KeysOf(rows, q, s)
    PROVE  Served(rows, key)
<1>1. /\ setup \in Setups /\ CoversBuckets(setup) /\ s \in Samplings /\ r \in 1 .. Len(rows)
      /\ rows[r].cached \in Nat /\ Uncached(rows[r]) \in Nat \ {0} /\ Uncached(rows[r]) <= Servable
      /\ rows[r].cached % BlockSize = 0 /\ rows[r].cached + Uncached(rows[r]) <= Servable
      /\ Bucket(rows[r]) \in Nat \ {0}
  BY ServingFacts
<1>2. PICK n : n = Uncached(rows[r])
  OBVIOUS
<1>3. PICK b : b = Bucket(rows[r])
  OBVIOUS
<1>4. PICK size : size = ChunkSize(b)
  OBVIOUS
<1>5. /\ n \in Nat \ {0} /\ n <= Servable /\ b = PaddedLength(n) /\ b \in Nat \ {0}
      /\ Servable \in Nat \ {0} /\ BlockSize \in Nat \ {0}
  BY <1>1, <1>2, <1>3, ServableFacts, Geometry DEF Bucket
<1>6. ChunkSizes(b) # {}
  BY <1>5, ChunkSizesExist
<1>7. size \in Nat \ {0} /\ size <= MaxChunk
  BY <1>4, <1>5, <1>6, ChunkSizeFacts
<1>8. s \in Samples
  BY <1>1, SamplingFacts
<1>9. key = ProgramKey("chunked", 1, size, s.path, s, Unset)
  <2>1. q = SingleRequest(rows, r)
    BY DEF SingleOf
  <2>2. Uncached(rows[r]) \in Nat \ {0} /\ ChunkSize(Bucket(rows[r])) \in Nat \ {0}
    BY <1>1, <1>3, <1>4, <1>7
  <2>3. KeysOf(rows, q, s) = {ProgramKey("chunked", 1, ChunkSize(Bucket(rows[r])), s.path, s, Unset)}
    BY <2>1, <2>2, LoneKeys
  <2> QED BY <1>3, <1>4, <2>3
\* The prompt of this length behind one block serves it.
<1>10. ASSUME NEW u \in Nat \ {0}, PaddedLength(u) = size, u = Least(size, Servable - BlockSize),
              size \in WarmLengths(setup), PaddedLength(size) = size, ChunkSize(size) = size, FitsCached(size)
       PROVE  Served(rows, key)
  <2>1. PICK warm : warm = WarmCall(1, BlockSize, u)
    OBVIOUS
  <2>2. ProgramKey("chunked", 1, size, s.path, s, Unset) \in Needed(warm, s)
    BY <1>1, <1>5, <1>7, <1>8, <1>10, <2>1, WarmChunk
  <2>3. key \in Needed(WarmCall(1, BlockSize, u), s)
    BY <1>9, <2>1, <2>2
  <2>4. u \in ToSet(UncachedLengths(LoneCase(size, BlockSize, s)))
    <3>1. PICK case : case = LoneCase(size, BlockSize, s)
      OBVIOUS
    <3>2. case.batch = 1 /\ case.length = size /\ case.cached = BlockSize
      BY <3>1 DEF LoneCase, CaseOf
    <3>3. UncachedLengths(case) = <<u>>
      BY <1>5, <1>10, <3>2 DEF UncachedLengths
    <3> QED BY <3>1, <3>3 DEF ToSet
  <2>5. ChunkSize(size) = ChunkSize(Bucket(rows[r])) /\ BlockSize \in Nat
    BY <1>3, <1>4, <1>5, <1>10
  <2> QED BY <1>10, <2>3, <2>4, <2>5, LoneServes
<1>11. CASE b <= MaxChunk
  <2>1. rows[r].cached # 0
    BY <1>1, <1>3, <1>5, <1>11, Geometry DEF UsesChunks
  <2>2. size = b
    BY <1>4, <1>5, <1>6, <1>11, ChunkSizeFacts
  <2>3. PICK c : c = rows[r].cached
    OBVIOUS
  <2>4. c \in Nat /\ c # 0 /\ c % BlockSize = 0 /\ c + n <= Servable
    BY <1>1, <1>2, <2>1, <2>3
  <2>5. /\ FitsCached(b) /\ Least(b, Servable - BlockSize) \in Nat \ {0}
        /\ PaddedLength(Least(b, Servable - BlockSize)) = b
    BY <1>5, <2>4, BucketFitsCached
  <2>6. b \in WarmLengths(setup)
    BY <1>1, <1>5, <1>11, ServedBucket
  <2>7. PaddedLength(b) = b
    BY <1>5, PaddedAgain
  <2>8. ChunkSize(size) = size
    BY <1>4, <2>2
  <2> QED BY <1>10, <2>2, <2>5, <2>6, <2>7, <2>8
<1>12. CASE ~(b <= MaxChunk)
  <2>0. b > MaxChunk
    BY <1>5, <1>12, Geometry
  <2>1. /\ size < n /\ size % BlockSize = 0 /\ PaddedLength(size) = size /\ SmallBucket <= size
        /\ ChunkSize(size) = size
    BY <1>4, <1>5, <2>0, ChunkIsBucket
  <2>2. size < Servable
    BY <1>5, <1>7, <2>1
  <2>3. FitsCached(size) /\ Least(size, Servable - BlockSize) = size
    BY <1>7, <2>1, <2>2, ChunkFitsCached
  <2>4. size \in WarmLengths(setup)
    <3>1. Servable <= PaddedLength(Servable) /\ PaddedLength(Servable) \in Nat
      BY <1>5, PaddedCovers
    <3>2. size <= PaddedLength(Servable)
      BY <1>5, <1>7, <2>2, <3>1
    <3> QED BY <1>1, <1>7, <2>1, <3>2, KnownBuckets
  <2> QED BY <1>7, <1>10, <2>1, <2>3, <2>4
<1> QED BY <1>11, <1>12

LEMMA ServingIsCompiled ==
    ASSUME WarmupInv, ReadyInv, PrimedInv PROVE ServedIsCompiled
<1> SUFFICES ASSUME captured, ~PrimesTooLate, NEW rows \in Calls, Legal(rows), NEW s \in Samplings,
                    NEW key \in Needed(rows, s)
             PROVE  key \in IF RunsTraced(rows) THEN aliased ELSE compiled
  BY DEF ServedIsCompiled
<1>1. Serving(rows, s)
  BY DEF Serving
<1>2. setup \in Setups /\ Len(rows) \in Nat
  BY <1>1, ServingFacts
<1>3. PICK q \in Requests(rows) : key \in KeysOf(rows, q, s)
  BY DEF Needed
<1>4. \/ \E bucket : BatchedOf(Policy, rows, bucket, q)
      \/ \E r \in Working(rows) : SingleOf(Policy, rows, r, q)
  BY <1>2, RequestsAre
<1>5. Served(rows, key)
  BY <1>1, <1>3, <1>4, WaveServed, SingleServed, ChunkedServed
<1> QED BY <1>5 DEF Served

\* Nothing compiles once traces are active: whatever legal call comes, of any lengths, cached prefixes and
\* sampling, every program it needs was compiled by warm-up, and has its trace when the call replays traces.
THEOREM ServedIsAlwaysCompiled == CoverageSpec => []ServedIsCompiled
<1>1. CoverageInit => PrimedInv
  BY PrimedStarts
<1>2. WarmupInv /\ PrimedInv /\ [CoverageNext]_vars => PrimedInv'
  BY PrimedInvKept
<1>3. WarmupInv /\ ReadyInv /\ PrimedInv => ServedIsCompiled
  BY ServingIsCompiled
<1> QED BY <1>1, <1>2, <1>3, ReadyInvariance, PTL DEF CoverageSpec

==============================================================================
