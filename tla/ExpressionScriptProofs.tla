----------------------- MODULE ExpressionScriptProofs ------------------------
(* The expression compiler on every script.                                   *)
EXTENDS StudioData, FiniteSetTheorems, SequenceTheorems, TLAPS

------------------------------------------------------------------------------
(* Least and greatest positions.                                              *)

LEMMA LeastNatural ==
  ASSUME NEW T \in SUBSET Nat, T # {} PROVE \E x \in T : \A y \in T : x <= y
<1> DEFINE R == OpToRel(<, Nat)
<1>1. IsWellFoundedOn(R, Nat) BY NatLessThanWellFounded
<1>2. \A x, y \in Nat : <<x, y>> \in R <=> x < y BY DEF OpToRel
<1> HIDE DEF R
<1>3. PICK x \in T : \A y \in T : ~ (<<y, x>> \in R) BY <1>1, WFMin
<1>4. \A y \in T : ~ (y < x) BY <1>2, <1>3
<1>5. x \in Nat /\ \A y \in T : y \in Nat OBVIOUS
<1> QED BY <1>4, <1>5

LEMMA MinOf ==
  ASSUME NEW T \in SUBSET Nat, T # {} PROVE Min(T) \in T /\ \A y \in T : Min(T) <= y
  BY LeastNatural DEF Min

LEMMA MaxOf ==
  ASSUME NEW n \in Nat, NEW T \in SUBSET (0 .. n), T # {}
  PROVE  Max(T) \in T /\ \A y \in T : Max(T) >= y
<1> DEFINE B == {b \in Nat : \A x \in T : x <= b}
<1>1. n \in B OBVIOUS
<1>2. PICK b \in B : \A y \in B : b <= y BY <1>1, LeastNatural
<1>3. b \in T
  <2> SUFFICES ASSUME b \notin T PROVE FALSE OBVIOUS
  <2>1. \A x \in T : x \in Nat /\ x < b BY <1>2
  <2>2. \A x \in T : x <= b - 1 BY <2>1
  <2>3. PICK x \in T : TRUE OBVIOUS
  <2>4. x \in Nat /\ x < b BY <2>1
  <2>5. b \in Nat OBVIOUS
  <2>6. b - 1 \in Nat BY <2>4, <2>5
  <2>7. b - 1 \in B BY <2>2, <2>6
  <2> QED BY <1>2, <2>5, <2>7
<1>4. \A y \in T : b >= y BY <1>2
<1> QED BY <1>3, <1>4 DEF Max

------------------------------------------------------------------------------
(* Positions in order.                                                        *)

UpTo(S, i) == {h \in S : h <= i}

LEMMA RankOf ==
  ASSUME NEW n \in Nat, NEW S \in SUBSET (1 .. n)
  PROVE  /\ IsFiniteSet(S) /\ Cardinality(S) \in Nat
         /\ \A i \in S : Cardinality(UpTo(S, i)) \in 1 .. Cardinality(S)
         /\ \A i, j \in S : i < j => Cardinality(UpTo(S, i)) < Cardinality(UpTo(S, j))
<1>1. IsFiniteSet(1 .. n) BY FS_Interval
<1>2. IsFiniteSet(S) /\ Cardinality(S) \in Nat BY <1>1, FS_Subset, FS_CardinalityType
<1>3. \A i : UpTo(S, i) \in SUBSET S BY DEF UpTo
<1>4. \A i : IsFiniteSet(UpTo(S, i)) /\ Cardinality(UpTo(S, i)) \in Nat
              /\ Cardinality(UpTo(S, i)) <= Cardinality(S)
  BY <1>2, <1>3, FS_Subset, FS_CardinalityType
<1>5. \A i \in S : UpTo(S, i) # {} BY DEF UpTo
<1>6. \A i \in S : Cardinality(UpTo(S, i)) \in 1 .. Cardinality(S)
  BY <1>2, <1>4, <1>5, FS_EmptySet
<1>7. ASSUME NEW i \in S, NEW j \in S, i < j
      PROVE  Cardinality(UpTo(S, i)) < Cardinality(UpTo(S, j))
  <2>1. UpTo(S, i) \in SUBSET UpTo(S, j)
    <3>1. \A h \in S : h \in Nat OBVIOUS
    <3>2. \A h \in S : h <= i => h <= j BY <1>7, <3>1
    <3> QED BY <3>2 DEF UpTo
  <2>2. j \in UpTo(S, j) /\ j \notin UpTo(S, i) BY <1>7 DEF UpTo
  <2>3. Cardinality(UpTo(S, i)) <= Cardinality(UpTo(S, j))
         /\ (Cardinality(UpTo(S, j)) = Cardinality(UpTo(S, i)) => UpTo(S, j) = UpTo(S, i))
    BY <1>4, <2>1, FS_Subset
  <2> QED BY <1>4, <2>2, <2>3
<1> QED BY <1>2, <1>6, <1>7

LEMMA AscendingOf ==
  ASSUME NEW n \in Nat, NEW S \in SUBSET (1 .. n)
  PROVE  /\ Cardinality(S) \in Nat
         /\ Ascending(S) \in [1 .. Cardinality(S) -> S]
         /\ \A i \in S : \E k \in 1 .. Cardinality(S) : Ascending(S)[k] = i
         /\ \A j, k \in 1 .. Cardinality(S) : j < k => Ascending(S)[j] < Ascending(S)[k]
<1> DEFINE c == Cardinality(S)
           rank == [i \in S |-> Cardinality(UpTo(S, i))]
<1>1. IsFiniteSet(S) /\ c \in Nat BY RankOf
<1>2. rank \in [S -> 1 .. c] BY RankOf
<1>3. \A i, j \in S : i < j => rank[i] < rank[j] BY RankOf
<1>4. rank \in Injection(S, 1 .. c)
  <2>1. \A i, j \in S : rank[i] = rank[j] => i = j
    <3> TAKE i, j \in S
    <3>1. i \in Nat /\ j \in Nat /\ (i < j \/ j < i \/ i = j) OBVIOUS
    <3>2. rank[i] \in Nat /\ rank[j] \in Nat BY <1>2
    <3> QED BY <1>3, <3>1, <3>2
  <2> QED BY <1>2, <2>1 DEF Injection, IsInjective
<1>5. IsFiniteSet(1 .. c) /\ Cardinality(1 .. c) = c BY <1>1, FS_Interval
<1>6. rank \in Surjection(S, 1 .. c) BY <1>1, <1>4, <1>5, FS_Injection
<1>7. \A k \in 1 .. c : \E i \in S : Cardinality(UpTo(S, i)) = k BY <1>6 DEF Surjection
<1>8. \A k \in 1 .. c : /\ Ascending(S)[k] \in S
                        /\ Cardinality(UpTo(S, Ascending(S)[k])) = k
  BY <1>7 DEF Ascending, UpTo
<1>9. Ascending(S) \in [1 .. c -> S]
  <2>1. Ascending(S) = [k \in 1 .. c |-> Ascending(S)[k]] BY DEF Ascending
  <2> QED BY <1>8, <2>1
<1>10. \A i \in S : \E k \in 1 .. c : Ascending(S)[k] = i
  <2> TAKE i \in S
  <2>1. rank[i] \in 1 .. c /\ rank[Ascending(S)[rank[i]]] = rank[i] BY <1>2, <1>8
  <2>2. Ascending(S)[rank[i]] = i BY <1>4, <1>8, <2>1 DEF Injection, IsInjective
  <2> QED BY <2>1, <2>2
<1>11. ASSUME NEW j \in 1 .. c, NEW k \in 1 .. c, j < k PROVE Ascending(S)[j] < Ascending(S)[k]
  <2> DEFINE x == Ascending(S)[j]  y == Ascending(S)[k]
  <2>1. x \in S /\ y \in S /\ rank[x] = j /\ rank[y] = k BY <1>8
  <2>2. x \in Nat /\ y \in Nat
    <3>1. \A i \in S : i \in Nat OBVIOUS
    <3> QED BY <2>1, <3>1
  <2> HIDE DEF x, y
  <2>3. ~ (y < x) /\ x # y BY <1>3, <1>11, <2>1
  <2> QED BY <2>2, <2>3 DEF x, y
<1> QED BY <1>1, <1>9, <1>10, <1>11

LEMMA AscendingUnique ==
  ASSUME NEW n \in Nat, NEW S \in SUBSET (1 .. n), NEW c \in Nat, NEW f \in [1 .. c -> S],
         \A i \in S : \E k \in 1 .. c : f[k] = i,
         \A j, k \in 1 .. c : j < k => f[j] < f[k]
  PROVE  c = Cardinality(S) /\ f = Ascending(S)
<1>0. \A k \in 1 .. c : f[k] \in S /\ f[k] \in Nat /\ k \in Nat
  <2> TAKE k \in 1 .. c
  <2>1. \A i \in S : i \in Nat OBVIOUS
  <2>2. f[k] \in S OBVIOUS
  <2>3. f[k] \in Nat BY <2>1, <2>2
  <2>4. k \in Nat OBVIOUS
  <2> QED BY <2>2, <2>3, <2>4
<1>1. \A j, k \in 1 .. c : f[j] = f[k] => j = k
  <2> TAKE j, k \in 1 .. c
  <2>1. j < k \/ k < j \/ j = k BY <1>0
  <2>2. f[j] = f[k] => ~ (f[j] < f[k]) /\ ~ (f[k] < f[j]) BY <1>0
  <2> QED BY <2>1, <2>2
<1>2. f \in Bijection(1 .. c, S) BY <1>1, Zenon DEF Bijection, Injection, Surjection, IsInjective
<1>3. Cardinality(S) = c BY <1>2, FS_CountingElements DEF ExistsBijection
<1>4. ASSUME NEW k \in 1 .. c PROVE Cardinality(UpTo(S, f[k])) = k
  <2> DEFINE g == [j \in 1 .. k |-> f[j]]
  <2>1. \A j \in 1 .. k : j \in 1 .. c OBVIOUS
  <2>2. \A j \in 1 .. k : f[j] \in UpTo(S, f[k])
    <3> TAKE j \in 1 .. k
    <3>1. j < k \/ j = k OBVIOUS
    <3>2. f[j] \in Nat /\ f[k] \in Nat BY <1>0, <2>1
    <3>3. f[j] <= f[k] BY <2>1, <3>1, <3>2
    <3> QED BY <2>1, <3>3 DEF UpTo
  <2>3. \A i \in UpTo(S, f[k]) : \E j \in 1 .. k : f[j] = i
    <3> TAKE i \in UpTo(S, f[k])
    <3>1. i \in S /\ i <= f[k] BY DEF UpTo
    <3>2. PICK j \in 1 .. c : f[j] = i BY <3>1
    <3>3. ~ (k < j)
      <4>1. k < j => f[k] < f[j] OBVIOUS
      <4>2. f[k] \in Nat /\ f[j] \in Nat BY <1>0
      <4> QED BY <3>1, <3>2, <4>1, <4>2
    <3> QED BY <3>2, <3>3
  <2>4. g \in [1 .. k -> UpTo(S, f[k])] BY <2>2
  <2>5. \A i, j \in 1 .. k : g[i] = g[j] => i = j BY <1>1, <2>1
  <2>6. \A i \in UpTo(S, f[k]) : \E j \in 1 .. k : g[j] = i BY <2>3
  <2> HIDE DEF g
  <2>7. g \in Bijection(1 .. k, UpTo(S, f[k]))
    BY <2>4, <2>5, <2>6, Zenon DEF Bijection, Injection, Surjection, IsInjective
  <2>8. k \in Nat OBVIOUS
  <2> QED BY <2>7, <2>8, FS_CountingElements DEF ExistsBijection
<1>5. ASSUME NEW k \in 1 .. c PROVE f[k] = Ascending(S)[k]
  <2>1. \E i \in S : Cardinality({h \in S : h <= i}) = k BY <1>4 DEF UpTo
  <2> DEFINE x == Ascending(S)[k]
  <2>2. x \in S /\ Cardinality(UpTo(S, x)) = k BY <1>3, <2>1 DEF Ascending, UpTo
  <2>3. f[k] \in S /\ Cardinality(UpTo(S, f[k])) = k BY <1>4
  <2>4. \A i, j \in S : i < j => Cardinality(UpTo(S, i)) < Cardinality(UpTo(S, j)) BY RankOf
  <2>5. x \in Nat /\ f[k] \in Nat
    <3>1. \A i \in S : i \in Nat OBVIOUS
    <3> QED BY <2>2, <2>3, <3>1
  <2> HIDE DEF x
  <2>6. ~ (x < f[k]) /\ ~ (f[k] < x)
    <3> DEFINE y == f[k]
    <3>1. y \in S /\ Cardinality(UpTo(S, y)) = k BY <2>3
    <3> HIDE DEF y
    <3>2. ~ (k < k) OBVIOUS
    <3>3. ~ (x < y) /\ ~ (y < x) BY <2>2, <2>4, <3>1, <3>2
    <3> QED BY <3>3 DEF y
  <2> QED BY <2>5, <2>6 DEF x
<1>6. Ascending(S) = [k \in 1 .. c |-> Ascending(S)[k]] BY <1>3 DEF Ascending
<1> QED BY <1>3, <1>5, <1>6

------------------------------------------------------------------------------
(* Sequences.                                                                 *)

LEMMA SeqOfFunction ==
  ASSUME NEW c \in Nat, NEW S, NEW f \in [1 .. c -> S]
  PROVE  f \in Seq(S) /\ Len(f) = c /\ DOMAIN f = 1 .. c
<1>1. f \in Seq(S) BY SeqDef
<1>2. DOMAIN f = 1 .. Len(f) /\ Len(f) \in Nat BY <1>1, LenProperties
<1>3. DOMAIN f = 1 .. c OBVIOUS
<1>4. Len(f) = c BY <1>2, <1>3
<1> QED BY <1>1, <1>3, <1>4

\* The positions of s that are not blank.
Solid(s) == {i \in DOMAIN s : s[i] \notin Blank}

LEMMA TrimOf ==
  ASSUME NEW A, NEW s \in Seq(A)
  PROVE  /\ Trim(s) \in Seq(A)
         /\ Solid(s) = {} => Trim(s) = <<>>
         /\ Solid(s) # {} => \E a, b \in 1 .. Len(s) :
              /\ a <= b /\ a \in Solid(s) /\ b \in Solid(s)
              /\ \A i \in Solid(s) : a <= i /\ i <= b
              /\ Trim(s) = SubSeq(s, a, b)
              /\ Len(Trim(s)) = b - a + 1
              /\ \A i \in 1 .. b - a + 1 : Trim(s)[i] = s[a + i - 1]
<1>1. CASE Solid(s) = {}
  <2>1. Trim(s) = <<>> BY <1>1 DEF Trim, Solid
  <2> QED BY <1>1, <2>1
<1>2. CASE Solid(s) # {}
  <2> DEFINE a == Min(Solid(s))  b == Max(Solid(s))
  <2>1. DOMAIN s = 1 .. Len(s) /\ Len(s) \in Nat BY LenProperties
  <2>2. Solid(s) \in SUBSET (1 .. Len(s)) BY <2>1 DEF Solid
  <2>3. Solid(s) \in SUBSET Nat /\ Solid(s) \in SUBSET (0 .. Len(s)) BY <2>1, <2>2
  <2>4. a \in Solid(s) /\ \A i \in Solid(s) : a <= i BY <1>2, <2>3, MinOf
  <2>5. b \in Solid(s) /\ \A i \in Solid(s) : b >= i BY <1>2, <2>1, <2>3, MaxOf
  <2>6. a \in 1 .. Len(s) /\ b \in 1 .. Len(s) BY <2>2, <2>4, <2>5
  <2>7. Trim(s) = SubSeq(s, a, b) BY <1>2 DEF Trim, Solid
  <2> HIDE DEF a, b
  <2>8. a <= b BY <2>4, <2>5
  <2>9. \A i \in a .. b : s[i] \in A BY <2>1, <2>6, ElementOfSeq
  <2>10. /\ Trim(s) \in Seq(A)
         /\ Len(Trim(s)) = b - a + 1
         /\ \A i \in 1 .. b - a + 1 : Trim(s)[i] = s[a + i - 1]
    BY <2>1, <2>6, <2>7, <2>8, <2>9, SubSeqProperties
  <2>11. \A i \in Solid(s) : a <= i /\ i <= b BY <2>1, <2>2, <2>4, <2>5, <2>6
  <2> QED BY <1>2, <2>4, <2>5, <2>6, <2>7, <2>8, <2>10, <2>11
<1> QED BY <1>1, <1>2

\* What is trimmed stays as it is.
LEMMA TrimTwice == ASSUME NEW A, NEW s \in Seq(A) PROVE Trim(Trim(s)) = Trim(s)
<1>1. CASE Solid(s) = {}
  <2>1. Trim(s) = <<>> BY <1>1, TrimOf
  <2>2. Trim(<<>>) = <<>> BY DEF Trim
  <2> QED BY <2>1, <2>2
<1>2. CASE Solid(s) # {}
  <2> DEFINE t == Trim(s)
  <2>0. t \in Seq(A) BY TrimOf
  <2>1. PICK a, b \in 1 .. Len(s) :
          /\ a <= b /\ a \in Solid(s) /\ b \in Solid(s)
          /\ Len(t) = b - a + 1
          /\ \A i \in 1 .. b - a + 1 : t[i] = s[a + i - 1]
    BY <1>2, TrimOf
  <2>2. DOMAIN t = 1 .. Len(t) /\ Len(t) \in Nat /\ Len(s) \in Nat BY <2>0, LenProperties
  <2> HIDE DEF t
  <2>3. 1 \in 1 .. b - a + 1 /\ b - a + 1 \in 1 .. b - a + 1 BY <2>1, <2>2
  <2>4. t[1] = s[a] /\ t[Len(t)] = s[b]
    <3>1. a + 1 - 1 = a /\ a + (b - a + 1) - 1 = b BY <2>1, <2>2
    <3> QED BY <2>1, <2>3, <3>1
  <2>5. 1 \in Solid(t) /\ Len(t) \in Solid(t) BY <2>1, <2>2, <2>3, <2>4 DEF Solid
  <2>6. PICK c, d \in 1 .. Len(t) :
          /\ \A i \in Solid(t) : c <= i /\ i <= d
          /\ Trim(t) = SubSeq(t, c, d)
    BY <2>0, <2>5, TrimOf
  <2>7. c = 1 /\ d = Len(t)
    <3>1. c <= 1 /\ Len(t) <= d BY <2>5, <2>6
    <3>2. 1 <= c /\ d <= Len(t) /\ c \in Nat /\ d \in Nat BY <2>2
    <3>3. c = 1 BY <3>1, <3>2
    <3>4. \A l \in Nat : d <= l /\ l <= d => d = l BY <3>2
    <3>5. d = Len(t) BY <2>2, <3>1, <3>2, <3>4
    <3> QED BY <3>3, <3>5
  <2>8. Trim(t) = t BY <2>0, <2>6, <2>7, SubSeqFull
  <2> QED BY <2>8 DEF t
<1> QED BY <1>1, <1>2

------------------------------------------------------------------------------
(* Lengths in UTF-16 units.                                                   *)

Astrals(s, a, b) == {i \in a .. b : s[i] = "astral"}

LEMMA AstralsFinite ==
  ASSUME NEW s, NEW a \in Int, NEW b \in Int
  PROVE  IsFiniteSet(Astrals(s, a, b)) /\ Cardinality(Astrals(s, a, b)) \in Nat
<1>1. Astrals(s, a, b) \in SUBSET (a .. b) BY DEF Astrals
<1>2. IsFiniteSet(a .. b) BY FS_Interval
<1> QED BY <1>1, <1>2, FS_Subset, FS_CardinalityType

LEMMA UnitsOf ==
  ASSUME NEW A, NEW s \in Seq(A)
  PROVE  /\ Units(s) \in Nat /\ Units(s) = Len(s) + Cardinality(Astrals(s, 1, Len(s)))
         /\ Len(s) <= Units(s)
<1>1. DOMAIN s = 1 .. Len(s) /\ Len(s) \in Nat BY LenProperties
<1>2. Units(s) = Len(s) + Cardinality(Astrals(s, 1, Len(s))) BY <1>1 DEF Units, Astrals
<1> QED BY <1>1, <1>2, AstralsFinite

LEMMA UnitsOfPart ==
  ASSUME NEW A, NEW s \in Seq(A), NEW a \in Nat, NEW b \in Nat,
         1 <= a, a <= b + 1, b <= Len(s)
  PROVE  /\ SubSeq(s, a, b) \in Seq(A)
         /\ Len(SubSeq(s, a, b)) = b - a + 1
         /\ \A i \in 1 .. b - a + 1 : SubSeq(s, a, b)[i] = s[a + i - 1]
         /\ Units(SubSeq(s, a, b)) = b - a + 1 + Cardinality(Astrals(s, a, b))
<1>1. DOMAIN s = 1 .. Len(s) /\ Len(s) \in Nat BY LenProperties
<1>2. \A i \in a .. b : s[i] \in A BY <1>1, ElementOfSeq
<1> DEFINE t == SubSeq(s, a, b)
<1>3. /\ t \in Seq(A) /\ Len(t) = b - a + 1
      /\ \A i \in 1 .. b - a + 1 : t[i] = s[a + i - 1]
  BY <1>2, SubSeqProperties
<1> HIDE DEF t
<1>4. Units(t) = b - a + 1 + Cardinality(Astrals(t, 1, b - a + 1)) BY <1>3, UnitsOf
<1> DEFINE T == Astrals(t, 1, b - a + 1)
           S == Astrals(s, a, b)
           f == [i \in T |-> a + i - 1]
<1>5. \A i \in T : i \in 1 .. b - a + 1 /\ t[i] = "astral" BY DEF Astrals
<1>6. \A i \in T : a + i - 1 \in S BY <1>3, <1>5 DEF Astrals
<1>7. \A j \in S : j - a + 1 \in T /\ a + (j - a + 1) - 1 = j
  <2> TAKE j \in S
  <2>1. j \in a .. b /\ s[j] = "astral" BY DEF Astrals
  <2>2. j - a + 1 \in 1 .. b - a + 1 /\ a + (j - a + 1) - 1 = j BY <2>1
  <2>3. t[j - a + 1] = s[j] BY <1>3, <2>2
  <2> QED BY <2>1, <2>2, <2>3 DEF Astrals
<1>8. IsFiniteSet(T) BY AstralsFinite
<1>9. f \in [T -> S] BY <1>6
<1>10. \A i, j \in T : f[i] = f[j] => i = j BY <1>5
<1>11. \A j \in S : \E i \in T : f[i] = j BY <1>7
<1> HIDE DEF f, S, T
<1>12. f \in Bijection(T, S)
  BY <1>9, <1>10, <1>11, Zenon DEF Bijection, Injection, Surjection, IsInjective
<1>13. Cardinality(S) = Cardinality(T) BY <1>8, <1>12, FS_Bijection DEF ExistsBijection
<1> QED BY <1>3, <1>4, <1>13 DEF S, T, t

\* A part is shorter than the whole by at least what comes before it.
LEMMA PartIsShorter ==
  ASSUME NEW A, NEW s \in Seq(A), NEW a \in Nat, NEW b \in Nat,
         1 <= a, a <= b + 1, b <= Len(s)
  PROVE  Units(SubSeq(s, a, b)) + (a - 1) <= Units(s)
<1>1. Len(s) \in Nat BY LenProperties
<1>2. Astrals(s, a, b) \in SUBSET Astrals(s, 1, Len(s)) BY <1>1 DEF Astrals
<1>3. IsFiniteSet(Astrals(s, 1, Len(s))) /\ Cardinality(Astrals(s, 1, Len(s))) \in Nat
        /\ Cardinality(Astrals(s, a, b)) \in Nat
  BY <1>1, AstralsFinite
<1>4. Cardinality(Astrals(s, a, b)) <= Cardinality(Astrals(s, 1, Len(s)))
  BY <1>2, <1>3, FS_Subset
<1> QED BY <1>1, <1>3, <1>4, UnitsOf, UnitsOfPart

------------------------------------------------------------------------------
(* The matches.                                                               *)

Ends(s) == {j \in DOMAIN s : s[j] = "]" /\ Openings(s, j) # {}}

\* Match n.
Opens(s, n) == Matches(s)[n][1]
Closes(s, n) == Matches(s)[n][2]
Count(s) == Cardinality(Ends(s))

\* Matches lie in order, each from an opening to the next closing bracket.
LEMMA MatchesOf ==
  ASSUME NEW A, NEW s \in Seq(A)
  PROVE  /\ Count(s) \in Nat /\ Len(Matches(s)) = Count(s)
         /\ DOMAIN Matches(s) = 1 .. Count(s)
         /\ \A n \in 1 .. Count(s) :
              /\ Matches(s)[n] = <<Opens(s, n), Closes(s, n)>>
              /\ Opens(s, n) \in 1 .. Len(s) /\ Closes(s, n) \in 1 .. Len(s)
              /\ Opens(s, n) < Closes(s, n)
              /\ s[Opens(s, n)] = "[" /\ s[Closes(s, n)] = "]"
              /\ \A k \in Opens(s, n) .. Closes(s, n) - 1 : s[k] \notin {"]", "nl"}
         /\ \A m, n \in 1 .. Count(s) : m < n => Closes(s, m) < Opens(s, n)
<1> DEFINE ends == Ascending(Ends(s))
           c == Count(s)
<1>1. DOMAIN s = 1 .. Len(s) /\ Len(s) \in Nat BY LenProperties
<1>2. Ends(s) \in SUBSET (1 .. Len(s)) BY <1>1 DEF Ends
<1>3. /\ c \in Nat /\ ends \in [1 .. c -> Ends(s)]
      /\ \A j, k \in 1 .. c : j < k => ends[j] < ends[k]
  BY <1>1, <1>2, AscendingOf DEF Count
<1>4. Matches(s) = [n \in 1 .. c |-> <<Min(Openings(s, ends[n])), ends[n]>>]
  BY <1>3 DEF Matches, Ends
<1> HIDE DEF ends, c
<1>5. ASSUME NEW n \in 1 .. c
      PROVE  /\ ends[n] \in 1 .. Len(s) /\ s[ends[n]] = "]"
             /\ Min(Openings(s, ends[n])) \in 1 .. ends[n] - 1
             /\ s[Min(Openings(s, ends[n]))] = "["
             /\ \A k \in Min(Openings(s, ends[n])) .. ends[n] - 1 : s[k] \notin {"]", "nl"}
  <2>1. ends[n] \in Ends(s) BY <1>3
  <2>2. ends[n] \in 1 .. Len(s) /\ s[ends[n]] = "]" /\ Openings(s, ends[n]) # {}
    BY <1>2, <2>1 DEF Ends
  <2>3. Openings(s, ends[n]) \in SUBSET Nat BY <2>2 DEF Openings
  <2>4. Min(Openings(s, ends[n])) \in Openings(s, ends[n]) BY <2>2, <2>3, MinOf
  <2> QED BY <2>2, <2>4 DEF Openings
<1>6. Len(Matches(s)) = c /\ DOMAIN Matches(s) = 1 .. c
  <2>1. Matches(s) \in [1 .. c -> Nat \X Nat]
    <3>1. \A n \in 1 .. c : <<Min(Openings(s, ends[n])), ends[n]>> \in Nat \X Nat
      BY <1>1, <1>5
    <3> QED BY <1>4, <3>1
  <2> QED BY <1>3, <2>1, SeqOfFunction
<1>7. ASSUME NEW n \in 1 .. c
      PROVE  /\ Matches(s)[n] = <<Opens(s, n), Closes(s, n)>>
             /\ Opens(s, n) = Min(Openings(s, ends[n])) /\ Closes(s, n) = ends[n]
  BY <1>4 DEF Opens, Closes
<1>8. ASSUME NEW n \in 1 .. c
      PROVE  /\ Opens(s, n) \in 1 .. Len(s) /\ Closes(s, n) \in 1 .. Len(s)
             /\ Opens(s, n) < Closes(s, n)
             /\ s[Opens(s, n)] = "[" /\ s[Closes(s, n)] = "]"
             /\ \A k \in Opens(s, n) .. Closes(s, n) - 1 : s[k] \notin {"]", "nl"}
  <2>1. /\ Closes(s, n) \in 1 .. Len(s) /\ s[Closes(s, n)] = "]"
        /\ Opens(s, n) \in 1 .. Closes(s, n) - 1 /\ s[Opens(s, n)] = "["
        /\ \A k \in Opens(s, n) .. Closes(s, n) - 1 : s[k] \notin {"]", "nl"}
    BY <1>5, <1>7
  <2>2. Opens(s, n) \in 1 .. Len(s) /\ Opens(s, n) < Closes(s, n) BY <1>1, <2>1
  <2> QED BY <2>1, <2>2
<1>9. ASSUME NEW m \in 1 .. c, NEW n \in 1 .. c, m < n PROVE Closes(s, m) < Opens(s, n)
  <2>1. Closes(s, m) < Closes(s, n) BY <1>3, <1>7, <1>9
  <2>2. s[Closes(s, m)] = "]" /\ Closes(s, m) \in Nat /\ Closes(s, n) \in Nat /\ Opens(s, n) \in Nat BY <1>8
  <2>3. ~ (Opens(s, n) <= Closes(s, m))
    <3> SUFFICES ASSUME Opens(s, n) <= Closes(s, m) PROVE FALSE OBVIOUS
    <3>1. Closes(s, m) \in Opens(s, n) .. Closes(s, n) - 1 BY <2>1, <2>2
    <3> QED BY <1>8, <2>2, <3>1
  <2> QED BY <2>2, <2>3
<1> QED BY <1>3, <1>6, <1>7, <1>8, <1>9 DEF c

\* What is covered lies in one match.
LEMMA CoveredBy ==
  ASSUME NEW A, NEW s \in Seq(A), NEW i
  PROVE  Covered(ToSet(Matches(s)), i)
           <=> \E n \in 1 .. Count(s) : Opens(s, n) <= i /\ i <= Closes(s, n)
<1>1. ToSet(Matches(s)) = {Matches(s)[n] : n \in 1 .. Count(s)} BY MatchesOf DEF ToSet
<1> QED BY <1>1 DEF Covered, Opens, Closes

------------------------------------------------------------------------------
(* Reading.                                                                   *)

ReadOne(s, dialect, x, n) == ReadTag(x, s, Matches(s)[n], dialect)
IsReading(r, s, dialect, m) ==
  r = [n \in 0 .. m |-> IF n = 0 THEN Start ELSE ReadOne(s, dialect, r[n - 1], n)]

\* The recursion of Reading is one: there is such a function.
LEMMA ReadingExists ==
  ASSUME NEW s, NEW dialect, NEW m \in Nat
  PROVE  \E r : IsReading(r, s, dialect, m)
<1> DEFINE Bad == {k \in Nat : ~ \E r : IsReading(r, s, dialect, k)}
<1> SUFFICES ASSUME Bad # {} PROVE FALSE OBVIOUS
<1>1. PICK k \in Bad : \A j \in Bad : k <= j BY LeastNatural
<1>2. k \in Nat /\ ~ \E r : IsReading(r, s, dialect, k) OBVIOUS
<1>3. CASE k = 0
  <2> DEFINE r == [n \in 0 .. 0 |-> Start]
  <2>1. r = [n \in 0 .. 0 |-> IF n = 0 THEN Start ELSE ReadOne(s, dialect, r[n - 1], n)] OBVIOUS
  <2>2. IsReading(r, s, dialect, k) BY <1>3, <2>1 DEF IsReading
  <2> QED BY <1>2, <2>2
<1>4. CASE k # 0
  <2>1. k - 1 \in Nat /\ ~ (k <= k - 1) BY <1>2, <1>4
  <2>2. k - 1 \notin Bad BY <1>1, <2>1
  <2>3. PICK r : IsReading(r, s, dialect, k - 1) BY <2>1, <2>2
  <2> DEFINE q == [n \in 0 .. k |-> IF n = k THEN ReadOne(s, dialect, r[k - 1], k) ELSE r[n]]
  <2>4. ASSUME NEW n \in 0 .. k
        PROVE  q[n] = IF n = 0 THEN Start ELSE ReadOne(s, dialect, q[n - 1], n)
    <3>1. CASE n = k
      <4>1. q[k] = ReadOne(s, dialect, r[k - 1], k) BY <1>2
      <4>2. q[k - 1] = r[k - 1] BY <2>1, <1>2
      <4> QED BY <3>1, <4>1, <4>2, <1>4
    <3>2. CASE n # k
      <4>1. n \in 0 .. k - 1 BY <1>2, <3>2
      <4>2. q[n] = r[n] BY <3>2
      <4>3. r[n] = IF n = 0 THEN Start ELSE ReadOne(s, dialect, r[n - 1], n) BY <2>3, <4>1 DEF IsReading
      <4>4. n # 0 => q[n - 1] = r[n - 1] BY <1>2, <4>1
      <4> QED BY <4>2, <4>3, <4>4
    <3> QED BY <3>1, <3>2
  <2>5. q = [n \in 0 .. k |-> q[n]] OBVIOUS
  <2> HIDE DEF q
  <2>6. IsReading(q, s, dialect, k) BY <2>4, <2>5 DEF IsReading
  <2> QED BY <1>2, <2>6
<1> QED BY <1>3, <1>4

LEMMA ReadingOf ==
  ASSUME NEW A, NEW s \in Seq(A), NEW dialect
  PROVE  /\ Reading(s, dialect)[0] = Start
         /\ \A n \in 1 .. Count(s) :
              Reading(s, dialect)[n] = ReadTag(Reading(s, dialect)[n - 1], s, Matches(s)[n], dialect)
<1> DEFINE r == Reading(s, dialect)
<1>1. Count(s) \in Nat /\ Len(Matches(s)) = Count(s) BY MatchesOf
<1>2. \E q : IsReading(q, s, dialect, Count(s)) BY <1>1, ReadingExists
<1>3. r = CHOOSE q : IsReading(q, s, dialect, Count(s)) BY <1>1 DEF Reading, ReadOne, IsReading
<1>4. IsReading(r, s, dialect, Count(s)) BY <1>2, <1>3
<1> HIDE DEF r
<1>5. \A n \in 0 .. Count(s) : r[n] = IF n = 0 THEN Start ELSE ReadOne(s, dialect, r[n - 1], n)
  BY <1>4 DEF IsReading
<1>6. r[0] = Start BY <1>1, <1>5
<1>7. ASSUME NEW n \in 1 .. Count(s) PROVE r[n] = ReadOne(s, dialect, r[n - 1], n)
  <2>1. n \in 0 .. Count(s) /\ n # 0 BY <1>1
  <2> QED BY <1>5, <2>1
<1> QED BY <1>6, <1>7 DEF r, ReadOne

------------------------------------------------------------------------------
(* One text, one tag.                                                         *)

Piece == [tags : Seq(Tags), text : Seq(STRING)]
Issues == {"unknown-tag", "duplicate-tag", "long-event-segment", "long-expression-segment"}
Read == [segments : Seq(Piece), pending : Seq(Tags), issues : SUBSET Issues,
         count : Nat, cursor : Nat]

LEMMA TrimType == ASSUME NEW A, NEW s \in Seq(A) PROVE Trim(s) \in Seq(A)
  BY TrimOf

LEMMA LengthIssueType == ASSUME NEW tags, NEW text PROVE LengthIssue(tags, text) \in SUBSET {"long-event-segment", "long-expression-segment"}
  BY DEF LengthIssue

LEMMA AppendTextOf ==
  ASSUME NEW x \in Read, NEW raw \in Seq(STRING)
  PROVE  /\ AppendText(x, raw) \in Read
         /\ AppendText(x, raw).count = x.count /\ AppendText(x, raw).cursor = x.cursor
         /\ x.issues \in SUBSET AppendText(x, raw).issues
         /\ "unknown-tag" \in AppendText(x, raw).issues => "unknown-tag" \in x.issues
         /\ Trim(raw) = <<>> => AppendText(x, raw) = x
         /\ Trim(raw) # <<>> =>
              /\ AppendText(x, raw).pending = <<>>
              /\ AppendText(x, raw).segments
                   = Append(x.segments, [tags |-> x.pending, text |-> Trim(raw)])
<1> DEFINE t == Trim(raw)  y == AppendText(x, raw)
           g == [tags |-> x.pending, text |-> t]
           l == LengthIssue(x.pending, t)
<1>1. t \in Seq(STRING) BY TrimType
<1>2. l \in SUBSET {"long-event-segment", "long-expression-segment"} BY LengthIssueType
<1>3. CASE t = <<>>
  <2>1. y = x BY <1>3 DEF AppendText
  <2> QED BY <1>3, <2>1
<1>4. CASE t # <<>>
  <2>1. y = [x EXCEPT !.segments = Append(x.segments, g), !.issues = x.issues \cup l, !.pending = <<>>]
    BY <1>4 DEF AppendText
  <2>2. g \in Piece BY <1>1 DEF Read, Piece
  <2> HIDE DEF t, l, g, y
  <2>3. Append(x.segments, g) \in Seq(Piece) BY <2>2, AppendProperties DEF Read
  <2>4. x.issues \cup l \in SUBSET Issues BY <1>2 DEF Read, Issues
  <2>5. <<>> \in Seq(Tags) OBVIOUS
  <2>6. y \in Read /\ y.count = x.count /\ y.cursor = x.cursor /\ y.pending = <<>>
        /\ y.segments = Append(x.segments, g) /\ y.issues = x.issues \cup l
    BY <2>1, <2>3, <2>4, <2>5 DEF Read
  <2> QED BY <1>2, <1>4, <2>6 DEF t, y, g
<1> QED BY <1>3, <1>4

\* The reading y after match m, of the tag name, and b before it.
AfterTag(s, dialect, m, b, y, name) ==
  /\ b \in Read /\ y \in Read
  /\ y.cursor = m[2] + 1 /\ y.segments = b.segments
  /\ ~ Named(s, m, dialect) =>
       /\ y.issues = b.issues \cup {"unknown-tag"}
       /\ y.pending = <<>> /\ y.count = b.count
  /\ Named(s, m, dialect) =>
       /\ name \in Known(dialect) /\ name \in Tags
       /\ y.count = b.count + 1
       /\ b.issues \in SUBSET y.issues
       /\ "unknown-tag" \in y.issues => "unknown-tag" \in b.issues
       /\ y.pending = IF name \in ToSet(b.pending) THEN b.pending
                      ELSE Append(b.pending, name)

LEMMA ReadTagOf ==
  ASSUME NEW s \in Seq(STRING), NEW dialect \in Dialects, NEW x \in Read,
         NEW f \in 1 .. Len(s), NEW e \in 1 .. Len(s), f < e, x.cursor \in 1 .. f,
         NEW m, m[1] = f, m[2] = e,
         NEW b, b = AppendText(x, SubSeq(s, x.cursor, f - 1)),
         NEW y, y = ReadTag(x, s, m, dialect),
         NEW name, name = NameOf(s, m)[1]
  PROVE  AfterTag(s, dialect, m, b, y, name)
<1> DEFINE next == [b EXCEPT !.cursor = e + 1]
<1>1. Len(s) \in Nat /\ f \in Nat /\ e \in Nat /\ e + 1 \in Nat /\ x.cursor \in Nat BY LenProperties
<1>2. SubSeq(s, x.cursor, f - 1) \in Seq(STRING) BY <1>1, UnitsOfPart
<1>3. b \in Read BY <1>2, AppendTextOf
<1>4. y = IF ~ Named(s, m, dialect)
          THEN [next EXCEPT !.issues = next.issues \cup {"unknown-tag"}, !.pending = <<>>]
          ELSE IF name \in ToSet(next.pending)
          THEN [next EXCEPT !.issues = next.issues \cup {"duplicate-tag"}, !.count = next.count + 1]
          ELSE [next EXCEPT !.pending = Append(next.pending, name), !.count = next.count + 1]
  BY DEF ReadTag, Named, NameOf
<1>5. ASSUME Named(s, m, dialect) PROVE name \in Known(dialect) /\ name \in Tags
  BY <1>5 DEF Named, Known, Tags
<1>6. next \in Read /\ next.pending = b.pending /\ next.issues = b.issues /\ next.count = b.count
      /\ next.segments = b.segments /\ next.cursor = e + 1
  BY <1>1, <1>3 DEF Read
<1> HIDE DEF next
<1>7. CASE ~ Named(s, m, dialect)
  <2>1. y = [next EXCEPT !.issues = next.issues \cup {"unknown-tag"}, !.pending = <<>>] BY <1>4, <1>7
  <2>2. <<>> \in Seq(Tags) /\ next.issues \cup {"unknown-tag"} \in SUBSET Issues BY <1>6 DEF Read, Issues
  <2>3. y \in Read /\ y.cursor = e + 1 /\ y.segments = b.segments
        /\ y.issues = b.issues \cup {"unknown-tag"} /\ y.pending = <<>> /\ y.count = b.count
    BY <1>6, <2>1, <2>2 DEF Read
  <2> QED BY <1>2, <1>3, <1>7, <2>3 DEF AfterTag
<1>8. CASE Named(s, m, dialect) /\ name \in ToSet(b.pending)
  <2>1. y = [next EXCEPT !.issues = next.issues \cup {"duplicate-tag"}, !.count = next.count + 1]
    BY <1>4, <1>6, <1>8
  <2>2. next.issues \cup {"duplicate-tag"} \in SUBSET Issues /\ next.count + 1 \in Nat BY <1>6 DEF Read, Issues
  <2>3. y \in Read /\ y.cursor = e + 1 /\ y.segments = b.segments
        /\ y.issues = b.issues \cup {"duplicate-tag"} /\ y.pending = b.pending /\ y.count = b.count + 1
    BY <1>6, <2>1, <2>2 DEF Read
  <2> QED BY <1>2, <1>3, <1>5, <1>8, <2>3 DEF AfterTag
<1>9. CASE Named(s, m, dialect) /\ name \notin ToSet(b.pending)
  <2>1. y = [next EXCEPT !.pending = Append(next.pending, name), !.count = next.count + 1]
    BY <1>4, <1>6, <1>9
  <2>2. next.count + 1 \in Nat BY <1>6 DEF Read
  <2>3. next.pending \in Seq(Tags) BY <1>6 DEF Read
  <2>4. name \in Tags BY <1>5, <1>9
  <2>5. Append(next.pending, name) \in Seq(Tags) BY <2>3, <2>4, AppendProperties
  <2>6. y \in Read /\ y.cursor = e + 1 /\ y.segments = b.segments
        /\ y.issues = b.issues /\ y.pending = Append(b.pending, name) /\ y.count = b.count + 1
    BY <1>6, <2>1, <2>2, <2>5 DEF Read
  <2> QED BY <1>2, <1>3, <1>5, <1>9, <2>6 DEF AfterTag
<1> QED BY <1>7, <1>8, <1>9

------------------------------------------------------------------------------
(* The text between two matches.                                              *)

Free(s) == {k \in DOMAIN s : ~ Covered(ToSet(Matches(s)), k)}
GapFrom(s, n) == IF n = 0 THEN 1 ELSE Closes(s, n) + 1
GapTo(s, n) == IF n = Count(s) THEN Len(s) ELSE Opens(s, n + 1) - 1
Gap(s, n) == SubSeq(s, GapFrom(s, n), GapTo(s, n))

LEMMA GapOf ==
  ASSUME NEW A, NEW s \in Seq(A), NEW n \in 0 .. Count(s)
  PROVE  /\ GapFrom(s, n) \in Nat /\ GapTo(s, n) \in Nat
         /\ 1 <= GapFrom(s, n) /\ GapFrom(s, n) <= GapTo(s, n) + 1 /\ GapTo(s, n) <= Len(s)
         /\ \A m \in 1 .. n : Closes(s, m) < GapFrom(s, n)
         /\ \A m \in n + 1 .. Count(s) : GapTo(s, n) < Opens(s, m)
         /\ \A k \in GapFrom(s, n) .. GapTo(s, n) : k \in Free(s)
         /\ Gap(s, n) \in Seq(A)
<1>1. Count(s) \in Nat /\ Len(s) \in Nat /\ DOMAIN s = 1 .. Len(s) BY LenProperties, MatchesOf
<1>2. \A m \in 1 .. Count(s) : /\ Opens(s, m) \in 1 .. Len(s) /\ Closes(s, m) \in 1 .. Len(s)
                               /\ Opens(s, m) < Closes(s, m)
  BY MatchesOf
<1>3. \A l, m \in 1 .. Count(s) : l < m => Closes(s, l) < Opens(s, m) BY MatchesOf
<1>4. GapFrom(s, n) \in Nat /\ 1 <= GapFrom(s, n)
  <2>1. CASE n = 0 BY <2>1 DEF GapFrom
  <2>2. CASE n # 0
    <3>1. n \in 1 .. Count(s) BY <1>1, <2>2
    <3>2. Closes(s, n) \in Nat BY <1>1, <1>2, <3>1
    <3>3. GapFrom(s, n) = Closes(s, n) + 1 BY <2>2 DEF GapFrom
    <3> QED BY <3>2, <3>3
  <2> QED BY <2>1, <2>2
<1>5. GapTo(s, n) \in Nat /\ GapTo(s, n) <= Len(s)
  <2>1. CASE n = Count(s) BY <1>1, <2>1 DEF GapTo
  <2>2. CASE n # Count(s)
    <3>1. n + 1 \in 1 .. Count(s) BY <1>1, <2>2
    <3>2. Opens(s, n + 1) \in 1 .. Len(s) BY <1>2, <3>1
    <3>3. GapTo(s, n) = Opens(s, n + 1) - 1 BY <2>2 DEF GapTo
    <3> QED BY <1>1, <3>2, <3>3
  <2> QED BY <2>1, <2>2
<1>6. GapFrom(s, n) <= GapTo(s, n) + 1
  <2>1. CASE n = 0 BY <1>1, <1>5, <2>1 DEF GapFrom
  <2>2. CASE n # 0 /\ n = Count(s)
    <3>1. Closes(s, n) \in 1 .. Len(s) BY <1>1, <1>2, <2>2
    <3> QED BY <1>1, <2>2, <3>1 DEF GapFrom, GapTo
  <2>3. CASE n # 0 /\ n # Count(s)
    <3>1. n \in 1 .. Count(s) /\ n + 1 \in 1 .. Count(s) /\ n < n + 1 BY <1>1, <2>3
    <3>2. Closes(s, n) < Opens(s, n + 1) BY <1>3, <3>1
    <3>3. Closes(s, n) \in Nat /\ Opens(s, n + 1) \in Nat BY <1>2, <3>1
    <3> QED BY <2>3, <3>2, <3>3 DEF GapFrom, GapTo
  <2> QED BY <2>1, <2>2, <2>3
<1>7. ASSUME NEW m \in 1 .. n PROVE Closes(s, m) < GapFrom(s, n)
  <2>1. n \in 1 .. Count(s) /\ m \in 1 .. Count(s) /\ n # 0 BY <1>1
  <2>2. m < n => Closes(s, m) < Opens(s, n) BY <1>3, <2>1
  <2>3. Closes(s, m) \in Nat /\ Opens(s, n) \in Nat /\ Closes(s, n) \in Nat /\ Opens(s, n) < Closes(s, n) BY <1>2, <2>1
  <2>4. m < n \/ m = n OBVIOUS
  <2> QED BY <2>1, <2>2, <2>3, <2>4 DEF GapFrom
<1>8. ASSUME NEW m \in n + 1 .. Count(s) PROVE GapTo(s, n) < Opens(s, m)
  <2>1. n + 1 \in 1 .. Count(s) /\ m \in 1 .. Count(s) /\ n # Count(s) BY <1>1
  <2>2. n + 1 < m => Closes(s, n + 1) < Opens(s, m) BY <1>3, <2>1
  <2>3. /\ Opens(s, m) \in Nat /\ Opens(s, n + 1) \in Nat /\ Closes(s, n + 1) \in Nat
        /\ Opens(s, n + 1) < Closes(s, n + 1)
    BY <1>2, <2>1
  <2>4. n + 1 < m \/ n + 1 = m BY <2>1
  <2> QED BY <2>1, <2>2, <2>3, <2>4 DEF GapTo
<1>9. ASSUME NEW k \in GapFrom(s, n) .. GapTo(s, n) PROVE k \in Free(s)
  <2>1. k \in DOMAIN s /\ k \in Nat BY <1>1, <1>4, <1>5
  <2>2. ASSUME NEW m \in 1 .. Count(s), Opens(s, m) <= k, k <= Closes(s, m) PROVE FALSE
    <3>1. Opens(s, m) \in Nat /\ Closes(s, m) \in Nat /\ m \in Nat /\ n \in Nat BY <1>2
    <3>2. CASE m <= n
      <4>1. m \in 1 .. n BY <3>1, <3>2
      <4> QED BY <1>4, <1>7, <2>1, <2>2, <3>1, <4>1
    <3>3. CASE n < m
      <4>1. m \in n + 1 .. Count(s) BY <3>1, <3>3
      <4> QED BY <1>5, <1>8, <2>1, <2>2, <3>1, <4>1
    <3> QED BY <3>1, <3>2, <3>3
  <2> QED BY <2>1, <2>2, CoveredBy DEF Free
<1>10. Gap(s, n) \in Seq(A) BY <1>4, <1>5, <1>6, UnitsOfPart DEF Gap
<1> QED BY <1>4, <1>5, <1>6, <1>7, <1>8, <1>9, <1>10

\* A text all of whose symbols stand outside the matches.
FromFree(s, t) == \A j \in DOMAIN t : \E k \in Free(s) : t[j] = s[k]

LEMMA GapText ==
  ASSUME NEW A, NEW s \in Seq(A), NEW n \in 0 .. Count(s)
  PROVE  /\ FromFree(s, Trim(Gap(s, n)))
         /\ Units(Trim(Gap(s, n))) + (GapFrom(s, n) - 1) <= Units(s)
<1> DEFINE a == GapFrom(s, n)  b == GapTo(s, n)  g == Gap(s, n)  t == Trim(g)
<1>1. /\ a \in Nat /\ b \in Nat /\ 1 <= a /\ a <= b + 1 /\ b <= Len(s)
      /\ \A k \in a .. b : k \in Free(s)
      /\ g \in Seq(A)
  BY GapOf
<1>2. /\ Len(g) = b - a + 1 /\ \A i \in 1 .. b - a + 1 : g[i] = s[a + i - 1]
      /\ Units(g) + (a - 1) <= Units(s)
  BY <1>1, UnitsOfPart, PartIsShorter DEF Gap
<1>3. t \in Seq(A) BY <1>1, TrimType
<1>4. Units(t) \in Nat /\ Units(g) \in Nat /\ Units(s) \in Nat BY <1>1, <1>3, UnitsOf
<1>5. CASE Solid(g) = {}
  <2>1. t = <<>> BY <1>1, <1>5, TrimOf
  <2>2. Units(<<>>) = 0
    <3>1. {i \in DOMAIN <<>> : <<>>[i] = "astral"} = {} OBVIOUS
    <3> QED BY <3>1, FS_EmptySet DEF Units
  <2>3. FromFree(s, t) BY <2>1 DEF FromFree
  <2> HIDE DEF t, g, a
  <2>4. Units(t) <= Units(g) BY <1>4, <2>1, <2>2
  <2> QED BY <1>1, <1>2, <1>4, <2>3, <2>4 DEF t, g, a
<1>6. CASE Solid(g) # {}
  <2>1. PICK c, d \in 1 .. Len(g) :
          /\ c <= d /\ t = SubSeq(g, c, d) /\ Len(t) = d - c + 1
          /\ \A i \in 1 .. d - c + 1 : t[i] = g[c + i - 1]
    BY <1>1, <1>6, TrimOf
  <2>2. Len(g) \in Nat BY <1>1, LenProperties
  <2>3. c \in Nat /\ d \in Nat /\ 1 <= c /\ c <= d + 1 /\ d <= Len(g) BY <2>1, <2>2
  <2>4. Units(t) + (c - 1) <= Units(g) BY <1>1, <2>1, <2>3, PartIsShorter
  <2>5. DOMAIN t = 1 .. d - c + 1 BY <1>3, <2>1, LenProperties
  <2> HIDE DEF t, g, a, b
  <2>6. FromFree(s, t)
    <3> SUFFICES ASSUME NEW j \in DOMAIN t PROVE \E k \in Free(s) : t[j] = s[k] BY DEF FromFree
    <3>1. j \in 1 .. d - c + 1 BY <2>5
    <3>2. c + j - 1 \in 1 .. b - a + 1 BY <1>1, <1>2, <2>3, <3>1
    <3>3. t[j] = s[a + (c + j - 1) - 1] BY <1>2, <2>1, <3>1, <3>2
    <3>4. a + (c + j - 1) - 1 \in a .. b BY <1>1, <2>3, <3>1, <3>2
    <3> QED BY <1>1, <3>3, <3>4
  <2>7. Units(t) + (a - 1) <= Units(s) BY <1>1, <1>2, <1>4, <2>3, <2>4
  <2> QED BY <2>6, <2>7 DEF t, g, a
<1> QED BY <1>5, <1>6

------------------------------------------------------------------------------
(* The invariant of the reading.                                              *)

PieceOk(s, g) ==
  /\ g.text # <<>> /\ FromFree(s, g.text)
  /\ IsInjective(g.tags)
  /\ Units(g.text) + 3 * Len(g.tags) <= Units(s)

ReadInv(s, dialect, x, n) ==
  /\ x \in Read /\ x.cursor = GapFrom(s, n)
  /\ "unknown-tag" \notin x.issues =>
       x.count = n /\ \A m \in 1 .. n : Named(s, Matches(s)[m], dialect)
  /\ "unknown-tag" \in x.issues => \E m \in 1 .. n : ~ Named(s, Matches(s)[m], dialect)
  /\ IsInjective(x.pending) /\ 3 * Len(x.pending) <= x.cursor - 1
  /\ \A k \in 1 .. Len(x.segments) : PieceOk(s, x.segments[k])
  /\ n = 0 \/ "unknown-tag" \in x.issues \/ x.pending # <<>> \/ x.segments # <<>>

LEMMA AppendKeeps ==
  ASSUME NEW s \in Seq(STRING), NEW dialect, NEW n \in 0 .. Count(s), NEW x,
         ReadInv(s, dialect, x, n)
  PROVE  ReadInv(s, dialect, AppendText(x, Gap(s, n)), n)
<1> DEFINE y == AppendText(x, Gap(s, n))  t == Trim(Gap(s, n))
           g == [tags |-> x.pending, text |-> t]
<1>0. x \in Read BY DEF ReadInv
<1>1. Gap(s, n) \in Seq(STRING) BY GapOf
<1>2. t \in Seq(STRING) BY <1>1, TrimType
<1>3. /\ y \in Read /\ y.count = x.count /\ y.cursor = x.cursor
      /\ "unknown-tag" \in y.issues <=> "unknown-tag" \in x.issues
      /\ t = <<>> => y = x
      /\ t # <<>> => y.pending = <<>> /\ y.segments = Append(x.segments, g)
  BY <1>0, <1>1, AppendTextOf
<1>4. FromFree(s, t) /\ Units(t) + (GapFrom(s, n) - 1) <= Units(s) BY GapText
<1> HIDE DEF y
<1>5. CASE t = <<>>
  <2>1. y = x BY <1>3, <1>5
  <2> QED BY <2>1 DEF y
<1>6. CASE t # <<>>
  <2>1. x.segments \in Seq(Piece) /\ x.pending \in Seq(Tags) /\ x.cursor \in Nat BY <1>0 DEF Read
  <2>2. g \in Piece /\ g.tags = x.pending /\ g.text = t BY <1>2, <2>1 DEF Piece
  <2> HIDE DEF g, t
  <2>3. PieceOk(s, g)
    <3>1. Units(t) \in Nat /\ Units(s) \in Nat /\ Len(x.pending) \in Nat
      BY <1>2, <2>1, UnitsOf, LenProperties
    <3>2. 3 * Len(x.pending) <= x.cursor - 1 /\ x.cursor = GapFrom(s, n) BY DEF ReadInv
    <3>3. Units(t) + 3 * Len(x.pending) <= Units(s) BY <1>4, <2>1, <3>1, <3>2
    <3>4. IsInjective(x.pending) BY DEF ReadInv
    <3> QED BY <1>4, <1>6, <2>2, <3>3, <3>4 DEF PieceOk
  <2>4. /\ Len(x.segments) \in Nat /\ Len(y.segments) = Len(x.segments) + 1
        /\ \A k \in 1 .. Len(x.segments) : y.segments[k] = x.segments[k]
        /\ y.segments[Len(x.segments) + 1] = g
    BY <1>3, <1>6, <2>1, <2>2, AppendProperties, LenProperties
  <2>5. \A k \in 1 .. Len(y.segments) : PieceOk(s, y.segments[k])
    <3> TAKE k \in 1 .. Len(y.segments)
    <3>1. k \in 1 .. Len(x.segments) \/ k = Len(x.segments) + 1 BY <2>4
    <3>2. \A i \in 1 .. Len(x.segments) : PieceOk(s, x.segments[i]) BY DEF ReadInv
    <3> QED BY <2>3, <2>4, <3>1, <3>2
  <2>6. y.segments # <<>>
    <3>1. Len(<<>>) = 0 OBVIOUS
    <3> QED BY <2>4, <3>1
  <2>7. y.pending = <<>> BY <1>3, <1>6
  <2>8. IsInjective(<<>>) /\ Len(<<>>) = 0 BY DEF IsInjective
  <2>9. 3 * Len(y.pending) <= y.cursor - 1 /\ y.cursor = GapFrom(s, n)
    <3>1. y.cursor = GapFrom(s, n) BY <1>3 DEF ReadInv
    <3>2. GapFrom(s, n) \in Nat /\ 1 <= GapFrom(s, n) BY GapOf
    <3> QED BY <2>7, <2>8, <3>1, <3>2
  <2>10. /\ "unknown-tag" \notin y.issues =>
              y.count = n /\ \A m \in 1 .. n : Named(s, Matches(s)[m], dialect)
         /\ "unknown-tag" \in y.issues => \E m \in 1 .. n : ~ Named(s, Matches(s)[m], dialect)
    BY <1>3 DEF ReadInv
  <2>11. IsInjective(y.pending) BY <2>7, <2>8
  <2>12. ReadInv(s, dialect, y, n) BY <1>3, <2>5, <2>6, <2>9, <2>10, <2>11 DEF ReadInv
  <2> QED BY <2>12 DEF y
<1> QED BY <1>5, <1>6

LEMMA NamedIsLong ==
  ASSUME NEW s \in Seq(STRING), NEW dialect, NEW n \in 1 .. Count(s),
         Named(s, Matches(s)[n], dialect)
  PROVE  Opens(s, n) + 2 <= Closes(s, n)
<1>1. /\ Opens(s, n) \in 1 .. Len(s) /\ Closes(s, n) \in 1 .. Len(s) /\ Opens(s, n) < Closes(s, n)
      /\ Len(s) \in Nat
  BY MatchesOf, LenProperties
<1> DEFINE raw == SubSeq(s, Opens(s, n) + 1, Closes(s, n) - 1)
<1>2. Trim(raw) # <<>>
  <2>1. PICK tag : NameOf(s, Matches(s)[n]) = <<tag>> BY DEF Named
  <2>2. NameOf(s, Matches(s)[n]) = Trim(raw) BY DEF NameOf, Opens, Closes
  <2>3. <<tag>> # <<>> OBVIOUS
  <2> QED BY <2>1, <2>2, <2>3
<1>3. raw \in Seq(STRING) /\ Len(raw) = Closes(s, n) - 1 - (Opens(s, n) + 1) + 1
  <2> DEFINE a == Opens(s, n) + 1  b == Closes(s, n) - 1
  <2>1. a \in Nat /\ b \in Nat /\ 1 <= a /\ a <= b + 1 /\ b <= Len(s)
    <3> DEFINE f == Opens(s, n)  e == Closes(s, n)  l == Len(s)
    <3>1. f \in 1 .. l /\ e \in 1 .. l /\ f < e /\ l \in Nat BY <1>1
    <3> HIDE DEF f, e, l
    <3>2. f + 1 \in Nat /\ e - 1 \in Nat /\ 1 <= f + 1 /\ f + 1 <= e - 1 + 1 /\ e - 1 <= l BY <3>1
    <3> QED BY <3>2 DEF f, e, l
  <2> HIDE DEF a, b
  <2>2. SubSeq(s, a, b) \in Seq(STRING) /\ Len(SubSeq(s, a, b)) = b - a + 1 BY <2>1, UnitsOfPart
  <2> QED BY <2>2 DEF a, b
<1> HIDE DEF raw
<1>4. Solid(raw) # {} BY <1>2, <1>3, TrimOf
<1>5. DOMAIN raw = 1 .. Len(raw) BY <1>3, LenProperties
<1>6. PICK i \in 1 .. Len(raw) : TRUE BY <1>4, <1>5 DEF Solid
<1> QED BY <1>1, <1>3, <1>6

LEMMA AppendedToSet ==
  ASSUME NEW A, NEW p \in Seq(A), NEW v \in A, NEW q, q = Append(p, v)
  PROVE  ToSet(q) = ToSet(p) \cup {v}
<1>1. /\ q \in Seq(A) /\ Len(q) = Len(p) + 1 /\ Len(p) \in Nat
      /\ \A i \in 1 .. Len(p) : q[i] = p[i]
  BY AppendProperties, LenProperties
<1>2. q[Len(p) + 1] = v BY AppendProperties
<1>3. DOMAIN p = 1 .. Len(p) /\ DOMAIN q = 1 .. Len(p) + 1 BY <1>1, LenProperties
<1>4. 1 .. Len(p) + 1 = (1 .. Len(p)) \cup {Len(p) + 1} BY <1>1
<1>5. ToSet(q) = {q[i] : i \in 1 .. Len(p) + 1} /\ ToSet(p) = {p[i] : i \in 1 .. Len(p)}
  BY <1>3 DEF ToSet
<1> QED BY <1>1, <1>2, <1>4, <1>5

LEMMA OneTagMore ==
  ASSUME NEW A, NEW p \in Seq(A), NEW v \in A, NEW q, q = Append(p, v),
         IsInjective(p), v \notin ToSet(p)
  PROVE  IsInjective(q)
<1>1. /\ q \in Seq(A) /\ Len(q) = Len(p) + 1 /\ Len(p) \in Nat
      /\ \A i \in 1 .. Len(p) : q[i] = p[i]
  BY AppendProperties, LenProperties
<1>2. q[Len(p) + 1] = v BY AppendProperties
<1>3. DOMAIN p = 1 .. Len(p) /\ DOMAIN q = 1 .. Len(p) + 1 BY <1>1, LenProperties
<1>4. \A i \in 1 .. Len(p) : p[i] # v BY <1>3 DEF ToSet
<1>5. \A i \in 1 .. Len(p) + 1 : i \in 1 .. Len(p) \/ i = Len(p) + 1 BY <1>1
<1> QED BY <1>1, <1>2, <1>3, <1>4, <1>5 DEF IsInjective

\* What match n does to a reading.
LEMMA TagOf ==
  ASSUME NEW s \in Seq(STRING), NEW dialect \in Dialects, NEW n \in 1 .. Count(s),
         NEW x \in Read, x.cursor = GapFrom(s, n - 1)
  PROVE  AfterTag(s, dialect, Matches(s)[n], AppendText(x, Gap(s, n - 1)),
                  ReadOne(s, dialect, x, n), NameOf(s, Matches(s)[n])[1])
<1> DEFINE f == Opens(s, n)  e == Closes(s, n)  m == Matches(s)[n]
           b == AppendText(x, Gap(s, n - 1))  y == ReadOne(s, dialect, x, n)
           name == NameOf(s, m)[1]
<1>1. Count(s) \in Nat /\ n - 1 \in 0 .. Count(s) /\ n - 1 # Count(s) /\ n # 0 /\ n \in Nat
  BY MatchesOf
<1>2. f \in 1 .. Len(s) /\ e \in 1 .. Len(s) /\ f < e /\ m = <<f, e>> /\ Len(s) \in Nat
  BY MatchesOf, LenProperties
<1>3. GapTo(s, n - 1) = f - 1 /\ x.cursor \in 1 .. f
  <2>1. GapTo(s, n - 1) = f - 1 BY <1>1 DEF GapTo
  <2>2. GapFrom(s, n - 1) \in Nat /\ 1 <= GapFrom(s, n - 1) /\ GapFrom(s, n - 1) <= (f - 1) + 1
    BY <1>1, <2>1, GapOf
  <2> QED BY <1>2, <2>1, <2>2
<1>4. b = AppendText(x, SubSeq(s, x.cursor, f - 1)) BY <1>3 DEF Gap
<1>5. y = ReadTag(x, s, m, dialect) BY DEF ReadOne
<1>6. name = NameOf(s, m)[1] /\ m[1] = f /\ m[2] = e BY <1>2
<1> HIDE DEF f, e, b, y, name, m
<1>7. AfterTag(s, dialect, m, b, y, name) BY <1>2, <1>3, <1>4, <1>5, <1>6, ReadTagOf
<1> QED BY <1>7 DEF m, b, y, name

\* One match more.
LEMMA TagKeeps ==
  ASSUME NEW s \in Seq(STRING), NEW dialect \in Dialects, NEW n \in 1 .. Count(s), NEW x,
         ReadInv(s, dialect, x, n - 1)
  PROVE  ReadInv(s, dialect, ReadOne(s, dialect, x, n), n)
<1> DEFINE f == Opens(s, n)  e == Closes(s, n)  m == Matches(s)[n]
           b == AppendText(x, Gap(s, n - 1))  y == ReadOne(s, dialect, x, n)
           name == NameOf(s, m)[1]
<1>1. Count(s) \in Nat /\ n - 1 \in 0 .. Count(s) /\ n # 0 /\ n \in Nat BY MatchesOf
<1>2. f \in 1 .. Len(s) /\ e \in 1 .. Len(s) /\ f < e /\ m = <<f, e>> /\ Len(s) \in Nat
  BY MatchesOf, LenProperties
<1>3. x \in Read /\ x.cursor = GapFrom(s, n - 1) BY DEF ReadInv
<1>4. ReadInv(s, dialect, b, n - 1) BY <1>1, AppendKeeps
<1>6. AfterTag(s, dialect, m, b, y, name) BY <1>3, TagOf
<1>7. m[1] = f /\ m[2] = e BY <1>2
<1> HIDE DEF f, e, b, y, name, m
<1>8. /\ b \in Read /\ y \in Read
      /\ y.cursor = e + 1 /\ y.segments = b.segments
      /\ ~ Named(s, m, dialect) =>
           /\ y.issues = b.issues \cup {"unknown-tag"}
           /\ y.pending = <<>> /\ y.count = b.count
      /\ Named(s, m, dialect) =>
           /\ name \in Tags
           /\ y.count = b.count + 1
           /\ b.issues \in SUBSET y.issues
           /\ "unknown-tag" \in y.issues => "unknown-tag" \in b.issues
           /\ y.pending = IF name \in ToSet(b.pending) THEN b.pending
                          ELSE Append(b.pending, name)
  BY <1>6, <1>7 DEF AfterTag
<1>9. y.cursor = GapFrom(s, n) BY <1>1, <1>8 DEF GapFrom, e
<1>10. \A k \in 1 .. Len(y.segments) : PieceOk(s, y.segments[k]) BY <1>4, <1>8 DEF ReadInv
<1>11. b.cursor \in Nat /\ b.cursor <= f
  <2>1. b.cursor = GapFrom(s, n - 1) BY <1>4 DEF ReadInv
  <2>2. GapTo(s, n - 1) = f - 1 BY <1>1, MatchesOf DEF GapTo, f
  <2>3. GapFrom(s, n - 1) \in Nat /\ GapFrom(s, n - 1) <= (f - 1) + 1 BY <1>1, <2>2, GapOf
  <2> QED BY <1>2, <2>1, <2>3
<1>12. IsInjective(<<>>) /\ Len(<<>>) = 0 BY DEF IsInjective
<1>13. CASE ~ Named(s, m, dialect)
  <2>1. "unknown-tag" \in y.issues /\ y.pending = <<>> BY <1>8, <1>13
  <2>2. 3 * Len(y.pending) <= y.cursor - 1 BY <1>2, <1>8, <1>12, <2>1
  <2>3. n \in 1 .. n /\ ~ Named(s, Matches(s)[n], dialect) BY <1>1, <1>13 DEF m
  <2>4. ReadInv(s, dialect, y, n) BY <1>8, <1>9, <1>10, <1>12, <2>1, <2>2, <2>3 DEF ReadInv
  <2> QED BY <2>4 DEF y
<1>14. CASE Named(s, m, dialect)
  <2>1. f + 2 <= e BY <1>14, NamedIsLong DEF f, e, m
  <2>2. b.pending \in Seq(Tags) /\ name \in Tags /\ b.count \in Nat
    BY <1>8, <1>14 DEF Read
  <2>3. IsInjective(b.pending) /\ 3 * Len(b.pending) <= b.cursor - 1 /\ Len(b.pending) \in Nat
    BY <1>4, <2>2, LenProperties DEF ReadInv
  <2>4. IsInjective(y.pending) /\ Len(y.pending) \in Nat /\ Len(y.pending) <= Len(b.pending) + 1
        /\ y.pending # <<>>
    <3>1. CASE name \in ToSet(b.pending)
      <4>1. y.pending = b.pending BY <1>8, <1>14, <3>1
      <4>2. b.pending # <<>> BY <3>1 DEF ToSet
      <4> QED BY <2>3, <4>1, <4>2
    <3>2. CASE name \notin ToSet(b.pending)
      <4>1. y.pending = Append(b.pending, name) BY <1>8, <1>14, <3>2
      <4>2. IsInjective(y.pending) BY <2>2, <2>3, <3>2, <4>1, OneTagMore
      <4>3. Len(y.pending) = Len(b.pending) + 1 BY <2>2, <4>1, AppendProperties
      <4> QED BY <1>12, <2>3, <4>2, <4>3
    <3> QED BY <3>1, <3>2
  <2>5. 3 * Len(y.pending) <= y.cursor - 1 BY <1>2, <1>8, <1>11, <2>1, <2>3, <2>4
  <2>6. ASSUME "unknown-tag" \notin y.issues
        PROVE  y.count = n /\ \A i \in 1 .. n : Named(s, Matches(s)[i], dialect)
    <3>1. "unknown-tag" \notin b.issues BY <1>8, <1>14, <2>6
    <3>2. b.count = n - 1 /\ \A i \in 1 .. n - 1 : Named(s, Matches(s)[i], dialect)
      BY <1>4, <3>1 DEF ReadInv
    <3>3. y.count = n BY <1>1, <1>8, <1>14, <3>2
    <3>4. \A i \in 1 .. n : i \in 1 .. n - 1 \/ i = n BY <1>1
    <3> QED BY <1>14, <3>2, <3>3, <3>4 DEF m
  <2>7. ASSUME "unknown-tag" \in y.issues PROVE \E i \in 1 .. n : ~ Named(s, Matches(s)[i], dialect)
    <3>1. "unknown-tag" \in b.issues BY <1>8, <1>14, <2>7
    <3>2. PICK i \in 1 .. n - 1 : ~ Named(s, Matches(s)[i], dialect) BY <1>4, <3>1 DEF ReadInv
    <3>3. i \in 1 .. n BY <1>1
    <3> QED BY <3>2, <3>3
  <2>8. ReadInv(s, dialect, y, n) BY <1>8, <1>9, <1>10, <2>4, <2>5, <2>6, <2>7 DEF ReadInv
  <2> QED BY <2>8 DEF y
<1> QED BY <1>13, <1>14

LEMMA StartKeeps ==
  ASSUME NEW s \in Seq(STRING), NEW dialect
  PROVE  ReadInv(s, dialect, Start, 0)
<1>1. /\ Start.segments = <<>> /\ Start.pending = <<>> /\ Start.issues = {}
      /\ Start.count = 0 /\ Start.cursor = 1
  BY DEF Start
<1>2. Start \in Read BY DEF Start, Read
<1>3. IsInjective(<<>>) /\ Len(<<>>) = 0 BY DEF IsInjective
<1>4. 1 .. 0 = {} OBVIOUS
<1> QED BY <1>1, <1>2, <1>3, <1>4 DEF ReadInv, GapFrom

LEMMA ReadingKeeps ==
  ASSUME NEW s \in Seq(STRING), NEW dialect \in Dialects
  PROVE  \A n \in 0 .. Count(s) : ReadInv(s, dialect, Reading(s, dialect)[n], n)
<1> DEFINE r == Reading(s, dialect)
           Bad == {n \in 0 .. Count(s) : ~ ReadInv(s, dialect, r[n], n)}
<1> SUFFICES ASSUME Bad # {} PROVE FALSE OBVIOUS
<1>1. Count(s) \in Nat BY MatchesOf
<1>2. r[0] = Start /\ \A n \in 1 .. Count(s) : r[n] = ReadOne(s, dialect, r[n - 1], n)
  BY ReadingOf DEF ReadOne
<1> HIDE DEF r
<1>3. Bad \in SUBSET Nat BY <1>1
<1>4. PICK n \in Bad : \A m \in Bad : n <= m BY <1>3, LeastNatural
<1>5. n \in 0 .. Count(s) /\ ~ ReadInv(s, dialect, r[n], n) BY <1>4
<1>6. n # 0 BY <1>2, <1>5, StartKeeps
<1>7. n \in 1 .. Count(s) /\ n - 1 \in 0 .. Count(s) /\ ~ (n <= n - 1) BY <1>1, <1>5, <1>6
<1>8. ReadInv(s, dialect, r[n - 1], n - 1) BY <1>4, <1>7
<1>9. ReadInv(s, dialect, ReadOne(s, dialect, r[n - 1], n), n) BY <1>7, <1>8, TagKeeps
<1> QED BY <1>2, <1>5, <1>7, <1>9

\* What has been read in the end.
LEMMA ReadScriptOf ==
  ASSUME NEW s \in Seq(STRING), NEW dialect \in Dialects
  PROVE  /\ ReadScript(s, dialect)
              = AppendText(Reading(s, dialect)[Count(s)], Gap(s, Count(s)))
         /\ ReadInv(s, dialect, ReadScript(s, dialect), Count(s))
<1> DEFINE x == Reading(s, dialect)[Count(s)]
<1>1. Count(s) \in Nat /\ Len(Matches(s)) = Count(s) BY MatchesOf
<1>2. Count(s) \in 0 .. Count(s) BY <1>1
<1>3. ReadInv(s, dialect, x, Count(s)) BY <1>2, ReadingKeeps
<1>4. ReadScript(s, dialect) = AppendText(x, SubSeq(s, x.cursor, Len(s)))
  BY <1>1 DEF ReadScript
<1> HIDE DEF x
<1>5. SubSeq(s, x.cursor, Len(s)) = Gap(s, Count(s)) BY <1>3 DEF ReadInv, Gap, GapTo
<1> QED BY <1>2, <1>3, <1>4, <1>5, AppendKeeps DEF x

------------------------------------------------------------------------------
(* What is compiled.                                                          *)

LEMMA CompileOf ==
  ASSUME NEW s \in Seq(STRING), NEW dialect \in Dialects,
         NEW x, x = ReadScript(s, dialect), NEW c, c = Compile(s, dialect)
  PROVE  /\ x \in Read /\ c.tagCount = x.count
         /\ c.segments = [i \in 1 .. Len(x.segments) |-> Segment(x.segments, i)]
         /\ c.isValid <=> /\ "unknown-tag" \notin x.issues /\ x.pending = <<>>
                          /\ ~ Malformed(s) /\ Len(x.segments) <= MaxSegments
<1>1. x \in Read BY ReadScriptOf DEF ReadInv
<1>2. DOMAIN x.segments = 1 .. Len(x.segments) /\ Len(x.segments) \in Nat
  BY <1>1, LenProperties DEF Read
<1> DEFINE issues == x.issues
        \cup (IF x.pending # <<>> THEN {"dangling-tag"} ELSE {})
        \cup (IF Malformed(s) THEN {"malformed-tag"} ELSE {})
        \cup (IF Len(x.segments) > MaxSegments THEN {"too-many-segments"} ELSE {})
<1>3. c = [segments |-> [i \in DOMAIN x.segments |-> Segment(x.segments, i)],
           issues |-> issues, tagCount |-> x.count, isValid |-> issues \cap Errors = {}]
  BY DEF Compile, CompiledFrom, IssuesOf
<1>4. /\ c.tagCount = x.count /\ c.isValid = (issues \cap Errors = {})
      /\ c.segments = [i \in 1 .. Len(x.segments) |-> Segment(x.segments, i)]
  BY <1>2, <1>3
<1>5. x.issues \in SUBSET Issues BY <1>1 DEF Read
<1>6. issues \cap Errors = {}
        <=> /\ "unknown-tag" \notin x.issues /\ x.pending = <<>>
            /\ ~ Malformed(s) /\ ~ (Len(x.segments) > MaxSegments)
  <2>1. \A i \in x.issues : i \in Errors <=> i = "unknown-tag" BY <1>5 DEF Issues, Errors
  <2> QED BY <2>1 DEF Errors
<1>7. ~ (Len(x.segments) > MaxSegments) <=> Len(x.segments) <= MaxSegments
  BY <1>2, ScriptAssumption
<1> HIDE DEF issues
<1> QED BY <1>1, <1>4, <1>6, <1>7

\* What a sequence has of a set.
LEMMA WithinOf ==
  ASSUME NEW A, NEW p \in Seq(A), NEW S
  PROVE  /\ Within(p, S) \in Seq(A) /\ Len(Within(p, S)) <= Len(p)
         /\ \A i \in DOMAIN Within(p, S) : Within(p, S)[i] \in S
         /\ (\A i \in DOMAIN p : p[i] \notin S) => Within(p, S) = <<>>
         /\ IsInjective(p) => IsInjective(Within(p, S))
<1> DEFINE D == {i \in DOMAIN p : p[i] \in S}
           at == Ascending(D)
           w == Within(p, S)
<1>1. DOMAIN p = 1 .. Len(p) /\ Len(p) \in Nat /\ \A i \in 1 .. Len(p) : p[i] \in A
  BY LenProperties, ElementOfSeq
<1>2. D \in SUBSET (1 .. Len(p)) BY <1>1
<1>3. /\ Cardinality(D) \in Nat /\ at \in [1 .. Cardinality(D) -> D]
      /\ \A j, k \in 1 .. Cardinality(D) : j < k => at[j] < at[k]
      /\ \A i \in D : \E k \in 1 .. Cardinality(D) : at[k] = i
  BY <1>1, <1>2, AscendingOf
<1>4. w = [k \in 1 .. Cardinality(D) |-> p[at[k]]]
  <2>1. DOMAIN at = 1 .. Cardinality(D) BY <1>3
  <2> QED BY <2>1 DEF Within, Pick
<1>5. \A k \in 1 .. Cardinality(D) : at[k] \in D /\ at[k] \in DOMAIN p /\ p[at[k]] \in A /\ p[at[k]] \in S
  BY <1>1, <1>3
<1>6. IsFiniteSet(1 .. Len(p)) /\ Cardinality(1 .. Len(p)) = Len(p)
  <2>1. \A n \in Nat : IsFiniteSet(1 .. n) /\ Cardinality(1 .. n) = n BY FS_Interval
  <2> QED BY <1>1, <2>1
<1>7. Cardinality(D) <= Len(p) BY <1>2, <1>6, FS_Subset
<1> HIDE DEF D, at, w
<1>8. w \in [1 .. Cardinality(D) -> A] BY <1>4, <1>5
<1>9. w \in Seq(A) /\ Len(w) = Cardinality(D) /\ DOMAIN w = 1 .. Cardinality(D)
  BY <1>3, <1>8, SeqOfFunction
<1>10. ASSUME IsInjective(p) PROVE IsInjective(w)
  <2> SUFFICES ASSUME NEW j \in 1 .. Cardinality(D), NEW k \in 1 .. Cardinality(D), w[j] = w[k]
               PROVE  j = k
    BY <1>9 DEF IsInjective
  <2>1. at[j] = at[k] BY <1>4, <1>5, <1>10 DEF IsInjective
  <2>2. at[j] \in Nat /\ at[k] \in Nat
    <3>1. \A i \in D : i \in Nat BY <1>2
    <3> QED BY <1>5, <3>1
  <2>3. j < k \/ k < j \/ j = k BY <1>3
  <2> QED BY <1>3, <2>1, <2>2, <2>3
<1>11. ASSUME \A i \in DOMAIN p : p[i] \notin S PROVE w = <<>>
  <2>1. D = {} BY <1>11 DEF D
  <2>2. Len(w) = 0 BY <1>9, <2>1, FS_EmptySet
  <2> QED BY <1>9, <2>2, EmptySeq
<1>12. \A i \in DOMAIN w : w[i] \in S BY <1>4, <1>5, <1>9
<1> QED BY <1>7, <1>9, <1>10, <1>11, <1>12 DEF w

Silence == 0 .. 2000

LEMMA PauseOf == ASSUME NEW text PROVE Pause(text) \in Silence /\ 0 \in Silence
<1> DEFINE mark == IF text[Len(text)] = "quote" /\ Len(text) > 1 THEN text[Len(text) - 1] ELSE text[Len(text)]
<1>1. Pause(text) = CASE mark = "!" -> 280 [] mark = "." -> 220 [] mark = "," -> 140 [] OTHER -> 180
  BY DEF Pause
<1> HIDE DEF mark
<1>2. Pause(text) \in {280, 220, 140, 180} BY <1>1
<1>3. \A n \in {280, 220, 140, 180, 0} : n \in Silence BY DEF Silence
<1> QED BY <1>2, <1>3

\* A segment the worker takes.
Suits(g) ==
  /\ TargetUnits(g) \in 1 .. MaxText
  /\ g.pause \in Silence
  /\ IsInjective(g.control)

LEMMA SegmentSuits ==
  ASSUME NEW s \in Seq(STRING), NEW segments \in Seq(Piece), NEW i \in 1 .. Len(segments),
         PieceOk(s, segments[i]), Units(s) + LaughExcess <= MaxText
  PROVE  Suits(Segment(segments, i))
<1> DEFINE p == segments[i]  g == Segment(segments, i)
<1>1. p \in Piece BY LenProperties, ElementOfSeq
<1>2. p.tags \in Seq(Tags) /\ p.text \in Seq(STRING) BY <1>1 DEF Piece
<1>3. g = [tags |-> p.tags, text |-> p.text, control |-> Within(p.tags, ControlTags),
           native |-> Within(p.tags, NativeTags),
           pause |-> IF i < Len(segments) THEN Pause(p.text) ELSE 0]
  BY DEF Segment
<1>4. /\ g.text = p.text /\ g.control = Within(p.tags, ControlTags)
      /\ g.native = Within(p.tags, NativeTags)
      /\ g.pause = IF i < Len(segments) THEN Pause(p.text) ELSE 0
  BY <1>3
<1> HIDE DEF g, p
<1>5. p.text # <<>> /\ IsInjective(p.tags) /\ Units(p.text) + 3 * Len(p.tags) <= Units(s)
  BY DEF PieceOk, p
<1>6. IsInjective(g.control) BY <1>2, <1>4, <1>5, WithinOf
<1>7. g.pause \in Silence
  <2>1. 0 \in Silence /\ Pause(p.text) \in Silence BY PauseOf
  <2>2. g.pause = Pause(p.text) \/ g.pause = 0 BY <1>4
  <2> QED BY <2>1, <2>2
<1>8. g.native \in Seq(Tags) /\ Len(g.native) <= Len(p.tags) BY <1>2, <1>4, WithinOf
<1>9. Len(g.native) \in Nat /\ Len(p.tags) \in Nat /\ Len(p.text) \in Nat
  BY <1>2, <1>8, LenProperties
<1>10. Len(p.text) # 0 BY <1>2, <1>5, EmptySeq
<1>11. Units(p.text) \in Nat /\ Units(s) \in Nat /\ Len(p.text) <= Units(p.text) BY <1>2, UnitsOf
<1> DEFINE more == IF "laughs" \in ToSet(g.native) THEN LaughExcess ELSE 0
<1>12. more \in Nat /\ more <= 3 /\ LaughExcess = 3 BY DEF LaughExcess
<1>13. TargetUnits(g) = Units(p.text) + 3 * Len(g.native) + more BY <1>4 DEF TargetUnits
<1> HIDE DEF more
<1>14. TargetUnits(g) \in 1 .. MaxText
  <2>1. Units(s) + 3 <= MaxText BY <1>12
  <2>2. MaxText \in Nat BY ScriptAssumption
  <2>3. 3 * Len(g.native) <= 3 * Len(p.tags) /\ 3 * Len(g.native) \in Nat BY <1>8, <1>9
  <2>4. Units(p.text) + 3 * Len(g.native) + more <= Units(s) + 3
    BY <1>5, <1>9, <1>11, <1>12, <2>3
  <2>5. 1 <= Units(p.text) BY <1>9, <1>10, <1>11
  <2> QED BY <1>9, <1>11, <1>12, <1>13, <2>1, <2>2, <2>3, <2>4, <2>5
<1> QED BY <1>6, <1>7, <1>14 DEF Suits, g

\* Of every script the server accepts, what it hands to the worker is taken
\* (parseSynthesisRequest, POST /api/v1/jobs, worker/app/models.py).
THEOREM EveryJobFitsWorker == \A s \in Seq(STRING) : SegmentsFitWorker(s)
<1> SUFFICES ASSUME NEW s \in Seq(STRING), NEW mode \in {"tts", "hifi"}, RequestAccepted(s, mode)
             PROVE  /\ Units(s) + LaughExcess <= MaxText => WorkerTakes(JobSegments(s))
                    /\ mode = "hifi" => JobSegments(s) = <<>>
  BY DEF SegmentsFitWorker
<1> DEFINE c == Compile(s, "bebas-v2")  x == ReadScript(s, "bebas-v2")
<1>1. "bebas-v2" \in Dialects BY DEF Dialects
<1>2. c.isValid /\ (mode = "hifi" => c.tagCount = 0) BY DEF RequestAccepted
<1>3. JobSegments(s) = IF c.tagCount > 0 THEN c.segments ELSE <<>> BY DEF JobSegments
<1>4. /\ x \in Read /\ c.tagCount = x.count
      /\ c.segments = [i \in 1 .. Len(x.segments) |-> Segment(x.segments, i)]
      /\ Len(x.segments) <= MaxSegments
  BY <1>1, <1>2, CompileOf
<1>5. \A k \in 1 .. Len(x.segments) : PieceOk(s, x.segments[k]) BY <1>1, ReadScriptOf DEF ReadInv
<1> HIDE DEF c, x
<1>6. x.segments \in Seq(Piece) /\ Len(x.segments) \in Nat BY <1>4, LenProperties DEF Read
<1>7. ASSUME mode = "hifi" PROVE JobSegments(s) = <<>>
  <2>1. ~ (c.tagCount > 0) BY <1>2, <1>7
  <2> QED BY <1>3, <2>1
<1>8. ASSUME Units(s) + LaughExcess <= MaxText PROVE WorkerTakes(JobSegments(s))
  <2>1. WorkerTakes(<<>>) BY ScriptAssumption DEF WorkerTakes
  <2>2. WorkerTakes(c.segments)
    <3>1. \A k \in 1 .. Len(x.segments) : Suits(Segment(x.segments, k))
      BY <1>5, <1>6, <1>8, SegmentSuits
    <3>2. c.segments \in [1 .. Len(x.segments) -> {Segment(x.segments, i) : i \in 1 .. Len(x.segments)}]
      BY <1>4
    <3>3. Len(c.segments) = Len(x.segments) /\ DOMAIN c.segments = 1 .. Len(x.segments)
      BY <1>6, <3>2, SeqOfFunction
    <3>4. \A k \in DOMAIN c.segments : Suits(c.segments[k]) BY <1>4, <3>1, <3>3
    <3>5. Len(c.segments) <= MaxSegments BY <1>4, <3>3
    <3>6. \A k \in DOMAIN c.segments :
            /\ TargetUnits(c.segments[k]) \in 1 .. MaxText
            /\ c.segments[k].pause \in 0 .. 2000
            /\ IsInjective(c.segments[k].control)
      BY <3>4, Zenon DEF Suits, Silence
    <3> QED BY <3>5, <3>6, Zenon DEF WorkerTakes
  <2> QED BY <1>3, <2>1, <2>2
<1> QED BY <1>7, <1>8

------------------------------------------------------------------------------
(* The two dialects.                                                          *)

\* As long as every name is one of the older dialect, both read the same.
LEMMA SameReading ==
  ASSUME NEW s \in Seq(STRING)
  PROVE  \A n \in 0 .. Count(s) :
           "unknown-tag" \notin Reading(s, "bebas-v1")[n].issues =>
             Reading(s, "bebas-v1")[n] = Reading(s, "bebas-v2")[n]
<1> DEFINE r == Reading(s, "bebas-v1")  q == Reading(s, "bebas-v2")
           Bad == {n \in 0 .. Count(s) : "unknown-tag" \notin r[n].issues /\ r[n] # q[n]}
<1> SUFFICES ASSUME Bad # {} PROVE FALSE OBVIOUS
<1>1. Count(s) \in Nat BY MatchesOf
<1>2. /\ r[0] = Start /\ \A n \in 1 .. Count(s) : r[n] = ReadOne(s, "bebas-v1", r[n - 1], n)
      /\ q[0] = Start /\ \A n \in 1 .. Count(s) : q[n] = ReadOne(s, "bebas-v2", q[n - 1], n)
  BY ReadingOf DEF ReadOne
<1>3. \A n \in 0 .. Count(s) : ReadInv(s, "bebas-v1", r[n], n) BY ReadingKeeps DEF Dialects
<1> HIDE DEF r, q
<1>4. Bad \in SUBSET Nat BY <1>1
<1>5. PICK n \in Bad : \A m \in Bad : n <= m BY <1>4, LeastNatural
<1>6. n \in 0 .. Count(s) /\ "unknown-tag" \notin r[n].issues /\ r[n] # q[n] BY <1>5
<1>7. n # 0 BY <1>2, <1>6
<1>8. n \in 1 .. Count(s) /\ n - 1 \in 0 .. Count(s) /\ ~ (n <= n - 1) BY <1>1, <1>6, <1>7
<1> DEFINE x == r[n - 1]  b == AppendText(x, Gap(s, n - 1))  m == Matches(s)[n]
           y == ReadOne(s, "bebas-v1", x, n)  name == NameOf(s, m)[1]
<1>9. x \in Read /\ x.cursor = GapFrom(s, n - 1) BY <1>3, <1>8 DEF ReadInv
<1>10. AfterTag(s, "bebas-v1", m, b, y, name) BY <1>8, <1>9, TagOf DEF Dialects
<1>11. y = r[n] BY <1>2, <1>8
<1>12. Gap(s, n - 1) \in Seq(STRING) BY <1>8, GapOf
<1>13. x.issues \in SUBSET b.issues BY <1>9, <1>12, AppendTextOf
<1> HIDE DEF b, y, name
<1>14. Named(s, m, "bebas-v1") /\ "unknown-tag" \notin b.issues
  BY <1>6, <1>10, <1>11, Zenon DEF AfterTag
<1>15. x = q[n - 1]
  <2>1. "unknown-tag" \notin x.issues BY <1>13, <1>14
  <2>2. n - 1 \notin Bad BY <1>5, <1>8
  <2> QED BY <1>8, <2>1, <2>2
<1>16. ReadTag(x, s, m, "bebas-v1") = ReadTag(x, s, m, "bebas-v2")
  <2> DEFINE t == Trim(SubSeq(s, m[1] + 1, m[2] - 1))
             next == [AppendText(x, SubSeq(s, x.cursor, m[1] - 1)) EXCEPT !.cursor = m[2] + 1]
             Result(unknown) ==
               IF unknown
               THEN [next EXCEPT !.issues = @ \cup {"unknown-tag"}, !.pending = <<>>]
               ELSE IF t[1] \in ToSet(next.pending)
               THEN [next EXCEPT !.issues = @ \cup {"duplicate-tag"}, !.count = @ + 1]
               ELSE [next EXCEPT !.pending = Append(@, t[1]), !.count = @ + 1]
  <2>1. PICK tag \in LegacyTags : t = <<tag>> BY <1>14 DEF Named, NameOf, Known
  <2>2. ~ \A w \in Known("bebas-v1") : t # <<w>> BY <2>1 DEF Known
  <2>3. ~ \A w \in Known("bebas-v2") : t # <<w>> BY <2>1 DEF Known, Tags
  <2>4. ReadTag(x, s, m, "bebas-v1") = Result(\A w \in Known("bebas-v1") : t # <<w>>)
    BY Zenon DEF ReadTag
  <2>5. ReadTag(x, s, m, "bebas-v2") = Result(\A w \in Known("bebas-v2") : t # <<w>>)
    BY Zenon DEF ReadTag
  <2> HIDE DEF t, next
  <2>6. Result(\A w \in Known("bebas-v1") : t # <<w>>) = Result(\A w \in Known("bebas-v2") : t # <<w>>)
    BY <2>2, <2>3
  <2> QED BY <2>4, <2>5, <2>6
<1>17. r[n] = q[n] BY <1>2, <1>8, <1>15, <1>16 DEF ReadOne
<1> QED BY <1>6, <1>17

\* Every package that imports can be submitted, and compiles to the same
\* segments in the dialect of the editor and the server
\* (bebas-script-package.ts, validation.ts).
THEOREM EveryPackageSubmits == \A s \in Seq(STRING) : PackagesSubmit(s)
<1> SUFFICES ASSUME NEW s \in Seq(STRING), NEW dialect \in Dialects, PackageAccepted(s, dialect)
             PROVE  /\ RequestAccepted(Trim(s), "tts")
                    /\ Compile(Trim(s), dialect).segments = Compile(Trim(s), "bebas-v2").segments
  BY DEF PackagesSubmit
<1> DEFINE t == Trim(s)  c == Compile(t, dialect)  k == Compile(t, "bebas-v2")
           x == ReadScript(t, dialect)  z == ReadScript(t, "bebas-v2")
<1>1. t \in Seq(STRING) /\ Trim(t) = t BY TrimType, TrimTwice
<1>2. t # <<>> /\ Units(t) <= MaxText /\ c.isValid BY DEF PackageAccepted
<1> HIDE DEF t
<1>3. "bebas-v1" \in Dialects /\ "bebas-v2" \in Dialects BY DEF Dialects
<1>4. /\ x \in Read
      /\ c.segments = [i \in 1 .. Len(x.segments) |-> Segment(x.segments, i)]
      /\ c.isValid <=> /\ "unknown-tag" \notin x.issues /\ x.pending = <<>>
                       /\ ~ Malformed(t) /\ Len(x.segments) <= MaxSegments
  BY <1>1, CompileOf
<1>5. /\ k.segments = [i \in 1 .. Len(z.segments) |-> Segment(z.segments, i)]
      /\ k.isValid <=> /\ "unknown-tag" \notin z.issues /\ z.pending = <<>>
                       /\ ~ Malformed(t) /\ Len(z.segments) <= MaxSegments
  BY <1>1, <1>3, CompileOf
<1>6. x = z
  <2>1. CASE dialect = "bebas-v2" BY <2>1
  <2>2. CASE dialect = "bebas-v1"
    <3> DEFINE p == Reading(t, dialect)[Count(t)]  q == Reading(t, "bebas-v2")[Count(t)]
    <3>1. Count(t) \in 0 .. Count(t)
      <4>1. Count(t) \in Nat BY <1>1, MatchesOf
      <4> QED BY <4>1
    <3>2. x = AppendText(p, Gap(t, Count(t))) /\ z = AppendText(q, Gap(t, Count(t)))
      BY <1>1, <1>3, ReadScriptOf
    <3>3. p \in Read BY <1>1, <3>1, ReadingKeeps DEF ReadInv
    <3>4. Gap(t, Count(t)) \in Seq(STRING) BY <1>1, <3>1, GapOf
    <3>5. p.issues \in SUBSET AppendText(p, Gap(t, Count(t))).issues BY <3>3, <3>4, AppendTextOf
    <3>6. "unknown-tag" \notin p.issues BY <1>2, <1>4, <3>2, <3>5
    <3>7. p = q BY <1>1, <2>2, <3>1, <3>6, SameReading
    <3> QED BY <3>2, <3>7
  <2> QED BY <2>1, <2>2 DEF Dialects
<1> HIDE DEF x, z
<1>7. k.isValid /\ c.segments = k.segments BY <1>2, <1>4, <1>5, <1>6
<1>8. RequestAccepted(t, "tts") BY <1>1, <1>2, <1>7 DEF RequestAccepted
<1> QED BY <1>7, <1>8 DEF t

------------------------------------------------------------------------------
(* The mask.                                                                  *)

\* The name of a known tag has one symbol, and that is not an astral one.
LEMMA NamedHasNoAstral ==
  ASSUME NEW s \in Seq(STRING), NEW dialect, NEW n \in 1 .. Count(s),
         Named(s, Matches(s)[n], dialect), NEW i \in Opens(s, n) .. Closes(s, n)
  PROVE  s[i] # "astral"
<1> DEFINE f == Opens(s, n)  e == Closes(s, n)
           raw == SubSeq(s, f + 1, e - 1)
<1>1. /\ f \in 1 .. Len(s) /\ e \in 1 .. Len(s) /\ f < e /\ Len(s) \in Nat
      /\ s[f] = "[" /\ s[e] = "]"
  BY MatchesOf, LenProperties
<1> SUFFICES ASSUME s[i] = "astral" PROVE FALSE OBVIOUS
<1>2. PICK tag \in Tags : Trim(raw) = <<tag>> BY DEF Named, NameOf, Opens, Closes, Known, Tags
<1>3. /\ raw \in Seq(STRING) /\ Len(raw) = e - 1 - (f + 1) + 1
      /\ \A j \in 1 .. e - 1 - (f + 1) + 1 : raw[j] = s[f + 1 + j - 1]
  <2>1. f + 1 \in Nat /\ e - 1 \in Nat /\ 1 <= f + 1 /\ f + 1 <= (e - 1) + 1 /\ e - 1 <= Len(s)
    BY <1>1
  <2> HIDE DEF f, e
  <2> QED BY <2>1, UnitsOfPart
<1> HIDE DEF raw, f, e
<1>4. i \in f .. e BY DEF f, e
<1>5. i # f /\ i # e BY <1>1
<1>6. i - f \in 1 .. e - 1 - (f + 1) + 1 /\ f + 1 + (i - f) - 1 = i BY <1>1, <1>4, <1>5
<1>7. raw[i - f] = "astral" BY <1>3, <1>6
<1>8. DOMAIN raw = 1 .. Len(raw) BY <1>3, LenProperties
<1>9. i - f \in Solid(raw) BY <1>3, <1>6, <1>7, <1>8 DEF Solid, Blank
<1>10. PICK a, b \in 1 .. Len(raw) :
         /\ \A j \in Solid(raw) : a <= j /\ j <= b
         /\ Len(Trim(raw)) = b - a + 1
         /\ \A j \in 1 .. b - a + 1 : Trim(raw)[j] = raw[a + j - 1]
  BY <1>3, <1>9, TrimOf
<1>11. Len(Trim(raw)) = 1 /\ Trim(raw)[1] = tag BY <1>2
<1>12. a \in Nat /\ b \in Nat /\ i - f \in Nat /\ b - a + 1 = 1
  <2>1. Len(raw) \in Nat BY <1>3, LenProperties
  <2>2. a \in Nat /\ b \in Nat BY <2>1
  <2>3. i - f \in Nat BY <1>6
  <2>4. b - a + 1 = 1 BY <1>10, <1>11
  <2> QED BY <2>2, <2>3, <2>4
<1>13. a <= i - f /\ i - f <= b BY <1>9, <1>10
<1>14. a = i - f
  <2> DEFINE k == i - f
  <2>1. k \in Nat /\ a <= k /\ k <= b BY <1>12, <1>13
  <2> HIDE DEF k
  <2>2. a = k BY <1>12, <2>1
  <2> QED BY <2>2 DEF k
<1>15. Trim(raw)[1] = raw[a]
  <2>1. 1 \in 1 .. b - a + 1 /\ a + 1 - 1 = a BY <1>12
  <2> QED BY <1>10, <2>1
<1>16. tag = "astral" BY <1>7, <1>11, <1>14, <1>15
<1> QED BY <1>16 DEF Tags, LegacyTags

LEMMA PrefixUnits ==
  ASSUME NEW s \in Seq(STRING), NEW b \in 0 .. Len(s)
  PROVE  /\ Units(SubSeq(s, 1, b)) \in Nat /\ b <= Units(SubSeq(s, 1, b))
         /\ (\A i \in 1 .. b : s[i] # "astral") => Units(SubSeq(s, 1, b)) = b
         /\ \A i \in 1 .. b : s[i] = "astral" => b < Units(SubSeq(s, 1, b))
<1> DEFINE c == Cardinality(Astrals(s, 1, b))
<1>1. b \in Nat /\ b <= Len(s) /\ 1 <= b + 1 /\ Len(s) \in Nat BY LenProperties
<1>2. Units(SubSeq(s, 1, b)) = b - 1 + 1 + c BY <1>1, UnitsOfPart
<1>3. c \in Nat /\ IsFiniteSet(Astrals(s, 1, b)) BY <1>1, AstralsFinite
<1>4. ASSUME \A i \in 1 .. b : s[i] # "astral" PROVE c = 0
  <2>1. Astrals(s, 1, b) = {} BY <1>4 DEF Astrals
  <2> QED BY <2>1, FS_EmptySet
<1>5. ASSUME NEW i \in 1 .. b, s[i] = "astral" PROVE c # 0
  <2>1. i \in Astrals(s, 1, b) BY <1>5 DEF Astrals
  <2> QED BY <1>3, <2>1, FS_EmptySet
<1> HIDE DEF c
<1>6. Units(SubSeq(s, 1, b)) = b + c BY <1>1, <1>2, <1>3
<1> QED BY <1>1, <1>3, <1>4, <1>5, <1>6

\* The mask is drawn at the right places: a script of known tags with an
\* astral symbol before one of them shows that tag's bracket.
LEMMA NoAstralBefore ==
  ASSUME NEW s \in Seq(STRING), NEW dialect, ~ Malformed(s),
         \A n \in 1 .. Count(s) : Named(s, Matches(s)[n], dialect)
  PROVE  \A n \in 1 .. Count(s) : \A i \in 1 .. Closes(s, n) : s[i] # "astral"
<1> DEFINE Bad == {n \in 1 .. Count(s) : \E i \in 1 .. Closes(s, n) : s[i] = "astral"}
<1> SUFFICES ASSUME Bad # {} PROVE FALSE OBVIOUS
<1>1. Count(s) \in Nat /\ Bad \in SUBSET Nat BY MatchesOf
<1>2. PICK n \in Bad : \A m \in Bad : n <= m BY <1>1, LeastNatural
<1>3. PICK i \in 1 .. Closes(s, n) : s[i] = "astral" BY <1>2
<1>4. \A m \in 1 .. Count(s) : /\ Opens(s, m) \in 1 .. Len(s) /\ Closes(s, m) \in 1 .. Len(s)
                               /\ Opens(s, m) < Closes(s, m) /\ s[Opens(s, m)] = "["
                               /\ Matches(s)[m] = <<Opens(s, m), Closes(s, m)>>
  BY MatchesOf
<1>5. \A l, m \in 1 .. Count(s) : l < m => Closes(s, l) < Opens(s, m) BY MatchesOf
<1>6. Len(s) \in Nat /\ DOMAIN s = 1 .. Len(s) /\ DOMAIN Matches(s) = 1 .. Count(s)
  BY LenProperties, MatchesOf
<1>7. n \in 1 .. Count(s) BY <1>2
<1> DEFINE o == Opens(s, n)
<1>8. o \in 1 .. Len(s) /\ s[o] = "[" /\ Closes(s, n) \in 1 .. Len(s) BY <1>4, <1>7
<1>9. i < o
  <2>1. i \in Nat /\ i <= Closes(s, n) BY <1>3, <1>8
  <2>2. Named(s, Matches(s)[n], dialect) BY <1>7
  <2>3. ~ (i \in o .. Closes(s, n)) BY <1>3, <1>7, <2>2, NamedHasNoAstral
  <2> QED BY <1>8, <2>1, <2>3
<1>10. ASSUME NEW m \in 1 .. Count(s),
              Units(SubSeq(s, 1, Opens(s, m) - 1)) < o, o <= Units(SubSeq(s, 1, Closes(s, m)))
       PROVE  FALSE
  <2>1. Opens(s, m) \in 1 .. Len(s) /\ Closes(s, m) \in 1 .. Len(s) /\ m \in Nat /\ n \in Nat
    BY <1>4, <1>7
  <2>2. CASE m < n
    <3>1. m \notin Bad BY <1>2, <2>1, <2>2
    <3>2. \A h \in 1 .. Closes(s, m) : s[h] # "astral" BY <3>1
    <3>3. Closes(s, m) \in 0 .. Len(s) BY <1>6, <2>1
    <3>4. Units(SubSeq(s, 1, Closes(s, m))) = Closes(s, m) BY <3>2, <3>3, PrefixUnits
    <3>5. Closes(s, m) < o BY <1>5, <1>7, <2>2
    <3> QED BY <1>8, <1>10, <2>1, <3>4, <3>5
  <2>3. CASE ~ (m < n)
    <3> DEFINE p == Opens(s, m) - 1
    <3>1. o <= p + 1
      <4>1. m = n \/ n < m BY <2>1, <2>3
      <4>2. n < m => Closes(s, n) < Opens(s, m) BY <1>5, <1>7
      <4>3. o < Closes(s, n) BY <1>4, <1>7
      <4> QED BY <1>8, <2>1, <4>1, <4>2, <4>3
    <3>2. p \in 0 .. Len(s) BY <1>6, <2>1
    <3>3. i \in 1 .. p BY <1>8, <1>9, <3>1, <3>2
    <3>4. p < Units(SubSeq(s, 1, p)) /\ Units(SubSeq(s, 1, p)) \in Nat
      BY <1>3, <3>2, <3>3, PrefixUnits
    <3>5. Units(SubSeq(s, 1, p)) < o BY <1>10
    <3> HIDE DEF p, o
    <3> QED BY <1>8, <3>1, <3>2, <3>4, <3>5
  <2> QED BY <2>2, <2>3
<1>11. o \notin Masked(s) BY <1>4, <1>6, <1>10 DEF Masked
<1>12. o \in DOMAIN s \ Masked(s) /\ s[o] \in Bracket BY <1>6, <1>8, <1>11 DEF Bracket
<1> QED BY <1>12 DEF Malformed

\* Where no astral symbol precedes the end of a match, the mask is the matches.
LEMMA MaskIsMatches ==
  ASSUME NEW s \in Seq(STRING),
         \A n \in 1 .. Count(s) : \A i \in 1 .. Closes(s, n) : s[i] # "astral"
  PROVE  \A k \in DOMAIN s : k \in Masked(s) <=> Covered(ToSet(Matches(s)), k)
<1>1. \A m \in 1 .. Count(s) : /\ Opens(s, m) \in 1 .. Len(s) /\ Closes(s, m) \in 1 .. Len(s)
                               /\ Opens(s, m) < Closes(s, m)
                               /\ Matches(s)[m] = <<Opens(s, m), Closes(s, m)>>
  BY MatchesOf
<1>2. Len(s) \in Nat /\ DOMAIN s = 1 .. Len(s) /\ DOMAIN Matches(s) = 1 .. Count(s)
  BY LenProperties, MatchesOf
<1>3. ASSUME NEW m \in 1 .. Count(s)
      PROVE  /\ Units(SubSeq(s, 1, Opens(s, m) - 1)) = Opens(s, m) - 1
             /\ Units(SubSeq(s, 1, Closes(s, m))) = Closes(s, m)
  <2> DEFINE f == Opens(s, m)  e == Closes(s, m)
  <2>1. f \in 1 .. Len(s) /\ e \in 1 .. Len(s) /\ f < e BY <1>1
  <2>2. \A i \in 1 .. e : s[i] # "astral" OBVIOUS
  <2> HIDE DEF f, e
  <2>3. e \in 0 .. Len(s) /\ f - 1 \in 0 .. Len(s) BY <1>2, <2>1
  <2>4. \A i \in 1 .. f - 1 : i \in 1 .. e BY <1>2, <2>1
  <2>5. Units(SubSeq(s, 1, e)) = e BY <2>2, <2>3, PrefixUnits
  <2>6. Units(SubSeq(s, 1, f - 1)) = f - 1 BY <2>2, <2>3, <2>4, PrefixUnits
  <2> QED BY <2>5, <2>6 DEF f, e
<1> SUFFICES ASSUME NEW k \in DOMAIN s
             PROVE  k \in Masked(s) <=> Covered(ToSet(Matches(s)), k)
  OBVIOUS
<1>4. k \in Masked(s) <=> \E m \in 1 .. Count(s) : Opens(s, m) - 1 < k /\ k <= Closes(s, m)
  BY <1>1, <1>2, <1>3 DEF Masked
<1>5. \A m \in 1 .. Count(s) : Opens(s, m) - 1 < k <=> Opens(s, m) <= k BY <1>1, <1>2
<1> QED BY <1>4, <1>5, CoveredBy

\* No bracket stands outside the matches of a valid script.
LEMMA FreeOfBrackets ==
  ASSUME NEW s \in Seq(STRING), NEW dialect, ~ Malformed(s),
         \A n \in 1 .. Count(s) : Named(s, Matches(s)[n], dialect)
  PROVE  \A k \in Free(s) : s[k] \notin Bracket
<1>1. \A n \in 1 .. Count(s) : \A i \in 1 .. Closes(s, n) : s[i] # "astral" BY NoAstralBefore
<1>2. \A k \in DOMAIN s : k \in Masked(s) <=> Covered(ToSet(Matches(s)), k) BY <1>1, MaskIsMatches
<1>3. \A k \in DOMAIN s \ Masked(s) : s[k] \notin Bracket BY DEF Malformed
<1> QED BY <1>2, <1>3 DEF Free

\* No bracket is left in a text the server accepts, tagged or plain
\* (parseSynthesisRequest, POST /api/v1/jobs).
THEOREM EveryRawTagWithheld == \A s \in Seq(STRING) : RawTagsWithheld(s)
<1> SUFFICES ASSUME NEW s \in Seq(STRING), RequestAccepted(s, "tts")
             PROVE  IF JobSegments(s) = <<>> THEN Within(s, Bracket) = <<>>
                    ELSE \A i \in DOMAIN JobSegments(s) : Within(JobSegments(s)[i].text, Bracket) = <<>>
  BY DEF RawTagsWithheld
<1> DEFINE c == Compile(s, "bebas-v2")  x == ReadScript(s, "bebas-v2")
<1>1. "bebas-v2" \in Dialects BY DEF Dialects
<1>2. c.isValid BY DEF RequestAccepted
<1>3. JobSegments(s) = IF c.tagCount > 0 THEN c.segments ELSE <<>> BY DEF JobSegments
<1>4. /\ x \in Read /\ c.tagCount = x.count
      /\ c.segments = [i \in 1 .. Len(x.segments) |-> Segment(x.segments, i)]
      /\ "unknown-tag" \notin x.issues /\ x.pending = <<>> /\ ~ Malformed(s)
  BY <1>1, <1>2, CompileOf
<1>5. ReadInv(s, "bebas-v2", x, Count(s)) BY <1>1, ReadScriptOf
<1> HIDE DEF c, x
<1>6. /\ x.count = Count(s) /\ \A n \in 1 .. Count(s) : Named(s, Matches(s)[n], "bebas-v2")
      /\ \A k \in 1 .. Len(x.segments) : FromFree(s, x.segments[k].text)
      /\ Count(s) = 0 \/ x.segments # <<>>
  BY <1>4, <1>5 DEF ReadInv, PieceOk
<1>7. \A k \in Free(s) : s[k] \notin Bracket BY <1>4, <1>6, FreeOfBrackets
<1>8. x.segments \in Seq(Piece) /\ Len(x.segments) \in Nat /\ Count(s) \in Nat
  BY <1>4, LenProperties, MatchesOf DEF Read
<1>9. CASE Count(s) = 0
  <2>1. JobSegments(s) = <<>> BY <1>3, <1>4, <1>6, <1>9
  <2>2. \A i \in DOMAIN s : i \in Free(s) BY <1>9, CoveredBy DEF Free
  <2>3. Within(s, Bracket) = <<>> BY <1>7, <2>2, WithinOf
  <2> QED BY <2>1, <2>3
<1>10. CASE Count(s) # 0
  <2>1. JobSegments(s) = c.segments BY <1>3, <1>4, <1>6, <1>8, <1>10
  <2>2. Len(x.segments) # 0 BY <1>6, <1>8, <1>10, EmptySeq
  <2>3. c.segments \in [1 .. Len(x.segments) -> {Segment(x.segments, i) : i \in 1 .. Len(x.segments)}]
    BY <1>4
  <2>4. Len(c.segments) = Len(x.segments) /\ DOMAIN c.segments = 1 .. Len(x.segments)
    BY <1>8, <2>3, SeqOfFunction
  <2>5. c.segments # <<>> BY <2>2, <2>4
  <2>6. ASSUME NEW i \in DOMAIN c.segments PROVE Within(c.segments[i].text, Bracket) = <<>>
    <3> DEFINE t == x.segments[i].text
    <3>1. c.segments[i].text = t BY <1>4, <2>4 DEF Segment
    <3>2. x.segments[i] \in Piece BY <1>8, <2>4, ElementOfSeq
    <3>3. t \in Seq(STRING) BY <3>2 DEF Piece
    <3>4. FromFree(s, t) BY <1>6, <2>4
    <3> HIDE DEF t
    <3>5. \A j \in DOMAIN t : t[j] \notin Bracket BY <1>7, <3>4 DEF FromFree
    <3>6. Within(t, Bracket) = <<>> BY <3>3, <3>5, WithinOf
    <3> QED BY <3>1, <3>6
  <2> QED BY <2>1, <2>5, <2>6
<1> QED BY <1>9, <1>10

------------------------------------------------------------------------------
(* Spoken stretches.                                                          *)

Speech(s) == Spoken(s, ToSet(Matches(s)))
Beginnings(s) == Starts(Speech(s), ToSet(Matches(s)))
\* What is spoken between match n and the next.
SpokenInGap(s, n) == {i \in Speech(s) : GapFrom(s, n) <= i /\ i <= GapTo(s, n)}
StretchAt(s, i) == StretchFrom(Speech(s), Beginnings(s), i)

LEMMA SpeechOf ==
  ASSUME NEW s \in Seq(STRING)
  PROVE  /\ Speech(s) = {i \in Free(s) : s[i] \notin Blank}
         /\ Speech(s) \in SUBSET (1 .. Len(s)) /\ Speech(s) \in SUBSET Nat
         /\ Beginnings(s) \in SUBSET Speech(s) /\ Len(s) \in Nat
<1>1. DOMAIN s = 1 .. Len(s) /\ Len(s) \in Nat BY LenProperties
<1>2. Speech(s) = {i \in Free(s) : s[i] \notin Blank} BY DEF Speech, Spoken, Free
<1>3. Speech(s) \in SUBSET (1 .. Len(s)) BY <1>1 DEF Speech, Spoken
<1>4. Beginnings(s) \in SUBSET Speech(s) BY DEF Beginnings, Starts
<1> QED BY <1>1, <1>2, <1>3, <1>4

\* What is spoken before a gap stands before its match, and what is spoken
\* behind it behind the next.
LEMMA SpokenOutside ==
  ASSUME NEW s \in Seq(STRING), NEW n \in 0 .. Count(s), NEW i \in Speech(s)
  PROVE  /\ i < GapFrom(s, n) => n \in 1 .. Count(s) /\ i < Opens(s, n)
         /\ GapTo(s, n) < i => n + 1 \in 1 .. Count(s) /\ Closes(s, n + 1) < i
<1>1. Count(s) \in Nat /\ n \in Nat /\ n <= Count(s) BY MatchesOf
<1>2. i \in 1 .. Len(s) /\ i \in Nat /\ Len(s) \in Nat BY SpeechOf
<1>3. \A m \in 1 .. Count(s) : ~ (Opens(s, m) <= i /\ i <= Closes(s, m))
  BY SpeechOf, CoveredBy DEF Free
<1>4. \A m \in 1 .. Count(s) : Opens(s, m) \in Nat /\ Closes(s, m) \in Nat BY MatchesOf
<1>5. ASSUME i < GapFrom(s, n) PROVE n \in 1 .. Count(s) /\ i < Opens(s, n)
  <2>1. n # 0 BY <1>2, <1>5 DEF GapFrom
  <2>2. n \in 1 .. Count(s) BY <1>1, <2>1
  <2>3. i < Closes(s, n) + 1 BY <1>5, <2>1 DEF GapFrom
  <2>4. Closes(s, n) \in Nat /\ Opens(s, n) \in Nat BY <1>4, <2>2
  <2>5. i <= Closes(s, n) BY <1>2, <2>3, <2>4
  <2>6. ~ (Opens(s, n) <= i) BY <1>3, <2>2, <2>5
  <2> QED BY <1>2, <2>2, <2>4, <2>6
<1>6. ASSUME GapTo(s, n) < i PROVE n + 1 \in 1 .. Count(s) /\ Closes(s, n + 1) < i
  <2>1. n # Count(s) BY <1>2, <1>6 DEF GapTo
  <2>2. n + 1 \in 1 .. Count(s) BY <1>1, <2>1
  <2>3. Opens(s, n + 1) - 1 < i BY <1>6, <2>1 DEF GapTo
  <2>4. Closes(s, n + 1) \in Nat /\ Opens(s, n + 1) \in Nat BY <1>4, <2>2
  <2>5. Opens(s, n + 1) <= i BY <1>2, <2>3, <2>4
  <2>6. ~ (i <= Closes(s, n + 1)) BY <1>3, <2>2, <2>5
  <2> QED BY <1>2, <2>2, <2>4, <2>6
<1> QED BY <1>5, <1>6

\* Whatever is spoken, the stretch it belongs to began at or before it.
LEMMA BeginsBefore ==
  ASSUME NEW s \in Seq(STRING), NEW k \in Speech(s)
  PROVE  \E j \in Beginnings(s) : /\ j <= k
                                  /\ \A c \in j .. k : ~ Covered(ToSet(Matches(s)), c)
<1> DEFINE H == {h \in Speech(s) : h <= k /\ \A c \in h .. k : ~ Covered(ToSet(Matches(s)), c)}
<1>1. H \in SUBSET Nat /\ k \in Nat /\ \A h \in Speech(s) : h \in Nat BY SpeechOf
<1>2. ~ Covered(ToSet(Matches(s)), k) BY DEF Speech, Spoken
<1>3. \A c \in k .. k : c = k BY <1>1
<1>4. k \in H BY <1>1, <1>2, <1>3
<1>5. PICK j \in H : \A h \in H : j <= h BY <1>1, <1>4, LeastNatural
<1>6. ASSUME NEW h \in Speech(s), h < j PROVE \E c \in h .. j : Covered(ToSet(Matches(s)), c)
  <2>1. h \in Nat /\ j \in Nat /\ j <= k BY <1>1, <1>5
  <2>2. h \notin H /\ h <= k BY <1>1, <1>5, <1>6, <2>1
  <2>3. PICK c \in h .. k : Covered(ToSet(Matches(s)), c) BY <2>2
  <2>4. ~ (c \in j .. k) BY <1>5, <2>3
  <2>5. c \in h .. j BY <1>1, <2>1, <2>3, <2>4
  <2> QED BY <2>3, <2>5
<1>7. j \in Beginnings(s) BY <1>5, <1>6 DEF Beginnings, Starts
<1> QED BY <1>5, <1>7

\* A gap in which something is spoken begins one stretch, and is all of it.
LEMMA GapIsStretch ==
  ASSUME NEW s \in Seq(STRING), NEW n \in 0 .. Count(s), SpokenInGap(s, n) # {},
         NEW f, f = Min(SpokenInGap(s, n))
  PROVE  /\ f \in SpokenInGap(s, n) /\ \A i \in SpokenInGap(s, n) : f <= i
         /\ f \in Beginnings(s)
         /\ \A j \in Beginnings(s) : GapFrom(s, n) <= j /\ j <= GapTo(s, n) => j = f
         /\ StretchAt(s, f) = SpokenInGap(s, n)
<1> DEFINE a == GapFrom(s, n)  b == GapTo(s, n)  G == SpokenInGap(s, n)
           M == ToSet(Matches(s))
<1>1. \A h \in Speech(s) : h \in Nat BY SpeechOf
<1>2. G \in SUBSET Speech(s) /\ G \in SUBSET Nat BY <1>1 DEF SpokenInGap
<1>3. f \in G /\ \A i \in G : f <= i BY <1>2, MinOf
<1>4. /\ a \in Nat /\ b \in Nat /\ \A k \in a .. b : k \in Free(s)
      /\ \A k \in G : a <= k /\ k <= b
  BY GapOf DEF SpokenInGap
<1>5. \A h \in Speech(s) : a <= h /\ h <= b => h \in G BY DEF SpokenInGap
<1>6. \A m \in 1 .. Count(s) : /\ Opens(s, m) \in Nat /\ Closes(s, m) \in Nat
                               /\ Opens(s, m) < Closes(s, m)
                               /\ Covered(M, Opens(s, m))
  <2> TAKE m \in 1 .. Count(s)
  <2>1. Opens(s, m) \in Nat /\ Closes(s, m) \in Nat /\ Opens(s, m) < Closes(s, m) BY MatchesOf
  <2>2. Opens(s, m) <= Opens(s, m) /\ Opens(s, m) <= Closes(s, m) BY <2>1
  <2> QED BY <2>1, <2>2, CoveredBy
<1>7. \A k \in Free(s) : ~ Covered(M, k) BY DEF Free
<1>8. Beginnings(s) \in SUBSET Speech(s) BY SpeechOf
<1>9. \A h \in Speech(s) : /\ h < a => n \in 1 .. Count(s) /\ h < Opens(s, n)
                           /\ b < h => n + 1 \in 1 .. Count(s) /\ Closes(s, n + 1) < h
  BY SpokenOutside
<1>10. /\ \A m \in 1 .. n : Closes(s, m) < a
       /\ \A m \in n + 1 .. Count(s) : b < Opens(s, m)
       /\ n \in Nat /\ Count(s) \in Nat
  <2>1. Count(s) \in Nat BY MatchesOf
  <2>2. n \in Nat BY <2>1
  <2>3. \A m \in 1 .. n : Closes(s, m) < a BY GapOf
  <2>4. \A m \in n + 1 .. Count(s) : b < Opens(s, m) BY GapOf
  <2> QED BY <2>1, <2>2, <2>3, <2>4
<1> HIDE DEF a, b, G, M
<1>11. f \in Nat /\ f \in Speech(s) /\ a <= f /\ f <= b BY <1>2, <1>3, <1>4
<1>12. ASSUME NEW h \in Speech(s), h < f PROVE \E k \in h .. f : Covered(M, k)
  <2>1. h \in Nat BY <1>1
  <2>2. h < a BY <1>3, <1>4, <1>5, <1>11, <1>12, <2>1
  <2>3. n \in 1 .. Count(s) /\ h < Opens(s, n) BY <1>9, <2>2
  <2>4. Closes(s, n) < a BY <1>10, <2>3
  <2>5. Opens(s, n) \in h .. f BY <1>4, <1>6, <1>11, <2>1, <2>3, <2>4
  <2> QED BY <1>6, <2>3, <2>5
<1>13. f \in Beginnings(s) BY <1>11, <1>12 DEF Beginnings, Starts, M
<1>14. ASSUME NEW j \in Beginnings(s), a <= j, j <= b PROVE j = f
  <2>1. j \in Speech(s) /\ j \in Nat BY <1>1, <1>8
  <2>2. f <= j BY <1>3, <1>5, <1>14, <2>1
  <2>3. ~ (f < j)
    <3> SUFFICES ASSUME f < j PROVE FALSE OBVIOUS
    <3>1. PICK k \in f .. j : Covered(M, k) BY <1>11 DEF Beginnings, Starts, M
    <3>2. k \in a .. b BY <1>4, <1>11, <1>14, <2>1, <3>1
    <3> QED BY <1>4, <1>7, <3>1, <3>2
  <2> QED BY <1>11, <2>1, <2>2, <2>3
<1>15. ASSUME NEW k \in G PROVE k \in StretchAt(s, f)
  <2>1. k \in Speech(s) /\ k \in Nat /\ f <= k /\ k <= b BY <1>2, <1>3, <1>4
  <2>2. ASSUME NEW j \in Beginnings(s), f < j PROVE k < j
    <3>1. j \in Nat BY <1>1, <1>8
    <3>2. ~ (j <= b) BY <1>4, <1>11, <1>14, <2>2, <3>1
    <3> QED BY <1>4, <2>1, <3>1, <3>2
  <2> QED BY <2>1, <2>2 DEF StretchAt, StretchFrom
<1>16. ASSUME NEW k \in StretchAt(s, f) PROVE k \in G
  <2>1. k \in Speech(s) /\ k \in Nat /\ f <= k /\ \A j \in Beginnings(s) : f < j => k < j
    BY <1>1 DEF StretchAt, StretchFrom
  <2>2. ~ (b < k)
    <3> SUFFICES ASSUME b < k PROVE FALSE OBVIOUS
    <3>1. n + 1 \in 1 .. Count(s) /\ Closes(s, n + 1) < k BY <1>9, <2>1
    <3>2. PICK j \in Beginnings(s) : j <= k /\ \A c \in j .. k : ~ Covered(M, c)
      BY <2>1, BeginsBefore DEF M
    <3>3. j \in Nat BY <1>1, <1>8
    <3>4. b < Opens(s, n + 1)
      <4>1. n + 1 \in n + 1 .. Count(s) BY <1>10, <3>1
      <4> QED BY <1>10, <4>1
    <3>5. ~ (Opens(s, n + 1) \in j .. k) BY <1>6, <3>1, <3>2
    <3>6. Opens(s, n + 1) < j BY <1>6, <2>1, <3>1, <3>3, <3>5
    <3>7. f < j BY <1>4, <1>6, <1>11, <3>1, <3>3, <3>4, <3>6
    <3> QED BY <2>1, <3>2, <3>3, <3>7
  <2>3. k <= b /\ a <= k BY <1>4, <1>11, <2>1, <2>2
  <2> QED BY <1>5, <2>1, <2>3
<1>17. StretchAt(s, f) = G BY <1>15, <1>16
<1> QED BY <1>3, <1>13, <1>14, <1>17 DEF G, a, b

\* The text between two matches, trimmed, says what is spoken there.
LEMMA GapSays ==
  ASSUME NEW s \in Seq(STRING), NEW n \in 0 .. Count(s), NEW t, t = Trim(Gap(s, n))
  PROVE  /\ t = <<>> <=> SpokenInGap(s, n) = {}
         /\ t # <<>> => Without(t, Blank) = Pick(s, SpokenInGap(s, n))
<1> DEFINE a == GapFrom(s, n)  b == GapTo(s, n)  g == Gap(s, n)  G == SpokenInGap(s, n)
<1>1. /\ a \in Nat /\ b \in Nat /\ 1 <= a /\ a <= b + 1 /\ b <= Len(s)
      /\ \A k \in a .. b : k \in Free(s)
      /\ g \in Seq(STRING)
  BY GapOf
<1>2. Len(g) = b - a + 1 /\ \A i \in 1 .. b - a + 1 : g[i] = s[a + i - 1]
  BY <1>1, UnitsOfPart DEF Gap
<1>3. DOMAIN g = 1 .. b - a + 1 /\ t \in Seq(STRING) BY <1>1, <1>2, LenProperties, TrimType
<1>4. Speech(s) = {i \in Free(s) : s[i] \notin Blank} BY SpeechOf
<1>5. G = {i \in a .. b : s[i] \notin Blank}
  <2>1. \A i \in Speech(s) : i \in Nat BY SpeechOf
  <2>2. ASSUME NEW i \in G PROVE i \in a .. b /\ s[i] \notin Blank
    BY <1>1, <1>4, <2>1 DEF SpokenInGap
  <2>3. ASSUME NEW i \in a .. b, s[i] \notin Blank PROVE i \in G
    <3>1. i \in Speech(s) /\ a <= i /\ i <= b BY <1>1, <1>4, <2>3
    <3> QED BY <3>1 DEF SpokenInGap
  <2> QED BY <2>2, <2>3
<1> HIDE DEF a, b, g, G
<1>6. \A i \in Solid(g) : a + i - 1 \in G BY <1>1, <1>2, <1>3, <1>5 DEF Solid
<1>7. \A i \in G : i - a + 1 \in Solid(g)
  <2> TAKE i \in G
  <2>1. i - a + 1 \in 1 .. b - a + 1 /\ a + (i - a + 1) - 1 = i BY <1>1, <1>5
  <2>2. g[i - a + 1] = s[i] BY <1>2, <2>1
  <2> QED BY <1>3, <1>5, <2>1, <2>2 DEF Solid
<1>8. CASE Solid(g) = {}
  <2>1. G = {} BY <1>7, <1>8
  <2>2. t = <<>> BY <1>1, <1>8, TrimOf DEF g
  <2> QED BY <2>1, <2>2 DEF G
<1>9. CASE Solid(g) # {}
  <2>1. G # {} BY <1>6, <1>9
  <2>2. PICK c, d \in 1 .. Len(g) :
          /\ c <= d /\ \A i \in Solid(g) : c <= i /\ i <= d
          /\ Len(t) = d - c + 1
          /\ \A i \in 1 .. d - c + 1 : t[i] = g[c + i - 1]
    BY <1>1, <1>9, TrimOf DEF g
  <2>3. c \in Nat /\ d \in Nat /\ 1 <= c /\ d <= b - a + 1
    <3>1. Len(g) \in Nat BY <1>1, LenProperties
    <3> QED BY <1>2, <2>2, <3>1
  <2>4. DOMAIN t = 1 .. d - c + 1 BY <1>3, <2>2, LenProperties
  <2>5. t # <<>>
    <3>1. Len(t) # 0 BY <2>2, <2>3
    <3> QED BY <3>1
  <2> DEFINE o == a + c - 2
             N == {j \in DOMAIN t : t[j] \notin Blank}
             f == [k \in 1 .. Cardinality(N) |-> o + Ascending(N)[k]]
  <2>6. o \in Int BY <1>1, <2>3
  <2>7. \A j \in 1 .. d - c + 1 : t[j] = s[o + j] /\ o + j \in a .. b
    <3> TAKE j \in 1 .. d - c + 1
    <3>1. c + j - 1 \in 1 .. b - a + 1 BY <1>1, <2>3
    <3>2. t[j] = s[a + (c + j - 1) - 1] BY <1>2, <2>2, <3>1
    <3>3. a + (c + j - 1) - 1 = o + j /\ o + j \in a .. b BY <1>1, <2>3, <3>1
    <3> QED BY <3>2, <3>3
  <2> HIDE DEF o
  <2>8. N \in SUBSET (1 .. d - c + 1) /\ d - c + 1 \in Nat BY <2>2, <2>3, <2>4
  <2>9. \A j \in N : j \in Nat /\ o + j \in G BY <1>5, <2>7, <2>8
  <2>10. \A i \in G : \E j \in N : o + j = i
    <3> TAKE i \in G
    <3>1. i - a + 1 \in Solid(g) BY <1>7
    <3>2. c <= i - a + 1 /\ i - a + 1 <= d /\ i \in Nat BY <1>1, <1>5, <2>2, <3>1
    <3> DEFINE j == i - a + 1 - c + 1
    <3>3. j \in 1 .. d - c + 1 /\ o + j = i BY <1>1, <2>3, <3>2 DEF o
    <3> HIDE DEF j
    <3>4. t[j] = s[i] BY <2>7, <3>3
    <3>5. j \in N BY <1>5, <2>4, <3>3, <3>4
    <3> QED BY <3>3, <3>5
  <2>11. /\ Cardinality(N) \in Nat /\ Ascending(N) \in [1 .. Cardinality(N) -> N]
         /\ \A j \in N : \E k \in 1 .. Cardinality(N) : Ascending(N)[k] = j
         /\ \A j, k \in 1 .. Cardinality(N) : j < k => Ascending(N)[j] < Ascending(N)[k]
    BY <2>8, AscendingOf
  <2>12. Without(t, Blank) = [k \in 1 .. Cardinality(N) |-> t[Ascending(N)[k]]]
    <3>1. DOMAIN Ascending(N) = 1 .. Cardinality(N) BY <2>11
    <3> QED BY <3>1 DEF Without, Pick
  <2> HIDE DEF N
  <2>13. f \in [1 .. Cardinality(N) -> G] BY <2>9, <2>11
  <2>14. \A i \in G : \E k \in 1 .. Cardinality(N) : f[k] = i BY <2>10, <2>11
  <2>15. \A j, k \in 1 .. Cardinality(N) : j < k => f[j] < f[k]
    <3> TAKE j, k \in 1 .. Cardinality(N)
    <3>1. Ascending(N)[j] \in Nat /\ Ascending(N)[k] \in Nat BY <2>9, <2>11
    <3>2. f[j] = o + Ascending(N)[j] /\ f[k] = o + Ascending(N)[k] OBVIOUS
    <3> HIDE DEF f
    <3> QED BY <2>6, <2>11, <3>1, <3>2
  <2> HIDE DEF f
  <2>16. G \in SUBSET (1 .. Len(s)) /\ Len(s) \in Nat
    <3>1. Len(s) \in Nat BY SpeechOf
    <3> QED BY <1>1, <1>5, <3>1
  <2>17. Cardinality(N) = Cardinality(G) /\ f = Ascending(G)
    BY <2>11, <2>13, <2>14, <2>15, <2>16, AscendingUnique
  <2>18. Pick(s, G) = [k \in 1 .. Cardinality(N) |-> s[f[k]]]
    <3>1. DOMAIN f = 1 .. Cardinality(N) BY <2>13
    <3> QED BY <2>17, <3>1 DEF Pick
  <2>19. \A k \in 1 .. Cardinality(N) : t[Ascending(N)[k]] = s[f[k]]
    <3> TAKE k \in 1 .. Cardinality(N)
    <3>1. Ascending(N)[k] \in 1 .. d - c + 1 BY <2>8, <2>11
    <3> QED BY <2>7, <3>1 DEF f
  <2>20. Without(t, Blank) = Pick(s, G) BY <2>12, <2>18, <2>19
  <2> QED BY <2>1, <2>5, <2>20 DEF G
<1> QED BY <1>8, <1>9

------------------------------------------------------------------------------
(* Tags that wait for a text.                                                 *)

TagName(s, m) == NameOf(s, Matches(s)[m])[1]
HasTag(s, dialect, m) == Named(s, Matches(s)[m], dialect)
\* The matches up to n whose tags wait for the text behind match n.
WaitingAt(s, dialect, n) ==
  {m \in 1 .. n : /\ HasTag(s, dialect, m)
                  /\ \A h \in Speech(s) : h < GapFrom(s, n) => h < Opens(s, m)
                  /\ \A l \in m + 1 .. n : HasTag(s, dialect, l)}
WaitingTags(s, dialect, n) == {TagName(s, m) : m \in WaitingAt(s, dialect, n)}
StillWaiting(s, dialect, n) ==
  IF SpokenInGap(s, n) = {} THEN WaitingTags(s, dialect, n) ELSE {}

\* The tags of a stretch are those that wait when it begins.
LEMMA TagsAreThoseWaiting ==
  ASSUME NEW s \in Seq(STRING), NEW dialect, NEW n \in 0 .. Count(s), SpokenInGap(s, n) # {},
         NEW f, f = Min(SpokenInGap(s, n))
  PROVE  TagsBefore(s, ToSet(Matches(s)), Speech(s), f, dialect) = WaitingTags(s, dialect, n)
<1> DEFINE M == ToSet(Matches(s))
           C == {m \in M : /\ Named(s, m, dialect) /\ m[2] < f
                           /\ \A h \in Speech(s) : h < f => h < m[1]
                           /\ \A k \in M : m[1] < k[1] /\ k[2] < f => Named(s, k, dialect)}
           W == WaitingAt(s, dialect, n)
<1>1. M = {Matches(s)[m] : m \in 1 .. Count(s)} BY MatchesOf DEF ToSet
<1>2. \A m \in 1 .. Count(s) : /\ Matches(s)[m][1] = Opens(s, m) /\ Matches(s)[m][2] = Closes(s, m)
                               /\ Opens(s, m) \in Nat /\ Closes(s, m) \in Nat
                               /\ Opens(s, m) < Closes(s, m)
  BY MatchesOf DEF Opens, Closes
<1>3. \A l, m \in 1 .. Count(s) : l < m => Closes(s, l) < Opens(s, m) BY MatchesOf
<1>4. f \in SpokenInGap(s, n) /\ \A i \in SpokenInGap(s, n) : f <= i BY GapIsStretch
<1>5. Speech(s) \in SUBSET Nat BY SpeechOf
<1>6. f \in Nat /\ f \in Speech(s) /\ GapFrom(s, n) <= f /\ f <= GapTo(s, n) BY <1>4, <1>5 DEF SpokenInGap
<1>7. GapFrom(s, n) \in Nat /\ GapTo(s, n) \in Nat BY GapOf
<1>8. Count(s) \in Nat /\ n \in Nat /\ n <= Count(s) BY MatchesOf
<1>9. \A m \in 1 .. Count(s) : Closes(s, m) < f <=> m <= n
  <2> TAKE m \in 1 .. Count(s)
  <2>1. m <= n => Closes(s, m) < GapFrom(s, n)
    <3>1. m <= n => m \in 1 .. n BY <1>8
    <3> QED BY <3>1, GapOf
  <2>2. n < m => GapTo(s, n) < Opens(s, m)
    <3>1. n < m => m \in n + 1 .. Count(s) BY <1>8
    <3> QED BY <3>1, GapOf
  <2>3. m \in Nat OBVIOUS
  <2>4. m <= n => Closes(s, m) < f BY <1>2, <1>6, <1>7, <2>1
  <2>5. n < m => ~ (Closes(s, m) < f) BY <1>2, <1>6, <1>7, <2>2
  <2> QED BY <1>8, <2>3, <2>4, <2>5
<1>10. \A h \in Speech(s) : h < f <=> h < GapFrom(s, n)
  <2> TAKE h \in Speech(s)
  <2>1. h \in Nat BY <1>5
  <2>2. GapFrom(s, n) <= h /\ h <= GapTo(s, n) => f <= h BY <1>4 DEF SpokenInGap
  <2> QED BY <1>6, <1>7, <2>1, <2>2
<1>11. \A l, m \in 1 .. Count(s) : Opens(s, m) < Opens(s, l) <=> m < l
  <2> TAKE l, m \in 1 .. Count(s)
  <2>1. l \in Nat /\ m \in Nat OBVIOUS
  <2>2. m < l => Opens(s, m) < Opens(s, l) BY <1>2, <1>3
  <2>3. l < m => ~ (Opens(s, m) < Opens(s, l)) BY <1>2, <1>3
  <2>4. l = m => ~ (Opens(s, m) < Opens(s, l)) BY <1>2
  <2> QED BY <2>1, <2>2, <2>3, <2>4
<1>12. ASSUME NEW m \in 1 .. Count(s) PROVE Matches(s)[m] \in C <=> m \in W
  <2>1. Closes(s, m) < f <=> m \in 1 .. n BY <1>8, <1>9
  <2>2. (\A h \in Speech(s) : h < f => h < Matches(s)[m][1])
          <=> \A h \in Speech(s) : h < GapFrom(s, n) => h < Opens(s, m)
    BY <1>2, <1>10
  <2>3. ASSUME m <= n
        PROVE  (\A k \in M : Matches(s)[m][1] < k[1] /\ k[2] < f => Named(s, k, dialect))
                 <=> \A l \in m + 1 .. n : HasTag(s, dialect, l)
    <3>1. (\A k \in M : Matches(s)[m][1] < k[1] /\ k[2] < f => Named(s, k, dialect))
            <=> \A l \in 1 .. Count(s) : Opens(s, m) < Opens(s, l) /\ Closes(s, l) < f => HasTag(s, dialect, l)
      BY <1>1, <1>2 DEF HasTag
    <3>2. \A l \in 1 .. Count(s) : Opens(s, m) < Opens(s, l) /\ Closes(s, l) < f <=> l \in m + 1 .. n
      <4> TAKE l \in 1 .. Count(s)
      <4>1. Opens(s, m) < Opens(s, l) <=> m < l BY <1>11
      <4>2. Closes(s, l) < f <=> l <= n BY <1>9
      <4> QED BY <1>8, <4>1, <4>2
    <3>3. \A l \in m + 1 .. n : l \in 1 .. Count(s) BY <1>8
    <3> QED BY <3>1, <3>2, <3>3
  <2>4. Matches(s)[m] \in M BY <1>1
  <2>5. Matches(s)[m] \in C <=>
          /\ HasTag(s, dialect, m) /\ m \in 1 .. n
          /\ \A h \in Speech(s) : h < GapFrom(s, n) => h < Opens(s, m)
          /\ \A k \in M : Matches(s)[m][1] < k[1] /\ k[2] < f => Named(s, k, dialect)
    BY <1>2, <2>1, <2>2, <2>4 DEF HasTag
  <2> HIDE DEF C
  <2>6. m \in 1 .. n <=> m <= n BY <1>8
  <2> QED BY <2>3, <2>5, <2>6 DEF WaitingAt
<1>13. \A m \in W : m \in 1 .. Count(s) BY <1>8 DEF WaitingAt
<1>14. TagsBefore(s, M, Speech(s), f, dialect) = {NameOf(s, m)[1] : m \in C} BY DEF TagsBefore
<1>15. \A m \in C : m \in M OBVIOUS
<1> HIDE DEF C, W
<1>16. {NameOf(s, m)[1] : m \in C} = {TagName(s, m) : m \in W}
  <2>1. ASSUME NEW m \in C PROVE \E k \in W : NameOf(s, m)[1] = TagName(s, k)
    BY <1>1, <1>12, <1>15 DEF TagName
  <2>2. ASSUME NEW k \in W PROVE \E m \in C : NameOf(s, m)[1] = TagName(s, k)
    BY <1>12, <1>13 DEF TagName
  <2> QED BY <2>1, <2>2
<1> QED BY <1>14, <1>16 DEF WaitingTags, W, M

\* What waits behind one match more.
LEMMA WaitingNext ==
  ASSUME NEW s \in Seq(STRING), NEW dialect, NEW n \in 1 .. Count(s)
  PROVE  WaitingTags(s, dialect, n)
           = IF HasTag(s, dialect, n) THEN StillWaiting(s, dialect, n - 1) \cup {TagName(s, n)} ELSE {}
<1>1. Count(s) \in Nat /\ n \in Nat /\ 1 <= n /\ n <= Count(s) /\ n - 1 \in 0 .. Count(s) BY MatchesOf
<1>2. \A m \in 1 .. Count(s) : /\ Opens(s, m) \in Nat /\ Closes(s, m) \in Nat
                               /\ Opens(s, m) < Closes(s, m)
  BY MatchesOf
<1>3. Speech(s) \in SUBSET Nat BY SpeechOf
<1>4. GapFrom(s, n) \in Nat /\ GapFrom(s, n - 1) \in Nat /\ GapTo(s, n - 1) \in Nat BY <1>1, GapOf
<1>5. GapTo(s, n - 1) = Opens(s, n) - 1 BY <1>1 DEF GapTo
<1>6. GapFrom(s, n) = Closes(s, n) + 1 BY <1>1 DEF GapFrom
<1>7. \A h \in Speech(s) : h < GapFrom(s, n) <=> h <= GapTo(s, n - 1)
  <2> TAKE h \in Speech(s)
  <2>1. h \in Nat BY <1>3
  <2>2. h < GapFrom(s, n) => h < Opens(s, n)
    <3>1. n \in 0 .. Count(s) BY <1>1
    <3> QED BY <3>1, SpokenOutside
  <2> QED BY <1>2, <1>5, <1>6, <2>1, <2>2
<1>8. CASE ~ HasTag(s, dialect, n)
  <2>1. ASSUME NEW m \in WaitingAt(s, dialect, n) PROVE FALSE
    <3>1. /\ m \in 1 .. n /\ HasTag(s, dialect, m) /\ \A l \in m + 1 .. n : HasTag(s, dialect, l)
      BY DEF WaitingAt
    <3>2. m = n \/ n \in m + 1 .. n BY <1>1, <3>1
    <3> QED BY <1>8, <3>1, <3>2
  <2> QED BY <1>8, <2>1 DEF WaitingTags
<1>9. CASE HasTag(s, dialect, n)
  <2>1. n \in WaitingAt(s, dialect, n)
    <3>1. \A h \in Speech(s) : h < GapFrom(s, n) => h < Opens(s, n)
      BY <1>2, <1>3, <1>5, <1>7
    <3>2. \A l \in n + 1 .. n : FALSE BY <1>1
    <3>3. n \in 1 .. n BY <1>1
    <3> QED BY <1>9, <3>1, <3>2, <3>3 DEF WaitingAt
  <2>2. ASSUME NEW m \in 1 .. n - 1
        PROVE  m \in WaitingAt(s, dialect, n)
                 <=> SpokenInGap(s, n - 1) = {} /\ m \in WaitingAt(s, dialect, n - 1)
    <3>1. m \in 1 .. n /\ m \in 1 .. Count(s) BY <1>1
    <3>2. (\A l \in m + 1 .. n : HasTag(s, dialect, l)) <=> \A l \in m + 1 .. n - 1 : HasTag(s, dialect, l)
      <4>1. \A l \in m + 1 .. n : l \in m + 1 .. n - 1 \/ l = n BY <1>1
      <4>2. \A l \in m + 1 .. n - 1 : l \in m + 1 .. n BY <1>1
      <4> QED BY <1>9, <4>1, <4>2
    <3>3. Closes(s, m) < GapFrom(s, n - 1) BY <1>1, GapOf
    <3>4. (\A h \in Speech(s) : h < GapFrom(s, n) => h < Opens(s, m))
            <=> /\ SpokenInGap(s, n - 1) = {}
                /\ \A h \in Speech(s) : h < GapFrom(s, n - 1) => h < Opens(s, m)
      <4>1. ASSUME \A h \in Speech(s) : h < GapFrom(s, n) => h < Opens(s, m)
            PROVE  /\ SpokenInGap(s, n - 1) = {}
                   /\ \A h \in Speech(s) : h < GapFrom(s, n - 1) => h < Opens(s, m)
        <5>1. ASSUME NEW h \in SpokenInGap(s, n - 1) PROVE FALSE
          <6>1. h \in Speech(s) /\ h \in Nat /\ GapFrom(s, n - 1) <= h /\ h <= GapTo(s, n - 1)
            BY <1>3 DEF SpokenInGap
          <6>2. h < Opens(s, m) BY <1>7, <4>1, <6>1
          <6> QED BY <1>2, <1>4, <3>1, <3>3, <6>1, <6>2
        <5>2. ASSUME NEW h \in Speech(s), h < GapFrom(s, n - 1) PROVE h < Opens(s, m)
          <6>1. h \in Nat /\ GapFrom(s, n - 1) <= GapTo(s, n - 1) + 1 BY <1>1, <1>3, GapOf
          <6>2. h <= GapTo(s, n - 1) BY <1>4, <5>2, <6>1
          <6> QED BY <1>7, <4>1, <6>2
        <5> QED BY <5>1, <5>2
      <4>2. ASSUME SpokenInGap(s, n - 1) = {},
                   \A h \in Speech(s) : h < GapFrom(s, n - 1) => h < Opens(s, m),
                   NEW h \in Speech(s), h < GapFrom(s, n)
            PROVE  h < Opens(s, m)
        <5>1. h \in Nat /\ h <= GapTo(s, n - 1) BY <1>3, <1>7, <4>2
        <5>2. h \notin SpokenInGap(s, n - 1) BY <4>2
        <5>3. ~ (GapFrom(s, n - 1) <= h) BY <5>1, <5>2 DEF SpokenInGap
        <5> QED BY <1>4, <4>2, <5>1, <5>3
      <4> QED BY <4>1, <4>2
    <3> QED BY <3>1, <3>2, <3>4 DEF WaitingAt
  <2>3. \A m \in WaitingAt(s, dialect, n) : m \in 1 .. n - 1 \/ m = n BY <1>1 DEF WaitingAt
  <2>4. \A m \in WaitingAt(s, dialect, n - 1) : m \in 1 .. n - 1 BY DEF WaitingAt
  <2>5. WaitingTags(s, dialect, n) = StillWaiting(s, dialect, n - 1) \cup {TagName(s, n)}
    <3>1. ASSUME NEW v \in WaitingTags(s, dialect, n)
          PROVE  v \in StillWaiting(s, dialect, n - 1) \cup {TagName(s, n)}
      <4>1. PICK m \in WaitingAt(s, dialect, n) : v = TagName(s, m) BY DEF WaitingTags
      <4>2. CASE m = n BY <4>1, <4>2
      <4>3. CASE m \in 1 .. n - 1
        <5>1. SpokenInGap(s, n - 1) = {} /\ m \in WaitingAt(s, dialect, n - 1) BY <2>2, <4>1, <4>3
        <5> QED BY <4>1, <5>1 DEF StillWaiting, WaitingTags
      <4> QED BY <2>3, <4>1, <4>2, <4>3
    <3>2. ASSUME NEW v \in StillWaiting(s, dialect, n - 1) PROVE v \in WaitingTags(s, dialect, n)
      <4>1. SpokenInGap(s, n - 1) = {} BY DEF StillWaiting
      <4>2. PICK m \in WaitingAt(s, dialect, n - 1) : v = TagName(s, m)
        BY <4>1 DEF StillWaiting, WaitingTags
      <4>3. m \in WaitingAt(s, dialect, n) BY <2>2, <2>4, <4>1, <4>2
      <4> QED BY <4>2, <4>3 DEF WaitingTags
    <3>3. TagName(s, n) \in WaitingTags(s, dialect, n) BY <2>1 DEF WaitingTags
    <3> QED BY <3>1, <3>2, <3>3
  <2> QED BY <1>9, <2>5
<1> QED BY <1>8, <1>9

------------------------------------------------------------------------------
(* Every stretch is compiled, with its tags.                                  *)

\* Segment g is the stretch that begins at i.
PieceAt(s, dialect, g, i) ==
  /\ ToSet(g.tags) = TagsBefore(s, ToSet(Matches(s)), Speech(s), i, dialect)
  /\ Without(g.text, Blank) = Pick(s, StretchAt(s, i))

BeginsBy(s, p) == {i \in Beginnings(s) : i <= p}

\* The segments are the stretches that begin at or before p, which at lists.
Compiled(s, dialect, segments, p, at) ==
  /\ at \in [1 .. Len(segments) -> BeginsBy(s, p)]
  /\ \A i \in BeginsBy(s, p) : \E k \in 1 .. Len(segments) : at[k] = i
  /\ \A j, k \in 1 .. Len(segments) : j < k => at[j] < at[k]
  /\ \A k \in 1 .. Len(segments) : PieceAt(s, dialect, segments[k], at[k])

StretchInv(s, dialect, x, n) ==
  /\ ToSet(x.pending) = WaitingTags(s, dialect, n)
  /\ \E at : Compiled(s, dialect, x.segments, GapFrom(s, n) - 1, at)

\* The same once the text behind match n has been appended.
StretchDone(s, dialect, x, n) ==
  /\ ToSet(x.pending) = StillWaiting(s, dialect, n)
  /\ \E at : Compiled(s, dialect, x.segments, GapTo(s, n), at)

LEMMA EmptyToSet == ToSet(<<>>) = {}
  BY DEF ToSet

LEMMA AppendStretch ==
  ASSUME NEW s \in Seq(STRING), NEW dialect, NEW n \in 0 .. Count(s), NEW x \in Read,
         StretchInv(s, dialect, x, n)
  PROVE  StretchDone(s, dialect, AppendText(x, Gap(s, n)), n)
<1> DEFINE t == Trim(Gap(s, n))  y == AppendText(x, Gap(s, n))
           g == [tags |-> x.pending, text |-> t]
           a == GapFrom(s, n)  b == GapTo(s, n)
           L == Len(x.segments)
<1>1. Gap(s, n) \in Seq(STRING) /\ a \in Nat /\ b \in Nat /\ a <= b + 1 BY GapOf
<1>2. t \in Seq(STRING) BY <1>1, TrimType
<1>3. /\ t = <<>> => y = x
      /\ t # <<>> => y.pending = <<>> /\ y.segments = Append(x.segments, g)
  BY <1>1, AppendTextOf
<1>4. /\ t = <<>> <=> SpokenInGap(s, n) = {}
      /\ t # <<>> => Without(t, Blank) = Pick(s, SpokenInGap(s, n))
  BY GapSays
<1>5. PICK at : Compiled(s, dialect, x.segments, a - 1, at) BY DEF StretchInv
<1>6. ToSet(x.pending) = WaitingTags(s, dialect, n) BY DEF StretchInv
<1>7. \A i \in Beginnings(s) : i \in Nat /\ i \in Speech(s) BY SpeechOf
<1>8. x.segments \in Seq(Piece) /\ x.pending \in Seq(Tags) /\ L \in Nat BY LenProperties DEF Read
<1> HIDE DEF t, y, a, b
<1>9. CASE t = <<>>
  <2>1. BeginsBy(s, a - 1) = BeginsBy(s, b)
    <3>1. ASSUME NEW i \in Beginnings(s) PROVE i <= a - 1 <=> i <= b
      <4>1. ~ (a <= i /\ i <= b) BY <1>4, <1>7, <1>9 DEF SpokenInGap, a, b
      <4> QED BY <1>1, <1>7, <4>1
    <3> QED BY <3>1 DEF BeginsBy
  <2>2. Compiled(s, dialect, x.segments, b, at) BY <1>5, <2>1 DEF Compiled
  <2>3. ToSet(x.pending) = StillWaiting(s, dialect, n) BY <1>4, <1>6, <1>9 DEF StillWaiting
  <2>4. StretchDone(s, dialect, x, n) BY <2>2, <2>3 DEF StretchDone, b
  <2> QED BY <1>3, <1>9, <2>4 DEF y
<1>10. CASE t # <<>>
  <2> DEFINE f == Min(SpokenInGap(s, n))
             more == [k \in 1 .. L + 1 |-> IF k = L + 1 THEN f ELSE at[k]]
  <2>1. SpokenInGap(s, n) # {} BY <1>4, <1>10
  <2>2. /\ f \in SpokenInGap(s, n)
        /\ f \in Beginnings(s)
        /\ \A j \in Beginnings(s) : a <= j /\ j <= b => j = f
        /\ StretchAt(s, f) = SpokenInGap(s, n)
    BY <2>1, GapIsStretch DEF a, b
  <2>3. TagsBefore(s, ToSet(Matches(s)), Speech(s), f, dialect) = WaitingTags(s, dialect, n)
    BY <2>1, TagsAreThoseWaiting
  <2>4. f \in Nat /\ a <= f /\ f <= b BY <1>7, <2>2 DEF SpokenInGap, a, b
  <2> HIDE DEF f
  <2>5. g \in Piece /\ g.tags = x.pending /\ g.text = t BY <1>2, <1>8 DEF Piece
  <2> HIDE DEF g
  <2>6. PieceAt(s, dialect, g, f)
    BY <1>4, <1>6, <1>10, <2>2, <2>3, <2>5 DEF PieceAt
  <2>7. /\ Len(y.segments) = L + 1
        /\ \A k \in 1 .. L : y.segments[k] = x.segments[k]
        /\ y.segments[L + 1] = g
    BY <1>3, <1>8, <1>10, <2>5, AppendProperties
  <2>8. /\ at \in [1 .. L -> BeginsBy(s, a - 1)]
        /\ \A i \in BeginsBy(s, a - 1) : \E k \in 1 .. L : at[k] = i
        /\ \A j, k \in 1 .. L : j < k => at[j] < at[k]
        /\ \A k \in 1 .. L : PieceAt(s, dialect, x.segments[k], at[k])
    BY <1>5 DEF Compiled
  <2> HIDE DEF L
  <2>9. /\ \A k \in 1 .. L : k \in 1 .. L + 1 /\ k # L + 1
        /\ L + 1 \in 1 .. L + 1
        /\ \A k \in 1 .. L + 1 : k \in 1 .. L \/ k = L + 1
    BY <1>8
  <2>10. (\A k \in 1 .. L : more[k] = at[k]) /\ more[L + 1] = f BY <2>9
  <2>11. BeginsBy(s, b) = BeginsBy(s, a - 1) \cup {f}
    <3>1. ASSUME NEW i \in Beginnings(s) PROVE i <= b <=> (i <= a - 1 \/ i = f)
      BY <1>1, <1>7, <2>2, <2>4
    <3> QED BY <2>2, <3>1 DEF BeginsBy
  <2>12. more \in [1 .. L + 1 -> BeginsBy(s, b)] BY <2>8, <2>9, <2>11
  <2> HIDE DEF more
  <2>13. \A i \in BeginsBy(s, b) : \E k \in 1 .. L + 1 : more[k] = i
    BY <2>8, <2>9, <2>10, <2>11
  <2>14. \A j, k \in 1 .. L + 1 : j < k => more[j] < more[k]
    <3> TAKE j, k \in 1 .. L + 1
    <3>1. CASE j \in 1 .. L /\ k \in 1 .. L BY <2>8, <2>10, <3>1
    <3>2. CASE j \in 1 .. L /\ k = L + 1
      <4>1. at[j] \in BeginsBy(s, a - 1) BY <2>8, <3>2
      <4>2. at[j] \in Nat /\ at[j] <= a - 1 BY <1>7, <4>1 DEF BeginsBy
      <4>3. at[j] < f BY <1>1, <2>4, <4>2
      <4> QED BY <2>10, <3>2, <4>3
    <3>3. CASE j = L + 1
      <4>1. ~ (j < k) BY <1>8, <3>3
      <4> QED BY <4>1
    <3> QED BY <2>9, <3>1, <3>2, <3>3
  <2>15. \A k \in 1 .. L + 1 : PieceAt(s, dialect, y.segments[k], more[k])
    BY <2>6, <2>7, <2>8, <2>9, <2>10
  <2>16. Compiled(s, dialect, y.segments, b, more)
    BY <2>7, <2>12, <2>13, <2>14, <2>15 DEF Compiled
  <2>17. ToSet(y.pending) = StillWaiting(s, dialect, n)
    BY <1>3, <1>10, <2>1, EmptyToSet DEF StillWaiting
  <2>18. StretchDone(s, dialect, y, n) BY <2>16, <2>17 DEF StretchDone, b
  <2> QED BY <2>18 DEF y
<1> QED BY <1>9, <1>10

LEMMA TagStretch ==
  ASSUME NEW s \in Seq(STRING), NEW dialect \in Dialects, NEW n \in 1 .. Count(s), NEW x \in Read,
         x.cursor = GapFrom(s, n - 1), StretchInv(s, dialect, x, n - 1)
  PROVE  StretchInv(s, dialect, ReadOne(s, dialect, x, n), n)
<1> DEFINE b == AppendText(x, Gap(s, n - 1))  y == ReadOne(s, dialect, x, n)
           m == Matches(s)[n]  name == NameOf(s, m)[1]
<1>1. Count(s) \in Nat /\ n \in Nat /\ 1 <= n /\ n <= Count(s) /\ n - 1 \in 0 .. Count(s) BY MatchesOf
<1>2. AfterTag(s, dialect, m, b, y, name) BY TagOf
<1>3. StretchDone(s, dialect, b, n - 1) BY <1>1, AppendStretch
<1>4. name = TagName(s, n) /\ (Named(s, m, dialect) <=> HasTag(s, dialect, n)) BY DEF TagName, HasTag
<1> HIDE DEF b, y, m, name
<1>5. ToSet(y.pending) = WaitingTags(s, dialect, n)
  <2>1. WaitingTags(s, dialect, n)
          = IF HasTag(s, dialect, n) THEN StillWaiting(s, dialect, n - 1) \cup {name} ELSE {}
    BY <1>4, WaitingNext
  <2>2. ToSet(b.pending) = StillWaiting(s, dialect, n - 1) BY <1>3 DEF StretchDone
  <2>3. CASE HasTag(s, dialect, n)
    <3>1. /\ b \in Read /\ name \in Tags
          /\ y.pending = IF name \in ToSet(b.pending) THEN b.pending ELSE Append(b.pending, name)
      BY <1>2, <1>4, <2>3 DEF AfterTag
    <3>2. b.pending \in Seq(Tags) BY <3>1 DEF Read
    <3>3. ToSet(y.pending) = ToSet(b.pending) \cup {name}
      <4>1. CASE name \in ToSet(b.pending) BY <3>1, <4>1
      <4>2. CASE name \notin ToSet(b.pending)
        <5>1. y.pending = Append(b.pending, name) BY <3>1, <4>2
        <5> QED BY <3>1, <3>2, <5>1, AppendedToSet
      <4> QED BY <4>1, <4>2
    <3> QED BY <2>1, <2>2, <2>3, <3>3
  <2>4. CASE ~ HasTag(s, dialect, n)
    <3>1. y.pending = <<>> BY <1>2, <1>4, <2>4 DEF AfterTag
    <3> QED BY <2>1, <2>4, <3>1, EmptyToSet
  <2> QED BY <2>3, <2>4
<1>6. y.segments = b.segments BY <1>2 DEF AfterTag
<1>7. PICK at : Compiled(s, dialect, b.segments, GapTo(s, n - 1), at) BY <1>3 DEF StretchDone
<1>8. BeginsBy(s, GapTo(s, n - 1)) = BeginsBy(s, GapFrom(s, n) - 1)
  <2>1. GapTo(s, n - 1) = Opens(s, n) - 1 BY <1>1 DEF GapTo
  <2>2. GapFrom(s, n) = Closes(s, n) + 1 BY <1>1 DEF GapFrom
  <2>3. Opens(s, n) \in Nat /\ Closes(s, n) \in Nat /\ Opens(s, n) < Closes(s, n) BY MatchesOf
  <2>4. ASSUME NEW i \in Beginnings(s) PROVE i <= GapTo(s, n - 1) <=> i <= GapFrom(s, n) - 1
    <3>1. i \in Nat /\ i \in Speech(s) BY SpeechOf
    <3>2. i < GapFrom(s, n) => i < Opens(s, n)
      <4>1. n \in 0 .. Count(s) BY <1>1
      <4> QED BY <3>1, <4>1, SpokenOutside
    <3> QED BY <2>1, <2>2, <2>3, <3>1, <3>2
  <2> QED BY <2>4 DEF BeginsBy
<1>9. Compiled(s, dialect, y.segments, GapFrom(s, n) - 1, at) BY <1>6, <1>7, <1>8 DEF Compiled
<1>10. StretchInv(s, dialect, y, n) BY <1>5, <1>9 DEF StretchInv
<1> QED BY <1>10 DEF y

LEMMA StretchStart ==
  ASSUME NEW s \in Seq(STRING), NEW dialect PROVE StretchInv(s, dialect, Start, 0)
<1>1. Start.segments = <<>> /\ Start.pending = <<>> BY DEF Start
<1>2. WaitingTags(s, dialect, 0) = {} BY DEF WaitingTags, WaitingAt
<1>3. BeginsBy(s, GapFrom(s, 0) - 1) = {}
  <2>1. GapFrom(s, 0) - 1 = 0 BY DEF GapFrom
  <2>2. \A i \in Beginnings(s) : i \in Nat /\ 1 <= i BY SpeechOf
  <2> QED BY <2>1, <2>2 DEF BeginsBy
<1>4. Compiled(s, dialect, <<>>, GapFrom(s, 0) - 1, <<>>)
  <2>1. Len(<<>>) = 0 /\ 1 .. 0 = {} OBVIOUS
  <2>2. <<>> \in [{} -> {}] OBVIOUS
  <2> QED BY <1>3, <2>1, <2>2 DEF Compiled
<1> QED BY <1>1, <1>2, <1>4, EmptyToSet DEF StretchInv

LEMMA StretchKeeps ==
  ASSUME NEW s \in Seq(STRING), NEW dialect \in Dialects
  PROVE  \A n \in 0 .. Count(s) : StretchInv(s, dialect, Reading(s, dialect)[n], n)
<1> DEFINE r == Reading(s, dialect)
           Bad == {n \in 0 .. Count(s) : ~ StretchInv(s, dialect, r[n], n)}
<1> SUFFICES ASSUME Bad # {} PROVE FALSE OBVIOUS
<1>1. Count(s) \in Nat BY MatchesOf
<1>2. r[0] = Start /\ \A n \in 1 .. Count(s) : r[n] = ReadOne(s, dialect, r[n - 1], n)
  BY ReadingOf DEF ReadOne
<1>3. \A n \in 0 .. Count(s) : ReadInv(s, dialect, r[n], n) BY ReadingKeeps
<1> HIDE DEF r
<1>4. Bad \in SUBSET Nat BY <1>1
<1>5. PICK n \in Bad : \A m \in Bad : n <= m BY <1>4, LeastNatural
<1>6. n \in 0 .. Count(s) /\ ~ StretchInv(s, dialect, r[n], n) BY <1>5
<1>7. n # 0 BY <1>2, <1>6, StretchStart
<1>8. n \in 1 .. Count(s) /\ n - 1 \in 0 .. Count(s) /\ ~ (n <= n - 1) BY <1>1, <1>6, <1>7
<1>9. StretchInv(s, dialect, r[n - 1], n - 1) BY <1>5, <1>8
<1>10. r[n - 1] \in Read /\ r[n - 1].cursor = GapFrom(s, n - 1) BY <1>3, <1>8 DEF ReadInv
<1>11. StretchInv(s, dialect, ReadOne(s, dialect, r[n - 1], n), n) BY <1>8, <1>9, <1>10, TagStretch
<1> QED BY <1>2, <1>6, <1>8, <1>11

LEMMA ScriptIsCompiled ==
  ASSUME NEW s \in Seq(STRING), NEW dialect \in Dialects, NEW x, x = ReadScript(s, dialect)
  PROVE  /\ StretchDone(s, dialect, x, Count(s))
         /\ Len(x.segments) = Cardinality(Beginnings(s))
         /\ Compiled(s, dialect, x.segments, Len(s), Ascending(Beginnings(s)))
         /\ BeginsBy(s, Len(s)) = Beginnings(s)
<1> DEFINE r == Reading(s, dialect)[Count(s)]  L == Len(x.segments)
<1>1. Count(s) \in Nat /\ Count(s) \in 0 .. Count(s)
  <2>1. Count(s) \in Nat BY MatchesOf
  <2> QED BY <2>1
<1>2. x = AppendText(r, Gap(s, Count(s))) BY ReadScriptOf
<1>3. r \in Read BY <1>1, ReadingKeeps DEF ReadInv
<1>4. StretchInv(s, dialect, r, Count(s)) BY <1>1, StretchKeeps
<1> HIDE DEF r
<1>5. StretchDone(s, dialect, x, Count(s)) BY <1>1, <1>2, <1>3, <1>4, AppendStretch
<1>6. x \in Read BY CompileOf
<1>7. GapTo(s, Count(s)) = Len(s) BY DEF GapTo
<1>8. PICK at : Compiled(s, dialect, x.segments, Len(s), at) BY <1>5, <1>7 DEF StretchDone
<1>9. BeginsBy(s, Len(s)) = Beginnings(s)
  <2>1. \A i \in Beginnings(s) : i <= Len(s) BY SpeechOf
  <2> QED BY <2>1 DEF BeginsBy
<1>10. L \in Nat BY <1>6, LenProperties DEF Read
<1> HIDE DEF L
<1>11. /\ at \in [1 .. L -> Beginnings(s)]
       /\ \A i \in Beginnings(s) : \E k \in 1 .. L : at[k] = i
       /\ \A j, k \in 1 .. L : j < k => at[j] < at[k]
  BY <1>8, <1>9 DEF Compiled, L
<1>12. Beginnings(s) \in SUBSET (1 .. Len(s)) /\ Len(s) \in Nat BY SpeechOf
<1>13. L = Cardinality(Beginnings(s)) /\ at = Ascending(Beginnings(s))
  BY <1>10, <1>11, <1>12, AscendingUnique
<1> QED BY <1>5, <1>8, <1>9, <1>13 DEF L

\* The compiled segments are the spoken stretches of the script, each with the
\* tags written since the stretch before it (compileExpressionScript).
THEOREM EveryTagReachesItsText == \A s \in Seq(STRING) : SegmentsAreStretches(s)
<1> SUFFICES ASSUME NEW s \in Seq(STRING), NEW dialect \in Dialects
             PROVE  LET segments == Compile(s, dialect).segments
                        first == Ascending(Beginnings(s))
                    IN /\ Len(segments) = Len(first)
                       /\ \A n \in DOMAIN segments :
                            /\ ToSet(segments[n].tags)
                                 = TagsBefore(s, ToSet(Matches(s)), Speech(s), first[n], dialect)
                            /\ Without(segments[n].text, Blank) = Pick(s, StretchAt(s, first[n]))
  BY Zenon DEF SegmentsAreStretches, Beginnings, Speech, StretchAt
<1> DEFINE c == Compile(s, dialect)  x == ReadScript(s, dialect)
           first == Ascending(Beginnings(s))  L == Len(x.segments)
<1>1. /\ L = Cardinality(Beginnings(s)) /\ BeginsBy(s, Len(s)) = Beginnings(s)
      /\ Compiled(s, dialect, x.segments, Len(s), first)
  BY ScriptIsCompiled
<1>2. x \in Read /\ c.segments = [i \in 1 .. L |-> Segment(x.segments, i)]
  BY CompileOf
<1> HIDE DEF x, c
<1>3. L \in Nat BY <1>2, LenProperties DEF Read
<1> HIDE DEF L
<1>4. /\ first \in [1 .. L -> Beginnings(s)]
      /\ \A k \in 1 .. L : PieceAt(s, dialect, x.segments[k], first[k])
  BY <1>1 DEF Compiled, L
<1> HIDE DEF first
<1>5. Len(first) = L BY <1>3, <1>4, SeqOfFunction
<1>6. c.segments \in [1 .. L -> {Segment(x.segments, i) : i \in 1 .. L}] BY <1>2
<1>7. Len(c.segments) = L /\ DOMAIN c.segments = 1 .. L BY <1>3, <1>6, SeqOfFunction
<1>8. ASSUME NEW n \in 1 .. L
      PROVE  /\ ToSet(c.segments[n].tags)
                  = TagsBefore(s, ToSet(Matches(s)), Speech(s), first[n], dialect)
             /\ Without(c.segments[n].text, Blank) = Pick(s, StretchAt(s, first[n]))
  <2>1. c.segments[n] = Segment(x.segments, n) BY <1>2
  <2>2. c.segments[n].tags = x.segments[n].tags /\ c.segments[n].text = x.segments[n].text
    BY <2>1 DEF Segment
  <2>3. PieceAt(s, dialect, x.segments[n], first[n]) BY <1>4
  <2> QED BY <2>2, <2>3 DEF PieceAt
<1> QED BY <1>5, <1>7, <1>8 DEF c, first

------------------------------------------------------------------------------
(* What is valid.                                                             *)

\* No tag waits in the end if and only if each is followed by a text.
LEMMA NothingWaits ==
  ASSUME NEW s \in Seq(STRING), NEW dialect,
         \A n \in 1 .. Count(s) : HasTag(s, dialect, n)
  PROVE  StillWaiting(s, dialect, Count(s)) = {}
           <=> \A n \in 1 .. Count(s) : \E i \in Speech(s) : Closes(s, n) < i
<1>1. Count(s) \in Nat /\ Count(s) \in 0 .. Count(s)
  <2>1. Count(s) \in Nat BY MatchesOf
  <2> QED BY <2>1
<1>2. /\ GapFrom(s, Count(s)) \in Nat
      /\ \A m \in 1 .. Count(s) : Closes(s, m) < GapFrom(s, Count(s))
  BY <1>1, GapOf
<1>3. \A h \in Speech(s) : h \in Nat /\ h <= Len(s) BY SpeechOf
<1>4. GapTo(s, Count(s)) = Len(s) BY DEF GapTo
<1>5. \A m \in 1 .. Count(s) : Opens(s, m) \in Nat /\ Closes(s, m) \in Nat BY MatchesOf
<1>6. ASSUME StillWaiting(s, dialect, Count(s)) = {}, NEW n \in 1 .. Count(s)
      PROVE  \E i \in Speech(s) : Closes(s, n) < i
  <2> SUFFICES ASSUME \A i \in Speech(s) : ~ (Closes(s, n) < i) PROVE FALSE OBVIOUS
  <2>1. SpokenInGap(s, Count(s)) = {}
    <3>1. ASSUME NEW i \in SpokenInGap(s, Count(s)) PROVE FALSE
      <4>1. i \in Speech(s) /\ GapFrom(s, Count(s)) <= i BY DEF SpokenInGap
      <4> QED BY <1>2, <1>3, <1>5, <4>1
    <3> QED BY <3>1
  <2>2. \A h \in Speech(s) : h < Opens(s, n)
    <3> TAKE h \in Speech(s)
    <3>1. ~ (Opens(s, n) <= h /\ h <= Closes(s, n)) BY SpeechOf, CoveredBy DEF Free
    <3> QED BY <1>3, <1>5, <3>1
  <2>3. n \in WaitingAt(s, dialect, Count(s))
    <3>1. \A l \in n + 1 .. Count(s) : l \in 1 .. Count(s) BY <1>1
    <3> QED BY <2>2, <3>1 DEF WaitingAt
  <2>4. TagName(s, n) \in StillWaiting(s, dialect, Count(s))
    BY <2>1, <2>3 DEF StillWaiting, WaitingTags
  <2> QED BY <1>6, <2>4
<1>7. ASSUME \A n \in 1 .. Count(s) : \E i \in Speech(s) : Closes(s, n) < i
      PROVE  StillWaiting(s, dialect, Count(s)) = {}
  <2>1. CASE Count(s) = 0
    <3>1. WaitingTags(s, dialect, 0) = {} BY DEF WaitingTags, WaitingAt
    <3> QED BY <2>1, <3>1 DEF StillWaiting
  <2>2. CASE Count(s) # 0
    <3>1. Count(s) \in 1 .. Count(s) BY <1>1, <2>2
    <3>2. PICK i \in Speech(s) : Closes(s, Count(s)) < i BY <1>7, <3>1
    <3>3. GapFrom(s, Count(s)) = Closes(s, Count(s)) + 1 BY <2>2 DEF GapFrom
    <3>4. GapFrom(s, Count(s)) <= i BY <1>3, <1>5, <3>1, <3>2, <3>3
    <3>5. i \in SpokenInGap(s, Count(s)) BY <1>3, <1>4, <3>4 DEF SpokenInGap
    <3> QED BY <3>5 DEF StillWaiting
  <2> QED BY <2>1, <2>2
<1> QED BY <1>6, <1>7

\* A script is valid if and only if it is well formed and no character of two
\* UTF-16 units stands before the end of one of its tags: nothing malformed
\* passes, and nothing else is refused (compileExpressionScript).
THEOREM ValidScripts ==
  \A s \in Seq(STRING) :
    Compile(s, "bebas-v2").isValid <=> WellFormed(s) /\ ~ AstralBeforeTag(s)
<1> TAKE s \in Seq(STRING)
<1> DEFINE d == "bebas-v2"  c == Compile(s, d)  x == ReadScript(s, d)  M == ToSet(Matches(s))
<1>1. d \in Dialects BY DEF Dialects
<1>2. /\ x \in Read
      /\ c.isValid <=> /\ "unknown-tag" \notin x.issues /\ x.pending = <<>>
                       /\ ~ Malformed(s) /\ Len(x.segments) <= MaxSegments
  BY <1>1, CompileOf
<1>3. ReadInv(s, d, x, Count(s)) BY <1>1, ReadScriptOf
<1>4. "unknown-tag" \notin x.issues <=> \A n \in 1 .. Count(s) : HasTag(s, d, n)
  BY <1>3 DEF ReadInv, HasTag
<1>5. /\ ToSet(x.pending) = StillWaiting(s, d, Count(s))
      /\ Len(x.segments) = Cardinality(Beginnings(s))
  BY <1>1, ScriptIsCompiled DEF StretchDone
<1> HIDE DEF c, x
<1>6. x.pending = <<>> <=> StillWaiting(s, d, Count(s)) = {}
  <2>1. x.pending \in Seq(Tags) BY <1>2 DEF Read
  <2>2. x.pending # <<>> => ToSet(x.pending) # {}
    <3>1. DOMAIN x.pending = 1 .. Len(x.pending) /\ Len(x.pending) \in Nat BY <2>1, LenProperties
    <3>2. x.pending # <<>> => 1 \in DOMAIN x.pending BY <2>1, <3>1, EmptySeq
    <3> QED BY <3>2 DEF ToSet
  <2> QED BY <1>5, <2>2, EmptyToSet
<1>7. M = {Matches(s)[n] : n \in 1 .. Count(s)} BY MatchesOf DEF ToSet
<1>8. /\ WellFormed(s) <=> /\ \A i \in DOMAIN s : s[i] \in Bracket => Covered(M, i)
                           /\ \A n \in 1 .. Count(s) : HasTag(s, d, n)
                           /\ \A n \in 1 .. Count(s) : \E i \in Speech(s) : Closes(s, n) < i
                           /\ Len(x.segments) <= MaxSegments
      /\ AstralBeforeTag(s) <=> \E n \in 1 .. Count(s) : \E i \in 1 .. Closes(s, n) : s[i] = "astral"
  <2>1. WellFormed(s) <=> /\ \A i \in DOMAIN s : s[i] \in Bracket => Covered(M, i)
                          /\ \A m \in M : Named(s, m, d) /\ \E i \in Speech(s) : m[2] < i
                          /\ Cardinality(Beginnings(s)) <= MaxSegments
    BY Zenon DEF WellFormed, Speech, Beginnings
  <2>2. (\A m \in M : Named(s, m, d) /\ \E i \in Speech(s) : m[2] < i)
          <=> /\ \A n \in 1 .. Count(s) : HasTag(s, d, n)
              /\ \A n \in 1 .. Count(s) : \E i \in Speech(s) : Closes(s, n) < i
    BY <1>7 DEF HasTag, Closes
  <2>3. AstralBeforeTag(s) <=> \E n \in 1 .. Count(s) : \E i \in 1 .. Closes(s, n) : s[i] = "astral"
    BY <1>7 DEF AstralBeforeTag, Closes
  <2> HIDE DEF M
  <2> QED BY <1>5, <2>1, <2>2, <2>3
<1>9. ASSUME c.isValid PROVE WellFormed(s) /\ ~ AstralBeforeTag(s)
  <2>1. /\ ~ Malformed(s) /\ \A n \in 1 .. Count(s) : HasTag(s, d, n)
        /\ StillWaiting(s, d, Count(s)) = {} /\ Len(x.segments) <= MaxSegments
    BY <1>2, <1>4, <1>6, <1>9
  <2>2. \A n \in 1 .. Count(s) : Named(s, Matches(s)[n], d) BY <2>1 DEF HasTag
  <2>3. \A n \in 1 .. Count(s) : \A i \in 1 .. Closes(s, n) : s[i] # "astral"
    BY <2>1, <2>2, NoAstralBefore
  <2>4. \A k \in Free(s) : s[k] \notin Bracket BY <2>1, <2>2, FreeOfBrackets
  <2>5. \A i \in DOMAIN s : s[i] \in Bracket => Covered(M, i) BY <2>4 DEF Free
  <2>6. \A n \in 1 .. Count(s) : \E i \in Speech(s) : Closes(s, n) < i BY <2>1, NothingWaits
  <2> HIDE DEF M
  <2> QED BY <1>8, <2>1, <2>3, <2>5, <2>6
<1>10. ASSUME WellFormed(s), ~ AstralBeforeTag(s) PROVE c.isValid
  <2>1. /\ \A i \in DOMAIN s : s[i] \in Bracket => Covered(M, i)
        /\ \A n \in 1 .. Count(s) : HasTag(s, d, n)
        /\ \A n \in 1 .. Count(s) : \E i \in Speech(s) : Closes(s, n) < i
        /\ Len(x.segments) <= MaxSegments
        /\ \A n \in 1 .. Count(s) : \A i \in 1 .. Closes(s, n) : s[i] # "astral"
    BY <1>8, <1>10
  <2>2. \A k \in DOMAIN s : k \in Masked(s) <=> Covered(M, k) BY <2>1, MaskIsMatches
  <2>3. ~ Malformed(s) BY <2>1, <2>2 DEF Malformed
  <2>4. StillWaiting(s, d, Count(s)) = {} BY <2>1, NothingWaits
  <2> QED BY <1>2, <1>4, <1>6, <2>1, <2>3, <2>4
<1> QED BY <1>9, <1>10 DEF c

------------------------------------------------------------------------------
(* The runs' properties.                                                      *)

\* A script is always a sequence of symbols (StudioData, Write).
LEMMA ScriptTyped == Spec => [](script \in Seq(STRING))
<1>1. Init => script \in Seq(STRING) BY DEF Init
<1>2. script \in Seq(STRING) /\ [Next]_vars => (script \in Seq(STRING))'
  <2> SUFFICES ASSUME script \in Seq(STRING), [Next]_vars PROVE script' \in Seq(STRING) OBVIOUS
  <2>1. CASE Write
    <3>1. PICK piece \in Pieces : script' = script \o piece BY <2>1 DEF Write
    <3>2. piece \in Seq(STRING) BY PiecesAssumption
    <3> QED BY <3>1, <3>2, ConcatProperties
  <2>2. CASE Live BY <2>2 DEF Live
  <2>3. CASE Browse BY <2>3 DEF Browse
  <2>4. CASE UNCHANGED vars BY <2>4 DEF vars
  <2> QED BY <2>1, <2>2, <2>3, <2>4 DEF Next
<1> QED BY <1>1, <1>2, PTL DEF Spec

\* No text is lost, repeated or moved, and every tag reaches its own stretch of
\* text, in every script that can be written (compileExpressionScript).
THEOREM TagsAlwaysReachTheirText == Spec => []TagsReachTheirText
<1>1. script \in Seq(STRING) => TagsReachTheirText BY EveryTagReachesItsText DEF TagsReachTheirText
<1> QED BY <1>1, ScriptTyped, PTL

\* No bracket of a script the server accepts is ever spoken (validation.ts,
\* jobs/route.ts).
THEOREM NoBracketIsEverSpoken == Spec => []NoBracketIsSpoken
<1>1. script \in Seq(STRING) => NoBracketIsSpoken BY EveryRawTagWithheld DEF NoBracketIsSpoken
<1> QED BY <1>1, ScriptTyped, PTL

\* What the importer of packages accepts, the server accepts
\* (bebas-script-package.ts, validation.ts).
THEOREM PackagesAlwaysSubmit == Spec => []PackageIsSubmittable
<1>1. script \in Seq(STRING) => PackageIsSubmittable BY EveryPackageSubmits DEF PackageIsSubmittable
<1> QED BY <1>1, ScriptTyped, PTL

\* What the server accepts, the worker accepts (validation.ts, models.py).
THEOREM JobsAlwaysFitWorker == Spec => []JobFitsWorker
<1>1. script \in Seq(STRING) => JobFitsWorker BY EveryJobFitsWorker DEF JobFitsWorker
<1> QED BY <1>1, ScriptTyped, PTL

\* The session of StudioData is a session of CostLedger, so what is proved of
\* the ledger holds in it (addCost, accrueRunningCost).
THEOREM ImplementsLedger == Spec => LedgerSpec
<1>1. Init => LedgerInit BY DEF Init
<1>2. [Next]_vars => [LedgerNext]_ledgerVars
  <2>1. Write => UNCHANGED ledgerVars BY DEF Write
  <2>2. Live => LedgerNext BY DEF Live, LedgerNext
  <2>3. Browse => UNCHANGED ledgerVars BY DEF Browse
  <2>4. UNCHANGED vars => UNCHANGED ledgerVars BY DEF vars, ledgerVars
  <2> QED BY <2>1, <2>2, <2>3, <2>4 DEF Next
<1> QED BY <1>1, <1>2, PTL DEF Spec, LedgerSpec

\* The overviews of StudioData are those of RunpodCatalog (readOverview).
THEOREM ImplementsCatalog == Spec => CatalogSpec
<1>1. Init => CatalogInit BY DEF Init
<1>2. [Next]_vars => [CatalogNext]_catalogVars
  <2>1. Write => UNCHANGED catalogVars BY DEF Write
  <2>2. Live => UNCHANGED catalogVars BY DEF Live
  <2>3. Browse => CatalogNext BY DEF Browse, CatalogNext
  <2>4. UNCHANGED vars => UNCHANGED catalogVars BY DEF vars, catalogVars
  <2> QED BY <2>1, <2>2, <2>3, <2>4 DEF Next
<1> QED BY <1>1, <1>2, PTL DEF Spec, CatalogSpec
==============================================================================
