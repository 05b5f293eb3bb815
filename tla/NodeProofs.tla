----------------------------- MODULE NodeProofs -----------------------------
(***************************************************************************)
(* Facts that hold for every node: of the set of its values (a finite one  *)
(* that is not empty has a greatest value, and the halves of one partition *)
(* it, the lower below the upper), of its vector (what the calls on one    *)
(* leave in it), and of the two algorithms of core/node.rs that look       *)
(* through the vector (what they find).                                    *)
(***************************************************************************)
EXTENDS NodeContent, NodeSearch, FiniteSetTheorems, SequenceTheorems, TLAPS

\* The values of S above x; a greatest value has none.
Above(S, x) == {y \in S : y > x}

\* A node that is not empty has a greatest value (NodeLike::max is Some).
LEMMA MaxExists ==
    ASSUME NEW S, S \subseteq Int, S # {}, IsFiniteSet(S)
    PROVE  \E m \in S : \A y \in S : m >= y
<1> DEFINE Counts == {Cardinality(Above(S, x)) : x \in S}
<1>1. \A x \in S : IsFiniteSet(Above(S, x)) /\ Cardinality(Above(S, x)) \in Nat
  BY FS_Subset, FS_CardinalityType DEF Above
<1>2. Counts \subseteq Nat /\ Counts # {}
  BY <1>1
<1>3. PICK c \in Counts : \A d \in Counts : <<d, c>> \notin OpToRel(<, Nat)
  BY <1>2, NatLessThanWellFounded, WFMin
<1>4. ASSUME NEW d \in Counts
      PROVE  c <= d
  <2>1. c \in Nat /\ d \in Nat
    BY <1>2
  <2>2. ~(d < c)
    BY <1>3, <2>1 DEF OpToRel
  <2> QED
    BY <2>1, <2>2
<1>5. PICK m \in S : c = Cardinality(Above(S, m))
  BY <1>3
<1>6. SUFFICES ASSUME NEW z \in S, ~(m >= z)
               PROVE  FALSE
  BY <1>5
<1>7. m \in Int /\ z \in Int /\ z > m
  BY <1>6
<1>8. z \in Above(S, m) /\ Above(S, z) \subseteq Above(S, m) \ {z}
  <2>1. ASSUME NEW y \in S, y > z
        PROVE  y > m /\ y # z
    <3>1. y \in Int
      OBVIOUS
    <3> QED
      BY <1>7, <2>1, <3>1
  <2> QED
    BY <1>7, <2>1 DEF Above
<1>9. IsFiniteSet(Above(S, m) \ {z})
      /\ Cardinality(Above(S, m) \ {z}) = Cardinality(Above(S, m)) - 1
  BY <1>1, <1>8, FS_RemoveElement
<1>10. Cardinality(Above(S, z)) <= Cardinality(Above(S, m)) - 1
  BY <1>8, <1>9, FS_Subset
<1>11. Cardinality(Above(S, m)) <= Cardinality(Above(S, z))
  BY <1>4, <1>5
<1> QED
  BY <1>1, <1>10, <1>11

\* FiniteSetsExt!Max is the greatest value ...
LEMMA MaxIsGreatest ==
    ASSUME NEW S, S \subseteq Int, S # {}, IsFiniteSet(S)
    PROVE  Max(S) \in S /\ \A y \in S : Max(S) >= y
<1>1. PICK m \in S : \A y \in S : m >= y
  BY MaxExists
<1> QED
  BY <1>1, Zenon DEF Max

\* ... and the only value that is.
LEMMA MaxIsUnique ==
    ASSUME NEW S, S \subseteq Int, NEW m \in S, \A y \in S : m >= y
    PROVE  Max(S) = m
<1>1. Max(S) \in S /\ \A y \in S : Max(S) >= y
  BY Zenon DEF Max
<1>2. Max(S) >= m /\ m >= Max(S)
  BY <1>1
<1>3. Max(S) \in Int /\ m \in Int
  BY <1>1
<1> QED
  BY <1>2, <1>3

\* halve never leaves the greatest value behind, so the new node is not empty.
LEMMA MaxGoesUp ==
    ASSUME NEW S, S \subseteq Int, S # {}, IsFiniteSet(S)
    PROVE  Max(S) \in UpperHalf(S)
<1>1. Max(S) \in S /\ \A y \in S : Max(S) >= y
  BY MaxIsGreatest
<1>2. {y \in S : y < Max(S)} = S \ {Max(S)}
  <2>1. ASSUME NEW y \in S
        PROVE  y < Max(S) <=> y # Max(S)
    <3>1. y \in Int /\ Max(S) \in Int /\ Max(S) >= y
      BY <1>1
    <3> QED
      BY <3>1
  <2> QED
    BY <2>1
<1>3. Rank(S, Max(S)) = Cardinality(S) - 1
  BY <1>1, <1>2, FS_RemoveElement DEF Rank
<1>4. Cardinality(S) \in Nat /\ Cardinality(S) # 0
  BY FS_CardinalityType, FS_EmptySet
<1>5. Rank(S, Max(S)) >= Cardinality(S) \div 2
  BY <1>3, <1>4
<1> QED
  BY <1>1, <1>5 DEF UpperHalf

\* Ranks tell the values of a node apart, and are less than its length.
LEMMA RankInjective ==
    ASSUME NEW S, S \subseteq Int, IsFiniteSet(S),
           NEW x \in S, NEW y \in S, x < y
    PROVE  /\ Rank(S, x) \in Nat /\ Rank(S, y) \in Nat
           /\ Rank(S, x) < Rank(S, y)
<1> DEFINE A == {z \in S : z < x}
           B == {z \in S : z < y}
<1>1. IsFiniteSet(A) /\ IsFiniteSet(B)
  BY FS_Subset
<1>2. Cardinality(A) \in Nat /\ Cardinality(B) \in Nat
  BY <1>1, FS_CardinalityType
<1>3. x \in B /\ x \notin A
  BY x \in Int
<1>4. A \subseteq B
  <2>1. ASSUME NEW z \in S, z < x PROVE z < y
    BY <2>1, z \in Int, x \in Int, y \in Int
  <2> QED
    BY <2>1
<1>5. Cardinality(A) <= Cardinality(B) /\ Cardinality(A) # Cardinality(B)
  BY <1>1, <1>3, <1>4, FS_Subset
<1> QED
  BY <1>2, <1>5 DEF Rank

LEMMA RankBelowLen ==
    ASSUME NEW S, S \subseteq Int, IsFiniteSet(S), NEW x \in S
    PROVE  Rank(S, x) \in 0 .. Cardinality(S) - 1
<1> DEFINE A == {z \in S : z < x}
<1>1. x \notin A
  BY x \in Int
<1>2. IsFiniteSet(S \ {x}) /\ Cardinality(S \ {x}) = Cardinality(S) - 1
  BY FS_RemoveElement
<1>3. IsFiniteSet(A) /\ Cardinality(A) <= Cardinality(S) - 1
  BY <1>1, <1>2, FS_Subset, A \subseteq S \ {x}
<1>4. Cardinality(A) \in Nat /\ Cardinality(S) \in Nat
  BY <1>3, FS_CardinalityType
<1> QED
  BY <1>3, <1>4 DEF Rank

\* Values whose ranks lie in an interval are no more than it is long.
LEMMA RanksCount ==
    ASSUME NEW S, S \subseteq Int, IsFiniteSet(S), NEW T \in SUBSET S,
           NEW a \in Int, NEW b \in Int, a <= b + 1,
           \A x \in T : Rank(S, x) \in a .. b
    PROVE  IsFiniteSet(T) /\ Cardinality(T) \in Nat /\ Cardinality(T) <= b - a + 1
<1> DEFINE f == [x \in T |-> Rank(S, x)]
<1>1. f \in Injection(T, a .. b)
  <2>1. f \in [T -> a .. b]
    OBVIOUS
  <2>2. ASSUME NEW x \in T, NEW y \in T, x # y
        PROVE  f[x] # f[y]
    <3>1. x \in Int /\ y \in Int /\ x \in S /\ y \in S
      OBVIOUS
    <3>2. Rank(S, x) # Rank(S, y)
      <4>1. CASE x < y
        <5>1. Rank(S, x) \in Nat /\ Rank(S, y) \in Nat /\ Rank(S, x) < Rank(S, y)
          BY <3>1, <4>1, RankInjective
        <5> QED
          BY <5>1
      <4>2. CASE y < x
        <5>1. Rank(S, x) \in Nat /\ Rank(S, y) \in Nat /\ Rank(S, y) < Rank(S, x)
          BY <3>1, <4>2, RankInjective
        <5> QED
          BY <5>1
      <4> QED
        BY <2>2, <3>1, <4>1, <4>2
    <3> QED
      BY <3>2
  <2> QED
    BY <2>1, <2>2 DEF Injection, IsInjective
<1>2. IsFiniteSet(a .. b) /\ Cardinality(a .. b) = IF a > b THEN 0 ELSE b - a + 1
  BY FS_Interval
<1>3. IsFiniteSet(T) /\ Cardinality(T) <= Cardinality(a .. b)
  BY <1>1, <1>2, FS_Injection
<1>4. Cardinality(T) \in Nat
  BY <1>3, FS_CardinalityType
<1> QED
  BY <1>2, <1>3, <1>4

\* halve leaves half of the values, rounded down, and takes the rest.
LEMMA HalvesBounded ==
    ASSUME NEW S, S \subseteq Int, IsFiniteSet(S)
    PROVE  LET c == Cardinality(S) IN
           /\ IsFiniteSet(LowerHalf(S)) /\ IsFiniteSet(UpperHalf(S))
           /\ Cardinality(LowerHalf(S)) \in Nat /\ Cardinality(UpperHalf(S)) \in Nat
           /\ Cardinality(LowerHalf(S)) <= c \div 2
           /\ Cardinality(UpperHalf(S)) <= c - c \div 2
<1> DEFINE c == Cardinality(S)
<1>1. c \in Nat
  BY FS_CardinalityType
<1>2. c \div 2 \in Int /\ 0 <= c \div 2 /\ c \div 2 <= c
  BY <1>1
<1>3. \A x \in LowerHalf(S) : Rank(S, x) \in 0 .. (c \div 2) - 1
  <2>1. ASSUME NEW x \in S, Rank(S, x) < c \div 2
        PROVE  Rank(S, x) \in 0 .. (c \div 2) - 1
    <3>1. Rank(S, x) \in 0 .. c - 1
      BY RankBelowLen
    <3> QED
      BY <1>1, <1>2, <2>1, <3>1
  <2> QED
    BY <2>1 DEF LowerHalf
<1>4. \A x \in UpperHalf(S) : Rank(S, x) \in c \div 2 .. c - 1
  <2>1. ASSUME NEW x \in S, Rank(S, x) >= c \div 2
        PROVE  Rank(S, x) \in c \div 2 .. c - 1
    <3>1. Rank(S, x) \in 0 .. c - 1
      BY RankBelowLen
    <3> QED
      BY <1>1, <1>2, <2>1, <3>1
  <2> QED
    BY <2>1 DEF UpperHalf
<1>5. LowerHalf(S) \subseteq S /\ UpperHalf(S) \subseteq S
  BY DEF LowerHalf, UpperHalf
<1>6. /\ IsFiniteSet(LowerHalf(S)) /\ Cardinality(LowerHalf(S)) \in Nat
      /\ Cardinality(LowerHalf(S)) <= (c \div 2) - 1 - 0 + 1
  <2>1. 0 \in Int /\ (c \div 2) - 1 \in Int /\ 0 <= (c \div 2) - 1 + 1
    BY <1>2
  <2> QED
    BY <1>3, <1>5, <2>1, RanksCount
<1>7. /\ IsFiniteSet(UpperHalf(S)) /\ Cardinality(UpperHalf(S)) \in Nat
      /\ Cardinality(UpperHalf(S)) <= (c - 1) - (c \div 2) + 1
  <2>1. c - 1 \in Int /\ c \div 2 <= (c - 1) + 1
    BY <1>1, <1>2
  <2> QED
    BY <1>2, <1>4, <1>5, <2>1, RanksCount
<1> QED
  BY <1>1, <1>2, <1>6, <1>7
\* Every value that stays is smaller than every value that moves: halve()
\* cuts a sorted vector.
LEMMA HalvesApart ==
    ASSUME NEW S, S \subseteq Int, IsFiniteSet(S)
    PROVE  /\ S = LowerHalf(S) \cup UpperHalf(S)
           /\ \A x \in LowerHalf(S) : \A y \in UpperHalf(S) : x < y
<1>1. Cardinality(S) \in Nat
  BY FS_CardinalityType
<1>2. \A x \in S : Rank(S, x) \in Int
  <2>1. ASSUME NEW x \in S PROVE Rank(S, x) \in 0 .. Cardinality(S) - 1
    BY RankBelowLen
  <2> QED
    BY <1>1, <2>1
<1>3. S = LowerHalf(S) \cup UpperHalf(S)
  <2>1. \A r, h \in Int : r < h \/ r >= h
    OBVIOUS
  <2>2. Cardinality(S) \div 2 \in Int
    BY <1>1
  <2> QED
    BY <1>2, <2>1, <2>2 DEF LowerHalf, UpperHalf
<1>4. ASSUME NEW x \in LowerHalf(S), NEW y \in UpperHalf(S)
      PROVE  x < y
  <2>1. /\ x \in S /\ y \in S
        /\ Rank(S, x) < Cardinality(S) \div 2 /\ Rank(S, y) >= Cardinality(S) \div 2
    BY DEF LowerHalf, UpperHalf
  <2>2. y < x => Rank(S, y) < Rank(S, x)
    BY <2>1, RankInjective
  <2>3. x # y
    BY <1>1, <1>2, <2>1
  <2> QED
    BY <1>1, <1>2, <2>1, <2>2, <2>3
<1> QED
  BY <1>3, <1>4

-----------------------------------------------------------------------------
(* Counting *)

\* Induction on Nat: a set of numbers none of which is the least is empty.
LEMMA NoLeastNone ==
    ASSUME NEW S, S \subseteq Nat, \A n \in S : \E m \in S : m < n
    PROVE  S = {}
<1>1. SUFFICES ASSUME S # {} PROVE FALSE
  OBVIOUS
<1>2. PICK n \in S : \A m \in S : <<m, n>> \notin OpToRel(<, Nat)
  BY <1>1, NatLessThanWellFounded, WFMin
<1>3. PICK m \in S : m < n
  BY <1>2
<1> QED
  BY <1>2, <1>3 DEF OpToRel

\* As many values as positions, when they differ.
LEMMA DifferentCount ==
    ASSUME NEW n \in Nat, NEW f, DOMAIN f = 1 .. n,
           \A i, j \in 1 .. n : f[i] = f[j] => i = j
    PROVE  Cardinality({f[i] : i \in 1 .. n}) = n
<1> DEFINE T == {f[i] : i \in 1 .. n}
           g == [i \in 1 .. n |-> f[i]]
<1>1. g \in Bijection(1 .. n, T)
  BY DEF Bijection, Injection, Surjection, IsInjective
<1>2. ExistsBijection(1 .. n, T)
  BY <1>1 DEF ExistsBijection
<1>3. IsFiniteSet(1 .. n) /\ Cardinality(1 .. n) = n
  <2>1. IsFiniteSet(1 .. n) /\ Cardinality(1 .. n) = IF 1 > n THEN 0 ELSE n - 1 + 1
    BY FS_Interval
  <2> QED
    BY <2>1
<1> QED
  BY <1>2, <1>3, FS_Bijection

-----------------------------------------------------------------------------
(* The vector's calls: Vec::insert and remove, split_off, and indexing *)

LEMMA InsertAtSeq ==
    ASSUME NEW S, NEW s \in Seq(S), NEW i \in 1 .. Len(s) + 1, NEW e \in S
    PROVE  /\ InsertAt(s, i, e) \in Seq(S)
           /\ Len(InsertAt(s, i, e)) = Len(s) + 1
           /\ \A k \in 1 .. Len(s) + 1 :
                InsertAt(s, i, e)[k] = IF k < i THEN s[k]
                                       ELSE IF k = i THEN e ELSE s[k - 1]
<1> DEFINE low == SubSeq(s, 1, i - 1)
           up == SubSeq(s, i, Len(s))
<1>1. Len(s) \in Nat /\ i \in Int /\ \A k \in 1..Len(s) : s[k] \in S
  BY LenProperties, ElementOfSeq
<1>2. /\ low \in Seq(S) /\ Len(low) = i - 1
      /\ \A k \in 1 .. i - 1 : low[k] = s[k]
  <2>1. \A k \in 1 .. i - 1 : s[k] \in S
    BY <1>1
  <2> QED
    BY <1>1, <2>1, SubSeqProperties
<1>3. /\ up \in Seq(S) /\ Len(up) = Len(s) - i + 1
      /\ \A k \in 1 .. Len(s) - i + 1 : up[k] = s[i + k - 1]
  <2>1. \A k \in i .. Len(s) : s[k] \in S
    BY <1>1
  <2> QED
    BY <1>1, <2>1, SubSeqProperties
<1>4. <<e>> \in Seq(S) /\ Len(<<e>>) = 1 /\ <<e>>[1] = e
  OBVIOUS
<1> HIDE DEF low, up
<1>5. /\ low \o <<e>> \in Seq(S) /\ Len(low \o <<e>>) = i
      /\ \A k \in 1 .. i : (low \o <<e>>)[k] = IF k < i THEN s[k] ELSE e
  BY <1>1, <1>2, <1>4, ConcatProperties
<1>6. /\ (low \o <<e>>) \o up \in Seq(S)
      /\ Len((low \o <<e>>) \o up) = Len(s) + 1
      /\ \A k \in 1 .. Len(s) + 1 :
           ((low \o <<e>>) \o up)[k] = IF k <= i THEN (low \o <<e>>)[k] ELSE up[k - i]
  <2> DEFINE front == low \o <<e>>
  <2> HIDE DEF front
  <2>1. front \in Seq(S) /\ Len(front) = i
    BY <1>5 DEF front
  <2>2. Len(front) + Len(up) = Len(s) + 1
    BY <1>1, <1>3, <2>1
  <2>3. /\ front \o up \in Seq(S)
        /\ Len(front \o up) = Len(s) + 1
        /\ \A k \in 1 .. Len(s) + 1 :
             (front \o up)[k] = IF k <= i THEN front[k] ELSE up[k - i]
    <3>1. /\ front \o up \in Seq(S)
          /\ Len(front \o up) = Len(front) + Len(up)
          /\ \A k \in 1 .. Len(front) + Len(up) :
               (front \o up)[k] = IF k <= Len(front) THEN front[k] ELSE up[k - Len(front)]
      BY <1>3, <2>1, ConcatProperties
    <3> QED
      BY <2>1, <2>2, <3>1
  <2> QED
    BY <2>3 DEF front
<1>7. InsertAt(s, i, e) = (low \o <<e>>) \o up
  BY DEF InsertAt, low, up
<1> QED
  BY <1>1, <1>3, <1>5, <1>6, <1>7

LEMMA RemoveAtSeq ==
    ASSUME NEW S, NEW s \in Seq(S), NEW i \in 1 .. Len(s)
    PROVE  /\ RemoveAt(s, i) \in Seq(S)
           /\ Len(RemoveAt(s, i)) = Len(s) - 1
           /\ \A k \in 1 .. Len(s) - 1 :
                RemoveAt(s, i)[k] = IF k < i THEN s[k] ELSE s[k + 1]
<1> DEFINE low == SubSeq(s, 1, i - 1)
           up == SubSeq(s, i + 1, Len(s))
<1>1. Len(s) \in Nat /\ i \in Int /\ \A k \in 1..Len(s) : s[k] \in S
  BY LenProperties, ElementOfSeq
<1>2. /\ low \in Seq(S) /\ Len(low) = i - 1
      /\ \A k \in 1 .. i - 1 : low[k] = s[k]
  <2>1. \A k \in 1 .. i - 1 : s[k] \in S
    BY <1>1
  <2> QED
    BY <1>1, <2>1, SubSeqProperties
<1>3. /\ up \in Seq(S) /\ Len(up) = Len(s) - i
      /\ \A k \in 1 .. Len(s) - i : up[k] = s[i + k]
  <2>1. \A k \in i + 1 .. Len(s) : s[k] \in S
    BY <1>1
  <2> QED
    BY <1>1, <2>1, SubSeqProperties
<1> HIDE DEF low, up
<1>4. /\ low \o up \in Seq(S) /\ Len(low \o up) = Len(s) - 1
      /\ \A k \in 1 .. Len(s) - 1 :
           (low \o up)[k] = IF k <= i - 1 THEN low[k] ELSE up[k - (i - 1)]
  BY <1>1, <1>2, <1>3, ConcatProperties
<1>5. RemoveAt(s, i) = low \o up
  BY DEF RemoveAt, low, up
<1>6. ASSUME NEW k \in 1 .. Len(s) - 1
      PROVE  (low \o up)[k] = IF k < i THEN s[k] ELSE s[k + 1]
  <2>1. CASE k < i
    BY <1>1, <1>2, <1>4, <2>1
  <2>2. CASE ~(k < i)
    <3>1. k - (i - 1) \in 1 .. Len(s) - i /\ i + (k - (i - 1)) = k + 1
      BY <1>1, <2>2
    <3>2. (low \o up)[k] = up[k - (i - 1)]
      <4>1. ~(k <= i - 1)
        BY <1>1, <2>2
      <4> QED
        BY <1>4, <4>1
    <3> QED
      BY <1>3, <2>2, <3>1, <3>2
  <2> QED
    BY <2>1, <2>2
<1> QED
  BY <1>4, <1>5, <1>6

LEMMA SubSeqSeq ==
    ASSUME NEW S, NEW s \in Seq(S), NEW m \in 1 .. Len(s) + 1, NEW n \in 0 .. Len(s),
           m <= n + 1
    PROVE  /\ SubSeq(s, m, n) \in Seq(S)
           /\ Len(SubSeq(s, m, n)) = n - m + 1
           /\ \A k \in 1 .. n - m + 1 : SubSeq(s, m, n)[k] = s[m + k - 1]
<1>1. Len(s) \in Nat /\ m \in Int /\ n \in Int /\ \A k \in m .. n : s[k] \in S
  BY LenProperties, ElementOfSeq
<1> QED
  BY <1>1, SubSeqProperties

LEMMA ToSetSeq ==
    ASSUME NEW S, NEW s \in Seq(S)
    PROVE  /\ \A x : x \in ToSet(s) <=> \E k \in 1 .. Len(s) : x = s[k]
           /\ ToSet(s) \subseteq S
<1>1. DOMAIN s = 1 .. Len(s) /\ \A k \in 1..Len(s) : s[k] \in S
  BY LenProperties, ElementOfSeq
<1> QED
  BY <1>1 DEF ToSet

LEMMA InsertAtSet ==
    ASSUME NEW S, NEW s \in Seq(S), NEW i \in 1 .. Len(s) + 1, NEW e \in S
    PROVE  ToSet(InsertAt(s, i, e)) = ToSet(s) \cup {e}
<1> DEFINE n == Len(s)
           r == InsertAt(s, i, e)
<1>1. n \in Nat /\ i \in Int
  BY LenProperties
<1>2. /\ r \in Seq(S) /\ Len(r) = n + 1
      /\ \A k \in 1 .. n + 1 : r[k] = IF k < i THEN s[k] ELSE IF k = i THEN e ELSE s[k - 1]
  <2>1. r \in Seq(S) /\ Len(r) = Len(s) + 1
    BY InsertAtSeq
  <2>2. ASSUME NEW k \in 1 .. Len(s) + 1
        PROVE  r[k] = IF k < i THEN s[k] ELSE IF k = i THEN e ELSE s[k - 1]
    BY InsertAtSeq
  <2> QED
    BY <2>1, <2>2
<1> HIDE DEF r
<1>3. /\ \A x : x \in ToSet(r) <=> \E k \in 1 .. n + 1 : x = r[k]
      /\ \A x : x \in ToSet(s) <=> \E k \in 1 .. n : x = s[k]
  <2>1. \A x : x \in ToSet(r) <=> \E k \in 1 .. Len(r) : x = r[k]
    BY <1>2, ToSetSeq
  <2>2. \A x : x \in ToSet(s) <=> \E k \in 1 .. Len(s) : x = s[k]
    BY ToSetSeq
  <2> QED
    BY <1>2, <2>1, <2>2
<1>4. ASSUME NEW k \in 1 .. n + 1
      PROVE  r[k] \in ToSet(s) \cup {e}
  BY <1>1, <1>2, <1>3
<1>5. ASSUME NEW k \in 1 .. n
      PROVE  s[k] \in ToSet(r)
  <2>1. k < i => r[k] = s[k] /\ k \in 1 .. n + 1
    BY <1>1, <1>2
  <2>2. ~(k < i) => r[k + 1] = s[k] /\ k + 1 \in 1 .. n + 1
    BY <1>1, <1>2
  <2> QED
    BY <1>3, <2>1, <2>2
<1>6. e \in ToSet(r)
  <2>1. r[i] = e /\ i \in 1 .. n + 1
    BY <1>1, <1>2
  <2> QED
    BY <1>3, <2>1
<1> QED
  BY <1>3, <1>4, <1>5, <1>6 DEF r

LEMMA RemoveAtSet ==
    ASSUME NEW S, NEW s \in Seq(S), NEW i \in 1 .. Len(s),
           \A k \in 1 .. Len(s) : s[k] = s[i] => k = i
    PROVE  ToSet(RemoveAt(s, i)) = ToSet(s) \ {s[i]}
<1> DEFINE n == Len(s)
           r == RemoveAt(s, i)
<1>1. n \in Nat /\ i \in Int
  BY LenProperties
<1>2. /\ r \in Seq(S) /\ Len(r) = n - 1
      /\ \A k \in 1 .. n - 1 : r[k] = IF k < i THEN s[k] ELSE s[k + 1]
  BY RemoveAtSeq
<1> HIDE DEF r
<1>3. /\ \A x : x \in ToSet(r) <=> \E k \in 1 .. n - 1 : x = r[k]
      /\ \A x : x \in ToSet(s) <=> \E k \in 1 .. n : x = s[k]
  <2>1. \A x : x \in ToSet(r) <=> \E k \in 1 .. Len(r) : x = r[k]
    BY <1>2, ToSetSeq
  <2>2. \A x : x \in ToSet(s) <=> \E k \in 1 .. Len(s) : x = s[k]
    BY ToSetSeq
  <2> QED
    BY <1>2, <2>1, <2>2
<1>4. ASSUME NEW k \in 1 .. n - 1
      PROVE  r[k] \in ToSet(s) \ {s[i]}
  <2>1. PICK m \in 1 .. n : r[k] = s[m] /\ m # i
    BY <1>1, <1>2, SMTT(40)
  <2> QED
    BY <1>3, <2>1
<1>5. ASSUME NEW k \in 1 .. n, k # i
      PROVE  s[k] \in ToSet(r)
  <2>1. k < i => r[k] = s[k] /\ k \in 1 .. n - 1
    BY <1>1, <1>2
  <2>2. ~(k < i) => r[k - 1] = s[k] /\ k - 1 \in 1 .. n - 1
    BY <1>1, <1>2, <1>5
  <2> QED
    BY <1>3, <2>1, <2>2
<1> QED
  BY <1>3, <1>4, <1>5 DEF r

LEMMA ReverseSeq ==
    ASSUME NEW S, NEW s \in Seq(S)
    PROVE  /\ Reverse(s) \in Seq(S)
           /\ Len(Reverse(s)) = Len(s)
           /\ \A k \in 1 .. Len(s) : Reverse(s)[k] = s[Len(s) - k + 1]
<1>1. Len(s) \in Nat /\ \A k \in 1..Len(s) : s[k] \in S
  BY LenProperties, ElementOfSeq
<1>2. \A k \in 1..Len(s) : Len(s) - k + 1 \in 1..Len(s)
  BY <1>1
<1>3. Reverse(s) \in [1..Len(s) -> S]
  BY <1>1, <1>2 DEF Reverse
<1> QED
  BY <1>1, <1>3 DEF Reverse

-----------------------------------------------------------------------------
(***************************************************************************)
(* What search() and compute_positions_to_skip() answer, whatever the      *)
(* vector: the lemmas that NodeVecProofs and MultiMapProofs rest on.       *)
(***************************************************************************)

(* search() *)

\* One turn of the loop, with what the turns after it find.
Turn(cmps, f, p) ==
    LET i == p[1]
        j == p[2]
        m == (i + j) \div 2
    IN IF i = j THEN [found |-> FALSE, at |-> i]
       ELSE CASE cmps[m + 1] = 0 -> [found |-> TRUE, at |-> m]
              [] cmps[m + 1] < 0 -> f[<<m + 1, j>>]
              [] OTHER -> f[<<i, m>>]

Narrowing(cmps) == CHOOSE f : f = [p \in Gaps(cmps) |-> Turn(cmps, f, p)]

LEMMA SearchIsBetween ==
    ASSUME NEW cmps
    PROVE  Search(cmps) = Narrowing(cmps)[<<0, Len(cmps)>>]
  BY DEF Search, Narrowing, Turn

\* A turn leaves a gap that is smaller.
LEMMA TurnsShrink ==
    ASSUME NEW L \in Nat, NEW i \in 0 .. L, NEW j \in 0 .. L, i <= j, i # j,
           NEW d \in Nat, j - i <= d
    PROVE  LET m == (i + j) \div 2 IN
           /\ m \in 0 .. L - 1 /\ m \in 0 .. L /\ m + 1 \in 0 .. L
           /\ i <= m /\ m + 1 <= j
           /\ j - (m + 1) <= d - 1 /\ m - i <= d - 1 /\ d > 0
  OBVIOUS

Small(cmps, d) == {p \in Gaps(cmps) : p[2] - p[1] <= d}

\* The loop ends: what it finds is defined in every gap.
LEMMA BetweenIsDefined ==
    ASSUME NEW cmps \in Seq(Int)
    PROVE  Narrowing(cmps) = [p \in Gaps(cmps) |-> Turn(cmps, Narrowing(cmps), p)]
<1> DEFINE L == Len(cmps)
           Defined(d) == \E f : f = [p \in Small(cmps, d) |-> Turn(cmps, f, p)]
           Bad == {d \in Nat : ~Defined(d)}
<1>1. L \in Nat
  BY LenProperties
<1>2. \A p \in Gaps(cmps) : /\ p[1] \in 0..L /\ p[2] \in 0..L /\ p[1] <= p[2]
                            /\ p = <<p[1], p[2]>> /\ p[2] - p[1] \in 0..L
  BY <1>1 DEF Gaps
<1>3. ASSUME NEW d \in Nat, d > 0 => Defined(d - 1)
      PROVE  Defined(d)
  <2>1. PICK g : d > 0 => g = [p \in Small(cmps, d - 1) |-> Turn(cmps, g, p)]
    BY <1>3
  <2> DEFINE f == [p \in Small(cmps, d) |-> Turn(cmps, g, p)]
  <2>2. ASSUME NEW p \in Small(cmps, d)
        PROVE  Turn(cmps, f, p) = Turn(cmps, g, p)
    <3> DEFINE i == p[1]
               j == p[2]
               m == (i + j) \div 2
    <3>1. i \in 0..L /\ j \in 0..L /\ i <= j /\ j - i <= d
      BY <1>2, <2>2 DEF Small
    <3>2. CASE i = j
      BY <3>2 DEF Turn
    <3>3. CASE i # j
      <4>1. /\ m + 1 \in 0..L /\ m \in 0..L /\ i <= m /\ m + 1 <= j
            /\ j - (m + 1) <= d - 1 /\ m - i <= d - 1 /\ d > 0
        BY <1>1, <3>1, <3>3, TurnsShrink
      <4>2. <<m + 1, j>> \in Small(cmps, d - 1) /\ <<i, m>> \in Small(cmps, d - 1)
        BY <3>1, <4>1 DEF Small, Gaps
      <4>3. <<m + 1, j>> \in Small(cmps, d) /\ <<i, m>> \in Small(cmps, d)
        BY <1>1, <3>1, <4>1, SMTT(40) DEF Small, Gaps
      <4>4. f[<<m + 1, j>>] = g[<<m + 1, j>>] /\ f[<<i, m>>] = g[<<i, m>>]
        BY <2>1, <4>1, <4>2, <4>3
      <4>5. CASE cmps[m + 1] = 0
        BY <3>3, <4>5 DEF Turn
      <4>6. CASE cmps[m + 1] # 0 /\ cmps[m + 1] < 0
        BY <3>3, <4>4, <4>6 DEF Turn
      <4>7. CASE cmps[m + 1] # 0 /\ ~(cmps[m + 1] < 0)
        BY <3>3, <4>4, <4>7 DEF Turn
      <4> QED
        BY <4>5, <4>6, <4>7
    <3> QED
      BY <3>2, <3>3
  <2>3. f = [p \in Small(cmps, d) |-> Turn(cmps, f, p)]
    BY <2>2
  <2> QED
    BY <2>3
<1>4. Bad = {}
  <2>1. ASSUME NEW d \in Bad PROVE \E e \in Bad : e < d
    <3>1. d > 0 /\ ~Defined(d - 1)
      BY <1>3, <2>1
    <3> QED
      BY <2>1, <3>1
  <2> HIDE DEF Bad
  <2>2. Bad \subseteq Nat
    BY DEF Bad
  <2> QED
    BY <2>1, <2>2, NoLeastNone
<1>5. Small(cmps, L) = Gaps(cmps)
  BY <1>1, <1>2 DEF Small
<1>6. \E f : f = [p \in Gaps(cmps) |-> Turn(cmps, f, p)]
  BY <1>1, <1>4, <1>5
<1> QED
  BY <1>6 DEF Narrowing

\* What search() promises: the position of an item that is equal, or the one
\* between what is below and what is above.
Locates(cmps, s) ==
    /\ s.found \in BOOLEAN
    /\ s.found => s.at \in 0 .. Len(cmps) - 1 /\ cmps[s.at + 1] = 0
    /\ ~s.found => /\ s.at \in 0 .. Len(cmps)
                   /\ s.at > 0 => cmps[s.at] < 0
                   /\ s.at < Len(cmps) => cmps[s.at + 1] > 0

\* What the loop knows of the items next to its gap.
Edges(cmps, p) ==
    /\ p[1] > 0 => cmps[p[1]] < 0
    /\ p[2] < Len(cmps) => cmps[p[2] + 1] > 0

LEMMA BetweenLocates ==
    ASSUME NEW cmps \in Seq(Int), NEW p \in Gaps(cmps), Edges(cmps, p)
    PROVE  Locates(cmps, Narrowing(cmps)[p])
<1> DEFINE L == Len(cmps)
           f == Narrowing(cmps)
           Holds(d) == \A q \in Gaps(cmps) :
             q[2] - q[1] <= d /\ Edges(cmps, q) => Locates(cmps, f[q])
           Bad == {d \in Nat : ~Holds(d)}
<1>1. L \in Nat /\ \A i \in 1..L : cmps[i] \in Int
  BY LenProperties, ElementOfSeq
<1>2. \A q \in Gaps(cmps) : /\ q[1] \in 0..L /\ q[2] \in 0..L /\ q[1] <= q[2]
                            /\ q = <<q[1], q[2]>> /\ q[2] - q[1] \in 0..L
  BY <1>1 DEF Gaps
<1>3. \A q \in Gaps(cmps) : f[q] = Turn(cmps, f, q)
  BY BetweenIsDefined
<1> HIDE DEF f
<1>4. ASSUME NEW d \in Nat, d > 0 => Holds(d - 1)
      PROVE  Holds(d)
  <2> SUFFICES ASSUME NEW q \in Gaps(cmps), q[2] - q[1] <= d, Edges(cmps, q)
               PROVE  Locates(cmps, f[q])
    OBVIOUS
  <2>1. PICK i \in 0..L, j \in 0..L : q = <<i, j>> /\ i <= j /\ j - i <= d
    BY <1>2
  <2>2. PICK m : m = (i + j) \div 2
    OBVIOUS
  <2>3. /\ i > 0 => cmps[i] < 0
        /\ j < L => cmps[j + 1] > 0
    BY <2>1 DEF Edges
  <2>4. CASE i = j
    <3>1. f[q] = [found |-> FALSE, at |-> i]
      BY <1>3, <2>1, <2>4 DEF Turn
    <3> QED
      BY <2>3, <2>4, <3>1 DEF Locates
  <2>5. CASE i # j
    <3>1. /\ m \in 0 .. L - 1 /\ m \in 0 .. L /\ m + 1 \in 0 .. L /\ m + 1 \in 1..L
          /\ i <= m /\ m + 1 <= j
          /\ j - (m + 1) <= d - 1 /\ m - i <= d - 1 /\ d > 0
      <4>1. /\ m \in 0 .. L - 1 /\ m \in 0 .. L /\ m + 1 \in 0 .. L
            /\ i <= m /\ m + 1 <= j
            /\ j - (m + 1) <= d - 1 /\ m - i <= d - 1 /\ d > 0
        BY <1>1, <2>1, <2>2, <2>5, TurnsShrink
      <4> QED
        BY <1>1, <4>1
    <3>2. cmps[m + 1] \in Int
      BY <1>1, <3>1
    <3>3. f[q] = CASE cmps[m + 1] = 0 -> [found |-> TRUE, at |-> m]
                   [] cmps[m + 1] < 0 -> f[<<m + 1, j>>]
                   [] OTHER -> f[<<i, m>>]
      BY <1>3, <2>1, <2>2, <2>5 DEF Turn
    <3>4. CASE cmps[m + 1] = 0
      <4>1. f[q] = [found |-> TRUE, at |-> m]
        BY <3>3, <3>4
      <4> QED
        BY <3>1, <3>4, <4>1 DEF Locates
    <3>5. CASE cmps[m + 1] < 0
      <4>1. f[q] = f[<<m + 1, j>>]
        BY <3>2, <3>3, <3>5
      <4>2. <<m + 1, j>> \in Gaps(cmps) /\ Edges(cmps, <<m + 1, j>>)
        BY <2>3, <3>1, <3>5 DEF Gaps, Edges
      <4> QED
        BY <1>4, <3>1, <4>1, <4>2
    <3>6. CASE cmps[m + 1] > 0
      <4>1. f[q] = f[<<i, m>>]
        BY <3>2, <3>3, <3>6
      <4>2. <<i, m>> \in Gaps(cmps) /\ Edges(cmps, <<i, m>>)
        BY <2>3, <3>1, <3>6 DEF Gaps, Edges
      <4> QED
        BY <1>4, <3>1, <4>1, <4>2
    <3> QED
      BY <3>2, <3>4, <3>5, <3>6
  <2> QED
    BY <2>4, <2>5
<1>5. Bad = {}
  <2>1. ASSUME NEW d \in Bad PROVE \E e \in Bad : e < d
    <3>1. d > 0 /\ ~Holds(d - 1)
      BY <1>4, <2>1
    <3> QED
      BY <2>1, <3>1
  <2> HIDE DEF Bad
  <2>2. Bad \subseteq Nat
    BY DEF Bad
  <2> QED
    BY <2>1, <2>2, NoLeastNone
<1>6. Holds(L)
  BY <1>1, <1>5
<1> QED
  BY <1>2, <1>6 DEF f

LEMMA SearchLocates ==
    ASSUME NEW cmps \in Seq(Int)
    PROVE  Locates(cmps, Search(cmps))
<1>1. Len(cmps) \in Nat
  BY LenProperties
<1>2. <<0, Len(cmps)>> \in Gaps(cmps) /\ Edges(cmps, <<0, Len(cmps)>>)
  BY <1>1 DEF Gaps, Edges
<1> QED
  BY <1>2, BetweenLocates, SearchIsBetween

-----------------------------------------------------------------------------
(* compute_positions_to_skip() *)

NotDecreasing(cmps) == \A i, j \in 1 .. Len(cmps) : i < j => cmps[i] <= cmps[j]

\* Where the loop stops, `p` items have been passed.
LEMMA StopsBehindPassed ==
    ASSUME NEW items \in Seq(Int), NEW kind, NEW forward \in BOOLEAN,
           \A i, j \in 1 .. Len(items) :
             i < j /\ Passes(items[j], kind, forward) => Passes(items[i], kind, forward)
    PROVE  LET p == Max({n \in 0 .. Len(items) :
                           \A i \in 1 .. n : Passes(items[i], kind, forward)})
           IN /\ p \in 0 .. Len(items)
              /\ \A k \in 1 .. Len(items) : Passes(items[k], kind, forward) <=> k <= p
<1> DEFINE P == {n \in 0 .. Len(items) : \A i \in 1 .. n : Passes(items[i], kind, forward)}
           p == Max(P)
<1>1. Len(items) \in Nat
  BY LenProperties
<1>2. P \subseteq Int /\ 0 \in P /\ IsFiniteSet(P)
  <2>1. IsFiniteSet(0 .. Len(items))
    BY <1>1, FS_Interval
  <2> QED
    BY <1>1, <2>1, FS_Subset
<1> HIDE DEF P
<1>3. p \in P /\ \A n \in P : p >= n
  BY <1>2, MaxIsGreatest
<1> HIDE DEF p
<1>4. p \in 0 .. Len(items) /\ \A i \in 1 .. p : Passes(items[i], kind, forward)
  BY <1>3 DEF P
<1>5. ASSUME NEW k \in 1 .. Len(items), Passes(items[k], kind, forward)
      PROVE  k <= p
  <2>1. \A i \in 1 .. k : Passes(items[i], kind, forward)
    <3>1. ASSUME NEW i \in 1 .. k PROVE Passes(items[i], kind, forward)
      <4>1. i \in 1 .. Len(items) /\ (i < k \/ i = k)
        BY <1>1
      <4> QED
        BY <1>5, <4>1
    <3> QED
      BY <3>1
  <2>2. k \in P
    BY <1>1, <2>1 DEF P
  <2> QED
    BY <1>1, <1>3, <1>4, <2>2
<1>6. ASSUME NEW k \in 1 .. Len(items), k <= p
      PROVE  Passes(items[k], kind, forward)
  BY <1>1, <1>4, <1>6
<1> QED
  BY <1>4, <1>5, <1>6 DEF p, P

\* Of a sorted vector the items in front of the bound are skipped ...
LEMMA SkipsFromFront ==
    ASSUME NEW cmps \in Seq(Int), NotDecreasing(cmps), NEW kind
    PROVE  \E p \in 0 .. Len(cmps) :
             /\ PositionsToSkip(cmps, kind, TRUE) = p - 1
             /\ \A k \in 1 .. Len(cmps) : Passes(cmps[k], kind, TRUE) <=> k <= p
<1> DEFINE p == Max({n \in 0 .. Len(cmps) : \A i \in 1 .. n : Passes(cmps[i], kind, TRUE)})
<1>1. \A k \in 1 .. Len(cmps) : cmps[k] \in Int
  BY ElementOfSeq
<1>2. \A i, j \in 1 .. Len(cmps) :
        i < j /\ Passes(cmps[j], kind, TRUE) => Passes(cmps[i], kind, TRUE)
  BY <1>1 DEF NotDecreasing, Passes
<1>3. /\ p \in 0 .. Len(cmps)
      /\ \A k \in 1 .. Len(cmps) : Passes(cmps[k], kind, TRUE) <=> k <= p
  BY <1>2, StopsBehindPassed
<1>4. PositionsToSkip(cmps, kind, TRUE) = IF p = 0 THEN NoPosition ELSE p - 1
  BY DEF PositionsToSkip
<1> HIDE DEF p
<1>5. p \in Nat
  BY <1>3, LenProperties
<1>6. PositionsToSkip(cmps, kind, TRUE) = p - 1
  <2>1. p = 0 => NoPosition = p - 1
    BY DEF NoPosition
  <2> QED
    BY <1>4, <2>1
<1> QED
  BY <1>3, <1>6

\* ... or those behind it.
LEMMA SkipsFromBack ==
    ASSUME NEW cmps \in Seq(Int), NotDecreasing(cmps), NEW kind
    PROVE  \E p \in 0 .. Len(cmps) :
             /\ PositionsToSkip(cmps, kind, FALSE) = p - 1
             /\ \A k \in 1 .. Len(cmps) : Passes(cmps[k], kind, FALSE) <=> Len(cmps) - p < k
<1> DEFINE L == Len(cmps)
           items == Reverse(cmps)
           p == Max({n \in 0 .. Len(items) : \A i \in 1 .. n : Passes(items[i], kind, FALSE)})
<1>1. L \in Nat /\ \A k \in 1 .. L : cmps[k] \in Int
  BY LenProperties, ElementOfSeq
<1>2. /\ items \in Seq(Int) /\ Len(items) = L
      /\ \A k \in 1 .. L : items[k] = cmps[L - k + 1] /\ L - k + 1 \in 1 .. L
  BY <1>1, ReverseSeq
<1>3. PositionsToSkip(cmps, kind, FALSE) = IF p = 0 THEN NoPosition ELSE p - 1
  BY DEF PositionsToSkip
<1> HIDE DEF items
<1>4. ASSUME NEW i \in 1 .. L, NEW j \in 1 .. L, i < j, Passes(items[j], kind, FALSE)
      PROVE  Passes(items[i], kind, FALSE)
  <2>1. /\ items[i] = cmps[L - i + 1] /\ L - i + 1 \in 1 .. L
        /\ items[j] = cmps[L - j + 1] /\ L - j + 1 \in 1 .. L
        /\ L - j + 1 < L - i + 1
    BY <1>1, <1>2, <1>4
  <2>2. cmps[L - j + 1] <= cmps[L - i + 1]
    BY <2>1 DEF NotDecreasing
  <2> QED
    BY <1>1, <1>4, <2>1, <2>2 DEF Passes
<1>5. /\ p \in 0 .. L
      /\ \A k \in 1 .. L : Passes(items[k], kind, FALSE) <=> k <= p
  BY <1>2, <1>4, StopsBehindPassed
<1> HIDE DEF p
<1>6. PositionsToSkip(cmps, kind, FALSE) = p - 1
  <2>1. p = 0 => NoPosition = p - 1
    BY DEF NoPosition
  <2> QED
    BY <1>3, <2>1
<1>7. ASSUME NEW k \in 1 .. L
      PROVE  Passes(cmps[k], kind, FALSE) <=> L - p < k
  <2>1. L - k + 1 \in 1 .. L /\ L - (L - k + 1) + 1 = k
    BY <1>1
  <2>2. items[L - k + 1] = cmps[k]
    BY <1>2, <2>1
  <2>3. L - k + 1 <= p <=> L - p < k
    BY <1>1, <1>5
  <2> QED
    BY <1>5, <2>1, <2>2, <2>3
<1> QED
  BY <1>5, <1>6, <1>7

\* Whatever the vector, no more is skipped than there is.
LEMMA SkipsAtMostAll ==
    ASSUME NEW cmps \in Seq(Int), NEW kind, NEW forward \in BOOLEAN
    PROVE  PositionsToSkip(cmps, kind, forward) \in -1 .. Len(cmps) - 1
<1> DEFINE items == IF forward THEN cmps ELSE Reverse(cmps)
           P == {n \in 0 .. Len(items) : \A i \in 1 .. n : Passes(items[i], kind, forward)}
           p == Max(P)
<1>1. Len(cmps) \in Nat /\ Len(items) = Len(cmps)
  BY LenProperties, ReverseSeq
<1>2. PositionsToSkip(cmps, kind, forward) = IF p = 0 THEN NoPosition ELSE p - 1
  BY DEF PositionsToSkip
<1> HIDE DEF items
<1>3. P \subseteq Int /\ 0 \in P /\ IsFiniteSet(P)
  <2>1. IsFiniteSet(0 .. Len(items))
    BY <1>1, FS_Interval
  <2> QED
    BY <1>1, <2>1, FS_Subset
<1>4. p \in P
  <2> HIDE DEF P
  <2> QED
    BY <1>3, MaxIsGreatest
<1>5. p \in Int /\ 0 <= p /\ p <= Len(cmps)
  BY <1>1, <1>4
<1> HIDE DEF p
<1> QED
  BY <1>1, <1>2, <1>5 DEF NoPosition

\* When it is known which items are passed.
LEMMA SkipsThosePassed ==
    ASSUME NEW cmps \in Seq(Int), NEW kind, NEW f \in 0 .. Len(cmps),
           \A k \in 1 .. Len(cmps) : Passes(cmps[k], kind, TRUE) <=> k <= f
    PROVE  PositionsToSkip(cmps, kind, TRUE) = f - 1
<1> DEFINE p == Max({n \in 0 .. Len(cmps) : \A i \in 1 .. n : Passes(cmps[i], kind, TRUE)})
<1>1. Len(cmps) \in Nat /\ f \in Nat
  BY LenProperties
<1>2. \A i, j \in 1 .. Len(cmps) :
        i < j /\ Passes(cmps[j], kind, TRUE) => Passes(cmps[i], kind, TRUE)
  <2>1. ASSUME NEW i \in 1 .. Len(cmps), NEW j \in 1 .. Len(cmps),
               i < j, Passes(cmps[j], kind, TRUE)
        PROVE  Passes(cmps[i], kind, TRUE)
    <3>1. j <= f
      BY <2>1
    <3>2. i <= f
      BY <1>1, <2>1, <3>1
    <3> QED
      BY <3>2
  <2> QED
    BY <2>1
<1>3. /\ p \in 0 .. Len(cmps)
      /\ \A k \in 1 .. Len(cmps) : Passes(cmps[k], kind, TRUE) <=> k <= p
  BY <1>2, StopsBehindPassed
<1>4. PositionsToSkip(cmps, kind, TRUE) = IF p = 0 THEN NoPosition ELSE p - 1
  BY DEF PositionsToSkip
<1> HIDE DEF p
<1>5. p \in Nat /\ p <= Len(cmps) /\ f <= Len(cmps)
  BY <1>1, <1>3
<1>6. p = f
  <2>1. \A k \in 1 .. Len(cmps) : k <= f <=> k <= p
    BY <1>3
  <2>2. ~(p < f)
    <3>1. p < f => f \in 1 .. Len(cmps) /\ f <= f /\ ~(f <= p)
      BY <1>1, <1>5
    <3> QED
      BY <2>1, <3>1
  <2>3. ~(f < p)
    <3>1. f < p => p \in 1 .. Len(cmps) /\ p <= p /\ ~(p <= f)
      BY <1>1, <1>5
    <3> QED
      BY <2>1, <3>1
  <2> QED
    BY <1>1, <1>5, <2>2, <2>3
<1>7. f = 0 => NoPosition = f - 1
  BY DEF NoPosition
<1> QED
  BY <1>4, <1>6, <1>7

=============================================================================
