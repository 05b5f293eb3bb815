---------------------------- MODULE NodeVecProofs ---------------------------
(***************************************************************************)
(* A node's vector stays sorted, its calls amount to the set operators of  *)
(* NodeContent, and the ends of a range skip what lies outside, for every   *)
(* set of values and vectors of any length.                                *)
(***************************************************************************)
EXTENDS NodeVec, NodeProofs

\* The inductive invariant.
VecInv == vec \in Seq(Value) /\ StrictlySorted

Sorted(s) == \A i, j \in 1 .. Len(s) : i < j => s[i] < s[j]

LEMMA VecIsSorted ==
    ASSUME VecInv
    PROVE  /\ vec \in Seq(Int) /\ Len(vec) \in Nat /\ DOMAIN vec = 1 .. Len(vec)
           /\ \A k \in 1 .. Len(vec) : vec[k] \in Value /\ vec[k] \in Int
           /\ Sorted(vec)
<1>1. Len(vec) \in Nat /\ DOMAIN vec = 1 .. Len(vec) /\ vec \in [1 .. Len(vec) -> Value]
  BY LenProperties DEF VecInv
<1>2. vec \in Seq(Int)
  <2>1. vec = [k \in 1 .. Len(vec) |-> vec[k]] /\ \A k \in 1 .. Len(vec) : vec[k] \in Int
    BY <1>1, ValueAssumption
  <2>2. [k \in 1 .. Len(vec) |-> vec[k]] \in Seq(Int)
    BY <1>1, <2>1
  <2> QED
    BY <2>1, <2>2
<1> QED
  BY <1>1, <1>2, ValueAssumption DEF VecInv, StrictlySorted, Sorted

\* search() in a sorted vector tells what is below the value from what is above.
LEMMA SearchForLocates ==
    ASSUME VecInv, NEW x \in Int
    PROVE  LET s == SearchFor(x) IN
           /\ s.found \in BOOLEAN
           /\ s.found => s.at \in 0 .. Len(vec) - 1 /\ vec[s.at + 1] = x
           /\ ~s.found => s.at \in 0 .. Len(vec)
           /\ \A k \in 1 .. Len(vec) :
                /\ vec[k] < x <=> k <= s.at
                /\ vec[k] = x <=> s.found /\ k = s.at + 1
<1> DEFINE cmps == [i \in DOMAIN vec |-> vec[i] - x]
           s == SearchFor(x)
           n == Len(vec)
<1>1. /\ n \in Nat /\ DOMAIN vec = 1 .. n /\ \A k \in 1 .. n : vec[k] \in Int
      /\ \A i, j \in 1 .. n : i < j => vec[i] < vec[j]
  BY VecIsSorted DEF Sorted
<1>2. cmps \in Seq(Int) /\ Len(cmps) = n /\ \A k \in 1 .. n : cmps[k] = vec[k] - x
  BY <1>1
<1>3. Locates(cmps, s)
  BY <1>2, SearchLocates DEF SearchFor
<1> HIDE DEF cmps, s
<1>4. /\ s.found \in BOOLEAN
      /\ s.found => s.at \in 0 .. n - 1 /\ vec[s.at + 1] = x
      /\ ~s.found => /\ s.at \in 0 .. n
                     /\ s.at > 0 => vec[s.at] < x
                     /\ s.at < n => vec[s.at + 1] > x
  <2>1. s.at \in 0 .. n - 1 => (cmps[s.at + 1] = 0 <=> vec[s.at + 1] = x)
    BY <1>1, <1>2
  <2>2. s.at \in 0 .. n - 1 => (cmps[s.at + 1] > 0 <=> vec[s.at + 1] > x)
    BY <1>1, <1>2
  <2>3. s.at \in 1 .. n => (cmps[s.at] < 0 <=> vec[s.at] < x)
    BY <1>1, <1>2
  <2> QED
    BY <1>1, <1>2, <1>3, <2>1, <2>2, <2>3 DEF Locates
<1>5. ASSUME NEW k \in 1 .. n
      PROVE  /\ vec[k] < x <=> k <= s.at
             /\ vec[k] = x <=> s.found /\ k = s.at + 1
  <2>1. CASE s.found
    <3>1. s.at + 1 \in 1 .. n /\ vec[s.at + 1] = x /\ s.at \in Int
      BY <1>1, <1>4, <2>1
    <3>2. k < s.at + 1 \/ k = s.at + 1 \/ s.at + 1 < k
      BY <3>1
    <3> QED
      BY <1>1, <2>1, <3>1, <3>2
  <2>2. CASE ~s.found
    <3>1. s.at \in 0 .. n
      BY <1>4, <2>2
    <3>2. k <= s.at => vec[k] < x
      <4>1. k <= s.at => s.at \in 1 .. n /\ vec[s.at] < x /\ (k < s.at \/ k = s.at)
        BY <1>1, <1>4, <2>2, <3>1
      <4> QED
        BY <1>1, <4>1
    <3>3. ~(k <= s.at) => vec[k] > x
      <4>1. ~(k <= s.at) => /\ s.at + 1 \in 1 .. n /\ vec[s.at + 1] > x
                            /\ (s.at + 1 < k \/ s.at + 1 = k)
        BY <1>1, <1>4, <2>2, <3>1
      <4> QED
        BY <1>1, <4>1
    <3> QED
      BY <1>1, <2>2, <3>2, <3>3
  <2> QED
    BY <1>4, <2>1, <2>2
<1> QED
  BY <1>4, <1>5 DEF s

-----------------------------------------------------------------------------
(* StrictlySorted *)

\* What each call leaves in the vector.
LEMMA InsertKeepsSorted ==
    ASSUME VecInv, NEW x \in Value, Insert(x)
    PROVE  VecInv'
<1> DEFINE s == SearchFor(x)
           n == Len(vec)
<1>1. x \in Int
  BY ValueAssumption
<1>2. CASE s.found
  BY <1>2 DEF Insert, VecInv, StrictlySorted
<1>3. CASE ~s.found
  <2>1. /\ n \in Nat /\ \A k \in 1 .. n : vec[k] \in Int
        /\ \A i, j \in 1 .. n : i < j => vec[i] < vec[j]
    BY VecIsSorted DEF Sorted
  <2>2. /\ s.at \in 0 .. n
        /\ \A k \in 1 .. n : vec[k] < x <=> k <= s.at
        /\ \A k \in 1 .. n : vec[k] # x
    BY <1>1, <1>3, SearchForLocates
  <2>3. s.at + 1 \in 1 .. n + 1 /\ vec \in Seq(Value) /\ vec' = InsertAt(vec, s.at + 1, x)
    BY <1>3, <2>1, <2>2 DEF Insert, VecInv
  <2> HIDE DEF s
  <2>4. /\ vec' \in Seq(Value) /\ Len(vec') = n + 1
        /\ \A k \in 1 .. n + 1 :
             vec'[k] = IF k < s.at + 1 THEN vec[k] ELSE IF k = s.at + 1 THEN x ELSE vec[k - 1]
    <3> DEFINE p == s.at + 1
    <3> HIDE DEF p
    <3>1. p \in 1 .. Len(vec) + 1 /\ vec' = InsertAt(vec, p, x) /\ vec \in Seq(Value)
      BY <2>3 DEF p
    <3>2. /\ vec' \in Seq(Value) /\ Len(vec') = Len(vec) + 1
          /\ \A k \in 1 .. Len(vec) + 1 :
               vec'[k] = IF k < p THEN vec[k] ELSE IF k = p THEN x ELSE vec[k - 1]
      <4>1. /\ InsertAt(vec, p, x) \in Seq(Value)
            /\ Len(InsertAt(vec, p, x)) = Len(vec) + 1
            /\ \A k \in 1 .. Len(vec) + 1 :
                 InsertAt(vec, p, x)[k] = IF k < p THEN vec[k]
                                          ELSE IF k = p THEN x ELSE vec[k - 1]
        <5>1. x \in Value
          OBVIOUS
        <5> QED
          BY ONLY <3>1, <5>1, InsertAtSeq
      <4> QED
        BY ONLY <3>1, <4>1
    <3> QED
      BY <3>2 DEF p
  <2>5. DOMAIN vec' = 1 .. n + 1
    BY <2>4, LenProperties
  <2>6. ASSUME NEW i \in 1 .. n + 1, NEW j \in 1 .. n + 1, i < j
        PROVE  vec'[i] < vec'[j]
    <3>1. CASE j < s.at + 1
      BY <2>1, <2>2, <2>4, <2>6, <3>1
    <3>2. CASE j = s.at + 1
      BY <2>1, <2>2, <2>4, <2>6, <3>2
    <3>3. CASE j > s.at + 1 /\ i = s.at + 1
      <4>1. /\ vec'[i] = x /\ vec'[j] = vec[j - 1]
            /\ j - 1 \in 1 .. n /\ ~(j - 1 <= s.at)
        BY <2>1, <2>2, <2>4, <2>6, <3>3
      <4> QED
        BY <1>1, <2>1, <2>2, <4>1
    <3>4. CASE j > s.at + 1 /\ i < s.at + 1
      <4>1. /\ vec'[i] = vec[i] /\ vec'[j] = vec[j - 1]
            /\ i \in 1 .. n /\ j - 1 \in 1 .. n /\ i < j - 1
        BY <2>1, <2>2, <2>4, <2>6, <3>4
      <4> QED
        BY <2>1, <4>1
    <3>5. CASE i > s.at + 1
      <4>1. /\ vec'[i] = vec[i - 1] /\ vec'[j] = vec[j - 1]
            /\ i - 1 \in 1 .. n /\ j - 1 \in 1 .. n /\ i - 1 < j - 1
        BY <2>1, <2>2, <2>4, <2>6, <3>5
      <4> QED
        BY <2>1, <4>1
    <3> QED
      BY <2>1, <2>2, <2>6, <3>1, <3>2, <3>3, <3>4, <3>5
  <2> QED
    BY <2>4, <2>5, <2>6 DEF VecInv, StrictlySorted
<1> QED
  <2>1. s.found \in BOOLEAN
    BY <1>1, SearchForLocates
  <2> QED
    BY <1>2, <1>3, <2>1

LEMMA DeleteKeepsSorted ==
    ASSUME VecInv, NEW x \in Value, Delete(x)
    PROVE  VecInv'
<1> DEFINE s == SearchFor(x)
           n == Len(vec)
<1>1. x \in Int
  BY ValueAssumption
<1>2. CASE ~s.found
  BY <1>2 DEF Delete, VecInv, StrictlySorted
<1>3. CASE s.found
  <2>1. /\ n \in Nat /\ \A k \in 1 .. n : vec[k] \in Int
        /\ \A i, j \in 1 .. n : i < j => vec[i] < vec[j]
    BY VecIsSorted DEF Sorted
  <2>2. s.at \in 0 .. n - 1
    BY <1>1, <1>3, SearchForLocates
  <2>3. s.at + 1 \in 1 .. n /\ vec \in Seq(Value) /\ vec' = RemoveAt(vec, s.at + 1)
    BY <1>3, <2>1, <2>2 DEF Delete, VecInv
  <2> HIDE DEF s
  <2>4. /\ vec' \in Seq(Value) /\ Len(vec') = n - 1
        /\ \A k \in 1 .. n - 1 : vec'[k] = IF k < s.at + 1 THEN vec[k] ELSE vec[k + 1]
    BY <2>3, RemoveAtSeq
  <2>5. DOMAIN vec' = 1 .. n - 1
    BY <2>4, LenProperties
  <2>6. ASSUME NEW i \in 1 .. n - 1, NEW j \in 1 .. n - 1, i < j
        PROVE  vec'[i] < vec'[j]
    <3>1. PICK a \in 1 .. n : vec'[i] = vec[a] /\ a = IF i < s.at + 1 THEN i ELSE i + 1
      BY <2>1, <2>4
    <3>2. PICK b \in 1 .. n : vec'[j] = vec[b] /\ b = IF j < s.at + 1 THEN j ELSE j + 1
      BY <2>1, <2>4
    <3>3. a < b
      BY <2>1, <2>2, <2>6, <3>1, <3>2
    <3> QED
      BY <2>1, <3>1, <3>2, <3>3
  <2> QED
    BY <2>4, <2>5, <2>6 DEF VecInv, StrictlySorted
<1> QED
  <2>1. s.found \in BOOLEAN
    BY <1>1, SearchForLocates
  <2> QED
    BY <1>2, <1>3, <2>1

\* Replacing a value by an equal one leaves the vector as it is.
LEMMA ReplaceChangesNothing ==
    ASSUME VecInv, NEW x \in Value, Replace(x)
    PROVE  vec' = vec
<1> DEFINE s == SearchFor(x)
<1>1. s.at \in 0 .. Len(vec) - 1 /\ vec[s.at + 1] = x
  BY ValueAssumption, SearchForLocates DEF Replace
<1>2. vec' = [vec EXCEPT ![s.at + 1] = x]
  BY DEF Replace
<1>3. vec \in Seq(Value) /\ DOMAIN vec = 1 .. Len(vec)
  BY VecIsSorted DEF VecInv
<1> HIDE DEF s
<1> QED
  BY <1>1, <1>2, <1>3, LenProperties

LEMMA HalveSplits ==
    ASSUME VecInv, Halve
    PROVE  LET n == Len(vec)
               cut == Len(vec) \div 2
           IN /\ cut \in 0 .. n
              /\ vec' \in Seq(Value) /\ done'.rest \in Seq(Value)
              /\ Len(vec') = cut /\ Len(done'.rest) = n - cut
              /\ \A k \in 1 .. cut : vec'[k] = vec[k]
              /\ \A k \in 1 .. n - cut : done'.rest[k] = vec[cut + k]
<1> DEFINE n == Len(vec)
           cut == Len(vec) \div 2
<1>1. n \in Nat /\ vec \in Seq(Value)
  BY VecIsSorted DEF VecInv
<1>2. cut \in 0 .. n
  BY <1>1
<1>3. vec' = SubSeq(vec, 1, cut) /\ done'.rest = SubSeq(vec, cut + 1, n)
  BY DEF Halve
<1> HIDE DEF cut
<1>4. /\ vec' \in Seq(Value) /\ Len(vec') = cut
      /\ \A k \in 1 .. cut : vec'[k] = vec[k]
  <2>1. 1 \in 1 .. n + 1 /\ 1 <= cut + 1
    BY <1>1, <1>2
  <2>2. /\ vec' \in Seq(Value) /\ Len(vec') = cut - 1 + 1
        /\ \A k \in 1 .. cut - 1 + 1 : vec'[k] = vec[1 + k - 1]
    BY <1>1, <1>2, <1>3, <2>1, SubSeqSeq
  <2> QED
    BY <1>1, <1>2, <2>2
<1>5. /\ done'.rest \in Seq(Value) /\ Len(done'.rest) = n - cut
      /\ \A k \in 1 .. n - cut : done'.rest[k] = vec[cut + k]
  <2>1. cut + 1 \in 1 .. n + 1 /\ n \in 0 .. n /\ cut + 1 <= n + 1
    BY <1>1, <1>2
  <2>2. /\ done'.rest \in Seq(Value) /\ Len(done'.rest) = n - (cut + 1) + 1
        /\ \A k \in 1 .. n - (cut + 1) + 1 : done'.rest[k] = vec[(cut + 1) + k - 1]
    BY <1>1, <1>3, <2>1, SubSeqSeq
  <2>3. n - (cut + 1) + 1 = n - cut /\ \A k \in 1 .. n - cut : (cut + 1) + k - 1 = cut + k
    BY <1>1, <1>2
  <2> QED
    BY <2>2, <2>3
<1> QED
  BY <1>2, <1>4, <1>5 DEF cut

LEMMA VecStep ==
    ASSUME VecInv, [Next]_vars
    PROVE  VecInv'
<1>1. CASE Halve
  <2>1. /\ Len(vec) \in Nat /\ \A k \in 1 .. Len(vec) : vec[k] \in Int
        /\ \A i, j \in 1 .. Len(vec) : i < j => vec[i] < vec[j]
    BY VecIsSorted DEF Sorted
  <2>2. /\ Len(vec') \in 0 .. Len(vec) /\ vec' \in Seq(Value)
        /\ \A k \in 1 .. Len(vec') : vec'[k] = vec[k]
    BY <1>1, HalveSplits
  <2>3. DOMAIN vec' = 1 .. Len(vec')
    BY <2>2, LenProperties
  <2> QED
    BY <2>1, <2>2, <2>3 DEF VecInv, StrictlySorted
<1>2. ASSUME NEW x \in Value, Insert(x) PROVE VecInv'
  BY <1>2, InsertKeepsSorted
<1>3. ASSUME NEW x \in Value, Delete(x) PROVE VecInv'
  BY <1>3, DeleteKeepsSorted
<1>4. ASSUME NEW x \in Value, Replace(x) PROVE VecInv'
  BY <1>4, ReplaceChangesNothing DEF VecInv, StrictlySorted
<1>5. CASE UNCHANGED vars
  BY <1>5 DEF vars, VecInv, StrictlySorted
<1> QED
  BY <1>1, <1>2, <1>3, <1>4, <1>5 DEF Next

LEMMA VecAlways == Spec => []VecInv
<1>1. Init => VecInv
  BY DEF Init, VecInv, StrictlySorted
<1> QED
  BY <1>1, VecStep, PTL DEF Spec

\* The vector of a node stays sorted and free of duplicates, whatever is
\* inserted, deleted, replaced and split off: NodeLike of core/node.rs.
THEOREM VecStaysSorted == Spec => []StrictlySorted
<1>1. VecInv => StrictlySorted
  BY DEF VecInv
<1> QED
  BY <1>1, VecAlways, PTL

-----------------------------------------------------------------------------
(* Positions are ranks *)

\* As many values as positions.
LEMMA ValuesCount ==
    ASSUME VecInv, NEW a \in 1 .. Len(vec) + 1, NEW b \in 0 .. Len(vec), a <= b + 1
    PROVE  Cardinality({vec[k] : k \in a .. b}) = b - a + 1
<1> DEFINE T == {vec[k] : k \in a .. b}
           f == [k \in a .. b |-> vec[k]]
<1>1. /\ Len(vec) \in Nat /\ \A k \in 1 .. Len(vec) : vec[k] \in Int
      /\ \A i, j \in 1 .. Len(vec) : i < j => vec[i] < vec[j]
  BY VecIsSorted DEF Sorted
<1>2. a \in Int /\ b \in Int /\ a .. b \subseteq 1 .. Len(vec)
  BY <1>1
<1>3. \A i, j \in a .. b : i # j => f[i] # f[j]
  <2>1. ASSUME NEW i \in a .. b, NEW j \in a .. b, i # j
        PROVE  vec[i] # vec[j]
    <3>1. i \in 1 .. Len(vec) /\ j \in 1 .. Len(vec) /\ (i < j \/ j < i)
      BY <1>2, <2>1
    <3> QED
      BY <1>1, <3>1
  <2> QED
    BY <2>1
<1>4. f \in Bijection(a .. b, T)
  BY <1>3 DEF Bijection, Injection, Surjection, IsInjective
<1>5. ExistsBijection(a .. b, T)
  BY <1>4 DEF ExistsBijection
<1>6. IsFiniteSet(a .. b) /\ Cardinality(a .. b) = IF a > b THEN 0 ELSE b - a + 1
  BY <1>2, FS_Interval
<1>7. Cardinality(T) = Cardinality(a .. b)
  BY <1>5, <1>6, FS_Bijection
<1> QED
  BY <1>2, <1>6, <1>7

LEMMA ContentIs ==
    ASSUME VecInv
    PROVE  /\ Content = {vec[k] : k \in 1 .. Len(vec)}
           /\ Content \subseteq Value
           /\ Cardinality(Content) = Len(vec)
<1>1. Len(vec) \in Nat /\ DOMAIN vec = 1 .. Len(vec) /\ \A k \in 1 .. Len(vec) : vec[k] \in Value
  BY VecIsSorted
<1>2. Content = {vec[k] : k \in 1 .. Len(vec)}
  BY <1>1 DEF Content, ToSet
<1>3. Cardinality({vec[k] : k \in 1 .. Len(vec)}) = Len(vec) - 1 + 1
  <2>1. 1 \in 1 .. Len(vec) + 1 /\ Len(vec) \in 0 .. Len(vec) /\ 1 <= Len(vec) + 1
    BY <1>1
  <2> QED
    BY <2>1, ValuesCount
<1>4. Len(vec) - 1 + 1 = Len(vec) /\ Content \subseteq Value
  BY <1>1, <1>2
<1> QED
  BY <1>2, <1>3, <1>4

\* The values below x are those in front of a position.
LEMMA RankIsPosition ==
    ASSUME VecInv, NEW x, NEW p \in 0 .. Len(vec),
           \A k \in 1 .. Len(vec) : vec[k] < x <=> k <= p
    PROVE  Rank(Content, x) = p
<1>1. Len(vec) \in Nat /\ p \in Int
  BY VecIsSorted
<1>2. {y \in Content : y < x} = {vec[k] : k \in 1 .. p}
  BY <1>1, ContentIs
<1>3. Cardinality({vec[k] : k \in 1 .. p}) = p - 1 + 1
  <2>1. 1 \in 1 .. Len(vec) + 1 /\ 1 <= p + 1
    BY <1>1
  <2> QED
    BY <2>1, ValuesCount
<1>4. p - 1 + 1 = p
  BY <1>1
<1> QED
  BY <1>2, <1>3, <1>4 DEF Rank

LEMMA RankOfItem ==
    ASSUME VecInv, NEW k \in 1 .. Len(vec)
    PROVE  Rank(Content, vec[k]) = k - 1
<1>1. /\ Len(vec) \in Nat /\ \A i \in 1 .. Len(vec) : vec[i] \in Int
      /\ \A i, j \in 1 .. Len(vec) : i < j => vec[i] < vec[j]
  BY VecIsSorted DEF Sorted
<1>2. k - 1 \in 0 .. Len(vec)
  BY <1>1
<1>3. ASSUME NEW i \in 1 .. Len(vec)
      PROVE  vec[i] < vec[k] <=> i <= k - 1
  <2>1. i < k \/ i = k \/ k < i
    OBVIOUS
  <2> QED
    BY <1>1, <2>1
<1> QED
  BY <1>2, <1>3, RankIsPosition

LEMMA SearchFindsRank ==
    ASSUME VecInv, NEW x \in Int
    PROVE  LET s == SearchFor(x) IN
           /\ s.found = (x \in Content)
           /\ s.at = Rank(Content, x)
<1> DEFINE s == SearchFor(x)
<1>1. /\ s.found \in BOOLEAN
      /\ s.found => s.at \in 0 .. Len(vec) - 1 /\ vec[s.at + 1] = x
      /\ ~s.found => s.at \in 0 .. Len(vec)
      /\ \A k \in 1 .. Len(vec) :
           /\ vec[k] < x <=> k <= s.at
           /\ vec[k] = x <=> s.found /\ k = s.at + 1
  BY SearchForLocates
<1> HIDE DEF s
<1>2. Len(vec) \in Nat
  BY VecIsSorted
<1>3. s.at \in 0 .. Len(vec) /\ (s.found => s.at + 1 \in 1 .. Len(vec))
  BY <1>1, <1>2
<1>4. Rank(Content, x) = s.at
  BY <1>1, <1>3, RankIsPosition
<1>5. s.found <=> x \in Content
  BY <1>1, <1>3, ContentIs
<1> QED
  BY <1>1, <1>4, <1>5 DEF s

-----------------------------------------------------------------------------
(* ActsAsSet *)

LEMMA InsertActs ==
    ASSUME VecInv, NEW x \in Value, Insert(x)
    PROVE  SetCall
<1> DEFINE s == SearchFor(x)
           p == s.at + 1
<1>1. x \in Int
  BY ValueAssumption
<1>2. s.found = (x \in Content) /\ s.at = Rank(Content, x)
  BY <1>1, SearchFindsRank
<1>3. ~s.found => s.at \in 0 .. Len(vec)
  BY <1>1, SearchForLocates
<1>4. /\ vec' = IF s.found THEN vec ELSE InsertAt(vec, p, x)
      /\ done' = [call |-> "insert", value |-> x, new |-> ~s.found, at |-> s.at]
  BY DEF Insert
<1> HIDE DEF s
<1>5. Content' = Content \cup {x}
  <2>1. CASE s.found
    BY <1>2, <1>4, <2>1 DEF Content
  <2>2. CASE ~s.found
    <3>1. p \in 1 .. Len(vec) + 1 /\ vec \in Seq(Value)
      BY <1>3, <2>2, VecIsSorted DEF VecInv
    <3> HIDE DEF p
    <3>2. ToSet(InsertAt(vec, p, x)) = ToSet(vec) \cup {x}
      BY <3>1, InsertAtSet
    <3> QED
      BY <1>4, <2>2, <3>2 DEF Content
  <2> QED
    BY <2>1, <2>2
<1> QED
  BY <1>2, <1>4, <1>5 DEF SetCall

LEMMA DeleteActs ==
    ASSUME VecInv, NEW x \in Value, Delete(x)
    PROVE  SetCall
<1> DEFINE s == SearchFor(x)
           p == s.at + 1
<1>1. x \in Int
  BY ValueAssumption
<1>2. s.found = (x \in Content) /\ s.at = Rank(Content, x)
  BY <1>1, SearchFindsRank
<1>3. /\ s.found => s.at \in 0 .. Len(vec) - 1 /\ vec[p] = x
      /\ \A k \in 1 .. Len(vec) : vec[k] = x => k = p
  BY <1>1, SearchForLocates
<1>4. /\ vec' = IF s.found THEN RemoveAt(vec, p) ELSE vec
      /\ done' = [call |-> "delete", value |-> x, at |-> IF s.found THEN s.at ELSE NoPosition]
  BY DEF Delete
<1> HIDE DEF s
<1>5. Content' = Content \ {x}
  <2>1. CASE ~s.found
    BY <1>2, <1>4, <2>1 DEF Content
  <2>2. CASE s.found
    <3>1. p \in 1 .. Len(vec) /\ vec \in Seq(Value) /\ vec[p] = x
      BY <1>3, <2>2, VecIsSorted DEF VecInv
    <3>2. \A k \in 1 .. Len(vec) : vec[k] = vec[p] => k = p
      BY <1>3, <3>1
    <3> HIDE DEF p
    <3>3. ToSet(RemoveAt(vec, p)) = ToSet(vec) \ {vec[p]}
      BY <3>1, <3>2, RemoveAtSet
    <3> QED
      BY <1>4, <2>2, <3>1, <3>3 DEF Content
  <2> QED
    BY <1>2, <2>1, <2>2
<1> QED
  BY <1>2, <1>4, <1>5 DEF SetCall

LEMMA ReplaceActs ==
    ASSUME VecInv, NEW x \in Value, Replace(x)
    PROVE  SetCall
<1>1. SearchFor(x).at = Rank(Content, x)
  BY ValueAssumption, SearchFindsRank
<1>2. vec' = vec
  BY ReplaceChangesNothing
<1>3. done' = [call |-> "replace", value |-> x, at |-> SearchFor(x).at]
  BY DEF Replace
<1> QED
  BY <1>1, <1>2, <1>3 DEF SetCall

LEMMA HalveActs ==
    ASSUME VecInv, Halve
    PROVE  SetCall
<1> DEFINE n == Len(vec)
           cut == Len(vec) \div 2
<1>1. n \in Nat /\ Cardinality(Content) = n /\ Content = {vec[k] : k \in 1 .. n}
  BY VecIsSorted, ContentIs
<1>2. \A k \in 1 .. n : Rank(Content, vec[k]) = k - 1
  BY RankOfItem
<1>3. /\ cut \in 0 .. n
      /\ vec' \in Seq(Value) /\ done'.rest \in Seq(Value)
      /\ Len(vec') = cut /\ Len(done'.rest) = n - cut
      /\ \A k \in 1 .. cut : vec'[k] = vec[k]
      /\ \A k \in 1 .. n - cut : done'.rest[k] = vec[cut + k]
  BY HalveSplits
<1>4. done'.call = "halve"
  BY DEF Halve
<1>5. LowerHalf(Content) = {x \in Content : Rank(Content, x) < cut}
  BY <1>1 DEF LowerHalf
<1>6. UpperHalf(Content) = {x \in Content : Rank(Content, x) >= cut}
  BY <1>1 DEF UpperHalf
<1>7. cut \in Int /\ 0 <= cut /\ cut <= n /\ n \in Int
  <2>1. n \in Nat
    BY VecIsSorted
  <2> HIDE DEF n
  <2> QED
    BY <2>1 DEF n
<1> HIDE DEF cut
<1>8. ToSet(vec') = LowerHalf(Content)
  <2> DEFINE low == vec'
  <2>1. \A x : x \in ToSet(low) <=> \E k \in 1 .. Len(low) : x = low[k]
    BY <1>3, ToSetSeq
  <2>2. Len(low) = cut /\ \A k \in 1 .. cut : low[k] = vec[k]
    BY <1>3
  <2> HIDE DEF low
  <2>3. \A k \in 1 .. n : vec[k] \in LowerHalf(Content) <=> k \in 1 .. cut
    <3>1. ASSUME NEW k \in 1 .. n
          PROVE  vec[k] \in LowerHalf(Content) <=> k \in 1 .. cut
      <4>1. k - 1 < cut <=> k \in 1 .. cut
        BY <1>7
      <4> QED
        BY <1>1, <1>2, <1>5, <4>1
    <3> QED
      BY <3>1
  <2>4. \A k \in 1 .. cut : k \in 1 .. n
    BY <1>7
  <2>5. \A x \in LowerHalf(Content) : \E k \in 1 .. n : x = vec[k]
    BY <1>1, <1>5
  <2>6. \A x : x \in ToSet(low) <=> \E k \in 1 .. cut : x = low[k]
    BY <2>1, <2>2
  <2> HIDE DEF n
  <2>7. ToSet(low) = LowerHalf(Content)
    <3>1. \A k \in 1 .. cut : low[k] \in LowerHalf(Content)
      BY <2>2, <2>3, <2>4
    <3>2. ASSUME NEW x \in LowerHalf(Content) PROVE \E k \in 1 .. cut : x = low[k]
      <4>1. PICK k \in 1 .. n : x = vec[k]
        BY <2>5
      <4>2. k \in 1 .. cut
        BY <2>3, <4>1
      <4> QED
        BY <2>2, <4>1, <4>2
    <3> QED
      BY <2>6, <3>1, <3>2
  <2> QED
    BY <2>7 DEF low
<1>9. ToSet(done'.rest) = UpperHalf(Content)
  <2> DEFINE rest == done'.rest
  <2>1. \A x : x \in ToSet(rest) <=> \E k \in 1 .. Len(rest) : x = rest[k]
    BY <1>3, ToSetSeq
  <2>2. Len(rest) = n - cut /\ \A k \in 1 .. n - cut : rest[k] = vec[cut + k]
    BY <1>3
  <2> HIDE DEF rest
  <2>3. \A k \in 1 .. n : vec[k] \in UpperHalf(Content) <=> k > cut
    <3>1. ASSUME NEW k \in 1 .. n
          PROVE  vec[k] \in UpperHalf(Content) <=> k > cut
      <4>1. k - 1 >= cut <=> k > cut
        BY <1>7
      <4> QED
        BY <1>1, <1>2, <1>6, <4>1
    <3> QED
      BY <3>1
  <2>4. ASSUME NEW k \in 1 .. n - cut PROVE rest[k] \in UpperHalf(Content)
    <3>1. cut + k \in 1 .. n /\ cut + k > cut
      BY <1>7
    <3> QED
      BY <2>2, <2>3, <3>1
  <2>5. ASSUME NEW x \in UpperHalf(Content) PROVE \E k \in 1 .. n - cut : x = rest[k]
    <3>1. PICK k \in 1 .. n : x = vec[k]
      BY <1>1, <1>6
    <3>2. k - cut \in 1 .. n - cut /\ cut + (k - cut) = k
      <4>1. k > cut
        BY <2>3, <3>1
      <4> QED
        BY <1>7, <4>1
    <3>3. rest[k - cut] = x
      BY <2>2, <3>1, <3>2
    <3> QED
      BY <3>2, <3>3
  <2>6. \A x : x \in ToSet(rest) <=> \E k \in 1 .. n - cut : x = rest[k]
    BY <2>1, <2>2
  <2> HIDE DEF n
  <2>7. ToSet(rest) = UpperHalf(Content)
    BY <2>2, <2>4, <2>5, <2>6
  <2> QED
    BY <2>7 DEF rest
<1> QED
  BY <1>4, <1>8, <1>9 DEF SetCall, Content

\* Whatever a node holds, its calls do to it and answer what the operators on
\* sets say that ConcurrentSet, RemoveRange and ChangeLog use for insert,
\* delete, replace and halve of core/node.rs.
THEOREM VecActsAsSet == Spec => ActsAsSet
<1>1. ASSUME VecInv, [Next]_vars PROVE [SetCall]_vars
  BY <1>1, InsertActs, DeleteActs, ReplaceActs, HalveActs DEF Next
<1> QED
  BY <1>1, VecAlways, PTL DEF Spec, ActsAsSet

-----------------------------------------------------------------------------
(* SkipsWhatIsOutside *)

\* An iterator skips, at either end of a node, as many items as lie outside the
\* bound, also where items borrow to the bound: compute_positions_to_skip().
THEOREM VecSkips == Spec => []SkipsWhatIsOutside
<1>1. ASSUME VecInv, NEW kind \in {"included", "excluded"}, NEW forward \in BOOLEAN,
             NEW q \in {Borrowed(x) : x \in Value}
      PROVE  Skip(kind, q, forward) = Cardinality(Outside(kind, q, forward)) - 1
  <2> DEFINE n == Len(vec)
             cmps == [i \in DOMAIN vec |-> Borrowed(vec[i]) - q]
  <2>1. /\ n \in Nat /\ DOMAIN vec = 1 .. n /\ \A k \in 1 .. n : vec[k] \in Int
        /\ \A i, j \in 1 .. n : i < j => vec[i] < vec[j]
    BY <1>1, VecIsSorted DEF Sorted
  <2>2. q \in Int /\ \A k \in 1 .. n : Borrowed(vec[k]) \in Int
    BY <2>1, ValueAssumption DEF Borrowed
  <2>3. cmps \in Seq(Int) /\ Len(cmps) = n /\ \A k \in 1 .. n : cmps[k] = Borrowed(vec[k]) - q
    BY <2>1, <2>2
  <2>4. \A i, j \in 1 .. n : i < j => Borrowed(vec[i]) <= Borrowed(vec[j])
    BY <2>1 DEF Borrowed
  <2>5. Skip(kind, q, forward) = PositionsToSkip(cmps, kind, forward)
    BY DEF Skip
  <2> HIDE DEF cmps
  <2>6. NotDecreasing(cmps)
    BY <2>2, <2>3, <2>4 DEF NotDecreasing
  <2>7. Content = {vec[k] : k \in 1 .. n}
    BY <1>1, ContentIs
  <2>8. \A k \in 1 .. n :
          vec[k] \in Outside(kind, q, forward) <=> Passes(cmps[k], kind, forward)
    <3>1. ASSUME NEW k \in 1 .. n
          PROVE  vec[k] \in Outside(kind, q, forward) <=> Passes(cmps[k], kind, forward)
      <4>1. /\ cmps[k] < 0 <=> Borrowed(vec[k]) < q
            /\ cmps[k] > 0 <=> Borrowed(vec[k]) > q
            /\ cmps[k] = 0 <=> Borrowed(vec[k]) = q
        BY <2>2, <2>3
      <4>2. vec[k] \in Content
        BY <2>7
      <4> QED
        BY <4>1, <4>2 DEF Outside, Passes
    <3> QED
      BY <3>1
  <2>9. Outside(kind, q, forward) \subseteq Content
    BY DEF Outside
  <2>10. CASE forward
    <3>1. PICK p \in 0 .. n :
            /\ PositionsToSkip(cmps, kind, TRUE) = p - 1
            /\ \A k \in 1 .. n : Passes(cmps[k], kind, TRUE) <=> k <= p
      BY <2>3, <2>6, SkipsFromFront
    <3>2. Outside(kind, q, forward) = {vec[k] : k \in 1 .. p}
      <4>1. \A k \in 1 .. n : k <= p <=> k \in 1 .. p
        BY <2>1
      <4>2. \A k \in 1 .. p : k \in 1 .. n
        BY <2>1
      <4> QED
        BY <2>7, <2>8, <2>9, <2>10, <3>1, <4>1, <4>2
    <3>3. Cardinality({vec[k] : k \in 1 .. p}) = p - 1 + 1
      <4>1. 1 \in 1 .. n + 1 /\ 1 <= p + 1
        BY <2>1
      <4> QED
        BY <1>1, <4>1, ValuesCount
    <3>4. p - 1 + 1 = p
      BY <2>1
    <3> QED
      BY <2>5, <2>10, <3>1, <3>2, <3>3, <3>4
  <2>11. CASE ~forward
    <3>1. PICK p \in 0 .. n :
            /\ PositionsToSkip(cmps, kind, FALSE) = p - 1
            /\ \A k \in 1 .. n : Passes(cmps[k], kind, FALSE) <=> n - p < k
      BY <2>3, <2>6, SkipsFromBack
    <3> DEFINE a == n - p + 1
    <3>2. a \in 1 .. n + 1 /\ n \in 0 .. n /\ a <= n + 1 /\ n - a + 1 = p
      BY <2>1
    <3>3. \A k \in 1 .. n : n - p < k <=> k \in a .. n
      BY <2>1
    <3> HIDE DEF a
    <3>4. Outside(kind, q, forward) = {vec[k] : k \in a .. n}
      <4>1. \A k \in a .. n : k \in 1 .. n
        BY <2>1, <3>2
      <4> QED
        BY <2>7, <2>8, <2>9, <2>11, <3>1, <3>3, <4>1
    <3>5. Cardinality({vec[k] : k \in a .. n}) = n - a + 1
      BY <1>1, <3>2, ValuesCount
    <3> QED
      BY <2>5, <2>11, <3>1, <3>2, <3>4, <3>5
  <2> QED
    BY <2>10, <2>11
<1>2. VecInv => SkipsWhatIsOutside
  BY <1>1 DEF SkipsWhatIsOutside
<1> QED
  BY <1>2, VecAlways, PTL
=============================================================================
