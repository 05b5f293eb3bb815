--------------------------- MODULE MultiMapProofs ---------------------------
(***************************************************************************)
(* Whatever the keys, values, discriminators and threads: the pairs of a   *)
(* key stay together, and while random pairs keep their order, get yields  *)
(* the pairs of its key and every call acts as on a multi map.             *)
(***************************************************************************)
EXTENDS MultiMap, NodeProofs

Pair == [key : Keys, value : Values, disc : Discriminators \cup {0}]
Option(S) == {Nothing} \cup {Some(x) : x \in S}

TypeOK ==
    /\ kind \in {"ord", "random"}
    /\ node \in Seq(Pair)
    /\ entry \in Option(Pair)
    /\ target \in [Thread -> Option(Pair)]
    /\ stayed \in [Thread -> BOOLEAN]
    /\ repeated \in BOOLEAN

\* The inductive invariant of KeysTogether.
KeysInv == TypeOK /\ KeysTogether

-----------------------------------------------------------------------------
(* Comparing *)

LEMMA PairFields ==
    ASSUME NEW p \in Pair
    PROVE  /\ p.key \in Keys /\ p.key \in Nat /\ p.value \in Nat /\ p.disc \in Nat
           /\ p.value \in Values
  BY NumbersAssumption DEF Pair

\* A comparison never contradicts the order of the keys.
LEMMA ComparesKeys ==
    ASSUME NEW a \in Pair, NEW b \in Pair
    PROVE  /\ Compare(a, b) \in Int
           /\ Compare(a, b) = 0 => a.key = b.key
           /\ Compare(a, b) < 0 => a.key <= b.key
           /\ Compare(a, b) > 0 => a.key >= b.key
<1>1. /\ a.key \in Int /\ a.value \in Int /\ a.disc \in Int
      /\ b.key \in Int /\ b.value \in Int /\ b.disc \in Int
  BY PairFields
<1> QED
  BY <1>1 DEF Compare, CompareOrd, CompareRandom, Same

LEMMA NodeIsSeq ==
    ASSUME TypeOK
    PROVE  /\ node \in Seq(Pair) /\ Len(node) \in Nat /\ DOMAIN node = 1 .. Len(node)
           /\ \A i \in 1 .. Len(node) : node[i] \in Pair /\ node[i].key \in Nat
           /\ node = <<>> <=> Len(node) = 0
<1>1. node \in Seq(Pair) /\ Len(node) \in Nat /\ DOMAIN node = 1 .. Len(node)
  BY LenProperties DEF TypeOK
<1>2. \A i \in 1 .. Len(node) : node[i] \in Pair
  BY <1>1, ElementOfSeq
<1>3. node = <<>> <=> Len(node) = 0
  BY <1>1, EmptySeq
<1> QED
  BY <1>1, <1>2, <1>3, PairFields

LEMMA ToPairSeq ==
    ASSUME TypeOK, NEW p \in Pair
    PROVE  /\ ToPair(p) \in Seq(Int) /\ Len(ToPair(p)) = Len(node)
           /\ \A i \in 1 .. Len(node) : ToPair(p)[i] = Compare(node[i], p)
<1>1. Len(node) \in Nat /\ DOMAIN node = 1 .. Len(node)
  BY NodeIsSeq
<1>2. \A i \in 1 .. Len(node) : Compare(node[i], p) \in Int
  BY NodeIsSeq, ComparesKeys
<1> QED
  BY <1>1, <1>2 DEF ToPair

LEMMA ToKeySeq ==
    ASSUME TypeOK, NEW k \in Keys
    PROVE  /\ ToKey(k) \in Seq(Int) /\ Len(ToKey(k)) = Len(node)
           /\ \A i \in 1 .. Len(node) : ToKey(k)[i] = node[i].key - k
<1>1. /\ Len(node) \in Nat /\ DOMAIN node = 1 .. Len(node) /\ k \in Nat
      /\ \A i \in 1 .. Len(node) : node[i].key \in Nat
  BY NodeIsSeq, NumbersAssumption
<1>2. \A i \in 1 .. Len(node) : node[i].key - k \in Int
  BY <1>1
<1> QED
  BY <1>1, <1>2 DEF ToKey

-----------------------------------------------------------------------------
(* The set's calls keep the pairs of a key together *)

LEMMA NewEntryIsPair ==
    ASSUME NEW before, NEW after \in Seq(Pair), entry \in Option(Pair),
           entry = Nothing => after # <<>>
    PROVE  NewEntry(before, after) \in Option(Pair)
<1>1. after # <<>> => after[1] \in Pair /\ Last(after) \in Pair
  <2>1. after # <<>> => Len(after) \in Nat \ {0}
    BY LenProperties, EmptySeq
  <2> QED
    BY <2>1, ElementOfSeq DEF Last
<1>2. CASE entry = Nothing
  BY <1>1, <1>2 DEF NewEntry, Option
<1>3. CASE entry # Nothing /\ (before = Nothing \/ Compare(entry[1], Last(before)) # 0)
  BY <1>3 DEF NewEntry
<1>4. CASE entry # Nothing /\ ~(before = Nothing \/ Compare(entry[1], Last(before)) # 0)
  <2>1. NewEntry(before, after) =
          IF after = Nothing THEN Nothing
          ELSE IF Same(Last(before), Last(after)) THEN entry ELSE Some(Last(after))
    BY <1>4 DEF NewEntry
  <2>2. CASE after = Nothing
    BY <2>1, <2>2 DEF Option
  <2>3. CASE after # Nothing
    BY <1>1, <2>1, <2>3 DEF Option, Nothing
  <2> QED
    BY <2>2, <2>3
<1> QED
  BY <1>2, <1>3, <1>4

LEMMA PutKeepsKeys ==
    ASSUME KeysInv, NEW p \in Pair, Put(p)
    PROVE  node' \in Seq(Pair) /\ entry' \in Option(Pair) /\ KeysTogether'
<1> DEFINE s == Search(ToPair(p))
           n == Len(node)
           at == s.at + 1
<1>1. /\ node \in Seq(Pair) /\ n \in Nat /\ DOMAIN node = 1 .. n
      /\ \A i \in 1 .. n : node[i] \in Pair /\ node[i].key \in Nat
      /\ \A i, j \in 1 .. n : i < j => node[i].key <= node[j].key
      /\ entry \in Option(Pair) /\ p.key \in Nat
  BY NodeIsSeq, PairFields DEF KeysInv, KeysTogether, TypeOK
<1>2. /\ Len(ToPair(p)) = n
      /\ \A i \in 1 .. n : ToPair(p)[i] = Compare(node[i], p)
      /\ Locates(ToPair(p), s)
  BY ToPairSeq, SearchLocates DEF KeysInv
<1>3. /\ node' = IF s.found THEN [node EXCEPT ![at] = p] ELSE InsertAt(node, at, p)
      /\ entry' = IF s.found THEN entry ELSE NewEntry(node, node')
  BY DEF Put
<1> HIDE DEF s, at, n
<1>4. CASE s.found
  <2>1. at \in 1 .. n /\ Compare(node[at], p) = 0
    BY <1>1, <1>2, <1>4 DEF Locates, at
  <2>2. node[at].key = p.key
    BY <1>1, <2>1, ComparesKeys
  <2>3. /\ node' \in Seq(Pair) /\ Len(node') = n
        /\ \A i \in 1 .. n : node'[i] = IF i = at THEN p ELSE node[i]
    BY <1>1, <1>3, <1>4, <2>1, ExceptSeq DEF n
  <2>4. DOMAIN node' = 1 .. n
    BY <2>3, LenProperties
  <2>5. \A i \in 1 .. n : node'[i].key = node[i].key
    BY <2>2, <2>3
  <2> QED
    BY <1>1, <1>3, <1>4, <2>3, <2>4, <2>5 DEF KeysTogether
<1>5. CASE ~s.found
  <2>1. /\ s.at \in 0 .. n /\ at = s.at + 1 /\ at \in 1 .. n + 1
        /\ s.at > 0 => Compare(node[s.at], p) < 0
        /\ s.at < n => Compare(node[at], p) > 0
    BY <1>1, <1>2, <1>5 DEF Locates, at
  <2>2. \A i \in 1 .. n : /\ i < at => node[i].key <= p.key
                          /\ i >= at => node[i].key >= p.key
    <3>1. s.at > 0 => s.at \in 1 .. n /\ node[s.at].key <= p.key
      <4>1. s.at > 0 => s.at \in 1 .. n /\ node[s.at] \in Pair /\ Compare(node[s.at], p) < 0
        BY <1>1, <2>1
      <4> QED
        BY <4>1, ComparesKeys
    <3>2. s.at < n => at \in 1 .. n /\ node[at].key >= p.key
      <4>1. s.at < n => at \in 1 .. n /\ node[at] \in Pair /\ Compare(node[at], p) > 0
        BY <1>1, <2>1
      <4> QED
        BY <4>1, ComparesKeys
    <3>3. ASSUME NEW i \in 1 .. n, i < at PROVE node[i].key <= p.key
      <4>1. s.at > 0 /\ (i < s.at \/ i = s.at)
        BY <1>1, <2>1, <3>3
      <4> QED
        BY <1>1, <3>1, <4>1
    <3>4. ASSUME NEW i \in 1 .. n, i >= at PROVE node[i].key >= p.key
      <4>1. s.at < n /\ (at < i \/ i = at)
        BY <1>1, <2>1, <3>4
      <4> QED
        BY <1>1, <3>2, <4>1
    <3> QED
      BY <3>3, <3>4
  <2>3. /\ node' \in Seq(Pair) /\ Len(node') = n + 1
        /\ \A i \in 1 .. n + 1 :
             node'[i] = IF i < at THEN node[i] ELSE IF i = at THEN p ELSE node[i - 1]
    <3>1. at \in 1 .. Len(node) + 1 /\ node' = InsertAt(node, at, p)
      BY <1>3, <1>5, <2>1 DEF n
    <3>2. /\ node' \in Seq(Pair) /\ Len(node') = Len(node) + 1
          /\ \A i \in 1 .. Len(node) + 1 :
               node'[i] = IF i < at THEN node[i] ELSE IF i = at THEN p ELSE node[i - 1]
      <4> DEFINE q == InsertAt(node, at, p)
      <4>1. q \in Seq(Pair) /\ Len(q) = Len(node) + 1
        BY <1>1, <3>1, InsertAtSeq
      <4>2. ASSUME NEW i \in 1 .. Len(node) + 1
            PROVE  q[i] = IF i < at THEN node[i] ELSE IF i = at THEN p ELSE node[i - 1]
        BY <1>1, <3>1, InsertAtSeq
      <4> HIDE DEF q, at
      <4>3. node' = q
        BY <3>1 DEF q
      <4> QED
        BY <4>1, <4>2, <4>3
    <3> QED
      BY <3>2 DEF n
  <2>4. DOMAIN node' = 1 .. n + 1
    BY <2>3, LenProperties
  <2>5. ASSUME NEW i \in 1 .. n + 1, NEW j \in 1 .. n + 1, i < j
        PROVE  node'[i].key <= node'[j].key
    <3>1. CASE j < at
      BY <1>1, <2>1, <2>3, <2>5, <3>1
    <3>2. CASE j = at
      BY <1>1, <2>1, <2>2, <2>3, <2>5, <3>2
    <3>3. CASE j > at /\ i = at
      <4>1. node'[i] = p /\ node'[j] = node[j - 1] /\ j - 1 \in 1 .. n /\ j - 1 >= at
        BY <1>1, <2>1, <2>3, <2>5, <3>3
      <4> QED
        BY <2>2, <4>1
    <3>4. CASE j > at /\ i < at
      <4>1. /\ node'[i] = node[i] /\ node'[j] = node[j - 1]
            /\ i \in 1 .. n /\ j - 1 \in 1 .. n /\ (i < j - 1 \/ i = j - 1)
        BY <1>1, <2>1, <2>3, <2>5, <3>4
      <4> QED
        BY <1>1, <4>1
    <3>5. CASE i > at
      <4>1. /\ node'[i] = node[i - 1] /\ node'[j] = node[j - 1]
            /\ i - 1 \in 1 .. n /\ j - 1 \in 1 .. n /\ i - 1 < j - 1
        BY <1>1, <2>1, <2>3, <2>5, <3>5
      <4> QED
        BY <1>1, <4>1
    <3> QED
      BY <1>1, <2>1, <2>5, <3>1, <3>2, <3>3, <3>4, <3>5
  <2>6. entry' \in Option(Pair)
    <3>1. node' # <<>>
      BY <1>1, <2>3, EmptySeq
    <3> QED
      BY <1>1, <1>3, <1>5, <2>3, <3>1, NewEntryIsPair
  <2> QED
    BY <2>3, <2>4, <2>5, <2>6 DEF KeysTogether
<1> QED
  BY <1>2, <1>4, <1>5 DEF Locates

LEMMA RemoveKeepsKeys ==
    ASSUME KeysInv, NEW call, NEW k, NEW v, NEW located \in BOOLEAN,
           located => entry # Nothing,
           NEW cmps \in Seq(Int), Len(cmps) = Len(node),
           RemoveOne(call, k, v, located, cmps)
    PROVE  node' \in Seq(Pair) /\ entry' \in Option(Pair) /\ KeysTogether'
<1> DEFINE s == Search(cmps)
           n == Len(node)
           at == s.at + 1
<1>1. /\ node \in Seq(Pair) /\ n \in Nat /\ DOMAIN node = 1 .. n
      /\ \A i \in 1 .. n : node[i] \in Pair /\ node[i].key \in Nat
      /\ \A i, j \in 1 .. n : i < j => node[i].key <= node[j].key
      /\ entry \in Option(Pair)
  BY NodeIsSeq DEF KeysInv, KeysTogether, TypeOK
<1>2. s.found \in BOOLEAN /\ (s.found => s.at \in 0 .. n - 1)
  BY SearchLocates DEF Locates
<1>3. LET found == located /\ s.found IN
      /\ node' = IF found THEN RemoveAt(node, at) ELSE node
      /\ entry' = IF found THEN NewEntry(node, node') ELSE entry
  BY DEF RemoveOne
<1> HIDE DEF s
<1>4. CASE ~(located /\ s.found)
  BY <1>1, <1>3, <1>4 DEF KeysTogether
<1>5. CASE located /\ s.found
  <2>1. at \in 1 .. n /\ node' = RemoveAt(node, at) /\ entry' = NewEntry(node, node')
    BY <1>1, <1>2, <1>3, <1>5
  <2> HIDE DEF at
  <2>2. /\ node' \in Seq(Pair) /\ Len(node') = n - 1
        /\ \A i \in 1 .. n - 1 : node'[i] = IF i < at THEN node[i] ELSE node[i + 1]
    BY <1>1, <2>1, RemoveAtSeq
  <2>3. DOMAIN node' = 1 .. n - 1
    BY <2>2, LenProperties
  <2>4. ASSUME NEW i \in 1 .. n - 1, NEW j \in 1 .. n - 1, i < j
        PROVE  node'[i].key <= node'[j].key
    <3>1. PICK a \in 1 .. n : node'[i] = node[a] /\ a = IF i < at THEN i ELSE i + 1
      BY <1>1, <2>2
    <3>2. PICK b \in 1 .. n : node'[j] = node[b] /\ b = IF j < at THEN j ELSE j + 1
      <4>1. j \in 1 .. n /\ j + 1 \in 1 .. n
        BY <1>1
      <4>2. /\ j < at => node'[j] = node[j]
            /\ ~(j < at) => node'[j] = node[j + 1]
        BY <2>2
      <4> QED
        BY <4>1, <4>2
    <3>3. a < b
      BY <1>1, <2>1, <2>4, <3>1, <3>2
    <3> QED
      BY <1>1, <3>1, <3>2, <3>3
  <2>5. entry' \in Option(Pair)
    BY <1>1, <1>5, <2>1, <2>2, NewEntryIsPair
  <2> QED
    BY <2>2, <2>3, <2>4, <2>5 DEF KeysTogether
<1> QED
  BY <1>2, <1>4, <1>5

\* What get yields is a part of the node, wherever the range's ends are found.
LEMMA GetIsPart ==
    ASSUME TypeOK, NEW k \in Keys
    PROVE  Get(k) \in Seq(Pair)
<1> DEFINE n == Len(node)
           from == IF FrontValue(k) = Nothing THEN 0
                   ELSE PositionsToSkip(ToPair(FrontValue(k)[1]), "excluded", TRUE) + 1
           upto == {m \in from .. n : \A i \in from + 1 .. m :
                      \A back \in ToSet(BackValue(k)) : Compare(node[i], back) < 0}
<1>1. /\ node \in Seq(Pair) /\ n \in Nat /\ \A i \in 1 .. n : node[i] \in Pair
  BY NodeIsSeq
<1>2. FrontValue(k) # Nothing => FrontValue(k)[1] \in Pair
  <2> DEFINE rank == PositionsToSkip(ToKey(k), "included", TRUE)
  <2>1. rank \in -1 .. n - 1
    BY ToKeySeq, SkipsAtMostAll
  <2>2. FrontValue(k) = IF rank = NoPosition \/ ~KeyLocated(k) THEN Nothing ELSE Some(node[rank + 1])
    BY DEF FrontValue
  <2> HIDE DEF rank
  <2>3. rank # NoPosition => rank + 1 \in 1 .. n
    BY <1>1, <2>1 DEF NoPosition
  <2> QED
    BY <1>1, <2>2, <2>3 DEF Some
<1>3. from \in 0 .. n
  <2>1. FrontValue(k) # Nothing =>
          PositionsToSkip(ToPair(FrontValue(k)[1]), "excluded", TRUE) \in -1 .. n - 1
    BY <1>2, ToPairSeq, SkipsAtMostAll
  <2>2. \A r \in -1 .. n - 1 : r + 1 \in 0 .. n
    BY <1>1
  <2>3. 0 \in 0 .. n
    BY <1>1
  <2> QED
    BY <2>1, <2>2, <2>3
<1> HIDE DEF from
<1>4. Max(upto) \in from .. n
  <2>1. from \in upto /\ upto \subseteq Int
    BY <1>1, <1>3
  <2>2. IsFiniteSet(from .. n) /\ upto \subseteq from .. n
    BY <1>1, <1>3, FS_Interval
  <2> HIDE DEF upto
  <2>3. IsFiniteSet(upto)
    BY <2>2, FS_Subset
  <2> QED
    BY <2>1, <2>2, <2>3, MaxIsGreatest
<1>5. SubSeq(node, from + 1, Max(upto)) \in Seq(Pair)
  <2> DEFINE m == Max(upto)
  <2> HIDE DEF m
  <2>1. from + 1 \in 1 .. n + 1 /\ m \in 0 .. n /\ from + 1 <= m + 1
    BY <1>1, <1>3, <1>4 DEF m
  <2>2. SubSeq(node, from + 1, m) \in Seq(Pair)
    BY <1>1, <2>1, SubSeqSeq
  <2> QED
    BY <2>2 DEF m
<1>6. Get(k) = <<>> \/ Get(k) = SubSeq(node, from + 1, Max(upto))
  BY DEF Get, from
<1> QED
  BY <1>5, <1>6, EmptySeq

-----------------------------------------------------------------------------
(* KeysTogether *)

LEMMA TargetIsPair ==
    ASSUME TypeOK, NEW t \in Thread, ~Idle(t)
    PROVE  target[t] = Some(target[t][1]) /\ target[t][1] \in Pair
  BY DEF TypeOK, Idle, Option, Some

LEMMA NewIsPair ==
    ASSUME NEW k \in Keys, NEW v \in Values, NEW p \in New(k, v)
    PROVE  p \in Pair /\ p.key = k /\ p.value = v
  BY DEF New, Pair

LEMMA FoundIsPair ==
    ASSUME TypeOK, NEW t \in Thread, NEW k \in Keys, NEW v \in Values, FindRandom(t, k, v)
    PROVE  \/ UNCHANGED <<target, stayed>>
           \/ \E i \in 1 .. Len(Get(k)) :
                /\ Get(k)[i] \in Pair /\ Get(k)[i].key = k /\ Get(k)[i].value = v
                /\ target' = [target EXCEPT ![t] = Some(Get(k)[i])]
                /\ stayed' = [stayed EXCEPT ![t] = TRUE]
<1> DEFINE I == {i \in 1 .. Len(Get(k)) : Get(k)[i].key = k /\ Get(k)[i].value = v}
           at == SelectInSeq(Get(k), LAMBDA p : p.key = k /\ p.value = v)
<1>1. at = IF I # {} THEN Min(I) ELSE 0
  BY DEF SelectInSeq
<1>2. /\ at = 0 => UNCHANGED <<target, stayed>>
      /\ at # 0 => /\ target' = [target EXCEPT ![t] = Some(Get(k)[at])]
                   /\ stayed' = [stayed EXCEPT ![t] = TRUE]
  BY DEF FindRandom
<1> HIDE DEF at
<1>3. Get(k) \in Seq(Pair) /\ Len(Get(k)) \in Nat
  BY GetIsPart, LenProperties
<1>4. I # {} => Min(I) \in I
  <2>1. I \subseteq 1 .. Len(Get(k))
    OBVIOUS
  <2> HIDE DEF I
  <2>2. ASSUME I # {} PROVE \E m \in I : \A y \in I : m <= y
    <3> DEFINE Bad == {i \in Nat : i \in I}
    <3>1. Bad # {} /\ Bad \subseteq Nat
      <4>1. \A i \in I : i \in Nat
        BY <1>3, <2>1
      <4> QED
        BY <2>2, <4>1
    <3>2. PICK m \in Bad : \A y \in Bad : ~(y < m)
      BY <3>1, NoLeastNone
    <3> QED
      BY <1>3, <2>1, <3>2
  <2> QED
    BY <2>2, Zenon DEF Min
<1>5. at # 0 => at \in I
  BY <1>1, <1>4
<1> QED
  BY <1>2, <1>3, <1>5, ElementOfSeq

LEMMA KeysStep ==
    ASSUME KeysInv, [Next]_vars
    PROVE  KeysInv'
<1>1. ASSUME NEW t \in Thread, NEW k \in Keys, NEW v \in Values, Insert(t, k, v)
      PROVE  KeysInv'
  <2>1. PICK p \in New(k, v) : Put(p)
    BY <1>1 DEF Insert
  <2>2. node' \in Seq(Pair) /\ entry' \in Option(Pair) /\ KeysTogether'
    BY <2>1, NewIsPair, PutKeepsKeys
  <2>3. repeated' \in BOOLEAN /\ UNCHANGED <<kind, target, stayed>>
    BY <1>1 DEF Insert, Has, KeysInv, TypeOK
  <2> QED
    BY <2>2, <2>3 DEF KeysInv, TypeOK
<1>2. ASSUME NEW t \in Thread, NEW k \in Keys, NEW v \in Values, RemoveOrd(t, k, v)
      PROVE  KeysInv'
  <2>1. PICK p \in New(k, v) : RemoveOne("remove", k, v, PairLocated(p), ToPair(p))
    BY <1>2 DEF RemoveOrd
  <2>2. /\ ToPair(p) \in Seq(Int) /\ Len(ToPair(p)) = Len(node)
        /\ PairLocated(p) \in BOOLEAN
        /\ PairLocated(p) => entry # Nothing
    BY <2>1, NewIsPair, ToPairSeq DEF KeysInv, PairLocated
  <2>3. node' \in Seq(Pair) /\ entry' \in Option(Pair) /\ KeysTogether'
    BY <2>1, <2>2, RemoveKeepsKeys
  <2> QED
    BY <1>2, <2>3 DEF RemoveOrd, KeysInv, TypeOK
<1>3. ASSUME NEW t \in Thread, NEW k \in Keys, NEW v \in Values, FindRandom(t, k, v)
      PROVE  KeysInv'
  <2>1. UNCHANGED <<kind, node, entry, repeated>>
    BY <1>3 DEF FindRandom
  <2>2. target' \in [Thread -> Option(Pair)] /\ stayed' \in [Thread -> BOOLEAN]
    <3>1. CASE UNCHANGED <<target, stayed>>
      BY <3>1 DEF KeysInv, TypeOK
    <3>2. ASSUME NEW p \in Pair, target' = [target EXCEPT ![t] = Some(p)],
                 stayed' = [stayed EXCEPT ![t] = TRUE]
          PROVE  target' \in [Thread -> Option(Pair)] /\ stayed' \in [Thread -> BOOLEAN]
      <4>1. Some(p) \in Option(Pair)
        BY DEF Option
      <4> QED
        BY <3>2, <4>1 DEF KeysInv, TypeOK
    <3> QED
      BY <1>3, <3>1, <3>2, FoundIsPair DEF KeysInv
  <2> QED
    BY <2>1, <2>2 DEF KeysInv, TypeOK, KeysTogether
<1>4. ASSUME NEW t \in Thread, RemoveRandom(t)
      PROVE  KeysInv'
  <2> DEFINE p == target[t][1]
  <2>1. /\ ~Idle(t) /\ RemoveOne("remove", p.key, p.value, PairLocated(p), ToPair(p))
        /\ target' = [target EXCEPT ![t] = Nothing] /\ UNCHANGED <<kind, repeated>> /\ PairGone
    BY <1>4 DEF RemoveRandom
  <2>2. p \in Pair
    BY <2>1, TargetIsPair DEF KeysInv
  <2> HIDE DEF p
  <2>3. /\ ToPair(p) \in Seq(Int) /\ Len(ToPair(p)) = Len(node)
        /\ PairLocated(p) \in BOOLEAN
        /\ PairLocated(p) => entry # Nothing
    BY <2>2, ToPairSeq DEF KeysInv, PairLocated
  <2>4. node' \in Seq(Pair) /\ entry' \in Option(Pair) /\ KeysTogether'
    BY <2>1, <2>3, RemoveKeepsKeys
  <2>5. stayed' \in [Thread -> BOOLEAN] /\ target' \in [Thread -> Option(Pair)]
    BY <2>1 DEF KeysInv, TypeOK, Option, PairGone, Idle, Has
  <2> QED
    BY <2>1, <2>4, <2>5 DEF KeysInv, TypeOK
<1>5. ASSUME NEW t \in Thread, NEW k \in Keys, RemoveSome(t, k)
      PROVE  KeysInv'
  <2>1. /\ RemoveOne("remove_some", k, 0, KeyLocated(k), ToKey(k))
        /\ UNCHANGED <<kind, target, repeated>> /\ PairGone
    BY <1>5 DEF RemoveSome
  <2>2. /\ ToKey(k) \in Seq(Int) /\ Len(ToKey(k)) = Len(node)
        /\ KeyLocated(k) \in BOOLEAN
        /\ KeyLocated(k) => entry # Nothing
    BY ToKeySeq DEF KeysInv, KeyLocated
  <2>3. node' \in Seq(Pair) /\ entry' \in Option(Pair) /\ KeysTogether'
    BY <2>1, <2>2, RemoveKeepsKeys
  <2>4. stayed' \in [Thread -> BOOLEAN]
    BY <2>1 DEF KeysInv, TypeOK, PairGone, Idle, Has
  <2> QED
    BY <2>1, <2>3, <2>4 DEF KeysInv, TypeOK
<1>6. CASE UNCHANGED vars
  BY <1>6 DEF vars, KeysInv, TypeOK, KeysTogether
<1> QED
  BY <1>1, <1>2, <1>3, <1>4, <1>5, <1>6 DEF Next

LEMMA KeysAlways == Spec => []KeysInv
<1>1. Init => KeysInv
  <2> SUFFICES ASSUME Init PROVE KeysInv
    OBVIOUS
  <2>1. node \in Seq(Pair) /\ DOMAIN node = {}
    BY EmptySeq, LenProperties DEF Init
  <2>2. target \in [Thread -> Option(Pair)] /\ stayed \in [Thread -> BOOLEAN]
    BY DEF Init, Option
  <2> QED
    BY <2>1, <2>2 DEF Init, KeysInv, TypeOK, KeysTogether, Option
<1> QED
  BY <1>1, KeysStep, PTL DEF Spec

\* The pairs of a key are neighbours in the node whatever the values and the
\* discriminators do: what MultiPairLike asks of its implementations.
THEOREM KeysStayTogether == Spec => []KeysTogether
<1>1. KeysInv => KeysTogether
  BY DEF KeysInv
<1> QED
  BY <1>1, KeysAlways, PTL

-----------------------------------------------------------------------------
(* While pairs keep their order: the inductive invariant of GetYieldsKey and *)
(* ActsAsMultiMap                                                           *)

\* What pairs of one key are ordered by.
Second(p) == IF kind = "ord" THEN p.value ELSE p.disc

Before(p, q) == p.key < q.key \/ (p.key = q.key /\ Second(p) < Second(q))

PairsInOrder == Ordered =>
    \A i, j \in DOMAIN node : i < j => Before(node[i], node[j]) /\ ~Same(node[i], node[j])

OrdPairsPlain == kind = "ord" => \A i \in DOMAIN node : node[i].disc = 0

EntryIsLast == Ordered => entry = IF node = <<>> THEN Nothing ELSE Some(Last(node))

\* A pair that is to be removed is in the node while it has stayed in the map,
\* and no pair has its discriminator.
TargetsKnown == \A t \in Thread : ~Idle(t) =>
    /\ kind = "random"
    /\ Ordered => /\ stayed[t] => target[t][1] \in ToSet(node)
                  /\ \A q \in ToSet(node) :
                       q.key = target[t][1].key /\ q.disc = target[t][1].disc
                         => q = target[t][1]

MapInv == KeysInv /\ PairsInOrder /\ OrdPairsPlain /\ EntryIsLast /\ TargetsKnown

\* Pairs that are told apart compare as they are ordered.
LEMMA ComparesOrder ==
    ASSUME TypeOK, NEW a \in Pair, NEW b \in Pair
    PROVE  /\ Same(a, b) => Compare(a, b) = 0
           /\ ~Same(a, b) => /\ Compare(a, b) < 0 <=> Before(a, b)
                             /\ Compare(a, b) > 0 <=> Before(b, a)
                             /\ Compare(a, b) = 0 <=> a.key = b.key /\ Second(a) = Second(b)
<1>1. /\ a.key \in Int /\ a.value \in Int /\ a.disc \in Int
      /\ b.key \in Int /\ b.value \in Int /\ b.disc \in Int
  BY PairFields
<1>2. CASE kind = "ord"
  BY <1>1, <1>2 DEF Compare, CompareOrd, Same, Before, Second
<1>3. CASE kind = "random"
  BY <1>1, <1>3 DEF Compare, CompareRandom, Same, Before, Second
<1> QED
  BY <1>2, <1>3 DEF TypeOK

LEMMA BeforeIsOrder ==
    ASSUME NEW a \in Pair, NEW b \in Pair, NEW c \in Pair
    PROVE  /\ Before(a, b) /\ Before(b, c) => Before(a, c)
           /\ ~(Before(a, b) /\ Before(b, a))
           /\ Before(a, b) \/ Before(b, a) \/ (a.key = b.key /\ Second(a) = Second(b))
<1>1. /\ a.key \in Int /\ Second(a) \in Int
      /\ b.key \in Int /\ Second(b) \in Int
      /\ c.key \in Int /\ Second(c) \in Int
  BY PairFields DEF Second
<1> QED
  BY <1>1 DEF Before

LEMMA InOrder ==
    ASSUME MapInv, Ordered
    PROVE  \A i, j \in 1 .. Len(node) :
             /\ i < j => Before(node[i], node[j]) /\ ~Same(node[i], node[j])
             /\ Same(node[i], node[j]) => i = j
<1>1. DOMAIN node = 1 .. Len(node)
  BY NodeIsSeq DEF MapInv, KeysInv
<1>2. \A i, j \in 1 .. Len(node) : i < j => Before(node[i], node[j]) /\ ~Same(node[i], node[j])
  BY <1>1 DEF MapInv, PairsInOrder
<1>3. \A i, j \in 1 .. Len(node) : Same(node[i], node[j]) => Same(node[j], node[i])
  BY DEF Same
<1> QED
  BY <1>2, <1>3

\* How the pairs of the node compare with one of them.
LEMMA ComparesPositions ==
    ASSUME MapInv, Ordered, NEW m \in 1 .. Len(node), NEW i \in 1 .. Len(node)
    PROVE  /\ Compare(node[i], node[m]) < 0 <=> i < m
           /\ Compare(node[i], node[m]) = 0 <=> i = m
           /\ Compare(node[i], node[m]) \in Int
<1>1. node[i] \in Pair /\ node[m] \in Pair /\ TypeOK
  BY NodeIsSeq DEF MapInv, KeysInv
<1>2. Compare(node[i], node[m]) \in Int
  BY <1>1, ComparesKeys
<1>3. CASE i < m
  <2>1. Before(node[i], node[m]) /\ ~Same(node[i], node[m])
    BY <1>3, InOrder
  <2> QED
    BY <1>1, <1>2, <1>3, <2>1, ComparesOrder
<1>4. CASE i = m
  <2>1. Same(node[i], node[m])
    BY <1>4 DEF Same
  <2> QED
    BY <1>1, <1>2, <1>4, <2>1, ComparesOrder
<1>5. CASE m < i
  <2>1. Before(node[m], node[i]) /\ ~Same(node[i], node[m])
    BY <1>5, InOrder DEF Same
  <2> QED
    BY <1>1, <1>2, <1>5, <2>1, ComparesOrder
<1> QED
  BY <1>2, <1>3, <1>4, <1>5

\* search() finds a pair of the node, at its position, and index.lower_bound
\* has found the node.
LEMMA SearchFindsPair ==
    ASSUME MapInv, Ordered, NEW m \in 1 .. Len(node)
    PROVE  LET s == Search(ToPair(node[m])) IN
           s.found /\ s.at + 1 = m /\ PairLocated(node[m])
<1> DEFINE n == Len(node)
           p == node[m]
           s == Search(ToPair(p))
<1>1. n \in Nat /\ p \in Pair /\ TypeOK
  BY NodeIsSeq DEF MapInv, KeysInv
<1>2. /\ Len(ToPair(p)) = n
      /\ \A i \in 1 .. n : ToPair(p)[i] = Compare(node[i], p)
      /\ Locates(ToPair(p), s)
  BY <1>1, ToPairSeq, SearchLocates
<1>3. \A i \in 1 .. n : /\ Compare(node[i], p) < 0 <=> i < m
                        /\ Compare(node[i], p) = 0 <=> i = m
                        /\ Compare(node[i], p) \in Int
  BY ComparesPositions
<1> HIDE DEF s, p
<1>4. s.found
  <2>1. SUFFICES ASSUME ~s.found PROVE FALSE
    OBVIOUS
  <2>2. /\ s.at \in 0 .. n
        /\ s.at > 0 => Compare(node[s.at], p) < 0
        /\ s.at < n => Compare(node[s.at + 1], p) > 0
    BY <1>1, <1>2, <2>1 DEF Locates
  <2>3. s.at > 0 => s.at < m
    BY <1>1, <1>3, <2>2
  <2>4. s.at < n => s.at + 1 > m
    <3>1. ASSUME s.at < n PROVE s.at + 1 > m
      <4>1. s.at + 1 \in 1 .. n
        BY <1>1, <2>2, <3>1
      <4>2. ~(s.at + 1 < m) /\ s.at + 1 # m
        BY <1>3, <2>2, <3>1, <4>1
      <4> QED
        BY <1>1, <4>1, <4>2
    <3> QED
      BY <3>1
  <2> QED
    BY <1>1, <2>2, <2>3, <2>4
<1>5. s.at + 1 = m
  <2>1. s.at + 1 \in 1 .. n /\ Compare(node[s.at + 1], p) = 0
    BY <1>1, <1>2, <1>4 DEF Locates
  <2> QED
    BY <1>3, <2>1
<1>6. PairLocated(p)
  <2>1. node # <<>> /\ n \in 1 .. n
    BY <1>1, NodeIsSeq
  <2>2. entry = Some(node[n])
    BY <2>1 DEF MapInv, EntryIsLast, Last
  <2>3. ~(Compare(node[n], p) < 0) /\ Compare(node[n], p) \in Int
    BY <1>1, <1>3, <2>1
  <2> QED
    BY <2>2, <2>3 DEF PairLocated, Some, Nothing
<1> QED
  BY <1>4, <1>5, <1>6 DEF s, p

LEMMA ContentIs ==
    ASSUME TypeOK
    PROVE  \A c : c \in Content <=>
             \E i \in 1 .. Len(node) : c = <<node[i].key, node[i].value>>
  BY NodeIsSeq DEF Content, ToSet

-----------------------------------------------------------------------------
(* The set's calls keep the order *)

\* Sames are equal in a node in order, so a part of it loses no other.
LEMMA NoOtherSame ==
    ASSUME MapInv, Ordered, NEW p \in ToSet(node), NEW q \in ToSet(node), Same(p, q)
    PROVE  p = q
<1>1. /\ \E i \in 1 .. Len(node) : p = node[i]
      /\ \E i \in 1 .. Len(node) : q = node[i]
  BY NodeIsSeq DEF MapInv, KeysInv, ToSet
<1> QED
  BY <1>1, InOrder

\* While the entry is under the last pair, the calls find it.
LEMMA EntryFollows ==
    ASSUME MapInv, Ordered, node # <<>>, NEW after
    PROVE  NewEntry(node, after) =
             IF after = Nothing THEN Nothing
             ELSE IF Same(Last(node), Last(after)) THEN entry ELSE Some(Last(after))
<1>1. Len(node) \in 1 .. Len(node)
  BY NodeIsSeq DEF MapInv, KeysInv
<1>2. entry # Nothing /\ entry[1] = node[Len(node)] /\ Last(node) = node[Len(node)]
  BY DEF MapInv, EntryIsLast, Some, Nothing, Last
<1>3. Compare(entry[1], Last(node)) = 0
  BY <1>1, <1>2, ComparesPositions
<1> QED
  BY <1>2, <1>3 DEF NewEntry, Nothing

LEMMA RemoveKeepsOrder ==
    ASSUME MapInv, Ordered, NEW call, NEW k, NEW v, NEW located \in BOOLEAN,
           NEW cmps \in Seq(Int), Len(cmps) = Len(node),
           RemoveOne(call, k, v, located, cmps), kind' = kind
    PROVE  LET s == Search(cmps)
               found == located /\ s.found
           IN /\ PairsInOrder' /\ OrdPairsPlain' /\ EntryIsLast'
              /\ found => /\ s.at + 1 \in 1 .. Len(node)
                          /\ ToSet(node') = ToSet(node) \ {node[s.at + 1]}
              /\ ~found => node' = node
<1> DEFINE s == Search(cmps)
           n == Len(node)
           at == s.at + 1
<1>1. /\ node \in Seq(Pair) /\ n \in Nat /\ DOMAIN node = 1 .. n
      /\ \A i \in 1 .. n : node[i] \in Pair
      /\ node = <<>> <=> n = 0
  BY NodeIsSeq DEF MapInv, KeysInv
<1>2. s.found \in BOOLEAN /\ (s.found => s.at \in 0 .. n - 1)
  BY SearchLocates DEF Locates
<1>3. LET found == located /\ s.found IN
      /\ node' = IF found THEN RemoveAt(node, at) ELSE node
      /\ entry' = IF found THEN NewEntry(node, node') ELSE entry
  BY DEF RemoveOne
<1>4. \A i, j \in 1 .. n : i < j => Before(node[i], node[j]) /\ ~Same(node[i], node[j])
  BY InOrder
<1>5. entry = IF node = <<>> THEN Nothing ELSE Some(Last(node))
  BY DEF MapInv, EntryIsLast
<1>6. kind = "ord" => \A i \in 1 .. n : node[i].disc = 0
  BY <1>1 DEF MapInv, OrdPairsPlain
<1> HIDE DEF s
<1>7. CASE ~(located /\ s.found)
  <2>1. node' = node /\ entry' = entry
    BY <1>3, <1>7
  <2>2. PairsInOrder' /\ OrdPairsPlain' /\ EntryIsLast'
    <3>1. PairsInOrder'
      BY <1>1, <1>4, <2>1 DEF PairsInOrder, Before, Second
    <3>2. OrdPairsPlain'
      BY <1>1, <1>6, <2>1 DEF OrdPairsPlain
    <3>3. EntryIsLast'
      BY <1>5, <2>1 DEF EntryIsLast
    <3> QED
      BY <3>1, <3>2, <3>3
  <2> QED
    BY <1>7, <2>1, <2>2 DEF s
<1>8. CASE located /\ s.found
  <2>1. at \in 1 .. n /\ node' = RemoveAt(node, at) /\ entry' = NewEntry(node, node')
    BY <1>1, <1>2, <1>3, <1>8
  <2> HIDE DEF at
  <2>2. /\ node' \in Seq(Pair) /\ Len(node') = n - 1
        /\ \A i \in 1 .. n - 1 : node'[i] = IF i < at THEN node[i] ELSE node[i + 1]
    BY <1>1, <2>1, RemoveAtSeq
  <2>3. DOMAIN node' = 1 .. n - 1 /\ (node' = <<>> <=> n = 1)
    BY <1>1, <2>1, <2>2, LenProperties, EmptySeq
  <2>4. ASSUME NEW i \in 1 .. n - 1, NEW j \in 1 .. n - 1, i < j
        PROVE  Before(node'[i], node'[j]) /\ ~Same(node'[i], node'[j])
    <3>1. PICK a \in 1 .. n : node'[i] = node[a] /\ a = IF i < at THEN i ELSE i + 1
      BY <1>1, <2>2
    <3>2. PICK b \in 1 .. n : node'[j] = node[b] /\ b = IF j < at THEN j ELSE j + 1
      <4>1. j \in 1 .. n /\ j + 1 \in 1 .. n
        BY <1>1
      <4>2. /\ j < at => node'[j] = node[j]
            /\ ~(j < at) => node'[j] = node[j + 1]
        BY <2>2
      <4> QED
        BY <4>1, <4>2
    <3>3. a < b
      BY <1>1, <2>1, <2>4, <3>1, <3>2
    <3> QED
      BY <1>4, <3>1, <3>2, <3>3
  <2>5. PairsInOrder'
    BY <2>3, <2>4 DEF PairsInOrder, Before, Second
  <2>6. OrdPairsPlain'
    <3>1. ASSUME NEW i \in 1 .. n - 1 PROVE \E a \in 1 .. n : node'[i] = node[a]
      BY <1>1, <2>2
    <3> QED
      BY <1>6, <2>3, <3>1 DEF OrdPairsPlain
  <2>7. EntryIsLast'
    <3>1. n \in 1 .. n /\ node # <<>> /\ entry = Some(node[n]) /\ Last(node) = node[n]
      BY <1>1, <1>5, <2>1 DEF Last
    <3>2. CASE n = 1
      <4>1. entry' = Nothing
        BY <2>1, <2>3, <3>1, <3>2, EntryFollows DEF Nothing
      <4> QED
        BY <2>3, <3>2, <4>1 DEF EntryIsLast
    <3>3. CASE n # 1
      <4>1. n - 1 \in 1 .. n - 1 /\ n - 1 \in 1 .. n /\ node' # <<>> /\ Last(node') = node'[n - 1]
        BY <1>1, <2>2, <2>3, <3>3 DEF Last
      <4>2. entry' = IF Same(Last(node), Last(node')) THEN entry ELSE Some(Last(node'))
        BY <2>1, <3>1, <4>1, EntryFollows DEF Nothing
      <4>3. CASE at < n
        <5>1. Last(node') = node[n]
          <6>1. ~(n - 1 < at) /\ n - 1 + 1 = n
            BY <1>1, <2>1, <4>3
          <6> QED
            BY <2>2, <4>1, <6>1
        <5>2. entry' = entry
          BY <3>1, <4>2, <5>1 DEF Same
        <5> QED
          BY <3>1, <4>1, <5>1, <5>2 DEF EntryIsLast
      <4>4. CASE at = n
        <5>1. Last(node') = node[n - 1]
          <6>1. n - 1 < at
            BY <1>1, <4>4
          <6>2. node'[n - 1] = node[n - 1]
            BY <2>2, <4>1, <6>1
          <6> QED
            BY <4>1, <6>2
        <5>2. ~Same(Last(node), Last(node'))
          <6>1. n - 1 < n
            BY <1>1
          <6> QED
            BY <1>4, <3>1, <4>1, <5>1, <6>1 DEF Same
        <5>3. Compare(entry[1], Last(node)) = 0
          <6>1. entry[1] = node[n] /\ Last(node) = node[n]
            BY <3>1 DEF Some
          <6> QED
            BY <3>1, <6>1, ComparesPositions
        <5> QED
          BY <4>1, <4>2, <5>2, <5>3 DEF EntryIsLast
      <4> QED
        BY <1>1, <2>1, <4>3, <4>4
    <3> QED
      BY <3>2, <3>3
  <2>8. ToSet(node') = ToSet(node) \ {node[at]}
    <3>1. \A i \in 1 .. n : node[i] = node[at] => i = at
      BY <2>1, InOrder DEF Same
    <3> QED
      BY <1>1, <2>1, <3>1, RemoveAtSet
  <2> QED
    BY <1>8, <2>1, <2>5, <2>6, <2>7, <2>8 DEF s, at
<1> QED
  BY <1>2, <1>7, <1>8

\* A pair that is the same as none, and told apart by what it is ordered by.
LEMMA PutKeepsOrder ==
    ASSUME MapInv, Ordered, NEW p \in Pair, Put(p), kind' = kind,
           kind = "ord" => p.disc = 0,
           \A i \in 1 .. Len(node) :
             /\ ~Same(node[i], p)
             /\ node[i].key = p.key => Second(node[i]) # Second(p)
    PROVE  /\ PairsInOrder' /\ OrdPairsPlain' /\ EntryIsLast'
           /\ ToSet(node') = ToSet(node) \cup {p}
           /\ ~Search(ToPair(p)).found
<1> DEFINE s == Search(ToPair(p))
           n == Len(node)
           at == s.at + 1
<1>1. /\ node \in Seq(Pair) /\ n \in Nat /\ DOMAIN node = 1 .. n
      /\ \A i \in 1 .. n : node[i] \in Pair
      /\ node = <<>> <=> n = 0
      /\ TypeOK
  BY NodeIsSeq DEF MapInv, KeysInv
<1>2. /\ Len(ToPair(p)) = n
      /\ \A i \in 1 .. n : ToPair(p)[i] = Compare(node[i], p)
      /\ Locates(ToPair(p), s)
  BY <1>1, ToPairSeq, SearchLocates
<1>3. /\ node' = IF s.found THEN [node EXCEPT ![at] = p] ELSE InsertAt(node, at, p)
      /\ entry' = IF s.found THEN entry ELSE NewEntry(node, node')
  BY DEF Put
<1>4. \A i, j \in 1 .. n : i < j => Before(node[i], node[j]) /\ ~Same(node[i], node[j])
  BY InOrder
<1>5. entry = IF node = <<>> THEN Nothing ELSE Some(Last(node))
  BY DEF MapInv, EntryIsLast
<1>6. kind = "ord" => \A i \in 1 .. n : node[i].disc = 0
  BY <1>1 DEF MapInv, OrdPairsPlain
<1>7. \A i \in 1 .. n : /\ Compare(node[i], p) < 0 <=> Before(node[i], p)
                        /\ Compare(node[i], p) > 0 <=> Before(p, node[i])
                        /\ Compare(node[i], p) # 0
  BY <1>1, ComparesOrder
<1> HIDE DEF s, at
<1>8. ~s.found
  BY <1>1, <1>2, <1>7 DEF Locates
<1>9. /\ s.at \in 0 .. n /\ at = s.at + 1 /\ at \in 1 .. n + 1
      /\ s.at > 0 => Before(node[s.at], p)
      /\ s.at < n => Before(p, node[at])
  BY <1>1, <1>2, <1>7, <1>8 DEF Locates, at
<1>10. ASSUME NEW i \in 1 .. n, i < at PROVE Before(node[i], p)
  <2>1. s.at \in 1 .. n /\ Before(node[s.at], p) /\ (i < s.at \/ i = s.at)
    BY <1>1, <1>9, <1>10
  <2> QED
    BY <1>1, <1>4, <2>1, BeforeIsOrder
<1>11. ASSUME NEW i \in 1 .. n, i >= at PROVE Before(p, node[i])
  <2>1. at \in 1 .. n /\ Before(p, node[at]) /\ (at < i \/ i = at)
    BY <1>1, <1>9, <1>11
  <2> QED
    BY <1>1, <1>4, <2>1, BeforeIsOrder
<1>12. at \in 1 .. Len(node) + 1 /\ node' = InsertAt(node, at, p)
  BY <1>3, <1>8, <1>9
<1>13. /\ node' \in Seq(Pair) /\ Len(node') = n + 1
       /\ \A i \in 1 .. n + 1 :
            node'[i] = IF i < at THEN node[i] ELSE IF i = at THEN p ELSE node[i - 1]
  <2>1. /\ node' \in Seq(Pair) /\ Len(node') = Len(node) + 1
        /\ \A i \in 1 .. Len(node) + 1 :
             node'[i] = IF i < at THEN node[i] ELSE IF i = at THEN p ELSE node[i - 1]
    <3> HIDE DEF n
    <3>1. node \in Seq(Pair) /\ p \in Pair
      BY <1>1
    <3>2. /\ InsertAt(node, at, p) \in Seq(Pair)
          /\ Len(InsertAt(node, at, p)) = Len(node) + 1
          /\ \A i \in 1 .. Len(node) + 1 :
               InsertAt(node, at, p)[i] = IF i < at THEN node[i]
                                          ELSE IF i = at THEN p ELSE node[i - 1]
      BY ONLY <1>12, <3>1, InsertAtSeq
    <3> QED
      BY ONLY <1>12, <3>2
  <2> QED
    BY <2>1
<1>14. DOMAIN node' = 1 .. n + 1 /\ node' # <<>>
  BY <1>1, <1>13, LenProperties, EmptySeq
<1>15. ASSUME NEW i \in 1 .. n + 1, NEW j \in 1 .. n + 1, i < j
       PROVE  Before(node'[i], node'[j]) /\ ~Same(node'[i], node'[j])
  <2>1. CASE j < at
    <3>1. node'[i] = node[i] /\ node'[j] = node[j] /\ i \in 1 .. n /\ j \in 1 .. n
      BY <1>1, <1>9, <1>13, <1>15, <2>1
    <3> QED
      BY <1>4, <1>15, <3>1
  <2>2. CASE j = at
    <3>1. node'[i] = node[i] /\ node'[j] = p /\ i \in 1 .. n /\ i < at
      BY <1>1, <1>9, <1>13, <1>15, <2>2
    <3> QED
      BY <1>10, <3>1
  <2>3. CASE j > at /\ i = at
    <3>1. node'[i] = p /\ node'[j] = node[j - 1] /\ j - 1 \in 1 .. n /\ j - 1 >= at
      BY <1>1, <1>9, <1>13, <1>15, <2>3
    <3> QED
      BY <1>11, <3>1 DEF Same
  <2>4. CASE j > at /\ i < at
    <3>1. /\ node'[i] = node[i] /\ node'[j] = node[j - 1]
          /\ i \in 1 .. n /\ j - 1 \in 1 .. n /\ j - 1 >= at /\ i < j - 1
      BY <1>1, <1>9, <1>13, <1>15, <2>4
    <3> QED
      BY <1>4, <3>1
  <2>5. CASE i > at
    <3>1. /\ node'[i] = node[i - 1] /\ node'[j] = node[j - 1]
          /\ i - 1 \in 1 .. n /\ j - 1 \in 1 .. n /\ i - 1 < j - 1
      BY <1>1, <1>9, <1>13, <1>15, <2>5
    <3> QED
      BY <1>4, <3>1
  <2> QED
    BY <1>1, <1>9, <1>15, <2>1, <2>2, <2>3, <2>4, <2>5
<1>16. PairsInOrder'
  BY <1>14, <1>15 DEF PairsInOrder, Before, Second
<1>17. OrdPairsPlain'
  <2>1. ASSUME NEW i \in 1 .. n + 1
        PROVE  node'[i] = p \/ \E a \in 1 .. n : node'[i] = node[a]
    BY <1>1, <1>9, <1>13
  <2> QED
    BY <1>6, <1>14, <2>1 DEF OrdPairsPlain
<1>18. EntryIsLast'
  <2>1. Last(node') = node'[n + 1] /\ n + 1 \in 1 .. n + 1 /\ entry' = NewEntry(node, node')
    BY <1>1, <1>3, <1>8, <1>13 DEF Last
  <2>2. CASE n = 0
    <3>1. node = Nothing /\ Last(node') = node'[1]
      BY <1>1, <2>1, <2>2 DEF Nothing
    <3>2. entry' = Some(node'[1])
      BY <1>1, <1>5, <2>1, <2>2, <3>1 DEF NewEntry, Nothing
    <3> QED
      BY <1>14, <3>1, <3>2 DEF EntryIsLast
  <2>3. CASE n # 0
    <3>1. n \in 1 .. n /\ node # <<>> /\ entry = Some(node[n]) /\ Last(node) = node[n]
      BY <1>1, <1>5, <2>3 DEF Last
    <3>2. entry' = IF Same(Last(node), Last(node')) THEN entry ELSE Some(Last(node'))
      <4>1. node' # <<>>
        BY <1>1, <1>14, EmptySeq
      <4> QED
        BY <2>1, <3>1, <4>1, EntryFollows DEF Nothing
    <3>3. CASE at < n + 1
      <4>1. Last(node') = node[n]
        BY <1>1, <1>9, <1>13, <2>1, <3>3
      <4>2. entry' = entry
        BY <3>1, <3>2, <4>1 DEF Same
      <4> QED
        BY <1>14, <3>1, <4>1, <4>2 DEF EntryIsLast
    <3>4. CASE at = n + 1
      <4>1. Last(node') = p
        BY <1>1, <1>9, <1>13, <2>1, <3>4
      <4>2. ~Same(Last(node), Last(node'))
        BY <3>1, <4>1
      <4>3. Compare(entry[1], Last(node)) = 0
        <5>1. entry[1] = node[n] /\ Last(node) = node[n]
          BY <3>1 DEF Some
        <5> QED
          BY <3>1, <5>1, ComparesPositions
      <4> QED
        BY <1>14, <3>2, <4>2, <4>3 DEF EntryIsLast
    <3> QED
      BY <1>1, <1>9, <3>3, <3>4
  <2> QED
    BY <2>2, <2>3
<1>19. ToSet(node') = ToSet(node) \cup {p}
  BY <1>1, <1>12, InsertAtSet
<1> QED
  BY <1>8, <1>16, <1>17, <1>18, <1>19 DEF s

-----------------------------------------------------------------------------
(* get *)

\* The ends of the range of a key: `a` pairs have a smaller key, `b` have no
\* greater one, and get yields those between.
LEMMA GetIsBetween ==
    ASSUME MapInv, Ordered, NEW k \in Keys
    PROVE  \E a \in 0 .. Len(node) : \E b \in a .. Len(node) :
             /\ Get(k) = SubSeq(node, a + 1, b)
             /\ \A i \in 1 .. Len(node) : node[i].key = k <=> a < i /\ i <= b
<1> DEFINE n == Len(node)
           cmps == ToKey(k)
<1>1. /\ node \in Seq(Pair) /\ n \in Nat /\ DOMAIN node = 1 .. n
      /\ \A i \in 1 .. n : node[i] \in Pair /\ node[i].key \in Nat
      /\ node = <<>> <=> n = 0
      /\ TypeOK /\ k \in Nat
  BY NodeIsSeq, NumbersAssumption DEF MapInv, KeysInv
<1>2. \A i, j \in 1 .. n : i < j => node[i].key <= node[j].key
  BY <1>1 DEF MapInv, KeysInv, KeysTogether
<1>3. cmps \in Seq(Int) /\ Len(cmps) = n /\ \A i \in 1 .. n : cmps[i] = node[i].key - k
  BY <1>1, ToKeySeq
<1> HIDE DEF cmps
<1>4. NotDecreasing(cmps)
  <2>1. ASSUME NEW i \in 1 .. n, NEW j \in 1 .. n, i < j PROVE cmps[i] <= cmps[j]
    <3>1. node[i].key \in Nat /\ node[j].key \in Nat /\ node[i].key <= node[j].key
      BY <1>1, <1>2, <2>1
    <3>2. cmps[i] = node[i].key - k /\ cmps[j] = node[j].key - k
      BY <1>3
    <3>3. k \in Nat
      BY <1>1
    <3> QED
      BY <3>1, <3>2, <3>3
  <2> QED
    BY <1>3, <2>1 DEF NotDecreasing
<1>5. PICK f \in 0 .. n :
        /\ PositionsToSkip(cmps, "included", TRUE) = f - 1
        /\ \A i \in 1 .. n : node[i].key < k <=> i <= f
  <2>1. PICK f \in 0 .. n :
          /\ PositionsToSkip(cmps, "included", TRUE) = f - 1
          /\ \A i \in 1 .. n : Passes(cmps[i], "included", TRUE) <=> i <= f
    BY <1>3, <1>4, SkipsFromFront
  <2>2. \A i \in 1 .. n : Passes(cmps[i], "included", TRUE) <=> node[i].key < k
    BY <1>1, <1>3 DEF Passes
  <2> QED
    BY <2>1, <2>2
<1>6. PICK g \in 0 .. n :
        /\ PositionsToSkip(cmps, "included", FALSE) = g - 1
        /\ \A i \in 1 .. n : node[i].key > k <=> n - g < i
  <2>1. PICK g \in 0 .. n :
          /\ PositionsToSkip(cmps, "included", FALSE) = g - 1
          /\ \A i \in 1 .. n : Passes(cmps[i], "included", FALSE) <=> n - g < i
    BY <1>3, <1>4, SkipsFromBack
  <2>2. \A i \in 1 .. n : Passes(cmps[i], "included", FALSE) <=> node[i].key > k
    BY <1>1, <1>3 DEF Passes
  <2> QED
    BY <2>1, <2>2
<1> DEFINE b == n - g
<1>7. b \in 0 .. n /\ f \in Nat /\ g \in Nat /\ n \in Nat /\ f <= n
  BY <1>1
<1> HIDE DEF b
<1>8. \A i \in 1 .. n : node[i].key > k <=> b < i
  BY <1>6 DEF b
<1>9. b \in f .. n
  <2>1. SUFFICES ASSUME b < f PROVE FALSE
    BY <1>1, <1>7
  <2>2. f \in 1 .. n /\ f <= f
    BY <1>1, <1>7, <2>1
  <2> QED
    BY <1>1, <1>5, <1>8, <2>1, <2>2
<1>10. \A i \in 1 .. n : node[i].key = k <=> f < i /\ i <= b
  BY <1>1, <1>5, <1>7, <1>8
<1>11. KeyLocated(k) <=> f < n
  <2>1. CASE n = 0
    BY <1>1, <1>7, <2>1 DEF MapInv, EntryIsLast, KeyLocated
  <2>2. CASE n # 0
    <3>1. n \in 1 .. n /\ entry = Some(node[n])
      BY <1>1, <2>2 DEF MapInv, EntryIsLast, Last
    <3>2. KeyLocated(k) <=> ~(node[n].key < k)
      BY <1>1, <3>1 DEF KeyLocated, Some, Nothing
    <3> QED
      BY <1>1, <1>5, <1>7, <3>1, <3>2
  <2> QED
    BY <2>1, <2>2
<1>12. FrontValue(k) = IF f = 0 \/ ~(f < n) THEN Nothing ELSE Some(node[f])
  <2>1. f - 1 = NoPosition <=> f = 0
    BY <1>7 DEF NoPosition
  <2>2. f - 1 + 1 = f
    BY <1>7
  <2> QED
    BY <1>5, <1>11, <2>1, <2>2 DEF FrontValue, cmps
<1>13. BackValue(k) = IF g = 0 THEN Nothing ELSE Some(node[b + 1])
  <2>1. g - 1 = NoPosition <=> g = 0
    BY <1>7 DEF NoPosition
  <2>2. g - 1 + 1 = g
    BY <1>7
  <2>3. g # 0 => g \in 1 .. n /\ n - g + 1 = b + 1
    BY <1>1, <1>7 DEF b
  <2>4. g # 0 => Reverse(node)[g] = node[b + 1]
    BY <1>1, <2>3, ReverseSeq
  <2> QED
    BY <1>6, <2>1, <2>2, <2>4 DEF BackValue, cmps
<1> DEFINE from == IF FrontValue(k) = Nothing THEN 0
                   ELSE PositionsToSkip(ToPair(FrontValue(k)[1]), "excluded", TRUE) + 1
           upto == {m \in from .. n : \A i \in from + 1 .. m :
                      \A back \in ToSet(BackValue(k)) : Compare(node[i], back) < 0}
           leftOut == /\ FrontValue(k) = Nothing /\ BackValue(k) = Nothing
                      /\ node # <<>> /\ (k > Last(node).key \/ k < node[1].key)
<1>14. Get(k) = IF node = <<>> \/ leftOut THEN <<>> ELSE SubSeq(node, from + 1, Max(upto))
  BY DEF Get
<1> HIDE DEF from, leftOut
<1>15. CASE n = 0
  <2>1. Get(k) = <<>> /\ f = 0 /\ b = 0 /\ 0 < 0 + 1
    BY <1>1, <1>7, <1>14, <1>15
  <2>2. SubSeq(node, 0 + 1, 0) = <<>>
    BY <2>1, SubSeqEmpty
  <2> QED
    BY <1>9, <1>10, <2>1, <2>2
<1>16. CASE n # 0 /\ f = n
  <2>1. n \in 1 .. n /\ node[n].key < k /\ Last(node) = node[n] /\ ~(f < n)
    BY <1>1, <1>5, <1>16 DEF Last
  <2>2. b = n /\ g = 0
    <3>1. b = n
      BY <1>7, <1>9, <1>16
    <3>2. n - g = n
      BY <3>1 DEF b
    <3> QED
      BY <1>1, <1>7, <3>1, <3>2
  <2>3. leftOut
    BY <1>1, <1>12, <1>13, <1>16, <2>1, <2>2 DEF leftOut
  <2>4. Get(k) = <<>>
    BY <1>14, <2>3
  <2>5. SubSeq(node, f + 1, b) = <<>>
    <3>1. f + 1 \in Int /\ b \in Int /\ b < f + 1
      BY <1>1, <1>7, <1>16, <2>2
    <3> QED
      BY <3>1, SubSeqEmpty
  <2> QED
    BY <1>9, <1>10, <2>4, <2>5
<1>17. CASE n # 0 /\ f < n
  <2>1. n \in 1 .. n /\ 1 \in 1 .. n /\ Last(node) = node[n] /\ ~(node[n].key < k)
    BY <1>1, <1>5, <1>17 DEF Last
  <2>2. ~leftOut
    <3>1. SUFFICES ASSUME leftOut PROVE FALSE
      OBVIOUS
    <3>2. BackValue(k) = Nothing /\ (k > node[n].key \/ k < node[1].key)
      BY <2>1, <3>1 DEF leftOut
    <3>3. g = 0
      BY <1>13, <3>2 DEF Some, Nothing
    <3>4. b = n
      BY <1>1, <3>3 DEF b
    <3> QED
      BY <1>1, <1>8, <1>17, <2>1, <3>2, <3>4
  <2>3. from = f
    <3>1. CASE f = 0
      BY <1>12, <3>1 DEF from
    <3>2. CASE f # 0
      <4>1. FrontValue(k) # Nothing /\ FrontValue(k)[1] = node[f]
        BY <1>12, <1>17, <3>2 DEF Some, Nothing
      <4>2. f \in 1 .. n /\ node[f] \in Pair
        BY <1>1, <1>7, <3>2
      <4>3. /\ ToPair(node[f]) \in Seq(Int) /\ Len(ToPair(node[f])) = n
            /\ \A i \in 1 .. n : ToPair(node[f])[i] = Compare(node[i], node[f])
        BY <1>1, <4>2, ToPairSeq
      <4>4. ASSUME NEW i \in 1 .. n
            PROVE  Passes(ToPair(node[f])[i], "excluded", TRUE) <=> i <= f
        <5>1. /\ Compare(node[i], node[f]) < 0 <=> i < f
              /\ Compare(node[i], node[f]) = 0 <=> i = f
          BY <4>2, ComparesPositions
        <5>2. i <= f <=> i < f \/ i = f
          BY <1>1, <1>7
        <5> QED
          BY <4>3, <5>1, <5>2 DEF Passes
      <4>5. PositionsToSkip(ToPair(node[f]), "excluded", TRUE) = f - 1
        BY <4>3, <4>4, SkipsThosePassed
      <4>6. from = PositionsToSkip(ToPair(node[f]), "excluded", TRUE) + 1
        BY <4>1 DEF from
      <4>7. f - 1 + 1 = f
        BY <1>7
      <4> QED
        BY <4>5, <4>6, <4>7
    <3> QED
      BY <3>1, <3>2
  <2>4. \A i \in f + 1 .. n :
          (\A back \in ToSet(BackValue(k)) : Compare(node[i], back) < 0) <=> i <= b
    <3> SUFFICES ASSUME NEW i \in f + 1 .. n
                 PROVE  (\A back \in ToSet(BackValue(k)) : Compare(node[i], back) < 0) <=> i <= b
      OBVIOUS
    <3>1. i \in 1 .. n
      BY <1>1, <1>7
    <3>2. CASE g = 0
      <4>1. ToSet(BackValue(k)) = {} /\ b = n
        BY <1>1, <1>13, <3>2 DEF ToSet, Nothing, b
      <4> QED
        BY <1>1, <3>1, <4>1
    <3>3. CASE g # 0
      <4>1. ToSet(BackValue(k)) = {node[b + 1]} /\ b + 1 \in 1 .. n
        BY <1>1, <1>7, <1>13, <3>3 DEF ToSet, Some, b
      <4>2. Compare(node[i], node[b + 1]) < 0 <=> i < b + 1
        BY <3>1, <4>1, ComparesPositions
      <4>3. i < b + 1 <=> i <= b
        BY <1>1, <1>7, <3>1
      <4> QED
        BY <4>1, <4>2, <4>3
    <3> QED
      BY <3>2, <3>3
  <2>5. Max(upto) = b
    <3>1. b \in upto
      <4>1. \A i \in f + 1 .. b : i \in f + 1 .. n /\ i <= b
        BY <1>1, <1>7
      <4> QED
        BY <1>9, <2>3, <2>4, <4>1
    <3>2. ASSUME NEW m \in upto PROVE m \in Int /\ b >= m
      <4>1. m \in f .. n /\ \A i \in f + 1 .. m :
              \A back \in ToSet(BackValue(k)) : Compare(node[i], back) < 0
        BY <2>3
      <4>2. m \in Int /\ (m = f \/ (m \in f + 1 .. m /\ m \in f + 1 .. n))
        BY <1>1, <1>7, <4>1
      <4> QED
        BY <1>1, <1>7, <1>9, <2>4, <4>1, <4>2
    <3> HIDE DEF upto
    <3> QED
      BY <3>1, <3>2, MaxIsUnique
  <2>6. Get(k) = SubSeq(node, f + 1, b)
    BY <1>1, <1>14, <1>17, <2>2, <2>3, <2>5
  <2> QED
    BY <1>9, <1>10, <2>6
<1>18. f = n \/ f < n
  BY <1>7
<1> QED
  BY <1>15, <1>16, <1>17, <1>18

\* What is in the part of the node that get yields.
LEMMA GetHas ==
    ASSUME MapInv, Ordered, NEW k \in Keys
    PROVE  /\ \A p : p \in ToSet(Get(k)) <=> p \in ToSet(node) /\ p.key = k
           /\ \A i, j \in 1 .. Len(Get(k)) : Get(k)[i] = Get(k)[j] => i = j
<1> DEFINE n == Len(node)
<1>1. /\ node \in Seq(Pair) /\ n \in Nat /\ TypeOK
      /\ \A p : p \in ToSet(node) <=> \E i \in 1 .. n : p = node[i]
  <2>1. node \in Seq(Pair) /\ n \in Nat /\ TypeOK
    BY NodeIsSeq DEF MapInv, KeysInv
  <2> QED
    BY <2>1, ToSetSeq
<1>2. PICK a \in 0 .. n : \E b \in a .. n :
        /\ Get(k) = SubSeq(node, a + 1, b)
        /\ \A i \in 1 .. n : node[i].key = k <=> a < i /\ i <= b
  BY GetIsBetween
<1>3. PICK b \in a .. n :
        /\ Get(k) = SubSeq(node, a + 1, b)
        /\ \A i \in 1 .. n : node[i].key = k <=> a < i /\ i <= b
  BY <1>2
<1> HIDE DEF n
<1>4. a \in Int /\ b \in Int /\ 0 <= a /\ a <= b /\ b <= n
  BY <1>1
<1>5. /\ Get(k) \in Seq(Pair) /\ Len(Get(k)) = b - a
      /\ \A i \in 1 .. b - a : Get(k)[i] = node[a + i]
  <2>1. a + 1 \in 1 .. Len(node) + 1 /\ b \in 0 .. Len(node) /\ a + 1 <= b + 1
    BY <1>1, <1>4 DEF n
  <2>2. /\ Get(k) \in Seq(Pair) /\ Len(Get(k)) = b - (a + 1) + 1
        /\ \A i \in 1 .. b - (a + 1) + 1 : Get(k)[i] = node[a + 1 + i - 1]
    BY <1>1, <1>3, <2>1, SubSeqSeq
  <2>3. b - (a + 1) + 1 = b - a /\ \A i \in 1 .. b - a : a + 1 + i - 1 = a + i
    BY <1>4
  <2> QED
    BY <2>2, <2>3
<1>6. \A p : p \in ToSet(Get(k)) <=> \E i \in 1 .. b - a : p = node[a + i]
  <2>1. \A p : p \in ToSet(Get(k)) <=> \E i \in 1 .. Len(Get(k)) : p = Get(k)[i]
    BY <1>5, ToSetSeq
  <2>2. \A p : p \in ToSet(Get(k)) <=> \E i \in 1 .. b - a : p = Get(k)[i]
    BY <1>5, <2>1
  <2> QED
    BY <1>5, <2>2, ZenonT(60)
<1>7. ASSUME NEW i \in 1 .. b - a PROVE node[a + i] \in ToSet(node) /\ node[a + i].key = k
  <2>1. a + i \in 1 .. n /\ a < a + i /\ a + i <= b
    BY <1>1, <1>4
  <2> QED
    BY <1>1, <1>3, <2>1
<1>8. ASSUME NEW p \in ToSet(node), p.key = k PROVE \E i \in 1 .. b - a : p = node[a + i]
  <2>1. PICK j \in 1 .. n : p = node[j]
    BY <1>1
  <2>2. a < j /\ j <= b
    BY <1>3, <1>8, <2>1
  <2>3. j - a \in 1 .. b - a /\ a + (j - a) = j
    BY <1>4, <2>2
  <2> QED
    BY <2>1, <2>3
<1>9. ASSUME NEW i \in 1 .. b - a, NEW j \in 1 .. b - a, Get(k)[i] = Get(k)[j] PROVE i = j
  <2>1. a + i \in 1 .. Len(node) /\ a + j \in 1 .. Len(node) /\ node[a + i] = node[a + j]
    BY <1>1, <1>4, <1>5, <1>9 DEF n
  <2>2. a + i = a + j
    BY <2>1, InOrder DEF Same
  <2> QED
    BY <1>4, <2>2
<1>10. \A p : p \in ToSet(Get(k)) <=> p \in ToSet(node) /\ p.key = k
  BY <1>6, <1>7, <1>8
<1>11. \A i, j \in 1 .. Len(Get(k)) : Get(k)[i] = Get(k)[j] => i = j
  BY <1>5, <1>9
<1> QED
  BY <1>10, <1>11

LEMMA YieldsKey ==
    ASSUME MapInv
    PROVE  GetYieldsKey
<1> SUFFICES ASSUME Ordered, NEW k \in Keys
             PROVE  /\ {<<p.key, p.value>> : p \in ToSet(Get(k))} = {c \in Content : c[1] = k}
                    /\ Len(Get(k)) = Cardinality(ToSet(Get(k)))
                    /\ Len(node) = Cardinality(Content)
  BY DEF GetYieldsKey
<1>1. /\ TypeOK /\ Len(node) \in Nat /\ DOMAIN node = 1 .. Len(node)
      /\ Get(k) \in Seq(Pair) /\ Len(Get(k)) \in Nat /\ DOMAIN Get(k) = 1 .. Len(Get(k))
  BY NodeIsSeq, GetIsPart, LenProperties DEF MapInv, KeysInv
<1>2. {<<p.key, p.value>> : p \in ToSet(Get(k))} = {c \in Content : c[1] = k}
  BY GetHas DEF Content
<1>3. Len(Get(k)) = Cardinality(ToSet(Get(k)))
  <2>1. Cardinality({Get(k)[i] : i \in 1 .. Len(Get(k))}) = Len(Get(k))
    BY <1>1, GetHas, DifferentCount
  <2> QED
    BY <1>1, <2>1 DEF ToSet
<1>4. Len(node) = Cardinality(Content)
  <2> DEFINE f == [i \in 1 .. Len(node) |-> <<node[i].key, node[i].value>>]
  <2>1. ASSUME NEW i \in 1 .. Len(node), NEW j \in 1 .. Len(node), f[i] = f[j] PROVE i = j
    BY <2>1, InOrder DEF Same
  <2>2. Content = {f[i] : i \in 1 .. Len(node)}
    BY <1>1, ContentIs
  <2>3. DOMAIN f = 1 .. Len(node)
    OBVIOUS
  <2> HIDE DEF f
  <2> QED
    BY <1>1, <2>1, <2>2, <2>3, DifferentCount
<1> QED
  BY <1>2, <1>3, <1>4

-----------------------------------------------------------------------------
(* The map's calls keep the order *)

\* A pair that is inserted, when no order is lost.
LEMMA NewIsDifferent ==
    ASSUME MapInv, Ordered, NEW k \in Keys, NEW v \in Values, NEW p \in New(k, v), ~Has(k, v)
    PROVE  /\ \A i \in 1 .. Len(node) :
                /\ ~Same(node[i], p)
                /\ node[i].key = p.key => Second(node[i]) # Second(p)
           /\ kind = "ord" => p.disc = 0
           /\ kind = "random" => \A t \in Thread : ~Idle(t) => target[t][1].disc # p.disc
<1>1. TypeOK /\ p.key = k /\ p.value = v /\ p \in Pair
  BY NewIsPair DEF MapInv, KeysInv
<1>2. \A q : q \in ToSet(node) <=> \E i \in 1 .. Len(node) : q = node[i]
  BY <1>1, NodeIsSeq, ToSetSeq
<1>3. \A i \in 1 .. Len(node) : ~Same(node[i], p)
  BY <1>1, <1>2 DEF Has, Same
<1>4. CASE kind = "ord"
  <2>1. p.disc = 0
    BY <1>4 DEF New
  <2> QED
    BY <1>3, <1>4, <2>1 DEF Second, Same
<1>5. CASE kind = "random"
  <2>1. /\ \A q \in ToSet(node) : q.disc # p.disc
        /\ \A t \in Thread : \A q \in ToSet(target[t]) : q.disc # p.disc
    BY <1>5 DEF New
  <2>2. ASSUME NEW t \in Thread, ~Idle(t) PROVE target[t][1] \in ToSet(target[t])
    <3>1. target[t] = Some(target[t][1])
      BY <1>1, <2>2, TargetIsPair
    <3>2. DOMAIN target[t] = {1}
      BY <3>1 DEF Some
    <3> QED
      BY <3>2 DEF ToSet
  <2> QED
    BY <1>2, <1>3, <1>5, <2>1, <2>2 DEF Second
<1> QED
  BY <1>1, <1>4, <1>5 DEF TypeOK

\* An insertion that keeps the order puts a pair that no other is the same as,
\* or finds the pair, which compares by its value.
LEMMA InsertKeepsOrder ==
    ASSUME MapInv, NEW t \in Thread, NEW k \in Keys, NEW v \in Values,
           Insert(t, k, v), Ordered'
    PROVE  \/ /\ \E p \in Pair : /\ p.key = k /\ p.value = v
                                 /\ ToSet(node') = ToSet(node) \cup {p}
                                 /\ kind = "random" => \A u \in Thread :
                                      ~Idle(u) => target[u][1].disc # p.disc
              /\ ~Has(k, v) /\ last'.answer = Nothing
              /\ PairsInOrder' /\ OrdPairsPlain' /\ EntryIsLast'
           \/ /\ kind = "ord" /\ Has(k, v)
              /\ node' = node /\ entry' = entry /\ last'.answer # Nothing
<1>1. PICK p \in New(k, v) : Put(p)
  BY DEF Insert
<1>2. /\ TypeOK /\ kind' = kind /\ repeated' = (repeated \/ Has(k, v))
      /\ p.key = k /\ p.value = v /\ p \in Pair
  BY NewIsPair DEF Insert, MapInv, KeysInv
<1>3. Ordered /\ (kind = "random" => ~Has(k, v))
  BY <1>2 DEF Ordered, TypeOK
<1>4. last'.answer = IF Search(ToPair(p)).found THEN Some(node[Search(ToPair(p)).at + 1]) ELSE Nothing
  BY <1>1 DEF Put
<1>5. CASE ~Has(k, v)
  <2>1. /\ \A i \in 1 .. Len(node) :
             /\ ~Same(node[i], p)
             /\ node[i].key = p.key => Second(node[i]) # Second(p)
        /\ kind = "ord" => p.disc = 0
        /\ kind = "random" => \A u \in Thread : ~Idle(u) => target[u][1].disc # p.disc
    BY <1>3, <1>5, NewIsDifferent
  <2>2. /\ PairsInOrder' /\ OrdPairsPlain' /\ EntryIsLast'
        /\ ToSet(node') = ToSet(node) \cup {p}
        /\ ~Search(ToPair(p)).found
    BY <1>1, <1>2, <1>3, <2>1, PutKeepsOrder
  <2> QED
    BY <1>2, <1>4, <1>5, <2>1, <2>2
<1>6. CASE Has(k, v)
  <2>1. kind = "ord" /\ p.disc = 0
    BY <1>2, <1>3, <1>6 DEF TypeOK, New
  <2>2. PICK m \in 1 .. Len(node) : node[m].key = k /\ node[m].value = v
    BY <1>2, <1>6, NodeIsSeq DEF Has, ToSet
  <2>3. node[m].disc = 0 /\ node[m] \in Pair
    BY <1>2, <2>1, NodeIsSeq DEF MapInv, OrdPairsPlain
  <2>4. node[m] = p
    BY <1>2, <2>1, <2>2, <2>3 DEF Pair
  <2>5. Search(ToPair(p)).found /\ Search(ToPair(p)).at + 1 = m
    BY <1>3, <2>4, SearchFindsPair
  <2>6. node' = [node EXCEPT ![m] = p] /\ entry' = entry
    BY <1>1, <2>5 DEF Put
  <2>7. node' = node
    BY <1>2, <2>4, <2>6, NodeIsSeq
  <2> QED
    BY <1>4, <1>6, <2>1, <2>5, <2>6, <2>7 DEF Some, Nothing
<1> QED
  BY <1>5, <1>6

\* A call that takes a pair out, or none, leaves the others' targets known.
LEMMA TargetsStayKnown ==
    ASSUME MapInv, Ordered, kind' = kind, ToSet(node') \subseteq ToSet(node), PairGone,
           \A u \in Thread : target'[u] # Nothing => target'[u] = target[u]
    PROVE  TargetsKnown'
<1> SUFFICES ASSUME NEW u \in Thread, ~Idle(u)'
             PROVE  /\ kind' = "random"
                    /\ stayed'[u] => target'[u][1] \in ToSet(node')
                    /\ \A q \in ToSet(node') :
                         q.key = target'[u][1].key /\ q.disc = target'[u][1].disc
                           => q = target'[u][1]
  BY DEF TargetsKnown
<1>1. target'[u] = target[u] /\ ~Idle(u)
  BY DEF Idle
<1>2. /\ kind = "random"
      /\ stayed[u] => target[u][1] \in ToSet(node)
      /\ \A q \in ToSet(node) :
           q.key = target[u][1].key /\ q.disc = target[u][1].disc => q = target[u][1]
  BY <1>1 DEF MapInv, TargetsKnown
<1>3. ASSUME stayed'[u] PROVE target[u][1] \in ToSet(node')
  <2>1. stayed[u] /\ \E q \in ToSet(node') : Same(q, target[u][1])
    BY <1>1, <1>3 DEF PairGone, Has, Same
  <2>2. PICK q \in ToSet(node') : Same(q, target[u][1])
    BY <2>1
  <2>3. q = target[u][1]
    BY <1>2, <2>1, <2>2, NoOtherSame
  <2> QED
    BY <2>3
<1> QED
  BY <1>1, <1>2, <1>3

LEMMA OrderedBefore ==
    ASSUME MapInv, [Next]_vars, Ordered'
    PROVE  Ordered /\ kind' = kind
<1>1. kind' = kind /\ (repeated => repeated')
  BY DEF Next, Insert, RemoveOrd, FindRandom, RemoveRandom, RemoveSome, vars, MapInv, KeysInv, TypeOK
<1> QED
  BY <1>1 DEF Ordered, MapInv, KeysInv, TypeOK

LEMMA MapStep ==
    ASSUME MapInv, [Next]_vars
    PROVE  MapInv'
<1>1. KeysInv'
  BY KeysStep DEF MapInv
<1>2. CASE ~Ordered'
  <2>1. kind' = "random"
    BY <1>1, <1>2 DEF Ordered, KeysInv, TypeOK
  <2> QED
    BY <1>1, <1>2, <2>1 DEF MapInv, PairsInOrder, OrdPairsPlain, EntryIsLast, TargetsKnown
<1>3. CASE Ordered'
  <2>1. Ordered /\ kind' = kind /\ TypeOK
    BY <1>3, OrderedBefore DEF MapInv, KeysInv
  <2>2. ASSUME NEW t \in Thread, NEW k \in Keys, NEW v \in Values, Insert(t, k, v)
        PROVE  MapInv'
    <3>1. UNCHANGED <<kind, target, stayed>>
      BY <2>2 DEF Insert
    <3>2. ASSUME NEW p \in Pair,
                 ToSet(node') = ToSet(node) \cup {p},
                 kind = "random" => \A u \in Thread : ~Idle(u) => target[u][1].disc # p.disc,
                 PairsInOrder' /\ OrdPairsPlain' /\ EntryIsLast'
          PROVE  MapInv'
      <4>1. TargetsKnown'
        BY <2>1, <3>1, <3>2 DEF TargetsKnown, MapInv, Idle
      <4> QED
        BY <1>1, <3>2, <4>1 DEF MapInv
    <3>3. CASE node' = node /\ entry' = entry
      BY <1>1, <2>1, <3>1, <3>3 DEF MapInv, PairsInOrder, OrdPairsPlain, EntryIsLast,
           TargetsKnown, Idle, Before, Second
    <3> QED
      BY <1>3, <2>2, <3>2, <3>3, InsertKeepsOrder
  <2>3. ASSUME NEW call, NEW k, NEW v, NEW located \in BOOLEAN,
               NEW cmps \in Seq(Int), Len(cmps) = Len(node),
               RemoveOne(call, k, v, located, cmps), PairGone,
               \A u \in Thread : target'[u] # Nothing => target'[u] = target[u]
        PROVE  MapInv'
    <3>1. /\ PairsInOrder' /\ OrdPairsPlain' /\ EntryIsLast'
          /\ ToSet(node') \subseteq ToSet(node)
      BY <2>1, <2>3, RemoveKeepsOrder
    <3>2. TargetsKnown'
      BY <2>1, <2>3, <3>1, TargetsStayKnown
    <3> QED
      BY <1>1, <3>1, <3>2 DEF MapInv
  <2>4. ASSUME NEW t \in Thread, NEW k \in Keys, NEW v \in Values, RemoveOrd(t, k, v)
        PROVE  MapInv'
    <3>1. PICK p \in New(k, v) : RemoveOne("remove", k, v, PairLocated(p), ToPair(p))
      BY <2>4 DEF RemoveOrd
    <3>2. /\ ToPair(p) \in Seq(Int) /\ Len(ToPair(p)) = Len(node) /\ PairLocated(p) \in BOOLEAN
          /\ UNCHANGED <<kind, target, stayed>> /\ kind = "ord"
      BY <2>1, <2>4, NewIsPair, ToPairSeq DEF PairLocated, RemoveOrd
    <3>3. PairsInOrder' /\ OrdPairsPlain' /\ EntryIsLast'
      BY <2>1, <3>1, <3>2, RemoveKeepsOrder
    <3>4. TargetsKnown'
      BY <3>2 DEF MapInv, TargetsKnown, Idle
    <3> QED
      BY <1>1, <3>3, <3>4 DEF MapInv
  <2>5. ASSUME NEW t \in Thread, NEW k \in Keys, NEW v \in Values, FindRandom(t, k, v)
        PROVE  MapInv'
    <3>1. UNCHANGED <<kind, node, entry, repeated>> /\ kind = "random"
      BY <2>5 DEF FindRandom
    <3>2. PairsInOrder' /\ OrdPairsPlain' /\ EntryIsLast'
      BY <2>1, <3>1 DEF MapInv, PairsInOrder, OrdPairsPlain, EntryIsLast, Before, Second
    <3>3. CASE UNCHANGED <<target, stayed>>
      <4>1. TargetsKnown'
        BY <2>1, <3>1, <3>3 DEF MapInv, TargetsKnown, Idle
      <4> QED
        BY <1>1, <3>2, <4>1 DEF MapInv
    <3>4. ASSUME NEW p \in ToSet(node), target' = [target EXCEPT ![t] = Some(p)],
                 stayed' = [stayed EXCEPT ![t] = TRUE]
          PROVE  MapInv'
      <4>1. ASSUME NEW q \in ToSet(node), q.key = p.key, q.disc = p.disc PROVE q = p
        <5>1. PICK i \in 1 .. Len(node) : p = node[i]
          BY <2>1, NodeIsSeq, ToSetSeq
        <5>2. PICK j \in 1 .. Len(node) : q = node[j]
          BY <2>1, NodeIsSeq, ToSetSeq
        <5>3. Second(p) = Second(q) /\ p.key \in Int /\ q.key \in Int /\ Second(p) \in Int
          BY <2>1, <3>1, <4>1, <5>1, <5>2, NodeIsSeq, PairFields DEF Second
        <5>4. ~Before(p, q) /\ ~Before(q, p)
          BY <4>1, <5>3 DEF Before
        <5>5. Len(node) \in Nat
          BY <2>1, NodeIsSeq
        <5>6. ~(i < j) /\ ~(j < i)
          BY <2>1, <5>1, <5>2, <5>4, InOrder
        <5> QED
          BY <5>1, <5>2, <5>5, <5>6
      <4>2. TargetsKnown'
        <5> SUFFICES ASSUME NEW u \in Thread, ~Idle(u)'
                     PROVE  /\ stayed'[u] => target'[u][1] \in ToSet(node)
                            /\ \A q \in ToSet(node) :
                                 q.key = target'[u][1].key /\ q.disc = target'[u][1].disc
                                   => q = target'[u][1]
          BY <3>1 DEF TargetsKnown
        <5>1. CASE u = t
          <6>1. target'[u] = Some(p)
            BY <2>1, <3>4, <5>1 DEF TypeOK
          <6> QED
            BY <4>1, <6>1 DEF Some
        <5>2. CASE u # t
          <6>1. target'[u] = target[u] /\ stayed'[u] = stayed[u] /\ ~Idle(u)
            BY <2>1, <3>4, <5>2 DEF TypeOK, Idle
          <6> QED
            BY <2>1, <6>1 DEF MapInv, TargetsKnown
        <5> QED
          BY <5>1, <5>2
      <4> QED
        BY <1>1, <3>2, <4>2 DEF MapInv
    <3>5. \A i \in 1 .. Len(Get(k)) : Get(k)[i] \in ToSet(node)
      <4>1. Get(k) \in Seq(Pair)
        BY <2>1, GetIsPart
      <4>2. \A i \in 1 .. Len(Get(k)) : Get(k)[i] \in ToSet(Get(k))
        BY <4>1, ToSetSeq
      <4> QED
        BY <2>1, <4>2, GetHas
    <3> QED
      BY <2>1, <2>5, <3>3, <3>4, <3>5, FoundIsPair
  <2>6. ASSUME NEW t \in Thread, RemoveRandom(t)
        PROVE  MapInv'
    <3> DEFINE p == target[t][1]
    <3>1. /\ ~Idle(t) /\ RemoveOne("remove", p.key, p.value, PairLocated(p), ToPair(p))
          /\ target' = [target EXCEPT ![t] = Nothing] /\ PairGone
      BY <2>6 DEF RemoveRandom
    <3>2. p \in Pair
      BY <2>1, <3>1, TargetIsPair
    <3>3. \A u \in Thread : target'[u] # Nothing => target'[u] = target[u]
      BY <2>1, <3>1 DEF TypeOK
    <3> HIDE DEF p
    <3>4. ToPair(p) \in Seq(Int) /\ Len(ToPair(p)) = Len(node) /\ PairLocated(p) \in BOOLEAN
      BY <2>1, <3>2, ToPairSeq DEF PairLocated
    <3> QED
      BY <2>3, <3>1, <3>3, <3>4
  <2>7. ASSUME NEW t \in Thread, NEW k \in Keys, RemoveSome(t, k)
        PROVE  MapInv'
    <3>1. /\ RemoveOne("remove_some", k, 0, KeyLocated(k), ToKey(k))
          /\ UNCHANGED target /\ PairGone
      BY <2>7 DEF RemoveSome
    <3>2. ToKey(k) \in Seq(Int) /\ Len(ToKey(k)) = Len(node) /\ KeyLocated(k) \in BOOLEAN
      BY <2>1, ToKeySeq DEF KeyLocated
    <3> QED
      BY <2>3, <3>1, <3>2
  <2>8. CASE UNCHANGED vars
    BY <1>1, <2>1, <2>8 DEF vars, MapInv, PairsInOrder, OrdPairsPlain, EntryIsLast,
         TargetsKnown, Idle, Before, Second, Ordered
  <2> QED
    BY <2>2, <2>4, <2>5, <2>6, <2>7, <2>8 DEF Next
<1> QED
  BY <1>2, <1>3

LEMMA MapAlways == Spec => []MapInv
<1>1. Init => MapInv
  <2> SUFFICES ASSUME Init PROVE MapInv
    OBVIOUS
  <2>1. node \in Seq(Pair) /\ DOMAIN node = {} /\ node = <<>>
    BY EmptySeq, LenProperties DEF Init
  <2>2. target \in [Thread -> Option(Pair)] /\ stayed \in [Thread -> BOOLEAN]
    BY DEF Init, Option
  <2>3. KeysInv
    BY <2>1, <2>2 DEF Init, KeysInv, TypeOK, KeysTogether, Option
  <2> QED
    BY <2>1, <2>3 DEF Init, MapInv, PairsInOrder, OrdPairsPlain, EntryIsLast, TargetsKnown, Idle
<1> QED
  BY <1>1, MapStep, PTL DEF Spec

\* While pairs keep their order, get yields the pairs of its key, each once, and
\* no other, with the set's range seeking the values around them:
\* BTreeMultiMap::get and Range::new.
THEOREM MapGetYieldsKey == Spec => []GetYieldsKey
  BY MapAlways, YieldsKey, PTL

-----------------------------------------------------------------------------
(* ActsAsMultiMap *)

KeyValue(p) == <<p.key, p.value>>

\* What a remove that takes an item, or none, answers, and does to the content.
LEMMA RemoveActs ==
    ASSUME MapInv, Ordered, kind' = kind, NEW call, NEW k, NEW v, NEW located \in BOOLEAN,
           NEW cmps \in Seq(Int), Len(cmps) = Len(node),
           RemoveOne(call, k, v, located, cmps)
    PROVE  LET s == Search(cmps)
               found == located /\ s.found
               removed == {<<p.key, p.value>> : p \in ToSet(last'.answer)}
           IN /\ last'.call = call /\ last'.key = k /\ last'.value = v
              /\ found \in BOOLEAN
              /\ found => /\ s.at + 1 \in 1 .. Len(node)
                          /\ removed = {KeyValue(node[s.at + 1])}
              /\ ~found => removed = {}
              /\ Content' = Content \ removed
<1> DEFINE s == Search(cmps)
           found == located /\ s.found
           at == s.at + 1
           removed == {<<p.key, p.value>> : p \in ToSet(last'.answer)}
<1>1. last' = [call |-> call, key |-> k, value |-> v,
               answer |-> IF found THEN Some(node[at]) ELSE Nothing]
  BY DEF RemoveOne
<1>2. /\ found => at \in 1 .. Len(node) /\ ToSet(node') = ToSet(node) \ {node[at]}
      /\ ~found => node' = node
  <2> HIDE DEF s
  <2> DEFINE less == ToSet(node) \ {node[s.at + 1]}
  <2>1. located /\ s.found => s.at + 1 \in 1 .. Len(node)
    <3> SUFFICES ASSUME located, s.found PROVE s.at + 1 \in 1 .. Len(node)
      OBVIOUS
    <3>1. Search(cmps).at + 1 \in 1 .. Len(node)
      BY RemoveKeepsOrder DEF s
    <3> QED
      BY <3>1 DEF s
  <2>2. located /\ s.found => ToSet(node') = less
    <3> SUFFICES ASSUME located, s.found PROVE ToSet(node') = less
      OBVIOUS
    <3>1. ToSet(node') = ToSet(node) \ {node[Search(cmps).at + 1]}
      BY RemoveKeepsOrder DEF s
    <3> QED
      BY <3>1 DEF s
  <2>3. ~(located /\ s.found) => node' = node
    BY RemoveKeepsOrder DEF s
  <2> QED
    BY <2>1, <2>2, <2>3
<1>3. found \in BOOLEAN
  BY SearchLocates DEF Locates
<1> HIDE DEF found, at
<1>4. CASE found
  <2>1. last'.answer = Some(node[at])
    BY <1>1, <1>4
  <2>2. ToSet(last'.answer) = {node[at]}
    BY <2>1 DEF ToSet, Some
  <2>3. removed = {KeyValue(node[at])}
    BY <2>2 DEF KeyValue
  <2>4. node[at] \in ToSet(node)
    BY <1>2, <1>4, NodeIsSeq, ToSetSeq DEF MapInv, KeysInv
  <2>5. ASSUME NEW q \in ToSet(node), KeyValue(q) = KeyValue(node[at]) PROVE q = node[at]
    BY <2>4, <2>5, NoOtherSame DEF KeyValue, Same
  <2>6. Content' = Content \ {KeyValue(node[at])}
    BY <1>2, <1>4, <2>4, <2>5 DEF Content, KeyValue
  <2> QED
    BY <1>1, <1>2, <1>3, <1>4, <2>3, <2>6 DEF found, at
<1>5. CASE ~found
  <2>1. ToSet(last'.answer) = {}
    BY <1>1, <1>5 DEF ToSet, Nothing
  <2>2. removed = {}
    BY <2>1
  <2>3. Content' = Content
    BY <1>2, <1>5 DEF Content
  <2> QED
    BY <1>1, <1>3, <1>5, <2>2, <2>3 DEF found
<1> QED
  BY <1>3, <1>4, <1>5

\* A search for a pair that is not to be told from others finds no other.
LEMMA SearchFindsNoOther ==
    ASSUME MapInv, Ordered, NEW p \in Pair, Search(ToPair(p)).found,
           \A q \in ToSet(node) : q.key = p.key /\ Second(q) = Second(p) => Same(q, p)
    PROVE  KeyValue(node[Search(ToPair(p)).at + 1]) = KeyValue(p)
<1> DEFINE s == Search(ToPair(p))
           n == Len(node)
<1>1. TypeOK /\ n \in Nat /\ \A i \in 1 .. n : node[i] \in Pair /\ node[i] \in ToSet(node)
  BY NodeIsSeq, ToSetSeq DEF MapInv, KeysInv
<1>2. /\ Len(ToPair(p)) = n
      /\ \A i \in 1 .. n : ToPair(p)[i] = Compare(node[i], p)
      /\ Locates(ToPair(p), s)
  BY <1>1, ToPairSeq, SearchLocates
<1> HIDE DEF s
<1>3. s.at + 1 \in 1 .. n /\ Compare(node[s.at + 1], p) = 0
  BY <1>1, <1>2 DEF Locates, s
<1>4. Same(node[s.at + 1], p)
  BY <1>1, <1>3, ComparesOrder
<1> QED
  BY <1>4 DEF Same, KeyValue, s

LEMMA InContent ==
    ASSUME MapInv, NEW k, NEW v
    PROVE  <<k, v>> \in Content <=>
             \E m \in 1 .. Len(node) : node[m].key = k /\ node[m].value = v
  BY ContentIs DEF MapInv, KeysInv

LEMMA InsertActs ==
    ASSUME MapInv, NEW t \in Thread, NEW k \in Keys, NEW v \in Values, Insert(t, k, v)
    PROVE  MultiMapCall
<1> SUFFICES ASSUME Ordered' PROVE MultiMapCall
  BY DEF MultiMapCall
<1>1. last'.call = "insert" /\ last'.key = k /\ last'.value = v
  <2>1. PICK p \in New(k, v) : Put(p)
    BY DEF Insert
  <2> QED
    BY <2>1, NewIsPair DEF Put
<1>2. Has(k, v) <=> <<k, v>> \in Content
  BY DEF Has, Content
<1>3. Content' = Content \cup {<<k, v>>}
  <2>1. ASSUME NEW p \in Pair, p.key = k, p.value = v, ToSet(node') = ToSet(node) \cup {p}
        PROVE  Content' = Content \cup {<<k, v>>}
    BY <2>1 DEF Content
  <2>2. CASE kind = "ord" /\ Has(k, v) /\ node' = node
    BY <1>2, <2>2 DEF Content
  <2> QED
    BY <2>1, <2>2, InsertKeepsOrder
<1>4. (last'.answer = Nothing) = (<<k, v>> \notin Content)
  <2>1. last'.answer = Nothing <=> ~Has(k, v)
    BY InsertKeepsOrder
  <2>2. last'.answer = Nothing <=> <<k, v>> \notin Content
    BY <1>2, <2>1
  <2> QED
    BY <2>2, Zenon
<1> QED
  BY <1>1, <1>3, <1>4 DEF MultiMapCall

LEMMA RemoveOrdActs ==
    ASSUME MapInv, NEW t \in Thread, NEW k \in Keys, NEW v \in Values, RemoveOrd(t, k, v)
    PROVE  MultiMapCall
<1> SUFFICES ASSUME Ordered' PROVE MultiMapCall
  BY DEF MultiMapCall
<1>1. PICK p \in New(k, v) : RemoveOne("remove", k, v, PairLocated(p), ToPair(p))
  BY DEF RemoveOrd
<1>2. kind = "ord" /\ kind' = kind /\ Ordered /\ TypeOK /\ target' = target
  BY DEF RemoveOrd, Ordered, MapInv, KeysInv
<1>3. p \in Pair /\ p.key = k /\ p.value = v /\ p.disc = 0
  BY <1>2, NewIsPair DEF New
<1>4. ToPair(p) \in Seq(Int) /\ Len(ToPair(p)) = Len(node) /\ PairLocated(p) \in BOOLEAN
  BY <1>2, <1>3, ToPairSeq DEF PairLocated
<1> DEFINE cmps == ToPair(p)
           located == PairLocated(p)
           s == Search(cmps)
           found == located /\ s.found
           removed == {<<q.key, q.value>> : q \in ToSet(last'.answer)}
<1>5. /\ last'.call = "remove" /\ last'.key = k /\ last'.value = v
      /\ found \in BOOLEAN
      /\ found => s.at + 1 \in 1 .. Len(node) /\ removed = {KeyValue(node[s.at + 1])}
      /\ ~found => removed = {}
      /\ Content' = Content \ removed
  <2> HIDE DEF cmps, located
  <2>1. /\ cmps \in Seq(Int) /\ Len(cmps) = Len(node) /\ located \in BOOLEAN
        /\ RemoveOne("remove", k, v, located, cmps)
    BY <1>1, <1>4 DEF cmps, located
  <2> QED
    BY <1>2, <2>1, RemoveActs
<1>6. found => KeyValue(node[s.at + 1]) = <<k, v>>
  <2>1. \A q \in ToSet(node) : q.key = p.key /\ Second(q) = Second(p) => Same(q, p)
    BY <1>2 DEF Second, Same
  <2> QED
    BY <1>2, <1>3, <2>1, SearchFindsNoOther DEF KeyValue
<1>7. <<k, v>> \in Content => found
  <2>1. SUFFICES ASSUME NEW m \in 1 .. Len(node), node[m].key = k, node[m].value = v PROVE found
    BY InContent
  <2>2. node[m] \in Pair /\ node[m].disc = 0
    BY <1>2, NodeIsSeq DEF MapInv, OrdPairsPlain
  <2>3. node[m] = p
    BY <1>3, <2>1, <2>2 DEF Pair
  <2> QED
    BY <1>2, <2>3, SearchFindsPair
<1> HIDE DEF found, s
<1>8. /\ removed \subseteq {c \in Content : c = <<k, v>>}
      /\ ~(removed = {} /\ <<k, v>> \in Content)
  <2>1. found => <<k, v>> \in Content
    BY <1>5, <1>6, InContent DEF KeyValue
  <2> QED
    BY <1>5, <1>6, <1>7, <2>1
<1> QED
  BY <1>5, <1>8 DEF MultiMapCall

LEMMA RemoveRandomActs ==
    ASSUME MapInv, NEW t \in Thread, RemoveRandom(t)
    PROVE  MultiMapCall
<1> SUFFICES ASSUME Ordered' PROVE MultiMapCall
  BY DEF MultiMapCall
<1> DEFINE p == target[t][1]
<1>1. /\ ~Idle(t) /\ RemoveOne("remove", p.key, p.value, PairLocated(p), ToPair(p))
      /\ target' = [target EXCEPT ![t] = Nothing]
  BY DEF RemoveRandom
<1>2. kind' = kind /\ Ordered /\ TypeOK
  BY DEF RemoveRandom, Ordered, MapInv, KeysInv
<1>3. /\ kind = "random" /\ p \in Pair
      /\ stayed[t] => p \in ToSet(node)
      /\ \A q \in ToSet(node) : q.key = p.key /\ q.disc = p.disc => q = p
  BY <1>1, <1>2, TargetIsPair DEF MapInv, TargetsKnown
<1>4. Idle(t)'
  BY <1>1, <1>2 DEF TypeOK, Idle
<1> HIDE DEF p
<1>5. ToPair(p) \in Seq(Int) /\ Len(ToPair(p)) = Len(node) /\ PairLocated(p) \in BOOLEAN
  BY <1>2, <1>3, ToPairSeq DEF PairLocated
<1> DEFINE s == Search(ToPair(p))
           found == PairLocated(p) /\ s.found
           removed == {<<q.key, q.value>> : q \in ToSet(last'.answer)}
<1>6. /\ last'.call = "remove" /\ last'.key = p.key /\ last'.value = p.value
      /\ found \in BOOLEAN
      /\ found => s.at + 1 \in 1 .. Len(node) /\ removed = {KeyValue(node[s.at + 1])}
      /\ ~found => removed = {}
      /\ Content' = Content \ removed
  BY <1>1, <1>2, <1>5, RemoveActs
<1>7. found => KeyValue(node[s.at + 1]) = KeyValue(p)
  <2>1. \A q \in ToSet(node) : q.key = p.key /\ Second(q) = Second(p) => Same(q, p)
    BY <1>3 DEF Second, Same
  <2> QED
    BY <1>2, <1>3, <2>1, SearchFindsNoOther
<1>8. stayed[t] => found
  <2>1. SUFFICES ASSUME p \in ToSet(node) PROVE found
    BY <1>3
  <2>2. PICK m \in 1 .. Len(node) : node[m] = p
    BY <1>2, <2>1, NodeIsSeq, ToSetSeq
  <2> QED
    BY <1>2, <2>2, SearchFindsPair
<1> HIDE DEF found, s
<1>9. found => KeyValue(p) \in Content
  BY <1>6, <1>7, InContent DEF KeyValue
<1>10. removed \subseteq {c \in Content : c = KeyValue(p)}
  BY <1>6, <1>7, <1>9
<1>11. removed = {} => ~stayed[t]
  BY <1>6, <1>8
<1> QED
  BY <1>1, <1>4, <1>6, <1>10, <1>11 DEF MultiMapCall, KeyValue

LEMMA FindRandomActs ==
    ASSUME MapInv, NEW t \in Thread, NEW k \in Keys, NEW v \in Values, FindRandom(t, k, v)
    PROVE  MultiMapCall
<1> SUFFICES ASSUME Ordered' PROVE MultiMapCall
  BY DEF MultiMapCall
<1> DEFINE I == {i \in 1 .. Len(Get(k)) : Get(k)[i].key = k /\ Get(k)[i].value = v}
           at == SelectInSeq(Get(k), LAMBDA p : p.key = k /\ p.value = v)
<1>1. Ordered /\ TypeOK /\ Content' = Content
  BY DEF FindRandom, Ordered, Content, MapInv, KeysInv
<1>2. /\ at # 0 => last'.call = "find"
      /\ at = 0 => last' = [call |-> "remove", key |-> k, value |-> v, answer |-> Nothing]
  BY DEF FindRandom
<1>3. at = IF I # {} THEN Min(I) ELSE 0
  BY DEF SelectInSeq
<1> HIDE DEF at
<1>4. CASE at # 0
  BY <1>1, <1>2, <1>4 DEF MultiMapCall
<1>5. CASE at = 0
  <2>1. I = {}
    <3>1. SUFFICES ASSUME I # {} PROVE FALSE
      OBVIOUS
    <3>2. Get(k) \in Seq(Pair) /\ Len(Get(k)) \in Nat
      BY <1>1, GetIsPart, LenProperties
    <3>3. \A i \in I : i \in Nat \ {0}
      BY <3>2
    <3> HIDE DEF I
    <3>4. PICK m \in I : \A y \in I : m <= y
      <4> DEFINE Low == {i \in Nat : i \in I}
      <4>1. Low # {} /\ Low \subseteq Nat
        BY <3>1, <3>3
      <4>2. PICK m \in Low : \A y \in Low : ~(y < m)
        BY <4>1, NoLeastNone
      <4> QED
        BY <3>3, <4>2
    <3>5. Min(I) \in I
      BY <3>4, Zenon DEF Min
    <3> QED
      BY <1>3, <1>5, <3>1, <3>3, <3>5
  <2>2. <<k, v>> \notin Content
    <3>1. SUFFICES ASSUME NEW q \in ToSet(node), q.key = k, q.value = v PROVE FALSE
      BY DEF Content
    <3>2. q \in ToSet(Get(k)) /\ Get(k) \in Seq(Pair)
      BY <1>1, <3>1, GetHas, GetIsPart
    <3>3. PICK i \in 1 .. Len(Get(k)) : q = Get(k)[i]
      BY <3>2, ToSetSeq
    <3> QED
      BY <2>1, <3>1, <3>3
  <2>3. last'.answer = Nothing /\ last'.call = "remove" /\ last'.key = k /\ last'.value = v
    BY <1>2, <1>5
  <2>4. ToSet(last'.answer) = {}
    BY <2>3 DEF ToSet, Nothing
  <2>5. {<<p.key, p.value>> : p \in ToSet(last'.answer)} = {}
    BY <2>4
  <2> QED
    BY <1>1, <2>2, <2>3, <2>5 DEF MultiMapCall
<1> QED
  BY <1>4, <1>5

LEMMA RemoveSomeActs ==
    ASSUME MapInv, NEW t \in Thread, NEW k \in Keys, RemoveSome(t, k)
    PROVE  MultiMapCall
<1> SUFFICES ASSUME Ordered' PROVE MultiMapCall
  BY DEF MultiMapCall
<1>1. RemoveOne("remove_some", k, 0, KeyLocated(k), ToKey(k))
  BY DEF RemoveSome
<1>2. kind' = kind /\ Ordered /\ TypeOK
  BY DEF RemoveSome, Ordered, MapInv, KeysInv
<1> DEFINE cmps == ToKey(k)
           located == KeyLocated(k)
           s == Search(cmps)
           n == Len(node)
           found == located /\ s.found
           removed == {<<q.key, q.value>> : q \in ToSet(last'.answer)}
<1>3. /\ ToKey(k) \in Seq(Int) /\ Len(ToKey(k)) = n /\ KeyLocated(k) \in BOOLEAN
      /\ \A i \in 1 .. n : ToKey(k)[i] = node[i].key - k
      /\ Locates(ToKey(k), s)
  BY <1>2, ToKeySeq, SearchLocates DEF KeyLocated
<1>4. /\ last'.call = "remove_some" /\ last'.key = k
      /\ found \in BOOLEAN
      /\ found => s.at + 1 \in 1 .. n /\ removed = {KeyValue(node[s.at + 1])}
      /\ ~found => removed = {}
      /\ Content' = Content \ removed
  <2> HIDE DEF cmps, located
  <2>1. cmps \in Seq(Int) /\ Len(cmps) = Len(node) /\ located \in BOOLEAN
    BY <1>3 DEF cmps, located
  <2>2. PICK v : RemoveOne("remove_some", k, v, located, cmps)
    BY <1>1 DEF cmps, located
  <2>3. last'.call = "remove_some" /\ last'.key = k
    BY <1>2, <2>1, <2>2, RemoveActs
  <2>4. found \in BOOLEAN
    BY <1>2, <2>1, <2>2, RemoveActs
  <2>5. ASSUME found PROVE s.at + 1 \in 1 .. n /\ removed = {KeyValue(node[s.at + 1])}
    <3>1. s.at + 1 \in 1 .. Len(node)
      BY <1>2, <2>1, <2>2, <2>5, RemoveKeepsOrder
    <3> DEFINE at == s.at + 1
    <3>2. last'.answer = Some(node[at])
      BY <2>2, <2>5 DEF RemoveOne
    <3>3. ToSet(last'.answer) = {node[at]}
      BY <3>2 DEF ToSet, Some
    <3>4. removed = {KeyValue(node[at])}
      BY <3>3 DEF KeyValue
    <3> QED
      BY <3>1, <3>4
  <2>6. ~found => removed = {}
    BY <1>2, <2>1, <2>2, RemoveActs
  <2>7. Content' = Content \ removed
    BY <1>2, <2>1, <2>2, RemoveActs
  <2> QED
    BY <2>3, <2>4, <2>5, <2>6, <2>7
<1>5. /\ n \in Nat /\ k \in Nat /\ \A i \in 1 .. n : node[i].key \in Nat
      /\ \A i, j \in 1 .. n : i < j => node[i].key <= node[j].key
      /\ node = <<>> <=> n = 0
  BY <1>2, NodeIsSeq, NumbersAssumption DEF MapInv, KeysInv, KeysTogether
<1> HIDE DEF s
<1>6. found => node[s.at + 1].key = k
  <2>1. found => s.at + 1 \in 1 .. n /\ ToKey(k)[s.at + 1] = 0
    BY <1>3, <1>4 DEF Locates
  <2> QED
    BY <1>3, <1>5, <2>1
<1>7. ASSUME NEW m \in 1 .. n, node[m].key = k PROVE found
  <2>1. KeyLocated(k)
    <3>1. n \in 1 .. n /\ entry = Some(node[n])
      BY <1>2, <1>5 DEF MapInv, EntryIsLast, Last
    <3>2. node[n].key >= k
      <4>1. m < n \/ m = n
        BY <1>5
      <4> QED
        BY <1>5, <1>7, <3>1, <4>1
    <3> QED
      BY <3>1, <3>2 DEF KeyLocated, Some, Nothing
  <2>2. s.found
    <3>1. SUFFICES ASSUME ~s.found PROVE FALSE
      OBVIOUS
    <3>2. /\ s.at \in 0 .. n
          /\ s.at > 0 => ToKey(k)[s.at] < 0
          /\ s.at < n => ToKey(k)[s.at + 1] > 0
      BY <1>3, <3>1 DEF Locates
    <3>3. m <= s.at => node[s.at].key < k /\ s.at \in 1 .. n
      BY <1>3, <1>5, <3>2
    <3>4. ~(m <= s.at) => node[s.at + 1].key > k /\ s.at + 1 \in 1 .. n
      <4> DEFINE next == s.at + 1
      <4>1. ~(m <= s.at) => s.at < n /\ next \in 1 .. n
        BY <1>5, <3>2
      <4>2. ~(m <= s.at) => ToKey(k)[next] > 0
        BY <3>2, <4>1
      <4> HIDE DEF next
      <4>3. ~(m <= s.at) => node[next].key > k
        BY <1>3, <1>5, <4>1, <4>2
      <4> QED
        BY <4>1, <4>3 DEF next
    <3>5. ~(m <= s.at)
      <4>1. m <= s.at => m < s.at \/ m = s.at
        BY <1>5, <3>2
      <4> QED
        BY <1>5, <1>7, <3>3, <4>1
    <3>6. s.at + 1 < m \/ s.at + 1 = m
      BY <1>5, <3>2, <3>5
    <3> QED
      BY <1>5, <1>7, <3>4, <3>5, <3>6
  <2> QED
    BY <2>1, <2>2
<1>8. \A c : c \in Content <=> \E i \in 1 .. n : c = KeyValue(node[i])
  BY <1>2, ContentIs DEF KeyValue
<1>9. (\E c \in Content : c[1] = k) <=> \E m \in 1 .. n : node[m].key = k
  <2>1. ASSUME NEW c \in Content, c[1] = k PROVE \E m \in 1 .. n : node[m].key = k
    <3>1. PICK m \in 1 .. n : c = KeyValue(node[m])
      BY <1>8
    <3> QED
      BY <2>1, <3>1 DEF KeyValue
  <2>2. ASSUME NEW m \in 1 .. n, node[m].key = k PROVE \E c \in Content : c[1] = k
    <3>1. KeyValue(node[m]) \in Content /\ KeyValue(node[m])[1] = k
      BY <1>8, <2>2 DEF KeyValue
    <3> QED
      BY <3>1
  <2> QED
    BY <2>1, <2>2
<1> HIDE DEF found, removed
<1>10. removed \subseteq Content
  BY <1>4, <1>8
<1>11. IF \E c \in Content : c[1] = k THEN \E c \in removed : c[1] = k ELSE removed = {}
  <2>1. CASE found
    <3>1. node[s.at + 1].key = k /\ s.at + 1 \in 1 .. n /\ removed = {KeyValue(node[s.at + 1])}
      BY <1>4, <1>6, <2>1
    <3> QED
      BY <1>9, <3>1 DEF KeyValue
  <2>2. CASE ~found
    BY <1>4, <1>7, <1>9, <2>2
  <2> QED
    BY <1>4, <2>1, <2>2
<1> QED
  BY <1>4, <1>10, <1>11 DEF MultiMapCall, removed

\* While pairs keep their order, a call acts as on a multi map: in particular a
\* remove of RandomMultiPair, which looks for its pair first, misses it only if
\* it was out of the map at some time since (remove_cdc_from).
THEOREM MapActsAsMultiMap == Spec => ActsAsMultiMap
<1>1. ASSUME MapInv, [Next]_vars PROVE [MultiMapCall]_vars
  BY <1>1, InsertActs, RemoveOrdActs, FindRandomActs, RemoveRandomActs, RemoveSomeActs DEF Next
<1> QED
  BY <1>1, MapAlways, PTL DEF Spec, ActsAsMultiMap
=============================================================================
