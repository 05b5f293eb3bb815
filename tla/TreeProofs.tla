----------------------------- MODULE TreeProofs -----------------------------
(***************************************************************************)
(* What the operations of the single-threaded tree leave and answer, for   *)
(* every tree that is sorted across its nodes, every key and every place:  *)
(* the lemmas that TreeMapProofs rests on.  An operation is described by   *)
(* the set of the items of the tree, and a place by the rank of its key.   *)
(***************************************************************************)
EXTENDS TreeMap, NodeProofs

-----------------------------------------------------------------------------
(* Recursion and counting *)

\* There are values of T that start with x and go on, N times, as s says.
CanIterate(N, T, x, s) ==
    \E g \in [0 .. N -> T] : g[0] = x /\ \A n \in 1 .. N : g[n] = s[<<n, g[n - 1]>>]

\* Such values exist: shown by induction, as a set of numbers without a least is empty.
LEMMA IteratedIsDefined ==
    ASSUME NEW N \in Nat, NEW T, NEW x \in T, NEW s \in [(1 .. N) \X T -> T]
    PROVE  CanIterate(N, T, x, s)
<1> DEFINE Goes(g, d) == /\ g[0] = x
                           /\ \A n \in 1 .. d : g[n] = s[<<n, g[n - 1]>>]
           Bad == {d \in Nat : d <= N /\ ~\E g \in [0 .. d -> T] : Goes(g, d)}
<1>1. ASSUME NEW d \in Bad PROVE \E c \in Bad : c < d
  <2>1. CASE d = 0
    <3>1. [n \in 0 .. d |-> x] \in [0 .. d -> T] /\ Goes([n \in 0 .. d |-> x], d)
      BY <2>1
    <3> QED
      BY <3>1
  <2>2. CASE d # 0
    <3>1. d - 1 \in Nat /\ d - 1 <= N /\ d - 1 < d /\ d \in 1 .. N
      BY <2>2
    <3>2. SUFFICES ASSUME NEW g \in [0 .. d - 1 -> T], Goes(g, d - 1) PROVE FALSE
      BY <3>1
    <3> DEFINE h == [n \in 0 .. d |-> IF n = d THEN s[<<d, g[d - 1]>>] ELSE g[n]]
    <3>3. g[d - 1] \in T /\ s[<<d, g[d - 1]>>] \in T
      BY <3>1
    <3>4. h \in [0 .. d -> T]
      BY <3>3
    <3>5. h[0] = x
      BY <2>2, <3>2
    <3>6. ASSUME NEW n \in 1 .. d PROVE h[n] = s[<<n, h[n - 1]>>]
      <4>1. n - 1 \in 0 .. d - 1 /\ n \in 0 .. d /\ n - 1 \in 0 .. d
        BY <3>1
      <4>2. h[n - 1] = g[n - 1]
        BY <3>1, <4>1
      <4>3. CASE n = d
        BY <4>1, <4>2, <4>3
      <4>4. CASE n # d
        <5>1. n \in 1 .. d - 1 /\ h[n] = g[n]
          BY <4>1, <4>4
        <5> QED
          BY <3>2, <4>2, <5>1
      <4> QED
        BY <4>3, <4>4
    <3> QED
      BY <3>4, <3>5, <3>6
  <2> QED
    BY <2>1, <2>2
<1>2. Bad = {}
  <2> HIDE DEF Bad
  <2>1. Bad \subseteq Nat
    BY DEF Bad
  <2> QED
    BY <1>1, <2>1, NoLeastNone
<1>3. N \notin Bad
  <2> HIDE DEF Bad
  <2> QED
    BY <1>2
<1> QED
  BY <1>3 DEF CanIterate

\* Numbers that are counted from 1 without a gap are as many as the last.
LEMMA CountedFromOne ==
    ASSUME NEW N \in Nat, NEW V \in SUBSET (1 .. N),
           \A i \in V : \A j \in 1 .. N : j < i => j \in V
    PROVE  /\ Cardinality(V) \in 0 .. N
           /\ \A i \in 1 .. N : i \in V <=> i <= Cardinality(V)
<1>1. \E b \in 0 .. N : V = 1 .. b
  <2>1. CASE V = {}
    BY <2>1
  <2>2. CASE V # {}
    <3>1. IsFiniteSet(V)
      <4>1. IsFiniteSet(1 .. N)
        BY FS_Interval
      <4> QED
        BY <4>1, FS_Subset
    <3>2. PICK m \in V : \A y \in V : m >= y
      BY <2>2, <3>1, MaxExists, V \subseteq Int
    <3>3. m \in 1 .. N
      OBVIOUS
    <3>4. ASSUME NEW j \in V PROVE j \in 1 .. m
      <4>1. j \in 1 .. N /\ m >= j
        BY <3>2
      <4> QED
        BY <3>3, <4>1
    <3>5. ASSUME NEW j \in 1 .. m PROVE j \in V
      <4>1. j \in 1 .. N /\ (j = m \/ j < m)
        BY <3>3
      <4> QED
        BY <4>1
    <3>6. V \subseteq 1 .. m /\ 1 .. m \subseteq V
      BY <3>4, <3>5, Zenon
    <3>7. m \in 0 .. N
      BY <3>3
    <3> QED
      BY <3>6, <3>7, Zenon
  <2> QED
    BY <2>1, <2>2
<1>2. PICK b \in 0 .. N : V = 1 .. b
  BY <1>1
<1>3. Cardinality(1 .. b) = b
  <2>1. Cardinality(1 .. b) = IF 1 > b THEN 0 ELSE b - 1 + 1
    BY FS_Interval
  <2> QED
    BY <2>1
<1> QED
  BY <1>2, <1>3

\* slice::partition_point
LEMMA PartitionPointIs ==
    ASSUME NEW N \in Nat, NEW verdicts, DOMAIN verdicts = 1 .. N,
           \A i, j \in 1 .. N : j < i /\ verdicts[i] => verdicts[j]
    PROVE  /\ PartitionPoint(verdicts) \in 0 .. N
           /\ \A i \in 1 .. N : verdicts[i] <=> i <= PartitionPoint(verdicts)
<1> DEFINE V == {i \in 1 .. N : verdicts[i]}
<1>1. PartitionPoint(verdicts) = Cardinality(V)
  BY DEF PartitionPoint
<1>2. /\ Cardinality(V) \in 0 .. N
      /\ \A i \in 1 .. N : i \in V <=> i <= Cardinality(V)
  <2>1. V \in SUBSET (1 .. N) /\ \A i \in V : \A j \in 1 .. N : j < i => j \in V
    OBVIOUS
  <2> HIDE DEF V
  <2> QED
    BY <2>1, CountedFromOne
<1> QED
  BY <1>1, <1>2

\* FenwickTree::prefix_sum
LEMMA SumsAre ==
    ASSUME NEW lengths \in Seq(Nat)
    PROVE  /\ Sums(lengths) \in [0 .. Len(lengths) -> Nat]
           /\ Sums(lengths)[0] = 0
           /\ \A n \in 1 .. Len(lengths) :
                Sums(lengths)[n] = Sums(lengths)[n - 1] + lengths[n]
<1> DEFINE N == Len(lengths)
           s == [p \in (1 .. N) \X Nat |-> p[2] + lengths[p[1]]]
           F(f) == [n \in 0 .. N |-> IF n = 0 THEN 0 ELSE f[n - 1] + lengths[n]]
<1>1. N \in Nat /\ \A n \in 1 .. N : lengths[n] \in Nat
  BY LenProperties, ElementOfSeq
<1>2. s \in [(1 .. N) \X Nat -> Nat]
  BY <1>1
<1> HIDE DEF N
<1>3. \A n \in 1 .. N : \A v \in Nat : s[<<n, v>>] = v + lengths[n]
  OBVIOUS
<1>4. PICK g \in [0 .. N -> Nat] : g[0] = 0 /\ \A n \in 1 .. N : g[n] = s[<<n, g[n - 1]>>]
  <2> HIDE DEF s
  <2> DEFINE T == Nat
             zero == 0
  <2>1. zero \in T /\ s \in [(1 .. N) \X T -> T]
    BY <1>2
  <2> HIDE DEF T, zero
  <2>2. CanIterate(N, T, zero, s)
    BY <1>1, <2>1, IteratedIsDefined
  <2> QED
    BY <2>2 DEF CanIterate, T, zero
<1>5. g = F(g)
  <2>1. ASSUME NEW n \in 0 .. N PROVE g[n] = F(g)[n]
    <3>1. n # 0 => n \in 1 .. N /\ n - 1 \in 0 .. N
      BY <1>1
    <3> QED
      BY <1>3, <1>4, <3>1
  <2> QED
    BY <2>1
<1>6. Sums(lengths) = CHOOSE f : f = F(f)
  BY DEF Sums, N
<1>7. Sums(lengths) = F(Sums(lengths))
  BY <1>5, <1>6
<1>8. /\ Sums(lengths)[0] = 0
      /\ \A n \in 1 .. N : Sums(lengths)[n] = Sums(lengths)[n - 1] + lengths[n]
  BY <1>1, <1>7
<1>9. \A n \in 0 .. N : Sums(lengths)[n] \in Nat
  <2> DEFINE Bad == {n \in 0 .. N : Sums(lengths)[n] \notin Nat}
  <2>1. ASSUME NEW n \in Bad PROVE \E m \in Bad : m < n
    <3>1. n \in 0 .. N /\ Sums(lengths)[n] \notin Nat
      OBVIOUS
    <3>2. n # 0
      BY <1>8, <3>1
    <3>3. n \in 1 .. N /\ n - 1 \in 0 .. N /\ n - 1 < n
      BY <1>1, <3>1, <3>2
    <3>4. Sums(lengths)[n - 1] \notin Nat
      <4>1. lengths[n] \in Nat /\ Sums(lengths)[n] = Sums(lengths)[n - 1] + lengths[n]
        BY <1>1, <1>8, <3>3
      <4>2. \A a, b \in Nat : a + b \in Nat
        OBVIOUS
      <4> QED
        BY <3>1, <4>1, <4>2
    <3> QED
      BY <3>3, <3>4
  <2>2. Bad \subseteq Nat
    BY <1>1
  <2>3. Bad = {}
    <3> HIDE DEF Bad
    <3> QED
      BY <2>1, <2>2, NoLeastNone
  <2> QED
    BY <2>3
<1>10. Sums(lengths) \in [0 .. N -> Nat]
  BY <1>7, <1>9
<1> QED
  BY <1>8, <1>10 DEF N

-----------------------------------------------------------------------------
(* Items, nodes, and the set of the items of a tree *)

Item == Keys \X Values
Node == Seq(Item)
Nodes == Seq(Node)

\* An item compares by an integer, a key.
LEMMA KeyType ==
    /\ \A x \in Item : Key(x) \in Keys /\ Key(x) \in Int
    /\ \A k \in Keys, v \in Values : <<k, v>> \in Item /\ Key(<<k, v>>) = k
BY KeyAssumption DEF Item, Key

\* a's items are below b's.
Precedes(a, b) == \A x \in ToSet(a), y \in ToSet(b) : Key(x) < Key(y)

Sorted(node) == \A i, j \in 1 .. Len(node) : i < j => Key(node[i]) < Key(node[j])

NodesSorted(inner) ==
    /\ \A n \in 1 .. Len(inner) : Sorted(inner[n])
    /\ \A m, n \in 1 .. Len(inner) : m < n => Precedes(inner[m], inner[n])

\* The items of the first n nodes, and of all.
FirstItems(inner, n) == {x \in Item : \E m \in 1 .. n : x \in ToSet(inner[m])}
ItemSet(inner) == FirstItems(inner, Len(inner))

\* The items of a node are items, at positions counted from 1.
LEMMA NodeType ==
    ASSUME NEW node \in Node
    PROVE  /\ Len(node) \in Nat /\ DOMAIN node = 1 .. Len(node)
           /\ \A i \in 1 .. Len(node) : /\ node[i] \in Item
                                        /\ Key(node[i]) \in Keys /\ Key(node[i]) \in Int
                                        /\ node[i] \in ToSet(node)
           /\ \A x : x \in ToSet(node) <=> \E i \in 1 .. Len(node) : x = node[i]
           /\ ToSet(node) \subseteq Item
           /\ \A x \in ToSet(node) : Key(x) \in Keys /\ Key(x) \in Int
<1>1. Len(node) \in Nat /\ DOMAIN node = 1 .. Len(node)
  BY LenProperties DEF Node
<1>2. \A i \in 1 .. Len(node) : node[i] \in Item
  BY ElementOfSeq DEF Node
<1>3. /\ \A x : x \in ToSet(node) <=> \E i \in 1 .. Len(node) : x = node[i]
      /\ ToSet(node) \subseteq Item
  BY ToSetSeq DEF Node
<1> QED
  BY <1>1, <1>2, <1>3, KeyType

\* The nodes of a vector of nodes, and their items.
LEMMA NodesType ==
    ASSUME NEW inner \in Nodes
    PROVE  /\ Len(inner) \in Nat /\ DOMAIN inner = 1 .. Len(inner)
           /\ \A n \in 1 .. Len(inner) :
                /\ inner[n] \in Node
                /\ Len(inner[n]) \in Nat /\ DOMAIN inner[n] = 1 .. Len(inner[n])
                /\ \A i \in 1 .. Len(inner[n]) :
                     inner[n][i] \in Item /\ inner[n][i] \in ToSet(inner[n])
                /\ \A x \in ToSet(inner[n]) : x \in Item /\ Key(x) \in Int
           /\ \A x : x \in ItemSet(inner) <=>
                       \E n \in 1 .. Len(inner) : x \in ToSet(inner[n])
<1>1. Len(inner) \in Nat /\ DOMAIN inner = 1 .. Len(inner)
  BY LenProperties DEF Nodes
<1>2. \A n \in 1 .. Len(inner) : inner[n] \in Node
  BY ElementOfSeq DEF Nodes
<1>3. ASSUME NEW n \in 1 .. Len(inner)
      PROVE  /\ Len(inner[n]) \in Nat /\ DOMAIN inner[n] = 1 .. Len(inner[n])
             /\ \A i \in 1 .. Len(inner[n]) :
                  inner[n][i] \in Item /\ inner[n][i] \in ToSet(inner[n])
             /\ \A x \in ToSet(inner[n]) : x \in Item /\ Key(x) \in Int
  BY <1>2, NodeType
<1>4. \A x : x \in ItemSet(inner) <=>
               \E n \in 1 .. Len(inner) : x \in ToSet(inner[n])
  BY <1>3 DEF ItemSet, FirstItems
<1> QED
  BY <1>1, <1>2, <1>3, <1>4

\* In a sorted node, places and keys are in the same order.
LEMMA SortedPlaces ==
    ASSUME NEW node \in Node, Sorted(node),
           NEW i \in 1 .. Len(node), NEW j \in 1 .. Len(node)
    PROVE  /\ Key(node[i]) < Key(node[j]) <=> i < j
           /\ Key(node[i]) = Key(node[j]) <=> i = j
<1>1. /\ i < j => Key(node[i]) < Key(node[j])
      /\ j < i => Key(node[j]) < Key(node[i])
  BY DEF Sorted
<1>2. Key(node[i]) \in Int /\ Key(node[j]) \in Int
  BY NodeType
<1>3. i \in Int /\ j \in Int
  OBVIOUS
<1> QED
  BY <1>1, <1>2, <1>3

\* No two items of a tree have the same key.
LEMMA OneItemPerKey ==
    ASSUME NEW inner \in Nodes, NodesSorted(inner),
           NEW x \in ItemSet(inner), NEW y \in ItemSet(inner), Key(x) = Key(y)
    PROVE  x = y
<1>1. PICK m \in 1 .. Len(inner) : x \in ToSet(inner[m])
  BY NodesType
<1>2. PICK n \in 1 .. Len(inner) : y \in ToSet(inner[n])
  BY NodesType
<1>3. Key(x) \in Int /\ Key(y) \in Int
  BY <1>1, <1>2, NodesType
<1>4. ~(m < n) /\ ~(n < m)
  BY <1>1, <1>2, <1>3 DEF NodesSorted, Precedes
<1>5. m = n
  BY <1>4
<1>6. inner[n] \in Node /\ Sorted(inner[n])
  BY NodesType DEF NodesSorted
<1>7. PICK i \in 1 .. Len(inner[n]) : x = inner[n][i]
  BY <1>1, <1>5, <1>6, NodeType
<1>8. PICK j \in 1 .. Len(inner[n]) : y = inner[n][j]
  BY <1>2, <1>6, NodeType
<1> QED
  BY <1>6, <1>7, <1>8, SortedPlaces

\* Items that differ in their keys are no more than keys.
LEMMA DifferentKeysFinite ==
    ASSUME NEW S \in SUBSET Item, \A x, y \in S : Key(x) = Key(y) => x = y
    PROVE  IsFiniteSet(S) /\ Cardinality(S) \in Nat /\ Cardinality(S) <= Cardinality(Keys)
<1> DEFINE f == [x \in S |-> Key(x)]
<1>1. f \in Injection(S, Keys)
  <2>1. f \in [S -> Keys]
    BY KeyType
  <2> QED
    BY <2>1 DEF Injection, IsInjective
<1>2. IsFiniteSet(Keys)
  BY KeyAssumption
<1>3. IsFiniteSet(S) /\ Cardinality(S) <= Cardinality(Keys)
  BY <1>1, <1>2, FS_Injection
<1> QED
  BY <1>3, FS_CardinalityType

\* A tree has no more items than there are keys, though it may have any number
\* of nodes: items of sorted nodes differ in their keys.
LEMMA ItemSetFinite ==
    ASSUME NEW inner \in Nodes, NodesSorted(inner)
    PROVE  /\ ItemSet(inner) \subseteq Item
           /\ IsFiniteSet(ItemSet(inner))
           /\ Cardinality(ItemSet(inner)) \in Nat
           /\ Cardinality(ItemSet(inner)) <= Cardinality(Keys)
<1>1. ItemSet(inner) \in SUBSET Item
  BY DEF ItemSet, FirstItems
<1>2. \A x, y \in ItemSet(inner) : Key(x) = Key(y) => x = y
  BY OneItemPerKey
<1> QED
  BY <1>1, <1>2, DifferentKeysFinite

\* The items of a sorted node are as many as its places.
LEMMA NodeCount ==
    ASSUME NEW node \in Node, Sorted(node)
    PROVE  IsFiniteSet(ToSet(node)) /\ Cardinality(ToSet(node)) = Len(node)
<1>1. \A x, y \in ToSet(node) : Key(x) = Key(y) => x = y
  BY NodeType, SortedPlaces
<1>2. IsFiniteSet(ToSet(node))
  <2>1. ToSet(node) \in SUBSET Item
    BY NodeType
  <2> QED
    BY <1>1, <2>1, DifferentKeysFinite
<1>3. ToSet(node) = {node[i] : i \in 1 .. Len(node)}
  BY NodeType
<1>4. \A i, j \in 1 .. Len(node) : node[i] = node[j] => i = j
  BY SortedPlaces
<1>5. Cardinality({node[i] : i \in 1 .. Len(node)}) = Len(node)
  BY <1>4, NodeType, DifferentCount
<1> QED
  BY <1>2, <1>3, <1>5

-----------------------------------------------------------------------------
(* The Fenwick tree: prefix sums are ranks *)

\* What the Fenwick tree is made from: one length per node.
LEMMA LengthsType ==
    ASSUME NEW inner \in Nodes
    PROVE  /\ Lengths(inner) \in Seq(Nat)
           /\ Len(Lengths(inner)) = Len(inner)
           /\ \A n \in 1 .. Len(inner) : Lengths(inner)[n] = Len(inner[n])
<1>1. Lengths(inner) = [n \in 1 .. Len(inner) |-> Len(inner[n])]
  BY NodesType DEF Lengths
<1>2. Lengths(inner) \in [1 .. Len(inner) -> Nat]
  BY <1>1, NodesType
<1> QED
  BY <1>1, <1>2, NodesType

\* The prefix sums exist, and go up by the length of each node.
LEMMA SumsType ==
    ASSUME NEW inner \in Nodes
    PROVE  /\ Sums(Lengths(inner))[0] = 0
           /\ \A n \in 1 .. Len(inner) :
                Sums(Lengths(inner))[n] = Sums(Lengths(inner))[n - 1] + Len(inner[n])
           /\ \A n \in 0 .. Len(inner) : Sums(Lengths(inner))[n] \in Nat
<1> DEFINE lengths == Lengths(inner)
<1>1. /\ lengths \in Seq(Nat) /\ Len(lengths) = Len(inner)
      /\ \A n \in 1 .. Len(inner) : lengths[n] = Len(inner[n])
  BY LengthsType
<1> HIDE DEF lengths
<1>2. /\ Sums(lengths) \in [0 .. Len(lengths) -> Nat]
      /\ Sums(lengths)[0] = 0
      /\ \A n \in 1 .. Len(lengths) : Sums(lengths)[n] = Sums(lengths)[n - 1] + lengths[n]
  BY <1>1, SumsAre
<1>3. \A n \in 0 .. Len(inner) : Sums(lengths)[n] \in Nat
  BY <1>1, <1>2
<1> QED
  BY <1>1, <1>2, <1>3 DEF lengths

\* Items are apart when their keys are.
LEMMA CountFirst ==
    ASSUME NEW inner \in Nodes, NodesSorted(inner), NEW n \in 0 .. Len(inner)
    PROVE  /\ IsFiniteSet(FirstItems(inner, n))
           /\ Cardinality(FirstItems(inner, n)) = Sums(Lengths(inner))[n]
<1> DEFINE L == Len(inner)
           sums == Sums(Lengths(inner))
           Good(m) == /\ IsFiniteSet(FirstItems(inner, m))
                      /\ Cardinality(FirstItems(inner, m)) = sums[m]
           Bad == {m \in 0 .. L : ~Good(m)}
<1>1. L \in Nat
  BY NodesType
<1>2. /\ sums[0] = 0
      /\ \A m \in 1 .. L : sums[m] = sums[m - 1] + Len(inner[m])
      /\ \A m \in 0 .. L : sums[m] \in Nat
  BY SumsType
<1> HIDE DEF sums
<1>3. ASSUME NEW m \in Bad PROVE \E l \in Bad : l < m
  <2>1. m \in 0 .. L /\ ~Good(m)
    OBVIOUS
  <2>2. m # 0
    <3>1. FirstItems(inner, 0) = {}
      BY DEF FirstItems
    <3> QED
      BY <1>2, <2>1, <3>1, FS_EmptySet
  <2>3. m \in 1 .. L /\ m - 1 \in 0 .. L /\ m - 1 < m
    BY <1>1, <2>1, <2>2
  <2> SUFFICES ASSUME Good(m - 1) PROVE Good(m)
    BY <2>1, <2>3
  <2>4. FirstItems(inner, m) = FirstItems(inner, m - 1) \cup ToSet(inner[m])
    <3>1. \A l : l \in 1 .. m <=> l \in 1 .. m - 1 \/ l = m
      BY <2>3
    <3>2. ToSet(inner[m]) \subseteq Item
      BY <2>3, NodesType
    <3> QED
      BY <3>1, <3>2 DEF FirstItems
  <2>5. FirstItems(inner, m - 1) \cap ToSet(inner[m]) = {}
    <3> SUFFICES ASSUME NEW x \in FirstItems(inner, m - 1), x \in ToSet(inner[m])
                 PROVE  FALSE
      OBVIOUS
    <3>1. PICK l \in 1 .. m - 1 : x \in ToSet(inner[l])
      BY DEF FirstItems
    <3>2. l \in 1 .. L /\ l < m
      BY <2>3
    <3>3. Key(x) < Key(x)
      BY <2>3, <3>1, <3>2 DEF NodesSorted, Precedes
    <3>4. Key(x) \in Int
      BY <2>3, NodesType
    <3> QED
      BY <3>3, <3>4
  <2>6. IsFiniteSet(ToSet(inner[m])) /\ Cardinality(ToSet(inner[m])) = Len(inner[m])
    BY <2>3, NodesType, NodeCount DEF NodesSorted
  <2>7. /\ IsFiniteSet(FirstItems(inner, m))
        /\ Cardinality(FirstItems(inner, m)) =
             Cardinality(FirstItems(inner, m - 1)) + Cardinality(ToSet(inner[m]))
               - Cardinality({})
    BY <2>4, <2>5, <2>6, FS_Union
  <2>8. sums[m - 1] \in Nat /\ Len(inner[m]) \in Nat
    BY <1>2, <2>3, NodesType
  <2> QED
    BY <1>2, <2>3, <2>6, <2>7, <2>8, FS_EmptySet
<1>4. Bad = {}
  <2>1. Bad \subseteq Nat
    BY <1>1
  <2> HIDE DEF Bad
  <2> QED
    BY <1>3, <2>1, NoLeastNone
<1>5. Good(n)
  <2>1. n \notin Bad
    BY <1>4, Zenon
  <2> QED
    BY <2>1
<1> QED
  BY <1>5 DEF sums

\* The keys of S below k.
RankIn(S, k) == Cardinality({x \in S : Key(x) < k})

\* Every item before place i of node n is below k, and none from there on.
Divides(inner, n, i, k) ==
    /\ n \in 1 .. Len(inner) /\ i \in 1 .. Len(inner[n]) + 1
    /\ \A m \in 1 .. Len(inner) : \A x \in ToSet(inner[m]) :
         /\ m < n => Key(x) < k
         /\ m > n => Key(x) >= k
    /\ \A j \in 1 .. Len(inner[n]) : Key(inner[n][j]) < k <=> j < i

\* A part of a sorted node is a sorted node.
LEMMA SubNode ==
    ASSUME NEW node \in Node, Sorted(node),
           NEW m \in 1 .. Len(node) + 1, NEW n \in 0 .. Len(node), m <= n + 1
    PROVE  /\ SubSeq(node, m, n) \in Node
           /\ Sorted(SubSeq(node, m, n))
           /\ Len(SubSeq(node, m, n)) = n - m + 1
           /\ \A i \in 1 .. n - m + 1 : SubSeq(node, m, n)[i] = node[m + i - 1]
           /\ \A x : x \in ToSet(SubSeq(node, m, n)) <=> \E i \in m .. n : x = node[i]
<1> DEFINE s == SubSeq(node, m, n)
<1>1. Len(node) \in Nat
  BY NodeType
<1>2. /\ s \in Node /\ Len(s) = n - m + 1
      /\ \A i \in 1 .. n - m + 1 : s[i] = node[m + i - 1]
  BY SubSeqSeq DEF Node
<1> HIDE DEF s
<1>3. Sorted(s)
  <2> SUFFICES ASSUME NEW i \in 1 .. Len(s), NEW j \in 1 .. Len(s), i < j
               PROVE  Key(s[i]) < Key(s[j])
    BY DEF Sorted
  <2>1. /\ m + i - 1 \in 1 .. Len(node) /\ m + j - 1 \in 1 .. Len(node)
        /\ m + i - 1 < m + j - 1
    BY <1>1, <1>2
  <2>2. s[i] = node[m + i - 1] /\ s[j] = node[m + j - 1]
    BY <1>2
  <2> QED
    BY <2>1, <2>2 DEF Sorted
<1>4. ASSUME NEW x PROVE x \in ToSet(s) <=> \E i \in m .. n : x = node[i]
  <2>1. x \in ToSet(s) <=> \E i \in 1 .. Len(s) : x = s[i]
    BY <1>2, NodeType
  <2>2. ASSUME NEW i \in 1 .. Len(s), x = s[i] PROVE \E j \in m .. n : x = node[j]
    <3>1. m + i - 1 \in m .. n
      BY <1>1, <1>2
    <3> QED
      BY <1>2, <2>2, <3>1
  <2>3. ASSUME NEW j \in m .. n, x = node[j] PROVE \E i \in 1 .. Len(s) : x = s[i]
    <3>1. j - m + 1 \in 1 .. Len(s) /\ m + (j - m + 1) - 1 = j
      BY <1>1, <1>2
    <3>2. s[j - m + 1] = node[m + (j - m + 1) - 1]
      BY <1>2, <3>1
    <3> QED
      BY <2>3, <3>1, <3>2
  <2> QED
    BY <2>1, <2>2, <2>3
<1> QED
  BY <1>2, <1>3, <1>4 DEF s

\* BTreeSet::rank, rank_cmp: the prefix sum and the place in the node.
LEMMA RankOfPlace ==
    ASSUME NEW inner \in Nodes, NodesSorted(inner), NEW n, NEW i, NEW k \in Int,
           Divides(inner, n, i, k)
    PROVE  RankIn(ItemSet(inner), k) = Sums(Lengths(inner))[n - 1] + i - 1
<1> DEFINE low == SubSeq(inner[n], 1, i - 1)
<1>1. n \in 1 .. Len(inner) /\ i \in 1 .. Len(inner[n]) + 1 /\ n - 1 \in 0 .. Len(inner)
  BY NodesType DEF Divides
<1>2. inner[n] \in Node /\ Sorted(inner[n]) /\ Len(inner[n]) \in Nat
  BY <1>1, NodesType DEF NodesSorted
<1>3. i - 1 \in 0 .. Len(inner[n])
  BY <1>1, <1>2
<1>4. /\ low \in Node /\ Sorted(low) /\ Len(low) = i - 1
      /\ \A x : x \in ToSet(low) <=> \E j \in 1 .. i - 1 : x = inner[n][j]
  <2>1. PICK one \in 1 .. Len(inner[n]) + 1 : one = 1
    BY <1>2
  <2>2. PICK h \in 0 .. Len(inner[n]) : h = i - 1
    BY <1>3
  <2>3. one <= h + 1 /\ h - one + 1 = i - 1
    BY <1>1, <2>1, <2>2
  <2>4. /\ SubSeq(inner[n], one, h) \in Node /\ Sorted(SubSeq(inner[n], one, h))
        /\ Len(SubSeq(inner[n], one, h)) = h - one + 1
        /\ \A x : x \in ToSet(SubSeq(inner[n], one, h)) <=>
                    \E j \in one .. h : x = inner[n][j]
    BY <1>2, <2>3, SubNode
  <2> QED
    BY <2>1, <2>2, <2>3, <2>4
<1> HIDE DEF low
<1>5. {x \in ItemSet(inner) : Key(x) < k} = FirstItems(inner, n - 1) \cup ToSet(low)
  <2>1. ASSUME NEW x \in ItemSet(inner), Key(x) < k
        PROVE  x \in FirstItems(inner, n - 1) \cup ToSet(low)
    <3>1. PICK m \in 1 .. Len(inner) : x \in ToSet(inner[m])
      BY NodesType
    <3>2. x \in Item /\ Key(x) \in Int
      BY <3>1, NodesType
    <3>3. ~(m > n)
      BY <2>1, <3>1, <3>2 DEF Divides
    <3>4. CASE m = n
      <4>1. PICK j \in 1 .. Len(inner[n]) : x = inner[n][j]
        BY <1>2, <3>1, <3>4, NodeType
      <4>2. j \in 1 .. i - 1
        BY <1>1, <2>1, <4>1 DEF Divides
      <4> QED
        BY <1>4, <4>1, <4>2
    <3>5. CASE m # n
      <4>1. m \in 1 .. n - 1
        BY <1>1, <3>3, <3>5
      <4> QED
        BY <3>1, <3>2, <4>1 DEF FirstItems
    <3> QED
      BY <3>4, <3>5
  <2>2. ASSUME NEW x \in FirstItems(inner, n - 1)
        PROVE  x \in ItemSet(inner) /\ Key(x) < k
    <3>1. PICK m \in 1 .. n - 1 : x \in ToSet(inner[m])
      BY DEF FirstItems
    <3>2. m \in 1 .. Len(inner) /\ m < n
      BY <1>1
    <3> QED
      BY <3>1, <3>2, NodesType DEF Divides
  <2>3. ASSUME NEW x \in ToSet(low) PROVE x \in ItemSet(inner) /\ Key(x) < k
    <3>1. PICK j \in 1 .. i - 1 : x = inner[n][j]
      BY <1>4
    <3>2. j \in 1 .. Len(inner[n]) /\ j < i
      BY <1>1, <1>2
    <3>3. Key(x) < k
      BY <3>1, <3>2 DEF Divides
    <3>4. x \in ToSet(inner[n])
      BY <1>2, <3>1, <3>2, NodeType
    <3> QED
      BY <1>1, <3>3, <3>4, NodesType
  <2> QED
    BY <2>1, <2>2, <2>3
<1>6. FirstItems(inner, n - 1) \cap ToSet(low) = {}
  <2> SUFFICES ASSUME NEW x \in FirstItems(inner, n - 1), x \in ToSet(low) PROVE FALSE
    OBVIOUS
  <2>1. PICK m \in 1 .. n - 1 : x \in ToSet(inner[m])
    BY DEF FirstItems
  <2>2. PICK j \in 1 .. i - 1 : x = inner[n][j]
    BY <1>4
  <2>3. x \in ToSet(inner[n]) /\ Key(x) \in Int
    <3>1. j \in 1 .. Len(inner[n])
      BY <1>1, <1>2
    <3> QED
      BY <1>2, <2>2, <3>1, NodeType
  <2>4. m \in 1 .. Len(inner) /\ m < n
    BY <1>1
  <2>5. Key(x) < Key(x)
    BY <1>1, <2>1, <2>3, <2>4 DEF NodesSorted, Precedes
  <2> QED
    BY <2>3, <2>5
<1>7. /\ IsFiniteSet(FirstItems(inner, n - 1))
      /\ Cardinality(FirstItems(inner, n - 1)) = Sums(Lengths(inner))[n - 1]
  BY <1>1, CountFirst
<1>8. IsFiniteSet(ToSet(low)) /\ Cardinality(ToSet(low)) = i - 1
  BY <1>4, NodeCount
<1>9. RankIn(ItemSet(inner), k) =
        Sums(Lengths(inner))[n - 1] + (i - 1) - Cardinality({})
  BY <1>5, <1>6, <1>7, <1>8, FS_Union DEF RankIn
<1>10. Sums(Lengths(inner))[n - 1] \in Nat
  BY <1>7, FS_CardinalityType
<1> QED
  BY <1>1, <1>9, <1>10, FS_EmptySet

-----------------------------------------------------------------------------
(* Finding *)

\* Min and Max of FiniteSetsExt, as std::cmp gives them.
LEMMA MinMaxOfTwo ==
    ASSUME NEW a \in Int, NEW b \in Int
    PROVE  /\ Min({a, b}) = IF a <= b THEN a ELSE b
           /\ Max({a, b}) = IF a >= b THEN a ELSE b
<1>1. CASE a <= b
  <2>1. \A x \in {a, b} : (\A y \in {a, b} : x <= y) <=> x = a
    BY <1>1
  <2>2. \A x \in {a, b} : (\A y \in {a, b} : x >= y) <=> x = b
    BY <1>1
  <2> QED
    BY <1>1, <2>1, <2>2 DEF Min, Max
<1>2. CASE ~(a <= b)
  <2>1. \A x \in {a, b} : (\A y \in {a, b} : x <= y) <=> x = b
    BY <1>2
  <2>2. \A x \in {a, b} : (\A y \in {a, b} : x >= y) <=> x = a
    BY <1>2
  <2> QED
    BY <1>2, <2>1, <2>2 DEF Min, Max
<1> QED
  BY <1>1, <1>2

\* No node is empty but an only one, and none is longer than the capacity.
NodesFit(inner, cap) ==
    /\ Len(inner) >= 1
    /\ \A n \in 1 .. Len(inner) :
         /\ Len(inner[n]) <= cap
         /\ Len(inner[n]) = 0 => Len(inner) = 1

\* The trees the code builds: index and len agree with the nodes.
TreeType == [inner : Nodes, index : Seq(Nat), len : Nat, cap : 2 .. DefaultCapacity]
Trees == {t \in TreeType :
            /\ NodesSorted(t.inner) /\ NodesFit(t.inner, t.cap)
            /\ t.index = Lengths(t.inner)
            /\ t.len = Cardinality(ItemSet(t.inner))}

\* What a reachable tree is: the fields that the operations work on.
LEMMA TreesType ==
    ASSUME NEW t \in Trees
    PROVE  /\ t.inner \in Nodes /\ t.cap \in 2 .. DefaultCapacity /\ t.cap \in Nat
           /\ NodesSorted(t.inner) /\ NodesFit(t.inner, t.cap)
           /\ t.index = Lengths(t.inner) /\ t.index \in Seq(Nat)
           /\ t.len = Cardinality(ItemSet(t.inner)) /\ t.len \in Nat
           /\ Len(t.inner) \in Nat /\ DOMAIN t.inner = 1 .. Len(t.inner) /\ Len(t.inner) >= 1
           /\ t = [inner |-> t.inner, index |-> t.index, len |-> t.len, cap |-> t.cap]
<1>1. t \in TreeType /\ NodesFit(t.inner, t.cap)
  BY DEF Trees
<1>2. /\ t.inner \in Nodes /\ t.cap \in 2 .. DefaultCapacity
      /\ t.index \in Seq(Nat) /\ t.len \in Nat
      /\ t = [inner |-> t.inner, index |-> t.index, len |-> t.len, cap |-> t.cap]
  BY <1>1 DEF TreeType
<1> QED
  BY <1>1, <1>2, NodesType DEF Trees, NodesFit

\* The ends of a node: an empty one has none.
LEMMA EmptyNode ==
    ASSUME NEW node \in Node
    PROVE  /\ node = <<>> <=> Len(node) = 0
           /\ Len(node) # 0 => /\ Last(node) = node[Len(node)] /\ Last(node) \in ToSet(node)
                               /\ Head(node) = node[1] /\ node[1] \in ToSet(node)
           /\ Sorted(node) => \A x \in ToSet(node) :
                Key(node[1]) <= Key(x) /\ Key(x) <= Key(Last(node))
<1>1. node = <<>> <=> Len(node) = 0
  BY NodeType, EmptySeq DEF Node
<1>2. ASSUME Len(node) # 0
      PROVE  /\ Last(node) = node[Len(node)] /\ Last(node) \in ToSet(node)
             /\ Head(node) = node[1] /\ node[1] \in ToSet(node)
  <2>1. 1 \in 1 .. Len(node) /\ Len(node) \in 1 .. Len(node)
    BY <1>2, NodeType
  <2>2. Last(node) = node[Len(node)] /\ Head(node) = node[1]
    BY <1>1, <1>2, HeadTailProperties DEF Last, Node
  <2> QED
    BY <2>1, <2>2, NodeType
<1>3. ASSUME Sorted(node), NEW x \in ToSet(node)
      PROVE  Key(node[1]) <= Key(x) /\ Key(x) <= Key(Last(node))
  <2>1. PICK i \in 1 .. Len(node) : x = node[i]
    BY NodeType
  <2>2. 1 \in 1 .. Len(node) /\ Len(node) \in 1 .. Len(node) /\ Len(node) # 0
    BY <2>1, NodeType
  <2>3. (i = 1 \/ 1 < i) /\ (i = Len(node) \/ i < Len(node))
    BY <2>1, NodeType
  <2>4. Key(node[1]) \in Int /\ Key(node[Len(node)]) \in Int /\ Key(node[i]) \in Int
    BY <2>1, <2>2, NodeType
  <2> QED
    BY <1>2, <1>3, <2>1, <2>2, <2>3, <2>4 DEF Sorted
<1> QED
  BY <1>1, <1>2, <1>3

\* Where a node's items would go that are below k, and from k on.
LEMMA ItemsBelowIs ==
    ASSUME NEW node \in Node, Sorted(node), NEW k \in Int
    PROVE  /\ ItemsBelow(node, k) \in 0 .. Len(node)
           /\ \A i \in 1 .. Len(node) : Key(node[i]) < k <=> i <= ItemsBelow(node, k)
<1> DEFINE verdicts == [i \in 1 .. Len(node) |-> Key(node[i]) < k]
<1>1. ItemsBelow(node, k) = PartitionPoint(verdicts)
  BY NodeType DEF ItemsBelow
<1>2. Len(node) \in Nat /\ DOMAIN verdicts = 1 .. Len(node)
  BY NodeType
<1>3. ASSUME NEW i \in 1 .. Len(node), NEW j \in 1 .. Len(node), j < i, verdicts[i]
      PROVE  verdicts[j]
  <2>1. Key(node[j]) < Key(node[i]) /\ Key(node[i]) \in Int /\ Key(node[j]) \in Int
    BY <1>3, NodeType DEF Sorted
  <2>2. Key(node[i]) < k
    BY <1>3
  <2>3. Key(node[j]) < k
    BY <2>1, <2>2
  <2> QED
    BY <2>3
<1>4. \A i \in 1 .. Len(node) : verdicts[i] <=> Key(node[i]) < k
  OBVIOUS
<1> HIDE DEF verdicts
<1>5. /\ PartitionPoint(verdicts) \in 0 .. Len(node)
      /\ \A i \in 1 .. Len(node) : verdicts[i] <=> i <= PartitionPoint(verdicts)
  BY <1>2, <1>3, PartitionPointIs
<1> QED
  BY <1>1, <1>4, <1>5

\* locate_node, locate_node_cmp
LEMMA LocateNodeIs ==
    ASSUME NEW t \in Trees, NEW k \in Int
    PROVE  LET n == LocateNode(t, k) IN
           /\ n \in 1 .. Len(t.inner)
           /\ \A m \in 1 .. Len(t.inner) :
                m < n => Len(t.inner[m]) # 0 /\ Key(Last(t.inner[m])) < k
           /\ n < Len(t.inner) => Len(t.inner[n]) # 0 /\ Key(Last(t.inner[n])) >= k
           /\ LocateNodeCmp(t, k) = n
<1> DEFINE L == Len(t.inner)
           verdicts == [n \in 1 .. L |-> t.inner[n] # <<>> /\ Key(Last(t.inner[n])) < k]
           before == PartitionPoint(verdicts)
           verdictsCmp == [n \in 1 .. L |-> t.inner[n] = <<>> \/ Key(Last(t.inner[n])) < k]
           beforeCmp == PartitionPoint(verdictsCmp)
<1>1. L \in Nat /\ L >= 1 /\ DOMAIN t.inner = 1 .. L
  BY TreesType
<1>2. /\ LocateNode(t, k) = Min({before + 1, L})
      /\ LocateNodeCmp(t, k) = Min({beforeCmp + 1, L})
  BY <1>1 DEF LocateNode, LocateNodeCmp
<1>3. \A n \in 1 .. L : /\ t.inner[n] \in Node /\ Sorted(t.inner[n])
                        /\ t.inner[n] = <<>> <=> Len(t.inner[n]) = 0
                        /\ Len(t.inner[n]) # 0 => Key(Last(t.inner[n])) \in Int
                        /\ L > 1 => Len(t.inner[n]) # 0
  <2>1. ASSUME NEW n \in 1 .. L PROVE t.inner[n] \in Node /\ Sorted(t.inner[n])
    BY TreesType, NodesType DEF NodesSorted
  <2>2. ASSUME NEW n \in 1 .. L
        PROVE  /\ t.inner[n] = <<>> <=> Len(t.inner[n]) = 0
               /\ Len(t.inner[n]) # 0 => Key(Last(t.inner[n])) \in Int
    BY <2>1, EmptyNode, NodeType
  <2>3. ASSUME NEW n \in 1 .. L, L > 1 PROVE Len(t.inner[n]) # 0
    BY <2>3, TreesType DEF NodesFit
  <2> QED
    BY <2>1, <2>2, <2>3
<1>4. ASSUME NEW m \in 1 .. L, NEW n \in 1 .. L, m < n
      PROVE  Key(Last(t.inner[m])) < Key(Last(t.inner[n]))
  <2>1. Len(t.inner[m]) # 0 /\ Len(t.inner[n]) # 0
    BY <1>1, <1>3, <1>4
  <2>2. Last(t.inner[m]) \in ToSet(t.inner[m]) /\ Last(t.inner[n]) \in ToSet(t.inner[n])
    BY <1>3, <2>1, EmptyNode
  <2> QED
    BY <1>4, <2>2, TreesType DEF NodesSorted, Precedes
<1>5. \A n \in 1 .. L : verdicts[n] <=> Len(t.inner[n]) # 0 /\ Key(Last(t.inner[n])) < k
  BY <1>3
<1>6. \A n \in 1 .. L : verdictsCmp[n] <=> Len(t.inner[n]) = 0 \/ Key(Last(t.inner[n])) < k
  BY <1>3
<1>7. DOMAIN verdicts = 1 .. L /\ DOMAIN verdictsCmp = 1 .. L
  OBVIOUS
<1> HIDE DEF verdicts, verdictsCmp
<1>8. before \in 0 .. L /\ \A i \in 1 .. L : verdicts[i] <=> i <= before
  <2>1. ASSUME NEW i \in 1 .. L, NEW j \in 1 .. L, j < i, verdicts[i] PROVE verdicts[j]
    <3>1. Len(t.inner[j]) # 0 /\ Len(t.inner[i]) # 0
      BY <1>1, <1>3, <2>1
    <3>2. Key(Last(t.inner[j])) < Key(Last(t.inner[i])) /\ Key(Last(t.inner[i])) < k
      BY <1>4, <1>5, <2>1
    <3>3. Key(Last(t.inner[j])) \in Int /\ Key(Last(t.inner[i])) \in Int
      BY <1>3, <3>1
    <3>4. Key(Last(t.inner[j])) < k
      BY <3>2, <3>3
    <3> QED
      BY <1>5, <3>1, <3>4
  <2> QED
    BY <1>1, <1>7, <2>1, PartitionPointIs
<1>9. beforeCmp \in 0 .. L /\ \A i \in 1 .. L : verdictsCmp[i] <=> i <= beforeCmp
  <2>1. ASSUME NEW i \in 1 .. L, NEW j \in 1 .. L, j < i, verdictsCmp[i] PROVE verdictsCmp[j]
    <3>1. Len(t.inner[j]) # 0 /\ Len(t.inner[i]) # 0
      BY <1>1, <1>3, <2>1
    <3>2. Key(Last(t.inner[j])) < Key(Last(t.inner[i])) /\ Key(Last(t.inner[i])) < k
      BY <1>4, <1>6, <2>1, <3>1
    <3>3. Key(Last(t.inner[j])) < k
      BY <1>3, <3>1, <3>2
    <3> QED
      BY <1>6, <3>3
  <2> QED
    BY <1>1, <1>7, <2>1, PartitionPointIs
<1> HIDE DEF before, beforeCmp, L
<1>10. /\ LocateNode(t, k) = IF before + 1 <= L THEN before + 1 ELSE L
       /\ LocateNodeCmp(t, k) = IF beforeCmp + 1 <= L THEN beforeCmp + 1 ELSE L
  <2>1. before + 1 \in Int /\ beforeCmp + 1 \in Int /\ L \in Int
    BY <1>1, <1>8, <1>9
  <2> QED
    BY <1>2, <2>1, MinMaxOfTwo
<1>11. LocateNodeCmp(t, k) = LocateNode(t, k)
  <2>1. CASE L = 1
    BY <1>8, <1>9, <1>10, <2>1
  <2>2. CASE L # 1
    <3>1. \A i \in 1 .. L : verdicts[i] <=> verdictsCmp[i]
      BY <1>1, <1>3, <1>5, <1>6, <2>2
    <3>2. \A i \in 1 .. L : i <= before <=> i <= beforeCmp
      BY <1>8, <1>9, <3>1
    <3>3. before = beforeCmp
      <4>1. before = 0 \/ before \in 1 .. L
        BY <1>1, <1>8
      <4>2. beforeCmp = 0 \/ beforeCmp \in 1 .. L
        BY <1>1, <1>9
      <4> QED
        BY <1>1, <1>8, <1>9, <3>2, <4>1, <4>2
    <3> QED
      BY <1>10, <3>3
  <2> QED
    BY <2>1, <2>2
<1> DEFINE n == LocateNode(t, k)
<1>12. n \in 1 .. L /\ n - 1 <= before /\ (n < L => n = before + 1)
  BY <1>1, <1>8, <1>10
<1>13. ASSUME NEW m \in 1 .. L, m < n
       PROVE  Len(t.inner[m]) # 0 /\ Key(Last(t.inner[m])) < k
  <2>1. m <= before
    BY <1>8, <1>12, <1>13
  <2> QED
    BY <1>5, <1>8, <2>1
<1>14. ASSUME n < L
       PROVE  Len(t.inner[n]) # 0 /\ Key(Last(t.inner[n])) >= k
  <2>1. ~(n <= before)
    BY <1>8, <1>12, <1>14
  <2>2. ~verdicts[n]
    BY <1>8, <1>12, <2>1
  <2>3. Len(t.inner[n]) # 0
    BY <1>1, <1>3, <1>12, <1>14
  <2> QED
    BY <1>3, <1>5, <1>12, <2>2, <2>3
<1> QED
  BY <1>11, <1>12, <1>13, <1>14 DEF L

\* locate_value, locate_value_cmp: the place of the first item that is not below k.
LEMMA LocateValueIs ==
    ASSUME NEW t \in Trees, NEW k \in Int
    PROVE  \E n \in 1 .. Len(t.inner) : \E i \in 1 .. Len(t.inner[n]) + 1 :
             /\ LocateValue(t, k) = <<n, i>> /\ LocateValueCmp(t, k) = <<n, i>>
             /\ n = LocateNode(t, k)
             /\ Divides(t.inner, n, i, k)
             /\ n < Len(t.inner) => i <= Len(t.inner[n])
<1> DEFINE n == LocateNode(t, k)
           i == ItemsBelow(t.inner[n], k) + 1
<1>1. /\ n \in 1 .. Len(t.inner) /\ LocateNodeCmp(t, k) = n
      /\ \A m \in 1 .. Len(t.inner) :
           m < n => Len(t.inner[m]) # 0 /\ Key(Last(t.inner[m])) < k
      /\ n < Len(t.inner) => Len(t.inner[n]) # 0 /\ Key(Last(t.inner[n])) >= k
  BY LocateNodeIs
<1>2. LocateValue(t, k) = <<n, i>> /\ LocateValueCmp(t, k) = <<n, i>>
  BY <1>1 DEF LocateValue, LocateValueCmp
<1> HIDE DEF n
<1>3. \A m \in 1 .. Len(t.inner) : t.inner[m] \in Node /\ Sorted(t.inner[m])
  BY TreesType, NodesType DEF NodesSorted
<1>4. /\ i \in 1 .. Len(t.inner[n]) + 1
      /\ \A j \in 1 .. Len(t.inner[n]) : Key(t.inner[n][j]) < k <=> j < i
  <2>1. Len(t.inner[n]) \in Nat
    BY <1>1, <1>3, NodeType
  <2>2. /\ ItemsBelow(t.inner[n], k) \in 0 .. Len(t.inner[n])
        /\ \A j \in 1 .. Len(t.inner[n]) :
             Key(t.inner[n][j]) < k <=> j <= ItemsBelow(t.inner[n], k)
    BY <1>1, <1>3, ItemsBelowIs
  <2> QED
    BY <2>1, <2>2
<1>5. ASSUME NEW m \in 1 .. Len(t.inner), NEW x \in ToSet(t.inner[m]), m < n
      PROVE  Key(x) < k
  <2>1. Len(t.inner[m]) # 0 /\ Key(Last(t.inner[m])) < k
    BY <1>1, <1>5
  <2>2. Key(x) <= Key(Last(t.inner[m])) /\ Last(t.inner[m]) \in ToSet(t.inner[m])
    BY <1>3, <2>1, EmptyNode
  <2>3. Key(x) \in Int /\ Key(Last(t.inner[m])) \in Int
    BY <1>3, <2>2, NodeType
  <2> QED
    BY <2>1, <2>2, <2>3
<1>6. ASSUME n < Len(t.inner)
      PROVE  Last(t.inner[n]) \in ToSet(t.inner[n]) /\ Key(Last(t.inner[n])) >= k
  BY <1>1, <1>3, <1>6, EmptyNode
<1>7. ASSUME NEW m \in 1 .. Len(t.inner), NEW x \in ToSet(t.inner[m]), m > n
      PROVE  Key(x) >= k
  <2>1. n < Len(t.inner)
    BY <1>1, <1>7, TreesType
  <2>2. Key(Last(t.inner[n])) < Key(x)
    BY <1>1, <1>6, <1>7, <2>1, TreesType DEF NodesSorted, Precedes
  <2>3. Key(x) \in Int /\ Key(Last(t.inner[n])) \in Int
    BY <1>1, <1>3, <1>6, <2>1, NodeType
  <2> QED
    BY <1>6, <2>1, <2>2, <2>3
<1>8. n < Len(t.inner) => i <= Len(t.inner[n])
  <2> SUFFICES ASSUME n < Len(t.inner) PROVE i <= Len(t.inner[n])
    OBVIOUS
  <2>1. Len(t.inner[n]) # 0 /\ Key(Last(t.inner[n])) >= k
    BY <1>1
  <2>2. Last(t.inner[n]) = t.inner[n][Len(t.inner[n])] /\ Len(t.inner[n]) \in Nat
    BY <1>1, <1>3, <2>1, EmptyNode, NodeType
  <2>3. Len(t.inner[n]) \in 1 .. Len(t.inner[n])
    BY <2>1, <2>2
  <2>4. Key(t.inner[n][Len(t.inner[n])]) \in Int
    BY <1>1, <1>3, <2>3, NodeType
  <2>5. ~(Key(t.inner[n][Len(t.inner[n])]) < k)
    BY <2>1, <2>2, <2>4
  <2>6. ~(Len(t.inner[n]) < i)
    BY <1>4, <2>3, <2>5
  <2> QED
    BY <1>4, <2>2, <2>6
<1> HIDE DEF i
<1>9. Divides(t.inner, n, i, k)
  BY <1>1, <1>4, <1>5, <1>7 DEF Divides
<1> QED
  BY <1>1, <1>2, <1>4, <1>8, <1>9 DEF n

\* A place that holds an item divides the tree by its key.
LEMMA PlaceDivides ==
    ASSUME NEW inner \in Nodes, NodesSorted(inner),
           NEW n \in 1 .. Len(inner), NEW i \in 1 .. Len(inner[n])
    PROVE  Divides(inner, n, i, Key(inner[n][i]))
<1>1. /\ inner[n] \in Node /\ Sorted(inner[n])
      /\ i \in 1 .. Len(inner[n]) + 1
      /\ inner[n][i] \in ToSet(inner[n]) /\ Key(inner[n][i]) \in Int
  BY NodesType DEF NodesSorted
<1>2. ASSUME NEW m \in 1 .. Len(inner), NEW x \in ToSet(inner[m])
      PROVE  /\ m < n => Key(x) < Key(inner[n][i])
             /\ m > n => Key(x) >= Key(inner[n][i])
  <2>1. Key(x) \in Int
    BY NodesType
  <2>2. m < n => Key(x) < Key(inner[n][i])
    BY <1>1 DEF NodesSorted, Precedes
  <2>3. m > n => Key(inner[n][i]) < Key(x)
    BY <1>1 DEF NodesSorted, Precedes
  <2> QED
    BY <1>1, <2>1, <2>2, <2>3
<1>3. \A j \in 1 .. Len(inner[n]) : Key(inner[n][j]) < Key(inner[n][i]) <=> j < i
  BY <1>1, SortedPlaces
<1> QED
  BY <1>1, <1>2, <1>3 DEF Divides

\* What is at a place that divides the tree by k: the item with key k, if there
\* is one, or the first one above it.
LEMMA ItemAtDivide ==
    ASSUME NEW t \in Trees, NEW k \in Int, NEW n, NEW i, Divides(t.inner, n, i, k),
           n < Len(t.inner) => i <= Len(t.inner[n])
    PROVE  /\ ItemAt(t, <<n, i>>) = IF i <= Len(t.inner[n]) THEN <<t.inner[n][i]>> ELSE <<>>
           /\ i <= Len(t.inner[n]) => /\ i \in 1 .. Len(t.inner[n])
                                      /\ t.inner[n][i] \in ItemSet(t.inner)
                                      /\ Key(t.inner[n][i]) >= k
           /\ \A x \in ItemSet(t.inner) :
                Key(x) = k => i <= Len(t.inner[n]) /\ t.inner[n][i] = x
<1>1. n \in 1 .. Len(t.inner) /\ i \in 1 .. Len(t.inner[n]) + 1
  BY DEF Divides
<1>2. /\ t.inner[n] \in Node /\ Sorted(t.inner[n]) /\ Len(t.inner[n]) \in Nat
      /\ DOMAIN t.inner[n] = 1 .. Len(t.inner[n]) /\ DOMAIN t.inner = 1 .. Len(t.inner)
  BY <1>1, TreesType, NodesType DEF NodesSorted
<1>3. i <= Len(t.inner[n]) <=> i \in 1 .. Len(t.inner[n])
  BY <1>1, <1>2
<1>4. ItemAt(t, <<n, i>>) = IF i <= Len(t.inner[n]) THEN <<t.inner[n][i]>> ELSE <<>>
  BY <1>1, <1>2, <1>3 DEF ItemAt, Some, None
<1>5. ASSUME i <= Len(t.inner[n])
      PROVE  t.inner[n][i] \in ItemSet(t.inner) /\ Key(t.inner[n][i]) >= k
  <2>1. ~(Key(t.inner[n][i]) < k)
    BY <1>3, <1>5 DEF Divides
  <2>2. Key(t.inner[n][i]) \in Int /\ t.inner[n][i] \in ToSet(t.inner[n])
    BY <1>2, <1>3, <1>5, NodeType
  <2>3. t.inner[n][i] \in ItemSet(t.inner)
    BY <1>1, <2>2, TreesType, NodesType
  <2> QED
    BY <2>1, <2>2, <2>3
<1>6. ASSUME NEW x \in ItemSet(t.inner), Key(x) = k
      PROVE  i <= Len(t.inner[n]) /\ t.inner[n][i] = x
  <2>1. PICK m \in 1 .. Len(t.inner) : x \in ToSet(t.inner[m])
    BY TreesType, NodesType
  <2>2. ~(m < n)
    BY <1>6, <2>1 DEF Divides
  <2>3. ~(m > n)
    <3>1. ASSUME m > n PROVE FALSE
      <4>1. i <= Len(t.inner[n])
        BY <1>1, <2>1, <3>1, TreesType
      <4>2. t.inner[n][i] \in ToSet(t.inner[n])
        BY <1>2, <1>3, <4>1, NodeType
      <4>3. Key(t.inner[n][i]) < k
        BY <1>1, <1>6, <2>1, <3>1, <4>2, TreesType DEF NodesSorted, Precedes
      <4> QED
        BY <1>3, <4>1, <4>3 DEF Divides
    <3> QED
      BY <3>1
  <2>4. m = n
    BY <1>1, <2>1, <2>2, <2>3
  <2>5. PICK j \in 1 .. Len(t.inner[n]) : x = t.inner[n][j]
    BY <1>2, <2>1, <2>4, NodeType
  <2>6. ~(j < i)
    BY <1>6, <2>5 DEF Divides
  <2>7. i \in 1 .. Len(t.inner[n])
    BY <1>1, <1>2, <2>5, <2>6
  <2>8. ~(i < j)
    <3>1. ASSUME i < j PROVE FALSE
      <4>1. Key(t.inner[n][i]) < k
        BY <1>2, <1>6, <2>5, <2>7, <3>1 DEF Sorted
      <4> QED
        BY <2>7, <4>1 DEF Divides
    <3> QED
      BY <3>1
  <2>9. i = j
    BY <2>6, <2>7, <2>8
  <2> QED
    BY <2>5, <2>7, <2>9
<1> QED
  BY <1>3, <1>4, <1>5, <1>6

\* An Option is Some or None.
LEMMA SomeIsNotNone ==
    \A x : /\ <<x>> # <<>> /\ <<x>>[1] = x
           /\ Some(x) = <<x>> /\ None = <<>>
<1>1. \A x : <<x>> # <<>>
  <2> SUFFICES ASSUME NEW x, <<x>> = <<>> PROVE FALSE
    OBVIOUS
  <2>1. <<x>> \in Seq({x}) /\ Len(<<x>>) = 1
    OBVIOUS
  <2>2. Len(<<>>) = 0
    BY EmptySeq
  <2> QED
    BY <2>1, <2>2
<1> QED
  BY <1>1 DEF Some, None

Holds(t, k) == \E x \in ItemSet(t.inner) : Key(x) = k

\* contains, contains_cmp, find_cmp and the ranks agree, and the place they go
\* by is the item's when the tree holds the key.
LEMMA FindsItem ==
    ASSUME NEW t \in Trees, NEW k \in Int
    PROVE  /\ ContainsKey(t, k) <=> Holds(t, k)
           /\ FindCmp(t, k).exists <=> Holds(t, k)
           /\ ContainsCmp(t, k) <=> Holds(t, k)
           /\ FindCmp(t, k).at = LocateValue(t, k)
           /\ LocateValueCmp(t, k) = LocateValue(t, k)
           /\ FindCmp(t, k).at[1] = LocateNode(t, k)
           /\ \A x \in ItemSet(t.inner) : Key(x) = k =>
                /\ ItemAt(t, LocateValue(t, k)) = <<x>>
                /\ \E n \in 1 .. Len(t.inner) : \E i \in 1 .. Len(t.inner[n]) :
                     LocateValue(t, k) = <<n, i>> /\ t.inner[n][i] = x
<1>1. PICK n \in 1 .. Len(t.inner) : \E i \in 1 .. Len(t.inner[n]) + 1 :
             /\ LocateValue(t, k) = <<n, i>> /\ LocateValueCmp(t, k) = <<n, i>>
             /\ n = LocateNode(t, k)
             /\ Divides(t.inner, n, i, k)
             /\ n < Len(t.inner) => i <= Len(t.inner[n])
  BY LocateValueIs
<1>2. PICK i \in 1 .. Len(t.inner[n]) + 1 :
             /\ LocateValue(t, k) = <<n, i>> /\ LocateValueCmp(t, k) = <<n, i>>
             /\ n = LocateNode(t, k)
             /\ Divides(t.inner, n, i, k)
             /\ n < Len(t.inner) => i <= Len(t.inner[n])
  BY <1>1
<1>3. /\ ItemAt(t, <<n, i>>) = IF i <= Len(t.inner[n]) THEN <<t.inner[n][i]>> ELSE <<>>
      /\ i <= Len(t.inner[n]) => /\ i \in 1 .. Len(t.inner[n])
                                 /\ t.inner[n][i] \in ItemSet(t.inner)
                                 /\ Key(t.inner[n][i]) >= k
      /\ \A x \in ItemSet(t.inner) :
           Key(x) = k => i <= Len(t.inner[n]) /\ t.inner[n][i] = x
  BY <1>2, ItemAtDivide
<1> DEFINE found == ItemAt(t, <<n, i>>)
<1>4. found # <<>> <=> i <= Len(t.inner[n])
  BY <1>3, SomeIsNotNone
<1>5. (found # None /\ Key(found[1]) = k) <=> Holds(t, k)
  BY <1>3, <1>4 DEF Holds, None
<1>6. ContainsKey(t, k) <=> Holds(t, k)
  BY <1>2, <1>5 DEF ContainsKey
<1>7. FindCmp(t, k) = [exists |-> found # None /\ Key(found[1]) = k, at |-> <<n, i>>]
  BY <1>2 DEF FindCmp
<1>8. FindCmp(t, k).exists <=> Holds(t, k)
  <2>1. FindCmp(t, k).exists = (found # None /\ Key(found[1]) = k)
    BY <1>7
  <2> QED
    BY <1>5, <2>1, Zenon
<1>9. FindCmp(t, k).at = <<n, i>>
  BY <1>7
<1>10. ASSUME NEW x \in ItemSet(t.inner), Key(x) = k
       PROVE  /\ ItemAt(t, LocateValue(t, k)) = <<x>>
              /\ \E m \in 1 .. Len(t.inner) : \E j \in 1 .. Len(t.inner[m]) :
                   LocateValue(t, k) = <<m, j>> /\ t.inner[m][j] = x
  BY <1>2, <1>3, <1>10
<1> QED
  BY <1>2, <1>6, <1>8, <1>9, <1>10 DEF ContainsCmp

\* rank, rank_cmp
LEMMA RanksAre ==
    ASSUME NEW t \in Trees, NEW k \in Int
    PROVE  /\ TreeRank(t, k) = RankIn(ItemSet(t.inner), k)
           /\ RankCmp(t, k) = RankIn(ItemSet(t.inner), k)
<1>1. PICK n \in 1 .. Len(t.inner) : \E i \in 1 .. Len(t.inner[n]) + 1 :
             /\ LocateValue(t, k) = <<n, i>> /\ LocateValueCmp(t, k) = <<n, i>>
             /\ Divides(t.inner, n, i, k)
  BY LocateValueIs
<1>2. PICK i \in 1 .. Len(t.inner[n]) + 1 :
             /\ LocateValue(t, k) = <<n, i>> /\ LocateValueCmp(t, k) = <<n, i>>
             /\ Divides(t.inner, n, i, k)
  BY <1>1
<1>3. RankIn(ItemSet(t.inner), k) = Sums(Lengths(t.inner))[n - 1] + i - 1
  BY <1>2, TreesType, RankOfPlace
<1> QED
  BY <1>2, <1>3, TreesType DEF TreeRank, RankCmp, RankOf, PrefixSum

\* The prefix sums grow, strictly but in an empty tree, up to len.
LEMMA SumsGrow ==
    ASSUME NEW t \in Trees
    PROVE  /\ \A n \in 0 .. Len(t.inner) : PrefixSum(t, n) \in Nat
           /\ PrefixSum(t, 0) = 0
           /\ \A n \in 1 .. Len(t.inner) : PrefixSum(t, n) = PrefixSum(t, n - 1) + Len(t.inner[n])
           /\ PrefixSum(t, Len(t.inner)) = t.len
           /\ \A m, n \in 0 .. Len(t.inner) : m <= n => PrefixSum(t, m) <= PrefixSum(t, n)
           /\ \A n \in 1 .. Len(t.inner) : Len(t.inner) > 1 => Len(t.inner[n]) > 0
<1>1. /\ \A n \in 0 .. Len(t.inner) : PrefixSum(t, n) \in Nat
      /\ PrefixSum(t, 0) = 0
      /\ \A n \in 1 .. Len(t.inner) : PrefixSum(t, n) = PrefixSum(t, n - 1) + Len(t.inner[n])
  BY TreesType, SumsType DEF PrefixSum
<1>2. /\ \A n \in 0 .. Len(t.inner) :
           /\ IsFiniteSet(FirstItems(t.inner, n))
           /\ Cardinality(FirstItems(t.inner, n)) = PrefixSum(t, n)
  BY TreesType, CountFirst DEF PrefixSum
<1>3. PrefixSum(t, Len(t.inner)) = t.len
  <2>1. Len(t.inner) \in 0 .. Len(t.inner)
    BY TreesType
  <2> QED
    BY <1>2, <2>1, TreesType DEF ItemSet
<1>4. ASSUME NEW m \in 0 .. Len(t.inner), NEW n \in 0 .. Len(t.inner), m <= n
      PROVE  PrefixSum(t, m) <= PrefixSum(t, n)
  <2>1. 1 .. m \subseteq 1 .. n
    BY <1>4
  <2>2. FirstItems(t.inner, m) \subseteq FirstItems(t.inner, n)
    BY <2>1 DEF FirstItems
  <2> QED
    BY <1>2, <2>2, FS_Subset
<1>5. ASSUME NEW n \in 1 .. Len(t.inner), Len(t.inner) > 1 PROVE Len(t.inner[n]) > 0
  BY <1>5, TreesType, NodesType DEF NodesFit
<1> QED
  BY <1>1, <1>3, <1>4, <1>5

\* locate_ith: the place with as many items before it.
LEMMA LocateIthIs ==
    ASSUME NEW t \in Trees, NEW idx \in Nat
    PROVE  /\ idx < t.len =>
                \E n \in 1 .. Len(t.inner) : \E i \in 1 .. Len(t.inner[n]) :
                  LocateIth(t, idx) = <<n, i>> /\ PrefixSum(t, n - 1) + i - 1 = idx
           /\ idx >= t.len => ItemAt(t, LocateIth(t, idx)) = <<>>
<1> DEFINE L == Len(t.inner)
           P == {0} \cup {n \in DOMAIN t.index : PrefixSum(t, n) < idx}
           n == Max(P)
           place == idx - PrefixSum(t, n)
<1>1. L \in Nat /\ L >= 1 /\ DOMAIN t.inner = 1 .. L
  BY TreesType
<1>2. DOMAIN t.index = 1 .. L
  <2>1. t.index = Lengths(t.inner) /\ Len(Lengths(t.inner)) = L /\ Lengths(t.inner) \in Seq(Nat)
    BY TreesType, LengthsType
  <2> QED
    BY <2>1, LenProperties
<1>3. /\ n \in P /\ \A m \in P : m <= n
  <2>1. P \subseteq 0 .. L /\ P \subseteq Int /\ P # {}
    BY <1>1, <1>2
  <2>2. IsFiniteSet(P)
    <3>1. IsFiniteSet(0 .. L)
      BY <1>1, FS_Interval
    <3> QED
      BY <2>1, <3>1, FS_Subset
  <2> HIDE DEF P
  <2>3. PICK m \in P : \A y \in P : m >= y
    BY <2>1, <2>2, MaxExists
  <2>4. n = m
    <3>1. \A x \in P : (\A y \in P : x >= y) => x = m
      BY <2>1, <2>3
    <3> QED
      BY <2>3, <3>1 DEF Max
  <2> QED
    BY <2>1, <2>3, <2>4
<1>4. LocateIth(t, idx) = IF n < L /\ place = Len(t.inner[n + 1])
                          THEN <<n + 2, 1>> ELSE <<n + 1, place + 1>>
  BY DEF LocateIth, IndexOf
<1>5. /\ \A m \in 0 .. L : PrefixSum(t, m) \in Nat
      /\ PrefixSum(t, 0) = 0 /\ PrefixSum(t, L) = t.len
      /\ \A m \in 1 .. L : PrefixSum(t, m) = PrefixSum(t, m - 1) + Len(t.inner[m])
      /\ \A m \in 1 .. L : Len(t.inner[m]) \in Nat
      /\ \A m \in 1 .. L : L > 1 => Len(t.inner[m]) > 0
  BY SumsGrow, TreesType, NodesType
<1>6. n \in 0 .. L /\ PrefixSum(t, n) <= idx
  BY <1>1, <1>2, <1>3, <1>5
<1>7. \A m \in 1 .. L : m > n => PrefixSum(t, m) >= idx
  <2> SUFFICES ASSUME NEW m \in 1 .. L, m > n, ~(PrefixSum(t, m) >= idx) PROVE FALSE
    OBVIOUS
  <2>1. PrefixSum(t, m) < idx
    BY <1>5
  <2>2. m \in P
    BY <1>2, <2>1
  <2> QED
    BY <1>3, <1>6, <2>2
<1> HIDE DEF n, P, L
<1>8. n < L => n + 1 \in 1 .. L /\ PrefixSum(t, n + 1) = PrefixSum(t, n) + Len(t.inner[n + 1])
  <2> SUFFICES ASSUME n < L
               PROVE  /\ n + 1 \in 1 .. L
                      /\ PrefixSum(t, n + 1) = PrefixSum(t, n) + Len(t.inner[n + 1])
    OBVIOUS
  <2>1. n + 1 \in 1 .. L /\ (n + 1) - 1 = n
    BY <1>1, <1>6
  <2>2. PrefixSum(t, n + 1) = PrefixSum(t, (n + 1) - 1) + Len(t.inner[n + 1])
    BY <1>5, <2>1
  <2> QED
    BY <2>1, <2>2
<1>9. place \in Nat /\ (n < L => place <= Len(t.inner[n + 1]))
  <2>1. PrefixSum(t, n) \in Nat
    BY <1>5, <1>6
  <2>2. ASSUME n < L PROVE place <= Len(t.inner[n + 1])
    <3>1. PrefixSum(t, n + 1) >= idx
      <4>1. n + 1 \in 1 .. L /\ n + 1 > n
        BY <1>6, <1>8, <2>2
      <4> QED
        BY <1>7, <4>1
    <3>2. Len(t.inner[n + 1]) \in Nat
      BY <1>5, <1>8, <2>2
    <3> QED
      BY <1>8, <2>1, <2>2, <3>1, <3>2
  <2> QED
    BY <1>6, <2>1, <2>2
<1>10. ASSUME idx < t.len
       PROVE  \E m \in 1 .. L : \E i \in 1 .. Len(t.inner[m]) :
                LocateIth(t, idx) = <<m, i>> /\ PrefixSum(t, m - 1) + i - 1 = idx
  <2>1. n < L
    <3>1. n # L
      BY <1>5, <1>6, <1>10, TreesType
    <3> QED
      BY <1>1, <1>6, <3>1
  <2>2. CASE place = Len(t.inner[n + 1])
    <3>1. PrefixSum(t, n + 1) = idx
      BY <1>5, <1>6, <1>8, <2>1, <2>2
    <3>2. n + 1 # L
      BY <1>5, <1>10, <3>1, TreesType
    <3>3. n + 2 \in 1 .. L /\ (n + 2) - 1 = n + 1 /\ L > 1
      BY <1>1, <1>6, <2>1, <3>2
    <3>4. Len(t.inner[n + 2]) > 0 /\ Len(t.inner[n + 2]) \in Nat
      BY <1>5, <3>3
    <3>5. LocateIth(t, idx) = <<n + 2, 1>>
      BY <1>4, <2>1, <2>2
    <3>6. 1 \in 1 .. Len(t.inner[n + 2])
      BY <3>4
    <3>7. PrefixSum(t, (n + 2) - 1) + 1 - 1 = idx
      BY <3>1, <3>3
    <3> QED
      BY <3>3, <3>5, <3>6, <3>7
  <2>3. CASE place # Len(t.inner[n + 1])
    <3>1. LocateIth(t, idx) = <<n + 1, place + 1>>
      BY <1>4, <2>3
    <3>2. n + 1 \in 1 .. L /\ (n + 1) - 1 = n
      BY <1>6, <1>8, <2>1
    <3>3. place + 1 \in 1 .. Len(t.inner[n + 1])
      BY <1>5, <1>9, <2>1, <2>3, <3>2
    <3>4. PrefixSum(t, (n + 1) - 1) + (place + 1) - 1 = idx
      BY <1>5, <1>6, <3>2
    <3> QED
      BY <3>1, <3>2, <3>3, <3>4
  <2> QED
    BY <2>2, <2>3
<1>11. ASSUME idx >= t.len
       PROVE  ItemAt(t, LocateIth(t, idx)) = <<>>
  <2>1. CASE n = L
    <3>1. LocateIth(t, idx) = <<n + 1, place + 1>> /\ n + 1 \notin 1 .. L
      BY <1>1, <1>4, <2>1
    <3> QED
      BY <1>1, <3>1 DEF ItemAt, None
  <2>2. CASE n # L
    <3>1. n < L
      BY <1>1, <1>6, <2>2
    <3>2. PrefixSum(t, n + 1) <= t.len /\ PrefixSum(t, n + 1) >= idx
      <4>1. n + 1 \in 1 .. L /\ n + 1 > n /\ n + 1 \in 0 .. L /\ L \in 0 .. L /\ n + 1 <= L
        BY <1>1, <1>6, <1>8, <3>1
      <4>2. PrefixSum(t, n + 1) <= PrefixSum(t, L)
        BY <4>1, SumsGrow DEF L
      <4> QED
        BY <1>5, <1>7, <4>1, <4>2
    <3>3. PrefixSum(t, n + 1) = idx /\ t.len = idx
      <4>1. PrefixSum(t, n + 1) \in Nat /\ t.len \in Nat
        BY <1>5, <1>8, <3>1, TreesType
      <4> QED
        BY <1>11, <3>2, <4>1
    <3>4. place = Len(t.inner[n + 1])
      <4>1. PrefixSum(t, n) \in Nat /\ Len(t.inner[n + 1]) \in Nat
        BY <1>5, <1>6, <1>8, <3>1
      <4> QED
        BY <1>8, <3>1, <3>3, <4>1
    <3>5. n + 1 = L
      <4> SUFFICES ASSUME n + 1 # L PROVE FALSE
        OBVIOUS
      <4>1. /\ n + 2 \in 1 .. L /\ (n + 2) - 1 = n + 1 /\ L > 1
            /\ n + 2 \in 0 .. L /\ L \in 0 .. L /\ n + 2 <= L
        BY <1>1, <1>6, <3>1
      <4>2. Len(t.inner[n + 2]) > 0 /\ Len(t.inner[n + 2]) \in Nat
        BY <1>5, <4>1
      <4>3. PrefixSum(t, n + 2) = PrefixSum(t, (n + 2) - 1) + Len(t.inner[n + 2])
        BY <1>5, <4>1
      <4>4. PrefixSum(t, n + 2) <= PrefixSum(t, L)
        BY <4>1, SumsGrow DEF L
      <4> QED
        BY <1>5, <3>3, <4>1, <4>2, <4>3, <4>4
    <3>6. LocateIth(t, idx) = <<n + 2, 1>>
      BY <1>4, <3>1, <3>4
    <3>7. n + 2 \notin 1 .. L
      BY <1>1, <1>6, <3>5
    <3> QED
      BY <1>1, <3>6, <3>7 DEF ItemAt, None
  <2> QED
    BY <2>1, <2>2
<1> QED
  BY <1>10, <1>11 DEF L

\* Ranks tell items apart that differ in their keys.
LEMMA RanksApart ==
    ASSUME NEW S \in SUBSET Item, IsFiniteSet(S), NEW x \in S, NEW k \in Int
    PROVE  /\ RankIn(S, k) \in Nat /\ RankIn(S, k) <= Cardinality(S)
           /\ Cardinality(S) \in Nat
           /\ Key(x) < k => RankIn(S, Key(x)) < RankIn(S, k)
           /\ RankIn(S, Key(x)) < Cardinality(S)
<1> DEFINE A == {y \in S : Key(y) < Key(x)}
           B == {y \in S : Key(y) < k}
<1>1. Key(x) \in Int /\ \A y \in S : Key(y) \in Int
  BY KeyType
<1>2. /\ IsFiniteSet(A) /\ Cardinality(A) <= Cardinality(S)
      /\ (Cardinality(S) = Cardinality(A) => S = A)
      /\ IsFiniteSet(B) /\ Cardinality(B) <= Cardinality(S)
  BY FS_Subset
<1>3. Cardinality(A) \in Nat /\ Cardinality(B) \in Nat /\ Cardinality(S) \in Nat
  BY <1>2, FS_CardinalityType
<1>4. x \notin A
  BY <1>1
<1>5. ASSUME Key(x) < k PROVE Cardinality(A) < Cardinality(B)
  <2>1. A \subseteq B /\ x \in B
    BY <1>1, <1>5
  <2>2. Cardinality(A) <= Cardinality(B) /\ Cardinality(B) # Cardinality(A)
    BY <1>2, <1>4, <2>1, FS_Subset
  <2> QED
    BY <1>3, <2>2
<1>6. Cardinality(A) < Cardinality(S)
  BY <1>2, <1>3, <1>4
<1> QED
  BY <1>2, <1>3, <1>5, <1>6 DEF RankIn

\* In a tree that is sorted across its nodes, a rank is of one item only.
LEMMA SameRankSameItem ==
    ASSUME NEW inner \in Nodes, NodesSorted(inner),
           NEW x \in ItemSet(inner), NEW y \in ItemSet(inner),
           RankIn(ItemSet(inner), Key(x)) = RankIn(ItemSet(inner), Key(y))
    PROVE  x = y
<1> DEFINE S == ItemSet(inner)
<1>1. S \in SUBSET Item /\ IsFiniteSet(S)
  BY ItemSetFinite
<1>2. Key(x) \in Int /\ Key(y) \in Int
  BY <1>1, KeyType
<1> HIDE DEF S
<1>3. x \in S /\ y \in S /\ RankIn(S, Key(x)) = RankIn(S, Key(y))
  BY DEF S
<1>4. /\ Key(x) < Key(y) => RankIn(S, Key(x)) < RankIn(S, Key(y))
      /\ Key(y) < Key(x) => RankIn(S, Key(y)) < RankIn(S, Key(x))
      /\ RankIn(S, Key(x)) \in Nat
  BY <1>1, <1>2, <1>3, RanksApart
<1>5. Key(x) = Key(y)
  BY <1>2, <1>3, <1>4
<1> QED
  BY <1>5, OneItemPerKey

\* get_index: the item with as many below it.
LEMMA GetIndexIs ==
    ASSUME NEW t \in Trees, NEW idx \in Nat
    PROVE  /\ idx < t.len =>
                \E n \in 1 .. Len(t.inner) : \E i \in 1 .. Len(t.inner[n]) :
                  /\ LocateIth(t, idx) = <<n, i>>
                  /\ GetIndex(t, idx) = <<t.inner[n][i]>>
                  /\ t.inner[n][i] \in ItemSet(t.inner)
                  /\ RankIn(ItemSet(t.inner), Key(t.inner[n][i])) = idx
           /\ idx >= t.len => GetIndex(t, idx) = <<>>
<1>1. ASSUME idx < t.len
      PROVE  \E n \in 1 .. Len(t.inner) : \E i \in 1 .. Len(t.inner[n]) :
               /\ LocateIth(t, idx) = <<n, i>>
               /\ GetIndex(t, idx) = <<t.inner[n][i]>>
               /\ t.inner[n][i] \in ItemSet(t.inner)
               /\ RankIn(ItemSet(t.inner), Key(t.inner[n][i])) = idx
  <2>1. PICK n \in 1 .. Len(t.inner) : \E i \in 1 .. Len(t.inner[n]) :
          LocateIth(t, idx) = <<n, i>> /\ PrefixSum(t, n - 1) + i - 1 = idx
    BY <1>1, LocateIthIs
  <2>2. PICK i \in 1 .. Len(t.inner[n]) :
          LocateIth(t, idx) = <<n, i>> /\ PrefixSum(t, n - 1) + i - 1 = idx
    BY <2>1
  <2>3. /\ Key(t.inner[n][i]) \in Int
        /\ t.inner[n][i] \in ToSet(t.inner[n])
        /\ DOMAIN t.inner = 1 .. Len(t.inner)
        /\ DOMAIN t.inner[n] = 1 .. Len(t.inner[n])
    BY TreesType, NodesType
  <2>4. GetIndex(t, idx) = <<t.inner[n][i]>>
    BY <2>2, <2>3 DEF GetIndex, ItemAt, Some
  <2>5. Divides(t.inner, n, i, Key(t.inner[n][i]))
    BY TreesType, PlaceDivides
  <2>6. RankIn(ItemSet(t.inner), Key(t.inner[n][i])) = Sums(Lengths(t.inner))[n - 1] + i - 1
    BY <2>3, <2>5, TreesType, RankOfPlace
  <2>7. RankIn(ItemSet(t.inner), Key(t.inner[n][i])) = idx
    BY <2>2, <2>6, TreesType DEF PrefixSum
  <2>8. t.inner[n][i] \in ItemSet(t.inner)
    BY <2>3, TreesType, NodesType
  <2> QED
    BY <2>2, <2>4, <2>7, <2>8
<1>2. idx >= t.len => GetIndex(t, idx) = <<>>
  BY LocateIthIs DEF GetIndex
<1> QED
  BY <1>1, <1>2

-----------------------------------------------------------------------------
(* The items of a tree in order *)

\* A node and one behind it, put together.
LEMMA ConcatNode ==
    ASSUME NEW a \in Node, NEW b \in Node, Sorted(a), Sorted(b), Precedes(a, b)
    PROVE  /\ a \o b \in Node /\ Sorted(a \o b)
           /\ ToSet(a \o b) = ToSet(a) \cup ToSet(b)
<1> DEFINE c == a \o b
<1>1. Len(a) \in Nat /\ Len(b) \in Nat
  BY NodeType
<1>2. /\ c \in Node /\ Len(c) = Len(a) + Len(b)
      /\ \A i \in 1 .. Len(a) + Len(b) : c[i] = IF i <= Len(a) THEN a[i] ELSE b[i - Len(a)]
  BY ConcatProperties DEF Node
<1> HIDE DEF c
<1>3. ASSUME NEW i \in 1 .. Len(c)
      PROVE  /\ i <= Len(a) => i \in 1 .. Len(a) /\ c[i] = a[i] /\ c[i] \in ToSet(a)
             /\ ~(i <= Len(a)) => /\ i - Len(a) \in 1 .. Len(b)
                                  /\ c[i] = b[i - Len(a)] /\ c[i] \in ToSet(b)
  <2>1. i <= Len(a) => i \in 1 .. Len(a) /\ c[i] = a[i]
    BY <1>1, <1>2
  <2>2. ~(i <= Len(a)) => i - Len(a) \in 1 .. Len(b) /\ c[i] = b[i - Len(a)]
    BY <1>1, <1>2
  <2> QED
    BY <2>1, <2>2, NodeType
<1>4. Sorted(c)
  <2> SUFFICES ASSUME NEW i \in 1 .. Len(c), NEW j \in 1 .. Len(c), i < j
               PROVE  Key(c[i]) < Key(c[j])
    BY DEF Sorted
  <2>1. CASE j <= Len(a)
    <3>1. i <= Len(a)
      BY <1>1, <2>1
    <3> QED
      BY <1>3, <2>1, <3>1 DEF Sorted
  <2>2. CASE i <= Len(a) /\ ~(j <= Len(a))
    BY <1>3, <2>2 DEF Precedes
  <2>3. CASE ~(i <= Len(a)) /\ ~(j <= Len(a))
    <3>1. i - Len(a) < j - Len(a)
      BY <1>1
    <3> QED
      BY <1>3, <2>3, <3>1 DEF Sorted
  <2> QED
    BY <2>1, <2>2, <2>3
<1>5. ToSet(c) = ToSet(a) \cup ToSet(b)
  <2>1. ASSUME NEW x \in ToSet(c) PROVE x \in ToSet(a) \cup ToSet(b)
    <3>1. PICK i \in 1 .. Len(c) : x = c[i]
      BY <1>2, NodeType
    <3> QED
      BY <1>3, <3>1
  <2>2. ASSUME NEW x \in ToSet(a) PROVE x \in ToSet(c)
    <3>1. PICK i \in 1 .. Len(a) : x = a[i]
      BY NodeType
    <3>2. i \in 1 .. Len(c) /\ i <= Len(a)
      BY <1>1, <1>2
    <3> QED
      BY <1>2, <1>3, <3>1, <3>2, NodeType
  <2>3. ASSUME NEW x \in ToSet(b) PROVE x \in ToSet(c)
    <3>1. PICK j \in 1 .. Len(b) : x = b[j]
      BY NodeType
    <3> DEFINE i == j + Len(a)
    <3>2. i \in 1 .. Len(c) /\ ~(i <= Len(a)) /\ i - Len(a) = j
      BY <1>1, <1>2
    <3> HIDE DEF i
    <3>3. c[i] = x /\ c[i] \in ToSet(c)
      BY <1>2, <1>3, <3>1, <3>2, NodeType
    <3> QED
      BY <3>3
  <2> QED
    BY <2>1, <2>2, <2>3
<1> QED
  BY <1>2, <1>4, <1>5 DEF c

\* The node of an empty tree.
LEMMA EmptyNodeType == <<>> \in Node /\ Sorted(<<>>) /\ ToSet(<<>>) = {} /\ Len(<<>>) = 0
<1>1. <<>> \in Node /\ Len(<<>>) = 0
  BY EmptySeq DEF Node
<1>2. 1 .. Len(<<>>) = {}
  BY <1>1
<1>3. Sorted(<<>>)
  BY <1>2 DEF Sorted
<1>4. \A x : x \notin ToSet(<<>>)
  BY <1>1, <1>2, NodeType
<1> QED
  BY <1>1, <1>3, <1>4

\* Items: its nodes one after the other are sorted.
LEMMA ItemsAre ==
    ASSUME NEW inner \in Nodes, NodesSorted(inner), Len(inner) >= 1
    PROVE  /\ FlattenSeq(inner) \in Node
           /\ Sorted(FlattenSeq(inner))
           /\ ToSet(FlattenSeq(inner)) = ItemSet(inner)
           /\ Len(FlattenSeq(inner)) = Cardinality(ItemSet(inner))
<1> DEFINE L == Len(inner)
           F(f) == [i \in 1 .. L |-> IF i = 1 THEN inner[i] ELSE f[i - 1] \o inner[i]]
           flat == CHOOSE f : f = F(f)
           s == [p \in (1 .. L) \X Node |-> p[2] \o inner[p[1]]]
           none == <<>>
<1>1. L \in Nat /\ L >= 1 /\ \A n \in 1 .. L : inner[n] \in Node /\ Sorted(inner[n])
  BY NodesType DEF NodesSorted
<1>2. FlattenSeq(inner) = flat[L]
  BY <1>1 DEF FlattenSeq
<1> HIDE DEF L
<1>3. \A a, b \in Node : a \o b \in Node
  BY ConcatProperties DEF Node
<1>4. s \in [(1 .. L) \X Node -> Node]
  BY <1>1, <1>3
<1>5. \A n \in 1 .. L : \A v \in Node : s[<<n, v>>] = v \o inner[n]
  OBVIOUS
<1>6. CanIterate(L, Node, none, s)
  <2>1. none \in Node
    BY EmptyNodeType
  <2> HIDE DEF s, none
  <2> QED
    BY <1>1, <1>4, <2>1, IteratedIsDefined
<1>7. PICK g \in [0 .. L -> Node] : g[0] = none /\ \A n \in 1 .. L : g[n] = s[<<n, g[n - 1]>>]
  BY <1>6 DEF CanIterate
<1> DEFINE h == [i \in 1 .. L |-> g[i]]
<1>8. h = F(h)
  <2>1. ASSUME NEW i \in 1 .. L PROVE h[i] = F(h)[i]
    <3>1. i - 1 \in 0 .. L /\ g[i - 1] \in Node /\ g[i] = g[i - 1] \o inner[i]
      BY <1>1, <1>5, <1>7
    <3>2. CASE i = 1
      <4>1. <<>> \o inner[i] = inner[i]
        BY <1>1, ConcatEmptySeq DEF Node
      <4>2. i - 1 = 0
        BY <3>2
      <4>3. g[i - 1] = <<>>
        BY <1>7, <4>2
      <4>4. g[i] = inner[i]
        BY <3>1, <4>1, <4>3
      <4> QED
        BY <3>2, <4>4
    <3>3. CASE i # 1
      <4>1. i - 1 \in 1 .. L
        BY <1>1, <3>3
      <4>2. h[i - 1] = g[i - 1] /\ h[i] = g[i]
        BY <4>1
      <4> QED
        BY <3>1, <3>3, <4>2
    <3> QED
      BY <3>2, <3>3
  <2> QED
    BY <2>1
<1>9. flat = F(flat)
  BY <1>8
<1> HIDE DEF flat
<1>10. /\ flat[1] = inner[1]
       /\ \A n \in 1 .. L : n # 1 => flat[n] = flat[n - 1] \o inner[n]
  <2>1. \A n \in 1 .. L : flat[n] = IF n = 1 THEN inner[n] ELSE flat[n - 1] \o inner[n]
    BY <1>9
  <2>2. flat[1] = inner[1]
    <3>1. 1 \in 1 .. L
      BY <1>1
    <3> QED
      BY <2>1, <3>1
  <2>3. \A n \in 1 .. L : n # 1 => flat[n] = flat[n - 1] \o inner[n]
    BY <2>1
  <2> QED
    BY <2>2, <2>3
<1> DEFINE Good(n) == /\ flat[n] \in Node /\ Sorted(flat[n])
                      /\ ToSet(flat[n]) = FirstItems(inner, n)
           Bad == {n \in 1 .. L : ~Good(n)}
<1>11. ASSUME NEW n \in Bad PROVE \E m \in Bad : m < n
  <2>1. n \in 1 .. L /\ ~Good(n)
    OBVIOUS
  <2>2. n # 1
    <3>1. FirstItems(inner, 1) = ToSet(inner[1])
      BY <1>1, NodeType DEF FirstItems
    <3> QED
      BY <1>1, <1>10, <2>1, <3>1
  <2>3. n - 1 \in 1 .. L /\ n - 1 < n
    BY <1>1, <2>1, <2>2
  <2> SUFFICES ASSUME Good(n - 1) PROVE Good(n)
    BY <2>1, <2>3
  <2>4. Precedes(flat[n - 1], inner[n])
    <3>1. \A m \in 1 .. n - 1 : m \in 1 .. L /\ m < n
      BY <1>1, <2>1
    <3> QED
      BY <2>1, <3>1 DEF FirstItems, NodesSorted, Precedes, L
  <2>5. /\ flat[n] \in Node /\ Sorted(flat[n])
        /\ ToSet(flat[n]) = ToSet(flat[n - 1]) \cup ToSet(inner[n])
    BY <1>1, <1>10, <2>1, <2>2, <2>4, ConcatNode
  <2>6. FirstItems(inner, n) = FirstItems(inner, n - 1) \cup ToSet(inner[n])
    <3>1. \A l : l \in 1 .. n <=> l \in 1 .. n - 1 \/ l = n
      BY <2>1
    <3>2. ToSet(inner[n]) \subseteq Item
      BY <1>1, <2>1, NodeType
    <3> QED
      BY <3>1, <3>2 DEF FirstItems
  <2> QED
    BY <2>5, <2>6
<1>12. Bad = {}
  <2>1. Bad \subseteq Nat
    BY <1>1
  <2> HIDE DEF Bad
  <2> QED
    BY <1>11, <2>1, NoLeastNone
<1>13. Good(L)
  <2>1. L \notin Bad
    BY <1>12, Zenon
  <2> QED
    BY <1>1, <2>1
<1>14. Len(flat[L]) = Cardinality(ToSet(flat[L]))
  BY <1>13, NodeCount
<1> QED
  BY <1>2, <1>13, <1>14 DEF ItemSet, L

-----------------------------------------------------------------------------
(***************************************************************************)
(* What the operations that change a tree leave of it.                     *)
(***************************************************************************)

(* The vector of nodes: one replaced, put in, or taken out *)

\* Two functions that differ in one place.
LEMMA OnePlaceDiffers ==
    ASSUME NEW L, NEW f, f = [m \in L |-> f[m]], NEW g, g = [m \in L |-> g[m]],
           NEW n \in L, \A m \in L : m # n => g[m] = f[m]
    PROVE  [f EXCEPT ![n] = g[n]] = g
<1>1. [f EXCEPT ![n] = g[n]] = [m \in L |-> IF m = n THEN g[n] ELSE f[m]]
  OBVIOUS
<1>2. \A m \in L : g[m] = IF m = n THEN g[n] ELSE f[m]
  OBVIOUS
<1>3. g = [m \in L |-> IF m = n THEN g[n] ELSE f[m]]
  BY <1>2
<1> QED
  BY <1>1, <1>3

\* The lengths, when one node of the vector has changed.
LEMMA LengthsDiffer ==
    ASSUME NEW inner \in Nodes, NEW r \in Nodes, Len(r) = Len(inner), NEW n \in 1 .. Len(inner),
           \A m \in 1 .. Len(inner) : m # n => r[m] = inner[m]
    PROVE  [Lengths(inner) EXCEPT ![n] = Len(r[n])] = Lengths(r)
<1> DEFINE L == 1 .. Len(inner)
           f == [m \in L |-> Len(inner[m])]
           g == [m \in L |-> Len(r[m])]
<1>1. f = Lengths(inner) /\ g = Lengths(r)
  BY NodesType DEF Lengths
<1>2. n \in L /\ g[n] = Len(r[n]) /\ \A m \in L : m # n => g[m] = f[m]
  OBVIOUS
<1>3. f = [m \in L |-> f[m]] /\ g = [m \in L |-> g[m]]
  OBVIOUS
<1> HIDE DEF f, g, L
<1>4. [f EXCEPT ![n] = g[n]] = g
  BY <1>2, <1>3, OnePlaceDiffers
<1> QED
  BY <1>1, <1>2, <1>4

Replaced(inner, n, node, r) ==
    /\ r \in Nodes /\ Len(r) = Len(inner) /\ NodesSorted(r)
    /\ \A m \in 1 .. Len(inner) : r[m] = IF m = n THEN node ELSE inner[m]
    /\ ItemSet(r) = (ItemSet(inner) \ ToSet(inner[n])) \cup ToSet(node)

\* A node is changed in place: what it holds stays between its neighbours.
LEMMA NodeReplaced ==
    ASSUME NEW inner \in Nodes, NodesSorted(inner), NEW n \in 1 .. Len(inner),
           NEW node \in Node, Sorted(node),
           \A m \in 1 .. Len(inner) : /\ m < n => Precedes(inner[m], node)
                                      /\ m > n => Precedes(node, inner[m])
    PROVE  Replaced(inner, n, node, [inner EXCEPT ![n] = node])
<1> DEFINE r == [inner EXCEPT ![n] = node]
<1>1. /\ r \in Nodes /\ Len(r) = Len(inner)
      /\ \A m \in 1 .. Len(inner) : r[m] = IF m = n THEN node ELSE inner[m]
  BY ExceptSeq DEF Nodes
<1> HIDE DEF r
<1>2. NodesSorted(r)
  <2>1. ASSUME NEW m \in 1 .. Len(r) PROVE Sorted(r[m])
    BY <1>1 DEF NodesSorted
  <2>2. ASSUME NEW l \in 1 .. Len(r), NEW m \in 1 .. Len(r), l < m
        PROVE  Precedes(r[l], r[m])
    <3>1. CASE l = n
      BY <1>1, <2>2, <3>1
    <3>2. CASE m = n
      BY <1>1, <2>2, <3>2
    <3>3. CASE l # n /\ m # n
      BY <1>1, <2>2, <3>3 DEF NodesSorted
    <3> QED
      BY <3>1, <3>2, <3>3
  <2> QED
    BY <2>1, <2>2 DEF NodesSorted
<1>3. ASSUME NEW x
      PROVE  x \in ItemSet(r) <=> x \in (ItemSet(inner) \ ToSet(inner[n])) \cup ToSet(node)
  <2>1. x \in ItemSet(r) <=> \E m \in 1 .. Len(inner) : x \in ToSet(r[m])
    BY <1>1, NodesType
  <2>2. x \in ItemSet(inner) <=> \E m \in 1 .. Len(inner) : x \in ToSet(inner[m])
    BY NodesType
  <2>3. ASSUME NEW m \in 1 .. Len(inner), m # n, x \in ToSet(inner[m])
        PROVE  x \notin ToSet(inner[n])
    <3> SUFFICES ASSUME x \in ToSet(inner[n]) PROVE FALSE
      OBVIOUS
    <3>1. m < n \/ n < m
      BY <2>3, NodesType
    <3>2. Key(x) < Key(x)
      BY <2>3, <3>1 DEF NodesSorted, Precedes
    <3>3. Key(x) \in Int
      BY <2>3, NodesType
    <3> QED
      BY <3>2, <3>3
  <2>4. x \in ToSet(node) => x \in ItemSet(r)
    BY <1>1, <2>1
  <2>5. x \in ItemSet(inner) \ ToSet(inner[n]) => x \in ItemSet(r)
    BY <1>1, <2>1, <2>2
  <2>6. x \in ItemSet(r) /\ x \notin ToSet(node) => x \in ItemSet(inner) \ ToSet(inner[n])
    BY <1>1, <2>1, <2>2, <2>3
  <2> QED
    BY <2>4, <2>5, <2>6
<1>4. Replaced(inner, n, node, r)
  BY <1>1, <1>2, <1>3 DEF Replaced
<1> QED
  BY <1>4 DEF r

Inserted(inner, n, node, r) ==
    /\ r \in Nodes /\ Len(r) = Len(inner) + 1 /\ NodesSorted(r)
    /\ \A m \in 1 .. Len(inner) + 1 :
         r[m] = IF m < n THEN inner[m] ELSE IF m = n THEN node ELSE inner[m - 1]
    /\ ItemSet(r) = ItemSet(inner) \cup ToSet(node)

\* A node is put between two others.
LEMMA NodeInserted ==
    ASSUME NEW inner \in Nodes, NodesSorted(inner), NEW n \in 1 .. Len(inner) + 1,
           NEW node \in Node, Sorted(node),
           \A m \in 1 .. Len(inner) : /\ m < n => Precedes(inner[m], node)
                                      /\ m >= n => Precedes(node, inner[m])
    PROVE  Inserted(inner, n, node, InsertAt(inner, n, node))
<1> DEFINE r == InsertAt(inner, n, node)
<1>1. /\ r \in Nodes /\ Len(r) = Len(inner) + 1
      /\ \A m \in 1 .. Len(inner) + 1 :
           r[m] = IF m < n THEN inner[m] ELSE IF m = n THEN node ELSE inner[m - 1]
  <2>1. inner \in Seq(Node) /\ node \in Node
    BY DEF Nodes
  <2>2. r \in Seq(Node)
    BY <2>1, InsertAtSeq
  <2>4. Len(r) = Len(inner) + 1
    BY <2>1, InsertAtSeq
  <2>3. ASSUME NEW m \in 1 .. Len(inner) + 1
        PROVE  r[m] = IF m < n THEN inner[m] ELSE IF m = n THEN node ELSE inner[m - 1]
    BY <2>1, InsertAtSeq
  <2> QED
    BY <2>2, <2>3, <2>4 DEF Nodes
<1> HIDE DEF r
<1>2. Len(inner) \in Nat
  BY NodesType
<1>3. NodesSorted(r)
  <2>1. ASSUME NEW m \in 1 .. Len(r) PROVE Sorted(r[m])
    <3>1. CASE m < n
      BY <1>1, <1>2, <3>1 DEF NodesSorted
    <3>2. CASE m = n
      BY <1>1, <3>2
    <3>3. CASE m > n
      <4>1. m - 1 \in 1 .. Len(inner) /\ r[m] = inner[m - 1]
        BY <1>1, <1>2, <3>3
      <4> QED
        BY <4>1 DEF NodesSorted
    <3> QED
      BY <3>1, <3>2, <3>3
  <2>2. ASSUME NEW l \in 1 .. Len(r), NEW m \in 1 .. Len(r), l < m
        PROVE  Precedes(r[l], r[m])
    <3>1. CASE m < n
      <4>1. l \in 1 .. Len(inner) /\ m \in 1 .. Len(inner) /\ r[l] = inner[l] /\ r[m] = inner[m]
        BY <1>1, <1>2, <2>2, <3>1
      <4> QED
        BY <2>2, <4>1 DEF NodesSorted
    <3>2. CASE m = n
      <4>1. l \in 1 .. Len(inner) /\ l < n /\ r[l] = inner[l] /\ r[m] = node
        BY <1>1, <1>2, <2>2, <3>2
      <4> QED
        BY <4>1
    <3>3. CASE m > n /\ l < n
      <4>1. /\ l \in 1 .. Len(inner) /\ m - 1 \in 1 .. Len(inner) /\ l < m - 1
            /\ r[l] = inner[l] /\ r[m] = inner[m - 1]
        BY <1>1, <1>2, <3>3
      <4> QED
        BY <4>1 DEF NodesSorted
    <3>4. CASE m > n /\ l = n
      <4>1. m - 1 \in 1 .. Len(inner) /\ m - 1 >= n /\ r[l] = node /\ r[m] = inner[m - 1]
        BY <1>1, <1>2, <3>4
      <4> QED
        BY <4>1
    <3>5. CASE m > n /\ l > n
      <4>1. /\ l - 1 \in 1 .. Len(inner) /\ m - 1 \in 1 .. Len(inner) /\ l - 1 < m - 1
            /\ r[l] = inner[l - 1] /\ r[m] = inner[m - 1]
        BY <1>1, <1>2, <2>2, <3>5
      <4> QED
        BY <4>1 DEF NodesSorted
    <3>6. (m < n \/ m = n \/ m > n) /\ (l < n \/ l = n \/ l > n)
      BY <1>1, <1>2
    <3> QED
      BY <3>1, <3>2, <3>3, <3>4, <3>5, <3>6
  <2> QED
    BY <2>1, <2>2 DEF NodesSorted
<1>4. ASSUME NEW x PROVE x \in ItemSet(r) <=> x \in ItemSet(inner) \cup ToSet(node)
  <2>1. x \in ItemSet(r) <=> \E m \in 1 .. Len(inner) + 1 : x \in ToSet(r[m])
    BY <1>1, NodesType
  <2>2. x \in ItemSet(inner) <=> \E m \in 1 .. Len(inner) : x \in ToSet(inner[m])
    BY NodesType
  <2>3. ASSUME x \in ItemSet(r) PROVE x \in ItemSet(inner) \cup ToSet(node)
    <3>1. PICK m \in 1 .. Len(inner) + 1 : x \in ToSet(r[m])
      BY <2>1, <2>3
    <3>2. m < n => m \in 1 .. Len(inner) /\ r[m] = inner[m]
      BY <1>1, <1>2
    <3>3. m > n => m - 1 \in 1 .. Len(inner) /\ r[m] = inner[m - 1]
      BY <1>1, <1>2
    <3>4. m = n => r[m] = node
      BY <1>1
    <3>5. m < n \/ m = n \/ m > n
      BY <1>2
    <3> QED
      BY <2>2, <3>1, <3>2, <3>3, <3>4, <3>5
  <2>4. ASSUME x \in ItemSet(inner) PROVE x \in ItemSet(r)
    <3>1. PICK m \in 1 .. Len(inner) : x \in ToSet(inner[m])
      BY <2>2, <2>4
    <3>2. m < n => m \in 1 .. Len(inner) + 1 /\ r[m] = inner[m]
      BY <1>1, <1>2
    <3>3. ~(m < n) => m + 1 \in 1 .. Len(inner) + 1 /\ r[m + 1] = inner[m]
      <4> SUFFICES ASSUME ~(m < n) PROVE m + 1 \in 1 .. Len(inner) + 1 /\ r[m + 1] = inner[m]
        OBVIOUS
      <4>1. /\ m + 1 \in 1 .. Len(inner) + 1 /\ ~(m + 1 < n) /\ m + 1 # n
            /\ (m + 1) - 1 = m
        BY <1>2
      <4> QED
        BY <1>1, <4>1
    <3> QED
      BY <2>1, <3>1, <3>2, <3>3
  <2>5. x \in ToSet(node) => x \in ItemSet(r)
    <3>1. n \in 1 .. Len(inner) + 1 /\ ~(n < n) /\ r[n] = node
      BY <1>1, <1>2
    <3> QED
      BY <2>1, <3>1
  <2> QED
    BY <2>3, <2>4, <2>5
<1>5. Inserted(inner, n, node, r)
  BY <1>1, <1>3, <1>4 DEF Inserted
<1> QED
  BY <1>5 DEF r

Removed(inner, n, r) ==
    /\ r \in Nodes /\ Len(r) = Len(inner) - 1 /\ NodesSorted(r)
    /\ \A m \in 1 .. Len(inner) - 1 : r[m] = IF m < n THEN inner[m] ELSE inner[m + 1]
    /\ ItemSet(r) = ItemSet(inner) \ ToSet(inner[n])

\* A node is taken out, with its items.
LEMMA NodeRemoved ==
    ASSUME NEW inner \in Nodes, NodesSorted(inner), NEW n \in 1 .. Len(inner)
    PROVE  Removed(inner, n, RemoveAt(inner, n))
<1> DEFINE r == RemoveAt(inner, n)
<1>1. /\ r \in Nodes /\ Len(r) = Len(inner) - 1
      /\ \A m \in 1 .. Len(inner) - 1 : r[m] = IF m < n THEN inner[m] ELSE inner[m + 1]
  BY RemoveAtSeq DEF Nodes
<1> HIDE DEF r
<1>2. Len(inner) \in Nat
  BY NodesType
<1> DEFINE from(m) == IF m < n THEN m ELSE m + 1
<1>3. \A m \in 1 .. Len(r) : /\ from(m) \in 1 .. Len(inner) /\ from(m) # n
                             /\ r[m] = inner[from(m)]
  BY <1>1, <1>2
<1>4. \A l, m \in 1 .. Len(r) : l < m => from(l) < from(m)
  BY <1>1, <1>2
<1>5. \A m \in 1 .. Len(inner) : m # n => \E l \in 1 .. Len(r) : from(l) = m
  <2> SUFFICES ASSUME NEW m \in 1 .. Len(inner), m # n
               PROVE  \E l \in 1 .. Len(r) : from(l) = m
    OBVIOUS
  <2>1. CASE m < n
    <3>1. m \in 1 .. Len(r) /\ from(m) = m
      BY <1>1, <1>2, <2>1
    <3> QED
      BY <3>1
  <2>2. CASE m > n
    <3>1. m - 1 \in 1 .. Len(r) /\ from(m - 1) = m
      BY <1>1, <1>2, <2>2
    <3> QED
      BY <3>1
  <2> QED
    BY <2>1, <2>2
<1> HIDE DEF from
<1>6. NodesSorted(r)
  BY <1>3, <1>4 DEF NodesSorted
<1>7. ASSUME NEW x PROVE x \in ItemSet(r) <=> x \in ItemSet(inner) \ ToSet(inner[n])
  <2>1. x \in ItemSet(r) <=> \E m \in 1 .. Len(r) : x \in ToSet(r[m])
    BY <1>1, NodesType
  <2>2. x \in ItemSet(inner) <=> \E m \in 1 .. Len(inner) : x \in ToSet(inner[m])
    BY NodesType
  <2>3. ASSUME NEW m \in 1 .. Len(inner), m # n, x \in ToSet(inner[m])
        PROVE  x \notin ToSet(inner[n])
    <3> SUFFICES ASSUME x \in ToSet(inner[n]) PROVE FALSE
      OBVIOUS
    <3>1. m < n \/ n < m
      BY <2>3, NodesType
    <3>2. Key(x) < Key(x)
      BY <2>3, <3>1 DEF NodesSorted, Precedes
    <3>3. Key(x) \in Int
      BY <2>3, NodesType
    <3> QED
      BY <3>2, <3>3
  <2>4. x \in ItemSet(r) => x \in ItemSet(inner) \ ToSet(inner[n])
    BY <1>3, <2>1, <2>2, <2>3
  <2>5. x \in ItemSet(inner) \ ToSet(inner[n]) => x \in ItemSet(r)
    <3> SUFFICES ASSUME x \in ItemSet(inner), x \notin ToSet(inner[n]) PROVE x \in ItemSet(r)
      OBVIOUS
    <3>1. PICK m \in 1 .. Len(inner) : x \in ToSet(inner[m])
      BY <2>2
    <3>2. m # n
      BY <3>1
    <3>3. PICK l \in 1 .. Len(r) : from(l) = m
      BY <1>5, <3>2
    <3> QED
      BY <1>3, <2>1, <3>1, <3>3
  <2> QED
    BY <2>4, <2>5
<1>8. Removed(inner, n, r)
  BY <1>1, <1>6, <1>7 DEF Removed
<1> QED
  BY <1>8 DEF r

-----------------------------------------------------------------------------
(* Putting an item in *)

\* NodeLike::insert
LEMMA IntoNodeIs ==
    ASSUME NEW node \in Node, Sorted(node), NEW item \in Item
    PROVE  /\ IntoNode(node, item) \in Node /\ Sorted(IntoNode(node, item))
           /\ (\E x \in ToSet(node) : Key(x) = Key(item)) => IntoNode(node, item) = node
           /\ ~(\E x \in ToSet(node) : Key(x) = Key(item)) =>
                /\ ToSet(IntoNode(node, item)) = ToSet(node) \cup {item}
                /\ Len(IntoNode(node, item)) = Len(node) + 1
<1> DEFINE k == Key(item)
           b == ItemsBelow(node, k)
           r == InsertAt(node, b + 1, item)
<1>1. k \in Int /\ Len(node) \in Nat /\ \A i \in 1 .. Len(node) : Key(node[i]) \in Int
  BY KeyType, NodeType
<1>2. b \in 0 .. Len(node) /\ \A i \in 1 .. Len(node) : Key(node[i]) < k <=> i <= b
  BY <1>1, ItemsBelowIs
<1>3. IntoNode(node, item) = IF b < Len(node) /\ Key(node[b + 1]) = k THEN node ELSE r
  BY DEF IntoNode
<1> HIDE DEF b, k
<1>4. (\E x \in ToSet(node) : Key(x) = k) <=> b < Len(node) /\ Key(node[b + 1]) = k
  <2>1. ASSUME NEW x \in ToSet(node), Key(x) = k PROVE b < Len(node) /\ Key(node[b + 1]) = k
    <3>1. PICK i \in 1 .. Len(node) : x = node[i]
      BY NodeType
    <3>2. ~(i <= b)
      BY <1>1, <1>2, <2>1, <3>1
    <3>3. b + 1 \in 1 .. Len(node) /\ b < Len(node)
      BY <1>1, <1>2, <3>2
    <3>4. ~(Key(node[b + 1]) < k)
      BY <1>1, <1>2, <3>3
    <3>5. ~(b + 1 < i)
      <4>1. b + 1 < i => Key(node[b + 1]) < Key(node[i])
        BY <3>3 DEF Sorted
      <4> QED
        BY <2>1, <3>1, <3>4, <4>1
    <3>6. i = b + 1
      BY <1>2, <3>2, <3>5
    <3> QED
      BY <2>1, <3>1, <3>3, <3>6
  <2>2. ASSUME b < Len(node), Key(node[b + 1]) = k PROVE \E x \in ToSet(node) : Key(x) = k
    <3>1. b + 1 \in 1 .. Len(node)
      BY <1>1, <1>2, <2>2
    <3> QED
      BY <2>2, <3>1, NodeType
  <2> QED
    BY <2>1, <2>2
<1>5. CASE \E x \in ToSet(node) : Key(x) = k
  BY <1>3, <1>4, <1>5 DEF k
<1>6. CASE ~\E x \in ToSet(node) : Key(x) = k
  <2>1. IntoNode(node, item) = r
    BY <1>3, <1>4, <1>6
  <2>2. b + 1 \in 1 .. Len(node) + 1 /\ node \in Seq(Item)
    BY <1>1, <1>2 DEF Node
  <2> DEFINE p == b + 1
             s == InsertAt(node, p, item)
  <2> HIDE DEF p
  <2>3. p \in 1 .. Len(node) + 1
    BY <2>2 DEF p
  <2>4. s \in Seq(Item)
    BY <2>2, <2>3, InsertAtSeq
  <2>5. Len(s) = Len(node) + 1
    BY <2>2, <2>3, InsertAtSeq
  <2>6. ASSUME NEW i \in 1 .. Len(node) + 1
        PROVE  s[i] = IF i < p THEN node[i] ELSE IF i = p THEN item ELSE node[i - 1]
    BY <2>2, <2>3, InsertAtSeq
  <2>7. ToSet(s) = ToSet(node) \cup {item}
    BY <2>2, <2>3, InsertAtSet
  <2> HIDE DEF s
  <2>8. \A i \in 1 .. Len(node) : /\ i < p => Key(node[i]) < k
                                  /\ i >= p => Key(node[i]) > k
    <3> SUFFICES ASSUME NEW i \in 1 .. Len(node)
                 PROVE  /\ i < p => Key(node[i]) < k
                        /\ i >= p => Key(node[i]) > k
      OBVIOUS
    <3>1. Key(node[i]) # k
      BY <1>6, NodeType
    <3>2. Key(node[i]) < k <=> i <= b
      BY <1>2
    <3> QED
      BY <1>1, <1>2, <3>1, <3>2 DEF p
  <2>9. Sorted(s)
    <3> SUFFICES ASSUME NEW i \in 1 .. Len(s), NEW j \in 1 .. Len(s), i < j
                 PROVE  Key(s[i]) < Key(s[j])
      BY DEF Sorted
    <3>1. CASE j < p
      <4>1. i \in 1 .. Len(node) /\ j \in 1 .. Len(node) /\ s[i] = node[i] /\ s[j] = node[j]
        BY <1>1, <2>3, <2>5, <2>6, <3>1
      <4> QED
        BY <4>1 DEF Sorted
    <3>2. CASE j = p
      <4>1. i \in 1 .. Len(node) /\ i < p /\ s[i] = node[i] /\ s[j] = item
        BY <1>1, <2>3, <2>5, <2>6, <3>2
      <4> QED
        BY <2>8, <4>1 DEF k
    <3>3. CASE j > p /\ i < p
      <4>1. /\ i \in 1 .. Len(node) /\ j - 1 \in 1 .. Len(node) /\ i < j - 1
            /\ s[i] = node[i] /\ s[j] = node[j - 1]
        BY <1>1, <2>3, <2>5, <2>6, <3>3
      <4> QED
        BY <4>1 DEF Sorted
    <3>4. CASE j > p /\ i = p
      <4>1. j - 1 \in 1 .. Len(node) /\ j - 1 >= p /\ s[i] = item /\ s[j] = node[j - 1]
        BY <1>1, <2>3, <2>5, <2>6, <3>4
      <4>2. Key(node[j - 1]) > k
        BY <2>8, <4>1
      <4>3. Key(node[j - 1]) \in Int
        BY <1>1, <4>1
      <4> QED
        BY <1>1, <4>1, <4>2, <4>3 DEF k
    <3>5. CASE j > p /\ i > p
      <4>1. /\ i - 1 \in 1 .. Len(node) /\ j - 1 \in 1 .. Len(node) /\ i - 1 < j - 1
            /\ s[i] = node[i - 1] /\ s[j] = node[j - 1]
        BY <1>1, <2>3, <2>5, <2>6, <3>5
      <4> QED
        BY <4>1 DEF Sorted
    <3>6. (j < p \/ j = p \/ j > p) /\ (i < p \/ i = p \/ i > p)
      BY <2>3, <2>5
    <3> QED
      BY <3>1, <3>2, <3>3, <3>4, <3>5, <3>6
  <2> QED
    BY <1>6, <2>1, <2>4, <2>5, <2>7, <2>9 DEF k, s, p, Node
<1> QED
  BY <1>5, <1>6

\* The items of the nodes before n are below k, and those behind it are above.
Around(inner, n, k) ==
    /\ n \in 1 .. Len(inner)
    /\ \A m \in 1 .. Len(inner) : \A x \in ToSet(inner[m]) :
         /\ m < n => Key(x) < k
         /\ m > n => Key(x) > k

HasKey(inner, k) == \E x \in ItemSet(inner) : Key(x) = k

\* locate_node() leads to the node in which the key belongs: no node before it has
\* a key as great, no node behind it one as small.
LEMMA LocateNodeAround ==
    ASSUME NEW t \in Trees, NEW k \in Int
    PROVE  Around(t.inner, LocateNode(t, k), k)
<1> DEFINE n == LocateNode(t, k)
<1>1. PICK i \in 1 .. Len(t.inner[n]) + 1 :
        Divides(t.inner, n, i, k) /\ (n < Len(t.inner) => i <= Len(t.inner[n]))
  BY LocateValueIs
<1> HIDE DEF n
<1>2. n \in 1 .. Len(t.inner)
  BY <1>1 DEF Divides
<1>3. ASSUME NEW m \in 1 .. Len(t.inner), NEW x \in ToSet(t.inner[m])
      PROVE  (m < n => Key(x) < k) /\ (m > n => Key(x) > k)
  <2>1. m < n => Key(x) < k
    BY <1>1 DEF Divides
  <2>2. ASSUME m > n PROVE Key(x) > k
    <3>1. n < Len(t.inner)
      BY <1>2, <2>2, TreesType
    <3>2. i \in 1 .. Len(t.inner[n])
      BY <1>1, <1>2, <3>1, TreesType, NodesType
    <3>3. t.inner[n][i] \in ToSet(t.inner[n]) /\ Key(t.inner[n][i]) \in Int /\ Key(x) \in Int
      BY <1>2, <3>2, TreesType, NodesType
    <3>4. ~(Key(t.inner[n][i]) < k)
      BY <1>1, <3>2 DEF Divides
    <3>5. Key(t.inner[n][i]) < Key(x)
      BY <1>2, <2>2, <3>3, TreesType DEF NodesSorted, Precedes
    <3> QED
      BY <3>3, <3>4, <3>5
  <2> QED
    BY <2>1, <2>2
<1> QED
  BY <1>2, <1>3 DEF Around, n

\* The item goes into the node that is around its key, unless one is there.
ItemIn(inner, at, item, r) ==
    /\ r \in Nodes /\ Len(r) = Len(inner) /\ NodesSorted(r)
    /\ \A m \in 1 .. Len(inner) : m # at => r[m] = inner[m]
    /\ HasKey(inner, Key(item)) => r = inner
    /\ ~HasKey(inner, Key(item)) => /\ ItemSet(r) = ItemSet(inner) \cup {item}
                                    /\ Len(r[at]) = Len(inner[at]) + 1

\* NodeLike::insert in the node that is around the key.
LEMMA InsertedInto ==
    ASSUME NEW inner \in Nodes, NodesSorted(inner), NEW item \in Item,
           NEW at, Around(inner, at, Key(item))
    PROVE  ItemIn(inner, at, item, [inner EXCEPT ![at] = IntoNode(inner[at], item)])
<1> DEFINE node == IntoNode(inner[at], item)
           r == [inner EXCEPT ![at] = node]
<1>1. /\ at \in 1 .. Len(inner) /\ inner[at] \in Node /\ Sorted(inner[at])
      /\ Key(item) \in Int
  BY NodesType, KeyType DEF NodesSorted, Around
<1>2. /\ node \in Node /\ Sorted(node)
      /\ (\E x \in ToSet(inner[at]) : Key(x) = Key(item)) => node = inner[at]
      /\ ~(\E x \in ToSet(inner[at]) : Key(x) = Key(item)) =>
           /\ ToSet(node) = ToSet(inner[at]) \cup {item}
           /\ Len(node) = Len(inner[at]) + 1
  BY <1>1, IntoNodeIs
<1> HIDE DEF node
<1>3. HasKey(inner, Key(item)) <=> \E x \in ToSet(inner[at]) : Key(x) = Key(item)
  <2>1. ASSUME NEW x \in ItemSet(inner), Key(x) = Key(item) PROVE x \in ToSet(inner[at])
    <3>1. PICK m \in 1 .. Len(inner) : x \in ToSet(inner[m])
      BY NodesType
    <3>2. ~(m < at) /\ ~(m > at)
      BY <1>1, <2>1, <3>1 DEF Around
    <3>3. m = at
      BY <1>1, <3>2
    <3> QED
      BY <3>1, <3>3
  <2>2. \A x \in ToSet(inner[at]) : x \in ItemSet(inner)
    BY <1>1, NodesType
  <2> QED
    BY <2>1, <2>2 DEF HasKey
<1>4. ASSUME NEW m \in 1 .. Len(inner)
      PROVE  /\ m < at => Precedes(inner[m], node)
             /\ m > at => Precedes(node, inner[m])
  <2>1. \A y \in ToSet(node) : y \in ToSet(inner[at]) \/ y = item
    BY <1>2
  <2>2. ASSUME NEW x \in ToSet(inner[m]), NEW y \in ToSet(node)
        PROVE  (m < at => Key(x) < Key(y)) /\ (m > at => Key(y) < Key(x))
    <3>1. CASE y = item
      <4>1. Key(x) \in Int
        BY NodesType
      <4>2. (m < at => Key(x) < Key(item)) /\ (m > at => Key(x) > Key(item))
        BY DEF Around
      <4> QED
        BY <1>1, <3>1, <4>1, <4>2
    <3>2. CASE y \in ToSet(inner[at])
      BY <1>1, <3>2 DEF NodesSorted, Precedes
    <3> QED
      BY <2>1, <3>1, <3>2
  <2> QED
    BY <2>2 DEF Precedes
<1>5. /\ r \in Nodes /\ Len(r) = Len(inner) /\ NodesSorted(r)
      /\ \A m \in 1 .. Len(inner) : r[m] = IF m = at THEN node ELSE inner[m]
      /\ ItemSet(r) = (ItemSet(inner) \ ToSet(inner[at])) \cup ToSet(node)
  <2>1. Replaced(inner, at, node, r)
    BY <1>1, <1>2, <1>4, NodeReplaced
  <2> HIDE DEF r
  <2> QED
    BY <2>1 DEF Replaced
<1>6. ASSUME HasKey(inner, Key(item)) PROVE r = inner
  BY <1>2, <1>3, <1>6, ExceptSeq DEF Nodes
<1>7. ASSUME ~HasKey(inner, Key(item))
      PROVE  /\ ItemSet(r) = ItemSet(inner) \cup {item}
             /\ Len(r[at]) = Len(inner[at]) + 1
  <2>1. ToSet(inner[at]) \subseteq ItemSet(inner)
    BY <1>1, NodesType
  <2> QED
    BY <1>1, <1>2, <1>3, <1>5, <1>7, <2>1
<1> HIDE DEF r
<1>8. ItemIn(inner, at, item, r)
  BY <1>5, <1>6, <1>7 DEF ItemIn
<1> QED
  BY <1>8 DEF r, node

\* halve: a node's upper items become a node behind it.
Halved(inner, n, h, low, high, r) ==
    /\ r \in Nodes /\ Len(r) = Len(inner) + 1 /\ NodesSorted(r)
    /\ ItemSet(r) = ItemSet(inner)
    /\ \A m \in 1 .. Len(inner) + 1 :
         r[m] = IF m < n THEN inner[m] ELSE IF m = n THEN low
                ELSE IF m = n + 1 THEN high ELSE inner[m - 1]
    /\ Len(low) = h /\ Len(high) = Len(inner[n]) - h
    /\ high[1] = inner[n][h + 1] /\ h + 1 \in 1 .. Len(inner[n])
    /\ ToSet(low) \subseteq ToSet(inner[n])
    /\ ToSet(high) \subseteq ToSet(inner[n])
    /\ \A x \in ToSet(low) : Key(x) < Key(high[1])
    /\ \A x \in ToSet(high) : Key(x) >= Key(high[1])

\* A split of a full node leaves two, with its items, in its place.
LEMMA HalvedNode ==
    ASSUME NEW inner \in Nodes, NodesSorted(inner), NEW n \in 1 .. Len(inner),
           NEW h \in Nat, h < Len(inner[n]), h >= 1
    PROVE  LET low == SubSeq(inner[n], 1, h)
               high == SubSeq(inner[n], h + 1, Len(inner[n]))
           IN Halved(inner, n, h, low, high, InsertAt([inner EXCEPT ![n] = low], n + 1, high))
<1> DEFINE node == inner[n]
           low == SubSeq(node, 1, h)
           high == SubSeq(node, h + 1, Len(node))
           mid == [inner EXCEPT ![n] = low]
           r == InsertAt(mid, n + 1, high)
<1>1. node \in Node /\ Sorted(node) /\ Len(node) \in Nat /\ Len(inner) \in Nat
  BY NodesType DEF NodesSorted
<1>2. /\ low \in Node /\ Sorted(low) /\ Len(low) = h
      /\ \A x : x \in ToSet(low) <=> \E i \in 1 .. h : x = node[i]
  <2>1. PICK one \in 1 .. Len(node) + 1 : one = 1
    BY <1>1
  <2>2. PICK last \in 0 .. Len(node) : last = h
    BY <1>1
  <2>3. one <= last + 1 /\ last - one + 1 = h
    BY <2>1, <2>2
  <2> HIDE DEF node
  <2>4. /\ SubSeq(node, one, last) \in Node /\ Sorted(SubSeq(node, one, last))
        /\ Len(SubSeq(node, one, last)) = last - one + 1
        /\ \A x : x \in ToSet(SubSeq(node, one, last)) <=> \E i \in one .. last : x = node[i]
    BY <1>1, <2>3, SubNode
  <2> QED
    BY <2>1, <2>2, <2>3, <2>4
<1>3. /\ high \in Node /\ Sorted(high) /\ Len(high) = Len(node) - h
      /\ high[1] = node[h + 1]
      /\ \A x : x \in ToSet(high) <=> \E i \in h + 1 .. Len(node) : x = node[i]
  <2>1. PICK from \in 1 .. Len(node) + 1 : from = h + 1
    BY <1>1
  <2>2. PICK last \in 0 .. Len(node) : last = Len(node)
    BY <1>1
  <2>3. from <= last + 1 /\ last - from + 1 = Len(node) - h
    BY <1>1, <2>1, <2>2
  <2> HIDE DEF node
  <2>4. /\ SubSeq(node, from, last) \in Node /\ Sorted(SubSeq(node, from, last))
        /\ Len(SubSeq(node, from, last)) = last - from + 1
        /\ \A i \in 1 .. last - from + 1 : SubSeq(node, from, last)[i] = node[from + i - 1]
        /\ \A x : x \in ToSet(SubSeq(node, from, last)) <=> \E i \in from .. last : x = node[i]
    BY <1>1, <2>3, SubNode
  <2>5. 1 \in 1 .. last - from + 1 /\ from + 1 - 1 = h + 1
    BY <1>1, <2>1, <2>2 DEF node
  <2>6. SubSeq(node, from, last)[1] = node[h + 1]
    BY <2>4, <2>5
  <2> QED
    BY <2>1, <2>2, <2>3, <2>4, <2>6
<1>4. h + 1 \in 1 .. Len(node)
  BY <1>1
<1> HIDE DEF low, high, mid
<1>5. /\ ToSet(low) \subseteq ToSet(node) /\ ToSet(high) \subseteq ToSet(node)
      /\ \A x \in ToSet(node) : x \in ToSet(low) \/ x \in ToSet(high)
  <2> HIDE DEF node
  <2>1. \A i \in 1 .. Len(node) : i \in 1 .. h \/ i \in h + 1 .. Len(node)
    BY <1>1
  <2>2. (1 .. h \subseteq 1 .. Len(node)) /\ (h + 1 .. Len(node) \subseteq 1 .. Len(node))
    BY <1>1 DEF node
  <2>3. \A x : x \in ToSet(node) <=> \E i \in 1 .. Len(node) : x = node[i]
    BY <1>1, NodeType
  <2> QED
    BY <1>2, <1>3, <2>1, <2>2, <2>3
<1>6. /\ \A x \in ToSet(low) : Key(x) < Key(high[1])
      /\ \A x \in ToSet(high) : Key(x) >= Key(high[1])
  <2> HIDE DEF node
  <2>1. ASSUME NEW x \in ToSet(low) PROVE Key(x) < Key(high[1])
    <3>1. PICK i \in 1 .. h : x = node[i]
      BY <1>2
    <3>2. i \in 1 .. Len(node) /\ i < h + 1
      BY <1>1, <1>4
    <3> QED
      BY <1>1, <1>3, <1>4, <3>1, <3>2 DEF Sorted
  <2>2. ASSUME NEW x \in ToSet(high) PROVE Key(x) >= Key(high[1])
    <3>1. PICK i \in h + 1 .. Len(node) : x = node[i]
      BY <1>3
    <3>2. i \in 1 .. Len(node) /\ ~(i < h + 1)
      BY <1>1, <1>4
    <3>3. ~(Key(node[i]) < Key(node[h + 1]))
      BY <1>1, <1>4, <3>2, SortedPlaces
    <3>4. Key(node[i]) \in Int /\ Key(node[h + 1]) \in Int
      BY <1>1, <1>4, <3>2, NodeType
    <3> QED
      BY <1>3, <3>1, <3>3, <3>4
  <2> QED
    BY <2>1, <2>2
<1>7. ASSUME NEW m \in 1 .. Len(inner), NEW part \in {low, high}
      PROVE  (m < n => Precedes(inner[m], part)) /\ (m > n => Precedes(part, inner[m]))
  <2>1. ToSet(part) \subseteq ToSet(node)
    BY <1>5
  <2>2. (m < n => Precedes(inner[m], node)) /\ (m > n => Precedes(node, inner[m]))
    BY DEF NodesSorted
  <2> QED
    BY <2>1, <2>2 DEF Precedes
<1>8. /\ mid \in Nodes /\ Len(mid) = Len(inner) /\ NodesSorted(mid)
      /\ \A m \in 1 .. Len(inner) : mid[m] = IF m = n THEN low ELSE inner[m]
      /\ ItemSet(mid) = (ItemSet(inner) \ ToSet(node)) \cup ToSet(low)
  <2>1. \A m \in 1 .. Len(inner) : /\ m < n => Precedes(inner[m], low)
                                   /\ m > n => Precedes(low, inner[m])
    BY <1>7
  <2>2. low \in Node /\ Sorted(low)
    BY <1>2
  <2>3. Replaced(inner, n, low, mid)
    BY <2>1, <2>2, NodeReplaced DEF mid
  <2> QED
    BY <2>3 DEF Replaced
<1> DEFINE p == n + 1
<1>9. p \in 1 .. Len(mid) + 1
  BY <1>1, <1>8
<1>10. ASSUME NEW m \in 1 .. Len(mid)
       PROVE  (m < p => Precedes(mid[m], high)) /\ (m >= p => Precedes(high, mid[m]))
  <2>1. CASE m = n
    <3>1. mid[m] = low /\ m < p /\ ~(m >= p)
      BY <1>1, <1>8, <2>1
    <3>2. ASSUME NEW x \in ToSet(low), NEW y \in ToSet(high) PROVE Key(x) < Key(y)
      <4>1. Key(x) < Key(high[1]) /\ Key(high[1]) <= Key(y)
        BY <1>6
      <4>2. Key(x) \in Int /\ Key(y) \in Int /\ Key(high[1]) \in Int
        BY <1>1, <1>2, <1>3, <1>4, NodeType
      <4> QED
        BY <4>1, <4>2
    <3> QED
      BY <3>1, <3>2 DEF Precedes
  <2>2. CASE m # n
    <3>1. mid[m] = inner[m] /\ (m < p <=> m < n) /\ (m >= p <=> m > n)
      BY <1>1, <1>8, <2>2
    <3> QED
      BY <1>7, <1>8, <3>1
  <2> QED
    BY <2>1, <2>2
<1> HIDE DEF p, r
<1> DEFINE q == InsertAt(mid, p, high)
<1>11. /\ q \in Nodes /\ Len(q) = Len(mid) + 1 /\ NodesSorted(q)
       /\ \A m \in 1 .. Len(mid) + 1 :
            q[m] = IF m < p THEN mid[m] ELSE IF m = p THEN high ELSE mid[m - 1]
       /\ ItemSet(q) = ItemSet(mid) \cup ToSet(high)
  <2>1. \A m \in 1 .. Len(mid) : /\ m < p => Precedes(mid[m], high)
                                 /\ m >= p => Precedes(high, mid[m])
    BY <1>10
  <2>2. mid \in Nodes /\ NodesSorted(mid) /\ high \in Node /\ Sorted(high)
    BY <1>3, <1>8
  <2>3. Inserted(mid, p, high, q)
    BY <1>9, <2>1, <2>2, NodeInserted
  <2> QED
    BY <2>3 DEF Inserted
<1> HIDE DEF q
<1>12. ASSUME NEW m \in 1 .. Len(inner) + 1
       PROVE  q[m] = IF m < n THEN inner[m] ELSE IF m = n THEN low
                     ELSE IF m = n + 1 THEN high ELSE inner[m - 1]
  <2>1. q[m] = IF m < p THEN mid[m] ELSE IF m = p THEN high ELSE mid[m - 1]
    BY <1>8, <1>11
  <2>2. m < n => m \in 1 .. Len(inner) /\ m < p /\ m # n
    BY <1>1 DEF p
  <2>3. m = n => m \in 1 .. Len(inner) /\ m < p
    BY <1>1 DEF p
  <2>4. m > n /\ m # n + 1 => m - 1 \in 1 .. Len(inner) /\ ~(m < p) /\ m # p /\ m - 1 # n
    BY <1>1 DEF p
  <2>5. m = n + 1 => m = p /\ ~(m < p) /\ ~(m < n) /\ m # n
    BY <1>1 DEF p
  <2>6. m < n \/ m = n \/ m = n + 1 \/ (m > n /\ m # n + 1 /\ ~(m < n) /\ m # n)
    BY <1>1
  <2> QED
    BY <1>8, <2>1, <2>2, <2>3, <2>4, <2>5, <2>6
<1>13. ItemSet(q) = ItemSet(inner)
  <2>1. ToSet(node) \subseteq ItemSet(inner)
    BY NodesType
  <2> QED
    BY <1>5, <1>8, <1>11, <2>1
<1>14. q = r
  BY DEF q, r, p
<1>15. Halved(inner, n, h, low, high, q)
  BY <1>2, <1>3, <1>4, <1>5, <1>6, <1>8, <1>11, <1>12, <1>13 DEF Halved
<1> QED
  BY <1>14, <1>15 DEF r, mid, low, high

\* A tree whose index and len are rebuilt from its nodes.
Rebuilt(inner, cap) ==
    [inner |-> inner, index |-> Lengths(inner), len |-> Cardinality(ItemSet(inner)), cap |-> cap]

\* Nodes that are sorted and fit, with the index and the length they call for.
LEMMA RebuiltType ==
    ASSUME NEW inner \in Nodes, NodesSorted(inner), NEW cap \in 2 .. DefaultCapacity,
           NodesFit(inner, cap)
    PROVE  Rebuilt(inner, cap) \in Trees
<1>1. Lengths(inner) \in Seq(Nat) /\ Cardinality(ItemSet(inner)) \in Nat
  BY LengthsType, ItemSetFinite
<1>2. Rebuilt(inner, cap) \in TreeType
  BY <1>1 DEF Rebuilt, TreeType
<1> QED
  BY <1>2 DEF Trees, Rebuilt

\* A tree has the index and the length that its nodes call for.
LEMMA TreeIsRebuilt ==
    ASSUME NEW t \in Trees
    PROVE  t = Rebuilt(t.inner, t.cap)
BY TreesType DEF Rebuilt

\* The tree with the item, or as it was when it has one with that key.
WithItem(t, item, r) ==
    /\ r \in Trees /\ r.cap = t.cap
    /\ HasKey(t.inner, Key(item)) => ItemSet(r.inner) = ItemSet(t.inner) /\ r.len = t.len
    /\ ~HasKey(t.inner, Key(item)) => /\ ItemSet(r.inner) = ItemSet(t.inner) \cup {item}
                                      /\ r.len = t.len + 1

\* The length after an item with a new key.
LEMMA AddedItem ==
    ASSUME NEW t \in Trees, NEW item \in Item, ~HasKey(t.inner, Key(item)),
           NEW S, S = ItemSet(t.inner) \cup {item}
    PROVE  Cardinality(S) = t.len + 1
<1>1. IsFiniteSet(ItemSet(t.inner)) /\ t.len = Cardinality(ItemSet(t.inner))
  BY TreesType, ItemSetFinite
<1>2. item \notin ItemSet(t.inner)
  BY DEF HasKey
<1> QED
  BY <1>1, <1>2, FS_AddElement

\* insert_at
LEMMA TreeInsertAtIs ==
    ASSUME NEW t \in Trees, NEW item \in Item, NEW n, Around(t.inner, n, Key(item))
    PROVE  WithItem(t, item, TreeInsertAt(t, n, item))
<1> DEFINE node == t.inner[n]
           k == Key(item)
           h == Len(node) \div 2
           low == SubSeq(node, 1, h)
           high == SubSeq(node, h + 1, Len(node))
           full == Len(node) = t.cap
           split == InsertAt([t.inner EXCEPT ![n] = low], n + 1, high)
           R == TreeInsertAt(t, n, item)
<1>1. /\ t.inner \in Nodes /\ NodesSorted(t.inner) /\ n \in 1 .. Len(t.inner)
      /\ Len(t.inner) \in Nat /\ Len(node) \in Nat /\ t.cap \in Nat /\ t.cap >= 2
      /\ t.cap \in 2 .. DefaultCapacity /\ k \in Int /\ t.index = Lengths(t.inner)
      /\ \A m \in 1 .. Len(t.inner) : /\ Len(t.inner[m]) \in Nat /\ Len(t.inner[m]) <= t.cap
                                      /\ Len(t.inner[m]) = 0 => Len(t.inner) = 1
  BY TreesType, NodesType, KeyType DEF Around, NodesFit
<1>2. CASE ~full
  <2> DEFINE inner == [t.inner EXCEPT ![n] = IntoNode(t.inner[n], item)]
  <2>1. R = [t EXCEPT !.inner = inner,
                      !.index = [t.index EXCEPT ![n] = t.index[n] + Len(inner[n]) - Len(node)],
                      !.len = IF inner = t.inner THEN t.len ELSE t.len + 1]
    <3> DEFINE here == IF full /\ k >= Key(high[1]) THEN n + 1 ELSE n
               nodes == IF full THEN split ELSE t.inner
               into == [nodes EXCEPT ![here] = IntoNode(nodes[here], item)]
    <3>1. R = [t EXCEPT !.inner = into,
                        !.index = IF full THEN Lengths(into)
                                  ELSE [t.index EXCEPT ![n] = t.index[n] + Len(into[n]) - Len(node)],
                        !.len = IF into = nodes THEN t.len ELSE t.len + 1]
      BY DEF TreeInsertAt
    <3>2. here = n /\ nodes = t.inner /\ into = inner
      BY <1>2
    <3> HIDE DEF here, nodes, into, inner, R, full
    <3> QED
      BY <1>2, <3>1, <3>2
  <2>2. ItemIn(t.inner, n, item, inner)
    BY <1>1, InsertedInto
  <2> HIDE DEF inner
  <2>3. /\ inner \in Nodes /\ Len(inner) = Len(t.inner) /\ NodesSorted(inner)
        /\ \A m \in 1 .. Len(t.inner) : m # n => inner[m] = t.inner[m]
        /\ HasKey(t.inner, k) => inner = t.inner
        /\ ~HasKey(t.inner, k) => /\ ItemSet(inner) = ItemSet(t.inner) \cup {item}
                                  /\ Len(inner[n]) = Len(node) + 1
    BY <2>2 DEF ItemIn
  <2>4. Len(inner[n]) = Len(node) \/ Len(inner[n]) = Len(node) + 1
    BY <2>3
  <2>5. NodesFit(inner, t.cap)
    <3>1. ASSUME NEW m \in 1 .. Len(inner)
          PROVE  Len(inner[m]) <= t.cap /\ (Len(inner[m]) = 0 => Len(inner) = 1)
      <4>1. CASE m = n
        BY <1>1, <1>2, <2>3, <2>4, <4>1
      <4>2. CASE m # n
        BY <1>1, <2>3, <4>2
      <4> QED
        BY <4>1, <4>2
    <3>2. Len(inner) >= 1
      BY <1>1, <2>3
    <3> QED
      BY <3>1, <3>2 DEF NodesFit
  <2>6. [t.index EXCEPT ![n] = t.index[n] + Len(inner[n]) - Len(node)] = Lengths(inner)
    <3>1. [Lengths(t.inner) EXCEPT ![n] = Len(inner[n])] = Lengths(inner)
      <4>1. /\ t.inner \in Nodes /\ inner \in Nodes /\ Len(inner) = Len(t.inner)
            /\ n \in 1 .. Len(t.inner)
        BY <1>1, <2>3
      <4>2. \A m \in 1 .. Len(t.inner) : m # n => inner[m] = t.inner[m]
        BY <2>3
      <4> QED
        BY ONLY <4>1, <4>2, LengthsDiffer
    <3>2. t.index[n] = Len(node) /\ Len(inner[n]) \in Nat
      BY <1>1, <2>3, LengthsType, NodesType
    <3>3. t.index[n] + Len(inner[n]) - Len(node) = Len(inner[n])
      BY <1>1, <3>2
    <3> QED
      BY <1>1, <3>1, <3>3
  <2>7. /\ (IF inner = t.inner THEN t.len ELSE t.len + 1) = Cardinality(ItemSet(inner))
        /\ HasKey(t.inner, k) => ItemSet(inner) = ItemSet(t.inner)
                                 /\ Cardinality(ItemSet(inner)) = t.len
        /\ ~HasKey(t.inner, k) => ItemSet(inner) = ItemSet(t.inner) \cup {item}
                                  /\ Cardinality(ItemSet(inner)) = t.len + 1
    <3>1. CASE HasKey(t.inner, k)
      BY <2>3, <3>1, TreesType
    <3>2. CASE ~HasKey(t.inner, k)
      <4>1. Cardinality(ItemSet(inner)) = t.len + 1
        BY <2>3, <3>2, AddedItem
      <4>2. Len(node) # Len(node) + 1
        BY <1>1
      <4> QED
        BY <2>3, <3>2, <4>1, <4>2
    <3> QED
      BY <3>1, <3>2
  <2>8. R = Rebuilt(inner, t.cap)
    BY <2>1, <2>6, <2>7, TreesType DEF Rebuilt
  <2>9. R \in Trees
    BY <1>1, <2>3, <2>5, <2>8, RebuiltType
  <2>10. R.inner = inner /\ R.cap = t.cap /\ R.len = Cardinality(ItemSet(inner))
    BY <2>8 DEF Rebuilt
  <2> HIDE DEF R
  <2> QED
    BY <2>7, <2>9, <2>10 DEF WithItem, R
<1>3. CASE full
  <2>1. h \in Nat /\ h >= 1 /\ h < Len(node) /\ h + 1 <= t.cap /\ Len(node) - h + 1 <= t.cap
    BY <1>1, <1>3
  <2>2. Halved(t.inner, n, h, low, high, split)
    <3> HIDE DEF h
    <3> QED
      BY <1>1, <2>1, HalvedNode
  <2> DEFINE at == IF k >= Key(high[1]) THEN n + 1 ELSE n
             inner == [split EXCEPT ![at] = IntoNode(split[at], item)]
  <2>3. R = [t EXCEPT !.inner = inner, !.index = Lengths(inner),
                      !.len = IF inner = split THEN t.len ELSE t.len + 1]
    BY <1>3 DEF TreeInsertAt
  <2> HIDE DEF h, low, high, split
  <2>4. /\ split \in Nodes /\ Len(split) = Len(t.inner) + 1 /\ NodesSorted(split)
        /\ ItemSet(split) = ItemSet(t.inner)
        /\ \A m \in 1 .. Len(t.inner) + 1 :
             split[m] = IF m < n THEN t.inner[m] ELSE IF m = n THEN low
                        ELSE IF m = n + 1 THEN high ELSE t.inner[m - 1]
        /\ Len(low) = h /\ Len(high) = Len(node) - h
        /\ high[1] = node[h + 1] /\ h + 1 \in 1 .. Len(node)
        /\ \A x \in ToSet(low) : Key(x) < Key(high[1])
        /\ \A x \in ToSet(high) : Key(x) >= Key(high[1])
    BY <2>2 DEF Halved
  <2>5. \A m \in 1 .. Len(split) :
          /\ m < n => split[m] = t.inner[m] /\ m \in 1 .. Len(t.inner)
          /\ m = n => split[m] = low
          /\ m = n + 1 => split[m] = high
          /\ m > n + 1 => /\ split[m] = t.inner[m - 1] /\ m - 1 \in 1 .. Len(t.inner)
                          /\ m - 1 > n
          /\ m < n \/ m = n \/ m = n + 1 \/ m > n + 1
    <3> SUFFICES ASSUME NEW m \in 1 .. Len(split)
                 PROVE  /\ m < n => split[m] = t.inner[m] /\ m \in 1 .. Len(t.inner)
                        /\ m = n => split[m] = low
                        /\ m = n + 1 => split[m] = high
                        /\ m > n + 1 => /\ split[m] = t.inner[m - 1]
                                        /\ m - 1 \in 1 .. Len(t.inner)
                                        /\ m - 1 > n
                        /\ m < n \/ m = n \/ m = n + 1 \/ m > n + 1
      OBVIOUS
    <3>1. split[m] = IF m < n THEN t.inner[m] ELSE IF m = n THEN low
                     ELSE IF m = n + 1 THEN high ELSE t.inner[m - 1]
      BY <2>4
    <3>2. n \in Int /\ m \in Int /\ 1 <= m /\ m <= Len(t.inner) + 1 /\ n <= Len(t.inner)
      BY <1>1, <2>4
    <3>3. /\ m < n => m \in 1 .. Len(t.inner)
          /\ m > n + 1 => m - 1 \in 1 .. Len(t.inner) /\ m - 1 > n
          /\ m < n \/ m = n \/ m = n + 1 \/ m > n + 1
      <4> DEFINE L == Len(t.inner)
      <4>1. L \in Nat /\ n \in Int /\ m \in Int /\ n >= 1 /\ 1 <= m /\ m <= L + 1 /\ n <= L
        BY <1>1, <3>2
      <4> HIDE DEF L
      <4>2. /\ m < n => m \in 1 .. L
            /\ m > n + 1 => m - 1 \in 1 .. L /\ m - 1 > n
            /\ m < n \/ m = n \/ m = n + 1 \/ m > n + 1
        BY ONLY <4>1
      <4> QED
        BY <4>2 DEF L
    <3> HIDE DEF split, low, high
    <3>4. (m < n => split[m] = t.inner[m]) /\ (m = n => split[m] = low)
      BY <3>1, <3>2
    <3>5. m = n + 1 => split[m] = high
      BY <3>1, <3>2
    <3>6. m > n + 1 => split[m] = t.inner[m - 1]
      BY <3>1, <3>2
    <3> QED
      BY <3>3, <3>4, <3>5, <3>6
  <2>6. Around(split, at, k)
    <3>1. Key(high[1]) \in Int
      BY <1>1, <2>4, NodesType, KeyType
    <3>2. at \in 1 .. Len(split)
      BY <1>1, <2>4
    <3>3. ASSUME NEW m \in 1 .. Len(split), NEW x \in ToSet(split[m])
          PROVE  (m < at => Key(x) < k) /\ (m > at => Key(x) > k)
      <4>1. Key(x) \in Int
        BY <2>4, NodesType
      <4>2. CASE m < n
        <5>1. Key(x) < k
          BY <2>5, <4>2 DEF Around
        <5> QED
          BY <1>1, <4>2, <5>1
      <4>3. CASE m > n + 1
        <5>1. Key(x) > k
          BY <2>5, <4>3 DEF Around
        <5> QED
          BY <1>1, <4>3, <5>1
      <4>4. CASE m = n
        <5>1. Key(x) < Key(high[1])
          BY <2>4, <2>5, <4>4
        <5> QED
          BY <1>1, <3>1, <4>1, <4>4, <5>1
      <4>5. CASE m = n + 1
        <5>1. Key(x) >= Key(high[1])
          BY <2>4, <2>5, <4>5
        <5> QED
          BY <1>1, <3>1, <4>1, <4>5, <5>1
      <4> QED
        BY <2>5, <4>2, <4>3, <4>4, <4>5
    <3> HIDE DEF at
    <3> QED
      BY <3>2, <3>3 DEF Around
  <2>7. at \in {n, n + 1}
    OBVIOUS
  <2> HIDE DEF at
  <2>8. ItemIn(split, at, item, inner)
    BY <2>4, <2>6, InsertedInto
  <2> HIDE DEF inner
  <2>9. /\ inner \in Nodes /\ Len(inner) = Len(split) /\ NodesSorted(inner)
        /\ \A m \in 1 .. Len(split) : m # at => inner[m] = split[m]
        /\ HasKey(split, k) => inner = split
        /\ ~HasKey(split, k) => /\ ItemSet(inner) = ItemSet(split) \cup {item}
                                /\ Len(inner[at]) = Len(split[at]) + 1
    BY <2>8 DEF ItemIn
  <2>10. HasKey(split, k) <=> HasKey(t.inner, k)
    BY <2>4 DEF HasKey
  <2>11. NodesFit(inner, t.cap)
    <3>1. ASSUME NEW m \in 1 .. Len(inner)
          PROVE  Len(inner[m]) <= t.cap /\ Len(inner[m]) # 0
      <4>1. /\ m = at => Len(inner[m]) = Len(split[m]) \/ Len(inner[m]) = Len(split[m]) + 1
            /\ m # at => Len(inner[m]) = Len(split[m])
        BY <2>9
      <4>2. CASE m = n \/ m = n + 1
        <5>1. Len(split[m]) = h \/ Len(split[m]) = Len(node) - h
          BY <2>4, <2>5, <2>9, <4>2
        <5>2. /\ h \in Int /\ Len(node) \in Int /\ t.cap \in Int /\ h >= 1 /\ h < Len(node)
              /\ h + 1 <= t.cap /\ Len(node) - h + 1 <= t.cap
          BY <1>1, <2>1
        <5>3. Len(inner[m]) = Len(split[m]) \/ Len(inner[m]) = Len(split[m]) + 1
          BY <4>1
        <5> HIDE DEF node, split, inner
        <5> DEFINE l == Len(inner[m])
        <5>4. l \in {h, h + 1, Len(node) - h, Len(node) - h + 1}
          BY <5>1, <5>3
        <5> HIDE DEF l
        <5>5. l <= t.cap /\ l # 0
          BY <5>2, <5>4
        <5> QED
          BY <5>5 DEF l
      <4>3. CASE m < n \/ m > n + 1
        <5>1. m # at
          BY <1>1, <2>7, <4>3
        <5>2. \E l \in 1 .. Len(t.inner) : l # n /\ split[m] = t.inner[l]
          <6>1. m < n => m \in 1 .. Len(t.inner) /\ m # n /\ split[m] = t.inner[m]
            BY <1>1, <2>5, <2>9
          <6>2. m > n + 1 => m - 1 \in 1 .. Len(t.inner) /\ m - 1 # n /\ split[m] = t.inner[m - 1]
            BY <1>1, <2>5, <2>9
          <6> QED
            BY <4>3, <6>1, <6>2
        <5>3. PICK l \in 1 .. Len(t.inner) : l # n /\ split[m] = t.inner[l]
          BY <5>2
        <5>4. Len(t.inner) # 1
          BY <1>1, <5>3
        <5> QED
          BY <1>1, <4>1, <5>1, <5>3, <5>4
      <4> QED
        BY <2>5, <2>9, <4>2, <4>3
    <3>2. Len(inner) >= 1
      BY <1>1, <2>4, <2>9
    <3> QED
      BY <3>1, <3>2 DEF NodesFit
  <2>12. /\ (IF inner = split THEN t.len ELSE t.len + 1) = Cardinality(ItemSet(inner))
         /\ HasKey(t.inner, k) => ItemSet(inner) = ItemSet(t.inner)
                                  /\ Cardinality(ItemSet(inner)) = t.len
         /\ ~HasKey(t.inner, k) => ItemSet(inner) = ItemSet(t.inner) \cup {item}
                                   /\ Cardinality(ItemSet(inner)) = t.len + 1
    <3>1. CASE HasKey(t.inner, k)
      BY <2>4, <2>9, <2>10, <3>1, TreesType
    <3>2. CASE ~HasKey(t.inner, k)
      <4>1. ItemSet(inner) = ItemSet(t.inner) \cup {item}
        BY <2>4, <2>9, <2>10, <3>2
      <4>2. Cardinality(ItemSet(inner)) = t.len + 1
        BY <3>2, <4>1, AddedItem
      <4>3. inner # split
        <5>1. at \in 1 .. Len(split)
          BY <2>6 DEF Around
        <5>2. Len(split[at]) \in Nat
          BY <2>4, <5>1, NodesType
        <5> QED
          BY <2>9, <2>10, <3>2, <5>2
      <4> QED
        BY <3>2, <4>1, <4>2, <4>3
    <3> QED
      BY <3>1, <3>2
  <2>13. R = Rebuilt(inner, t.cap)
    BY <2>3, <2>12, TreesType DEF Rebuilt
  <2>14. R \in Trees
    BY <1>1, <2>9, <2>11, <2>13, RebuiltType
  <2>15. R.inner = inner /\ R.cap = t.cap /\ R.len = Cardinality(ItemSet(inner))
    BY <2>13 DEF Rebuilt
  <2> HIDE DEF R
  <2> QED
    BY <2>12, <2>14, <2>15 DEF WithItem, R
<1> QED
  BY <1>2, <1>3

-----------------------------------------------------------------------------
(* Taking an item out, and changing one *)

\* A node that loses an item.
LEMMA NodeWithout ==
    ASSUME NEW node \in Node, Sorted(node), NEW i \in 1 .. Len(node)
    PROVE  /\ RemoveAt(node, i) \in Node /\ Sorted(RemoveAt(node, i))
           /\ Len(RemoveAt(node, i)) = Len(node) - 1
           /\ ToSet(RemoveAt(node, i)) = ToSet(node) \ {node[i]}
           /\ \A j \in 1 .. Len(node) : j < i =>
                j \in 1 .. Len(node) - 1 /\ RemoveAt(node, i)[j] = node[j]
<1> DEFINE r == RemoveAt(node, i)
<1>1. node \in Seq(Item) /\ Len(node) \in Nat
  BY NodeType DEF Node
<1>2. r \in Seq(Item)
  BY <1>1, RemoveAtSeq
<1>3. Len(r) = Len(node) - 1
  BY <1>1, RemoveAtSeq
<1>4. ASSUME NEW j \in 1 .. Len(node) - 1 PROVE r[j] = IF j < i THEN node[j] ELSE node[j + 1]
  BY <1>1, RemoveAtSeq
<1>5. ToSet(r) = ToSet(node) \ {node[i]}
  <2>1. \A j \in 1 .. Len(node) : node[j] = node[i] => j = i
    BY SortedPlaces
  <2> QED
    BY <1>1, <2>1, RemoveAtSet
<1> HIDE DEF r
<1>6. Sorted(r)
  <2> SUFFICES ASSUME NEW j \in 1 .. Len(r), NEW l \in 1 .. Len(r), j < l
               PROVE  Key(r[j]) < Key(r[l])
    BY DEF Sorted
  <2> DEFINE from(m) == IF m < i THEN m ELSE m + 1
  <2>1. /\ from(j) \in 1 .. Len(node) /\ from(l) \in 1 .. Len(node) /\ from(j) < from(l)
        /\ r[j] = node[from(j)] /\ r[l] = node[from(l)]
    BY <1>1, <1>3, <1>4
  <2> QED
    BY <2>1 DEF Sorted
<1>7. \A j \in 1 .. Len(node) : j < i => j \in 1 .. Len(node) - 1 /\ r[j] = node[j]
  BY <1>1, <1>4
<1> QED
  BY <1>1, <1>2, <1>3, <1>5, <1>6, <1>7 DEF r, Node

\* The tree without one item.
Without(t, x, r) ==
    /\ r \in Trees /\ r.cap = t.cap
    /\ ItemSet(r.inner) = ItemSet(t.inner) \ {x} /\ r.len = t.len - 1

\* What is before place i of node n is where it was.
SameBefore(t, n, i, r) ==
    \A m \in 1 .. Len(t.inner) : \A j \in 1 .. Len(t.inner[m]) :
      m < n \/ (m = n /\ j < i) =>
        m \in 1 .. Len(r.inner) /\ j \in 1 .. Len(r.inner[m]) /\ r.inner[m][j] = t.inner[m][j]

\* delete_at
LEMMA DeleteAtIs ==
    ASSUME NEW t \in Trees, NEW n \in 1 .. Len(t.inner), NEW i \in 1 .. Len(t.inner[n])
    PROVE  /\ t.inner[n][i] \in ItemSet(t.inner)
           /\ Without(t, t.inner[n][i], DeleteAt(t, <<n, i>>))
           /\ SameBefore(t, n, i, DeleteAt(t, <<n, i>>))
<1> DEFINE R == DeleteAt(t, <<n, i>>)
           node == t.inner[n]
           x == node[i]
<1>1. /\ t.inner \in Nodes /\ NodesSorted(t.inner) /\ node \in Node /\ Sorted(node)
      /\ Len(t.inner) \in Nat /\ Len(t.inner) >= 1 /\ Len(node) \in Nat
      /\ t.cap \in 2 .. DefaultCapacity /\ t.cap \in Nat /\ t.index = Lengths(t.inner)
      /\ t.len = Cardinality(ItemSet(t.inner)) /\ IsFiniteSet(ItemSet(t.inner))
      /\ \A m \in 1 .. Len(t.inner) : /\ Len(t.inner[m]) \in Nat /\ Len(t.inner[m]) <= t.cap
                                      /\ Len(t.inner[m]) = 0 => Len(t.inner) = 1
  BY TreesType, NodesType, ItemSetFinite DEF NodesSorted, NodesFit
<1>2. x \in ToSet(node) /\ x \in ItemSet(t.inner)
  BY <1>1, NodesType
<1>3. Cardinality(ItemSet(t.inner) \ {x}) = t.len - 1
  <2> DEFINE S == ItemSet(t.inner)
  <2> HIDE DEF S, x
  <2>1. IsFiniteSet(S) /\ x \in S
    BY <1>1, <1>2 DEF S
  <2>2. Cardinality(S \ {x}) = Cardinality(S) - 1
    BY <2>1, FS_RemoveElement
  <2> QED
    BY <1>1, <2>2 DEF S
<1>4. CASE Len(node) = 1 /\ Len(t.inner) > 1
  <2> DEFINE inner == RemoveAt(t.inner, n)
  <2>1. R = [t EXCEPT !.inner = inner, !.index = Lengths(inner), !.len = t.len - 1]
    BY <1>4 DEF DeleteAt
  <2>2. Removed(t.inner, n, inner)
    BY <1>1, NodeRemoved
  <2> HIDE DEF inner, R
  <2>3. /\ inner \in Nodes /\ Len(inner) = Len(t.inner) - 1 /\ NodesSorted(inner)
        /\ \A m \in 1 .. Len(t.inner) - 1 :
             inner[m] = IF m < n THEN t.inner[m] ELSE t.inner[m + 1]
        /\ ItemSet(inner) = ItemSet(t.inner) \ ToSet(node)
    BY <2>2 DEF Removed
  <2>4. ToSet(node) = {x}
    <3> HIDE DEF node, x
    <3>1. \A y \in ToSet(node) : y = x
      <4> SUFFICES ASSUME NEW y \in ToSet(node) PROVE y = x
        OBVIOUS
      <4>1. PICK j \in 1 .. Len(node) : y = node[j]
        BY <1>1, NodeType
      <4>2. j = 1 /\ i = 1
        BY <1>4, <4>1 DEF node
      <4> QED
        BY <4>1, <4>2 DEF x
    <3> QED
      BY <1>2, <3>1
  <2>5. ItemSet(inner) = ItemSet(t.inner) \ {x}
    BY <2>3, <2>4
  <2>6. NodesFit(inner, t.cap)
    <3>1. ASSUME NEW m \in 1 .. Len(inner)
          PROVE  Len(inner[m]) <= t.cap /\ (Len(inner[m]) = 0 => Len(inner) = 1)
      <4>1. \E l \in 1 .. Len(t.inner) : inner[m] = t.inner[l]
        <5>1. m \in 1 .. Len(t.inner) /\ m + 1 \in 1 .. Len(t.inner)
          BY <1>1, <2>3
        <5> QED
          BY <2>3, <5>1
      <4> QED
        BY <1>1, <1>4, <4>1
    <3>2. Len(inner) >= 1
      BY <1>1, <1>4, <2>3
    <3> QED
      BY <3>1, <3>2 DEF NodesFit
  <2>7. R = Rebuilt(inner, t.cap)
    <3>1. Cardinality(ItemSet(inner)) = t.len - 1
      BY <1>3, <2>5
    <3>2. t = [inner |-> t.inner, index |-> t.index, len |-> t.len, cap |-> t.cap]
      BY TreesType
    <3>3. R = [inner |-> inner, index |-> Lengths(inner), len |-> t.len - 1, cap |-> t.cap]
      BY <2>1, <3>2
    <3> QED
      BY <3>1, <3>3 DEF Rebuilt
  <2>8. R \in Trees
    BY <1>1, <2>3, <2>6, <2>7, RebuiltType
  <2>9. R.inner = inner /\ R.cap = t.cap /\ R.len = t.len - 1
    BY <1>3, <2>5, <2>7 DEF Rebuilt
  <2>10. Without(t, x, R)
    BY <2>5, <2>8, <2>9 DEF Without
  <2>11. SameBefore(t, n, i, R)
    <3>1. i = 1
      BY <1>4
    <3>2. ASSUME NEW m \in 1 .. Len(t.inner), m < n
          PROVE  m \in 1 .. Len(inner) /\ inner[m] = t.inner[m]
      BY <1>1, <2>3, <3>2
    <3> QED
      BY <2>9, <3>1, <3>2 DEF SameBefore
  <2> QED
    BY <1>2, <2>10, <2>11 DEF R
<1>5. CASE ~(Len(node) = 1 /\ Len(t.inner) > 1)
  <2> DEFINE less == RemoveAt(node, i)
             inner == [t.inner EXCEPT ![n] = less]
  <2>1. R = [t EXCEPT !.inner = inner, !.index = [t.index EXCEPT ![n] = t.index[n] - 1],
                      !.len = t.len - 1]
    BY <1>5 DEF DeleteAt
  <2>2. /\ less \in Node /\ Sorted(less) /\ Len(less) = Len(node) - 1
        /\ ToSet(less) = ToSet(node) \ {x}
        /\ \A j \in 1 .. Len(node) : j < i => j \in 1 .. Len(less) /\ less[j] = node[j]
    BY <1>1, NodeWithout
  <2> HIDE DEF less
  <2>3. Replaced(t.inner, n, less, inner)
    <3>1. ASSUME NEW m \in 1 .. Len(t.inner)
          PROVE  (m < n => Precedes(t.inner[m], less)) /\ (m > n => Precedes(less, t.inner[m]))
      <4>1. (m < n => Precedes(t.inner[m], node)) /\ (m > n => Precedes(node, t.inner[m]))
        BY <1>1 DEF NodesSorted
      <4> QED
        BY <2>2, <4>1 DEF Precedes
    <3> QED
      BY <1>1, <2>2, <3>1, NodeReplaced
  <2> HIDE DEF inner, R
  <2>4. /\ inner \in Nodes /\ Len(inner) = Len(t.inner) /\ NodesSorted(inner)
        /\ \A m \in 1 .. Len(t.inner) : inner[m] = IF m = n THEN less ELSE t.inner[m]
        /\ ItemSet(inner) = (ItemSet(t.inner) \ ToSet(node)) \cup ToSet(less)
    BY <2>3 DEF Replaced
  <2>5. ItemSet(inner) = ItemSet(t.inner) \ {x}
    <3>1. ToSet(node) \subseteq ItemSet(t.inner)
      BY <1>1, NodesType
    <3> QED
      BY <1>2, <2>2, <2>4, <3>1
  <2>6. NodesFit(inner, t.cap)
    <3>1. ASSUME NEW m \in 1 .. Len(inner)
          PROVE  Len(inner[m]) <= t.cap /\ (Len(inner[m]) = 0 => Len(inner) = 1)
      <4>1. CASE m = n
        <5>1. inner[m] = less /\ Len(inner[m]) = Len(node) - 1 /\ Len(node) <= t.cap
          BY <1>1, <2>2, <2>4, <4>1
        <5>2. Len(inner[m]) = 0 => Len(node) = 1
          BY <1>1, <5>1
        <5>3. Len(inner[m]) = 0 => Len(t.inner) = 1
          <6>1. Len(node) = 1 => Len(t.inner) = 1
            <7>1. Len(t.inner) > 1 \/ Len(t.inner) = 1
              <8> DEFINE L == Len(t.inner)
              <8>1. L \in Nat /\ L >= 1
                BY <1>1
              <8> HIDE DEF L
              <8>2. L > 1 \/ L = 1
                BY <8>1
              <8> QED
                BY <8>2 DEF L
            <7> QED
              BY <1>5, <7>1
          <6> QED
            BY <5>2, <6>1
        <5> HIDE DEF node
        <5> QED
          BY <1>1, <2>4, <5>1, <5>3
      <4>2. CASE m # n
        BY <1>1, <2>4, <4>2
      <4> QED
        BY <4>1, <4>2
    <3>2. Len(inner) >= 1
      BY <1>1, <2>4
    <3> QED
      BY <3>1, <3>2 DEF NodesFit
  <2>7. [t.index EXCEPT ![n] = t.index[n] - 1] = Lengths(inner)
    <3>1. [Lengths(t.inner) EXCEPT ![n] = Len(inner[n])] = Lengths(inner)
      <4>1. /\ t.inner \in Nodes /\ inner \in Nodes /\ Len(inner) = Len(t.inner)
            /\ n \in 1 .. Len(t.inner)
        BY <1>1, <2>4
      <4>2. \A m \in 1 .. Len(t.inner) : m # n => inner[m] = t.inner[m]
        BY <2>4
      <4> QED
        BY ONLY <4>1, <4>2, LengthsDiffer
    <3>2. t.index[n] - 1 = Len(inner[n])
      <4>1. t.index[n] = Len(node)
        BY <1>1, LengthsType
      <4> QED
        BY <1>1, <2>2, <2>4, <4>1
    <3> QED
      BY <1>1, <3>1, <3>2
  <2>8. R = Rebuilt(inner, t.cap)
    <3>1. Cardinality(ItemSet(inner)) = t.len - 1
      BY <1>3, <2>5
    <3>2. t = [inner |-> t.inner, index |-> t.index, len |-> t.len, cap |-> t.cap]
      BY TreesType
    <3>3. R = [inner |-> inner, index |-> Lengths(inner), len |-> t.len - 1, cap |-> t.cap]
      BY <2>1, <2>7, <3>2
    <3> QED
      BY <3>1, <3>3 DEF Rebuilt
  <2>9. R \in Trees
    BY <1>1, <2>4, <2>6, <2>8, RebuiltType
  <2>10. R.inner = inner /\ R.cap = t.cap /\ R.len = t.len - 1
    BY <1>3, <2>5, <2>8 DEF Rebuilt
  <2>11. Without(t, x, R)
    BY <2>5, <2>9, <2>10 DEF Without
  <2>12. SameBefore(t, n, i, R)
    BY <1>1, <2>2, <2>4, <2>10 DEF SameBefore
  <2> QED
    BY <1>2, <2>11, <2>12 DEF R
<1> QED
  BY <1>4, <1>5

\* The tree with one item in place of another.
Swapped(t, old, new, r) ==
    /\ r \in Trees /\ r.cap = t.cap /\ r.len = t.len
    /\ ItemSet(r.inner) = (ItemSet(t.inner) \ {old}) \cup {new}

\* get_mut and the like: the value changes and the key stays.
LEMMA AssignIs ==
    ASSUME NEW t \in Trees, NEW n \in 1 .. Len(t.inner), NEW i \in 1 .. Len(t.inner[n]),
           NEW item \in Item, Key(item) = Key(t.inner[n][i])
    PROVE  Swapped(t, t.inner[n][i], item, Assign(t, <<n, i>>, item))
<1> DEFINE R == Assign(t, <<n, i>>, item)
           node == t.inner[n]
           new == [node EXCEPT ![i] = item]
           inner == [t.inner EXCEPT ![n] = new]
           x == node[i]
<1>1. /\ t.inner \in Nodes /\ NodesSorted(t.inner) /\ node \in Node /\ Sorted(node)
      /\ Len(t.inner) \in Nat /\ Len(t.inner) >= 1 /\ Len(node) \in Nat
      /\ t.cap \in 2 .. DefaultCapacity /\ t.index = Lengths(t.inner)
      /\ t.len = Cardinality(ItemSet(t.inner)) /\ IsFiniteSet(ItemSet(t.inner))
      /\ NodesFit(t.inner, t.cap)
  BY TreesType, NodesType, ItemSetFinite DEF NodesSorted
<1>2. x \in ToSet(node) /\ x \in ItemSet(t.inner) /\ \A y \in ToSet(node) : y \in ItemSet(t.inner)
  BY <1>1, NodesType
<1>3. R = [t EXCEPT !.inner = inner]
  BY DEF Assign
<1>4. /\ new \in Node /\ Len(new) = Len(node)
      /\ \A j \in 1 .. Len(node) : new[j] = IF j = i THEN item ELSE node[j]
  BY <1>1, ExceptSeq DEF Node
<1> HIDE DEF new
<1>5. Sorted(new)
  <2>1. \A j \in 1 .. Len(node) : Key(new[j]) = Key(node[j])
    BY <1>4
  <2> HIDE DEF node
  <2> QED
    BY <1>1, <1>4, <2>1 DEF Sorted
<1>6. ToSet(new) = (ToSet(node) \ {x}) \cup {item}
  <2>1. \A y : y \in ToSet(new) <=> \E j \in 1 .. Len(node) : y = new[j]
    BY <1>4, NodeType
  <2>2. \A y : y \in ToSet(node) <=> \E j \in 1 .. Len(node) : y = node[j]
    BY <1>1, NodeType
  <2>3. \A j \in 1 .. Len(node) : node[j] = x <=> j = i
    BY <1>1, SortedPlaces
  <2> QED
    BY <1>4, <2>1, <2>2, <2>3
<1>7. Replaced(t.inner, n, new, inner)
  <2>1. ASSUME NEW m \in 1 .. Len(t.inner)
        PROVE  (m < n => Precedes(t.inner[m], new)) /\ (m > n => Precedes(new, t.inner[m]))
    <3>1. (m < n => Precedes(t.inner[m], node)) /\ (m > n => Precedes(node, t.inner[m]))
      BY <1>1 DEF NodesSorted
    <3>2. \A y \in ToSet(new) : \E z \in ToSet(node) : Key(y) = Key(z)
      BY <1>2, <1>6
    <3> QED
      BY <3>1, <3>2 DEF Precedes
  <2> QED
    BY <1>1, <1>4, <1>5, <2>1, NodeReplaced
<1> HIDE DEF inner, R
<1>8. /\ inner \in Nodes /\ Len(inner) = Len(t.inner) /\ NodesSorted(inner)
      /\ \A m \in 1 .. Len(t.inner) : inner[m] = IF m = n THEN new ELSE t.inner[m]
      /\ ItemSet(inner) = (ItemSet(t.inner) \ ToSet(node)) \cup ToSet(new)
  BY <1>7 DEF Replaced
<1>9. \A m \in 1 .. Len(t.inner) : Len(inner[m]) = Len(t.inner[m])
  BY <1>4, <1>8
<1>10. NodesFit(inner, t.cap)
  BY <1>1, <1>8, <1>9 DEF NodesFit
<1>11. Lengths(inner) = t.index
  BY <1>1, <1>8, <1>9, NodesType DEF Lengths
<1>12. ItemSet(inner) = (ItemSet(t.inner) \ {x}) \cup {item}
  <2>1. \A y \in ItemSet(t.inner) : y = item => y \in ToSet(node)
    <3> SUFFICES ASSUME item \in ItemSet(t.inner) PROVE item \in ToSet(node)
      OBVIOUS
    <3>1. item = x
      BY <1>1, <1>2, OneItemPerKey
    <3> QED
      BY <1>2, <3>1
  <2> QED
    BY <1>2, <1>6, <1>8, <2>1
<1>13. Cardinality(ItemSet(inner)) = t.len
  <2>1. Cardinality(ItemSet(t.inner) \ {x}) = t.len - 1 /\ IsFiniteSet(ItemSet(t.inner) \ {x})
    <3> DEFINE S == ItemSet(t.inner)
    <3> HIDE DEF S, x
    <3>1. IsFiniteSet(S) /\ x \in S
      BY <1>1, <1>2 DEF S
    <3>2. Cardinality(S \ {x}) = Cardinality(S) - 1 /\ IsFiniteSet(S \ {x})
      BY <3>1, FS_RemoveElement
    <3> QED
      BY <1>1, <3>2 DEF S
  <2>2. item \notin ItemSet(t.inner) \ {x}
    BY <1>1, <1>2, OneItemPerKey
  <2>3. Cardinality((ItemSet(t.inner) \ {x}) \cup {item}) = t.len - 1 + 1
    BY <2>1, <2>2, FS_AddElement
  <2> QED
    BY <1>12, <2>3, TreesType
<1>14. R = Rebuilt(inner, t.cap)
  <2>1. t = [inner |-> t.inner, index |-> t.index, len |-> t.len, cap |-> t.cap]
    BY TreesType
  <2>2. R = [inner |-> inner, index |-> t.index, len |-> t.len, cap |-> t.cap]
    BY <1>3, <2>1
  <2> QED
    BY <1>11, <1>13, <2>2 DEF Rebuilt
<1>15. R \in Trees
  BY <1>1, <1>8, <1>10, <1>14, RebuiltType
<1>16. R.inner = inner /\ R.cap = t.cap /\ R.len = t.len
  BY <1>13, <1>14 DEF Rebuilt
<1> QED
  BY <1>12, <1>15, <1>16 DEF Swapped, R

-----------------------------------------------------------------------------
(* The calls by key *)

But(S, k) == {x \in S : Key(x) # k}

\* An answer with the item of the key, or with none.
Found(t, k, a) ==
    /\ \A x \in ItemSet(t.inner) : Key(x) = k => a = <<x>>
    /\ ~HasKey(t.inner, k) => a = <<>>

\* The tree with the item, whether it had one with that key or not.
PutIn(t, item, r) ==
    /\ r \in Trees /\ r.cap = t.cap
    /\ ItemSet(r.inner) = But(ItemSet(t.inner), Key(item)) \cup {item}
    /\ HasKey(t.inner, Key(item)) => r.len = t.len
    /\ ~HasKey(t.inner, Key(item)) => r.len = t.len + 1

\* The tree without its item of the key, and that item.
TakenOut(t, k, r, a) ==
    /\ r \in Trees /\ r.cap = t.cap
    /\ ItemSet(r.inner) = But(ItemSet(t.inner), k)
    /\ Found(t, k, a)
    /\ HasKey(t.inner, k) => r.len = t.len - 1
    /\ ~HasKey(t.inner, k) => r = t

\* The items but those of a key: all but one, or all.
LEMMA ButOne ==
    ASSUME NEW inner \in Nodes, NodesSorted(inner), NEW k
    PROVE  /\ \A x \in ItemSet(inner) : Key(x) = k => But(ItemSet(inner), k) = ItemSet(inner) \ {x}
           /\ ~HasKey(inner, k) => But(ItemSet(inner), k) = ItemSet(inner)
<1>1. ASSUME NEW x \in ItemSet(inner), Key(x) = k
      PROVE  But(ItemSet(inner), k) = ItemSet(inner) \ {x}
  <2>1. \A y \in ItemSet(inner) : Key(y) = k <=> y = x
    BY <1>1, OneItemPerKey
  <2> QED
    BY <2>1 DEF But
<1>2. ~HasKey(inner, k) => But(ItemSet(inner), k) = ItemSet(inner)
  BY DEF But, HasKey
<1> QED
  BY <1>1, <1>2

\* What find_cmp, contains and the places they go by are, for a key that is there.
LEMMA PlaceOfKey ==
    ASSUME NEW t \in Trees, NEW k \in Int, HasKey(t.inner, k)
    PROVE  \E n \in 1 .. Len(t.inner) : \E i \in 1 .. Len(t.inner[n]) :
             /\ LocateValue(t, k) = <<n, i>> /\ FindCmp(t, k).at = <<n, i>>
             /\ t.inner[n][i] \in ItemSet(t.inner) /\ Key(t.inner[n][i]) = k
             /\ ItemAt(t, <<n, i>>) = <<t.inner[n][i]>>
             /\ Found(t, k, <<t.inner[n][i]>>)
<1>1. PICK x \in ItemSet(t.inner) : Key(x) = k
  BY DEF HasKey
<1>2. PICK n \in 1 .. Len(t.inner) : \E i \in 1 .. Len(t.inner[n]) :
             LocateValue(t, k) = <<n, i>> /\ t.inner[n][i] = x
  BY <1>1, FindsItem
<1>3. PICK i \in 1 .. Len(t.inner[n]) : LocateValue(t, k) = <<n, i>> /\ t.inner[n][i] = x
  BY <1>2
<1>4. ItemAt(t, <<n, i>>) = <<x>> /\ FindCmp(t, k).at = <<n, i>>
  BY <1>1, <1>3, FindsItem
<1>5. Found(t, k, <<x>>)
  <2>1. \A y \in ItemSet(t.inner) : Key(y) = k => y = x
    BY <1>1, TreesType, OneItemPerKey
  <2> QED
    BY <2>1 DEF Found, HasKey
<1> QED
  BY <1>1, <1>3, <1>4, <1>5

\* contains, contains_cmp and find_cmp agree, whatever node they start from.
LEMMA HasKeyIs ==
    ASSUME NEW t \in Trees, NEW k \in Int
    PROVE  /\ ContainsKey(t, k) <=> HasKey(t.inner, k)
           /\ FindCmp(t, k).exists <=> HasKey(t.inner, k)
           /\ ContainsCmp(t, k) <=> HasKey(t.inner, k)
           /\ FindCmp(t, k).at = LocateValue(t, k)
           /\ FindCmp(t, k).at[1] = LocateNode(t, k)
BY FindsItem DEF Holds, HasKey

\* BTreeSet::insert
LEMMA TreeInsertIs ==
    ASSUME NEW t \in Trees, NEW item \in Item
    PROVE  LET r == TreeInsert(t, item) IN
           /\ WithItem(t, item, r.tree)
           /\ r.answer <=> ~HasKey(t.inner, Key(item))
<1> DEFINE after == TreeInsertAt(t, LocateNode(t, Key(item)), item)
<1>1. TreeInsert(t, item) = [tree |-> after, answer |-> after.len > t.len]
  BY DEF TreeInsert, Result
<1>2. WithItem(t, item, after)
  <2>1. Around(t.inner, LocateNode(t, Key(item)), Key(item))
    BY KeyType, LocateNodeAround
  <2> QED
    BY <2>1, TreeInsertAtIs
<1> HIDE DEF after
<1>3. (after.len > t.len) <=> ~HasKey(t.inner, Key(item))
  <2>1. t.len \in Nat
    BY TreesType
  <2> QED
    BY <1>2, <2>1 DEF WithItem
<1>4. TreeInsert(t, item).answer = (after.len > t.len) /\ TreeInsert(t, item).tree = after
  BY <1>1
<1> QED
  BY <1>2, <1>3, <1>4, Zenon

\* delete, delete_cmp
LEMMA DeleteIs ==
    ASSUME NEW t \in Trees, NEW k \in Int
    PROVE  /\ TakenOut(t, k, Delete(t, k).tree, Delete(t, k).answer)
           /\ DeleteCmp(t, k) = Delete(t, k)
<1>1. CASE HasKey(t.inner, k)
  <2>1. PICK n \in 1 .. Len(t.inner) : \E i \in 1 .. Len(t.inner[n]) :
             /\ LocateValue(t, k) = <<n, i>> /\ FindCmp(t, k).at = <<n, i>>
             /\ t.inner[n][i] \in ItemSet(t.inner) /\ Key(t.inner[n][i]) = k
             /\ ItemAt(t, <<n, i>>) = <<t.inner[n][i]>>
             /\ Found(t, k, <<t.inner[n][i]>>)
    BY <1>1, PlaceOfKey
  <2>2. PICK i \in 1 .. Len(t.inner[n]) :
             /\ LocateValue(t, k) = <<n, i>> /\ FindCmp(t, k).at = <<n, i>>
             /\ t.inner[n][i] \in ItemSet(t.inner) /\ Key(t.inner[n][i]) = k
             /\ ItemAt(t, <<n, i>>) = <<t.inner[n][i]>>
             /\ Found(t, k, <<t.inner[n][i]>>)
    BY <2>1
  <2> DEFINE x == t.inner[n][i]
             r == DeleteAt(t, <<n, i>>)
  <2>3. Delete(t, k) = [tree |-> r, answer |-> <<x>>]
    BY <1>1, <2>2, HasKeyIs DEF Delete, Result
  <2>4. DeleteCmp(t, k) = [tree |-> r, answer |-> <<x>>]
    BY <1>1, <2>2, HasKeyIs DEF DeleteCmp, Result
  <2>5. Without(t, x, r)
    BY DeleteAtIs
  <2>6. But(ItemSet(t.inner), k) = ItemSet(t.inner) \ {x}
    BY <2>2, TreesType, ButOne
  <2> HIDE DEF x, r
  <2>7. TakenOut(t, k, r, <<x>>)
    BY <1>1, <2>2, <2>5, <2>6 DEF TakenOut, Without, x
  <2> QED
    BY <2>3, <2>4, <2>7
<1>2. CASE ~HasKey(t.inner, k)
  <2>1. Delete(t, k) = [tree |-> t, answer |-> <<>>]
    BY <1>2, HasKeyIs DEF Delete, Result, None
  <2>2. DeleteCmp(t, k) = [tree |-> t, answer |-> <<>>]
    BY <1>2, HasKeyIs DEF DeleteCmp, Result, None
  <2>3. But(ItemSet(t.inner), k) = ItemSet(t.inner)
    BY <1>2, TreesType, ButOne
  <2>4. TakenOut(t, k, t, <<>>)
    BY <1>2, <2>3 DEF TakenOut, Found, HasKey
  <2> QED
    BY <2>1, <2>2, <2>4
<1> QED
  BY <1>1, <1>2

\* replace of the set, put of TreeAppend
LEMMA TreeReplaceIs ==
    ASSUME NEW t \in Trees, NEW item \in Item
    PROVE  /\ PutIn(t, item, TreeReplace(t, item).tree)
           /\ Found(t, Key(item), TreeReplace(t, item).answer)
<1> DEFINE k == Key(item)
           taken == Delete(t, k)
           r == TreeInsert(taken.tree, item)
<1>1. TreeReplace(t, item) = [tree |-> r.tree, answer |-> taken.answer]
  BY DEF TreeReplace, Take, Result
<1>2. k \in Int
  BY KeyType
<1>3. TakenOut(t, k, taken.tree, taken.answer)
  <2> HIDE DEF k
  <2> QED
    BY <1>2, DeleteIs
<1> HIDE DEF taken
<1>4. taken.tree \in Trees /\ ItemSet(taken.tree.inner) = But(ItemSet(t.inner), k)
  BY <1>3 DEF TakenOut
<1>5. WithItem(taken.tree, item, r.tree)
  BY <1>4, TreeInsertIs
<1> HIDE DEF r
<1>6. ~HasKey(taken.tree.inner, k)
  BY <1>4 DEF HasKey, But
<1>7. /\ r.tree \in Trees /\ r.tree.cap = t.cap
      /\ ItemSet(r.tree.inner) = But(ItemSet(t.inner), k) \cup {item}
      /\ r.tree.len = taken.tree.len + 1
  BY <1>3, <1>4, <1>5, <1>6 DEF WithItem, TakenOut
<1>8. /\ HasKey(t.inner, k) => r.tree.len = t.len
      /\ ~HasKey(t.inner, k) => r.tree.len = t.len + 1
  <2>1. t.len \in Nat
    BY TreesType
  <2>2. /\ HasKey(t.inner, k) => taken.tree.len = t.len - 1
        /\ ~HasKey(t.inner, k) => taken.tree.len = t.len
    BY <1>3 DEF TakenOut
  <2> QED
    BY <1>7, <2>1, <2>2
<1>9. Found(t, k, taken.answer)
  BY <1>3 DEF TakenOut
<1>10. PutIn(t, item, r.tree)
  BY <1>7, <1>8 DEF PutIn
<1> QED
  BY <1>1, <1>9, <1>10

\* A changed value of a key is a put of the key with that value.
LEMMA SwapPuts ==
    ASSUME NEW t \in Trees, NEW k \in Keys, NEW v \in Values, HasKey(t.inner, k),
           NEW n \in 1 .. Len(t.inner), NEW i \in 1 .. Len(t.inner[n]),
           Key(t.inner[n][i]) = k
    PROVE  PutIn(t, <<k, v>>, Assign(t, <<n, i>>, <<k, v>>))
<1> DEFINE item == <<k, v>>
           r == Assign(t, <<n, i>>, item)
           x == t.inner[n][i]
<1>1. item \in Item /\ Key(item) = k
  BY KeyType
<1>2. x \in ItemSet(t.inner)
  BY TreesType, NodesType
<1> HIDE DEF item
<1>3. Swapped(t, x, item, r)
  BY <1>1, AssignIs
<1>4. But(ItemSet(t.inner), k) = ItemSet(t.inner) \ {x}
  BY <1>2, TreesType, ButOne
<1> HIDE DEF r, x
<1>5. PutIn(t, item, r)
  BY <1>1, <1>3, <1>4 DEF PutIn, Swapped
<1> QED
  BY <1>5 DEF item, r, x

\* BTreeMap::insert
LEMMA MapInsertIs ==
    ASSUME NEW t \in Trees, NEW k \in Keys, NEW v \in Values
    PROVE  /\ PutIn(t, <<k, v>>, MapInsert(t, k, v).tree)
           /\ Found(t, k, MapInsert(t, k, v).answer)
<1> DEFINE item == <<k, v>>
<1>1. item \in Item /\ Key(item) = k /\ k \in Int
  BY KeyType
<1>2. CASE HasKey(t.inner, k)
  <2>1. PICK n \in 1 .. Len(t.inner) : \E i \in 1 .. Len(t.inner[n]) :
             /\ LocateValue(t, k) = <<n, i>> /\ FindCmp(t, k).at = <<n, i>>
             /\ t.inner[n][i] \in ItemSet(t.inner) /\ Key(t.inner[n][i]) = k
             /\ ItemAt(t, <<n, i>>) = <<t.inner[n][i]>>
             /\ Found(t, k, <<t.inner[n][i]>>)
    BY <1>1, <1>2, PlaceOfKey
  <2>2. PICK i \in 1 .. Len(t.inner[n]) :
             /\ LocateValue(t, k) = <<n, i>> /\ FindCmp(t, k).at = <<n, i>>
             /\ t.inner[n][i] \in ItemSet(t.inner) /\ Key(t.inner[n][i]) = k
             /\ ItemAt(t, <<n, i>>) = <<t.inner[n][i]>>
             /\ Found(t, k, <<t.inner[n][i]>>)
    BY <2>1
  <2>3. MapInsert(t, k, v) =
          [tree |-> Assign(t, <<n, i>>, <<k, v>>), answer |-> <<t.inner[n][i]>>]
    BY <1>1, <1>2, <2>2, HasKeyIs DEF MapInsert, Result
  <2>4. PutIn(t, <<k, v>>, Assign(t, <<n, i>>, <<k, v>>))
    BY <1>2, <2>2, SwapPuts
  <2> QED
    BY <2>2, <2>3, <2>4
<1>3. CASE ~HasKey(t.inner, k)
  <2> DEFINE r == TreeInsertAt(t, LocateNode(t, k), item)
  <2>1. MapInsert(t, k, v) = [tree |-> r, answer |-> <<>>]
    BY <1>1, <1>3, HasKeyIs DEF MapInsert, Result, None
  <2> HIDE DEF item
  <2>2. WithItem(t, item, r)
    <3>1. Around(t.inner, LocateNode(t, k), k)
      BY <1>1, LocateNodeAround
    <3> QED
      BY <1>1, <3>1, TreeInsertAtIs
  <2> HIDE DEF r
  <2>3. But(ItemSet(t.inner), k) = ItemSet(t.inner)
    BY <1>3, TreesType, ButOne
  <2>4. PutIn(t, item, r)
    BY <1>1, <1>3, <2>2, <2>3 DEF PutIn, WithItem
  <2>5. Found(t, k, <<>>)
    BY <1>3 DEF Found, HasKey
  <2> QED
    BY <2>1, <2>4, <2>5 DEF item
<1> QED
  BY <1>2, <1>3

-----------------------------------------------------------------------------
(* The calls by rank, and the entries *)

\* The tree without the item that idx others are below, and that item.
Popped(t, idx, r, a) ==
    /\ idx < t.len =>
         \E x \in ItemSet(t.inner) :
           RankIn(ItemSet(t.inner), Key(x)) = idx /\ a = <<x>> /\ Without(t, x, r)
    /\ idx >= t.len => r = t /\ a = <<>>

\* The rank of an item is the sum of the lengths before its node, and its place there.
LEMMA RankAt ==
    ASSUME NEW t \in Trees, NEW n \in 1 .. Len(t.inner), NEW i \in 1 .. Len(t.inner[n])
    PROVE  /\ t.inner[n][i] \in ItemSet(t.inner)
           /\ RankIn(ItemSet(t.inner), Key(t.inner[n][i])) = PrefixSum(t, n - 1) + i - 1
           /\ RankIn(ItemSet(t.inner), Key(t.inner[n][i])) < t.len
           /\ ItemAt(t, <<n, i>>) = <<t.inner[n][i]>>
<1> DEFINE x == t.inner[n][i]
           S == ItemSet(t.inner)
<1>1. /\ Key(x) \in Int /\ x \in ToSet(t.inner[n])
      /\ DOMAIN t.inner = 1 .. Len(t.inner)
      /\ DOMAIN t.inner[n] = 1 .. Len(t.inner[n])
  BY TreesType, NodesType
<1>2. x \in S
  BY <1>1, TreesType, NodesType
<1>3. Divides(t.inner, n, i, Key(x))
  BY TreesType, PlaceDivides
<1>4. RankIn(S, Key(x)) = PrefixSum(t, n - 1) + i - 1
  BY <1>1, <1>3, TreesType, RankOfPlace DEF PrefixSum
<1>5. RankIn(S, Key(x)) < t.len
  <2>1. S \in SUBSET Item /\ IsFiniteSet(S) /\ t.len = Cardinality(S)
    BY TreesType, ItemSetFinite
  <2> HIDE DEF S, x
  <2> QED
    BY <1>1, <1>2, <2>1, RanksApart
<1>6. ItemAt(t, <<n, i>>) = <<x>>
  BY <1>1 DEF ItemAt, Some
<1> QED
  BY <1>2, <1>4, <1>5, <1>6

\* pop_first, pop_index and pop_last: the item at a place is answered and is gone.
LEMMA PopAtIs ==
    ASSUME NEW t \in Trees, NEW n \in 1 .. Len(t.inner), NEW i \in 1 .. Len(t.inner[n])
    PROVE  LET r == PopAt(t, <<n, i>>) IN
           /\ r.answer = <<t.inner[n][i]>>
           /\ Without(t, t.inner[n][i], r.tree)
<1>1. ItemAt(t, <<n, i>>) = <<t.inner[n][i]>> /\ ItemAt(t, <<n, i>>) # None
  <2>1. ItemAt(t, <<n, i>>) = <<t.inner[n][i]>>
    BY RankAt
  <2>2. <<t.inner[n][i]>> # None
    BY SomeIsNotNone
  <2> QED
    BY <2>1, <2>2
<1>2. PopAt(t, <<n, i>>) = [tree |-> DeleteAt(t, <<n, i>>), answer |-> <<t.inner[n][i]>>]
  BY <1>1 DEF PopAt, Result
<1>3. Without(t, t.inner[n][i], DeleteAt(t, <<n, i>>))
  BY DeleteAtIs
<1> QED
  BY <1>2, <1>3

\* pop_index, remove of an occupied entry
LEMMA PopIndexIs ==
    ASSUME NEW t \in Trees, NEW idx \in Nat
    PROVE  Popped(t, idx, PopIndex(t, idx).tree, PopIndex(t, idx).answer)
<1> DEFINE r == PopIndex(t, idx)
<1>1. ASSUME idx < t.len
      PROVE  \E x \in ItemSet(t.inner) :
               /\ RankIn(ItemSet(t.inner), Key(x)) = idx
               /\ r.answer = <<x>> /\ Without(t, x, r.tree)
  <2>1. PICK n \in 1 .. Len(t.inner) : \E i \in 1 .. Len(t.inner[n]) :
          LocateIth(t, idx) = <<n, i>> /\ PrefixSum(t, n - 1) + i - 1 = idx
    BY <1>1, LocateIthIs
  <2>2. PICK i \in 1 .. Len(t.inner[n]) :
          LocateIth(t, idx) = <<n, i>> /\ PrefixSum(t, n - 1) + i - 1 = idx
    BY <2>1
  <2>3. r = PopAt(t, <<n, i>>)
    BY <2>2 DEF PopIndex
  <2>4. t.inner[n][i] \in ItemSet(t.inner) /\ RankIn(ItemSet(t.inner), Key(t.inner[n][i])) = idx
    BY <2>2, RankAt
  <2> QED
    BY <2>3, <2>4, PopAtIs
<1>2. ASSUME idx >= t.len PROVE r.tree = t /\ r.answer = <<>>
  <2>1. ItemAt(t, LocateIth(t, idx)) = <<>>
    BY <1>2, LocateIthIs
  <2>2. r = [tree |-> t, answer |-> <<>>]
    BY <2>1 DEF PopIndex, PopAt, Result, None
  <2> QED
    BY <2>2
<1> QED
  BY <1>1, <1>2 DEF Popped

\* Max of FiniteSetsExt where the code counts at least one node.
LEMMA MaxWithOne ==
    /\ Max({1, 0}) = 1
    /\ \A i \in Int : Max({1, i}) = IF 1 >= i THEN 1 ELSE i
<1>1. PICK one \in Int : one = 1
  OBVIOUS
<1>2. ASSUME NEW i \in Int PROVE Max({one, i}) = IF one >= i THEN one ELSE i
  BY MinMaxOfTwo
<1>3. \A i \in Int : Max({1, i}) = IF 1 >= i THEN 1 ELSE i
  BY <1>1, <1>2
<1>4. PICK zero \in Int : zero = 0
  OBVIOUS
<1>5. Max({1, zero}) = IF 1 >= zero THEN 1 ELSE zero
  BY <1>3
<1> QED
  BY <1>3, <1>4, <1>5

\* pop_first, pop_last, and the two ends of an IntoIter
LEMMA PopEndsIs ==
    ASSUME NEW t \in Trees
    PROVE  /\ Popped(t, 0, PopFirst(t).tree, PopFirst(t).answer)
           /\ \A last \in Nat : last = (IF t.len = 0 THEN 0 ELSE t.len - 1) =>
                Popped(t, last, PopLast(t).tree, PopLast(t).answer)
<1> DEFINE L == Len(t.inner)
<1>1. /\ t.inner \in Nodes /\ NodesFit(t.inner, t.cap) /\ L \in Nat /\ L >= 1
      /\ t.len \in Nat /\ DOMAIN t.inner = 1 .. L
      /\ 1 \in 1 .. L /\ L \in 1 .. L
      /\ \A n \in 1 .. L : Len(t.inner[n]) \in Nat /\ DOMAIN t.inner[n] = 1 .. Len(t.inner[n])
  BY TreesType, NodesType
<1>2. Last(t.inner) = t.inner[L]
  <2>1. t.inner \in Seq(Node) /\ t.inner # <<>>
    <3>1. t.inner \in Seq(Node)
      BY <1>1 DEF Nodes
    <3> QED
      BY <1>1, <3>1, EmptySeq
  <2> QED
    BY <2>1 DEF Last
<1>3. /\ \A n \in 0 .. L : PrefixSum(t, n) \in Nat
      /\ PrefixSum(t, 0) = 0
      /\ PrefixSum(t, L) = t.len
      /\ PrefixSum(t, L) = PrefixSum(t, L - 1) + Len(t.inner[L])
  BY <1>1, SumsGrow
<1>4. t.len = 0 => L = 1 /\ Len(t.inner[1]) = 0
  <2> SUFFICES ASSUME t.len = 0 PROVE L = 1 /\ Len(t.inner[1]) = 0
    OBVIOUS
  <2>1. Len(t.inner[L]) = 0
    <3>1. PrefixSum(t, L - 1) \in Nat /\ Len(t.inner[L]) \in Nat
      <4>1. L - 1 \in 0 .. L
        BY <1>1
      <4> QED
        BY <1>1, <1>3, <4>1
    <3> HIDE DEF L
    <3> QED
      BY <1>3, <3>1
  <2>2. L = 1
    BY <1>1, <2>1 DEF NodesFit
  <2> QED
    BY <2>1, <2>2
<1>5. t.len # 0 => Len(t.inner[1]) >= 1 /\ Len(t.inner[L]) >= 1
  <2> SUFFICES ASSUME NEW n \in {1, L}, Len(t.inner[n]) = 0 PROVE t.len = 0
    BY <1>1
  <2>1. L = 1
    BY <1>1 DEF NodesFit
  <2>2. t.len = 0 + 0
    BY <1>3, <2>1
  <2> QED
    BY <2>2
<1>6. Popped(t, 0, PopFirst(t).tree, PopFirst(t).answer)
  <2>1. CASE t.len = 0
    <3>1. ItemAt(t, <<1, 1>>) = <<>>
      <4>1. 1 \notin DOMAIN t.inner[1]
        BY <1>1, <1>4, <2>1
      <4> QED
        BY <4>1 DEF ItemAt, None
    <3>2. PopFirst(t) = [tree |-> t, answer |-> <<>>]
      BY <3>1 DEF PopFirst, PopAt, Result, None
    <3> QED
      BY <2>1, <3>2 DEF Popped
  <2>2. CASE t.len # 0
    <3>1. PICK one \in 1 .. L : one = 1
      BY <1>1
    <3>2. PICK i \in 1 .. Len(t.inner[one]) : i = 1
      BY <1>1, <1>5, <2>2, <3>1
    <3>3. PopFirst(t) = PopAt(t, <<one, i>>)
      BY <3>1, <3>2 DEF PopFirst
    <3>4. /\ t.inner[one][i] \in ItemSet(t.inner)
          /\ RankIn(ItemSet(t.inner), Key(t.inner[one][i])) = PrefixSum(t, one - 1) + i - 1
      BY RankAt
    <3>5. PrefixSum(t, one - 1) + i - 1 = 0
      <4>1. one - 1 = 0
        BY <3>1
      <4> QED
        BY <1>3, <3>2, <4>1
    <3>6. PopAt(t, <<one, i>>).answer = <<t.inner[one][i]>>
          /\ Without(t, t.inner[one][i], PopAt(t, <<one, i>>).tree)
      BY PopAtIs
    <3>7. 0 < t.len /\ ~(0 >= t.len)
      BY <1>1, <2>2
    <3> QED
      BY <3>3, <3>4, <3>5, <3>6, <3>7 DEF Popped
  <2> QED
    BY <2>1, <2>2
<1>7. ASSUME NEW last \in Nat, last = (IF t.len = 0 THEN 0 ELSE t.len - 1)
      PROVE  Popped(t, last, PopLast(t).tree, PopLast(t).answer)
  <2>1. CASE t.len = 0
    <3>1. Max({1, Len(Last(t.inner))}) = 1
      <4>1. Len(Last(t.inner)) = 0
        BY <1>2, <1>4, <2>1
      <4> QED
        BY <4>1, MaxWithOne
    <3>2. ItemAt(t, <<L, 1>>) = <<>>
      <4>1. 1 \notin DOMAIN t.inner[L]
        BY <1>1, <1>4, <2>1
      <4> QED
        BY <4>1 DEF ItemAt, None
    <3>3. PopLast(t) = [tree |-> t, answer |-> <<>>]
      BY <3>1, <3>2 DEF PopLast, PopAt, Result, None
    <3> QED
      BY <1>7, <2>1, <3>3 DEF Popped
  <2>2. CASE t.len # 0
    <3>1. PICK n \in 1 .. L : n = L
      BY <1>1
    <3>2. PICK i \in 1 .. Len(t.inner[n]) : i = Len(t.inner[n])
      BY <1>1, <1>5, <2>2, <3>1
    <3>3. Max({1, Len(Last(t.inner))}) = i
      <4>1. i \in Int /\ i >= 1 /\ Len(Last(t.inner)) = i
        BY <1>1, <1>2, <3>1, <3>2
      <4>2. Max({1, i}) = IF 1 >= i THEN 1 ELSE i
        BY <4>1, MaxWithOne
      <4> QED
        BY <4>1, <4>2
    <3>4. PopLast(t) = PopAt(t, <<n, i>>)
      BY <3>1, <3>3 DEF PopLast
    <3>5. /\ t.inner[n][i] \in ItemSet(t.inner)
          /\ RankIn(ItemSet(t.inner), Key(t.inner[n][i])) = PrefixSum(t, n - 1) + i - 1
      BY RankAt
    <3>6. PrefixSum(t, n - 1) + i - 1 = last
      <4>1. L - 1 \in 0 .. L
        BY <1>1
      <4>2. PrefixSum(t, L - 1) \in Nat
        BY <1>3, <4>1
      <4>3. PrefixSum(t, n - 1) = PrefixSum(t, L - 1) /\ i = Len(t.inner[L])
        BY <3>1, <3>2
      <4>4. last = t.len - 1 /\ t.len = PrefixSum(t, L - 1) + Len(t.inner[L])
        BY <1>3, <1>7, <2>2
      <4>5. Len(t.inner[L]) \in Nat
        BY <1>1
      <4> DEFINE p == PrefixSum(t, L - 1)
                 c == Len(t.inner[L])
      <4> HIDE DEF L, p, c
      <4>6. p \in Nat /\ c \in Nat /\ last = p + c - 1
        BY <4>2, <4>4, <4>5 DEF p, c
      <4> QED
        BY <4>3, <4>6 DEF p, c
    <3>7. PopAt(t, <<n, i>>).answer = <<t.inner[n][i]>>
          /\ Without(t, t.inner[n][i], PopAt(t, <<n, i>>).tree)
      BY PopAtIs
    <3>8. last < t.len /\ ~(last >= t.len)
      BY <1>1, <1>7, <2>2
    <3> QED
      BY <3>4, <3>5, <3>6, <3>7, <3>8 DEF Popped
  <2> QED
    BY <2>1, <2>2
<1> QED
  BY <1>6, <1>7

\* An entry goes by the rank of its key, where the item is.
LEMMA EntryIs ==
    ASSUME NEW t \in Trees, NEW k \in Int
    PROVE  /\ ~HasKey(t.inner, k) => EntryOf(t, k) = <<>>
           /\ HasKey(t.inner, k) =>
                \E rank \in Nat : \E n \in 1 .. Len(t.inner) : \E i \in 1 .. Len(t.inner[n]) :
                  /\ EntryOf(t, k) = <<rank>> /\ rank < t.len
                  /\ rank = RankIn(ItemSet(t.inner), k)
                  /\ LocateIth(t, rank) = <<n, i>>
                  /\ ItemAt(t, <<n, i>>) = <<t.inner[n][i]>>
                  /\ Key(t.inner[n][i]) = k
                  /\ GetIndex(t, rank) = <<t.inner[n][i]>>
                  /\ Found(t, k, <<t.inner[n][i]>>)
<1> DEFINE S == ItemSet(t.inner)
           rank == RankIn(S, k)
<1>1. ~HasKey(t.inner, k) => EntryOf(t, k) = <<>>
  BY HasKeyIs DEF EntryOf, None
<1>2. ASSUME HasKey(t.inner, k)
      PROVE  \E n \in 1 .. Len(t.inner) : \E i \in 1 .. Len(t.inner[n]) :
                  /\ EntryOf(t, k) = <<rank>> /\ rank < t.len /\ rank \in Nat
                  /\ LocateIth(t, rank) = <<n, i>>
                  /\ ItemAt(t, <<n, i>>) = <<t.inner[n][i]>>
                  /\ Key(t.inner[n][i]) = k
                  /\ GetIndex(t, rank) = <<t.inner[n][i]>>
                  /\ Found(t, k, <<t.inner[n][i]>>)
  <2>1. EntryOf(t, k) = <<rank>>
    BY <1>2, HasKeyIs, RanksAre DEF EntryOf, Some
  <2>2. PICK x \in S : Key(x) = k
    BY <1>2 DEF HasKey
  <2>3. rank \in Nat /\ rank < t.len
    <3>1. S \in SUBSET Item /\ IsFiniteSet(S) /\ t.len = Cardinality(S)
      BY TreesType, ItemSetFinite
    <3> HIDE DEF S
    <3> QED
      BY <2>2, <3>1, RanksApart
  <2> HIDE DEF rank
  <2>4. PICK n \in 1 .. Len(t.inner) : \E i \in 1 .. Len(t.inner[n]) :
                  /\ LocateIth(t, rank) = <<n, i>>
                  /\ GetIndex(t, rank) = <<t.inner[n][i]>>
                  /\ t.inner[n][i] \in S
                  /\ RankIn(S, Key(t.inner[n][i])) = rank
    BY <2>3, GetIndexIs
  <2>5. PICK i \in 1 .. Len(t.inner[n]) :
                  /\ LocateIth(t, rank) = <<n, i>>
                  /\ GetIndex(t, rank) = <<t.inner[n][i]>>
                  /\ t.inner[n][i] \in S
                  /\ RankIn(S, Key(t.inner[n][i])) = rank
    BY <2>4
  <2>6. t.inner[n][i] = x
    BY <2>2, <2>5, TreesType, SameRankSameItem DEF rank
  <2>7. ItemAt(t, <<n, i>>) = <<t.inner[n][i]>>
    BY RankAt
  <2>8. Found(t, k, <<t.inner[n][i]>>)
    <3>1. \A y \in S : Key(y) = k => y = x
      BY <2>2, TreesType, OneItemPerKey
    <3> QED
      BY <1>2, <2>6, <3>1 DEF Found
  <2> QED
    BY <2>1, <2>2, <2>3, <2>5, <2>6, <2>7, <2>8
<1> QED
  BY <1>1, <1>2

\* VacantEntry::insert, or_insert: answers the item the key has then.
LEMMA OrInsertIs ==
    ASSUME NEW t \in Trees, NEW k \in Keys, NEW v \in Values
    PROVE  LET r == OrInsert(t, k, v) IN
           /\ WithItem(t, <<k, v>>, r.tree)
           /\ Found(r.tree, k, r.answer)
           /\ (r.tree.len > t.len) <=> ~HasKey(t.inner, k)
<1> DEFINE r == OrInsert(t, k, v)
           item == <<k, v>>
<1>1. item \in Item /\ Key(item) = k /\ k \in Int /\ t.len \in Nat
  BY KeyType, TreesType
<1>2. CASE HasKey(t.inner, k)
  <2>1. PICK rank \in Nat : \E n \in 1 .. Len(t.inner) : \E i \in 1 .. Len(t.inner[n]) :
                  /\ EntryOf(t, k) = <<rank>>
                  /\ GetIndex(t, rank) = <<t.inner[n][i]>>
                  /\ Found(t, k, <<t.inner[n][i]>>)
    BY <1>1, <1>2, EntryIs
  <2>2. EntryOf(t, k) # None /\ EntryOf(t, k)[1] = rank
    BY <2>1, SomeIsNotNone
  <2>3. r = [tree |-> t, answer |-> GetIndex(t, rank)]
    BY <2>2 DEF OrInsert, Result
  <2>4. r.tree = t /\ Found(t, k, r.answer)
    BY <2>1, <2>3
  <2> HIDE DEF r, item
  <2>5. WithItem(t, item, t)
    BY <1>1, <1>2 DEF WithItem
  <2> QED
    BY <1>1, <1>2, <2>4, <2>5 DEF r, item
<1>3. CASE ~HasKey(t.inner, k)
  <2> DEFINE rank == RankCmp(t, k)
             after == MapInsert(t, k, v).tree
             S == ItemSet(after.inner)
  <2>1. r = [tree |-> after, answer |-> GetIndex(after, rank)]
    <3>1. EntryOf(t, k) = None
      BY <1>1, <1>3, EntryIs DEF None
    <3> QED
      BY <3>1 DEF OrInsert, VacantInsert, Result
  <2>2. PutIn(t, item, after)
    BY MapInsertIs
  <2>3. rank = RankIn(ItemSet(t.inner), k)
    BY <1>1, RanksAre
  <2> HIDE DEF after, rank, item
  <2>4. /\ after \in Trees /\ after.cap = t.cap /\ after.len = t.len + 1
        /\ S = ItemSet(t.inner) \cup {item}
    <3>1. But(ItemSet(t.inner), k) = ItemSet(t.inner)
      BY <1>3, TreesType, ButOne
    <3> QED
      BY <1>1, <1>3, <2>2, <3>1 DEF PutIn
  <2>5. WithItem(t, item, after)
    BY <1>1, <1>3, <2>4 DEF WithItem
  <2>6. rank = RankIn(S, k)
    <3>1. {x \in S : Key(x) < k} = {x \in ItemSet(t.inner) : Key(x) < k}
      BY <1>1, <2>4
    <3> QED
      BY <2>3, <3>1 DEF RankIn
  <2>7. HasKey(after.inner, k) /\ item \in S
    BY <1>1, <2>4 DEF HasKey
  <2>8. PICK place \in Nat : \E n \in 1 .. Len(after.inner) : \E i \in 1 .. Len(after.inner[n]) :
                  /\ place = RankIn(S, k)
                  /\ GetIndex(after, place) = <<after.inner[n][i]>>
                  /\ Found(after, k, <<after.inner[n][i]>>)
    BY <1>1, <2>4, <2>7, EntryIs
  <2>9. Found(after, k, GetIndex(after, rank))
    BY <2>6, <2>8
  <2>10. r.tree = after /\ r.answer = GetIndex(after, rank)
    BY <2>1
  <2> HIDE DEF r
  <2> QED
    BY <1>1, <1>3, <2>4, <2>5, <2>9, <2>10 DEF r, item
<1> QED
  BY <1>2, <1>3

\* The tree with the value for the key, if it has the key.
Modified(t, k, v, r) ==
    /\ HasKey(t.inner, k) => PutIn(t, <<k, v>>, r)
    /\ ~HasKey(t.inner, k) => r = t

\* get_mut
LEMMA AssignAtKeyIs ==
    ASSUME NEW t \in Trees, NEW k \in Keys, NEW v \in Values
    PROVE  Modified(t, k, v, AssignAtKey(t, k, v))
<1>1. k \in Int
  BY KeyType, KeyAssumption
<1>2. CASE HasKey(t.inner, k)
  <2>1. PICK n \in 1 .. Len(t.inner) : \E i \in 1 .. Len(t.inner[n]) :
             FindCmp(t, k).at = <<n, i>> /\ Key(t.inner[n][i]) = k
    BY <1>1, <1>2, PlaceOfKey
  <2>2. PICK i \in 1 .. Len(t.inner[n]) :
             FindCmp(t, k).at = <<n, i>> /\ Key(t.inner[n][i]) = k
    BY <2>1
  <2>3. AssignAtKey(t, k, v) = Assign(t, <<n, i>>, <<k, v>>)
    BY <1>1, <1>2, <2>2, HasKeyIs DEF AssignAtKey
  <2> QED
    BY <1>2, <2>2, <2>3, SwapPuts DEF Modified
<1>3. CASE ~HasKey(t.inner, k)
  BY <1>1, <1>3, HasKeyIs DEF AssignAtKey, Modified
<1> QED
  BY <1>2, <1>3

\* get_mut_index by the rank of a key that is there: and_modify, insert of an entry
LEMMA AssignAtEntryIs ==
    ASSUME NEW t \in Trees, NEW k \in Keys, NEW v \in Values, HasKey(t.inner, k)
    PROVE  /\ EntryOf(t, k) # None
           /\ PutIn(t, <<k, v>>, AssignAtIndex(t, EntryOf(t, k)[1], v))
           /\ Found(t, k, GetIndex(t, EntryOf(t, k)[1]))
<1>1. k \in Int
  BY KeyType, KeyAssumption
<1>2. PICK rank \in Nat : \E n \in 1 .. Len(t.inner) : \E i \in 1 .. Len(t.inner[n]) :
                  /\ EntryOf(t, k) = <<rank>>
                  /\ LocateIth(t, rank) = <<n, i>>
                  /\ ItemAt(t, <<n, i>>) = <<t.inner[n][i]>>
                  /\ Key(t.inner[n][i]) = k
                  /\ GetIndex(t, rank) = <<t.inner[n][i]>>
                  /\ Found(t, k, <<t.inner[n][i]>>)
  BY <1>1, EntryIs
<1>3. PICK n \in 1 .. Len(t.inner) : \E i \in 1 .. Len(t.inner[n]) :
                  /\ EntryOf(t, k) = <<rank>>
                  /\ LocateIth(t, rank) = <<n, i>>
                  /\ ItemAt(t, <<n, i>>) = <<t.inner[n][i]>>
                  /\ Key(t.inner[n][i]) = k
                  /\ GetIndex(t, rank) = <<t.inner[n][i]>>
                  /\ Found(t, k, <<t.inner[n][i]>>)
  BY <1>2
<1>4. PICK i \in 1 .. Len(t.inner[n]) :
                  /\ EntryOf(t, k) = <<rank>>
                  /\ LocateIth(t, rank) = <<n, i>>
                  /\ ItemAt(t, <<n, i>>) = <<t.inner[n][i]>>
                  /\ Key(t.inner[n][i]) = k
                  /\ GetIndex(t, rank) = <<t.inner[n][i]>>
                  /\ Found(t, k, <<t.inner[n][i]>>)
  BY <1>3
<1>5. EntryOf(t, k) # None /\ EntryOf(t, k)[1] = rank
  BY <1>4, SomeIsNotNone
<1>6. AssignAtIndex(t, rank, v) = Assign(t, <<n, i>>, <<k, v>>)
  <2>1. <<t.inner[n][i]>> # None /\ <<t.inner[n][i]>>[1] = t.inner[n][i]
    BY SomeIsNotNone
  <2> QED
    BY <1>4, <2>1 DEF AssignAtIndex
<1>7. PutIn(t, <<k, v>>, Assign(t, <<n, i>>, <<k, v>>))
  BY <1>4, SwapPuts
<1> QED
  BY <1>4, <1>5, <1>6, <1>7

\* Entry::and_modify reaches the item of its key, or there is none.
LEMMA AndModifyIs ==
    ASSUME NEW t \in Trees, NEW k \in Keys, NEW v \in Values
    PROVE  /\ Modified(t, k, v, AndModify(t, k, v))
           /\ EntryOf(t, k) # None <=> HasKey(t.inner, k)
<1>1. k \in Int
  BY KeyType, KeyAssumption
<1>2. CASE HasKey(t.inner, k)
  BY <1>2, AssignAtEntryIs DEF AndModify, Modified
<1>3. CASE ~HasKey(t.inner, k)
  BY <1>1, <1>3, EntryIs DEF AndModify, Modified, None
<1> QED
  BY <1>2, <1>3

\* OccupiedEntry::remove goes by a rank where the key's item is.
LEMMA EntryRemoveIs ==
    ASSUME NEW t \in Trees, NEW k \in Keys, EntryOf(t, k) # None
    PROVE  LET r == OccupiedRemove(t, EntryOf(t, k)) IN
           HasKey(t.inner, k) /\ TakenOut(t, k, r.tree, r.answer)
<1> DEFINE r == OccupiedRemove(t, EntryOf(t, k))
<1>1. k \in Int
  BY KeyType, KeyAssumption
<1>2. HasKey(t.inner, k)
  BY <1>1, EntryIs DEF None
<1>3. PICK rank \in Nat : \E n \in 1 .. Len(t.inner) : \E i \in 1 .. Len(t.inner[n]) :
                  /\ EntryOf(t, k) = <<rank>>
                  /\ LocateIth(t, rank) = <<n, i>>
                  /\ Key(t.inner[n][i]) = k
                  /\ Found(t, k, <<t.inner[n][i]>>)
  BY <1>1, <1>2, EntryIs
<1>4. PICK n \in 1 .. Len(t.inner) : \E i \in 1 .. Len(t.inner[n]) :
                  /\ EntryOf(t, k) = <<rank>>
                  /\ LocateIth(t, rank) = <<n, i>>
                  /\ Key(t.inner[n][i]) = k
                  /\ Found(t, k, <<t.inner[n][i]>>)
  BY <1>3
<1>5. PICK i \in 1 .. Len(t.inner[n]) :
                  /\ EntryOf(t, k) = <<rank>>
                  /\ LocateIth(t, rank) = <<n, i>>
                  /\ Key(t.inner[n][i]) = k
                  /\ Found(t, k, <<t.inner[n][i]>>)
  BY <1>4
<1>6. EntryOf(t, k)[1] = rank
  BY <1>5, SomeIsNotNone
<1>7. r = PopAt(t, <<n, i>>)
  BY <1>5, <1>6 DEF OccupiedRemove, PopIndex
<1> DEFINE x == t.inner[n][i]
<1>8. r.answer = <<x>> /\ Without(t, x, r.tree) /\ x \in ItemSet(t.inner)
  BY <1>7, PopAtIs, RankAt
<1>9. But(ItemSet(t.inner), k) = ItemSet(t.inner) \ {x}
  BY <1>5, <1>8, TreesType, ButOne
<1> HIDE DEF r, x
<1>10. TakenOut(t, k, r.tree, r.answer)
  BY <1>2, <1>5, <1>8, <1>9 DEF TakenOut, Without, x
<1> QED
  BY <1>2, <1>10 DEF r

\* get_key_value
LEMMA GetKeyValueIs ==
    ASSUME NEW t \in Trees, NEW k \in Int
    PROVE  Found(t, k, GetKeyValue(t, k)) /\ (GetKeyValue(t, k) # None <=> HasKey(t.inner, k))
<1>1. CASE HasKey(t.inner, k)
  <2>1. PICK n \in 1 .. Len(t.inner) : \E i \in 1 .. Len(t.inner[n]) :
             /\ FindCmp(t, k).at = <<n, i>>
             /\ ItemAt(t, <<n, i>>) = <<t.inner[n][i]>>
             /\ Found(t, k, <<t.inner[n][i]>>)
    BY <1>1, PlaceOfKey
  <2>2. PICK i \in 1 .. Len(t.inner[n]) :
             /\ FindCmp(t, k).at = <<n, i>>
             /\ ItemAt(t, <<n, i>>) = <<t.inner[n][i]>>
             /\ Found(t, k, <<t.inner[n][i]>>)
    BY <2>1
  <2>3. GetKeyValue(t, k) = <<t.inner[n][i]>>
    BY <1>1, <2>2, HasKeyIs DEF GetKeyValue
  <2>4. <<t.inner[n][i]>> # None
    BY SomeIsNotNone
  <2> QED
    BY <1>1, <2>2, <2>3, <2>4
<1>2. CASE ~HasKey(t.inner, k)
  <2>1. GetKeyValue(t, k) = <<>>
    BY <1>2, HasKeyIs DEF GetKeyValue, None
  <2> QED
    BY <1>2, <2>1 DEF Found, HasKey, None
<1> QED
  BY <1>1, <1>2

\* with_maximum_node_size, clear
LEMMA EmptyIs ==
    ASSUME NEW cap \in 2 .. DefaultCapacity
    PROVE  Empty(cap) \in Trees /\ ItemSet(Empty(cap).inner) = {} /\ Empty(cap).cap = cap
<1> DEFINE inner == <<<<>>>>
<1>1. inner \in Nodes /\ Len(inner) = 1 /\ inner[1] = <<>>
  <2>1. <<>> \in Node
    BY EmptyNodeType
  <2> DEFINE e == <<>>
  <2> HIDE DEF e
  <2>2. <<e>> \in Seq(Node) /\ Len(<<e>>) = 1 /\ <<e>>[1] = e
    BY <2>1 DEF e
  <2> QED
    BY <2>2 DEF e, Nodes
<1> HIDE DEF inner
<1>2. \A n \in 1 .. Len(inner) : n = 1 /\ inner[n] = <<>>
  BY <1>1
<1>3. NodesSorted(inner)
  <2>1. \A m, n \in 1 .. Len(inner) : ~(m < n)
    BY <1>1
  <2> QED
    BY <1>2, <2>1, EmptyNodeType DEF NodesSorted
<1>4. NodesFit(inner, cap)
  <2>1. \A n \in 1 .. Len(inner) : Len(inner[n]) = 0
    BY <1>2, EmptyNodeType
  <2> QED
    BY <1>1, <2>1 DEF NodesFit
<1>5. ItemSet(inner) = {}
  <2>1. \A x : x \notin ItemSet(inner)
    BY <1>1, <1>2, EmptyNodeType, NodesType
  <2> QED
    BY <2>1
<1>6. Lengths(inner) = <<0>>
  <2>1. Lengths(inner) \in Seq(Nat) /\ Len(Lengths(inner)) = 1 /\ Lengths(inner)[1] = 0
    BY <1>1, LengthsType, EmptyNodeType
  <2> DEFINE l == Lengths(inner)
  <2> HIDE DEF l
  <2>2. l \in Seq(Nat) /\ Len(l) = 1 /\ l[1] = 0
    BY <2>1 DEF l
  <2>3. l = <<0>>
    BY <2>2
  <2> QED
    BY <2>3 DEF l
<1>7. Empty(cap) = Rebuilt(inner, cap)
  BY <1>5, <1>6, FS_EmptySet DEF Empty, Rebuilt, inner
<1>8. Rebuilt(inner, cap) \in Trees
  BY <1>1, <1>3, <1>4, RebuiltType
<1> QED
  BY <1>5, <1>7, <1>8 DEF Rebuilt

-----------------------------------------------------------------------------
(* split_off *)

\* Nodes that are parts of a tree's nodes, in their order, are sorted too.
LEMMA PartsSorted ==
    ASSUME NEW inner \in Nodes, NodesSorted(inner), NEW r \in Nodes,
           NEW f \in [1 .. Len(r) -> 1 .. Len(inner)],
           \A l, m \in 1 .. Len(r) : l < m => f[l] < f[m],
           \A m \in 1 .. Len(r) : Sorted(r[m]) /\ ToSet(r[m]) \subseteq ToSet(inner[f[m]])
    PROVE  NodesSorted(r)
<1>1. ASSUME NEW l \in 1 .. Len(r), NEW m \in 1 .. Len(r), l < m
      PROVE  Precedes(r[l], r[m])
  <2>1. f[l] < f[m]
    BY <1>1
  <2>2. Precedes(inner[f[l]], inner[f[m]])
    BY <2>1 DEF NodesSorted
  <2>3. ToSet(r[l]) \subseteq ToSet(inner[f[l]]) /\ ToSet(r[m]) \subseteq ToSet(inner[f[m]])
    OBVIOUS
  <2> QED
    BY <2>2, <2>3 DEF Precedes
<1> QED
  BY <1>1 DEF NodesSorted

\* len of a half is counted over its nodes.
LEMMA SumOfLengths ==
    ASSUME NEW inner \in Nodes, NodesSorted(inner)
    PROVE  Sum(Lengths(inner)) = Cardinality(ItemSet(inner))
<1>1. Len(Lengths(inner)) = Len(inner) /\ Len(inner) \in 0 .. Len(inner)
  BY LengthsType, NodesType
<1>2. Cardinality(FirstItems(inner, Len(inner))) = Sums(Lengths(inner))[Len(inner)]
  BY <1>1, CountFirst
<1> QED
  BY <1>1, <1>2 DEF Sum, ItemSet

\* A tree with the capacity and the items.
HasItems(t, cap, S) == t \in Trees /\ t.cap = cap /\ ItemSet(t.inner) = S

\* split_off at a place that divides the items at k.
LEMMA CutAtIs ==
    ASSUME NEW t \in Trees, NEW k \in Int, NEW n, NEW i, Divides(t.inner, n, i, k),
           n < Len(t.inner) => i <= Len(t.inner[n])
    PROVE  LET r == CutAt(t, <<n, i>>) IN
           /\ HasItems(r.low, t.cap, {x \in ItemSet(t.inner) : Key(x) < k})
           /\ HasItems(r.high, DefaultCapacity, {x \in ItemSet(t.inner) : Key(x) >= k})
<1> DEFINE L == Len(t.inner)
           node == t.inner[n]
           kept == SubSeq(t.inner, 1, n - 1)
           part == SubSeq(node, 1, i - 1)
           rest == SubSeq(node, i, Len(node))
           low == IF i = 1 /\ kept # <<>> THEN kept ELSE Append(kept, part)
           after == SubSeq(t.inner, n + 1, L)
           high == <<rest>> \o after
           S == ItemSet(t.inner)
           R == CutAt(t, <<n, i>>)
<1>1. /\ t.inner \in Nodes /\ NodesSorted(t.inner) /\ n \in 1 .. L /\ L \in Nat
      /\ node \in Node /\ Sorted(node) /\ Len(node) \in Nat /\ i \in 1 .. Len(node) + 1
      /\ \A m \in 1 .. L : t.inner[m] \in Node /\ Sorted(t.inner[m]) /\ Len(t.inner[m]) \in Nat
  BY TreesType, NodesType DEF NodesSorted, Divides
<1>2. /\ t.cap \in 2 .. DefaultCapacity /\ t.cap \in Nat
      /\ DefaultCapacity \in 2 .. DefaultCapacity /\ t.cap <= DefaultCapacity
      /\ \A m \in 1 .. L : Len(t.inner[m]) <= t.cap /\ (L # 1 => Len(t.inner[m]) # 0)
  BY TreesType, CapacityAssumption DEF NodesFit
<1>3. /\ kept \in Nodes /\ Len(kept) = n - 1
      /\ \A m \in 1 .. n - 1 : kept[m] = t.inner[m] /\ m \in 1 .. L
  <2>1. PICK one \in 1 .. L + 1 : one = 1
    BY <1>1
  <2>2. PICK h \in 0 .. L : h = n - 1
    BY <1>1
  <2> DEFINE s == SubSeq(t.inner, one, h)
  <2>3. one <= h + 1 /\ h - one + 1 = n - 1 /\ t.inner \in Seq(Node)
    BY <1>1, <2>1, <2>2 DEF Nodes
  <2>4. s \in Seq(Node)
    BY <2>3, SubSeqSeq
  <2>5. Len(s) = h - one + 1
    BY <2>3, SubSeqSeq
  <2>6. ASSUME NEW m \in 1 .. h - one + 1 PROVE s[m] = t.inner[one + m - 1]
    BY <2>3, SubSeqSeq
  <2>7. s = kept
    BY <2>1, <2>2
  <2> HIDE DEF s, kept
  <2>8. ASSUME NEW m \in 1 .. n - 1 PROVE s[m] = t.inner[m] /\ m \in 1 .. L
    <3>1. one + m - 1 = m /\ m \in 1 .. h - one + 1 /\ m \in 1 .. L
      BY <1>1, <2>1, <2>2
    <3> QED
      BY <2>6, <3>1
  <2> QED
    BY <2>3, <2>4, <2>5, <2>7, <2>8 DEF Nodes
<1>4. /\ after \in Nodes /\ Len(after) = L - n
      /\ \A m \in 1 .. L - n : after[m] = t.inner[n + m] /\ n + m \in 1 .. L
  <2>1. PICK from \in 1 .. L + 1 : from = n + 1
    BY <1>1
  <2>2. PICK h \in 0 .. L : h = L
    BY <1>1
  <2> DEFINE s == SubSeq(t.inner, from, h)
  <2>3. from <= h + 1 /\ h - from + 1 = L - n /\ t.inner \in Seq(Node)
    BY <1>1, <2>1, <2>2 DEF Nodes
  <2>4. s \in Seq(Node)
    BY <2>3, SubSeqSeq
  <2>5. Len(s) = h - from + 1
    BY <2>3, SubSeqSeq
  <2>6. ASSUME NEW m \in 1 .. h - from + 1 PROVE s[m] = t.inner[from + m - 1]
    BY <2>3, SubSeqSeq
  <2>7. s = after
    BY <2>1, <2>2
  <2> HIDE DEF s, after
  <2>8. ASSUME NEW m \in 1 .. L - n PROVE s[m] = t.inner[n + m] /\ n + m \in 1 .. L
    <3>1. from + m - 1 = n + m /\ m \in 1 .. h - from + 1 /\ n + m \in 1 .. L
      BY <1>1, <2>1, <2>2
    <3> QED
      BY <2>6, <3>1
  <2> QED
    BY <2>3, <2>4, <2>5, <2>7, <2>8 DEF Nodes
<1>5. /\ part \in Node /\ Sorted(part) /\ Len(part) = i - 1
      /\ \A x : x \in ToSet(part) <=> \E j \in 1 .. i - 1 : x = node[j]
  <2>1. PICK one \in 1 .. Len(node) + 1 : one = 1
    BY <1>1
  <2>2. PICK h \in 0 .. Len(node) : h = i - 1
    BY <1>1
  <2>3. one <= h + 1 /\ h - one + 1 = i - 1
    BY <1>1, <2>1, <2>2
  <2> HIDE DEF node
  <2>4. /\ SubSeq(node, one, h) \in Node /\ Sorted(SubSeq(node, one, h))
        /\ Len(SubSeq(node, one, h)) = h - one + 1
        /\ \A x : x \in ToSet(SubSeq(node, one, h)) <=> \E j \in one .. h : x = node[j]
    BY <1>1, <2>3, SubNode
  <2> QED
    BY <2>1, <2>2, <2>3, <2>4
<1>6. /\ rest \in Node /\ Sorted(rest) /\ Len(rest) = Len(node) - i + 1
      /\ \A x : x \in ToSet(rest) <=> \E j \in i .. Len(node) : x = node[j]
  <2>1. PICK h \in 0 .. Len(node) : h = Len(node)
    BY <1>1
  <2>2. i <= h + 1 /\ h - i + 1 = Len(node) - i + 1
    BY <1>1, <2>1
  <2> HIDE DEF node
  <2>3. /\ SubSeq(node, i, h) \in Node /\ Sorted(SubSeq(node, i, h))
        /\ Len(SubSeq(node, i, h)) = h - i + 1
        /\ \A x : x \in ToSet(SubSeq(node, i, h)) <=> \E j \in i .. h : x = node[j]
    BY <1>1, <2>2, SubNode
  <2> QED
    BY <2>1, <2>2, <2>3
<1>7. R = [low |-> [inner |-> low, index |-> Lengths(low), len |-> Sum(Lengths(low)),
                    cap |-> t.cap],
           high |-> [inner |-> high, index |-> Lengths(high), len |-> Sum(Lengths(high)),
                     cap |-> DefaultCapacity]]
  BY DEF CutAt
<1> HIDE DEF kept, after, part, rest
<1>8. kept # <<>> <=> n # 1
  <2>1. kept \in Seq(Node)
    BY <1>3 DEF Nodes
  <2>2. kept = <<>> <=> Len(kept) = 0
    BY <2>1, EmptySeq
  <2> QED
    BY <1>1, <1>3, <2>2
<1>9. /\ low \in Nodes
      /\ Len(low) = IF i = 1 /\ n # 1 THEN n - 1 ELSE n
      /\ \A m \in 1 .. Len(low) : low[m] = IF m < n THEN t.inner[m] ELSE part
  <2>1. CASE i = 1 /\ n # 1
    <3>1. low = kept
      BY <1>8, <2>1
    <3>2. \A m \in 1 .. Len(low) : m < n
      BY <1>1, <1>3, <3>1
    <3> QED
      BY <1>3, <2>1, <3>1, <3>2
  <2>2. CASE ~(i = 1 /\ n # 1)
    <3>1. low = Append(kept, part)
      BY <1>8, <2>2
    <3> HIDE DEF low
    <3>2. kept \in Seq(Node) /\ part \in Node
      BY <1>3, <1>5 DEF Nodes
    <3>3. /\ low \in Seq(Node) /\ Len(low) = Len(kept) + 1
          /\ \A m \in 1 .. Len(kept) : low[m] = kept[m]
          /\ low[Len(kept) + 1] = part
      BY <3>1, <3>2, AppendProperties
    <3>4. Len(low) = n /\ low[n] = part
      BY <1>1, <1>3, <3>3
    <3>5. \A m \in 1 .. n : m < n => low[m] = t.inner[m]
      BY <1>1, <1>3, <3>3
    <3> QED
      BY <1>1, <2>2, <3>3, <3>4, <3>5 DEF Nodes
  <2> QED
    BY <2>1, <2>2
<1>10. /\ high \in Nodes /\ Len(high) = L - n + 1
       /\ \A m \in 1 .. Len(high) : high[m] = IF m = 1 THEN rest ELSE t.inner[n + m - 1]
       /\ \A m \in 1 .. Len(high) : n + m - 1 \in 1 .. L
  <2>1. <<rest>> \in Seq(Node) /\ after \in Seq(Node) /\ Len(<<rest>>) = 1 /\ <<rest>>[1] = rest
    BY <1>4, <1>6 DEF Nodes
  <2>2. /\ high \in Seq(Node) /\ Len(high) = 1 + Len(after)
        /\ \A m \in 1 .. 1 + Len(after) : high[m] = IF m <= 1 THEN <<rest>>[m] ELSE after[m - 1]
    BY <2>1, ConcatProperties
  <2> HIDE DEF high
  <2>3. Len(high) = L - n + 1
    BY <1>1, <1>4, <2>2
  <2>4. ASSUME NEW m \in 1 .. Len(high)
        PROVE  /\ high[m] = IF m = 1 THEN rest ELSE t.inner[n + m - 1]
               /\ n + m - 1 \in 1 .. L
    <3>1. n + m - 1 \in 1 .. L
      BY <1>1, <2>3
    <3>2. CASE m = 1
      BY <2>1, <2>2, <3>1, <3>2
    <3>3. CASE m # 1
      <4>1. m - 1 \in 1 .. L - n /\ n + (m - 1) = n + m - 1 /\ ~(m <= 1)
        BY <1>1, <2>3, <3>3
      <4>2. high[m] = after[m - 1]
        BY <2>2, <2>3, <4>1
      <4> QED
        BY <1>4, <3>1, <3>3, <4>1, <4>2
    <3> QED
      BY <3>2, <3>3
  <2> QED
    BY <2>2, <2>3, <2>4 DEF Nodes
<1>11. /\ \A x \in ToSet(part) : x \in ToSet(node) /\ Key(x) < k
       /\ \A x \in ToSet(rest) : x \in ToSet(node) /\ Key(x) >= k
       /\ \A x \in ToSet(node) : /\ Key(x) < k => x \in ToSet(part) /\ i # 1
                                 /\ Key(x) >= k => x \in ToSet(rest)
  <2>1. \A j \in 1 .. Len(node) : Key(node[j]) < k <=> j < i
    BY DEF Divides
  <2> HIDE DEF node
  <2>2. /\ \A x : x \in ToSet(node) <=> \E j \in 1 .. Len(node) : x = node[j]
        /\ \A j \in 1 .. Len(node) : Key(node[j]) \in Int
    BY <1>1, NodeType
  <2>3. ASSUME NEW x \in ToSet(part) PROVE x \in ToSet(node) /\ Key(x) < k
    <3>1. PICK j \in 1 .. i - 1 : x = node[j]
      BY <1>5
    <3>2. j \in 1 .. Len(node) /\ j < i
      BY <1>1
    <3> QED
      BY <2>1, <2>2, <3>1, <3>2
  <2>4. ASSUME NEW x \in ToSet(rest) PROVE x \in ToSet(node) /\ Key(x) >= k
    <3>1. PICK j \in i .. Len(node) : x = node[j]
      BY <1>6
    <3>2. j \in 1 .. Len(node) /\ ~(j < i)
      BY <1>1
    <3>3. ~(Key(node[j]) < k) /\ Key(node[j]) \in Int
      BY <2>1, <2>2, <3>2
    <3> QED
      BY <2>2, <3>1, <3>2, <3>3
  <2>5. ASSUME NEW x \in ToSet(node)
        PROVE  /\ Key(x) < k => x \in ToSet(part) /\ i # 1
               /\ Key(x) >= k => x \in ToSet(rest)
    <3>1. PICK j \in 1 .. Len(node) : x = node[j]
      BY <2>2
    <3>2. j < i => j \in 1 .. i - 1 /\ i # 1
      BY <1>1
    <3>3. ~(j < i) => j \in i .. Len(node)
      BY <1>1
    <3>4. Key(x) \in Int /\ (Key(x) < k <=> j < i)
      BY <2>1, <2>2, <3>1
    <3>5. Key(x) < k => j < i
      BY <3>4
    <3>6. Key(x) >= k => ~(j < i)
      BY <3>4
    <3> QED
      BY <1>5, <1>6, <3>1, <3>2, <3>3, <3>5, <3>6
  <2> QED
    BY <2>3, <2>4, <2>5
<1>12. \A x \in S : Key(x) \in Int /\ \E m \in 1 .. L : x \in ToSet(t.inner[m])
  BY <1>1, NodesType
<1>13. \A m \in 1 .. L : \A x \in ToSet(t.inner[m]) :
         x \in S /\ (m < n => Key(x) < k) /\ (m > n => Key(x) >= k)
  BY <1>1, NodesType DEF Divides
<1> HIDE DEF low, high, S
<1>14. /\ NodesSorted(low) /\ NodesFit(low, t.cap)
       /\ ItemSet(low) = {x \in S : Key(x) < k}
  <2>1. Len(low) >= 1 /\ \A m \in 1 .. Len(low) : m \in 1 .. L /\ (m < n \/ m = n)
    BY <1>1, <1>9
  <2>2. NodesSorted(low)
    <3> DEFINE f == [m \in 1 .. Len(low) |-> m]
    <3>1. f \in [1 .. Len(low) -> 1 .. L]
      BY <2>1
    <3>2. \A l, m \in 1 .. Len(low) : l < m => f[l] < f[m]
      OBVIOUS
    <3>3. ASSUME NEW m \in 1 .. Len(low)
          PROVE  Sorted(low[m]) /\ ToSet(low[m]) \subseteq ToSet(t.inner[f[m]])
      <4>1. CASE m < n
        BY <1>1, <1>9, <2>1, <4>1
      <4>2. CASE m = n
        <5>1. low[m] = part /\ f[m] = n
          BY <1>1, <1>9, <4>2
        <5> QED
          BY <1>5, <1>11, <5>1
      <4> QED
        BY <2>1, <4>1, <4>2
    <3> HIDE DEF f
    <3> QED
      BY <1>1, <1>9, <3>1, <3>2, <3>3, PartsSorted
  <2>3. NodesFit(low, t.cap)
    <3>1. ASSUME NEW m \in 1 .. Len(low)
          PROVE  Len(low[m]) <= t.cap /\ (Len(low[m]) = 0 => Len(low) = 1)
      <4>1. CASE m < n
        <5>1. L # 1 /\ low[m] = t.inner[m]
          BY <1>1, <1>9, <2>1, <4>1
        <5> QED
          BY <1>2, <2>1, <5>1
      <4>2. CASE m = n
        <5>1. low[m] = part
          BY <1>1, <1>9, <4>2
        <5>2. Len(node) <= t.cap
          BY <1>1, <1>2
        <5>3. i = 1 => n = 1
          BY <1>1, <1>9, <4>2
        <5>4. i = 1 => Len(low) = 1
          BY <1>9, <5>3
        <5>5. Len(low[m]) = i - 1 /\ i \in Int /\ i <= Len(node) + 1 /\ Len(node) \in Int
          BY <1>1, <1>5, <5>1
        <5> HIDE DEF node
        <5> QED
          BY <1>2, <5>2, <5>4, <5>5
      <4> QED
        BY <2>1, <4>1, <4>2
    <3> QED
      BY <2>1, <3>1 DEF NodesFit
  <2>4. ASSUME NEW x PROVE x \in ItemSet(low) <=> x \in S /\ Key(x) < k
    <3>1. x \in ItemSet(low) <=> \E m \in 1 .. Len(low) : x \in ToSet(low[m])
      BY <1>9, NodesType
    <3>2. ASSUME NEW m \in 1 .. Len(low), x \in ToSet(low[m]) PROVE x \in S /\ Key(x) < k
      <4>1. CASE m < n
        BY <1>9, <1>13, <2>1, <3>2, <4>1
      <4>2. CASE m = n
        <5>1. low[m] = part
          BY <1>1, <1>9, <4>2
        <5> QED
          BY <1>1, <1>11, <1>13, <3>2, <5>1
      <4> QED
        BY <2>1, <4>1, <4>2
    <3>3. ASSUME x \in S, Key(x) < k PROVE \E m \in 1 .. Len(low) : x \in ToSet(low[m])
      <4>1. PICK m \in 1 .. L : x \in ToSet(t.inner[m])
        BY <1>12, <3>3
      <4>2. ~(m > n)
        BY <1>12, <1>13, <3>3, <4>1
      <4>3. CASE m < n
        <5>1. m \in 1 .. Len(low) /\ low[m] = t.inner[m]
          BY <1>1, <1>9, <4>3
        <5> QED
          BY <4>1, <5>1
      <4>4. CASE m = n
        <5>1. x \in ToSet(part) /\ i # 1
          BY <1>11, <3>3, <4>1, <4>4
        <5>2. n \in 1 .. Len(low) /\ ~(n < n)
          BY <1>1, <1>9, <5>1
        <5>3. low[n] = part
          BY <1>9, <5>2
        <5> QED
          BY <5>1, <5>2, <5>3
      <4> QED
        BY <1>1, <4>2, <4>3, <4>4
    <3> QED
      BY <3>1, <3>2, <3>3
  <2> QED
    BY <2>2, <2>3, <2>4
<1>15. /\ NodesSorted(high) /\ NodesFit(high, DefaultCapacity)
       /\ ItemSet(high) = {x \in S : Key(x) >= k}
  <2>1. Len(high) >= 1
    BY <1>1, <1>10
  <2>2. NodesSorted(high)
    <3> DEFINE f == [m \in 1 .. Len(high) |-> n + m - 1]
    <3>1. f \in [1 .. Len(high) -> 1 .. L]
      BY <1>10
    <3>2. \A l, m \in 1 .. Len(high) : l < m => f[l] < f[m]
      BY <1>1
    <3>3. ASSUME NEW m \in 1 .. Len(high)
          PROVE  Sorted(high[m]) /\ ToSet(high[m]) \subseteq ToSet(t.inner[f[m]])
      <4>1. CASE m # 1
        BY <1>1, <1>10, <4>1
      <4>2. CASE m = 1
        <5>1. high[m] = rest
          BY <1>10, <4>2
        <5>2. n + m - 1 = n
          BY <1>1, <4>2
        <5>3. f[m] = n
          BY <5>2
        <5> QED
          BY <1>6, <1>11, <5>1, <5>3
      <4> QED
        BY <4>1, <4>2
    <3> HIDE DEF f
    <3> QED
      BY <1>1, <1>10, <3>1, <3>2, <3>3, PartsSorted
  <2>3. NodesFit(high, DefaultCapacity)
    <3>1. ASSUME NEW m \in 1 .. Len(high)
          PROVE  Len(high[m]) <= t.cap /\ (Len(high[m]) = 0 => Len(high) = 1)
      <4>1. CASE m # 1
        <5>1. high[m] = t.inner[n + m - 1] /\ n + m - 1 \in 1 .. L
          BY <1>10, <4>1
        <5>2. Len(high) \in Nat /\ Len(high) = L - n + 1 /\ n \in Int /\ n >= 1 /\ L \in Nat
          BY <1>1, <1>10
        <5>3. L # 1
          <6> HIDE DEF L
          <6>1. m >= 2 /\ m <= Len(high)
            BY <4>1, <5>2
          <6> QED
            BY <5>2, <6>1
        <5> QED
          BY <1>2, <5>1, <5>3
      <4>2. CASE m = 1
        <5>1. high[m] = rest
          BY <1>10, <4>2
        <5>2. Len(node) <= t.cap
          BY <1>1, <1>2
        <5>3. n < L => i <= Len(node)
          OBVIOUS
        <5>4. /\ Len(high[m]) = Len(node) - i + 1 /\ i \in Int /\ i <= Len(node) + 1
              /\ i >= 1 /\ Len(node) \in Int
          BY <1>1, <1>6, <5>1
        <5>5. n < L => Len(high[m]) # 0
          <6> HIDE DEF node
          <6> QED
            BY <5>3, <5>4
        <5>6. ~(n < L) => Len(high) = 1
          BY <1>1, <1>10
        <5> HIDE DEF node
        <5> QED
          BY <1>2, <5>2, <5>4, <5>5, <5>6
      <4> QED
        BY <4>1, <4>2
    <3>2. \A m \in 1 .. Len(high) : Len(high[m]) \in Nat
      BY <1>10, NodesType
    <3>3. \A m \in 1 .. Len(high) : Len(high[m]) <= DefaultCapacity
      BY <1>2, <3>1, <3>2
    <3> QED
      BY <2>1, <3>1, <3>3 DEF NodesFit
  <2>4. ASSUME NEW x PROVE x \in ItemSet(high) <=> x \in S /\ Key(x) >= k
    <3>1. x \in ItemSet(high) <=> \E m \in 1 .. Len(high) : x \in ToSet(high[m])
      BY <1>10, NodesType
    <3>2. ASSUME NEW m \in 1 .. Len(high), x \in ToSet(high[m]) PROVE x \in S /\ Key(x) >= k
      <4>1. CASE m # 1
        <5>1. high[m] = t.inner[n + m - 1] /\ n + m - 1 \in 1 .. L /\ n + m - 1 > n
          BY <1>1, <1>10, <4>1
        <5> QED
          BY <1>13, <3>2, <5>1
      <4>2. CASE m = 1
        <5>1. high[m] = rest
          BY <1>10, <4>2
        <5> QED
          BY <1>1, <1>11, <1>13, <3>2, <5>1
      <4> QED
        BY <4>1, <4>2
    <3>3. ASSUME x \in S, Key(x) >= k PROVE \E m \in 1 .. Len(high) : x \in ToSet(high[m])
      <4>1. PICK m \in 1 .. L : x \in ToSet(t.inner[m])
        BY <1>12, <3>3
      <4>2. ~(m < n)
        <5>1. m < n => Key(x) < k
          BY <1>13, <4>1
        <5>2. Key(x) \in Int
          BY <1>12, <3>3
        <5> QED
          BY <3>3, <5>1, <5>2
      <4>3. CASE m > n
        <5>1. m - n + 1 \in 1 .. Len(high) /\ m - n + 1 # 1 /\ n + (m - n + 1) - 1 = m
          BY <1>1, <1>10, <4>3
        <5>2. high[m - n + 1] = t.inner[m]
          BY <1>10, <5>1
        <5> QED
          BY <4>1, <5>1, <5>2
      <4>4. CASE m = n
        <5>1. x \in ToSet(rest)
          BY <1>11, <3>3, <4>1, <4>4
        <5>2. 1 \in 1 .. Len(high)
          BY <1>1, <1>10
        <5>3. high[1] = rest
          BY <1>10, <5>2
        <5> QED
          BY <5>1, <5>2, <5>3
      <4> QED
        BY <1>1, <4>2, <4>3, <4>4
    <3> QED
      BY <3>1, <3>2, <3>3
  <2> QED
    BY <2>2, <2>3, <2>4
<1>16. R = [low |-> Rebuilt(low, t.cap), high |-> Rebuilt(high, DefaultCapacity)]
  <2>1. /\ Sum(Lengths(low)) = Cardinality(ItemSet(low))
        /\ Sum(Lengths(high)) = Cardinality(ItemSet(high))
    BY <1>9, <1>10, <1>14, <1>15, SumOfLengths
  <2> QED
    BY <1>7, <2>1 DEF Rebuilt
<1>17. Rebuilt(low, t.cap) \in Trees /\ Rebuilt(high, DefaultCapacity) \in Trees
  BY <1>2, <1>9, <1>10, <1>14, <1>15, RebuiltType
<1> HIDE DEF R
<1>18. /\ R.low \in Trees /\ R.low.cap = t.cap /\ R.low.inner = low
       /\ R.high \in Trees /\ R.high.cap = DefaultCapacity /\ R.high.inner = high
  BY <1>16, <1>17 DEF Rebuilt
<1> QED
  BY <1>14, <1>15, <1>18 DEF HasItems, R, S

\* split_off and split_off_cmp: the items from k on move, the others stay.
LEMMA SplitOffIs ==
    ASSUME NEW t \in Trees, NEW k \in Int
    PROVE  /\ HasItems(SplitOff(t, k).low, t.cap, {x \in ItemSet(t.inner) : Key(x) < k})
           /\ HasItems(SplitOff(t, k).high, DefaultCapacity,
                       {x \in ItemSet(t.inner) : Key(x) >= k})
           /\ SplitOffCmp(t, k) = SplitOff(t, k)
<1>1. PICK n \in 1 .. Len(t.inner) : \E i \in 1 .. Len(t.inner[n]) + 1 :
             /\ LocateValue(t, k) = <<n, i>> /\ LocateValueCmp(t, k) = <<n, i>>
             /\ Divides(t.inner, n, i, k)
             /\ n < Len(t.inner) => i <= Len(t.inner[n])
  BY LocateValueIs
<1>2. PICK i \in 1 .. Len(t.inner[n]) + 1 :
             /\ LocateValue(t, k) = <<n, i>> /\ LocateValueCmp(t, k) = <<n, i>>
             /\ Divides(t.inner, n, i, k)
             /\ n < Len(t.inner) => i <= Len(t.inner[n])
  BY <1>1
<1>3. SplitOff(t, k) = CutAt(t, <<n, i>>) /\ SplitOffCmp(t, k) = CutAt(t, <<n, i>>)
  BY <1>2 DEF SplitOff, SplitOffCmp
<1> QED
  BY <1>2, <1>3, CutAtIs

=============================================================================
