---------------------------- MODULE TreeMapProofs ---------------------------
(***************************************************************************)
(* The single-threaded set and map behave as a dictionary: whatever is     *)
(* called, the tree stays sorted and in step with its index and its        *)
(* length, and every call answers and changes as AbstractMap says, for     *)
(* every set of integer keys, every capacity and trees of any number of    *)
(* nodes.                                                                  *)
(***************************************************************************)
EXTENDS TreeProofs

-----------------------------------------------------------------------------
(* Many items at once *)

\* Items S, over which the first n items of a sequence have been put.
Overlaid(S, items, n) ==
    {items[i] : i \in 1 .. n} \cup {x \in S : \A i \in 1 .. n : Key(items[i]) # Key(x)}

\* Items are put over others one by one, each in the place of its key.
LEMMA OverlaidSteps ==
    ASSUME NEW items \in Node, Sorted(items), NEW S
    PROVE  /\ Overlaid(S, items, 0) = S
           /\ \A n \in 1 .. Len(items) :
                Overlaid(S, items, n)
                  = But(Overlaid(S, items, n - 1), Key(items[n])) \cup {items[n]}
           /\ S = {} => \A n \in 1 .. Len(items) :
                \A x \in Overlaid(S, items, n - 1) : Key(x) # Key(items[n])
           /\ Overlaid(S, items, Len(items))
                = ToSet(items) \cup {x \in S : \A y \in ToSet(items) : Key(y) # Key(x)}
<1>1. /\ \A i \in 1 .. Len(items) : items[i] \in ToSet(items)
      /\ \A x : x \in ToSet(items) <=> \E i \in 1 .. Len(items) : x = items[i]
      /\ Len(items) \in Nat
  BY NodeType
<1>2. \A i, j \in 1 .. Len(items) : Key(items[i]) = Key(items[j]) => i = j
  BY SortedPlaces
<1>3. Overlaid(S, items, 0) = S
  BY DEF Overlaid
<1>4. ASSUME NEW n \in 1 .. Len(items)
      PROVE  /\ Overlaid(S, items, n)
                  = But(Overlaid(S, items, n - 1), Key(items[n])) \cup {items[n]}
             /\ S = {} => \A x \in Overlaid(S, items, n - 1) : Key(x) # Key(items[n])
  <2>1. \A i : i \in 1 .. n <=> i \in 1 .. n - 1 \/ i = n
    BY <1>1
  <2>2. n \notin 1 .. n - 1 /\ \A i \in 1 .. n : i \in 1 .. Len(items)
    BY <1>1
  <2>3. \A i \in 1 .. n - 1 : Key(items[i]) # Key(items[n])
    BY <1>2, <2>1, <2>2
  <2>4. ASSUME NEW x
        PROVE  x \in Overlaid(S, items, n)
                 <=> x \in But(Overlaid(S, items, n - 1), Key(items[n])) \cup {items[n]}
    BY <2>1, <2>3, Zenon DEF Overlaid, But
  <2> QED
    BY <2>3, <2>4 DEF Overlaid
<1>5. ASSUME NEW x
      PROVE  x \in Overlaid(S, items, Len(items))
               <=> x \in ToSet(items) \cup {y \in S : \A z \in ToSet(items) : Key(z) # Key(y)}
  BY <1>1 DEF Overlaid
<1> QED
  BY <1>3, <1>4, <1>5

\* append: the other tree's items, and those of this one with other keys.
LEMMA TreeAppendIs ==
    ASSUME NEW t \in Trees, NEW other \in Trees
    PROVE  HasItems(TreeAppend(t, other), t.cap,
                    ItemSet(other.inner)
                      \cup {x \in ItemSet(t.inner) : ~HasKey(other.inner, Key(x))})
<1> DEFINE items == Items(other)
           N == Len(items)
           S == ItemSet(t.inner)
           s == [p \in (1 .. N) \X Trees |-> TreeReplace(p[2], items[p[1]]).tree]
           F(f) == [n \in 0 .. N |-> IF n = 0 THEN t ELSE TreeReplace(f[n - 1], items[n]).tree]
           c == CHOOSE f : f = F(f)
<1>1. /\ items \in Node /\ Sorted(items) /\ ToSet(items) = ItemSet(other.inner)
      /\ N \in Nat
  <2>1. other.inner \in Nodes /\ NodesSorted(other.inner) /\ Len(other.inner) >= 1
    BY TreesType
  <2>2. items \in Node /\ Sorted(items) /\ ToSet(items) = ItemSet(other.inner)
    BY <2>1, ItemsAre DEF Items
  <2> QED
    BY <2>2, NodeType
<1>2. TreeAppend(t, other) = c[N]
  BY DEF TreeAppend
<1> HIDE DEF items
<1>3. \A n \in 1 .. N : items[n] \in Item
  BY <1>1, NodeType
<1>4. /\ Overlaid(S, items, 0) = S
      /\ \A n \in 1 .. N : Overlaid(S, items, n)
                             = But(Overlaid(S, items, n - 1), Key(items[n])) \cup {items[n]}
      /\ Overlaid(S, items, N)
           = ToSet(items) \cup {x \in S : \A y \in ToSet(items) : Key(y) # Key(x)}
  <2> HIDE DEF S
  <2> QED
    BY <1>1, OverlaidSteps
<1>5. \A r \in Trees, n \in 1 .. N : PutIn(r, items[n], TreeReplace(r, items[n]).tree)
  BY <1>3, TreeReplaceIs
<1> HIDE DEF N
<1>6. \A r \in Trees, n \in 1 .. N : TreeReplace(r, items[n]).tree \in Trees
  BY <1>5 DEF PutIn
<1>7. s \in [(1 .. N) \X Trees -> Trees]
  BY <1>6
<1>8. \A n \in 1 .. N : \A r \in Trees : s[<<n, r>>] = TreeReplace(r, items[n]).tree
  OBVIOUS
<1>9. PICK g \in [0 .. N -> Trees] : g[0] = t /\ \A n \in 1 .. N : g[n] = s[<<n, g[n - 1]>>]
  <2> HIDE DEF s
  <2>1. CanIterate(N, Trees, t, s)
    BY <1>1, <1>7, IteratedIsDefined
  <2> QED
    BY <2>1 DEF CanIterate
<1>10. g = F(g)
  <2>1. ASSUME NEW n \in 0 .. N PROVE g[n] = F(g)[n]
    <3>1. n # 0 => n \in 1 .. N /\ n - 1 \in 0 .. N
      BY <1>1
    <3> QED
      BY <1>8, <1>9, <3>1
  <2> QED
    BY <2>1
<1>11. c = F(c)
  BY <1>10
<1>12. c[0] = t /\ \A n \in 1 .. N : c[n] = TreeReplace(c[n - 1], items[n]).tree
  <2> HIDE DEF c
  <2> QED
    BY <1>1, <1>11
<1> HIDE DEF c, s, F
<1>13. \A n \in 0 .. N : HasItems(c[n], t.cap, Overlaid(S, items, n))
  <2> DEFINE Bad == {n \in 0 .. N : ~HasItems(c[n], t.cap, Overlaid(S, items, n))}
  <2>1. ASSUME NEW n \in Bad PROVE \E m \in Bad : m < n
    <3>1. n \in 0 .. N /\ ~HasItems(c[n], t.cap, Overlaid(S, items, n))
      OBVIOUS
    <3>2. n # 0
      BY <1>4, <1>12, <3>1 DEF HasItems
    <3>3. n \in 1 .. N /\ n - 1 \in 0 .. N /\ n - 1 < n
      BY <1>1, <3>1, <3>2
    <3>4. ~HasItems(c[n - 1], t.cap, Overlaid(S, items, n - 1))
      <4>1. SUFFICES ASSUME HasItems(c[n - 1], t.cap, Overlaid(S, items, n - 1))
                     PROVE  HasItems(c[n], t.cap, Overlaid(S, items, n))
        BY <3>1
      <4>2. c[n - 1] \in Trees /\ c[n - 1].cap = t.cap
            /\ ItemSet(c[n - 1].inner) = Overlaid(S, items, n - 1)
        BY <4>1 DEF HasItems
      <4>3. PutIn(c[n - 1], items[n], c[n])
        BY <1>5, <1>12, <3>3, <4>2
      <4>4. Overlaid(S, items, n)
              = But(Overlaid(S, items, n - 1), Key(items[n])) \cup {items[n]}
        BY <1>4, <3>3
      <4> QED
        BY <4>2, <4>3, <4>4 DEF PutIn, HasItems
    <3> QED
      BY <3>3, <3>4
  <2>2. Bad \subseteq Nat
    BY <1>1
  <2> HIDE DEF Bad
  <2>3. Bad = {}
    BY <2>1, <2>2, NoLeastNone
  <2>4. ASSUME NEW n \in 0 .. N PROVE HasItems(c[n], t.cap, Overlaid(S, items, n))
    <3>1. n \notin Bad
      BY <2>3, Zenon
    <3> QED
      BY <3>1 DEF Bad
  <2> QED
    BY <2>4
<1>14. N \in 0 .. N
  BY <1>1
<1>15. Overlaid(S, items, N) = ItemSet(other.inner)
         \cup {x \in S : \A y \in ItemSet(other.inner) : Key(y) # Key(x)}
  BY <1>1, <1>4
<1>16. {x \in S : \A y \in ItemSet(other.inner) : Key(y) # Key(x)}
         = {x \in S : ~HasKey(other.inner, Key(x))}
  BY DEF HasKey
<1> QED
  BY <1>2, <1>13, <1>14, <1>15, <1>16

\* from_iter into an empty tree of items that come in order: those items.
LEMMA FromItemsIs ==
    ASSUME NEW t \in Trees, ItemSet(t.inner) = {}, NEW items \in Node, Sorted(items)
    PROVE  HasItems(FromItems(t, items), t.cap, ToSet(items))
<1> DEFINE N == Len(items)
           S == ItemSet(t.inner)
           s == [p \in (1 .. N) \X Trees |-> TreeInsert(p[2], items[p[1]]).tree]
           F(f) == [n \in 0 .. N |-> IF n = 0 THEN t ELSE TreeInsert(f[n - 1], items[n]).tree]
           c == CHOOSE f : f = F(f)
<1>1. N \in Nat /\ \A n \in 1 .. N : items[n] \in Item
  BY NodeType
<1>2. /\ Overlaid(S, items, 0) = S
      /\ \A n \in 1 .. N : Overlaid(S, items, n)
                             = But(Overlaid(S, items, n - 1), Key(items[n])) \cup {items[n]}
      /\ Overlaid(S, items, N)
           = ToSet(items) \cup {x \in S : \A y \in ToSet(items) : Key(y) # Key(x)}
      /\ \A n \in 1 .. N : \A x \in Overlaid(S, items, n - 1) : Key(x) # Key(items[n])
  <2>1. S = {}
    OBVIOUS
  <2> HIDE DEF S
  <2>2. ASSUME NEW n \in 1 .. N PROVE \A x \in Overlaid(S, items, n - 1) : Key(x) # Key(items[n])
    BY <2>1, OverlaidSteps
  <2> QED
    BY <2>2, OverlaidSteps
<1>3. FromItems(t, items) = c[N]
  BY DEF FromItems
<1>4. \A r \in Trees, n \in 1 .. N : WithItem(r, items[n], TreeInsert(r, items[n]).tree)
  BY <1>1, TreeInsertIs
<1> HIDE DEF N
<1>5. \A r \in Trees, n \in 1 .. N : TreeInsert(r, items[n]).tree \in Trees
  BY <1>4 DEF WithItem
<1>6. s \in [(1 .. N) \X Trees -> Trees]
  BY <1>5
<1>7. \A n \in 1 .. N : \A r \in Trees : s[<<n, r>>] = TreeInsert(r, items[n]).tree
  OBVIOUS
<1>8. PICK g \in [0 .. N -> Trees] : g[0] = t /\ \A n \in 1 .. N : g[n] = s[<<n, g[n - 1]>>]
  <2> HIDE DEF s
  <2>1. CanIterate(N, Trees, t, s)
    BY <1>1, <1>6, IteratedIsDefined
  <2> QED
    BY <2>1 DEF CanIterate
<1>9. g = F(g)
  <2>1. ASSUME NEW n \in 0 .. N PROVE g[n] = F(g)[n]
    <3>1. n # 0 => n \in 1 .. N /\ n - 1 \in 0 .. N
      BY <1>1
    <3> QED
      BY <1>7, <1>8, <3>1
  <2> QED
    BY <2>1
<1>10. c = F(c)
  BY <1>9
<1>11. c[0] = t /\ \A n \in 1 .. N : c[n] = TreeInsert(c[n - 1], items[n]).tree
  <2> HIDE DEF c
  <2> QED
    BY <1>1, <1>10
<1> HIDE DEF c, s, F
<1>12. \A n \in 0 .. N : HasItems(c[n], t.cap, Overlaid(S, items, n))
  <2> DEFINE Bad == {n \in 0 .. N : ~HasItems(c[n], t.cap, Overlaid(S, items, n))}
  <2>1. ASSUME NEW n \in Bad PROVE \E m \in Bad : m < n
    <3>1. n \in 0 .. N /\ ~HasItems(c[n], t.cap, Overlaid(S, items, n))
      OBVIOUS
    <3>2. n # 0
      BY <1>2, <1>11, <3>1 DEF HasItems
    <3>3. n \in 1 .. N /\ n - 1 \in 0 .. N /\ n - 1 < n
      BY <1>1, <3>1, <3>2
    <3>4. ~HasItems(c[n - 1], t.cap, Overlaid(S, items, n - 1))
      <4>1. SUFFICES ASSUME HasItems(c[n - 1], t.cap, Overlaid(S, items, n - 1))
                     PROVE  HasItems(c[n], t.cap, Overlaid(S, items, n))
        BY <3>1
      <4>2. c[n - 1] \in Trees /\ c[n - 1].cap = t.cap
            /\ ItemSet(c[n - 1].inner) = Overlaid(S, items, n - 1)
        BY <4>1 DEF HasItems
      <4>3. WithItem(c[n - 1], items[n], c[n])
        BY <1>4, <1>11, <3>3, <4>2
      <4>4. Overlaid(S, items, n)
              = But(Overlaid(S, items, n - 1), Key(items[n])) \cup {items[n]}
        BY <1>2, <3>3
      <4>5. \A x \in Overlaid(S, items, n - 1) : Key(x) # Key(items[n])
        BY <1>2, <3>3
      <4>6. ~HasKey(c[n - 1].inner, Key(items[n]))
        BY <4>2, <4>5 DEF HasKey
      <4>7. But(Overlaid(S, items, n - 1), Key(items[n])) = Overlaid(S, items, n - 1)
        BY <4>5 DEF But
      <4> QED
        BY <4>2, <4>3, <4>4, <4>6, <4>7 DEF WithItem, HasItems
    <3> QED
      BY <3>3, <3>4
  <2>2. Bad \subseteq Nat
    BY <1>1
  <2> HIDE DEF Bad
  <2>3. Bad = {}
    BY <2>1, <2>2, NoLeastNone
  <2>4. ASSUME NEW n \in 0 .. N PROVE HasItems(c[n], t.cap, Overlaid(S, items, n))
    <3>1. n \notin Bad
      BY <2>3, Zenon
    <3> QED
      BY <3>1 DEF Bad
  <2> QED
    BY <2>4
<1>13. N \in 0 .. N
  BY <1>1
<1>14. Overlaid(S, items, N) = ToSet(items)
  BY <1>2
<1> QED
  BY <1>3, <1>12, <1>13, <1>14

Before(a, b) == a[1] < b[1] \/ (a[1] = b[1] /\ a[2] <= b[2])

\* The first of some places.
LEMMA FirstPlace ==
    ASSUME NEW S \in SUBSET (Nat \X Nat), S # {}
    PROVE  \E a \in S : \A b \in S : Before(a, b)
<1> DEFINE rows == {n \in Nat : \E b \in S : b[1] = n}
<1>1. PICK n \in rows : \A m \in rows : ~(m < n)
  <2>1. rows # {}
    OBVIOUS
  <2>2. rows \subseteq Nat
    OBVIOUS
  <2> HIDE DEF rows
  <2> QED
    BY <2>1, <2>2, NoLeastNone
<1> DEFINE columns == {i \in Nat : \E b \in S : b[1] = n /\ b[2] = i}
<1>2. PICK i \in columns : \A j \in columns : ~(j < i)
  <2>1. columns # {}
    OBVIOUS
  <2>2. columns \subseteq Nat
    OBVIOUS
  <2> HIDE DEF columns
  <2> QED
    BY <2>1, <2>2, NoLeastNone
<1>3. PICK a \in S : a[1] = n /\ a[2] = i
  BY <1>2
<1>4. ASSUME NEW b \in S PROVE Before(a, b)
  <2>1. b[1] \in rows /\ b[1] \in Nat /\ b[2] \in Nat /\ n \in Nat /\ i \in Nat
    BY <1>1, <1>2
  <2>2. b[1] = n => b[2] \in columns
    BY <2>1
  <2> QED
    BY <1>1, <1>2, <1>3, <2>1, <2>2 DEF Before
<1> QED
  BY <1>3, <1>4

\* A tree after the items at the places S have been deleted, the last one first:
\* what lies before them all is still where it was.
Dropped(t, S, r) ==
    /\ r \in Trees /\ r.cap = t.cap
    /\ ItemSet(r.inner) = ItemSet(t.inner) \ {t.inner[a[1]][a[2]] : a \in S}
    /\ \A m \in 1 .. Len(t.inner) : \A j \in 1 .. Len(t.inner[m]) :
         (\A a \in S : m < a[1] \/ (m = a[1] /\ j < a[2])) =>
           m \in 1 .. Len(r.inner) /\ j \in 1 .. Len(r.inner[m]) /\ r.inner[m][j] = t.inner[m][j]

\* retain() deletes from behind, so that the places in front stay good.
LEMMA DropFirst ==
    ASSUME NEW t \in Trees,
           NEW S, \A b \in S : /\ b[1] \in 1 .. Len(t.inner)
                               /\ b[2] \in 1 .. Len(t.inner[b[1]])
                               /\ b = <<b[1], b[2]>>,
           NEW a \in S, \A b \in S : Before(a, b),
           NEW r, Dropped(t, S \ {a}, r)
    PROVE  Dropped(t, S, DeleteAt(r, a))
<1> DEFINE n == a[1]
           i == a[2]
           d == DeleteAt(r, a)
<1>1. /\ n \in 1 .. Len(t.inner) /\ i \in 1 .. Len(t.inner[n]) /\ a = <<n, i>>
      /\ r \in Trees /\ r.cap = t.cap
      /\ ItemSet(r.inner) = ItemSet(t.inner) \ {t.inner[b[1]][b[2]] : b \in S \ {a}}
  BY DEF Dropped
<1>2. ASSUME NEW b \in S \ {a} PROVE n < b[1] \/ (n = b[1] /\ i < b[2])
  <2>1. /\ b \in S /\ b # a /\ b = <<b[1], b[2]>> /\ Before(a, b)
        /\ b[1] \in Int /\ b[2] \in Int /\ n \in Int /\ i \in Int
    BY <1>1
  <2>2. ~(b[1] = n /\ b[2] = i)
    BY <1>1, <2>1
  <2> QED
    BY <2>1, <2>2 DEF Before
<1>3. /\ n \in 1 .. Len(r.inner) /\ i \in 1 .. Len(r.inner[n])
      /\ r.inner[n][i] = t.inner[n][i]
  BY <1>1, <1>2 DEF Dropped
<1>4. Without(r, t.inner[n][i], d) /\ SameBefore(r, n, i, d)
  BY <1>1, <1>3, DeleteAtIs
<1> HIDE DEF d
<1>5. d \in Trees /\ d.cap = t.cap /\ ItemSet(d.inner) = ItemSet(r.inner) \ {t.inner[n][i]}
  BY <1>1, <1>4 DEF Without
<1>6. ItemSet(d.inner) = ItemSet(t.inner) \ {t.inner[b[1]][b[2]] : b \in S}
  BY <1>1, <1>5
<1>7. ASSUME NEW m \in 1 .. Len(t.inner), NEW j \in 1 .. Len(t.inner[m]),
             \A b \in S : m < b[1] \/ (m = b[1] /\ j < b[2])
      PROVE  /\ m \in 1 .. Len(d.inner) /\ j \in 1 .. Len(d.inner[m])
             /\ d.inner[m][j] = t.inner[m][j]
  <2>1. /\ m \in 1 .. Len(r.inner) /\ j \in 1 .. Len(r.inner[m])
        /\ r.inner[m][j] = t.inner[m][j]
    BY <1>7 DEF Dropped
  <2>2. m < n \/ (m = n /\ j < i)
    BY <1>7
  <2> QED
    BY <1>4, <2>1, <2>2 DEF SameBefore
<1> QED
  BY <1>5, <1>6, <1>7 DEF Dropped, d

\* retain: the items with one of the keys.
LEMMA RetainIs ==
    ASSUME NEW t \in Trees, NEW keys
    PROVE  HasItems(Retain(t, keys), t.cap, {x \in ItemSet(t.inner) : Key(x) \in keys})
<1> DEFINE places == UNION {{n} \X {i \in DOMAIN t.inner[n] : Key(t.inner[n][i]) \notin keys} :
                              n \in DOMAIN t.inner}
           First(S) == CHOOSE a \in S : \A b \in S :
                         a[1] < b[1] \/ (a[1] = b[1] /\ a[2] <= b[2])
           F(f) == [S \in SUBSET places |->
                      IF S = {} THEN t ELSE DeleteAt(f[S \ {First(S)}], First(S))]
           c == CHOOSE f : f = F(f)
<1>1. Retain(t, keys) = c[places]
  BY DEF Retain
<1>2. /\ t.inner \in Nodes /\ Len(t.inner) \in Nat /\ DOMAIN t.inner = 1 .. Len(t.inner)
      /\ \A n \in 1 .. Len(t.inner) :
           /\ DOMAIN t.inner[n] = 1 .. Len(t.inner[n])
           /\ Len(t.inner[n]) \in Nat /\ Len(t.inner[n]) <= t.cap
      /\ t.cap \in Nat
  BY TreesType, NodesType DEF NodesFit
<1>3. \A b : b \in places <=> /\ b = <<b[1], b[2]>>
                              /\ b[1] \in 1 .. Len(t.inner) /\ b[2] \in 1 .. Len(t.inner[b[1]])
                              /\ Key(t.inner[b[1]][b[2]]) \notin keys
  BY <1>2
<1> HIDE DEF places
<1>4. IsFiniteSet(places)
  <2>1. PICK h \in Nat : h = Len(t.inner)
    BY <1>2
  <2>2. PICK w \in Nat : w = t.cap
    BY <1>2
  <2>3. PICK one \in Int : one = 1
    OBVIOUS
  <2>4. IsFiniteSet(one .. h) /\ IsFiniteSet(one .. w)
    BY FS_Interval
  <2>5. IsFiniteSet((one .. h) \X (one .. w))
    BY <2>4, FS_Product
  <2>6. ASSUME NEW b \in places PROVE b \in (one .. h) \X (one .. w)
    <3>1. b = <<b[1], b[2]>> /\ b[1] \in 1 .. h /\ b[2] \in 1 .. Len(t.inner[b[1]])
      BY <1>3, <2>1
    <3>2. b[2] \in 1 .. w
      BY <1>2, <2>1, <2>2, <3>1
    <3> QED
      BY <2>3, <3>1, <3>2
  <2> QED
    BY <2>5, <2>6, FS_Subset
<1>5. ASSUME NEW S \in SUBSET places, S # {}
      PROVE  First(S) \in S /\ \A b \in S : Before(First(S), b)
  <2>1. S \in SUBSET (Nat \X Nat)
    BY <1>3
  <2>2. \E a \in S : \A b \in S : Before(a, b)
    BY <1>5, <2>1, FirstPlace
  <2>3. First(S) = CHOOSE a \in S : \A b \in S : Before(a, b)
    BY DEF Before
  <2> HIDE DEF First
  <2> QED
    BY <2>2, <2>3
<1> HIDE DEF First
<1>6. ASSUME NEW S \in SUBSET places, S # {}
      PROVE  /\ S \ {First(S)} \in SUBSET places
             /\ IsFiniteSet(S) /\ Cardinality(S) \in Nat
             /\ Cardinality(S \ {First(S)}) = Cardinality(S) - 1
             /\ Cardinality(S) # 0
  <2>1. IsFiniteSet(S) /\ Cardinality(S) \in Nat
    BY <1>4, FS_Subset, FS_CardinalityType
  <2>2. First(S) \in S
    BY <1>5, <1>6
  <2>3. Cardinality(S \ {First(S)}) = Cardinality(S) - 1
    BY <2>1, <2>2, FS_RemoveElement
  <2>4. Cardinality(S) # 0
    BY <1>6, <2>1, FS_EmptySet
  <2> QED
    BY <2>1, <2>3, <2>4
<1> DEFINE Sub(d) == {S \in SUBSET places : Cardinality(S) <= d}
           G(f, d) == [S \in Sub(d) |->
                         IF S = {} THEN t ELSE DeleteAt(f[S \ {First(S)}], First(S))]
<1>7. \A d \in Nat : \E g : g = G(g, d)
  <2> DEFINE Bad == {d \in Nat : ~\E g : g = G(g, d)}
  <2>1. ASSUME NEW d \in Bad PROVE \E e \in Bad : e < d
    <3>1. d \in Nat /\ \A g : g # G(g, d)
      OBVIOUS
    <3>2. d # 0
      <4>1. SUFFICES ASSUME d = 0 PROVE FALSE
        OBVIOUS
      <4> DEFINE h == [S \in Sub(d) |-> t]
      <4>2. ASSUME NEW S \in Sub(d) PROVE S = {}
        <5>1. S \in SUBSET places /\ Cardinality(S) <= 0
          BY <4>1
        <5>2. S # {} => Cardinality(S) \in Nat /\ Cardinality(S) # 0
          BY <1>6, <5>1
        <5> QED
          BY <5>1, <5>2
      <4>3. h = G(h, d)
        BY <4>2
      <4> QED
        BY <3>1, <4>3
    <3>3. d - 1 \in Nat /\ d - 1 < d
      BY <3>1, <3>2
    <3>4. ASSUME NEW g, g = G(g, d - 1) PROVE FALSE
      <4> DEFINE h == [S \in Sub(d) |->
                         IF S = {} THEN t ELSE DeleteAt(g[S \ {First(S)}], First(S))]
      <4>1. ASSUME NEW S \in Sub(d - 1) PROVE h[S] = g[S]
        <5>1. S \in Sub(d)
          <6>1. Cardinality(S) \in Nat
            <7>1. IsFiniteSet(S)
              BY <1>4, FS_Subset
            <7> QED
              BY <7>1, FS_CardinalityType
          <6> QED
            BY <3>1, <6>1
        <5>2. g[S] = G(g, d - 1)[S]
          BY <3>4
        <5> QED
          BY <5>1, <5>2
      <4>2. ASSUME NEW S \in Sub(d), S # {} PROVE S \ {First(S)} \in Sub(d - 1)
        BY <1>6, <3>1, <4>2
      <4>3. ASSUME NEW S \in Sub(d) PROVE h[S] = G(h, d)[S]
        <5>1. S # {} => h[S \ {First(S)}] = g[S \ {First(S)}]
          BY <4>1, <4>2
        <5> HIDE DEF Sub
        <5> QED
          BY <5>1
      <4>4. h = G(h, d)
        <5> HIDE DEF Sub
        <5> QED
          BY <4>3
      <4> QED
        BY <3>1, <4>4
    <3> QED
      BY <3>3, <3>4
  <2>2. Bad \subseteq Nat
    OBVIOUS
  <2> HIDE DEF Bad
  <2>3. Bad = {}
    BY <2>1, <2>2, NoLeastNone
  <2>4. ASSUME NEW d \in Nat PROVE \E g : g = G(g, d)
    <3>1. d \notin Bad
      BY <2>3, Zenon
    <3> QED
      BY <3>1 DEF Bad
  <2> QED
    BY <2>4
<1>8. c = F(c)
  <2>1. PICK d \in Nat : d = Cardinality(places)
    BY <1>4, FS_CardinalityType
  <2>2. Sub(d) = SUBSET places
    BY <1>4, <2>1, FS_Subset
  <2>3. PICK g : g = G(g, d)
    BY <1>7
  <2>4. g = F(g)
    <3> HIDE DEF Sub
    <3> QED
      BY <2>2, <2>3
  <2> HIDE DEF F
  <2> QED
    BY <2>4
<1>9. \A S \in SUBSET places :
        c[S] = IF S = {} THEN t ELSE DeleteAt(c[S \ {First(S)}], First(S))
  <2> HIDE DEF c
  <2> QED
    BY <1>8
<1> HIDE DEF c, F, Sub, G
<1>10. \A S \in SUBSET places : Dropped(t, S, c[S])
  <2> DEFINE Bad == {d \in Nat : \E S \in SUBSET places :
                                   Cardinality(S) = d /\ ~Dropped(t, S, c[S])}
  <2>1. ASSUME NEW d \in Bad PROVE \E e \in Bad : e < d
    <3>1. PICK S \in SUBSET places : Cardinality(S) = d /\ ~Dropped(t, S, c[S])
      OBVIOUS
    <3>2. S # {}
      <4>1. SUFFICES ASSUME S = {} PROVE Dropped(t, S, c[S])
        BY <3>1
      <4>2. c[S] = t
        BY <1>9, <4>1
      <4> QED
        BY <4>1, <4>2 DEF Dropped
    <3>3. DEFINE a == First(S)
    <3>4. /\ S \ {a} \in SUBSET places /\ Cardinality(S \ {a}) = d - 1
          /\ d - 1 \in Nat /\ d - 1 < d
      <4>1. Cardinality(S) # 0 /\ Cardinality(S) \in Nat
        BY <1>6, <3>2
      <4> QED
        BY <1>6, <3>1, <3>2, <4>1
    <3>5. a \in S /\ \A b \in S : Before(a, b)
      BY <1>5, <3>2
    <3>6. c[S] = DeleteAt(c[S \ {a}], a)
      BY <1>9, <3>2
    <3> HIDE DEF a
    <3>7. \A b \in S : /\ b[1] \in 1 .. Len(t.inner) /\ b[2] \in 1 .. Len(t.inner[b[1]])
                       /\ b = <<b[1], b[2]>>
      BY <1>3, <3>1
    <3>8. ~Dropped(t, S \ {a}, c[S \ {a}])
      BY <3>1, <3>5, <3>6, <3>7, DropFirst
    <3> QED
      BY <3>4, <3>8
  <2>2. Bad \subseteq Nat
    OBVIOUS
  <2> HIDE DEF Bad
  <2>3. Bad = {}
    BY <2>1, <2>2, NoLeastNone
  <2>4. ASSUME NEW S \in SUBSET places PROVE Dropped(t, S, c[S])
    <3>1. Cardinality(S) \notin Bad
      BY <2>3, Zenon
    <3>2. Cardinality(S) \in Nat
      BY <1>4, FS_Subset, FS_CardinalityType
    <3> QED
      BY <3>1, <3>2 DEF Bad
  <2> QED
    BY <2>4
<1>11. Dropped(t, places, c[places])
  BY <1>10
<1>12. ASSUME NEW x
       PROVE  x \in ItemSet(t.inner) \ {t.inner[a[1]][a[2]] : a \in places}
                <=> x \in ItemSet(t.inner) /\ Key(x) \in keys
  <2>1. SUFFICES ASSUME x \in ItemSet(t.inner)
                 PROVE  (\E a \in places : x = t.inner[a[1]][a[2]]) <=> Key(x) \notin keys
    OBVIOUS
  <2>2. PICK n \in 1 .. Len(t.inner) : x \in ToSet(t.inner[n])
    BY <1>2, <2>1, NodesType
  <2>3. PICK i \in 1 .. Len(t.inner[n]) : x = t.inner[n][i]
    BY <1>2, <2>2, NodesType, NodeType
  <2>4. <<n, i>> \in places <=> Key(x) \notin keys
    BY <1>3, <2>3
  <2>5. Key(x) \notin keys => \E a \in places : x = t.inner[a[1]][a[2]]
    BY <2>3, <2>4
  <2>6. \A a \in places : x = t.inner[a[1]][a[2]] => Key(x) \notin keys
    BY <1>3
  <2> QED
    BY <2>5, <2>6
<1>13. ItemSet(t.inner) \ {t.inner[a[1]][a[2]] : a \in places}
         = {x \in ItemSet(t.inner) : Key(x) \in keys}
  BY <1>12
<1> QED
  BY <1>1, <1>11, <1>13 DEF Dropped, HasItems

-----------------------------------------------------------------------------
(***************************************************************************)
(* The actions of TreeMap.                                                 *)
(***************************************************************************)

(* Keys by their rank *)

KeyRank(S, k) == Cardinality({j \in S : j < k})

RanksOf(S) ==
    /\ \A k \in S : KeyRank(S, k) \in Nat /\ KeyRank(S, k) < Cardinality(S)
    /\ \A j, k \in S : j < k => KeyRank(S, j) < KeyRank(S, k)
    /\ \A i \in Nat : i < Cardinality(S) => \E k \in S : KeyRank(S, k) = i

\* The keys of a set have the ranks from 0 on, in their order.
LEMMA EveryRank ==
    ASSUME NEW S \in SUBSET Int, IsFiniteSet(S)
    PROVE  RanksOf(S) /\ Cardinality(S) \in Nat
<1> DEFINE f == [k \in S |-> KeyRank(S, k)]
           T == 0 .. Cardinality(S) - 1
<1>1. Cardinality(S) \in Nat
  BY FS_CardinalityType
<1>2. ASSUME NEW k \in S
      PROVE  /\ KeyRank(S, k) \in Nat /\ KeyRank(S, k) < Cardinality(S)
  <2>1. {j \in S : j < k} \in SUBSET S /\ k \notin {j \in S : j < k}
    OBVIOUS
  <2>2. IsFiniteSet({j \in S : j < k})
    BY <2>1, FS_Subset
  <2>3. Cardinality({j \in S : j < k}) \in Nat
    BY <2>2, FS_CardinalityType
  <2>4. /\ Cardinality({j \in S : j < k}) <= Cardinality(S)
        /\ Cardinality(S) # Cardinality({j \in S : j < k})
    BY <2>1, FS_Subset
  <2> QED
    BY <1>1, <2>3, <2>4 DEF KeyRank
<1>3. ASSUME NEW j \in S, NEW k \in S, j < k PROVE KeyRank(S, j) < KeyRank(S, k)
  <2> DEFINE A == {i \in S : i < j}
             B == {i \in S : i < k}
  <2>1. A \in SUBSET B /\ j \in B /\ j \notin A /\ B \in SUBSET S
    <3>1. \A i \in S : i \in Int
      OBVIOUS
    <3>2. \A i \in S : i < j => i < k
      BY <1>3, <3>1
    <3>3. ~(j < j)
      BY <3>1
    <3> QED
      BY <1>3, <3>2, <3>3, Zenon
  <2>2. IsFiniteSet(B) /\ IsFiniteSet(A)
    BY <2>1, FS_Subset
  <2>3. Cardinality(A) \in Nat /\ Cardinality(B) \in Nat
    BY <2>2, FS_CardinalityType
  <2>4. Cardinality(A) <= Cardinality(B) /\ Cardinality(B) # Cardinality(A)
    BY <2>1, <2>2, FS_Subset
  <2>5. KeyRank(S, j) = Cardinality(A) /\ KeyRank(S, k) = Cardinality(B)
    BY DEF KeyRank
  <2> QED
    BY <2>3, <2>4, <2>5
<1>4. f \in [S -> T]
  BY <1>1, <1>2
<1>5. \A j, k \in S : f[j] = f[k] => j = k
  <2>1. SUFFICES ASSUME NEW j \in S, NEW k \in S, j # k PROVE f[j] # f[k]
    OBVIOUS
  <2>2. j < k \/ k < j
    BY <2>1
  <2>3. KeyRank(S, j) \in Nat /\ KeyRank(S, k) \in Nat
    BY <1>2
  <2> QED
    BY <1>3, <2>2, <2>3
<1>6. f \in Injection(S, T)
  <2> HIDE DEF f, T
  <2> QED
    BY <1>4, <1>5 DEF Injection, IsInjective
<1>7. IsFiniteSet(T) /\ Cardinality(T) = Cardinality(S)
  <2>1. PICK zero \in Int : zero = 0
    OBVIOUS
  <2>2. PICK h \in Int : h = Cardinality(S) - 1
    BY <1>1
  <2>3. /\ IsFiniteSet(zero .. h)
        /\ Cardinality(zero .. h) = IF zero > h THEN 0 ELSE h - zero + 1
    BY FS_Interval
  <2> QED
    BY <1>1, <2>1, <2>2, <2>3
<1>8. f \in Surjection(S, T)
  <2> HIDE DEF f, T
  <2> QED
    BY <1>6, <1>7, FS_Injection
<1>9. ASSUME NEW i \in Nat, i < Cardinality(S) PROVE \E k \in S : KeyRank(S, k) = i
  <2>1. i \in T
    BY <1>1, <1>9
  <2>2. \E k \in S : f[k] = i
    <3> HIDE DEF f, T
    <3> QED
      BY <1>8, <2>1 DEF Surjection
  <2> QED
    BY <2>2
<1> QED
  BY <1>1, <1>2, <1>3, <1>9 DEF RanksOf

\* What a set of items has as keys, and what each key is counted by.
KeysOf(S) == {Key(x) : x \in S}

\* There are as many keys as items.
LEMMA CountKeys ==
    ASSUME NEW S \in SUBSET Item, \A x, y \in S : Key(x) = Key(y) => x = y
    PROVE  IsFiniteSet(KeysOf(S)) /\ Cardinality(KeysOf(S)) = Cardinality(S)
<1> DEFINE f == [x \in S |-> Key(x)]
<1>1. IsFiniteSet(S)
  BY DifferentKeysFinite
<1>2. f \in Bijection(S, KeysOf(S))
  BY DEF KeysOf, Bijection, Injection, Surjection, IsInjective
<1>3. ExistsBijection(S, KeysOf(S))
  BY <1>2 DEF ExistsBijection
<1> QED
  BY <1>1, <1>3, FS_Bijection

\* The keys of a tree have the ranks of its items.
LEMMA RankOfItem ==
    ASSUME NEW inner \in Nodes, NodesSorted(inner)
    PROVE  LET P == KeysOf(ItemSet(inner)) IN
           /\ P \subseteq Keys /\ P \subseteq Int /\ IsFiniteSet(P)
           /\ Cardinality(P) = Cardinality(ItemSet(inner))
           /\ \A k : KeyRank(P, k) = RankIn(ItemSet(inner), k)
           /\ \A k : k \in P <=> HasKey(inner, k)
<1> DEFINE S == ItemSet(inner)
           P == KeysOf(S)
<1>1. S \in SUBSET Item /\ \A x, y \in S : Key(x) = Key(y) => x = y
  BY ItemSetFinite, OneItemPerKey
<1>2. IsFiniteSet(P) /\ Cardinality(P) = Cardinality(S)
  <2> HIDE DEF S
  <2> QED
    BY <1>1, CountKeys
<1>3. P \subseteq Keys /\ P \subseteq Int
  BY <1>1, KeyType DEF KeysOf
<1>4. ASSUME NEW k PROVE KeyRank(P, k) = RankIn(S, k)
  <2> DEFINE T == {x \in S : Key(x) < k}
  <2>1. T \in SUBSET Item /\ \A x, y \in T : Key(x) = Key(y) => x = y
    BY <1>1
  <2>2. KeysOf(T) = {j \in P : j < k}
    BY DEF KeysOf
  <2> HIDE DEF T
  <2>3. Cardinality(KeysOf(T)) = Cardinality(T)
    BY <2>1, CountKeys
  <2> QED
    BY <2>2, <2>3 DEF KeyRank, RankIn, T
<1>5. \A k : k \in P <=> HasKey(inner, k)
  BY DEF KeysOf, HasKey
<1> QED
  BY <1>2, <1>3, <1>4, <1>5

-----------------------------------------------------------------------------
(* The dictionary of a tree *)

\* A dictionary d of the items S.
Describes(d, S) ==
    /\ d \in [Keys -> Values \cup {Absent}]
    /\ \A x \in S : d[Key(x)] = x[2]
    /\ \A k \in Keys : d[k] # Absent <=> \E x \in S : Key(x) = k
    /\ \A k \in Keys : d[k] # Absent => <<k, d[k]>> \in S

\* DictOf reads the items of a tree as the dictionary they describe.
LEMMA DictIs ==
    ASSUME NEW t \in Trees
    PROVE  /\ Describes(DictOf(t), ItemSet(t.inner))
           /\ \A k \in Keys : DictOf(t)[k] # Absent <=> HasKey(t.inner, k)
<1> DEFINE S == ItemSet(t.inner)
           d == DictOf(t)
           found(k) == {item \in S : Key(item) = k}
<1>1. S \subseteq Item /\ \A x, y \in S : Key(x) = Key(y) => x = y
  BY TreesType, ItemSetFinite, OneItemPerKey
<1>2. ToSet(Items(t)) = S
  BY TreesType, ItemsAre DEF Items
<1> HIDE DEF S
<1>3. d = [k \in Keys |-> IF found(k) = {} THEN Absent ELSE (CHOOSE item \in found(k) : TRUE)[2]]
  BY <1>2 DEF DictOf
<1>4. \A x \in S : Key(x) \in Keys /\ x[2] \in Values /\ x = <<Key(x), x[2]>>
  BY <1>1 DEF Item, Key
<1>5. ASSUME NEW x \in S PROVE d[Key(x)] = x[2] /\ d[Key(x)] # Absent
  <2>1. found(Key(x)) = {x}
    BY <1>1
  <2>2. d[Key(x)] = x[2]
    BY <1>3, <1>4, <2>1
  <2> QED
    BY <1>4, <2>2, KeyAssumption
<1>6. ASSUME NEW k \in Keys, ~\E x \in S : Key(x) = k PROVE d[k] = Absent
  BY <1>3, <1>6
<1>7. ASSUME NEW k \in Keys
      PROVE  /\ d[k] # Absent <=> \E x \in S : Key(x) = k
             /\ d[k] # Absent => <<k, d[k]>> \in S
             /\ d[k] \in Values \cup {Absent}
  BY <1>4, <1>5, <1>6
<1>8. d \in [Keys -> Values \cup {Absent}]
  <2> HIDE DEF found
  <2>1. d = [k \in Keys |-> d[k]]
    BY <1>3
  <2> QED
    BY <1>7, <2>1
<1>9. Describes(d, S)
  BY <1>5, <1>7, <1>8 DEF Describes
<1>10. \A k \in Keys : d[k] # Absent <=> HasKey(t.inner, k)
  BY <1>7 DEF HasKey, S
<1> QED
  BY <1>9, <1>10 DEF S

\* Only one dictionary describes some items.
LEMMA OneDict ==
    ASSUME NEW d, NEW e, NEW S, Describes(d, S), Describes(e, S)
    PROVE  d = e
<1>1. ASSUME NEW k \in Keys PROVE d[k] = e[k]
  <2>1. CASE \E x \in S : Key(x) = k
    BY <2>1 DEF Describes
  <2>2. CASE ~\E x \in S : Key(x) = k
    BY <2>2 DEF Describes
  <2> QED
    BY <2>1, <2>2
<1> QED
  BY <1>1 DEF Describes

\* What becomes of the dictionary when items come and go.
LEMMA DictPuts ==
    ASSUME NEW d, NEW S \in SUBSET Item, Describes(d, S), NEW k \in Keys, NEW v \in Values
    PROVE  Describes([d EXCEPT ![k] = v], But(S, k) \cup {<<k, v>>})
<1> DEFINE e == [d EXCEPT ![k] = v]
           T == But(S, k) \cup {<<k, v>>}
<1>1. d \in [Keys -> Values \cup {Absent}] /\ v # Absent
  BY KeyAssumption DEF Describes
<1>2. /\ e \in [Keys -> Values \cup {Absent}]
      /\ e[k] = v /\ \A j \in Keys : j # k => e[j] = d[j]
  BY <1>1
<1>3. \A x : x \in T <=> (x \in S /\ Key(x) # k) \/ x = <<k, v>>
  BY DEF But
<1>4. Key(<<k, v>>) = k /\ <<k, v>>[2] = v /\ \A x \in S : Key(x) \in Keys
  BY KeyType DEF Key
<1> HIDE DEF e, T
<1>5. \A x \in T : e[Key(x)] = x[2]
  BY <1>2, <1>3, <1>4 DEF Describes
<1>6. ASSUME NEW j \in Keys
      PROVE  /\ e[j] # Absent <=> \E x \in T : Key(x) = j
             /\ e[j] # Absent => <<j, e[j]>> \in T
  <2>1. CASE j = k
    BY <1>1, <1>2, <1>3, <1>4, <2>1
  <2>2. CASE j # k
    <3>1. e[j] = d[j] /\ Key(<<j, d[j]>>) # k
      BY <1>2, <2>2 DEF Key
    <3>2. d[j] # Absent <=> \E x \in S : Key(x) = j
      BY DEF Describes
    <3>3. (\E x \in S : Key(x) = j) <=> \E x \in T : Key(x) = j
      BY <1>3, <1>4, <2>2
    <3>4. d[j] # Absent => <<j, d[j]>> \in S
      BY DEF Describes
    <3> QED
      BY <1>3, <3>1, <3>2, <3>3, <3>4
  <2> QED
    BY <2>1, <2>2
<1>7. Describes(e, T)
  BY <1>2, <1>5, <1>6 DEF Describes
<1> QED
  BY <1>7 DEF e, T

\* Some keys are kept.
LEMMA DictKeeps ==
    ASSUME NEW d, NEW S \in SUBSET Item, Describes(d, S), NEW K
    PROVE  Describes([k \in Keys |-> IF k \in K THEN d[k] ELSE Absent], {x \in S : Key(x) \in K})
<1> DEFINE e == [k \in Keys |-> IF k \in K THEN d[k] ELSE Absent]
           T == {x \in S : Key(x) \in K}
<1>1. d \in [Keys -> Values \cup {Absent}]
  BY DEF Describes
<1>2. /\ e \in [Keys -> Values \cup {Absent}]
      /\ \A j \in Keys : e[j] = IF j \in K THEN d[j] ELSE Absent
  BY <1>1
<1>3. \A x : x \in T <=> x \in S /\ Key(x) \in K
  OBVIOUS
<1>4. \A x \in S : Key(x) \in Keys
  BY KeyType
<1> HIDE DEF e, T
<1>5. \A x \in T : e[Key(x)] = x[2]
  BY <1>2, <1>3, <1>4 DEF Describes
<1>6. ASSUME NEW j \in Keys
      PROVE  /\ e[j] # Absent <=> \E x \in T : Key(x) = j
             /\ e[j] # Absent => <<j, e[j]>> \in T
  <2>1. CASE j \in K
    <3>1. e[j] = d[j] /\ Key(<<j, d[j]>>) = j
      BY <1>2, <2>1 DEF Key
    <3>2. d[j] # Absent <=> \E x \in S : Key(x) = j
      BY DEF Describes
    <3>3. (\E x \in S : Key(x) = j) <=> \E x \in T : Key(x) = j
      BY <1>3, <2>1
    <3>4. d[j] # Absent => <<j, d[j]>> \in S
      BY DEF Describes
    <3> QED
      BY <1>3, <2>1, <3>1, <3>2, <3>3, <3>4
  <2>2. CASE j \notin K
    BY <1>2, <1>3, <2>2
  <2> QED
    BY <2>1, <2>2
<1>7. Describes(e, T)
  BY <1>2, <1>5, <1>6 DEF Describes
<1> QED
  BY <1>7 DEF e, T

\* One key is lost.
LEMMA DictLoses ==
    ASSUME NEW d, NEW S \in SUBSET Item, Describes(d, S), NEW k \in Keys
    PROVE  Describes([d EXCEPT ![k] = Absent], But(S, k))
<1>1. d \in [Keys -> Values \cup {Absent}]
  BY DEF Describes
<1>2. [j \in Keys |-> IF j \in Keys \ {k} THEN d[j] ELSE Absent] = [d EXCEPT ![k] = Absent]
  BY <1>1
<1>3. {x \in S : Key(x) \in Keys \ {k}} = But(S, k)
  BY KeyType DEF But
<1>4. Describes([j \in Keys |-> IF j \in Keys \ {k} THEN d[j] ELSE Absent],
                {x \in S : Key(x) \in Keys \ {k}})
  <2> DEFINE K == Keys \ {k}
  <2> HIDE DEF K
  <2>1. Describes([j \in Keys |-> IF j \in K THEN d[j] ELSE Absent], {x \in S : Key(x) \in K})
    BY DictKeeps
  <2> QED
    BY <2>1 DEF K
<1> QED
  BY <1>2, <1>3, <1>4

\* Another dictionary is put over one.
LEMMA DictMerges ==
    ASSUME NEW d, NEW S \in SUBSET Item, Describes(d, S),
           NEW e, NEW T \in SUBSET Item, Describes(e, T)
    PROVE  Describes([k \in Keys |-> IF e[k] # Absent THEN e[k] ELSE d[k]],
                     T \cup {x \in S : ~\E y \in T : Key(y) = Key(x)})
<1> DEFINE f == [k \in Keys |-> IF e[k] # Absent THEN e[k] ELSE d[k]]
           U == T \cup {x \in S : ~\E y \in T : Key(y) = Key(x)}
<1>1. d \in [Keys -> Values \cup {Absent}] /\ e \in [Keys -> Values \cup {Absent}]
  BY DEF Describes
<1>2. /\ f \in [Keys -> Values \cup {Absent}]
      /\ \A j \in Keys : f[j] = IF e[j] # Absent THEN e[j] ELSE d[j]
  BY <1>1
<1>3. \A x : x \in U <=> x \in T \/ (x \in S /\ ~\E y \in T : Key(y) = Key(x))
  OBVIOUS
<1>4. \A x : x \in S \/ x \in T => Key(x) \in Keys
  BY KeyType
<1>5. \A j \in Keys : e[j] # Absent <=> \E y \in T : Key(y) = j
  BY DEF Describes
<1>6. \A j \in Keys : d[j] # Absent <=> \E y \in S : Key(y) = j
  BY DEF Describes
<1>7. \A j \in Keys : /\ e[j] # Absent => <<j, e[j]>> \in T
                      /\ d[j] # Absent => <<j, d[j]>> \in S
  BY DEF Describes
<1>8. \A j, w : Key(<<j, w>>) = j
  BY DEF Key
<1> HIDE DEF f, U
<1>9. ASSUME NEW x \in U PROVE f[Key(x)] = x[2]
  <2>1. CASE x \in T
    <3>1. Key(x) \in Keys /\ e[Key(x)] # Absent /\ e[Key(x)] = x[2]
      BY <1>4, <1>5, <2>1 DEF Describes
    <3> QED
      BY <1>2, <3>1
  <2>2. CASE x \notin T
    <3>1. x \in S /\ Key(x) \in Keys /\ e[Key(x)] = Absent /\ d[Key(x)] = x[2]
      BY <1>3, <1>4, <1>5, <2>2 DEF Describes
    <3> QED
      BY <1>2, <3>1
  <2> QED
    BY <2>1, <2>2
<1>10. ASSUME NEW j \in Keys
       PROVE  /\ f[j] # Absent <=> \E x \in U : Key(x) = j
              /\ f[j] # Absent => <<j, f[j]>> \in U
  <2>1. CASE e[j] # Absent
    <3>1. f[j] = e[j] /\ <<j, e[j]>> \in U /\ Key(<<j, e[j]>>) = j
      BY <1>2, <1>3, <1>7, <1>8, <2>1
    <3> QED
      BY <2>1, <3>1
  <2>2. CASE ~(e[j] # Absent)
    <3>1. f[j] = d[j]
      BY <1>2, <2>2
    <3>2. ~\E y \in T : Key(y) = j
      BY <1>5, <2>2
    <3>3. \A x : Key(x) = j => (x \in U <=> x \in S)
      BY <1>3, <3>2
    <3>4. f[j] # Absent <=> \E x \in U : Key(x) = j
      BY <1>6, <3>1, <3>3
    <3>5. f[j] # Absent => <<j, f[j]>> \in U
      BY <1>7, <1>8, <3>1, <3>3
    <3> QED
      BY <3>4, <3>5
  <2> QED
    BY <2>1, <2>2
<1>11. Describes(f, U)
  BY <1>2, <1>9, <1>10 DEF Describes
<1> QED
  BY <1>11 DEF f, U

\* No items, no keys.
LEMMA DictOfNone == Describes([k \in Keys |-> Absent], {})
  BY DEF Describes

-----------------------------------------------------------------------------
(* What the dictionary promises, of a tree *)

\* AbstractMap counts as FiniteSets does.
LEMMA PromiseCounts == \A S : Promise!Cardinality(S) = Cardinality(S)
  BY DEF Promise!Cardinality, Cardinality

\* What AbstractMap says of the tree's dictionary: its keys, their number, their
\* items and their ranks.
LEMMA PromisedIs ==
    ASSUME tree \in Trees
    PROVE  /\ Promise!Present = KeysOf(ItemSet(tree.inner))
           /\ \A k \in Keys : k \in Promise!Present <=> HasKey(tree.inner, k)
           /\ Cardinality(Promise!Present) = tree.len
           /\ \A k \in Keys : \A a : Found(tree, k, a) => a = Promise!Item(k)
           /\ \A x \in ItemSet(tree.inner) :
                Promise!Nth(RankIn(ItemSet(tree.inner), Key(x))) = Key(x)
<1> DEFINE S == ItemSet(tree.inner)
           P == KeysOf(S)
<1>1. /\ tree.inner \in Nodes /\ NodesSorted(tree.inner) /\ tree.len = Cardinality(S)
      /\ S \subseteq Item
  BY TreesType, ItemSetFinite
<1>2. /\ P \subseteq Keys /\ P \subseteq Int /\ IsFiniteSet(P) /\ Cardinality(P) = Cardinality(S)
      /\ \A k : KeyRank(P, k) = RankIn(S, k)
      /\ \A k : k \in P <=> HasKey(tree.inner, k)
  BY <1>1, RankOfItem
<1>3. /\ Describes(DictOf(tree), S)
      /\ \A k \in Keys : DictOf(tree)[k] # Absent <=> HasKey(tree.inner, k)
  BY DictIs
<1>4. Promise!Present = P
  BY <1>2, <1>3 DEF Promise!Present
<1>5. \A x \in S : Key(x) \in P
  BY DEF KeysOf
<1> HIDE DEF P
<1>6. ASSUME NEW k \in Keys, NEW a, Found(tree, k, a) PROVE a = Promise!Item(k)
  <2>1. CASE HasKey(tree.inner, k)
    <3>1. k \in Promise!Present
      BY <1>2, <1>4, <2>1
    <3>2. <<k, DictOf(tree)[k]>> \in S
      BY <1>3, <2>1 DEF Describes
    <3>3. Key(<<k, DictOf(tree)[k]>>) = k
      BY DEF Key
    <3>4. a = << <<k, DictOf(tree)[k]>> >>
      BY <1>6, <3>2, <3>3 DEF Found
    <3> QED
      BY <3>1, <3>4 DEF Promise!Item
  <2>2. CASE ~HasKey(tree.inner, k)
    BY <1>2, <1>4, <1>6, <2>2 DEF Promise!Item, Found
  <2> QED
    BY <2>1, <2>2
<1>7. ASSUME NEW x \in S PROVE Promise!Nth(RankIn(S, Key(x))) = Key(x)
  <2>1. RanksOf(P)
    BY <1>2, EveryRank
  <2>2. \A k \in P : KeyRank(P, k) = KeyRank(P, Key(x)) => k = Key(x)
    <3>1. \A k \in P : k \in Int /\ KeyRank(P, k) \in Nat
      BY <1>2, <2>1 DEF RanksOf
    <3>2. \A k \in P : k < Key(x) => KeyRank(P, k) < KeyRank(P, Key(x))
      BY <1>5, <2>1 DEF RanksOf
    <3>3. \A k \in P : Key(x) < k => KeyRank(P, Key(x)) < KeyRank(P, k)
      BY <1>5, <2>1 DEF RanksOf
    <3>4. \A k \in P : k = Key(x) \/ k < Key(x) \/ Key(x) < k
      BY <1>5, <3>1
    <3> QED
      BY <1>5, <3>1, <3>2, <3>3, <3>4
  <2>3. Promise!Nth(RankIn(S, Key(x))) = CHOOSE k \in P : KeyRank(P, k) = RankIn(S, Key(x))
    <3> DEFINE r == RankIn(S, Key(x))
               p == Promise!Present
    <3> HIDE DEF r
    <3>1. Promise!Nth(r) = CHOOSE k \in p : Cardinality({j \in p : j < k}) = r
      BY PromiseCounts, Zenon DEF Promise!Nth
    <3> HIDE DEF p
    <3>2. Promise!Nth(r) = CHOOSE k \in p : KeyRank(p, k) = r
      BY <3>1 DEF KeyRank
    <3> QED
      BY <1>4, <3>2 DEF p, r
  <2> QED
    BY <1>2, <1>5, <2>2, <2>3
<1> QED
  BY <1>1, <1>2, <1>4, <1>6, <1>7 DEF P, S

-----------------------------------------------------------------------------
(* What each kind of call does to the dictionary *)

\* A tree whose items are described by a dictionary has that dictionary.
LEMMA DictDescribed ==
    ASSUME NEW t \in Trees, NEW d, Describes(d, ItemSet(t.inner))
    PROVE  DictOf(t) = d
  BY DictIs, OneDict

DictPut(t, k, v, r) == r \in Trees /\ DictOf(r) = [DictOf(t) EXCEPT ![k] = v]

\* An item put into the tree, whether or not one with its key was there.
LEMMA PutInPuts ==
    ASSUME NEW t \in Trees, NEW k \in Keys, NEW v \in Values, NEW r, PutIn(t, <<k, v>>, r)
    PROVE  DictPut(t, k, v, r)
<1>1. Describes(DictOf(t), ItemSet(t.inner)) /\ ItemSet(t.inner) \subseteq Item
  BY DictIs, TreesType, ItemSetFinite
<1>2. r \in Trees /\ ItemSet(r.inner) = But(ItemSet(t.inner), k) \cup {<<k, v>>}
  BY DEF PutIn, Key
<1>3. Describes([DictOf(t) EXCEPT ![k] = v], ItemSet(r.inner))
  BY <1>1, <1>2, DictPuts
<1> QED
  BY <1>2, <1>3, DictDescribed DEF DictPut

DictAdd(t, k, v, r) ==
    /\ r \in Trees
    /\ DictOf(r) = IF HasKey(t.inner, k) THEN DictOf(t) ELSE [DictOf(t) EXCEPT ![k] = v]

\* An item put in unless its key was there.
LEMMA WithItemAdds ==
    ASSUME NEW t \in Trees, NEW k \in Keys, NEW v \in Values, NEW r, WithItem(t, <<k, v>>, r)
    PROVE  DictAdd(t, k, v, r)
<1>1. /\ Describes(DictOf(t), ItemSet(t.inner)) /\ ItemSet(t.inner) \subseteq Item
      /\ t.inner \in Nodes /\ NodesSorted(t.inner)
  BY DictIs, TreesType, ItemSetFinite
<1>2. CASE HasKey(t.inner, k)
  <2>1. r \in Trees /\ ItemSet(r.inner) = ItemSet(t.inner)
    BY <1>2 DEF WithItem, Key
  <2>2. DictOf(r) = DictOf(t)
    BY <1>1, <2>1, DictDescribed
  <2> QED
    BY <1>2, <2>1, <2>2 DEF DictAdd
<1>3. CASE ~HasKey(t.inner, k)
  <2>1. r \in Trees /\ ItemSet(r.inner) = ItemSet(t.inner) \cup {<<k, v>>}
    BY <1>3 DEF WithItem, Key
  <2>2. But(ItemSet(t.inner), k) = ItemSet(t.inner)
    BY <1>1, <1>3, ButOne
  <2>3. Describes([DictOf(t) EXCEPT ![k] = v], But(ItemSet(t.inner), k) \cup {<<k, v>>})
    BY <1>1, DictPuts
  <2>4. Describes([DictOf(t) EXCEPT ![k] = v], ItemSet(r.inner))
    BY <2>1, <2>2, <2>3
  <2>5. DictOf(r) = [DictOf(t) EXCEPT ![k] = v]
    BY <2>1, <2>4, DictDescribed
  <2> QED
    BY <1>3, <2>1, <2>5 DEF DictAdd
<1> QED
  BY <1>2, <1>3

DictLose(t, k, r) == r \in Trees /\ DictOf(r) = [DictOf(t) EXCEPT ![k] = Absent]

\* The items of a key are gone.
LEMMA ButLoses ==
    ASSUME NEW t \in Trees, NEW k \in Keys, NEW r \in Trees,
           ItemSet(r.inner) = But(ItemSet(t.inner), k)
    PROVE  DictLose(t, k, r)
<1>1. Describes(DictOf(t), ItemSet(t.inner)) /\ ItemSet(t.inner) \subseteq Item
  BY DictIs, TreesType, ItemSetFinite
<1>2. Describes([DictOf(t) EXCEPT ![k] = Absent], ItemSet(r.inner))
  BY <1>1, DictLoses
<1> QED
  BY <1>2, DictDescribed DEF DictLose

DictKeep(t, K, r) ==
    r \in Trees /\ DictOf(r) = [k \in Keys |-> IF k \in K THEN DictOf(t)[k] ELSE Absent]

\* Only the items of some keys are left.
LEMMA HasItemsKeeps ==
    ASSUME NEW t \in Trees, NEW K, NEW cap, NEW r,
           HasItems(r, cap, {x \in ItemSet(t.inner) : Key(x) \in K})
    PROVE  DictKeep(t, K, r)
<1>1. Describes(DictOf(t), ItemSet(t.inner)) /\ ItemSet(t.inner) \subseteq Item
  BY DictIs, TreesType, ItemSetFinite
<1>2. r \in Trees /\ ItemSet(r.inner) = {x \in ItemSet(t.inner) : Key(x) \in K}
  BY DEF HasItems
<1>3. Describes([k \in Keys |-> IF k \in K THEN DictOf(t)[k] ELSE Absent],
                {x \in ItemSet(t.inner) : Key(x) \in K})
  BY <1>1, DictKeeps
<1>4. Describes([k \in Keys |-> IF k \in K THEN DictOf(t)[k] ELSE Absent], ItemSet(r.inner))
  BY <1>2, <1>3
<1> QED
  BY <1>2, <1>4, DictDescribed DEF DictKeep

DictMerge(t, other, r) ==
    /\ r \in Trees
    /\ DictOf(r) = [k \in Keys |-> IF other[k] # Absent THEN other[k] ELSE DictOf(t)[k]]

\* append() puts the items of the other tree over those of this one.
LEMMA AppendMerges ==
    ASSUME NEW t \in Trees, NEW o \in Trees
    PROVE  DictMerge(t, DictOf(o), TreeAppend(t, o))
<1> DEFINE S == ItemSet(t.inner)
           T == ItemSet(o.inner)
           r == TreeAppend(t, o)
           d == DictOf(t)
           e == DictOf(o)
<1>1. /\ Describes(d, S) /\ S \in SUBSET Item /\ Describes(e, T) /\ T \in SUBSET Item
  BY DictIs, TreesType, ItemSetFinite
<1>2. HasItems(r, t.cap, T \cup {x \in S : ~HasKey(o.inner, Key(x))})
  BY TreeAppendIs
<1> HIDE DEF r, d, e
<1>3. r \in Trees /\ ItemSet(r.inner) = T \cup {x \in S : ~\E y \in T : Key(y) = Key(x)}
  BY <1>2 DEF HasItems, HasKey
<1> HIDE DEF S, T
<1>4. Describes([k \in Keys |-> IF e[k] # Absent THEN e[k] ELSE d[k]],
                T \cup {x \in S : ~\E y \in T : Key(y) = Key(x)})
  BY <1>1, DictMerges
<1>5. Describes([k \in Keys |-> IF e[k] # Absent THEN e[k] ELSE d[k]], ItemSet(r.inner))
  BY <1>3, <1>4
<1>6. DictOf(r) = [k \in Keys |-> IF e[k] # Absent THEN e[k] ELSE d[k]]
  BY <1>3, <1>5, DictDescribed
<1> QED
  BY <1>3, <1>6 DEF DictMerge, r, d, e

\* The other tree of an append has the given values.
LEMMA OtherIs ==
    ASSUME NEW capacity \in Capacities, NEW dict \in [Keys -> Values \cup {Absent}]
    PROVE  Other(capacity, dict) \in Trees /\ DictOf(Other(capacity, dict)) = dict
<1> DEFINE S == {k \in Keys : dict[k] # Absent}
           N == Cardinality(S)
           Nth(i) == CHOOSE k \in S : Cardinality({j \in S : j < k}) = i
           items == [i \in 1 .. N |-> <<Nth(i - 1), dict[Nth(i - 1)]>>]
           t == WithMaximumNodeSize(capacity)
           r == FromItems(t, items)
<1>1. Other(capacity, dict) = r
  BY DEF Other
<1>2. S \in SUBSET Int /\ S \subseteq Keys /\ IsFiniteSet(S)
  BY KeyAssumption, FS_Subset
<1>3. RanksOf(S) /\ N \in Nat
  <2> HIDE DEF S
  <2> QED
    BY <1>2, EveryRank
<1>4. t \in Trees /\ ItemSet(t.inner) = {}
  <2>1. capacity \in 2 .. DefaultCapacity
    BY KeyAssumption
  <2> QED
    BY <2>1, EmptyIs DEF WithMaximumNodeSize
<1>5. \A k \in S : dict[k] \in Values
  OBVIOUS
<1> HIDE DEF S, t
<1>6. ASSUME NEW i \in Nat, i < N PROVE Nth(i) \in S /\ KeyRank(S, Nth(i)) = i
  <2>1. \E k \in S : KeyRank(S, k) = i
    BY <1>3, <1>6 DEF RanksOf
  <2>2. Nth(i) = CHOOSE k \in S : KeyRank(S, k) = i
    BY DEF KeyRank
  <2> HIDE DEF Nth
  <2> QED
    BY <2>1, <2>2
<1> HIDE DEF Nth, N
<1>7. ASSUME NEW i \in 1 .. N
      PROVE  /\ i - 1 \in Nat /\ Nth(i - 1) \in S /\ KeyRank(S, Nth(i - 1)) = i - 1
             /\ items[i] = <<Nth(i - 1), dict[Nth(i - 1)]>>
             /\ items[i] \in Item /\ Key(items[i]) = Nth(i - 1)
  <2>1. i - 1 \in Nat /\ i - 1 < N
    BY <1>3
  <2>2. Nth(i - 1) \in S /\ KeyRank(S, Nth(i - 1)) = i - 1
    BY <1>6, <2>1
  <2>3. items[i] = <<Nth(i - 1), dict[Nth(i - 1)]>>
    OBVIOUS
  <2> QED
    BY <1>2, <1>5, <2>1, <2>2, <2>3 DEF Item, Key
<1>8. items \in Node /\ Len(items) = N
  <2>1. items \in [1 .. N -> Item]
    BY <1>7
  <2> HIDE DEF items
  <2> QED
    BY <1>3, <2>1, SeqDef DEF Node
<1> HIDE DEF items
<1>9. Sorted(items)
  <2>1. SUFFICES ASSUME NEW i \in 1 .. N, NEW j \in 1 .. N, i < j
                 PROVE  Key(items[i]) < Key(items[j])
    BY <1>8 DEF Sorted
  <2> DEFINE a == Nth(i - 1)
             b == Nth(j - 1)
  <2>2. a \in S /\ b \in S /\ a \in Int /\ b \in Int
    BY <1>2, <1>7
  <2>3. KeyRank(S, a) < KeyRank(S, b)
    <3>1. KeyRank(S, a) = i - 1 /\ KeyRank(S, b) = j - 1
      BY <1>7
    <3> HIDE DEF a, b
    <3> QED
      BY <1>3, <2>1, <3>1
  <2>4. Key(items[i]) = a /\ Key(items[j]) = b
    BY <1>7
  <2> HIDE DEF a, b
  <2>5. b < a => KeyRank(S, b) < KeyRank(S, a)
    BY <1>3, <2>2 DEF RanksOf
  <2>6. KeyRank(S, a) \in Nat /\ KeyRank(S, b) \in Nat
    BY <1>3, <2>2 DEF RanksOf
  <2>7. ~(b < a) /\ a # b
    BY <2>3, <2>5, <2>6
  <2> QED
    BY <2>2, <2>4, <2>7
<1>10. HasItems(r, t.cap, ToSet(items))
  BY <1>4, <1>8, <1>9, FromItemsIs
<1>11. r \in Trees /\ ItemSet(r.inner) = ToSet(items)
  BY <1>10 DEF HasItems
<1> HIDE DEF r
<1>12. \A x : x \in ToSet(items) <=> \E i \in 1 .. N : x = items[i]
  BY <1>8, NodeType
<1>13. ASSUME NEW k \in S PROVE <<k, dict[k]>> \in ToSet(items)
  <2>1. PICK i \in Nat : i = KeyRank(S, k) + 1
    BY <1>3 DEF RanksOf
  <2>2. KeyRank(S, k) \in Nat /\ KeyRank(S, k) < N
    BY <1>3 DEF RanksOf, N
  <2>3. i \in 1 .. N /\ i - 1 = KeyRank(S, k)
    BY <1>3, <2>1, <2>2
  <2> DEFINE a == Nth(i - 1)
  <2>4. a \in S /\ KeyRank(S, a) = KeyRank(S, k) /\ items[i] = <<a, dict[a]>>
    BY <1>7, <2>3
  <2> HIDE DEF a
  <2>5. a \in Int /\ k \in Int
    BY <1>2, <2>4
  <2>6. /\ a < k => KeyRank(S, a) < KeyRank(S, k)
        /\ k < a => KeyRank(S, k) < KeyRank(S, a)
    BY <1>3, <2>4 DEF RanksOf
  <2>7. a = k
    BY <2>2, <2>4, <2>5, <2>6
  <2> QED
    BY <1>12, <2>3, <2>4, <2>7
<1>14. Describes(dict, ToSet(items))
  <2>1. ASSUME NEW x \in ToSet(items) PROVE Key(x) \in S /\ x = <<Key(x), dict[Key(x)]>>
    <3>1. PICK i \in 1 .. N : x = items[i]
      BY <1>12
    <3>2. PICK k \in S : k = Nth(i - 1)
      BY <1>7
    <3> QED
      BY <1>7, <3>1, <3>2
  <2>2. \A x \in ToSet(items) : dict[Key(x)] = x[2]
    <3>1. SUFFICES ASSUME NEW x \in ToSet(items) PROVE dict[Key(x)] = x[2]
      OBVIOUS
    <3>2. PICK k \in S : x = <<k, dict[k]>> /\ Key(x) = k
      BY <2>1
    <3> QED
      BY <3>2
  <2>3. ASSUME NEW k \in Keys
        PROVE  /\ dict[k] # Absent <=> \E x \in ToSet(items) : Key(x) = k
               /\ dict[k] # Absent => <<k, dict[k]>> \in ToSet(items)
    <3>1. dict[k] # Absent <=> k \in S
      BY DEF S
    <3>2. Key(<<k, dict[k]>>) = k
      BY DEF Key
    <3> QED
      BY <1>13, <2>1, <3>1, <3>2
  <2> QED
    BY <2>2, <2>3 DEF Describes
<1>15. DictOf(r) = dict
  BY <1>11, <1>14, DictDescribed
<1> QED
  BY <1>1, <1>11, <1>15 DEF r

-----------------------------------------------------------------------------
(* Each action *)

\* BTreeSet::insert.
LEMMA SetInsertStep ==
    ASSUME tree \in Trees, NEW k \in Keys, NEW v \in Values, SetInsert(k, v)
    PROVE  tree' \in Trees /\ Promise!Add(k, v)
<1> DEFINE r == TreeInsert(tree, <<k, v>>)
<1>1. <<k, v>> \in Item /\ Key(<<k, v>>) = k /\ k \in Int
  BY KeyType, KeyAssumption
<1>2. WithItem(tree, <<k, v>>, r.tree) /\ (r.answer <=> ~HasKey(tree.inner, k))
  BY <1>1, TreeInsertIs
<1>3. /\ tree' = r.tree
      /\ answer' = [call |-> <<"add", k, v>>, item |-> None, done |-> r.answer]
  BY DEF SetInsert, Does
<1>4. r.answer \in BOOLEAN
  BY DEF TreeInsert, Result
<1> HIDE DEF r
<1>5. DictAdd(tree, k, v, tree')
  BY <1>2, <1>3, WithItemAdds
<1>6. HasKey(tree.inner, k) <=> k \in Promise!Present
  BY PromisedIs
<1>7. tree' \in Trees
      /\ DictOf(tree)' = IF k \in Promise!Present THEN DictOf(tree) ELSE [DictOf(tree) EXCEPT ![k] = v]
  BY <1>5, <1>6 DEF DictAdd
<1>8. r.answer = (k \notin Promise!Present)
  BY <1>2, <1>4, <1>6
<1>9. Promise!Answer(<<"add", k, v>>, <<>>, k \notin Promise!Present)
  BY <1>3, <1>8, SomeIsNotNone DEF Promise!Answer
<1> QED
  BY <1>7, <1>9 DEF Promise!Add

\* Whether an item was found says whether its key is present.
LEMMA FoundSays ==
    ASSUME tree \in Trees, NEW k \in Keys, NEW a, Found(tree, k, a)
    PROVE  /\ a = Promise!Item(k)
           /\ (a = None) = (k \notin Promise!Present)
           /\ (a # None) = (k \in Promise!Present)
<1>1. a = Promise!Item(k) /\ (k \in Promise!Present <=> HasKey(tree.inner, k))
  BY PromisedIs
<1>2. ~HasKey(tree.inner, k) => a = <<>>
  BY DEF Found
<1>3. HasKey(tree.inner, k) => a # <<>>
  <2>1. HasKey(tree.inner, k) => \E x : a = <<x>>
    BY DEF Found, HasKey
  <2> QED
    BY <2>1, SomeIsNotNone
<1> QED
  BY <1>1, <1>2, <1>3, SomeIsNotNone

\* What the calls that put an item in have in common, ...
LEMMA PutStep ==
    ASSUME tree \in Trees, NEW k \in Keys, NEW v \in Values, NEW a, NEW done,
           PutIn(tree, <<k, v>>, tree'), Found(tree, k, a), done = (a = None),
           answer' = [call |-> <<"put", k, v>>, item |-> a, done |-> done]
    PROVE  tree' \in Trees /\ Promise!Put(k, v)
<1>1. DictPut(tree, k, v, tree')
  BY PutInPuts
<1>2. a = Promise!Item(k) /\ done = (k \notin Promise!Present)
  BY FoundSays
<1>3. Promise!Answer(<<"put", k, v>>, Promise!Item(k), k \notin Promise!Present)
  BY <1>2 DEF Promise!Answer
<1> QED
  BY <1>1, <1>3 DEF DictPut, Promise!Put

\* ... those that take the item of a key out, ...
LEMMA RemoveStep ==
    ASSUME tree \in Trees, NEW k \in Keys, NEW a, NEW done,
           TakenOut(tree, k, tree', a), done = (a # None),
           answer' = [call |-> <<"remove", k>>, item |-> a, done |-> done]
    PROVE  tree' \in Trees /\ Promise!Remove(k)
<1>1. tree' \in Trees /\ ItemSet(tree'.inner) = But(ItemSet(tree.inner), k) /\ Found(tree, k, a)
  BY DEF TakenOut
<1>2. DictLose(tree, k, tree')
  BY <1>1, ButLoses
<1>3. a = Promise!Item(k) /\ done = (k \in Promise!Present)
  BY <1>1, FoundSays
<1>4. Promise!Answer(<<"remove", k>>, Promise!Item(k), k \in Promise!Present)
  BY <1>3 DEF Promise!Answer
<1> QED
  BY <1>1, <1>2, <1>4 DEF DictLose, Promise!Remove

\* ... those that change the value of a key, ...
LEMMA ModifyStep ==
    ASSUME tree \in Trees, NEW k \in Keys, NEW v \in Values, NEW done \in BOOLEAN,
           Modified(tree, k, v, tree'), done <=> HasKey(tree.inner, k),
           answer' = [call |-> <<"modify", k, v>>, item |-> None, done |-> done]
    PROVE  tree' \in Trees /\ Promise!Modify(k, v)
<1>1. k \in Promise!Present <=> HasKey(tree.inner, k)
  BY PromisedIs
<1>2. done = (k \in Promise!Present)
  BY <1>1
<1>3. Promise!Answer(<<"modify", k, v>>, <<>>, k \in Promise!Present)
  BY <1>2, SomeIsNotNone DEF Promise!Answer
<1>4. CASE HasKey(tree.inner, k)
  <2>1. DictPut(tree, k, v, tree')
    BY <1>4, PutInPuts DEF Modified
  <2> QED
    BY <1>1, <1>3, <1>4, <2>1 DEF DictPut, Promise!Modify
<1>5. CASE ~HasKey(tree.inner, k)
  <2>1. tree' = tree
    BY <1>5 DEF Modified
  <2> QED
    BY <1>1, <1>3, <1>5, <2>1 DEF Promise!Modify
<1> QED
  BY <1>4, <1>5

\* ... those that take out the item of a rank, ...
LEMMA PopStep ==
    ASSUME tree \in Trees, NEW i \in Nat, i <= tree.len, NEW a, NEW done,
           Popped(tree, i, tree', a), done = (a # None),
           answer' = [call |-> <<"pop", i>>, item |-> a, done |-> done]
    PROVE  tree' \in Trees /\ Promise!Pop(i) /\ i \in 0 .. Promise!Cardinality(Promise!Present)
<1>1. /\ Promise!Cardinality(Promise!Present) = tree.len /\ tree.len \in Nat
  BY PromisedIs, PromiseCounts, TreesType
<1>2. CASE i < tree.len
  <2>1. PICK x \in ItemSet(tree.inner) :
          /\ RankIn(ItemSet(tree.inner), Key(x)) = i /\ a = <<x>>
          /\ Without(tree, x, tree')
    BY <1>2 DEF Popped
  <2>2. Promise!Nth(i) = Key(x)
    BY <2>1, PromisedIs
  <2>3. Key(x) \in Keys /\ HasKey(tree.inner, Key(x))
    <3>1. x \in Item
      BY TreesType, ItemSetFinite
    <3> QED
      BY <3>1, KeyType DEF HasKey
  <2>4. Found(tree, Key(x), a)
    <3>1. \A y \in ItemSet(tree.inner) : Key(y) = Key(x) => y = x
      BY TreesType, OneItemPerKey
    <3> QED
      BY <2>1, <2>3, <3>1 DEF Found
  <2>5. a = Promise!Item(Key(x)) /\ done = TRUE
    BY <2>1, <2>3, <2>4, FoundSays, SomeIsNotNone
  <2>6. tree' \in Trees /\ ItemSet(tree'.inner) = But(ItemSet(tree.inner), Key(x))
    <3>1. But(ItemSet(tree.inner), Key(x)) = ItemSet(tree.inner) \ {x}
      BY TreesType, ButOne
    <3> QED
      BY <2>1, <3>1 DEF Without
  <2>7. DictLose(tree, Key(x), tree')
    BY <2>3, <2>6, ButLoses
  <2>8. (i < tree.len) = TRUE
    BY <1>2
  <2>9. Promise!Answer(<<"pop", i>>,
          IF i < Promise!Cardinality(Promise!Present) THEN Promise!Item(Promise!Nth(i)) ELSE <<>>,
          i < Promise!Cardinality(Promise!Present))
    BY <1>1, <2>2, <2>5, <2>8 DEF Promise!Answer
  <2> QED
    BY <1>1, <1>2, <2>2, <2>6, <2>7, <2>9 DEF DictLose, Promise!Pop
<1>3. CASE ~(i < tree.len)
  <2>1. tree' = tree /\ a = <<>>
    BY <1>1, <1>3 DEF Popped
  <2>2. done = FALSE /\ (i < tree.len) = FALSE
    <3>1. ~(a # None)
      BY <2>1, SomeIsNotNone
    <3>2. done = FALSE
      BY <3>1
    <3>3. (i < tree.len) = FALSE
      BY <1>3
    <3> QED
      BY <3>2, <3>3
  <2>3. Promise!Answer(<<"pop", i>>,
          IF i < Promise!Cardinality(Promise!Present) THEN Promise!Item(Promise!Nth(i)) ELSE <<>>,
          i < Promise!Cardinality(Promise!Present))
    BY <1>1, <1>3, <2>1, <2>2 DEF Promise!Answer
  <2> QED
    BY <1>1, <1>3, <2>1, <2>3 DEF Promise!Pop
<1> QED
  BY <1>2, <1>3

\* ... and those that keep the items of some keys.
LEMMA KeepStep ==
    ASSUME tree \in Trees, NEW K, DictKeep(tree, K, tree'),
           answer' = [call |-> <<"keep", K>>, item |-> None, done |-> FALSE]
    PROVE  tree' \in Trees /\ Promise!Keep(K)
<1>1. Promise!Answer(<<"keep", K>>, <<>>, FALSE)
  BY SomeIsNotNone DEF Promise!Answer
<1> QED
  BY <1>1 DEF DictKeep, Promise!Keep

\* BTreeSet::replace.
LEMMA SetReplaceStep ==
    ASSUME tree \in Trees, NEW k \in Keys, NEW v \in Values, SetReplace(k, v)
    PROVE  tree' \in Trees /\ Promise!Put(k, v)
<1>1. <<k, v>> \in Item /\ Key(<<k, v>>) = k
  BY KeyType
<1>2. /\ PutIn(tree, <<k, v>>, TreeReplace(tree, <<k, v>>).tree)
      /\ Found(tree, k, TreeReplace(tree, <<k, v>>).answer)
  BY <1>1, TreeReplaceIs
<1> QED
  BY <1>2, PutStep DEF SetReplace, Does

\* BTreeMap::insert.
LEMMA MapInsertStep ==
    ASSUME tree \in Trees, NEW k \in Keys, NEW v \in Values, DoMapInsert(k, v)
    PROVE  tree' \in Trees /\ Promise!Put(k, v)
<1>1. /\ PutIn(tree, <<k, v>>, MapInsert(tree, k, v).tree)
      /\ Found(tree, k, MapInsert(tree, k, v).answer)
  BY MapInsertIs
<1> QED
  BY <1>1, PutStep DEF DoMapInsert, Does

\* The insert of a vacant or an occupied entry.
LEMMA EntryInsertStep ==
    ASSUME tree \in Trees, NEW k \in Keys, NEW v \in Values, DoEntryInsert(k, v)
    PROVE  tree' \in Trees /\ Promise!Put(k, v)
<1> DEFINE e == EntryOf(tree, k)
           r == OccupiedInsert(tree, e, v)
<1>1. e # None
  BY DEF DoEntryInsert
<1>2. HasKey(tree.inner, k)
  <2>1. k \in Int
    BY KeyAssumption
  <2> QED
    BY <1>1, <2>1, EntryIs, SomeIsNotNone
<1>3. /\ PutIn(tree, <<k, v>>, AssignAtIndex(tree, e[1], v))
      /\ Found(tree, k, GetIndex(tree, e[1]))
  BY <1>2, AssignAtEntryIs
<1>4. r.tree = AssignAtIndex(tree, e[1], v) /\ r.answer = GetIndex(tree, e[1])
  BY DEF OccupiedInsert, Result
<1>5. tree' = r.tree
      /\ answer' = [call |-> <<"put", k, v>>, item |-> r.answer, done |-> FALSE]
  BY DEF DoEntryInsert, Does
<1> HIDE DEF r, e
<1>6. k \in Promise!Present
  BY <1>2, PromisedIs
<1>7. FALSE = (r.answer = None)
  <2>1. (r.answer # None) = (k \in Promise!Present)
    BY <1>3, <1>4, FoundSays
  <2> QED
    BY <1>6, <2>1
<1> QED
  BY <1>3, <1>4, <1>5, <1>7, PutStep

\* BTreeSet::take and remove.
LEMMA SetTakeStep ==
    ASSUME tree \in Trees, NEW k \in Keys, SetTake(k)
    PROVE  tree' \in Trees /\ Promise!Remove(k)
<1>1. k \in Int
  BY KeyAssumption
<1>2. TakenOut(tree, k, Take(tree, k).tree, Take(tree, k).answer)
  BY <1>1, DeleteIs DEF Take
<1>3. TreeRemove(tree, k).answer = (Take(tree, k).answer # None)
  BY DEF TreeRemove, Take, Result
<1> QED
  BY <1>2, <1>3, RemoveStep DEF SetTake, Does

\* BTreeMap::remove.
LEMMA MapRemoveStep ==
    ASSUME tree \in Trees, NEW k \in Keys, DoMapRemove(k)
    PROVE  tree' \in Trees /\ Promise!Remove(k)
<1>1. k \in Int
  BY KeyAssumption
<1>2. TakenOut(tree, k, MapRemove(tree, k).tree, MapRemove(tree, k).answer)
  BY <1>1, DeleteIs DEF MapRemove
<1> QED
  BY <1>2, RemoveStep DEF DoMapRemove, Does

\* OccupiedEntry::remove_entry.
LEMMA EntryRemoveStep ==
    ASSUME tree \in Trees, NEW k \in Keys, DoEntryRemove(k)
    PROVE  tree' \in Trees /\ Promise!Remove(k)
<1> DEFINE r == OccupiedRemove(tree, EntryOf(tree, k))
<1>1. EntryOf(tree, k) # None
  BY DEF DoEntryRemove
<1>2. TakenOut(tree, k, r.tree, r.answer)
  BY <1>1, EntryRemoveIs
<1> QED
  BY <1>2, RemoveStep DEF DoEntryRemove, Does

\* BTreeMap::get_mut.
LEMMA GetMutStep ==
    ASSUME tree \in Trees, NEW k \in Keys, NEW v \in Values, DoGetMut(k, v)
    PROVE  tree' \in Trees /\ Promise!Modify(k, v)
<1>1. k \in Int
  BY KeyAssumption
<1>2. Modified(tree, k, v, AssignAtKey(tree, k, v))
  BY AssignAtKeyIs
<1>3. GetKeyValue(tree, k) # None <=> HasKey(tree.inner, k)
  BY <1>1, GetKeyValueIs
<1>4. (GetKeyValue(tree, k) # None) \in BOOLEAN
  OBVIOUS
<1> QED
  BY <1>2, <1>3, <1>4, ModifyStep DEF DoGetMut, Does

\* Entry::and_modify.
LEMMA AndModifyStep ==
    ASSUME tree \in Trees, NEW k \in Keys, NEW v \in Values, DoAndModify(k, v)
    PROVE  tree' \in Trees /\ Promise!Modify(k, v)
<1>1. Modified(tree, k, v, AndModify(tree, k, v)) /\ (EntryOf(tree, k) # None <=> HasKey(tree.inner, k))
  BY AndModifyIs
<1>2. (EntryOf(tree, k) # None) \in BOOLEAN
  OBVIOUS
<1> QED
  BY <1>1, <1>2, ModifyStep DEF DoAndModify, Does

\* Entry::or_insert.
LEMMA OrInsertStep ==
    ASSUME tree \in Trees, NEW k \in Keys, NEW v \in Values, DoOrInsert(k, v)
    PROVE  tree' \in Trees /\ Promise!PutIfAbsent(k, v)
<1> DEFINE r == OrInsert(tree, k, v)
<1>1. /\ WithItem(tree, <<k, v>>, r.tree) /\ Found(r.tree, k, r.answer)
      /\ (r.tree.len > tree.len) <=> ~HasKey(tree.inner, k)
  BY OrInsertIs
<1>2. /\ tree' = r.tree
      /\ answer' = [call |-> <<"or_insert", k, v>>, item |-> r.answer,
                    done |-> r.tree.len > tree.len]
  BY DEF DoOrInsert, Does
<1>3. (r.tree.len > tree.len) \in BOOLEAN
  OBVIOUS
<1> HIDE DEF r
<1>4. DictAdd(tree, k, v, tree')
  BY <1>1, <1>2, WithItemAdds
<1>5. HasKey(tree.inner, k) <=> k \in Promise!Present
  BY PromisedIs
<1>6. /\ tree' \in Trees
      /\ DictOf(tree)' = IF k \in Promise!Present THEN DictOf(tree)
                         ELSE [DictOf(tree) EXCEPT ![k] = v]
  BY <1>4, <1>5 DEF DictAdd
<1>7. r.answer = << <<k, DictOf(tree')[k]>> >>
  <2>1. Describes(DictOf(tree'), ItemSet(tree'.inner))
    BY <1>6, DictIs
  <2>2. \E x \in ItemSet(tree'.inner) : Key(x) = k
    <3>1. CASE HasKey(tree.inner, k)
      <4>1. ItemSet(tree'.inner) = ItemSet(tree.inner)
        BY <1>1, <1>2, <3>1 DEF WithItem, Key
      <4> QED
        BY <3>1, <4>1 DEF HasKey
    <3>2. CASE ~HasKey(tree.inner, k)
      <4>1. <<k, v>> \in ItemSet(tree'.inner)
        BY <1>1, <1>2, <3>2 DEF WithItem, Key
      <4> QED
        BY <4>1, KeyType
    <3> QED
      BY <3>1, <3>2
  <2>3. <<k, DictOf(tree')[k]>> \in ItemSet(tree'.inner)
    BY <2>1, <2>2 DEF Describes
  <2>4. Key(<<k, DictOf(tree')[k]>>) = k
    BY DEF Key
  <2> QED
    BY <1>1, <1>2, <2>3, <2>4 DEF Found
<1>8. (r.tree.len > tree.len) = (k \notin Promise!Present)
  BY <1>1, <1>3, <1>5, Zenon
<1>9. Promise!Answer(<<"or_insert", k, v>>, << <<k, DictOf(tree)'[k]>> >>, k \notin Promise!Present)
  BY <1>2, <1>7, <1>8 DEF Promise!Answer
<1> QED
  BY <1>6, <1>9 DEF Promise!PutIfAbsent

\* pop_first and pop_last.
LEMMA PopEndStep ==
    ASSUME tree \in Trees, NEW side \in {"front", "back"}, DoPop(side)
    PROVE  tree' \in Trees /\ \E i \in 0 .. Promise!Cardinality(Promise!Present) : Promise!Pop(i)
<1> DEFINE r == IntoIterStep(tree, side)
           rank == IF side = "front" THEN 0 ELSE Max({0, tree.len - 1})
<1>1. /\ tree' = r.tree
      /\ answer' = [call |-> <<"pop", rank>>, item |-> r.answer, done |-> r.answer # None]
  BY DEF DoPop, Does
<1>2. tree.len \in Nat
  BY TreesType
<1>3. Max({0, tree.len - 1}) = IF tree.len = 0 THEN 0 ELSE tree.len - 1
  <2>1. PICK zero \in Int : zero = 0
    OBVIOUS
  <2>2. Max({zero, tree.len - 1}) = IF zero >= tree.len - 1 THEN zero ELSE tree.len - 1
    <3>1. tree.len - 1 \in Int
      BY <1>2
    <3> QED
      BY <3>1, MinMaxOfTwo
  <2> QED
    BY <1>2, <2>1, <2>2
<1>4. rank \in Nat /\ rank <= tree.len
  BY <1>2, <1>3
<1>5. Popped(tree, rank, r.tree, r.answer)
  <2>1. CASE side = "front"
    <3>1. r = PopFirst(tree) /\ rank = 0
      BY <2>1 DEF IntoIterStep
    <3>2. Popped(tree, 0, PopFirst(tree).tree, PopFirst(tree).answer)
      BY PopEndsIs
    <3> QED
      BY <3>1, <3>2
  <2>2. CASE side = "back"
    <3>1. r = PopLast(tree) /\ rank = IF tree.len = 0 THEN 0 ELSE tree.len - 1
      BY <1>3, <2>2 DEF IntoIterStep
    <3> HIDE DEF rank, r
    <3>2. Popped(tree, rank, PopLast(tree).tree, PopLast(tree).answer)
      BY <1>4, <3>1, PopEndsIs
    <3> QED
      BY <3>1, <3>2
  <2> QED
    BY <2>1, <2>2
<1> HIDE DEF rank, r
<1> QED
  BY <1>1, <1>4, <1>5, PopStep

\* pop_index.
LEMMA PopIndexStep ==
    ASSUME tree \in Trees, NEW idx \in Nat, DoPopIndex(idx)
    PROVE  tree' \in Trees /\ \E i \in 0 .. Promise!Cardinality(Promise!Present) : Promise!Pop(i)
<1> DEFINE r == PopIndex(tree, idx)
<1>1. /\ tree' = r.tree /\ idx < tree.len
      /\ answer' = [call |-> <<"pop", idx>>, item |-> r.answer, done |-> r.answer # None]
  BY DEF DoPopIndex, Does
<1>2. Popped(tree, idx, r.tree, r.answer)
  BY PopIndexIs
<1> HIDE DEF r
<1>3. idx <= tree.len
  BY <1>1, TreesType
<1> QED
  BY <1>1, <1>2, <1>3, PopStep

\* remove on the first_entry or the last_entry of a map.
LEMMA EndRemoveStep ==
    ASSUME tree \in Trees, DoEndRemove(FirstEntry(tree)) \/ DoEndRemove(LastEntry(tree))
    PROVE  tree' \in Trees /\ \E i \in 0 .. Promise!Cardinality(Promise!Present) : Promise!Pop(i)
<1>1. tree.len \in Nat
  BY TreesType
<1>2. PICK e \in {FirstEntry(tree), LastEntry(tree)} : DoEndRemove(e)
  OBVIOUS
<1>3. e # None
  BY <1>2 DEF DoEndRemove
<1>4. PICK i \in Nat : e = <<i>> /\ i < tree.len
  BY <1>1, <1>2, <1>3, SomeIsNotNone DEF FirstEntry, LastEntry
<1> DEFINE r == PopIndex(tree, i)
<1>5. e[1] = i
  BY <1>4
<1>6. /\ tree' = r.tree
      /\ answer' = [call |-> <<"pop", i>>, item |-> r.answer, done |-> r.answer # None]
  BY <1>2, <1>5 DEF DoEndRemove, OccupiedRemove, Does
<1>7. Popped(tree, i, r.tree, r.answer)
  BY PopIndexIs
<1> HIDE DEF r
<1>8. i <= tree.len
  BY <1>1, <1>4
<1> QED
  BY <1>6, <1>7, <1>8, PopStep

\* retain.
LEMMA RetainStep ==
    ASSUME tree \in Trees, NEW S \in SUBSET Keys, DoRetain(S)
    PROVE  tree' \in Trees /\ Promise!Keep(S)
<1>1. DictKeep(tree, S, Retain(tree, S))
  BY RetainIs, HasItemsKeeps
<1> QED
  BY <1>1, KeepStep DEF DoRetain, Does

\* clear.
LEMMA ClearStep ==
    ASSUME tree \in Trees, DoClear
    PROVE  tree' \in Trees /\ Promise!Keep({})
<1>1. Empty(tree.cap) \in Trees /\ ItemSet(Empty(tree.cap).inner) = {}
  BY TreesType, EmptyIs
<1>2. {x \in ItemSet(tree.inner) : Key(x) \in {}} = {}
  OBVIOUS
<1>3. HasItems(Clear(tree), Clear(tree).cap, {x \in ItemSet(tree.inner) : Key(x) \in {}})
  BY <1>1, <1>2 DEF HasItems, Clear
<1>4. DictKeep(tree, {}, Clear(tree))
  BY <1>3, HasItemsKeeps
<1> QED
  BY <1>4, KeepStep DEF DoClear, Does

\* split_off, of which the caller goes on with either half.
LEMMA SplitOffStep ==
    ASSUME tree \in Trees, NEW k \in Keys, NEW half \in {"low", "high"}, DoSplitOff(k, half)
    PROVE  tree' \in Trees /\ \E S \in SUBSET Keys : Promise!Keep(S)
<1> DEFINE halves == IF half = "low" THEN SplitOff(tree, k) ELSE SplitOffCmp(tree, k)
           S == {j \in Keys : IF half = "low" THEN j < k ELSE j >= k}
<1>1. /\ tree' = halves[half]
      /\ answer' = [call |-> <<"keep", S>>, item |-> None, done |-> FALSE]
  BY DEF DoSplitOff, Does
<1>2. /\ HasItems(SplitOff(tree, k).low, tree.cap, {x \in ItemSet(tree.inner) : Key(x) < k})
      /\ HasItems(SplitOff(tree, k).high, DefaultCapacity, {x \in ItemSet(tree.inner) : Key(x) >= k})
      /\ SplitOffCmp(tree, k) = SplitOff(tree, k)
  <2>1. k \in Int
    BY KeyAssumption
  <2> QED
    BY <2>1, SplitOffIs
<1>3. \A x \in ItemSet(tree.inner) : Key(x) \in Keys
  <2>1. ItemSet(tree.inner) \subseteq Item
    BY TreesType, ItemSetFinite
  <2> QED
    BY <2>1, KeyType
<1>4. DictKeep(tree, S, tree')
  <2>1. CASE half = "low"
    <3>1. {x \in ItemSet(tree.inner) : Key(x) < k} = {x \in ItemSet(tree.inner) : Key(x) \in S}
      BY <1>3, <2>1
    <3>2. tree' = SplitOff(tree, k).low
      BY <1>1, <2>1
    <3> HIDE DEF S, halves
    <3> QED
      BY <1>2, <3>1, <3>2, HasItemsKeeps
  <2>2. CASE half = "high"
    <3>1. {x \in ItemSet(tree.inner) : Key(x) >= k} = {x \in ItemSet(tree.inner) : Key(x) \in S}
      BY <1>3, <2>2
    <3>2. tree' = SplitOff(tree, k).high
      BY <1>1, <1>2, <2>2
    <3> HIDE DEF S, halves
    <3> QED
      BY <1>2, <3>1, <3>2, HasItemsKeeps
  <2> QED
    BY <2>1, <2>2
<1>5. S \in SUBSET Keys
  OBVIOUS
<1> HIDE DEF S
<1> QED
  BY <1>1, <1>4, <1>5, KeepStep

\* append, of a tree made from items or built by inserts.
LEMMA AppendStep ==
    ASSUME tree \in Trees, NEW c \in Capacities, NEW d \in [Keys -> Values \cup {Absent}],
           DoAppend(c, d)
    PROVE  tree' \in Trees /\ Promise!Merge(d)
<1> DEFINE o == Other(c, d)
<1>1. o \in Trees /\ DictOf(o) = d
  BY OtherIs
<1>2. /\ tree' = TreeAppend(tree, o)
      /\ answer' = [call |-> <<"merge", d>>, item |-> None, done |-> FALSE]
  BY DEF DoAppend, Does
<1> HIDE DEF o
<1>3. DictMerge(tree, d, tree')
  <2>1. DictMerge(tree, DictOf(o), TreeAppend(tree, o))
    BY <1>1, AppendMerges
  <2> QED
    BY <1>1, <1>2, <2>1
<1>4. Promise!Answer(<<"merge", d>>, <<>>, FALSE)
  BY <1>2, SomeIsNotNone DEF Promise!Answer
<1> QED
  BY <1>3, <1>4 DEF DictMerge, Promise!Merge

-----------------------------------------------------------------------------
(* Reads *)

\* A key has in a sorted node the rank that slice::partition_point finds.
LEMMA NodeByRank ==
    ASSUME NEW items \in Node, Sorted(items), NEW k \in Int
    PROVE  LET S == ToSet(items) IN
           /\ ItemsBelow(items, k) = RankIn(S, k)
           /\ Cardinality({i \in DOMAIN items : Key(items[i]) < k}) = RankIn(S, k)
           /\ RankIn(S, k) \in 0 .. Len(items)
           /\ \A i \in 1 .. Len(items) : Key(items[i]) < k <=> i <= RankIn(S, k)
<1> DEFINE S == ToSet(items)
<1>1. DOMAIN items = 1 .. Len(items) /\ Len(items) \in Nat
      /\ (\A i \in 1 .. Len(items) : items[i] \in ToSet(items) /\ Key(items[i]) \in Int)
  BY NodeType
<1> HIDE DEF S
<1> DEFINE whole == <<items>>
<1>3. /\ whole \in Nodes /\ Len(whole) = 1 /\ whole[1] = items /\ NodesSorted(whole)
  <2>1. whole \in Nodes /\ Len(whole) = 1 /\ whole[1] = items
    BY DEF Nodes
  <2> HIDE DEF whole
  <2> QED
    BY <2>1 DEF NodesSorted
<1> HIDE DEF whole
<1>4. ItemSet(whole) = S
  <2>1. \A x : x \in ItemSet(whole) <=> x \in ToSet(items)
    BY <1>3, NodesType
  <2> QED
    BY <2>1 DEF S
<1> DEFINE b == ItemsBelow(items, k)
<1>5. b \in 0 .. Len(items) /\ \A i \in 1 .. Len(items) : Key(items[i]) < k <=> i <= b
  BY ItemsBelowIs
<1>6. b = Cardinality({i \in DOMAIN items : Key(items[i]) < k})
  <2> DEFINE verdicts == [i \in DOMAIN items |-> Key(items[i]) < k]
  <2>1. b = Cardinality({i \in DOMAIN verdicts : verdicts[i]})
    BY DEF ItemsBelow, PartitionPoint
  <2>2. {i \in DOMAIN verdicts : verdicts[i]} = {i \in DOMAIN items : Key(items[i]) < k}
    OBVIOUS
  <2> QED
    BY <2>1, <2>2
<1> HIDE DEF b
<1>7. PICK one \in 1 .. Len(whole) : one = 1
  BY <1>3
<1>8. PICK place \in 1 .. Len(items) + 1 : place = b + 1
  BY <1>1, <1>5
<1>9. Divides(whole, one, place, k)
  <2>1. \A j \in 1 .. Len(items) : Key(items[j]) < k <=> j < place
    BY <1>1, <1>5, <1>8
  <2>2. \A m \in 1 .. Len(whole) : ~(m < one) /\ ~(m > one)
    BY <1>3, <1>7
  <2> QED
    BY <1>3, <1>7, <1>8, <2>1, <2>2 DEF Divides
<1>10. RankIn(S, k) = Sums(Lengths(whole))[one - 1] + place - 1
  BY <1>3, <1>4, <1>9, RankOfPlace
<1>11. Sums(Lengths(whole))[one - 1] = 0
  BY <1>3, <1>7, SumsType
<1>12. RankIn(S, k) = b
  BY <1>1, <1>5, <1>8, <1>10, <1>11
<1> QED
  BY <1>5, <1>6, <1>12 DEF b, S

\* The sequence of the items by rank.
LEMMA ItemsByRank ==
    ASSUME NEW t \in Trees
    PROVE  LET items == Items(t)
               S == ItemSet(t.inner)
           IN /\ items \in Node /\ Sorted(items) /\ ToSet(items) = S
              /\ Len(items) = t.len /\ t.len \in Nat /\ DOMAIN items = 1 .. t.len
              /\ \A k \in Int : Cardinality({i \in DOMAIN items : Key(items[i]) < k}) = RankIn(S, k)
              /\ \A x \in S : /\ RankIn(S, Key(x)) \in Nat /\ RankIn(S, Key(x)) < t.len
                              /\ items[RankIn(S, Key(x)) + 1] = x
<1> DEFINE items == Items(t)
           S == ItemSet(t.inner)
<1>1. /\ items \in Node /\ Sorted(items) /\ ToSet(items) = S
      /\ Len(items) = t.len /\ t.len \in Nat
  BY TreesType, ItemsAre DEF Items
<1> HIDE DEF items, S
<1>2. DOMAIN items = 1 .. t.len /\ Len(items) \in Nat
      /\ (\A i \in 1 .. Len(items) : items[i] \in ToSet(items) /\ Key(items[i]) \in Int)
      /\ (\A x \in ToSet(items) : \E i \in 1 .. Len(items) : x = items[i])
  BY <1>1, NodeType
<1>5. ASSUME NEW k \in Int
      PROVE  /\ Cardinality({i \in DOMAIN items : Key(items[i]) < k}) = RankIn(S, k)
             /\ RankIn(S, k) \in 0 .. Len(items)
             /\ \A i \in 1 .. Len(items) : Key(items[i]) < k <=> i <= RankIn(S, k)
  BY <1>1, NodeByRank
<1>6. ASSUME NEW x \in S
      PROVE  /\ RankIn(S, Key(x)) \in Nat /\ RankIn(S, Key(x)) < t.len
             /\ items[RankIn(S, Key(x)) + 1] = x
  <2>1. PICK i \in 1 .. Len(items) : x = items[i]
    BY <1>1, <1>2
  <2>2. \A j \in 1 .. Len(items) : Key(items[j]) < Key(x) <=> j < i
    BY <1>1, <2>1, SortedPlaces
  <2>3. PICK r \in 0 .. Len(items) : r = RankIn(S, Key(x))
    BY <1>2, <1>5, <2>1
  <2>4. \A j \in 1 .. Len(items) : j < i <=> j <= r
    BY <1>2, <1>5, <2>1, <2>2, <2>3
  <2>5. ~(i <= r)
    BY <1>2, <2>4
  <2>6. i - 1 <= r
    <3>1. i - 1 \in 1 .. Len(items) => i - 1 <= r
      BY <1>2, <2>4
    <3> QED
      BY <1>2, <3>1
  <2>7. r + 1 = i
    BY <1>2, <2>5, <2>6
  <2> QED
    BY <1>1, <1>2, <2>1, <2>3, <2>7
<1> QED
  BY <1>1, <1>2, <1>5, <1>6 DEF items, S

\* A read by rank is a read of that sequence.
ReadBy(t, rank, a) == a = At(Items(t), rank + 1)

\* An item is read at its rank, and nothing behind the last.
LEMMA AtRank ==
    ASSUME NEW t \in Trees
    PROVE  /\ \A x \in ItemSet(t.inner) : ReadBy(t, RankIn(ItemSet(t.inner), Key(x)), <<x>>)
           /\ \A i \in Nat : i >= t.len => ReadBy(t, i, <<>>)
<1>1. Len(Items(t)) = t.len /\ t.len \in Nat
  BY ItemsByRank
<1>2. ASSUME NEW x \in ItemSet(t.inner)
      PROVE  ReadBy(t, RankIn(ItemSet(t.inner), Key(x)), <<x>>)
  <2> DEFINE r == RankIn(ItemSet(t.inner), Key(x))
  <2>1. r \in Nat /\ r < t.len /\ Items(t)[r + 1] = x
    BY ItemsByRank
  <2> HIDE DEF r
  <2>2. r + 1 <= Len(Items(t))
    BY <1>1, <2>1
  <2>3. ReadBy(t, r, <<x>>)
    BY <2>1, <2>2 DEF ReadBy, At, Some
  <2> QED
    BY <2>3 DEF r
<1>3. ASSUME NEW i \in Nat, i >= t.len PROVE ReadBy(t, i, <<>>)
  <2>1. ~(i + 1 <= Len(Items(t)))
    BY <1>1, <1>3
  <2> QED
    BY <2>1 DEF ReadBy, At, None
<1> QED
  BY <1>2, <1>3

\* get_index reads by rank.
LEMMA GetIndexReads ==
    ASSUME NEW t \in Trees, NEW i \in Nat
    PROVE  ReadBy(t, i, GetIndex(t, i))
<1>1. t.len \in Nat
  BY TreesType
<1>2. CASE i < t.len
  <2>1. \E x \in ItemSet(t.inner) : GetIndex(t, i) = <<x>> /\ RankIn(ItemSet(t.inner), Key(x)) = i
    BY <1>2, GetIndexIs
  <2> QED
    BY <2>1, AtRank
<1>3. CASE i >= t.len
  BY <1>3, GetIndexIs, AtRank
<1> QED
  BY <1>1, <1>2, <1>3

\* lower_bound reads the first item that is not below k.
LEMMA LowerBoundReads ==
    ASSUME NEW t \in Trees, NEW k \in Int
    PROVE  ReadBy(t, RankIn(ItemSet(t.inner), k), LowerBound(t, k))
<1> DEFINE S == ItemSet(t.inner)
<1>1. PICK n \in 1 .. Len(t.inner) : \E i \in 1 .. Len(t.inner[n]) + 1 :
             /\ LocateValue(t, k) = <<n, i>> /\ Divides(t.inner, n, i, k)
             /\ n < Len(t.inner) => i <= Len(t.inner[n])
  BY LocateValueIs
<1>2. PICK i \in 1 .. Len(t.inner[n]) + 1 :
             /\ LocateValue(t, k) = <<n, i>> /\ Divides(t.inner, n, i, k)
             /\ n < Len(t.inner) => i <= Len(t.inner[n])
  BY <1>1
<1>3. LowerBound(t, k) = IF i <= Len(t.inner[n]) THEN <<t.inner[n][i]>> ELSE <<>>
  BY <1>2, ItemAtDivide DEF LowerBound
<1>4. RankIn(S, k) = PrefixSum(t, n - 1) + i - 1
  BY <1>2, TreesType, RankOfPlace DEF PrefixSum
<1>5. /\ Len(t.inner[n]) \in Nat /\ Len(t.inner) \in Nat /\ t.len \in Nat
      /\ PrefixSum(t, n - 1) \in Nat
  <2>1. n - 1 \in 0 .. Len(t.inner)
    BY TreesType
  <2> QED
    BY <2>1, TreesType, NodesType, SumsGrow
<1>6. CASE i <= Len(t.inner[n])
  <2>1. i \in 1 .. Len(t.inner[n])
    BY <1>5, <1>6
  <2>2. /\ t.inner[n][i] \in S
        /\ RankIn(S, Key(t.inner[n][i])) = PrefixSum(t, n - 1) + i - 1
    BY <2>1, RankAt
  <2> QED
    BY <1>3, <1>4, <1>6, <2>2, AtRank
<1>7. CASE ~(i <= Len(t.inner[n]))
  <2>1. n = Len(t.inner) /\ i = Len(t.inner[n]) + 1
    BY <1>2, <1>5, <1>7
  <2>2. PrefixSum(t, n) = PrefixSum(t, n - 1) + Len(t.inner[n]) /\ PrefixSum(t, n) = t.len
    BY <2>1, SumsGrow
  <2>3. RankIn(S, k) = t.len
    BY <1>4, <1>5, <2>1, <2>2
  <2>4. t.len >= t.len
    BY <1>5
  <2> QED
    BY <1>3, <1>5, <1>7, <2>3, <2>4, AtRank
<1> QED
  BY <1>6, <1>7

\* first and last read the ends.
LEMMA EndsRead ==
    ASSUME NEW t \in Trees
    PROVE  /\ ReadBy(t, 0, FirstItem(t))
           /\ LastItem(t) = IF Items(t) = <<>> THEN None ELSE Some(Last(Items(t)))
<1> DEFINE L == Len(t.inner)
           S == ItemSet(t.inner)
<1>1. /\ t.inner \in Nodes /\ L \in Nat /\ L >= 1 /\ t.len \in Nat
      /\ DOMAIN t.inner = 1 .. L
      /\ \A n \in 1 .. L : Len(t.inner[n]) \in Nat /\ DOMAIN t.inner[n] = 1 .. Len(t.inner[n])
      /\ \A n \in 1 .. L : Len(t.inner[n]) = 0 => L = 1
  BY TreesType, NodesType DEF NodesFit
<1>2. Last(t.inner) = t.inner[L]
  BY DEF Last
<1>3. /\ Items(t) \in Node /\ Len(Items(t)) = t.len
      /\ Items(t) = <<>> <=> t.len = 0
      /\ Last(Items(t)) = Items(t)[t.len]
  BY ItemsByRank, EmptyNode DEF Last
<1>4. /\ PrefixSum(t, 0) = 0 /\ PrefixSum(t, L) = t.len
      /\ \A n \in 1 .. L : PrefixSum(t, n) = PrefixSum(t, n - 1) + Len(t.inner[n])
      /\ \A n \in 0 .. L : PrefixSum(t, n) \in Nat
  BY SumsGrow
<1> HIDE DEF L
<1>5. PICK one \in 1 .. L : one = 1
  BY <1>1
<1>6. CASE Len(t.inner[one]) = 0
  <2>1. L = 1
    BY <1>1, <1>6
  <2>2. t.len = 0
    BY <1>1, <1>4, <1>5, <1>6, <2>1
  <2>3. FirstItem(t) = <<>>
    <3>1. 1 \notin DOMAIN t.inner[1]
      BY <1>1, <1>5, <1>6
    <3> QED
      BY <3>1 DEF FirstItem, ItemAt, None
  <2>4. LastItem(t) = <<>>
    <3>1. Len(t.inner[L]) = 0 /\ 0 \notin DOMAIN t.inner[L]
      BY <1>1, <1>5, <1>6, <2>1
    <3> QED
      BY <1>2, <3>1 DEF LastItem, ItemAt, None, L
  <2>5. ReadBy(t, 0, <<>>)
    <3>1. 0 >= t.len
      BY <2>2
    <3> QED
      BY <3>1, AtRank
  <2> QED
    BY <1>3, <2>2, <2>3, <2>4, <2>5 DEF None
<1>7. CASE Len(t.inner[one]) # 0
  <2>1. one \in 1 .. Len(t.inner[one]) /\ one \in 1 .. Len(t.inner)
    BY <1>1, <1>5, <1>7 DEF L
  <2>2. /\ t.inner[one][one] \in S
        /\ RankIn(S, Key(t.inner[one][one])) = PrefixSum(t, one - 1) + one - 1
        /\ ItemAt(t, <<one, one>>) = <<t.inner[one][one]>>
    BY <2>1, RankAt
  <2>3. PrefixSum(t, one - 1) + one - 1 = 0
    BY <1>4, <1>5
  <2>4. FirstItem(t) = ItemAt(t, <<one, one>>)
    BY <1>5 DEF FirstItem
  <2>5. ReadBy(t, 0, FirstItem(t))
    BY <2>2, <2>3, <2>4, AtRank
  <2>6. Len(t.inner[L]) # 0
    BY <1>1, <1>5, <1>7
  <2>7. L \in 1 .. Len(t.inner) /\ Len(t.inner[L]) \in 1 .. Len(t.inner[L])
    BY <1>1, <2>6 DEF L
  <2> DEFINE h == Len(t.inner[L])
  <2>8. /\ t.inner[L][h] \in S
        /\ RankIn(S, Key(t.inner[L][h])) = PrefixSum(t, L - 1) + h - 1
        /\ ItemAt(t, <<L, h>>) = <<t.inner[L][h]>>
    BY <2>7, RankAt
  <2>9. LastItem(t) = ItemAt(t, <<L, h>>)
    BY <1>2 DEF LastItem, L
  <2>10. PrefixSum(t, L - 1) + h = t.len /\ t.len # 0
    <3>1. L \in 1 .. L /\ L - 1 \in 0 .. L
      BY <1>1
    <3>2. PrefixSum(t, L) = PrefixSum(t, L - 1) + h /\ PrefixSum(t, L - 1) \in Nat /\ h \in Nat
      BY <1>1, <1>4, <3>1
    <3> QED
      BY <1>4, <2>6, <3>2
  <2>11. (PrefixSum(t, L - 1) + h - 1) + 1 = t.len
    <3>1. PrefixSum(t, L - 1) \in Nat /\ h \in Nat
      BY <1>1, <1>4
    <3> QED
      BY <2>10, <3>1
  <2>12. Items(t)[t.len] = t.inner[L][h]
    BY <2>8, <2>11, ItemsByRank
  <2> QED
    BY <1>3, <2>5, <2>8, <2>9, <2>10, <2>12 DEF Some
<1> QED
  BY <1>6, <1>7

-----------------------------------------------------------------------------
(* The invariant *)

TreeInv == tree \in Trees

\* A new tree is an empty dictionary.
LEMMA InitTree == Init => TreeInv /\ Promise!Init
<1> SUFFICES ASSUME Init PROVE TreeInv /\ Promise!Init
  OBVIOUS
<1>1. PICK c \in Capacities : tree = Empty(c)
  BY DEF Init, WithMaximumNodeSize
<1>2. tree \in Trees /\ ItemSet(tree.inner) = {}
  <2>1. c \in 2 .. DefaultCapacity
    BY KeyAssumption
  <2> QED
    BY <1>1, <2>1, EmptyIs
<1>3. DictOf(tree) = [k \in Keys |-> Absent]
  BY <1>2, DictOfNone, DictDescribed
<1>4. answer = [call |-> <<"read">>, item |-> <<>>, done |-> FALSE]
  BY SomeIsNotNone DEF Init, Read
<1> QED
  BY <1>2, <1>3, <1>4 DEF TreeInv, Promise!Init

\* Every call of the set is a step of the dictionary, ...
LEMMA SetStepMaps ==
    ASSUME TreeInv, SetStep
    PROVE  TreeInv' /\ Promise!Next
<1>1. tree \in Trees
  BY DEF TreeInv
<1>2. CASE \E k \in Keys, v \in Values : SetInsert(k, v) \/ SetReplace(k, v)
  BY <1>1, <1>2, SetInsertStep, SetReplaceStep DEF TreeInv, Promise!Next
<1>3. CASE \E k \in Keys : SetTake(k)
  BY <1>1, <1>3, SetTakeStep DEF TreeInv, Promise!Next
<1>4. CASE \E k \in Keys : \E half \in {"low", "high"} : DoSplitOff(k, half)
  BY <1>1, <1>4, SplitOffStep DEF TreeInv, Promise!Next
<1>5. CASE \E side \in {"front", "back"} : DoPop(side)
  BY <1>1, <1>5, PopEndStep DEF TreeInv, Promise!Next
<1>6. CASE \E idx \in 0 .. Cardinality(Keys) - 1 : DoPopIndex(idx)
  <2>1. PICK idx \in 0 .. Cardinality(Keys) - 1 : DoPopIndex(idx)
    BY <1>6
  <2>2. idx \in Nat
    BY <2>1, KeyAssumption, FS_CardinalityType
  <2> QED
    BY <1>1, <2>1, <2>2, PopIndexStep DEF TreeInv, Promise!Next
<1>7. CASE \E S \in SUBSET Keys : DoRetain(S)
  BY <1>1, <1>7, RetainStep DEF TreeInv, Promise!Next
<1>8. CASE \E c \in Capacities, dict \in [Keys -> Values \cup {Absent}] : DoAppend(c, dict)
  BY <1>1, <1>8, AppendStep DEF TreeInv, Promise!Next
<1>9. CASE DoClear
  <2>1. {} \in SUBSET Keys
    OBVIOUS
  <2> QED
    BY <1>1, <1>9, <2>1, ClearStep DEF TreeInv, Promise!Next
<1> QED
  BY <1>2, <1>3, <1>4, <1>5, <1>6, <1>7, <1>8, <1>9 DEF SetStep

\* ... and every call of the map.
LEMMA MapStepMaps ==
    ASSUME TreeInv, MapStep
    PROVE  TreeInv' /\ Promise!Next
<1>1. tree \in Trees
  BY DEF TreeInv
<1>2. ASSUME NEW k \in Keys, NEW v \in Values,
             \/ DoMapInsert(k, v) \/ DoGetMut(k, v)
             \/ DoOrInsert(k, v) \/ DoAndModify(k, v) \/ DoEntryInsert(k, v)
      PROVE  TreeInv' /\ Promise!Next
  <2>1. /\ tree' \in Trees
        /\ Promise!Put(k, v) \/ Promise!PutIfAbsent(k, v) \/ Promise!Modify(k, v)
    BY <1>1, <1>2, MapInsertStep, GetMutStep, OrInsertStep, AndModifyStep, EntryInsertStep
  <2> QED
    BY <2>1 DEF TreeInv, Promise!Next
<1>3. CASE \E k \in Keys : DoMapRemove(k) \/ DoEntryRemove(k)
  BY <1>1, <1>3, MapRemoveStep, EntryRemoveStep DEF TreeInv, Promise!Next
<1>4. CASE DoEndRemove(FirstEntry(tree)) \/ DoEndRemove(LastEntry(tree))
  BY <1>1, <1>4, EndRemoveStep DEF TreeInv, Promise!Next
<1> QED
  BY <1>2, <1>3, <1>4 DEF MapStep

\* Iterators and cursors leave the tree as it is.
LEMMA IteratorStepKeeps == IteratorStep => UNCHANGED <<tree, answer>>
  BY DEF IteratorStep, OpenIter, OpenKeys, OpenValues, OpenIterMut, OpenMapRange, OpenSetRange,
         Opens, Next, NextBack, MutNext, MutNextBack, Steps, OpenCursor, CursorNext, CursorPrev,
         CursorIndex, MoveCursor, Drop

\* A step maps to a step of the dictionary or to a stutter, and keeps the invariant.
LEMMA EveryStepMaps ==
    ASSUME TreeInv, [SetStep \/ MapStep \/ IteratorStep \/ Return]_vars
    PROVE  TreeInv' /\ [Promise!Next]_(Promise!vars)
<1>1. CASE SetStep \/ MapStep
  BY <1>1, SetStepMaps, MapStepMaps
<1>2. CASE IteratorStep \/ UNCHANGED vars
  <2>1. UNCHANGED <<tree, answer>>
    BY <1>2, IteratorStepKeeps DEF vars
  <2> QED
    BY <2>1 DEF TreeInv, Promise!vars
<1>3. CASE Return
  <2>1. tree' = tree /\ answer' = [call |-> <<"read">>, item |-> None, done |-> FALSE]
    BY <1>3 DEF Return, Read
  <2>2. Promise!Answer(<<"read">>, <<>>, FALSE)
    BY <2>1, SomeIsNotNone DEF Promise!Answer
  <2>3. Promise!Read
    BY <2>1, <2>2 DEF Promise!Read
  <2> QED
    BY <2>1, <2>3 DEF TreeInv, Promise!Next
<1> QED
  BY <1>1, <1>2, <1>3

\* The invariant, always.
LEMMA TreeAlways == Spec => []TreeInv
<1>1. TreeInv /\ [SetStep \/ MapStep \/ IteratorStep \/ Return]_vars => TreeInv'
  BY EveryStepMaps
<1> QED
  BY <1>1, InitTree, PTL DEF Spec

\* The invariant says all of TreeOK.
LEMMA InvIsOK == TreeInv => TreeOK
<1> SUFFICES ASSUME tree \in Trees PROVE TreeOK
  BY DEF TreeInv
<1>1. /\ tree.inner \in Nodes /\ NodesSorted(tree.inner) /\ NodesFit(tree.inner, tree.cap)
      /\ tree.index = Lengths(tree.inner) /\ tree.len = Cardinality(ItemSet(tree.inner))
      /\ DOMAIN tree.inner = 1 .. Len(tree.inner) /\ Len(tree.inner) >= 1
  BY TreesType
<1>2. /\ Items(tree) \in Node /\ Sorted(Items(tree)) /\ tree.len = Len(Items(tree))
  BY <1>1, ItemsAre DEF Items
<1>3. \A i, j \in 1 .. tree.len : i < j => Key(Items(tree)[i]) < Key(Items(tree)[j])
  BY <1>2 DEF Sorted
<1>4. tree.inner # <<>>
  <2>1. tree.inner \in Seq(Node)
    BY <1>1 DEF Nodes
  <2> QED
    BY <1>1, <2>1, EmptySeq
<1>5. ASSUME NEW n \in DOMAIN tree.inner
      PROVE  /\ tree.inner[n] = <<>> => Len(tree.inner) = 1
             /\ Len(tree.inner[n]) <= tree.cap
  <2>1. tree.inner[n] \in Node
    BY <1>1, NodesType
  <2>2. tree.inner[n] = <<>> => Len(tree.inner[n]) = 0
    BY <2>1, EmptyNode
  <2> QED
    BY <1>1, <2>2 DEF NodesFit
<1> QED
  BY <1>1, <1>2, <1>3, <1>4, <1>5 DEF TreeOK

-----------------------------------------------------------------------------
(* What is read from a tree of the invariant, and cursors *)

\* The reads of a tree of the invariant agree with its items.
LEMMA InvReadsAgree == TreeInv => ReadsAgree
<1> SUFFICES ASSUME tree \in Trees PROVE ReadsAgree
  BY DEF TreeInv
<1> DEFINE items == Items(tree)
           S == ItemSet(tree.inner)
           below(k) == Cardinality({i \in DOMAIN items : Key(items[i]) < k})
           upto(k) == Cardinality({i \in DOMAIN items : Key(items[i]) <= k})
           present == {Key(items[i]) : i \in DOMAIN items}
<1>1. /\ items \in Node /\ Sorted(items) /\ ToSet(items) = S /\ Len(items) = tree.len /\ tree.len \in Nat
      /\ DOMAIN items = 1 .. tree.len
      /\ \A k \in Int : below(k) = RankIn(S, k)
  BY ItemsByRank
<1>2. \A k : k \in present <=> HasKey(tree.inner, k)
  <2> DEFINE seq == items
  <2> HIDE DEF seq
  <2>1. \A x : x \in ToSet(seq) <=> \E i \in DOMAIN seq : x = seq[i]
    <3>1. seq \in Node
      BY <1>1 DEF seq
    <3> QED
      BY <3>1, NodeType
  <2>2. present = {Key(seq[i]) : i \in DOMAIN seq} /\ ToSet(seq) = S
    BY <1>1 DEF seq
  <2> HIDE DEF present, items
  <2> QED
    BY <2>1, <2>2 DEF HasKey
<1>6. \A k \in Int : below(k) \in Nat /\ (k \in present => upto(k) = below(k) + 1)
  <2> SUFFICES ASSUME NEW k \in Int
               PROVE  below(k) \in Nat /\ (k \in present => upto(k) = below(k) + 1)
    OBVIOUS
  <2> DEFINE seq == items
             len == tree.len
             less == {i \in 1 .. len : Key(seq[i]) < k}
  <2> HIDE DEF seq, len
  <2>1. /\ len \in Nat /\ DOMAIN seq = 1 .. len
        /\ \A i, j \in 1 .. len : i < j => Key(seq[i]) < Key(seq[j])
        /\ \A i \in 1 .. len : Key(seq[i]) \in Int
    <3>1. \A i, j \in 1 .. tree.len : i < j => Key(items[i]) < Key(items[j])
      BY <1>1 DEF Sorted
    <3>2. \A i \in 1 .. tree.len : Key(items[i]) \in Int
      BY <1>1, NodeType
    <3> QED
      BY <1>1, <3>1, <3>2 DEF seq, len
  <2>2. IsFiniteSet(less) /\ Cardinality(less) \in Nat
    <3>1. IsFiniteSet(1 .. len)
      BY <2>1, FS_Interval
    <3>2. less \subseteq 1 .. len
      OBVIOUS
    <3>3. IsFiniteSet(less)
      BY <3>1, <3>2, FS_Subset
    <3> QED
      BY <3>3, FS_CardinalityType
  <2>3. below(k) = Cardinality(less)
    BY <2>1 DEF seq
  <2>4. ASSUME k \in present PROVE upto(k) = below(k) + 1
    <3>1. PICK i \in 1 .. len : Key(seq[i]) = k
      BY <2>1, <2>4 DEF seq
    <3>2. \A j \in 1 .. len : Key(seq[j]) <= k <=> Key(seq[j]) < k \/ j = i
      BY <2>1, <3>1
    <3>3. {j \in 1 .. len : Key(seq[j]) <= k} = less \cup {i} /\ i \notin less
      BY <2>1, <3>1, <3>2
    <3>4. upto(k) = Cardinality(less \cup {i})
      BY <2>1, <3>3 DEF seq
    <3> QED
      BY <2>2, <2>3, <3>3, <3>4, FS_AddElement
  <2> QED
    BY <2>2, <2>3, <2>4
<1> HIDE DEF items, S, below, upto, present
<1>3. ASSUME NEW k \in Keys
      PROVE  /\ TreeRank(tree, k) = below(k) /\ RankCmp(tree, k) = below(k)
             /\ LowerBound(tree, k) = At(items, below(k) + 1)
             /\ ContainsKey(tree, k) = (k \in present)
             /\ ContainsCmp(tree, k) = (k \in present)
             /\ GetKeyValue(tree, k) # None <=> k \in present
             /\ k \in present => Get(tree, k) = GetKeyValue(tree, k)
             /\ GetIndex(tree, CursorAt(tree, Included(k))) = At(items, below(k) + 1)
             /\ k \in present =>
                  GetIndex(tree, CursorAt(tree, Excluded(k))) = At(items, upto(k) + 1)
  <2>1. k \in Int
    BY KeyAssumption
  <2>2. TreeRank(tree, k) = below(k) /\ RankCmp(tree, k) = below(k)
    BY <1>1, <2>1, RanksAre DEF S
  <2>3. LowerBound(tree, k) = At(items, below(k) + 1)
    BY <1>1, <2>1, LowerBoundReads DEF ReadBy, S, items
  <2>4. /\ ContainsKey(tree, k) <=> k \in present
        /\ ContainsCmp(tree, k) <=> k \in present
    BY <1>2, <2>1, HasKeyIs
  <2>5. ContainsKey(tree, k) \in BOOLEAN
    BY DEF ContainsKey
  <2>6. ContainsCmp(tree, k) \in BOOLEAN
    BY DEF ContainsCmp, FindCmp
  <2>7. ContainsKey(tree, k) = (k \in present) /\ ContainsCmp(tree, k) = (k \in present)
    <3>1. ContainsKey(tree, k) = (k \in present)
      BY <2>4, <2>5
    <3>2. ContainsCmp(tree, k) = (k \in present)
      BY <2>4, <2>6
    <3> QED
      BY <3>1, <3>2
  <2>8. GetKeyValue(tree, k) # None <=> k \in present
    BY <1>2, <2>1, GetKeyValueIs
  <2>9. k \in present => Get(tree, k) = GetKeyValue(tree, k)
    <3>1. SUFFICES ASSUME HasKey(tree.inner, k) PROVE Get(tree, k) = GetKeyValue(tree, k)
      BY <1>2
    <3>2. PICK x \in ItemSet(tree.inner) : Key(x) = k
      BY <3>1 DEF HasKey
    <3>3. ItemAt(tree, LocateValue(tree, k)) = <<x>>
      BY <2>1, <3>2, FindsItem
    <3>4. GetKeyValue(tree, k) = <<x>>
      BY <2>1, <3>2, GetKeyValueIs DEF Found
    <3> QED
      BY <3>3, <3>4 DEF Get
  <2>10. \A i \in Nat : GetIndex(tree, i) = At(items, i + 1)
    BY <1>1, GetIndexReads DEF ReadBy, items
  <2>11. /\ CursorAt(tree, Included(k)) = below(k)
         /\ CursorAt(tree, Excluded(k)) = below(k) + 1
    BY <2>2 DEF CursorAt, Included, Excluded
  <2>12. GetIndex(tree, CursorAt(tree, Included(k))) = At(items, below(k) + 1)
    BY <1>6, <2>1, <2>10, <2>11
  <2>13. k \in present =>
           GetIndex(tree, CursorAt(tree, Excluded(k))) = At(items, upto(k) + 1)
    BY <1>6, <2>1, <2>10, <2>11
  <2> QED
    BY <2>2, <2>3, <2>7, <2>8, <2>9, <2>12, <2>13
<1>4. \A i \in 0 .. tree.len + 1 : GetIndex(tree, i) = At(items, i + 1)
  BY <1>1, GetIndexReads DEF ReadBy, items
<1>5. /\ FirstItem(tree) = At(items, 1)
      /\ LastItem(tree) = IF items = <<>> THEN None ELSE Some(Last(items))
  <2>1. ReadBy(tree, 0, FirstItem(tree))
    BY EndsRead
  <2>2. 0 + 1 = 1
    OBVIOUS
  <2> QED
    BY <2>1, <2>2, EndsRead DEF ReadBy, items
<1>7. GetIndex(tree, CursorAt(tree, Unbounded)) = At(items, 1)
  <2>1. CursorAt(tree, Unbounded) = 0 /\ 0 \in 0 .. tree.len + 1 /\ 0 + 1 = 1
    BY <1>1 DEF CursorAt, Unbounded
  <2> QED
    BY <1>4, <2>1
<1> QED
  BY <1>3, <1>4, <1>5, <1>7 DEF ReadsAgree, items, below, upto, present

\* Where a cursor is.
CursorInv == it.kind = "cursor" => it = [kind |-> "cursor", at |-> it.at] /\ it.at \in Nat

\* An iterator has its kind, whatever it yields.
IterInv ==
    it = NoIter \/ it.kind = "cursor"
      \/ \E kind \in {"entries", "keys", "values", "iter_mut"} :
           \E iter, want, exact, front, back, ended :
             it = [kind |-> kind, iter |-> iter, want |-> want, exact |-> exact,
                   front |-> front, back |-> back, ended |-> ended]

\* There is no cursor at first.
LEMMA InitCursor == Init => CursorInv /\ IterInv
  BY DEF Init, NoIter, CursorInv, IterInv

\* A cursor is made at a rank.
LEMMA CursorAtIs ==
    ASSUME NEW t \in Trees, NEW bound \in Bounds
    PROVE  CursorAt(t, bound) \in Nat
<1>1. t.inner \in Nodes /\ NodesSorted(t.inner)
  BY TreesType
<1>2. ASSUME NEW k \in Keys PROVE RankCmp(t, k) \in Nat
  <2>1. k \in Int
    BY KeyAssumption
  <2>2. IsFiniteSet({x \in ItemSet(t.inner) : Key(x) < k})
    BY <1>1, ItemSetFinite, FS_Subset
  <2> QED
    BY <2>1, <2>2, RanksAre, FS_CardinalityType DEF RankIn
<1>3. CASE bound = Unbounded
  BY <1>3 DEF CursorAt, Unbounded
<1>4. ASSUME NEW k \in Keys, bound = Included(k) \/ bound = Excluded(k)
      PROVE  CursorAt(t, bound) \in Nat
  BY <1>2, <1>4 DEF CursorAt, Included, Excluded
<1> QED
  BY <1>3, <1>4 DEF Bounds

\* A cursor has a rank and the tree stays as it is under it: calls that change the
\* tree are made only when there is no iterator.
LEMMA CursorStays ==
    ASSUME TreeInv, CursorInv, IterInv, [SetStep \/ MapStep \/ IteratorStep \/ Return]_vars
    PROVE  CursorInv' /\ IterInv'
<1>1. tree \in Trees /\ tree.len \in Nat
  BY TreesType DEF TreeInv
<1>2. ASSUME UNCHANGED it PROVE CursorInv' /\ IterInv'
  BY <1>2 DEF CursorInv, IterInv, NoIter
<1>3. CASE SetStep \/ MapStep
  <2>1. UNCHANGED it
    BY <1>3 DEF SetStep, MapStep, SetInsert, SetReplace, SetTake, DoSplitOff, DoPop, DoPopIndex,
         DoRetain, DoAppend, DoClear, DoMapInsert, DoGetMut, DoOrInsert, DoAndModify,
         DoEntryInsert, DoMapRemove, DoEntryRemove, DoEndRemove, Does
  <2> QED
    BY <1>2, <2>1
<1>4. CASE Return \/ UNCHANGED vars
  BY <1>2, <1>4 DEF Return, vars
<1>5. ASSUME NEW kind \in {"entries", "keys", "values", "iter_mut"},
             NEW iter, NEW want, NEW exact, Opens(kind, iter, want, exact)
      PROVE  CursorInv' /\ IterInv'
  <2>1. it' = [kind |-> kind, iter |-> iter, want |-> want, exact |-> exact,
               front |-> <<>>, back |-> <<>>, ended |-> FALSE]
    BY <1>5 DEF Opens
  <2> QED
    BY <2>1 DEF CursorInv, IterInv
<1>6. CASE \/ OpenIter \/ OpenKeys \/ OpenValues \/ OpenIterMut
           \/ \E start, end \in Bounds : OpenMapRange(start, end) \/ OpenSetRange(start, end)
  BY <1>5, <1>6 DEF OpenIter, OpenKeys, OpenValues, OpenIterMut, OpenMapRange, OpenSetRange
<1>7. CASE Drop
  BY <1>7 DEF Drop, CursorInv, IterInv, NoIter
<1>8. CASE \E bound \in Bounds : OpenCursor(bound)
  BY <1>1, <1>8, CursorAtIs DEF OpenCursor, CursorInv, IterInv
<1>9. CASE CursorNext \/ CursorPrev \/ CursorIndex
  <2>1. PICK idx \in Nat : it.kind = "cursor" /\ MoveCursor(idx)
    BY <1>1, <1>9 DEF CursorNext, CursorPrev, CursorIndex, MoveNext, MovePrev, CursorInv
  <2>2. it = [kind |-> "cursor", at |-> it.at]
    BY <2>1 DEF CursorInv
  <2>3. it' = [kind |-> "cursor", at |-> idx]
    BY <2>1, <2>2 DEF MoveCursor
  <2> QED
    BY <2>3 DEF CursorInv, IterInv
<1>10. CASE Next \/ NextBack \/ MutNext \/ MutNextBack
  <2>1. PICK side \in {"front", "back"} :
          \E step : it.kind \in {"entries", "keys", "values", "iter_mut"} /\ Steps(side, step)
    BY <1>10 DEF Next, NextBack, MutNext, MutNextBack
  <2>2. it # NoIter /\ it.kind # "cursor"
    BY <2>1 DEF NoIter
  <2>3. PICK kind \in {"entries", "keys", "values", "iter_mut"} :
          \E iter, want, exact, front, back, ended :
             it = [kind |-> kind, iter |-> iter, want |-> want, exact |-> exact,
                   front |-> front, back |-> back, ended |-> ended]
    BY <2>2 DEF IterInv
  <2>4. PICK iter, want, exact, front, back, ended :
             it = [kind |-> kind, iter |-> iter, want |-> want, exact |-> exact,
                   front |-> front, back |-> back, ended |-> ended]
    BY <2>3
  <2>5. PICK step : Steps(side, step)
    BY <2>1
  <2> DEFINE e == ended \/ step.item = None
             Longer(s) == IF step.item = None THEN s ELSE Append(s, Shown(step.item[1]))
  <2>6. CASE side = "front"
    <3>1. it' = [kind |-> kind, iter |-> step.iter, want |-> want, exact |-> exact,
                 front |-> Longer(front), back |-> back, ended |-> e]
      BY <2>4, <2>5, <2>6 DEF Steps
    <3> HIDE DEF e, Longer
    <3> QED
      BY <3>1 DEF CursorInv, IterInv
  <2>7. CASE side = "back"
    <3>1. it' = [kind |-> kind, iter |-> step.iter, want |-> want, exact |-> exact,
                 front |-> front, back |-> Longer(back), ended |-> e]
      BY <2>4, <2>5, <2>7 DEF Steps
    <3> HIDE DEF e, Longer
    <3> QED
      BY <3>1 DEF CursorInv, IterInv
  <2> QED
    BY <2>6, <2>7
<1> QED
  BY <1>3, <1>4, <1>6, <1>7, <1>8, <1>9, <1>10 DEF IteratorStep

\* What a cursor peeks at is what it moves to.
LEMMA InvForesees == TreeInv /\ CursorInv => CursorForesees
<1> SUFFICES ASSUME tree \in Trees, it.kind = "cursor", it.at \in Nat PROVE CursorForesees
  BY DEF TreeInv, CursorInv, CursorForesees
<1>1. tree.len \in Nat
  BY TreesType
<1>2. \A i \in Nat : GetIndex(tree, i) = At(Items(tree), i + 1)
  BY GetIndexReads DEF ReadBy
<1>3. GetIndex(tree, it.at) = At(Items(tree), it.at + 1)
  BY <1>2
<1>4. PeekNext(tree, it.at) = GetIndex(tree, MoveNext(tree, it.at))
  <2>1. FirstItem(tree) = GetIndex(tree, 0)
    BY <1>2, EndsRead DEF ReadBy
  <2> QED
    BY <2>1 DEF PeekNext, MoveNext
<1>5. PeekPrev(tree, it.at) = GetIndex(tree, MovePrev(tree, it.at))
  <2>1. GetIndex(tree, tree.len) = None
    <3>1. tree.len >= tree.len
      BY <1>1
    <3> QED
      BY <1>1, <3>1, GetIndexIs DEF None
  <2> QED
    BY <2>1 DEF PeekPrev, MovePrev
<1> QED
  BY <1>3, <1>4, <1>5 DEF CursorForesees

\* A cursor has a rank, always.
LEMMA CursorAlways == Spec => [](CursorInv /\ IterInv)
<1>1. /\ TreeInv /\ (CursorInv /\ IterInv)
      /\ [SetStep \/ MapStep \/ IteratorStep \/ Return]_vars
      => (CursorInv /\ IterInv)'
  BY CursorStays
<1> QED
  BY <1>1, InitCursor, TreeAlways, PTL DEF Spec

-----------------------------------------------------------------------------
(* The theorems *)

\* The Fenwick tree and len always agree with the nodes, which are sorted across,
\* never empty but for an only one, and within the capacity (insert_at, delete_at,
\* split_off and all that is built from them), for maximum node sizes from 2 to
\* DefaultCapacity.
THEOREM TreeStaysOK == Spec => []TreeOK
  BY TreeAlways, InvIsOK, PTL

\* Every call does to the items what it would do to a dictionary, and answers
\* what it would.
THEOREM TreeActsAsMap == Spec => BehavesAsMap
<1>1. Init => Promise!Init
  BY InitTree
<1>2. TreeInv /\ [SetStep \/ MapStep \/ IteratorStep \/ Return]_vars
        => [Promise!Next]_(Promise!vars)
  BY EveryStepMaps
<1> QED
  BY <1>1, <1>2, TreeAlways, PTL DEF Spec, BehavesAsMap, Promise!Spec

\* Every read through the nodes and the Fenwick tree finds what it finds in the
\* sorted sequence of the items: locate_value, locate_ith, rank, first and last;
\* and a cursor of lower_bound starts where a bound that is present says.
THEOREM TreeReadsAgree == Spec => []ReadsAgree
  BY TreeAlways, InvReadsAgree, PTL

\* peek_next and peek_prev show where move_next and move_prev lead a cursor.
THEOREM CursorsForesee == Spec => []CursorForesees
  BY TreeAlways, CursorAlways, InvForesees, PTL

=============================================================================
