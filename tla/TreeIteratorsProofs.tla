------------------------- MODULE TreeIteratorsProofs ------------------------
(***************************************************************************)
(* The iterators of the single-threaded set and map yield the items in     *)
(* order from either end, none twice and none left out, for trees of any   *)
(* number of nodes, any bounds and any order of calls.  The merge iterators *)
(* yield what the operations on sets of items do, for any two trees.       *)
(***************************************************************************)
EXTENDS TreeMapProofs

-----------------------------------------------------------------------------
(* Parts of the sequence of the items *)

\* s is what follows the first a items, as far as it goes.
IsSlice(items, a, s) ==
    /\ s \in Node /\ a \in Nat /\ a + Len(s) <= Len(items)
    /\ \A j \in 1 .. Len(s) : s[j] = items[a + j]

\* A slice without its first item.
LEMMA SliceTail ==
    ASSUME NEW items \in Node, NEW a, NEW s, IsSlice(items, a, s), s # <<>>
    PROVE  /\ IsSlice(items, a + 1, Tail(s)) /\ Len(Tail(s)) = Len(s) - 1
           /\ Head(s) = items[a + 1] /\ a + 1 \in 1 .. Len(items)
<1>1. /\ s \in Seq(Item) /\ Len(s) \in Nat /\ Len(s) # 0 /\ a \in Nat /\ Len(items) \in Nat
      /\ a + Len(s) <= Len(items) /\ \A j \in 1 .. Len(s) : s[j] = items[a + j]
  BY EmptyNode, NodeType DEF IsSlice, Node
<1>2. /\ Tail(s) \in Seq(Item) /\ Len(Tail(s)) = Len(s) - 1
      /\ \A j \in 1 .. Len(Tail(s)) : Tail(s)[j] = s[j + 1]
  BY <1>1, HeadTailProperties
<1>3. Head(s) = s[1] /\ 1 \in 1 .. Len(s)
  BY <1>1
<1>4. ASSUME NEW j \in 1 .. Len(Tail(s)) PROVE Tail(s)[j] = items[a + 1 + j]
  <2>1. j + 1 \in 1 .. Len(s) /\ a + (j + 1) = a + 1 + j
    BY <1>1, <1>2
  <2> QED
    BY <1>1, <1>2, <2>1
<1>5. Head(s) = items[a + 1] /\ a + 1 \in 1 .. Len(items)
  BY <1>1, <1>3
<1>6. IsSlice(items, a + 1, Tail(s))
  BY <1>1, <1>2, <1>4 DEF IsSlice, Node
<1> QED
  BY <1>2, <1>5, <1>6

\* A slice without its last item.
LEMMA SliceFront ==
    ASSUME NEW items \in Node, NEW a, NEW s, IsSlice(items, a, s), s # <<>>
    PROVE  /\ IsSlice(items, a, Front(s)) /\ Len(Front(s)) = Len(s) - 1
           /\ Last(s) = items[a + Len(s)] /\ a + Len(s) \in 1 .. Len(items)
<1>1. /\ s \in Seq(Item) /\ Len(s) \in Nat /\ Len(s) # 0 /\ a \in Nat /\ Len(items) \in Nat
      /\ a + Len(s) <= Len(items) /\ \A j \in 1 .. Len(s) : s[j] = items[a + j]
  BY EmptyNode, NodeType DEF IsSlice, Node
<1>2. PICK one \in 1 .. Len(s) + 1 : one = 1
  BY <1>1
<1>3. PICK n \in 0 .. Len(s) : n = Len(s) - 1
  <2>1. Len(s) - 1 \in 0 .. Len(s)
    BY <1>1
  <2> QED
    BY <2>1
<1>4. Front(s) = SubSeq(s, one, n)
  BY <1>2, <1>3 DEF Front
<1>5. /\ Front(s) \in Seq(Item) /\ Len(Front(s)) = n - one + 1
      /\ \A j \in 1 .. n - one + 1 : Front(s)[j] = s[one + j - 1]
  <2>1. one <= n + 1
    BY <1>1, <1>2, <1>3
  <2> QED
    BY <1>1, <1>4, <2>1, SubSeqSeq
<1>6. Len(Front(s)) = Len(s) - 1 /\ \A j \in 1 .. Len(s) - 1 : Front(s)[j] = s[j]
  <2>1. n - one + 1 = Len(s) - 1
    BY <1>1, <1>2, <1>3
  <2>2. \A j \in 1 .. Len(s) - 1 : one + j - 1 = j
    BY <1>2
  <2> QED
    BY <1>5, <2>1, <2>2
<1>7. Last(s) = s[Len(s)] /\ Len(s) \in 1 .. Len(s)
  BY <1>1 DEF Last
<1>8. Last(s) = items[a + Len(s)] /\ a + Len(s) \in 1 .. Len(items)
  BY <1>1, <1>7
<1>9. IsSlice(items, a, Front(s))
  <2>1. a + Len(Front(s)) <= Len(items)
    BY <1>1, <1>6
  <2>2. \A j \in 1 .. Len(Front(s)) : Front(s)[j] = items[a + j]
    BY <1>1, <1>6
  <2> QED
    BY <1>1, <1>5, <2>1, <2>2 DEF IsSlice, Node
<1> QED
  BY <1>6, <1>8, <1>9

\* A part of a slice.
LEMMA SliceSub ==
    ASSUME NEW items \in Node, NEW a, NEW s, IsSlice(items, a, s),
           NEW m \in 1 .. Len(s) + 1, NEW n \in 0 .. Len(s), m <= n + 1
    PROVE  /\ IsSlice(items, a + m - 1, SubSeq(s, m, n))
           /\ Len(SubSeq(s, m, n)) = n - m + 1
<1>1. /\ s \in Seq(Item) /\ Len(s) \in Nat /\ a \in Nat /\ Len(items) \in Nat
      /\ a + Len(s) <= Len(items) /\ \A j \in 1 .. Len(s) : s[j] = items[a + j]
  BY NodeType DEF IsSlice, Node
<1> DEFINE p == SubSeq(s, m, n)
<1>2. /\ p \in Seq(Item) /\ Len(p) = n - m + 1
      /\ \A k \in 1 .. n - m + 1 : p[k] = s[m + k - 1]
  BY <1>1, SubSeqSeq
<1> HIDE DEF p
<1>3. ASSUME NEW j \in 1 .. Len(p) PROVE p[j] = items[a + m - 1 + j]
  <2>1. m + j - 1 \in 1 .. Len(s) /\ a + (m + j - 1) = a + m - 1 + j
    BY <1>1, <1>2
  <2> QED
    BY <1>1, <1>2, <2>1
<1>4. a + m - 1 \in Nat /\ a + m - 1 + Len(p) <= Len(items)
  BY <1>1, <1>2
<1>5. IsSlice(items, a + m - 1, p)
  BY <1>2, <1>3, <1>4 DEF IsSlice, Node
<1> QED
  BY <1>2, <1>5 DEF p

\* A node is the slice behind the items of the nodes before it.
LEMMA NodeIsSlice ==
    ASSUME NEW t \in Trees, NEW n \in 1 .. Len(t.inner)
    PROVE  /\ Items(t) \in Node /\ Len(Items(t)) = t.len /\ t.len \in Nat
           /\ IsSlice(Items(t), PrefixSum(t, n - 1), t.inner[n])
           /\ PrefixSum(t, n - 1) + Len(t.inner[n]) = PrefixSum(t, n)
<1>1. /\ Items(t) \in Node /\ Len(Items(t)) = t.len /\ t.len \in Nat
  BY ItemsByRank
<1>2. t.inner[n] \in Node /\ Len(t.inner[n]) \in Nat /\ Len(t.inner) \in Nat
  BY TreesType, NodesType
<1>3. n - 1 \in 0 .. Len(t.inner) /\ n \in 0 .. Len(t.inner) /\ Len(t.inner) \in 0 .. Len(t.inner)
  BY <1>2
<1>4. /\ PrefixSum(t, n - 1) \in Nat
      /\ PrefixSum(t, n) = PrefixSum(t, n - 1) + Len(t.inner[n])
      /\ PrefixSum(t, n) <= t.len
  BY <1>2, <1>3, SumsGrow
<1>5. ASSUME NEW j \in 1 .. Len(t.inner[n])
      PROVE  t.inner[n][j] = Items(t)[PrefixSum(t, n - 1) + j]
  <2> DEFINE x == t.inner[n][j]
  <2>1. x \in ItemSet(t.inner) /\ RankIn(ItemSet(t.inner), Key(x)) = PrefixSum(t, n - 1) + j - 1
    BY RankAt
  <2>2. Items(t)[RankIn(ItemSet(t.inner), Key(x)) + 1] = x
    BY <2>1, ItemsByRank
  <2>3. PrefixSum(t, n - 1) + j - 1 + 1 = PrefixSum(t, n - 1) + j
    BY <1>4
  <2> HIDE DEF x
  <2>4. Items(t)[PrefixSum(t, n - 1) + j] = x
    BY <2>1, <2>2, <2>3
  <2> QED
    BY <2>4 DEF x
<1>6. IsSlice(Items(t), PrefixSum(t, n - 1), t.inner[n])
  BY <1>1, <1>2, <1>4, <1>5 DEF IsSlice
<1> QED
  BY <1>1, <1>4, <1>6

-----------------------------------------------------------------------------
(* What has been yielded *)

\* The first f of the items wanted have come from the front, the last g from the back.
Yields(want, front, back, f, g) ==
    /\ \E T : want \in Seq(T)
    /\ f \in Nat /\ g \in Nat /\ f + g <= Len(want)
    /\ front = SubSeq(want, 1, f) /\ back = SubSeq(Reverse(want), 1, g)

\* One more of the first items.
LEMMA SubSeqGrows ==
    ASSUME NEW T, NEW s \in Seq(T), NEW n \in Nat, n < Len(s)
    PROVE  /\ Append(SubSeq(s, 1, n), s[n + 1]) = SubSeq(s, 1, n + 1)
           /\ Len(SubSeq(s, 1, n)) = n
<1>1. Len(s) \in Nat
  BY LenProperties
<1>2. PICK one \in 1 .. Len(s) + 1 : one = 1
  BY <1>1
<1>3. n \in 0 .. Len(s) /\ n + 1 \in 0 .. Len(s) /\ n + 1 \in 1 .. Len(s)
  BY <1>1
<1> DEFINE p == SubSeq(s, one, n)
           q == SubSeq(s, one, n + 1)
<1>4. /\ p \in Seq(T) /\ Len(p) = n - one + 1
      /\ \A k \in 1 .. n - one + 1 : p[k] = s[one + k - 1]
  <2>1. one <= n + 1
    BY <1>2
  <2> QED
    BY <1>3, <2>1, SubSeqSeq
<1>5. /\ q \in Seq(T) /\ Len(q) = n + 1 - one + 1
      /\ \A k \in 1 .. n + 1 - one + 1 : q[k] = s[one + k - 1]
  <2>1. one <= (n + 1) + 1
    BY <1>2
  <2> QED
    BY <1>3, <2>1, SubSeqSeq
<1> HIDE DEF p, q
<1>6. /\ Len(p) = n /\ \A k \in 1 .. n : p[k] = s[k]
      /\ Len(q) = n + 1 /\ \A k \in 1 .. n + 1 : q[k] = s[k]
  BY <1>2, <1>4, <1>5
<1>7. s[n + 1] \in T
  BY <1>3, ElementOfSeq
<1> DEFINE a == Append(p, s[n + 1])
<1>8. /\ a \in Seq(T) /\ Len(a) = n + 1
      /\ \A k \in 1 .. n + 1 : a[k] = IF k = n + 1 THEN s[n + 1] ELSE p[k]
  BY <1>4, <1>6, <1>7, AppendProperties
<1> HIDE DEF a
<1>9. \A k \in 1 .. n + 1 : a[k] = q[k]
  BY <1>6, <1>8
<1>10. a = q
  BY <1>5, <1>6, <1>8, <1>9, SeqEqual
<1> QED
  BY <1>2, <1>6, <1>10 DEF a, p, q

\* The next item is yielded at the front.
LEMMA YieldsFront ==
    ASSUME NEW want, NEW front, NEW back, NEW f, NEW g, Yields(want, front, back, f, g),
           f + g < Len(want)
    PROVE  Yields(want, Append(front, want[f + 1]), back, f + 1, g)
<1>1. PICK T : want \in Seq(T)
  BY DEF Yields
<1>2. /\ Len(want) \in Nat /\ f \in Nat /\ g \in Nat /\ f < Len(want)
      /\ front = SubSeq(want, 1, f) /\ back = SubSeq(Reverse(want), 1, g)
  BY <1>1, LenProperties DEF Yields
<1>3. Append(front, want[f + 1]) = SubSeq(want, 1, f + 1)
  BY <1>1, <1>2, SubSeqGrows
<1>4. f + 1 \in Nat /\ f + 1 + g <= Len(want)
  BY <1>2
<1> QED
  BY <1>1, <1>2, <1>3, <1>4 DEF Yields

\* The next item is yielded at the back.
LEMMA YieldsBack ==
    ASSUME NEW want, NEW front, NEW back, NEW f, NEW g, Yields(want, front, back, f, g),
           f + g < Len(want)
    PROVE  Yields(want, front, Append(back, want[Len(want) - g]), f, g + 1)
<1>1. PICK T : want \in Seq(T)
  BY DEF Yields
<1>2. /\ Len(want) \in Nat /\ f \in Nat /\ g \in Nat /\ g < Len(want)
      /\ front = SubSeq(want, 1, f) /\ back = SubSeq(Reverse(want), 1, g)
  BY <1>1, LenProperties DEF Yields
<1>3. /\ Reverse(want) \in Seq(T) /\ Len(Reverse(want)) = Len(want)
      /\ Reverse(want)[g + 1] = want[Len(want) - g]
  <2>1. g + 1 \in 1 .. Len(want) /\ Len(want) - (g + 1) + 1 = Len(want) - g
    BY <1>2
  <2>2. Reverse(want)[g + 1] = want[Len(want) - (g + 1) + 1]
    BY <1>1, <2>1, ReverseSeq
  <2> QED
    BY <1>1, <2>1, <2>2, ReverseSeq
<1>4. Append(back, Reverse(want)[g + 1]) = SubSeq(Reverse(want), 1, g + 1)
  BY <1>2, <1>3, SubSeqGrows
<1>5. g + 1 \in Nat /\ f + (g + 1) <= Len(want)
  BY <1>2
<1> QED
  BY <1>1, <1>2, <1>3, <1>4, <1>5 DEF Yields

\* Nothing has been yielded at first.
LEMMA YieldsNothing ==
    ASSUME NEW T, NEW want \in Seq(T)
    PROVE  Yields(want, <<>>, <<>>, 0, 0)
<1>1. Len(want) \in Nat
  BY LenProperties
<1>2. SubSeq(want, 1, 0) = <<>> /\ SubSeq(Reverse(want), 1, 0) = <<>>
  BY SubSeqEmpty
<1> QED
  BY <1>1, <1>2 DEF Yields

\* How many have been yielded.
LEMMA YieldsCount ==
    ASSUME NEW want, NEW front, NEW back, NEW f, NEW g, Yields(want, front, back, f, g)
    PROVE  Len(front) = f /\ Len(back) = g
<1>1. PICK T : want \in Seq(T)
  BY DEF Yields
<1>2. /\ Len(want) \in Nat /\ f \in Nat /\ g \in Nat /\ f + g <= Len(want)
      /\ front = SubSeq(want, 1, f) /\ back = SubSeq(Reverse(want), 1, g)
  BY <1>1, LenProperties DEF Yields
<1>3. Reverse(want) \in Seq(T) /\ Len(Reverse(want)) = Len(want)
  BY <1>1, ReverseSeq
<1>4. PICK one \in 1 .. Len(want) + 1 : one = 1
  BY <1>2
<1>5. f \in 0 .. Len(want) /\ g \in 0 .. Len(want) /\ one <= f + 1 /\ one <= g + 1
  BY <1>2, <1>4
<1>6. Len(SubSeq(want, one, f)) = f - one + 1
  BY <1>1, <1>5, SubSeqSeq
<1>7. Len(SubSeq(Reverse(want), one, g)) = g - one + 1
  BY <1>3, <1>5, SubSeqSeq
<1>8. f - one + 1 = f /\ g - one + 1 = g
  BY <1>2, <1>4
<1> QED
  BY <1>2, <1>4, <1>6, <1>7, <1>8

-----------------------------------------------------------------------------
(* next and next_back of Iter and Range *)

\* The positions that the code keeps.
Ends(front, frontNode, frontRest, back, backNode, backRest) ==
    [front |-> front, frontNode |-> frontNode, frontRest |-> frontRest,
     back |-> back, backNode |-> backNode, backRest |-> backRest]

\* One end moves.
FrontMoved(i, x, y, z) == [i EXCEPT !.front = x, !.frontNode = y, !.frontRest = z]
BackMoved(i, x, y, z) == [i EXCEPT !.back = x, !.backNode = y, !.backRest = z]

\* Moving one end leaves the other as it is.
LEMMA EndsMove ==
    ASSUME NEW a, NEW b, NEW c, NEW d, NEW e, NEW f, NEW x, NEW y, NEW z
    PROVE  LET i == Ends(a, b, c, d, e, f) IN
           /\ FrontMoved(i, x, y, z) = Ends(x, y, z, d, e, f)
           /\ BackMoved(i, x, y, z) = Ends(a, b, c, x, y, z)
           /\ i.front = a /\ i.frontNode = b /\ i.frontRest = c
           /\ i.back = d /\ i.backNode = e /\ i.backRest = f
<1> DEFINE i == Ends(a, b, c, d, e, f)
<1>1. /\ [Ends(a, b, c, d, e, f) EXCEPT !.front = x] = Ends(x, b, c, d, e, f)
      /\ [Ends(x, b, c, d, e, f) EXCEPT !.frontNode = y] = Ends(x, y, c, d, e, f)
      /\ [Ends(x, y, c, d, e, f) EXCEPT !.frontRest = z] = Ends(x, y, z, d, e, f)
  BY DEF Ends
<1>2. /\ [Ends(a, b, c, d, e, f) EXCEPT !.back = x] = Ends(a, b, c, x, e, f)
      /\ [Ends(a, b, c, x, e, f) EXCEPT !.backNode = y] = Ends(a, b, c, x, y, f)
      /\ [Ends(a, b, c, x, y, f) EXCEPT !.backRest = z] = Ends(a, b, c, x, y, z)
  BY DEF Ends
<1>3. /\ i.front = a /\ i.frontNode = b /\ i.frontRest = c
      /\ i.back = d /\ i.backNode = e /\ i.backRest = f
  BY DEF Ends
<1> HIDE DEF i
<1>4. [i EXCEPT !.front = x, !.frontNode = y, !.frontRest = z]
        = [[[i EXCEPT !.front = x] EXCEPT !.frontNode = y] EXCEPT !.frontRest = z]
  OBVIOUS
<1>5. [i EXCEPT !.back = x, !.backNode = y, !.backRest = z]
        = [[[i EXCEPT !.back = x] EXCEPT !.backNode = y] EXCEPT !.backRest = z]
  OBVIOUS
<1>6. FrontMoved(i, x, y, z) = Ends(x, y, z, d, e, f)
  BY <1>1, <1>4 DEF i, FrontMoved
<1>7. BackMoved(i, x, y, z) = Ends(a, b, c, x, y, z)
  BY <1>2, <1>5 DEF i, BackMoved
<1> QED
  BY <1>3, <1>6, <1>7 DEF i

\* What is left of the node in front is the slice from rank lo to the node's end, ...
AtFront(t, n, rest, lo) ==
    /\ n \in 1 .. Len(t.inner)
    /\ IsSlice(Items(t), lo, rest) /\ lo + Len(rest) = PrefixSum(t, n)

\* ... and what is left of the one at the back the slice from its start up to rank hi.
AtBack(t, n, rest, hi) ==
    /\ n \in 1 .. Len(t.inner) /\ hi \in Nat
    /\ IsSlice(Items(t), hi - Len(rest), rest) /\ hi - Len(rest) = PrefixSum(t, n - 1)

\* Iter::next yields the item at the front.
LEMMA IterNextYields ==
    ASSUME NEW t \in Trees, NEW lo \in Nat, NEW hi \in Nat, lo < hi, hi <= t.len,
           NEW n, NEW rest, AtFront(t, n, rest, lo), NEW bn, NEW brest
    PROVE  \E m, after :
             /\ AtFront(t, m, after, lo + 1)
             /\ IterNext(t, Ends(lo, n, rest, hi, bn, brest))
                  = Yield(Items(t)[lo + 1], Ends(lo + 1, m, after, hi, bn, brest))
<1> DEFINE i == Ends(lo, n, rest, hi, bn, brest)
           items == Items(t)
           L == Len(t.inner)
           ahead == {m \in n + 1 .. L : t.inner[m] # <<>>}
<1>1. /\ items \in Node /\ Len(items) = t.len /\ t.len \in Nat /\ L \in Nat
      /\ n \in 1 .. L /\ rest \in Node /\ Len(rest) \in Nat
  BY TreesType, ItemsByRank, NodeType DEF AtFront, IsSlice
<1>2. /\ i.front = lo /\ i.frontNode = n /\ i.frontRest = rest /\ i.back = hi
      /\ \A x, y, z : FrontMoved(i, x, y, z) = Ends(x, y, z, hi, bn, brest)
  BY EndsMove
<1>3. lo # hi
  OBVIOUS
<1>4. CASE rest # <<>>
  <2>1. IterNext(t, i) = Yield(Head(rest), FrontMoved(i, lo + 1, n, Tail(rest)))
    <3> HIDE DEF i
    <3> QED
      BY <1>2, <1>3, <1>4 DEF IterNext, FrontMoved
  <2>2. /\ IsSlice(items, lo + 1, Tail(rest)) /\ Len(Tail(rest)) = Len(rest) - 1
        /\ Head(rest) = items[lo + 1]
    BY <1>1, <1>4, SliceTail DEF AtFront
  <2>3. lo + 1 + Len(Tail(rest)) = PrefixSum(t, n)
    <3>1. lo + Len(rest) = PrefixSum(t, n)
      BY DEF AtFront
    <3>2. ASSUME NEW l, l = Len(rest) - 1 PROVE lo + 1 + l = lo + Len(rest)
      BY <1>1, <3>2
    <3> QED
      BY <2>2, <3>1, <3>2
  <2>4. AtFront(t, n, Tail(rest), lo + 1)
    BY <1>1, <2>2, <2>3 DEF AtFront
  <2>5. IterNext(t, i) = Yield(items[lo + 1], Ends(lo + 1, n, Tail(rest), hi, bn, brest))
    <3> HIDE DEF i
    <3> QED
      BY <1>2, <2>1, <2>2
  <2> QED
    BY <2>4, <2>5
<1>5. CASE rest = <<>>
  <2>1. PrefixSum(t, n) = lo
    <3>1. Len(rest) = 0
      BY <1>1, <1>5, EmptyNode
    <3> QED
      BY <1>1, <3>1 DEF AtFront
  <2>2. n < L
    <3>1. n # L
      BY <1>1, <2>1, SumsGrow
    <3> QED
      BY <1>1, <3>1
  <2>3. /\ n + 1 \in 1 .. L /\ L > 1 /\ (n + 1) - 1 = n
        /\ \A m \in n + 1 .. L : m \in 1 .. L /\ n + 1 <= m
    BY <1>1, <2>2
  <2>4. \A m \in n + 1 .. L : t.inner[m] # <<>>
    <3>1. \A m \in 1 .. L : Len(t.inner[m]) > 0 /\ t.inner[m] \in Node /\ Len(t.inner[m]) # 0
      BY <2>3, SumsGrow, TreesType, NodesType
    <3>2. \A m \in 1 .. L : t.inner[m] # <<>>
      BY <3>1, EmptyNode
    <3> QED
      BY <2>3, <3>2
  <2>5. n + 1 \in ahead /\ \A m \in ahead : n + 1 <= m /\ m \in Int
    BY <1>1, <2>3, <2>4
  <2>6. Min(ahead) = n + 1
    <3> HIDE DEF ahead
    <3> QED
      BY <2>5 DEF Min
  <2>7. IterNext(t, i) = Yield(Head(t.inner[n + 1]),
                               FrontMoved(i, lo + 1, n + 1, Tail(t.inner[n + 1])))
    <3>1. ahead # {}
      BY <2>5
    <3>2. IterNext(t, i) = Yield(Head(t.inner[Min(ahead)]),
                               FrontMoved(i, lo + 1, Min(ahead), Tail(t.inner[Min(ahead)])))
      <4> HIDE DEF i
      <4> QED
        BY <1>2, <1>3, <1>5, <3>1 DEF IterNext, FrontMoved
    <3> QED
      BY <2>6, <3>2
  <2>8. IsSlice(items, lo, t.inner[n + 1]) /\ lo + Len(t.inner[n + 1]) = PrefixSum(t, n + 1)
    BY <2>1, <2>3, NodeIsSlice
  <2> DEFINE node == t.inner[n + 1]
  <2>9. /\ node # <<>> /\ Len(node) \in Nat
        /\ IsSlice(items, lo, node) /\ lo + Len(node) = PrefixSum(t, n + 1)
    BY <1>1, <2>3, <2>4, <2>8, TreesType, NodesType
  <2> HIDE DEF node
  <2>10. /\ IsSlice(items, lo + 1, Tail(node)) /\ Len(Tail(node)) = Len(node) - 1
         /\ Head(node) = items[lo + 1]
    BY <1>1, <2>9, SliceTail
  <2>11. lo + 1 + Len(Tail(node)) = PrefixSum(t, n + 1)
    <3>1. lo + 1 + Len(Tail(node)) = lo + Len(node)
      BY <2>9, <2>10
    <3> QED
      BY <2>9, <3>1
  <2>12. AtFront(t, n + 1, Tail(node), lo + 1)
    BY <2>3, <2>10, <2>11 DEF AtFront
  <2>13. IterNext(t, i) = Yield(items[lo + 1], Ends(lo + 1, n + 1, Tail(node), hi, bn, brest))
    <3> HIDE DEF i
    <3> QED
      BY <1>2, <2>7, <2>10 DEF node
  <2> QED
    BY <2>12, <2>13
<1> QED
  BY <1>4, <1>5

\* Iter::next_back yields the item at the back.
LEMMA IterNextBackYields ==
    ASSUME NEW t \in Trees, NEW lo \in Nat, NEW hi \in Nat, lo < hi, hi <= t.len,
           NEW n, NEW rest, AtBack(t, n, rest, hi), NEW fn, NEW frest
    PROVE  \E m, after :
             /\ AtBack(t, m, after, hi - 1)
             /\ IterNextBack(t, Ends(lo, fn, frest, hi, n, rest))
                  = Yield(Items(t)[hi], Ends(lo, fn, frest, hi - 1, m, after))
<1> DEFINE i == Ends(lo, fn, frest, hi, n, rest)
           items == Items(t)
           L == Len(t.inner)
           behind == {m \in 1 .. n - 1 : m <= L /\ t.inner[m] # <<>>}
<1>1. /\ items \in Node /\ Len(items) = t.len /\ t.len \in Nat /\ L \in Nat
      /\ n \in 1 .. L /\ rest \in Node /\ Len(rest) \in Nat
  BY TreesType, ItemsByRank, NodeType DEF AtBack, IsSlice
<1>2. /\ i.front = lo /\ i.backNode = n /\ i.backRest = rest /\ i.back = hi
      /\ \A x, y, z : BackMoved(i, x, y, z) = Ends(lo, fn, frest, x, y, z)
  BY EndsMove
<1>3. lo # hi
  OBVIOUS
<1>4. CASE rest # <<>>
  <2>1. IterNextBack(t, i) = Yield(Last(rest), BackMoved(i, hi - 1, n, Front(rest)))
    <3> HIDE DEF i
    <3> QED
      BY <1>2, <1>3, <1>4 DEF IterNextBack, BackMoved
  <2> DEFINE a == hi - Len(rest)
  <2>2. IsSlice(items, a, rest) /\ a = PrefixSum(t, n - 1) /\ a + Len(rest) = hi /\ a \in Int
    BY <1>1 DEF AtBack
  <2> HIDE DEF a
  <2>3. /\ IsSlice(items, a, Front(rest)) /\ Len(Front(rest)) = Len(rest) - 1
        /\ Last(rest) = items[a + Len(rest)]
    BY <1>1, <1>4, <2>2, SliceFront
  <2>4. hi - 1 - Len(Front(rest)) = a /\ hi - 1 \in Nat
    BY <1>1, <2>2, <2>3
  <2>5. AtBack(t, n, Front(rest), hi - 1)
    BY <1>1, <2>2, <2>3, <2>4 DEF AtBack
  <2>6. IterNextBack(t, i) = Yield(items[hi], Ends(lo, fn, frest, hi - 1, n, Front(rest)))
    <3> HIDE DEF i
    <3> QED
      BY <1>2, <2>1, <2>2, <2>3
  <2> QED
    BY <2>5, <2>6
<1>5. CASE rest = <<>>
  <2>1. PrefixSum(t, n - 1) = hi
    <3>1. Len(rest) = 0
      BY <1>1, <1>5, EmptyNode
    <3> QED
      BY <1>1, <3>1 DEF AtBack
  <2>2. n > 1
    <3>1. n - 1 # 0
      BY <1>1, <2>1, SumsGrow
    <3> QED
      BY <1>1, <3>1
  <2>3. /\ n - 1 \in 1 .. L /\ L > 1
        /\ \A m \in 1 .. n - 1 : m \in 1 .. L /\ m <= n - 1 /\ m <= L
    BY <1>1, <2>2
  <2>4. \A m \in 1 .. n - 1 : t.inner[m] # <<>>
    <3>1. \A m \in 1 .. L : Len(t.inner[m]) > 0 /\ t.inner[m] \in Node /\ Len(t.inner[m]) # 0
      BY <2>3, SumsGrow, TreesType, NodesType
    <3>2. \A m \in 1 .. L : t.inner[m] # <<>>
      BY <3>1, EmptyNode
    <3> QED
      BY <2>3, <3>2
  <2>5. n - 1 \in behind /\ \A m \in behind : n - 1 >= m /\ m \in Int
    BY <1>1, <2>2, <2>3, <2>4
  <2>6. Max(behind) = n - 1
    <3> HIDE DEF behind
    <3> QED
      BY <2>5 DEF Max
  <2>7. IterNextBack(t, i) = Yield(Last(t.inner[n - 1]),
                               BackMoved(i, hi - 1, n - 1, Front(t.inner[n - 1])))
    <3>1. behind # {}
      BY <2>5
    <3>2. IterNextBack(t, i) = Yield(Last(t.inner[Max(behind)]),
                               BackMoved(i, hi - 1, Max(behind), Front(t.inner[Max(behind)])))
      <4> HIDE DEF i
      <4> QED
        BY <1>2, <1>3, <1>5, <3>1 DEF IterNextBack, BackMoved
    <3> QED
      BY <2>6, <3>2
  <2> DEFINE node == t.inner[n - 1]
             a == PrefixSum(t, (n - 1) - 1)
  <2>8. IsSlice(items, a, node) /\ a + Len(node) = hi
    BY <2>1, <2>3, NodeIsSlice
  <2>9. node # <<>> /\ Len(node) \in Nat /\ a \in Nat
    BY <1>1, <2>3, <2>4, <2>8, TreesType, NodesType DEF IsSlice
  <2> HIDE DEF a, node
  <2>10. /\ IsSlice(items, a, Front(node)) /\ Len(Front(node)) = Len(node) - 1
         /\ Last(node) = items[a + Len(node)]
    BY <1>1, <2>8, <2>9, SliceFront
  <2>11. hi - 1 - Len(Front(node)) = a /\ hi - 1 \in Nat
    BY <1>1, <2>8, <2>9, <2>10
  <2>12. AtBack(t, n - 1, Front(node), hi - 1)
    BY <2>3, <2>10, <2>11 DEF AtBack, a
  <2>13. IterNextBack(t, i) = Yield(items[hi], Ends(lo, fn, frest, hi - 1, n - 1, Front(node)))
    <3> HIDE DEF i
    <3> QED
      BY <1>2, <2>7, <2>8, <2>10 DEF node
  <2> QED
    BY <2>12, <2>13
<1> QED
  BY <1>4, <1>5

-----------------------------------------------------------------------------
(* next and next_back of IterMut *)

\* One end moves within its node, or takes from what the other has of its node.
FrontTrimmed(i, x, z) == [i EXCEPT !.front = x, !.frontRest = z]
FrontFromBack(i, x, z) == [i EXCEPT !.front = x, !.backRest = z]
BackTrimmed(i, x, z) == [i EXCEPT !.back = x, !.backRest = z]
BackFromFront(i, x, z) == [i EXCEPT !.back = x, !.frontRest = z]

\* What is left when one end has moved.
LEMMA EndsTrim ==
    ASSUME NEW a, NEW b, NEW c, NEW d, NEW e, NEW f, NEW x, NEW z
    PROVE  LET i == Ends(a, b, c, d, e, f) IN
           /\ FrontTrimmed(i, x, z) = Ends(x, b, z, d, e, f)
           /\ FrontFromBack(i, x, z) = Ends(x, b, c, d, e, z)
           /\ BackTrimmed(i, x, z) = Ends(a, b, c, x, e, z)
           /\ BackFromFront(i, x, z) = Ends(a, b, z, x, e, f)
<1> DEFINE i == Ends(a, b, c, d, e, f)
<1>1. /\ [Ends(a, b, c, d, e, f) EXCEPT !.front = x] = Ends(x, b, c, d, e, f)
      /\ [Ends(x, b, c, d, e, f) EXCEPT !.frontRest = z] = Ends(x, b, z, d, e, f)
      /\ [Ends(x, b, c, d, e, f) EXCEPT !.backRest = z] = Ends(x, b, c, d, e, z)
  BY DEF Ends
<1>2. /\ [Ends(a, b, c, d, e, f) EXCEPT !.back = x] = Ends(a, b, c, x, e, f)
      /\ [Ends(a, b, c, x, e, f) EXCEPT !.backRest = z] = Ends(a, b, c, x, e, z)
      /\ [Ends(a, b, c, x, e, f) EXCEPT !.frontRest = z] = Ends(a, b, z, x, e, f)
  BY DEF Ends
<1> HIDE DEF i
<1>3. /\ [i EXCEPT !.front = x, !.frontRest = z] = [[i EXCEPT !.front = x] EXCEPT !.frontRest = z]
      /\ [i EXCEPT !.front = x, !.backRest = z] = [[i EXCEPT !.front = x] EXCEPT !.backRest = z]
      /\ [i EXCEPT !.back = x, !.backRest = z] = [[i EXCEPT !.back = x] EXCEPT !.backRest = z]
      /\ [i EXCEPT !.back = x, !.frontRest = z] = [[i EXCEPT !.back = x] EXCEPT !.frontRest = z]
  OBVIOUS
<1>4. FrontTrimmed(i, x, z) = Ends(x, b, z, d, e, f)
  BY <1>1, <1>3 DEF i, FrontTrimmed
<1>5. FrontFromBack(i, x, z) = Ends(x, b, c, d, e, z)
  BY <1>1, <1>3 DEF i, FrontFromBack
<1>6. BackTrimmed(i, x, z) = Ends(a, b, c, x, e, z)
  BY <1>2, <1>3 DEF i, BackTrimmed
<1>7. BackFromFront(i, x, z) = Ends(a, b, z, x, e, f)
  BY <1>2, <1>3 DEF i, BackFromFront
<1> QED
  BY <1>4, <1>5, <1>6, <1>7 DEF i

\* The iterator stands between the ranks lo and hi: what it has left of its two
\* nodes are slices at either end, and the nodes between are untouched.
Standing(t, fn, frest, bn, brest, lo, hi) ==
    /\ lo \in Nat /\ hi \in Nat /\ lo <= hi /\ hi <= t.len
    /\ fn \in Nat /\ bn \in Nat /\ bn < Len(t.inner)
    /\ fn < bn \/ (fn = bn /\ Len(t.inner) = 1)
    /\ IsSlice(Items(t), lo, frest) /\ IsSlice(Items(t), hi - Len(brest), brest)
    /\ fn + 1 < bn => /\ lo + Len(frest) = PrefixSum(t, fn + 1)
                      /\ hi - Len(brest) = PrefixSum(t, bn)
    /\ ~(fn + 1 < bn) => lo + Len(frest) = hi - Len(brest)

\* What is left at the front lies before what is left at the back.
LEMMA StandingIs ==
    ASSUME NEW t \in Trees, NEW fn, NEW frest, NEW bn, NEW brest, NEW lo, NEW hi,
           Standing(t, fn, frest, bn, brest, lo, hi)
    PROVE  /\ lo \in Nat /\ hi \in Nat /\ lo <= hi /\ fn \in Nat /\ bn \in Nat
           /\ frest \in Node /\ brest \in Node /\ Len(frest) \in Nat /\ Len(brest) \in Nat
           /\ Items(t) \in Node /\ Len(Items(t)) = t.len /\ t.len \in Nat
           /\ Len(t.inner) \in Nat
           /\ frest = <<>> <=> Len(frest) = 0
           /\ brest = <<>> <=> Len(brest) = 0
           /\ lo + Len(frest) <= hi - Len(brest) /\ hi <= t.len
           /\ ~(fn + 1 < bn) => lo + Len(frest) = hi - Len(brest)
<1>1. /\ lo \in Nat /\ hi \in Nat /\ lo <= hi /\ fn \in Nat /\ bn \in Nat /\ bn < Len(t.inner)
      /\ IsSlice(Items(t), lo, frest) /\ IsSlice(Items(t), hi - Len(brest), brest)
  BY DEF Standing
<1>2. /\ frest \in Node /\ brest \in Node /\ Len(frest) \in Nat /\ Len(brest) \in Nat
      /\ frest = <<>> <=> Len(frest) = 0
      /\ brest = <<>> <=> Len(brest) = 0
  BY <1>1, NodeType, EmptyNode DEF IsSlice
<1>3. /\ Items(t) \in Node /\ Len(Items(t)) = t.len /\ t.len \in Nat /\ Len(t.inner) \in Nat
  BY ItemsByRank, TreesType
<1>4. lo + Len(frest) <= hi - Len(brest)
  <2>1. CASE fn + 1 < bn
    <3>1. fn + 1 \in 0 .. Len(t.inner) /\ bn \in 0 .. Len(t.inner) /\ fn + 1 <= bn
      BY <1>1, <1>3, <2>1
    <3>2. PrefixSum(t, fn + 1) <= PrefixSum(t, bn)
      BY <3>1, SumsGrow
    <3> QED
      BY <2>1, <3>2 DEF Standing
  <2>2. CASE ~(fn + 1 < bn)
    <3>1. lo + Len(frest) = hi - Len(brest)
      BY <2>2 DEF Standing
    <3>2. lo + Len(frest) \in Int
      BY <1>1, <1>2
    <3> QED
      BY <3>1, <3>2
  <2> QED
    BY <2>1, <2>2
<1>5. hi <= t.len /\ (~(fn + 1 < bn) => lo + Len(frest) = hi - Len(brest))
  BY DEF Standing
<1> QED
  BY <1>1, <1>2, <1>3, <1>4, <1>5

\* The front goes on in its node.
LEMMA FrontTrims ==
    ASSUME NEW t \in Trees, NEW fn, NEW frest, NEW bn, NEW brest, NEW lo, NEW hi,
           Standing(t, fn, frest, bn, brest, lo, hi), frest # <<>>
    PROVE  /\ lo < hi /\ Head(frest) = Items(t)[lo + 1]
           /\ Standing(t, fn, Tail(frest), bn, brest, lo + 1, hi)
<1>1. /\ lo \in Nat /\ hi \in Nat /\ Len(frest) \in Nat /\ Len(frest) # 0 /\ Len(brest) \in Nat
      /\ lo + Len(frest) <= hi - Len(brest) /\ Items(t) \in Node
  BY StandingIs
<1>2. /\ IsSlice(Items(t), lo + 1, Tail(frest)) /\ Len(Tail(frest)) = Len(frest) - 1
      /\ Head(frest) = Items(t)[lo + 1]
  BY <1>1, SliceTail DEF Standing
<1>3. lo + 1 <= hi /\ lo + 1 \in Nat
  BY <1>1
<1>4. PICK rest : rest = Len(Tail(frest))
  OBVIOUS
<1>5. lo + 1 + rest = lo + Len(frest)
  BY <1>1, <1>2, <1>4
<1>6. Standing(t, fn, Tail(frest), bn, brest, lo + 1, hi)
  BY <1>2, <1>3, <1>4, <1>5 DEF Standing
<1> QED
  BY <1>1, <1>2, <1>3, <1>6

\* The front has used up its node, and the back's is the next.
LEMMA FrontTakesBack ==
    ASSUME NEW t \in Trees, NEW fn, NEW frest, NEW bn, NEW brest, NEW lo, NEW hi,
           Standing(t, fn, frest, bn, brest, lo, hi), frest = <<>>, ~(fn + 1 < bn),
           brest # <<>>
    PROVE  /\ lo < hi /\ Head(brest) = Items(t)[lo + 1]
           /\ Standing(t, fn, frest, bn, Tail(brest), lo + 1, hi)
<1>1. /\ lo \in Nat /\ hi \in Nat /\ Len(frest) = 0 /\ Len(brest) \in Nat /\ Len(brest) # 0
      /\ Items(t) \in Node /\ frest \in Node
      /\ lo + Len(frest) = hi - Len(brest) /\ hi <= Len(Items(t)) /\ Len(Items(t)) \in Nat
  BY StandingIs
<1>2. hi - Len(brest) = lo /\ lo + 1 <= hi /\ lo + 1 \in Nat
  BY <1>1
<1>3. /\ IsSlice(Items(t), lo + 1, Tail(brest)) /\ Len(Tail(brest)) = Len(brest) - 1
      /\ Head(brest) = Items(t)[lo + 1]
  <2>1. IsSlice(Items(t), lo, brest)
    BY <1>2 DEF Standing
  <2> QED
    BY <1>1, <2>1, SliceTail
<1>4. PICK rest : rest = Len(Tail(brest))
  OBVIOUS
<1>5. hi - rest = lo + 1 /\ lo + 1 + Len(frest) = hi - rest
  BY <1>1, <1>2, <1>3, <1>4
<1>6. IsSlice(Items(t), lo + 1, frest)
  <2>1. \A j \in 1 .. Len(frest) : frest[j] = Items(t)[lo + 1 + j]
    BY <1>1
  <2> QED
    BY <1>1, <1>2, <2>1 DEF IsSlice
<1>7. Standing(t, fn, frest, bn, Tail(brest), lo + 1, hi)
  BY <1>2, <1>3, <1>4, <1>5, <1>6 DEF Standing
<1> QED
  BY <1>1, <1>2, <1>3, <1>7

\* The front has used up its node and takes the next one.
LEMMA FrontGoesOn ==
    ASSUME NEW t \in Trees, NEW fn, NEW frest, NEW bn, NEW brest, NEW lo, NEW hi,
           Standing(t, fn, frest, bn, brest, lo, hi), frest = <<>>, fn + 1 < bn
    PROVE  /\ lo < hi /\ Head(t.inner[fn + 2]) = Items(t)[lo + 1]
           /\ Standing(t, fn + 1, Tail(t.inner[fn + 2]), bn, brest, lo + 1, hi)
<1>1. /\ lo \in Nat /\ hi \in Nat /\ Len(frest) = 0 /\ Len(brest) \in Nat
      /\ fn \in Nat /\ bn \in Nat /\ bn < Len(t.inner) /\ Len(t.inner) \in Nat
      /\ Items(t) \in Node
      /\ lo + Len(frest) = PrefixSum(t, fn + 1) /\ hi - Len(brest) = PrefixSum(t, bn)
  <2>1. /\ bn < Len(t.inner)
        /\ lo + Len(frest) = PrefixSum(t, fn + 1) /\ hi - Len(brest) = PrefixSum(t, bn)
    BY DEF Standing
  <2> QED
    BY <2>1, StandingIs
<1>2. /\ fn + 2 \in 1 .. Len(t.inner) /\ (fn + 2) - 1 = fn + 1 /\ Len(t.inner) > 1
      /\ fn + 2 \in 0 .. Len(t.inner) /\ bn \in 0 .. Len(t.inner) /\ fn + 2 <= bn
      /\ fn + 1 \in Nat /\ fn + 1 < bn
  BY <1>1
<1> DEFINE node == t.inner[fn + 2]
<1>3. PICK next : next = fn + 2
  OBVIOUS
<1>4. /\ IsSlice(Items(t), lo, node) /\ lo + Len(node) = PrefixSum(t, fn + 2)
      /\ Len(node) \in Nat /\ Len(node) # 0 /\ node # <<>>
  <2>1. PrefixSum(t, fn + 1) = lo
    BY <1>1
  <2>2. IsSlice(Items(t), lo, node) /\ lo + Len(node) = PrefixSum(t, fn + 2)
    BY <1>2, <2>1, NodeIsSlice
  <2>3. Len(node) > 0 /\ node \in Node /\ Len(node) \in Nat
    BY <1>2, SumsGrow, TreesType, NodesType
  <2>4. Len(node) # 0
    BY <2>3
  <2> QED
    BY <2>2, <2>3, <2>4, EmptyNode
<1>5. PrefixSum(t, fn + 2) <= PrefixSum(t, bn)
  BY <1>2, SumsGrow
<1> HIDE DEF node
<1>6. /\ IsSlice(Items(t), lo + 1, Tail(node)) /\ Len(Tail(node)) = Len(node) - 1
      /\ Head(node) = Items(t)[lo + 1]
  BY <1>1, <1>4, SliceTail
<1>7. PICK sum : sum = PrefixSum(t, fn + 2)
  OBVIOUS
<1>8. PICK after : after = PrefixSum(t, bn)
  OBVIOUS
<1>9. lo + 1 <= hi /\ lo + 1 \in Nat
  BY <1>1, <1>4, <1>5, <1>7, <1>8
<1>10. PICK rest : rest = Len(Tail(node))
  OBVIOUS
<1>11. lo + 1 + rest = sum
  BY <1>1, <1>4, <1>6, <1>7, <1>10
<1>12. Standing(t, fn + 1, Tail(node), bn, brest, lo + 1, hi)
  <2>1. (fn + 1) + 1 = fn + 2
    BY <1>1
  <2>2. ~(fn + 2 < bn) => lo + 1 + rest = hi - Len(brest)
    <3>1. ~(fn + 2 < bn) => fn + 2 = bn
      BY <1>1, <1>2
    <3> QED
      BY <1>1, <1>7, <1>11, <3>1
  <2> QED
    BY <1>1, <1>2, <1>6, <1>7, <1>9, <1>10, <1>11, <2>1, <2>2 DEF Standing
<1> QED
  BY <1>1, <1>6, <1>9, <1>12 DEF node

\* The back goes on in its node.
LEMMA BackTrims ==
    ASSUME NEW t \in Trees, NEW fn, NEW frest, NEW bn, NEW brest, NEW lo, NEW hi,
           Standing(t, fn, frest, bn, brest, lo, hi), brest # <<>>
    PROVE  /\ lo < hi /\ Last(brest) = Items(t)[hi]
           /\ Standing(t, fn, frest, bn, Front(brest), lo, hi - 1)
<1>1. /\ lo \in Nat /\ hi \in Nat /\ Len(frest) \in Nat /\ Len(brest) # 0 /\ Len(brest) \in Nat
      /\ lo + Len(frest) <= hi - Len(brest) /\ Items(t) \in Node
  BY StandingIs
<1>2. PICK a : a = hi - Len(brest)
  OBVIOUS
<1>3. /\ IsSlice(Items(t), a, Front(brest)) /\ Len(Front(brest)) = Len(brest) - 1
      /\ Last(brest) = Items(t)[a + Len(brest)]
  <2>1. IsSlice(Items(t), a, brest)
    BY <1>2 DEF Standing
  <2> QED
    BY <1>1, <2>1, SliceFront
<1>4. a + Len(brest) = hi /\ lo <= hi - 1 /\ hi - 1 \in Nat /\ lo < hi
  BY <1>1, <1>2
<1>5. PICK rest : rest = Len(Front(brest))
  OBVIOUS
<1>6. hi - 1 - rest = a
  BY <1>1, <1>2, <1>3, <1>5
<1>7. hi - 1 <= t.len
  <2>1. hi <= t.len /\ t.len \in Nat
    BY StandingIs
  <2> QED
    BY <1>1, <2>1
<1>8. Standing(t, fn, frest, bn, Front(brest), lo, hi - 1)
  BY <1>2, <1>3, <1>4, <1>5, <1>6, <1>7 DEF Standing
<1> QED
  BY <1>3, <1>4, <1>8

\* The back has used up its node, and the front's is the next.
LEMMA BackTakesFront ==
    ASSUME NEW t \in Trees, NEW fn, NEW frest, NEW bn, NEW brest, NEW lo, NEW hi,
           Standing(t, fn, frest, bn, brest, lo, hi), brest = <<>>, ~(fn + 1 < bn),
           frest # <<>>
    PROVE  /\ lo < hi /\ Last(frest) = Items(t)[hi]
           /\ Standing(t, fn, Front(frest), bn, brest, lo, hi - 1)
<1>1. /\ lo \in Nat /\ hi \in Nat /\ Len(brest) = 0 /\ Len(frest) \in Nat /\ Len(frest) # 0
      /\ Items(t) \in Node /\ brest \in Node
      /\ lo + Len(frest) = hi - Len(brest) /\ hi <= Len(Items(t)) /\ Len(Items(t)) \in Nat
      /\ Len(Items(t)) = t.len
  BY StandingIs
<1>2. lo + Len(frest) = hi /\ lo <= hi - 1 /\ hi - 1 \in Nat /\ hi - 1 <= t.len /\ lo < hi
  BY <1>1
<1>3. /\ IsSlice(Items(t), lo, Front(frest)) /\ Len(Front(frest)) = Len(frest) - 1
      /\ Last(frest) = Items(t)[lo + Len(frest)]
  <2>1. IsSlice(Items(t), lo, frest)
    BY DEF Standing
  <2>2. Items(t) \in Node /\ frest # <<>>
    BY <1>1
  <2> QED
    BY ONLY <2>1, <2>2, SliceFront
<1>4. PICK rest : rest = Len(Front(frest))
  OBVIOUS
<1>5. lo + rest = hi - 1 - Len(brest)
  BY <1>1, <1>2, <1>3, <1>4
<1>6. IsSlice(Items(t), hi - 1 - Len(brest), brest)
  <2>1. \A j \in 1 .. Len(brest) : brest[j] = Items(t)[hi - 1 - Len(brest) + j]
    BY <1>1
  <2>2. hi - 1 - Len(brest) \in Nat /\ hi - 1 - Len(brest) + Len(brest) <= Len(Items(t))
    BY <1>1, <1>2
  <2> QED
    BY <1>1, <2>1, <2>2 DEF IsSlice
<1>7. Standing(t, fn, Front(frest), bn, brest, lo, hi - 1)
  BY <1>2, <1>3, <1>4, <1>5, <1>6 DEF Standing
<1> QED
  BY <1>2, <1>3, <1>7

\* The back has used up its node and takes the one before.
LEMMA BackGoesOn ==
    ASSUME NEW t \in Trees, NEW fn, NEW frest, NEW bn, NEW brest, NEW lo, NEW hi,
           Standing(t, fn, frest, bn, brest, lo, hi), brest = <<>>, fn + 1 < bn
    PROVE  /\ lo < hi /\ Last(t.inner[bn]) = Items(t)[hi]
           /\ Standing(t, fn, frest, bn - 1, Front(t.inner[bn]), lo, hi - 1)
<1>1. /\ lo \in Nat /\ hi \in Nat /\ Len(brest) = 0 /\ Len(frest) \in Nat
      /\ fn \in Nat /\ bn \in Nat /\ bn < Len(t.inner) /\ Len(t.inner) \in Nat
      /\ Items(t) \in Node /\ hi <= t.len /\ t.len \in Nat
      /\ lo + Len(frest) = PrefixSum(t, fn + 1) /\ hi - Len(brest) = PrefixSum(t, bn)
  BY StandingIs DEF Standing
<1>2. /\ bn \in 1 .. Len(t.inner) /\ Len(t.inner) > 1
      /\ fn + 1 \in 0 .. Len(t.inner) /\ bn - 1 \in 0 .. Len(t.inner) /\ fn + 1 <= bn - 1
      /\ bn - 1 \in Nat /\ fn < bn - 1 /\ bn - 1 < Len(t.inner)
  BY <1>1
<1> DEFINE node == t.inner[bn]
           a == PrefixSum(t, bn - 1)
<1>3. /\ IsSlice(Items(t), a, node) /\ a + Len(node) = hi
      /\ Len(node) \in Nat /\ Len(node) # 0 /\ node # <<>> /\ a \in Nat
  <2>1. PrefixSum(t, bn) = hi
    BY <1>1
  <2>2. IsSlice(Items(t), a, node) /\ a + Len(node) = hi
    BY <1>2, <2>1, NodeIsSlice
  <2>3. Len(node) > 0 /\ node \in Node /\ Len(node) \in Nat
    BY <1>2, SumsGrow, TreesType, NodesType
  <2>4. Len(node) # 0
    BY <2>3
  <2> QED
    BY <2>2, <2>3, <2>4, EmptyNode DEF IsSlice
<1>4. PrefixSum(t, fn + 1) <= a
  BY <1>2, SumsGrow
<1> HIDE DEF node
<1>5. /\ IsSlice(Items(t), a, Front(node)) /\ Len(Front(node)) = Len(node) - 1
      /\ Last(node) = Items(t)[a + Len(node)]
  BY <1>1, <1>3, SliceFront
<1>6. PICK sum : sum = a
  OBVIOUS
<1>7. PICK before : before = PrefixSum(t, fn + 1)
  OBVIOUS
<1> HIDE DEF a
<1>8. lo <= hi - 1 /\ hi - 1 \in Nat /\ hi - 1 <= t.len /\ lo < hi
  <2>1. lo < hi
    BY <1>1, <1>3, <1>4, <1>7
  <2> QED
    BY <1>1, <2>1
<1>9. PICK rest : rest = Len(Front(node))
  OBVIOUS
<1>10. hi - 1 - rest = a
  BY <1>1, <1>3, <1>5, <1>9
<1>11. Standing(t, fn, frest, bn - 1, Front(node), lo, hi - 1)
  <2>1. ~(fn + 1 < bn - 1) => lo + Len(frest) = hi - 1 - rest
    <3>1. ~(fn + 1 < bn - 1) => fn + 1 = bn - 1
      BY <1>1, <1>2
    <3> QED
      BY <1>1, <1>10, <3>1 DEF a
  <2>2. fn + 1 < bn - 1 => lo + Len(frest) = PrefixSum(t, fn + 1)
    BY <1>1
  <2>3. hi - 1 - rest = PrefixSum(t, bn - 1)
    BY <1>10 DEF a
  <2>4. IsSlice(Items(t), lo, frest) /\ IsSlice(Items(t), hi - 1 - rest, Front(node))
    BY <1>5, <1>10 DEF Standing
  <2> QED
    BY <1>1, <1>2, <1>8, <1>9, <2>1, <2>2, <2>3, <2>4 DEF Standing
<1> QED
  BY <1>3, <1>5, <1>8, <1>11 DEF node

\* The positions that IterMut keeps: the last item's, which stops at 0, for the back.
MutAt(t, i, lo, hi) ==
    \E fn, frest, bk, bn, brest :
      /\ i = Ends(lo, fn, frest, bk, bn, brest)
      /\ bk = hi - 1 \/ (hi = 0 /\ bk = 0)
      /\ Standing(t, fn, frest, bn, brest, lo, hi)


\* IterMut::next ends or yields the item at the front.
LEMMA IterMutNextYields ==
    ASSUME NEW t \in Trees, NEW i, NEW lo, NEW hi, MutAt(t, i, lo, hi)
    PROVE  \/ IterMutNext(t, i) = Ended(i)
           \/ /\ lo < hi
              /\ \E j : /\ MutAt(t, j, lo + 1, hi)
                        /\ IterMutNext(t, i) = Yield(Items(t)[lo + 1], j)
<1>1. PICK fn, frest, bk, bn, brest :
        /\ i = Ends(lo, fn, frest, bk, bn, brest)
        /\ bk = hi - 1 \/ (hi = 0 /\ bk = 0)
        /\ Standing(t, fn, frest, bn, brest, lo, hi)
  BY DEF MutAt
<1>2. /\ i.front = lo /\ i.frontNode = fn /\ i.frontRest = frest
      /\ i.back = bk /\ i.backNode = bn /\ i.backRest = brest
  BY <1>1, EndsMove
<1>3. /\ \A x, z : FrontTrimmed(i, x, z) = Ends(x, fn, z, bk, bn, brest)
      /\ \A x, z : FrontFromBack(i, x, z) = Ends(x, fn, frest, bk, bn, z)
      /\ \A x, y, z : FrontMoved(i, x, y, z) = Ends(x, y, z, bk, bn, brest)
  BY <1>1, EndsMove, EndsTrim
<1>4. /\ lo \in Nat /\ hi \in Nat /\ fn \in Nat /\ bn \in Nat
      /\ fn < bn \/ (fn = bn /\ Len(t.inner) = 1 /\ fn = 0)
  <2>1. lo \in Nat /\ hi \in Nat /\ fn \in Nat /\ bn \in Nat /\ Len(t.inner) \in Nat
    BY <1>1, StandingIs
  <2>2. (fn < bn \/ (fn = bn /\ Len(t.inner) = 1)) /\ bn < Len(t.inner)
    BY <1>1 DEF Standing
  <2>3. Len(t.inner) = 1 => bn = 0
    BY <2>1, <2>2
  <2> QED
    BY <2>1, <2>2, <2>3
<1>5. Between(i) = IF bn - fn - 1 > 0 THEN bn - fn - 1 ELSE 0
  <2>1. bn - fn - 1 \in Int /\ 0 \in Int
    BY <1>4
  <2>2. Max({0, bn - fn - 1}) = IF 0 >= bn - fn - 1 THEN 0 ELSE bn - fn - 1
    BY <2>1, MinMaxOfTwo
  <2> QED
    BY <1>2, <2>1, <2>2 DEF Between
<1>6. CASE lo = bk + 1
  BY <1>2, <1>6 DEF IterMutNext
<1>7. CASE lo # bk + 1 /\ frest # <<>>
  <2>1. IterMutNext(t, i) = Yield(Head(frest), FrontTrimmed(i, lo + 1, Tail(frest)))
    BY <1>2, <1>7 DEF IterMutNext, FrontTrimmed
  <2>2. /\ lo < hi /\ Head(frest) = Items(t)[lo + 1]
        /\ Standing(t, fn, Tail(frest), bn, brest, lo + 1, hi)
    BY <1>1, <1>7, FrontTrims
  <2>3. MutAt(t, Ends(lo + 1, fn, Tail(frest), bk, bn, brest), lo + 1, hi)
    BY <1>1, <2>2 DEF MutAt
  <2> QED
    BY <1>3, <2>1, <2>2, <2>3
<1>8. CASE lo # bk + 1 /\ frest = <<>> /\ fn = Between(i)
  BY <1>2, <1>8 DEF IterMutNext
<1>9. CASE lo # bk + 1 /\ frest = <<>> /\ fn # Between(i) /\ fn = bn - 1
  <2>1. CASE brest = <<>>
    BY <1>2, <1>9, <2>1 DEF IterMutNext
  <2>2. CASE brest # <<>>
    <3>1. IterMutNext(t, i) = Yield(Head(brest), FrontFromBack(i, lo + 1, Tail(brest)))
      BY <1>2, <1>9, <2>2 DEF IterMutNext, FrontFromBack
    <3>2. ~(fn + 1 < bn)
      BY <1>4, <1>9
    <3>3. /\ lo < hi /\ Head(brest) = Items(t)[lo + 1]
          /\ Standing(t, fn, frest, bn, Tail(brest), lo + 1, hi)
      BY <1>1, <1>9, <2>2, <3>2, FrontTakesBack
    <3>4. MutAt(t, Ends(lo + 1, fn, frest, bk, bn, Tail(brest)), lo + 1, hi)
      BY <1>1, <3>3 DEF MutAt
    <3> QED
      BY <1>3, <3>1, <3>3, <3>4
  <2> QED
    BY <2>1, <2>2
<1>10. CASE lo # bk + 1 /\ frest = <<>> /\ fn # Between(i) /\ fn # bn - 1
  <2> DEFINE node == t.inner[fn + 2]
  <2>1. IterMutNext(t, i) = Yield(Head(node), FrontMoved(i, lo + 1, fn + 1, Tail(node)))
    BY <1>2, <1>10 DEF IterMutNext, FrontMoved
  <2>2. fn + 1 < bn
    BY <1>4, <1>5, <1>10
  <2>3. /\ lo < hi /\ Head(node) = Items(t)[lo + 1]
        /\ Standing(t, fn + 1, Tail(node), bn, brest, lo + 1, hi)
    BY <1>1, <1>10, <2>2, FrontGoesOn
  <2>4. MutAt(t, Ends(lo + 1, fn + 1, Tail(node), bk, bn, brest), lo + 1, hi)
    BY <1>1, <2>3 DEF MutAt
  <2> HIDE DEF node
  <2> QED
    BY <1>3, <2>1, <2>3, <2>4
<1> QED
  BY <1>6, <1>7, <1>8, <1>9, <1>10

\* IterMut::next_back ends or yields the item at the back.
LEMMA IterMutNextBackYields ==
    ASSUME NEW t \in Trees, NEW i, NEW lo, NEW hi, MutAt(t, i, lo, hi)
    PROVE  \/ IterMutNextBack(t, i) = Ended(i)
           \/ /\ lo < hi
              /\ \E j : /\ MutAt(t, j, lo, hi - 1)
                        /\ IterMutNextBack(t, i) = Yield(Items(t)[hi], j)
<1>1. PICK fn, frest, bk, bn, brest :
        /\ i = Ends(lo, fn, frest, bk, bn, brest)
        /\ bk = hi - 1 \/ (hi = 0 /\ bk = 0)
        /\ Standing(t, fn, frest, bn, brest, lo, hi)
  BY DEF MutAt
<1>2. /\ i.front = lo /\ i.frontNode = fn /\ i.frontRest = frest
      /\ i.back = bk /\ i.backNode = bn /\ i.backRest = brest
  BY <1>1, EndsMove
<1>3. /\ \A x, z : BackTrimmed(i, x, z) = Ends(lo, fn, frest, x, bn, z)
      /\ \A x, z : BackFromFront(i, x, z) = Ends(lo, fn, z, x, bn, brest)
      /\ \A x, y, z : BackMoved(i, x, y, z) = Ends(lo, fn, frest, x, y, z)
  BY <1>1, EndsMove, EndsTrim
<1>4. /\ lo \in Nat /\ hi \in Nat /\ fn \in Nat /\ bn \in Nat
      /\ fn < bn \/ (fn = bn /\ Len(t.inner) = 1 /\ fn = 0)
  <2>1. lo \in Nat /\ hi \in Nat /\ fn \in Nat /\ bn \in Nat /\ Len(t.inner) \in Nat
    BY <1>1, StandingIs
  <2>2. (fn < bn \/ (fn = bn /\ Len(t.inner) = 1)) /\ bn < Len(t.inner)
    BY <1>1 DEF Standing
  <2>3. Len(t.inner) = 1 => bn = 0
    BY <2>1, <2>2
  <2> QED
    BY <2>1, <2>2, <2>3
<1>5. CASE lo = bk + 1
  BY <1>2, <1>5 DEF IterMutNextBack
<1>6. CASE lo # bk + 1 /\ brest # <<>>
  <2>1. IterMutNextBack(t, i) = Yield(Last(brest), BackTrimmed(i, bk - 1, Front(brest)))
    BY <1>2, <1>6 DEF IterMutNextBack, BackTrimmed
  <2>2. /\ lo < hi /\ Last(brest) = Items(t)[hi]
        /\ Standing(t, fn, frest, bn, Front(brest), lo, hi - 1)
    BY <1>1, <1>6, BackTrims
  <2>3. bk - 1 = (hi - 1) - 1
    BY <1>1, <1>4, <2>2
  <2>4. MutAt(t, Ends(lo, fn, frest, bk - 1, bn, Front(brest)), lo, hi - 1)
    BY <2>2, <2>3 DEF MutAt
  <2> QED
    BY <1>3, <2>1, <2>2, <2>4
<1>7. CASE lo # bk + 1 /\ brest = <<>> /\ bn = 0 /\ fn # 0
  <2>1. fn \notin {bn, bn - 1}
    BY <1>4, <1>7
  <2> QED
    BY <1>2, <1>7, <2>1 DEF IterMutNextBack
<1>8. CASE lo # bk + 1 /\ brest = <<>> /\ ~(bn = 0 /\ fn # 0) /\ fn \in {bn, bn - 1}
  <2>1. CASE frest = <<>>
    BY <1>2, <1>8, <2>1 DEF IterMutNextBack
  <2>2. CASE frest # <<>>
    <3>1. IterMutNextBack(t, i)
            = Yield(Last(frest), BackFromFront(i, Max({0, bk - 1}), Front(frest)))
      BY <1>2, <1>8, <2>2 DEF IterMutNextBack, BackFromFront
    <3>2. ~(fn + 1 < bn)
      BY <1>4, <1>8
    <3>3. /\ lo < hi /\ Last(frest) = Items(t)[hi]
          /\ Standing(t, fn, Front(frest), bn, brest, lo, hi - 1)
      BY <1>1, <1>8, <2>2, <3>2, BackTakesFront
    <3>4. bk = hi - 1
      BY <1>1, <1>4, <3>3
    <3>5. PICK last : last = Max({0, bk - 1})
      OBVIOUS
    <3>6. last = IF 0 >= bk - 1 THEN 0 ELSE bk - 1
      <4>1. 0 \in Int /\ bk - 1 \in Int
        BY <1>4, <3>4
      <4> QED
        BY <3>5, <4>1, MinMaxOfTwo
    <3>7. last = (hi - 1) - 1 \/ (hi - 1 = 0 /\ last = 0)
      BY <1>4, <3>3, <3>4, <3>6
    <3>8. MutAt(t, Ends(lo, fn, Front(frest), last, bn, brest), lo, hi - 1)
      BY <3>3, <3>7 DEF MutAt
    <3> QED
      BY <1>3, <3>1, <3>3, <3>5, <3>8
  <2> QED
    BY <2>1, <2>2
<1>9. CASE lo # bk + 1 /\ brest = <<>> /\ ~(bn = 0 /\ fn # 0) /\ fn \notin {bn, bn - 1}
  <2> DEFINE node == t.inner[bn]
  <2>1. IterMutNextBack(t, i) = Yield(Last(node), BackMoved(i, bk - 1, bn - 1, Front(node)))
    BY <1>2, <1>9 DEF IterMutNextBack, BackMoved
  <2>2. fn + 1 < bn
    BY <1>4, <1>9
  <2>3. /\ lo < hi /\ Last(node) = Items(t)[hi]
        /\ Standing(t, fn, frest, bn - 1, Front(node), lo, hi - 1)
    BY <1>1, <1>9, <2>2, BackGoesOn
  <2>4. bk - 1 = (hi - 1) - 1
    BY <1>1, <1>4, <2>3
  <2>5. MutAt(t, Ends(lo, fn, frest, bk - 1, bn - 1, Front(node)), lo, hi - 1)
    BY <2>3, <2>4 DEF MutAt
  <2> HIDE DEF node
  <2> QED
    BY <1>3, <2>1, <2>3, <2>5
<1> QED
  BY <1>5, <1>6, <1>7, <1>8, <1>9

-----------------------------------------------------------------------------
(* What an iterator still has to yield *)

\* What next and next_back show of an item.
ShownBy(kind, item) ==
    CASE kind = "keys" -> AsKey(item)
      [] kind = "values" -> AsValue(item)
      [] OTHER -> AsEntry(item)

\* What is wanted are the items behind the first a, as the kind of iterator shows them.
Shows(t, kind, want, a) ==
    /\ a \in Nat
    /\ Len(want) > 0 => a + Len(want) <= t.len
    /\ \A j \in 1 .. Len(want) : want[j] = ShownBy(kind, Items(t)[a + j])

\* Iter and Range stand between the ranks lo and hi.
RangeAt(t, i, lo, hi) ==
    /\ lo \in Nat /\ hi \in Nat /\ lo <= hi /\ (lo < hi => hi <= t.len)
    /\ \E fn, frest, bn, brest :
         /\ i = Ends(lo, fn, frest, hi, bn, brest)
         /\ lo < hi => AtFront(t, fn, frest, lo) /\ AtBack(t, bn, brest, hi)

\* A range of the empty tree without an end: nothing, though it takes itself for one item.
OnNothing(t, i) ==
    /\ t.len = 0
    /\ \E fn, bn \in Nat : i = Ends(0, fn, <<>>, 1, bn, <<>>)

\* next ends where the ends meet, or yields the item at the front.
LEMMA RangeNext ==
    ASSUME NEW t \in Trees, NEW i, NEW lo, NEW hi, RangeAt(t, i, lo, hi)
    PROVE  \/ lo = hi /\ IterNext(t, i) = Ended(i)
           \/ /\ lo < hi
              /\ \E j : /\ RangeAt(t, j, lo + 1, hi)
                        /\ IterNext(t, i) = Yield(Items(t)[lo + 1], j)
<1>1. lo \in Nat /\ hi \in Nat /\ lo <= hi /\ (lo < hi => hi <= t.len)
  BY DEF RangeAt
<1>2. PICK fn, frest, bn, brest :
         /\ i = Ends(lo, fn, frest, hi, bn, brest)
         /\ lo < hi => AtFront(t, fn, frest, lo) /\ AtBack(t, bn, brest, hi)
  BY DEF RangeAt
<1>3. CASE lo = hi
  <2>1. i.front = i.back
    BY <1>2, <1>3, EndsMove
  <2> QED
    BY <1>3, <2>1 DEF IterNext
<1>4. CASE lo < hi
  <2>1. PICK m, after :
          /\ AtFront(t, m, after, lo + 1)
          /\ IterNext(t, i) = Yield(Items(t)[lo + 1], Ends(lo + 1, m, after, hi, bn, brest))
    BY <1>1, <1>2, <1>4, IterNextYields
  <2>2. lo + 1 \in Nat /\ lo + 1 <= hi
    BY <1>1, <1>4
  <2>3. RangeAt(t, Ends(lo + 1, m, after, hi, bn, brest), lo + 1, hi)
    BY <1>1, <1>2, <1>4, <2>1, <2>2 DEF RangeAt
  <2> QED
    BY <1>4, <2>1, <2>3
<1> QED
  BY <1>1, <1>3, <1>4

\* next_back ends where the ends meet, or yields the item at the back.
LEMMA RangeNextBack ==
    ASSUME NEW t \in Trees, NEW i, NEW lo, NEW hi, RangeAt(t, i, lo, hi)
    PROVE  \/ lo = hi /\ IterNextBack(t, i) = Ended(i)
           \/ /\ lo < hi
              /\ \E j : /\ RangeAt(t, j, lo, hi - 1)
                        /\ IterNextBack(t, i) = Yield(Items(t)[hi], j)
<1>1. lo \in Nat /\ hi \in Nat /\ lo <= hi /\ (lo < hi => hi <= t.len)
  BY DEF RangeAt
<1>2. PICK fn, frest, bn, brest :
         /\ i = Ends(lo, fn, frest, hi, bn, brest)
         /\ lo < hi => AtFront(t, fn, frest, lo) /\ AtBack(t, bn, brest, hi)
  BY DEF RangeAt
<1>3. CASE lo = hi
  <2>1. i.front = i.back
    BY <1>2, <1>3, EndsMove
  <2> QED
    BY <1>3, <2>1 DEF IterNextBack
<1>4. CASE lo < hi
  <2>1. PICK m, after :
          /\ AtBack(t, m, after, hi - 1)
          /\ IterNextBack(t, i) = Yield(Items(t)[hi], Ends(lo, fn, frest, hi - 1, m, after))
    BY <1>1, <1>2, <1>4, IterNextBackYields
  <2>2. hi - 1 \in Nat /\ lo <= hi - 1 /\ hi - 1 <= t.len
    <3>1. t.len \in Nat
      BY TreesType
    <3> QED
      BY <1>1, <1>4, <3>1
  <2>3. RangeAt(t, Ends(lo, fn, frest, hi - 1, m, after), lo, hi - 1)
    BY <1>1, <1>2, <1>4, <2>1, <2>2 DEF RangeAt
  <2> QED
    BY <1>4, <2>1, <2>3
<1> QED
  BY <1>1, <1>3, <1>4

\* From nothing next and next_back end, and stay where they are.
LEMMA NothingEnds ==
    ASSUME NEW t \in Trees, NEW i, OnNothing(t, i)
    PROVE  /\ \E j : OnNothing(t, j) /\ IterNext(t, i) = Ended(j)
           /\ \E j : OnNothing(t, j) /\ IterNextBack(t, i) = Ended(j)
<1>1. t.len = 0
  BY DEF OnNothing
<1>2. PICK fn \in Nat, bn \in Nat : i = Ends(0, fn, <<>>, 1, bn, <<>>)
  BY DEF OnNothing
<1>3. /\ i.front = 0 /\ i.frontNode = fn /\ i.frontRest = <<>>
      /\ i.back = 1 /\ i.backNode = bn /\ i.backRest = <<>>
  BY <1>2 DEF Ends
<1>4. \A n \in 1 .. Len(t.inner) : t.inner[n] = <<>>
  <2>1. Len(t.inner) \in Nat /\ \A n \in 1 .. Len(t.inner) : t.inner[n] \in Node
    BY TreesType, NodesType
  <2>2. ASSUME NEW n \in 1 .. Len(t.inner) PROVE Len(t.inner[n]) = 0
    <3>1. /\ PrefixSum(t, n - 1) \in Nat /\ Len(t.inner[n]) \in Nat /\ n \in 0 .. Len(t.inner)
          /\ PrefixSum(t, n) = PrefixSum(t, n - 1) + Len(t.inner[n])
      <4>1. n - 1 \in 0 .. Len(t.inner) /\ n \in 0 .. Len(t.inner)
        BY <2>1
      <4> QED
        BY <4>1, SumsGrow, TreesType, NodesType
    <3>2. PrefixSum(t, n) <= 0
      <4>1. Len(t.inner) \in 0 .. Len(t.inner) /\ n <= Len(t.inner)
        BY <2>1
      <4>2. PrefixSum(t, n) <= PrefixSum(t, Len(t.inner))
        BY <3>1, <4>1, SumsGrow
      <4> QED
        BY <1>1, <4>2, SumsGrow
    <3> QED
      BY <3>1, <3>2
  <2> QED
    BY <2>1, <2>2, EmptyNode
<1> DEFINE ahead == {n \in i.frontNode + 1 .. Len(t.inner) : t.inner[n] # <<>>}
           behind == {n \in 1 .. i.backNode - 1 : n <= Len(t.inner) /\ t.inner[n] # <<>>}
<1>5. ahead = {} /\ behind = {}
  <2>1. Len(t.inner) \in Nat
    BY TreesType
  <2>2. /\ \A n \in fn + 1 .. Len(t.inner) : n \in 1 .. Len(t.inner)
        /\ \A n \in 1 .. bn - 1 : n <= Len(t.inner) => n \in 1 .. Len(t.inner)
    BY <2>1
  <2> QED
    BY <1>3, <1>4, <2>2
<1>6. IterNext(t, i) = Ended([i EXCEPT !.frontNode = Len(t.inner) + 1])
  <2>1. i.front # i.back
    BY <1>3
  <2> QED
    BY <1>3, <1>5, <2>1 DEF IterNext
<1>7. IterNextBack(t, i) = Ended([i EXCEPT !.backNode = 1])
  <2>1. i.front # i.back
    BY <1>3
  <2> QED
    BY <1>3, <1>5, <2>1 DEF IterNextBack
<1>8. /\ [i EXCEPT !.frontNode = Len(t.inner) + 1] = Ends(0, Len(t.inner) + 1, <<>>, 1, bn, <<>>)
      /\ [i EXCEPT !.backNode = 1] = Ends(0, fn, <<>>, 1, 1, <<>>)
  BY <1>2 DEF Ends
<1>9. Len(t.inner) + 1 \in Nat /\ 1 \in Nat
  BY TreesType
<1> QED
  BY <1>1, <1>6, <1>7, <1>8, <1>9 DEF OnNothing

\* An iterator of a range has yielded the first of what it wants from the front and the
\* last from the back, and stands at what is left; if it has ended, nothing is.
RangeSound(t, kind, iter, want, front, back, ended) ==
    \/ OnNothing(t, iter) /\ want = <<>> /\ front = <<>> /\ back = <<>>
    \/ \E a, f, g :
         /\ Yields(want, front, back, f, g) /\ Shows(t, kind, want, a)
         /\ RangeAt(t, iter, a + f, a + Len(want) - g)
         /\ ended => f + g = Len(want)

\* IterMut has too, but may end early.
MutSound(t, iter, want, front, back) ==
    /\ want = Items(t)
    /\ \E f, g : Yields(want, front, back, f, g) /\ MutAt(t, iter, f, t.len - g)

\* What has been yielded after a step.
Longer(kind, s, step) ==
    IF step.item = None THEN s ELSE Append(s, ShownBy(kind, step.item[1]))

\* A step that ends leaves what has been yielded, ...
LEMMA EndedIs ==
    ASSUME NEW j, NEW kind, NEW s
    PROVE  Ended(j).item = None /\ Ended(j).iter = j /\ Longer(kind, s, Ended(j)) = s
  BY DEF Ended, Longer

\* ... and one that yields an item adds it.
LEMMA YieldIs ==
    ASSUME NEW j, NEW x, NEW kind, NEW s
    PROVE  /\ Yield(x, j).item # None /\ Yield(x, j).iter = j
           /\ Longer(kind, s, Yield(x, j)) = Append(s, ShownBy(kind, x))
  BY SomeIsNotNone DEF Yield, Longer

\* The numbers behind the ranks.
LEMMA SoundCounts ==
    ASSUME NEW t \in Trees, NEW kind, NEW want, NEW front, NEW back, NEW a, NEW f, NEW g,
           Yields(want, front, back, f, g), Shows(t, kind, want, a)
    PROVE  /\ a \in Nat /\ f \in Nat /\ g \in Nat /\ Len(want) \in Nat
           /\ f + g <= Len(want)
           /\ f + g < Len(want) =>
                /\ want[f + 1] = ShownBy(kind, Items(t)[a + f + 1])
                /\ want[Len(want) - g] = ShownBy(kind, Items(t)[a + Len(want) - g])
<1>1. PICK T : want \in Seq(T)
  BY DEF Yields
<1>2. /\ a \in Nat /\ f \in Nat /\ g \in Nat /\ Len(want) \in Nat /\ f + g <= Len(want)
      /\ \A j \in 1 .. Len(want) : want[j] = ShownBy(kind, Items(t)[a + j])
  BY <1>1, LenProperties DEF Yields, Shows
<1>3. ASSUME f + g < Len(want)
      PROVE  /\ want[f + 1] = ShownBy(kind, Items(t)[a + f + 1])
             /\ want[Len(want) - g] = ShownBy(kind, Items(t)[a + Len(want) - g])
  <2>1. /\ f + 1 \in 1 .. Len(want) /\ a + (f + 1) = a + f + 1
        /\ Len(want) - g \in 1 .. Len(want) /\ a + (Len(want) - g) = a + Len(want) - g
    BY <1>2, <1>3
  <2>2. want[f + 1] = ShownBy(kind, Items(t)[a + (f + 1)])
    BY <1>2, <2>1
  <2>3. want[Len(want) - g] = ShownBy(kind, Items(t)[a + (Len(want) - g)])
    BY <1>2, <2>1
  <2> QED
    BY <2>1, <2>2, <2>3
<1> QED
  BY <1>2, <1>3

\* next keeps it.
LEMMA RangeSoundNext ==
    ASSUME NEW t \in Trees, NEW kind, NEW iter, NEW want, NEW front, NEW back,
           NEW ended \in BOOLEAN, RangeSound(t, kind, iter, want, front, back, ended),
           NEW step, step = IterNext(t, iter)
    PROVE  RangeSound(t, kind, step.iter, want, Longer(kind, front, step), back,
                      ended \/ step.item = None)
<1>1. CASE OnNothing(t, iter) /\ want = <<>> /\ front = <<>> /\ back = <<>>
  <2>1. PICK j : OnNothing(t, j) /\ IterNext(t, iter) = Ended(j)
    BY <1>1, NothingEnds
  <2>2. step.iter = j /\ Longer(kind, front, step) = front
    BY <2>1, EndedIs
  <2> QED
    BY <1>1, <2>1, <2>2 DEF RangeSound
<1>2. ASSUME NEW a, NEW f, NEW g,
             Yields(want, front, back, f, g), Shows(t, kind, want, a),
             RangeAt(t, iter, a + f, a + Len(want) - g), ended => f + g = Len(want)
      PROVE  RangeSound(t, kind, step.iter, want, Longer(kind, front, step), back,
                        ended \/ step.item = None)
  <2>1. /\ a \in Nat /\ f \in Nat /\ g \in Nat /\ Len(want) \in Nat /\ f + g <= Len(want)
        /\ f + g < Len(want) => want[f + 1] = ShownBy(kind, Items(t)[a + f + 1])
    BY <1>2, SoundCounts
  <2> DEFINE lo == a + f
             hi == a + Len(want) - g
  <2>2. CASE lo = hi /\ IterNext(t, iter) = Ended(iter)
    <3>1. step.iter = iter /\ Longer(kind, front, step) = front
      BY <2>2, EndedIs
    <3>2. f + g = Len(want)
      BY <2>1, <2>2
    <3> QED
      BY <1>2, <3>1, <3>2 DEF RangeSound
  <2>3. ASSUME lo < hi, NEW j, RangeAt(t, j, lo + 1, hi),
               IterNext(t, iter) = Yield(Items(t)[lo + 1], j)
        PROVE  RangeSound(t, kind, step.iter, want, Longer(kind, front, step), back,
                          ended \/ step.item = None)
    <3>1. f + g < Len(want) /\ lo + 1 = a + (f + 1)
      BY <2>1, <2>3
    <3>2. /\ step.iter = j /\ step.item # None
          /\ Longer(kind, front, step) = Append(front, ShownBy(kind, Items(t)[lo + 1]))
      BY <2>3, YieldIs
    <3>3. Longer(kind, front, step) = Append(front, want[f + 1])
      BY <2>1, <3>1, <3>2
    <3>4. Yields(want, Longer(kind, front, step), back, f + 1, g)
      BY <1>2, <3>1, <3>3, YieldsFront
    <3>5. ~ended
      BY <1>2, <2>1, <3>1
    <3>6. RangeAt(t, step.iter, a + (f + 1), a + Len(want) - g)
      BY <2>3, <3>1, <3>2
    <3>7. ~(ended \/ step.item = None)
      BY <3>2, <3>5
    <3> HIDE DEF lo, hi
    <3> QED
      BY <1>2, <3>4, <3>6, <3>7 DEF RangeSound
  <2>4. \/ lo = hi /\ IterNext(t, iter) = Ended(iter)
        \/ /\ lo < hi
           /\ \E j : /\ RangeAt(t, j, lo + 1, hi)
                     /\ IterNext(t, iter) = Yield(Items(t)[lo + 1], j)
    BY <1>2, RangeNext
  <2> QED
    BY <2>2, <2>3, <2>4
<1> QED
  BY <1>1, <1>2 DEF RangeSound

\* next_back keeps it.
LEMMA RangeSoundNextBack ==
    ASSUME NEW t \in Trees, NEW kind, NEW iter, NEW want, NEW front, NEW back,
           NEW ended \in BOOLEAN, RangeSound(t, kind, iter, want, front, back, ended),
           NEW step, step = IterNextBack(t, iter)
    PROVE  RangeSound(t, kind, step.iter, want, front, Longer(kind, back, step),
                      ended \/ step.item = None)
<1>1. CASE OnNothing(t, iter) /\ want = <<>> /\ front = <<>> /\ back = <<>>
  <2>1. PICK j : OnNothing(t, j) /\ IterNextBack(t, iter) = Ended(j)
    BY <1>1, NothingEnds
  <2>2. step.iter = j /\ Longer(kind, back, step) = back
    BY <2>1, EndedIs
  <2> QED
    BY <1>1, <2>1, <2>2 DEF RangeSound
<1>2. ASSUME NEW a, NEW f, NEW g,
             Yields(want, front, back, f, g), Shows(t, kind, want, a),
             RangeAt(t, iter, a + f, a + Len(want) - g), ended => f + g = Len(want)
      PROVE  RangeSound(t, kind, step.iter, want, front, Longer(kind, back, step),
                        ended \/ step.item = None)
  <2>1. /\ a \in Nat /\ f \in Nat /\ g \in Nat /\ Len(want) \in Nat /\ f + g <= Len(want)
        /\ f + g < Len(want) =>
             want[Len(want) - g] = ShownBy(kind, Items(t)[a + Len(want) - g])
    BY <1>2, SoundCounts
  <2> DEFINE lo == a + f
             hi == a + Len(want) - g
  <2>2. CASE lo = hi /\ IterNextBack(t, iter) = Ended(iter)
    <3>1. step.iter = iter /\ Longer(kind, back, step) = back
      BY <2>2, EndedIs
    <3>2. f + g = Len(want)
      BY <2>1, <2>2
    <3> QED
      BY <1>2, <3>1, <3>2 DEF RangeSound
  <2>3. ASSUME lo < hi, NEW j, RangeAt(t, j, lo, hi - 1),
               IterNextBack(t, iter) = Yield(Items(t)[hi], j)
        PROVE  RangeSound(t, kind, step.iter, want, front, Longer(kind, back, step),
                          ended \/ step.item = None)
    <3>1. f + g < Len(want) /\ hi - 1 = a + Len(want) - (g + 1)
      BY <2>1, <2>3
    <3>2. /\ step.iter = j /\ step.item # None
          /\ Longer(kind, back, step) = Append(back, ShownBy(kind, Items(t)[hi]))
      BY <2>3, YieldIs
    <3>3. Longer(kind, back, step) = Append(back, want[Len(want) - g])
      BY <2>1, <3>1, <3>2
    <3>4. Yields(want, front, Longer(kind, back, step), f, g + 1)
      BY <1>2, <3>1, <3>3, YieldsBack
    <3>5. ~ended
      BY <1>2, <2>1, <3>1
    <3>6. RangeAt(t, step.iter, a + f, a + Len(want) - (g + 1))
      BY <2>3, <3>1, <3>2
    <3>7. ~(ended \/ step.item = None)
      BY <3>2, <3>5
    <3> HIDE DEF lo, hi
    <3> QED
      BY <1>2, <3>4, <3>6, <3>7 DEF RangeSound
  <2>4. \/ lo = hi /\ IterNextBack(t, iter) = Ended(iter)
        \/ /\ lo < hi
           /\ \E j : /\ RangeAt(t, j, lo, hi - 1)
                     /\ IterNextBack(t, iter) = Yield(Items(t)[hi], j)
    BY <1>2, RangeNextBack
  <2> QED
    BY <2>2, <2>3, <2>4
<1> QED
  BY <1>1, <1>2 DEF RangeSound

\* Both steps of IterMut keep what it has.
LEMMA MutSoundSteps ==
    ASSUME NEW t \in Trees, NEW iter, NEW want, NEW front, NEW back,
           MutSound(t, iter, want, front, back), NEW kind, kind = "iter_mut"
    PROVE  /\ \A step : step = IterMutNext(t, iter) =>
                MutSound(t, step.iter, want, Longer(kind, front, step), back)
           /\ \A step : step = IterMutNextBack(t, iter) =>
                MutSound(t, step.iter, want, front, Longer(kind, back, step))
<1>1. PICK f, g : Yields(want, front, back, f, g) /\ MutAt(t, iter, f, t.len - g)
  BY DEF MutSound
<1>2. want = Items(t) /\ want \in Node /\ Len(want) = t.len /\ Len(want) \in Nat
  BY ItemsByRank DEF MutSound
<1>3. f \in Nat /\ g \in Nat
  BY <1>1 DEF Yields
<1>4. \A x : ShownBy(kind, x) = x
  BY DEF ShownBy, AsEntry
<1>5. ASSUME NEW step, step = IterMutNext(t, iter)
      PROVE  MutSound(t, step.iter, want, Longer(kind, front, step), back)
  <2>1. CASE step = Ended(iter)
    <3>1. step.iter = iter /\ Longer(kind, front, step) = front
      BY <2>1, EndedIs
    <3> QED
      BY <3>1
  <2>2. ASSUME f < t.len - g, NEW j, MutAt(t, j, f + 1, t.len - g),
               step = Yield(Items(t)[f + 1], j)
        PROVE  MutSound(t, step.iter, want, Longer(kind, front, step), back)
    <3>1. f + g < Len(want)
      BY <1>2, <1>3, <2>2
    <3>2. step.iter = j /\ Longer(kind, front, step) = Append(front, want[f + 1])
      BY <1>2, <1>4, <2>2, YieldIs
    <3>3. Yields(want, Longer(kind, front, step), back, f + 1, g)
      BY <1>1, <3>1, <3>2, YieldsFront
    <3> QED
      BY <1>2, <2>2, <3>2, <3>3 DEF MutSound
  <2> QED
    BY <1>1, <1>5, <2>1, <2>2, IterMutNextYields
<1>6. ASSUME NEW step, step = IterMutNextBack(t, iter)
      PROVE  MutSound(t, step.iter, want, front, Longer(kind, back, step))
  <2>1. CASE step = Ended(iter)
    <3>1. step.iter = iter /\ Longer(kind, back, step) = back
      BY <2>1, EndedIs
    <3> QED
      BY <3>1
  <2>2. ASSUME f < t.len - g, NEW j, MutAt(t, j, f, t.len - g - 1),
               step = Yield(Items(t)[t.len - g], j)
        PROVE  MutSound(t, step.iter, want, front, Longer(kind, back, step))
    <3>1. f + g < Len(want) /\ t.len - g - 1 = t.len - (g + 1)
      BY <1>2, <1>3, <2>2
    <3>2. step.iter = j /\ Longer(kind, back, step) = Append(back, want[Len(want) - g])
      BY <1>2, <1>4, <2>2, YieldIs
    <3>3. Yields(want, front, Longer(kind, back, step), f, g + 1)
      BY <1>1, <3>1, <3>2, YieldsBack
    <3>4. MutAt(t, j, f, t.len - (g + 1))
      BY <2>2, <3>1
    <3> QED
      BY <1>2, <3>2, <3>3, <3>4 DEF MutSound
  <2> QED
    BY <1>1, <1>6, <2>1, <2>2, IterMutNextBackYields
<1> QED
  BY <1>5, <1>6

-----------------------------------------------------------------------------
(* How an iterator starts *)

\* iter stands around all the items.
LEMMA NewIterAt ==
    ASSUME NEW t \in Trees
    PROVE  RangeAt(t, NewIter(t), 0, t.len)
<1> DEFINE L == Len(t.inner)
<1>1. t.len \in Nat /\ L \in Nat /\ L >= 1
  BY TreesType
<1>2. /\ PrefixSum(t, 0) = 0 /\ PrefixSum(t, L) = t.len
  BY SumsGrow
<1>3. NewIter(t) = Ends(0, 1, t.inner[1], t.len, L, t.inner[L])
  BY DEF NewIter, Ends, Last
<1>4. AtFront(t, 1, t.inner[1], 0)
  <2>1. PICK one \in 1 .. L : one = 1
    BY <1>1
  <2>2. PrefixSum(t, one - 1) = 0
    BY <1>2, <2>1
  <2> QED
    BY <2>1, <2>2, NodeIsSlice DEF AtFront
<1>5. AtBack(t, L, t.inner[L], t.len)
  <2>1. L \in 1 .. L
    BY <1>1
  <2>2. /\ IsSlice(Items(t), PrefixSum(t, L - 1), t.inner[L])
        /\ PrefixSum(t, L - 1) + Len(t.inner[L]) = PrefixSum(t, L)
    BY <2>1, NodeIsSlice
  <2>3. PrefixSum(t, L - 1) \in Nat /\ Len(t.inner[L]) \in Nat
    <3>1. L - 1 \in 0 .. L
      BY <1>1
    <3> QED
      BY <2>1, <3>1, SumsGrow, TreesType, NodesType
  <2>4. t.len - Len(t.inner[L]) = PrefixSum(t, L - 1)
    BY <1>2, <2>2, <2>3
  <2> QED
    BY <1>1, <2>1, <2>2, <2>4 DEF AtBack
<1> QED
  BY <1>1, <1>3, <1>4, <1>5 DEF RangeAt

\* iter_mut does too.
LEMMA NewIterMutAt ==
    ASSUME NEW t \in Trees
    PROVE  MutAt(t, NewIterMut(t), 0, t.len)
<1> DEFINE L == Len(t.inner)
           brest == IF L = 1 THEN <<>> ELSE t.inner[L]
<1>1. t.len \in Nat /\ L \in Nat /\ L >= 1 /\ t.inner[1] \in Node
  <2>1. t.len \in Nat /\ L \in Nat /\ L >= 1
    BY TreesType
  <2> QED
    BY <2>1, TreesType, NodesType
<1>2. /\ PrefixSum(t, 0) = 0 /\ PrefixSum(t, L) = t.len
  BY SumsGrow
<1>3. NewIterMut(t) = Ends(0, 0, t.inner[1], t.len - 1, L - 1, brest)
  BY DEF NewIterMut, Ends, Last
<1>4. PICK one \in 1 .. L : one = 1
  BY <1>1
<1>5. /\ IsSlice(Items(t), 0, t.inner[1]) /\ 0 + Len(t.inner[1]) = PrefixSum(t, 1)
      /\ Items(t) \in Node /\ Len(Items(t)) = t.len /\ Len(t.inner[1]) \in Nat
  <2>1. PrefixSum(t, one - 1) = 0
    BY <1>2, <1>4
  <2> QED
    BY <1>1, <1>4, <2>1, NodeIsSlice, NodeType
<1>6. CASE L = 1
  <2>1. brest = <<>> /\ Len(brest) = 0 /\ brest \in Node /\ t.len - Len(brest) = t.len
    BY <1>1, <1>6, EmptyNodeType
  <2> HIDE DEF brest
  <2>2. IsSlice(Items(t), t.len - Len(brest), brest)
    BY <1>1, <1>5, <2>1 DEF IsSlice
  <2>3. 0 + Len(t.inner[1]) = t.len - Len(brest)
    BY <1>2, <1>5, <1>6, <2>1
  <2>4. Standing(t, 0, t.inner[1], L - 1, brest, 0, t.len)
    BY <1>1, <1>5, <1>6, <2>2, <2>3 DEF Standing
  <2> QED
    BY <1>3, <2>4 DEF MutAt
<1>7. CASE L # 1
  <2>1. brest = t.inner[L] /\ L \in 1 .. L /\ L - 1 \in 0 .. L
    BY <1>1, <1>7
  <2> HIDE DEF brest
  <2>2. /\ IsSlice(Items(t), PrefixSum(t, L - 1), brest)
        /\ PrefixSum(t, L - 1) + Len(brest) = PrefixSum(t, L)
    BY <2>1, NodeIsSlice
  <2>3. PrefixSum(t, L - 1) \in Nat /\ Len(brest) \in Nat
    BY <2>1, SumsGrow, TreesType, NodesType
  <2>4. t.len - Len(brest) = PrefixSum(t, L - 1)
    BY <1>2, <2>2, <2>3
  <2>5. 0 + 1 = 1 /\ (~(0 + 1 < L - 1) => L - 1 = 1) /\ 0 < L - 1 /\ L - 1 \in Nat /\ L - 1 < L
    <3> HIDE DEF L
    <3> QED
      BY <1>1, <1>7
  <2>6. ~(0 + 1 < L - 1) => 0 + Len(t.inner[1]) = t.len - Len(brest)
    BY <1>5, <2>4, <2>5
  <2>7. Standing(t, 0, t.inner[1], L - 1, brest, 0, t.len)
    BY <1>1, <1>5, <2>2, <2>4, <2>5, <2>6 DEF Standing
  <2> QED
    BY <1>3, <2>7 DEF MutAt
<1> QED
  BY <1>6, <1>7

\* range_idx stands around the items of the ranks asked for.
LEMMA RangeIdxAt ==
    ASSUME NEW t \in Trees, NEW from \in Nat, NEW to \in Nat, from <= to + 1,
           from <= to => to < t.len
    PROVE  RangeAt(t, RangeIdx(t, Included(from), Included(to)), from, to + 1)
<1> DEFINE first == LocateIth(t, from)
           last == LocateIth(t, to)
           frest == IF first[1] <= Len(t.inner)
             THEN SubSeq(t.inner[first[1]], first[2], Len(t.inner[first[1]])) ELSE <<>>
           brest == IF last[1] <= Len(t.inner)
             THEN SubSeq(t.inner[last[1]], 1, last[2]) ELSE <<>>
<1>1. RangeIdx(t, Included(from), Included(to))
        = Ends(from, first[1], frest, to + 1, last[1], brest)
  BY DEF RangeIdx, ResolveRange, Included, Ends
<1>2. from <= to => AtFront(t, first[1], frest, from) /\ AtBack(t, last[1], brest, to + 1)
  <2> SUFFICES ASSUME from <= to
               PROVE  AtFront(t, first[1], frest, from) /\ AtBack(t, last[1], brest, to + 1)
    OBVIOUS
  <2>1. /\ t.len \in Nat /\ Len(t.inner) \in Nat /\ from < t.len /\ to < t.len
        /\ Items(t) \in Node
    BY TreesType, ItemsByRank
  <2>2. AtFront(t, first[1], frest, from)
    <3>1. PICK n \in 1 .. Len(t.inner) : \E i \in 1 .. Len(t.inner[n]) :
            first = <<n, i>> /\ PrefixSum(t, n - 1) + i - 1 = from
      BY <2>1, LocateIthIs
    <3>2. PICK i \in 1 .. Len(t.inner[n]) :
            first = <<n, i>> /\ PrefixSum(t, n - 1) + i - 1 = from
      BY <3>1
    <3> DEFINE node == t.inner[n]
               a == PrefixSum(t, n - 1)
    <3>3. /\ IsSlice(Items(t), a, node) /\ a + Len(node) = PrefixSum(t, n)
          /\ Len(node) \in Nat /\ a \in Nat
      BY NodeIsSlice, TreesType, NodesType DEF IsSlice
    <3>4. frest = SubSeq(node, i, Len(node))
      BY <2>1, <3>2
    <3> HIDE DEF node, a, frest, first
    <3>5. i \in 1 .. Len(node) + 1 /\ Len(node) \in 0 .. Len(node) /\ i <= Len(node) + 1
      BY <3>2, <3>3 DEF node
    <3>6. IsSlice(Items(t), a + i - 1, frest) /\ Len(frest) = Len(node) - i + 1
      BY <2>1, <3>3, <3>4, <3>5, SliceSub
    <3>7. from + Len(frest) = PrefixSum(t, n) /\ a + i - 1 = from
      <4>1. a + i - 1 = from
        BY <3>2 DEF a
      <4>2. \A m \in Nat : a + i - 1 + (m - i + 1) = a + m
        BY <3>3
      <4>3. from + Len(frest) = a + Len(node)
        BY <3>3, <3>6, <4>1, <4>2
      <4> QED
        BY <3>3, <4>1, <4>3
    <3>8. first[1] = n
      BY <3>2
    <3> QED
      BY <3>6, <3>7, <3>8 DEF AtFront
  <2>3. AtBack(t, last[1], brest, to + 1)
    <3>1. PICK n \in 1 .. Len(t.inner) : \E i \in 1 .. Len(t.inner[n]) :
            last = <<n, i>> /\ PrefixSum(t, n - 1) + i - 1 = to
      BY <2>1, LocateIthIs
    <3>2. PICK i \in 1 .. Len(t.inner[n]) :
            last = <<n, i>> /\ PrefixSum(t, n - 1) + i - 1 = to
      BY <3>1
    <3> DEFINE node == t.inner[n]
               a == PrefixSum(t, n - 1)
    <3>3. IsSlice(Items(t), a, node) /\ Len(node) \in Nat /\ a \in Nat
      BY NodeIsSlice, TreesType, NodesType DEF IsSlice
    <3>4. PICK one \in 1 .. Len(node) + 1 : one = 1
      BY <3>3
    <3>5. brest = SubSeq(node, one, i)
      BY <2>1, <3>2, <3>4
    <3> HIDE DEF node, a, brest, last
    <3>6. i \in 0 .. Len(node) /\ one <= i + 1 /\ i \in Nat
      BY <3>2, <3>3, <3>4 DEF node
    <3>7. IsSlice(Items(t), a + one - 1, brest) /\ Len(brest) = i - one + 1
      BY <2>1, <3>3, <3>4, <3>5, <3>6, SliceSub
    <3>8. to + 1 - Len(brest) = a /\ a + one - 1 = a
      <4>1. a + i - 1 = to
        BY <3>2 DEF a
      <4>2. i \in Nat /\ a \in Nat /\ one = 1 /\ Len(brest) = i - one + 1
        BY <3>3, <3>4, <3>6, <3>7
      <4>3. \A b, k \in Nat : b + k - 1 + 1 - (k - 1 + 1) = b /\ b + 1 - 1 = b
        OBVIOUS
      <4> QED
        BY <4>1, <4>2, <4>3
    <3>9. last[1] = n /\ to + 1 \in Nat
      BY <3>2
    <3> QED
      BY <3>7, <3>8, <3>9 DEF AtBack, a
  <2> QED
    BY <2>2, <2>3
<1>3. from < to + 1 => from <= to
  OBVIOUS
<1>4. from < to + 1 => to + 1 <= t.len
  <2>1. t.len \in Nat
    BY TreesType
  <2> QED
    BY <1>3, <2>1
<1> HIDE DEF first, last, frest, brest
<1> QED
  BY <1>1, <1>2, <1>3, <1>4 DEF RangeAt

\* Of the empty tree the range of its first item is nothing.
LEMMA RangeIdxNothing ==
    ASSUME NEW t \in Trees, t.len = 0
    PROVE  OnNothing(t, RangeIdx(t, Included(0), Included(0)))
<1> DEFINE at == LocateIth(t, 0)
<1>1. /\ Len(t.inner) = 1 /\ Len(t.inner[1]) = 0
  <2>1. Len(t.inner) \in Nat /\ Len(t.inner) >= 1
    BY TreesType
  <2>2. 1 \in 1 .. Len(t.inner) /\ 1 - 1 = 0 /\ Len(t.inner) \in 0 .. Len(t.inner)
        /\ 1 <= Len(t.inner) /\ 1 \in 0 .. Len(t.inner)
    BY <2>1
  <2>3. PrefixSum(t, 1) = Len(t.inner[1]) /\ Len(t.inner[1]) \in Nat /\ PrefixSum(t, 1) <= 0
    <3>1. Len(t.inner[1]) \in Nat
      BY <2>2, TreesType, NodesType
    <3>2. PrefixSum(t, 0) = 0 /\ PrefixSum(t, 1) = PrefixSum(t, 0) + Len(t.inner[1])
          /\ PrefixSum(t, 1) <= t.len
      BY <2>2, SumsGrow
    <3> QED
      BY <3>1, <3>2
  <2>4. Len(t.inner[1]) = 0
    BY <2>3
  <2>5. ~(Len(t.inner) > 1)
    <3>1. Len(t.inner) > 1 => Len(t.inner[1]) > 0
      BY <2>2, SumsGrow
    <3> QED
      BY <2>4, <3>1
  <2>6. PICK l \in Nat : l = Len(t.inner)
    BY <2>1
  <2>7. l >= 1 /\ ~(l > 1)
    BY <2>1, <2>5, <2>6
  <2>8. l = 1
    BY <2>7
  <2> QED
    BY <2>4, <2>6, <2>8
<1>2. at = <<2, 1>>
  <2>1. DOMAIN t.index = 1 .. 1
    <3>1. t.index = Lengths(t.inner) /\ DOMAIN t.inner = 1 .. Len(t.inner)
      BY TreesType
    <3> QED
      BY <1>1, <3>1 DEF Lengths
  <2>2. PrefixSum(t, 1) = 0 /\ PrefixSum(t, 0) = 0
    BY <1>1, SumsGrow
  <2>3. {0} \cup {n \in DOMAIN t.index : PrefixSum(t, n) < 0} = {0}
    BY <2>1, <2>2
  <2>4. IndexOf(t, 0) = 0
    <3>1. Max({0}) = 0
      BY DEF Max
    <3> QED
      BY <2>3, <3>1 DEF IndexOf
  <2> QED
    BY <1>1, <2>2, <2>4 DEF LocateIth
<1>3. RangeIdx(t, Included(0), Included(0)) = Ends(0, 2, <<>>, 1, 2, <<>>)
  <2> HIDE DEF at
  <2>1. at[1] = 2 /\ ~(2 <= Len(t.inner))
    BY <1>1, <1>2
  <2> QED
    BY <2>1 DEF RangeIdx, ResolveRange, Included, Ends, at
<1> QED
  BY <1>3 DEF OnNothing

\* One item as a node.
LEMMA OneItem ==
    ASSUME NEW x \in Item
    PROVE  <<x>> \in Node /\ Sorted(<<x>>) /\ \A y : y \in ToSet(<<x>>) <=> y = x
<1> DEFINE node == <<x>>
<1>1. node \in Node /\ Len(node) = 1 /\ node[1] = x
  BY DEF Node
<1> HIDE DEF node
<1>2. Sorted(node)
  BY <1>1 DEF Sorted
<1>3. \A y : y \in ToSet(node) <=> y = x
  <2>1. \A y : y \in ToSet(node) <=> \E i \in 1 .. Len(node) : y = node[i]
    BY <1>1, NodeType
  <2> QED
    BY <1>1, <2>1
<1> QED
  BY <1>1, <1>2, <1>3 DEF node

\* The items of a sorted node at some of its places, in their order.
LEMMA PickedOut ==
    ASSUME NEW items \in Node, Sorted(items), NEW G \in SUBSET (1 .. Len(items)),
           NEW r, r = [i \in DOMAIN items |-> IF i \in G THEN <<items[i]>> ELSE <<>>]
    PROVE  /\ FlattenSeq(r) \in Node /\ Sorted(FlattenSeq(r))
           /\ ToSet(FlattenSeq(r)) = {items[i] : i \in G}
<1>1. /\ Len(items) \in Nat /\ DOMAIN items = 1 .. Len(items)
      /\ \A i \in 1 .. Len(items) : items[i] \in Item
  BY NodeType
<1>2. ASSUME NEW i \in 1 .. Len(items)
      PROVE  /\ r[i] \in Node /\ Sorted(r[i])
             /\ \A x : x \in ToSet(r[i]) <=> i \in G /\ x = items[i]
  <2>1. CASE i \in G
    <3>1. r[i] = <<items[i]>>
      BY <1>1, <2>1
    <3>2. /\ <<items[i]>> \in Node /\ Sorted(<<items[i]>>)
          /\ \A x : x \in ToSet(<<items[i]>>) <=> x = items[i]
      BY <1>1, OneItem
    <3> QED
      BY <2>1, <3>1, <3>2
  <2>2. CASE i \notin G
    <3>1. r[i] = <<>>
      BY <1>1, <2>2
    <3> QED
      BY <2>2, <3>1, EmptyNodeType
  <2> QED
    BY <2>1, <2>2
<1>3. r \in Seq(Node) /\ Len(r) = Len(items) /\ DOMAIN r = 1 .. Len(items)
  <2>1. r = [i \in 1 .. Len(items) |-> r[i]]
    BY <1>1
  <2> QED
    BY <1>1, <1>2, <2>1, IsASeq
<1>4. CASE Len(items) = 0
  <2>1. FlattenSeq(r) = r
    BY <1>3, <1>4 DEF FlattenSeq
  <2>2. r = <<>>
    BY <1>3, <1>4, EmptySeq
  <2>3. {items[i] : i \in G} = {}
    BY <1>4
  <2> QED
    BY <2>1, <2>2, <2>3, EmptyNodeType
<1>5. CASE Len(items) >= 1
  <2>1. r \in Nodes /\ NodesSorted(r)
    <3>1. ASSUME NEW m \in 1 .. Len(r), NEW n \in 1 .. Len(r), m < n
          PROVE  Precedes(r[m], r[n])
      <4>1. Key(items[m]) < Key(items[n])
        BY <1>3, <3>1 DEF Sorted
      <4>2. /\ \A x \in ToSet(r[m]) : x = items[m]
            /\ \A x \in ToSet(r[n]) : x = items[n]
        BY <1>2, <1>3
      <4> QED
        BY <4>1, <4>2 DEF Precedes
    <3> QED
      BY <1>2, <1>3, <3>1 DEF Nodes, NodesSorted
  <2>2. ItemSet(r) = {items[i] : i \in G}
    <3>1. \A x : x \in ItemSet(r) <=> \E n \in 1 .. Len(r) : x \in ToSet(r[n])
      BY <2>1, NodesType
    <3>2. \A n \in 1 .. Len(r) : \A x : x \in ToSet(r[n]) <=> n \in G /\ x = items[n]
      BY <1>2, <1>3
    <3>3. \A n : n \in G => n \in 1 .. Len(r)
      BY <1>3
    <3>4. \A x : x \in ItemSet(r) <=> \E n \in G : x = items[n]
      BY <3>1, <3>2, <3>3
    <3> QED
      BY <3>4
  <2> QED
    BY <1>3, <1>5, <2>1, <2>2, ItemsAre
<1>6. Len(items) = 0 \/ Len(items) >= 1
  BY <1>1
<1> QED
  BY <1>4, <1>5, <1>6

\* An item of a sorted node has the rank of its place.
LEMMA NodeInOrder ==
    ASSUME NEW node \in Node, Sorted(node), NEW i \in 1 .. Len(node)
    PROVE  RankIn(ToSet(node), Key(node[i])) = i - 1
<1>1. Len(node) \in Nat /\ Key(node[i]) \in Int
  BY NodeType
<1>2. PICK rank \in 0 .. Len(node) : rank = RankIn(ToSet(node), Key(node[i]))
  BY <1>1, NodeByRank
<1>3. \A j \in 1 .. Len(node) : Key(node[j]) < Key(node[i]) <=> j <= rank
  BY <1>1, <1>2, NodeByRank
<1>4. \A j \in 1 .. Len(node) : j < i <=> j <= rank
  BY <1>3, SortedPlaces
<1>5. ~(i <= rank)
  BY <1>1, <1>4
<1>6. i - 1 \in 1 .. Len(node) => i - 1 <= rank
  BY <1>1, <1>4
<1> QED
  BY <1>1, <1>2, <1>5, <1>6

\* There is one sorted node of given items.
LEMMA OneSortedNode ==
    ASSUME NEW v \in Node, NEW w \in Node, Sorted(v), Sorted(w), ToSet(v) = ToSet(w)
    PROVE  Len(v) = Len(w) /\ \A i \in 1 .. Len(v) : v[i] = w[i]
<1>1. Len(v) = Len(w) /\ Len(v) \in Nat
  BY NodeCount, NodeType
<1>2. ASSUME NEW i \in 1 .. Len(v) PROVE v[i] = w[i]
  <2>1. PICK j \in 1 .. Len(w) : v[i] = w[j]
    BY NodeType
  <2>2. i - 1 = j - 1
    <3>1. RankIn(ToSet(v), Key(v[i])) = i - 1 /\ RankIn(ToSet(w), Key(w[j])) = j - 1
      BY NodeInOrder
    <3> QED
      BY <2>1, <3>1
  <2> QED
    BY <1>1, <2>1, <2>2
<1> QED
  BY <1>1, <1>2

-----------------------------------------------------------------------------
(* The bounds of a range as ranks *)

\* An item lies behind the start, or before the end.
FromStart(item, start) ==
    CASE start[1] = "included" -> start[2] <= Key(item)
      [] start[1] = "excluded" -> start[2] < Key(item)
      [] OTHER -> TRUE
UptoEnd(item, end) ==
    CASE end[1] = "included" -> Key(item) <= end[2]
      [] end[1] = "excluded" -> Key(item) < end[2]
      [] OTHER -> TRUE

\* These are the items from some rank on, or up to some rank.
StartSplits(t, start, a) ==
    a \in 0 .. t.len /\ \A i \in 1 .. t.len : FromStart(Items(t)[i], start) <=> a < i
EndSplits(t, end, b) ==
    b \in 0 .. t.len /\ \A i \in 1 .. t.len : UptoEnd(Items(t)[i], end) <=> i <= b

\* What a bound is.
LEMMA BoundIs ==
    ASSUME NEW bound \in Bounds
    PROVE  \/ bound = Unbounded /\ bound[1] = "unbounded"
           \/ \E k \in Keys : /\ bound[2] = k /\ k \in Int /\ bound # Unbounded
                              /\ \/ bound = Included(k) /\ bound[1] = "included"
                                 \/ bound = Excluded(k) /\ bound[1] = "excluded"
<1>1. CASE bound = Unbounded
  BY <1>1 DEF Unbounded
<1>2. ASSUME NEW k \in Keys, bound = Included(k)
      PROVE  bound[2] = k /\ bound[1] = "included" /\ bound # Unbounded
  BY <1>2 DEF Included, Unbounded
<1>3. ASSUME NEW k \in Keys, bound = Excluded(k)
      PROVE  bound[2] = k /\ bound[1] = "excluded" /\ bound # Unbounded
  BY <1>3 DEF Excluded, Unbounded
<1>4. \A k \in Keys : k \in Int
  BY KeyAssumption
<1> QED
  BY <1>1, <1>2, <1>3, <1>4 DEF Bounds

\* A key divides the items at its rank, and at the one behind if it is there.
LEMMA KeySplits ==
    ASSUME NEW t \in Trees, NEW k \in Int
    PROVE  LET rank == RankIn(ItemSet(t.inner), k) IN
           /\ rank \in 0 .. t.len
           /\ \A i \in 1 .. t.len : Key(Items(t)[i]) \in Int /\ (Key(Items(t)[i]) < k <=> i <= rank)
           /\ HasKey(t.inner, k) =>
                rank + 1 \in 0 .. t.len /\ \A i \in 1 .. t.len : Key(Items(t)[i]) <= k <=> i <= rank + 1
<1> DEFINE rank == RankIn(ItemSet(t.inner), k)
           items == Items(t)
<1>1. /\ items \in Node /\ Sorted(items) /\ ToSet(items) = ItemSet(t.inner)
      /\ Len(items) = t.len /\ t.len \in Nat
  BY ItemsByRank
<1>2. rank \in 0 .. t.len /\ \A i \in 1 .. t.len : Key(items[i]) < k <=> i <= rank
  BY <1>1, NodeByRank
<1>3. \A i \in 1 .. t.len : Key(items[i]) \in Int
  BY <1>1, NodeType
<1>4. ASSUME HasKey(t.inner, k)
      PROVE  rank + 1 \in 0 .. t.len /\ \A i \in 1 .. t.len : Key(items[i]) <= k <=> i <= rank + 1
  <2>1. PICK x \in ItemSet(t.inner) : Key(x) = k
    BY <1>4 DEF HasKey
  <2>2. rank \in Nat /\ rank < t.len /\ items[rank + 1] = x
    BY <2>1, ItemsByRank
  <2> HIDE DEF rank, items
  <2>3. PICK p \in 1 .. t.len : p = rank + 1
    BY <1>1, <2>2
  <2>4. \A i \in 1 .. t.len : Key(items[p]) < Key(items[i]) <=> p < i
    BY <1>1, SortedPlaces
  <2>5. ASSUME NEW i \in 1 .. t.len PROVE Key(items[i]) <= k <=> i <= rank + 1
    <3>1. Key(items[p]) = k /\ Key(items[i]) \in Int
      BY <1>3, <2>1, <2>2, <2>3
    <3>2. k < Key(items[i]) <=> p < i
      BY <2>4, <3>1
    <3> QED
      BY <1>1, <2>3, <3>1, <3>2
  <2>6. rank + 1 \in 0 .. t.len
    BY <1>1, <2>2
  <2> QED
    BY <2>5, <2>6
<1> QED
  BY <1>2, <1>3, <1>4

\* The start and the end of a range do not cross.
LEMMA BoundsCross ==
    ASSUME NEW t \in Trees, NEW start \in Bounds, NEW end \in Bounds, Ordered(start, end),
           NEW a, NEW b, StartSplits(t, start, a), EndSplits(t, end, b)
    PROVE  a <= b
<1>1. t.len \in Nat /\ a \in 0 .. t.len /\ b \in 0 .. t.len
  BY TreesType DEF StartSplits, EndSplits
<1> SUFFICES ASSUME a > b PROVE FALSE
  BY <1>1
<1>2. a \in 1 .. t.len /\ ~(a < a) /\ ~(a <= b)
  BY <1>1
<1> DEFINE x == Items(t)[a]
<1>3. ~FromStart(x, start) /\ ~UptoEnd(x, end)
  BY <1>2 DEF StartSplits, EndSplits
<1>4. Key(x) \in Int
  BY <1>2, ItemsByRank, NodeType
<1> HIDE DEF x
<1>5. PICK s \in Keys : /\ start[2] = s /\ s \in Int /\ start # Unbounded
                        /\ \/ start[1] = "included" /\ Key(x) < s
                           \/ start[1] = "excluded" /\ Key(x) <= s
  <2>1. start # Unbounded
    BY <1>3 DEF FromStart, Unbounded
  <2>2. PICK s \in Keys : /\ start[2] = s /\ s \in Int /\ start # Unbounded
                          /\ start[1] = "included" \/ start[1] = "excluded"
    BY <2>1, BoundIs
  <2> QED
    BY <1>3, <1>4, <2>2 DEF FromStart
<1>6. PICK e \in Keys : /\ end[2] = e /\ e \in Int /\ end # Unbounded
                        /\ \/ end[1] = "included" /\ e < Key(x)
                           \/ end[1] = "excluded" /\ e <= Key(x)
  <2>1. end # Unbounded
    BY <1>3 DEF UptoEnd, Unbounded
  <2>2. PICK e \in Keys : /\ end[2] = e /\ e \in Int /\ end # Unbounded
                          /\ end[1] = "included" \/ end[1] = "excluded"
    BY <2>1, BoundIs
  <2> QED
    BY <1>3, <1>4, <2>2 DEF UptoEnd
<1>7. /\ s <= e
      /\ ~(s = e /\ start[1] = "excluded" /\ end[1] = "excluded")
  BY <1>5, <1>6 DEF Ordered
<1> QED
  BY <1>4, <1>5, <1>6, <1>7

\* What is wanted of a range are the items between the ranks of its bounds.
LEMMA WantedIs ==
    ASSUME tree \in Trees, NEW start, NEW end, NEW a \in Nat, NEW b \in Nat, a <= b,
           a < b => b <= tree.len,
           \A i \in 1 .. tree.len : Within(Items(tree)[i], start, end) <=> a < i /\ i <= b
    PROVE  LET w == Wanted(start, end) IN
           w \in Node /\ Len(w) = b - a /\ Shows(tree, "entries", w, a)
<1> DEFINE items == Items(tree)
           G == {i \in 1 .. tree.len : Within(items[i], start, end)}
           w == Wanted(start, end)
           r == [i \in DOMAIN items |-> IF i \in G THEN <<items[i]>> ELSE <<>>]
<1>1. /\ items \in Node /\ Sorted(items) /\ Len(items) = tree.len /\ tree.len \in Nat
      /\ DOMAIN items = 1 .. tree.len
  BY ItemsByRank
<1>2. w = FlattenSeq(r)
  <2>1. [i \in DOMAIN items |-> IF Within(items[i], start, end) THEN <<items[i]>> ELSE <<>>] = r
    BY <1>1
  <2> QED
    BY <2>1 DEF Wanted
<1>3. w \in Node /\ Sorted(w) /\ ToSet(w) = {items[i] : i \in G}
  <2>1. G \in SUBSET (1 .. Len(items))
    BY <1>1
  <2> HIDE DEF G, items
  <2> QED
    BY <1>1, <1>2, <2>1, PickedOut
<1>4. \A i : i \in G <=> i \in 1 .. tree.len /\ a < i /\ i <= b
  OBVIOUS
<1>5. Len(w) \in Nat /\ \A j \in 1 .. Len(w) : w[j] \in ToSet(w)
  BY <1>3, NodeType
<1> HIDE DEF w, r, G, items
<1>6. \A x : ShownBy("entries", x) = x
  BY DEF ShownBy, AsEntry
<1>7. CASE a = b
  <2>1. G = {}
    BY <1>1, <1>4, <1>7
  <2>2. \A x : x \notin ToSet(w)
    BY <1>3, <2>1
  <2>3. Len(w) = 0
    <3>1. 1 \notin 1 .. Len(w)
      BY <1>5, <2>2
    <3> QED
      BY <1>5, <3>1
  <2> QED
    BY <1>3, <1>7, <2>3 DEF Shows, w
<1>8. CASE a < b
  <2>1. a + 1 \in 1 .. Len(items) + 1 /\ b \in 0 .. Len(items) /\ a + 1 <= b + 1
    BY <1>1, <1>8
  <2> DEFINE v == SubSeq(items, a + 1, b)
  <2>2. /\ v \in Node /\ Sorted(v) /\ Len(v) = b - (a + 1) + 1
        /\ \A i \in 1 .. b - (a + 1) + 1 : v[i] = items[a + 1 + i - 1]
        /\ \A x : x \in ToSet(v) <=> \E i \in a + 1 .. b : x = items[i]
    BY <1>1, <2>1, SubNode
  <2> HIDE DEF v
  <2>3. ToSet(v) = ToSet(w)
    <3>1. \A i : i \in G <=> i \in a + 1 .. b
      BY <1>1, <1>4, <1>8
    <3> QED
      BY <1>3, <2>2, <3>1
  <2>4. Len(w) = b - a /\ \A j \in 1 .. Len(w) : w[j] = items[a + j]
    <3>1. Len(v) = Len(w) /\ \A i \in 1 .. Len(v) : v[i] = w[i]
      BY <1>3, <2>2, <2>3, OneSortedNode
    <3>2. b - (a + 1) + 1 = b - a /\ \A i \in 1 .. b - a : a + 1 + i - 1 = a + i
      OBVIOUS
    <3> QED
      BY <2>2, <3>1, <3>2
  <2>5. a + Len(w) <= tree.len
    BY <1>1, <1>8, <2>4
  <2> QED
    BY <1>3, <1>6, <2>4, <2>5 DEF Shows, w, items
<1> QED
  BY <1>7, <1>8

\* The start as a rank.
LEMMA StartAsRank ==
    ASSUME NEW t \in Trees, NEW k \in Int, NEW start
    PROVE  LET rank == RankIn(ItemSet(t.inner), k)
               above == RankIn(ItemSet(t.inner), k + 1) IN
           /\ start[1] = "included" /\ start[2] = k => StartSplits(t, start, rank)
           /\ start[1] = "excluded" /\ start[2] = k => StartSplits(t, start, above)
           /\ start[1] = "excluded" /\ start[2] = k /\ HasKey(t.inner, k)
                => StartSplits(t, start, rank + 1)
           /\ start[1] = "unbounded" => StartSplits(t, start, 0)
<1> DEFINE rank == RankIn(ItemSet(t.inner), k)
           above == RankIn(ItemSet(t.inner), k + 1)
<1>1. t.len \in Nat /\ k + 1 \in Int
  BY TreesType
<1>2. /\ rank \in 0 .. t.len
      /\ \A i \in 1 .. t.len : Key(Items(t)[i]) \in Int /\ (Key(Items(t)[i]) < k <=> i <= rank)
      /\ HasKey(t.inner, k) =>
           rank + 1 \in 0 .. t.len /\ \A i \in 1 .. t.len : Key(Items(t)[i]) <= k <=> i <= rank + 1
  BY KeySplits
<1>3. /\ above \in 0 .. t.len
      /\ \A i \in 1 .. t.len : Key(Items(t)[i]) < k + 1 <=> i <= above
  BY <1>1, KeySplits
<1> HIDE DEF rank, above
<1>4. CASE start[1] = "included" /\ start[2] = k
  <2>1. \A i \in 1 .. t.len : k <= Key(Items(t)[i]) <=> rank < i
    BY <1>1, <1>2
  <2>2. \A x : FromStart(x, start) <=> k <= Key(x)
    BY <1>4 DEF FromStart
  <2> QED
    BY <1>2, <1>4, <2>1, <2>2 DEF StartSplits, rank
<1>5. CASE start[1] = "excluded" /\ start[2] = k
  <2>1. \A i \in 1 .. t.len : k < Key(Items(t)[i]) <=> above < i
    BY <1>1, <1>2, <1>3
  <2>2. \A x : FromStart(x, start) <=> k < Key(x)
    BY <1>5 DEF FromStart
  <2>3. StartSplits(t, start, above)
    BY <1>3, <2>1, <2>2 DEF StartSplits
  <2>4. ASSUME HasKey(t.inner, k) PROVE StartSplits(t, start, rank + 1)
    <3>1. \A i \in 1 .. t.len : k < Key(Items(t)[i]) <=> rank + 1 < i
      BY <1>1, <1>2, <2>4
    <3> QED
      BY <1>2, <2>2, <2>4, <3>1 DEF StartSplits
  <2> QED
    BY <1>5, <2>3, <2>4 DEF rank, above
<1>6. CASE start[1] = "unbounded"
  <2>1. \A x : FromStart(x, start)
    BY <1>6 DEF FromStart
  <2>2. 0 \in 0 .. t.len /\ \A i \in 1 .. t.len : 0 < i
    BY <1>1
  <2> QED
    BY <1>6, <2>1, <2>2 DEF StartSplits
<1> QED
  BY <1>4, <1>5, <1>6 DEF rank, above

\* The end as a rank.
LEMMA EndAsRank ==
    ASSUME NEW t \in Trees, NEW k \in Int, NEW end
    PROVE  LET rank == RankIn(ItemSet(t.inner), k) IN
           /\ rank \in 0 .. t.len
           /\ end[1] = "included" /\ end[2] = k /\ HasKey(t.inner, k)
                => EndSplits(t, end, rank + 1)
           /\ end[1] = "excluded" /\ end[2] = k => EndSplits(t, end, rank)
           /\ end[1] = "unbounded" => EndSplits(t, end, t.len)
<1> DEFINE rank == RankIn(ItemSet(t.inner), k)
<1>1. t.len \in Nat
  BY TreesType
<1>2. /\ rank \in 0 .. t.len
      /\ \A i \in 1 .. t.len : Key(Items(t)[i]) \in Int /\ (Key(Items(t)[i]) < k <=> i <= rank)
      /\ HasKey(t.inner, k) =>
           rank + 1 \in 0 .. t.len /\ \A i \in 1 .. t.len : Key(Items(t)[i]) <= k <=> i <= rank + 1
  BY KeySplits
<1> HIDE DEF rank
<1>3. CASE end[1] = "included" /\ end[2] = k
  <2>1. \A x : UptoEnd(x, end) <=> Key(x) <= k
    BY <1>3 DEF UptoEnd
  <2> QED
    BY <1>2, <1>3, <2>1 DEF EndSplits, rank
<1>4. CASE end[1] = "excluded" /\ end[2] = k
  <2>1. \A x : UptoEnd(x, end) <=> Key(x) < k
    BY <1>4 DEF UptoEnd
  <2> QED
    BY <1>2, <1>4, <2>1 DEF EndSplits, rank
<1>5. CASE end[1] = "unbounded"
  <2>1. \A x : UptoEnd(x, end)
    BY <1>5 DEF UptoEnd
  <2>2. t.len \in 0 .. t.len /\ \A i \in 1 .. t.len : i <= t.len
    BY <1>1
  <2> QED
    BY <1>2, <1>5, <2>1, <2>2 DEF EndSplits, rank
<1> QED
  BY <1>2, <1>3, <1>4, <1>5 DEF rank

\* What a range yields that stands around the ranks of its bounds.
LEMMA RangeStarts ==
    ASSUME tree \in Trees, NEW start \in Bounds, NEW end \in Bounds, Ordered(start, end),
           NEW from \in Int, NEW to \in Int, StartSplits(tree, start, from), EndSplits(tree, end, to + 1)
    PROVE  /\ to >= 0 => RangeSound(tree, "entries", RangeIdx(tree, Included(from), Included(to)),
                                    Wanted(start, end), <<>>, <<>>, FALSE)
           /\ to < 0 => RangeSound(tree, "entries", RangeIdx(tree, Included(1), Included(0)),
                                   Wanted(start, end), <<>>, <<>>, FALSE)
<1> DEFINE w == Wanted(start, end)
           Sound(iter) == RangeSound(tree, "entries", iter, w, <<>>, <<>>, FALSE)
<1>1. /\ tree.len \in Nat /\ from \in 0 .. tree.len /\ to + 1 \in 0 .. tree.len
      /\ from <= to + 1
  BY TreesType, BoundsCross DEF StartSplits, EndSplits
<1>2. \A i \in 1 .. tree.len : Within(Items(tree)[i], start, end) <=> from < i /\ i <= to + 1
  <2>1. \A x : Within(x, start, end) <=> FromStart(x, start) /\ UptoEnd(x, end)
    BY DEF Within, FromStart, UptoEnd
  <2> QED
    BY <2>1 DEF StartSplits, EndSplits
<1>3. ASSUME NEW a \in Nat, NEW b \in Nat, NEW iter, a <= b, w \in Node, Len(w) = b - a,
             Shows(tree, "entries", w, a), RangeAt(tree, iter, a, b)
      PROVE  Sound(iter)
  <2> HIDE DEF w
  <2>1. Yields(w, <<>>, <<>>, 0, 0)
    BY <1>3, YieldsNothing DEF Node
  <2>2. a + 0 = a /\ a + Len(w) - 0 = b
    BY <1>3
  <2>3. RangeAt(tree, iter, a + 0, a + Len(w) - 0)
    BY <1>3, <2>2
  <2> QED
    BY <1>3, <2>1, <2>3 DEF RangeSound
<1>4. ASSUME to >= 0 PROVE Sound(RangeIdx(tree, Included(from), Included(to)))
  <2>1. PICK b \in Nat : b = to + 1
    BY <1>4
  <2>2. /\ from \in Nat /\ to \in Nat /\ (from <= to => to < tree.len)
        /\ from <= b /\ (from < b => b <= tree.len) /\ from <= to + 1
    BY <1>1, <1>4, <2>1
  <2>3. RangeAt(tree, RangeIdx(tree, Included(from), Included(to)), from, b)
    BY <2>1, <2>2, RangeIdxAt
  <2>4. \A i \in 1 .. tree.len : Within(Items(tree)[i], start, end) <=> from < i /\ i <= b
    BY <1>2, <2>1
  <2>5. w \in Node /\ Len(w) = b - from /\ Shows(tree, "entries", w, from)
    BY <2>2, <2>4, WantedIs
  <2> HIDE DEF w, Sound
  <2> QED
    BY <1>3, <2>2, <2>3, <2>5
<1>5. ASSUME to < 0 PROVE Sound(RangeIdx(tree, Included(1), Included(0)))
  <2>1. PICK one \in Nat : one = 1
    OBVIOUS
  <2>2. PICK nil \in Nat : nil = 0
    OBVIOUS
  <2>3. nil + 1 = one /\ one <= one /\ one <= nil + 1 /\ ~(one <= nil) /\ ~(one < one)
    BY <2>1, <2>2
  <2>4. RangeAt(tree, RangeIdx(tree, Included(one), Included(nil)), one, one)
    BY <2>3, RangeIdxAt
  <2>5. \A i \in 1 .. tree.len : Within(Items(tree)[i], start, end) <=> one < i /\ i <= one
    <3>1. \A i \in 1 .. tree.len : ~(i <= to + 1) /\ ~(one < i /\ i <= one)
      BY <1>1, <1>5, <2>1
    <3> QED
      BY <1>2, <3>1
  <2>6. w \in Node /\ Len(w) = one - one /\ Shows(tree, "entries", w, one)
    BY <2>3, <2>5, WantedIs
  <2> HIDE DEF w, Sound
  <2>7. Sound(RangeIdx(tree, Included(one), Included(nil)))
    BY <1>3, <2>3, <2>4, <2>6
  <2> QED
    BY <2>1, <2>2, <2>7
<1> HIDE DEF Sound
<1>6. \A iter : Sound(iter) <=> RangeSound(tree, "entries", iter, w, <<>>, <<>>, FALSE)
  BY DEF Sound
<1> QED
  BY <1>4, <1>5, <1>6

\* BTreeMap::range starts around the items of its bounds, if an included end is there.
LEMMA MapRangeStarts ==
    ASSUME tree \in Trees, NEW start \in Bounds, NEW end \in Bounds, Ordered(start, end),
           end[1] = "included" => ContainsCmp(tree, end[2])
    PROVE  RangeSound(tree, "entries", MapRange(tree, start, end), Wanted(start, end),
                      <<>>, <<>>, FALSE)
<1> DEFINE first == CASE start[1] = "included" -> RankCmp(tree, start[2])
                      [] start[1] = "excluded" -> RankCmp(tree, start[2] + 1)
                      [] OTHER -> 0
           last == CASE end[1] = "included" -> RankCmp(tree, end[2])
                     [] end[1] = "excluded" -> RankCmp(tree, end[2]) - 1
                     [] OTHER -> tree.len - 1
<1>1. MapRange(tree, start, end)
        = IF last < 0 THEN RangeIdx(tree, Included(1), Included(0))
          ELSE RangeIdx(tree, Included(first), Included(last))
  BY DEF MapRange, RangeToIdx
<1>2. tree.len \in Nat /\ tree.len - 1 + 1 = tree.len
  BY TreesType
<1>3. first \in Int /\ StartSplits(tree, start, first)
  <2>1. CASE start = Unbounded /\ start[1] = "unbounded"
    <3>1. first = 0
      BY <2>1
    <3>2. PICK zero \in Int : zero = 0
      OBVIOUS
    <3> QED
      BY <2>1, <3>1, <3>2, StartAsRank
  <2>2. ASSUME NEW k \in Keys, start[2] = k, k \in Int, start[1] = "included"
        PROVE  first \in Int /\ StartSplits(tree, start, first)
    <3>1. first = RankIn(ItemSet(tree.inner), k)
      BY <2>2, RanksAre
    <3> HIDE DEF first
    <3>2. StartSplits(tree, start, first)
      BY <2>2, <3>1, StartAsRank
    <3> QED
      BY <1>2, <3>2 DEF StartSplits
  <2>3. ASSUME NEW k \in Keys, start[2] = k, k \in Int, start[1] = "excluded"
        PROVE  first \in Int /\ StartSplits(tree, start, first)
    <3>1. k + 1 \in Int
      BY <2>3
    <3>2. first = RankIn(ItemSet(tree.inner), k + 1)
      BY <2>3, <3>1, RanksAre
    <3> HIDE DEF first
    <3>3. StartSplits(tree, start, first)
      BY <2>3, <3>2, StartAsRank
    <3> QED
      BY <1>2, <3>3 DEF StartSplits
  <2> HIDE DEF first
  <2> QED
    BY <2>1, <2>2, <2>3, BoundIs
<1>4. last \in Int /\ EndSplits(tree, end, last + 1)
  <2>1. CASE end = Unbounded /\ end[1] = "unbounded"
    <3>1. last = tree.len - 1
      BY <2>1
    <3>2. PICK zero \in Int : zero = 0
      OBVIOUS
    <3>3. EndSplits(tree, end, tree.len)
      BY <2>1, <3>2, EndAsRank
    <3> QED
      BY <1>2, <3>1, <3>3
  <2>2. ASSUME NEW k \in Keys, end[2] = k, k \in Int, end[1] = "included"
        PROVE  last \in Int /\ EndSplits(tree, end, last + 1)
    <3>1. last = RankIn(ItemSet(tree.inner), k)
      BY <2>2, RanksAre
    <3>2. HasKey(tree.inner, k)
      BY <2>2, HasKeyIs
    <3> HIDE DEF last
    <3>3. last \in 0 .. tree.len /\ EndSplits(tree, end, last + 1)
      BY <2>2, <3>1, <3>2, EndAsRank
    <3> QED
      BY <1>2, <3>3
  <2>3. ASSUME NEW k \in Keys, end[2] = k, k \in Int, end[1] = "excluded"
        PROVE  last \in Int /\ EndSplits(tree, end, last + 1)
    <3>1. PICK rank : rank = RankIn(ItemSet(tree.inner), k)
      OBVIOUS
    <3>2. last = rank - 1
      BY <2>3, <3>1, RanksAre
    <3>3. rank \in 0 .. tree.len /\ EndSplits(tree, end, rank)
      BY <2>3, <3>1, EndAsRank
    <3>4. last \in Int /\ last + 1 = rank
      <4> HIDE DEF last
      <4> QED
        BY <1>2, <3>2, <3>3
    <3> QED
      BY <3>3, <3>4
  <2> HIDE DEF last
  <2> QED
    BY <2>1, <2>2, <2>3, BoundIs
<1> HIDE DEF first, last
<1>5. CASE last < 0
  BY <1>1, <1>3, <1>4, <1>5, RangeStarts
<1>6. CASE ~(last < 0)
  <2>1. last >= 0
    BY <1>4, <1>6
  <2> QED
    BY <1>1, <1>3, <1>4, <1>6, <2>1, RangeStarts
<1> QED
  BY <1>5, <1>6

\* BTreeSet::range does, if moreover an excluded start is there and an excluded end is
\* above the first item.
LEMMA SetRangeStarts ==
    ASSUME tree \in Trees, NEW start \in Bounds, NEW end \in Bounds, Ordered(start, end),
           end[1] = "included" => ContainsKey(tree, end[2]),
           start[1] = "excluded" => ContainsKey(tree, start[2]),
           end[1] = "excluded" => TreeRank(tree, end[2]) > 0
    PROVE  RangeSound(tree, "entries", SetRange(tree, start, end), Wanted(start, end),
                      <<>>, <<>>, FALSE)
<1> DEFINE first == CASE start[1] = "included" -> TreeRank(tree, start[2])
                      [] start[1] = "excluded" -> TreeRank(tree, start[2]) + 1
                      [] OTHER -> 0
           last == CASE end[1] = "included" -> TreeRank(tree, end[2])
                     [] end[1] = "excluded" -> Max({0, TreeRank(tree, end[2]) - 1})
                     [] OTHER -> Max({0, tree.len - 1})
<1>1. SetRange(tree, start, end) = RangeIdx(tree, Included(first), Included(last))
  BY DEF SetRange
<1>2. tree.len \in Nat /\ tree.len - 1 \in Int /\ tree.len - 1 + 1 = tree.len
  BY TreesType
<1>3. first \in Int /\ StartSplits(tree, start, first)
  <2>1. CASE start = Unbounded /\ start[1] = "unbounded"
    <3>1. first = 0
      BY <2>1
    <3>2. PICK zero \in Int : zero = 0
      OBVIOUS
    <3> QED
      BY <2>1, <3>1, <3>2, StartAsRank
  <2>2. ASSUME NEW k \in Keys, start[2] = k, k \in Int, start[1] = "included"
        PROVE  first \in Int /\ StartSplits(tree, start, first)
    <3>1. first = RankIn(ItemSet(tree.inner), k)
      BY <2>2, RanksAre
    <3> HIDE DEF first
    <3>2. StartSplits(tree, start, first)
      BY <2>2, <3>1, StartAsRank
    <3> QED
      BY <1>2, <3>2 DEF StartSplits
  <2>3. ASSUME NEW k \in Keys, start[2] = k, k \in Int, start[1] = "excluded"
        PROVE  first \in Int /\ StartSplits(tree, start, first)
    <3>1. first = RankIn(ItemSet(tree.inner), k) + 1
      BY <2>3, RanksAre
    <3>2. HasKey(tree.inner, k)
      BY <2>3, HasKeyIs
    <3> HIDE DEF first
    <3>3. StartSplits(tree, start, first)
      BY <2>3, <3>1, <3>2, StartAsRank
    <3> QED
      BY <1>2, <3>3 DEF StartSplits
  <2> HIDE DEF first
  <2> QED
    BY <2>1, <2>2, <2>3, BoundIs
<1>4. \/ last \in Int /\ last >= 0 /\ EndSplits(tree, end, last + 1)
      \/ end[1] = "unbounded" /\ tree.len = 0 /\ last = 0
  <2>1. CASE end = Unbounded /\ end[1] = "unbounded"
    <3>1. last = Max({0, tree.len - 1})
      BY <2>1
    <3>2. PICK zero \in Int : zero = 0
      OBVIOUS
    <3>3. EndSplits(tree, end, tree.len)
      BY <2>1, <3>2, EndAsRank
    <3>4. last = IF zero >= tree.len - 1 THEN zero ELSE tree.len - 1
      BY <1>2, <3>1, <3>2, MinMaxOfTwo
    <3> HIDE DEF last
    <3>5. CASE tree.len = 0
      BY <2>1, <3>2, <3>4, <3>5
    <3>6. CASE tree.len # 0
      <4>1. last = tree.len - 1 /\ tree.len - 1 >= 0
        BY <1>2, <3>2, <3>4, <3>6
      <4> QED
        BY <1>2, <3>3, <4>1
    <3> QED
      BY <3>5, <3>6
  <2>2. ASSUME NEW k \in Keys, end[2] = k, k \in Int, end[1] = "included"
        PROVE  last \in Int /\ last >= 0 /\ EndSplits(tree, end, last + 1)
    <3>1. last = RankIn(ItemSet(tree.inner), k)
      BY <2>2, RanksAre
    <3>2. HasKey(tree.inner, k)
      BY <2>2, HasKeyIs
    <3> HIDE DEF last
    <3>3. last \in 0 .. tree.len /\ EndSplits(tree, end, last + 1)
      BY <2>2, <3>1, <3>2, EndAsRank
    <3> QED
      BY <1>2, <3>3
  <2>3. ASSUME NEW k \in Keys, end[2] = k, k \in Int, end[1] = "excluded"
        PROVE  last \in Int /\ last >= 0 /\ EndSplits(tree, end, last + 1)
    <3>1. PICK rank : rank = RankIn(ItemSet(tree.inner), k)
      OBVIOUS
    <3>2. rank = TreeRank(tree, k) /\ rank > 0
      BY <2>3, <3>1, RanksAre
    <3>3. rank \in 0 .. tree.len /\ EndSplits(tree, end, rank)
      BY <2>3, <3>1, EndAsRank
    <3>4. last = Max({0, rank - 1})
      BY <2>3, <3>2
    <3> HIDE DEF last
    <3>5. PICK zero \in Int : zero = 0
      OBVIOUS
    <3>6. rank - 1 \in Int
      BY <1>2, <3>3
    <3>7. last = IF zero >= rank - 1 THEN zero ELSE rank - 1
      BY <3>4, <3>5, <3>6, MinMaxOfTwo
    <3>8. last \in Int /\ last >= 0 /\ last + 1 = rank
      BY <1>2, <3>2, <3>3, <3>5, <3>7
    <3> QED
      BY <3>3, <3>8
  <2> HIDE DEF last
  <2> QED
    BY <2>1, <2>2, <2>3, BoundIs
<1> HIDE DEF first, last
<1>5. CASE last \in Int /\ last >= 0 /\ EndSplits(tree, end, last + 1)
  BY <1>1, <1>3, <1>5, RangeStarts
<1>6. CASE end[1] = "unbounded" /\ tree.len = 0 /\ last = 0
  <2>1. first = 0
    BY <1>3, <1>6 DEF StartSplits
  <2>2. OnNothing(tree, SetRange(tree, start, end))
    BY <1>1, <1>6, <2>1, RangeIdxNothing
  <2>3. PICK zero \in Nat : zero = 0
    OBVIOUS
  <2>4. \A i \in 1 .. tree.len : Within(Items(tree)[i], start, end) <=> zero < i /\ i <= zero
    BY <1>6
  <2>5. ~(zero < zero) /\ zero <= zero /\ zero - zero = 0
    BY <2>3
  <2>6. Wanted(start, end) \in Node /\ Len(Wanted(start, end)) = 0
    BY <2>4, <2>5, WantedIs
  <2>7. Wanted(start, end) = <<>>
    BY <2>6, EmptyNode
  <2> QED
    BY <2>2, <2>7 DEF RangeSound
<1> QED
  BY <1>4, <1>5, <1>6

-----------------------------------------------------------------------------
(* Iterators as states *)

\* An iterator with what it is to yield and what it has.
IterOf(kind, iter, want, exact, front, back, ended) ==
    [kind |-> kind, iter |-> iter, want |-> want, exact |-> exact,
     front |-> front, back |-> back, ended |-> ended]

\* It stands at what is left, where the docs say what it yields.
IterSound(kind, iter, want, exact, front, back, ended) ==
    IF kind = "iter_mut" THEN exact = FALSE /\ MutSound(tree, iter, want, front, back)
    ELSE exact => RangeSound(tree, kind, iter, want, front, back, ended)

\* The invariant of the iterators.
OrderInv ==
    Iterating =>
      /\ it = IterOf(it.kind, it.iter, it.want, it.exact, it.front, it.back, it.ended)
      /\ it.kind \in {"entries", "keys", "values", "iter_mut"} /\ it.ended \in BOOLEAN
      /\ IterSound(it.kind, it.iter, it.want, it.exact, it.front, it.back, it.ended)

\* Its fields.
LEMMA IterOfFields ==
    ASSUME NEW kind, NEW iter, NEW want, NEW exact, NEW front, NEW back, NEW ended,
           NEW i, i = IterOf(kind, iter, want, exact, front, back, ended)
    PROVE  /\ i.kind = kind /\ i.iter = iter /\ i.want = want /\ i.exact = exact
           /\ i.front = front /\ i.back = back /\ i.ended = ended
  BY DEF IterOf

\* An iterator stands where it should after a call that leaves it so.
LEMMA OrderInvNext ==
    ASSUME NEW kind \in {"entries", "keys", "values", "iter_mut"}, NEW iter, NEW want, NEW exact,
           NEW front, NEW back, NEW ended \in BOOLEAN, tree' = tree,
           it' = IterOf(kind, iter, want, exact, front, back, ended),
           IterSound(kind, iter, want, exact, front, back, ended)
    PROVE  OrderInv'
<1>1. PICK j : j = it'
  OBVIOUS
<1>2. /\ j.kind = kind /\ j.iter = iter /\ j.want = want /\ j.exact = exact
      /\ j.front = front /\ j.back = back /\ j.ended = ended
      /\ j = IterOf(kind, iter, want, exact, front, back, ended)
  BY <1>1, IterOfFields
<1>3. IterSound(kind, iter, want, exact, front, back, ended)'
  BY DEF IterSound
<1> QED
  BY <1>1, <1>2, <1>3 DEF OrderInv

\* An iterator that is opened starts with nothing yielded.
LEMMA OpensSound ==
    ASSUME NEW kind \in {"entries", "keys", "values", "iter_mut"}, NEW iter, NEW want, NEW exact,
           Opens(kind, iter, want, exact),
           IterSound(kind, iter, want, exact, <<>>, <<>>, FALSE)
    PROVE  OrderInv'
<1>1. it' = IterOf(kind, iter, want, exact, <<>>, <<>>, FALSE) /\ tree' = tree
  BY DEF Opens, IterOf
<1>2. FALSE \in BOOLEAN
  OBVIOUS
<1> QED
  BY <1>1, <1>2, OrderInvNext

\* What iter, keys, values and iter_mut open.
LEMMA AllSound ==
    ASSUME tree \in Trees, NEW want, want = [i \in 1 .. tree.len |-> want[i]]
    PROVE  /\ \A kind : (\A i \in 1 .. tree.len : want[i] = ShownBy(kind, Items(tree)[i]))
                => RangeSound(tree, kind, NewIter(tree), want, <<>>, <<>>, FALSE)
           /\ want = Items(tree) => MutSound(tree, NewIterMut(tree), want, <<>>, <<>>)
<1>1. tree.len \in Nat
  BY TreesType
<1> DEFINE T == {want[i] : i \in 1 .. tree.len}
<1>2. want \in Seq(T) /\ Len(want) = tree.len
  <2>1. want \in [1 .. tree.len -> T]
    OBVIOUS
  <2> HIDE DEF T
  <2> QED
    BY <1>1, <2>1
<1> HIDE DEF T
<1>3. Yields(want, <<>>, <<>>, 0, 0)
  BY <1>2, YieldsNothing
<1>4. PICK nil \in Nat : nil = 0
  OBVIOUS
<1>5. nil + nil = nil /\ nil + Len(want) - nil = tree.len /\ tree.len - nil = tree.len
      /\ nil + Len(want) <= tree.len
  BY <1>1, <1>2, <1>4
<1>6. Yields(want, <<>>, <<>>, nil, nil)
  BY <1>3, <1>4
<1>7. ASSUME NEW kind, \A i \in 1 .. tree.len : want[i] = ShownBy(kind, Items(tree)[i])
      PROVE  RangeSound(tree, kind, NewIter(tree), want, <<>>, <<>>, FALSE)
  <2>1. \A j \in 1 .. tree.len : nil + j = j
    BY <1>1, <1>4
  <2>2. Shows(tree, kind, want, nil)
    BY <1>2, <1>5, <1>7, <2>1 DEF Shows
  <2>3. RangeAt(tree, NewIter(tree), nil, tree.len)
    BY <1>4, NewIterAt
  <2>4. RangeAt(tree, NewIter(tree), nil + nil, nil + Len(want) - nil)
    BY <1>5, <2>3
  <2> QED
    BY <1>6, <2>2, <2>4 DEF RangeSound
<1>8. ASSUME want = Items(tree) PROVE MutSound(tree, NewIterMut(tree), want, <<>>, <<>>)
  <2>1. MutAt(tree, NewIterMut(tree), nil, tree.len - nil)
    BY <1>4, <1>5, NewIterMutAt
  <2> QED
    BY <1>6, <1>8, <2>1 DEF MutSound
<1> QED
  BY <1>7, <1>8

\* A step of an iterator changes its position, what it has yielded and whether it has ended, ...
Stepped(i, side, x, e, y) == [i EXCEPT !.iter = x, !.ended = e, ![side] = y]

\* A step changes what has come from one end, and no more.
LEMMA IterOfStep ==
    ASSUME NEW kind, NEW iter, NEW want, NEW exact, NEW front, NEW back, NEW ended,
           NEW x, NEW e, NEW y
    PROVE  LET i == IterOf(kind, iter, want, exact, front, back, ended) IN
           /\ Stepped(i, "front", x, e, y) = IterOf(kind, x, want, exact, y, back, e)
           /\ Stepped(i, "back", x, e, y) = IterOf(kind, x, want, exact, front, y, e)
           /\ i["front"] = front /\ i["back"] = back
<1> DEFINE i == IterOf(kind, iter, want, exact, front, back, ended)
<1>1. /\ [i EXCEPT !.iter = x] = IterOf(kind, x, want, exact, front, back, ended)
      /\ [IterOf(kind, x, want, exact, front, back, ended) EXCEPT !.ended = e]
           = IterOf(kind, x, want, exact, front, back, e)
  BY DEF IterOf
<1>2. [IterOf(kind, x, want, exact, front, back, e) EXCEPT !["front"] = y]
        = IterOf(kind, x, want, exact, y, back, e)
  BY DEF IterOf
<1>3. [IterOf(kind, x, want, exact, front, back, e) EXCEPT !["back"] = y]
        = IterOf(kind, x, want, exact, front, y, e)
  BY DEF IterOf
<1>4. i["front"] = front /\ i["back"] = back
  BY DEF IterOf
<1> HIDE DEF i
<1>5. /\ [i EXCEPT !.iter = x, !.ended = e, !["front"] = y]
           = [[[i EXCEPT !.iter = x] EXCEPT !.ended = e] EXCEPT !["front"] = y]
      /\ [i EXCEPT !.iter = x, !.ended = e, !["back"] = y]
           = [[[i EXCEPT !.iter = x] EXCEPT !.ended = e] EXCEPT !["back"] = y]
  OBVIOUS
<1>6. Stepped(i, "front", x, e, y) = IterOf(kind, x, want, exact, y, back, e)
  BY <1>1, <1>2, <1>5 DEF Stepped
<1>7. Stepped(i, "back", x, e, y) = IterOf(kind, x, want, exact, front, y, e)
  BY <1>1, <1>3, <1>5 DEF Stepped
<1> QED
  BY <1>4, <1>6, <1>7 DEF i

\* ... and leaves the tree and what the iterator is for.
LEMMA StepsTo ==
    ASSUME NEW step, Iterating,
           it = IterOf(it.kind, it.iter, it.want, it.exact, it.front, it.back, it.ended)
    PROVE  \E e \in BOOLEAN :
             /\ e = (it.ended \/ step.item = None)
             /\ Steps("front", step) =>
                  /\ tree' = tree
                  /\ it' = IterOf(it.kind, step.iter, it.want, it.exact,
                                  Longer(it.kind, it.front, step), it.back, e)
             /\ Steps("back", step) =>
                  /\ tree' = tree
                  /\ it' = IterOf(it.kind, step.iter, it.want, it.exact,
                                  it.front, Longer(it.kind, it.back, step), e)
<1>1. \A x : Shown(x) = ShownBy(it.kind, x)
  BY DEF Shown, ShownBy
<1> DEFINE more(s) == IF step.item = None THEN s ELSE Append(s, Shown(step.item[1]))
<1>2. \A s : more(s) = Longer(it.kind, s, step)
  BY <1>1 DEF Longer
<1>3. PICK e \in BOOLEAN : e = (it.ended \/ step.item = None)
  OBVIOUS
<1>4. ASSUME Steps("front", step)
      PROVE  it' = IterOf(it.kind, step.iter, it.want, it.exact,
                          Longer(it.kind, it.front, step), it.back, e)
  <2>1. it' = Stepped(it, "front", step.iter, e, more(it["front"]))
    BY <1>3, <1>4 DEF Steps, Stepped
  <2> HIDE DEF more
  <2> QED
    BY <1>2, <2>1, IterOfStep
<1>5. ASSUME Steps("back", step)
      PROVE  it' = IterOf(it.kind, step.iter, it.want, it.exact,
                          it.front, Longer(it.kind, it.back, step), e)
  <2>1. it' = Stepped(it, "back", step.iter, e, more(it["back"]))
    BY <1>3, <1>5 DEF Steps, Stepped
  <2> HIDE DEF more
  <2> QED
    BY <1>2, <2>1, IterOfStep
<1>6. \A side : Steps(side, step) => tree' = tree
  BY DEF Steps
<1> QED
  BY <1>3, <1>4, <1>5, <1>6

\* There is no iterator at first.
LEMMA InitOrder == Init => OrderInv
  BY DEF Init, NoIter, Iterating, OrderInv

\* next and next_back of Iter and Range, and of IterMut, leave an iterator where it should be.
LEMMA StepsSound ==
    ASSUME tree \in Trees, OrderInv, Next \/ NextBack \/ MutNext \/ MutNextBack
    PROVE  OrderInv'
<1>1. Iterating
  BY DEF Next, NextBack, MutNext, MutNextBack, Iterating
<1>2. /\ it = IterOf(it.kind, it.iter, it.want, it.exact, it.front, it.back, it.ended)
      /\ it.kind \in {"entries", "keys", "values", "iter_mut"} /\ it.ended \in BOOLEAN
      /\ IterSound(it.kind, it.iter, it.want, it.exact, it.front, it.back, it.ended)
  BY <1>1 DEF OrderInv
<1>3. CASE Next
  <2>1. PICK step : step = IterNext(tree, it.iter)
    OBVIOUS
  <2>2. it.kind # "iter_mut" /\ Steps("front", step)
    BY <1>3, <2>1 DEF Next
  <2>3. PICK e \in BOOLEAN :
          /\ e = (it.ended \/ step.item = None)
          /\ tree' = tree
          /\ it' = IterOf(it.kind, step.iter, it.want, it.exact,
                          Longer(it.kind, it.front, step), it.back, e)
    BY <1>1, <1>2, <2>2, StepsTo
  <2>4. it.exact => RangeSound(tree, it.kind, step.iter, it.want,
                               Longer(it.kind, it.front, step), it.back, e)
    <3>1. it.exact => RangeSound(tree, it.kind, it.iter, it.want, it.front, it.back, it.ended)
      BY <1>2, <2>2 DEF IterSound
    <3> QED
      BY <1>2, <2>1, <2>3, <3>1, RangeSoundNext
  <2>5. IterSound(it.kind, step.iter, it.want, it.exact,
                  Longer(it.kind, it.front, step), it.back, e)
    BY <2>2, <2>4 DEF IterSound
  <2> QED
    BY <1>2, <2>3, <2>5, OrderInvNext
<1>4. CASE NextBack
  <2>1. PICK step : step = IterNextBack(tree, it.iter)
    OBVIOUS
  <2>2. it.kind # "iter_mut" /\ Steps("back", step)
    BY <1>4, <2>1 DEF NextBack
  <2>3. PICK e \in BOOLEAN :
          /\ e = (it.ended \/ step.item = None)
          /\ tree' = tree
          /\ it' = IterOf(it.kind, step.iter, it.want, it.exact,
                          it.front, Longer(it.kind, it.back, step), e)
    BY <1>1, <1>2, <2>2, StepsTo
  <2>4. it.exact => RangeSound(tree, it.kind, step.iter, it.want,
                               it.front, Longer(it.kind, it.back, step), e)
    <3>1. it.exact => RangeSound(tree, it.kind, it.iter, it.want, it.front, it.back, it.ended)
      BY <1>2, <2>2 DEF IterSound
    <3> QED
      BY <1>2, <2>1, <2>3, <3>1, RangeSoundNextBack
  <2>5. IterSound(it.kind, step.iter, it.want, it.exact,
                  it.front, Longer(it.kind, it.back, step), e)
    BY <2>2, <2>4 DEF IterSound
  <2> QED
    BY <1>2, <2>3, <2>5, OrderInvNext
<1>5. CASE MutNext
  <2>1. PICK step : step = IterMutNext(tree, it.iter)
    OBVIOUS
  <2>2. it.kind = "iter_mut" /\ Steps("front", step)
    BY <1>5, <2>1 DEF MutNext
  <2>3. PICK e \in BOOLEAN :
          /\ tree' = tree
          /\ it' = IterOf(it.kind, step.iter, it.want, it.exact,
                          Longer(it.kind, it.front, step), it.back, e)
    BY <1>1, <1>2, <2>2, StepsTo
  <2>4. it.exact = FALSE /\ MutSound(tree, it.iter, it.want, it.front, it.back)
    BY <1>2, <2>2 DEF IterSound
  <2>5. MutSound(tree, step.iter, it.want, Longer(it.kind, it.front, step), it.back)
    BY <2>1, <2>2, <2>4, MutSoundSteps
  <2>6. IterSound(it.kind, step.iter, it.want, it.exact,
                  Longer(it.kind, it.front, step), it.back, e)
    BY <2>2, <2>4, <2>5 DEF IterSound
  <2> QED
    BY <1>2, <2>3, <2>6, OrderInvNext
<1>6. CASE MutNextBack
  <2>1. PICK step : step = IterMutNextBack(tree, it.iter)
    OBVIOUS
  <2>2. it.kind = "iter_mut" /\ Steps("back", step)
    BY <1>6, <2>1 DEF MutNextBack
  <2>3. PICK e \in BOOLEAN :
          /\ tree' = tree
          /\ it' = IterOf(it.kind, step.iter, it.want, it.exact,
                          it.front, Longer(it.kind, it.back, step), e)
    BY <1>1, <1>2, <2>2, StepsTo
  <2>4. it.exact = FALSE /\ MutSound(tree, it.iter, it.want, it.front, it.back)
    BY <1>2, <2>2 DEF IterSound
  <2>5. MutSound(tree, step.iter, it.want, it.front, Longer(it.kind, it.back, step))
    BY <2>1, <2>2, <2>4, MutSoundSteps
  <2>6. IterSound(it.kind, step.iter, it.want, it.exact,
                  it.front, Longer(it.kind, it.back, step), e)
    BY <2>2, <2>4, <2>5 DEF IterSound
  <2> QED
    BY <1>2, <2>3, <2>6, OrderInvNext
<1> QED
  BY <1>3, <1>4, <1>5, <1>6

\* An iterator is opened where it should be, moves as it should, and while it lives the
\* tree stays as it is.
LEMMA OrderStays ==
    ASSUME TreeInv, OrderInv, [SetStep \/ MapStep \/ IteratorStep \/ Return]_vars
    PROVE  OrderInv'
<1>1. tree \in Trees
  BY DEF TreeInv
<1>2. CASE SetStep \/ MapStep
  <2>1. it = NoIter /\ UNCHANGED it
    BY <1>2 DEF SetStep, MapStep, SetInsert, SetReplace, SetTake, DoSplitOff, DoPop, DoPopIndex,
         DoRetain, DoAppend, DoClear, DoMapInsert, DoGetMut, DoOrInsert, DoAndModify,
         DoEntryInsert, DoMapRemove, DoEntryRemove, DoEndRemove, Does, Ready
  <2>2. it'.kind = "none"
    BY <2>1 DEF NoIter
  <2> QED
    BY <2>2 DEF OrderInv, Iterating
<1>3. CASE Return \/ UNCHANGED vars
  <2>1. it' = it /\ tree' = tree
    BY <1>3 DEF Return, vars
  <2> QED
    BY <2>1 DEF OrderInv, Iterating, IterSound
<1>4. CASE Drop
  BY <1>4 DEF Drop, NoIter, OrderInv, Iterating
<1>5. CASE (\E bound \in Bounds : OpenCursor(bound)) \/ CursorNext \/ CursorPrev \/ CursorIndex
  <2>1. CASE \E bound \in Bounds : OpenCursor(bound)
    BY <2>1 DEF OpenCursor, OrderInv, Iterating
  <2>2. CASE CursorNext \/ CursorPrev \/ CursorIndex
    <3>1. PICK idx : it.kind = "cursor" /\ it' = [it EXCEPT !.at = idx]
      BY <2>2 DEF CursorNext, CursorPrev, CursorIndex, MoveCursor
    <3>2. it'.kind = "cursor"
      BY <3>1
    <3> QED
      BY <3>2 DEF OrderInv, Iterating
  <2> QED
    BY <1>5, <2>1, <2>2
<1>6. CASE OpenIter
  <2>1. PICK want : want = Items(tree)
    OBVIOUS
  <2>2. want = [i \in 1 .. tree.len |-> want[i]]
    BY <1>1, <2>1, ItemsByRank, LenProperties DEF Node
  <2>3. \A i \in 1 .. tree.len : want[i] = ShownBy("entries", Items(tree)[i])
    BY <2>1 DEF ShownBy, AsEntry
  <2>4. RangeSound(tree, "entries", NewIter(tree), want, <<>>, <<>>, FALSE)
    BY <1>1, <2>2, <2>3, AllSound
  <2> QED
    BY <1>6, <2>1, <2>4, OpensSound DEF OpenIter, IterSound
<1>7. CASE OpenKeys
  <2>1. PICK want : want = [i \in 1 .. tree.len |-> AsKey(Items(tree)[i])]
    OBVIOUS
  <2>2. want = [i \in 1 .. tree.len |-> want[i]]
    BY <2>1
  <2>3. \A i \in 1 .. tree.len : want[i] = ShownBy("keys", Items(tree)[i])
    BY <2>1 DEF ShownBy
  <2>4. RangeSound(tree, "keys", NewIter(tree), want, <<>>, <<>>, FALSE)
    BY <1>1, <2>2, <2>3, AllSound
  <2> QED
    BY <1>7, <2>1, <2>4, OpensSound DEF OpenKeys, IterSound
<1>8. CASE OpenValues
  <2>1. PICK want : want = [i \in 1 .. tree.len |-> AsValue(Items(tree)[i])]
    OBVIOUS
  <2>2. want = [i \in 1 .. tree.len |-> want[i]]
    BY <2>1
  <2>3. \A i \in 1 .. tree.len : want[i] = ShownBy("values", Items(tree)[i])
    BY <2>1 DEF ShownBy
  <2>4. RangeSound(tree, "values", NewIter(tree), want, <<>>, <<>>, FALSE)
    BY <1>1, <2>2, <2>3, AllSound
  <2> QED
    BY <1>8, <2>1, <2>4, OpensSound DEF OpenValues, IterSound
<1>9. CASE OpenIterMut
  <2>1. PICK want : want = Items(tree)
    OBVIOUS
  <2>2. want = [i \in 1 .. tree.len |-> want[i]]
    BY <1>1, <2>1, ItemsByRank, LenProperties DEF Node
  <2>3. MutSound(tree, NewIterMut(tree), want, <<>>, <<>>)
    BY <1>1, <2>1, <2>2, AllSound
  <2> QED
    BY <1>9, <2>1, <2>3, OpensSound DEF OpenIterMut, IterSound
<1>10. ASSUME NEW start \in Bounds, NEW end \in Bounds, OpenMapRange(start, end)
       PROVE  OrderInv'
  <2>1. PICK exact : exact = (end[1] = "included" => ContainsCmp(tree, end[2]))
    OBVIOUS
  <2>2. Ordered(start, end)
        /\ Opens("entries", MapRange(tree, start, end), Wanted(start, end), exact)
    BY <1>10, <2>1 DEF OpenMapRange
  <2>3. exact => RangeSound(tree, "entries", MapRange(tree, start, end), Wanted(start, end),
                            <<>>, <<>>, FALSE)
    BY <1>1, <2>1, <2>2, MapRangeStarts
  <2>4. IterSound("entries", MapRange(tree, start, end), Wanted(start, end), exact,
                  <<>>, <<>>, FALSE)
    BY <2>3 DEF IterSound
  <2> QED
    BY <2>2, <2>4, OpensSound
<1>11. ASSUME NEW start \in Bounds, NEW end \in Bounds, OpenSetRange(start, end)
       PROVE  OrderInv'
  <2>1. PICK exact : exact = (/\ end[1] = "included" => ContainsKey(tree, end[2])
                              /\ start[1] = "excluded" => ContainsKey(tree, start[2])
                              /\ end[1] = "excluded" => TreeRank(tree, end[2]) > 0)
    OBVIOUS
  <2>2. Ordered(start, end)
        /\ Opens("entries", SetRange(tree, start, end), Wanted(start, end), exact)
    BY <1>11, <2>1 DEF OpenSetRange
  <2>3. exact => RangeSound(tree, "entries", SetRange(tree, start, end), Wanted(start, end),
                            <<>>, <<>>, FALSE)
    BY <1>1, <2>1, <2>2, SetRangeStarts
  <2>4. IterSound("entries", SetRange(tree, start, end), Wanted(start, end), exact,
                  <<>>, <<>>, FALSE)
    BY <2>3 DEF IterSound
  <2> QED
    BY <2>2, <2>4, OpensSound
<1>12. CASE Next \/ NextBack \/ MutNext \/ MutNextBack
  BY <1>1, <1>12, StepsSound
<1> QED
  BY <1>2, <1>3, <1>4, <1>5, <1>6, <1>7, <1>8, <1>9, <1>10, <1>11, <1>12 DEF IteratorStep

\* What has come from either end is then in order.
LEMMA InvIterates == TreeInv /\ OrderInv => IteratesInOrder
<1> SUFFICES ASSUME TreeInv, OrderInv, Iterating, it.exact \/ it.kind = "iter_mut"
             PROVE  /\ Len(it.front) + Len(it.back) <= Len(it.want)
                    /\ it.front = SubSeq(it.want, 1, Len(it.front))
                    /\ it.back = SubSeq(Reverse(it.want), 1, Len(it.back))
                    /\ it.exact /\ it.ended => YieldedAll
  BY DEF IteratesInOrder
<1>1. IterSound(it.kind, it.iter, it.want, it.exact, it.front, it.back, it.ended)
  BY DEF OrderInv
<1>2. ASSUME NEW f, NEW g, Yields(it.want, it.front, it.back, f, g)
      PROVE  /\ Len(it.front) = f /\ Len(it.back) = g
             /\ Len(it.front) + Len(it.back) <= Len(it.want)
             /\ it.front = SubSeq(it.want, 1, Len(it.front))
             /\ it.back = SubSeq(Reverse(it.want), 1, Len(it.back))
  <2>1. Len(it.front) = f /\ Len(it.back) = g
    BY <1>2, YieldsCount
  <2> QED
    BY <1>2, <2>1 DEF Yields
<1>3. CASE it.kind = "iter_mut"
  <2>1. it.exact = FALSE /\ MutSound(tree, it.iter, it.want, it.front, it.back)
    BY <1>1, <1>3 DEF IterSound
  <2>2. PICK f, g : Yields(it.want, it.front, it.back, f, g)
    BY <2>1 DEF MutSound
  <2> QED
    BY <1>2, <2>1, <2>2
<1>4. CASE it.kind # "iter_mut"
  <2>1. RangeSound(tree, it.kind, it.iter, it.want, it.front, it.back, it.ended)
    BY <1>1, <1>4 DEF IterSound
  <2>2. CASE it.want = <<>> /\ it.front = <<>> /\ it.back = <<>>
    <3>1. PICK T : it.want \in Seq(T)
      BY <2>2, EmptySeq
    <3>2. Yields(it.want, it.front, it.back, 0, 0)
      BY <2>2, <3>1, YieldsNothing
    <3>3. Len(it.front) + Len(it.back) = Len(it.want)
      BY <2>2, EmptySeq
    <3> QED
      BY <1>2, <3>2, <3>3 DEF YieldedAll
  <2>3. ASSUME NEW f, NEW g, Yields(it.want, it.front, it.back, f, g),
               it.ended => f + g = Len(it.want)
        PROVE  /\ Len(it.front) + Len(it.back) <= Len(it.want)
               /\ it.front = SubSeq(it.want, 1, Len(it.front))
               /\ it.back = SubSeq(Reverse(it.want), 1, Len(it.back))
               /\ it.exact /\ it.ended => YieldedAll
    BY <1>2, <2>3 DEF YieldedAll
  <2> QED
    BY <2>1, <2>2, <2>3 DEF RangeSound
<1> QED
  BY <1>3, <1>4

\* An iterator stands where it should, always.
LEMMA OrderAlways == Spec => []OrderInv
<1>1. /\ TreeInv /\ OrderInv
      /\ [SetStep \/ MapStep \/ IteratorStep \/ Return]_vars
      => OrderInv'
  BY OrderStays
<1> QED
  BY <1>1, InitOrder, TreeAlways, PTL DEF Spec

\* However next and next_back alternate, Iter, Range, Keys, Values and IterMut yield the
\* items of the tree from either end in their order, none twice, and, but for IterMut,
\* all of them before they end.
THEOREM IteratorsKeepOrder == Spec => []IteratesInOrder
  BY TreeAlways, OrderAlways, InvIterates, PTL

-----------------------------------------------------------------------------
(* Merges *)

\* MergeIter goes on from an item that is not above the other side's.
GoesLeft(l, r, i, j) == i <= Len(l) /\ (j <= Len(r) => Key(l[i]) <= Key(r[j]))
GoesRight(l, r, i, j) == j <= Len(r) /\ (i <= Len(l) => Key(r[j]) <= Key(l[i]))

Heads(i, j) == [start |-> FALSE, left |-> i, right |-> j]
AllHeads == {Heads(i, j) : i \in Nat, j \in Nat}
Unstarted == [start |-> TRUE, left |-> 0, right |-> 0]

\* The n-th pair that it yields is of the items at I[n] and J[n].
Walks(l, r, M, I, J) ==
    /\ M \in Nat /\ M = Len(l) + Len(r) + 1
    /\ I \in [1 .. M -> Nat] /\ J \in [1 .. M -> Nat]
    /\ I[1] = 1 /\ J[1] = 1
    /\ \A n \in 1 .. M : n # 1 =>
         /\ GoesLeft(l, r, I[n - 1], J[n - 1]) => I[n] = I[n - 1] + 1
         /\ ~GoesLeft(l, r, I[n - 1], J[n - 1]) => I[n] = I[n - 1]
         /\ GoesRight(l, r, I[n - 1], J[n - 1]) => J[n] = J[n - 1] + 1
         /\ ~GoesRight(l, r, I[n - 1], J[n - 1]) => J[n] = J[n - 1]

\* The current items are others.
HeadsMoved(m, p, q) == [m EXCEPT !.left = p, !.right = q]

\* Both current items move.
LEMMA HeadsMove ==
    ASSUME NEW i, NEW j, NEW p, NEW q
    PROVE  HeadsMoved(Heads(i, j), p, q) = Heads(p, q)
<1> DEFINE m == Heads(i, j)
<1>1. PICK s : \A x, y : Heads(x, y) = [start |-> s, left |-> x, right |-> y]
  BY DEF Heads
<1>2. /\ [Heads(i, j) EXCEPT !.left = p] = Heads(p, j)
      /\ [Heads(p, j) EXCEPT !.right = q] = Heads(p, q)
  BY <1>1
<1> HIDE DEF m
<1>3. [m EXCEPT !.left = p, !.right = q] = [[m EXCEPT !.left = p] EXCEPT !.right = q]
  OBVIOUS
<1> QED
  BY <1>2, <1>3 DEF m, HeadsMoved

\* Where the current items go.
HeadsNext(l, r, i, j) ==
    \E p, q \in Nat :
      /\ MergeNext(l, r, Heads(i, j)) = Heads(p, q)
      /\ GoesLeft(l, r, i, j) => p = i + 1
      /\ ~GoesLeft(l, r, i, j) => p = i
      /\ GoesRight(l, r, i, j) => q = j + 1
      /\ ~GoesRight(l, r, i, j) => q = j

\* MergeIter::next moves on the side of the item that is not above the other.
LEMMA MergeNextIs ==
    ASSUME NEW l \in Node, NEW r \in Node, NEW i \in Nat, NEW j \in Nat
    PROVE  HeadsNext(l, r, i, j)
<1> DEFINE m == Heads(i, j)
           left == At(l, i)
           right == At(r, j)
           both == left # None /\ right # None
           goLeft == left # None /\ (~both \/ Key(left[1]) <= Key(right[1]))
           goRight == right # None /\ (~both \/ Key(right[1]) <= Key(left[1]))
           p == IF goLeft THEN i + 1 ELSE i
           q == IF goRight THEN j + 1 ELSE j
<1>1. /\ left # None <=> i <= Len(l)
      /\ right # None <=> j <= Len(r)
      /\ i <= Len(l) => left[1] = l[i]
      /\ j <= Len(r) => right[1] = r[j]
  BY DEF At, Some, None
<1>2. (goLeft <=> GoesLeft(l, r, i, j)) /\ (goRight <=> GoesRight(l, r, i, j))
  <2> HIDE DEF left, right
  <2> QED
    BY <1>1 DEF GoesLeft, GoesRight
<1>3. m.start = FALSE /\ m.left = i /\ m.right = j
  BY DEF Heads
<1>4. MergeNext(l, r, m) = [m EXCEPT !.left = p, !.right = q]
  <2> HIDE DEF m
  <2> QED
    BY <1>3 DEF MergeNext
<1> HIDE DEF goLeft, goRight
<1>5. p \in Nat /\ q \in Nat
  OBVIOUS
<1>6. [m EXCEPT !.left = p, !.right = q] = Heads(p, q)
  <2> HIDE DEF p, q
  <2>1. [m EXCEPT !.left = p, !.right = q] = HeadsMoved(m, p, q)
    BY DEF HeadsMoved
  <2> QED
    BY <2>1, HeadsMove
<1>7. /\ goLeft => p = i + 1
      /\ ~goLeft => p = i
      /\ goRight => q = j + 1
      /\ ~goRight => q = j
  OBVIOUS
<1> HIDE DEF p, q
<1> QED
  BY <1>2, <1>4, <1>5, <1>6, <1>7 DEF HeadsNext

\* The pairs of a merge.
LEMMA MergeWalks ==
    ASSUME NEW l \in Node, NEW r \in Node
    PROVE  \E M, I, J : /\ Walks(l, r, M, I, J)
                        /\ MergedPairs(l, r) = [n \in 1 .. M |-> <<At(l, I[n]), At(r, J[n])>>]
<1> DEFINE M == Len(l) + Len(r) + 1
           F(f) == [n \in 0 .. M |-> IF n = 0 THEN Unstarted ELSE MergeNext(l, r, f[n - 1])]
           c == CHOOSE f : f = F(f)
           U == AllHeads \cup {Unstarted}
           s == [p \in (1 .. M) \X U |-> MergeNext(l, r, p[2])]
<1>1. M \in Nat /\ M >= 1
  BY NodeType
<1>2. MergedPairs(l, r) = [n \in 1 .. M |-> <<At(l, c[n].left), At(r, c[n].right)>>]
  BY DEF MergedPairs, Unstarted
<1> HIDE DEF M
<1>3. MergeNext(l, r, Unstarted) = Heads(1, 1) /\ Heads(1, 1) \in AllHeads
  <2>1. Unstarted.start
    BY DEF Unstarted
  <2>2. MergeNext(l, r, Unstarted) = Heads(1, 1)
    BY <2>1 DEF MergeNext, Heads
  <2>3. 1 \in Nat
    OBVIOUS
  <2> QED
    BY <2>2, <2>3 DEF AllHeads
<1>4. ASSUME NEW m \in AllHeads PROVE MergeNext(l, r, m) \in AllHeads
  <2>1. PICK i \in Nat, j \in Nat : m = Heads(i, j)
    BY DEF AllHeads
  <2>2. PICK p \in Nat, q \in Nat : MergeNext(l, r, Heads(i, j)) = Heads(p, q)
    <3>1. HeadsNext(l, r, i, j)
      BY MergeNextIs
    <3> QED
      BY <3>1 DEF HeadsNext
  <2> QED
    BY <2>1, <2>2 DEF AllHeads
<1>5. Unstarted \in U /\ s \in [(1 .. M) \X U -> U]
  BY <1>3, <1>4
<1>6. \A n \in 1 .. M : \A m \in U : s[<<n, m>>] = MergeNext(l, r, m)
  OBVIOUS
<1>7. PICK g \in [0 .. M -> U] : g[0] = Unstarted /\ \A n \in 1 .. M : g[n] = s[<<n, g[n - 1]>>]
  <2> HIDE DEF s, U
  <2>1. CanIterate(M, U, Unstarted, s)
    BY <1>1, <1>5, IteratedIsDefined
  <2> QED
    BY <2>1 DEF CanIterate
<1>8. g = F(g)
  <2>1. ASSUME NEW n \in 0 .. M PROVE g[n] = F(g)[n]
    <3>1. n # 0 => n \in 1 .. M /\ n - 1 \in 0 .. M
      BY <1>1
    <3> QED
      BY <1>6, <1>7, <3>1
  <2> QED
    BY <2>1
<1>9. c = F(c)
  BY <1>8
<1>10. c[0] = Unstarted /\ \A n \in 1 .. M : c[n] = MergeNext(l, r, c[n - 1])
  <2> HIDE DEF c
  <2> QED
    BY <1>1, <1>9
<1> HIDE DEF c, s, F, U
<1>11. \A n \in 1 .. M : c[n] \in AllHeads
  <2> DEFINE Bad == {n \in 1 .. M : c[n] \notin AllHeads}
  <2>1. ASSUME NEW n \in Bad PROVE \E m \in Bad : m < n
    <3>1. n \in 1 .. M /\ c[n] \notin AllHeads
      OBVIOUS
    <3>2. n # 1
      BY <1>1, <1>3, <1>10, <3>1
    <3>3. n - 1 \in 1 .. M /\ n - 1 < n
      BY <1>1, <3>1, <3>2
    <3>4. c[n - 1] \notin AllHeads
      BY <1>4, <1>10, <3>1
    <3> QED
      BY <3>3, <3>4
  <2>2. Bad \subseteq Nat
    BY <1>1
  <2>3. Bad = {}
    <3> HIDE DEF Bad
    <3> QED
      BY <2>1, <2>2, NoLeastNone
  <2> QED
    BY <2>3
<1> DEFINE I == [n \in 1 .. M |-> c[n].left]
           J == [n \in 1 .. M |-> c[n].right]
<1>12. \A m \in AllHeads : m = Heads(m.left, m.right) /\ m.left \in Nat /\ m.right \in Nat
  BY DEF AllHeads, Heads
<1>13. ASSUME NEW n \in 1 .. M
       PROVE  c[n] = Heads(I[n], J[n]) /\ I[n] \in Nat /\ J[n] \in Nat
  BY <1>11, <1>12
<1>14. I[1] = 1 /\ J[1] = 1
  <2>1. c[1] = Heads(1, 1) /\ 1 \in 1 .. M
    BY <1>1, <1>3, <1>10
  <2> QED
    BY <2>1 DEF Heads
<1>15. ASSUME NEW n \in 1 .. M, n # 1
       PROVE  /\ GoesLeft(l, r, I[n - 1], J[n - 1]) => I[n] = I[n - 1] + 1
              /\ ~GoesLeft(l, r, I[n - 1], J[n - 1]) => I[n] = I[n - 1]
              /\ GoesRight(l, r, I[n - 1], J[n - 1]) => J[n] = J[n - 1] + 1
              /\ ~GoesRight(l, r, I[n - 1], J[n - 1]) => J[n] = J[n - 1]
  <2>1. n - 1 \in 1 .. M
    BY <1>1, <1>15
  <2>2. c[n - 1] = Heads(I[n - 1], J[n - 1]) /\ I[n - 1] \in Nat /\ J[n - 1] \in Nat
    BY <1>13, <2>1
  <2>3. c[n] = MergeNext(l, r, c[n - 1])
    BY <1>10
  <2>4. c[n].left = I[n] /\ c[n].right = J[n]
    OBVIOUS
  <2> HIDE DEF I, J
  <2>5. PICK p \in Nat, q \in Nat :
             /\ MergeNext(l, r, c[n - 1]) = Heads(p, q)
             /\ GoesLeft(l, r, I[n - 1], J[n - 1]) => p = I[n - 1] + 1
             /\ ~GoesLeft(l, r, I[n - 1], J[n - 1]) => p = I[n - 1]
             /\ GoesRight(l, r, I[n - 1], J[n - 1]) => q = J[n - 1] + 1
             /\ ~GoesRight(l, r, I[n - 1], J[n - 1]) => q = J[n - 1]
    <3>1. HeadsNext(l, r, I[n - 1], J[n - 1])
      BY <2>2, MergeNextIs
    <3> QED
      BY <2>2, <3>1 DEF HeadsNext
  <2>6. Heads(p, q).left = p /\ Heads(p, q).right = q
    BY DEF Heads
  <2>7. I[n] = p /\ J[n] = q
    BY <2>3, <2>4, <2>5, <2>6
  <2> QED
    BY <2>5, <2>7
<1>16. I \in [1 .. M -> Nat] /\ J \in [1 .. M -> Nat]
  BY <1>13
<1>17. MergedPairs(l, r) = [n \in 1 .. M |-> <<At(l, I[n]), At(r, J[n])>>]
  BY <1>2
<1>18. M = Len(l) + Len(r) + 1
  BY DEF M
<1> HIDE DEF I, J
<1>19. Walks(l, r, M, I, J)
  BY <1>1, <1>14, <1>15, <1>16, <1>18 DEF Walks
<1> QED
  BY <1>17, <1>19

\* When a merge yields its n-th pair, all that it has left behind on the one side is
\* below what is to come on the other, it never goes back, and it has gone from every
\* item behind.
Behind(l, r, I, J, n) ==
    /\ I[n] \in 1 .. Len(l) + 1
    /\ \A a \in 1 .. Len(l), b \in 1 .. Len(r) :
         a < I[n] /\ J[n] <= b => Key(l[a]) < Key(r[b])
    /\ \A m \in 1 .. n - 1 : GoesLeft(l, r, I[m], J[m]) => I[m] < I[n]
    /\ \A a \in 1 .. I[n] - 1 : \E m \in 1 .. n - 1 : I[m] = a /\ GoesLeft(l, r, I[m], J[m])

\* It moves on until both sides are at their ends.
MovesOn(l, r, I, J, n) ==
    I[n] + J[n] >= n + 1 \/ (I[n] = Len(l) + 1 /\ J[n] = Len(r) + 1)

\* A merge of the two the other way round.
LEMMA WalksTurned ==
    ASSUME NEW l \in Node, NEW r \in Node, NEW M, NEW I, NEW J, Walks(l, r, M, I, J)
    PROVE  Walks(r, l, M, J, I)
<1>1. Len(l) \in Nat /\ Len(r) \in Nat
  BY NodeType
<1>2. \A i, j : /\ GoesLeft(r, l, j, i) <=> GoesRight(l, r, i, j)
                /\ GoesRight(r, l, j, i) <=> GoesLeft(l, r, i, j)
  BY DEF GoesLeft, GoesRight
<1>3. M = Len(r) + Len(l) + 1
  BY <1>1 DEF Walks
<1> QED
  BY <1>2, <1>3 DEF Walks

\* At the first pair nothing is behind.
LEMMA NothingBehind ==
    ASSUME NEW l \in Node, NEW r \in Node, NEW M, NEW I, NEW J, Walks(l, r, M, I, J)
    PROVE  Behind(l, r, I, J, 1)
<1>1. Len(l) \in Nat /\ Len(r) \in Nat /\ I[1] = 1 /\ J[1] = 1
  BY NodeType DEF Walks
<1>2. \A a \in 1 .. Len(l) : ~(a < 1)
  OBVIOUS
<1>3. 1 .. 1 - 1 = {}
  OBVIOUS
<1> QED
  BY <1>1, <1>2, <1>3 DEF Behind

\* A step keeps order.
LEMMA BehindSteps ==
    ASSUME NEW l \in Node, NEW r \in Node, Sorted(r), NEW M, NEW I, NEW J,
           Walks(l, r, M, I, J), NEW n \in 1 .. M, n # 1,
           Behind(l, r, I, J, n - 1), Behind(r, l, J, I, n - 1)
    PROVE  Behind(l, r, I, J, n)
<1>1. PICK i \in Nat, j \in Nat : i = I[n - 1] /\ j = J[n - 1]
  <2>1. n - 1 \in 1 .. M
    BY DEF Walks
  <2>2. I[n - 1] \in Nat /\ J[n - 1] \in Nat
    BY <2>1 DEF Walks
  <2> QED
    BY <2>2
<1>2. PICK p \in Nat, q \in Nat : p = I[n] /\ q = J[n]
  BY DEF Walks
<1>3. PICK m \in Nat : m = n - 1 /\ m \in 1 .. M /\ n \in Nat
  BY DEF Walks
<1>4. /\ Len(l) \in Nat /\ Len(r) \in Nat
      /\ \A a \in 1 .. Len(l) : Key(l[a]) \in Int
      /\ \A b \in 1 .. Len(r) : Key(r[b]) \in Int
  BY NodeType
<1>5. /\ GoesLeft(l, r, i, j) => p = i + 1
      /\ ~GoesLeft(l, r, i, j) => p = i
      /\ GoesRight(l, r, i, j) => q = j + 1
      /\ ~GoesRight(l, r, i, j) => q = j
  BY <1>1, <1>2 DEF Walks
<1>6. i \in 1 .. Len(l) + 1 /\ j \in 1 .. Len(r) + 1
  BY <1>1 DEF Behind
<1>7. p \in 1 .. Len(l) + 1
  BY <1>4, <1>5, <1>6 DEF GoesLeft
<1>8. ASSUME NEW a \in 1 .. Len(l), NEW b \in 1 .. Len(r), a < p, q <= b
      PROVE  Key(l[a]) < Key(r[b])
  <2>1. CASE a < i
    <3>1. j <= b
      BY <1>4, <1>5, <1>8
    <3> QED
      BY <1>1, <2>1, <3>1 DEF Behind
  <2>2. CASE ~(a < i)
    <3>1. GoesLeft(l, r, i, j) /\ a = i
      BY <1>5, <1>8, <2>2
    <3>2. j <= b
      BY <1>4, <1>5, <1>8
    <3>3. j \in 1 .. Len(r) /\ Key(l[i]) <= Key(r[j])
      BY <1>4, <1>6, <3>1, <3>2 DEF GoesLeft
    <3>4. CASE GoesRight(l, r, i, j)
      <4>1. j < b
        BY <1>4, <1>5, <1>8, <3>4
      <4>2. Key(r[j]) < Key(r[b])
        BY <3>3, <4>1 DEF Sorted
      <4> QED
        BY <1>4, <3>1, <3>3, <4>2
    <3>5. CASE ~GoesRight(l, r, i, j)
      <4>1. Key(l[i]) < Key(r[j])
        BY <1>4, <3>1, <3>3, <3>5 DEF GoesRight
      <4>2. j < b => Key(r[j]) < Key(r[b])
        BY <3>3 DEF Sorted
      <4>3. CASE j < b
        BY <1>4, <3>1, <3>3, <4>1, <4>2, <4>3
      <4>4. CASE j = b
        BY <3>1, <4>1, <4>4
      <4> QED
        BY <3>2, <4>3, <4>4
    <3> QED
      BY <3>4, <3>5
  <2> QED
    BY <2>1, <2>2
<1>9. ASSUME NEW k \in 1 .. n - 1, GoesLeft(l, r, I[k], J[k]) PROVE I[k] < p
  <2>1. CASE k = m
    BY <1>1, <1>3, <1>5, <1>9, <2>1
  <2>2. CASE k # m
    <3>1. k \in 1 .. m - 1
      BY <1>3, <2>2
    <3>2. I[k] < i
      BY <1>1, <1>3, <1>9, <3>1 DEF Behind
    <3>3. k \in 1 .. M
      <4>1. M \in Nat
        BY DEF Walks
      <4> QED
        BY <1>3, <4>1
    <3>4. I[k] \in Nat
      BY <3>3 DEF Walks
    <3> QED
      BY <1>5, <3>2, <3>4
  <2> QED
    BY <2>1, <2>2
<1>10. ASSUME NEW a \in 1 .. p - 1
       PROVE  \E k \in 1 .. n - 1 : I[k] = a /\ GoesLeft(l, r, I[k], J[k])
  <2>1. CASE a \in 1 .. i - 1
    <3>1. PICK k \in 1 .. m - 1 : I[k] = a /\ GoesLeft(l, r, I[k], J[k])
      BY <1>1, <1>3, <2>1 DEF Behind
    <3> QED
      BY <1>3, <3>1
  <2>2. CASE a \notin 1 .. i - 1
    <3>1. GoesLeft(l, r, i, j) /\ a = i
      BY <1>5, <2>2
    <3>2. m \in 1 .. n - 1
      BY <1>3
    <3> QED
      BY <1>1, <1>3, <3>1, <3>2
  <2> QED
    BY <2>1, <2>2
<1> QED
  BY <1>2, <1>7, <1>8, <1>9, <1>10 DEF Behind

\* A step leads on.
LEMMA StepMovesOn ==
    ASSUME NEW l \in Node, NEW r \in Node, NEW M, NEW I, NEW J,
           Walks(l, r, M, I, J), NEW n \in 1 .. M, n # 1,
           Behind(l, r, I, J, n - 1), Behind(r, l, J, I, n - 1), MovesOn(l, r, I, J, n - 1)
    PROVE  MovesOn(l, r, I, J, n)
<1>1. PICK i \in Nat, j \in Nat : i = I[n - 1] /\ j = J[n - 1]
  <2>1. n - 1 \in 1 .. M
    BY DEF Walks
  <2>2. I[n - 1] \in Nat /\ J[n - 1] \in Nat
    BY <2>1 DEF Walks
  <2> QED
    BY <2>2
<1>2. PICK p \in Nat, q \in Nat : p = I[n] /\ q = J[n]
  BY DEF Walks
<1>3. PICK m \in Nat : m = n - 1 /\ n = m + 1
  BY DEF Walks
<1>4. /\ Len(l) \in Nat /\ Len(r) \in Nat
      /\ \A a \in 1 .. Len(l) : Key(l[a]) \in Int
      /\ \A b \in 1 .. Len(r) : Key(r[b]) \in Int
  BY NodeType
<1>5. /\ GoesLeft(l, r, i, j) => p = i + 1
      /\ ~GoesLeft(l, r, i, j) => p = i
      /\ GoesRight(l, r, i, j) => q = j + 1
      /\ ~GoesRight(l, r, i, j) => q = j
  BY <1>1, <1>2 DEF Walks
<1>6. i \in 1 .. Len(l) + 1 /\ j \in 1 .. Len(r) + 1
  BY <1>1 DEF Behind
<1>7. i + j >= m + 1 \/ (i = Len(l) + 1 /\ j = Len(r) + 1)
  BY <1>1, <1>3 DEF MovesOn
<1>8. CASE i = Len(l) + 1 /\ j = Len(r) + 1
  <2>1. ~GoesLeft(l, r, i, j) /\ ~GoesRight(l, r, i, j)
    BY <1>4, <1>8 DEF GoesLeft, GoesRight
  <2> QED
    BY <1>2, <1>5, <1>8, <2>1 DEF MovesOn
<1>9. CASE ~(i = Len(l) + 1 /\ j = Len(r) + 1)
  <2>1. GoesLeft(l, r, i, j) \/ GoesRight(l, r, i, j)
    <3>1. i \in 1 .. Len(l) \/ j \in 1 .. Len(r)
      <4>1. \A d \in Nat : \A e \in 1 .. d + 1 : e # d + 1 => e \in 1 .. d
        OBVIOUS
      <4>2. Len(l) \in Nat /\ Len(r) \in Nat
        BY <1>4
      <4> QED
        BY <1>6, <1>9, <4>1, <4>2
    <3> QED
      BY <1>4, <1>6, <3>1 DEF GoesLeft, GoesRight
  <2>2. p + q >= n + 1
    BY <1>3, <1>5, <1>7, <1>9, <2>1
  <2> QED
    BY <1>2, <2>2 DEF MovesOn
<1> QED
  BY <1>8, <1>9

\* So it is at every pair, and at the last one both sides are at their ends.
LEMMA WalkStands ==
    ASSUME NEW l \in Node, NEW r \in Node, Sorted(l), Sorted(r), NEW M, NEW I, NEW J,
           Walks(l, r, M, I, J)
    PROVE  /\ \A n \in 1 .. M : Behind(l, r, I, J, n) /\ Behind(r, l, J, I, n)
           /\ M \in 1 .. M /\ I[M] = Len(l) + 1 /\ J[M] = Len(r) + 1
<1> DEFINE Stands(n) == Behind(l, r, I, J, n) /\ Behind(r, l, J, I, n) /\ MovesOn(l, r, I, J, n)
           Bad == {n \in 1 .. M : ~Stands(n)}
<1>1. Len(l) \in Nat /\ Len(r) \in Nat /\ M = Len(l) + Len(r) + 1 /\ M \in Nat
  BY NodeType DEF Walks
<1>2. Walks(r, l, M, J, I)
  BY WalksTurned
<1>3. Stands(1)
  <2>1. MovesOn(l, r, I, J, 1)
    BY DEF Walks, MovesOn
  <2> QED
    BY <1>2, <2>1, NothingBehind
<1>4. ASSUME NEW n \in 1 .. M, n # 1, Stands(n - 1) PROVE Stands(n)
  BY <1>2, <1>4, BehindSteps, StepMovesOn
<1> HIDE DEF Stands
<1>5. ASSUME NEW n \in Bad PROVE \E m \in Bad : m < n
  <2>1. n \in 1 .. M /\ ~Stands(n) /\ n # 1
    BY <1>3
  <2>2. n - 1 \in 1 .. M /\ n - 1 < n /\ ~Stands(n - 1)
    BY <1>1, <1>4, <2>1
  <2> QED
    BY <2>2
<1>6. Bad \subseteq Nat
  OBVIOUS
<1>7. Bad = {}
  <2> HIDE DEF Bad
  <2> QED
    BY <1>5, <1>6, NoLeastNone
<1>8. \A n \in 1 .. M : Stands(n)
  BY <1>7
<1>9. M \in 1 .. M
  BY <1>1
<1>10. I[M] = Len(l) + 1 /\ J[M] = Len(r) + 1
  <2>1. /\ I[M] \in 1 .. Len(l) + 1 /\ J[M] \in 1 .. Len(r) + 1
        /\ I[M] + J[M] >= M + 1 \/ (I[M] = Len(l) + 1 /\ J[M] = Len(r) + 1)
    BY <1>8, <1>9 DEF Stands, Behind, MovesOn
  <2> QED
    BY <1>1, <2>1
<1> QED
  BY <1>8, <1>9, <1>10 DEF Stands

KeyIn(s, k) == \E x \in ToSet(s) : Key(x) = k

\* An item that goes alone has no equal on the other side.
LEMMA GoesAlone ==
    ASSUME NEW l \in Node, NEW r \in Node, Sorted(r), NEW I, NEW J, NEW n,
           Behind(l, r, I, J, n), Behind(r, l, J, I, n), GoesLeft(l, r, I[n], J[n])
    PROVE  /\ I[n] \in 1 .. Len(l)
           /\ ~GoesRight(l, r, I[n], J[n]) => ~KeyIn(r, Key(l[I[n]]))
           /\ GoesRight(l, r, I[n], J[n]) => /\ J[n] \in 1 .. Len(r)
                                             /\ Key(l[I[n]]) = Key(r[J[n]])
<1>1. PICK i, j : i = I[n] /\ j = J[n]
  OBVIOUS
<1>2. /\ Len(l) \in Nat /\ Len(r) \in Nat
      /\ \A a \in 1 .. Len(l) : Key(l[a]) \in Int
      /\ \A b \in 1 .. Len(r) : Key(r[b]) \in Int
  BY NodeType
<1>3. i \in 1 .. Len(l) + 1 /\ j \in 1 .. Len(r) + 1
  BY <1>1 DEF Behind
<1>4. i \in 1 .. Len(l)
  BY <1>1, <1>2, <1>3 DEF GoesLeft
<1>5. ASSUME ~GoesRight(l, r, i, j) PROVE ~KeyIn(r, Key(l[i]))
  <2>1. ASSUME NEW b \in 1 .. Len(r) PROVE Key(r[b]) # Key(l[i])
    <3>1. CASE b < j
      <4>1. Key(r[b]) < Key(l[i])
        BY <1>1, <1>2, <1>4, <3>1 DEF Behind
      <4> QED
        BY <1>2, <1>4, <4>1
    <3>2. CASE ~(b < j)
      <4>1. j \in 1 .. Len(r)
        BY <1>2, <1>3, <3>2
      <4>2. Key(l[i]) < Key(r[j])
        BY <1>2, <1>4, <1>5, <4>1 DEF GoesRight
      <4>3. CASE j = b
        BY <1>2, <1>4, <4>2, <4>3
      <4>4. CASE j # b
        <5>1. Key(r[j]) < Key(r[b])
          BY <1>2, <3>2, <4>1, <4>4 DEF Sorted
        <5> QED
          BY <1>2, <1>4, <4>1, <4>2, <5>1
      <4> QED
        BY <4>3, <4>4
    <3> QED
      BY <3>1, <3>2
  <2> QED
    BY <2>1, NodeType DEF KeyIn
<1>6. ASSUME GoesRight(l, r, i, j) PROVE j \in 1 .. Len(r) /\ Key(l[i]) = Key(r[j])
  <2>1. j \in 1 .. Len(r)
    BY <1>2, <1>3, <1>6 DEF GoesRight
  <2>2. Key(l[i]) <= Key(r[j]) /\ Key(r[j]) <= Key(l[i])
    BY <1>1, <1>2, <1>4, <1>6, <2>1 DEF GoesLeft, GoesRight
  <2> QED
    BY <1>2, <1>4, <2>1, <2>2
<1> QED
  BY <1>1, <1>4, <1>5, <1>6

\* An adaptor passes on, of the items of one side alone and of both, those it is told to.
HandsOver(l, r, i, j, row, kl, kr, kb) ==
    /\ GoesLeft(l, r, i, j) /\ ~GoesRight(l, r, i, j) => row = IF kl THEN <<l[i]>> ELSE <<>>
    /\ GoesRight(l, r, i, j) /\ ~GoesLeft(l, r, i, j) => row = IF kr THEN <<r[j]>> ELSE <<>>
    /\ GoesLeft(l, r, i, j) /\ GoesRight(l, r, i, j) => row = IF kb THEN <<l[i]>> ELSE <<>>
    /\ ~GoesLeft(l, r, i, j) /\ ~GoesRight(l, r, i, j) => row = <<>>

\* A row is empty, or the item that has gone on one side.
RowIs(l, r, i, j, row) ==
    \/ row = <<>>
    \/ GoesLeft(l, r, i, j) /\ row = <<l[i]>>
    \/ GoesRight(l, r, i, j) /\ row = <<r[j]>>

\* A row holds one item at most.
LEMMA PassesRow ==
    ASSUME NEW l, NEW r, NEW i, NEW j, NEW row,
           NEW kl \in BOOLEAN, NEW kr \in BOOLEAN, NEW kb \in BOOLEAN,
           HandsOver(l, r, i, j, row, kl, kr, kb)
    PROVE  RowIs(l, r, i, j, row)
  BY DEF HandsOver, RowIs

\* There is a row for each pair.
Listed(rows, M) == rows = [n \in 1 .. M |-> rows[n]]

\* The items of the rows, in order.
RowsInOrder(rows, M) ==
    /\ FlattenSeq(rows) \in Node /\ Sorted(FlattenSeq(rows))
    /\ \A x : x \in ToSet(FlattenSeq(rows)) <=> \E n \in 1 .. M : rows[n] = <<x>>

\* What is passed on is in order.
LEMMA PassedInOrder ==
    ASSUME NEW l \in Node, NEW r \in Node, Sorted(l), Sorted(r), NEW M, NEW I, NEW J,
           Walks(l, r, M, I, J), NEW rows, Listed(rows, M),
           \A n \in 1 .. M : RowIs(l, r, I[n], J[n], rows[n])
    PROVE  RowsInOrder(rows, M)
<1>1. M \in Nat /\ M >= 1
  BY NodeType DEF Walks
<1>2. Walks(r, l, M, J, I)
  BY WalksTurned
<1>3. ASSUME NEW n \in 1 .. M
      PROVE  /\ Behind(l, r, I, J, n) /\ Behind(r, l, J, I, n)
             /\ GoesLeft(l, r, I[n], J[n]) => I[n] \in 1 .. Len(l)
             /\ GoesRight(l, r, I[n], J[n]) => J[n] \in 1 .. Len(r)
  <2>1. Behind(l, r, I, J, n) /\ Behind(r, l, J, I, n)
    BY WalkStands
  <2>2. GoesRight(l, r, I[n], J[n]) => GoesLeft(r, l, J[n], I[n])
    BY DEF GoesLeft, GoesRight
  <2> QED
    BY <2>1, <2>2, GoesAlone
<1>4. ASSUME NEW n \in 1 .. M
      PROVE  /\ rows[n] \in Node /\ Sorted(rows[n])
             /\ \A x : x \in ToSet(rows[n]) => /\ x \in Item /\ rows[n] = <<x>>
                                               /\ \/ GoesLeft(l, r, I[n], J[n]) /\ x = l[I[n]]
                                                  \/ GoesRight(l, r, I[n], J[n]) /\ x = r[J[n]]
             /\ \A x : rows[n] = <<x>> => x \in ToSet(rows[n])
  <2>1. CASE rows[n] = <<>>
    <3>1. \A x : <<x>> # <<>>
      OBVIOUS
    <3> QED
      BY <2>1, <3>1, EmptyNodeType
  <2>2. ASSUME NEW y, rows[n] = <<y>>, y \in Item,
               \/ GoesLeft(l, r, I[n], J[n]) /\ y = l[I[n]]
               \/ GoesRight(l, r, I[n], J[n]) /\ y = r[J[n]]
        PROVE  /\ rows[n] \in Node /\ Sorted(rows[n])
               /\ \A x : x \in ToSet(rows[n]) => x = y
               /\ \A x : rows[n] = <<x>> => x \in ToSet(rows[n])
    <3>1. rows[n] \in Node /\ Sorted(rows[n]) /\ \A x : x \in ToSet(rows[n]) <=> x = y
      BY <2>2, OneItem
    <3>2. \A x : <<x>> = <<y>> => x = y
      OBVIOUS
    <3> QED
      BY <2>2, <3>1, <3>2
  <2>3. CASE GoesLeft(l, r, I[n], J[n]) /\ rows[n] = <<l[I[n]]>>
    <3>1. l[I[n]] \in Item
      BY <1>3, <2>3, NodeType
    <3> QED
      BY <2>2, <2>3, <3>1
  <2>4. CASE GoesRight(l, r, I[n], J[n]) /\ rows[n] = <<r[J[n]]>>
    <3>1. r[J[n]] \in Item
      BY <1>3, <2>4, NodeType
    <3> QED
      BY <2>2, <2>4, <3>1
  <2> QED
    BY <2>1, <2>3, <2>4 DEF RowIs
<1>5. rows \in Nodes /\ Len(rows) = M
  <2>1. rows \in [1 .. M -> Node]
    BY <1>4 DEF Listed
  <2> QED
    BY <1>1, <2>1 DEF Nodes
<1>6. ASSUME NEW m \in 1 .. M, NEW n \in 1 .. M, m < n PROVE Precedes(rows[m], rows[n])
  <2>1. SUFFICES ASSUME NEW x \in ToSet(rows[m]), NEW y \in ToSet(rows[n])
                 PROVE  Key(x) < Key(y)
    BY DEF Precedes
  <2>2. m \in 1 .. n - 1
    BY <1>1, <1>6
  <2>3. CASE GoesLeft(l, r, I[m], J[m]) /\ x = l[I[m]]
    <3>1. I[m] < I[n] /\ I[m] \in 1 .. Len(l)
      BY <1>3, <2>2, <2>3 DEF Behind
    <3>2. CASE GoesLeft(l, r, I[n], J[n]) /\ y = l[I[n]]
      BY <1>3, <2>3, <3>1, <3>2 DEF Sorted
    <3>3. CASE GoesRight(l, r, I[n], J[n]) /\ y = r[J[n]]
      <4>1. J[n] \in 1 .. Len(r) /\ J[n] <= J[n]
        BY <1>3, <3>3
      <4> QED
        BY <1>3, <2>3, <3>1, <3>3, <4>1 DEF Behind
    <3> QED
      BY <1>4, <3>2, <3>3
  <2>4. CASE GoesRight(l, r, I[m], J[m]) /\ x = r[J[m]]
    <3>1. J[m] < J[n] /\ J[m] \in 1 .. Len(r)
      <4>1. GoesLeft(r, l, J[m], I[m])
        BY <2>4 DEF GoesLeft, GoesRight
      <4> QED
        BY <1>3, <2>2, <2>4, <4>1 DEF Behind
    <3>2. CASE GoesRight(l, r, I[n], J[n]) /\ y = r[J[n]]
      BY <1>3, <2>4, <3>1, <3>2 DEF Sorted
    <3>3. CASE GoesLeft(l, r, I[n], J[n]) /\ y = l[I[n]]
      <4>1. I[n] \in 1 .. Len(l) /\ I[n] <= I[n]
        BY <1>3, <3>3
      <4> QED
        BY <1>3, <2>4, <3>1, <3>3, <4>1 DEF Behind
    <3> QED
      BY <1>4, <3>2, <3>3
  <2> QED
    BY <1>4, <2>3, <2>4
<1>7. NodesSorted(rows)
  BY <1>4, <1>5, <1>6 DEF NodesSorted
<1>8. /\ FlattenSeq(rows) \in Node /\ Sorted(FlattenSeq(rows))
      /\ ToSet(FlattenSeq(rows)) = ItemSet(rows)
  BY <1>1, <1>5, <1>7, ItemsAre
<1>9. \A x : x \in ItemSet(rows) <=> \E n \in 1 .. M : x \in ToSet(rows[n])
  BY <1>5, NodesType
<1>10. \A n \in 1 .. M : \A x : x \in ToSet(rows[n]) <=> rows[n] = <<x>>
  BY <1>4
<1> QED
  BY <1>8, <1>9, <1>10 DEF RowsInOrder

\* What is passed on, of the items of either side.
Passed(l, r, kl, kr, kb, x) ==
    \/ x \in ToSet(l) /\ KeyIn(r, Key(x)) /\ kb
    \/ x \in ToSet(l) /\ ~KeyIn(r, Key(x)) /\ kl
    \/ x \in ToSet(r) /\ ~KeyIn(l, Key(x)) /\ kr

\* The items passed on, in order.
Merges(l, r, out, kl, kr, kb) ==
    /\ out \in Node /\ Sorted(out)
    /\ \A x : x \in ToSet(out) <=> Passed(l, r, kl, kr, kb, x)

\* Exactly the items it is told to are passed on, in order.
LEMMA PassedOn ==
    ASSUME NEW l \in Node, NEW r \in Node, Sorted(l), Sorted(r), NEW M, NEW I, NEW J,
           Walks(l, r, M, I, J), NEW rows, Listed(rows, M),
           NEW kl \in BOOLEAN, NEW kr \in BOOLEAN, NEW kb \in BOOLEAN,
           \A n \in 1 .. M : HandsOver(l, r, I[n], J[n], rows[n], kl, kr, kb)
    PROVE  Merges(l, r, FlattenSeq(rows), kl, kr, kb)
<1>1. \A n \in 1 .. M : RowIs(l, r, I[n], J[n], rows[n])
  BY PassesRow
<1>2. /\ FlattenSeq(rows) \in Node /\ Sorted(FlattenSeq(rows))
      /\ \A x : x \in ToSet(FlattenSeq(rows)) <=> \E n \in 1 .. M : rows[n] = <<x>>
  <2>1. RowsInOrder(rows, M)
    BY <1>1, PassedInOrder
  <2> QED
    BY <2>1 DEF RowsInOrder
<1>3. \A i, j : /\ GoesRight(l, r, i, j) <=> GoesLeft(r, l, j, i)
                /\ GoesLeft(l, r, i, j) <=> GoesRight(r, l, j, i)
  BY DEF GoesLeft, GoesRight
<1>4. ASSUME NEW n \in 1 .. M
      PROVE  LET i == I[n]
                 j == J[n]
             IN /\ GoesLeft(l, r, i, j) => l[i] \in ToSet(l)
                /\ GoesRight(l, r, i, j) => r[j] \in ToSet(r)
                /\ GoesLeft(l, r, i, j) /\ ~GoesRight(l, r, i, j) => ~KeyIn(r, Key(l[i]))
                /\ GoesRight(l, r, i, j) /\ ~GoesLeft(l, r, i, j) => ~KeyIn(l, Key(r[j]))
                /\ GoesLeft(l, r, i, j) /\ GoesRight(l, r, i, j) =>
                     KeyIn(r, Key(l[i])) /\ KeyIn(l, Key(r[j]))
  <2>1. Behind(l, r, I, J, n) /\ Behind(r, l, J, I, n)
    BY WalkStands
  <2>2. ASSUME GoesLeft(l, r, I[n], J[n])
        PROVE  /\ I[n] \in 1 .. Len(l)
               /\ ~GoesRight(l, r, I[n], J[n]) => ~KeyIn(r, Key(l[I[n]]))
               /\ GoesRight(l, r, I[n], J[n]) => /\ J[n] \in 1 .. Len(r)
                                                 /\ Key(l[I[n]]) = Key(r[J[n]])
    BY <2>1, <2>2, GoesAlone
  <2>3. ASSUME GoesRight(l, r, I[n], J[n])
        PROVE  /\ J[n] \in 1 .. Len(r)
               /\ ~GoesLeft(l, r, I[n], J[n]) => ~KeyIn(l, Key(r[J[n]]))
    BY <1>3, <2>1, <2>3, GoesAlone
  <2>4. /\ \A a \in 1 .. Len(l) : l[a] \in ToSet(l)
        /\ \A b \in 1 .. Len(r) : r[b] \in ToSet(r)
    BY NodeType
  <2> QED
    BY <2>2, <2>3, <2>4 DEF KeyIn
<1>5. ASSUME NEW n \in 1 .. M, NEW x, rows[n] = <<x>> PROVE Passed(l, r, kl, kr, kb, x)
  <2>1. PICK i, j : i = I[n] /\ j = J[n]
    OBVIOUS
  <2>2. HandsOver(l, r, i, j, rows[n], kl, kr, kb)
    BY <2>1
  <2>3. \A y : <<x>> # <<>> /\ (<<x>> = <<y>> => x = y)
    OBVIOUS
  <2>4. CASE GoesLeft(l, r, i, j) /\ ~GoesRight(l, r, i, j)
    <3>1. kl /\ x = l[i]
      BY <1>5, <2>2, <2>3, <2>4 DEF HandsOver
    <3> QED
      BY <1>4, <2>1, <2>4, <3>1 DEF Passed
  <2>5. CASE GoesRight(l, r, i, j) /\ ~GoesLeft(l, r, i, j)
    <3>1. kr /\ x = r[j]
      BY <1>5, <2>2, <2>3, <2>5 DEF HandsOver
    <3> QED
      BY <1>4, <2>1, <2>5, <3>1 DEF Passed
  <2>6. CASE GoesLeft(l, r, i, j) /\ GoesRight(l, r, i, j)
    <3>1. kb /\ x = l[i]
      BY <1>5, <2>2, <2>3, <2>6 DEF HandsOver
    <3> QED
      BY <1>4, <2>1, <2>6, <3>1 DEF Passed
  <2>7. CASE ~GoesLeft(l, r, i, j) /\ ~GoesRight(l, r, i, j)
    BY <1>5, <2>2, <2>3, <2>7 DEF HandsOver
  <2> QED
    BY <2>4, <2>5, <2>6, <2>7
<1>6. /\ M \in 1 .. M /\ I[M] = Len(l) + 1 /\ J[M] = Len(r) + 1 /\ M \in Nat
      /\ Behind(l, r, I, J, M) /\ Behind(r, l, J, I, M) /\ Len(l) \in Nat /\ Len(r) \in Nat
  <2>1. Len(l) \in Nat /\ Len(r) \in Nat /\ M \in Nat
    BY NodeType DEF Walks
  <2> QED
    BY <2>1, WalkStands
<1>7. ASSUME NEW a \in 1 .. Len(l)
      PROVE  \E n \in 1 .. M : I[n] = a /\ GoesLeft(l, r, I[n], J[n])
  <2>1. a \in 1 .. I[M] - 1
    BY <1>6
  <2>2. PICK n \in 1 .. M - 1 : I[n] = a /\ GoesLeft(l, r, I[n], J[n])
    BY <1>6, <2>1 DEF Behind
  <2> QED
    BY <1>6, <2>2
<1>8. ASSUME NEW b \in 1 .. Len(r)
      PROVE  \E n \in 1 .. M : J[n] = b /\ GoesRight(l, r, I[n], J[n])
  <2>1. b \in 1 .. J[M] - 1
    BY <1>6
  <2>2. PICK n \in 1 .. M - 1 : J[n] = b /\ GoesLeft(r, l, J[n], I[n])
    BY <1>6, <2>1 DEF Behind
  <2> QED
    BY <1>3, <1>6, <2>2
<1>9. ASSUME NEW x, Passed(l, r, kl, kr, kb, x) PROVE \E n \in 1 .. M : rows[n] = <<x>>
  <2>1. CASE x \in ToSet(l) /\ (KeyIn(r, Key(x)) => kb) /\ (~KeyIn(r, Key(x)) => kl)
    <3>1. PICK a \in 1 .. Len(l) : x = l[a]
      BY <2>1, NodeType
    <3>2. PICK n \in 1 .. M : I[n] = a /\ GoesLeft(l, r, I[n], J[n])
      BY <1>7
    <3>3. CASE GoesRight(l, r, I[n], J[n])
      <4>1. kb
        BY <1>4, <2>1, <3>1, <3>2, <3>3
      <4>2. rows[n] = <<l[I[n]]>>
        BY <3>2, <3>3, <4>1 DEF HandsOver
      <4> QED
        BY <3>1, <3>2, <4>2
    <3>4. CASE ~GoesRight(l, r, I[n], J[n])
      <4>1. kl
        BY <1>4, <2>1, <3>1, <3>2, <3>4
      <4>2. rows[n] = <<l[I[n]]>>
        BY <3>2, <3>4, <4>1 DEF HandsOver
      <4> QED
        BY <3>1, <3>2, <4>2
    <3> QED
      BY <3>3, <3>4
  <2>2. CASE x \in ToSet(r) /\ ~KeyIn(l, Key(x)) /\ kr
    <3>1. PICK b \in 1 .. Len(r) : x = r[b]
      BY <2>2, NodeType
    <3>2. PICK n \in 1 .. M : J[n] = b /\ GoesRight(l, r, I[n], J[n])
      BY <1>8
    <3>3. ~GoesLeft(l, r, I[n], J[n])
      BY <1>4, <2>2, <3>1, <3>2
    <3>4. rows[n] = <<r[J[n]]>>
      BY <2>2, <3>2, <3>3 DEF HandsOver
    <3> QED
      BY <3>1, <3>2, <3>4
  <2> QED
    BY <1>9, <2>1, <2>2 DEF Passed
<1> QED
  BY <1>2, <1>5, <1>9 DEF Merges

\* Each pair of current items makes a row.
Picks(l, r, pairs, rows, kl, kr, kb) ==
    \A n \in DOMAIN pairs : \A i, j \in Nat \ {0} :
      pairs[n][1] = At(l, i) /\ pairs[n][2] = At(r, j) =>
        HandsOver(l, r, i, j, rows[n], kl, kr, kb)

\* What an adaptor does with each pair of current items decides what it passes on.
LEMMA MergedIs ==
    ASSUME NEW l \in Node, NEW r \in Node, Sorted(l), Sorted(r), NEW pairs, pairs = MergedPairs(l, r),
           NEW rows, rows = [n \in DOMAIN pairs |-> rows[n]],
           NEW kl \in BOOLEAN, NEW kr \in BOOLEAN, NEW kb \in BOOLEAN,
           Picks(l, r, pairs, rows, kl, kr, kb)
    PROVE  Merges(l, r, FlattenSeq(rows), kl, kr, kb)
<1>1. PICK M, I, J : /\ Walks(l, r, M, I, J)
                     /\ pairs = [n \in 1 .. M |-> <<At(l, I[n]), At(r, J[n])>>]
  BY MergeWalks
<1>2. DOMAIN pairs = 1 .. M
  BY <1>1
<1>3. ASSUME NEW n \in 1 .. M PROVE HandsOver(l, r, I[n], J[n], rows[n], kl, kr, kb)
  <2>1. I[n] \in Nat \ {0} /\ J[n] \in Nat \ {0}
    <3>1. Behind(l, r, I, J, n) /\ Behind(r, l, J, I, n)
      BY <1>1, WalkStands
    <3> QED
      BY <3>1, NodeType DEF Behind
  <2>2. PICK a, b : a = At(l, I[n]) /\ b = At(r, J[n])
    OBVIOUS
  <2>3. pairs[n] = <<a, b>>
    BY <1>1, <2>2
  <2>4. pairs[n][1] = At(l, I[n]) /\ pairs[n][2] = At(r, J[n])
    BY <2>2, <2>3
  <2> QED
    BY <1>2, <2>1, <2>4 DEF Picks
<1>4. Listed(rows, M)
  BY <1>2 DEF Listed
<1>5. Walks(l, r, M, I, J) /\ \A n \in 1 .. M : HandsOver(l, r, I[n], J[n], rows[n], kl, kr, kb)
  BY <1>1, <1>3
<1> QED
  BY <1>4, <1>5, PassedOn

\* The current items, and on which side a merge goes on.
PairIs(l, r, i, j, left, right) ==
    /\ GoesLeft(l, r, i, j) => left = <<l[i]>>
    /\ GoesRight(l, r, i, j) => right = <<r[j]>>
    /\ ~GoesLeft(l, r, i, j) /\ ~GoesRight(l, r, i, j) => left = <<>> /\ right = <<>>
    /\ Less(left, right) <=> GoesLeft(l, r, i, j) /\ ~GoesRight(l, r, i, j)
    /\ Less(right, left) <=> GoesRight(l, r, i, j) /\ ~GoesLeft(l, r, i, j)
    /\ (left # None /\ right # None /\ Key(left[1]) = Key(right[1])) <=>
         GoesLeft(l, r, i, j) /\ GoesRight(l, r, i, j)

\* The comparisons of the adaptors tell on which side a merge goes on.
LEMMA PairsAre ==
    ASSUME NEW l \in Node, NEW r \in Node, NEW i \in Nat, NEW j \in Nat, i # 0, j # 0,
           NEW left, NEW right, left = At(l, i), right = At(r, j)
    PROVE  PairIs(l, r, i, j, left, right)
<1>1. /\ Len(l) \in Nat /\ Len(r) \in Nat
      /\ \A a \in 1 .. Len(l) : Key(l[a]) \in Int
      /\ \A b \in 1 .. Len(r) : Key(r[b]) \in Int
  BY NodeType
<1>2. \A x : <<x>> # <<>> /\ <<x>>[1] = x
  OBVIOUS
<1>3. /\ i <= Len(l) => left = <<l[i]>> /\ left # None /\ left[1] = l[i] /\ Key(l[i]) \in Int
      /\ ~(i <= Len(l)) => left = <<>> /\ left = None
  BY <1>1, <1>2 DEF At, Some, None
<1>4. /\ j <= Len(r) => right = <<r[j]>> /\ right # None /\ right[1] = r[j] /\ Key(r[j]) \in Int
      /\ ~(j <= Len(r)) => right = <<>> /\ right = None
  BY <1>1, <1>2 DEF At, Some, None
<1>5. CASE i <= Len(l) /\ j <= Len(r)
  <2>1. PICK a \in Int, b \in Int : a = Key(l[i]) /\ b = Key(r[j])
    BY <1>3, <1>4, <1>5
  <2>2. /\ GoesLeft(l, r, i, j) <=> a <= b
        /\ GoesRight(l, r, i, j) <=> b <= a
    BY <1>5, <2>1 DEF GoesLeft, GoesRight
  <2>3. Less(left, right) <=> a < b
    BY <1>3, <1>4, <1>5, <2>1 DEF Less
  <2>4. Less(right, left) <=> b < a
    BY <1>3, <1>4, <1>5, <2>1 DEF Less
  <2>5. (left # None /\ right # None /\ Key(left[1]) = Key(right[1])) <=> a = b
    BY <1>3, <1>4, <1>5, <2>1
  <2>6. /\ a < b <=> a <= b /\ ~(b <= a)
        /\ b < a <=> b <= a /\ ~(a <= b)
        /\ a = b <=> a <= b /\ b <= a
        /\ a <= b \/ b <= a
    OBVIOUS
  <2> QED
    BY <1>3, <1>4, <1>5, <2>2, <2>3, <2>4, <2>5, <2>6 DEF PairIs
<1>6. CASE i <= Len(l) /\ ~(j <= Len(r))
  <2>1. GoesLeft(l, r, i, j) /\ ~GoesRight(l, r, i, j)
    BY <1>6 DEF GoesLeft, GoesRight
  <2> QED
    BY <1>3, <1>4, <1>6, <2>1 DEF PairIs, Less
<1>7. CASE ~(i <= Len(l)) /\ j <= Len(r)
  <2>1. ~GoesLeft(l, r, i, j) /\ GoesRight(l, r, i, j)
    BY <1>7 DEF GoesLeft, GoesRight
  <2> QED
    BY <1>3, <1>4, <1>7, <2>1 DEF PairIs, Less
<1>8. CASE ~(i <= Len(l)) /\ ~(j <= Len(r))
  <2>1. ~GoesLeft(l, r, i, j) /\ ~GoesRight(l, r, i, j)
    BY <1>8 DEF GoesLeft, GoesRight
  <2> QED
    BY <1>3, <1>4, <1>8, <2>1 DEF PairIs, Less
<1> QED
  BY <1>5, <1>6, <1>7, <1>8

\* The items of two trees.
LEMMA TwoTrees ==
    ASSUME NEW t \in Trees, NEW o \in Trees
    PROVE  /\ Items(t) \in Node /\ Sorted(Items(t))
           /\ Items(o) \in Node /\ Sorted(Items(o))
  BY ItemsByRank

\* union
LEMMA UnionIs ==
    ASSUME NEW t \in Trees, NEW o \in Trees
    PROVE  Merges(Items(t), Items(o), Union2(t, o), TRUE, TRUE, TRUE)
<1> DEFINE l == Items(t)
           r == Items(o)
           pairs == MergedPairs(l, r)
           pick(left, right) == IF Less(right, left) THEN right ELSE left
           rows == [n \in DOMAIN pairs |-> pick(pairs[n][1], pairs[n][2])]
<1>1. Union2(t, o) = FlattenSeq(rows)
  BY DEF Union2, PassOn
<1>2. l \in Node /\ Sorted(l) /\ r \in Node /\ Sorted(r)
  BY TwoTrees
<1>3. PICK y \in BOOLEAN, n \in BOOLEAN : y = TRUE /\ n = FALSE
  OBVIOUS
<1> HIDE DEF l, r, pairs
<1>4. ASSUME NEW k \in DOMAIN pairs, NEW i \in Nat \ {0}, NEW j \in Nat \ {0},
             pairs[k][1] = At(l, i), pairs[k][2] = At(r, j)
      PROVE  HandsOver(l, r, i, j, rows[k], y, y, y)
  <2>1. PICK left, right : left = pairs[k][1] /\ right = pairs[k][2]
    OBVIOUS
  <2>2. PairIs(l, r, i, j, left, right)
    BY <1>2, <1>4, <2>1, PairsAre
  <2>3. rows[k] = pick(left, right)
    BY <2>1
  <2> HIDE DEF rows
  <2> QED
    BY <1>3, <2>2, <2>3 DEF PairIs, HandsOver, None
<1>5. rows = [k \in DOMAIN pairs |-> rows[k]]
  OBVIOUS
<1> HIDE DEF rows
<1>6. Picks(l, r, pairs, rows, y, y, y)
  BY <1>4 DEF Picks
<1>7. Merges(l, r, FlattenSeq(rows), y, y, y)
  BY <1>2, <1>3, <1>5, <1>6, MergedIs DEF pairs
<1> QED
  BY <1>1, <1>3, <1>7 DEF l, r

\* difference
LEMMA DifferenceIs ==
    ASSUME NEW t \in Trees, NEW o \in Trees
    PROVE  Merges(Items(t), Items(o), Difference(t, o), TRUE, FALSE, FALSE)
<1> DEFINE l == Items(t)
           r == Items(o)
           pairs == MergedPairs(l, r)
           pick(left, right) == IF Less(left, right) THEN left ELSE None
           rows == [n \in DOMAIN pairs |-> pick(pairs[n][1], pairs[n][2])]
<1>1. Difference(t, o) = FlattenSeq(rows)
  BY DEF Difference, PassOn
<1>2. l \in Node /\ Sorted(l) /\ r \in Node /\ Sorted(r)
  BY TwoTrees
<1>3. PICK y \in BOOLEAN, n \in BOOLEAN : y = TRUE /\ n = FALSE
  OBVIOUS
<1> HIDE DEF l, r, pairs
<1>4. ASSUME NEW k \in DOMAIN pairs, NEW i \in Nat \ {0}, NEW j \in Nat \ {0},
             pairs[k][1] = At(l, i), pairs[k][2] = At(r, j)
      PROVE  HandsOver(l, r, i, j, rows[k], y, n, n)
  <2>1. PICK left, right : left = pairs[k][1] /\ right = pairs[k][2]
    OBVIOUS
  <2>2. PairIs(l, r, i, j, left, right)
    BY <1>2, <1>4, <2>1, PairsAre
  <2>3. rows[k] = pick(left, right)
    BY <2>1
  <2> HIDE DEF rows
  <2> QED
    BY <1>3, <2>2, <2>3 DEF PairIs, HandsOver, None
<1>5. rows = [k \in DOMAIN pairs |-> rows[k]]
  OBVIOUS
<1> HIDE DEF rows
<1>6. Picks(l, r, pairs, rows, y, n, n)
  BY <1>4 DEF Picks
<1>7. Merges(l, r, FlattenSeq(rows), y, n, n)
  BY <1>2, <1>3, <1>5, <1>6, MergedIs DEF pairs
<1> QED
  BY <1>1, <1>3, <1>7 DEF l, r

\* symmetric_difference
LEMMA SymmetricDifferenceIs ==
    ASSUME NEW t \in Trees, NEW o \in Trees
    PROVE  Merges(Items(t), Items(o), SymmetricDifference(t, o), TRUE, TRUE, FALSE)
<1> DEFINE l == Items(t)
           r == Items(o)
           pairs == MergedPairs(l, r)
           pick(left, right) == IF Less(left, right) THEN left
                                ELSE IF Less(right, left) THEN right ELSE None
           rows == [n \in DOMAIN pairs |-> pick(pairs[n][1], pairs[n][2])]
<1>1. SymmetricDifference(t, o) = FlattenSeq(rows)
  BY DEF SymmetricDifference, PassOn
<1>2. l \in Node /\ Sorted(l) /\ r \in Node /\ Sorted(r)
  BY TwoTrees
<1>3. PICK y \in BOOLEAN, n \in BOOLEAN : y = TRUE /\ n = FALSE
  OBVIOUS
<1> HIDE DEF l, r, pairs
<1>4. ASSUME NEW k \in DOMAIN pairs, NEW i \in Nat \ {0}, NEW j \in Nat \ {0},
             pairs[k][1] = At(l, i), pairs[k][2] = At(r, j)
      PROVE  HandsOver(l, r, i, j, rows[k], y, y, n)
  <2>1. PICK left, right : left = pairs[k][1] /\ right = pairs[k][2]
    OBVIOUS
  <2>2. PairIs(l, r, i, j, left, right)
    BY <1>2, <1>4, <2>1, PairsAre
  <2>3. rows[k] = pick(left, right)
    BY <2>1
  <2> HIDE DEF rows
  <2> QED
    BY <1>3, <2>2, <2>3 DEF PairIs, HandsOver, None
<1>5. rows = [k \in DOMAIN pairs |-> rows[k]]
  OBVIOUS
<1> HIDE DEF rows
<1>6. Picks(l, r, pairs, rows, y, y, n)
  BY <1>4 DEF Picks
<1>7. Merges(l, r, FlattenSeq(rows), y, y, n)
  BY <1>2, <1>3, <1>5, <1>6, MergedIs DEF pairs
<1> QED
  BY <1>1, <1>3, <1>7 DEF l, r

\* intersection
LEMMA IntersectionIs ==
    ASSUME NEW t \in Trees, NEW o \in Trees
    PROVE  Merges(Items(t), Items(o), Intersection(t, o), FALSE, FALSE, TRUE)
<1> DEFINE l == Items(t)
           r == Items(o)
           pairs == MergedPairs(l, r)
           pick(left, right) == IF left # None /\ right # None /\ Key(left[1]) = Key(right[1])
                                THEN left ELSE None
           rows == [n \in DOMAIN pairs |-> pick(pairs[n][1], pairs[n][2])]
<1>1. Intersection(t, o) = FlattenSeq(rows)
  BY DEF Intersection, PassOn
<1>2. l \in Node /\ Sorted(l) /\ r \in Node /\ Sorted(r)
  BY TwoTrees
<1>3. PICK y \in BOOLEAN, n \in BOOLEAN : y = TRUE /\ n = FALSE
  OBVIOUS
<1> HIDE DEF l, r, pairs
<1>4. ASSUME NEW k \in DOMAIN pairs, NEW i \in Nat \ {0}, NEW j \in Nat \ {0},
             pairs[k][1] = At(l, i), pairs[k][2] = At(r, j)
      PROVE  HandsOver(l, r, i, j, rows[k], n, n, y)
  <2>1. PICK left, right : left = pairs[k][1] /\ right = pairs[k][2]
    OBVIOUS
  <2>2. PairIs(l, r, i, j, left, right)
    BY <1>2, <1>4, <2>1, PairsAre
  <2>3. rows[k] = pick(left, right)
    BY <2>1
  <2> HIDE DEF rows
  <2> QED
    BY <1>3, <2>2, <2>3 DEF PairIs, HandsOver, None
<1>5. rows = [k \in DOMAIN pairs |-> rows[k]]
  OBVIOUS
<1> HIDE DEF rows
<1>6. Picks(l, r, pairs, rows, n, n, y)
  BY <1>4 DEF Picks
<1>7. Merges(l, r, FlattenSeq(rows), n, n, y)
  BY <1>2, <1>3, <1>5, <1>6, MergedIs DEF pairs
<1> QED
  BY <1>1, <1>3, <1>7 DEF l, r

\* Then they are yielded in order, each once.
LEMMA MergeYields ==
    ASSUME NEW l, NEW r, NEW out, NEW kl \in BOOLEAN, NEW kr \in BOOLEAN, NEW kb \in BOOLEAN,
           Merges(l, r, out, kl, kr, kb),
           NEW T, \A x : x \in T <=> Passed(l, r, kl, kr, kb, x)
    PROVE  YieldsInOrder(out, T)
<1>1. /\ out \in Node /\ Sorted(out)
      /\ \A x : x \in ToSet(out) <=> x \in T
  BY DEF Merges
<1>2. DOMAIN out = 1 .. Len(out)
  BY <1>1, NodeType
<1>3. ToSet(out) = T
  BY <1>1
<1> QED
  BY <1>1, <1>2, <1>3 DEF YieldsInOrder, Sorted

\* Nothing is yielded when there is nothing to pass on.
LEMMA MergeYieldsNothing ==
    ASSUME NEW l, NEW r, NEW out, NEW kl \in BOOLEAN, NEW kr \in BOOLEAN, NEW kb \in BOOLEAN,
           Merges(l, r, out, kl, kr, kb)
    PROVE  out = <<>> <=> \A x : ~Passed(l, r, kl, kr, kb, x)
<1>1. out \in Node /\ \A x : x \in ToSet(out) <=> Passed(l, r, kl, kr, kb, x)
  BY DEF Merges
<1>2. out = <<>> <=> Len(out) = 0
  BY <1>1, EmptyNode
<1>3. \A x : x \in ToSet(out) <=> \E i \in 1 .. Len(out) : x = out[i]
  BY <1>1, NodeType
<1>4. Len(out) \in Nat
  BY <1>1, NodeType
<1>5. CASE Len(out) = 0
  BY <1>1, <1>2, <1>3, <1>5
<1>6. CASE Len(out) # 0
  <2>1. out[1] \in ToSet(out)
    BY <1>3, <1>4, <1>6
  <2> QED
    BY <1>1, <1>2, <1>6, <2>1
<1> QED
  BY <1>5, <1>6

\* The merges of the tree with any other are the operations on the sets of their items.
LEMMA TreesMerge ==
    ASSUME tree \in Trees, NEW other \in Trees
    PROVE  MergesWith(other)
<1> DEFINE mine == ToSet(Items(tree))
           theirs == ToSet(Items(other))
           KeysOfAll(T) == {Key(item) : item \in T}
           Lacking(T, K) == {item \in T : Key(item) \notin K}
           myKeys == KeysOfAll(mine)
           theirKeys == KeysOfAll(theirs)
           l == Items(tree)
           r == Items(other)
<1>1. l \in Node /\ r \in Node
  BY TwoTrees
<1>2. \A k : KeyIn(r, k) <=> k \in theirKeys
  BY DEF KeyIn
<1>3. \A k : KeyIn(l, k) <=> k \in myKeys
  BY DEF KeyIn
<1>4. \A x \in mine : Key(x) \in Keys
  BY <1>1, NodeType
<1>5. PICK y \in BOOLEAN, n \in BOOLEAN : y = TRUE /\ n = FALSE
  OBVIOUS
<1>6. /\ Merges(l, r, Union2(tree, other), y, y, y)
      /\ Merges(r, l, Union2(other, tree), y, y, y)
      /\ Merges(l, r, Difference(tree, other), y, n, n)
      /\ Merges(r, l, Difference(other, tree), y, n, n)
      /\ Merges(l, r, SymmetricDifference(tree, other), y, y, n)
      /\ Merges(l, r, Intersection(tree, other), n, n, y)
  BY <1>5, UnionIs, DifferenceIs, SymmetricDifferenceIs, IntersectionIs
<1>7. /\ mine = ToSet(l) /\ theirs = ToSet(r)
      /\ \A T, K, x : x \in Lacking(T, K) <=> x \in T /\ Key(x) \notin K
  OBVIOUS
<1> HIDE DEF mine, theirs, KeysOfAll, Lacking, myKeys, theirKeys, l, r
<1>8. YieldsInOrder(Union2(tree, other), mine \cup Lacking(theirs, myKeys))
  <2>1. \A x : x \in mine \cup Lacking(theirs, myKeys) <=> Passed(l, r, y, y, y, x)
    BY <1>3, <1>5, <1>7 DEF Passed
  <2> QED
    BY <1>6, <2>1, MergeYields
<1>9. YieldsInOrder(Union2(other, tree), theirs \cup Lacking(mine, theirKeys))
  <2>1. \A x : x \in theirs \cup Lacking(mine, theirKeys) <=> Passed(r, l, y, y, y, x)
    BY <1>2, <1>5, <1>7 DEF Passed
  <2> QED
    BY <1>6, <2>1, MergeYields
<1>10. YieldsInOrder(Difference(tree, other), Lacking(mine, theirKeys))
  <2>1. \A x : x \in Lacking(mine, theirKeys) <=> Passed(l, r, y, n, n, x)
    BY <1>2, <1>5, <1>7 DEF Passed
  <2> QED
    BY <1>6, <2>1, MergeYields
<1>11. YieldsInOrder(SymmetricDifference(tree, other), Lacking(mine, theirKeys) \cup Lacking(theirs, myKeys))
  <2>1. \A x : x \in Lacking(mine, theirKeys) \cup Lacking(theirs, myKeys) <=> Passed(l, r, y, y, n, x)
    BY <1>2, <1>3, <1>5, <1>7 DEF Passed
  <2> QED
    BY <1>6, <2>1, MergeYields
<1>12. YieldsInOrder(Intersection(tree, other), Lacking(mine, Keys \ theirKeys))
  <2>1. \A x : x \in Lacking(mine, Keys \ theirKeys) <=> Passed(l, r, n, n, y, x)
    BY <1>2, <1>4, <1>5, <1>7 DEF Passed
  <2> QED
    BY <1>6, <2>1, MergeYields
<1>13. IsSubset(tree, other) = (myKeys \subseteq theirKeys)
  <2>1. Difference(tree, other) = <<>> <=> \A x : ~Passed(l, r, y, n, n, x)
    BY <1>6, MergeYieldsNothing
  <2>2. (\A x : ~Passed(l, r, y, n, n, x)) <=> myKeys \subseteq theirKeys
    BY <1>2, <1>3, <1>5 DEF Passed, KeyIn
  <2> QED
    BY <2>1, <2>2 DEF IsSubset
<1>14. IsSuperset(tree, other) = (theirKeys \subseteq myKeys)
  <2>1. Difference(other, tree) = <<>> <=> \A x : ~Passed(r, l, y, n, n, x)
    BY <1>6, MergeYieldsNothing
  <2>2. (\A x : ~Passed(r, l, y, n, n, x)) <=> theirKeys \subseteq myKeys
    BY <1>2, <1>3, <1>5 DEF Passed, KeyIn
  <2> QED
    BY <2>1, <2>2 DEF IsSuperset
<1>15. IsDisjoint(tree, other) = (myKeys \cap theirKeys = {})
  <2>1. Intersection(tree, other) = <<>> <=> \A x : ~Passed(l, r, n, n, y, x)
    BY <1>6, MergeYieldsNothing
  <2>2. (\A x : ~Passed(l, r, n, n, y, x)) <=> myKeys \cap theirKeys = {}
    BY <1>2, <1>3, <1>5 DEF Passed, KeyIn
  <2> QED
    BY <2>1, <2>2 DEF IsDisjoint
<1> QED
  BY <1>8, <1>9, <1>10, <1>11, <1>12, <1>13, <1>14, <1>15
     DEF MergesWith, mine, theirs, KeysOfAll, Lacking, myKeys, theirKeys

\* So it is for every other tree.
LEMMA InvMerges == TreeInv => MergesAgree
<1> SUFFICES ASSUME TreeInv, NEW c \in Capacities, NEW S \in SUBSET Keys, NEW v \in Values
             PROVE  MergesWith(Other(c, [k \in Keys |-> IF k \in S THEN v ELSE Absent]))
  BY DEF MergesAgree
<1> DEFINE d == [k \in Keys |-> IF k \in S THEN v ELSE Absent]
<1>1. d \in [Keys -> Values \cup {Absent}]
  OBVIOUS
<1> HIDE DEF d
<1>2. tree \in Trees /\ Other(c, d) \in Trees
  BY <1>1, OtherIs DEF TreeInv
<1>3. MergesWith(Other(c, d))
  BY <1>2, TreesMerge
<1> QED
  BY <1>3 DEF d

\* Union, intersection, difference and symmetric_difference, is_subset, is_superset and
\* is_disjoint are those operations on the sets of the items of any two trees, and yield
\* their items in order.
THEOREM MergesAreSetOperations == Spec => []MergesAgree
  BY TreeAlways, InvMerges, PTL
=============================================================================
