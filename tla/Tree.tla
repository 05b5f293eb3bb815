-------------------------------- MODULE Tree --------------------------------
(***************************************************************************)
(* The single-threaded BTreeSet (lib.rs) as a record: `inner`, the vector  *)
(* of nodes, each a sorted sequence; `index`, the Fenwick tree, as the node *)
(* lengths it was built from; `len`; and `cap`, the node_capacity.  The    *)
(* operations of the code are operators from trees to trees.  An item is a *)
(* pair <<key, value>> that compares by its key alone, as Pair does, so    *)
(* that the same operators serve BTreeMap, a BTreeSet of Pairs.            *)
(*                                                                         *)
(* Nodes and places in a node count from 1, ranks from 0 as in the code.   *)
(* An Option is a sequence of at most one element.                         *)
(***************************************************************************)
EXTENDS Integers, SequencesExt

CONSTANT DefaultCapacity   \* DEFAULT_INNER_SIZE

ASSUME CapacityAssumption == DefaultCapacity \in Nat \ {0}

None == <<>>
Some(x) == <<x>>

\* Pair: Eq, Ord, Borrow
Key(item) == item[1]

(* What the standard library and ftree do *)

\* slice::partition_point
PartitionPoint(verdicts) == Cardinality({i \in DOMAIN verdicts : verdicts[i]})

\* FenwickTree::from_iter(inner.iter().map(len))
Lengths(inner) == [n \in DOMAIN inner |-> Len(inner[n])]

\* The sums of the first lengths, by their number.
Sums(lengths) ==
    LET sum[n \in 0 .. Len(lengths)] == IF n = 0 THEN 0 ELSE sum[n - 1] + lengths[n]
    IN sum

Sum(lengths) == Sums(lengths)[Len(lengths)]

\* FenwickTree::prefix_sum(n, 0): the items of the first n nodes.
PrefixSum(t, n) == Sums(t.index)[n]

\* FenwickTree::index_of: how many nodes lie wholly before position x.
IndexOf(t, x) == Max({0} \cup {n \in DOMAIN t.index : PrefixSum(t, n) < x})

-----------------------------------------------------------------------------
(* Building *)

Empty(capacity) == [inner |-> <<<<>>>>, index |-> <<0>>, len |-> 0, cap |-> capacity]

Default == Empty(DefaultCapacity)
WithMaximumNodeSize(size) == Empty(size)
Clear(t) == Empty(t.cap)

Items(t) == FlattenSeq(t.inner)

-----------------------------------------------------------------------------
(* Finding *)

\* Mutant: a value equal to a node's last one is looked for in the next node.
LocateNode_Late(t, k) ==
    LET before == PartitionPoint([n \in DOMAIN t.inner |->
                    t.inner[n] # <<>> /\ Key(Last(t.inner[n])) <= k])
    IN Min({before + 1, Len(t.inner)})
\* The first node whose last item is not below k, or the last node.
LocateNode(t, k) ==
    LET before == PartitionPoint([n \in DOMAIN t.inner |->
                    t.inner[n] # <<>> /\ Key(Last(t.inner[n])) < k])
    IN Min({before + 1, Len(t.inner)})

\* The same with a closure: item < k in the library, or item <= j for k = j + 1.
LocateNodeCmp(t, k) ==
    LET before == PartitionPoint([n \in DOMAIN t.inner |->
                    t.inner[n] = <<>> \/ Key(Last(t.inner[n])) < k])
    IN Min({before + 1, Len(t.inner)})

ItemsBelow(node, k) == PartitionPoint([i \in DOMAIN node |-> Key(node[i]) < k])

LocateValue(t, k) ==
    LET n == LocateNode(t, k) IN <<n, ItemsBelow(t.inner[n], k) + 1>>

LocateValueCmp(t, k) ==
    LET n == LocateNodeCmp(t, k) IN <<n, ItemsBelow(t.inner[n], k) + 1>>

LocateIth(t, idx) ==
    LET n == IndexOf(t, idx)
        place == idx - PrefixSum(t, n)
    IN IF n < Len(t.inner) /\ place = Len(t.inner[n + 1])
       THEN <<n + 2, 1>> ELSE <<n + 1, place + 1>>

\* self.inner.get(node).and_then(|node| node.get(place))
ItemAt(t, at) ==
    IF at[1] \in DOMAIN t.inner /\ at[2] \in DOMAIN t.inner[at[1]]
    THEN Some(t.inner[at[1]][at[2]]) ELSE None

GetIndex(t, idx) == ItemAt(t, LocateIth(t, idx))

\* The doc says "equal to the value"; the code answers like lower_bound.
Get(t, k) == ItemAt(t, LocateValue(t, k))

LowerBound(t, k) == ItemAt(t, LocateValue(t, k))

ContainsKey(t, k) ==
    LET found == ItemAt(t, LocateValue(t, k))
    IN found # None /\ Key(found[1]) = k

\* contains_cmp and find_cmp with cmp2 = |item| item.key == k
FindCmp(t, k) ==
    LET at == LocateValueCmp(t, k)
        found == ItemAt(t, at)
    IN [exists |-> found # None /\ Key(found[1]) = k, at |-> at]

ContainsCmp(t, k) == FindCmp(t, k).exists

RankOf(t, at) == PrefixSum(t, at[1] - 1) + at[2] - 1
TreeRank(t, k) == RankOf(t, LocateValue(t, k))
RankCmp(t, k) == RankOf(t, LocateValueCmp(t, k))

FirstItem(t) == ItemAt(t, <<1, 1>>)
LastItem(t) == ItemAt(t, <<Len(t.inner), Len(Last(t.inner))>>)

-----------------------------------------------------------------------------
(* Inserting and deleting *)

\* NodeLike::insert: an item that is there stays as it is.
IntoNode(node, item) ==
    LET below == ItemsBelow(node, Key(item))
    IN IF below < Len(node) /\ Key(node[below + 1]) = Key(item)
       THEN node ELSE InsertAt(node, below + 1, item)

\* A full node is halved first, also when the item is then found to be there.
\* (The code adds to the index in place when there was no split.)
TreeInsertAt(t, n, item) ==
    LET node == t.inner[n]
        full == Len(node) = t.cap
        low == SubSeq(node, 1, Len(node) \div 2)
        high == SubSeq(node, Len(node) \div 2 + 1, Len(node))
        nodes == IF full THEN InsertAt([t.inner EXCEPT ![n] = low], n + 1, high)
                 ELSE t.inner
        at == IF full /\ Key(item) >= Key(high[1]) THEN n + 1 ELSE n
        inner == [nodes EXCEPT ![at] = IntoNode(@, item)]
    IN [t EXCEPT !.inner = inner,
                 !.index = IF full THEN Lengths(inner)
                           ELSE [t.index EXCEPT ![n] = @ + Len(inner[n]) - Len(node)],
                 !.len = IF inner = nodes THEN @ ELSE @ + 1]

\* Mutant: an emptied node stays.
DeleteAt_KeepsEmpty(t, at) ==
    [t EXCEPT !.inner = [t.inner EXCEPT ![at[1]] = RemoveAt(@, at[2])],
              !.index = [t.index EXCEPT ![at[1]] = @ - 1], !.len = @ - 1]
\* An emptied node goes, unless it is the only one.
DeleteAt(t, at) ==
    IF Len(t.inner[at[1]]) = 1 /\ Len(t.inner) > 1
    THEN LET inner == RemoveAt(t.inner, at[1])
         IN [t EXCEPT !.inner = inner, !.index = Lengths(inner), !.len = @ - 1]
    ELSE [t EXCEPT !.inner = [t.inner EXCEPT ![at[1]] = RemoveAt(@, at[2])],
                   !.index = [t.index EXCEPT ![at[1]] = @ - 1], !.len = @ - 1]

\* The tree an operation leaves, and its answer.
Result(t, answer) == [tree |-> t, answer |-> answer]

TreeInsert(t, item) ==
    LET after == TreeInsertAt(t, LocateNode(t, Key(item)), item)
    IN Result(after, after.len > t.len)

Delete(t, k) ==
    IF ContainsKey(t, k)
    THEN Result(DeleteAt(t, LocateValue(t, k)), ItemAt(t, LocateValue(t, k)))
    ELSE Result(t, None)

DeleteCmp(t, k) ==
    LET found == FindCmp(t, k)
    IN IF found.exists THEN Result(DeleteAt(t, found.at), ItemAt(t, found.at))
       ELSE Result(t, None)

Take(t, k) == Delete(t, k)
TreeRemove(t, k) == LET r == Delete(t, k) IN Result(r.tree, r.answer # None)

TreeReplace(t, item) ==
    LET taken == Take(t, Key(item))
    IN Result(TreeInsert(taken.tree, item).tree, taken.answer)

\* Deletes what is at a place, if something is.
PopAt(t, at) ==
    IF ItemAt(t, at) = None THEN Result(t, None)
    ELSE Result(DeleteAt(t, at), ItemAt(t, at))

PopFirst(t) == PopAt(t, <<1, 1>>)
PopLast(t) == PopAt(t, <<Len(t.inner), Max({1, Len(Last(t.inner))})>>)
\* Vec::remove panics when there is no such item: idx < len.
PopIndex(t, idx) == PopAt(t, LocateIth(t, idx))

-----------------------------------------------------------------------------
(* Many items at once *)

FromItems(t, items) ==
    LET after[n \in 0 .. Len(items)] ==
          IF n = 0 THEN t ELSE TreeInsert(after[n - 1], items[n]).tree
    IN after[Len(items)]
FromIter(items) == FromItems(Default, items)

\* The places of the items to delete are noted, then deleted from the last.
Retain(t, keys) ==
    LET places == UNION {{n} \X {i \in DOMAIN t.inner[n] : Key(t.inner[n][i]) \notin keys} :
                           n \in DOMAIN t.inner}
        First(S) == CHOOSE a \in S : \A b \in S :
                      a[1] < b[1] \/ (a[1] = b[1] /\ a[2] <= b[2])
        without[S \in SUBSET places] ==
          IF S = {} THEN t ELSE DeleteAt(without[S \ {First(S)}], First(S))
    IN without[places]

\* append: pop_first from the other tree, replace in this one.
TreeAppend(t, other) ==
    LET items == Items(other)
        after[n \in 0 .. Len(items)] ==
          IF n = 0 THEN t ELSE TreeReplace(after[n - 1], items[n]).tree
    IN after[Len(items)]

\* The items from a place on become a tree of their own, with the default
\* capacity; a node left empty goes, unless it is the only one.
CutAt(t, at) ==
    LET node == t.inner[at[1]]
        kept == SubSeq(t.inner, 1, at[1] - 1)
        low == IF at[2] = 1 /\ kept # <<>> THEN kept
               ELSE Append(kept, SubSeq(node, 1, at[2] - 1))
        high == <<SubSeq(node, at[2], Len(node))>>
                  \o SubSeq(t.inner, at[1] + 1, Len(t.inner))
        Tree(inner, capacity) ==
          [inner |-> inner, index |-> Lengths(inner), len |-> Sum(Lengths(inner)),
           cap |-> capacity]
    IN [low |-> Tree(low, t.cap), high |-> Tree(high, DefaultCapacity)]

SplitOff(t, k) == CutAt(t, LocateValue(t, k))
SplitOffCmp(t, k) == CutAt(t, LocateValueCmp(t, k))

=============================================================================
