------------------------------- MODULE TreeMap -------------------------------
(***************************************************************************)
(* The single-threaded BTreeSet and BTreeMap (lib.rs) as a state machine:  *)
(* one tree, on which a caller calls the operations of either (a map is a  *)
(* set of Pairs), its Entry API, and at most one iterator or cursor at a   *)
(* time, while which lives the tree cannot change (it is borrowed).        *)
(***************************************************************************)
EXTENDS TreeIterators

CONSTANTS
    Keys,        \* keys and
    Values,      \* values that are used; bounds
    Absent,      \* no value
    Capacities   \* sizes of with_maximum_node_size

\* A size of 1 is left out: halving a node of one item leaves an empty node.
ASSUME KeyAssumption ==
    /\ Keys \subseteq Int /\ IsFiniteSet(Keys)
    /\ Absent \notin Values
    /\ \A c \in Capacities : c \in 2 .. DefaultCapacity

VARIABLES
    tree,    \* the tree
    it,      \* the iterator or cursor over it
    answer   \* the last call and its answer: `item`, an Option, and `done`

vars == <<tree, it, answer>>

NoIter == [kind |-> "none"]

Read == [call |-> <<"read">>, item |-> None, done |-> FALSE]

-----------------------------------------------------------------------------
(* BTreeMap *)

Assign(t, at, item) ==
    [t EXCEPT !.inner = [t.inner EXCEPT ![at[1]][at[2]] = item]]

\* An item that is there keeps its key and swaps its value.
MapInsert(t, k, v) ==
    LET found == FindCmp(t, k)
    IN IF found.exists
       THEN Result(Assign(t, found.at, <<k, v>>), ItemAt(t, found.at))
       ELSE Result(TreeInsertAt(t, found.at[1], <<k, v>>), None)

MapRemove(t, k) == DeleteCmp(t, k)

GetKeyValue(t, k) ==
    LET found == FindCmp(t, k) IN IF found.exists THEN ItemAt(t, found.at) ELSE None

\* *get_mut(k) = v
AssignAtKey(t, k, v) ==
    LET at == FindCmp(t, k).at
    IN IF FindCmp(t, k).exists THEN Assign(t, at, <<k, v>>) ELSE t

\* *get_mut_index(idx) = v
AssignAtIndex(t, idx, v) ==
    LET at == LocateIth(t, idx)
    IN IF ItemAt(t, at) = None THEN t
       ELSE Assign(t, at, <<Key(ItemAt(t, at)[1]), v>>)

(* Entry: an occupied one is the rank of the key, a vacant one is None. *)
EntryOf(t, k) ==
    IF ContainsCmp(t, k) THEN Some(RankCmp(t, k)) ELSE None

FirstEntry(t) == IF t.len = 0 THEN None ELSE Some(0)
LastEntry(t) == IF t.len > 0 THEN Some(t.len - 1) ELSE None

\* VacantEntry::insert inserts and then goes by the rank the key had before.
VacantInsert(t, k, v) ==
    LET rank == RankCmp(t, k)
        after == MapInsert(t, k, v).tree
    IN Result(after, GetIndex(after, rank))

OrInsert(t, k, v) ==
    LET entry == EntryOf(t, k)
    IN IF entry = None THEN VacantInsert(t, k, v)
       ELSE Result(t, GetIndex(t, entry[1]))

AndModify(t, k, v) ==
    LET entry == EntryOf(t, k)
    IN IF entry = None THEN t ELSE AssignAtIndex(t, entry[1], v)

\* Mutant: the entry is removed by the rank behind its own.
OccupiedRemove_Next(t, entry) == PopIndex(t, entry[1] + 1)
OccupiedRemove(t, entry) == PopIndex(t, entry[1])

OccupiedInsert(t, entry, v) ==
    Result(AssignAtIndex(t, entry[1], v), GetIndex(t, entry[1]))

\* IntoIter, IntoIterMap: the tree is used up from both ends.
IntoIterStep(t, side) == IF side = "front" THEN PopFirst(t) ELSE PopLast(t)

(* What IterMap, Keys and Values make of an item of the set's iterator. *)
AsEntry(item) == item
AsKey(item) == Key(item)
AsValue(item) == item[2]

-----------------------------------------------------------------------------
(* Actions *)

\* No call's answer is still to be taken, and nothing borrows the tree.
Ready == it = NoIter /\ answer = Read

Does(call, t, item, done) ==
    /\ Ready
    /\ tree' = t
    /\ answer' = [call |-> call, item |-> item, done |-> done]
    /\ UNCHANGED it

SetInsert(k, v) == LET r == TreeInsert(tree, <<k, v>>)
                   IN Does(<<"add", k, v>>, r.tree, None, r.answer)

SetReplace(k, v) == LET r == TreeReplace(tree, <<k, v>>)
                    IN Does(<<"put", k, v>>, r.tree, r.answer, r.answer = None)

SetTake(k) == LET r == Take(tree, k)
              IN Does(<<"remove", k>>, r.tree, r.answer, TreeRemove(tree, k).answer)

DoMapInsert(k, v) == LET r == MapInsert(tree, k, v)
                     IN Does(<<"put", k, v>>, r.tree, r.answer, r.answer = None)

DoMapRemove(k) == LET r == MapRemove(tree, k)
                  IN Does(<<"remove", k>>, r.tree, r.answer, r.answer # None)

DoGetMut(k, v) == Does(<<"modify", k, v>>, AssignAtKey(tree, k, v), None,
                       GetKeyValue(tree, k) # None)

DoPop(side) ==
    LET r == IntoIterStep(tree, side)
        rank == IF side = "front" THEN 0 ELSE Max({0, tree.len - 1})
    IN Does(<<"pop", rank>>, r.tree, r.answer, r.answer # None)

DoPopIndex(idx) == /\ idx < tree.len
                   /\ LET r == PopIndex(tree, idx)
                      IN Does(<<"pop", idx>>, r.tree, r.answer, r.answer # None)

DoRetain(S) == Does(<<"keep", S>>, Retain(tree, S), None, FALSE)

DoClear == Does(<<"keep", {}>>, Clear(tree), None, FALSE)

\* The caller goes on with either half.
DoSplitOff(k, half) ==
    LET halves == IF half = "low" THEN SplitOff(tree, k) ELSE SplitOffCmp(tree, k)
        S == {j \in Keys : IF half = "low" THEN j < k ELSE j >= k}
    IN Does(<<"keep", S>>, halves[half], None, FALSE)

\* Another tree with a given value for each of its keys.
Other(capacity, dict) ==
    LET S == {k \in Keys : dict[k] # Absent}
        Nth(i) == CHOOSE k \in S : Cardinality({j \in S : j < k}) = i
        items == [i \in 1 .. Cardinality(S) |-> <<Nth(i - 1), dict[Nth(i - 1)]>>]
    IN FromItems(WithMaximumNodeSize(capacity), items)

DoAppend(capacity, dict) ==
    Does(<<"merge", dict>>, TreeAppend(tree, Other(capacity, dict)), None, FALSE)

DoOrInsert(k, v) == LET r == OrInsert(tree, k, v)
                    IN Does(<<"or_insert", k, v>>, r.tree, r.answer, r.tree.len > tree.len)

DoAndModify(k, v) == Does(<<"modify", k, v>>, AndModify(tree, k, v), None,
                          EntryOf(tree, k) # None)

DoEntryInsert(k, v) ==
    /\ EntryOf(tree, k) # None
    /\ LET r == OccupiedInsert(tree, EntryOf(tree, k), v)
       IN Does(<<"put", k, v>>, r.tree, r.answer, FALSE)

DoEntryRemove(k) ==
    /\ EntryOf(tree, k) # None
    /\ LET r == OccupiedRemove(tree, EntryOf(tree, k))
       IN Does(<<"remove", k>>, r.tree, r.answer, r.answer # None)

\* first_entry() and last_entry(), removed
DoEndRemove(entry) ==
    /\ entry # None
    /\ LET r == OccupiedRemove(tree, entry)
       IN Does(<<"pop", entry[1]>>, r.tree, r.answer, r.answer # None)

(* Iterators: `want` is what one is to yield, `exact` whether the docs say  *)
(* so, `front` and `back` what it has yielded from either end.             *)

Opens(kind, iter, want, exact) ==
    /\ Ready
    /\ it' = [kind |-> kind, iter |-> iter, want |-> want, exact |-> exact,
              front |-> <<>>, back |-> <<>>, ended |-> FALSE]
    /\ UNCHANGED <<tree, answer>>

OpenIter == Opens("entries", NewIter(tree), Items(tree), TRUE)
OpenKeys == Opens("keys", NewIter(tree), [i \in 1 .. tree.len |-> AsKey(Items(tree)[i])], TRUE)
OpenValues ==
    Opens("values", NewIter(tree), [i \in 1 .. tree.len |-> AsValue(Items(tree)[i])], TRUE)
OpenIterMut == Opens("iter_mut", NewIterMut(tree), Items(tree), FALSE)

Bounds == {Unbounded} \cup {Included(k) : k \in Keys} \cup {Excluded(k) : k \in Keys}
Within(item, start, end) ==
    /\ CASE start[1] = "included" -> start[2] <= Key(item)
         [] start[1] = "excluded" -> start[2] < Key(item)
         [] OTHER -> TRUE
    /\ CASE end[1] = "included" -> Key(item) <= end[2]
         [] end[1] = "excluded" -> Key(item) < end[2]
         [] OTHER -> TRUE
Wanted(start, end) ==
    FlattenSeq([i \in DOMAIN Items(tree) |->
                  IF Within(Items(tree)[i], start, end) THEN <<Items(tree)[i]>> ELSE <<>>])

\* The docs' ranges: "Panics if range start > end".
Ordered(start, end) ==
    start # Unbounded /\ end # Unbounded =>
      /\ start[2] <= end[2]
      /\ ~(start[2] = end[2] /\ start[1] = "excluded" /\ end[1] = "excluded")

\* An included end must be in the map, or the range goes on to what follows it.
OpenMapRange(start, end) ==
    /\ Ordered(start, end)
    /\ Opens("entries", MapRange(tree, start, end), Wanted(start, end),
             end[1] = "included" => ContainsCmp(tree, end[2]))

\* A range of the set moreover skips one item from an excluded start that is
\* not there, and takes the first item for one below an excluded end.
OpenSetRange(start, end) ==
    /\ Ordered(start, end)
    /\ Opens("entries", SetRange(tree, start, end), Wanted(start, end),
             /\ end[1] = "included" => ContainsKey(tree, end[2])
             /\ start[1] = "excluded" => ContainsKey(tree, start[2])
             /\ end[1] = "excluded" => TreeRank(tree, end[2]) > 0)

Shown(item) ==
    CASE it.kind = "keys" -> AsKey(item)
      [] it.kind = "values" -> AsValue(item)
      [] OTHER -> AsEntry(item)

Steps(side, step) ==
    /\ it' = [it EXCEPT !.iter = step.iter,
                        !.ended = @ \/ step.item = None,
                        ![side] = IF step.item = None THEN @
                                  ELSE Append(@, Shown(step.item[1]))]
    /\ UNCHANGED <<tree, answer>>

Next == it.kind \in {"entries", "keys", "values"} /\ Steps("front", IterNext(tree, it.iter))
NextBack ==
    it.kind \in {"entries", "keys", "values"} /\ Steps("back", IterNextBack(tree, it.iter))
MutNext == it.kind = "iter_mut" /\ Steps("front", IterMutNext(tree, it.iter))
MutNextBack == it.kind = "iter_mut" /\ Steps("back", IterMutNextBack(tree, it.iter))

OpenCursor(bound) ==
    /\ Ready
    /\ it' = [kind |-> "cursor", at |-> CursorAt(tree, bound)]
    /\ UNCHANGED <<tree, answer>>

MoveCursor(idx) == it' = [it EXCEPT !.at = idx] /\ UNCHANGED <<tree, answer>>
\* From past the ghost element (an excluded bound above every key leads there)
\* the code would go on without end.
CursorNext ==
    it.kind = "cursor" /\ it.at <= tree.len /\ MoveCursor(MoveNext(tree, it.at))
CursorPrev == it.kind = "cursor" /\ MoveCursor(MovePrev(tree, it.at))
CursorIndex == it.kind = "cursor" /\ \E idx \in 0 .. tree.len : MoveCursor(idx)

Drop == it # NoIter /\ it' = NoIter /\ UNCHANGED <<tree, answer>>

\* The caller takes the answer.
Return == answer # Read /\ answer' = Read /\ UNCHANGED <<tree, it>>

Init ==
    /\ \E c \in Capacities : tree = WithMaximumNodeSize(c)
    /\ it = NoIter
    /\ answer = Read

SetStep ==
    \/ \E k \in Keys, v \in Values : SetInsert(k, v) \/ SetReplace(k, v)
    \/ \E k \in Keys : SetTake(k) \/ \E half \in {"low", "high"} : DoSplitOff(k, half)
    \/ \E side \in {"front", "back"} : DoPop(side)
    \/ \E idx \in 0 .. Cardinality(Keys) - 1 : DoPopIndex(idx)
    \/ \E S \in SUBSET Keys : DoRetain(S)
    \/ \E c \in Capacities, dict \in [Keys -> Values \cup {Absent}] : DoAppend(c, dict)
    \/ DoClear

MapStep ==
    \/ \E k \in Keys, v \in Values :
         \/ DoMapInsert(k, v) \/ DoGetMut(k, v)
         \/ DoOrInsert(k, v) \/ DoAndModify(k, v) \/ DoEntryInsert(k, v)
    \/ \E k \in Keys : DoMapRemove(k) \/ DoEntryRemove(k)
    \/ DoEndRemove(FirstEntry(tree)) \/ DoEndRemove(LastEntry(tree))

IteratorStep ==
    \/ OpenIter \/ OpenKeys \/ OpenValues \/ OpenIterMut
    \/ \E start, end \in Bounds : OpenMapRange(start, end) \/ OpenSetRange(start, end)
    \/ Next \/ NextBack \/ MutNext \/ MutNextBack
    \/ \E bound \in Bounds : OpenCursor(bound)
    \/ CursorNext \/ CursorPrev \/ CursorIndex
    \/ Drop

Spec == Init /\ [][SetStep \/ MapStep \/ IteratorStep \/ Return]_vars

-----------------------------------------------------------------------------
(* Properties *)

\* insert_at, delete_at, split_off: the Fenwick tree and len always agree with
\* the nodes, which are sorted across, never empty but for an only one, and
\* within the capacity, so that ranks, positions and splits stay right.
TreeOK ==
    /\ tree.inner # <<>> /\ tree.index = Lengths(tree.inner)
    /\ tree.len = Len(Items(tree))
    /\ \A i, j \in 1 .. tree.len : i < j => Key(Items(tree)[i]) < Key(Items(tree)[j])
    /\ \A n \in DOMAIN tree.inner :
         /\ tree.inner[n] = <<>> => Len(tree.inner) = 1
         /\ Len(tree.inner[n]) <= tree.cap

\* locate_value, locate_ith, rank: through nodes and index, each read finds what
\* it finds in the sorted sequence of the items, for every key and position; and
\* lower_bound puts a cursor on the first item that the bound admits, but for an
\* excluded key that is absent, where the code goes one item too far.
ReadsAgree == Ready =>
    LET items == Items(tree)
        below(k) == Cardinality({i \in DOMAIN items : Key(items[i]) < k})
        upto(k) == Cardinality({i \in DOMAIN items : Key(items[i]) <= k})
        present == {Key(items[i]) : i \in DOMAIN items}
    IN /\ \A k \in Keys :
            /\ TreeRank(tree, k) = below(k) /\ RankCmp(tree, k) = below(k)
            /\ LowerBound(tree, k) = At(items, below(k) + 1)
            /\ ContainsKey(tree, k) = (k \in present)
            /\ ContainsCmp(tree, k) = (k \in present)
            /\ GetKeyValue(tree, k) # None <=> k \in present
            /\ k \in present => Get(tree, k) = GetKeyValue(tree, k)
            /\ GetIndex(tree, CursorAt(tree, Included(k))) = At(items, below(k) + 1)
            /\ k \in present =>
                 GetIndex(tree, CursorAt(tree, Excluded(k))) = At(items, upto(k) + 1)
       /\ \A i \in 0 .. tree.len + 1 : GetIndex(tree, i) = At(items, i + 1)
       /\ FirstItem(tree) = At(items, 1)
       /\ GetIndex(tree, CursorAt(tree, Unbounded)) = At(items, 1)
       /\ LastItem(tree) = IF items = <<>> THEN None ELSE Some(Last(items))

\* The items of T, each once.
YieldsInOrder(items, T) ==
    /\ ToSet(items) = T
    /\ \A i, j \in DOMAIN items : i < j => Key(items[i]) < Key(items[j])

\* The tree merged with another gives what the sets of their items do.
MergesWith(other) ==
    LET mine == ToSet(Items(tree))
        theirs == ToSet(Items(other))
        KeysOfAll(T) == {Key(item) : item \in T}
        But(T, K) == {item \in T : Key(item) \notin K}
        myKeys == KeysOfAll(mine)
        theirKeys == KeysOfAll(theirs)
    IN /\ YieldsInOrder(Union2(tree, other), mine \cup But(theirs, myKeys))
       /\ YieldsInOrder(Union2(other, tree), theirs \cup But(mine, theirKeys))
       /\ YieldsInOrder(Difference(tree, other), But(mine, theirKeys))
       /\ YieldsInOrder(SymmetricDifference(tree, other),
                        But(mine, theirKeys) \cup But(theirs, myKeys))
       /\ YieldsInOrder(Intersection(tree, other), But(mine, Keys \ theirKeys))
       /\ IsSubset(tree, other) = (myKeys \subseteq theirKeys)
       /\ IsSuperset(tree, other) = (theirKeys \subseteq myKeys)
       /\ IsDisjoint(tree, other) = (myKeys \cap theirKeys = {})

\* union, intersection, difference, symmetric_difference: merging the tree with
\* another, in either order and however their nodes are cut, yields the items of
\* the set operation in order, those of the left set where both have one.
MergesAgree ==
    Ready => \A c \in Capacities, S \in SUBSET Keys, v \in Values :
      MergesWith(Other(c, [k \in Keys |-> IF k \in S THEN v ELSE Absent]))

Iterating == it.kind \notin {"none", "cursor"}
YieldedAll == Len(it.front) + Len(it.back) = Len(it.want)

\* Iter, Range, IterMut: however next and next_back alternate across the nodes,
\* they yield the items from either end, none twice and none left out by an
\* iterator that has ended, where the docs say which (iter_mut may leave some out:
\* it ends where the position of its node is the number of nodes that are left).
IteratesInOrder ==
    Iterating /\ (it.exact \/ it.kind = "iter_mut") =>
      /\ Len(it.front) + Len(it.back) <= Len(it.want)
      /\ it.front = SubSeq(it.want, 1, Len(it.front))
      /\ it.back = SubSeq(Reverse(it.want), 1, Len(it.back))
      /\ it.exact /\ it.ended => YieldedAll

\* Cursor: peek_next and peek_prev show where move_next and move_prev go, over
\* the ghost element and around, and so does the item of the rank it is at.
CursorForesees ==
    it.kind = "cursor" =>
      /\ GetIndex(tree, it.at) = At(Items(tree), it.at + 1)
      /\ it.at <= tree.len =>
           /\ PeekNext(tree, it.at) = GetIndex(tree, MoveNext(tree, it.at))
           /\ PeekPrev(tree, it.at) = GetIndex(tree, MovePrev(tree, it.at))

\* The value of each key in a tree.
DictOf(t) ==
    [k \in Keys |->
       LET found == {item \in ToSet(Items(t)) : Key(item) = k}
       IN IF found = {} THEN Absent ELSE (CHOOSE item \in found : TRUE)[2]]

\* Every operation, with all its splitting, dropping of nodes and rebuilding of
\* the index, does to the items and answers what it would on a dictionary.
Promise == INSTANCE AbstractMap WITH
    dict <- DictOf(tree)
BehavesAsMap == Promise!Spec
=============================================================================
