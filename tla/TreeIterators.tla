---------------------------- MODULE TreeIterators ----------------------------
(***************************************************************************)
(* The iterators of the single-threaded set and map (lib.rs) as records    *)
(* that a step maps to what it yields and the iterator it leaves.  A slice *)
(* iterator is the sequence of the items it still has; an exhausted one    *)
(* and none at all are both the empty sequence.                            *)
(***************************************************************************)
EXTENDS Tree

Unbounded == <<"unbounded">>
Included(x) == <<"included", x>>
Excluded(x) == <<"excluded", x>>

Yield(item, it) == [item |-> Some(item), iter |-> it]
Ended(it) == [item |-> None, iter |-> it]

-----------------------------------------------------------------------------
(* Iter and Range: `front` and `back` are ranks, front included; the nodes  *)
(* count from 1.                                                            *)

NewIter(t) ==
    [front |-> 0, frontNode |-> 1, frontRest |-> t.inner[1],
     back |-> t.len, backNode |-> Len(t.inner), backRest |-> Last(t.inner)]

\* Mutant: the ends do not stop where they meet.
IterNext_PastBack(t, it) ==
    LET ahead == {n \in it.frontNode + 1 .. Len(t.inner) : t.inner[n] # <<>>}
        n == IF it.frontRest # <<>> THEN it.frontNode ELSE Min(ahead)
        rest == IF it.frontRest # <<>> THEN it.frontRest ELSE t.inner[n]
    IN IF it.frontRest = <<>> /\ ahead = {}
       THEN Ended([it EXCEPT !.frontNode = Len(t.inner) + 1])
       ELSE Yield(Head(rest), [it EXCEPT !.front = @ + 1, !.frontNode = n,
                                         !.frontRest = Tail(rest)])
\* Iter::next; the code steps over empty nodes by calling itself.
IterNext(t, it) ==
    LET ahead == {n \in it.frontNode + 1 .. Len(t.inner) : t.inner[n] # <<>>}
        n == IF it.frontRest # <<>> THEN it.frontNode ELSE Min(ahead)
        rest == IF it.frontRest # <<>> THEN it.frontRest ELSE t.inner[n]
    IN CASE it.front = it.back -> Ended(it)
         [] it.front # it.back /\ it.frontRest = <<>> /\ ahead = {} ->
              Ended([it EXCEPT !.frontNode = Len(t.inner) + 1])
         [] OTHER ->
              Yield(Head(rest), [it EXCEPT !.front = @ + 1, !.frontNode = n,
                                           !.frontRest = Tail(rest)])

IterNextBack(t, it) ==
    LET behind == {n \in 1 .. it.backNode - 1 : n <= Len(t.inner) /\ t.inner[n] # <<>>}
        n == IF it.backRest # <<>> THEN it.backNode ELSE Max(behind)
        rest == IF it.backRest # <<>> THEN it.backRest ELSE t.inner[n]
    IN CASE it.front = it.back -> Ended(it)
         [] it.front # it.back /\ it.backRest = <<>> /\ behind = {} ->
              Ended([it EXCEPT !.backNode = 1])
         [] OTHER ->
              Yield(Last(rest), [it EXCEPT !.back = @ - 1, !.backNode = n,
                                           !.backRest = Front(rest)])

\* The ranks and places of the first and the last item of a range of ranks.
ResolveRange(t, start, end) ==
    LET front == CASE start[1] = "included" -> start[2]
                   [] start[1] = "excluded" -> start[2] + 1
                   [] OTHER -> 0
        back == CASE end[1] = "included" -> end[2]
                  [] end[1] = "excluded" -> end[2] - 1
                  [] OTHER -> Max({0, Sum(t.index) - 1})
    IN [front |-> front, first |-> LocateIth(t, front),
        back |-> back, last |-> LocateIth(t, back)]

RangeIdx(t, start, end) ==
    LET r == ResolveRange(t, start, end)
        frontNode == r.first[1]
        backNode == r.last[1]
    IN [front |-> r.front, frontNode |-> frontNode,
        frontRest |-> IF frontNode <= Len(t.inner)
          THEN SubSeq(t.inner[frontNode], r.first[2], Len(t.inner[frontNode])) ELSE <<>>,
        back |-> r.back + 1, backNode |-> backNode,
        backRest |-> IF backNode <= Len(t.inner)
          THEN SubSeq(t.inner[backNode], 1, r.last[2]) ELSE <<>>]

\* BTreeSet::range: each bound becomes a rank.
SetRange(t, start, end) ==
    LET from == CASE start[1] = "included" -> TreeRank(t, start[2])
                  [] start[1] = "excluded" -> TreeRank(t, start[2]) + 1
                  [] OTHER -> 0
        to == CASE end[1] = "included" -> TreeRank(t, end[2])
                [] end[1] = "excluded" -> Max({0, TreeRank(t, end[2]) - 1})
                [] OTHER -> Max({0, t.len - 1})
    IN RangeIdx(t, Included(from), Included(to))

\* BTreeMap::range_to_idx: <<1, 0>> is the empty range.
RangeToIdx(t, start, end) ==
    LET Below(k) == RankCmp(t, k)
        from == CASE start[1] = "included" -> Below(start[2])
                  [] start[1] = "excluded" -> RankCmp(t, start[2] + 1)
                  [] OTHER -> 0
        to == CASE end[1] = "included" -> Below(end[2])
                [] end[1] = "excluded" -> Below(end[2]) - 1
                [] OTHER -> t.len - 1
    IN IF to < 0 THEN <<1, 0>> ELSE <<from, to>>

MapRange(t, start, end) ==
    LET r == RangeToIdx(t, start, end) IN RangeIdx(t, Included(r[1]), Included(r[2]))

-----------------------------------------------------------------------------
(* IterMut: here the nodes count from 0 and `back` is included, as in the   *)
(* code, whose conditions compare a node with the number of nodes left      *)
(* between the ends (inner.size_hint().0).                                  *)

NewIterMut(t) ==
    [front |-> 0, frontNode |-> 0, frontRest |-> t.inner[1],
     back |-> t.len - 1, backNode |-> Len(t.inner) - 1,
     backRest |-> IF Len(t.inner) = 1 THEN <<>> ELSE Last(t.inner)]

Between(it) == Max({0, it.backNode - it.frontNode - 1})

IterMutNext(t, it) ==
    LET done == it.front = it.back + 1
        onward == t.inner[it.frontNode + 2]   \* the next node between the ends
    IN CASE done -> Ended(it)
         [] ~done /\ it.frontRest # <<>> ->
              Yield(Head(it.frontRest), [it EXCEPT !.front = @ + 1, !.frontRest = Tail(@)])
         [] ~done /\ it.frontRest = <<>> /\ it.frontNode = Between(it) -> Ended(it)
         [] ~done /\ it.frontRest = <<>> /\ it.frontNode # Between(it)
                  /\ it.frontNode = it.backNode - 1 ->
              IF it.backRest = <<>> THEN Ended(it)
              ELSE Yield(Head(it.backRest), [it EXCEPT !.front = @ + 1, !.backRest = Tail(@)])
         [] OTHER -> Yield(Head(onward), [it EXCEPT !.front = @ + 1, !.frontNode = @ + 1,
                                                    !.frontRest = Tail(onward)])

IterMutNextBack(t, it) ==
    LET done == it.front = it.back + 1
        onward == t.inner[it.backNode]
        frontsTurn == it.frontNode \in {it.backNode, it.backNode - 1}
    IN CASE done -> Ended(it)
         [] ~done /\ it.backRest # <<>> ->
              Yield(Last(it.backRest), [it EXCEPT !.back = @ - 1, !.backRest = Front(@)])
         [] ~done /\ it.backRest = <<>> /\ it.backNode = 0 /\ it.frontNode # 0 -> Ended(it)
         [] ~done /\ it.backRest = <<>> /\ frontsTurn ->
              IF it.frontRest = <<>> THEN Ended(it)
              ELSE Yield(Last(it.frontRest),
                         [it EXCEPT !.back = Max({0, @ - 1}), !.frontRest = Front(@)])
         [] OTHER -> Yield(Last(onward), [it EXCEPT !.back = @ - 1, !.backNode = @ - 1,
                                                    !.backRest = Front(onward)])

-----------------------------------------------------------------------------
(* The merge iterators.  The current items of a MergeIter are the positions *)
(* `left` and `right` in what the iterators of the two sets yield; one past *)
(* the end is None.                                                         *)

At(items, i) == IF i <= Len(items) THEN Some(items[i]) ELSE None

\* Mutant: equal items advance the left side only.
MergeNext_LeftOnly(l, r, m) ==
    LET left == At(l, m.left)
        right == At(r, m.right)
        both == left # None /\ right # None
        goLeft == left # None /\ (~both \/ Key(left[1]) <= Key(right[1]))
        goRight == right # None /\ (~both \/ Key(right[1]) < Key(left[1]))
    IN IF m.start THEN [start |-> FALSE, left |-> 1, right |-> 1]
       ELSE [m EXCEPT !.left = IF goLeft THEN @ + 1 ELSE @,
                      !.right = IF goRight THEN @ + 1 ELSE @]
\* MergeIter::next
MergeNext(l, r, m) ==
    LET left == At(l, m.left)
        right == At(r, m.right)
        both == left # None /\ right # None
        goLeft == left # None /\ (~both \/ Key(left[1]) <= Key(right[1]))
        goRight == right # None /\ (~both \/ Key(right[1]) <= Key(left[1]))
    IN IF m.start THEN [start |-> FALSE, left |-> 1, right |-> 1]
       ELSE [m EXCEPT !.left = IF goLeft THEN @ + 1 ELSE @,
                      !.right = IF goRight THEN @ + 1 ELSE @]

\* Every pair that MergeIter yields, the last being two Nones.
MergedPairs(l, r) ==
    LET merge[n \in 0 .. Len(l) + Len(r) + 1] ==
          IF n = 0 THEN [start |-> TRUE, left |-> 0, right |-> 0]
          ELSE MergeNext(l, r, merge[n - 1])
    IN [n \in 1 .. Len(l) + Len(r) + 1 |-> <<At(l, merge[n].left), At(r, merge[n].right)>>]

\* What an adaptor passes on of the pairs.
PassOn(t, o, Pick(_, _)) ==
    LET pairs == MergedPairs(Items(t), Items(o))
    IN FlattenSeq([n \in DOMAIN pairs |-> Pick(pairs[n][1], pairs[n][2])])

\* The left item comes first (a missing one is above everything).
Less(a, b) == a # None /\ (b = None \/ Key(a[1]) < Key(b[1]))

Union2(t, o) == PassOn(t, o, LAMBDA l, r : IF Less(r, l) THEN r ELSE l)
Difference(t, o) == PassOn(t, o, LAMBDA l, r : IF Less(l, r) THEN l ELSE None)
SymmetricDifference(t, o) == PassOn(t, o, LAMBDA l, r :
    IF Less(l, r) THEN l ELSE IF Less(r, l) THEN r ELSE None)
Intersection(t, o) == PassOn(t, o, LAMBDA l, r :
    IF l # None /\ r # None /\ Key(l[1]) = Key(r[1]) THEN l ELSE None)

IsSubset(t, o) == Difference(t, o) = <<>>
IsSuperset(t, o) == Difference(o, t) = <<>>
IsDisjoint(t, o) == Intersection(t, o) = <<>>

-----------------------------------------------------------------------------
(* Cursor: an index, len() standing for the ghost element past the end.     *)

\* BTreeMap::lower_bound
CursorAt(t, bound) ==
    CASE bound[1] = "included" -> RankCmp(t, bound[2])
      [] bound[1] = "excluded" -> RankCmp(t, bound[2]) + 1
      [] OTHER -> 0

MoveNext(t, idx) == IF idx = t.len THEN 0 ELSE idx + 1
\* Mutant: the cursor does not wrap around.
MovePrev_Stops(t, idx) == IF idx = 0 THEN 0 ELSE idx - 1
MovePrev(t, idx) == IF idx = 0 THEN t.len ELSE idx - 1

PeekNext(t, idx) == IF idx = t.len THEN FirstItem(t) ELSE GetIndex(t, idx + 1)
PeekPrev(t, idx) == IF idx = 0 THEN None ELSE GetIndex(t, idx - 1)

=============================================================================
