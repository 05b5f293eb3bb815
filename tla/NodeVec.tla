------------------------------ MODULE NodeVec ------------------------------
(***************************************************************************)
(* The vector of a node (core/node.rs): the operations built on the binary *)
(* search, and the positions that an iterator skips at the ends of a range. *)
(* The properties say that they amount to the set operators of NodeContent, *)
(* which the other modules use.                                            *)
(***************************************************************************)
EXTENDS NodeContent, NodeSearch

CONSTANT Value   \* what a node may hold; a bound

ASSUME ValueAssumption == Value \subseteq Int

VARIABLES
    vec,    \* the vector
    done    \* the last call: its name, its argument and its answer

vars == <<vec, done>>

SearchFor(x) == Search([i \in DOMAIN vec |-> vec[i] - x])

\* Items compare with a bound by a borrowed part, which several items may share.
Borrowed(item) == item \div 2

Skip(kind, q, forward) ==
    PositionsToSkip([i \in DOMAIN vec |-> Borrowed(vec[i]) - q], kind, forward)

Init == vec = <<>> /\ done = [call |-> "with_capacity"]

\* Mutant: the value goes behind the place that search gives.
Insert_Behind(x) ==
    LET s == SearchFor(x) IN
    /\ vec' = IF s.found THEN vec ELSE InsertAt(vec, Min({s.at + 2, Len(vec) + 1}), x)
    /\ done' = [call |-> "insert", value |-> x, new |-> ~s.found, at |-> s.at]

\* NodeLike::insert
Insert(x) ==
    LET s == SearchFor(x) IN
    /\ vec' = IF s.found THEN vec ELSE InsertAt(vec, s.at + 1, x)
    /\ done' = [call |-> "insert", value |-> x, new |-> ~s.found, at |-> s.at]

\* NodeLike::delete; at is NoPosition when there is nothing to delete.
Delete(x) ==
    LET s == SearchFor(x) IN
    /\ vec' = IF s.found THEN RemoveAt(vec, s.at + 1) ELSE vec
    /\ done' = [call |-> "delete", value |-> x, at |-> IF s.found THEN s.at ELSE NoPosition]

\* NodeLike::replace by an equal value, as put_cdc calls it, and try_select.
Replace(x) ==
    LET s == SearchFor(x) IN
    /\ s.found
    /\ vec' = [vec EXCEPT ![s.at + 1] = x]
    /\ done' = [call |-> "replace", value |-> x, at |-> s.at]

\* Mutant: the lower half is the longer one.
Halve_Up ==
    LET cut == (Len(vec) + 1) \div 2 IN
    /\ vec' = SubSeq(vec, 1, cut)
    /\ done' = [call |-> "halve", rest |-> SubSeq(vec, cut + 1, Len(vec))]

\* NodeLike::halve
Halve ==
    LET cut == Len(vec) \div 2 IN
    /\ vec' = SubSeq(vec, 1, cut)
    /\ done' = [call |-> "halve", rest |-> SubSeq(vec, cut + 1, Len(vec))]

Next == Halve \/ \E x \in Value : Insert(x) \/ Delete(x) \/ Replace(x)

Spec == Init /\ [][Next]_vars

-----------------------------------------------------------------------------
Content == ToSet(vec)

\* The vector stays sorted and free of duplicates, which search relies on.
StrictlySorted == \A i, j \in DOMAIN vec : i < j => vec[i] < vec[j]

\* What a call does to the content, and answers, in terms of sets.
SetCall ==
    CASE done'.call = "insert" ->
           /\ Content' = Content \cup {done'.value}
           /\ done'.new = (done'.value \notin Content)
           /\ done'.at = Rank(Content, done'.value)
      [] done'.call = "delete" ->
           /\ Content' = Content \ {done'.value}
           /\ done'.at = IF done'.value \in Content
                         THEN Rank(Content, done'.value) ELSE NoPosition
      [] done'.call = "replace" ->
           /\ vec' = vec /\ done'.at = Rank(Content, done'.value)
      [] done'.call = "halve" ->
           /\ Content' = LowerHalf(Content)
           /\ ToSet(done'.rest) = UpperHalf(Content)

\* Each call does to the content, and answers, what the set operators say:
\* an inserted, found or deleted value is at its rank, and halve cuts at the
\* rank len / 2.
ActsAsSet == [][SetCall]_vars

Outside(kind, q, forward) == {x \in Content :
    \/ IF forward THEN Borrowed(x) < q ELSE Borrowed(x) > q
    \/ kind = "excluded" /\ Borrowed(x) = q}

\* From either end, the number of items that lie outside a bound, less one, and
\* NoPosition for none: also where several items are equal to the bound.
SkipsWhatIsOutside ==
    \A kind \in {"included", "excluded"}, forward \in BOOLEAN,
       q \in {Borrowed(x) : x \in Value} :
      Skip(kind, q, forward) = Cardinality(Outside(kind, q, forward)) - 1
=============================================================================
