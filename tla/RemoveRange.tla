----------------------------- MODULE RemoveRange -----------------------------
(***************************************************************************)
(* remove_range of the concurrent set (set.rs), called by the threads of   *)
(* ConcurrentSet among their other operations.                             *)
(***************************************************************************)
EXTENDS ConcurrentSet

CONSTANT Removals   \* the ranges the threads remove; a bound

Unbounded == <<"unbounded">>
Included(v) == <<"included", v>>
Excluded(v) == <<"excluded", v>>

AfterStart(x, bound) ==
    CASE bound[1] = "included" -> x >= bound[2]
      [] bound[1] = "excluded" -> x > bound[2]
      [] OTHER -> TRUE
BeforeEnd(x, bound) ==
    CASE bound[1] = "included" -> x <= bound[2]
      [] bound[1] = "excluded" -> x < bound[2]
      [] OTHER -> TRUE

\* index.lower_bound(bound), as a set of at most one key
Entry(bound) ==
    LET from == {k \in Keys : AfterStart(k, bound)}
    IN IF from = {} THEN {} ELSE {Min(from)}

\* Mutant: the position is that of the first value to drain, not the last to skip.
FrontPosition_Rank(S, start) == Cardinality({x \in S : ~AfterStart(x, start)}) - 1
\* rank(start_bound, true), plus 1
FrontPosition(S, start) == Cardinality({x \in S : ~AfterStart(x, start)})

\* rank(end_bound, true), or the length of the node.  rank counts what lies
\* before the bound when it is the start of a range: for an excluded end also
\* the value that equals it.
BackPosition(S, end) ==
    LET passed == {x \in S : ~AfterStart(x, end)}
    IN IF passed = {} THEN Cardinality(S) ELSE Cardinality(passed) - 1

\* drain(from..to)
Drained(S, from, to) == {x \in S : Rank(S, x) < from \/ Rank(S, x) >= to}

\* Mutant: the entry goes to the smallest value left.
Reinsert_First(map, n, left) == IF left = {} THEN map ELSE [map EXCEPT ![Min(left)] = n]
\* The entry of the node n goes to the greatest value it has left, if any.
Reinsert(map, n, left) == IF left = {} THEN map ELSE [map EXCEPT ![Max(left)] = n]

\* Start and end lead to one node, or the end to none.
RemoveWithin(f, start, end) ==
    LET S == content[index[f]]
        from == FrontPosition(S, start)
        to == IF Entry(end) = {} THEN 0 ELSE BackPosition(S, end)
        left == Drained(S, from, IF from > to THEN Cardinality(S) ELSE to)
    IN /\ content' = [content EXCEPT ![index[f]] = left]
       /\ index' = Reinsert([index EXCEPT ![f] = NoNode], index[f], left)

\* The nodes between lose their entries, the others are trimmed.  Where the end
\* leads to an earlier node than the start, all that follow the start's go.
RemoveAcross(f, b, start, end) ==
    LET F == content[index[f]]
        B == content[index[b]]
        front == Drained(F, FrontPosition(F, start), Cardinality(F))
        back == Drained(B, 0, BackPosition(B, end))
        between == {k \in Keys : k > f /\ (f < b => k < b)}
        kept == [k \in Value |-> IF k \in between \cup {f, b} THEN NoNode ELSE index[k]]
    IN /\ content' = [content EXCEPT ![index[f]] = front, ![index[b]] = back]
       /\ index' = Reinsert(Reinsert(kept, index[f], front), index[b], back)

\* Under index_lock.write(), and the mutexes of the two nodes.
RemoveRange(t, range) ==
    /\ pc[t] = "idle" /\ calls[t] < MaxCalls
    /\ CanWrite
    /\ \A k \in Entry(range[1]) \cup Entry(range[2]) : holder[index[k]] = NoThread
    /\ \/ Entry(range[1]) = {} /\ UNCHANGED structure
       \/ \E f \in Entry(range[1]) :
            IF Entry(range[2]) \subseteq {f} THEN RemoveWithin(f, range[1], range[2])
            ELSE \E b \in Entry(range[2]) : RemoveAcross(f, b, range[1], range[2])
    /\ calls' = [calls EXCEPT ![t] = @ + 1]
    /\ UNCHANGED <<locks, pc, op, val, node, key, ans>>

RemoveRangeNext ==
    \/ Next
    \/ \E t \in Thread, range \in Removals : RemoveRange(t, range)

RemoveRangeSpec == Init /\ [][RemoveRangeNext]_vars

-----------------------------------------------------------------------------
InRange(x, range) == AfterStart(x, range[1]) /\ BeforeEnd(x, range[2])
Removing(range) == \E t \in Thread : RemoveRange(t, range)

\* The end is excluded, and a value inside a node, below the node's key.
EndsInside(range) ==
    /\ range[2][1] = "excluded"
    /\ \E k \in Keys : range[2][2] < k /\ range[2][2] \in content[index[k]]

\* remove_range, where its end is excluded and a value inside a node: over nodes
\* that other threads still have to register anew or to drop, it removes the range
\* and nothing else.  (Other ends remove less, or more: see the README.)
RemovesTheRange == [][
    \A range \in Removals :
      Removing(range) /\ EndsInside(range) =>
        Members' = {x \in Members : ~InRange(x, range)}]_vars
=============================================================================
