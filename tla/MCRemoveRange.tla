---------------------------- MODULE MCRemoveRange ----------------------------
(* RemoveRange on small instances. *)
EXTENDS RemoveRange, SetInstances, TLC

Threads == Permutations(Thread)

FourNodes == Holding(<<{1, 3, 4}, {5, 6}, {7, 9}, {12}>>)

\* Over several nodes, within a node, from the first value, of nothing, and to
\* the last value.
Trimmed == {<<Included(2), Excluded(7)>>, <<Excluded(1), Excluded(3)>>,
            <<Unbounded, Excluded(5)>>, <<Included(13), Excluded(15)>>,
            <<Included(6), Unbounded>>}
=============================================================================
