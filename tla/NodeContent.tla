---------------------------- MODULE NodeContent ----------------------------
(***************************************************************************)
(* What the concurrent set needs of a node (core/node.rs).  A node is a    *)
(* sorted vector without duplicates, so its content is the finite set of   *)
(* its values, a position is a rank, and NodeLike::max of a non-empty node *)
(* is FiniteSetsExt!Max.                                                   *)
(***************************************************************************)
EXTENDS Integers, FiniteSets, FiniteSetsExt

\* The position search() finds for x: how many values are smaller.
Rank(S, x) == Cardinality({y \in S : y < x})

\* halve() splits the vector at len / 2: what stays in the node ...
LowerHalf(S) == {x \in S : Rank(S, x) < Cardinality(S) \div 2}

\* ... and what moves to the new node.
UpperHalf(S) == {x \in S : Rank(S, x) >= Cardinality(S) \div 2}

=============================================================================
