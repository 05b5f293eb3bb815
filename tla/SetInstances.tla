---------------------------- MODULE SetInstances ----------------------------
(* Values of ConcurrentSet's constants for TLC. *)
EXTENDS Integers, Sequences

Nodes == 1..7
Nowhere == 0

\* Nodes 1 .. Len(s) hold the sets of the sequence s, the others are free.
Holding(s) == [n \in Nodes |-> IF n \in DOMAIN s THEN s[n] ELSE {}]

Empty == Holding(<<>>)
One == Holding(<<{4}>>)
OneNode == Holding(<<{4, 9}>>)
\* A node that can be emptied below two that keep a value each (1 and 9).
Anchored == Holding(<<{0}, {1, 5}, {9}>>)
=============================================================================
