---------------------------- MODULE MCSetIterator ----------------------------
(* SetIterator on small instances. *)
EXTENDS SetIterator, SetInstances, TLC

TwoWalked == Holding(<<{1}, {3, 5}>>)
Walks == {<<Unbounded, Unbounded>>, <<Included(3), Excluded(5)>>}
=============================================================================
