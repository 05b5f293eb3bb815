--------------------------- MODULE MCLinearizable ---------------------------
(* ConcurrentSetHistory on small instances. *)
EXTENDS ConcurrentSetHistory, SetInstances, TLC

Threads == Permutations(Thread)
=============================================================================
