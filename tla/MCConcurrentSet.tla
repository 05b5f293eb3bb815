-------------------------- MODULE MCConcurrentSet --------------------------
(* ConcurrentSet on small instances. *)
EXTENDS ConcurrentSet, SetInstances, TLC

Threads == Permutations(Thread)
=============================================================================
