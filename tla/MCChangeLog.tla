---------------------------- MODULE MCChangeLog ----------------------------
(* ChangeLog on small instances. *)
EXTENDS ChangeLog, SetInstances, TLC

Threads == Permutations(Thread)
=============================================================================
