----------------------------- MODULE MCMultiMap -----------------------------
(* MultiMap on a small instance. *)
EXTENDS MultiMap

Threads == Permutations(Thread)
=============================================================================
