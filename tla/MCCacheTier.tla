---------------------------- MODULE MCCacheTier ----------------------------
(* CacheTier on small instances. *)
EXTENDS CacheTier, TLC

TaskSymmetry == Permutations(Tasks)
=============================================================================
