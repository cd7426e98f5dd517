---------------------------- MODULE MCGovernor ----------------------------
(* Governor with two processes. *)
EXTENDS Governor, TLC

InstanceSymmetry == Permutations(Instances)
=============================================================================
