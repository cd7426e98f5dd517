---------------------------- MODULE MCAttestation ----------------------------
(* Attestation with symmetric tasks, keys and key ids. *)
EXTENDS Attestation, TLC

Symmetry ==
    Permutations(Tasks) \union Permutations(Keys) \union Permutations(KeyIds)
=============================================================================
