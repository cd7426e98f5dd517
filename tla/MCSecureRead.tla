---------------------------- MODULE MCSecureRead ----------------------------
(* SecureRead with a content that no pattern matches, one that is warned of *)
(* and one that two patterns flag.                                         *)
EXTENDS SecureRead, TLC

CONSTANTS f1, f2, w1

WarnPatterns == {w1}
FlagPatterns == {f1, f2}
Texts        == {{}, {w1}, {f1, f2}}

Actors == Permutations(Clients)
=============================================================================
