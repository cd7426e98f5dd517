--------------------------- MODULE MCTieredStore ---------------------------
(* TieredStore on small instances. *)
EXTENDS TieredStore, TLC

Actors == Permutations(Clients) \union Permutations(Pruners)
            \union Permutations(Shards)
=============================================================================
