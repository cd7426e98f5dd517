------------------------------ MODULE MCScoring ------------------------------
(* Scoring with the default weights, symmetric shards and two goals. *)
EXTENDS Scoring, TLC

Vectors == {<<5, 0>>, <<6, 8>>, <<-5, 0>>, <<0, 0>>}
Aims    == {<<10, 0>>, <<3, 4>>}
Fading  == [age \in 0..1 |-> <<25, 1>>[age + 1]]

Symmetry == Permutations(Shards)

\* The default weights are among those that the theorem about GoalKept is about.
ASSUME DefaultsDominate == SignalDominates
=============================================================================
