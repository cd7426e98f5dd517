------------------------------- MODULE Scoring -------------------------------
(***************************************************************************)
(* utility.py, and what the pruner does with it (pruner.py): the utility   *)
(* U = alpha R + beta C - gamma D of a shard, once as compute_utility()    *)
(* and once as score_batch(), the reference window and the thresholds, in  *)
(* a cycle whose goal may be replaced at every await.                      *)
(*                                                                         *)
(* The tiers are left open: between two awaits of a cycle any put, touch,  *)
(* promotion, eviction, restore or demotion may have happened, so a read   *)
(* of a tier may find any shards, with any embeddings and ages.  What a    *)
(* cycle does to the tiers, await by await, is in TieredStore.             *)
(*                                                                         *)
(* Cosines and recencies are integers, in 1/Scale; embeddings are chosen   *)
(* so that their cosines come out exact.  The thresholds are products of a *)
(* weight and Scale.                                                       *)
(***************************************************************************)
EXTENDS Integers, FiniteSets, FiniteSetsExt

CONSTANTS
    Shards,       \* shard ids
    Embeddings,   \* vectors whose length is a natural number
    Goals,        \* those that the pruner may be given as its goal
    Scale,        \* stands for 1.0
    MaxAge,       \* bound: the greatest age at which a copy is found
    Decay,        \* recency of each age, for 1.0 at age 0
    Alpha, Beta, Gamma, L1Threshold, L2Threshold,  \* UtilityWeights
    Window,       \* reference_window
    None          \* "no goal"

\* The inner product of two embeddings.
Dot(a, b) == a[1] * b[1] + a[2] * b[2]

\* Hours since the last access when the cycle took its time; -1 if the access
\* came later, while the tiers were read, or from a clock that is ahead.
Ages == -1..MaxAge

ASSUME WeightsAssumption ==
    /\ {Alpha, Beta, Gamma, L1Threshold, L2Threshold} \subseteq Nat
    /\ Scale \in Nat \ {0} /\ Window \in Nat \ {0} /\ MaxAge \in Nat \ {0}
ASSUME DecayAssumption ==
    /\ Decay \in [0..MaxAge -> 1..Scale] /\ Decay[0] = Scale
    /\ \A a \in 1..MaxAge : Decay[a] <= Decay[a-1]
ASSUME NoneAssumption == None \notin Goals
ASSUME ShardsAssumption == IsFiniteSet(Shards)
ASSUME EmbeddingAssumption ==
    \A e \in Embeddings \union Goals :
        /\ e \in Int \X Int
        /\ \E n \in 0..Dot(e, e) : n * n = Dot(e, e)

VARIABLES
    goal,    \* the pruner's goal, or None
    pc,      \* where the cycle is: "idle", "scanning", "L1" or "L2"
    window,  \* ref_embs: embeddings, by the ids whose they are
    doomed,  \* the shards of the batch that scored too low and are still to be
             \* demoted, with their embeddings
    aims     \* history: the goals there were since that batch was scored

vars == <<goal, pc, window, doomed, aims>>

\* Shards of some ids, with their embeddings.
Populations(ids) == UNION {[found -> Embeddings] : found \in SUBSET ids}
Nobody           == [s \in {} |-> None]

-----------------------------------------------------------------------------
(* utility.py                                                              *)

Length(a) == CHOOSE n \in 0..Dot(a, a) : n * n = Dot(a, a)

\* cosine(); a zero vector has cosine 0 with everything.
Cosine(a, b) ==
    IF Dot(a, a) = 0 \/ Dot(b, b) = 0 THEN 0
    ELSE (Scale * Dot(a, b)) \div (Length(a) * Length(b))

\* recency(): an access in the future counts as one now.
Recency(age) == Decay[IF age < 0 THEN 0 ELSE age]

\* Mutant: it counts as one that is as long ago.
BatchRecencyAbsolute(age) == Decay[Max({age, -age})]

\* The same in score_batch().
BatchRecency(age) == Decay[Max({age, 0})]

\* The similarities of e to the embeddings refs, and the best of them.
Sims(e, refs) == [w \in DOMAIN refs |-> Cosine(e, refs[w])]
Top(sims)     == Max({sims[w] : w \in DOMAIN sims})

\* "Numerically 1": taken for the shard itself.
Matches(sims) == {w \in DOMAIN sims : sims[w] = Scale}

\* Mutant: the best of what is not a match, as np.unique would leave it.
SecondDistinct(sims) ==
    LET rest == {sims[w] : w \in DOMAIN sims \ Matches(sims)}
    IN  IF rest = {} THEN 0 ELSE Max(rest)

\* The second of the sorted similarities; equals count one by one.
Second(sims) ==
    LET first == CHOOSE w \in DOMAIN sims : sims[w] = Top(sims)
    IN  Max({sims[w] : w \in DOMAIN sims \ {first}})

\* redundancy(), the scalar version.
Redundancy(e, refs) ==
    LET sims == Sims(e, refs)
    IN  CASE DOMAIN refs = {}                                   -> 0
          [] Matches(sims) # {} /\ Cardinality(DOMAIN refs) > 1 -> Second(sims)
          [] OTHER                                              -> Top(sims)

\* The same in score_batch(): a match that stands alone counts for nothing.
BatchRedundancy(e, refs) ==
    LET sims == Sims(e, refs)
    IN  CASE DOMAIN refs = {}                                   -> 0
          [] DOMAIN refs # {} /\ Matches(sims) = {}             -> Top(sims)
          [] Matches(sims) # {} /\ Cardinality(DOMAIN refs) > 1 -> Second(sims)
          [] OTHER                                              -> 0

\* Relevance; without a goal there is none.
Relevance(e) == IF goal = None THEN 0 ELSE Cosine(e, goal)

\* The same in score_batch().
BatchRelevance(e) == IF goal # None THEN Cosine(e, goal) ELSE 0

\* Mutant: relevance and recency change weights.
UtilitySwapped(r, c, d) == Beta * r + Alpha * c - Gamma * d

Utility(r, c, d) == Alpha * r + Beta * c - Gamma * d

ComputeUtility(e, age, refs) ==
    Utility(Relevance(e), Recency(age), Redundancy(e, refs))

ScoreBatch(e, age, refs) ==
    Utility(BatchRelevance(e), BatchRecency(age), BatchRedundancy(e, refs))

-----------------------------------------------------------------------------
(* run_once()                                                              *)

\* What newest_embeddings(k) may find: at most k members of L1 whose blob is
\* still there.
Newest(k) == {refs \in Populations(Shards) : Cardinality(DOMAIN refs) <= k}

\* The embeddings that score below the threshold at some age.
Low(threshold) ==
    {e \in Embeddings :
        \E age \in Ages : ScoreBatch(e, age, window) < Scale * threshold}

\* The part of a scan that a tier is to lose.
Batches(threshold) == {batch \in Populations(Shards) :
                          \A s \in DOMAIN batch : batch[s] \in Low(threshold)}

TypeOK ==
    /\ goal \in Goals \union {None}
    /\ pc \in {"idle", "scanning", "L1", "L2"}
    /\ window \in Newest(Window)
    /\ doomed \in Populations(Shards)
    /\ aims \subseteq Goals \union {None}

Init ==
    /\ goal = None /\ pc = "idle"
    /\ window = Nobody /\ doomed = Nobody
    /\ aims = {}

\* set_goal(): at any time.
SetGoal(e) ==
    /\ goal' = e
    /\ aims' = IF doomed = Nobody THEN {} ELSE aims \union {e}
    /\ UNCHANGED <<pc, window, doomed>>

\* Mutant: the last index of ZREVRANGE is taken to be exclusive.
BeginInclusive ==
    /\ pc = "idle"
    /\ window' \in Newest(Window + 1)
    /\ pc' = "scanning"
    /\ UNCHANGED <<goal, doomed, aims>>

\* A cycle that has the prune lock reads the window.
Begin ==
    /\ pc = "idle"
    /\ window' \in Newest(Window)
    /\ pc' = "scanning"
    /\ UNCHANGED <<goal, doomed, aims>>

\* _demote_tier(), up to its first await: the shards of the scan are scored
\* together, for the goal of the moment.
Score(threshold) ==
    /\ doomed' \in Batches(threshold)
    /\ aims' = IF doomed' = Nobody THEN {} ELSE {goal}
    /\ UNCHANGED <<goal, window>>

\* Both tiers have been scanned; L1 is scored.
ScoreL1 ==
    /\ pc = "scanning" /\ pc' = "L1"
    /\ Score(L1Threshold)

\* The L1 batch is through; L2 is scored, as it was when it was scanned.
ScoreL2 ==
    /\ pc = "L1" /\ pc' = "L2"
    /\ doomed = Nobody
    /\ Score(L2Threshold)

\* The next shard of the batch is demoted.
Demote(s) ==
    /\ s \in DOMAIN doomed
    /\ doomed' = [t \in DOMAIN doomed \ {s} |-> doomed[t]]
    /\ aims' = IF doomed' = Nobody THEN {} ELSE aims
    /\ UNCHANGED <<goal, pc, window>>

Over ==
    /\ pc' = "idle"
    /\ window' = Nobody /\ doomed' = Nobody /\ aims' = {}
    /\ UNCHANGED goal

Finish == pc = "L2" /\ doomed = Nobody /\ Over

\* An await raises, or stop() cancels the cycle at it.
Break == pc # "idle" /\ Over

Next ==
    \/ \E e \in Goals \union {None} : SetGoal(e)
    \/ Begin
    \/ ScoreL1
    \/ ScoreL2
    \/ \E s \in Shards : Demote(s)
    \/ Finish
    \/ Break

Spec == Init /\ [][Next]_vars

-----------------------------------------------------------------------------
(* Properties.                                                             *)

\* utility.py:57, "the single source of truth for scoring", and test_utility.py:
\* the batch scores what the scalar function does, for every embedding and age,
\* and every window and goal of a cycle; only a match that is alone in the
\* window costs Gamma in one of them and nothing in the other.
BatchMatchesScalar ==
    \A e \in Embeddings, age \in Ages :
        LET batch  == ScoreBatch(e, age, window)
            scalar == ComputeUtility(e, age, window)
        IN  IF Cardinality(DOMAIN window) = 1 /\ Matches(Sims(e, window)) # {}
            THEN batch = scalar + Gamma * Scale
            ELSE batch = scalar

\* The window without s.
Others(s) == [w \in DOMAIN window \ {s} |-> window[w]]

\* ARCHITECTURE.md: "D <- max_cosine(m.embedding, ref_set \ {m})".  The code
\* does not know who is in the window and goes by the value instead.  For a
\* shard that the window has as the scan has it that is the same; a shard
\* outside it escapes the penalty of exactly one duplicate, never of two.
PeersOnly ==
    \A s \in Shards, e \in Embeddings :
        (s \in DOMAIN window => window[s] = e) =>
            LET sims  == Sims(e, window)
                peers == Sims(e, Others(s))
            IN  \/ BatchRedundancy(e, window)
                      = IF DOMAIN peers = {} THEN 0 ELSE Top(peers)
                \/ s \notin DOMAIN window /\ Cardinality(Matches(sims)) = 1

\* A perfect match pays for the worst penalty and for either threshold; so it
\* does with the weights of UtilityWeights.
SignalDominates ==
    /\ Alpha >= Gamma + L1Threshold
    /\ Alpha >= Gamma + L2Threshold

\* e is a perfect match of the goal g.
Perfect(e, g) == g # None /\ Cosine(e, g) = Scale

\* "Signal dominant over decay": where it is, no cycle is about to demote a shard
\* that is a perfect match of every goal there was since its batch was scored,
\* however old and however redundant it is; only for a goal that has been
\* replaced meanwhile may such a shard go.
GoalKept ==
    \A s \in DOMAIN doomed : \E g \in aims : ~Perfect(doomed[s], g)
=============================================================================
