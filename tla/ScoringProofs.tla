---------------------------- MODULE ScoringProofs ----------------------------
(* Theorems about Scoring. *)
EXTENDS Scoring, FiniteSetTheorems, NumberLemmas, TLAPS

USE DEF Ages

-----------------------------------------------------------------------------
(* Types.                                                                  *)

\* What a population is, and what is one.
LEMMA PopulationFacts ==
    ASSUME NEW ids, NEW f \in Populations(ids)
    PROVE  /\ DOMAIN f \subseteq ids
           /\ \A s \in DOMAIN f : f[s] \in Embeddings
<1>1. PICK found \in SUBSET ids : f \in [found -> Embeddings]
    BY DEF Populations
<1> QED BY <1>1

LEMMA PopulationIf ==
    ASSUME NEW ids, NEW found \in SUBSET ids, NEW f \in [found -> Embeddings]
    PROVE  f \in Populations(ids)
BY DEF Populations

\* There is always the empty one.
LEMMA NobodyFacts ==
    /\ DOMAIN Nobody = {}
    /\ Nobody \in Populations(Shards)
    /\ Nobody \in Newest(Window)
<1>1. DOMAIN Nobody = {} /\ Nobody \in [{} -> Embeddings]
    BY DEF Nobody
<1>2. Nobody \in Populations(Shards)
    BY <1>1, PopulationIf
<1>3. Cardinality(DOMAIN Nobody) = 0 /\ 0 <= Window
    BY <1>1, FS_EmptySet, WeightsAssumption
<1> QED BY <1>1, <1>2, <1>3 DEF Newest

LEMMA TypeInit == Init => TypeOK
BY NobodyFacts DEF Init, TypeOK

LEMMA TypeStep == TypeOK /\ [Next]_vars => TypeOK'
<1> SUFFICES ASSUME TypeOK, [Next]_vars PROVE TypeOK'
    OBVIOUS
<1> USE DEF TypeOK
<1>1. ASSUME NEW e \in Goals \union {None}, SetGoal(e) PROVE TypeOK'
    BY <1>1 DEF SetGoal
<1>2. CASE Begin
    BY <1>2 DEF Begin
<1>3. ASSUME NEW threshold, Score(threshold)
      PROVE  /\ doomed' \in Populations(Shards) /\ aims' \subseteq Goals \union {None}
             /\ UNCHANGED <<goal, window>>
    BY <1>3 DEF Score, Batches
<1>4. CASE ScoreL1
    BY <1>3, <1>4 DEF ScoreL1
<1>5. CASE ScoreL2
    BY <1>3, <1>5 DEF ScoreL2
<1>6. ASSUME NEW s \in Shards, Demote(s) PROVE TypeOK'
    <2>1. doomed' \in Populations(Shards)
        <3>1. /\ DOMAIN doomed \subseteq Shards
              /\ \A t \in DOMAIN doomed : doomed[t] \in Embeddings
            BY PopulationFacts
        <3>2. doomed' \in [DOMAIN doomed \ {s} -> Embeddings]
            BY <1>6, <3>1 DEF Demote
        <3> QED BY <3>1, <3>2, PopulationIf
    <2> QED BY <1>6, <2>1 DEF Demote
<1>7. ASSUME Over PROVE TypeOK'
    BY <1>7, NobodyFacts DEF Over
<1>8. CASE UNCHANGED vars
    BY <1>8 DEF vars
<1> QED
    BY <1>1, <1>2, <1>4, <1>5, <1>6, <1>7, <1>8 DEF Next, Finish, Break

\* The goal, the window and the batch keep their types.
THEOREM Typing == Spec => []TypeOK
BY TypeInit, TypeStep, PTL DEF Spec

-----------------------------------------------------------------------------
(* The two scoring functions.                                              *)

\* The length of a vector is a natural number, and zero only for zero.
LEMMA LengthNat ==
    ASSUME NEW e \in Embeddings \union Goals
    PROVE  /\ Dot(e, e) \in Int
           /\ Length(e) \in Nat
           /\ Dot(e, e) # 0 => Length(e) > 0
<1>1. e[1] \in Int /\ e[2] \in Int
    BY EmbeddingAssumption
<1>2. Dot(e, e) \in Int
    BY <1>1 DEF Dot
<1>3. \E n \in 0..Dot(e, e) : n * n = Dot(e, e)
    BY EmbeddingAssumption
<1>4. Length(e) \in 0..Dot(e, e) /\ Length(e) * Length(e) = Dot(e, e)
    BY <1>3 DEF Length
<1> QED BY <1>2, <1>4

\* Cosines are integers, in 1/Scale.
LEMMA CosineInt ==
    ASSUME NEW a \in Embeddings \union Goals, NEW b \in Embeddings \union Goals
    PROVE  Cosine(a, b) \in Int
<1>1. a[1] \in Int /\ a[2] \in Int /\ b[1] \in Int /\ b[2] \in Int
    BY EmbeddingAssumption
<1>2. Dot(a, b) \in Int
    BY <1>1 DEF Dot
<1>3. Scale * Dot(a, b) \in Int
    BY <1>2, WeightsAssumption
<1>4. ASSUME Dot(a, a) # 0, Dot(b, b) # 0
      PROVE  (Scale * Dot(a, b)) \div (Length(a) * Length(b)) \in Int
    <2>1. Length(a) \in Nat \ {0} /\ Length(b) \in Nat \ {0}
        BY <1>4, LengthNat
    <2>2. Length(a) * Length(b) \in Nat \ {0}
        BY <2>1
    <2> QED BY <1>3, <2>2
<1> QED BY <1>4 DEF Cosine

\* The reference window is of finitely many shards.
LEMMA WindowFinite ==
    ASSUME TypeOK
    PROVE  /\ IsFiniteSet(DOMAIN window) /\ DOMAIN window \subseteq Shards
           /\ \A w \in DOMAIN window : window[w] \in Embeddings
<1>1. window \in Populations(Shards)
    BY DEF TypeOK, Newest
<1>2. /\ DOMAIN window \subseteq Shards
      /\ \A w \in DOMAIN window : window[w] \in Embeddings
    BY <1>1, PopulationFacts
<1> QED BY <1>2, ShardsAssumption, FS_Subset

\* The best of one similarity is that one.
LEMMA TopOfOne ==
    ASSUME NEW f, NEW w, DOMAIN f = {w}, f[w] \in Int
    PROVE  Top(f) = f[w]
<1>1. {f[x] : x \in DOMAIN f} = {f[w]}
    OBVIOUS
<1>2. \A y \in {f[w]} : f[w] >= y
    OBVIOUS
<1> QED BY <1>1, <1>2 DEF Top, Max

\* The penalties differ exactly for a match that is alone in the window.
LEMMA Penalties ==
    ASSUME NEW e, NEW refs, IsFiniteSet(DOMAIN refs),
           \A w \in DOMAIN refs : Cosine(e, refs[w]) \in Int
    PROVE  LET alone == Cardinality(DOMAIN refs) = 1 /\ Matches(Sims(e, refs)) # {}
           IN  /\ ~alone => BatchRedundancy(e, refs) = Redundancy(e, refs)
               /\ alone => BatchRedundancy(e, refs) = 0 /\ Redundancy(e, refs) = Scale
<1> DEFINE sims == Sims(e, refs)
           all  == DOMAIN refs
<1>1. DOMAIN sims = all /\ \A w \in all : sims[w] = Cosine(e, refs[w])
    BY DEF Sims
<1>2. Cardinality(all) \in Nat /\ (all = {} <=> Cardinality(all) = 0)
    BY FS_CardinalityType, FS_EmptySet
<1>3. Matches(sims) \subseteq all
    BY <1>1 DEF Matches
<1> HIDE DEF sims
<1>4. CASE all = {}
    <2>1. BatchRedundancy(e, refs) = 0
        BY <1>2, <1>3, <1>4 DEF BatchRedundancy, sims
    <2>2. Redundancy(e, refs) = 0
        BY <1>2, <1>3, <1>4 DEF Redundancy, sims
    <2>3. Cardinality(all) # 1
        BY <1>2, <1>4
    <2> QED BY <2>1, <2>2, <2>3
<1>5. CASE all # {} /\ Matches(sims) = {}
    BY <1>5 DEF BatchRedundancy, Redundancy, sims
<1>6. CASE all # {} /\ Matches(sims) # {} /\ Cardinality(all) > 1
    BY <1>6 DEF BatchRedundancy, Redundancy, sims
<1>7. CASE Matches(sims) # {} /\ Cardinality(all) = 1
    <2>1. PICK w : all = {w}
        BY <1>7, FS_Singleton
    <2>2. sims[w] = Scale
        BY <1>1, <1>3, <1>7, <2>1 DEF Matches
    <2>3. Top(sims) = Scale
        BY <1>1, <2>1, <2>2, TopOfOne, WeightsAssumption
    <2> QED BY <1>7, <2>1, <2>3 DEF BatchRedundancy, Redundancy, sims
<1> QED BY <1>2, <1>3, <1>4, <1>5, <1>6, <1>7 DEF sims

\* An access in the future counts as one now for both.
LEMMA Recencies ==
    ASSUME NEW age \in Ages
    PROVE  BatchRecency(age) = Recency(age) /\ Recency(age) \in Nat
<1>1. MaxAge \in Nat /\ age \in Int
    BY WeightsAssumption
<1>2. Max({age, 0}) = IF age < 0 THEN 0 ELSE age
    <2> DEFINE m == IF age < 0 THEN 0 ELSE age
    <2>1. m \in {age, 0} /\ \A y \in {age, 0} : m >= y
        BY <1>1
    <2>2. \A x \in {age, 0} : (\A y \in {age, 0} : x >= y) => x = m
        BY <1>1
    <2> HIDE DEF m
    <2>3. Max({age, 0}) = m
        BY <2>1, <2>2 DEF Max
    <2> QED BY <2>3 DEF m
<1>3. (IF age < 0 THEN 0 ELSE age) \in 0..MaxAge
    BY <1>1
<1>4. \A a \in 0..MaxAge : Decay[a] \in Nat
    BY WeightsAssumption, DecayAssumption
<1> QED BY <1>2, <1>3, <1>4 DEF BatchRecency, Recency

\* So do both look at the goal in the same way.
LEMMA Relevances ==
    ASSUME TypeOK, NEW e \in Embeddings
    PROVE  BatchRelevance(e) = Relevance(e) /\ Relevance(e) \in Int
<1>1. goal \in Goals \union {None}
    BY DEF TypeOK
<1>2. BatchRelevance(e) = Relevance(e)
    BY DEF BatchRelevance, Relevance
<1>3. Relevance(e) \in Int
    BY <1>1, CosineInt DEF Relevance
<1> QED BY <1>2, <1>3

\* For all weights, goals, windows, embeddings and ages the batch scores what the
\* scalar function does, but for a match that is alone in the window.
THEOREM BatchScalar == Spec => []BatchMatchesScalar
<1>1. ASSUME TypeOK, NEW e \in Embeddings, NEW age \in Ages
      PROVE  IF Cardinality(DOMAIN window) = 1 /\ Matches(Sims(e, window)) # {}
             THEN ScoreBatch(e, age, window)
                    = ComputeUtility(e, age, window) + Gamma * Scale
             ELSE ScoreBatch(e, age, window) = ComputeUtility(e, age, window)
    <2> DEFINE alone == Cardinality(DOMAIN window) = 1 /\ Matches(Sims(e, window)) # {}
    <2>1. /\ IsFiniteSet(DOMAIN window)
          /\ \A w \in DOMAIN window : Cosine(e, window[w]) \in Int
        BY <1>1, WindowFinite, CosineInt
    <2>2. /\ BatchRelevance(e) = Relevance(e) /\ Relevance(e) \in Int
          /\ BatchRecency(age) = Recency(age) /\ Recency(age) \in Int
        BY <1>1, Relevances, Recencies
    <2>3. CASE alone
        <3>1. BatchRedundancy(e, window) = 0 /\ Redundancy(e, window) = Scale
            BY <2>1, <2>3, Penalties
        <3>2. \A r, c \in Int :
                 Utility(r, c, 0) = Utility(r, c, Scale) + Gamma * Scale
            <4>1. Alpha \in Int /\ Beta \in Int /\ Gamma \in Int /\ Scale \in Int
                BY WeightsAssumption
            <4> QED BY <4>1 DEF Utility
        <3> QED BY <2>2, <2>3, <3>1, <3>2 DEF ScoreBatch, ComputeUtility
    <2>4. CASE ~alone
        <3>1. BatchRedundancy(e, window) = Redundancy(e, window)
            BY <2>1, <2>4, Penalties
        <3> QED BY <2>2, <2>4, <3>1 DEF ScoreBatch, ComputeUtility
    <2> QED BY <2>3, <2>4
<1>2. TypeOK => BatchMatchesScalar
    BY <1>1 DEF BatchMatchesScalar
<1> QED
    BY TypeInit, TypeStep, <1>2, PTL DEF Spec

-----------------------------------------------------------------------------
(* The penalty is that of the other shards.                                *)

\* The length of a vector is the root of its inner product with itself.
LEMMA LengthSquared ==
    ASSUME NEW e \in Embeddings \union Goals
    PROVE  Length(e) * Length(e) = Dot(e, e)
<1>1. \E n \in 0..Dot(e, e) : n * n = Dot(e, e)
    BY EmbeddingAssumption
<1> QED BY <1>1 DEF Length

\* A cosine is at most 1, by the inequality of Cauchy and Schwarz.
LEMMA CosineBound ==
    ASSUME NEW a \in Embeddings \union Goals, NEW b \in Embeddings \union Goals
    PROVE  Cosine(a, b) \in Int /\ Cosine(a, b) <= Scale
<1>1. a[1] \in Int /\ a[2] \in Int /\ b[1] \in Int /\ b[2] \in Int
    BY EmbeddingAssumption
<1>2. Cosine(a, b) \in Int
    BY CosineInt
<1>3. CASE Dot(a, a) = 0 \/ Dot(b, b) = 0
    BY <1>3, WeightsAssumption DEF Cosine
<1>4. CASE Dot(a, a) # 0 /\ Dot(b, b) # 0
    <2> DEFINE m == Length(a)
               n == Length(b)
               d == Dot(a, b)
    <2>1. m \in Nat \ {0} /\ n \in Nat \ {0}
        BY <1>4, LengthNat
    <2>2. d \in Int /\ d * d <= Dot(a, a) * Dot(b, b)
        BY <1>1, CauchySchwarz DEF Dot
    <2>3. m * m = Dot(a, a) /\ n * n = Dot(b, b)
        BY LengthSquared
    <2>4. Cosine(a, b) = (Scale * d) \div (m * n)
        BY <1>4 DEF Cosine
    <2> HIDE DEF m, n, d
    <2>5. d * d <= (m * n) * (m * n)
        BY <2>1, <2>2, <2>3, SquareOfProduct
    <2>6. m * n \in Nat \ {0}
        BY <2>1
    <2>7. d <= m * n
        BY <2>2, <2>5, <2>6, RootLeq
    <2>8. Scale * d <= Scale * (m * n)
        BY <2>2, <2>6, <2>7, TimesLeq, WeightsAssumption
    <2>9. Scale * d <= (m * n) * Scale /\ Scale * d \in Int
        BY <2>2, <2>6, <2>8, WeightsAssumption
    <2> QED BY <2>4, <2>6, <2>9, DivLeq, WeightsAssumption
<1> QED BY <1>2, <1>3, <1>4

\* A vector matches itself, unless it is zero: that one matches nothing.
LEMMA SelfCosine ==
    ASSUME NEW e \in Embeddings \union Goals
    PROVE  /\ Dot(e, e) # 0 => Cosine(e, e) = Scale
           /\ Dot(e, e) = 0 => \A a : Cosine(e, a) = 0
<1>1. ASSUME Dot(e, e) # 0 PROVE Cosine(e, e) = Scale
    <2>1. Dot(e, e) \in Nat \ {0} /\ Length(e) * Length(e) = Dot(e, e)
        BY <1>1, LengthNat, LengthSquared
    <2>2. (Scale * Dot(e, e)) \div Dot(e, e) = Scale
        BY <2>1, DivExact, WeightsAssumption
    <2> QED BY <1>1, <2>1, <2>2 DEF Cosine
<1> QED BY <1>1 DEF Cosine

\* If one similarity is 1 and none is more, 1 is the best.
LEMMA TopReached ==
    ASSUME NEW f, NEW w \in DOMAIN f, f[w] = Scale,
           \A x \in DOMAIN f : f[x] \in Int /\ f[x] <= Scale
    PROVE  Top(f) = Scale
<1> DEFINE values == {f[x] : x \in DOMAIN f}
<1>1. Scale \in values /\ \A y \in values : Scale >= y /\ y \in Int
    BY WeightsAssumption
<1>2. Top(f) = CHOOSE x \in values : \A y \in values : x >= y
    BY DEF Top, Max
<1> HIDE DEF values
<1>3. Top(f) \in values /\ \A y \in values : Top(f) >= y
    BY <1>1, <1>2
<1> QED BY <1>1, <1>3

\* If two similarities are 1 and none is more, 1 is the second, too.
LEMMA SecondReached ==
    ASSUME NEW f, NEW v \in DOMAIN f, NEW w \in DOMAIN f,
           v # w, f[v] = Scale, f[w] = Scale,
           \A x \in DOMAIN f : f[x] \in Int /\ f[x] <= Scale
    PROVE  Second(f) = Scale
<1> DEFINE first == CHOOSE x \in DOMAIN f : f[x] = Top(f)
           rest  == {f[x] : x \in DOMAIN f \ {first}}
<1>1. Top(f) = Scale
    BY TopReached
<1>2. \E x \in {v, w} : x \in DOMAIN f \ {first}
    OBVIOUS
<1>3. Scale \in rest /\ \A y \in rest : Scale >= y /\ y \in Int
    BY <1>2, WeightsAssumption
<1>4. Second(f) = CHOOSE x \in rest : \A y \in rest : x >= y
    BY DEF Second, Max
<1> HIDE DEF rest
<1>5. Second(f) \in rest /\ \A y \in rest : Second(f) >= y
    BY <1>3, <1>4
<1> QED BY <1>3, <1>5

\* For a shard of the window the penalty is the best similarity to the others,
\* for any finite window ...
LEMMA PeersInside ==
    ASSUME NEW refs, IsFiniteSet(DOMAIN refs), NEW s \in DOMAIN refs,
           \A w \in DOMAIN refs : refs[w] \in Embeddings
    PROVE  LET peers == Sims(refs[s], [w \in DOMAIN refs \ {s} |-> refs[w]])
           IN  BatchRedundancy(refs[s], refs)
                 = IF DOMAIN peers = {} THEN 0 ELSE Top(peers)
<1> DEFINE ids   == DOMAIN refs
           sims  == Sims(refs[s], refs)
           peers == Sims(refs[s], [w \in DOMAIN refs \ {s} |-> refs[w]])
<1>1. DOMAIN sims = ids /\ DOMAIN peers = ids \ {s}
    BY DEF Sims
<1>2. /\ \A w \in ids : sims[w] = Cosine(refs[s], refs[w])
      /\ \A w \in ids \ {s} : peers[w] = sims[w]
    BY DEF Sims
<1>3. \A w \in ids : sims[w] \in Int /\ sims[w] <= Scale
    BY <1>2, CosineBound
<1>4. sims[s] = Scale \/ \A w \in ids : sims[w] = 0
    BY <1>2, SelfCosine
<1>5. Matches(sims) = {w \in ids : sims[w] = Scale}
    BY <1>1 DEF Matches
<1>6. /\ Matches(sims) = {} => BatchRedundancy(refs[s], refs) = Top(sims)
      /\ Matches(sims) # {} /\ Cardinality(ids) > 1
            => BatchRedundancy(refs[s], refs) = Second(sims)
      /\ Matches(sims) # {} /\ ~(Cardinality(ids) > 1)
            => BatchRedundancy(refs[s], refs) = 0
    BY DEF BatchRedundancy
<1> HIDE DEF sims, peers
<1>7. CASE Matches(sims) = {}
    <2>1. \A w \in ids : sims[w] = 0
        BY <1>4, <1>5, <1>7
    <2>2. {sims[w] : w \in DOMAIN sims} = {0}
        BY <1>1, <2>1
    <2>3. ids \ {s} # {} => {peers[w] : w \in DOMAIN peers} = {0}
        BY <1>1, <1>2, <2>1
    <2>4. Max({0}) = 0
        <3>1. \A y \in {0} : 0 >= y
            OBVIOUS
        <3> QED BY <3>1 DEF Max
    <2> QED BY <1>1, <1>6, <1>7, <2>2, <2>3, <2>4 DEF Top, peers
<1>8. CASE Matches(sims) # {} /\ ~(Cardinality(ids) > 1)
    <2>1. Cardinality(ids) \in Nat /\ Cardinality(ids) # 0
        BY FS_CardinalityType, FS_EmptySet
    <2>2. ids = {s}
        BY <1>8, <2>1, FS_Singleton
    <2> QED BY <1>1, <1>6, <1>8, <2>2 DEF peers
<1>9. CASE Matches(sims) # {} /\ Cardinality(ids) > 1
    <2> DEFINE first == CHOOSE w \in DOMAIN sims : sims[w] = Top(sims)
    <2>1. sims[s] = Scale
        BY <1>4, <1>5, <1>9, WeightsAssumption
    <2>2. Top(sims) = Scale
        BY <1>1, <1>3, <2>1, TopReached
    <2>3. first \in ids /\ sims[first] = Scale
        BY <1>1, <2>1, <2>2
    <2>4. Second(sims) = Max({sims[w] : w \in ids \ {first}})
        BY <1>1 DEF Second
    <2>5. Top(peers) = Max({sims[w] : w \in ids \ {s}})
        <3>1. {peers[w] : w \in DOMAIN peers} = {sims[w] : w \in ids \ {s}}
            BY <1>1, <1>2
        <3> QED BY <3>1 DEF Top
    <2>6. ids \ {s} # {}
        <3>1. Cardinality({s}) = 1
            BY FS_Singleton
        <3>2. ids # {s}
            BY <1>9, <3>1
        <3> QED BY <3>2
    <2> HIDE DEF first
    <2>7. CASE first = s
        BY <1>1, <1>6, <1>9, <2>4, <2>5, <2>6, <2>7 DEF peers
    <2>8. CASE first # s
        <3>1. Second(sims) = Scale
            BY <1>1, <1>3, <2>1, <2>3, <2>8, SecondReached
        <3>2. Top(peers) = Scale
            <4>1. first \in DOMAIN peers /\ peers[first] = Scale
                BY <1>1, <1>2, <2>3, <2>8
            <4>2. \A w \in DOMAIN peers : peers[w] \in Int /\ peers[w] <= Scale
                BY <1>1, <1>2, <1>3
            <4> QED BY <4>1, <4>2, TopReached
        <3> QED BY <1>1, <1>6, <1>9, <2>6, <3>1, <3>2 DEF peers
    <2> QED BY <2>7, <2>8
<1> QED BY <1>7, <1>8, <1>9 DEF peers

\* ... and for one outside too, unless it has exactly one match in the window.
LEMMA PeersOutside ==
    ASSUME NEW refs, IsFiniteSet(DOMAIN refs), NEW e \in Embeddings,
           \A w \in DOMAIN refs : refs[w] \in Embeddings,
           Cardinality(Matches(Sims(e, refs))) # 1
    PROVE  BatchRedundancy(e, refs)
             = IF DOMAIN refs = {} THEN 0 ELSE Top(Sims(e, refs))
<1> DEFINE ids  == DOMAIN refs
           sims == Sims(e, refs)
<1>1. DOMAIN sims = ids /\ \A w \in ids : sims[w] = Cosine(e, refs[w])
    BY DEF Sims
<1>2. \A w \in ids : sims[w] \in Int /\ sims[w] <= Scale
    BY <1>1, CosineBound
<1>3. Matches(sims) = {w \in ids : sims[w] = Scale}
    BY <1>1 DEF Matches
<1>4. /\ ids = {} => BatchRedundancy(e, refs) = 0
      /\ ids # {} /\ Matches(sims) = {} => BatchRedundancy(e, refs) = Top(sims)
      /\ Matches(sims) # {} /\ Cardinality(ids) > 1
            => BatchRedundancy(e, refs) = Second(sims)
    <2>1. ids = {} => Matches(sims) = {}
        BY <1>3
    <2> QED BY <2>1 DEF BatchRedundancy
<1> HIDE DEF sims
<1>5. CASE Matches(sims) # {}
    <2>1. PICK v \in Matches(sims) : TRUE
        BY <1>5
    <2>2. PICK w \in Matches(sims) : w # v
        <3>1. Matches(sims) # {v}
            BY FS_Singleton DEF sims
        <3> QED BY <2>1, <3>1
    <2>3. Top(sims) = Scale /\ Second(sims) = Scale
        BY <1>1, <1>2, <1>3, <2>1, <2>2, TopReached, SecondReached
    <2>4. Cardinality(ids) > 1
        <3>1. Cardinality(ids) \in Nat /\ Cardinality(ids) # 0
            BY <1>3, <2>1, FS_CardinalityType, FS_EmptySet
        <3>2. ~ \E x : ids = {x}
            BY <1>3, <2>1, <2>2
        <3>3. Cardinality(ids) # 1
            BY <3>2, FS_Singleton
        <3> QED BY <3>1, <3>3
    <2> QED BY <1>3, <1>4, <1>5, <2>3, <2>4 DEF sims
<1> QED BY <1>4, <1>5 DEF sims

\* For all vectors and any window of a cycle, the penalty that score_batch()
\* charges a shard is for the others alone, although it goes by values; only a
\* shard outside the window can escape a duplicate.
THEOREM Peers == Spec => []PeersOnly
<1>1. ASSUME TypeOK, NEW s \in Shards, NEW e \in Embeddings,
             s \in DOMAIN window => window[s] = e
      PROVE  LET sims  == Sims(e, window)
                 peers == Sims(e, Others(s))
             IN  \/ BatchRedundancy(e, window)
                       = IF DOMAIN peers = {} THEN 0 ELSE Top(peers)
                 \/ s \notin DOMAIN window /\ Cardinality(Matches(sims)) = 1
    <2>1. /\ IsFiniteSet(DOMAIN window)
          /\ \A w \in DOMAIN window : window[w] \in Embeddings
        BY <1>1, WindowFinite
    <2>2. CASE s \in DOMAIN window
        <3>1. window[s] = e
            BY <1>1, <2>2
        <3> QED BY <2>1, <2>2, <3>1, PeersInside DEF Others
    <2>3. CASE s \notin DOMAIN window
        <3>1. DOMAIN Sims(e, window) = DOMAIN window
            BY DEF Sims
        <3>2. Sims(e, Others(s)) = Sims(e, window)
            <4>1. DOMAIN window \ {s} = DOMAIN window
                BY <2>3
            <4> QED BY <4>1 DEF Sims, Others
        <3> QED BY <2>1, <2>3, <3>1, <3>2, PeersOutside
    <2> QED BY <2>2, <2>3
<1>2. TypeOK => PeersOnly
    BY <1>1 DEF PeersOnly
<1> QED
    BY TypeInit, TypeStep, <1>2, PTL DEF Spec

-----------------------------------------------------------------------------
(* The goal outweighs the rest.                                            *)

\* The best of a finite number of similarities is at most 1.
LEMMA MaxBound ==
    ASSUME NEW values \in SUBSET Int, values # {}, \A y \in values : y <= Scale
    PROVE  Max(values) \in Int /\ Max(values) <= Scale
<1>1. Scale \in Int
    BY WeightsAssumption
<1>2. \E x \in values : \A y \in values : y <= x
    BY <1>1, Greatest
<1>3. \E x \in values : \A y \in values : x >= y
    BY <1>2
<1>4. Max(values) \in values
    BY <1>3 DEF Max
<1> QED BY <1>4

\* The penalty for redundancy is at most that of a duplicate.
LEMMA RedundancyBound ==
    ASSUME NEW e \in Embeddings, NEW refs, IsFiniteSet(DOMAIN refs),
           \A w \in DOMAIN refs : refs[w] \in Embeddings
    PROVE  BatchRedundancy(e, refs) \in Int /\ BatchRedundancy(e, refs) <= Scale
<1> DEFINE ids   == DOMAIN refs
           sims  == Sims(e, refs)
           first == CHOOSE w \in DOMAIN sims : sims[w] = Top(sims)
           all   == {sims[w] : w \in DOMAIN sims}
           rest  == {sims[w] : w \in DOMAIN sims \ {first}}
<1>1. DOMAIN sims = ids /\ \A w \in ids : sims[w] \in Int /\ sims[w] <= Scale
    BY CosineBound DEF Sims
<1>2. BatchRedundancy(e, refs) \in {0, Top(sims), Second(sims)}
    <2>1. CASE ids = {}
        <3>1. Matches(sims) = {}
            BY <1>1, <2>1 DEF Matches
        <3> QED BY <2>1, <3>1 DEF BatchRedundancy
    <2>2. CASE ids # {} /\ Matches(sims) = {}
        BY <2>2 DEF BatchRedundancy
    <2>3. CASE ids # {} /\ Matches(sims) # {}
        BY <2>3 DEF BatchRedundancy
    <2> QED BY <2>1, <2>2, <2>3
<1>3. ids # {} => Top(sims) \in Int /\ Top(sims) <= Scale
    <2> HIDE DEF sims
    <2>1. ids # {} => all # {} /\ all \in SUBSET Int /\ \A y \in all : y <= Scale
        BY <1>1
    <2>2. Top(sims) = Max(all)
        BY DEF Top
    <2> HIDE DEF all
    <2> QED BY <2>1, <2>2, MaxBound
<1>4. Cardinality(ids) > 1 => Second(sims) \in Int /\ Second(sims) <= Scale
    <2>1. Cardinality(ids) > 1 => ids \ {first} # {}
        <3>1. ids = {first} => Cardinality(ids) = 1
            BY FS_Singleton
        <3>2. ids = {} => Cardinality(ids) = 0
            BY FS_EmptySet
        <3>3. ids \ {first} = {} => ids = {} \/ ids = {first}
            OBVIOUS
        <3> HIDE DEF first, ids
        <3> QED BY <3>1, <3>2, <3>3
    <2>2. Second(sims) = Max(rest)
        BY DEF Second
    <2> HIDE DEF sims, first
    <2>3. Cardinality(ids) > 1
            => rest # {} /\ rest \in SUBSET Int /\ \A y \in rest : y <= Scale
        BY <1>1, <2>1
    <2> HIDE DEF rest
    <2> QED BY <2>2, <2>3, MaxBound
<1>5. CASE ids = {}
    BY <1>1, <1>5, WeightsAssumption DEF BatchRedundancy, Matches
<1>6. CASE ids # {} /\ Cardinality(ids) > 1
    BY <1>2, <1>3, <1>4, <1>6, WeightsAssumption
<1>7. CASE ids # {} /\ ~(Cardinality(ids) > 1)
    <2>1. BatchRedundancy(e, refs) \in {0, Top(sims)}
        BY <1>7 DEF BatchRedundancy
    <2> QED BY <1>3, <1>7, <2>1, WeightsAssumption
<1> QED BY <1>5, <1>6, <1>7

\* The score of a perfect match reaches both thresholds, at any age.
LEMMA MatchScores ==
    ASSUME SignalDominates, TypeOK, NEW e \in Embeddings, Perfect(e, goal),
           NEW age \in Ages, NEW threshold \in {L1Threshold, L2Threshold}
    PROVE  ~(ScoreBatch(e, age, window) < Scale * threshold)
<1> DEFINE c == BatchRecency(age)
           d == BatchRedundancy(e, window)
<1>1. c \in Nat
    BY Recencies
<1>2. d \in Int /\ d <= Scale
    BY WindowFinite, RedundancyBound
<1>3. ScoreBatch(e, age, window) = Alpha * Scale + Beta * c - Gamma * d
    <2>1. BatchRelevance(e) = Scale
        BY DEF Perfect, BatchRelevance
    <2> QED BY <2>1 DEF ScoreBatch, Utility
<1> HIDE DEF c, d
<1>4. /\ Alpha \in Nat /\ Beta \in Nat /\ Gamma \in Nat
      /\ threshold \in Nat /\ Scale \in Nat
      /\ Gamma + threshold <= Alpha
    BY WeightsAssumption DEF SignalDominates
<1>5. Gamma * d <= Gamma * Scale
    BY <1>2, <1>4, TimesLeq
<1>6. Beta * c >= 0
    BY <1>1, <1>4
<1>7. Scale * (Gamma + threshold) <= Scale * Alpha
    BY <1>4, TimesLeq
<1>8. Gamma * Scale + Scale * threshold <= Alpha * Scale
    BY <1>4, <1>7
<1> QED BY <1>1, <1>2, <1>3, <1>4, <1>5, <1>6, <1>8

\* So it is not in a batch when that is scored.
LEMMA MatchSpared ==
    ASSUME SignalDominates, TypeOK, NEW threshold \in {L1Threshold, L2Threshold},
           Score(threshold)
    PROVE  GoalKept'
<1>1. /\ doomed' \in Batches(threshold)
      /\ aims' = IF doomed' = Nobody THEN {} ELSE {goal}
    BY DEF Score
<1>2. \A s \in DOMAIN doomed' : doomed'[s] \in Low(threshold)
    BY <1>1 DEF Batches
<1>3. \A e \in Low(threshold) : ~Perfect(e, goal)
    BY MatchScores DEF Low
<1>4. DOMAIN doomed' # {} => doomed' # Nobody
    BY NobodyFacts
<1> QED BY <1>1, <1>2, <1>3, <1>4 DEF GoalKept, Perfect

\* No cycle is about to demote what matched every goal since its batch was
\* scored, for all weights for which the signal dominates, and all embeddings,
\* ages, windows and changes of the goal.
THEOREM Kept ==
    ASSUME SignalDominates
    PROVE  Spec => []GoalKept
<1>1. Init => GoalKept
    BY NobodyFacts DEF Init, GoalKept
<1>2. TypeOK /\ GoalKept /\ [Next]_vars => GoalKept'
    <2> SUFFICES ASSUME TypeOK, GoalKept, [Next]_vars PROVE GoalKept'
        OBVIOUS
    <2>1. ASSUME NEW e \in Goals \union {None}, SetGoal(e) PROVE GoalKept'
        <3>1. doomed' = doomed /\ (doomed # Nobody => aims \subseteq aims')
            BY <2>1 DEF SetGoal
        <3> QED BY <3>1, NobodyFacts DEF GoalKept, Perfect
    <2>2. CASE ScoreL1
        BY <2>2, MatchSpared DEF ScoreL1
    <2>3. CASE ScoreL2
        BY <2>3, MatchSpared DEF ScoreL2
    <2>4. ASSUME NEW s \in Shards, Demote(s) PROVE GoalKept'
        <3>1. /\ DOMAIN doomed' \subseteq DOMAIN doomed
              /\ \A t \in DOMAIN doomed' : doomed'[t] = doomed[t]
              /\ DOMAIN doomed' # {} => aims' = aims
            BY <2>4, NobodyFacts DEF Demote
        <3> QED BY <3>1 DEF GoalKept, Perfect
    <2>5. ASSUME Over PROVE GoalKept'
        BY <2>5, NobodyFacts DEF Over, GoalKept
    <2>6. CASE UNCHANGED <<doomed, aims>>
        BY <2>6 DEF GoalKept, Perfect
    <2> QED
        BY <2>1, <2>2, <2>3, <2>4, <2>5, <2>6 DEF Next, Begin, Finish, Break, vars
<1> QED
    BY TypeInit, TypeStep, <1>1, <1>2, PTL DEF Spec
=============================================================================
