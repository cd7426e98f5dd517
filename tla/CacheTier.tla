----------------------------- MODULE CacheTier -----------------------------
(***************************************************************************)
(* tiers/cache.py: the Redis tier.  A shard is a blob under its own key,   *)
(* with a TTL, and a member of the sorted set "lethon:hot", scored by      *)
(* last_accessed_at.  put() writes both in one MULTI and then enforces the *)
(* capacity in three more round trips (ZCARD, ZRANGE, a MULTI of deletes), *)
(* between which other tasks and other processes run.                      *)
(*                                                                         *)
(* A blob is represented by the last_accessed_at it carries.  get(), scan()*)
(* and newest_embeddings() change nothing.                                 *)
(***************************************************************************)
EXTENDS Integers, FiniteSets

CONSTANTS
    Shards,    \* shard ids
    Core,      \* the ids installed as L0_CORE
    Tasks,     \* tasks that call put(), touch() and delete()
    Capacity,  \* the capacity of the tier
    MaxNow,    \* bound on the clock
    None       \* "no blob", "not a member"

ASSUME ShardsAssumption == IsFiniteSet(Shards) /\ Core \subseteq Shards
ASSUME CapacityAssumption == Capacity \in Nat /\ MaxNow \in Nat \ {0}
ASSUME NoneAssumption == None \notin Nat

VARIABLES
    blob,      \* SHARD_KEY: last_accessed_at of the stored blob, or None
    hot,       \* HOT_ZSET: score of each member, or None
    pc,        \* where each task's put() is suspended
    overflow,  \* _enforce_capacity's local of that name
    victims,   \* and what its ZRANGE returned
    now,       \* the clock
    torn       \* history: a put() failed and none has read ZCARD since

locals == <<pc, overflow, victims>>
vars   == <<blob, hot, pc, overflow, victims, now, torn>>

Times   == 1..MaxNow
Members == {s \in Shards : hot[s] # None}

TypeOK ==
    /\ blob \in [Shards -> Times \union {None}]
    /\ hot \in [Shards -> Times \union {None}]
    /\ pc \in [Tasks -> {"idle", "zcard", "zrange", "evict"}]
    /\ overflow \in [Tasks -> Nat]
    /\ victims \in [Tasks -> SUBSET Shards]
    /\ now \in Times
    /\ torn \in BOOLEAN

Init ==
    /\ blob = [s \in Shards |-> None]
    /\ hot = [s \in Shards |-> None]
    /\ pc = [t \in Tasks |-> "idle"]
    /\ overflow = [t \in Tasks |-> 0]
    /\ victims = [t \in Tasks |-> {}]
    /\ now = 1
    /\ torn = FALSE

\* The n members with the lowest scores; Redis breaks ties by member name.
Coldest(n, V) ==
    /\ V \subseteq Members
    /\ \A v \in V, w \in Members \ V : hot[v] <= hot[w]
    /\ IF n <= Cardinality(Members) THEN Cardinality(V) = n ELSE V = Members

-----------------------------------------------------------------------------
(* Mutants: slips in the code that the properties below would reveal.      *)

\* "Refresh last_accessed without going through put": ZADD alone.
TouchIndexOnly(t, s) ==
    /\ pc[t] = "idle" /\ hot[s] # None
    /\ hot' = [hot EXCEPT ![s] = now]
    /\ UNCHANGED <<blob, locals, now, torn>>

\* The subtraction the wrong way round.
ZcardSwapped(t) ==
    /\ pc[t] = "zcard"
    /\ pc' = [pc EXCEPT ![t] = "zrange"]
    /\ overflow' = [overflow EXCEPT ![t] = Capacity - Cardinality(Members)]
    /\ torn' = FALSE
    /\ UNCHANGED <<blob, hot, victims, now>>

\* ZRANGE's last index is taken as exclusive: one victim too few.
ZrangeExclusive(t) ==
    /\ pc[t] = "zrange"
    /\ \E V \in SUBSET Members :
          /\ Coldest(overflow[t] - 1, V)
          /\ victims' = [victims EXCEPT ![t] = V]
          /\ pc' = [pc EXCEPT ![t] = IF V = {} THEN "idle" ELSE "evict"]
    /\ overflow' = [overflow EXCEPT ![t] = 0]
    /\ UNCHANGED <<blob, hot, now, torn>>

-----------------------------------------------------------------------------
\* The MULTI of put(): SET ... EX ttl, ZADD.
Store(t, s, accessed) ==
    /\ pc[t] = "idle"
    /\ blob' = [blob EXCEPT ![s] = accessed]
    /\ hot' = [hot EXCEPT ![s] = accessed]
    /\ pc' = [pc EXCEPT ![t] = "zcard"]
    /\ UNCHANGED <<overflow, victims, now, torn>>

\* A new shard is as recent as now, a promoted one as old as its L2 copy.
Put(t, s) == \E accessed \in 1..now : Store(t, s, accessed)

Touch(t, s) == Store(t, s, now)

Zcard(t) ==
    /\ pc[t] = "zcard"
    /\ LET size == Cardinality(Members)
       IN  IF size <= Capacity
           THEN /\ pc' = [pc EXCEPT ![t] = "idle"]
                /\ UNCHANGED overflow
           ELSE /\ pc' = [pc EXCEPT ![t] = "zrange"]
                /\ overflow' = [overflow EXCEPT ![t] = size - Capacity]
    /\ torn' = FALSE
    /\ UNCHANGED <<blob, hot, victims, now>>

Zrange(t) ==
    /\ pc[t] = "zrange"
    /\ \E V \in SUBSET Members :
          /\ Coldest(overflow[t], V)
          /\ victims' = [victims EXCEPT ![t] = V]
          /\ pc' = [pc EXCEPT ![t] = IF V = {} THEN "idle" ELSE "evict"]
    /\ overflow' = [overflow EXCEPT ![t] = 0]
    /\ UNCHANGED <<blob, hot, now, torn>>

\* The MULTI of _enforce_capacity(): DEL of every victim, ZREM of all.
Evict(t) ==
    /\ pc[t] = "evict"
    /\ blob' = [s \in Shards |-> IF s \in victims[t] THEN None ELSE blob[s]]
    /\ hot' = [s \in Shards |-> IF s \in victims[t] THEN None ELSE hot[s]]
    /\ pc' = [pc EXCEPT ![t] = "idle"]
    /\ victims' = [victims EXCEPT ![t] = {}]
    /\ UNCHANGED <<overflow, now, torn>>

\* The pruner's delete(): DEL and ZREM in one MULTI, of prunable shards only.
Delete(t, s) ==
    /\ pc[t] = "idle" /\ s \notin Core /\ hot[s] # None
    /\ blob' = [blob EXCEPT ![s] = None]
    /\ hot' = [hot EXCEPT ![s] = None]
    /\ UNCHANGED <<locals, now, torn>>

\* Redis expires the key; the sorted set knows nothing of it.
Expire(s) ==
    /\ blob[s] # None
    /\ blob' = [blob EXCEPT ![s] = None]
    /\ UNCHANGED <<hot, locals, now, torn>>

Tick ==
    /\ now < MaxNow
    /\ now' = now + 1
    /\ UNCHANGED <<blob, hot, locals, torn>>

\* A round trip of _enforce_capacity() raises, or the process dies there.
Fault(t) ==
    /\ pc[t] # "idle"
    /\ pc' = [pc EXCEPT ![t] = "idle"]
    /\ overflow' = [overflow EXCEPT ![t] = 0]
    /\ victims' = [victims EXCEPT ![t] = {}]
    /\ torn' = TRUE
    /\ UNCHANGED <<blob, hot, now>>

Next ==
    \/ \E t \in Tasks :
          \/ \E s \in Shards : Put(t, s)
          \/ \E s \in Shards : Touch(t, s)
          \/ Zcard(t)
          \/ Zrange(t)
          \/ Evict(t)
          \/ \E s \in Shards : Delete(t, s)
          \/ Fault(t)
    \/ \E s \in Shards : Expire(s)
    \/ Tick

Spec == Init /\ [][Next]_vars

-----------------------------------------------------------------------------
(* Properties.                                                             *)

\* Every live blob is a member of the sorted set, with the blob's own
\* last_accessed_at: scan() and the eviction order see what get() returns,
\* whatever the interleaving of puts, touches, evictions and deletes.
IndexMatchesBlobs == \A s \in Shards : blob[s] # None => hot[s] = blob[s]

\* When no put() is under way, and none failed half way since the last one,
\* the index is within capacity: concurrent puts may evict too much, never
\* too little.
CapacityAtRest ==
    (\A t \in Tasks : pc[t] = "idle") /\ ~torn
        => Cardinality(Members) <= Capacity

\* "Every code path that demotes, archives, or deletes a shard is expected to
\* check" is_prunable: no step deletes a member that is L0_CORE.
CoreNeverEvicted ==
    [][\A s \in Core : hot[s] # None => hot'[s] # None]_vars
=============================================================================
