-------------------------- MODULE CacheTierProofs --------------------------
(***************************************************************************)
(* Proofs about CacheTier, for any finite set of shards, any tasks and any *)
(* capacity.  CapacityAtRest is not inductive: while puts are under way    *)
(* the index may exceed the capacity by any number of members.  The        *)
(* strengthening, CapacityOwed, says who owes the eviction at each await.  *)
(***************************************************************************)
EXTENDS CacheTier, FiniteSetTheorems, TLAPS

\* Types, and what a task suspended at a given await has in its locals.
TypeInv ==
    /\ TypeOK
    /\ \A t \in Tasks : pc[t] = "zrange" => overflow[t] > 0

\* The initial state is well typed and its index is empty.
LEMMA TypeInit == Init => TypeInv
<1> SUFFICES ASSUME Init PROVE TypeInv
    OBVIOUS
<1>1. 1 \in Times
    BY CapacityAssumption DEF Times
<1>2. overflow \in [Tasks -> Nat]
    BY DEF Init
<1> QED
    BY <1>1, <1>2 DEF Init, TypeInv, TypeOK

\* The members of the index are finitely many.
LEMMA MembersFinite ==
    /\ IsFiniteSet(Members)
    /\ Cardinality(Members) \in Nat
    /\ \A V \in SUBSET Members :
          /\ IsFiniteSet(V)
          /\ Cardinality(V) \in Nat
          /\ Cardinality(V) <= Cardinality(Members)
          /\ Cardinality(Members \ V) = Cardinality(Members) - Cardinality(V)
<1>1. IsFiniteSet(Members)
    <2>1. Members \in SUBSET Shards
        BY DEF Members
    <2> QED BY <2>1, ShardsAssumption, FS_Subset
<1>2. ASSUME NEW V \in SUBSET Members
      PROVE  /\ IsFiniteSet(V)
             /\ Cardinality(V) \in Nat
             /\ Cardinality(V) <= Cardinality(Members)
             /\ Cardinality(Members \ V) = Cardinality(Members) - Cardinality(V)
    <2>1. IsFiniteSet(V) /\ Cardinality(V) <= Cardinality(Members)
        BY <1>1, FS_Subset
    <2>2. Cardinality(V) \in Nat
        BY <2>1, FS_CardinalityType
    <2>3. Members \cap V = V
        OBVIOUS
    <2>4. Cardinality(Members \ V) = Cardinality(Members) - Cardinality(V)
        BY <1>1, <2>3, FS_Difference
    <2> QED BY <2>1, <2>2, <2>4
<1>3. Cardinality(Members) \in Nat
    BY <1>1, FS_CardinalityType
<1> QED BY <1>1, <1>2, <1>3

\* Every step keeps the types; a task at ZRANGE has something to evict.
LEMMA TypeStep == TypeInv /\ [Next]_vars => TypeInv'
<1> SUFFICES ASSUME TypeInv, [Next]_vars PROVE TypeInv'
    OBVIOUS
<1> USE CapacityAssumption DEF TypeInv, TypeOK, Times, locals
<1>1. ASSUME NEW t \in Tasks, NEW s \in Shards, Put(t, s)
      PROVE  TypeInv'
    BY <1>1 DEF Put, Store
<1>2. ASSUME NEW t \in Tasks, NEW s \in Shards, Touch(t, s)
      PROVE  TypeInv'
    BY <1>2 DEF Touch, Store
<1>3. ASSUME NEW t \in Tasks, Zcard(t)
      PROVE  TypeInv'
    <2>1. Cardinality(Members) \in Nat
        BY MembersFinite
    <2>2. CASE Cardinality(Members) <= Capacity
        BY <1>3, <2>2 DEF Zcard
    <2>3. CASE ~(Cardinality(Members) <= Capacity)
        <3>1. Cardinality(Members) - Capacity \in Nat \ {0}
            BY <2>1, <2>3
        <3>2. /\ pc' = [pc EXCEPT ![t] = "zrange"]
              /\ overflow' = [overflow EXCEPT ![t] = Cardinality(Members) - Capacity]
              /\ torn' = FALSE
              /\ UNCHANGED <<blob, hot, victims, now>>
            BY <1>3, <2>3 DEF Zcard
        <3>3. PICK n \in Nat \ {0} : overflow' = [overflow EXCEPT ![t] = n]
            BY <3>1, <3>2
        <3>4. overflow' \in [Tasks -> Nat] /\ overflow'[t] > 0
            BY <3>3
        <3>5. \A u \in Tasks : pc'[u] = "zrange" => overflow'[u] > 0
            BY <3>2, <3>3
        <3> QED BY <3>2, <3>4, <3>5
    <2> QED BY <2>2, <2>3
<1>4. ASSUME NEW t \in Tasks, Zrange(t)
      PROVE  TypeInv'
    BY <1>4 DEF Zrange, Members
<1>5. ASSUME NEW t \in Tasks, Evict(t)
      PROVE  TypeInv'
    BY <1>5 DEF Evict
<1>6. ASSUME NEW t \in Tasks, NEW s \in Shards, Delete(t, s)
      PROVE  TypeInv'
    BY <1>6 DEF Delete
<1>7. ASSUME NEW t \in Tasks, Fault(t)
      PROVE  TypeInv'
    BY <1>7 DEF Fault
<1>8. ASSUME NEW s \in Shards, Expire(s)
      PROVE  TypeInv'
    BY <1>8 DEF Expire
<1>9. CASE Tick
    BY <1>9 DEF Tick
<1>10. CASE UNCHANGED vars
    BY <1>10 DEF vars
<1> QED
    BY <1>1, <1>2, <1>3, <1>4, <1>5, <1>6, <1>7, <1>8, <1>9, <1>10 DEF Next

\* Redis, the suspended puts and the clock keep their types.
THEOREM Typing == Spec => []TypeOK
<1>1. TypeInv => TypeOK
    BY DEF TypeInv
<1> QED
    BY TypeInit, TypeStep, <1>1, PTL DEF Spec

-----------------------------------------------------------------------------
\* Every live blob is indexed under its own last_accessed_at, because SET and
\* ZADD, and DEL and ZREM, share a MULTI.
THEOREM Index == Spec => []IndexMatchesBlobs
<1>1. Init => IndexMatchesBlobs
    BY DEF Init, IndexMatchesBlobs
<1>2. TypeInv /\ IndexMatchesBlobs /\ [Next]_vars => IndexMatchesBlobs'
    <2> SUFFICES ASSUME TypeInv, IndexMatchesBlobs, [Next]_vars
                 PROVE  IndexMatchesBlobs'
        OBVIOUS
    <2> USE DEF TypeInv, TypeOK, IndexMatchesBlobs
    <2>1. ASSUME NEW t \in Tasks, NEW s \in Shards, NEW k, Store(t, s, k)
          PROVE  IndexMatchesBlobs'
        BY <2>1 DEF Store
    <2>2. ASSUME NEW t \in Tasks, Evict(t)
          PROVE  IndexMatchesBlobs'
        BY <2>2 DEF Evict
    <2>3. ASSUME NEW t \in Tasks, NEW s \in Shards, Delete(t, s)
          PROVE  IndexMatchesBlobs'
        BY <2>3 DEF Delete
    <2>4. ASSUME NEW s \in Shards, Expire(s)
          PROVE  IndexMatchesBlobs'
        BY <2>4 DEF Expire
    <2>5. CASE UNCHANGED <<blob, hot>>
        BY <2>5
    <2> QED
        BY <2>1, <2>2, <2>3, <2>4, <2>5
           DEF Next, Put, Touch, Zcard, Zrange, Fault, Tick, vars
<1> QED
    BY TypeInit, TypeStep, <1>1, <1>2, PTL DEF Spec

-----------------------------------------------------------------------------
\* Who will bring the index back within capacity.
Owes(t) ==
    \/ pc[t] = "zcard"
    \/ pc[t] = "zrange" /\ Cardinality(Members) <= Capacity + overflow[t]
    \/ pc[t] = "evict" /\ Cardinality(Members \ victims[t]) <= Capacity

CapacityOwed ==
    \/ Cardinality(Members) <= Capacity
    \/ torn
    \/ \E t \in Tasks : Owes(t)

\* Within capacity, a step that adds no member stays there.
LEMMA ShrinkKept ==
    ASSUME Members' \subseteq Members, Cardinality(Members) <= Capacity
    PROVE  CapacityOwed'
<1>1. Cardinality(Members') <= Cardinality(Members)
      /\ Cardinality(Members') \in Nat /\ Cardinality(Members) \in Nat
    BY MembersFinite
<1>2. Cardinality(Members') <= Capacity
    BY <1>1, CapacityAssumption
<1> QED
    BY <1>2 DEF CapacityOwed

\* A step of another task that adds no member leaves the debt where it is.
LEMMA DebtKept ==
    ASSUME NEW t \in Tasks, Owes(t), Members' \subseteq Members,
           pc'[t] = pc[t], overflow'[t] = overflow[t], victims'[t] = victims[t],
           overflow[t] \in Nat
    PROVE  Owes(t)'
<1>1. Cardinality(Members') <= Cardinality(Members)
      /\ Cardinality(Members') \in Nat /\ Cardinality(Members) \in Nat
    BY MembersFinite
<1>2. Members' \ victims[t] \subseteq Members \ victims[t]
    OBVIOUS
<1>3. IsFiniteSet(Members \ victims[t])
    BY MembersFinite
<1>4. /\ Cardinality(Members' \ victims[t]) <= Cardinality(Members \ victims[t])
      /\ Cardinality(Members' \ victims[t]) \in Nat
      /\ Cardinality(Members \ victims[t]) \in Nat
    BY <1>2, <1>3, FS_Subset, FS_CardinalityType
<1> QED
    BY <1>1, <1>4, CapacityAssumption DEF Owes

\* Every step pays the debt, passes it on, or leaves it with the task that
\* has it.
LEMMA CapacityStep == TypeInv /\ CapacityOwed /\ [Next]_vars => CapacityOwed'
<1> SUFFICES ASSUME TypeInv, CapacityOwed, [Next]_vars PROVE CapacityOwed'
    OBVIOUS
<1> USE CapacityAssumption DEF TypeInv, TypeOK
<1>1. ASSUME NEW t \in Tasks, NEW s \in Shards, NEW k, Store(t, s, k)
      PROVE  CapacityOwed'
    \* Whatever was owed, the storing task now owes it.
    BY <1>1 DEF Store, CapacityOwed, Owes
<1>2. ASSUME NEW t \in Tasks, Zcard(t)
      PROVE  CapacityOwed'
    <2>1. Members' = Members
        BY <1>2 DEF Zcard, Members
    <2>2. CASE Cardinality(Members) <= Capacity
        BY <2>1, <2>2 DEF CapacityOwed
    <2>3. CASE ~(Cardinality(Members) <= Capacity)
        <3>1. pc'[t] = "zrange"
              /\ overflow'[t] = Cardinality(Members) - Capacity
            BY <1>2, <2>3 DEF Zcard
        <3>2. Cardinality(Members') <= Capacity + overflow'[t]
            BY <2>1, <3>1, MembersFinite
        <3> QED BY <3>1, <3>2 DEF CapacityOwed, Owes
    <2> QED BY <2>2, <2>3
<1>3. ASSUME NEW t \in Tasks, Zrange(t)
      PROVE  CapacityOwed'
    <2>1. Members' = Members /\ torn' = torn
        BY <1>3 DEF Zrange, Members
    <2>2. PICK V \in SUBSET Members :
             /\ Coldest(overflow[t], V)
             /\ victims' = [victims EXCEPT ![t] = V]
             /\ pc' = [pc EXCEPT ![t] = IF V = {} THEN "idle" ELSE "evict"]
        BY <1>3 DEF Zrange
    <2>3. CASE Cardinality(Members) <= Capacity \/ torn
        BY <2>1, <2>3 DEF CapacityOwed
    <2>4. ASSUME NEW u \in Tasks, Owes(u), u # t
          PROVE  CapacityOwed'
        <3>1. /\ pc'[u] = pc[u] /\ overflow'[u] = overflow[u]
              /\ victims'[u] = victims[u]
            BY <1>3, <2>4 DEF Zrange
        <3>2. Owes(u)'
            BY <2>1, <2>4, <3>1, DebtKept
        <3> QED BY <3>2 DEF CapacityOwed
    <2>5. CASE Owes(t)
        <3>1. pc[t] = "zrange" /\ Cardinality(Members) <= Capacity + overflow[t]
            BY <1>3, <2>5 DEF Owes, Zrange
        <3>2. overflow[t] \in Nat /\ overflow[t] > 0
            BY <3>1
        <3>3. Cardinality(Members \ V) <= Capacity
            <4>1. CASE overflow[t] <= Cardinality(Members)
                <5>1. Cardinality(V) = overflow[t]
                    BY <2>2, <4>1 DEF Coldest
                <5> QED BY <3>1, <3>2, <5>1, MembersFinite
            <4>2. CASE ~(overflow[t] <= Cardinality(Members))
                <5>1. Members \ V = {}
                    BY <2>2, <4>2 DEF Coldest
                <5> QED BY <5>1, FS_EmptySet
            <4> QED BY <4>1, <4>2
        <3>4. CASE V = {}
            <4>1. Members \ V = Members
                BY <3>4
            <4> QED BY <2>1, <3>3, <4>1 DEF CapacityOwed
        <3>5. CASE V # {}
            <4>1. pc'[t] = "evict" /\ victims'[t] = V
                BY <2>2, <3>5
            <4>2. Owes(t)'
                BY <2>1, <3>3, <4>1 DEF Owes
            <4> QED BY <4>2 DEF CapacityOwed
        <3> QED BY <3>4, <3>5
    <2> QED BY <2>3, <2>4, <2>5 DEF CapacityOwed
<1>4. ASSUME NEW t \in Tasks, Evict(t)
      PROVE  CapacityOwed'
    <2>1. Members' = Members \ victims[t]
        BY <1>4 DEF Evict, Members
    <2>2. torn' = torn
        BY <1>4 DEF Evict
    <2>3. CASE Cardinality(Members) <= Capacity
        BY <2>1, <2>3, ShrinkKept
    <2>4. CASE torn
        BY <2>2, <2>4 DEF CapacityOwed
    <2>5. ASSUME NEW u \in Tasks, Owes(u), u # t
          PROVE  CapacityOwed'
        <3>1. /\ pc'[u] = pc[u] /\ overflow'[u] = overflow[u]
              /\ victims'[u] = victims[u]
            BY <1>4, <2>5 DEF Evict
        <3>2. Owes(u)'
            BY <2>1, <2>5, <3>1, DebtKept
        <3> QED BY <3>2 DEF CapacityOwed
    <2>6. CASE Owes(t)
        \* The victims suffice: this step pays.
        BY <1>4, <2>1, <2>6 DEF Owes, Evict, CapacityOwed
    <2> QED BY <2>3, <2>4, <2>5, <2>6 DEF CapacityOwed
<1>5. ASSUME Members' \subseteq Members, torn' = torn, UNCHANGED locals
      PROVE  CapacityOwed'
    <2>1. CASE Cardinality(Members) <= Capacity
        BY <1>5, <2>1, ShrinkKept
    <2>2. CASE torn
        BY <1>5, <2>2 DEF CapacityOwed
    <2>3. ASSUME NEW u \in Tasks, Owes(u)
          PROVE  CapacityOwed'
        <3>1. Owes(u)'
            BY <1>5, <2>3, DebtKept DEF locals
        <3> QED BY <3>1 DEF CapacityOwed
    <2> QED BY <2>1, <2>2, <2>3 DEF CapacityOwed
<1>6. ASSUME NEW t \in Tasks, NEW s \in Shards, Delete(t, s)
      PROVE  CapacityOwed'
    BY <1>5, <1>6 DEF Delete, Members
<1>7. ASSUME NEW t \in Tasks, Fault(t)
      PROVE  CapacityOwed'
    BY <1>7 DEF Fault, CapacityOwed
<1>8. ASSUME NEW s \in Shards, Expire(s)
      PROVE  CapacityOwed'
    BY <1>5, <1>8 DEF Expire, Members
<1>9. CASE Tick
    BY <1>5, <1>9 DEF Tick, Members
<1>10. CASE UNCHANGED vars
    BY <1>5, <1>10 DEF vars, locals, Members
<1> QED
    BY <1>1, <1>2, <1>3, <1>4, <1>6, <1>7, <1>8, <1>9, <1>10
       DEF Next, Put, Touch

\* With no put() under way and none torn since the last ZCARD, the index is
\* within capacity, however many tasks raced through _enforce_capacity().
THEOREM CapacityHolds == Spec => []CapacityAtRest
<1>1. Init => CapacityOwed
    <2> SUFFICES ASSUME Init PROVE Cardinality(Members) <= Capacity
        BY DEF CapacityOwed
    <2>1. Members = {}
        BY DEF Init, Members
    <2> QED BY <2>1, FS_EmptySet, CapacityAssumption
<1>2. CapacityOwed => CapacityAtRest
    BY DEF CapacityOwed, CapacityAtRest, Owes
<1> QED
    BY TypeInit, TypeStep, CapacityStep, <1>1, <1>2, PTL DEF Spec
=============================================================================
