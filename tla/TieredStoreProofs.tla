------------------------- MODULE TieredStoreProofs -------------------------
(***************************************************************************)
(* Proofs about TieredStore, for any sets of shards, clients and pruners   *)
(* and any bounds.  The inductive invariant is                             *)
(*                                                                         *)
(*   TypeOK, LocalsOK        types, and which locals a suspended coroutine *)
(*                           has;                                          *)
(*   DurableUnlessClobbered  the property;                                 *)
(*   ArchivedHasRow          a pruner about to delete the L2 copy still    *)
(*                           has the L3 row it wrote to fall back on;      *)
(*   RehydratedHasCopy       a reader about to delete the L3 row still has *)
(*                           the L2 copy it wrote, or was raced.           *)
(*                                                                         *)
(* The last two are the two halves of the race: each side deletes its      *)
(* source relying on a copy that the other side may delete.                *)
(***************************************************************************)
EXTENDS TieredStore, TLAPS

\* What a coroutine suspended at a given await has in its locals.
LocalsOK ==
    /\ \A c \in Clients :
          /\ cpc[c] \notin {"idle", "search"} => cid[c] \in Shards
          /\ cpc[c] \in {"putVector", "promote", "restoreVector",
                         "restoreCache", "restoreDelete"} => cobj[c] \in Copies
    /\ \A p \in Pruners :
          ppc[p] \in {"vectorDelete", "cacheDelete"} => psid[p] \in Shards

\* The initial state is well typed and every coroutine is idle.
LEMMA TypeInit == Init => TypeOK /\ LocalsOK
<1> SUFFICES ASSUME Init PROVE TypeOK /\ LocalsOK
    OBVIOUS
<1>1. Empty \in [Shards -> Copies \union {None}]
    BY DEF Empty
<1>2. written \in [Shards -> 0..MaxVersion] /\ faults \in 0..MaxFaults
    BY BoundsAssumption DEF Init
<1>3. promised \in [Clients -> BOOLEAN] /\ raced \in [Clients -> BOOLEAN]
    BY DEF Init
<1>4. chits \in [Clients -> [Shards -> Copies \union {None}]]
    BY <1>1 DEF Init
<1>5. snap \in [Pruners -> [Shards -> Copies \union {None}]]
    BY <1>1 DEF Init
<1>6. LocalsOK
    BY DEF Init, LocalsOK
<1> QED
    BY <1>1, <1>2, <1>3, <1>4, <1>5, <1>6 DEF Init, TypeOK, ClientPCs, PrunerPCs

\* Every step keeps the types and the locals of the suspended coroutines.
LEMMA TypeStep == TypeOK /\ LocalsOK /\ [Next]_vars => TypeOK' /\ LocalsOK'
<1> SUFFICES ASSUME TypeOK, LocalsOK, [Next]_vars
             PROVE  TypeOK' /\ LocalsOK'
    OBVIOUS
<1> USE BoundsAssumption, NoneAssumption
        DEF TypeOK, LocalsOK, ClientPCs, PrunerPCs, tiers, client, pruner,
            history, Goto
<1>1. ASSUME NEW c \in Clients, NEW s \in Shards, PutCache(c, s)
      PROVE  TypeOK' /\ LocalsOK'
    BY <1>1 DEF PutCache, Copies
<1>2. ASSUME NEW c \in Clients, NEW s \in Shards, GetL1Hit(c, s)
      PROVE  TypeOK' /\ LocalsOK'
    BY <1>2 DEF GetL1Hit, FireTouch, Touches
<1>3. ASSUME NEW c \in Clients, NEW s \in Shards, GetL1Miss(c, s)
      PROVE  TypeOK' /\ LocalsOK'
    BY <1>3 DEF GetL1Miss
<1>4. ASSUME NEW c \in Clients, SearchVector(c)
      PROVE  TypeOK' /\ LocalsOK'
    BY <1>4 DEF SearchVector
<1>5. ASSUME NEW c \in Clients, PutVector(c)
      PROVE  TypeOK' /\ LocalsOK'
    BY <1>5 DEF PutVector, Return, Empty
<1>6. ASSUME NEW c \in Clients, GetL2Hit(c)
      PROVE  TypeOK' /\ LocalsOK'
    BY <1>6 DEF GetL2Hit
<1>7. ASSUME NEW c \in Clients, GetL2Miss(c)
      PROVE  TypeOK' /\ LocalsOK'
    BY <1>7 DEF GetL2Miss
<1>8. ASSUME NEW c \in Clients, Promote(c)
      PROVE  TypeOK' /\ LocalsOK'
    BY <1>8 DEF Promote, Return, Empty, FireTouch, Touches
<1>9. ASSUME NEW c \in Clients, GetL3Hit(c)
      PROVE  TypeOK' /\ LocalsOK'
    BY <1>9 DEF GetL3Hit
<1>10. ASSUME NEW c \in Clients, GetL3Miss(c)
      PROVE  TypeOK' /\ LocalsOK'
    BY <1>10 DEF GetL3Miss
<1>11. ASSUME NEW c \in Clients, ReturnNone(c)
      PROVE  TypeOK' /\ LocalsOK'
    BY <1>11 DEF ReturnNone, Return, Empty
<1>12. ASSUME NEW c \in Clients, RestoreVector(c)
      PROVE  TypeOK' /\ LocalsOK'
    BY <1>12 DEF RestoreVector
<1>13. ASSUME NEW c \in Clients, RestoreCache(c)
      PROVE  TypeOK' /\ LocalsOK'
    BY <1>13 DEF RestoreCache
<1>14. ASSUME NEW c \in Clients, RestoreDelete(c)
      PROVE  TypeOK' /\ LocalsOK'
    BY <1>14 DEF RestoreDelete, Return, Empty, FireTouch, Touches
<1>15. ASSUME NEW c \in Clients, NEW s \in Shards, SearchPromote(c, s)
      PROVE  TypeOK' /\ LocalsOK'
    BY <1>15 DEF SearchPromote
<1>16. ASSUME NEW c \in Clients, Touch(c)
      PROVE  TypeOK' /\ LocalsOK'
    BY <1>16 DEF Touch, Touches, Copies
<1>17. ASSUME NEW c \in Clients, ClientFault(c)
      PROVE  TypeOK' /\ LocalsOK'
    BY <1>17 DEF ClientFault, Return, Empty, Fault
<1>18. ASSUME NEW c \in Clients, TouchFault(c)
      PROVE  TypeOK' /\ LocalsOK'
    BY <1>18 DEF TouchFault, Fault
<1>19. ASSUME NEW p \in Pruners, AcquireLock(p)
      PROVE  TypeOK' /\ LocalsOK'
    BY <1>19 DEF AcquireLock
<1>20. ASSUME NEW p \in Pruners, ScanL1(p)
      PROVE  TypeOK' /\ LocalsOK'
    BY <1>20 DEF ScanL1
<1>21. ASSUME NEW p \in Pruners, ScanL2(p)
      PROVE  TypeOK' /\ LocalsOK'
    BY <1>21 DEF ScanL2
<1>22. ASSUME NEW p \in Pruners, NEW s \in Shards, DemoteL1(p, s)
      PROVE  TypeOK' /\ LocalsOK'
    BY <1>22 DEF DemoteL1
<1>23. ASSUME NEW p \in Pruners, NEW s \in Shards, ArchivePut(p, s)
      PROVE  TypeOK' /\ LocalsOK'
    BY <1>23 DEF ArchivePut
<1>24. ASSUME NEW p \in Pruners, VectorDelete(p)
      PROVE  TypeOK' /\ LocalsOK'
    BY <1>24 DEF VectorDelete
<1>25. ASSUME NEW p \in Pruners, CacheDelete(p)
      PROVE  TypeOK' /\ LocalsOK'
    BY <1>25 DEF CacheDelete
<1>26. ASSUME NEW p \in Pruners, FinishCycle(p)
      PROVE  TypeOK' /\ LocalsOK'
    BY <1>26 DEF FinishCycle
<1>27. ASSUME NEW p \in Pruners, PrunerFault(p)
      PROVE  TypeOK' /\ LocalsOK'
    BY <1>27 DEF PrunerFault, Empty, Fault
<1>28. ASSUME NEW s \in Shards, L1Drop(s)
      PROVE  TypeOK' /\ LocalsOK'
    BY <1>28 DEF L1Drop
<1>29. ASSUME LockExpire
      PROVE  TypeOK' /\ LocalsOK'
    BY <1>29 DEF LockExpire
<1>30. CASE UNCHANGED vars
    BY <1>30 DEF vars
<1> QED
    BY <1>1, <1>2, <1>3, <1>4, <1>5, <1>6, <1>7, <1>8, <1>9, <1>10, <1>11,
       <1>12, <1>13, <1>14, <1>15, <1>16, <1>17, <1>18, <1>19, <1>20, <1>21,
       <1>22, <1>23, <1>24, <1>25, <1>26, <1>27, <1>28, <1>29, <1>30 DEF
       Next, Call, ClientStep, PrunerStep

\* The stores, the coroutines and the prune lock keep their types.
THEOREM Typing == Spec => []TypeOK
<1>1. TypeOK /\ LocalsOK /\ [Next]_vars => (TypeOK /\ LocalsOK)'
    BY TypeStep
<1> QED
    BY TypeInit, <1>1, PTL DEF Spec

-----------------------------------------------------------------------------
(* No acked shard is lost unless a restore and a demotion of it overlap.   *)

\* Between archive.put() and vector.delete() the L3 row is there.
ArchivedHasRow ==
    \A p \in Pruners :
        ppc[p] = "vectorDelete" => l3[psid[p]] # None \/ psid[p] \in clobbered

\* Between vector.put() and archive.delete() the L2 copy is there.
RehydratedHasCopy ==
    \A c \in Clients : Rehydrated(c) => l2[cid[c]] # None \/ raced[c]

CopiesInv ==
    /\ DurableUnlessClobbered
    /\ ArchivedHasRow
    /\ RehydratedHasCopy

\* Every step keeps a copy of each acked shard, or records why it could not.
LEMMA CopiesStep ==
    TypeOK /\ LocalsOK /\ CopiesInv /\ [Next]_vars => CopiesInv'
<1> SUFFICES ASSUME TypeOK, LocalsOK, CopiesInv, [Next]_vars
             PROVE  CopiesInv'
    OBVIOUS
<1> USE NoneAssumption
        DEF TypeOK, LocalsOK, CopiesInv, DurableUnlessClobbered,
            ArchivedHasRow, RehydratedHasCopy, Rehydrated, tiers, client,
            pruner, history, Goto
<1>1. ASSUME NEW c \in Clients, NEW s \in Shards, PutCache(c, s)
      PROVE  CopiesInv'
    BY <1>1 DEF PutCache
<1>2. ASSUME NEW c \in Clients, NEW s \in Shards, GetL1Hit(c, s)
      PROVE  CopiesInv'
    BY <1>2 DEF GetL1Hit
<1>3. ASSUME NEW c \in Clients, NEW s \in Shards, GetL1Miss(c, s)
      PROVE  CopiesInv'
    BY <1>3 DEF GetL1Miss
<1>4. ASSUME NEW c \in Clients, SearchVector(c)
      PROVE  CopiesInv'
    BY <1>4 DEF SearchVector
<1>5. ASSUME NEW c \in Clients, PutVector(c)
      PROVE  CopiesInv'
    <2> USE <1>5 DEF PutVector
    <2>1. cid[c] \in Shards /\ cobj[c] # None
        <3>1. cid[c] \in Shards /\ cobj[c] \in Copies
            OBVIOUS
        <3> QED BY <3>1
    <2>2. l2' = [l2 EXCEPT ![cid[c]] = cobj[c]] /\ UNCHANGED l3
        OBVIOUS
    <2>3. \A s \in Shards : l2[s] # None => l2'[s] # None
        BY <2>1, <2>2
    <2>4. DurableUnlessClobbered'
        BY <2>1, <2>2, <2>3
    <2>5. ArchivedHasRow'
        BY <2>2
    <2>6. RehydratedHasCopy'
        BY <2>1, <2>3 DEF Return
    <2> QED BY <2>4, <2>5, <2>6
<1>6. ASSUME NEW c \in Clients, GetL2Hit(c)
      PROVE  CopiesInv'
    BY <1>6 DEF GetL2Hit
<1>7. ASSUME NEW c \in Clients, GetL2Miss(c)
      PROVE  CopiesInv'
    BY <1>7 DEF GetL2Miss
<1>8. ASSUME NEW c \in Clients, Promote(c)
      PROVE  CopiesInv'
    BY <1>8 DEF Promote, Return
<1>9. ASSUME NEW c \in Clients, GetL3Hit(c)
      PROVE  CopiesInv'
    BY <1>9 DEF GetL3Hit
<1>10. ASSUME NEW c \in Clients, GetL3Miss(c)
      PROVE  CopiesInv'
    BY <1>10 DEF GetL3Miss
<1>11. ASSUME NEW c \in Clients, ReturnNone(c)
      PROVE  CopiesInv'
    BY <1>11 DEF ReturnNone, Return
<1>12. ASSUME NEW c \in Clients, RestoreVector(c)
      PROVE  CopiesInv'
    <2>1. cid[c] \in Shards /\ cobj[c] # None
        <3>1. cpc[c] = "restoreVector"
            BY <1>12 DEF RestoreVector
        <3>2. cid[c] \in Shards /\ cobj[c] \in Copies
            BY <3>1
        <3> QED BY <3>2
    <2>2. /\ l2' \in [Shards -> Copies \union {None}] /\ l2'[cid[c]] # None
          /\ \A s \in Shards : l2[s] # None => l2'[s] # None
        BY <1>12, <2>1 DEF RestoreVector
    <2>3. DurableUnlessClobbered'
        BY <1>12, <2>2 DEF RestoreVector
    <2>4. ArchivedHasRow'
        BY <1>12, <2>2 DEF RestoreVector, Archived
    <2>5. RehydratedHasCopy'
        BY <1>12, <2>1, <2>2 DEF RestoreVector
    <2> QED BY <2>3, <2>4, <2>5
<1>13. ASSUME NEW c \in Clients, RestoreCache(c)
      PROVE  CopiesInv'
    BY <1>13 DEF RestoreCache
<1>14. ASSUME NEW c \in Clients, RestoreDelete(c)
      PROVE  CopiesInv'
    <2> USE <1>14 DEF RestoreDelete, Return
    <2>1. DurableUnlessClobbered'
        \* The L3 row goes; the L2 copy is there unless raced[c].
        <3>1. l2[cid[c]] # None \/ raced[c]
            OBVIOUS
        <3> QED BY <3>1
    <2>2. ArchivedHasRow'
        \* A pruner that relied on the row has its shard clobbered.
        BY DEF Archived
    <2>3. RehydratedHasCopy'
        OBVIOUS
    <2> QED BY <2>1, <2>2, <2>3
<1>15. ASSUME NEW c \in Clients, NEW s \in Shards, SearchPromote(c, s)
      PROVE  CopiesInv'
    BY <1>15 DEF SearchPromote
<1>16. ASSUME NEW c \in Clients, Touch(c)
      PROVE  CopiesInv'
    BY <1>16 DEF Touch
<1>17. ASSUME NEW c \in Clients, ClientFault(c)
      PROVE  CopiesInv'
    BY <1>17 DEF ClientFault, Return
<1>18. ASSUME NEW c \in Clients, TouchFault(c)
      PROVE  CopiesInv'
    BY <1>18 DEF TouchFault
<1>19. ASSUME NEW p \in Pruners, AcquireLock(p)
      PROVE  CopiesInv'
    BY <1>19 DEF AcquireLock
<1>20. ASSUME NEW p \in Pruners, ScanL1(p)
      PROVE  CopiesInv'
    BY <1>20 DEF ScanL1
<1>21. ASSUME NEW p \in Pruners, ScanL2(p)
      PROVE  CopiesInv'
    BY <1>21 DEF ScanL2
<1>22. ASSUME NEW p \in Pruners, NEW s \in Shards, DemoteL1(p, s)
      PROVE  CopiesInv'
    BY <1>22 DEF DemoteL1
<1>23. ASSUME NEW p \in Pruners, NEW s \in Shards, ArchivePut(p, s)
      PROVE  CopiesInv'
    BY <1>23 DEF ArchivePut
<1>24. ASSUME NEW p \in Pruners, VectorDelete(p)
      PROVE  CopiesInv'
    <2> USE <1>24 DEF VectorDelete
    <2>1. DurableUnlessClobbered'
        \* The L2 copy goes; the archived row is there, or s is clobbered.
        <3>1. l3[psid[p]] # None \/ psid[p] \in clobbered
            OBVIOUS
        <3> QED BY <3>1
    <2>2. ArchivedHasRow'
        OBVIOUS
    <2>3. RehydratedHasCopy'
        \* A reader that relied on the copy is marked raced.
        <3> SUFFICES ASSUME NEW c \in Clients, Rehydrated(c)'
                     PROVE  l2'[cid[c]] # None \/ raced'[c]
            OBVIOUS
        <3>1. CASE cid[c] = psid[p]
            BY <3>1
        <3>2. CASE cid[c] # psid[p]
            BY <3>2
        <3> QED BY <3>1, <3>2
    <2> QED BY <2>1, <2>2, <2>3
<1>25. ASSUME NEW p \in Pruners, CacheDelete(p)
      PROVE  CopiesInv'
    BY <1>25 DEF CacheDelete
<1>26. ASSUME NEW p \in Pruners, FinishCycle(p)
      PROVE  CopiesInv'
    BY <1>26 DEF FinishCycle
<1>27. ASSUME NEW p \in Pruners, PrunerFault(p)
      PROVE  CopiesInv'
    BY <1>27 DEF PrunerFault
<1>28. ASSUME NEW s \in Shards, L1Drop(s)
      PROVE  CopiesInv'
    BY <1>28 DEF L1Drop
<1>29. ASSUME LockExpire
      PROVE  CopiesInv'
    BY <1>29 DEF LockExpire
<1>30. CASE UNCHANGED vars
    BY <1>30 DEF vars
<1> QED
    BY <1>1, <1>2, <1>3, <1>4, <1>5, <1>6, <1>7, <1>8, <1>9, <1>10, <1>11,
       <1>12, <1>13, <1>14, <1>15, <1>16, <1>17, <1>18, <1>19, <1>20, <1>21,
       <1>22, <1>23, <1>24, <1>25, <1>26, <1>27, <1>28, <1>29, <1>30 DEF
       Next, Call, ClientStep, PrunerStep

\* A shard whose put() returned stays in L2 or L3 through every interleaving
\* of readers, pruners, expiry and crashes in which no restore of it overlaps
\* a demotion of it.
THEOREM Durability == Spec => []DurableUnlessClobbered
<1>1. Init => CopiesInv
    BY DEF Init, CopiesInv, DurableUnlessClobbered, ArchivedHasRow,
           RehydratedHasCopy, Rehydrated
<1>2. TypeOK /\ LocalsOK /\ CopiesInv /\ [Next]_vars
        => (TypeOK /\ LocalsOK /\ CopiesInv)'
    BY TypeStep, CopiesStep
<1>3. CopiesInv => DurableUnlessClobbered
    BY DEF CopiesInv
<1> QED
    BY TypeInit, <1>1, <1>2, <1>3, PTL DEF Spec

-----------------------------------------------------------------------------
(* A walk that finds nothing was overtaken by another reader's restore.    *)

\* What a walk that began after the put() returned knows at each await.
WalkKeepsPromise ==
    \A c \in Clients :
        /\ cpc[c] = "getL2" /\ promised[c] => cid[c] \in acked
        /\ cpc[c] = "getL3" /\ promised[c] =>
              l3[cid[c]] # None \/ raced[c] \/ cid[c] \in clobbered

WalkInv == WalkKeepsPromise /\ MissExplained

\* Missing L2 means the shard is in L3; only a restore takes it from there,
\* and a restore marks the walks that it overtakes.
LEMMA WalkStep ==
    TypeOK /\ LocalsOK /\ CopiesInv /\ WalkInv /\ [Next]_vars => WalkInv'
<1> SUFFICES ASSUME TypeOK, LocalsOK, CopiesInv, WalkInv, [Next]_vars
             PROVE  WalkInv'
    OBVIOUS
<1> USE NoneAssumption
        DEF TypeOK, LocalsOK, CopiesInv, DurableUnlessClobbered, WalkInv,
            WalkKeepsPromise, MissExplained, tiers, client, pruner, history,
            Goto
<1>1. ASSUME NEW c \in Clients, NEW s \in Shards, PutCache(c, s)
      PROVE  WalkInv'
    BY <1>1 DEF PutCache
<1>2. ASSUME NEW c \in Clients, NEW s \in Shards, GetL1Hit(c, s)
      PROVE  WalkInv'
    BY <1>2 DEF GetL1Hit
<1>3. ASSUME NEW c \in Clients, NEW s \in Shards, GetL1Miss(c, s)
      PROVE  WalkInv'
    BY <1>3 DEF GetL1Miss
<1>4. ASSUME NEW c \in Clients, SearchVector(c)
      PROVE  WalkInv'
    BY <1>4 DEF SearchVector
<1>5. ASSUME NEW c \in Clients, PutVector(c)
      PROVE  WalkInv'
    BY <1>5 DEF PutVector, Return
<1>6. ASSUME NEW c \in Clients, GetL2Hit(c)
      PROVE  WalkInv'
    BY <1>6 DEF GetL2Hit
<1>7. ASSUME NEW c \in Clients, GetL2Miss(c)
      PROVE  WalkInv'
    BY <1>7 DEF GetL2Miss
<1>8. ASSUME NEW c \in Clients, Promote(c)
      PROVE  WalkInv'
    BY <1>8 DEF Promote, Return
<1>9. ASSUME NEW c \in Clients, GetL3Hit(c)
      PROVE  WalkInv'
    BY <1>9 DEF GetL3Hit
<1>10. ASSUME NEW c \in Clients, GetL3Miss(c)
      PROVE  WalkInv'
    BY <1>10 DEF GetL3Miss
<1>11. ASSUME NEW c \in Clients, ReturnNone(c)
      PROVE  WalkInv'
    BY <1>11 DEF ReturnNone, Return
<1>12. ASSUME NEW c \in Clients, RestoreVector(c)
      PROVE  WalkInv'
    BY <1>12 DEF RestoreVector
<1>13. ASSUME NEW c \in Clients, RestoreCache(c)
      PROVE  WalkInv'
    BY <1>13 DEF RestoreCache
<1>14. ASSUME NEW c \in Clients, RestoreDelete(c)
      PROVE  WalkInv'
    BY <1>14 DEF RestoreDelete, Return
<1>15. ASSUME NEW c \in Clients, NEW s \in Shards, SearchPromote(c, s)
      PROVE  WalkInv'
    BY <1>15 DEF SearchPromote
<1>16. ASSUME NEW c \in Clients, Touch(c)
      PROVE  WalkInv'
    BY <1>16 DEF Touch
<1>17. ASSUME NEW c \in Clients, ClientFault(c)
      PROVE  WalkInv'
    BY <1>17 DEF ClientFault, Return
<1>18. ASSUME NEW c \in Clients, TouchFault(c)
      PROVE  WalkInv'
    BY <1>18 DEF TouchFault
<1>19. ASSUME NEW p \in Pruners, AcquireLock(p)
      PROVE  WalkInv'
    BY <1>19 DEF AcquireLock
<1>20. ASSUME NEW p \in Pruners, ScanL1(p)
      PROVE  WalkInv'
    BY <1>20 DEF ScanL1
<1>21. ASSUME NEW p \in Pruners, ScanL2(p)
      PROVE  WalkInv'
    BY <1>21 DEF ScanL2
<1>22. ASSUME NEW p \in Pruners, NEW s \in Shards, DemoteL1(p, s)
      PROVE  WalkInv'
    BY <1>22 DEF DemoteL1
<1>23. ASSUME NEW p \in Pruners, NEW s \in Shards, ArchivePut(p, s)
      PROVE  WalkInv'
    BY <1>23 DEF ArchivePut
<1>24. ASSUME NEW p \in Pruners, VectorDelete(p)
      PROVE  WalkInv'
    BY <1>24 DEF VectorDelete
<1>25. ASSUME NEW p \in Pruners, CacheDelete(p)
      PROVE  WalkInv'
    BY <1>25 DEF CacheDelete
<1>26. ASSUME NEW p \in Pruners, FinishCycle(p)
      PROVE  WalkInv'
    BY <1>26 DEF FinishCycle
<1>27. ASSUME NEW p \in Pruners, PrunerFault(p)
      PROVE  WalkInv'
    BY <1>27 DEF PrunerFault
<1>28. ASSUME NEW s \in Shards, L1Drop(s)
      PROVE  WalkInv'
    BY <1>28 DEF L1Drop
<1>29. ASSUME LockExpire
      PROVE  WalkInv'
    BY <1>29 DEF LockExpire
<1>30. CASE UNCHANGED vars
    BY <1>30 DEF vars
<1> QED
    BY <1>1, <1>2, <1>3, <1>4, <1>5, <1>6, <1>7, <1>8, <1>9, <1>10, <1>11,
       <1>12, <1>13, <1>14, <1>15, <1>16, <1>17, <1>18, <1>19, <1>20, <1>21,
       <1>22, <1>23, <1>24, <1>25, <1>26, <1>27, <1>28, <1>29, <1>30 DEF
       Next, Call, ClientStep, PrunerStep

\* get() answers None for a shard acked before the call only when another
\* reader's restore overtook the walk between its L2 and its L3 read, or the
\* shard was clobbered.
THEOREM Misses == Spec => []MissExplained
<1>1. Init => CopiesInv /\ WalkInv
    BY DEF Init, CopiesInv, DurableUnlessClobbered, ArchivedHasRow,
           RehydratedHasCopy, Rehydrated, WalkInv, WalkKeepsPromise,
           MissExplained
<1>2. TypeOK /\ LocalsOK /\ CopiesInv /\ WalkInv /\ [Next]_vars
        => (TypeOK /\ LocalsOK /\ CopiesInv /\ WalkInv)'
    BY TypeStep, CopiesStep, WalkStep
<1>3. WalkInv => MissExplained
    BY DEF WalkInv
<1> QED
    BY TypeInit, <1>1, <1>2, <1>3, PTL DEF Spec

-----------------------------------------------------------------------------
(* Double storage is transient.                                            *)

\* No durable tier or snapshot holds s, and no client in D is about to write it.
Pristine(s, D) ==
    /\ l2[s] = None
    /\ l3[s] = None
    /\ \A p \in Pruners : snap[p][s] = None
    /\ \A d \in D : cid[d] = s => cpc[d] \notin {"putVector", "restoreVector"}

\* Before its first put() an id is nowhere; during its first put() only that
\* put() can bring it into L2.
FirstPutInv ==
    /\ \A s \in Shards : written[s] = 0 => Pristine(s, Clients)
    /\ \A c \in Clients :
          cpc[c] = "putVector" /\ written[cid[c]] <= 1
             => Pristine(cid[c], Clients \ {c})

\* An id is written by its first put() alone until that put() returns.
LEMMA FirstPutStep ==
    TypeOK /\ LocalsOK /\ FirstPutInv /\ [Next]_vars => FirstPutInv'
<1> SUFFICES ASSUME TypeOK, LocalsOK, FirstPutInv, [Next]_vars
             PROVE  FirstPutInv'
    OBVIOUS
<1> USE NoneAssumption, BoundsAssumption
        DEF TypeOK, LocalsOK, FirstPutInv, Pristine, tiers, client, pruner,
            history, Goto
<1>1. ASSUME NEW c \in Clients, NEW s \in Shards, PutCache(c, s)
      PROVE  FirstPutInv'
    <2>1. /\ written[s] \in 0..MaxVersion /\ written' = [written EXCEPT ![s] = @ + 1]
          /\ cpc[c] = "idle" /\ cpc' = [cpc EXCEPT ![c] = "putVector"]
          /\ cid' = [cid EXCEPT ![c] = s]
          /\ UNCHANGED <<l2, l3, chits, pruner, raced, clobbered, faults>>
        BY <1>1 DEF PutCache
    <2>2. \A t \in Shards : written'[t] = 0 => written[t] = 0 /\ t # s
        BY <2>1
    <2>3. \A d \in Clients : d # c => cpc'[d] = cpc[d] /\ cid'[d] = cid[d]
        BY <2>1
    <2>4. \A t \in Shards : written'[t] = 0 => Pristine(t, Clients)'
        BY <2>1, <2>2, <2>3
    <2>5. written[s] = 0 => Pristine(s, Clients \ {c})'
        BY <2>1, <2>3
    <2>6. ASSUME NEW d \in Clients,
                 cpc'[d] = "putVector", written'[cid'[d]] <= 1
          PROVE  Pristine(cid[d], Clients \ {d})'
        <3>1. CASE d = c
            <4>1. cid'[d] = s /\ written'[s] <= 1
                BY <2>1, <2>6, <3>1
            <4>2. written[s] = 0
                BY <2>1, <4>1, SMT
            <4> QED
                BY <2>5, <3>1, <4>1, <4>2
        <3>2. CASE d # c
            <4>1. cpc[d] = "putVector" /\ cid'[d] = cid[d] /\ cid[d] \in Shards
                BY <2>3, <2>6, <3>2
            <4>2. cid[d] # s
                \* After a put of s that d began, a second one is its second.
                <5> SUFFICES ASSUME cid[d] = s PROVE FALSE
                    OBVIOUS
                <5>1. written'[s] <= 1
                    BY <2>6, <4>1, <3>2, <2>3
                <5>2. written[s] = 0
                    BY <2>1, <5>1, SMT
                <5> QED
                    BY <4>1, <5>2
            <4>3. written'[cid[d]] = written[cid[d]]
                BY <2>1, <4>1, <4>2
            <4>4. Pristine(cid[d], Clients \ {d})
                BY <2>6, <2>3, <3>2, <4>1, <4>3
            <4> QED
                BY <2>1, <2>3, <4>1, <4>2, <4>4
        <3> QED
            BY <3>1, <3>2
    <2> QED
        BY <2>4, <2>6 DEF FirstPutInv
<1>2. ASSUME NEW c \in Clients, NEW s \in Shards, GetL1Hit(c, s)
      PROVE  FirstPutInv'
    BY <1>2 DEF GetL1Hit
<1>3. ASSUME NEW c \in Clients, NEW s \in Shards, GetL1Miss(c, s)
      PROVE  FirstPutInv'
    BY <1>3 DEF GetL1Miss
<1>4. ASSUME NEW c \in Clients, SearchVector(c)
      PROVE  FirstPutInv'
    BY <1>4 DEF SearchVector
<1>5. ASSUME NEW c \in Clients, PutVector(c)
      PROVE  FirstPutInv'
    BY <1>5 DEF PutVector, Return, Empty
<1>6. ASSUME NEW c \in Clients, GetL2Hit(c)
      PROVE  FirstPutInv'
    BY <1>6 DEF GetL2Hit
<1>7. ASSUME NEW c \in Clients, GetL2Miss(c)
      PROVE  FirstPutInv'
    BY <1>7 DEF GetL2Miss
<1>8. ASSUME NEW c \in Clients, Promote(c)
      PROVE  FirstPutInv'
    BY <1>8 DEF Promote, Return, Empty
<1>9. ASSUME NEW c \in Clients, GetL3Hit(c)
      PROVE  FirstPutInv'
    BY <1>9 DEF GetL3Hit
<1>10. ASSUME NEW c \in Clients, GetL3Miss(c)
      PROVE  FirstPutInv'
    BY <1>10 DEF GetL3Miss
<1>11. ASSUME NEW c \in Clients, ReturnNone(c)
      PROVE  FirstPutInv'
    BY <1>11 DEF ReturnNone, Return, Empty
<1>12. ASSUME NEW c \in Clients, RestoreVector(c)
      PROVE  FirstPutInv'
    BY <1>12 DEF RestoreVector
<1>13. ASSUME NEW c \in Clients, RestoreCache(c)
      PROVE  FirstPutInv'
    BY <1>13 DEF RestoreCache
<1>14. ASSUME NEW c \in Clients, RestoreDelete(c)
      PROVE  FirstPutInv'
    BY <1>14 DEF RestoreDelete, Return, Empty
<1>15. ASSUME NEW c \in Clients, NEW s \in Shards, SearchPromote(c, s)
      PROVE  FirstPutInv'
    BY <1>15 DEF SearchPromote
<1>16. ASSUME NEW c \in Clients, Touch(c)
      PROVE  FirstPutInv'
    BY <1>16 DEF Touch
<1>17. ASSUME NEW c \in Clients, ClientFault(c)
      PROVE  FirstPutInv'
    BY <1>17 DEF ClientFault, Return, Empty
<1>18. ASSUME NEW c \in Clients, TouchFault(c)
      PROVE  FirstPutInv'
    BY <1>18 DEF TouchFault
<1>19. ASSUME NEW p \in Pruners, AcquireLock(p)
      PROVE  FirstPutInv'
    BY <1>19 DEF AcquireLock
<1>20. ASSUME NEW p \in Pruners, ScanL1(p)
      PROVE  FirstPutInv'
    BY <1>20 DEF ScanL1
<1>21. ASSUME NEW p \in Pruners, ScanL2(p)
      PROVE  FirstPutInv'
    <2>1. PICK low \in SUBSET {s \in Shards : l2[s] # None} :
             snap' = [snap EXCEPT ![p] =
                         [s \in Shards |-> IF s \in low THEN l2[s] ELSE None]]
        BY <1>21 DEF ScanL2
    <2>2. \A q \in Pruners, s \in Shards :
             l2[s] = None /\ snap[q][s] = None => snap'[q][s] = None
        BY <2>1
    <2>3. UNCHANGED <<l2, l3, cpc, cid, written>>
        BY <1>21 DEF ScanL2
    <2> QED BY <2>2, <2>3
<1>22. ASSUME NEW p \in Pruners, NEW s \in Shards, DemoteL1(p, s)
      PROVE  FirstPutInv'
    BY <1>22 DEF DemoteL1
<1>23. ASSUME NEW p \in Pruners, NEW s \in Shards, ArchivePut(p, s)
      PROVE  FirstPutInv'
    BY <1>23 DEF ArchivePut
<1>24. ASSUME NEW p \in Pruners, VectorDelete(p)
      PROVE  FirstPutInv'
    BY <1>24 DEF VectorDelete
<1>25. ASSUME NEW p \in Pruners, CacheDelete(p)
      PROVE  FirstPutInv'
    BY <1>25 DEF CacheDelete
<1>26. ASSUME NEW p \in Pruners, FinishCycle(p)
      PROVE  FirstPutInv'
    BY <1>26 DEF FinishCycle
<1>27. ASSUME NEW p \in Pruners, PrunerFault(p)
      PROVE  FirstPutInv'
    BY <1>27 DEF PrunerFault, Empty
<1>28. ASSUME NEW s \in Shards, L1Drop(s)
      PROVE  FirstPutInv'
    BY <1>28 DEF L1Drop
<1>29. ASSUME LockExpire
      PROVE  FirstPutInv'
    BY <1>29 DEF LockExpire
<1>30. CASE UNCHANGED vars
    BY <1>30 DEF vars
<1> QED
    BY <1>1, <1>2, <1>3, <1>4, <1>5, <1>6, <1>7, <1>8, <1>9, <1>10, <1>11,
       <1>12, <1>13, <1>14, <1>15, <1>16, <1>17, <1>18, <1>19, <1>20, <1>21,
       <1>22, <1>23, <1>24, <1>25, <1>26, <1>27, <1>28, <1>29, <1>30 DEF
       Next, Call, ClientStep, PrunerStep

\* Every step that makes a second durable copy is inside a restore or a
\* demotion, which removes the first one before it ends.
LEMMA OneTierStep ==
    TypeOK /\ LocalsOK /\ FirstPutInv /\ OneTierAtRest /\ [Next]_vars
        => OneTierAtRest'
<1> SUFFICES ASSUME TypeOK, LocalsOK, FirstPutInv, OneTierAtRest, [Next]_vars
             PROVE  OneTierAtRest'
    OBVIOUS
<1> USE NoneAssumption, BoundsAssumption
        DEF TypeOK, LocalsOK, OneTierAtRest, Rehydrated, Archived, tiers,
            client, pruner, history, Goto
<1>1. ASSUME NEW c \in Clients, NEW s \in Shards, PutCache(c, s)
      PROVE  OneTierAtRest'
    <2>1. /\ written[s] \in 0..MaxVersion /\ written' = [written EXCEPT ![s] = @ + 1]
          /\ cpc[c] = "idle" /\ cpc' = [cpc EXCEPT ![c] = "putVector"]
          /\ cid' = [cid EXCEPT ![c] = s]
          /\ UNCHANGED <<l2, l3, chits, pruner, raced, clobbered, faults>>
        BY <1>1 DEF PutCache
    <2> QED
        BY <2>1
<1>2. ASSUME NEW c \in Clients, NEW s \in Shards, GetL1Hit(c, s)
      PROVE  OneTierAtRest'
    BY <1>2 DEF GetL1Hit
<1>3. ASSUME NEW c \in Clients, NEW s \in Shards, GetL1Miss(c, s)
      PROVE  OneTierAtRest'
    BY <1>3 DEF GetL1Miss
<1>4. ASSUME NEW c \in Clients, SearchVector(c)
      PROVE  OneTierAtRest'
    BY <1>4 DEF SearchVector
<1>5. ASSUME NEW c \in Clients, PutVector(c)
      PROVE  OneTierAtRest'
    <2>1. cid[c] \in Shards
        BY <1>5 DEF PutVector
    <2>2. l3[cid[c]] = None \/ written[cid[c]] > 1
        \* The first put of an id finds no archived copy of it.
        BY <1>5, <2>1 DEF PutVector, FirstPutInv, Pristine
    <2>3. \A s \in Shards : s # cid[c] => l2'[s] = l2[s]
        BY <1>5 DEF PutVector
    <2>4. UNCHANGED <<l3, written, faults, ppc, psid>>
        BY <1>5 DEF PutVector
    <2>5. \A d \in Clients : Rehydrated(d) => Rehydrated(d)' /\ cid'[d] = cid[d]
        BY <1>5 DEF PutVector, Return
    <2>6. ASSUME NEW s \in Shards,
                 l2'[s] # None, l3'[s] # None, written'[s] <= 1, faults' = 0
          PROVE  \/ \E d \in Clients : Rehydrated(d)' /\ cid'[d] = s
                 \/ \E p \in Pruners : Archived(p, s)'
        <3>1. written[s] \in Nat /\ s # cid[c]
            BY <2>2, <2>4, <2>6
        <3>2. l2[s] # None /\ l3[s] # None /\ written[s] <= 1 /\ faults = 0
            BY <2>3, <2>4, <2>6, <3>1
        <3>3. \/ \E d \in Clients : Rehydrated(d) /\ cid[d] = s
              \/ \E p \in Pruners : Archived(p, s)
            BY <3>2
        <3> QED BY <3>3, <2>4, <2>5
    <2> QED BY <2>6
<1>6. ASSUME NEW c \in Clients, GetL2Hit(c)
      PROVE  OneTierAtRest'
    BY <1>6 DEF GetL2Hit
<1>7. ASSUME NEW c \in Clients, GetL2Miss(c)
      PROVE  OneTierAtRest'
    BY <1>7 DEF GetL2Miss
<1>8. ASSUME NEW c \in Clients, Promote(c)
      PROVE  OneTierAtRest'
    BY <1>8 DEF Promote, Return
<1>9. ASSUME NEW c \in Clients, GetL3Hit(c)
      PROVE  OneTierAtRest'
    BY <1>9 DEF GetL3Hit
<1>10. ASSUME NEW c \in Clients, GetL3Miss(c)
      PROVE  OneTierAtRest'
    BY <1>10 DEF GetL3Miss
<1>11. ASSUME NEW c \in Clients, ReturnNone(c)
      PROVE  OneTierAtRest'
    BY <1>11 DEF ReturnNone, Return
<1>12. ASSUME NEW c \in Clients, RestoreVector(c)
      PROVE  OneTierAtRest'
    BY <1>12 DEF RestoreVector
<1>13. ASSUME NEW c \in Clients, RestoreCache(c)
      PROVE  OneTierAtRest'
    BY <1>13 DEF RestoreCache
<1>14. ASSUME NEW c \in Clients, RestoreDelete(c)
      PROVE  OneTierAtRest'
    BY <1>14 DEF RestoreDelete, Return
<1>15. ASSUME NEW c \in Clients, NEW s \in Shards, SearchPromote(c, s)
      PROVE  OneTierAtRest'
    BY <1>15 DEF SearchPromote
<1>16. ASSUME NEW c \in Clients, Touch(c)
      PROVE  OneTierAtRest'
    BY <1>16 DEF Touch
<1>17. ASSUME NEW c \in Clients, ClientFault(c)
      PROVE  OneTierAtRest'
    BY <1>17 DEF ClientFault, Return, Fault
<1>18. ASSUME NEW c \in Clients, TouchFault(c)
      PROVE  OneTierAtRest'
    BY <1>18 DEF TouchFault, Fault
<1>19. ASSUME NEW p \in Pruners, AcquireLock(p)
      PROVE  OneTierAtRest'
    BY <1>19 DEF AcquireLock
<1>20. ASSUME NEW p \in Pruners, ScanL1(p)
      PROVE  OneTierAtRest'
    BY <1>20 DEF ScanL1
<1>21. ASSUME NEW p \in Pruners, ScanL2(p)
      PROVE  OneTierAtRest'
    BY <1>21 DEF ScanL2
<1>22. ASSUME NEW p \in Pruners, NEW s \in Shards, DemoteL1(p, s)
      PROVE  OneTierAtRest'
    BY <1>22 DEF DemoteL1
<1>23. ASSUME NEW p \in Pruners, NEW s \in Shards, ArchivePut(p, s)
      PROVE  OneTierAtRest'
    BY <1>23 DEF ArchivePut
<1>24. ASSUME NEW p \in Pruners, VectorDelete(p)
      PROVE  OneTierAtRest'
    BY <1>24 DEF VectorDelete
<1>25. ASSUME NEW p \in Pruners, CacheDelete(p)
      PROVE  OneTierAtRest'
    BY <1>25 DEF CacheDelete
<1>26. ASSUME NEW p \in Pruners, FinishCycle(p)
      PROVE  OneTierAtRest'
    BY <1>26 DEF FinishCycle
<1>27. ASSUME NEW p \in Pruners, PrunerFault(p)
      PROVE  OneTierAtRest'
    BY <1>27 DEF PrunerFault, Fault
<1>28. ASSUME NEW s \in Shards, L1Drop(s)
      PROVE  OneTierAtRest'
    BY <1>28 DEF L1Drop
<1>29. ASSUME LockExpire
      PROVE  OneTierAtRest'
    BY <1>29 DEF LockExpire
<1>30. CASE UNCHANGED vars
    BY <1>30 DEF vars
<1> QED
    BY <1>1, <1>2, <1>3, <1>4, <1>5, <1>6, <1>7, <1>8, <1>9, <1>10, <1>11,
       <1>12, <1>13, <1>14, <1>15, <1>16, <1>17, <1>18, <1>19, <1>20, <1>21,
       <1>22, <1>23, <1>24, <1>25, <1>26, <1>27, <1>28, <1>29, <1>30 DEF
       Next, Call, ClientStep, PrunerStep

\* While nothing has failed, a shard written once is in both L2 and L3 only
\* while a restore or a demotion of that shard is under way.
THEOREM OneTier == Spec => []OneTierAtRest
<1>1. Init => FirstPutInv /\ OneTierAtRest
    BY NoneAssumption DEF Init, FirstPutInv, Pristine, OneTierAtRest, Empty
<1>2. TypeOK /\ LocalsOK /\ FirstPutInv /\ OneTierAtRest /\ [Next]_vars
        => (TypeOK /\ LocalsOK /\ FirstPutInv /\ OneTierAtRest)'
    BY TypeStep, FirstPutStep, OneTierStep
<1> QED
    BY TypeInit, <1>1, <1>2, PTL DEF Spec

-----------------------------------------------------------------------------
(* A put() that overlaps nothing is the last word.                         *)

\* A copy of s, if it is one, is what the last put() of s wrote.
Newest(s, copy) == copy = None \/ copy.ver = written[s]

\* Whatever L1, a coroutine, a touch or a cycle may still write is the newest.
HeldNewest(s) ==
    /\ Newest(s, l1[s])
    /\ \A c \in Clients :
          /\ cid[c] = s => Newest(s, cobj[c])
          /\ Newest(s, chits[c][s])
          /\ touching[c] # None /\ touching[c].sid = s
                => touching[c].obj.ver = written[s]
    /\ \A p \in Pruners : Newest(s, snap[p][s])

\* While it is being put, s is the business of one client and no cycle.
PutAlone(s) ==
    /\ \A c, d \in Clients : cid[c] = s /\ cid[d] = s => c = d
    /\ \A c \in Clients : chits[c][s] = None
    /\ \A p \in Pruners : snap[p][s] = None

\* L2 is the newest; so is L3 when L2 has none, when a walk has seen that, and
\* when a demotion is about to make it so.
TiersNewest(s) ==
    /\ Newest(s, l2[s])
    /\ l2[s] = None => l3[s] # None
    /\ l2[s] = None \/ (\E p \in Pruners : Archived(p, s))
                    \/ (\E c \in Clients : cpc[c] = "getL3" /\ cid[c] = s)
          => Newest(s, l3[s])

\* What a demotion has archived is still in its list.
ArchivedInSnap ==
    \A p \in Pruners : ppc[p] = "vectorDelete" => snap[p][psid[p]] # None

\* A client that is in no walk holds no copy.
IdleHoldsNone ==
    \A c \in Clients : cpc[c] \in {"idle", "search"} => cobj[c] = None

LatestInv ==
    /\ ArchivedInSnap
    /\ IdleHoldsNone
    /\ \A s \in Shards \ (contended \union clobbered) :
          /\ s \in acked \/ Putting(s) => HeldNewest(s)
          /\ Putting(s) => PutAlone(s)
          /\ s \in acked /\ ~Putting(s) => TiersNewest(s)

\* Every step that copies a shard copies the newest one.
LEMMA LatestStep ==
    TypeOK /\ LocalsOK /\ CopiesInv /\ LatestInv /\ [Next]_vars => LatestInv'
<1> SUFFICES ASSUME TypeOK, LocalsOK, CopiesInv, LatestInv, [Next]_vars
             PROVE  LatestInv'
    OBVIOUS
<1> USE NoneAssumption, BoundsAssumption
        DEF TypeOK, LocalsOK, CopiesInv, RehydratedHasCopy, Rehydrated,
            LatestInv, ArchivedInSnap, IdleHoldsNone, HeldNewest, PutAlone,
            TiersNewest, Newest, Putting, Archived, Copies, Touches, tiers, client, pruner,
            history, Goto
<1>1. ASSUME NEW c \in Clients, NEW s \in Shards, PutCache(c, s)
      PROVE  LatestInv'
    BY <1>1 DEF PutCache, InHand
<1>2. ASSUME NEW c \in Clients, NEW s \in Shards, GetL1Hit(c, s)
      PROVE  LatestInv'
    BY <1>2 DEF GetL1Hit, FireTouch
<1>3. ASSUME NEW c \in Clients, NEW s \in Shards, GetL1Miss(c, s)
      PROVE  LatestInv'
    <2>1. cpc[c] = "idle" /\ cpc' = [cpc EXCEPT ![c] = "getL2"]
          /\ cid' = [cid EXCEPT ![c] = s]
          /\ cobj' = cobj /\ clobbered' = clobbered
          /\ UNCHANGED <<tiers, chits, touching, pruner, written, acked>>
        BY <1>3 DEF GetL1Miss
    <2>2. contended \subseteq contended' /\ (Putting(s) => s \in contended')
        BY <1>3 DEF GetL1Miss
    <2>3. \A u \in Shards : Putting(u)' <=> Putting(u)
        BY <2>1
    <2>4. ASSUME NEW u \in Shards, HeldNewest(u)
          PROVE  HeldNewest(u)'
        BY <2>1, <2>4
    <2>5. ASSUME NEW u \in Shards, PutAlone(u), u # s
          PROVE  PutAlone(u)'
        BY <2>1, <2>5
    <2>6. ASSUME NEW u \in Shards, TiersNewest(u)
          PROVE  TiersNewest(u)'
        BY <2>1, <2>6
    <2> QED
        BY <2>1, <2>2, <2>3, <2>4, <2>5, <2>6
<1>4. ASSUME NEW c \in Clients, SearchVector(c)
      PROVE  LatestInv'
    BY <1>4 DEF SearchVector
<1>5. ASSUME NEW c \in Clients, PutVector(c)
      PROVE  LatestInv'
    BY <1>5 DEF PutVector, Return, Empty
<1>6. ASSUME NEW c \in Clients, GetL2Hit(c)
      PROVE  LatestInv'
    BY <1>6 DEF GetL2Hit
<1>7. ASSUME NEW c \in Clients, GetL2Miss(c)
      PROVE  LatestInv'
    BY <1>7 DEF GetL2Miss
<1>8. ASSUME NEW c \in Clients, Promote(c)
      PROVE  LatestInv'
    BY <1>8 DEF Promote, Return, Empty, FireTouch
<1>9. ASSUME NEW c \in Clients, GetL3Hit(c)
      PROVE  LatestInv'
    BY <1>9 DEF GetL3Hit
<1>10. ASSUME NEW c \in Clients, GetL3Miss(c)
      PROVE  LatestInv'
    BY <1>10 DEF GetL3Miss
<1>11. ASSUME NEW c \in Clients, ReturnNone(c)
      PROVE  LatestInv'
    BY <1>11 DEF ReturnNone, Return, Empty
<1>12. ASSUME NEW c \in Clients, RestoreVector(c)
      PROVE  LatestInv'
    <2>1. cid[c] \in Shards /\ cobj[c] \in Copies /\ cpc[c] = "restoreVector"
          /\ l2' = [l2 EXCEPT ![cid[c]] = cobj[c]]
          /\ cpc' = [cpc EXCEPT ![c] = "restoreCache"]
          /\ UNCHANGED <<l1, l3, cid, cobj, chits, touching, pruner, written,
                         acked, clobbered, contended>>
        BY <1>12 DEF RestoreVector
    <2>2. \A u \in Shards : Putting(u)' <=> Putting(u)
        BY <2>1
    <2>3. ASSUME NEW u \in Shards \ (contended \union clobbered),
                 u \in acked, ~Putting(u)
          PROVE  TiersNewest(u)'
        BY <2>1, <2>3
    <2>4. \A u \in Shards : /\ HeldNewest(u)' <=> HeldNewest(u)
                            /\ PutAlone(u)' <=> PutAlone(u)
        BY <2>1
    <2> QED
        BY <2>1, <2>2, <2>3, <2>4
<1>13. ASSUME NEW c \in Clients, RestoreCache(c)
      PROVE  LatestInv'
    BY <1>13 DEF RestoreCache
<1>14. ASSUME NEW c \in Clients, RestoreDelete(c)
      PROVE  LatestInv'
    BY <1>14 DEF RestoreDelete, Return, Empty, FireTouch
<1>15. ASSUME NEW c \in Clients, NEW s \in Shards, SearchPromote(c, s)
      PROVE  LatestInv'
    BY <1>15 DEF SearchPromote
<1>16. ASSUME NEW c \in Clients, Touch(c)
      PROVE  LatestInv'
    BY <1>16 DEF Touch
<1>17. ASSUME NEW c \in Clients, ClientFault(c)
      PROVE  LatestInv'
    BY <1>17 DEF ClientFault, Return, Empty, Fault
<1>18. ASSUME NEW c \in Clients, TouchFault(c)
      PROVE  LatestInv'
    BY <1>18 DEF TouchFault, Fault
<1>19. ASSUME NEW p \in Pruners, AcquireLock(p)
      PROVE  LatestInv'
    BY <1>19 DEF AcquireLock
<1>20. ASSUME NEW p \in Pruners, ScanL1(p)
      PROVE  LatestInv'
    BY <1>20 DEF ScanL1
<1>21. ASSUME NEW p \in Pruners, ScanL2(p)
      PROVE  LatestInv'
    BY <1>21 DEF ScanL2
<1>22. ASSUME NEW p \in Pruners, NEW s \in Shards, DemoteL1(p, s)
      PROVE  LatestInv'
    BY <1>22 DEF DemoteL1
<1>23. ASSUME NEW p \in Pruners, NEW s \in Shards, ArchivePut(p, s)
      PROVE  LatestInv'
    BY <1>23 DEF ArchivePut
<1>24. ASSUME NEW p \in Pruners, VectorDelete(p)
      PROVE  LatestInv'
    <2>1. psid[p] \in Shards /\ ppc[p] = "vectorDelete"
          /\ l2' = [l2 EXCEPT ![psid[p]] = None]
          /\ ppc' = [ppc EXCEPT ![p] = "cacheDelete"]
          /\ UNCHANGED <<l1, l3, client, touching, snap, psid, written,
                         acked, clobbered, contended>>
        BY <1>24 DEF VectorDelete
    <2>2. \A u \in Shards : Putting(u)' <=> Putting(u)
        BY <2>1
    <2>3. l3[psid[p]] # None \/ psid[p] \in clobbered
        BY <2>1 DEF ArchivedHasRow
    <2>4. ASSUME NEW u \in Shards \ (contended \union clobbered),
                 u \in acked, ~Putting(u)
          PROVE  TiersNewest(u)'
        <3>1. CASE u = psid[p]
            BY <2>1, <2>3, <2>4, <3>1
        <3>2. CASE u # psid[p]
            BY <2>1, <2>4, <3>2
        <3> QED
            BY <3>1, <3>2
    <2>5. \A u \in Shards : /\ HeldNewest(u)' <=> HeldNewest(u)
                            /\ PutAlone(u)' <=> PutAlone(u)
        BY <2>1
    <2> QED
        BY <2>1, <2>2, <2>4, <2>5
<1>25. ASSUME NEW p \in Pruners, CacheDelete(p)
      PROVE  LatestInv'
    <2>1. psid[p] \in Shards /\ ppc[p] = "cacheDelete"
          /\ l1' = [l1 EXCEPT ![psid[p]] = None]
          /\ snap' = [snap EXCEPT ![p] = [@ EXCEPT ![psid[p]] = None]]
          /\ psid' = [psid EXCEPT ![p] = None]
          /\ ppc' = [ppc EXCEPT ![p] = "demote"]
          /\ UNCHANGED <<l2, l3, client, touching, written, acked, clobbered,
                         contended>>
        BY <1>25 DEF CacheDelete
    <2>2. \A q \in Pruners, u \in Shards :
             snap'[q][u] = snap[q][u] \/ snap'[q][u] = None
        BY <2>1
    <2>3. \A u \in Shards : /\ Putting(u)' <=> Putting(u)
                            /\ TiersNewest(u)' <=> TiersNewest(u)
        BY <2>1
    <2>4. \A u \in Shards : /\ HeldNewest(u) => HeldNewest(u)'
                            /\ PutAlone(u) => PutAlone(u)'
        BY <2>1, <2>2
    <2>5. ArchivedInSnap'
        BY <2>1
    <2> QED
        BY <2>1, <2>3, <2>4, <2>5
<1>26. ASSUME NEW p \in Pruners, FinishCycle(p)
      PROVE  LatestInv'
    BY <1>26 DEF FinishCycle
<1>27. ASSUME NEW p \in Pruners, PrunerFault(p)
      PROVE  LatestInv'
    BY <1>27 DEF PrunerFault, Empty, Fault
<1>28. ASSUME NEW s \in Shards, L1Drop(s)
      PROVE  LatestInv'
    BY <1>28 DEF L1Drop
<1>29. ASSUME LockExpire
      PROVE  LatestInv'
    BY <1>29 DEF LockExpire
<1>30. CASE UNCHANGED vars
    BY <1>30 DEF vars
<1> QED
    BY <1>1, <1>2, <1>3, <1>4, <1>5, <1>6, <1>7, <1>8, <1>9, <1>10, <1>11,
       <1>12, <1>13, <1>14, <1>15, <1>16, <1>17, <1>18, <1>19, <1>20, <1>21,
       <1>22, <1>23, <1>24, <1>25, <1>26, <1>27, <1>28, <1>29, <1>30 DEF
       Next, Call, ClientStep, PrunerStep

\* After a put() that overlapped nothing that had its id in hand, every copy in
\* L1 and L2 is the one it wrote, and so is the L3 row whenever L2 has none,
\* whatever older rows a demotion or a restore left behind before it.
THEOREM Latest == Spec => []LatestFound
<1>1. Init => CopiesInv /\ LatestInv
    BY DEF Init, CopiesInv, DurableUnlessClobbered, ArchivedHasRow,
           RehydratedHasCopy, Rehydrated, LatestInv, ArchivedInSnap,
           IdleHoldsNone, Putting
<1>2. TypeOK /\ LocalsOK /\ CopiesInv /\ LatestInv /\ [Next]_vars
        => (TypeOK /\ LocalsOK /\ CopiesInv /\ LatestInv)'
    BY TypeStep, CopiesStep, LatestStep
<1>3. TypeOK /\ LatestInv => LatestFound
    BY DEF TypeOK, LatestInv, HeldNewest, TiersNewest, Newest, LatestFound
<1> QED
    BY TypeInit, <1>1, <1>2, <1>3, PTL DEF Spec

-----------------------------------------------------------------------------
(* The refinement of DurableMemory.                                        *)

\* Nothing durable holds a shard no put() of which has returned, and nothing is
\* about to bring one there but that put().
OnlyAcked ==
    \A s \in Shards \ acked :
        /\ l2[s] = None /\ l3[s] = None
        /\ \A p \in Pruners : snap[p][s] = None
        /\ \A c \in Clients : cpc[c] = "restoreVector" => cid[c] # s

\* A step that writes L2 or L3 takes the shard from the other, or acks it.
LEMMA OnlyAckedStep ==
    TypeOK /\ LocalsOK /\ OnlyAcked /\ [Next]_vars => OnlyAcked'
<1> SUFFICES ASSUME TypeOK, LocalsOK, OnlyAcked, [Next]_vars
             PROVE  OnlyAcked'
    OBVIOUS
<1> USE NoneAssumption
        DEF TypeOK, LocalsOK, OnlyAcked, tiers, client, pruner, history, Goto
<1>1. ASSUME NEW c \in Clients, NEW s \in Shards, PutCache(c, s)
      PROVE  OnlyAcked'
    BY <1>1 DEF PutCache
<1>2. ASSUME NEW c \in Clients, NEW s \in Shards, GetL1Hit(c, s)
      PROVE  OnlyAcked'
    BY <1>2 DEF GetL1Hit
<1>3. ASSUME NEW c \in Clients, NEW s \in Shards, GetL1Miss(c, s)
      PROVE  OnlyAcked'
    BY <1>3 DEF GetL1Miss
<1>4. ASSUME NEW c \in Clients, SearchVector(c)
      PROVE  OnlyAcked'
    BY <1>4 DEF SearchVector
<1>5. ASSUME NEW c \in Clients, PutVector(c)
      PROVE  OnlyAcked'
    BY <1>5 DEF PutVector, Return
<1>6. ASSUME NEW c \in Clients, GetL2Hit(c)
      PROVE  OnlyAcked'
    BY <1>6 DEF GetL2Hit
<1>7. ASSUME NEW c \in Clients, GetL2Miss(c)
      PROVE  OnlyAcked'
    BY <1>7 DEF GetL2Miss
<1>8. ASSUME NEW c \in Clients, Promote(c)
      PROVE  OnlyAcked'
    BY <1>8 DEF Promote, Return
<1>9. ASSUME NEW c \in Clients, GetL3Hit(c)
      PROVE  OnlyAcked'
    BY <1>9 DEF GetL3Hit
<1>10. ASSUME NEW c \in Clients, GetL3Miss(c)
      PROVE  OnlyAcked'
    BY <1>10 DEF GetL3Miss
<1>11. ASSUME NEW c \in Clients, ReturnNone(c)
      PROVE  OnlyAcked'
    BY <1>11 DEF ReturnNone, Return
<1>12. ASSUME NEW c \in Clients, RestoreVector(c)
      PROVE  OnlyAcked'
    BY <1>12 DEF RestoreVector
<1>13. ASSUME NEW c \in Clients, RestoreCache(c)
      PROVE  OnlyAcked'
    BY <1>13 DEF RestoreCache
<1>14. ASSUME NEW c \in Clients, RestoreDelete(c)
      PROVE  OnlyAcked'
    BY <1>14 DEF RestoreDelete, Return
<1>15. ASSUME NEW c \in Clients, NEW s \in Shards, SearchPromote(c, s)
      PROVE  OnlyAcked'
    BY <1>15 DEF SearchPromote
<1>16. ASSUME NEW c \in Clients, Touch(c)
      PROVE  OnlyAcked'
    BY <1>16 DEF Touch
<1>17. ASSUME NEW c \in Clients, ClientFault(c)
      PROVE  OnlyAcked'
    BY <1>17 DEF ClientFault, Return
<1>18. ASSUME NEW c \in Clients, TouchFault(c)
      PROVE  OnlyAcked'
    BY <1>18 DEF TouchFault
<1>19. ASSUME NEW p \in Pruners, AcquireLock(p)
      PROVE  OnlyAcked'
    BY <1>19 DEF AcquireLock
<1>20. ASSUME NEW p \in Pruners, ScanL1(p)
      PROVE  OnlyAcked'
    BY <1>20 DEF ScanL1
<1>21. ASSUME NEW p \in Pruners, ScanL2(p)
      PROVE  OnlyAcked'
    BY <1>21 DEF ScanL2
<1>22. ASSUME NEW p \in Pruners, NEW s \in Shards, DemoteL1(p, s)
      PROVE  OnlyAcked'
    BY <1>22 DEF DemoteL1
<1>23. ASSUME NEW p \in Pruners, NEW s \in Shards, ArchivePut(p, s)
      PROVE  OnlyAcked'
    BY <1>23 DEF ArchivePut
<1>24. ASSUME NEW p \in Pruners, VectorDelete(p)
      PROVE  OnlyAcked'
    BY <1>24 DEF VectorDelete
<1>25. ASSUME NEW p \in Pruners, CacheDelete(p)
      PROVE  OnlyAcked'
    BY <1>25 DEF CacheDelete
<1>26. ASSUME NEW p \in Pruners, FinishCycle(p)
      PROVE  OnlyAcked'
    BY <1>26 DEF FinishCycle
<1>27. ASSUME NEW p \in Pruners, PrunerFault(p)
      PROVE  OnlyAcked'
    BY <1>27 DEF PrunerFault, Empty
<1>28. ASSUME NEW s \in Shards, L1Drop(s)
      PROVE  OnlyAcked'
    BY <1>28 DEF L1Drop
<1>29. ASSUME LockExpire
      PROVE  OnlyAcked'
    BY <1>29 DEF LockExpire
<1>30. CASE UNCHANGED vars
    BY <1>30 DEF vars
<1> QED
    BY <1>1, <1>2, <1>3, <1>4, <1>5, <1>6, <1>7, <1>8, <1>9, <1>10, <1>11,
       <1>12, <1>13, <1>14, <1>15, <1>16, <1>17, <1>18, <1>19, <1>20, <1>21,
       <1>22, <1>23, <1>24, <1>25, <1>26, <1>27, <1>28, <1>29, <1>30 DEF
       Next, Call, ClientStep, PrunerStep

\* A shard that no overlap has endangered is held from its first ack on.
LEMMA HeldAcked ==
    ASSUME CopiesInv, OnlyAcked, TypeOK
    PROVE  Held \ clobbered = acked \ clobbered
BY DEF CopiesInv, DurableUnlessClobbered, OnlyAcked, TypeOK, Held

\* How far each client's look has come, by where its coroutine is suspended.
LEMMA LookAt ==
    ASSUME TypeOK, NEW c \in Clients
    PROVE  /\ Look[c] = "above" <=> cpc[c] = "getL2"
           /\ Look[c] = "below" <=> cpc[c] = "getL3"
           /\ Look[c] = "missed" <=> cpc[c] = "missed"
           /\ Look[c] = "no" <=> cpc[c] \in {"idle", "putVector", "search"}
           /\ Look[c] = "found" <=> cpc[c] \in {"promote", "restoreVector",
                                       "restoreCache", "restoreDelete"}
BY DEF Look, TypeOK, ClientPCs

\* What the memory sees of a client: nothing else of it matters.
Seen(c) == <<Look[c], Sought[c], Sure[c]>>

\* A step that touches no tier and no look is none of the memory's.
LEMMA Unseen ==
    ASSUME UNCHANGED <<Held, clobbered>>, \A c \in Clients : UNCHANGED Seen(c)
    PROVE  UNCHANGED Memory!vars
<1>1. Look' = Look /\ Sought' = Sought /\ Sure' = Sure
    BY DEF Seen, Look, Sought, Sure
<1> QED BY <1>1 DEF Memory!vars

\* A client returns to its caller: it looks no more.
LEMMA Leaves ==
    ASSUME TypeOK, NEW c \in Clients, Return(c),
           UNCHANGED <<Held, clobbered, promised, raced>>
    PROVE  Memory!Leave(c)
<1>1. Look' = [Look EXCEPT ![c] = "no"]
    BY DEF Return, Goto, Look, TypeOK
<1>2. Sought' = [Sought EXCEPT ![c] = None]
    BY <1>1 DEF Return, Sought, Look, TypeOK
<1>3. Sure' = [Sure EXCEPT ![c] = FALSE]
    <2>1. Look'[c] = "no" /\ \A d \in Clients \ {c} : Look'[d] = Look[d]
        BY <1>1 DEF Look
    <2>2. /\ UNCHANGED <<promised, raced, clobbered>>
          /\ \A d \in Clients \ {c} : cid'[d] = cid[d]
        BY DEF Return, TypeOK
    <2>3. Sure'[c] = FALSE
        BY <2>1 DEF Sure
    <2>4. \A d \in Clients \ {c} : Sure'[d] = Sure[d]
        BY <2>1, <2>2 DEF Sure
    <2> QED BY <2>3, <2>4 DEF Sure
<1> QED BY <1>1, <1>2, <1>3 DEF Memory!Leave

\* The empty tiers are an empty memory that nobody looks into.
LEMMA MemoryInit == Init => Memory!Init
<1> SUFFICES ASSUME Init PROVE Memory!Init
    OBVIOUS
<1>1. Held = {}
    BY DEF Init, Held, Empty
<1>2. Look = [c \in Clients |-> "no"]
    BY DEF Init, Look
<1>3. Sought = [c \in Clients |-> None] /\ Sure = [c \in Clients |-> FALSE]
    BY <1>2 DEF Sought, Sure
<1> QED BY <1>1, <1>2, <1>3 DEF Init, Memory!Init

\* The steps of a walk: each read, and each answer, is one of the memory's.
LEMMA WalkIsLook ==
    ASSUME TypeOK, LocalsOK, CopiesInv, WalkInv, OnlyAcked, NEW c \in Clients
    PROVE  /\ \A s \in Shards : GetL1Miss(c, s) => Memory!Seek(c, s)
           /\ GetL2Hit(c) \/ GetL3Hit(c) => Memory!Find(c)
           /\ GetL2Miss(c) => Memory!Descend(c)
           /\ GetL3Miss(c) => Memory!Miss(c)
<1> USE DEF tiers, client, pruner, history, Goto
<1>1. ASSUME NEW s \in Shards, GetL1Miss(c, s) PROVE Memory!Seek(c, s)
    <2>1. Look[c] = "no" /\ Look' = [Look EXCEPT ![c] = "above"]
        BY <1>1 DEF GetL1Miss, Look, TypeOK
    <2>2. Sought' = [Sought EXCEPT ![c] = s]
        BY <1>1, <2>1 DEF GetL1Miss, Sought, Look, TypeOK
    <2>3. Sure' = [Sure EXCEPT ![c] = s \in Held \ clobbered]
        <3>1. s \in Held \ clobbered <=> s \in acked /\ s \notin clobbered
            BY HeldAcked
        <3>2. /\ promised' = [promised EXCEPT ![c] = s \in acked]
              /\ raced' = [raced EXCEPT ![c] = FALSE]
              /\ cid' = [cid EXCEPT ![c] = s] /\ clobbered' = clobbered
            BY <1>1 DEF GetL1Miss
        <3>3. Look'[c] = "above" /\ \A d \in Clients \ {c} : Look'[d] = Look[d]
            BY <2>1 DEF Look
        <3>4. Sure'[c] = (s \in Held \ clobbered)
            <4>1. Sure'[c] = (/\ Look'[c] \in {"above", "below"} /\ promised'[c]
                              /\ ~raced'[c] /\ cid'[c] \notin clobbered')
                BY DEF Sure
            <4>2. /\ promised'[c] = (s \in acked) /\ raced'[c] = FALSE
                  /\ cid'[c] = s
                BY <3>2 DEF TypeOK
            <4>3. Sure'[c] \in BOOLEAN
                BY <4>1
            <4>4. Sure'[c] <=> s \in acked /\ s \notin clobbered
                <5>1. Sure'[c] <=> /\ Look'[c] \in {"above", "below"} /\ promised'[c]
                                   /\ ~raced'[c] /\ cid'[c] \notin clobbered'
                    BY <4>1
                <5>2. Look'[c] \in {"above", "below"} /\ ~raced'[c]
                    BY <3>3, <4>2
                <5>3. promised'[c] <=> s \in acked
                    BY <4>2
                <5>4. cid'[c] \notin clobbered' <=> s \notin clobbered
                    BY <3>2, <4>2
                <5> QED BY <5>1, <5>2, <5>3, <5>4
            <4> QED BY <3>1, <4>3, <4>4
        <3>5. \A d \in Clients \ {c} : Sure'[d] = Sure[d]
            BY <3>2, <3>3 DEF Sure, TypeOK
        <3> QED BY <3>4, <3>5 DEF Sure
    <2>4. UNCHANGED <<Held, clobbered>>
        BY <1>1 DEF GetL1Miss, Held
    <2> QED BY <2>1, <2>2, <2>3, <2>4 DEF Memory!Seek
<1>2. ASSUME GetL2Hit(c) \/ GetL3Hit(c) PROVE Memory!Find(c)
    <2>1. /\ Look[c] \in {"above", "below"}
          /\ Look' = [Look EXCEPT ![c] = "found"]
        <3>1. CASE GetL2Hit(c)
            BY <3>1 DEF GetL2Hit, Look, TypeOK
        <3>2. CASE GetL3Hit(c)
            BY <3>2 DEF GetL3Hit, Look, TypeOK
        <3> QED BY <1>2, <3>1, <3>2
    <2>2. Sought[c] \in Held
        <3>1. /\ cpc[c] \in {"getL2", "getL3"}
              /\ l2[cid[c]] # None \/ l3[cid[c]] # None
            BY <1>2 DEF GetL2Hit, GetL3Hit
        <3>2. cid[c] \in Shards
            BY <3>1 DEF LocalsOK
        <3>3. Sought[c] = cid[c]
            BY <2>1 DEF Sought
        <3> QED BY <3>1, <3>2, <3>3 DEF Held
    <2>3. Sought' = Sought
        <3>1. cid' = cid
            BY <1>2 DEF GetL2Hit, GetL3Hit
        <3>2. \A d \in Clients : Look'[d] = "no" <=> Look[d] = "no"
            <4>1. ASSUME NEW d \in Clients PROVE Look'[d] = "no" <=> Look[d] = "no"
                <5>1. CASE d = c
                    BY <2>1, <5>1 DEF Look
                <5>2. CASE d # c
                    BY <2>1, <5>2 DEF Look
                <5> QED BY <5>1, <5>2
            <4> QED BY <4>1
        <3> QED BY <3>1, <3>2 DEF Sought
    <2>4. Sure' = [Sure EXCEPT ![c] = FALSE]
        <3>1. /\ UNCHANGED <<cid, promised, clobbered>>
              /\ \A d \in Clients \ {c} : raced'[d] = raced[d]
            BY <1>2 DEF GetL2Hit, GetL3Hit, TypeOK
        <3>2. Look'[c] = "found" /\ \A d \in Clients \ {c} : Look'[d] = Look[d]
            BY <2>1 DEF Look
        <3>3. Sure'[c] = FALSE
            BY <3>2 DEF Sure
        <3>4. \A d \in Clients \ {c} : Sure'[d] = Sure[d]
            BY <3>1, <3>2 DEF Sure
        <3> QED BY <3>3, <3>4 DEF Sure
    <2>5. UNCHANGED <<Held, clobbered>>
        BY <1>2 DEF GetL2Hit, GetL3Hit, Held
    <2> QED BY <2>1, <2>2, <2>3, <2>4, <2>5 DEF Memory!Find, Memory!Looking
<1>3. ASSUME GetL2Miss(c) PROVE Memory!Descend(c)
    <2>1. Look[c] = "above" /\ Look' = [Look EXCEPT ![c] = "below"]
        BY <1>3 DEF GetL2Miss, Look, TypeOK
    <2>2. Sought' = Sought /\ Sure' = Sure
        BY <1>3, <2>1 DEF GetL2Miss, Sought, Sure, Look
    <2>3. UNCHANGED <<Held, clobbered>>
        BY <1>3 DEF GetL2Miss, Held
    <2> QED BY <2>1, <2>2, <2>3 DEF Memory!Descend
<1>4. ASSUME GetL3Miss(c) PROVE Memory!Miss(c)
    <2>1. Look[c] = "below" /\ Look' = [Look EXCEPT ![c] = "missed"]
        BY <1>4 DEF GetL3Miss, Look, TypeOK
    <2>2. ~Sure[c]
        \* No row: the shard was not promised, or the walk was overtaken.
        BY <1>4 DEF GetL3Miss, Sure, WalkInv, WalkKeepsPromise
    <2>3. Sought' = Sought /\ Sure' = Sure
        BY <1>4, <2>1, <2>2 DEF GetL3Miss, Sought, Sure, Look
    <2>4. UNCHANGED <<Held, clobbered>>
        BY <1>4 DEF GetL3Miss, Held
    <2> QED BY <2>1, <2>2, <2>3, <2>4 DEF Memory!Miss
<1> QED BY <1>1, <1>2, <1>3, <1>4

\* The end of a restore is a Lift, or an Overlap if a demotion was about.
LEMMA RestoreIsLift ==
    ASSUME TypeOK, LocalsOK, CopiesInv, NEW c \in Clients, RestoreDelete(c)
    PROVE  Memory!Lift(c) \/ Memory!Overlap(c)
<1> USE DEF tiers, client, pruner, history, Goto
<1> DEFINE s == cid[c]
<1>1. /\ s \in Shards /\ Look[c] = "found" /\ Sought[c] = s
      /\ l2' = l2 /\ l3' = [l3 EXCEPT ![s] = None]
    BY DEF RestoreDelete, LocalsOK, Look, Sought
<1>2. Look' = [Look EXCEPT ![c] = "no"]
    BY DEF RestoreDelete, Return, Look, TypeOK
<1>3. Sought' = [Sought EXCEPT ![c] = None]
    BY <1>2 DEF RestoreDelete, Return, Sought, Look, TypeOK
<1>4. \A d \in Clients : raced'[d] =
         (raced[d] \/ (d # c /\ cpc[d] = "getL3" /\ cid[d] = s))
    BY DEF RestoreDelete
<1>5. Held' \in {Held, Held \ {s}} /\ (l2[s] # None => s \in Held /\ Held' = Held)
    BY <1>1 DEF Held, TypeOK
<1>6. \A d \in Clients :
         /\ Sure[d] <=> /\ Look[d] \in {"above", "below"}
                        /\ promised[d] /\ ~raced[d] /\ cid[d] \notin clobbered
         /\ Sure'[d] <=> /\ Look[d] \in {"above", "below"}
                         /\ promised[d] /\ ~raced[d] /\ cid[d] \notin clobbered'
                         /\ ~(Look[d] = "below" /\ cid[d] = s)
         /\ Look[d] \in {"above", "below"} => Sought[d] = cid[d]
    <2> TAKE d \in Clients
    <2>1. /\ Sure[d] = (/\ Look[d] \in {"above", "below"}
                        /\ promised[d] /\ ~raced[d] /\ cid[d] \notin clobbered)
          /\ Sure'[d] = (/\ Look'[d] \in {"above", "below"}
                         /\ promised'[d] /\ ~raced'[d] /\ cid'[d] \notin clobbered')
        BY DEF Sure
    <2>2. Look[d] \in {"above", "below"} => Sought[d] = cid[d]
        BY DEF Sought
    <2>3. promised'[d] = promised[d]
        BY DEF RestoreDelete
    <2>4. CASE d = c
        <3>1. Look'[d] = "no" /\ Look[d] = "found"
            BY <1>1, <1>2, <2>4 DEF Look
        <3> QED BY <2>1, <2>2, <3>1
    <2>5. CASE d # c
        <3>1. Look'[d] = Look[d] /\ cid'[d] = cid[d]
            BY <1>2, <2>5 DEF RestoreDelete, Return, Look, TypeOK
        <3>2. Look[d] = "below" <=> cpc[d] = "getL3"
            BY LookAt
        <3>3. raced'[d] <=> raced[d] \/ (Look[d] = "below" /\ cid[d] = s)
            BY <1>4, <2>5, <3>2
        <3> QED BY <2>1, <2>2, <2>3, <3>1, <3>3, Zenon
    <2> QED BY <2>4, <2>5
<1>7. CASE raced[c] \/ \E p \in Pruners : Archived(p, s)
    <2>1. clobbered' = clobbered \union {s}
        BY <1>7 DEF RestoreDelete
    <2>2. Sure' = [d \in Clients |-> Sure[d] /\ Sought[d] # s]
        <3>1. \A d \in Clients : Sure'[d] <=> Sure[d] /\ Sought[d] # s
            <4> TAKE d \in Clients
            <4> QED BY <1>6, <2>1
        <3>2. \A d \in Clients : Sure'[d] \in BOOLEAN
            BY DEF Sure
        <3> QED BY <3>1, <3>2 DEF Sure
    <2> QED BY <1>1, <1>2, <1>3, <1>5, <2>1, <2>2 DEF Memory!Overlap
<1>8. CASE ~(raced[c] \/ \E p \in Pruners : Archived(p, s))
    <2>1. clobbered' = clobbered
        BY <1>8 DEF RestoreDelete
    <2>2. s \in Held /\ Held' = Held
        BY <1>5, <1>8 DEF RestoreDelete, CopiesInv, RehydratedHasCopy, Rehydrated
    <2>3. Sure' = [d \in Clients |->
                      Sure[d] /\ ~(Look[d] = "below" /\ Sought[d] = s)]
        <3>1. \A d \in Clients :
                 Sure'[d] <=> Sure[d] /\ ~(Look[d] = "below" /\ Sought[d] = s)
            <4> TAKE d \in Clients
            <4> QED BY <1>6, <2>1
        <3>2. \A d \in Clients : Sure'[d] \in BOOLEAN
            BY DEF Sure
        <3> QED BY <3>1, <3>2 DEF Sure
    <2> QED BY <1>1, <1>2, <1>3, <2>1, <2>2, <2>3 DEF Memory!Lift
<1> QED BY <1>7, <1>8

\* A step that writes L2 or L3 for a client remembers its shard.
LEMMA WriteRemembers ==
    ASSUME TypeOK, LocalsOK, NEW c \in Clients, PutVector(c) \/ RestoreVector(c)
    PROVE  Memory!Remember(cid[c])
<1> USE DEF tiers, client, pruner, history, Goto
<1>1. /\ cid[c] \in Shards /\ cobj[c] # None
      /\ l2' = [l2 EXCEPT ![cid[c]] = cobj[c]] /\ l3' = l3 /\ clobbered' = clobbered
    BY NoneAssumption DEF PutVector, RestoreVector, LocalsOK
<1>2. Held' = Held \union {cid[c]}
    BY <1>1 DEF Held, TypeOK
<1>3. Look' = Look
    <2>1. CASE PutVector(c)
        BY <2>1 DEF PutVector, Return, Look, TypeOK
    <2>2. CASE RestoreVector(c)
        BY <2>2 DEF RestoreVector, Look, TypeOK
    <2> QED BY <2>1, <2>2
<1>4. \A d \in Clients : Look[d] # "no" => cid'[d] = cid[d]
    <2>1. CASE PutVector(c)
        <3>1. Look[c] = "no"
            BY <2>1 DEF PutVector, Look
        <3> QED BY <2>1, <3>1 DEF PutVector, Return, TypeOK
    <2>2. CASE RestoreVector(c)
        BY <2>2 DEF RestoreVector
    <2> QED BY <2>1, <2>2
<1>5. UNCHANGED <<promised, raced>>
    BY DEF PutVector, RestoreVector
<1>6. Sought' = Sought /\ Sure' = Sure
    BY <1>1, <1>3, <1>4, <1>5 DEF Sought, Sure
<1> QED BY <1>1, <1>2, <1>3, <1>6 DEF Memory!Remember

\* A demotion remembers what it archives, and forgets only what it has lost.
LEMMA DemotionKeeps ==
    ASSUME TypeOK, LocalsOK, CopiesInv, NEW p \in Pruners
    PROVE  /\ \A s \in Shards : ArchivePut(p, s) => Memory!Remember(s)
           /\ VectorDelete(p) =>
                 \/ Memory!Forget(psid[p])
                 \/ UNCHANGED Memory!vars
<1> USE DEF tiers, client, pruner, history, Goto
<1>1. ASSUME NEW s \in Shards, ArchivePut(p, s) PROVE Memory!Remember(s)
    <2>1. Held' = Held \union {s}
        BY <1>1, NoneAssumption DEF ArchivePut, Held, TypeOK
    <2>2. Look' = Look /\ Sought' = Sought /\ Sure' = Sure /\ clobbered' = clobbered
        BY <1>1 DEF ArchivePut, Look, Sought, Sure
    <2> QED BY <2>1, <2>2 DEF Memory!Remember
<1>2. ASSUME VectorDelete(p)
      PROVE  Memory!Forget(psid[p]) \/ UNCHANGED Memory!vars
    <2>1. /\ psid[p] \in Shards
          /\ l2' = [l2 EXCEPT ![psid[p]] = None] /\ l3' = l3
          /\ UNCHANGED <<cpc, cid, promised, clobbered>>
        BY <1>2 DEF VectorDelete, LocalsOK
    <2>2. Look' = Look /\ Sought' = Sought
        BY <2>1 DEF Look, Sought
    <2>3. Sure' = Sure
        \* Only readers that have found their shard can be raced.
        <3>1. \A d \in Clients :
                 Look[d] \in {"above", "below"} => raced'[d] = raced[d]
            BY <1>2 DEF VectorDelete, Rehydrated, Look, TypeOK
        <3> QED BY <2>1, <2>2, <3>1 DEF Sure
    <2>4. CASE l3[psid[p]] # None
        BY <2>1, <2>2, <2>3, <2>4 DEF Held, TypeOK, Memory!vars
    <2>5. CASE l3[psid[p]] = None
        <3>1. psid[p] \in clobbered
            BY <1>2, <2>5 DEF VectorDelete, CopiesInv, ArchivedHasRow
        <3>2. Held' = Held \ {psid[p]}
            BY <2>1, <2>5 DEF Held, TypeOK
        <3> QED BY <2>1, <2>2, <2>3, <3>1, <3>2 DEF Memory!Forget
    <2> QED BY <2>4, <2>5
<1> QED BY <1>1, <1>2

\* Every other step of the tiers is none of the memory's: it writes neither L2
\* nor L3 and moves no look.
OutOfSight ==
    \/ \E c \in Clients : \/ Call(c) /\ ~\E s \in Shards : GetL1Miss(c, s)
                          \/ RestoreCache(c)
                          \/ \E s \in Shards : SearchPromote(c, s)
                          \/ Touch(c) \/ TouchFault(c)
    \/ \E p \in Pruners : \/ AcquireLock(p) \/ ScanL1(p) \/ ScanL2(p)
                          \/ \E s \in Shards : DemoteL1(p, s)
                          \/ CacheDelete(p) \/ FinishCycle(p) \/ PrunerFault(p)
    \/ \E s \in Shards : L1Drop(s)
    \/ LockExpire
    \/ UNCHANGED vars

LEMMA Stutters == ASSUME TypeOK, OutOfSight PROVE UNCHANGED Memory!vars
<1> USE DEF tiers, client, pruner, history, Goto
<1>1. UNCHANGED <<l2, l3, promised, raced, clobbered>>
    BY DEF OutOfSight, Call, PutCache, GetL1Hit, SearchVector, RestoreCache,
       SearchPromote, Touch, TouchFault, AcquireLock, ScanL1, ScanL2, DemoteL1,
       CacheDelete, FinishCycle, PrunerFault, L1Drop, LockExpire, vars
<1>2. \A c \in Clients : Look'[c] = Look[c] /\ (Look[c] # "no" => cid'[c] = cid[c])
    <2>1. CASE \E d \in Clients : \E s \in Shards : PutCache(d, s)
        BY <2>1 DEF PutCache, Look, TypeOK
    <2>2. CASE \E d \in Clients :
                  SearchVector(d) \/ \E s \in Shards : SearchPromote(d, s)
        BY <2>2 DEF SearchVector, SearchPromote, Look, TypeOK
    <2>3. CASE \E d \in Clients : RestoreCache(d)
        BY <2>3 DEF RestoreCache, Look, TypeOK
    <2>4. CASE UNCHANGED <<cpc, cid>>
        BY <2>4 DEF Look
    <2>5. ASSUME NEW d \in Clients, Call(d), ~\E s \in Shards : GetL1Miss(d, s)
          PROVE  \/ \E s \in Shards : PutCache(d, s)
                 \/ SearchVector(d)
                 \/ UNCHANGED <<cpc, cid>>
        BY <2>5 DEF Call, GetL1Hit
    <2>6. ASSUME NEW d \in Clients, Touch(d) \/ TouchFault(d)
          PROVE  UNCHANGED <<cpc, cid>>
        BY <2>6 DEF Touch, TouchFault
    <2>7. ASSUME NEW p \in Pruners,
                 \/ AcquireLock(p) \/ ScanL1(p) \/ ScanL2(p)
                 \/ \E s \in Shards : DemoteL1(p, s)
                 \/ CacheDelete(p) \/ FinishCycle(p) \/ PrunerFault(p)
          PROVE  UNCHANGED <<cpc, cid>>
        BY <2>7 DEF AcquireLock, ScanL1, ScanL2, DemoteL1, CacheDelete,
           FinishCycle, PrunerFault
    <2>8. (\E s \in Shards : L1Drop(s)) \/ LockExpire \/ UNCHANGED vars
             => UNCHANGED <<cpc, cid>>
        BY DEF L1Drop, LockExpire, vars
    <2> QED
        BY <2>1, <2>2, <2>3, <2>4, <2>5, <2>6, <2>7, <2>8 DEF OutOfSight
<1>3. \A c \in Clients : UNCHANGED Seen(c)
    BY <1>1, <1>2 DEF Seen, Sought, Sure
<1> QED BY <1>1, <1>3, Unseen DEF Held

\* Every step of the tiers is a step of the memory or none of its.
LEMMA MemoryStep ==
    ASSUME TypeOK, LocalsOK, CopiesInv, WalkInv, OnlyAcked, [Next]_vars
    PROVE  [Memory!Next]_(Memory!vars)
<1> USE DEF Memory!Next
<1>1. ASSUME NEW c \in Clients, ClientStep(c) \/ ClientFault(c)
      PROVE  Memory!Next \/ UNCHANGED Memory!vars
    <2>1. CASE PutVector(c) \/ RestoreVector(c)
        <3>1. cid[c] \in Shards
            BY <2>1 DEF PutVector, RestoreVector, LocalsOK
        <3> QED BY <2>1, <3>1, WriteRemembers
    <2>2. CASE GetL2Hit(c) \/ GetL2Miss(c) \/ GetL3Hit(c) \/ GetL3Miss(c)
        BY <2>2, WalkIsLook
    <2>3. CASE RestoreDelete(c)
        BY <2>3, RestoreIsLift
    <2>4. CASE Promote(c) \/ ReturnNone(c) \/ ClientFault(c)
        <3>1. Return(c) /\ UNCHANGED <<l2, l3, clobbered, promised, raced>>
            BY <2>4 DEF Promote, ReturnNone, ClientFault, tiers, history
        <3>2. Memory!Leave(c)
            BY <3>1, Leaves DEF Held
        <3> QED BY <3>2
    <2>5. CASE RestoreCache(c) \/ \E s \in Shards : SearchPromote(c, s)
        <3>1. OutOfSight
            BY <2>5 DEF OutOfSight
        <3> QED BY <3>1, Stutters
    <2> QED BY <1>1, <2>1, <2>2, <2>3, <2>4, <2>5 DEF ClientStep
<1>2. ASSUME NEW c \in Clients, NEW s \in Shards, GetL1Miss(c, s)
      PROVE  Memory!Next
    BY <1>2, WalkIsLook
<1>3. ASSUME NEW p \in Pruners, NEW s \in Shards, ArchivePut(p, s)
      PROVE  Memory!Next
    BY <1>3, DemotionKeeps
<1>4. ASSUME NEW p \in Pruners, VectorDelete(p)
      PROVE  Memory!Next \/ UNCHANGED Memory!vars
    <2>1. psid[p] \in Shards
        BY <1>4 DEF VectorDelete, LocalsOK
    <2> QED BY <1>4, <2>1, DemotionKeeps
<1>5. CASE OutOfSight
    BY <1>5, Stutters
<1> QED
    BY <1>1, <1>2, <1>3, <1>4, <1>5 DEF OutOfSight, Next, Call, PrunerStep

\* For any shards, readers, pruners and failures, the three tiers are one durable
\* memory: get() finds below L1 only what is durable at that instant, misses a
\* shard that was safely held only if a restore overtook it, and no shard is
\* forgotten before one of its restores has overlapped a demotion of it.
THEOREM MemoryRefinement == Spec => ImplementsMemory
<1>1. Init => CopiesInv /\ WalkInv /\ OnlyAcked
    BY DEF Init, CopiesInv, DurableUnlessClobbered, ArchivedHasRow,
           RehydratedHasCopy, Rehydrated, WalkInv, WalkKeepsPromise,
           MissExplained, OnlyAcked, Empty
<1>2. TypeOK /\ LocalsOK /\ CopiesInv /\ WalkInv /\ OnlyAcked /\ [Next]_vars
        => (TypeOK /\ LocalsOK /\ CopiesInv /\ WalkInv /\ OnlyAcked)'
    BY TypeStep, CopiesStep, WalkStep, OnlyAckedStep
<1>3. TypeOK /\ LocalsOK /\ CopiesInv /\ WalkInv /\ OnlyAcked /\ [Next]_vars
        => [Memory!Next]_(Memory!vars)
    BY MemoryStep
<1> QED
    BY TypeInit, MemoryInit, <1>1, <1>2, <1>3, PTL
       DEF Spec, ImplementsMemory, Memory!Spec
=============================================================================
