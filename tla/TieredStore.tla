---------------------------- MODULE TieredStore ----------------------------
(***************************************************************************)
(* The three memory tiers of lethon_os and the two programs that move      *)
(* shards between them: MemoryController (put, get, search, the            *)
(* fire-and-forget touch) and UtilityPruner (the demotion cycle).          *)
(*                                                                         *)
(* Every store call is an await.  An action is one store call together     *)
(* with the straight-line code that follows it up to the next await, so    *)
(* the interleavings of the model are those of asyncio tasks in one        *)
(* process and of several agent processes over the same stores.            *)
(*                                                                         *)
(* Which shards score below a threshold is data: a scan dooms any subset   *)
(* of what it saw.  L0_CORE shards never enter L2, L3 or a pruner's scan   *)
(* and are modelled in CacheTier.                                          *)
(***************************************************************************)
EXTENDS Naturals, FiniteSets

CONSTANTS
    Shards,      \* shard ids
    Clients,     \* tasks that call the MemoryController
    Pruners,     \* UtilityPruner instances, one per agent process
    None,        \* "no copy", "no shard", "no pending touch"
    MaxVersion,  \* bound: how often one id is written by put()
    MaxHits,     \* bound: access_count saturates here
    MaxFaults    \* bound: failed store calls and crashed tasks in a behaviour

Copies  == [ver : 1..MaxVersion, hits : 0..MaxHits]
Touches == [sid : Shards, obj : Copies]

ASSUME BoundsAssumption ==
    MaxVersion \in Nat /\ MaxHits \in Nat /\ MaxFaults \in Nat
ASSUME NoneAssumption ==
    None \notin Copies /\ None \notin Shards /\ None \notin Touches

VARIABLES
    l1,        \* Redis: the copy of each shard, or None
    l2,        \* Qdrant
    l3,        \* SQLite
    cpc,       \* where each client's coroutine is suspended
    cid,       \* the shard id that coroutine works on
    cobj,      \* the MemoryShard object it holds
    chits,     \* search(): the hits not promoted yet
    touching,  \* the client's pending _safe_touch task
    lock,      \* is the Redis prune lock set?
    ppc,       \* where each pruner's cycle is suspended
    doomed,    \* L1 shards the cycle still has to demote
    snap,      \* L2 shards it still has to archive, as vector.scan() saw them
    psid,      \* the shard in _demote_l2_to_l3
    written,   \* how many puts of an id were begun
    acked,     \* history: ids some put() of which has returned
    promised,  \* history: was the shard acked when the client's get() began?
    raced,     \* history: did another actor undo what the client's walk saw?
    clobbered, \* history: shards whose restore overlapped a demotion
    contended, \* history: ids the last put() of which failed, or overlapped
               \* another call or a cycle that had the id in hand
    faults     \* history: failures so far

tiers   == <<l1, l2, l3>>
client  == <<cpc, cid, cobj, chits>>
pruner  == <<ppc, doomed, snap, psid>>
history == <<acked, promised, raced, clobbered, contended, faults>>
vars    == <<l1, l2, l3, cpc, cid, cobj, chits, touching, lock, ppc, doomed,
             snap, psid, written, acked, promised, raced, clobbered, contended,
             faults>>

ClientPCs == {"idle", "putVector", "getL2", "promote", "getL3", "missed",
              "restoreVector", "restoreCache", "restoreDelete", "search"}
PrunerPCs == {"idle", "scanL1", "scanL2", "demote", "vectorDelete", "cacheDelete"}

Empty == [s \in Shards |-> None]

\* The client has rehydrated L2 but not yet removed the archive row.
Rehydrated(c) == cpc[c] \in {"restoreCache", "restoreDelete"}

\* The pruner has archived s and is about to drop it from L2.
Archived(p, s) == ppc[p] = "vectorDelete" /\ psid[p] = s

TypeOK ==
    /\ l1 \in [Shards -> Copies \union {None}]
    /\ l2 \in [Shards -> Copies \union {None}]
    /\ l3 \in [Shards -> Copies \union {None}]
    /\ cpc \in [Clients -> ClientPCs]
    /\ cid \in [Clients -> Shards \union {None}]
    /\ cobj \in [Clients -> Copies \union {None}]
    /\ chits \in [Clients -> [Shards -> Copies \union {None}]]
    /\ touching \in [Clients -> Touches \union {None}]
    /\ lock \in BOOLEAN
    /\ ppc \in [Pruners -> PrunerPCs]
    /\ doomed \in [Pruners -> SUBSET Shards]
    /\ snap \in [Pruners -> [Shards -> Copies \union {None}]]
    /\ psid \in [Pruners -> Shards \union {None}]
    /\ written \in [Shards -> 0..MaxVersion]
    /\ acked \subseteq Shards
    /\ promised \in [Clients -> BOOLEAN]
    /\ raced \in [Clients -> BOOLEAN]
    /\ clobbered \subseteq Shards
    /\ contended \subseteq Shards
    /\ faults \in 0..MaxFaults

Init ==
    /\ l1 = Empty /\ l2 = Empty /\ l3 = Empty
    /\ cpc = [c \in Clients |-> "idle"]
    /\ cid = [c \in Clients |-> None]
    /\ cobj = [c \in Clients |-> None]
    /\ chits = [c \in Clients |-> Empty]
    /\ touching = [c \in Clients |-> None]
    /\ lock = FALSE
    /\ ppc = [p \in Pruners |-> "idle"]
    /\ doomed = [p \in Pruners |-> {}]
    /\ snap = [p \in Pruners |-> Empty]
    /\ psid = [p \in Pruners |-> None]
    /\ written = [s \in Shards |-> 0]
    /\ acked = {}
    /\ promised = [c \in Clients |-> FALSE]
    /\ raced = [c \in Clients |-> FALSE]
    /\ clobbered = {}
    /\ contended = {}
    /\ faults = 0

\* A put() of s is under way.
Putting(s) == \E c \in Clients : cpc[c] = "putVector" /\ cid[c] = s

\* A coroutine, a touch or a cycle holds a copy of s, or is looking for one.
InHand(s) ==
    \/ \E c \in Clients :
          \/ cid[c] = s \/ chits[c][s] # None
          \/ touching[c] # None /\ touching[c].sid = s
    \/ \E p \in Pruners : snap[p][s] # None

Goto(c, label) == cpc' = [cpc EXCEPT ![c] = label]

\* The coroutine returns; its locals are gone.
Return(c) ==
    /\ Goto(c, "idle")
    /\ cid' = [cid EXCEPT ![c] = None]
    /\ cobj' = [cobj EXCEPT ![c] = None]
    /\ chits' = [chits EXCEPT ![c] = Empty]

\* asyncio.create_task(_safe_touch(shard))
FireTouch(c, s, obj) ==
    touching' = [touching EXCEPT ![c] = [sid |-> s, obj |-> obj]]

-----------------------------------------------------------------------------
(* Mutants: slips in the code that the properties below would reveal.      *)

\* get() skips the None check of the L2 answer.
UncheckedL2Read(c) ==
    /\ cpc[c] = "getL2"
    /\ cobj' = [cobj EXCEPT ![c] = l2[cid[c]]]
    /\ Goto(c, "promote")
    /\ UNCHANGED <<tiers, cid, chits, touching, lock, pruner, written, history>>

\* get() gives up without asking the archive.
GiveUpAfterL2(c) ==
    /\ cpc[c] = "getL2" /\ l2[cid[c]] = None
    /\ Goto(c, "missed")
    /\ UNCHANGED <<tiers, cid, cobj, chits, touching, lock, pruner, written,
                   history>>

\* The restore takes the row out of the archive before it has written L2.
TakeFromArchive(c) ==
    /\ cpc[c] = "getL3" /\ l3[cid[c]] # None
    /\ cobj' = [cobj EXCEPT ![c] = l3[cid[c]]]
    /\ l3' = [l3 EXCEPT ![cid[c]] = None]
    /\ Goto(c, "restoreVector")
    /\ raced' = [raced EXCEPT ![c] = FALSE]
    /\ UNCHANGED <<l1, l2, cid, chits, touching, lock, pruner, written, acked,
                   promised, clobbered, contended, faults>>

\* The restore forgets to delete the archive row.
RestoreWithoutDelete(c) ==
    /\ cpc[c] = "restoreCache"
    /\ l1' = [l1 EXCEPT ![cid[c]] = cobj[c]]
    /\ Return(c)
    /\ UNCHANGED <<l2, l3, touching, lock, pruner, written, history>>

\* archive.put() is an INSERT OR IGNORE: a row that was left behind stays.
ArchiveKeepsRow(p, s) ==
    /\ ppc[p] = "demote" /\ doomed[p] = {} /\ snap[p][s] # None
    /\ l3' = [l3 EXCEPT ![s] = IF @ = None THEN snap[p][s] ELSE @]
    /\ psid' = [psid EXCEPT ![p] = s]
    /\ ppc' = [ppc EXCEPT ![p] = "vectorDelete"]
    /\ UNCHANGED <<l1, l2, client, touching, lock, doomed, snap, written, history>>

\* The pruner drops its whole batch from L2 after the first archive.put().
DeleteWholeBatch(p) ==
    /\ ppc[p] = "vectorDelete"
    /\ l2' = [s \in Shards |-> IF snap[p][s] # None THEN None ELSE l2[s]]
    /\ ppc' = [ppc EXCEPT ![p] = "cacheDelete"]
    /\ UNCHANGED <<l1, l3, client, touching, lock, doomed, snap, psid, written,
                   history>>

-----------------------------------------------------------------------------
(* put(): cache, then vector.                                              *)

PutCache(c, s) ==
    /\ cpc[c] = "idle" /\ written[s] < MaxVersion
    /\ LET fresh == [ver |-> written[s] + 1, hits |-> 0]
       IN  /\ l1' = [l1 EXCEPT ![s] = fresh]
           /\ cobj' = [cobj EXCEPT ![c] = fresh]
    /\ written' = [written EXCEPT ![s] = @ + 1]
    /\ cid' = [cid EXCEPT ![c] = s]
    /\ Goto(c, "putVector")
    /\ contended' = IF InHand(s) THEN contended \union {s} ELSE contended \ {s}
    /\ UNCHANGED <<l2, l3, chits, touching, lock, pruner, acked, promised, raced,
                   clobbered, faults>>

PutVector(c) ==
    /\ cpc[c] = "putVector"
    /\ l2' = [l2 EXCEPT ![cid[c]] = cobj[c]]
    /\ acked' = acked \union {cid[c]}
    /\ Return(c)
    /\ UNCHANGED <<l1, l3, touching, lock, pruner, written, promised, raced,
                   clobbered, contended, faults>>

-----------------------------------------------------------------------------
(* get(): the cache-aside walk.  Bound: a client walks again only when its *)
(* last touch task has run, so at most one touch per client is pending.    *)

GetL1Hit(c, s) ==
    /\ cpc[c] = "idle" /\ touching[c] = None
    /\ l1[s] # None
    /\ FireTouch(c, s, l1[s])
    /\ UNCHANGED <<tiers, client, lock, pruner, written, history>>

GetL1Miss(c, s) ==
    /\ cpc[c] = "idle" /\ touching[c] = None
    /\ l1[s] = None
    /\ Goto(c, "getL2")
    /\ cid' = [cid EXCEPT ![c] = s]
    /\ promised' = [promised EXCEPT ![c] = s \in acked]
    /\ raced' = [raced EXCEPT ![c] = FALSE]
    /\ contended' = IF Putting(s) THEN contended \union {s} ELSE contended
    /\ UNCHANGED <<tiers, cobj, chits, touching, lock, pruner, written, acked,
                   clobbered, faults>>

GetL2Hit(c) ==
    /\ cpc[c] = "getL2" /\ l2[cid[c]] # None
    /\ cobj' = [cobj EXCEPT ![c] = l2[cid[c]]]
    /\ Goto(c, "promote")
    /\ UNCHANGED <<tiers, cid, chits, touching, lock, pruner, written, history>>

GetL2Miss(c) ==
    /\ cpc[c] = "getL2" /\ l2[cid[c]] = None
    /\ Goto(c, "getL3")
    /\ UNCHANGED <<tiers, cid, cobj, chits, touching, lock, pruner, written,
                   history>>

Promote(c) ==
    /\ cpc[c] = "promote"
    /\ l1' = [l1 EXCEPT ![cid[c]] = cobj[c]]
    /\ FireTouch(c, cid[c], cobj[c])
    /\ Return(c)
    /\ UNCHANGED <<l2, l3, lock, pruner, written, history>>

GetL3Hit(c) ==
    /\ cpc[c] = "getL3" /\ l3[cid[c]] # None
    /\ cobj' = [cobj EXCEPT ![c] = l3[cid[c]]]
    /\ Goto(c, "restoreVector")
    /\ raced' = [raced EXCEPT ![c] = FALSE]
    /\ UNCHANGED <<tiers, cid, chits, touching, lock, pruner, written, acked,
                   promised, clobbered, contended, faults>>

GetL3Miss(c) ==
    /\ cpc[c] = "getL3" /\ l3[cid[c]] = None
    /\ Goto(c, "missed")
    /\ UNCHANGED <<tiers, cid, cobj, chits, touching, lock, pruner, written,
                   history>>

\* get() returns None to its caller.
ReturnNone(c) ==
    /\ cpc[c] = "missed"
    /\ Return(c)
    /\ UNCHANGED <<tiers, touching, lock, pruner, written, history>>

RestoreVector(c) ==
    /\ cpc[c] = "restoreVector"
    /\ l2' = [l2 EXCEPT ![cid[c]] = cobj[c]]
    /\ Goto(c, "restoreCache")
    /\ UNCHANGED <<l1, l3, cid, cobj, chits, touching, lock, pruner, written,
                   history>>

RestoreCache(c) ==
    /\ cpc[c] = "restoreCache"
    /\ l1' = [l1 EXCEPT ![cid[c]] = cobj[c]]
    /\ Goto(c, "restoreDelete")
    /\ UNCHANGED <<l2, l3, cid, cobj, chits, touching, lock, pruner, written,
                   history>>

\* archive.delete(): blind, whatever the row holds by now.  The shard is
\* clobbered when a demotion removed the L2 copy this walk had just written,
\* or has archived the shard and is about to remove the L2 copy.
RestoreDelete(c) ==
    /\ cpc[c] = "restoreDelete"
    /\ l3' = [l3 EXCEPT ![cid[c]] = None]
    /\ clobbered' = IF raced[c] \/ \E p \in Pruners : Archived(p, cid[c])
                    THEN clobbered \union {cid[c]} ELSE clobbered
    /\ raced' = [d \in Clients |->
                    \/ raced[d]
                    \/ (d # c /\ cpc[d] = "getL3" /\ cid[d] = cid[c])]
    /\ FireTouch(c, cid[c], cobj[c])
    /\ Return(c)
    /\ UNCHANGED <<l1, l2, lock, pruner, written, acked, promised,
                   contended, faults>>

-----------------------------------------------------------------------------
(* search(): a vector query, then every hit is put into L1, one by one.    *)

SearchVector(c) ==
    /\ cpc[c] = "idle"
    /\ \E found \in SUBSET {s \in Shards : l2[s] # None} :
          /\ found # {}
          /\ chits' = [chits EXCEPT ![c] =
                          [s \in Shards |-> IF s \in found THEN l2[s] ELSE None]]
          /\ contended' = contended \union {s \in found : Putting(s)}
    /\ Goto(c, "search")
    /\ UNCHANGED <<tiers, cid, cobj, touching, lock, pruner, written, acked,
                   promised, raced, clobbered, faults>>

SearchPromote(c, s) ==
    /\ cpc[c] = "search" /\ chits[c][s] # None
    /\ l1' = [l1 EXCEPT ![s] = chits[c][s]]
    /\ LET rest == [chits[c] EXCEPT ![s] = None]
       IN  /\ chits' = [chits EXCEPT ![c] = rest]
           /\ Goto(c, IF rest = Empty THEN "idle" ELSE "search")
    /\ UNCHANGED <<l2, l3, cid, cobj, touching, lock, pruner, written, history>>

-----------------------------------------------------------------------------
(* The fire-and-forget touch writes the reader's whole object back to L1.  *)

Touch(c) ==
    /\ touching[c] # None
    /\ LET t == touching[c]
           n == IF t.obj.hits < MaxHits THEN t.obj.hits + 1 ELSE MaxHits
       IN  l1' = [l1 EXCEPT ![t.sid] = [ver |-> t.obj.ver, hits |-> n]]
    /\ touching' = [touching EXCEPT ![c] = None]
    /\ UNCHANGED <<l2, l3, client, lock, pruner, written, history>>

\* TTL expiry or capacity eviction; CacheTier has the detail.
L1Drop(s) ==
    /\ l1[s] # None
    /\ l1' = [l1 EXCEPT ![s] = None]
    /\ UNCHANGED <<l2, l3, client, touching, lock, pruner, written, history>>

-----------------------------------------------------------------------------
(* The pruner's cycle.  A cycle that finds the lock set returns at once    *)
(* and changes nothing.                                                    *)

AcquireLock(p) ==
    /\ ppc[p] = "idle" /\ ~lock
    /\ lock' = TRUE
    /\ ppc' = [ppc EXCEPT ![p] = "scanL1"]
    /\ UNCHANGED <<tiers, client, touching, doomed, snap, psid, written, history>>

\* The lock is never released by its holder; it expires.
LockExpire ==
    /\ lock
    /\ lock' = FALSE
    /\ UNCHANGED <<tiers, client, touching, pruner, written, history>>

ScanL1(p) ==
    /\ ppc[p] = "scanL1"
    /\ \E low \in SUBSET {s \in Shards : l1[s] # None} :
          doomed' = [doomed EXCEPT ![p] = low]
    /\ ppc' = [ppc EXCEPT ![p] = "scanL2"]
    /\ UNCHANGED <<tiers, client, touching, lock, snap, psid, written, history>>

ScanL2(p) ==
    /\ ppc[p] = "scanL2"
    /\ \E low \in SUBSET {s \in Shards : l2[s] # None} :
          /\ snap' = [snap EXCEPT ![p] =
                         [s \in Shards |-> IF s \in low THEN l2[s] ELSE None]]
          /\ contended' = contended \union {s \in low : Putting(s)}
    /\ ppc' = [ppc EXCEPT ![p] = "demote"]
    /\ UNCHANGED <<tiers, client, touching, lock, doomed, psid, written, acked,
                   promised, raced, clobbered, faults>>

DemoteL1(p, s) ==
    /\ ppc[p] = "demote" /\ s \in doomed[p]
    /\ l1' = [l1 EXCEPT ![s] = None]
    /\ doomed' = [doomed EXCEPT ![p] = @ \ {s}]
    /\ UNCHANGED <<l2, l3, client, touching, lock, ppc, snap, psid, written,
                   history>>

ArchivePut(p, s) ==
    /\ ppc[p] = "demote" /\ doomed[p] = {} /\ snap[p][s] # None
    /\ l3' = [l3 EXCEPT ![s] = snap[p][s]]
    /\ psid' = [psid EXCEPT ![p] = s]
    /\ ppc' = [ppc EXCEPT ![p] = "vectorDelete"]
    /\ UNCHANGED <<l1, l2, client, touching, lock, doomed, snap, written, history>>

VectorDelete(p) ==
    /\ ppc[p] = "vectorDelete"
    /\ l2' = [l2 EXCEPT ![psid[p]] = None]
    /\ ppc' = [ppc EXCEPT ![p] = "cacheDelete"]
    /\ raced' = [c \in Clients |->
                    raced[c] \/ (Rehydrated(c) /\ cid[c] = psid[p])]
    /\ UNCHANGED <<l1, l3, client, touching, lock, doomed, snap, psid, written,
                   acked, promised, clobbered, contended, faults>>

CacheDelete(p) ==
    /\ ppc[p] = "cacheDelete"
    /\ l1' = [l1 EXCEPT ![psid[p]] = None]
    /\ snap' = [snap EXCEPT ![p] = [@ EXCEPT ![psid[p]] = None]]
    /\ psid' = [psid EXCEPT ![p] = None]
    /\ ppc' = [ppc EXCEPT ![p] = "demote"]
    /\ UNCHANGED <<l2, l3, client, touching, lock, doomed, written, history>>

FinishCycle(p) ==
    /\ ppc[p] = "demote" /\ doomed[p] = {} /\ snap[p] = Empty
    /\ ppc' = [ppc EXCEPT ![p] = "idle"]
    /\ UNCHANGED <<tiers, client, touching, lock, doomed, snap, psid, written,
                   history>>

-----------------------------------------------------------------------------
(* Faults: a store call raises, or the process dies.  The coroutine is     *)
(* gone; what it had written stays, and so does the prune lock.            *)

Fault == faults < MaxFaults /\ faults' = faults + 1

ClientFault(c) ==
    /\ cpc[c] # "idle"
    /\ Return(c)
    /\ contended' = IF cpc[c] = "putVector" THEN contended \union {cid[c]}
                                            ELSE contended
    /\ Fault
    /\ UNCHANGED <<tiers, touching, lock, pruner, written, acked, promised,
                   raced, clobbered>>

TouchFault(c) ==
    /\ touching[c] # None
    /\ touching' = [touching EXCEPT ![c] = None]
    /\ Fault
    /\ UNCHANGED <<tiers, client, lock, pruner, written, acked, promised,
                   raced, clobbered, contended>>

PrunerFault(p) ==
    /\ ppc[p] # "idle"
    /\ ppc' = [ppc EXCEPT ![p] = "idle"]
    /\ doomed' = [doomed EXCEPT ![p] = {}]
    /\ snap' = [snap EXCEPT ![p] = Empty]
    /\ psid' = [psid EXCEPT ![p] = None]
    /\ Fault
    /\ UNCHANGED <<tiers, client, touching, lock, written, acked, promised,
                   raced, clobbered, contended>>

-----------------------------------------------------------------------------
ClientStep(c) ==
    \/ PutVector(c)
    \/ GetL2Hit(c)
    \/ GetL2Miss(c)
    \/ Promote(c)
    \/ GetL3Hit(c)
    \/ GetL3Miss(c)
    \/ ReturnNone(c)
    \/ RestoreVector(c)
    \/ RestoreCache(c)
    \/ RestoreDelete(c)
    \/ \E s \in Shards : SearchPromote(c, s)

Call(c) ==
    \/ \E s \in Shards : PutCache(c, s)
    \/ \E s \in Shards : GetL1Hit(c, s)
    \/ \E s \in Shards : GetL1Miss(c, s)
    \/ SearchVector(c)

PrunerStep(p) ==
    \/ ScanL1(p)
    \/ ScanL2(p)
    \/ \E s \in Shards : DemoteL1(p, s)
    \/ \E s \in Shards : ArchivePut(p, s)
    \/ VectorDelete(p)
    \/ CacheDelete(p)
    \/ FinishCycle(p)

Next ==
    \/ \E c \in Clients : \/ Call(c)
                          \/ ClientStep(c)
                          \/ Touch(c)
                          \/ ClientFault(c)
                          \/ TouchFault(c)
    \/ \E p \in Pruners : \/ AcquireLock(p)
                          \/ PrunerStep(p)
                          \/ PrunerFault(p)
    \/ \E s \in Shards : L1Drop(s)
    \/ LockExpire

Spec == Init /\ [][Next]_vars

\* The event loop resumes every suspended coroutine whose store call has
\* completed.  New calls, new cycles and cache expiry need not happen.
Fairness ==
    /\ \A c \in Clients : WF_vars(ClientStep(c))
    /\ \A p \in Pruners : WF_vars(PrunerStep(p))

FairSpec == Spec /\ Fairness


-----------------------------------------------------------------------------
(* Properties.                                                             *)

\* A shard whose put() returned is in L2 or L3, the durable tiers, at every
\* instant, whatever crashes, unless a restore of it overlapped a demotion of
\* it.  (L1 may drop any shard at any time and does not count.)
DurableUnlessClobbered ==
    \A s \in acked : l2[s] # None \/ l3[s] # None \/ s \in clobbered

\* get() answers None for a shard whose put() had returned before the call only
\* if, between its L2 and its L3 read, another reader moved the shard up past
\* it (or the shard was clobbered).  The walk L1, L2, L3 meets every demotion.
MissExplained ==
    \A c \in Clients :
        cpc[c] = "missed" /\ promised[c] => raced[c] \/ cid[c] \in clobbered

\* "Archive copy is removed so we don't double-store": for an id written once
\* and while nothing failed, a shard is in both L2 and L3 only while a restore
\* or a demotion of that shard is under way.
OneTierAtRest ==
    \A s \in Shards :
        l2[s] # None /\ l3[s] # None /\ written[s] <= 1 /\ faults = 0 =>
            \/ \E c \in Clients : Rehydrated(c) /\ cid[c] = s
            \/ \E p \in Pruners : Archived(p, s)

\* While nothing fails, double storage of an id ends, or the id is put again.
DuplicatesHeal ==
    \A s \in Shards :
        l2[s] # None /\ l3[s] # None
            ~> l2[s] = None \/ l3[s] = None \/ written[s] > 1

\* put() is the last word, although no tier compares versions and an archive row
\* may be left over from an older one: after a put() that overlapped nothing that
\* had its id in hand, every copy in L1 and L2 is the one it wrote, and so is the
\* row in L3 whenever L2 has none.
LatestFound ==
    \A s \in acked \ (contended \union clobbered) :
        ~Putting(s) =>
            /\ \A copy \in {l1[s], l2[s]} \ {None} : copy.ver = written[s]
            /\ l2[s] = None => l3[s] # None /\ l3[s].ver = written[s]

\* The tiers as one memory: what L2 and L3 hold between them, what a walk has
\* read so far, for which shard, and whether it has to succeed.
Held   == {s \in Shards : l2[s] # None \/ l3[s] # None}
Look   == [c \in Clients |->
              CASE cpc[c] = "getL2"  -> "above"
                [] cpc[c] = "getL3"  -> "below"
                [] cpc[c] = "missed" -> "missed"
                [] cpc[c] \in {"idle", "putVector", "search"} -> "no"
                [] OTHER -> "found"]
Sought == [c \in Clients |-> IF Look[c] = "no" THEN None ELSE cid[c]]
Sure   == [c \in Clients |->
              /\ Look[c] \in {"above", "below"}
              /\ promised[c] /\ ~raced[c] /\ cid[c] \notin clobbered]

Memory == INSTANCE DurableMemory WITH
    Readers <- Clients, held <- Held, doubtful <- clobbered, look <- Look,
    sought <- Sought, sure <- Sure

\* The three tiers, the walks, restores, demotions and failures are a
\* DurableMemory: what get() finds below L1 is durable at that instant, what it
\* misses was not there for good or was overtaken, and only an overlap of a
\* restore with a demotion ever makes the memory forget.
ImplementsMemory == Memory!Spec

\* README: "a shard never exists in zero tiers during a transition".
AckedNeverLost ==
    \A s \in acked : l1[s] # None \/ l2[s] # None \/ l3[s] # None
=============================================================================
