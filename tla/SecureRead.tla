----------------------------- MODULE SecureRead -----------------------------
(***************************************************************************)
(* security/secure_controller.py and security/scrubber.py: the read path   *)
(* that scrubs what it takes from L2 and L3 before it promotes it, the set *)
(* of quarantined ids, the rolling window of blocking decisions and the    *)
(* alert it raises, and the two write paths (put, install_constitution).   *)
(*                                                                         *)
(* As in TieredStore an action is one awaited call and the code up to the  *)
(* next one, of the pruner's cycle too: it collects a batch from L1 and L2 *)
(* and later deletes by id whatever is there by then.  Each place of a     *)
(* batch is modelled by itself; their order, the scores and the lock are   *)
(* left open, so that cycles may overlap.  A scrubber is configured.       *)
(***************************************************************************)
EXTENDS Naturals, Sequences, FiniteSets

CONSTANTS
    Shards,      \* shard ids
    Clients,     \* tasks of one process that call the controller
    Places,      \* the places in the batches of prune cycles
    FlagRules,   \* the patterns of severity FLAG
    WarnRules,   \* the patterns of severity WARN
    Contents,    \* the sets of patterns that a content may match
    HasScorer,   \* is there a semantic scorer?
    Threshold,   \* spike_threshold
    Window,      \* spike_window_seconds, in ticks
    MaxPuts,     \* bound on put() and install_constitution()
    MaxFaults,   \* bound on failed calls and restarts
    None         \* "no copy", "no shard"

Copies == [text : Contents, core : BOOLEAN]

ASSUME RulesAssumption ==
    /\ Contents \subseteq SUBSET (FlagRules \union WarnRules)
    /\ FlagRules \intersect WarnRules = {}
ASSUME BoundsAssumption ==
    /\ HasScorer \in BOOLEAN /\ Threshold \in Nat \ {0} /\ Window \in Nat \ {0}
    /\ MaxPuts \in Nat /\ MaxFaults \in Nat
ASSUME NoneAssumption == None \notin Copies /\ None \notin Shards

VARIABLES
    store,        \* the copy of each shard in each tier, or None
    op,           \* each client's coroutine: see Op
    batch,        \* what each place of a batch holds: see Demotion
    quarantined,  \* _quarantined
    stamps,       \* _flag_timestamps, as ages, oldest first
    puts,         \* how many writes were begun
    faults,       \* how many calls failed and processes died
    streak,       \* history: ages of the blocks of the last Window ticks that
                  \* no alert has reported
    sole          \* history: constitutions installed with no other copy about

guard == <<quarantined, stamps, streak>>
rest  == <<batch, guard, puts, faults, sole>>
vars  == <<store, op, batch, quarantined, stamps, puts, faults, streak, sole>>

Tiers == {"L1", "L2", "L3"}
PCs   == {"idle", "getL1", "getL2", "scrubWarm", "promote", "getL3", "scrubCold",
          "restoreVector", "restoreCache", "restoreDelete", "search", "scrubHit",
          "promoteHit", "receiptHit", "putVector", "receipt", "return"}
Slots == [Shards -> Copies \union {None}]
Empty == [s \in Shards |-> None]

Op == [pc     : PCs,                      \* where it is suspended
       sid    : Shards \union {None},     \* the shard id it works on
       obj    : Copies \union {None},     \* the MemoryShard it holds
       hits   : Slots,                    \* search(): hits not yet looked at
       got    : SUBSET Shards,            \* what the call is to return
       barred : SUBSET Shards]            \* history: quarantined at its start

Idle == [pc |-> "idle", sid |-> None, obj |-> None, hits |-> Empty,
         got |-> {}, barred |-> {}]

Demotion == [pc  : {"none", "demote", "archive", "vectorDelete", "cacheDelete"},
             sid : Shards \union {None},
             obj : Copies \union {None}]  \* the copy that the scan of L2 read

NoDemotion == [pc |-> "none", sid |-> None, obj |-> None]

Ages == 0..Window  \* bound: an age beyond the window is not told from it

TypeOK ==
    /\ store \in [Tiers -> Slots]
    /\ op \in [Clients -> Op]
    /\ batch \in [Places -> Demotion]
    /\ quarantined \subseteq Shards /\ sole \subseteq Shards
    /\ stamps \in Seq(Ages) /\ streak \in Seq(Ages)
    /\ puts \in 0..MaxPuts /\ faults \in 0..MaxFaults

Init ==
    /\ store = [tier \in Tiers |-> Empty]
    /\ op = [c \in Clients |-> Idle]
    /\ batch = [p \in Places |-> NoDemotion]
    /\ quarantined = {} /\ sole = {}
    /\ stamps = <<>> /\ streak = <<>>
    /\ puts = 0 /\ faults = 0

At(c, label)   == op[c].pc = label
Goto(c, label) == op' = [op EXCEPT ![c].pc = label]
Leave(c)       == op' = [op EXCEPT ![c] = Idle]

\* A call of c on shard s (None for a search) begins.
Entered(c, s, label) ==
    [Idle EXCEPT !.pc = label, !.sid = s, !.barred = quarantined]

\* Mutant: the object where the id is meant.
DeliverObject(c) == op' = [op EXCEPT ![c].pc = "return", ![c].got = {op[c].obj}]

\* The call is about to return its shard.
Deliver(c) == op' = [op EXCEPT ![c].pc = "return", ![c].got = {op[c].sid}]

\* cache.put() or vector.put() of the object at hand.
WriteTo(tier, c) == store' = [store EXCEPT ![tier][op[c].sid] = op[c].obj]

-----------------------------------------------------------------------------
(* The scrubber.                                                           *)

Severity == {"safe", "warn", "flag", "quarantine"}
Blocking == {"flag", "quarantine"}

\* _regex_scan(): two FLAG patterns at once are a QUARANTINE.
RegexScan(text) ==
    CASE Cardinality(text \intersect FlagRules) >= 2 -> "quarantine"
      [] Cardinality(text \intersect FlagRules) = 1  -> "flag"
      [] text \subseteq WarnRules /\ text # {}        -> "warn"
      [] OTHER                                       -> "safe"

\* Is the semantic scorer awaited?
Asks(text) == HasScorer /\ RegexScan(text) = "safe"

\* The scorer may say anything of a text, and differently each time.
Severities(text) == IF Asks(text) THEN Severity ELSE {RegexScan(text)}

\* Of ages, oldest first, those below the window: what is left behind a prefix.
Fresh(ages) ==
    LET old == CHOOSE k \in 0..Len(ages) :
                  \A i \in DOMAIN ages : i <= k <=> ages[i] >= Window
    IN  SubSeq(ages, old + 1, Len(ages))

\* Mutant: every stamp of the list counts, however old.
AllStamps == stamps

\* The stamps that _record() keeps: t > now - spike_window.  They are those of
\* a clock that does not go back, so they are in order.
Recent == Fresh(stamps)

\* Would one more block reach the threshold?
Spike == Len(Recent) + 1 >= Threshold

\* Mutant: search() does not look at the quarantine.
NextHitUntested(c, s) == At(c, "search") /\ op[c].hits[s] # None

\* search() comes to its hit s, in the order of the answer, which is any.
NextHit(c, s) ==
    At(c, "search") /\ op[c].hits[s] # None /\ s \notin quarantined

\* c is at the scrub of its copy of s.  search() tests the quarantine and
\* starts the scrub with no await in between; get() tested it before it read.
Scrubs(c, s) ==
    \/ op[c].pc \in {"scrubWarm", "scrubCold", "scrubHit"} /\ s = op[c].sid
    \/ NextHit(c, s) /\ ~Asks(op[c].hits[s].text)

\* That copy, and what the scrub may say of it.
Subject(c, s)  == IF At(c, "search") THEN op[c].hits[s] ELSE op[c].obj
Verdicts(c, s) == Severities(Subject(c, s).text)

\* The copy becomes the one at hand, and the code goes on at the label.
Take(c, s, copy, label) ==
    op' = [op EXCEPT ![c].pc = label, ![c].sid = s, ![c].obj = copy,
                     ![c].hits[s] = None]

ScrubPass(c, s) ==
    /\ Scrubs(c, s)
    /\ Verdicts(c, s) \ Blocking # {}
    /\ Take(c, s, Subject(c, s), CASE At(c, "scrubWarm") -> "promote"
                                   [] At(c, "scrubCold") -> "restoreVector"
                                   [] OTHER              -> "promoteHit")
    /\ UNCHANGED <<store, rest>>

\* The block is stamped, then the id is quarantined, then receipted.
ScrubBlock(c, s) ==
    /\ Scrubs(c, s)
    /\ Verdicts(c, s) \intersect Blocking # {} /\ ~Spike
    /\ stamps' = Append(Recent, 0) /\ streak' = Append(streak, 0)
    /\ quarantined' = quarantined \union {s}
    /\ Take(c, s, None, IF op[c].pc \in {"scrubWarm", "scrubCold"}
                        THEN "receipt" ELSE "receiptHit")
    /\ UNCHANGED <<store, batch, puts, faults, sole>>

\* ScrubberAlert leaves get() and search() alike, before _quarantine().
ScrubAlert(c, s) ==
    /\ Scrubs(c, s)
    /\ Verdicts(c, s) \intersect Blocking # {} /\ Spike
    /\ stamps' = <<>> /\ streak' = <<>>
    /\ Leave(c)
    /\ UNCHANGED <<store, batch, quarantined, puts, faults, sole>>

-----------------------------------------------------------------------------
(* get().                                                                  *)

\* A get() of a quarantined id returns None at once.
GetBarred(c, s) ==
    /\ At(c, "idle") /\ s \in quarantined
    /\ UNCHANGED vars

GetBegin(c, s) ==
    /\ At(c, "idle") /\ s \notin quarantined
    /\ op' = [op EXCEPT ![c] = Entered(c, s, "getL1")]
    /\ UNCHANGED <<store, rest>>

GetL1Hit(c) ==
    /\ At(c, "getL1") /\ store["L1"][op[c].sid] # None
    /\ Deliver(c)
    /\ UNCHANGED <<store, rest>>

\* One tier misses, the next one is asked.
Miss(c, here, tier, next) ==
    /\ At(c, here) /\ store[tier][op[c].sid] = None
    /\ Goto(c, next)
    /\ UNCHANGED <<store, rest>>

\* What L2 or L3 answers is the object at hand from now on.
Hit(c, here, tier, next) ==
    /\ At(c, here) /\ store[tier][op[c].sid] # None
    /\ Take(c, op[c].sid, store[tier][op[c].sid], next)
    /\ UNCHANGED <<store, rest>>

\* Mutant: promoted before it is scrubbed, as MemoryController.get() does.
GetL2HitUnscrubbed(c) == Hit(c, "getL2", "L2", "promote")

GetL1Miss(c) == Miss(c, "getL1", "L1", "getL2")
GetL2Miss(c) == Miss(c, "getL2", "L2", "getL3")
GetL3Miss(c) == Miss(c, "getL3", "L3", "return")
GetL2Hit(c)  == Hit(c, "getL2", "L2", "scrubWarm")
GetL3Hit(c)  == Hit(c, "getL3", "L3", "scrubCold")

Promote(c) ==
    /\ At(c, "promote")
    /\ WriteTo("L1", c) /\ Deliver(c)
    /\ UNCHANGED rest

RestoreVector(c) ==
    /\ At(c, "restoreVector")
    /\ WriteTo("L2", c) /\ Goto(c, "restoreCache")
    /\ UNCHANGED rest

RestoreCache(c) ==
    /\ At(c, "restoreCache")
    /\ WriteTo("L1", c) /\ Goto(c, "restoreDelete")
    /\ UNCHANGED rest

RestoreDelete(c) ==
    /\ At(c, "restoreDelete")
    /\ store' = [store EXCEPT !["L3"][op[c].sid] = None]
    /\ Deliver(c)
    /\ UNCHANGED rest

-----------------------------------------------------------------------------
(* search(): raw hits of L2; the clean ones are promoted one by one.       *)

SearchBegin(c) ==
    /\ At(c, "idle")
    /\ \E found \in SUBSET {s \in Shards : store["L2"][s] # None} :
          /\ found # {}
          /\ op' = [op EXCEPT ![c] =
                [Entered(c, None, "search") EXCEPT !.hits =
                    [s \in Shards |-> IF s \in found THEN store["L2"][s] ELSE None]]]
    /\ UNCHANGED <<store, rest>>

SearchSkip(c, s) ==
    /\ At(c, "search") /\ op[c].hits[s] # None /\ s \in quarantined
    /\ op' = [op EXCEPT ![c].hits[s] = None]
    /\ UNCHANGED <<store, rest>>

\* The scrub of this hit awaits the scorer.
SearchAsk(c, s) ==
    /\ NextHit(c, s) /\ Asks(op[c].hits[s].text)
    /\ Take(c, s, op[c].hits[s], "scrubHit")
    /\ UNCHANGED <<store, rest>>

PromoteHit(c) ==
    /\ At(c, "promoteHit")
    /\ WriteTo("L1", c)
    /\ op' = [op EXCEPT ![c].pc = "search", ![c].sid = None, ![c].obj = None,
                        ![c].got = @ \union {op[c].sid}]
    /\ UNCHANGED rest

SearchEnd(c) ==
    /\ At(c, "search") /\ op[c].hits = Empty
    /\ Goto(c, "return")
    /\ UNCHANGED <<store, rest>>

Return(c) ==
    /\ At(c, "return")
    /\ Leave(c)
    /\ UNCHANGED <<store, rest>>

-----------------------------------------------------------------------------
(* Writes.  put() of an L0_CORE shard raises and changes nothing.          *)

\* No tier but L1 has the id, no task holds a copy of it and no batch of the
\* pruner has it.
NoOtherCopy(s) ==
    /\ store["L2"][s] = None /\ store["L3"][s] = None
    /\ \A c \in Clients :
          op[c].hits[s] = None /\ (op[c].sid = s => op[c].obj = None)
    /\ \A p \in Places : batch[p].sid # s

\* The first await of either write path: cache.put().
Write(c, s, copy, next) ==
    /\ At(c, "idle")
    /\ puts < MaxPuts /\ puts' = puts + 1
    /\ op' = [op EXCEPT ![c] = [Entered(c, s, next) EXCEPT !.obj = copy]]
    /\ store' = [store EXCEPT !["L1"][s] = copy]
    /\ UNCHANGED <<batch, guard, faults>>

Put(c, s, text) ==
    /\ Write(c, s, [text |-> text, core |-> FALSE], "putVector")
    /\ sole' = sole \ {s}

PutVector(c) ==
    /\ At(c, "putVector")
    /\ WriteTo("L2", c) /\ Goto(c, "receipt")
    /\ UNCHANGED rest

\* install_constitution(): L1 only, whatever the other tiers hold.
Install(c, s, text) ==
    /\ Write(c, s, [text |-> text, core |-> TRUE], "receipt")
    /\ sole' = IF NoOtherCopy(s) THEN sole \union {s} ELSE sole

\* _emit_receipt() of a write or a quarantine; what it raises is a Fault.
Receipt(c) ==
    /\ At(c, "receipt")
    /\ Leave(c)
    /\ UNCHANGED <<store, rest>>

ReceiptHit(c) ==
    /\ At(c, "receiptHit")
    /\ op' = [op EXCEPT ![c].pc = "search", ![c].sid = None]
    /\ UNCHANGED <<store, rest>>

-----------------------------------------------------------------------------
(* The pruner's run_once(), for one shard of its batch.                     *)

\* A scan reads shard s and it is due for what the label says.
Due(p, s, label, copy) ==
    /\ batch[p] = NoDemotion
    /\ batch' = [batch EXCEPT ![p] = [pc |-> label, sid |-> s, obj |-> copy]]
    /\ UNCHANGED <<store, op, guard, puts, faults, sole>>

\* The demotion at p writes or deletes its shard in a tier and goes on.
Pruned(p, tier, copy, next) ==
    /\ store' = [store EXCEPT ![tier][batch[p].sid] = copy]
    /\ batch' = [batch EXCEPT ![p] = next]
    /\ UNCHANGED <<op, guard, puts, faults, sole>>

\* Mutant: the scan of L1 does not filter by tier.
ScanAny(p, s) == store["L1"][s] # None /\ Due(p, s, "demote", None)

\* The scan of L1 filters by tier; what it read is not used again.
ScanL1(p, s) ==
    /\ store["L1"][s] # None /\ ~store["L1"][s].core
    /\ Due(p, s, "demote", None)

ScanL2(p, s) ==
    /\ store["L2"][s] # None /\ ~store["L2"][s].core
    /\ Due(p, s, "archive", store["L2"][s])

\* _demote_l1_to_l2(): cache.delete() of whatever is there.
DemoteL1(p) ==
    batch[p].pc = "demote" /\ Pruned(p, "L1", None, NoDemotion)

\* _demote_l2_to_l3(): archive.put() of the copy that was scanned, then
\* vector.delete() and cache.delete() of whatever is there.
ArchivePut(p) ==
    /\ batch[p].pc = "archive"
    /\ Pruned(p, "L3", batch[p].obj, [batch[p] EXCEPT !.pc = "vectorDelete"])

VectorDelete(p) ==
    /\ batch[p].pc = "vectorDelete"
    /\ Pruned(p, "L2", None, [batch[p] EXCEPT !.pc = "cacheDelete"])

CacheDelete(p) ==
    batch[p].pc = "cacheDelete" /\ Pruned(p, "L1", None, NoDemotion)

\* The score spares the shard, or the cycle fails at any of its calls.
Spare(p) ==
    /\ batch[p] # NoDemotion
    /\ batch' = [batch EXCEPT ![p] = NoDemotion]
    /\ UNCHANGED <<store, op, guard, puts, faults, sole>>

Prune(p) ==
    \/ \E s \in Shards : ScanL1(p, s) \/ ScanL2(p, s)
    \/ DemoteL1(p)
    \/ ArchivePut(p)
    \/ VectorDelete(p)
    \/ CacheDelete(p)
    \/ Spare(p)

-----------------------------------------------------------------------------
(* The environment: the cache, the clock and failures.                     *)

\* L1 lets go of an ordinary copy by itself: it expires or is evicted.  What
\* the cache does to an L0_CORE shard is in CacheTier.
Drop(s) ==
    /\ store["L1"][s] # None /\ ~store["L1"][s].core
    /\ store' = [store EXCEPT !["L1"][s] = None]
    /\ UNCHANGED <<op, rest>>

\* A tick later.
Aged(ages) ==
    [i \in DOMAIN ages |-> IF ages[i] < Window THEN ages[i] + 1 ELSE Window]

Tick ==
    /\ stamps # <<>> \/ streak # <<>>
    /\ stamps' = Aged(stamps)
    /\ streak' = Fresh(Aged(streak))
    /\ UNCHANGED <<store, op, batch, quarantined, puts, faults, sole>>

Fault == faults < MaxFaults /\ faults' = faults + 1

\* An awaited call raises, a ChainError of the audit log among them.
ClientFault(c) ==
    /\ ~At(c, "idle")
    /\ Leave(c)
    /\ Fault
    /\ UNCHANGED <<store, batch, guard, puts, sole>>

\* The process dies: the quarantine and the window are in its memory only.
Restart ==
    /\ Fault
    /\ op' = [c \in Clients |-> Idle]
    /\ quarantined' = {}
    /\ stamps' = <<>> /\ streak' = <<>>
    /\ UNCHANGED <<store, batch, puts, sole>>

Step(c) ==
    \/ \E s \in Shards :
          \/ ScrubPass(c, s)
          \/ ScrubBlock(c, s)
          \/ ScrubAlert(c, s)
          \/ SearchSkip(c, s)
          \/ SearchAsk(c, s)
    \/ GetL1Hit(c)
    \/ GetL1Miss(c)
    \/ GetL2Hit(c)
    \/ GetL2Miss(c)
    \/ GetL3Hit(c)
    \/ GetL3Miss(c)
    \/ Promote(c)
    \/ RestoreVector(c)
    \/ RestoreCache(c)
    \/ RestoreDelete(c)
    \/ PromoteHit(c)
    \/ SearchEnd(c)
    \/ PutVector(c)
    \/ Receipt(c)
    \/ ReceiptHit(c)
    \/ Return(c)

Call(c) ==
    \/ \E s \in Shards : GetBarred(c, s) \/ GetBegin(c, s)
    \/ \E s \in Shards, text \in Contents : Put(c, s, text) \/ Install(c, s, text)
    \/ SearchBegin(c)

Next ==
    \/ \E c \in Clients : Call(c) \/ Step(c) \/ ClientFault(c)
    \/ \E p \in Places : Prune(p)
    \/ \E s \in Shards : Drop(s)
    \/ Tick
    \/ Restart

Spec == Init /\ [][Next]_vars

-----------------------------------------------------------------------------
(* Properties.                                                             *)

\* "L1 reads are skipped because shards in the hot path have already been
\* scrubbed": a copy that the patterns block, or a constitution, comes into L1
\* by put() or install_constitution() and never by a read, not even by one
\* whose shard is overwritten, archived or quarantined while it is scrubbed.
L1Guarded ==
    [][\A s \in Shards :
          LET old == store["L1"][s]  new == store'["L1"][s]
          IN  /\ new \notin {old, None}
              /\ new.core \/ RegexScan(new.text) \in Blocking
              => puts' = puts + 1]_vars

\* "Once blocked, always blocked within the process lifetime": no call returns
\* an id that was in quarantine when the call began, whichever of the id's
\* copies it found, and whatever the scorer says of it now.
QuarantineHolds == \A c \in Clients : op[c].got \intersect op[c].barred = {}

\* The alert is raised by exactly that block which makes spike_threshold blocks
\* within the window, those an earlier alert reported not counted: no spike
\* passes silently, and no block older than the window raises the alarm.  That
\* is the boundary of _record() (scrubber.py:220) and of the tests; the docstring
\* of the module (scrubber.py:28) has it one block later, when the count
\* "exceeds" the threshold.
SpikeAlert ==
    [][/\ Len(streak') < Threshold
       /\ stamps # <<>> /\ stamps' = <<>> /\ faults' = faults
            => Len(streak) + 1 = Threshold]_vars

\* "The agent's safety constitution lives in L0 and must never be touched by
\* utility decay": a constitution installed under an id of which no other copy
\* exists, in a tier, in a task or in a batch that the pruner has collected and
\* not worked off, stays in L1, as far as the pruner and the readers go, until
\* a put() of the same id.
CoreKept == \A s \in sole : store["L1"][s] # None /\ store["L1"][s].core
=============================================================================
