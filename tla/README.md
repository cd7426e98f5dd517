# Verification of lethon-os

TLA+ models of lethon-os, the TLC configurations that check them on small
instances, and theorems about them that TLAPS checks for every value of their
constants. Line numbers below refer to the sources under `src/`;
`PROJECT.json` maps every definition to the lines it models.

To run anything here:

    tlc -workers 2 -config Store.cfg MCTieredStore.tla     # any run of the table below
    tlapm TieredStoreProofs.tla                            # any proof module

## 1. The system

lethon-os keeps an agent's memories ("shards") in three tiers, Redis (L1),
Qdrant (L2) and SQLite (L3), demotes those of low utility with a background
pruner and lifts them again on the read path. A security layer signs a chained
audit receipt for each lifecycle action and scrubs what it reads from L2 and L3.
A dashboard shows shards and lets a user pin and prune them. Everything in the
backend is `asyncio`: within one process control changes hands at `await` only;
several agent processes share the three stores.

| Component | State it keeps | Operations that change state | Talks to |
|---|---|---|---|
| `MemoryController` (controller.py) | none of its own; coroutines in flight, touch tasks | `put`, `get` (walk L1, L2, L3 and rehydrate), `search`, `_safe_touch` | the three tiers |
| `UtilityPruner` (pruner.py) | goal vector, its task | `run_once` (lock, scan, score, demote), `start`, `stop`, `set_goal` | tiers, the prune lock in Redis, the audit hook |
| `CacheTier` (tiers/cache.py) | blobs with a TTL, sorted set `lethon:hot`, prune lock | `put`, `delete`, `touch`, `_enforce_capacity`, `try_acquire_prune_lock` | Redis |
| `VectorTier`, `ArchiveTier` | points; rows | `put`, `delete` | Qdrant, SQLite |
| utility scoring (utility.py) | none | `compute_utility`, `score_batch` | |
| `SignedAuditLog` (security/audit_log.py) | the chain of receipts, an `asyncio.Lock` | `append`; `tip`, `verify_chain`, `merkle_root` read | SQLite |
| signing, `KeyRegistry` | keys | `register` | |
| `MemoryScrubber` | window of recent flags | `scrub` | |
| `SecureMemoryController` | quarantine set | `put`, `install_constitution`, `get`, `search`, `_quarantine`, the pruner's hook | tiers, scrubber, audit log |
| `UtilityController` (api/controller.py) | write counter, time of the last cycle, schedule task | `put` with back-pressure, `_schedule_loop`, `_run_cycle`, `close` | `MemoryController`, pruner |
| dashboard (frontend/) | shards, selection, pins, pending prune | pin, prune with undo, overlays, shortcuts | generated sample data |

What is hard about it, and what makes each part correct:

* **The tiers have no transactions between them.** A restore (`get` of an
  archived shard) is three store calls, a demotion is three others, and both
  delete. Correct: a shard that was written is in a durable tier at every
  instant, a reader finds it, and it does not stay in two tiers for good.
* **L1 is a cache with an index beside it.** Blob and index are written together
  but the capacity is enforced in three later round trips. Correct: the index
  covers every blob and never stays over capacity; the constitution survives.
* **Receipts are chained by read-sign-append**, in two critical sections.
  Correct: the chain verifies, each action has one receipt, no emission hangs.
* **The prune lock is a lease** that nobody renews or releases, and the
  scheduler's bookkeeping decides when writes are refused. Correct: cycles do
  not overlap, pruning does not stall, refusals end and are bounded.
* **Read-path scrubbing** tests a quarantine set before three awaits and may be
  interrupted by its own alert. Correct: nothing blocking is promoted, what was
  quarantined is not delivered, the alert is exact.
* **Keys rotate and the log outlives them.** The registry is in memory, the log
  on disk. Correct: a damaged log does not replay, an undamaged one does.
* **Scoring exists twice**, scalar and batch, and guesses by value which row of
  the window is the shard itself. Correct: both agree, and a shard does not
  count against itself.

The `hazards` in `PROJECT.json` list these one by one, at the line where each
bites, with the properties that cover it.

## 2. The modules

Every state machine has one module, one `MC` module for TLC and one `Proofs`
module. Each action is a store call (an `await`) together with the
straight-line code up to the next one, so interleavings of actions are the
interleavings of `asyncio` tasks and of processes. History variables (marked
`history` at their declaration) record what happened for the properties and
never guard an action. The operators in a section "Mutants", or whose comment
begins with that word, are deliberate slips; no specification uses them, they
show that each property can be broken by a plausible error in the code.

### TieredStore: `MemoryController`, `UtilityPruner`, the three tiers

`l1`, `l2`, `l3` map each id to the copy stored there or `None`; a copy is its
version (how many puts of the id came before) and `access_count`. A client is a
task in `put`, `get` or `search`; `cpc` says where it is suspended, `cobj` holds
the object it carries and `touching` its fire-and-forget touch. A pruner is a
cycle in one process, with the batch it scanned (`doomed`, `snap`). Three history
variables name the overlaps that the properties except: `raced` and `clobbered`, a
restore and a demotion of one shard; `contended`, a put of an id that some
coroutine, touch or cycle had in hand, or that failed.

| Code | Actions |
|---|---|
| `MemoryController.put` | `PutCache`, `PutVector` |
| `MemoryController.get` | `GetL1Hit/Miss`, `GetL2Hit/Miss`, `Promote`, `GetL3Hit/Miss`, `RestoreVector`, `RestoreCache`, `RestoreDelete`, `ReturnNone` |
| `MemoryController.search` | `SearchVector`, `SearchPromote` |
| `_safe_touch`, `CacheTier.touch` | `Touch`, `TouchFault` |
| TTL expiry and eviction of L1 | `L1Drop` |
| `UtilityPruner.run_once` | `AcquireLock`, `ScanL1`, `ScanL2`, `DemoteL1`, `ArchivePut`, `VectorDelete`, `CacheDelete`, `FinishCycle` |
| lock TTL | `LockExpire` |
| a store call that raises, `stop()`, a dead process | `ClientFault`, `TouchFault`, `PrunerFault` |

Decisions. Scores are data: a scan dooms any subset of what it saw.
`vector.scan()` pages through Qdrant and is one action here. An INSERT or DELETE
and its COMMIT are one action. All processes share one archive
(ARCHITECTURE.md:126-127). A cycle that finds the lock taken changes nothing and
is a stutter. A client walks again only when its last touch has run.

### DurableMemory: what the tiers promise to readers

One memory without tiers: a set of shards that are held, and readers who look for
one of them above, then below. A reader may find only what is held at that
instant. It may miss only what was not safely held when it began, or what another
reader lifted past it while it was between above and below. A shard becomes
doubtful when two movements overlap, and only a doubtful one is ever forgotten.
`TieredStore` implements it: `held` is what L2 and L3 hold between them (`Held`),
above and below are the L2 and the L3 read of `get` (`Look`), `doubtful` is
`clobbered`. L1, copies, pruners, the lock and every crash disappear.

### CacheTier: the Redis tier in detail

`blob` and `hot` are the keys and the sorted set; a blob is represented by the
`last_accessed_at` it carries, since that is what the index has to agree with.
`Store` is the MULTI of `put` (and so of `touch`, which calls it); `Zcard`,
`Zrange` and `Evict` are the three round trips of `_enforce_capacity`, `Delete`
the pruner's delete, `Expire` the TTL, `Fault` a round trip that raises. `Core`
names the L0_CORE ids, which the pruner never deletes. In TieredStore all of this
is `L1Drop`: L1 may lose a copy at any time.

### AuditLog: emission of receipts

A task does a lifecycle action (`Act`) and then emits: `LockForTip`, `ReadTip`,
`LockForAppend`, `TipMatches` or `ChainError`, `Insert`, `Commit`. A receipt is the
action it is for (also its hash: an action signs at most one receipt) and the
hash it links to. `ProcessOf` places tasks in processes, each with its own
`asyncio.Lock` over the one table and its own connection: `pending` is what that
connection has inserted and not committed, `View` what it reads. `Fault` is a
sqlite error or a cancellation (`UtilityPruner.stop`, pruner.py:76) at any await.
A cancelled statement may still execute, in the thread of the connection, and a
failed COMMIT may leave its transaction open or end it; `async with` releases the
lock in every case. `Crash` kills a process at any point.

### Governor: schedule, lease and back-pressure

Discrete time. `lease` is what is left of the Redis key, `timer` what is left of
a process's sleep or the age of its cycle, `lag` and `writes` the two counters
that `_back_pressure_active` tests, `puts` the puts between that test and the
increment. `Acquire`, `Skip`, `LockError`, `CycleEnd` and `CycleError` are the
outcomes of one turn of `_schedule_loop`; `Restart` is a process that ends and
starts again. The pruner's own loop (`start`, `_run`) has the same shape without
the counters. Two assumptions on time, both named in the module: an attempt to
take the lease lasts less than a tick, a cycle at most `MaxCycle` ticks.

### Ledger: what the audit log promises

A book that is extended by compare-and-append, and of which a beginning is kept
for good: an action asks for a receipt (`Ask`), the receipt is drafted against the
end of the book (`Draft`), it is entered exactly if the book still ends there
(`Enter`) and fails exactly if it does not (`Fail`); what is entered is then kept
(`Keep`). The `Abandon` actions and `Die` are the other ways in which an action
goes without its receipt, and each is counted in `faults` or `deaths`. `AuditLog`
implements it with these counts mapped to its own: a log that lost a receipt, or
raised `ChainError` on a matching tip, in a step that is neither a failure nor a
death would not. A failure costs one emission, and a rollback what is not kept;
a death costs every open emission and what is not kept.
`book` is the table with the open transaction of the one process, `kept` the length
of the table. The lock and its two critical sections disappear.

### SecureRead: `SecureMemoryController`, `MemoryScrubber`

`store` holds the copy of each shard in each tier: the patterns its content
matches, and whether it is tagged L0_CORE. `op` is the suspended coroutine of
each client with the object it holds; `quarantined` and `stamps` are
`_quarantined` and `_flag_timestamps`, the latter as ages.

| Code | Actions |
|---|---|
| `SecureMemoryController.get` | `GetBarred`, `GetBegin`, `GetL1Hit/Miss`, `GetL2Hit/Miss`, `Promote`, `GetL3Hit/Miss`, `RestoreVector`, `RestoreCache`, `RestoreDelete` |
| `search` | `SearchBegin`, `SearchSkip`, `SearchAsk`, `PromoteHit`, `SearchEnd` |
| `_scrub_blocks`, `MemoryScrubber.scrub`, `_record` | `ScrubPass`, `ScrubBlock`, `ScrubAlert` |
| `put`, `install_constitution` | `Put`, `PutVector`, `Install` |
| `_emit_receipt` | `Receipt`, `ReceiptHit` (what it raises: `ClientFault`) |
| `UtilityPruner.run_once` | `ScanL1`, `ScanL2`, `Spare`, `DemoteL1`, `ArchivePut`, `VectorDelete`, `CacheDelete` |
| TTL and eviction, the clock, failures | `Drop`, `Tick`, `ClientFault`, `Restart` |

A scrub awaits only the semantic scorer, and only if no pattern matched; without
that await the test of the quarantine, the scrub and the entry into the set are
one step, and in `search` they are modelled as one (`NextHit`). The scorer may
give any answer, another one each time. `time.monotonic()` does not go back, so
the stamps that `_record` keeps (`Fresh`) are the end of its list.

The pruner scans first and deletes by id later, whatever is there by then. Each of
`Places` is one place in the batch of a cycle, filled by a scan that filters by
tier and worked off one await at a time. The places are independent: their order,
the scores and the prune lock are left open, which allows all that the code does
and overlapping cycles besides.

### Attestation: signing, `KeyRegistry`, verification

Receipts with their envelope, hash and signature, as terms: blake2b and the
canonical JSON are taken to be injective and Ed25519 to verify what was signed
and nothing else. `Seal` and `AppendReceipt` or `Refuse` are the two halves of an
emission, `Register` and `Rotate` the life of keys, `Publish` gives a Merkle root
away, `Restart` empties the registry. What can happen to a file is `LoseTail`,
`LoseRow`, `SwapRows`, `InsertRow`, `AlterReceipt`, `AlterHash`, `AlterColumn`. The
last one puts into the hash column any of `Strays`: a value out of the blue, a
hash seen in the table or in a published log, or the hash of two that were seen,
as an inner node of the tree is. It keeps the column UNIQUE, as SQLite does
whoever writes it (audit_log.py:41), and `MerkleCommits` needs that: an odd layer
pairs its last node with itself, so the columns a, b, x and a, b, x, x have one
root.
`Replays` is `verify_chain()` and `MerkleRoot` is `merkle_root()`, layer by layer.

### Scoring: `utility.py` and the pruner's choice

`Cosine`, `Recency`, `Redundancy` (scalar), `BatchRedundancy`, `ComputeUtility`
and `ScoreBatch` over integers: cosines in units of 1/`Scale`, embeddings of
integral length so that no cosine is rounded, recency as a table of ages. The two
functions share `Cosine`, as they do in the code, and the weighted sum (one formula,
at lines 65 and 104); relevance,
recency and redundancy are translated twice.

Around them is `run_once` up to what it demotes: `Begin` reads the window,
`ScoreL1` and `ScoreL2` score a batch (each up to the next await), `Demote` takes
the next shard of it, `SetGoal` replaces the goal at any await, `Break` is an await
that raises or `stop()`. The tiers are not state here. Between two awaits of a
cycle any put, touch, promotion or eviction may finish, so a scan finds any
shards with any embeddings and ages (`Populations`, `Newest`, `Batches`). What a
cycle does to the tiers, await by await, is in TieredStore. The history variable
`aims` collects the goals there were since the batch at hand was scored.

## 3. What is checked

| Run | Instance | Result |
|---|---|---|
| `store` | 1 shard, 2 clients, 2 pruners, 1 failure; 1,173,514 states | `TypeOK`, `DurableUnlessClobbered`, `MissExplained`, `OneTierAtRest`, `ImplementsMemory` hold |
| `store_live` | 2 shards, 1 client, 1 pruner, fair, no failure; 35,812 states | `DurableUnlessClobbered` over batches of two, `DuplicatesHeal` |
| `store_versions` | 1 shard put twice, 2 clients, 1 pruner, 1 failure; 1,772,130 states | `LatestFound` holds |
| `store_lost` | as `store`, no failure | `AckedNeverLost` violated |
| `cache` | 4 ids, 3 tasks, capacity 2, 2 clock values; 374,228 states | `TypeOK`, `IndexMatchesBlobs`, `CapacityAtRest` hold |
| `cache_core` | 3 ids, capacity 1 | `CoreNeverEvicted` violated |
| `audit` | 3 tasks in a process, 4 actions, 2 errors or cancellations, 1 crash, fair; 104,431 states | `TypeOK`, `ChainLinked`, `ReceiptedOnce`, `ImplementsLedger`, `EmissionsSettle` hold |
| `audit_gap` | 3 tasks in a process, 5 actions, no failure of any kind | `EveryActionReceipted` violated |
| `governor` | 2 processes, TTL = 2 intervals, cycles shorter than TTL, 2 puts in flight, 2 failures, fair; 98,172 states | `TypeOK`, `AtMostOneCycle`, `OvershootBounded`, `GapBounded`, `PressureReleases` hold |
| `secure` | 1 shard, 2 clients, a place in the pruner's batch, a scorer, contents that are clean, warned of or flagged twice, threshold 2, 2 writes, 1 failure; 593,642 states | `TypeOK`, `QuarantineHolds`, `CoreKept`, `L1Guarded`, `SpikeAlert` hold |
| `attestation` | 2 tasks, 2 keys, 2 key ids, 2 receipts, 2 damages or restarts; 206,382 states | `TypeOK`, `ReplaySound`, `ReplayComplete`, `MerkleCommits`, `RotationKeeps` hold |
| `scoring` | 3 shards, 4 embeddings, 2 goals, window 2, default weights, ages up to forty hours and one from a clock ahead; 25,007 states | `TypeOK`, `BatchMatchesScalar`, `PeersOnly`, `GoalKept` hold |

The properties in words:

* `DurableUnlessClobbered`: a shard whose `put` returned is in L2 or L3, the
  tiers that do not expire, at every instant and through any failure, except if
  a restore of it overlapped a demotion of it (`clobbered`, see section 5).
* `MissExplained`: `get` answers None for a shard that was there only if another
  reader's restore moved it up between its L2 and its L3 read.
* `OneTierAtRest`, `DuplicatesHeal`: a shard is in both L2 and L3 only during a
  restore or demotion of it, and that ends. Both are about ids that are written
  once, which is what `UtilityController.put` does (a fresh uuid per put): a
  second put of an archived id leaves its archive row behind.
* `LatestFound`: such a row does no harm. After a put of an id that nothing had in
  hand (not `contended`), every copy in L1 and L2 is the one it wrote, and so is
  the row in L3 whenever L2 has none, although no tier compares versions: a
  restore starts from an L2 miss, and a demotion overwrites the old row first.
* `ImplementsMemory`: the first two at the level of steps, and that what `get`
  finds below L1 is in a durable tier at the instant it is read: the tiers are a
  `DurableMemory`.
* `IndexMatchesBlobs`: each blob is indexed under the time it carries.
* `CapacityAtRest`: with no put under way and none torn, the index is within
  capacity. Concurrent puts may evict too much (each evicts the overflow it
  counted), never too little.
* `ChainLinked`: what `verify_chain()` asks of the links, in every process, with
  the rows its connection has not committed. `ReceiptedOnce`: no action has two
  receipts. `ImplementsLedger`: the log is a `Ledger`, so an action goes without a
  receipt only if another receipt was entered after its tip was read, or by one
  of the failures and deaths that were counted. `EmissionsSettle`: the fairness of
  `Ledger` too is implemented, so no path, an error's or a cancellation's
  included, leaves the lock taken, and every emission is settled.
* `OvershootBounded`: the write budget is exceeded by no more than the puts in
  flight. `GapBounded`: the time without a new cycle, over all processes, stays
  below TTL + Interval, plus Interval per failure. `PressureReleases`: a process
  that refuses writes accepts them again.
* `QuarantineHolds`: no call returns an id that was in quarantine when it began.
  A call under way when the id is quarantined may still deliver it.
* `L1Guarded`: a copy that the patterns block, or one tagged L0_CORE, comes into
  L1 only by a write, never by a read, whatever overtakes that read.
* `SpikeAlert`: the alert is raised by exactly the block that makes the threshold
  within the window; blocks that an earlier alert reported do not count again.
  This is the code's threshold, not the module docstring's (section 5).
* `CoreKept`: a constitution whose id had no other copy when it was installed, in
  a tier, in a task's hands or in a batch the pruner has collected, stays in L1
  until its id is put again, as far as readers and the pruner go.
* `ReplaySound`: a log that replays is one that `append` made receipt by receipt,
  whatever happened to the file and whatever keys are known; the loss of the last
  rows is the one damage that passes. `ReplayComplete`: until a restart an
  undamaged log replays, across rotations and colliding ids. `RotationKeeps`: a
  receipt once accepted stays accepted. `MerkleCommits`: a published root and the
  number of rows commit to the hash column; the root alone does so unless every
  hash of the shorter column is the hash of two others.
* `BatchMatchesScalar`: `score_batch` and `compute_utility` give one number, save
  for a match that is alone in the window, where they differ by gamma.
* `PeersOnly`: the redundancy of a shard is its best cosine with the others of the
  window, save for a shard outside the window with exactly one duplicate in it.
* `GoalKept`: with weights for which a perfect match outbids the penalty and the
  thresholds (the defaults do), no cycle is about to demote a shard that matches
  every goal there was since its batch was scored, however old or redundant.

Bounds, and why they are enough to show the interesting cases. Two clients and
two pruners on one shard give every pair of walks, of demotions and of both; a
third actor only repeats one of them. The second shard of `store_live` is what a
batch needs. In `store_versions` two puts of one id are an old copy and a new
one, and one pruner is enough to archive either. One failure per behaviour places a crash at every await. The cache
has two ids more than its capacity, so two concurrent puts evict different
victims, and two clock values give ties and order. Three tasks in one audit log
give a holder, a waiter and a task between its two critical sections. `MaxHits`
saturates `access_count` and is 0 where no property reads it. `MaxLag + 1`
stands for every larger lag. `MaxActions` stops the audit log by itself, which
is why its configurations do not check deadlock; all other runs do. In
SecureRead two writes make a shard and overwrite it under a read, or a shard and
its constitution, and two clients are a read and what overtakes it; one
place of a batch is filled and worked off again and again, from L1 or from L2;
a second one at the same time only deletes what the cache's own loss (`Drop`) and
the first one delete; threshold 2 and a window of one tick give a spike and two blocks that are none.
Its properties speak of one shard at a time, but for the window of blocks, which
counts them whatever their shards; with two shards there are more than six
million states even without failures. The theorems hold for any number of shards,
clients and places.
Two receipts and two damages are the least that make the shorter table with the
published root (a lost row and an inner node in the column of the other), a log
inserted into, and a swap; trees of any height are left to the theorem. Three
shards and a window of 2 put each shard inside and outside the window, with none,
one or two duplicates in it, and two goals replace each other under a batch. Two
faults in the audit log leave two rows in one open transaction.

Fairness. TieredStore: weak fairness of each coroutine and of each cycle under
way, because the event loop resumes a coroutine whose store call completed; new
calls, new cycles, touches and expiry need not happen. AuditLog: strong
fairness of each emission, because `asyncio.Lock` wakes its waiters in order and
so a waiter cannot be passed for ever. Governor: time passes, a due schedule
runs, a cycle ends; puts need not end. SecureRead, Attestation and Scoring make no
claim that something happens and assume no fairness.

## 4. What is proved

For all values of the constants, by TLAPS, from the `ASSUME`s of the modules
(which state the types of the bounds and that `None` is distinct) and the
premises named below. Every invariant and every action property that a run checks
is one of these theorems:

| Module | Theorems | Inductive argument |
|---|---|---|
| TieredStoreProofs | `Typing`, `Durability`, `Misses`, `OneTier`, `Latest`, `MemoryRefinement` | `LocalsOK`: a suspended coroutine carries the object its next step needs. `ArchivedHasRow`: between `archive.put` and `vector.delete` the row exists, unless clobbered. `RehydratedHasCopy`: between `vector.put` and `archive.delete` of a restore the L2 copy exists, unless a pruner removed it (`raced`). `WalkKeepsPromise`: a walk past L2 of an acked shard will find the row, or was overtaken. `LatestInv`: what a task or cycle may still write is the newest copy (`HeldNewest`), a put is alone with its id (`PutAlone`), and L3 is the newest whenever somebody may come to rely on it (`TiersNewest`). `OnlyAcked`: nothing durable holds a shard no put of which has returned; with `Durability` it makes the acked shards and the held ones the same, but for the clobbered (`HeldAcked`). |
| CacheTierProofs | `Typing`, `Index`, `CapacityHolds` | `CapacityOwed`: if the index is over capacity, some task still owes at least the excess (it is before its ZCARD, or has counted it, or holds enough victims), or a put was torn. |
| AuditLogProofs | `Typing`, `ChainSound`, `Once`, `Refinement` | `LockHeld`: a task inside a critical section holds its process's lock; `InsertLinks`: between the check and the INSERT the tip is the one that was checked; both speak of what the process reads, its open transaction included (`View`). `OnceInv`: actions are fresh, each in the hands of one task, and have no row before that task is at its COMMIT. `ChainSound` and `Refinement` assume a single process (two fork the log, section 5); `Once` does not. |
| GovernorProofs | `Typing`, `AtMostOne`, `Gap`, `Overshoot` | `LeaseCovers`: a cycle of age a has a lease of at least TTL - a; `LeaseAge`: a set lease was taken TTL - lease ago; `SleepFits`: sleep left plus time since the last cycle is below the bound. `AtMostOne` and `Gap` assume `MaxCycle < TTL`. |
| SecureReadProofs | `Typing`, `Quarantine`, `L1Trust`, `Constitution`, `Alert` | `LocalsOK`: a coroutine past its scrub holds a copy that may be promoted, whichever await it is at. `LowerPlain`: L2 and L3 hold no copy tagged L0_CORE. `QuarInv`: a walk or a hit under way is for an id that was not barred at its start. `SoleInv`: of a sole constitution no task holds an older copy and no place of a batch has the id; `BatchInv`: what a scan of L2 read is an ordinary copy. A contract of the read-path steps, `StepShape`, says once what any of them may change. `WindowInv`: the stamps are in order and are the end of `streak`, the ages of all blocks since the last alert, from which only outdated ones are missing; so `Fresh` of either is the same list, and counts the window. |
| AttestationProofs | `Typing`, `Rotation`, `Complete`, `Sound`, `Commitment` | `CompleteInv`: rows link, and each was accepted by keys that are still there. `SoundInv`: every receipt with a true signature, in a row, altered or still in flight, makes a genuine log on top of any genuine log it links to. That a replaying table is then genuine goes by induction on its rows, with the least row at which it fails (`Least`, `UpTo`). `Commitment`: layers without repetitions have `Parents` without repetitions that determine them, so by induction on the height of the tower two layers of one length with equal roots are equal. Two of different lengths meet where the longer one's tower has come down to the length of the shorter, whose entries are then nodes (`TowerOnTower`, `LowerTower`, `RootsTell`). `HashInv` keeps the hash columns distinct through every damage. `Sound` and `Commitment` assume that `None` is no hash (`NotAHash`, `NoneIsNoHash`). |
| ScoringProofs | `Typing`, `BatchScalar`, `Peers`, `Kept` | `BatchScalar` is a case analysis of the two formulas. `Peers`: by Cauchy-Schwarz a cosine is at most `Scale` and a shard's own is `Scale` (`CosineBound`, `SelfCosine`), so dropping one top value of the window drops the shard itself (`TopReached`, `SecondReached`). `Kept`: the redundancy is at most `Scale`, so a perfect match scores at least alpha - gamma and none is in a batch for the goal it was scored for, which stays in `aims` until the batch is through; it assumes `SignalDominates`, that this reaches both thresholds, which TLC evaluates for the default weights (`MCScoring`). |
| NumberLemmas | | Shared lemmas: least and greatest elements, induction up to a bound, products and quotients, the Cauchy-Schwarz inequality over integer vectors. |

`Refinement` and `MemoryRefinement` are step simulations: under the mappings of
section 2 each action of `AuditLog` is an action of `Ledger` or a stutter, and each
action of `TieredStore` one of `DurableMemory` or a stutter. The steps that matter
are the ones that enter or lose a receipt (`Insert`, `Fault`, `Crash`), that miss (`WalkKeepsPromise`), and that
delete from L2 or L3 (`ArchivedHasRow`, `RehydratedHasCopy`).

The state predicates alone are not inductive: that a shard is in L2 or L3 says
nothing about the step that is about to delete one of the two, and a capacity
that holds at rest says nothing of the puts under way. The strengthenings say
who is in which critical stretch and what it relies on.

Only model-checked: the liveness properties (`DuplicatesHeal`, `EmissionsSettle`,
`PressureReleases`), which need fairness and ENABLED, and the three properties
that the code violates.

## 5. Where the code and its documentation disagree

Shown by a run:

1. `store_lost`. A `get` of an archived shard writes L2 and L1 and then deletes
   the archive row without looking at L2 again (controller.py:65). If a pruner
   has scanned that L2 copy, archives it (the same row) and deletes its L2 and L1
   copies around that delete, nothing is left. README.md:55 promises that "a
   shard never exists in zero tiers".
2. `cache_core`. `_enforce_capacity` (cache.py:86-100) does not look at tiers and
   evicts an L0_CORE shard when it is the coldest; README.md:24 and schemas.py:21
   say that nothing does. Its TTL has the same effect.
3. `audit_gap`. Overlapping emissions read the same tip; the second append raises
   after its action was done, and nothing signs again. README.md:82: "Every
   lifecycle action emits a chained, signed receipt."

Seen while modelling, without a run of its own:

* The block that makes a spike raises `ScrubberAlert` before `_quarantine`
  (secure_controller.py:208-211, 284): that shard is neither quarantined nor
  receipted, against the docstring at 194.
* Demotion from L1 only deletes the blob (pruner.py:174-178), so the access record
  that touches wrote to L1 is lost; ARCHITECTURE.md:84-86 says the target is
  overwritten with the newer one. L2 scores a shard by the age of its `put`,
  however often it is read, and a search hit puts that age back into L1.
* scrubber.py:28 says that the alert comes when the count of blocks "exceeds"
  `spike_threshold`. The code alerts when it reaches it (`>=`, line 220), and
  tests/test_security_scrubber.py:125-136 expects that too; so does `SpikeAlert`.
* `merkle_root` does not tell leaves from inner nodes (audit_log.py:192-200): a
  table with one row whose column is the hash of a and b has the root of the
  table with the rows a and b. Its docstring names only the other ambiguity, the
  duplicated last node. A root published with the number of rows commits to
  the column; a root alone does not.
* A failed or cancelled COMMIT (audit_log.py:114) leaves its row in the open
  transaction of the connection. Later appends link to it and the next COMMIT
  keeps it, so an emission that raised may still end in the log; if the process
  ends first, the row is lost although its action was done.
* Two processes on one audit log pass the check of the tip and then both insert;
  the lock is local to a process (audit_log.py:61-64).
* The prune lock is a lease of `int(interval * 2)` seconds that is not renewed; a
  longer cycle overlaps the next one, against README.md:53.
  An interval below half a second makes it a lease of 0 seconds, which Redis
  refuses: no cycle ever runs. The Governor assumes a longer interval.
* A victim of `_enforce_capacity` that is touched between the ZRANGE and the
  eviction (cache.py:95) is evicted although it is by then the hottest shard;
  nothing promises otherwise, and L2 still has it.
* A put refused before the first completed cycle formats a lag of None
  (api/controller.py:107) and raises TypeError, not `BackPressure`.
* `install_constitution` does not look for other copies of the id. If L2 has one,
  a promotion puts it in the constitution's place in L1, or the pruner's defensive
  `cache.delete` (pruner.py:186) removes the constitution. An ordinary copy that
  is in L1 alone (its `vector.put` failed) is enough: once a scan has read it
  (pruner.py:114-116), the constitution installed over it goes when the batch is
  worked off (177). Hence the premise of `CoreKept`.
* The comment at pruner.py:175, "L2 already has this shard", can be false. A touch
  (controller.py:50, 92) or a search's promotion (81-84) that resumes after the
  archiving (pruner.py:183-186) leaves a copy in L1 over none in L2, and so does a
  put whose `vector.put` fails (controller.py:42-43). A cycle may delete it:
  in the first case L3 has the shard, in the second nothing has, but the put
  had raised.
* `MemoryController.put` of an L0_CORE shard writes L1 and then raises from
  `vector.put` (vector.py:36); only `SecureMemoryController.put` refuses it first.
* `redundancy` and `score_batch` differ for a match that is alone in the window.
  Both take one exact duplicate of a shard outside the window for the shard
  itself, and both penalise the newer of two duplicates as well as the older.
* Without a goal a shard scores at most beta = 0.25, plus gamma if it points away
  from all its peers: a cycle demotes all of L1 that is not nearly opposite to
  the rest, however recent.
* The secure `get` and `search` never touch, so recency is that of the `put`.

## 6. Not modelled

* Floating-point arithmetic: cosines are exact in the model, the tolerance 0.9999
  is equality. Regular expressions: a content is the set of patterns it matches.
  Cryptography and canonical JSON: ideal, see Attestation.
* `sign_shard` and `verify_shard` (signing.py): nothing in the program calls them.
* HTTP schemas, validation of sizes and types, spans and logging.
* The dashboard. It shows generated sample data and calls nothing of the backend;
  the one protocol in it, the prune timer with undo, depends on when React runs
  effects and on what framer-motion does with an exiting panel, neither of which
  is in the repository.
* `count`, `for_shard`, `fetch_all`, `health`, `last_prune` change no state.
* What is read after a put that overlapped a touch, a promotion, a restore or a
  demotion of the same id: the older copy may then win, in any tier, and
  `LatestFound` says nothing. `UtilityController.put` draws a fresh uuid and so
  never writes an id twice.
* L1 eviction and the TTL have their own module and are arbitrary loss in
  TieredStore. In SecureRead they take ordinary copies only: what they do to a
  constitution is `CoreNeverEvicted`.
* What age a shard has in which tier: Scoring lets a scan find any.

Qdrant, SQLite and Redis are what `src/` uses of them: maps with atomic
single-key operations, MULTI and TTL.

## 7. Plan

Modelled, checked and proved about, in this order because the first is what the
system is for: TieredStore with DurableMemory, CacheTier, AuditLog with Ledger,
Governor, SecureRead, Attestation, Scoring. What is left:

1. **Several processes on one log**: `Once` and `Typing` hold for any number of
   processes, `ChainSound` for one. What a forked log still promises (each receipt
   links to an earlier one, and the fork stays visible) deserves a theorem.
2. **The lease and the tiers**: TieredStore lets the prune lock expire at any time,
   Governor says when two cycles can overlap. With `AtMostOneCycle` as a premise
   more can be said of what one cycle archives while another holds the same batch.
