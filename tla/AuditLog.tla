------------------------------ MODULE AuditLog ------------------------------
(***************************************************************************)
(* security/audit_log.py and the emission of receipts in                   *)
(* security/secure_controller.py.  Every lifecycle action (a put, a        *)
(* demotion seen by the pruner hook, a quarantine) is first done in the    *)
(* tiers and then receipted: read the chain tip, sign a receipt that links *)
(* to it, append.  The tip is read under the log's lock and checked again  *)
(* under it by append(), but the lock is released in between.  append()    *)
(* INSERTs the row and COMMITs it in two awaits: a sqlite error or a       *)
(* cancelled task may leave it between the two, in the open transaction of *)
(* the connection, where the next SELECT reads it and the next COMMIT      *)
(* keeps it.                                                               *)
(*                                                                         *)
(* A receipt is represented by the action it is for, which is also its     *)
(* hash: an action signs at most one receipt.  Signatures and keys always  *)
(* verify here.                                                            *)
(***************************************************************************)
EXTENDS Naturals, Sequences, FiniteSets

CONSTANTS
    Tasks,       \* tasks that perform lifecycle actions
    Processes,   \* agent processes that have the log open
    ProcessOf,   \* the process each task runs in
    MaxActions,  \* bound on lifecycle actions
    MaxFaults,   \* bound on sqlite errors and cancellations
    MaxCrashes,  \* bound on process crashes
    None         \* "no receipt", "no holder"

ASSUME ProcessAssumption == ProcessOf \in [Tasks -> Processes]
ASSUME BoundsAssumption ==
    MaxActions \in Nat /\ MaxFaults \in Nat /\ MaxCrashes \in Nat
ASSUME NoneAssumption == None \notin Nat /\ None \notin Tasks

VARIABLES
    log,      \* the committed audit_log table, in sequence order
    pending,  \* the rows each process's connection has not committed
    lock,     \* each process's asyncio.Lock: its holder, or None
    pc,       \* where each task's _emit_receipt() is suspended
    act,      \* the action it is to receipt
    prev,     \* the tip it has read
    actions,  \* how many lifecycle actions were done
    faults,   \* how many emissions an error or a cancellation ended
    crashes   \* how many processes died

vars == <<log, pending, lock, pc, act, prev, actions, faults, crashes>>

Actions  == 1..MaxActions
Receipts == [hash : Actions, prev : Actions \union {None}]

\* The awaits within the two critical sections.
Locked == {"tipRead", "check", "insert", "commit"}

\* What a SELECT of process q reads: the table and its own transaction.
View(q) == log \o pending[q]

\* Mutant: the last sequence number instead of the last hash.
TipSequence(q) == Len(View(q))

\* SELECT receipt_hash ... ORDER BY sequence DESC LIMIT 1
Tip(q) == IF View(q) = <<>> THEN None ELSE View(q)[Len(View(q))].hash

TypeOK ==
    /\ log \in Seq(Receipts)
    /\ pending \in [Processes -> Seq(Receipts)]
    /\ lock \in [Processes -> Tasks \union {None}]
    /\ pc \in [Tasks -> {"idle", "tip", "append"} \union Locked]
    /\ act \in [Tasks -> Actions \union {None}]
    /\ prev \in [Tasks -> Actions \union {None}]
    /\ actions \in 0..MaxActions
    /\ faults \in 0..MaxFaults
    /\ crashes \in 0..MaxCrashes

Init ==
    /\ log = <<>>
    /\ pending = [q \in Processes |-> <<>>]
    /\ lock = [q \in Processes |-> None]
    /\ pc = [t \in Tasks |-> "idle"]
    /\ act = [t \in Tasks |-> None]
    /\ prev = [t \in Tasks |-> None]
    /\ actions = 0
    /\ faults = 0
    /\ crashes = 0

Acquire(t) ==
    /\ lock[ProcessOf[t]] = None
    /\ lock' = [lock EXCEPT ![ProcessOf[t]] = t]

Release(t) == lock' = [lock EXCEPT ![ProcessOf[t]] = None]

\* The task is done with its receipt, for better or worse.
End(t) ==
    /\ pc' = [pc EXCEPT ![t] = "idle"]
    /\ act' = [act EXCEPT ![t] = None]
    /\ prev' = [prev EXCEPT ![t] = None]

\* INSERT opens a transaction, or joins the one a failed append left open.
\* SQLite lets one connection write at a time.
InsertRow(t) ==
    /\ \A q \in Processes : q # ProcessOf[t] => pending[q] = <<>>
    /\ pending' = [pending EXCEPT ![ProcessOf[t]] =
                      Append(@, [hash |-> act[t], prev |-> prev[t]])]
    /\ log' = log

\* COMMIT keeps whatever the transaction of the connection holds.
CommitRows(t) ==
    /\ log' = View(ProcessOf[t])
    /\ pending' = [pending EXCEPT ![ProcessOf[t]] = <<>>]

RollBack(t) ==
    /\ pending' = [pending EXCEPT ![ProcessOf[t]] = <<>>]
    /\ log' = log

-----------------------------------------------------------------------------
(* Mutants: slips in the code that the properties below would reveal.      *)

\* append() trusts the link it is given.
AppendUnchecked(t) ==
    /\ pc[t] = "check"
    /\ pc' = [pc EXCEPT ![t] = "insert"]
    /\ UNCHANGED <<log, pending, lock, act, prev, actions, faults, crashes>>

\* The lock is taken by hand and not released when append() raises.
ErrorKeepsLock(t) ==
    /\ pc[t] = "check" /\ Tip(ProcessOf[t]) # prev[t]
    /\ End(t)
    /\ UNCHANGED <<log, pending, lock, actions, faults, crashes>>

\* append() returns without its commit().
CommitForgotten(t) ==
    /\ pc[t] = "insert"
    /\ InsertRow(t)
    /\ Release(t)
    /\ End(t)
    /\ UNCHANGED <<actions, faults, crashes>>

\* A retry loop signs the action again after a commit that went through.
CommitAndRetry(t) ==
    /\ pc[t] = "commit"
    /\ CommitRows(t)
    /\ Release(t)
    /\ pc' = [pc EXCEPT ![t] = "tip"]
    /\ UNCHANGED <<act, prev, actions, faults, crashes>>

-----------------------------------------------------------------------------
\* The put, demotion or quarantine itself; its effect on the tiers stays.
Act(t) ==
    /\ pc[t] = "idle" /\ actions < MaxActions
    /\ actions' = actions + 1
    /\ act' = [act EXCEPT ![t] = actions + 1]
    /\ pc' = [pc EXCEPT ![t] = "tip"]
    /\ UNCHANGED <<log, pending, lock, prev, faults, crashes>>

LockForTip(t) ==
    /\ pc[t] = "tip"
    /\ Acquire(t)
    /\ pc' = [pc EXCEPT ![t] = "tipRead"]
    /\ UNCHANGED <<log, pending, act, prev, actions, faults, crashes>>

\* tip() returns; sign_receipt() links to it.
ReadTip(t) ==
    /\ pc[t] = "tipRead"
    /\ prev' = [prev EXCEPT ![t] = Tip(ProcessOf[t])]
    /\ Release(t)
    /\ pc' = [pc EXCEPT ![t] = "append"]
    /\ UNCHANGED <<log, pending, act, actions, faults, crashes>>

LockForAppend(t) ==
    /\ pc[t] = "append"
    /\ Acquire(t)
    /\ pc' = [pc EXCEPT ![t] = "check"]
    /\ UNCHANGED <<log, pending, act, prev, actions, faults, crashes>>

TipMatches(t) ==
    /\ pc[t] = "check" /\ Tip(ProcessOf[t]) = prev[t]
    /\ pc' = [pc EXCEPT ![t] = "insert"]
    /\ UNCHANGED <<log, pending, lock, act, prev, actions, faults, crashes>>

\* append() raises.  A put re-raises to its caller with the shard stored; the
\* pruner logs it.  Nobody signs again.
ChainError(t) ==
    /\ pc[t] = "check" /\ Tip(ProcessOf[t]) # prev[t]
    /\ Release(t)
    /\ End(t)
    /\ UNCHANGED <<log, pending, actions, faults, crashes>>

Insert(t) ==
    /\ pc[t] = "insert"
    /\ InsertRow(t)
    /\ pc' = [pc EXCEPT ![t] = "commit"]
    /\ UNCHANGED <<lock, act, prev, actions, faults, crashes>>

Commit(t) ==
    /\ pc[t] = "commit"
    /\ CommitRows(t)
    /\ Release(t)
    /\ End(t)
    /\ UNCHANGED <<actions, faults, crashes>>

\* sqlite raises at an await, or the task is cancelled there (a cancelled
\* statement still executes in the connection's thread).  `async with` lets go
\* of the lock; nothing rolls the open transaction back but sqlite itself.
Fault(t) ==
    /\ pc[t] # "idle" /\ faults < MaxFaults
    /\ faults' = faults + 1
    /\ \/ UNCHANGED <<log, pending>>
       \/ pc[t] = "insert" /\ InsertRow(t)
       \/ pc[t] = "commit" /\ CommitRows(t)
       \/ pc[t] = "commit" /\ RollBack(t)
    /\ IF pc[t] \in Locked THEN Release(t) ELSE lock' = lock
    /\ End(t)
    /\ UNCHANGED <<actions, crashes>>

\* A process dies: its tasks and its lock are gone, uncommitted rows too.
Crash(q) ==
    /\ crashes < MaxCrashes
    /\ crashes' = crashes + 1
    /\ pc' = [t \in Tasks |-> IF ProcessOf[t] = q THEN "idle" ELSE pc[t]]
    /\ act' = [t \in Tasks |-> IF ProcessOf[t] = q THEN None ELSE act[t]]
    /\ prev' = [t \in Tasks |-> IF ProcessOf[t] = q THEN None ELSE prev[t]]
    /\ lock' = [lock EXCEPT ![q] = None]
    /\ pending' = [pending EXCEPT ![q] = <<>>]
    /\ UNCHANGED <<log, actions, faults>>

Emit(t) ==
    \/ LockForTip(t)
    \/ ReadTip(t)
    \/ LockForAppend(t)
    \/ TipMatches(t)
    \/ ChainError(t)
    \/ Insert(t)
    \/ Commit(t)

Next ==
    \/ \E t \in Tasks : Act(t) \/ Emit(t) \/ Fault(t)
    \/ \E q \in Processes : Crash(q)

Spec == Init /\ [][Next]_vars

\* asyncio.Lock wakes its waiters in order, so a task that waits for the lock
\* gets it although others take it in between.
FairSpec == Spec /\ \A t \in Tasks : SF_vars(Emit(t))

-----------------------------------------------------------------------------
(* Properties.                                                             *)

\* verify_chain() passes in every process, with the rows its connection has not
\* committed: each receipt links to the one before it.
ChainLinked ==
    \A q \in Processes : \A i \in 1..Len(View(q)) :
        View(q)[i].prev = IF i = 1 THEN None ELSE View(q)[i-1].hash

\* No action is receipted twice, and none while its receipt is being written.
ReceiptedOnce ==
    \A q \in Processes :
        /\ \A i, j \in 1..Len(View(q)) : View(q)[i].hash = View(q)[j].hash => i = j
        /\ \A t \in Tasks, i \in 1..Len(View(q)) :
               pc[t] # "commit" => View(q)[i].hash # act[t]

\* The abstract book this log implements when one process has it open: an
\* action is in it by its receipt.
Writer == CHOOSE q \in Processes : TRUE
InPhase(labels) == {act[t] : t \in {u \in Tasks : pc[u] \in labels}}
Signed ==
    {[action |-> act[t], after |-> prev[t]] :
        t \in {u \in Tasks : pc[u] \in {"append", "check", "insert"}}}

L == INSTANCE Ledger WITH
        book     <- [i \in 1..Len(View(Writer)) |-> View(Writer)[i].hash],
        kept     <- Len(log),
        asked    <- InPhase({"tip", "tipRead"}),
        drafts   <- Signed,
        settling <- InPhase({"commit"}),
        deaths   <- crashes

\* Receipts are recorded as by one atomic compare-and-append: for all its locks,
\* its two critical sections and its open transactions the log records a
\* receipt exactly when it still ends where the receipt was drafted, and loses
\* one only then, or to a counted failure or death.
ImplementsLedger == L!Spec

\* Every emission ends as the book's does, with a receipt or with an error: no
\* path out of the log leaves its lock taken.
EmissionsSettle == L!Fairness

\* README: "Every lifecycle action emits a chained, signed receipt."
EveryActionReceipted ==
    \A a \in 1..actions :
        \/ \E i \in 1..Len(log) : log[i].hash = a
        \/ \E t \in Tasks : act[t] = a
=============================================================================
