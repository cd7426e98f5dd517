--------------------------- MODULE AuditLogProofs ---------------------------
(***************************************************************************)
(* Proofs about AuditLog, for any tasks and processes.  That the chain is  *)
(* linked needs the assumption the code's comment makes, that one process  *)
(* writes the log; that no action is receipted twice does not.             *)
(***************************************************************************)
EXTENDS AuditLog, SequenceTheorems, TLAPS

SingleProcess == \E q : Processes = {q}

\* Types, what a task suspended at a given await has in its locals, and
\* SQLite's write lock: one connection has uncommitted rows at a time.
TypeInv ==
    /\ TypeOK
    /\ \A t \in Tasks : pc[t] # "idle" => act[t] \in Actions
    /\ \A p, q \in Processes : pending[p] # <<>> /\ pending[q] # <<>> => p = q

Row(t) == [hash |-> act[t], prev |-> prev[t]]

-----------------------------------------------------------------------------
(* What the processes read.                                                *)

LEMMA ViewType ==
    ASSUME TypeOK, NEW q \in Processes
    PROVE  /\ log \in Seq(Receipts) /\ pending[q] \in Seq(Receipts)
           /\ View(q) \in Seq(Receipts)
           /\ Len(View(q)) = Len(log) + Len(pending[q])
           /\ \A i \in 1..Len(log) : View(q)[i] = log[i]
           /\ pending[q] = <<>> => View(q) = log
<1>1. log \in Seq(Receipts) /\ pending[q] \in Seq(Receipts)
    BY DEF TypeOK
<1>2. log \o <<>> = log
    BY <1>1, ConcatEmptySeq
<1>3. /\ View(q) \in Seq(Receipts)
      /\ Len(View(q)) = Len(log) + Len(pending[q])
      /\ \A i \in 1..Len(log) + Len(pending[q]) :
            View(q)[i] = IF i <= Len(log) THEN log[i] ELSE pending[q][i - Len(log)]
    BY <1>1, ConcatProperties DEF View
<1>4. Len(log) \in Nat /\ Len(pending[q]) \in Nat
    BY <1>1
<1>5. \A i \in 1..Len(log) : i \in 1..Len(log) + Len(pending[q]) /\ i <= Len(log)
    BY <1>4
<1> QED BY <1>1, <1>2, <1>3, <1>5 DEF View

\* The tip is the hash of a receipt, or None.
LEMMA TipType ==
    ASSUME TypeOK, NEW q \in Processes
    PROVE  Tip(q) \in Actions \union {None}
<1>1. View(q) \in Seq(Receipts)
    BY ViewType
<1> SUFFICES ASSUME View(q) # <<>> PROVE View(q)[Len(View(q))].hash \in Actions
    BY DEF Tip
<1>2. Len(View(q)) \in 1..Len(View(q))
    BY <1>1
<1>3. View(q)[Len(View(q))] \in Receipts
    BY <1>1, <1>2
<1> QED BY <1>3 DEF Receipts

LEMMA RowType ==
    ASSUME TypeInv, NEW t \in Tasks, pc[t] # "idle"
    PROVE  Row(t) \in Receipts
BY DEF TypeInv, TypeOK, Row, Receipts

\* An INSERT adds a row to what its own process reads, and to nothing else.
LEMMA InsertViews ==
    ASSUME TypeInv, NEW t \in Tasks, pc[t] # "idle", InsertRow(t)
    PROVE  /\ View(ProcessOf[t])' = Append(View(ProcessOf[t]), Row(t))
           /\ \A q \in Processes : q # ProcessOf[t] => View(q)' = View(q)
           /\ pending' \in [Processes -> Seq(Receipts)]
           /\ \A p, q \in Processes : pending'[p] # <<>> /\ pending'[q] # <<>> => p = q
           /\ log' = log
<1> DEFINE p == ProcessOf[t]
<1>1. /\ log' = log /\ p \in Processes
      /\ \A q \in Processes : q # p => pending[q] = <<>>
      /\ pending' = [pending EXCEPT ![p] = Append(pending[p], Row(t))]
    BY ProcessAssumption DEF InsertRow, Row
<1>2. Row(t) \in Receipts
    BY RowType
<1>3. log \in Seq(Receipts) /\ pending \in [Processes -> Seq(Receipts)]
    BY DEF TypeInv, TypeOK
<1>4. /\ pending'[p] = Append(pending[p], Row(t))
      /\ \A q \in Processes : q # p => pending'[q] = pending[q]
      /\ pending' \in [Processes -> Seq(Receipts)]
    BY <1>1, <1>2, <1>3
<1>5. log \o Append(pending[p], Row(t)) = Append(log \o pending[p], Row(t))
    BY <1>1, <1>2, <1>3
<1> QED BY <1>1, <1>4, <1>5 DEF View

\* A COMMIT leaves what its process reads; the others read it too.
LEMMA CommitViews ==
    ASSUME TypeInv, NEW t \in Tasks, CommitRows(t)
    PROVE  /\ View(ProcessOf[t])' = View(ProcessOf[t])
           /\ log' = View(ProcessOf[t])
           /\ \A q \in Processes : View(q)' \in {View(q), View(ProcessOf[t])}
           /\ log' \in Seq(Receipts) /\ pending' \in [Processes -> Seq(Receipts)]
           /\ \A p, q \in Processes : pending'[p] # <<>> /\ pending'[q] # <<>> => p = q
<1> DEFINE p == ProcessOf[t]
<1>1. /\ log' = View(p) /\ p \in Processes
      /\ pending' = [pending EXCEPT ![p] = <<>>]
    BY ProcessAssumption DEF CommitRows
<1>2. View(p) \in Seq(Receipts) /\ View(p) \o <<>> = View(p)
    BY <1>1, ViewType, ConcatEmptySeq DEF TypeInv
<1>3. /\ pending \in [Processes -> Seq(Receipts)] /\ <<>> \in Seq(Receipts)
      /\ \A a, b \in Processes : pending[a] # <<>> /\ pending[b] # <<>> => a = b
    BY DEF TypeInv, TypeOK
<1>4. /\ pending'[p] = <<>> /\ pending' \in [Processes -> Seq(Receipts)]
      /\ \A q \in Processes : q # p => pending'[q] = pending[q]
    BY <1>1, <1>3
<1>5. View(p)' = View(p)
    BY <1>1, <1>2, <1>4 DEF View
<1>6. ASSUME NEW q \in Processes, q # p PROVE View(q)' \in {View(q), View(p)}
    <2>1. CASE pending[q] = <<>>
        BY <1>1, <1>2, <1>4, <1>6, <2>1 DEF View
    <2>2. CASE pending[q] # <<>>
        <3>1. pending[p] = <<>>
            BY <1>1, <1>3, <1>6, <2>2
        <3>2. View(p) = log
            BY <1>1, <3>1, ViewType DEF TypeInv
        <3> QED BY <1>1, <1>4, <1>6, <3>2 DEF View
    <2> QED BY <2>1, <2>2
<1> QED BY <1>1, <1>2, <1>3, <1>4, <1>5, <1>6

\* A rollback, like the death of a process, leaves the committed rows.
LEMMA RollBackViews ==
    ASSUME TypeInv, NEW p \in Processes,
           log' = log, pending' = [pending EXCEPT ![p] = <<>>]
    PROVE  /\ View(p)' = log
           /\ \A q \in Processes : q # p => View(q)' = View(q)
           /\ pending' \in [Processes -> Seq(Receipts)]
           /\ \A a, b \in Processes : pending'[a] # <<>> /\ pending'[b] # <<>> => a = b
<1>1. /\ pending \in [Processes -> Seq(Receipts)] /\ <<>> \in Seq(Receipts)
      /\ \A a, b \in Processes : pending[a] # <<>> /\ pending[b] # <<>> => a = b
      /\ log \o <<>> = log
    BY ConcatEmptySeq DEF TypeInv, TypeOK
<1>2. /\ pending'[p] = <<>> /\ pending' \in [Processes -> Seq(Receipts)]
      /\ \A q \in Processes : q # p => pending'[q] = pending[q]
    BY <1>1
<1> QED BY <1>1, <1>2 DEF View

-----------------------------------------------------------------------------
\* The initial state is well typed.
LEMMA TypeInit == Init => TypeInv
<1> SUFFICES ASSUME Init PROVE TypeInv
    OBVIOUS
<1>1. log \in Seq(Receipts) /\ pending \in [Processes -> Seq(Receipts)]
    BY DEF Init
<1> QED BY <1>1, BoundsAssumption DEF Init, TypeInv, TypeOK

\* Every step keeps the types; a task that emits has an action to receipt.
LEMMA TypeStep == TypeInv /\ [Next]_vars => TypeInv'
<1> SUFFICES ASSUME TypeInv, [Next]_vars PROVE TypeInv'
    OBVIOUS
<1> USE ProcessAssumption, BoundsAssumption
        DEF TypeInv, TypeOK, Acquire, Release, End, Locked
<1>1. ASSUME NEW t \in Tasks, Act(t) PROVE TypeInv'
    BY <1>1 DEF Act, Actions
<1>2. ASSUME NEW t \in Tasks, LockForTip(t) PROVE TypeInv'
    BY <1>2 DEF LockForTip
<1>3. ASSUME NEW t \in Tasks, ReadTip(t) PROVE TypeInv'
    BY <1>3, TipType DEF ReadTip
<1>4. ASSUME NEW t \in Tasks, LockForAppend(t) PROVE TypeInv'
    BY <1>4 DEF LockForAppend
<1>5. ASSUME NEW t \in Tasks, TipMatches(t) PROVE TypeInv'
    BY <1>5 DEF TipMatches
<1>6. ASSUME NEW t \in Tasks, ChainError(t) PROVE TypeInv'
    BY <1>6 DEF ChainError
<1>7. ASSUME NEW t \in Tasks, Insert(t) PROVE TypeInv'
    BY <1>7, InsertViews DEF Insert
<1>8. ASSUME NEW t \in Tasks, Commit(t) PROVE TypeInv'
    BY <1>8, CommitViews DEF Commit
<1>9. ASSUME NEW t \in Tasks, Fault(t) PROVE TypeInv'
    <2>1. /\ log' \in Seq(Receipts) /\ pending' \in [Processes -> Seq(Receipts)]
          /\ \A p, q \in Processes : pending'[p] # <<>> /\ pending'[q] # <<>> => p = q
        <3>1. CASE UNCHANGED <<log, pending>>
            BY <3>1
        <3>2. CASE InsertRow(t)
            BY <1>9, <3>2, InsertViews DEF Fault
        <3>3. CASE CommitRows(t)
            BY <3>3, CommitViews
        <3>4. CASE RollBack(t)
            BY <3>4, RollBackViews DEF RollBack
        <3> QED BY <1>9, <3>1, <3>2, <3>3, <3>4 DEF Fault
    <2>2. lock' \in [Processes -> Tasks \union {None}]
        BY <1>9 DEF Fault
    <2>3. faults' \in 0..MaxFaults
        BY <1>9 DEF Fault
    <2> QED BY <1>9, <2>1, <2>2, <2>3 DEF Fault
<1>10. ASSUME NEW q \in Processes, Crash(q) PROVE TypeInv'
    BY <1>10, RollBackViews DEF Crash
<1>11. CASE UNCHANGED vars
    BY <1>11 DEF vars
<1> QED
    BY <1>1, <1>2, <1>3, <1>4, <1>5, <1>6, <1>7, <1>8, <1>9, <1>10, <1>11
       DEF Next, Emit

\* The log, its locks and the suspended emissions keep their types.
THEOREM Typing == Spec => []TypeOK
<1>1. TypeInv => TypeOK
    BY DEF TypeInv
<1> QED
    BY TypeInit, TypeStep, <1>1, PTL DEF Spec

-----------------------------------------------------------------------------
\* What a process reads changes in three ways: it is what some process read,
\* or the committed rows, or has one more row, that of a task at its INSERT.
LEMMA ViewStep ==
    ASSUME TypeInv, [Next]_vars, NEW q \in Processes
    PROVE  \/ \E p \in Processes : View(q)' = View(p)
           \/ View(q)' = log
           \/ \E t \in Tasks : /\ pc[t] = "insert" /\ ProcessOf[t] = q
                               /\ View(q)' = Append(View(q), Row(t))
                               /\ pc'[t] = "commit" \/ act'[t] = None
<1> USE ProcessAssumption
<1>1. CASE UNCHANGED <<log, pending>>
    BY <1>1 DEF View
<1>2. ASSUME NEW t \in Tasks, InsertRow(t), pc[t] = "insert",
             pc'[t] = "commit" \/ act'[t] = None
      PROVE  \/ View(q)' = View(q)
             \/ /\ pc[t] = "insert" /\ ProcessOf[t] = q
                /\ View(q)' = Append(View(q), Row(t))
                /\ pc'[t] = "commit" \/ act'[t] = None
    BY <1>2, InsertViews
<1>3. ASSUME NEW t \in Tasks, CommitRows(t)
      PROVE  \E p \in Processes : View(q)' = View(p)
    BY <1>3, CommitViews
<1>4. ASSUME NEW p \in Processes, log' = log, pending' = [pending EXCEPT ![p] = <<>>]
      PROVE  View(q)' = log \/ View(q)' = View(q)
    BY <1>4, RollBackViews
<1>5. ASSUME NEW t \in Tasks, Insert(t) PROVE pc'[t] = "commit"
    BY <1>5 DEF Insert, TypeInv, TypeOK
<1>6. ASSUME NEW t \in Tasks, Fault(t) PROVE act'[t] = None
    BY <1>6 DEF Fault, End, TypeInv, TypeOK
<1>7. ASSUME NEW t \in Tasks, Fault(t)
      PROVE  \/ UNCHANGED <<log, pending>>
             \/ pc[t] = "insert" /\ InsertRow(t) /\ act'[t] = None
             \/ CommitRows(t)
             \/ log' = log /\ pending' = [pending EXCEPT ![ProcessOf[t]] = <<>>]
    BY <1>6, <1>7 DEF Fault, RollBack
<1>8. \/ UNCHANGED <<log, pending>>
      \/ \E t \in Tasks : \/ pc[t] = "insert" /\ InsertRow(t)
                             /\ (pc'[t] = "commit" \/ act'[t] = None)
                          \/ CommitRows(t)
      \/ \E p \in Processes : log' = log /\ pending' = [pending EXCEPT ![p] = <<>>]
    <2>1. ASSUME NEW t \in Tasks, Insert(t)
          PROVE  pc[t] = "insert" /\ InsertRow(t) /\ pc'[t] = "commit"
        BY <1>5, <2>1 DEF Insert
    <2>2. ASSUME NEW t \in Tasks, Commit(t) PROVE CommitRows(t)
        BY <2>2 DEF Commit
    <2>3. ASSUME NEW p \in Processes, Crash(p)
          PROVE  log' = log /\ pending' = [pending EXCEPT ![p] = <<>>]
        BY <2>3 DEF Crash
    <2> QED
        BY <1>7, <2>1, <2>2, <2>3 DEF Next, Emit, Act, LockForTip, ReadTip,
           LockForAppend, TipMatches, ChainError, vars
<1> QED BY <1>1, <1>2, <1>3, <1>4, <1>8

-----------------------------------------------------------------------------
\* Each row links to the one before it.
Linked(rows) ==
    \A i \in 1..Len(rows) : rows[i].prev = IF i = 1 THEN None ELSE rows[i-1].hash

Last(rows) == IF rows = <<>> THEN None ELSE rows[Len(rows)].hash

\* A row that links to the last one keeps the chain linked.
LEMMA AppendLinks ==
    ASSUME NEW rows \in Seq(Receipts), Linked(rows),
           NEW r \in Receipts, r.prev = Last(rows)
    PROVE  Linked(Append(rows, r))
<1> DEFINE more == Append(rows, r)
<1>1. /\ Len(rows) \in Nat /\ Len(more) = Len(rows) + 1
      /\ \A i \in 1..Len(rows) : more[i] = rows[i]
      /\ more[Len(rows) + 1] = r
    OBVIOUS
<1> HIDE DEF more
<1> SUFFICES ASSUME NEW i \in 1..Len(more)
             PROVE  more[i].prev = IF i = 1 THEN None ELSE more[i-1].hash
    BY DEF Linked, more
<1>2. CASE i \in 1..Len(rows)
    <2>1. more[i] = rows[i] /\ (i # 1 => more[i-1] = rows[i-1])
        BY <1>1, <1>2
    <2> QED BY <1>2, <2>1 DEF Linked
<1>3. CASE i = Len(rows) + 1
    <2>1. more[i] = r /\ (i # 1 => more[i-1] = rows[i-1])
        BY <1>1, <1>3
    <2>2. rows = <<>> <=> i = 1
        BY <1>1, <1>3
    <2> QED BY <1>3, <2>1, <2>2 DEF Last
<1> QED BY <1>1, <1>2, <1>3

\* The committed rows of a linked view are linked.
LEMMA LogLinks ==
    ASSUME TypeOK, NEW q \in Processes, Linked(View(q))
    PROVE  Linked(log)
<1>1. /\ Len(log) \in Nat /\ Len(View(q)) \in Nat /\ Len(log) <= Len(View(q))
      /\ \A i \in 1..Len(log) : View(q)[i] = log[i]
    BY ViewType
<1> SUFFICES ASSUME NEW i \in 1..Len(log)
             PROVE  log[i].prev = IF i = 1 THEN None ELSE log[i-1].hash
    BY DEF Linked
<1>2. i \in 1..Len(View(q)) /\ (i # 1 => i - 1 \in 1..Len(log))
    BY <1>1
<1> QED BY <1>1, <1>2 DEF Linked

\* A task between acquire and release is the holder of its process's lock.
LockHeld == \A t \in Tasks : pc[t] \in Locked => lock[ProcessOf[t]] = t

\* A receipt about to be inserted links to the tip.
InsertLinks == \A t \in Tasks : pc[t] = "insert" => prev[t] = Tip(ProcessOf[t])

ChainInv == LockHeld /\ InsertLinks /\ ChainLinked

LEMMA LockStep == TypeInv /\ LockHeld /\ [Next]_vars => LockHeld'
<1> SUFFICES ASSUME TypeInv, LockHeld, [Next]_vars PROVE LockHeld'
    OBVIOUS
<1> USE ProcessAssumption, NoneAssumption
        DEF TypeInv, TypeOK, LockHeld, Locked, Acquire, Release, End
<1>1. ASSUME NEW t \in Tasks, Act(t) PROVE LockHeld'
    BY <1>1 DEF Act
<1>2. ASSUME NEW t \in Tasks, LockForTip(t) PROVE LockHeld'
    BY <1>2 DEF LockForTip
<1>3. ASSUME NEW t \in Tasks, ReadTip(t) PROVE LockHeld'
    BY <1>3 DEF ReadTip
<1>4. ASSUME NEW t \in Tasks, LockForAppend(t) PROVE LockHeld'
    BY <1>4 DEF LockForAppend
<1>5. ASSUME NEW t \in Tasks, TipMatches(t) PROVE LockHeld'
    BY <1>5 DEF TipMatches
<1>6. ASSUME NEW t \in Tasks, ChainError(t) PROVE LockHeld'
    BY <1>6 DEF ChainError
<1>7. ASSUME NEW t \in Tasks, Insert(t) PROVE LockHeld'
    BY <1>7 DEF Insert
<1>8. ASSUME NEW t \in Tasks, Commit(t) PROVE LockHeld'
    BY <1>8 DEF Commit
<1>9. ASSUME NEW t \in Tasks, Fault(t) PROVE LockHeld'
    BY <1>9 DEF Fault
<1>10. ASSUME NEW q \in Processes, Crash(q) PROVE LockHeld'
    BY <1>10 DEF Crash
<1>11. CASE UNCHANGED vars
    BY <1>11 DEF vars
<1> QED
    BY <1>1, <1>2, <1>3, <1>4, <1>5, <1>6, <1>7, <1>8, <1>9, <1>10, <1>11
       DEF Next, Emit

\* In one process nobody appends while a task is between check and insert.
LEMMA LinkStep ==
    ASSUME SingleProcess, TypeInv, LockHeld, InsertLinks, [Next]_vars
    PROVE  InsertLinks'
<1> USE ProcessAssumption, NoneAssumption
        DEF TypeInv, TypeOK, LockHeld, Locked, InsertLinks, Acquire, Release, End
<1>0. \A t, u \in Tasks : ProcessOf[t] = ProcessOf[u]
    BY DEF SingleProcess
<1>a. UNCHANGED <<log, pending>> => \A q : Tip(q)' = Tip(q)
    BY DEF Tip, View
<1>1. ASSUME NEW t \in Tasks, Act(t) PROVE InsertLinks'
    BY <1>1, <1>a DEF Act
<1>2. ASSUME NEW t \in Tasks, LockForTip(t) PROVE InsertLinks'
    BY <1>2, <1>a DEF LockForTip
<1>3. ASSUME NEW t \in Tasks, ReadTip(t) PROVE InsertLinks'
    BY <1>3, <1>a DEF ReadTip
<1>4. ASSUME NEW t \in Tasks, LockForAppend(t) PROVE InsertLinks'
    BY <1>4, <1>a DEF LockForAppend
<1>5. ASSUME NEW t \in Tasks, TipMatches(t) PROVE InsertLinks'
    BY <1>5, <1>a DEF TipMatches
<1>6. ASSUME NEW t \in Tasks, ChainError(t) PROVE InsertLinks'
    BY <1>6, <1>a DEF ChainError
<1>7. ASSUME NEW t \in Tasks, Insert(t) \/ Commit(t) PROVE InsertLinks'
    <2>1. \A u \in Tasks \ {t} : pc[u] # "insert"
        \* Whoever else were there would hold the lock that t holds.
        <3>1. pc[t] \in Locked
            BY <1>7 DEF Insert, Commit
        <3> QED BY <3>1, <1>0
    <2>2. pc'[t] # "insert" /\ \A u \in Tasks \ {t} : pc'[u] = pc[u]
        BY <1>7 DEF Insert, Commit
    <2> QED BY <2>1, <2>2
<1>8. ASSUME NEW t \in Tasks, Fault(t) PROVE InsertLinks'
    <2>1. CASE pc[t] \in Locked
        <3>1. \A u \in Tasks : pc'[u] # "insert"
            BY <1>8, <1>0, <2>1 DEF Fault
        <3> QED BY <3>1
    <2>2. CASE pc[t] \notin Locked
        <3>1. UNCHANGED <<log, pending>>
            BY <1>8, <2>2 DEF Fault
        <3> QED BY <1>8, <1>a, <3>1 DEF Fault
    <2> QED BY <2>1, <2>2
<1>9. ASSUME NEW q \in Processes, Crash(q) PROVE InsertLinks'
    <2>1. \A u \in Tasks : pc'[u] = "idle"
        BY <1>9 DEF Crash, SingleProcess
    <2> QED BY <2>1
<1>10. CASE UNCHANGED vars
    BY <1>10, <1>a DEF vars
<1> QED
    BY <1>1, <1>2, <1>3, <1>4, <1>5, <1>6, <1>7, <1>8, <1>9, <1>10 DEF Next, Emit

\* In one process the lock makes append()'s check and insert one step.
LEMMA ChainStep ==
    ASSUME SingleProcess
    PROVE  TypeInv /\ ChainInv /\ [Next]_vars => ChainInv'
<1> SUFFICES ASSUME TypeInv, ChainInv, [Next]_vars PROVE ChainInv'
    OBVIOUS
<1>1. LockHeld' /\ InsertLinks'
    BY LockStep, LinkStep DEF ChainInv
<1>2. \A q \in Processes : View(q) \in Seq(Receipts) /\ Linked(View(q)) /\ Linked(log)
    BY ViewType, LogLinks DEF ChainInv, ChainLinked, Linked, TypeInv
<1>3. ASSUME NEW q \in Processes PROVE Linked(View(q)')
    <2>1. ASSUME NEW t \in Tasks, pc[t] = "insert", ProcessOf[t] = q
          PROVE  Linked(Append(View(q), Row(t)))
        <3>1. Row(t).prev = Last(View(q)) /\ Row(t) \in Receipts
            BY <2>1, RowType DEF ChainInv, InsertLinks, Tip, Last, Row
        <3> QED BY <1>2, <3>1, AppendLinks
    <2> QED BY <1>2, <2>1, ViewStep
<1>4. ChainLinked'
    BY <1>3 DEF ChainLinked, Linked
<1> QED BY <1>1, <1>4 DEF ChainInv

\* The empty log is linked.
LEMMA ChainInit == Init => ChainInv
<1> SUFFICES ASSUME Init PROVE ChainInv
    OBVIOUS
<1>1. \A q \in Processes : Len(View(q)) = 0
    BY ViewType, TypeInit DEF TypeInv, Init
<1> QED BY <1>1 DEF Init, ChainInv, LockHeld, Locked, InsertLinks, ChainLinked

\* When one process writes the log, verify_chain() passes at every instant,
\* whatever the interleaving of emissions, errors, cancellations and crashes.
THEOREM ChainSound ==
    ASSUME SingleProcess
    PROVE  Spec => []ChainLinked
<1>1. TypeInv /\ ChainInv /\ [Next]_vars => (TypeInv /\ ChainInv)'
    BY TypeStep, ChainStep
<1>2. ChainInv => ChainLinked
    BY DEF ChainInv
<1> QED
    BY TypeInit, ChainInit, <1>1, <1>2, PTL DEF Spec

-----------------------------------------------------------------------------
\* Actions are numbered as they are done, and held by one task at a time.
ActionsFresh ==
    /\ \A t \in Tasks : act[t] # None => act[t] <= actions
    /\ \A q \in Processes : \A i \in 1..Len(View(q)) : View(q)[i].hash <= actions
    /\ \A t, u \in Tasks : act[t] # None /\ act[t] = act[u] => t = u

OnceInv == ActionsFresh /\ ReceiptedOnce

Distinct(rows) ==
    \A i, j \in 1..Len(rows) : rows[i].hash = rows[j].hash => i = j

\* A task takes up a new action when it is idle, forgets the one it has, or
\* keeps it, and does not leave the COMMIT with it.
LEMMA ActStep ==
    ASSUME TypeInv, [Next]_vars
    PROVE  \/ /\ actions' = actions
              /\ \A u \in Tasks :
                    \/ act'[u] = None
                    \/ act'[u] = act[u] /\ (pc[u] = "commit" => pc'[u] = "commit")
           \/ /\ actions' = actions + 1 /\ UNCHANGED <<log, pending>>
              /\ \E t \in Tasks : /\ act'[t] = actions + 1
                                  /\ pc[t] # "commit"
                                  /\ \A u \in Tasks \ {t} : act'[u] = act[u] /\ pc'[u] = pc[u]
<1> USE DEF TypeInv, TypeOK, End
<1>1. ASSUME NEW t \in Tasks, Act(t)
      PROVE  /\ actions' = actions + 1 /\ UNCHANGED <<log, pending>>
             /\ act'[t] = actions + 1 /\ pc[t] # "commit"
             /\ \A u \in Tasks \ {t} : act'[u] = act[u] /\ pc'[u] = pc[u]
    BY <1>1 DEF Act
<1> DEFINE Kept ==
        /\ actions' = actions
        /\ \A u \in Tasks :
              \/ act'[u] = None
              \/ act'[u] = act[u] /\ (pc[u] = "commit" => pc'[u] = "commit")
<1>2. ASSUME NEW t \in Tasks, Emit(t) PROVE Kept
    BY <1>2 DEF Emit, LockForTip, ReadTip, LockForAppend, TipMatches, ChainError,
       Insert, Commit
<1>3. ASSUME NEW t \in Tasks, Fault(t) PROVE Kept
    BY <1>3 DEF Fault
<1>4. ASSUME NEW q \in Processes, Crash(q) PROVE Kept
    BY <1>4 DEF Crash
<1>5. CASE UNCHANGED vars
    BY <1>5 DEF vars
<1> QED BY <1>1, <1>2, <1>3, <1>4, <1>5 DEF Next

\* A receipt is written by the one task that holds its action, which then
\* forgets it.
LEMMA OnceStep == TypeInv /\ OnceInv /\ [Next]_vars => OnceInv'
<1> SUFFICES ASSUME TypeInv, OnceInv, [Next]_vars PROVE OnceInv'
    OBVIOUS
<1> USE NoneAssumption
<1>1. /\ actions \in Nat
      /\ \A t \in Tasks : act[t] \in Nat \union {None}
      /\ \A t \in Tasks : pc[t] # "idle" => act[t] \in Nat /\ act[t] # None
    BY BoundsAssumption DEF TypeInv, TypeOK, Actions
<1>2. ASSUME NEW q \in Processes
      PROVE  /\ View(q) \in Seq(Receipts) /\ log \in Seq(Receipts)
             /\ Len(View(q)) \in Nat /\ Len(log) \in Nat
             /\ \A i \in 1..Len(View(q)) : View(q)[i].hash \in Nat
             /\ \A i \in 1..Len(log) : i \in 1..Len(View(q)) /\ View(q)[i] = log[i]
    <2>1. /\ View(q) \in Seq(Receipts) /\ log \in Seq(Receipts)
          /\ pending[q] \in Seq(Receipts)
          /\ Len(View(q)) = Len(log) + Len(pending[q])
          /\ \A i \in 1..Len(log) : View(q)[i] = log[i]
        BY ViewType DEF TypeInv
    <2>2. \A r \in Receipts : r.hash \in Nat
        BY BoundsAssumption DEF Receipts, Actions
    <2>3. \A i \in 1..Len(View(q)) : View(q)[i] \in Receipts
        BY <2>1
    <2>4. Len(log) \in Nat /\ Len(pending[q]) \in Nat
        BY <2>1
    <2> QED BY <2>1, <2>2, <2>3, <2>4
\* What is read after the step: rows read before it, and at most one more.
<1>3. ASSUME NEW q \in Processes
      PROVE  \/ \E p \in Processes : View(q)' = View(p)
             \/ View(q)' = log
             \/ \E t \in Tasks :
                   /\ pc[t] = "insert" /\ (pc'[t] = "commit" \/ act'[t] = None)
                   /\ Len(View(q)') = Len(View(q)) + 1
                   /\ \A i \in 1..Len(View(q)) : View(q)'[i] = View(q)[i]
                   /\ View(q)'[Len(View(q)) + 1].hash = act[t]
    <2>1. ASSUME NEW t \in Tasks, pc[t] = "insert", View(q)' = Append(View(q), Row(t))
          PROVE  /\ Len(View(q)') = Len(View(q)) + 1
                 /\ \A i \in 1..Len(View(q)) : View(q)'[i] = View(q)[i]
                 /\ View(q)'[Len(View(q)) + 1].hash = act[t]
        <3>1. Row(t) \in Receipts /\ Row(t).hash = act[t]
            BY <2>1, RowType DEF Row
        <3> QED BY <1>2, <2>1, <3>1
    <2> QED BY <2>1, ViewStep
<1>4. /\ \A t \in Tasks : act[t] # None => act[t] <= actions
      /\ \A q \in Processes : \A i \in 1..Len(View(q)) : View(q)[i].hash <= actions
      /\ \A t, u \in Tasks : act[t] # None /\ act[t] = act[u] => t = u
      /\ \A q \in Processes : Distinct(View(q))
      /\ \A q \in Processes : \A t \in Tasks, i \in 1..Len(View(q)) :
            pc[t] # "commit" => View(q)[i].hash # act[t]
    BY DEF OnceInv, ActionsFresh, ReceiptedOnce, Distinct
<1>5. actions' \in Nat /\ actions <= actions'
    BY <1>1, ActStep
<1>6. \A t \in Tasks : act'[t] # None => act'[t] <= actions'
    BY <1>1, <1>4, ActStep
<1>7. \A t, u \in Tasks : act'[t] # None /\ act'[t] = act'[u] => t = u
    BY <1>1, <1>4, ActStep
<1>8. ASSUME NEW q \in Processes, NEW i \in 1..Len(View(q)')
      PROVE  View(q)'[i].hash <= actions'
    <2>1. ASSUME NEW p \in Processes, View(q)' = View(p) \/ View(q)' = log
          PROVE  View(q)'[i].hash <= actions'
        BY <1>1, <1>2, <1>4, <1>5, <2>1
    <2>2. ASSUME NEW t \in Tasks, pc[t] = "insert",
                 Len(View(q)') = Len(View(q)) + 1,
                 \A j \in 1..Len(View(q)) : View(q)'[j] = View(q)[j],
                 View(q)'[Len(View(q)) + 1].hash = act[t]
          PROVE  View(q)'[i].hash <= actions'
        <3>1. i \in 1..Len(View(q)) \/ i = Len(View(q)) + 1
            BY <1>2, <2>2
        <3> QED BY <1>1, <1>2, <1>4, <1>5, <2>2, <3>1
    <2> QED BY <1>3, <2>1, <2>2
<1>9. ASSUME NEW q \in Processes PROVE Distinct(View(q)')
    <2>1. ASSUME NEW p \in Processes, View(q)' = View(p) \/ View(q)' = log
          PROVE  Distinct(View(q)')
        BY <1>2, <1>4, <2>1 DEF Distinct
    <2>2. ASSUME NEW t \in Tasks, pc[t] = "insert",
                 Len(View(q)') = Len(View(q)) + 1,
                 \A j \in 1..Len(View(q)) : View(q)'[j] = View(q)[j],
                 View(q)'[Len(View(q)) + 1].hash = act[t]
          PROVE  Distinct(View(q)')
        <3>1. \A i \in 1..Len(View(q)') : i \in 1..Len(View(q)) \/ i = Len(View(q)) + 1
            BY <1>2, <2>2
        <3>2. \A i \in 1..Len(View(q)) : View(q)[i].hash # act[t]
            BY <1>4, <2>2
        <3> QED BY <1>4, <2>2, <3>1, <3>2 DEF Distinct
    <2> QED BY <1>3, <2>1, <2>2
<1>10. ASSUME NEW q \in Processes, NEW u \in Tasks, NEW i \in 1..Len(View(q)'),
              pc'[u] # "commit"
       PROVE  View(q)'[i].hash # act'[u]
    <2>1. CASE act'[u] = act[u] /\ pc[u] # "commit" /\ act[u] # None
        <3>1. ASSUME NEW p \in Processes, View(q)' = View(p) \/ View(q)' = log
              PROVE  View(q)'[i].hash # act'[u]
            BY <1>2, <1>4, <2>1, <3>1
        <3>2. ASSUME NEW t \in Tasks, pc[t] = "insert",
                     pc'[t] = "commit" \/ act'[t] = None,
                     Len(View(q)') = Len(View(q)) + 1,
                     \A j \in 1..Len(View(q)) : View(q)'[j] = View(q)[j],
                     View(q)'[Len(View(q)) + 1].hash = act[t]
              PROVE  View(q)'[i].hash # act'[u]
            <4>1. i \in 1..Len(View(q)) \/ i = Len(View(q)) + 1
                BY <1>2, <3>2
            <4>2. u # t
                BY <1>10, <2>1, <3>2
            <4> QED BY <1>1, <1>4, <2>1, <3>2, <4>1, <4>2
        <3> QED BY <1>3, <3>1, <3>2
    <2>2. CASE act'[u] = None
        <3>1. ASSUME NEW p \in Processes, View(q)' = View(p) \/ View(q)' = log
              PROVE  View(q)'[i].hash \in Nat
            BY <1>2, <3>1
        <3>2. ASSUME NEW t \in Tasks, pc[t] = "insert",
                     Len(View(q)') = Len(View(q)) + 1,
                     \A j \in 1..Len(View(q)) : View(q)'[j] = View(q)[j],
                     View(q)'[Len(View(q)) + 1].hash = act[t]
              PROVE  View(q)'[i].hash \in Nat
            <4>1. i \in 1..Len(View(q)) \/ i = Len(View(q)) + 1
                BY <1>2, <3>2
            <4> QED BY <1>1, <1>2, <3>2, <4>1
        <3> QED BY <1>3, <2>2, <3>1, <3>2
    <2>3. CASE UNCHANGED <<log, pending>> /\ act'[u] = actions + 1
        <3>1. View(q)' = View(q)
            BY <2>3 DEF View
        <3> QED BY <1>1, <1>2, <1>4, <2>3, <3>1
    <2> QED BY <1>10, <2>1, <2>2, <2>3, ActStep
<1>11. ActionsFresh'
    BY <1>6, <1>7, <1>8 DEF ActionsFresh
<1>12. ReceiptedOnce'
    BY <1>9, <1>10 DEF ReceiptedOnce, Distinct
<1> QED BY <1>11, <1>12 DEF OnceInv

LEMMA OnceInit == Init => OnceInv
<1> SUFFICES ASSUME Init PROVE OnceInv
    OBVIOUS
<1>1. \A q \in Processes : Len(View(q)) = 0
    BY ViewType, TypeInit DEF TypeInv, Init
<1> QED BY <1>1 DEF Init, OnceInv, ActionsFresh, ReceiptedOnce

\* No action is receipted twice, across processes, failures and crashes.
THEOREM Once == Spec => []ReceiptedOnce
<1>1. TypeInv /\ OnceInv /\ [Next]_vars => (TypeInv /\ OnceInv)'
    BY TypeStep, OnceStep
<1>2. OnceInv => ReceiptedOnce
    BY DEF OnceInv
<1> QED
    BY TypeInit, OnceInit, <1>1, <1>2, PTL DEF Spec

-----------------------------------------------------------------------------
(* The refinement of Ledger.                                               *)

Book     == [i \in 1..Len(View(Writer)) |-> View(Writer)[i].hash]
Asked    == InPhase({"tip", "tipRead"})
Settling == InPhase({"commit"})

Receipt(t) == [action |-> act[t], after |-> prev[t]]

OwnAsked(t)    == IF pc[t] \in {"tip", "tipRead"} THEN {act[t]} ELSE {}
OwnDraft(t)    == IF pc[t] \in {"append", "check", "insert"} THEN {Receipt(t)} ELSE {}
OwnSettling(t) == IF pc[t] = "commit" THEN {act[t]} ELSE {}

LEMMA TheWriter ==
    ASSUME SingleProcess
    PROVE  Writer \in Processes /\ Processes = {Writer}
           /\ \A t \in Tasks : ProcessOf[t] = Writer
BY ProcessAssumption DEF SingleProcess, Writer

\* The book has the hashes of the rows the process reads, and ends at its tip.
LEMMA BookSeq ==
    ASSUME SingleProcess, TypeOK
    PROVE  /\ Book \in Seq(Actions) /\ Len(Book) = Len(View(Writer))
           /\ \A i \in 1..Len(View(Writer)) : Book[i] = View(Writer)[i].hash
           /\ L!End = Tip(Writer)
<1>1. View(Writer) \in Seq(Receipts) /\ Len(View(Writer)) \in Nat
    BY TheWriter, ViewType
<1>2. \A i \in 1..Len(View(Writer)) : View(Writer)[i].hash \in Actions
    <2>1. \A i \in 1..Len(View(Writer)) : View(Writer)[i] \in Receipts
        BY <1>1
    <2> QED BY <2>1 DEF Receipts
<1>3. Book \in [1..Len(View(Writer)) -> Actions]
    BY <1>2 DEF Book
<1>4. /\ Book \in Seq(Actions) /\ Len(Book) = Len(View(Writer))
      /\ \A i \in 1..Len(View(Writer)) : Book[i] = View(Writer)[i].hash
    BY <1>1, <1>3, SeqDef DEF Book
<1>5. Book = <<>> <=> View(Writer) = <<>>
    BY <1>1, <1>4
<1>6. View(Writer) # <<>> => Len(View(Writer)) \in 1..Len(View(Writer))
    BY <1>1
<1>7. L!End = IF Book = <<>> THEN None ELSE Book[Len(Book)]
    BY DEF L!End, Book
<1> QED BY <1>4, <1>5, <1>6, <1>7 DEF Tip

LEMMA BookSeqNext ==
    ASSUME SingleProcess, TypeOK'
    PROVE  /\ Book' \in Seq(Actions) /\ Len(Book') = Len(View(Writer)')
           /\ \A i \in 1..Len(View(Writer)') : Book'[i] = View(Writer)'[i].hash
<1>1. /\ Writer \in Processes /\ log' \in Seq(Receipts)
      /\ pending' \in [Processes -> Seq(Receipts)]
    BY TheWriter DEF TypeOK
<1>2. View(Writer)' \in Seq(Receipts) /\ Len(View(Writer)') \in Nat
    BY <1>1 DEF View
<1>3. \A i \in 1..Len(View(Writer)') : View(Writer)'[i].hash \in Actions
    <2>1. \A i \in 1..Len(View(Writer)') : View(Writer)'[i] \in Receipts
        BY <1>2
    <2> QED BY <2>1 DEF Receipts
<1>4. Book' \in [1..Len(View(Writer)') -> Actions]
    BY <1>3 DEF Book
<1> QED BY <1>2, <1>4, SeqDef DEF Book

\* The rows the process reads change as the book does.
LEMMA BookAppends ==
    ASSUME SingleProcess, TypeInv, TypeOK', NEW t \in Tasks, pc[t] # "idle",
           View(Writer)' = Append(View(Writer), Row(t))
    PROVE  Book' = Append(Book, act[t])
<1>1. Row(t) \in Receipts /\ Row(t).hash = act[t] /\ act[t] \in Actions
    BY RowType DEF Row, TypeInv
<1>2. View(Writer) \in Seq(Receipts) /\ Len(View(Writer)) \in Nat
    BY TheWriter, ViewType DEF TypeInv
<1>3. /\ Len(View(Writer)') = Len(View(Writer)) + 1
      /\ \A i \in 1..Len(View(Writer)) : View(Writer)'[i] = View(Writer)[i]
      /\ View(Writer)'[Len(View(Writer)) + 1] = Row(t)
    BY <1>1, <1>2
<1>4. /\ Book \in Seq(Actions) /\ Len(Book) = Len(View(Writer))
      /\ \A i \in 1..Len(View(Writer)) : Book[i] = View(Writer)[i].hash
    BY BookSeq DEF TypeInv
<1>5. /\ Book' \in Seq(Actions) /\ Len(Book') = Len(View(Writer)')
      /\ \A i \in 1..Len(View(Writer)') : Book'[i] = View(Writer)'[i].hash
    BY BookSeqNext
<1>6. /\ Append(Book, act[t]) \in Seq(Actions)
      /\ Len(Append(Book, act[t])) = Len(Book')
      /\ \A i \in 1..Len(Book') :
            Append(Book, act[t])[i] = IF i = Len(Book) + 1 THEN act[t] ELSE Book[i]
    BY <1>1, <1>3, <1>4, <1>5
<1>7. \A i \in 1..Len(Book') : Book'[i] = Append(Book, act[t])[i]
    BY <1>1, <1>2, <1>3, <1>4, <1>5, <1>6
<1> QED BY <1>5, <1>6, <1>7, SeqEqual

LEMMA BookCuts ==
    ASSUME SingleProcess, TypeInv, TypeOK', View(Writer)' = log
    PROVE  Book' = SubSeq(Book, 1, Len(log))
<1>1. /\ Len(log) \in Nat /\ Len(View(Writer)) \in Nat /\ Len(log) <= Len(View(Writer))
      /\ \A i \in 1..Len(log) : View(Writer)[i] = log[i]
    <2>1. Len(View(Writer)) = Len(log) + Len(pending[Writer])
          /\ log \in Seq(Receipts) /\ pending[Writer] \in Seq(Receipts)
          /\ \A i \in 1..Len(log) : View(Writer)[i] = log[i]
        BY TheWriter, ViewType DEF TypeInv
    <2>2. Len(log) \in Nat /\ Len(pending[Writer]) \in Nat
        BY <2>1
    <2> QED BY <2>1, <2>2
<1>2. /\ Book \in Seq(Actions) /\ Len(Book) = Len(View(Writer))
      /\ \A i \in 1..Len(View(Writer)) : Book[i] = View(Writer)[i].hash
    BY BookSeq DEF TypeInv
<1>3. /\ Book' \in Seq(Actions) /\ Len(Book') = Len(log)
      /\ \A i \in 1..Len(log) : Book'[i] = log[i].hash
    BY BookSeqNext
<1>4. /\ SubSeq(Book, 1, Len(log)) \in Seq(Actions)
      /\ Len(SubSeq(Book, 1, Len(log))) = Len(log)
      /\ \A i \in 1..Len(log) : SubSeq(Book, 1, Len(log))[i] = Book[i]
    <2>1. \A i \in 1..Len(log) : Book[i] \in Actions
        BY <1>1, <1>2
    <2>2. IF 1 <= Len(log) THEN Len(log) - 1 + 1 = Len(log) ELSE Len(log) = 0
        BY <1>1
    <2>3. \A i \in 1..Len(log) : i \in 1..(Len(log) - 1 + 1) /\ 1 + i - 1 = i
        BY <1>1
    <2> QED BY <1>1, <2>1, <2>2, <2>3, SubSeqProperties
<1>5. \A i \in 1..Len(log) : Book'[i] = SubSeq(Book, 1, Len(log))[i]
    BY <1>1, <1>2, <1>3, <1>4
<1> QED BY <1>3, <1>4, <1>5, SeqEqual

\* The sets of the book: those of the other tasks, and the task's own.
LEMMA OneTask ==
    ASSUME NEW t \in Tasks,
           \A u \in Tasks \ {t} : pc'[u] = pc[u] /\ act'[u] = act[u] /\ prev'[u] = prev[u],
           \A u \in Tasks : act[u] = act[t] /\ pc[t] # "idle" => u = t
    PROVE  \E A, D, S :
              /\ Asked = A \union OwnAsked(t) /\ Asked' = A \union OwnAsked(t)'
              /\ Signed = D \union OwnDraft(t) /\ Signed' = D \union OwnDraft(t)'
              /\ Settling = S \union OwnSettling(t)
              /\ Settling' = S \union OwnSettling(t)'
              /\ pc[t] # "idle" =>
                    act[t] \notin A /\ Receipt(t) \notin D /\ act[t] \notin S
<1> DEFINE others == Tasks \ {t}
           A == {act[u] : u \in {v \in others : pc[v] \in {"tip", "tipRead"}}}
           D == {Receipt(u) : u \in {v \in others : pc[v] \in {"append", "check", "insert"}}}
           S == {act[u] : u \in {v \in others : pc[v] = "commit"}}
<1>1. Asked = A \union OwnAsked(t) /\ Asked' = A \union OwnAsked(t)'
    BY DEF Asked, InPhase, OwnAsked
<1>2. Signed = D \union OwnDraft(t) /\ Signed' = D \union OwnDraft(t)'
    BY DEF Signed, OwnDraft, Receipt
<1>3. Settling = S \union OwnSettling(t) /\ Settling' = S \union OwnSettling(t)'
    BY DEF Settling, InPhase, OwnSettling
<1>4. \A u \in others : Receipt(u) = Receipt(t) => act[u] = act[t]
    BY DEF Receipt
<1>5. pc[t] # "idle" => act[t] \notin A /\ Receipt(t) \notin D /\ act[t] \notin S
    BY <1>4
<1> HIDE DEF A, D, S
<1> QED BY <1>1, <1>2, <1>3, <1>5

\* The log starts as an empty book.
LEMMA LedgerInit ==
    ASSUME SingleProcess
    PROVE  Init => L!Init
<1> SUFFICES ASSUME Init PROVE L!Init
    OBVIOUS
<1>1. View(Writer) = <<>>
    BY TheWriter, ConcatEmptySeq, EmptySeq DEF Init, View
<1>2. Book = <<>> /\ Len(log) = 0
    BY <1>1, TypeInit, BookSeq DEF TypeInv, Init
<1>3. Asked = {} /\ Signed = {} /\ Settling = {}
    BY DEF Init, Asked, InPhase, Signed, Settling
<1> QED BY <1>2, <1>3 DEF L!Init, Init, Book, Asked, Settling

\* What the book's actions say, in the names above.
LEMMA BookActions ==
    /\ \A a : L!Draft(a) <=>
          /\ a \in Asked /\ Asked' = Asked \ {a}
          /\ Signed' = Signed \union {[action |-> a, after |-> L!End]}
          /\ Book' = Book /\ Len(log)' = Len(log) /\ Settling' = Settling
          /\ faults' = faults /\ crashes' = crashes
    /\ \A d : L!Enter(d) <=>
          /\ d.after = L!End /\ Book' = Append(Book, d.action)
          /\ Signed' = Signed \ {d} /\ Settling' = Settling \union {d.action}
          /\ Len(log)' = Len(log) /\ Asked' = Asked
          /\ faults' = faults /\ crashes' = crashes
    /\ \A d : L!Fail(d) <=>
          /\ d.after # L!End /\ Signed' = Signed \ {d}
          /\ Book' = Book /\ Len(log)' = Len(log) /\ Asked' = Asked
          /\ Settling' = Settling /\ faults' = faults /\ crashes' = crashes
    /\ \A a : L!Keep(a) <=>
          /\ a \in Settling /\ Len(log)' = Len(Book) /\ Settling' = Settling \ {a}
          /\ Book' = Book /\ Asked' = Asked /\ Signed' = Signed
          /\ faults' = faults /\ crashes' = crashes
    /\ \A a : L!AbandonAsked(a) <=>
          /\ Asked' = Asked \ {a} /\ faults' = faults + 1
          /\ Book' = Book /\ Len(log)' = Len(log) /\ Signed' = Signed
          /\ Settling' = Settling /\ crashes' = crashes
    /\ \A d : L!AbandonDraft(d) <=>
          /\ Signed' = Signed \ {d} /\ faults' = faults + 1
          /\ \/ Book' = Book
             \/ d.after = L!End /\ Book' = Append(Book, d.action)
          /\ Len(log)' = Len(log) /\ Asked' = Asked
          /\ Settling' = Settling /\ crashes' = crashes
    /\ \A a : L!AbandonEntered(a) <=>
          /\ Settling' = Settling \ {a} /\ faults' = faults + 1
          /\ \/ Book' = Book /\ Len(log)' = Len(log)
             \/ Len(log)' = Len(Book) /\ Book' = Book
             \/ Book' = SubSeq(Book, 1, Len(log)) /\ Len(log)' = Len(log)
          /\ Asked' = Asked /\ Signed' = Signed /\ crashes' = crashes
    /\ L!Die <=>
          /\ Asked' = {} /\ Signed' = {} /\ Settling' = {}
          /\ Book' = SubSeq(Book, 1, Len(log)) /\ Len(log)' = Len(log)
          /\ crashes' = crashes + 1 /\ faults' = faults
BY DEF L!Draft, L!Enter, L!Fail, L!Keep, L!AbandonAsked, L!AbandonDraft,
       L!AbandonEntered, L!Die, L!Keeps, Book, Asked, Settling

\* Every step of the log is a step of the book or leaves it alone.
LEMMA LedgerStep ==
    ASSUME SingleProcess, TypeInv, TypeInv', ChainInv, OnceInv, [Next]_vars
    PROVE  [L!Next]_(L!vars)
<1>1. UNCHANGED <<log, pending>> =>
          View(Writer)' = View(Writer) /\ Book' = Book /\ Len(log)' = Len(log)
    BY DEF View, Book
<1>2. ASSUME NEW t \in Tasks, pc[t] # "idle"
      PROVE  /\ act[t] \in Actions
             /\ \A u \in Tasks : act[u] = act[t] => u = t
    BY <1>2, NoneAssumption DEF TypeInv, OnceInv, ActionsFresh, Actions
<1>3. L!End = Tip(Writer) /\ Len(Book) = Len(View(Writer))
    BY BookSeq DEF TypeInv
<1>4. ASSUME NEW t \in Tasks, Act(t) PROVE L!Next
    <2> DEFINE a == actions + 1
    <2>1. /\ pc[t] = "idle" /\ a \in Actions
          /\ pc' = [pc EXCEPT ![t] = "tip"] /\ act' = [act EXCEPT ![t] = a]
          /\ UNCHANGED <<log, pending, prev, faults, crashes>>
        BY <1>4, BoundsAssumption DEF Act, Actions, TypeInv, TypeOK
    <2>2. \A i \in 1..Len(Book) : Book[i] # a
        <3>1. actions \in Nat /\ \A i \in 1..Len(View(Writer)) : View(Writer)[i].hash <= actions
            BY TheWriter DEF OnceInv, ActionsFresh, TypeInv, TypeOK
        <3>2. \A i \in 1..Len(Book) : Book[i] = View(Writer)[i].hash /\ Book[i] \in Nat
            <4>1. Book \in Seq(Actions) /\ \A i \in 1..Len(View(Writer)) : Book[i] = View(Writer)[i].hash
                BY BookSeq DEF TypeInv
            <4>2. \A i \in 1..Len(Book) : Book[i] \in Actions
                BY <4>1
            <4> QED BY <1>3, <4>1, <4>2, BoundsAssumption DEF Actions
        <3> QED BY <1>3, <3>1, <3>2
    <2>3. \A u \in Tasks : act[u] # a
        BY <2>1, NoneAssumption DEF OnceInv, ActionsFresh, Actions, TypeInv, TypeOK
    <2> HIDE DEF a
    <2>4. a \notin L!Open
        BY <2>3 DEF L!Open, InPhase, Signed
    <2>5. PICK A, D, S :
              /\ Asked = A \union OwnAsked(t) /\ Asked' = A \union OwnAsked(t)'
              /\ Signed = D \union OwnDraft(t) /\ Signed' = D \union OwnDraft(t)'
              /\ Settling = S \union OwnSettling(t)
              /\ Settling' = S \union OwnSettling(t)'
        BY <2>1, OneTask DEF TypeInv, TypeOK
    <2>6. /\ OwnAsked(t) = {} /\ OwnDraft(t) = {} /\ OwnSettling(t) = {}
          /\ OwnAsked(t)' = {a} /\ OwnDraft(t)' = {} /\ OwnSettling(t)' = {}
        BY <2>1 DEF OwnAsked, OwnDraft, OwnSettling, TypeInv, TypeOK
    <2>7. L!Ask(a)
        BY <1>1, <2>1, <2>2, <2>4, <2>5, <2>6 DEF L!Ask, Book, Asked, Settling
    <2> QED BY <2>1, <2>7 DEF L!Next
\* The other steps of a task that emits move its own receipt only.
<1>5. ASSUME NEW t \in Tasks, Emit(t) \/ Fault(t) PROVE [L!Next]_(L!vars)
    <2>1. /\ pc[t] # "idle" /\ crashes' = crashes
          /\ \A u \in Tasks \ {t} : pc'[u] = pc[u] /\ act'[u] = act[u] /\ prev'[u] = prev[u]
        BY <1>5 DEF Emit, LockForTip, ReadTip, LockForAppend, TipMatches, ChainError,
           Insert, Commit, Fault, End, TypeInv, TypeOK
    <2>2. act[t] \in Actions /\ ProcessOf[t] = Writer
        BY <1>2, <2>1, TheWriter
    <2>3. PICK A, D, S :
              /\ Asked = A \union OwnAsked(t) /\ Asked' = A \union OwnAsked(t)'
              /\ Signed = D \union OwnDraft(t) /\ Signed' = D \union OwnDraft(t)'
              /\ Settling = S \union OwnSettling(t)
              /\ Settling' = S \union OwnSettling(t)'
              /\ act[t] \notin A /\ Receipt(t) \notin D /\ act[t] \notin S
        BY <1>2, <2>1, OneTask
    <2>4. Receipt(t).action = act[t] /\ Receipt(t).after = prev[t]
        BY DEF Receipt
    <2>e. PICK a : a = act[t]
        OBVIOUS
    <2>d. PICK d : d = Receipt(t)
        OBVIOUS
    <2>5. Asked = InPhase({"tip", "tipRead"}) /\ Settling = InPhase({"commit"})
        BY DEF Asked, Settling
    <2> USE DEF OwnAsked, OwnDraft, OwnSettling
    <2>6. ASSUME LockForTip(t) \/ LockForAppend(t) \/ TipMatches(t)
          PROVE  UNCHANGED L!vars
        <3>1. /\ UNCHANGED <<log, pending, act, prev, faults>>
              /\ pc'[t] \in {"tip", "tipRead"} <=> pc[t] \in {"tip", "tipRead"}
              /\ pc'[t] \in {"append", "check", "insert"}
                    <=> pc[t] \in {"append", "check", "insert"}
              /\ pc'[t] # "commit" /\ pc[t] # "commit"
            BY <2>6 DEF LockForTip, LockForAppend, TipMatches, TypeInv, TypeOK
        <3>2. Asked' = Asked /\ Signed' = Signed /\ Settling' = Settling
            BY <2>3, <3>1 DEF Receipt
        <3> QED BY <1>1, <2>1, <2>5, <3>1, <3>2 DEF L!vars, Book, Asked, Settling
    <2>7. ASSUME ReadTip(t) PROVE L!Next
        <3>1. /\ pc[t] = "tipRead" /\ pc'[t] = "append" /\ act'[t] = act[t]
              /\ prev'[t] = Tip(Writer) /\ UNCHANGED <<log, pending, faults>>
            BY <2>2, <2>7 DEF ReadTip, TypeInv, TypeOK
        <3>2. /\ act[t] \in Asked /\ Asked' = Asked \ {act[t]} /\ Settling' = Settling
              /\ Signed' = Signed \union {[action |-> act[t], after |-> L!End]}
            BY <1>3, <2>3, <3>1 DEF Receipt
        <3>3. L!Draft(a)
            BY <1>1, <2>1, <3>1, <3>2, BookActions, <2>e
        <3> QED BY <2>5, <2>e, <3>2, <3>3 DEF L!Next
    <2>8. ASSUME ChainError(t) PROVE L!Next
        <3>1. /\ pc[t] = "check" /\ pc'[t] = "idle" /\ prev[t] # Tip(Writer)
              /\ UNCHANGED <<log, pending, faults>>
            BY <2>2, <2>8 DEF ChainError, End, TypeInv, TypeOK
        <3>2. /\ Receipt(t) \in Signed /\ Signed' = Signed \ {Receipt(t)}
              /\ Asked' = Asked /\ Settling' = Settling
            BY <2>3, <3>1
        <3>3. L!Fail(d)
            BY <1>1, <1>3, <2>1, <2>4, <2>d, <3>1, <3>2, BookActions
        <3> QED BY <2>d, <3>2, <3>3 DEF L!Next
    <2>9. ASSUME Insert(t) PROVE L!Next
        <3>1. /\ pc[t] = "insert" /\ pc'[t] = "commit" /\ act'[t] = act[t]
              /\ InsertRow(t) /\ faults' = faults
            BY <2>9 DEF Insert, TypeInv, TypeOK
        <3>2. View(Writer)' = Append(View(Writer), Row(t)) /\ log' = log
            BY <2>1, <2>2, <3>1, InsertViews
        <3>3. Book' = Append(Book, act[t])
            BY <2>1, <3>2, BookAppends DEF TypeInv
        <3>4. prev[t] = L!End
            BY <1>3, <2>2, <3>1 DEF ChainInv, InsertLinks
        <3>5. /\ Receipt(t) \in Signed /\ Signed' = Signed \ {Receipt(t)}
              /\ Asked' = Asked /\ Settling' = Settling \union {act[t]}
            BY <2>3, <3>1
        <3>6. L!Enter(d)
            BY <2>1, <2>4, <2>d, <3>1, <3>2, <3>3, <3>4, <3>5, BookActions
        <3> QED BY <2>d, <3>5, <3>6 DEF L!Next
    <2>10. ASSUME Commit(t) PROVE L!Next
        <3>1. pc[t] = "commit" /\ pc'[t] = "idle" /\ CommitRows(t) /\ faults' = faults
            BY <2>10 DEF Commit, End, TypeInv, TypeOK
        <3>2. View(Writer)' = View(Writer) /\ Book' = Book /\ Len(log)' = Len(Book)
            BY <1>3, <2>2, <3>1, CommitViews DEF Book
        <3>3. /\ act[t] \in Settling /\ Settling' = Settling \ {act[t]}
              /\ Asked' = Asked /\ Signed' = Signed
            BY <2>3, <3>1
        <3>4. L!Keep(a)
            BY <2>1, <3>1, <3>2, <3>3, BookActions, <2>e
        <3> QED BY <2>5, <2>e, <3>3, <3>4 DEF L!Next
    <2>11. ASSUME Fault(t) PROVE L!Next
        <3>1. /\ pc'[t] = "idle" /\ faults' = faults + 1
              /\ pc[t] \in {"tip", "tipRead", "append", "check", "insert", "commit"}
            BY <2>1, <2>11 DEF Fault, End, Locked, TypeInv, TypeOK
        <3>2. \/ UNCHANGED <<log, pending>>
              \/ pc[t] = "insert" /\ InsertRow(t)
              \/ pc[t] = "commit" /\ CommitRows(t)
              \/ pc[t] = "commit" /\ RollBack(t)
            BY <2>11 DEF Fault
        <3>3. CASE pc[t] \in {"tip", "tipRead"}
            <4>1. UNCHANGED <<log, pending>>
                BY <3>2, <3>3
            <4>2. /\ act[t] \in Asked /\ Asked' = Asked \ {act[t]}
                  /\ Signed' = Signed /\ Settling' = Settling
                BY <2>3, <3>1, <3>3
            <4>3. L!AbandonAsked(a)
                BY <1>1, <2>1, <3>1, <4>1, <4>2, BookActions, <2>e
            <4> QED BY <2>5, <2>e, <4>2, <4>3 DEF L!Next
        <3>4. CASE pc[t] \in {"append", "check", "insert"}
            <4>1. \/ Book' = Book /\ Len(log)' = Len(log)
                  \/ /\ prev[t] = L!End /\ Book' = Append(Book, act[t])
                     /\ Len(log)' = Len(log)
                <5>1. CASE UNCHANGED <<log, pending>>
                    BY <1>1, <5>1
                <5>2. CASE pc[t] = "insert" /\ InsertRow(t)
                    <6>1. View(Writer)' = Append(View(Writer), Row(t)) /\ log' = log
                        BY <2>1, <2>2, <5>2, InsertViews
                    <6>2. Book' = Append(Book, act[t])
                        BY <2>1, <6>1, BookAppends DEF TypeInv
                    <6> QED BY <1>3, <2>2, <5>2, <6>1, <6>2 DEF ChainInv, InsertLinks
                <5> QED BY <3>2, <3>4, <5>1, <5>2
            <4>2. /\ Receipt(t) \in Signed /\ Signed' = Signed \ {Receipt(t)}
                  /\ Asked' = Asked /\ Settling' = Settling
                BY <2>3, <3>1, <3>4
            <4>3. L!AbandonDraft(d)
                BY <2>1, <2>4, <2>d, <3>1, <4>1, <4>2, BookActions
            <4> QED BY <2>d, <4>2, <4>3 DEF L!Next
        <3>5. CASE pc[t] = "commit"
            <4>1. \/ Book' = Book /\ Len(log)' = Len(log)
                  \/ Len(log)' = Len(Book) /\ Book' = Book
                  \/ Book' = SubSeq(Book, 1, Len(log)) /\ Len(log)' = Len(log)
                <5>1. CASE UNCHANGED <<log, pending>>
                    BY <1>1, <5>1
                <5>2. CASE CommitRows(t)
                    BY <1>3, <2>2, <5>2, CommitViews DEF Book
                <5>3. CASE RollBack(t)
                    <6>1. View(Writer)' = log /\ log' = log
                        BY <2>2, <5>3, TheWriter, RollBackViews DEF RollBack
                    <6> QED BY <6>1, BookCuts DEF TypeInv
                <5> QED BY <3>2, <3>5, <5>1, <5>2, <5>3
            <4>2. /\ act[t] \in Settling /\ Settling' = Settling \ {act[t]}
                  /\ Asked' = Asked /\ Signed' = Signed
                BY <2>3, <3>1, <3>5
            <4>3. L!AbandonEntered(a)
                BY <2>1, <3>1, <4>1, <4>2, BookActions, <2>e
            <4> QED BY <2>5, <2>e, <4>2, <4>3 DEF L!Next
        <3> QED BY <3>1, <3>3, <3>4, <3>5
    <2> QED BY <1>5, <2>6, <2>7, <2>8, <2>9, <2>10, <2>11 DEF Emit
<1>6. ASSUME NEW q \in Processes, Crash(q) PROVE L!Next
    <2>1. q = Writer /\ \A t \in Tasks : ProcessOf[t] = q
        BY TheWriter
    <2>2. /\ log' = log /\ pending' = [pending EXCEPT ![q] = <<>>]
          /\ crashes' = crashes + 1 /\ faults' = faults
          /\ \A t \in Tasks : pc'[t] = "idle"
        BY <1>6, <2>1 DEF Crash
    <2>3. Book' = SubSeq(Book, 1, Len(log))
        <3>1. View(Writer)' = log
            BY <2>1, <2>2, RollBackViews
        <3> QED BY <3>1, BookCuts DEF TypeInv
    <2>4. Asked' = {} /\ Signed' = {} /\ Settling' = {}
        BY <2>2 DEF Asked, Settling, InPhase, Signed
    <2>5. L!Die
        BY <2>2, <2>3, <2>4, BookActions
    <2> QED BY <2>5 DEF L!Next
<1>7. CASE UNCHANGED vars
    <2>1. Asked' = Asked /\ Signed' = Signed /\ Settling' = Settling
        BY <1>7 DEF vars, Asked, Settling, InPhase, Signed
    <2> QED BY <1>1, <1>7, <2>1 DEF L!vars, vars, Book, Asked, Settling
<1> QED
    BY <1>4, <1>5, <1>6, <1>7 DEF Next

\* When one process writes the log, it is a compare-and-append book: locks,
\* critical sections and transactions show in nothing but which receipts fail,
\* and a receipt is lost without failing only to a counted failure or death.
THEOREM Refinement ==
    ASSUME SingleProcess
    PROVE  Spec => ImplementsLedger
<1> DEFINE Inv == TypeInv /\ ChainInv /\ OnceInv
<1>1. Init => Inv
    BY TypeInit, ChainInit, OnceInit
<1>2. Inv /\ [Next]_vars => Inv'
    BY TypeStep, ChainStep, OnceStep
<1>3. Inv /\ Inv' /\ [Next]_vars => [L!Next]_(L!vars)
    BY LedgerStep
<1> QED
    BY <1>1, <1>2, <1>3, LedgerInit, PTL DEF Spec, ImplementsLedger, L!Spec
=============================================================================
