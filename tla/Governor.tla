------------------------------ MODULE Governor ------------------------------
(***************************************************************************)
(* api/controller.py: the UtilityController of each agent process drives   *)
(* its pruner on a schedule, counts the writes since the last cycle and    *)
(* refuses a put() when the pruner seems to be behind.  All processes      *)
(* share one prune lock in Redis: SET NX EX, never renewed and never       *)
(* released, so a lease of TTL ticks.                                      *)
(*                                                                         *)
(* Time is discrete.  Two assumptions about it: an attempt to take the     *)
(* lease lasts less than a tick, and a cycle at most MaxCycle ticks.       *)
(***************************************************************************)
EXTENDS Integers

CONSTANTS
    Instances,     \* agent processes
    Interval,      \* ticks that _schedule_loop() sleeps between two cycles
    TTL,           \* ticks the lease lasts: int(2 * the pruner's interval)
    MaxCycle,      \* the longest cycle
    MaxLag,        \* max_prune_lag_seconds
    MaxWritesGap,  \* max_writes_between_prunes
    MaxPuts,       \* bound: puts in flight in one process
    MaxFaults,     \* bound: errors and crashes in a behaviour
    None           \* "no cycle has completed yet"

ASSUME TimesAssumption ==
    /\ Interval \in Nat \ {0} /\ TTL \in Nat \ {0}
    /\ MaxCycle \in Nat /\ MaxLag \in Nat
ASSUME BoundsAssumption ==
    MaxWritesGap \in Nat /\ MaxPuts \in Nat /\ MaxFaults \in Nat
ASSUME NoneAssumption == None \notin Int

VARIABLES
    lease,    \* remaining life of lethon:prune_lock, 0 if it is not set
    pruning,  \* is the process inside run_once(), holding the lease?
    timer,    \* ticks it has left to sleep, or ticks its cycle has taken
    lag,      \* ticks since _last_prune_ts, or None
    writes,   \* _writes_since_prune
    puts,     \* puts between the back-pressure test and the increment
    idle,     \* history: ticks since a cycle last took the lease
    faults    \* history: errors and crashes so far

vars == <<lease, pruning, timer, lag, writes, puts, idle, faults>>

\* Bound: a lag beyond the budget is not told from one just beyond it.
Lags == 0..(MaxLag + 1)

TypeOK ==
    /\ lease \in 0..TTL
    /\ pruning \in [Instances -> BOOLEAN]
    /\ timer \in [Instances -> Nat]
    /\ lag \in [Instances -> Lags \union {None}]
    /\ writes \in [Instances -> Nat]
    /\ puts \in [Instances -> 0..MaxPuts]
    /\ idle \in Nat
    /\ faults \in 0..MaxFaults

Init ==
    /\ lease = 0
    /\ pruning = [i \in Instances |-> FALSE]
    /\ timer = [i \in Instances |-> 0]
    /\ lag = [i \in Instances |-> None]
    /\ writes = [i \in Instances |-> 0]
    /\ puts = [i \in Instances |-> 0]
    /\ idle = 0
    /\ faults = 0

\* Mutant: one write more than the budget passes the test.
LenientPressure(i) ==
    \/ writes[i] > MaxWritesGap + 1
    \/ lag[i] # None /\ lag[i] > MaxLag

\* _back_pressure_active().  A put() that it refuses changes nothing.
BackPressure(i) ==
    \/ writes[i] > MaxWritesGap
    \/ lag[i] # None /\ lag[i] > MaxLag

\* The schedule loop is about to call run_once().
Due(i) == ~pruning[i] /\ timer[i] = 0

Sleep(i) == timer' = [timer EXCEPT ![i] = Interval]

\* The end of _run_cycle().
Record(i) ==
    /\ lag' = [lag EXCEPT ![i] = 0]
    /\ writes' = [writes EXCEPT ![i] = 0]

Fault == faults < MaxFaults /\ faults' = faults + 1

-----------------------------------------------------------------------------
(* Mutants: slips in the code that the properties below would reveal.      *)

\* SET without NX.
AcquireAlways(i) ==
    /\ Due(i)
    /\ lease' = TTL /\ idle' = 0
    /\ pruning' = [pruning EXCEPT ![i] = TRUE]
    /\ UNCHANGED <<timer, lag, writes, puts, faults>>

\* A contender extends the life of the key it failed to set.
SkipRenews(i) ==
    /\ Due(i) /\ lease > 0
    /\ lease' = TTL
    /\ Record(i)
    /\ Sleep(i)
    /\ UNCHANGED <<pruning, puts, idle, faults>>

\* A skipped cycle returns before the counters are reset.
SkipUnrecorded(i) ==
    /\ Due(i) /\ lease > 0
    /\ Sleep(i)
    /\ UNCHANGED <<lease, pruning, lag, writes, puts, idle, faults>>

\* A failed put takes back a count it has not added.
PutUncounted(i) ==
    /\ puts[i] > 0
    /\ puts' = [puts EXCEPT ![i] = @ - 1]
    /\ writes' = [writes EXCEPT ![i] = @ - 1]
    /\ Fault
    /\ UNCHANGED <<lease, pruning, timer, lag, idle>>

-----------------------------------------------------------------------------
(* put(): the test, the await of MemoryController.put(), the increment.    *)
(* A put that is refused changes nothing.                                  *)

PutStart(i) ==
    /\ ~BackPressure(i) /\ puts[i] < MaxPuts
    /\ puts' = [puts EXCEPT ![i] = @ + 1]
    /\ UNCHANGED <<lease, pruning, timer, lag, writes, idle, faults>>

PutEnd(i) ==
    /\ puts[i] > 0
    /\ puts' = [puts EXCEPT ![i] = @ - 1]
    /\ writes' = [writes EXCEPT ![i] = @ + 1]
    /\ UNCHANGED <<lease, pruning, timer, lag, idle, faults>>

PutError(i) ==
    /\ puts[i] > 0
    /\ puts' = [puts EXCEPT ![i] = @ - 1]
    /\ Fault
    /\ UNCHANGED <<lease, pruning, timer, lag, writes, idle>>

-----------------------------------------------------------------------------
(* The schedule loop.                                                      *)

Acquire(i) ==
    /\ Due(i) /\ lease = 0
    /\ lease' = TTL /\ idle' = 0
    /\ pruning' = [pruning EXCEPT ![i] = TRUE]
    /\ UNCHANGED <<timer, lag, writes, puts, faults>>

\* run_once() returns empty stats, and the cycle counts as one.
Skip(i) ==
    /\ Due(i) /\ lease > 0
    /\ Record(i)
    /\ Sleep(i)
    /\ UNCHANGED <<lease, pruning, puts, idle, faults>>

\* SET raises, and the loop logs it: no cycle, no record.
LockError(i) ==
    /\ Due(i)
    /\ Sleep(i)
    /\ Fault
    /\ UNCHANGED <<lease, pruning, lag, writes, puts, idle>>

CycleEnd(i) ==
    /\ pruning[i]
    /\ pruning' = [pruning EXCEPT ![i] = FALSE]
    /\ Record(i)
    /\ Sleep(i)
    /\ UNCHANGED <<lease, puts, idle, faults>>

CycleError(i) ==
    /\ pruning[i]
    /\ pruning' = [pruning EXCEPT ![i] = FALSE]
    /\ Sleep(i)
    /\ Fault
    /\ UNCHANGED <<lease, lag, writes, puts, idle>>

\* close() or a crash, and a new process: all but the lease is gone.
Restart(i) ==
    /\ pruning' = [pruning EXCEPT ![i] = FALSE]
    /\ timer' = [timer EXCEPT ![i] = 0]
    /\ lag' = [lag EXCEPT ![i] = None]
    /\ writes' = [writes EXCEPT ![i] = 0]
    /\ puts' = [puts EXCEPT ![i] = 0]
    /\ Fault
    /\ UNCHANGED <<lease, idle>>

Tick ==
    /\ \A i \in Instances : ~Due(i) /\ (pruning[i] => timer[i] < MaxCycle)
    /\ lease' = IF lease > 0 THEN lease - 1 ELSE 0
    /\ timer' = [i \in Instances |->
                    IF pruning[i] THEN timer[i] + 1 ELSE timer[i] - 1]
    /\ lag' = [i \in Instances |->
                    IF lag[i] = None \/ lag[i] > MaxLag THEN lag[i]
                    ELSE lag[i] + 1]
    /\ idle' = idle + 1
    /\ UNCHANGED <<pruning, writes, puts, faults>>

Next ==
    \/ \E i \in Instances :
          \/ PutStart(i)
          \/ PutEnd(i)
          \/ PutError(i)
          \/ Acquire(i)
          \/ Skip(i)
          \/ LockError(i)
          \/ CycleEnd(i)
          \/ CycleError(i)
          \/ Restart(i)
    \/ Tick

Spec == Init /\ [][Next]_vars

\* Time passes, and the event loop runs the schedule.  Puts need not end.
FairSpec ==
    /\ Spec
    /\ WF_vars(Tick)
    /\ \A i \in Instances : WF_vars(Acquire(i) \/ Skip(i)) /\ WF_vars(CycleEnd(i))

-----------------------------------------------------------------------------
(* Properties.                                                             *)

\* README: "At-most-one execution across horizontally scaled agents is enforced
\* with a Redis SET NX lock."  True while every cycle is shorter than the lease.
AtMostOneCycle == \A i, j \in Instances : pruning[i] /\ pruning[j] => i = j

\* The back-pressure budget is overshot by no more than the puts in flight: the
\* test and the increment are on two sides of an await.
OvershootBounded ==
    \A i \in Instances : writes[i] + puts[i] <= MaxWritesGap + MaxPuts

\* The lease is not released, and a process that meets its own lease sleeps for
\* a whole interval again; still the time between two cycles, over all
\* processes, stays below TTL + Interval, and each failure adds at most Interval.
GapBounded == idle < TTL + Interval * (1 + faults)

\* A process that refuses writes accepts them again, although other processes
\* may always win the lease.
PressureReleases ==
    \A i \in Instances : BackPressure(i) ~> ~BackPressure(i)
=============================================================================
