SPECIFICATION Spec
CONSTANTS
    t1 = t1
    t2 = t2
    t3 = t3
    q1 = q1
    Tasks <- ThreeTasks
    Processes <- OneProcess
    ProcessOf <- AllInOne
    MaxActions = 5
    MaxFaults = 0
    MaxCrashes = 0
    None = None
INVARIANTS
    EveryActionReceipted
CHECK_DEADLOCK FALSE
