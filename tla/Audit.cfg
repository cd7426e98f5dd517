SPECIFICATION FairSpec
CONSTANTS
    t1 = t1
    t2 = t2
    t3 = t3
    q1 = q1
    Tasks <- ThreeTasks
    Processes <- OneProcess
    ProcessOf <- AllInOne
    MaxActions = 4
    MaxFaults = 2
    MaxCrashes = 1
    None = None
INVARIANTS
    TypeOK
    ChainLinked
    ReceiptedOnce
PROPERTIES
    ImplementsLedger
    EmissionsSettle
CHECK_DEADLOCK FALSE
