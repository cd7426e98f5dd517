SPECIFICATION Spec
CONSTANTS
    w1 = w1
    f1 = f1
    f2 = f2
    FlagRules <- FlagPatterns
    WarnRules <- WarnPatterns
    Contents <- Texts
    Shards = {s1}
    Clients = {c1, c2}
    Places = {p1}
    HasScorer = TRUE
    Threshold = 2
    Window = 1
    MaxPuts = 2
    MaxFaults = 1
    None = None
SYMMETRY Actors
INVARIANTS
    TypeOK
    QuarantineHolds
    CoreKept
PROPERTIES
    L1Guarded
    SpikeAlert
