SPECIFICATION Spec
CONSTANTS
    Shards = {s1}
    Clients = {c1, c2}
    Pruners = {p1, p2}
    None = None
    MaxVersion = 1
    MaxHits = 0
    MaxFaults = 1
SYMMETRY Actors
INVARIANTS
    TypeOK
    DurableUnlessClobbered
    MissExplained
    OneTierAtRest
PROPERTIES
    ImplementsMemory
