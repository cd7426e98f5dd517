SPECIFICATION FairSpec
CONSTANTS
    Instances = {i1, i2}
    Interval = 2
    TTL = 4
    MaxCycle = 3
    MaxLag = 4
    MaxWritesGap = 1
    MaxPuts = 2
    MaxFaults = 2
    None = None
INVARIANTS
    TypeOK
    AtMostOneCycle
    OvershootBounded
    GapBounded
PROPERTIES
    PressureReleases
