SPECIFICATION Spec
CONSTANTS
    Shards = {s1}
    Clients = {c1}
    Pruners = {p1}
    None = None
    MaxVersion = 1
    MaxHits = 0
    MaxFaults = 0
INVARIANTS
    AckedNeverLost
