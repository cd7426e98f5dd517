SPECIFICATION Spec
CONSTANTS
    Shards = {s1}
    Clients = {c1, c2}
    Pruners = {p1}
    None = None
    MaxVersion = 2
    MaxHits = 0
    MaxFaults = 1
SYMMETRY Actors
INVARIANTS
    LatestFound
