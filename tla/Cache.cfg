SPECIFICATION Spec
CONSTANTS
    Shards = {s1, s2, s3, s4}
    Core = {s1}
    Tasks = {t1, t2, t3}
    Capacity = 2
    MaxNow = 2
    None = None
SYMMETRY TaskSymmetry
INVARIANTS
    TypeOK
    IndexMatchesBlobs
    CapacityAtRest
