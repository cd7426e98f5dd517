SPECIFICATION Spec
CONSTANTS
    Shards = {s1, s2, s3}
    Embeddings <- Vectors
    Goals <- Aims
    Scale = 25
    MaxAge = 1
    Decay <- Fading
    Alpha = 55
    Beta = 25
    Gamma = 20
    L1Threshold = 35
    L2Threshold = 15
    Window = 2
    None = None
SYMMETRY Symmetry
INVARIANTS
    TypeOK
    BatchMatchesScalar
    PeersOnly
    
