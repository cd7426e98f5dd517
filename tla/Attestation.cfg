SPECIFICATION Spec
CONSTANTS
    Tasks = {t1, t2}
    Keys = {k1, k2}
    KeyIds = {i1, i2}
    MaxReceipts = 2
    MaxTroubles = 2
    None = None
SYMMETRY Symmetry
INVARIANTS
    TypeOK
    ReplaySound
    ReplayComplete
    
PROPERTIES
    RotationKeeps
