SPECIFICATION Spec
CONSTANTS
    Shards = {s1, s2, s3}
    Core = {s1}
    Tasks = {t1, t2}
    Capacity = 1
    MaxNow = 2
    None = None
PROPERTIES
    CoreNeverEvicted
