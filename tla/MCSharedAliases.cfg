SPECIFICATION Spec
CONSTANTS
    Instances = {i1, i2}
    Names = {a}
    NoName = NoName
    Threads = {t1, t2}
    NoThread = NoThread
    MaxSets = 1
    MaxErrors = 1
SYMMETRY symmetry
INVARIANTS IInv CachesCurrent
PROPERTY AtomicUpdates
CHECK_DEADLOCK FALSE
