SPECIFICATION Spec
CONSTANTS
    Threads = {t1, t2}
    Keys <- MCKeys
    Values = {"small", "large"}
    NBuckets = 2
    Hash <- HashSame
    Stored <- Identity
    Size <- MCSize
    None = None
    NoThread = NoThread
    CACHE_TIMEOUT = 1
    SIZE_RANGE = 4
    MaxTime = 2
    MaxChain = 3
SYMMETRY Symmetry
INVARIANTS
    TypeOK
    UniqueKeys
    NoLockKept
    CountersExact
PROPERTIES
    SweepSparesLive
    ImplementsMap
