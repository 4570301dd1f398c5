SPECIFICATION Spec
CONSTANTS
    a = a
    b = b
    Objects = {a, b}
    Slots = 2
    Width = 4
    MaxCount = 2
    MaxTime = 4
    MaxCores = 2
    Cpus = {0, 1, 2}
    HistorySize = 4
    GraphWidth = 3
    MemTotal = 2
    MaxJiffies = 2
    MaxSamples = 6
    MaxBenchmarks = 6
    Runs = 2
    RunTimes = {1, 3}
    MaxComparisons = 2
INVARIANTS
    TypeOK
    OwnRate
    GraphsInOrder
    UsageInRange
    VerdictRight
CHECK_DEADLOCK FALSE
