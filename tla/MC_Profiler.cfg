SPECIFICATION FairSpec
CONSTANTS
    Threads = {main, worker}
    Main = main
    Sampler = sampler
    Nobody = Nobody
    Id <- MCId
    Functions = {"f"}
    MAX_SAMPLES = 3
    MAX_THREADS = 2
    MAX_FUNCTIONS = 1
    StartTime = 3
    MaxTurns = 1
    MaxDepth = 1
INVARIANTS
    TypeOK
    SamplerHasProfiler
    ExactTimes
PROPERTY StopReturns
