SPECIFICATION Spec
CONSTANTS
    Threads = {main, worker}
    Main = main
    Sampler = sampler
    Nobody = Nobody
    Id <- MCId
    Functions = {"f"}
    MAX_SAMPLES = 2
    MAX_THREADS = 2
    MAX_FUNCTIONS = 1
    StartTime = 3
    MaxTurns = 1
    MaxDepth = 1
INVARIANT TimesPossible
