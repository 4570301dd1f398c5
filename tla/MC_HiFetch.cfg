SPECIFICATION FairSpec
CONSTANTS
    Threads = {main, t1}
    Main = main
    NoThread = NoThread
    NBufs = 2
    MaxCommands = 3
    MayFail = {0}
    Machines <- MCMachines
    MAX_GPUS = 8
    HeadLines = 4
    ForeignCounts = {9}
    MaxLines = 32
    Second = 1
    StartTime = 1
    MaxTime = 2
INVARIANTS
    TypeOK
    OwnOutput
    OneGathering
    OnlyMappedMemory
    Displayable
PROPERTIES
    ServedFresh
    MainExits
CHECK_DEADLOCK FALSE
