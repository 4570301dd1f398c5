SPECIFICATION Spec
CONSTANTS
    Pids <- MCPids
    MAX_PROCESSES = 2
    PAGE = 2
    Rows <- MCRows
    Filters = {"", "some"}
    NoFilter = ""
    Match <- MCMatch
    User <- MCUser
    Command <- MCCommand
INVARIANTS
    TypeOK
    ListExact
    CursorVisible
    EffectsOnProcesses
PROPERTIES
    KeysStayInList
    QuitExits
    Refreshes
