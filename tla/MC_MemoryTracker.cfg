SPECIFICATION Spec
CONSTANTS
    Threads = {t1, t2}
    Ptrs = {p1, p2, p3}
    Sizes = {1, 2}
    Null = Null
    TableSize = 2
SYMMETRY Symmetry
INVARIANTS
    TypeOK
    TableExact
    ReallocMovesTracked
    ReportComplete
