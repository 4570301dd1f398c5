SPECIFICATION FairSpec
CONSTANTS
    Callers = {c1, c2, c3}
    Blocks = {b1, b2, b3, b4}
    Null = Null
    free_blocks = free_blocks
    used_blocks = used_blocks
    PoolSize = 64
    HeaderSize = 32
    Sizes = {5, 16}
INVARIANTS
    TypeOK
    GrantsSound
    ListsExact
PROPERTIES
    WalksEnd
