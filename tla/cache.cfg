SPECIFICATION Spec
CONSTANTS
    Blocks = {b1, b2, b3, b4}
    Contents = {0, 1}
    BLOCK_CACHE_SIZE = 3
    MaxHeld = 3
    None = None
INVARIANTS
    CacheInv
    NeverRunsOut
PROPERTIES
    ImplementsDisk
