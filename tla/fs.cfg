CONSTANTS
    BLOCK_SZ = 2
    INODE_DIRECT_COUNT = 1
    Names = {1, 2, 3}
    BLOCK_BITS = 3
    INODES_PER_BLOCK = 2
    TotalBlocks = {9, 25}
    inode_bitmap_blocks = 1
    Writes <- MCWrites
    None = None

SPECIFICATION Spec

CHECK_DEADLOCK FALSE

INVARIANTS
    FsInv
    BlocksOwnedOnce
    ReadsExact
    FilesExact
