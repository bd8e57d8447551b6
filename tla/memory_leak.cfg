CONSTANTS
    FANOUT = 4
    LEVELS = 3
    ekernel = 1
    MEMORY_END = 41
    None = None
    Programs <- MCPrograms
    InitProgram <- Small
    USER_STACK_SIZE = 1
    KERNEL_STACK_SIZE = 1
    Writes <- MCWrites
    MaxPid = 1
    MaxTid = 1
    MaxCalls = 7

SPECIFICATION Spec

CHECK_DEADLOCK FALSE

INVARIANT
    BlockedAreRemoved
