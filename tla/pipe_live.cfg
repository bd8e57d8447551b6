SPECIFICATION FairSpec
CONSTANTS
    Procs <- MCProcs
    Creator = "A"
    Tasks <- ThreeTasks
    Main <- MCMain
    Process <- MCProcess
    RING_BUFFER_SIZE = 1
    Bytes = {0}
    Calls = {"read", "write", "close", "dup", "fork", "create", "exit"}
    MaxLen = 2
    MaxFds = 2
    None = None
PROPERTIES
    ReadersSeeEof
    WritesComplete
CHECK_DEADLOCK FALSE
