SPECIFICATION Spec
CONSTANTS
    Procs <- MCProcs
    Creator = "A"
    Tasks <- TwoTasks
    Main <- MCMain
    Process <- MCProcess
    RING_BUFFER_SIZE = 3
    Bytes = {0, 1}
    Calls = {"read", "write", "close", "fork", "exit"}
    MaxLen = 4
    MaxFds = 1
    None = None
INVARIANTS
    RingConsistent
PROPERTIES
    ImplementsChannel
CHECK_DEADLOCK FALSE
