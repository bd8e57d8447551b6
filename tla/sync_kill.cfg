SPECIFICATION FairSpec
CONSTANTS
    t0 = t0
    t1 = t1
    initproc = initproc
    s = s
    Threads = {t0, t1}
    Main = t0
    Peers = {initproc}
    BlockingMutexes = {}
    SpinMutexes = {}
    Semaphores = {s}
    Condvars = {}
    ResCount <- NoneEach
    Calls = {"create", "down", "up", "kill"}
    MaxTime = 0
    MaxTokens = 1
    None = None
PROPERTIES
    KillTerminates
