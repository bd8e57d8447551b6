SPECIFICATION UnlockingSpec
CONSTANTS
    t0 = t0
    t1 = t1
    t2 = t2
    initproc = initproc
    mb = mb
    Threads = {t0, t1, t2}
    Main = t0
    Peers = {initproc}
    BlockingMutexes = {mb}
    SpinMutexes = {}
    Semaphores = {}
    Condvars = {}
    ResCount <- NoneEach
    Calls = {"create", "lock", "unlock", "sleep"}
    MaxTime = 1
    MaxTokens = 0
    None = None
PROPERTIES
    LockIsGranted
    SleepersWake
