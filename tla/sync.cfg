SPECIFICATION Spec
CONSTANTS
    t0 = t0
    t1 = t1
    t2 = t2
    initproc = initproc
    mb = mb
    ms = ms
    cv = cv
    s = s
    Threads = {t0, t1, t2}
    Main = t0
    Peers = {initproc}
    BlockingMutexes = {mb}
    SpinMutexes = {ms}
    Semaphores = {s}
    Condvars = {cv}
    ResCount <- OneEach
    Calls = {"create", "lock", "relock", "unlock", "wait", "signal", "exit", "kill", "yield", "up", "down", "sleep", "fault"}
    MaxTime = 2
    MaxTokens = 2
    None = None
INVARIANTS
    KernelInv
PROPERTIES
    ImplementsContract
    FirstComeFirstServed
    SleepersInOrder
SYMMETRY Others
