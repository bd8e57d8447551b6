SPECIFICATION Spec
CONSTANTS
    PetersonRounds = 3
    THREAD_NUM = 3
    EisenbergRounds = 1
    PER_THREAD = 2
    ADDERS = 3
    N = 4
    ROUND = 2
    BARRIER_THREADS = 3
    BUFFER_SIZE = 2
    PRODUCER_COUNT = 2
    NUMBER_PER_PRODUCER = 2
    MAX_TASKS = 5
    Yields <- MCYields
    Futures = 3
    FileNames = {"a", "b"}
    MaxOpen = 4
    MaxPipes = 2
    PIPE_SIZE = 1
    None = None
    Lines <- MCLines
    InitFiles <- MCFiles
INVARIANTS
    PetersonExcludes
    EisenbergExcludes
    SectionsExclude
    BarrierHolds
    QueueIsFifo
    SecondAfterFirst
    CoroutinesFair
    ShellWiring
    LineIsExact
PROPERTIES
    AllFinish
\* A program ends; AllFinish says that none stops before.
CHECK_DEADLOCK FALSE
