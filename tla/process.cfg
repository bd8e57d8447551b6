SPECIFICATION FairSpec
CONSTANTS
    MaxPids = 3
    MaxTids = 3
    Codes <- TwoCodes
    Zero = "ok"
    None = None
    Calls = {"fork", "waitpid", "exit", "create", "waittid", "lock", "down"}
INVARIANTS
    ProcessInv
    NoPanic
PROPERTIES
    ImplementsContract
    OrphansReaped
