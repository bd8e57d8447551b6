SPECIFICATION Spec
CONSTANTS
    MaxPids = 2
    MaxTids = 2
    Codes <- OneCode
    Zero = "ok"
    None = None
    Calls = {"fork", "waitpid", "exit", "create", "down", "abandon"}
INVARIANTS
    ReapedIsUnreferenced
