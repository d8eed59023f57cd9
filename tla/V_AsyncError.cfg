SPECIFICATION Spec
CONSTANTS
    MaxTask = 3
    MaxProcess = 1
    MaxOps = 2
    Worker = {}
    Ops = {"call", "async"}
    Errors = {"err"}
INVARIANTS
    ChildErrorIsError
CHECK_DEADLOCK FALSE
