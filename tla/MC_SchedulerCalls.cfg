SPECIFICATION FairSpec
CONSTANTS
    MaxTask = 4
    MaxProcess = 1
    MaxOps = 2
    Worker = {}
    Ops = {"call"}
    Errors = {"err"}
INVARIANTS
    ChildErrorIsError
PROPERTIES
    MainEnds
CHECK_DEADLOCK FALSE
