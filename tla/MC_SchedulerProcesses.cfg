SPECIFICATION FairSpec
CONSTANTS
    MaxTask = 4
    MaxProcess = 2
    MaxOps = 2
    Worker = {}
    Ops = {"call", "async", "await", "process"}
    Errors = {"err"}
INVARIANTS
    NoLostWakeup
    WaitingSetExact
    ReturnsWhenDone
PROPERTIES
    AwaitEnds
CHECK_DEADLOCK FALSE
