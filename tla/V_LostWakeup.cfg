SPECIFICATION FairSpec
CONSTANTS
    MaxTask = 2
    MaxProcess = 1
    MaxOps = 2
    Worker = {w1}
    Ops = {"background", "await"}
    Errors = {}
PROPERTIES
    AwaitEnds
CHECK_DEADLOCK FALSE
