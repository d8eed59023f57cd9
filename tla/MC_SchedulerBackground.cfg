SPECIFICATION Spec
CONSTANTS
    MaxTask = 4
    MaxProcess = 1
    MaxOps = 2
    Worker = {w1, w2}
    Ops = {"async", "background", "await"}
    Errors = {"err"}
INVARIANTS
    TypeOK
    ScheduledOnce
    ResultDelivered
    SleeperIsWoken
PROPERTIES
    ImplementsTasks
    LeavesWhenQueued
CHECK_DEADLOCK FALSE
