SPECIFICATION FairSpec
CONSTANTS
    Worker = {w1, w2}
    Work = {a, b, c}
    NoWork = NoWork
INVARIANTS
    TypeOK
    SemMatchesWork
    OnePlace
    NoStaleWork
PROPERTIES
    EverythingRuns
    ImplementsWorkQueue
CHECK_DEADLOCK FALSE
