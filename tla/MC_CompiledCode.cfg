CONSTANTS
    Units <- AllUnits
    Functions = {"f", "g", "range"}
    Objects = {"o", "self", "struct"}
    LookupTypes = {"none", "prim", "obj"}
    CallTypes = {"none", "obj", "future", "error"}
    MaxEvents = 6
SPECIFICATION FairSpec
INVARIANTS
    TypeOK
    NoErrorBelow
    ErrorBeforeInstruction
    BlocksUntilError
    MatchesSource
    BalancedAtExit
PROPERTY RunEnds
CHECK_DEADLOCK FALSE
