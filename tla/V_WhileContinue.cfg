CONSTANTS
    Units <- WhileContinueUnits
    Functions = {"f", "g", "range"}
    Objects = {"o", "self", "struct"}
    LookupTypes = {"none", "prim", "obj"}
    CallTypes = {"none", "obj", "future", "error"}
    MaxEvents = 8
SPECIFICATION Spec
INVARIANT LoopFollowsSource
CHECK_DEADLOCK FALSE
