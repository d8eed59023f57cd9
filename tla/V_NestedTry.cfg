CONSTANTS
    Units <- NestedTryUnits
    Functions = {"f", "g", "range"}
    Objects = {"o", "self", "struct"}
    LookupTypes = {"none", "prim", "obj"}
    CallTypes = {"none", "obj", "future", "error"}
    MaxEvents = 8
SPECIFICATION Spec
INVARIANT ErrorMeansNoTry
CHECK_DEADLOCK FALSE
