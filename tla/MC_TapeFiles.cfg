SPECIFICATION Spec
CONSTANTS
    n1 = n1
    n2 = n2
    Identifiers = {n1, n2}
    Instructions <- OneKind
    MaxCalls = 6
    UINT8_MAX = 2
    UINT16_MAX = 4
INVARIANTS
    TypeOK
    WellFormed
    TextRestores
    BytecodeRestores
    TableExact
CHECK_DEADLOCK FALSE
