CONSTANTS
    Sources <- AllSources
    MaxRow = 4
    UINT8_MAX = 14
    UINT16_MAX = 65535
SPECIFICATION Spec
INVARIANTS
    SourceRecovered
    NothingLost
    JumpsStayInside
    SameModule
    CodeOfItsOwn
PROPERTY OptimizedApart
CHECK_DEADLOCK FALSE
