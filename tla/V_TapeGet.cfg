CONSTANTS
    Sources <- LoopFirst
    MaxRow = 4
    UINT8_MAX = 255
    UINT16_MAX = 65535
SPECIFICATION Spec
INVARIANT TapeGetInside
CHECK_DEADLOCK FALSE
