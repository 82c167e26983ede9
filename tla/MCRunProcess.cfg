SPECIFICATION RunSpec
CONSTANTS
    NoStatus = NoStatus
    Capacity = 2
    Buffer = 2
    Lines = {"FAIL", "other"}
    MaxLines = 3
    MaxSignals = 1
INVARIANTS OutputIsComplete SuccessIsReal
PROPERTY Returns
CHECK_DEADLOCK FALSE
