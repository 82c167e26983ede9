SPECIFICATION Spec
CONSTANTS
    Bytes = {"00", "05", "06", "9f", "a", "b"}
    Requests <- TwoRequests
    MaxFaults = 2
INVARIANTS OneCommandPerSelection TransferIsWhole
PROPERTY FunctionsEnd
