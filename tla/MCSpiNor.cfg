SPECIFICATION Spec
CONSTANTS
    NSectors = 2
    EraseSize = 3
    PageSize = 3
    Bits <- OneBit
    MaxData = 2
    Calls <- SomeCalls
    None = None
INVARIANT OpenMeansIdle
PROPERTIES KeepsPromise ReadIsExact CallsEnd
