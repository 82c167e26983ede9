SPECIFICATION Spec
CONSTANTS
    NSectors = 3
    EraseSize = 2
    PageSize = 1
    Bits <- OneBit
    Requests <- SmallRanges
    None = None
INVARIANTS SuccessIsExact OneSectorAtRisk MismatchMeansFault RepeatErasesNothing
