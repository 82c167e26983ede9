SPECIFICATION Spec
CONSTANTS
    NSectors = 2
    EraseSize = 2
    PageSize = 1
    Bits <- OneBit
    Requests <- HelpRanges
    None = None
INVARIANT ChangedSectorsVerified
