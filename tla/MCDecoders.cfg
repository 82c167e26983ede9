SPECIFICATION DecodersSpec
CONSTANTS
    Unset = Unset
    Radix = 10
    Tags <- Upper
    Sync <- Word2
    Window = 3
    MinSize = 16
    SizeMax = 100000000
    Images <- SmallImages
    Byte <- Damaged
    Slots = {15, 16, 17}
    Sizes = {63, 64, 66, 69, 70, 74, 78}
    MrrsCodes <- TwoCodes
INVARIANTS UploadsAreJudged AcceptedIsWhole ReadersAgree VerdictIsRight MrrsAsAsked
PROPERTY WalkEnds
CHECK_DEADLOCK FALSE
