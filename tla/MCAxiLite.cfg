SPECIFICATION LiteSpec
CONSTANTS
    Word = 6
    Speed = 1
    Limit = 35
INVARIANTS NoTear SecondTryIsLast PendingIsRaised
