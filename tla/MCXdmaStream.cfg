SPECIFICATION Spec
CONSTANTS
    t1 = t1
    t2 = t2
    Threads = {t1, t2}
    Makes <- Calls
    Size = 2
INVARIANTS NeverKilled CleanBetweenCalls TimeoutIsOwnDeadline ReadIsGapless WriteVerdict
PROPERTY FiniteCallsReturn
