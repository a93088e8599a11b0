SPECIFICATION FairSpec
CONSTANTS
    Attempts = {a1, a2, a3}
    Nobody = Nobody
    MaxSessions = 1
    MaxPlans = 3
    AtomicMkdir = FALSE
    Outlives = FALSE
    Frozen <- SlowToReport
CHECK_DEADLOCK FALSE
INVARIANT GivenUpNeverMoves
PROPERTY EveryHelperEnds
PROPERTY EveryPressEnds
