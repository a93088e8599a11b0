SPECIFICATION Spec
CONSTANTS
    Attempts = {a1, a2, a3}
    Nobody = Nobody
    MaxSessions = 3
    MaxPlans = 3
    AtomicMkdir = FALSE
    Outlives = TRUE
    Frozen <- BetweenTimes
SYMMETRY AnyAttempt
CHECK_DEADLOCK FALSE
INVARIANT OneMover
INVARIANT HandshakeKept
PROPERTY OnlyItsOwnLock
INVARIANT ToldNeverMoves
