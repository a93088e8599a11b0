SPECIFICATION Spec
CONSTANTS
    MaxTokens = 2
    MaxRuns = 3
    MaxUpsets = 1
    Upsets = {"blind", "deny", "die", "refused", "stopFails", "startFails", "restoreFails", "dieLoading", "again", "boot", "balk", "revert", "halfDump"}
INVARIANT CalledOffNeverRuns
INVARIANT HalfPoolKeepsItsRequest
INVARIANT RestoredBotsStay
INVARIANT NoTokenRunsTwice
INVARIANT SaidDoneIsDone
CHECK_DEADLOCK FALSE
