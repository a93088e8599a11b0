SPECIFICATION Spec
CONSTANTS
    Entries <- MCFewEntries
    Exe = "yulon"
    Shipped <- MCFewEntries
    Folders <- MCFewFolders
    Absent = Absent
    MaxFaults = 2
    HandStart = TRUE
    HalfRecovery = TRUE
    TidyMayStop = TRUE
PROPERTY HelperOnlyMoves
CHECK_DEADLOCK FALSE
