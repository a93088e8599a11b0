SPECIFICATION FairSpec
CONSTANTS
    Entries <- MCEntries
    Exe = "yulon"
    Shipped <- MCShipped
    Folders <- MCFolders
    Absent = Absent
    MaxFaults = 1
    HandStart = FALSE
    HalfRecovery = FALSE
    TidyMayStop = TRUE
INVARIANT ExecutableMeansWhole
INVARIANT OldBuildKept
INVARIANT RecoveryRestores
INVARIANT UnprovenIsUnwanted
PROPERTY SwapIsAtomic
PROPERTY AppComesBack
