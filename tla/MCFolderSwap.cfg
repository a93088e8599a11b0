SPECIFICATION Spec
CONSTANTS
    Versions <- MCVersions
    Absent = Absent
    MaxRefusals = 3
    Resisting = {"install"}
INVARIANT OwnedCopyKept
PROPERTY OnlyTheOwnedCopyIsPutBack
PROPERTY SwapIsAtomic
