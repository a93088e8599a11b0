SPECIFICATION Spec
CONSTANTS
    NRefs = 2
    NFolders = 2
    MaxBuilds = 4
    MaxUpsets = 1
    Upsets = {"second"}
INVARIANT OnlyAnExactBuildIsUsed
CHECK_DEADLOCK FALSE
