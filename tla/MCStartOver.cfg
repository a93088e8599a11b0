SPECIFICATION FairSpec
CONSTANTS
    Nobody = Nobody
    NoFile = NoFile
    Yulons = {here, there}
    Sees <- OneUser
    Bringers = {here}
    MaxBringIns = 3
    MaxFaults = 4
    MayDwell = FALSE
INVARIANT TheRecordIsKept
INVARIANT ARecordTellsTheTruth
INVARIANT PlainOnCleanGround
INVARIANT OneOfTheTwo
PROPERTY CopiedBeforeRemoved
PROPERTY StartOverEnds
CHECK_DEADLOCK FALSE
