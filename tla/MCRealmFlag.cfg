SPECIFICATION FairSpec
CONSTANTS
    MaxRuns = 2
    MaxFaults = 1
INVARIANT AHoldOutlastsTheTick
PROPERTY ADeadWorldIsListedOffline
PROPERTY AListeningWorldIsListedOnline
