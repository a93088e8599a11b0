SPECIFICATION FairSpec
CONSTANTS
    NRefs = 2
    NFolders = 2
    MaxBuilds = 3
    MaxUpsets = 2
    Upsets = {"keep", "use", "settle", "restore", "undo", "silent", "stop", "walkout", "lateWalkout", "kill", "race", "partial", "second", "landed", "editBack", "unread"}
 
INVARIANT AStartRunsATestedBuild
 
PROPERTY PressEnds
CHECK_DEADLOCK FALSE
