SPECIFICATION FairSpec
CONSTANTS
    A = A
    B = B
    r = r
    x = x
    y = y
    q = q
    Apps = {A, B}
    Jobs = {r, x, y}
    Home <- HomeOfFew
    MayBe <- FewMayBe
    Nobody = Nobody
    Unanswered = {y}
    Mootable = {x}
    Quits = {A}
    Forgetters = {}
    NoteMissed = TRUE
CHECK_DEADLOCK FALSE
INVARIANT WorldDownUnderLoad
PROPERTY EveryPressEnds
