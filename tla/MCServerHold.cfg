SPECIFICATION Spec
CONSTANTS
    A = A
    B = B
    r = r
    x = x
    y = y
    q = q
    Apps = {A, B}
    Jobs = {r, x, y}
    Home <- HomeOfEach
    MayBe <- EachMayBe
    Nobody = Nobody
    Unanswered = {x}
    Mootable = {x}
    Quits = {A}
    Forgetters = {A}
    NoteMissed = FALSE
CHECK_DEADLOCK FALSE
INVARIANT OneYulonWorks
INVARIANT LoadAlone
PROPERTY CleanupSparesTheWorld
