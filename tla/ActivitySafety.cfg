SPECIFICATION Spec
CONSTANTS
    Pod = {p1, p2}
    Slot = {s1}
    User = {u1}
    Client = {c1}
    NoResource = NoResource
    Limit = 1
    InactiveAfter = 1
    MaxClock = 2
    MaxUse = 2
    MaxFailure = 0
    MaxTouch = 1
    MaxCrash = 1
    MaxDelete = 1
CHECK_DEADLOCK FALSE
SYMMETRY Interchangeable
INVARIANTS NothingLost InactiveHonest
PROPERTIES RecentNeverBack RegisterSpec
