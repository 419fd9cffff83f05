SPECIFICATION FairSpec
CONSTANTS
    Pod = {p1}
    Slot = {s1}
    User = {u1}
    Client = {c1, c2}
    NoResource = NoResource
    Limit = 1
    InactiveAfter = 1
    MaxClock = 2
    MaxUse = 2
    MaxFailure = 1
    MaxTouch = 1
    MaxCrash = 0
    MaxDelete = 0
CHECK_DEADLOCK FALSE

INVARIANT TypeOK
PROPERTY Published
