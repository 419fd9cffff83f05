SPECIFICATION Spec
CONSTANTS
    Pod = {p1, p2}
    Slot = {s1}
    Kind = {"confidential"}
    MaxUid = 1
    MaxGen = 1
    MaxTouch = 0
    MaxReconnect = 1
    MaxCrash = 0
    MaxHandover = 1
    MaxWipe = 0
    MaxFailure = 0
    Foreign = TRUE
CHECK_DEADLOCK FALSE
SYMMETRY Interchangeable
INVARIANT SecretAgrees
