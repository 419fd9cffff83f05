SPECIFICATION FairSpec
CONSTANTS
    Pod = {p1}
    Slot = {s1}
    Kind = {"confidential", "disabled"}
    MaxUid = 1
    MaxGen = 2
    MaxTouch = 1
    MaxReconnect = 1
    MaxCrash = 0
    MaxHandover = 0
    MaxWipe = 1
    MaxFailure = 0
    Foreign = FALSE
CHECK_DEADLOCK FALSE

PROPERTIES OrphansSwept Served
