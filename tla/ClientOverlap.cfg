SPECIFICATION Spec
CONSTANTS
    Pod = {p1}
    Slot = {s1, s2}
    Kind = {"confidential", "disabled"}
    MaxUid = 1
    MaxGen = 2
    MaxTouch = 1
    MaxReconnect = 0
    MaxCrash = 1
    MaxHandover = 0
    MaxWipe = 0
    MaxFailure = 1
    Foreign = TRUE
CHECK_DEADLOCK FALSE
SYMMETRY Interchangeable
INVARIANTS TypeOK SecretAgrees OnlyOursProjected Converged
PROPERTIES NoRotation ClaimStable
