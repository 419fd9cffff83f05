SPECIFICATION FairSpec
CONSTANTS
    Pod = {p1, p2}
    NoPod = NoPod
    Duration = 2
    Deadline = 1
    Faults = {"forbidden", "error"}
    MaxFault = 1
    MaxCrash = 1
CHECK_DEADLOCK FALSE

INVARIANTS TypeOK FreshLeaderHolds OperatorsFollow
PROPERTIES LeaseNotStolen AlwaysReconciledAgain
