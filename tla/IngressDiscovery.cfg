SPECIFICATION FairSpec
CONSTANTS
    Host = {h1}
    NoHost = NoHost
    Slot = {s1, s2}
    MaxUid = 2
    MaxEvent = 2
INVARIANTS TypeOK Enrolled RefFollows
PROPERTIES HandKept Healed
CHECK_DEADLOCK FALSE
