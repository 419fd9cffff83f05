SPECIFICATION Spec
CONSTANTS
    Subject = {u, v}
    Account = {a, b}
    Group = {g}
    NoOne = NoOne
    AllUsers = FALSE
    Slot = {s1, s2}
    MaxRequest = 2
    MaxEvent = 2
SYMMETRY Symmetry
INVARIANTS OnlyWhileMember
CHECK_DEADLOCK FALSE
