SPECIFICATION Spec
CONSTANTS
    Account = {a1, a2}
    Person = {p, q}
    Nobody = Nobody
    Prompt = TRUE
    Slot = {s1, s2}
    MaxRequest = 2
    MaxBorn = 2
    MaxEvent = 1
SYMMETRY Symmetry
INVARIANTS TypeOK StatusCurrent FlagsRight HomeOnly
PROPERTY ProofKept
CHECK_DEADLOCK FALSE
