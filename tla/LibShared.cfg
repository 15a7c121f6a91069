CONSTANTS
    Process = {p1,p2}
    Addr = {a1, a2}
    BadAddr = bad
    MaxOps = 2
    Killed = TRUE
    Careful = FALSE
    p1 = p1
    p2 = p2
    a1 = a1
    a2 = a2
    bad = bad
SPECIFICATION Spec
SYMMETRY Symmetry
INVARIANTS TypeOK OksBacked StaleBounded
CHECK_DEADLOCK FALSE
