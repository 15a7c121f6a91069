CONSTANTS
    Process = {p1}
    Addr = {a1, a2}
    BadAddr = bad
    MaxOps = 2
    Killed = TRUE
    Careful = TRUE
    p1 = p1
    a1 = a1
    a2 = a2
    bad = bad
SPECIFICATION Spec
INVARIANTS OkMeansDone
CHECK_DEADLOCK FALSE
