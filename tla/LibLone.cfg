CONSTANTS
    Process = {p1}
    Addr = {a1, a2}
    BadAddr = bad
    MaxOps = 4
    Killed = FALSE
    Careful = TRUE
    p1 = p1
    a1 = a1
    a2 = a2
    bad = bad
SPECIFICATION FairSpec
INVARIANTS ExactlyOne ReadsItsWord
PROPERTIES ServiceSpec CallReturns
CHECK_DEADLOCK FALSE
