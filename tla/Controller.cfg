CONSTANTS
    Addr = {0, 1}
    NoAddr = 2
    WrapAddr = 4
    ComputeAddr = 3
    Value = {0, 1}
    Zero = 0
    Compute <- MCCompute
    InSize = 3
    TileW = 2
SPECIFICATION FairSpec
INVARIANTS TypeOK NoSpuriousIrq StartCompletes StartTakesEffect QuietBetweenRequests
PROPERTIES EveryRequestAnswered
CHECK_DEADLOCK FALSE
