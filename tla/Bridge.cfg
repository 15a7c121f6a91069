CONSTANTS
    Words = 2
    Limit = 2
    Data = {d0, d1}
    Zero = d0
    Cap = 1
SPECIFICATION FairSpec
INVARIANTS TypeOK BufferInBounds NothingLeftOver
PROPERTIES PromiseSpec RequestAnswered DisconnectEnds
CHECK_DEADLOCK FALSE
