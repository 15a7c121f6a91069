CONSTANTS
    PageSize = 2
    LenLimit = 2
    Frames = {1, 2}
    Pages = 2
SPECIFICATION Spec
INVARIANT SingleMovesAll
CHECK_DEADLOCK FALSE
