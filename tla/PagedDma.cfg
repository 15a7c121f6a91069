CONSTANTS
    PageSize = 2
    LenLimit = 5
    Frames = {1, 2, 3, 5}
    Pages = 3
SPECIFICATION FairSpec
INVARIANTS TypeOK NothingWrong AllMoved PagemapInBounds ChunkFits
PROPERTIES OnlyMovedPagesWrong CallReturns
CHECK_DEADLOCK FALSE
