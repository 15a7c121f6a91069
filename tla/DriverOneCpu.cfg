CONSTANTS
    Source = {ctrl, dma}
    CPU = {c1}
    Reader = {r1}
    CountMod = 3
    MaxRaise <- ThreeOnOne
SPECIFICATION FairSpec
INVARIANTS TypeOK NothingTwice ReadReturnsSome
PROPERTIES ChannelSpec PendingIsServed SleeperReturns
