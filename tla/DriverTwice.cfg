CONSTANTS
    Source = {ctrl, dma}
    CPU = {c1, c2}
    Reader = {r1}
    CountMod = 4
    MaxRaise <- TwoEach
SPECIFICATION Spec
INVARIANT NothingTwice
