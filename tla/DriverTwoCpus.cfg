CONSTANTS
    Source = {ctrl, dma}
    CPU = {c1, c2}
    Reader = {r1}
    CountMod = 3
    MaxRaise <- TwoEach
SPECIFICATION Spec
INVARIANTS NothingLost NoLostWakeup
SYMMETRY Symmetry
