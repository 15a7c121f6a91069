CONSTANTS
    User = {c1}
    client = c1
    MaxProbe = 2
    MaxIters = 2
    Sizes = {0, 2}
    MaxSetups = 2
SPECIFICATION FairInference
INVARIANTS ClientTypeOK AllOrNothing HarmOnlyToHolders PredictionIsOwn ExitIsClean
PROPERTY ClientEnds
