SPECIFICATION ResetSpec
CONSTANTS
    MaxSteps = 8
    SaveEvery = 1
    ValEvery = 2
    KeepLast = 2
    Patience = 2
    NanPatience = 2
    Losses = {1, 2, 3}
    MaxCrashes = 2
    MaxBad = 2
    MaxGen = 2
INVARIANTS
    LatestLoadable
    WorkLost
    BestKept
PROPERTIES
    ProgressKept
CHECK_DEADLOCK FALSE
