SPECIFICATION QueueSpec
CONSTANTS
    Codes <- QueuedCodes
    Procs = {p1, p2}
    Batches = 2
    SaveEvery = 2
    KeepLast = 1
    Epochs = {1, 2}
    ValEvery = 1
    NanPatience = 2
    Scores = {1, 2}
    MaxStep = 5
    MaxKills = 1
    MaxEvals = 1
    MaxBad = 2
    MaxRestages = 1
SYMMETRY ProcessesAlike
INVARIANTS
    NoEpochSkipped
    MeasuresTrained
    CompletedIsKept
    
CHECK_DEADLOCK FALSE
