SPECIFICATION Spec
CONSTANTS
    Suites <- ServedSuites
    Threads = {w1, w2}
    MaxGen = 2
    MaxBoots = 1
    MaxAsked = 2
    MaxFaults = 1
    None = None
SYMMETRY ThreadsAlike
INVARIANTS
    GoMeansModels
    VerifiedServes
    AnswerAgrees
PROPERTIES
    HandleStays
CHECK_DEADLOCK FALSE
