SPECIFICATION Spec
CONSTANTS
    Models = {"vqa", "change_mask", "caption"}
    Places = {"kaggle", "hf"}
    SetupMax = 1
    PrepareMax = 10
    PushMax = 1
    MaxJobs = 2
    MaxReruns = 1
INVARIANTS
    NeverLost
    NoSmokeWeights
    RecordIsOfWeights
    ExitTells
PROPERTY
    JobsEnd
CHECK_DEADLOCK FALSE
