SPECIFICATION LiveSpec
CONSTANTS
    Runs = {r1, r2}
    Reports = {p1}
    Keep = 1
    MaxFaults = 1
    None = None
INVARIANTS
    StreamErrorsAgree
PROPERTIES
    LifecycleKept
    EvictedIsOld
    StreamsEnd
CHECK_DEADLOCK FALSE
