SPECIFICATION LiveSpec
CONSTANTS
    s1 = s1
    s2 = s2
    s3 = s3
    p1 = p1
    p2 = p2
    p3 = p3
    r1 = r1
    r2 = r2
    None = None
    Runs = {r1, r2}
    Sessions = {s1, s2}
    Pids = {p1, p2}
    DependsOn <- MCDependsOn
    Node <- MCTwoNodes
    HostName <- MCTwoNodes
    StrictBudget = FALSE
    MaxEvents = 1
INVARIANTS
    OneTrainerPerDirectory
PROPERTIES
    RunsSettle
CHECK_DEADLOCK FALSE
