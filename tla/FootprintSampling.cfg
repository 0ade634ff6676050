SPECIFICATION Spec
CONSTANTS
    None = None
    MAX_ESCAPED_EVIDENCE = 1
    U64_MAX = 2
    Pids = {2, 3, 4}
    RootPid = 2
    MaxBirths = 2
    Budgets <- TwoBudgets
INVARIANTS
    SampleCountsTheCommand
    EscapesAreAccountedFor
    CleanupIsHonest
    SignalReachesRoot
CHECK_DEADLOCK FALSE
