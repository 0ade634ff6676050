SPECIFICATION Spec
CONSTANTS
    None = None
    MaxDuration = 5
    MaxCount = 1
    MaxRequestId = 2
    MAX_INTERVENTION_RECORDS = 64
    Config <- Limited
    SampleBytes = {1, 3, 4}
    OnParentExit = "Terminate"
    Cooperative = FALSE
    MaxSignals = 1
    MaxFaults = 1
    MaxForks = 1
INVARIANTS
    NothingIsLeftBehind
    EverySignalHasAReason
    HonestResult
    GraceHonoured
    ExplanationIsTrue
CHECK_DEADLOCK FALSE
