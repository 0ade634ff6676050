SPECIFICATION Spec
CONSTANTS
    None = None
    MaxDuration = 4
    MaxCount = 1
    MaxRequestId = 2
    MAX_INTERVENTION_RECORDS = 64
    Config <- WallLimited
    SampleBytes = {1, 3, 4}
    OnParentExit = "Detach"
    Cooperative = TRUE
    MaxSignals = 1
    MaxFaults = 1
    MaxForks = 0
INVARIANTS
    CheckpointRecordAgrees
    ExplanationIsTrue
CHECK_DEADLOCK FALSE
