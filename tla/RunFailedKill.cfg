SPECIFICATION FairSpec
CONSTANTS
    None = None
    MaxDuration = 4
    MaxCount = 1
    MaxRequestId = 2
    MAX_INTERVENTION_RECORDS = 64
    Config <- Limited
    SampleBytes = {1, 4}
    OnParentExit = "Detach"
    Cooperative = FALSE
    MaxSignals = 0
    MaxFaults = 1
    MaxForks = 0
PROPERTIES
    FailedKillIsReported
CHECK_DEADLOCK FALSE
