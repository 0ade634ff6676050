SPECIFICATION FairSpec
CONSTANTS
    None = None
    MaxDuration = 4
    MaxCount = 1
    MaxRequestId = 2
    MAX_INTERVENTION_RECORDS = 64
    Config <- Limited
    SampleBytes = {1, 3}
    OnParentExit = "Terminate"
    Cooperative = FALSE
    MaxSignals = 1
    MaxFaults = 0
    MaxForks = 1
PROPERTIES
    RunEnds
CHECK_DEADLOCK FALSE
