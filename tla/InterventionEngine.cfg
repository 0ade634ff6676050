SPECIFICATION EngineSpec
CONSTANTS
    None = None
    MaxDuration = 3
    MaxCount = 1
    MaxRequestId = 2
    MAX_INTERVENTION_RECORDS = 3
    EngineConfig <- MCConfig
    MaxTime = 2
    MaxAttempts = 4
    Bytes <- MCBytes
INVARIANTS
    AttemptsAreRecorded
    FailuresEscalate
    LatenciesAgree
CHECK_DEADLOCK FALSE
