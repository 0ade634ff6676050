SPECIFICATION Spec
CONSTANTS
    None = None
    MaxDuration = 5
    MaxCount = 2
    MaxRequestId = 2
    Configs <- MCConfigs
    Times <- MCTimes
    Bytes <- MCBytes
    Windows <- MCWindows
    Signals = {2}
INVARIANTS
    TypeOK
    EscalationArmed
    AtMostOneCheckpointRequest
    NoUnprovokedIntervention
PROPERTIES
    DeadlinesNeverMove
    InterventionIsFinal
