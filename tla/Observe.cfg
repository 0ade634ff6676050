SPECIFICATION FairSpec
CONSTANTS
    None = None
    MaxDuration = 6
    MaxCount = 2
    MaxRequestId = 1
    Config <- Quality
    OnParentExit = "Terminate"
    TERM_GRACE = 2
    MaxSignals = 2
    MaxFaults = 1
    MaxForks = 1
INVARIANTS
    CommandIsLeftAlone
    ParentExitIsEnforced
PROPERTIES
    ObserveEnds
CHECK_DEADLOCK FALSE
