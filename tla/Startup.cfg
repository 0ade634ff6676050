SPECIFICATION FairSpec
CONSTANTS
    None = None
    U64_MAX = 65535
    MAX_WALL_TIME = 40000
    PipeCapacity = 1
    ChildCodes = {74}
    ChildSignals = {9}
    Configs <- AllConfigs
    MaxSignals = 2
    MaxFaults = 1
    MaxStrangers = 1
INVARIANTS
    SignalsAreSafe
    ClientIsNotMisled
    ParentWatchIsTrue
    AcceptedIsUsable
PROPERTIES
    ParentExitIsNoticed
CHECK_DEADLOCK FALSE
