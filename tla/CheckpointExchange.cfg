SPECIFICATION Spec
CONSTANTS
    None = None
    Timeout = 3
    MaxTime = 5
    MaxNoise = 2
    MaxStray = 1
INVARIANTS
    AckIsHeardAndGenuine
    SignalFindsHandler
CHECK_DEADLOCK FALSE
