SPECIFICATION Spec
CONSTANTS
    None = None
    TicksPerMs = 2
    TicksPerSecond = 3
    I64_MAX = 8
    MAX_SAMPLE_HISTORY_CAPACITY = 2
    max_sample_age = 2
    max_sample_window = 1
    Bytes = {0, 3}
    Masks = {{"normal"}, {"warning", "critical"}}
    MaxClock = 4
    Budgets <- SmallBudgets
INVARIANTS
    ReportValidates
    CalibrationIsReal
    PressureIsCurrent
    PolicyInputIsReported
CHECK_DEADLOCK FALSE
