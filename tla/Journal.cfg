SPECIFICATION Spec
CONSTANTS
    None = None
    MAX_RECOVERED_RECORDS = 8
    MAX_SAMPLE_HISTORY_CAPACITY = 1
    MaxRuns = 2
    MaxSamples = 2
    MaxActs = 1
    MaxFaults = 1
    MaxCrashes = 1
INVARIANTS
    RecoveryAccountsForTheRun
    ReportOutlivesCrashes
    FinalReportFaithful
    UndisturbedRunFinishes
PROPERTIES
    ImplementsLog
CHECK_DEADLOCK FALSE
