\* Speed tests: flag, rows, events, summary and schedule, and their liveness.
SPECIFICATION FairSpec
CONSTANTS
    OutboxEnabled = TRUE
    Schedules = {0, 1}
    MaxTime = 1
    MaxJobs = 3
    MaxSaves = 1
    MaxRestarts = 1
    MaxFaults = 1
    MaxSummaries = 1
    Allowances <- MCAllowances
INVARIANTS
    FlagMatchesJob
    SummaryNotStale
    OneFaultLosesNoResult
    NoBurst
PROPERTIES
    FlagClears
    FirstResult
\* The service may be stopped for good.
CHECK_DEADLOCK FALSE
