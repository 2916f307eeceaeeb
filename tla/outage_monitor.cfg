\* The latency loop: two targets, one kill or signal with a restart, one failed
\* read, one failed write and one save of the settings.
SPECIFICATION FairSpec
CONSTANTS
    OutboxEnabled = TRUE
    Targets = {t1, t2}
    MaxThreshold = 2
    FailCap = 3
    MaxFlips = 2
    MaxSaves = 1
    MaxRestarts = 1
    ReadErrors = 1
    WriteErrors = 1
INVARIANTS
    SingleActive
    StreakUnlessMisread
    EventsFollowRows
    NoSilentOutage
    DashboardAgrees
PROPERTIES
    RefinesLog
    RecoveryCloses
    FailureOpens
\* The service may be stopped for good, or paused.
CHECK_DEADLOCK FALSE
