\* One failed read of the active outage.
SPECIFICATION Spec
CONSTANTS
    OutboxEnabled = FALSE
    Targets = {t1}
    MaxThreshold = 2
    FailCap = 3
    MaxFlips = 3
    MaxSaves = 0
    MaxRestarts = 0
    ReadErrors = 1
    WriteErrors = 0
INVARIANTS
    OpenOnlyAfterStreak
CHECK_DEADLOCK FALSE
