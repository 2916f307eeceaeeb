\* The router loop, its rows and the pages that poll them.
SPECIFICATION Spec
CONSTANTS
    OutboxEnabled = TRUE
    Documents <- SomeDocuments
    MaxProbes = 2
    MaxFlights = 2
    MaxVisits = 2
    MaxFaults = 1
INVARIANTS
    NothingInvented
    EachDeviceOnce
    FailedRoundLeavesTrace
    StoredClaimsNoMore
    StopIsExplained
\* The bounds of the model end every behaviour.
CHECK_DEADLOCK FALSE
