\* What the router page says after it stopped probing.
SPECIFICATION Spec
CONSTANTS
    OutboxEnabled = FALSE
    Documents <- SomeDocuments
    MaxProbes = 1
    MaxFlights = 2
    MaxVisits = 2
    MaxFaults = 0
INVARIANTS
    StoppedMeansStopped
\* The bounds of the model end every behaviour.
CHECK_DEADLOCK FALSE
