\* One mv that fails.
SPECIFICATION Spec
CONSTANTS
    Writers = {w1, w2}
    Detached = {w2}
    MaxEvents = 1
    WriteFaults = 0
    SendFaults = 0
    MoveFaults = 1
    MaxKills = 0
    MaxDeaths = 0
    MaxStops = 0
    MaxReuses = 0
INVARIANTS
    NoEventVanishes
\* The service and the helper may both be stopped for good.
CHECK_DEADLOCK FALSE
