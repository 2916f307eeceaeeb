\* Kills, signals and failures at every step of both sides.
SPECIFICATION FairSpec
CONSTANTS
    Writers = {w1, w2}
    Detached = {w2}
    MaxEvents = 2
    WriteFaults = 1
    SendFaults = 1
    MoveFaults = 1
    MaxKills = 1
    MaxDeaths = 1
    MaxStops = 1
    MaxReuses = 1
INVARIANTS
    TypeOK
    WholeEventsOnly
    FiledTruthfully
    DuplicatesAreInterruptions
    InOrder
PROPERTIES
    RefinesDelivery
    Delivered
\* The service and the helper may both be stopped for good.
CHECK_DEADLOCK FALSE
