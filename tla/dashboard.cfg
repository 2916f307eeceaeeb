\* The summary, the DNS loop and the settings page.
SPECIFICATION Spec
CONSTANTS
    OutboxEnabled = TRUE
    Fields = {"maxLatencyMs", "minDownloadMbps", "outageFailureThreshold"}
    Texts = {"", " ", "u", "v", "a", "b", "google.com", "cloudflare.com"}
    MaxNames = 2
    Typing <- MCTyping
    Foreign <- MCForeign
    MaxLoads = 2
    Allowances <- MCAllowances
    Base = 2
    Digits = 1
    Day = 2
    Latencies = {60, 120}
    Speeds = {20, 70}
INVARIANTS
    PageAgrees
    SummaryCoherent
    StatusWasReal
    NoFalseDNSFailure
PROPERTIES
    SavesOnlyTheTyped
\* The bounds are used up.
CHECK_DEADLOCK FALSE
