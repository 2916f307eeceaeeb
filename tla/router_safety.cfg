\* Two probers share the provider; the router keeps one session.
SPECIFICATION Spec
CONSTANTS
    Probers = {p1, p2}
    Username = ""
    Passwords = {"right", "wrong"}
    RouterPassword = "right"
    Routers <- SomeRouters
    RouterSessions = 1
    Ttl = 1
    MaxProbes = 3
    MaxTime = 1
    MaxUpsets = 1
SYMMETRY Symmetry
INVARIANTS
    TypeOK
    OwnSession
    SignedForItself
PROPERTIES
    UndisturbedSucceeds
    WorkingSessionKept
    NoAgedSession
\* Probing may stop for good.
CHECK_DEADLOCK FALSE
