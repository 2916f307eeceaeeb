\* Both clients delete users; the pool replaces its connection once.
SPECIFICATION Spec
CONSTANTS
    Names = {n1, n2}
    FirstName = n1
    Clients = {c1, c2}
    Deleters = {c1, c2}
    MaxCreates = 3
    MaxLogins = 2
    MaxChanges = 1
    MaxRenames = 0
    MaxExpiries = 1
    MaxRecycles = 1
    MaxFaults = 1
    MaxRestarts = 1
    MaxUpsets = 2
SYMMETRY Symmetry
INVARIANTS
    CascadeLeavesNoSession
    SessionsKeepTheirOwner
    PasswordChangeEndsSessions
\* The server may be stopped for good.
CHECK_DEADLOCK FALSE
