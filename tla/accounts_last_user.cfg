\* Both clients delete users.
SPECIFICATION Spec
CONSTANTS
    Names = {n1, n2}
    FirstName = n1
    Clients = {c1, c2}
    Deleters = {c1, c2}
    MaxCreates = 2
    MaxLogins = 2
    MaxChanges = 0
    MaxRenames = 0
    MaxExpiries = 0
    MaxRecycles = 0
    MaxFaults = 0
    MaxRestarts = 0
    MaxUpsets = 2
INVARIANTS
    SomeUserRemains
\* The server may be stopped for good.
CHECK_DEADLOCK FALSE
