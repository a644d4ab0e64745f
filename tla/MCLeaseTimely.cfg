SPECIFICATION Spec
CONSTANTS
    Clients = {c1, c2}
    Callers = {c1}
    None = None
    Term = 5
    DefaultTerm = 5
    CallTimeout = 4
    MaxTime = 16
    Timely = TRUE
    Delay = 1
INVARIANTS
    TimelyHolderKeepsLease
CHECK_DEADLOCK FALSE
