SPECIFICATION Spec
CONSTANTS
    Clients = {c1, c2}
    Callers = {c1}
    None = None
    Term = 1
    DefaultTerm = 1
    CallTimeout = 1
    MaxTime = 5
    Timely = FALSE
    Delay = 0
INVARIANTS
    LostOnlyByExpiry
PROPERTIES
    DeniedOnlyAfterExpiry
    IdsAreFresh
    ResetOnlyWhenLost
CHECK_DEADLOCK FALSE
