SPECIFICATION FairSpec
CONSTANTS
    c1 = c1
    c2 = c2
    r1 = r1
    r2 = r2
    r3 = r3
    None = None
    Calls = {r1, r2, r3}
    Clients = {c1, c2}
    Setups <- MCSetups
INVARIANTS
    AnswerCanReachCaller
    NoLostWakeup
    OnlyFailedCallsLeak
PROPERTIES
    FifoExecution
    CallReturns
    AbstractSpec
CHECK_DEADLOCK FALSE
