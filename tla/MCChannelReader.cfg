SPECIFICATION FairSpec
CONSTANTS
    QueueLen = 2
    MaxSample = 5
    MaxInit = 2
    MayRaise = TRUE
INVARIANTS
    NoLostWakeup
    HangsOnlyAfterMissedInterrupt
    QueuedReaderIsServed
PROPERTIES
    QuietAfterClose
    CloseReturns
    StreamSpec
CHECK_DEADLOCK FALSE
