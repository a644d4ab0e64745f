SPECIFICATION Spec
CONSTANTS
    w1 = w1
    a1 = a1
    r1 = r1
    r2 = r2
    deleter = deleter
    receiver = receiver
    discovery = discovery
    events = events
    None = None
    Deleter = deleter
    Receiver = receiver
    Discovery = discovery
    Events = events
    Writers = {w1}
    Waiters = {a1}
    MaxSeq = 2
    Readers = {r1, r2}
    Settings <- MCSettings
INVARIANTS
    NoUseAfterFree
    NoLostWakeup
    NotThrottledWhenDeleted
PROPERTIES
    LingersUntilAcked
CHECK_DEADLOCK FALSE
