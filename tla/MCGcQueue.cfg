SPECIFICATION FairSpec
CONSTANTS
    o1 = o1
    o2 = o2
    Noop = Noop
    None = None
    NSlots = 1
    Objects = {o1, o2}
    TwoPhase = {o2}
    Leased = {o2}
    MaxNest = 2
    TimeMod = 5
    MaxTick = 1
INVARIANTS
    NoUseAfterFree
    NothingLeftBehind
PROPERTIES
    DeletedIsFreed
    FreeReturns
CHECK_DEADLOCK FALSE
