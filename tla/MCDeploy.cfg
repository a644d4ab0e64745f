SPECIFICATION FairSpec
CONSTANTS
    MoveSteps = 2
    GroundSteps = 2
    MaxStrokes = 2
INVARIANTS
    PoseKnownBeforeGains
    DampedExit
    AloneOnTheLegs
PROPERTIES
    SelectEnds
    InterruptEnds
CHECK_DEADLOCK FALSE
