SPECIFICATION Spec
CONSTANTS
    MoveSteps = 2
    GroundSteps = 2
    MaxStrokes = 2
INVARIANTS
    NoConflictingInstructions
CHECK_DEADLOCK FALSE
