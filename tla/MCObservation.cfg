SPECIFICATION Spec
CONSTANTS
    WriteOrder <- NoLookWrites
    ReadOrder <- NoLookReads
    MaxSamples = 3
INVARIANTS
    StepsBackAtMostOne
    NextIsNewer
CHECK_DEADLOCK FALSE
