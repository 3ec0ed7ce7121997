CONSTANTS
    MaxRows = 14
    MaxLanes = 4
    Line = 4
SPECIFICATION Spec
INVARIANTS
    LinesPrivate
    EveryRowWritten
CHECK_DEADLOCK FALSE
