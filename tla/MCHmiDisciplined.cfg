SPECIFICATION Spec
CONSTANTS
    Pos = {0, 7, 8}
    Vel = {1, 9}
    Modes = {"eStop", "eFree_run", "eAuto", "eLift"}
    Selected = {"eArm", "ePole"}
    Variants <- OneVariant
    Refused <- OneKind
    Frames <- MCFrames
    MaxParts = 2
    QueueLen <- MCQueueLen
    StopBetween = TRUE
    AxisAtRest = TRUE
INVARIANT OnlyModeMoves
 
 
PROPERTY ImplementsStation
