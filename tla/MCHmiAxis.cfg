SPECIFICATION Spec
CONSTANTS
    Pos = {0, 7, 8}
    Vel = {1, 9}
    Modes = {"eStop", "eAuto"}
    Selected = {"eArm", "ePole"}
    Variants <- OneVariant
    Refused <- EveryKind
    Frames <- MCFrames
    MaxParts = 1
    QueueLen <- MCQueueLen
    StopBetween = TRUE
    AxisAtRest = FALSE
INVARIANT StopFrameStops
