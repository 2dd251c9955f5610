SPECIFICATION Spec
CONSTANTS
    Pos = {0, 7, 8}
    Vel = {1, 9}
    Modes = {"eStop", "eFree_run", "eAuto", "eLift"}
    Selected = {"eArm", "ePole"}
    Variants <- Changes
    Refused <- EveryKind
    Frames <- MCFrames
    MaxParts = 1
    QueueLen <- MCQueueLen
    StopBetween = FALSE
    AxisAtRest = FALSE
INVARIANT PowerOnlyWhenEnabled
INVARIANT DisabledMeansStopped
INVARIANT LinkDownMeansStopped
INVARIANT CommandsCurrent
