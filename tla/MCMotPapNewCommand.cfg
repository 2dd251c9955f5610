SPECIFICATION Spec
CONSTANTS
    Turn = 4
    Raw = {0, 1}
    Offsets = {0}
    Setpoints = {1}
    Speeds = {}
    StallSettings = {TRUE, FALSE}
    QueueLen = 1
    MOT_PAP_MAX_FREQ = 125000
    MOT_PAP_COMPUMOTOR_MAX_FREQ = 300000
    MOT_PAP_SUPERVISOR_RATE = 1
    MOT_PAP_POS_PROXIMITY_THRESHOLD = 2
    MOT_PAP_POS_THRESHOLD = 1
    MOT_PAP_STALL_THRESHOLD = 1
    MOT_PAP_STALL_MAX_COUNT = 2
PROPERTY NewCommandNotStalled
