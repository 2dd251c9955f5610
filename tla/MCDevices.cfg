SPECIFICATION DevicesSpec
CONSTANTS
    QueueLen = 3
    Axes = {"arm", "pole"}
    MaxQueued = 2
    TEMPERATURE_COUNT = 3
    Samples = {0, 3}
    SumModulus = 8
    LPC_NUM_BUFF_TXDESCS = 3
    LPC_NUM_BUFF_RXDESCS = 3
    TCPIP_MBOX_SIZE = 1
    TcpipPriority = 4
    MacPriority = 3
    TxPbufs <- MCTxPbufs
    pbuf_clen <- MCClen
    RxPbufs = {"first", "second"}
    Frames = {"stack", "other", "error"}
    NULL = NULL
INVARIANT RelaysMatchType
INVARIANT ArrivalTold
INVARIANT TemperatureTrue
INVARIANT BuffersHeld
PROPERTY NoSwitchUnderPower
PROPERTY StopCutsPower
PROPERTY ImplementsHoist
PROPERTY SentInOrder
PROPERTY TakenInOrder
PROPERTY KeepsUp
