SPECIFICATION EmacFairSpec
CONSTANTS
    LPC_NUM_BUFF_TXDESCS = 2
    LPC_NUM_BUFF_RXDESCS = 3
    TCPIP_MBOX_SIZE = 1
    TcpipPriority = 4
    MacPriority = 3
    TxPbufs <- MCTxPbufs
    pbuf_clen <- MCClen
    RxPbufs = {"first"}
    Frames = {"stack"}
    NULL = NULL
PROPERTY OutputReturns
