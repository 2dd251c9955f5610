SPECIFICATION Spec
CONSTANTS
    Tasks = {"tcp_thread", "arm_supervisor", "pole_supervisor"}
    Priority <- MCPriority
    Chips <- MCChips
    ReadsOf <- MCReadsOf
    MaxByte = 1
    Positions <- MCPositions
    NoTask = NoTask
INVARIANT AlwaysGenuine
