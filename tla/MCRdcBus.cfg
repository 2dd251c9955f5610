SPECIFICATION FairSpec
CONSTANTS
    Tasks = {"arm_task", "pole_task", "tcp_thread", "arm_supervisor"}
    Priority <- MCPriority
    Chips <- MCChips
    ReadsOf <- MCReadsOf
    MaxByte = 1
    Positions <- MCPositions
    NoTask = NoTask
INVARIANT OneChipSelected
INVARIANT AnswersOwn
INVARIANT UndisturbedGenuine
PROPERTY BusGivenBack
