SPECIFICATION PlatformSpec
CONSTANTS
    Task <- MCTask
    Idle = "idle"
    uxBasePriority <- MCPriority
    EventList <- MCEventList
    TickModulus = 4
    OverflowModulus = 2
    MaxPended = 2
    MaxLate = 1
    Queue <- MCQueue
    Kind <- MCKind
    uxLength <- MCLength
    Uses <- MCUses
    ucHeap = 3
    configTOTAL_HEAP_SIZE = 52
    portBYTE_ALIGNMENT = 2
    xHeapStructSize = 2
    xBlockAllocatedBit = 128
    Wanted = {0, 3, 8, 14, 46, 47, 127, 128, 200}
    Tasks = {"arm"}
    Size <- MCSize
    QueueLen <- MCQueueLen
    MailboxSize = 8
    MaxMailboxes = 1
INVARIANT NoLostWakeup
 
 
INVARIANT NoOversleep
INVARIANT NotEarly
INVARIANT BlocksApart
INVARIANT Coalesced
INVARIANT FreeBytesExact
INVARIANT MessagesOwned
INVARIANT MessageThere
PROPERTY QueueFifo
