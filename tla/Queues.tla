--------------------------------- MODULE Queues ---------------------------------
(***************************************************************************)
(* Queues, semaphores and mutexes (queue.c of FreeRTOS) on top of the      *)
(* scheduler: the queues of commands and the mailboxes of the network      *)
(* stack, the semaphores that the interrupts of the pulse timers and of    *)
(* the Ethernet controller give, the mutexes of the SPI bus and of the     *)
(* transmitter.                                                            *)
(*                                                                         *)
(* A call that finds nothing suspends the scheduler, locks the queue,      *)
(* looks again, puts itself on the waiting list, unlocks the queue and     *)
(* resumes the scheduler.  Each of these is a step, and interrupts come in *)
(* between.                                                                *)
(***************************************************************************)
EXTENDS Scheduler

CONSTANTS
    Queue,
    Kind,        \* of each queue: "queue", "semaphore" or "mutex"
    uxLength,
    Uses         \* alternatives of what each task calls and of what interrupts give

\* The calls that a queue is made for.
OpsOf(q) == IF Kind[q] = "queue" THEN {"send", "receive"} ELSE {"take", "give"}

\* A give never waits (semGIVE_BLOCK_TIME).
ASSUME QueueAssumption ==
    /\ Kind \in [Queue -> {"queue", "semaphore", "mutex"}]
    /\ uxLength \in [Queue -> Nat \ {0}]
    /\ \A u \in Uses : u.isr \subseteq {q \in Queue : Kind[q] = "semaphore"}
    /\ \A u \in Uses : \A t \in Task : \A c \in u.calls[t] :
           /\ c.wait \in TickType
           /\ c.queue \in Queue => c.op \in OpsOf(c.queue)
           /\ c.op = "give" => c.wait = 0
    /\ EventList = Queue \X {"receive", "send"}

\* Nobody who is due waits for a round of the tick count; without that a call can miss its time.
ASSUME LateAssumption ==
    \A u \in Uses : \A t \in Task : \A c \in u.calls[t] :
        c.queue \in Queue /\ c.wait \notin {0, portMAX_DELAY} => c.wait + MaxLate < TickModulus

Mutexes == {q \in Queue : Kind[q] = "mutex"}

\* The calls that u lets task t make for mutexes.  Those of the firmware wait for ever; each of
\* its tasks that does wait for a time, if there are any, has one mutex.
MutexCalls(u, t) == {c \in u.calls[t] : c.queue \in Mutexes}
WaitsForEver(u) == \A t \in Task : \A c \in MutexCalls(u, t) : c.wait \in {0, portMAX_DELAY}
OneMutexEach(u) == \A t \in Task : \A c, d \in MutexCalls(u, t) : c.queue = d.queue

VARIABLES
    use,                  \* the alternative of this execution
    uxMessagesWaiting,
    storage,              \* the ring of a queue
    pcWriteTo,
    pcReadFrom,
    cTxLock,
    cRxLock,
    pxMutexHolder,
    call,                 \* what each task is calling
    xEntryTimeSet,
    xTimeOut,
    xInheritanceOccurred

ring == <<storage, pcWriteTo, pcReadFrom>>
locks == <<cTxLock, cRxLock>>
waits == <<xEntryTimeSet, xTimeOut, xInheritanceOccurred>>
queueVars == <<use, uxMessagesWaiting, ring, locks, pxMutexHolder, call, waits>>
allVars == <<schedulerVars, queueVars>>

queueUNLOCKED == -1
queueLOCKED_UNMODIFIED == 0
NoHolder == "none"

\* Mutexes are waited for without a limit, or else no task has two of them.
ASSUME MutexAssumption ==
    /\ NoHolder \notin Task
    /\ \A q \in Mutexes : uxLength[q] = 1
    /\ \A u \in Uses : WaitsForEver(u) \/ OneMutexEach(u)

NoCall == [op |-> "none", queue |-> "none", wait |-> 0, item |-> 0]
NoTimeOut == [xOverflowCount |-> 0, xTimeOnEntering |-> 0]

Receivers(q) == <<q, "receive">>
Senders(q) == <<q, "send">>

\* The tasks that this execution gives calls are ready; a mutex is created free.
QueuesInit ==
    /\ use \in Uses
    /\ SchedulerInit({t \in Task \ {Idle} : use.calls[t] = {}})
    /\ uxMessagesWaiting = [q \in Queue |-> IF Kind[q] = "mutex" THEN 1 ELSE 0]
    /\ storage = [q \in Queue |-> [i \in 0 .. uxLength[q] - 1 |-> 0]]
    /\ pcWriteTo = [q \in Queue |-> 0]
    /\ pcReadFrom = [q \in Queue |-> uxLength[q] - 1]
    /\ cTxLock = [q \in Queue |-> queueUNLOCKED]
    /\ cRxLock = [q \in Queue |-> queueUNLOCKED]
    /\ pxMutexHolder = [q \in Queue |-> NoHolder]
    /\ call = [t \in Task |-> NoCall]
    /\ xEntryTimeSet = [t \in Task |-> FALSE]
    /\ xTimeOut = [t \in Task |-> NoTimeOut]
    /\ xInheritanceOccurred = [t \in Task |-> FALSE]

-------------------------------------------------------------------------------
(* A call begins and ends. *)

\* The mutexes of the firmware are given by who took them, and no task takes one while it
\* holds one.
MayCall(t, c) ==
    Kind[c.queue] = "mutex" =>
        IF c.op = "give" THEN pxMutexHolder[c.queue] = t ELSE uxMutexesHeld[t] = 0

Begin(t, c) ==
    /\ Runs(t) /\ at[t] = "out"
    /\ MayCall(t, c)
    /\ call' = [call EXCEPT ![t] = c]
    /\ xTicksToWait' = [xTicksToWait EXCEPT ![t] = c.wait]
    /\ Goes(t, "enter")
    /\ UNCHANGED <<pxCurrentTCB, priorities, lists, xItemValue, event, xPendingReadyList,
                   uxSchedulerSuspended, xYieldPending, pendSV, clock, uxPendedTicks, then,
                   left, use, uxMessagesWaiting, ring, locks, pxMutexHolder, waits>>

\* The call returns: nothing of it is left on the stack, and nothing reads its wake time.
Returns(t) ==
    /\ Goes(t, "out")
    /\ call' = [call EXCEPT ![t] = NoCall]
    /\ xTicksToWait' = [xTicksToWait EXCEPT ![t] = 0]
    /\ xItemValue' = [xItemValue EXCEPT ![t] = 0]
    /\ left' = [left EXCEPT ![t] = NoDeadline]
    /\ xEntryTimeSet' = [xEntryTimeSet EXCEPT ![t] = FALSE]
    /\ xTimeOut' = [xTimeOut EXCEPT ![t] = NoTimeOut]
    /\ xInheritanceOccurred' = [xInheritanceOccurred EXCEPT ![t] = FALSE]
    /\ UNCHANGED <<pxCurrentTCB, uxSchedulerSuspended, clock, uxPendedTicks, then, use, locks>>

Full(q) == uxMessagesWaiting[q] = uxLength[q]
Empty(q) == uxMessagesWaiting[q] = 0

\* The queue has no room, or nothing to give: the call cannot proceed.
Stuck(t) ==
    IF call[t].op \in {"send", "give"} THEN Full(call[t].queue) ELSE Empty(call[t].queue)

\* Mutant: the ring wraps one place early.
AfterEarly(q, i) == IF i + 1 >= uxLength[q] - 1 THEN 0 ELSE i + 1

\* The index after i in the ring of queue q.
After(q, i) == (i + 1) % uxLength[q]

-------------------------------------------------------------------------------
(* The critical section of a call that can proceed: xTaskRemoveFromEventList wakes the first *)
(* task that waits for the opposite.                                                         *)

Proceeds(t, op) ==
    /\ Runs(t) /\ at[t] = "enter" /\ call[t].op = op
    /\ ~Stuck(t)
    /\ Returns(t)

\* xQueueGenericSend to a queue: prvCopyDataToQueue at the back.
SendProceeds(t) ==
    LET q == call[t].queue
    IN  /\ Proceeds(t, "send")
        /\ storage' = [storage EXCEPT ![q][pcWriteTo[q]] = call[t].item]
        /\ pcWriteTo' = [pcWriteTo EXCEPT ![q] = After(q, @)]
        /\ uxMessagesWaiting' = [uxMessagesWaiting EXCEPT ![q] = @ + 1]
        /\ xTaskRemoveFromEventList(Receivers(q), 1, uxPriority)
        /\ pendSV' = Outranks(Firsts(Receivers(q), 1), uxPriority)
        /\ UNCHANGED <<priorities, pcReadFrom, pxMutexHolder>>

\* xTaskPriorityDisinherit: task t gives a mutex and holds no other.
Disinherits(t) == uxPriority[t] # uxBasePriority[t] /\ uxMutexesHeld[t] = 1

\* Mutant: the priority is kept.
DisinheritedNot(t) == uxPriority

Disinherited(t) ==
    IF Disinherits(t) THEN [uxPriority EXCEPT ![t] = uxBasePriority[t]] ELSE uxPriority

\* xSemaphoreGive of a semaphore.
GiveProceeds(t) ==
    LET q == call[t].queue
    IN  /\ Proceeds(t, "give") /\ Kind[q] = "semaphore"
        /\ uxMessagesWaiting' = [uxMessagesWaiting EXCEPT ![q] = @ + 1]
        /\ xTaskRemoveFromEventList(Receivers(q), 1, uxPriority)
        /\ pendSV' = Outranks(Firsts(Receivers(q), 1), uxPriority)
        /\ UNCHANGED <<priorities, ring, pxMutexHolder>>

\* xSemaphoreGive of a mutex, by its holder.
MutexGiveProceeds(t) ==
    LET q == call[t].queue
    IN  /\ Proceeds(t, "give") /\ Kind[q] = "mutex"
        /\ uxMessagesWaiting' = [uxMessagesWaiting EXCEPT ![q] = @ + 1]
        /\ uxPriority' = Disinherited(t)
        /\ uxMutexesHeld' = [uxMutexesHeld EXCEPT ![t] = @ - 1]
        /\ pxMutexHolder' = [pxMutexHolder EXCEPT ![q] = NoHolder]
        /\ xTaskRemoveFromEventList(Receivers(q), 1, Disinherited(t))
        /\ pendSV' = IF event[Receivers(q)] = <<>> THEN Disinherits(t)
                     ELSE Outranks(Firsts(Receivers(q), 1), Disinherited(t))
        /\ UNCHANGED ring

\* xQueueReceive: prvCopyDataFromQueue.
ReceiveProceeds(t) ==
    LET q == call[t].queue
    IN  /\ Proceeds(t, "receive")
        /\ pcReadFrom' = [pcReadFrom EXCEPT ![q] = After(q, @)]
        /\ uxMessagesWaiting' = [uxMessagesWaiting EXCEPT ![q] = @ - 1]
        /\ xTaskRemoveFromEventList(Senders(q), 1, uxPriority)
        /\ pendSV' = Outranks(Firsts(Senders(q), 1), uxPriority)
        /\ UNCHANGED <<priorities, storage, pcWriteTo, pxMutexHolder>>

\* xQueueSemaphoreTake, with pvTaskIncrementMutexHeldCount for a mutex.
TakeProceeds(t) ==
    LET q == call[t].queue
    IN  /\ Proceeds(t, "take")
        /\ uxMessagesWaiting' = [uxMessagesWaiting EXCEPT ![q] = @ - 1]
        /\ IF Kind[q] = "mutex"
           THEN /\ pxMutexHolder' = [pxMutexHolder EXCEPT ![q] = t]
                /\ uxMutexesHeld' = [uxMutexesHeld EXCEPT ![t] = @ + 1]
           ELSE UNCHANGED <<pxMutexHolder, uxMutexesHeld>>
        /\ xTaskRemoveFromEventList(Senders(q), 1, uxPriority)
        /\ pendSV' = Outranks(Firsts(Senders(q), 1), uxPriority)
        /\ UNCHANGED <<uxPriority, ring>>

\* Nothing to wait for: the time has run out, or none was given.
GivesUp(t) ==
    /\ Runs(t) /\ at[t] = "enter"
    /\ Stuck(t) /\ xTicksToWait[t] = 0
    /\ Returns(t)
    /\ UNCHANGED <<priorities, lists, event, xPendingReadyList, xYieldPending, pendSV,
                   uxMessagesWaiting, ring, pxMutexHolder>>

-------------------------------------------------------------------------------
(* A call that has to wait. *)

\* The end of the critical section: the time of entry is stored once.
EntersWait(t) ==
    /\ Runs(t) /\ at[t] = "enter"
    /\ Stuck(t) /\ xTicksToWait[t] > 0
    /\ IF xEntryTimeSet[t]
       THEN UNCHANGED <<xEntryTimeSet, xTimeOut, left>>
       ELSE /\ xEntryTimeSet' = [xEntryTimeSet EXCEPT ![t] = TRUE]
            /\ xTimeOut' = [xTimeOut EXCEPT ![t] = TimeOutState]
            /\ left' = [left EXCEPT ![t] = IF xTicksToWait[t] = portMAX_DELAY THEN NoDeadline
                                           ELSE xTicksToWait[t]]
    /\ Goes(t, "suspend")
    /\ UNCHANGED <<pxCurrentTCB, priorities, lists, xItemValue, event, xPendingReadyList,
                   uxSchedulerSuspended, xYieldPending, pendSV, clock, uxPendedTicks, then,
                   xTicksToWait, use, uxMessagesWaiting, ring, locks, pxMutexHolder, call,
                   xInheritanceOccurred>>

Suspends(t) ==
    /\ Runs(t) /\ at[t] = "suspend"
    /\ vTaskSuspendAll(t, "lock")
    /\ UNCHANGED <<then, xTicksToWait, left, queueVars>>

Locked(n) == IF n = queueUNLOCKED THEN queueLOCKED_UNMODIFIED ELSE n

\* prvLockQueue.
prvLockQueue(t) ==
    /\ Runs(t) /\ at[t] = "lock"
    /\ cRxLock' = [cRxLock EXCEPT ![call[t].queue] = Locked(@)]
    /\ cTxLock' = [cTxLock EXCEPT ![call[t].queue] = Locked(@)]
    /\ Goes(t, "check")
    /\ UNCHANGED <<pxCurrentTCB, priorities, lists, xItemValue, event, xPendingReadyList,
                   uxSchedulerSuspended, xYieldPending, pendSV, clock, uxPendedTicks, then,
                   xTicksToWait, left, use, uxMessagesWaiting, ring, pxMutexHolder, call, waits>>

\* Steps below change where the task is, how it goes on, and its wait.
StepUnchanged ==
    UNCHANGED <<pxCurrentTCB, uxMutexesHeld, uxSchedulerSuspended, pendSV, xTickCount,
                xNumOfOverflows, uxPendedTicks, left, use, uxMessagesWaiting, ring,
                pxMutexHolder, call, xEntryTimeSet>>

\* xTaskCheckForTimeOut.
CheckForTimeOut(t) ==
    /\ Runs(t) /\ at[t] = "check"
    /\ \/ /\ xTicksToWait[t] = portMAX_DELAY
          /\ Goes(t, "test")
          /\ UNCHANGED <<xTicksToWait, xTimeOut, then>>
       \/ /\ xTicksToWait[t] # portMAX_DELAY /\ ~TimesOut(xTimeOut[t], xTicksToWait[t])
          /\ xTicksToWait' = [xTicksToWait EXCEPT ![t] = @ - Elapsed(xTimeOut[t])]
          /\ xTimeOut' = [xTimeOut EXCEPT ![t] = TimeOutState]
          /\ Goes(t, "test")
          /\ UNCHANGED then
       \/ /\ xTicksToWait[t] # portMAX_DELAY /\ TimesOut(xTimeOut[t], xTicksToWait[t])
          /\ xTicksToWait' = [xTicksToWait EXCEPT ![t] = IF Wrapped(xTimeOut[t]) THEN @ ELSE 0]
          /\ Goes(t, "unlock")
          /\ then' = [then EXCEPT ![t] = "expire"]
          /\ UNCHANGED xTimeOut
    /\ StepUnchanged
    /\ UNCHANGED <<uxPriority, lists, xItemValue, event, xPendingReadyList, xYieldPending,
                   xNextTaskUnblockTime, locks, xInheritanceOccurred>>

\* prvIsQueueFull, prvIsQueueEmpty: still nothing, or the call tries again.
Looks(t) ==
    /\ Runs(t) /\ at[t] = "test"
    /\ IF Stuck(t)
       THEN /\ Goes(t, IF Kind[call[t].queue] = "mutex" THEN "inherit" ELSE "place")
            /\ UNCHANGED then
       ELSE Goes(t, "unlock") /\ then' = [then EXCEPT ![t] = "again"]
    /\ StepUnchanged
    /\ UNCHANGED <<uxPriority, lists, xItemValue, event, xPendingReadyList, xYieldPending,
                   xNextTaskUnblockTime, locks, xInheritanceOccurred, xTicksToWait, xTimeOut>>

\* xTaskPriorityInherit: the holder gets the priority of the task that waits for it.
xTaskPriorityInherit(t) ==
    LET holder == pxMutexHolder[call[t].queue]
    IN  /\ Runs(t) /\ at[t] = "inherit"
        /\ uxPriority' = IF uxPriority[holder] < uxPriority[t]
                         THEN [uxPriority EXCEPT ![holder] = uxPriority[t]] ELSE uxPriority
        /\ xInheritanceOccurred' =
               [xInheritanceOccurred EXCEPT ![t] = uxPriority[holder] < uxPriority[t]
                                                   \/ uxBasePriority[holder] < uxPriority[t]]
        /\ Goes(t, "place")
        /\ StepUnchanged
        /\ UNCHANGED <<lists, xItemValue, event, xPendingReadyList, xYieldPending,
                       xNextTaskUnblockTime, locks, then, xTicksToWait, xTimeOut>>

Place(t) ==
    /\ Runs(t) /\ at[t] = "place"
    /\ vTaskPlaceOnEventList(IF call[t].op = "send" THEN Senders(call[t].queue)
                             ELSE Receivers(call[t].queue), xTicksToWait[t])
    /\ Goes(t, "unlock")
    /\ then' = [then EXCEPT ![t] = "block"]
    /\ StepUnchanged
    /\ UNCHANGED <<uxPriority, xPendingReadyList, xYieldPending, locks, xInheritanceOccurred,
                   xTicksToWait, xTimeOut>>

\* Mutant: what interrupts posted while the queue was locked is forgotten.
UnlockForgets(t) ==
    /\ Runs(t) /\ at[t] = "unlock"
    /\ cTxLock' = [cTxLock EXCEPT ![call[t].queue] = queueUNLOCKED]
    /\ Goes(t, "unlockRx")
    /\ StepUnchanged
    /\ UNCHANGED <<uxPriority, lists, xItemValue, event, xPendingReadyList, xYieldPending,
                   xNextTaskUnblockTime, cRxLock, then, xTicksToWait, xTimeOut,
                   xInheritanceOccurred>>

\* prvUnlockQueue: a receiver is woken for every item that came while the queue was locked.
prvUnlockQueue(t) ==
    LET q == call[t].queue
    IN  /\ Runs(t) /\ at[t] = "unlock"
        /\ xTaskRemoveFromEventList(Receivers(q), cTxLock[q], uxPriority)
        /\ cTxLock' = [cTxLock EXCEPT ![q] = queueUNLOCKED]
        /\ Goes(t, "unlockRx")
        /\ StepUnchanged
        /\ UNCHANGED <<uxPriority, xItemValue, xNextTaskUnblockTime, cRxLock, then,
                       xTicksToWait, xTimeOut, xInheritanceOccurred>>

\* The same for the senders, in a critical section of its own.
prvUnlockQueueRx(t) ==
    LET q == call[t].queue
    IN  /\ Runs(t) /\ at[t] = "unlockRx"
        /\ xTaskRemoveFromEventList(Senders(q), cRxLock[q], uxPriority)
        /\ cRxLock' = [cRxLock EXCEPT ![q] = queueUNLOCKED]
        /\ Goes(t, "resume")
        /\ StepUnchanged
        /\ UNCHANGED <<uxPriority, xItemValue, xNextTaskUnblockTime, cTxLock, then,
                       xTicksToWait, xTimeOut, xInheritanceOccurred>>

-------------------------------------------------------------------------------
(* The time has run out. *)

\* A sender returns; the others look once more.
Expired(t) ==
    /\ Runs(t) /\ at[t] = "expired"
    /\ call[t].op = "send" \/ (Stuck(t) /\ ~xInheritanceOccurred[t])
    /\ Returns(t)
    /\ UNCHANGED <<priorities, lists, event, xPendingReadyList, xYieldPending, pendSV,
                   uxMessagesWaiting, ring, pxMutexHolder>>

ExpiredLooks(t) ==
    /\ Runs(t) /\ at[t] = "expired"
    /\ call[t].op # "send"
    /\ IF Stuck(t) THEN xInheritanceOccurred[t] /\ Goes(t, "disinherit") ELSE Goes(t, "enter")
    /\ StepUnchanged
    /\ UNCHANGED <<uxPriority, lists, xItemValue, event, xPendingReadyList, xYieldPending,
                   xNextTaskUnblockTime, locks, then, xTicksToWait, xTimeOut,
                   xInheritanceOccurred>>

\* prvGetDisinheritPriorityAfterTimeout.
WaitingPriority(q) ==
    IF event[Receivers(q)] = <<>> THEN 0 ELSE uxPriority[Head(event[Receivers(q)])]

\* vTaskPriorityDisinheritAfterTimeout: the holder keeps what others that wait gave it.
DisinheritAfterTimeout(t) ==
    LET q == call[t].queue
        holder == pxMutexHolder[q]
        priority == IF uxBasePriority[holder] < WaitingPriority(q) THEN WaitingPriority(q)
                    ELSE uxBasePriority[holder]
    IN  /\ Runs(t) /\ at[t] = "disinherit"
        /\ IF holder # NoHolder /\ uxMutexesHeld[holder] = 1
           THEN uxPriority' = [uxPriority EXCEPT ![holder] = priority]
           ELSE UNCHANGED uxPriority
        /\ Returns(t)
        /\ UNCHANGED <<uxMutexesHeld, lists, event, xPendingReadyList, xYieldPending, pendSV,
                       uxMessagesWaiting, ring, pxMutexHolder>>

-------------------------------------------------------------------------------

\* xSemaphoreGiveFromISR, with the yield that the handler asks for.
xQueueGiveFromISR(q) ==
    /\ ~Critical
    /\ ~Full(q)
    /\ uxMessagesWaiting' = [uxMessagesWaiting EXCEPT ![q] = @ + 1]
    /\ IF cTxLock[q] = queueUNLOCKED
       THEN /\ xTaskRemoveFromEventList(Receivers(q), 1, uxPriority)
            /\ pendSV' = (pendSV \/ Outranks(Firsts(Receivers(q), 1), uxPriority))
            /\ UNCHANGED cTxLock
       ELSE /\ cTxLock' = [cTxLock EXCEPT ![q] = @ + 1]
            /\ UNCHANGED <<event, lists, xPendingReadyList, xYieldPending, pendSV>>
    /\ UNCHANGED <<pxCurrentTCB, priorities, xItemValue, uxSchedulerSuspended, clock,
                   uxPendedTicks, control, use, ring, cRxLock, pxMutexHolder, call, waits>>

\* What a task does between two calls: one of those that this execution gives it.
Calls(t) ==
    \E c \in use.calls[t] :
        \/ c.op = "delay" /\ vTaskDelay(t, c.wait) /\ UNCHANGED queueVars
        \/ c.op = "heap" /\ HeapSuspends(t) /\ UNCHANGED queueVars
        \/ c.op = "yield" /\ vTaskYield(t) /\ UNCHANGED queueVars
        \/ c.queue \in Queue /\ Begin(t, c)

KernelNext ==
    \/ SchedulerStep /\ UNCHANGED queueVars
    \/ \E q \in use.isr : xQueueGiveFromISR(q)
    \/ \E t \in Task :
          \/ Calls(t)
          \/ SendProceeds(t) \/ GiveProceeds(t) \/ MutexGiveProceeds(t)
          \/ ReceiveProceeds(t) \/ TakeProceeds(t) \/ GivesUp(t)
          \/ EntersWait(t) \/ Suspends(t) \/ prvLockQueue(t) \/ CheckForTimeOut(t) \/ Looks(t)
          \/ xTaskPriorityInherit(t) \/ Place(t) \/ prvUnlockQueue(t) \/ prvUnlockQueueRx(t)
          \/ Expired(t) \/ ExpiredLooks(t) \/ DisinheritAfterTimeout(t)

KernelSpec == QueuesInit /\ [][KernelNext]_allVars

-------------------------------------------------------------------------------

\* What a queue holds, oldest first.
Contents(q) == [i \in 1 .. uxMessagesWaiting[q] |-> storage[q][(pcReadFrom[q] + i) % uxLength[q]]]

\* A queue delivers what was sent, each item once and in order: a step leaves the contents as
\* they are, or the running task's send appends its item, or a receive takes the oldest.
QueueFifo ==
    [][\A q \in Queue : Kind[q] = "queue" /\ Contents(q)' # Contents(q) =>
          LET c == call[pxCurrentTCB]
          IN  /\ c.queue = q
              /\ \/ c.op = "send" /\ Contents(q)' = Append(Contents(q), c.item)
                 \/ c.op = "receive" /\ Contents(q)' = Tail(Contents(q))]_allVars

\* The tasks that wait for queue q in a call of ops, and those past their first look at it that
\* do not: they are on their way into the wait, or woken.
Waiting(q, ops) ==
    {t \in Blocked \ xPendingReadyList : call[t].queue = q /\ call[t].op \in ops}
InFlight(q, ops) ==
    {t \in Task \ Waiting(q, ops) : call[t].queue = q /\ call[t].op \in ops /\ xEntryTimeSet[t]}

\* No wake-up is lost between a call's look at the queue and its wait: while somebody waits for
\* an unlocked queue, every item there, and every free place, has a task awake that will take
\* it, in spite of interrupts that give while the queue is locked and the scheduler suspended.
NoLostWakeup ==
    \A q \in Queue :
        /\ cTxLock[q] = queueUNLOCKED /\ Waiting(q, {"receive", "take"}) # {} =>
               uxMessagesWaiting[q] <= Cardinality(InFlight(q, {"receive", "take"}))
        /\ cRxLock[q] = queueUNLOCKED /\ Waiting(q, {"send"}) # {} =>
               uxLength[q] - uxMessagesWaiting[q] <= Cardinality(InFlight(q, {"send"}))

\* Task t made the holder of a mutex inherit its priority, and its time has run out since.
WaitedInVain(t) == xInheritanceOccurred[t] /\ left[t] <= 0

\* A ready task never waits behind one of a lower priority: unless the scheduler is suspended
\* or a context switch is pending, nobody ready outranks the task that runs.  The exception is
\* for as long as a task whose timed wait for a mutex expired is ready and the holder, who had
\* its priority, gives the mutex while somebody of a lower priority waits, too:
\* xQueueGenericSend then does not yield though the holder's priority fell.  Those up to the
\* priority of the task that waited wait with it for the next yield.
HighestRuns ==
    uxSchedulerSuspended = 0 /\ ~Critical /\ ~pendSV =>
        /\ \A t \in Ready :
               \/ uxPriority[t] <= uxPriority[pxCurrentTCB]
               \/ \E w \in Ready : WaitedInVain(w) /\ uxPriority[t] <= uxPriority[w]
        /\ pxCurrentTCB \in Ready \/ at[pxCurrentTCB] = "yield"

\* Priority inheritance: who holds a mutex is not outranked by anybody that waits for it, also
\* after another's wait has timed out, and who holds none has its own priority again.
NoInversion ==
    /\ \A q \in Queue : pxMutexHolder[q] # NoHolder =>
           \A i \in DOMAIN event[Receivers(q)] :
               uxPriority[event[Receivers(q)][i]] <= uxPriority[pxMutexHolder[q]]
    /\ \A t \in Task : uxMutexesHeld[t] = 0 => uxPriority[t] = uxBasePriority[t]

\* Nobody oversleeps: while the scheduler is not suspended, no task is in a delayed list whose
\* time has come, though the tick count overflowed, ticks were pended, or the list's head was
\* woken by an event meanwhile.
NoOversleep ==
    uxSchedulerSuspended = 0 /\ ~Critical =>
        \A t \in pxDelayedTaskList \cup pxOverflowDelayedTaskList : left[t] > 0

\* Nobody is early: vTaskDelay does not return, and a call does not give up waiting, before the
\* ticks that were asked for have passed.
NotEarly ==
    \A t \in Task :
        /\ at[t] = "slept" /\ t \in Ready => left[t] <= 0
        /\ at[t] = "expired" => left[t] <= 0
================================================================================
