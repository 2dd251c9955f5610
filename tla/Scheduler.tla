------------------------------- MODULE Scheduler -------------------------------
(***************************************************************************)
(* Tasks and time (tasks.c of FreeRTOS): the tick, the delayed lists that  *)
(* are switched when it overflows, the scheduler's suspension with the     *)
(* ticks and the wake-ups it holds back, and priorities.  The queues that  *)
(* tasks wait on are in Queues, which uses the operators of this module.   *)
(*                                                                         *)
(* A list of tasks is a set where only its members matter; an event list,  *)
(* whose order is the order of wake-ups, is a sequence.  A critical        *)
(* section is one step; the loop of xTaskResumeAll over the pended ticks   *)
(* takes a step for each, during which no interrupt is taken.              *)
(***************************************************************************)
EXTENDS FiniteSets, Integers, SequencesExt

CONSTANTS
    Task,
    Idle,             \* the idle task, which never waits
    uxBasePriority,   \* the priority each task was created with
    EventList,        \* the lists that tasks wait on for an event
    TickModulus,      \* 2^32
    OverflowModulus,  \* the width of xNumOfOverflows
    MaxPended,        \* bound: ticks while the scheduler is suspended
    MaxLate           \* bound: ticks by which a task that is due may not have run

ASSUME TaskAssumption ==
    /\ IsFiniteSet(Task)
    /\ Idle \in Task
    /\ uxBasePriority \in [Task -> Nat]

ASSUME TickAssumption ==
    /\ TickModulus \in Nat /\ TickModulus > 2
    /\ OverflowModulus \in Nat /\ OverflowModulus > 1
    /\ MaxPended \in Nat /\ MaxLate \in Nat

portMAX_DELAY == TickModulus - 1
TickType == {n \in Nat : n < TickModulus}

\* Unsigned arithmetic on ticks.
TickPlus(a, b) == IF a + b < TickModulus THEN a + b ELSE a + b - TickModulus
TickMinus(a, b) == IF a >= b THEN a - b ELSE a - b + TickModulus

VARIABLES
    pxCurrentTCB,
    uxPriority,
    uxMutexesHeld,
    pxDelayedTaskList,
    pxOverflowDelayedTaskList,
    xSuspendedTaskList,
    xItemValue,              \* of a task's state list item: its wake time
    event,                   \* the event lists
    xPendingReadyList,
    uxSchedulerSuspended,
    xYieldPending,
    pendSV,                  \* the context switch interrupt is pending
    xTickCount,
    xNumOfOverflows,
    uxPendedTicks,
    xNextTaskUnblockTime,
    at,                      \* where each task is
    then,                    \* and what follows when it resumes the scheduler
    xTicksToWait,
    left                     \* history: ticks until what each task asked for is due

lists == <<pxDelayedTaskList, pxOverflowDelayedTaskList, xSuspendedTaskList>>
clock == <<xTickCount, xNumOfOverflows, xNextTaskUnblockTime>>
priorities == <<uxPriority, uxMutexesHeld>>
control == <<at, then, xTicksToWait, left>>
schedulerVars ==
    <<pxCurrentTCB, priorities, lists, xItemValue, event, xPendingReadyList,
      uxSchedulerSuspended, xYieldPending, pendSV, clock, uxPendedTicks, control>>

\* No time has been asked for.
NoDeadline == TickModulus

Blocked == pxDelayedTaskList \cup pxOverflowDelayedTaskList \cup xSuspendedTaskList
Ready == Task \ Blocked

\* Interrupts are masked: xTaskResumeAll is working off the pended ticks.
Critical == at[pxCurrentTCB] = "ticks"

\* Task t executes its next step.
Runs(t) == t = pxCurrentTCB /\ ~pendSV

\* The scheduler starts; the tasks of S wait for something that never happens.
SchedulerInit(S) ==
    /\ pxCurrentTCB \in {t \in Task \ S : \A u \in Task \ S : uxBasePriority[u] <= uxBasePriority[t]}
    /\ uxPriority = uxBasePriority
    /\ uxMutexesHeld = [t \in Task |-> 0]
    /\ pxDelayedTaskList = {} /\ pxOverflowDelayedTaskList = {} /\ xSuspendedTaskList = S
    /\ xItemValue = [t \in Task |-> 0]
    /\ event = [l \in EventList |-> <<>>]
    /\ xPendingReadyList = {}
    /\ uxSchedulerSuspended = 0
    /\ xYieldPending = FALSE /\ pendSV = FALSE
    /\ xTickCount = 0 /\ xNumOfOverflows = 0 /\ uxPendedTicks = 0
    /\ xNextTaskUnblockTime = portMAX_DELAY
    /\ at = [t \in Task |-> "out"] /\ then = [t \in Task |-> "none"]
    /\ xTicksToWait = [t \in Task |-> 0]
    /\ left = [t \in Task |-> NoDeadline]

-------------------------------------------------------------------------------
(* The state lists. *)

\* prvAddTaskToReadyList of every task of S.
MakeReady(S) ==
    /\ pxDelayedTaskList' = pxDelayedTaskList \ S
    /\ pxOverflowDelayedTaskList' = pxOverflowDelayedTaskList \ S
    /\ xSuspendedTaskList' = xSuspendedTaskList \ S

\* The time at which the first task of a delayed list is due (prvResetNextTaskUnblockTime).
UnblockTime(delayed) ==
    IF delayed = {} THEN portMAX_DELAY
    ELSE CHOOSE n \in {xItemValue[t] : t \in delayed} : \A t \in delayed : n <= xItemValue[t]

\* Mutant: a wake time that overflowed goes to the current list.
AddIgnoresOverflow(ticks, xCanBlockIndefinitely) ==
    LET wake == TickPlus(xTickCount, ticks)
    IN  /\ xItemValue' = [xItemValue EXCEPT ![pxCurrentTCB] = wake]
        /\ pxDelayedTaskList' = pxDelayedTaskList \cup {pxCurrentTCB}
        /\ xNextTaskUnblockTime' =
               IF wake < xNextTaskUnblockTime THEN wake ELSE xNextTaskUnblockTime
        /\ UNCHANGED <<pxOverflowDelayedTaskList, xSuspendedTaskList>>

prvAddCurrentTaskToDelayedList(ticks, xCanBlockIndefinitely) ==
    LET wake == TickPlus(xTickCount, ticks)
    IN  \/ /\ ticks = portMAX_DELAY /\ xCanBlockIndefinitely
           /\ xSuspendedTaskList' = xSuspendedTaskList \cup {pxCurrentTCB}
           /\ UNCHANGED <<pxDelayedTaskList, pxOverflowDelayedTaskList, xItemValue,
                          xNextTaskUnblockTime>>
        \/ /\ ticks # portMAX_DELAY \/ ~xCanBlockIndefinitely
           /\ xItemValue' = [xItemValue EXCEPT ![pxCurrentTCB] = wake]
           /\ IF wake < xTickCount
              THEN /\ pxOverflowDelayedTaskList' = pxOverflowDelayedTaskList \cup {pxCurrentTCB}
                   /\ UNCHANGED <<pxDelayedTaskList, xNextTaskUnblockTime>>
              ELSE /\ pxDelayedTaskList' = pxDelayedTaskList \cup {pxCurrentTCB}
                   /\ xNextTaskUnblockTime' =
                          IF wake < xNextTaskUnblockTime THEN wake ELSE xNextTaskUnblockTime
                   /\ UNCHANGED pxOverflowDelayedTaskList
           /\ UNCHANGED xSuspendedTaskList

-------------------------------------------------------------------------------
(* Event lists. *)

\* List s without the tasks of S.
Without(s, S) ==
    LET kept[i \in 0 .. Len(s)] ==
            IF i = 0 THEN <<>>
            ELSE IF s[i] \in S THEN kept[i - 1] ELSE Append(kept[i - 1], s[i])
    IN  kept[Len(s)]

\* vListInsert of task t into list s: before the first task of a lower priority.
InOrder(s, t) ==
    LET lower == {i \in DOMAIN s : uxPriority[s[i]] < uxPriority[t]}
        i == IF lower = {} THEN Len(s) + 1 ELSE CHOOSE j \in lower : \A k \in lower : j <= k
    IN  InsertAt(s, i, t)

vTaskPlaceOnEventList(l, ticks) ==
    /\ event' = [event EXCEPT ![l] = InOrder(@, pxCurrentTCB)]
    /\ prvAddCurrentTaskToDelayedList(ticks, TRUE)

\* The first n tasks of a list.
Firsts(l, n) == {event[l][i] : i \in 1 .. (IF n < Len(event[l]) THEN n ELSE Len(event[l]))}

\* What xTaskRemoveFromEventList returns when it removes the tasks of S, priorities being p.
Outranks(S, p) == \E t \in S : p[t] > p[pxCurrentTCB]

\* xTaskRemoveFromEventList, called n times at most as long as somebody waits.
xTaskRemoveFromEventList(l, n, p) ==
    /\ event' = [event EXCEPT ![l] = Without(@, Firsts(l, n))]
    /\ IF uxSchedulerSuspended = 0
       THEN MakeReady(Firsts(l, n)) /\ UNCHANGED xPendingReadyList
       ELSE xPendingReadyList' = xPendingReadyList \cup Firsts(l, n) /\ UNCHANGED lists
    /\ xYieldPending' = (xYieldPending \/ Outranks(Firsts(l, n), p))

-------------------------------------------------------------------------------
(* The tick. *)

\* Mutant: xNextTaskUnblockTime is left as it was when the lists are switched.
SwitchedListsUnblockTime(tick) == xNextTaskUnblockTime

\* taskSWITCH_DELAYED_LISTS when the tick count wraps to 0.
CurrentDelayed(tick) == IF tick = 0 THEN pxOverflowDelayedTaskList ELSE pxDelayedTaskList
CurrentUnblockTime(tick) ==
    IF tick = 0 THEN UnblockTime(pxOverflowDelayedTaskList) ELSE xNextTaskUnblockTime

\* The tasks to wake at this tick: none is looked for before xNextTaskUnblockTime.
Due(tick) ==
    IF tick < CurrentUnblockTime(tick) THEN {}
    ELSE {t \in CurrentDelayed(tick) : xItemValue[t] <= tick}

\* xTaskIncrementTick with the scheduler not suspended.
IncrementTick ==
    LET tick == TickPlus(xTickCount, 1)
    IN  /\ xTickCount' = tick
        /\ xNumOfOverflows' = IF tick = 0 THEN (xNumOfOverflows + 1) % OverflowModulus
                              ELSE xNumOfOverflows
        /\ pxDelayedTaskList' = CurrentDelayed(tick) \ Due(tick)
        /\ pxOverflowDelayedTaskList' =
               IF tick = 0 THEN pxDelayedTaskList ELSE pxOverflowDelayedTaskList
        /\ xNextTaskUnblockTime' =
               IF tick < CurrentUnblockTime(tick) THEN CurrentUnblockTime(tick)
               ELSE UnblockTime(CurrentDelayed(tick) \ Due(tick))
        /\ event' = [l \in EventList |-> Without(event[l], Due(tick))]

\* Mutant: who is woken waits for the next yield.
SwitchRequiredLater == xYieldPending

\* A task that is woken is not outranked by the current one, or it is a peer's turn.
SwitchRequired ==
    \/ \E t \in Due(TickPlus(xTickCount, 1)) : uxPriority[t] >= uxPriority[pxCurrentTCB]
    \/ Cardinality({t \in Ready \cup Due(TickPlus(xTickCount, 1)) :
                       uxPriority[t] = uxPriority[pxCurrentTCB]}) > 1
    \/ xYieldPending

OneTickLess == [t \in Task |-> IF left[t] = NoDeadline THEN NoDeadline ELSE left[t] - 1]

\* xPortSysTickHandler.
SysTick ==
    /\ ~Critical
    /\ uxSchedulerSuspended = 0
    /\ \A t \in Task : left[t] > -MaxLate
    /\ IncrementTick
    /\ pendSV' = (pendSV \/ SwitchRequired)
    /\ left' = OneTickLess
    /\ UNCHANGED <<pxCurrentTCB, priorities, xSuspendedTaskList, xItemValue, xPendingReadyList,
                   uxSchedulerSuspended, xYieldPending, uxPendedTicks, at, then, xTicksToWait>>

SysTickPended ==
    /\ ~Critical
    /\ uxSchedulerSuspended > 0
    /\ uxPendedTicks < MaxPended
    /\ \A t \in Task : left[t] > -MaxLate
    /\ uxPendedTicks' = uxPendedTicks + 1
    /\ pendSV' = (pendSV \/ xYieldPending)
    /\ left' = OneTickLess
    /\ UNCHANGED <<pxCurrentTCB, priorities, lists, xItemValue, event, xPendingReadyList,
                   uxSchedulerSuspended, xYieldPending, clock, at, then, xTicksToWait>>

-------------------------------------------------------------------------------
(* Context switches and the scheduler's suspension. *)

\* The PendSV interrupt.  Which of the ready tasks of the highest priority is next in its
\* list is left open.
vTaskSwitchContext ==
    /\ pendSV
    /\ ~Critical
    /\ pendSV' = FALSE
    /\ IF uxSchedulerSuspended > 0
       THEN xYieldPending' = TRUE /\ UNCHANGED pxCurrentTCB
       ELSE /\ xYieldPending' = FALSE
            /\ pxCurrentTCB' \in {t \in Ready : \A u \in Ready : uxPriority[u] <= uxPriority[t]}
    /\ UNCHANGED <<priorities, lists, xItemValue, event, xPendingReadyList,
                   uxSchedulerSuspended, clock, uxPendedTicks, control>>

Goes(t, label) == at' = [at EXCEPT ![t] = label]

\* vTaskSuspendAll.
vTaskSuspendAll(t, label) ==
    /\ uxSchedulerSuspended' = uxSchedulerSuspended + 1
    /\ Goes(t, label)
    /\ UNCHANGED <<pxCurrentTCB, priorities, lists, xItemValue, event, xPendingReadyList,
                   xYieldPending, pendSV, clock, uxPendedTicks>>

\* xTaskResumeAll: the tasks that were woken meanwhile become ready.  Suspensions do not nest
\* in this firmware, so the count returns to 0.
xTaskResumeAll(t) ==
    /\ Runs(t) /\ at[t] = "resume"
    /\ uxSchedulerSuspended' = uxSchedulerSuspended - 1
    /\ MakeReady(xPendingReadyList)
    /\ xPendingReadyList' = {}
    /\ xYieldPending' = (xYieldPending \/
                         \E u \in xPendingReadyList : uxPriority[u] >= uxPriority[t])
    /\ xNextTaskUnblockTime' =
           IF xPendingReadyList = {} THEN xNextTaskUnblockTime
           ELSE UnblockTime(pxDelayedTaskList \ xPendingReadyList)
    /\ Goes(t, "ticks")
    /\ UNCHANGED <<pxCurrentTCB, priorities, xItemValue, event, pendSV, xTickCount,
                   xNumOfOverflows, uxPendedTicks, then, xTicksToWait, left>>

\* Then each pended tick is processed; the copy that is counted down is uxPendedTicks itself,
\* which nothing else reads until it is 0.
ResumeTick(t) ==
    /\ Runs(t) /\ at[t] = "ticks"
    /\ uxPendedTicks > 0
    /\ uxPendedTicks' = uxPendedTicks - 1
    /\ IncrementTick
    /\ xYieldPending' = SwitchRequired
    /\ UNCHANGED <<pxCurrentTCB, priorities, xSuspendedTaskList, xItemValue, xPendingReadyList,
                   uxSchedulerSuspended, pendSV, control>>

\* Where a task goes on once it runs again.
Continues(t) ==
    CASE then[t] = "sleep" -> "slept"
      [] then[t] = "hold" -> "out"
      [] then[t] \in {"block", "again"} -> "enter"
      [] then[t] = "expire" -> "expired"

\* The end: a yield that became due meanwhile; a task that blocked itself yields anyway.
ResumeEnds(t) ==
    /\ Runs(t) /\ at[t] = "ticks"
    /\ uxPendedTicks = 0
    /\ pendSV' = xYieldPending
    /\ IF then[t] \in {"sleep", "block"} /\ ~xYieldPending
       THEN Goes(t, "yield") /\ UNCHANGED then
       ELSE Goes(t, Continues(t)) /\ then' = [then EXCEPT ![t] = "none"]
    /\ UNCHANGED <<pxCurrentTCB, priorities, lists, xItemValue, event, xPendingReadyList,
                   uxSchedulerSuspended, xYieldPending, clock, uxPendedTicks, xTicksToWait,
                   left>>

portYIELD_WITHIN_API(t) ==
    /\ Runs(t) /\ at[t] = "yield"
    /\ pendSV' = TRUE
    /\ Goes(t, Continues(t)) /\ then' = [then EXCEPT ![t] = "none"]
    /\ UNCHANGED <<pxCurrentTCB, priorities, lists, xItemValue, event, xPendingReadyList,
                   uxSchedulerSuspended, xYieldPending, clock, uxPendedTicks, xTicksToWait,
                   left>>

-------------------------------------------------------------------------------
(* vTaskDelay, and the suspension of the scheduler by others. *)

vTaskDelay(t, ticks) ==
    /\ Runs(t) /\ at[t] = "out"
    /\ ticks > 0
    /\ vTaskSuspendAll(t, "delay")
    /\ then' = [then EXCEPT ![t] = "sleep"]
    /\ xTicksToWait' = [xTicksToWait EXCEPT ![t] = ticks]
    /\ left' = [left EXCEPT ![t] = ticks]

\* A delay of 0 is a yield.
vTaskYield(t) ==
    /\ Runs(t) /\ at[t] = "out"
    /\ pendSV' = TRUE
    /\ UNCHANGED <<pxCurrentTCB, priorities, lists, xItemValue, event, xPendingReadyList,
                   uxSchedulerSuspended, xYieldPending, clock, uxPendedTicks, control>>

DelayAdds(t) ==
    /\ Runs(t) /\ at[t] = "delay"
    /\ prvAddCurrentTaskToDelayedList(xTicksToWait[t], FALSE)
    /\ xTicksToWait' = [xTicksToWait EXCEPT ![t] = 0]
    /\ Goes(t, "resume")
    /\ UNCHANGED <<pxCurrentTCB, priorities, event, xPendingReadyList, uxSchedulerSuspended,
                   xYieldPending, pendSV, xTickCount, xNumOfOverflows, uxPendedTicks, then,
                   left>>

\* vTaskDelay returns; nothing reads the task's wake time any more.
DelayEnds(t) ==
    /\ Runs(t) /\ at[t] = "slept"
    /\ Goes(t, "out")
    /\ xItemValue' = [xItemValue EXCEPT ![t] = 0]
    /\ left' = [left EXCEPT ![t] = NoDeadline]
    /\ UNCHANGED <<pxCurrentTCB, priorities, lists, event, xPendingReadyList,
                   uxSchedulerSuspended, xYieldPending, pendSV, clock, uxPendedTicks, then,
                   xTicksToWait>>

\* pvPortMalloc and vPortFree suspend the scheduler for their work.
HeapSuspends(t) ==
    /\ Runs(t) /\ at[t] = "out"
    /\ vTaskSuspendAll(t, "resume")
    /\ then' = [then EXCEPT ![t] = "hold"]
    /\ UNCHANGED <<xTicksToWait, left>>

SchedulerStep ==
    \/ SysTick \/ SysTickPended \/ vTaskSwitchContext
    \/ \E t \in Task :
          \/ xTaskResumeAll(t) \/ ResumeTick(t) \/ ResumeEnds(t) \/ portYIELD_WITHIN_API(t)
          \/ DelayAdds(t) \/ DelayEnds(t)

-------------------------------------------------------------------------------
(* Time-outs of calls. *)

\* vTaskInternalSetTimeOutState.
TimeOutState == [xOverflowCount |-> xNumOfOverflows, xTimeOnEntering |-> xTickCount]

Elapsed(timeout) == TickMinus(xTickCount, timeout.xTimeOnEntering)

\* The tick count has come round past the time of entry.
Wrapped(timeout) ==
    xNumOfOverflows # timeout.xOverflowCount /\ xTickCount >= timeout.xTimeOnEntering

\* xTaskCheckForTimeOut, of a wait that is not indefinite.
TimesOut(timeout, ticks) == Wrapped(timeout) \/ Elapsed(timeout) >= ticks
================================================================================
