------------------------------- MODULE MCPlatform -------------------------------
(***************************************************************************)
(* Small instances for TLC of what the firmware's tasks stand on: the      *)
(* kernel, the heap under arbitrary use, and the heap under the messages   *)
(* of the commands.  They share no state here, so that an execution is one *)
(* of the three, told by "part".  Under arbitrary use the blocks given out *)
(* are with others than the motion tasks: they count as mailboxes.         *)
(***************************************************************************)
EXTENDS Queues, MessageHeap

VARIABLE part

MCTask == {"idle", "low", "low2", "mid", "high"}
MCPriority == [idle |-> 0, low |-> 1, low2 |-> 1, mid |-> 2, high |-> 3]
MCQueue == {"q", "sem", "mutex"}
MCEventList == MCQueue \X {"receive", "send"}
MCKind == [q |-> "queue", sem |-> "semaphore", mutex |-> "mutex"]
MCLength == [q |-> 2, sem |-> 1, mutex |-> 1]

Op(op, q, wait) == [op |-> op, queue |-> q, wait |-> wait, item |-> 0]
Delay(n) == Op("delay", "none", n)
HeapUse == Op("heap", "none", 0)
Yield == Op("yield", "none", 0)
TakeSem(n) == Op("take", "sem", n)
GiveSem == Op("give", "sem", 0)
Lock(n) == Op("take", "mutex", n)
Unlock == Op("give", "mutex", 0)
GetItem(n) == Op("receive", "q", n)
Put(item, n) == [op |-> "send", queue |-> "q", wait |-> n, item |-> item]

CallsOf(low, mid, high) ==
    [idle |-> {}, low |-> low, low2 |-> {}, mid |-> mid, high |-> high]

\* The tick count has 4 values, so that every wait of 1 or more can overflow; 3 is
\* portMAX_DELAY, for ever in a call and a time like another in vTaskDelay.
MCUses ==
    {\* delays, a task that suspends the scheduler, interrupts
     [isr |-> {"sem"},
      calls |-> CallsOf({Delay(2), HeapUse}, {Delay(3), Yield}, {Delay(1), Delay(2)})],
     \* two tasks and an interrupt on one semaphore
     [isr |-> {"sem"},
      calls |-> CallsOf({TakeSem(1)}, {}, {TakeSem(1), TakeSem(3)})],
     \* a semaphore given by a task
     [isr |-> {},
      calls |-> CallsOf({GiveSem, HeapUse}, {}, {TakeSem(1), TakeSem(3)})],
     \* three tasks, one mutex, timed waits; two tasks that wait for ever
     [isr |-> {},
      calls |-> CallsOf({Lock(1), Unlock}, {Delay(1), Lock(2), Unlock},
                       {Delay(1), Lock(1), Unlock})],
     [isr |-> {},
      calls |-> CallsOf({Lock(3), Unlock}, {}, {Delay(1), Lock(3), Unlock})],
     \* the same with two of the lowest priority, and a task that the mutex is nothing to
     [isr |-> {},
      calls |-> [idle |-> {}, low |-> {Lock(0), Unlock}, low2 |-> {Lock(3), Unlock},
                 mid |-> {Delay(1)}, high |-> {Delay(1), Lock(1), Unlock}]],
     \* two senders, one of which does not wait, and a receiver of high priority; the reverse
     [isr |-> {},
      calls |-> CallsOf({Put(1, 3), Put(2, 3)}, {Put(3, 0)}, {GetItem(1), GetItem(3)})],
     [isr |-> {},
      calls |-> CallsOf({GetItem(3)}, {Put(3, 1)}, {Put(1, 3)})]}

MCSize == [arm |-> 3]
MCQueueLen == [arm |-> 2]

PlatformInit ==
    /\ part \in {"kernel", "heap", "messages"}
    /\ QueuesInit
    /\ part # "kernel" => use = CHOOSE u \in Uses : TRUE
    /\ Init

PlatformNext ==
    /\ UNCHANGED part
    /\ \/ part = "kernel" /\ KernelNext /\ UNCHANGED messageVars
       \/ part = "heap" /\ Next /\ mailboxes' = allocated'
          /\ UNCHANGED <<hand, queue, msg_rcv, allVars>>
       \/ part = "messages" /\ MessageNext /\ UNCHANGED allVars

PlatformSpec == PlatformInit /\ [][PlatformNext]_<<part, allVars, messageVars>>
================================================================================
