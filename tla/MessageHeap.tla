------------------------------ MODULE MessageHeap ------------------------------
(***************************************************************************)
(* The life of a command's message (task_trigger.c, rtu_com_hmi.c, arm.c,  *)
(* pole.c, lift.c): the tcp thread takes it from the heap, waits until it  *)
(* fits into the queue of a motion task, and the task returns it once the  *)
(* command has been executed.  Nobody looks at what pvPortMalloc returned. *)
(* Meanwhile the network stack takes and returns the mailbox of each       *)
(* connection (sys_arch_freertos.c).                                       *)
(***************************************************************************)
EXTENDS Heap, Sequences

CONSTANTS
    Tasks,       \* the motion tasks
    Size,        \* the size of a message to each: mot_pap_msg or lift_msg
    QueueLen,    \* the lengths of the queues
    MailboxSize, \* what a connection takes
    MaxMailboxes \* the most connections that exist at once

ASSUME MessageAssumption ==
    /\ Size \in [Tasks -> Wanted \ {0}]
    /\ QueueLen \in [Tasks -> Nat \ {0}]
    /\ MailboxSize \in Wanted /\ MaxMailboxes \in Nat

VARIABLES
    hand,        \* the tcp thread's pointer: the task it is for, and the message
    queue,       \* the pointers in arm_queue, pole_queue and lift_queue
    msg_rcv,     \* the message each motion task is executing
    mailboxes    \* the mailboxes of the connections

heapVars == <<free, allocated, counters>>
messageVars == <<heapVars, hand, queue, msg_rcv, mailboxes>>

None == [addr |-> 0, size |-> 1]
NoHand == [task |-> "none", msg |-> None]

Init ==
    /\ prvHeapInit
    /\ hand = NoHand
    /\ queue = [t \in Tasks |-> <<>>]
    /\ msg_rcv = [t \in Tasks |-> None]
    /\ mailboxes = {}

\* TaskTriggerMsg or prvEmergencyStop makes a message for task t.
Make(t) ==
    /\ hand = NoHand
    /\ pvPortMalloc(Size[t])
    /\ hand' = [task |-> t, msg |-> pvReturn(Size[t])]
    /\ UNCHANGED <<queue, msg_rcv, mailboxes>>

\* xQueueSend waits for room; the pointer is copied, NULL or not.
Send ==
    /\ hand # NoHand
    /\ Len(queue[hand.task]) < QueueLen[hand.task]
    /\ queue' = [queue EXCEPT ![hand.task] = Append(@, hand.msg)]
    /\ hand' = NoHand
    /\ UNCHANGED <<heapVars, msg_rcv, mailboxes>>

\* xQueueReceive.
Receive(t) ==
    /\ msg_rcv[t] = None
    /\ queue[t] # <<>>
    /\ msg_rcv' = [msg_rcv EXCEPT ![t] = Head(queue[t])]
    /\ queue' = [queue EXCEPT ![t] = Tail(@)]
    /\ UNCHANGED <<heapVars, hand, mailboxes>>

\* Mutant: the default case of the switch continues with the next command.
StopSkipsFree(t) ==
    /\ msg_rcv[t] # None
    /\ \/ vPortFree(msg_rcv[t])
       \/ UNCHANGED heapVars
    /\ msg_rcv' = [msg_rcv EXCEPT ![t] = None]
    /\ UNCHANGED <<hand, queue, mailboxes>>

\* The end of the loop: the command has been executed.  vPortFree ignores NULL.
Done(t) ==
    /\ msg_rcv[t] # None
    /\ IF msg_rcv[t] = NULL THEN UNCHANGED heapVars ELSE vPortFree(msg_rcv[t])
    /\ msg_rcv' = [msg_rcv EXCEPT ![t] = None]
    /\ UNCHANGED <<hand, queue, mailboxes>>

\* Mutant: the connection does not look at what its mailbox got.
MailboxUnlimited ==
    /\ pvPortMalloc(MailboxSize)
    /\ mailboxes' = mailboxes \cup ({pvReturn(MailboxSize)} \ {NULL})
    /\ UNCHANGED <<hand, queue, msg_rcv>>

\* sys_mbox_new, for a new connection; when it fails there is no connection.
sys_mbox_new ==
    /\ Cardinality(mailboxes) < MaxMailboxes
    /\ pvPortMalloc(MailboxSize)
    /\ mailboxes' = mailboxes \cup ({pvReturn(MailboxSize)} \ {NULL})
    /\ UNCHANGED <<hand, queue, msg_rcv>>

sys_mbox_free ==
    /\ \E m \in mailboxes : vPortFree(m) /\ mailboxes' = mailboxes \ {m}
    /\ UNCHANGED <<hand, queue, msg_rcv>>

MessageNext ==
    \/ \E t \in Tasks : Make(t) \/ Receive(t) \/ Done(t)
    \/ Send
    \/ sys_mbox_new \/ sys_mbox_free

MessageSpec == Init /\ [][MessageNext]_messageVars

-------------------------------------------------------------------------------

InQueue(t) == {queue[t][i] : i \in DOMAIN queue[t]}

\* The pointers that somebody holds.
Held ==
    ({hand.msg} \cup mailboxes
     \cup UNION {{msg_rcv[t]} \cup InQueue(t) : t \in Tasks}) \ {None}

\* What is with the tcp thread, in a queue, and with a motion task.
HandHas == {hand.msg} \ {NULL, None}
QueueHas(t) == InQueue(t) \ {NULL}
TaskHas(t) == {msg_rcv[t]} \ {NULL, None}

\* A block has one holder, and is in a queue once.
OneHolder ==
    /\ HandHas \cap mailboxes = {}
    /\ \A t \in Tasks : (QueueHas(t) \cup TaskHas(t)) \cap (HandHas \cup mailboxes) = {}
    /\ \A t \in Tasks : QueueHas(t) \cap TaskHas(t) = {}
    /\ \A t, u \in Tasks :
           t # u => (QueueHas(t) \cup TaskHas(t)) \cap (QueueHas(u) \cup TaskHas(u)) = {}
    /\ \A t \in Tasks : \A i, j \in DOMAIN queue[t] :
           queue[t][i] = queue[t][j] /\ queue[t][i] # NULL => i = j

\* Every message is held by exactly one of the tcp thread, a queue and a motion task until
\* it is returned: none is lost and none is returned twice, and none is shared.
MessagesOwned == Held \ {NULL} = allocated /\ OneHolder

\* task_trigger.c writes through what pvPortMalloc returned without a look: with room for
\* the messages that queues, tasks and tcp thread can hold at once and for the mailboxes, no
\* order of commands and connections makes pvPortMalloc return NULL.
MessageThere == NULL \notin Held

(***************************************************************************)
(* The inductive invariant behind MessagesOwned: where each block is.      *)
(***************************************************************************)
Pointers == allocated \cup {NULL}

MessageInv ==
    /\ HeapInv
    /\ NULL \notin allocated /\ None \notin allocated
    /\ hand \in {NoHand} \cup [task : Tasks, msg : Pointers]
    /\ queue \in [Tasks -> Seq(Pointers)]
    /\ msg_rcv \in [Tasks -> Pointers \cup {None}]
    /\ mailboxes \subseteq allocated
    /\ \A b \in allocated :
           b \in HandHas \cup mailboxes \/ \E t \in Tasks : b \in QueueHas(t) \cup TaskHas(t)
    /\ OneHolder
================================================================================
