-------------------------------- MODULE HmiLink --------------------------------
(***************************************************************************)
(* The tcp thread (rtu_com_hmi.c): it accepts the HMI's connection,        *)
(* receives frames, hands each to TaskTriggerMsg, answers, and stops every *)
(* movement when the connection fails or a frame is wrong.                 *)
(*                                                                         *)
(* The three motion tasks are abstracted to what a queue's consumer does:  *)
(* it takes the next message when it is not asleep in a direction change.  *)
(* dev[d] is the last message task d has taken.  The modules MotPap and    *)
(* Lift model what it makes of it.                                         *)
(***************************************************************************)
EXTENDS TaskTrigger, Sequences

CONSTANTS
    Frames,         \* the frames the HMI may send
    MaxParts,       \* the most frames one netbuf holds
    QueueLen,       \* the lengths of the queues: arm 5, pole 2, lift 5
    StopBetween,    \* the HMI sends a STOP frame between frames of two other modes
    AxisAtRest      \* the HMI selects the axis of a free run in a STOP or starting frame

ASSUME FramesAssumption == Frames \subseteq HMIData_t
ASSUME PartsAssumption == MaxParts \in Nat \ {0}
ASSUME QueueLenAssumption == QueueLen \in [Devices -> Nat \ {0}]
ASSUME HmiAssumption == StopBetween \in BOOLEAN /\ AxisAtRest \in BOOLEAN

VARIABLES
    pc,              \* where tcp_thread is
    peer,            \* the HMI is connected and still sending
    first,           \* no frame of this connection has been processed (cycleCount)
    parts,           \* frames of buf that netbuf_data has yet to return
    cmd,             \* HMICmd while TaskTriggerMsg works on it, otherwise NoCmd
    iServerStatus,
    outbox,          \* the messages still to be sent to the queues
    prev,            \* the static variables of TaskTriggerMsg
    stall_detection,
    offset,          \* arm.offset and pole.offset
    mainPwr,         \* GPIO2[6], set by relay_main_pwr
    queue,           \* arm_queue, pole_queue and lift_queue
    dev,             \* the last message each motion task has taken
    busy             \* the task is asleep in vTaskDelay, changing direction

tcpVars == <<pc, first, parts, cmd, iServerStatus, outbox, prev, stall_detection, offset>>
devVars == <<dev, busy>>
vars == <<tcpVars, peer, mainPwr, queue, devVars>>

NoCmd == [mode |-> "none"]

TypeOK ==
    /\ pc \in {"accept", "recv", "data", "send", "reply", "delete", "estop", "esend", "close"}
    /\ peer \in BOOLEAN
    /\ first \in BOOLEAN
    /\ parts \in 0 .. MaxParts
    /\ cmd \in HMICmd_t \cup {NoCmd}
    /\ iServerStatus \in ServerStatus
    /\ outbox \in [Devices -> Message \cup {NoMsg}]
    /\ prev \in [flags : SUBSET (0 .. 5), posCmdArm : Pos \cup {0}, posCmdPole : Pos \cup {0}]
    /\ stall_detection \in BOOLEAN
    /\ offset \in [Axes -> uint16]
    /\ mainPwr \in BOOLEAN
    /\ queue \in [Devices -> Seq(Message)]
    /\ \A d \in Devices : Len(queue[d]) <= QueueLen[d]
    /\ dev \in [Devices -> Message]
    /\ busy \in [Devices -> BOOLEAN]

Nothing == [d \in Devices |-> NoMsg]

\* After arm_init, pole_init and lift_init, with the listening socket open.
Init ==
    /\ pc = "accept"
    /\ peer = FALSE
    /\ first = TRUE
    /\ parts = 0
    /\ cmd = NoCmd
    /\ iServerStatus = ERR_OK
    /\ outbox = Nothing
    /\ prev = NoPrevious
    /\ stall_detection = FALSE
    /\ offset = [arm |-> 41230, pole |-> 41354]
    /\ mainPwr = FALSE
    /\ queue = [d \in Devices |-> <<>>]
    /\ dev = [d \in Devices |-> Stop]
    /\ busy = [d \in Devices |-> FALSE]

relay_main_pwr(state) == mainPwr' = state

-------------------------------------------------------------------------------
(***************************************************************************)
(* The motion tasks have the highest priority: tcp_thread runs only while  *)
(* each of them is asleep or waits on an empty queue.                      *)
(***************************************************************************)
DevicesBlocked == \A d \in Devices : busy[d] \/ queue[d] = <<>>

\* netconn_accept returns a new connection.
Accept ==
    /\ pc = "accept"
    /\ DevicesBlocked
    /\ pc' = "recv"
    /\ peer' = TRUE
    /\ first' = TRUE
    /\ iServerStatus' = ERR_OK
    /\ UNCHANGED <<parts, cmd, outbox, prev, stall_detection, offset, mainPwr, queue, devVars>>

\* netconn_recv returns a buffer of one or more parts.
Recv ==
    /\ pc = "recv"
    /\ DevicesBlocked
    /\ peer
    /\ parts' \in 1 .. MaxParts
    /\ pc' = "data"
    /\ UNCHANGED <<peer, first, cmd, iServerStatus, outbox, prev, stall_detection, offset,
                   mainPwr, queue, devVars>>

\* Mutant: a failed netconn_recv closes the connection without prvEmergencyStop.
RecvFailsQuietly ==
    /\ pc = "recv"
    /\ DevicesBlocked
    /\ pc' = "close"
    /\ UNCHANGED <<peer, first, parts, cmd, iServerStatus, outbox, prev, stall_detection,
                   offset, mainPwr, queue, devVars>>

\* netconn_recv returns an error: RCV_TIMEO has passed, or the connection is closed.
RecvFails ==
    /\ pc = "recv"
    /\ DevicesBlocked
    /\ pc' = "estop"
    /\ UNCHANGED <<peer, first, parts, cmd, iServerStatus, outbox, prev, stall_detection,
                   offset, mainPwr, queue, devVars>>

\* netbuf_data returns an error.
DataFails ==
    /\ pc = "data"
    /\ DevicesBlocked
    /\ iServerStatus' = ERROR_NETCONN
    /\ pc' = "delete"
    /\ UNCHANGED <<peer, first, parts, cmd, outbox, prev, stall_detection, offset, mainPwr,
                   queue, devVars>>

\* NetValuesReceivedFromHMI refuses the frame.
BadFrame(f) ==
    /\ pc = "data"
    /\ DevicesBlocked
    /\ NetValuesReceivedFromHMI(f) # ERR_OK
    /\ iServerStatus' = NetValuesReceivedFromHMI(f)
    /\ pc' = "delete"
    /\ UNCHANGED <<peer, first, parts, cmd, outbox, prev, stall_detection, offset, mainPwr,
                   queue, devVars>>

-------------------------------------------------------------------------------
(***************************************************************************)
(* The habits of the HMI, seen in the comments of lift.c and in the branch *)
(* of task_trigger.c that ends a free run: external to this repository.    *)
(* The first frame of a connection is free, the HMI knows no earlier one.  *)
(***************************************************************************)
PreviousMode == prev.flags \cap {0, 1}

HmiSends(c) ==
    \/ first
    \/ /\ StopBetween => \/ PreviousMode \in {{}, ModeBits(c.mode)}
                         \/ c.mode = "eStop"
       /\ AxisAtRest => \/ (4 \in prev.flags) = (c.freeRunAxis = "ePole")
                        \/ PreviousMode = {}
                        \/ PreviousMode = ModeBits(c.mode) /\ c.mode # "eFree_run"

\* What a command that changes the control enable does to MAIN_PWR.
SwitchMainPower(c) ==
    IF ~Triggers(c, prev) THEN UNCHANGED mainPwr
    ELSE IF Disables(c, prev) THEN relay_main_pwr(FALSE)
    ELSE IF Enables(c, prev) THEN relay_main_pwr(TRUE)
    ELSE UNCHANGED mainPwr

\* A good frame: TaskTriggerMsg up to its sends.
Trigger(f) ==
    LET c == Parsed(f)
    IN  /\ pc = "data"
        /\ DevicesBlocked
        /\ NetValuesReceivedFromHMI(f) = ERR_OK
        /\ HmiSends(c)
        /\ parts' = parts - 1
        /\ cmd' = c
        /\ iServerStatus' = ERR_OK
        /\ first' = FALSE
        /\ stall_detection' = (c.stallEn = "eEnable")
        /\ offset' = IF c.setCal = "eCal"
                     THEN [arm |-> c.posCmdArm, pole |-> c.posCmdPole] ELSE offset
        /\ SwitchMainPower(c)
        /\ outbox' = Messages(c, prev)
        /\ pc' = "send"
        /\ UNCHANGED <<peer, prev, queue, devVars>>

\* The devices sent to before d.
Before(d) ==
    CASE d = "arm" -> {}
      [] d = "pole" -> {"arm"}
      [] d = "lift" -> Axes

\* Mutant: a send that overruns the queue instead of waiting for room.
SendNeverWaits(d) ==
    /\ pc \in {"send", "esend"}
    /\ DevicesBlocked
    /\ outbox[d] # NoMsg
    /\ \A e \in Before(d) : outbox[e] = NoMsg
    /\ queue' = [queue EXCEPT ![d] = Append(@, outbox[d])]
    /\ outbox' = [outbox EXCEPT ![d] = NoMsg]
    /\ UNCHANGED <<pc, peer, first, parts, cmd, iServerStatus, prev, stall_detection, offset,
                   mainPwr, devVars>>

\* xQueueSend(..., portMAX_DELAY), of TaskTriggerMsg or prvEmergencyStop: it waits for room.
Send(d) ==
    /\ pc \in {"send", "esend"}
    /\ DevicesBlocked
    /\ outbox[d] # NoMsg
    /\ \A e \in Before(d) : outbox[e] = NoMsg
    /\ Len(queue[d]) < QueueLen[d]
    /\ queue' = [queue EXCEPT ![d] = Append(@, outbox[d])]
    /\ outbox' = [outbox EXCEPT ![d] = NoMsg]
    /\ UNCHANGED <<pc, peer, first, parts, cmd, iServerStatus, prev, stall_detection, offset,
                   mainPwr, devVars>>

\* Mutant: the frame is not remembered.
TriggerForgets ==
    /\ pc = "send"
    /\ DevicesBlocked
    /\ outbox = Nothing
    /\ cmd' = NoCmd
    /\ pc' = "reply"
    /\ UNCHANGED <<peer, first, parts, iServerStatus, outbox, prev, stall_detection, offset,
                   mainPwr, queue, devVars>>

\* The last lines of TaskTriggerMsg.
TriggerEnds ==
    /\ pc = "send"
    /\ DevicesBlocked
    /\ outbox = Nothing
    /\ prev' = Previous(cmd)
    /\ cmd' = NoCmd
    /\ pc' = "reply"
    /\ UNCHANGED <<peer, first, parts, iServerStatus, outbox, stall_detection, offset, mainPwr,
                   queue, devVars>>

\* netconn_write of the answer, and netbuf_next.
Reply ==
    /\ pc = "reply"
    /\ DevicesBlocked
    /\ pc' = IF parts > 0 THEN "data" ELSE "delete"
    /\ UNCHANGED <<peer, first, parts, cmd, iServerStatus, outbox, prev, stall_detection, offset,
                   mainPwr, queue, devVars>>

ReplyFails ==
    /\ pc = "reply"
    /\ DevicesBlocked
    /\ iServerStatus' = ERROR_NETCONN
    /\ pc' = "delete"
    /\ UNCHANGED <<peer, first, parts, cmd, outbox, prev, stall_detection, offset, mainPwr,
                   queue, devVars>>

\* netbuf_delete, and the test of iServerStatus.
Delete ==
    /\ pc = "delete"
    /\ DevicesBlocked
    /\ parts' = 0
    /\ pc' = IF iServerStatus # ERR_OK THEN "estop" ELSE "recv"
    /\ UNCHANGED <<peer, first, cmd, iServerStatus, outbox, prev, stall_detection, offset,
                   mainPwr, queue, devVars>>

\* Mutant: the emergency stop forgets the lift.
EmergencyStopAxes ==
    /\ pc = "estop"
    /\ DevicesBlocked
    /\ outbox' = [d \in Devices |-> IF d = "lift" THEN NoMsg ELSE Stop]
    /\ pc' = "esend"
    /\ UNCHANGED <<peer, first, parts, cmd, iServerStatus, prev, stall_detection, offset,
                   mainPwr, queue, devVars>>

\* prvEmergencyStop: the three messages, ...
EmergencyStop ==
    /\ pc = "estop"
    /\ DevicesBlocked
    /\ outbox' = [d \in Devices |-> Stop]
    /\ pc' = "esend"
    /\ UNCHANGED <<peer, first, parts, cmd, iServerStatus, prev, stall_detection, offset,
                   mainPwr, queue, devVars>>

\* Mutant: the emergency stop leaves the main power on.
EmergencyStopPowered ==
    /\ pc = "esend"
    /\ DevicesBlocked
    /\ outbox = Nothing
    /\ pc' = "close"
    /\ UNCHANGED <<peer, first, parts, cmd, iServerStatus, outbox, prev, stall_detection, offset,
                   mainPwr, queue, devVars>>

\* ... and, once they are all sent, the main power.
EmergencyStopEnds ==
    /\ pc = "esend"
    /\ DevicesBlocked
    /\ outbox = Nothing
    /\ relay_main_pwr(FALSE)
    /\ pc' = "close"
    /\ UNCHANGED <<peer, first, parts, cmd, iServerStatus, outbox, prev, stall_detection, offset,
                   queue, devVars>>

\* netconn_close and netconn_delete.
Close ==
    /\ pc = "close"
    /\ DevicesBlocked
    /\ peer' = FALSE
    /\ pc' = "accept"
    /\ UNCHANGED <<first, parts, cmd, iServerStatus, outbox, prev, stall_detection, offset,
                   mainPwr, queue, devVars>>

tcp_thread ==
    \/ Recv \/ RecvFails \/ DataFails
    \/ \E f \in Frames : BadFrame(f) \/ Trigger(f)
    \/ \E d \in Devices : Send(d)
    \/ TriggerEnds \/ Reply \/ ReplyFails \/ Delete
    \/ EmergencyStop \/ EmergencyStopEnds \/ Close

-------------------------------------------------------------------------------
(***************************************************************************)
(* The other actors.                                                       *)
(***************************************************************************)

\* The HMI dies or its cable is pulled: nothing more will be received.
PeerLost ==
    /\ peer
    /\ peer' = FALSE
    /\ UNCHANGED <<tcpVars, mainPwr, queue, devVars>>

\* Task d takes a message.  It sleeps before it obeys only if a movement may be in
\* progress and it has to reverse it.
Take(d) ==
    /\ ~busy[d]
    /\ queue[d] # <<>>
    /\ dev' = [dev EXCEPT ![d] = Head(queue[d])]
    /\ queue' = [queue EXCEPT ![d] = Tail(@)]
    /\ \E b \in BOOLEAN :
          /\ b => dev[d] # Stop /\ Head(queue[d]) # Stop
          /\ busy' = [busy EXCEPT ![d] = b]
    /\ UNCHANGED <<tcpVars, peer, mainPwr>>

Wake(d) ==
    /\ busy[d]
    /\ busy' = [busy EXCEPT ![d] = FALSE]
    /\ UNCHANGED <<tcpVars, peer, mainPwr, queue, dev>>

\* A supervisor that found its axis stalled cuts the main power.
StallTrip ==
    /\ mainPwr
    /\ relay_main_pwr(FALSE)
    /\ UNCHANGED <<tcpVars, peer, queue, devVars>>

Task(d) == Take(d) \/ Wake(d)

Next ==
    \/ Accept
    \/ tcp_thread
    \/ \E d \in Devices : Task(d)
    \/ PeerLost
    \/ StallTrip

(***************************************************************************)
(* tcp_thread keeps running once connected: RCV_TIMEO ends a silent        *)
(* netconn_recv.  Nobody promises that the HMI connects again.  A motion   *)
(* task is the highest priority and its delay is finite.                   *)
(***************************************************************************)
Fairness == WF_vars(tcp_thread) /\ \A d \in Devices : WF_vars(Task(d))

Spec == Init /\ [][Next]_vars /\ Fairness

-------------------------------------------------------------------------------

\* The command the motion task d will end up with when its queue is drained.
LastCmd(d) ==
    IF outbox[d] # NoMsg THEN outbox[d]
    ELSE IF queue[d] # <<>> THEN queue[d][Len(queue[d])]
    ELSE dev[d]

\* The HMI's latest word on the control enable.
ControlEnabled ==
    IF pc = "send" THEN cmd.ctrlEn = "eEnable" ELSE 2 \in prev.flags

\* The main power is never on while the HMI has the control disabled: no order of frames,
\* disconnections and stalls leaves MAIN_PWR closed behind a DCTL frame.
PowerOnlyWhenEnabled == mainPwr => ControlEnabled

\* While the control is disabled nothing is moving or about to: the last message of every
\* motion task, sent, queued or waiting for room in its queue, is a STOP.
DisabledMeansStopped ==
    ~ControlEnabled => \A d \in Devices : LastCmd(d) = Stop

\* When tcp_thread is back at netconn_accept, every task has been sent its STOP and the
\* main power is off, whatever it was doing when the connection failed.
LinkDownMeansStopped ==
    pc \in {"close", "accept"} => ~mainPwr /\ \A d \in Devices : LastCmd(d) = Stop

\* The devices that the mode in the remembered frame p moves.
DevicesOf(p) ==
    LET mode == p.flags \cap {0, 1}
    IN  CASE mode = {} -> {}
          [] mode = {0} -> IF 4 \in p.flags THEN {"pole"} ELSE {"arm"}
          [] mode = {1} -> Axes
          [] mode = {0, 1} -> {"lift"}

\* Message m stops device d or is what p commands it.
Current(m, p, d) ==
    LET mode == p.flags \cap {0, 1}
    IN  \/ m = Stop
        \/ mode = {0} /\ m.type = "FREE_RUNNING" /\ (m.dir = "CCW" <=> 3 \in p.flags)
        \/ mode = {1} /\ m = ClosedLoop(IF d = "arm" THEN p.posCmdArm ELSE p.posCmdPole)
        \/ mode = {0, 1} /\ m = LiftMove(IF 5 \in p.flags THEN "UP" ELSE "DOWN")

\* Whatever the mode commands is commanded as in the latest frame: change detection never
\* leaves a device with the setpoint or the direction of an older frame.
CommandsCurrent ==
    pc # "send" => \A d \in DevicesOf(prev) : Current(LastCmd(d), prev, d)

\* With an HMI that sends a STOP between two movements, and selects the axis at rest, only
\* the devices of the present mode are moving or about to: none, after a STOP frame.
OnlyModeMoves ==
    pc # "send" => \A d \in Devices \ DevicesOf(prev) : LastCmd(d) = Stop

\* A STOP frame stops: task_trigger.c labels the branches of case 0x00 "STOP FREE RUN
\* COMMAND", "STOP AUTO COMMAND" and "STOP LIFT COMMAND" after the mode they end.  After a
\* STOP frame nothing is moving or about to.
StopFrameStops ==
    pc # "send" /\ PreviousMode = {} => \A d \in Devices : LastCmd(d) = Stop

\* A connection that is lost, or a frame that is wrong, ends with a STOP taken by every
\* motion task, asleep in a direction change with a full queue or not.
LostLinkStops ==
    \A d \in Devices : (pc = "estop" \/ ~peer) ~> dev[d] = Stop

\* ... and with the main power off, although prvEmergencyStop first waits for room in the
\* three queues.
LostLinkCutsPower == (pc = "estop" \/ ~peer) ~> ~mainPwr

\* What the latest good frame asked for.
Latest == IF pc = "send" THEN Previous(cmd) ELSE prev

S == INSTANCE Station WITH latest <- Latest,
                           commanded <- [d \in Devices |-> LastCmd(d)],
                           power <- mainPwr

\* The thread and the queues implement the station in which every frame acts at once: no
\* interleaving of buffers, sends that wait for room, takes, stalls and lost connections
\* loses, repeats or reorders a command.
ImplementsStation == S!Spec

(***************************************************************************)
(* The inductive invariant behind the safety properties.  Where tcp_thread *)
(* is says whether it holds a command, parts of a buffer and messages to   *)
(* send; from the messages of the emergency stop on, everyone is on a      *)
(* STOP; and what is commanded agrees with the frame that TaskTriggerMsg   *)
(* remembers, or is about to.                                              *)
(***************************************************************************)
PlaceInv ==
    /\ pc = "send" => cmd \in HMICmd_t
    /\ pc = "data" => parts > 0
    /\ pc \notin {"send", "esend"} => outbox = Nothing

EmergencyInv == pc = "esend" => \A d \in Devices : LastCmd(d) = Stop

CurrentInv == \A d \in DevicesOf(Latest) : Current(LastCmd(d), Latest, d)

LinkInv ==
    /\ PlaceInv
    /\ PowerOnlyWhenEnabled
    /\ DisabledMeansStopped
    /\ EmergencyInv
    /\ LinkDownMeansStopped
    /\ CurrentInv

(***************************************************************************)
(* What the habits of the HMI add, for OnlyModeMoves: the first frame of a *)
(* connection, which they do not bind, finds everyone stopped.             *)
(***************************************************************************)
HabitInv ==
    /\ first => \A d \in Devices : LastCmd(d) = Stop
    /\ \A d \in Devices \ DevicesOf(Latest) : LastCmd(d) = Stop
================================================================================
