---------------------------- MODULE HmiLinkProofs ----------------------------
(***************************************************************************)
(* Proofs about the tcp thread and the dispatcher, for every set of        *)
(* frames, buffer and queue lengths, and every order of events.            *)
(***************************************************************************)
EXTENDS HmiLink, SequenceTheorems, TLAPS

-------------------------------------------------------------------------------
(***************************************************************************)
(* Lemmas about the parser and the dispatcher.                             *)
(***************************************************************************)

\* A frame that is accepted holds a command.
LEMMA ParsedType ==
  ASSUME NEW f \in Frames, NetValuesReceivedFromHMI(f) = ERR_OK
  PROVE  Parsed(f) \in HMICmd_t
<1>1. f \in HMIData_t
  BY FramesAssumption
<1>2. ~BadData(f)
  BY DEF NetValuesReceivedFromHMI, prvFormatoTramaRecv, ERR_OK, ERROR_TRAMA_VACIA,
         ERROR_TRAMA_LARGO, ERROR_TRAMA_CLIENTE, ERROR_TRAMA_DATO
<1>3. /\ f.mode \in mode_t /\ f.freeRunAxis \in freeRunAxis_t
      /\ f.freeRunDir \in freeRunDir_t /\ f.ctrlEn \in enable_t
      /\ f.stallEn \in enable_t /\ f.liftDir \in liftDir_t /\ f.setCal \in setCal_t
  BY <1>1, <1>2 DEF BadData, HMIData_t
<1>4. f.posCmdArm \in Pos /\ f.posCmdPole \in Pos /\ f.velCmdArm \in Vel /\ f.velCmdPole \in Vel
  BY <1>1 DEF HMIData_t
<1>5. QED
  BY <1>3, <1>4 DEF Parsed, HMICmd_t

\* The flag byte spells the command.
LEMMA FlagByte ==
  ASSUME NEW c \in HMICmd_t
  PROVE  /\ ActualFlagByte(c) \in SUBSET (0 .. 5)
         /\ ActualFlagByte(c) \cap {0, 1} = ModeBits(c.mode)
         /\ 2 \in ActualFlagByte(c) <=> c.ctrlEn = "eEnable"
         /\ 3 \in ActualFlagByte(c) <=> c.freeRunDir = "eCCW"
         /\ 4 \in ActualFlagByte(c) <=> c.freeRunAxis = "ePole"
         /\ 5 \in ActualFlagByte(c) <=> c.liftDir = "eUp"
<1>1. c.mode \in mode_t
  BY DEF HMICmd_t
<1>2. ModeBits(c.mode) \in {{}, {0}, {1}, {0, 1}}
  BY <1>1 DEF mode_t, ModeBits
<1>3. ModeBits(c.mode) \subseteq {0, 1}
  BY <1>2
<1>4. QED
  BY <1>3 DEF ActualFlagByte

\* What is remembered of a command is a flag byte and two positions.
LEMMA PreviousType ==
  ASSUME NEW c \in HMICmd_t
  PROVE  Previous(c) \in [flags : SUBSET (0 .. 5), posCmdArm : Pos \cup {0}, posCmdPole : Pos \cup {0}]
<1>1. c.posCmdArm \in Pos /\ c.posCmdPole \in Pos
  BY DEF HMICmd_t
<1>2. QED
  BY <1>1, FlagByte DEF Previous

\* What the mode of a command asks of the devices it moves is a message.
LEMMA MovementType ==
  ASSUME NEW c \in HMICmd_t, NEW d \in MoveTargets(c)
  PROVE  Movement(c, d) \in Message
<1>1. /\ c.mode \in mode_t /\ c.posCmdArm \in Pos /\ c.posCmdPole \in Pos
      /\ c.velCmdArm \in Vel /\ c.velCmdPole \in Vel
  BY DEF HMICmd_t
<1>2. CASE c.mode = "eFree_run"
  <2>1. PICK dir \in mot_pap_direction, v \in Vel : Movement(c, d) = FreeRun(dir, v)
    BY <1>1, <1>2 DEF Movement, mot_pap_direction
  <2>2. QED
    BY <2>1 DEF Message
<1>3. CASE c.mode = "eAuto"
  <2>1. PICK p \in Pos : Movement(c, d) = ClosedLoop(p)
    BY <1>1, <1>3 DEF Movement
  <2>2. QED
    BY <2>1 DEF Message
<1>4. CASE c.mode = "eLift"
  <2>1. Movement(c, d) \in {LiftMove("UP"), LiftMove("DOWN")}
    BY <1>4 DEF Movement
  <2>2. QED
    BY <2>1 DEF Message
<1>5. CASE c.mode = "eStop"
  BY <1>5 DEF MoveTargets
<1>6. QED
  BY <1>1, <1>2, <1>3, <1>4, <1>5 DEF mode_t

\* A command asks of each device a message or nothing.
LEMMA MessagesType ==
  ASSUME NEW c \in HMICmd_t, NEW p
  PROVE  Messages(c, p) \in [Devices -> Message \cup {NoMsg}]
<1>1. Stop \in Message
  BY DEF Message
<1>2. ASSUME NEW d \in Devices PROVE Messages(c, p)[d] \in Message \cup {NoMsg}
  BY <1>1, MovementType DEF Messages
<1>3. QED
  BY <1>2 DEF Messages

\* No message is NoMsg.
LEMMA NoMsgIsNone == NoMsg \notin Message
<1>1. ASSUME NEW m \in Message PROVE m.type # "none"
  <2>1. CASE m \in {FreeRun(d, v) : d \in mot_pap_direction, v \in Vel}
    BY <2>1 DEF FreeRun
  <2>2. CASE m \in {ClosedLoop(p) : p \in Pos}
    BY <2>2 DEF ClosedLoop
  <2>3. CASE m \in {Stop, LiftMove("UP"), LiftMove("DOWN")}
    BY <2>3 DEF Stop, LiftMove
  <2>4. QED
    BY <2>1, <2>2, <2>3 DEF Message
<1>2. NoMsg.type = "none"
  BY DEF NoMsg
<1>3. QED
  BY <1>1, <1>2

-------------------------------------------------------------------------------
(***************************************************************************)
(* Type correctness, together with what the place of tcp_thread implies.   *)
(***************************************************************************)

\* The types hold before the first connection.
LEMMA InitType == Init => TypeOK /\ PlaceInv
<1> SUFFICES ASSUME Init PROVE TypeOK /\ PlaceInv
  OBVIOUS
<1>1. /\ pc \in {"accept", "recv", "data", "send", "reply", "delete", "estop", "esend", "close"}
      /\ peer \in BOOLEAN /\ first \in BOOLEAN /\ stall_detection \in BOOLEAN
      /\ mainPwr \in BOOLEAN /\ cmd \in HMICmd_t \cup {NoCmd}
  <2>1. pc = "accept" /\ peer = FALSE /\ first = TRUE /\ stall_detection = FALSE
        /\ mainPwr = FALSE /\ cmd = NoCmd
    BY DEF Init
  <2>2. QED
    BY <2>1
<1>0. PlaceInv
  <2>1. pc = "accept" /\ outbox = Nothing
    BY DEF Init
  <2>2. QED
    BY <2>1 DEF PlaceInv
<1>2. parts \in 0 .. MaxParts
  BY PartsAssumption DEF Init
<1>3. iServerStatus \in ServerStatus
  BY DEF Init, ServerStatus
<1>4. prev \in [flags : SUBSET (0 .. 5), posCmdArm : Pos \cup {0}, posCmdPole : Pos \cup {0}]
  BY DEF Init, NoPrevious
<1>5. offset \in [Axes -> uint16]
  <2>1. 41230 \in uint16 /\ 41354 \in uint16
    BY DEF uint16
  <2>2. QED
    BY <2>1 DEF Init, Axes
<1>6. /\ outbox \in [Devices -> Message \cup {NoMsg}]
      /\ dev \in [Devices -> Message] /\ busy \in [Devices -> BOOLEAN]
  BY DEF Init, Nothing, Message
<1>7. queue \in [Devices -> Seq(Message)] /\ \A d \in Devices : Len(queue[d]) <= QueueLen[d]
  BY EmptySeq, QueueLenAssumption DEF Init
<1>8. QED
  BY <1>1, <1>2, <1>3, <1>4, <1>5, <1>6, <1>7, <1>0 DEF TypeOK

\* Obeying a good frame keeps the types.
LEMMA TriggerType ==
  ASSUME TypeOK, PlaceInv, NEW f \in Frames, Trigger(f)
  PROVE  TypeOK' /\ PlaceInv'
<1> DEFINE c == Parsed(f)
<1>1. c \in HMICmd_t
  BY ParsedType DEF Trigger
<1>2. cmd' = c /\ pc' = "send" /\ parts' = parts - 1 /\ pc = "data"
  BY DEF Trigger
<1>3. parts' \in 0 .. MaxParts
  BY <1>2, PartsAssumption DEF PlaceInv, TypeOK
<1>4. offset' \in [Axes -> uint16]
  <2>1. c.posCmdArm \in uint16 /\ c.posCmdPole \in uint16
    BY <1>1, ValuesAssumption DEF HMICmd_t
  <2> HIDE DEF c
  <2>2. offset' = [arm |-> c.posCmdArm, pole |-> c.posCmdPole] \/ offset' = offset
    BY DEF Trigger, c
  <2>3. CASE offset' = [arm |-> c.posCmdArm, pole |-> c.posCmdPole]
    BY <2>1, <2>3 DEF Axes
  <2>4. QED
    BY <2>2, <2>3 DEF TypeOK
<1>5. outbox' \in [Devices -> Message \cup {NoMsg}]
  BY <1>1, MessagesType DEF Trigger
<1>6. mainPwr' \in BOOLEAN
  BY DEF Trigger, SwitchMainPower, relay_main_pwr, TypeOK
<1>7. /\ iServerStatus' \in ServerStatus /\ first' \in BOOLEAN /\ stall_detection' \in BOOLEAN
      /\ UNCHANGED <<peer, prev, queue, dev, busy>>
  BY DEF Trigger, ServerStatus, devVars
<1> HIDE DEF c
<1>8. TypeOK'
  BY <1>1, <1>2, <1>3, <1>4, <1>5, <1>6, <1>7 DEF TypeOK
<1>9. QED
  BY <1>1, <1>2, <1>8 DEF PlaceInv

\* A send keeps the types: it waits for room in the queue.
LEMMA SendType ==
  ASSUME TypeOK, PlaceInv, NEW d \in Devices, Send(d)
  PROVE  TypeOK' /\ PlaceInv'
<1>1. outbox[d] \in Message /\ queue[d] \in Seq(Message) /\ Len(queue[d]) < QueueLen[d]
  BY DEF Send, TypeOK
<1>2. /\ Append(queue[d], outbox[d]) \in Seq(Message)
      /\ Len(Append(queue[d], outbox[d])) <= QueueLen[d]
  BY <1>1, AppendProperties, LenProperties, QueueLenAssumption
<1>3. queue' \in [Devices -> Seq(Message)] /\ \A e \in Devices : Len(queue'[e]) <= QueueLen[e]
  BY <1>2 DEF Send, TypeOK
<1>4. outbox' \in [Devices -> Message \cup {NoMsg}]
  BY DEF Send, TypeOK
<1>5. /\ pc \in {"send", "esend"}
      /\ UNCHANGED <<pc, peer, first, parts, cmd, iServerStatus, prev, stall_detection, offset,
                     mainPwr, dev, busy>>
  BY DEF Send, devVars
<1>6. QED
  BY <1>3, <1>4, <1>5 DEF TypeOK, PlaceInv

\* A motion task that takes a message keeps the types.
LEMMA TakeType ==
  ASSUME TypeOK, PlaceInv, NEW d \in Devices, Take(d)
  PROVE  TypeOK' /\ PlaceInv'
<1>1. queue[d] \in Seq(Message) /\ queue[d] # <<>>
  BY DEF Take, TypeOK
<1>2. /\ Head(queue[d]) \in Message /\ Tail(queue[d]) \in Seq(Message)
      /\ Len(Tail(queue[d])) <= QueueLen[d]
  BY <1>1, HeadTailProperties, LenProperties, QueueLenAssumption DEF TypeOK
<1>3. queue' \in [Devices -> Seq(Message)] /\ \A e \in Devices : Len(queue'[e]) <= QueueLen[e]
  BY <1>2 DEF Take, TypeOK
<1>4. dev' \in [Devices -> Message]
  BY <1>2 DEF Take, TypeOK
<1>5. busy' \in [Devices -> BOOLEAN]
  BY DEF Take, TypeOK
<1>6. UNCHANGED <<pc, first, parts, cmd, iServerStatus, outbox, prev, stall_detection, offset,
                  peer, mainPwr>>
  BY DEF Take, tcpVars
<1>7. QED
  BY <1>3, <1>4, <1>5, <1>6 DEF TypeOK, PlaceInv

\* The other steps of tcp_thread.
LEMMA TcpType ==
  ASSUME TypeOK, PlaceInv, Accept \/ tcp_thread
  PROVE  TypeOK' /\ PlaceInv'
<1>0. Stop \in Message
  BY DEF Message
<1> USE DEF devVars, PlaceInv, TypeOK
<1>1. CASE Accept
  BY <1>1 DEF Accept, ServerStatus
<1>2. CASE Recv
  BY <1>2, PartsAssumption DEF Recv
<1>3. CASE RecvFails
  BY <1>3 DEF RecvFails
<1>4. CASE DataFails
  BY <1>4 DEF DataFails, ServerStatus
<1>5. ASSUME NEW f \in Frames, BadFrame(f) PROVE TypeOK' /\ PlaceInv'
  <2>1. NetValuesReceivedFromHMI(f) \in ServerStatus
    BY DEF NetValuesReceivedFromHMI, prvFormatoTramaRecv, ServerStatus
  <2>2. QED
    BY <1>5, <2>1 DEF BadFrame
<1>6. ASSUME NEW f \in Frames, Trigger(f) PROVE TypeOK' /\ PlaceInv'
  BY <1>6, TriggerType
<1>7. ASSUME NEW d \in Devices, Send(d) PROVE TypeOK' /\ PlaceInv'
  BY <1>7, SendType
<1>8. CASE TriggerEnds
  BY <1>8, PreviousType DEF TriggerEnds
<1>9. CASE Reply
  BY <1>9, PartsAssumption DEF Reply
<1>10. CASE ReplyFails
  BY <1>10 DEF ReplyFails, ServerStatus
<1>11. CASE Delete
  BY <1>11, PartsAssumption DEF Delete
<1>12. CASE EmergencyStop
  BY <1>0, <1>12 DEF EmergencyStop
<1>13. CASE EmergencyStopEnds
  BY <1>13 DEF EmergencyStopEnds, relay_main_pwr
<1>14. CASE Close
  BY <1>14 DEF Close
<1>15. QED
  BY <1>1, <1>2, <1>3, <1>4, <1>5, <1>6, <1>7, <1>8, <1>9, <1>10, <1>11, <1>12, <1>13, <1>14
     DEF tcp_thread

\* The types and PlaceInv are inductive.
LEMMA NextType == TypeOK /\ PlaceInv /\ [Next]_vars => TypeOK' /\ PlaceInv'
<1>1. ASSUME TypeOK, PlaceInv, NEW d \in Devices, Wake(d) PROVE TypeOK' /\ PlaceInv'
  BY <1>1 DEF Wake, tcpVars, TypeOK, PlaceInv
<1>2. ASSUME TypeOK, PlaceInv, PeerLost \/ StallTrip PROVE TypeOK' /\ PlaceInv'
  BY <1>2 DEF PeerLost, StallTrip, relay_main_pwr, tcpVars, devVars, TypeOK, PlaceInv
<1>3. ASSUME TypeOK, PlaceInv, UNCHANGED vars PROVE TypeOK' /\ PlaceInv'
  BY <1>3 DEF vars, tcpVars, devVars, TypeOK, PlaceInv
<1>4. QED
  BY <1>1, <1>2, <1>3, TcpType, TakeType DEF Next, Task

\* The queues never overflow, whoever sends and whoever sleeps, and the tcp thread works on
\* commands that the parser has accepted only.
THEOREM HmiLinkTypeCorrect == Spec => []TypeOK
<1>1. QED
  BY InitType, NextType, PTL DEF Spec

-------------------------------------------------------------------------------
(***************************************************************************)
(* LastCmd: a message keeps its place while it travels from tcp_thread's   *)
(* hands through the queue to the motion task.                             *)
(***************************************************************************)
LEMMA SameLast ==
  ASSUME NEW e \in Devices, outbox'[e] = outbox[e], queue'[e] = queue[e], dev'[e] = dev[e]
  PROVE  LastCmd(e)' = LastCmd(e)
BY Zenon DEF LastCmd

\* A send moves a message from tcp_thread's hands to the queue: no device's last command changes.
LEMMA SendLast ==
  ASSUME TypeOK, NEW d \in Devices, Send(d), NEW e \in Devices
  PROVE  LastCmd(e)' = LastCmd(e)
<1>1. outbox[d] \in Message /\ queue[d] \in Seq(Message) /\ outbox[d] # NoMsg
  BY DEF Send, TypeOK
<1>2. /\ queue' = [queue EXCEPT ![d] = Append(queue[d], outbox[d])]
      /\ outbox' = [outbox EXCEPT ![d] = NoMsg]
      /\ dev' = dev
  BY DEF Send, devVars
<1>3. CASE e = d
  <2>1. outbox'[d] = NoMsg /\ queue'[d] = Append(queue[d], outbox[d])
    BY <1>2 DEF TypeOK
  <2>2. queue'[d] # <<>> /\ queue'[d][Len(queue'[d])] = outbox[d]
    BY <1>1, <2>1, AppendProperties
  <2>3. QED
    BY <1>1, <1>3, <2>1, <2>2 DEF LastCmd
<1>4. CASE e # d
  <2>1. outbox'[e] = outbox[e] /\ queue'[e] = queue[e] /\ dev'[e] = dev[e]
    BY <1>2, <1>4 DEF TypeOK
  <2>2. QED
    BY <2>1, SameLast
<1>5. QED
  BY <1>3, <1>4

\* The last element of a sequence is that of its tail, or its head.
LEMMA LastOfTail ==
  ASSUME NEW Elem, NEW s \in Seq(Elem), s # <<>>
  PROVE  /\ Tail(s) = <<>> => Head(s) = s[Len(s)]
         /\ Tail(s) # <<>> => Tail(s)[Len(Tail(s))] = s[Len(s)]
<1> DEFINE t == Tail(s)
           n == Len(t)
<1>1. /\ t \in Seq(Elem) /\ n = Len(s) - 1 /\ Len(s) \in Nat
      /\ \A i \in 1 .. n : t[i] = s[i + 1]
  BY HeadTailProperties, LenProperties
<1>2. t = <<>> => n = 0
  BY EmptySeq
<1>3. t # <<>> => n \in Nat \ {0}
  BY <1>1, EmptySeq
<1> HIDE DEF t, n
<1>4. ASSUME t = <<>> PROVE Head(s) = s[Len(s)]
  <2>1. n = 0
    BY <1>2, <1>4, Zenon
  <2>2. Len(s) = 1
    BY <1>1, <2>1
  <2>3. QED
    BY <2>2
<1>5. ASSUME t # <<>> PROVE t[n] = s[Len(s)]
  <2>1. n \in 1 .. n /\ n + 1 = Len(s)
    BY <1>1, <1>3, <1>5
  <2>2. QED
    BY <1>1, <2>1
<1>6. QED
  BY <1>4, <1>5 DEF t, n

\* Taking a message moves it from the queue to the task: no device's last command changes.
LEMMA TakeLast ==
  ASSUME TypeOK, NEW d \in Devices, Take(d), NEW e \in Devices
  PROVE  LastCmd(e)' = LastCmd(e)
<1>1. queue[d] \in Seq(Message) /\ queue[d] # <<>>
  BY DEF Take, TypeOK
<1>2. /\ queue' = [queue EXCEPT ![d] = Tail(queue[d])]
      /\ dev' = [dev EXCEPT ![d] = Head(queue[d])]
      /\ outbox' = outbox
  BY DEF Take, tcpVars
<1>3. CASE e = d
  <2>1. queue'[d] = Tail(queue[d]) /\ dev'[d] = Head(queue[d])
    BY <1>2 DEF TypeOK
  <2>2. CASE Tail(queue[d]) = <<>>
    <3>1. Head(queue[d]) = queue[d][Len(queue[d])]
      BY <1>1, <2>2, LastOfTail
    <3>2. QED
      BY <1>1, <1>2, <1>3, <2>1, <2>2, <3>1 DEF LastCmd
  <2>3. CASE Tail(queue[d]) # <<>>
    <3>1. Tail(queue[d])[Len(Tail(queue[d]))] = queue[d][Len(queue[d])]
      BY <1>1, <2>3, LastOfTail
    <3>2. QED
      BY <1>1, <1>2, <1>3, <2>1, <2>3, <3>1 DEF LastCmd
  <2>4. QED
    BY <2>2, <2>3
<1>4. CASE e # d
  <2>1. outbox'[e] = outbox[e] /\ queue'[e] = queue[e] /\ dev'[e] = dev[e]
    BY <1>2, <1>4 DEF TypeOK
  <2>2. QED
    BY <2>1, SameLast
<1>5. QED
  BY <1>3, <1>4

\* Messages still to be sent prevail over everything sent before.
LEMMA OutboxLast ==
  ASSUME NEW d \in Devices, NEW m \in Message, outbox'[d] = m
  PROVE  LastCmd(d)' = m
BY NoMsgIsNone DEF LastCmd

-------------------------------------------------------------------------------
(***************************************************************************)
(* What the remembered frame says of the devices.                          *)
(***************************************************************************)
LEMMA ModeSets ==
  /\ {} # {0} /\ {} # {1} /\ {} # {0, 1}
  /\ {0} # {1} /\ {0} # {0, 1} /\ {1} # {0, 1}
<1>1. 0 \in {0} /\ 0 \notin {1} /\ 0 \in {0, 1} /\ 0 \notin {}
  OBVIOUS
<1>2. 1 \notin {0} /\ 1 \in {1} /\ 1 \in {0, 1} /\ 1 \notin {}
  OBVIOUS
<1>3. {} # {0} /\ {} # {1} /\ {} # {0, 1}
  BY <1>1, <1>2, Zenon
<1>4. {0} # {1} /\ {0} # {0, 1} /\ {1} # {0, 1}
  BY <1>1, <1>2, Zenon
<1>5. QED
  BY <1>3, <1>4

\* The devices of a remembered command are devices.
LEMMA DevicesOfDevices ==
  ASSUME NEW p
  PROVE  DevicesOf(p) \subseteq Devices
<1> DEFINE mode == p.flags \cap {0, 1}
<1>1. mode \in {{}, {0}, {1}, {0, 1}}
  OBVIOUS
<1>2. /\ {} # {0} /\ {} # {1} /\ {} # {0, 1}
      /\ {0} # {1} /\ {0} # {0, 1} /\ {1} # {0, 1}
  BY ModeSets
<1> HIDE DEF mode
<1>3. DevicesOf(p) = CASE mode = {} -> {}
                       [] mode = {0} -> IF 4 \in p.flags THEN {"pole"} ELSE {"arm"}
                       [] mode = {1} -> Axes
                       [] mode = {0, 1} -> {"lift"}
  BY DEF DevicesOf, mode
<1>4. QED
  BY <1>1, <1>2, <1>3 DEF Devices, Axes

\* The devices of a remembered command are those its mode sets in motion.
LEMMA DevicesOfPrevious ==
  ASSUME NEW c \in HMICmd_t
  PROVE  DevicesOf(Previous(c)) = MoveTargets(c)
<1>1. /\ Previous(c).flags \cap {0, 1} = ModeBits(c.mode)
      /\ 4 \in Previous(c).flags <=> c.freeRunAxis = "ePole"
  BY FlagByte DEF Previous
<1>2. c.mode \in mode_t /\ c.freeRunAxis \in {"eArm", "ePole"}
  BY DEF HMICmd_t, freeRunAxis_t
<1>3. /\ {} # {0} /\ {} # {1} /\ {} # {0, 1}
      /\ {0} # {1} /\ {0} # {0, 1} /\ {1} # {0, 1}
  BY ModeSets
<1>4. CASE c.mode = "eStop"
  BY <1>1, <1>3, <1>4 DEF DevicesOf, MoveTargets, ModeBits
<1>5. CASE c.mode = "eFree_run"
  BY <1>1, <1>2, <1>3, <1>5 DEF DevicesOf, MoveTargets, ModeBits, SelectedAxis
<1>6. CASE c.mode = "eAuto"
  BY <1>1, <1>3, <1>6 DEF DevicesOf, MoveTargets, ModeBits
<1>7. CASE c.mode = "eLift"
  BY <1>1, <1>3, <1>7 DEF DevicesOf, MoveTargets, ModeBits
<1>8. QED
  BY <1>2, <1>4, <1>5, <1>6, <1>7 DEF mode_t

\* What a command asks of the devices it moves is what it will be remembered for.
LEMMA MovementCurrent ==
  ASSUME NEW c \in HMICmd_t, NEW d \in MoveTargets(c)
  PROVE  Current(Movement(c, d), Previous(c), d)
<1>1. /\ Previous(c).flags \cap {0, 1} = ModeBits(c.mode)
      /\ 3 \in Previous(c).flags <=> c.freeRunDir = "eCCW"
      /\ 5 \in Previous(c).flags <=> c.liftDir = "eUp"
      /\ Previous(c).posCmdArm = c.posCmdArm /\ Previous(c).posCmdPole = c.posCmdPole
  BY FlagByte DEF Previous
<1>2. c.mode \in mode_t
  BY DEF HMICmd_t
<1>3. CASE c.mode = "eStop"
  BY <1>3 DEF MoveTargets
<1>4. CASE c.mode = "eFree_run"
  <2>1. /\ Movement(c, d).type = "FREE_RUNNING"
        /\ Movement(c, d).dir = "CCW" <=> c.freeRunDir = "eCCW"
    BY <1>4 DEF Movement, FreeRun
  <2>2. Previous(c).flags \cap {0, 1} = {0}
    BY <1>1, <1>4 DEF ModeBits
  <2>3. QED
    BY <1>1, <2>1, <2>2 DEF Current
<1>5. CASE c.mode = "eAuto"
  <2>1. Previous(c).flags \cap {0, 1} = {1}
    BY <1>1, <1>5 DEF ModeBits
  <2>2. Movement(c, d) = ClosedLoop(IF d = "arm" THEN c.posCmdArm ELSE c.posCmdPole)
    BY <1>5 DEF Movement
  <2>3. QED
    BY <1>1, <2>1, <2>2 DEF Current
<1>6. CASE c.mode = "eLift"
  <2>1. Previous(c).flags \cap {0, 1} = {0, 1}
    BY <1>1, <1>6 DEF ModeBits
  <2>2. Movement(c, d) = LiftMove(IF c.liftDir = "eUp" THEN "UP" ELSE "DOWN")
    BY <1>6 DEF Movement
  <2>3. QED
    BY <1>1, <2>1, <2>2 DEF Current
<1>7. QED
  BY <1>2, <1>3, <1>4, <1>5, <1>6 DEF mode_t

\* No event: the command is the one remembered.
LEMMA NoEvent ==
  ASSUME NEW c \in HMICmd_t, EventFlagByte(c, prev) = {}, TypeOK
  PROVE  /\ Previous(c).flags = prev.flags
         /\ Previous(c).posCmdArm = prev.posCmdArm
         /\ Previous(c).posCmdPole = prev.posCmdPole
BY DEF EventFlagByte, Xor, Previous

\* What the remembered frame says stays while the frame stays remembered.
LEMMA SameRemembered ==
  ASSUME NEW p, NEW q, p.flags = q.flags, p.posCmdArm = q.posCmdArm,
         p.posCmdPole = q.posCmdPole
  PROVE  /\ DevicesOf(p) = DevicesOf(q)
         /\ \A m, d : Current(m, p, d) <=> Current(m, q, d)
BY DEF DevicesOf, Current

-------------------------------------------------------------------------------
(***************************************************************************)
(* LinkInv is inductive, given TypeOK.                                     *)
(***************************************************************************)
SafeInv ==
    /\ PowerOnlyWhenEnabled
    /\ DisabledMeansStopped
    /\ EmergencyInv
    /\ LinkDownMeansStopped
    /\ CurrentInv

\* The safety invariant holds before the first connection.
LEMMA InitSafe == Init => SafeInv
<1> SUFFICES ASSUME Init PROVE SafeInv
  OBVIOUS
<1>1. pc = "accept" /\ ~mainPwr /\ prev = NoPrevious
  BY DEF Init
<1>2. \A d \in Devices : LastCmd(d) = Stop
  BY DEF Init, LastCmd, Nothing
<1>3. CurrentInv
  <2>1. Latest = NoPrevious
    BY <1>1 DEF Latest
  <2>2. DevicesOf(NoPrevious) \subseteq Devices
    BY DevicesOfDevices
  <2>3. QED
    BY <1>2, <2>1, <2>2 DEF CurrentInv, Current
<1>4. QED
  BY <1>1, <1>2, <1>3 DEF SafeInv, PowerOnlyWhenEnabled, DisabledMeansStopped, EmergencyInv,
                          LinkDownMeansStopped

\* A step that leaves every device on its last command, the remembered frame, the enable and
\* the power as they are, and does not enter the end of the emergency stop.
Harmless ==
    /\ \A d \in Devices : LastCmd(d)' = LastCmd(d)
    /\ Latest' = Latest
    /\ ControlEnabled' <=> ControlEnabled
    /\ mainPwr' => mainPwr
    /\ pc' = "esend" => pc = "esend"
    /\ pc' \in {"close", "accept"} => pc \in {"close", "accept"}

\* A step that touches no command, no remembered frame and no power keeps the invariant.
LEMMA HarmlessSafe ==
  ASSUME SafeInv, Harmless
  PROVE  SafeInv'
<1>1. PowerOnlyWhenEnabled'
  BY DEF SafeInv, Harmless, PowerOnlyWhenEnabled
<1>2. DisabledMeansStopped'
  BY DEF SafeInv, Harmless, DisabledMeansStopped
<1>3. EmergencyInv'
  BY DEF SafeInv, Harmless, EmergencyInv
<1>4. LinkDownMeansStopped'
  BY DEF SafeInv, Harmless, LinkDownMeansStopped
<1>5. CurrentInv'
  <2>1. DevicesOf(Latest') \subseteq Devices
    BY DevicesOfDevices
  <2>2. QED
    BY <2>1 DEF SafeInv, Harmless, CurrentInv
<1>6. QED
  BY <1>1, <1>2, <1>3, <1>4, <1>5 DEF SafeInv

\* Everyone has just been told to stop, and the enable says what it said.
LEMMA StoppedSafe ==
  ASSUME SafeInv, \A d \in Devices : LastCmd(d)' = Stop,
         mainPwr' => ControlEnabled',
         pc' \in {"close", "accept"} => ~mainPwr'
  PROVE  SafeInv'
<1>1. DevicesOf(Latest') \subseteq Devices
  BY DevicesOfDevices
<1>2. CurrentInv'
  BY <1>1 DEF CurrentInv, Current
<1>3. QED
  BY <1>2 DEF SafeInv, PowerOnlyWhenEnabled, DisabledMeansStopped, EmergencyInv,
              LinkDownMeansStopped

\* A frame: it switches nothing on behind a disabled control, and commands what it says.
LEMMA TriggerSafe ==
  ASSUME TypeOK, PlaceInv, SafeInv, NEW f \in Frames, Trigger(f)
  PROVE  SafeInv'
<1> DEFINE c == Parsed(f)
<1>1. c \in HMICmd_t
  BY ParsedType DEF Trigger
<1>2. /\ pc = "data" /\ pc' = "send" /\ cmd' = c /\ prev' = prev
      /\ outbox' = Messages(c, prev)
      /\ UNCHANGED <<queue, dev>>
      /\ SwitchMainPower(c)
  BY DEF Trigger, devVars
<1>3. /\ outbox = Nothing
      /\ ControlEnabled <=> 2 \in prev.flags
      /\ Latest = prev
  BY <1>2 DEF PlaceInv, ControlEnabled, Latest
<1> HIDE DEF c
<1>4. /\ ControlEnabled' <=> c.ctrlEn = "eEnable"
      /\ Latest' = Previous(c)
  BY <1>2 DEF ControlEnabled, Latest
<1>5. c.ctrlEn \in {"eDisable", "eEnable"}
  BY <1>1 DEF HMICmd_t, enable_t
<1>6. mainPwr => ControlEnabled
  BY DEF SafeInv, PowerOnlyWhenEnabled
<1>7. ASSUME Disables(c, prev) \/ Enables(c, prev) PROVE Triggers(c, prev)
  <2>1. 2 \in EventFlagByte(c, prev)
    BY <1>1, <1>7, FlagByte DEF EventFlagByte, Xor, Disables, Enables
  <2>2. QED
    BY <1>7, <2>1 DEF Triggers, Disables, Enables
<1>8. mainPwr' => ControlEnabled'
  <2>1. CASE Disables(c, prev)
    BY <1>2, <1>7, <2>1 DEF SwitchMainPower, relay_main_pwr
  <2>2. CASE ~Disables(c, prev)
    <3>1. CASE c.ctrlEn = "eEnable"
      BY <1>4, <3>1
    <3>2. CASE c.ctrlEn = "eDisable"
      <4>1. 2 \notin prev.flags
        BY <2>2, <3>2 DEF Disables
      <4>2. ~Enables(c, prev)
        BY <3>2 DEF Enables
      <4>3. mainPwr' = mainPwr
        BY <1>2, <2>2, <4>2 DEF SwitchMainPower
      <4>4. QED
        BY <1>3, <1>6, <4>1, <4>3
    <3>3. QED
      BY <1>5, <3>1, <3>2
  <2>3. QED
    BY <2>1, <2>2
<1>9. Stop \in Message
  BY DEF Message
<1>10. CASE Disables(c, prev)
  <2>1. \A d \in Devices : outbox'[d] = Stop
    BY <1>2, <1>7, <1>10 DEF Messages
  <2>2. \A d \in Devices : LastCmd(d)' = Stop
    BY <1>9, <2>1, OutboxLast
  <2>3. QED
    BY <1>2, <1>8, <2>2, StoppedSafe
<1>11. CASE ~Triggers(c, prev)
  <2>1. \A d \in Devices : outbox'[d] = NoMsg /\ outbox[d] = NoMsg
    BY <1>2, <1>3, <1>11 DEF Messages, Nothing
  <2>2. \A d \in Devices : LastCmd(d)' = LastCmd(d)
    BY <1>2, <2>1, SameLast
  <2>3. CASE EventFlagByte(c, prev) = {}
    <3>1. /\ Previous(c).flags = prev.flags
          /\ Previous(c).posCmdArm = prev.posCmdArm
          /\ Previous(c).posCmdPole = prev.posCmdPole
      BY <1>1, <2>3, NoEvent
    <3>2. ControlEnabled' <=> ControlEnabled
      BY <1>1, <1>3, <1>4, <3>1, FlagByte DEF Previous
    <3>3. CurrentInv'
      <4>1. /\ DevicesOf(Previous(c)) = DevicesOf(prev)
            /\ \A m, d : Current(m, Previous(c), d) <=> Current(m, prev, d)
        BY <3>1, SameRemembered
      <4>2. \A d \in DevicesOf(prev) : Current(LastCmd(d), prev, d)
        BY <1>3 DEF SafeInv, CurrentInv
      <4>3. DevicesOf(prev) \subseteq Devices
        BY DevicesOfDevices
      <4>4. \A d \in DevicesOf(Previous(c)) : Current(LastCmd(d)', Previous(c), d)
        BY <2>2, <4>1, <4>2, <4>3
      <4>5. QED
        BY <1>4, <4>4 DEF CurrentInv
    <3>4. DisabledMeansStopped'
      BY <2>2, <3>2 DEF SafeInv, DisabledMeansStopped
    <3>5. QED
      BY <1>2, <1>8, <3>3, <3>4
         DEF SafeInv, PowerOnlyWhenEnabled, EmergencyInv, LinkDownMeansStopped
  <2>4. CASE c.ctrlEn # "eEnable" /\ 2 \notin prev.flags
    <3>1. \A d \in Devices : LastCmd(d) = Stop
      BY <1>3, <2>4 DEF SafeInv, DisabledMeansStopped
    <3>2. QED
      BY <1>2, <1>8, <2>2, <3>1, StoppedSafe
  <2>5. QED
    BY <1>11, <2>3, <2>4 DEF Triggers
<1>12. CASE Triggers(c, prev) /\ ~Disables(c, prev)
  <2>1. ControlEnabled'
    BY <1>4, <1>5, <1>12 DEF Triggers, Disables
  <2>2. ASSUME NEW d \in MoveTargets(c) PROVE Current(LastCmd(d)', Previous(c), d)
    <3>1. d \in Devices
      BY <1>1, DevicesOfPrevious, DevicesOfDevices
    <3>2. c.mode # "eStop"
      BY DEF MoveTargets
    <3>3. outbox'[d] = Movement(c, d)
      BY <1>2, <1>12, <3>1, <3>2 DEF Messages
    <3>4. LastCmd(d)' = Movement(c, d)
      BY <1>1, <3>1, <3>3, MovementType, OutboxLast
    <3>5. QED
      BY <1>1, <3>4, MovementCurrent
  <2>3. CurrentInv'
    BY <1>1, <1>4, <2>2, DevicesOfPrevious DEF CurrentInv
  <2>4. QED
    BY <1>2, <1>8, <2>1, <2>3
       DEF SafeInv, PowerOnlyWhenEnabled, DisabledMeansStopped, EmergencyInv,
           LinkDownMeansStopped
<1>13. QED
  BY <1>10, <1>11, <1>12

\* The emergency stop: its messages first, and then the main power.
LEMMA EmergencySafe ==
  ASSUME TypeOK, PlaceInv, SafeInv, EmergencyStop \/ EmergencyStopEnds
  PROVE  SafeInv'
<1>1. CASE EmergencyStop
  <2>1. /\ pc = "estop" /\ pc' = "esend"
        /\ \A d \in Devices : outbox'[d] = Stop
        /\ UNCHANGED <<prev, mainPwr>>
    BY <1>1 DEF EmergencyStop
  <2>2. \A d \in Devices : LastCmd(d)' = Stop
    BY <2>1, OutboxLast DEF Message
  <2>3. mainPwr' => ControlEnabled'
    BY <2>1 DEF SafeInv, PowerOnlyWhenEnabled, ControlEnabled
  <2>4. QED
    BY <2>1, <2>2, <2>3, StoppedSafe
<1>2. CASE EmergencyStopEnds
  <2>1. /\ pc = "esend" /\ pc' = "close" /\ ~mainPwr'
        /\ UNCHANGED <<outbox, queue, dev>>
    BY <1>2 DEF EmergencyStopEnds, relay_main_pwr, devVars
  <2>2. \A d \in Devices : LastCmd(d)' = LastCmd(d)
    BY <2>1, SameLast
  <2>3. \A d \in Devices : LastCmd(d) = Stop
    BY <2>1 DEF SafeInv, EmergencyInv
  <2>4. QED
    BY <2>1, <2>2, <2>3, StoppedSafe
<1>3. QED
  BY <1>1, <1>2

\* The steps of tcp_thread that only move on.
LEMMA MovesOnSafe ==
  ASSUME TypeOK, PlaceInv, SafeInv,
         \/ Accept \/ Recv \/ RecvFails \/ DataFails \/ \E f \in Frames : BadFrame(f)
         \/ Reply \/ ReplyFails \/ Delete \/ Close
  PROVE  SafeInv'
<1>1. UNCHANGED <<outbox, queue, dev, prev, mainPwr, cmd>>
  BY DEF Accept, Recv, RecvFails, DataFails, BadFrame, Reply, ReplyFails, Delete, Close, devVars
<1>2. /\ pc # "send" /\ pc' # "send" /\ pc' # "esend"
      /\ pc' \in {"close", "accept"} => pc \in {"close", "accept"}
  BY DEF Accept, Recv, RecvFails, DataFails, BadFrame, Reply, ReplyFails, Delete, Close
<1>3. \A d \in Devices : LastCmd(d)' = LastCmd(d)
  BY <1>1, SameLast
<1>4. Latest' = Latest /\ (ControlEnabled' <=> ControlEnabled)
  BY <1>1, <1>2 DEF Latest, ControlEnabled
<1>5. Harmless
  BY <1>1, <1>2, <1>3, <1>4 DEF Harmless
<1>6. QED
  BY <1>5, HarmlessSafe

\* The end of TaskTriggerMsg remembers the command it has worked on.
LEMMA TriggerEndsSafe ==
  ASSUME TypeOK, PlaceInv, SafeInv, TriggerEnds
  PROVE  SafeInv'
<1>1. /\ pc = "send" /\ pc' = "reply" /\ prev' = Previous(cmd)
      /\ UNCHANGED <<outbox, queue, dev, mainPwr>>
  BY DEF TriggerEnds, devVars
<1>2. cmd \in HMICmd_t
  BY <1>1 DEF PlaceInv
<1>3. \A d \in Devices : LastCmd(d)' = LastCmd(d)
  BY <1>1, SameLast
<1>4. Latest' = Latest
  BY <1>1 DEF Latest
<1>5. ControlEnabled' <=> ControlEnabled
  BY <1>1, <1>2, FlagByte DEF ControlEnabled, Previous
<1>6. Harmless
  BY <1>1, <1>3, <1>4, <1>5 DEF Harmless
<1>7. QED
  BY <1>6, HarmlessSafe

\* Sending, taking, and the events around: nobody's last command changes.
LEMMA OthersSafe ==
  ASSUME TypeOK, PlaceInv, SafeInv,
         \/ \E d \in Devices : Send(d) \/ Task(d)
         \/ PeerLost \/ StallTrip \/ UNCHANGED vars
  PROVE  SafeInv'
<1>1. \A e \in Devices : LastCmd(e)' = LastCmd(e)
  <2>1. ASSUME NEW d \in Devices, Send(d) PROVE \A e \in Devices : LastCmd(e)' = LastCmd(e)
    BY <2>1, SendLast
  <2>2. ASSUME NEW d \in Devices, Take(d) PROVE \A e \in Devices : LastCmd(e)' = LastCmd(e)
    BY <2>2, TakeLast
  <2>3. ASSUME (\E d \in Devices : Wake(d)) \/ PeerLost \/ StallTrip \/ UNCHANGED vars
        PROVE  \A e \in Devices : LastCmd(e)' = LastCmd(e)
    <3>1. UNCHANGED <<outbox, queue, dev>>
      BY <2>3 DEF Wake, PeerLost, StallTrip, vars, tcpVars, devVars
    <3>2. QED
      BY <3>1, SameLast
  <2>4. QED
    BY <2>1, <2>2, <2>3 DEF Task
<1>2. UNCHANGED <<pc, cmd, prev>> /\ (mainPwr' => mainPwr)
  BY DEF Send, Task, Take, Wake, PeerLost, StallTrip, relay_main_pwr, vars, tcpVars, devVars
<1>3. Latest' = Latest /\ (ControlEnabled' <=> ControlEnabled)
  BY <1>2 DEF Latest, ControlEnabled
<1>4. Harmless
  BY <1>1, <1>2, <1>3 DEF Harmless
<1>5. QED
  BY <1>4, HarmlessSafe

\* The safety invariant is inductive, given the types.
LEMMA NextSafe == TypeOK /\ PlaceInv /\ SafeInv /\ [Next]_vars => SafeInv'
BY TriggerSafe, EmergencySafe, MovesOnSafe, TriggerEndsSafe, OthersSafe
   DEF Next, tcp_thread, Task

\* The inductive invariant holds, for every instance of the model.
THEOREM HmiLinkInv == Spec => [](TypeOK /\ LinkInv)
<1>1. PlaceInv /\ SafeInv => LinkInv
  BY DEF LinkInv, SafeInv
<1>2. QED
  BY <1>1, InitType, InitSafe, NextType, NextSafe, PTL DEF Spec

-------------------------------------------------------------------------------
(***************************************************************************)
(* The safety properties.                                                  *)
(***************************************************************************)

\* No order of frames, disconnections and stalls leaves MAIN_PWR on while the HMI has the
\* control disabled.
THEOREM HmiPowerOnlyWhenEnabled == Spec => []PowerOnlyWhenEnabled
<1>1. LinkInv => PowerOnlyWhenEnabled
  BY DEF LinkInv
<1>2. QED
  BY <1>1, HmiLinkInv, PTL

\* While the control is disabled the last command of every task is a STOP.
THEOREM HmiDisabledMeansStopped == Spec => []DisabledMeansStopped
<1>1. LinkInv => DisabledMeansStopped
  BY DEF LinkInv
<1>2. QED
  BY <1>1, HmiLinkInv, PTL

\* tcp_thread never waits for a connection without having cut the main power and sent
\* every task a STOP.
THEOREM HmiLinkDownMeansStopped == Spec => []LinkDownMeansStopped
<1>1. LinkInv => LinkDownMeansStopped
  BY DEF LinkInv
<1>2. QED
  BY <1>1, HmiLinkInv, PTL

\* Change detection never leaves a device of the present mode on an older frame's setpoint
\* or direction, whatever the setpoints and the frames.
THEOREM HmiCommandsCurrent == Spec => []CommandsCurrent
<1>1. LinkInv => CommandsCurrent
  BY DEF LinkInv, CurrentInv, Latest, CommandsCurrent
<1>2. QED
  BY <1>1, HmiLinkInv, PTL

-------------------------------------------------------------------------------
(***************************************************************************)
(* HmiLink implements Station.  A frame takes effect when TaskTriggerMsg   *)
(* has made its messages, the halt when prvEmergencyStop has; every other  *)
(* step leaves the commands in force where they are, or cuts the power.    *)
(***************************************************************************)

\* Station works with the same operators on frames and commands.
LEMMA SameMessages ==
  ASSUME NEW c, NEW p
  PROVE  /\ S!Messages(c, p) = Messages(c, p)
         /\ S!Triggers(c, p) <=> Triggers(c, p)
         /\ S!Disables(c, p) <=> Disables(c, p)
         /\ S!Enables(c, p) <=> Enables(c, p)
         /\ S!Previous(c) = Previous(c)
<1>1. S!Devices = Devices /\ S!Axes = Axes /\ S!Stop = Stop /\ S!NoMsg = NoMsg
  BY DEF S!Devices, Devices, S!Axes, Axes, S!Stop, Stop, S!NoMsg, NoMsg
<1>2. \A m : S!ModeBits(m) = ModeBits(m)
  BY Zenon DEF S!ModeBits, ModeBits
<1>3. S!ActualFlagByte(c) = ActualFlagByte(c)
  BY <1>2, Zenon DEF S!ActualFlagByte, ActualFlagByte
<1>4. S!Previous(c) = Previous(c)
  BY <1>3, Zenon DEF S!Previous, Previous
<1>5. S!EventFlagByte(c, p) = EventFlagByte(c, p)
  BY <1>3, Zenon DEF S!EventFlagByte, EventFlagByte, S!Xor, Xor
<1>6. S!Triggers(c, p) <=> Triggers(c, p)
  BY <1>5, Zenon DEF S!Triggers, Triggers
<1>7. (S!Disables(c, p) <=> Disables(c, p)) /\ (S!Enables(c, p) <=> Enables(c, p))
  BY Zenon DEF S!Disables, Disables, S!Enables, Enables
<1>8. S!SelectedAxis(c) = SelectedAxis(c)
  BY Zenon DEF S!SelectedAxis, SelectedAxis
<1>9. S!StopTargets(c, p) = StopTargets(c, p)
  BY <1>1, <1>5, <1>8, Zenon DEF S!StopTargets, StopTargets
<1>10. S!MoveTargets(c) = MoveTargets(c)
  BY <1>1, <1>8, Zenon DEF S!MoveTargets, MoveTargets
<1>11. \A d : S!Movement(c, d) = Movement(c, d)
  BY Zenon DEF S!Movement, Movement, S!FreeRun, FreeRun, S!ClosedLoop, ClosedLoop,
               S!LiftMove, LiftMove
<1>12. S!Messages(c, p) = Messages(c, p)
  BY <1>1, <1>6, <1>7, <1>9, <1>10, <1>11, Zenon DEF S!Messages, Messages
<1>13. QED
  BY <1>4, <1>6, <1>7, <1>12

\* ... and reads a frame in the same way.
LEMMA SameFrames ==
  ASSUME NEW f
  PROVE  /\ S!Parsed(f) = Parsed(f)
         /\ S!NetValuesReceivedFromHMI(f) = NetValuesReceivedFromHMI(f)
         /\ S!ERR_OK = ERR_OK
<1>1. S!Parsed(f) = Parsed(f)
  BY Zenon DEF S!Parsed, Parsed
<1>2. S!prvFormatoTramaRecv(f.len) = prvFormatoTramaRecv(f.len)
  BY Zenon DEF S!prvFormatoTramaRecv, prvFormatoTramaRecv, S!RCV_TRAMA_LARGO, RCV_TRAMA_LARGO,
       S!ERROR_TRAMA_VACIA, ERROR_TRAMA_VACIA, S!ERROR_TRAMA_LARGO, ERROR_TRAMA_LARGO,
       S!ERR_OK, ERR_OK
<1>3. S!BadData(f) <=> BadData(f)
  BY Zenon DEF S!BadData, BadData, S!MOT_PAP_MAX_SPEED_FREE_RUN, MOT_PAP_MAX_SPEED_FREE_RUN,
       S!Garbage, Garbage
<1>4. S!ERR_OK = ERR_OK
  BY DEF S!ERR_OK, ERR_OK
<1>5. S!NetValuesReceivedFromHMI(f) = NetValuesReceivedFromHMI(f)
  BY <1>2, <1>3, <1>4, Zenon
     DEF S!NetValuesReceivedFromHMI, NetValuesReceivedFromHMI,
         S!ERROR_TRAMA_CLIENTE, ERROR_TRAMA_CLIENTE, S!ERROR_TRAMA_DATO, ERROR_TRAMA_DATO
<1>6. QED
  BY <1>1, <1>4, <1>5

\* A step that changes nothing the operator sees.
Unseen ==
    /\ \A d \in Devices : LastCmd(d)' = LastCmd(d)
    /\ Latest' = Latest

\* Such a step is a stutter of Station, or its PowerOff.
LEMMA UnseenImplements ==
  ASSUME Unseen, mainPwr' = mainPwr \/ mainPwr' = FALSE
  PROVE  [S!Next]_(S!vars)
<1>1. [d \in Devices |-> LastCmd(d)'] = [d \in Devices |-> LastCmd(d)] /\ Latest' = Latest
  BY DEF Unseen
<1>2. CASE mainPwr' = mainPwr
  BY <1>1, <1>2 DEF S!vars
<1>3. CASE mainPwr' = FALSE
  BY <1>1, <1>3 DEF S!Next, S!PowerOff
<1>4. QED
  BY <1>2, <1>3

\* The step in which TaskTriggerMsg makes its messages is the frame.
LEMMA TriggerImplements ==
  ASSUME TypeOK, PlaceInv, NEW f \in Frames, Trigger(f)
  PROVE  S!Frame(f)
<1> DEFINE c == Parsed(f)
           sent == Messages(c, prev)
<1>1. c \in HMICmd_t /\ NetValuesReceivedFromHMI(f) = ERR_OK
  BY ParsedType DEF Trigger
<1>2. /\ Latest = prev /\ Latest' = Previous(c)
      /\ outbox = Nothing /\ outbox' = sent
      /\ UNCHANGED <<queue, dev>>
      /\ SwitchMainPower(c)
  BY DEF Trigger, PlaceInv, Latest, devVars
<1>3. ASSUME NEW d \in Devices
      PROVE  LastCmd(d)' = IF sent[d] = NoMsg THEN LastCmd(d) ELSE sent[d]
  <2>1. outbox[d] = NoMsg
    BY <1>2 DEF Nothing
  <2>2. outbox' = sent /\ queue' = queue /\ dev' = dev
    BY <1>2
  <2> HIDE DEF sent
  <2>3. QED
    BY <2>1, <2>2 DEF LastCmd
<1>4. mainPwr' = IF Triggers(c, prev) /\ Disables(c, prev) THEN FALSE
                 ELSE IF Triggers(c, prev) /\ Enables(c, prev) THEN TRUE
                 ELSE mainPwr
  BY <1>2 DEF SwitchMainPower, relay_main_pwr
<1>5. S!Obey(c)
  <2>1. /\ S!Messages(c, prev) = sent /\ S!Previous(c) = Previous(c)
        /\ S!NoMsg = NoMsg /\ S!Devices = Devices
    BY SameMessages DEF S!NoMsg, NoMsg, S!Devices, Devices, S!Axes, Axes
  <2>2. mainPwr' = IF S!Triggers(c, prev) /\ S!Disables(c, prev) THEN FALSE
                   ELSE IF S!Triggers(c, prev) /\ S!Enables(c, prev) THEN TRUE
                   ELSE mainPwr
    BY <1>4, SameMessages
  <2>3. [d \in Devices |-> LastCmd(d)]' =
          [d \in Devices |-> IF sent[d] = NoMsg
                             THEN [e \in Devices |-> LastCmd(e)][d] ELSE sent[d]]
    BY <1>3
  <2> HIDE DEF c, sent
  <2>4. QED
    BY <1>2, <2>1, <2>2, <2>3 DEF S!Obey
<1>6. QED
  BY <1>1, <1>5, SameFrames DEF S!Frame

\* The step in which prvEmergencyStop makes its messages is the halt.
LEMMA EmergencyStopImplements ==
  ASSUME EmergencyStop
  PROVE  S!Halt
<1>1. /\ \A d \in Devices : outbox'[d] = Stop
      /\ UNCHANGED <<prev, mainPwr>>
      /\ pc # "send" /\ pc' # "send"
  BY DEF EmergencyStop
<1>2. \A d \in Devices : LastCmd(d)' = Stop
  BY <1>1, OutboxLast DEF Message
<1>3. Latest' = Latest
  BY <1>1 DEF Latest
<1>4. QED
  BY <1>1, <1>2, <1>3 DEF S!Halt, S!Devices, Devices, S!Axes, Axes, S!Stop, Stop

\* The steps of tcp_thread that are none of the station's, or cut its power.
LEMMA TcpImplements ==
  ASSUME TypeOK, PlaceInv,
         \/ Accept \/ Recv \/ RecvFails \/ DataFails \/ \E f \in Frames : BadFrame(f)
         \/ TriggerEnds \/ Reply \/ ReplyFails \/ Delete \/ EmergencyStopEnds \/ Close
  PROVE  [S!Next]_(S!vars)
<1>1. UNCHANGED <<outbox, queue, dev>>
  BY DEF Accept, Recv, RecvFails, DataFails, BadFrame, TriggerEnds, Reply, ReplyFails,
         Delete, EmergencyStopEnds, Close, devVars
<1>2. \A d \in Devices : LastCmd(d)' = LastCmd(d)
  BY <1>1, SameLast
<1>3. Latest' = Latest
  BY DEF Accept, Recv, RecvFails, DataFails, BadFrame, TriggerEnds, Reply, ReplyFails,
         Delete, EmergencyStopEnds, Close, Latest
<1>4. mainPwr' = mainPwr \/ mainPwr' = FALSE
  BY DEF Accept, Recv, RecvFails, DataFails, BadFrame, TriggerEnds, Reply, ReplyFails,
         Delete, EmergencyStopEnds, Close, relay_main_pwr
<1>5. QED
  BY <1>2, <1>3, <1>4, UnseenImplements DEF Unseen

\* Sending, taking, and the events around.
LEMMA OthersImplement ==
  ASSUME TypeOK, PlaceInv,
         \/ \E d \in Devices : Send(d) \/ Task(d)
         \/ PeerLost \/ StallTrip \/ UNCHANGED vars
  PROVE  [S!Next]_(S!vars)
<1>1. \A e \in Devices : LastCmd(e)' = LastCmd(e)
  <2>1. ASSUME NEW d \in Devices, Send(d) PROVE \A e \in Devices : LastCmd(e)' = LastCmd(e)
    BY <2>1, SendLast
  <2>2. ASSUME NEW d \in Devices, Take(d) PROVE \A e \in Devices : LastCmd(e)' = LastCmd(e)
    BY <2>2, TakeLast
  <2>3. ASSUME (\E d \in Devices : Wake(d)) \/ PeerLost \/ StallTrip \/ UNCHANGED vars
        PROVE  \A e \in Devices : LastCmd(e)' = LastCmd(e)
    <3>1. UNCHANGED <<outbox, queue, dev>>
      BY <2>3 DEF Wake, PeerLost, StallTrip, vars, tcpVars, devVars
    <3>2. QED
      BY <3>1, SameLast
  <2>4. QED
    BY <2>1, <2>2, <2>3 DEF Task
<1>2. UNCHANGED <<pc, cmd, prev>> /\ (mainPwr' = mainPwr \/ mainPwr' = FALSE)
  BY DEF Send, Task, Take, Wake, PeerLost, StallTrip, relay_main_pwr, vars, tcpVars, devVars
<1>3. Latest' = Latest
  BY <1>2 DEF Latest
<1>4. QED
  BY <1>1, <1>2, <1>3, UnseenImplements DEF Unseen

\* For every instance - any frames, any lengths of the queues, any number of frames in a
\* buffer - the tcp thread, the queues and the motion tasks behave as the station does in
\* which each frame and each halt acts on everything at once.
THEOREM HmiImplementsStation == Spec => ImplementsStation
<1>1. Init => S!Init
  <2> SUFFICES ASSUME Init PROVE S!Init
    OBVIOUS
  <2>1. pc = "accept" /\ prev = NoPrevious /\ mainPwr = FALSE
    BY DEF Init
  <2>2. \A d \in Devices : LastCmd(d) = Stop
    BY DEF Init, LastCmd, Nothing
  <2>3. QED
    BY <2>1, <2>2 DEF S!Init, Latest, S!NoPrevious, NoPrevious, S!Devices, Devices,
                      S!Axes, Axes, S!Stop, Stop
<1>2. TypeOK /\ LinkInv /\ [Next]_vars => [S!Next]_(S!vars)
  <2> SUFFICES ASSUME TypeOK, LinkInv, [Next]_vars PROVE [S!Next]_(S!vars)
    OBVIOUS
  <2>1. PlaceInv
    BY DEF LinkInv
  <2>2. CASE \E f \in Frames : Trigger(f)
    BY <2>1, <2>2, TriggerImplements DEF S!Next
  <2>3. CASE EmergencyStop
    BY <2>3, EmergencyStopImplements DEF S!Next
  <2>4. QED
    BY <2>1, <2>2, <2>3, TcpImplements, OthersImplement DEF Next, tcp_thread, Task
<1>3. QED
  BY <1>1, <1>2, HmiLinkInv, PTL DEF Spec, ImplementsStation, S!Spec

-------------------------------------------------------------------------------
(***************************************************************************)
(* The devices of the present mode are the only ones that move, if the HMI *)
(* sends a STOP between two movements and selects the axis at rest.        *)
(***************************************************************************)

\* Everyone is stopped before the first connection.
LEMMA InitHabit == Init => HabitInv
<1> SUFFICES ASSUME Init PROVE HabitInv
  OBVIOUS
<1>1. \A d \in Devices : LastCmd(d) = Stop
  BY DEF Init, LastCmd, Nothing
<1>2. QED
  BY <1>1 DEF HabitInv

\* A STOP frame that leaves the selected axis alone stops the devices of the mode it ends.
LEMMA StopTargetsOfMode ==
  ASSUME NEW c \in HMICmd_t, NEW p, p.flags \in SUBSET (0 .. 5), c.mode = "eStop",
         p.flags \cap {0, 1} # {},
         4 \in p.flags <=> c.freeRunAxis = "ePole"
  PROVE  EventFlagByte(c, p) # {} /\ StopTargets(c, p) = DevicesOf(p)
<1> DEFINE events == EventFlagByte(c, p)
           mode == p.flags \cap {0, 1}
<1>1. /\ ActualFlagByte(c) \cap {0, 1} = {}
      /\ 4 \in ActualFlagByte(c) <=> c.freeRunAxis = "ePole"
  BY FlagByte DEF ModeBits
<1>2. events \cap {0, 1} = mode /\ 4 \notin events
  BY <1>1 DEF EventFlagByte, Xor
<1>3. c.freeRunAxis \in {"eArm", "ePole"}
  BY DEF HMICmd_t, freeRunAxis_t
<1>4. SelectedAxis(c) = IF 4 \in p.flags THEN "pole" ELSE "arm"
  BY <1>3 DEF SelectedAxis
<1>5. mode \in {{0}, {1}, {0, 1}}
  OBVIOUS
<1>6. StopTargets(c, p) = IF events \cap {0, 1} = {0} \/ 4 \in events THEN {SelectedAxis(c)}
                          ELSE IF events \cap {0, 1} = {1} THEN Axes
                          ELSE IF events \cap {0, 1} = {0, 1} THEN {"lift"}
                          ELSE {}
  BY Zenon DEF StopTargets
<1>7. DevicesOf(p) = CASE mode = {} -> {}
                       [] mode = {0} -> IF 4 \in p.flags THEN {"pole"} ELSE {"arm"}
                       [] mode = {1} -> Axes
                       [] mode = {0, 1} -> {"lift"}
  BY DEF DevicesOf
<1>8. events # {}
  BY <1>2
<1> HIDE DEF events, mode
<1>9. ASSUME mode = {0} PROVE StopTargets(c, p) = DevicesOf(p)
  BY <1>2, <1>4, <1>6, <1>7, <1>9, ModeSets
<1>10. ASSUME mode = {1} PROVE StopTargets(c, p) = DevicesOf(p)
  BY <1>2, <1>6, <1>7, <1>10, ModeSets
<1>11. ASSUME mode = {0, 1} PROVE StopTargets(c, p) = DevicesOf(p)
  BY <1>2, <1>6, <1>7, <1>11, ModeSets
<1>12. QED
  BY <1>5, <1>8, <1>9, <1>10, <1>11 DEF events

\* A frame in the same mode that obeys the habits moves the same devices.
LEMMA SameModeTargets ==
  ASSUME NEW c \in HMICmd_t, NEW p,
         p.flags \cap {0, 1} = ModeBits(c.mode),
         c.mode = "eFree_run" => (4 \in p.flags <=> c.freeRunAxis = "ePole")
  PROVE  DevicesOf(p) = MoveTargets(c)
<1>1. c.mode \in mode_t /\ c.freeRunAxis \in {"eArm", "ePole"}
  BY DEF HMICmd_t, freeRunAxis_t
<1>2. CASE c.mode = "eStop"
  BY <1>2, ModeSets DEF DevicesOf, MoveTargets, ModeBits
<1>3. CASE c.mode = "eFree_run"
  BY <1>1, <1>3, ModeSets DEF DevicesOf, MoveTargets, ModeBits, SelectedAxis
<1>4. CASE c.mode = "eAuto"
  BY <1>4, ModeSets DEF DevicesOf, MoveTargets, ModeBits
<1>5. CASE c.mode = "eLift"
  BY <1>5, ModeSets DEF DevicesOf, MoveTargets, ModeBits
<1>6. QED
  BY <1>1, <1>2, <1>3, <1>4, <1>5 DEF mode_t

\* A frame leaves a device that it does not move with a STOP.
LEMMA TriggerHabit ==
  ASSUME StopBetween, AxisAtRest, TypeOK, PlaceInv, SafeInv, HabitInv,
         NEW f \in Frames, Trigger(f)
  PROVE  HabitInv'
<1> DEFINE c == Parsed(f)
<1>1. c \in HMICmd_t
  BY ParsedType DEF Trigger
<1>2. /\ pc = "data" /\ pc' = "send" /\ cmd' = c /\ ~first' /\ HmiSends(c)
      /\ outbox' = Messages(c, prev) /\ outbox = Nothing
      /\ UNCHANGED <<queue, dev>>
  BY DEF Trigger, PlaceInv, devVars
<1> HIDE DEF c
<1>3. /\ Latest = prev /\ Latest' = Previous(c)
      /\ ControlEnabled <=> 2 \in prev.flags
      /\ prev.flags \in SUBSET (0 .. 5)
  BY <1>2 DEF Latest, ControlEnabled, TypeOK
<1>4. ASSUME NEW d \in Devices, d \notin MoveTargets(c), LastCmd(d) # Stop
      PROVE  outbox'[d] = Stop
  <2>1. d \in DevicesOf(prev) /\ ~first /\ 2 \in prev.flags
    BY <1>3, <1>4 DEF HabitInv, SafeInv, DisabledMeansStopped
  <2>2. PreviousMode # {}
    BY <2>1, ModeSets DEF DevicesOf, PreviousMode
  <2>3. c.mode = "eStop" /\ (4 \in prev.flags <=> c.freeRunAxis = "ePole")
    <3>1. /\ PreviousMode = ModeBits(c.mode) \/ c.mode = "eStop"
          /\ \/ 4 \in prev.flags <=> c.freeRunAxis = "ePole"
             \/ PreviousMode = ModeBits(c.mode) /\ c.mode # "eFree_run"
      BY <1>2, <2>1, <2>2 DEF HmiSends
    <3>2. PreviousMode # ModeBits(c.mode)
      BY <1>1, <1>4, <2>1, <3>1, SameModeTargets DEF PreviousMode
    <3>3. QED
      BY <3>1, <3>2
  <2>4. EventFlagByte(c, prev) # {} /\ StopTargets(c, prev) = DevicesOf(prev)
    BY <1>1, <1>3, <2>2, <2>3, StopTargetsOfMode DEF PreviousMode
  <2>5. Triggers(c, prev)
    BY <2>1, <2>4 DEF Triggers
  <2>6. QED
    BY <1>2, <2>1, <2>3, <2>4, <2>5 DEF Messages
<1>5. ASSUME NEW d \in Devices, d \notin MoveTargets(c)
      PROVE  LastCmd(d)' = Stop
  <2>1. Stop \in Message
    BY DEF Message
  <2>2. CASE outbox'[d] = Stop
    BY <2>1, <2>2, OutboxLast
  <2>3. CASE outbox'[d] # Stop
    <3>1. outbox'[d] = NoMsg
      BY <1>2, <1>5, <2>3 DEF Messages
    <3>2. outbox[d] = NoMsg
      BY <1>2 DEF Nothing
    <3>3. LastCmd(d)' = LastCmd(d)
      BY <1>2, <3>1, <3>2, SameLast
    <3>4. QED
      BY <1>4, <1>5, <2>3, <3>3
  <2>4. QED
    BY <2>2, <2>3
<1>6. QED
  BY <1>1, <1>2, <1>3, <1>5, DevicesOfPrevious DEF HabitInv

\* A step that the operator does not see, and that is not the start of a connection.
LEMMA UnseenHabit ==
  ASSUME HabitInv, Unseen, first' => first
  PROVE  HabitInv'
BY DEF HabitInv, Unseen

\* The other steps of tcp_thread.
LEMMA TcpHabit ==
  ASSUME TypeOK, PlaceInv, SafeInv, HabitInv,
         \/ Accept \/ Recv \/ RecvFails \/ DataFails \/ \E f \in Frames : BadFrame(f)
         \/ TriggerEnds \/ Reply \/ ReplyFails \/ Delete
         \/ EmergencyStop \/ EmergencyStopEnds \/ Close
  PROVE  HabitInv'
<1>1. CASE EmergencyStop
  <2>1. \A d \in Devices : outbox'[d] = Stop
    BY <1>1 DEF EmergencyStop
  <2>2. \A d \in Devices : LastCmd(d)' = Stop
    BY <2>1, OutboxLast DEF Message
  <2>3. QED
    BY <2>2 DEF HabitInv
<1>2. CASE ~EmergencyStop
  <2>1. UNCHANGED <<outbox, queue, dev>>
    BY <1>2 DEF Accept, Recv, RecvFails, DataFails, BadFrame, TriggerEnds, Reply, ReplyFails,
                Delete, EmergencyStopEnds, Close, devVars
  <2>2. \A d \in Devices : LastCmd(d)' = LastCmd(d)
    BY <2>1, SameLast
  <2>3. Latest' = Latest
    BY <1>2 DEF Accept, Recv, RecvFails, DataFails, BadFrame, TriggerEnds, Reply, ReplyFails,
                Delete, EmergencyStopEnds, Close, Latest
  <2>4. CASE Accept
    <3>1. \A d \in Devices : LastCmd(d) = Stop
      BY <2>4 DEF Accept, SafeInv, LinkDownMeansStopped
    <3>2. QED
      BY <2>2, <3>1 DEF HabitInv
  <2>5. CASE ~Accept
    <3>1. first' = first
      BY <1>2, <2>5 DEF Recv, RecvFails, DataFails, BadFrame, TriggerEnds, Reply, ReplyFails,
                        Delete, EmergencyStopEnds, Close
    <3>2. QED
      BY <2>2, <2>3, <3>1, UnseenHabit DEF Unseen
  <2>6. QED
    BY <2>4, <2>5
<1>3. QED
  BY <1>1, <1>2

\* Sending, taking, and the events around.
LEMMA OthersHabit ==
  ASSUME TypeOK, HabitInv,
         \/ \E d \in Devices : Send(d) \/ Task(d)
         \/ PeerLost \/ StallTrip \/ UNCHANGED vars
  PROVE  HabitInv'
<1>1. \A e \in Devices : LastCmd(e)' = LastCmd(e)
  <2>1. ASSUME NEW d \in Devices, Send(d) \/ Take(d)
        PROVE  \A e \in Devices : LastCmd(e)' = LastCmd(e)
    BY <2>1, SendLast, TakeLast
  <2>2. ASSUME (\E d \in Devices : Wake(d)) \/ PeerLost \/ StallTrip \/ UNCHANGED vars
        PROVE  \A e \in Devices : LastCmd(e)' = LastCmd(e)
    <3>1. UNCHANGED <<outbox, queue, dev>>
      BY <2>2 DEF Wake, PeerLost, StallTrip, vars, tcpVars, devVars
    <3>2. QED
      BY <3>1, SameLast
  <2>3. QED
    BY <2>1, <2>2 DEF Task
<1>2. UNCHANGED <<pc, cmd, prev, first>>
  BY DEF Send, Task, Take, Wake, PeerLost, StallTrip, vars, tcpVars
<1>3. QED
  BY <1>1, <1>2, UnseenHabit DEF Unseen, Latest

\* With these habits HabitInv is inductive, given the types and the safety invariant.
LEMMA NextHabit ==
  ASSUME StopBetween, AxisAtRest
  PROVE  TypeOK /\ PlaceInv /\ SafeInv /\ HabitInv /\ [Next]_vars => HabitInv'
BY TriggerHabit, TcpHabit, OthersHabit DEF Next, tcp_thread

\* If the HMI sends a STOP between two movements and selects the axis at rest, then after each
\* frame only the devices of the mode it asks for are moving or about to, whatever the frames,
\* lost connections, buffers and queues.
THEOREM HmiOnlyModeMoves ==
  ASSUME StopBetween, AxisAtRest
  PROVE  Spec => []OnlyModeMoves
<1>1. HabitInv => OnlyModeMoves
  BY DEF HabitInv, OnlyModeMoves, Latest
<1>2. TypeOK /\ PlaceInv /\ SafeInv /\ HabitInv /\ [Next]_vars => HabitInv'
  BY NextHabit
<1>3. QED
  BY <1>1, <1>2, InitType, InitSafe, InitHabit, NextType, NextSafe, PTL DEF Spec
===============================================================================
