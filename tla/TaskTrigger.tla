------------------------------ MODULE TaskTrigger ------------------------------
(***************************************************************************)
(* TaskTriggerMsg (task_trigger.c): which task is sent which message for a *)
(* command, given the command before it.                                   *)
(*                                                                         *)
(* The flag byte is the set of its bits that are on.                       *)
(***************************************************************************)
EXTENDS NetValues

Axes == {"arm", "pole"}
Devices == Axes \cup {"lift"}

\* enum mot_pap_direction and enum lift_type.
mot_pap_direction == {"CW", "CCW"}
Stop == [type |-> "STOP"]
FreeRun(dir, speed) == [type |-> "FREE_RUNNING", dir |-> dir, speed |-> speed]
ClosedLoop(setpoint) == [type |-> "CLOSED_LOOP", setpoint |-> setpoint]
LiftMove(dir) == [type |-> dir]

\* The messages of the queues: only the fields the receiver reads for the type.
Message ==
    {Stop} \cup {FreeRun(d, v) : d \in mot_pap_direction, v \in Vel}
           \cup {ClosedLoop(p) : p \in Pos} \cup {LiftMove("UP"), LiftMove("DOWN")}

\* In place of the message of a task that is sent none.
NoMsg == [type |-> "none"]

-------------------------------------------------------------------------------
(***************************************************************************)
(* The static variables: ucPreviousFlagByte and the two uiPreviousPosCmd.  *)
(***************************************************************************)
NoPrevious == [flags |-> {}, posCmdArm |-> 0, posCmdPole |-> 0]

ModeBits(mode) ==
    CASE mode = "eStop" -> {}
      [] mode = "eFree_run" -> {0}
      [] mode = "eAuto" -> {1}
      [] mode = "eLift" -> {0, 1}

ActualFlagByte(c) ==
    ModeBits(c.mode)
    \cup {b \in {2} : c.ctrlEn = "eEnable"}
    \cup {b \in {3} : c.freeRunDir = "eCCW"}
    \cup {b \in {4} : c.freeRunAxis = "ePole"}
    \cup {b \in {5} : c.liftDir = "eUp"}

\* What the end of TaskTriggerMsg stores.
Previous(c) ==
    [flags |-> ActualFlagByte(c), posCmdArm |-> c.posCmdArm, posCmdPole |-> c.posCmdPole]

Xor(a, b) == (a \ b) \cup (b \ a)

\* Mutant: the setpoint of the pole is forgotten.
EventFlagByteArmOnly(c, prev) ==
    Xor(ActualFlagByte(c), prev.flags)
    \cup {b \in {6} : c.posCmdArm # prev.posCmdArm}

EventFlagByte(c, prev) ==
    Xor(ActualFlagByte(c), prev.flags)
    \cup {b \in {6} : c.posCmdArm # prev.posCmdArm \/ c.posCmdPole # prev.posCmdPole}

\* Mutant: a frame that disables the control does not pass the condition.
TriggersWhenEnabled(c, prev) == EventFlagByte(c, prev) # {} /\ c.ctrlEn = "eEnable"

\* The condition on everything below: something changed, and the control is enabled or
\* was until this command.
Triggers(c, prev) ==
    /\ EventFlagByte(c, prev) # {}
    /\ c.ctrlEn = "eEnable" \/ 2 \in prev.flags

SelectedAxis(c) == IF c.freeRunAxis = "eArm" THEN "arm" ELSE "pole"

\* Mutant: leaving AUTO stops the selected axis only.
StopTargetsOneAxis(c, prev) ==
    LET events == EventFlagByte(c, prev)
        modeEvents == events \cap {0, 1}
    IN  IF modeEvents \in {{0}, {1}} \/ 4 \in events THEN {SelectedAxis(c)}
        ELSE IF modeEvents = {0, 1} THEN {"lift"}
        ELSE {}

\* case 0x00: the mode left, or a new axis, says whom to stop.
StopTargets(c, prev) ==
    LET events == EventFlagByte(c, prev)
        modeEvents == events \cap {0, 1}
    IN  IF modeEvents = {0} \/ 4 \in events THEN {SelectedAxis(c)}
        ELSE IF modeEvents = {1} THEN Axes
        ELSE IF modeEvents = {0, 1} THEN {"lift"}
        ELSE {}

\* The tasks the mode of the command sets in motion.
MoveTargets(c) ==
    CASE c.mode = "eStop" -> {}
      [] c.mode = "eFree_run" -> {SelectedAxis(c)}
      [] c.mode = "eAuto" -> Axes
      [] c.mode = "eLift" -> {"lift"}

\* The command that disables the control: a STOP for everyone, and the main power off.
Disables(c, prev) == c.ctrlEn = "eDisable" /\ 2 \in prev.flags
Enables(c, prev) == c.ctrlEn = "eEnable" /\ 2 \notin prev.flags

\* The movement the mode of the command asks of device d.
Movement(c, d) ==
    CASE c.mode = "eFree_run" ->
             FreeRun(IF c.freeRunDir = "eCCW" THEN "CCW" ELSE "CW",
                     IF d = "arm" THEN c.velCmdArm ELSE c.velCmdPole)
      [] c.mode = "eAuto" -> ClosedLoop(IF d = "arm" THEN c.posCmdArm ELSE c.posCmdPole)
      [] c.mode = "eLift" -> LiftMove(IF c.liftDir = "eUp" THEN "UP" ELSE "DOWN")

\* Mutant: disabling the control stops the devices of the present mode only.
MessagesModeOnly(c, prev) ==
    [d \in Devices |->
        IF ~Triggers(c, prev) THEN NoMsg
        ELSE IF c.mode = "eStop" /\ d \in StopTargets(c, prev) THEN Stop
        ELSE IF d \in MoveTargets(c) THEN
                 IF Disables(c, prev) THEN Stop ELSE Movement(c, d)
        ELSE NoMsg]

\* The messages a command makes the tcp thread send: bTypeStop prevails over the others.
Messages(c, prev) ==
    [d \in Devices |->
        IF ~Triggers(c, prev) THEN NoMsg
        ELSE IF Disables(c, prev) THEN Stop
        ELSE IF c.mode = "eStop" /\ d \in StopTargets(c, prev) THEN Stop
        ELSE IF d \in MoveTargets(c) THEN Movement(c, d)
        ELSE NoMsg]
================================================================================
