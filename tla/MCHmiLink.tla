------------------------------- MODULE MCHmiLink -------------------------------
(***************************************************************************)
(* Small instances of HmiLink for TLC.                                     *)
(***************************************************************************)
EXTENDS HmiLink

CONSTANTS
    Modes,         \* the modes the HMI uses
    Selected,      \* the axes it selects
    Variants,      \* the setpoints, directions and switches it uses together
    Refused        \* the frames that NetValuesReceivedFromHMI refuses

Frame(c) ==
    [len |-> RCV_TRAMA_LARGO, clientId |-> "SM13",
     posCmdArm |-> c.posCmdArm, posCmdPole |-> c.posCmdPole,
     velCmdArm |-> c.velCmdArm, velCmdPole |-> c.velCmdPole,
     mode |-> c.mode, freeRunAxis |-> c.freeRunAxis, freeRunDir |-> c.freeRunDir,
     ctrlEn |-> c.ctrlEn, stallEn |-> c.stallEn, liftDir |-> c.liftDir, setCal |-> c.setCal]

\* The commands of a variant, for the modes and axes it is about.
MCCommandsOf(v) ==
    {[posCmdArm |-> v.pos[1], posCmdPole |-> v.pos[2], velCmdArm |-> 1, velCmdPole |-> 1,
      mode |-> m, freeRunAxis |-> a, freeRunDir |-> v.dir, ctrlEn |-> e,
      stallEn |-> v.stall, liftDir |-> v.lift, setCal |-> IF m \in v.cal THEN "eCal" ELSE "eNop"] :
        m \in v.modes \cap Modes, a \in v.axes \cap Selected, e \in v.ctrlEn}

MCCommands == UNION {MCCommandsOf(v) : v \in Variants}

AnyCommand == CHOOSE c \in MCCommands : TRUE

\* One frame of every kind NetValuesReceivedFromHMI refuses.
EveryKind ==
    {[Frame(AnyCommand) EXCEPT !.len = 0], [Frame(AnyCommand) EXCEPT !.len = 50],
     [Frame(AnyCommand) EXCEPT !.clientId = Garbage],
     [Frame(AnyCommand) EXCEPT !.velCmdPole = 9], [Frame(AnyCommand) EXCEPT !.mode = Garbage]}

\* The kind it finds last.
OneKind == {[Frame(AnyCommand) EXCEPT !.mode = Garbage]}

MCFrames == {Frame(c) : c \in MCCommands} \cup Refused

MCQueueLen == [d \in Devices |-> 1]

Base == [modes |-> mode_t, axes |-> {"eArm", "ePole"}, ctrlEn |-> enable_t, pos |-> <<7, 8>>,
         dir |-> "eCW", stall |-> "eDisable", lift |-> "eUp", cal |-> {}]

\* The modes alone.
OneVariant == {Base}

\* An HMI whose STOP frames calibrate, and the changes that TaskTriggerMsg has to detect: a
\* setpoint, the direction of an axis, the direction of the lift.
Pole == [Base EXCEPT !.axes = {"ePole"}, !.cal = {"eStop"}]
Changed == [Pole EXCEPT !.ctrlEn = {"eEnable"}]
Changes ==
    {Pole,
     [Base EXCEPT !.modes = {"eStop", "eAuto"}, !.axes = {"eArm"}],
     [Changed EXCEPT !.modes = {"eAuto"}, !.pos = <<7, 7>>],
     [Changed EXCEPT !.modes = {"eFree_run"}, !.dir = "eCCW", !.stall = "eEnable"],
     [Changed EXCEPT !.modes = {"eLift"}, !.lift = "eDown"]}
================================================================================
