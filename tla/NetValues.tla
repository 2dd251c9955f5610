------------------------------- MODULE NetValues -------------------------------
(***************************************************************************)
(* The frame of the HMI and its translation into a command (net_values.c   *)
(* and the types of rtu_com_hmi.h).                                        *)
(*                                                                         *)
(* A frame is a buffer of some length laid over HMIData_t: two positions   *)
(* and two speeds in binary, and eight five-character words.  A word is    *)
(* abstracted to the enumerator it spells, or to Garbage.                  *)
(***************************************************************************)
EXTENDS Integers

CONSTANTS
    Pos,       \* the values of posCmdArm and posCmdPole that occur, 16 bit
    Vel        \* the values of velCmdArm and velCmdPole that occur, 8 bit

uint8 == {n \in Nat : n <= 255}
uint16 == {n \in Nat : n <= 65535}

ASSUME ValuesAssumption == Pos \subseteq uint16 /\ Vel \subseteq uint8

RCV_TRAMA_LARGO == 51
MOT_PAP_MAX_SPEED_FREE_RUN == 8

ERR_OK == 0
ERROR_TRAMA_VACIA == 129
ERROR_TRAMA_LARGO == 130
ERROR_TRAMA_DATO == 131
ERROR_TRAMA_CLIENTE == 132
ERROR_NETCONN == 133

\* The values of iServerStatus.
ServerStatus ==
    {ERR_OK, ERROR_TRAMA_VACIA, ERROR_TRAMA_LARGO, ERROR_TRAMA_DATO,
     ERROR_TRAMA_CLIENTE, ERROR_NETCONN}

mode_t == {"eStop", "eFree_run", "eAuto", "eLift"}
freeRunAxis_t == {"eArm", "ePole"}
freeRunDir_t == {"eCW", "eCCW"}
enable_t == {"eDisable", "eEnable"}
liftDir_t == {"eDown", "eUp"}
setCal_t == {"eNop", "eCal"}

\* A command: what TaskTriggerMsg is handed.
HMICmd_t ==
    [posCmdArm : Pos, posCmdPole : Pos, velCmdArm : Vel, velCmdPole : Vel,
     mode : mode_t, freeRunAxis : freeRunAxis_t, freeRunDir : freeRunDir_t,
     ctrlEn : enable_t, stallEn : enable_t, liftDir : liftDir_t, setCal : setCal_t]

\* A word that spells none of the expected texts.
Garbage == "garbage"

\* A received part: its length and, when it is long enough, the fields it holds.
HMIData_t ==
    [len : uint16, clientId : {"SM13", Garbage},
     posCmdArm : Pos, posCmdPole : Pos, velCmdArm : Vel, velCmdPole : Vel,
     mode : mode_t \cup {Garbage}, freeRunAxis : freeRunAxis_t \cup {Garbage},
     freeRunDir : freeRunDir_t \cup {Garbage}, ctrlEn : enable_t \cup {Garbage},
     stallEn : enable_t \cup {Garbage}, liftDir : liftDir_t \cup {Garbage},
     setCal : setCal_t \cup {Garbage}]

prvFormatoTramaRecv(len) ==
    IF len <= 0 THEN ERROR_TRAMA_VACIA
    ELSE IF len # RCV_TRAMA_LARGO THEN ERROR_TRAMA_LARGO
    ELSE ERR_OK

\* The checks that set ERROR_TRAMA_DATO, all made whatever the others found.
BadData(f) ==
    \/ f.velCmdArm > MOT_PAP_MAX_SPEED_FREE_RUN
    \/ f.velCmdPole > MOT_PAP_MAX_SPEED_FREE_RUN
    \/ Garbage \in {f.mode, f.freeRunAxis, f.freeRunDir, f.ctrlEn,
                    f.stallEn, f.liftDir, f.setCal}

\* The status NetValuesReceivedFromHMI returns.
NetValuesReceivedFromHMI(f) ==
    IF prvFormatoTramaRecv(f.len) # ERR_OK THEN prvFormatoTramaRecv(f.len)
    ELSE IF f.clientId # "SM13" THEN ERROR_TRAMA_CLIENTE
    ELSE IF BadData(f) THEN ERROR_TRAMA_DATO
    ELSE ERR_OK

\* The HMICmd it leaves behind, used only when the status is ERR_OK.
Parsed(f) ==
    [posCmdArm |-> f.posCmdArm, posCmdPole |-> f.posCmdPole,
     velCmdArm |-> f.velCmdArm, velCmdPole |-> f.velCmdPole,
     mode |-> f.mode, freeRunAxis |-> f.freeRunAxis, freeRunDir |-> f.freeRunDir,
     ctrlEn |-> f.ctrlEn, stallEn |-> f.stallEn, liftDir |-> f.liftDir,
     setCal |-> f.setCal]
================================================================================
