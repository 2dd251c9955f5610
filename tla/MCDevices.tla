------------------------------- MODULE MCDevices -------------------------------
(***************************************************************************)
(* Small instances for TLC of the lift task, of the answer to the HMI, of  *)
(* the temperature in it, and of the Ethernet driver, which either sends   *)
(* or receives.  They share no state here, so that an execution is about   *)
(* one of the five, told by "part".                                        *)
(***************************************************************************)
EXTENDS Lift, Answer, MCEmac

VARIABLE part

devicesVars == <<part, vars, answerVars, emacVars>>

DevicesInit ==
    /\ part \in {"lift", "answer", "temperature", "sending", "receiving"}
    /\ lift_init /\ AnswerInit /\ lpc_enetif_init

OfLift(A) == part = "lift" /\ A /\ UNCHANGED <<part, answerVars, emacVars>>

\* The axes with a converter that delivers 0, or the converter with axes that get no command.
OfAnswer ==
    /\ part \in {"answer", "temperature"}
    /\ AnswerNext
    /\ IF part = "answer" THEN UNCHANGED aTemperature ELSE UNCHANGED axisVars
    /\ UNCHANGED <<part, vars, emacVars>>

OfEmac(A) ==
    /\ part \in {"sending", "receiving"}
    /\ A
    /\ part = "receiving" => UNCHANGED output
    /\ UNCHANGED <<part, vars, answerVars>>

DevicesNext ==
    \/ OfLift(lift_task)
    \/ OfLift(\E m \in lift_type : Send(m))
    \/ OfAnswer
    \/ OfEmac(EmacStep)
    \/ part = "receiving" /\ OfEmac(\E f \in Frames : FrameComes(f))

\* The fairness of the lift task (Lift) and of the driver (Emac).
DevicesSpec ==
    /\ DevicesInit
    /\ [][DevicesNext]_devicesVars
    /\ WF_devicesVars(OfLift(lift_task))
    /\ WF_devicesVars(OfEmac(tcpip_thread))
    /\ SF_devicesVars(OfEmac(vTransmitCleanupTask))
    /\ SF_devicesVars(OfEmac(vPacketReceiveTask))
    /\ WF_devicesVars(OfEmac(DmaSends \/ DmaSuspends))
    /\ WF_devicesVars(OfEmac(ETH_IRQHandler))
================================================================================
