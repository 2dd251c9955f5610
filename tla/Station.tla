-------------------------------- MODULE Station --------------------------------
(***************************************************************************)
(* The station as the operator sees it: each good frame acts on all the    *)
(* devices and on the main power in one step, in the order of the frames,  *)
(* and so does the halt that ends a connection.  There are no queues, no   *)
(* thread that waits for room in them, and no buffers.  HmiLink implements *)
(* it.                                                                     *)
(***************************************************************************)
EXTENDS TaskTrigger

CONSTANTS
    Frames     \* the frames the HMI may send

VARIABLES
    latest,    \* what the latest good frame asked for
    commanded, \* the command in force for each device
    power      \* the main power

vars == <<latest, commanded, power>>

Init ==
    /\ latest = NoPrevious
    /\ commanded = [d \in Devices |-> Stop]
    /\ power = FALSE

\* The command c takes the place of the latest one for the devices it is about.
Obey(c) ==
    /\ latest' = Previous(c)
    /\ commanded' = [d \in Devices |-> IF Messages(c, latest)[d] = NoMsg
                                       THEN commanded[d] ELSE Messages(c, latest)[d]]
    /\ power' = IF Triggers(c, latest) /\ Disables(c, latest) THEN FALSE
                ELSE IF Triggers(c, latest) /\ Enables(c, latest) THEN TRUE
                ELSE power

Frame(f) == NetValuesReceivedFromHMI(f) = ERR_OK /\ Obey(Parsed(f))

\* The connection has failed: everything is stopped.
Halt ==
    /\ commanded' = [d \in Devices |-> Stop]
    /\ UNCHANGED <<latest, power>>

\* The end of a halt, or a stalled axis.
PowerOff ==
    /\ power' = FALSE
    /\ UNCHANGED <<latest, commanded>>

Next ==
    \/ PowerOff
    \/ Halt
    \/ \E f \in Frames : Frame(f)

Spec == Init /\ [][Next]_vars
================================================================================
