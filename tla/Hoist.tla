--------------------------------- MODULE Hoist ---------------------------------
(***************************************************************************)
(* What the lift task promises about its motor, without queue, relays or   *)
(* pause: a command that the movement in progress contradicts cuts the     *)
(* motor at once, and a motor that was cut is switched on again the way    *)
(* the latest command says.  Lift implements it.                           *)
(***************************************************************************)

VARIABLES
    command,   \* the command in force
    motor      \* what the motor does: "OFF", "UP" or "DOWN"

vars == <<command, motor>>

Init == command = "STOP" /\ motor = "OFF"

\* A new command comes into force: only a movement that agrees with it goes on.
Command(m) ==
    /\ command' = m
    /\ motor' = IF motor = m THEN motor ELSE "OFF"

\* The motor starts, from rest, as commanded.
Start ==
    /\ motor = "OFF"
    /\ command # "STOP"
    /\ motor' = command
    /\ UNCHANGED command

Next == Start \/ \E m \in {"UP", "DOWN", "STOP"} : Command(m)

\* A command that stays in force is obeyed.
Fairness == WF_vars(Start)

Spec == Init /\ [][Next]_vars /\ Fairness
================================================================================
