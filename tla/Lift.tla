--------------------------------- MODULE Lift ---------------------------------
(***************************************************************************)
(* The lift task (lift.c) and the two relays it drives (relay.c).          *)
(*                                                                         *)
(* lift_task takes one command at a time from lift_queue.  A command that  *)
(* reverses the movement first cuts the power and sleeps in vTaskDelay;    *)
(* then the direction relay and the power relay are switched, in this      *)
(* order.  The two relay writes are steps of their own: what the motor     *)
(* sees between them is what the properties are about.                     *)
(***************************************************************************)
EXTENDS Naturals, Sequences

CONSTANTS
    QueueLen   \* length of lift_queue: 5 in lift_init

ASSUME QueueLenAssumption == QueueLen \in Nat \ {0}

\* enum lift_type: the commands of a lift_msg and the state lift.type.
lift_type == {"UP", "DOWN", "STOP"}

\* enum lift_direction: LIFT_DIRECTION_UP and LIFT_DIRECTION_DOWN.
lift_direction == {"UP", "DOWN"}

VARIABLES
    queue,     \* lift_queue
    type,      \* lift.type
    pc,        \* where lift_task is
    cmd,       \* msg_rcv->type of the command being executed
    dirRelay,  \* GPIO2[4], set by relay_lift_dir
    pwrRelay   \* GPIO2[5], set by relay_lift_pwr

vars == <<queue, type, pc, cmd, dirRelay, pwrRelay>>

TypeOK ==
    /\ queue \in Seq(lift_type)
    /\ Len(queue) <= QueueLen
    /\ type \in lift_type
    /\ pc \in {"recv", "delay", "dir", "pwr"}
    /\ cmd \in lift_type
    /\ dirRelay \in lift_direction
    /\ pwrRelay \in BOOLEAN

(***************************************************************************)
(* relay_init leaves every output low: the lift is unpowered and the       *)
(* direction relay, high for UP, reads DOWN.                               *)
(***************************************************************************)
lift_init ==
    /\ queue = <<>>
    /\ type = "STOP"
    /\ pc = "recv"
    /\ cmd = "STOP"
    /\ dirRelay = "DOWN"
    /\ pwrRelay = FALSE

\* Mutant: a send that overruns the queue instead of waiting for room.
SendNeverWaits(m) ==
    /\ queue' = Append(queue, m)
    /\ UNCHANGED <<type, pc, cmd, dirRelay, pwrRelay>>

\* The tcp thread: xQueueSend(lift_queue, ..., portMAX_DELAY) waits for room.
Send(m) ==
    /\ Len(queue) < QueueLen
    /\ queue' = Append(queue, m)
    /\ UNCHANGED <<type, pc, cmd, dirRelay, pwrRelay>>

relay_lift_pwr(state) == pwrRelay' = state

relay_lift_dir(dir) == dirRelay' = dir

-------------------------------------------------------------------------------

\* Mutant: forgets that a running lift has to be cut before it is reversed.
NeverReverses(m) == FALSE

\* The command asks for the opposite of the movement in progress.
Reverses(m) ==
    \/ m = "UP" /\ type = "DOWN"
    \/ m = "DOWN" /\ type = "UP"

\* Mutant: the default case of the switch forgets the relay.
StopKeepsPower ==
    /\ Head(queue) = "STOP"
    /\ type' = "STOP"
    /\ pc' = "recv"
    /\ UNCHANGED <<dirRelay, pwrRelay>>

\* case default: the command is not a movement.
ReceiveStop ==
    /\ Head(queue) = "STOP"
    /\ type' = "STOP"
    /\ relay_lift_pwr(FALSE)
    /\ pc' = "recv"
    /\ UNCHANGED dirRelay

\* case LIFT_TYPE_UP or LIFT_TYPE_DOWN against the movement in progress: cut the
\* power and sleep for LIFT_DIRECTION_CHANGE_DELAY_MS.
ReceiveReverse ==
    /\ Reverses(Head(queue))
    /\ relay_lift_pwr(FALSE)
    /\ pc' = "delay"
    /\ UNCHANGED <<type, dirRelay>>

\* case LIFT_TYPE_UP or LIFT_TYPE_DOWN otherwise: no pause.
ReceiveMove ==
    /\ Head(queue) # "STOP"
    /\ ~Reverses(Head(queue))
    /\ pc' = "dir"
    /\ UNCHANGED <<type, dirRelay, pwrRelay>>

\* xQueueReceive and the case of the switch it selects.
Receive ==
    /\ pc = "recv"
    /\ queue # <<>>
    /\ queue' = Tail(queue)
    /\ cmd' = Head(queue)
    /\ ReceiveStop \/ ReceiveReverse \/ ReceiveMove

\* vTaskDelay returns.
DelayEnds ==
    /\ pc = "delay"
    /\ pc' = "dir"
    /\ UNCHANGED <<queue, type, cmd, dirRelay, pwrRelay>>

SetDirection ==
    /\ pc = "dir"
    /\ type' = cmd
    /\ relay_lift_dir(cmd)
    /\ pc' = "pwr"
    /\ UNCHANGED <<queue, cmd, pwrRelay>>

SetPower ==
    /\ pc = "pwr"
    /\ relay_lift_pwr(TRUE)
    /\ pc' = "recv"
    /\ UNCHANGED <<queue, type, cmd, dirRelay>>

lift_task == Receive \/ DelayEnds \/ SetDirection \/ SetPower

Next == lift_task \/ \E m \in lift_type : Send(m)

\* The task has the highest priority of the system and its delay is finite.
Fairness == WF_vars(lift_task)

Spec == lift_init /\ [][Next]_vars /\ Fairness

-------------------------------------------------------------------------------

\* The direction relay is never switched under power: lift_task cuts the power
\* before it reverses, whatever the commands and however fast they follow each other.
NoSwitchUnderPower == [][dirRelay' # dirRelay => ~pwrRelay]_vars

\* Between two commands the power relay tells the truth about lift.type, and a powered
\* lift moves the way lift.type says.
RelaysMatchType ==
    pc = "recv" =>
        /\ pwrRelay <=> type # "STOP"
        /\ pwrRelay => dirRelay = type

\* Every STOP that reaches lift_queue comes into force with the power cut, even when it
\* was sent while the task was asleep in a reversal with other commands before it.
StopCutsPower ==
    (\E i \in DOMAIN queue : queue[i] = "STOP") ~> (type = "STOP" /\ ~pwrRelay)

\* What the relays make of the motor.
Motor == IF pwrRelay THEN dirRelay ELSE "OFF"

H == INSTANCE Hoist WITH command <- cmd, motor <- Motor

\* The lift task implements the hoist: through every interleaving of its two relay writes
\* with new commands the motor is cut at once by a command that contradicts it, never runs
\* another way than commanded, and is in the end switched on as commanded.
ImplementsHoist == H!Spec

(***************************************************************************)
(* The inductive invariant behind the two safety properties: where the     *)
(* task is determines what the relays may be.                              *)
(***************************************************************************)
PowerInv ==
    /\ pwrRelay => type # "STOP" /\ dirRelay = type
    /\ pc = "recv" => (pwrRelay <=> type # "STOP")
    /\ pc = "delay" => ~pwrRelay /\ cmd # "STOP"
    /\ pc = "dir" => cmd # "STOP" /\ (pwrRelay => type = cmd)
    /\ pc = "pwr" => cmd # "STOP" /\ type = cmd /\ dirRelay = cmd

===============================================================================
