--------------------------------- MODULE Answer ---------------------------------
(***************************************************************************)
(* What the HMI is told after each frame (NetValuesToSendFromRTU): whether *)
(* both axes have arrived, and the temperature (temperature.c).            *)
(*                                                                         *)
(* An axis is the flag already_there and what sets and clears it: commands *)
(* taken by the motion task, which may be asleep in a direction change,    *)
(* and the supervisor, which looks first and writes the flag later.  The   *)
(* module MotPap has the rest of it.                                       *)
(***************************************************************************)
EXTENDS Integers, Functions

CONSTANTS
    Axes,
    MaxQueued,          \* bound: commands that wait for a task that is asleep
    TEMPERATURE_COUNT,
    Samples,            \* what the converter delivers
    SumModulus          \* 2^16

ASSUME AnswerAssumption ==
    /\ MaxQueued \in Nat \ {0}
    /\ TEMPERATURE_COUNT \in Nat \ {0}
    /\ SumModulus \in Nat \ {0}
    /\ Samples \subseteq {n \in Nat : n < SumModulus}

VARIABLES
    answering,          \* TaskTriggerMsg has sent its messages, the answer is due
    queued,             \* the commands each motion task has yet to take
    asleep,             \* it is in vTaskDelay
    homing,             \* closed loop, with the timer running
    reached,            \* the supervisor has found the position reached
    already_there,
    on_condition_old,
    aTemperature,
    index,              \* i
    temperature,
    tellings,           \* history: ON_COND since the last command taken
    away,               \* history: an answer since then found an axis not there
    exact,              \* history: the sum of the last TEMPERATURE_COUNT samples, ...
    partial             \* ... and of those since

axisVars == <<queued, asleep, homing, reached, already_there>>
temperatureVars == <<aTemperature, index, temperature, exact, partial>>
toldVars == <<on_condition_old, tellings, away>>
answerVars == <<answering, axisVars, toldVars, temperatureVars>>

Each(value) == [a \in Axes |-> value]

AnswerInit ==
    /\ answering = FALSE
    /\ queued = Each(0)
    /\ asleep = Each(FALSE) /\ homing = Each(FALSE) /\ reached = Each(FALSE)
    /\ already_there = Each(FALSE)
    /\ on_condition_old = FALSE
    /\ tellings = 0 /\ away = FALSE
    /\ aTemperature = [x \in 0 .. TEMPERATURE_COUNT - 1 |-> 0]
    /\ index = 0 /\ temperature = 0
    /\ exact = 0 /\ partial = 0

-------------------------------------------------------------------------------
(* Commands. *)

\* TaskTriggerMsg: a message for each axis of S, when the queues have room.
Frame(S) ==
    /\ ~answering
    /\ \A a \in S : queued[a] < MaxQueued
    /\ queued' = [a \in Axes |-> IF a \in S THEN queued[a] + 1 ELSE queued[a]]
    /\ answering' = TRUE
    /\ UNCHANGED <<asleep, homing, reached, already_there, toldVars, temperatureVars>>

\* prvEmergencyStop: a message for both axes, and no answer.
EmergencyStop ==
    /\ ~answering
    /\ \A a \in Axes : queued[a] < MaxQueued
    /\ queued' = [a \in Axes |-> queued[a] + 1]
    /\ UNCHANGED <<answering, asleep, homing, reached, already_there, toldVars,
                   temperatureVars>>

\* The motion task takes a command, which leaves the axis as told.
Takes(a, there, home, sleep) ==
    /\ ~asleep[a]
    /\ queued[a] > 0
    /\ queued' = [queued EXCEPT ![a] = @ - 1]
    /\ already_there' = [already_there EXCEPT ![a] = there]
    /\ homing' = [homing EXCEPT ![a] = home]
    /\ asleep' = [asleep EXCEPT ![a] = sleep]
    /\ tellings' = 0 /\ away' = FALSE
    /\ UNCHANGED <<answering, reached, on_condition_old, temperatureVars>>

\* The command is to be where the axis is; a closed loop, at once or after a pause; STOP or a
\* free run; a free run with speed 0, which changes no movement.
Command(a) ==
    \/ Takes(a, TRUE, FALSE, FALSE)
    \/ Takes(a, FALSE, TRUE, FALSE)
    \/ Takes(a, FALSE, FALSE, TRUE)
    \/ Takes(a, FALSE, FALSE, FALSE)
    \/ Takes(a, FALSE, homing[a], FALSE)

\* vTaskDelay returns, in a closed loop or a free run.
DelayEnd(a, home) ==
    /\ asleep[a]
    /\ asleep' = [asleep EXCEPT ![a] = FALSE]
    /\ homing' = [homing EXCEPT ![a] = home]
    /\ UNCHANGED <<answering, queued, reached, already_there, toldVars, temperatureVars>>

\* The motion tasks go first.
TasksBlocked == \A a \in Axes : asleep[a] \/ queued[a] = 0

\* mot_pap_supervise finds the position reached ...
Reaches(a) ==
    /\ TasksBlocked
    /\ homing[a]
    /\ ~reached[a]
    /\ reached' = [reached EXCEPT ![a] = TRUE]
    /\ UNCHANGED <<answering, queued, asleep, homing, already_there, toldVars, temperatureVars>>

\* ... and writes so, a new command in between or not.
Arrives(a) ==
    /\ TasksBlocked
    /\ reached[a]
    /\ reached' = [reached EXCEPT ![a] = FALSE]
    /\ already_there' = [already_there EXCEPT ![a] = TRUE]
    /\ homing' = [homing EXCEPT ![a] = FALSE]
    /\ UNCHANGED <<answering, queued, asleep, toldVars, temperatureVars>>

-------------------------------------------------------------------------------
(* The answer. *)

\* Mutant: the loop ends one sample early.
SumShort(f) == (FoldFunction(+, 0, f) - f[TEMPERATURE_COUNT - 1]) % SumModulus

\* The sum of the samples, in 16 bits.
Sum(f) == FoldFunction(+, 0, f) % SumModulus

\* The converter has delivered a sample.
temperature_read(sample) ==
    LET samples == [aTemperature EXCEPT ![index] = sample]
        full == index + 1 = TEMPERATURE_COUNT
    IN  /\ aTemperature' = samples
        /\ index' = IF full THEN 0 ELSE index + 1
        /\ temperature' = IF full THEN Sum(samples) \div TEMPERATURE_COUNT ELSE temperature
        /\ exact' = IF full THEN partial + sample ELSE exact
        /\ partial' = IF full THEN 0 ELSE partial + sample

on_condition == \A a \in Axes : already_there[a]

\* Mutant: what was last told is only kept when it is told.
OnConditionSticky ==
    /\ tellings' = IF on_condition /\ ~on_condition_old THEN tellings + 1 ELSE tellings
    /\ away' = (away \/ ~on_condition)
    /\ on_condition_old' = (on_condition \/ on_condition_old)

\* ON_COND when both are there and were not at the last answer.
OnCondition ==
    /\ tellings' = IF on_condition /\ ~on_condition_old THEN tellings + 1 ELSE tellings
    /\ away' = (away \/ ~on_condition)
    /\ on_condition_old' = on_condition

NetValuesToSendFromRTU ==
    /\ answering
    /\ TasksBlocked
    /\ answering' = FALSE
    /\ \E sample \in Samples : temperature_read(sample)
    /\ OnCondition
    /\ UNCHANGED axisVars

AnswerNext ==
    \/ \E S \in SUBSET Axes : Frame(S)
    \/ EmergencyStop
    \/ \E a \in Axes :
          \/ Command(a)
          \/ \E home \in BOOLEAN : DelayEnd(a, home)
          \/ Reaches(a) \/ Arrives(a)
    \/ NetValuesToSendFromRTU

AnswerSpec == AnswerInit /\ [][AnswerNext]_answerVars

-------------------------------------------------------------------------------

\* ON_COND has been said.
Told == tellings = 1

\* An arrival is told exactly once: since the last command that an axis took, ON_COND has been
\* said at most once, only with both axes there, and has been said when an answer found both
\* there after one that did not.  Without such an answer in between, an arrival goes untold.
ArrivalTold ==
    /\ tellings \in {0, 1}
    /\ Told => on_condition
    /\ on_condition_old /\ away => Told

\* The inductive invariant behind it: what was said was said in the last answer, or before.
ToldInv ==
    /\ already_there \in [Axes -> BOOLEAN]
    /\ on_condition_old \in BOOLEAN /\ away \in BOOLEAN
    /\ ArrivalTold
    /\ Told => on_condition_old

\* The temperature in the answer is the average of the last complete set of samples, each
\* counted once, as long as their sum fits into 16 bits.  A set that exceeds them is reported
\* as something smaller.
TemperatureTrue == exact < SumModulus => temperature = exact \div TEMPERATURE_COUNT
================================================================================
