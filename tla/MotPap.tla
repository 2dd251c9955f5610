-------------------------------- MODULE MotPap --------------------------------
(***************************************************************************)
(* One stepper axis, arm or pole (mot_pap.c, arm.c, pole.c, tmr.c).        *)
(*                                                                         *)
(* Four actors share struct mot_pap and the axis' timer without a lock:    *)
(* the motion task (highest priority), the tcp thread, the supervisor task *)
(* (lowest priority) and the timer interrupt.  The motion task runs a      *)
(* command without being overtaken by the supervisor or the tcp thread,    *)
(* until it sleeps in vTaskDelay; the supervisor may be preempted anywhere,*)
(* so each of its accesses to shared state is a step.                      *)
(***************************************************************************)
EXTENDS Integers, Sequences

CONSTANTS
    Turn,           \* 1 << rdc.resolution: 65536
    Raw,            \* the readings of the RDC that occur
    Offsets,        \* the offsets that calibrations set
    Setpoints,      \* the setpoints of AUTO commands
    Speeds,         \* the speeds of FREE RUN commands
    StallSettings,  \* the values the HMI gives stall_detection
    QueueLen,       \* 5 for the arm, 2 for the pole
    MOT_PAP_MAX_FREQ,               \* 125000
    MOT_PAP_COMPUMOTOR_MAX_FREQ,    \* 300000
    MOT_PAP_SUPERVISOR_RATE,
    MOT_PAP_POS_PROXIMITY_THRESHOLD,
    MOT_PAP_POS_THRESHOLD,
    MOT_PAP_STALL_THRESHOLD,
    MOT_PAP_STALL_MAX_COUNT

ASSUME TurnAssumption == Turn \in Nat \ {0}
ASSUME PositionAssumption ==
    /\ Raw \subseteq 0 .. Turn - 1
    /\ Offsets \subseteq 0 .. Turn - 1
    /\ Offsets # {}
    /\ Setpoints \subseteq 0 .. Turn - 1
ASSUME CommandAssumption == Speeds \subseteq Nat /\ StallSettings \subseteq BOOLEAN
ASSUME LimitAssumption ==
    /\ QueueLen \in Nat \ {0}
    /\ MOT_PAP_SUPERVISOR_RATE \in Nat \ {0}
    /\ MOT_PAP_POS_PROXIMITY_THRESHOLD \in Nat
    /\ MOT_PAP_POS_THRESHOLD \in Nat
    /\ MOT_PAP_STALL_THRESHOLD \in Nat
    /\ MOT_PAP_STALL_MAX_COUNT \in Nat \ {0}

MOT_PAP_MAX_SPEED_FREE_RUN == 8

\* Indexed from 1 here: speed 0 is refused before the table is read.
mot_pap_free_run_freqs == <<25, 25, 25, 50, 75, 75, 100, 125>>

\* The frequencies asked for are ones the timer accepts.
ASSUME FrequencyAssumption ==
    /\ MOT_PAP_MAX_FREQ \in Nat
    /\ MOT_PAP_COMPUMOTOR_MAX_FREQ \in Nat
    /\ 0 < MOT_PAP_MAX_FREQ \div 4
    /\ MOT_PAP_MAX_FREQ <= MOT_PAP_COMPUMOTOR_MAX_FREQ
    /\ \A speed \in 1 .. MOT_PAP_MAX_SPEED_FREE_RUN :
         1000 * mot_pap_free_run_freqs[speed] <= MOT_PAP_COMPUMOTOR_MAX_FREQ

mot_pap_direction == {"CW", "CCW"}
mot_pap_type == {"FREE_RUNNING", "CLOSED_LOOP", "STOP"}

mot_pap_msg ==
    [type : {"STOP"}] \cup [type : {"CLOSED_LOOP"}, setpoint : Setpoints]
    \cup [type : {"FREE_RUNNING"}, dir : mot_pap_direction, speed : Speeds]

VARIABLES
    me,               \* struct mot_pap
    tmr,              \* the timer: started, and the frequency of its match register
    dirLine,          \* the direction output, ARM_DIR or POLE_DIR
    sem,              \* supervisor_semaphore
    queue,            \* arm_queue or pole_queue
    pending,          \* the movement the task will start when its vTaskDelay ends
    supPc,            \* where mot_pap_supervise is
    supError,         \* its local error
    supCount,         \* stalled_counter as loaded for the increment
    stall_detection,
    mainPwr,          \* MAIN_PWR
    overlap,          \* history: a command and a pass of the supervisor have overlapped
    still             \* history: passes that found the axis still since the last command

taskVars == <<queue, pending>>
supVars == <<supPc, supError, supCount>>
vars == <<me, tmr, dirLine, sem, taskVars, supVars, stall_detection, mainPwr, overlap, still>>

Freqs == 0 .. MOT_PAP_COMPUMOTOR_MAX_FREQ

mot_pap ==
    [type : mot_pap_type, dir : mot_pap_direction, posCmd : 0 .. Turn - 1,
     posAct : 0 .. Turn - 1, freq : Freqs, stalled : BOOLEAN, already_there : BOOLEAN,
     stalled_counter : 0 .. MOT_PAP_STALL_MAX_COUNT, last_dir : mot_pap_direction,
     last_pos : 0 .. Turn - 1, half_pulses : 0 .. MOT_PAP_SUPERVISOR_RATE - 1,
     offset : 0 .. Turn - 1]

Movement == [type : mot_pap_type \ {"STOP"}, dir : mot_pap_direction, freq : Freqs \ {0}]
NoMovement == [type |-> "none"]

SupervisorSteps ==
    {"wait", "read", "stall", "count", "stalled", "stallStop", "stallPwr", "control",
     "near", "nearStop", "nearFreq", "nearStart", "there", "thereType", "thereStop",
     "turnStop", "turnDelay", "turnDir", "turnLine", "turnStart", "cont"}

TypeOK ==
    /\ me \in mot_pap
    /\ tmr \in [started : BOOLEAN, freq : Freqs]
    /\ dirLine \in mot_pap_direction
    /\ sem \in BOOLEAN
    /\ queue \in Seq(mot_pap_msg)
    /\ Len(queue) <= QueueLen
    /\ pending \in Movement \cup {NoMovement}
    /\ supPc \in SupervisorSteps
    /\ supError \in -Turn .. Turn
    /\ supCount \in 0 .. MOT_PAP_STALL_MAX_COUNT
    /\ stall_detection \in BOOLEAN
    /\ mainPwr \in BOOLEAN
    /\ overlap \in BOOLEAN
    /\ still \in 0 .. MOT_PAP_STALL_MAX_COUNT

\* arm_init or pole_init.  dir is zero, CW, and the output low, which is CCW for the arm
\* and CW for the pole.
Init ==
    /\ \E o \in Offsets :
         me = [type |-> "STOP", dir |-> "CW", posCmd |-> 0, posAct |-> 0, freq |-> 0,
               stalled |-> FALSE, already_there |-> FALSE, stalled_counter |-> 0,
               last_dir |-> "CW", last_pos |-> 0, half_pulses |-> 0, offset |-> o]
    /\ tmr = [started |-> FALSE, freq |-> 0]
    /\ dirLine \in mot_pap_direction
    /\ sem = FALSE
    /\ queue = <<>>
    /\ pending = NoMovement
    /\ supPc = "wait"
    /\ supError = 0
    /\ supCount = 0
    /\ stall_detection = FALSE
    /\ mainPwr = FALSE
    /\ overlap = FALSE
    /\ still = 0

-------------------------------------------------------------------------------
(***************************************************************************)
(* Helpers of mot_pap.c and tmr.c.                                         *)
(***************************************************************************)
abs(n) == IF n < 0 THEN -n ELSE n

mot_pap_offset_correction(pos, offset) ==
    IF pos - offset < 0 THEN pos - offset + Turn ELSE pos - offset

mot_pap_direction_calculate(error) == IF error < 0 THEN "CW" ELSE "CCW"

mot_pap_free_run_speed_ok(speed) == speed > 0 /\ speed <= MOT_PAP_MAX_SPEED_FREE_RUN

\* The record after a new reading of the RDC.
ReadPosition(m, raw) == [m EXCEPT !.posAct = mot_pap_offset_correction(raw, m.offset)]

tmr_start(t) == [t EXCEPT !.started = TRUE]
tmr_stop(t) == [t EXCEPT !.started = FALSE]

\* A frequency that is out of range leaves the match register alone.
tmr_set_freq(t, freq) ==
    IF freq > MOT_PAP_COMPUMOTOR_MAX_FREQ THEN t ELSE [t EXCEPT !.freq = freq]

\* dout_arm_dir or dout_pole_dir, which drive their pins with opposite polarity.
gpios_direction(dir) == dirLine' = dir

AtMost(n, max) == IF n > max THEN max ELSE n

-------------------------------------------------------------------------------
(***************************************************************************)
(* The motion task: arm_task and pole_task.                                *)
(***************************************************************************)

\* Asleep, or waiting on an empty queue: only then do the others run.
TaskBlocked == pending # NoMovement \/ queue = <<>>

\* Mutant: the direction output is not written.
StartWithoutLine(m, mv) ==
    /\ me' = [m EXCEPT !.type = mv.type, !.dir = mv.dir, !.freq = mv.freq]
    /\ tmr' = tmr_start(tmr_set_freq(tmr_stop(tmr), mv.freq))
    /\ pending' = NoMovement
    /\ UNCHANGED dirLine

\* The common end of mot_pap_move_free_run and mot_pap_move_closed_loop.
StartMovement(m, mv) ==
    /\ me' = [m EXCEPT !.type = mv.type, !.dir = mv.dir, !.freq = mv.freq]
    /\ gpios_direction(mv.dir)
    /\ tmr' = tmr_start(tmr_set_freq(tmr_stop(tmr), mv.freq))
    /\ pending' = NoMovement

\* Mutant: a reversal is not preceded by a pause.
MoveWithoutPause(m, mv) == StartMovement(m, mv)

\* A movement that reverses the present one stops the timer and sleeps for
\* MOT_PAP_DIRECTION_CHANGE_DELAY_MS first.
Move(m, mv) ==
    \/ /\ m.dir # mv.dir /\ m.type # "STOP"
       /\ me' = m
       /\ tmr' = tmr_stop(tmr)
       /\ pending' = mv
       /\ UNCHANGED dirLine
    \/ /\ ~(m.dir # mv.dir /\ m.type # "STOP")
       /\ StartMovement(m, mv)

\* Mutant: the range of the speed is not checked before the table is read.
FreeRunUnchecked(m, msg) ==
    Move(m, [type |-> "FREE_RUNNING", dir |-> msg.dir,
             freq |-> 1000 * (IF msg.speed \in 1 .. 8
                              THEN mot_pap_free_run_freqs[msg.speed] ELSE 0)])

mot_pap_move_free_run(m, msg) ==
    \/ /\ mot_pap_free_run_speed_ok(msg.speed)
       /\ Move(m, [type |-> "FREE_RUNNING", dir |-> msg.dir,
                   freq |-> 1000 * mot_pap_free_run_freqs[msg.speed]])
    \/ /\ ~mot_pap_free_run_speed_ok(msg.speed)
       /\ me' = m
       /\ UNCHANGED <<tmr, dirLine, pending>>

mot_pap_move_closed_loop(m, msg) ==
    LET error == msg.setpoint - m.posAct
        commanded == [m EXCEPT !.posCmd = msg.setpoint]
    IN  \/ /\ abs(error) < MOT_PAP_POS_THRESHOLD
           /\ me' = [commanded EXCEPT !.already_there = TRUE]
           /\ tmr' = tmr_stop(tmr)
           /\ UNCHANGED <<dirLine, pending>>
        \/ /\ abs(error) >= MOT_PAP_POS_THRESHOLD
           /\ Move(commanded, [type |-> "CLOSED_LOOP",
                               dir |-> mot_pap_direction_calculate(error),
                               freq |-> MOT_PAP_MAX_FREQ])

\* Mutant: STOP forgets the timer.
StopLeavesTimer(m) ==
    /\ me' = [m EXCEPT !.type = "STOP"]
    /\ UNCHANGED <<tmr, dirLine, pending>>

mot_pap_stop(m) ==
    /\ me' = [m EXCEPT !.type = "STOP"]
    /\ tmr' = tmr_stop(tmr)
    /\ UNCHANGED <<dirLine, pending>>

\* Mutant: the stall count of the previous command is kept.
NewCommandKeepsCount(m) == [m EXCEPT !.stalled = FALSE, !.already_there = FALSE]

\* A new command: assume the axis is not stalled.
NewCommand(m) ==
    [m EXCEPT !.stalled = FALSE, !.stalled_counter = 0, !.already_there = FALSE]

\* xQueueReceive and the command, up to its end or its vTaskDelay.
Receive ==
    /\ pending = NoMovement
    /\ queue # <<>>
    /\ queue' = Tail(queue)
    /\ \E raw \in Raw :
         LET msg == Head(queue)
             m == ReadPosition(NewCommand(me), raw)
         IN  \/ msg.type = "FREE_RUNNING" /\ mot_pap_move_free_run(m, msg)
             \/ msg.type = "CLOSED_LOOP" /\ mot_pap_move_closed_loop(m, msg)
             \/ msg.type = "STOP" /\ mot_pap_stop(m)
    /\ overlap' = (supPc # "wait" \/ (overlap /\ Head(queue).type # "STOP"))
    /\ still' = 0
    /\ UNCHANGED <<sem, supVars, stall_detection, mainPwr>>

\* vTaskDelay returns.
DelayEnds ==
    /\ pending # NoMovement
    /\ StartMovement(me, pending)
    /\ overlap' = (overlap \/ supPc # "wait")
    /\ UNCHANGED <<sem, queue, supVars, stall_detection, mainPwr, still>>

motion_task == Receive \/ DelayEnds

-------------------------------------------------------------------------------
(***************************************************************************)
(* The timer interrupt.                                                    *)
(***************************************************************************)

\* Mutant: the comparison with the rate comes before the increment.
IsrLate ==
    /\ tmr.started
    /\ LET half == IF me.dir # me.last_dir THEN 0 ELSE me.half_pulses
       IN  /\ me' = [me EXCEPT !.last_dir = me.dir,
                               !.half_pulses = IF half = MOT_PAP_SUPERVISOR_RATE
                                               THEN 0 ELSE half + 1]
           /\ sem' = (sem \/ half = MOT_PAP_SUPERVISOR_RATE)
    /\ UNCHANGED <<tmr, dirLine, taskVars, supVars, stall_detection, mainPwr, overlap, still>>

mot_pap_isr ==
    /\ tmr.started
    /\ LET half == IF me.dir # me.last_dir THEN 1 ELSE me.half_pulses + 1
       IN  /\ me' = [me EXCEPT !.last_dir = me.dir,
                               !.half_pulses = IF half = MOT_PAP_SUPERVISOR_RATE
                                               THEN 0 ELSE half]
           /\ sem' = (sem \/ half = MOT_PAP_SUPERVISOR_RATE)
    /\ UNCHANGED <<tmr, dirLine, taskVars, supVars, stall_detection, mainPwr, overlap, still>>

-------------------------------------------------------------------------------
(***************************************************************************)
(* The tcp thread: commands, calibration, settings and status requests.    *)
(***************************************************************************)
Send(msg) ==
    /\ TaskBlocked
    /\ Len(queue) < QueueLen
    /\ queue' = Append(queue, msg)
    /\ UNCHANGED <<me, tmr, dirLine, sem, pending, supVars, stall_detection, mainPwr,
                   overlap, still>>

\* arm_get_status and pole_get_status refresh posAct.
GetStatus(raw) ==
    /\ TaskBlocked
    /\ me' = ReadPosition(me, raw)
    /\ UNCHANGED <<tmr, dirLine, sem, taskVars, supVars, stall_detection, mainPwr, overlap,
                   still>>

SetOffset(offset) ==
    /\ TaskBlocked
    /\ me' = [me EXCEPT !.offset = offset]
    /\ UNCHANGED <<tmr, dirLine, sem, taskVars, supVars, stall_detection, mainPwr, overlap,
                   still>>

SetStallDetection(b) ==
    /\ TaskBlocked
    /\ stall_detection' = b
    /\ UNCHANGED <<me, tmr, dirLine, sem, taskVars, supVars, mainPwr, overlap, still>>

SetMainPower(b) ==
    /\ TaskBlocked
    /\ mainPwr' = b
    /\ UNCHANGED <<me, tmr, dirLine, sem, taskVars, supVars, stall_detection, overlap, still>>

tcp_thread ==
    \/ \E msg \in mot_pap_msg : Send(msg)
    \/ \E raw \in Raw : GetStatus(raw)
    \/ \E o \in Offsets : SetOffset(o)
    \/ \E b \in StallSettings : SetStallDetection(b)
    \/ \E b \in BOOLEAN : SetMainPower(b)

-------------------------------------------------------------------------------
(***************************************************************************)
(* The supervisor task: mot_pap_supervise, one access at a time.           *)
(***************************************************************************)
Sup(from, to) == TaskBlocked /\ supPc = from /\ supPc' = to

\* Steps that write only the supervisor's own variables, struct mot_pap, the timer.
Local == UNCHANGED <<me, tmr, dirLine, sem, taskVars, stall_detection, mainPwr, overlap, still>>
WritesMe == UNCHANGED <<tmr, dirLine, sem, taskVars, stall_detection, mainPwr, overlap>>
WritesTmr == UNCHANGED <<me, dirLine, sem, taskVars, stall_detection, mainPwr, overlap, still>>

SupTake ==
    /\ sem
    /\ Sup("wait", "read")
    /\ sem' = FALSE
    /\ overlap' = (overlap \/ pending # NoMovement)
    /\ UNCHANGED <<me, tmr, dirLine, taskVars, supError, supCount, stall_detection, mainPwr,
                   still>>

SupRead ==
    /\ Sup("read", "stall")
    /\ \E raw \in Raw : me' = ReadPosition(me, raw)
    /\ WritesMe /\ UNCHANGED <<supError, supCount, still>>

FoundStill == abs(me.posAct - me.last_pos) < MOT_PAP_STALL_THRESHOLD

\* The axis has not moved: load stalled_counter to increment it.
SupStill ==
    /\ stall_detection /\ FoundStill
    /\ Sup("stall", "count")
    /\ supCount' = me.stalled_counter
    /\ still' = AtMost(still + 1, MOT_PAP_STALL_MAX_COUNT)
    /\ UNCHANGED <<me, tmr, dirLine, sem, taskVars, supError, stall_detection, mainPwr, overlap>>

SupMoved ==
    /\ stall_detection /\ ~FoundStill
    /\ Sup("stall", "control")
    /\ me' = [me EXCEPT !.stalled_counter = 0]
    /\ still' = 0
    /\ WritesMe /\ UNCHANGED <<supError, supCount>>

SupUnwatched ==
    /\ ~stall_detection
    /\ Sup("stall", "control")
    /\ Local /\ UNCHANGED <<supError, supCount>>

\* Store the incremented counter, which the model caps at MOT_PAP_STALL_MAX_COUNT.
SupStore ==
    /\ Sup("count", IF supCount + 1 >= MOT_PAP_STALL_MAX_COUNT THEN "stalled" ELSE "control")
    /\ me' = [me EXCEPT !.stalled_counter = AtMost(supCount + 1, MOT_PAP_STALL_MAX_COUNT)]
    /\ supCount' = 0
    /\ WritesMe /\ UNCHANGED <<supError, still>>

SupStalled ==
    /\ Sup("stalled", "stallStop")
    /\ me' = [me EXCEPT !.stalled = TRUE]
    /\ WritesMe /\ UNCHANGED <<supError, supCount, still>>

SupStallPower ==
    /\ Sup("stallPwr", "cont")
    /\ mainPwr' = FALSE
    /\ UNCHANGED <<me, tmr, dirLine, sem, taskVars, supError, supCount, stall_detection,
                   overlap, still>>

\* The position error, in closed loop only.
SupControl ==
    /\ \/ me.type = "CLOSED_LOOP" /\ Sup("control", "near")
          /\ supError' = me.posCmd - me.posAct
       \/ me.type # "CLOSED_LOOP" /\ Sup("control", "cont") /\ UNCHANGED supError
    /\ Local /\ UNCHANGED supCount

\* Close to the setpoint: a quarter of the frequency.
SupNear ==
    /\ \/ abs(supError) < MOT_PAP_POS_PROXIMITY_THRESHOLD /\ Sup("near", "nearStop")
          /\ me' = [me EXCEPT !.freq = MOT_PAP_MAX_FREQ \div 4]
       \/ abs(supError) >= MOT_PAP_POS_PROXIMITY_THRESHOLD /\ Sup("near", "there")
          /\ UNCHANGED me
    /\ WritesMe /\ UNCHANGED <<supError, supCount, still>>

SupNearFreq ==
    /\ Sup("nearFreq", "nearStart")
    /\ tmr' = tmr_set_freq(tmr, MOT_PAP_MAX_FREQ \div 4)
    /\ WritesTmr /\ UNCHANGED <<supError, supCount>>

\* Every tmr_stop of the function.
SupTmrStop ==
    /\ \/ Sup("stallStop", "stallPwr") \/ Sup("nearStop", "nearFreq")
       \/ Sup("thereStop", "cont") \/ Sup("turnStop", "turnDelay")
    /\ tmr' = tmr_stop(tmr)
    /\ WritesTmr /\ UNCHANGED <<supError, supCount>>

\* Every tmr_start of the function.
SupTmrStart ==
    /\ Sup("nearStart", "there") \/ Sup("turnStart", "cont")
    /\ tmr' = tmr_start(tmr)
    /\ WritesTmr /\ UNCHANGED <<supError, supCount>>

\* Position reached, or a new direction needed, or all is well.
SupThere ==
    LET arrived == abs(supError) < MOT_PAP_POS_THRESHOLD
        turn == me.dir # mot_pap_direction_calculate(supError)
    IN  /\ \/ arrived /\ Sup("there", "thereType")
              /\ me' = [me EXCEPT !.already_there = TRUE]
           \/ ~arrived /\ turn /\ Sup("there", "turnStop") /\ UNCHANGED me
           \/ ~arrived /\ ~turn /\ Sup("there", "cont") /\ UNCHANGED me
        /\ WritesMe /\ UNCHANGED <<supError, supCount, still>>

SupThereType ==
    /\ Sup("thereType", "thereStop")
    /\ me' = [me EXCEPT !.type = "STOP"]
    /\ WritesMe /\ UNCHANGED <<supError, supCount, still>>

SupDelayEnds ==
    /\ Sup("turnDelay", "turnDir")
    /\ Local /\ UNCHANGED <<supError, supCount>>

SupTurnDir ==
    /\ Sup("turnDir", "turnLine")
    /\ me' = [me EXCEPT !.dir = mot_pap_direction_calculate(supError)]
    /\ WritesMe /\ UNCHANGED <<supError, supCount, still>>

SupTurnLine ==
    /\ Sup("turnLine", "turnStart")
    /\ gpios_direction(me.dir)
    /\ UNCHANGED <<me, tmr, sem, taskVars, supError, supCount, stall_detection, mainPwr,
                   overlap, still>>

SupCont ==
    /\ Sup("cont", "wait")
    /\ me' = [me EXCEPT !.last_pos = me.posAct]
    /\ supError' = 0
    /\ WritesMe /\ UNCHANGED <<supCount, still>>

mot_pap_supervise ==
    \/ SupTake \/ SupRead \/ SupStill \/ SupMoved \/ SupUnwatched \/ SupStore
    \/ SupStalled \/ SupStallPower \/ SupControl \/ SupNear \/ SupNearFreq
    \/ SupTmrStop \/ SupTmrStart \/ SupThere \/ SupThereType
    \/ SupDelayEnds \/ SupTurnDir \/ SupTurnLine \/ SupCont

-------------------------------------------------------------------------------
Next == motion_task \/ mot_pap_isr \/ tcp_thread \/ mot_pap_supervise

\* The motion task has the highest priority and its delay is finite.
Fairness == WF_vars(motion_task)

Spec == Init /\ [][Next]_vars /\ Fairness

-------------------------------------------------------------------------------

\* The timer never runs, and is never asked to run, with a match register that was not
\* programmed: the supervisor's tmr_start has no tmr_set_freq of its own.
TimerProgrammed == tmr.started => tmr.freq > 0

\* A stopped axis makes no pulses, as long as no command was executed during a pass of the
\* supervisor: type STOP, whoever wrote it, comes with a stopped timer.
StopHolds ==
    me.type = "STOP" /\ ~overlap /\ supPc # "thereStop" => ~tmr.started

\* Under the same condition the direction output is only switched while no pulses are made.
NoTurnUnderPulses == [][dirLine' # dirLine /\ ~overlap' => ~tmr.started]_vars

\* Under the same condition the pulses go the way the task believes: the output, and the
\* frequency, are those of struct mot_pap.
PulsesAsCommanded ==
    tmr.started /\ ~overlap => /\ dirLine = me.dir
                               /\ supPc # "nearStop" => tmr.freq = me.freq

\* Under the same condition an axis is declared stalled only after MOT_PAP_STALL_MAX_COUNT
\* consecutive passes that found it still, all of them since the last command.
StallEarned ==
    [][me'.stalled /\ ~me.stalled /\ ~overlap => still = MOT_PAP_STALL_MAX_COUNT]_vars

\* A STOP in the queue is obeyed, even one sent during the pause of a reversal.
StopObeyed ==
    (\E i \in DOMAIN queue : queue[i].type = "STOP") ~> (me.type = "STOP" /\ ~tmr.started)

\* mot_pap_stop: "if there is a movement in process, stops it" (mot_pap.c).  An axis whose
\* type is STOP makes no pulses once the supervisor is idle.
StopStops == me.type = "STOP" /\ supPc = "wait" => ~tmr.started

\* arm_task: "If a new command was received, assume we are not stalled" (arm.c).  An axis
\* is declared stalled only on what was seen since the last command.
NewCommandNotStalled ==
    [][me'.stalled /\ ~me.stalled => still = MOT_PAP_STALL_MAX_COUNT]_vars

(***************************************************************************)
(* The inductive invariants behind the safety properties.  The first two   *)
(* hold always; the others while overlap is FALSE, that is as long as each *)
(* pass of the supervisor has had the axis to itself since the last STOP.  *)
(***************************************************************************)
TurnSteps == {"turnDelay", "turnDir", "turnLine", "turnStart"}
ControlSteps ==
    TurnSteps \cup {"near", "nearStop", "nearFreq", "nearStart", "there", "thereType", "turnStop"}

ProgrammedInv ==
    /\ tmr.started => tmr.freq > 0
    /\ me.type # "STOP" => tmr.freq > 0
    /\ supPc \in ControlSteps \cup {"thereStop"} => tmr.freq > 0

\* Where the supervisor is, or the task asleep, says what the timer and the type are.
ModeInv ==
    /\ pending # NoMovement => supPc = "wait" /\ ~tmr.started
    /\ supPc \in ControlSteps => me.type = "CLOSED_LOOP"
    /\ supPc = "thereStop" => me.type = "STOP"
    /\ supPc \in TurnSteps \cup {"nearFreq", "nearStart"} => ~tmr.started
    /\ me.type = "STOP" /\ supPc # "thereStop" => ~tmr.started

\* The outputs are those of struct mot_pap, except where the supervisor changes them.
OutputInv ==
    me.type # "STOP" \/ supPc = "thereStop" =>
        /\ supPc \in {"nearStop", "nearFreq"} => me.freq = MOT_PAP_MAX_FREQ \div 4
        /\ supPc \notin {"nearStop", "nearFreq"} => tmr.freq = me.freq
        /\ supPc # "turnLine" => dirLine = me.dir

\* The stall counter is the number of consecutive still passes since the last command.
StallInv ==
    /\ supPc # "count" => me.stalled_counter = still
    /\ supPc = "count" => /\ supCount = me.stalled_counter
                          /\ still = AtMost(supCount + 1, MOT_PAP_STALL_MAX_COUNT)
    /\ supPc = "stalled" => still = MOT_PAP_STALL_MAX_COUNT

AxisInv == ProgrammedInv /\ (~overlap => ModeInv /\ OutputInv /\ StallInv)
===============================================================================
