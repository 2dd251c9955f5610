----------------------------- MODULE MotPapProofs -----------------------------
(***************************************************************************)
(* Proofs about one axis, for every resolution, threshold, queue length    *)
(* and set of commands.  TypeOK is inductive; with it, so is AxisInv, from *)
(* which the safety properties of MotPap follow.                           *)
(***************************************************************************)
EXTENDS MotPap, SequenceTheorems, TLAPS

-------------------------------------------------------------------------------
(***************************************************************************)
(* Lemmas about the helpers.                                               *)
(***************************************************************************)

\* mot_pap_offset_correction returns a position of the turn for every reading and offset.
LEMMA CorrectionRange ==
  ASSUME NEW pos \in 0 .. Turn - 1, NEW offset \in 0 .. Turn - 1
  PROVE  mot_pap_offset_correction(pos, offset) \in 0 .. Turn - 1
BY TurnAssumption DEF mot_pap_offset_correction

\* Writing a value of its type to a field keeps the record in mot_pap.
LEMMA Update ==
  ASSUME NEW m \in mot_pap
  PROVE  /\ \A x \in mot_pap_type : [m EXCEPT !.type = x] \in mot_pap
         /\ \A x \in mot_pap_direction : /\ [m EXCEPT !.dir = x] \in mot_pap
                                         /\ [m EXCEPT !.last_dir = x] \in mot_pap
         /\ \A x \in 0 .. Turn - 1 : /\ [m EXCEPT !.posCmd = x] \in mot_pap
                                     /\ [m EXCEPT !.posAct = x] \in mot_pap
                                     /\ [m EXCEPT !.last_pos = x] \in mot_pap
                                     /\ [m EXCEPT !.offset = x] \in mot_pap
         /\ \A x \in Freqs : [m EXCEPT !.freq = x] \in mot_pap
         /\ \A x \in BOOLEAN : /\ [m EXCEPT !.stalled = x] \in mot_pap
                               /\ [m EXCEPT !.already_there = x] \in mot_pap
         /\ \A x \in 0 .. MOT_PAP_STALL_MAX_COUNT : [m EXCEPT !.stalled_counter = x] \in mot_pap
         /\ \A x \in 0 .. MOT_PAP_SUPERVISOR_RATE - 1 : [m EXCEPT !.half_pulses = x] \in mot_pap
<1>1. \A x \in mot_pap_type : [m EXCEPT !.type = x] \in mot_pap
  BY DEF mot_pap
<1>2. \A x \in mot_pap_direction : [m EXCEPT !.dir = x] \in mot_pap
  BY DEF mot_pap
<1>3. \A x \in mot_pap_direction : [m EXCEPT !.last_dir = x] \in mot_pap
  BY DEF mot_pap
<1>4. \A x \in 0 .. Turn - 1 : [m EXCEPT !.posCmd = x] \in mot_pap
  BY DEF mot_pap
<1>5. \A x \in 0 .. Turn - 1 : [m EXCEPT !.posAct = x] \in mot_pap
  BY DEF mot_pap
<1>6. \A x \in 0 .. Turn - 1 : [m EXCEPT !.last_pos = x] \in mot_pap
  BY DEF mot_pap
<1>7. \A x \in 0 .. Turn - 1 : [m EXCEPT !.offset = x] \in mot_pap
  BY DEF mot_pap
<1>8. \A x \in Freqs : [m EXCEPT !.freq = x] \in mot_pap
  BY DEF mot_pap
<1>9. \A x \in BOOLEAN : [m EXCEPT !.stalled = x] \in mot_pap
  BY DEF mot_pap
<1>10. \A x \in BOOLEAN : [m EXCEPT !.already_there = x] \in mot_pap
  BY DEF mot_pap
<1>11. \A x \in 0 .. MOT_PAP_STALL_MAX_COUNT : [m EXCEPT !.stalled_counter = x] \in mot_pap
  BY DEF mot_pap
<1>12. \A x \in 0 .. MOT_PAP_SUPERVISOR_RATE - 1 : [m EXCEPT !.half_pulses = x] \in mot_pap
  BY DEF mot_pap
<1>13. QED
  BY <1>1, <1>2, <1>3, <1>4, <1>5, <1>6, <1>7, <1>8, <1>9, <1>10, <1>11, <1>12

\* A new command keeps the type of the structure.
LEMMA NewCommandType ==
  ASSUME NEW m \in mot_pap
  PROVE  NewCommand(m) \in mot_pap
<1> DEFINE a == [m EXCEPT !.stalled = FALSE]
           b == [a EXCEPT !.stalled_counter = 0]
           c == [b EXCEPT !.already_there = FALSE]
<1>1. a \in mot_pap
  BY Update
<1>2. b \in mot_pap
  <2> HIDE DEF a
  <2> QED BY <1>1, Update, LimitAssumption
<1>3. c \in mot_pap
  <2> HIDE DEF b
  <2> QED BY <1>2, Update
<1>4. NewCommand(m) = c
  BY DEF NewCommand
<1>5. QED
  BY <1>3, <1>4

\* A corrected reading keeps the type of the structure.
LEMMA ReadPositionType ==
  ASSUME NEW m \in mot_pap, NEW raw \in Raw
  PROVE  ReadPosition(m, raw) \in mot_pap
<1>1. raw \in 0 .. Turn - 1 /\ m.offset \in 0 .. Turn - 1
  BY PositionAssumption DEF mot_pap
<1>2. mot_pap_offset_correction(raw, m.offset) \in 0 .. Turn - 1
  BY <1>1, CorrectionRange
<1>3. QED
  BY <1>2, Update DEF ReadPosition

\* The frequency of an accepted free run is positive and within the timer's range.
LEMMA FreeRunFreq ==
  ASSUME NEW speed \in Nat, mot_pap_free_run_speed_ok(speed)
  PROVE  1000 * mot_pap_free_run_freqs[speed] \in Freqs \ {0}
<1>1. speed \in {1, 2, 3, 4, 5, 6, 7, 8}
  BY DEF mot_pap_free_run_speed_ok, MOT_PAP_MAX_SPEED_FREE_RUN
<1>2. mot_pap_free_run_freqs[speed] \in {25, 50, 75, 100, 125}
  BY <1>1 DEF mot_pap_free_run_freqs
<1>3. 1000 * mot_pap_free_run_freqs[speed] \in Nat \ {0}
  BY <1>2
<1>4. 1000 * mot_pap_free_run_freqs[speed] <= MOT_PAP_COMPUMOTOR_MAX_FREQ
  BY <1>1, FrequencyAssumption DEF MOT_PAP_MAX_SPEED_FREE_RUN
<1>5. QED
  BY <1>3, <1>4, FrequencyAssumption DEF Freqs

\* So are the two frequencies of a closed loop.
LEMMA ClosedLoopFreq ==
  MOT_PAP_MAX_FREQ \in Freqs \ {0} /\ MOT_PAP_MAX_FREQ \div 4 \in Freqs \ {0}
BY FrequencyAssumption DEF Freqs

TmrType == [started : BOOLEAN, freq : Freqs]

\* Starting and stopping keep the type of the timer.
LEMMA TimerStartStop ==
  ASSUME NEW t \in TmrType
  PROVE  /\ tmr_start(t) \in TmrType /\ tmr_start(t).started /\ tmr_start(t).freq = t.freq
         /\ tmr_stop(t) \in TmrType /\ ~tmr_stop(t).started /\ tmr_stop(t).freq = t.freq
BY DEF tmr_start, tmr_stop, TmrType

\* Programming keeps the type of the timer.
LEMMA TimerSetFreq ==
  ASSUME NEW t \in TmrType, NEW freq \in Freqs
  PROVE  /\ tmr_set_freq(t, freq) \in TmrType
         /\ tmr_set_freq(t, freq).started = t.started
         /\ tmr_set_freq(t, freq).freq = freq
<1>1. ~(freq > MOT_PAP_COMPUMOTOR_MAX_FREQ)
  BY FrequencyAssumption DEF Freqs
<1>2. tmr_set_freq(t, freq) = [t EXCEPT !.freq = freq]
  BY <1>1 DEF tmr_set_freq
<1>3. QED
  BY <1>2 DEF TmrType

-------------------------------------------------------------------------------
(***************************************************************************)
(* Type correctness.                                                       *)
(***************************************************************************)

\* The types hold after arm_init.
LEMMA InitType == Init => TypeOK
<1> SUFFICES ASSUME Init PROVE TypeOK
  OBVIOUS
<1>1. me \in mot_pap
  BY TurnAssumption, PositionAssumption, LimitAssumption, FrequencyAssumption
     DEF Init, mot_pap, mot_pap_type, mot_pap_direction, Freqs
<1>2. tmr \in [started : BOOLEAN, freq : Freqs] /\ dirLine \in mot_pap_direction
  BY FrequencyAssumption DEF Init, Freqs
<1>3. queue \in Seq(mot_pap_msg) /\ Len(queue) <= QueueLen
  BY EmptySeq, LimitAssumption DEF Init
<1>4. pending \in Movement \cup {NoMovement} /\ supPc \in SupervisorSteps
  BY DEF Init, SupervisorSteps
<1>5. /\ supError \in -Turn .. Turn
      /\ supCount \in 0 .. MOT_PAP_STALL_MAX_COUNT
      /\ still \in 0 .. MOT_PAP_STALL_MAX_COUNT
  BY TurnAssumption, LimitAssumption DEF Init
<1>6. sem \in BOOLEAN /\ stall_detection \in BOOLEAN /\ mainPwr \in BOOLEAN /\ overlap \in BOOLEAN
  BY DEF Init
<1>7. QED
  BY <1>1, <1>2, <1>3, <1>4, <1>5, <1>6 DEF TypeOK

\* What starting a movement does to the types.
LEMMA StartMovementType ==
  ASSUME TypeOK, NEW m \in mot_pap, NEW mv \in Movement, StartMovement(m, mv)
  PROVE  /\ me' = [m EXCEPT !.type = mv.type, !.dir = mv.dir, !.freq = mv.freq]
         /\ me' \in mot_pap
         /\ tmr' \in TmrType
         /\ tmr'.started
         /\ tmr'.freq = mv.freq
         /\ dirLine' = mv.dir
         /\ dirLine' \in mot_pap_direction
         /\ pending' = NoMovement
<1>1. mv.type \in mot_pap_type /\ mv.dir \in mot_pap_direction /\ mv.freq \in Freqs
  BY DEF Movement
<1>2. tmr \in TmrType
  BY DEF TypeOK, TmrType
<1>3. tmr_stop(tmr) \in TmrType
  BY <1>2, TimerStartStop
<1>4. /\ tmr_set_freq(tmr_stop(tmr), mv.freq) \in TmrType
      /\ tmr_set_freq(tmr_stop(tmr), mv.freq).freq = mv.freq
  BY <1>1, <1>3, TimerSetFreq
<1>5. tmr' \in TmrType /\ tmr'.started /\ tmr'.freq = mv.freq
  BY <1>4, TimerStartStop DEF StartMovement
<1>6. me' = [m EXCEPT !.type = mv.type, !.dir = mv.dir, !.freq = mv.freq]
  BY DEF StartMovement
<1>7. me' \in mot_pap
  <2> DEFINE a == [m EXCEPT !.type = mv.type]
             b == [a EXCEPT !.dir = mv.dir]
             c == [b EXCEPT !.freq = mv.freq]
  <2>1. a \in mot_pap
    BY <1>1, Update
  <2>2. b \in mot_pap
    <3> HIDE DEF a
    <3> QED BY <1>1, <2>1, Update
  <2>3. c \in mot_pap
    <3> HIDE DEF b
    <3> QED BY <1>1, <2>2, Update
  <2>4. me' = c
    BY <1>6
  <2>5. QED
    BY <2>3, <2>4
<1>8. QED
  BY <1>1, <1>5, <1>6, <1>7 DEF StartMovement, gpios_direction

\* The outcomes of Move: the pause, or the start.
LEMMA MoveType ==
  ASSUME TypeOK, NEW m \in mot_pap, NEW mv \in Movement, Move(m, mv)
  PROVE  /\ me' \in mot_pap
         /\ tmr' \in TmrType
         /\ dirLine' \in mot_pap_direction
         /\ pending' \in Movement \cup {NoMovement}
<1>1. CASE m.dir # mv.dir /\ m.type # "STOP"
  <2>1. me' = m /\ tmr' = tmr_stop(tmr) /\ pending' = mv /\ dirLine' = dirLine
    BY <1>1 DEF Move
  <2>2. tmr' \in TmrType
    BY <2>1, TimerStartStop DEF TypeOK, TmrType
  <2>3. QED
    BY <2>1, <2>2 DEF TypeOK
<1>2. CASE ~(m.dir # mv.dir /\ m.type # "STOP")
  <2>1. StartMovement(m, mv)
    BY <1>2 DEF Move
  <2>2. QED
    BY <2>1, StartMovementType
<1>3. QED
  BY <1>1, <1>2

\* A command of the task: everything it writes.
LEMMA CommandType ==
  ASSUME TypeOK, NEW m \in mot_pap, NEW msg \in mot_pap_msg,
         \/ msg.type = "FREE_RUNNING" /\ mot_pap_move_free_run(m, msg)
         \/ msg.type = "CLOSED_LOOP" /\ mot_pap_move_closed_loop(m, msg)
         \/ msg.type = "STOP" /\ mot_pap_stop(m)
  PROVE  /\ me' \in mot_pap
         /\ tmr' \in TmrType
         /\ dirLine' \in mot_pap_direction
         /\ pending' \in Movement \cup {NoMovement}
<1>1. tmr_stop(tmr) \in TmrType
  BY TimerStartStop DEF TypeOK, TmrType
<1>2. CASE msg.type = "FREE_RUNNING" /\ mot_pap_move_free_run(m, msg)
  <2>1. msg.dir \in mot_pap_direction /\ msg.speed \in Speeds
    BY <1>2 DEF mot_pap_msg
  <2>2. CASE mot_pap_free_run_speed_ok(msg.speed)
    <3> DEFINE mv == [type |-> "FREE_RUNNING", dir |-> msg.dir,
                      freq |-> 1000 * mot_pap_free_run_freqs[msg.speed]]
    <3>0. msg.speed \in Nat
      BY <2>1, CommandAssumption
    <3>1. mv.freq \in Freqs \ {0}
      BY <2>2, <3>0, FreeRunFreq
    <3>2. mv \in Movement
      BY <2>1, <3>1 DEF Movement, mot_pap_type
    <3>3. Move(m, mv)
      BY <1>2, <2>2 DEF mot_pap_move_free_run
    <3>4. QED
      BY <3>2, <3>3, MoveType
  <2>3. CASE ~mot_pap_free_run_speed_ok(msg.speed)
    BY <1>2, <2>3 DEF mot_pap_move_free_run, TypeOK, TmrType
  <2>4. QED
    BY <2>2, <2>3
<1>3. CASE msg.type = "CLOSED_LOOP" /\ mot_pap_move_closed_loop(m, msg)
  <2> DEFINE error == msg.setpoint - m.posAct
             commanded == [m EXCEPT !.posCmd = msg.setpoint]
             mv == [type |-> "CLOSED_LOOP", dir |-> mot_pap_direction_calculate(error),
                    freq |-> MOT_PAP_MAX_FREQ]
  <2>1. msg.setpoint \in Setpoints
    BY <1>3 DEF mot_pap_msg
  <2>2. msg.setpoint \in 0 .. Turn - 1
    BY <2>1, PositionAssumption
  <2>3. commanded \in mot_pap
    BY <2>2, Update
  <2>4. [commanded EXCEPT !.already_there = TRUE] \in mot_pap
    <3> HIDE DEF commanded
    <3> QED BY <2>3, Update
  <2>5. mv \in Movement
    BY ClosedLoopFreq
       DEF Movement, mot_pap_type, mot_pap_direction, mot_pap_direction_calculate
  <2>6. \/ /\ me' = [commanded EXCEPT !.already_there = TRUE]
           /\ tmr' = tmr_stop(tmr)
           /\ UNCHANGED <<dirLine, pending>>
        \/ Move(commanded, mv)
    BY <1>3 DEF mot_pap_move_closed_loop
  <2>7. CASE Move(commanded, mv)
    <3> HIDE DEF commanded, mv
    <3> QED BY <2>3, <2>5, <2>7, MoveType
  <2>8. CASE /\ me' = [commanded EXCEPT !.already_there = TRUE]
             /\ tmr' = tmr_stop(tmr)
             /\ UNCHANGED <<dirLine, pending>>
    <3> HIDE DEF commanded, mv
    <3> QED BY <1>1, <2>4, <2>8 DEF TypeOK
  <2>9. QED
    BY <2>6, <2>7, <2>8
<1>4. CASE msg.type = "STOP" /\ mot_pap_stop(m)
  <2>1. me' \in mot_pap
    BY <1>4, Update DEF mot_pap_stop, mot_pap_type
  <2>2. QED
    BY <1>1, <1>4, <2>1 DEF mot_pap_stop, TypeOK
<1>5. QED
  BY <1>2, <1>3, <1>4

\* The motion task keeps the types.
LEMMA TaskType == TypeOK /\ motion_task => TypeOK'
<1> SUFFICES ASSUME TypeOK, motion_task PROVE TypeOK'
  OBVIOUS
<1>1. CASE Receive
  <2>1. Head(queue) \in mot_pap_msg /\ queue' \in Seq(mot_pap_msg) /\ Len(queue') <= QueueLen
    BY <1>1, HeadTailProperties, LenProperties, LimitAssumption DEF Receive, TypeOK
  <2>2. PICK raw \in Raw :
          LET msg == Head(queue)
              m == ReadPosition(NewCommand(me), raw)
          IN  \/ msg.type = "FREE_RUNNING" /\ mot_pap_move_free_run(m, msg)
              \/ msg.type = "CLOSED_LOOP" /\ mot_pap_move_closed_loop(m, msg)
              \/ msg.type = "STOP" /\ mot_pap_stop(m)
    BY <1>1 DEF Receive
  <2>3. ReadPosition(NewCommand(me), raw) \in mot_pap
    BY NewCommandType, ReadPositionType DEF TypeOK
  <2>4. /\ me' \in mot_pap
        /\ tmr' \in TmrType
        /\ dirLine' \in mot_pap_direction
        /\ pending' \in Movement \cup {NoMovement}
    BY <2>1, <2>2, <2>3, CommandType
  <2>5. /\ overlap' \in BOOLEAN
        /\ still' \in 0 .. MOT_PAP_STALL_MAX_COUNT
        /\ UNCHANGED <<sem, supPc, supError, supCount, stall_detection, mainPwr>>
    BY <1>1, LimitAssumption DEF Receive, supVars
  <2>6. QED
    BY <2>1, <2>4, <2>5 DEF TypeOK, TmrType
<1>2. CASE DelayEnds
  <2>1. pending \in Movement /\ StartMovement(me, pending)
    BY <1>2 DEF DelayEnds, TypeOK
  <2>2. /\ me' \in mot_pap
        /\ tmr' \in TmrType
        /\ dirLine' \in mot_pap_direction
        /\ pending' = NoMovement
    BY <2>1, StartMovementType DEF TypeOK
  <2>3. /\ overlap' \in BOOLEAN
        /\ UNCHANGED <<sem, queue, supPc, supError, supCount, stall_detection, mainPwr, still>>
    BY <1>2 DEF DelayEnds, supVars
  <2>4. QED
    BY <2>2, <2>3 DEF TypeOK, TmrType
<1>3. QED
  BY <1>1, <1>2 DEF motion_task

\* What the interrupt leaves in half_pulses.
LEMMA IsrWrites ==
  ASSUME TypeOK, mot_pap_isr
  PROVE  \E half \in 0 .. MOT_PAP_SUPERVISOR_RATE - 1 :
           me' = [me EXCEPT !.last_dir = me.dir, !.half_pulses = half]
<1> DEFINE half == IF me.dir # me.last_dir THEN 1 ELSE me.half_pulses + 1
           kept == IF half = MOT_PAP_SUPERVISOR_RATE THEN 0 ELSE half
<1>1. me.half_pulses \in 0 .. MOT_PAP_SUPERVISOR_RATE - 1
  BY DEF TypeOK, mot_pap
<1>2. kept \in 0 .. MOT_PAP_SUPERVISOR_RATE - 1
  BY <1>1, LimitAssumption
<1>3. me' = [me EXCEPT !.last_dir = me.dir, !.half_pulses = kept]
  BY DEF mot_pap_isr
<1>4. QED
  BY <1>2, <1>3

\* The interrupt keeps the types.
LEMMA IsrType == TypeOK /\ mot_pap_isr => TypeOK'
<1> SUFFICES ASSUME TypeOK, mot_pap_isr PROVE TypeOK'
  OBVIOUS
<1>1. PICK half \in 0 .. MOT_PAP_SUPERVISOR_RATE - 1 :
        me' = [me EXCEPT !.last_dir = me.dir, !.half_pulses = half]
  BY IsrWrites
<1> DEFINE a == [me EXCEPT !.last_dir = me.dir]
           b == [a EXCEPT !.half_pulses = half]
<1>2. me \in mot_pap /\ me.dir \in mot_pap_direction
  BY DEF TypeOK, mot_pap
<1>3. a \in mot_pap
  BY <1>2, Update
<1>4. b \in mot_pap
  <2> HIDE DEF a
  <2> QED BY <1>3, Update
<1>5. me' \in mot_pap
  BY <1>1, <1>4
<1>6. /\ sem' \in BOOLEAN
      /\ UNCHANGED <<tmr, dirLine, queue, pending, supPc, supError, supCount,
                     stall_detection, mainPwr, overlap, still>>
  BY DEF mot_pap_isr, taskVars, supVars, TypeOK
<1>7. QED
  BY <1>5, <1>6 DEF TypeOK

\* The calls of the tcp thread keep the types.
LEMMA TcpType == TypeOK /\ tcp_thread => TypeOK'
<1> SUFFICES ASSUME TypeOK, tcp_thread PROVE TypeOK'
  OBVIOUS
<1>1. CASE \E msg \in mot_pap_msg : Send(msg)
  <2>1. PICK msg \in mot_pap_msg : Send(msg)
    BY <1>1
  <2>2. queue' \in Seq(mot_pap_msg) /\ Len(queue') <= QueueLen
    BY <2>1, AppendProperties, LenProperties, LimitAssumption DEF Send, TypeOK
  <2>3. QED
    BY <2>1, <2>2 DEF Send, supVars, TypeOK
<1>2. CASE \E raw \in Raw : GetStatus(raw)
  <2>1. PICK raw \in Raw : GetStatus(raw)
    BY <1>2
  <2>2. me' \in mot_pap
    BY <2>1, ReadPositionType DEF GetStatus, TypeOK
  <2>3. QED
    BY <2>1, <2>2 DEF GetStatus, taskVars, supVars, TypeOK
<1>3. CASE \E o \in Offsets : SetOffset(o)
  <2>1. PICK o \in Offsets : SetOffset(o)
    BY <1>3
  <2>2. me' \in mot_pap
    BY <2>1, Update, PositionAssumption DEF SetOffset, TypeOK
  <2>3. QED
    BY <2>1, <2>2 DEF SetOffset, taskVars, supVars, TypeOK
<1>4. CASE \E b \in StallSettings : SetStallDetection(b)
  BY <1>4, CommandAssumption DEF SetStallDetection, taskVars, supVars, TypeOK
<1>5. CASE \E b \in BOOLEAN : SetMainPower(b)
  BY <1>5 DEF SetMainPower, taskVars, supVars, TypeOK
<1>6. QED
  BY <1>1, <1>2, <1>3, <1>4, <1>5 DEF tcp_thread

\* The steps of the supervisor that only move on and write one flag or nothing.
LEMMA SupStepType ==
  ASSUME TypeOK,
         SupTake \/ SupUnwatched \/ SupStallPower \/ SupDelayEnds
  PROVE  TypeOK'
<1>1. CASE SupTake
  BY <1>1 DEF SupTake, Sup, taskVars, TypeOK, SupervisorSteps
<1>2. CASE SupUnwatched
  BY <1>2 DEF SupUnwatched, Sup, Local, taskVars, TypeOK, SupervisorSteps
<1>3. CASE SupStallPower
  BY <1>3 DEF SupStallPower, Sup, taskVars, TypeOK, SupervisorSteps
<1>4. CASE SupDelayEnds
  BY <1>4 DEF SupDelayEnds, Sup, Local, taskVars, TypeOK, SupervisorSteps
<1>5. QED
  BY <1>1, <1>2, <1>3, <1>4

\* The steps that write one field of struct mot_pap, or none.
LEMMA SupWritesMe ==
  ASSUME TypeOK,
         SupRead \/ SupMoved \/ SupStore \/ SupStalled \/ SupNear \/ SupThere
           \/ SupThereType \/ SupTurnDir \/ SupCont
  PROVE  TypeOK'
<1> USE DEF WritesMe, taskVars
<1>1. CASE SupRead
  <2>1. me' \in mot_pap
    BY <1>1, ReadPositionType DEF SupRead, TypeOK
  <2>2. QED
    BY <1>1, <2>1 DEF SupRead, Sup, TypeOK, SupervisorSteps
<1>2. CASE SupMoved
  <2>1. me' \in mot_pap /\ still' \in 0 .. MOT_PAP_STALL_MAX_COUNT
    BY <1>2, Update, LimitAssumption DEF SupMoved, TypeOK
  <2>2. QED
    BY <1>2, <2>1 DEF SupMoved, Sup, TypeOK, SupervisorSteps
<1>3. CASE SupStore
  <2>1. AtMost(supCount + 1, MOT_PAP_STALL_MAX_COUNT) \in 0 .. MOT_PAP_STALL_MAX_COUNT
    BY LimitAssumption DEF AtMost, TypeOK
  <2>2. me' \in mot_pap /\ supCount' \in 0 .. MOT_PAP_STALL_MAX_COUNT
    BY <1>3, <2>1, Update, LimitAssumption DEF SupStore, TypeOK
  <2>3. supPc' \in SupervisorSteps
    BY <1>3 DEF SupStore, Sup, SupervisorSteps
  <2>4. QED
    BY <1>3, <2>2, <2>3 DEF SupStore, TypeOK
<1>4. CASE SupStalled
  <2>1. me' \in mot_pap
    BY <1>4, Update DEF SupStalled, TypeOK
  <2>2. QED
    BY <1>4, <2>1 DEF SupStalled, Sup, TypeOK, SupervisorSteps
<1>5. CASE SupNear
  <2>1. me' \in mot_pap
    BY <1>5, Update, ClosedLoopFreq DEF SupNear, TypeOK
  <2>2. QED
    BY <1>5, <2>1 DEF SupNear, Sup, TypeOK, SupervisorSteps
<1>6. CASE SupThere
  <2>1. me' \in mot_pap
    BY <1>6, Update DEF SupThere, TypeOK
  <2>2. supPc' \in SupervisorSteps
    BY <1>6 DEF SupThere, Sup, SupervisorSteps
  <2>3. QED
    BY <1>6, <2>1, <2>2 DEF SupThere, TypeOK
<1>7. CASE SupThereType
  <2>1. me' \in mot_pap
    BY <1>7, Update DEF SupThereType, TypeOK, mot_pap_type
  <2>2. QED
    BY <1>7, <2>1 DEF SupThereType, Sup, TypeOK, SupervisorSteps
<1>8. CASE SupTurnDir
  <2>1. me' \in mot_pap
    BY <1>8, Update DEF SupTurnDir, TypeOK, mot_pap_direction_calculate, mot_pap_direction
  <2>2. QED
    BY <1>8, <2>1 DEF SupTurnDir, Sup, TypeOK, SupervisorSteps
<1>9. CASE SupCont
  <2>1. me.posAct \in 0 .. Turn - 1
    BY DEF TypeOK, mot_pap
  <2>2. me' \in mot_pap
    BY <1>9, <2>1, Update DEF SupCont, TypeOK
  <2>3. supError' \in -Turn .. Turn
    BY <1>9, TurnAssumption DEF SupCont
  <2>4. QED
    BY <1>9, <2>2, <2>3 DEF SupCont, Sup, TypeOK, SupervisorSteps
<1>10. QED
  BY <1>1, <1>2, <1>3, <1>4, <1>5, <1>6, <1>7, <1>8, <1>9

\* The steps that write the timer, the direction output or the supervisor's locals.
LEMMA SupWritesOthers ==
  ASSUME TypeOK,
         SupStill \/ SupControl \/ SupNearFreq \/ SupTmrStop \/ SupTmrStart \/ SupTurnLine
  PROVE  TypeOK'
<1> USE DEF WritesTmr, taskVars
<1>1. CASE SupStill
  <2>1. supCount' \in 0 .. MOT_PAP_STALL_MAX_COUNT
    BY <1>1 DEF SupStill, TypeOK, mot_pap
  <2>2. still' \in 0 .. MOT_PAP_STALL_MAX_COUNT
    BY <1>1, LimitAssumption DEF SupStill, TypeOK, AtMost
  <2>3. QED
    BY <1>1, <2>1, <2>2 DEF SupStill, Sup, TypeOK, SupervisorSteps
<1>2. CASE SupControl
  <2>1. me.posCmd \in 0 .. Turn - 1 /\ me.posAct \in 0 .. Turn - 1
    BY DEF TypeOK, mot_pap
  <2>2. supError' \in -Turn .. Turn
    BY <1>2, <2>1, TurnAssumption DEF SupControl, TypeOK
  <2>3. supPc' \in SupervisorSteps
    BY <1>2 DEF SupControl, Sup, SupervisorSteps
  <2>4. QED
    BY <1>2, <2>2, <2>3 DEF SupControl, Local, TypeOK
<1>3. CASE SupNearFreq
  <2>1. tmr' \in TmrType
    BY <1>3, ClosedLoopFreq, TimerSetFreq DEF SupNearFreq, TypeOK, TmrType
  <2>2. QED
    BY <1>3, <2>1 DEF SupNearFreq, Sup, TypeOK, TmrType, SupervisorSteps
<1>4. CASE SupTmrStop
  <2>1. tmr' \in TmrType
    BY <1>4, TimerStartStop DEF SupTmrStop, TypeOK, TmrType
  <2>2. QED
    BY <1>4, <2>1 DEF SupTmrStop, Sup, TypeOK, TmrType, SupervisorSteps
<1>5. CASE SupTmrStart
  <2>1. tmr' \in TmrType
    BY <1>5, TimerStartStop DEF SupTmrStart, TypeOK, TmrType
  <2>2. QED
    BY <1>5, <2>1 DEF SupTmrStart, Sup, TypeOK, TmrType, SupervisorSteps
<1>6. CASE SupTurnLine
  <2>1. dirLine' \in mot_pap_direction
    BY <1>6 DEF SupTurnLine, gpios_direction, TypeOK, mot_pap
  <2>2. QED
    BY <1>6, <2>1 DEF SupTurnLine, Sup, TypeOK, SupervisorSteps
<1>7. QED
  BY <1>1, <1>2, <1>3, <1>4, <1>5, <1>6

\* The types are inductive.
LEMMA NextType == TypeOK /\ [Next]_vars => TypeOK'
<1>1. ASSUME TypeOK, mot_pap_supervise PROVE TypeOK'
  BY <1>1, SupStepType, SupWritesMe, SupWritesOthers DEF mot_pap_supervise
<1>2. ASSUME TypeOK, UNCHANGED vars PROVE TypeOK'
  BY <1>2 DEF TypeOK, vars, taskVars, supVars
<1>3. QED
  BY <1>1, <1>2, TaskType, IsrType, TcpType DEF Next

\* One axis keeps its state well typed: positions within a turn whatever the calibration,
\* frequencies the timer accepts, a queue within its length.
THEOREM MotPapTypeCorrect == Spec => []TypeOK
<1>1. QED
  BY InitType, NextType, PTL DEF Spec

-------------------------------------------------------------------------------
(***************************************************************************)
(* AxisInv is inductive, given TypeOK.                                     *)
(***************************************************************************)

\* The fields of struct mot_pap that AxisInv speaks of.
SameMe(m) ==
    /\ m.type = me.type /\ m.dir = me.dir /\ m.freq = me.freq
    /\ m.stalled_counter = me.stalled_counter

\* A step that touches nothing of what AxisInv speaks of preserves it.
LEMMA AxisFrame ==
  ASSUME AxisInv, SameMe(me'),
         UNCHANGED <<tmr, dirLine, pending, supPc, supCount, overlap, still>>
  PROVE  AxisInv'
BY DEF SameMe, AxisInv, ProgrammedInv, ModeInv, OutputInv, StallInv

\* AxisInv holds after arm_init.
LEMMA InitAxis == Init => AxisInv
BY LimitAssumption
   DEF Init, AxisInv, ProgrammedInv, ModeInv, OutputInv, StallInv, ControlSteps, TurnSteps

\* A new command resets the stall counter and leaves the movement alone.
LEMMA NewCommandKeeps ==
  ASSUME NEW m \in mot_pap, NEW raw \in Raw
  PROVE  LET n == ReadPosition(NewCommand(m), raw)
         IN  /\ n.type = m.type /\ n.dir = m.dir /\ n.freq = m.freq
             /\ n.stalled_counter = 0
             /\ ~n.stalled
<1> DEFINE a == [m EXCEPT !.stalled = FALSE]
           b == [a EXCEPT !.stalled_counter = 0]
           c == [b EXCEPT !.already_there = FALSE]
           n == [c EXCEPT !.posAct = mot_pap_offset_correction(raw, c.offset)]
<1>1. a \in mot_pap
  BY Update
<1>2. b \in mot_pap
  <2> HIDE DEF a
  <2> QED BY <1>1, Update, LimitAssumption
<1>3. /\ a.type = m.type /\ a.dir = m.dir /\ a.freq = m.freq /\ ~a.stalled
  BY DEF mot_pap
<1>4. /\ b.type = a.type /\ b.dir = a.dir /\ b.freq = a.freq /\ b.stalled = a.stalled
      /\ b.stalled_counter = 0
  <2> HIDE DEF a
  <2> QED BY <1>1 DEF mot_pap
<1>5. /\ n.type = b.type /\ n.dir = b.dir /\ n.freq = b.freq /\ n.stalled = b.stalled
      /\ n.stalled_counter = b.stalled_counter
  <2> HIDE DEF b
  <2> QED OBVIOUS
<1>6. ReadPosition(NewCommand(m), raw) = n
  BY DEF ReadPosition, NewCommand
<1>7. QED
  BY <1>3, <1>4, <1>5, <1>6

\* Near the setpoint the supervisor writes already_there or nothing.
LEMMA ThereWrites ==
  ASSUME SupThere
  PROVE  SameMe(me')
<1>1. me' = me \/ me' = [me EXCEPT !.already_there = TRUE]
  BY DEF SupThere
<1>2. CASE me' = me
  BY <1>2 DEF SameMe
<1>3. CASE me' = [me EXCEPT !.already_there = TRUE]
  BY <1>3 DEF SameMe
<1>4. QED
  BY <1>1, <1>2, <1>3

\* Every step of the supervisor preserves it: what the step writes, then what follows.
LEMMA SupAxis ==
  ASSUME TypeOK, AxisInv, mot_pap_supervise
  PROVE  AxisInv'
<1> USE DEF AxisInv, ProgrammedInv, ModeInv, OutputInv, StallInv, ControlSteps, TurnSteps
<1> DEFINE Rest == UNCHANGED <<pending, supCount, overlap, still>>
<1>0. /\ tmr \in TmrType
      /\ me \in mot_pap
      /\ supCount \in 0 .. MOT_PAP_STALL_MAX_COUNT
      /\ still \in 0 .. MOT_PAP_STALL_MAX_COUNT
  BY DEF TypeOK, TmrType
<1>1. CASE SupTake
  BY <1>1 DEF SupTake, Sup, taskVars
<1>2. CASE SupRead
  <2>1. /\ SameMe(me') /\ UNCHANGED <<tmr, dirLine>> /\ Rest
        /\ supPc = "read" /\ supPc' = "stall"
    BY <1>2 DEF SupRead, ReadPosition, Sup, WritesMe, taskVars, SameMe
  <2>2. QED
    BY <2>1 DEF SameMe
<1>3. CASE SupStill
  <2>1. /\ UNCHANGED <<me, tmr, dirLine, pending, overlap>>
        /\ supPc = "stall" /\ supPc' = "count"
        /\ supCount' = me.stalled_counter
        /\ still' = AtMost(still + 1, MOT_PAP_STALL_MAX_COUNT)
    BY <1>3 DEF SupStill, Sup, taskVars
  <2>2. QED
    BY <2>1
<1>4. CASE SupMoved
  <2>1. /\ me'.type = me.type /\ me'.dir = me.dir /\ me'.freq = me.freq
        /\ me'.stalled_counter = 0 /\ still' = 0
    BY <1>0, <1>4 DEF SupMoved, mot_pap
  <2>2. /\ UNCHANGED <<tmr, dirLine, pending, overlap>>
        /\ supPc = "stall" /\ supPc' = "control"
    BY <1>4 DEF SupMoved, Sup, WritesMe, taskVars
  <2>3. QED
    BY <2>1, <2>2
<1>5. CASE SupUnwatched
  BY <1>5 DEF SupUnwatched, Sup, Local, taskVars
<1>6. CASE SupStore
  <2>1. /\ me'.type = me.type /\ me'.dir = me.dir /\ me'.freq = me.freq
        /\ me'.stalled_counter = AtMost(supCount + 1, MOT_PAP_STALL_MAX_COUNT)
    BY <1>0, <1>6 DEF SupStore, mot_pap
  <2>2. /\ UNCHANGED <<tmr, dirLine, pending, overlap, still>>
        /\ supPc = "count"
        /\ supPc' = IF supCount + 1 >= MOT_PAP_STALL_MAX_COUNT THEN "stalled" ELSE "control"
    BY <1>6 DEF SupStore, Sup, WritesMe, taskVars
  <2>3. supCount + 1 >= MOT_PAP_STALL_MAX_COUNT
          => AtMost(supCount + 1, MOT_PAP_STALL_MAX_COUNT) = MOT_PAP_STALL_MAX_COUNT
    BY <1>0, LimitAssumption DEF AtMost
  <2>4. QED
    BY <2>1, <2>2, <2>3
<1>7. CASE SupStalled
  <2>1. SameMe(me')
    BY <1>7 DEF SupStalled, SameMe
  <2>2. /\ UNCHANGED <<tmr, dirLine>> /\ Rest
        /\ supPc = "stalled" /\ supPc' = "stallStop"
    BY <1>7 DEF SupStalled, Sup, WritesMe, taskVars
  <2>3. QED
    BY <2>1, <2>2 DEF SameMe
<1>8. CASE SupStallPower
  BY <1>8 DEF SupStallPower, Sup, taskVars
<1>9. CASE SupControl
  <2>1. /\ UNCHANGED <<me, tmr, dirLine>> /\ Rest
        /\ supPc = "control"
        /\ \/ me.type = "CLOSED_LOOP" /\ supPc' = "near"
           \/ supPc' = "cont"
    BY <1>9 DEF SupControl, Sup, Local, taskVars
  <2>2. QED
    BY <2>1
<1>10. CASE SupNear
  <2>1. UNCHANGED <<tmr, dirLine>> /\ Rest /\ supPc = "near"
    BY <1>10 DEF SupNear, Sup, WritesMe, taskVars
  <2>2. \/ /\ supPc' = "nearStop" /\ me'.freq = MOT_PAP_MAX_FREQ \div 4
           /\ me'.type = me.type /\ me'.dir = me.dir
           /\ me'.stalled_counter = me.stalled_counter
        \/ supPc' = "there" /\ me' = me
    BY <1>0, <1>10 DEF SupNear, Sup, mot_pap
  <2>3. QED
    BY <2>1, <2>2
<1>11. CASE SupNearFreq
  <2>1. tmr'.freq = MOT_PAP_MAX_FREQ \div 4 /\ tmr'.started = tmr.started
    BY <1>0, <1>11, ClosedLoopFreq, TimerSetFreq DEF SupNearFreq
  <2>2. UNCHANGED <<me, dirLine>> /\ Rest /\ supPc = "nearFreq" /\ supPc' = "nearStart"
    BY <1>11 DEF SupNearFreq, Sup, WritesTmr, taskVars
  <2>3. MOT_PAP_MAX_FREQ \div 4 > 0
    BY FrequencyAssumption
  <2>4. QED
    BY <2>1, <2>2, <2>3
<1>12. CASE SupTmrStop
  <2>1. ~tmr'.started /\ tmr'.freq = tmr.freq
    BY <1>0, <1>12, TimerStartStop DEF SupTmrStop
  <2>2. UNCHANGED <<me, dirLine>> /\ Rest
    BY <1>12 DEF SupTmrStop, WritesTmr, taskVars
  <2>3. \/ supPc = "stallStop" /\ supPc' = "stallPwr"
        \/ supPc = "nearStop" /\ supPc' = "nearFreq"
        \/ supPc = "thereStop" /\ supPc' = "cont"
        \/ supPc = "turnStop" /\ supPc' = "turnDelay"
    BY <1>12 DEF SupTmrStop, Sup
  <2>4. QED
    BY <2>1, <2>2, <2>3
<1>13. CASE SupTmrStart
  <2>1. tmr'.started /\ tmr'.freq = tmr.freq
    BY <1>0, <1>13, TimerStartStop DEF SupTmrStart
  <2>2. UNCHANGED <<me, dirLine>> /\ Rest
    BY <1>13 DEF SupTmrStart, WritesTmr, taskVars
  <2>3. \/ supPc = "nearStart" /\ supPc' = "there"
        \/ supPc = "turnStart" /\ supPc' = "cont"
    BY <1>13 DEF SupTmrStart, Sup
  <2>4. ProgrammedInv'
    BY <2>1, <2>2, <2>3
  <2>5. ASSUME ~overlap' PROVE ModeInv'
    BY <2>1, <2>2, <2>3, <2>5
  <2>6. ASSUME ~overlap' PROVE OutputInv'
    BY <2>1, <2>2, <2>3, <2>6
  <2>7. ASSUME ~overlap' PROVE StallInv'
    BY <2>2, <2>3, <2>7
  <2>8. QED
    <3> HIDE DEF ProgrammedInv, ModeInv, OutputInv, StallInv
    <3> QED BY <2>4, <2>5, <2>6, <2>7
<1>14. CASE SupThere
  <2>1. SameMe(me')
    BY <1>14, ThereWrites
  <2>2. /\ UNCHANGED <<tmr, dirLine>> /\ Rest
        /\ supPc = "there" /\ supPc' \in {"thereType", "turnStop", "cont"}
    BY <1>14 DEF SupThere, Sup, WritesMe, taskVars
  <2>3. QED
    BY <2>1, <2>2 DEF SameMe
<1>15. CASE SupThereType
  <2>1. /\ me'.type = "STOP" /\ me'.dir = me.dir /\ me'.freq = me.freq
        /\ me'.stalled_counter = me.stalled_counter
    BY <1>0, <1>15 DEF SupThereType, mot_pap
  <2>2. /\ UNCHANGED <<tmr, dirLine>> /\ Rest
        /\ supPc = "thereType" /\ supPc' = "thereStop"
    BY <1>15 DEF SupThereType, Sup, WritesMe, taskVars
  <2>3. QED
    BY <2>1, <2>2
<1>16. CASE SupDelayEnds
  BY <1>16 DEF SupDelayEnds, Sup, Local, taskVars
<1>17. CASE SupTurnDir
  <2>1. /\ me'.type = me.type /\ me'.freq = me.freq
        /\ me'.stalled_counter = me.stalled_counter
    BY <1>17 DEF SupTurnDir
  <2>2. /\ UNCHANGED <<tmr, dirLine>> /\ Rest
        /\ supPc = "turnDir" /\ supPc' = "turnLine"
    BY <1>17 DEF SupTurnDir, Sup, WritesMe, taskVars
  <2>3. QED
    BY <2>1, <2>2
<1>18. CASE SupTurnLine
  <2>1. /\ UNCHANGED <<me, tmr>> /\ Rest /\ dirLine' = me.dir
        /\ supPc = "turnLine" /\ supPc' = "turnStart"
    BY <1>18 DEF SupTurnLine, Sup, gpios_direction, taskVars
  <2>2. QED
    BY <2>1
<1>19. CASE SupCont
  <2>1. SameMe(me')
    BY <1>19 DEF SupCont, SameMe
  <2>2. /\ UNCHANGED <<tmr, dirLine>> /\ Rest
        /\ supPc = "cont" /\ supPc' = "wait"
    BY <1>19 DEF SupCont, Sup, WritesMe, taskVars
  <2>3. QED
    BY <2>1, <2>2 DEF SameMe
<1>20. QED
  BY <1>1, <1>2, <1>3, <1>4, <1>5, <1>6, <1>7, <1>8, <1>9, <1>10, <1>11, <1>12, <1>13,
     <1>14, <1>15, <1>16, <1>17, <1>18, <1>19 DEF mot_pap_supervise

\* The interrupt and the tcp thread touch nothing of it.
LEMMA OthersAxis ==
  ASSUME TypeOK, AxisInv, mot_pap_isr \/ tcp_thread
  PROVE  AxisInv'
<1>1. CASE mot_pap_isr
  <2>1. PICK half : me' = [me EXCEPT !.last_dir = me.dir, !.half_pulses = half]
    BY <1>1, IsrWrites
  <2>2. SameMe(me')
    BY <2>1 DEF SameMe
  <2>3. UNCHANGED <<tmr, dirLine, pending, supPc, supCount, overlap, still>>
    BY <1>1 DEF mot_pap_isr, taskVars, supVars
  <2>4. QED
    BY <2>2, <2>3, AxisFrame
<1>2. CASE tcp_thread
  <2>1. ASSUME \E raw \in Raw : GetStatus(raw) PROVE SameMe(me')
    BY <2>1 DEF GetStatus, ReadPosition, SameMe, taskVars, supVars
  <2>2. ASSUME \E o \in Offsets : SetOffset(o) PROVE SameMe(me')
    BY <2>2 DEF SetOffset, SameMe, taskVars, supVars
  <2>3. ASSUME \/ \E msg \in mot_pap_msg : Send(msg)
               \/ \E b \in StallSettings : SetStallDetection(b)
               \/ \E b \in BOOLEAN : SetMainPower(b)
        PROVE  SameMe(me')
    BY <2>3 DEF Send, SetStallDetection, SetMainPower, SameMe, taskVars, supVars
  <2>4. SameMe(me')
    BY <1>2, <2>1, <2>2, <2>3 DEF tcp_thread
  <2>5. UNCHANGED <<tmr, dirLine, pending, supPc, supCount, overlap, still>>
    BY <1>2 DEF tcp_thread, Send, GetStatus, SetOffset, SetStallDetection, SetMainPower,
                taskVars, supVars
  <2>6. QED
    BY <2>4, <2>5, AxisFrame
<1>3. QED
  BY <1>1, <1>2

-------------------------------------------------------------------------------
(***************************************************************************)
(* What a command of the motion task does: it stops, or it leaves the      *)
(* movement as it is, or it pauses, or it starts a movement.               *)
(***************************************************************************)
SameMovement == me'.type = me.type /\ me'.dir = me.dir /\ me'.freq = me.freq

Stopped ==
    /\ Head(queue).type = "STOP"
    /\ me'.type = "STOP" /\ ~tmr'.started /\ tmr'.freq = tmr.freq
    /\ UNCHANGED <<dirLine, pending>>

Kept ==
    /\ SameMovement
    /\ tmr' = tmr \/ (~tmr'.started /\ tmr'.freq = tmr.freq)
    /\ UNCHANGED <<dirLine, pending>>

Paused ==
    /\ me.type # "STOP"
    /\ SameMovement
    /\ ~tmr'.started /\ tmr'.freq = tmr.freq
    /\ UNCHANGED dirLine

Started(mv) ==
    /\ me'.type = mv.type /\ me'.dir = mv.dir /\ me'.freq = mv.freq
    /\ tmr'.started /\ tmr'.freq = mv.freq
    /\ dirLine' = mv.dir
    /\ pending' = NoMovement

StartedAtRest(mv) == Started(mv) /\ (me.type = "STOP" \/ me.dir = mv.dir)

\* What a free run that starts leaves behind.
LEMMA StartMovementEffect ==
  ASSUME TypeOK, NEW m \in mot_pap, NEW mv \in Movement, StartMovement(m, mv)
  PROVE  /\ Started(mv)
         /\ me'.stalled_counter = m.stalled_counter
         /\ me'.stalled = m.stalled
<1>1. me' = [m EXCEPT !.type = mv.type, !.dir = mv.dir, !.freq = mv.freq]
  BY StartMovementType
<1>2. /\ me'.type = mv.type /\ me'.dir = mv.dir /\ me'.freq = mv.freq
      /\ me'.stalled_counter = m.stalled_counter /\ me'.stalled = m.stalled
  BY <1>1 DEF mot_pap
<1>3. tmr'.started /\ tmr'.freq = mv.freq /\ dirLine' = mv.dir /\ pending' = NoMovement
  BY StartMovementType
<1>4. QED
  BY <1>2, <1>3 DEF Started

\* What a closed loop that starts leaves behind.
LEMMA MoveEffect ==
  ASSUME TypeOK,
         NEW m \in mot_pap, m.type = me.type, m.dir = me.dir, m.freq = me.freq,
         NEW mv \in Movement, Move(m, mv)
  PROVE  /\ me'.stalled_counter = m.stalled_counter
         /\ me'.stalled = m.stalled
         /\ Paused \/ StartedAtRest(mv)
<1>1. CASE m.dir # mv.dir /\ m.type # "STOP"
  <2>1. me' = m /\ tmr' = tmr_stop(tmr) /\ dirLine' = dirLine
    BY <1>1 DEF Move
  <2>2. ~tmr'.started /\ tmr'.freq = tmr.freq
    BY <2>1, TimerStartStop DEF TypeOK, TmrType
  <2>3. QED
    BY <1>1, <2>1, <2>2 DEF Paused, SameMovement
<1>2. CASE ~(m.dir # mv.dir /\ m.type # "STOP")
  <2>1. StartMovement(m, mv)
    BY <1>2 DEF Move
  <2>2. QED
    BY <1>2, <2>1, StartMovementEffect DEF StartedAtRest
<1>3. QED
  BY <1>1, <1>2

\* What a command leaves behind, whichever it is.
LEMMA ReceiveEffect ==
  ASSUME TypeOK, Receive
  PROVE  /\ me'.stalled_counter = 0
         /\ ~me'.stalled
         /\ \/ Stopped
            \/ /\ Head(queue).type # "STOP"
               /\ Kept \/ Paused \/ \E mv \in Movement : StartedAtRest(mv)
<1> DEFINE msg == Head(queue)
<1>1. PICK raw \in Raw :
        LET m == ReadPosition(NewCommand(me), raw)
        IN  \/ msg.type = "FREE_RUNNING" /\ mot_pap_move_free_run(m, msg)
            \/ msg.type = "CLOSED_LOOP" /\ mot_pap_move_closed_loop(m, msg)
            \/ msg.type = "STOP" /\ mot_pap_stop(m)
  BY DEF Receive
<1> DEFINE m == ReadPosition(NewCommand(me), raw)
<1>2. msg \in mot_pap_msg
  BY HeadTailProperties DEF Receive, TypeOK
<1>3. m \in mot_pap
  BY NewCommandType, ReadPositionType DEF TypeOK
<1>4. /\ m.type = me.type /\ m.dir = me.dir /\ m.freq = me.freq
      /\ m.stalled_counter = 0 /\ ~m.stalled
  BY NewCommandKeeps DEF TypeOK
<1>5. ~tmr_stop(tmr).started /\ tmr_stop(tmr).freq = tmr.freq
  BY TimerStartStop DEF TypeOK, TmrType
<1> HIDE DEF m, msg
<1>6. CASE msg.type = "FREE_RUNNING" /\ mot_pap_move_free_run(m, msg)
  <2>1. msg.dir \in mot_pap_direction /\ msg.speed \in Nat
    BY <1>2, <1>6, CommandAssumption DEF mot_pap_msg
  <2>2. CASE mot_pap_free_run_speed_ok(msg.speed)
    <3> DEFINE mv == [type |-> "FREE_RUNNING", dir |-> msg.dir,
                      freq |-> 1000 * mot_pap_free_run_freqs[msg.speed]]
    <3>1. mv.freq \in Freqs \ {0}
      BY <2>1, <2>2, FreeRunFreq
    <3>2. mv \in Movement
      BY <2>1, <3>1 DEF Movement, mot_pap_type
    <3>3. Move(m, mv)
      BY <1>6, <2>2 DEF mot_pap_move_free_run
    <3> HIDE DEF mv
    <3>4. /\ me'.stalled_counter = m.stalled_counter /\ me'.stalled = m.stalled
          /\ Paused \/ StartedAtRest(mv)
      BY <1>3, <1>4, <3>2, <3>3, MoveEffect
    <3>5. msg.type # "STOP"
      BY <1>6
    <3>6. QED
      BY <1>4, <3>2, <3>4, <3>5 DEF msg
  <2>3. CASE ~mot_pap_free_run_speed_ok(msg.speed)
    <3>1. me' = m /\ UNCHANGED <<tmr, dirLine, pending>>
      BY <1>6, <2>3 DEF mot_pap_move_free_run
    <3>2. Kept
      BY <1>4, <3>1 DEF Kept, SameMovement
    <3>3. msg.type # "STOP"
      BY <1>6
    <3>4. QED
      BY <1>4, <3>1, <3>2, <3>3 DEF msg
  <2>4. QED
    BY <2>2, <2>3
<1>7. CASE msg.type = "CLOSED_LOOP" /\ mot_pap_move_closed_loop(m, msg)
  <2> DEFINE error == msg.setpoint - m.posAct
             commanded == [m EXCEPT !.posCmd = msg.setpoint]
             there == [commanded EXCEPT !.already_there = TRUE]
             mv == [type |-> "CLOSED_LOOP", dir |-> mot_pap_direction_calculate(error),
                    freq |-> MOT_PAP_MAX_FREQ]
  <2>1. msg.setpoint \in 0 .. Turn - 1
    BY <1>2, <1>7, PositionAssumption DEF mot_pap_msg
  <2>2. commanded \in mot_pap
    BY <1>3, <2>1, Update
  <2>3. /\ commanded.type = me.type /\ commanded.dir = me.dir /\ commanded.freq = me.freq
        /\ commanded.stalled_counter = 0 /\ ~commanded.stalled
    BY <1>4
  <2>4. /\ there.type = commanded.type /\ there.dir = commanded.dir
        /\ there.freq = commanded.freq /\ there.stalled = commanded.stalled
        /\ there.stalled_counter = commanded.stalled_counter
    OBVIOUS
  <2>5. mv \in Movement
    BY ClosedLoopFreq
       DEF Movement, mot_pap_type, mot_pap_direction, mot_pap_direction_calculate
  <2>6. \/ me' = there /\ tmr' = tmr_stop(tmr) /\ UNCHANGED <<dirLine, pending>>
        \/ Move(commanded, mv)
    BY <1>7 DEF mot_pap_move_closed_loop
  <2>7. msg.type # "STOP"
    BY <1>7
  <2> HIDE DEF commanded, there, mv
  <2>8. CASE Move(commanded, mv)
    <3>1. /\ me'.stalled_counter = 0 /\ ~me'.stalled
          /\ Paused \/ StartedAtRest(mv)
      BY <2>2, <2>3, <2>5, <2>8, MoveEffect
    <3>2. QED
      BY <2>5, <2>7, <3>1 DEF msg
  <2>9. CASE me' = there /\ tmr' = tmr_stop(tmr) /\ UNCHANGED <<dirLine, pending>>
    <3>1. Kept
      BY <1>5, <2>3, <2>4, <2>9 DEF Kept, SameMovement
    <3>2. QED
      BY <2>3, <2>4, <2>7, <2>9, <3>1 DEF msg
  <2>10. QED
    BY <2>6, <2>8, <2>9
<1>8. CASE msg.type = "STOP" /\ mot_pap_stop(m)
  <2>1. me' = [m EXCEPT !.type = "STOP"] /\ tmr' = tmr_stop(tmr) /\ UNCHANGED <<dirLine, pending>>
    BY <1>8 DEF mot_pap_stop
  <2>2. me'.type = "STOP" /\ me'.stalled_counter = 0 /\ ~me'.stalled
    BY <1>3, <1>4, <2>1 DEF mot_pap
  <2>3. Stopped
    BY <1>5, <1>8, <2>1, <2>2 DEF Stopped, msg
  <2>4. QED
    BY <2>2, <2>3
<1>9. QED
  BY <1>1, <1>6, <1>7, <1>8 DEF m

\* The motion task preserves AxisInv: only a STOP taken with the supervisor idle makes
\* overlap FALSE, and it establishes the invariant whatever came before.
LEMMA ReceiveAxis ==
  ASSUME TypeOK, AxisInv, Receive
  PROVE  AxisInv'
<1>1. /\ pending = NoMovement
      /\ ~overlap' => supPc = "wait" /\ (~overlap \/ Head(queue).type = "STOP")
      /\ still' = 0 /\ supPc' = supPc
  BY DEF Receive, supVars
<1>2. me'.stalled_counter = 0
  BY ReceiveEffect
<1>3. tmr \in TmrType
  BY DEF TypeOK, TmrType
<1>4. CASE Stopped
  <2>1. ProgrammedInv'
    BY <1>1, <1>4 DEF AxisInv, ProgrammedInv, Stopped
  <2>2. ASSUME ~overlap' PROVE ModeInv' /\ OutputInv' /\ StallInv'
    BY <1>1, <1>2, <1>4, <2>2
       DEF Stopped, ModeInv, OutputInv, StallInv, ControlSteps, TurnSteps
  <2>3. QED
    BY <2>1, <2>2 DEF AxisInv
<1>5. CASE Head(queue).type # "STOP" /\ Kept
  <2>1. ProgrammedInv'
    BY <1>1, <1>5 DEF AxisInv, ProgrammedInv, Kept, SameMovement
  <2>2. ASSUME ~overlap' PROVE ModeInv' /\ OutputInv' /\ StallInv'
    BY <1>1, <1>2, <1>5, <2>2
       DEF AxisInv, Kept, SameMovement, ModeInv, OutputInv, StallInv, ControlSteps, TurnSteps
  <2>3. QED
    BY <2>1, <2>2 DEF AxisInv
<1>6. CASE Head(queue).type # "STOP" /\ Paused
  <2>1. ProgrammedInv'
    BY <1>1, <1>6 DEF AxisInv, ProgrammedInv, Paused, SameMovement
  <2>2. ASSUME ~overlap' PROVE ModeInv' /\ OutputInv' /\ StallInv'
    BY <1>1, <1>2, <1>6, <2>2
       DEF AxisInv, Paused, SameMovement, ModeInv, OutputInv, StallInv, ControlSteps, TurnSteps
  <2>3. QED
    BY <2>1, <2>2 DEF AxisInv
<1>7. CASE \E mv \in Movement : StartedAtRest(mv)
  <2>1. PICK mv \in Movement : Started(mv)
    BY <1>7 DEF StartedAtRest
  <2>2. mv.type # "STOP" /\ mv.freq > 0
    BY FrequencyAssumption DEF Movement, Freqs
  <2>3. ProgrammedInv'
    BY <2>1, <2>2 DEF ProgrammedInv, Started
  <2>4. ASSUME ~overlap' PROVE ModeInv' /\ OutputInv' /\ StallInv'
    BY <1>1, <1>2, <2>1, <2>2, <2>4
       DEF Started, ModeInv, OutputInv, StallInv, ControlSteps, TurnSteps
  <2>5. QED
    BY <2>3, <2>4 DEF AxisInv
<1>8. QED
  BY <1>4, <1>5, <1>6, <1>7, ReceiveEffect

\* The end of the pause before a reversal keeps AxisInv.
LEMMA DelayEndsAxis ==
  ASSUME TypeOK, AxisInv, DelayEnds
  PROVE  AxisInv'
<1>1. pending \in Movement /\ StartMovement(me, pending)
  BY DEF DelayEnds, TypeOK
<1>2. Started(pending) /\ me'.stalled_counter = me.stalled_counter
  BY <1>1, StartMovementEffect DEF TypeOK
<1>3. pending.type # "STOP" /\ pending.freq > 0
  BY <1>1, FrequencyAssumption DEF Movement, Freqs
<1>4. /\ ~overlap' => supPc = "wait" /\ ~overlap
      /\ UNCHANGED <<supPc, supCount, still>>
  BY DEF DelayEnds, supVars
<1>5. ProgrammedInv'
  BY <1>2, <1>3 DEF ProgrammedInv, Started
<1>6. ASSUME ~overlap' PROVE ModeInv' /\ OutputInv' /\ StallInv'
  BY <1>2, <1>3, <1>4, <1>6
     DEF AxisInv, Started, ModeInv, OutputInv, StallInv, ControlSteps, TurnSteps
<1>7. QED
  BY <1>5, <1>6 DEF AxisInv

\* AxisInv is inductive, given the types.
LEMMA NextAxis == TypeOK /\ AxisInv /\ [Next]_vars => AxisInv'
<1>1. ASSUME AxisInv, UNCHANGED vars PROVE AxisInv'
  <2>1. SameMe(me') /\ UNCHANGED <<tmr, dirLine, pending, supPc, supCount, overlap, still>>
    BY <1>1 DEF vars, taskVars, supVars, SameMe
  <2>2. QED
    BY <1>1, <2>1, AxisFrame
<1>2. QED
  BY <1>1, ReceiveAxis, DelayEndsAxis, OthersAxis, SupAxis DEF Next, motion_task

\* The invariant behind the safety properties below, for every instance of the model.
THEOREM MotPapAxisInv == Spec => [](TypeOK /\ AxisInv)
<1>1. QED
  BY InitType, InitAxis, NextType, NextAxis, PTL DEF Spec

-------------------------------------------------------------------------------
(***************************************************************************)
(* The safety properties.                                                  *)
(***************************************************************************)

\* The timer never runs with a match register that was not programmed.
THEOREM MotPapTimerProgrammed == Spec => []TimerProgrammed
<1>1. AxisInv => TimerProgrammed
  BY DEF AxisInv, ProgrammedInv, TimerProgrammed
<1>2. QED
  BY <1>1, MotPapAxisInv, PTL

\* Without an overlap of a command and a pass of the supervisor, a stopped axis makes no
\* pulses: this is how far mot_pap_stop can be relied upon.
THEOREM MotPapStopHolds == Spec => []StopHolds
<1>1. AxisInv => StopHolds
  BY DEF AxisInv, ModeInv, StopHolds
<1>2. QED
  BY <1>1, MotPapAxisInv, PTL

\* Under the same condition the pulses go in the direction and at the frequency that
\* struct mot_pap records.
THEOREM MotPapPulsesAsCommanded == Spec => []PulsesAsCommanded
<1>1. ASSUME AxisInv PROVE PulsesAsCommanded
  <2>1. SUFFICES ASSUME tmr.started, ~overlap
                 PROVE  dirLine = me.dir /\ (supPc # "nearStop" => tmr.freq = me.freq)
    BY DEF PulsesAsCommanded
  <2>2. ModeInv /\ OutputInv
    BY <1>1, <2>1 DEF AxisInv
  <2>3. supPc # "turnLine" /\ supPc # "nearFreq"
    BY <2>1, <2>2 DEF ModeInv, TurnSteps
  <2>4. me.type # "STOP" \/ supPc = "thereStop"
    BY <2>1, <2>2 DEF ModeInv
  <2>5. QED
    BY <2>2, <2>3, <2>4 DEF OutputInv
<1>2. QED
  BY <1>1, MotPapAxisInv, PTL

\* Under the same condition the direction output is switched at rest only, whether the
\* motion task or the supervisor switches it.
THEOREM MotPapNoTurnUnderPulses == Spec => NoTurnUnderPulses
<1>1. ASSUME TypeOK, AxisInv, [Next]_vars, dirLine' # dirLine, ~overlap'
      PROVE  ~tmr.started
  <2>1. CASE Receive
    <3>1. supPc = "wait" /\ (~overlap \/ Head(queue).type = "STOP")
      BY <1>1, <2>1 DEF Receive
    <3>2. PICK mv \in Movement : StartedAtRest(mv) /\ Head(queue).type # "STOP"
      BY <1>1, <2>1, ReceiveEffect DEF Stopped, Kept, Paused
    <3>3. ModeInv /\ OutputInv
      BY <1>1, <3>1, <3>2 DEF AxisInv
    <3>4. dirLine # mv.dir
      BY <1>1, <3>2 DEF StartedAtRest, Started
    <3>5. me.type = "STOP"
      BY <3>1, <3>2, <3>3, <3>4 DEF StartedAtRest, OutputInv
    <3>6. QED
      BY <3>1, <3>3, <3>5 DEF ModeInv
  <2>2. CASE DelayEnds
    BY <1>1, <2>2 DEF DelayEnds, AxisInv, ModeInv
  <2>3. CASE mot_pap_isr \/ tcp_thread \/ UNCHANGED vars
    BY <1>1, <2>3 DEF mot_pap_isr, tcp_thread, Send, GetStatus, SetOffset,
                      SetStallDetection, SetMainPower, vars
  <2>4. CASE mot_pap_supervise
    <3>1. SupTurnLine
      BY <1>1, <2>4
         DEF mot_pap_supervise, SupTake, SupRead, SupStill, SupMoved, SupUnwatched, SupStore,
             SupStalled, SupStallPower, SupControl, SupNear, SupNearFreq, SupTmrStop,
             SupTmrStart, SupThere, SupThereType, SupDelayEnds, SupTurnDir, SupCont,
             Local, WritesMe, WritesTmr
    <3>2. supPc = "turnLine" /\ ~overlap
      BY <1>1, <3>1 DEF SupTurnLine, Sup
    <3>3. QED
      BY <1>1, <3>2 DEF AxisInv, ModeInv, TurnSteps
  <2>5. QED
    BY <1>1, <2>1, <2>2, <2>3, <2>4 DEF Next, motion_task
<1>2. TypeOK /\ AxisInv /\ [Next]_vars => [dirLine' # dirLine /\ ~overlap' => ~tmr.started]_vars
  BY <1>1
<1>3. QED
  BY <1>2, MotPapAxisInv, PTL DEF Spec, NoTurnUnderPulses

\* Of the supervisor's steps only one writes stalled.
LEMMA SupKeepsStalled ==
  ASSUME mot_pap_supervise, ~SupStalled
  PROVE  me'.stalled = me.stalled
<1>1. ASSUME SupTake \/ SupStill \/ SupUnwatched \/ SupStallPower \/ SupControl
               \/ SupNearFreq \/ SupTmrStop \/ SupTmrStart \/ SupDelayEnds \/ SupTurnLine
      PROVE  me' = me
  BY <1>1 DEF SupTake, SupStill, SupUnwatched, SupStallPower, SupControl, SupNearFreq,
              SupTmrStop, SupTmrStart, SupDelayEnds, SupTurnLine, Local, WritesTmr
<1>2. CASE SupRead
  BY <1>2 DEF SupRead, ReadPosition
<1>3. CASE SupMoved
  BY <1>3 DEF SupMoved
<1>4. CASE SupStore
  BY <1>4 DEF SupStore
<1>5. CASE SupThereType
  BY <1>5 DEF SupThereType
<1>6. CASE SupTurnDir
  BY <1>6 DEF SupTurnDir
<1>7. CASE SupCont
  BY <1>7 DEF SupCont
<1>8. CASE SupNear
  <2>1. me' = me \/ me' = [me EXCEPT !.freq = MOT_PAP_MAX_FREQ \div 4]
    BY <1>8 DEF SupNear
  <2>2. CASE me' = [me EXCEPT !.freq = MOT_PAP_MAX_FREQ \div 4]
    BY <2>2
  <2>3. QED
    BY <2>1, <2>2
<1>9. CASE SupThere
  <2>1. me' = me \/ me' = [me EXCEPT !.already_there = TRUE]
    BY <1>9 DEF SupThere
  <2>2. CASE me' = [me EXCEPT !.already_there = TRUE]
    BY <2>2
  <2>3. QED
    BY <2>1, <2>2
<1>10. QED
  BY <1>1, <1>2, <1>3, <1>4, <1>5, <1>6, <1>7, <1>8, <1>9 DEF mot_pap_supervise

\* Under the same condition an axis is declared stalled only on MOT_PAP_STALL_MAX_COUNT
\* consecutive still passes, none of them from before the last command.
THEOREM MotPapStallEarned == Spec => StallEarned
<1>1. ASSUME TypeOK, AxisInv, [Next]_vars, me'.stalled, ~me.stalled, ~overlap
      PROVE  still = MOT_PAP_STALL_MAX_COUNT
  <2>1. ~Receive
    BY <1>1, ReceiveEffect
  <2>2. ~DelayEnds
    <3>1. SUFFICES ASSUME DelayEnds PROVE me'.stalled = me.stalled
      BY <1>1
    <3>2. pending \in Movement /\ StartMovement(me, pending)
      BY <3>1, <1>1 DEF DelayEnds, TypeOK
    <3>3. QED
      BY <1>1, <3>2, StartMovementEffect DEF TypeOK
  <2>3. ~mot_pap_isr
    <3>1. SUFFICES ASSUME mot_pap_isr PROVE me'.stalled = me.stalled
      BY <1>1
    <3>2. PICK half : me' = [me EXCEPT !.last_dir = me.dir, !.half_pulses = half]
      BY <1>1, <3>1, IsrWrites
    <3>3. QED
      BY <3>2
  <2>4. ~tcp_thread
    <3>1. SUFFICES ASSUME tcp_thread PROVE me'.stalled = me.stalled
      BY <1>1
    <3>2. ASSUME \E raw \in Raw : GetStatus(raw) PROVE me'.stalled = me.stalled
      BY <3>2 DEF GetStatus, ReadPosition
    <3>3. ASSUME \E o \in Offsets : SetOffset(o) PROVE me'.stalled = me.stalled
      BY <3>3 DEF SetOffset
    <3>4. ASSUME \/ \E msg \in mot_pap_msg : Send(msg)
                 \/ \E b \in StallSettings : SetStallDetection(b)
                 \/ \E b \in BOOLEAN : SetMainPower(b)
          PROVE  me' = me
      BY <3>4 DEF Send, SetStallDetection, SetMainPower
    <3>5. QED
      BY <3>1, <3>2, <3>3, <3>4 DEF tcp_thread
  <2>5. ~UNCHANGED vars
    BY <1>1 DEF vars
  <2>6. mot_pap_supervise
    BY <1>1, <2>1, <2>2, <2>3, <2>4, <2>5 DEF Next, motion_task
  <2>7. SupStalled
    BY <1>1, <2>6, SupKeepsStalled
  <2>8. supPc = "stalled"
    BY <2>7 DEF SupStalled, Sup
  <2>9. QED
    BY <1>1, <2>8 DEF AxisInv, StallInv
<1>2. TypeOK /\ AxisInv /\ [Next]_vars
        => [me'.stalled /\ ~me.stalled /\ ~overlap => still = MOT_PAP_STALL_MAX_COUNT]_vars
  BY <1>1
<1>3. QED
  BY <1>2, MotPapAxisInv, PTL DEF Spec, StallEarned
===============================================================================
