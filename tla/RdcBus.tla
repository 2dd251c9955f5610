-------------------------------- MODULE RdcBus --------------------------------
(***************************************************************************)
(* The two resolver-to-digital converters (ad2s1210.c) behind one SPI bus  *)
(* (spi.c, poncho_rdc.c), and the tasks that read positions.               *)
(*                                                                         *)
(* Any number of tasks call ad2s1210_read_position.  It lowers the SAMPLE  *)
(* line, which both chips share and whose falling edge copies the position *)
(* into the registers of both, reads the two bytes of the position with    *)
(* three transfers under spi_mutex, and raises the line again.  The line   *)
(* is driven outside the mutex.  Between any two of these accesses a task  *)
(* of the same or of a higher priority may run; a task that waits for the  *)
(* mutex lends its priority to the holder.                                 *)
(***************************************************************************)
EXTENDS Naturals, Sequences, FiniteSets

CONSTANTS
    Tasks,      \* the tasks that read positions
    Priority,   \* their FreeRTOS priorities
    Chips,      \* the two converters, "arm" and "pole"
    ReadsOf,    \* the converters that a task reads, one after the other
    MaxByte,    \* 255 in the code
    Positions,  \* the positions that an axis can be in
    NoTask

ASSUME TasksAssumption ==
    /\ NoTask \notin Tasks
    /\ Priority \in [Tasks -> Nat]
    /\ ReadsOf \in [Tasks -> Seq(Chips)]
    /\ \A t \in Tasks : ReadsOf[t] # <<>>

Byte == 0 .. MaxByte

\* A position is given by its high and its low byte.
ASSUME PositionsAssumption ==
    /\ MaxByte \in Nat
    /\ Positions \subseteq [hi : Byte, lo : Byte]
    /\ Positions # {}

\* AD2S1210_REG_POSITION, the register after it (its low byte), AD2S1210_REG_FAULT, and
\* AD2S1210_REG_LOS_THRD, the last one that ad2s1210_init addresses.
Register == {"position", "positionLow", "fault", "losThrd"}

VARIABLES
    pc,        \* where each task is in ad2s1210_read_position
    left,      \* the converters it reads, from the present or the next one on
    rx,        \* the bytes received so far
    mutex,     \* the holder of spi_mutex, or NoTask
    sample,    \* the SAMPLE line: TRUE is high
    fsync,     \* the WR/FSYNC line of each chip: TRUE is high
    latched,   \* the position in the registers of each chip
    address,   \* the register that each chip puts on the bus next
    seen,      \* history: the positions in the registers during each call
    disturbed  \* history: a task of no lower priority drove SAMPLE during the call

busVars == <<mutex, fsync, address>>
lineVars == <<sample, latched>>
history == <<seen, disturbed>>
vars == <<pc, left, rx, busVars, lineVars, history>>

TypeOK ==
    /\ pc \in [Tasks -> {"idle", "next", "take", "select", "frame", "give", "release"}]
    /\ left \in [Tasks -> Seq(Chips)]
    /\ \A t \in Tasks : left[t] # <<>>
    /\ rx \in [Tasks -> Seq(Byte)]
    /\ \A t \in Tasks : Len(rx[t]) <= 3
    /\ mutex \in Tasks \cup {NoTask}
    /\ sample \in BOOLEAN
    /\ fsync \in [Chips -> BOOLEAN]
    /\ latched \in [Chips -> Positions]
    /\ address \in [Chips -> Register]
    /\ seen \in [Tasks -> SUBSET Positions]
    /\ disturbed \in [Tasks -> BOOLEAN]

\* After poncho_rdc_init and ad2s1210_init, before the scheduler starts: all lines are high.
Init ==
    /\ pc = [t \in Tasks |-> "idle"]
    /\ left = ReadsOf
    /\ rx = [t \in Tasks |-> <<>>]
    /\ mutex = NoTask
    /\ sample = TRUE
    /\ fsync = [c \in Chips |-> TRUE]
    /\ latched \in [Chips -> Positions]
    /\ address = [c \in Chips |-> "losThrd"]
    /\ seen = [t \in Tasks |-> {}]
    /\ disturbed = [t \in Tasks |-> FALSE]

--------------------------------------------------------------------------------
(***************************************************************************)
(* The scheduler.  A task that has something to do, and does not wait for  *)
(* the mutex, keeps all tasks of lower priority from running; tasks of the *)
(* same priority take turns at any point (configUSE_TIME_SLICING).         *)
(***************************************************************************)
Waiting(t) == pc[t] = "take" /\ mutex \notin {NoTask, t}

\* The priority of t and, while t holds the mutex, those of the tasks that wait for it.
Priorities(t) ==
    {Priority[t]} \cup {Priority[w] : w \in {w \in Tasks : mutex = t /\ Waiting(w)}}

\* t may take a step: no task that is ready outranks it.
Runs(t) ==
    /\ ~Waiting(t)
    /\ \A u \in Tasks : pc[u] # "idle" /\ ~Waiting(u) =>
         \A p \in Priorities(u) : \E q \in Priorities(t) : q >= p

--------------------------------------------------------------------------------
(***************************************************************************)
(* The chips.  A transfer answers with the register that the transfer      *)
(* before it has addressed.  The contents of the other registers are zero  *)
(* here: they arrive before those of the position and are not used.        *)
(***************************************************************************)
\* The order in which ad2s1210_config_read_two addresses the registers.
tx == <<"position", "positionLow", "fault">>

Answer(c) ==
    CASE address[c] = "position"     -> latched[c].hi
      [] address[c] = "positionLow" -> latched[c].lo
      [] OTHER                       -> 0

\* Mutant: the answers taken one transfer too early.
ReadTwoEarly(bytes) == [hi |-> bytes[1], lo |-> bytes[2]]

\* rx[1] << 8 | rx[2] of ad2s1210_config_read_two; indices start at 1 here.
ad2s1210_config_read_two(bytes) == [hi |-> bytes[2], lo |-> bytes[3]]

\* pos ^= 0xFFFF: both converters are mounted reversed.  With the resolution of 16 bits that
\* arm_init and pole_init set, the shift for the hysteresis is by 0.
Reversed(p) == [hi |-> MaxByte - p.hi, lo |-> MaxByte - p.lo]

\* The converter that a call of t is about, and the tasks inside of a call.
chip(t) == Head(left[t])
Calling == {t \in Tasks : pc[t] \notin {"idle", "next"}}

\* The calls that lose their quiet when t drives the SAMPLE line.
DisturbedBy(t) == {u \in Calling \ {t} : Priority[t] >= Priority[u]}

--------------------------------------------------------------------------------
(***************************************************************************)
(* ad2s1210_read_position.                                                 *)
(***************************************************************************)
\* me->gpios.sample(0).  On a falling edge both chips copy their position, whatever it is.
SampleLow(t) ==
    /\ pc[t] \in {"idle", "next"} /\ Runs(t)
    /\ sample' = FALSE
    /\ IF sample THEN latched' \in [Chips -> Positions] ELSE UNCHANGED latched
    /\ seen' = [u \in Tasks |-> IF u \in Calling \cup {t} THEN seen[u] \cup {latched'[chip(u)]}
                                ELSE {}]
    /\ disturbed' = [u \in Tasks |-> disturbed[u] \/ u \in DisturbedBy(t)]
    /\ pc' = [pc EXCEPT ![t] = "take"]
    /\ UNCHANGED <<left, rx, busVars>>

\* Mutant: a task that does not wait for the mutex, and goes on without it.
TakeWithoutWaiting(t) ==
    /\ pc[t] = "take"
    /\ mutex' = IF mutex = NoTask THEN t ELSE mutex
    /\ pc' = [pc EXCEPT ![t] = "select"]
    /\ UNCHANGED <<left, rx, fsync, address, lineVars, history>>

\* xSemaphoreTake(spi_mutex, portMAX_DELAY)
Take(t) ==
    /\ pc[t] = "take" /\ Runs(t)
    /\ mutex = NoTask
    /\ mutex' = t
    /\ pc' = [pc EXCEPT ![t] = "select"]
    /\ UNCHANGED <<left, rx, fsync, address, lineVars, history>>

\* gpio_wr_fsync(0)
Select(t) ==
    /\ pc[t] = "select" /\ Runs(t)
    /\ fsync' = [fsync EXCEPT ![chip(t)] = FALSE]
    /\ pc' = [pc EXCEPT ![t] = "frame"]
    /\ UNCHANGED <<left, rx, mutex, address, lineVars, history>>

\* Mutant: the loop makes one transfer too many.
FrameTooMany(t) ==
    /\ pc[t] = "frame" /\ Runs(t)
    /\ rx' = [rx EXCEPT ![t] = Append(@, Answer(chip(t)))]
    /\ address' = [address EXCEPT ![chip(t)] = IF Len(rx'[t]) > Len(tx) THEN "losThrd"
                                              ELSE tx[Len(rx'[t])]]
    /\ fsync' = [fsync EXCEPT ![chip(t)] = TRUE]
    /\ pc' = [pc EXCEPT ![t] = IF Len(rx'[t]) <= Len(tx) THEN "select" ELSE "give"]
    /\ UNCHANGED <<left, mutex, lineVars, history>>

\* Chip_SSP_RWFrames_Blocking, and gpio_wr_fsync(1) after it.
Frame(t) ==
    /\ pc[t] = "frame" /\ Runs(t)
    /\ rx' = [rx EXCEPT ![t] = Append(@, Answer(chip(t)))]
    /\ address' = [address EXCEPT ![chip(t)] = tx[Len(rx'[t])]]
    /\ fsync' = [fsync EXCEPT ![chip(t)] = TRUE]
    /\ pc' = [pc EXCEPT ![t] = IF Len(rx'[t]) < Len(tx) THEN "select" ELSE "give"]
    /\ UNCHANGED <<left, mutex, lineVars, history>>

\* Mutant: the mutex is kept.
GiveForgotten(t) ==
    /\ pc[t] = "give" /\ Runs(t)
    /\ pc' = [pc EXCEPT ![t] = "release"]
    /\ UNCHANGED <<left, rx, busVars, lineVars, history>>

\* xSemaphoreGive(spi_mutex)
Give(t) ==
    /\ pc[t] = "give" /\ Runs(t)
    /\ mutex' = NoTask
    /\ pc' = [pc EXCEPT ![t] = "release"]
    /\ UNCHANGED <<left, rx, fsync, address, lineVars, history>>

\* The call of t returns: what it has received and seen is of no more use, and the task
\* reads the next converter or has nothing more to read.
Returns(t, disturbs) ==
    /\ rx' = [rx EXCEPT ![t] = <<>>]
    /\ seen' = [seen EXCEPT ![t] = {}]
    /\ disturbed' = [u \in Tasks |-> u # t /\ (disturbed[u] \/ u \in disturbs)]
    /\ IF Len(left[t]) > 1
       THEN left' = [left EXCEPT ![t] = Tail(@)] /\ pc' = [pc EXCEPT ![t] = "next"]
       ELSE left' = [left EXCEPT ![t] = ReadsOf[t]] /\ pc' = [pc EXCEPT ![t] = "idle"]

\* Mutant: the line stays low.
SampleHighForgotten(t) ==
    /\ pc[t] = "release" /\ Runs(t)
    /\ Returns(t, {})
    /\ UNCHANGED <<busVars, lineVars>>

\* me->gpios.sample(1), and the position is returned.
SampleHigh(t) ==
    /\ pc[t] = "release" /\ Runs(t)
    /\ sample' = TRUE
    /\ Returns(t, DisturbedBy(t))
    /\ UNCHANGED <<busVars, latched>>

ad2s1210_read_position(t) ==
    SampleLow(t) \/ Take(t) \/ Select(t) \/ Frame(t) \/ Give(t) \/ SampleHigh(t)

Next == \E t \in Tasks : ad2s1210_read_position(t)

Spec == Init /\ [][Next]_vars

\* A task that has begun to read goes on when it runs; nobody has to begin.
FairSpec ==
    Spec /\ \A t \in Tasks : WF_vars(pc[t] # "idle" /\ ad2s1210_read_position(t))

--------------------------------------------------------------------------------
(***************************************************************************)
(* Properties.                                                             *)
(***************************************************************************)
\* "This function takes a mutex to avoid interleaving transfers to both RDCs" (spi.c): at
\* most one chip is selected, and only by the holder of the mutex.
OneChipSelected ==
    \A c \in Chips : ~fsync[c] => /\ mutex # NoTask /\ chip(mutex) = c
                                  /\ pc[mutex] = "frame"

\* The answer to a transfer belongs to the address that the same call has sent: no other
\* task has addressed the chip in between.
AnswersOwn ==
    \A t \in Tasks : pc[t] \in {"select", "frame"} /\ rx[t] # <<>> =>
        address[chip(t)] = tx[Len(rx[t])]

\* The SAMPLE line is high when nobody reads, so that the next reading latches anew: calls
\* that overlap in any way leave the line as a single call does.
SampleRestsHigh == (\A t \in Tasks : pc[t] = "idle") => sample

\* What the call of t is about to return is a position that the chip has latched.
Genuine(t) ==
    pc[t] = "release" => Reversed(ad2s1210_config_read_two(rx[t])) \in {Reversed(p) : p \in seen[t]}

\* A reading is torn by tasks of the same or a higher priority only: whatever the tasks of
\* lower priority do, lent priorities included, a call that no other task disturbs
\* returns a position that the chip held during the call.
UndisturbedGenuine == \A t \in Tasks : ~disturbed[t] => Genuine(t)

\* "@return position register value" (ad2s1210.c): every call returns a position that the
\* chip had in its registers during the call, never one byte of each of two.
AlwaysGenuine == \A t \in Tasks : Genuine(t)

\* The bus is given back, whoever else comes and waits for it.
BusGivenBack == mutex # NoTask ~> mutex = NoTask

(***************************************************************************)
(* The inductive invariant behind OneChipSelected and AnswersOwn: the      *)
(* mutex has a holder exactly while a task is between xSemaphoreTake and   *)
(* xSemaphoreGive, and that task has received less than it asks for until  *)
(* it gives.                                                               *)
(***************************************************************************)
MutexInv == \A t \in Tasks : pc[t] \in {"select", "frame", "give"} <=> mutex = t

ProgressInv == \A t \in Tasks :
    /\ pc[t] \in {"idle", "next", "take"} => rx[t] = <<>>
    /\ pc[t] \in {"select", "frame"} => Len(rx[t]) < 3

BusInv == MutexInv /\ ProgressInv /\ OneChipSelected /\ AnswersOwn /\ SampleRestsHigh

(***************************************************************************)
(* What it adds for UndisturbedGenuine: a task that reads has seen what    *)
(* its chip holds now, and unless it has been disturbed the bytes that it  *)
(* has received are of that position.                                      *)
(***************************************************************************)
ReadingInv == \A t \in Calling :
    /\ latched[chip(t)] \in seen[t]
    /\ pc[t] \in {"give", "release"} => Len(rx[t]) = 3
    /\ ~disturbed[t] /\ Len(rx[t]) > 1 => rx[t][2] = latched[chip(t)].hi
    /\ ~disturbed[t] /\ Len(rx[t]) > 2 => rx[t][3] = latched[chip(t)].lo
================================================================================
