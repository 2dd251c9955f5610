----------------------------- MODULE RdcBusProofs -----------------------------
(***************************************************************************)
(* Proofs about the SPI bus: type correctness, and that no interleaving of *)
(* any number of readers mixes their transfers.  The priorities play no    *)
(* part in these: they hold whatever the scheduler does.                   *)
(***************************************************************************)
EXTENDS RdcBus, SequenceTheorems, TLAPS

\* The answer of a chip is a byte.
LEMMA AnswerType ==
  ASSUME NEW c \in Chips, latched \in [Chips -> Positions]
  PROVE  Answer(c) \in Byte
<1>1. latched[c] \in [hi : Byte, lo : Byte]
  BY PositionsAssumption
<1>2. 0 \in Byte
  BY PositionsAssumption DEF Byte
<1>3. QED
  BY <1>1, <1>2 DEF Answer

\* A task has a converter to read.
LEMMA ChipType == ASSUME TypeOK, NEW t \in Tasks PROVE chip(t) \in Chips
<1>1. left[t] \in Seq(Chips) /\ left[t] # <<>>
  BY DEF TypeOK
<1>2. QED
  BY <1>1, HeadTailProperties DEF chip

\* A sequence with an element is not empty.
LEMMA NonEmpty == ASSUME NEW q, Len(q) # 0 PROVE q # <<>>
<1>1. Len(<<>>) = 0
  OBVIOUS
<1>2. QED
  BY <1>1, Zenon

\* The length after a transfer.
LEMMA NextLen == ASSUME NEW n \in Nat, n < 3 PROVE n + 1 \in {1, 2, 3} /\ n + 1 # 0 /\ n + 1 <= 3
OBVIOUS

\* The addresses that a reading sends.
LEMMA TxType == Len(tx) = 3 /\ \A i \in {1, 2, 3} : tx[i] \in Register
BY DEF tx, Register

--------------------------------------------------------------------------------
(***************************************************************************)
(* Type correctness, together with BusInv.                                 *)
(***************************************************************************)
IInv == TypeOK /\ BusInv

\* IInv holds before the scheduler starts.
LEMMA InitInv == Init => IInv
<1> SUFFICES ASSUME Init PROVE IInv
  OBVIOUS
<1>1. TypeOK
  <2>1. left \in [Tasks -> Seq(Chips)] /\ \A t \in Tasks : left[t] # <<>>
    BY TasksAssumption DEF Init
  <2>2. rx \in [Tasks -> Seq(Byte)] /\ \A t \in Tasks : Len(rx[t]) <= 3
    BY EmptySeq DEF Init
  <2>3. QED
    BY <2>1, <2>2 DEF Init, TypeOK, Register
<1>2. MutexInv /\ ProgressInv
  BY TasksAssumption DEF Init, MutexInv, ProgressInv
<1>3. OneChipSelected /\ AnswersOwn /\ SampleRestsHigh
  BY DEF Init, OneChipSelected, AnswersOwn, SampleRestsHigh
<1>4. QED
  BY <1>1, <1>2, <1>3 DEF IInv, BusInv

\* Lowering SAMPLE touches neither the mutex nor the chips' addresses.
LEMMA SampleLowInv ==
  ASSUME IInv, NEW t \in Tasks, SampleLow(t)
  PROVE  IInv'
<1> USE DEF IInv
<1>1. pc[t] \in {"idle", "next"} /\ pc' = [pc EXCEPT ![t] = "take"]
      /\ sample' = FALSE
      /\ left' = left /\ rx' = rx /\ mutex' = mutex /\ fsync' = fsync /\ address' = address
  BY DEF SampleLow, busVars
<1>2. latched' \in [Chips -> Positions]
  BY DEF SampleLow, TypeOK
<1>3. seen' \in [Tasks -> SUBSET Positions]
  <2>1. \A u \in Tasks : latched'[chip(u)] \in Positions
    BY <1>2, ChipType
  <2>2. QED
    BY <2>1 DEF SampleLow, TypeOK
<1>4. disturbed' \in [Tasks -> BOOLEAN]
  BY DEF SampleLow
<1>5. TypeOK'
  BY <1>1, <1>2, <1>3, <1>4 DEF TypeOK
<1>6. pc \in [Tasks -> {"idle", "next", "take", "select", "frame", "give", "release"}]
  BY DEF TypeOK
<1>7. MutexInv' /\ ProgressInv'
  BY <1>1, <1>6 DEF BusInv, MutexInv, ProgressInv
<1>8. OneChipSelected'
  BY <1>1, <1>6 DEF BusInv, OneChipSelected, MutexInv, chip
<1>9. AnswersOwn'
  BY <1>1, <1>6 DEF BusInv, AnswersOwn, chip
<1>10. SampleRestsHigh'
  BY <1>1, <1>6 DEF SampleRestsHigh
<1>11. QED
  BY <1>5, <1>7, <1>8, <1>9, <1>10 DEF BusInv

\* The mutex is taken only when it is free.
LEMMA TakeInv ==
  ASSUME IInv, NEW t \in Tasks, Take(t)
  PROVE  IInv'
<1> USE DEF IInv
<1>1. pc[t] = "take" /\ pc' = [pc EXCEPT ![t] = "select"] /\ mutex = NoTask /\ mutex' = t
      /\ left' = left /\ rx' = rx /\ fsync' = fsync /\ address' = address
      /\ sample' = sample /\ latched' = latched /\ seen' = seen /\ disturbed' = disturbed
  BY DEF Take, lineVars, history
<1>2. TypeOK'
  BY <1>1 DEF TypeOK
<1>3. pc \in [Tasks -> {"idle", "next", "take", "select", "frame", "give", "release"}]
  BY DEF TypeOK
<1>4. \A u \in Tasks : pc[u] \notin {"select", "frame", "give"}
  BY <1>1, TasksAssumption DEF BusInv, MutexInv
<1>5. MutexInv'
  BY <1>1, <1>3, <1>4 DEF MutexInv
<1>6. rx[t] = <<>>
  BY <1>1 DEF BusInv, ProgressInv
<1>7. ProgressInv'
  BY <1>1, <1>3, <1>6 DEF BusInv, ProgressInv
<1>8. \A c \in Chips : fsync[c]
  BY <1>1 DEF BusInv, OneChipSelected, TypeOK
<1>9. OneChipSelected'
  BY <1>1, <1>8 DEF OneChipSelected
<1>10. AnswersOwn'
  BY <1>1, <1>3, <1>4, <1>6 DEF AnswersOwn
<1>11. SampleRestsHigh'
  BY <1>1, <1>3 DEF SampleRestsHigh
<1>12. QED
  BY <1>2, <1>5, <1>7, <1>9, <1>10, <1>11 DEF BusInv

\* The holder selects its chip.
LEMMA SelectInv ==
  ASSUME IInv, NEW t \in Tasks, Select(t)
  PROVE  IInv'
<1> USE DEF IInv
<1>1. pc[t] = "select" /\ pc' = [pc EXCEPT ![t] = "frame"]
      /\ fsync' = [fsync EXCEPT ![chip(t)] = FALSE]
      /\ left' = left /\ rx' = rx /\ mutex' = mutex /\ address' = address
      /\ sample' = sample /\ latched' = latched /\ seen' = seen /\ disturbed' = disturbed
  BY DEF Select, lineVars, history
<1>2. chip(t) \in Chips
  BY ChipType
<1>3. TypeOK'
  BY <1>1, <1>2 DEF TypeOK
<1>4. pc \in [Tasks -> {"idle", "next", "take", "select", "frame", "give", "release"}]
      /\ fsync \in [Chips -> BOOLEAN]
  BY DEF TypeOK
<1>5. mutex = t
  BY <1>1 DEF BusInv, MutexInv
<1>6. MutexInv' /\ ProgressInv'
  BY <1>1, <1>4 DEF BusInv, MutexInv, ProgressInv
<1>7. OneChipSelected'
  <2>1. \A c \in Chips : fsync[c]
    BY <1>1, <1>4, <1>5 DEF BusInv, OneChipSelected
  <2>2. \A u \in Tasks : chip(u)' = chip(u)
    BY <1>1 DEF chip
  <2>3. mutex' = t /\ pc'[t] = "frame" /\ \A c \in Chips : ~fsync'[c] => c = chip(t)
    BY <1>1, <1>2, <1>4, <1>5, <2>1
  <2>4. QED
    BY <2>2, <2>3, TasksAssumption DEF OneChipSelected
<1>8. AnswersOwn'
  BY <1>1, <1>4 DEF BusInv, AnswersOwn, chip
<1>9. SampleRestsHigh'
  BY <1>1, <1>4 DEF SampleRestsHigh
<1>10. QED
  BY <1>3, <1>6, <1>7, <1>8, <1>9 DEF BusInv

\* A transfer: the holder receives one byte, and its chip remembers the address it sent.
LEMMA FrameInv ==
  ASSUME IInv, NEW t \in Tasks, Frame(t)
  PROVE  IInv'
<1> USE DEF IInv
<1> DEFINE s == Append(rx[t], Answer(chip(t)))
           done == IF Len(rx'[t]) < Len(tx) THEN "select" ELSE "give"
           a == tx[Len(rx'[t])]
<1>1. pc[t] = "frame" /\ pc' = [pc EXCEPT ![t] = done]
      /\ rx' = [rx EXCEPT ![t] = s]
      /\ address' = [address EXCEPT ![chip(t)] = a]
      /\ fsync' = [fsync EXCEPT ![chip(t)] = TRUE]
      /\ left' = left /\ mutex' = mutex
      /\ sample' = sample /\ latched' = latched /\ seen' = seen /\ disturbed' = disturbed
  BY DEF Frame, lineVars, history
<1>2. chip(t) \in Chips /\ \A u \in Tasks : chip(u)' = chip(u)
  BY ChipType, <1>1 DEF chip
<1>3. pc \in [Tasks -> {"idle", "next", "take", "select", "frame", "give", "release"}]
      /\ rx \in [Tasks -> Seq(Byte)] /\ address \in [Chips -> Register]
      /\ fsync \in [Chips -> BOOLEAN]
  BY DEF TypeOK
<1>4. mutex = t
  BY <1>1 DEF BusInv, MutexInv
<1>5. s \in Seq(Byte) /\ Len(s) = Len(rx[t]) + 1 /\ Len(rx[t]) < 3 /\ Len(rx[t]) \in Nat
  <2>1. Answer(chip(t)) \in Byte
    BY <1>2, AnswerType DEF TypeOK
  <2>2. Len(rx[t]) < 3
    BY <1>1 DEF BusInv, ProgressInv
  <2>3. rx[t] \in Seq(Byte)
    BY <1>3
  <2>4. QED
    BY <2>1, <2>2, <2>3, AppendProperties, LenProperties
<1> HIDE DEF s, done, a
<1>6. rx'[t] = s
  BY <1>1, <1>3
<1>7. Len(rx'[t]) \in {1, 2, 3} /\ Len(rx'[t]) <= 3 /\ a \in Register
  <2> DEFINE n == Len(rx[t])
             k == Len(rx'[t])
  <2>1. n \in Nat /\ n < 3 /\ k = n + 1
    BY <1>5, <1>6, Zenon
  <2> HIDE DEF n, k
  <2>2. k \in {1, 2, 3} /\ k <= 3
    BY <2>1, NextLen
  <2>3. a = tx[k]
    BY DEF a, k
  <2>4. a \in Register
    BY <2>2, <2>3, TxType
  <2>5. QED
    BY <2>2, <2>4 DEF k
<1>8. done \in {"select", "give"} /\ (done = "select" => Len(rx'[t]) < 3)
  BY TxType DEF done
<1>9. TypeOK'
  <2>1. rx' \in [Tasks -> Seq(Byte)] /\ \A u \in Tasks : Len(rx'[u]) <= 3
    <3>1. rx' \in [Tasks -> Seq(Byte)]
      BY <1>1, <1>3, <1>5
    <3>2. ASSUME NEW u \in Tasks PROVE Len(rx'[u]) <= 3
      <4>1. CASE u = t
        BY <4>1, <1>7, Zenon
      <4>2. CASE u # t
        BY <4>2, <1>1, <1>3 DEF TypeOK
      <4>3. QED
        BY <4>1, <4>2
    <3>3. QED
      BY <3>1, <3>2
  <2>2. address' \in [Chips -> Register] /\ fsync' \in [Chips -> BOOLEAN]
    BY <1>1, <1>2, <1>3, <1>7
  <2>3. pc' \in [Tasks -> {"idle", "next", "take", "select", "frame", "give", "release"}]
    BY <1>1, <1>3, <1>8
  <2>4. QED
    BY <1>1, <2>1, <2>2, <2>3 DEF TypeOK
<1>10. pc'[t] = done /\ \A u \in Tasks \ {t} : pc'[u] = pc[u] /\ rx'[u] = rx[u]
  BY <1>1, <1>3
<1>11. MutexInv'
  BY <1>1, <1>4, <1>8, <1>10 DEF BusInv, MutexInv
<1>12. ProgressInv'
  BY <1>8, <1>10 DEF BusInv, ProgressInv
<1>13. OneChipSelected'
  <2>1. \A c \in Chips : ~fsync[c] => c = chip(t)
    BY <1>4 DEF BusInv, OneChipSelected
  <2>2. \A c \in Chips : fsync'[c]
    BY <2>1, <1>1, <1>2, <1>3
  <2>3. QED
    BY <2>2 DEF OneChipSelected
<1>14. AnswersOwn'
  <2>1. address'[chip(t)] = tx[Len(rx'[t])]
    BY <1>1, <1>2, <1>3 DEF a
  <2>2. \A u \in Tasks \ {t} : pc'[u] \notin {"select", "frame"}
    BY <1>4, <1>10 DEF BusInv, MutexInv
  <2>3. QED
    BY <1>2, <2>1, <2>2 DEF AnswersOwn
<1>15. SampleRestsHigh'
  BY <1>8, <1>10 DEF SampleRestsHigh
<1>16. QED
  BY <1>9, <1>11, <1>12, <1>13, <1>14, <1>15 DEF BusInv

\* The holder gives the mutex back with its chip released.
LEMMA GiveInv ==
  ASSUME IInv, NEW t \in Tasks, Give(t)
  PROVE  IInv'
<1> USE DEF IInv
<1>1. pc[t] = "give" /\ pc' = [pc EXCEPT ![t] = "release"] /\ mutex' = NoTask
      /\ left' = left /\ rx' = rx /\ fsync' = fsync /\ address' = address
      /\ sample' = sample /\ latched' = latched /\ seen' = seen /\ disturbed' = disturbed
  BY DEF Give, lineVars, history
<1>2. TypeOK'
  BY <1>1 DEF TypeOK
<1>3. pc \in [Tasks -> {"idle", "next", "take", "select", "frame", "give", "release"}]
  BY DEF TypeOK
<1>4. mutex = t /\ \A u \in Tasks \ {t} : pc[u] \notin {"select", "frame", "give"}
  BY <1>1 DEF BusInv, MutexInv
<1>5. pc'[t] = "release" /\ \A u \in Tasks \ {t} : pc'[u] = pc[u]
  BY <1>1, <1>3
<1>6. MutexInv'
  BY <1>1, <1>4, <1>5, TasksAssumption DEF MutexInv
<1>7. ProgressInv'
  BY <1>1, <1>5 DEF BusInv, ProgressInv
<1>8. OneChipSelected'
  BY <1>1, <1>4 DEF BusInv, OneChipSelected
<1>9. AnswersOwn'
  BY <1>4, <1>5 DEF AnswersOwn
<1>10. SampleRestsHigh'
  BY <1>5 DEF SampleRestsHigh
<1>11. QED
  BY <1>2, <1>6, <1>7, <1>8, <1>9, <1>10 DEF BusInv

\* The call returns, with SAMPLE high.
LEMMA SampleHighInv ==
  ASSUME IInv, NEW t \in Tasks, SampleHigh(t)
  PROVE  IInv'
<1> USE DEF IInv
<1>1. pc[t] = "release" /\ sample' = TRUE /\ rx' = [rx EXCEPT ![t] = <<>>]
      /\ seen' = [seen EXCEPT ![t] = {}]
      /\ mutex' = mutex /\ fsync' = fsync /\ address' = address /\ latched' = latched
  BY DEF SampleHigh, Returns, busVars
<1>2. disturbed' \in [Tasks -> BOOLEAN]
  BY DEF SampleHigh, Returns
<1>3. PICK p \in {"idle", "next"}, l \in Seq(Chips) :
        /\ l # <<>>
        /\ pc' = [pc EXCEPT ![t] = p]
        /\ left' = [left EXCEPT ![t] = l]
  <2>1. CASE Len(left[t]) > 1
    <3>1. left[t] \in Seq(Chips) /\ left[t] # <<>>
      BY DEF TypeOK
    <3>2. Tail(left[t]) \in Seq(Chips) /\ Len(Tail(left[t])) = Len(left[t]) - 1
      BY <3>1, HeadTailProperties
    <3>3. Len(Tail(left[t])) > 0
      BY <2>1, <3>1, <3>2, LenProperties
    <3>4. Tail(left[t]) # <<>>
      <4> DEFINE n == Len(Tail(left[t]))
      <4>1. n > 0
        BY <3>3
      <4> HIDE DEF n
      <4>2. n # 0
        BY <4>1
      <4>3. QED
        BY <4>2, NonEmpty DEF n
    <3>5. QED
      BY <2>1, <3>2, <3>4 DEF SampleHigh, Returns
  <2>2. CASE ~(Len(left[t]) > 1)
    BY <2>2, TasksAssumption DEF SampleHigh, Returns
  <2>3. QED
    BY <2>1, <2>2
<1>4. pc \in [Tasks -> {"idle", "next", "take", "select", "frame", "give", "release"}]
      /\ left \in [Tasks -> Seq(Chips)] /\ rx \in [Tasks -> Seq(Byte)]
  BY DEF TypeOK
<1>5. TypeOK'
  <2>1. pc' \in [Tasks -> {"idle", "next", "take", "select", "frame", "give", "release"}]
    BY <1>3, <1>4
  <2>2. left' \in [Tasks -> Seq(Chips)] /\ \A u \in Tasks : left'[u] # <<>>
    BY <1>3, <1>4 DEF TypeOK
  <2>3. rx' \in [Tasks -> Seq(Byte)] /\ \A u \in Tasks : Len(rx'[u]) <= 3
    <3>1. <<>> \in Seq(Byte) /\ Len(<<>>) = 0
      BY EmptySeq
    <3>2. QED
      BY <3>1, <1>1, <1>4 DEF TypeOK
  <2>4. seen' \in [Tasks -> SUBSET Positions]
    BY <1>1 DEF TypeOK
  <2>5. QED
    BY <1>1, <1>2, <2>1, <2>2, <2>3, <2>4 DEF TypeOK
<1>6. pc'[t] = p /\ rx'[t] = <<>>
      /\ \A u \in Tasks \ {t} : pc'[u] = pc[u] /\ rx'[u] = rx[u] /\ left'[u] = left[u]
  BY <1>1, <1>3, <1>4
<1>7. \A u \in Tasks \ {t} : chip(u)' = chip(u)
  BY <1>6 DEF chip
<1>8. mutex # t
  BY <1>1 DEF BusInv, MutexInv
<1>9. MutexInv'
  BY <1>1, <1>6, <1>8 DEF BusInv, MutexInv
<1>10. ProgressInv'
  BY <1>6 DEF BusInv, ProgressInv
<1>11. OneChipSelected'
  <2>1. mutex # NoTask => mutex \in Tasks \ {t}
    BY <1>8 DEF TypeOK
  <2>2. QED
    BY <1>1, <1>6, <1>7, <2>1 DEF BusInv, OneChipSelected
<1>12. AnswersOwn'
  BY <1>1, <1>6, <1>7 DEF BusInv, AnswersOwn
<1>13. SampleRestsHigh'
  BY <1>1 DEF SampleRestsHigh
<1>14. QED
  BY <1>5, <1>9, <1>10, <1>11, <1>12, <1>13 DEF BusInv

\* IInv is inductive.
LEMMA NextInv == IInv /\ [Next]_vars => IInv'
<1>1. CASE UNCHANGED vars
  BY <1>1 DEF IInv, TypeOK, BusInv, MutexInv, ProgressInv, OneChipSelected, AnswersOwn,
              SampleRestsHigh, chip, vars, busVars, lineVars, history
<1>2. QED
  BY <1>1, SampleLowInv, TakeInv, SelectInv, FrameInv, GiveInv, SampleHighInv
     DEF Next, ad2s1210_read_position

--------------------------------------------------------------------------------
\* The invariant of the bus holds for any readers with any priorities.
THEOREM RdcBusInv == Spec => []IInv
<1>1. QED
  BY InitInv, NextInv, PTL DEF Spec

\* A reading receives three bytes at most, of registers that exist, whoever interferes.
THEOREM RdcBusTypeCorrect == Spec => []TypeOK
<1>1. IInv => TypeOK
  BY DEF IInv
<1>2. QED
  BY <1>1, RdcBusInv, PTL

\* The mutex keeps the transfers to the two converters apart.
THEOREM RdcBusOneChipSelected == Spec => []OneChipSelected
<1>1. IInv => OneChipSelected
  BY DEF IInv, BusInv
<1>2. QED
  BY <1>1, RdcBusInv, PTL

\* A task gets the registers that it has asked for, and not those of another task.
THEOREM RdcBusAnswersOwn == Spec => []AnswersOwn
<1>1. IInv => AnswersOwn
  BY DEF IInv, BusInv
<1>2. QED
  BY <1>1, RdcBusInv, PTL

\* When nobody reads, the SAMPLE line is ready for a falling edge.
THEOREM RdcBusSampleRestsHigh == Spec => []SampleRestsHigh
<1>1. IInv => SampleRestsHigh
  BY DEF IInv, BusInv
<1>2. QED
  BY <1>1, RdcBusInv, PTL

--------------------------------------------------------------------------------
(***************************************************************************)
(* UndisturbedGenuine: here the priorities matter.                         *)
(***************************************************************************)
Labels == {"idle", "next", "take", "select", "frame", "give", "release"}

\* What a task of lower priority that drives SAMPLE finds: everyone above it who is in a call
\* is still waiting for the mutex, and has received nothing.  Whoever holds the mutex may
\* have been lent a priority, but does not drive SAMPLE.
LEMMA OutrankedWait ==
  ASSUME IInv, NEW t \in Tasks, Runs(t), pc[t] \notin {"select", "frame", "give"},
         NEW u \in Calling, ~(Priority[t] >= Priority[u])
  PROVE  pc[u] = "take" /\ rx[u] = <<>>
<1>1. u \in Tasks /\ pc[u] \notin {"idle", "next"}
  BY DEF Calling
<1>2. mutex # t
  BY DEF IInv, BusInv, MutexInv
<1>3. Priorities(t) = {Priority[t]}
  BY <1>2 DEF Priorities
<1>4. Waiting(u)
  <2> SUFFICES ASSUME ~Waiting(u) PROVE FALSE
    OBVIOUS
  <2>1. Priority[u] \in Priorities(u)
    BY DEF Priorities
  <2>2. \E q \in Priorities(t) : q >= Priority[u]
    BY <1>1, <2>1 DEF Runs
  <2>3. QED
    BY <1>3, <2>2
<1>5. pc[u] = "take"
  BY <1>4 DEF Waiting
<1>6. QED
  BY <1>1, <1>5 DEF IInv, BusInv, ProgressInv

\* The position is reversed from its two bytes.
LEMMA ReversedBytes ==
  ASSUME NEW bytes, NEW p, bytes[2] = p.hi, bytes[3] = p.lo
  PROVE  Reversed(ad2s1210_config_read_two(bytes)) = Reversed(p)
BY DEF Reversed, ad2s1210_config_read_two

\* A falling edge leaves what the undisturbed have received as it was latched.
LEMMA SampleLowReading ==
  ASSUME IInv, ReadingInv, NEW t \in Tasks, SampleLow(t)
  PROVE  ReadingInv'
<1>1. /\ pc[t] \in {"idle", "next"} /\ Runs(t) /\ pc' = [pc EXCEPT ![t] = "take"]
      /\ left' = left /\ rx' = rx
      /\ seen' = [u \in Tasks |-> IF u \in Calling \cup {t} THEN seen[u] \cup {latched'[chip(u)]}
                                  ELSE {}]
      /\ disturbed' = [u \in Tasks |-> disturbed[u] \/ u \in DisturbedBy(t)]
  BY DEF SampleLow
<1>2. pc \in [Tasks -> Labels]
  BY DEF IInv, TypeOK, Labels
<1>3. Calling' = Calling \cup {t}
  BY <1>1, <1>2 DEF Calling
<1>4. \A u \in Tasks : chip(u)' = chip(u)
  BY <1>1 DEF chip
<1>5. rx[t] = <<>> /\ Len(rx[t]) = 0
  BY <1>1 DEF IInv, BusInv, ProgressInv
<1>6. SUFFICES ASSUME NEW u \in Calling \cup {t}
               PROVE  /\ latched'[chip(u)] \in seen'[u]
                      /\ pc'[u] \in {"give", "release"} => Len(rx[u]) = 3
                      /\ ~disturbed'[u] /\ Len(rx[u]) > 1 => rx[u][2] = latched'[chip(u)].hi
                      /\ ~disturbed'[u] /\ Len(rx[u]) > 2 => rx[u][3] = latched'[chip(u)].lo
  BY <1>1, <1>3, <1>4 DEF ReadingInv, Calling
<1>7. u \in Tasks /\ latched'[chip(u)] \in seen'[u]
  BY <1>1 DEF Calling
<1>8. CASE u = t
  BY <1>1, <1>2, <1>5, <1>7, <1>8
<1>9. CASE u # t
  <2>1. u \in Calling /\ pc'[u] = pc[u]
    BY <1>1, <1>2, <1>7, <1>9
  <2>2. CASE Priority[t] >= Priority[u]
    <3>1. disturbed'[u]
      BY <1>1, <1>7, <1>9, <2>1, <2>2 DEF DisturbedBy
    <3>2. QED
      BY <1>7, <2>1, <3>1 DEF ReadingInv
  <2>3. CASE ~(Priority[t] >= Priority[u])
    <3>1. pc[u] = "take" /\ rx[u] = <<>> /\ Len(rx[u]) = 0
      BY <1>1, <2>1, <2>3, OutrankedWait
    <3>2. QED
      BY <1>7, <2>1, <3>1
  <2>4. QED
    BY <2>2, <2>3
<1>10. QED
  BY <1>8, <1>9

\* The answers that make up a reading come from the registers in which it was latched.
LEMMA FrameReading ==
  ASSUME IInv, ReadingInv, NEW t \in Tasks, Frame(t)
  PROVE  ReadingInv'
<1> DEFINE s == Append(rx[t], Answer(chip(t)))
           n == Len(rx[t])
<1>1. /\ pc[t] = "frame"
      /\ pc' = [pc EXCEPT ![t] = IF Len(rx'[t]) < Len(tx) THEN "select" ELSE "give"]
      /\ rx' = [rx EXCEPT ![t] = s]
      /\ left' = left /\ latched' = latched /\ seen' = seen /\ disturbed' = disturbed
  BY DEF Frame, lineVars, history
<1>2. pc \in [Tasks -> Labels] /\ rx \in [Tasks -> Seq(Byte)] /\ rx[t] \in Seq(Byte)
  BY DEF IInv, TypeOK, Labels
<1>3. chip(t) \in Chips /\ \A u \in Tasks : chip(u)' = chip(u)
  BY ChipType, <1>1 DEF chip, IInv
<1>4. n \in Nat /\ n < 3
  BY <1>1, <1>2, LenProperties DEF IInv, BusInv, ProgressInv
<1>5. Answer(chip(t)) \in Byte
  BY <1>3, AnswerType DEF IInv, TypeOK
<1>6. /\ Len(s) = n + 1
      /\ \A i \in 1 .. n : s[i] = rx[t][i]
      /\ s[n + 1] = Answer(chip(t))
  BY <1>2, <1>5, AppendProperties
<1>7. n = 1 => Answer(chip(t)) = latched[chip(t)].hi
  <2>1. n = 1 => rx[t] # <<>>
    BY NonEmpty
  <2>2. n = 1 => address[chip(t)] = tx[1]
    BY <1>1, <2>1 DEF IInv, BusInv, AnswersOwn
  <2>3. QED
    BY <2>2 DEF tx, Answer
<1>8. n = 2 => Answer(chip(t)) = latched[chip(t)].lo
  <2>1. n = 2 => rx[t] # <<>>
    BY NonEmpty
  <2>2. n = 2 => address[chip(t)] = tx[2]
    BY <1>1, <2>1 DEF IInv, BusInv, AnswersOwn
  <2>3. QED
    BY <2>2 DEF tx, Answer
<1> HIDE DEF s, n
<1>9. rx'[t] = s /\ \A u \in Tasks \ {t} : rx'[u] = rx[u] /\ pc'[u] = pc[u]
  BY <1>1, <1>2
<1>10. pc'[t] \in {"select", "give"} /\ (pc'[t] = "give" => ~(n + 1 < 3))
  BY <1>1, <1>2, <1>6, <1>9, TxType
<1>11. Calling' = Calling /\ t \in Calling
  BY <1>1, <1>9, <1>10 DEF Calling
<1>12. SUFFICES ASSUME NEW u \in Calling
                PROVE  /\ latched[chip(u)] \in seen[u]
                       /\ pc'[u] \in {"give", "release"} => Len(rx'[u]) = 3
                       /\ ~disturbed[u] /\ Len(rx'[u]) > 1 => rx'[u][2] = latched[chip(u)].hi
                       /\ ~disturbed[u] /\ Len(rx'[u]) > 2 => rx'[u][3] = latched[chip(u)].lo
  BY <1>1, <1>3, <1>11 DEF ReadingInv, Calling
<1>13. CASE u # t
  BY <1>9, <1>13 DEF ReadingInv, Calling
<1>14. CASE u = t
  <2>1. latched[chip(t)] \in seen[t]
    BY <1>11 DEF ReadingInv
  <2>2. pc'[t] \in {"give", "release"} => n + 1 = 3
    BY <1>4, <1>10
  <2>3. ~disturbed[t] /\ n + 1 > 1 => s[2] = latched[chip(t)].hi
    <3>1. CASE n = 1
      BY <1>6, <1>7, <3>1
    <3>2. CASE n = 2
      <4>1. ~disturbed[t] => rx[t][2] = latched[chip(t)].hi
        BY <1>11, <3>2 DEF ReadingInv, n
      <4>2. QED
        BY <1>6, <3>2, <4>1
    <3>3. QED
      BY <1>4, <3>1, <3>2
  <2>4. ~disturbed[t] /\ n + 1 > 2 => s[3] = latched[chip(t)].lo
    BY <1>4, <1>6, <1>8
  <2>5. QED
    BY <1>6, <1>9, <1>14, <2>1, <2>2, <2>3, <2>4
<1>15. QED
  BY <1>13, <1>14

\* The other steps leave alone what is latched and received, or end the call.
LEMMA OthersReading ==
  ASSUME IInv, ReadingInv, NEW t \in Tasks, Take(t) \/ Select(t) \/ Give(t) \/ SampleHigh(t)
  PROVE  ReadingInv'
<1>1. pc \in [Tasks -> Labels] /\ left \in [Tasks -> Seq(Chips)] /\ rx \in [Tasks -> Seq(Byte)]
      /\ seen \in [Tasks -> SUBSET Positions] /\ disturbed \in [Tasks -> BOOLEAN]
  BY DEF IInv, TypeOK, Labels
<1>2. CASE Take(t) \/ Select(t) \/ Give(t)
  <2>1. PICK from \in {"take", "select", "give"}, to \in {"select", "frame", "release"} :
          /\ pc[t] = from /\ pc' = [pc EXCEPT ![t] = to]
          /\ to = "release" => from = "give"
    BY <1>2 DEF Take, Select, Give
  <2>2. left' = left /\ rx' = rx /\ latched' = latched /\ seen' = seen /\ disturbed' = disturbed
    BY <1>2 DEF Take, Select, Give, lineVars, history
  <2>3. Calling' = Calling
    BY <1>1, <2>1 DEF Calling
  <2>4. \A u \in Tasks : chip(u)' = chip(u)
    BY <2>2 DEF chip
  <2>5. \A u \in Tasks : pc'[u] \in {"give", "release"} => pc[u] \in {"give", "release"}
    BY <1>1, <2>1
  <2>6. QED
    BY <2>2, <2>3, <2>4, <2>5 DEF ReadingInv, Calling
<1>3. CASE SampleHigh(t)
  <2>1. /\ latched' = latched
        /\ rx' = [rx EXCEPT ![t] = <<>>] /\ seen' = [seen EXCEPT ![t] = {}]
        /\ disturbed' = [u \in Tasks |-> u # t /\ (disturbed[u] \/ u \in DisturbedBy(t))]
    BY <1>3 DEF SampleHigh, Returns
  <2>2. \E p \in {"next", "idle"}, l \in {Tail(left[t]), ReadsOf[t]} :
            pc' = [pc EXCEPT ![t] = p] /\ left' = [left EXCEPT ![t] = l]
    <3>1. CASE Len(left[t]) > 1
      BY <1>3, <3>1 DEF SampleHigh, Returns
    <3>2. CASE ~(Len(left[t]) > 1)
      BY <1>3, <3>2 DEF SampleHigh, Returns
    <3>3. QED
      BY <3>1, <3>2
  <2> PICK p \in {"next", "idle"}, l \in {Tail(left[t]), ReadsOf[t]} :
            pc' = [pc EXCEPT ![t] = p] /\ left' = [left EXCEPT ![t] = l]
    BY <2>2
  <2>3. Calling' \subseteq Calling \ {t}
    BY <1>1 DEF Calling
  <2>4. ASSUME NEW u \in Calling'
        PROVE  /\ u \in Calling /\ chip(u)' = chip(u) /\ pc'[u] = pc[u] /\ rx'[u] = rx[u]
               /\ seen'[u] = seen[u] /\ (disturbed[u] => disturbed'[u])
    <3>1. u \in Tasks /\ u # t /\ u \in Calling
      BY <2>3 DEF Calling
    <3>2. QED
      BY <1>1, <2>1, <3>1 DEF chip, Calling
  <2>5. ASSUME NEW u \in Calling'
        PROVE  /\ latched'[chip(u)'] \in seen'[u]
               /\ pc'[u] \in {"give", "release"} => Len(rx'[u]) = 3
               /\ ~disturbed'[u] /\ Len(rx'[u]) > 1 => rx'[u][2] = latched'[chip(u)'].hi
               /\ ~disturbed'[u] /\ Len(rx'[u]) > 2 => rx'[u][3] = latched'[chip(u)'].lo
    <3>1. /\ latched[chip(u)] \in seen[u]
          /\ pc[u] \in {"give", "release"} => Len(rx[u]) = 3
          /\ ~disturbed[u] /\ Len(rx[u]) > 1 => rx[u][2] = latched[chip(u)].hi
          /\ ~disturbed[u] /\ Len(rx[u]) > 2 => rx[u][3] = latched[chip(u)].lo
      BY <2>4 DEF ReadingInv
    <3>2. latched'[chip(u)'] = latched[chip(u)] /\ seen'[u] = seen[u] /\ rx'[u] = rx[u]
          /\ pc'[u] = pc[u] /\ (~disturbed'[u] => ~disturbed[u])
      BY <2>1, <2>4
    <3>3. QED
      BY <3>1, <3>2
  <2>6. QED
    BY <2>5 DEF ReadingInv
<1>4. QED
  BY <1>2, <1>3

\* ReadingInv is inductive.
LEMMA NextReading == IInv /\ ReadingInv /\ [Next]_vars => ReadingInv'
<1>1. CASE UNCHANGED vars
  BY <1>1 DEF ReadingInv, Calling, chip, vars, lineVars, history
<1>2. QED
  BY <1>1, SampleLowReading, FrameReading, OthersReading DEF Next, ad2s1210_read_position

\* A call that no task of its priority or above disturbs returns a position that the chip held
\* during the call, for any tasks, priorities and lists of converters: priority inheritance
\* does not let a task of lower priority tear the reading.
THEOREM RdcBusUndisturbedGenuine == Spec => []UndisturbedGenuine
<1>1. Init => ReadingInv
  BY DEF Init, ReadingInv, Calling
<1>2. ReadingInv => UndisturbedGenuine
  <2>1. SUFFICES ASSUME ReadingInv, NEW t \in Tasks, ~disturbed[t], pc[t] = "release"
                 PROVE  Reversed(ad2s1210_config_read_two(rx[t])) \in
                            {Reversed(p) : p \in seen[t]}
    BY DEF UndisturbedGenuine, Genuine
  <2>2. t \in Calling
    BY <2>1 DEF Calling
  <2>3. /\ latched[chip(t)] \in seen[t]
        /\ rx[t][2] = latched[chip(t)].hi /\ rx[t][3] = latched[chip(t)].lo
    BY <2>1, <2>2 DEF ReadingInv
  <2>4. Reversed(ad2s1210_config_read_two(rx[t])) = Reversed(latched[chip(t)])
    BY <2>3, ReversedBytes
  <2>5. QED
    BY <2>3, <2>4
<1>3. QED
  BY <1>1, <1>2, NextReading, RdcBusInv, PTL DEF Spec
================================================================================
