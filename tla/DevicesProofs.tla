----------------------------- MODULE DevicesProofs -----------------------------
(***************************************************************************)
(* Proofs about the lift task, for every length of lift_queue, about the   *)
(* answer to the HMI, for any axes, samples and bounds, and about the      *)
(* Ethernet driver, for rings of any length: a buffer is in one place,     *)
(* frames leave and are taken in order, whatever the order in which the    *)
(* threads, the interrupt and the DMA take their steps.                    *)
(***************************************************************************)
EXTENDS Emac, Lift, Answer, SetLemmas, Integers, FiniteSetTheorems, SequenceTheorems, TLAPS

(***************************************************************************)
(* The lift.  The argument is one inductive invariant: the types together  *)
(* with PowerInv, which ties the two relays to the place lift_task has     *)
(* reached.                                                                *)
(***************************************************************************)
IInv == TypeOK /\ PowerInv

\* IInv holds after lift_init.
LEMMA InitIInv == lift_init => IInv
<1> SUFFICES ASSUME lift_init PROVE IInv
  OBVIOUS
<1>1. queue \in Seq(lift_type) /\ Len(queue) <= QueueLen
  BY QueueLenAssumption, EmptySeq DEF lift_init
<1>2. type \in lift_type /\ cmd \in lift_type /\ dirRelay \in lift_direction
  BY DEF lift_init, lift_type, lift_direction
<1>3. pc \in {"recv", "delay", "dir", "pwr"} /\ pwrRelay \in BOOLEAN
  BY DEF lift_init
<1>4. PowerInv
  BY DEF lift_init, PowerInv
<1>5. QED
  BY <1>1, <1>2, <1>3, <1>4 DEF IInv, TypeOK

\* A queued command keeps IInv.
LEMMA SendIInv ==
  ASSUME IInv, NEW m \in lift_type, Send(m)
  PROVE  IInv'
<1>1. queue' \in Seq(lift_type) /\ Len(queue') <= QueueLen
  <2>1. queue \in Seq(lift_type)
    BY DEF IInv, TypeOK
  <2>2. Append(queue, m) \in Seq(lift_type) /\ Len(Append(queue, m)) = Len(queue) + 1
    BY <2>1, AppendProperties
  <2>3. Len(queue) \in Nat
    BY <2>1, LenProperties
  <2>4. QED
    BY <2>2, <2>3, QueueLenAssumption DEF Send
<1>2. UNCHANGED <<type, pc, cmd, dirRelay, pwrRelay>>
  BY DEF Send
<1>3. QED
  BY <1>1, <1>2 DEF IInv, TypeOK, PowerInv

\* Taking a command keeps IInv.
LEMMA ReceiveIInv ==
  ASSUME IInv, Receive
  PROVE  IInv'
<1>1. queue' \in Seq(lift_type) /\ Len(queue') <= QueueLen /\ Head(queue) \in lift_type
  <2>1. queue \in Seq(lift_type) /\ queue # <<>> /\ Len(queue) <= QueueLen
    BY DEF IInv, TypeOK, Receive
  <2>2. /\ Head(queue) \in lift_type
        /\ Tail(queue) \in Seq(lift_type)
        /\ Len(Tail(queue)) = Len(queue) - 1
    BY <2>1, HeadTailProperties
  <2>3. Len(queue) \in Nat
    BY <2>1, LenProperties
  <2>4. QED
    BY <2>1, <2>2, <2>3, QueueLenAssumption DEF Receive
<1> USE DEF IInv, TypeOK, PowerInv, lift_type, lift_direction, Receive
<1>2. CASE ReceiveStop
  BY <1>1, <1>2 DEF ReceiveStop, relay_lift_pwr
<1>3. CASE ReceiveReverse
  BY <1>1, <1>3 DEF ReceiveReverse, Reverses, relay_lift_pwr
<1>4. CASE ReceiveMove
  BY <1>1, <1>4 DEF ReceiveMove, Reverses
<1>5. QED
  BY <1>2, <1>3, <1>4

\* IInv is inductive.
LEMMA NextIInv == IInv /\ [Next]_vars => IInv'
<1> SUFFICES ASSUME IInv, [Next]_vars PROVE IInv'
  OBVIOUS
<1>1. CASE \E m \in lift_type : Send(m)
  BY <1>1, SendIInv
<1>2. CASE Receive
  BY <1>2, ReceiveIInv
<1>3. CASE DelayEnds
  BY <1>3 DEF IInv, TypeOK, PowerInv, DelayEnds
<1>4. CASE SetDirection
  BY <1>4 DEF IInv, TypeOK, PowerInv, SetDirection, relay_lift_dir, lift_type, lift_direction
<1>5. CASE SetPower
  BY <1>5 DEF IInv, TypeOK, PowerInv, SetPower, relay_lift_pwr
<1>6. CASE UNCHANGED vars
  BY <1>6 DEF IInv, TypeOK, PowerInv, vars
<1>7. QED
  BY <1>1, <1>2, <1>3, <1>4, <1>5, <1>6 DEF Next, lift_task

\* lift_task keeps its state well typed and its senders never overrun lift_queue.
THEOREM LiftTypeCorrect == Spec => []TypeOK
<1>1. IInv => TypeOK
  BY DEF IInv
<1>2. QED
  BY <1>1, InitIInv, NextIInv, PTL DEF Spec

\* Between two commands the power relay is on exactly when lift.type is a movement, and
\* the direction relay then shows that movement.
THEOREM LiftRelaysMatchType == Spec => []RelaysMatchType
<1>1. IInv => RelaysMatchType
  BY DEF IInv, PowerInv, RelaysMatchType
<1>2. QED
  BY <1>1, InitIInv, NextIInv, PTL DEF Spec

\* No step of lift_task, in any order of commands, switches the direction relay while the
\* lift is powered.
THEOREM LiftNeverSwitchesUnderPower == Spec => NoSwitchUnderPower
<1>1. IInv /\ [Next]_vars => [dirRelay' # dirRelay => ~pwrRelay]_vars
  <2> SUFFICES ASSUME IInv, Next, dirRelay' # dirRelay PROVE ~pwrRelay
    OBVIOUS
  <2>1. SetDirection
    BY DEF Next, lift_task, Send, Receive, ReceiveStop, ReceiveReverse, ReceiveMove,
           DelayEnds, SetPower
  <2>2. QED
    BY <2>1 DEF IInv, PowerInv, SetDirection, relay_lift_dir
<1>2. QED
  BY <1>1, InitIInv, NextIInv, PTL DEF Spec, NoSwitchUnderPower

-------------------------------------------------------------------------------
(***************************************************************************)
(* The lift task implements the hoist, fairness apart: a command is taken  *)
(* in one step that leaves the motor off or on the way it wants, and the   *)
(* two relay writes that follow are a stutter and a start.                 *)
(***************************************************************************)
LEMMA ReceiveCommands ==
  ASSUME IInv, Receive
  PROVE  H!Command(Head(queue)) /\ Head(queue) \in lift_type
<1>1. Head(queue) \in lift_type /\ cmd' = Head(queue)
  <2>1. queue \in Seq(lift_type) /\ queue # <<>>
    BY DEF IInv, TypeOK, Receive
  <2>2. QED
    BY <2>1, HeadTailProperties DEF Receive
<1>2. Motor \in {"OFF", type} /\ (Motor # "OFF" => type # "STOP") /\ type \in lift_type
  BY DEF IInv, TypeOK, PowerInv, Motor
<1>3. CASE ReceiveStop
  BY <1>1, <1>2, <1>3 DEF H!Command, ReceiveStop, relay_lift_pwr, Motor
<1>4. CASE ReceiveReverse
  BY <1>1, <1>2, <1>4 DEF H!Command, ReceiveReverse, Reverses, relay_lift_pwr, Motor
<1>5. CASE ReceiveMove
  <2>1. Motor' = Motor /\ Motor \in {"OFF", Head(queue)}
    BY <1>1, <1>2, <1>5 DEF ReceiveMove, Reverses, lift_type, Motor
  <2>2. QED
    BY <1>1, <2>1 DEF H!Command
<1>6. QED
  BY <1>1, <1>3, <1>4, <1>5 DEF Receive

\* Every step of the lift task, for every length of its queue, is a step of the hoist or
\* changes neither the command in force nor the motor.
THEOREM LiftImplementsHoist == Spec => H!Init /\ [][H!Next]_(H!vars)
<1>1. lift_init => H!Init
  BY DEF lift_init, H!Init, Motor
<1>2. IInv /\ [Next]_vars => [H!Next]_(H!vars)
  <2> SUFFICES ASSUME IInv, [Next]_vars PROVE [H!Next]_(H!vars)
    OBVIOUS
  <2>1. CASE \E m \in lift_type : Send(m)
    BY <2>1 DEF Send, H!vars, Motor
  <2>2. CASE Receive
    BY <2>2, ReceiveCommands DEF H!Next, lift_type
  <2>3. CASE DelayEnds
    BY <2>3 DEF DelayEnds, H!vars, Motor
  <2>4. CASE SetDirection
    BY <2>4 DEF SetDirection, relay_lift_dir, IInv, PowerInv, H!vars, Motor
  <2>5. CASE SetPower
    BY <2>5 DEF SetPower, relay_lift_pwr, IInv, PowerInv, H!Next, H!Start, H!vars, Motor
  <2>6. CASE UNCHANGED vars
    BY <2>6 DEF vars, H!vars, Motor
  <2>7. QED
    BY <2>1, <2>2, <2>3, <2>4, <2>5, <2>6 DEF Next, lift_task
<1>3. QED
  BY <1>1, <1>2, InitIInv, NextIInv, PTL DEF Spec

-------------------------------------------------------------------------------
(***************************************************************************)
(* ON_COND.                                                                *)
(***************************************************************************)

\* No command, pause or late write of the supervisor disturbs what has been told, and an
\* answer that finds the axes there tells it unless the last one has.
THEOREM AnswerInvariant == AnswerSpec => []ToldInv
<1>1. AnswerInit => ToldInv
  <2> SUFFICES ASSUME AnswerInit PROVE ToldInv
    OBVIOUS
  <2>1. ~Told /\ tellings \in {0, 1}
    BY DEF AnswerInit, Told
  <2>2. already_there \in [Axes -> BOOLEAN]
    BY DEF AnswerInit, Each
  <2> QED
    BY <2>1, <2>2, Zenon DEF AnswerInit, ToldInv, ArrivalTold
<1>2. ToldInv /\ [AnswerNext]_answerVars => ToldInv'
  <2> SUFFICES ASSUME ToldInv, [AnswerNext]_answerVars PROVE ToldInv'
    OBVIOUS
  <2> USE DEF ToldInv, ArrivalTold, Told, on_condition
  <2>1. CASE \E S \in SUBSET Axes : Frame(S)
    BY <2>1 DEF Frame, toldVars
  <2>2. CASE EmergencyStop
    BY <2>2 DEF EmergencyStop, toldVars
  <2>3. ASSUME NEW a \in Axes, Command(a) PROVE ToldInv'
    <3>1. ASSUME NEW there \in BOOLEAN, NEW home, NEW sleep, Takes(a, there, home, sleep)
          PROVE  ToldInv'
      <4>1. already_there' = [already_there EXCEPT ![a] = there]
        BY <3>1 DEF Takes
      <4>2. already_there' \in [Axes -> BOOLEAN]
        BY <4>1
      <4>3. tellings' = 0 /\ away' = FALSE /\ on_condition_old' = on_condition_old
        BY <3>1 DEF Takes
      <4>4. ~Told' /\ tellings' \in {0, 1}
        BY <4>3
      <4> QED
        BY <4>2, <4>3, <4>4, Zenon
    <3>2. \E there \in BOOLEAN : \E home, sleep : Takes(a, there, home, sleep)
      BY <2>3 DEF Command
    <3> QED
      BY <3>1, <3>2
  <2>4. ASSUME NEW a \in Axes, NEW home \in BOOLEAN, DelayEnd(a, home) PROVE ToldInv'
    BY <2>4 DEF DelayEnd, toldVars
  <2>5. ASSUME NEW a \in Axes, Reaches(a) PROVE ToldInv'
    BY <2>5 DEF Reaches, toldVars
  <2>6. ASSUME NEW a \in Axes, Arrives(a) PROVE ToldInv'
    BY <2>6 DEF Arrives, toldVars
  <2>7. CASE NetValuesToSendFromRTU
    <3>1. already_there' = already_there
      BY <2>7 DEF NetValuesToSendFromRTU, axisVars
    <3>2. OnCondition
      BY <2>7 DEF NetValuesToSendFromRTU
    <3> QED
      BY <3>1, <3>2 DEF OnCondition
  <2>8. CASE UNCHANGED answerVars
    BY <2>8 DEF answerVars, axisVars, toldVars
  <2> QED
    BY <2>1, <2>2, <2>3, <2>4, <2>5, <2>6, <2>7, <2>8 DEF AnswerNext
<1> QED
  BY <1>1, <1>2, PTL DEF AnswerSpec

\* An arrival is told exactly once, whatever the axes, their commands and their pauses.
THEOREM AnswerArrivalTold == AnswerSpec => []ArrivalTold
<1>1. ToldInv => ArrivalTold
  BY DEF ToldInv
<1> QED
  BY <1>1, AnswerInvariant, PTL

-------------------------------------------------------------------------------
(***************************************************************************)
(* The temperature.                                                        *)
(***************************************************************************)

\* The sum of the samples at the places of S, and of those before place k.
SumAt(f, S) == FoldFunctionOnSet(+, 0, f, S)
SumBefore(f, k) == SumAt(f, 0 .. k - 1)

LEMMA FoldWeighs ==
  ASSUME NEW S, IsFiniteSet(S), NEW f
  PROVE  \E g : Weighs(g, f, S) /\ g[S] = SumAt(f, S)
<1> DEFINE iter == CHOOSE g : Weighs(g, f, S)
<1>1. SumAt(f, S) = iter[S]
  BY DEF SumAt, FoldFunctionOnSet, MapThenFoldSet, First, Weighs
<1>2. Weighs(iter, f, S)
  BY SumsExist
<1>3. QED
  BY <1>1, <1>2

\* Nothing before the first place.
LEMMA SumNone == ASSUME NEW f PROVE SumBefore(f, 0) = 0
<1>1. 0 .. 0 - 1 = {}
  OBVIOUS
<1>2. PICK g : Weighs(g, f, {}) /\ g[{}] = SumAt(f, {})
  BY FoldWeighs, FS_EmptySet
<1>3. QED
  BY <1>1, <1>2 DEF Weighs, SumBefore

\* What the next sample adds, whatever lies in the ring behind it.
LEMMA SumNext ==
  ASSUME NEW k \in Nat, NEW f, NEW e, \A i \in 0 .. k : f[i] \in Nat,
         \A i \in 0 .. k - 1 : e[i] = f[i]
  PROVE  SumBefore(f, k + 1) = SumBefore(e, k) + f[k] /\ SumBefore(e, k) \in Int
<1> DEFINE S == 0 .. k - 1
<1>1. /\ IsFiniteSet(S) /\ k \notin S /\ S \cup {k} = 0 .. k /\ 0 .. (k + 1) - 1 = 0 .. k
      /\ IsFiniteSet(S \cup {k})
  <2>1. IsFiniteSet(S)
    BY FS_Interval
  <2>2. k \notin S /\ S \cup {k} = 0 .. k /\ 0 .. (k + 1) - 1 = 0 .. k
    OBVIOUS
  <2> HIDE DEF S
  <2>3. IsFiniteSet(S \cup {k})
    BY <2>1, FS_AddElement
  <2>4. QED
    BY <2>1, <2>2, <2>3
<1>2. PICK g : Weighs(g, e, S) /\ g[S] = SumAt(e, S)
  BY <1>1, FoldWeighs
<1>3. PICK h : Weighs(h, f, S \cup {k}) /\ h[S \cup {k}] = SumAt(f, S \cup {k})
  BY <1>1, FoldWeighs
<1>4. (\A x \in S \cup {k} : f[x] \in Int) /\ \A x \in S : e[x] = f[x]
  BY <1>1
<1> HIDE DEF S
<1>5. h[S \cup {k}] = f[k] + g[S] /\ g[S] \in Int
  <2>1. IsFiniteSet(S) /\ k \notin S
    BY <1>1
  <2>2. Weighs(h, f, S \cup {k}) /\ Weighs(g, e, S)
    BY <1>2, <1>3
  <2>3. QED
    BY <1>4, <2>1, <2>2, SumAdds
<1>6. f[k] \in Int
  BY <1>1, <1>4
<1>7. QED
  <2>1. SumAt(f, S \cup {k}) = SumAt(e, S) + f[k] /\ SumAt(e, S) \in Int
    BY <1>2, <1>3, <1>5, <1>6
  <2>2. SumBefore(f, k + 1) = SumAt(f, S \cup {k})
    BY <1>1 DEF SumBefore
  <2>3. QED
    BY <2>1, <2>2 DEF SumBefore, S

\* The samples since the last complete set lie before the place of the next one.
SamplesInv ==
    /\ aTemperature \in [0 .. TEMPERATURE_COUNT - 1 -> Nat]
    /\ index \in 0 .. TEMPERATURE_COUNT - 1
    /\ partial = SumBefore(aTemperature, index) /\ partial \in Nat
    /\ TemperatureTrue

LEMMA ReadSamples ==
  ASSUME SamplesInv, NEW sample \in Samples, temperature_read(sample)
  PROVE  SamplesInv'
<1> DEFINE N == TEMPERATURE_COUNT
           samples == [aTemperature EXCEPT ![index] = sample]
<1>1. N \in Nat \ {0} /\ SumModulus \in Nat \ {0} /\ sample \in Nat
  BY AnswerAssumption
<1>2. /\ index \in 0 .. N - 1 /\ index \in Nat /\ partial \in Nat
      /\ samples \in [0 .. N - 1 -> Nat] /\ aTemperature' = samples
      /\ samples[index] = sample /\ \A i \in 0 .. index - 1 : aTemperature[i] = samples[i]
      /\ \A i \in 0 .. index : samples[i] \in Nat
  BY <1>1 DEF SamplesInv, temperature_read
<1> HIDE DEF samples
<1>3. SumBefore(samples, index + 1) = partial + sample
  BY <1>2, SumNext DEF SamplesInv
<1>4. CASE index + 1 = N
  <2>1. index' = 0 /\ partial' = 0 /\ exact' = partial + sample
    BY <1>4 DEF temperature_read
  <2>2. temperature' = Sum(samples) \div N
    BY <1>4 DEF temperature_read, samples
  <2>3. FoldFunction(+, 0, samples) = partial + sample
    <3>1. DOMAIN samples = 0 .. N - 1 /\ N - 1 = (index + 1) - 1
      BY <1>2, <1>4
    <3>2. QED
      BY <1>3, <3>1 DEF FoldFunction, SumBefore, SumAt
  <2>4. exact' < SumModulus => temperature' = exact' \div N
    <3>1. Sum(samples) = (partial + sample) % SumModulus
      BY <2>3 DEF Sum
    <3>2. partial + sample < SumModulus => Sum(samples) = partial + sample
      BY <1>1, <1>2, <3>1
    <3>3. QED
      BY <2>1, <2>2, <3>2
  <2>5. SumBefore(aTemperature', 0) = 0
    BY SumNone
  <2>6. QED
    BY <1>1, <1>2, <2>1, <2>4, <2>5 DEF SamplesInv, TemperatureTrue
<1>5. CASE index + 1 # N
  <2>1. /\ index' = index + 1 /\ partial' = partial + sample
        /\ exact' = exact /\ temperature' = temperature
    BY <1>5 DEF temperature_read
  <2>2. index' \in 0 .. N - 1 /\ partial' \in Nat
    BY <1>1, <1>2, <1>5, <2>1
  <2>3. partial' = SumBefore(aTemperature', index')
    BY <1>2, <1>3, <2>1
  <2>4. QED
    BY <1>2, <2>1, <2>2, <2>3 DEF SamplesInv, TemperatureTrue
<1>6. QED
  BY <1>4, <1>5

\* For any number of samples and width of the sum: the temperature is the average of the last
\* complete set of samples, as long as their sum fits.
THEOREM AnswerTemperatureTrue == AnswerSpec => []TemperatureTrue
<1>1. AnswerInit => SamplesInv
  <2> SUFFICES ASSUME AnswerInit PROVE SamplesInv
    OBVIOUS
  <2>1. SumBefore(aTemperature, 0) = 0
    BY SumNone
  <2>2. TEMPERATURE_COUNT \in Nat \ {0} /\ 0 \div TEMPERATURE_COUNT = 0
    BY AnswerAssumption
  <2>3. QED
    BY <2>1, <2>2 DEF AnswerInit, SamplesInv, TemperatureTrue
<1>2. SamplesInv /\ [AnswerNext]_answerVars => SamplesInv'
  <2> SUFFICES ASSUME SamplesInv, [AnswerNext]_answerVars PROVE SamplesInv'
    OBVIOUS
  <2>1. ASSUME UNCHANGED temperatureVars PROVE SamplesInv'
    BY <2>1 DEF temperatureVars, SamplesInv, TemperatureTrue
  <2>2. CASE UNCHANGED answerVars
    BY <2>1, <2>2 DEF answerVars
  <2>3. CASE \E S \in SUBSET Axes : Frame(S)
    BY <2>1, <2>3 DEF Frame
  <2>4. CASE EmergencyStop
    BY <2>1, <2>4 DEF EmergencyStop
  <2>5. ASSUME NEW a \in Axes, Command(a) PROVE SamplesInv'
    BY <2>1, <2>5 DEF Command, Takes
  <2>6. ASSUME NEW a \in Axes, NEW home \in BOOLEAN, DelayEnd(a, home) PROVE SamplesInv'
    BY <2>1, <2>6 DEF DelayEnd
  <2>7. ASSUME NEW a \in Axes, Reaches(a) \/ Arrives(a) PROVE SamplesInv'
    BY <2>1, <2>7 DEF Reaches, Arrives
  <2>8. CASE NetValuesToSendFromRTU
    BY <2>8, ReadSamples DEF NetValuesToSendFromRTU
  <2>9. QED
    BY <2>2, <2>3, <2>4, <2>5, <2>6, <2>7, <2>8 DEF AnswerNext
<1>3. SamplesInv => TemperatureTrue
  BY DEF SamplesInv
<1>4. QED
  BY <1>1, <1>2, <1>3, PTL DEF AnswerSpec

(***************************************************************************)
(* The rings of the Ethernet driver.                                       *)
(***************************************************************************)

\* The index after i.
LEMMA RingNext ==
  ASSUME NEW n \in Nat \ {0}, NEW i \in 0 .. n - 1
  PROVE  (i + 1) % n = IF i = n - 1 THEN 0 ELSE i + 1
OBVIOUS

\* Places and distances are inverse to each other.
LEMMA PlaceAhead ==
  ASSUME NEW n \in Nat \ {0}, NEW s \in 0 .. n - 1, NEW k \in 0 .. n - 1
  PROVE  Place(s, k, n) \in 0 .. n - 1 /\ Ahead(Place(s, k, n), s, n) = k
BY DEF Place, Ahead

LEMMA AheadPlace ==
  ASSUME NEW n \in Nat \ {0}, NEW s \in 0 .. n - 1, NEW i \in 0 .. n - 1
  PROVE  Ahead(i, s, n) \in 0 .. n - 1 /\ Place(s, Ahead(i, s, n), n) = i
BY DEF Place, Ahead

LEMMA PlaceEnds ==
  ASSUME NEW n \in Nat \ {0}, NEW s \in 0 .. n - 1
  PROVE  Place(s, 0, n) = s /\ Place(s, n, n) = s /\ Ahead(s, s, n) = 0
BY DEF Place, Ahead

LEMMA PlaceNext ==
  ASSUME NEW n \in Nat \ {0}, NEW s \in 0 .. n - 1, NEW k \in 0 .. n - 1
  PROVE  (Place(s, k, n) + 1) % n = Place(s, k + 1, n)
<1>1. Place(s, k, n) \in 0 .. n - 1
  BY DEF Place
<1>2. (Place(s, k, n) + 1) % n = IF Place(s, k, n) = n - 1 THEN 0 ELSE Place(s, k, n) + 1
  BY <1>1, RingNext
<1>3. QED
  BY <1>2 DEF Place

\* The ring seen from the place after s.
LEMMA NextPlace ==
  ASSUME NEW n \in Nat \ {0}, NEW s \in 0 .. n - 1
  PROVE  /\ (s + 1) % n \in 0 .. n - 1
         /\ \A k \in 0 .. n - 1 : Place((s + 1) % n, k, n) = Place(s, k + 1, n)
         /\ \A i \in 0 .. n - 1 : Ahead(i, (s + 1) % n, n) =
                IF i = s THEN n - 1 ELSE Ahead(i, s, n) - 1
<1>1. (s + 1) % n = IF s = n - 1 THEN 0 ELSE s + 1
  BY RingNext
<1>2. QED
  BY <1>1 DEF Place, Ahead

(***************************************************************************)
(* The two rings of the driver.                                            *)
(***************************************************************************)
NTx == LPC_NUM_BUFF_TXDESCS
NRx == LPC_NUM_BUFF_RXDESCS

LEMMA Sizes ==
  /\ NTx \in Nat \ {0} /\ NRx \in Nat \ {0} /\ NTx # 1
  /\ TxIndex = 0 .. NTx - 1 /\ RxIndex = 0 .. NRx - 1
BY EmacAssumption DEF NTx, NRx, TxIndex, RxIndex

LEMMA TxAheadType ==
  ASSUME TxTypeOK, NEW i \in TxIndex
  PROVE  TxAhead(i) \in 0 .. NTx - 1 /\ Place(tx_reclaim_idx, TxAhead(i), NTx) = i
BY Sizes, AheadPlace DEF TxAhead, NTx, TxTypeOK

LEMMA TxPlace ==
  ASSUME TxTypeOK, NEW k \in 0 .. NTx - 1
  PROVE  LET i == Place(tx_reclaim_idx, k, NTx)
         IN  /\ i \in TxIndex /\ TxAhead(i) = k
             /\ TxNext(i) = Place(tx_reclaim_idx, k + 1, NTx) /\ TxNext(i) \in TxIndex
<1> DEFINE i == Place(tx_reclaim_idx, k, NTx)
<1>1. i \in TxIndex /\ TxAhead(i) = k
  BY Sizes, PlaceAhead DEF TxAhead, NTx, TxTypeOK
<1>2. TxNext(i) = Place(tx_reclaim_idx, k + 1, NTx)
  BY Sizes, PlaceNext DEF TxNext, NTx, TxTypeOK
<1>3. TxNext(i) \in TxIndex
  BY <1>1, Sizes, NextPlace DEF TxNext, NTx
<1>4. QED
  BY <1>1, <1>2, <1>3

\* The frame being output, and how much of it is where.
LEMMA OutputType ==
  ASSUME ThreadInv, TxTypeOK
  PROVE  /\ Filled \in Nat /\ Coming \in Nat
         /\ Filling => /\ output.p \in TxPbufs /\ dn \in 1 .. NTx
                       /\ Filled = output.done /\ Coming = dn - output.done
         /\ ~Filling => Filled = 0 /\ Coming = 0
         /\ TxUsed \in 0 .. NTx
<1>1. Filling => output.p \in TxPbufs /\ dn \in 1 .. NTx /\ output.done <= dn
  BY EmacAssumption DEF Filling, ThreadInv, dn, NTx
<1>2. output.done \in Nat
  BY DEF TxTypeOK
<1>3. TxUsed \in 0 .. NTx
  BY Sizes DEF TxUsed, TxTypeOK, NTx
<1>4. QED
  BY <1>1, <1>2, <1>3 DEF Filled, Coming

\* How many fragments are due.
LEMMA DueLength ==
  ASSUME ThreadInv, TxTypeOK, TxIndexInv
  PROVE  /\ Len(due) \in Nat /\ Len(due) = TxUsed - TxSent + Coming
         /\ TxSent \in Nat /\ TxSent <= TxUsed - Filled /\ TxSent <= TxUsed
<1>1. Len(due) \in Nat
  BY LenProperties DEF TxTypeOK
<1>2. QED
  BY <1>1, OutputType DEF TxSent, TxIndexInv

\* The steps that touch neither the ring nor the frame being filled in.
LEMMA TxSame ==
  ASSUME TxInv, RefInv, UNCHANGED <<ptdesc, txpbufs, tx_free_descs, tx_fill_idx, tx_reclaim_idx,
                                    ref, due>>,
         txDma'.idx = txDma.idx, TxTypeOK', Filling' <=> Filling, Filling => UNCHANGED output
  PROVE  TxInv' /\ RefInv'
<1>1. Filled' = Filled /\ Coming' = Coming /\ TxUsed' = TxUsed /\ TxSent' = TxSent
  BY DEF Filled, Coming, TxUsed, TxSent, dn
<1>2. \A i \in TxIndex : TxAhead(i)' = TxAhead(i)
  BY DEF TxAhead
<1>3. TxIndexInv'
  BY <1>1 DEF TxInv, TxIndexInv, Coming
<1>4. \A i \in TxIndex : Saves(i)' = Saves(i)
  BY <1>1, <1>2 DEF Saves, dn
<1>5. \A i \in TxIndex : TxDescInv(i)' = TxDescInv(i)
  BY <1>1, <1>2, <1>4 DEF TxDescInv
<1>6. RefInv'
  BY <1>1 DEF RefInv, References, dn, Filled
<1>7. QED
  BY <1>1, <1>2, <1>3, <1>5, <1>6 DEF TxInv

\* The parts of a concatenation.
LEMMA ConcatParts ==
  ASSUME NEW T, NEW s1 \in Seq(T), NEW s2 \in Seq(T)
  PROVE  /\ s1 \o s2 \in Seq(T) /\ Len(s1 \o s2) = Len(s1) + Len(s2)
         /\ \A k \in 1 .. Len(s1) : (s1 \o s2)[k] = s1[k]
         /\ \A k \in 1 .. Len(s2) : (s1 \o s2)[Len(s1) + k] = s2[k]
<1>1. Len(s1) \in Nat /\ Len(s2) \in Nat
  BY LenProperties
<1>2. QED
  BY <1>1, ConcatProperties

(***************************************************************************)
(* Transmission.                                                           *)
(***************************************************************************)

\* A new output changes nothing yet.
LEMMA OutputTx ==
  ASSUME ThreadInv, TxInv, RefInv, NEW p \in TxPbufs, Output(p)
  PROVE  TxInv' /\ RefInv'
<1>1. /\ UNCHANGED <<ptdesc, txpbufs, tx_free_descs, tx_fill_idx, tx_reclaim_idx, ref, due, txDma>>
      /\ output' = [p |-> p, done |-> 0, idx |-> tx_fill_idx]
      /\ at["tcpip"] = "work" /\ at'["tcpip"] = "wait"
  BY DEF Output, Goes, ThreadInv, Threads
<1>2. TxTypeOK'
  BY <1>1 DEF TxInv, TxTypeOK
<1>3. ~Filling /\ ~Filling'
  BY <1>1 DEF Filling
<1>4. QED
  BY <1>1, <1>2, <1>3, TxSame

\* The mutex is taken: the fragments of the frame are due.
LEMMA LockTx ==
  ASSUME ThreadInv, TxInv, RefInv, LockForOutput
  PROVE  TxInv' /\ RefInv'
<1> DEFINE new == [k \in 1 .. dn |-> <<output.p, k>>]
<1>1. /\ UNCHANGED <<ptdesc, txpbufs, tx_free_descs, tx_fill_idx, tx_reclaim_idx, output, ref,
                     txDma>>
      /\ due' = due \o new
      /\ at["tcpip"] = "lock" /\ at'["tcpip"] = "fill"
  BY DEF LockForOutput, TakesLock, Goes, ThreadInv, Threads
<1>2. output.p \in TxPbufs /\ dn \in 1 .. NTx /\ output.done = 0
      /\ output.idx = tx_fill_idx
  BY <1>1, EmacAssumption DEF ThreadInv, dn, NTx
<1>3. ~Filling /\ Filling' /\ Filled = 0 /\ Coming = 0
  BY <1>1 DEF Filling, Filled, Coming
<1>4. Filled' = 0 /\ Coming' = dn
  BY <1>1, <1>2, <1>3 DEF Filled, Coming, dn
<1>5. new \in Seq(Fragment) /\ Len(new) = dn
  <2>1. \A k \in 1 .. dn : <<output.p, k>> \in Fragment
    BY <1>2 DEF Fragment
  <2>2. new \in [1 .. dn -> Fragment]
    BY <2>1
  <2>3. dn \in Nat
    BY <1>2, Sizes
  <2>4. QED
    BY <2>2, <2>3, SeqDef, LenProperties
<1>6. due \in Seq(Fragment)
  BY DEF TxInv, TxTypeOK
<1> HIDE DEF new
<1>7. /\ due' \in Seq(Fragment) /\ Len(due') = Len(due) + dn
      /\ \A k \in 1 .. Len(due) : due'[k] = due[k]
      /\ \A k \in 1 .. dn : due'[Len(due) + k] = new[k]
  <2>1. due \o new \in Seq(Fragment) /\ Len(due \o new) = Len(due) + Len(new)
    BY <1>5, <1>6, ConcatParts
  <2>2. \A k \in 1 .. Len(due) : (due \o new)[k] = due[k]
    BY <1>5, <1>6, ConcatParts
  <2>3. \A k \in 1 .. Len(new) : (due \o new)[Len(due) + k] = new[k]
    BY <1>5, <1>6, ConcatParts
  <2>4. QED
    BY <1>1, <1>5, <2>1, <2>2, <2>3, Zenon
<1>8. TxUsed' = TxUsed /\ TxSent' = TxSent /\ Len(due) = TxUsed - TxSent /\ TxUsed \in 0 .. NTx
      /\ Len(due) \in Nat /\ TxSent \in Nat /\ TxSent <= TxUsed
  <2>1. TxUsed' = TxUsed /\ TxUsed \in 0 .. NTx
    BY <1>1, OutputType DEF TxUsed, TxInv
  <2>2. Len(due) \in Nat /\ Len(due) = TxUsed - TxSent /\ TxSent \in Nat /\ TxSent <= TxUsed
    BY <1>3, <2>1, DueLength, Sizes DEF TxInv
  <2>3. TxSent' = TxSent
    BY <1>2, <1>3, <1>4, <1>7, <2>1, <2>2, Sizes DEF TxSent
  <2>4. QED
    BY <2>1, <2>2, <2>3
<1>9. TxTypeOK'
  BY <1>1, <1>7 DEF TxInv, TxTypeOK
<1>10. \A i \in TxIndex : TxAhead(i)' = TxAhead(i)
  BY <1>1 DEF TxAhead
<1>11. TxIndexInv'
  <2>1. TxIndexInv
    BY DEF TxInv
  <2>2. /\ TxSent \in 0 .. TxUsed
        /\ txDma.idx = Place(tx_reclaim_idx, TxSent, LPC_NUM_BUFF_TXDESCS)
        /\ tx_fill_idx = Place(tx_reclaim_idx, TxUsed, LPC_NUM_BUFF_TXDESCS)
    BY <2>1, <1>3, <1>8, Sizes DEF TxIndexInv
  <2>3. \A m \in 1 .. dn : due'[TxUsed - TxSent + m] = <<output.p, output.done + m>>
    <3>1. TAKE m \in 1 .. dn
    <3>2. due'[Len(due) + m] = new[m]
      BY <1>7
    <3>3. new[m] = <<output.p, m>>
      BY DEF new
    <3>4. 0 + m = m
      BY <1>2
    <3>5. QED
      BY <3>2, <3>3, <3>4, <1>2, <1>8
  <2>4. TxUsed' - Filled' = TxUsed
    BY <1>4, <1>8, Sizes
  <2>5. ~(Filled' > 0) /\ Filled' <= TxUsed'
    BY <1>4, <1>8, Sizes
  <2>6. QED
    BY <1>1, <1>2, <1>4, <1>8, <2>2, <2>3, <2>4, <2>5 DEF TxIndexInv
<1>12. ASSUME NEW i \in TxIndex, TxAhead(i) < TxUsed PROVE TxDescInv(i)'
  <2>1. TxDescInv(i)
    BY <1>12 DEF TxInv
  <2>2. Saves(i)'
    BY <2>1, <1>1, <1>3, <1>8, <1>10 DEF TxDescInv, Saves
  <2>3. TxAhead(i) >= TxSent => due'[TxAhead(i) - TxSent + 1] = due[TxAhead(i) - TxSent + 1]
    <3>1. TxAhead(i) \in Nat
      BY TxAheadType, Sizes DEF TxInv
    <3>2. TxAhead(i) >= TxSent => TxAhead(i) - TxSent + 1 \in 1 .. Len(due)
      BY <3>1, <1>8, <1>12
    <3>3. QED
      BY <3>2, <1>7
  <2>4. QED
    BY <2>1, <2>2, <2>3, <1>1, <1>3, <1>4, <1>8, <1>10 DEF TxDescInv
<1>13. RefInv'
  BY <1>1, <1>3, <1>4 DEF RefInv, References
<1>14. QED
  BY <1>1, <1>8, <1>9, <1>10, <1>11, <1>12, <1>13 DEF TxInv

\* What the filling of a descriptor finds and does.
LEMMA FillFacts ==
  ASSUME ThreadInv, TxInv, Fill
  PROVE  /\ Filling /\ Filling' /\ output.p \in TxPbufs /\ dn' = dn /\ dn \in 1 .. NTx
         /\ output.done \in Nat /\ output.done < dn
         /\ output' = [output EXCEPT !.done = output.done + 1, !.idx = TxNext(output.idx)]
         /\ output'.done = output.done + 1 /\ output'.p = output.p
         /\ output'.idx = Place(tx_reclaim_idx, TxUsed + 1, NTx) /\ output'.idx \in TxIndex
         /\ output.idx \in TxIndex /\ TxAhead(output.idx) = TxUsed
         /\ TxUsed \in 0 .. NTx - 1 /\ TxUsed' = TxUsed + 1
         /\ Filled = output.done /\ Filled' = output.done + 1
         /\ Coming = dn - output.done /\ Coming' = dn - output.done - 1
         /\ TxSent' = TxSent /\ TxSent \in Nat /\ TxSent <= TxUsed - output.done
         /\ tx_free_descs' = tx_free_descs - 1
         /\ UNCHANGED <<at, tx_fill_idx, tx_reclaim_idx, txDma, due>>
<1>1. at["tcpip"] = "fill" /\ output.done < dn
  BY DEF Fill
<1>2. output' = [output EXCEPT !.done = output.done + 1, !.idx = TxNext(output.idx)]
  BY DEF Fill
<1>3. tx_free_descs' = tx_free_descs - 1
  BY DEF Fill
<1>4. UNCHANGED <<at, tx_fill_idx, tx_reclaim_idx, txDma, due>>
  BY DEF Fill
<1>5. Filling /\ Filling'
  BY <1>1, <1>4 DEF Filling
<1>6. output \in [p : TxPbufs \cup {NULL}, done : Nat, idx : TxIndex]
  BY DEF TxInv, TxTypeOK
<1>7. output'.done = output.done + 1 /\ output'.p = output.p
      /\ output'.idx = TxNext(output.idx)
  BY <1>2, <1>6
<1>8. output.done \in Nat /\ tx_free_descs \in Nat /\ tx_free_descs <= NTx
  BY <1>6, Sizes DEF TxInv, TxTypeOK, NTx
<1>9. output.p \in TxPbufs /\ dn \in 1 .. NTx /\ Filled = output.done /\ Coming = dn - output.done
  BY <1>5, OutputType DEF TxInv
<1>10. dn' = dn
  BY <1>7 DEF dn
<1>11. dn - output.done <= tx_free_descs
  BY <1>5 DEF ThreadInv
<1>12. dn \in Nat
  BY <1>9, Sizes
<1>13. TxUsed \in 0 .. NTx - 1
  <2>1. TxUsed = NTx - tx_free_descs
    BY DEF TxUsed, NTx
  <2>2. QED
    BY <1>1, <1>8, <1>11, <1>12, <2>1, Sizes
<1>14. TxUsed' = TxUsed + 1
  <2>1. TxUsed = NTx - tx_free_descs /\ TxUsed' = NTx - tx_free_descs'
    BY DEF TxUsed, NTx
  <2>2. QED
    BY <1>3, <1>8, <2>1, Sizes
<1>15. Filled' = output.done + 1 /\ Coming' = dn - output.done - 1
  <2>1. Filled' = output'.done /\ Coming' = dn' - output'.done
    BY <1>5 DEF Filled, Coming
  <2>2. QED
    BY <2>1, <1>7, <1>8, <1>10, <1>12
<1>16. Len(due) \in Nat /\ TxSent \in Nat /\ TxSent <= TxUsed - output.done
  BY <1>9, DueLength DEF TxInv
<1>17. TxSent' = TxSent
  <2>1. TxSent = TxUsed + Coming - Len(due) /\ TxSent' = TxUsed' + Coming' - Len(due)
    BY <1>4 DEF TxSent
  <2>2. TxUsed \in Int
    BY <1>13, Sizes
  <2>3. Coming \in Int /\ Coming' = Coming - 1
    BY <1>8, <1>9, <1>12, <1>15
  <2>4. Len(due) \in Int
    BY <1>16
  <2>5. QED
    BY <1>14, <2>1, <2>2, <2>3, <2>4
<1>18. output.idx = Place(tx_reclaim_idx, TxUsed, NTx)
  BY <1>5 DEF TxInv, TxIndexInv, NTx
<1>19. /\ output.idx \in TxIndex /\ TxAhead(output.idx) = TxUsed
       /\ TxNext(output.idx) = Place(tx_reclaim_idx, TxUsed + 1, NTx)
       /\ TxNext(output.idx) \in TxIndex
  BY <1>13, <1>18, TxPlace DEF TxInv
<1>20. QED
  BY <1>1, <1>2, <1>3, <1>4, <1>5, <1>7, <1>8, <1>9, <1>10, <1>13, <1>14, <1>15, <1>16, <1>17, <1>19,
     Zenon

\* The descriptor that is filled in.
LEMMA FillDescriptor ==
  ASSUME ThreadInv, TxInv, Fill
  PROVE  LET idx == output.idx
             first == output.done = 0
             last == output.done + 1 = dn
         IN  /\ ptdesc' = [ptdesc EXCEPT ![idx] = [flags |-> FlagsOf(first, last),
                                                  B1ADD |-> <<output.p, output.done + 1>>]]
             /\ txpbufs' = [txpbufs EXCEPT ![idx] = IF last THEN output.p ELSE NULL]
             /\ txpbufs[idx] = NULL
             /\ ref' = IF first THEN [ref EXCEPT ![output.p] = @ + 1] ELSE ref
<1> DEFINE idx == output.idx
           first == output.done = 0
           last == output.done + 1 = dn
<1>1. ptdesc[idx].flags = {} /\ txpbufs[idx] = NULL
  <2>1. idx \in TxIndex /\ TxAhead(idx) = TxUsed
    BY FillFacts, Zenon
  <2>2. TxUsed \in Nat
    <3>1. TxUsed \in 0 .. NTx - 1
      BY FillFacts, Zenon
    <3>2. QED
      BY <3>1, Sizes
  <2>3. TxAhead(idx) >= TxUsed
    BY <2>1, <2>2
  <2>4. QED
    BY <2>1, <2>3, Zenon DEF TxInv
<1>2. ptdesc[idx].flags \cup FlagsOf(first, last) = FlagsOf(first, last)
  BY <1>1
<1>3. ptdesc' = [ptdesc EXCEPT ![idx] = [flags |-> ptdesc[idx].flags \cup FlagsOf(first, last),
                                        B1ADD |-> <<output.p, output.done + 1>>]]
      /\ txpbufs' = [txpbufs EXCEPT ![idx] = Saved(first, last)]
      /\ ref' = IF first THEN [ref EXCEPT ![output.p] = @ + 1] ELSE ref
  BY DEF Fill
<1>4. QED
  BY <1>1, <1>2, <1>3 DEF Saved

LEMMA FillTx ==
  ASSUME ThreadInv, TxInv, Fill
  PROVE  TxInv'
<1> DEFINE first == output.done = 0
           last == output.done + 1 = dn
           desc == [flags |-> FlagsOf(first, last), B1ADD |-> <<output.p, output.done + 1>>]
<1>1. PICK e \in TxIndex : e = output.idx
  BY FillFacts
<1>2. TxAhead(e) = TxUsed
  BY <1>1, FillFacts
<1>3. Filling /\ Filling' /\ output.p \in TxPbufs /\ dn' = dn /\ output'.done = output.done + 1
      /\ output'.p = output.p
  BY FillFacts
<1>4. UNCHANGED <<at, tx_fill_idx, tx_reclaim_idx, txDma, due>>
  BY FillFacts
<1>5. /\ TxUsed \in Nat /\ TxUsed < NTx /\ output.done \in Nat /\ dn \in Nat /\ output.done < dn
      /\ TxSent \in Nat /\ TxSent <= TxUsed - output.done
  BY FillFacts, Sizes
<1>6. TxUsed' = TxUsed + 1
  BY FillFacts
<1>7. Filled = output.done /\ Filled' = output.done + 1
  BY FillFacts
<1>8. Coming = dn - output.done /\ Coming' = dn - output.done - 1
  BY FillFacts
<1>9. TxSent' = TxSent
  BY FillFacts
<1>10. TxUsed' - Filled' = TxUsed - output.done /\ Filled' > 0 /\ Filled' \in Nat
  BY <1>5, <1>6, <1>7
<1>11. /\ ptdesc' = [ptdesc EXCEPT ![e] = desc]
       /\ txpbufs' = [txpbufs EXCEPT ![e] = IF last THEN output.p ELSE NULL]
       /\ txpbufs[e] = NULL
  BY <1>1, FillDescriptor
<1>12. ptdesc \in [TxIndex -> [flags : SUBSET Flag, B1ADD : (TxPbufs \cup {NULL}) \X Nat]]
       /\ txpbufs \in [TxIndex -> TxPbufs \cup {NULL}]
  BY DEF TxInv, TxTypeOK
<1>13. /\ "FS" \in desc.flags <=> first
       /\ "LS" \in desc.flags <=> last
       /\ "OWN" \in desc.flags <=> ~first
  BY DEF FlagsOf
<1>14. desc.B1ADD = <<output.p, output.done + 1>>
       /\ desc.B1ADD[1] = output.p /\ desc.B1ADD[2] = output.done + 1
  OBVIOUS
<1>15. desc \in [flags : SUBSET Flag, B1ADD : (TxPbufs \cup {NULL}) \X Nat]
  BY <1>3, <1>5 DEF FlagsOf, Flag
<1> HIDE DEF desc
<1>16. ptdesc'[e] = desc /\ \A i \in TxIndex : i # e => ptdesc'[i] = ptdesc[i]
  BY <1>11, <1>12
<1>17. txpbufs'[e] = (IF last THEN output.p ELSE NULL)
       /\ \A i \in TxIndex : i # e => txpbufs'[i] = txpbufs[i]
  BY <1>11, <1>12
<1>18. \A i \in TxIndex : TxAhead(i)' = TxAhead(i)
  BY <1>4 DEF TxAhead
<1>19. ASSUME NEW i \in TxIndex PROVE TxAhead(i) \in Nat /\ (TxAhead(i) = TxUsed => i = e)
  <2>1. TxAhead(i) \in 0 .. NTx - 1 /\ Place(tx_reclaim_idx, TxAhead(i), NTx) = i
    BY TxAheadType DEF TxInv
  <2>2. Place(tx_reclaim_idx, TxAhead(e), NTx) = e
    BY TxAheadType DEF TxInv
  <2>3. TxAhead(i) = TxUsed => i = e
    BY <2>1, <2>2, <1>2
  <2>4. QED
    BY <2>1, <2>3, Sizes
<1>20. TxTypeOK'
  <2>1. tx_free_descs' \in 0 .. LPC_NUM_BUFF_TXDESCS
    <3>1. tx_free_descs' = tx_free_descs - 1 /\ TxUsed = NTx - tx_free_descs
      BY FillFacts DEF TxUsed, NTx
    <3>2. tx_free_descs \in 0 .. NTx
      BY DEF TxInv, TxTypeOK, NTx
    <3>3. QED
      BY <3>1, <3>2, <1>5, Sizes DEF NTx
  <2>2. ptdesc' \in [TxIndex -> [flags : SUBSET Flag, B1ADD : (TxPbufs \cup {NULL}) \X Nat]]
        /\ txpbufs' \in [TxIndex -> TxPbufs \cup {NULL}]
    BY <1>11, <1>12, <1>15, <1>3
  <2>3. output' \in [p : TxPbufs \cup {NULL}, done : Nat, idx : TxIndex]
    <3>1. output \in [p : TxPbufs \cup {NULL}, done : Nat, idx : TxIndex]
      BY DEF TxInv, TxTypeOK
    <3>2. /\ output' = [output EXCEPT !.done = output.done + 1, !.idx = TxNext(output.idx)]
          /\ output'.idx \in TxIndex
      BY FillFacts
    <3>3. output.done + 1 \in Nat /\ output'.done = output.done + 1
          /\ output'.idx = TxNext(output.idx)
      BY <3>1, <3>2, <1>3, <1>5
    <3>4. TxNext(output.idx) \in TxIndex
      BY <3>2, <3>3
    <3>5. QED
      BY <3>1, <3>2, <3>3, <3>4
  <2>4. ref' \in [TxPbufs -> Nat]
    <3>1. ref' = IF first THEN [ref EXCEPT ![output.p] = @ + 1] ELSE ref
      BY FillDescriptor
    <3>2. ref \in [TxPbufs -> Nat]
      BY DEF TxInv, TxTypeOK
    <3>3. \A p \in TxPbufs : ref[p] + 1 \in Nat
      BY <3>2
    <3>4. QED
      BY <3>1, <3>2, <3>3, <1>3
  <2>5. QED
    BY <2>1, <2>2, <2>3, <2>4, <1>4 DEF TxInv, TxTypeOK
<1>21. TxIndexInv'
  <2>1. /\ txDma'.idx = Place(tx_reclaim_idx, TxSent, LPC_NUM_BUFF_TXDESCS)
        /\ tx_fill_idx = Place(tx_reclaim_idx, TxUsed - output.done, LPC_NUM_BUFF_TXDESCS)
        /\ output.done <= TxUsed
    BY <1>4, <1>7 DEF TxInv, TxIndexInv
  <2>2. \A m \in 1 .. dn - output.done :
               due[TxUsed - TxSent + m] = <<output.p, output.done + m>>
    BY <1>8 DEF TxInv, TxIndexInv
  <2>3. TxSent' \in 0 .. TxUsed' - Filled'
    BY <1>5, <1>9, <1>10
  <2>4. Filled' > 0 => TxSent' < TxUsed'
    BY <1>5, <1>6, <1>9
  <2>5. Filled' <= TxUsed'
    BY <2>1, <1>5, <1>6, <1>7
  <2>6. ASSUME NEW m \in 1 .. dn - output.done - 1
        PROVE  due[TxUsed + 1 - TxSent + m] = <<output.p, output.done + 1 + m>>
    <3>1. m + 1 \in 1 .. dn - output.done
      BY <1>5
    <3>2. TxUsed - TxSent + (m + 1) = TxUsed + 1 - TxSent + m
      BY <1>5
    <3>3. output.done + (m + 1) = output.done + 1 + m
      BY <1>5
    <3>4. QED
      BY <2>2, <3>1, <3>2, <3>3
  <2>7. \A m \in 1 .. Coming' : due'[TxUsed' - TxSent' + m] = <<output'.p, output'.done + m>>
    <3>1. SUFFICES ASSUME NEW m \in 1 .. Coming'
                   PROVE  due'[TxUsed' - TxSent' + m] = <<output'.p, output'.done + m>>
      OBVIOUS
    <3>2. m \in 1 .. dn - output.done - 1
      BY <1>8
    <3>3. due[TxUsed + 1 - TxSent + m] = <<output.p, output.done + 1 + m>>
      BY <2>6, <3>2
    <3>4. due' = due /\ output'.p = output.p /\ output'.done = output.done + 1
      BY <1>3, <1>4
    <3>5. TxUsed' - TxSent' + m = TxUsed + 1 - TxSent + m
      BY <3>2, <1>5, <1>6, <1>9
    <3>6. <<output'.p, output'.done + m>> = <<output.p, output.done + 1 + m>>
      BY <3>4, Zenon
    <3>7. QED
      BY <3>3, <3>4, <3>5, <3>6, Zenon
  <2>8. output'.idx = Place(tx_reclaim_idx, TxUsed', NTx)
    BY <1>6, FillFacts
  <2>9. QED
    BY <2>1, <2>3, <2>4, <2>5, <2>7, <2>8, <1>3, <1>4, <1>9, <1>10 DEF TxIndexInv, NTx
<1>22. ASSUME NEW i \in TxIndex, TxAhead(i) < TxUsed PROVE TxDescInv(i)'
  <2>1. TxDescInv(i)
    BY <1>22 DEF TxInv
  <2>2. i # e /\ ptdesc'[i] = ptdesc[i] /\ TxAhead(i)' = TxAhead(i) /\ TxAhead(i) \in Nat
    BY <1>2, <1>5, <1>16, <1>18, <1>19, <1>22
  <2>3. Saves(i)'
    <3>1. CASE \E j \in TxIndex : /\ TxAhead(j) >= TxAhead(i) /\ TxAhead(j) < TxUsed
                                  /\ txpbufs[j] = ptdesc[i].B1ADD[1]
      <4>1. PICK j \in TxIndex : /\ TxAhead(j) >= TxAhead(i) /\ TxAhead(j) < TxUsed
                                 /\ txpbufs[j] = ptdesc[i].B1ADD[1]
        BY <3>1
      <4>2. j # e /\ TxAhead(j) \in Nat
        BY <1>2, <1>5, <1>19, <4>1
      <4>3. txpbufs'[j] = txpbufs[j] /\ TxAhead(j) < TxUsed' /\ TxAhead(j)' = TxAhead(j)
        BY <1>5, <1>6, <1>17, <1>18, <4>1, <4>2
      <4>4. QED
        BY <2>2, <4>1, <4>3 DEF Saves
    <3>2. CASE output.p = ptdesc[i].B1ADD[1] /\ TxAhead(i) >= TxUsed - output.done
      <4>1. CASE last
        <5>1. txpbufs'[e] = output.p /\ TxAhead(e)' = TxUsed
          BY <1>2, <1>17, <1>18, <4>1
        <5>2. TxUsed >= TxAhead(i) /\ TxUsed < TxUsed'
          BY <1>5, <1>6, <1>22, <2>2
        <5>3. QED
          BY <2>2, <3>2, <5>1, <5>2 DEF Saves
      <4>2. CASE ~last
        <5>1. output'.done < dn'
          BY <1>3, <1>5, <4>2
        <5>2. QED
          BY <1>3, <1>10, <2>2, <3>2, <5>1 DEF Saves
      <4>3. QED
        BY <4>1, <4>2
    <3>3. QED
      BY <2>1, <3>1, <3>2, <1>7 DEF TxDescInv, Saves
  <2>4. (Filled > 0 /\ TxAhead(i) = TxUsed - Filled) <=> TxAhead(i) = TxUsed' - Filled'
    BY <1>5, <1>7, <1>10, <1>22, <2>2
  <2>5. QED
    <3> DEFINE d == ptdesc[i]
    <3>1. /\ d.B1ADD[1] \in TxPbufs
          /\ "FS" \in d.flags <=> d.B1ADD[2] = 1
          /\ "LS" \in d.flags <=> d.B1ADD[2] = pbuf_clen[d.B1ADD[1]]
          /\ "OWN" \in d.flags <=> TxAhead(i) >= TxSent /\ ~(Filled > 0 /\ TxAhead(i) = TxUsed - Filled)
          /\ TxAhead(i) >= TxSent => d.B1ADD = due[TxAhead(i) - TxSent + 1]
          /\ Filled > 0 /\ TxAhead(i) = TxUsed - Filled => d.B1ADD[2] = 1
      BY <2>1 DEF TxDescInv
    <3>2. QED
      BY <3>1, <2>2, <2>3, <2>4, <1>4, <1>9, <1>10 DEF TxDescInv
<1>23. TxDescInv(e)'
  <2>1. Saves(e)'
    <3>1. TxAhead(e)' = TxUsed
      BY <1>2, <1>18
    <3>2. CASE last
      <4>1. txpbufs'[e] = output.p
        BY <1>17, <3>2
      <4>2. TxUsed < TxUsed' /\ TxUsed >= TxUsed
        BY <1>5, <1>6
      <4>3. QED
        BY <1>14, <1>16, <3>1, <4>1, <4>2 DEF Saves
    <3>3. CASE ~last
      <4>1. output'.done < dn' /\ TxUsed >= TxUsed' - Filled'
        BY <1>3, <1>5, <1>10, <3>3
      <4>2. QED
        BY <1>3, <1>14, <1>16, <3>1, <4>1 DEF Saves
    <3>4. QED
      BY <3>2, <3>3
  <2>2. due[TxUsed - TxSent + 1] = <<output.p, output.done + 1>>
    <3>1. \A m \in 1 .. Coming : due[TxUsed - TxSent + m] = <<output.p, output.done + m>>
      BY DEF TxInv, TxIndexInv
    <3>2. 1 \in 1 .. Coming
      BY <1>5, <1>8
    <3>3. QED
      BY <3>1, <3>2
  <2>3. TxAhead(e)' = TxUsed
    BY <1>2, <1>18
  <2>4. TxUsed >= TxSent /\ (TxUsed = TxUsed' - Filled' <=> first) /\ (output.done + 1 = 1 <=> first)
    BY <1>5, <1>10
  <2>5. pbuf_clen[output.p] = dn
    BY DEF dn
  <2>6. QED
    BY <1>3, <1>4, <1>9, <1>10, <1>13, <1>14, <1>16, <2>1, <2>2, <2>3, <2>4, <2>5 DEF TxDescInv
<1>24. ASSUME NEW i \in TxIndex, TxAhead(i) < TxUsed + 1 PROVE TxDescInv(i)'
  <2>1. TxAhead(i) < TxUsed \/ i = e
    BY <1>5, <1>19, <1>24
  <2>2. QED
    BY <2>1, <1>22, <1>23
<1>25. ASSUME NEW i \in TxIndex, TxAhead(i) >= TxUsed + 1
       PROVE  ptdesc'[i].flags = {} /\ txpbufs'[i] = NULL
  <2>1. i # e /\ TxAhead(i) >= TxUsed
    BY <1>2, <1>5, <1>19, <1>25
  <2>2. QED
    BY <1>16, <1>17, <2>1 DEF TxInv
<1>26. QED
  BY <1>6, <1>18, <1>20, <1>21, <1>24, <1>25 DEF TxInv

\* The places in the ring where p is saved.
SavedAt(p) == {i \in TxIndex : txpbufs[i] = p}

LEMMA TxIndexFinite == IsFiniteSet(TxIndex) /\ NULL \notin TxPbufs
<1>1. NTx - 1 \in Int /\ 0 \in Int
  BY Sizes
<1>2. QED
  BY <1>1, FS_Interval, Sizes, EmacAssumption

\* Their number, when one of them changes.
LEMMA SavedAtChange ==
  ASSUME NEW e \in TxIndex, NEW p, \A i \in TxIndex : i # e => txpbufs'[i] = txpbufs[i]
  PROVE  /\ Cardinality(SavedAt(p)) \in Nat /\ Cardinality(SavedAt(p))' \in Nat
         /\ (txpbufs[e] = p <=> txpbufs'[e] = p) =>
                Cardinality(SavedAt(p))' = Cardinality(SavedAt(p))
         /\ txpbufs[e] # p /\ txpbufs'[e] = p =>
                Cardinality(SavedAt(p))' = Cardinality(SavedAt(p)) + 1
         /\ txpbufs[e] = p /\ txpbufs'[e] # p =>
                Cardinality(SavedAt(p))' = Cardinality(SavedAt(p)) - 1
<1>1. IsFiniteSet(SavedAt(p)) /\ IsFiniteSet(SavedAt(p)')
  BY TxIndexFinite, FS_Subset DEF SavedAt
<1>2. Cardinality(SavedAt(p)) \in Nat /\ Cardinality(SavedAt(p))' \in Nat
  BY <1>1, FS_CardinalityType
<1>3. ASSUME txpbufs[e] = p <=> txpbufs'[e] = p
      PROVE  Cardinality(SavedAt(p))' = Cardinality(SavedAt(p))
  <2>1. SavedAt(p)' = SavedAt(p)
    BY <1>3 DEF SavedAt
  <2>2. QED
    BY <2>1
<1>4. ASSUME txpbufs[e] # p, txpbufs'[e] = p
      PROVE  Cardinality(SavedAt(p))' = Cardinality(SavedAt(p)) + 1
  <2>1. SavedAt(p)' = SavedAt(p) \cup {e} /\ e \notin SavedAt(p)
    BY <1>4 DEF SavedAt
  <2>2. QED
    BY <2>1, <1>1, FS_AddElement
<1>5. ASSUME txpbufs[e] = p, txpbufs'[e] # p
      PROVE  Cardinality(SavedAt(p))' = Cardinality(SavedAt(p)) - 1
  <2>1. SavedAt(p)' = SavedAt(p) \ {e} /\ e \in SavedAt(p)
    BY <1>5 DEF SavedAt
  <2>2. QED
    BY <2>1, <1>1, FS_RemoveElement
<1>6. QED
  BY <1>2, <1>3, <1>4, <1>5

\* The reference of the output under way.
Held(p) == IF Filled > 0 /\ output.done < dn /\ output.p = p THEN 1 ELSE 0

LEMMA ReferencesSplit ==
  ASSUME NEW p
  PROVE  References(p) = Cardinality(SavedAt(p)) + Held(p) /\ Held(p) \in {0, 1}
         /\ References(p)' = Cardinality(SavedAt(p))' + Held(p)'
BY DEF References, SavedAt, Held

\* The driver takes a reference with the first fragment, which passes to the ring with the last.
LEMMA FillRef ==
  ASSUME ThreadInv, TxInv, RefInv, Fill
  PROVE  RefInv'
<1> DEFINE first == output.done = 0
           last == output.done + 1 = dn
<1>1. PICK e \in TxIndex : e = output.idx
  BY FillFacts
<1>2. /\ txpbufs' = [txpbufs EXCEPT ![e] = IF last THEN output.p ELSE NULL]
      /\ txpbufs[e] = NULL
      /\ ref' = IF first THEN [ref EXCEPT ![output.p] = @ + 1] ELSE ref
  BY <1>1, FillDescriptor
<1>3. ref \in [TxPbufs -> Nat] /\ txpbufs \in [TxIndex -> TxPbufs \cup {NULL}]
  BY DEF TxInv, TxTypeOK
<1>4. output.p \in TxPbufs /\ output'.p = output.p /\ output'.done = output.done + 1 /\ dn' = dn
  BY FillFacts
<1>5. output.done \in Nat /\ dn \in Nat /\ output.done < dn
  BY FillFacts, Sizes
<1>6. Filled = output.done /\ Filled' = output.done + 1
  BY FillFacts
<1>7. txpbufs'[e] = (IF last THEN output.p ELSE NULL)
      /\ \A i \in TxIndex : i # e => txpbufs'[i] = txpbufs[i]
  BY <1>2, <1>3
<1>8. SUFFICES ASSUME NEW q \in TxPbufs PROVE ref'[q] = References(q)'
  BY DEF RefInv
<1>9. ref[q] = Cardinality(SavedAt(q)) + Held(q) /\ ref[q] \in Nat
  BY <1>3, ReferencesSplit DEF RefInv
<1>10. Cardinality(SavedAt(q)) \in Nat
       /\ (q # output.p \/ ~last => Cardinality(SavedAt(q))' = Cardinality(SavedAt(q)))
       /\ (q = output.p /\ last => Cardinality(SavedAt(q))' = Cardinality(SavedAt(q)) + 1)
  <2>1. q # NULL
    BY TxIndexFinite
  <2>2. Cardinality(SavedAt(q)) \in Nat
    BY <1>7, SavedAtChange
  <2>3. q # output.p \/ ~last => Cardinality(SavedAt(q))' = Cardinality(SavedAt(q))
    <3>1. q # output.p \/ ~last => ~(txpbufs[e] = q) /\ ~(txpbufs'[e] = q)
      BY <1>2, <1>7, <2>1
    <3>2. QED
      BY <3>1, <1>7, SavedAtChange
  <2>4. q = output.p /\ last => Cardinality(SavedAt(q))' = Cardinality(SavedAt(q)) + 1
    <3>1. q = output.p /\ last => txpbufs[e] # q /\ txpbufs'[e] = q
      BY <1>2, <1>7, <2>1
    <3>2. QED
      BY <3>1, <1>7, SavedAtChange
  <2>5. QED
    BY <2>2, <2>3, <2>4
<1>11. CASE q # output.p
  <2>1. Held(q) = 0 /\ Held(q)' = 0
    BY <1>4, <1>11 DEF Held
  <2>2. ref'[q] = ref[q]
    BY <1>2, <1>3, <1>4, <1>11
  <2>3. QED
    BY <1>9, <1>10, <1>11, <2>1, <2>2, ReferencesSplit
<1>12. CASE q = output.p
  <2>1. Held(q) = IF first THEN 0 ELSE 1
    BY <1>5, <1>6, <1>12 DEF Held
  <2>2. Held(q)' = IF last THEN 0 ELSE 1
    BY <1>4, <1>5, <1>6, <1>12 DEF Held
  <2>3. ref'[q] = IF first THEN ref[q] + 1 ELSE ref[q]
    BY <1>2, <1>3, <1>4, <1>12
  <2>4. References(q)' = Cardinality(SavedAt(q))' + Held(q)'
    BY ReferencesSplit
  <2>5. QED
    BY <1>9, <1>10, <1>12, <2>1, <2>2, <2>3, <2>4
<1>13. QED
  BY <1>11, <1>12

\* The index k places on is the only one at that distance.
LEMMA TxOnlyPlace ==
  ASSUME TxTypeOK, NEW k \in 0 .. NTx - 1, NEW i \in TxIndex, TxAhead(i) = k
  PROVE  i = Place(tx_reclaim_idx, k, NTx)
BY TxAheadType

\* The frame is given to the DMA.
LEMMA GiveTx ==
  ASSUME ThreadInv, TxInv, RefInv, GiveFirst
  PROVE  TxInv' /\ RefInv'
<1>1. /\ ptdesc' = [ptdesc EXCEPT ![tx_fill_idx].flags = @ \cup {"OWN"}]
      /\ tx_fill_idx' = output.idx
      /\ UNCHANGED <<txpbufs, tx_free_descs, tx_reclaim_idx, output, ref, txDma, due>>
  BY DEF GiveFirst
<1>2. at["tcpip"] = "fill" /\ at'["tcpip"] = "poll" /\ output.done = dn
  BY DEF GiveFirst, Goes, ThreadInv, Threads
<1>3. Filling /\ ~Filling'
  BY <1>2 DEF Filling
<1>4. output.p \in TxPbufs /\ dn \in 1 .. NTx /\ Filled = dn /\ Coming = 0
  <2>1. output.p \in TxPbufs /\ dn \in 1 .. NTx /\ Filled = dn /\ Coming = dn - dn
    BY <1>2, <1>3, OutputType DEF TxInv
  <2>2. QED
    BY <2>1, Sizes
<1>5. Filled' = 0 /\ Coming' = 0
  BY <1>3 DEF Filled, Coming
<1>6. TxUsed' = TxUsed /\ TxUsed \in 0 .. NTx
  BY <1>1, OutputType DEF TxUsed, TxInv
<1>7. TxSent' = TxSent /\ TxSent \in Nat /\ TxSent <= TxUsed - dn
  <2>1. TxSent' = TxSent
    BY <1>1, <1>4, <1>5, <1>6 DEF TxSent
  <2>2. QED
    BY <2>1, <1>4, DueLength DEF TxInv
<1>8. dn <= TxUsed /\ tx_fill_idx = Place(tx_reclaim_idx, TxUsed - dn, NTx)
      /\ output.idx = Place(tx_reclaim_idx, TxUsed, NTx)
      /\ txDma.idx = Place(tx_reclaim_idx, TxSent, NTx)
  BY <1>3, <1>4 DEF TxInv, TxIndexInv, NTx
<1>9. dn \in Nat /\ dn > 0 /\ TxUsed \in Nat /\ TxUsed <= NTx /\ TxUsed - dn \in 0 .. NTx - 1
  BY <1>4, <1>6, <1>8, Sizes
<1>10. TxTypeOK
  BY DEF TxInv
<1>11. PICK e \in TxIndex : e = tx_fill_idx
  BY <1>10 DEF TxTypeOK
<1>12. \A i \in TxIndex : TxAhead(i) \in Nat /\ (TxAhead(i) = TxUsed - dn <=> i = e)
  <2>1. TxAhead(e) = TxUsed - dn
    BY <1>8, <1>9, <1>10, <1>11, TxPlace
  <2>2. \A i \in TxIndex : TxAhead(i) = TxUsed - dn => i = e
    BY <1>8, <1>9, <1>10, <1>11, TxOnlyPlace
  <2>3. \A i \in TxIndex : TxAhead(i) \in Nat
    BY <1>10, TxAheadType, Sizes
  <2>4. QED
    BY <2>1, <2>2, <2>3
<1>13. ptdesc \in [TxIndex -> [flags : SUBSET Flag, B1ADD : (TxPbufs \cup {NULL}) \X Nat]]
  BY <1>10 DEF TxTypeOK
<1>14. ptdesc' = [ptdesc EXCEPT ![e] = [ptdesc[e] EXCEPT !.flags = ptdesc[e].flags \cup {"OWN"}]]
  BY <1>1, <1>11
<1>15. ptdesc'[e] = [ptdesc[e] EXCEPT !.flags = ptdesc[e].flags \cup {"OWN"}]
       /\ \A i \in TxIndex : i # e => ptdesc'[i] = ptdesc[i]
  BY <1>13, <1>14
<1>16. ptdesc'[e].flags = ptdesc[e].flags \cup {"OWN"} /\ ptdesc'[e].B1ADD = ptdesc[e].B1ADD
  BY <1>13, <1>15
<1>17. \A i \in TxIndex : TxAhead(i)' = TxAhead(i)
  BY <1>1 DEF TxAhead
<1>18. TxTypeOK'
  <2>1. [ptdesc[e] EXCEPT !.flags = ptdesc[e].flags \cup {"OWN"}]
        \in [flags : SUBSET Flag, B1ADD : (TxPbufs \cup {NULL}) \X Nat]
    BY <1>13 DEF Flag
  <2>2. ptdesc' \in [TxIndex -> [flags : SUBSET Flag, B1ADD : (TxPbufs \cup {NULL}) \X Nat]]
    BY <2>1, <1>13, <1>14
  <2>3. tx_fill_idx' \in TxIndex
    BY <1>1, <1>10 DEF TxTypeOK
  <2>4. QED
    BY <2>2, <2>3, <1>1, <1>10 DEF TxTypeOK
<1>19. TxIndexInv'
  <2>1. TxSent' \in 0 .. TxUsed' - Filled'
    BY <1>5, <1>6, <1>7, <1>9
  <2>2. ~(Filled' > 0) /\ Filled' <= TxUsed' /\ TxUsed' - Filled' = TxUsed'
    BY <1>5, <1>6, <1>9
  <2>3. \A m \in 1 .. Coming' : FALSE
    BY <1>5
  <2>4. QED
    BY <1>1, <1>3, <1>6, <1>7, <1>8, <2>1, <2>2, <2>3 DEF TxIndexInv, NTx
<1>20. ASSUME NEW i \in TxIndex, TxAhead(i) < TxUsed PROVE TxDescInv(i)'
  <2>1. TxDescInv(i)
    BY <1>20 DEF TxInv
  <2>2. ptdesc'[i].B1ADD = ptdesc[i].B1ADD
        /\ ("FS" \in ptdesc'[i].flags <=> "FS" \in ptdesc[i].flags)
        /\ ("LS" \in ptdesc'[i].flags <=> "LS" \in ptdesc[i].flags)
    <3>1. ("FS" \in ptdesc'[e].flags <=> "FS" \in ptdesc[e].flags)
          /\ ("LS" \in ptdesc'[e].flags <=> "LS" \in ptdesc[e].flags)
      BY <1>16
    <3>2. i = e \/ ptdesc'[i] = ptdesc[i]
      BY <1>15
    <3>3. QED
      BY <1>16, <3>1, <3>2, Zenon
  <2>3. Saves(i)'
    <3>1. \E j \in TxIndex : /\ TxAhead(j) >= TxAhead(i) /\ TxAhead(j) < TxUsed
                             /\ txpbufs[j] = ptdesc[i].B1ADD[1]
      BY <1>2, <1>9, <2>1 DEF TxDescInv, Saves
    <3>2. QED
      BY <3>1, <1>1, <1>6, <1>17, <2>2 DEF Saves
  <2>4. "OWN" \in ptdesc'[i].flags <=> TxAhead(i) >= TxSent
    <3>1. CASE i = e
      BY <3>1, <1>7, <1>9, <1>12, <1>16
    <3>2. CASE i # e
      <4>1. TxAhead(i) # TxUsed - Filled
        BY <3>2, <1>4, <1>12
      <4>2. QED
        BY <3>2, <4>1, <1>15, <2>1 DEF TxDescInv
    <3>3. QED
      BY <3>1, <3>2
  <2>5. /\ ptdesc[i].B1ADD[1] \in TxPbufs
        /\ "FS" \in ptdesc[i].flags <=> ptdesc[i].B1ADD[2] = 1
        /\ "LS" \in ptdesc[i].flags <=> ptdesc[i].B1ADD[2] = pbuf_clen[ptdesc[i].B1ADD[1]]
        /\ TxAhead(i) >= TxSent => ptdesc[i].B1ADD = due[TxAhead(i) - TxSent + 1]
    BY <2>1 DEF TxDescInv
  <2>6. TxAhead(i)' = TxAhead(i) /\ ~(Filled' > 0)
    BY <1>5, <1>17
  <2>7. QED
    BY <2>2, <2>3, <2>4, <2>5, <2>6, <1>1, <1>7 DEF TxDescInv
<1>21. ASSUME NEW i \in TxIndex, TxAhead(i) >= TxUsed
       PROVE  ptdesc'[i].flags = {} /\ txpbufs'[i] = NULL
  <2>1. i # e
    BY <1>9, <1>12, <1>21
  <2>2. QED
    BY <1>1, <1>15, <1>21, <2>1 DEF TxInv
<1>22. RefInv'
  <2>1. \A q \in TxPbufs : Held(q) = 0 /\ Held(q)' = 0
    BY <1>2, <1>5, <1>9 DEF Held
  <2>2. \A q : SavedAt(q)' = SavedAt(q)
    BY <1>1 DEF SavedAt
  <2>3. QED
    BY <2>1, <2>2, <1>1, ReferencesSplit DEF RefInv
<1>23. QED
  BY <1>6, <1>17, <1>18, <1>19, <1>20, <1>21, <1>22 DEF TxInv

\* While the cleanup task reclaims nothing is being filled in.
LEMMA ReclaimAlone ==
  ASSUME ThreadInv, at["clean"] = "reclaim"
  PROVE  ~Filling /\ Filled = 0 /\ Coming = 0
<1>1. TXLockMutex = "clean"
  BY DEF ThreadInv
<1>2. ~Filling
  BY <1>1 DEF ThreadInv, Filling
<1>3. QED
  BY <1>2 DEF Filled, Coming

\* What a round of lpc_tx_reclaim finds and does.
LEMMA ReclaimFacts ==
  ASSUME ThreadInv, TxInv, Reclaim
  PROVE  /\ ~Filling /\ ~Filling' /\ Filled = 0 /\ Filled' = 0 /\ Coming = 0 /\ Coming' = 0
         /\ TxUsed \in 1 .. NTx /\ TxUsed' = TxUsed - 1
         /\ TxSent \in Nat /\ TxSent > 0 /\ TxSent <= TxUsed /\ TxSent' = TxSent - 1
         /\ tx_free_descs \in 0 .. NTx - 1 /\ tx_free_descs' = tx_free_descs + 1
         /\ tx_reclaim_idx' = TxNext(tx_reclaim_idx)
<1>1. /\ at["clean"] = "reclaim" /\ UNCHANGED at
      /\ Reclaimable
      /\ tx_free_descs' = tx_free_descs + 1
      /\ tx_reclaim_idx' = TxNext(tx_reclaim_idx)
      /\ UNCHANGED <<output, due>>
  BY DEF Reclaim
<1>2. ~Filling /\ Filled = 0 /\ Coming = 0
  BY <1>1, ReclaimAlone
<1>3. ~Filling' /\ Filled' = 0 /\ Coming' = 0
  BY <1>1, <1>2 DEF Filling, Filled, Coming
<1>4. tx_free_descs \in 0 .. NTx - 1
  BY <1>1, Sizes DEF TxInv, TxTypeOK, Reclaimable, NTx
<1>5. TxUsed = NTx - tx_free_descs /\ TxUsed' = NTx - tx_free_descs'
  BY DEF TxUsed, NTx
<1>6. TxUsed \in 1 .. NTx /\ TxUsed' = TxUsed - 1
  BY <1>1, <1>4, <1>5, Sizes
<1>7. Len(due) \in Nat /\ Len(due) = TxUsed - TxSent + 0 /\ TxSent \in Nat /\ TxSent <= TxUsed
  BY <1>2, DueLength DEF TxInv
<1>8. TxSent' = TxSent - 1
  <2>1. TxSent = TxUsed + Coming - Len(due) /\ TxSent' = TxUsed' + Coming' - Len(due)
    BY <1>1 DEF TxSent
  <2>2. QED
    BY <1>2, <1>3, <1>6, <1>7, <2>1, Sizes
<1>9. TxSent > 0
  <2>1. tx_reclaim_idx \in TxIndex /\ TxAhead(tx_reclaim_idx) = 0
    BY Sizes, PlaceEnds DEF TxInv, TxTypeOK, TxAhead, NTx
  <2>2. TxDescInv(tx_reclaim_idx)
    BY <2>1, <1>6 DEF TxInv
  <2>3. "OWN" \notin ptdesc[tx_reclaim_idx].flags
    BY <1>1 DEF Reclaimable
  <2>4. ~(0 >= TxSent)
    BY <1>2, <2>1, <2>2, <2>3 DEF TxDescInv
  <2>5. QED
    BY <1>7, <2>4
<1>10. QED
  BY <1>1, <1>2, <1>3, <1>4, <1>6, <1>7, <1>8, <1>9

\* Where a round of it leaves the ring.
LEMMA ReclaimRing ==
  ASSUME ThreadInv, TxInv, Reclaim, NEW r, r = tx_reclaim_idx
  PROVE  /\ r \in TxIndex /\ TxAhead(r) = 0 /\ TxAhead(r)' = NTx - 1
         /\ \A i \in TxIndex : i # r => TxAhead(i) \in 1 .. NTx - 1 /\ TxAhead(i)' = TxAhead(i) - 1
         /\ \A k \in 1 .. NTx : Place(tx_reclaim_idx', k - 1, NTx) = Place(tx_reclaim_idx, k, NTx)
         /\ tx_reclaim_idx' \in TxIndex
<1>1. r \in 0 .. NTx - 1 /\ tx_reclaim_idx' = (r + 1) % NTx /\ TxTypeOK
  BY ReclaimFacts, Sizes DEF TxInv, TxTypeOK, TxNext, NTx
<1>2. TxAhead(r) = 0 /\ Place(r, 0, NTx) = r
  BY <1>1, Sizes, PlaceEnds DEF TxAhead, NTx
<1>3. /\ (r + 1) % NTx \in 0 .. NTx - 1
      /\ \A k \in 0 .. NTx - 1 : Place((r + 1) % NTx, k, NTx) = Place(r, k + 1, NTx)
      /\ \A i \in 0 .. NTx - 1 : Ahead(i, (r + 1) % NTx, NTx) =
             IF i = r THEN NTx - 1 ELSE Ahead(i, r, NTx) - 1
  BY <1>1, Sizes, NextPlace
<1>4. \A i \in TxIndex : TxAhead(i) = Ahead(i, r, NTx)
                         /\ TxAhead(i)' = Ahead(i, (r + 1) % NTx, NTx)
  BY <1>1 DEF TxAhead, NTx
<1>5. ASSUME NEW i \in TxIndex, i # r PROVE TxAhead(i) \in 1 .. NTx - 1
  <2>1. TxAhead(i) \in 0 .. NTx - 1 /\ Place(r, TxAhead(i), NTx) = i
    BY <1>1, TxAheadType
  <2>2. TxAhead(i) # 0
    BY <1>2, <1>5, <2>1
  <2>3. QED
    BY <2>1, <2>2, Sizes
<1>6. ASSUME NEW k \in 1 .. NTx
      PROVE  Place(tx_reclaim_idx', k - 1, NTx) = Place(tx_reclaim_idx, k, NTx)
  <2>1. k - 1 \in 0 .. NTx - 1 /\ (k - 1) + 1 = k
    BY Sizes
  <2>2. QED
    BY <1>1, <1>3, <2>1
<1>7. QED
  BY <1>1, <1>2, <1>3, <1>4, <1>5, <1>6, Sizes

\* A descriptor is reclaimed: the ring is shorter by what the DMA sent first.
LEMMA ReclaimTx ==
  ASSUME ThreadInv, TxInv, RefInv, Reclaim
  PROVE  TxInv' /\ RefInv'
<1>1. PICK r \in TxIndex : r = tx_reclaim_idx
  BY DEF TxInv, TxTypeOK
<1>2. TxAhead(r) = 0 /\ TxAhead(r)' = NTx - 1
  BY <1>1, ReclaimRing
<1>3. \A i \in TxIndex : i # r => TxAhead(i) \in 1 .. NTx - 1 /\ TxAhead(i)' = TxAhead(i) - 1
  BY <1>1, ReclaimRing
<1>4. \A k \in 1 .. NTx : Place(tx_reclaim_idx', k - 1, NTx) = Place(tx_reclaim_idx, k, NTx)
  BY <1>1, ReclaimRing
<1>5. ~Filling /\ ~Filling' /\ Filled = 0 /\ Filled' = 0 /\ Coming' = 0
  BY ReclaimFacts
<1>6. TxUsed \in Nat /\ TxUsed > 0 /\ TxUsed <= NTx /\ TxSent \in Nat /\ TxSent > 0
      /\ TxSent <= TxUsed
  BY ReclaimFacts, Sizes
<1>7. TxUsed' = TxUsed - 1 /\ TxSent' = TxSent - 1
  BY ReclaimFacts
<1>8. UNCHANGED <<at, tx_fill_idx, output, txDma, due>>
  BY DEF Reclaim
<1>9. /\ ptdesc' = [ptdesc EXCEPT ![r] = [flags |-> {}, B1ADD |-> <<NULL, 0>>]]
      /\ txpbufs' = [txpbufs EXCEPT ![r] = NULL]
      /\ ref' = IF txpbufs[r] # NULL THEN [ref EXCEPT ![txpbufs[r]] = @ - 1] ELSE ref
  BY <1>1 DEF Reclaim, Reclaimed
<1>10. TxTypeOK
  BY DEF TxInv
<1>11. ptdesc \in [TxIndex -> [flags : SUBSET Flag, B1ADD : (TxPbufs \cup {NULL}) \X Nat]]
       /\ txpbufs \in [TxIndex -> TxPbufs \cup {NULL}] /\ ref \in [TxPbufs -> Nat]
  BY <1>10 DEF TxTypeOK
<1>12. ptdesc'[r].flags = {} /\ txpbufs'[r] = NULL
       /\ \A i \in TxIndex : i # r => ptdesc'[i] = ptdesc[i] /\ txpbufs'[i] = txpbufs[i]
  BY <1>9, <1>11
<1>13. ASSUME NEW q \in TxPbufs
       PROVE  ref'[q] = Cardinality(SavedAt(q))' /\ ref'[q] \in Nat
  <2>1. q # NULL
    BY TxIndexFinite
  <2>2. Cardinality(SavedAt(q)) \in Nat /\ Cardinality(SavedAt(q))' \in Nat
    BY <1>12, SavedAtChange
  <2>3. ref[q] = Cardinality(SavedAt(q))
    <3>1. Held(q) = 0
      BY <1>5 DEF Held
    <3>2. ref[q] = Cardinality(SavedAt(q)) + Held(q)
      BY ReferencesSplit DEF RefInv
    <3>3. QED
      BY <3>1, <3>2, <2>2
  <2>4. CASE txpbufs[r] = q
    <3>1. Cardinality(SavedAt(q))' = Cardinality(SavedAt(q)) - 1
      BY <1>12, <2>1, <2>4, SavedAtChange
    <3>2. ref'[q] = ref[q] - 1
      BY <1>9, <1>11, <2>1, <2>4
    <3>3. QED
      BY <2>2, <2>3, <3>1, <3>2
  <2>5. CASE txpbufs[r] # q
    <3>1. Cardinality(SavedAt(q))' = Cardinality(SavedAt(q))
      BY <1>12, <2>1, <2>5, SavedAtChange
    <3>2. ref'[q] = ref[q]
      BY <1>9, <1>11, <2>5
    <3>3. QED
      BY <2>2, <2>3, <3>1, <3>2
  <2>6. QED
    BY <2>4, <2>5
<1>14. RefInv'
  <2>1. ASSUME NEW q \in TxPbufs PROVE ref'[q] = References(q)'
    <3>1. Held(q)' = 0
      BY <1>5 DEF Held
    <3>2. References(q)' = Cardinality(SavedAt(q))' + Held(q)'
      BY ReferencesSplit
    <3>3. QED
      BY <1>13, <3>1, <3>2
  <2>2. QED
    BY <2>1 DEF RefInv
<1>15. TxTypeOK'
  <2>1. tx_free_descs' \in 0 .. LPC_NUM_BUFF_TXDESCS
    BY ReclaimFacts, Sizes DEF NTx
  <2>2. ptdesc' \in [TxIndex -> [flags : SUBSET Flag, B1ADD : (TxPbufs \cup {NULL}) \X Nat]]
        /\ txpbufs' \in [TxIndex -> TxPbufs \cup {NULL}]
    <3>1. [flags |-> {}, B1ADD |-> <<NULL, 0>>]
          \in [flags : SUBSET Flag, B1ADD : (TxPbufs \cup {NULL}) \X Nat]
      OBVIOUS
    <3>2. QED
      BY <3>1, <1>9, <1>11
  <2>3. ref' \in [TxPbufs -> Nat]
    <3>1. ref' = [q \in TxPbufs |-> ref'[q]]
      BY <1>9, <1>11
    <3>2. QED
      BY <3>1, <1>13
  <2>4. tx_reclaim_idx' \in TxIndex
    BY <1>1, ReclaimRing
  <2>5. QED
    BY <2>1, <2>2, <2>3, <2>4, <1>8, <1>10 DEF TxTypeOK
<1>16. TxIndexInv'
  <2>1. txDma.idx = Place(tx_reclaim_idx, TxSent, NTx)
        /\ tx_fill_idx = Place(tx_reclaim_idx, TxUsed, NTx)
    <3>1. TxUsed - 0 = TxUsed
      BY <1>6
    <3>2. QED
      BY <3>1, <1>5 DEF TxInv, TxIndexInv, NTx
  <2>2. TxSent \in 1 .. NTx /\ TxUsed \in 1 .. NTx
    BY <1>6, Sizes
  <2>3. txDma.idx = Place(tx_reclaim_idx', TxSent', NTx)
        /\ tx_fill_idx = Place(tx_reclaim_idx', TxUsed', NTx)
    BY <2>1, <2>2, <1>4, <1>7
  <2>4. TxSent' \in 0 .. TxUsed' - Filled' /\ Filled' <= TxUsed' /\ TxUsed' - Filled' = TxUsed'
    BY <1>5, <1>6, <1>7
  <2>5. ~(Filled' > 0) /\ \A m \in 1 .. Coming' : FALSE
    BY <1>5
  <2>6. QED
    BY <2>3, <2>4, <2>5, <1>5, <1>8 DEF TxIndexInv, NTx
<1>17. ASSUME NEW i \in TxIndex, TxAhead(i)' < TxUsed' PROVE TxDescInv(i)'
  <2>1. i # r
    BY <1>2, <1>6, <1>7, <1>17, Sizes
  <2>2. TxAhead(i) \in Nat /\ TxAhead(i) > 0 /\ TxAhead(i)' = TxAhead(i) - 1
    BY <1>3, <2>1, Sizes
  <2>3. TxDescInv(i)
    <3>1. TxAhead(i) < TxUsed
      BY <1>6, <1>7, <1>17, <2>2
    <3>2. QED
      BY <3>1 DEF TxInv
  <2>4. ptdesc'[i] = ptdesc[i]
    BY <1>12, <2>1
  <2>5. Saves(i)'
    <3>1. PICK j \in TxIndex : /\ TxAhead(j) >= TxAhead(i) /\ TxAhead(j) < TxUsed
                               /\ txpbufs[j] = ptdesc[i].B1ADD[1]
      BY <1>5, <2>3 DEF TxDescInv, Saves
    <3>2. j # r
      BY <1>2, <2>2, <3>1
    <3>3. TxAhead(j) \in Nat /\ TxAhead(j)' = TxAhead(j) - 1 /\ txpbufs'[j] = txpbufs[j]
      BY <1>3, <1>12, <3>2, Sizes
    <3>4. TxAhead(j)' >= TxAhead(i)' /\ TxAhead(j)' < TxUsed'
      BY <1>6, <1>7, <2>2, <3>1, <3>3
    <3>5. QED
      BY <2>4, <3>1, <3>3, <3>4 DEF Saves
  <2>6. (TxAhead(i)' >= TxSent' <=> TxAhead(i) >= TxSent)
        /\ TxAhead(i)' - TxSent' + 1 = TxAhead(i) - TxSent + 1
    BY <1>6, <1>7, <2>2
  <2>7. /\ ptdesc[i].B1ADD[1] \in TxPbufs
        /\ "FS" \in ptdesc[i].flags <=> ptdesc[i].B1ADD[2] = 1
        /\ "LS" \in ptdesc[i].flags <=> ptdesc[i].B1ADD[2] = pbuf_clen[ptdesc[i].B1ADD[1]]
        /\ "OWN" \in ptdesc[i].flags <=> TxAhead(i) >= TxSent
        /\ TxAhead(i) >= TxSent => ptdesc[i].B1ADD = due[TxAhead(i) - TxSent + 1]
    BY <1>5, <2>3 DEF TxDescInv
  <2>8. ~(Filled' > 0)
    BY <1>5
  <2>9. QED
    BY <2>4, <2>5, <2>6, <2>7, <2>8, <1>8 DEF TxDescInv
<1>18. ASSUME NEW i \in TxIndex, TxAhead(i)' >= TxUsed'
       PROVE  ptdesc'[i].flags = {} /\ txpbufs'[i] = NULL
  <2>1. CASE i = r
    BY <1>12, <2>1
  <2>2. CASE i # r
    <3>1. TxAhead(i) \in Nat /\ TxAhead(i)' = TxAhead(i) - 1
      BY <1>3, <2>2, Sizes
    <3>2. TxAhead(i) >= TxUsed
      BY <1>6, <1>7, <1>18, <3>1
    <3>3. QED
      BY <1>12, <2>2, <3>2 DEF TxInv
  <2>3. QED
    BY <2>1, <2>2
<1>19. QED
  BY <1>14, <1>15, <1>16, <1>17, <1>18 DEF TxInv

\* The sequence without its first element.
LEMMA RestParts ==
  ASSUME NEW T, NEW s \in Seq(T), Len(s) > 0
  PROVE  /\ SubSeq(s, 2, Len(s)) \in Seq(T) /\ Len(SubSeq(s, 2, Len(s))) = Len(s) - 1
         /\ \A k \in 1 .. Len(s) - 1 : SubSeq(s, 2, Len(s))[k] = s[k + 1]
         /\ s # <<>> /\ Head(s) = s[1]
<1>1. Len(s) \in Nat /\ 2 \in 1 .. Len(s) + 1 /\ Len(s) \in 2 - 1 .. Len(s)
  BY LenProperties
<1>2. /\ SubSeq(s, 2, Len(s)) \in Seq(T)
      /\ Len(SubSeq(s, 2, Len(s))) = IF 2 <= Len(s) THEN Len(s) - 2 + 1 ELSE 0
      /\ \A k \in 1 .. Len(s) - 2 + 1 : SubSeq(s, 2, Len(s))[k] = s[2 + k - 1]
  BY <1>1, SubSeqProperties
<1>3. \A k \in 1 .. Len(s) - 1 : SubSeq(s, 2, Len(s))[k] = s[k + 1]
  <2>1. TAKE k \in 1 .. Len(s) - 1
  <2>2. k \in 1 .. Len(s) - 2 + 1 /\ 2 + k - 1 = k + 1
    BY <1>1
  <2>3. QED
    BY <1>2, <2>2
<1>4. Len(SubSeq(s, 2, Len(s))) = Len(s) - 1
  <2>1. PICK n \in Nat : n = Len(s)
    BY <1>1
  <2>2. Len(SubSeq(s, 2, n)) = IF 2 <= n THEN n - 2 + 1 ELSE 0
    BY <1>2, <2>1
  <2>3. n = 1 \/ 2 <= n
    BY <2>1
  <2>4. Len(SubSeq(s, 2, n)) = n - 1
    BY <2>2, <2>3
  <2>5. QED
    BY <2>1, <2>4
<1>5. s # <<>> /\ Head(s) = s[1]
  BY <1>1
<1>6. QED
  BY <1>2, <1>3, <1>4, <1>5

\* A descriptor that is the DMA's has a fragment that is due, as the first of those.
LEMMA DmaFinds ==
  ASSUME ThreadInv, TxInv, "OWN" \in ptdesc[txDma.idx].flags
  PROVE  /\ txDma.idx \in TxIndex /\ TxAhead(txDma.idx) = TxSent /\ TxDescInv(txDma.idx)
         /\ TxSent < TxUsed /\ TxUsed \in 0 .. NTx /\ TxSent \in Nat /\ TxSent < TxUsed
         /\ TxSent + 1 <= TxUsed - Filled /\ (Filled > 0 => TxSent + 1 < TxUsed)
         /\ Len(due) > 0 /\ ptdesc[txDma.idx].B1ADD = due[1]
         /\ TxNext(txDma.idx) = Place(tx_reclaim_idx, TxSent + 1, NTx)
         /\ TxNext(txDma.idx) \in TxIndex
<1>1. TxTypeOK /\ txDma.idx \in TxIndex
  BY DEF TxInv, TxTypeOK
<1>2. TxUsed \in 0 .. NTx /\ Filled \in Nat /\ Coming \in Nat
  BY <1>1, OutputType
<1>3. TxSent \in Nat /\ TxSent <= TxUsed - Filled /\ TxSent <= TxUsed
      /\ Len(due) \in Nat /\ Len(due) = TxUsed - TxSent + Coming
  BY DueLength DEF TxInv
<1>4. txDma.idx = Place(tx_reclaim_idx, TxSent, NTx)
  BY DEF TxInv, TxIndexInv, NTx
<1>5. TxSent # NTx
  <2>1. SUFFICES ASSUME TxSent = NTx PROVE FALSE
    OBVIOUS
  <2>2. txDma.idx = tx_reclaim_idx /\ TxAhead(tx_reclaim_idx) = 0
    <3>1. tx_reclaim_idx \in 0 .. NTx - 1
      BY <1>1, Sizes DEF TxTypeOK
    <3>2. QED
      BY <1>4, <2>1, <3>1, PlaceEnds, Sizes DEF TxAhead, NTx
  <2>3. 0 < TxUsed /\ ~(0 >= TxSent)
    <3>1. NTx \in Nat \ {0}
      BY Sizes
    <3>2. TxSent > 0
      BY <2>1, <3>1
    <3>3. TxUsed \in Nat /\ TxSent \in Nat /\ TxSent <= TxUsed
      BY <1>2, <1>3, <3>1
    <3>4. QED
      BY <3>2, <3>3
  <2>4. TxDescInv(txDma.idx)
    BY <1>1, <2>2, <2>3 DEF TxInv
  <2>5. QED
    BY <2>2, <2>3, <2>4 DEF TxDescInv
<1>6. TxSent \in 0 .. NTx - 1
  BY <1>2, <1>3, <1>5, Sizes
<1>7. TxAhead(txDma.idx) = TxSent /\ TxNext(txDma.idx) = Place(tx_reclaim_idx, TxSent + 1, NTx)
      /\ TxNext(txDma.idx) \in TxIndex
  BY <1>1, <1>4, <1>6, TxPlace
<1>8. TxSent < TxUsed
  <2>1. ~(TxSent >= TxUsed)
    BY <1>1, <1>7 DEF TxInv
  <2>2. QED
    BY <1>2, <1>3, <2>1, Sizes
<1>9. TxDescInv(txDma.idx)
  BY <1>1, <1>7, <1>8 DEF TxInv
<1>10. Filled > 0 => TxSent # TxUsed - Filled
  BY <1>7, <1>9 DEF TxDescInv
<1>11. TxSent + 1 <= TxUsed - Filled /\ (Filled > 0 => TxSent + 1 < TxUsed)
  BY <1>2, <1>3, <1>8, <1>10, Sizes
<1>12. Len(due) > 0
  BY <1>2, <1>3, <1>8, Sizes
<1>13. ptdesc[txDma.idx].B1ADD = due[1]
  <2>1. TxSent >= TxSent /\ TxSent - TxSent + 1 = 1
    BY <1>3
  <2>2. ptdesc[txDma.idx].B1ADD = due[TxSent - TxSent + 1]
    BY <1>7, <1>9, <2>1 DEF TxDescInv
  <2>3. QED
    BY <2>1, <2>2
<1>14. QED
  BY <1>1, <1>2, <1>3, <1>7, <1>8, <1>9, <1>11, <1>12, <1>13

\* A fragment is sent.
LEMMA DmaSendsTx ==
  ASSUME ThreadInv, TxInv, RefInv, DmaSends
  PROVE  TxInv' /\ RefInv'
<1>1. PICK e \in TxIndex : e = txDma.idx
  BY DEF TxInv, TxTypeOK
<1>2. /\ "OWN" \in ptdesc[e].flags
      /\ ptdesc' = [ptdesc EXCEPT ![e] = [ptdesc[e] EXCEPT !.flags = ptdesc[e].flags \ {"OWN"}]]
      /\ txDma' = [txDma EXCEPT !.idx = TxNext(e)]
      /\ due' = SubSeq(due, 2, Len(due))
  BY <1>1 DEF DmaSends
<1>3. UNCHANGED <<at, txpbufs, tx_free_descs, tx_fill_idx, tx_reclaim_idx, output, ref>>
  BY DEF DmaSends
<1>4. TxAhead(e) = TxSent /\ TxDescInv(e) /\ Len(due) > 0
      /\ TxNext(e) = Place(tx_reclaim_idx, TxSent + 1, NTx) /\ TxNext(e) \in TxIndex
  BY <1>1, <1>2, DmaFinds
<1>5. TxUsed \in Nat /\ TxUsed <= NTx /\ TxSent \in Nat /\ TxSent < TxUsed
      /\ TxSent + 1 <= TxUsed - Filled /\ (Filled > 0 => TxSent + 1 < TxUsed)
  BY <1>1, <1>2, DmaFinds, Sizes
<1>6. Filled \in Nat /\ Coming \in Nat
  BY OutputType DEF TxInv
<1>7. (Filling' <=> Filling) /\ Filled' = Filled /\ Coming' = Coming /\ TxUsed' = TxUsed /\ dn' = dn
  BY <1>3 DEF Filling, Filled, Coming, TxUsed, dn
<1>8. TxTypeOK
  BY DEF TxInv
<1>9. /\ due' \in Seq(Fragment) /\ Len(due') = Len(due) - 1
      /\ \A k \in 1 .. Len(due) - 1 : due'[k] = due[k + 1]
  BY <1>2, <1>4, <1>8, RestParts DEF TxTypeOK
<1>10. Len(due) \in Nat /\ Len(due) = TxUsed - TxSent + Coming
  BY DueLength DEF TxInv
<1>11. TxSent' = TxSent + 1
  <2>1. TxSent' = TxUsed' + Coming' - Len(due')
    BY DEF TxSent
  <2>2. TxUsed' = TxUsed /\ Coming' = Coming
    BY <1>7
  <2>3. Len(due') = Len(due) - 1
    BY <1>9
  <2>4. TxSent' = TxUsed + Coming - (Len(due) - 1)
    BY <2>1, <2>2, <2>3, Zenon
  <2>5. TxUsed \in Int /\ Coming \in Int /\ TxSent \in Int
    BY <1>5, <1>6
  <2>6. QED
    BY <1>10, <2>4, <2>5
<1>12. ptdesc \in [TxIndex -> [flags : SUBSET Flag, B1ADD : (TxPbufs \cup {NULL}) \X Nat]]
       /\ txDma \in [idx : TxIndex, suspended : BOOLEAN]
  BY <1>8 DEF TxTypeOK
<1>13. ptdesc'[e] = [ptdesc[e] EXCEPT !.flags = ptdesc[e].flags \ {"OWN"}]
       /\ \A i \in TxIndex : i # e => ptdesc'[i] = ptdesc[i]
  BY <1>2, <1>12
<1>14. ptdesc'[e].flags = ptdesc[e].flags \ {"OWN"} /\ ptdesc'[e].B1ADD = ptdesc[e].B1ADD
  BY <1>12, <1>13
<1>15. txDma'.idx = TxNext(e) /\ txDma' \in [idx : TxIndex, suspended : BOOLEAN]
  BY <1>2, <1>4, <1>12
<1>16. \A i \in TxIndex : TxAhead(i)' = TxAhead(i)
  BY <1>3 DEF TxAhead
<1>17. ASSUME NEW i \in TxIndex PROVE TxAhead(i) \in Nat /\ (TxAhead(i) = TxSent => i = e)
  <2>1. TxAhead(i) \in 0 .. NTx - 1 /\ Place(tx_reclaim_idx, TxAhead(i), NTx) = i
    BY <1>8, TxAheadType
  <2>2. Place(tx_reclaim_idx, TxAhead(e), NTx) = e
    BY <1>8, TxAheadType
  <2>3. TxAhead(i) = TxSent => i = e
    BY <2>1, <2>2, <1>4
  <2>4. QED
    BY <2>1, <2>3, Sizes
<1>18. TxTypeOK'
  <2>1. [ptdesc[e] EXCEPT !.flags = ptdesc[e].flags \ {"OWN"}]
        \in [flags : SUBSET Flag, B1ADD : (TxPbufs \cup {NULL}) \X Nat]
    BY <1>12
  <2>2. ptdesc' \in [TxIndex -> [flags : SUBSET Flag, B1ADD : (TxPbufs \cup {NULL}) \X Nat]]
    BY <2>1, <1>2, <1>12
  <2>3. QED
    BY <2>2, <1>3, <1>8, <1>9, <1>15 DEF TxTypeOK
<1>19. TxIndexInv'
  <2>1. TxSent' \in 0 .. TxUsed' - Filled'
    BY <1>5, <1>6, <1>7, <1>11
  <2>2. Filled' > 0 => TxSent' < TxUsed'
    BY <1>5, <1>7, <1>11
  <2>3. txDma'.idx = Place(tx_reclaim_idx', TxSent', NTx)
    BY <1>3, <1>4, <1>11, <1>15
  <2>4. ASSUME NEW m \in 1 .. Coming
        PROVE  due'[TxUsed' - TxSent' + m] = <<output.p, output.done + m>>
    <3>1. due[TxUsed - TxSent + m] = <<output.p, output.done + m>>
      BY DEF TxInv, TxIndexInv
    <3>2. TxUsed - TxSent - 1 + m \in 1 .. Len(due) - 1
          /\ (TxUsed - TxSent - 1 + m) + 1 = TxUsed - TxSent + m
          /\ TxUsed' - TxSent' + m = TxUsed - TxSent - 1 + m
      BY <1>5, <1>6, <1>7, <1>10, <1>11
    <3>3. due'[TxUsed - TxSent - 1 + m] = due[(TxUsed - TxSent - 1 + m) + 1]
      BY <1>9, <3>2
    <3>4. QED
      BY <3>1, <3>2, <3>3
  <2>5. /\ Filled <= TxUsed
        /\ tx_fill_idx = Place(tx_reclaim_idx, TxUsed - Filled, LPC_NUM_BUFF_TXDESCS)
        /\ Filling => output.idx = Place(tx_reclaim_idx, TxUsed, LPC_NUM_BUFF_TXDESCS)
    BY DEF TxInv, TxIndexInv
  <2>6. \A m \in 1 .. Coming' : due'[TxUsed' - TxSent' + m] = <<output'.p, output'.done + m>>
    BY <1>3, <1>7, <2>4
  <2>7. QED
    BY <2>1, <2>2, <2>3, <2>5, <2>6, <1>3, <1>7 DEF TxIndexInv, NTx
<1>20. ASSUME NEW i \in TxIndex, TxAhead(i) < TxUsed PROVE TxDescInv(i)'
  <2>1. TxDescInv(i)
    BY <1>20 DEF TxInv
  <2>2. ptdesc'[i].B1ADD = ptdesc[i].B1ADD
        /\ ("FS" \in ptdesc'[i].flags <=> "FS" \in ptdesc[i].flags)
        /\ ("LS" \in ptdesc'[i].flags <=> "LS" \in ptdesc[i].flags)
    <3>1. ("FS" \in ptdesc'[e].flags <=> "FS" \in ptdesc[e].flags)
          /\ ("LS" \in ptdesc'[e].flags <=> "LS" \in ptdesc[e].flags)
      BY <1>14
    <3>2. i = e \/ ptdesc'[i] = ptdesc[i]
      BY <1>13
    <3>3. QED
      BY <1>14, <3>1, <3>2, Zenon
  <2>3. Saves(i)'
    <3>1. Saves(i)
      BY <2>1 DEF TxDescInv
    <3>2. QED
      BY <3>1, <1>3, <1>7, <1>16, <2>2 DEF Saves
  <2>4. "OWN" \in ptdesc'[i].flags <=>
            TxAhead(i) >= TxSent + 1 /\ (Filled > 0 => TxAhead(i) # TxUsed - Filled)
    <3>1. CASE i = e
      <4>1. ~(TxAhead(i) >= TxSent + 1)
        BY <3>1, <1>4, <1>5
      <4>2. QED
        BY <3>1, <4>1, <1>14
    <3>2. CASE i # e
      <4>1. TxAhead(i) >= TxSent + 1 <=> TxAhead(i) >= TxSent
        BY <3>2, <1>5, <1>17
      <4>2. QED
        BY <3>2, <4>1, <1>13, <2>1 DEF TxDescInv
    <3>3. QED
      BY <3>1, <3>2
  <2>5. ASSUME TxAhead(i) >= TxSent + 1
        PROVE  ptdesc[i].B1ADD = due'[TxAhead(i) - (TxSent + 1) + 1]
    <3>1. TxAhead(i) >= TxSent /\ TxAhead(i) \in Nat
      BY <1>5, <1>17, <2>5
    <3>2. ptdesc[i].B1ADD = due[TxAhead(i) - TxSent + 1]
      BY <2>1, <3>1 DEF TxDescInv
    <3>3. TxAhead(i) - (TxSent + 1) + 1 \in 1 .. Len(due) - 1
          /\ (TxAhead(i) - (TxSent + 1) + 1) + 1 = TxAhead(i) - TxSent + 1
      BY <1>5, <1>6, <1>10, <1>20, <2>5, <3>1
    <3>4. due'[TxAhead(i) - (TxSent + 1) + 1] = due[(TxAhead(i) - (TxSent + 1) + 1) + 1]
      BY <1>9, <3>3
    <3>5. QED
      BY <3>2, <3>3, <3>4
  <2>6. /\ ptdesc[i].B1ADD[1] \in TxPbufs
        /\ "FS" \in ptdesc[i].flags <=> ptdesc[i].B1ADD[2] = 1
        /\ "LS" \in ptdesc[i].flags <=> ptdesc[i].B1ADD[2] = pbuf_clen[ptdesc[i].B1ADD[1]]
        /\ Filled > 0 /\ TxAhead(i) = TxUsed - Filled => ptdesc[i].B1ADD[2] = 1
    BY <2>1 DEF TxDescInv
  <2>7. TxAhead(i)' = TxAhead(i)
    BY <1>16
  <2>8. QED
    BY <2>2, <2>3, <2>4, <2>5, <2>6, <2>7, <1>7, <1>11 DEF TxDescInv
<1>21. ASSUME NEW i \in TxIndex, TxAhead(i) >= TxUsed
       PROVE  ptdesc'[i].flags = {} /\ txpbufs'[i] = NULL
  <2>1. i # e
    BY <1>4, <1>5, <1>21
  <2>2. QED
    BY <1>3, <1>13, <1>21, <2>1 DEF TxInv
<1>22. RefInv'
  <2>1. \A q : Held(q)' = Held(q) /\ SavedAt(q)' = SavedAt(q)
    BY <1>3, <1>7 DEF Held, SavedAt
  <2>2. QED
    BY <2>1, <1>3, ReferencesSplit DEF RefInv
<1>23. QED
  BY <1>7, <1>16, <1>18, <1>19, <1>20, <1>21, <1>22 DEF TxInv

\* The DMA stops at a descriptor that is not its own: nothing is due, or the first of a frame.
LEMMA DmaStops ==
  ASSUME ThreadInv, TxInv, "OWN" \notin ptdesc[txDma.idx].flags
  PROVE  due = <<>> \/ Head(due)[2] = 1
<1>1. TxTypeOK /\ txDma.idx \in TxIndex /\ due \in Seq(Fragment)
  BY DEF TxInv, TxTypeOK
<1>2. TxUsed \in Nat /\ TxUsed <= NTx /\ Filled \in Nat /\ Coming \in Nat
  BY <1>1, OutputType, Sizes
<1>3. TxSent \in Nat /\ TxSent <= TxUsed - Filled /\ TxSent <= TxUsed
      /\ Len(due) \in Nat /\ Len(due) = TxUsed - TxSent + Coming
  BY DueLength DEF TxInv
<1>4. Len(due) = 0 \/ (due # <<>> /\ Head(due) = due[1])
  <2>1. Len(due) = 0 \/ Len(due) > 0
    BY <1>3
  <2>2. Len(due) > 0 => due # <<>> /\ Head(due) = due[1]
    BY <1>1, RestParts
  <2>3. QED
    BY <2>1, <2>2
<1>5. Len(due) = 0 => due = <<>>
  BY <1>1, EmptySeq
<1>6. CASE TxSent < TxUsed
  <2>1. TxSent \in 0 .. NTx - 1
    BY <1>2, <1>3, <1>6, Sizes
  <2>2. TxAhead(txDma.idx) = TxSent
    BY <1>1, <2>1, TxPlace DEF TxInv, TxIndexInv, NTx
  <2>3. TxDescInv(txDma.idx)
    BY <1>1, <1>6, <2>2 DEF TxInv
  <2>4. TxSent >= TxSent /\ TxSent - TxSent + 1 = 1
    BY <1>3
  <2>5. Filled > 0 /\ TxSent = TxUsed - Filled
    BY <2>2, <2>3, <2>4 DEF TxDescInv
  <2>6. ptdesc[txDma.idx].B1ADD[2] = 1 /\ ptdesc[txDma.idx].B1ADD = due[1]
    BY <2>2, <2>3, <2>4, <2>5 DEF TxDescInv
  <2>7. QED
    BY <2>6, <1>4, <1>5
<1>7. CASE TxSent = TxUsed
  <2>1. Filled = 0
    BY <1>2, <1>3, <1>7
  <2>2. CASE Coming = 0
    BY <1>2, <1>3, <1>5, <1>7, <2>2
  <2>3. CASE Coming > 0
    <3>1. Filling /\ output.done = 0
      BY <2>1, <2>3 DEF Filled, Coming
    <3>2. 1 \in 1 .. Coming
      BY <1>2, <2>3
    <3>3. due[TxUsed - TxSent + 1] = <<output.p, output.done + 1>>
      BY <3>2 DEF TxInv, TxIndexInv
    <3>4. TxUsed - TxSent + 1 = 1 /\ output.done + 1 = 1
      BY <1>2, <1>7, <3>1
    <3>5. due[1] = <<output.p, 1>>
      BY <3>3, <3>4
    <3>6. QED
      BY <3>5, <1>4, <1>5
  <2>4. QED
    BY <1>2, <2>2, <2>3
<1>8. QED
  BY <1>2, <1>3, <1>6, <1>7

(***************************************************************************)
(* The threads.                                                            *)
(***************************************************************************)

\* A step of a thread that leaves the mutex and the ring for transmission alone.
LEMMA ThreadMoves ==
  ASSUME ThreadInv, NEW t \in Threads, NEW from, NEW to, Goes(t, from, to),
         to \in {"fetch", "work", "sem", "loop", "queue", "deliver"} \/ (t = "clean" /\ to = "lock"),
         from # "fill" /\ from # "poll" /\ from # "reclaim",
         UNCHANGED <<TXLockMutex, output, tx_fill_idx, tx_free_descs>>
  PROVE  ThreadInv' /\ (Filling' <=> Filling)
<1>1. at' = [at EXCEPT ![t] = to] /\ at[t] = from
  BY DEF Goes
<1>2. at \in [Threads -> {"fetch", "work", "wait", "lock", "fill", "poll", "sem", "reclaim",
                           "loop", "queue", "deliver"}]
  BY DEF ThreadInv
<1>3. at' \in [Threads -> {"fetch", "work", "wait", "lock", "fill", "poll", "sem", "reclaim",
                           "loop", "queue", "deliver"}]
  BY <1>1, <1>2
<1>4. at'[t] = to /\ \A u \in Threads : u # t => at'[u] = at[u]
  BY <1>1, <1>2
<1>5. at'["tcpip"] \in {"fill", "poll"} <=> at["tcpip"] \in {"fill", "poll"}
  BY <1>1, <1>4 DEF Threads
<1>6. at'["clean"] = "reclaim" <=> at["clean"] = "reclaim"
  BY <1>1, <1>4 DEF Threads
<1>7. \A s \in {"wait", "lock", "fill"} : at'["tcpip"] = s => at["tcpip"] = s
  BY <1>1, <1>4 DEF Threads
<1>8. dn' = dn
  BY DEF dn
<1>9. at'["tcpip"] = "fill" <=> at["tcpip"] = "fill"
  BY <1>1, <1>4 DEF Threads
<1>10. QED
  BY <1>3, <1>5, <1>6, <1>7, <1>8, <1>9 DEF ThreadInv, Filling

\* Steps of none of them.
LEMMA ThreadsStay ==
  ASSUME ThreadInv, UNCHANGED <<at, TXLockMutex, output, tx_fill_idx, tx_free_descs>>
  PROVE  ThreadInv' /\ (Filling' <=> Filling)
BY DEF ThreadInv, Filling, dn

LEMMA LockFree ==
  ASSUME ThreadInv, NEW t \in Threads, NEW to, TakesLock(t, to)
  PROVE  at["clean"] # "reclaim" /\ at["tcpip"] \notin {"fill", "poll"}
<1>1. TXLockMutex = NULL
  BY DEF TakesLock, Runs, Ready, WaitsForLock, Goes
<1>2. TXLockMutex # "tcpip" /\ TXLockMutex # "clean"
  BY <1>1, EmacAssumption
<1>3. QED
  BY <1>2 DEF ThreadInv

\* The steps of an output.
LEMMA OutputThreads ==
  ASSUME ThreadInv, TxInv,
         (\E p \in TxPbufs : Output(p)) \/ Enough \/ LockForOutput \/ Fill \/ GiveFirst \/ Poll
  PROVE  ThreadInv'
<1> USE DEF Goes
<1>1. at \in [Threads -> {"fetch", "work", "wait", "lock", "fill", "poll", "sem", "reclaim",
                           "loop", "queue", "deliver"}]
  BY DEF ThreadInv
<1>2. ASSUME NEW s, at' = [at EXCEPT !["tcpip"] = s],
             s \in {"fetch", "wait", "lock", "fill", "poll"}
      PROVE  /\ at' \in [Threads -> {"fetch", "work", "wait", "lock", "fill", "poll", "sem",
                                     "reclaim", "loop", "queue", "deliver"}]
             /\ at'["tcpip"] = s /\ at'["clean"] = at["clean"]
  BY <1>1, <1>2 DEF Threads
<1>3. ASSUME NEW p \in TxPbufs, Output(p) PROVE ThreadInv'
  <2>1. /\ at' = [at EXCEPT !["tcpip"] = "wait"] /\ at["tcpip"] = "work"
        /\ output' = [p |-> p, done |-> 0, idx |-> tx_fill_idx]
        /\ UNCHANGED <<TXLockMutex, tx_fill_idx>>
    BY <1>3 DEF Output
  <2>2. at'["tcpip"] = "wait" /\ at'["clean"] = at["clean"]
        /\ at' \in [Threads -> {"fetch", "work", "wait", "lock", "fill", "poll", "sem",
                                     "reclaim", "loop", "queue", "deliver"}]
    BY <1>2, <2>1
  <2>3. QED
    BY <2>1, <2>2 DEF ThreadInv, Filling
<1>4. ASSUME Enough PROVE ThreadInv'
  <2>1. /\ at' = [at EXCEPT !["tcpip"] = "lock"] /\ at["tcpip"] = "wait" /\ dn <= tx_free_descs
        /\ UNCHANGED <<TXLockMutex, tx_fill_idx, output, tx_free_descs>>
    BY <1>4 DEF Enough, txVars
  <2>2. at'["tcpip"] = "lock" /\ at'["clean"] = at["clean"]
        /\ at' \in [Threads -> {"fetch", "work", "wait", "lock", "fill", "poll", "sem",
                                     "reclaim", "loop", "queue", "deliver"}]
    BY <1>2, <2>1
  <2>3. dn' = dn
    BY <2>1 DEF dn
  <2>4. QED
    BY <2>1, <2>2, <2>3 DEF ThreadInv, Filling
<1>5. ASSUME LockForOutput PROVE ThreadInv'
  <2>1. /\ at' = [at EXCEPT !["tcpip"] = "fill"] /\ at["tcpip"] = "lock"
        /\ TXLockMutex' = "tcpip" /\ UNCHANGED <<tx_fill_idx, output, tx_free_descs>>
    BY <1>5 DEF LockForOutput, TakesLock
  <2>2. at'["tcpip"] = "fill" /\ at'["clean"] = at["clean"]
        /\ at' \in [Threads -> {"fetch", "work", "wait", "lock", "fill", "poll", "sem",
                                     "reclaim", "loop", "queue", "deliver"}]
    BY <1>2, <2>1
  <2>3. at["clean"] # "reclaim"
    BY <1>5, LockFree DEF LockForOutput, Threads
  <2>4. output.p \in TxPbufs /\ output.done = 0 /\ dn <= tx_free_descs
    BY <2>1 DEF ThreadInv
  <2>5. dn \in Nat /\ dn' = dn
    BY <2>1, <2>4, EmacAssumption DEF dn
  <2>6. output.done <= dn /\ dn - output.done <= tx_free_descs
    BY <2>4, <2>5
  <2>7. QED
    BY <2>1, <2>2, <2>3, <2>4, <2>5, <2>6 DEF ThreadInv, Filling
<1>6. ASSUME Fill PROVE ThreadInv'
  <2>1. UNCHANGED <<at, TXLockMutex>>
    BY <1>6 DEF Fill
  <2>2. /\ Filling /\ Filling' /\ output'.p = output.p /\ dn' = dn
        /\ output'.done = output.done + 1 /\ tx_free_descs' = tx_free_descs - 1
        /\ output.done < dn
    BY <1>6, FillFacts
  <2>3. output.done \in Nat /\ dn \in Nat /\ tx_free_descs \in Nat
    <3>1. output.done \in Nat /\ dn \in Nat
      BY <1>6, FillFacts, Sizes
    <3>2. tx_free_descs \in Nat
      BY Sizes DEF TxInv, TxTypeOK
    <3>3. QED
      BY <3>1, <3>2
  <2>4. output'.done <= dn' /\ dn' - output'.done <= tx_free_descs'
    <3>1. dn - output.done <= tx_free_descs
      BY <2>2 DEF ThreadInv
    <3>2. QED
      BY <3>1, <2>2, <2>3
  <2>5. at["tcpip"] = "fill"
    BY <2>2 DEF Filling
  <2>6. QED
    BY <2>1, <2>2, <2>4, <2>5 DEF ThreadInv
<1>7. ASSUME GiveFirst PROVE ThreadInv'
  <2>1. /\ at' = [at EXCEPT !["tcpip"] = "poll"] /\ at["tcpip"] = "fill"
        /\ UNCHANGED TXLockMutex
    BY <1>7 DEF GiveFirst
  <2>2. at'["tcpip"] = "poll" /\ at'["clean"] = at["clean"]
        /\ at' \in [Threads -> {"fetch", "work", "wait", "lock", "fill", "poll", "sem",
                                     "reclaim", "loop", "queue", "deliver"}]
    BY <1>2, <2>1
  <2>3. QED
    BY <2>1, <2>2 DEF ThreadInv, Filling
<1>8. ASSUME Poll PROVE ThreadInv'
  <2>1. /\ at' = [at EXCEPT !["tcpip"] = "fetch"] /\ at["tcpip"] = "poll"
        /\ TXLockMutex' = NULL
    BY <1>8 DEF Poll
  <2>2. at'["tcpip"] = "fetch" /\ at'["clean"] = at["clean"]
        /\ at' \in [Threads -> {"fetch", "work", "wait", "lock", "fill", "poll", "sem",
                                     "reclaim", "loop", "queue", "deliver"}]
    BY <1>2, <2>1
  <2>3. at["clean"] # "reclaim"
    BY <2>1 DEF ThreadInv
  <2>4. NULL # "tcpip" /\ NULL # "clean"
    BY EmacAssumption
  <2>5. QED
    BY <2>1, <2>2, <2>3, <2>4 DEF ThreadInv, Filling
<1>9. QED
  BY <1>3, <1>4, <1>5, <1>6, <1>7, <1>8

\* Those of the cleanup task.
LEMMA CleanThreads ==
  ASSUME ThreadInv, TxInv, vTransmitCleanupTask
  PROVE  ThreadInv' /\ (Filling' <=> Filling)
<1>1. CASE CleanWakes
  <2>1. Goes("clean", "sem", "lock") /\ UNCHANGED <<TXLockMutex, output, tx_fill_idx, tx_free_descs>>
    BY <1>1 DEF CleanWakes, txVars
  <2>2. QED
    BY <2>1, ThreadMoves DEF Threads
<1>2. CASE LockForReclaim
  <2>1. /\ at' = [at EXCEPT !["clean"] = "reclaim"] /\ at["clean"] = "lock"
        /\ TXLockMutex' = "clean" /\ UNCHANGED <<tx_fill_idx, output, tx_free_descs>>
    BY <1>2 DEF LockForReclaim, TakesLock, Goes, txVars
  <2>2. at["tcpip"] \notin {"fill", "poll"}
    BY <1>2, LockFree DEF LockForReclaim, Threads
  <2>3. at'["clean"] = "reclaim" /\ at'["tcpip"] = at["tcpip"]
        /\ at' \in [Threads -> {"fetch", "work", "wait", "lock", "fill", "poll", "sem",
                                     "reclaim", "loop", "queue", "deliver"}]
    BY <2>1 DEF ThreadInv, Threads
  <2>4. dn' = dn
    BY <2>1 DEF dn
  <2>5. QED
    BY <2>1, <2>2, <2>3, <2>4 DEF ThreadInv, Filling
<1>3. CASE Reclaim
  <2>1. UNCHANGED <<at, TXLockMutex, output, tx_fill_idx>>
    BY <1>3 DEF Reclaim
  <2>2. tx_free_descs \in Nat /\ tx_free_descs' = tx_free_descs + 1 /\ ~Filling /\ ~Filling'
    BY <1>3, ReclaimFacts, Sizes
  <2>3. dn' = dn
    BY <2>1 DEF dn
  <2>4. at["tcpip"] = "lock" => dn <= tx_free_descs'
    <3>1. SUFFICES ASSUME at["tcpip"] = "lock" PROVE dn <= tx_free_descs'
      OBVIOUS
    <3>2. output.p \in TxPbufs /\ dn <= tx_free_descs
      BY <3>1 DEF ThreadInv
    <3>3. dn \in Nat
      BY <3>2, EmacAssumption DEF dn
    <3>4. QED
      BY <2>2, <3>2, <3>3
  <2>5. QED
    BY <2>1, <2>2, <2>3, <2>4 DEF ThreadInv
<1>4. CASE ReclaimEnds
  <2>1. /\ at' = [at EXCEPT !["clean"] = "sem"] /\ at["clean"] = "reclaim"
        /\ TXLockMutex' = NULL /\ UNCHANGED <<tx_fill_idx, output, tx_free_descs>>
    BY <1>4 DEF ReclaimEnds, Goes, txVars
  <2>2. at["tcpip"] \notin {"fill", "poll"}
    BY <2>1 DEF ThreadInv
  <2>3. at'["clean"] = "sem" /\ at'["tcpip"] = at["tcpip"]
        /\ at' \in [Threads -> {"fetch", "work", "wait", "lock", "fill", "poll", "sem",
                                     "reclaim", "loop", "queue", "deliver"}]
    BY <2>1 DEF ThreadInv, Threads
  <2>4. dn' = dn /\ NULL # "tcpip" /\ NULL # "clean"
    BY <2>1, EmacAssumption DEF dn
  <2>5. QED
    BY <2>1, <2>2, <2>3, <2>4 DEF ThreadInv, Filling
<1>5. QED
  BY <1>1, <1>2, <1>3, <1>4 DEF vTransmitCleanupTask

(***************************************************************************)
(* Reception: what the ring has, as a function of its parts, since a       *)
(* buffer with an error is taken and queued in one step.                   *)
(***************************************************************************)
Far(i, g) == Ahead(i, g, NRx)

RingOK(g, next, used, dma, desc, bufs, came) ==
  /\ g \in 0 .. NRx - 1 /\ used \in 0 .. NRx /\ came \in Seq(Frames)
  /\ desc \in [RxIndex -> [OWN : BOOLEAN, frame : Frames \cup {NULL}]]
  /\ bufs \in [RxIndex -> RxPbufs \cup {NULL}]
  /\ Len(came) <= used
  /\ dma = Place(g, Len(came), NRx)
  /\ next = Place(g, used, NRx)
  /\ \A i \in RxIndex : desc[i].OWN <=> Far(i, g) >= Len(came) /\ Far(i, g) < used
  /\ \A i \in RxIndex : Far(i, g) < Len(came) => desc[i].frame = came[Far(i, g) + 1]
  /\ \A i \in RxIndex : Far(i, g) < used => bufs[i] \in RxPbufs
  /\ \A i, j \in RxIndex : Far(i, g) < used /\ Far(j, g) < used /\ bufs[i] = bufs[j] => i = j

RingHas(g, used, bufs) == {bufs[i] : i \in {i \in RxIndex : Far(i, g) < used}}

\* What the steps make of the parts.
Put(bufs, i, p) == [bufs EXCEPT ![i] = p]
NoFrame(desc, i) == [desc EXCEPT ![i].frame = NULL]
Handed(desc, i) == [desc EXCEPT ![i] = [OWN |-> TRUE, frame |-> NULL]]
Rest(s) == SubSeq(s, 2, Len(s))

LEMMA FarType ==
  ASSUME NEW g \in 0 .. NRx - 1, NEW i \in RxIndex
  PROVE  Far(i, g) \in 0 .. NRx - 1 /\ Far(i, g) \in Nat /\ Place(g, Far(i, g), NRx) = i
<1>1. Far(i, g) \in 0 .. NRx - 1 /\ Place(g, Far(i, g), NRx) = i
  BY Sizes, AheadPlace DEF Far
<1>2. QED
  BY <1>1, Sizes

LEMMA FarPlace ==
  ASSUME NEW g \in 0 .. NRx - 1, NEW k \in 0 .. NRx - 1
  PROVE  /\ Place(g, k, NRx) \in RxIndex /\ Far(Place(g, k, NRx), g) = k
         /\ RxNext(Place(g, k, NRx)) = Place(g, k + 1, NRx) /\ RxNext(Place(g, k, NRx)) \in RxIndex
<1>1. Place(g, k, NRx) \in RxIndex /\ Far(Place(g, k, NRx), g) = k
  BY Sizes, PlaceAhead DEF Far
<1>2. RxNext(Place(g, k, NRx)) = Place(g, k + 1, NRx)
  BY Sizes, PlaceNext DEF RxNext, NRx
<1>3. RxNext(Place(g, k, NRx)) \in RxIndex
  BY <1>1, Sizes, NextPlace DEF RxNext, NRx
<1>4. QED
  BY <1>1, <1>2, <1>3

\* The next descriptor is done with, and holds the frame that came first.
FirstCame(g, used, desc, bufs, came) ==
    /\ Len(came) > 0 /\ desc[g].frame = came[1] /\ came[1] \in Frames
    /\ bufs[g] \in RxPbufs /\ bufs[g] \in RingHas(g, used, bufs)

\* The ring without it.
RingLess(g, next, used, dma, desc, bufs, came) ==
    /\ RingOK(RxNext(g), next, used - 1, dma, NoFrame(desc, g), Put(bufs, g, NULL), Rest(came))
    /\ RingHas(RxNext(g), used - 1, Put(bufs, g, NULL)) = RingHas(g, used, bufs) \ {bufs[g]}

\* The first descriptor in use is taken.
LEMMA RingTaken ==
  ASSUME NEW g, NEW next, NEW used, NEW dma, NEW desc, NEW bufs, NEW came,
         RingOK(g, next, used, dma, desc, bufs, came), ~desc[g].OWN, used > 0
  PROVE  /\ FirstCame(g, used, desc, bufs, came)
         /\ RingLess(g, next, used, dma, desc, bufs, came)
<1> DEFINE L == Len(came)
           d == NoFrame(desc, g)
           b == Put(bufs, g, NULL)
           rest == Rest(came)
<1>1. g \in 0 .. NRx - 1 /\ g \in RxIndex /\ used \in Nat /\ used <= NRx /\ came \in Seq(Frames)
      /\ L \in Nat /\ L <= used
  BY Sizes, LenProperties DEF RingOK
<1>2. desc \in [RxIndex -> [OWN : BOOLEAN, frame : Frames \cup {NULL}]]
      /\ bufs \in [RxIndex -> RxPbufs \cup {NULL}]
  BY DEF RingOK
<1>3. dma = Place(g, L, NRx) /\ next = Place(g, used, NRx)
  BY DEF RingOK
<1>4. \A i \in RxIndex : /\ desc[i].OWN <=> Far(i, g) >= L /\ Far(i, g) < used
                         /\ Far(i, g) < L => desc[i].frame = came[Far(i, g) + 1]
                         /\ Far(i, g) < used => bufs[i] \in RxPbufs
  BY DEF RingOK
<1>5. Far(g, g) = 0
  BY <1>1, Sizes, PlaceEnds DEF Far
<1>6. L > 0
  BY <1>1, <1>4, <1>5
<1>7. desc[g].frame = came[1] /\ bufs[g] \in RxPbufs
  <2>1. desc[g].frame = came[0 + 1] /\ bufs[g] \in RxPbufs
    BY <1>1, <1>4, <1>5, <1>6
  <2>2. QED
    BY <2>1
<1>8. came[1] \in Frames
  BY <1>1, <1>6, ElementOfSeq
<1>9. bufs[g] \in RingHas(g, used, bufs)
  BY <1>1, <1>5 DEF RingHas
<1>10. /\ rest \in Seq(Frames) /\ Len(rest) = L - 1
       /\ \A k \in 1 .. L - 1 : rest[k] = came[k + 1]
  BY <1>1, <1>6, RestParts DEF Rest
<1> HIDE DEF rest
<1>11. RxNext(g) \in 0 .. NRx - 1
       /\ (\A k \in 0 .. NRx - 1 : Place(RxNext(g), k, NRx) = Place(g, k + 1, NRx))
       /\ \A i \in RxIndex : Far(i, RxNext(g)) = IF i = g THEN NRx - 1 ELSE Far(i, g) - 1
  BY <1>1, Sizes, NextPlace DEF RxNext, Far, NRx
<1>12. \A i \in RxIndex : /\ Far(i, g) \in Nat /\ Far(i, g) < NRx
                          /\ i # g => Far(i, g) > 0
  <2>1. SUFFICES ASSUME NEW i \in RxIndex
                 PROVE  Far(i, g) \in Nat /\ Far(i, g) < NRx /\ (i # g => Far(i, g) > 0)
    OBVIOUS
  <2>2. Far(i, g) \in 0 .. NRx - 1 /\ Place(g, Far(i, g), NRx) = i
    BY <1>1, FarType
  <2>3. Place(g, 0, NRx) = g
    BY <1>1, Sizes, PlaceEnds
  <2>4. Far(i, g) = 0 => i = g
    BY <2>2, <2>3
  <2>5. QED
    BY <2>2, <2>4, Sizes
<1>13. d \in [RxIndex -> [OWN : BOOLEAN, frame : Frames \cup {NULL}]]
       /\ b \in [RxIndex -> RxPbufs \cup {NULL}]
  BY <1>1, <1>2 DEF NoFrame, Put
<1>14. /\ d[g].OWN <=> desc[g].OWN
       /\ \A i \in RxIndex : i # g => d[i] = desc[i] /\ b[i] = bufs[i]
  BY <1>1, <1>2 DEF NoFrame, Put
<1> HIDE DEF d, b
<1>15. ASSUME NEW i \in RxIndex, i # g
       PROVE  /\ Far(i, RxNext(g)) \in Nat /\ Far(i, RxNext(g)) = Far(i, g) - 1
              /\ (Far(i, RxNext(g)) < used - 1 <=> Far(i, g) < used)
              /\ (Far(i, RxNext(g)) < L - 1 <=> Far(i, g) < L)
              /\ (Far(i, RxNext(g)) >= L - 1 <=> Far(i, g) >= L)
  BY <1>1, <1>11, <1>12, <1>15
<1>16. Far(g, RxNext(g)) = NRx - 1 /\ ~(NRx - 1 < used - 1) /\ ~(NRx - 1 < L - 1)
  BY <1>1, <1>11, Sizes
<1>17. \A i \in RxIndex : d[i].OWN <=> Far(i, RxNext(g)) >= L - 1 /\ Far(i, RxNext(g)) < used - 1
  BY <1>4, <1>14, <1>15, <1>16
<1>18. ASSUME NEW i \in RxIndex, Far(i, RxNext(g)) < L - 1
       PROVE  d[i].frame = rest[Far(i, RxNext(g)) + 1]
  <2>1. i # g
    BY <1>16, <1>18
  <2>2. d[i].frame = came[Far(i, g) + 1]
    BY <1>4, <1>14, <1>15, <1>18, <2>1
  <2>3. Far(i, g) \in 1 .. L - 1 /\ Far(i, RxNext(g)) + 1 = Far(i, g)
    BY <1>1, <1>12, <1>15, <1>18, <2>1
  <2>4. QED
    BY <2>2, <2>3, <1>10
<1>19. \A i \in RxIndex : Far(i, RxNext(g)) < used - 1 => b[i] \in RxPbufs
  BY <1>4, <1>14, <1>15, <1>16
<1>20. ASSUME NEW i \in RxIndex, NEW j \in RxIndex, Far(i, RxNext(g)) < used - 1,
              Far(j, RxNext(g)) < used - 1, b[i] = b[j]
       PROVE  i = j
  <2>1. i # g /\ j # g
    BY <1>16, <1>20
  <2>2. Far(i, g) < used /\ Far(j, g) < used /\ bufs[i] = bufs[j]
    BY <1>14, <1>15, <1>20, <2>1
  <2>3. QED
    BY <2>2 DEF RingOK
<1>21. dma = Place(RxNext(g), L - 1, NRx) /\ next = Place(RxNext(g), used - 1, NRx)
  <2>1. L - 1 \in 0 .. NRx - 1 /\ used - 1 \in 0 .. NRx - 1 /\ (L - 1) + 1 = L
        /\ (used - 1) + 1 = used
    BY <1>1, <1>6, Sizes
  <2>2. QED
    BY <2>1, <1>3, <1>11
<1>22. RingOK(RxNext(g), next, used - 1, dma, d, b, rest)
  <2>1. used - 1 \in 0 .. NRx /\ Len(rest) <= used - 1
    BY <1>1, <1>10, Sizes
  <2>2. Len(rest) = L - 1
    BY <1>10
  <2>3. \A i \in RxIndex : d[i].OWN <=> Far(i, RxNext(g)) >= Len(rest) /\ Far(i, RxNext(g)) < used - 1
    BY <1>17, <2>2
  <2>4. \A i \in RxIndex : Far(i, RxNext(g)) < Len(rest) =>
                               d[i].frame = rest[Far(i, RxNext(g)) + 1]
    BY <1>18, <2>2
  <2>5. dma = Place(RxNext(g), Len(rest), NRx)
    BY <1>21, <2>2
  <2>6. QED
    BY <2>1, <2>3, <2>4, <2>5, <1>10, <1>11, <1>13, <1>19, <1>20, <1>21 DEF RingOK
<1>23. RingHas(RxNext(g), used - 1, b) = RingHas(g, used, bufs) \ {bufs[g]}
  <2>1. ASSUME NEW x \in RingHas(RxNext(g), used - 1, b)
        PROVE  x \in RingHas(g, used, bufs) \ {bufs[g]}
    <3>1. PICK i \in RxIndex : Far(i, RxNext(g)) < used - 1 /\ x = b[i]
      BY <2>1 DEF RingHas
    <3>2. i # g
      BY <1>16, <3>1
    <3>3. Far(i, g) < used /\ x = bufs[i]
      BY <1>14, <1>15, <3>1, <3>2
    <3>4. bufs[i] # bufs[g]
      BY <1>1, <1>5, <3>2, <3>3 DEF RingOK
    <3>5. QED
      BY <3>3, <3>4 DEF RingHas
  <2>2. ASSUME NEW x \in RingHas(g, used, bufs), x # bufs[g]
        PROVE  x \in RingHas(RxNext(g), used - 1, b)
    <3>1. PICK i \in RxIndex : Far(i, g) < used /\ x = bufs[i]
      BY <2>2 DEF RingHas
    <3>2. i # g
      BY <2>2, <3>1
    <3>3. QED
      BY <1>14, <1>15, <3>1, <3>2 DEF RingHas
  <2>3. QED
    BY <2>1, <2>2
<1>24. QED
  <2>1. FirstCame(g, used, desc, bufs, came)
    BY <1>6, <1>7, <1>8, <1>9 DEF FirstCame
  <2>2. RingLess(g, next, used, dma, desc, bufs, came)
    BY <1>22, <1>23 DEF RingLess, d, b, rest
  <2>3. QED
    BY <2>1, <2>2

\* A buffer is queued behind the last.
LEMMA RingQueued ==
  ASSUME NEW g, NEW next, NEW used, NEW dma, NEW desc, NEW bufs, NEW came,
         RingOK(g, next, used, dma, desc, bufs, came), used < NRx,
         NEW p \in RxPbufs, p \notin RingHas(g, used, bufs)
  PROVE  /\ RingOK(g, RxNext(next), used + 1, dma, Handed(desc, next), Put(bufs, next, p), came)
         /\ RingHas(g, used + 1, Put(bufs, next, p)) = RingHas(g, used, bufs) \cup {p}
<1> DEFINE L == Len(came)
           d == Handed(desc, next)
           b == Put(bufs, next, p)
<1>1. g \in 0 .. NRx - 1 /\ used \in Nat /\ used <= NRx /\ came \in Seq(Frames)
      /\ L \in Nat /\ L <= used
  BY Sizes, LenProperties DEF RingOK
<1>2. desc \in [RxIndex -> [OWN : BOOLEAN, frame : Frames \cup {NULL}]]
      /\ bufs \in [RxIndex -> RxPbufs \cup {NULL}]
  BY DEF RingOK
<1>3. dma = Place(g, L, NRx) /\ next = Place(g, used, NRx)
  BY DEF RingOK
<1>4. \A i \in RxIndex : /\ desc[i].OWN <=> Far(i, g) >= L /\ Far(i, g) < used
                         /\ Far(i, g) < L => desc[i].frame = came[Far(i, g) + 1]
                         /\ Far(i, g) < used => bufs[i] \in RxPbufs
  BY DEF RingOK
<1>5. used \in 0 .. NRx - 1
  BY <1>1, Sizes
<1>6. next \in RxIndex /\ Far(next, g) = used /\ RxNext(next) = Place(g, used + 1, NRx)
  BY <1>1, <1>3, <1>5, FarPlace
<1>7. \A i \in RxIndex : Far(i, g) \in Nat /\ (Far(i, g) = used => i = next)
  BY <1>1, <1>3, FarType
<1>8. d \in [RxIndex -> [OWN : BOOLEAN, frame : Frames \cup {NULL}]]
      /\ b \in [RxIndex -> RxPbufs \cup {NULL}]
  BY <1>2, <1>6 DEF Handed, Put
<1>9. d[next].OWN /\ b[next] = p /\ \A i \in RxIndex : i # next => d[i] = desc[i] /\ b[i] = bufs[i]
  BY <1>2, <1>6 DEF Handed, Put
<1> HIDE DEF d, b
<1>10. ASSUME NEW i \in RxIndex, i # next PROVE Far(i, g) < used + 1 <=> Far(i, g) < used
  BY <1>1, <1>7, <1>10
<1>11. Far(next, g) >= L /\ ~(Far(next, g) < L) /\ Far(next, g) < used + 1
  BY <1>1, <1>6
<1>12. \A i \in RxIndex : d[i].OWN <=> Far(i, g) >= L /\ Far(i, g) < used + 1
  BY <1>4, <1>9, <1>10, <1>11
<1>13. \A i \in RxIndex : Far(i, g) < L => d[i].frame = came[Far(i, g) + 1]
  BY <1>4, <1>9, <1>11
<1>14. \A i \in RxIndex : Far(i, g) < used + 1 => b[i] \in RxPbufs
  BY <1>4, <1>9, <1>10
<1>15. ASSUME NEW i \in RxIndex, i # next, Far(i, g) < used + 1 PROVE b[i] # p /\ b[i] = bufs[i]
  BY <1>9, <1>10, <1>15 DEF RingHas
<1>16. ASSUME NEW i \in RxIndex, NEW j \in RxIndex, Far(i, g) < used + 1, Far(j, g) < used + 1,
              b[i] = b[j]
       PROVE  i = j
  <2>1. CASE i = next \/ j = next
    BY <1>9, <1>15, <1>16, <2>1
  <2>2. CASE i # next /\ j # next
    BY <1>10, <1>15, <1>16, <2>2 DEF RingOK
  <2>3. QED
    BY <2>1, <2>2
<1>17. RingOK(g, RxNext(next), used + 1, dma, d, b, came)
  <2>1. used + 1 \in 0 .. NRx /\ L <= used + 1
    BY <1>1, <1>5, Sizes
  <2>2. QED
    BY <2>1, <1>1, <1>3, <1>6, <1>8, <1>12, <1>13, <1>14, <1>16 DEF RingOK
<1>18. RingHas(g, used + 1, b) = RingHas(g, used, bufs) \cup {p}
  <2>1. ASSUME NEW x \in RingHas(g, used + 1, b) PROVE x \in RingHas(g, used, bufs) \cup {p}
    <3>1. PICK i \in RxIndex : Far(i, g) < used + 1 /\ x = b[i]
      BY <2>1 DEF RingHas
    <3>2. i # next => x = bufs[i] /\ Far(i, g) < used
      BY <3>1, <1>9, <1>10
    <3>3. QED
      BY <3>1, <3>2, <1>9 DEF RingHas
  <2>2. ASSUME NEW x \in RingHas(g, used, bufs) PROVE x \in RingHas(g, used + 1, b)
    <3>1. PICK i \in RxIndex : Far(i, g) < used /\ x = bufs[i]
      BY <2>2 DEF RingHas
    <3>2. i # next
      BY <3>1, <1>1, <1>6
    <3>3. Far(i, g) < used + 1 /\ x = b[i]
      BY <3>1, <3>2, <1>9, <1>10
    <3>4. QED
      BY <3>3 DEF RingHas
  <2>3. p \in RingHas(g, used + 1, b)
    BY <1>6, <1>9, <1>11 DEF RingHas
  <2>4. QED
    BY <2>1, <2>2, <2>3
<1>19. QED
  BY <1>17, <1>18 DEF d, b

\* The DMA writes a frame into the first descriptor that it has.
LEMMA RingArrives ==
  ASSUME NEW g, NEW next, NEW used, NEW dma, NEW desc, NEW bufs, NEW came,
         RingOK(g, next, used, dma, desc, bufs, came), desc[dma].OWN, NEW f \in Frames
  PROVE  /\ RingOK(g, next, used, RxNext(dma), [desc EXCEPT ![dma] = [OWN |-> FALSE, frame |-> f]],
                   bufs, Append(came, f))
         /\ RxNext(dma) \in RxIndex
<1> DEFINE L == Len(came)
           d == [desc EXCEPT ![dma] = [OWN |-> FALSE, frame |-> f]]
           more == Append(came, f)
<1>1. g \in 0 .. NRx - 1 /\ used \in Nat /\ used <= NRx /\ used \in 0 .. NRx
      /\ came \in Seq(Frames) /\ L \in Nat /\ L <= used
  BY Sizes, LenProperties DEF RingOK
<1>2. desc \in [RxIndex -> [OWN : BOOLEAN, frame : Frames \cup {NULL}]]
      /\ bufs \in [RxIndex -> RxPbufs \cup {NULL}]
  BY DEF RingOK
<1>3. dma = Place(g, L, NRx) /\ next = Place(g, used, NRx)
  BY DEF RingOK
<1>4. \A i \in RxIndex : /\ desc[i].OWN <=> Far(i, g) >= L /\ Far(i, g) < used
                         /\ Far(i, g) < L => desc[i].frame = came[Far(i, g) + 1]
                         /\ Far(i, g) < used => bufs[i] \in RxPbufs
  BY DEF RingOK
<1>5. L # NRx
  <2>1. SUFFICES ASSUME L = NRx PROVE FALSE
    OBVIOUS
  <2>2. dma = g /\ Far(g, g) = 0 /\ g \in RxIndex
    BY <1>1, <1>3, <2>1, PlaceEnds, Sizes DEF Far
  <2>3. 0 >= L
    BY <1>4, <2>2
  <2>4. QED
    BY <2>1, <2>3, Sizes
<1>6. L \in 0 .. NRx - 1
  BY <1>1, <1>5, Sizes
<1>7. dma \in RxIndex /\ Far(dma, g) = L /\ RxNext(dma) = Place(g, L + 1, NRx)
      /\ RxNext(dma) \in RxIndex
  BY <1>1, <1>3, <1>6, FarPlace
<1>8. L < used
  BY <1>4, <1>7
<1>9. \A i \in RxIndex : Far(i, g) \in Nat /\ (Far(i, g) = L => i = dma)
  BY <1>1, <1>3, FarType
<1>10. d \in [RxIndex -> [OWN : BOOLEAN, frame : Frames \cup {NULL}]]
  BY <1>2, <1>7
<1>11. ~d[dma].OWN /\ d[dma].frame = f /\ \A i \in RxIndex : i # dma => d[i] = desc[i]
  BY <1>2, <1>7
<1>12. /\ more \in Seq(Frames) /\ Len(more) = L + 1 /\ more[L + 1] = f
       /\ \A k \in 1 .. L : more[k] = came[k]
  BY <1>1, AppendProperties
<1> HIDE DEF d, more
<1>13. ASSUME NEW i \in RxIndex, i # dma
       PROVE  (Far(i, g) >= L + 1 <=> Far(i, g) >= L) /\ (Far(i, g) < L + 1 <=> Far(i, g) < L)
  BY <1>1, <1>9, <1>13
<1>14. \A i \in RxIndex : d[i].OWN <=> Far(i, g) >= L + 1 /\ Far(i, g) < used
  <2>1. SUFFICES ASSUME NEW i \in RxIndex
                 PROVE  d[i].OWN <=> Far(i, g) >= L + 1 /\ Far(i, g) < used
    OBVIOUS
  <2>2. CASE i = dma
    <3>1. ~(Far(i, g) >= L + 1)
      BY <1>1, <1>7, <2>2
    <3>2. QED
      BY <3>1, <1>11, <2>2
  <2>3. CASE i # dma
    BY <1>4, <1>11, <1>13, <2>3
  <2>4. QED
    BY <2>2, <2>3
<1>15. ASSUME NEW i \in RxIndex, Far(i, g) < L + 1 PROVE d[i].frame = more[Far(i, g) + 1]
  <2>1. CASE i = dma
    BY <1>7, <1>11, <1>12, <2>1
  <2>2. CASE i # dma
    <3>1. d[i].frame = came[Far(i, g) + 1]
      BY <1>4, <1>11, <1>13, <1>15, <2>2
    <3>2. Far(i, g) + 1 \in 1 .. L
      BY <1>1, <1>9, <1>13, <1>15, <2>2
    <3>3. QED
      BY <3>1, <3>2, <1>12
  <2>3. QED
    BY <2>1, <2>2
<1>16. Len(more) <= used
  BY <1>1, <1>8, <1>12
<1>17. \A i, j \in RxIndex : Far(i, g) < used /\ Far(j, g) < used /\ bufs[i] = bufs[j] => i = j
  BY DEF RingOK
<1>18. RingOK(g, next, used, RxNext(dma), d, bufs, more)
  BY <1>1, <1>2, <1>3, <1>4, <1>7, <1>10, <1>12, <1>14, <1>15, <1>16, <1>17 DEF RingOK
<1>19. QED
  BY <1>7, <1>18 DEF d, more

\* Sequences of buffers: what they have, and that it is all different.
Elems(s) == {s[i] : i \in DOMAIN s}
Distinct(s) == \A i, j \in DOMAIN s : s[i] = s[j] => i = j

LEMMA ElemsAppend ==
  ASSUME NEW T, NEW s \in Seq(T), NEW x \in T, x \notin Elems(s), Distinct(s)
  PROVE  Append(s, x) \in Seq(T) /\ Elems(Append(s, x)) = Elems(s) \cup {x} /\ Distinct(Append(s, x))
<1> DEFINE a == Append(s, x)
           n == Len(s)
<1>1. n \in Nat /\ DOMAIN s = 1 .. n
  BY LenProperties
<1>2. /\ a \in Seq(T) /\ Len(a) = n + 1 /\ a[n + 1] = x
      /\ \A k \in 1 .. n : a[k] = s[k]
  BY AppendProperties
<1>3. DOMAIN a = 1 .. n + 1
  BY <1>2, LenProperties
<1> HIDE DEF a, n
<1>4. \A k \in DOMAIN a : (k \in DOMAIN s /\ a[k] = s[k]) \/ (k = n + 1 /\ a[k] = x)
  BY <1>1, <1>2, <1>3
<1>5. DOMAIN s \subseteq DOMAIN a /\ n + 1 \in DOMAIN a
  BY <1>1, <1>3
<1>6. Elems(a) = Elems(s) \cup {x}
  BY <1>1, <1>2, <1>4, <1>5 DEF Elems
<1>7. Distinct(a)
  <2>1. SUFFICES ASSUME NEW i \in DOMAIN a, NEW j \in DOMAIN a, a[i] = a[j] PROVE i = j
    BY DEF Distinct
  <2>2. \A k \in DOMAIN s : s[k] # x
    BY DEF Elems
  <2>3. QED
    BY <1>4, <2>1, <2>2 DEF Distinct
<1>8. QED
  BY <1>2, <1>6, <1>7 DEF a

LEMMA ElemsTail ==
  ASSUME NEW T, NEW s \in Seq(T), s # <<>>, Distinct(s)
  PROVE  /\ Tail(s) \in Seq(T) /\ Elems(Tail(s)) = Elems(s) \ {Head(s)} /\ Distinct(Tail(s))
         /\ Head(s) \in Elems(s) /\ Head(s) \in T
<1> DEFINE r == Tail(s)
           n == Len(s)
<1>1. n \in Nat /\ DOMAIN s = 1 .. n /\ n > 0
  BY LenProperties, EmptySeq
<1>2. r \in Seq(T) /\ Len(r) = n - 1 /\ \A k \in 1 .. n - 1 : r[k] = s[k + 1]
  BY <1>1, HeadTailProperties
<1>3. DOMAIN r = 1 .. n - 1
  BY <1>2, LenProperties
<1>4. Head(s) = s[1] /\ 1 \in DOMAIN s /\ Head(s) \in T
  BY <1>1, HeadTailProperties, ElementOfSeq
<1> HIDE DEF r, n
<1>5. \A k \in DOMAIN r : k + 1 \in DOMAIN s /\ r[k] = s[k + 1] /\ k + 1 # 1 /\ k \in Nat
  BY <1>1, <1>2, <1>3
<1>6. \A k \in DOMAIN s : k # 1 => k - 1 \in DOMAIN r /\ r[k - 1] = s[k]
  <2>1. SUFFICES ASSUME NEW k \in 1 .. n, k # 1 PROVE k - 1 \in 1 .. n - 1 /\ r[k - 1] = s[k]
    BY <1>1, <1>3
  <2>2. k - 1 \in 1 .. n - 1 /\ (k - 1) + 1 = k
    BY <1>1, <2>1
  <2>3. QED
    BY <1>2, <2>2
<1>7. Elems(r) = Elems(s) \ {Head(s)}
  <2>1. ASSUME NEW y \in Elems(r) PROVE y \in Elems(s) \ {Head(s)}
    <3>1. PICK k \in DOMAIN r : y = r[k]
      BY <2>1 DEF Elems
    <3>2. y = s[k + 1] /\ k + 1 \in DOMAIN s /\ k + 1 # 1
      BY <1>5, <3>1
    <3>3. s[k + 1] # s[1]
      BY <1>4, <3>2 DEF Distinct
    <3>4. QED
      BY <1>4, <3>2, <3>3 DEF Elems
  <2>2. ASSUME NEW y \in Elems(s), y # Head(s) PROVE y \in Elems(r)
    <3>1. PICK k \in DOMAIN s : y = s[k]
      BY <2>2 DEF Elems
    <3>2. k # 1
      BY <1>4, <2>2, <3>1
    <3>3. QED
      BY <1>6, <3>1, <3>2 DEF Elems
  <2>3. QED
    BY <2>1, <2>2
<1>8. Distinct(r)
  <2>1. SUFFICES ASSUME NEW i \in DOMAIN r, NEW j \in DOMAIN r, r[i] = r[j] PROVE i = j
    BY DEF Distinct
  <2>2. i + 1 = j + 1 /\ i \in Nat /\ j \in Nat
    BY <1>5, <2>1 DEF Distinct
  <2>3. QED
    BY <2>2
<1>9. QED
  BY <1>2, <1>4, <1>7, <1>8 DEF r, Elems

\* Each buffer in one of five places.
OneEach(ring, free, used, box, hand) ==
  /\ ring \cap (free \cup used \cup box \cup hand) = {}
  /\ free \cap (used \cup box \cup hand) = {}
  /\ used \cap (box \cup hand) = {}
  /\ box \cap hand = {}
  /\ ring \cup free \cup used \cup box \cup hand = RxPbufs

\* The rest of the invariant: the buffers that are not in the ring, and where the task is.
RxRest ==
  /\ memory \in SUBSET RxPbufs /\ kept \in SUBSET RxPbufs
  /\ mbox \in Seq(RxPbufs) /\ Distinct(mbox)
  /\ got \in {<<>>} \cup RxPbufs \X Frames
  /\ at["receive"] \in {"sem", "loop"} => got = <<>>
  /\ at["receive"] = "deliver" => got # <<>>

LEMMA RxAsRing ==
  ASSUME RxInv
  PROVE  /\ RingOK(rx_get_idx, rx_next_idx, RxUsed, rxDma, prdesc, rxpbufs, arrived)
         /\ InRing = RingHas(rx_get_idx, RxUsed, rxpbufs)
         /\ RxRest
         /\ OneEach(InRing, memory, kept, Elems(mbox), InHand)
         /\ rx_free_descs \in 0 .. NRx /\ RxUsed \in 0 .. NRx
<1>1. RxUsed \in 0 .. NRx
  BY Sizes DEF RxInv, RxTypeOK, RxUsed, NRx
<1>2. \A i \in RxIndex : RxAhead(i) = Far(i, rx_get_idx)
  BY DEF RxAhead, Far, NRx
<1>3. InRing = RingHas(rx_get_idx, RxUsed, rxpbufs)
  BY <1>2 DEF InRing, RingHas, Used
<1>4. RingOK(rx_get_idx, rx_next_idx, RxUsed, rxDma, prdesc, rxpbufs, arrived)
  <2>1. \A i \in RxIndex : RxDescInv(i)
    BY DEF RxInv
  <2>2. \A i \in RxIndex : /\ prdesc[i].OWN <=> Far(i, rx_get_idx) >= Len(arrived)
                                                /\ Far(i, rx_get_idx) < RxUsed
                           /\ Far(i, rx_get_idx) < Len(arrived) =>
                                  prdesc[i].frame = arrived[Far(i, rx_get_idx) + 1]
                           /\ Far(i, rx_get_idx) < RxUsed => rxpbufs[i] \in RxPbufs
    BY <1>2, <2>1 DEF RxDescInv
  <2>3. \A i, j \in RxIndex : /\ Far(i, rx_get_idx) < RxUsed /\ Far(j, rx_get_idx) < RxUsed
                              /\ rxpbufs[i] = rxpbufs[j]
                              => i = j
    BY <1>2 DEF RxInv, Apart, Used
  <2>4. /\ rx_get_idx \in 0 .. NRx - 1 /\ arrived \in Seq(Frames)
        /\ prdesc \in [RxIndex -> [OWN : BOOLEAN, frame : Frames \cup {NULL}]]
        /\ rxpbufs \in [RxIndex -> RxPbufs \cup {NULL}]
    BY Sizes DEF RxInv, RxTypeOK
  <2>5. /\ Len(arrived) <= RxUsed
        /\ rxDma = Place(rx_get_idx, Len(arrived), NRx)
        /\ rx_next_idx = Place(rx_get_idx, RxUsed, NRx)
    BY DEF RxInv, RxIndexInv, NRx
  <2>6. QED
    BY <1>1, <2>2, <2>3, <2>4, <2>5 DEF RingOK
<1>5. RxRest
  BY DEF RxInv, RxTypeOK, RxIndexInv, Apart, RxRest, Distinct
<1>6. OneEach(InRing, memory, kept, Elems(mbox), InHand)
  BY DEF RxInv, OwnedOnce, OneEach, InMbox, Elems
<1>7. QED
  BY <1>1, <1>3, <1>4, <1>5, <1>6 DEF RxInv, RxTypeOK, NRx

\* The same, for the state after a step.
LEMMA RingAsRx ==
  ASSUME RingOK(rx_get_idx', rx_next_idx', RxUsed', rxDma', prdesc', rxpbufs', arrived'),
         rx_free_descs' \in 0 .. NRx, rx_next_idx' \in RxIndex, rxDma' \in RxIndex,
         RxRest',
         OneEach(RingHas(rx_get_idx', RxUsed', rxpbufs'), memory', kept', Elems(mbox'), InHand')
  PROVE  RxInv'
<1>1. \A i \in RxIndex : RxAhead(i)' = Far(i, rx_get_idx')
  BY DEF RxAhead, Far, NRx
<1>2. InRing' = RingHas(rx_get_idx', RxUsed', rxpbufs')
  BY <1>1 DEF InRing, RingHas, Used
<1>3. RxTypeOK'
  BY Sizes DEF RingOK, RxRest, RxTypeOK, NRx
<1>4. RxIndexInv'
  BY DEF RingOK, RxRest, RxIndexInv, NRx
<1>5. \A i \in RxIndex : RxDescInv(i)'
  BY <1>1 DEF RingOK, RxDescInv
<1>6. Apart'
  BY <1>1 DEF RingOK, RxRest, Apart, Used, Distinct
<1>7. OwnedOnce'
  BY <1>2 DEF OneEach, OwnedOnce, InMbox, Elems
<1>8. QED
  BY <1>3, <1>4, <1>5, <1>6, <1>7 DEF RxInv

\* Steps that leave the buffers alone.
LEMMA RxSame ==
  ASSUME RxInv, UNCHANGED rxVars,
         at'["receive"] \in {"sem", "loop"} => got = <<>>,
         at'["receive"] = "deliver" => got # <<>>
  PROVE  RxInv'
<1>1. UNCHANGED <<prdesc, rxpbufs, rx_free_descs, rx_get_idx, rx_next_idx, rxDma, memory, got, mbox,
                  kept, arrived>>
  BY DEF rxVars
<1>2. RxTypeOK' /\ Apart' /\ OwnedOnce'
  <2>1. RxTypeOK'
    BY <1>1 DEF RxInv, RxTypeOK
  <2>2. Used' = Used
    BY <1>1 DEF Used, RxAhead, RxUsed
  <2>3. Apart'
    BY <1>1, <2>2 DEF RxInv, Apart
  <2>4. InRing' = InRing /\ InMbox' = InMbox /\ InHand' = InHand
    BY <1>1, <2>2 DEF InRing, InMbox, InHand
  <2>5. OwnedOnce'
    BY <1>1, <2>4 DEF RxInv, OwnedOnce
  <2>6. QED
    BY <2>1, <2>3, <2>5
<1>3. \A i \in RxIndex : RxDescInv(i)'
  BY <1>1 DEF RxInv, RxDescInv, RxAhead, RxUsed
<1>4. RxIndexInv'
  BY <1>1 DEF RxInv, RxIndexInv, RxUsed
<1>5. QED
  BY <1>2, <1>3, <1>4 DEF RxInv

\* The receive task where it takes no buffer.
LEMMA ReceiveMoves ==
  ASSUME ThreadInv, RxInv, ReceiveWakes \/ NothingReceived \/ SetUpSome \/ QueueEnds
  PROVE  RxInv'
<1>1. UNCHANGED rxVars
  BY DEF ReceiveWakes, NothingReceived, SetUpSome, QueueEnds
<1>2. at["receive"] \in {"sem", "loop"} => got = <<>>
  BY DEF RxInv, RxIndexInv
<1>3. \/ at["receive"] \in {"sem", "loop"} /\ at'["receive"] \in {"sem", "loop", "queue"}
      \/ at'["receive"] = IF got = <<>> THEN "loop" ELSE "deliver"
  BY DEF ReceiveWakes, NothingReceived, SetUpSome, QueueEnds, Goes, ThreadInv, Threads
<1>4. QED
  BY <1>1, <1>2, <1>3, RxSame

\* A frame comes in.
LEMMA FrameComesRx ==
  ASSUME RxInv, NEW f \in Frames, FrameComes(f)
  PROVE  RxInv'
<1>1. UNCHANGED <<at, rxpbufs, rx_free_descs, rx_get_idx, rx_next_idx, memory, got, mbox, kept>>
  BY DEF FrameComes
<1>2. CASE prdesc[rxDma].OWN
  <2>1. /\ prdesc' = [prdesc EXCEPT ![rxDma] = [OWN |-> FALSE, frame |-> f]]
        /\ rxDma' = RxNext(rxDma) /\ arrived' = Append(arrived, f)
    BY <1>2 DEF FrameComes
  <2>2. RxUsed' = RxUsed
    BY <1>1 DEF RxUsed
  <2>3. RingOK(rx_get_idx', rx_next_idx', RxUsed', rxDma', prdesc', rxpbufs', arrived')
        /\ rxDma' \in RxIndex
    BY <1>1, <1>2, <2>1, <2>2, RxAsRing, RingArrives
  <2>4. RxRest'
    BY <1>1, RxAsRing DEF RxRest
  <2>5. OneEach(RingHas(rx_get_idx', RxUsed', rxpbufs'), memory', kept', Elems(mbox'), InHand')
    <3>1. RingHas(rx_get_idx', RxUsed', rxpbufs') = InRing /\ InHand' = InHand
          /\ Elems(mbox') = Elems(mbox)
      BY <1>1, <2>2, RxAsRing DEF InHand
    <3>2. QED
      BY <1>1, <3>1, RxAsRing
  <2>6. rx_free_descs' \in 0 .. NRx /\ rx_next_idx' \in RxIndex
    BY <1>1, RxAsRing DEF RxInv, RxTypeOK
  <2>7. QED
    BY <2>3, <2>4, <2>5, <2>6, RingAsRx
<1>3. CASE ~prdesc[rxDma].OWN
  <2>1. UNCHANGED <<prdesc, rxDma, arrived>>
    BY <1>3 DEF FrameComes
  <2>2. UNCHANGED rxVars
    BY <1>1, <2>1 DEF rxVars
  <2>3. (at'["receive"] \in {"sem", "loop"} => got = <<>>)
        /\ (at'["receive"] = "deliver" => got # <<>>)
    BY <1>1 DEF RxInv, RxIndexInv
  <2>4. QED
    BY <2>2, <2>3, RxSame
<1>4. QED
  BY <1>2, <1>3

\* The steps that leave the ring for reception alone: buffers change hands.
LEMMA HandsRx ==
  ASSUME RxInv,
         UNCHANGED <<prdesc, rxpbufs, rx_free_descs, rx_get_idx, rx_next_idx, rxDma, arrived>>,
         RxRest', OneEach(InRing, memory', kept', Elems(mbox'), InHand')
  PROVE  RxInv'
<1>1. RxUsed' = RxUsed
  BY DEF RxUsed
<1>2. RingOK(rx_get_idx', rx_next_idx', RxUsed', rxDma', prdesc', rxpbufs', arrived')
  BY <1>1, RxAsRing
<1>3. RingHas(rx_get_idx', RxUsed', rxpbufs') = InRing
  BY <1>1, RxAsRing
<1>4. rx_free_descs' \in 0 .. NRx /\ rx_next_idx' \in RxIndex /\ rxDma' \in RxIndex
  BY RxAsRing DEF RxInv, RxTypeOK
<1>5. QED
  BY <1>2, <1>3, <1>4, RingAsRx

LEMMA DeliverRx ==
  ASSUME ThreadInv, RxInv, Post \/ Drop
  PROVE  RxInv'
<1>1. at["receive"] = "deliver" /\ at'["receive"] = "loop" /\ got' = <<>> /\ UNCHANGED kept
      /\ UNCHANGED <<prdesc, rxpbufs, rx_free_descs, rx_get_idx, rx_next_idx, rxDma, arrived>>
  BY DEF Post, Drop, Goes, ThreadInv, Threads
<1>2. RxRest /\ OneEach(InRing, memory, kept, Elems(mbox), InHand)
  BY RxAsRing
<1>3. got # <<>> /\ got[1] \in RxPbufs /\ InHand = {got[1]}
  BY <1>1, <1>2 DEF RxRest, InHand
<1>4. InHand' = {}
  BY <1>1 DEF InHand
<1>5. CASE Post
  <2>1. mbox' = Append(mbox, got[1]) /\ UNCHANGED memory
    BY <1>5 DEF Post
  <2>2. got[1] \notin Elems(mbox) /\ mbox \in Seq(RxPbufs) /\ Distinct(mbox)
    BY <1>2, <1>3 DEF OneEach, RxRest
  <2>3. mbox' \in Seq(RxPbufs) /\ Elems(mbox') = Elems(mbox) \cup {got[1]} /\ Distinct(mbox')
    BY <1>3, <2>1, <2>2, ElemsAppend
  <2>4. RxRest'
    BY <1>1, <1>2, <2>1, <2>3 DEF RxRest
  <2>5. OneEach(InRing, memory, kept, Elems(mbox) \cup {got[1]}, {})
    BY <1>2, <1>3 DEF OneEach
  <2>6. QED
    BY <1>1, <1>4, <2>1, <2>3, <2>4, <2>5, HandsRx
<1>6. CASE Drop
  <2>1. memory' = memory \cup {got[1]} /\ UNCHANGED mbox
    BY <1>6 DEF Drop
  <2>2. RxRest'
    BY <1>1, <1>2, <1>3, <2>1 DEF RxRest
  <2>3. OneEach(InRing, memory \cup {got[1]}, kept, Elems(mbox), {})
    BY <1>2, <1>3 DEF OneEach
  <2>4. QED
    BY <1>1, <1>4, <2>1, <2>2, <2>3, HandsRx
<1>7. QED
  BY <1>5, <1>6

LEMMA FetchRx ==
  ASSUME ThreadInv, RxInv, Fetch
  PROVE  RxInv'
<1>1. at'["receive"] = at["receive"] /\ mbox # <<>> /\ mbox' = Tail(mbox) /\ UNCHANGED got
      /\ UNCHANGED <<prdesc, rxpbufs, rx_free_descs, rx_get_idx, rx_next_idx, rxDma, arrived>>
  BY DEF Fetch, Goes, ThreadInv, Threads
<1>2. RxRest /\ OneEach(InRing, memory, kept, Elems(mbox), InHand)
  BY RxAsRing
<1>3. /\ mbox' \in Seq(RxPbufs) /\ Elems(mbox') = Elems(mbox) \ {Head(mbox)} /\ Distinct(mbox')
      /\ Head(mbox) \in Elems(mbox) /\ Head(mbox) \in RxPbufs
  BY <1>1, <1>2, ElemsTail DEF RxRest
<1>4. InHand' = InHand
  BY <1>1 DEF InHand
<1>5. \/ memory' = memory \cup {Head(mbox)} /\ kept' = kept
      \/ memory' = memory /\ kept' = kept \cup {Head(mbox)}
  BY DEF Fetch
<1>6. memory' \in SUBSET RxPbufs /\ kept' \in SUBSET RxPbufs
  BY <1>2, <1>3, <1>5 DEF RxRest
<1>7. RxRest'
  BY <1>1, <1>2, <1>3, <1>6 DEF RxRest
<1>8. OneEach(InRing, memory \cup {Head(mbox)}, kept, Elems(mbox) \ {Head(mbox)}, InHand)
  BY <1>2, <1>3 DEF OneEach
<1>9. OneEach(InRing, memory, kept \cup {Head(mbox)}, Elems(mbox) \ {Head(mbox)}, InHand)
  BY <1>2, <1>3 DEF OneEach
<1>10. OneEach(InRing, memory', kept', Elems(mbox'), InHand')
  BY <1>3, <1>4, <1>5, <1>8, <1>9
<1>11. QED
  BY <1>1, <1>7, <1>10, HandsRx

LEMMA ReleaseRx ==
  ASSUME RxInv, NEW p \in RxPbufs, Release(p)
  PROVE  RxInv'
<1>1. p \in kept /\ kept' = kept \ {p} /\ memory' = memory \cup {p} /\ UNCHANGED <<at, got, mbox>>
      /\ UNCHANGED <<prdesc, rxpbufs, rx_free_descs, rx_get_idx, rx_next_idx, rxDma, arrived>>
  BY DEF Release
<1>2. RxRest /\ OneEach(InRing, memory, kept, Elems(mbox), InHand)
  BY RxAsRing
<1>3. InHand' = InHand
  BY <1>1 DEF InHand
<1>4. RxRest'
  BY <1>1, <1>2 DEF RxRest
<1>5. OneEach(InRing, memory \cup {p}, kept \ {p}, Elems(mbox), InHand)
  BY <1>1, <1>2 DEF OneEach
<1>6. QED
  BY <1>1, <1>3, <1>4, <1>5, HandsRx

\* A frame is taken; the buffer of one with an error goes to the end of the ring.
LEMMA TakeRx ==
  ASSUME ThreadInv, RxInv, Take
  PROVE  RxInv' /\ arrived # <<>> /\ prdesc[rx_get_idx].frame = Head(arrived)
<1> DEFINE g == rx_get_idx
           p == rxpbufs[g]
           pbufs == Put(rxpbufs, g, NULL)
           desc == NoFrame(prdesc, g)
           came == Rest(arrived)
<1>1. /\ at["receive"] = "loop" /\ ~prdesc[g].OWN /\ ~AllFree
      /\ rx_get_idx' = RxNext(g) /\ arrived' = came
      /\ UNCHANGED <<rxDma, memory, mbox, kept>>
  BY DEF Take, Rest
<1>2. RingOK(g, rx_next_idx, RxUsed, rxDma, prdesc, rxpbufs, arrived)
      /\ InRing = RingHas(g, RxUsed, rxpbufs)
      /\ rx_free_descs \in 0 .. NRx /\ RxUsed \in 0 .. NRx
  BY RxAsRing
<1>3. RxRest /\ OneEach(InRing, memory, kept, Elems(mbox), InHand)
  BY RxAsRing
<1>4. rx_free_descs \in Nat /\ RxUsed = NRx - rx_free_descs /\ RxUsed \in Nat /\ RxUsed > 0
      /\ RxUsed <= NRx
  <2>1. rx_free_descs # NRx
    BY <1>1 DEF AllFree, NRx
  <2>2. RxUsed = NRx - rx_free_descs
    BY DEF RxUsed, NRx
  <2>3. QED
    BY <1>2, <2>1, <2>2, Sizes
<1>5. /\ Len(arrived) > 0 /\ prdesc[g].frame = arrived[1] /\ arrived[1] \in Frames
      /\ p \in RxPbufs /\ p \in InRing
      /\ RingOK(RxNext(g), rx_next_idx, RxUsed - 1, rxDma, desc, pbufs, came)
      /\ RingHas(RxNext(g), RxUsed - 1, pbufs) = InRing \ {p}
  <2>1. /\ Len(arrived) > 0 /\ prdesc[g].frame = arrived[1] /\ arrived[1] \in Frames
        /\ p \in RxPbufs /\ p \in RingHas(g, RxUsed, rxpbufs)
        /\ RingOK(RxNext(g), rx_next_idx, RxUsed - 1, rxDma, desc, pbufs, came)
        /\ RingHas(RxNext(g), RxUsed - 1, pbufs) = RingHas(g, RxUsed, rxpbufs) \ {p}
    <3>1. RingOK(g, rx_next_idx, RxUsed, rxDma, prdesc, rxpbufs, arrived) /\ ~prdesc[g].OWN
          /\ RxUsed > 0
      BY <1>1, <1>2, <1>4
    <3>2. FirstCame(g, RxUsed, prdesc, rxpbufs, arrived)
          /\ RingLess(g, rx_next_idx, RxUsed, rxDma, prdesc, rxpbufs, arrived)
      BY <3>1, RingTaken
    <3>3. QED
      BY <3>2 DEF FirstCame, RingLess
  <2>2. QED
    BY <2>1, <1>2, Zenon
<1>6. arrived # <<>> /\ prdesc[g].frame = Head(arrived)
  BY <1>2, <1>5, RestParts DEF RingOK
<1>7. rx_next_idx \in RxIndex /\ rxDma \in RxIndex
  BY DEF RxInv, RxTypeOK
<1>8. got = <<>> /\ InHand = {}
  BY <1>1, <1>3 DEF RxRest, InHand
<1> HIDE DEF g, p, pbufs, desc, came
<1>9. CASE prdesc[g].frame = "error"
  <2>1. Queue(p, pbufs, desc, rx_free_descs + 1) /\ UNCHANGED <<at, got>>
    BY <1>9 DEF Take, g, p, pbufs, desc, Put, NoFrame
  <2>2. /\ rxpbufs' = Put(pbufs, rx_next_idx, p)
        /\ prdesc' = Handed(desc, rx_next_idx)
        /\ rx_free_descs' = (rx_free_descs + 1) - 1
        /\ rx_next_idx' = RxNext(rx_next_idx)
    BY <2>1 DEF Queue, Put, Handed
  <2>3. RxUsed - 1 < NRx /\ p \notin RingHas(RxNext(g), RxUsed - 1, pbufs)
    BY <1>4, <1>5, Sizes
  <2>4. /\ RingOK(RxNext(g), RxNext(rx_next_idx), RxUsed - 1 + 1, rxDma, prdesc', rxpbufs', came)
        /\ RingHas(RxNext(g), RxUsed - 1 + 1, rxpbufs') = (InRing \ {p}) \cup {p}
    BY <1>5, <2>2, <2>3, RingQueued
  <2>5. rx_free_descs' = rx_free_descs /\ RxUsed - 1 + 1 = RxUsed
    BY <1>4, <2>2
  <2>6. RxUsed' = RxUsed
    BY <2>5 DEF RxUsed
  <2>7. RingOK(rx_get_idx', rx_next_idx', RxUsed', rxDma', prdesc', rxpbufs', arrived')
    BY <1>1, <2>2, <2>4, <2>5, <2>6
  <2>8. RingHas(rx_get_idx', RxUsed', rxpbufs') = InRing
    BY <1>1, <1>5, <2>4, <2>5, <2>6
  <2>9. rx_next_idx' \in RxIndex
    <3>1. RxNext(rx_next_idx) = Place(RxNext(g), RxUsed, NRx) /\ RxNext(g) \in 0 .. NRx - 1
      BY <2>4, <2>5 DEF RingOK
    <3>2. QED
      BY <1>4, <2>2, <3>1, Sizes DEF Place
  <2>10. RxRest' /\ InHand' = InHand
    BY <1>1, <1>3, <2>1 DEF RxRest, InHand
  <2>11. RxInv'
    BY <1>1, <1>2, <1>3, <1>7, <2>5, <2>7, <2>8, <2>9, <2>10, RingAsRx
  <2>12. QED
    BY <1>6, <2>11 DEF g
<1>10. CASE prdesc[g].frame # "error"
  <2>1. /\ rxpbufs' = pbufs /\ prdesc' = desc /\ rx_free_descs' = rx_free_descs + 1
        /\ got' = <<p, prdesc[g].frame>> /\ UNCHANGED rx_next_idx
        /\ Goes("receive", "loop", "queue")
    BY <1>10 DEF Take, g, p, pbufs, desc, Put, NoFrame
  <2>2. at'["receive"] = "queue"
    BY <2>1 DEF Goes, ThreadInv, Threads
  <2>3. RxUsed' = RxUsed - 1 /\ rx_free_descs' \in 0 .. NRx
    <3>1. RxUsed' = NRx - rx_free_descs'
      BY DEF RxUsed, NRx
    <3>2. QED
      BY <1>4, <2>1, <3>1, Sizes
  <2>4. got' \in RxPbufs \X Frames /\ got' # <<>> /\ InHand' = {p}
    BY <1>5, <2>1 DEF InHand
  <2>5. RxRest'
    BY <1>1, <1>3, <2>2, <2>4 DEF RxRest
  <2>6. RingOK(rx_get_idx', rx_next_idx', RxUsed', rxDma', prdesc', rxpbufs', arrived')
        /\ RingHas(rx_get_idx', RxUsed', rxpbufs') = InRing \ {p}
    BY <1>1, <1>5, <2>1, <2>3
  <2>7. OneEach(InRing \ {p}, memory, kept, Elems(mbox), {p})
    BY <1>3, <1>5, <1>8 DEF OneEach
  <2>8. RxInv'
    BY <1>1, <1>7, <2>1, <2>3, <2>4, <2>5, <2>6, <2>7, RingAsRx
  <2>9. QED
    BY <1>6, <2>8 DEF g
<1>11. QED
  BY <1>9, <1>10

\* A free buffer is queued.
LEMMA QueueAnotherRx ==
  ASSUME ThreadInv, RxInv, QueueAnother
  PROVE  RxInv'
<1>1. /\ rx_free_descs > 0
      /\ UNCHANGED <<at, rx_get_idx, rxDma, got, mbox, kept, arrived>>
  BY DEF QueueAnother
<1>2. PICK p \in memory : /\ rxpbufs' = Put(rxpbufs, rx_next_idx, p)
                          /\ prdesc' = Handed(prdesc, rx_next_idx)
                          /\ rx_free_descs' = rx_free_descs - 1
                          /\ rx_next_idx' = RxNext(rx_next_idx)
                          /\ memory' = memory \ {p}
  <2>1. memory # {}
    BY DEF QueueAnother
  <2>2. (CHOOSE p \in memory : TRUE) \in memory
    BY <2>1
  <2>3. QED
    BY <2>2 DEF QueueAnother, Queue, Put, Handed
<1>3. RingOK(rx_get_idx, rx_next_idx, RxUsed, rxDma, prdesc, rxpbufs, arrived)
      /\ InRing = RingHas(rx_get_idx, RxUsed, rxpbufs)
      /\ rx_free_descs \in 0 .. NRx
  BY RxAsRing
<1>4. RxRest /\ OneEach(InRing, memory, kept, Elems(mbox), InHand)
  BY RxAsRing
<1>5. p \in RxPbufs /\ p \notin InRing
  BY <1>4 DEF RxRest, OneEach
<1>6. RxUsed < NRx /\ RxUsed' = RxUsed + 1 /\ RxUsed + 1 \in 0 .. NRx /\ rx_free_descs' \in 0 .. NRx
  <2>1. RxUsed = NRx - rx_free_descs /\ RxUsed' = NRx - rx_free_descs'
    BY DEF RxUsed, NRx
  <2>2. QED
    BY <1>1, <1>2, <1>3, <2>1, Sizes
<1>7. /\ RingOK(rx_get_idx', rx_next_idx', RxUsed', rxDma', prdesc', rxpbufs', arrived')
      /\ RingHas(rx_get_idx', RxUsed', rxpbufs') = InRing \cup {p}
  <2>1. /\ RingOK(rx_get_idx, RxNext(rx_next_idx), RxUsed + 1, rxDma, prdesc', rxpbufs', arrived)
        /\ RingHas(rx_get_idx, RxUsed + 1, rxpbufs') = InRing \cup {p}
    BY <1>2, <1>3, <1>5, <1>6, RingQueued
  <2>2. QED
    BY <2>1, <1>1, <1>2, <1>6
<1>8. rx_next_idx' \in RxIndex /\ rxDma' \in RxIndex
  <2>1. rx_next_idx \in 0 .. NRx - 1 /\ rxDma \in RxIndex
    BY Sizes DEF RxInv, RxTypeOK
  <2>2. QED
    BY <1>1, <1>2, <2>1, Sizes, NextPlace DEF RxNext, NRx
<1>9. RxRest' /\ InHand' = InHand
  BY <1>1, <1>2, <1>4 DEF RxRest, InHand
<1>10. OneEach(InRing \cup {p}, memory \ {p}, kept, Elems(mbox), InHand)
  BY <1>4, <1>5 DEF OneEach
<1>11. QED
  BY <1>1, <1>2, <1>6, <1>7, <1>8, <1>9, <1>10, RingAsRx


(***************************************************************************)
(* Every step.                                                             *)
(***************************************************************************)

LEMMA TxKept ==
  ASSUME TxInv, RefInv, UNCHANGED txVars, Filling' <=> Filling
  PROVE  TxInv' /\ RefInv'
<1>1. UNCHANGED <<ptdesc, txpbufs, tx_free_descs, tx_fill_idx, tx_reclaim_idx, output, ref, txDma,
                  due>>
  BY DEF txVars
<1>2. TxTypeOK'
  BY <1>1 DEF TxInv, TxTypeOK
<1>3. QED
  BY <1>1, <1>2, TxSame

LEMMA RxKept ==
  ASSUME RxInv, UNCHANGED rxVars, at'["receive"] = at["receive"]
  PROVE  RxInv'
BY RxSame DEF RxInv, RxIndexInv

\* A step of another thread leaves the receive task where it is.
LEMMA ReceiveStays ==
  ASSUME ThreadInv, NEW t \in Threads \ {"receive"}, NEW from, NEW to, Goes(t, from, to)
  PROVE  at'["receive"] = at["receive"]
BY DEF Goes, ThreadInv, Threads

\* The DMA is told; nothing else that the ring is about changes.
LEMMA PollTx ==
  ASSUME ThreadInv, TxInv, RefInv, Poll
  PROVE  TxInv' /\ RefInv'
<1>1. UNCHANGED <<ptdesc, txpbufs, tx_free_descs, tx_fill_idx, tx_reclaim_idx, ref, due>>
      /\ txDma' = [txDma EXCEPT !.suspended = FALSE]
      /\ output' = [p |-> NULL, done |-> 0, idx |-> 0]
  BY DEF Poll
<1>2. txDma \in [idx : TxIndex, suspended : BOOLEAN] /\ 0 \in TxIndex
  BY Sizes DEF TxInv, TxTypeOK
<1>3. txDma' \in [idx : TxIndex, suspended : BOOLEAN] /\ txDma'.idx = txDma.idx
  BY <1>1, <1>2
<1>4. output' \in [p : TxPbufs \cup {NULL}, done : Nat, idx : TxIndex]
  BY <1>1, <1>2
<1>5. TxTypeOK'
  BY <1>1, <1>3, <1>4 DEF TxInv, TxTypeOK
<1>6. ~Filling /\ ~Filling'
  BY DEF Poll, Goes, ThreadInv, Threads, Filling
<1>7. QED
  BY <1>1, <1>3, <1>5, <1>6, TxSame

LEMMA DmaSuspendsTx ==
  ASSUME TxInv, RefInv, DmaSuspends
  PROVE  TxInv' /\ RefInv'
<1>1. UNCHANGED <<ptdesc, txpbufs, tx_free_descs, tx_fill_idx, tx_reclaim_idx, ref, due, output, at>>
      /\ txDma' = [txDma EXCEPT !.suspended = TRUE]
  BY DEF DmaSuspends
<1>2. txDma \in [idx : TxIndex, suspended : BOOLEAN]
  BY DEF TxInv, TxTypeOK
<1>3. txDma' \in [idx : TxIndex, suspended : BOOLEAN] /\ txDma'.idx = txDma.idx
  BY <1>1, <1>2
<1>4. TxTypeOK'
  BY <1>1, <1>3 DEF TxInv, TxTypeOK
<1>5. Filling' <=> Filling
  BY <1>1 DEF Filling
<1>6. QED
  BY <1>1, <1>3, <1>4, <1>5, TxSame

\* The tcpip thread between two outputs.
LEMMA TcpipStep ==
  ASSUME EmacInv, Fetch \/ NoOutput \/ OtherMessage \/ \E p \in RxPbufs : Release(p)
  PROVE  EmacInv'
<1>1. ThreadInv /\ TxInv /\ RefInv /\ RxInv
  BY DEF EmacInv
<1>2. CASE Fetch
  <2>1. Goes("tcpip", "fetch", "work") /\ UNCHANGED <<txVars, TXLockMutex>>
    BY <1>2 DEF Fetch
  <2>2. ThreadInv' /\ (Filling' <=> Filling)
    BY <1>1, <2>1, ThreadMoves DEF Threads, txVars
  <2>3. QED
    BY <1>1, <1>2, <2>1, <2>2, TxKept, FetchRx DEF EmacInv
<1>3. CASE NoOutput \/ OtherMessage
  <2>1. PICK from \in {"fetch", "work"}, to \in {"fetch", "work"} : Goes("tcpip", from, to)
    BY <1>3 DEF NoOutput, OtherMessage
  <2>2. UNCHANGED <<txVars, rxVars, TXLockMutex>>
    BY <1>3 DEF NoOutput, OtherMessage
  <2>3. ThreadInv' /\ (Filling' <=> Filling)
    BY <1>1, <2>1, <2>2, ThreadMoves DEF Threads, txVars
  <2>4. at'["receive"] = at["receive"]
    BY <1>1, <2>1, ReceiveStays DEF Threads
  <2>5. QED
    BY <1>1, <2>2, <2>3, <2>4, TxKept, RxKept DEF EmacInv
<1>4. ASSUME NEW p \in RxPbufs, Release(p)
      PROVE  EmacInv'
  <2>1. UNCHANGED <<at, txVars, TXLockMutex>>
    BY <1>4 DEF Release
  <2>2. ThreadInv' /\ (Filling' <=> Filling)
    BY <1>1, <2>1, ThreadsStay DEF txVars
  <2>3. RxInv'
    BY <1>1, <1>4, ReleaseRx
  <2>4. QED
    BY <1>1, <2>1, <2>2, <2>3, TxKept DEF EmacInv
<1>5. QED
  BY <1>2, <1>3, <1>4

\* An output.
LEMMA OutputStep ==
  ASSUME EmacInv, (\E p \in TxPbufs : Output(p)) \/ lpc_low_level_output
  PROVE  EmacInv'
<1>1. ThreadInv /\ TxInv /\ RefInv /\ RxInv
  BY DEF EmacInv
<1>2. CASE Spin
  <2>1. UNCHANGED <<at, TXLockMutex, txVars, rxVars>>
    BY <1>2 DEF Spin, emacVars
  <2>2. ThreadInv' /\ (Filling' <=> Filling)
    BY <1>1, <2>1, ThreadsStay DEF txVars
  <2>3. QED
    BY <1>1, <2>1, <2>2, TxKept, RxKept DEF EmacInv
<1>3. CASE (\E p \in TxPbufs : Output(p)) \/ Enough \/ LockForOutput \/ Fill \/ GiveFirst \/ Poll
  <2>1. ThreadInv'
    BY <1>1, <1>3, OutputThreads
  <2>2. UNCHANGED rxVars
    BY <1>3 DEF Output, Enough, LockForOutput, Fill, GiveFirst, Poll
  <2>3. at'["receive"] = at["receive"]
    <3>1. CASE Fill
      BY <3>1 DEF Fill
    <3>2. CASE ~Fill
      BY <1>1, <1>3, <3>2 DEF Output, Enough, LockForOutput, TakesLock, GiveFirst, Poll, Goes,
                              ThreadInv, Threads
    <3>3. QED
      BY <3>1, <3>2
  <2>4. RxInv'
    BY <1>1, <2>2, <2>3, RxKept
  <2>5. TxInv' /\ RefInv'
    <3>1. CASE Enough
      <4>1. UNCHANGED txVars /\ ~Filling /\ ~Filling'
        BY <1>1, <3>1 DEF Enough, Goes, ThreadInv, Threads, Filling
      <4>2. QED
        BY <1>1, <4>1, TxKept
    <3>2. CASE \E p \in TxPbufs : Output(p)
      BY <1>1, <3>2, OutputTx
    <3>3. CASE LockForOutput
      BY <1>1, <3>3, LockTx
    <3>4. CASE Fill
      BY <1>1, <3>4, FillTx, FillRef
    <3>5. CASE GiveFirst
      BY <1>1, <3>5, GiveTx
    <3>6. CASE Poll
      BY <1>1, <3>6, PollTx
    <3>7. QED
      BY <1>3, <3>1, <3>2, <3>3, <3>4, <3>5, <3>6
  <2>6. QED
    BY <2>1, <2>4, <2>5 DEF EmacInv
<1>4. QED
  BY <1>2, <1>3 DEF lpc_low_level_output

\* The cleanup task.
LEMMA CleanStep ==
  ASSUME EmacInv, vTransmitCleanupTask
  PROVE  EmacInv'
<1>1. ThreadInv /\ TxInv /\ RefInv /\ RxInv
  BY DEF EmacInv
<1>2. ThreadInv' /\ (Filling' <=> Filling)
  BY <1>1, CleanThreads
<1>3. UNCHANGED rxVars
  BY DEF vTransmitCleanupTask, CleanWakes, LockForReclaim, Reclaim, ReclaimEnds
<1>4. at'["receive"] = at["receive"]
  <2>1. CASE Reclaim
    BY <2>1 DEF Reclaim
  <2>2. CASE ~Reclaim
    BY <1>1, <2>2 DEF vTransmitCleanupTask, CleanWakes, LockForReclaim, TakesLock, ReclaimEnds, Goes,
                      ThreadInv, Threads
  <2>3. QED
    BY <2>1, <2>2
<1>5. RxInv'
  BY <1>1, <1>3, <1>4, RxKept
<1>6. TxInv' /\ RefInv'
  <2>1. CASE Reclaim
    BY <1>1, <2>1, ReclaimTx
  <2>2. CASE CleanWakes \/ LockForReclaim \/ ReclaimEnds
    <3>1. UNCHANGED txVars
      BY <2>2 DEF CleanWakes, LockForReclaim, ReclaimEnds
    <3>2. QED
      BY <1>1, <1>2, <3>1, TxKept
  <2>3. QED
    BY <2>1, <2>2 DEF vTransmitCleanupTask
<1>7. QED
  BY <1>2, <1>5, <1>6 DEF EmacInv

\* The receive task.
LEMMA ReceiveStep ==
  ASSUME EmacInv, vPacketReceiveTask
  PROVE  EmacInv'
<1>1. ThreadInv /\ TxInv /\ RefInv /\ RxInv
  BY DEF EmacInv
<1>2. UNCHANGED <<txVars, TXLockMutex>>
  BY DEF vPacketReceiveTask, ReceiveWakes, NothingReceived, SetUpSome, Take, QueueAnother, QueueEnds,
         Post, Drop
<1>3. \/ UNCHANGED at
      \/ \E from \in {"sem", "loop", "queue", "deliver"}, to \in {"sem", "loop", "queue", "deliver"} :
             Goes("receive", from, to)
  BY DEF vPacketReceiveTask, ReceiveWakes, NothingReceived, SetUpSome, Take, QueueAnother, QueueEnds,
         Post, Drop
<1>4. ThreadInv' /\ (Filling' <=> Filling)
  <2>1. CASE UNCHANGED at
    BY <1>1, <1>2, <2>1, ThreadsStay DEF txVars
  <2>2. ASSUME NEW from \in {"sem", "loop", "queue", "deliver"},
               NEW to \in {"sem", "loop", "queue", "deliver"}, Goes("receive", from, to)
        PROVE  ThreadInv' /\ (Filling' <=> Filling)
    BY <1>1, <1>2, <2>2, ThreadMoves DEF txVars, Threads
  <2>3. QED
    BY <1>3, <2>1, <2>2
<1>5. TxInv' /\ RefInv'
  BY <1>1, <1>2, <1>4, TxKept
<1>6. RxInv'
  BY <1>1, ReceiveMoves, TakeRx, QueueAnotherRx, DeliverRx DEF vPacketReceiveTask
<1>7. QED
  BY <1>4, <1>5, <1>6 DEF EmacInv

\* The DMA, the interrupt and what comes in.
LEMMA HardwareStep ==
  ASSUME EmacInv,
         DmaSends \/ DmaSuspends \/ ETH_IRQHandler \/ \E f \in Frames : FrameComes(f)
  PROVE  EmacInv'
<1>1. ThreadInv /\ TxInv /\ RefInv /\ RxInv
  BY DEF EmacInv
<1>2. UNCHANGED <<at, TXLockMutex, output, tx_fill_idx, tx_free_descs>>
  BY DEF DmaSends, DmaSuspends, ETH_IRQHandler, FrameComes, txVars
<1>3. ThreadInv' /\ (Filling' <=> Filling)
  BY <1>1, <1>2, ThreadsStay
<1>4. CASE DmaSends \/ DmaSuspends
  <2>1. UNCHANGED rxVars
    BY <1>4 DEF DmaSends, DmaSuspends
  <2>2. QED
    BY <1>1, <1>2, <1>3, <1>4, <2>1, RxKept, DmaSendsTx, DmaSuspendsTx DEF EmacInv
<1>5. CASE ETH_IRQHandler
  <2>1. UNCHANGED <<txVars, rxVars>>
    BY <1>5 DEF ETH_IRQHandler
  <2>2. QED
    BY <1>1, <1>2, <1>3, <2>1, RxKept, TxKept DEF EmacInv
<1>6. ASSUME NEW f \in Frames, FrameComes(f)
      PROVE  EmacInv'
  <2>1. UNCHANGED txVars
    BY <1>6 DEF FrameComes
  <2>2. QED
    BY <1>1, <1>3, <1>6, <2>1, TxKept, FrameComesRx DEF EmacInv
<1>7. QED
  BY <1>4, <1>5, <1>6

LEMMA EmacInvStep ==
  ASSUME EmacInv, [EmacNext]_emacVars
  PROVE  EmacInv'
<1>1. CASE UNCHANGED emacVars
  <2>1. UNCHANGED <<at, TXLockMutex, txVars, rxVars>>
    BY <1>1 DEF emacVars
  <2>2. ThreadInv /\ TxInv /\ RefInv /\ RxInv
    BY DEF EmacInv
  <2>3. ThreadInv' /\ (Filling' <=> Filling)
    BY <2>1, <2>2, ThreadsStay DEF txVars
  <2>4. QED
    BY <2>1, <2>2, <2>3, TxKept, RxKept DEF EmacInv
<1>2. CASE EmacNext
  BY <1>2, TcpipStep, OutputStep, CleanStep, ReceiveStep, HardwareStep
  DEF EmacNext, EmacStep, tcpip_thread
<1>3. QED
  BY <1>1, <1>2


(***************************************************************************)
(* The rings as they are set up.                                           *)
(***************************************************************************)

\* As many descriptors are filled as there are, or as there are buffers for.
LEMMA FilledFirst ==
  ASSUME NEW filled, filled = {i \in RxIndex : i < Cardinality(RxPbufs)}
  PROVE  /\ Cardinality(filled) \in 0 .. NRx /\ filled = {i \in RxIndex : i < Cardinality(filled)}
         /\ \E b \in [filled -> RxPbufs] : \A i, j \in filled : b[i] = b[j] => i = j
<1>1. IsFiniteSet(RxPbufs)
  BY EmacAssumption
<1>2. Cardinality(RxPbufs) \in Nat /\ ExistsBijection(1 .. Cardinality(RxPbufs), RxPbufs)
  BY <1>1, FS_CardinalityType
<1>3. PICK c \in Nat : c = Cardinality(RxPbufs)
  BY <1>2
<1>4. PICK f \in Injection(1 .. c, RxPbufs) : TRUE
  BY <1>2, <1>3 DEF ExistsBijection, Bijection
<1>5. f \in [1 .. c -> RxPbufs] /\ \A i, j \in 1 .. c : f[i] = f[j] => i = j
  BY <1>4 DEF Injection, IsInjective
<1>6. filled = {i \in 0 .. NRx - 1 : i < c}
  BY <1>3, Sizes
<1>7. PICK m \in 0 .. NRx : filled = 0 .. m - 1 /\ m <= c
  <2>1. CASE c <= NRx
    <3>1. filled = 0 .. c - 1 /\ c \in 0 .. NRx
      BY <1>6, <2>1, Sizes
    <3>2. QED
      BY <3>1
  <2>2. CASE c > NRx
    <3>1. filled = 0 .. NRx - 1 /\ NRx \in 0 .. NRx /\ NRx <= c
      BY <1>6, <2>2, Sizes
    <3>2. QED
      BY <3>1
  <2>3. QED
    BY <2>1, <2>2, Sizes
<1>8. Cardinality(filled) = m
  <2>1. 0 \in Int /\ m - 1 \in Int /\ m \in Int /\ (0 > m - 1 => m = 0) /\ m - 1 - 0 + 1 = m
    BY <1>7, Sizes
  <2>2. Cardinality(0 .. m - 1) = IF 0 > m - 1 THEN 0 ELSE m - 1 - 0 + 1
    BY <2>1, FS_Interval
  <2>3. QED
    BY <1>7, <2>1, <2>2
<1>9. filled = {i \in RxIndex : i < m}
  BY <1>7, Sizes
<1>10. \E b \in [filled -> RxPbufs] : \A i, j \in filled : b[i] = b[j] => i = j
  <2>1. \A i \in filled : i \in Nat /\ i + 1 \in 1 .. c
    BY <1>7, Sizes
  <2>2. [i \in filled |-> f[i + 1]] \in [filled -> RxPbufs]
    BY <1>5, <2>1
  <2>3. \A i, j \in filled : f[i + 1] = f[j + 1] => i = j
    BY <1>5, <2>1
  <2>4. QED
    BY <2>2, <2>3
<1>11. QED
  BY <1>7, <1>8, <1>9, <1>10

LEMMA InitRx ==
  ASSUME lpc_enetif_init
  PROVE  RxInv
<1> DEFINE filled == {i \in RxIndex : i < Cardinality(RxPbufs)}
           b == CHOOSE b \in [filled -> RxPbufs] : \A i, j \in filled : b[i] = b[j] => i = j
           m == Cardinality(filled)
<1>1. /\ at["receive"] = "sem" /\ got = <<>> /\ mbox = <<>> /\ kept = {} /\ arrived = <<>>
      /\ rx_get_idx = 0 /\ rxDma = 0
  BY DEF lpc_enetif_init, lpc_rx_setup
<1>2. /\ rxpbufs = [i \in RxIndex |-> IF i \in filled THEN b[i] ELSE NULL]
      /\ prdesc = [i \in RxIndex |-> [OWN |-> i \in filled, frame |-> NULL]]
      /\ memory = RxPbufs \ {b[i] : i \in filled}
      /\ rx_free_descs = LPC_NUM_BUFF_RXDESCS - m
      /\ rx_next_idx = m % LPC_NUM_BUFF_RXDESCS
  BY DEF lpc_enetif_init, lpc_rx_setup
<1>3. m \in 0 .. NRx /\ filled = {i \in RxIndex : i < m}
      /\ \E g \in [filled -> RxPbufs] : \A i, j \in filled : g[i] = g[j] => i = j
  BY FilledFirst
<1>4. b \in [filled -> RxPbufs] /\ \A i, j \in filled : b[i] = b[j] => i = j
  BY <1>3
<1>5. filled \subseteq RxIndex
  BY <1>3
<1> HIDE DEF b, filled, m
<1>6. rx_free_descs \in 0 .. NRx /\ RxUsed = m
  BY <1>2, <1>3, Sizes DEF RxUsed, NRx
<1>7. \A i \in RxIndex : RxAhead(i) = i
  <2>1. \A i \in RxIndex : i \in Nat
    BY Sizes
  <2>2. QED
    BY <1>1, <2>1 DEF RxAhead, Ahead
<1>8. Used = filled
  BY <1>3, <1>6, <1>7 DEF Used
<1>9. \A i \in filled : rxpbufs[i] = b[i] /\ b[i] \in RxPbufs
  BY <1>2, <1>4, <1>5
<1>10. rx_next_idx \in RxIndex /\ rx_next_idx = Place(0, m, NRx)
  <2>1. m % NRx = IF m = NRx THEN 0 ELSE m
    BY <1>3, Sizes
  <2>2. QED
    BY <1>2, <1>3, <2>1, Sizes DEF Place, NRx
<1>11. RxTypeOK
  <2>1. 0 \in RxIndex
    BY Sizes
  <2>2. prdesc \in [RxIndex -> [OWN : BOOLEAN, frame : Frames \cup {NULL}]]
    BY <1>2
  <2>3. rxpbufs \in [RxIndex -> RxPbufs \cup {NULL}]
    BY <1>2, <1>4
  <2>4. QED
    BY <1>1, <1>2, <1>6, <1>10, <2>1, <2>2, <2>3 DEF RxTypeOK, NRx
<1>12. RxIndexInv
  <2>1. Len(arrived) = 0 /\ Place(0, 0, NRx) = 0
    BY <1>1, Sizes DEF Place
  <2>2. QED
    BY <1>1, <1>3, <1>6, <1>10, <2>1 DEF RxIndexInv, NRx
<1>13. \A i \in RxIndex : RxDescInv(i)
  <2>1. SUFFICES ASSUME NEW i \in RxIndex PROVE RxDescInv(i)
    OBVIOUS
  <2>2. Len(arrived) = 0 /\ RxAhead(i) = i /\ i \in Nat
    BY <1>1, <1>7, Sizes
  <2>3. prdesc[i].OWN <=> i < m
    BY <1>2, <1>3
  <2>4. i < m => rxpbufs[i] \in RxPbufs
    BY <1>3, <1>9
  <2>5. QED
    BY <1>6, <2>2, <2>3, <2>4 DEF RxDescInv
<1>14. Apart
  BY <1>1, <1>4, <1>8, <1>9 DEF Apart
<1>15. OwnedOnce
  <2>1. InRing = {b[i] : i \in filled}
    BY <1>8, <1>9 DEF InRing
  <2>2. {b[i] : i \in filled} \subseteq RxPbufs
    BY <1>4
  <2>3. InMbox = {} /\ InHand = {}
    BY <1>1 DEF InMbox, InHand
  <2>4. QED
    BY <1>1, <1>2, <2>1, <2>2, <2>3 DEF OwnedOnce
<1>16. QED
  BY <1>11, <1>12, <1>13, <1>14, <1>15 DEF RxInv

LEMMA InitTx ==
  ASSUME lpc_enetif_init
  PROVE  TxInv /\ RefInv
<1>1. /\ ptdesc = [i \in TxIndex |-> [flags |-> {}, B1ADD |-> <<NULL, 0>>]]
      /\ txpbufs = [i \in TxIndex |-> NULL]
      /\ tx_free_descs = NTx /\ tx_fill_idx = 0 /\ tx_reclaim_idx = 0
      /\ output = [p |-> NULL, done |-> 0, idx |-> 0]
      /\ ref = [p \in TxPbufs |-> 0]
      /\ txDma = [idx |-> 0, suspended |-> FALSE]
      /\ due = <<>>
  BY DEF lpc_enetif_init, lpc_tx_setup, NTx
<1>2. ~Filling /\ Filled = 0 /\ Coming = 0
  BY DEF lpc_enetif_init, Filling, Filled, Coming
<1>3. TxUsed = 0 /\ TxSent = 0 /\ Len(due) = 0
  <2>1. Len(due) = 0
    BY <1>1
  <2>2. TxUsed = NTx - NTx
    BY <1>1 DEF TxUsed, NTx
  <2>3. TxUsed = 0
    BY <2>2, Sizes
  <2>4. QED
    BY <1>2, <2>1, <2>3 DEF TxSent
<1>4. \A i \in TxIndex : TxAhead(i) = i /\ i \in Nat
  <2>1. \A i \in TxIndex : i \in Nat
    BY Sizes
  <2>2. QED
    BY <1>1, <2>1 DEF TxAhead, Ahead
<1>5. TxTypeOK
  <2>1. 0 \in TxIndex
    BY Sizes
  <2>2. ptdesc \in [TxIndex -> [flags : SUBSET Flag, B1ADD : (TxPbufs \cup {NULL}) \X Nat]]
    BY <1>1
  <2>3. QED
    BY <1>1, <2>1, <2>2, Sizes DEF TxTypeOK, NTx
<1>6. TxIndexInv
  <2>1. Place(0, 0, NTx) = 0 /\ 0 \in 0 .. TxUsed - Filled /\ TxUsed - Filled = 0
    BY <1>2, <1>3, Sizes DEF Place
  <2>2. QED
    BY <1>1, <1>2, <1>3, <2>1 DEF TxIndexInv, NTx
<1>7. \A i \in TxIndex : ~(TxAhead(i) < TxUsed) /\ ptdesc[i].flags = {} /\ txpbufs[i] = NULL
  BY <1>1, <1>3, <1>4
<1>8. TxInv
  BY <1>5, <1>6, <1>7 DEF TxInv
<1>9. ASSUME NEW p \in TxPbufs
      PROVE  ref[p] = References(p)
  <2>1. {i \in TxIndex : txpbufs[i] = p} = {}
    BY <1>7, TxIndexFinite
  <2>2. QED
    <3>1. ref[p] = 0 /\ ~(Filled > 0)
      BY <1>1, <1>2
    <3>2. Cardinality({i \in TxIndex : txpbufs[i] = p}) = 0
      BY <2>1, FS_EmptySet, Zenon
    <3>3. QED
      BY <3>1, <3>2 DEF References
<1>10. QED
  BY <1>8, <1>9 DEF RefInv

\* What the rings are when they are set up is what the invariant says of them.
LEMMA EmacInit == lpc_enetif_init => EmacInv
<1>1. SUFFICES ASSUME lpc_enetif_init PROVE EmacInv
  OBVIOUS
<1> USE <1>1
<1>2. at = [tcpip |-> "fetch", receive |-> "sem", clean |-> "sem"] /\ TXLockMutex = NULL
  BY DEF lpc_enetif_init
<1>3. NULL # "tcpip" /\ NULL # "clean"
  BY EmacAssumption
<1>4. at \in [Threads -> {"fetch", "work", "wait", "lock", "fill", "poll", "sem", "reclaim",
                           "loop", "queue", "deliver"}]
  BY <1>2 DEF Threads
<1>5. ThreadInv
  BY <1>2, <1>3, <1>4 DEF ThreadInv, Filling
<1>6. QED
  BY <1>5, InitTx, InitRx DEF EmacInv

\* The invariant of the two rings holds whatever the threads, the interrupt and the DMA do, for
\* rings of any length and any memory.
THEOREM EmacInvariant == EmacSpec => []EmacInv
<1>1. EmacInv /\ [EmacNext]_emacVars => EmacInv'
  BY EmacInvStep
<1>2. QED
  BY <1>1, EmacInit, PTL DEF EmacSpec


\* There is a reference to what is saved in a descriptor, and to the frame being filled in.
LEMMA SavedIsHeld ==
  ASSUME TxInv, RefInv, NEW p \in TxPbufs
  PROVE  /\ (\E j \in TxIndex : txpbufs[j] = p) => ref[p] > 0
         /\ Filled > 0 /\ output.done < dn /\ output.p = p => ref[p] > 0
         /\ (\A j \in TxIndex : txpbufs[j] = NULL) /\ ~(Filled > 0) => ref[p] = 0
<1>1. IsFiniteSet(SavedAt(p))
  BY TxIndexFinite, FS_Subset DEF SavedAt
<1>2. PICK c \in Nat : c = Cardinality(SavedAt(p))
  BY <1>1, FS_CardinalityType
<1>3. c = 0 <=> SavedAt(p) = {}
  BY <1>1, <1>2, FS_EmptySet
<1>4. ref[p] = c + Held(p)
  BY <1>2 DEF RefInv, References, SavedAt, Held
<1>5. Held(p) \in {0, 1} /\ (Held(p) = 1 <=> Filled > 0 /\ output.done < dn /\ output.p = p)
  BY DEF Held
<1>6. SavedAt(p) # {} <=> \E j \in TxIndex : txpbufs[j] = p
  BY DEF SavedAt
<1>7. NULL # p
  BY TxIndexFinite
<1> QED
  BY <1>3, <1>4, <1>5, <1>6, <1>7

\* For rings of any length: while a fragment belongs to the DMA the driver holds its frame, when
\* all descriptors are free it holds none, and each buffer for reception is in one place.
THEOREM EmacBuffersHeld == EmacSpec => []BuffersHeld
<1>1. EmacInv => BuffersHeld
  <2> SUFFICES ASSUME EmacInv PROVE BuffersHeld
    OBVIOUS
  <2>1. ThreadInv /\ TxInv /\ RefInv /\ RxInv /\ TxTypeOK
    BY DEF EmacInv, TxInv
  <2>2. Filled \in Nat /\ TxUsed \in 0 .. NTx /\ TxUsed \in Nat
        /\ (Filling => Filled = output.done) /\ (~Filling => Filled = 0)
    BY <2>1, OutputType, Sizes
  <2>3. ASSUME NEW i \in TxIndex, "OWN" \in ptdesc[i].flags
        PROVE  ref[ptdesc[i].B1ADD[1]] > 0
    <3>1. TxAhead(i) \in Nat
      BY <2>1, TxAheadType, Sizes
    <3>2. TxAhead(i) < TxUsed
      BY <2>1, <2>2, <2>3, <3>1 DEF TxInv
    <3>3. TxDescInv(i)
      BY <2>1, <3>2 DEF TxInv
    <3>4. PICK p \in TxPbufs : p = ptdesc[i].B1ADD[1]
      BY <3>3 DEF TxDescInv
    <3>5. Saves(i)
      BY <3>3 DEF TxDescInv
    <3>6. CASE \E j \in TxIndex : txpbufs[j] = p
      BY <2>1, <3>4, <3>6, SavedIsHeld
    <3>7. CASE Filling /\ output.done < dn /\ output.p = p /\ TxAhead(i) >= TxUsed - Filled
      <4>1. Filled > 0
        BY <2>2, <3>1, <3>2, <3>7
      <4>2. QED
        BY <2>1, <3>4, <3>7, <4>1, SavedIsHeld
    <3>8. QED
      BY <3>4, <3>5, <3>6, <3>7 DEF Saves
  <2>4. ASSUME tx_free_descs = LPC_NUM_BUFF_TXDESCS, NEW p \in TxPbufs
        PROVE  ref[p] = 0
    <3>1. TxUsed = NTx - NTx
      BY <2>4 DEF TxUsed, NTx
    <3>2. TxUsed = 0
      BY <3>1, Sizes
    <3>3. Filled <= TxUsed
      BY <2>1 DEF TxInv, TxIndexInv
    <3>4. ~(Filled > 0)
      BY <2>2, <3>2, <3>3
    <3>5. \A j \in TxIndex : TxAhead(j) \in Nat
      BY <2>1, TxAheadType, Sizes
    <3>6. \A j \in TxIndex : txpbufs[j] = NULL
      BY <2>1, <3>2, <3>5 DEF TxInv
    <3>7. QED
      BY <2>1, <3>4, <3>6, SavedIsHeld
  <2>5. {i \in RxIndex : prdesc[i].OWN} \subseteq Used
    BY <2>1 DEF RxInv, RxDescInv, Used
  <2>6. QED
    BY <2>1, <2>3, <2>4, <2>5 DEF BuffersHeld, RxInv
<1>2. QED
  BY <1>1, EmacInvariant, PTL

\* For rings of any length: the DMA finds the fragments that are due one after the other, marked as
\* the first and the last where they are, and it never runs dry within a frame.
THEOREM EmacSentInOrder == EmacSpec => SentInOrder
<1>1. ASSUME EmacInv, EmacNext
      PROVE  LET desc == ptdesc[txDma.idx]
                 first == Head(due)[2] = 1
                 last == Head(due)[2] = pbuf_clen[Head(due)[1]]
             IN  /\ txDma'.idx # txDma.idx =>
                       /\ due # <<>>
                       /\ desc.B1ADD = Head(due)
                       /\ "FS" \in desc.flags <=> first
                       /\ "LS" \in desc.flags <=> last
                 /\ txDma'.suspended /\ ~txDma.suspended => due = <<>> \/ first
  <2>1. ThreadInv /\ TxInv
    BY <1>1 DEF EmacInv
  <2>2. txDma \in [idx : TxIndex, suspended : BOOLEAN]
    BY <2>1 DEF TxInv, TxTypeOK
  <2>3. CASE DmaSends
    <3>1. "OWN" \in ptdesc[txDma.idx].flags /\ txDma' = [txDma EXCEPT !.idx = TxNext(txDma.idx)]
      BY <2>3 DEF DmaSends
    <3>2. TxDescInv(txDma.idx) /\ Len(due) > 0 /\ ptdesc[txDma.idx].B1ADD = due[1]
      BY <2>1, <3>1, DmaFinds
    <3>3. due \in Seq(Fragment)
      BY <2>1 DEF TxInv, TxTypeOK
    <3>4. due # <<>> /\ Head(due) = due[1]
      BY <3>2, <3>3, RestParts
    <3>5. /\ "FS" \in ptdesc[txDma.idx].flags <=> Head(due)[2] = 1
          /\ "LS" \in ptdesc[txDma.idx].flags <=> Head(due)[2] = pbuf_clen[Head(due)[1]]
      BY <3>2, <3>4 DEF TxDescInv
    <3>6. txDma'.suspended = txDma.suspended
      BY <2>2, <3>1
    <3>7. QED
      BY <3>2, <3>4, <3>5, <3>6
  <2>4. CASE DmaSuspends
    <3>1. "OWN" \notin ptdesc[txDma.idx].flags /\ txDma' = [txDma EXCEPT !.suspended = TRUE]
      BY <2>4 DEF DmaSuspends
    <3>2. txDma'.idx = txDma.idx
      BY <2>2, <3>1
    <3>3. due = <<>> \/ Head(due)[2] = 1
      BY <2>1, <3>1, DmaStops
    <3>4. QED
      BY <3>2, <3>3
  <2>5. CASE Poll
    <3>1. txDma' = [txDma EXCEPT !.suspended = FALSE]
      BY <2>5 DEF Poll
    <3>2. txDma'.idx = txDma.idx /\ ~txDma'.suspended
      BY <2>2, <3>1
    <3>3. QED
      BY <3>2
  <2>6. CASE ~DmaSends /\ ~DmaSuspends /\ ~Poll
    <3>1. UNCHANGED txDma
      BY <1>1, <2>6 DEF EmacNext, EmacStep, tcpip_thread, lpc_low_level_output, vTransmitCleanupTask,
         vPacketReceiveTask, Fetch, NoOutput, Output, OtherMessage, Release, Spin, Enough,
         LockForOutput, Fill, GiveFirst, CleanWakes, LockForReclaim, Reclaim, ReclaimEnds,
         ReceiveWakes, NothingReceived, SetUpSome, Take, QueueAnother, QueueEnds, Post, Drop,
         FrameComes, ETH_IRQHandler, txVars, emacVars
    <3>2. QED
      BY <3>1
  <2>7. QED
    BY <2>3, <2>4, <2>5, <2>6
<1>2. EmacInv /\ [EmacNext]_emacVars =>
        [LET desc == ptdesc[txDma.idx]
             first == Head(due)[2] = 1
             last == Head(due)[2] = pbuf_clen[Head(due)[1]]
         IN  /\ txDma'.idx # txDma.idx =>
                   /\ due # <<>>
                   /\ desc.B1ADD = Head(due)
                   /\ "FS" \in desc.flags <=> first
                   /\ "LS" \in desc.flags <=> last
             /\ txDma'.suspended /\ ~txDma.suspended => due = <<>> \/ first]_emacVars
  BY <1>1
<1>3. QED
  BY <1>2, EmacInvariant, PTL DEF EmacSpec, SentInOrder

\* For rings of any length: frames are taken in the order in which they came, each once.
THEOREM EmacTakenInOrder == EmacSpec => TakenInOrder
<1>1. ASSUME EmacInv, EmacNext, rx_get_idx' # rx_get_idx
      PROVE  arrived # <<>> /\ prdesc[rx_get_idx].frame = Head(arrived)
  <2>1. ThreadInv /\ RxInv
    BY <1>1 DEF EmacInv
  <2>2. Take
    BY <1>1 DEF EmacNext, EmacStep, tcpip_thread, lpc_low_level_output, vTransmitCleanupTask,
       vPacketReceiveTask, Fetch, NoOutput, Output, OtherMessage, Release, Spin, Enough,
       LockForOutput, Fill, GiveFirst, Poll, CleanWakes, LockForReclaim, Reclaim, ReclaimEnds,
       ReceiveWakes, NothingReceived, SetUpSome, QueueAnother, QueueEnds, Post, Drop,
       DmaSends, DmaSuspends, FrameComes, ETH_IRQHandler, rxVars, emacVars
  <2>3. QED
    BY <2>1, <2>2, TakeRx
<1>2. EmacInv /\ [EmacNext]_emacVars =>
        [rx_get_idx' # rx_get_idx =>
           arrived # <<>> /\ prdesc[rx_get_idx].frame = Head(arrived)]_emacVars
  BY <1>1
<1>3. QED
  BY <1>2, EmacInvariant, PTL DEF EmacSpec, TakenInOrder
================================================================================
