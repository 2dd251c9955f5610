----------------------------- MODULE PriorityProofs -----------------------------
(***************************************************************************)
(* Proofs about priorities: inheritance, and that the task that runs is of *)
(* the highest.                                                            *)
(***************************************************************************)
EXTENDS QueuesProofs

(***************************************************************************)
(* The inductive invariant behind NoInversion.                             *)
(***************************************************************************)

Wants(t, q) == call[t].op = "take" /\ call[t].queue = q
Free(q) == pxMutexHolder[q] = NoHolder
Waiters(q) == event[Receivers(q)]
Holds(t) == \E q \in Queue : pxMutexHolder[q] = t

\* A task holds one mutex at most, and while it holds none its priority is its own.
HolderInv ==
    /\ pxMutexHolder \in [Queue -> Task \cup {NoHolder}]
    /\ uxPriority \in [Task -> Nat] /\ uxMutexesHeld \in [Task -> Nat]
    /\ \A q \in Queue : ~Free(q) => q \in Mutexes
    /\ \A q \in Mutexes : uxMessagesWaiting[q] = (IF Free(q) THEN 1 ELSE 0) /\ cTxLock[q] <= 0
    /\ \A q, r \in Queue : pxMutexHolder[q] = pxMutexHolder[r] /\ ~Free(q) => q = r
    /\ \A t \in Task :
           /\ uxMutexesHeld[t] = IF Holds(t) THEN 1 ELSE 0
           /\ uxBasePriority[t] <= uxPriority[t]
           /\ ~Holds(t) => uxPriority[t] = uxBasePriority[t]

\* Who gives a mutex holds it, who takes one holds none; who is about to wait for one waits for
\* somebody that has inherited its priority.  Waits for ever do not expire, and only those that
\* wait give an inherited priority up (disinherit).
CallerAt(t) ==
    call[t] # NoCall =>
        /\ call[t] \in use.calls[t]
        /\ at[t] \notin {"out", "delay", "slept"} /\ then[t] \notin {"sleep", "hold"}
        /\ at[t] = "inherit" => call[t].queue \in Mutexes
        /\ call[t].queue \in Mutexes =>
               /\ call[t].op = "give" => pxMutexHolder[call[t].queue] = t
               /\ call[t].op = "take" => ~Holds(t)
               /\ at[t] \in {"inherit", "place"} => call[t].op = "take" /\ ~Free(call[t].queue)
               /\ at[t] = "place" => uxPriority[t] <= uxPriority[pxMutexHolder[call[t].queue]]
               /\ at[t] = "disinherit" => call[t].op = "take"
               /\ WaitsForEver(use) =>
                      /\ xTicksToWait[t] \in {0, portMAX_DELAY}
                      /\ t \notin pxDelayedTaskList \cup pxOverflowDelayedTaskList
                      /\ at[t] \notin {"expired", "disinherit"} /\ then[t] # "expire"

\* Task w has been woken to take mutex q.
Woken(w, q) ==
    w \in Ready /\ Wants(w, q) /\ (at[w] = "enter" \/ (at[w] = "yield" /\ then[w] = "block"))

\* The task that runs can go on and take mutex q.
MayTake(q) ==
    /\ uxSchedulerSuspended > 0 \/ ~pendSV
    /\ WaitsForEver(use) \/ \E c \in use.calls[pxCurrentTCB] : c.queue = q

\* Who waits for a mutex is not of a higher priority than its holder or, when it has been given,
\* than a task that was woken to take it, and than whoever can take it instead.
WaitersAt(q) ==
    /\ Sorted(Waiters(q))
    /\ \A u \in Range(Waiters(q)) :
           /\ Wants(u, q)
           /\ ~Free(q) => uxBasePriority[u] <= uxPriority[pxMutexHolder[q]]
           /\ Free(q) /\ MayTake(q) => uxBasePriority[u] <= uxPriority[pxCurrentTCB]
    /\ Free(q) /\ Range(Waiters(q)) # {} =>
           \E w \in Task : Woken(w, q) /\ \A u \in Range(Waiters(q)) :
                                              uxBasePriority[u] <= uxBasePriority[w]

\* The holder of a mutex that is waited for without a limit has inherited from one that waits.
InheritedAt(q) ==
    LET holder == pxMutexHolder[q]
    IN  WaitsForEver(use) /\ ~Free(q) /\ uxPriority[holder] # uxBasePriority[holder] =>
            \E u \in Task : /\ Wants(u, q) /\ uxBasePriority[u] = uxPriority[holder]
                            /\ u \in Range(Waiters(q)) \/ at[u] = "place"

PriorityInv ==
    /\ HolderInv
    /\ \A t \in Task : CallerAt(t)
    /\ \A q \in Mutexes : WaitersAt(q) /\ InheritedAt(q)

LEMMA WaitersAre ==
  ASSUME ListInv, NEW q \in Mutexes
  PROVE  Receivers(q) \in EventList /\ Waiters(q) \in Seq(Task) /\ Range(Waiters(q)) \subseteq Task
<1>1. Receivers(q) \in EventList
  BY QueueAssumption DEF Receivers, Mutexes
<1>2. Waiters(q) \in Seq(Task)
  BY <1>1 DEF ListInv, Waiters
<1>3. QED
  BY <1>1, <1>2, RangeOfSeq

-------------------------------------------------------------------------------
(***************************************************************************)
(* Steps that leave the holders and priorities alone.                      *)
(***************************************************************************)

SameHolders ==
    /\ UNCHANGED <<use, pxMutexHolder, uxPriority, uxMutexesHeld>>
    /\ \A q \in Mutexes : uxMessagesWaiting'[q] = uxMessagesWaiting[q] /\ cTxLock'[q] <= 0

\* Nobody enters the list of a mutex, and nobody leaves it whose wait has no limit.
WaitersStay ==
    \A q \in Mutexes : /\ Thinned(Waiters(q)', Waiters(q))
                       /\ WaitsForEver(use) => Range(Waiters(q)) \subseteq Range(Waiters(q)')

\* The same tasks wait for each mutex.
WaitersKept == \A q \in Mutexes : Range(Waiters(q)') = Range(Waiters(q))

\* Whoever may take a free mutex then is not outranked by those that wait for it.
NobodyFirst ==
    \A q \in Mutexes : Free(q) /\ MayTake(q)' =>
        \A u \in Range(Waiters(q)) : uxBasePriority[u] <= uxPriority[pxCurrentTCB']

Steady == SameHolders /\ WaitersStay /\ NobodyFirst

\* What does not concern task u, unless it wakes it.
Rests(u) ==
    /\ at'[u] = at[u] /\ then'[u] = then[u] /\ call'[u] = call[u]
    /\ xTicksToWait'[u] = xTicksToWait[u]
    /\ u \in Ready => u \in Ready'
    /\ u \in pxDelayedTaskList' \cup pxOverflowDelayedTaskList' =>
           u \in pxDelayedTaskList \cup pxOverflowDelayedTaskList

\* A step of task t that does not touch its part in the invariant.
GoesOn(t) ==
    /\ CallerAt(t)'
    /\ \A q \in Mutexes :
           /\ t \in Range(Waiters(q)) => call'[t] = call[t]
           /\ Free(q) /\ Woken(t, q) => Woken(t, q)'
           /\ Wants(t, q) /\ at[t] = "place" => Wants(t, q)' /\ at'[t] = "place"

LEMMA RestsCaller ==
  ASSUME NEW u \in Task, CallerAt(u), SameHolders, Rests(u)
  PROVE  CallerAt(u)'
BY DEF CallerAt, SameHolders, Rests, Holds, Free

LEMMA RestsGoesOn ==
  ASSUME NEW u \in Task, CallerAt(u), SameHolders, Rests(u)
  PROVE  GoesOn(u)
BY RestsCaller DEF GoesOn, Rests, Woken, Wants

\* Who runs and what is pending decides who can take a mutex.
LEMMA SameTaker ==
  ASSUME PriorityInv, UNCHANGED <<use, pxCurrentTCB>>,
         uxSchedulerSuspended' > 0 \/ ~pendSV' => uxSchedulerSuspended > 0 \/ ~pendSV
  PROVE  NobodyFirst
BY DEF NobodyFirst, MayTake, PriorityInv, WaitersAt

LEMMA SteadyWaiters ==
  ASSUME PriorityInv, Steady, \A u \in Task : GoesOn(u),
         \A q \in Mutexes : Range(Waiters(q)) \subseteq Task,
         NEW q \in Mutexes
  PROVE  WaitersAt(q)' /\ InheritedAt(q)'
<1>1. /\ Thinned(Waiters(q)', Waiters(q))
      /\ WaitsForEver(use) => Range(Waiters(q)) \subseteq Range(Waiters(q)')
  BY DEF Steady, WaitersStay
<1>2. Range(Waiters(q)') \subseteq Range(Waiters(q))
  BY <1>1 DEF Thinned
<1>3. UNCHANGED <<use, pxMutexHolder, uxPriority>>
  BY DEF Steady, SameHolders
<1>4. WaitersAt(q) /\ InheritedAt(q)
  BY DEF PriorityInv
<1>5. ASSUME NEW u \in Task
      PROVE  /\ u \in Range(Waiters(q)) => call'[u] = call[u]
             /\ Free(q) /\ Woken(u, q) => Woken(u, q)'
             /\ Wants(u, q) /\ at[u] = "place" => Wants(u, q)' /\ at'[u] = "place"
  BY DEF GoesOn
<1>6. Sorted(Waiters(q)')
  BY <1>1, <1>4, ThinnedSorted DEF WaitersAt
<1>7. ASSUME NEW u \in Range(Waiters(q)')
      PROVE  /\ Wants(u, q)'
             /\ ~Free(q)' => uxBasePriority[u] <= uxPriority'[pxMutexHolder'[q]]
             /\ Free(q)' /\ MayTake(q)' => uxBasePriority[u] <= uxPriority'[pxCurrentTCB']
  <2>1. u \in Range(Waiters(q)) /\ u \in Task
    BY <1>2
  <2>2. Wants(u, q)'
    BY <1>4, <1>5, <2>1 DEF WaitersAt, Wants
  <2>3. ~Free(q)' => uxBasePriority[u] <= uxPriority'[pxMutexHolder'[q]]
    BY <1>3, <1>4, <2>1 DEF WaitersAt, Free
  <2>4. Free(q)' /\ MayTake(q)' => uxBasePriority[u] <= uxPriority'[pxCurrentTCB']
    BY <1>3, <2>1 DEF Steady, NobodyFirst, Free
  <2>5. QED
    BY <2>2, <2>3, <2>4
<1>8. Free(q)' /\ Range(Waiters(q)') # {} =>
          \E w \in Task : Woken(w, q)' /\ \A u \in Range(Waiters(q)') :
                                             uxBasePriority[u] <= uxBasePriority[w]
  BY <1>2, <1>3, <1>4, <1>5 DEF WaitersAt, Free
<1>9. WaitersAt(q)'
  BY <1>6, <1>7, <1>8 DEF WaitersAt
<1>10. InheritedAt(q)'
  <2> SUFFICES ASSUME WaitsForEver(use), ~Free(q), uxPriority[pxMutexHolder[q]] # uxBasePriority[pxMutexHolder[q]]
               PROVE  \E u \in Task : /\ Wants(u, q)'
                                      /\ uxBasePriority[u] = uxPriority[pxMutexHolder[q]]
                                      /\ u \in Range(Waiters(q)') \/ at'[u] = "place"
    BY <1>3 DEF InheritedAt, Free
  <2>1. PICK u \in Task : /\ Wants(u, q) /\ uxBasePriority[u] = uxPriority[pxMutexHolder[q]]
                          /\ u \in Range(Waiters(q)) \/ at[u] = "place"
    BY <1>4 DEF InheritedAt
  <2>2. CASE u \in Range(Waiters(q))
    BY <1>1, <1>5, <2>1, <2>2 DEF Wants
  <2>3. CASE at[u] = "place"
    BY <1>5, <2>1, <2>3
  <2>4. QED
    BY <2>1, <2>2, <2>3
<1>11. QED
  BY <1>9, <1>10

LEMMA SteadyInv ==
  ASSUME PriorityInv, Steady, ListInv, NEW t \in Task, \A u \in Task : u # t => Rests(u), GoesOn(t)
  PROVE  PriorityInv'
<1>1. \A u \in Task : GoesOn(u)
  BY RestsGoesOn DEF Steady, PriorityInv
<1>2. \A q \in Mutexes : Range(Waiters(q)) \subseteq Task
  BY WaitersAre
<1>3. HolderInv'
  BY DEF PriorityInv, HolderInv, Steady, SameHolders, Free, Holds
<1>4. \A u \in Task : CallerAt(u)'
  BY <1>1 DEF GoesOn
<1>5. \A q \in Mutexes : WaitersAt(q)' /\ InheritedAt(q)'
  BY <1>1, <1>2, SteadyWaiters
<1>6. QED
  BY <1>3, <1>4, <1>5 DEF PriorityInv

-------------------------------------------------------------------------------
(***************************************************************************)
(* What steps do to the lists of the mutexes.                              *)
(***************************************************************************)

LEMMA ThinnedSelf == ASSUME NEW T, NEW s \in Seq(T) PROVE Thinned(s, s)
BY DEF Thinned

LEMMA SameWaiters ==
  ASSUME ListInv, UNCHANGED <<event>>
  PROVE  WaitersStay /\ WaitersKept
BY WaitersAre, ThinnedSelf DEF WaitersStay, WaitersKept, Waiters

\* An event list that is not a mutex's, or nobody of it, is woken.
LEMMA RemoveWaiters ==
  ASSUME ListInv, NEW l \in EventList, NEW n \in Int,
         event' = [event EXCEPT ![l] = Without(@, Firsts(l, n))],
         (\A q \in Mutexes : l # Receivers(q)) \/ n <= 0
  PROVE  WaitersStay /\ WaitersKept
<1> SUFFICES ASSUME NEW q \in Mutexes
             PROVE  /\ Thinned(Waiters(q)', Waiters(q))
                    /\ Range(Waiters(q)) \subseteq Range(Waiters(q)')
  BY DEF WaitersStay, WaitersKept, Thinned
<1>1. Receivers(q) \in EventList /\ Waiters(q) \in Seq(Task) /\ event \in [EventList -> Seq(Task)]
  BY WaitersAre DEF ListInv
<1>2. CASE l # Receivers(q)
  <2>1. Waiters(q)' = Waiters(q)
    BY <1>1, <1>2 DEF Waiters
  <2>2. QED
    BY <1>1, <2>1, ThinnedSelf
<1>3. CASE l = Receivers(q) /\ n <= 0
  <2>1. Firsts(l, n) = {}
    <3>1. Len(event[l]) \in Nat
      BY <1>1, <1>3, LenProperties
    <3>2. (IF n < Len(event[l]) THEN n ELSE Len(event[l])) <= 0
      BY <1>3, <3>1
    <3>3. QED
      BY <3>1, <3>2 DEF Firsts
  <2>2. Waiters(q)' = Without(Waiters(q), {})
    BY <1>1, <1>3, <2>1 DEF Waiters
  <2>3. QED
    BY <1>1, <2>2, WithoutThins
<1>4. QED
  BY <1>2, <1>3

\* A task that waits without a limit is not woken by the tick.
LEMMA TickWaiters ==
  ASSUME ListInv, PriorityInv, IncrementTick
  PROVE  WaitersStay
<1> DEFINE S == Due(TickPlus(xTickCount, 1))
<1> SUFFICES ASSUME NEW q \in Mutexes
             PROVE  /\ Thinned(Waiters(q)', Waiters(q))
                    /\ WaitsForEver(use) => Range(Waiters(q)) \subseteq Range(Waiters(q)')
  BY DEF WaitersStay
<1>1. Receivers(q) \in EventList /\ Waiters(q) \in Seq(Task) /\ Range(Waiters(q)) \subseteq Task
  BY WaitersAre
<1>2. Waiters(q)' = Without(Waiters(q), S)
  BY <1>1 DEF IncrementTick, Waiters
<1>3. S \subseteq pxDelayedTaskList \cup pxOverflowDelayedTaskList
  BY DEF Due, CurrentDelayed
<1>4. WaitsForEver(use) => Range(Waiters(q)) \cap S = {}
  <2> SUFFICES ASSUME WaitsForEver(use), NEW u \in Range(Waiters(q)) PROVE u \notin S
    OBVIOUS
  <2>1. u \in Task /\ Wants(u, q)
    BY <1>1 DEF PriorityInv, WaitersAt
  <2>2. call[u] # NoCall /\ call[u].queue \in Mutexes /\ CallerAt(u)
    BY <2>1 DEF Wants, NoCall, PriorityInv
  <2>3. QED
    BY <1>3, <2>2 DEF CallerAt
<1> HIDE DEF S
<1>5. QED
  BY <1>1, <1>2, <1>4, WithoutThins

-------------------------------------------------------------------------------
(***************************************************************************)
(* The steps that leave the holders and priorities alone.                  *)
(***************************************************************************)

AllInv == CallInv /\ ControlInv /\ TimeInv /\ RingInv /\ PriorityInv

OnlyOf(t) ==
    \A u \in Task : u # t =>
        /\ at'[u] = at[u] /\ then'[u] = then[u] /\ call'[u] = call[u]
        /\ xTicksToWait'[u] = xTicksToWait[u]

\* What AllInv says of a task that runs in a call.
LEMMA Caller ==
  ASSUME AllInv, NEW t \in Task, Runs(t), at[t] \in InCall
  PROVE  /\ call[t] # NoCall /\ call[t].op # "none" /\ call[t] \in use.calls[t]
         /\ call[t].queue \in Queue /\ call[t].op \in OpsOf(call[t].queue)
         /\ CallerAt(t)
<1>1. call[t].op # "none" /\ CallerAt(t)
  BY Whereabouts DEF AllInv, PriorityInv
<1>2. call[t] # NoCall
  BY <1>1 DEF NoCall
<1>3. QED
  BY <1>1, <1>2, CallFits DEF AllInv, CallerAt

\* Who takes a mutex has the priority of its own.
LEMMA TakersPriority ==
  ASSUME PriorityInv, NEW u \in Task, NEW q \in Mutexes, Wants(u, q)
  PROVE  /\ ~Holds(u) /\ uxPriority[u] = uxBasePriority[u]
         /\ call[u] # NoCall /\ call[u].queue \in Mutexes /\ CallerAt(u)
<1>1. call[u] # NoCall /\ call[u].queue \in Mutexes /\ call[u].op = "take" /\ CallerAt(u)
  BY DEF Wants, NoCall, PriorityInv
<1>2. ~Holds(u)
  BY <1>1 DEF CallerAt
<1>3. QED
  BY <1>1, <1>2 DEF PriorityInv, HolderInv

\* A free mutex is there to be taken.
LEMMA NotStuck ==
  ASSUME PriorityInv, NEW t \in Task, NEW q \in Mutexes, Wants(t, q), Free(q)
  PROVE  ~Stuck(t)
BY DEF PriorityInv, HolderInv, Wants, Stuck, Empty

LEMMA OthersRest ==
  ASSUME NEW t, OnlyOf(t), Wakes
  PROVE  \A u \in Task : u # t => Rests(u)
BY DEF OnlyOf, Wakes, Rests, Ready

LEMMA StayPut ==
  ASSUME ListInv, Wakes, UNCHANGED <<at, then, call, xTicksToWait>>, NEW t \in Task
  PROVE  Rests(t)
BY DEF Wakes, Rests, Ready

\* A step of a task that makes no call.
LEMMA IdleGoesOn ==
  ASSUME NEW t \in Task, call[t] = NoCall, call'[t] = NoCall
  PROVE  GoesOn(t)
BY DEF GoesOn, CallerAt, Wants, Woken, NoCall

\* A call returns.
LEMMA ReturnsOnly ==
  ASSUME CallInv, ControlInv, TimeInv, NEW t, Returns(t)
  PROVE  OnlyOf(t)
BY DEF Returns, Goes, OnlyOf, CallInv, ControlInv, PlaceInv, TimeInv, ClockInv

LEMMA ReturnPriority ==
  ASSUME AllInv, NEW t \in Task, Runs(t), Returns(t), SameHolders, WaitersStay, Wakes,
         at[t] \in {"enter", "expired", "disinherit"},
         at[t] = "enter" => \A q \in Mutexes : Free(q) => ~Wants(t, q)
  PROVE  PriorityInv'
<1>1. /\ OnlyOf(t) /\ call'[t] = NoCall
      /\ UNCHANGED <<use, pxCurrentTCB, uxSchedulerSuspended>>
  BY ReturnsOnly DEF Returns, AllInv, CallInv
<1>2. NobodyFirst
  BY <1>1, SameTaker DEF AllInv, Runs
<1>3. t \notin OnEvent
  BY AwakeRuns DEF AllInv, Leaving
<1>4. ASSUME NEW q \in Mutexes PROVE t \notin Range(Waiters(q))
  BY <1>3, WaitersAre, OnEventIs DEF AllInv, ControlInv, Waiters
<1>5. GoesOn(t)
  BY <1>1, <1>4 DEF GoesOn, CallerAt, Woken
<1>6. QED
  BY <1>1, <1>2, <1>5, OthersRest, SteadyInv DEF Steady, AllInv, ControlInv

\* Calls for queues and semaphores that can proceed.
LEMMA ProceedsPriority ==
  ASSUME AllInv, NEW t \in Task,
         \/ SendProceeds(t) \/ GiveProceeds(t) \/ ReceiveProceeds(t)
         \/ (TakeProceeds(t) /\ call[t].queue \notin Mutexes)
  PROVE  PriorityInv' /\ SameHolders /\ WaitersKept /\ OnlyOf(t)
<1> DEFINE z == call[t].queue
<1>1. Runs(t) /\ at[t] = "enter" /\ Returns(t)
  BY DEF SendProceeds, GiveProceeds, ReceiveProceeds, TakeProceeds, Proceeds
<1>2. z \in Queue /\ call[t].op \in OpsOf(z)
  BY <1>1, Caller DEF InCall
<1>3. z \notin Mutexes
  <2>1. CASE SendProceeds(t) \/ ReceiveProceeds(t)
    BY <1>2, <2>1 DEF SendProceeds, ReceiveProceeds, Proceeds, OpsOf, Mutexes
  <2>2. CASE GiveProceeds(t)
    BY <2>2 DEF GiveProceeds, Mutexes
  <2>3. QED
    BY <2>1, <2>2
<1>4. Receivers(z) \in EventList /\ Senders(z) \in EventList
  BY <1>2, QueueAssumption DEF Receivers, Senders
<1>5. \A q \in Mutexes : Receivers(z) # Receivers(q) /\ Senders(z) # Receivers(q)
  BY <1>3 DEF Receivers, Senders
<1>6. Wakes
  BY ProceedsControl DEF AllInv
<1>7. WaitersStay /\ WaitersKept
  <2>1. PICK l \in {Receivers(z), Senders(z)} : event' = [event EXCEPT ![l] = Without(@, Firsts(l, 1))]
    BY DEF SendProceeds, GiveProceeds, ReceiveProceeds, TakeProceeds, xTaskRemoveFromEventList
  <2>2. l \in EventList /\ ListInv /\ 1 \in Int /\ \A q \in Mutexes : l # Receivers(q)
    BY <1>4, <1>5 DEF AllInv, ControlInv
  <2>3. QED
    BY <2>1, <2>2, RemoveWaiters
<1>8. SameHolders
  <2>1. \E k : uxMessagesWaiting' = [uxMessagesWaiting EXCEPT ![z] = k]
    BY DEF SendProceeds, GiveProceeds, ReceiveProceeds, TakeProceeds
  <2>2. \A q \in Mutexes : uxMessagesWaiting'[q] = uxMessagesWaiting[q]
    BY <1>3, <2>1 DEF Mutexes, AllInv, RingInv
  <2>3. UNCHANGED <<use, pxMutexHolder, uxPriority, uxMutexesHeld, cTxLock>>
    <3>1. UNCHANGED <<use, cTxLock>>
      BY <1>1 DEF Returns, locks
    <3>2. Kind[z] # "mutex"
      BY <1>2, <1>3 DEF Mutexes
    <3>3. UNCHANGED <<pxMutexHolder, uxPriority, uxMutexesHeld>>
      BY <3>2 DEF SendProceeds, GiveProceeds, ReceiveProceeds, TakeProceeds, priorities
    <3>4. QED
      BY <3>1, <3>3
  <2>4. QED
    BY <2>2, <2>3 DEF SameHolders, AllInv, PriorityInv, HolderInv
<1>9. PriorityInv'
  BY <1>1, <1>3, <1>6, <1>7, <1>8, ReturnPriority DEF Wants
<1>10. OnlyOf(t)
  BY <1>1, ReturnsOnly DEF AllInv
<1>11. QED
  BY <1>7, <1>8, <1>9, <1>10

\* Calls that give up.
LEMMA GivesUpPriority ==
  ASSUME AllInv, NEW t \in Task,
         \/ GivesUp(t) \/ Expired(t)
         \/ (DisinheritAfterTimeout(t) /\ Free(call[t].queue))
  PROVE  PriorityInv' /\ SameHolders /\ WaitersKept /\ OnlyOf(t)
<1>1. Runs(t) /\ at[t] \in {"enter", "expired", "disinherit"} /\ Returns(t) /\ event' = event
  BY DEF GivesUp, Expired, DisinheritAfterTimeout
<1>2. Wakes
  BY GivesUpControl DEF AllInv
<1>3. WaitersStay /\ WaitersKept
  BY <1>1, SameWaiters DEF AllInv, ControlInv
<1>4. SameHolders
  <2>1. UNCHANGED <<use, pxMutexHolder, uxPriority, uxMutexesHeld, cTxLock, uxMessagesWaiting>>
    BY DEF GivesUp, Expired, DisinheritAfterTimeout, Returns, priorities, locks, Free
  <2>2. QED
    BY <2>1 DEF SameHolders, AllInv, PriorityInv, HolderInv
<1>5. at[t] = "enter" => \A q \in Mutexes : Free(q) => ~Wants(t, q)
  BY NotStuck DEF GivesUp, Expired, DisinheritAfterTimeout, AllInv
<1>6. PriorityInv'
  BY <1>1, <1>2, <1>3, <1>4, <1>5, ReturnPriority
<1>7. OnlyOf(t)
  BY <1>1, ReturnsOnly DEF AllInv
<1>8. QED
  BY <1>3, <1>4, <1>6, <1>7

\* The steps between two calls, of which the invariant knows that no call is made.
LEMMA IdlePriority ==
  ASSUME AllInv, NEW t \in Task,
         \/ /\ UNCHANGED queueVars
            /\ \/ DelayAdds(t) \/ DelayEnds(t) \/ HeapSuspends(t) \/ vTaskYield(t)
               \/ \E c \in use.calls[t] : vTaskDelay(t, c.wait)
  PROVE  PriorityInv' /\ SameHolders /\ WaitersKept /\ OnlyOf(t)
<1>1. /\ Runs(t) /\ at[t] \in {"out", "delay", "slept"}
      /\ UNCHANGED <<pxCurrentTCB, event>> /\ UNCHANGED <<priorities, queueVars>>
  BY DEF DelayAdds, DelayEnds, HeapSuspends, vTaskYield, vTaskDelay, vTaskSuspendAll
<1>2. call[t] = NoCall /\ call'[t] = NoCall
  BY <1>1 DEF AllInv, PriorityInv, CallerAt, queueVars
<1>3. GoesOn(t)
  BY <1>2, IdleGoesOn
<1>4. SameHolders
  BY <1>1 DEF queueVars, priorities, locks, SameHolders, AllInv, PriorityInv, HolderInv
<1>5. NobodyFirst
  BY <1>1, SameTaker DEF AllInv, Runs, queueVars
<1>6. WaitersStay /\ WaitersKept
  BY <1>1, SameWaiters DEF AllInv, ControlInv
<1>9. OnlyOf(t)
  BY <1>1 DEF OnlyOf, DelayAdds, DelayEnds, HeapSuspends, vTaskYield, vTaskDelay, vTaskSuspendAll,
              Goes, control, queueVars, AllInv, ControlInv, PlaceInv, TimeInv, ClockInv
<1>7. \A u \in Task : u # t => Rests(u)
  <2>2. /\ pxDelayedTaskList' \subseteq pxDelayedTaskList \cup {t}
        /\ pxOverflowDelayedTaskList' \subseteq pxOverflowDelayedTaskList \cup {t}
        /\ Blocked' \subseteq Blocked \cup {t}
    <3>1. CASE DelayAdds(t)
      <4>1. Blocked' = Blocked \cup {t}
        BY <1>1, <3>1, AddBlocks DEF DelayAdds, Runs
      <4>2. QED
        BY <1>1, <3>1, <4>1 DEF DelayAdds, Runs, prvAddCurrentTaskToDelayedList
    <3>2. CASE ~DelayAdds(t)
      <4>1. UNCHANGED lists
        BY <3>2 DEF DelayEnds, HeapSuspends, vTaskYield, vTaskDelay, vTaskSuspendAll
      <4>2. QED
        BY <4>1 DEF lists, Blocked
    <3>3. QED
      BY <3>1, <3>2
  <2>3. QED
    BY <1>9, <2>2 DEF OnlyOf, Rests, Ready
<1>8. QED
  BY <1>3, <1>4, <1>5, <1>6, <1>7, <1>9, SteadyInv DEF Steady, AllInv, ControlInv

\* A step in a call, or on its way out of one.
LEMMA MovePriority ==
  ASSUME AllInv, NEW t \in Task, Runs(t), SameHolders, WaitersStay, UNCHANGED pxCurrentTCB,
         \A u \in Task : u # t => Rests(u), GoesOn(t)
  PROVE  PriorityInv'
<1>1. NobodyFirst
  BY SameTaker DEF AllInv, Runs, SameHolders
<1>2. QED
  BY <1>1, SteadyInv DEF Steady, AllInv, ControlInv

\* A call begins.
LEMMA BeginPriority ==
  ASSUME AllInv, NEW t \in Task, NEW c \in use.calls[t], c.queue \in Queue, Begin(t, c)
  PROVE  PriorityInv' /\ SameHolders /\ WaitersKept /\ OnlyOf(t)
<1>1. /\ Runs(t) /\ at[t] = "out" /\ MayCall(t, c)
      /\ UNCHANGED <<event, pxCurrentTCB, use, priorities, uxMessagesWaiting, locks, pxMutexHolder, lists>>
      /\ at' = [at EXCEPT ![t] = "enter"] /\ then' = then
      /\ call' = [call EXCEPT ![t] = c] /\ xTicksToWait' = [xTicksToWait EXCEPT ![t] = c.wait]
  BY DEF Begin, Goes
<1>2. Wakes
  BY BeginControl DEF AllInv
<1>3. call[t] = NoCall /\ then[t] = "none"
  BY <1>1, FollowUpsAre DEF AllInv, PriorityInv, CallerAt, ControlInv, PlaceInv
<1>4. at'[t] = "enter" /\ then'[t] = "none" /\ call'[t] = c /\ xTicksToWait'[t] = c.wait
  BY <1>1, <1>3 DEF AllInv, ControlInv, PlaceInv, CallInv, TimeInv, ClockInv
<1>5. SameHolders
  BY <1>1 DEF SameHolders, priorities, locks, AllInv, PriorityInv, HolderInv
<1>6. CallerAt(t)'
  <2>1. t \notin pxDelayedTaskList' \cup pxOverflowDelayedTaskList'
    BY <1>1, AwakeRuns DEF AllInv, lists, Blocked, Leaving
  <2>2. ASSUME c.queue \in Mutexes
        PROVE  /\ c.op = "give" => pxMutexHolder[c.queue] = t
               /\ c.op = "take" => ~Holds(t)
               /\ WaitsForEver(use) => c.wait \in {0, portMAX_DELAY}
    <3>1. Kind[c.queue] = "mutex"
      BY <2>2 DEF Mutexes
    <3>2. ~Holds(t) \/ uxMutexesHeld[t] = 1
      BY DEF AllInv, PriorityInv, HolderInv
    <3>3. QED
      BY <1>1, <2>2, <3>1, <3>2 DEF MayCall, WaitsForEver, MutexCalls
  <2>3. QED
    BY <1>1, <1>4, <2>1, <2>2 DEF CallerAt, Holds, Free
<1>7. GoesOn(t)
  <2>1. \A q : ~Wants(t, q)
    BY <1>3 DEF Wants, NoCall
  <2>2. \A q \in Mutexes : t \notin Range(Waiters(q))
    BY <2>1 DEF AllInv, PriorityInv, WaitersAt
  <2>3. QED
    BY <1>6, <2>1, <2>2 DEF GoesOn, Woken
<1>8. WaitersStay /\ WaitersKept
  BY <1>1, SameWaiters DEF AllInv, ControlInv
<1>9. OnlyOf(t)
  BY <1>1 DEF OnlyOf, AllInv, ControlInv, PlaceInv, CallInv, TimeInv, ClockInv
<1>10. QED
  BY <1>1, <1>2, <1>5, <1>7, <1>8, <1>9, OthersRest, MovePriority

LEMMA MoveGoesOn ==
  ASSUME AllInv, NEW t \in Task, CallerAt(t)', call'[t] = call[t], at[t] # "yield",
         at[t] = "enter" => Stuck(t), at[t] = "place" => call[t].queue \notin Mutexes
  PROVE  GoesOn(t)
BY NotStuck DEF AllInv, GoesOn, Woken, Wants

\* The places and follow-ups of which the invariant says nothing.
PlainPlaces == {"enter", "suspend", "lock", "check", "test", "unlock", "unlockRx", "resume", "ticks", "yield"}
PlainFollowUps == {"none", "block", "again"}

LEMMA PlainCaller ==
  ASSUME NEW t \in Task, CallerAt(t), UNCHANGED <<use, pxMutexHolder, uxPriority>>,
         call'[t] = call[t], call[t] # NoCall,
         at'[t] \in PlainPlaces, then'[t] \in PlainFollowUps,
         WaitsForEver(use) /\ call[t].queue \in Mutexes =>
             /\ xTicksToWait'[t] = xTicksToWait[t]
             /\ t \notin pxDelayedTaskList' \cup pxOverflowDelayedTaskList'
  PROVE  CallerAt(t)'
BY DEF CallerAt, PlainPlaces, PlainFollowUps, Holds

\* The steps of a call towards its wait, and its last look.
LEMMA WaitPriority ==
  ASSUME AllInv, NEW t \in Task,
         \/ EntersWait(t) \/ Suspends(t) \/ prvLockQueue(t) \/ CheckForTimeOut(t) \/ Looks(t)
         \/ ExpiredLooks(t)
  PROVE  PriorityInv' /\ SameHolders /\ WaitersKept /\ OnlyOf(t)
<1> DEFINE q == call[t].queue
<1>1. /\ Runs(t) /\ at[t] \in InCall \ {"place", "inherit", "disinherit", "unlock", "unlockRx"}
      /\ at[t] = "enter" => Stuck(t)
      /\ UNCHANGED <<use, pxMutexHolder, uxPriority, uxMutexesHeld, uxMessagesWaiting, call, event>>
      /\ UNCHANGED <<lists, pxCurrentTCB>>
  BY DEF EntersWait, Suspends, prvLockQueue, CheckForTimeOut, Looks, ExpiredLooks, InCall, InWait,
         StepUnchanged, priorities, vTaskSuspendAll, queueVars
<1>2. /\ call[t] # NoCall /\ call[t].op # "none" /\ call[t] \in use.calls[t]
      /\ q \in Queue /\ call[t].op \in OpsOf(q) /\ CallerAt(t)
  BY <1>1, Caller
<1>3. Wakes
  BY WaitControl, LookControl DEF AllInv
<1>4. OnlyOf(t)
  BY DEF EntersWait, Suspends, prvLockQueue, CheckForTimeOut, Looks, ExpiredLooks, OnlyOf, Goes,
         StepUnchanged, vTaskSuspendAll, queueVars, AllInv, ControlInv, PlaceInv, CallInv, TimeInv,
         ClockInv
<1>5. SameHolders
  <2>1. \A r \in Mutexes : cTxLock'[r] <= 0
    <3>1. CASE prvLockQueue(t)
      BY <3>1 DEF prvLockQueue, Locked, queueUNLOCKED, queueLOCKED_UNMODIFIED, AllInv, PriorityInv,
                  HolderInv, ControlInv, ListInv, Mutexes
    <3>2. CASE ~prvLockQueue(t)
      <4>1. cTxLock' = cTxLock
        BY <3>2 DEF EntersWait, Suspends, CheckForTimeOut, Looks, ExpiredLooks, queueVars, locks
      <4>2. QED
        BY <4>1 DEF AllInv, PriorityInv, HolderInv
    <3>3. QED
      BY <3>1, <3>2
  <2>2. QED
    BY <1>1, <2>1 DEF SameHolders
<1>6. then[t] = "none" /\ at \in [Task -> Places] /\ then \in [Task -> {"none", "sleep", "hold"} \cup InTurn]
  BY <1>1, FollowUpsAre DEF AllInv, ControlInv, PlaceInv, InCall, InWait
<1>7. t \notin pxDelayedTaskList' \cup pxOverflowDelayedTaskList'
  BY <1>1, AwakeRuns DEF AllInv, lists, Blocked, Leaving, InCall, InWait
<1>8. CallerAt(t)'
  <2>1. CASE EntersWait(t) \/ Suspends(t) \/ prvLockQueue(t)
    <3>1. at'[t] \in PlainPlaces /\ then'[t] = "none" /\ xTicksToWait' = xTicksToWait
      BY <1>6, <2>1 DEF EntersWait, Suspends, prvLockQueue, vTaskSuspendAll, Goes, PlainPlaces
    <3>2. QED
      BY <1>1, <1>2, <1>7, <3>1, PlainCaller DEF PlainFollowUps
  <2>2. CASE CheckForTimeOut(t)
    <3>1. WaitsForEver(use) /\ q \in Mutexes => xTicksToWait[t] = portMAX_DELAY
      <4>1. xTicksToWait[t] > 0
        BY <2>2 DEF CheckForTimeOut, InWait, AllInv, TimeInv, WaitAt
      <4>2. QED
        BY <1>2, <4>1 DEF CallerAt
    <3>2. \/ xTicksToWait' = xTicksToWait /\ at'[t] = "test" /\ then'[t] = "none"
          \/ xTicksToWait[t] # portMAX_DELAY /\ at'[t] \in {"test", "unlock"} /\ then'[t] \in {"none", "expire"}
      BY <1>6, <2>2 DEF CheckForTimeOut, Goes
    <3>3. CASE WaitsForEver(use) /\ q \in Mutexes
      BY <1>1, <1>2, <1>7, <3>1, <3>2, <3>3, PlainCaller DEF PlainPlaces, PlainFollowUps
    <3>4. CASE ~(WaitsForEver(use) /\ q \in Mutexes)
      BY <1>1, <1>2, <3>2, <3>4 DEF CallerAt, Holds
    <3>5. QED
      BY <3>3, <3>4
  <2>3. CASE Looks(t)
    <3>1. xTicksToWait' = xTicksToWait
      BY <2>3 DEF Looks
    <3>2. CASE Stuck(t) /\ q \in Mutexes
      <4>1. at'[t] = "inherit" /\ then'[t] = "none"
        BY <1>6, <2>3, <3>2 DEF Looks, Goes, Mutexes
      <4>2. call[t].op = "take" /\ ~Free(q)
        <5>1. call[t].op \in {"take", "give"}
          BY <1>2, <3>2 DEF OpsOf, Mutexes
        <5>2. uxMessagesWaiting[q] = (IF Free(q) THEN 1 ELSE 0) /\ uxLength[q] = 1
          BY <3>2, MutexAssumption DEF AllInv, PriorityInv, HolderInv
        <5>3. CASE call[t].op = "give"
          <6>1. Free(q)
            BY <3>2, <5>2, <5>3 DEF Stuck, Full
          <6>2. pxMutexHolder[q] = t
            BY <1>2, <3>2, <5>3 DEF CallerAt
          <6>3. QED
            BY <6>1, <6>2, MutexAssumption DEF Free
        <5>4. CASE call[t].op = "take"
          BY <3>2, <5>2, <5>4 DEF Stuck, Empty
        <5>5. QED
          BY <5>1, <5>3, <5>4
      <4>3. QED
        BY <1>1, <1>2, <1>7, <3>1, <3>2, <4>1, <4>2 DEF CallerAt, Holds, Free
    <3>3. CASE Stuck(t) /\ q \notin Mutexes
      <4>1. at'[t] = "place" /\ then'[t] = "none"
        BY <1>2, <1>6, <2>3, <3>3 DEF Looks, Goes, Mutexes
      <4>2. QED
        BY <1>1, <1>2, <3>3, <4>1 DEF CallerAt
    <3>4. CASE ~Stuck(t)
      <4>1. at'[t] = "unlock" /\ then'[t] = "again"
        BY <1>6, <2>3, <3>4 DEF Looks, Goes
      <4>2. QED
        BY <1>1, <1>2, <1>7, <3>1, <4>1, PlainCaller DEF PlainPlaces, PlainFollowUps
    <3>5. QED
      BY <3>2, <3>3, <3>4
  <2>4. CASE ExpiredLooks(t)
    <3>1. /\ xTicksToWait' = xTicksToWait /\ then'[t] = "none" /\ at[t] = "expired"
          /\ at'[t] = IF Stuck(t) THEN "disinherit" ELSE "enter"
      BY <1>6, <2>4 DEF ExpiredLooks, Goes
    <3>2. CASE Stuck(t) /\ q \in Mutexes
      <4>1. call[t].op \in {"take", "give"}
        BY <1>2, <3>2 DEF OpsOf, Mutexes
      <4>2. uxMessagesWaiting[q] = (IF Free(q) THEN 1 ELSE 0) /\ uxLength[q] = 1
        BY <3>2, MutexAssumption DEF AllInv, PriorityInv, HolderInv
      <4>3. call[t].op = "take"
        BY <1>2, <3>2, <4>1, <4>2, MutexAssumption DEF Stuck, Full, Free, CallerAt
      <4>4. QED
        BY <1>1, <1>2, <3>1, <3>2, <4>3 DEF CallerAt, Holds
    <3>3. CASE Stuck(t) /\ q \notin Mutexes
      BY <1>1, <1>2, <3>1, <3>3 DEF CallerAt
    <3>4. CASE ~Stuck(t)
      BY <1>1, <1>2, <1>7, <3>1, <3>4, PlainCaller DEF PlainPlaces, PlainFollowUps
    <3>5. QED
      BY <3>2, <3>3, <3>4
  <2>5. QED
    BY <2>1, <2>2, <2>3, <2>4
<1>9. GoesOn(t)
  <2>1. at[t] # "yield" /\ at[t] # "place" /\ call'[t] = call[t]
    BY <1>1 DEF InCall, InWait
  <2>2. QED
    BY <1>1, <1>8, <2>1, MoveGoesOn
<1>10. WaitersStay /\ WaitersKept
  BY <1>1, SameWaiters DEF AllInv, ControlInv
<1>11. QED
  BY <1>1, <1>3, <1>4, <1>5, <1>9, <1>10, OthersRest, MovePriority

\* The unlocking of the queue: no task that waits for a mutex is woken by it.
LEMMA UnlockPriority ==
  ASSUME AllInv, NEW t \in Task, prvUnlockQueue(t) \/ prvUnlockQueueRx(t)
  PROVE  PriorityInv' /\ SameHolders /\ WaitersKept /\ OnlyOf(t)
<1> DEFINE z == call[t].queue
<1>1. /\ Runs(t) /\ at[t] \in {"unlock", "unlockRx"} /\ at'[t] \in {"unlockRx", "resume"}
      /\ UNCHANGED <<use, pxMutexHolder, uxPriority, uxMutexesHeld, uxMessagesWaiting, call>>
      /\ UNCHANGED <<pxCurrentTCB, then, xTicksToWait>>
  BY DEF prvUnlockQueue, prvUnlockQueueRx, StepUnchanged, Goes, AllInv, ControlInv, PlaceInv
<1>2. call[t] # NoCall /\ z \in Queue /\ CallerAt(t)
  BY <1>1, Caller DEF InCall
<1>3. Wakes
  BY UnlockControl DEF AllInv
<1>4. OnlyOf(t)
  BY <1>1 DEF prvUnlockQueue, prvUnlockQueueRx, OnlyOf, Goes, AllInv, ControlInv, PlaceInv
<1>5. cTxLock \in [Queue -> Int] /\ cRxLock \in [Queue -> Int]
  BY DEF AllInv, ControlInv, ListInv
<1>6. SameHolders
  <2>1. \A q \in Mutexes : q \in Queue /\ cTxLock[q] <= 0
    BY DEF AllInv, PriorityInv, HolderInv, Mutexes
  <2>2. cTxLock' = cTxLock \/ cTxLock' = [cTxLock EXCEPT ![z] = -1]
    BY DEF prvUnlockQueue, prvUnlockQueueRx, queueUNLOCKED
  <2>3. \A q \in Mutexes : cTxLock'[q] <= 0
    BY <1>5, <2>1, <2>2
  <2>4. QED
    BY <1>1, <2>3 DEF SameHolders
<1>7. Receivers(z) \in EventList /\ Senders(z) \in EventList
  BY <1>2, QueueAssumption DEF Receivers, Senders
<1>8. WaitersStay /\ WaitersKept
  <2>1. CASE prvUnlockQueue(t)
    <3>1. event' = [event EXCEPT ![Receivers(z)] = Without(@, Firsts(Receivers(z), cTxLock[z]))]
      BY <2>1 DEF prvUnlockQueue, xTaskRemoveFromEventList
    <3>2. cTxLock[z] \in Int /\ ((\A q \in Mutexes : Receivers(z) # Receivers(q)) \/ cTxLock[z] <= 0)
      BY <1>2, <2>1 DEF Receivers, AllInv, PriorityInv, HolderInv, ControlInv, ListInv
    <3>3. QED
      BY <1>7, <3>1, <3>2, RemoveWaiters DEF AllInv, ControlInv
  <2>2. CASE prvUnlockQueueRx(t)
    <3>1. event' = [event EXCEPT ![Senders(z)] = Without(@, Firsts(Senders(z), cRxLock[z]))]
      BY <2>2 DEF prvUnlockQueueRx, xTaskRemoveFromEventList
    <3>2. cRxLock[z] \in Int /\ \A q \in Mutexes : Senders(z) # Receivers(q)
      BY <1>2 DEF Receivers, Senders, AllInv, ControlInv, ListInv
    <3>3. QED
      BY <1>7, <3>1, <3>2, RemoveWaiters DEF AllInv, ControlInv
  <2>3. QED
    BY <2>1, <2>2
<1>9. CallerAt(t)'
  <2>1. t \notin pxDelayedTaskList' \cup pxOverflowDelayedTaskList' \/ t \in pxDelayedTaskList \cup pxOverflowDelayedTaskList
    BY <1>3 DEF Wakes
  <2>2. at'[t] \notin {"out", "delay", "slept", "inherit", "place", "disinherit", "expired"}
    BY <1>1
  <2>3. QED
    BY <1>1, <1>2, <2>1, <2>2 DEF CallerAt, Holds
<1>10. GoesOn(t)
  BY <1>1, <1>9, MoveGoesOn
<1>11. QED
  BY <1>1, <1>3, <1>4, <1>6, <1>8, <1>10, OthersRest, MovePriority

\* The end of a suspension, and the yield after it.
LEMMA ResumePriority ==
  ASSUME AllInv, NEW t \in Task, UNCHANGED queueVars,
         xTaskResumeAll(t) \/ ResumeEnds(t) \/ portYIELD_WITHIN_API(t)
  PROVE  PriorityInv' /\ SameHolders /\ WaitersKept /\ OnlyOf(t)
<1>1. /\ Runs(t) /\ at[t] \in {"resume", "ticks", "yield"}
      /\ UNCHANGED <<priorities, xTicksToWait, event, pxCurrentTCB>>
  BY DEF xTaskResumeAll, ResumeEnds, portYIELD_WITHIN_API
<1>2. UNCHANGED <<use, pxMutexHolder, uxPriority, uxMutexesHeld, uxMessagesWaiting, call, cTxLock>>
  BY <1>1 DEF queueVars, locks, priorities
<1>3. Wakes
  BY ResumeControl, EndControl DEF AllInv
<1>4. SameHolders
  BY <1>2 DEF SameHolders, AllInv, PriorityInv, HolderInv
<1>5. OnlyOf(t)
  BY <1>1, <1>2 DEF xTaskResumeAll, ResumeEnds, portYIELD_WITHIN_API, OnlyOf, Goes, AllInv, ControlInv,
                    PlaceInv
<1>6. WaitersStay /\ WaitersKept
  BY <1>1, SameWaiters DEF AllInv, ControlInv
<1>7. ASSUME call[t] = NoCall PROVE PriorityInv'
  BY <1>1, <1>2, <1>3, <1>4, <1>5, <1>6, <1>7, IdleGoesOn, OthersRest, MovePriority
<1>8. ASSUME call[t] # NoCall PROVE PriorityInv'
  <2>1. CallerAt(t)
    BY DEF AllInv, PriorityInv
  <2>2. then[t] \in InTurn /\ at \in [Task -> Places] /\ then \in [Task -> {"none", "sleep", "hold"} \cup InTurn]
    BY <1>1, <1>8, <2>1, FollowUpsAre DEF AllInv, ControlInv, PlaceInv, CallerAt, InTurn
  <2>3. /\ WaitsForEver(use) /\ call[t].queue \in Mutexes => then[t] # "expire"
        /\ t \notin pxDelayedTaskList' \cup pxOverflowDelayedTaskList' \/ t \in pxDelayedTaskList \cup pxOverflowDelayedTaskList
    BY <1>3, <1>8, <2>1 DEF CallerAt, Wakes
  <2>4. \/ at'[t] \in {"ticks", "yield"} /\ then'[t] = then[t]
        \/ at'[t] = "enter" /\ then'[t] = "none"
        \/ at'[t] = "expired" /\ then'[t] = "none" /\ then[t] = "expire"
    BY <2>2, ContinuesTo DEF xTaskResumeAll, ResumeEnds, portYIELD_WITHIN_API, Goes, InTurn
  <2>5. CallerAt(t)'
    BY <1>1, <1>2, <1>8, <2>1, <2>3, <2>4 DEF CallerAt, Holds
  <2>6. CASE at[t] # "yield"
    <3>1. GoesOn(t)
      BY <1>1, <1>2, <2>5, <2>6, MoveGoesOn
    <3>2. QED
      BY <1>1, <1>3, <1>4, <1>5, <1>6, <3>1, OthersRest, MovePriority
  <2>7. CASE at[t] = "yield"
    <3>1. then[t] = "block" => at'[t] = "enter"
      BY <2>2, <2>7, ContinuesTo DEF xTaskResumeAll, ResumeEnds, portYIELD_WITHIN_API, Goes
    <3>2. t \in Ready => t \in Ready'
      BY <1>3 DEF Wakes, Ready
    <3>3. GoesOn(t)
      BY <1>2, <2>5, <2>7, <3>1, <3>2 DEF GoesOn, Woken, Wants
    <3>4. QED
      BY <1>1, <1>3, <1>4, <1>5, <1>6, <3>3, OthersRest, MovePriority
  <2>8. QED
    BY <2>6, <2>7
<1>9. QED
  BY <1>4, <1>5, <1>6, <1>7, <1>8

\* Ticks, that wake nobody who waits for a mutex without a limit.
LEMMA TickPriority ==
  ASSUME AllInv, UNCHANGED queueVars,
         SysTick \/ SysTickPended \/ \E t \in Task : ResumeTick(t)
  PROVE  PriorityInv'
<1> DEFINE t == pxCurrentTCB
<1>1. /\ t \in Task
      /\ UNCHANGED <<pxCurrentTCB, priorities, uxSchedulerSuspended, at, then, xTicksToWait>>
      /\ UNCHANGED queueVars
  BY DEF SysTick, SysTickPended, ResumeTick, control, AllInv, CallInv
<1>2. UNCHANGED <<use, pxMutexHolder, uxPriority, uxMutexesHeld, uxMessagesWaiting, call, cTxLock>>
  BY <1>1 DEF queueVars, locks, priorities
<1>3. uxSchedulerSuspended' > 0 \/ ~pendSV' => uxSchedulerSuspended > 0 \/ ~pendSV
  BY DEF SysTick, SysTickPended, ResumeTick
<1>4. SameHolders
  BY <1>2 DEF SameHolders, AllInv, PriorityInv, HolderInv
<1>5. /\ WaitersStay /\ Blocked' \subseteq Blocked
      /\ pxDelayedTaskList' \cup pxOverflowDelayedTaskList' \subseteq pxDelayedTaskList \cup pxOverflowDelayedTaskList
  <2>1. CASE SysTickPended
    <3>1. UNCHANGED <<event, lists>>
      BY <2>1 DEF SysTickPended
    <3>2. QED
      BY <3>1, SameWaiters DEF AllInv, ControlInv, lists, Blocked
  <2>2. CASE SysTick \/ \E u \in Task : ResumeTick(u)
    <3>1. IncrementTick /\ UNCHANGED <<xSuspendedTaskList, xPendingReadyList>>
      BY <2>2 DEF SysTick, ResumeTick
    <3>2. pxDelayedTaskList' \cup pxOverflowDelayedTaskList' \subseteq pxDelayedTaskList \cup pxOverflowDelayedTaskList
      BY <3>1 DEF IncrementTick, CurrentDelayed
    <3>3. QED
      BY <3>1, <3>2, TickWaiters DEF AllInv, ControlInv, Blocked
  <2>3. QED
    BY <2>1, <2>2
<1>6. \A u \in Task : Rests(u)
  BY <1>1, <1>2, <1>5 DEF Rests, Ready
<1>7. GoesOn(t)
  BY <1>1, <1>4, <1>6, RestsGoesOn DEF AllInv, PriorityInv
<1>8. NobodyFirst
  BY <1>1, <1>2, <1>3, SameTaker DEF AllInv
<1>9. QED
  BY <1>1, <1>4, <1>5, <1>6, <1>7, <1>8, SteadyInv DEF Steady, AllInv, ControlInv

\* An interrupt that gives a semaphore.
LEMMA GivePriority ==
  ASSUME AllInv, NEW z \in use.isr, xQueueGiveFromISR(z)
  PROVE  PriorityInv' /\ SameHolders /\ WaitersKept
<1> DEFINE t == pxCurrentTCB
<1>1. /\ t \in Task /\ z \in Queue /\ z \notin Mutexes
      /\ UNCHANGED <<pxCurrentTCB, priorities, uxSchedulerSuspended, control, use, pxMutexHolder, call>>
  BY QueueAssumption DEF xQueueGiveFromISR, AllInv, CallInv, Mutexes
<1>2. SameHolders
  <2>1. \A q \in Mutexes : uxMessagesWaiting'[q] = uxMessagesWaiting[q] /\ cTxLock'[q] = cTxLock[q]
    BY <1>1 DEF xQueueGiveFromISR, Mutexes, AllInv, RingInv, ControlInv, ListInv
  <2>2. QED
    BY <1>1, <2>1 DEF SameHolders, priorities, AllInv, PriorityInv, HolderInv
<1>3. Wakes
  BY GiveControl DEF AllInv
<1>4. WaitersStay /\ WaitersKept
  <2>1. CASE event' = event
    BY <2>1, SameWaiters DEF AllInv, ControlInv
  <2>2. CASE event' # event
    <3>1. event' = [event EXCEPT ![Receivers(z)] = Without(@, Firsts(Receivers(z), 1))]
      BY <2>2 DEF xQueueGiveFromISR, xTaskRemoveFromEventList
    <3>2. Receivers(z) \in EventList /\ 1 \in Int /\ \A q \in Mutexes : Receivers(z) # Receivers(q)
      BY <1>1, QueueAssumption DEF Receivers
    <3>3. QED
      BY <3>1, <3>2, RemoveWaiters DEF AllInv, ControlInv
  <2>3. QED
    BY <2>1, <2>2
<1>5. \A u \in Task : Rests(u)
  BY <1>1, <1>3, StayPut DEF control, AllInv, ControlInv
<1>6. NobodyFirst
  <2>1. uxSchedulerSuspended' > 0 \/ ~pendSV' => uxSchedulerSuspended > 0 \/ ~pendSV
    BY <1>1 DEF xQueueGiveFromISR
  <2>2. QED
    BY <1>1, <2>1, SameTaker DEF AllInv
<1>7. GoesOn(t)
  BY <1>1, <1>2, <1>5, RestsGoesOn DEF AllInv, PriorityInv
<1>8. QED
  BY <1>1, <1>2, <1>4, <1>5, <1>6, <1>7, SteadyInv DEF Steady, AllInv, ControlInv

\* The context switch: who was woken to take a mutex is ready, and so the new task outranks
\* those that wait.
LEMMA SwitchPriority ==
  ASSUME AllInv, UNCHANGED queueVars, vTaskSwitchContext
  PROVE  PriorityInv' /\ SameHolders /\ WaitersKept
<1> DEFINE t == pxCurrentTCB
<1>1. /\ t \in Task
      /\ UNCHANGED <<priorities, uxSchedulerSuspended, control, event, lists>>
      /\ UNCHANGED <<use, pxMutexHolder, call, uxMessagesWaiting, cTxLock>>
  BY DEF vTaskSwitchContext, AllInv, CallInv, queueVars, locks
<1>2. SameHolders
  BY <1>1 DEF SameHolders, priorities, AllInv, PriorityInv, HolderInv
<1>3. Wakes
  BY SwitchControl DEF AllInv
<1>4. WaitersStay /\ WaitersKept
  BY <1>1, SameWaiters DEF AllInv, ControlInv
<1>5. \A u \in Task : Rests(u)
  BY <1>1, <1>3, StayPut DEF control, AllInv, ControlInv
<1>6. NobodyFirst
  <2>1. CASE uxSchedulerSuspended > 0
    BY <1>1, <2>1, SameTaker DEF AllInv, vTaskSwitchContext
  <2>2. CASE ~(uxSchedulerSuspended > 0)
    <3>1. /\ pxCurrentTCB' \in Task
          /\ \A w \in Ready : uxPriority[w] <= uxPriority[pxCurrentTCB']
      BY <2>2 DEF vTaskSwitchContext, Ready
    <3>2. SUFFICES ASSUME NEW q \in Mutexes, Free(q), NEW u \in Range(Waiters(q))
                   PROVE  uxBasePriority[u] <= uxPriority[pxCurrentTCB']
      BY DEF NobodyFirst
    <3>3. PICK w \in Task : Woken(w, q) /\ uxBasePriority[u] <= uxBasePriority[w]
      BY <3>2 DEF AllInv, PriorityInv, WaitersAt
    <3>4. w \in Ready /\ u \in Task
      BY <3>2, <3>3, WaitersAre DEF Woken, AllInv, ControlInv
    <3>5. uxBasePriority[w] <= uxPriority[w] /\ uxPriority \in [Task -> Nat]
      BY DEF AllInv, PriorityInv, HolderInv
    <3>6. uxPriority[w] <= uxPriority[pxCurrentTCB']
      BY <3>1, <3>4
    <3>7. QED
      BY <3>1, <3>3, <3>4, <3>5, <3>6, TaskAssumption
  <2>3. QED
    BY <2>1, <2>2
<1>7. GoesOn(t)
  BY <1>1, <1>2, <1>5, RestsGoesOn DEF AllInv, PriorityInv
<1>8. QED
  BY <1>1, <1>2, <1>4, <1>5, <1>6, <1>7, SteadyInv DEF Steady, AllInv, ControlInv

-------------------------------------------------------------------------------
(***************************************************************************)
(* The steps that take, give, wait for and inherit.                        *)
(***************************************************************************)

\* Only the task that runs is about to wait.
LEMMA OneAtPlace ==
  ASSUME AllInv, NEW t \in Task, Runs(t), NEW u \in Task, u # t
  PROVE  at[u] \notin InSuspension \cup {"ticks"}
BY DEF AllInv, ControlInv, RunInv, Runs

\* A task that enters the list of a queue or semaphore, or of a mutex, whose holder has its
\* priority.
LEMMA PlacePriority ==
  ASSUME AllInv, NEW t \in Task, Place(t)
  PROVE  PriorityInv'
<1>0. PICK z : z = call[t].queue
  OBVIOUS
<1> DEFINE l == IF call[t].op = "send" THEN Senders(z) ELSE Receivers(z)
<1>1. /\ Runs(t) /\ at[t] = "place" /\ vTaskPlaceOnEventList(l, xTicksToWait[t])
      /\ UNCHANGED <<pxCurrentTCB, use, pxMutexHolder, uxPriority, uxMutexesHeld, uxMessagesWaiting, call>>
      /\ UNCHANGED <<cTxLock, xTicksToWait>>
  BY <1>0 DEF Place, StepUnchanged, locks
<1>2. /\ call[t] # NoCall /\ call[t].op # "none" /\ call[t] \in use.calls[t]
      /\ z \in Queue /\ call[t].op \in OpsOf(z) /\ CallerAt(t)
  BY <1>0, <1>1, Caller DEF InCall, InWait
<1>3. at'[t] = "unlock" /\ then'[t] = "block" /\ OnlyOf(t)
  BY <1>1 DEF Place, Goes, OnlyOf, AllInv, ControlInv, PlaceInv
<1>4. SameHolders
  BY <1>1 DEF SameHolders, AllInv, PriorityInv, HolderInv
<1>5. Blocked' = Blocked \cup {t}
  BY <1>1, AddBlocks DEF vTaskPlaceOnEventList, Runs
<1>6. /\ event' = [event EXCEPT ![l] = InOrder(@, t)]
      /\ pxDelayedTaskList' \subseteq pxDelayedTaskList \cup {t}
      /\ pxOverflowDelayedTaskList' \subseteq pxOverflowDelayedTaskList \cup {t}
  BY <1>1 DEF vTaskPlaceOnEventList, prvAddCurrentTaskToDelayedList, Runs
<1>7. \A u \in Task : u # t => Rests(u)
  BY <1>3, <1>5, <1>6 DEF OnlyOf, Rests, Ready
<1>8. event \in [EventList -> Seq(Task)] /\ l \in EventList
  BY <1>2, QueueAssumption DEF AllInv, ControlInv, ListInv, Receivers, Senders
<1>9. CASE z \notin Mutexes
  <2>1. CallerAt(t)'
    BY <1>0, <1>1, <1>2, <1>3, <1>9 DEF CallerAt
  <2>2. GoesOn(t)
    BY <1>0, <1>1, <1>9, <2>1, MoveGoesOn
  <2>3. \A q \in Mutexes : l # Receivers(q)
    BY <1>9 DEF Receivers, Senders
  <2>4. WaitersStay
    <3> SUFFICES ASSUME NEW q \in Mutexes
                 PROVE  /\ Thinned(Waiters(q)', Waiters(q))
                        /\ Range(Waiters(q)) \subseteq Range(Waiters(q)')
      BY DEF WaitersStay
    <3>1. Receivers(q) \in EventList /\ Waiters(q) \in Seq(Task)
      BY WaitersAre DEF AllInv, ControlInv
    <3>2. Waiters(q)' = Waiters(q)
      BY <1>6, <1>8, <2>3, <3>1 DEF Waiters
    <3>3. QED
      BY <3>1, <3>2, ThinnedSelf
  <2>5. QED
    BY <1>1, <1>4, <1>7, <2>2, <2>4, MovePriority
<1>10. CASE z \in Mutexes
  <2>1. call[t].op = "take" /\ ~Free(z) /\ uxPriority[t] <= uxPriority[pxMutexHolder[z]] /\ Wants(t, z)
    BY <1>0, <1>1, <1>2, <1>10 DEF CallerAt, Wants
  <2>2. WaitsForEver(use) => xTicksToWait[t] = portMAX_DELAY
    <3>1. xTicksToWait[t] > 0
      BY <1>1 DEF AllInv, TimeInv, WaitAt, InWait
    <3>2. QED
      BY <1>0, <1>2, <1>10, <3>1 DEF CallerAt
  <2>3. WaitsForEver(use) => t \notin pxDelayedTaskList' \cup pxOverflowDelayedTaskList'
    <3>1. WaitsForEver(use) => t \notin pxDelayedTaskList \cup pxOverflowDelayedTaskList
      BY <1>0, <1>2, <1>10 DEF CallerAt
    <3>2. QED
      BY <1>1, <2>2, <3>1 DEF vTaskPlaceOnEventList, prvAddCurrentTaskToDelayedList
  <2>4. CallerAt(t)'
    BY <1>1, <1>2, <1>3, <2>3, PlainCaller DEF PlainPlaces, PlainFollowUps
  <2>5. \A u \in Task : CallerAt(u)'
    BY <1>4, <1>7, <2>4, RestsCaller DEF AllInv, PriorityInv
  <2>6. HolderInv'
    BY <1>4 DEF AllInv, PriorityInv, HolderInv, SameHolders, Free, Holds
  <2>7. /\ Waiters(z)' = InOrder(Waiters(z), t)
        /\ \A q \in Mutexes : q # z => Waiters(q)' = Waiters(q)
        /\ \A q \in Mutexes : Waiters(q) \in Seq(Task) /\ Range(Waiters(q)) \subseteq Task
    <3>1. \A q \in Mutexes : Receivers(q) \in EventList /\ (q # z => l # Receivers(q))
      BY <2>1, WaitersAre DEF AllInv, ControlInv, Receivers
    <3>2. l = Receivers(z)
      BY <2>1
    <3>3. QED
      BY <1>6, <1>8, <3>1, <3>2, WaitersAre DEF Waiters, AllInv, ControlInv
  <2>8. \A q \in Mutexes : WaitersAt(q) /\ InheritedAt(q)
    BY DEF AllInv, PriorityInv
  <2>9. Sorted(Waiters(z)') /\ Range(Waiters(z)') = Range(Waiters(z)) \cup {t}
    <3>1. \A u \in Range(Waiters(z)) \cup {t} : u \in Task /\ Wants(u, z)
      BY <1>10, <2>1, <2>7, <2>8 DEF WaitersAt
    <3>2. \A u \in Range(Waiters(z)) \cup {t} : uxPriority[u] = uxBasePriority[u]
      BY <1>10, <3>1, TakersPriority DEF AllInv
    <3>3. Sorted(Waiters(z)) /\ Waiters(z) \in Seq(Task)
      BY <1>10, <2>7, <2>8 DEF WaitersAt
    <3>4. QED
      BY <2>7, <3>2, <3>3, InOrderSorted
  <2>10. \A q : \A u \in Task : Wants(u, q)' <=> Wants(u, q)
    BY <1>1 DEF Wants
  <2>11. ASSUME NEW q \in Mutexes, q # z PROVE WaitersAt(q)'
    <3>1. Waiters(q)' = Waiters(q) /\ WaitersAt(q) /\ Range(Waiters(q)) \subseteq Task
      BY <2>7, <2>8, <2>11
    <3>2. ASSUME NEW w \in Task, Woken(w, q) PROVE Woken(w, q)'
      <4>1. w # t
        BY <1>1, <3>2 DEF Woken
      <4>2. QED
        BY <1>7, <2>10, <3>2, <4>1 DEF Rests, Woken
    <3>3. MayTake(q)' => MayTake(q)
      BY <1>1 DEF MayTake, Runs
    <3>4. \A u \in Range(Waiters(q)) : Wants(u, q)'
      BY <2>10, <3>1 DEF WaitersAt
    <3>5. (Free(q)' <=> Free(q)) /\ uxPriority' = uxPriority /\ pxMutexHolder' = pxMutexHolder /\ pxCurrentTCB' = pxCurrentTCB
      BY <1>1 DEF Free
    <3>6. QED
      BY <3>1, <3>2, <3>3, <3>4, <3>5 DEF WaitersAt
  <2>12. WaitersAt(z)'
    <3>1. ~Free(z)'
      BY <1>1, <2>1 DEF Free
    <3>2. ASSUME NEW u \in Range(Waiters(z)')
          PROVE  Wants(u, z)' /\ uxBasePriority[u] <= uxPriority'[pxMutexHolder'[z]]
      <4>1. CASE u \in Range(Waiters(z))
        BY <1>1, <1>10, <2>1, <2>7, <2>8, <2>10, <4>1 DEF WaitersAt
      <4>2. CASE u = t
        <5>1. uxBasePriority[t] = uxPriority[t]
          BY <1>10, <2>1, TakersPriority DEF AllInv
        <5>2. QED
          BY <1>1, <2>1, <2>10, <4>2, <5>1
      <4>3. QED
        BY <2>9, <4>1, <4>2
    <3>3. QED
      BY <2>9, <3>1, <3>2 DEF WaitersAt
  <2>13. ASSUME NEW q \in Mutexes PROVE InheritedAt(q)'
    <3> SUFFICES ASSUME WaitsForEver(use), ~Free(q), uxPriority[pxMutexHolder[q]] # uxBasePriority[pxMutexHolder[q]]
                 PROVE  \E u \in Task : /\ Wants(u, q)'
                                        /\ uxBasePriority[u] = uxPriority[pxMutexHolder[q]]
                                        /\ u \in Range(Waiters(q)')
      BY <1>1 DEF InheritedAt, Free
    <3>1. PICK u \in Task : /\ Wants(u, q) /\ uxBasePriority[u] = uxPriority[pxMutexHolder[q]]
                            /\ u \in Range(Waiters(q)) \/ at[u] = "place"
      BY <2>8 DEF InheritedAt
    <3>2. at[u] = "place" => u = t
      BY <1>1, OneAtPlace DEF InSuspension
    <3>3. u = t => q = z
      BY <1>0, <3>1 DEF Wants
    <3>4. u \in Range(Waiters(q)')
      BY <2>7, <2>9, <3>1, <3>2, <3>3
    <3>5. QED
      BY <2>10, <3>1, <3>4
  <2>14. \A q \in Mutexes : WaitersAt(q)' /\ InheritedAt(q)'
    BY <2>11, <2>12, <2>13
  <2>15. QED
    BY <2>5, <2>6, <2>14 DEF PriorityInv
<1>11. QED
  BY <1>9, <1>10

\* A task that is about to wait gives its priority to the holder.
LEMMA InheritPriority ==
  ASSUME AllInv, NEW t \in Task, xTaskPriorityInherit(t)
  PROVE  PriorityInv'
<1>0. PICK z : z = call[t].queue
  OBVIOUS
<1>1. PICK h : h = pxMutexHolder[z]
  OBVIOUS
<1>2. /\ Runs(t) /\ at[t] = "inherit"
      /\ uxPriority' = IF uxPriority[h] < uxPriority[t] THEN [uxPriority EXCEPT ![h] = uxPriority[t]]
                       ELSE uxPriority
      /\ UNCHANGED <<pxCurrentTCB, use, pxMutexHolder, uxMutexesHeld, uxMessagesWaiting, call, cTxLock>>
      /\ UNCHANGED <<lists, event, then, xTicksToWait, pendSV, uxSchedulerSuspended>>
      /\ at' = [at EXCEPT ![t] = "place"]
  BY <1>0, <1>1 DEF xTaskPriorityInherit, StepUnchanged, locks, Goes
<1>3. /\ call[t] # NoCall /\ call[t].op # "none" /\ call[t] \in use.calls[t] /\ CallerAt(t)
      /\ z \in Mutexes /\ z \in Queue /\ call[t].op = "take" /\ ~Free(z) /\ Wants(t, z)
  <2>1. /\ call[t] # NoCall /\ call[t].op # "none" /\ call[t] \in use.calls[t] /\ CallerAt(t)
        /\ z \in Queue
    BY <1>0, <1>2, Caller DEF InCall, InWait
  <2>2. QED
    BY <1>0, <1>2, <2>1 DEF CallerAt, Wants
<1>4. HolderInv
  BY DEF AllInv, PriorityInv
<1>5. h \in Task /\ h # t /\ uxPriority[t] = uxBasePriority[t] /\ Holds(h)
  <2>1. ~Holds(t) /\ uxPriority[t] = uxBasePriority[t]
    BY <1>3, TakersPriority DEF AllInv
  <2>2. h \in Task
    BY <1>1, <1>3, <1>4 DEF HolderInv, Free
  <2>3. QED
    BY <1>1, <1>3, <2>1, <2>2 DEF Holds
<1>6. /\ uxPriority' \in [Task -> Nat] /\ uxPriority \in [Task -> Nat]
      /\ \A u \in Task : u # h => uxPriority'[u] = uxPriority[u]
      /\ \A u \in Task : uxPriority[u] <= uxPriority'[u]
      /\ uxPriority[t] <= uxPriority'[h]
      /\ uxPriority'[h] # uxPriority[h] => uxPriority'[h] = uxPriority[t]
  <2>1. uxPriority \in [Task -> Nat]
    BY <1>4 DEF HolderInv
  <2>2. CASE uxPriority[h] < uxPriority[t]
    BY <1>2, <1>5, <2>1, <2>2
  <2>3. CASE ~(uxPriority[h] < uxPriority[t])
    BY <1>2, <1>5, <2>1, <2>3
  <2>4. QED
    BY <2>2, <2>3
<1>7. \A u \in Task : Holds(u)' <=> Holds(u)
  BY <1>2 DEF Holds
<1>8. \A q : Free(q)' <=> Free(q)
  BY <1>2 DEF Free
<1>9. HolderInv'
  <2>1. ASSUME NEW u \in Task
        PROVE  uxBasePriority[u] <= uxPriority'[u] /\ (~Holds(u) => uxPriority'[u] = uxBasePriority[u])
    BY <1>4, <1>5, <1>6, TaskAssumption DEF HolderInv
  <2>2. QED
    BY <1>2, <1>4, <1>6, <1>7, <1>8, <2>1 DEF HolderInv
<1>10. ASSUME NEW u \in Task PROVE CallerAt(u)'
  <2>1. CASE u = t
    <3>1. at'[t] = "place" /\ then'[t] = then[t]
      BY <1>2 DEF AllInv, ControlInv, PlaceInv
    <3>2. uxPriority'[t] <= uxPriority'[h]
      BY <1>5, <1>6
    <3>3. QED
      BY <1>0, <1>1, <1>2, <1>3, <1>7, <1>8, <2>1, <3>1, <3>2 DEF CallerAt, lists
  <2>2. CASE u # t
    <3>1. at'[u] = at[u] /\ at[u] # "place"
      BY <1>2, <2>2, OneAtPlace DEF AllInv, ControlInv, PlaceInv, InSuspension
    <3>2. CallerAt(u)
      BY DEF AllInv, PriorityInv
    <3>3. QED
      BY <1>2, <1>7, <1>8, <3>1, <3>2 DEF CallerAt, lists
  <2>3. QED
    BY <2>1, <2>2
<1>11. \A q \in Mutexes : WaitersAt(q) /\ InheritedAt(q) /\ Range(Waiters(q)) \subseteq Task
  BY WaitersAre DEF AllInv, PriorityInv, ControlInv
<1>12. \A q : Waiters(q)' = Waiters(q) /\ \A u : Wants(u, q)' <=> Wants(u, q)
  BY <1>2 DEF Waiters, Wants
<1>13. ASSUME NEW q \in Mutexes PROVE WaitersAt(q)'
  <2>1. ASSUME NEW u \in Range(Waiters(q))
        PROVE  /\ Wants(u, q)'
               /\ ~Free(q) => uxBasePriority[u] <= uxPriority'[pxMutexHolder[q]]
               /\ Free(q) /\ MayTake(q)' => uxBasePriority[u] <= uxPriority'[pxCurrentTCB]
    <3>1. u \in Task /\ uxBasePriority[u] \in Nat /\ pxCurrentTCB \in Task
      BY <1>11, TaskAssumption DEF AllInv, CallInv
    <3>2. ~Free(q) => pxMutexHolder[q] \in Task
      BY <1>4 DEF HolderInv, Free, Mutexes
    <3>3. MayTake(q)' => MayTake(q)
      BY <1>2 DEF MayTake
    <3>4. /\ Wants(u, q)
          /\ ~Free(q) => uxBasePriority[u] <= uxPriority[pxMutexHolder[q]]
          /\ Free(q) /\ MayTake(q) => uxBasePriority[u] <= uxPriority[pxCurrentTCB]
      BY <1>11 DEF WaitersAt
    <3>5. \A v \in Task : uxBasePriority[u] <= uxPriority[v] => uxBasePriority[u] <= uxPriority'[v]
      BY <1>6, <3>1
    <3>6. QED
      BY <1>12, <3>1, <3>2, <3>3, <3>4, <3>5
  <2>2. ASSUME NEW w \in Task, Woken(w, q) PROVE Woken(w, q)'
    <3>1. w # t
      BY <1>2, <2>2 DEF Woken
    <3>2. QED
      BY <1>2, <1>12, <2>2, <3>1 DEF Woken, Ready, Blocked, lists, AllInv, ControlInv, PlaceInv
  <2>3. Sorted(Waiters(q)) /\ (Free(q) /\ Range(Waiters(q)) # {} =>
            \E w \in Task : Woken(w, q)' /\ \A u \in Range(Waiters(q)) :
                                               uxBasePriority[u] <= uxBasePriority[w])
    BY <1>11, <2>2 DEF WaitersAt
  <2>4. Waiters(q)' = Waiters(q) /\ (Free(q)' <=> Free(q)) /\ pxMutexHolder' = pxMutexHolder /\ pxCurrentTCB' = pxCurrentTCB
    BY <1>2, <1>8, <1>12
  <2>5. QED
    BY <2>1, <2>3, <2>4 DEF WaitersAt
<1>14. ASSUME NEW q \in Mutexes PROVE InheritedAt(q)'
  <2> SUFFICES ASSUME WaitsForEver(use), ~Free(q), uxPriority'[pxMutexHolder[q]] # uxBasePriority[pxMutexHolder[q]]
               PROVE  \E u \in Task : /\ Wants(u, q)'
                                      /\ uxBasePriority[u] = uxPriority'[pxMutexHolder[q]]
                                      /\ u \in Range(Waiters(q)') \/ at'[u] = "place"
    BY <1>2, <1>8 DEF InheritedAt
  <2>1. CASE q = z /\ uxPriority'[h] # uxPriority[h]
    <3>1. Wants(t, q)' /\ uxBasePriority[t] = uxPriority'[pxMutexHolder[q]]
      BY <1>1, <1>3, <1>5, <1>6, <1>12, <2>1
    <3>2. at'[t] = "place"
      BY <1>2 DEF AllInv, ControlInv, PlaceInv
    <3>3. QED
      BY <3>1, <3>2
  <2>2. CASE ~(q = z /\ uxPriority'[h] # uxPriority[h])
    <3>1. pxMutexHolder[q] \in Task /\ (q # z => pxMutexHolder[q] # h)
      BY <1>1, <1>3, <1>4 DEF HolderInv, Free, Mutexes
    <3>2. uxPriority'[pxMutexHolder[q]] = uxPriority[pxMutexHolder[q]]
      BY <1>1, <1>6, <2>2, <3>1
    <3>3. PICK u \in Task : /\ Wants(u, q) /\ uxBasePriority[u] = uxPriority[pxMutexHolder[q]]
                            /\ u \in Range(Waiters(q)) \/ at[u] = "place"
      BY <1>11, <3>2 DEF InheritedAt
    <3>4. at[u] # "place"
      BY <1>2, OneAtPlace DEF InSuspension
    <3>5. QED
      BY <1>12, <3>2, <3>3, <3>4
  <2>3. QED
    BY <2>1, <2>2
<1>15. QED
  BY <1>9, <1>10, <1>13, <1>14 DEF PriorityInv

\* A free mutex is taken, by a task that nobody outranks who waits for it.
LEMMA TakePriority ==
  ASSUME AllInv, NEW t \in Task, TakeProceeds(t), call[t].queue \in Mutexes
  PROVE  PriorityInv'
<1>0. PICK z \in Mutexes : z = call[t].queue
  OBVIOUS
<1>1. /\ Runs(t) /\ at[t] = "enter" /\ ~Stuck(t) /\ Returns(t) /\ call[t].op = "take" /\ Wants(t, z)
      /\ uxMessagesWaiting' = [uxMessagesWaiting EXCEPT ![z] = @ - 1]
      /\ pxMutexHolder' = [pxMutexHolder EXCEPT ![z] = t]
      /\ uxMutexesHeld' = [uxMutexesHeld EXCEPT ![t] = @ + 1]
      /\ event' = [event EXCEPT ![Senders(z)] = Without(@, Firsts(Senders(z), 1))]
      /\ UNCHANGED <<pxCurrentTCB, use, uxPriority, cTxLock, uxSchedulerSuspended>>
  BY <1>0 DEF TakeProceeds, Proceeds, Returns, xTaskRemoveFromEventList, Mutexes, Wants, locks
<1>2. HolderInv /\ z \in Queue /\ CallerAt(t)
  BY DEF AllInv, PriorityInv, Mutexes
<1>3. ~Holds(t) /\ uxPriority[t] = uxBasePriority[t] /\ call[t] \in use.calls[t] /\ t # NoHolder
  BY <1>1, TakersPriority, MutexAssumption DEF AllInv, CallerAt
<1>4. Free(z)
  BY <1>0, <1>1, <1>2 DEF HolderInv, Stuck, Empty
<1>5. /\ \A u \in Task : u # t => (Holds(u)' <=> Holds(u))
      /\ Holds(t)' /\ ~Free(z)' /\ pxMutexHolder'[z] = t
      /\ \A q \in Queue : q # z => pxMutexHolder'[q] = pxMutexHolder[q] /\ pxMutexHolder[q] # t
                                   /\ (Free(q)' <=> Free(q))
  <2>1. pxMutexHolder'[z] = t /\ \A q \in Queue : q # z => pxMutexHolder'[q] = pxMutexHolder[q]
    BY <1>1, <1>2 DEF HolderInv
  <2>2. \A u \in Task : u # t => (Holds(u)' <=> Holds(u))
    BY <1>2, <1>4, <2>1, MutexAssumption DEF Holds, Free
  <2>3. Holds(t)' /\ ~Free(z)'
    BY <1>2, <1>3, <2>1 DEF Holds, Free
  <2>4. \A q \in Queue : q # z => pxMutexHolder[q] # t /\ (Free(q)' <=> Free(q))
    BY <1>3, <2>1 DEF Holds, Free
  <2>5. QED
    BY <2>1, <2>2, <2>3, <2>4
<1>6. HolderInv'
  <2>1. pxMutexHolder' \in [Queue -> Task \cup {NoHolder}] /\ uxPriority' \in [Task -> Nat] /\ uxMutexesHeld' \in [Task -> Nat]
    BY <1>1, <1>2 DEF HolderInv
  <2>2. \A q \in Mutexes : uxMessagesWaiting'[q] = (IF Free(q)' THEN 1 ELSE 0) /\ cTxLock'[q] <= 0
    BY <1>1, <1>2, <1>4, <1>5 DEF HolderInv, AllInv, RingInv, Mutexes
  <2>3. \A u \in Task : uxMutexesHeld'[u] = (IF Holds(u)' THEN 1 ELSE 0)
    BY <1>1, <1>2, <1>3, <1>5 DEF HolderInv
  <2>4. \A q \in Queue : ~Free(q)' => q \in Mutexes
    BY <1>2, <1>5 DEF HolderInv
  <2>5. \A q, r \in Queue : pxMutexHolder'[q] = pxMutexHolder'[r] /\ ~Free(q)' => q = r
    BY <1>2, <1>5 DEF HolderInv
  <2>6. \A u \in Task : uxBasePriority[u] <= uxPriority'[u] /\ (~Holds(u)' => uxPriority'[u] = uxBasePriority[u])
    BY <1>1, <1>2, <1>5 DEF HolderInv
  <2>7. QED
    BY <2>1, <2>2, <2>3, <2>4, <2>5, <2>6 DEF HolderInv
<1>7. Wakes
  BY ProceedsControl DEF AllInv
<1>8. OnlyOf(t) /\ call'[t] = NoCall
  BY <1>1 DEF Returns, Goes, OnlyOf, AllInv, CallInv, ControlInv, PlaceInv, TimeInv, ClockInv
<1>9. \A u \in Task : u # t => Rests(u)
  BY <1>7, <1>8, OthersRest
<1>10. ASSUME NEW u \in Task PROVE CallerAt(u)'
  <2>1. CASE u = t
    BY <1>8, <2>1 DEF CallerAt
  <2>2. CASE u # t
    <3>1. CallerAt(u) /\ Rests(u) /\ u # NoHolder
      BY <1>9, <2>2, MutexAssumption DEF AllInv, PriorityInv
    <3>2. at[u] \notin {"place", "inherit"}
      BY <1>1, <2>2, OneAtPlace DEF InSuspension
    <3>3. call[u] # NoCall /\ call[u].queue \in Mutexes /\ call[u].op = "give" => pxMutexHolder'[call[u].queue] = u
      BY <1>4, <1>5, <3>1 DEF CallerAt, Free, Mutexes
    <3>4. QED
      BY <1>1, <1>5, <2>2, <3>1, <3>2, <3>3 DEF CallerAt, Rests
  <2>3. QED
    BY <2>1, <2>2
<1>11. \A q \in Mutexes : /\ WaitersAt(q) /\ InheritedAt(q) /\ Range(Waiters(q)) \subseteq Task
                          /\ Waiters(q)' = Waiters(q) /\ t \notin Range(Waiters(q))
  <2>1. t \notin OnEvent
    BY <1>1, AwakeRuns DEF AllInv, Leaving
  <2>2. ASSUME NEW q \in Mutexes
        PROVE  /\ Receivers(q) \in EventList /\ Range(Waiters(q)) \subseteq Task
               /\ Waiters(q)' = Waiters(q) /\ t \notin Range(Waiters(q))
    <3>1. Receivers(q) \in EventList /\ Range(Waiters(q)) \subseteq Task /\ event \in [EventList -> Seq(Task)]
      BY WaitersAre DEF AllInv, ControlInv, ListInv
    <3>2. Receivers(q) # Senders(z)
      BY DEF Receivers, Senders
    <3>3. QED
      BY <1>1, <2>1, <3>1, <3>2, OnEventIs DEF Waiters
  <2>3. QED
    BY <2>2 DEF AllInv, PriorityInv
<1>12. ASSUME NEW q \in Mutexes, NEW u \in Range(Waiters(q)) PROVE Wants(u, q)'
  BY <1>9, <1>11 DEF WaitersAt, Wants, Rests
<1>13. WaitersAt(z)'
  <2>1. MayTake(z)
    BY <1>0, <1>1, <1>3 DEF MayTake, Runs
  <2>2. \A u \in Range(Waiters(z)) : uxBasePriority[u] <= uxPriority[t]
    BY <1>1, <1>4, <1>11, <2>1 DEF WaitersAt, Runs
  <2>3. Sorted(Waiters(z)) /\ Waiters(z)' = Waiters(z)
    BY <1>11 DEF WaitersAt
  <2>4. QED
    BY <1>1, <1>5, <1>12, <2>2, <2>3 DEF WaitersAt
<1>14. ASSUME NEW q \in Mutexes, q # z PROVE WaitersAt(q)'
  <2>1. /\ pxMutexHolder'[q] = pxMutexHolder[q] /\ (Free(q)' <=> Free(q))
        /\ Waiters(q)' = Waiters(q) /\ Sorted(Waiters(q)) /\ uxPriority' = uxPriority /\ pxCurrentTCB' = pxCurrentTCB
    BY <1>1, <1>5, <1>11, <1>14 DEF Mutexes, WaitersAt
  <2>2. MayTake(q)' => MayTake(q)
    BY <1>1 DEF MayTake, Runs
  <2>3. ASSUME NEW w \in Task, Woken(w, q) PROVE Woken(w, q)'
    <3>1. w # t
      BY <1>1, <1>14, <2>3 DEF Woken, Wants
    <3>2. QED
      BY <1>9, <2>3, <3>1 DEF Woken, Rests, Wants
  <2>4. WaitersAt(q)
    BY <1>11
  <2>5. Free(q)' /\ Range(Waiters(q)) # {} =>
            \E w \in Task : Woken(w, q)' /\ \A u \in Range(Waiters(q)) :
                                               uxBasePriority[u] <= uxBasePriority[w]
    BY <2>1, <2>3, <2>4 DEF WaitersAt
  <2>6. \A u \in Range(Waiters(q)) :
            /\ Wants(u, q)'
            /\ ~Free(q)' => uxBasePriority[u] <= uxPriority[pxMutexHolder[q]]
            /\ Free(q)' /\ MayTake(q)' => uxBasePriority[u] <= uxPriority[pxCurrentTCB]
    BY <1>12, <2>1, <2>2, <2>4 DEF WaitersAt
  <2>7. QED
    BY <2>1, <2>5, <2>6 DEF WaitersAt
<1>15. ASSUME NEW q \in Mutexes PROVE InheritedAt(q)'
  <2>1. CASE q = z
    BY <1>1, <1>3, <1>5, <2>1 DEF InheritedAt
  <2>2. CASE q # z
    <3>1. pxMutexHolder'[q] = pxMutexHolder[q] /\ (Free(q)' <=> Free(q)) /\ InheritedAt(q) /\ Waiters(q)' = Waiters(q)
      BY <1>5, <1>11, <2>2 DEF Mutexes
    <3>2. ASSUME NEW u \in Task, Wants(u, q), u \in Range(Waiters(q)) \/ at[u] = "place"
          PROVE  Wants(u, q)' /\ (u \in Range(Waiters(q)) \/ at'[u] = "place")
      <4>1. u # t
        BY <1>1, <2>2, <3>2 DEF Wants
      <4>2. QED
        BY <1>9, <3>2, <4>1 DEF Rests, Wants
    <3>3. QED
      BY <1>1, <3>1, <3>2 DEF InheritedAt
  <2>3. QED
    BY <2>1, <2>2
<1>16. \A q \in Mutexes : WaitersAt(q)' /\ InheritedAt(q)'
  BY <1>13, <1>14, <1>15
<1>17. QED
  BY <1>6, <1>10, <1>16 DEF PriorityInv

\* Who has been woken to take a mutex is at the beginning of the loop, or yields before it.
LEMMA WokenWaiter ==
  ASSUME AllInv, NEW t \in Task, Runs(t), at[t] \notin Leaving, NEW q \in Mutexes,
         NEW w \in Range(Waiters(q))
  PROVE  /\ w \in Task /\ w # t /\ Wants(w, q)
         /\ at[w] = "enter" \/ (at[w] = "yield" /\ then[w] = "block")
<1>1. w \in Task /\ w \in OnEvent /\ Wants(w, q)
  BY WaitersAre, OnEventIs DEF AllInv, ControlInv, PriorityInv, WaitersAt, Waiters
<1>2. t \notin OnEvent
  BY AwakeRuns DEF AllInv
<1>3. at[w] \notin InSuspension \cup {"ticks"}
  BY <1>1, <1>2, OneAtPlace
<1>4. at[w] \in Places /\ then[w] \in FollowUps(at[w]) /\ (at[w] = "enter" \/ then[w] = "block")
  BY <1>1 DEF AllInv, ControlInv, PlaceInv
<1>5. at[w] = "enter" \/ at[w] = "yield"
  <2>1. CASE at[w] \in Leaving
    BY <1>3, <2>1 DEF Leaving, InSuspension
  <2>2. CASE at[w] \notin Leaving
    <3>1. at[w] \in {"out", "slept"} \cup InCall \cup InSuspension
      BY <1>4, <2>2 DEF Places
    <3>2. at[w] \in InWait \cup {"out", "enter", "slept", "expired", "disinherit"}
      BY <1>3, <2>2, <3>1 DEF InCall, Leaving
    <3>3. then[w] = "none"
      BY <1>4, <3>2, FollowUpsAre
    <3>4. QED
      BY <1>4, <3>3
  <2>3. QED
    BY <2>1, <2>2
<1>6. QED
  BY <1>1, <1>2, <1>4, <1>5

\* The wait for a mutex has timed out: its holder keeps the highest priority of those that still
\* wait.  No wait without a limit gets here.
LEMMA DisinheritPriority ==
  ASSUME AllInv, NEW t \in Task, DisinheritAfterTimeout(t), ~Free(call[t].queue)
  PROVE  PriorityInv'
<1>0. PICK z : z = call[t].queue
  OBVIOUS
<1>1. PICK h : h = pxMutexHolder[z]
  OBVIOUS
<1>2. PICK p : p = IF uxBasePriority[h] < WaitingPriority(z) THEN WaitingPriority(z) ELSE uxBasePriority[h]
  OBVIOUS
<1>3. /\ Runs(t) /\ at[t] = "disinherit" /\ Returns(t)
      /\ uxPriority' = IF h # NoHolder /\ uxMutexesHeld[h] = 1 THEN [uxPriority EXCEPT ![h] = p]
                       ELSE uxPriority
      /\ UNCHANGED <<pxCurrentTCB, use, pxMutexHolder, uxMutexesHeld, uxMessagesWaiting, cTxLock>>
      /\ UNCHANGED <<lists, event, pendSV, uxSchedulerSuspended>>
  BY <1>0, <1>1, <1>2 DEF DisinheritAfterTimeout, Returns, locks
<1>4. HolderInv /\ CallerAt(t) /\ call[t] # NoCall /\ z \in Queue
  BY <1>0, <1>3, Caller DEF AllInv, PriorityInv, InCall
<1>5. z \in Mutexes
  BY <1>0, <1>4 DEF HolderInv
<1>6. Wants(t, z) /\ ~WaitsForEver(use)
  BY <1>0, <1>3, <1>4, <1>5 DEF CallerAt, Wants
<1>7. h \in Task /\ h # t /\ Holds(h) /\ uxMutexesHeld[h] = 1 /\ h # NoHolder
  <2>1. ~Holds(t)
    BY <1>5, <1>6, TakersPriority DEF AllInv
  <2>2. h \in Task /\ h # NoHolder
    BY <1>0, <1>1, <1>4, MutexAssumption DEF HolderInv, Free
  <2>3. QED
    BY <1>1, <1>4, <2>1, <2>2 DEF HolderInv, Holds
<1>8. \A q \in Mutexes : /\ WaitersAt(q) /\ Range(Waiters(q)) \subseteq Task /\ Waiters(q) \in Seq(Task)
                         /\ t \notin Range(Waiters(q))
  <2>1. \A q \in Mutexes : t \notin Range(Waiters(q))
    BY <1>3, WokenWaiter DEF Leaving
  <2>2. QED
    BY <2>1, WaitersAre DEF AllInv, PriorityInv, ControlInv
<1>9. p \in Nat /\ uxBasePriority[h] <= p /\ \A u \in Range(Waiters(z)) : uxBasePriority[u] <= p
  <2>1. CASE Waiters(z) = <<>>
    <3>1. WaitingPriority(z) = 0 /\ Range(Waiters(z)) = {}
      BY <2>1 DEF WaitingPriority, Waiters, Range
    <3>2. QED
      BY <1>2, <1>7, <3>1, TaskAssumption
  <2>2. CASE Waiters(z) # <<>>
    <3>1. PICK u \in Range(Waiters(z)) : /\ u = Head(Waiters(z))
                                         /\ \A v \in Range(Waiters(z)) : uxBasePriority[v] <= uxBasePriority[u]
      BY <1>5, <1>8, <2>2, FirstIsHighest DEF WaitersAt, Waiters
    <3>2. u \in Task /\ uxPriority[u] = uxBasePriority[u]
      BY <1>5, <1>8, <3>1, TakersPriority DEF WaitersAt, AllInv
    <3>3. WaitingPriority(z) = uxBasePriority[u]
      BY <2>2, <3>1, <3>2 DEF WaitingPriority, Waiters
    <3>4. uxBasePriority[u] \in Nat /\ uxBasePriority[h] \in Nat
          /\ \A v \in Range(Waiters(z)) : uxBasePriority[v] \in Nat
      BY <1>5, <1>7, <1>8, <3>2, TaskAssumption
    <3>5. QED
      BY <1>2, <3>1, <3>3, <3>4
  <2>3. QED
    BY <2>1, <2>2
<1>10. /\ uxPriority' \in [Task -> Nat] /\ uxPriority'[h] = p
       /\ \A u \in Task : u # h => uxPriority'[u] = uxPriority[u]
  BY <1>3, <1>4, <1>7, <1>9 DEF HolderInv
<1>11. (\A u \in Task : Holds(u)' <=> Holds(u)) /\ \A q : Free(q)' <=> Free(q)
  BY <1>3 DEF Holds, Free
<1>12. HolderInv'
  <2>1. \A u \in Task : uxBasePriority[u] <= uxPriority'[u] /\ (~Holds(u)' => uxPriority'[u] = uxBasePriority[u])
    BY <1>4, <1>7, <1>9, <1>10, <1>11 DEF HolderInv
  <2>2. QED
    BY <1>3, <1>4, <1>10, <1>11, <2>1 DEF HolderInv
<1>13. OnlyOf(t) /\ call'[t] = NoCall
  BY <1>3 DEF Returns, Goes, OnlyOf, AllInv, CallInv, ControlInv, PlaceInv, TimeInv, ClockInv
<1>14. \A u \in Task : CallerAt(u)'
  <2>1. CallerAt(t)'
    BY <1>13 DEF CallerAt
  <2>2. ASSUME NEW u \in Task, u # t PROVE CallerAt(u)'
    <3>1. CallerAt(u) /\ at[u] # "place"
      BY <1>3, <2>2, OneAtPlace DEF InSuspension, AllInv, PriorityInv
    <3>2. QED
      BY <1>3, <1>11, <1>13, <2>2, <3>1 DEF CallerAt, OnlyOf, lists
  <2>3. QED
    BY <2>1, <2>2
<1>15. ASSUME NEW q \in Mutexes PROVE WaitersAt(q)'
  <2>1. /\ Waiters(q)' = Waiters(q) /\ Sorted(Waiters(q)) /\ WaitersAt(q)
        /\ pxMutexHolder' = pxMutexHolder /\ pxCurrentTCB' = pxCurrentTCB /\ (Free(q)' <=> Free(q))
    BY <1>3, <1>8, <1>11 DEF Waiters, WaitersAt
  <2>2. ASSUME NEW u \in Range(Waiters(q)) PROVE Wants(u, q)'
    BY <1>8, <1>13, <2>1 DEF WaitersAt, Wants, OnlyOf
  <2>3. ASSUME NEW u \in Range(Waiters(q)), ~Free(q)
        PROVE  uxBasePriority[u] <= uxPriority'[pxMutexHolder[q]]
    <3>1. CASE q = z
      BY <1>1, <1>9, <1>10, <3>1
    <3>2. CASE q # z
      <4>1. pxMutexHolder[q] \in Task /\ pxMutexHolder[q] # h
        BY <1>0, <1>1, <1>4, <1>5, <2>3, <3>2 DEF HolderInv, Free, Mutexes
      <4>2. QED
        BY <1>10, <2>1, <2>3, <4>1 DEF WaitersAt
    <3>3. QED
      BY <3>1, <3>2
  <2>4. ASSUME NEW u \in Range(Waiters(q)), Free(q), MayTake(q)'
        PROVE  uxBasePriority[u] <= uxPriority'[pxCurrentTCB]
    <3>1. MayTake(q) /\ pxCurrentTCB = t
      BY <1>3, <2>4 DEF MayTake, Runs
    <3>2. QED
      BY <1>7, <1>10, <2>1, <2>4, <3>1 DEF WaitersAt
  <2>5. ASSUME NEW w \in Task, Woken(w, q) PROVE Woken(w, q)'
    <3>1. w # t
      BY <1>3, <2>5 DEF Woken
    <3>2. QED
      BY <1>3, <1>13, <2>5, <3>1 DEF Woken, Wants, OnlyOf, Ready, Blocked, lists
  <2>6. Free(q)' /\ Range(Waiters(q)) # {} =>
            \E w \in Task : Woken(w, q)' /\ \A u \in Range(Waiters(q)) :
                                               uxBasePriority[u] <= uxBasePriority[w]
    BY <2>1, <2>5 DEF WaitersAt
  <2>7. QED
    BY <2>1, <2>2, <2>3, <2>4, <2>6 DEF WaitersAt
<1>16. \A q \in Mutexes : InheritedAt(q)'
  BY <1>3, <1>6 DEF InheritedAt
<1>17. \A q \in Mutexes : WaitersAt(q)'
  BY <1>15
<1>18. QED
  BY <1>12, <1>14, <1>16, <1>17 DEF PriorityInv

\* A mutex is given: the first that waits for it has the highest priority and is woken, and a
\* context switch is pending when it outranks the giver, which may have lost a priority.
LEMMA MutexGivePriority ==
  ASSUME AllInv, NEW t \in Task, MutexGiveProceeds(t)
  PROVE  PriorityInv'
<1>0. PICK z : z = call[t].queue
  OBVIOUS
<1> DEFINE S == Firsts(Receivers(z), 1)
           dis == Disinherited(t)
<1>1. /\ Runs(t) /\ at[t] = "enter" /\ call[t].op = "give" /\ ~Stuck(t) /\ Returns(t) /\ Kind[z] = "mutex"
      /\ uxMessagesWaiting' = [uxMessagesWaiting EXCEPT ![z] = @ + 1]
      /\ uxPriority' = dis
      /\ uxMutexesHeld' = [uxMutexesHeld EXCEPT ![t] = @ - 1]
      /\ pxMutexHolder' = [pxMutexHolder EXCEPT ![z] = NoHolder]
      /\ xTaskRemoveFromEventList(Receivers(z), 1, dis)
      /\ pendSV' = IF Waiters(z) = <<>> THEN Disinherits(t) ELSE Outranks(S, dis)
      /\ UNCHANGED <<pxCurrentTCB, use, cTxLock, uxSchedulerSuspended>>
  BY <1>0 DEF MutexGiveProceeds, Proceeds, Returns, locks, Waiters
<1>2. HolderInv /\ CallerAt(t) /\ z \in Mutexes /\ z \in Queue /\ pxMutexHolder[z] = t /\ call[t] \in use.calls[t]
  <2>1. call[t] # NoCall /\ z \in Queue /\ call[t] \in use.calls[t]
    BY <1>0, <1>1, Caller DEF InCall
  <2>2. HolderInv /\ CallerAt(t) /\ z \in Mutexes
    BY <1>1, <2>1 DEF AllInv, PriorityInv, Mutexes
  <2>3. QED
    BY <1>0, <1>1, <2>1, <2>2 DEF CallerAt
<1>3. t # NoHolder /\ ~Free(z) /\ uxMutexesHeld[t] = 1 /\ uxMessagesWaiting[z] = 0
  <2>1. t # NoHolder /\ ~Free(z) /\ Holds(t)
    BY <1>2, MutexAssumption DEF Free, Holds
  <2>2. QED
    BY <1>2, <2>1 DEF HolderInv
<1>4. /\ pxMutexHolder'[z] = NoHolder
      /\ \A q \in Queue : q # z => /\ pxMutexHolder'[q] = pxMutexHolder[q]
                                   /\ pxMutexHolder[q] # t
                                   /\ (Free(q)' <=> Free(q))
      /\ Free(z)'
  BY <1>1, <1>2, <1>3 DEF HolderInv, Free
<1>5. ~Holds(t)' /\ \A u \in Task : u # t => (Holds(u)' <=> Holds(u))
  BY <1>2, <1>3, <1>4, MutexAssumption DEF Holds
<1>6. /\ uxPriority' \in [Task -> Nat] /\ uxPriority'[t] = uxBasePriority[t]
      /\ \A u \in Task : u # t => uxPriority'[u] = uxPriority[u]
  <2>1. uxPriority \in [Task -> Nat] /\ uxBasePriority[t] \in Nat
    BY <1>2, TaskAssumption DEF HolderInv
  <2>2. CASE uxPriority[t] = uxBasePriority[t]
    BY <1>1, <2>1, <2>2 DEF Disinherited, Disinherits
  <2>3. CASE uxPriority[t] # uxBasePriority[t]
    BY <1>1, <1>3, <2>1, <2>3 DEF Disinherited, Disinherits
  <2>4. QED
    BY <2>2, <2>3
<1> HIDE DEF dis
<1>7. HolderInv'
  <2>1. pxMutexHolder' \in [Queue -> Task \cup {NoHolder}] /\ uxMutexesHeld' \in [Task -> Nat]
    BY <1>1, <1>2, <1>3 DEF HolderInv
  <2>2. \A q \in Mutexes : uxMessagesWaiting'[q] = (IF Free(q)' THEN 1 ELSE 0) /\ cTxLock'[q] <= 0
    BY <1>1, <1>2, <1>3, <1>4 DEF HolderInv, AllInv, RingInv, Mutexes
  <2>3. \A u \in Task : uxMutexesHeld'[u] = (IF Holds(u)' THEN 1 ELSE 0)
    BY <1>1, <1>2, <1>3, <1>5 DEF HolderInv
  <2>4. \A q \in Queue : ~Free(q)' => q \in Mutexes
    BY <1>2, <1>4 DEF HolderInv
  <2>5. \A q, r \in Queue : pxMutexHolder'[q] = pxMutexHolder'[r] /\ ~Free(q)' => q = r
    BY <1>2, <1>4 DEF HolderInv, Free
  <2>6. \A u \in Task : uxBasePriority[u] <= uxPriority'[u] /\ (~Holds(u)' => uxPriority'[u] = uxBasePriority[u])
    BY <1>2, <1>5, <1>6, TaskAssumption DEF HolderInv
  <2>7. QED
    BY <1>6, <2>1, <2>2, <2>3, <2>4, <2>5, <2>6 DEF HolderInv
<1>8. Wakes
  BY ProceedsControl DEF AllInv
<1>9. OnlyOf(t) /\ call'[t] = NoCall
  BY <1>1 DEF Returns, Goes, OnlyOf, AllInv, CallInv, ControlInv, PlaceInv, TimeInv, ClockInv
<1>10. \A u \in Task : u # t => Rests(u)
  BY <1>8, <1>9, OthersRest
<1>11. ASSUME NEW u \in Task PROVE CallerAt(u)'
  <2>1. CASE u = t
    BY <1>9, <2>1 DEF CallerAt
  <2>2. CASE u # t
    <3>1. CallerAt(u) /\ Rests(u)
      BY <1>10, <2>2 DEF AllInv, PriorityInv
    <3>2. at[u] \notin {"place", "inherit"}
      BY <1>1, <2>2, OneAtPlace DEF InSuspension
    <3>3. call[u] # NoCall /\ call[u].queue \in Mutexes /\ call[u].op = "give" => pxMutexHolder'[call[u].queue] = u
      BY <1>2, <1>4, <2>2, <3>1 DEF CallerAt, Mutexes
    <3>4. QED
      BY <1>1, <1>5, <2>2, <3>1, <3>2, <3>3 DEF CallerAt, Rests
  <2>3. QED
    BY <2>1, <2>2
<1>12. /\ event' = [event EXCEPT ![Receivers(z)] = Without(@, S)]
       /\ uxSchedulerSuspended = 0 /\ MakeReady(S)
  <2>1. uxSchedulerSuspended = 0
    BY <1>1, Whereabouts DEF AllInv, InSuspension
  <2>2. QED
    BY <1>1, <2>1 DEF xTaskRemoveFromEventList
<1>13. ASSUME NEW q \in Mutexes
       PROVE  /\ WaitersAt(q) /\ InheritedAt(q)
              /\ Waiters(q) \in Seq(Task) /\ Range(Waiters(q)) \subseteq Task
              /\ q # z => Waiters(q)' = Waiters(q)
              /\ q = z => Waiters(z)' = Without(Waiters(z), S)
  <2>1. Receivers(q) \in EventList /\ Waiters(q) \in Seq(Task) /\ Range(Waiters(q)) \subseteq Task
        /\ event \in [EventList -> Seq(Task)]
    BY WaitersAre DEF AllInv, ControlInv, ListInv
  <2>2. q # z => Receivers(q) # Receivers(z)
    BY DEF Receivers
  <2>3. QED
    BY <1>12, <2>1, <2>2 DEF Waiters, AllInv, PriorityInv
<1>14. ASSUME NEW q \in Mutexes, NEW u \in Range(Waiters(q))
       PROVE  /\ u \in Task /\ u # t /\ Wants(u, q) /\ Wants(u, q)'
              /\ uxPriority'[u] = uxBasePriority[u]
              /\ at[u] = "enter" \/ (at[u] = "yield" /\ then[u] = "block")
  <2>1. /\ u \in Task /\ u # t /\ Wants(u, q)
        /\ at[u] = "enter" \/ (at[u] = "yield" /\ then[u] = "block")
    BY <1>1, WokenWaiter DEF Leaving
  <2>2. uxPriority[u] = uxBasePriority[u]
    BY <2>1, TakersPriority DEF AllInv
  <2>3. QED
    BY <1>6, <1>9, <2>1, <2>2 DEF Wants, OnlyOf
<1>15. Waiters(z) # <<>> =>
           \E w \in Range(Waiters(z)) :
               /\ S = {w} /\ \A v \in Range(Waiters(z)) : uxBasePriority[v] <= uxBasePriority[w]
               /\ (pendSV' <=> uxBasePriority[w] > uxBasePriority[t])
  <2> SUFFICES ASSUME Waiters(z) # <<>>
               PROVE  \E w \in Range(Waiters(z)) :
                          /\ S = {w} /\ \A v \in Range(Waiters(z)) : uxBasePriority[v] <= uxBasePriority[w]
                          /\ (pendSV' <=> uxBasePriority[w] > uxBasePriority[t])
    OBVIOUS
  <2>1. PICK w \in Range(Waiters(z)) :
              S = {w} /\ \A v \in Range(Waiters(z)) : uxBasePriority[v] <= uxBasePriority[w]
    BY <1>2, <1>13, FirstIsHighest DEF WaitersAt, Waiters
  <2>2. pendSV' <=> dis[w] > dis[t]
    <3>1. pendSV' <=> Outranks(S, dis)
      BY <1>1
    <3>2. Outranks(S, dis) <=> dis[w] > dis[t]
      BY <1>1, <2>1 DEF Outranks, Runs
    <3>3. QED
      BY <3>1, <3>2
  <2>3. dis[w] = uxBasePriority[w] /\ dis[t] = uxBasePriority[t]
    BY <1>1, <1>2, <1>6, <1>14
  <2>4. QED
    BY <2>1, <2>2, <2>3
<1> HIDE DEF S
<1>16. WaitersAt(z)'
  <2>1. /\ Thinned(Waiters(z)', Waiters(z)) /\ Range(Waiters(z)') \subseteq Range(Waiters(z))
        /\ Sorted(Waiters(z)')
    BY <1>2, <1>13, WithoutThins, ThinnedSorted DEF Thinned, WaitersAt
  <2>2. CASE Waiters(z) = <<>>
    <3>1. Range(Waiters(z)') = {}
      BY <2>1, <2>2 DEF Range
    <3>2. QED
      BY <2>1, <3>1 DEF WaitersAt
  <2>3. CASE Waiters(z) # <<>>
    <3>1. PICK w \in Range(Waiters(z)) :
               /\ S = {w} /\ \A v \in Range(Waiters(z)) : uxBasePriority[v] <= uxBasePriority[w]
               /\ (pendSV' <=> uxBasePriority[w] > uxBasePriority[t])
      BY <1>15, <2>3
    <3>2. Woken(w, z)'
      <4>1. w \in Task /\ Wants(w, z)' /\ (at[w] = "enter" \/ (at[w] = "yield" /\ then[w] = "block")) /\ w # t
        BY <1>2, <1>14
      <4>2. w \in Ready'
        BY <1>12, <3>1, <4>1 DEF MakeReady, Ready, Blocked
      <4>3. QED
        BY <1>9, <4>1, <4>2 DEF Woken, OnlyOf
    <3>3. ASSUME NEW u \in Range(Waiters(z)), MayTake(z)' PROVE uxBasePriority[u] <= uxPriority'[pxCurrentTCB']
      <4>1. ~pendSV'
        BY <1>1, <1>12, <3>3 DEF MayTake
      <4>2. /\ uxBasePriority[u] \in Nat /\ uxBasePriority[w] \in Nat /\ uxBasePriority[t] \in Nat
            /\ pxCurrentTCB' = t
        BY <1>1, <1>2, <1>14, TaskAssumption DEF Runs
      <4>3. ~(uxBasePriority[w] > uxBasePriority[t]) /\ uxBasePriority[u] <= uxBasePriority[w]
        BY <3>1, <4>1
      <4>4. QED
        BY <1>6, <4>2, <4>3
    <3>4. \A u \in Range(Waiters(z)') :
              Wants(u, z)' /\ (MayTake(z)' => uxBasePriority[u] <= uxPriority'[pxCurrentTCB'])
                           /\ uxBasePriority[u] <= uxBasePriority[w]
      BY <1>2, <1>14, <2>1, <3>1, <3>3
    <3>5. w \in Task
      BY <1>2, <1>14
    <3>6. QED
      BY <1>4, <2>1, <3>2, <3>4, <3>5 DEF WaitersAt
  <2>4. QED
    BY <2>2, <2>3
<1>17. ASSUME NEW q \in Mutexes, q # z PROVE WaitersAt(q)'
  <2>1. /\ pxMutexHolder'[q] = pxMutexHolder[q] /\ pxMutexHolder[q] # t /\ (Free(q)' <=> Free(q))
        /\ Waiters(q)' = Waiters(q) /\ WaitersAt(q) /\ Sorted(Waiters(q))
    BY <1>4, <1>13, <1>17 DEF Mutexes, WaitersAt
  <2>2. ASSUME NEW u \in Range(Waiters(q)), ~Free(q)
        PROVE  uxBasePriority[u] <= uxPriority'[pxMutexHolder[q]]
    <3>1. pxMutexHolder[q] \in Task
      BY <1>2, <2>2 DEF HolderInv, Free, Mutexes
    <3>2. QED
      BY <1>6, <2>1, <2>2, <3>1 DEF WaitersAt
  <2>3. ASSUME NEW u \in Range(Waiters(q)), Free(q), MayTake(q)'
        PROVE  uxBasePriority[u] <= uxPriority'[pxCurrentTCB']
    <3>1. MayTake(q) /\ pxCurrentTCB' = t /\ pxCurrentTCB = t
      BY <1>1, <2>3 DEF MayTake, Runs
    <3>2. uxBasePriority[u] <= uxPriority[t]
      BY <2>1, <2>3, <3>1 DEF WaitersAt
    <3>3. CASE uxPriority[t] = uxBasePriority[t]
      BY <1>6, <3>1, <3>2, <3>3
    <3>4. CASE uxPriority[t] # uxBasePriority[t]
      <4>1. WaitsForEver(use)
        <5> SUFFICES ASSUME ~WaitsForEver(use) PROVE FALSE
          OBVIOUS
        <5>1. PICK c \in use.calls[t] : c.queue = q
          BY <3>1 DEF MayTake
        <5>2. use \in Uses
          BY DEF AllInv, CallInv
        <5>3. OneMutexEach(use)
          BY <5>2, MutexAssumption
        <5>4. c \in MutexCalls(use, t) /\ call[t] \in MutexCalls(use, t)
          BY <1>0, <1>2, <5>1 DEF MutexCalls
        <5>5. QED
          BY <1>0, <1>17, <5>1, <5>3, <5>4 DEF OneMutexEach
      <4>2. PICK v \in Task : /\ Wants(v, z) /\ uxBasePriority[v] = uxPriority[t]
                              /\ v \in Range(Waiters(z)) \/ at[v] = "place"
        BY <1>2, <1>3, <1>13, <3>4, <4>1 DEF InheritedAt
      <4>3. v \in Range(Waiters(z))
        BY <1>1, <4>2, OneAtPlace DEF InSuspension
      <4>4. Waiters(z) # <<>>
        BY <4>3 DEF Range
      <4>5. PICK w \in Range(Waiters(z)) :
                 /\ \A x \in Range(Waiters(z)) : uxBasePriority[x] <= uxBasePriority[w]
                 /\ (pendSV' <=> uxBasePriority[w] > uxBasePriority[t])
        BY <1>15, <4>4
      <4>6. /\ uxBasePriority[v] \in Nat /\ uxBasePriority[w] \in Nat /\ uxBasePriority[t] \in Nat
            /\ uxBasePriority[t] <= uxPriority[t]
        BY <1>2, <1>14, <4>2, TaskAssumption DEF HolderInv
      <4>7. uxBasePriority[w] > uxBasePriority[t]
        BY <3>4, <4>2, <4>3, <4>5, <4>6
      <4>8. pendSV'
        BY <4>5, <4>7
      <4>9. uxSchedulerSuspended' = 0 /\ (uxSchedulerSuspended' > 0 \/ ~pendSV')
        BY <1>1, <1>12, <2>3 DEF MayTake
      <4>10. QED
        BY <4>8, <4>9
    <3>5. QED
      BY <3>3, <3>4
  <2>4. ASSUME NEW w \in Task, Woken(w, q) PROVE Woken(w, q)'
    <3>1. w # t
      BY <1>1, <2>4 DEF Woken, Wants
    <3>2. QED
      BY <1>10, <2>4, <3>1 DEF Woken, Rests, Wants
  <2>5. Free(q)' /\ Range(Waiters(q)) # {} =>
            \E w \in Task : Woken(w, q)' /\ \A u \in Range(Waiters(q)) :
                                               uxBasePriority[u] <= uxBasePriority[w]
    BY <2>1, <2>4 DEF WaitersAt
  <2>6. \A u \in Range(Waiters(q)) :
            /\ Wants(u, q)'
            /\ ~Free(q)' => uxBasePriority[u] <= uxPriority'[pxMutexHolder'[q]]
            /\ Free(q)' /\ MayTake(q)' => uxBasePriority[u] <= uxPriority'[pxCurrentTCB']
    BY <1>14, <2>1, <2>2, <2>3
  <2>7. QED
    BY <2>1, <2>5, <2>6 DEF WaitersAt
<1>18. ASSUME NEW q \in Mutexes PROVE InheritedAt(q)'
  <2>1. CASE q = z
    BY <1>4, <2>1 DEF InheritedAt
  <2>2. CASE q # z
    <3>1. /\ pxMutexHolder'[q] = pxMutexHolder[q] /\ (Free(q)' <=> Free(q)) /\ InheritedAt(q)
          /\ Waiters(q)' = Waiters(q) /\ pxMutexHolder[q] # t
      BY <1>4, <1>13, <2>2 DEF Mutexes
    <3>2. ASSUME NEW u \in Task, Wants(u, q), u \in Range(Waiters(q)) \/ at[u] = "place"
          PROVE  Wants(u, q)' /\ (u \in Range(Waiters(q)) \/ at'[u] = "place")
      <4>1. u # t
        BY <1>1, <3>2 DEF Wants
      <4>2. QED
        BY <1>10, <3>2, <4>1 DEF Rests, Wants
    <3>3. ~Free(q) => uxPriority'[pxMutexHolder[q]] = uxPriority[pxMutexHolder[q]]
      BY <1>2, <1>6, <3>1 DEF HolderInv, Free, Mutexes
    <3>4. QED
      BY <1>1, <3>1, <3>2, <3>3 DEF InheritedAt
  <2>3. QED
    BY <2>1, <2>2
<1>19. \A q \in Mutexes : WaitersAt(q)' /\ InheritedAt(q)'
  BY <1>16, <1>17, <1>18
<1>20. QED
  BY <1>7, <1>11, <1>19 DEF PriorityInv

-------------------------------------------------------------------------------
(***************************************************************************)
(* The theorem.                                                            *)
(***************************************************************************)

LEMMA InitPriority == QueuesInit => PriorityInv
<1> SUFFICES ASSUME QueuesInit PROVE PriorityInv
  OBVIOUS
<1>1. /\ uxPriority = uxBasePriority /\ uxMutexesHeld = [t \in Task |-> 0]
      /\ event = [l \in EventList |-> <<>>]
      /\ uxMessagesWaiting = [q \in Queue |-> IF Kind[q] = "mutex" THEN 1 ELSE 0]
      /\ cTxLock = [q \in Queue |-> -1] /\ pxMutexHolder = [q \in Queue |-> NoHolder]
      /\ call = [t \in Task |-> NoCall]
  BY DEF QueuesInit, SchedulerInit, queueUNLOCKED
<1>2. (\A q \in Queue : Free(q)) /\ \A t \in Task : ~Holds(t)
  BY <1>1, MutexAssumption DEF Free, Holds
<1>3. HolderInv
  <2>1. \A q \in Mutexes : uxMessagesWaiting[q] = 1 /\ cTxLock[q] <= 0 /\ q \in Queue
    BY <1>1 DEF Mutexes
  <2>2. \A t \in Task : uxMutexesHeld[t] = 0 /\ uxPriority[t] = uxBasePriority[t] /\ uxBasePriority[t] \in Nat
    BY <1>1, TaskAssumption
  <2>3. /\ pxMutexHolder \in [Queue -> Task \cup {NoHolder}]
        /\ uxPriority \in [Task -> Nat] /\ uxMutexesHeld \in [Task -> Nat]
    BY <1>1, TaskAssumption
  <2>4. QED
    BY <1>2, <2>1, <2>2, <2>3 DEF HolderInv
<1>4. \A t \in Task : CallerAt(t)
  BY <1>1 DEF CallerAt
<1>5. ASSUME NEW q \in Mutexes PROVE WaitersAt(q) /\ InheritedAt(q)
  <2>1. Waiters(q) = <<>> /\ Free(q)
    BY <1>1, <1>2, QueueAssumption DEF Waiters, Receivers, Mutexes
  <2>2. Range(Waiters(q)) = {} /\ Sorted(Waiters(q))
    BY <2>1 DEF Range, Sorted
  <2>3. QED
    BY <2>1, <2>2 DEF WaitersAt, InheritedAt
<1>6. QED
  BY <1>3, <1>4, <1>5 DEF PriorityInv

LEMMA SamePriority == ASSUME AllInv, UNCHANGED allVars PROVE PriorityInv'
<1>1. /\ pxCurrentTCB \in Task
      /\ UNCHANGED <<use, pxMutexHolder, uxPriority, uxMutexesHeld, uxMessagesWaiting, cTxLock, event,
                     pxCurrentTCB, uxSchedulerSuspended, pendSV, lists>>
      /\ UNCHANGED <<at, then, call, xTicksToWait>>
  BY DEF allVars, schedulerVars, queueVars, priorities, locks, control, AllInv, CallInv
<1>2. SameHolders
  BY <1>1 DEF SameHolders, AllInv, PriorityInv, HolderInv
<1>3. WaitersStay
  BY <1>1, SameWaiters DEF AllInv, ControlInv
<1>4. \A u \in Task : Rests(u)
  BY <1>1 DEF Rests, Ready, Blocked, lists
<1>5. GoesOn(pxCurrentTCB)
  BY <1>1, <1>2, <1>4, RestsGoesOn DEF AllInv, PriorityInv
<1>6. NobodyFirst
  BY <1>1, SameTaker DEF AllInv
<1>7. QED
  BY <1>1, <1>2, <1>3, <1>4, <1>5, <1>6, SteadyInv DEF Steady, AllInv, ControlInv

\* One step for each action of the kernel.
LEMMA NextPriority == ASSUME AllInv, [KernelNext]_allVars PROVE PriorityInv'
<1>1. CASE UNCHANGED allVars
  BY <1>1, SamePriority
<1>2. CASE UNCHANGED queueVars /\ (SysTick \/ SysTickPended \/ vTaskSwitchContext)
  BY <1>2, TickPriority, SwitchPriority
<1>3. CASE \E q \in use.isr : xQueueGiveFromISR(q)
  BY <1>3, GivePriority
<1>4. ASSUME NEW t \in Task, UNCHANGED queueVars,
             \/ xTaskResumeAll(t) \/ ResumeTick(t) \/ ResumeEnds(t) \/ portYIELD_WITHIN_API(t)
             \/ DelayAdds(t) \/ DelayEnds(t) \/ HeapSuspends(t) \/ vTaskYield(t)
             \/ \E c \in use.calls[t] : vTaskDelay(t, c.wait)
      PROVE  PriorityInv'
  BY <1>4, ResumePriority, TickPriority, IdlePriority
<1>5. ASSUME NEW t \in Task, NEW c \in use.calls[t], c.queue \in Queue, Begin(t, c)
      PROVE  PriorityInv'
  BY <1>5, BeginPriority
<1>6. ASSUME NEW t \in Task,
             \/ SendProceeds(t) \/ GiveProceeds(t) \/ MutexGiveProceeds(t)
             \/ ReceiveProceeds(t) \/ TakeProceeds(t)
      PROVE  PriorityInv'
  BY <1>6, ProceedsPriority, MutexGivePriority, TakePriority
<1>7. ASSUME NEW t \in Task, GivesUp(t) \/ Expired(t) \/ DisinheritAfterTimeout(t)
      PROVE  PriorityInv'
  BY <1>7, GivesUpPriority, DisinheritPriority
<1>8. ASSUME NEW t \in Task,
             \/ EntersWait(t) \/ Suspends(t) \/ prvLockQueue(t) \/ CheckForTimeOut(t) \/ Looks(t)
             \/ xTaskPriorityInherit(t) \/ Place(t) \/ prvUnlockQueue(t) \/ prvUnlockQueueRx(t)
             \/ ExpiredLooks(t)
      PROVE  PriorityInv'
  BY <1>8, WaitPriority, InheritPriority, PlacePriority, UnlockPriority
<1>9. QED
  BY <1>1, <1>2, <1>3, <1>4, <1>5, <1>6, <1>7, <1>8, KernelSteps

\* Priority inheritance: the tasks that wait for a mutex never outrank its holder, and who holds
\* no mutex has its own priority (xTaskPriorityInherit, xTaskPriorityDisinherit and
\* vTaskPriorityDisinheritAfterTimeout with the calls that use them).
THEOREM KernelNoInversion == KernelSpec => []NoInversion
<1>1. QueuesInit => AllInv
  BY InitCall, InitControl, InitTime, InitRing, InitPriority DEF AllInv
<1>2. AllInv /\ [KernelNext]_allVars => AllInv'
  BY NextCall, NextControl, NextTime, NextRing, NextPriority DEF AllInv
<1>3. AllInv => NoInversion
  <2> SUFFICES ASSUME AllInv PROVE NoInversion
    OBVIOUS
  <2>1. ASSUME NEW q \in Queue, pxMutexHolder[q] # NoHolder, NEW i \in DOMAIN event[Receivers(q)]
        PROVE  uxPriority[event[Receivers(q)][i]] <= uxPriority[pxMutexHolder[q]]
    <3>1. ~Free(q) /\ q \in Mutexes
      BY <2>1 DEF Free, AllInv, PriorityInv, HolderInv
    <3> DEFINE u == event[Receivers(q)][i]
    <3>2. u \in Range(Waiters(q)) /\ u \in Task
      <4>1. u \in Range(Waiters(q))
        BY DEF Waiters, Range
      <4>2. QED
        BY <3>1, <4>1, WaitersAre DEF AllInv, ControlInv
    <3>3. Wants(u, q) /\ uxBasePriority[u] <= uxPriority[pxMutexHolder[q]]
      BY <3>1, <3>2 DEF AllInv, PriorityInv, WaitersAt
    <3>4. uxPriority[u] = uxBasePriority[u]
      BY <3>1, <3>2, <3>3, TakersPriority DEF AllInv
    <3>5. QED
      BY <3>3, <3>4
  <2>2. ASSUME NEW t \in Task, uxMutexesHeld[t] = 0 PROVE uxPriority[t] = uxBasePriority[t]
    BY <2>2 DEF AllInv, PriorityInv, HolderInv
  <2>3. QED
    BY <2>1, <2>2 DEF NoInversion
<1>4. QED
  BY <1>1, <1>2, <1>3, PTL DEF KernelSpec

-------------------------------------------------------------------------------
(***************************************************************************)
(* The inductive invariant behind HighestRuns.                             *)
(***************************************************************************)

\* A task that waits for an event, for a time, is not woken by the tick before that has passed.
TimelyAt(t) ==
    t \in OnEvent =>
        /\ xTicksToWait[t] > 0
        /\ t \in pxDelayedTaskList => left[t] < NoDeadline /\ left[t] <= Ahead(t)
        /\ t \in pxOverflowDelayedTaskList =>
               left[t] < NoDeadline /\ left[t] <= Ahead(t) + TickModulus

\* Who made a holder inherit is in a call that takes a mutex.
InheritorAt(t) ==
    xInheritanceOccurred[t] =>
        xEntryTimeSet[t] /\ call[t].op = "take" /\ call[t].queue \in Mutexes

\* Task t goes on to look at the clock, or has seen that its time has run out.
LooksAgain(t) == xTicksToWait[t] > 0 \/ then[t] = "expire" \/ at[t] \in {"expired", "disinherit"}

\* Task t made the holder of mutex q inherit and still waits, or its time has run out and it has
\* not yet taken the priority back.
Lends(t, q) ==
    /\ Wants(t, q) /\ xInheritanceOccurred[t]
    /\ \/ t \in Range(Waiters(q)) \/ at[t] = "place"
       \/ t \in Ready /\ left[t] <= 0 /\ LooksAgain(t)

\* What a holder has more than its own priority is lent to it, with a limit on the wait or not.
LentAt(q) ==
    LET holder == pxMutexHolder[q]
    IN  ~Free(q) =>
            /\ \A t \in Task :
                   Wants(t, q) /\ (t \in Range(Waiters(q)) \/ at[t] = "place") =>
                       uxBasePriority[t] <= uxBasePriority[holder] \/ xInheritanceOccurred[t]
            /\ uxPriority[holder] # uxBasePriority[holder] =>
                   \E t \in Task : Lends(t, q) /\ uxBasePriority[t] = uxPriority[holder]

LendInv ==
    /\ ListsApart
    /\ xInheritanceOccurred \in [Task -> BOOLEAN]
    /\ \A t \in Task : TimelyAt(t) /\ InheritorAt(t)
    /\ \A q \in Mutexes : LentAt(q)

\* Nobody ready outranks the task that runs, but for who waits behind a wait in vain.
Excused(p) == \E w \in Ready : WaitedInVain(w) /\ p <= uxPriority[w]
Level == \A t \in Ready : uxPriority[t] <= uxPriority[pxCurrentTCB] \/ Excused(uxPriority[t])

\* A context switch is pending, or will be when the scheduler is resumed.
Switches == pendSV \/ (xYieldPending /\ (uxSchedulerSuspended > 0 \/ Critical))

HighInv == AllInv /\ LendInv /\ (Level \/ Switches)

-------------------------------------------------------------------------------
(***************************************************************************)
(* Steps that leave the holders and those that wait alone.                 *)
(***************************************************************************)

LEMMA WakesApart == ASSUME ListsApart, Wakes PROVE ListsApart'
BY DEF ListsApart, Wakes

\* What a step of task t leaves of task u.
Undisturbed(u) ==
    /\ left'[u] = left[u] /\ xItemValue'[u] = xItemValue[u] /\ xEntryTimeSet'[u] = xEntryTimeSet[u]
    /\ xInheritanceOccurred'[u] = xInheritanceOccurred[u]

\* What a step of task t leaves of the waits for events.
LeavesWaits(t) ==
    /\ Wakes /\ OnlyOf(t) /\ TimeStill
    /\ \A u \in Task : u # t => Undisturbed(u)
    /\ InheritorAt(t)'
    /\ t \in OnEvent => Undisturbed(t) /\ UNCHANGED <<call[t], xTicksToWait[t]>>

LEMMA OrdinaryTimely ==
  ASSUME AllInv, LendInv, NEW t \in Task, LeavesWaits(t)
  PROVE  ListsApart' /\ \A u \in Task : TimelyAt(u)' /\ InheritorAt(u)'
<1>1. /\ Wakes /\ OnlyOf(t) /\ TimeStill
      /\ \A u \in Task : u # t => Undisturbed(u)
  BY DEF LeavesWaits
<1>2. ListsApart'
  BY <1>1, WakesApart DEF LendInv
<1>3. ASSUME NEW u \in Task PROVE TimelyAt(u)'
  <2>1. u \in OnEvent' => u \in OnEvent /\ Undisturbed(u) /\ xTicksToWait'[u] = xTicksToWait[u]
    BY <1>1 DEF Wakes, OnlyOf, LeavesWaits
  <2>2. TimelyAt(u)
    BY DEF LendInv
  <2>3. Ahead(u)' = xItemValue'[u] - xTickCount - uxPendedTicks
    BY <1>1 DEF Ahead, TimeStill
  <2>4. QED
    BY <1>1, <2>1, <2>2, <2>3 DEF TimelyAt, Undisturbed, Wakes, Ahead
<1>4. ASSUME NEW u \in Task PROVE InheritorAt(u)'
  BY <1>1 DEF InheritorAt, Undisturbed, OnlyOf, LeavesWaits, LendInv
<1>5. QED
  BY <1>2, <1>3, <1>4

\* The holder of a mutex, its priority and those that wait stay.
SameMutex(q) ==
    LET holder == pxMutexHolder[q]
    IN  /\ Range(Waiters(q)') = Range(Waiters(q))
        /\ pxMutexHolder'[q] = holder
        /\ ~Free(q) => uxPriority'[holder] = uxPriority[holder]

\* What the step does for task t itself, with mutex q.
Keeps(t, q) ==
    /\ at'[t] = "place" /\ Wants(t, q)' => at[t] = "place" /\ Undisturbed(t) /\ call'[t] = call[t]
    /\ ~Free(q) /\ Lends(t, q) => Lends(t, q)'

LEMMA OrdinaryLent ==
  ASSUME AllInv, LendInv, NEW t \in Task, LeavesWaits(t), NEW q \in Mutexes, SameMutex(q), Keeps(t, q),
         \A u \in Task : u # t => at[u] # "place"
  PROVE  LentAt(q)'
<1>1. /\ Wakes /\ OnlyOf(t)
      /\ \A u \in Task : u # t => Undisturbed(u)
  BY DEF LeavesWaits
<1>2. LentAt(q) /\ (Free(q)' <=> Free(q)) /\ pxMutexHolder'[q] = pxMutexHolder[q]
      /\ Range(Waiters(q)') = Range(Waiters(q))
  BY DEF LendInv, SameMutex, Free
<1>3. ASSUME NEW u \in Task, u # t, Lends(u, q) PROVE Lends(u, q)'
  <2>1. Wants(u, q)' /\ xInheritanceOccurred'[u] /\ (LooksAgain(u)' <=> LooksAgain(u)) /\ left'[u] = left[u]
    BY <1>1, <1>3 DEF Lends, Wants, OnlyOf, Undisturbed, LooksAgain
  <2>2. u \in Ready => u \in Ready'
    BY <1>1 DEF Ready, Wakes
  <2>3. QED
    BY <1>1, <1>2, <1>3, <2>1, <2>2 DEF Lends, OnlyOf
<1>4. ASSUME NEW u \in Task, ~Free(q), Wants(u, q)', u \in Range(Waiters(q)') \/ at'[u] = "place"
      PROVE  uxBasePriority[u] <= uxBasePriority[pxMutexHolder[q]] \/ xInheritanceOccurred'[u]
  <2>1. CASE u # t
    BY <1>1, <1>2, <1>4, <2>1 DEF LentAt, Undisturbed, OnlyOf, Wants
  <2>2. CASE u = t
    <3>1. u \in Range(Waiters(q)) => u \in OnEvent
      BY <2>2, WaitersAre, OnEventIs DEF Waiters, AllInv, ControlInv
    <3>2. /\ u \in Range(Waiters(q)) \/ at[u] = "place"
          /\ Undisturbed(u) /\ call'[u] = call[u]
      BY <1>2, <1>4, <2>2, <3>1 DEF Keeps, LeavesWaits
    <3>3. Wants(u, q)
      BY <1>4, <3>2 DEF Wants
    <3>4. QED
      BY <1>2, <1>4, <3>2, <3>3 DEF LentAt, Undisturbed
  <2>3. QED
    BY <2>1, <2>2
<1>5. ~Free(q) /\ uxPriority'[pxMutexHolder[q]] # uxBasePriority[pxMutexHolder[q]] =>
          \E u \in Task : Lends(u, q)' /\ uxBasePriority[u] = uxPriority'[pxMutexHolder[q]]
  BY <1>2, <1>3 DEF LentAt, Keeps, SameMutex
<1>6. QED
  BY <1>2, <1>4, <1>5 DEF LentAt

LEMMA OrdinaryLends ==
  ASSUME AllInv, LendInv, NEW t \in Task, LeavesWaits(t), SameHolders, WaitersKept,
         xInheritanceOccurred' \in [Task -> BOOLEAN],
         \A q \in Mutexes : Keeps(t, q), \A u \in Task : u # t => at[u] # "place"
  PROVE  LendInv'
<1>1. \A q \in Mutexes : SameMutex(q)
  BY DEF SameMutex, SameHolders, WaitersKept
<1>2. QED
  BY <1>1, OrdinaryTimely, OrdinaryLent DEF LendInv

\* What the invariant says of a lender that runs.
LEMMA Lender ==
  ASSUME AllInv, LendInv, NEW t \in Task, Runs(t), NEW q \in Mutexes, Lends(t, q)
  PROVE  /\ call[t] # NoCall /\ call[t].op = "take" /\ call[t].queue = q /\ CallerAt(t)
         /\ ~Free(q) => Stuck(t)
         /\ xEntryTimeSet[t] /\ xInheritanceOccurred[t] /\ at[t] \notin {"out", "delay", "slept"}
         /\ at[t] \notin Leaving =>
                t \in Ready /\ t \notin OnEvent /\ t \notin Range(Waiters(q)) /\ then[t] = "none"
         /\ at[t] \notin Leaving \cup {"place"} => left[t] <= 0 /\ LooksAgain(t)
<1>1. /\ call[t] # NoCall /\ call[t].op = "take" /\ call[t].queue = q /\ CallerAt(t)
      /\ xEntryTimeSet[t] /\ xInheritanceOccurred[t]
  BY DEF Lends, Wants, NoCall, LendInv, InheritorAt, AllInv, PriorityInv
<1>2. at[t] \notin {"out", "delay", "slept"}
  BY <1>1 DEF CallerAt
<1>3. ~Free(q) => Stuck(t)
  BY <1>1 DEF AllInv, PriorityInv, HolderInv, Stuck, Empty
<1>4. ASSUME at[t] \notin Leaving
      PROVE  t \in Ready /\ t \notin OnEvent /\ t \notin Range(Waiters(q)) /\ then[t] = "none"
  <2>1. t \notin Blocked /\ t \notin OnEvent
    BY <1>4, AwakeRuns DEF AllInv
  <2>2. t \notin Range(Waiters(q))
    BY <2>1, WaitersAre, OnEventIs DEF AllInv, ControlInv, Waiters
  <2>3. at[t] \in InWait \cup {"out", "enter", "slept", "expired", "disinherit"} /\ then[t] \in FollowUps(at[t])
    BY <1>2, <1>4, Whereabouts DEF AllInv, Places, InCall, InWait, InSuspension, Leaving
  <2>4. QED
    BY <2>1, <2>2, <2>3, FollowUpsAre DEF Ready
<1>5. QED
  BY <1>1, <1>2, <1>3, <1>4 DEF Lends

\* A call returns.
LEMMA ReturnLends ==
  ASSUME AllInv, LendInv, NEW t \in Task, Runs(t), Returns(t), SameHolders, WaitersKept, Wakes,
         at[t] \in {"enter", "expired", "disinherit"},
         \A q \in Mutexes : Free(q) \/ ~Lends(t, q)
  PROVE  LendInv'
<1>1. OnlyOf(t)
  BY ReturnsOnly DEF AllInv
<1>2. \A u \in Task : u # t => Undisturbed(u)
  BY DEF Returns, Undisturbed, LendInv, AllInv, TimeInv, ClockInv
<1>3. TimeStill
  BY DEF Returns, TimeStill, clock
<1>4. xInheritanceOccurred' \in [Task -> BOOLEAN] /\ ~xInheritanceOccurred'[t] /\ call'[t] = NoCall
  BY DEF Returns, LendInv, AllInv, CallInv
<1>5. t \notin OnEvent
  BY AwakeRuns DEF AllInv, Leaving
<1>6. InheritorAt(t)' /\ \A q \in Mutexes : Keeps(t, q)
  BY <1>4, <1>5 DEF Keeps, InheritorAt, Wants, NoCall
<1>7. \A u \in Task : u # t => at[u] # "place"
  BY OneAtPlace DEF InSuspension
<1>8. QED
  BY <1>1, <1>2, <1>3, <1>4, <1>5, <1>6, <1>7, OrdinaryLends DEF LeavesWaits

LEMMA ProceedsLends ==
  ASSUME AllInv, LendInv, NEW t \in Task,
         \/ SendProceeds(t) \/ GiveProceeds(t) \/ ReceiveProceeds(t)
         \/ (TakeProceeds(t) /\ call[t].queue \notin Mutexes)
  PROVE  LendInv'
<1>1. Runs(t) /\ at[t] = "enter" /\ ~Stuck(t) /\ Returns(t)
  BY DEF SendProceeds, GiveProceeds, ReceiveProceeds, TakeProceeds, Proceeds
<1>2. SameHolders /\ WaitersKept /\ Wakes
  BY ProceedsPriority, ProceedsControl DEF AllInv
<1>3. QED
  BY <1>1, <1>2, Lender, ReturnLends

LEMMA GivesUpLends ==
  ASSUME AllInv, LendInv, NEW t \in Task,
         \/ GivesUp(t) \/ Expired(t)
         \/ (DisinheritAfterTimeout(t) /\ Free(call[t].queue))
  PROVE  LendInv'
<1>1. Runs(t) /\ at[t] \in {"enter", "expired", "disinherit"} /\ Returns(t)
  BY DEF GivesUp, Expired, DisinheritAfterTimeout
<1>2. SameHolders /\ WaitersKept /\ Wakes
  BY GivesUpPriority, GivesUpControl DEF AllInv
<1>3. ASSUME NEW q \in Mutexes, Lends(t, q), ~Free(q) PROVE FALSE
  <2>1. /\ call[t].op = "take" /\ call[t].queue = q /\ Stuck(t) /\ xInheritanceOccurred[t]
        /\ then[t] = "none" /\ LooksAgain(t)
    BY <1>1, <1>3, Lender DEF Leaving
  <2>2. CASE GivesUp(t)
    BY <2>1, <2>2 DEF GivesUp, LooksAgain
  <2>3. CASE Expired(t)
    BY <2>1, <2>3 DEF Expired
  <2>4. QED
    BY <1>3, <2>1, <2>2, <2>3
<1>4. QED
  BY <1>1, <1>2, <1>3, ReturnLends

\* The steps between two calls, and the beginning of one.
LEMMA IdleLends ==
  ASSUME AllInv, LendInv, NEW t \in Task,
         \/ /\ UNCHANGED queueVars
            /\ \/ DelayEnds(t) \/ HeapSuspends(t) \/ vTaskYield(t)
               \/ \E c \in use.calls[t] : vTaskDelay(t, c.wait)
         \/ \E c \in use.calls[t] : c.queue \in Queue /\ Begin(t, c)
  PROVE  LendInv'
<1>1. /\ Runs(t) /\ at[t] \in {"out", "slept"} /\ TimeStill
      /\ UNCHANGED <<xEntryTimeSet, xInheritanceOccurred>>
  BY DEF DelayEnds, HeapSuspends, vTaskYield, vTaskDelay, vTaskSuspendAll, Begin, TimeStill, clock, queueVars,
         waits
<1>2. SameHolders /\ WaitersKept /\ OnlyOf(t)
  BY IdlePriority, BeginPriority
<1>3. Wakes
  BY WaitControl, SuspendControl, StayControl, BeginControl DEF AllInv
<1>4. \A u \in Task : u # t => Undisturbed(u)
  BY <1>1 DEF DelayEnds, HeapSuspends, vTaskYield, vTaskDelay, vTaskSuspendAll, Begin, control,
              Undisturbed, AllInv, TimeInv, ClockInv
<1>5. call[t] = NoCall /\ ~xInheritanceOccurred[t]
  <2>1. call[t] = NoCall
    BY <1>1 DEF AllInv, PriorityInv, CallerAt
  <2>2. QED
    BY <2>1 DEF LendInv, InheritorAt, NoCall
<1>6. t \notin OnEvent /\ \A u \in Task : u # t => at[u] # "place"
  BY <1>1, AwakeRuns, OneAtPlace DEF AllInv, Leaving, InSuspension
<1>7. at'[t] # "place"
  BY <1>1 DEF DelayEnds, HeapSuspends, vTaskYield, vTaskDelay, vTaskSuspendAll, Begin, control, Goes,
              AllInv, ControlInv, PlaceInv
<1>8. InheritorAt(t)' /\ \A q \in Mutexes : Keeps(t, q)
  BY <1>1, <1>5, <1>6, <1>7 DEF Keeps, InheritorAt, Lends
<1>9. QED
  BY <1>1, <1>2, <1>3, <1>4, <1>6, <1>8, OrdinaryLends DEF LeavesWaits, LendInv

\* A step in a call: who lent a priority still does, unless it gives its wait up.
LEMMA MoveLends ==
  ASSUME AllInv, LendInv, NEW t \in Task, Runs(t), SameHolders, WaitersKept, Wakes, OnlyOf(t),
         TimeStill, UNCHANGED <<xItemValue, call, xInheritanceOccurred>>,
         \A u \in Task : u # t => left'[u] = left[u] /\ xEntryTimeSet'[u] = xEntryTimeSet[u],
         xEntryTimeSet[t] => xEntryTimeSet'[t] /\ left'[t] = left[t],
         at[t] \in Leaving => UNCHANGED <<left, xEntryTimeSet, xTicksToWait>>,
         at[t] # "place",
         at'[t] = "place" => call[t].queue \notin Mutexes,
         \A q \in Mutexes : ~Free(q) /\ Lends(t, q) /\ LooksAgain(t) => LooksAgain(t)'
  PROVE  LendInv'
<1>1. \A u \in Task : u # t => Undisturbed(u)
  BY DEF Undisturbed
<1>2. \A u \in Task : u # t => at[u] # "place"
  BY OneAtPlace DEF InSuspension
<1>3. InheritorAt(t)'
  BY DEF InheritorAt, LendInv
<1>4. t \in OnEvent => Undisturbed(t) /\ UNCHANGED <<call[t], xTicksToWait[t]>>
  BY AwakeRuns DEF AllInv, Undisturbed
<1>5. \A q \in Mutexes : at'[t] = "place" => ~Wants(t, q)'
  BY DEF Wants
<1>6. ASSUME NEW q \in Mutexes, ~Free(q), Lends(t, q) PROVE Lends(t, q)'
  <2>1. xEntryTimeSet[t] /\ left'[t] = left[t]
    BY <1>6, Lender
  <2>2. t \in Ready => t \in Ready'
    BY DEF Wakes, Ready
  <2>3. Range(Waiters(q)') = Range(Waiters(q))
    BY DEF WaitersKept
  <2>4. QED
    BY <1>6, <2>1, <2>2, <2>3 DEF Lends, Wants
<1>7. \A q \in Mutexes : Keeps(t, q)
  BY <1>5, <1>6 DEF Keeps
<1>8. QED
  BY <1>1, <1>2, <1>3, <1>4, <1>7, OrdinaryLends DEF LeavesWaits, LendInv

\* The steps of a call towards its wait, and its last look.
LEMMA WaitLends ==
  ASSUME AllInv, LendInv, NEW t \in Task,
         \/ EntersWait(t) \/ Suspends(t) \/ prvLockQueue(t) \/ CheckForTimeOut(t) \/ Looks(t)
         \/ ExpiredLooks(t)
  PROVE  LendInv'
<1>1. /\ Runs(t) /\ at[t] \in {"enter", "suspend", "lock", "check", "test", "expired"}
      /\ TimeStill /\ UNCHANGED <<xItemValue, call, xInheritanceOccurred>>
  BY DEF EntersWait, Suspends, prvLockQueue, CheckForTimeOut, Looks, ExpiredLooks, TimeStill, clock,
         StepUnchanged, vTaskSuspendAll, queueVars, waits
<1>2. SameHolders /\ WaitersKept /\ OnlyOf(t)
  BY WaitPriority
<1>3. Wakes
  BY WaitControl, LookControl DEF AllInv
<1>4. /\ left \in [Task -> Int] /\ xEntryTimeSet \in [Task -> BOOLEAN]
      /\ xTicksToWait \in [Task -> TickType] /\ at \in [Task -> Places]
      /\ then \in [Task -> {"none", "sleep", "hold"} \cup InTurn] /\ then[t] = "none"
  BY <1>1, Whereabouts, FollowUpsAre DEF AllInv, TimeInv, ClockInv, InWait
<1>5. /\ \A u \in Task : u # t => left'[u] = left[u] /\ xEntryTimeSet'[u] = xEntryTimeSet[u]
      /\ xEntryTimeSet[t] => xEntryTimeSet'[t] /\ left'[t] = left[t]
  BY <1>4 DEF EntersWait, Suspends, prvLockQueue, CheckForTimeOut, Looks, ExpiredLooks, StepUnchanged,
              queueVars, waits
<1>6. at'[t] = "place" => call[t].queue \notin Mutexes
  BY <1>1, <1>4 DEF EntersWait, Suspends, prvLockQueue, CheckForTimeOut, Looks, ExpiredLooks, vTaskSuspendAll,
              Goes, Mutexes
<1>7. ASSUME NEW q \in Mutexes, ~Free(q), Lends(t, q), LooksAgain(t) PROVE LooksAgain(t)'
  <2>1. /\ call[t].op = "take" /\ Stuck(t)
    BY <1>1, <1>7, Lender
  <2>2. CASE EntersWait(t) \/ Suspends(t) \/ prvLockQueue(t) \/ Looks(t)
    <3>1. xTicksToWait' = xTicksToWait
      BY <2>2 DEF EntersWait, Suspends, prvLockQueue, Looks
    <3>2. QED
      BY <1>1, <1>4, <1>7, <2>2, <3>1 DEF LooksAgain, EntersWait, Suspends, prvLockQueue, Looks
  <2>3. CASE CheckForTimeOut(t)
    <3>1. xTicksToWait[t] > 0
      BY <2>3 DEF CheckForTimeOut, AllInv, TimeInv, WaitAt, InWait
    <3>2. CASE xTicksToWait' = xTicksToWait
      BY <3>1, <3>2 DEF LooksAgain
    <3>3. CASE then' = [then EXCEPT ![t] = "expire"]
      BY <1>4, <3>3 DEF LooksAgain
    <3>4. CASE /\ ~TimesOut(xTimeOut[t], xTicksToWait[t])
               /\ xTicksToWait' = [xTicksToWait EXCEPT ![t] = @ - Elapsed(xTimeOut[t])]
      <4>1. xTicksToWait[t] \in Int /\ Elapsed(xTimeOut[t]) \in Int
        BY <1>4, TickAssumption DEF TickType, Elapsed, TickMinus, AllInv, TimeInv, ClockInv
      <4>2. Elapsed(xTimeOut[t]) < xTicksToWait[t]
        BY <3>4, <4>1 DEF TimesOut
      <4>3. xTicksToWait'[t] > 0
        BY <1>4, <3>4, <4>1, <4>2
      <4>4. QED
        BY <4>3 DEF LooksAgain
    <3>5. QED
      BY <2>3, <3>2, <3>3, <3>4 DEF CheckForTimeOut
  <2>4. CASE ExpiredLooks(t)
    <3>1. at'[t] = "disinherit"
      BY <1>4, <2>1, <2>4 DEF ExpiredLooks, Goes
    <3>2. QED
      BY <3>1 DEF LooksAgain
  <2>5. QED
    BY <2>2, <2>3, <2>4
<1>8. at[t] \notin Leaving /\ at[t] # "place"
  BY <1>1 DEF Leaving
<1>9. QED
  BY <1>1, <1>2, <1>3, <1>5, <1>6, <1>7, <1>8, MoveLends

\* The way out of a suspension.
LEMMA LeaveLends ==
  ASSUME AllInv, LendInv, NEW t \in Task,
         \/ prvUnlockQueue(t) \/ prvUnlockQueueRx(t)
         \/ UNCHANGED queueVars /\ (xTaskResumeAll(t) \/ ResumeEnds(t) \/ portYIELD_WITHIN_API(t))
  PROVE  LendInv'
<1>1. /\ Runs(t) /\ at[t] \in {"unlock", "unlockRx", "resume", "ticks", "yield"}
      /\ TimeStill /\ UNCHANGED <<xItemValue, call, xInheritanceOccurred>>
      /\ UNCHANGED <<left, xEntryTimeSet, xTicksToWait>>
  BY DEF prvUnlockQueue, prvUnlockQueueRx, xTaskResumeAll, ResumeEnds, portYIELD_WITHIN_API, TimeStill, clock,
         StepUnchanged, queueVars, waits
<1>2. SameHolders /\ WaitersKept /\ OnlyOf(t)
  BY UnlockPriority, ResumePriority
<1>3. Wakes
  BY UnlockControl, ResumeControl, EndControl DEF AllInv
<1>4. /\ at \in [Task -> Places] /\ then \in [Task -> {"none", "sleep", "hold"} \cup InTurn]
      /\ then[t] \in FollowUps(at[t])
  BY <1>1, Whereabouts DEF AllInv
<1>5. ASSUME LooksAgain(t) PROVE LooksAgain(t)'
  <2>1. CASE xTicksToWait[t] > 0
    BY <1>1, <2>1 DEF LooksAgain
  <2>2. CASE then[t] = "expire"
    <3>1. at[t] # "yield"
      BY <1>4, <2>2, FollowUpsAre
    <3>2. CASE prvUnlockQueue(t) \/ prvUnlockQueueRx(t) \/ xTaskResumeAll(t)
      BY <2>2, <3>2 DEF prvUnlockQueue, prvUnlockQueueRx, xTaskResumeAll, LooksAgain
    <3>3. CASE ResumeEnds(t)
      BY <1>4, <2>2, <3>3, ContinuesTo DEF ResumeEnds, Goes, LooksAgain
    <3>4. QED
      BY <3>1, <3>2, <3>3 DEF portYIELD_WITHIN_API
  <2>3. QED
    BY <1>1, <1>5, <2>1, <2>2 DEF LooksAgain
<1>6. at'[t] # "place"
  BY <1>4, ContinuesTo DEF prvUnlockQueue, prvUnlockQueueRx, xTaskResumeAll, ResumeEnds, portYIELD_WITHIN_API, Goes,
              FollowUps, InTurn
<1>7. QED
  BY <1>1, <1>2, <1>3, <1>5, <1>6, MoveLends

\* Interrupts that are not ticks, and context switches.
LEMMA StayLends ==
  ASSUME AllInv, LendInv,
         \/ \E q \in use.isr : xQueueGiveFromISR(q)
         \/ UNCHANGED queueVars /\ vTaskSwitchContext
  PROVE  LendInv'
<1>1. /\ UNCHANGED <<control, xItemValue, xEntryTimeSet, xInheritanceOccurred, call>> /\ TimeStill
  BY DEF xQueueGiveFromISR, vTaskSwitchContext, TimeStill, clock, queueVars, waits
<1>2. SameHolders /\ WaitersKept
  BY GivePriority, SwitchPriority
<1>3. Wakes
  BY GiveControl, SwitchControl DEF AllInv
<1>4. PICK t \in Task : \A u \in Task : u # t => at[u] # "place"
  BY DEF AllInv, ControlInv, RunInv, InSuspension
<1>5. OnlyOf(t) /\ \A u \in Task : Undisturbed(u)
  BY <1>1 DEF OnlyOf, Undisturbed, control
<1>6. InheritorAt(t)'
  BY <1>1 DEF LendInv, InheritorAt
<1>7. ASSUME NEW q \in Mutexes, Lends(t, q) PROVE Lends(t, q)'
  <2>1. t \in Ready => t \in Ready'
    BY <1>3 DEF Wakes, Ready
  <2>2. Range(Waiters(q)') = Range(Waiters(q))
    BY <1>2 DEF WaitersKept
  <2>3. QED
    BY <1>1, <1>7, <2>1, <2>2 DEF Lends, Wants, LooksAgain, control
<1>8. \A q \in Mutexes : Keeps(t, q)
  BY <1>1, <1>5, <1>7 DEF Keeps, control
<1>9. QED
  BY <1>1, <1>2, <1>3, <1>4, <1>5, <1>6, <1>8, OrdinaryLends DEF LeavesWaits, LendInv, control

\* A delay: the task, which is in no call, enters a delayed list.
LEMMA DelayLends ==
  ASSUME AllInv, LendInv, NEW t \in Task, DelayAdds(t), UNCHANGED queueVars
  PROVE  LendInv'
<1>1. /\ Runs(t) /\ at[t] = "delay" /\ TimeStill
      /\ prvAddCurrentTaskToDelayedList(xTicksToWait[t], FALSE)
      /\ UNCHANGED <<event, xPendingReadyList, left, xEntryTimeSet, xInheritanceOccurred, call>>
      /\ at' = [at EXCEPT ![t] = "resume"]
  BY DEF DelayAdds, queueVars, waits, TimeStill, Goes
<1>2. SameHolders /\ WaitersKept /\ OnlyOf(t)
  BY IdlePriority
<1>3. t \notin Blocked /\ t \notin OnEvent /\ t = pxCurrentTCB
  BY <1>1, AwakeRuns DEF AllInv, Leaving, Runs
<1>4. /\ ListsApart' /\ Ready' = Ready \ {t}
      /\ \A u \in Task : u # t =>
            /\ u \in pxDelayedTaskList' <=> u \in pxDelayedTaskList
            /\ u \in pxOverflowDelayedTaskList' <=> u \in pxOverflowDelayedTaskList
  BY <1>1, <1>3, AddApart DEF LendInv
<1>5. \A u \in Task : u # t => xItemValue'[u] = xItemValue[u]
  BY <1>1, <1>3 DEF prvAddCurrentTaskToDelayedList, AllInv, TimeInv, ClockInv
<1>6. \A u : u \in OnEvent' <=> u \in OnEvent
  BY <1>1, OnEventIs
<1>7. ASSUME NEW u \in Task PROVE TimelyAt(u)' /\ InheritorAt(u)'
  <2>1. TimelyAt(u) /\ InheritorAt(u)
    BY DEF LendInv
  <2>2. InheritorAt(u)'
    BY <1>1, <2>1 DEF InheritorAt
  <2>3. CASE u = t
    BY <1>3, <1>6, <2>2, <2>3 DEF TimelyAt
  <2>4. CASE u # t
    <3>1. Ahead(u)' = Ahead(u)
      BY <1>1, <1>5, <2>4 DEF Ahead, TimeStill
    <3>2. QED
      BY <1>1, <1>2, <1>4, <1>6, <2>1, <2>2, <2>4, <3>1 DEF TimelyAt, OnlyOf
  <2>5. QED
    BY <2>3, <2>4
<1>8. call[t] = NoCall
  BY <1>1 DEF AllInv, PriorityInv, CallerAt
<1>9. ASSUME NEW q \in Mutexes PROVE LentAt(q)'
  <2>1. LentAt(q) /\ (Free(q)' <=> Free(q)) /\ pxMutexHolder' = pxMutexHolder /\ uxPriority' = uxPriority
        /\ Range(Waiters(q)') = Range(Waiters(q)) /\ \A u : Wants(u, q)' <=> Wants(u, q)
    BY <1>1, <1>2 DEF LendInv, SameHolders, Free, WaitersKept, Wants
  <2>2. \A u \in Task : at'[u] = "place" <=> at[u] = "place"
    BY <1>1, <1>2 DEF OnlyOf, AllInv, ControlInv, PlaceInv
  <2>3. ASSUME NEW u \in Task, Lends(u, q) PROVE Lends(u, q)'
    <3>1. u # t
      BY <1>8, <2>3 DEF Lends, Wants, NoCall
    <3>2. LooksAgain(u)' <=> LooksAgain(u)
      BY <1>2, <3>1 DEF OnlyOf, LooksAgain
    <3>3. QED
      BY <1>1, <1>4, <2>1, <2>2, <2>3, <3>1, <3>2 DEF Lends
  <2>4. QED
    BY <1>1, <2>1, <2>2, <2>3 DEF LentAt
<1>10. QED
  BY <1>1, <1>4, <1>7, <1>9 DEF LendInv

\* A mutex is taken: whoever takes it outranks, with the priority of its own, those that wait.
LEMMA TakeLends ==
  ASSUME AllInv, LendInv, PriorityInv', NEW t \in Task, TakeProceeds(t), call[t].queue \in Mutexes
  PROVE  LendInv'
<1>0. PICK z \in Mutexes : z = call[t].queue
  OBVIOUS
<1>1. /\ Runs(t) /\ at[t] = "enter" /\ Returns(t) /\ call[t].op = "take" /\ Wants(t, z)
      /\ pxMutexHolder' = [pxMutexHolder EXCEPT ![z] = t]
      /\ event' = [event EXCEPT ![Senders(z)] = Without(@, Firsts(Senders(z), 1))]
      /\ uxPriority' = uxPriority
  BY <1>0 DEF TakeProceeds, Proceeds, xTaskRemoveFromEventList, Mutexes, Wants
<1>2. HolderInv /\ z \in Queue /\ t # NoHolder
  BY MutexAssumption DEF AllInv, PriorityInv, Mutexes
<1>3. uxPriority[t] = uxBasePriority[t]
  BY <1>1, TakersPriority DEF AllInv
<1>4. OnlyOf(t) /\ Wakes
  BY <1>1, ReturnsOnly, ProceedsControl DEF AllInv
<1>5. /\ xInheritanceOccurred' \in [Task -> BOOLEAN] /\ ~xInheritanceOccurred'[t] /\ call'[t] = NoCall
      /\ \A u \in Task : u # t => Undisturbed(u)
      /\ TimeStill /\ at'[t] = "out"
  BY <1>1 DEF Returns, LendInv, AllInv, CallInv, TimeInv, ClockInv, ControlInv, PlaceInv, Undisturbed,
              TimeStill, clock, Goes
<1>6. t \notin OnEvent /\ \A u \in Task : u # t => at[u] # "place"
  BY <1>1, AwakeRuns, OneAtPlace DEF AllInv, Leaving, InSuspension
<1>7. LeavesWaits(t)
  BY <1>4, <1>5, <1>6 DEF LeavesWaits, InheritorAt
<1>8. \A q \in Mutexes : Waiters(q)' = Waiters(q) /\ Range(Waiters(q)) \subseteq Task
  <2> SUFFICES ASSUME NEW q \in Mutexes PROVE Waiters(q)' = Waiters(q) /\ Range(Waiters(q)) \subseteq Task
    OBVIOUS
  <2>1. Receivers(q) \in EventList /\ Receivers(q) # Senders(z) /\ Range(Waiters(q)) \subseteq Task
    BY WaitersAre DEF AllInv, ControlInv, Receivers, Senders
  <2>2. QED
    BY <1>1, <2>1 DEF Waiters, AllInv, ControlInv, ListInv
<1>9. ASSUME NEW q \in Mutexes, q # z PROVE LentAt(q)'
  <2>1. SameMutex(q)
    BY <1>1, <1>2, <1>8, <1>9 DEF SameMutex, HolderInv, Mutexes
  <2>2. ~Wants(t, q)
    BY <1>1, <1>9 DEF Wants
  <2>3. Keeps(t, q)
    BY <1>5, <2>2 DEF Keeps, Lends
  <2>4. QED
    BY <1>6, <1>7, <2>1, <2>3, OrdinaryLent
<1>10. LentAt(z)'
  <2>1. pxMutexHolder'[z] = t /\ ~Free(z)'
    BY <1>1, <1>2 DEF HolderInv, Free
  <2>2. ASSUME NEW u \in Task, Wants(u, z)', u \in Range(Waiters(z)') \/ at'[u] = "place"
        PROVE  uxBasePriority[u] <= uxBasePriority[t]
    <3>1. u # t
      BY <1>5, <2>2 DEF Wants, NoCall
    <3>2. at'[u] # "place"
      BY <1>4, <1>6, <3>1 DEF OnlyOf
    <3>3. QED
      BY <1>1, <1>3, <2>1, <2>2, <3>2 DEF PriorityInv, WaitersAt
  <2>3. QED
    BY <1>1, <1>3, <2>1, <2>2 DEF LentAt
<1>11. QED
  BY <1>5, <1>7, <1>9, <1>10, OrdinaryTimely DEF LendInv

\* A mutex is given: it is free, and its holder had no other.
LEMMA GiveLends ==
  ASSUME AllInv, LendInv, NEW t \in Task, MutexGiveProceeds(t)
  PROVE  LendInv'
<1>0. PICK z \in Queue : z = call[t].queue
  BY Caller DEF MutexGiveProceeds, Proceeds, InCall, AllInv
<1>1. /\ Runs(t) /\ at[t] = "enter" /\ Returns(t) /\ call[t].op = "give" /\ z \in Mutexes
      /\ pxMutexHolder' = [pxMutexHolder EXCEPT ![z] = NoHolder]
      /\ event' = [event EXCEPT ![Receivers(z)] = Without(@, Firsts(Receivers(z), 1))]
      /\ uxPriority' = Disinherited(t)
  BY <1>0 DEF MutexGiveProceeds, Proceeds, xTaskRemoveFromEventList, Mutexes
<1>2. HolderInv /\ CallerAt(t) /\ call[t] # NoCall
  BY <1>1 DEF AllInv, PriorityInv, NoCall
<1>3. pxMutexHolder[z] = t /\ t # NoHolder
  BY <1>0, <1>1, <1>2, MutexAssumption DEF CallerAt
<1>4. OnlyOf(t) /\ Wakes
  BY <1>1, ReturnsOnly, ProceedsControl DEF AllInv
<1>5. /\ xInheritanceOccurred' \in [Task -> BOOLEAN] /\ ~xInheritanceOccurred'[t] /\ call'[t] = NoCall
      /\ \A u \in Task : u # t => Undisturbed(u)
      /\ TimeStill /\ at'[t] = "out"
  BY <1>1 DEF Returns, LendInv, AllInv, CallInv, TimeInv, ClockInv, ControlInv, PlaceInv, Undisturbed,
              TimeStill, clock, Goes
<1>6. t \notin OnEvent /\ \A u \in Task : u # t => at[u] # "place"
  BY <1>1, AwakeRuns, OneAtPlace DEF AllInv, Leaving, InSuspension
<1>7. LeavesWaits(t)
  BY <1>4, <1>5, <1>6 DEF LeavesWaits, InheritorAt
<1>8. ASSUME NEW q \in Mutexes, q # z PROVE LentAt(q)'
  <2>1. Receivers(q) \in EventList /\ Receivers(q) # Receivers(z)
    BY <1>8, WaitersAre DEF AllInv, ControlInv, Receivers
  <2>2. Waiters(q)' = Waiters(q)
    BY <1>1, <2>1 DEF Waiters, AllInv, ControlInv, ListInv
  <2>3. pxMutexHolder'[q] = pxMutexHolder[q] /\ (~Free(q) => pxMutexHolder[q] # t)
    BY <1>1, <1>2, <1>3, <1>8 DEF HolderInv, Mutexes
  <2>4. ~Free(q) => uxPriority'[pxMutexHolder[q]] = uxPriority[pxMutexHolder[q]]
    BY <1>1, <1>2, <2>3 DEF Disinherited, HolderInv
  <2>5. SameMutex(q)
    BY <2>2, <2>3, <2>4 DEF SameMutex
  <2>6. Keeps(t, q)
    BY <1>1, <1>5 DEF Keeps, Lends, Wants
  <2>7. QED
    BY <1>6, <1>7, <2>5, <2>6, OrdinaryLent
<1>9. LentAt(z)'
  BY <1>1, <1>2 DEF LentAt, Free, HolderInv, Mutexes
<1>10. QED
  BY <1>5, <1>7, <1>8, <1>9, OrdinaryTimely DEF LendInv

\* A wait has timed out: the holder keeps what the first that still waits lends.
LEMMA DisinheritLends ==
  ASSUME AllInv, LendInv, NEW t \in Task, DisinheritAfterTimeout(t), ~Free(call[t].queue)
  PROVE  LendInv'
<1>0. PICK z \in Mutexes : z = call[t].queue
  <2>1. call[t].queue \in Queue
    BY Caller DEF DisinheritAfterTimeout, InCall, AllInv
  <2>2. QED
    BY <2>1 DEF AllInv, PriorityInv, HolderInv
<1>1. PICK h : h = pxMutexHolder[z]
  OBVIOUS
<1> DEFINE p == IF uxBasePriority[h] < WaitingPriority(z) THEN WaitingPriority(z) ELSE uxBasePriority[h]
<1>2. /\ Runs(t) /\ at[t] = "disinherit" /\ Returns(t) /\ ~Free(z)
      /\ UNCHANGED <<lists, event, xPendingReadyList, pxMutexHolder>>
      /\ uxPriority' = IF h # NoHolder /\ uxMutexesHeld[h] = 1 THEN [uxPriority EXCEPT ![h] = p] ELSE uxPriority
  BY <1>0, <1>1 DEF DisinheritAfterTimeout
<1>3. HolderInv /\ CallerAt(t) /\ call[t] # NoCall /\ z \in Queue
  BY <1>2, Caller DEF AllInv, PriorityInv, InCall, Mutexes
<1>4. call[t].op = "take" /\ Wants(t, z)
  BY <1>0, <1>2, <1>3 DEF CallerAt, Wants
<1>5. h \in Task /\ h # NoHolder /\ uxMutexesHeld[h] = 1
  BY <1>1, <1>2, <1>3 DEF HolderInv, Free, Holds
<1>6. uxPriority' = [uxPriority EXCEPT ![h] = p] /\ uxPriority'[h] = p
  BY <1>2, <1>3, <1>5 DEF HolderInv
<1> HIDE DEF p
<1>7. OnlyOf(t) /\ Wakes
  BY <1>2, ReturnsOnly, GivesUpControl DEF AllInv
<1>8. /\ xInheritanceOccurred' \in [Task -> BOOLEAN] /\ ~xInheritanceOccurred'[t] /\ call'[t] = NoCall
      /\ \A u \in Task : u # t => Undisturbed(u)
      /\ TimeStill /\ at'[t] = "out"
  BY <1>2 DEF Returns, LendInv, AllInv, CallInv, TimeInv, ClockInv, ControlInv, PlaceInv, Undisturbed,
              TimeStill, clock, Goes
<1>9. t \notin OnEvent /\ \A u \in Task : u # t => at[u] # "place"
  BY <1>2, AwakeRuns, OneAtPlace DEF AllInv, Leaving, InSuspension
<1>10. LeavesWaits(t)
  BY <1>7, <1>8, <1>9 DEF LeavesWaits, InheritorAt
<1>11. \A q \in Mutexes : Waiters(q)' = Waiters(q) /\ Range(Waiters(q)) \subseteq Task
  BY <1>2, WaitersAre DEF Waiters, AllInv, ControlInv
<1>12. ASSUME NEW q \in Mutexes, q # z PROVE LentAt(q)'
  <2>1. pxMutexHolder'[q] = pxMutexHolder[q] /\ (~Free(q) => pxMutexHolder[q] # h)
    BY <1>1, <1>2, <1>3, <1>12 DEF HolderInv, Mutexes
  <2>2. SameMutex(q)
    BY <1>3, <1>6, <1>11, <2>1 DEF SameMutex, HolderInv
  <2>3. Keeps(t, q)
    BY <1>4, <1>8, <1>12 DEF Keeps, Lends, Wants
  <2>4. QED
    BY <1>9, <1>10, <2>2, <2>3, OrdinaryLent
<1>13. LentAt(z)'
  <2>1. ~Free(z)' /\ pxMutexHolder'[z] = h /\ LentAt(z) /\ WaitersAt(z)
    BY <1>1, <1>2 DEF Free, LendInv, AllInv, PriorityInv
  <2>2. ASSUME NEW u \in Task, Wants(u, z)', u \in Range(Waiters(z)') \/ at'[u] = "place"
        PROVE  uxBasePriority[u] <= uxBasePriority[h] \/ xInheritanceOccurred'[u]
    <3>1. u # t
      BY <1>8, <2>2 DEF Wants, NoCall
    <3>2. at[u] # "place" /\ at'[u] = at[u] /\ Wants(u, z)
      BY <1>7, <1>9, <2>2, <3>1 DEF OnlyOf, Wants
    <3>3. QED
      BY <1>1, <1>2, <1>8, <1>11, <2>1, <2>2, <3>1, <3>2 DEF LentAt, Undisturbed
  <2>3. ASSUME p # uxBasePriority[h]
        PROVE  \E u \in Task : Lends(u, z)' /\ uxBasePriority[u] = p
    <3>1. uxBasePriority[h] < WaitingPriority(z) /\ p = WaitingPriority(z)
      BY <2>3 DEF p
    <3>2. Waiters(z) # <<>>
      BY <1>5, <3>1, TaskAssumption DEF WaitingPriority, Waiters
    <3>3. PICK u \in Range(Waiters(z)) : u = Head(Waiters(z))
      <4>1. Waiters(z) \in Seq(Task)
        BY WaitersAre DEF AllInv, ControlInv
      <4>2. QED
        BY <3>2, <4>1 DEF Range
    <3>4. p = uxPriority[u]
      BY <3>1, <3>2, <3>3 DEF WaitingPriority, Waiters
    <3>5. u \in Task /\ Wants(u, z) /\ u \in OnEvent
      <4>1. u \in OnEvent
        BY WaitersAre, OnEventIs DEF Waiters, AllInv, ControlInv
      <4>2. QED
        BY <1>11, <2>1, <4>1 DEF WaitersAt
    <3>6. u # t /\ uxPriority[u] = uxBasePriority[u]
      BY <1>9, <3>5, TakersPriority DEF AllInv
    <3>7. xInheritanceOccurred[u]
      <4>1. uxBasePriority[u] \in Nat /\ uxBasePriority[h] \in Nat
        BY <1>5, <3>5, TaskAssumption
      <4>2. uxBasePriority[u] <= uxBasePriority[h] \/ xInheritanceOccurred[u]
        BY <1>1, <1>2, <2>1, <3>5 DEF LentAt
      <4>3. QED
        BY <3>1, <3>4, <3>6, <4>1, <4>2
    <3>8. Lends(u, z)'
      BY <1>7, <1>8, <1>11, <3>5, <3>6, <3>7 DEF Lends, Wants, OnlyOf, Undisturbed
    <3>9. QED
      BY <3>4, <3>5, <3>6, <3>8
  <2>4. QED
    BY <1>6, <2>1, <2>2, <2>3 DEF LentAt
<1>14. QED
  BY <1>8, <1>10, <1>12, <1>13, OrdinaryTimely DEF LendInv

\* A task that is about to wait lends its priority to the holder, if it outranks what that has
\* been given or its own.
LEMMA InheritLends ==
  ASSUME AllInv, LendInv, NEW t \in Task, xTaskPriorityInherit(t)
  PROVE  LendInv'
<1>0. PICK z : z = call[t].queue
  OBVIOUS
<1>1. PICK h : h = pxMutexHolder[z]
  OBVIOUS
<1>2. /\ Runs(t) /\ at[t] = "inherit" /\ at' = [at EXCEPT ![t] = "place"]
      /\ uxPriority' = IF uxPriority[h] < uxPriority[t] THEN [uxPriority EXCEPT ![h] = uxPriority[t]]
                       ELSE uxPriority
      /\ xInheritanceOccurred' = [xInheritanceOccurred EXCEPT ![t] =
                                      uxPriority[h] < uxPriority[t] \/ uxBasePriority[h] < uxPriority[t]]
      /\ UNCHANGED <<pxMutexHolder, call, then, event, lists, xPendingReadyList>>
      /\ UNCHANGED <<xTicksToWait, left, xItemValue, xEntryTimeSet, xTickCount, uxPendedTicks>>
  BY <1>0, <1>1 DEF xTaskPriorityInherit, StepUnchanged, Goes
<1>3. /\ z \in Mutexes /\ z \in Queue /\ call[t].op = "take" /\ ~Free(z) /\ Wants(t, z)
  <2>1. call[t] # NoCall /\ CallerAt(t) /\ z \in Queue
    BY <1>0, <1>2, Caller DEF InCall, InWait
  <2>2. QED
    BY <1>0, <1>2, <2>1 DEF CallerAt, Wants
<1>4. HolderInv /\ t \in Task
  BY DEF AllInv, PriorityInv
<1>5. h \in Task /\ h # t /\ uxPriority[t] = uxBasePriority[t]
  <2>1. ~Holds(t) /\ uxPriority[t] = uxBasePriority[t]
    BY <1>3, TakersPriority DEF AllInv
  <2>2. h \in Task
    BY <1>1, <1>3, <1>4 DEF HolderInv, Free
  <2>3. QED
    BY <1>1, <1>3, <2>1, <2>2 DEF Holds
<1>6. /\ \A u \in Task : u # h => uxPriority'[u] = uxPriority[u]
      /\ uxPriority'[h] = IF uxPriority[h] < uxPriority[t] THEN uxPriority[t] ELSE uxPriority[h]
      /\ uxBasePriority[h] <= uxPriority[h] /\ uxBasePriority[h] \in Nat /\ uxPriority[h] \in Nat
      /\ uxPriority[t] \in Nat
  BY <1>2, <1>4, <1>5, TaskAssumption DEF HolderInv
<1>7. /\ xInheritanceOccurred' \in [Task -> BOOLEAN]
      /\ \A u \in Task : u # t => xInheritanceOccurred'[u] = xInheritanceOccurred[u]
      /\ uxBasePriority[h] < uxBasePriority[t] => xInheritanceOccurred'[t]
  BY <1>2, <1>4, <1>5 DEF LendInv
<1>8. ListsApart'
  BY <1>2 DEF LendInv, ListsApart, lists
<1>9. ASSUME NEW u \in Task PROVE TimelyAt(u)' /\ InheritorAt(u)'
  <2>1. TimelyAt(u) /\ InheritorAt(u)
    BY DEF LendInv
  <2>2. TimelyAt(u)'
    <3>1. u \in OnEvent' <=> u \in OnEvent
      BY <1>2, OnEventIs
    <3>2. QED
      BY <1>2, <2>1, <3>1 DEF TimelyAt, Ahead, lists
  <2>3. xEntryTimeSet[t]
    BY <1>2 DEF AllInv, TimeInv, WaitAt, InWait
  <2>4. InheritorAt(u)'
    BY <1>0, <1>2, <1>3, <1>7, <2>1, <2>3 DEF InheritorAt
  <2>5. QED
    BY <2>2, <2>4
<1>10. \A q : /\ Waiters(q)' = Waiters(q) /\ (Free(q)' <=> Free(q))
              /\ \A u : Wants(u, q)' <=> Wants(u, q)
  BY <1>2 DEF Waiters, Wants, Free
<1>11. /\ at'[t] = "place" /\ \A u \in Task : u # t => at'[u] = at[u] /\ at[u] # "place"
  BY <1>2, OneAtPlace DEF AllInv, ControlInv, PlaceInv, InSuspension
<1>12. Ready' = Ready
  BY <1>2 DEF Ready, Blocked, lists
<1>13. ASSUME NEW q \in Mutexes, NEW u \in Task, u # t, Lends(u, q) PROVE Lends(u, q)'
  BY <1>2, <1>7, <1>10, <1>11, <1>12, <1>13 DEF Lends, LooksAgain
<1>14. t \notin Range(Waiters(z))
  <2>1. t \notin OnEvent
    BY <1>2, AwakeRuns DEF AllInv, Leaving
  <2>2. QED
    BY <1>3, <2>1, WaitersAre, OnEventIs DEF Waiters, AllInv, ControlInv
<1>15. ASSUME NEW q \in Mutexes, q # z PROVE LentAt(q)'
  <2>1. LentAt(q) /\ ~Wants(t, q)
    BY <1>3, <1>15 DEF LendInv, Wants
  <2>2. ~Free(q) => pxMutexHolder[q] \in Task /\ pxMutexHolder[q] # h
    BY <1>1, <1>3, <1>4, <1>15 DEF HolderInv, Free, Mutexes
  <2>3. ASSUME NEW u \in Task, ~Free(q), Wants(u, q), u \in Range(Waiters(q)) \/ at'[u] = "place"
        PROVE  uxBasePriority[u] <= uxBasePriority[pxMutexHolder[q]] \/ xInheritanceOccurred'[u]
    BY <1>7, <1>11, <2>1, <2>3 DEF LentAt
  <2>4. ASSUME ~Free(q), uxPriority'[pxMutexHolder[q]] # uxBasePriority[pxMutexHolder[q]]
        PROVE  \E u \in Task : Lends(u, q)' /\ uxBasePriority[u] = uxPriority'[pxMutexHolder[q]]
    <3>1. uxPriority'[pxMutexHolder[q]] = uxPriority[pxMutexHolder[q]]
      BY <1>6, <2>2, <2>4
    <3>2. PICK u \in Task : Lends(u, q) /\ uxBasePriority[u] = uxPriority[pxMutexHolder[q]]
      BY <2>1, <2>4, <3>1 DEF LentAt
    <3>3. u # t
      BY <2>1, <3>2 DEF Lends
    <3>4. QED
      BY <1>13, <3>1, <3>2, <3>3
  <2>5. QED
    BY <1>2, <1>10, <2>3, <2>4 DEF LentAt
<1>16. LentAt(z)'
  <2>1. LentAt(z) /\ pxMutexHolder'[z] = h /\ ~Free(z)'
    BY <1>1, <1>2, <1>3, <1>10 DEF LendInv
  <2>2. Lends(t, z)' <=> xInheritanceOccurred'[t]
    BY <1>3, <1>10, <1>11 DEF Lends
  <2>3. ASSUME NEW u \in Task, Wants(u, z), u \in Range(Waiters(z)) \/ at'[u] = "place"
        PROVE  uxBasePriority[u] <= uxBasePriority[h] \/ xInheritanceOccurred'[u]
    <3>1. CASE u = t
      BY <1>5, <1>6, <1>7, <3>1
    <3>2. CASE u # t
      BY <1>1, <1>3, <1>7, <1>11, <2>1, <2>3, <3>2 DEF LentAt
    <3>3. QED
      BY <3>1, <3>2
  <2>4. ASSUME uxPriority'[h] # uxBasePriority[h]
        PROVE  \E u \in Task : Lends(u, z)' /\ uxBasePriority[u] = uxPriority'[h]
    <3>1. CASE uxPriority[h] < uxPriority[t]
      <4>1. xInheritanceOccurred'[t] /\ uxBasePriority[t] = uxPriority'[h]
        BY <1>5, <1>6, <1>7, <3>1
      <4>2. QED
        BY <2>2, <4>1
    <3>2. CASE ~(uxPriority[h] < uxPriority[t])
      <4>1. uxPriority'[h] = uxPriority[h]
        BY <1>6, <3>2
      <4>2. PICK u \in Task : Lends(u, z) /\ uxBasePriority[u] = uxPriority[h]
        BY <1>1, <1>3, <2>1, <2>4, <4>1 DEF LentAt
      <4>3. CASE u # t
        BY <1>3, <1>13, <4>1, <4>2, <4>3
      <4>4. CASE u = t
        <5>1. uxBasePriority[h] < uxBasePriority[t]
          BY <1>5, <1>6, <2>4, <4>1, <4>2, <4>4
        <5>2. QED
          BY <1>7, <2>2, <4>1, <4>2, <4>4, <5>1
      <4>5. QED
        BY <4>3, <4>4
    <3>3. QED
      BY <3>1, <3>2
  <2>5. QED
    BY <1>10, <2>1, <2>3, <2>4 DEF LentAt
<1>17. QED
  BY <1>7, <1>8, <1>9, <1>15, <1>16 DEF LendInv

\* A task that enters an event list has the time it asked for ahead of it.
LEMMA PlaceTimely ==
  ASSUME AllInv, NEW t \in Task, Place(t)
  PROVE  TimelyAt(t)'
<1>1. /\ Runs(t) /\ at[t] = "place" /\ t = pxCurrentTCB
      /\ prvAddCurrentTaskToDelayedList(xTicksToWait[t], TRUE)
      /\ UNCHANGED <<xTicksToWait, left, xTickCount, uxPendedTicks>>
  BY DEF Place, vTaskPlaceOnEventList, StepUnchanged, Runs
<1>2. xTicksToWait[t] > 0 /\ xEntryTimeSet[t] /\ EarlyAt(t)
  BY <1>1 DEF AllInv, TimeInv, WaitAt, InWait
<1>3. /\ ClockInv /\ xTicksToWait[t] \in TickType /\ left[t] \in Int /\ uxPendedTicks \in Nat
      /\ xTickCount \in TickType /\ Elapsed(xTimeOut[t]) \in TickType
  BY Minus DEF AllInv, TimeInv, ClockInv, Elapsed
<1>4. t \notin pxDelayedTaskList /\ t \notin pxOverflowDelayedTaskList
  BY <1>1, AwakeRuns DEF AllInv, Leaving, Blocked
<1>5. CASE xTicksToWait[t] = portMAX_DELAY
  BY <1>1, <1>2, <1>4, <1>5 DEF prvAddCurrentTaskToDelayedList, TimelyAt
<1>6. CASE xTicksToWait[t] # portMAX_DELAY
  <2>1. Timed(t)
    BY <1>2, <1>3, <1>6 DEF Timed, TickType
  <2>2. left[t] <= xTicksToWait[t] - uxPendedTicks
    <3>1. left[t] <= Remaining(t) - (IF Wrapped(xTimeOut[t]) THEN TickModulus ELSE 0)
      BY <1>2, <2>1 DEF EarlyAt
    <3>2. QED
      BY <1>3, <3>1, TickAssumption DEF Remaining, TickType
  <2>3. left[t] < NoDeadline
    BY <1>3, <2>2, TickAssumption DEF NoDeadline, TickType
  <2>4. \/ t \in pxOverflowDelayedTaskList' /\ t \notin pxDelayedTaskList'
           /\ xItemValue'[t] = xTickCount + xTicksToWait[t] - TickModulus
        \/ t \in pxDelayedTaskList' /\ t \notin pxOverflowDelayedTaskList'
           /\ xItemValue'[t] = xTickCount + xTicksToWait[t]
    BY <1>1, <1>2, <1>3, <1>4, <1>6, AddsWake
  <2>5. Ahead(t)' = xItemValue'[t] - xTickCount - uxPendedTicks
    BY <1>1 DEF Ahead
  <2>6. QED
    BY <1>1, <1>2, <1>3, <2>2, <2>3, <2>4, <2>5, TickAssumption DEF TimelyAt, TickType
<1>7. QED
  BY <1>5, <1>6

\* Where the task is that waits for a mutex makes no difference to who lends.
LEMMA PlaceLends ==
  ASSUME AllInv, LendInv, NEW t \in Task, Place(t)
  PROVE  LendInv'
<1>0. PICK z : z = call[t].queue
  OBVIOUS
<1> DEFINE l == IF call[t].op = "send" THEN Senders(z) ELSE Receivers(z)
<1>1. /\ Runs(t) /\ at[t] = "place" /\ t = pxCurrentTCB /\ at' = [at EXCEPT ![t] = "unlock"]
      /\ event' = [event EXCEPT ![l] = InOrder(@, t)]
      /\ then' = [then EXCEPT ![t] = "block"]
      /\ prvAddCurrentTaskToDelayedList(xTicksToWait[t], TRUE)
      /\ UNCHANGED <<pxMutexHolder, uxPriority, call, xPendingReadyList>>
      /\ UNCHANGED <<xTicksToWait, left, xEntryTimeSet, xTickCount, uxPendedTicks, xInheritanceOccurred>>
  BY <1>0 DEF Place, vTaskPlaceOnEventList, StepUnchanged, Goes, Runs
<1>2. z \in Queue /\ call[t].op \in OpsOf(z) /\ CallerAt(t) /\ call[t] # NoCall
  BY <1>0, <1>1, Caller DEF InCall, InWait
<1>3. t \notin Blocked /\ t \notin OnEvent
  BY <1>1, AwakeRuns DEF AllInv, Leaving
<1>4. /\ ListsApart' /\ Ready' = Ready \ {t}
      /\ \A u \in Task : u # t =>
            /\ u \in pxDelayedTaskList' <=> u \in pxDelayedTaskList
            /\ u \in pxOverflowDelayedTaskList' <=> u \in pxOverflowDelayedTaskList
  BY <1>1, <1>3, AddApart DEF LendInv
<1>5. \A u \in Task : u # t => /\ xItemValue'[u] = xItemValue[u]
                               /\ at'[u] = at[u] /\ then'[u] = then[u] /\ at[u] # "place"
  BY <1>1, OneAtPlace DEF prvAddCurrentTaskToDelayedList, AllInv, TimeInv, ClockInv, ControlInv, PlaceInv,
                          InSuspension
<1>6. event \in [EventList -> Seq(Task)] /\ l \in EventList
  BY <1>2, QueueAssumption DEF AllInv, ControlInv, ListInv, Receivers, Senders
<1>7. event' \in [EventList -> Seq(Task)] /\ \A m \in EventList :
          Range(event'[m]) \subseteq Range(event[m]) \cup (IF m = l THEN {t} ELSE {})
  <2>1. InOrder(event[l], t) \in Seq(Task) /\ Range(InOrder(event[l], t)) \subseteq Range(event[l]) \cup {t}
    BY <1>6, InOrderAdds
  <2> HIDE DEF l
  <2>2. QED
    BY <1>1, <1>6, <2>1
<1>8. \A u \in Task : u # t /\ u \in OnEvent' => u \in OnEvent
  BY <1>1, <1>7, OnEventIs
<1>9. ASSUME NEW u \in Task PROVE TimelyAt(u)' /\ InheritorAt(u)'
  <2>1. TimelyAt(u) /\ InheritorAt(u)
    BY DEF LendInv
  <2>2. InheritorAt(u)'
    BY <1>1, <2>1 DEF InheritorAt
  <2>3. CASE u = t
    BY <2>2, <2>3, PlaceTimely
  <2>4. CASE u # t
    <3>1. Ahead(u)' = Ahead(u)
      BY <1>1, <1>5, <2>4 DEF Ahead
    <3>2. QED
      BY <1>1, <1>4, <1>8, <2>1, <2>2, <2>4, <3>1 DEF TimelyAt
  <2>5. QED
    BY <2>3, <2>4
<1>10. \A q : (Free(q)' <=> Free(q)) /\ \A u : Wants(u, q)' <=> Wants(u, q)
  BY <1>1 DEF Free, Wants
<1>11. ASSUME NEW q \in Mutexes
       PROVE  /\ Waiters(q) \in Seq(Task) /\ Range(Waiters(q)) \subseteq Task
              /\ ~Wants(t, q) => Range(Waiters(q)') = Range(Waiters(q))
              /\ Wants(t, q) => Range(Waiters(q)') = Range(Waiters(q)) \cup {t}
  <2>1. Receivers(q) \in EventList /\ Waiters(q) \in Seq(Task) /\ Range(Waiters(q)) \subseteq Task
    BY WaitersAre DEF AllInv, ControlInv
  <2>2. ASSUME ~Wants(t, q) PROVE Waiters(q)' = Waiters(q)
    <3>1. l # Receivers(q)
      <4>1. CASE q # z
        BY <4>1 DEF Receivers, Senders
      <4>2. CASE q = z
        <5>1. call[t].op = "take"
          BY <1>0, <1>1, <1>2, <4>2 DEF CallerAt
        <5>2. QED
          BY <1>0, <2>2, <4>2, <5>1 DEF Wants
      <4>3. QED
        BY <4>1, <4>2
    <3> HIDE DEF l
    <3>2. QED
      BY <1>1, <1>6, <2>1, <3>1 DEF Waiters
  <2>3. ASSUME Wants(t, q) PROVE Range(Waiters(q)') = Range(Waiters(q)) \cup {t}
    <3>1. l = Receivers(q)
      BY <1>0, <2>3 DEF Wants
    <3>2. Waiters(q)' = InOrder(Waiters(q), t)
      BY <1>1, <1>6, <2>1, <3>1 DEF Waiters
    <3>3. WaitersAt(q)
      BY DEF AllInv, PriorityInv
    <3>4. \A u \in Range(Waiters(q)) \cup {t} : uxPriority[u] = uxBasePriority[u]
      BY <2>1, <2>3, <3>3, TakersPriority DEF AllInv, WaitersAt
    <3>5. QED
      BY <2>1, <3>2, <3>3, <3>4, InOrderSorted DEF WaitersAt
  <2>4. QED
    BY <2>1, <2>2, <2>3
<1>12. ASSUME NEW q \in Mutexes PROVE LentAt(q)'
  <2>1. LentAt(q)
    BY DEF LendInv
  <2>2. \A u \in Task : Wants(u, q) /\ (u \in Range(Waiters(q)') \/ at'[u] = "place") =>
                            u \in Range(Waiters(q)) \/ at[u] = "place"
    BY <1>1, <1>5, <1>11
  <2>3. ASSUME NEW u \in Task, Lends(u, q) PROVE Lends(u, q)'
    <3>1. CASE u = t
      BY <1>1, <1>10, <1>11, <2>3, <3>1 DEF Lends
    <3>2. CASE u # t
      BY <1>1, <1>4, <1>5, <1>10, <1>11, <2>3, <3>2 DEF Lends, LooksAgain
    <3>3. QED
      BY <3>1, <3>2
  <2>4. QED
    BY <1>1, <1>10, <2>1, <2>2, <2>3 DEF LentAt
<1>13. QED
  BY <1>1, <1>4, <1>9, <1>12 DEF LendInv

\* The tasks a tick wakes, and the lists after it.
LEMMA TickWakes ==
  ASSUME AllInv, LendInv, IncrementTick, UNCHANGED <<xSuspendedTaskList, xPendingReadyList>>,
         xPendingReadyList = {}, NEW u \in Task
  PROVE  LET tick == TickPlus(xTickCount, 1)
         IN  /\ u \in Due(tick) => u \in Ready'
             /\ u \in Due(tick) /\ u \in OnEvent => left[u] < NoDeadline /\ left[u] <= 1 - uxPendedTicks
             /\ \A q \in Mutexes : u \in Range(Waiters(q)) =>
                    u \in Due(tick) \/ u \in Range(Waiters(q)')
             /\ \A q \in Mutexes : u \in Range(Waiters(q)') => u \in Range(Waiters(q))
             /\ ListsApart'
<1> DEFINE tick == TickPlus(xTickCount, 1)
<1>1. xTickCount \in TickType /\ xItemValue[u] \in TickType /\ 1 \in TickType /\ uxPendedTicks \in Nat
      /\ left[u] \in Int
  BY TickAssumption DEF AllInv, TimeInv, ClockInv, TickType
<1>2. tick \in TickType /\ tick = IF xTickCount = TickModulus - 1 THEN 0 ELSE xTickCount + 1
  BY <1>1, Plus, TickAssumption DEF TickType
<1>3. /\ pxDelayedTaskList' = CurrentDelayed(tick) \ Due(tick)
      /\ pxOverflowDelayedTaskList' =
             IF tick = 0 THEN pxDelayedTaskList ELSE pxOverflowDelayedTaskList
      /\ event' = [l \in EventList |-> Without(event[l], Due(tick))]
  BY DEF IncrementTick
<1>4. Due(tick) \subseteq {t \in CurrentDelayed(tick) : xItemValue[t] <= tick}
  BY DEF Due
<1> HIDE DEF tick
<1>5. ListsApart'
  BY <1>3 DEF LendInv, ListsApart, CurrentDelayed
<1>6. u \in Due(tick) => u \in Ready'
  BY <1>3, <1>4 DEF LendInv, ListsApart, CurrentDelayed, Ready, Blocked
<1>7. ASSUME u \in Due(tick), u \in OnEvent
      PROVE  left[u] < NoDeadline /\ left[u] <= 1 - uxPendedTicks
  <2>1. TimelyAt(u)
    BY DEF LendInv
  <2>2. CASE tick = 0
    <3>1. u \in pxOverflowDelayedTaskList /\ xItemValue[u] <= 0 /\ xTickCount = TickModulus - 1
      BY <1>1, <1>2, <1>4, <1>7, <2>2 DEF CurrentDelayed, TickType
    <3>2. left[u] < NoDeadline /\ left[u] <= Ahead(u) + TickModulus
      BY <1>7, <2>1, <3>1 DEF TimelyAt
    <3>3. QED
      BY <1>1, <3>1, <3>2, TickAssumption DEF Ahead, TickType
  <2>3. CASE tick # 0
    <3>1. u \in pxDelayedTaskList /\ xItemValue[u] <= xTickCount + 1
      BY <1>1, <1>2, <1>4, <1>7, <2>3 DEF CurrentDelayed, TickType
    <3>2. left[u] < NoDeadline /\ left[u] <= Ahead(u)
      BY <1>7, <2>1, <3>1 DEF TimelyAt
    <3>3. QED
      BY <1>1, <3>1, <3>2 DEF Ahead, TickType
  <2>4. QED
    BY <2>2, <2>3
<1>8. ASSUME NEW q \in Mutexes
      PROVE  /\ u \in Range(Waiters(q)) => u \in Due(tick) \/ u \in Range(Waiters(q)')
             /\ u \in Range(Waiters(q)') => u \in Range(Waiters(q))
  <2>1. Receivers(q) \in EventList /\ Waiters(q) \in Seq(Task)
    BY WaitersAre DEF AllInv, ControlInv
  <2>2. Waiters(q)' = Without(Waiters(q), Due(tick))
    BY <1>3, <2>1 DEF Waiters
  <2>3. QED
    BY <2>1, <2>2, WithoutThins, WithoutKeeps
<1>9. QED
  BY <1>5, <1>6, <1>7, <1>8 DEF tick

\* A tick: whoever was woken by it from the list of a mutex has waited for as long as it asked.
LEMMA TickLends ==
  ASSUME AllInv, LendInv, UNCHANGED queueVars, SysTick \/ \E t \in Task : ResumeTick(t)
  PROVE  LendInv'
<1>1. /\ IncrementTick /\ uxSchedulerSuspended = 0
      /\ UNCHANGED <<xSuspendedTaskList, xPendingReadyList>>
      /\ UNCHANGED <<at, then, xTicksToWait, xItemValue, xEntryTimeSet, xInheritanceOccurred, call>>
      /\ UNCHANGED <<pxMutexHolder, uxPriority>>
  <2>1. CASE SysTick
    BY <2>1 DEF SysTick, queueVars, waits, priorities
  <2>2. CASE \E t \in Task : ResumeTick(t)
    BY <2>2, Whereabouts DEF ResumeTick, control, queueVars, waits, InSuspension, priorities, AllInv
  <2>3. QED
    BY <2>1, <2>2
<1>2. xPendingReadyList = {} /\ OnEvent' \subseteq OnEvent
  <2>1. OnEvent' \subseteq OnEvent
    BY TickControl DEF AllInv
  <2>2. QED
    BY <1>1, <2>1 DEF AllInv, ControlInv, ListInv
<1>3. uxPendedTicks \in Nat /\ left \in [Task -> Int] /\ xTickCount \in TickType
      /\ xItemValue \in [Task -> TickType]
  BY DEF AllInv, TimeInv, ClockInv
<1>4. \/ /\ uxPendedTicks' = uxPendedTicks /\ left' = OneTickLess
      \/ /\ uxPendedTicks > 0 /\ uxPendedTicks' = uxPendedTicks - 1 /\ left' = left
  BY DEF SysTick, ResumeTick, control
<1>5. ASSUME NEW u \in Task
      PROVE  /\ left'[u] \in Int /\ left'[u] <= left[u]
             /\ left[u] < NoDeadline => left'[u] + uxPendedTicks' = left[u] + uxPendedTicks - 1
             /\ uxPendedTicks' \in Nat
  BY <1>3, <1>4, TickAssumption DEF OneTickLess, NoDeadline
<1> DEFINE tick == TickPlus(xTickCount, 1)
<1>6. /\ ListsApart'
      /\ \A u \in Task :
            /\ u \in Due(tick) => u \in Ready'
            /\ u \in Due(tick) /\ u \in OnEvent => left[u] < NoDeadline /\ left[u] <= 1 - uxPendedTicks
            /\ \A q \in Mutexes : u \in Range(Waiters(q)) =>
                   u \in Due(tick) \/ u \in Range(Waiters(q)')
            /\ \A q \in Mutexes : u \in Range(Waiters(q)') => u \in Range(Waiters(q))
  <2>1. pxCurrentTCB \in Task
    BY DEF AllInv, CallInv
  <2>2. QED
    BY <1>1, <1>2, <2>1, TickWakes
<1>7. tick \in TickType /\ tick = IF xTickCount = TickModulus - 1 THEN 0 ELSE xTickCount + 1
  BY <1>3, Plus, TickAssumption DEF TickType
<1>8. /\ xTickCount' = tick
      /\ pxDelayedTaskList' \subseteq CurrentDelayed(tick)
      /\ pxOverflowDelayedTaskList' =
             IF tick = 0 THEN pxDelayedTaskList ELSE pxOverflowDelayedTaskList
  BY <1>1 DEF IncrementTick
<1> HIDE DEF tick
<1>9. ASSUME NEW u \in Task PROVE TimelyAt(u)' /\ InheritorAt(u)'
  <2>1. TimelyAt(u) /\ InheritorAt(u)
    BY DEF LendInv
  <2>2. InheritorAt(u)'
    BY <1>1, <2>1 DEF InheritorAt
  <2>3. xItemValue[u] \in TickType /\ left[u] \in Int
    BY <1>3
  <2>4. Ahead(u)' = xItemValue[u] - xTickCount' - uxPendedTicks'
    BY <1>1 DEF Ahead
  <2>5. CASE tick = 0
    <3>1. xTickCount = TickModulus - 1 /\ xTickCount' = 0
      BY <1>3, <1>7, <1>8, <2>5 DEF TickType
    <3>2. ASSUME u \in OnEvent', u \in pxDelayedTaskList'
          PROVE  left'[u] < NoDeadline /\ left'[u] <= Ahead(u)'
      <4>1. u \in OnEvent /\ u \in pxOverflowDelayedTaskList
        BY <1>2, <1>8, <2>5, <3>2 DEF CurrentDelayed
      <4>2. left[u] < NoDeadline /\ left[u] <= Ahead(u) + TickModulus
        BY <2>1, <4>1 DEF TimelyAt
      <4>3. QED
        BY <1>3, <1>5, <2>3, <2>4, <3>1, <4>2, TickAssumption DEF Ahead, NoDeadline, TickType
    <3>3. ASSUME u \in OnEvent', u \in pxOverflowDelayedTaskList'
          PROVE  left'[u] < NoDeadline /\ left'[u] <= Ahead(u)' + TickModulus
      <4>1. u \in OnEvent /\ u \in pxDelayedTaskList
        BY <1>2, <1>8, <2>5, <3>3
      <4>2. left[u] < NoDeadline /\ left[u] <= Ahead(u)
        BY <2>1, <4>1 DEF TimelyAt
      <4>3. QED
        BY <1>3, <1>5, <2>3, <2>4, <3>1, <4>2, TickAssumption DEF Ahead, NoDeadline, TickType
    <3>4. QED
      BY <1>1, <1>2, <2>1, <2>2, <3>2, <3>3 DEF TimelyAt
  <2>6. CASE tick # 0
    <3>1. xTickCount' = xTickCount + 1
      BY <1>7, <1>8, <2>6
    <3>2. ASSUME u \in OnEvent', u \in pxDelayedTaskList'
          PROVE  left'[u] < NoDeadline /\ left'[u] <= Ahead(u)'
      <4>1. u \in OnEvent /\ u \in pxDelayedTaskList
        BY <1>2, <1>8, <2>6, <3>2 DEF CurrentDelayed
      <4>2. left[u] < NoDeadline /\ left[u] <= Ahead(u)
        BY <2>1, <4>1 DEF TimelyAt
      <4>3. QED
        BY <1>3, <1>5, <2>3, <2>4, <3>1, <4>2, TickAssumption DEF Ahead, NoDeadline, TickType
    <3>3. ASSUME u \in OnEvent', u \in pxOverflowDelayedTaskList'
          PROVE  left'[u] < NoDeadline /\ left'[u] <= Ahead(u)' + TickModulus
      <4>1. u \in OnEvent /\ u \in pxOverflowDelayedTaskList
        BY <1>2, <1>8, <2>6, <3>3
      <4>2. left[u] < NoDeadline /\ left[u] <= Ahead(u) + TickModulus
        BY <2>1, <4>1 DEF TimelyAt
      <4>3. QED
        BY <1>3, <1>5, <2>3, <2>4, <3>1, <4>2, TickAssumption DEF Ahead, NoDeadline, TickType
    <3>4. QED
      BY <1>1, <1>2, <2>1, <2>2, <3>2, <3>3 DEF TimelyAt
  <2>7. QED
    BY <2>5, <2>6
<1>10. \A u \in Task : u \in Ready => u \in Ready'
  BY <1>1, <1>8 DEF Ready, Blocked, CurrentDelayed
<1>11. \A q : (Free(q)' <=> Free(q)) /\ \A u : Wants(u, q)' <=> Wants(u, q)
  BY <1>1 DEF Free, Wants
<1>12. ASSUME NEW q \in Mutexes, NEW u \in Task, Lends(u, q) PROVE Lends(u, q)'
  <2>1. LooksAgain(u)' <=> LooksAgain(u)
    BY <1>1 DEF LooksAgain
  <2>2. CASE u \in Range(Waiters(q)) /\ u \in Due(tick)
    <3>1. u \in OnEvent
      BY <2>2, WaitersAre, OnEventIs DEF Waiters, AllInv, ControlInv
    <3>2. left'[u] <= 0
      BY <1>3, <1>5, <1>6, <2>2, <3>1
    <3>3. LooksAgain(u)
      BY <3>1 DEF LooksAgain, LendInv, TimelyAt
    <3>4. QED
      BY <1>1, <1>6, <1>11, <1>12, <2>1, <2>2, <3>2, <3>3 DEF Lends
  <2>3. CASE u \in Range(Waiters(q)) /\ u \notin Due(tick)
    BY <1>1, <1>6, <1>11, <1>12, <2>3 DEF Lends
  <2>4. CASE u \notin Range(Waiters(q))
    <3>1. left[u] <= 0 => left'[u] <= 0
      BY <1>3, <1>5
    <3>2. QED
      BY <1>1, <1>10, <1>11, <1>12, <2>1, <2>4, <3>1 DEF Lends
  <2>5. QED
    BY <2>2, <2>3, <2>4
<1>13. ASSUME NEW q \in Mutexes PROVE LentAt(q)'
  <2>1. LentAt(q)
    BY DEF LendInv
  <2>2. QED
    BY <1>1, <1>6, <1>11, <1>12, <2>1 DEF LentAt
<1>14. QED
  BY <1>1, <1>6, <1>9, <1>13 DEF LendInv

\* A tick that is pended.
LEMMA PendLends ==
  ASSUME AllInv, LendInv, UNCHANGED queueVars, SysTickPended
  PROVE  LendInv'
<1>1. /\ UNCHANGED <<lists, event, xPendingReadyList, xTickCount>>
      /\ UNCHANGED <<at, then, xTicksToWait, xItemValue, xEntryTimeSet, xInheritanceOccurred, call>>
      /\ UNCHANGED <<pxMutexHolder, uxPriority>>
      /\ uxPendedTicks' = uxPendedTicks + 1 /\ left' = OneTickLess
  BY DEF SysTickPended, queueVars, waits, priorities, clock
<1>2. uxPendedTicks \in Nat /\ left \in [Task -> Int] /\ xTickCount \in TickType
      /\ xItemValue \in [Task -> TickType]
  BY DEF AllInv, TimeInv, ClockInv
<1>3. ASSUME NEW u \in Task
      PROVE  left'[u] <= left[u] /\ (left[u] < NoDeadline => left'[u] = left[u] - 1) /\ left'[u] \in Int
  BY <1>1, <1>2, TickAssumption DEF OneTickLess, NoDeadline
<1>4. ListsApart'
  BY <1>1 DEF LendInv, ListsApart, lists
<1>5. ASSUME NEW u \in Task PROVE TimelyAt(u)' /\ InheritorAt(u)'
  <2>1. TimelyAt(u) /\ InheritorAt(u)
    BY DEF LendInv
  <2>2. u \in OnEvent' <=> u \in OnEvent
    BY <1>1, OnEventIs
  <2>3. Ahead(u)' = Ahead(u) - 1 /\ Ahead(u) \in Int /\ left[u] \in Int
    BY <1>1, <1>2 DEF Ahead, TickType
  <2>4. TimelyAt(u)'
    BY <1>1, <1>3, <2>1, <2>2, <2>3, TickAssumption DEF TimelyAt, lists, NoDeadline
  <2>5. QED
    BY <1>1, <2>1, <2>4 DEF InheritorAt
<1>6. Ready' = Ready /\ \A q : Waiters(q)' = Waiters(q) /\ (Free(q)' <=> Free(q))
                               /\ \A u : Wants(u, q)' <=> Wants(u, q)
  BY <1>1 DEF Ready, Blocked, lists, Waiters, Free, Wants
<1>7. ASSUME NEW q \in Mutexes, NEW u \in Task, Lends(u, q) PROVE Lends(u, q)'
  <2>1. left[u] <= 0 => left'[u] <= 0
    BY <1>2, <1>3
  <2>2. QED
    BY <1>1, <1>6, <1>7, <2>1 DEF Lends, LooksAgain
<1>8. ASSUME NEW q \in Mutexes PROVE LentAt(q)'
  BY <1>1, <1>6, <1>7 DEF LentAt, LendInv
<1>9. QED
  BY <1>1, <1>4, <1>5, <1>8 DEF LendInv

-------------------------------------------------------------------------------
(***************************************************************************)
(* Nobody ready outranks the task that runs, or a switch is due.           *)
(***************************************************************************)

\* Who waited in vain holds no mutex, and its priority is its own.
LEMMA VainPriority ==
  ASSUME AllInv, LendInv, NEW w \in Task, WaitedInVain(w)
  PROVE  ~Holds(w) /\ uxPriority[w] = uxBasePriority[w]
<1>1. call[w].op = "take" /\ call[w].queue \in Mutexes
  BY DEF WaitedInVain, LendInv, InheritorAt
<1>2. Wants(w, call[w].queue)
  BY <1>1 DEF Wants
<1>3. QED
  BY <1>1, <1>2, TakersPriority DEF AllInv

\* The ready tasks after a step are no more in the way than before, or a switch is due.
LEMMA LevelKept ==
  ASSUME CallInv, HolderInv, HolderInv', Level \/ Switches, Switches => Switches',
         pxCurrentTCB' = pxCurrentTCB, uxPriority[pxCurrentTCB] <= uxPriority'[pxCurrentTCB],
         \A u \in Ready' : \/ u \in Ready /\ uxPriority'[u] <= uxPriority[u]
                           \/ uxPriority'[u] <= uxPriority'[pxCurrentTCB]
                           \/ Switches',
         \A w \in Ready : WaitedInVain(w) /\ w # pxCurrentTCB =>
             w \in Ready' /\ WaitedInVain(w)' /\ uxPriority[w] <= uxPriority'[w]
  PROVE  Level' \/ Switches'
<1> SUFFICES ASSUME ~Switches' PROVE Level'
  OBVIOUS
<1>1. Level
  OBVIOUS
<1>2. /\ uxPriority \in [Task -> Nat] /\ uxPriority' \in [Task -> Nat] /\ pxCurrentTCB \in Task
      /\ Ready \subseteq Task /\ Ready' \subseteq Task
  BY DEF HolderInv, CallInv, Ready
<1> SUFFICES ASSUME NEW u \in Ready', ~(uxPriority'[u] <= uxPriority'[pxCurrentTCB])
             PROVE  Excused(uxPriority[u])'
  BY <1>2 DEF Level, Excused
<1>3. u \in Ready /\ uxPriority'[u] <= uxPriority[u]
  OBVIOUS
<1>4. ~(uxPriority[u] <= uxPriority[pxCurrentTCB])
  BY <1>2, <1>3
<1>5. PICK w \in Ready : WaitedInVain(w) /\ uxPriority[u] <= uxPriority[w]
  BY <1>1, <1>3, <1>4 DEF Level, Excused
<1>6. w # pxCurrentTCB
  BY <1>4, <1>5
<1>7. w \in Ready' /\ WaitedInVain(w)' /\ uxPriority[w] <= uxPriority'[w]
  BY <1>5, <1>6
<1>8. uxPriority'[u] <= uxPriority'[w]
  BY <1>2, <1>3, <1>5, <1>7
<1>9. QED
  BY <1>7, <1>8 DEF Excused

\* The same where priorities stay.
LEMMA LevelStays ==
  ASSUME CallInv, HolderInv, Level \/ Switches, Switches => Switches',
         pxCurrentTCB' = pxCurrentTCB, uxPriority' = uxPriority,
         \A u \in Ready' \ Ready : uxPriority[u] <= uxPriority[pxCurrentTCB] \/ Switches',
         \A u \in Ready : u # pxCurrentTCB =>
             /\ u \in Ready'
             /\ xInheritanceOccurred'[u] = xInheritanceOccurred[u] /\ (left[u] <= 0 => left'[u] <= 0)
  PROVE  Level' \/ Switches'
<1> SUFFICES ASSUME ~Switches' PROVE Level'
  OBVIOUS
<1>1. Level
  OBVIOUS
<1>2. uxPriority \in [Task -> Nat] /\ pxCurrentTCB \in Task /\ Ready \subseteq Task /\ Ready' \subseteq Task
  BY DEF HolderInv, CallInv, Ready
<1> SUFFICES ASSUME NEW u \in Ready', ~(uxPriority[u] <= uxPriority[pxCurrentTCB])
             PROVE  Excused(uxPriority[u])'
  BY <1>2 DEF Level, Excused
<1>3. u \in Ready
  OBVIOUS
<1>4. PICK w \in Ready : WaitedInVain(w) /\ uxPriority[u] <= uxPriority[w]
  BY <1>1, <1>3 DEF Level, Excused
<1>5. w # pxCurrentTCB
  BY <1>4
<1>6. QED
  BY <1>4, <1>5 DEF Excused, WaitedInVain

\* While a task is in its critical sections with the scheduler running no switch is due.
LEMMA NotSwitching ==
  ASSUME AllInv, NEW t \in Task, Runs(t), at[t] \notin InSuspension \cup {"ticks"}
  PROVE  ~Switches
BY DEF AllInv, ControlInv, RunInv, Runs, Switches, Critical

\* A step of task t that leaves the lists and what is pending alone.
LEMMA QuietLevel ==
  ASSUME HighInv, NEW t \in Task, Runs(t), at[t] # "ticks",
         UNCHANGED <<pxCurrentTCB, lists, uxPriority, pendSV, xYieldPending>>,
         uxSchedulerSuspended > 0 => uxSchedulerSuspended' > 0,
         \A u \in Task : u # t => Undisturbed(u)
  PROVE  Level' \/ Switches'
<1>1. Switches => Switches'
  BY DEF Switches, Critical, Runs
<1>2. Ready' = Ready /\ Ready \subseteq Task
  BY DEF Ready, Blocked, lists
<1>3. \A u \in Ready : u # pxCurrentTCB =>
          /\ u \in Ready'
          /\ xInheritanceOccurred'[u] = xInheritanceOccurred[u] /\ (left[u] <= 0 => left'[u] <= 0)
  BY <1>2 DEF Undisturbed, Runs
<1>4. CallInv /\ HolderInv /\ (Level \/ Switches)
  BY DEF HighInv, AllInv, PriorityInv
<1>5. QED
  BY <1>1, <1>2, <1>3, <1>4, LevelStays

LEMMA WaitLevel ==
  ASSUME HighInv, NEW t \in Task,
         \/ GivesUp(t) \/ Expired(t) \/ (DisinheritAfterTimeout(t) /\ Free(call[t].queue))
         \/ EntersWait(t) \/ Suspends(t) \/ prvLockQueue(t) \/ CheckForTimeOut(t) \/ Looks(t)
         \/ ExpiredLooks(t)
         \/ \E c \in use.calls[t] : c.queue \in Queue /\ Begin(t, c)
         \/ /\ UNCHANGED queueVars
            /\ DelayEnds(t) \/ HeapSuspends(t) \/ \E c \in use.calls[t] : vTaskDelay(t, c.wait)
  PROVE  Level' \/ Switches'
<1>1. /\ left \in [Task -> Int] /\ xInheritanceOccurred \in [Task -> BOOLEAN]
      /\ xItemValue \in [Task -> TickType] /\ xEntryTimeSet \in [Task -> BOOLEAN]
  BY DEF HighInv, LendInv, AllInv, TimeInv, ClockInv
<1>2. CASE GivesUp(t) \/ Expired(t)
  <2>1. Runs(t) /\ Returns(t) /\ UNCHANGED <<lists, priorities, pendSV, xYieldPending>>
        /\ at[t] # "ticks"
    BY <1>2 DEF GivesUp, Expired
  <2>2. \A u \in Task : u # t => Undisturbed(u)
    BY <1>1, <2>1 DEF Returns, Undisturbed
  <2>3. QED
    BY <2>1, <2>2, QuietLevel DEF Returns, priorities
<1>3. CASE DisinheritAfterTimeout(t) /\ Free(call[t].queue)
  <2>1. Runs(t) /\ Returns(t) /\ UNCHANGED <<lists, uxPriority, pendSV, xYieldPending>>
        /\ at[t] # "ticks"
    BY <1>3 DEF DisinheritAfterTimeout, Free
  <2>2. \A u \in Task : u # t => Undisturbed(u)
    BY <1>1, <2>1 DEF Returns, Undisturbed
  <2>3. QED
    BY <2>1, <2>2, QuietLevel DEF Returns
<1>4. CASE \/ EntersWait(t) \/ Suspends(t) \/ prvLockQueue(t) \/ CheckForTimeOut(t) \/ Looks(t)
           \/ ExpiredLooks(t)
  <2>1. /\ Runs(t) /\ at[t] # "ticks"
        /\ UNCHANGED <<pxCurrentTCB, lists, uxPriority, pendSV, xYieldPending>>
    BY <1>4 DEF EntersWait, Suspends, prvLockQueue, CheckForTimeOut, Looks, ExpiredLooks, StepUnchanged,
                vTaskSuspendAll, priorities
  <2>2. uxSchedulerSuspended > 0 => uxSchedulerSuspended' > 0
    <3>1. uxSchedulerSuspended \in Int
      BY DEF HighInv, AllInv, ControlInv, RunInv
    <3>2. QED
      BY <1>4, <3>1 DEF EntersWait, Suspends, prvLockQueue, CheckForTimeOut, Looks, ExpiredLooks,
                        StepUnchanged, vTaskSuspendAll
  <2>3. \A u \in Task : u # t => Undisturbed(u)
    BY <1>1, <1>4 DEF EntersWait, Suspends, prvLockQueue, CheckForTimeOut, Looks, ExpiredLooks, StepUnchanged,
                      vTaskSuspendAll, Undisturbed, queueVars, waits
  <2>4. QED
    BY <2>1, <2>2, <2>3, QuietLevel
<1>5. CASE \/ \E c \in use.calls[t] : c.queue \in Queue /\ Begin(t, c)
           \/ /\ UNCHANGED queueVars
              /\ DelayEnds(t) \/ HeapSuspends(t) \/ \E c \in use.calls[t] : vTaskDelay(t, c.wait)
  <2>1. /\ Runs(t) /\ at[t] # "ticks"
        /\ UNCHANGED <<pxCurrentTCB, lists, uxPriority, pendSV, xYieldPending>>
        /\ UNCHANGED <<xEntryTimeSet, xInheritanceOccurred>>
    BY <1>5 DEF Begin, DelayEnds, HeapSuspends, vTaskDelay, vTaskSuspendAll, priorities, queueVars, waits
  <2>2. uxSchedulerSuspended > 0 => uxSchedulerSuspended' > 0
    <3>1. uxSchedulerSuspended \in Int
      BY DEF HighInv, AllInv, ControlInv, RunInv
    <3>2. QED
      BY <1>5, <3>1 DEF Begin, DelayEnds, HeapSuspends, vTaskDelay, vTaskSuspendAll
  <2>3. \A u \in Task : u # t => Undisturbed(u)
    BY <1>1, <1>5, <2>1 DEF Begin, DelayEnds, HeapSuspends, vTaskDelay, vTaskSuspendAll, Undisturbed
  <2>4. QED
    BY <2>1, <2>2, <2>3, QuietLevel
<1>6. QED
  BY <1>2, <1>3, <1>4, <1>5

\* The first tasks of an event list are woken: who outranks the running one makes a switch due.
LEMMA RemoveLevel ==
  ASSUME HighInv, ~Critical, NEW l \in EventList, NEW n \in Int,
         xTaskRemoveFromEventList(l, n, uxPriority),
         UNCHANGED <<pxCurrentTCB, uxPriority, uxSchedulerSuspended>>,
         pendSV => pendSV',
         uxSchedulerSuspended = 0 /\ Outranks(Firsts(l, n), uxPriority) => pendSV',
         \A u \in Task : u # pxCurrentTCB => Undisturbed(u)
  PROVE  Level' \/ Switches'
<1>1. Switches => Switches'
  BY DEF Switches, xTaskRemoveFromEventList
<1>2. CallInv /\ HolderInv /\ (Level \/ Switches) /\ Firsts(l, n) \subseteq Task
  BY FirstsRange DEF HighInv, AllInv, PriorityInv, ControlInv, ListInv
<1>3. /\ Ready \subseteq Ready' /\ Ready \subseteq Task
      /\ Ready' \ Ready \subseteq Firsts(l, n)
      /\ uxSchedulerSuspended # 0 => Ready' = Ready
  BY DEF xTaskRemoveFromEventList, MakeReady, Ready, Blocked, lists
<1>4. ASSUME NEW u \in Ready' \ Ready PROVE uxPriority[u] <= uxPriority[pxCurrentTCB] \/ Switches'
  <2>1. u \in Firsts(l, n) /\ uxSchedulerSuspended = 0 /\ u \in Task /\ pxCurrentTCB \in Task
    BY <1>2, <1>3 DEF CallInv
  <2>2. CASE uxPriority[u] > uxPriority[pxCurrentTCB]
    BY <2>1, <2>2 DEF Outranks, Switches
  <2>3. CASE ~(uxPriority[u] > uxPriority[pxCurrentTCB])
    BY <1>2, <2>1, <2>3 DEF HolderInv
  <2>4. QED
    BY <2>2, <2>3
<1>5. \A u \in Ready : u # pxCurrentTCB =>
          /\ u \in Ready'
          /\ xInheritanceOccurred'[u] = xInheritanceOccurred[u] /\ (left[u] <= 0 => left'[u] <= 0)
  BY <1>3 DEF Undisturbed
<1>6. QED
  BY <1>1, <1>2, <1>4, <1>5, LevelStays

LEMMA ProceedsLevel ==
  ASSUME HighInv, NEW t \in Task,
         SendProceeds(t) \/ GiveProceeds(t) \/ ReceiveProceeds(t) \/ TakeProceeds(t)
  PROVE  Level' \/ Switches'
<1>1. Runs(t) /\ Returns(t) /\ at[t] = "enter" /\ uxPriority' = uxPriority
  BY DEF SendProceeds, GiveProceeds, ReceiveProceeds, TakeProceeds, Proceeds, priorities
<1>2. call[t].queue \in Queue
  BY <1>1, Caller DEF HighInv, InCall
<1>3. PICK l \in EventList : /\ xTaskRemoveFromEventList(l, 1, uxPriority)
                             /\ pendSV' = Outranks(Firsts(l, 1), uxPriority)
  BY <1>2, QueueAssumption DEF SendProceeds, GiveProceeds, ReceiveProceeds, TakeProceeds, Receivers, Senders
<1>4. ~Critical /\ ~pendSV /\ t = pxCurrentTCB
  BY <1>1 DEF Runs, Critical
<1>5. \A u \in Task : u # t => Undisturbed(u)
  BY <1>1 DEF Returns, Undisturbed, HighInv, LendInv, AllInv, TimeInv, ClockInv
<1>6. QED
  BY <1>1, <1>3, <1>4, <1>5, RemoveLevel DEF Returns

\* The unlocking of a queue, with the scheduler suspended, and an interrupt.
LEMMA UnlockLevel ==
  ASSUME HighInv, NEW t \in Task, prvUnlockQueue(t) \/ prvUnlockQueueRx(t)
  PROVE  Level' \/ Switches'
<1>1. /\ Runs(t) /\ at[t] \in {"unlock", "unlockRx"} /\ t = pxCurrentTCB
      /\ UNCHANGED <<pxCurrentTCB, uxPriority, uxSchedulerSuspended, pendSV>>
      /\ UNCHANGED <<left, xInheritanceOccurred, xItemValue, xEntryTimeSet>>
  BY DEF prvUnlockQueue, prvUnlockQueueRx, StepUnchanged, Runs
<1>2. uxSchedulerSuspended = 1 /\ cTxLock \in [Queue -> Int] /\ cRxLock \in [Queue -> Int]
      /\ call[t].queue \in Queue
  BY <1>1, Whereabouts, Caller DEF HighInv, AllInv, InSuspension, InCall
<1>3. PICK l \in EventList, n \in Int : xTaskRemoveFromEventList(l, n, uxPriority)
  BY <1>2, QueueAssumption DEF prvUnlockQueue, prvUnlockQueueRx, Receivers, Senders
<1>4. ~Critical
  BY <1>1 DEF Critical
<1>5. QED
  BY <1>1, <1>2, <1>3, <1>4, RemoveLevel DEF Undisturbed

LEMMA GiveLevel ==
  ASSUME HighInv, NEW q \in use.isr, xQueueGiveFromISR(q)
  PROVE  Level' \/ Switches'
<1>1. /\ ~Critical
      /\ UNCHANGED <<pxCurrentTCB, uxPriority, uxSchedulerSuspended, control>>
      /\ UNCHANGED <<left, xInheritanceOccurred, xItemValue, xEntryTimeSet>>
  BY DEF xQueueGiveFromISR, control, waits, priorities
<1>2. q \in Queue
  BY QueueAssumption DEF HighInv, AllInv, CallInv
<1>3. CASE cTxLock[q] = queueUNLOCKED
  <2>1. /\ xTaskRemoveFromEventList(Receivers(q), 1, uxPriority)
        /\ pendSV' = (pendSV \/ Outranks(Firsts(Receivers(q), 1), uxPriority))
        /\ Receivers(q) \in EventList
    BY <1>2, <1>3, QueueAssumption DEF xQueueGiveFromISR, Receivers
  <2>2. (pendSV => pendSV') /\ (Outranks(Firsts(Receivers(q), 1), uxPriority) => pendSV')
    BY <2>1
  <2>3. \A u \in Task : Undisturbed(u)
    BY <1>1 DEF Undisturbed
  <2>4. QED
    BY <1>1, <2>1, <2>2, <2>3, RemoveLevel
<1>4. CASE cTxLock[q] # queueUNLOCKED
  <2>1. UNCHANGED <<lists, pendSV, xYieldPending>>
    BY <1>4 DEF xQueueGiveFromISR
  <2>2. Ready' = Ready /\ (Switches => Switches')
    BY <1>1, <2>1 DEF Ready, Blocked, lists, Switches
  <2>3. CallInv /\ HolderInv /\ (Level \/ Switches)
    BY DEF HighInv, AllInv, PriorityInv
  <2>4. QED
    BY <1>1, <2>2, <2>3, LevelStays
<1>5. QED
  BY <1>3, <1>4

\* The running task leaves the ready ones.
LEMMA BlockLevel ==
  ASSUME HighInv, NEW t \in Task, Place(t) \/ (DelayAdds(t) /\ UNCHANGED queueVars)
  PROVE  Level' \/ Switches'
<1>1. /\ Runs(t) /\ at[t] \in {"place", "delay"} /\ t = pxCurrentTCB
      /\ UNCHANGED <<pxCurrentTCB, uxPriority, pendSV, xYieldPending, uxSchedulerSuspended>>
      /\ UNCHANGED <<left, xInheritanceOccurred>>
      /\ \E b : prvAddCurrentTaskToDelayedList(xTicksToWait[t], b)
  BY DEF Place, DelayAdds, StepUnchanged, vTaskPlaceOnEventList, priorities, queueVars, waits, Runs
<1>2. Blocked' = Blocked \cup {t}
  BY <1>1, AddBlocks
<1>3. Ready' = Ready \ {t}
  BY <1>2 DEF Ready
<1>4. Switches => Switches'
  BY <1>1 DEF Switches, Critical, Runs
<1>5. CallInv /\ HolderInv /\ (Level \/ Switches)
  BY DEF HighInv, AllInv, PriorityInv
<1>6. QED
  BY <1>1, <1>3, <1>4, <1>5, LevelStays

\* The scheduler is resumed: what the woken tasks make due is kept until the end.
LEMMA ResumeLevel ==
  ASSUME HighInv, NEW t \in Task, xTaskResumeAll(t), UNCHANGED queueVars
  PROVE  Level' \/ Switches'
<1>1. /\ Runs(t) /\ t = pxCurrentTCB /\ at' = [at EXCEPT ![t] = "ticks"] /\ MakeReady(xPendingReadyList)
      /\ xYieldPending' = (xYieldPending \/ \E u \in xPendingReadyList : uxPriority[u] >= uxPriority[t])
      /\ UNCHANGED <<pxCurrentTCB, uxPriority, pendSV, left, xInheritanceOccurred>>
  BY DEF xTaskResumeAll, Runs, Goes, priorities, queueVars, waits
<1>2. CallInv /\ HolderInv /\ (Level \/ Switches) /\ xPendingReadyList \subseteq Task
  BY DEF HighInv, AllInv, PriorityInv, ControlInv, ListInv, OnEvent
<1>3. Critical'
  BY <1>1 DEF Critical, HighInv, AllInv, ControlInv, PlaceInv
<1>4. Switches => Switches'
  BY <1>1, <1>3 DEF Switches, Runs
<1>5. Ready \subseteq Ready' /\ Ready' \ Ready \subseteq xPendingReadyList
  BY <1>1 DEF MakeReady, Ready, Blocked
<1>6. ASSUME NEW u \in Ready' \ Ready PROVE uxPriority[u] <= uxPriority[pxCurrentTCB] \/ Switches'
  <2>1. u \in xPendingReadyList /\ u \in Task
    BY <1>2, <1>5
  <2>2. CASE uxPriority[u] >= uxPriority[t]
    BY <1>1, <1>3, <2>1, <2>2 DEF Switches
  <2>3. CASE ~(uxPriority[u] >= uxPriority[t])
    BY <1>1, <1>2, <2>1, <2>3 DEF HolderInv
  <2>4. QED
    BY <2>2, <2>3
<1>7. QED
  BY <1>1, <1>2, <1>4, <1>5, <1>6, LevelStays

\* Its end, and the yields: the switch is pending.
LEMMA EndLevel ==
  ASSUME HighInv, NEW t \in Task, ResumeEnds(t) \/ portYIELD_WITHIN_API(t) \/ vTaskYield(t),
         UNCHANGED queueVars
  PROVE  Level' \/ Switches'
<1>1. CASE portYIELD_WITHIN_API(t) \/ vTaskYield(t)
  BY <1>1 DEF portYIELD_WITHIN_API, vTaskYield, Switches
<1>2. CASE ResumeEnds(t)
  <2>1. /\ ~pendSV /\ pendSV' = xYieldPending
        /\ UNCHANGED <<pxCurrentTCB, uxPriority, lists, left, xInheritanceOccurred>>
    BY <1>2 DEF ResumeEnds, Runs, priorities, queueVars, waits
  <2>2. Switches => Switches'
    BY <2>1 DEF Switches
  <2>3. Ready' = Ready
    BY <2>1 DEF Ready, Blocked, lists
  <2>4. CallInv /\ HolderInv /\ (Level \/ Switches)
    BY DEF HighInv, AllInv, PriorityInv
  <2>5. QED
    BY <2>1, <2>2, <2>3, <2>4, LevelStays
<1>3. QED
  BY <1>1, <1>2

\* A tick: whoever wakes and is not outranked makes a switch due.
LEMMA TickLevel ==
  ASSUME HighInv, UNCHANGED queueVars,
         SysTick \/ SysTickPended \/ \E t \in Task : ResumeTick(t)
  PROVE  Level' \/ Switches'
<1>1. CallInv /\ HolderInv /\ (Level \/ Switches) /\ left \in [Task -> Int]
  BY DEF HighInv, AllInv, PriorityInv, TimeInv, ClockInv
<1>2. /\ UNCHANGED <<pxCurrentTCB, uxPriority, xInheritanceOccurred, uxSchedulerSuspended, at>>
      /\ left' = OneTickLess \/ left' = left
  BY DEF SysTick, SysTickPended, ResumeTick, priorities, control, queueVars, waits
<1>3. \A u \in Task : left[u] <= 0 => left'[u] <= 0
  BY <1>1, <1>2, TickAssumption DEF OneTickLess, NoDeadline
<1>4. Ready \subseteq Task
  BY DEF Ready
<1>5. CASE SysTickPended
  <2>1. Ready' = Ready /\ (Switches => Switches')
    BY <1>5 DEF SysTickPended, Ready, Blocked, lists, Switches, Critical
  <2>2. QED
    BY <1>1, <1>2, <1>3, <1>4, <2>1, LevelStays
<1>6. CASE SysTick \/ \E t \in Task : ResumeTick(t)
  <2> DEFINE tick == TickPlus(xTickCount, 1)
  <2>1. /\ IncrementTick /\ xSuspendedTaskList' = xSuspendedTaskList
        /\ SwitchRequired => Switches'
        /\ Switches => Switches'
    <3>1. xYieldPending => SwitchRequired
      BY DEF SwitchRequired
    <3>2. CASE SysTick
      BY <3>1, <3>2 DEF SysTick, Switches, Critical
    <3>3. CASE \E t \in Task : ResumeTick(t)
      BY <3>1, <3>3 DEF ResumeTick, Runs, control, Switches, Critical
    <3>4. QED
      BY <1>6, <3>2, <3>3
  <2>2. Ready \subseteq Ready' /\ Ready' \ Ready \subseteq Due(tick)
    <3>1. /\ pxDelayedTaskList' = CurrentDelayed(tick) \ Due(tick)
          /\ pxOverflowDelayedTaskList' =
                 IF tick = 0 THEN pxDelayedTaskList ELSE pxOverflowDelayedTaskList
      BY <2>1 DEF IncrementTick
    <3> HIDE DEF tick
    <3>2. Blocked' \subseteq Blocked /\ Blocked \subseteq Blocked' \cup Due(tick)
      BY <2>1, <3>1 DEF Blocked, CurrentDelayed
    <3>3. QED
      BY <3>2 DEF Ready
  <2>3. ASSUME NEW u \in Ready' \ Ready PROVE uxPriority[u] <= uxPriority[pxCurrentTCB] \/ Switches'
    <3>1. u \in Due(tick) /\ u \in Task /\ pxCurrentTCB \in Task
      BY <1>1, <2>2 DEF Ready, CallInv
    <3>2. CASE uxPriority[u] >= uxPriority[pxCurrentTCB]
      BY <2>1, <3>1, <3>2 DEF SwitchRequired
    <3>3. CASE ~(uxPriority[u] >= uxPriority[pxCurrentTCB])
      BY <1>1, <3>1, <3>3 DEF HolderInv
    <3>4. QED
      BY <3>2, <3>3
  <2>4. QED
    BY <1>1, <1>2, <1>3, <1>4, <2>1, <2>2, <2>3, LevelStays
<1>7. QED
  BY <1>5, <1>6

\* The context switch takes one of the highest.
LEMMA SwitchLevel ==
  ASSUME HighInv, vTaskSwitchContext
  PROVE  Level' \/ Switches'
<1>1. CASE uxSchedulerSuspended > 0
  BY <1>1 DEF vTaskSwitchContext, Switches
<1>2. CASE ~(uxSchedulerSuspended > 0)
  <2>1. /\ \A u \in Ready : uxPriority[u] <= uxPriority[pxCurrentTCB']
        /\ UNCHANGED <<uxPriority, lists>>
    BY <1>2 DEF vTaskSwitchContext, priorities
  <2>2. QED
    BY <2>1 DEF Level, Ready, Blocked, lists
<1>3. QED
  BY <1>1, <1>2

\* Priorities that change: the holder gets that of the running task, or loses what it was lent.
LEMMA LentLevel ==
  ASSUME HighInv, PriorityInv', NEW t \in Task,
         xTaskPriorityInherit(t) \/ (DisinheritAfterTimeout(t) /\ ~Free(call[t].queue))
  PROVE  Level' \/ Switches'
<1>1. PICK h : h = pxMutexHolder[call[t].queue]
  OBVIOUS
<1>2. /\ Runs(t) /\ t = pxCurrentTCB /\ at[t] \in {"inherit", "disinherit"}
      /\ UNCHANGED <<pxCurrentTCB, lists, pendSV, xYieldPending, uxSchedulerSuspended>>
      /\ \E p : uxPriority' \in {uxPriority, [uxPriority EXCEPT ![h] = p]}
  BY <1>1 DEF xTaskPriorityInherit, DisinheritAfterTimeout, StepUnchanged, Returns, Runs
<1>3. AllInv /\ LendInv /\ CallInv /\ HolderInv /\ HolderInv' /\ (Level \/ Switches) /\ CallerAt(t)
  BY DEF HighInv, AllInv, PriorityInv
<1>4. /\ call[t].queue \in Mutexes /\ call[t].queue \in Queue /\ call[t].op = "take" /\ ~Free(call[t].queue)
      /\ ~Holds(t) /\ uxPriority[t] = uxBasePriority[t]
  <2>1. call[t] # NoCall /\ call[t].queue \in Queue
    BY <1>2, <1>3, Caller DEF InCall, InWait
  <2>2. call[t].queue \in Mutexes /\ call[t].op = "take" /\ ~Free(call[t].queue)
    BY <1>2, <1>3, <2>1 DEF CallerAt, HolderInv, xTaskPriorityInherit, DisinheritAfterTimeout
  <2>3. PriorityInv /\ Wants(t, call[t].queue)
    BY <1>2, <1>3, <2>1, <2>2 DEF AllInv, Wants
  <2>4. ~Holds(t) /\ uxPriority[t] = uxBasePriority[t]
    BY <2>2, <2>3, TakersPriority
  <2>5. QED
    BY <2>1, <2>2, <2>4
<1>5. h \in Task /\ h # t /\ Holds(h)
  BY <1>1, <1>3, <1>4 DEF HolderInv, Free, Holds
<1>6. /\ uxPriority \in [Task -> Nat] /\ uxPriority' \in [Task -> Nat]
      /\ \A u \in Task : u # h => uxPriority'[u] = uxPriority[u]
  BY <1>2, <1>3 DEF HolderInv
<1>7. uxPriority'[h] <= uxPriority[h] \/ uxPriority'[h] <= uxPriority[t]
  <2>1. CASE xTaskPriorityInherit(t)
    BY <1>1, <1>5, <1>6, <2>1 DEF xTaskPriorityInherit
  <2>2. CASE DisinheritAfterTimeout(t)
    <3> DEFINE z == call[t].queue
               p == IF uxBasePriority[h] < WaitingPriority(z) THEN WaitingPriority(z)
                    ELSE uxBasePriority[h]
    <3>1. uxPriority'[h] \in {uxPriority[h], p}
      BY <1>1, <1>5, <1>6, <2>2 DEF DisinheritAfterTimeout
    <3>2. uxBasePriority[h] <= uxPriority[h]
      BY <1>3, <1>5 DEF HolderInv
    <3>3. WaitingPriority(z) <= uxPriority[h]
      <4>1. CASE Waiters(z) = <<>>
        BY <1>5, <1>6, <4>1 DEF WaitingPriority, Waiters
      <4>2. CASE Waiters(z) # <<>>
        <5>1. Waiters(z) \in Seq(Task) /\ WaitersAt(z)
          BY <1>3, <1>4, WaitersAre DEF AllInv, ControlInv, PriorityInv
        <5>2. PICK u \in Range(Waiters(z)) : u = Head(Waiters(z))
          BY <4>2, <5>1 DEF Range
        <5>3. u \in Task /\ Wants(u, z) /\ uxBasePriority[u] <= uxPriority[h]
          BY <1>1, <1>3, <1>4, <5>1, <5>2, WaitersAre DEF WaitersAt, AllInv, ControlInv
        <5>4. uxPriority[u] = uxBasePriority[u]
          BY <1>3, <1>4, <5>3, TakersPriority DEF AllInv
        <5>5. WaitingPriority(z) = uxPriority[u]
          BY <4>2, <5>2 DEF WaitingPriority, Waiters
        <5>6. QED
          BY <5>3, <5>4, <5>5
      <4>3. QED
        BY <4>1, <4>2
    <3>4. uxPriority[h] <= uxPriority[h]
      BY <1>5, <1>6
    <3>5. QED
      BY <3>1, <3>2, <3>3, <3>4
  <2>3. QED
    BY <2>1, <2>2
<1>8. Switches => Switches'
  BY <1>2 DEF Switches, Critical, Runs
<1>9. Ready' = Ready /\ Ready \subseteq Task
  BY <1>2 DEF Ready, Blocked, lists
<1>10. \A u \in Task : u # t =>
           left'[u] = left[u] /\ xInheritanceOccurred'[u] = xInheritanceOccurred[u]
  BY <1>3 DEF xTaskPriorityInherit, DisinheritAfterTimeout, StepUnchanged, Returns, LendInv, AllInv,
              TimeInv, ClockInv
<1>11. \A u \in Ready' : \/ u \in Ready /\ uxPriority'[u] <= uxPriority[u]
                         \/ uxPriority'[u] <= uxPriority'[pxCurrentTCB]
  <2> SUFFICES ASSUME NEW u \in Task
               PROVE  uxPriority'[u] <= uxPriority[u] \/ uxPriority'[u] <= uxPriority'[t]
    BY <1>2, <1>9
  <2>1. uxPriority'[t] = uxPriority[t]
    BY <1>5, <1>6
  <2>2. CASE u = h
    BY <1>7, <2>1, <2>2
  <2>3. CASE u # h
    BY <1>6, <2>3
  <2>4. QED
    BY <2>2, <2>3
<1>12. ASSUME NEW w \in Ready, WaitedInVain(w), w # pxCurrentTCB
       PROVE  w \in Ready' /\ WaitedInVain(w)' /\ uxPriority[w] <= uxPriority'[w]
  <2>1. w # h
    BY <1>3, <1>5, <1>9, <1>12, VainPriority
  <2>2. QED
    BY <1>2, <1>6, <1>9, <1>10, <1>12, <2>1 DEF WaitedInVain
<1>13. uxPriority[pxCurrentTCB] <= uxPriority'[pxCurrentTCB]
  BY <1>2, <1>5, <1>6
<1>14. QED
  BY <1>2, <1>3, <1>8, <1>11, <1>12, <1>13, LevelKept

\* A mutex is given.  When the priority of its holder falls and no switch is due, somebody of no
\* more than the holder's own priority has been woken; who lent the priority has waited in
\* vain, then, and excuses all those that the priority kept back.
LEMMA MutexGiveLevel ==
  ASSUME HighInv, PriorityInv', NEW t \in Task, MutexGiveProceeds(t)
  PROVE  Level' \/ Switches'
<1>0. AllInv /\ LendInv /\ CallInv /\ HolderInv /\ HolderInv' /\ (Level \/ Switches)
      /\ event \in [EventList -> Seq(Task)]
  BY DEF HighInv, AllInv, PriorityInv, ControlInv, ListInv
<1>1. PICK z \in Queue : z = call[t].queue
  BY <1>0, Caller DEF MutexGiveProceeds, Proceeds, InCall
<1> DEFINE S == Firsts(Receivers(z), 1)
           dis == Disinherited(t)
<1>2. /\ Runs(t) /\ at[t] = "enter" /\ Returns(t) /\ call[t].op = "give" /\ z \in Mutexes
      /\ t = pxCurrentTCB /\ pxCurrentTCB' = t
      /\ uxPriority' = dis
      /\ xTaskRemoveFromEventList(Receivers(z), 1, dis)
      /\ pendSV' = IF Waiters(z) = <<>> THEN Disinherits(t) ELSE Outranks(S, dis)
  BY <1>1 DEF MutexGiveProceeds, Proceeds, Mutexes, Waiters, Returns, Runs
<1>3. /\ dis = (IF Disinherits(t) THEN [uxPriority EXCEPT ![t] = uxBasePriority[t]] ELSE uxPriority)
      /\ dis \in [Task -> Nat] /\ uxPriority \in [Task -> Nat] /\ uxBasePriority \in [Task -> Nat]
      /\ uxBasePriority[t] <= uxPriority[t]
  BY <1>0, TaskAssumption DEF Disinherited, HolderInv
<1> HIDE DEF dis
<1>4. Level /\ uxSchedulerSuspended = 0 /\ ~Switches
  <2>1. ~Switches
    BY <1>0, <1>2, NotSwitching DEF InSuspension
  <2>2. uxSchedulerSuspended = 0
    BY <1>0, <1>2, Whereabouts DEF AllInv, InSuspension
  <2>3. QED
    BY <1>0, <2>1, <2>2
<1>5. /\ Ready' \subseteq Ready \cup S /\ Ready \subseteq Ready' /\ Ready \subseteq Task /\ S \subseteq Task
      /\ Receivers(z) \in EventList
  <2>1. Receivers(z) \in EventList
    BY <1>0, <1>2, WaitersAre DEF AllInv, ControlInv
  <2>2. S \subseteq Task
    BY <1>0, <2>1, FirstsRange
  <2>3. MakeReady(S)
    BY <1>2, <1>4 DEF xTaskRemoveFromEventList
  <2> HIDE DEF S
  <2>4. QED
    BY <2>1, <2>2, <2>3 DEF MakeReady, Ready, Blocked
<1>6. \A u \in Task : u # t => Undisturbed(u)
  BY <1>0, <1>2 DEF Returns, Undisturbed, LendInv, AllInv, TimeInv, ClockInv
<1>7. \A w \in Ready : WaitedInVain(w) /\ w # t =>
          w \in Ready' /\ WaitedInVain(w)' /\ uxPriority[w] <= uxPriority'[w]
  BY <1>2, <1>3, <1>5, <1>6 DEF WaitedInVain, Undisturbed
<1> SUFFICES ASSUME ~Switches' PROVE Level'
  OBVIOUS
<1>8. ~pendSV'
  BY DEF Switches
<1>9. \A u \in S : uxPriority'[u] <= uxPriority'[t]
  <2> SUFFICES ASSUME NEW u \in S PROVE uxPriority'[u] <= uxPriority'[t]
    OBVIOUS
  <2>1. Waiters(z) # <<>>
    BY <1>5, FirstsRange, <1>0 DEF Waiters, Range
  <2>2. ~(dis[u] > dis[pxCurrentTCB])
    BY <1>2, <1>8, <2>1 DEF Outranks
  <2>3. QED
    BY <1>2, <1>3, <1>5, <2>2
<1>10. CASE ~Disinherits(t)
  <2>1. uxPriority' = uxPriority
    BY <1>2, <1>3, <1>10
  <2>2. \A u \in Ready' \ Ready : uxPriority[u] <= uxPriority[pxCurrentTCB]
    BY <1>2, <1>5, <1>9, <2>1
  <2>3. \A u \in Ready : u # pxCurrentTCB =>
            /\ u \in Ready'
            /\ xInheritanceOccurred'[u] = xInheritanceOccurred[u] /\ (left[u] <= 0 => left'[u] <= 0)
    BY <1>2, <1>5, <1>6 DEF Undisturbed
  <2>4. QED
    BY <1>0, <1>2, <1>4, <2>1, <2>2, <2>3, LevelStays
<1>11. CASE Disinherits(t)
  <2>1. uxPriority[t] # uxBasePriority[t] /\ uxPriority'[t] = uxBasePriority[t]
        /\ \A u \in Task : u # t => uxPriority'[u] = uxPriority[u]
    BY <1>2, <1>3, <1>11 DEF Disinherits
  <2>2. Waiters(z) # <<>>
    BY <1>2, <1>8, <1>11
  <2>3. pxMutexHolder[z] = t /\ ~Free(z) /\ LentAt(z) /\ WaitersAt(z)
    <3>1. CallerAt(t) /\ call[t] # NoCall
      BY <1>2 DEF HighInv, AllInv, PriorityInv, NoCall
    <3>2. pxMutexHolder[z] = t
      BY <1>1, <1>2, <3>1 DEF CallerAt
    <3>3. QED
      BY <1>2, <3>2, MutexAssumption DEF Free, HighInv, LendInv, AllInv, PriorityInv
  <2>4. PICK w \in Task : Lends(w, z) /\ uxBasePriority[w] = uxPriority[t]
    BY <2>1, <2>3 DEF LentAt
  <2>5. w # t /\ Wants(w, z) /\ uxPriority[w] = uxBasePriority[w]
    <3>1. PriorityInv /\ Wants(w, z)
      BY <1>0, <2>4 DEF AllInv, Lends
    <3>2. w # t
      BY <1>2, <3>1 DEF Wants
    <3>3. QED
      BY <1>2, <3>1, <3>2, TakersPriority
  <2>6. w \notin Range(Waiters(z))
    <3> SUFFICES ASSUME w \in Range(Waiters(z)) PROVE FALSE
      OBVIOUS
    <3>1. PICK u \in Range(Waiters(z)) : /\ S = {u}
                                         /\ \A v \in Range(Waiters(z)) : uxBasePriority[v] <= uxBasePriority[u]
      BY <1>0, <1>5, <2>2, <2>3, FirstIsHighest DEF Waiters, WaitersAt
    <3>2. u \in Task /\ Wants(u, z) /\ uxPriority[u] = uxBasePriority[u]
      <4>1. PriorityInv /\ u \in Task /\ Wants(u, z)
        BY <1>0, <1>5, <2>3, <3>1 DEF AllInv, WaitersAt, Waiters, Range
      <4>2. QED
        BY <1>2, <4>1, TakersPriority
    <3>3. u # t
      BY <1>2, <3>2 DEF Wants
    <3>4. uxBasePriority[u] <= uxBasePriority[t]
      BY <1>9, <2>1, <3>1, <3>2, <3>3
    <3>5. uxBasePriority[w] <= uxBasePriority[u]
      BY <3>1
    <3>6. QED
      BY <1>3, <2>1, <2>4, <3>2, <3>4, <3>5
  <2>7. w \in Ready /\ WaitedInVain(w)
    <3>1. at[w] # "place"
      BY <1>0, <1>2, <2>5, OneAtPlace DEF InSuspension
    <3>2. QED
      BY <2>4, <2>6, <3>1 DEF Lends, WaitedInVain
  <2>8. w \in Ready' /\ WaitedInVain(w)' /\ uxPriority'[w] = uxPriority[t]
    BY <1>7, <2>1, <2>4, <2>5, <2>7
  <2> SUFFICES ASSUME NEW u \in Ready', ~(uxPriority'[u] <= uxPriority'[t])
               PROVE  Excused(uxPriority[u])'
    BY <1>2 DEF Level
  <2>9. u \in Ready /\ u \in Task /\ u # t
    BY <1>2, <1>3, <1>5, <1>9
  <2>10. uxPriority'[u] = uxPriority[u]
    BY <2>1, <2>9
  <2>11. CASE uxPriority[u] <= uxPriority[t]
    BY <2>8, <2>10, <2>11 DEF Excused
  <2>12. CASE ~(uxPriority[u] <= uxPriority[t])
    <3>1. PICK v \in Ready : WaitedInVain(v) /\ uxPriority[u] <= uxPriority[v]
      BY <1>2, <1>4, <2>9, <2>12 DEF Level, Excused
    <3>2. v # t
      BY <2>12, <3>1
    <3>3. v \in Ready' /\ WaitedInVain(v)' /\ uxPriority'[v] = uxPriority[v]
      BY <1>5, <1>7, <2>1, <3>1, <3>2
    <3>4. QED
      BY <2>10, <3>1, <3>3 DEF Excused
  <2>13. QED
    BY <2>11, <2>12
<1>12. QED
  BY <1>10, <1>11

-------------------------------------------------------------------------------
(***************************************************************************)
(* The theorem.                                                            *)
(***************************************************************************)

LEMMA InitHigh == QueuesInit => LendInv /\ Level
<1> SUFFICES ASSUME QueuesInit PROVE LendInv /\ Level
  OBVIOUS
<1>1. PICK S : SchedulerInit(S)
  BY DEF QueuesInit
<1>2. /\ pxDelayedTaskList = {} /\ pxOverflowDelayedTaskList = {} /\ xSuspendedTaskList = S
      /\ xPendingReadyList = {} /\ event = [l \in EventList |-> <<>>]
      /\ uxPriority = uxBasePriority
      /\ pxCurrentTCB \in {t \in Task \ S : \A u \in Task \ S : uxBasePriority[u] <= uxBasePriority[t]}
      /\ xInheritanceOccurred = [t \in Task |-> FALSE]
      /\ pxMutexHolder = [q \in Queue |-> NoHolder]
  BY <1>1 DEF SchedulerInit, QueuesInit
<1>3. \A t : t \notin OnEvent
  BY <1>2, OnEventIs DEF Range
<1>4. Ready = Task \ S
  BY <1>2 DEF Ready, Blocked
<1>5. Level
  BY <1>2, <1>4 DEF Level
<1>6. \A q \in Mutexes : Free(q)
  BY <1>2 DEF Free, Mutexes
<1>7. QED
  BY <1>2, <1>3, <1>5, <1>6 DEF LendInv, ListsApart, TimelyAt, InheritorAt, LentAt

LEMMA SameHigh ==
  ASSUME HighInv, UNCHANGED allVars
  PROVE  LendInv' /\ (Level' \/ Switches')
<1>1. /\ UNCHANGED <<lists, event, xPendingReadyList, pxMutexHolder, uxPriority, call, at, then, left>>
      /\ UNCHANGED <<xTicksToWait, xItemValue, xTickCount, uxPendedTicks, xInheritanceOccurred>>
      /\ UNCHANGED <<xEntryTimeSet, pxCurrentTCB, pendSV, xYieldPending, uxSchedulerSuspended>>
  BY DEF allVars, schedulerVars, queueVars, priorities, clock, control, waits
<1>2. /\ Ready' = Ready /\ \A u : u \in OnEvent' <=> u \in OnEvent
      /\ UNCHANGED <<pxDelayedTaskList, pxOverflowDelayedTaskList, xSuspendedTaskList>>
  BY <1>1, OnEventIs DEF Ready, Blocked, lists
<1>3. LendInv'
  <2>1. ListsApart' /\ \A t \in Task : TimelyAt(t)' /\ InheritorAt(t)'
    BY <1>1, <1>2 DEF HighInv, LendInv, ListsApart, TimelyAt, InheritorAt, Ahead
  <2>2. \A q : \A t : Lends(t, q)' <=> Lends(t, q)
    BY <1>1, <1>2 DEF Lends, Wants, LooksAgain, Waiters
  <2>3. \A q \in Mutexes : LentAt(q)'
    BY <1>1, <2>2 DEF HighInv, LendInv, LentAt, Free, Wants, Waiters
  <2>4. QED
    BY <1>1, <2>1, <2>3 DEF HighInv, LendInv
<1>4. (Level' <=> Level) /\ (Switches' <=> Switches)
  BY <1>1, <1>2 DEF Level, Excused, WaitedInVain, Switches, Critical
<1>5. QED
  BY <1>3, <1>4 DEF HighInv

\* One step for each group of actions.
LEMMA NextHigh ==
  ASSUME HighInv, PriorityInv', [KernelNext]_allVars
  PROVE  LendInv' /\ (Level' \/ Switches')
<1>0. AllInv /\ LendInv
  BY DEF HighInv
<1>1. CASE UNCHANGED allVars
  BY <1>1, SameHigh
<1>2. CASE UNCHANGED queueVars /\ (SysTick \/ SysTickPended \/ vTaskSwitchContext)
  BY <1>0, <1>2, TickLends, PendLends, StayLends, TickLevel, SwitchLevel
<1>3. CASE \E q \in use.isr : xQueueGiveFromISR(q)
  BY <1>0, <1>3, StayLends, GiveLevel
<1>4. ASSUME NEW t \in Task, UNCHANGED queueVars,
             \/ xTaskResumeAll(t) \/ ResumeTick(t) \/ ResumeEnds(t) \/ portYIELD_WITHIN_API(t)
             \/ DelayAdds(t) \/ DelayEnds(t) \/ HeapSuspends(t) \/ vTaskYield(t)
             \/ \E c \in use.calls[t] : vTaskDelay(t, c.wait)
      PROVE  LendInv' /\ (Level' \/ Switches')
  <2>1. CASE xTaskResumeAll(t) \/ ResumeEnds(t) \/ portYIELD_WITHIN_API(t)
    BY <1>0, <1>4, <2>1, LeaveLends, ResumeLevel, EndLevel
  <2>2. CASE ResumeTick(t)
    BY <1>0, <1>4, <2>2, TickLends, TickLevel
  <2>3. CASE DelayAdds(t)
    BY <1>0, <1>4, <2>3, DelayLends, BlockLevel
  <2>4. CASE DelayEnds(t) \/ HeapSuspends(t) \/ \E c \in use.calls[t] : vTaskDelay(t, c.wait)
    BY <1>0, <1>4, <2>4, IdleLends, WaitLevel
  <2>5. CASE vTaskYield(t)
    BY <1>0, <1>4, <2>5, IdleLends, EndLevel
  <2>6. QED
    BY <1>4, <2>1, <2>2, <2>3, <2>4, <2>5
<1>5. ASSUME NEW t \in Task, NEW c \in use.calls[t], c.queue \in Queue, Begin(t, c)
      PROVE  LendInv' /\ (Level' \/ Switches')
  BY <1>0, <1>5, IdleLends, WaitLevel
<1>6. ASSUME NEW t \in Task, SendProceeds(t) \/ GiveProceeds(t) \/ ReceiveProceeds(t)
      PROVE  LendInv' /\ (Level' \/ Switches')
  BY <1>0, <1>6, ProceedsLends, ProceedsLevel
<1>7. ASSUME NEW t \in Task, TakeProceeds(t)
      PROVE  LendInv' /\ (Level' \/ Switches')
  BY <1>0, <1>7, ProceedsLends, TakeLends, ProceedsLevel
<1>8. ASSUME NEW t \in Task, MutexGiveProceeds(t)
      PROVE  LendInv' /\ (Level' \/ Switches')
  BY <1>0, <1>8, GiveLends, MutexGiveLevel
<1>9. ASSUME NEW t \in Task, GivesUp(t) \/ Expired(t)
      PROVE  LendInv' /\ (Level' \/ Switches')
  BY <1>0, <1>9, GivesUpLends, WaitLevel
<1>10. ASSUME NEW t \in Task, DisinheritAfterTimeout(t)
       PROVE  LendInv' /\ (Level' \/ Switches')
  <2>1. CASE Free(call[t].queue)
    BY <1>0, <1>10, <2>1, GivesUpLends, WaitLevel
  <2>2. CASE ~Free(call[t].queue)
    BY <1>0, <1>10, <2>2, DisinheritLends, LentLevel
  <2>3. QED
    BY <2>1, <2>2
<1>11. ASSUME NEW t \in Task,
              \/ EntersWait(t) \/ Suspends(t) \/ prvLockQueue(t) \/ CheckForTimeOut(t) \/ Looks(t)
              \/ ExpiredLooks(t)
       PROVE  LendInv' /\ (Level' \/ Switches')
  BY <1>0, <1>11, WaitLends, WaitLevel
<1>12. ASSUME NEW t \in Task,
              xTaskPriorityInherit(t) \/ Place(t) \/ prvUnlockQueue(t) \/ prvUnlockQueueRx(t)
       PROVE  LendInv' /\ (Level' \/ Switches')
  BY <1>0, <1>12, InheritLends, LentLevel, PlaceLends, BlockLevel, LeaveLends, UnlockLevel
<1>13. QED
  BY <1>1, <1>2, <1>3, <1>4, <1>5, <1>6, <1>7, <1>8, <1>9, <1>10, <1>11, <1>12, KernelSteps

\* A ready task waits only for one that it does not outrank, unless the scheduler is suspended or
\* a context switch is pending; but for the exception after a wait in vain (tasks.c and the
\* yields of queue.c).
THEOREM KernelHighestRuns == KernelSpec => []HighestRuns
<1>1. QueuesInit => HighInv
  BY InitCall, InitControl, InitTime, InitRing, InitPriority, InitHigh DEF AllInv, HighInv
<1>2. HighInv /\ [KernelNext]_allVars => HighInv'
  <2> SUFFICES ASSUME HighInv, [KernelNext]_allVars PROVE HighInv'
    OBVIOUS
  <2>1. AllInv'
    BY NextCall, NextControl, NextTime, NextRing, NextPriority DEF AllInv, HighInv
  <2>2. LendInv' /\ (Level' \/ Switches')
    BY <2>1, NextHigh DEF AllInv
  <2>3. QED
    BY <2>1, <2>2 DEF HighInv
<1>3. HighInv => HighestRuns
  <2> SUFFICES ASSUME HighInv, uxSchedulerSuspended = 0, ~Critical, ~pendSV
               PROVE  /\ \A t \in Ready :
                            \/ uxPriority[t] <= uxPriority[pxCurrentTCB]
                            \/ \E w \in Ready : WaitedInVain(w) /\ uxPriority[t] <= uxPriority[w]
                      /\ pxCurrentTCB \in Ready \/ at[pxCurrentTCB] = "yield"
    BY DEF HighestRuns
  <2>1. Level
    BY DEF HighInv, Switches
  <2>2. pxCurrentTCB \in Ready \/ at[pxCurrentTCB] = "yield"
    BY DEF HighInv, AllInv, ControlInv, RunInv, Ready, Leaving, InSuspension, Critical
  <2>3. QED
    BY <2>1, <2>2 DEF Level, Excused
<1>4. QED
  BY <1>1, <1>2, <1>3, PTL DEF KernelSpec

================================================================================
