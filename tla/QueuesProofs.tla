----------------------------- MODULE QueuesProofs -----------------------------
(***************************************************************************)
(* Proofs about the kernel's queues, time and wake-ups.                    *)
(***************************************************************************)
EXTENDS Queues, SetLemmas, SequenceTheorems, TLAPS

(***************************************************************************)
(* The ring of a queue.                                                    *)
(***************************************************************************)

\* Indices go round at most once.
LEMMA ModOnce ==
  ASSUME NEW n \in Nat \ {0}, NEW a \in Nat, a < n + n
  PROVE  a % n = IF a < n THEN a ELSE a - n
OBVIOUS

\* The place i places after r.
Slot(n, r, i) == (r + i) % n

LEMMA SlotOnce ==
  ASSUME NEW n \in Nat \ {0}, NEW r \in 0 .. n - 1, NEW i \in 0 .. n
  PROVE  /\ Slot(n, r, i) = IF r + i < n THEN r + i ELSE r + i - n
         /\ Slot(n, r, i) \in 0 .. n - 1
<1>1. PICK a \in Nat : a = r + i
  OBVIOUS
<1>2. a < n + n
  BY <1>1
<1>3. a % n = IF a < n THEN a ELSE a - n
  BY <1>2, ModOnce
<1>4. QED
  BY <1>1, <1>3 DEF Slot

\* Going on from a place.
LEMMA SlotAgain ==
  ASSUME NEW n \in Nat \ {0}, NEW r \in 0 .. n - 1, NEW i \in 0 .. n
  PROVE  Slot(n, Slot(n, r, i), 1) = Slot(n, r, i + 1)
<1>1. Slot(n, r, i) = (IF r + i < n THEN r + i ELSE r + i - n) /\ Slot(n, r, i) \in 0 .. n - 1
  BY SlotOnce
<1>2. \A s \in 0 .. n - 1 : Slot(n, s, 1) = IF s + 1 < n THEN s + 1 ELSE s + 1 - n
  BY SlotOnce
<1>3. Slot(n, Slot(n, r, i), 1) = IF Slot(n, r, i) + 1 < n THEN Slot(n, r, i) + 1
                                  ELSE Slot(n, r, i) + 1 - n
  BY <1>1, <1>2
<1>4. CASE i < n
  <2>1. Slot(n, r, i + 1) = IF r + (i + 1) < n THEN r + (i + 1) ELSE r + (i + 1) - n
    BY <1>4, SlotOnce
  <2>2. CASE r + i < n
    BY <1>1, <1>3, <2>1, <2>2
  <2>3. CASE r + i >= n
    BY <1>1, <1>3, <1>4, <2>1, <2>3
  <2>4. QED
    BY <2>2, <2>3
<1>5. CASE i = n /\ r < n - 1
  <2>1. PICK a \in Nat : a = r + (i + 1)
    OBVIOUS
  <2>2. a < n + n
    BY <1>5, <2>1
  <2>3. a % n = IF a < n THEN a ELSE a - n
    BY <2>2, ModOnce
  <2>4. Slot(n, r, i + 1) = IF r + (i + 1) < n THEN r + (i + 1) ELSE r + (i + 1) - n
    BY <2>1, <2>3 DEF Slot
  <2>5. QED
    BY <1>1, <1>3, <1>5, <2>4
<1>6. CASE i = n /\ r = n - 1
  <2>1. (n + n) % n = 0
    OBVIOUS
  <2>2. Slot(n, r, i + 1) = 0
    <3>1. r + (i + 1) = n + n
      BY <1>6
    <3>2. QED
      BY <2>1, <3>1 DEF Slot
  <2>3. QED
    BY <1>1, <1>3, <1>6, <2>2
<1>7. QED
  BY <1>4, <1>5, <1>6

LEMMA SlotFromNext ==
  ASSUME NEW n \in Nat \ {0}, NEW r \in 0 .. n - 1, NEW i \in 0 .. n - 1
  PROVE  Slot(n, Slot(n, r, 1), i) = Slot(n, r, i + 1)
<1>1. Slot(n, r, 1) = (IF r + 1 < n THEN r + 1 ELSE r + 1 - n) /\ Slot(n, r, 1) \in 0 .. n - 1
  BY SlotOnce
<1>2. \A s \in 0 .. n - 1 : Slot(n, s, i) = IF s + i < n THEN s + i ELSE s + i - n
  BY SlotOnce
<1>3. Slot(n, r, i + 1) = IF r + (i + 1) < n THEN r + (i + 1) ELSE r + (i + 1) - n
  BY SlotOnce
<1>4. QED
  BY <1>1, <1>2, <1>3

LEMMA SeqIsFunction ==
  ASSUME NEW S, NEW s \in Seq(S)
  PROVE  s = [i \in 1 .. Len(s) |-> s[i]]
OBVIOUS

\* What a ring can hold: 0 at first, and what the calls send.
AllCalls == UNION {UNION {u.calls[t] : t \in Task} : u \in Uses}
Items == {0} \cup {c.item : c \in AllCalls}

\* The m items that follow place r of ring s.
Held(n, s, r, m) == [i \in 1 .. m |-> s[Slot(n, r, i)]]

LEMMA HeldSeq ==
  ASSUME NEW n \in Nat \ {0}, NEW r \in 0 .. n - 1, NEW m \in 0 .. n,
         NEW s \in [0 .. n - 1 -> Items]
  PROVE  Held(n, s, r, m) \in Seq(Items) /\ Len(Held(n, s, r, m)) = m
<1>1. \A i \in 0 .. n : Slot(n, r, i) \in 0 .. n - 1
  BY SlotOnce
<1>2. \A i \in 1 .. m : s[Slot(n, r, i)] \in Items
  <2> SUFFICES ASSUME NEW i \in 1 .. m PROVE s[Slot(n, r, i)] \in Items
    OBVIOUS
  <2>1. i \in 0 .. n
    OBVIOUS
  <2>2. QED
    BY <1>1, <2>1
<1>3. QED
  BY <1>2 DEF Held

\* The contents a ring of n places may have.
Rings(n) == [0 .. n - 1 -> Items]

\* Ring e is ring s with item x at place w.
Puts(n, s, w, x, e) == e[w] = x /\ \A i \in 0 .. n - 1 : i # w => e[i] = s[i]

LEMMA HeldAppend ==
  ASSUME NEW n \in Nat \ {0}, NEW r \in 0 .. n - 1, NEW m \in 0 .. n - 1,
         NEW s \in Rings(n), NEW x \in Items, NEW w \in 0 .. n - 1, w = Slot(n, r, m + 1),
         NEW e \in Rings(n),
         Puts(n, s, w, x, e), NEW k \in 0 .. n, k = m + 1
  PROVE  Held(n, e, r, k) = Append(Held(n, s, r, m), x)
<1> DEFINE h == Held(n, s, r, m)
<1> USE DEF Rings
<1>1. h \in Seq(Items) /\ Len(h) = m
  <2>1. m \in 0 .. n
    OBVIOUS
  <2>2. QED
    BY <2>1, HeldSeq
<1>2. \A i \in 1 .. m + 1 : Slot(n, r, i) = (IF r + i < n THEN r + i ELSE r + i - n)
                            /\ Slot(n, r, i) \in 0 .. n - 1
  <2> SUFFICES ASSUME NEW i \in 1 .. m + 1
               PROVE  Slot(n, r, i) = (IF r + i < n THEN r + i ELSE r + i - n)
                      /\ Slot(n, r, i) \in 0 .. n - 1
    OBVIOUS
  <2>1. i \in 0 .. n
    OBVIOUS
  <2>2. QED
    BY <2>1, SlotOnce
<1>3. \A i \in 1 .. m : Slot(n, r, i) # Slot(n, r, m + 1)
  BY <1>2
<1>4. \A i \in 1 .. m : h[i] = s[Slot(n, r, i)]
  BY DEF Held
<1> HIDE DEF h
<1>5. /\ Append(h, x) \in Seq(Items) /\ Len(Append(h, x)) = m + 1
      /\ \A i \in 1 .. m : Append(h, x)[i] = h[i]
      /\ Append(h, x)[m + 1] = x
  BY <1>1, AppendProperties
<1>6. Append(h, x) = [i \in 1 .. m + 1 |-> Append(h, x)[i]]
  BY <1>5, SeqIsFunction
<1>7. \A i \in 1 .. m + 1 : e[Slot(n, r, i)] = Append(h, x)[i]
  BY <1>2, <1>3, <1>4, <1>5 DEF Puts
<1>8. QED
  BY <1>6, <1>7 DEF Held, h

LEMMA HeldTail ==
  ASSUME NEW n \in Nat \ {0}, NEW r \in 0 .. n - 1, NEW m \in 1 .. n,
         NEW s \in [0 .. n - 1 -> Items], NEW p \in 0 .. n - 1, p = Slot(n, r, 1),
         NEW k \in 0 .. n - 1, k = m - 1
  PROVE  Held(n, s, p, k) = Tail(Held(n, s, r, m))
<1> DEFINE h == Held(n, s, r, m)
<1>1. h \in Seq(Items) /\ Len(h) = m /\ h # <<>>
  <2>1. m \in 0 .. n
    OBVIOUS
  <2>2. h \in Seq(Items) /\ Len(h) = m
    BY <2>1, HeldSeq
  <2>3. QED
    BY <2>2
<1>2. \A i \in 1 .. m : h[i] = s[Slot(n, r, i)]
  BY DEF Held
<1>3. \A i \in 1 .. m - 1 : Slot(n, Slot(n, r, 1), i) = Slot(n, r, i + 1)
  BY SlotFromNext
<1> HIDE DEF h
<1>4. /\ Tail(h) \in Seq(Items) /\ Len(Tail(h)) = m - 1
      /\ \A i \in 1 .. m - 1 : Tail(h)[i] = h[i + 1]
  BY <1>1, HeadTailProperties
<1>5. Tail(h) = [i \in 1 .. m - 1 |-> Tail(h)[i]]
  BY <1>4, SeqIsFunction
<1>6. \A i \in 1 .. m - 1 : s[Slot(n, Slot(n, r, 1), i)] = Tail(h)[i]
  BY <1>2, <1>3, <1>4
<1>7. QED
  BY <1>5, <1>6 DEF Held, h

(***************************************************************************)
(* What the queues hold.                                                   *)
(***************************************************************************)
\* The calls in progress are among those of this execution.
CallInv ==
    /\ use \in Uses
    /\ pxCurrentTCB \in Task
    /\ call \in [Task -> {NoCall} \cup {c \in AllCalls : c.queue \in Queue}]

\* The two places of a ring are as far from each other as the queue has items.
RingInv ==
    /\ uxMessagesWaiting \in [Queue -> Nat]
    /\ \A q \in Queue : uxMessagesWaiting[q] <= uxLength[q]
    /\ storage = [q \in Queue |-> storage[q]]
    /\ \A q \in Queue : storage[q] \in [0 .. uxLength[q] - 1 -> Items]
    /\ pcReadFrom \in [Queue -> Nat] /\ pcWriteTo \in [Queue -> Nat]
    /\ \A q \in Queue : pcReadFrom[q] < uxLength[q] /\ pcWriteTo[q] < uxLength[q]
    /\ \A q \in Queue : Kind[q] = "queue" =>
           pcWriteTo[q] = Slot(uxLength[q], pcReadFrom[q], uxMessagesWaiting[q] + 1)

\* A call in progress is one its queue is made for.
LEMMA CallFits ==
  ASSUME CallInv, NEW t \in Task, call[t].op # "none"
  PROVE  /\ call[t] \in AllCalls /\ call[t].queue \in Queue
         /\ call[t].op \in OpsOf(call[t].queue)
<1>1. call[t] # NoCall
  BY DEF NoCall
<1>2. call[t] \in AllCalls /\ call[t].queue \in Queue
  BY <1>1 DEF CallInv
<1>3. PICK u \in Uses, s \in Task : call[t] \in u.calls[s]
  BY <1>2 DEF AllCalls
<1>4. QED
  BY <1>2, <1>3, QueueAssumption

LEMMA InitCall == QueuesInit => CallInv
BY DEF QueuesInit, SchedulerInit, CallInv

LEMMA NextCall == CallInv /\ [KernelNext]_allVars => CallInv'
<1> SUFFICES ASSUME CallInv, [KernelNext]_allVars PROVE CallInv'
  OBVIOUS
<1>1. CASE UNCHANGED allVars
  BY <1>1 DEF allVars, queueVars, schedulerVars, CallInv
<1>2. CASE SchedulerStep /\ UNCHANGED queueVars
  BY <1>2 DEF queueVars, CallInv, SchedulerStep, SysTick, SysTickPended, vTaskSwitchContext,
              xTaskResumeAll, ResumeTick, ResumeEnds, portYIELD_WITHIN_API, DelayAdds, DelayEnds,
              Ready
<1>3. ASSUME NEW q, xQueueGiveFromISR(q) PROVE CallInv'
  BY <1>3 DEF xQueueGiveFromISR, CallInv
<1>4. ASSUME NEW t \in Task, Calls(t) PROVE CallInv'
  <2>1. PICK c \in use.calls[t] : \/ (vTaskDelay(t, c.wait) \/ HeapSuspends(t) \/ vTaskYield(t))
                                      /\ UNCHANGED queueVars
                                  \/ c.queue \in Queue /\ Begin(t, c)
    BY <1>4 DEF Calls
  <2>2. c \in AllCalls
    BY DEF AllCalls, CallInv
  <2>3. CASE (vTaskDelay(t, c.wait) \/ HeapSuspends(t) \/ vTaskYield(t)) /\ UNCHANGED queueVars
    BY <2>3 DEF vTaskDelay, HeapSuspends, vTaskYield, vTaskSuspendAll, queueVars, CallInv
  <2>4. CASE c.queue \in Queue /\ Begin(t, c)
    BY <2>2, <2>4 DEF Begin, CallInv
  <2>5. QED
    BY <2>1, <2>3, <2>4
<1>5. ASSUME NEW t \in Task, Returns(t) PROVE CallInv'
  BY <1>5 DEF Returns, CallInv
<1>6. ASSUME NEW t \in Task, StepUnchanged PROVE CallInv'
  BY <1>6 DEF StepUnchanged, CallInv
<1>7. ASSUME NEW t \in Task, EntersWait(t) \/ Suspends(t) \/ prvLockQueue(t) PROVE CallInv'
  BY <1>7 DEF EntersWait, Suspends, prvLockQueue, vTaskSuspendAll, queueVars, CallInv
<1>8. ASSUME NEW t \in Task,
             \/ SendProceeds(t) \/ GiveProceeds(t) \/ MutexGiveProceeds(t) \/ ReceiveProceeds(t)
             \/ TakeProceeds(t) \/ GivesUp(t) \/ Expired(t) \/ DisinheritAfterTimeout(t)
      PROVE  Returns(t)
  BY <1>8 DEF SendProceeds, GiveProceeds, MutexGiveProceeds, ReceiveProceeds, TakeProceeds, GivesUp,
              Expired, DisinheritAfterTimeout, Proceeds
<1>9. ASSUME NEW t \in Task,
             \/ CheckForTimeOut(t) \/ Looks(t) \/ xTaskPriorityInherit(t) \/ Place(t)
             \/ prvUnlockQueue(t) \/ prvUnlockQueueRx(t) \/ ExpiredLooks(t)
      PROVE  StepUnchanged
  BY <1>9 DEF CheckForTimeOut, Looks, xTaskPriorityInherit, Place, prvUnlockQueue, prvUnlockQueueRx,
              ExpiredLooks
<1>10. CASE KernelNext
  BY <1>2, <1>3, <1>4, <1>5, <1>6, <1>7, <1>8, <1>9, <1>10 DEF KernelNext
<1>11. QED
  BY <1>1, <1>10


\* The steps that change what a queue holds.
LEMMA RingSteps ==
  ASSUME CallInv, [KernelNext]_allVars
  PROVE  \/ UNCHANGED <<uxMessagesWaiting, ring>>
         \/ \E t \in Task : \/ SendProceeds(t) \/ GiveProceeds(t) \/ MutexGiveProceeds(t)
                            \/ ReceiveProceeds(t) \/ TakeProceeds(t)
         \/ \E q \in use.isr : xQueueGiveFromISR(q)
<1>1. CASE UNCHANGED allVars
  BY <1>1 DEF allVars, queueVars
<1>2. CASE SchedulerStep /\ UNCHANGED queueVars
  BY <1>2 DEF queueVars
<1>3. ASSUME NEW t \in Task, Calls(t) PROVE UNCHANGED <<uxMessagesWaiting, ring>>
  BY <1>3 DEF Calls, Begin, queueVars
<1>4. ASSUME NEW t \in Task, StepUnchanged PROVE UNCHANGED <<uxMessagesWaiting, ring>>
  BY <1>4 DEF StepUnchanged
<1>5. ASSUME NEW t \in Task,
             \/ EntersWait(t) \/ Suspends(t) \/ prvLockQueue(t) \/ GivesUp(t) \/ Expired(t)
             \/ DisinheritAfterTimeout(t)
      PROVE  UNCHANGED <<uxMessagesWaiting, ring>>
  BY <1>5 DEF EntersWait, Suspends, prvLockQueue, GivesUp, Expired, DisinheritAfterTimeout, queueVars
<1>6. ASSUME NEW t \in Task,
             \/ CheckForTimeOut(t) \/ Looks(t) \/ xTaskPriorityInherit(t) \/ Place(t)
             \/ prvUnlockQueue(t) \/ prvUnlockQueueRx(t) \/ ExpiredLooks(t)
      PROVE  StepUnchanged
  BY <1>6 DEF CheckForTimeOut, Looks, xTaskPriorityInherit, Place, prvUnlockQueue, prvUnlockQueueRx,
              ExpiredLooks
<1>7. CASE KernelNext
  BY <1>2, <1>3, <1>4, <1>5, <1>6, <1>7 DEF KernelNext
<1>8. QED
  BY <1>1, <1>7

LEMMA InitRing == QueuesInit => RingInv
<1> SUFFICES ASSUME QueuesInit PROVE RingInv
  OBVIOUS
<1>1. /\ uxMessagesWaiting = [q \in Queue |-> IF Kind[q] = "mutex" THEN 1 ELSE 0]
      /\ storage = [q \in Queue |-> [i \in 0 .. uxLength[q] - 1 |-> 0]]
      /\ pcWriteTo = [q \in Queue |-> 0]
      /\ pcReadFrom = [q \in Queue |-> uxLength[q] - 1]
  BY DEF QueuesInit
<1>2. \A q \in Queue : uxLength[q] \in Nat \ {0}
  BY QueueAssumption
<1>3. \A q \in Queue : storage[q] \in [0 .. uxLength[q] - 1 -> Items]
  BY <1>1, <1>2 DEF Items
<1>4. storage = [q \in Queue |-> storage[q]]
  BY <1>1
<1>5. uxMessagesWaiting \in [Queue -> Nat] /\ \A q \in Queue : uxMessagesWaiting[q] <= uxLength[q]
  BY <1>1, <1>2
<1>6. /\ pcReadFrom \in [Queue -> Nat] /\ pcWriteTo \in [Queue -> Nat]
      /\ \A q \in Queue : pcReadFrom[q] < uxLength[q] /\ pcWriteTo[q] < uxLength[q]
  BY <1>1, <1>2
<1>7. ASSUME NEW q \in Queue, Kind[q] = "queue"
      PROVE  pcWriteTo[q] = Slot(uxLength[q], pcReadFrom[q], uxMessagesWaiting[q] + 1)
  <2>1. pcWriteTo[q] = 0 /\ pcReadFrom[q] = uxLength[q] - 1 /\ uxMessagesWaiting[q] = 0
    BY <1>1, <1>7
  <2>2. Slot(uxLength[q], uxLength[q] - 1, 1) = 0
    BY <1>2, SlotOnce
  <2>3. QED
    BY <2>1, <2>2
<1>8. QED
  BY <1>3, <1>4, <1>5, <1>6, <1>7 DEF RingInv

\* What a queue holds, as a sequence.
LEMMA ContentsHeld ==
  ASSUME NEW q \in Queue
  PROVE  /\ Contents(q) = Held(uxLength[q], storage[q], pcReadFrom[q], uxMessagesWaiting[q])
         /\ Contents(q)' = Held(uxLength[q], storage'[q], pcReadFrom'[q], uxMessagesWaiting'[q])
BY DEF Contents, Held, Slot

\* The types of one queue.
LEMMA OneRing ==
  ASSUME RingInv, NEW q \in Queue
  PROVE  /\ uxLength[q] \in Nat \ {0} /\ uxMessagesWaiting[q] \in 0 .. uxLength[q]
         /\ pcReadFrom[q] \in 0 .. uxLength[q] - 1 /\ pcWriteTo[q] \in 0 .. uxLength[q] - 1
         /\ storage[q] \in [0 .. uxLength[q] - 1 -> Items]
<1>1. uxLength[q] \in Nat \ {0}
  BY QueueAssumption
<1>2. QED
  BY <1>1 DEF RingInv

\* Queue z becomes a ring with other places and another number of items.
LEMMA RingChanges ==
  ASSUME RingInv, NEW z \in Queue, NEW k \in 0 .. uxLength[z],
         NEW p \in 0 .. uxLength[z] - 1, NEW v \in 0 .. uxLength[z] - 1,
         NEW d \in [0 .. uxLength[z] - 1 -> Items],
         Kind[z] = "queue" => v = Slot(uxLength[z], p, k + 1),
         uxMessagesWaiting' = [uxMessagesWaiting EXCEPT ![z] = k],
         pcReadFrom' = [pcReadFrom EXCEPT ![z] = p], pcWriteTo' = [pcWriteTo EXCEPT ![z] = v],
         storage' = [storage EXCEPT ![z] = d]
  PROVE  /\ RingInv'
         /\ Contents(z)' = Held(uxLength[z], d, p, k)
         /\ \A q \in Queue : q # z => Contents(q)' = Contents(q)
<1>1. /\ uxLength[z] \in Nat \ {0} /\ k \in Nat /\ p \in Nat /\ v \in Nat
      /\ k <= uxLength[z] /\ p < uxLength[z] /\ v < uxLength[z]
  BY QueueAssumption
<1>2. /\ uxMessagesWaiting'[z] = k /\ pcReadFrom'[z] = p /\ pcWriteTo'[z] = v /\ storage'[z] = d
      /\ \A q \in Queue : q # z => /\ uxMessagesWaiting'[q] = uxMessagesWaiting[q]
                                  /\ pcReadFrom'[q] = pcReadFrom[q] /\ pcWriteTo'[q] = pcWriteTo[q]
                                  /\ storage'[q] = storage[q]
  BY DEF RingInv
<1>3. /\ uxMessagesWaiting' \in [Queue -> Nat] /\ pcReadFrom' \in [Queue -> Nat]
      /\ pcWriteTo' \in [Queue -> Nat] /\ storage' = [q \in Queue |-> storage'[q]]
  BY <1>1 DEF RingInv
<1>4. ASSUME NEW q \in Queue
      PROVE  /\ uxMessagesWaiting'[q] <= uxLength[q]
             /\ storage'[q] \in [0 .. uxLength[q] - 1 -> Items]
             /\ pcReadFrom'[q] < uxLength[q] /\ pcWriteTo'[q] < uxLength[q]
             /\ Kind[q] = "queue" =>
                   pcWriteTo'[q] = Slot(uxLength[q], pcReadFrom'[q], uxMessagesWaiting'[q] + 1)
  <2>1. CASE q = z
    BY <1>1, <1>2, <2>1
  <2>2. CASE q # z
    BY <1>2, <2>2 DEF RingInv
  <2>3. QED
    BY <2>1, <2>2
<1>5. RingInv'
  BY <1>3, <1>4 DEF RingInv
<1>6. QED
  BY <1>2, <1>5, ContentsHeld

\* A send appends its item.
LEMMA SendRing ==
  ASSUME CallInv, RingInv, NEW t \in Task, SendProceeds(t)
  PROVE  /\ RingInv'
         /\ \A q \in Queue : q = call[t].queue => Contents(q)' = Append(Contents(q), call[t].item)
         /\ \A q \in Queue : q # call[t].queue => Contents(q)' = Contents(q)
         /\ t = pxCurrentTCB /\ call[t].op = "send"
<1>1. t = pxCurrentTCB /\ call[t].op = "send"
  BY DEF SendProceeds, Proceeds, Runs
<1>2. call[t] \in AllCalls /\ call[t].queue \in Queue /\ call[t].op \in OpsOf(call[t].queue)
  BY <1>1, CallFits
<1>3. PICK z \in Queue : z = call[t].queue
  BY <1>2
<1>4. PICK x \in Items : x = call[t].item
  BY <1>2 DEF Items
<1>5. Kind[z] = "queue"
  BY <1>1, <1>2, <1>3 DEF OpsOf
<1>6. PICK n \in Nat \ {0} : n = uxLength[z]
  BY OneRing
<1>7. uxMessagesWaiting[z] # uxLength[z]
  BY <1>1, <1>3 DEF SendProceeds, Proceeds, Stuck, Full
<1>8. PICK m \in 0 .. n - 1, r \in 0 .. n - 1, w \in 0 .. n - 1, d \in [0 .. n - 1 -> Items] :
         m = uxMessagesWaiting[z] /\ r = pcReadFrom[z] /\ w = pcWriteTo[z] /\ d = storage[z]
  BY <1>6, <1>7, OneRing
<1>9. w = Slot(n, r, m + 1)
  BY <1>5, <1>6, <1>8 DEF RingInv
<1>10. /\ storage' = [storage EXCEPT ![z] = [d EXCEPT ![w] = x]] /\ pcReadFrom' = pcReadFrom
       /\ pcWriteTo' = [pcWriteTo EXCEPT ![z] = Slot(n, w, 1)]
       /\ uxMessagesWaiting' = [uxMessagesWaiting EXCEPT ![z] = m + 1]
  BY <1>3, <1>4, <1>6, <1>8 DEF SendProceeds, After, Slot
<1>11. PICK e \in [0 .. n - 1 -> Items] : e = [d EXCEPT ![w] = x]
  OBVIOUS
<1>12. PICK k \in 0 .. n : k = m + 1
  OBVIOUS
<1>13. PICK v \in 0 .. n - 1 : v = Slot(n, w, 1)
  BY SlotOnce
<1>14. v = Slot(n, r, k + 1)
  BY <1>9, <1>12, <1>13, SlotAgain
<1>15. pcReadFrom' = [pcReadFrom EXCEPT ![z] = r]
  BY <1>8, <1>10 DEF RingInv
<1>16. /\ storage' = [storage EXCEPT ![z] = e] /\ pcWriteTo' = [pcWriteTo EXCEPT ![z] = v]
       /\ uxMessagesWaiting' = [uxMessagesWaiting EXCEPT ![z] = k]
  BY <1>10, <1>11, <1>12, <1>13
<1>17. /\ RingInv' /\ Contents(z)' = Held(n, e, r, k)
       /\ \A q \in Queue : q # z => Contents(q)' = Contents(q)
  BY <1>6, <1>14, <1>15, <1>16, RingChanges
<1>18. Contents(z) = Held(n, d, r, m)
  BY <1>6, <1>8, ContentsHeld
<1>21. Puts(n, d, w, x, e)
  BY <1>11 DEF Puts
<1>19. Held(n, e, r, k) = Append(Held(n, d, r, m), x)
  <2>1. d \in Rings(n) /\ e \in Rings(n)
    BY DEF Rings
  <2>2. QED
    BY <1>9, <1>12, <1>21, <2>1, HeldAppend
<1>20. QED
  BY <1>1, <1>3, <1>4, <1>17, <1>18, <1>19

\* A receive takes the oldest item.
LEMMA ReceiveRing ==
  ASSUME CallInv, RingInv, NEW t \in Task, ReceiveProceeds(t)
  PROVE  /\ RingInv'
         /\ \A q \in Queue : q = call[t].queue => Contents(q)' = Tail(Contents(q))
         /\ \A q \in Queue : q # call[t].queue => Contents(q)' = Contents(q)
         /\ t = pxCurrentTCB /\ call[t].op = "receive"
<1>1. t = pxCurrentTCB /\ call[t].op = "receive"
  BY DEF ReceiveProceeds, Proceeds, Runs
<1>2. call[t].queue \in Queue /\ call[t].op \in OpsOf(call[t].queue)
  BY <1>1, CallFits
<1>3. PICK z \in Queue : z = call[t].queue
  BY <1>2
<1>4. Kind[z] = "queue"
  BY <1>1, <1>2, <1>3 DEF OpsOf
<1>5. PICK n \in Nat \ {0} : n = uxLength[z]
  BY OneRing
<1>6. uxMessagesWaiting[z] # 0
  BY <1>1, <1>3 DEF ReceiveProceeds, Proceeds, Stuck, Empty
<1>7. PICK m \in 1 .. n, r \in 0 .. n - 1, w \in 0 .. n - 1, d \in [0 .. n - 1 -> Items] :
         m = uxMessagesWaiting[z] /\ r = pcReadFrom[z] /\ w = pcWriteTo[z] /\ d = storage[z]
  BY <1>5, <1>6, OneRing
<1>8. w = Slot(n, r, m + 1)
  BY <1>4, <1>5, <1>7 DEF RingInv
<1>9. /\ storage' = storage /\ pcWriteTo' = pcWriteTo
      /\ pcReadFrom' = [pcReadFrom EXCEPT ![z] = Slot(n, r, 1)]
      /\ uxMessagesWaiting' = [uxMessagesWaiting EXCEPT ![z] = m - 1]
  BY <1>3, <1>5, <1>7 DEF ReceiveProceeds, After, Slot
<1>10. PICK k \in 0 .. n - 1 : k = m - 1
  OBVIOUS
<1>11. PICK p \in 0 .. n - 1 : p = Slot(n, r, 1)
  BY SlotOnce
<1>12. w = Slot(n, p, k + 1)
  <2>1. Slot(n, p, k) = Slot(n, r, k + 1)
    BY <1>11, SlotFromNext
  <2>2. Slot(n, Slot(n, p, k), 1) = Slot(n, p, k + 1)
    BY SlotAgain
  <2>3. Slot(n, Slot(n, r, m), 1) = Slot(n, r, m + 1)
    BY SlotAgain
  <2>4. QED
    BY <1>8, <1>10, <2>1, <2>2, <2>3
<1>13. k \in 0 .. n
  OBVIOUS
<1>14. storage' = [storage EXCEPT ![z] = d] /\ pcWriteTo' = [pcWriteTo EXCEPT ![z] = w]
  BY <1>7, <1>9 DEF RingInv
<1>19. uxMessagesWaiting' = [uxMessagesWaiting EXCEPT ![z] = k]
       /\ pcReadFrom' = [pcReadFrom EXCEPT ![z] = p]
  BY <1>9, <1>10, <1>11
<1>15. /\ RingInv' /\ Contents(z)' = Held(n, d, p, k)
       /\ \A q \in Queue : q # z => Contents(q)' = Contents(q)
  BY <1>5, <1>12, <1>13, <1>14, <1>19, RingChanges
<1>16. Contents(z) = Held(n, d, r, m)
  BY <1>5, <1>7, ContentsHeld
<1>17. Held(n, d, p, k) = Tail(Held(n, d, r, m))
  BY <1>10, <1>11, HeldTail
<1>18. QED
  BY <1>1, <1>3, <1>15, <1>16, <1>17

\* Semaphores and mutexes only count.
LEMMA CountRing ==
  ASSUME CallInv, RingInv, UNCHANGED ring, NEW z \in Queue, Kind[z] # "queue",
         \/ uxMessagesWaiting[z] # uxLength[z]
            /\ uxMessagesWaiting' = [uxMessagesWaiting EXCEPT ![z] = @ + 1]
         \/ uxMessagesWaiting[z] # 0
            /\ uxMessagesWaiting' = [uxMessagesWaiting EXCEPT ![z] = @ - 1]
  PROVE  RingInv' /\ \A q \in Queue : Kind[q] = "queue" => Contents(q)' = Contents(q)
<1>1. \A q \in Queue : uxLength[q] \in Nat \ {0} /\ uxMessagesWaiting[q] \in 0 .. uxLength[q]
  BY OneRing
<1>2. /\ uxMessagesWaiting' \in [Queue -> Nat]
      /\ \A q \in Queue : uxMessagesWaiting'[q] <= uxLength[q]
      /\ \A q \in Queue : q # z => uxMessagesWaiting'[q] = uxMessagesWaiting[q]
  <2>1. CASE uxMessagesWaiting[z] # uxLength[z]
             /\ uxMessagesWaiting' = [uxMessagesWaiting EXCEPT ![z] = @ + 1]
    BY <1>1, <2>1 DEF RingInv
  <2>2. CASE uxMessagesWaiting[z] # 0
             /\ uxMessagesWaiting' = [uxMessagesWaiting EXCEPT ![z] = @ - 1]
    BY <1>1, <2>2 DEF RingInv
  <2>3. QED
    BY <2>1, <2>2
<1>3. RingInv'
  BY <1>2 DEF RingInv, ring
<1>4. QED
  BY <1>2, <1>3, ContentsHeld DEF ring

\* What every step does to the queues.
LEMMA NextRing ==
  ASSUME CallInv, RingInv, [KernelNext]_allVars
  PROVE  /\ RingInv'
         /\ \A q \in Queue : Kind[q] = "queue" /\ Contents(q)' # Contents(q) =>
               LET c == call[pxCurrentTCB]
               IN  /\ c.queue = q
                   /\ \/ c.op = "send" /\ Contents(q)' = Append(Contents(q), c.item)
                      \/ c.op = "receive" /\ Contents(q)' = Tail(Contents(q))
<1>1. CASE UNCHANGED <<uxMessagesWaiting, ring>>
  BY <1>1, ContentsHeld DEF RingInv, ring
<1>2. CASE \E t \in Task : SendProceeds(t)
  <2>1. PICK t \in Task : SendProceeds(t)
    BY <1>2
  <2>2. /\ RingInv' /\ t = pxCurrentTCB /\ call[t].op = "send"
        /\ \A q \in Queue : q = call[t].queue => Contents(q)' = Append(Contents(q), call[t].item)
        /\ \A q \in Queue : q # call[t].queue => Contents(q)' = Contents(q)
    BY <2>1, SendRing
  <2>3. QED
    BY <2>2
<1>3. CASE \E t \in Task : ReceiveProceeds(t)
  <2>1. PICK t \in Task : ReceiveProceeds(t)
    BY <1>3
  <2>2. /\ RingInv' /\ t = pxCurrentTCB /\ call[t].op = "receive"
        /\ \A q \in Queue : q = call[t].queue => Contents(q)' = Tail(Contents(q))
        /\ \A q \in Queue : q # call[t].queue => Contents(q)' = Contents(q)
    BY <2>1, ReceiveRing
  <2>3. QED
    BY <2>2
<1>4. ASSUME NEW t \in Task, GiveProceeds(t) \/ MutexGiveProceeds(t) \/ TakeProceeds(t)
      PROVE  RingInv' /\ \A q \in Queue : Kind[q] = "queue" => Contents(q)' = Contents(q)
  <2> DEFINE z == call[t].queue
  <2>1. call[t].op \in {"give", "take"} /\ UNCHANGED ring
    BY <1>4 DEF GiveProceeds, MutexGiveProceeds, TakeProceeds, Proceeds
  <2>2. z \in Queue /\ call[t].op \in OpsOf(z)
    BY <2>1, CallFits
  <2>3. Kind[z] # "queue"
    BY <2>1, <2>2 DEF OpsOf
  <2>4. \/ uxMessagesWaiting[z] # uxLength[z]
           /\ uxMessagesWaiting' = [uxMessagesWaiting EXCEPT ![z] = @ + 1]
        \/ uxMessagesWaiting[z] # 0
           /\ uxMessagesWaiting' = [uxMessagesWaiting EXCEPT ![z] = @ - 1]
    BY <1>4 DEF GiveProceeds, MutexGiveProceeds, TakeProceeds, Proceeds, Stuck, Full, Empty
  <2> HIDE DEF z
  <2>5. QED
    BY <2>1, <2>2, <2>3, <2>4, CountRing
<1>5. ASSUME NEW q \in use.isr, xQueueGiveFromISR(q)
      PROVE  RingInv' /\ \A z \in Queue : Kind[z] = "queue" => Contents(z)' = Contents(z)
  <2>1. q \in Queue /\ Kind[q] # "queue"
    BY QueueAssumption DEF CallInv
  <2>2. QED
    BY <1>5, <2>1, CountRing DEF xQueueGiveFromISR, Full
<1>6. QED
  BY <1>1, <1>2, <1>3, <1>4, <1>5, RingSteps

\* For any tasks, queues, lengths and calls, with interrupts between any two steps: what is sent to
\* a queue is received once and in order, and nothing else changes what it holds.
THEOREM QueuesFifo == KernelSpec => QueueFifo
<1>1. QueuesInit => CallInv /\ RingInv
  BY InitCall, InitRing
<1>2. CallInv /\ RingInv /\ [KernelNext]_allVars => CallInv' /\ RingInv'
  BY NextCall, NextRing
<1>3. CallInv /\ RingInv /\ [KernelNext]_allVars =>
          [\A q \in Queue : Kind[q] = "queue" /\ Contents(q)' # Contents(q) =>
             LET c == call[pxCurrentTCB]
             IN  /\ c.queue = q
                 /\ \/ c.op = "send" /\ Contents(q)' = Append(Contents(q), c.item)
                    \/ c.op = "receive" /\ Contents(q)' = Tail(Contents(q))]_allVars
  BY NextRing
<1>4. QED
  BY <1>1, <1>2, <1>3, PTL DEF KernelSpec, QueueFifo

(***************************************************************************)
(* The inductive invariants behind NotEarly and NoOversleep: where each    *)
(* task is, on which lists, and how far from the time it asked for.        *)
(***************************************************************************)

\* Where a task is that has suspended the scheduler; that has perhaps put itself on a list and
\* still runs; that is in a call which waits.
InSuspension == {"delay", "lock", "check", "test", "inherit", "place", "unlock", "unlockRx", "resume"}
Leaving == {"unlock", "unlockRx", "resume", "ticks", "yield"}
InWait == {"suspend", "lock", "check", "test", "inherit", "place"}
InCall == InWait \cup {"enter", "unlock", "unlockRx", "expired", "disinherit"}
Places == {"out", "slept"} \cup InCall \cup InSuspension \cup Leaving

InTurn == {"block", "again", "expire"}

\* What may follow where a task is.
FollowUps(place) ==
    CASE place = "delay" -> {"sleep"}
      [] place \in {"unlock", "unlockRx"} -> InTurn
      [] place \in {"resume", "ticks"} -> {"sleep", "hold"} \cup InTurn
      [] place = "yield" -> {"sleep", "block"}
      [] OTHER -> {"none"}

\* The tasks in an event list, or woken from one while the scheduler is suspended.
OnEvent == xPendingReadyList \cup UNION {Range(event[l]) : l \in EventList}

\* Who waits for an event waits for one, and is blocked.
ListInv ==
    /\ Blocked \subseteq Task
    /\ event \in [EventList -> Seq(Task)]
    /\ OnEvent \subseteq Blocked
    /\ \A l \in EventList : Range(event[l]) \cap xPendingReadyList = {}
    /\ \A l, m \in EventList : l # m => Range(event[l]) \cap Range(event[m]) = {}
    /\ uxSchedulerSuspended = 0 => xPendingReadyList = {}
    /\ cTxLock \in [Queue -> Int] /\ cRxLock \in [Queue -> Int]

PlaceInv ==
    /\ at \in [Task -> Places]
    /\ then \in [Task -> {"none", "sleep", "hold"} \cup InTurn]
    /\ \A t \in Task :
          /\ then[t] \in FollowUps(at[t])
          /\ at[t] \in InCall \/ then[t] \in InTurn => call[t].op # "none"
          /\ t \in OnEvent => at[t] = "enter" \/ then[t] = "block"

\* Only the task that runs has suspended the scheduler, and it is not blocked unless it is
\* about to be switched out.
RunInv ==
    /\ pxCurrentTCB \in Task
    /\ uxSchedulerSuspended = IF at[pxCurrentTCB] \in InSuspension THEN 1 ELSE 0
    /\ \A t \in Task : at[t] \in InSuspension \cup {"ticks"} => t = pxCurrentTCB
    /\ \/ pxCurrentTCB \notin Blocked
       \/ pendSV /\ at[pxCurrentTCB] \notin InSuspension \cup {"ticks"}
       \/ at[pxCurrentTCB] \in Leaving /\ then[pxCurrentTCB] \in {"sleep", "block"}

ControlInv == ListInv /\ PlaceInv /\ RunInv

\* Ticks are pended only while the scheduler is suspended, or worked off.
ClockInv ==
    /\ xTickCount \in TickType /\ uxPendedTicks \in Nat
    /\ uxSchedulerSuspended = 0 /\ ~Critical => uxPendedTicks = 0
    /\ xItemValue \in [Task -> TickType] /\ xTicksToWait \in [Task -> TickType]
    /\ left \in [Task -> Int] /\ xEntryTimeSet \in [Task -> BOOLEAN] /\ DOMAIN xTimeOut = Task
    /\ \A t \in Task : xTimeOut[t].xTimeOnEntering \in TickType

\* A call stores the time of entry before it waits.
WaitAt(t) ==
    /\ left[t] <= NoDeadline
    /\ at[t] \in {"out", "delay", "slept"} \/ then[t] \in {"sleep", "hold"} => ~xEntryTimeSet[t]
    /\ at[t] \in InWait => xEntryTimeSet[t]
    /\ at[t] \in InWait \cup {"delay"} => xTicksToWait[t] > 0

\* The call of task t waits for a time.
Timed(t) == xEntryTimeSet[t] /\ xTicksToWait[t] \notin {0, portMAX_DELAY}

\* Task t is in vTaskDelay, past its place in a delayed list.
Sleeps(t) == at[t] = "slept" \/ (at[t] \in {"resume", "ticks", "yield"} /\ then[t] = "sleep")

\* The ticks until the wake time of task t, in either list, and until its call times out.
Ahead(t) == xItemValue[t] - xTickCount - uxPendedTicks
Remaining(t) == xTicksToWait[t] - Elapsed(xTimeOut[t]) - uxPendedTicks

\* Task t is not ahead of its time.
EarlyAt(t) ==
    /\ at[t] = "delay" => left[t] <= xTicksToWait[t] - uxPendedTicks
    /\ Sleeps(t) => /\ left[t] < NoDeadline
                    /\ \/ left[t] <= 0
                       \/ t \in pxDelayedTaskList /\ left[t] <= Ahead(t)
                       \/ t \in pxOverflowDelayedTaskList /\ left[t] <= Ahead(t) + TickModulus
    /\ Timed(t) => left[t] <= Remaining(t) - (IF Wrapped(xTimeOut[t]) THEN TickModulus ELSE 0)
    /\ then[t] = "expire" \/ at[t] = "expired" => left[t] <= 0

\* Task t is not behind.
LateAt(t) ==
    /\ t \in pxDelayedTaskList =>
           /\ xTickCount < xItemValue[t] /\ xNextTaskUnblockTime <= xItemValue[t]
           /\ left[t] >= Ahead(t)
    /\ t \in pxOverflowDelayedTaskList => left[t] >= Ahead(t) + TickModulus
    /\ left[t] >= -MaxLate
    /\ at[t] = "delay" \/ (at[t] \in {"test", "inherit", "place"} /\ Timed(t)) =>
           left[t] >= xTicksToWait[t] - uxPendedTicks
    /\ Timed(t) => left[t] >= Remaining(t)
    /\ at[t] # "delay" /\ xTicksToWait[t] \notin {0, portMAX_DELAY} =>
           xTicksToWait[t] + MaxLate < TickModulus

TimeInv == ClockInv /\ \A t \in Task : WaitAt(t) /\ EarlyAt(t)
LateInv == xNextTaskUnblockTime \in TickType /\ \A t \in Task : LateAt(t)

\* The places of a list up to i: what is kept of them.
Kept(f, s, S, n) ==
    f = [i \in 0 .. n |-> IF i = 0 THEN <<>>
                          ELSE IF s[i] \in S THEN f[i - 1] ELSE Append(f[i - 1], s[i])]

LEMMA KeptExists ==
  ASSUME NEW s, NEW S, NEW n \in Nat
  PROVE  \E f : Kept(f, s, S, n)
<1> DEFINE Bad == {k \in Nat : ~ \E f : Kept(f, s, S, k)}
<1> SUFFICES ASSUME Bad # {} PROVE FALSE
  OBVIOUS
<1>1. PICK k \in Bad : \A c \in Bad : k <= c
  BY LeastNumber
<1>2. k # 0
  <2> DEFINE g == [i \in 0 .. 0 |-> <<>>]
  <2>1. Kept(g, s, S, 0)
    BY DEF Kept
  <2>2. QED
    BY <2>1
<1>3. k \in Nat /\ k - 1 \in Nat /\ k - 1 \notin Bad
  BY <1>1, <1>2
<1>4. PICK f : Kept(f, s, S, k - 1)
  BY <1>3
<1> DEFINE h == [i \in 0 .. k |-> IF i < k THEN f[i]
                                  ELSE IF s[k] \in S THEN f[k - 1] ELSE Append(f[k - 1], s[k])]
<1>5. ASSUME NEW i \in 0 .. k
      PROVE  h[i] = IF i = 0 THEN <<>>
                    ELSE IF s[i] \in S THEN h[i - 1] ELSE Append(h[i - 1], s[i])
  <2>1. CASE i = k
    BY <1>2, <1>3, <2>1
  <2>2. CASE i < k
    <3>1. i \in 0 .. k - 1 /\ h[i] = f[i] /\ (i # 0 => h[i - 1] = f[i - 1])
      BY <1>3, <2>2
    <3>2. f[i] = IF i = 0 THEN <<>> ELSE IF s[i] \in S THEN f[i - 1] ELSE Append(f[i - 1], s[i])
      BY <1>4, <3>1 DEF Kept
    <3>3. QED
      BY <3>1, <3>2
  <2>3. QED
    BY <1>3, <2>1, <2>2
<1>6. Kept(h, s, S, k)
  <2>1. h = [i \in 0 .. k |-> h[i]]
    OBVIOUS
  <2> HIDE DEF h
  <2>2. QED
    BY <1>5, <2>1 DEF Kept
<1>7. QED
  BY <1>1, <1>6

\* What an item at the end adds to a list.
LEMMA AppendRange ==
  ASSUME NEW T, NEW s \in Seq(T), NEW x \in T
  PROVE  Append(s, x) \in Seq(T) /\ Range(Append(s, x)) \subseteq Range(s) \cup {x}
<1>1. /\ Append(s, x) \in Seq(T) /\ Len(s) \in Nat /\ DOMAIN s = 1 .. Len(s)
      /\ DOMAIN Append(s, x) = 1 .. Len(s) + 1
      /\ \A i \in 1 .. Len(s) : Append(s, x)[i] = s[i]
      /\ Append(s, x)[Len(s) + 1] = x
  BY AppendProperties, LenProperties
<1>2. ASSUME NEW i \in DOMAIN Append(s, x)
      PROVE  Append(s, x)[i] \in Range(s) \cup {x}
  <2>1. i \in 1 .. Len(s) \/ i = Len(s) + 1
    BY <1>1
  <2>2. QED
    BY <1>1, <2>1 DEF Range
<1>3. QED
  BY <1>1, <1>2 DEF Range

\* What is left of a list are tasks of it that are not to be removed.
LEMMA WithoutKeeps ==
  ASSUME NEW T, NEW s \in Seq(T), NEW S
  PROVE  /\ Without(s, S) \in Seq(T)
         /\ Range(Without(s, S)) \subseteq Range(s) \ S
<1>1. Len(s) \in Nat /\ \A i \in 1 .. Len(s) : s[i] \in T
  BY LenProperties
<1> DEFINE n == Len(s)
           g == CHOOSE f : Kept(f, s, S, n)
<1>2. Without(s, S) = g[n]
  BY DEF Without, Kept
<1>3. Kept(g, s, S, n)
  BY <1>1, KeptExists
<1> HIDE DEF g
<1> DEFINE Good(e) == e \in Seq(T) /\ Range(e) \subseteq Range(s) \ S
           Bad == {k \in 0 .. n : ~ Good(g[k])}
<1>4. SUFFICES ASSUME Bad # {} PROVE FALSE
  BY <1>1, <1>2
<1>5. PICK k \in Bad : \A c \in Bad : k <= c
  <2>1. Bad \subseteq Nat
    BY <1>1
  <2> HIDE DEF Bad
  <2>2. QED
    BY <1>4, <2>1, LeastNumber
<1>6. g[k] = IF k = 0 THEN <<>> ELSE IF s[k] \in S THEN g[k - 1] ELSE Append(g[k - 1], s[k])
  BY <1>3 DEF Kept
<1>7. k # 0
  <2> SUFFICES ASSUME k = 0 PROVE FALSE
    OBVIOUS
  <2>1. Range(<<>>) = {} /\ <<>> \in Seq(T)
    BY DEF Range
  <2>2. Good(<<>>)
    BY <2>1
  <2>3. g[k] = <<>>
    BY <1>6
  <2>4. QED
    BY <1>5, <2>2, <2>3
<1>8. k - 1 \in 0 .. n /\ k - 1 \notin Bad /\ k \in 1 .. n
  BY <1>1, <1>5, <1>7
<1> DEFINE e == g[k - 1]
<1>9. e \in Seq(T) /\ Range(e) \subseteq Range(s) \ S
  BY <1>8
<1>10. s[k] \in T /\ s[k] \in Range(s)
  BY <1>1, <1>8, LenProperties DEF Range
<1> HIDE DEF e
<1>11. CASE s[k] \in S
  BY <1>6, <1>7, <1>9, <1>11 DEF e
<1>12. CASE s[k] \notin S
  <2>1. Append(e, s[k]) \in Seq(T) /\ Range(Append(e, s[k])) \subseteq Range(e) \cup {s[k]}
    BY <1>9, <1>10, AppendRange
  <2>2. Good(Append(e, s[k]))
    BY <1>9, <1>10, <1>12, <2>1
  <2>3. QED
    BY <1>6, <1>7, <1>12, <2>2 DEF e
<1>13. QED
  BY <1>11, <1>12


LEMMA ConcatRange ==
  ASSUME NEW T, NEW s \in Seq(T), NEW u \in Seq(T)
  PROVE  s \o u \in Seq(T) /\ Range(s \o u) \subseteq Range(s) \cup Range(u)
<1>1. /\ s \o u \in Seq(T) /\ Len(s) \in Nat /\ Len(u) \in Nat
      /\ DOMAIN s = 1 .. Len(s) /\ DOMAIN u = 1 .. Len(u)
      /\ DOMAIN (s \o u) = 1 .. Len(s) + Len(u)
      /\ \A i \in 1 .. Len(s) + Len(u) :
             (s \o u)[i] = IF i <= Len(s) THEN s[i] ELSE u[i - Len(s)]
  BY ConcatProperties, LenProperties
<1>2. ASSUME NEW i \in DOMAIN (s \o u)
      PROVE  (s \o u)[i] \in Range(s) \cup Range(u)
  <2>1. i \in 1 .. Len(s) \/ (~ (i <= Len(s)) /\ i - Len(s) \in 1 .. Len(u))
    BY <1>1
  <2>2. QED
    BY <1>1, <2>1 DEF Range
<1>3. QED
  BY <1>1, <1>2 DEF Range

LEMMA SubSeqRange ==
  ASSUME NEW T, NEW s \in Seq(T), NEW m \in Nat \ {0}, NEW n \in Nat, n <= Len(s)
  PROVE  SubSeq(s, m, n) \in Seq(T) /\ Range(SubSeq(s, m, n)) \subseteq Range(s)
<1>1. Len(s) \in Nat /\ DOMAIN s = 1 .. Len(s) /\ \A i \in 1 .. Len(s) : s[i] \in T
  BY LenProperties
<1>2. \A i \in m .. n : s[i] \in T
  BY <1>1
<1>3. /\ SubSeq(s, m, n) \in Seq(T)
      /\ Len(SubSeq(s, m, n)) = (IF m <= n THEN n - m + 1 ELSE 0)
      /\ \A i \in 1 .. n - m + 1 : SubSeq(s, m, n)[i] = s[m + i - 1]
  BY <1>2, SubSeqProperties
<1>4. DOMAIN SubSeq(s, m, n) = 1 .. Len(SubSeq(s, m, n))
  BY <1>3, LenProperties
<1>5. ASSUME NEW i \in DOMAIN SubSeq(s, m, n)
      PROVE  SubSeq(s, m, n)[i] \in Range(s)
  <2>1. i \in 1 .. n - m + 1 /\ m + i - 1 \in 1 .. Len(s)
    BY <1>1, <1>3, <1>4
  <2>2. QED
    BY <1>1, <1>3, <2>1 DEF Range
<1>6. QED
  BY <1>3, <1>5 DEF Range

\* A task enters a list.
LEMMA InOrderAdds ==
  ASSUME NEW s \in Seq(Task), NEW t \in Task
  PROVE  InOrder(s, t) \in Seq(Task) /\ Range(InOrder(s, t)) \subseteq Range(s) \cup {t}
<1> DEFINE lower == {i \in DOMAIN s : uxPriority[s[i]] < uxPriority[t]}
           i == IF lower = {} THEN Len(s) + 1 ELSE CHOOSE j \in lower : \A k \in lower : j <= k
<1>1. Len(s) \in Nat /\ DOMAIN s = 1 .. Len(s)
  BY LenProperties
<1>2. i \in 1 .. Len(s) + 1
  <2>1. CASE lower = {}
    BY <1>1, <2>1
  <2>2. CASE lower # {}
    <3>1. lower \subseteq Nat /\ lower \subseteq 1 .. Len(s)
      BY <1>1
    <3> HIDE DEF lower
    <3>2. \E j \in lower : \A k \in lower : j <= k
      BY <2>2, <3>1, LeastNumber
    <3>3. i \in lower
      BY <2>2, <3>2
    <3> HIDE DEF i
    <3>4. QED
      BY <1>1, <3>1, <3>3
  <2>3. QED
    BY <2>1, <2>2
<1>3. InOrder(s, t) = (SubSeq(s, 1, i - 1) \o <<t>>) \o SubSeq(s, i, Len(s))
  BY DEF InOrder, InsertAt
<1> HIDE DEF i
<1>4. i - 1 \in Nat /\ i - 1 <= Len(s) /\ i \in Nat \ {0}
  BY <1>1, <1>2
<1>5. SubSeq(s, 1, i - 1) \in Seq(Task) /\ Range(SubSeq(s, 1, i - 1)) \subseteq Range(s)
  BY <1>1, <1>4, SubSeqRange
<1>6. SubSeq(s, i, Len(s)) \in Seq(Task) /\ Range(SubSeq(s, i, Len(s))) \subseteq Range(s)
  BY <1>1, <1>4, SubSeqRange
<1>7. <<t>> \in Seq(Task) /\ Range(<<t>>) = {t}
  BY DEF Range
<1>8. PICK a \in Seq(Task), b \in Seq(Task), c \in Seq(Task) :
         /\ a = SubSeq(s, 1, i - 1) /\ b = <<t>> /\ c = SubSeq(s, i, Len(s))
         /\ Range(a) \subseteq Range(s) /\ Range(b) = {t} /\ Range(c) \subseteq Range(s)
  BY <1>5, <1>6, <1>7
<1>9. a \o b \in Seq(Task) /\ Range(a \o b) \subseteq Range(a) \cup Range(b)
  BY ConcatRange
<1>13. PICK d \in Seq(Task) : d = a \o b
  BY <1>9
<1>10. d \o c \in Seq(Task) /\ Range(d \o c) \subseteq Range(d) \cup Range(c)
  BY ConcatRange
<1>11. InOrder(s, t) = d \o c
  BY <1>3, <1>8, <1>13
<1>12. QED
  BY <1>8, <1>9, <1>10, <1>11, <1>13

\* The first tasks of a list are of that list.
LEMMA FirstsRange ==
  ASSUME NEW l, event[l] \in Seq(Task), NEW n \in Int
  PROVE  Firsts(l, n) \subseteq Range(event[l]) /\ Firsts(l, n) \subseteq Task
<1> DEFINE s == event[l]
<1>1. Len(s) \in Nat /\ DOMAIN s = 1 .. Len(s) /\ \A i \in 1 .. Len(s) : s[i] \in Task
  BY LenProperties
<1>2. \A i \in 1 .. (IF n < Len(s) THEN n ELSE Len(s)) : i \in DOMAIN s
  BY <1>1
<1>3. QED
  BY <1>1, <1>2 DEF Firsts, Range


(***************************************************************************)
(* The lists.                                                              *)
(***************************************************************************)

\* What a step does to the lists that wakes tasks from events only.
Wakes ==
    /\ pxDelayedTaskList' \subseteq pxDelayedTaskList
    /\ pxOverflowDelayedTaskList' \subseteq pxOverflowDelayedTaskList
    /\ xSuspendedTaskList' \subseteq xSuspendedTaskList
    /\ pxDelayedTaskList \subseteq pxDelayedTaskList' \cup OnEvent
    /\ pxOverflowDelayedTaskList \subseteq pxOverflowDelayedTaskList' \cup OnEvent
    /\ Blocked' \subseteq Blocked /\ OnEvent' \subseteq OnEvent

Typed == cTxLock' \in [Queue -> Int] /\ cRxLock' \in [Queue -> Int]

LEMMA OnEventIs ==
  ASSUME NEW t
  PROVE  /\ t \in OnEvent <=> t \in xPendingReadyList \/ \E l \in EventList : t \in Range(event[l])
         /\ t \in OnEvent' <=> t \in xPendingReadyList' \/ \E l \in EventList : t \in Range(event'[l])
BY DEF OnEvent

\* Nothing moves.
LEMMA SameLists ==
  ASSUME ListInv, Typed, UNCHANGED <<lists, event, xPendingReadyList>>,
         uxSchedulerSuspended' = 0 => xPendingReadyList = {}
  PROVE  ListInv' /\ Wakes
BY DEF ListInv, Typed, Wakes, Blocked, lists, OnEvent

\* The first tasks of an event list are woken.
LEMMA RemoveLists ==
  ASSUME ListInv, Typed, NEW l \in EventList, NEW n \in Int, NEW p,
         xTaskRemoveFromEventList(l, n, p), uxSchedulerSuspended' = uxSchedulerSuspended
  PROVE  ListInv' /\ Wakes
<1> DEFINE S == Firsts(l, n)
           r == Without(event[l], S)
<1>1. event[l] \in Seq(Task) /\ event \in [EventList -> Seq(Task)]
  BY DEF ListInv
<1>2. S \subseteq Range(event[l]) /\ S \subseteq Task
  BY <1>1, FirstsRange
<1>3. r \in Seq(Task) /\ Range(r) \subseteq Range(event[l]) \ S
  BY <1>1, WithoutKeeps
<1>4. event' = [event EXCEPT ![l] = r]
  BY DEF xTaskRemoveFromEventList
<1>5. \/ /\ uxSchedulerSuspended = 0 /\ xPendingReadyList' = xPendingReadyList
         /\ MakeReady(S)
      \/ /\ xPendingReadyList' = xPendingReadyList \cup S /\ UNCHANGED lists
         /\ uxSchedulerSuspended # 0
  BY DEF xTaskRemoveFromEventList
<1> HIDE DEF S, r
<1>6. event' \in [EventList -> Seq(Task)] /\ event'[l] = r
      /\ \A m \in EventList : m # l => event'[m] = event[m]
  BY <1>1, <1>3, <1>4
<1>7. \A m \in EventList : Range(event'[m]) \subseteq Range(event[m])
                           /\ Range(event'[m]) \cap S = {}
  <2> SUFFICES ASSUME NEW m \in EventList
               PROVE  Range(event'[m]) \subseteq Range(event[m]) /\ Range(event'[m]) \cap S = {}
    OBVIOUS
  <2>1. CASE m = l
    BY <1>3, <1>6, <2>1
  <2>2. CASE m # l
    BY <1>2, <1>6, <2>2 DEF ListInv
  <2>3. QED
    BY <2>1, <2>2
<1>8. \A t : t \in OnEvent' => t \in OnEvent
  BY <1>2, <1>5, <1>7, OnEventIs
<1>9. S \subseteq OnEvent
  BY <1>2, OnEventIs
<1>10. /\ \A m \in EventList : Range(event'[m]) \cap xPendingReadyList' = {}
       /\ \A k, m \in EventList : k # m => Range(event'[k]) \cap Range(event'[m]) = {}
  <2>1. \A k, m \in EventList : k # m => Range(event[k]) \cap Range(event[m]) = {}
    BY DEF ListInv
  <2>2. \A m \in EventList : Range(event[m]) \cap xPendingReadyList = {}
    BY DEF ListInv
  <2>3. QED
    BY <1>5, <1>7, <2>1, <2>2
<1>11. CASE uxSchedulerSuspended = 0 /\ MakeReady(S) /\ xPendingReadyList' = xPendingReadyList
  <2>1. Blocked' = Blocked \ S
    BY <1>11 DEF Blocked, MakeReady
  <2>2. xPendingReadyList' = {}
    BY <1>11 DEF ListInv
  <2>3. OnEvent' \subseteq Blocked'
    BY <1>7, <1>8, <2>1, <2>2, OnEventIs DEF ListInv
  <2>4. Wakes
    BY <1>8, <1>9, <1>11, <2>1 DEF Wakes, MakeReady
  <2>5. QED
    BY <1>6, <1>10, <2>1, <2>2, <2>3, <2>4 DEF ListInv, Typed
<1>12. CASE /\ xPendingReadyList' = xPendingReadyList \cup S /\ UNCHANGED lists
            /\ uxSchedulerSuspended # 0
  <2>1. Blocked' = Blocked
    BY <1>12 DEF Blocked, lists
  <2>2. Wakes
    BY <1>8, <1>12, <2>1 DEF Wakes, lists
  <2>3. QED
    BY <1>6, <1>8, <1>10, <1>12, <2>1, <2>2 DEF ListInv, Typed
<1>13. QED
  BY <1>5, <1>11, <1>12

\* The tasks woken while the scheduler was suspended become ready.
LEMMA ResumeLists ==
  ASSUME ListInv, Typed, MakeReady(xPendingReadyList), xPendingReadyList' = {}, event' = event
  PROVE  ListInv' /\ Wakes
<1>1. Blocked' = Blocked \ xPendingReadyList
  BY DEF Blocked, MakeReady
<1>2. \A t : t \in OnEvent' => t \in OnEvent /\ t \notin xPendingReadyList
  BY OnEventIs DEF ListInv
<1>3. xPendingReadyList \subseteq OnEvent
  BY OnEventIs
<1>4. Wakes
  BY <1>1, <1>2, <1>3 DEF Wakes, MakeReady
<1>5. QED
  BY <1>1, <1>2, <1>4 DEF ListInv, Typed

\* The running task enters an event list and a state list.
LEMMA PlaceLists ==
  ASSUME ListInv, Typed, NEW t \in Task, t \notin OnEvent, NEW l \in EventList,
         event' = [event EXCEPT ![l] = InOrder(@, t)],
         UNCHANGED <<xPendingReadyList, uxSchedulerSuspended>>,
         Blocked' = Blocked \cup {t}
  PROVE  ListInv' /\ OnEvent' \subseteq OnEvent \cup {t}
<1> DEFINE r == InOrder(event[l], t)
<1>1. event[l] \in Seq(Task) /\ event \in [EventList -> Seq(Task)]
  BY DEF ListInv
<1>2. r \in Seq(Task) /\ Range(r) \subseteq Range(event[l]) \cup {t}
  BY <1>1, InOrderAdds
<1> HIDE DEF r
<1>3. event' \in [EventList -> Seq(Task)] /\ event'[l] = r
      /\ \A m \in EventList : m # l => event'[m] = event[m]
  BY <1>1, <1>2 DEF r
<1>4. \A u : u \in OnEvent' => u \in OnEvent \cup {t}
  BY <1>2, <1>3, OnEventIs
<1>5. \A m \in EventList : t \notin Range(event[m])
  BY OnEventIs
<1>6. t \notin xPendingReadyList
  BY OnEventIs
<1>7. /\ \A m \in EventList : Range(event'[m]) \cap xPendingReadyList' = {}
      /\ \A k, m \in EventList : k # m => Range(event'[k]) \cap Range(event'[m]) = {}
  <2>1. \A k, m \in EventList : k # m => Range(event[k]) \cap Range(event[m]) = {}
    BY DEF ListInv
  <2>2. \A m \in EventList : Range(event[m]) \cap xPendingReadyList = {}
    BY DEF ListInv
  <2>3. \A m \in EventList : \/ m # l /\ event'[m] = event[m]
                             \/ m = l /\ Range(event'[m]) \subseteq Range(event[m]) \cup {t}
    BY <1>2, <1>3
  <2>4. QED
    BY <1>5, <1>6, <2>1, <2>2, <2>3
<1>8. QED
  BY <1>3, <1>4, <1>7 DEF ListInv, Typed

\* A tick wakes the tasks that are due, from whatever list.
LEMMA TickLists ==
  ASSUME ListInv, Typed, IncrementTick, xPendingReadyList = {},
         UNCHANGED <<xSuspendedTaskList, xPendingReadyList>>
  PROVE  ListInv' /\ OnEvent' \subseteq OnEvent /\ Blocked' \subseteq Blocked
<1> DEFINE tick == TickPlus(xTickCount, 1)
           D == Due(tick)
<1>1. /\ pxDelayedTaskList' = CurrentDelayed(tick) \ D
      /\ pxOverflowDelayedTaskList' =
             IF tick = 0 THEN pxDelayedTaskList ELSE pxOverflowDelayedTaskList
      /\ event' = [k \in EventList |-> Without(event[k], D)]
  BY DEF IncrementTick
<1>2. CurrentDelayed(tick) = IF tick = 0 THEN pxOverflowDelayedTaskList ELSE pxDelayedTaskList
  BY DEF CurrentDelayed
<1> HIDE DEF D, tick
<1>3. Blocked' \subseteq Blocked /\ Blocked \ D \subseteq Blocked'
  BY <1>1, <1>2 DEF Blocked
<1>4. ASSUME NEW m \in EventList
      PROVE  /\ event'[m] \in Seq(Task)
             /\ Range(event'[m]) \subseteq Range(event[m]) \ D
  <2>1. event[m] \in Seq(Task)
    BY DEF ListInv
  <2>2. event'[m] = Without(event[m], D)
    BY <1>1
  <2>3. QED
    BY <2>1, <2>2, WithoutKeeps
<1>5. event' \in [EventList -> Seq(Task)]
  BY <1>1, <1>4
<1>6. \A u : u \in OnEvent' => u \in OnEvent /\ u \notin D
  BY <1>4, OnEventIs
<1>7. OnEvent' \subseteq Blocked'
  BY <1>3, <1>6 DEF ListInv
<1>8. /\ \A m \in EventList : Range(event'[m]) \cap xPendingReadyList' = {}
      /\ \A k, m \in EventList : k # m => Range(event'[k]) \cap Range(event'[m]) = {}
  <2>1. \A k, m \in EventList : k # m => Range(event[k]) \cap Range(event[m]) = {}
    BY DEF ListInv
  <2>2. QED
    BY <1>4, <2>1
<1>9. QED
  BY <1>3, <1>5, <1>6, <1>7, <1>8 DEF ListInv, Typed


(***************************************************************************)
(* Where the tasks are.                                                    *)
(***************************************************************************)

LEMMA FollowUpsAre ==
  /\ FollowUps("delay") = {"sleep"} /\ FollowUps("yield") = {"sleep", "block"}
  /\ \A p \in {"unlock", "unlockRx"} : FollowUps(p) = InTurn
  /\ \A p \in {"resume", "ticks"} : FollowUps(p) = {"sleep", "hold"} \cup InTurn
  /\ \A p \in InWait \cup {"out", "enter", "slept", "expired", "disinherit"} :
         FollowUps(p) = {"none"}
BY DEF FollowUps, InWait

\* Who runs, and has not put itself on a list, is not blocked.
LEMMA AwakeRuns ==
  ASSUME ControlInv, NEW t \in Task, Runs(t), at[t] \notin Leaving \/ then[t] \notin {"sleep", "block"}
  PROVE  t \notin Blocked /\ t \notin OnEvent
BY DEF ControlInv, ListInv, RunInv, Runs

\* The tasks that only others' steps concern.
Others(t) ==
    \A u \in Task : u # t => /\ at'[u] = at[u] /\ then'[u] = then[u]
                             /\ call'[u].op = call[u].op

\* A step of the task that runs.
LEMMA MoveInv ==
  ASSUME ControlInv, ListInv', NEW t \in Task, Runs(t),
         NEW a \in Places, NEW b \in FollowUps(a),
         at' = [at EXCEPT ![t] = a], then' = [then EXCEPT ![t] = b],
         pxCurrentTCB' = pxCurrentTCB, Others(t),
         uxSchedulerSuspended' = IF a \in InSuspension THEN 1 ELSE 0,
         a \in InCall \/ b \in InTurn => call'[t].op # "none",
         OnEvent' \subseteq OnEvent \cup {t},
         t \in OnEvent' => a = "enter" \/ b = "block",
         \/ t \notin Blocked'
         \/ pendSV' /\ a \notin InSuspension \cup {"ticks"}
         \/ a \in Leaving /\ b \in {"sleep", "block"}
  PROVE  ControlInv'
<1>1. at \in [Task -> Places] /\ then \in [Task -> {"none", "sleep", "hold"} \cup InTurn]
  BY DEF ControlInv, PlaceInv
<1>2. at'[t] = a /\ then'[t] = b /\ at' \in [Task -> Places]
  BY <1>1
<1>3. b \in {"none", "sleep", "hold"} \cup InTurn
  BY DEF FollowUps, InTurn
<1>4. then' \in [Task -> {"none", "sleep", "hold"} \cup InTurn]
  BY <1>1, <1>3
<1>5. t = pxCurrentTCB /\ t = pxCurrentTCB'
  BY DEF Runs
<1>6. ASSUME NEW u \in Task
      PROVE  /\ then'[u] \in FollowUps(at'[u])
             /\ at'[u] \in InCall \/ then'[u] \in InTurn => call'[u].op # "none"
             /\ u \in OnEvent' => at'[u] = "enter" \/ then'[u] = "block"
  <2>1. CASE u = t
    BY <1>2, <2>1
  <2>2. CASE u # t
    BY <2>2 DEF Others, ControlInv, PlaceInv
  <2>3. QED
    BY <2>1, <2>2
<1>7. PlaceInv'
  BY <1>2, <1>4, <1>6 DEF PlaceInv
<1>8. RunInv'
  <2>1. \A u \in Task : at'[u] \in InSuspension \cup {"ticks"} => u = t
    BY <1>5 DEF Others, ControlInv, RunInv
  <2>2. QED
    BY <1>2, <1>5, <2>1 DEF RunInv
<1>9. QED
  BY <1>7, <1>8 DEF ControlInv

\* A step of an interrupt.
LEMMA StayInv ==
  ASSUME ControlInv, ListInv', UNCHANGED <<pxCurrentTCB, uxSchedulerSuspended, at, then, call>>,
         OnEvent' \subseteq OnEvent, Blocked' \subseteq Blocked,
         pendSV' \/ ~pendSV
  PROVE  ControlInv'
BY DEF ControlInv, PlaceInv, RunInv

\* A call returns.
LEMMA ReturnMoves ==
  ASSUME CallInv, ControlInv, ListInv', NEW t \in Task, Runs(t), Returns(t),
         at[t] \in {"enter", "expired", "disinherit"},
         OnEvent' \subseteq OnEvent, Blocked' \subseteq Blocked
  PROVE  ControlInv'
<1>1. t \notin Blocked /\ t \notin OnEvent /\ t = pxCurrentTCB
  BY AwakeRuns DEF Leaving, Runs
<1>2. /\ at' = [at EXCEPT ![t] = "out"] /\ pxCurrentTCB' = pxCurrentTCB /\ then' = then
      /\ uxSchedulerSuspended' = uxSchedulerSuspended
      /\ call' = [call EXCEPT ![t] = NoCall]
  BY DEF Returns, Goes
<1>3. at \in [Task -> Places] /\ then \in [Task -> {"none", "sleep", "hold"} \cup InTurn]
      /\ then[t] \in FollowUps(at[t])
  BY DEF ControlInv, PlaceInv
<1>4. then[t] = "none" /\ "none" \in FollowUps("out") /\ "out" \in Places
  BY <1>3, FollowUpsAre DEF Places
<1>5. then' = [then EXCEPT ![t] = "none"]
  BY <1>2, <1>3, <1>4
<1>6. Others(t)
  BY <1>2, <1>3 DEF Others, CallInv
<1>7. uxSchedulerSuspended' = IF "out" \in InSuspension THEN 1 ELSE 0
  BY <1>1, <1>2 DEF ControlInv, RunInv, InSuspension
<1>8. ~ ("out" \in InCall \/ "none" \in InTurn)
  BY DEF InCall, InWait, InTurn
<1>9. QED
  BY <1>1, <1>2, <1>4, <1>5, <1>6, <1>7, <1>8, MoveInv

\* The calls that proceed.
LEMMA ProceedsControl ==
  ASSUME CallInv, ControlInv, NEW t \in Task,
         \/ SendProceeds(t) \/ GiveProceeds(t) \/ MutexGiveProceeds(t) \/ ReceiveProceeds(t)
         \/ TakeProceeds(t)
  PROVE  ControlInv' /\ Wakes
<1>1. /\ Runs(t) /\ at[t] = "enter" /\ Returns(t) /\ call[t].op # "none"
      /\ \E p : \E l \in {Receivers(call[t].queue), Senders(call[t].queue)} :
             xTaskRemoveFromEventList(l, 1, p)
  BY DEF SendProceeds, GiveProceeds, MutexGiveProceeds, ReceiveProceeds, TakeProceeds, Proceeds
<1>2. call[t].queue \in Queue
  BY <1>1, CallFits
<1>3. Receivers(call[t].queue) \in EventList /\ Senders(call[t].queue) \in EventList
  BY <1>2, QueueAssumption DEF Receivers, Senders
<1>5. ListInv' /\ Wakes
  <2>1. PICK l \in EventList : \E p : xTaskRemoveFromEventList(l, 1, p)
    BY <1>1, <1>3
  <2>2. Typed /\ uxSchedulerSuspended' = uxSchedulerSuspended
    BY <1>1 DEF Returns, locks, Typed, ControlInv, ListInv
  <2>3. QED
    BY <2>1, <2>2, RemoveLists DEF ControlInv
<1>7. ControlInv'
  BY <1>1, <1>5, ReturnMoves DEF Wakes
<1>8. QED
  BY <1>5, <1>7


\* A step of a task that runs and leaves the lists alone.
LEMMA QuietMove ==
  ASSUME ControlInv, NEW t \in Task, Runs(t), at[t] \notin Leaving, Typed,
         UNCHANGED <<pxCurrentTCB, lists, event, xPendingReadyList>>,
         NEW a \in Places, NEW b \in FollowUps(a),
         at' = [at EXCEPT ![t] = a], then' = [then EXCEPT ![t] = b], Others(t),
         uxSchedulerSuspended' = IF a \in InSuspension THEN 1 ELSE 0,
         a \notin InSuspension => at[t] \notin InSuspension,
         a \in InCall \/ b \in InTurn => call'[t].op # "none"
  PROVE  ControlInv' /\ Wakes
<1>1. t \notin Blocked /\ t \notin OnEvent /\ t = pxCurrentTCB
  BY AwakeRuns DEF Runs
<1>2. uxSchedulerSuspended' = 0 => xPendingReadyList = {}
  BY <1>1 DEF ControlInv, ListInv, RunInv
<1>3. ListInv' /\ Wakes
  BY <1>2, SameLists DEF ControlInv
<1>4. OnEvent' \subseteq OnEvent /\ Blocked' \subseteq Blocked
  BY <1>3 DEF Wakes
<1>5. ControlInv'
  BY <1>1, <1>3, <1>4, MoveInv
<1>6. QED
  BY <1>3, <1>5

\* What the invariant says of the places of the task that runs.
LEMMA Whereabouts ==
  ASSUME ControlInv, NEW t \in Task, Runs(t)
  PROVE  /\ t = pxCurrentTCB
         /\ at \in [Task -> Places] /\ then \in [Task -> {"none", "sleep", "hold"} \cup InTurn]
         /\ then = [then EXCEPT ![t] = then[t]]
         /\ then[t] \in FollowUps(at[t])
         /\ uxSchedulerSuspended = IF at[t] \in InSuspension THEN 1 ELSE 0
         /\ cTxLock \in [Queue -> Int] /\ cRxLock \in [Queue -> Int]
         /\ at[t] \in InCall \/ then[t] \in InTurn => call[t].op # "none"
BY DEF ControlInv, ListInv, PlaceInv, RunInv, Runs

LEMMA GivesUpControl ==
  ASSUME CallInv, ControlInv, NEW t \in Task,
         GivesUp(t) \/ Expired(t) \/ DisinheritAfterTimeout(t)
  PROVE  ControlInv' /\ Wakes
<1>1. /\ Runs(t) /\ at[t] \in {"enter", "expired", "disinherit"} /\ Returns(t)
      /\ UNCHANGED <<lists, event, xPendingReadyList>>
  BY DEF GivesUp, Expired, DisinheritAfterTimeout
<1>2. Typed /\ uxSchedulerSuspended' = uxSchedulerSuspended
  BY <1>1 DEF Returns, locks, Typed, ControlInv, ListInv
<1>3. ListInv' /\ Wakes
  BY <1>1, <1>2, SameLists DEF ControlInv, ListInv
<1>4. ControlInv'
  BY <1>1, <1>3, ReturnMoves DEF Wakes
<1>5. QED
  BY <1>3, <1>4

LEMMA BeginControl ==
  ASSUME CallInv, ControlInv, NEW t \in Task, NEW c \in use.calls[t], c.queue \in Queue, Begin(t, c)
  PROVE  ControlInv' /\ Wakes
<1>1. Runs(t) /\ at[t] = "out" /\ call' = [call EXCEPT ![t] = c] /\ at' = [at EXCEPT ![t] = "enter"]
      /\ UNCHANGED <<pxCurrentTCB, lists, event, xPendingReadyList, uxSchedulerSuspended, then,
                     locks>>
  BY DEF Begin, Goes
<1>2. c.op # "none"
  BY QueueAssumption DEF CallInv, OpsOf
<1>3. then[t] = "none" /\ "none" \in FollowUps("enter") /\ "enter" \in Places
  BY <1>1, Whereabouts, FollowUpsAre DEF Places, InCall
<1>4. then' = [then EXCEPT ![t] = "none"] /\ Others(t) /\ call'[t].op # "none" /\ Typed
  BY <1>1, <1>2, <1>3, Whereabouts DEF Others, CallInv, Typed, locks
<1>5. /\ uxSchedulerSuspended' = IF "enter" \in InSuspension THEN 1 ELSE 0
      /\ at[t] \notin InSuspension /\ at[t] \notin Leaving
  BY <1>1, Whereabouts DEF InSuspension, Leaving
<1>6. QED
  BY <1>1, <1>3, <1>4, <1>5, QuietMove

\* Steps that only change where the task is.
Onward ==
    {<<"enter", "suspend">>, <<"suspend", "lock">>, <<"lock", "check">>, <<"check", "test">>,
     <<"test", "inherit">>, <<"test", "place">>, <<"inherit", "place">>,
     <<"expired", "enter">>, <<"expired", "disinherit">>, <<"slept", "out">>}

LEMMA OnwardControl ==
  ASSUME ControlInv, NEW t \in Task, Runs(t), Typed, NEW a, Goes(t, a),
         UNCHANGED <<pxCurrentTCB, lists, event, xPendingReadyList, then, call>>,
         <<at[t], a>> \in Onward,
         uxSchedulerSuspended' = uxSchedulerSuspended + (IF at[t] = "suspend" THEN 1 ELSE 0)
  PROVE  ControlInv' /\ Wakes
<1> USE DEF Onward
<1>1. at' = [at EXCEPT ![t] = a]
  BY DEF Goes
<1>2. then[t] = "none" /\ "none" \in FollowUps(a) /\ a \in Places
  BY Whereabouts, FollowUpsAre DEF Places, InCall, InWait
<1>3. then' = [then EXCEPT ![t] = "none"] /\ Others(t)
  BY <1>1, <1>2, Whereabouts DEF Others
<1>4. call[t].op # "none" \/ a = "out"
  BY Whereabouts DEF InCall, InWait
<1>5. uxSchedulerSuspended' = IF a \in InSuspension THEN 1 ELSE 0
  BY Whereabouts DEF InSuspension
<1>6. (a \notin InSuspension => at[t] \notin InSuspension) /\ at[t] \notin Leaving
  BY DEF InSuspension, Leaving
<1>7. a \in InCall \/ "none" \in InTurn => call'[t].op # "none"
  BY <1>4 DEF InCall, InWait, InTurn
<1>8. QED
  BY <1>1, <1>2, <1>3, <1>5, <1>6, <1>7, QuietMove

LEMMA WaitControl ==
  ASSUME CallInv, ControlInv, NEW t \in Task,
         EntersWait(t) \/ Suspends(t) \/ prvLockQueue(t) \/ xTaskPriorityInherit(t)
         \/ ExpiredLooks(t) \/ (DelayEnds(t) /\ UNCHANGED queueVars)
  PROVE  ControlInv' /\ Wakes
<1>1. Runs(t) /\ at[t] \in {"enter", "suspend", "lock", "inherit", "expired", "slept"}
  BY DEF EntersWait, Suspends, prvLockQueue, xTaskPriorityInherit, ExpiredLooks, DelayEnds
<1>2. UNCHANGED <<pxCurrentTCB, lists, event, xPendingReadyList, then, call>>
  BY DEF EntersWait, Suspends, prvLockQueue, xTaskPriorityInherit, ExpiredLooks, DelayEnds,
         StepUnchanged, queueVars, vTaskSuspendAll
<1>3. Typed
  <2>1. CASE prvLockQueue(t)
    <3>1. call[t].op # "none"
      BY <1>1, <2>1, Whereabouts DEF prvLockQueue, InCall, InWait
    <3>2. call[t].queue \in Queue
      BY <3>1, CallFits
    <3>3. QED
      BY <1>1, <2>1, <3>2, Whereabouts DEF prvLockQueue, Typed, Locked, queueLOCKED_UNMODIFIED
  <2>2. CASE UNCHANGED locks
    BY <1>1, <2>2, Whereabouts DEF Typed, locks
  <2>3. QED
    BY <2>1, <2>2 DEF EntersWait, Suspends, xTaskPriorityInherit, ExpiredLooks, DelayEnds, queueVars
<1>4. CASE EntersWait(t)
  BY <1>1, <1>2, <1>3, <1>4, OnwardControl, Whereabouts DEF EntersWait, Onward
<1>5. CASE Suspends(t)
  BY <1>1, <1>2, <1>3, <1>5, OnwardControl, Whereabouts DEF Suspends, vTaskSuspendAll, Onward
<1>6. CASE prvLockQueue(t)
  BY <1>1, <1>2, <1>3, <1>6, OnwardControl, Whereabouts DEF prvLockQueue, Onward
<1>7. CASE xTaskPriorityInherit(t)
  BY <1>1, <1>2, <1>3, <1>7, OnwardControl, Whereabouts DEF xTaskPriorityInherit, StepUnchanged, Onward
<1>8. CASE ExpiredLooks(t)
  BY <1>1, <1>2, <1>3, <1>8, OnwardControl, Whereabouts DEF ExpiredLooks, StepUnchanged, Onward
<1>9. CASE DelayEnds(t) /\ UNCHANGED queueVars
  BY <1>1, <1>2, <1>3, <1>9, OnwardControl, Whereabouts DEF DelayEnds, Onward
<1>10. QED
  BY <1>4, <1>5, <1>6, <1>7, <1>8, <1>9


LEMMA LookControl ==
  ASSUME ControlInv, NEW t \in Task, CheckForTimeOut(t) \/ Looks(t)
  PROVE  ControlInv' /\ Wakes
<1>1. /\ Runs(t) /\ at[t] \in {"check", "test"} /\ t = pxCurrentTCB
      /\ UNCHANGED <<pxCurrentTCB, lists, event, xPendingReadyList, call, locks,
                     uxSchedulerSuspended>>
  BY DEF CheckForTimeOut, Looks, StepUnchanged, Runs
<1>2. /\ at \in [Task -> Places] /\ then \in [Task -> {"none", "sleep", "hold"} \cup InTurn]
      /\ call[t].op # "none" /\ uxSchedulerSuspended = 1
  BY <1>1, Whereabouts DEF InCall, InWait, InSuspension
<1>3. Typed
  BY <1>1, Whereabouts DEF Typed, locks
<1>4. CASE UNCHANGED then /\ \E a : Goes(t, a) /\ <<at[t], a>> \in Onward
  <2>1. PICK a : Goes(t, a) /\ <<at[t], a>> \in Onward
    BY <1>4
  <2>2. uxSchedulerSuspended' = uxSchedulerSuspended + (IF at[t] = "suspend" THEN 1 ELSE 0)
    BY <1>1, <1>2
  <2>3. QED
    BY <1>1, <1>3, <1>4, <2>1, <2>2, OnwardControl
<1>5. CASE \E b \in {"again", "expire"} : Goes(t, "unlock") /\ then' = [then EXCEPT ![t] = b]
  <2>1. PICK b \in {"again", "expire"} :
           at' = [at EXCEPT ![t] = "unlock"] /\ then' = [then EXCEPT ![t] = b]
    BY <1>5 DEF Goes
  <2>2. b \in FollowUps("unlock") /\ "unlock" \in Places
    BY FollowUpsAre DEF InTurn, Places, InCall
  <2>3. Others(t)
    BY <1>1, <1>2, <2>1 DEF Others
  <2>4. "unlock" \in InSuspension /\ at[t] \notin Leaving
    BY <1>1 DEF InSuspension, Leaving
  <2>5. QED
    BY <1>1, <1>2, <1>3, <2>1, <2>2, <2>3, <2>4, QuietMove
<1>6. CASE CheckForTimeOut(t)
  <2>1. \/ UNCHANGED then /\ Goes(t, "test")
        \/ Goes(t, "unlock") /\ then' = [then EXCEPT ![t] = "expire"]
    BY <1>6 DEF CheckForTimeOut
  <2>2. <<at[t], "test">> \in Onward
    BY <1>6 DEF CheckForTimeOut, Onward
  <2>3. QED
    BY <1>4, <1>5, <2>1, <2>2
<1>7. CASE Looks(t)
  <2>1. \/ UNCHANGED then /\ (Goes(t, "inherit") \/ Goes(t, "place"))
        \/ Goes(t, "unlock") /\ then' = [then EXCEPT ![t] = "again"]
    BY <1>7 DEF Looks
  <2>2. <<at[t], "inherit">> \in Onward /\ <<at[t], "place">> \in Onward
    BY <1>7 DEF Looks, Onward
  <2>3. QED
    BY <1>4, <1>5, <2>1, <2>2
<1>8. QED
  BY <1>6, <1>7

LEMMA SuspendControl ==
  ASSUME ControlInv, NEW t \in Task, UNCHANGED queueVars,
         HeapSuspends(t) \/ \E ticks : vTaskDelay(t, ticks)
  PROVE  ControlInv' /\ Wakes
<1>1. /\ Runs(t) /\ at[t] = "out" /\ UNCHANGED <<pxCurrentTCB, lists, event, xPendingReadyList>>
      /\ uxSchedulerSuspended' = uxSchedulerSuspended + 1
  BY DEF HeapSuspends, vTaskDelay, vTaskSuspendAll
<1>2. PICK a, b : /\ at' = [at EXCEPT ![t] = a] /\ then' = [then EXCEPT ![t] = b]
                  /\ (a = "resume" /\ b = "hold") \/ (a = "delay" /\ b = "sleep")
  BY DEF HeapSuspends, vTaskDelay, vTaskSuspendAll, Goes
<1>3. a \in Places /\ b \in FollowUps(a) /\ a \in InSuspension /\ a \notin InCall /\ b \notin InTurn
  BY <1>2, FollowUpsAre DEF Places, InSuspension, InCall, InWait, InTurn
<1>4. uxSchedulerSuspended' = 1 /\ at[t] \notin Leaving
  BY <1>1, Whereabouts DEF InSuspension, Leaving
<1>5. Others(t) /\ Typed
  BY <1>1, <1>2, Whereabouts DEF Others, Typed, queueVars, locks
<1>6. QED
  BY <1>1, <1>2, <1>3, <1>4, <1>5, QuietMove

\* Interrupts, and the yield of a task that waits for nothing.
LEMMA StayControl ==
  ASSUME ControlInv, NEW t \in Task, UNCHANGED queueVars, vTaskYield(t) \/ SysTickPended
  PROVE  ControlInv' /\ Wakes
<1>1. UNCHANGED <<pxCurrentTCB, lists, event, xPendingReadyList, uxSchedulerSuspended, at, then,
                  call, locks>>
      /\ (pendSV' \/ ~pendSV)
  BY DEF vTaskYield, SysTickPended, control, queueVars
<1>2. Typed
  BY <1>1 DEF Typed, locks, ControlInv, ListInv
<1>3. ListInv' /\ Wakes
  BY <1>1, <1>2, SameLists DEF ControlInv, ListInv
<1>4. QED
  BY <1>1, <1>3, StayInv DEF Wakes

LEMMA GiveControl ==
  ASSUME CallInv, ControlInv, NEW q \in use.isr, xQueueGiveFromISR(q)
  PROVE  ControlInv' /\ Wakes
<1>1. q \in Queue /\ Receivers(q) \in EventList
  BY QueueAssumption DEF CallInv, Receivers
<1>2. UNCHANGED <<pxCurrentTCB, uxSchedulerSuspended, at, then, call>> /\ (pendSV' \/ ~pendSV)
  BY DEF xQueueGiveFromISR, control
<1>3. Typed
  BY <1>1 DEF Typed, ControlInv, ListInv, xQueueGiveFromISR
<1>4. ListInv' /\ Wakes
  <2>1. CASE xTaskRemoveFromEventList(Receivers(q), 1, uxPriority)
    BY <1>1, <1>2, <1>3, <2>1, RemoveLists DEF ControlInv
  <2>2. CASE UNCHANGED <<event, lists, xPendingReadyList>>
    BY <1>2, <1>3, <2>2, SameLists DEF ControlInv, ListInv
  <2>3. QED
    BY <2>1, <2>2 DEF xQueueGiveFromISR
<1>5. QED
  BY <1>2, <1>4, StayInv DEF Wakes

LEMMA TickControl ==
  ASSUME ControlInv, UNCHANGED queueVars, SysTick \/ \E t \in Task : ResumeTick(t)
  PROVE  ControlInv' /\ OnEvent' \subseteq OnEvent
<1>1. /\ UNCHANGED <<pxCurrentTCB, uxSchedulerSuspended, at, then, call, locks>>
      /\ IncrementTick /\ UNCHANGED <<xSuspendedTaskList, xPendingReadyList>>
      /\ (pendSV' \/ ~pendSV)
  <2>1. CASE SysTick
    BY <2>1 DEF SysTick, queueVars
  <2>2. CASE \E t \in Task : ResumeTick(t)
    BY <2>2 DEF ResumeTick, control, queueVars
  <2>3. QED
    BY <2>1, <2>2
<1>2. uxSchedulerSuspended = 0
  BY Whereabouts DEF SysTick, ResumeTick, InSuspension
<1>3. Typed
  BY <1>1 DEF Typed, ControlInv, ListInv, locks
<1>4. ListInv' /\ OnEvent' \subseteq OnEvent /\ Blocked' \subseteq Blocked
  BY <1>1, <1>2, <1>3, TickLists DEF ControlInv, ListInv
<1>5. QED
  BY <1>1, <1>4, StayInv

LEMMA SwitchControl ==
  ASSUME ControlInv, UNCHANGED queueVars, vTaskSwitchContext
  PROVE  ControlInv' /\ Wakes
<1>1. /\ pendSV /\ ~Critical
      /\ UNCHANGED <<lists, event, xPendingReadyList, uxSchedulerSuspended, at, then, call, locks>>
  BY DEF vTaskSwitchContext, control, queueVars
<1>2. Typed
  BY <1>1 DEF Typed, locks, ControlInv, ListInv
<1>3. ListInv' /\ Wakes
  BY <1>1, <1>2, SameLists DEF ControlInv, ListInv
<1>4. Blocked' = Blocked /\ OnEvent' = OnEvent
  BY <1>1 DEF Blocked, OnEvent, lists
<1>5. CASE uxSchedulerSuspended > 0
  <2>1. pxCurrentTCB' = pxCurrentTCB /\ at[pxCurrentTCB] \in InSuspension
    BY <1>5 DEF vTaskSwitchContext, ControlInv, RunInv
  <2>2. QED
    BY <1>1, <1>3, <1>4, <2>1 DEF ControlInv, PlaceInv, RunInv
<1>6. CASE ~ (uxSchedulerSuspended > 0)
  <2>1. pxCurrentTCB' \in Task /\ pxCurrentTCB' \notin Blocked
    BY <1>6 DEF vTaskSwitchContext, Ready
  <2>2. \A u \in Task : at[u] \notin InSuspension \cup {"ticks"}
    BY <1>1, <1>6 DEF ControlInv, RunInv, Critical
  <2>3. uxSchedulerSuspended = 0
    BY <1>6 DEF ControlInv, RunInv
  <2>4. RunInv'
    BY <1>1, <1>4, <2>1, <2>2, <2>3 DEF RunInv
  <2>5. PlaceInv'
    BY <1>1, <1>4 DEF ControlInv, PlaceInv
  <2>6. QED
    BY <1>3, <2>4, <2>5 DEF ControlInv
<1>7. QED
  BY <1>5, <1>6


\* The running task enters a delayed list, or the list of those that wait for ever.
LEMMA AddBlocks ==
  ASSUME NEW ticks, NEW b, prvAddCurrentTaskToDelayedList(ticks, b)
  PROVE  Blocked' = Blocked \cup {pxCurrentTCB}
BY DEF prvAddCurrentTaskToDelayedList, Blocked

LEMMA PlaceControl ==
  ASSUME CallInv, ControlInv, NEW t \in Task, Place(t)
  PROVE  ControlInv'
<1>1. /\ Runs(t) /\ at[t] = "place" /\ t = pxCurrentTCB
      /\ UNCHANGED <<pxCurrentTCB, xPendingReadyList, uxSchedulerSuspended, call, locks>>
      /\ at' = [at EXCEPT ![t] = "unlock"] /\ then' = [then EXCEPT ![t] = "block"]
  BY DEF Place, StepUnchanged, Runs, Goes
<1>2. call[t].queue \in Queue
  <2>1. call[t].op # "none"
    BY <1>1, Whereabouts DEF InCall, InWait
  <2>2. QED
    BY <2>1, CallFits
<1>3. PICK l \in EventList : \E ticks : vTaskPlaceOnEventList(l, ticks)
  <2>1. Senders(call[t].queue) \in EventList /\ Receivers(call[t].queue) \in EventList
    BY <1>2, QueueAssumption DEF Senders, Receivers
  <2>2. QED
    BY <2>1 DEF Place
<1>4. t \notin Blocked /\ t \notin OnEvent
  BY <1>1, AwakeRuns DEF Leaving
<1>5. event' = [event EXCEPT ![l] = InOrder(@, t)] /\ Blocked' = Blocked \cup {t}
  BY <1>1, <1>3, AddBlocks DEF vTaskPlaceOnEventList
<1>6. Typed
  BY <1>1, Whereabouts DEF Typed, locks
<1>7. ListInv' /\ OnEvent' \subseteq OnEvent \cup {t}
  BY <1>1, <1>4, <1>5, <1>6, PlaceLists DEF ControlInv
<1>8. /\ "unlock" \in Places /\ "block" \in FollowUps("unlock") /\ "unlock" \in InSuspension
      /\ "unlock" \in Leaving
  BY FollowUpsAre DEF Places, InCall, InTurn, InSuspension, Leaving
<1>9. uxSchedulerSuspended' = 1
  BY <1>1, Whereabouts DEF InSuspension
<1>10. Others(t) /\ call'[t].op # "none"
  BY <1>1, Whereabouts DEF Others, InCall, InWait
<1>11. QED
  BY <1>1, <1>7, <1>8, <1>9, <1>10, MoveInv

LEMMA DelayControl ==
  ASSUME ControlInv, NEW t \in Task, DelayAdds(t), UNCHANGED queueVars
  PROVE  ControlInv' /\ OnEvent' \subseteq OnEvent
<1>1. /\ Runs(t) /\ at[t] = "delay" /\ t = pxCurrentTCB
      /\ UNCHANGED <<pxCurrentTCB, event, xPendingReadyList, uxSchedulerSuspended, call, locks, then>>
      /\ at' = [at EXCEPT ![t] = "resume"] /\ Blocked' = Blocked \cup {t}
  BY AddBlocks DEF DelayAdds, Runs, Goes, queueVars
<1>2. t \notin Blocked /\ t \notin OnEvent /\ OnEvent' = OnEvent
  BY <1>1, AwakeRuns DEF Leaving, OnEvent
<1>3. ListInv'
  BY <1>1, <1>2 DEF ControlInv, ListInv, locks
<1>4. then[t] = "sleep" /\ then' = [then EXCEPT ![t] = "sleep"]
  BY <1>1, Whereabouts, FollowUpsAre
<1>5. /\ "resume" \in Places /\ "sleep" \in FollowUps("resume") /\ "resume" \in InSuspension
      /\ "resume" \in Leaving /\ "resume" \notin InCall /\ "sleep" \notin InTurn
  BY FollowUpsAre DEF Places, InCall, InWait, InTurn, InSuspension, Leaving
<1>6. uxSchedulerSuspended' = 1 /\ Others(t)
  BY <1>1, Whereabouts DEF InSuspension, Others
<1>7. ControlInv'
  BY <1>1, <1>2, <1>3, <1>4, <1>5, <1>6, MoveInv
<1>8. QED
  BY <1>2, <1>7

\* A task that has perhaps put itself on a list goes on to let the scheduler run.
LEMMA LeaveMove ==
  ASSUME ControlInv, NEW t \in Task, Runs(t), ListInv', Wakes,
         UNCHANGED <<pxCurrentTCB, call, then>>,
         NEW a, Goes(t, a),
         <<at[t], a>> \in {<<"unlock", "unlockRx">>, <<"unlockRx", "resume">>, <<"resume", "ticks">>},
         uxSchedulerSuspended' = IF a = "ticks" THEN 0 ELSE 1
  PROVE  ControlInv'
<1>1. at' = [at EXCEPT ![t] = a] /\ t = pxCurrentTCB
  BY DEF Goes, Runs
<1>2. a \in Places /\ then[t] \in FollowUps(a) /\ at[t] \in Leaving /\ a \in Leaving
  BY Whereabouts, FollowUpsAre DEF Places, InCall, InSuspension, Leaving, InTurn
<1>3. then' = [then EXCEPT ![t] = then[t]] /\ Others(t)
  BY <1>1, Whereabouts DEF Others
<1>4. uxSchedulerSuspended' = IF a \in InSuspension THEN 1 ELSE 0
  BY DEF InSuspension
<1>5. a \in InCall \/ then[t] \in InTurn => call'[t].op # "none"
  BY <1>2, Whereabouts DEF InCall, InWait
<1>6. t \in OnEvent' => then[t] = "block"
  BY <1>2 DEF Wakes, ControlInv, PlaceInv, Leaving
<1>7. t \notin Blocked' \/ then[t] \in {"sleep", "block"}
  BY <1>1, <1>2 DEF Wakes, ControlInv, RunInv, Runs
<1>8. OnEvent' \subseteq OnEvent
  BY DEF Wakes
<1>9. QED
  BY <1>1, <1>2, <1>3, <1>4, <1>5, <1>6, <1>7, <1>8, MoveInv

LEMMA UnlockControl ==
  ASSUME CallInv, ControlInv, NEW t \in Task, prvUnlockQueue(t) \/ prvUnlockQueueRx(t)
  PROVE  ControlInv' /\ Wakes
<1>1. Runs(t) /\ at[t] \in {"unlock", "unlockRx"}
  BY DEF prvUnlockQueue, prvUnlockQueueRx
<1>2. call[t].op # "none" /\ uxSchedulerSuspended = 1
      /\ cTxLock \in [Queue -> Int] /\ cRxLock \in [Queue -> Int]
  BY <1>1, Whereabouts DEF InCall, InSuspension
<1>3. call[t].queue \in Queue
  BY <1>2, CallFits
<1>4. Senders(call[t].queue) \in EventList /\ Receivers(call[t].queue) \in EventList
  BY <1>3, QueueAssumption DEF Senders, Receivers
<1>5. PICK l \in EventList, n \in Int : \E p : xTaskRemoveFromEventList(l, n, p)
  BY <1>2, <1>3, <1>4 DEF prvUnlockQueue, prvUnlockQueueRx
<1>6. Typed /\ UNCHANGED <<pxCurrentTCB, call, then, uxSchedulerSuspended>>
  BY <1>2 DEF prvUnlockQueue, prvUnlockQueueRx, Typed, queueUNLOCKED, StepUnchanged
<1>7. ListInv' /\ Wakes
  BY <1>5, <1>6, RemoveLists DEF ControlInv
<1>8. PICK a : Goes(t, a) /\ <<at[t], a>> \in {<<"unlock", "unlockRx">>, <<"unlockRx", "resume">>}
  <2>1. CASE prvUnlockQueue(t)
    BY <2>1 DEF prvUnlockQueue
  <2>2. CASE prvUnlockQueueRx(t)
    BY <2>2 DEF prvUnlockQueueRx
  <2>3. QED
    BY <2>1, <2>2
<1>9. ControlInv'
  BY <1>1, <1>2, <1>6, <1>7, <1>8, LeaveMove
<1>10. QED
  BY <1>7, <1>9

LEMMA ResumeControl ==
  ASSUME ControlInv, NEW t \in Task, xTaskResumeAll(t), UNCHANGED queueVars
  PROVE  ControlInv' /\ Wakes
<1>1. /\ Runs(t) /\ at[t] = "resume" /\ MakeReady(xPendingReadyList) /\ xPendingReadyList' = {}
      /\ UNCHANGED <<pxCurrentTCB, event, then, call, locks>> /\ Goes(t, "ticks")
      /\ uxSchedulerSuspended' = uxSchedulerSuspended - 1
  BY DEF xTaskResumeAll, queueVars
<1>2. Typed /\ uxSchedulerSuspended' = 0
  BY <1>1, Whereabouts DEF Typed, locks, InSuspension
<1>3. ListInv' /\ Wakes
  BY <1>1, <1>2, ResumeLists DEF ControlInv
<1>4. ControlInv'
  BY <1>1, <1>2, <1>3, LeaveMove
<1>5. QED
  BY <1>3, <1>4

\* Where a task goes on.
LEMMA ContinuesTo ==
  ASSUME NEW t, then[t] \in {"sleep", "hold"} \cup InTurn
  PROVE  /\ then[t] = "sleep" => Continues(t) = "slept"
         /\ then[t] = "hold" => Continues(t) = "out"
         /\ then[t] \in {"block", "again"} => Continues(t) = "enter"
         /\ then[t] = "expire" => Continues(t) = "expired"
BY DEF Continues, InTurn

LEMMA EndControl ==
  ASSUME ControlInv, NEW t \in Task, ResumeEnds(t) \/ portYIELD_WITHIN_API(t), UNCHANGED queueVars
  PROVE  ControlInv' /\ Wakes
<1>1. /\ Runs(t) /\ at[t] \in {"ticks", "yield"} /\ t = pxCurrentTCB
      /\ UNCHANGED <<pxCurrentTCB, lists, event, xPendingReadyList, call, locks,
                     uxSchedulerSuspended>>
  BY DEF ResumeEnds, portYIELD_WITHIN_API, Runs, queueVars
<1>2. Typed /\ uxSchedulerSuspended = 0
  BY <1>1, Whereabouts DEF Typed, locks, InSuspension
<1>3. ListInv' /\ Wakes
  BY <1>1, <1>2, SameLists DEF ControlInv, ListInv
<1>4. OnEvent' \subseteq OnEvent /\ Blocked' \subseteq Blocked
  BY <1>3 DEF Wakes
<1>5. /\ then[t] \in {"sleep", "hold"} \cup InTurn
      /\ (at[t] = "yield" => then[t] \in {"sleep", "block"})
      /\ (then[t] \in InTurn => call[t].op # "none")
      /\ (t \in OnEvent => then[t] = "block")
      /\ (t \in Blocked => then[t] \in {"sleep", "block"})
  BY <1>1, Whereabouts, FollowUpsAre DEF ControlInv, PlaceInv, RunInv, Runs
<1>6. CASE Goes(t, "yield") /\ UNCHANGED then /\ then[t] \in {"sleep", "block"}
  <2>1. /\ "yield" \in Places /\ then[t] \in FollowUps("yield") /\ "yield" \notin InCall
        /\ "yield" \notin InSuspension /\ "yield" \in Leaving
    BY <1>6, FollowUpsAre DEF Places, InCall, InWait, InSuspension, Leaving
  <2>2. /\ at' = [at EXCEPT ![t] = "yield"] /\ then' = [then EXCEPT ![t] = then[t]] /\ Others(t)
    BY <1>1, <1>6, Whereabouts DEF Goes, Others
  <2>3. ControlInv'
    BY <1>1, <1>2, <1>3, <1>4, <1>5, <1>6, <2>1, <2>2, MoveInv
  <2>4. QED
    BY <1>3, <2>3
<1>7. CASE /\ Goes(t, Continues(t)) /\ then' = [then EXCEPT ![t] = "none"]
           /\ pendSV' \/ then[t] \notin {"sleep", "block"}
  <2>1. PICK a : a = Continues(t)
    OBVIOUS
  <2>2. /\ (then[t] = "sleep" => a = "slept") /\ (then[t] = "hold" => a = "out")
        /\ (then[t] \in {"block", "again"} => a = "enter") /\ (then[t] = "expire" => a = "expired")
    BY <1>5, <2>1, ContinuesTo
  <2>3. a \in {"slept", "out", "enter", "expired"}
    BY <1>5, <2>2 DEF InTurn
  <2>4. /\ a \in Places /\ "none" \in FollowUps(a) /\ a \notin InSuspension \cup {"ticks"}
        /\ "none" \notin InTurn
    BY <2>3, FollowUpsAre DEF Places, InCall, InSuspension, InTurn
  <2>5. /\ at' = [at EXCEPT ![t] = a] /\ Others(t)
    BY <1>1, <1>7, <2>1, Whereabouts DEF Goes, Others
  <2>6. a \in InCall => call'[t].op # "none"
    BY <1>1, <1>5, <2>2, <2>3 DEF InCall, InWait, InTurn
  <2>7. t \in OnEvent' => a = "enter"
    BY <1>4, <1>5, <2>2
  <2>8. t \notin Blocked' \/ pendSV'
    BY <1>4, <1>5, <1>7
  <2>9. ControlInv'
    BY <1>1, <1>2, <1>3, <1>4, <1>7, <2>4, <2>5, <2>6, <2>7, <2>8, MoveInv
  <2>10. QED
    BY <1>3, <2>9
<1>8. CASE ResumeEnds(t)
  BY <1>6, <1>7, <1>8 DEF ResumeEnds
<1>9. CASE portYIELD_WITHIN_API(t)
  BY <1>7, <1>9 DEF portYIELD_WITHIN_API
<1>10. QED
  BY <1>8, <1>9


LEMMA InitControl == QueuesInit => ControlInv
<1> SUFFICES ASSUME QueuesInit PROVE ControlInv
  OBVIOUS
<1>1. PICK S \in SUBSET Task : SchedulerInit(S)
  BY DEF QueuesInit
<1>2. \A l \in EventList : event[l] = <<>> /\ Range(event[l]) = {}
  BY <1>1 DEF SchedulerInit, Range
<1>3. OnEvent = {} /\ Blocked = S
  BY <1>1, <1>2 DEF SchedulerInit, OnEvent, Blocked
<1>4. event \in [EventList -> Seq(Task)]
  BY <1>1 DEF SchedulerInit
<1>5. cTxLock \in [Queue -> Int] /\ cRxLock \in [Queue -> Int]
  BY DEF QueuesInit, queueUNLOCKED
<1>6. ListInv
  BY <1>1, <1>2, <1>3, <1>4, <1>5 DEF ListInv, SchedulerInit
<1>7. "out" \in Places /\ "none" \in FollowUps("out") /\ "out" \notin InCall \cup InSuspension
      /\ "none" \notin InTurn
  BY FollowUpsAre DEF Places, InCall, InWait, InSuspension, InTurn
<1>8. at = [t \in Task |-> "out"] /\ then = [t \in Task |-> "none"] /\ pxCurrentTCB \in Task \ S
      /\ uxSchedulerSuspended = 0
  BY <1>1 DEF SchedulerInit
<1>9. PlaceInv
  BY <1>3, <1>7, <1>8 DEF PlaceInv
<1>10. RunInv
  BY <1>3, <1>7, <1>8 DEF RunInv
<1>11. QED
  BY <1>6, <1>9, <1>10 DEF ControlInv

\* The steps of the kernel.
LEMMA KernelSteps ==
  ASSUME [KernelNext]_allVars
  PROVE  \/ UNCHANGED allVars
         \/ UNCHANGED queueVars /\ (SysTick \/ SysTickPended \/ vTaskSwitchContext)
         \/ \E q \in use.isr : xQueueGiveFromISR(q)
         \/ \E t \in Task :
               \/ /\ UNCHANGED queueVars
                  /\ \/ xTaskResumeAll(t) \/ ResumeTick(t) \/ ResumeEnds(t) \/ portYIELD_WITHIN_API(t)
                     \/ DelayAdds(t) \/ DelayEnds(t) \/ HeapSuspends(t) \/ vTaskYield(t)
                     \/ \E c \in use.calls[t] : vTaskDelay(t, c.wait)
               \/ \E c \in use.calls[t] : c.queue \in Queue /\ Begin(t, c)
               \/ SendProceeds(t) \/ GiveProceeds(t) \/ MutexGiveProceeds(t)
               \/ ReceiveProceeds(t) \/ TakeProceeds(t)
               \/ GivesUp(t) \/ Expired(t) \/ DisinheritAfterTimeout(t)
               \/ EntersWait(t) \/ Suspends(t) \/ prvLockQueue(t) \/ CheckForTimeOut(t) \/ Looks(t)
               \/ xTaskPriorityInherit(t) \/ Place(t) \/ prvUnlockQueue(t) \/ prvUnlockQueueRx(t)
               \/ ExpiredLooks(t)
<1>1. ASSUME NEW t \in Task, Calls(t)
      PROVE  \/ UNCHANGED queueVars /\ (HeapSuspends(t) \/ vTaskYield(t))
             \/ UNCHANGED queueVars /\ \E c \in use.calls[t] : vTaskDelay(t, c.wait)
             \/ \E c \in use.calls[t] : c.queue \in Queue /\ Begin(t, c)
  BY <1>1 DEF Calls
<1>2. CASE SchedulerStep /\ UNCHANGED queueVars
  BY <1>2 DEF SchedulerStep
<1>3. CASE \E t \in Task : Calls(t)
  BY <1>1, <1>3
<1>4. QED
  BY <1>2, <1>3 DEF KernelNext

LEMMA NextControl ==
  ASSUME CallInv, ControlInv, [KernelNext]_allVars
  PROVE  ControlInv'
<1>1. CASE UNCHANGED allVars
  <2>1. UNCHANGED <<pxCurrentTCB, lists, event, xPendingReadyList, uxSchedulerSuspended, at, then,
                    call, locks, pendSV>>
    BY <1>1 DEF allVars, schedulerVars, queueVars, control
  <2>2. Typed
    BY <2>1 DEF Typed, locks, ControlInv, ListInv
  <2>3. ListInv' /\ Wakes
    BY <2>1, <2>2, SameLists DEF ControlInv, ListInv
  <2>4. QED
    BY <2>1, <2>3 DEF ControlInv, PlaceInv, RunInv, Wakes
<1>2. CASE UNCHANGED queueVars /\ (SysTick \/ SysTickPended \/ vTaskSwitchContext)
  BY <1>2, TickControl, StayControl, SwitchControl, TaskAssumption
<1>3. CASE \E q \in use.isr : xQueueGiveFromISR(q)
  BY <1>3, GiveControl
<1>4. ASSUME NEW t \in Task, UNCHANGED queueVars,
             \/ xTaskResumeAll(t) \/ ResumeTick(t) \/ ResumeEnds(t) \/ portYIELD_WITHIN_API(t)
             \/ DelayAdds(t)
      PROVE  ControlInv'
  BY <1>4, ResumeControl, TickControl, EndControl, DelayControl
<1>5. ASSUME NEW t \in Task, UNCHANGED queueVars,
             \/ DelayEnds(t) \/ HeapSuspends(t) \/ vTaskYield(t)
             \/ \E c \in use.calls[t] : vTaskDelay(t, c.wait)
      PROVE  ControlInv'
  BY <1>5, WaitControl, SuspendControl, StayControl
<1>6. ASSUME NEW t \in Task, \E c \in use.calls[t] : c.queue \in Queue /\ Begin(t, c)
      PROVE  ControlInv'
  BY <1>6, BeginControl
<1>7. ASSUME NEW t \in Task,
             \/ SendProceeds(t) \/ GiveProceeds(t) \/ MutexGiveProceeds(t) \/ ReceiveProceeds(t)
             \/ TakeProceeds(t) \/ GivesUp(t) \/ Expired(t) \/ DisinheritAfterTimeout(t)
      PROVE  ControlInv'
  BY <1>7, ProceedsControl, GivesUpControl
<1>8. ASSUME NEW t \in Task,
             \/ EntersWait(t) \/ Suspends(t) \/ prvLockQueue(t) \/ CheckForTimeOut(t) \/ Looks(t)
             \/ xTaskPriorityInherit(t) \/ Place(t) \/ prvUnlockQueue(t) \/ prvUnlockQueueRx(t)
             \/ ExpiredLooks(t)
      PROVE  ControlInv'
  BY <1>8, WaitControl, LookControl, PlaceControl, UnlockControl
<1>9. QED
  BY <1>1, <1>2, <1>3, <1>4, <1>5, <1>6, <1>7, <1>8, KernelSteps


(***************************************************************************)
(* Time: no task is ahead of its own.                                      *)
(***************************************************************************)

LEMMA Minus ==
  ASSUME NEW c \in TickType, NEW e \in TickType
  PROVE  /\ TickMinus(c, e) \in TickType
         /\ TickMinus(c, e) = IF c >= e THEN c - e ELSE c - e + TickModulus
BY TickAssumption DEF TickMinus, TickType

LEMMA Plus ==
  ASSUME NEW c \in TickType, NEW e \in TickType
  PROVE  /\ TickPlus(c, e) \in TickType
         /\ TickPlus(c, e) = IF c + e < TickModulus THEN c + e ELSE c + e - TickModulus
BY TickAssumption DEF TickPlus, TickType

\* One more tick, for a time that has begun: it has come round when the elapsed ticks have.
LEMMA TickElapses ==
  ASSUME NEW c \in TickType, NEW e \in TickType, NEW n, n = TickPlus(c, 1)
  PROVE  /\ n \in TickType /\ n = (IF c = TickModulus - 1 THEN 0 ELSE c + 1)
         /\ TickMinus(c, e) = TickModulus - 1 => TickMinus(n, e) = 0 /\ n = e
         /\ TickMinus(c, e) # TickModulus - 1 =>
                /\ TickMinus(n, e) = TickMinus(c, e) + 1
                /\ (n >= e => c >= e /\ n # 0)
BY TickAssumption DEF TickMinus, TickPlus, TickType

\* The first wake time of a list.
LEMMA FirstWake ==
  ASSUME ClockInv, NEW D \in SUBSET Task
  PROVE  UnblockTime(D) \in TickType /\ \A u \in D : UnblockTime(D) <= xItemValue[u]
<1>1. CASE D = {}
  BY <1>1, TickAssumption DEF UnblockTime, portMAX_DELAY, TickType
<1>2. CASE D # {}
  <2> DEFINE A == {xItemValue[u] : u \in D}
  <2>1. A # {} /\ A \subseteq TickType /\ A \subseteq Nat
    BY <1>2 DEF ClockInv, TickType
  <2>2. UnblockTime(D) = CHOOSE n \in A : \A u \in D : n <= xItemValue[u]
    BY <1>2 DEF UnblockTime
  <2>3. \E n \in A : \A u \in D : n <= xItemValue[u]
    <3> HIDE DEF A
    <3>1. \E n \in A : \A c \in A : n <= c
      BY <2>1, LeastNumber
    <3>2. QED
      BY <3>1 DEF A
  <2> HIDE DEF A
  <2>4. UnblockTime(D) \in A /\ \A u \in D : UnblockTime(D) <= xItemValue[u]
    BY <2>2, <2>3
  <2>5. QED
    BY <2>1, <2>4
<1>3. QED
  BY <1>1, <1>2

\* What a step leaves of a task's time.
Still(u) ==
    /\ at'[u] = at[u] /\ then'[u] = then[u]
    /\ left'[u] = left[u] /\ xTicksToWait'[u] = xTicksToWait[u] /\ xItemValue'[u] = xItemValue[u]
    /\ xEntryTimeSet'[u] = xEntryTimeSet[u] /\ xTimeOut'[u] = xTimeOut[u]

TimeStill == UNCHANGED <<xTickCount, xNumOfOverflows, uxPendedTicks>>

\* A task in vTaskDelay waits for no event.
LEMMA SleepsAlone ==
  ASSUME ControlInv, NEW u \in Task, Sleeps(u)
  PROVE  u \notin OnEvent
<1>1. (u \in OnEvent => at[u] = "enter" \/ then[u] = "block") /\ then[u] \in FollowUps(at[u])
  BY DEF ControlInv, PlaceInv
<1>2. then[u] = "none" \/ then[u] = "sleep"
  BY <1>1, FollowUpsAre DEF Sleeps
<1>3. at[u] # "enter"
  BY DEF Sleeps
<1>4. QED
  BY <1>1, <1>2, <1>3

\* A task that is neither woken nor runs.
LEMMA StillTime ==
  ASSUME ControlInv, NEW u \in Task, Still(u), TimeStill, WaitAt(u), EarlyAt(u),
         u \in pxDelayedTaskList => u \in pxDelayedTaskList' \cup OnEvent,
         u \in pxOverflowDelayedTaskList => u \in pxOverflowDelayedTaskList' \cup OnEvent
  PROVE  WaitAt(u)' /\ EarlyAt(u)'
<1>1. WaitAt(u)'
  BY DEF WaitAt, Still
<1>2. Ahead(u)' = Ahead(u)
  BY DEF Ahead, Still, TimeStill
<1>3. Timed(u)' = Timed(u) /\ Remaining(u)' = Remaining(u)
      /\ Wrapped(xTimeOut[u])' = Wrapped(xTimeOut[u])
  BY DEF Timed, Remaining, Elapsed, Wrapped, Still, TimeStill
<1>4. (Sleeps(u)' <=> Sleeps(u)) /\ (Sleeps(u) => u \notin OnEvent)
  BY SleepsAlone DEF Sleeps, Still
<1>5. QED
  BY <1>1, <1>2, <1>3, <1>4 DEF EarlyAt, Still, TimeStill

LEMMA OthersTime ==
  ASSUME ControlInv, TimeInv, TimeStill, NEW t, \A u \in Task : u # t => Still(u),
         \A u \in pxDelayedTaskList : u # t => u \in pxDelayedTaskList' \cup OnEvent,
         \A u \in pxOverflowDelayedTaskList : u # t => u \in pxOverflowDelayedTaskList' \cup OnEvent
  PROVE  \A u \in Task : u # t => WaitAt(u)' /\ EarlyAt(u)'
<1> SUFFICES ASSUME NEW u \in Task, u # t PROVE WaitAt(u)' /\ EarlyAt(u)'
  OBVIOUS
<1>1. WaitAt(u) /\ EarlyAt(u) /\ Still(u)
  BY DEF TimeInv
<1>2. QED
  BY <1>1, StillTime

\* A step of the task that runs, for the clock.
TimeTyped ==
    /\ xItemValue' \in [Task -> TickType] /\ xTicksToWait' \in [Task -> TickType]
    /\ left' \in [Task -> Int] /\ xEntryTimeSet' \in [Task -> BOOLEAN] /\ DOMAIN xTimeOut' = Task
    /\ \A u \in Task : xTimeOut'[u].xTimeOnEntering \in TickType

LEMMA ClockStays ==
  ASSUME ControlInv', ClockInv, TimeStill, TimeTyped, NEW t, pxCurrentTCB' = t,
         uxPendedTicks = 0 \/ at'[t] \in InSuspension \cup {"ticks"}
  PROVE  ClockInv'
<1>1. uxSchedulerSuspended' = IF at'[t] \in InSuspension THEN 1 ELSE 0
  BY DEF ControlInv, RunInv
<1>2. (uxSchedulerSuspended = 0 /\ ~Critical => uxPendedTicks = 0)'
  BY <1>1 DEF TimeStill, Critical
<1>3. QED
  BY <1>2 DEF ClockInv, TimeStill, TimeTyped

\* A step that leaves all times alone and moves task t on.
Untimed == UNCHANGED <<left, xTicksToWait, xItemValue, xEntryTimeSet, xTimeOut>> /\ TimeStill

Passes(t) ==
    /\ at'[t] # "delay"
    /\ Sleeps(t)' => Sleeps(t)
    /\ then'[t] = "expire" \/ at'[t] = "expired" => then[t] = "expire" \/ at[t] = "expired"
    /\ at'[t] \in {"out", "slept"} \/ then'[t] \in {"sleep", "hold"} => ~xEntryTimeSet[t]
    /\ at'[t] \in InWait => xEntryTimeSet[t] /\ xTicksToWait[t] > 0
    /\ uxPendedTicks = 0 \/ at'[t] \in InSuspension \cup {"ticks"}

LEMMA PassTime ==
  ASSUME ControlInv, ControlInv', TimeInv, NEW t \in Task, Untimed, Wakes, Others(t),
         pxCurrentTCB' = t, Passes(t)
  PROVE  TimeInv'
<1>1. \A u \in Task : u # t => Still(u)
  BY DEF Untimed, Others, Still
<1>2. \A u \in Task : u # t => WaitAt(u)' /\ EarlyAt(u)'
  BY <1>1, OthersTime DEF Untimed, Wakes
<1>3. TimeTyped
  BY DEF TimeInv, ClockInv, Untimed, TimeTyped
<1>4. ClockInv'
  BY <1>3, ClockStays DEF Untimed, Passes, TimeInv
<1>5. WaitAt(t) /\ EarlyAt(t)
  BY DEF TimeInv
<1>6. WaitAt(t)'
  BY <1>5 DEF WaitAt, Untimed, Passes
<1>7. Ahead(t)' = Ahead(t)
  BY DEF Ahead, Untimed, TimeStill
<1>8. Timed(t)' = Timed(t) /\ Remaining(t)' = Remaining(t)
      /\ Wrapped(xTimeOut[t])' = Wrapped(xTimeOut[t])
  BY DEF Timed, Remaining, Elapsed, Wrapped, Untimed, TimeStill
<1>10. Sleeps(t)' => Sleeps(t) /\ t \notin OnEvent
  BY SleepsAlone DEF Passes
<1>11. EarlyAt(t)'
  BY <1>5, <1>7, <1>8, <1>10 DEF EarlyAt, Passes, Untimed, TimeStill, Wakes
<1>12. QED
  BY <1>2, <1>4, <1>6, <1>11 DEF TimeInv

LEMMA NonePended ==
  ASSUME ControlInv, ClockInv, NEW t \in Task, Runs(t), at[t] \notin InSuspension \cup {"ticks"}
  PROVE  uxPendedTicks = 0
BY Whereabouts DEF ClockInv, Critical

\* The steps that read no time.
LEMMA WaitSteps ==
  ASSUME CallInv, ControlInv, ControlInv', TimeInv, NEW t \in Task,
         \/ EntersWait(t) /\ xEntryTimeSet[t]
         \/ Suspends(t) \/ prvLockQueue(t) \/ Looks(t) \/ xTaskPriorityInherit(t)
         \/ ExpiredLooks(t) \/ (CheckForTimeOut(t) /\ UNCHANGED <<xTicksToWait, xTimeOut, then>>)
  PROVE  TimeInv'
<1>1. /\ Runs(t) /\ at[t] \in {"enter", "suspend", "lock", "test", "inherit", "expired", "check"}
      /\ t = pxCurrentTCB
  BY DEF EntersWait, Suspends, prvLockQueue, Looks, xTaskPriorityInherit, ExpiredLooks,
         CheckForTimeOut, Runs
<1>2. Untimed /\ UNCHANGED <<pxCurrentTCB, call>>
  BY DEF EntersWait, Suspends, prvLockQueue, Looks, xTaskPriorityInherit, ExpiredLooks,
         CheckForTimeOut, StepUnchanged, vTaskSuspendAll, Untimed, TimeStill, clock, queueVars, waits
<1>3. Wakes
  BY WaitControl, LookControl
<1>4. /\ at \in [Task -> Places] /\ then \in [Task -> {"none", "sleep", "hold"} \cup InTurn]
      /\ then[t] = "none"
  BY <1>1, Whereabouts, FollowUpsAre DEF InWait
<1>5. WaitAt(t)
  BY DEF TimeInv
<1>6. CASE \E a : Goes(t, a) /\ then' = then /\ <<at[t], a>> \in Onward \ {<<"slept", "out">>}
                  /\ (a \in {"suspend"} => xEntryTimeSet[t] /\ xTicksToWait[t] > 0)
  <2>1. PICK a : Goes(t, a) /\ then' = then /\ <<at[t], a>> \in Onward \ {<<"slept", "out">>}
                 /\ (a \in {"suspend"} => xEntryTimeSet[t] /\ xTicksToWait[t] > 0)
    BY <1>6
  <2>2. at' = [at EXCEPT ![t] = a] /\ at'[t] = a /\ Others(t)
    BY <1>2, <1>4, <2>1 DEF Goes, Others
  <2>3. a \in InWait => xEntryTimeSet[t] /\ xTicksToWait[t] > 0
    BY <1>5, <2>1 DEF WaitAt, Onward, InWait
  <2>4. uxPendedTicks = 0 \/ a \in InSuspension
    BY <1>1, <2>1, NonePended DEF Onward, InSuspension, TimeInv
  <2>5. a \notin {"delay", "out", "slept", "expired", "resume", "ticks", "yield"}
    BY <2>1 DEF Onward
  <2>6. Passes(t)
    BY <1>4, <2>1, <2>2, <2>3, <2>4, <2>5 DEF Passes, Sleeps
  <2>7. QED
    BY <1>1, <1>2, <1>3, <2>2, <2>6, PassTime
<1>7. CASE Goes(t, "unlock") /\ then' = [then EXCEPT ![t] = "again"]
  <2>1. at'[t] = "unlock" /\ then'[t] = "again" /\ Others(t)
    BY <1>2, <1>4, <1>7 DEF Goes, Others
  <2>2. Passes(t)
    BY <2>1 DEF Passes, Sleeps, InWait, InSuspension
  <2>3. QED
    BY <1>1, <1>2, <1>3, <2>1, <2>2, PassTime
<1>8. CASE EntersWait(t) /\ xEntryTimeSet[t]
  BY <1>6, <1>8 DEF EntersWait, Onward
<1>9. CASE Suspends(t)
  BY <1>6, <1>9 DEF Suspends, vTaskSuspendAll, Onward
<1>10. CASE prvLockQueue(t)
  BY <1>6, <1>10 DEF prvLockQueue, Onward
<1>11. CASE Looks(t)
  <2>1. \/ UNCHANGED then /\ (Goes(t, "inherit") \/ Goes(t, "place"))
        \/ Goes(t, "unlock") /\ then' = [then EXCEPT ![t] = "again"]
    BY <1>11 DEF Looks
  <2>2. <<at[t], "inherit">> \in Onward /\ <<at[t], "place">> \in Onward
    BY <1>11 DEF Looks, Onward
  <2>3. QED
    BY <1>6, <1>7, <2>1, <2>2
<1>12. CASE xTaskPriorityInherit(t)
  BY <1>6, <1>12 DEF xTaskPriorityInherit, Onward
<1>13. CASE ExpiredLooks(t)
  <2>1. UNCHANGED then /\ (Goes(t, "disinherit") \/ Goes(t, "enter")) /\ at[t] = "expired"
    BY <1>13 DEF ExpiredLooks
  <2>2. <<at[t], "disinherit">> \in Onward /\ <<at[t], "enter">> \in Onward
    BY <2>1 DEF Onward
  <2>3. QED
    BY <1>6, <2>1, <2>2
<1>14. CASE CheckForTimeOut(t) /\ UNCHANGED <<xTicksToWait, xTimeOut, then>>
  <2>1. at[t] = "check" /\ (Goes(t, "test") \/ then' = [then EXCEPT ![t] = "expire"])
    BY <1>14 DEF CheckForTimeOut
  <2>2. Goes(t, "test")
    BY <1>4, <1>14, <2>1
  <2>3. <<at[t], "test">> \in Onward
    BY <2>1 DEF Onward
  <2>4. QED
    BY <1>6, <1>14, <2>2, <2>3
<1>15. QED
  BY <1>8, <1>9, <1>10, <1>11, <1>12, <1>13, <1>14

LEMMA LeaveSteps ==
  ASSUME CallInv, ControlInv, ControlInv', TimeInv, NEW t \in Task,
         \/ prvUnlockQueue(t) \/ prvUnlockQueueRx(t)
         \/ /\ UNCHANGED queueVars
            /\ \/ xTaskResumeAll(t) \/ ResumeEnds(t) \/ portYIELD_WITHIN_API(t) \/ HeapSuspends(t)
               \/ vTaskYield(t)
  PROVE  TimeInv'
<1>1. /\ Runs(t) /\ at[t] \in {"unlock", "unlockRx", "resume", "ticks", "yield", "out"}
      /\ t = pxCurrentTCB
  BY DEF prvUnlockQueue, prvUnlockQueueRx, xTaskResumeAll, ResumeEnds, portYIELD_WITHIN_API,
         HeapSuspends, vTaskYield, Runs
<1>2. Untimed /\ UNCHANGED <<pxCurrentTCB, call>>
  BY DEF prvUnlockQueue, prvUnlockQueueRx, xTaskResumeAll, ResumeEnds, portYIELD_WITHIN_API,
         HeapSuspends, vTaskYield, StepUnchanged, vTaskSuspendAll, Untimed, TimeStill, clock,
         control, queueVars, waits
<1>3. Wakes
  <2>1. CASE prvUnlockQueue(t) \/ prvUnlockQueueRx(t)
    BY <2>1, UnlockControl
  <2>2. CASE UNCHANGED queueVars /\ (xTaskResumeAll(t) \/ ResumeEnds(t) \/ portYIELD_WITHIN_API(t))
    BY <2>2, ResumeControl, EndControl
  <2>3. CASE UNCHANGED queueVars /\ (HeapSuspends(t) \/ vTaskYield(t))
    BY <2>3, SuspendControl, StayControl
  <2>4. QED
    BY <2>1, <2>2, <2>3
<1>4. /\ at \in [Task -> Places] /\ then \in [Task -> {"none", "sleep", "hold"} \cup InTurn]
      /\ then[t] \in FollowUps(at[t])
  BY <1>1, Whereabouts
<1>5. WaitAt(t)
  BY DEF TimeInv
<1>6. CASE \E a : Goes(t, a) /\ then' = then
                  /\ <<at[t], a>> \in {<<"unlock", "unlockRx">>, <<"unlockRx", "resume">>,
                                       <<"resume", "ticks">>, <<"ticks", "yield">>}
                  /\ (at[t] = "ticks" => uxPendedTicks = 0)
  <2>1. PICK a : Goes(t, a) /\ then' = then
                 /\ <<at[t], a>> \in {<<"unlock", "unlockRx">>, <<"unlockRx", "resume">>,
                                      <<"resume", "ticks">>, <<"ticks", "yield">>}
                 /\ (at[t] = "ticks" => uxPendedTicks = 0)
    BY <1>6
  <2>2. at' = [at EXCEPT ![t] = a] /\ at'[t] = a /\ Others(t)
    BY <1>2, <1>4, <2>1 DEF Goes, Others
  <2>3. a \in {"unlockRx", "resume", "ticks", "yield"} /\ a \notin InWait
    BY <2>1 DEF InWait
  <2>4. uxPendedTicks = 0 \/ a \in InSuspension \cup {"ticks"}
    BY <2>1 DEF InSuspension
  <2>5. then[t] \in {"sleep", "hold"} => ~xEntryTimeSet[t]
    BY <1>5 DEF WaitAt
  <2>6. a \in {"resume", "ticks", "yield"} /\ then[t] = "sleep" => Sleeps(t)
    <3>1. at[t] \in {"unlock", "unlockRx"} => then[t] # "sleep"
      BY <1>4, FollowUpsAre DEF InTurn
    <3>2. QED
      BY <2>1, <3>1 DEF Sleeps
  <2>7. Passes(t)
    <3>1. Sleeps(t)' => Sleeps(t)
      BY <2>1, <2>2, <2>3, <2>6 DEF Sleeps
    <3>2. QED
      BY <2>1, <2>2, <2>3, <2>4, <2>5, <3>1 DEF Passes
  <2>8. QED
    BY <1>1, <1>2, <1>3, <2>2, <2>7, PassTime
<1>7. CASE /\ Goes(t, Continues(t)) /\ then' = [then EXCEPT ![t] = "none"]
           /\ at[t] \in {"ticks", "yield"} /\ uxPendedTicks = 0
  <2>1. PICK a : a = Continues(t)
    OBVIOUS
  <2>2. then[t] \in {"sleep", "hold"} \cup InTurn
    BY <1>4, <1>7, FollowUpsAre DEF InTurn
  <2>3. /\ (then[t] = "sleep" => a = "slept") /\ (then[t] = "hold" => a = "out")
        /\ (then[t] \in {"block", "again"} => a = "enter") /\ (then[t] = "expire" => a = "expired")
    BY <2>1, <2>2, ContinuesTo
  <2>4. at'[t] = a /\ then'[t] = "none" /\ Others(t)
    BY <1>2, <1>4, <1>7, <2>1 DEF Goes, Others
  <2>5. a \in {"slept", "out", "enter", "expired"} /\ a \notin InWait
    BY <2>2, <2>3 DEF InTurn, InWait
  <2>6. /\ (a = "slept" => then[t] = "sleep") /\ (a = "out" => then[t] = "hold")
        /\ (a = "expired" => then[t] = "expire")
    BY <2>2, <2>3 DEF InTurn
  <2>7. Sleeps(t)' => Sleeps(t)
    BY <1>7, <2>4, <2>5, <2>6 DEF Sleeps
  <2>8. Passes(t)
    BY <1>5, <1>7, <2>4, <2>5, <2>6, <2>7 DEF Passes, WaitAt
  <2>9. QED
    BY <1>1, <1>2, <1>3, <2>4, <2>8, PassTime
<1>8. CASE prvUnlockQueue(t) \/ prvUnlockQueueRx(t)
  BY <1>6, <1>8 DEF prvUnlockQueue, prvUnlockQueueRx
<1>9. CASE xTaskResumeAll(t)
  BY <1>6, <1>9 DEF xTaskResumeAll
<1>10. CASE ResumeEnds(t)
  BY <1>6, <1>7, <1>10 DEF ResumeEnds
<1>11. CASE portYIELD_WITHIN_API(t)
  <2>1. uxPendedTicks = 0
    BY <1>11, NonePended DEF portYIELD_WITHIN_API, InSuspension, TimeInv
  <2>2. QED
    BY <1>7, <1>11, <2>1 DEF portYIELD_WITHIN_API
<1>12. CASE HeapSuspends(t)
  <2>1. at'[t] = "resume" /\ then'[t] = "hold" /\ Others(t) /\ at[t] = "out"
    BY <1>2, <1>4, <1>12 DEF HeapSuspends, vTaskSuspendAll, Goes, Others
  <2>2. Passes(t)
    BY <1>5, <2>1 DEF Passes, Sleeps, InWait, InSuspension, WaitAt
  <2>3. QED
    BY <1>1, <1>2, <1>3, <2>1, <2>2, PassTime
<1>13. CASE vTaskYield(t)
  <2>1. at' = at /\ then' = then /\ at[t] = "out" /\ then[t] = "none"
    BY <1>4, <1>13, FollowUpsAre DEF vTaskYield, control
  <2>2. Others(t)
    BY <1>2, <2>1 DEF Others
  <2>3. uxPendedTicks = 0
    BY <1>1, <2>1, NonePended DEF InSuspension, TimeInv
  <2>4. Passes(t)
    BY <1>5, <2>1, <2>3 DEF Passes, Sleeps, InWait, WaitAt
  <2>5. QED
    BY <1>1, <1>2, <1>3, <2>2, <2>4, PassTime
<1>14. QED
  BY <1>8, <1>9, <1>10, <1>11, <1>12, <1>13

\* The steps that end a call.
LEMMA ReturnSteps ==
  ASSUME CallInv, ControlInv, ControlInv', TimeInv, NEW t \in Task,
         \/ SendProceeds(t) \/ GiveProceeds(t) \/ MutexGiveProceeds(t) \/ ReceiveProceeds(t)
         \/ TakeProceeds(t) \/ GivesUp(t) \/ Expired(t) \/ DisinheritAfterTimeout(t)
         \/ (DelayEnds(t) /\ UNCHANGED queueVars)
  PROVE  TimeInv'
<1>1. /\ Runs(t) /\ at[t] \in {"enter", "expired", "disinherit", "slept"} /\ t = pxCurrentTCB
      /\ Returns(t) \/ (DelayEnds(t) /\ UNCHANGED queueVars)
  BY DEF SendProceeds, GiveProceeds, MutexGiveProceeds, ReceiveProceeds, TakeProceeds, Proceeds,
         GivesUp, Expired, DisinheritAfterTimeout, DelayEnds, Runs
<1>2. Wakes
  BY ProceedsControl, GivesUpControl, WaitControl
<1>3. /\ at \in [Task -> Places] /\ then \in [Task -> {"none", "sleep", "hold"} \cup InTurn]
      /\ then[t] = "none" /\ uxPendedTicks = 0
  BY <1>1, Whereabouts, FollowUpsAre, NonePended DEF InSuspension, TimeInv
<1>4. /\ at' = [at EXCEPT ![t] = "out"] /\ then' = then
      /\ xItemValue' = [xItemValue EXCEPT ![t] = 0] /\ left' = [left EXCEPT ![t] = NoDeadline]
      /\ UNCHANGED <<pxCurrentTCB, uxPendedTicks, xTickCount, xNumOfOverflows>>
      /\ xTicksToWait' = xTicksToWait \/ xTicksToWait' = [xTicksToWait EXCEPT ![t] = 0]
  BY <1>1 DEF Returns, DelayEnds, Goes, clock
<1>5. \/ xEntryTimeSet' = [xEntryTimeSet EXCEPT ![t] = FALSE] /\ xTimeOut' = [xTimeOut EXCEPT ![t] = NoTimeOut]
      \/ at[t] = "slept" /\ xEntryTimeSet' = xEntryTimeSet /\ xTimeOut' = xTimeOut
  BY <1>1 DEF Returns, DelayEnds, queueVars, waits
<1>6. ClockInv /\ WaitAt(t)
  BY DEF TimeInv
<1>7. ~xEntryTimeSet'[t] /\ at'[t] = "out" /\ then'[t] = "none" /\ left'[t] = TickModulus
  BY <1>3, <1>4, <1>5, <1>6 DEF ClockInv, WaitAt, NoDeadline
<1>8. 0 \in TickType /\ NoDeadline \in Int /\ NoTimeOut.xTimeOnEntering \in TickType
  BY TickAssumption DEF TickType, NoDeadline, NoTimeOut
<1>9. TimeTyped
  <2>1. xEntryTimeSet' \in [Task -> BOOLEAN] /\ DOMAIN xTimeOut' = Task
        /\ \A u \in Task : xTimeOut'[u].xTimeOnEntering \in TickType
    BY <1>5, <1>6, <1>8 DEF ClockInv
  <2>2. xItemValue' \in [Task -> TickType] /\ xTicksToWait' \in [Task -> TickType]
        /\ left' \in [Task -> Int]
    BY <1>4, <1>6, <1>8 DEF ClockInv
  <2>3. QED
    BY <2>1, <2>2 DEF TimeTyped
<1>10. TimeStill
  BY <1>4 DEF TimeStill
<1>11. ClockInv'
  BY <1>1, <1>3, <1>4, <1>6, <1>9, <1>10, ClockStays
<1>12. \A u \in Task : u # t => Still(u)
  BY <1>3, <1>4, <1>5, <1>6 DEF Still, ClockInv
<1>13. \A u \in Task : u # t => WaitAt(u)' /\ EarlyAt(u)'
  BY <1>2, <1>10, <1>12, OthersTime DEF Wakes
<1>14. WaitAt(t)'
  BY <1>7, TickAssumption DEF WaitAt, InWait, NoDeadline
<1>15. EarlyAt(t)'
  BY <1>7 DEF EarlyAt, Sleeps, Timed
<1>16. QED
  BY <1>11, <1>13, <1>14, <1>15 DEF TimeInv

\* A step that changes the times of the task that runs.
LEMMA StepTime ==
  ASSUME ControlInv, ControlInv', TimeInv, NEW t \in Task, TimeStill, TimeTyped,
         \A u \in Task : u # t => Still(u),
         \A u \in pxDelayedTaskList : u # t => u \in pxDelayedTaskList' \cup OnEvent,
         \A u \in pxOverflowDelayedTaskList : u # t => u \in pxOverflowDelayedTaskList' \cup OnEvent,
         pxCurrentTCB' = t, uxPendedTicks = 0 \/ at'[t] \in InSuspension \cup {"ticks"},
         WaitAt(t)', EarlyAt(t)'
  PROVE  TimeInv'
<1>1. ClockInv'
  BY ClockStays DEF TimeInv
<1>2. \A u \in Task : u # t => WaitAt(u)' /\ EarlyAt(u)'
  BY OthersTime
<1>3. QED
  BY <1>1, <1>2 DEF TimeInv

LEMMA BeginTime ==
  ASSUME CallInv, ControlInv, ControlInv', TimeInv, NEW t \in Task, NEW c \in use.calls[t],
         c.queue \in Queue, Begin(t, c)
  PROVE  TimeInv'
<1>1. /\ Runs(t) /\ at[t] = "out" /\ t = pxCurrentTCB /\ pxCurrentTCB' = pxCurrentTCB
      /\ at' = [at EXCEPT ![t] = "enter"] /\ xTicksToWait' = [xTicksToWait EXCEPT ![t] = c.wait]
      /\ UNCHANGED <<lists, xItemValue, then, left, xEntryTimeSet, xTimeOut>> /\ TimeStill
  BY DEF Begin, Goes, Runs, waits, clock, TimeStill
<1>2. at \in [Task -> Places] /\ then[t] = "none" /\ uxPendedTicks = 0
  BY <1>1, Whereabouts, FollowUpsAre, NonePended DEF InSuspension, TimeInv
<1>3. ClockInv /\ WaitAt(t)
  BY DEF TimeInv
<1>4. c.wait \in TickType
  BY QueueAssumption DEF CallInv
<1>5. TimeTyped /\ \A u \in Task : u # t => Still(u)
  BY <1>1, <1>2, <1>3, <1>4 DEF TimeTyped, ClockInv, Still
<1>6. ~xEntryTimeSet[t] /\ at'[t] = "enter"
  BY <1>1, <1>2, <1>3 DEF WaitAt
<1>7. WaitAt(t)' /\ EarlyAt(t)'
  BY <1>1, <1>2, <1>3, <1>6 DEF WaitAt, EarlyAt, Sleeps, Timed, InWait
<1>8. QED
  BY <1>1, <1>2, <1>5, <1>7, StepTime DEF lists

\* A time of entry that is stored now.
LEMMA FreshTimeOut ==
  ASSUME ClockInv, TimeStill
  PROVE  /\ TimeOutState.xTimeOnEntering \in TickType
         /\ Elapsed(TimeOutState)' = 0 /\ ~Wrapped(TimeOutState)'
<1>1. TimeOutState' = TimeOutState
  BY DEF TimeOutState, TimeStill
<1>2. QED
  BY <1>1 DEF ClockInv, TimeOutState, Elapsed, Wrapped, TickMinus, TimeStill, TickType

LEMMA EnterTime ==
  ASSUME CallInv, ControlInv, ControlInv', TimeInv, NEW t \in Task, EntersWait(t)
  PROVE  TimeInv'
<1>1. CASE xEntryTimeSet[t]
  BY <1>1, WaitSteps
<1>2. CASE ~xEntryTimeSet[t]
  <2> DEFINE n == IF xTicksToWait[t] = portMAX_DELAY THEN NoDeadline ELSE xTicksToWait[t]
  <2>1. /\ Runs(t) /\ at[t] = "enter" /\ t = pxCurrentTCB /\ pxCurrentTCB' = pxCurrentTCB
        /\ at' = [at EXCEPT ![t] = "suspend"] /\ xTicksToWait[t] > 0
        /\ xEntryTimeSet' = [xEntryTimeSet EXCEPT ![t] = TRUE]
        /\ xTimeOut' = [xTimeOut EXCEPT ![t] = TimeOutState]
        /\ left' = [left EXCEPT ![t] = n]
        /\ UNCHANGED <<lists, xItemValue, then, xTicksToWait>> /\ TimeStill
    BY <1>2 DEF EntersWait, Goes, Runs, clock, TimeStill
  <2>2. at \in [Task -> Places] /\ then[t] = "none" /\ uxPendedTicks = 0
    BY <2>1, Whereabouts, FollowUpsAre, NonePended DEF InSuspension, TimeInv
  <2>3. ClockInv /\ WaitAt(t) /\ xTicksToWait[t] \in TickType
    BY DEF TimeInv, ClockInv
  <2>4. n \in Int /\ n <= NoDeadline /\ (xTicksToWait[t] # portMAX_DELAY => n = xTicksToWait[t])
    BY <2>3, TickAssumption DEF NoDeadline, TickType
  <2> HIDE DEF n
  <2>5. TimeOutState.xTimeOnEntering \in TickType
        /\ Elapsed(TimeOutState)' = 0 /\ ~Wrapped(TimeOutState)'
    BY <2>1, <2>3, FreshTimeOut
  <2>6. TimeTyped /\ \A u \in Task : u # t => Still(u)
    BY <2>1, <2>2, <2>3, <2>4, <2>5 DEF TimeTyped, ClockInv, Still
  <2>7. at'[t] = "suspend" /\ xEntryTimeSet'[t] /\ xTimeOut'[t] = TimeOutState /\ left'[t] = n
    BY <2>1, <2>2, <2>3 DEF ClockInv
  <2>8. WaitAt(t)'
    BY <2>1, <2>2, <2>4, <2>7 DEF WaitAt, NoDeadline
  <2>9. TimeOutState' = TimeOutState
    BY <2>1 DEF TimeOutState, TimeStill
  <2>10. Elapsed(xTimeOut[t])' = 0 /\ ~Wrapped(xTimeOut[t])'
    BY <2>5, <2>7, <2>9 DEF Elapsed, Wrapped
  <2>11. uxPendedTicks' = 0 /\ xTicksToWait'[t] = xTicksToWait[t]
    BY <2>1, <2>2 DEF TimeStill
  <2>12. Timed(t)' => left'[t] <= Remaining(t)' - 0
    BY <2>3, <2>4, <2>7, <2>10, <2>11 DEF Timed, Remaining, TickType, portMAX_DELAY
  <2>13. EarlyAt(t)'
    BY <2>1, <2>2, <2>3, <2>7, <2>10, <2>11, <2>12 DEF EarlyAt, Sleeps
  <2>14. QED
    BY <2>1, <2>2, <2>6, <2>8, <2>13, StepTime DEF lists
<1>3. QED
  BY <1>1, <1>2

LEMMA CheckTime ==
  ASSUME CallInv, ControlInv, ControlInv', TimeInv, NEW t \in Task, CheckForTimeOut(t)
  PROVE  TimeInv'
<1> DEFINE n == xTicksToWait[t] - Elapsed(xTimeOut[t])
           m == IF Wrapped(xTimeOut[t]) THEN xTicksToWait[t] ELSE 0
<1>1. /\ Runs(t) /\ at[t] = "check" /\ t = pxCurrentTCB /\ pxCurrentTCB' = pxCurrentTCB
      /\ UNCHANGED <<lists, xItemValue, left, xEntryTimeSet>> /\ TimeStill
  BY DEF CheckForTimeOut, StepUnchanged, Runs, TimeStill
<1>2. /\ at \in [Task -> Places] /\ then \in [Task -> {"none", "sleep", "hold"} \cup InTurn]
      /\ then[t] = "none"
  BY <1>1, Whereabouts, FollowUpsAre DEF InWait
<1>3. ClockInv /\ WaitAt(t) /\ EarlyAt(t) /\ xTicksToWait[t] \in TickType
      /\ left[t] \in Int /\ uxPendedTicks \in Nat /\ Elapsed(xTimeOut[t]) \in TickType
  BY Minus DEF TimeInv, ClockInv, Elapsed
<1>4. xEntryTimeSet[t] /\ xTicksToWait[t] > 0
  BY <1>1, <1>3 DEF WaitAt, InWait
<1>5. CASE UNCHANGED <<xTicksToWait, xTimeOut, then>>
  BY <1>5, WaitSteps
<1>6. CASE /\ xTicksToWait[t] # portMAX_DELAY /\ ~TimesOut(xTimeOut[t], xTicksToWait[t])
           /\ xTicksToWait' = [xTicksToWait EXCEPT ![t] = n]
           /\ xTimeOut' = [xTimeOut EXCEPT ![t] = TimeOutState]
           /\ Goes(t, "test") /\ then' = then
  <2>1. /\ left[t] <= n - uxPendedTicks /\ n \in TickType /\ n > 0
    <3>1. ~Wrapped(xTimeOut[t]) /\ Elapsed(xTimeOut[t]) < xTicksToWait[t] /\ Timed(t)
      BY <1>3, <1>4, <1>6 DEF TimesOut, Timed, TickType
    <3>2. left[t] <= Remaining(t) - 0
      BY <1>3, <3>1 DEF EarlyAt
    <3>3. PICK e \in TickType : e = Elapsed(xTimeOut[t])
      BY <1>3
    <3>4. /\ left[t] <= xTicksToWait[t] - e - uxPendedTicks - 0 /\ e < xTicksToWait[t]
          /\ n = xTicksToWait[t] - e
      BY <3>1, <3>2, <3>3 DEF Remaining
    <3> HIDE DEF n
    <3>5. QED
      BY <1>3, <3>4, TickAssumption DEF TickType
  <2> HIDE DEF n
  <2>2. TimeOutState.xTimeOnEntering \in TickType
        /\ Elapsed(TimeOutState)' = 0 /\ ~Wrapped(TimeOutState)'
    BY <1>1, <1>3, FreshTimeOut
  <2>3. TimeTyped /\ \A u \in Task : u # t => Still(u)
    BY <1>1, <1>2, <1>3, <1>6, <2>1, <2>2 DEF TimeTyped, ClockInv, Still, Goes
  <2>4. at'[t] = "test" /\ xTicksToWait'[t] = n /\ xTimeOut'[t] = TimeOutState /\ left'[t] = left[t]
        /\ then'[t] = "none" /\ uxPendedTicks' = uxPendedTicks /\ xEntryTimeSet'[t]
    BY <1>1, <1>2, <1>3, <1>4, <1>6 DEF ClockInv, Goes, TimeStill
  <2>5. TimeOutState' = TimeOutState
    BY <1>1 DEF TimeOutState, TimeStill
  <2>6. Elapsed(xTimeOut[t])' = 0 /\ ~Wrapped(xTimeOut[t])'
    BY <2>2, <2>4, <2>5 DEF Elapsed, Wrapped
  <2>7. WaitAt(t)'
    BY <1>3, <2>1, <2>4 DEF WaitAt
  <2>8. EarlyAt(t)'
    <3>1. left'[t] <= Remaining(t)' - 0
      BY <1>3, <2>1, <2>4, <2>6 DEF Remaining, TickType
    <3>2. QED
      BY <2>1, <2>4, <2>6, <3>1 DEF EarlyAt, Sleeps
  <2>9. QED
    BY <1>1, <2>3, <2>4, <2>7, <2>8, StepTime DEF lists, InSuspension
<1>7. CASE /\ xTicksToWait[t] # portMAX_DELAY /\ TimesOut(xTimeOut[t], xTicksToWait[t])
           /\ xTicksToWait' = [xTicksToWait EXCEPT ![t] = m]
           /\ Goes(t, "unlock") /\ then' = [then EXCEPT ![t] = "expire"] /\ xTimeOut' = xTimeOut
  <2>1. Timed(t)
    BY <1>3, <1>4, <1>7 DEF Timed, TickType
  <2>2. m \in TickType
    BY <1>3, TickAssumption DEF TickType
  <2>3. left[t] <= 0
    <3>1. CASE Wrapped(xTimeOut[t])
      <4>1. left[t] <= Remaining(t) - TickModulus
        BY <1>3, <2>1, <3>1 DEF EarlyAt
      <4>2. QED
        BY <1>3, <4>1, TickAssumption DEF Remaining, TickType
    <3>2. CASE ~Wrapped(xTimeOut[t])
      <4>1. left[t] <= Remaining(t) - 0 /\ xTicksToWait[t] <= Elapsed(xTimeOut[t])
        BY <1>3, <1>7, <2>1, <3>2 DEF EarlyAt, TimesOut
      <4>2. QED
        BY <1>3, <4>1 DEF Remaining, TickType
    <3>3. QED
      BY <3>1, <3>2
  <2>4. at'[t] = "unlock" /\ xTicksToWait'[t] = m /\ left'[t] = left[t]
        /\ then'[t] = "expire" /\ xEntryTimeSet'[t]
    BY <1>1, <1>2, <1>3, <1>4, <1>7 DEF ClockInv, Goes
  <2>5. Elapsed(xTimeOut[t])' = Elapsed(xTimeOut[t])
        /\ Wrapped(xTimeOut[t])' = Wrapped(xTimeOut[t])
    BY <1>1, <1>7 DEF Elapsed, Wrapped, TimeStill
  <2>6. Timed(t)' => left'[t] <= Remaining(t)' - (IF Wrapped(xTimeOut[t])' THEN TickModulus ELSE 0)
    <3>1. CASE Wrapped(xTimeOut[t])
      <4>1. Remaining(t)' = Remaining(t) /\ left[t] <= Remaining(t) - TickModulus
        BY <1>1, <1>3, <2>1, <2>4, <2>5, <3>1 DEF EarlyAt, Remaining, TimeStill
      <4>2. QED
        BY <2>4, <2>5, <3>1, <4>1
    <3>2. CASE ~Wrapped(xTimeOut[t])
      BY <2>4, <3>2 DEF Timed
    <3>3. QED
      BY <3>1, <3>2
  <2>7. EarlyAt(t)'
    BY <2>3, <2>4, <2>6 DEF EarlyAt, Sleeps
  <2>8. WaitAt(t)'
    BY <1>3, <2>4 DEF WaitAt, InWait
  <2> HIDE DEF m
  <2>9. TimeTyped /\ \A u \in Task : u # t => Still(u)
    BY <1>1, <1>2, <1>3, <1>7, <2>2 DEF TimeTyped, ClockInv, Still, Goes
  <2>10. QED
    BY <1>1, <2>4, <2>7, <2>8, <2>9, StepTime DEF lists, InSuspension
<1>8. QED
  BY <1>5, <1>6, <1>7 DEF CheckForTimeOut

LEMMA PlaceTime ==
  ASSUME CallInv, ControlInv, ControlInv', TimeInv, NEW t \in Task, Place(t)
  PROVE  TimeInv'
<1>1. /\ Runs(t) /\ at[t] = "place" /\ t = pxCurrentTCB /\ pxCurrentTCB' = pxCurrentTCB
      /\ at' = [at EXCEPT ![t] = "unlock"] /\ then' = [then EXCEPT ![t] = "block"]
      /\ UNCHANGED <<left, xEntryTimeSet, xTicksToWait, xTimeOut>> /\ TimeStill
      /\ \E ticks \in TickType : prvAddCurrentTaskToDelayedList(ticks, TRUE)
  BY DEF Place, vTaskPlaceOnEventList, StepUnchanged, Runs, Goes, TimeStill, TimeInv, ClockInv
<1>2. /\ at \in [Task -> Places] /\ then \in [Task -> {"none", "sleep", "hold"} \cup InTurn]
  BY <1>1, Whereabouts
<1>3. ClockInv /\ WaitAt(t) /\ EarlyAt(t)
  BY DEF TimeInv
<1>4. PICK wake \in TickType :
         xItemValue' = xItemValue \/ xItemValue' = [xItemValue EXCEPT ![t] = wake]
  <2>1. PICK ticks \in TickType : prvAddCurrentTaskToDelayedList(ticks, TRUE)
    BY <1>1
  <2>2. TickPlus(xTickCount, ticks) \in TickType /\ 0 \in TickType
    <3>1. xTickCount \in TickType
      BY <1>3 DEF ClockInv
    <3>2. QED
      BY <3>1, Plus, TickAssumption DEF TickType
  <2>3. QED
    BY <1>1, <2>1, <2>2 DEF prvAddCurrentTaskToDelayedList
<1>5. pxDelayedTaskList \subseteq pxDelayedTaskList' /\ pxOverflowDelayedTaskList \subseteq pxOverflowDelayedTaskList'
  BY <1>1 DEF prvAddCurrentTaskToDelayedList
<1>6. TimeTyped /\ \A u \in Task : u # t => Still(u)
  BY <1>1, <1>2, <1>3, <1>4 DEF TimeTyped, ClockInv, Still
<1>7. at'[t] = "unlock" /\ then'[t] = "block"
  BY <1>1, <1>2
<1>8. WaitAt(t)'
  BY <1>1, <1>3, <1>7 DEF WaitAt, InWait
<1>9. Timed(t)' = Timed(t) /\ Remaining(t)' = Remaining(t)
      /\ Wrapped(xTimeOut[t])' = Wrapped(xTimeOut[t])
  BY <1>1 DEF Timed, Remaining, Elapsed, Wrapped, TimeStill
<1>10. EarlyAt(t)'
  BY <1>1, <1>3, <1>7, <1>9 DEF EarlyAt, Sleeps
<1>11. QED
  BY <1>1, <1>5, <1>6, <1>7, <1>8, <1>10, StepTime DEF InSuspension

LEMMA DelayTime ==
  ASSUME CallInv, ControlInv, ControlInv', TimeInv, NEW t \in Task, NEW c \in use.calls[t],
         vTaskDelay(t, c.wait), UNCHANGED queueVars
  PROVE  TimeInv'
<1> DEFINE n == c.wait
<1>1. /\ Runs(t) /\ at[t] = "out" /\ t = pxCurrentTCB /\ pxCurrentTCB' = pxCurrentTCB
      /\ at' = [at EXCEPT ![t] = "delay"] /\ then' = [then EXCEPT ![t] = "sleep"]
      /\ xTicksToWait' = [xTicksToWait EXCEPT ![t] = n] /\ left' = [left EXCEPT ![t] = n]
      /\ UNCHANGED <<lists, xItemValue, xEntryTimeSet, xTimeOut>> /\ TimeStill /\ n > 0
  BY DEF vTaskDelay, vTaskSuspendAll, Goes, Runs, queueVars, waits, clock, TimeStill
<1>2. /\ at \in [Task -> Places] /\ then \in [Task -> {"none", "sleep", "hold"} \cup InTurn]
      /\ uxPendedTicks = 0
  BY <1>1, Whereabouts, NonePended DEF InSuspension, TimeInv
<1>3. ClockInv /\ WaitAt(t)
  BY DEF TimeInv
<1>4. n \in TickType /\ n \in Int /\ n < NoDeadline
  BY QueueAssumption, TickAssumption DEF CallInv, TickType, NoDeadline
<1> HIDE DEF n
<1>5. TimeTyped /\ \A u \in Task : u # t => Still(u)
  BY <1>1, <1>2, <1>3, <1>4 DEF TimeTyped, ClockInv, Still
<1>6. /\ at'[t] = "delay" /\ then'[t] = "sleep" /\ xTicksToWait'[t] = n /\ left'[t] = n
      /\ ~xEntryTimeSet'[t] /\ uxPendedTicks' = 0
  BY <1>1, <1>2, <1>3 DEF ClockInv, WaitAt, TimeStill
<1>7. WaitAt(t)'
  <2>1. left'[t] <= NoDeadline
    BY <1>4, <1>6, TickAssumption DEF NoDeadline
  <2>2. QED
    BY <1>1, <1>6, <2>1 DEF WaitAt, InWait
<1>8. EarlyAt(t)'
  BY <1>4, <1>6 DEF EarlyAt, Sleeps, Timed
<1>9. QED
  BY <1>1, <1>5, <1>6, <1>7, <1>8, StepTime DEF lists, InSuspension

\* Where the running task's wake time is.
LEMMA AddsWake ==
  ASSUME ClockInv, NEW ticks \in TickType, NEW t \in Task, t = pxCurrentTCB, NEW b,
         ticks > 0, ticks # portMAX_DELAY \/ ~b, prvAddCurrentTaskToDelayedList(ticks, b)
  PROVE  \E wake \in TickType :
           /\ xItemValue' = [xItemValue EXCEPT ![t] = wake] /\ xItemValue'[t] = wake
           /\ \/ /\ wake = xTickCount + ticks - TickModulus /\ t \in pxOverflowDelayedTaskList'
                 /\ pxOverflowDelayedTaskList' = pxOverflowDelayedTaskList \cup {t}
                 /\ pxDelayedTaskList' = pxDelayedTaskList
                 /\ xNextTaskUnblockTime' = xNextTaskUnblockTime
              \/ /\ wake = xTickCount + ticks /\ t \in pxDelayedTaskList'
                 /\ pxDelayedTaskList' = pxDelayedTaskList \cup {t}
                 /\ pxOverflowDelayedTaskList' = pxOverflowDelayedTaskList
                 /\ xNextTaskUnblockTime' =
                        IF wake < xNextTaskUnblockTime THEN wake ELSE xNextTaskUnblockTime
<1> DEFINE wake == TickPlus(xTickCount, ticks)
<1>1. xTickCount \in TickType /\ xItemValue \in [Task -> TickType]
  BY DEF ClockInv
<1>2. wake \in TickType
      /\ wake = IF xTickCount + ticks < TickModulus THEN xTickCount + ticks
                ELSE xTickCount + ticks - TickModulus
  BY <1>1, Plus
<1>3. wake < xTickCount <=> xTickCount + ticks >= TickModulus
  BY <1>1, <1>2, TickAssumption DEF TickType
<1>4. /\ xItemValue' = [xItemValue EXCEPT ![t] = wake]
      /\ IF wake < xTickCount
         THEN /\ pxOverflowDelayedTaskList' = pxOverflowDelayedTaskList \cup {t}
              /\ UNCHANGED <<pxDelayedTaskList, xNextTaskUnblockTime>>
         ELSE /\ pxDelayedTaskList' = pxDelayedTaskList \cup {t}
              /\ xNextTaskUnblockTime' =
                     IF wake < xNextTaskUnblockTime THEN wake ELSE xNextTaskUnblockTime
              /\ UNCHANGED pxOverflowDelayedTaskList
  BY DEF prvAddCurrentTaskToDelayedList
<1>5. xItemValue'[t] = wake
  BY <1>1, <1>4
<1> HIDE DEF wake
<1>6. CASE wake < xTickCount
  <2>1. wake = xTickCount + ticks - TickModulus
    BY <1>1, <1>2, <1>3, <1>6, TickAssumption DEF TickType
  <2>2. QED
    BY <1>2, <1>4, <1>5, <1>6, <2>1
<1>7. CASE ~ (wake < xTickCount)
  <2>1. wake = xTickCount + ticks
    BY <1>1, <1>2, <1>3, <1>7, TickAssumption DEF TickType
  <2>2. QED
    BY <1>2, <1>4, <1>5, <1>7, <2>1
<1>8. QED
  BY <1>6, <1>7

LEMMA AddTime ==
  ASSUME CallInv, ControlInv, ControlInv', TimeInv, NEW t \in Task, DelayAdds(t), UNCHANGED queueVars
  PROVE  TimeInv'
<1> DEFINE ticks == xTicksToWait[t]
<1>1. /\ Runs(t) /\ at[t] = "delay" /\ t = pxCurrentTCB /\ pxCurrentTCB' = pxCurrentTCB
      /\ at' = [at EXCEPT ![t] = "resume"] /\ then' = then
      /\ xTicksToWait' = [xTicksToWait EXCEPT ![t] = 0]
      /\ UNCHANGED <<left, xEntryTimeSet, xTimeOut>> /\ TimeStill
      /\ prvAddCurrentTaskToDelayedList(ticks, FALSE)
  BY DEF DelayAdds, Goes, Runs, queueVars, waits, TimeStill
<1>2. /\ at \in [Task -> Places] /\ then \in [Task -> {"none", "sleep", "hold"} \cup InTurn]
      /\ then[t] = "sleep"
  BY <1>1, Whereabouts, FollowUpsAre
<1>3. ClockInv /\ WaitAt(t) /\ EarlyAt(t) /\ xTickCount \in TickType
      /\ left[t] \in Int /\ uxPendedTicks \in Nat
  BY DEF TimeInv, ClockInv
<1>4. ticks \in TickType /\ ticks > 0 /\ left[t] <= ticks - uxPendedTicks /\ ~xEntryTimeSet[t]
  BY <1>1, <1>3 DEF WaitAt, EarlyAt, ClockInv
<1> HIDE DEF ticks
<1>5. PICK wake \in TickType :
        /\ xItemValue' = [xItemValue EXCEPT ![t] = wake] /\ xItemValue'[t] = wake
        /\ \/ /\ wake = xTickCount + ticks - TickModulus /\ t \in pxOverflowDelayedTaskList'
              /\ pxOverflowDelayedTaskList' = pxOverflowDelayedTaskList \cup {t}
              /\ pxDelayedTaskList' = pxDelayedTaskList
           \/ /\ wake = xTickCount + ticks /\ t \in pxDelayedTaskList'
              /\ pxDelayedTaskList' = pxDelayedTaskList \cup {t}
              /\ pxOverflowDelayedTaskList' = pxOverflowDelayedTaskList
  BY <1>1, <1>3, <1>4, AddsWake
<1>6. 0 \in TickType
  BY TickAssumption DEF TickType
<1>7. TimeTyped /\ \A u \in Task : u # t => Still(u)
  BY <1>1, <1>2, <1>3, <1>5, <1>6 DEF TimeTyped, ClockInv, Still
<1>8. /\ at'[t] = "resume" /\ then'[t] = "sleep" /\ left'[t] = left[t] /\ ~xEntryTimeSet'[t]
  BY <1>1, <1>2, <1>4
<1>9. WaitAt(t)'
  BY <1>3, <1>8 DEF WaitAt, InWait
<1>10. Ahead(t)' = wake - xTickCount - uxPendedTicks
  BY <1>1, <1>5 DEF Ahead, TimeStill
<1>11. left[t] < NoDeadline
  BY <1>3, <1>4, TickAssumption DEF TickType, NoDeadline
<1>12. \/ t \in pxDelayedTaskList' /\ left'[t] <= Ahead(t)'
       \/ t \in pxOverflowDelayedTaskList' /\ left'[t] <= Ahead(t)' + TickModulus
  BY <1>3, <1>4, <1>5, <1>8, <1>10, TickAssumption DEF TickType
<1>13. EarlyAt(t)'
  BY <1>8, <1>11, <1>12 DEF EarlyAt, Timed, NoDeadline
<1>14. QED
  BY <1>1, <1>5, <1>7, <1>8, <1>9, <1>13, StepTime DEF InSuspension

\* A tick is counted: the time left of a task, with the ticks that are pended, is one less.
Counted(u) ==
    /\ left'[u] \in Int /\ left'[u] <= left[u] /\ uxPendedTicks' \in Nat
    /\ left[u] < NoDeadline => left'[u] + uxPendedTicks' = left[u] + uxPendedTicks - 1
    /\ at'[u] = at[u] /\ then'[u] = then[u] /\ xTicksToWait'[u] = xTicksToWait[u]
    /\ xItemValue'[u] = xItemValue[u] /\ xEntryTimeSet'[u] = xEntryTimeSet[u]
    /\ xTimeOut'[u] = xTimeOut[u]

\* The lists after a tick.
LEMMA TickedLists ==
  ASSUME ClockInv, IncrementTick, NEW u \in Task
  PROVE  /\ xTickCount' \in TickType /\ xItemValue[u] \in TickType
         /\ \/ /\ xTickCount' = xTickCount + 1 /\ xTickCount' # 0
               /\ (u \in pxDelayedTaskList => u \in pxDelayedTaskList' \/ xItemValue[u] <= xTickCount')
               /\ (u \in pxOverflowDelayedTaskList => u \in pxOverflowDelayedTaskList')
            \/ /\ xTickCount' = 0 /\ xTickCount = TickModulus - 1
               /\ (u \in pxDelayedTaskList => u \in pxOverflowDelayedTaskList')
               /\ (u \in pxOverflowDelayedTaskList => u \in pxDelayedTaskList' \/ xItemValue[u] <= xTickCount')
<1> DEFINE tick == TickPlus(xTickCount, 1)
<1>1. xTickCount \in TickType /\ xItemValue[u] \in TickType /\ 1 \in TickType
  BY TickAssumption DEF ClockInv, TickType
<1>2. tick \in TickType /\ tick = IF xTickCount = TickModulus - 1 THEN 0 ELSE xTickCount + 1
  BY <1>1, Plus, TickAssumption DEF TickType
<1>3. /\ xTickCount' = tick /\ pxDelayedTaskList' = CurrentDelayed(tick) \ Due(tick)
      /\ pxOverflowDelayedTaskList' =
             IF tick = 0 THEN pxDelayedTaskList ELSE pxOverflowDelayedTaskList
  BY DEF IncrementTick
<1>4. Due(tick) \subseteq {t \in CurrentDelayed(tick) : xItemValue[t] <= tick}
  BY DEF Due
<1> HIDE DEF tick
<1>5. CASE tick = 0
  BY <1>1, <1>2, <1>3, <1>4, <1>5, TickAssumption DEF CurrentDelayed, TickType
<1>6. CASE tick # 0
  BY <1>1, <1>2, <1>3, <1>4, <1>6, TickAssumption DEF CurrentDelayed, TickType
<1>7. QED
  BY <1>5, <1>6

LEMMA TickEarly ==
  ASSUME ClockInv, NEW u \in Task, WaitAt(u), EarlyAt(u), Counted(u), IncrementTick,
         at[u] # "delay"
  PROVE  WaitAt(u)' /\ EarlyAt(u)'
<1>1. /\ xTickCount \in TickType /\ uxPendedTicks \in Nat /\ uxPendedTicks' \in Nat
      /\ left[u] \in Int /\ left'[u] \in Int /\ xTicksToWait[u] \in TickType
      /\ xTimeOut[u].xTimeOnEntering \in TickType
  BY DEF ClockInv, Counted
<1>2. WaitAt(u)'
  BY <1>1, TickAssumption DEF WaitAt, Counted, NoDeadline
<1>3. Sleeps(u)' =>
        /\ left'[u] < NoDeadline
        /\ \/ left'[u] <= 0
           \/ u \in pxDelayedTaskList' /\ left'[u] <= Ahead(u)'
           \/ u \in pxOverflowDelayedTaskList' /\ left'[u] <= Ahead(u)' + TickModulus
  <2> SUFFICES ASSUME Sleeps(u)'
               PROVE  /\ left'[u] < NoDeadline
                      /\ \/ left'[u] <= 0
                         \/ u \in pxDelayedTaskList' /\ left'[u] <= Ahead(u)'
                         \/ u \in pxOverflowDelayedTaskList' /\ left'[u] <= Ahead(u)' + TickModulus
    OBVIOUS
  <2>1. Sleeps(u)
    BY DEF Sleeps, Counted
  <2>2. /\ left[u] < NoDeadline
        /\ \/ left[u] <= 0
           \/ u \in pxDelayedTaskList /\ left[u] <= Ahead(u)
           \/ u \in pxOverflowDelayedTaskList /\ left[u] <= Ahead(u) + TickModulus
    BY <2>1 DEF EarlyAt
  <2>3. left'[u] + uxPendedTicks' = left[u] + uxPendedTicks - 1 /\ left'[u] <= left[u]
    BY <2>2 DEF Counted
  <2>4. Ahead(u)' = xItemValue[u] - xTickCount' - uxPendedTicks'
    BY DEF Ahead, Counted
  <2>5. left'[u] < NoDeadline
    BY <1>1, <2>2, <2>3, TickAssumption DEF NoDeadline
  <2>6. CASE left[u] <= 0
    BY <1>1, <2>3, <2>5, <2>6
  <2>7. CASE u \in pxDelayedTaskList /\ left[u] <= Ahead(u)
    <3>1. xItemValue[u] \in TickType /\ xTickCount' \in TickType
      BY TickedLists
    <3>2. left[u] <= xItemValue[u] - xTickCount - uxPendedTicks
      BY <2>7 DEF Ahead
    <3>3. left'[u] <= xItemValue[u] - xTickCount - 1 - uxPendedTicks'
      BY <1>1, <2>3, <3>1, <3>2 DEF TickType
    <3>4. CASE xTickCount' = xTickCount + 1
               /\ (u \in pxDelayedTaskList' \/ xItemValue[u] <= xTickCount')
      <4>1. left'[u] <= Ahead(u)'
        BY <1>1, <2>4, <3>1, <3>3, <3>4 DEF TickType
      <4>2. xItemValue[u] <= xTickCount' => left'[u] <= 0
        BY <1>1, <2>4, <3>1, <4>1 DEF TickType
      <4>3. QED
        BY <2>5, <3>4, <4>1, <4>2
    <3>5. CASE /\ xTickCount' = 0 /\ xTickCount = TickModulus - 1
               /\ u \in pxOverflowDelayedTaskList'
      <4>1. left'[u] <= Ahead(u)' + TickModulus
        BY <1>1, <2>4, <3>1, <3>3, <3>5, TickAssumption DEF TickType
      <4>2. QED
        BY <2>5, <3>5, <4>1
    <3>6. QED
      BY <2>7, <3>4, <3>5, TickedLists
  <2>8. CASE u \in pxOverflowDelayedTaskList /\ left[u] <= Ahead(u) + TickModulus
    <3>1. xItemValue[u] \in TickType /\ xTickCount' \in TickType
      BY TickedLists
    <3>2. left[u] <= xItemValue[u] - xTickCount - uxPendedTicks + TickModulus
      BY <2>8 DEF Ahead
    <3>3. left'[u] <= xItemValue[u] - xTickCount - 1 - uxPendedTicks' + TickModulus
      BY <1>1, <2>3, <3>1, <3>2, TickAssumption DEF TickType
    <3>4. CASE /\ xTickCount' = 0 /\ xTickCount = TickModulus - 1
               /\ (u \in pxDelayedTaskList' \/ xItemValue[u] <= xTickCount')
      <4>1. left'[u] <= Ahead(u)'
        BY <1>1, <2>4, <3>1, <3>3, <3>4, TickAssumption DEF TickType
      <4>2. xItemValue[u] <= xTickCount' => left'[u] <= 0
        BY <1>1, <2>4, <3>1, <4>1 DEF TickType
      <4>3. QED
        BY <2>5, <3>4, <4>1, <4>2
    <3>5. CASE xTickCount' = xTickCount + 1 /\ u \in pxOverflowDelayedTaskList'
      <4>1. left'[u] <= Ahead(u)' + TickModulus
        BY <1>1, <2>4, <3>1, <3>3, <3>5, TickAssumption DEF TickType
      <4>2. QED
        BY <2>5, <3>5, <4>1
    <3>6. QED
      BY <2>8, <3>4, <3>5, TickedLists
  <2>9. QED
    BY <2>2, <2>6, <2>7, <2>8
<1>4. ASSUME Timed(u)'
      PROVE  left'[u] <= Remaining(u)' - (IF Wrapped(xTimeOut[u])' THEN TickModulus ELSE 0)
  <2> DEFINE e == xTimeOut[u].xTimeOnEntering
             E == TickMinus(xTickCount, e)
             F == TickMinus(xTickCount', e)
             n == xTicksToWait[u]
  <2>1. Timed(u)
    BY <1>4 DEF Timed, Counted
  <2>2. left[u] <= n - E - uxPendedTicks - (IF Wrapped(xTimeOut[u]) THEN TickModulus ELSE 0)
    BY <2>1 DEF EarlyAt, Remaining, Elapsed
  <2>3. /\ Remaining(u)' = n - F - uxPendedTicks'
        /\ (Wrapped(xTimeOut[u])' <=> /\ xNumOfOverflows' # xTimeOut[u].xOverflowCount
                                      /\ xTickCount' >= e)
        /\ (Wrapped(xTimeOut[u]) <=> /\ xNumOfOverflows # xTimeOut[u].xOverflowCount
                                     /\ xTickCount >= e)
    BY DEF Remaining, Elapsed, Wrapped, Counted
  <2>4. xTickCount' = TickPlus(xTickCount, 1) /\ (xTickCount' # 0 => xNumOfOverflows' = xNumOfOverflows)
    BY DEF IncrementTick
  <2>5. e \in TickType /\ n \in TickType
    BY <1>1
  <2> HIDE DEF e, n
  <2>6. /\ E \in TickType /\ F \in TickType
    <3>1. xTickCount' \in TickType
      BY <1>1, <2>4, <2>5, TickElapses
    <3>2. QED
      BY <1>1, <2>5, <3>1, Minus
  <2>7. /\ E = TickModulus - 1 => F = 0
        /\ E # TickModulus - 1 => F = E + 1 /\ (xTickCount' >= e => xTickCount >= e /\ xTickCount' # 0)
    BY <1>1, <2>4, <2>5, TickElapses
  <2> HIDE DEF E, F
  <2>8. left[u] <= n - E - uxPendedTicks /\ left[u] < NoDeadline
    BY <1>1, <2>2, <2>5, <2>6, TickAssumption DEF TickType, NoDeadline
  <2>9. left'[u] = left[u] + uxPendedTicks - uxPendedTicks' - 1
    BY <1>1, <2>8, TickAssumption DEF Counted
  <2>10. CASE E = TickModulus - 1
    <3>1. left'[u] <= n - F - uxPendedTicks' - TickModulus
      BY <1>1, <2>5, <2>7, <2>8, <2>9, <2>10, TickAssumption DEF TickType
    <3>2. QED
      BY <1>1, <2>3, <2>5, <2>6, <3>1, TickAssumption DEF TickType
  <2>11. CASE E # TickModulus - 1
    <3>1. Wrapped(xTimeOut[u])' => Wrapped(xTimeOut[u])
      BY <2>3, <2>4, <2>7, <2>11
    <3>2. CASE Wrapped(xTimeOut[u])
      <4>1. left[u] <= n - E - uxPendedTicks - TickModulus
        BY <2>2, <3>2
      <4>2. left'[u] <= n - F - uxPendedTicks' - TickModulus
        BY <1>1, <2>5, <2>6, <2>7, <2>9, <2>11, <4>1, TickAssumption DEF TickType
      <4>3. QED
        BY <1>1, <2>3, <2>5, <2>6, <4>2, TickAssumption DEF TickType
    <3>3. CASE ~Wrapped(xTimeOut[u])
      <4>1. left'[u] <= n - F - uxPendedTicks' - 0
        BY <1>1, <2>5, <2>6, <2>7, <2>8, <2>9, <2>11, TickAssumption DEF TickType
      <4>2. QED
        BY <2>3, <3>1, <3>3, <4>1
    <3>4. QED
      BY <3>2, <3>3
  <2>12. QED
    BY <2>10, <2>11
<1>5. at'[u] # "delay"
  BY DEF Counted
<1>6. then'[u] = "expire" \/ at'[u] = "expired" => left'[u] <= 0
  BY <1>1 DEF EarlyAt, Counted
<1>7. EarlyAt(u)'
  BY <1>3, <1>4, <1>5, <1>6 DEF EarlyAt
<1>8. QED
  BY <1>2, <1>7

LEMMA TickTime ==
  ASSUME ControlInv, ControlInv', TimeInv, UNCHANGED queueVars, SysTick \/ \E t \in Task : ResumeTick(t)
  PROVE  TimeInv'
<1>1. /\ IncrementTick /\ uxSchedulerSuspended = 0
      /\ UNCHANGED <<pxCurrentTCB, uxSchedulerSuspended, at, then, xTicksToWait, xItemValue,
                     xEntryTimeSet, xTimeOut>>
  <2>1. CASE SysTick
    BY <2>1 DEF SysTick, queueVars, waits
  <2>2. CASE \E t \in Task : ResumeTick(t)
    BY <2>2, Whereabouts DEF ResumeTick, control, queueVars, waits, InSuspension
  <2>3. QED
    BY <2>1, <2>2
<1>2. ClockInv /\ uxPendedTicks \in Nat /\ left \in [Task -> Int] /\ xTickCount \in TickType
  BY DEF TimeInv, ClockInv
<1>3. \/ /\ ~Critical /\ uxPendedTicks' = uxPendedTicks /\ left' = OneTickLess
      \/ /\ Critical /\ uxPendedTicks > 0 /\ uxPendedTicks' = uxPendedTicks - 1 /\ left' = left
  <2>1. CASE SysTick
    BY <2>1 DEF SysTick
  <2>2. CASE \E t \in Task : ResumeTick(t)
    BY <2>2 DEF ResumeTick, control, Critical, Runs
  <2>3. QED
    BY <1>1, <2>1, <2>2
<1>4. \A u \in Task : at[u] # "delay"
  BY <1>1 DEF ControlInv, RunInv, InSuspension
<1>5. uxPendedTicks' \in Nat
  BY <1>2, <1>3
<1>6. ASSUME NEW u \in Task
      PROVE  /\ left'[u] \in Int /\ left'[u] <= left[u]
             /\ left[u] < NoDeadline => left'[u] + uxPendedTicks' = left[u] + uxPendedTicks - 1
  BY <1>2, <1>3, TickAssumption DEF OneTickLess, NoDeadline
<1>7. ASSUME NEW u \in Task
      PROVE  WaitAt(u)' /\ EarlyAt(u)'
  <2>1. Counted(u)
    BY <1>1, <1>5, <1>6 DEF Counted
  <2>2. WaitAt(u) /\ EarlyAt(u)
    BY DEF TimeInv
  <2>3. QED
    BY <1>1, <1>2, <1>4, <2>1, <2>2, TickEarly
<1>8. ClockInv'
  <2>1. xTickCount' \in TickType
    BY <1>1, <1>2, TickElapses DEF IncrementTick
  <2>2. left' \in [Task -> Int]
    BY <1>2, <1>3, TickAssumption DEF OneTickLess, NoDeadline
  <2>3. (uxSchedulerSuspended = 0 /\ ~Critical => uxPendedTicks = 0)'
    BY <1>1, <1>2, <1>3 DEF Critical, ClockInv
  <2>4. QED
    BY <1>1, <1>2, <1>5, <2>1, <2>2, <2>3 DEF ClockInv
<1>9. QED
  BY <1>7, <1>8 DEF TimeInv

LEMMA PendTime ==
  ASSUME ControlInv, ControlInv', TimeInv, UNCHANGED queueVars, SysTickPended
  PROVE  TimeInv'
<1>1. /\ ~Critical /\ uxPendedTicks' = uxPendedTicks + 1 /\ left' = OneTickLess
      /\ uxSchedulerSuspended # 0
      /\ UNCHANGED <<pxCurrentTCB, uxSchedulerSuspended, at, then, xTicksToWait, xItemValue,
                     xEntryTimeSet, xTimeOut, xTickCount, xNumOfOverflows, lists>>
  BY DEF SysTickPended, queueVars, waits, clock
<1>2. ClockInv /\ uxPendedTicks \in Nat /\ left \in [Task -> Int] /\ xTickCount \in TickType
  BY DEF TimeInv, ClockInv
<1>3. ASSUME NEW u \in Task
      PROVE  /\ left[u] \in Int /\ left'[u] \in Int /\ left'[u] <= left[u]
             /\ left[u] < NoDeadline => left'[u] = left[u] - 1
  BY <1>1, <1>2, TickAssumption DEF OneTickLess, NoDeadline
<1>4. ClockInv'
  <2>1. left' \in [Task -> Int]
    BY <1>1, <1>2, TickAssumption DEF OneTickLess, NoDeadline
  <2>2. QED
    BY <1>1, <1>2, <2>1 DEF ClockInv, Critical
<1>5. ASSUME NEW u \in Task
      PROVE  WaitAt(u)' /\ EarlyAt(u)'
  <2> DEFINE n == xTicksToWait[u]
  <2>1. WaitAt(u) /\ EarlyAt(u) /\ n \in TickType /\ xItemValue[u] \in TickType
        /\ xTimeOut[u].xTimeOnEntering \in TickType /\ left[u] \in Int /\ left'[u] \in Int
    BY <1>2, <1>3 DEF TimeInv, ClockInv
  <2> HIDE DEF n
  <2>2. WaitAt(u)'
    BY <1>1, <1>3, <2>1, TickAssumption DEF WaitAt, NoDeadline
  <2>3. at'[u] = "delay" => left'[u] <= xTicksToWait'[u] - uxPendedTicks'
    <3> SUFFICES ASSUME at[u] = "delay" PROVE left'[u] <= xTicksToWait'[u] - uxPendedTicks'
      BY <1>1
    <3>1. left[u] <= n - uxPendedTicks
      BY <2>1 DEF EarlyAt, n
    <3>2. left'[u] = left[u] - 1
      BY <1>2, <1>3, <2>1, <3>1, TickAssumption DEF TickType, NoDeadline
    <3>3. left'[u] <= n - uxPendedTicks'
      BY <1>1, <1>2, <2>1, <3>1, <3>2 DEF TickType
    <3>4. QED
      BY <1>1, <3>3 DEF n
  <2>4. Ahead(u)' = Ahead(u) - 1 /\ Ahead(u) \in Int
    BY <1>1, <1>2, <2>1 DEF Ahead, TickType
  <2>5. (Sleeps(u)' <=> Sleeps(u))
    BY <1>1 DEF Sleeps
  <2>6. Sleeps(u)' =>
          /\ left'[u] < NoDeadline
          /\ \/ left'[u] <= 0
             \/ u \in pxDelayedTaskList' /\ left'[u] <= Ahead(u)'
             \/ u \in pxOverflowDelayedTaskList' /\ left'[u] <= Ahead(u)' + TickModulus
    <3> SUFFICES ASSUME Sleeps(u)
                 PROVE  /\ left'[u] < NoDeadline
                        /\ \/ left'[u] <= 0
                           \/ u \in pxDelayedTaskList' /\ left'[u] <= Ahead(u)'
                           \/ u \in pxOverflowDelayedTaskList' /\ left'[u] <= Ahead(u)' + TickModulus
      BY <2>5
    <3>1. /\ left[u] < NoDeadline
          /\ \/ left[u] <= 0
             \/ u \in pxDelayedTaskList /\ left[u] <= Ahead(u)
             \/ u \in pxOverflowDelayedTaskList /\ left[u] <= Ahead(u) + TickModulus
      BY <2>1 DEF EarlyAt
    <3>2. left'[u] = left[u] - 1
      BY <1>3, <3>1
    <3>3. QED
      BY <1>1, <2>1, <2>4, <3>1, <3>2, TickAssumption DEF lists, NoDeadline
  <2>7. Timed(u)' => left'[u] <= Remaining(u)' - (IF Wrapped(xTimeOut[u])' THEN TickModulus ELSE 0)
    <3> DEFINE w == IF Wrapped(xTimeOut[u]) THEN TickModulus ELSE 0
               E == Elapsed(xTimeOut[u])
    <3> SUFFICES ASSUME Timed(u)'
                 PROVE  left'[u] <= Remaining(u)' - (IF Wrapped(xTimeOut[u])' THEN TickModulus ELSE 0)
      OBVIOUS
    <3>1. Timed(u)
      BY <1>1 DEF Timed
    <3>2. left[u] <= n - E - uxPendedTicks - w
      BY <2>1, <3>1 DEF EarlyAt, Remaining, n
    <3>3. E \in TickType /\ w \in Nat
      BY <1>2, <2>1, Minus, TickAssumption DEF Elapsed
    <3>4. Remaining(u)' = n - E - uxPendedTicks' /\ Wrapped(xTimeOut[u])' = Wrapped(xTimeOut[u])
      BY <1>1 DEF Remaining, Elapsed, Wrapped, n
    <3>5. w = IF Wrapped(xTimeOut[u])' THEN TickModulus ELSE 0
      BY <3>4
    <3> HIDE DEF w, E
    <3>6. left'[u] = left[u] - 1
      BY <1>2, <1>3, <2>1, <3>2, <3>3, TickAssumption DEF TickType, NoDeadline
    <3>7. left'[u] <= n - E - uxPendedTicks' - w
      BY <1>1, <1>2, <2>1, <3>2, <3>3, <3>6 DEF TickType
    <3>8. QED
      BY <3>4, <3>5, <3>7
  <2>8. then'[u] = "expire" \/ at'[u] = "expired" => left'[u] <= 0
    BY <1>1, <1>3, <2>1 DEF EarlyAt
  <2>9. EarlyAt(u)'
    BY <2>3, <2>6, <2>7, <2>8 DEF EarlyAt
  <2>10. QED
    BY <2>2, <2>9
<1>6. QED
  BY <1>4, <1>5 DEF TimeInv

LEMMA InterruptTime ==
  ASSUME CallInv, ControlInv, ControlInv', TimeInv,
         (vTaskSwitchContext /\ UNCHANGED queueVars) \/ \E q \in use.isr : xQueueGiveFromISR(q)
  PROVE  TimeInv'
<1>1. /\ ~Critical /\ UNCHANGED <<at, then, uxSchedulerSuspended>> /\ Untimed
  BY DEF vTaskSwitchContext, xQueueGiveFromISR, control, clock, queueVars, waits, Untimed, TimeStill
<1>2. Wakes
  BY SwitchControl, GiveControl
<1>3. \A u \in Task : Still(u)
  BY <1>1 DEF Still, Untimed
<1>4. \A u \in Task : WaitAt(u)' /\ EarlyAt(u)'
  BY <1>1, <1>2, <1>3, StillTime DEF TimeInv, Untimed, Wakes
<1>5. ClockInv'
  <2>1. uxSchedulerSuspended = 0 => uxPendedTicks = 0
    BY <1>1 DEF TimeInv, ClockInv
  <2>2. QED
    BY <1>1, <2>1 DEF TimeInv, ClockInv, Untimed, TimeStill
<1>6. QED
  BY <1>4, <1>5 DEF TimeInv

LEMMA InitTime == QueuesInit => TimeInv
<1> SUFFICES ASSUME QueuesInit PROVE TimeInv
  OBVIOUS
<1>1. PICK S : SchedulerInit(S)
  BY DEF QueuesInit
<1>2. 0 \in TickType /\ NoDeadline \in Int /\ NoTimeOut.xTimeOnEntering \in TickType
  BY TickAssumption DEF TickType, NoDeadline, NoTimeOut
<1>3. ClockInv
  BY <1>1, <1>2 DEF SchedulerInit, QueuesInit, ClockInv
<1>4. ASSUME NEW u \in Task
      PROVE  WaitAt(u) /\ EarlyAt(u)
  <2>1. at[u] = "out" /\ then[u] = "none" /\ left[u] = NoDeadline /\ ~xEntryTimeSet[u]
    BY <1>1 DEF SchedulerInit, QueuesInit
  <2>2. QED
    BY <1>2, <2>1 DEF WaitAt, EarlyAt, Sleeps, Timed, InWait
<1>5. QED
  BY <1>3, <1>4 DEF TimeInv

LEMMA NextTime ==
  ASSUME CallInv, ControlInv, ControlInv', TimeInv, [KernelNext]_allVars
  PROVE  TimeInv'
<1>1. CASE UNCHANGED allVars
  <2>1. Untimed /\ UNCHANGED <<lists, at, then, uxSchedulerSuspended, pxCurrentTCB>>
    BY <1>1 DEF allVars, schedulerVars, queueVars, control, waits, clock, Untimed, TimeStill
  <2>2. \A u \in Task : WaitAt(u)' /\ EarlyAt(u)'
    BY <2>1, StillTime DEF TimeInv, Untimed, Still, lists
  <2>3. ClockInv'
    BY <2>1 DEF TimeInv, ClockInv, Untimed, TimeStill, Critical
  <2>4. QED
    BY <2>2, <2>3 DEF TimeInv
<1>2. CASE UNCHANGED queueVars /\ (SysTick \/ SysTickPended \/ vTaskSwitchContext)
  BY <1>2, TickTime, PendTime, InterruptTime
<1>3. CASE \E q \in use.isr : xQueueGiveFromISR(q)
  BY <1>3, InterruptTime
<1>4. ASSUME NEW t \in Task, UNCHANGED queueVars,
             \/ xTaskResumeAll(t) \/ ResumeEnds(t) \/ portYIELD_WITHIN_API(t)
             \/ HeapSuspends(t) \/ vTaskYield(t)
      PROVE  TimeInv'
  BY <1>4, LeaveSteps
<1>5. ASSUME NEW t \in Task, UNCHANGED queueVars,
             \/ ResumeTick(t) \/ DelayAdds(t) \/ DelayEnds(t)
             \/ \E c \in use.calls[t] : vTaskDelay(t, c.wait)
      PROVE  TimeInv'
  BY <1>5, TickTime, AddTime, ReturnSteps, DelayTime
<1>6. ASSUME NEW t \in Task, \E c \in use.calls[t] : c.queue \in Queue /\ Begin(t, c)
      PROVE  TimeInv'
  BY <1>6, BeginTime
<1>7. ASSUME NEW t \in Task,
             \/ SendProceeds(t) \/ GiveProceeds(t) \/ MutexGiveProceeds(t) \/ ReceiveProceeds(t)
             \/ TakeProceeds(t) \/ GivesUp(t) \/ Expired(t) \/ DisinheritAfterTimeout(t)
      PROVE  TimeInv'
  BY <1>7, ReturnSteps
<1>8. ASSUME NEW t \in Task,
             \/ EntersWait(t) \/ Suspends(t) \/ prvLockQueue(t) \/ CheckForTimeOut(t) \/ Looks(t)
             \/ xTaskPriorityInherit(t) \/ ExpiredLooks(t)
      PROVE  TimeInv'
  BY <1>8, WaitSteps, EnterTime, CheckTime
<1>9. ASSUME NEW t \in Task, Place(t) \/ prvUnlockQueue(t) \/ prvUnlockQueueRx(t)
      PROVE  TimeInv'
  BY <1>9, PlaceTime, LeaveSteps
<1>10. QED
  BY <1>1, <1>2, <1>3, <1>4, <1>5, <1>6, <1>7, <1>8, <1>9, KernelSteps

\* Where each task is, on which lists, and that nobody is ahead of its time (tasks.c, queue.c).
THEOREM KernelInvariant == KernelSpec => [](CallInv /\ ControlInv /\ TimeInv)
<1>1. QueuesInit => CallInv /\ ControlInv /\ TimeInv
  BY InitCall, InitControl, InitTime
<1>2. CallInv /\ ControlInv /\ TimeInv /\ [KernelNext]_allVars => (CallInv /\ ControlInv /\ TimeInv)'
  BY NextCall, NextControl, NextTime
<1>3. QED
  BY <1>1, <1>2, PTL DEF KernelSpec

\* vTaskDelay does not return, and no call gives up waiting, before the ticks that were asked
\* for have passed: whatever is pended, woken or switched meanwhile, and when the tick count
\* overflows.
THEOREM KernelNotEarly == KernelSpec => []NotEarly
<1>1. ASSUME TimeInv PROVE NotEarly
  <2>1. ASSUME NEW t \in Task, at[t] = "slept", t \in Ready
        PROVE  left[t] <= 0
    BY <1>1, <2>1 DEF TimeInv, EarlyAt, Sleeps, Ready, Blocked
  <2>2. ASSUME NEW t \in Task, at[t] = "expired"
        PROVE  left[t] <= 0
    BY <1>1, <2>2 DEF TimeInv, EarlyAt
  <2>3. QED
    BY <2>1, <2>2 DEF NotEarly
<1>2. QED
  BY <1>1, KernelInvariant, PTL

(***************************************************************************)
(* Time: no task is behind.                                                *)
(***************************************************************************)

\* The time of the next wake-up is not after that of a task, not of S, in the delayed list.
Unblocks(S) ==
    /\ xNextTaskUnblockTime' \in TickType
    /\ \A u \in Task : u \notin S /\ u \in pxDelayedTaskList' => xNextTaskUnblockTime' <= xItemValue[u]

\* Only task t enters a delayed list.
Enters(t) ==
    /\ pxDelayedTaskList' \subseteq pxDelayedTaskList \cup {t}
    /\ pxOverflowDelayedTaskList' \subseteq pxOverflowDelayedTaskList \cup {t}

LEMMA SameUnblocks ==
  ASSUME LateInv, xNextTaskUnblockTime' = xNextTaskUnblockTime, NEW S,
         \A u \in pxDelayedTaskList' : u \notin S => u \in pxDelayedTaskList
  PROVE  Unblocks(S)
BY DEF LateInv, LateAt, Unblocks

LEMMA OthersLate ==
  ASSUME LateInv, TimeStill, NEW t, \A u \in Task : u # t => Still(u), Enters(t), Unblocks({t})
  PROVE  \A u \in Task : u # t => LateAt(u)'
<1> SUFFICES ASSUME NEW u \in Task, u # t PROVE LateAt(u)'
  OBVIOUS
<1>1. LateAt(u) /\ Still(u)
  BY DEF LateInv
<1>2. Ahead(u)' = Ahead(u)
  BY <1>1 DEF Ahead, Still, TimeStill
<1>3. (Timed(u)' <=> Timed(u)) /\ Remaining(u)' = Remaining(u)
  BY <1>1 DEF Timed, Remaining, Elapsed, Still, TimeStill
<1>4. /\ u \in pxDelayedTaskList' => u \in pxDelayedTaskList /\ xNextTaskUnblockTime' <= xItemValue[u]
      /\ u \in pxOverflowDelayedTaskList' => u \in pxOverflowDelayedTaskList
  BY DEF Enters, Unblocks
<1>5. u \in pxDelayedTaskList' => /\ xTickCount' < xItemValue'[u]
                                  /\ xNextTaskUnblockTime' <= xItemValue'[u]
                                  /\ left'[u] >= Ahead(u)'
  BY <1>1, <1>2, <1>4 DEF LateAt, Still, TimeStill
<1>6. u \in pxOverflowDelayedTaskList' => left'[u] >= Ahead(u)' + TickModulus
  BY <1>1, <1>2, <1>4 DEF LateAt, Still
<1>7. left'[u] >= -MaxLate /\ (Timed(u)' => left'[u] >= Remaining(u)')
  BY <1>1, <1>3 DEF LateAt, Still
<1>8. at'[u] = "delay" \/ (at'[u] \in {"test", "inherit", "place"} /\ Timed(u)') =>
          left'[u] >= xTicksToWait'[u] - uxPendedTicks'
  BY <1>1, <1>3 DEF LateAt, Still, TimeStill
<1>9. at'[u] # "delay" /\ xTicksToWait'[u] \notin {0, portMAX_DELAY} =>
          xTicksToWait'[u] + MaxLate < TickModulus
  BY <1>1 DEF LateAt, Still
<1>10. QED
  BY <1>5, <1>6, <1>7, <1>8, <1>9 DEF LateAt

\* A step of task t.
LEMMA StepLate ==
  ASSUME LateInv, TimeStill, NEW t \in Task, \A u \in Task : u # t => Still(u), Enters(t),
         Unblocks({t}), LateAt(t)'
  PROVE  LateInv'
<1>1. \A u \in Task : u # t => LateAt(u)'
  BY OthersLate
<1>2. QED
  BY <1>1 DEF LateInv, Unblocks

\* A step of task t that leaves all times alone.
LEMMA PassLate ==
  ASSUME LateInv, NEW t \in Task, Untimed, Wakes, Others(t), Unblocks({}),
         at[t] # "delay", at'[t] # "delay",
         at'[t] \in {"test", "inherit", "place"} => at[t] \in {"test", "inherit", "place"} \/ ~Timed(t)
  PROVE  LateInv'
<1>1. \A u \in Task : u # t => Still(u)
  BY DEF Untimed, Others, Still
<1>2. Enters(t) /\ TimeStill /\ Unblocks({t})
  BY DEF Wakes, Enters, Untimed, Unblocks
<1>3. LateAt(t)
  BY DEF LateInv
<1>4. Ahead(t)' = Ahead(t)
  BY DEF Ahead, Untimed, TimeStill
<1>5. (Timed(t)' <=> Timed(t)) /\ Remaining(t)' = Remaining(t)
  BY DEF Timed, Remaining, Elapsed, Untimed, TimeStill
<1>6. t \in pxDelayedTaskList' => t \in pxDelayedTaskList /\ xNextTaskUnblockTime' <= xItemValue[t]
  BY DEF Wakes, Unblocks
<1>7. LateAt(t)'
  BY <1>3, <1>4, <1>5, <1>6 DEF LateAt, Untimed, TimeStill, Wakes
<1>8. QED
  BY <1>1, <1>2, <1>7, StepLate

\* The steps that read no time.
LEMMA PassSteps ==
  ASSUME CallInv, ControlInv, TimeInv, LateInv, NEW t \in Task,
         \/ Suspends(t) \/ prvLockQueue(t) \/ Looks(t) \/ xTaskPriorityInherit(t) \/ ExpiredLooks(t)
         \/ CheckForTimeOut(t) /\ xTicksToWait[t] = portMAX_DELAY
         \/ prvUnlockQueue(t) \/ prvUnlockQueueRx(t)
         \/ /\ UNCHANGED queueVars
            /\ \/ xTaskResumeAll(t) \/ ResumeEnds(t) \/ portYIELD_WITHIN_API(t) \/ HeapSuspends(t)
               \/ vTaskYield(t)
  PROVE  LateInv'
<1>1. Runs(t) /\ at[t] # "delay"
  BY DEF Suspends, prvLockQueue, Looks, xTaskPriorityInherit, ExpiredLooks, CheckForTimeOut,
         prvUnlockQueue, prvUnlockQueueRx, xTaskResumeAll, ResumeEnds, portYIELD_WITHIN_API,
         HeapSuspends, vTaskYield
<1>2. Untimed /\ UNCHANGED call
  <2>1. CASE Suspends(t) \/ prvLockQueue(t) \/ Looks(t) \/ xTaskPriorityInherit(t) \/ ExpiredLooks(t)
    BY <2>1 DEF Suspends, prvLockQueue, Looks, xTaskPriorityInherit, ExpiredLooks, StepUnchanged,
           vTaskSuspendAll, Untimed, TimeStill, clock, queueVars, waits
  <2>2. CASE CheckForTimeOut(t) /\ xTicksToWait[t] = portMAX_DELAY
    BY <2>2 DEF CheckForTimeOut, StepUnchanged, Untimed, TimeStill
  <2>3. CASE prvUnlockQueue(t) \/ prvUnlockQueueRx(t)
    BY <2>3 DEF prvUnlockQueue, prvUnlockQueueRx, StepUnchanged, Untimed, TimeStill
  <2>4. CASE /\ UNCHANGED queueVars
             /\ \/ xTaskResumeAll(t) \/ ResumeEnds(t) \/ portYIELD_WITHIN_API(t) \/ HeapSuspends(t)
                \/ vTaskYield(t)
    BY <2>4 DEF xTaskResumeAll, ResumeEnds, portYIELD_WITHIN_API, HeapSuspends, vTaskYield,
           vTaskSuspendAll, Untimed, TimeStill, clock, control, queueVars, waits
  <2>5. QED
    BY <2>1, <2>2, <2>3, <2>4
<1>3. Wakes
  <2>1. CASE Suspends(t) \/ prvLockQueue(t) \/ Looks(t) \/ xTaskPriorityInherit(t) \/ ExpiredLooks(t)
             \/ CheckForTimeOut(t)
    BY <2>1, WaitControl, LookControl
  <2>2. CASE prvUnlockQueue(t) \/ prvUnlockQueueRx(t)
    BY <2>2, UnlockControl
  <2>3. CASE UNCHANGED queueVars /\ (xTaskResumeAll(t) \/ ResumeEnds(t) \/ portYIELD_WITHIN_API(t))
    BY <2>3, ResumeControl, EndControl
  <2>4. CASE UNCHANGED queueVars /\ (HeapSuspends(t) \/ vTaskYield(t))
    BY <2>4, SuspendControl, StayControl
  <2>5. QED
    BY <2>1, <2>2, <2>3, <2>4
<1>4. Unblocks({})
  <2>1. CASE xNextTaskUnblockTime' = xNextTaskUnblockTime
    BY <1>3, <2>1, SameUnblocks DEF Wakes
  <2>2. CASE xTaskResumeAll(t) /\ xNextTaskUnblockTime' # xNextTaskUnblockTime
    <3>1. /\ xNextTaskUnblockTime' = UnblockTime(pxDelayedTaskList \ xPendingReadyList)
          /\ pxDelayedTaskList' = pxDelayedTaskList \ xPendingReadyList
      BY <2>2 DEF xTaskResumeAll, MakeReady
    <3>2. pxDelayedTaskList' \in SUBSET Task
      BY <3>1 DEF ControlInv, ListInv, Blocked
    <3>3. QED
      BY <3>1, <3>2, FirstWake DEF Unblocks, TimeInv
  <2>3. xNextTaskUnblockTime' = xNextTaskUnblockTime \/ xTaskResumeAll(t)
    BY DEF Suspends, prvLockQueue, Looks, xTaskPriorityInherit, ExpiredLooks, CheckForTimeOut,
         prvUnlockQueue, prvUnlockQueueRx, ResumeEnds, portYIELD_WITHIN_API,
         HeapSuspends, vTaskYield, vTaskSuspendAll, clock
  <2>4. QED
    BY <2>1, <2>2, <2>3
<1>5. /\ at \in [Task -> Places] /\ then \in [Task -> {"none", "sleep", "hold"} \cup InTurn]
      /\ then[t] \in FollowUps(at[t])
  BY <1>1, Whereabouts
<1>6. then' = then \/ \E b : then' = [then EXCEPT ![t] = b]
  BY DEF Suspends, prvLockQueue, Looks, xTaskPriorityInherit, ExpiredLooks, CheckForTimeOut,
         prvUnlockQueue, prvUnlockQueueRx, xTaskResumeAll, ResumeEnds, portYIELD_WITHIN_API,
         HeapSuspends, vTaskYield, vTaskSuspendAll, control
<1>7. CASE \E a : Goes(t, a) /\ a # "delay"
                  /\ (a \in {"test", "inherit", "place"} =>
                          at[t] \in {"test", "inherit", "place"} \/ xTicksToWait[t] = portMAX_DELAY)
  <2>1. PICK a : Goes(t, a) /\ a # "delay"
                 /\ (a \in {"test", "inherit", "place"} =>
                         at[t] \in {"test", "inherit", "place"} \/ xTicksToWait[t] = portMAX_DELAY)
    BY <1>7
  <2>2. at'[t] = a /\ Others(t)
    BY <1>2, <1>5, <1>6, <2>1 DEF Goes, Others
  <2>3. QED
    BY <1>1, <1>2, <1>3, <1>4, <2>1, <2>2, PassLate DEF Timed
<1>8. CASE vTaskYield(t)
  <2>1. at' = at /\ then' = then /\ at[t] = "out"
    BY <1>8 DEF vTaskYield, control
  <2>2. Others(t) /\ at'[t] # "delay" /\ at'[t] \notin {"test", "inherit", "place"}
    BY <1>2, <2>1 DEF Others
  <2>3. QED
    BY <1>1, <1>2, <1>3, <1>4, <2>2, PassLate
<1>9. CASE Suspends(t)
  BY <1>7, <1>9 DEF Suspends, vTaskSuspendAll
<1>10. CASE prvLockQueue(t)
  BY <1>7, <1>10 DEF prvLockQueue
<1>11. CASE Looks(t)
  <2>1. (Goes(t, "inherit") \/ Goes(t, "place") \/ Goes(t, "unlock")) /\ at[t] = "test"
    BY <1>11 DEF Looks
  <2>2. QED
    BY <1>7, <2>1
<1>12. CASE xTaskPriorityInherit(t)
  BY <1>7, <1>12 DEF xTaskPriorityInherit
<1>13. CASE ExpiredLooks(t)
  <2>1. Goes(t, "disinherit") \/ Goes(t, "enter")
    BY <1>13 DEF ExpiredLooks
  <2>2. QED
    BY <1>7, <2>1
<1>14. CASE CheckForTimeOut(t) /\ xTicksToWait[t] = portMAX_DELAY
  BY <1>7, <1>14 DEF CheckForTimeOut
<1>15. CASE prvUnlockQueue(t) \/ prvUnlockQueueRx(t)
  BY <1>7, <1>15 DEF prvUnlockQueue, prvUnlockQueueRx
<1>16. CASE xTaskResumeAll(t) \/ HeapSuspends(t)
  BY <1>7, <1>16 DEF xTaskResumeAll, HeapSuspends, vTaskSuspendAll
<1>17. CASE ResumeEnds(t) \/ portYIELD_WITHIN_API(t)
  <2>1. then[t] \in {"sleep", "hold"} \cup InTurn
    BY <1>5, <1>17, FollowUpsAre DEF ResumeEnds, portYIELD_WITHIN_API, InTurn
  <2>2. Continues(t) \in {"slept", "out", "enter", "expired"}
    BY <2>1, ContinuesTo DEF InTurn
  <2>3. Goes(t, "yield") \/ Goes(t, Continues(t))
    BY <1>17 DEF ResumeEnds, portYIELD_WITHIN_API
  <2>4. QED
    BY <1>7, <2>2, <2>3
<1>18. QED
  BY <1>8, <1>9, <1>10, <1>11, <1>12, <1>13, <1>14, <1>15, <1>16, <1>17

\* The steps that end a call.
LEMMA ReturnLate ==
  ASSUME CallInv, ControlInv, TimeInv, LateInv, NEW t \in Task,
         \/ SendProceeds(t) \/ GiveProceeds(t) \/ MutexGiveProceeds(t) \/ ReceiveProceeds(t)
         \/ TakeProceeds(t) \/ GivesUp(t) \/ Expired(t) \/ DisinheritAfterTimeout(t)
         \/ (DelayEnds(t) /\ UNCHANGED queueVars)
  PROVE  LateInv'
<1>1. /\ Runs(t) /\ at[t] \in {"enter", "expired", "disinherit", "slept"} /\ t = pxCurrentTCB
      /\ Returns(t) \/ (DelayEnds(t) /\ UNCHANGED queueVars)
  BY DEF SendProceeds, GiveProceeds, MutexGiveProceeds, ReceiveProceeds, TakeProceeds, Proceeds,
         GivesUp, Expired, DisinheritAfterTimeout, DelayEnds, Runs
<1>2. Wakes
  BY ProceedsControl, GivesUpControl, WaitControl
<1>3. /\ at \in [Task -> Places] /\ then \in [Task -> {"none", "sleep", "hold"} \cup InTurn]
      /\ t \notin Blocked
  BY <1>1, Whereabouts, AwakeRuns DEF Leaving
<1>4. /\ at' = [at EXCEPT ![t] = "out"] /\ then' = then
      /\ xItemValue' = [xItemValue EXCEPT ![t] = 0] /\ left' = [left EXCEPT ![t] = NoDeadline]
      /\ UNCHANGED <<uxPendedTicks, xTickCount, xNumOfOverflows, xNextTaskUnblockTime>>
      /\ xTicksToWait' = [xTicksToWait EXCEPT ![t] = 0] \/ (xTicksToWait' = xTicksToWait /\ at[t] = "slept")
  BY <1>1 DEF Returns, DelayEnds, Goes, clock
<1>5. \/ xEntryTimeSet' = [xEntryTimeSet EXCEPT ![t] = FALSE] /\ xTimeOut' = [xTimeOut EXCEPT ![t] = NoTimeOut]
      \/ at[t] = "slept" /\ xEntryTimeSet' = xEntryTimeSet /\ xTimeOut' = xTimeOut
  BY <1>1 DEF Returns, DelayEnds, queueVars, waits
<1>6. ClockInv /\ WaitAt(t) /\ LateAt(t)
  BY DEF TimeInv, LateInv
<1>7. /\ ~xEntryTimeSet'[t] /\ at'[t] = "out" /\ left'[t] = TickModulus
      /\ xTicksToWait'[t] = 0 \/ (xTicksToWait'[t] = xTicksToWait[t] /\ at[t] = "slept")
  BY <1>3, <1>4, <1>5, <1>6 DEF ClockInv, WaitAt, NoDeadline
<1>8. \A u \in Task : u # t => Still(u)
  BY <1>3, <1>4, <1>5, <1>6 DEF Still, ClockInv
<1>9. Enters(t) /\ Unblocks({t}) /\ TimeStill
  <2>1. Enters(t) /\ TimeStill
    BY <1>2, <1>4 DEF Wakes, Enters, TimeStill
  <2>2. QED
    BY <1>4, <2>1, SameUnblocks DEF Enters
<1>10. t \notin pxDelayedTaskList' /\ t \notin pxOverflowDelayedTaskList'
  BY <1>2, <1>3 DEF Wakes, Blocked
<1>11. left'[t] >= -MaxLate
  BY <1>7, TickAssumption
<1>12. xTicksToWait'[t] \notin {0, portMAX_DELAY} => xTicksToWait'[t] + MaxLate < TickModulus
  BY <1>6, <1>7 DEF LateAt
<1>13. LateAt(t)'
  BY <1>7, <1>10, <1>11, <1>12 DEF LateAt, Timed
<1>14. QED
  BY <1>8, <1>9, <1>13, StepLate

\* A step of the running task, which is on no list, that leaves the lists alone.
LEMMA AwakeLate ==
  ASSUME ControlInv, LateInv, NEW t \in Task, Runs(t), at[t] \notin Leaving, TimeStill,
         UNCHANGED <<lists, xNextTaskUnblockTime>>, \A u \in Task : u # t => Still(u),
         left'[t] >= -MaxLate,
         at'[t] = "delay" \/ (at'[t] \in {"test", "inherit", "place"} /\ Timed(t)') =>
             left'[t] >= xTicksToWait'[t] - uxPendedTicks',
         Timed(t)' => left'[t] >= Remaining(t)',
         at'[t] # "delay" /\ xTicksToWait'[t] \notin {0, portMAX_DELAY} =>
             xTicksToWait'[t] + MaxLate < TickModulus
  PROVE  LateInv'
<1>1. t \notin pxDelayedTaskList' /\ t \notin pxOverflowDelayedTaskList'
  BY AwakeRuns DEF lists, Blocked
<1>2. LateAt(t)'
  BY <1>1 DEF LateAt
<1>3. Enters(t) /\ Unblocks({t})
  <2>1. Enters(t)
    BY DEF Enters, lists
  <2>2. QED
    BY <2>1, SameUnblocks DEF Enters
<1>4. QED
  BY <1>2, <1>3, StepLate

LEMMA BeginLate ==
  ASSUME CallInv, ControlInv, TimeInv, LateInv, NEW t \in Task, NEW c \in use.calls[t],
         c.queue \in Queue, Begin(t, c)
  PROVE  LateInv'
<1>1. /\ Runs(t) /\ at[t] = "out"
      /\ at' = [at EXCEPT ![t] = "enter"] /\ xTicksToWait' = [xTicksToWait EXCEPT ![t] = c.wait]
      /\ UNCHANGED <<lists, xItemValue, then, left, xEntryTimeSet, xTimeOut, xNextTaskUnblockTime>>
      /\ TimeStill
  BY DEF Begin, Goes, waits, clock, TimeStill
<1>2. at \in [Task -> Places] /\ ClockInv /\ WaitAt(t) /\ LateAt(t)
  BY <1>1, Whereabouts DEF TimeInv, LateInv
<1>3. c.wait \notin {0, portMAX_DELAY} => c.wait + MaxLate < TickModulus
  BY LateAssumption DEF CallInv
<1>4. \A u \in Task : u # t => Still(u)
  BY <1>1, <1>2 DEF ClockInv, Still
<1>5. ~xEntryTimeSet'[t] /\ at'[t] = "enter" /\ xTicksToWait'[t] = c.wait /\ left'[t] >= -MaxLate
  BY <1>1, <1>2 DEF WaitAt, LateAt, ClockInv
<1>6. QED
  BY <1>1, <1>3, <1>4, <1>5, AwakeLate DEF Leaving, Timed

LEMMA EnterLate ==
  ASSUME CallInv, ControlInv, TimeInv, LateInv, NEW t \in Task, EntersWait(t)
  PROVE  LateInv'
<1> DEFINE n == IF xTicksToWait[t] = portMAX_DELAY THEN NoDeadline ELSE xTicksToWait[t]
<1>1. /\ Runs(t) /\ at[t] = "enter" /\ xTicksToWait[t] > 0
      /\ at' = [at EXCEPT ![t] = "suspend"]
      /\ UNCHANGED <<lists, xItemValue, then, xTicksToWait, xNextTaskUnblockTime>> /\ TimeStill
  BY DEF EntersWait, Goes, clock, TimeStill
<1>2. at \in [Task -> Places] /\ ClockInv /\ LateAt(t) /\ uxPendedTicks = 0
      /\ xTicksToWait[t] \in TickType /\ at'[t] = "suspend" /\ xTicksToWait'[t] = xTicksToWait[t]
  BY <1>1, Whereabouts, NonePended DEF TimeInv, LateInv, InSuspension, ClockInv
<1>3. xTicksToWait[t] \notin {0, portMAX_DELAY} => xTicksToWait[t] + MaxLate < TickModulus
  BY <1>1, <1>2 DEF LateAt
<1>4. CASE UNCHANGED <<xEntryTimeSet, xTimeOut, left>>
  <2>1. \A u \in Task : u # t => Still(u)
    BY <1>1, <1>2, <1>4 DEF Still
  <2>2. Timed(t)' => left'[t] >= Remaining(t)'
    BY <1>1, <1>2, <1>4 DEF LateAt, Timed, Remaining, Elapsed, TimeStill
  <2>3. left'[t] >= -MaxLate
    BY <1>2, <1>4 DEF LateAt
  <2>4. QED
    BY <1>1, <1>2, <1>3, <2>1, <2>2, <2>3, AwakeLate DEF Leaving
<1>5. CASE /\ xEntryTimeSet' = [xEntryTimeSet EXCEPT ![t] = TRUE]
           /\ xTimeOut' = [xTimeOut EXCEPT ![t] = TimeOutState]
           /\ left' = [left EXCEPT ![t] = n]
  <2>1. n \in Int /\ n >= -MaxLate /\ (xTicksToWait[t] # portMAX_DELAY => n = xTicksToWait[t])
    BY <1>2, TickAssumption DEF NoDeadline, TickType
  <2> HIDE DEF n
  <2>2. \A u \in Task : u # t => Still(u)
    BY <1>1, <1>2, <1>5 DEF Still, ClockInv
  <2>3. xTimeOut'[t] = TimeOutState /\ left'[t] = n /\ uxPendedTicks' = 0
    BY <1>1, <1>2, <1>5 DEF ClockInv, TimeStill
  <2>4. Elapsed(TimeOutState)' = 0 /\ TimeOutState' = TimeOutState
    BY <1>1, <1>2, FreshTimeOut DEF TimeOutState, TimeStill
  <2>5. Timed(t)' => left'[t] >= Remaining(t)'
    <3>1. Elapsed(xTimeOut[t])' = 0
      BY <2>3, <2>4 DEF Elapsed
    <3>2. Remaining(t)' = xTicksToWait[t] - 0 - 0
      BY <1>2, <2>3, <3>1 DEF Remaining
    <3>3. QED
      BY <1>2, <2>1, <2>3, <3>2 DEF Timed, TickType
  <2>6. QED
    BY <1>1, <1>2, <1>3, <2>1, <2>2, <2>3, <2>5, AwakeLate DEF Leaving
<1>6. QED
  BY <1>4, <1>5 DEF EntersWait

LEMMA CheckLate ==
  ASSUME CallInv, ControlInv, TimeInv, LateInv, NEW t \in Task, CheckForTimeOut(t)
  PROVE  LateInv'
<1> DEFINE n == xTicksToWait[t] - Elapsed(xTimeOut[t])
           m == IF Wrapped(xTimeOut[t]) THEN xTicksToWait[t] ELSE 0
<1>1. /\ Runs(t) /\ at[t] = "check"
      /\ UNCHANGED <<lists, xItemValue, left, xEntryTimeSet, xNextTaskUnblockTime>> /\ TimeStill
  BY DEF CheckForTimeOut, StepUnchanged, TimeStill
<1>2. /\ at \in [Task -> Places] /\ then \in [Task -> {"none", "sleep", "hold"} \cup InTurn]
  BY <1>1, Whereabouts
<1>3. ClockInv /\ WaitAt(t) /\ LateAt(t) /\ xTicksToWait[t] \in TickType
      /\ left[t] \in Int /\ uxPendedTicks \in Nat /\ Elapsed(xTimeOut[t]) \in TickType
  BY Minus DEF TimeInv, LateInv, ClockInv, Elapsed
<1>4. xEntryTimeSet[t] /\ xTicksToWait[t] > 0 /\ left[t] >= -MaxLate
  BY <1>1, <1>3 DEF WaitAt, InWait, LateAt
<1>5. CASE xTicksToWait[t] = portMAX_DELAY
  BY <1>5, PassSteps
<1>6. CASE /\ xTicksToWait[t] # portMAX_DELAY
  <2>1. Timed(t) /\ left[t] >= Remaining(t) /\ xTicksToWait[t] + MaxLate < TickModulus
    BY <1>1, <1>3, <1>4, <1>6 DEF Timed, LateAt, TickType
  <2>2. CASE /\ ~TimesOut(xTimeOut[t], xTicksToWait[t])
             /\ xTicksToWait' = [xTicksToWait EXCEPT ![t] = n]
             /\ xTimeOut' = [xTimeOut EXCEPT ![t] = TimeOutState]
             /\ Goes(t, "test") /\ then' = then
    <3>1. left[t] >= n - uxPendedTicks /\ n + MaxLate < TickModulus /\ n \in Nat
      <4>1. Elapsed(xTimeOut[t]) < xTicksToWait[t]
        BY <1>3, <2>2 DEF TimesOut, TickType
      <4>2. left[t] >= n - uxPendedTicks
        BY <2>1 DEF Remaining
      <4>3. QED
        BY <1>3, <2>1, <4>1, <4>2, TickAssumption DEF TickType
    <3> HIDE DEF n
    <3>2. \A u \in Task : u # t => Still(u)
      BY <1>1, <1>2, <1>3, <2>2 DEF ClockInv, Still, Goes
    <3>3. at'[t] = "test" /\ xTicksToWait'[t] = n /\ xTimeOut'[t] = TimeOutState /\ left'[t] = left[t]
          /\ uxPendedTicks' = uxPendedTicks
      BY <1>1, <1>2, <1>3, <2>2 DEF ClockInv, Goes, TimeStill
    <3>4. Elapsed(TimeOutState)' = 0 /\ TimeOutState' = TimeOutState
      BY <1>1, <1>3, FreshTimeOut DEF TimeOutState, TimeStill
    <3>5. left'[t] >= Remaining(t)'
      <4>1. Elapsed(xTimeOut[t])' = 0
        BY <3>3, <3>4 DEF Elapsed
      <4>2. Remaining(t)' = n - 0 - uxPendedTicks
        BY <3>3, <4>1 DEF Remaining
      <4>3. QED
        BY <1>3, <3>1, <3>3, <4>2
    <3>6. QED
      BY <1>1, <1>4, <3>1, <3>2, <3>3, <3>5, AwakeLate DEF Leaving
  <2>3. CASE /\ xTicksToWait' = [xTicksToWait EXCEPT ![t] = m]
             /\ Goes(t, "unlock") /\ then' = [then EXCEPT ![t] = "expire"] /\ xTimeOut' = xTimeOut
    <3>1. at'[t] = "unlock" /\ xTicksToWait'[t] = m /\ left'[t] = left[t]
      BY <1>1, <1>2, <1>3, <2>3 DEF ClockInv, Goes
    <3>2. \A u \in Task : u # t => Still(u)
      BY <1>1, <1>2, <1>3, <2>3 DEF ClockInv, Still, Goes
    <3>3. Timed(t)' => left'[t] >= Remaining(t)'
      <4>1. Timed(t)' => m = xTicksToWait[t]
        BY <3>1 DEF Timed
      <4>2. m = xTicksToWait[t] => Remaining(t)' = Remaining(t)
        BY <1>1, <2>3, <3>1 DEF Remaining, Elapsed, TimeStill
      <4>3. QED
        BY <2>1, <3>1, <4>1, <4>2
    <3>4. m \notin {0, portMAX_DELAY} => m + MaxLate < TickModulus
      BY <2>1
    <3> HIDE DEF m
    <3>5. QED
      BY <1>1, <1>4, <3>1, <3>2, <3>3, <3>4, AwakeLate DEF Leaving
  <2>4. QED
    BY <1>6, <2>2, <2>3 DEF CheckForTimeOut
<1>7. QED
  BY <1>5, <1>6

\* The running task enters a delayed list for as long as it has time left.
LEMMA AddsLate ==
  ASSUME ControlInv, TimeInv, LateInv, NEW t \in Task, Runs(t), at[t] \notin Leaving, TimeStill,
         NEW ticks \in TickType, ticks > 0, NEW b, prvAddCurrentTaskToDelayedList(ticks, b),
         left'[t] = left[t], ticks # portMAX_DELAY \/ ~b => left[t] >= ticks - uxPendedTicks
  PROVE  /\ Enters(t) /\ Unblocks({t}) /\ \A u \in Task : u # t => xItemValue'[u] = xItemValue[u]
         /\ t \in pxDelayedTaskList' =>
               /\ xTickCount' < xItemValue'[t] /\ xNextTaskUnblockTime' <= xItemValue'[t]
               /\ left'[t] >= Ahead(t)'
         /\ t \in pxOverflowDelayedTaskList' => left'[t] >= Ahead(t)' + TickModulus
<1>1. t = pxCurrentTCB /\ t \notin pxDelayedTaskList /\ t \notin pxOverflowDelayedTaskList
  BY AwakeRuns DEF Runs, Blocked
<1>2. ClockInv /\ xTickCount \in TickType /\ left[t] \in Int /\ uxPendedTicks \in Nat
      /\ xNextTaskUnblockTime \in TickType
  BY DEF TimeInv, ClockInv, LateInv
<1>3. CASE ticks = portMAX_DELAY /\ b
  <2>1. UNCHANGED <<pxDelayedTaskList, pxOverflowDelayedTaskList, xItemValue, xNextTaskUnblockTime>>
    BY <1>3 DEF prvAddCurrentTaskToDelayedList
  <2>2. Enters(t)
    BY <2>1 DEF Enters
  <2>3. QED
    BY <1>1, <2>1, <2>2, SameUnblocks
<1>4. CASE ticks # portMAX_DELAY \/ ~b
  <2>1. PICK wake \in TickType :
          /\ xItemValue' = [xItemValue EXCEPT ![t] = wake] /\ xItemValue'[t] = wake
          /\ \/ /\ wake = xTickCount + ticks - TickModulus /\ t \in pxOverflowDelayedTaskList'
                /\ pxOverflowDelayedTaskList' = pxOverflowDelayedTaskList \cup {t}
                /\ pxDelayedTaskList' = pxDelayedTaskList
                /\ xNextTaskUnblockTime' = xNextTaskUnblockTime
             \/ /\ wake = xTickCount + ticks /\ t \in pxDelayedTaskList'
                /\ pxDelayedTaskList' = pxDelayedTaskList \cup {t}
                /\ pxOverflowDelayedTaskList' = pxOverflowDelayedTaskList
                /\ xNextTaskUnblockTime' =
                       IF wake < xNextTaskUnblockTime THEN wake ELSE xNextTaskUnblockTime
    BY <1>1, <1>2, <1>4, AddsWake
  <2>2. /\ left'[t] >= ticks - uxPendedTicks /\ uxPendedTicks' = uxPendedTicks
        /\ xTickCount' = xTickCount /\ Ahead(t)' = wake - xTickCount - uxPendedTicks
    BY <1>4, <2>1 DEF Ahead, TimeStill
  <2>3. \A u \in Task : u # t => xItemValue'[u] = xItemValue[u]
    BY <1>2, <2>1 DEF ClockInv
  <2>4. Enters(t)
    BY <2>1 DEF Enters
  <2>5. CASE /\ wake = xTickCount + ticks - TickModulus
             /\ pxDelayedTaskList' = pxDelayedTaskList
             /\ xNextTaskUnblockTime' = xNextTaskUnblockTime
    <3>1. left'[t] >= Ahead(t)' + TickModulus
      BY <1>2, <2>2, <2>5, TickAssumption DEF TickType
    <3>2. Unblocks({t})
      BY <2>4, <2>5, SameUnblocks DEF Enters
    <3>3. QED
      BY <1>1, <2>3, <2>4, <2>5, <3>1, <3>2
  <2>6. CASE /\ wake = xTickCount + ticks
             /\ pxOverflowDelayedTaskList' = pxOverflowDelayedTaskList
             /\ xNextTaskUnblockTime' =
                    IF wake < xNextTaskUnblockTime THEN wake ELSE xNextTaskUnblockTime
    <3>1. left'[t] >= Ahead(t)'
      BY <1>2, <2>2, <2>6, TickAssumption DEF TickType
    <3>2. /\ xNextTaskUnblockTime' \in TickType /\ xNextTaskUnblockTime' <= wake
          /\ xNextTaskUnblockTime' <= xNextTaskUnblockTime
      BY <1>2, <2>6 DEF TickType
    <3>3. ASSUME NEW u \in Task, u # t, u \in pxDelayedTaskList'
          PROVE  xNextTaskUnblockTime' <= xItemValue[u]
      <4>1. xNextTaskUnblockTime <= xItemValue[u] /\ xItemValue[u] \in TickType
        BY <1>2, <2>4, <3>3 DEF Enters, LateInv, LateAt, ClockInv
      <4>2. QED
        BY <1>2, <3>2, <4>1 DEF TickType
    <3>4. Unblocks({t})
      BY <3>2, <3>3 DEF Unblocks
    <3>5. xTickCount' < xItemValue'[t]
      BY <1>2, <2>1, <2>2, <2>6 DEF TickType
    <3>6. QED
      BY <1>1, <2>1, <2>3, <2>4, <2>6, <3>1, <3>2, <3>4, <3>5
  <2>7. QED
    BY <2>1, <2>5, <2>6
<1>5. QED
  BY <1>3, <1>4

LEMMA PlaceLate ==
  ASSUME CallInv, ControlInv, TimeInv, LateInv, NEW t \in Task, Place(t)
  PROVE  LateInv'
<1> DEFINE ticks == xTicksToWait[t]
<1>1. /\ Runs(t) /\ at[t] = "place"
      /\ at' = [at EXCEPT ![t] = "unlock"] /\ then' = [then EXCEPT ![t] = "block"]
      /\ UNCHANGED <<left, xEntryTimeSet, xTicksToWait, xTimeOut>> /\ TimeStill
      /\ prvAddCurrentTaskToDelayedList(ticks, TRUE)
  BY DEF Place, vTaskPlaceOnEventList, StepUnchanged, Goes, TimeStill
<1>2. /\ at \in [Task -> Places] /\ then \in [Task -> {"none", "sleep", "hold"} \cup InTurn]
      /\ ticks \in TickType /\ ticks > 0 /\ WaitAt(t) /\ LateAt(t) /\ xEntryTimeSet[t]
  BY <1>1, Whereabouts DEF TimeInv, LateInv, ClockInv, WaitAt, InWait
<1>3. ticks # portMAX_DELAY => left[t] >= ticks - uxPendedTicks
  BY <1>1, <1>2 DEF LateAt, Timed, TickType
<1> HIDE DEF ticks
<1>4. /\ Enters(t) /\ Unblocks({t}) /\ \A u \in Task : u # t => xItemValue'[u] = xItemValue[u]
      /\ t \in pxDelayedTaskList' =>
            /\ xTickCount' < xItemValue'[t] /\ xNextTaskUnblockTime' <= xItemValue'[t]
            /\ left'[t] >= Ahead(t)'
      /\ t \in pxOverflowDelayedTaskList' => left'[t] >= Ahead(t)' + TickModulus
  BY <1>1, <1>2, <1>3, AddsLate DEF Leaving
<1>5. \A u \in Task : u # t => Still(u)
  BY <1>1, <1>2, <1>4 DEF Still
<1>6. at'[t] = "unlock" /\ (Timed(t)' <=> Timed(t)) /\ Remaining(t)' = Remaining(t)
  BY <1>1, <1>2 DEF Timed, Remaining, Elapsed, TimeStill
<1>7. LateAt(t)'
  BY <1>1, <1>2, <1>4, <1>6 DEF LateAt
<1>8. QED
  BY <1>1, <1>4, <1>5, <1>7, StepLate

LEMMA AddLate ==
  ASSUME CallInv, ControlInv, TimeInv, LateInv, NEW t \in Task, DelayAdds(t), UNCHANGED queueVars
  PROVE  LateInv'
<1> DEFINE ticks == xTicksToWait[t]
<1>1. /\ Runs(t) /\ at[t] = "delay"
      /\ at' = [at EXCEPT ![t] = "resume"] /\ then' = then
      /\ xTicksToWait' = [xTicksToWait EXCEPT ![t] = 0]
      /\ UNCHANGED <<left, xEntryTimeSet, xTimeOut>> /\ TimeStill
      /\ prvAddCurrentTaskToDelayedList(ticks, FALSE)
  BY DEF DelayAdds, Goes, queueVars, waits, TimeStill
<1>2. /\ at \in [Task -> Places] /\ ticks \in TickType /\ ticks > 0
      /\ left[t] >= ticks - uxPendedTicks /\ left[t] >= -MaxLate /\ ~xEntryTimeSet[t] /\ ClockInv
  BY <1>1, Whereabouts DEF TimeInv, LateInv, ClockInv, WaitAt, LateAt
<1> HIDE DEF ticks
<1>3. /\ Enters(t) /\ Unblocks({t}) /\ \A u \in Task : u # t => xItemValue'[u] = xItemValue[u]
      /\ t \in pxDelayedTaskList' =>
            /\ xTickCount' < xItemValue'[t] /\ xNextTaskUnblockTime' <= xItemValue'[t]
            /\ left'[t] >= Ahead(t)'
      /\ t \in pxOverflowDelayedTaskList' => left'[t] >= Ahead(t)' + TickModulus
  BY <1>1, <1>2, AddsLate DEF Leaving
<1>4. \A u \in Task : u # t => Still(u)
  BY <1>1, <1>2, <1>3 DEF Still, ClockInv
<1>5. at'[t] = "resume" /\ ~xEntryTimeSet'[t] /\ xTicksToWait'[t] = 0 /\ left'[t] = left[t]
  BY <1>1, <1>2 DEF ClockInv
<1>6. LateAt(t)'
  BY <1>2, <1>3, <1>5 DEF LateAt, Timed
<1>7. QED
  BY <1>1, <1>3, <1>4, <1>6, StepLate

LEMMA DelayLate ==
  ASSUME CallInv, ControlInv, TimeInv, LateInv, NEW t \in Task, NEW c \in use.calls[t],
         vTaskDelay(t, c.wait), UNCHANGED queueVars
  PROVE  LateInv'
<1> DEFINE n == c.wait
<1>1. /\ Runs(t) /\ at[t] = "out"
      /\ at' = [at EXCEPT ![t] = "delay"] /\ then' = [then EXCEPT ![t] = "sleep"]
      /\ xTicksToWait' = [xTicksToWait EXCEPT ![t] = n] /\ left' = [left EXCEPT ![t] = n]
      /\ UNCHANGED <<lists, xItemValue, xEntryTimeSet, xTimeOut, xNextTaskUnblockTime>>
      /\ TimeStill /\ n > 0
  BY DEF vTaskDelay, vTaskSuspendAll, Goes, queueVars, waits, clock, TimeStill
<1>2. /\ at \in [Task -> Places] /\ then \in [Task -> {"none", "sleep", "hold"} \cup InTurn]
      /\ uxPendedTicks = 0 /\ ClockInv /\ WaitAt(t)
  BY <1>1, Whereabouts, NonePended DEF InSuspension, TimeInv
<1>3. n \in TickType /\ n \in Int /\ n >= -MaxLate
  BY QueueAssumption, TickAssumption DEF CallInv, TickType
<1> HIDE DEF n
<1>4. \A u \in Task : u # t => Still(u)
  BY <1>1, <1>2 DEF ClockInv, Still
<1>5. /\ at'[t] = "delay" /\ xTicksToWait'[t] = n /\ left'[t] = n /\ ~xEntryTimeSet'[t]
      /\ uxPendedTicks' = 0
  BY <1>1, <1>2 DEF ClockInv, WaitAt, TimeStill
<1>6. left'[t] >= xTicksToWait'[t] - uxPendedTicks'
  BY <1>3, <1>5
<1>7. QED
  BY <1>1, <1>3, <1>4, <1>5, <1>6, AwakeLate DEF Leaving, Timed

\* Who is still in a list after a tick.
LEMMA TickedUnblocks ==
  ASSUME ControlInv, ClockInv, LateInv, IncrementTick
  PROVE  /\ xNextTaskUnblockTime' \in TickType /\ xTickCount' \in TickType
         /\ \A u \in Task :
               /\ u \in pxDelayedTaskList' =>
                     /\ xTickCount' < xItemValue[u] /\ xNextTaskUnblockTime' <= xItemValue[u]
                     /\ \/ u \in pxDelayedTaskList /\ xTickCount' = xTickCount + 1
                        \/ /\ u \in pxOverflowDelayedTaskList
                           /\ xTickCount' = 0 /\ xTickCount = TickModulus - 1
               /\ u \in pxOverflowDelayedTaskList' =>
                     u \in pxOverflowDelayedTaskList /\ xTickCount' = xTickCount + 1
<1> DEFINE tick == TickPlus(xTickCount, 1)
           unblock == CurrentUnblockTime(tick)
           delayed == CurrentDelayed(tick)
<1>1. xTickCount \in TickType /\ 1 \in TickType /\ xNextTaskUnblockTime \in TickType
  BY TickAssumption DEF ClockInv, LateInv, TickType
<1>2. tick \in TickType /\ tick = IF xTickCount = TickModulus - 1 THEN 0 ELSE xTickCount + 1
  BY <1>1, Plus, TickAssumption DEF TickType
<1>3. /\ xTickCount' = tick /\ pxDelayedTaskList' = delayed \ Due(tick)
      /\ pxOverflowDelayedTaskList' =
             IF tick = 0 THEN pxDelayedTaskList ELSE pxOverflowDelayedTaskList
      /\ xNextTaskUnblockTime' =
             IF tick < unblock THEN unblock ELSE UnblockTime(delayed \ Due(tick))
  BY DEF IncrementTick
<1>4. Due(tick) = IF tick < unblock THEN {} ELSE {t \in delayed : xItemValue[t] <= tick}
  BY DEF Due
<1>5. /\ unblock = IF tick = 0 THEN UnblockTime(pxOverflowDelayedTaskList) ELSE xNextTaskUnblockTime
      /\ delayed = IF tick = 0 THEN pxOverflowDelayedTaskList ELSE pxDelayedTaskList
  BY DEF CurrentUnblockTime, CurrentDelayed
<1> HIDE DEF tick, unblock, delayed
<1>6. delayed \in SUBSET Task
  BY <1>5 DEF ControlInv, ListInv, Blocked
<1>7. unblock \in TickType /\ \A u \in delayed : unblock <= xItemValue[u] /\ xItemValue[u] \in TickType
  <2>1. CASE tick = 0
    BY <1>5, <1>6, <2>1, FirstWake DEF ClockInv
  <2>2. CASE tick # 0
    BY <1>1, <1>5, <1>6, <2>2 DEF ClockInv, LateInv, LateAt
  <2>3. QED
    BY <2>1, <2>2
<1>8. /\ xNextTaskUnblockTime' \in TickType
      /\ \A u \in pxDelayedTaskList' : tick < xItemValue[u] /\ xNextTaskUnblockTime' <= xItemValue[u]
  <2>1. CASE tick < unblock
    BY <1>2, <1>3, <1>7, <2>1 DEF TickType
  <2>2. CASE ~ (tick < unblock)
    <3> DEFINE rest == delayed \ Due(tick)
    <3>1. UnblockTime(rest) \in TickType /\ \A u \in rest : UnblockTime(rest) <= xItemValue[u]
      BY <1>6, FirstWake
    <3>2. \A u \in rest : tick < xItemValue[u]
      BY <1>2, <1>4, <1>7, <2>2 DEF TickType
    <3> HIDE DEF rest
    <3>3. xNextTaskUnblockTime' = UnblockTime(rest) /\ pxDelayedTaskList' = rest
      BY <1>3, <2>2 DEF rest
    <3>4. QED
      BY <3>1, <3>2, <3>3
  <2>3. QED
    BY <2>1, <2>2
<1>9. ASSUME NEW u \in Task, u \in pxDelayedTaskList
      PROVE  xTickCount # TickModulus - 1
  <2>1. xTickCount < xItemValue[u] /\ xItemValue[u] \in TickType
    BY <1>9 DEF LateInv, LateAt, ClockInv
  <2>2. QED
    BY <1>1, <2>1, TickAssumption DEF TickType
<1>10. CASE tick = 0
  <2>1. xTickCount = TickModulus - 1
    BY <1>1, <1>2, <1>10, TickAssumption DEF TickType
  <2>2. QED
    BY <1>2, <1>3, <1>5, <1>8, <1>9, <1>10, <2>1
<1>11. CASE tick # 0
  <2>1. tick = xTickCount + 1
    BY <1>2, <1>11
  <2>2. QED
    BY <1>2, <1>3, <1>5, <1>8, <1>11, <2>1
<1>12. QED
  BY <1>10, <1>11

LEMMA TickLate ==
  ASSUME ControlInv, TimeInv, LateInv, UNCHANGED queueVars, SysTick \/ \E t \in Task : ResumeTick(t)
  PROVE  LateInv'
<1>1. /\ IncrementTick /\ uxSchedulerSuspended = 0
      /\ UNCHANGED <<at, then, xTicksToWait, xItemValue, xEntryTimeSet, xTimeOut>>
  <2>1. CASE SysTick
    BY <2>1 DEF SysTick, queueVars, waits
  <2>2. CASE \E t \in Task : ResumeTick(t)
    BY <2>2, Whereabouts DEF ResumeTick, control, queueVars, waits, InSuspension
  <2>3. QED
    BY <2>1, <2>2
<1>2. ClockInv /\ uxPendedTicks \in Nat /\ left \in [Task -> Int] /\ xTickCount \in TickType
  BY DEF TimeInv, ClockInv
<1>3. \/ /\ \A t \in Task : left[t] > -MaxLate
         /\ uxPendedTicks' = uxPendedTicks /\ left' = OneTickLess
      \/ /\ uxPendedTicks > 0 /\ uxPendedTicks' = uxPendedTicks - 1 /\ left' = left
  <2>1. CASE SysTick
    BY <2>1 DEF SysTick
  <2>2. CASE \E t \in Task : ResumeTick(t)
    BY <2>2 DEF ResumeTick, control
  <2>3. QED
    BY <2>1, <2>2
<1>4. \A u \in Task : at[u] \notin {"delay", "test", "inherit", "place"}
  BY <1>1 DEF ControlInv, RunInv, InSuspension
<1>5. /\ xNextTaskUnblockTime' \in TickType /\ xTickCount' \in TickType
      /\ \A u \in Task :
            /\ u \in pxDelayedTaskList' =>
                  /\ xTickCount' < xItemValue[u] /\ xNextTaskUnblockTime' <= xItemValue[u]
                  /\ \/ u \in pxDelayedTaskList /\ xTickCount' = xTickCount + 1
                     \/ /\ u \in pxOverflowDelayedTaskList
                        /\ xTickCount' = 0 /\ xTickCount = TickModulus - 1
            /\ u \in pxOverflowDelayedTaskList' =>
                  u \in pxOverflowDelayedTaskList /\ xTickCount' = xTickCount + 1
  BY <1>1, <1>2, TickedUnblocks
<1>6. ASSUME NEW u \in Task
      PROVE  LateAt(u)'
  <2> DEFINE n == xTicksToWait[u]
             e == xTimeOut[u].xTimeOnEntering
             i == xItemValue[u]
  <2>1. /\ EarlyAt(u) /\ LateAt(u) /\ n \in TickType /\ e \in TickType /\ i \in TickType
        /\ left[u] \in Int
    BY <1>2 DEF TimeInv, LateInv, ClockInv
  <2>2. /\ left'[u] \in Int /\ left'[u] >= -MaxLate /\ uxPendedTicks' \in Nat
        /\ left'[u] + uxPendedTicks' >= left[u] + uxPendedTicks - 1
        /\ left[u] > -MaxLate \/ uxPendedTicks > 0
    BY <1>2, <1>3, <2>1, TickAssumption DEF OneTickLess, NoDeadline, LateAt
  <2>3. Ahead(u)' = i - xTickCount' - uxPendedTicks' /\ Ahead(u) = i - xTickCount - uxPendedTicks
    BY <1>1 DEF Ahead
  <2> HIDE DEF n, e, i
  <2>4. u \in pxDelayedTaskList' => left'[u] >= Ahead(u)'
    <3>1. CASE u \in pxDelayedTaskList /\ xTickCount' = xTickCount + 1
      <4>1. left[u] >= Ahead(u)
        BY <2>1, <3>1 DEF LateAt
      <4>2. QED
        BY <1>2, <2>1, <2>2, <2>3, <3>1, <4>1 DEF TickType
    <3>2. CASE u \in pxOverflowDelayedTaskList /\ xTickCount' = 0 /\ xTickCount = TickModulus - 1
      <4>1. left[u] >= Ahead(u) + TickModulus
        BY <2>1, <3>2 DEF LateAt
      <4>2. QED
        BY <1>2, <2>1, <2>2, <2>3, <3>2, <4>1, TickAssumption DEF TickType
    <3>3. QED
      BY <1>5, <3>1, <3>2
  <2>5. u \in pxOverflowDelayedTaskList' => left'[u] >= Ahead(u)' + TickModulus
    <3> SUFFICES ASSUME u \in pxOverflowDelayedTaskList'
                 PROVE  left'[u] >= Ahead(u)' + TickModulus
      OBVIOUS
    <3>1. left[u] >= Ahead(u) + TickModulus /\ xTickCount' = xTickCount + 1
      BY <1>5, <2>1 DEF LateAt
    <3>2. QED
      BY <1>2, <2>1, <2>2, <2>3, <3>1, TickAssumption DEF TickType
  <2>6. Timed(u)' => left'[u] >= Remaining(u)'
    <3> DEFINE E == TickMinus(xTickCount, e)
               F == TickMinus(xTickCount', e)
    <3> SUFFICES ASSUME Timed(u) PROVE left'[u] >= Remaining(u)'
      BY <1>1 DEF Timed
    <3>1. Remaining(u) = n - E - uxPendedTicks /\ Remaining(u)' = n - F - uxPendedTicks'
      BY <1>1 DEF Remaining, Elapsed, n, e
    <3>2. xTickCount' = TickPlus(xTickCount, 1)
      BY <1>1 DEF IncrementTick
    <3>3. E \in TickType /\ F \in TickType
      BY <1>2, <1>5, <2>1, Minus
    <3>4. /\ E = TickModulus - 1 => F = 0
          /\ E # TickModulus - 1 => F = E + 1
      BY <1>2, <2>1, <3>2, TickElapses
    <3> HIDE DEF E, F
    <3>5. left[u] >= Remaining(u) /\ n + MaxLate < TickModulus
      BY <1>4, <2>1 DEF LateAt, Timed, n
    <3>6. left[u] <= Remaining(u) - (IF Wrapped(xTimeOut[u]) THEN TickModulus ELSE 0)
      BY <2>1 DEF EarlyAt
    <3>7. left[u] <= n - E - uxPendedTicks
      BY <1>2, <2>1, <3>1, <3>3, <3>6, TickAssumption DEF TickType
    <3>8. E # TickModulus - 1
      <4>1. SUFFICES ASSUME E = TickModulus - 1 PROVE FALSE
        OBVIOUS
      <4>2. left[u] <= -MaxLate - uxPendedTicks
        BY <1>2, <2>1, <3>5, <3>7, <4>1, TickAssumption DEF TickType
      <4>3. left[u] >= -MaxLate
        BY <2>1 DEF LateAt
      <4>4. QED
        BY <1>2, <2>1, <2>2, <4>2, <4>3, TickAssumption
    <3>9. QED
      BY <1>2, <2>1, <2>2, <3>1, <3>3, <3>4, <3>5, <3>8 DEF TickType
  <2>7. at'[u] # "delay" /\ xTicksToWait'[u] \notin {0, portMAX_DELAY} =>
            xTicksToWait'[u] + MaxLate < TickModulus
    BY <1>1, <2>1 DEF LateAt
  <2>8. at'[u] \notin {"delay", "test", "inherit", "place"}
    BY <1>1, <1>4
  <2>9. u \in pxDelayedTaskList' =>
          xTickCount' < xItemValue'[u] /\ xNextTaskUnblockTime' <= xItemValue'[u]
    BY <1>1, <1>5
  <2>10. QED
    BY <2>2, <2>4, <2>5, <2>6, <2>7, <2>8, <2>9 DEF LateAt
<1>7. QED
  BY <1>5, <1>6 DEF LateInv

LEMMA PendLate ==
  ASSUME ControlInv, TimeInv, LateInv, UNCHANGED queueVars, SysTickPended
  PROVE  LateInv'
<1>1. /\ uxPendedTicks' = uxPendedTicks + 1 /\ left' = OneTickLess
      /\ \A t \in Task : left[t] > -MaxLate
      /\ UNCHANGED <<at, then, xTicksToWait, xItemValue, xNextTaskUnblockTime,
                     xEntryTimeSet, xTimeOut, xTickCount, xNumOfOverflows, lists>>
  BY DEF SysTickPended, queueVars, waits, clock
<1>2. ClockInv /\ uxPendedTicks \in Nat /\ left \in [Task -> Int] /\ xTickCount \in TickType
  BY DEF TimeInv, ClockInv
<1>3. ASSUME NEW u \in Task
      PROVE  LateAt(u)'
  <2>1. /\ LateAt(u) /\ xTicksToWait[u] \in TickType /\ xItemValue[u] \in TickType
        /\ xTimeOut[u].xTimeOnEntering \in TickType /\ left[u] \in Int
    BY <1>2 DEF LateInv, ClockInv
  <2>2. left'[u] \in Int /\ left'[u] >= left[u] - 1 /\ left'[u] >= -MaxLate
    BY <1>1, <2>1, TickAssumption DEF OneTickLess, NoDeadline
  <2>3. Ahead(u)' = Ahead(u) - 1 /\ Ahead(u) \in Int
    BY <1>1, <1>2, <2>1 DEF Ahead, TickType
  <2>4. Remaining(u)' = Remaining(u) - 1 /\ Remaining(u) \in Int /\ (Timed(u)' <=> Timed(u))
    <3>1. Elapsed(xTimeOut[u])' = Elapsed(xTimeOut[u]) /\ Elapsed(xTimeOut[u]) \in TickType
      BY <1>1, <1>2, <2>1, Minus DEF Elapsed
    <3>2. QED
      BY <1>1, <1>2, <2>1, <3>1 DEF Remaining, Timed, TickType
  <2>5. u \in pxDelayedTaskList' =>
          /\ xTickCount' < xItemValue'[u] /\ xNextTaskUnblockTime' <= xItemValue'[u]
          /\ left'[u] >= Ahead(u)'
    BY <1>1, <2>1, <2>2, <2>3 DEF LateAt, lists
  <2>6. u \in pxOverflowDelayedTaskList' => left'[u] >= Ahead(u)' + TickModulus
    BY <1>1, <2>1, <2>2, <2>3, TickAssumption DEF LateAt, lists
  <2>7. Timed(u)' => left'[u] >= Remaining(u)'
    BY <2>1, <2>2, <2>4 DEF LateAt
  <2>8. at'[u] = "delay" \/ (at'[u] \in {"test", "inherit", "place"} /\ Timed(u)') =>
          left'[u] >= xTicksToWait'[u] - uxPendedTicks'
    BY <1>1, <1>2, <2>1, <2>2, <2>4 DEF LateAt, TickType
  <2>9. at'[u] # "delay" /\ xTicksToWait'[u] \notin {0, portMAX_DELAY} =>
            xTicksToWait'[u] + MaxLate < TickModulus
    BY <1>1, <2>1 DEF LateAt
  <2>10. QED
    BY <2>2, <2>5, <2>6, <2>7, <2>8, <2>9 DEF LateAt
<1>4. QED
  BY <1>1, <1>3 DEF LateInv

\* Something is not a task.
LEMMA NotATask == \E z : z \notin Task
<1> DEFINE z == {x \in Task : x \notin x}
<1>1. z \notin Task
  OBVIOUS
<1>2. QED
  BY <1>1

LEMMA InterruptLate ==
  ASSUME CallInv, ControlInv, LateInv,
         (vTaskSwitchContext /\ UNCHANGED queueVars) \/ \E q \in use.isr : xQueueGiveFromISR(q)
  PROVE  LateInv'
<1>1. UNCHANGED <<at, then, xNextTaskUnblockTime>> /\ Untimed
  BY DEF vTaskSwitchContext, xQueueGiveFromISR, control, clock, queueVars, waits, Untimed, TimeStill
<1>2. Wakes
  BY SwitchControl, GiveControl
<1>3. \A u \in Task : Still(u)
  BY <1>1 DEF Still, Untimed
<1>4. PICK z : z \notin Task
  BY NotATask
<1>5. Enters(z) /\ TimeStill
  BY <1>1, <1>2 DEF Enters, Wakes, Untimed
<1>6. Unblocks({z})
  BY <1>1, <1>5, SameUnblocks DEF Enters
<1>7. \A u \in Task : LateAt(u)'
  BY <1>3, <1>4, <1>5, <1>6, OthersLate
<1>8. QED
  BY <1>6, <1>7 DEF LateInv, Unblocks

LEMMA InitLate == QueuesInit => LateInv
<1> SUFFICES ASSUME QueuesInit PROVE LateInv
  OBVIOUS
<1>1. PICK S : SchedulerInit(S)
  BY DEF QueuesInit
<1>2. xNextTaskUnblockTime \in TickType /\ NoDeadline >= -MaxLate
  BY <1>1, TickAssumption DEF SchedulerInit, TickType, portMAX_DELAY, NoDeadline
<1>3. ASSUME NEW u \in Task
      PROVE  LateAt(u)
  <2>1. at[u] = "out" /\ left[u] = NoDeadline /\ ~xEntryTimeSet[u] /\ xTicksToWait[u] = 0
        /\ pxDelayedTaskList = {} /\ pxOverflowDelayedTaskList = {}
    BY <1>1 DEF SchedulerInit, QueuesInit
  <2>2. QED
    BY <1>2, <2>1 DEF LateAt, Timed
<1>4. QED
  BY <1>2, <1>3 DEF LateInv

LEMMA NextLate ==
  ASSUME CallInv, ControlInv, TimeInv, LateInv, [KernelNext]_allVars
  PROVE  LateInv'
<1>1. CASE UNCHANGED allVars
  <2>1. Untimed /\ UNCHANGED <<lists, at, then, xNextTaskUnblockTime>>
    BY <1>1 DEF allVars, schedulerVars, queueVars, control, waits, clock, Untimed, TimeStill
  <2>2. PICK z : z \notin Task
    BY NotATask
  <2>3. Enters(z) /\ TimeStill /\ \A u \in Task : Still(u)
    BY <2>1 DEF Enters, Untimed, Still, lists
  <2>4. Unblocks({z})
    BY <2>1, <2>3, SameUnblocks DEF Enters
  <2>5. \A u \in Task : LateAt(u)'
    BY <2>2, <2>3, <2>4, OthersLate
  <2>6. QED
    BY <2>4, <2>5 DEF LateInv, Unblocks
<1>2. CASE UNCHANGED queueVars /\ (SysTick \/ SysTickPended \/ vTaskSwitchContext)
  BY <1>2, TickLate, PendLate, InterruptLate
<1>3. CASE \E q \in use.isr : xQueueGiveFromISR(q)
  BY <1>3, InterruptLate
<1>4. ASSUME NEW t \in Task, UNCHANGED queueVars,
             \/ xTaskResumeAll(t) \/ ResumeEnds(t) \/ portYIELD_WITHIN_API(t)
             \/ HeapSuspends(t) \/ vTaskYield(t)
      PROVE  LateInv'
  BY <1>4, PassSteps
<1>5. ASSUME NEW t \in Task, UNCHANGED queueVars,
             \/ ResumeTick(t) \/ DelayAdds(t) \/ DelayEnds(t)
             \/ \E c \in use.calls[t] : vTaskDelay(t, c.wait)
      PROVE  LateInv'
  BY <1>5, TickLate, AddLate, ReturnLate, DelayLate
<1>6. ASSUME NEW t \in Task, \E c \in use.calls[t] : c.queue \in Queue /\ Begin(t, c)
      PROVE  LateInv'
  BY <1>6, BeginLate
<1>7. ASSUME NEW t \in Task,
             \/ SendProceeds(t) \/ GiveProceeds(t) \/ MutexGiveProceeds(t) \/ ReceiveProceeds(t)
             \/ TakeProceeds(t) \/ GivesUp(t) \/ Expired(t) \/ DisinheritAfterTimeout(t)
      PROVE  LateInv'
  BY <1>7, ReturnLate
<1>8. ASSUME NEW t \in Task,
             \/ EntersWait(t) \/ Suspends(t) \/ prvLockQueue(t) \/ CheckForTimeOut(t) \/ Looks(t)
             \/ xTaskPriorityInherit(t) \/ ExpiredLooks(t)
      PROVE  LateInv'
  BY <1>8, PassSteps, EnterLate, CheckLate
<1>9. ASSUME NEW t \in Task, Place(t) \/ prvUnlockQueue(t) \/ prvUnlockQueueRx(t)
      PROVE  LateInv'
  BY <1>9, PlaceLate, PassSteps
<1>10. QED
  BY <1>1, <1>2, <1>3, <1>4, <1>5, <1>6, <1>7, <1>8, <1>9, KernelSteps

\* Nobody oversleeps: while the scheduler is not suspended and no pended ticks are worked off,
\* whoever is in a delayed list has time left.  A task whose call waits for a time has a turn
\* before the tick count has come round (LateAssumption).
THEOREM KernelNoOversleep == KernelSpec => []NoOversleep
<1>1. QueuesInit => LateInv
  BY InitLate
<1>2. CallInv /\ ControlInv /\ TimeInv /\ LateInv /\ [KernelNext]_allVars => LateInv'
  BY NextLate
<1>3. ASSUME ControlInv, TimeInv, LateInv PROVE NoOversleep
  <2> SUFFICES ASSUME uxSchedulerSuspended = 0, ~Critical,
                      NEW t \in pxDelayedTaskList \cup pxOverflowDelayedTaskList
               PROVE  left[t] > 0
    BY DEF NoOversleep
  <2>1. t \in Task
    BY <1>3 DEF ControlInv, ListInv, Blocked
  <2>2. /\ LateAt(t) /\ uxPendedTicks = 0 /\ left[t] \in Int
        /\ xItemValue[t] \in TickType /\ xTickCount \in TickType
    BY <1>3, <2>1 DEF TimeInv, ClockInv, LateInv
  <2>3. Ahead(t) = xItemValue[t] - xTickCount
    BY <2>2 DEF Ahead, TickType
  <2>4. CASE t \in pxDelayedTaskList
    <3>1. xTickCount < xItemValue[t] /\ left[t] >= Ahead(t)
      BY <2>2, <2>4 DEF LateAt
    <3>2. QED
      BY <2>2, <2>3, <3>1 DEF TickType
  <2>5. CASE t \in pxOverflowDelayedTaskList
    <3>1. left[t] >= Ahead(t) + TickModulus
      BY <2>2, <2>5 DEF LateAt
    <3>2. QED
      BY <2>2, <2>3, <3>1, TickAssumption DEF TickType
  <2>6. QED
    BY <2>4, <2>5
<1>4. QED
  BY <1>1, <1>2, <1>3, KernelInvariant, PTL DEF KernelSpec

(***************************************************************************)
(* Waiting lists in the order of priorities.                               *)
(***************************************************************************)

\* List s without some of its tasks is r.
Thinned(r, s) ==
    /\ Range(r) \subseteq Range(s)
    /\ \A i, j \in DOMAIN r : i < j => \E a, b \in DOMAIN s : a < b /\ r[i] = s[a] /\ r[j] = s[b]

\* Sequence e is what is kept of the places D of list s.
KeptFrom(D, e, s, S, T) ==
    /\ e \in Seq(T)
    /\ \A i \in DOMAIN e : \E a \in D : e[i] = s[a]
    /\ \A i, j \in DOMAIN e : i < j => \E a, b \in D : a < b /\ e[i] = s[a] /\ e[j] = s[b]
    /\ \A a \in D : s[a] \notin S => \E i \in DOMAIN e : e[i] = s[a]

\* Who is not to be removed from a list stays there, and the order remains.
LEMMA WithoutThins ==
  ASSUME NEW T, NEW s \in Seq(T), NEW S
  PROVE  Thinned(Without(s, S), s) /\ Range(s) \ S \subseteq Range(Without(s, S))
<1>1. Len(s) \in Nat /\ DOMAIN s = 1 .. Len(s) /\ \A i \in 1 .. Len(s) : s[i] \in T
  BY LenProperties
<1> DEFINE n == Len(s)
           g == CHOOSE f : Kept(f, s, S, n)
<1>2. Without(s, S) = g[n]
  BY DEF Without, Kept
<1>3. Kept(g, s, S, n)
  BY <1>1, KeptExists
<1> HIDE DEF g
<1> DEFINE Bad == {k \in 0 .. n : ~ KeptFrom(1 .. k, g[k], s, S, T)}
<1>4. CASE Bad # {}
  <2>1. PICK k \in Bad : \A c \in Bad : k <= c
    <3>1. Bad \subseteq Nat
      BY <1>1
    <3> HIDE DEF Bad
    <3>2. QED
      BY <1>4, <3>1, LeastNumber
  <2>2. g[k] = IF k = 0 THEN <<>> ELSE IF s[k] \in S THEN g[k - 1] ELSE Append(g[k - 1], s[k])
    BY <1>3, <2>1 DEF Kept
  <2>3. k # 0
    <3> SUFFICES ASSUME k = 0 PROVE FALSE
      OBVIOUS
    <3>1. <<>> \in Seq(T) /\ DOMAIN <<>> = {}
      OBVIOUS
    <3>2. KeptFrom(1 .. 0, <<>>, s, S, T)
      BY <3>1 DEF KeptFrom
    <3>3. QED
      BY <2>1, <2>2, <3>2
  <2>4. k - 1 \in 0 .. n /\ k - 1 \notin Bad /\ k \in 1 .. n
    BY <1>1, <2>1, <2>3
  <2> DEFINE e == g[k - 1]
             h == Append(e, s[k])
  <2>5. KeptFrom(1 .. k - 1, e, s, S, T) /\ s[k] \in T
    BY <1>1, <2>4
  <2>6. g[k] = IF s[k] \in S THEN e ELSE h
    BY <2>2, <2>3
  <2> HIDE DEF e
  <2>7. /\ h \in Seq(T) /\ Len(e) \in Nat /\ DOMAIN e = 1 .. Len(e) /\ DOMAIN h = 1 .. Len(e) + 1
        /\ \A i \in 1 .. Len(e) : h[i] = e[i]
        /\ h[Len(e) + 1] = s[k]
    BY <2>5, AppendProperties, LenProperties DEF KeptFrom, h
  <2> HIDE DEF h
  <2>8. k - 1 \in Nat /\ 1 .. k = (1 .. k - 1) \cup {k}
    BY <2>4
  <2>9. CASE s[k] \in S
    <3>1. KeptFrom(1 .. k, e, s, S, T)
      BY <2>5, <2>8, <2>9 DEF KeptFrom
    <3>2. QED
      BY <2>1, <2>6, <2>9, <3>1
  <2>10. CASE s[k] \notin S
    <3>1. \A i \in DOMAIN h : \E a \in 1 .. k : h[i] = s[a]
      BY <2>5, <2>7, <2>8 DEF KeptFrom
    <3>2. ASSUME NEW i \in DOMAIN h, NEW j \in DOMAIN h, i < j
          PROVE  \E a, b \in 1 .. k : a < b /\ h[i] = s[a] /\ h[j] = s[b]
      <4>1. CASE j \in DOMAIN e
        <5>1. i \in DOMAIN e
          BY <2>7, <3>2, <4>1
        <5>2. PICK a \in 1 .. k - 1, b \in 1 .. k - 1 : a < b /\ e[i] = s[a] /\ e[j] = s[b]
          BY <2>5, <3>2, <4>1, <5>1 DEF KeptFrom
        <5>3. QED
          BY <2>7, <2>8, <4>1, <5>1, <5>2
      <4>2. CASE j \notin DOMAIN e
        <5>1. j = Len(e) + 1 /\ i \in DOMAIN e
          BY <2>7, <3>2, <4>2
        <5>2. PICK a \in 1 .. k - 1 : e[i] = s[a]
          BY <2>5, <5>1 DEF KeptFrom
        <5>3. a \in 1 .. k /\ k \in 1 .. k /\ a < k /\ h[i] = s[a] /\ h[j] = s[k]
          BY <2>7, <2>8, <5>1, <5>2
        <5>4. QED
          BY <5>3
      <4>3. QED
        BY <4>1, <4>2
    <3>3. \A a \in 1 .. k : s[a] \notin S => \E i \in DOMAIN h : h[i] = s[a]
      <4>1. \A i \in DOMAIN e : i \in DOMAIN h /\ h[i] = e[i]
        BY <2>7
      <4>2. Len(e) + 1 \in DOMAIN h
        BY <2>7
      <4>3. QED
        BY <2>5, <2>7, <2>8, <4>1, <4>2 DEF KeptFrom
    <3>4. QED
      <4>1. KeptFrom(1 .. k, h, s, S, T)
        BY <2>7, <3>1, <3>2, <3>3 DEF KeptFrom
      <4>2. QED
        BY <2>1, <2>6, <2>10, <4>1
  <2>11. QED
    BY <2>9, <2>10
<1>5. CASE Bad = {}
  <2>1. n \in 0 .. n /\ n \notin Bad
    BY <1>1, <1>5
  <2>2. KeptFrom(1 .. n, Without(s, S), s, S, T)
    BY <1>2, <2>1
  <2> DEFINE r == Without(s, S)
  <2>3. KeptFrom(DOMAIN s, r, s, S, T)
    BY <1>1, <2>2
  <2> HIDE DEF r
  <2>4. Thinned(r, s)
    BY <2>3 DEF Thinned, Range, KeptFrom
  <2>5. Range(s) \ S \subseteq Range(r)
    BY <1>1, <2>3 DEF Range, KeptFrom
  <2>6. QED
    BY <2>4, <2>5 DEF r
<1>6. QED
  BY <1>4, <1>5

\* The tasks of a list in the order of their own priorities.
Sorted(s) == \A i, j \in DOMAIN s : i < j => uxBasePriority[s[j]] <= uxBasePriority[s[i]]

LEMMA ThinnedSorted == ASSUME NEW r, NEW s, Thinned(r, s), Sorted(s) PROVE Sorted(r)
BY DEF Thinned, Sorted

\* The first of a list has the highest priority, and is the one that is woken first.
LEMMA FirstIsHighest ==
  ASSUME NEW l, event[l] \in Seq(Task), Sorted(event[l]), event[l] # <<>>
  PROVE  \E u \in Range(event[l]) :
             /\ Firsts(l, 1) = {u} /\ u = Head(event[l])
             /\ \A v \in Range(event[l]) : uxBasePriority[v] <= uxBasePriority[u]
<1> DEFINE s == event[l]
<1>1. Len(s) \in Nat \ {0} /\ DOMAIN s = 1 .. Len(s) /\ \A i \in 1 .. Len(s) : s[i] \in Task
  BY LenProperties, EmptySeq
<1>2. Head(s) = s[1] /\ 1 \in DOMAIN s
  BY <1>1
<1>3. Firsts(l, 1) = {s[1]}
  BY <1>1 DEF Firsts
<1>4. ASSUME NEW i \in DOMAIN s PROVE uxBasePriority[s[i]] <= uxBasePriority[s[1]]
  BY <1>1, <1>4, TaskAssumption DEF Sorted
<1>5. QED
  BY <1>2, <1>3, <1>4 DEF Range

\* What a list is with t at place i.
LEMMA Inserted ==
  ASSUME NEW T, NEW s \in Seq(T), NEW t \in T, NEW i \in 1 .. Len(s) + 1
  PROVE  /\ DOMAIN InsertAt(s, i, t) = 1 .. Len(s) + 1
         /\ \A k \in 1 .. i - 1 : InsertAt(s, i, t)[k] = s[k]
         /\ InsertAt(s, i, t)[i] = t
         /\ \A k \in i + 1 .. Len(s) + 1 : InsertAt(s, i, t)[k] = s[k - 1]
<1> DEFINE a == SubSeq(s, 1, i - 1)
           b == <<t>>
           c == SubSeq(s, i, Len(s))
           d == a \o b
           r == d \o c
<1>1. Len(s) \in Nat /\ DOMAIN s = 1 .. Len(s) /\ \A k \in 1 .. Len(s) : s[k] \in T
  BY LenProperties
<1>2. i - 1 \in Nat /\ i - 1 <= Len(s) /\ i \in Nat \ {0}
  BY <1>1
<1>3. a \in Seq(T) /\ Len(a) = i - 1 /\ \A k \in 1 .. i - 1 : a[k] = s[k]
  <2>1. \A k \in 1 .. i - 1 : s[k] \in T
    BY <1>1, <1>2
  <2>2. /\ a \in Seq(T) /\ Len(a) = (IF 1 <= i - 1 THEN i - 1 - 1 + 1 ELSE 0)
        /\ \A k \in 1 .. i - 1 - 1 + 1 : a[k] = s[1 + k - 1]
    BY <1>2, <2>1, SubSeqProperties
  <2> HIDE DEF a
  <2>3. QED
    BY <1>2, <2>2
<1>4. c \in Seq(T) /\ Len(c) = Len(s) - i + 1 /\ \A k \in 1 .. Len(s) - i + 1 : c[k] = s[i + k - 1]
  <2>1. \A k \in i .. Len(s) : s[k] \in T
    BY <1>1, <1>2
  <2>2. /\ c \in Seq(T) /\ Len(c) = (IF i <= Len(s) THEN Len(s) - i + 1 ELSE 0)
        /\ \A k \in 1 .. Len(s) - i + 1 : c[k] = s[i + k - 1]
    BY <1>1, <1>2, <2>1, SubSeqProperties
  <2> HIDE DEF c
  <2>3. QED
    BY <1>1, <1>2, <2>2
<1>5. b \in Seq(T) /\ Len(b) = 1 /\ b[1] = t
  OBVIOUS
<1> HIDE DEF a, b, c
<1>6. /\ d \in Seq(T) /\ Len(d) = i
      /\ \A k \in 1 .. i : d[k] = IF k <= i - 1 THEN a[k] ELSE b[k - (i - 1)]
  <2>1. /\ d \in Seq(T) /\ Len(d) = Len(a) + Len(b)
        /\ \A k \in 1 .. Len(a) + Len(b) : d[k] = IF k <= Len(a) THEN a[k] ELSE b[k - Len(a)]
    BY <1>3, <1>5, ConcatProperties
  <2> HIDE DEF d
  <2>2. QED
    BY <1>2, <1>3, <1>5, <2>1
<1>7. (\A k \in 1 .. i - 1 : d[k] = s[k]) /\ d[i] = t
  <2> HIDE DEF d
  <2>1. i \in 1 .. i /\ i - (i - 1) = 1 /\ ~ (i <= i - 1)
    BY <1>2
  <2>2. \A k \in 1 .. i - 1 : k \in 1 .. i /\ k <= i - 1
    BY <1>2
  <2>3. QED
    BY <1>3, <1>5, <1>6, <2>1, <2>2
<1> HIDE DEF d
<1>8. /\ r \in Seq(T) /\ Len(r) = Len(d) + Len(c)
      /\ \A k \in 1 .. Len(d) + Len(c) : r[k] = IF k <= Len(d) THEN d[k] ELSE c[k - Len(d)]
  BY <1>4, <1>6, ConcatProperties
<1>9. r = InsertAt(s, i, t)
  BY DEF InsertAt, a, b, c, d
<1> HIDE DEF r
<1>10. DOMAIN r = 1 .. Len(s) + 1
  BY <1>1, <1>2, <1>4, <1>6, <1>8, LenProperties
<1>11. \A k \in 1 .. i : r[k] = d[k]
  BY <1>1, <1>2, <1>4, <1>6, <1>8
<1>12. ASSUME NEW k \in i + 1 .. Len(s) + 1 PROVE r[k] = s[k - 1]
  <2>1. r[k] = c[k - i] /\ k - i \in 1 .. Len(s) - i + 1 /\ i + (k - i) - 1 = k - 1
    BY <1>1, <1>2, <1>4, <1>6, <1>8
  <2>2. QED
    BY <1>4, <2>1
<1>13. i \in 1 .. i /\ \A k \in 1 .. i - 1 : k \in 1 .. i
  BY <1>2
<1>14. QED
  BY <1>7, <1>9, <1>10, <1>11, <1>12, <1>13

\* A task that enters a list where everyone has the priority of its own keeps the order, and
\* everyone stays.
LEMMA InOrderSorted ==
  ASSUME NEW s \in Seq(Task), NEW t \in Task, Sorted(s),
         \A u \in Range(s) \cup {t} : uxPriority[u] = uxBasePriority[u]
  PROVE  Sorted(InOrder(s, t)) /\ Range(InOrder(s, t)) = Range(s) \cup {t}
<1> DEFINE lower == {k \in DOMAIN s : uxPriority[s[k]] < uxPriority[t]}
           i == IF lower = {} THEN Len(s) + 1 ELSE CHOOSE j \in lower : \A k \in lower : j <= k
           r == InOrder(s, t)
<1>1. Len(s) \in Nat /\ DOMAIN s = 1 .. Len(s) /\ \A k \in 1 .. Len(s) : s[k] \in Task
  BY LenProperties
<1>2. /\ i \in 1 .. Len(s) + 1
      /\ \A k \in 1 .. i - 1 : ~ (uxPriority[s[k]] < uxPriority[t])
      /\ i <= Len(s) => uxPriority[s[i]] < uxPriority[t]
  <2>1. CASE lower = {}
    BY <1>1, <2>1
  <2>2. CASE lower # {}
    <3>1. lower \subseteq Nat
      BY <1>1
    <3>2. \E j \in lower : \A k \in lower : j <= k
      <4> HIDE DEF lower
      <4>1. QED
        BY <2>2, <3>1, LeastNumber
    <3>3. i \in lower /\ \A k \in lower : i <= k
      <4> HIDE DEF lower
      <4>1. QED
        BY <2>2, <3>2
    <3> HIDE DEF i
    <3>4. QED
      BY <1>1, <3>3
  <2>3. QED
    BY <2>1, <2>2
<1>3. r = InsertAt(s, i, t)
  BY DEF InOrder
<1> HIDE DEF i, r
<1>4. /\ DOMAIN r = 1 .. Len(s) + 1
      /\ \A k \in 1 .. i - 1 : r[k] = s[k]
      /\ r[i] = t
      /\ \A k \in i + 1 .. Len(s) + 1 : r[k] = s[k - 1]
  BY <1>2, <1>3, Inserted
<1>5. \A k \in 1 .. Len(s) : s[k] \in Range(s) /\ uxPriority[s[k]] = uxBasePriority[s[k]]
                              /\ uxBasePriority[s[k]] \in Nat
  BY <1>1, TaskAssumption DEF Range
<1>6. uxPriority[t] = uxBasePriority[t] /\ uxBasePriority[t] \in Nat
  BY TaskAssumption
<1>7. /\ \A k \in 1 .. i - 1 : uxBasePriority[t] <= uxBasePriority[s[k]]
      /\ \A k \in i .. Len(s) : uxBasePriority[s[k]] <= uxBasePriority[t]
  <2>1. ASSUME NEW k \in 1 .. i - 1 PROVE uxBasePriority[t] <= uxBasePriority[s[k]]
    BY <1>1, <1>2, <1>5, <1>6
  <2>2. ASSUME NEW k \in i .. Len(s) PROVE uxBasePriority[s[k]] <= uxBasePriority[t]
    <3>1. k \in 1 .. Len(s) /\ i \in 1 .. Len(s) /\ i <= k
      BY <1>1, <1>2
    <3>2. uxBasePriority[s[k]] <= uxBasePriority[s[i]]
      BY <1>1, <1>5, <3>1 DEF Sorted
    <3>3. uxBasePriority[s[i]] < uxBasePriority[t]
      BY <1>2, <1>5, <1>6, <3>1
    <3>4. QED
      BY <1>5, <1>6, <3>1, <3>2, <3>3
  <2>3. QED
    BY <2>1, <2>2
<1>8. ASSUME NEW j \in DOMAIN r, NEW k \in DOMAIN r, j < k
      PROVE  uxBasePriority[r[k]] <= uxBasePriority[r[j]]
  <2>1. j \in 1 .. Len(s) + 1 /\ k \in 1 .. Len(s) + 1
    BY <1>4
  <2>2. CASE k < i
    BY <1>1, <1>2, <1>4, <1>8, <2>1, <2>2 DEF Sorted
  <2>3. CASE k = i
    BY <1>1, <1>2, <1>4, <1>7, <1>8, <2>1, <2>3
  <2>4. CASE k > i /\ j = i
    BY <1>1, <1>2, <1>4, <1>7, <1>8, <2>1, <2>4
  <2>5. CASE k > i /\ j < i
    <3>1. /\ r[k] = s[k - 1] /\ r[j] = s[j] /\ k - 1 \in i .. Len(s) /\ j \in 1 .. i - 1
          /\ j \in 1 .. Len(s) /\ k - 1 \in 1 .. Len(s) /\ j < k - 1
      BY <1>1, <1>2, <1>4, <2>1, <2>5
    <3>2. QED
      BY <1>1, <3>1 DEF Sorted
  <2>6. CASE k > i /\ j > i
    <3>1. /\ r[k] = s[k - 1] /\ r[j] = s[j - 1]
          /\ j - 1 \in 1 .. Len(s) /\ k - 1 \in 1 .. Len(s) /\ j - 1 < k - 1
      BY <1>1, <1>2, <1>4, <1>8, <2>1, <2>6
    <3>2. QED
      BY <1>1, <3>1 DEF Sorted
  <2>7. QED
    BY <1>2, <2>1, <2>2, <2>3, <2>4, <2>5, <2>6
<1>9. Range(r) = Range(s) \cup {t}
  <2>1. Range(r) \subseteq Range(s) \cup {t}
    BY InOrderAdds DEF r
  <2>2. t \in Range(r)
    BY <1>2, <1>4 DEF Range
  <2>3. ASSUME NEW k \in 1 .. Len(s) PROVE s[k] \in Range(r)
    <3>1. CASE k < i
      BY <1>1, <1>2, <1>4, <3>1 DEF Range
    <3>2. CASE k >= i
      <4>1. k + 1 \in i + 1 .. Len(s) + 1 /\ k + 1 \in DOMAIN r /\ (k + 1) - 1 = k
        BY <1>1, <1>2, <1>4, <3>2
      <4>2. r[k + 1] = s[k]
        BY <1>4, <4>1
      <4>3. QED
        BY <4>1, <4>2 DEF Range
    <3>3. QED
      BY <1>1, <1>2, <3>1, <3>2
  <2>4. QED
    BY <1>1, <2>1, <2>2, <2>3 DEF Range
<1>10. QED
  BY <1>8, <1>9 DEF r, Sorted

-------------------------------------------------------------------------------
(***************************************************************************)
(* The inductive invariant behind NoLostWakeup.                            *)
(***************************************************************************)

\* No task is in two of the state lists.
ListsApart ==
    /\ pxDelayedTaskList \cap pxOverflowDelayedTaskList = {}
    /\ xSuspendedTaskList \cap (pxDelayedTaskList \cup pxOverflowDelayedTaskList) = {}

\* The two sides of a queue that calls wait at, the calls that do, what is there for them, and
\* what interrupts posted while the queue was locked.
Sides == {"receive", "send"}
OpsAt(s) == IF s = "send" THEN {"send"} ELSE {"receive", "take"}
Offer(q, s) == IF s = "send" THEN uxLength[q] - uxMessagesWaiting[q] ELSE uxMessagesWaiting[q]
Posted(q, s) == IF s = "send" THEN cRxLock[q] ELSE cTxLock[q]
Listed(q, s) == Range(event[<<q, s>>])

Asks(t, q, s) == call[t].queue = q /\ call[t].op \in OpsAt(s)

\* The tasks that are sure to look at queue q again before they wait.
Sure(q, s) ==
    {t \in Task : /\ Asks(t, q, s) /\ xEntryTimeSet[t] /\ t \notin Listed(q, s)
                  /\ at[t] = "enter" \/ then[t] = "block"}

\* The wake-ups that unlocking the queue will bring.
Owed(q, s) == IF Posted(q, s) = queueUNLOCKED THEN 0 ELSE Posted(q, s)

\* Where a task is that has locked a queue, for the side's part of prvUnlockQueue.
Lockers(s) ==
    {"check", "test", "inherit", "place", "unlock"} \cup (IF s = "send" THEN {"unlockRx"} ELSE {})

\* Who sleeps or holds the scheduler is in no call; a give does not wait.
CallAt(t) ==
    /\ at[t] \in {"out", "delay", "slept"} \/ then[t] \in {"sleep", "hold"} => call[t].op = "none"
    /\ call[t].op = "give" => at[t] = "enter" /\ xTicksToWait[t] = 0

\* Those that wait at a side of a queue are on its list, once, and the others are not.
ListAt(q, s) ==
    /\ IsInjective(event[<<q, s>>])
    /\ \A t \in Listed(q, s) : Asks(t, q, s) /\ xEntryTimeSet[t]
    /\ \A t \in Blocked \ xPendingReadyList : Asks(t, q, s) => t \in Listed(q, s)

LockAt(q, s) ==
    /\ Posted(q, s) >= queueUNLOCKED
    /\ \A t \in Task : call[t].queue = q /\ at[t] \in Lockers(s) => Posted(q, s) >= 0

\* While somebody waits, for all that is there somebody will look or is going to be woken, and
\* who is about to wait has left to the unlocking whatever came since it looked.
OfferAt(q, s) ==
    /\ Listed(q, s) # {} => Offer(q, s) <= Cardinality(Sure(q, s)) + Owed(q, s)
    /\ \A t \in Task : Asks(t, q, s) /\ at[t] \in {"inherit", "place"} => Offer(q, s) <= Posted(q, s)

WakeInv ==
    /\ ListsApart
    /\ \A t \in Task : CallAt(t)
    /\ \A q \in Queue, s \in Sides : ListAt(q, s) /\ LockAt(q, s) /\ OfferAt(q, s)

-------------------------------------------------------------------------------

\* What is left of a list has everybody once, too.
LEMMA ThinnedOnce ==
  ASSUME NEW T, NEW r \in Seq(T), NEW s \in Seq(T), Thinned(r, s), IsInjective(s)
  PROVE  IsInjective(r)
<1>1. DOMAIN r \subseteq Nat /\ DOMAIN s \subseteq Nat
  BY LenProperties
<1>2. \A i, j \in DOMAIN r : i < j => r[i] # r[j]
  <2> SUFFICES ASSUME NEW i \in DOMAIN r, NEW j \in DOMAIN r, i < j
               PROVE  r[i] # r[j]
    OBVIOUS
  <2>1. PICK a, b \in DOMAIN s : a < b /\ r[i] = s[a] /\ r[j] = s[b]
    BY DEF Thinned
  <2>2. a # b
    BY <1>1, <2>1
  <2>3. QED
    BY <2>1, <2>2 DEF IsInjective
<1>3. QED
  BY <1>1, <1>2 DEF IsInjective

LEMMA InOrderIs ==
  ASSUME NEW s \in Seq(Task), NEW t \in Task
  PROVE  \E i \in 1 .. Len(s) + 1 : InOrder(s, t) = InsertAt(s, i, t)
<1> DEFINE lower == {i \in DOMAIN s : uxPriority[s[i]] < uxPriority[t]}
           i == IF lower = {} THEN Len(s) + 1 ELSE CHOOSE j \in lower : \A k \in lower : j <= k
<1>1. Len(s) \in Nat /\ DOMAIN s = 1 .. Len(s)
  BY LenProperties
<1>2. i \in 1 .. Len(s) + 1
  <2>1. CASE lower = {}
    BY <1>1, <2>1
  <2>2. CASE lower # {}
    <3>1. lower \subseteq Nat /\ lower \subseteq 1 .. Len(s)
      BY <1>1
    <3> HIDE DEF lower
    <3>2. \E j \in lower : \A k \in lower : j <= k
      BY <2>2, <3>1, LeastNumber
    <3>3. i \in lower
      BY <2>2, <3>2
    <3> HIDE DEF i
    <3>4. QED
      BY <1>1, <3>1, <3>3
  <2>3. QED
    BY <2>1, <2>2
<1>3. InOrder(s, t) = InsertAt(s, i, t)
  BY DEF InOrder
<1>4. QED
  BY <1>2, <1>3

\* A task that was not on a list is on it once then, and the others are as before.
LEMMA InOrderOnce ==
  ASSUME NEW s \in Seq(Task), NEW t \in Task, t \notin Range(s), IsInjective(s)
  PROVE  IsInjective(InOrder(s, t)) /\ Range(InOrder(s, t)) = Range(s) \cup {t}
<1>1. Len(s) \in Nat /\ DOMAIN s = 1 .. Len(s)
  BY LenProperties
<1>2. PICK i \in 1 .. Len(s) + 1 : InOrder(s, t) = InsertAt(s, i, t)
  BY InOrderIs
<1> DEFINE r == InOrder(s, t)
<1>3. /\ DOMAIN r = 1 .. Len(s) + 1 /\ r[i] = t
      /\ \A k \in 1 .. i - 1 : r[k] = s[k]
      /\ \A k \in i + 1 .. Len(s) + 1 : r[k] = s[k - 1]
  BY <1>2, Inserted
<1> HIDE DEF r
<1> DEFINE from(k) == IF k < i THEN k ELSE k - 1
<1>4. ASSUME NEW k \in 1 .. Len(s) + 1, k # i
      PROVE  from(k) \in DOMAIN s /\ r[k] = s[from(k)]
  <2>1. CASE k < i
    BY <1>1, <1>3, <2>1
  <2>2. CASE k > i
    BY <1>1, <1>3, <2>2
  <2>3. QED
    BY <1>1, <1>4, <2>1, <2>2
<1>5. \A k \in 1 .. Len(s) + 1 : k # i => r[k] \in Range(s) /\ r[k] # t
  BY <1>4 DEF Range
<1>6. \A j, k \in 1 .. Len(s) + 1 : j # i /\ k # i /\ from(j) = from(k) => j = k
  BY <1>1
<1>7. IsInjective(r)
  <2> SUFFICES ASSUME NEW j \in 1 .. Len(s) + 1, NEW k \in 1 .. Len(s) + 1, r[j] = r[k]
               PROVE  j = k
    BY <1>3 DEF IsInjective
  <2>1. CASE j = i \/ k = i
    BY <1>3, <1>5, <2>1
  <2>2. CASE j # i /\ k # i
    <3> HIDE DEF from
    <3>1. from(j) = from(k)
      BY <1>4, <2>2 DEF IsInjective
    <3>2. QED
      BY <1>6, <2>2, <3>1
  <2>3. QED
    BY <2>1, <2>2
<1>8. Range(r) \subseteq Range(s) \cup {t}
  BY <1>3, <1>5 DEF Range
<1>9. t \in Range(r)
  BY <1>1, <1>3 DEF Range
<1>10. Range(s) \subseteq Range(r)
  <2> SUFFICES ASSUME NEW k \in DOMAIN s PROVE s[k] \in Range(r)
    BY DEF Range
  <2>1. CASE k < i
    <3>1. k \in DOMAIN r /\ r[k] = s[k]
      BY <1>1, <1>3, <2>1
    <3>2. QED
      BY <3>1 DEF Range
  <2>2. CASE k >= i
    <3>1. k + 1 \in DOMAIN r /\ k + 1 \in i + 1 .. Len(s) + 1 /\ (k + 1) - 1 = k
      BY <1>1, <1>3, <2>2
    <3>2. r[k + 1] = s[k]
      BY <1>3, <3>1
    <3>3. QED
      BY <3>1, <3>2 DEF Range
  <2>3. QED
    BY <1>1, <2>1, <2>2
<1>11. QED
  BY <1>7, <1>8, <1>9, <1>10 DEF r

\* The first n tasks of a list that has at least n are n.
LEMMA FirstsCount ==
  ASSUME NEW l, event[l] \in Seq(Task), IsInjective(event[l]), NEW n \in Nat, n <= Len(event[l])
  PROVE  n <= Cardinality(Firsts(l, n))
<1> DEFINE s == event[l]
           F == Firsts(l, n)
           f == [i \in 1 .. n |-> s[i]]
<1>1. Len(s) \in Nat /\ DOMAIN s = 1 .. Len(s)
  BY LenProperties
<1>2. F = {s[i] : i \in 1 .. n}
  <2>1. (IF n < Len(s) THEN n ELSE Len(s)) = n
    BY <1>1
  <2>2. QED
    BY <2>1 DEF Firsts
<1>3. F \subseteq Task
  BY FirstsRange
<1>4. IsFiniteSet(F)
  BY <1>3, TaskAssumption, FS_Subset
<1> HIDE DEF F
<1>5. f \in [1 .. n -> F]
  BY <1>2
<1>6. \A i, j \in 1 .. n : f[i] = f[j] => i = j
  BY <1>1 DEF IsInjective
<1> HIDE DEF f
<1>7. f \in Injection(1 .. n, F)
  BY <1>5, <1>6 DEF Injection, IsInjective
<1>8. Cardinality(1 .. n) <= Cardinality(F)
  BY <1>4, <1>7, FS_Injection
<1>9. Cardinality(1 .. n) = n
  BY FS_Interval
<1>10. QED
  BY <1>8, <1>9 DEF F

-------------------------------------------------------------------------------
(***************************************************************************)
(* What a step of one task does.                                           *)
(***************************************************************************)

\* Only task t moves.
Alone(t) ==
    \A u \in Task : u # t =>
        /\ at'[u] = at[u] /\ then'[u] = then[u] /\ call'[u] = call[u]
        /\ xEntryTimeSet'[u] = xEntryTimeSet[u] /\ xTicksToWait'[u] = xTicksToWait[u]

\* Task t goes on with its call.
GoesOnWith(t) ==
    /\ call'[t] = call[t] /\ xEntryTimeSet'[t] = xEntryTimeSet[t]
    /\ at[t] = "enter" \/ then[t] = "block" => at'[t] = "enter" \/ then'[t] = "block"

\* Nobody enters an event list, whoever leaves one is woken, and nobody else blocks but a task
\* that is in no call.
Thins(t) ==
    /\ ListsApart'
    /\ \A l \in EventList : event'[l] = event[l] \/ \E S : event'[l] = Without(event[l], S)
    /\ \A l \in EventList : \A u \in Range(event[l]) :
           u \in Range(event'[l]) \/ u \in xPendingReadyList' \/ u \notin Blocked'
    /\ \A u \in Blocked' \ xPendingReadyList' :
           u \in Blocked \ xPendingReadyList \/ (u = t /\ call'[t].op = "none")

LEMMA EmptyRange ==
  ASSUME NEW T, NEW s \in Seq(T)
  PROVE  Range(s) = {} <=> s = <<>>
<1>1. Len(s) \in Nat /\ DOMAIN s = 1 .. Len(s) /\ (s # <<>> => Len(s) # 0)
  BY LenProperties, EmptySeq
<1>2. s # <<>> => s[1] \in Range(s)
  BY <1>1 DEF Range
<1>3. s = <<>> => Range(s) = {}
  BY <1>1, EmptySeq DEF Range
<1>4. QED
  BY <1>2, <1>3

LEMMA ListOf ==
  ASSUME ListInv, NEW q \in Queue, NEW s \in Sides
  PROVE  /\ <<q, s>> \in EventList /\ event[<<q, s>>] \in Seq(Task)
         /\ Listed(q, s) \subseteq Task /\ (Listed(q, s) = {} <=> event[<<q, s>>] = <<>>)
<1>1. <<q, s>> \in EventList
  BY QueueAssumption DEF Sides
<1>2. event[<<q, s>>] \in Seq(Task)
  BY <1>1 DEF ListInv
<1>3. Range(event[<<q, s>>]) \subseteq Task
  BY <1>2, RangeOfSeq
<1>4. Range(event[<<q, s>>]) = {} <=> event[<<q, s>>] = <<>>
  BY <1>2, EmptyRange
<1>5. QED
  BY <1>1, <1>2, <1>3, <1>4 DEF Listed

\* Lists only get shorter.
LEMMA ThinsLists ==
  ASSUME ListInv, ListInv', NEW t, Thins(t), NEW q \in Queue, NEW s \in Sides
  PROVE  /\ Listed(q, s)' \subseteq Listed(q, s)
         /\ IsInjective(event[<<q, s>>]) => IsInjective(event'[<<q, s>>])
<1> DEFINE l == <<q, s>>
<1>1. l \in EventList /\ event[l] \in Seq(Task) /\ event'[l] \in Seq(Task)
  BY ListOf DEF ListInv
<1>2. CASE event'[l] = event[l]
  BY <1>2 DEF Listed
<1>3. CASE \E S : event'[l] = Without(event[l], S)
  <2>1. Thinned(event'[l], event[l])
    BY <1>1, <1>3, WithoutThins
  <2>2. Range(event'[l]) \subseteq Range(event[l])
    BY <2>1 DEF Thinned
  <2>3. IsInjective(event[l]) => IsInjective(event'[l])
    BY <1>1, <2>1, ThinnedOnce
  <2>4. QED
    BY <2>2, <2>3 DEF Listed
<1>4. QED
  BY <1>1, <1>2, <1>3 DEF Thins

LEMMA ThinsAt ==
  ASSUME ListInv, ListInv', NEW t \in Task, Alone(t), Thins(t),
         t \notin Blocked \/ (call'[t] = call[t] /\ xEntryTimeSet'[t] = xEntryTimeSet[t]),
         NEW q \in Queue, NEW s \in Sides, ListAt(q, s)
  PROVE  ListAt(q, s)'
<1>1. <<q, s>> \in EventList /\ Listed(q, s) \subseteq Task /\ Listed(q, s) \subseteq Blocked
  BY ListOf, OnEventIs DEF ListInv, Listed
<1>2. Listed(q, s)' \subseteq Listed(q, s) /\ IsInjective(event'[<<q, s>>])
  BY ThinsLists DEF ListAt
<1>3. ASSUME NEW u \in Listed(q, s)' PROVE Asks(u, q, s)' /\ xEntryTimeSet'[u]
  <2>1. u \in Task /\ u \in Blocked /\ Asks(u, q, s) /\ xEntryTimeSet[u]
    BY <1>1, <1>2, <1>3 DEF ListAt
  <2>2. call'[u] = call[u] /\ xEntryTimeSet'[u] = xEntryTimeSet[u]
    BY <2>1 DEF Alone
  <2>3. QED
    BY <2>1, <2>2 DEF Asks
<1>4. ASSUME NEW u \in Blocked' \ xPendingReadyList', Asks(u, q, s)' PROVE u \in Listed(q, s)'
  <2>1. call'[u].op # "none"
    BY <1>4 DEF Asks, OpsAt
  <2>2. u \in Blocked \ xPendingReadyList
    BY <1>4, <2>1 DEF Thins
  <2>3. u \in Task /\ call'[u] = call[u]
    BY <2>2 DEF Alone, ListInv
  <2>4. u \in Listed(q, s)
    BY <1>4, <2>2, <2>3 DEF ListAt, Asks
  <2>5. QED
    BY <1>1, <1>4, <2>4 DEF Thins, Listed
<1>5. QED
  BY <1>2, <1>3, <1>4 DEF ListAt

\* Who was sure to look again still is, and so is who has been taken off the list.
LEMMA ThinsSure ==
  ASSUME ListInv, ListInv', PlaceInv, NEW t \in Task, Alone(t), Thins(t),
         NEW q \in Queue, NEW s \in Sides, ListAt(q, s),
         NEW u \in Task, u # t \/ GoesOnWith(t),
         u \in Sure(q, s) \/ u \in Listed(q, s) \ Listed(q, s)'
  PROVE  u \in Sure(q, s)'
<1>1. Listed(q, s)' \subseteq Listed(q, s)
  BY ThinsLists
<1>2. Asks(u, q, s) /\ xEntryTimeSet[u] /\ u \notin Listed(q, s)'
  BY <1>1 DEF Sure, ListAt
<1>3. at[u] = "enter" \/ then[u] = "block"
  <2>1. CASE u \in Sure(q, s)
    BY <2>1 DEF Sure
  <2>2. CASE u \in Listed(q, s)
    <3>1. u \in OnEvent
      BY <2>2, ListOf, OnEventIs DEF Listed
    <3>2. QED
      BY <3>1 DEF PlaceInv
  <2>3. QED
    BY <2>1, <2>2
<1>4. /\ call'[u] = call[u] /\ xEntryTimeSet'[u] = xEntryTimeSet[u]
      /\ at'[u] = "enter" \/ then'[u] = "block"
  BY <1>3 DEF Alone, GoesOnWith
<1>5. QED
  BY <1>2, <1>4 DEF Sure, Asks

LEMMA SureCount ==
  ASSUME NEW A, A \subseteq Task, NEW B, B \subseteq Task
  PROVE  /\ IsFiniteSet(A) /\ Cardinality(A) \in Nat
         /\ A \subseteq B => Cardinality(A) <= Cardinality(B)
         /\ \A u : A \ {u} \subseteq B => Cardinality(A) <= Cardinality(B) + 1
         /\ \A u : u \notin A /\ A \cup {u} \subseteq B => Cardinality(A) + 1 <= Cardinality(B)
<1>1. IsFiniteSet(A) /\ IsFiniteSet(B)
  BY TaskAssumption, FS_Subset
<1>2. Cardinality(A) \in Nat /\ Cardinality(B) \in Nat
  BY <1>1, FS_CardinalityType
<1>3. A \subseteq B => Cardinality(A) <= Cardinality(B)
  BY <1>1, FS_Subset
<1>4. ASSUME NEW u, A \ {u} \subseteq B PROVE Cardinality(A) <= Cardinality(B) + 1
  <2>1. Cardinality(A \ {u}) <= Cardinality(B)
    BY <1>1, <1>4, FS_Subset
  <2>2. Cardinality(A \ {u}) = (IF u \in A THEN Cardinality(A) - 1 ELSE Cardinality(A))
    BY <1>1, FS_RemoveElement
  <2>3. QED
    BY <1>2, <2>1, <2>2
<1>5. ASSUME NEW u, u \notin A, A \cup {u} \subseteq B PROVE Cardinality(A) + 1 <= Cardinality(B)
  <2>1. Cardinality(A \cup {u}) <= Cardinality(B)
    BY <1>1, <1>5, FS_Subset
  <2>2. Cardinality(A \cup {u}) = Cardinality(A) + 1
    BY <1>1, <1>5, FS_AddElement
  <2>3. QED
    BY <2>1, <2>2
<1>6. QED
  BY <1>1, <1>2, <1>3, <1>4, <1>5

\* Two sets of tasks that have none in common.
LEMMA UnionCount ==
  ASSUME NEW A, A \subseteq Task, NEW B, B \subseteq Task, B \cap A = {}
  PROVE  Cardinality(A \cup B) = Cardinality(A) + Cardinality(B)
<1>1. IsFiniteSet(A) /\ IsFiniteSet(B) /\ Cardinality(A) \in Nat /\ Cardinality(B) \in Nat
  BY SureCount
<1>2. Cardinality(A \cup B) = Cardinality(A) + Cardinality(B) - Cardinality(A \cap B)
  BY <1>1, FS_Union
<1>3. A \cap B = {}
  OBVIOUS
<1>4. Cardinality(A \cap B) = 0
  BY <1>3, FS_EmptySet
<1>5. QED
  BY <1>1, <1>2, <1>4

\* What the invariants say of the types.
LEMMA WakeTypes ==
  ASSUME CallInv, ControlInv, TimeInv, RingInv, NEW q \in Queue, NEW s \in Sides
  PROVE  /\ Offer(q, s) \in Nat /\ Posted(q, s) \in Int
         /\ Sure(q, s) \subseteq Task /\ Cardinality(Sure(q, s)) \in Nat
         /\ xTicksToWait \in [Task -> TickType] /\ xEntryTimeSet \in [Task -> BOOLEAN]
<1>1. Offer(q, s) \in Nat
  BY OneRing DEF Offer
<1>2. Posted(q, s) \in Int
  BY DEF Posted, ControlInv, ListInv
<1>3. Sure(q, s) \subseteq Task
  BY DEF Sure
<1>4. Cardinality(Sure(q, s)) \in Nat
  BY <1>3, SureCount
<1>5. QED
  BY <1>1, <1>2, <1>3, <1>4 DEF TimeInv, ClockInv

Before == CallInv /\ ControlInv /\ TimeInv /\ RingInv

LEMMA NextOffer ==
  ASSUME Before', NEW q \in Queue, NEW s \in Sides
  PROVE  Offer(q, s)' \in Nat
<1>1. uxMessagesWaiting'[q] \in Nat /\ uxMessagesWaiting'[q] <= uxLength[q] /\ uxLength[q] \in Nat
  BY QueueAssumption DEF Before, RingInv
<1>2. QED
  BY <1>1 DEF Offer

\* The invariant after a step of the task that runs, from what the step does to each side.
LEMMA StepWake ==
  ASSUME Before, Before', WakeInv, NEW t, t = pxCurrentTCB, Alone(t), ListsApart', CallAt(t)',
         \A q \in Queue, s \in Sides :
             /\ ListAt(q, s)'
             /\ Posted(q, s)' >= queueUNLOCKED
             /\ call'[t].queue = q /\ at'[t] \in Lockers(s) => Posted(q, s)' >= 0
             /\ Asks(t, q, s)' /\ at'[t] \in {"inherit", "place"} => Offer(q, s)' <= Posted(q, s)'
             /\ Listed(q, s)' # {} => Offer(q, s)' <= Cardinality(Sure(q, s)') + Owed(q, s)'
  PROVE  WakeInv'
<1>1. ASSUME NEW u \in Task PROVE CallAt(u)'
  <2>1. CASE u = t
    BY <2>1
  <2>2. CASE u # t
    BY <2>2 DEF Alone, CallAt, WakeInv
  <2>3. QED
    BY <2>1, <2>2
<1>2. \A u \in Task : u # t => at'[u] \notin InSuspension
  BY DEF Alone, Before, ControlInv, RunInv
<1>3. ASSUME NEW q \in Queue, NEW s \in Sides PROVE LockAt(q, s)' /\ OfferAt(q, s)'
  <2>1. Lockers(s) \subseteq InSuspension /\ {"inherit", "place"} \subseteq InSuspension
    BY DEF Lockers, InSuspension
  <2>2. LockAt(q, s)'
    BY <1>2, <1>3, <2>1 DEF LockAt
  <2>3. OfferAt(q, s)'
    BY <1>2, <1>3, <2>1 DEF OfferAt
  <2>4. QED
    BY <2>2, <2>3
<1>4. QED
  BY <1>1, <1>3 DEF WakeInv

\* What is there still finds its taker: whoever was sure to look still is, but for a task that
\* has taken an item, or has seen that none is there.
LEMMA OfferKept ==
  ASSUME Before, Before', NEW q \in Queue, NEW s \in Sides, LockAt(q, s), OfferAt(q, s),
         Posted(q, s)' >= queueUNLOCKED, Listed(q, s)' # {} => Listed(q, s) # {},
         Offer(q, s)' + Owed(q, s) <= Offer(q, s) + Owed(q, s)',
         NEW t,
         \A u \in Sure(q, s) :
             \/ u \in Sure(q, s)'
             \/ Offer(q, s)' = 0
             \/ u = t /\ Offer(q, s)' + 1 + Owed(q, s) <= Offer(q, s) + Owed(q, s)'
  PROVE  Listed(q, s)' # {} => Offer(q, s)' <= Cardinality(Sure(q, s)') + Owed(q, s)'
<1>1. /\ Offer(q, s) \in Nat /\ Posted(q, s) \in Int
      /\ Sure(q, s) \subseteq Task /\ Cardinality(Sure(q, s)) \in Nat
  BY WakeTypes DEF Before
<1>2. Offer(q, s)' \in Nat /\ Posted(q, s)' \in Int
  BY NextOffer DEF Before, Posted, ControlInv, ListInv
<1>3. Sure(q, s)' \subseteq Task
  BY DEF Sure
<1>4. Cardinality(Sure(q, s)') \in Nat
  BY <1>3, SureCount
<1>5. Owed(q, s) \in Nat /\ Owed(q, s)' \in Nat
  BY <1>1, <1>2 DEF Owed, LockAt, queueUNLOCKED
<1>6. SUFFICES ASSUME Listed(q, s)' # {}, Offer(q, s)' # 0
               PROVE  Offer(q, s)' <= Cardinality(Sure(q, s)') + Owed(q, s)'
  BY <1>2, <1>4, <1>5
<1>7. Offer(q, s) <= Cardinality(Sure(q, s)) + Owed(q, s)
  BY <1>6 DEF OfferAt
<1>8. CASE Sure(q, s) \subseteq Sure(q, s)'
  <2>1. Cardinality(Sure(q, s)) <= Cardinality(Sure(q, s)')
    BY <1>1, <1>3, <1>8, SureCount
  <2>2. QED
    BY <1>1, <1>2, <1>4, <1>5, <1>7, <2>1
<1>9. CASE ~(Sure(q, s) \subseteq Sure(q, s)')
  <2>1. Sure(q, s) \ {t} \subseteq Sure(q, s)'
    BY <1>6
  <2>2. Offer(q, s)' + 1 + Owed(q, s) <= Offer(q, s) + Owed(q, s)'
    BY <1>6, <1>9
  <2>3. Cardinality(Sure(q, s)) <= Cardinality(Sure(q, s)') + 1
    BY <1>1, <1>3, <2>1, SureCount
  <2>4. QED
    BY <1>1, <1>2, <1>4, <1>5, <1>7, <2>2, <2>3
<1>10. QED
  BY <1>8, <1>9

\* One more is there, and somebody has been taken off the list for it.
LEMMA OfferServed ==
  ASSUME Before, Before', NEW q \in Queue, NEW s \in Sides, OfferAt(q, s),
         Owed(q, s)' = Owed(q, s), Owed(q, s) \in Nat, Offer(q, s)' = Offer(q, s) + 1,
         Sure(q, s) \subseteq Sure(q, s)', NEW u \in Sure(q, s)', u \notin Sure(q, s),
         Listed(q, s) # {}
  PROVE  Offer(q, s)' <= Cardinality(Sure(q, s)') + Owed(q, s)'
<1>1. Offer(q, s) \in Nat /\ Sure(q, s) \subseteq Task /\ Cardinality(Sure(q, s)) \in Nat
  BY WakeTypes DEF Before
<1>2. Sure(q, s)' \subseteq Task
  BY DEF Sure
<1>3. Cardinality(Sure(q, s)') \in Nat
  BY <1>2, SureCount
<1>4. Offer(q, s) <= Cardinality(Sure(q, s)) + Owed(q, s)
  BY DEF OfferAt
<1>5. Cardinality(Sure(q, s)) + 1 <= Cardinality(Sure(q, s)')
  BY <1>1, <1>2, SureCount
<1>6. QED
  BY <1>1, <1>3, <1>4, <1>5

\* A step that leaves the queues alone but for a lock: who was sure to look still is, or has
\* seen that nothing is there.
LEMMA QuietWake ==
  ASSUME Before, Before', WakeInv, NEW t \in Task, t = pxCurrentTCB, Alone(t), Thins(t), CallAt(t)',
         UNCHANGED uxMessagesWaiting,
         \/ GoesOnWith(t)
         \/ /\ t \notin Blocked
            /\ \A q \in Queue, s \in Sides : t \in Sure(q, s) => Offer(q, s) = 0,
         \A q \in Queue, s \in Sides :
             /\ Posted(q, s)' = Posted(q, s) \/ (Posted(q, s) = queueUNLOCKED /\ Posted(q, s)' = 0)
             /\ call'[t].queue = q /\ at'[t] \in Lockers(s) => Posted(q, s)' >= 0
             /\ Asks(t, q, s)' /\ at'[t] \in {"inherit", "place"} => Offer(q, s) <= Posted(q, s)
  PROVE  WakeInv'
<1>1. ListsApart'
  BY DEF Thins
<1>2. ASSUME NEW q \in Queue, NEW s \in Sides
      PROVE  /\ ListAt(q, s)'
             /\ Posted(q, s)' >= queueUNLOCKED
             /\ Asks(t, q, s)' /\ at'[t] \in {"inherit", "place"} => Offer(q, s)' <= Posted(q, s)'
             /\ Listed(q, s)' # {} => Offer(q, s)' <= Cardinality(Sure(q, s)') + Owed(q, s)'
  <2>1. ListInv /\ ListInv' /\ PlaceInv /\ ListAt(q, s) /\ LockAt(q, s) /\ OfferAt(q, s)
    BY DEF Before, ControlInv, WakeInv
  <2>2. ListAt(q, s)' /\ Listed(q, s)' \subseteq Listed(q, s)
    BY <2>1, ThinsAt, ThinsLists DEF GoesOnWith
  <2>3. /\ Offer(q, s) \in Nat /\ Posted(q, s) \in Int /\ Cardinality(Sure(q, s)) \in Nat
        /\ Sure(q, s) \subseteq Task
    BY WakeTypes DEF Before
  <2>4. Offer(q, s)' = Offer(q, s)
    BY DEF Offer
  <2>5. Posted(q, s)' \in Int /\ Posted(q, s)' >= Posted(q, s) /\ Posted(q, s)' >= queueUNLOCKED
        /\ Owed(q, s)' = Owed(q, s) /\ Owed(q, s) \in Nat
    <3>1. Posted(q, s) >= -1
      BY <2>1 DEF LockAt, queueUNLOCKED
    <3>2. QED
      BY <2>3, <3>1 DEF Owed, queueUNLOCKED
  <2>6. ASSUME NEW u \in Sure(q, s) PROVE u \in Sure(q, s)' \/ Offer(q, s)' = 0
    <3>1. CASE u # t \/ GoesOnWith(t)
      BY <2>1, <2>3, <2>6, <3>1, ThinsSure
    <3>2. CASE u = t /\ ~GoesOnWith(t)
      BY <2>4, <2>6, <3>2
    <3>3. QED
      BY <3>1, <3>2
  <2>7. Offer(q, s)' + Owed(q, s) <= Offer(q, s) + Owed(q, s)'
    BY <2>3, <2>4, <2>5
  <2>8. Listed(q, s)' # {} => Offer(q, s)' <= Cardinality(Sure(q, s)') + Owed(q, s)'
    BY <2>1, <2>2, <2>5, <2>6, <2>7, OfferKept
  <2>9. Asks(t, q, s)' /\ at'[t] \in {"inherit", "place"} => Offer(q, s)' <= Posted(q, s)'
    BY <2>3, <2>4, <2>5
  <2>10. QED
    BY <2>2, <2>5, <2>8, <2>9
<1>3. QED
  BY <1>1, <1>2, StepWake

-------------------------------------------------------------------------------
(***************************************************************************)
(* Steps that leave the lists alone.                                       *)
(***************************************************************************)

LEMMA SameThins ==
  ASSUME ListsApart, UNCHANGED <<lists, event, xPendingReadyList>>, NEW t
  PROVE  Thins(t)
BY DEF Thins, ListsApart, lists, Blocked

\* A step of task t that takes no lock, and none that it has with it.
LEMMA MoveWake ==
  ASSUME Before, Before', WakeInv, NEW t \in Task, t = pxCurrentTCB, Alone(t), CallAt(t)',
         UNCHANGED <<lists, event, xPendingReadyList, uxMessagesWaiting, locks>>,
         at'[t] \notin Lockers("send"),
         \/ GoesOnWith(t)
         \/ /\ t \notin Blocked
            /\ \A q \in Queue, s \in Sides : t \in Sure(q, s) => Offer(q, s) = 0
  PROVE  WakeInv'
<1>1. Thins(t)
  BY SameThins DEF WakeInv
<1>2. \A q \in Queue, s \in Sides : Posted(q, s)' = Posted(q, s) /\ at'[t] \notin Lockers(s)
  BY DEF Posted, locks, Lockers
<1>3. at'[t] \notin {"inherit", "place"}
  BY DEF Lockers
<1>4. QED
  BY <1>1, <1>2, <1>3, QuietWake

\* Who runs, and is neither about to look nor on its way into the wait, is not among the sure.
LEMMA NotSure ==
  ASSUME Before, NEW t \in Task, at[t] \in InWait \cup {"out", "slept", "expired", "disinherit"}
  PROVE  /\ then[t] = "none" /\ at[t] # "enter"
         /\ \A q \in Queue, s \in Sides : t \notin Sure(q, s)
<1>1. then[t] = "none"
  BY FollowUpsAre DEF Before, ControlInv, PlaceInv
<1>2. at[t] # "enter"
  BY DEF InWait
<1>3. QED
  BY <1>1, <1>2 DEF Sure

\* A call that is stuck finds nothing on its side.
LEMMA StuckOffer ==
  ASSUME Before, NEW t \in Task, Stuck(t), NEW q \in Queue, NEW s \in Sides, Asks(t, q, s)
  PROVE  Offer(q, s) = 0
<1>1. uxLength[q] \in Nat /\ uxMessagesWaiting[q] \in 0 .. uxLength[q]
  BY OneRing DEF Before
<1>2. QED
  BY <1>1 DEF Stuck, Asks, OpsAt, Sides, Full, Empty, Offer

LEMMA ReturnWake ==
  ASSUME Before, Before', WakeInv, NEW t \in Task,
         GivesUp(t) \/ Expired(t) \/ DisinheritAfterTimeout(t)
  PROVE  WakeInv'
<1>1. Runs(t) /\ Returns(t) /\ at[t] \in {"enter", "expired", "disinherit"}
  BY DEF GivesUp, Expired, DisinheritAfterTimeout
<1>2. /\ t = pxCurrentTCB /\ at \in [Task -> Places] /\ t \notin Blocked
      /\ then[t] = "none"
  <2>1. /\ t = pxCurrentTCB /\ at \in [Task -> Places] /\ then[t] \in FollowUps(at[t])
    BY <1>1, Whereabouts DEF Before
  <2>2. then[t] = "none"
    BY <1>1, <2>1, FollowUpsAre
  <2>3. t \notin Blocked
    BY <1>1, <2>2, AwakeRuns DEF Before
  <2>4. QED
    BY <2>1, <2>2, <2>3
<1>3. UNCHANGED <<lists, event, xPendingReadyList, uxMessagesWaiting, locks, then>>
  BY DEF GivesUp, Expired, DisinheritAfterTimeout, Returns
<1>4. /\ xTicksToWait \in [Task -> TickType] /\ xEntryTimeSet \in [Task -> BOOLEAN]
      /\ call \in [Task -> {NoCall} \cup {c \in AllCalls : c.queue \in Queue}]
  BY DEF Before, TimeInv, ClockInv, CallInv
<1>5. Alone(t) /\ at'[t] = "out" /\ call'[t] = NoCall
  BY <1>1, <1>2, <1>3, <1>4 DEF Alone, Returns, Goes
<1>6. CallAt(t)'
  BY <1>5 DEF CallAt, NoCall
<1>7. ASSUME NEW q \in Queue, NEW s \in Sides, t \in Sure(q, s) PROVE Offer(q, s) = 0
  <2>1. at[t] = "enter" /\ Asks(t, q, s)
    BY <1>2, <1>7 DEF Sure
  <2>2. Stuck(t)
    BY <2>1 DEF GivesUp, Expired, DisinheritAfterTimeout
  <2>3. QED
    BY <2>1, <2>2, StuckOffer
<1>8. at'[t] \notin Lockers("send")
  BY <1>5 DEF Lockers
<1>9. QED
  BY <1>2, <1>3, <1>5, <1>6, <1>7, <1>8, MoveWake

LEMMA BeginWake ==
  ASSUME Before, Before', WakeInv, NEW t \in Task, NEW c \in use.calls[t], c.queue \in Queue, Begin(t, c)
  PROVE  WakeInv'
<1>1. Runs(t) /\ at[t] = "out"
  BY DEF Begin
<1>2. /\ t = pxCurrentTCB /\ at \in [Task -> Places] /\ t \notin Blocked
      /\ then[t] = "none"
  <2>1. /\ t = pxCurrentTCB /\ at \in [Task -> Places]
    BY <1>1, Whereabouts DEF Before
  <2>2. then[t] = "none"
    BY <1>1, NotSure
  <2>3. t \notin Blocked
    BY <1>1, <2>2, AwakeRuns DEF Before
  <2>4. QED
    BY <2>1, <2>2, <2>3
<1>3. UNCHANGED <<lists, event, xPendingReadyList, uxMessagesWaiting, locks, then, xEntryTimeSet>>
  BY DEF Begin, waits
<1>4. /\ xTicksToWait \in [Task -> TickType]
      /\ call \in [Task -> {NoCall} \cup {d \in AllCalls : d.queue \in Queue}]
  BY DEF Before, TimeInv, ClockInv, CallInv
<1>5. /\ Alone(t) /\ at'[t] = "enter" /\ call'[t] = c /\ xTicksToWait'[t] = c.wait
      /\ then'[t] = "none"
  BY <1>2, <1>3, <1>4 DEF Alone, Begin, Goes
<1>6. c.op = "give" => c.wait = 0
  BY QueueAssumption DEF Before, CallInv
<1>7. CallAt(t)'
  BY <1>5, <1>6 DEF CallAt
<1>8. \A q \in Queue, s \in Sides : t \notin Sure(q, s)
  BY <1>1, NotSure
<1>9. at'[t] \notin Lockers("send")
  BY <1>5 DEF Lockers
<1>10. QED
  BY <1>2, <1>3, <1>5, <1>7, <1>8, <1>9, MoveWake

LEMMA EnterWake ==
  ASSUME Before, Before', WakeInv, NEW t \in Task, EntersWait(t)
  PROVE  WakeInv'
<1>1. Runs(t) /\ at[t] = "enter" /\ Stuck(t) /\ xTicksToWait[t] > 0
  BY DEF EntersWait
<1>2. /\ t = pxCurrentTCB /\ at \in [Task -> Places] /\ t \notin Blocked
      /\ then[t] = "none" /\ call[t].op # "none"
  <2>1. /\ t = pxCurrentTCB /\ at \in [Task -> Places] /\ then[t] \in FollowUps(at[t])
        /\ (at[t] \in InCall => call[t].op # "none")
    BY <1>1, Whereabouts DEF Before
  <2>2. then[t] = "none"
    BY <1>1, <2>1, FollowUpsAre
  <2>3. t \notin Blocked
    BY <1>1, <2>2, AwakeRuns DEF Before
  <2>4. QED
    BY <1>1, <2>1, <2>2, <2>3 DEF InCall
<1>3. UNCHANGED <<lists, event, xPendingReadyList, uxMessagesWaiting, locks, then, call, xTicksToWait>>
  BY DEF EntersWait
<1>4. xEntryTimeSet \in [Task -> BOOLEAN]
  BY DEF Before, TimeInv, ClockInv
<1>5. \A u \in Task : u # t => xEntryTimeSet'[u] = xEntryTimeSet[u]
  BY <1>4 DEF EntersWait
<1>6. Alone(t) /\ at'[t] = "suspend"
  BY <1>2, <1>3, <1>5 DEF Alone, EntersWait, Goes
<1>7. CallAt(t)'
  <2>1. call[t].op # "give"
    BY <1>1 DEF WakeInv, CallAt
  <2>2. QED
    BY <1>2, <1>3, <1>6, <2>1 DEF CallAt
<1>8. ASSUME NEW q \in Queue, NEW s \in Sides, t \in Sure(q, s) PROVE Offer(q, s) = 0
  BY <1>1, <1>8, StuckOffer DEF Sure
<1>9. at'[t] \notin Lockers("send")
  BY <1>6 DEF Lockers
<1>10. QED
  BY <1>2, <1>3, <1>6, <1>7, <1>8, <1>9, MoveWake

\* A step by which task t goes on with what it does.
LEMMA OnwardWake ==
  ASSUME Before, Before', WakeInv, NEW t \in Task, Runs(t), at[t] # "enter", NEW a, NEW b,
         at' = [at EXCEPT ![t] = a], then' = [then EXCEPT ![t] = b],
         UNCHANGED <<lists, event, xPendingReadyList, uxMessagesWaiting, locks, call, xEntryTimeSet>>,
         \A u \in Task : u # t => xTicksToWait'[u] = xTicksToWait[u],
         a \notin Lockers("send"), then[t] = "block" => a = "enter" \/ b = "block",
         a \in {"out", "delay", "slept"} \/ b \in {"sleep", "hold"} => call[t].op = "none"
  PROVE  WakeInv'
<1>1. /\ t = pxCurrentTCB /\ at \in [Task -> Places]
      /\ then \in [Task -> {"none", "sleep", "hold"} \cup InTurn]
  BY Whereabouts DEF Before
<1>2. at'[t] = a /\ then'[t] = b
  BY <1>1
<1>3. Alone(t)
  BY <1>1 DEF Alone
<1>4. GoesOnWith(t)
  BY <1>2 DEF GoesOnWith
<1>5. CallAt(t)'
  <2>1. call[t].op # "give"
    BY DEF WakeInv, CallAt
  <2>2. QED
    BY <1>2, <2>1 DEF CallAt
<1>6. QED
  BY <1>1, <1>2, <1>3, <1>4, <1>5, MoveWake

LEMMA OnwardSteps ==
  ASSUME Before, Before', WakeInv, NEW t \in Task,
         \/ Suspends(t) \/ ExpiredLooks(t)
         \/ /\ UNCHANGED queueVars
            /\ \/ ResumeEnds(t) \/ portYIELD_WITHIN_API(t) \/ DelayEnds(t) \/ HeapSuspends(t)
               \/ \E n : vTaskDelay(t, n)
  PROVE  WakeInv'
<1>1. /\ Runs(t) /\ UNCHANGED <<call, xEntryTimeSet, uxMessagesWaiting, locks>>
      /\ UNCHANGED <<lists, event, xPendingReadyList>>
  BY DEF Suspends, ExpiredLooks, StepUnchanged, queueVars, waits, ResumeEnds, portYIELD_WITHIN_API,
         DelayEnds, HeapSuspends, vTaskDelay, vTaskSuspendAll
<1>2. /\ t = pxCurrentTCB /\ at \in [Task -> Places]
      /\ then \in [Task -> {"none", "sleep", "hold"} \cup InTurn]
      /\ then = [then EXCEPT ![t] = then[t]] /\ then[t] \in FollowUps(at[t])
      /\ xTicksToWait \in [Task -> TickType]
  BY <1>1, Whereabouts DEF Before, TimeInv, ClockInv
<1>3. CallAt(t)
  BY DEF WakeInv
<1>4. CASE Suspends(t)
  <2>1. at[t] = "suspend" /\ at' = [at EXCEPT ![t] = "lock"] /\ UNCHANGED <<then, xTicksToWait>>
    BY <1>4 DEF Suspends, vTaskSuspendAll, Goes
  <2>2. then[t] = "none"
    BY <1>2, <2>1, FollowUpsAre DEF InWait
  <2>3. "lock" \notin Lockers("send")
    BY DEF Lockers
  <2>4. QED
    BY <1>1, <1>2, <2>1, <2>2, <2>3, OnwardWake
<1>5. CASE ExpiredLooks(t)
  <2>1. PICK a \in {"enter", "disinherit"} :
           at[t] = "expired" /\ at' = [at EXCEPT ![t] = a] /\ UNCHANGED <<then, xTicksToWait>>
    BY <1>5 DEF ExpiredLooks, Goes
  <2>2. then[t] = "none"
    BY <1>2, <2>1, FollowUpsAre
  <2>3. a \notin Lockers("send")
    BY DEF Lockers
  <2>4. QED
    BY <1>1, <1>2, <2>1, <2>2, <2>3, OnwardWake
<1>6. CASE HeapSuspends(t)
  <2>1. /\ at[t] = "out" /\ at' = [at EXCEPT ![t] = "resume"] /\ then' = [then EXCEPT ![t] = "hold"]
        /\ UNCHANGED xTicksToWait
    BY <1>6 DEF HeapSuspends, vTaskSuspendAll, Goes
  <2>2. then[t] = "none" /\ call[t].op = "none"
    BY <1>2, <1>3, <2>1, FollowUpsAre DEF CallAt
  <2>3. "resume" \notin Lockers("send")
    BY DEF Lockers
  <2>4. QED
    BY <1>1, <1>2, <2>1, <2>2, <2>3, OnwardWake
<1>7. CASE \E n : vTaskDelay(t, n)
  <2>1. PICK n : vTaskDelay(t, n)
    BY <1>7
  <2>2. /\ at[t] = "out" /\ at' = [at EXCEPT ![t] = "delay"] /\ then' = [then EXCEPT ![t] = "sleep"]
        /\ xTicksToWait' = [xTicksToWait EXCEPT ![t] = n]
    BY <2>1 DEF vTaskDelay, vTaskSuspendAll, Goes
  <2>3. then[t] = "none" /\ call[t].op = "none"
    BY <1>2, <1>3, <2>2, FollowUpsAre DEF CallAt
  <2>4. "delay" \notin Lockers("send")
    BY DEF Lockers
  <2>5. \A u \in Task : u # t => xTicksToWait'[u] = xTicksToWait[u]
    BY <1>2, <2>2
  <2>6. QED
    BY <1>1, <2>2, <2>3, <2>4, <2>5, OnwardWake
<1>8. CASE DelayEnds(t)
  <2>1. at[t] = "slept" /\ at' = [at EXCEPT ![t] = "out"] /\ UNCHANGED <<then, xTicksToWait>>
    BY <1>8 DEF DelayEnds, Goes
  <2>2. then[t] = "none" /\ call[t].op = "none"
    BY <1>2, <1>3, <2>1, FollowUpsAre DEF CallAt
  <2>3. "out" \notin Lockers("send")
    BY DEF Lockers
  <2>4. QED
    BY <1>1, <1>2, <2>1, <2>2, <2>3, OnwardWake
<1>9. CASE ResumeEnds(t) \/ portYIELD_WITHIN_API(t)
  <2>1. UNCHANGED xTicksToWait /\ at[t] \in {"ticks", "yield"}
    BY <1>9 DEF ResumeEnds, portYIELD_WITHIN_API
  <2>2. then[t] \in {"sleep", "hold"} \cup InTurn
    BY <1>2, <2>1, FollowUpsAre DEF InTurn
  <2>3. CASE then[t] \in {"sleep", "block"} /\ Goes(t, "yield") /\ UNCHANGED then
    <3>1. then[t] = "sleep" => call[t].op = "none"
      BY <1>3 DEF CallAt
    <3>2. "yield" \notin Lockers("send")
      BY DEF Lockers
    <3>3. QED
      BY <1>1, <1>2, <2>1, <2>3, <3>1, <3>2, OnwardWake DEF Goes
  <2>4. CASE Goes(t, Continues(t)) /\ then' = [then EXCEPT ![t] = "none"]
    <3>1. Continues(t) \in {"slept", "out", "enter", "expired"}
          /\ (then[t] = "block" => Continues(t) = "enter")
          /\ (Continues(t) \in {"out", "slept"} => then[t] \in {"sleep", "hold"})
      BY <2>2, ContinuesTo DEF InTurn
    <3>2. Continues(t) \notin Lockers("send")
      BY <3>1 DEF Lockers
    <3>3. Continues(t) \in {"out", "slept"} => call[t].op = "none"
      BY <1>3, <3>1 DEF CallAt
    <3>4. PICK a : a = Continues(t)
      OBVIOUS
    <3>5. QED
      BY <1>1, <1>2, <2>1, <2>4, <3>1, <3>2, <3>3, <3>4, OnwardWake DEF Goes
  <2>5. QED
    BY <1>9, <2>3, <2>4 DEF ResumeEnds, portYIELD_WITHIN_API
<1>10. QED
  BY <1>4, <1>5, <1>6, <1>7, <1>8, <1>9

\* Nobody moves.
LEMMA StillWake ==
  ASSUME Before, Before', WakeInv, Thins(pxCurrentTCB),
         UNCHANGED <<uxMessagesWaiting, locks, call, at, then, xEntryTimeSet, xTicksToWait>>
  PROVE  WakeInv'
<1>1. pxCurrentTCB \in Task
  BY DEF Before, CallInv
<1>2. PICK t \in Task : t = pxCurrentTCB
  BY <1>1
<1>3. Alone(t) /\ GoesOnWith(t)
  BY DEF Alone, GoesOnWith
<1>4. CallAt(t)'
  BY DEF CallAt, WakeInv
<1>5. ASSUME NEW q \in Queue, NEW s \in Sides
      PROVE  /\ Posted(q, s)' = Posted(q, s)
             /\ call'[t].queue = q /\ at'[t] \in Lockers(s) => Posted(q, s)' >= 0
             /\ Asks(t, q, s)' /\ at'[t] \in {"inherit", "place"} => Offer(q, s) <= Posted(q, s)
  <2>1. LockAt(q, s) /\ OfferAt(q, s)
    BY DEF WakeInv
  <2>2. Posted(q, s)' = Posted(q, s) /\ (Asks(t, q, s)' <=> Asks(t, q, s))
    BY DEF Posted, locks, Asks
  <2>3. QED
    BY <2>1, <2>2 DEF LockAt, OfferAt
<1>6. QED
  BY <1>2, <1>3, <1>4, <1>5, QuietWake

LEMMA StillSteps ==
  ASSUME Before, Before', WakeInv,
         \/ UNCHANGED allVars
         \/ /\ UNCHANGED queueVars
            /\ SysTickPended \/ vTaskSwitchContext \/ \E t \in Task : vTaskYield(t)
  PROVE  WakeInv'
<1>1. /\ UNCHANGED <<uxMessagesWaiting, locks, call, at, then, xEntryTimeSet, xTicksToWait>>
      /\ UNCHANGED <<lists, event, xPendingReadyList>>
  BY DEF allVars, schedulerVars, queueVars, waits, control, SysTickPended, vTaskSwitchContext, vTaskYield
<1>2. Thins(pxCurrentTCB)
  BY <1>1, SameThins DEF WakeInv
<1>3. QED
  BY <1>1, <1>2, StillWake

\* A step of task t while it has locked the queue, or locks it.
LEMMA LockedWake ==
  ASSUME Before, Before', WakeInv, NEW t \in Task, Runs(t), at[t] \in {"lock", "check", "test", "inherit"},
         NEW a \in {"check", "test", "inherit", "place", "unlock"}, at' = [at EXCEPT ![t] = a],
         NEW b \in {"none", "again", "expire"}, then' = [then EXCEPT ![t] = b],
         UNCHANGED <<lists, event, xPendingReadyList, uxMessagesWaiting, call, xEntryTimeSet>>,
         \A u \in Task : u # t => xTicksToWait'[u] = xTicksToWait[u],
         \A q \in Queue, s \in Sides :
             /\ Posted(q, s)' = Posted(q, s) \/ (Posted(q, s) = queueUNLOCKED /\ Posted(q, s)' = 0)
             /\ call[t].queue = q => Posted(q, s)' >= 0,
         a \in {"inherit", "place"} =>
             \A q \in Queue, s \in Sides : Asks(t, q, s) => Offer(q, s) <= Posted(q, s)
  PROVE  WakeInv'
<1>1. /\ t = pxCurrentTCB /\ at \in [Task -> Places]
      /\ then \in [Task -> {"none", "sleep", "hold"} \cup InTurn]
  BY Whereabouts DEF Before
<1>2. at'[t] = a /\ then'[t] = b /\ then[t] = "none" /\ at[t] # "enter"
  BY <1>1, NotSure DEF InWait
<1>3. Alone(t) /\ GoesOnWith(t)
  BY <1>1, <1>2 DEF Alone, GoesOnWith
<1>4. CallAt(t)'
  <2>1. call[t].op # "give"
    BY <1>2 DEF WakeInv, CallAt
  <2>2. QED
    BY <1>2, <2>1 DEF CallAt
<1>5. Thins(t)
  BY SameThins DEF WakeInv
<1>6. \A q \in Queue, s \in Sides : Asks(t, q, s)' <=> Asks(t, q, s)
  BY DEF Asks
<1>7. QED
  BY <1>1, <1>2, <1>3, <1>4, <1>5, <1>6, QuietWake

LEMMA LockWake ==
  ASSUME Before, Before', WakeInv, NEW t \in Task, prvLockQueue(t)
  PROVE  WakeInv'
<1> DEFINE z == call[t].queue
<1>1. Runs(t) /\ at[t] = "lock"
  BY DEF prvLockQueue
<1>2. /\ then = [then EXCEPT ![t] = "none"]
      /\ cTxLock \in [Queue -> Int] /\ cRxLock \in [Queue -> Int] /\ z \in Queue
  <2>1. /\ then = [then EXCEPT ![t] = then[t]]
        /\ cTxLock \in [Queue -> Int] /\ cRxLock \in [Queue -> Int] /\ call[t].op # "none"
    BY <1>1, Whereabouts DEF Before, InCall, InWait
  <2>2. then[t] = "none"
    BY <1>1, NotSure DEF InWait
  <2>3. QED
    BY <2>1, <2>2, CallFits DEF Before
<1>3. /\ at' = [at EXCEPT ![t] = "check"] /\ UNCHANGED <<then, call, xEntryTimeSet, xTicksToWait>>
      /\ UNCHANGED <<lists, event, xPendingReadyList, uxMessagesWaiting>>
  BY DEF prvLockQueue, Goes, waits
<1>4. \A q \in Queue : /\ cTxLock'[q] = (IF q = z THEN Locked(cTxLock[q]) ELSE cTxLock[q])
                       /\ cRxLock'[q] = (IF q = z THEN Locked(cRxLock[q]) ELSE cRxLock[q])
  BY <1>2 DEF prvLockQueue
<1> HIDE DEF z
<1>5. ASSUME NEW q \in Queue, NEW s \in Sides
      PROVE  /\ Posted(q, s)' = Posted(q, s) \/ (Posted(q, s) = queueUNLOCKED /\ Posted(q, s)' = 0)
             /\ z = q => Posted(q, s)' >= 0
  <2>1. Posted(q, s)' = (IF q = z THEN Locked(Posted(q, s)) ELSE Posted(q, s))
    BY <1>4 DEF Posted
  <2>2. Posted(q, s) \in Int /\ Posted(q, s) >= -1
    BY <1>2 DEF Posted, WakeInv, LockAt, queueUNLOCKED
  <2>3. QED
    BY <2>1, <2>2 DEF Locked, queueUNLOCKED, queueLOCKED_UNMODIFIED
<1>6. PICK a \in {"check"}, b \in {"none"} : a = "check" /\ b = "none"
  OBVIOUS
<1>7. at' = [at EXCEPT ![t] = a] /\ then' = [then EXCEPT ![t] = b] /\ a \notin {"inherit", "place"}
  BY <1>2, <1>3, <1>6
<1> HIDE <1>6
<1>8. QED
  BY <1>1, <1>3, <1>5, <1>7, LockedWake DEF z

LEMMA LookWake ==
  ASSUME Before, Before', WakeInv, NEW t \in Task,
         CheckForTimeOut(t) \/ Looks(t) \/ xTaskPriorityInherit(t)
  PROVE  WakeInv'
<1>1. Runs(t) /\ at[t] \in {"check", "test", "inherit"}
  BY DEF CheckForTimeOut, Looks, xTaskPriorityInherit
<1>2. then = [then EXCEPT ![t] = "none"] /\ xTicksToWait \in [Task -> TickType]
  <2>1. then = [then EXCEPT ![t] = then[t]]
    BY <1>1, Whereabouts DEF Before
  <2>2. then[t] = "none"
    BY <1>1, NotSure DEF InWait
  <2>3. QED
    BY <2>1, <2>2 DEF Before, TimeInv, ClockInv
<1>3. UNCHANGED <<lists, event, xPendingReadyList, uxMessagesWaiting, call, xEntryTimeSet, locks>>
  BY DEF CheckForTimeOut, Looks, xTaskPriorityInherit, StepUnchanged
<1>4. \A u \in Task : u # t => xTicksToWait'[u] = xTicksToWait[u]
  BY <1>2 DEF CheckForTimeOut, Looks, xTaskPriorityInherit
<1>5. \A q \in Queue, s \in Sides : Posted(q, s)' = Posted(q, s)
  BY <1>3 DEF Posted, locks
<1>6. \A q \in Queue, s \in Sides : call[t].queue = q => Posted(q, s) >= 0
  BY <1>1 DEF WakeInv, LockAt, Lockers
<1>7. \E a \in {"test", "inherit", "place", "unlock"}, b \in {"none", "again", "expire"} :
         /\ at' = [at EXCEPT ![t] = a] /\ then' = [then EXCEPT ![t] = b]
         /\ a \in {"inherit", "place"} =>
                \A q \in Queue, s \in Sides : Asks(t, q, s) => Offer(q, s) <= Posted(q, s)
  <2>1. CASE CheckForTimeOut(t)
    <3>1. \/ Goes(t, "test") /\ then' = then
          \/ Goes(t, "unlock") /\ then' = [then EXCEPT ![t] = "expire"]
      BY <2>1 DEF CheckForTimeOut
    <3>2. QED
      BY <1>2, <3>1 DEF Goes
  <2>2. CASE Looks(t) /\ ~Stuck(t)
    <3>1. Goes(t, "unlock") /\ then' = [then EXCEPT ![t] = "again"]
      BY <2>2 DEF Looks
    <3>2. QED
      BY <3>1 DEF Goes
  <2>3. CASE Looks(t) /\ Stuck(t)
    <3>1. \E a \in {"inherit", "place"} : Goes(t, a) /\ then' = then
      BY <2>3 DEF Looks
    <3>2. ASSUME NEW q \in Queue, NEW s \in Sides, Asks(t, q, s) PROVE Offer(q, s) <= Posted(q, s)
      <4>1. Offer(q, s) = 0
        BY <2>3, <3>2, StuckOffer
      <4>2. Posted(q, s) >= 0
        BY <1>6, <3>2 DEF Asks
      <4>3. QED
        BY <4>1, <4>2, WakeTypes DEF Before
    <3>3. QED
      BY <1>2, <3>1, <3>2 DEF Goes
  <2>4. CASE xTaskPriorityInherit(t)
    <3>1. at[t] = "inherit" /\ Goes(t, "place") /\ then' = then
      BY <2>4 DEF xTaskPriorityInherit
    <3>2. \A q \in Queue, s \in Sides : Asks(t, q, s) => Offer(q, s) <= Posted(q, s)
      BY <3>1 DEF WakeInv, OfferAt
    <3>3. QED
      BY <1>2, <3>1, <3>2 DEF Goes
  <2>5. QED
    BY <2>1, <2>2, <2>3, <2>4
<1>8. PICK a \in {"test", "inherit", "place", "unlock"}, b \in {"none", "again", "expire"} :
         /\ at' = [at EXCEPT ![t] = a] /\ then' = [then EXCEPT ![t] = b]
         /\ a \in {"inherit", "place"} =>
                \A q \in Queue, s \in Sides : Asks(t, q, s) => Offer(q, s) <= Posted(q, s)
  BY <1>7
<1>9. QED
  BY <1>1, <1>3, <1>4, <1>5, <1>6, <1>8, LockedWake

-------------------------------------------------------------------------------
(***************************************************************************)
(* Steps that wake tasks or put them to sleep.                             *)
(***************************************************************************)

\* A tick wakes whoever is due, from the state lists and the event lists alike.
LEMMA TickThins ==
  ASSUME ListInv, ListsApart, IncrementTick, xPendingReadyList = {},
         UNCHANGED <<xSuspendedTaskList, xPendingReadyList>>, NEW t
  PROVE  Thins(t)
<1> DEFINE tick == TickPlus(xTickCount, 1)
           D == Due(tick)
<1>1. /\ pxDelayedTaskList' = CurrentDelayed(tick) \ D
      /\ pxOverflowDelayedTaskList' =
             IF tick = 0 THEN pxDelayedTaskList ELSE pxOverflowDelayedTaskList
      /\ event' = [k \in EventList |-> Without(event[k], D)]
  BY DEF IncrementTick
<1>2. CurrentDelayed(tick) = IF tick = 0 THEN pxOverflowDelayedTaskList ELSE pxDelayedTaskList
  BY DEF CurrentDelayed
<1>3. D \subseteq CurrentDelayed(tick)
  BY DEF Due
<1> HIDE DEF D, tick
<1>4. ListsApart'
  BY <1>1, <1>2 DEF ListsApart
<1>5. Blocked' = Blocked \ D
  BY <1>1, <1>2, <1>3 DEF Blocked, ListsApart
<1>6. ASSUME NEW l \in EventList
      PROVE  event'[l] = Without(event[l], D) /\ Range(event[l]) \ D \subseteq Range(event'[l])
  <2>1. event[l] \in Seq(Task) /\ event'[l] = Without(event[l], D)
    BY <1>1 DEF ListInv
  <2>2. QED
    BY <2>1, WithoutThins
<1>7. QED
  BY <1>4, <1>5, <1>6 DEF Thins

LEMMA TickWake ==
  ASSUME Before, Before', WakeInv, UNCHANGED queueVars, SysTick \/ \E t \in Task : ResumeTick(t)
  PROVE  WakeInv'
<1>1. /\ UNCHANGED <<uxMessagesWaiting, locks, call, at, then, xEntryTimeSet, xTicksToWait>>
      /\ IncrementTick /\ UNCHANGED <<xSuspendedTaskList, xPendingReadyList>>
  BY DEF queueVars, waits, control, SysTick, ResumeTick
<1>2. uxSchedulerSuspended = 0
  <2>1. CASE SysTick
    BY <2>1 DEF SysTick
  <2>2. CASE \E t \in Task : ResumeTick(t)
    BY <2>2 DEF ResumeTick, Runs, Before, ControlInv, RunInv, InSuspension
  <2>3. QED
    BY <2>1, <2>2
<1>3. Thins(pxCurrentTCB)
  BY <1>1, <1>2, TickThins DEF Before, ControlInv, ListInv, WakeInv
<1>4. QED
  BY <1>1, <1>3, StillWake

LEMMA ResumeWake ==
  ASSUME Before, Before', WakeInv, NEW t \in Task, xTaskResumeAll(t), UNCHANGED queueVars
  PROVE  WakeInv'
<1>1. /\ Runs(t) /\ at[t] = "resume" /\ MakeReady(xPendingReadyList) /\ xPendingReadyList' = {}
      /\ at' = [at EXCEPT ![t] = "ticks"] /\ event' = event
      /\ UNCHANGED <<uxMessagesWaiting, locks, call, then, xEntryTimeSet, xTicksToWait>>
  BY DEF xTaskResumeAll, queueVars, waits, Goes
<1>2. t = pxCurrentTCB /\ at \in [Task -> Places]
  BY <1>1, Whereabouts DEF Before
<1>3. at'[t] = "ticks" /\ Alone(t) /\ GoesOnWith(t)
  BY <1>1, <1>2 DEF Alone, GoesOnWith
<1>4. CallAt(t)'
  BY <1>1, <1>3 DEF WakeInv, CallAt
<1>5. Thins(t)
  <2>1. Blocked' = Blocked \ xPendingReadyList
    BY <1>1 DEF Blocked, MakeReady
  <2>2. ListsApart'
    BY <1>1 DEF WakeInv, ListsApart, MakeReady
  <2>3. QED
    BY <1>1, <2>1, <2>2 DEF Thins
<1>6. \A q \in Queue, s \in Sides : Posted(q, s)' = Posted(q, s) /\ at'[t] \notin Lockers(s)
  BY <1>1, <1>3 DEF Posted, locks, Lockers
<1>7. QED
  BY <1>1, <1>2, <1>3, <1>4, <1>5, <1>6, QuietWake

\* The running task enters one of the state lists, for as long as it asks for.
LEMMA AddApart ==
  ASSUME ListsApart, NEW t \in Task, t = pxCurrentTCB, t \notin Blocked, NEW ticks, NEW b,
         prvAddCurrentTaskToDelayedList(ticks, b)
  PROVE  /\ ListsApart' /\ Ready' = Ready \ {t}
         /\ \A u \in Task : u # t =>
               /\ u \in pxDelayedTaskList' <=> u \in pxDelayedTaskList
               /\ u \in pxOverflowDelayedTaskList' <=> u \in pxOverflowDelayedTaskList
<1>1. \/ /\ xSuspendedTaskList' = xSuspendedTaskList \cup {t}
         /\ UNCHANGED <<pxDelayedTaskList, pxOverflowDelayedTaskList>>
      \/ /\ pxOverflowDelayedTaskList' = pxOverflowDelayedTaskList \cup {t}
         /\ UNCHANGED <<pxDelayedTaskList, xSuspendedTaskList>>
      \/ /\ pxDelayedTaskList' = pxDelayedTaskList \cup {t}
         /\ UNCHANGED <<pxOverflowDelayedTaskList, xSuspendedTaskList>>
  BY DEF prvAddCurrentTaskToDelayedList
<1>2. t \notin pxDelayedTaskList /\ t \notin pxOverflowDelayedTaskList /\ t \notin xSuspendedTaskList
  BY DEF Blocked
<1>3. ListsApart'
  BY <1>1, <1>2 DEF ListsApart
<1>4. Ready' = Ready \ {t}
  BY <1>1 DEF Ready, Blocked
<1>5. QED
  BY <1>1, <1>3, <1>4

LEMMA AddWake ==
  ASSUME Before, Before', WakeInv, NEW t \in Task, DelayAdds(t), UNCHANGED queueVars
  PROVE  WakeInv'
<1>1. /\ Runs(t) /\ at[t] = "delay" /\ prvAddCurrentTaskToDelayedList(xTicksToWait[t], FALSE)
      /\ at' = [at EXCEPT ![t] = "resume"] /\ event' = event
      /\ xTicksToWait' = [xTicksToWait EXCEPT ![t] = 0]
      /\ UNCHANGED <<uxMessagesWaiting, locks, call, then, xEntryTimeSet, xPendingReadyList>>
  BY DEF DelayAdds, queueVars, waits, Goes
<1>2. /\ t = pxCurrentTCB /\ at \in [Task -> Places] /\ then[t] = "sleep"
      /\ xTicksToWait \in [Task -> TickType]
  BY <1>1, Whereabouts, FollowUpsAre DEF Before, TimeInv, ClockInv
<1>3. t \notin Blocked
  BY <1>1, AwakeRuns DEF Before, Leaving
<1>4. at'[t] = "resume" /\ Alone(t) /\ GoesOnWith(t)
  BY <1>1, <1>2 DEF Alone, GoesOnWith
<1>5. call[t].op = "none" /\ CallAt(t)'
  <2>1. call[t].op = "none"
    BY <1>1 DEF WakeInv, CallAt
  <2>2. QED
    BY <1>1, <2>1 DEF CallAt
<1>6. Thins(t)
  <2>1. Blocked' = Blocked \cup {t}
    BY <1>1, <1>2, AddBlocks
  <2>2. ListsApart'
    BY <1>1, <1>2, <1>3, AddApart DEF WakeInv
  <2>3. QED
    BY <1>1, <1>5, <2>1, <2>2 DEF Thins
<1>7. \A q \in Queue, s \in Sides : Posted(q, s)' = Posted(q, s) /\ at'[t] \notin Lockers(s)
  BY <1>1, <1>4 DEF Posted, locks, Lockers
<1>8. QED
  BY <1>1, <1>2, <1>4, <1>5, <1>6, <1>7, QuietWake

-------------------------------------------------------------------------------
(***************************************************************************)
(* Steps that wake those who wait for an item or a place.                  *)
(***************************************************************************)

LEMMA RemoveThins ==
  ASSUME ListInv, ListsApart, NEW l \in EventList, NEW n \in Int, NEW p,
         xTaskRemoveFromEventList(l, n, p), NEW t
  PROVE  /\ Thins(t) /\ Range(event'[l]) \subseteq Range(event[l]) \ Firsts(l, n)
         /\ \A m \in EventList : m # l => event'[m] = event[m]
<1> DEFINE S == Firsts(l, n)
           r == Without(event[l], S)
<1>1. event[l] \in Seq(Task) /\ event \in [EventList -> Seq(Task)]
  BY DEF ListInv
<1>2. Range(r) \subseteq Range(event[l]) \ S /\ Range(event[l]) \ S \subseteq Range(r)
  BY <1>1, WithoutKeeps, WithoutThins
<1>3. event'[l] = r /\ \A m \in EventList : m # l => event'[m] = event[m]
  BY <1>1 DEF xTaskRemoveFromEventList
<1>4. \/ /\ xPendingReadyList' = xPendingReadyList /\ MakeReady(S)
      \/ /\ xPendingReadyList' = xPendingReadyList \cup S /\ UNCHANGED lists
  BY DEF xTaskRemoveFromEventList
<1>5. ListsApart'
  BY <1>4 DEF ListsApart, MakeReady, lists
<1>6. \A m \in EventList : event'[m] = event[m] \/ \E R : event'[m] = Without(event[m], R)
  BY <1>3
<1> HIDE DEF S, r
<1>7. /\ Blocked' \subseteq Blocked
      /\ \A u \in S : u \in xPendingReadyList' \/ u \notin Blocked'
      /\ \A u \in Blocked' \ xPendingReadyList' : u \in Blocked \ xPendingReadyList
  BY <1>4 DEF Blocked, MakeReady, lists
<1>8. \A m \in EventList : \A u \in Range(event[m]) :
           u \in Range(event'[m]) \/ u \in xPendingReadyList' \/ u \notin Blocked'
  BY <1>2, <1>3, <1>7
<1>9. QED
  BY <1>2, <1>3, <1>5, <1>6, <1>7, <1>8 DEF Thins, S

\* Task t, having locked queue z in a call, unlocks it at side s and goes on to a.
Unlocks(t, z, s, a) ==
    /\ call[t].queue = z /\ at[t] \in Lockers(s) /\ at[t] \in {"unlock", "unlockRx"}
    /\ xTaskRemoveFromEventList(<<z, s>>, Posted(z, s), uxPriority)
    /\ Posted(z, s)' = queueUNLOCKED
    /\ \A q \in Queue, r \in Sides : <<q, r>> # <<z, s>> => Posted(q, r)' = Posted(q, r)
    /\ at' = [at EXCEPT ![t] = a] /\ a \in {"unlockRx", "resume"}
    /\ \A r \in Sides : a \in Lockers(r) => r # s /\ at[t] \in Lockers(r)
    /\ UNCHANGED <<uxMessagesWaiting, call, then, xEntryTimeSet, xTicksToWait>>

\* As many are woken as were posted.
LEMMA UnlockWake ==
  ASSUME Before, Before', WakeInv, NEW t \in Task, Runs(t), NEW z \in Queue, NEW s \in Sides, NEW a,
         Unlocks(t, z, s, a)
  PROVE  WakeInv'
<1> USE DEF Unlocks
<1>1. t = pxCurrentTCB /\ at \in [Task -> Places]
  BY Whereabouts DEF Before
<1>2. at'[t] = a /\ Alone(t) /\ GoesOnWith(t)
  BY <1>1 DEF Alone, GoesOnWith, Lockers
<1>3. CallAt(t)'
  BY <1>1, <1>2 DEF WakeInv, CallAt, Lockers
<1>4. /\ ListInv /\ ListInv' /\ PlaceInv
      /\ \A q \in Queue, r \in Sides : ListAt(q, r) /\ LockAt(q, r) /\ OfferAt(q, r)
  BY DEF Before, ControlInv, WakeInv
<1>5. <<z, s>> \in EventList /\ Posted(z, s) \in Nat
  <2>1. Posted(z, s) >= 0 /\ Posted(z, s) \in Int
    BY <1>4, WakeTypes DEF LockAt, Before
  <2>2. QED
    BY <1>4, <2>1, ListOf
<1>6. /\ Thins(t)
      /\ Range(event'[<<z, s>>]) \subseteq Range(event[<<z, s>>]) \ Firsts(<<z, s>>, Posted(z, s))
  BY <1>4, <1>5, RemoveThins DEF WakeInv
<1>7. ASSUME NEW q \in Queue, NEW r \in Sides
      PROVE  ListAt(q, r)' /\ Listed(q, r)' \subseteq Listed(q, r) /\ Sure(q, r) \subseteq Sure(q, r)'
  <2>1. ListAt(q, r)'
    BY <1>2, <1>4, <1>6, ThinsAt DEF GoesOnWith
  <2>2. Listed(q, r)' \subseteq Listed(q, r)
    BY <1>4, <1>6, ThinsLists
  <2>3. Sure(q, r) \subseteq Task
    BY DEF Sure
  <2>4. Sure(q, r) \subseteq Sure(q, r)'
    BY <1>2, <1>4, <1>6, <2>3, ThinsSure
  <2>5. QED
    BY <2>1, <2>2, <2>4
<1>8. \A q \in Queue, r \in Sides : Offer(q, r)' = Offer(q, r)
  BY DEF Offer
<1>9. ASSUME NEW q \in Queue, NEW r \in Sides, <<q, r>> # <<z, s>>
      PROVE  /\ Posted(q, r)' >= queueUNLOCKED
             /\ call'[t].queue = q /\ at'[t] \in Lockers(r) => Posted(q, r)' >= 0
             /\ Listed(q, r)' # {} => Offer(q, r)' <= Cardinality(Sure(q, r)') + Owed(q, r)'
  <2>1. Posted(q, r)' = Posted(q, r) /\ Owed(q, r)' = Owed(q, r) /\ Posted(q, r) >= queueUNLOCKED
    BY <1>4, <1>9 DEF Owed, LockAt
  <2>2. call'[t].queue = q /\ at'[t] \in Lockers(r) => Posted(q, r)' >= 0
    BY <1>2, <1>4, <2>1 DEF LockAt
  <2>3. Offer(q, r)' + Owed(q, r) <= Offer(q, r) + Owed(q, r)'
    <3>1. Offer(q, r) \in Nat /\ Posted(q, r) \in Int
      BY WakeTypes DEF Before
    <3>2. Owed(q, r) \in Int
      BY <3>1 DEF Owed
    <3>3. QED
      BY <1>8, <2>1, <3>1, <3>2
  <2>4. Listed(q, r)' # {} => Offer(q, r)' <= Cardinality(Sure(q, r)') + Owed(q, r)'
    BY <1>4, <1>7, <2>1, <2>3, OfferKept
  <2>5. QED
    BY <2>1, <2>2, <2>4
<1>10. /\ Posted(z, s)' >= queueUNLOCKED
       /\ call'[t].queue = z /\ at'[t] \in Lockers(s) => Posted(z, s)' >= 0
  BY <1>2 DEF queueUNLOCKED
<1>11. ASSUME Listed(z, s)' # {} PROVE Offer(z, s)' <= Cardinality(Sure(z, s)') + Owed(z, s)'
  <2> DEFINE l == <<z, s>>
             n == Posted(z, s)
             F == Firsts(l, n)
  <2>1. event[l] \in Seq(Task) /\ Len(event[l]) \in Nat /\ DOMAIN event[l] = 1 .. Len(event[l])
    BY <1>4, ListOf, LenProperties
  <2>2. n <= Len(event[l])
    <3>1. SUFFICES ASSUME n > Len(event[l]) PROVE FALSE
      BY <1>5, <2>1
    <3>2. F = Range(event[l])
      BY <1>5, <2>1, <3>1 DEF Firsts, Range
    <3>3. QED
      BY <1>6, <1>11, <3>2 DEF Listed
  <2>3. n <= Cardinality(F) /\ F \subseteq Listed(z, s) /\ F \subseteq Task
    BY <1>4, <1>5, <2>1, <2>2, FirstsCount, FirstsRange DEF ListAt, Listed
  <2>4. F \cap Listed(z, s)' = {}
    BY <1>6 DEF Listed
  <2>5. F \subseteq Sure(z, s)'
    BY <1>2, <1>4, <1>6, <2>3, <2>4, ThinsSure
  <2>6. F \cap Sure(z, s) = {}
    BY <2>3 DEF Sure
  <2> HIDE DEF F
  <2>7. /\ Sure(z, s) \subseteq Task /\ Cardinality(Sure(z, s)) \in Nat /\ Offer(z, s) \in Nat
    BY WakeTypes DEF Before
  <2>8. Sure(z, s)' \subseteq Task
    BY DEF Sure
  <2>9. IsFiniteSet(F) /\ IsFiniteSet(Sure(z, s)) /\ Cardinality(F) \in Nat
    BY <2>3, <2>7, SureCount
  <2>10. Cardinality(Sure(z, s) \cup F) = Cardinality(Sure(z, s)) + Cardinality(F)
    BY <2>3, <2>6, <2>7, UnionCount
  <2>11. Cardinality(Sure(z, s) \cup F) <= Cardinality(Sure(z, s)')
    <3>1. Sure(z, s) \cup F \subseteq Sure(z, s)' /\ Sure(z, s) \cup F \subseteq Task
      BY <1>7, <2>3, <2>5, <2>7
    <3>2. QED
      BY <2>8, <3>1, SureCount
  <2>12. Cardinality(Sure(z, s)') \in Nat
    BY <2>8, SureCount
  <2>13. Offer(z, s) <= Cardinality(Sure(z, s)) + n
    <3>1. Listed(z, s) # {}
      BY <1>7, <1>11
    <3>2. Owed(z, s) = n
      BY <1>5 DEF Owed, queueUNLOCKED
    <3>3. QED
      BY <1>4, <3>1, <3>2 DEF OfferAt
  <2>14. Owed(z, s)' = 0
    BY DEF Owed
  <2>15. QED
    BY <1>5, <1>8, <2>3, <2>7, <2>9, <2>10, <2>11, <2>12, <2>13, <2>14
<1>12. ListsApart'
  BY <1>6 DEF Thins
<1>13. at'[t] \notin {"inherit", "place"}
  BY <1>2
<1>14. ASSUME NEW q \in Queue, NEW r \in Sides
       PROVE  /\ Posted(q, r)' >= queueUNLOCKED
              /\ call'[t].queue = q /\ at'[t] \in Lockers(r) => Posted(q, r)' >= 0
              /\ Listed(q, r)' # {} => Offer(q, r)' <= Cardinality(Sure(q, r)') + Owed(q, r)'
  <2>1. CASE <<q, r>> = <<z, s>>
    BY <1>10, <1>11, <2>1
  <2>2. CASE <<q, r>> # <<z, s>>
    BY <1>9, <2>2
  <2>3. QED
    BY <2>1, <2>2
<1>15. QED
  BY <1>1, <1>2, <1>3, <1>7, <1>12, <1>13, <1>14, StepWake

\* prvUnlockQueue, for either side.
LEMMA UnlockSteps ==
  ASSUME Before, Before', WakeInv, NEW t \in Task, prvUnlockQueue(t) \/ prvUnlockQueueRx(t)
  PROVE  WakeInv'
<1>1. Runs(t) /\ at[t] \in {"unlock", "unlockRx"}
  BY DEF prvUnlockQueue, prvUnlockQueueRx
<1>2. call[t].queue \in Queue /\ cTxLock \in [Queue -> Int] /\ cRxLock \in [Queue -> Int]
  <2>1. call[t].op # "none" /\ cTxLock \in [Queue -> Int] /\ cRxLock \in [Queue -> Int]
    BY <1>1, Whereabouts DEF Before, InCall
  <2>2. QED
    BY <2>1, CallFits DEF Before
<1>3. UNCHANGED <<uxMessagesWaiting, call, then, xEntryTimeSet, xTicksToWait>>
  BY DEF prvUnlockQueue, prvUnlockQueueRx, StepUnchanged
<1>4. PICK z \in Queue : call[t].queue = z
  BY <1>2
<1>5. CASE prvUnlockQueue(t)
  <2>1. /\ at[t] = "unlock" /\ at' = [at EXCEPT ![t] = "unlockRx"]
        /\ xTaskRemoveFromEventList(<<z, "receive">>, cTxLock[z], uxPriority)
        /\ cTxLock' = [cTxLock EXCEPT ![z] = queueUNLOCKED] /\ cRxLock' = cRxLock
    BY <1>5, <1>4 DEF prvUnlockQueue, Goes, Receivers
  <2>2. PICK s \in Sides : s = "receive"
    BY DEF Sides
  <2>3. PICK a \in {"unlockRx", "resume"} : a = "unlockRx"
    OBVIOUS
  <2>4. \A q \in Queue, r \in Sides :
           Posted(q, r)' = IF <<q, r>> = <<z, s>> THEN queueUNLOCKED ELSE Posted(q, r)
    BY <1>2, <2>1, <2>2 DEF Posted, Sides
  <2>5. /\ Posted(z, s)' = queueUNLOCKED
        /\ \A q \in Queue, r \in Sides : <<q, r>> # <<z, s>> => Posted(q, r)' = Posted(q, r)
    BY <2>4
  <2>6. at' = [at EXCEPT ![t] = a]
    BY <2>1, <2>3
  <2>7. at[t] \in Lockers(s) /\ at[t] \in {"unlock", "unlockRx"}
    BY <2>1 DEF Lockers
  <2>8. \A r \in Sides : a \in Lockers(r) => r # s /\ at[t] \in Lockers(r)
    BY <2>1, <2>2, <2>3 DEF Lockers
  <2>9. xTaskRemoveFromEventList(<<z, s>>, Posted(z, s), uxPriority)
    BY <2>1, <2>2 DEF Posted
  <2>10. QED
    <3>1. Unlocks(t, z, s, a)
      BY <1>3, <1>4, <2>5, <2>6, <2>7, <2>8, <2>9 DEF Unlocks
    <3>2. QED
      BY <1>1, <3>1, UnlockWake
<1>6. CASE prvUnlockQueueRx(t)
  <2>1. /\ at[t] = "unlockRx" /\ at' = [at EXCEPT ![t] = "resume"]
        /\ xTaskRemoveFromEventList(<<z, "send">>, cRxLock[z], uxPriority)
        /\ cRxLock' = [cRxLock EXCEPT ![z] = queueUNLOCKED] /\ cTxLock' = cTxLock
    BY <1>6, <1>4 DEF prvUnlockQueueRx, Goes, Senders
  <2>2. PICK s \in Sides : s = "send"
    BY DEF Sides
  <2>3. PICK a \in {"unlockRx", "resume"} : a = "resume"
    OBVIOUS
  <2>4. \A q \in Queue, r \in Sides :
           Posted(q, r)' = IF <<q, r>> = <<z, s>> THEN queueUNLOCKED ELSE Posted(q, r)
    BY <1>2, <2>1, <2>2 DEF Posted, Sides
  <2>5. /\ Posted(z, s)' = queueUNLOCKED
        /\ \A q \in Queue, r \in Sides : <<q, r>> # <<z, s>> => Posted(q, r)' = Posted(q, r)
    BY <2>4
  <2>6. at' = [at EXCEPT ![t] = a]
    BY <2>1, <2>3
  <2>7. at[t] \in Lockers(s) /\ at[t] \in {"unlock", "unlockRx"}
    BY <2>1, <2>2 DEF Lockers
  <2>8. \A r \in Sides : a \in Lockers(r) => r # s /\ at[t] \in Lockers(r)
    BY <2>3 DEF Lockers
  <2>9. xTaskRemoveFromEventList(<<z, s>>, Posted(z, s), uxPriority)
    BY <2>1, <2>2 DEF Posted
  <2>10. QED
    <3>1. Unlocks(t, z, s, a)
      BY <1>3, <1>4, <2>5, <2>6, <2>7, <2>8, <2>9 DEF Unlocks
    <3>2. QED
      BY <1>1, <3>1, UnlockWake
<1>7. QED
  BY <1>5, <1>6

\* One more is there for a side, and the first that waits for it is woken; the locks are as they
\* were.
LEMMA ServeWake ==
  ASSUME Before, Before', WakeInv, NEW t \in Task, t = pxCurrentTCB, Alone(t), Thins(t), CallAt(t)',
         NEW z \in Queue, NEW s \in Sides, UNCHANGED locks, Offer(z, s)' = Offer(z, s) + 1,
         Listed(z, s)' \cap Firsts(<<z, s>>, 1) = {},
         \A q \in Queue, r \in Sides : <<q, r>> # <<z, s>> => Offer(q, r)' <= Offer(q, r),
         \/ GoesOnWith(t)
         \/ /\ t \notin Blocked
            /\ \A q \in Queue, r \in Sides :
                  t \in Sure(q, r) => <<q, r>> # <<z, s>> /\ Offer(q, r)' + 1 <= Offer(q, r),
         \A q \in Queue, r \in Sides :
             /\ call'[t].queue = q /\ at'[t] \in Lockers(r) => Posted(q, r) >= 0
             /\ Asks(t, q, r)' /\ at'[t] \in {"inherit", "place"} => Offer(q, r)' <= Posted(q, r)
  PROVE  WakeInv'
<1>1. ListInv /\ ListInv' /\ PlaceInv
  BY DEF Before, ControlInv
<1>2. ASSUME NEW q \in Queue, NEW r \in Sides
      PROVE  /\ ListAt(q, r)' /\ Listed(q, r)' \subseteq Listed(q, r)
             /\ ListAt(q, r) /\ LockAt(q, r) /\ OfferAt(q, r)
             /\ Posted(q, r)' = Posted(q, r) /\ Posted(q, r) >= queueUNLOCKED
             /\ Owed(q, r)' = Owed(q, r) /\ Owed(q, r) \in Nat
  <2>1. ListAt(q, r) /\ LockAt(q, r) /\ OfferAt(q, r)
    BY DEF WakeInv
  <2>2. ListAt(q, r)' /\ Listed(q, r)' \subseteq Listed(q, r)
    BY <1>1, <2>1, ThinsAt, ThinsLists DEF GoesOnWith
  <2>3. Posted(q, r)' = Posted(q, r) /\ Posted(q, r) \in Int
    BY WakeTypes DEF Posted, locks, Before
  <2>4. Posted(q, r) >= queueUNLOCKED /\ Owed(q, r)' = Owed(q, r) /\ Owed(q, r) \in Nat
    BY <2>1, <2>3 DEF LockAt, Owed, queueUNLOCKED
  <2>5. QED
    BY <2>1, <2>2, <2>3, <2>4
<1>3. ASSUME NEW q \in Queue, NEW r \in Sides, <<q, r>> # <<z, s>>
      PROVE  Listed(q, r)' # {} => Offer(q, r)' <= Cardinality(Sure(q, r)') + Owed(q, r)'
  <2>1. ASSUME NEW u \in Sure(q, r)
        PROVE  u \in Sure(q, r)' \/ (u = t /\ Offer(q, r)' + 1 <= Offer(q, r))
    <3>1. CASE u # t \/ GoesOnWith(t)
      <4>1. u \in Task
        BY DEF Sure
      <4>2. QED
        BY <1>1, <1>2, <3>1, <4>1, ThinsSure
    <3>2. CASE u = t /\ ~GoesOnWith(t)
      BY <2>1, <3>2
    <3>3. QED
      BY <3>1, <3>2
  <2>2. /\ Offer(q, r) \in Nat /\ Offer(q, r)' <= Offer(q, r) /\ Owed(q, r) \in Nat
        /\ Owed(q, r)' = Owed(q, r)
    BY <1>2, <1>3, WakeTypes DEF Before
  <2>3. Offer(q, r)' \in Nat
    BY NextOffer
  <2>4. /\ Offer(q, r)' + Owed(q, r) <= Offer(q, r) + Owed(q, r)'
        /\ Offer(q, r)' + 1 <= Offer(q, r) =>
              Offer(q, r)' + 1 + Owed(q, r) <= Offer(q, r) + Owed(q, r)'
    BY <2>2, <2>3
  <2>5. \A u \in Sure(q, r) :
           \/ u \in Sure(q, r)'
           \/ u = t /\ Offer(q, r)' + 1 + Owed(q, r) <= Offer(q, r) + Owed(q, r)'
    BY <2>1, <2>4
  <2>6. LockAt(q, r) /\ OfferAt(q, r) /\ Posted(q, r)' >= queueUNLOCKED
        /\ (Listed(q, r)' # {} => Listed(q, r) # {})
    BY <1>2
  <2>7. QED
    BY <2>4, <2>5, <2>6, OfferKept
<1>4. ASSUME Listed(z, s)' # {} PROVE Offer(z, s)' <= Cardinality(Sure(z, s)') + Owed(z, s)'
  <2> DEFINE l == <<z, s>>
             u == event[l][1]
  <2>1. /\ event[l] \in Seq(Task) /\ Listed(z, s) # {} /\ event[l] # <<>>
    BY <1>1, <1>2, <1>4, ListOf
  <2>2. /\ Len(event[l]) \in Nat /\ Len(event[l]) # 0 /\ DOMAIN event[l] = 1 .. Len(event[l])
    BY <2>1, LenProperties, EmptySeq
  <2>3. u \in Firsts(l, 1) /\ u \in Listed(z, s)
    BY <2>2 DEF Firsts, Listed, Range
  <2>4. u \in Task /\ u \in Blocked
    BY <1>1, <2>3, ListOf, OnEventIs DEF Listed, ListInv
  <2> HIDE DEF u
  <2>5. u \in Listed(z, s) \ Listed(z, s)'
    BY <2>3
  <2>6. u # t \/ GoesOnWith(t)
    BY <2>4
  <2>7. u \in Sure(z, s)' /\ u \notin Sure(z, s)
    <3>1. u \in Sure(z, s)'
      BY <1>1, <1>2, <2>4, <2>5, <2>6, ThinsSure
    <3>2. QED
      BY <2>3, <3>1 DEF Sure
  <2>8. Sure(z, s) \subseteq Sure(z, s)'
    <3>1. \A v \in Sure(z, s) : v \in Task /\ (v # t \/ GoesOnWith(t))
      BY DEF Sure
    <3>2. QED
      BY <1>1, <1>2, <3>1, ThinsSure
  <2>9. QED
    BY <1>2, <2>1, <2>7, <2>8, OfferServed
<1>5. ListsApart'
  BY DEF Thins
<1>6. \A q \in Queue, r \in Sides :
         Listed(q, r)' # {} => Offer(q, r)' <= Cardinality(Sure(q, r)') + Owed(q, r)'
  BY <1>3, <1>4
<1>7. QED
  BY <1>2, <1>5, <1>6, StepWake

\* A call proceeds: it returns, and what it took or brought is one more for the other side.
LEMMA ProceedsWake ==
  ASSUME Before, Before', WakeInv, NEW t \in Task, Runs(t), at[t] = "enter", Returns(t),
         NEW z \in Queue, call[t].queue = z, NEW s \in Sides, NEW n \in {-1, 1}, NEW p,
         uxMessagesWaiting' = [uxMessagesWaiting EXCEPT ![z] = @ + n],
         xTaskRemoveFromEventList(<<z, s>>, 1, p),
         IF n = 1 THEN s = "receive" /\ call[t].op \in {"send", "give"}
         ELSE s = "send" /\ call[t].op \in {"receive", "take"}
  PROVE  WakeInv'
<1>1. /\ t = pxCurrentTCB /\ at \in [Task -> Places] /\ t \notin Blocked
      /\ then[t] = "none"
  <2>1. /\ t = pxCurrentTCB /\ at \in [Task -> Places] /\ then[t] \in FollowUps(at[t])
    BY Whereabouts DEF Before
  <2>2. then[t] = "none"
    BY <2>1, FollowUpsAre
  <2>3. t \notin Blocked
    BY <2>2, AwakeRuns DEF Before
  <2>4. QED
    BY <2>1, <2>2, <2>3
<1>2. /\ xTicksToWait \in [Task -> TickType] /\ xEntryTimeSet \in [Task -> BOOLEAN]
      /\ call \in [Task -> {NoCall} \cup {c \in AllCalls : c.queue \in Queue}]
      /\ uxMessagesWaiting \in [Queue -> Nat]
  BY DEF Before, TimeInv, ClockInv, CallInv, RingInv
<1>3. Alone(t) /\ at'[t] = "out" /\ call'[t] = NoCall
  BY <1>1, <1>2 DEF Alone, Returns, Goes
<1>4. CallAt(t)'
  BY <1>3 DEF CallAt, NoCall
<1>5. ListInv /\ <<z, s>> \in EventList
  BY ListOf DEF Before, ControlInv
<1>6. Thins(t) /\ Listed(z, s)' \cap Firsts(<<z, s>>, 1) = {}
  <2>1. /\ Thins(t)
        /\ Range(event'[<<z, s>>]) \subseteq Range(event[<<z, s>>]) \ Firsts(<<z, s>>, 1)
    BY <1>5, RemoveThins DEF WakeInv
  <2>2. QED
    BY <2>1 DEF Listed
<1>7. \A q \in Queue : /\ uxMessagesWaiting'[q] = uxMessagesWaiting[q] + (IF q = z THEN n ELSE 0)
                       /\ uxMessagesWaiting[q] \in Nat /\ uxLength[q] \in Nat
  BY <1>2, QueueAssumption
<1>8. Offer(z, s)' = Offer(z, s) + 1
  BY <1>7 DEF Offer
<1>9. ASSUME NEW q \in Queue, NEW r \in Sides, <<q, r>> # <<z, s>>
      PROVE  Offer(q, r)' <= Offer(q, r) /\ (q = z => Offer(q, r)' + 1 <= Offer(q, r))
  <2>1. CASE q = z
    BY <1>7, <1>9, <2>1 DEF Offer, Sides
  <2>2. CASE q # z
    BY <1>7, <2>2 DEF Offer
  <2>3. QED
    BY <2>1, <2>2
<1>10. ASSUME NEW q \in Queue, NEW r \in Sides, t \in Sure(q, r)
       PROVE  <<q, r>> # <<z, s>> /\ Offer(q, r)' + 1 <= Offer(q, r)
  <2>1. q = z /\ call[t].op \in OpsAt(r)
    BY <1>10 DEF Sure, Asks
  <2>2. r # s
    BY <2>1 DEF OpsAt
  <2>3. QED
    BY <1>9, <2>1, <2>2
<1>11. UNCHANGED locks
  BY DEF Returns
<1>12. \A r \in Sides : at'[t] \notin Lockers(r) \cup {"inherit", "place"}
  BY <1>3 DEF Lockers
<1>13. QED
  BY <1>1, <1>3, <1>4, <1>6, <1>8, <1>9, <1>10, <1>11, <1>12, ServeWake

LEMMA ProceedsSteps ==
  ASSUME Before, Before', WakeInv, NEW t \in Task,
         \/ SendProceeds(t) \/ GiveProceeds(t) \/ MutexGiveProceeds(t) \/ ReceiveProceeds(t)
         \/ TakeProceeds(t)
  PROVE  WakeInv'
<1>1. Runs(t) /\ at[t] = "enter" /\ Returns(t) /\ call[t].op # "none"
  BY DEF SendProceeds, GiveProceeds, MutexGiveProceeds, ReceiveProceeds, TakeProceeds, Proceeds
<1>2. PICK z \in Queue : call[t].queue = z
  BY <1>1, CallFits DEF Before
<1>3. \E s \in Sides, n \in {-1, 1} : \E p :
         /\ uxMessagesWaiting' = [uxMessagesWaiting EXCEPT ![z] = @ + n]
         /\ xTaskRemoveFromEventList(<<z, s>>, 1, p)
         /\ IF n = 1 THEN s = "receive" /\ call[t].op \in {"send", "give"}
            ELSE s = "send" /\ call[t].op \in {"receive", "take"}
  <2>1. ASSUME SendProceeds(t) \/ GiveProceeds(t) \/ MutexGiveProceeds(t)
        PROVE  /\ call[t].op \in {"send", "give"}
               /\ uxMessagesWaiting' = [uxMessagesWaiting EXCEPT ![z] = @ + 1]
               /\ \E p : xTaskRemoveFromEventList(<<z, "receive">>, 1, p)
    BY <1>2, <2>1 DEF SendProceeds, GiveProceeds, MutexGiveProceeds, Proceeds, Receivers
  <2>2. ASSUME ReceiveProceeds(t) \/ TakeProceeds(t)
        PROVE  /\ call[t].op \in {"receive", "take"}
               /\ uxMessagesWaiting' = [uxMessagesWaiting EXCEPT ![z] = @ + (-1)]
               /\ \E p : xTaskRemoveFromEventList(<<z, "send">>, 1, p)
    <3>1. uxMessagesWaiting \in [Queue -> Nat]
      BY DEF Before, RingInv
    <3>2. /\ call[t].op \in {"receive", "take"}
          /\ uxMessagesWaiting' = [uxMessagesWaiting EXCEPT ![z] = @ - 1]
          /\ \E p : xTaskRemoveFromEventList(<<z, "send">>, 1, p)
      BY <1>2, <2>2 DEF ReceiveProceeds, TakeProceeds, Proceeds, Senders
    <3>3. uxMessagesWaiting[z] - 1 = uxMessagesWaiting[z] + (-1)
      BY <3>1
    <3>4. QED
      BY <3>2, <3>3
  <2>3. CASE SendProceeds(t) \/ GiveProceeds(t) \/ MutexGiveProceeds(t)
    <3>1. "receive" \in Sides
      BY DEF Sides
    <3>2. QED
      BY <2>1, <2>3, <3>1
  <2>4. CASE ReceiveProceeds(t) \/ TakeProceeds(t)
    <3>1. "send" \in Sides
      BY DEF Sides
    <3>2. QED
      BY <2>2, <2>4, <3>1
  <2>5. QED
    BY <2>3, <2>4
<1>4. PICK s \in Sides, n \in {-1, 1} : \E p :
         /\ uxMessagesWaiting' = [uxMessagesWaiting EXCEPT ![z] = @ + n]
         /\ xTaskRemoveFromEventList(<<z, s>>, 1, p)
         /\ IF n = 1 THEN s = "receive" /\ call[t].op \in {"send", "give"}
            ELSE s = "send" /\ call[t].op \in {"receive", "take"}
  BY <1>3
<1>5. QED
  BY <1>1, <1>2, <1>4, ProceedsWake

\* An interrupt gives: it wakes who waits, or leaves that to who has locked the queue.
LEMMA GiveWake ==
  ASSUME Before, Before', WakeInv, NEW z \in use.isr, xQueueGiveFromISR(z)
  PROVE  WakeInv'
<1>1. z \in Queue /\ pxCurrentTCB \in Task
  BY QueueAssumption DEF Before, CallInv
<1>2. PICK t \in Task : t = pxCurrentTCB
  BY <1>1
<1>3. UNCHANGED <<call, at, then, xEntryTimeSet, xTicksToWait, cRxLock>>
  BY DEF xQueueGiveFromISR, control, waits
<1>4. Alone(t) /\ GoesOnWith(t)
  BY <1>3 DEF Alone, GoesOnWith
<1>5. CallAt(t)'
  BY <1>3 DEF CallAt, WakeInv
<1>6. PICK s \in Sides : s = "receive"
  BY DEF Sides
<1>7. \A q \in Queue : /\ uxMessagesWaiting'[q] = uxMessagesWaiting[q] + (IF q = z THEN 1 ELSE 0)
                       /\ uxMessagesWaiting[q] \in Nat /\ uxLength[q] \in Nat
  <2>1. /\ uxMessagesWaiting' = [uxMessagesWaiting EXCEPT ![z] = @ + 1]
        /\ uxMessagesWaiting \in [Queue -> Nat]
    BY DEF Before, RingInv, xQueueGiveFromISR
  <2>2. \A q \in Queue : uxLength[q] \in Nat
    BY QueueAssumption
  <2>3. QED
    BY <1>1, <2>1, <2>2
<1>8. Offer(z, s)' = Offer(z, s) + 1
  BY <1>1, <1>6, <1>7 DEF Offer
<1>9. \A q \in Queue, r \in Sides : <<q, r>> # <<z, s>> => Offer(q, r)' <= Offer(q, r)
  BY <1>6, <1>7 DEF Offer, Sides
<1>10. ASSUME NEW q \in Queue, NEW r \in Sides
       PROVE  /\ ListAt(q, r) /\ LockAt(q, r) /\ OfferAt(q, r)
              /\ Offer(q, r) \in Nat /\ Posted(q, r) \in Int /\ Offer(q, r)' \in Nat
              /\ Asks(t, q, r)' <=> Asks(t, q, r)
  BY <1>3, WakeTypes, NextOffer DEF WakeInv, Before, Asks
<1>11. ListInv /\ ListInv' /\ PlaceInv
  BY DEF Before, ControlInv
<1>12. CASE cTxLock[z] = queueUNLOCKED
  <2>1. xTaskRemoveFromEventList(<<z, s>>, 1, uxPriority) /\ UNCHANGED locks
    BY <1>3, <1>6, <1>12 DEF xQueueGiveFromISR, Receivers, locks
  <2>2. <<z, s>> \in EventList
    BY <1>1, <1>11, ListOf
  <2>3. Thins(t) /\ Listed(z, s)' \cap Firsts(<<z, s>>, 1) = {}
    <3>1. /\ Thins(t)
          /\ Range(event'[<<z, s>>]) \subseteq Range(event[<<z, s>>]) \ Firsts(<<z, s>>, 1)
      BY <1>11, <2>1, <2>2, RemoveThins DEF WakeInv
    <3>2. QED
      BY <3>1 DEF Listed
  <2>4. Posted(z, s) = -1
    BY <1>6, <1>12 DEF Posted, queueUNLOCKED
  <2>5. ASSUME NEW q \in Queue, NEW r \in Sides
        PROVE  /\ call'[t].queue = q /\ at'[t] \in Lockers(r) => Posted(q, r) >= 0
               /\ Asks(t, q, r)' /\ at'[t] \in {"inherit", "place"} => Offer(q, r)' <= Posted(q, r)
    <3>1. call'[t].queue = q /\ at'[t] \in Lockers(r) => Posted(q, r) >= 0
      BY <1>3, <1>10 DEF LockAt
    <3>2. ASSUME Asks(t, q, r)', at'[t] \in {"inherit", "place"} PROVE Offer(q, r)' <= Posted(q, r)
      <4>1. Offer(q, r) <= Posted(q, r) /\ Posted(q, r) >= 0
        BY <1>3, <1>10, <3>2 DEF OfferAt, LockAt, Asks, Lockers
      <4>2. <<q, r>> # <<z, s>>
        BY <2>4, <4>1
      <4>3. QED
        BY <1>9, <1>10, <4>1, <4>2
    <3>3. QED
      BY <3>1, <3>2
  <2>6. QED
    BY <1>1, <1>2, <1>4, <1>5, <1>8, <1>9, <2>1, <2>3, <2>5, ServeWake
<1>13. CASE cTxLock[z] # queueUNLOCKED
  <2>1. /\ cTxLock' = [cTxLock EXCEPT ![z] = @ + 1] /\ UNCHANGED <<event, lists, xPendingReadyList>>
        /\ cTxLock \in [Queue -> Int]
    BY <1>11, <1>13 DEF xQueueGiveFromISR, ListInv
  <2>2. Thins(t)
    BY <2>1, SameThins DEF WakeInv
  <2>3. \A q \in Queue, r \in Sides :
           Posted(q, r)' = Posted(q, r) + (IF <<q, r>> = <<z, s>> THEN 1 ELSE 0)
    BY <1>1, <1>3, <1>6, <1>10, <2>1 DEF Posted, Sides
  <2>4. Posted(z, s) >= 0
    <3>1. Posted(z, s) # -1 /\ Posted(z, s) >= -1 /\ Posted(z, s) \in Int
      BY <1>1, <1>6, <1>10, <1>13 DEF LockAt, Posted, queueUNLOCKED
    <3>2. QED
      BY <3>1
  <2>5. ASSUME NEW q \in Queue, NEW r \in Sides
        PROVE  /\ Posted(q, r)' >= queueUNLOCKED /\ Posted(q, r)' >= Posted(q, r)
               /\ Posted(q, r)' \in Int /\ Owed(q, r) \in Nat
               /\ Offer(q, r)' + Owed(q, r) <= Offer(q, r) + Owed(q, r)'
               /\ Offer(q, r) <= Posted(q, r) => Offer(q, r)' <= Posted(q, r)'
    <3>1. Posted(q, r) \in Int /\ Posted(q, r) >= -1 /\ Offer(q, r) \in Nat /\ Offer(q, r)' \in Nat
      BY <1>10 DEF LockAt, queueUNLOCKED
    <3>2. CASE <<q, r>> = <<z, s>>
      <4>1. Posted(q, r)' = Posted(q, r) + 1 /\ Posted(q, r) >= 0 /\ Offer(q, r)' = Offer(q, r) + 1
        BY <1>8, <2>3, <2>4, <3>2
      <4>2. Owed(q, r) = Posted(q, r) /\ Owed(q, r)' = Posted(q, r)'
        BY <3>1, <4>1 DEF Owed, queueUNLOCKED
      <4>3. QED
        BY <3>1, <4>1, <4>2 DEF queueUNLOCKED
    <3>3. CASE <<q, r>> # <<z, s>>
      <4>1. Posted(q, r)' = Posted(q, r) /\ Offer(q, r)' <= Offer(q, r)
        BY <1>9, <2>3, <3>1, <3>3
      <4>2. Owed(q, r) \in Nat /\ Owed(q, r)' = Owed(q, r)
        BY <3>1, <4>1 DEF Owed, queueUNLOCKED
      <4>3. QED
        BY <3>1, <4>1, <4>2 DEF queueUNLOCKED
    <3>4. QED
      BY <3>2, <3>3
  <2>6. ASSUME NEW q \in Queue, NEW r \in Sides
        PROVE  /\ ListAt(q, r)'
               /\ call'[t].queue = q /\ at'[t] \in Lockers(r) => Posted(q, r)' >= 0
               /\ Asks(t, q, r)' /\ at'[t] \in {"inherit", "place"} => Offer(q, r)' <= Posted(q, r)'
               /\ Listed(q, r)' # {} => Offer(q, r)' <= Cardinality(Sure(q, r)') + Owed(q, r)'
    <3>1. ListAt(q, r)' /\ Listed(q, r)' \subseteq Listed(q, r)
      BY <1>4, <1>10, <1>11, <2>2, ThinsAt, ThinsLists DEF GoesOnWith
    <3>2. call'[t].queue = q /\ at'[t] \in Lockers(r) => Posted(q, r)' >= 0
      <4>1. call[t].queue = q /\ at[t] \in Lockers(r) => Posted(q, r) >= 0
        BY <1>10 DEF LockAt
      <4>2. QED
        BY <1>3, <1>10, <2>5, <4>1
    <3>3. Asks(t, q, r)' /\ at'[t] \in {"inherit", "place"} => Offer(q, r)' <= Posted(q, r)'
      BY <1>3, <1>10, <2>5 DEF OfferAt
    <3>4. Sure(q, r) \subseteq Sure(q, r)'
      <4>1. \A u \in Sure(q, r) : u \in Task
        BY DEF Sure
      <4>2. QED
        BY <1>4, <1>10, <1>11, <2>2, <4>1, ThinsSure
    <3>5. Listed(q, r)' # {} => Offer(q, r)' <= Cardinality(Sure(q, r)') + Owed(q, r)'
      BY <1>10, <2>5, <3>1, <3>4, OfferKept
    <3>6. QED
      BY <3>1, <3>2, <3>3, <3>5
  <2>7. ListsApart'
    BY <2>2 DEF Thins
  <2>8. QED
    BY <1>2, <1>4, <1>5, <2>5, <2>6, <2>7, StepWake
<1>14. QED
  BY <1>12, <1>13

-------------------------------------------------------------------------------
(***************************************************************************)
(* A call puts itself on the list it waits on.                             *)
(***************************************************************************)

LEMMA PlaceWake ==
  ASSUME Before, Before', WakeInv, NEW t \in Task, Place(t)
  PROVE  WakeInv'
<1>1. /\ Runs(t) /\ at[t] = "place" /\ UNCHANGED xPendingReadyList
      /\ UNCHANGED <<uxMessagesWaiting, call, xEntryTimeSet, xTicksToWait, locks>>
      /\ at' = [at EXCEPT ![t] = "unlock"] /\ then' = [then EXCEPT ![t] = "block"]
  BY DEF Place, StepUnchanged, Goes
<1>2. /\ t = pxCurrentTCB /\ at \in [Task -> Places] /\ call[t].op # "none"
      /\ then \in [Task -> {"none", "sleep", "hold"} \cup InTurn] /\ xEntryTimeSet[t]
      /\ t \notin Blocked /\ t \notin OnEvent
  <2>1. /\ t = pxCurrentTCB /\ at \in [Task -> Places] /\ call[t].op # "none"
        /\ then \in [Task -> {"none", "sleep", "hold"} \cup InTurn]
    BY <1>1, Whereabouts DEF Before, InCall, InWait
  <2>2. xEntryTimeSet[t]
    BY <1>1 DEF Before, TimeInv, WaitAt, InWait
  <2>3. t \notin Blocked /\ t \notin OnEvent
    BY <1>1, AwakeRuns DEF Leaving, Before
  <2>4. QED
    BY <2>1, <2>2, <2>3
<1>3. PICK z \in Queue : call[t].queue = z
  BY <1>2, CallFits DEF Before
<1>4. call[t].op \in {"send", "receive", "take"}
  <2>1. call[t].op \in OpsOf(call[t].queue)
    BY <1>2, CallFits DEF Before
  <2>2. call[t].op # "give"
    BY <1>1 DEF WakeInv, CallAt
  <2>3. QED
    BY <2>1, <2>2 DEF OpsOf
<1>5. PICK s \in Sides : s = IF call[t].op = "send" THEN "send" ELSE "receive"
  BY DEF Sides
<1>6. \A q \in Queue, r \in Sides : Asks(t, q, r) <=> <<q, r>> = <<z, s>>
  BY <1>3, <1>4, <1>5 DEF Asks, OpsAt, Sides
<1>7. /\ ListInv /\ ListInv' /\ PlaceInv /\ ListsApart
      /\ \A q \in Queue, r \in Sides : ListAt(q, r) /\ LockAt(q, r) /\ OfferAt(q, r)
  BY DEF Before, ControlInv, WakeInv
<1> DEFINE l == <<z, s>>
<1>8. /\ event' = [event EXCEPT ![l] = InOrder(@, t)]
      /\ prvAddCurrentTaskToDelayedList(xTicksToWait[t], TRUE)
  BY <1>1, <1>2, <1>3, <1>5 DEF Place, vTaskPlaceOnEventList, Senders, Receivers
<1>9. Blocked' = Blocked \cup {t} /\ ListsApart'
  BY <1>2, <1>7, <1>8, AddBlocks, AddApart
<1>10. /\ l \in EventList /\ event[l] \in Seq(Task) /\ t \notin Range(event[l])
       /\ event \in [EventList -> Seq(Task)] /\ IsInjective(event[l])
  BY <1>2, <1>7, ListOf, OnEventIs DEF ListInv, ListAt
<1>11. IsInjective(event'[l]) /\ Range(event'[l]) = Range(event[l]) \cup {t}
  <2>1. event'[l] = InOrder(event[l], t)
    BY <1>8, <1>10
  <2>2. QED
    BY <1>10, <2>1, InOrderOnce
<1> HIDE DEF l
<1>12. ASSUME NEW q \in Queue, NEW r \in Sides, <<q, r>> # l
       PROVE  event'[<<q, r>>] = event[<<q, r>>] /\ <<q, r>> \in EventList
  BY <1>7, <1>8, <1>10, <1>12, ListOf
<1>13. at'[t] = "unlock" /\ then'[t] = "block" /\ then[t] = "none" /\ at[t] # "enter" /\ Alone(t)
  BY <1>1, <1>2, NotSure DEF Alone, InWait
<1>14. CallAt(t)'
  BY <1>1, <1>4, <1>13 DEF CallAt
<1>15. ASSUME NEW q \in Queue, NEW r \in Sides
       PROVE  /\ Listed(q, r) \subseteq Listed(q, r)'
              /\ Listed(q, r)' \subseteq Listed(q, r) \cup {t}
              /\ t \in Listed(q, r)' <=> <<q, r>> = l
              /\ IsInjective(event'[<<q, r>>])
  <2>1. CASE <<q, r>> = l
    BY <1>11, <2>1 DEF Listed
  <2>2. CASE <<q, r>> # l
    <3>1. t \notin Range(event[<<q, r>>])
      BY <1>2, <1>12, <2>2, OnEventIs
    <3>2. QED
      BY <1>7, <1>12, <2>2, <3>1 DEF Listed, ListAt
  <2>3. QED
    BY <2>1, <2>2
<1>16. \A q \in Queue, r \in Sides, u \in Task : Asks(u, q, r)' <=> Asks(u, q, r)
  BY <1>1 DEF Asks
<1>17. ASSUME NEW q \in Queue, NEW r \in Sides PROVE ListAt(q, r)'
  <2>1. ASSUME NEW u \in Listed(q, r)' PROVE Asks(u, q, r)' /\ xEntryTimeSet'[u]
    <3>1. CASE u = t
      <4>1. Asks(t, q, r)
        BY <1>6, <1>15, <2>1, <3>1 DEF l
      <4>2. QED
        BY <1>1, <1>2, <1>16, <3>1, <4>1
    <3>2. CASE u # t
      <4>1. u \in Listed(q, r) /\ u \in Task
        BY <1>7, <1>15, <2>1, <3>2, ListOf
      <4>2. QED
        BY <1>1, <1>7, <1>16, <4>1 DEF ListAt
    <3>3. QED
      BY <3>1, <3>2
  <2>2. ASSUME NEW u \in Blocked' \ xPendingReadyList', Asks(u, q, r)' PROVE u \in Listed(q, r)'
    <3>1. CASE u = t
      BY <1>6, <1>15, <1>16, <2>2, <3>1 DEF l
    <3>2. CASE u # t
      <4>1. u \in Blocked \ xPendingReadyList /\ u \in Task
        BY <1>1, <1>7, <1>9, <2>2, <3>2 DEF ListInv
      <4>2. QED
        BY <1>7, <1>15, <1>16, <2>2, <4>1 DEF ListAt
    <3>3. QED
      BY <3>1, <3>2
  <2>3. QED
    BY <1>15, <2>1, <2>2 DEF ListAt
<1>18. ASSUME NEW q \in Queue, NEW r \in Sides
       PROVE  /\ Posted(q, r)' = Posted(q, r) /\ Owed(q, r)' = Owed(q, r)
              /\ Posted(q, r) >= queueUNLOCKED /\ Owed(q, r) \in Nat
              /\ Offer(q, r)' = Offer(q, r) /\ Offer(q, r) \in Nat
              /\ q = z => Posted(q, r) >= 0 /\ Owed(q, r) = Posted(q, r)
  <2>1. Posted(q, r)' = Posted(q, r) /\ Owed(q, r)' = Owed(q, r) /\ Offer(q, r)' = Offer(q, r)
    BY <1>1 DEF Posted, Owed, locks, Offer
  <2>2. Posted(q, r) \in Int /\ Offer(q, r) \in Nat /\ Posted(q, r) >= -1
    BY <1>7, WakeTypes DEF Before, LockAt, queueUNLOCKED
  <2>3. q = z => Posted(q, r) >= 0
    BY <1>1, <1>3, <1>7 DEF LockAt, Lockers
  <2>4. QED
    BY <2>1, <2>2, <2>3 DEF Owed, queueUNLOCKED
<1>19. ASSUME NEW q \in Queue, NEW r \in Sides, <<q, r>> = l
       PROVE  Offer(q, r)' <= Cardinality(Sure(q, r)') + Owed(q, r)'
  <2>1. Offer(q, r) <= Posted(q, r) /\ q = z
    BY <1>1, <1>6, <1>7, <1>19 DEF OfferAt, l
  <2>2. Sure(q, r)' \subseteq Task
    BY DEF Sure
  <2>3. Cardinality(Sure(q, r)') \in Nat
    BY <2>2, SureCount
  <2>4. QED
    BY <1>18, <2>1, <2>3
<1>20. ASSUME NEW q \in Queue, NEW r \in Sides, <<q, r>> # l
       PROVE  Listed(q, r)' # {} => Offer(q, r)' <= Cardinality(Sure(q, r)') + Owed(q, r)'
  <2>1. Listed(q, r)' = Listed(q, r)
    BY <1>15, <1>20
  <2>2. ASSUME NEW u \in Sure(q, r) PROVE u \in Sure(q, r)'
    <3>1. u # t /\ u \in Task
      BY <1>1, <2>2, NotSure DEF InWait, Sure
    <3>2. at'[u] = at[u] /\ then'[u] = then[u]
      BY <1>13, <3>1 DEF Alone
    <3>3. QED
      BY <1>1, <1>16, <2>1, <2>2, <3>1, <3>2 DEF Sure
  <2>3. Posted(q, r)' >= queueUNLOCKED /\ Offer(q, r)' + Owed(q, r) <= Offer(q, r) + Owed(q, r)'
    BY <1>18
  <2>4. QED
    BY <1>7, <2>1, <2>2, <2>3, OfferKept
<1>21. ASSUME NEW q \in Queue, NEW r \in Sides
       PROVE  /\ Posted(q, r)' >= queueUNLOCKED
              /\ call'[t].queue = q /\ at'[t] \in Lockers(r) => Posted(q, r)' >= 0
  BY <1>1, <1>3, <1>18
<1>22. at'[t] \notin {"inherit", "place"}
  BY <1>13
<1>23. QED
  BY <1>2, <1>9, <1>13, <1>14, <1>17, <1>19, <1>20, <1>21, <1>22, StepWake

-------------------------------------------------------------------------------

LEMMA InitWake == QueuesInit => WakeInv
<1> SUFFICES ASSUME QueuesInit PROVE WakeInv
  OBVIOUS
<1>1. /\ pxDelayedTaskList = {} /\ pxOverflowDelayedTaskList = {} /\ event = [l \in EventList |-> <<>>]
      /\ at = [t \in Task |-> "out"] /\ xTicksToWait = [t \in Task |-> 0]
      /\ call = [t \in Task |-> NoCall]
      /\ cTxLock = [q \in Queue |-> queueUNLOCKED] /\ cRxLock = [q \in Queue |-> queueUNLOCKED]
  BY DEF QueuesInit, SchedulerInit
<1>2. \A t \in Task : call[t].op = "none" /\ at[t] = "out"
  BY <1>1 DEF NoCall
<1>3. ListsApart /\ \A t \in Task : CallAt(t)
  BY <1>1, <1>2 DEF ListsApart, CallAt
<1>4. ASSUME NEW q \in Queue, NEW s \in Sides PROVE ListAt(q, s) /\ LockAt(q, s) /\ OfferAt(q, s)
  <2>1. <<q, s>> \in EventList /\ event[<<q, s>>] = <<>>
    BY <1>1, QueueAssumption DEF Sides
  <2>2. IsInjective(event[<<q, s>>]) /\ Listed(q, s) = {}
    BY <2>1, EmptySeq DEF IsInjective, Listed, Range
  <2>3. \A t \in Task : ~Asks(t, q, s)
    BY <1>2 DEF Asks, OpsAt
  <2>4. Blocked \subseteq Task
    BY DEF QueuesInit, SchedulerInit, Blocked
  <2>5. ListAt(q, s)
    BY <2>2, <2>3, <2>4 DEF ListAt
  <2>6. Posted(q, s) = -1
    BY <1>1 DEF Posted, queueUNLOCKED
  <2>7. \A t \in Task : at[t] \notin Lockers(s)
    BY <1>2 DEF Lockers
  <2>8. LockAt(q, s) /\ OfferAt(q, s)
    BY <2>2, <2>3, <2>6, <2>7 DEF LockAt, OfferAt, queueUNLOCKED
  <2>9. QED
    BY <2>5, <2>8
<1>5. QED
  BY <1>3, <1>4 DEF WakeInv

LEMMA NextWake ==
  ASSUME Before, Before', WakeInv, [KernelNext]_allVars
  PROVE  WakeInv'
<1>1. CASE UNCHANGED allVars
  BY <1>1, StillSteps
<1>2. CASE UNCHANGED queueVars /\ (SysTick \/ SysTickPended \/ vTaskSwitchContext)
  BY <1>2, StillSteps, TickWake
<1>3. CASE \E q \in use.isr : xQueueGiveFromISR(q)
  BY <1>3, GiveWake
<1>4. ASSUME NEW t \in Task, UNCHANGED queueVars,
             \/ xTaskResumeAll(t) \/ ResumeTick(t) \/ ResumeEnds(t) \/ portYIELD_WITHIN_API(t)
             \/ DelayAdds(t) \/ DelayEnds(t) \/ HeapSuspends(t) \/ vTaskYield(t)
             \/ \E c \in use.calls[t] : vTaskDelay(t, c.wait)
      PROVE  WakeInv'
  BY <1>4, ResumeWake, TickWake, OnwardSteps, AddWake, StillSteps
<1>5. ASSUME NEW t \in Task, NEW c \in use.calls[t], c.queue \in Queue, Begin(t, c)
      PROVE  WakeInv'
  BY <1>5, BeginWake
<1>6. ASSUME NEW t \in Task,
             \/ SendProceeds(t) \/ GiveProceeds(t) \/ MutexGiveProceeds(t) \/ ReceiveProceeds(t)
             \/ TakeProceeds(t)
      PROVE  WakeInv'
  BY <1>6, ProceedsSteps
<1>7. ASSUME NEW t \in Task,
             \/ GivesUp(t) \/ Expired(t) \/ DisinheritAfterTimeout(t) \/ EntersWait(t) \/ Suspends(t)
             \/ prvLockQueue(t) \/ CheckForTimeOut(t) \/ Looks(t) \/ xTaskPriorityInherit(t)
             \/ Place(t) \/ prvUnlockQueue(t) \/ prvUnlockQueueRx(t) \/ ExpiredLooks(t)
      PROVE  WakeInv'
  BY <1>7, ReturnWake, EnterWake, OnwardSteps, LockWake, LookWake, PlaceWake, UnlockSteps
<1>8. QED
  BY <1>1, <1>2, <1>3, <1>4, <1>5, <1>6, <1>7, KernelSteps

\* Who waits is on the list, so whatever is there for it has somebody that is sure to look.
LEMMA WakeIsNotLost ==
  ASSUME Before, WakeInv
  PROVE  NoLostWakeup
<1>1. ASSUME NEW q \in Queue, NEW s \in Sides, Posted(q, s) = queueUNLOCKED,
             Waiting(q, OpsAt(s)) # {}
      PROVE  Offer(q, s) <= Cardinality(InFlight(q, OpsAt(s)))
  <2>1. ListInv /\ ListAt(q, s) /\ OfferAt(q, s)
    BY DEF Before, ControlInv, WakeInv
  <2>2. \A t \in Waiting(q, OpsAt(s)) : t \in Listed(q, s)
    BY <2>1 DEF Waiting, ListAt, Asks
  <2>3. Offer(q, s) <= Cardinality(Sure(q, s)) + 0
    BY <1>1, <2>1, <2>2 DEF OfferAt, Owed
  <2>4. Sure(q, s) \subseteq InFlight(q, OpsAt(s)) /\ InFlight(q, OpsAt(s)) \subseteq Task
    BY <2>2 DEF Sure, Asks, InFlight
  <2>5. /\ Cardinality(Sure(q, s)) <= Cardinality(InFlight(q, OpsAt(s)))
        /\ Cardinality(InFlight(q, OpsAt(s))) \in Nat
    BY <2>4, SureCount, WakeTypes DEF Before
  <2>6. Offer(q, s) \in Nat /\ Cardinality(Sure(q, s)) \in Nat
    BY WakeTypes DEF Before
  <2>7. QED
    BY <2>3, <2>5, <2>6
<1>2. ASSUME NEW q \in Queue
      PROVE  /\ cTxLock[q] = queueUNLOCKED /\ Waiting(q, {"receive", "take"}) # {} =>
                    uxMessagesWaiting[q] <= Cardinality(InFlight(q, {"receive", "take"}))
             /\ cRxLock[q] = queueUNLOCKED /\ Waiting(q, {"send"}) # {} =>
                    uxLength[q] - uxMessagesWaiting[q] <= Cardinality(InFlight(q, {"send"}))
  <2>1. /\ "receive" \in Sides /\ OpsAt("receive") = {"receive", "take"}
        /\ Posted(q, "receive") = cTxLock[q] /\ Offer(q, "receive") = uxMessagesWaiting[q]
    BY DEF Sides, OpsAt, Posted, Offer
  <2>2. /\ "send" \in Sides /\ OpsAt("send") = {"send"}
        /\ Posted(q, "send") = cRxLock[q] /\ Offer(q, "send") = uxLength[q] - uxMessagesWaiting[q]
    BY DEF Sides, OpsAt, Posted, Offer
  <2>3. cTxLock[q] = queueUNLOCKED /\ Waiting(q, {"receive", "take"}) # {} =>
           uxMessagesWaiting[q] <= Cardinality(InFlight(q, {"receive", "take"}))
    BY <1>1, <2>1
  <2>4. cRxLock[q] = queueUNLOCKED /\ Waiting(q, {"send"}) # {} =>
           uxLength[q] - uxMessagesWaiting[q] <= Cardinality(InFlight(q, {"send"}))
    BY <1>1, <2>2
  <2>5. QED
    BY <2>3, <2>4
<1>3. QED
  BY <1>2 DEF NoLostWakeup

\* No wake-up is lost between a call's look at the queue and its wait: while somebody waits for
\* an unlocked queue, every item there, and every free place, has a task awake that will take
\* it, whatever interrupts gave while the queue was locked and the scheduler suspended, and
\* however many tasks wait, time out or come in between.
THEOREM KernelNoLostWakeup == KernelSpec => []NoLostWakeup
<1>1. QueuesInit => RingInv /\ WakeInv
  BY InitRing, InitWake
<1>2. ASSUME CallInv, ControlInv, TimeInv, (CallInv /\ ControlInv /\ TimeInv)', RingInv, WakeInv,
             [KernelNext]_allVars
      PROVE  (RingInv /\ WakeInv)'
  <2>1. RingInv'
    BY <1>2, NextRing
  <2>2. Before /\ Before'
    BY <1>2, <2>1 DEF Before
  <2>3. QED
    BY <1>2, <2>1, <2>2, NextWake
<1>3. CallInv /\ ControlInv /\ TimeInv /\ RingInv /\ WakeInv => NoLostWakeup
  BY WakeIsNotLost DEF Before
<1>4. QED
  BY <1>1, <1>2, <1>3, KernelInvariant, PTL DEF KernelSpec
================================================================================
