---------------------------------- MODULE Emac ----------------------------------
(***************************************************************************)
(* The Ethernet driver (lpc18xx_43xx_emac.c): a ring of descriptors for    *)
(* each direction, which the driver fills and the DMA of the MAC empties,  *)
(* or the reverse.                                                         *)
(*                                                                         *)
(* The tcpip thread outputs frames; the receive task takes frames from the *)
(* ring and posts them to the tcpip thread; the cleanup task releases what *)
(* has been sent.  The last two are woken by the interrupt, and have a     *)
(* lower priority than the first.                                          *)
(***************************************************************************)
EXTENDS Naturals, Sequences, FiniteSets

CONSTANTS
    LPC_NUM_BUFF_TXDESCS,
    LPC_NUM_BUFF_RXDESCS,
    TCPIP_MBOX_SIZE,
    TcpipPriority,      \* configMAX_PRIORITIES - 1: xTaskCreate lowers the 8 of tcpip_init
    MacPriority,        \* tskTXCLEAN_PRIORITY and tskRECPKT_PRIORITY
    TxPbufs,            \* the frames of the stack, which it may output again and again
    pbuf_clen,          \* their number of fragments
    RxPbufs,            \* as many buffers as the memory has room for
    Frames,             \* what comes in: "stack", another protocol, "other", or "error"
    NULL

ASSUME EmacAssumption ==
    /\ LPC_NUM_BUFF_TXDESCS \in Nat \ {0, 1}
    /\ LPC_NUM_BUFF_RXDESCS \in Nat \ {0, 1, 2}
    /\ pbuf_clen \in [TxPbufs -> 1 .. LPC_NUM_BUFF_TXDESCS]
    /\ IsFiniteSet(RxPbufs)
    /\ NULL \notin TxPbufs \cup RxPbufs \cup {"tcpip", "receive", "clean"}

VARIABLES
    at,                 \* where each thread is
    RxSem, TxCleanSem,  \* the semaphores that wake the receive and the cleanup task
    DMA_STAT,           \* what the MAC interrupts for: the group of RI or that of TI
    TXLockMutex,        \* its holder, or NULL
    \* transmission
    ptdesc, txpbufs, tx_free_descs, tx_fill_idx, tx_reclaim_idx,
    output,             \* the frame being output, the fragments filled in, and idx
    ref,                \* the references to each frame that the driver has
    txDma,              \* the DMA: its next descriptor, and whether it is suspended
    due,                \* history: the fragments output and not yet sent
    \* reception
    prdesc, rxpbufs, rx_free_descs, rx_get_idx, rx_next_idx,
    rxDma,              \* the next descriptor of the DMA
    memory,             \* the buffers that are free
    got,                \* what lpc_low_level_input is to return: a buffer and its frame, or <<>>
    mbox,               \* the mailbox of the tcpip thread
    kept,               \* the buffers that the stack or the application has
    arrived             \* history: the frames received and not yet taken

wakeVars == <<RxSem, TxCleanSem, DMA_STAT>>
txVars == <<ptdesc, txpbufs, tx_free_descs, tx_fill_idx, tx_reclaim_idx, output, ref,
             txDma, due>>
rxVars == <<prdesc, rxpbufs, rx_free_descs, rx_get_idx, rx_next_idx, rxDma, memory, got, mbox,
            kept, arrived>>
emacVars == <<at, wakeVars, TXLockMutex, txVars, rxVars>>

Threads == {"tcpip", "receive", "clean"}
TxIndex == 0 .. LPC_NUM_BUFF_TXDESCS - 1
RxIndex == 0 .. LPC_NUM_BUFF_RXDESCS - 1
TxNext(i) == (i + 1) % LPC_NUM_BUFF_TXDESCS
RxNext(i) == (i + 1) % LPC_NUM_BUFF_RXDESCS

lpc_tx_setup ==
    /\ ptdesc = [i \in TxIndex |-> [flags |-> {}, B1ADD |-> <<NULL, 0>>]]
    /\ txpbufs = [i \in TxIndex |-> NULL]
    /\ tx_free_descs = LPC_NUM_BUFF_TXDESCS
    /\ tx_fill_idx = 0 /\ tx_reclaim_idx = 0
    /\ output = [p |-> NULL, done |-> 0, idx |-> 0]
    /\ ref = [p \in TxPbufs |-> 0]
    /\ txDma = [idx |-> 0, suspended |-> FALSE]
    /\ due = <<>>

\* lpc_rx_queue, for the first time: a buffer in each descriptor, or in as many as there are.
lpc_rx_setup ==
    LET filled == {i \in RxIndex : i < Cardinality(RxPbufs)}
        b == CHOOSE b \in [filled -> RxPbufs] : \A i, j \in filled : b[i] = b[j] => i = j
    IN      /\ rxpbufs = [i \in RxIndex |-> IF i \in filled THEN b[i] ELSE NULL]
            /\ prdesc = [i \in RxIndex |-> [OWN |-> i \in filled, frame |-> NULL]]
            /\ memory = RxPbufs \ {b[i] : i \in filled}
            /\ rx_free_descs = LPC_NUM_BUFF_RXDESCS - Cardinality(filled)
            /\ rx_get_idx = 0
            /\ rx_next_idx = Cardinality(filled) % LPC_NUM_BUFF_RXDESCS
            /\ rxDma = 0

lpc_enetif_init ==
    /\ at = [tcpip |-> "fetch", receive |-> "sem", clean |-> "sem"]
    /\ RxSem = FALSE /\ TxCleanSem = FALSE
    /\ DMA_STAT = {}
    /\ TXLockMutex = NULL
    /\ lpc_tx_setup
    /\ lpc_rx_setup
    /\ got = <<>> /\ mbox = <<>> /\ kept = {} /\ arrived = <<>>

-------------------------------------------------------------------------------
(* The scheduler: strict priorities, lent by those who wait for the mutex.  *)

WaitsForLock(t) == at[t] = "lock" /\ TXLockMutex # NULL

Ready(t) ==
    /\ ~WaitsForLock(t)
    /\ t = "tcpip" => at[t] # "fetch" \/ mbox # <<>>
    /\ t = "receive" => at[t] # "sem" \/ RxSem
    /\ t = "clean" => at[t] # "sem" \/ TxCleanSem

BasePriority(t) == IF t = "tcpip" THEN TcpipPriority ELSE MacPriority

Priorities(t) ==
    {BasePriority(u) : u \in {u \in Threads : u = t \/ (TXLockMutex = t /\ WaitsForLock(u))}}

Runs(t) ==
    /\ Ready(t)
    /\ \A u \in Threads : Ready(u) =>
           \A p \in Priorities(u) : \E q \in Priorities(t) : q >= p

Goes(t, from, to) == at[t] = from /\ at' = [at EXCEPT ![t] = to]

TakesLock(t, to) ==
    /\ Runs(t) /\ Goes(t, "lock", to)
    /\ TXLockMutex' = t

-------------------------------------------------------------------------------
(* The tcpip thread. *)

\* A frame from the receive task; the stack returns the buffer, or keeps it for a while.
Fetch ==
    /\ Runs("tcpip") /\ Goes("tcpip", "fetch", "work")
    /\ mbox # <<>>
    /\ mbox' = Tail(mbox)
    /\ \/ memory' = memory \cup {Head(mbox)} /\ UNCHANGED kept
       \/ kept' = kept \cup {Head(mbox)} /\ UNCHANGED memory
    /\ UNCHANGED <<wakeVars, TXLockMutex, txVars, prdesc, rxpbufs, rx_free_descs, rx_get_idx,
                   rx_next_idx, rxDma, got, arrived>>

\* A call of the tcp thread, or a timer; a mailbox is emptied in order.
OtherMessage ==
    /\ Goes("tcpip", "fetch", "work")
    /\ mbox = <<>>
    /\ UNCHANGED <<wakeVars, TXLockMutex, txVars, rxVars>>

\* The stack or the application has done with a frame.
Release(p) ==
    /\ at["tcpip"] \in {"fetch", "work"}
    /\ p \in kept
    /\ kept' = kept \ {p}
    /\ memory' = memory \cup {p}
    /\ UNCHANGED <<at, wakeVars, TXLockMutex, txVars, prdesc, rxpbufs, rx_free_descs, rx_get_idx,
                   rx_next_idx, rxDma, got, mbox, arrived>>

\* The message leads to no output.
NoOutput ==
    /\ Runs("tcpip") /\ Goes("tcpip", "work", "fetch")
    /\ UNCHANGED <<wakeVars, TXLockMutex, txVars, rxVars>>

\* It leads to one: lpc_low_level_output is called.
Output(p) ==
    /\ Runs("tcpip") /\ Goes("tcpip", "work", "wait")
    /\ output' = [p |-> p, done |-> 0, idx |-> tx_fill_idx]
    /\ UNCHANGED <<wakeVars, TXLockMutex, ptdesc, txpbufs, tx_free_descs, tx_fill_idx,
                   tx_reclaim_idx, ref, txDma, due, rxVars>>

dn == pbuf_clen[output.p]

\* lpc_tx_ready: the thread looks again and again.  xSemaphoreTake(xTXDCountSem, 0) in the
\* loop does not wait, and nothing depends on that count: it is left out.
Spinning == at["tcpip"] = "wait" /\ dn > tx_free_descs

Spin == Runs("tcpip") /\ Spinning /\ UNCHANGED emacVars

Enough ==
    /\ Runs("tcpip") /\ Goes("tcpip", "wait", "lock")
    /\ dn <= tx_free_descs
    /\ UNCHANGED <<wakeVars, TXLockMutex, txVars, rxVars>>

LockForOutput ==
    /\ TakesLock("tcpip", "fill")
    /\ due' = due \o [k \in 1 .. dn |-> <<output.p, k>>]
    /\ UNCHANGED <<wakeVars, ptdesc, txpbufs, tx_free_descs, tx_fill_idx, tx_reclaim_idx,
                   output, ref, txDma, rxVars>>

\* Mutant: the first fragment is given to the DMA as the others are.
OwnedAtOnce(first, last) == {"OWN"} \cup (IF first THEN {"FS"} ELSE {})
                                    \cup (IF last THEN {"LS"} ELSE {})

\* The bits that a fragment adds to its descriptor.
FlagsOf(first, last) == (IF first THEN {"FS"} ELSE {"OWN"}) \cup (IF last THEN {"LS"} ELSE {})

\* Mutant: the frame is released with its first fragment.
SavedFirst(first, last) == IF first THEN output.p ELSE NULL

\* The frame is released with its last fragment.
Saved(first, last) == IF last THEN output.p ELSE NULL

\* One round of the loop that fills in the descriptors.
Fill ==
    /\ Runs("tcpip")
    /\ at["tcpip"] = "fill" /\ output.done < dn
    /\ LET idx == output.idx
           first == output.done = 0
           last == output.done + 1 = dn
       IN  /\ ptdesc' = [ptdesc EXCEPT ![idx] =
                            [flags |-> @.flags \cup FlagsOf(first, last),
                             B1ADD |-> <<output.p, output.done + 1>>]]
           /\ txpbufs' = [txpbufs EXCEPT ![idx] = Saved(first, last)]
           /\ ref' = IF first THEN [ref EXCEPT ![output.p] = @ + 1] ELSE ref
           /\ output' = [output EXCEPT !.done = @ + 1, !.idx = TxNext(idx)]
    /\ tx_free_descs' = tx_free_descs - 1
    /\ UNCHANGED <<at, wakeVars, TXLockMutex, tx_fill_idx, tx_reclaim_idx, txDma,
                   due, rxVars>>

\* The first descriptor, and with it the frame, is given to the DMA ...
GiveFirst ==
    /\ Runs("tcpip")
    /\ Goes("tcpip", "fill", "poll")
    /\ output.done = dn
    /\ ptdesc' = [ptdesc EXCEPT ![tx_fill_idx].flags = @ \cup {"OWN"}]
    /\ tx_fill_idx' = output.idx
    /\ UNCHANGED <<wakeVars, TXLockMutex, txpbufs, tx_free_descs, tx_reclaim_idx,
                   output, ref, txDma, due, rxVars>>

\* Mutant: the DMA is not told.
PollForgotten ==
    /\ Runs("tcpip") /\ Goes("tcpip", "poll", "fetch")
    /\ TXLockMutex' = NULL
    /\ output' = [p |-> NULL, done |-> 0, idx |-> 0]
    /\ UNCHANGED <<wakeVars, txDma, ptdesc, txpbufs, tx_free_descs, tx_fill_idx, tx_reclaim_idx,
                   ref, due, rxVars>>

\* ... which is told (DMA_TRANS_POLL_DEMAND); the mutex is given, and the output returns.
Poll ==
    /\ Runs("tcpip") /\ Goes("tcpip", "poll", "fetch")
    /\ txDma' = [txDma EXCEPT !.suspended = FALSE]
    /\ TXLockMutex' = NULL
    /\ output' = [p |-> NULL, done |-> 0, idx |-> 0]
    /\ UNCHANGED <<wakeVars, ptdesc, txpbufs, tx_free_descs, tx_fill_idx, tx_reclaim_idx,
                   ref, due, rxVars>>

lpc_low_level_output == Spin \/ Enough \/ LockForOutput \/ Fill \/ GiveFirst \/ Poll

tcpip_thread == Fetch \/ NoOutput \/ (\E p \in TxPbufs : Output(p)) \/ lpc_low_level_output

-------------------------------------------------------------------------------
(* The cleanup task. *)

CleanWakes ==
    /\ Runs("clean") /\ Goes("clean", "sem", "lock")
    /\ TxCleanSem' = FALSE
    /\ UNCHANGED <<RxSem, DMA_STAT, TXLockMutex, txVars, rxVars>>

LockForReclaim ==
    /\ TakesLock("clean", "reclaim")
    /\ UNCHANGED <<wakeVars, txVars, rxVars>>

Reclaimable ==
    /\ tx_free_descs < LPC_NUM_BUFF_TXDESCS
    /\ "OWN" \notin ptdesc[tx_reclaim_idx].flags

\* CTRLSTAT is set anew.  The addresses that stay behind in a descriptor nobody uses are
\* replaced by NULL here, on both rings: they are of no more use.
Reclaimed(desc) == [flags |-> {}, B1ADD |-> <<NULL, 0>>]

\* One round of the loop of lpc_tx_reclaim.
Reclaim ==
    /\ Runs("clean") /\ at["clean"] = "reclaim"
    /\ Reclaimable
    /\ LET p == txpbufs[tx_reclaim_idx]
       IN  ref' = IF p # NULL THEN [ref EXCEPT ![p] = @ - 1] ELSE ref
    /\ ptdesc' = [ptdesc EXCEPT ![tx_reclaim_idx] = Reclaimed(@)]
    /\ txpbufs' = [txpbufs EXCEPT ![tx_reclaim_idx] = NULL]
    /\ tx_free_descs' = tx_free_descs + 1
    /\ tx_reclaim_idx' = TxNext(tx_reclaim_idx)
    /\ UNCHANGED <<at, wakeVars, TXLockMutex, tx_fill_idx, output, txDma, due, rxVars>>

ReclaimEnds ==
    /\ Runs("clean") /\ Goes("clean", "reclaim", "sem")
    /\ ~Reclaimable
    /\ TXLockMutex' = NULL
    /\ UNCHANGED <<wakeVars, txVars, rxVars>>

vTransmitCleanupTask == CleanWakes \/ LockForReclaim \/ Reclaim \/ ReclaimEnds

-------------------------------------------------------------------------------
(* The receive task. *)

ReceiveWakes ==
    /\ Runs("receive") /\ Goes("receive", "sem", "loop")
    /\ RxSem' = FALSE
    /\ UNCHANGED <<TxCleanSem, DMA_STAT, TXLockMutex, txVars, rxVars>>

\* The next descriptor belongs to the DMA.
NothingReceived ==
    /\ Runs("receive") /\ Goes("receive", "loop", "sem")
    /\ prdesc[rx_get_idx].OWN
    /\ UNCHANGED <<wakeVars, TXLockMutex, txVars, rxVars>>

\* lpc_rxqueue_pbuf, on the ring it finds.
Queue(p, pbufs, desc, free) ==
    /\ rxpbufs' = [pbufs EXCEPT ![rx_next_idx] = p]
    /\ prdesc' = [desc EXCEPT ![rx_next_idx] = [OWN |-> TRUE, frame |-> NULL]]
    /\ rx_free_descs' = free - 1
    /\ rx_next_idx' = RxNext(rx_next_idx)

\* Mutant: a ring without a used descriptor is not told from others.
NeverAllFree == FALSE

AllFree == rx_free_descs = LPC_NUM_BUFF_RXDESCS

\* lpc_low_level_input finds no used descriptor, and tries to set up some.
SetUpSome ==
    /\ Runs("receive") /\ Goes("receive", "loop", "queue")
    /\ ~prdesc[rx_get_idx].OWN
    /\ AllFree
    /\ UNCHANGED <<wakeVars, TXLockMutex, txVars, rxVars>>

\* It takes the frame; a buffer with an error is queued again.
Take ==
    /\ Runs("receive") /\ at["receive"] = "loop"
    /\ ~prdesc[rx_get_idx].OWN
    /\ ~AllFree
    /\ LET p == rxpbufs[rx_get_idx]
           frame == prdesc[rx_get_idx].frame
           pbufs == [rxpbufs EXCEPT ![rx_get_idx] = NULL]
           desc == [prdesc EXCEPT ![rx_get_idx].frame = NULL]
       IN  IF frame = "error"
           THEN Queue(p, pbufs, desc, rx_free_descs + 1) /\ UNCHANGED <<at, got>>
           ELSE /\ rxpbufs' = pbufs /\ prdesc' = desc
                /\ rx_free_descs' = rx_free_descs + 1
                /\ got' = <<p, frame>>
                /\ Goes("receive", "loop", "queue")
                /\ UNCHANGED rx_next_idx
    /\ rx_get_idx' = RxNext(rx_get_idx)
    /\ arrived' = SubSeq(arrived, 2, Len(arrived))
    /\ UNCHANGED <<wakeVars, TXLockMutex, txVars, rxDma, memory, mbox, kept>>

\* One round of the loop of lpc_rx_queue, ...
QueueAnother ==
    /\ Runs("receive") /\ at["receive"] = "queue"
    /\ rx_free_descs > 0 /\ memory # {}
    /\ LET p == CHOOSE p \in memory : TRUE
       IN  Queue(p, rxpbufs, prdesc, rx_free_descs) /\ memory' = memory \ {p}
    /\ UNCHANGED <<at, wakeVars, TXLockMutex, txVars, rx_get_idx, rxDma, got, mbox, kept, arrived>>

\* ... and its end.
QueueEnds ==
    /\ Runs("receive")
    /\ rx_free_descs = 0 \/ memory = {}
    /\ Goes("receive", "queue", IF got = <<>> THEN "loop" ELSE "deliver")
    /\ UNCHANGED <<wakeVars, TXLockMutex, txVars, rxVars>>

\* The frame is posted, if it is for the stack and there is room and memory for the message.
Post ==
    /\ Runs("receive") /\ Goes("receive", "deliver", "loop")
    /\ got[2] = "stack"
    /\ Len(mbox) < TCPIP_MBOX_SIZE
    /\ mbox' = Append(mbox, got[1])
    /\ got' = <<>>
    /\ UNCHANGED <<wakeVars, TXLockMutex, txVars, prdesc, rxpbufs, rx_free_descs, rx_get_idx,
                   rx_next_idx, rxDma, memory, kept, arrived>>

\* pbuf_free
Drop ==
    /\ Runs("receive") /\ Goes("receive", "deliver", "loop")
    /\ memory' = memory \cup {got[1]}
    /\ got' = <<>>
    /\ UNCHANGED <<wakeVars, TXLockMutex, txVars, prdesc, rxpbufs, rx_free_descs, rx_get_idx,
                   rx_next_idx, rxDma, mbox, kept, arrived>>

vPacketReceiveTask ==
    ReceiveWakes \/ NothingReceived \/ SetUpSome \/ Take \/ QueueAnother \/ QueueEnds \/ Post
    \/ Drop

-------------------------------------------------------------------------------
(* The MAC and its interrupt. *)

\* The DMA sends a fragment; the last one of a frame raises the transmit interrupt.
DmaSends ==
    LET i == txDma.idx
    IN  /\ ~txDma.suspended
        /\ "OWN" \in ptdesc[i].flags
        /\ ptdesc' = [ptdesc EXCEPT ![i].flags = @ \ {"OWN"}]
        /\ txDma' = [txDma EXCEPT !.idx = TxNext(i)]
        /\ due' = SubSeq(due, 2, Len(due))
        /\ DMA_STAT' = IF "LS" \in ptdesc[i].flags THEN DMA_STAT \cup {"TI"} ELSE DMA_STAT
        /\ UNCHANGED <<at, RxSem, TxCleanSem, TXLockMutex, txpbufs, tx_free_descs, tx_fill_idx,
                       tx_reclaim_idx, output, ref, rxVars>>

\* The next descriptor is not the DMA's: it stops, until polled.
DmaSuspends ==
    /\ ~txDma.suspended
    /\ "OWN" \notin ptdesc[txDma.idx].flags
    /\ txDma' = [txDma EXCEPT !.suspended = TRUE]
    /\ DMA_STAT' = DMA_STAT \cup {"TI"}
    /\ UNCHANGED <<at, RxSem, TxCleanSem, TXLockMutex, ptdesc, txpbufs, tx_free_descs,
                   tx_fill_idx, tx_reclaim_idx, output, ref, due, rxVars>>

\* A frame comes in, and is lost where no descriptor is ready.  After that the DMA looks again
\* when it is polled, and also when the next frame comes.
FrameComes(frame) ==
    /\ IF prdesc[rxDma].OWN
       THEN /\ prdesc' = [prdesc EXCEPT ![rxDma] = [OWN |-> FALSE, frame |-> frame]]
            /\ rxDma' = RxNext(rxDma)
            /\ arrived' = Append(arrived, frame)
       ELSE UNCHANGED <<prdesc, rxDma, arrived>>
    /\ DMA_STAT' = DMA_STAT \cup {"RI"}
    /\ UNCHANGED <<at, RxSem, TxCleanSem, TXLockMutex, txVars, rxpbufs, rx_free_descs,
                   rx_get_idx, rx_next_idx, memory, got, mbox, kept>>

ETH_IRQHandler ==
    /\ DMA_STAT # {}
    /\ RxSem' = (RxSem \/ "RI" \in DMA_STAT)
    /\ TxCleanSem' = (TxCleanSem \/ "TI" \in DMA_STAT)
    /\ DMA_STAT' = {}
    /\ UNCHANGED <<at, TXLockMutex, txVars, rxVars>>

\* Everything but what comes in.
EmacStep ==
    \/ tcpip_thread \/ OtherMessage \/ (\E p \in RxPbufs : Release(p))
    \/ vTransmitCleanupTask \/ vPacketReceiveTask
    \/ DmaSends \/ DmaSuspends
    \/ ETH_IRQHandler

EmacNext == EmacStep \/ \E f \in Frames : FrameComes(f)

EmacSpec == lpc_enetif_init /\ [][EmacNext]_emacVars

\* Once it has something to do the tcpip thread goes on; threads that are ready again and
\* again get their turn, since those of one priority share the time; the hardware works.
EmacFairSpec ==
    /\ EmacSpec
    /\ WF_emacVars(tcpip_thread)
    /\ SF_emacVars(vTransmitCleanupTask)
    /\ SF_emacVars(vPacketReceiveTask)
    /\ WF_emacVars(DmaSends \/ DmaSuspends)
    /\ WF_emacVars(ETH_IRQHandler)

-------------------------------------------------------------------------------

\* How far i is ahead of start in a ring of n descriptors.
Ahead(i, start, n) == IF i >= start THEN i - start ELSE i + n - start

\* The buffers in the used part of the receive ring, from the next one to be taken on.
RxAhead(i) == Ahead(i, rx_get_idx, LPC_NUM_BUFF_RXDESCS)
RxUsed == LPC_NUM_BUFF_RXDESCS - rx_free_descs
Used == {i \in RxIndex : RxAhead(i) < RxUsed}
InRing == {rxpbufs[i] : i \in Used}
InMbox == {mbox[i] : i \in DOMAIN mbox}
InHand == IF got = <<>> THEN {} ELSE {got[1]}

\* What the ring has is all different, and so is what the mailbox has, ...
Apart ==
    /\ \A i, j \in Used : rxpbufs[i] = rxpbufs[j] => i = j
    /\ \A i, j \in DOMAIN mbox : mbox[i] = mbox[j] => i = j

\* ... and each buffer is in exactly one place.
OwnedOnce ==
    /\ InRing \cap (memory \cup kept \cup InMbox \cup InHand) = {}
    /\ memory \cap (kept \cup InMbox \cup InHand) = {}
    /\ kept \cap (InMbox \cup InHand) = {}
    /\ InMbox \cap InHand = {}
    /\ InRing \cup memory \cup kept \cup InMbox \cup InHand = RxPbufs

\* No buffer is released that the DMA has yet to read, and none stays behind: when every
\* descriptor is reclaimed the driver has no reference left.  A buffer for reception is in
\* exactly one place, and the DMA writes to those in the ring only.
BuffersHeld ==
    /\ \A i \in TxIndex : "OWN" \in ptdesc[i].flags => ref[ptdesc[i].B1ADD[1]] > 0
    /\ tx_free_descs = LPC_NUM_BUFF_TXDESCS => \A p \in TxPbufs : ref[p] = 0
    /\ {i \in RxIndex : prdesc[i].OWN} \subseteq Used
    /\ Apart /\ OwnedOnce

\* Frames leave whole, in the order in which they were output: the DMA finds the fragments that
\* are due, marked as the first and the last where they are, and never runs dry in a frame.
SentInOrder ==
    [][LET desc == ptdesc[txDma.idx]
           first == Head(due)[2] = 1
           last == Head(due)[2] = pbuf_clen[Head(due)[1]]
       IN  /\ txDma'.idx # txDma.idx =>
                 /\ due # <<>>
                 /\ desc.B1ADD = Head(due)
                 /\ "FS" \in desc.flags <=> first
                 /\ "LS" \in desc.flags <=> last
           /\ txDma'.suspended /\ ~txDma.suspended => due = <<>> \/ first]_emacVars

\* Frames are taken in the order in which they came, each once, whatever shortage of memory,
\* errors and overruns there were.
TakenInOrder ==
    [][rx_get_idx' # rx_get_idx =>
         arrived # <<>> /\ prdesc[rx_get_idx].frame = Head(arrived)]_emacVars

\* The driver keeps up: descriptors in use are reclaimed, again and again or until none is left,
\* and so are frames taken, unless the tcpip thread is caught looking for free descriptors.
KeepsUp ==
    /\ \/ []<>(tx_free_descs = LPC_NUM_BUFF_TXDESCS \/ Spinning)
       \/ []<><<tx_reclaim_idx' # tx_reclaim_idx>>_emacVars
    /\ \/ []<>(arrived = <<>> \/ Spinning)
       \/ []<><<rx_get_idx' # rx_get_idx>>_emacVars

\* "THIS WILL BLOCK UNTIL THERE ARE ENOUGH DESCRIPTORS AVAILABLE"
\* (lpc18xx_43xx_emac.c:423): the tcpip thread waits, and the frame is output.
OutputReturns == at["tcpip"] = "wait" ~> at["tcpip"] # "wait"

(***************************************************************************)
(* The inductive invariant behind them.  Each ring is cut in three: from   *)
(* the oldest descriptor in use on, those the DMA has done with, those     *)
(* that are the DMA's, and those that nobody uses.                         *)
(***************************************************************************)

\* The descriptor k places after start.
Place(start, k, n) == IF start + k < n THEN start + k ELSE start + k - n

TxAhead(i) == Ahead(i, tx_reclaim_idx, LPC_NUM_BUFF_TXDESCS)
TxUsed == LPC_NUM_BUFF_TXDESCS - tx_free_descs

\* Of the frame being output: the fragments in the ring, and those that are yet to come.
Filling == at["tcpip"] = "fill"
Filled == IF Filling THEN output.done ELSE 0
Coming == IF Filling THEN dn - output.done ELSE 0

\* The descriptors that the DMA has sent and nobody has reclaimed.
TxSent == TxUsed + Coming - Len(due)

Flag == {"OWN", "FS", "LS"}
Fragment == TxPbufs \X Nat

TxTypeOK ==
    /\ tx_free_descs \in 0 .. LPC_NUM_BUFF_TXDESCS
    /\ tx_fill_idx \in TxIndex /\ tx_reclaim_idx \in TxIndex
    /\ txDma \in [idx : TxIndex, suspended : BOOLEAN]
    /\ ptdesc \in [TxIndex -> [flags : SUBSET Flag, B1ADD : (TxPbufs \cup {NULL}) \X Nat]]
    /\ txpbufs \in [TxIndex -> TxPbufs \cup {NULL}]
    /\ output \in [p : TxPbufs \cup {NULL}, done : Nat, idx : TxIndex]
    /\ ref \in [TxPbufs -> Nat]
    /\ due \in Seq(Fragment)

\* Where the threads are: the mutex, and what an output has found and done.
ThreadInv ==
    /\ at \in [Threads -> {"fetch", "work", "wait", "lock", "fill", "poll", "sem", "reclaim",
                           "loop", "queue", "deliver"}]
    /\ at["tcpip"] \in {"fill", "poll"} <=> TXLockMutex = "tcpip"
    /\ at["clean"] = "reclaim" <=> TXLockMutex = "clean"
    /\ at["tcpip"] \in {"wait", "lock", "fill"} => output.p \in TxPbufs
    /\ at["tcpip"] \in {"wait", "lock"} => output.done = 0 /\ output.idx = tx_fill_idx
    /\ at["tcpip"] = "lock" => dn <= tx_free_descs
    /\ Filling => output.done <= dn /\ dn - output.done <= tx_free_descs

TxIndexInv ==
    /\ TxSent \in 0 .. TxUsed - Filled
    /\ Filled > 0 => TxSent < TxUsed
    /\ txDma.idx = Place(tx_reclaim_idx, TxSent, LPC_NUM_BUFF_TXDESCS)
    /\ Filled <= TxUsed
    /\ tx_fill_idx = Place(tx_reclaim_idx, TxUsed - Filled, LPC_NUM_BUFF_TXDESCS)
    /\ Filling => output.idx = Place(tx_reclaim_idx, TxUsed, LPC_NUM_BUFF_TXDESCS)
    /\ \A m \in 1 .. Coming : due[TxUsed - TxSent + m] = <<output.p, output.done + m>>

\* A frame will be released with its last fragment, which is further on in the ring or comes.
Saves(i) ==
    \/ \E j \in TxIndex : /\ TxAhead(j) >= TxAhead(i) /\ TxAhead(j) < TxUsed
                          /\ txpbufs[j] = ptdesc[i].B1ADD[1]
    \/ Filling /\ output.done < dn /\ output.p = ptdesc[i].B1ADD[1]
       /\ TxAhead(i) >= TxUsed - Filled

\* A descriptor in use.
TxDescInv(i) ==
    LET p == ptdesc[i].B1ADD[1]
        n == ptdesc[i].B1ADD[2]
        k == TxAhead(i)
    IN  /\ p \in TxPbufs
        /\ "FS" \in ptdesc[i].flags <=> n = 1
        /\ "LS" \in ptdesc[i].flags <=> n = pbuf_clen[p]
        /\ "OWN" \in ptdesc[i].flags <=> k >= TxSent /\ (Filled > 0 => k # TxUsed - Filled)
        /\ k >= TxSent => ptdesc[i].B1ADD = due[k - TxSent + 1]
        /\ Filled > 0 /\ k = TxUsed - Filled => n = 1
        /\ Saves(i)

TxInv ==
    /\ TxTypeOK
    /\ TxIndexInv
    /\ \A i \in TxIndex : TxAhead(i) < TxUsed => TxDescInv(i)
    /\ \A i \in TxIndex : TxAhead(i) >= TxUsed => ptdesc[i].flags = {} /\ txpbufs[i] = NULL

\* The references to p: one for each place where it is saved, and that of the output under way.
References(p) ==
    Cardinality({i \in TxIndex : txpbufs[i] = p})
    + (IF Filled > 0 /\ output.done < dn /\ output.p = p THEN 1 ELSE 0)

RefInv == \A p \in TxPbufs : ref[p] = References(p)

RxTypeOK ==
    /\ rx_free_descs \in 0 .. LPC_NUM_BUFF_RXDESCS
    /\ rx_get_idx \in RxIndex /\ rx_next_idx \in RxIndex /\ rxDma \in RxIndex
    /\ prdesc \in [RxIndex -> [OWN : BOOLEAN, frame : Frames \cup {NULL}]]
    /\ rxpbufs \in [RxIndex -> RxPbufs \cup {NULL}]
    /\ memory \in SUBSET RxPbufs /\ kept \in SUBSET RxPbufs
    /\ mbox \in Seq(RxPbufs)
    /\ got \in {<<>>} \cup RxPbufs \X Frames
    /\ arrived \in Seq(Frames)

RxIndexInv ==
    /\ Len(arrived) <= RxUsed
    /\ rxDma = Place(rx_get_idx, Len(arrived), LPC_NUM_BUFF_RXDESCS)
    /\ rx_next_idx = Place(rx_get_idx, RxUsed, LPC_NUM_BUFF_RXDESCS)
    /\ at["receive"] \in {"sem", "loop"} => got = <<>>
    /\ at["receive"] = "deliver" => got # <<>>

RxDescInv(i) ==
    LET k == RxAhead(i)
    IN  /\ prdesc[i].OWN <=> k >= Len(arrived) /\ k < RxUsed
        /\ k < Len(arrived) => prdesc[i].frame = arrived[k + 1]
        /\ k < RxUsed => rxpbufs[i] \in RxPbufs

RxInv ==
    /\ RxTypeOK
    /\ RxIndexInv
    /\ \A i \in RxIndex : RxDescInv(i)
    /\ Apart
    /\ OwnedOnce

EmacInv == ThreadInv /\ TxInv /\ RefInv /\ RxInv
================================================================================
