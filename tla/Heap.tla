---------------------------------- MODULE Heap ----------------------------------
(***************************************************************************)
(* The heap of the firmware (heap_4.c of FreeRTOS): first fit, split and   *)
(* coalesce.  Task stacks, queues and the messages of the HMI's commands   *)
(* come from it.                                                           *)
(*                                                                         *)
(* A block is its address and its size, header included.  The free list is *)
(* kept in the order of addresses, so it is modelled as a set of blocks.   *)
(* Both operations run with the scheduler suspended: each is one step.     *)
(***************************************************************************)
EXTENDS FiniteSets, Integers, Folds

CONSTANTS
    ucHeap,              \* the address of the array
    configTOTAL_HEAP_SIZE,
    portBYTE_ALIGNMENT,
    xHeapStructSize,     \* a BlockLink_t, aligned
    xBlockAllocatedBit,  \* the top bit of a size_t
    Wanted               \* the sizes that are asked for

ASSUME AlignmentAssumption ==
    /\ portBYTE_ALIGNMENT \in Nat \ {0}
    /\ xHeapStructSize \in Nat \ {0}
    /\ xHeapStructSize % portBYTE_ALIGNMENT = 0

ASSUME SizeAssumption ==
    /\ ucHeap \in Nat
    /\ configTOTAL_HEAP_SIZE \in Nat
    /\ xBlockAllocatedBit \in Nat
    /\ configTOTAL_HEAP_SIZE > 2 * xHeapStructSize + 2 * portBYTE_ALIGNMENT
    /\ configTOTAL_HEAP_SIZE <= xBlockAllocatedBit

\* size_t: the arguments of pvPortMalloc, the top bit set or not.
ASSUME WantedAssumption == \A w \in Wanted : w \in Nat /\ w < 2 * xBlockAllocatedBit

heapMINIMUM_BLOCK_SIZE == 2 * xHeapStructSize

\* n rounded up and down to a multiple of the alignment.
AlignUp(n) ==
    IF n % portBYTE_ALIGNMENT = 0 THEN n
    ELSE n + (portBYTE_ALIGNMENT - (n % portBYTE_ALIGNMENT))

AlignDown(n) == n - (n % portBYTE_ALIGNMENT)

\* The first byte of the heap, and pxEnd: the array's end less the end marker.
HeapStart == AlignUp(ucHeap)
HeapEnd == AlignDown(ucHeap + configTOTAL_HEAP_SIZE - xHeapStructSize)

Block == [addr : Nat, size : Nat]

VARIABLES
    free,       \* the blocks of the free list
    allocated,  \* the blocks given out and not yet returned
    xFreeBytesRemaining,
    xMinimumEverFreeBytesRemaining

counters == <<xFreeBytesRemaining, xMinimumEverFreeBytesRemaining>>
vars == <<free, allocated, counters>>

\* prvHeapInit, called by the first pvPortMalloc: one block.
prvHeapInit ==
    /\ free = {[addr |-> HeapStart, size |-> HeapEnd - HeapStart]}
    /\ allocated = {}
    /\ xFreeBytesRemaining = HeapEnd - HeapStart
    /\ xMinimumEverFreeBytesRemaining = HeapEnd - HeapStart

BlockEnd(b) == b.addr + b.size

-------------------------------------------------------------------------------

\* Mutant: a block is merged with the one before it only.
InsertMergesBefore(list, b) ==
    LET before == {x \in list : BlockEnd(x) = b.addr}
        start == IF before = {} THEN b.addr ELSE (CHOOSE x \in before : TRUE).addr
    IN  (list \ before) \cup {[addr |-> start, size |-> BlockEnd(b) - start]}

\* The free list with block b in it, merged with a block that ends where b starts and with
\* one that starts where b ends.
prvInsertBlockIntoFreeList(list, b) ==
    LET before == {x \in list : BlockEnd(x) = b.addr}
        after == {x \in list : x.addr = BlockEnd(b)}
        start == IF before = {} THEN b.addr ELSE (CHOOSE x \in before : TRUE).addr
        end == IF after = {} THEN BlockEnd(b) ELSE BlockEnd(CHOOSE x \in after : TRUE)
    IN  (list \ (before \cup after)) \cup {[addr |-> start, size |-> end - start]}

\* Mutant: the size is not aligned.
NeededUnaligned(w) == IF w = 0 THEN 0 ELSE w + xHeapStructSize

\* The size of the block that a request needs: room for the header, aligned.
Needed(w) == IF w = 0 THEN 0 ELSE AlignUp(w + xHeapStructSize)

\* The request is well formed and the heap has as many bytes, in one piece or not.
Accepts(w) ==
    /\ w < xBlockAllocatedBit
    /\ Needed(w) > 0
    /\ Needed(w) <= xFreeBytesRemaining

\* The blocks large enough for n bytes; the list is searched from its lowest address.
Fitting(n) == {b \in free : b.size >= n}
FirstFit(n) == CHOOSE b \in Fitting(n) : \A c \in Fitting(n) : b.addr <= c.addr

\* What is given out of block b: the rest is split off if it can hold a block of its own.
Taken(b, n) ==
    IF b.size - n > heapMINIMUM_BLOCK_SIZE THEN [b EXCEPT !.size = n] ELSE b

\* What is left of block b.
Rest(b, n) == [addr |-> b.addr + n, size |-> b.size - n]

Satisfiable(w) == Accepts(w) /\ Fitting(Needed(w)) # {}

\* The block that pvPortMalloc returns, in place of a pointer to the byte after its header.
NULL == [addr |-> 0, size |-> 0]
pvReturn(w) == IF Satisfiable(w) THEN Taken(FirstFit(Needed(w)), Needed(w)) ELSE NULL

Least(a, b) == IF a < b THEN a ELSE b

\* Mutant: the bytes asked for are counted, not those of a block given out whole.
MallocCountsNeeded(w) ==
    /\ Satisfiable(w)
    /\ LET b == FirstFit(Needed(w))
           t == pvReturn(w)
       IN  /\ free' = IF t = b THEN free \ {b}
                      ELSE prvInsertBlockIntoFreeList(free \ {b}, Rest(b, Needed(w)))
           /\ allocated' = allocated \cup {t}
           /\ xFreeBytesRemaining' = xFreeBytesRemaining - Needed(w)
    /\ xMinimumEverFreeBytesRemaining' =
           Least(xMinimumEverFreeBytesRemaining, xFreeBytesRemaining')

pvPortMallocSucceeds(w) ==
    /\ Satisfiable(w)
    /\ LET b == FirstFit(Needed(w))
           t == pvReturn(w)
       IN  /\ free' = IF t = b THEN free \ {b}
                      ELSE prvInsertBlockIntoFreeList(free \ {b}, Rest(b, Needed(w)))
           /\ allocated' = allocated \cup {t}
           /\ xFreeBytesRemaining' = xFreeBytesRemaining - t.size
    /\ xMinimumEverFreeBytesRemaining' =
           Least(xMinimumEverFreeBytesRemaining, xFreeBytesRemaining')

pvPortMallocFails(w) ==
    /\ ~Satisfiable(w)
    /\ UNCHANGED vars

pvPortMalloc(w) == pvPortMallocSucceeds(w) \/ pvPortMallocFails(w)

\* vPortFree of a block that was given out.
vPortFree(b) ==
    /\ b \in allocated
    /\ allocated' = allocated \ {b}
    /\ free' = prvInsertBlockIntoFreeList(free, b)
    /\ xFreeBytesRemaining' = xFreeBytesRemaining + b.size
    /\ UNCHANGED xMinimumEverFreeBytesRemaining

Next ==
    \/ \E w \in Wanted : pvPortMalloc(w)
    \/ \E b \in allocated : vPortFree(b)

Spec == prvHeapInit /\ [][Next]_vars

-------------------------------------------------------------------------------

Blocks == free \cup allocated

InHeap(b) ==
    /\ b \in Block
    /\ b.addr >= HeapStart
    /\ BlockEnd(b) <= HeapEnd
    /\ b.size >= xHeapStructSize
    /\ b.addr % portBYTE_ALIGNMENT = 0
    /\ b.size % portBYTE_ALIGNMENT = 0

Disjoint(b, c) == BlockEnd(b) <= c.addr \/ BlockEnd(c) <= b.addr

\* Nobody is given memory that somebody else has: the blocks, free and given out, lie in
\* the heap, aligned, with room for a header, and do not overlap, after any sequence of
\* splits and merges.
BlocksApart ==
    /\ \A b \in Blocks : InHeap(b)
    /\ \A b, c \in Blocks : b # c => Disjoint(b, c)
    /\ free \cap allocated = {}

NotAdjacent(S) == \A b, c \in S : BlockEnd(b) # c.addr

\* Memory never falls to pieces: no two free blocks touch, so that what has been freed can
\* be given out again in one piece, and after everything has been freed the heap is whole.
Coalesced ==
    /\ NotAdjacent(free)
    /\ allocated = {} => free = {[addr |-> HeapStart, size |-> HeapEnd - HeapStart]}

SumOfSizes(S) == MapThenFoldSet(LAMBDA a, b : a + b, 0, LAMBDA b : b.size,
                                LAMBDA T : CHOOSE b \in T : TRUE, S)

\* The free bytes that gate every request are those of the free list: a count that drifted
\* would refuse requests that fit, or let the end marker be given out.
FreeBytesExact ==
    /\ xFreeBytesRemaining = SumOfSizes(free)
    /\ xFreeBytesRemaining + SumOfSizes(allocated) = HeapEnd - HeapStart
    /\ xMinimumEverFreeBytesRemaining <= xFreeBytesRemaining

(***************************************************************************)
(* The inductive invariant: the blocks, free and given out, tile the heap  *)
(* without a gap, and no two free ones touch.                              *)
(***************************************************************************)
Tiles(S) ==
    /\ S # {}
    /\ \A b \in S : InHeap(b)
    /\ \A b, c \in S : b # c => Disjoint(b, c)
    /\ \A b \in S : b.addr = HeapStart \/ \E c \in S : BlockEnd(c) = b.addr
    /\ \A b \in S : BlockEnd(b) = HeapEnd \/ \E c \in S : c.addr = BlockEnd(b)

HeapInv ==
    /\ Tiles(Blocks)
    /\ free \cap allocated = {}
    /\ NotAdjacent(free)
================================================================================
