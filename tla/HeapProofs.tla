------------------------------- MODULE HeapProofs -------------------------------
(***************************************************************************)
(* Proofs about the heap, for every heap, alignment and request.  The      *)
(* inductive invariant is HeapInv: the blocks tile the heap.  Splitting a  *)
(* block and merging two neighbours both preserve a tiling, and the        *)
(* operations are made of splits and merges.                               *)
(***************************************************************************)
EXTENDS MessageHeap, SetLemmas, SequenceTheorems, TLAPS

-------------------------------------------------------------------------------
(***************************************************************************)
(* Alignment.                                                              *)
(***************************************************************************)
Aligned(n) == n % portBYTE_ALIGNMENT = 0

\* An aligned number is a multiple of the alignment, and the multiples are aligned.
LEMMA Multiple ==
  ASSUME NEW n \in Int
  PROVE  /\ n \div portBYTE_ALIGNMENT \in Int
         /\ Aligned(n) => n = portBYTE_ALIGNMENT * (n \div portBYTE_ALIGNMENT)
         /\ (portBYTE_ALIGNMENT * n) % portBYTE_ALIGNMENT = 0
<1>1. portBYTE_ALIGNMENT \in Nat \ {0}
  BY AlignmentAssumption
<1>2. n = portBYTE_ALIGNMENT * (n \div portBYTE_ALIGNMENT) + (n % portBYTE_ALIGNMENT)
  BY <1>1
<1>3. (portBYTE_ALIGNMENT * n) % portBYTE_ALIGNMENT = 0
  BY <1>1
<1>4. n \div portBYTE_ALIGNMENT \in Int
  BY <1>1
<1>5. QED
  BY <1>1, <1>2, <1>3, <1>4 DEF Aligned

\* Sums and differences of aligned numbers are aligned.
LEMMA AlignedSums ==
  ASSUME NEW a \in Int, NEW b \in Int, Aligned(a), Aligned(b)
  PROVE  Aligned(a + b) /\ Aligned(a - b)
<1> DEFINE A == portBYTE_ALIGNMENT
           p == a \div A
           q == b \div A
<1>1. A \in Nat \ {0} /\ p \in Int /\ q \in Int /\ a = A * p /\ b = A * q
  BY AlignmentAssumption, Multiple
<1>2. Aligned(A * (p + q)) /\ Aligned(A * (p - q))
  <2>1. p + q \in Int /\ p - q \in Int
    BY <1>1
  <2>2. QED
    BY <2>1, Multiple DEF Aligned
<1> HIDE DEF A, p, q
<1>3. a + b = A * (p + q) /\ a - b = A * (p - q)
  BY <1>1
<1>4. QED
  BY <1>2, <1>3

\* A multiple leaves no remainder.
LEMMA MultipleMod == ASSUME NEW q \in Int, NEW m \in Nat \ {0} PROVE (m * q) % m = 0
OBVIOUS

\* Subtracting the remainder, and adding what lacks to the next multiple, gives a multiple.
LEMMA RoundedMod ==
  ASSUME NEW n \in Nat, NEW m \in Nat \ {0}
  PROVE  (n - (n % m)) % m = 0 /\ (n + (m - (n % m))) % m = 0
<1> DEFINE q == n \div m
           r == n % m
<1>1. n = m * q + r /\ q \in Int /\ r \in Int
  OBVIOUS
<1>2. (m * q) % m = 0 /\ (m * (q + 1)) % m = 0
  <2>1. q + 1 \in Int
    BY <1>1
  <2>2. QED
    BY <1>1, <2>1, MultipleMod
<1> HIDE DEF q, r
<1>3. n - r = m * q /\ n + (m - r) = m * (q + 1)
  BY <1>1
<1>4. (n - r) % m = 0 /\ (n + (m - r)) % m = 0
  BY <1>2, <1>3
<1>5. QED
  BY <1>4 DEF r

\* Rounding gives aligned numbers, and rounding up does not lessen.
LEMMA Rounding ==
  ASSUME NEW n \in Nat
  PROVE  /\ AlignUp(n) \in Nat /\ AlignUp(n) >= n /\ Aligned(AlignUp(n))
         /\ AlignUp(n) < n + portBYTE_ALIGNMENT
         /\ AlignDown(n) \in Nat /\ AlignDown(n) <= n /\ Aligned(AlignDown(n))
         /\ AlignDown(n) > n - portBYTE_ALIGNMENT
<1> DEFINE A == portBYTE_ALIGNMENT
           r == n % A
<1>1. A \in Nat \ {0} /\ r \in 0 .. A - 1
  BY AlignmentAssumption
<1>2. (n + (A - r)) % A = 0 /\ (n - r) % A = 0
  BY <1>1, RoundedMod
<1>3. n - r \in Nat
  BY <1>1
<1> HIDE DEF A, r
<1>4. AlignUp(n) = (IF r = 0 THEN n ELSE n + (A - r)) /\ AlignDown(n) = n - r
  BY DEF AlignUp, AlignDown, A, r
<1>5. r = 0 => n % A = 0
  BY DEF r
<1>6. /\ AlignUp(n) \in Nat /\ AlignUp(n) >= n /\ AlignUp(n) < n + A
      /\ AlignDown(n) \in Nat /\ AlignDown(n) <= n /\ AlignDown(n) > n - A
  BY <1>1, <1>3, <1>4
<1>7. AlignUp(n) % A = 0 /\ AlignDown(n) % A = 0
  BY <1>2, <1>4, <1>5
<1>8. QED
  BY <1>6, <1>7 DEF A, Aligned

\* The heap is not empty, and its ends are aligned.
LEMMA HeapEnds ==
  /\ HeapStart \in Nat /\ HeapEnd \in Nat
  /\ Aligned(HeapStart) /\ Aligned(HeapEnd)
  /\ HeapEnd - HeapStart >= xHeapStructSize
<1> DEFINE e == ucHeap + configTOTAL_HEAP_SIZE - xHeapStructSize
<1>1. ucHeap \in Nat /\ e \in Nat /\ xHeapStructSize \in Nat /\ portBYTE_ALIGNMENT \in Nat
  BY SizeAssumption, AlignmentAssumption
<1>2. e - ucHeap > xHeapStructSize + 2 * portBYTE_ALIGNMENT
  BY SizeAssumption, AlignmentAssumption
<1>3. HeapStart = AlignUp(ucHeap) /\ HeapEnd = AlignDown(e)
  BY DEF HeapStart, HeapEnd
<1> HIDE DEF e
<1>4. /\ HeapStart \in Nat /\ HeapStart < ucHeap + portBYTE_ALIGNMENT /\ Aligned(HeapStart)
      /\ HeapEnd \in Nat /\ HeapEnd > e - portBYTE_ALIGNMENT /\ Aligned(HeapEnd)
  BY <1>1, <1>3, Rounding
<1>5. QED
  BY <1>1, <1>2, <1>4

\* What a request needs is aligned and holds at least the header.
LEMMA NeededSize ==
  ASSUME NEW w \in Wanted, Needed(w) > 0
  PROVE  Needed(w) \in Nat /\ Needed(w) >= xHeapStructSize /\ Aligned(Needed(w))
<1>1. w \in Nat /\ xHeapStructSize \in Nat /\ w + xHeapStructSize \in Nat
  BY WantedAssumption, AlignmentAssumption
<1>2. w # 0
  BY DEF Needed
<1>3. Needed(w) = AlignUp(w + xHeapStructSize)
  BY <1>2 DEF Needed
<1>4. /\ AlignUp(w + xHeapStructSize) \in Nat
      /\ AlignUp(w + xHeapStructSize) >= w + xHeapStructSize
      /\ Aligned(AlignUp(w + xHeapStructSize))
  BY <1>1, Rounding
<1>5. QED
  BY <1>1, <1>3, <1>4

-------------------------------------------------------------------------------
(***************************************************************************)
(* Tilings.                                                                *)
(***************************************************************************)

\* What two blocks of a tiling have to do with each other.
LEMMA Tile ==
  ASSUME NEW S, Tiles(S), NEW b \in S, NEW c \in S
  PROVE  /\ b.addr \in Nat /\ b.size \in Nat /\ b.size > 0
         /\ b = [addr |-> b.addr, size |-> b.size]
         /\ c.addr \in Nat /\ c.size \in Nat /\ c.size > 0
         /\ b.addr = c.addr => b = c
         /\ BlockEnd(b) = BlockEnd(c) => b = c
         /\ BlockEnd(b) # b.addr
<1>1. InHeap(b) /\ InHeap(c) /\ (b # c => Disjoint(b, c))
  BY DEF Tiles
<1>2. xHeapStructSize > 0 /\ xHeapStructSize \in Nat
  BY AlignmentAssumption
<1>3. b \in Block /\ c \in Block /\ b.size > 0 /\ c.size > 0
  BY <1>1, <1>2 DEF InHeap, Block
<1>4. /\ b.addr \in Nat /\ b.size \in Nat /\ c.addr \in Nat /\ c.size \in Nat
      /\ b = [addr |-> b.addr, size |-> b.size]
  BY <1>3 DEF Block
<1>5. QED
  BY <1>1, <1>3, <1>4 DEF Disjoint, BlockEnd

\* A block of a tiling can be cut in two.
LEMMA Split ==
  ASSUME NEW S, Tiles(S), NEW b \in S, NEW n \in Nat,
         n >= xHeapStructSize, b.size - n >= xHeapStructSize, Aligned(n),
         NEW T, T = (S \ {b}) \cup {[addr |-> b.addr, size |-> n], Rest(b, n)}
  PROVE  Tiles(T)
<1> DEFINE f == [addr |-> b.addr, size |-> n]
           r == Rest(b, n)
<1>1. /\ b.addr \in Nat /\ b.size \in Nat /\ xHeapStructSize \in Nat \ {0}
      /\ b.addr >= HeapStart /\ b.addr + b.size <= HeapEnd
      /\ Aligned(b.addr) /\ Aligned(b.size)
      /\ HeapStart \in Nat /\ HeapEnd \in Nat
  BY AlignmentAssumption, HeapEnds DEF Tiles, InHeap, Block, BlockEnd, Aligned
<1>2. /\ f.addr = b.addr /\ f.size = n /\ r.addr = b.addr + n /\ r.size = b.size - n
      /\ f \in Block /\ r \in Block
  BY <1>1 DEF Rest, Block
<1>3. Aligned(b.addr + n) /\ Aligned(b.size - n)
  BY <1>1, AlignedSums
<1> HIDE DEF f, r
<1>4. InHeap(f) /\ InHeap(r)
  BY <1>1, <1>2, <1>3 DEF InHeap, BlockEnd, Aligned
<1>5. T = (S \ {b}) \cup {f, r}
  BY DEF f, r
<1>6. \A x \in T : InHeap(x)
  BY <1>4, <1>5 DEF Tiles
<1>7. ASSUME NEW x \in S \ {b} PROVE Disjoint(x, f) /\ Disjoint(f, x) /\ Disjoint(x, r) /\ Disjoint(r, x)
  <2>1. Disjoint(x, b) /\ x.addr \in Nat /\ x.size \in Nat
    BY DEF Tiles, InHeap, Block
  <2>2. QED
    BY <1>1, <1>2, <2>1 DEF Disjoint, BlockEnd
<1>8. Disjoint(f, r) /\ Disjoint(r, f)
  BY <1>1, <1>2 DEF Disjoint, BlockEnd
<1>9. \A x, y \in T : x # y => Disjoint(x, y)
  BY <1>5, <1>7, <1>8 DEF Tiles
<1>10. BlockEnd(f) = r.addr /\ BlockEnd(r) = BlockEnd(b) /\ f \in T /\ r \in T
  BY <1>1, <1>2, <1>5 DEF BlockEnd
<1>11. ASSUME NEW x \in T PROVE x.addr = HeapStart \/ \E y \in T : BlockEnd(y) = x.addr
  <2>1. CASE x = r
    BY <1>10, <2>1
  <2>2. CASE x # r
    <3>1. PICK z \in S : z.addr = x.addr
      BY <1>2, <1>5, <2>2
    <3>2. CASE z.addr = HeapStart
      BY <3>1, <3>2
    <3>3. CASE \E y \in S : BlockEnd(y) = z.addr
      BY <1>5, <1>10, <3>1, <3>3
    <3>4. QED
      BY <3>2, <3>3 DEF Tiles
  <2>3. QED
    BY <2>1, <2>2
<1>12. ASSUME NEW x \in T PROVE BlockEnd(x) = HeapEnd \/ \E y \in T : y.addr = BlockEnd(x)
  <2>1. CASE x = f
    BY <1>10, <2>1
  <2>2. CASE x # f
    <3>1. PICK z \in S : BlockEnd(z) = BlockEnd(x)
      BY <1>5, <1>10, <2>2
    <3>2. CASE BlockEnd(z) = HeapEnd
      BY <3>1, <3>2
    <3>3. CASE \E y \in S : y.addr = BlockEnd(z)
      BY <1>2, <1>5, <1>10, <3>1, <3>3
    <3>4. QED
      BY <3>2, <3>3 DEF Tiles
  <2>3. QED
    BY <2>1, <2>2
<1>13. QED
  BY <1>6, <1>9, <1>10, <1>11, <1>12 DEF Tiles

\* Two neighbours of a tiling can be merged.
LEMMA Merge ==
  ASSUME NEW S, Tiles(S), NEW a \in S, NEW b \in S, BlockEnd(a) = b.addr,
         NEW m, m = [addr |-> a.addr, size |-> BlockEnd(b) - a.addr],
         NEW T, T = (S \ {a, b}) \cup {m}
  PROVE  Tiles(T)
<1>1. /\ a.addr \in Nat /\ a.size \in Nat /\ b.addr \in Nat /\ b.size \in Nat
      /\ a.addr >= HeapStart /\ b.addr + b.size <= HeapEnd
      /\ xHeapStructSize \in Nat \ {0} /\ HeapStart \in Nat /\ HeapEnd \in Nat
      /\ a.size >= xHeapStructSize /\ b.size >= xHeapStructSize
      /\ Aligned(a.addr) /\ Aligned(a.size) /\ Aligned(b.size)
      /\ b.addr = a.addr + a.size
  BY AlignmentAssumption, HeapEnds DEF Tiles, InHeap, Block, BlockEnd, Aligned
<1>2. m.addr = a.addr /\ m.size = a.size + b.size /\ m \in Block
  BY <1>1 DEF Block, BlockEnd
<1>3. Aligned(a.size + b.size)
  BY <1>1, AlignedSums
<1>4. InHeap(m)
  BY <1>1, <1>2, <1>3 DEF InHeap, BlockEnd, Aligned
<1>5. BlockEnd(m) = BlockEnd(b)
  BY <1>1, <1>2 DEF BlockEnd
<1>6. ASSUME NEW x \in S \ {a, b} PROVE Disjoint(x, m) /\ Disjoint(m, x)
  <2>1. Disjoint(x, a) /\ Disjoint(x, b) /\ x.addr \in Nat /\ x.size \in Nat /\ x.size > 0
    BY Tile DEF Tiles
  <2>2. QED
    BY <1>1, <1>2, <2>1 DEF Disjoint, BlockEnd
<1>7. \A x \in T : InHeap(x)
  BY <1>4 DEF Tiles
<1>8. \A x, y \in T : x # y => Disjoint(x, y)
  BY <1>6 DEF Tiles
<1>9. ASSUME NEW x \in T PROVE x.addr = HeapStart \/ \E y \in T : BlockEnd(y) = x.addr
  <2>1. PICK z \in S : z.addr = x.addr /\ z # b
    <3>1. CASE x = m
      BY <1>1, <1>2, <3>1
    <3>2. CASE x # m
      BY <3>2
    <3>3. QED
      BY <3>1, <3>2
  <2>2. CASE z.addr = HeapStart
    BY <2>1, <2>2
  <2>3. CASE \E y \in S : BlockEnd(y) = z.addr
    <3>1. PICK y \in S : BlockEnd(y) = z.addr
      BY <2>3
    <3>2. y # a
      <4>1. SUFFICES ASSUME y = a PROVE FALSE
        OBVIOUS
      <4>2. z.addr = b.addr
        BY <3>1, <4>1
      <4>3. QED
        BY <2>1, <4>2, Tile
    <3>3. CASE y = b
      BY <1>5, <2>1, <3>1, <3>3
    <3>4. CASE y # b
      BY <2>1, <3>1, <3>2, <3>4
    <3>5. QED
      BY <3>3, <3>4
  <2>4. QED
    BY <2>2, <2>3 DEF Tiles
<1>10. ASSUME NEW x \in T PROVE BlockEnd(x) = HeapEnd \/ \E y \in T : y.addr = BlockEnd(x)
  <2>1. PICK z \in S : BlockEnd(z) = BlockEnd(x) /\ z # a
    <3>1. CASE x = m
      <4>1. b # a
        BY <1>1
      <4>2. QED
        BY <1>5, <3>1, <4>1
    <3>2. CASE x # m
      BY <3>2
    <3>3. QED
      BY <3>1, <3>2
  <2>2. CASE BlockEnd(z) = HeapEnd
    BY <2>1, <2>2
  <2>3. CASE \E y \in S : y.addr = BlockEnd(z)
    <3>1. PICK y \in S : y.addr = BlockEnd(z)
      BY <2>3
    <3>2. y # b
      <4>1. SUFFICES ASSUME y = b PROVE FALSE
        OBVIOUS
      <4>2. BlockEnd(z) = BlockEnd(a)
        BY <3>1, <4>1
      <4>3. QED
        BY <2>1, <4>2, Tile
    <3>3. CASE y = a
      BY <1>2, <2>1, <3>1, <3>3
    <3>4. CASE y # a
      BY <2>1, <3>1, <3>2, <3>4
    <3>5. QED
      BY <3>3, <3>4
  <2>4. QED
    BY <2>2, <2>3 DEF Tiles
<1>11. QED
  BY <1>7, <1>8, <1>9, <1>10 DEF Tiles

-------------------------------------------------------------------------------
(***************************************************************************)
(* The bytes of a set of blocks.                                           *)
(***************************************************************************)

\* The weights whose sum SumOfSizes is.
SizeIn(S) == [b \in S |-> b.size]

\* SumOfSizes is such a sum.
LEMMA SizesWeigh ==
  ASSUME NEW S, IsFiniteSet(S)
  PROVE  \E g : Weighs(g, SizeIn(S), S) /\ g[S] = SumOfSizes(S)
<1> DEFINE Iter(g) == g = [s \in SUBSET S |-> IF s = {} THEN 0
                                              ELSE First(s).size + g[s \ {First(s)}]]
           iter == CHOOSE g : Iter(g)
<1>1. SumOfSizes(S) = iter[S]
  BY DEF SumOfSizes, MapThenFoldSet, First
<1>2. ASSUME NEW g PROVE Weighs(g, SizeIn(S), S) <=> Iter(g)
  <2>1. \A s \in SUBSET S : s # {} => SizeIn(S)[First(s)] = First(s).size
    BY FirstOf DEF SizeIn
  <2>2. [s \in SUBSET S |-> IF s = {} THEN 0 ELSE First(s).size + g[s \ {First(s)}]]
          = [s \in SUBSET S |-> IF s = {} THEN 0 ELSE SizeIn(S)[First(s)] + g[s \ {First(s)}]]
    BY <2>1
  <2>3. QED
    BY <2>2 DEF Weighs
<1>3. \E g : Iter(g)
  BY <1>2, SumsExist
<1> HIDE DEF Iter
<1>4. Iter(iter)
  BY <1>3
<1> HIDE DEF iter
<1>5. QED
  BY <1>1, <1>2, <1>4

\* What one more block adds.
LEMMA SizesAdd ==
  ASSUME NEW S, IsFiniteSet(S), NEW b, b \notin S, \A c \in S \cup {b} : c.size \in Nat
  PROVE  /\ IsFiniteSet(S \cup {b}) /\ SumOfSizes(S) \in Int
         /\ SumOfSizes(S \cup {b}) = SumOfSizes(S) + b.size
<1> DEFINE T == S \cup {b}
<1>1. IsFiniteSet(T) /\ b \in T
  BY FS_AddElement
<1>2. PICK g : Weighs(g, SizeIn(S), S) /\ g[S] = SumOfSizes(S)
  BY SizesWeigh
<1>3. PICK h : Weighs(h, SizeIn(T), T) /\ h[T] = SumOfSizes(T)
  BY <1>1, SizesWeigh
<1>4. /\ \A x \in T : SizeIn(T)[x] \in Int
      /\ \A x \in S : SizeIn(S)[x] = SizeIn(T)[x]
      /\ SizeIn(T)[b] = b.size /\ b.size \in Int
  BY DEF SizeIn
<1> DEFINE w == SizeIn(T)
           v == SizeIn(S)
<1>5. h[T] = w[b] + g[S] /\ g[S] \in Int
  <2>1. Weighs(h, w, S \cup {b})
    BY <1>3
  <2>2. Weighs(g, v, S)
    BY <1>2
  <2>3. \A x \in S \cup {b} : w[x] \in Int
    BY <1>4
  <2>4. \A x \in S : v[x] = w[x]
    BY <1>4
  <2> HIDE DEF w, v
  <2>5. QED
    BY <2>1, <2>2, <2>3, <2>4, SumAdds
<1>6. QED
  BY <1>1, <1>2, <1>3, <1>4, <1>5

\* What one block less takes away.
LEMMA SizesRemove ==
  ASSUME NEW S, IsFiniteSet(S), NEW b \in S, \A c \in S : c.size \in Nat
  PROVE  /\ IsFiniteSet(S \ {b}) /\ SumOfSizes(S) \in Int
         /\ SumOfSizes(S \ {b}) = SumOfSizes(S) - b.size
<1> DEFINE R == S \ {b}
<1>1. IsFiniteSet(R) /\ b \notin R /\ S = R \cup {b}
  BY FS_RemoveElement
<1> HIDE DEF R
<1>2. SumOfSizes(R) \in Int /\ SumOfSizes(R \cup {b}) = SumOfSizes(R) + b.size
  BY <1>1, SizesAdd
<1>3. b.size \in Nat
  OBVIOUS
<1>4. QED
  BY <1>1, <1>2, <1>3 DEF R

LEMMA SizesNone == SumOfSizes({}) = 0
<1>1. PICK g : Weighs(g, SizeIn({}), {}) /\ g[{}] = SumOfSizes({})
  BY SizesWeigh, FS_EmptySet
<1>2. QED
  BY <1>1 DEF Weighs

-------------------------------------------------------------------------------
(***************************************************************************)
(* prvInsertBlockIntoFreeList.                                             *)
(***************************************************************************)

\* A tiling in which block x is neither in the list nor in the rest, and no two blocks of
\* the list touch: x can be put into the list.
Insertable(list, x, rest) ==
    /\ Tiles(list \cup {x} \cup rest)
    /\ x \notin list /\ x \notin rest
    /\ list \cap rest = {}
    /\ NotAdjacent(list)

\* The list and the rest after it are what the heap has to be.
Inserted(list, rest) ==
    /\ Tiles(list \cup rest)
    /\ list \cap rest = {}
    /\ NotAdjacent(list)

\* The bytes of a list that x is put into, and that they are not more after a merge.
Bytes(list, x) == SumOfSizes(list) + x.size
Keeps(list, x, smaller, m) ==
    IsFiniteSet(list) => IsFiniteSet(smaller) /\ Bytes(smaller, m) = Bytes(list, x)

\* Merging x with block y of the list moves the bytes of y.
LEMMA MergeKeeps ==
  ASSUME NEW list, NEW rest, NEW x, Insertable(list, x, rest), NEW y \in list,
         NEW m, m.size = x.size + y.size
  PROVE  Keeps(list, x, list \ {y}, m)
<1> SUFFICES ASSUME IsFiniteSet(list)
             PROVE  IsFiniteSet(list \ {y}) /\ Bytes(list \ {y}, m) = Bytes(list, x)
  BY DEF Keeps
<1>1. \A b \in list \cup {x} : b.size \in Nat
  BY Tile DEF Insertable
<1>2. /\ IsFiniteSet(list \ {y}) /\ SumOfSizes(list) \in Int
      /\ SumOfSizes(list \ {y}) = SumOfSizes(list) - y.size
  BY <1>1, SizesRemove
<1>3. x.size \in Nat /\ y.size \in Nat
  BY <1>1
<1>4. QED
  BY <1>2, <1>3 DEF Bytes

\* One merge with the block before x gives a smaller list and a larger x.
LEMMA MergeBefore ==
  ASSUME NEW list, NEW rest, NEW x, Insertable(list, x, rest),
         NEW a \in list, BlockEnd(a) = x.addr,
         NEW m, m = [addr |-> a.addr, size |-> BlockEnd(x) - a.addr]
  PROVE  /\ Insertable(list \ {a}, m, rest)
         /\ m.addr = a.addr /\ BlockEnd(m) = BlockEnd(x)
         /\ Keeps(list, x, list \ {a}, m)
<1> DEFINE S == list \cup {x} \cup rest
           T == (list \ {a}) \cup {m} \cup rest
<1>1. Tiles(S) /\ a \in S /\ x \in S /\ a \notin rest /\ a # x
  BY DEF Insertable
<1>2. T = (S \ {a, x}) \cup {m}
  BY <1>1 DEF Insertable
<1>3. Tiles(T)
  BY <1>1, <1>2, Merge
<1>4. /\ a.addr \in Nat /\ a.size \in Nat /\ x.addr \in Nat /\ x.size \in Nat /\ x.size > 0
      /\ a.size > 0
  BY <1>1, Tile
<1>5. m.addr = a.addr /\ m.size = a.size + x.size
  BY <1>4 DEF BlockEnd
<1>6. m \notin S
  <2>1. m # a
    BY <1>4, <1>5
  <2>2. QED
    BY <1>1, <1>5, <2>1, Tile
<1>7. BlockEnd(m) = BlockEnd(x)
  BY <1>4, <1>5 DEF BlockEnd
<1>8. Keeps(list, x, list \ {a}, m)
  BY <1>4, <1>5, MergeKeeps
<1>9. QED
  BY <1>3, <1>5, <1>6, <1>7, <1>8 DEF Insertable, NotAdjacent

\* One merge with the block after x gives a smaller list and a larger x.
LEMMA MergeAfter ==
  ASSUME NEW list, NEW rest, NEW x, Insertable(list, x, rest),
         NEW c \in list, c.addr = BlockEnd(x),
         NEW m, m = [addr |-> x.addr, size |-> BlockEnd(c) - x.addr]
  PROVE  /\ Insertable(list \ {c}, m, rest)
         /\ m.addr = x.addr /\ BlockEnd(m) = BlockEnd(c)
         /\ Keeps(list, x, list \ {c}, m)
<1> DEFINE S == list \cup {x} \cup rest
           T == (list \ {c}) \cup {m} \cup rest
<1>1. Tiles(S) /\ c \in S /\ x \in S /\ c \notin rest /\ c # x
  BY DEF Insertable
<1>2. T = (S \ {x, c}) \cup {m}
  BY <1>1 DEF Insertable
<1>3. Tiles(T)
  BY <1>1, <1>2, Merge
<1>4. /\ c.addr \in Nat /\ c.size \in Nat /\ x.addr \in Nat /\ x.size \in Nat /\ x.size > 0
      /\ c.size > 0
  BY <1>1, Tile
<1>5. m.addr = x.addr /\ m.size = x.size + c.size
  BY <1>4 DEF BlockEnd
<1>6. m \notin S
  <2>1. m # x
    BY <1>4, <1>5
  <2>2. QED
    BY <1>1, <1>5, <2>1, Tile
<1>7. BlockEnd(m) = BlockEnd(c)
  BY <1>4, <1>5 DEF BlockEnd
<1>8. Keeps(list, x, list \ {c}, m)
  BY <1>4, <1>5, MergeKeeps
<1>9. QED
  BY <1>3, <1>5, <1>6, <1>7, <1>8 DEF Insertable, NotAdjacent

\* The new list has the bytes of the old one and of block x.
Holds(new, list, x) ==
    IsFiniteSet(list) => IsFiniteSet(new) /\ SumOfSizes(new) = Bytes(list, x)

\* A block that touches none of the list is put there as it is.
LEMMA InsertApart ==
  ASSUME NEW list, NEW rest, NEW x, Insertable(list, x, rest),
         \A y \in list : BlockEnd(y) # x.addr /\ y.addr # BlockEnd(x)
  PROVE  Inserted(list \cup {x}, rest) /\ Holds(list \cup {x}, list, x)
<1>1. BlockEnd(x) # x.addr
  BY Tile DEF Insertable
<1>2. Inserted(list \cup {x}, rest)
  BY <1>1 DEF Insertable, Inserted, NotAdjacent
<1>3. x \notin list /\ \A b \in list \cup {x} : b.size \in Nat
  BY Tile DEF Insertable
<1>4. QED
  BY <1>2, <1>3, SizesAdd DEF Holds, Bytes

\* prvInsertBlockIntoFreeList keeps the tiling, leaves no two blocks of the list touching and
\* neither loses nor gains a byte.
LEMMA InsertKeepsTiling ==
  ASSUME NEW list, NEW rest, NEW x, Insertable(list, x, rest)
  PROVE  /\ Inserted(prvInsertBlockIntoFreeList(list, x), rest)
         /\ Holds(prvInsertBlockIntoFreeList(list, x), list, x)
<1> DEFINE before == {y \in list : BlockEnd(y) = x.addr}
           after == {y \in list : y.addr = BlockEnd(x)}
           start == IF before = {} THEN x.addr ELSE (CHOOSE y \in before : TRUE).addr
           end == IF after = {} THEN BlockEnd(x) ELSE BlockEnd(CHOOSE y \in after : TRUE)
           whole == [addr |-> start, size |-> end - start]
           l == (list \ (before \cup after)) \cup {whole}
<1>1. prvInsertBlockIntoFreeList(list, x) = l
  BY DEF prvInsertBlockIntoFreeList
<1>2. ASSUME NEW y \in list, NEW z \in list
      PROVE  /\ BlockEnd(y) = BlockEnd(z) => y = z
             /\ y.addr = z.addr => y = z
  BY Tile DEF Insertable
<1>3. /\ x = [addr |-> x.addr, size |-> x.size] /\ x.addr \in Nat /\ x.size \in Nat
      /\ BlockEnd(x) - x.addr = x.size
  BY Tile DEF Insertable, BlockEnd
<1>4. CASE before = {} /\ after = {}
  <2>1. whole = x
    BY <1>3, <1>4
  <2>2. l = list \cup {x}
    BY <1>4, <2>1
  <2>3. QED
    BY <1>1, <1>4, <2>2, InsertApart
<1>5. CASE before # {} /\ after = {}
  <2>1. PICK a \in list : BlockEnd(a) = x.addr
    BY <1>5
  <2>2. before = {a}
    BY <1>2, <2>1
  <2>3. whole = [addr |-> a.addr, size |-> BlockEnd(x) - a.addr]
    BY <1>5, <2>2
  <2> HIDE DEF whole
  <2>4. /\ Insertable(list \ {a}, whole, rest)
        /\ whole.addr = a.addr /\ BlockEnd(whole) = BlockEnd(x)
        /\ Keeps(list, x, list \ {a}, whole)
    BY <2>1, <2>3, MergeBefore
  <2>5. \A y \in list \ {a} : BlockEnd(y) # whole.addr /\ y.addr # BlockEnd(whole)
    BY <1>5, <2>1, <2>4 DEF Insertable, NotAdjacent
  <2>6. /\ Inserted((list \ {a}) \cup {whole}, rest)
        /\ Holds((list \ {a}) \cup {whole}, list \ {a}, whole)
    BY <2>4, <2>5, InsertApart
  <2>7. QED
    BY <1>1, <1>5, <2>2, <2>4, <2>6 DEF Holds, Keeps
<1>6. CASE before = {} /\ after # {}
  <2>1. PICK c \in list : c.addr = BlockEnd(x)
    BY <1>6
  <2>2. after = {c}
    BY <1>2, <2>1
  <2>3. whole = [addr |-> x.addr, size |-> BlockEnd(c) - x.addr]
    BY <1>6, <2>2
  <2> HIDE DEF whole
  <2>4. /\ Insertable(list \ {c}, whole, rest)
        /\ whole.addr = x.addr /\ BlockEnd(whole) = BlockEnd(c)
        /\ Keeps(list, x, list \ {c}, whole)
    BY <2>1, <2>3, MergeAfter
  <2>5. \A y \in list \ {c} : BlockEnd(y) # whole.addr /\ y.addr # BlockEnd(whole)
    BY <1>6, <2>1, <2>4 DEF Insertable, NotAdjacent
  <2>6. /\ Inserted((list \ {c}) \cup {whole}, rest)
        /\ Holds((list \ {c}) \cup {whole}, list \ {c}, whole)
    BY <2>4, <2>5, InsertApart
  <2>7. QED
    BY <1>1, <1>6, <2>2, <2>4, <2>6 DEF Holds, Keeps
<1>7. CASE before # {} /\ after # {}
  <2>1. PICK a \in list : BlockEnd(a) = x.addr
    BY <1>7
  <2>2. PICK c \in list : c.addr = BlockEnd(x)
    BY <1>7
  <2>3. before = {a} /\ after = {c}
    BY <1>2, <2>1, <2>2
  <2>4. whole = [addr |-> a.addr, size |-> BlockEnd(c) - a.addr]
    BY <2>3
  <2>5. a # c
    <3>1. SUFFICES ASSUME a = c PROVE FALSE
      OBVIOUS
    <3>2. /\ a.addr \in Nat /\ a.size \in Nat /\ a.size > 0 /\ x.size > 0
      BY Tile DEF Insertable
    <3>3. QED
      BY <1>3, <2>1, <2>2, <3>1, <3>2 DEF BlockEnd
  <2> DEFINE m == [addr |-> a.addr, size |-> BlockEnd(x) - a.addr]
  <2>6. /\ Insertable(list \ {a}, m, rest)
        /\ m.addr = a.addr /\ BlockEnd(m) = BlockEnd(x)
        /\ Keeps(list, x, list \ {a}, m)
    BY <2>1, MergeBefore
  <2> HIDE DEF m, whole
  <2>7. c \in list \ {a} /\ c.addr = BlockEnd(m)
    BY <2>2, <2>5, <2>6
  <2>8. whole = [addr |-> m.addr, size |-> BlockEnd(c) - m.addr]
    BY <2>4, <2>6
  <2>9. /\ Insertable((list \ {a}) \ {c}, whole, rest)
        /\ whole.addr = m.addr /\ BlockEnd(whole) = BlockEnd(c)
        /\ Keeps(list \ {a}, m, (list \ {a}) \ {c}, whole)
    BY <2>6, <2>7, <2>8, MergeAfter
  <2>10. \A y \in (list \ {a}) \ {c} : BlockEnd(y) # whole.addr /\ y.addr # BlockEnd(whole)
    BY <2>6, <2>9 DEF Insertable, NotAdjacent
  <2>11. /\ Inserted(((list \ {a}) \ {c}) \cup {whole}, rest)
         /\ Holds(((list \ {a}) \ {c}) \cup {whole}, (list \ {a}) \ {c}, whole)
    BY <2>9, <2>10, InsertApart
  <2>12. l = ((list \ {a}) \ {c}) \cup {whole}
    BY <2>3
  <2>13. QED
    BY <1>1, <2>6, <2>9, <2>11, <2>12 DEF Holds, Keeps
<1>8. QED
  BY <1>4, <1>5, <1>6, <1>7

-------------------------------------------------------------------------------
(***************************************************************************)
(* HeapInv is inductive.                                                   *)
(***************************************************************************)
LEMMA InitInv == prvHeapInit => HeapInv
<1> SUFFICES ASSUME prvHeapInit PROVE HeapInv
  OBVIOUS
<1> DEFINE whole == [addr |-> HeapStart, size |-> HeapEnd - HeapStart]
<1>1. free = {whole} /\ allocated = {}
  BY DEF prvHeapInit
<1>2. /\ HeapStart \in Nat /\ HeapEnd \in Nat /\ HeapEnd - HeapStart >= xHeapStructSize
      /\ xHeapStructSize \in Nat \ {0}
      /\ Aligned(HeapStart) /\ Aligned(HeapEnd - HeapStart)
  BY HeapEnds, AlignedSums, AlignmentAssumption
<1>3. InHeap(whole) /\ BlockEnd(whole) = HeapEnd /\ BlockEnd(whole) # whole.addr
  BY <1>2 DEF InHeap, Block, BlockEnd, Aligned
<1> HIDE DEF whole
<1>4. whole.addr = HeapStart
  BY DEF whole
<1>5. Tiles({whole})
  BY <1>3, <1>4 DEF Tiles
<1>6. QED
  BY <1>1, <1>3, <1>5 DEF HeapInv, Blocks, NotAdjacent

\* The block found by the search is a free block that is large enough.
LEMMA FirstFitFits ==
  ASSUME HeapInv, NEW n \in Nat, Fitting(n) # {}
  PROVE  FirstFit(n) \in free /\ FirstFit(n).size >= n
<1> DEFINE Addrs == {b.addr : b \in Fitting(n)}
<1>1. Addrs # {} /\ Addrs \subseteq Nat
  BY DEF HeapInv, Blocks, Tiles, InHeap, Block, Fitting
<1>2. PICK a \in Addrs : \A c \in Addrs : a <= c
  BY <1>1, LeastNumber
<1>3. \E b \in Fitting(n) : \A c \in Fitting(n) : b.addr <= c.addr
  BY <1>2
<1>4. FirstFit(n) \in Fitting(n)
  BY <1>3 DEF FirstFit
<1>5. QED
  BY <1>4 DEF Fitting

\* Block t is given out, from the free block b.
GivesOut(b, t) ==
    /\ b \in free /\ t \notin allocated /\ t.size \in Nat
    /\ allocated' = allocated \cup {t}
    /\ xFreeBytesRemaining' = xFreeBytesRemaining - t.size
    /\ \/ free' = free \ {b} /\ t.size = b.size
       \/ \E r : Holds(free', free \ {b}, r) /\ r.size = b.size - t.size

\* A block given out whole, or split with the rest put back: the heap stays tiled.
LEMMA MallocInv ==
  ASSUME HeapInv, NEW w \in Wanted, pvPortMallocSucceeds(w)
  PROVE  HeapInv' /\ \E b, t : GivesOut(b, t)
<1> DEFINE n == Needed(w)
           b == FirstFit(n)
           t == Taken(b, n)
           r == Rest(b, n)
<1>1. n \in Nat /\ n >= xHeapStructSize /\ Aligned(n) /\ Fitting(n) # {}
  <2>1. n > 0
    BY DEF pvPortMallocSucceeds, Satisfiable, Accepts
  <2>2. QED
    BY <2>1, NeededSize DEF pvPortMallocSucceeds, Satisfiable
<1>2. /\ free' = IF t = b THEN free \ {b} ELSE prvInsertBlockIntoFreeList(free \ {b}, r)
      /\ allocated' = allocated \cup {t}
      /\ xFreeBytesRemaining' = xFreeBytesRemaining - t.size
  BY DEF pvPortMallocSucceeds, pvReturn
<1> HIDE DEF n
<1>3. b \in free /\ b.size >= n
  BY <1>1, FirstFitFits
<1>4. /\ b.addr \in Nat /\ b.size \in Nat /\ b = [addr |-> b.addr, size |-> b.size]
      /\ b \in Blocks /\ b \notin allocated /\ xHeapStructSize \in Nat \ {0}
      /\ Tiles(Blocks)
  BY <1>3, Tile, AlignmentAssumption DEF HeapInv, Blocks
<1> HIDE DEF b
<1>5. CASE t = b
  <2>1. HeapInv'
    BY <1>2, <1>3, <1>4, <1>5 DEF HeapInv, Blocks, NotAdjacent
  <2>2. GivesOut(b, t)
    BY <1>2, <1>3, <1>4, <1>5 DEF GivesOut
  <2>3. QED
    BY <2>1, <2>2
<1>6. CASE t # b
  <2>1. b.size - n > 2 * xHeapStructSize /\ t = [addr |-> b.addr, size |-> n]
    BY <1>4, <1>6 DEF Taken, heapMINIMUM_BLOCK_SIZE
  <2>2. b.size - n >= xHeapStructSize
    BY <1>1, <1>4, <2>1
  <2> DEFINE T == (Blocks \ {b}) \cup {t, r}
  <2>3. Tiles(T)
    BY <1>1, <1>4, <2>1, <2>2, Split
  <2>4. /\ t.addr = b.addr /\ t.size = n
        /\ r.addr = b.addr + n /\ r.size = b.size - n
    BY <2>1 DEF Rest
  <2> HIDE DEF t, r
  <2>5. t # r /\ t \notin Blocks /\ r \notin Blocks
    <3>1. t # r
      BY <1>1, <1>4, <2>4
    <3>2. t \notin Blocks
      BY <1>4, <1>6, <2>4, Tile
    <3>3. BlockEnd(r) = BlockEnd(b) /\ r # b
      BY <1>1, <1>4, <2>4 DEF BlockEnd
    <3>4. r \notin Blocks
      BY <1>4, <3>3, Tile
    <3>5. QED
      BY <3>1, <3>2, <3>4
  <2>6. T = (free \ {b}) \cup {r} \cup (allocated \cup {t})
    BY <1>3, <1>4 DEF Blocks
  <2>7. Insertable(free \ {b}, r, allocated \cup {t})
    BY <2>3, <2>5, <2>6 DEF Insertable, HeapInv, Blocks, NotAdjacent
  <2>8. Inserted(free', allocated') /\ Holds(free', free \ {b}, r)
    BY <1>2, <1>6, <2>7, InsertKeepsTiling
  <2>9. HeapInv'
    BY <2>8 DEF Inserted, HeapInv, Blocks
  <2>10. GivesOut(b, t)
    BY <1>1, <1>2, <1>3, <2>4, <2>5, <2>8 DEF GivesOut, Blocks
  <2>11. QED
    BY <2>9, <2>10
<1>7. QED
  BY <1>5, <1>6

\* A block that is returned is put into the free list.
LEMMA FreeInv ==
  ASSUME HeapInv, NEW b \in allocated, vPortFree(b)
  PROVE  HeapInv' /\ Holds(free', free, b)
<1>1. Blocks = free \cup {b} \cup (allocated \ {b})
  BY DEF Blocks
<1>2. Insertable(free, b, allocated \ {b})
  BY <1>1 DEF Insertable, HeapInv
<1>3. /\ Inserted(prvInsertBlockIntoFreeList(free, b), allocated \ {b})
      /\ Holds(prvInsertBlockIntoFreeList(free, b), free, b)
  BY <1>2, InsertKeepsTiling
<1>4. QED
  BY <1>3 DEF vPortFree, Inserted, HeapInv, Blocks

\* HeapInv is inductive.
LEMMA NextInv == HeapInv /\ [Next]_vars => HeapInv'
<1> SUFFICES ASSUME HeapInv, [Next]_vars PROVE HeapInv'
  OBVIOUS
<1>1. ASSUME NEW w \in Wanted, pvPortMallocFails(w) PROVE HeapInv'
  BY <1>1 DEF pvPortMallocFails, vars, HeapInv, Blocks
<1>2. CASE UNCHANGED vars
  BY <1>2 DEF vars, HeapInv, Blocks
<1>3. QED
  BY <1>1, <1>2, MallocInv, FreeInv DEF Next, pvPortMalloc

\* After any sequence of requests and returns, of any sizes, the blocks tile the heap.
THEOREM HeapTiled == Spec => []HeapInv
BY InitInv, NextInv, PTL DEF Spec

\* No two blocks, free or given out, overlap; all lie in the heap, aligned.
THEOREM HeapBlocksApart == Spec => []BlocksApart
<1>1. HeapInv => BlocksApart
  BY DEF HeapInv, Tiles, BlocksApart
<1>2. QED
  BY <1>1, HeapTiled, PTL

\* No two free blocks touch, and when everything has been returned the heap is one block
\* again: no sequence of requests and returns fragments it for good.
THEOREM HeapCoalesced == Spec => []Coalesced
<1>1. HeapInv => Coalesced
  <2> SUFFICES ASSUME HeapInv, allocated = {}
               PROVE  free = {[addr |-> HeapStart, size |-> HeapEnd - HeapStart]}
    BY DEF Coalesced, HeapInv
  <2>1. Tiles(free) /\ NotAdjacent(free)
    BY DEF HeapInv, Blocks
  <2>2. ASSUME NEW b \in free
        PROVE  b = [addr |-> HeapStart, size |-> HeapEnd - HeapStart]
    <3>1. b.addr = HeapStart /\ BlockEnd(b) = HeapEnd
      BY <2>1 DEF Tiles, NotAdjacent
    <3>2. b = [addr |-> b.addr, size |-> b.size] /\ b.addr \in Nat /\ b.size \in Nat
      BY <2>1, Tile
    <3>3. b.size = HeapEnd - HeapStart
      BY <3>1, <3>2, HeapEnds DEF BlockEnd
    <3>4. QED
      BY <3>1, <3>2, <3>3
  <2>3. free # {}
    BY <2>1 DEF Tiles
  <2>4. QED
    BY <2>2, <2>3
<1>2. QED
  BY <1>1, HeapTiled, PTL

-------------------------------------------------------------------------------
(***************************************************************************)
(* The count of free bytes.                                                *)
(***************************************************************************)

\* The blocks can be counted, and the count of free bytes is theirs.
CountInv ==
    /\ IsFiniteSet(free) /\ IsFiniteSet(allocated)
    /\ xMinimumEverFreeBytesRemaining \in Int
    /\ FreeBytesExact

LEMMA InitCount == prvHeapInit => CountInv
<1> SUFFICES ASSUME prvHeapInit PROVE CountInv
  OBVIOUS
<1> DEFINE whole == [addr |-> HeapStart, size |-> HeapEnd - HeapStart]
<1>1. free = {whole} /\ allocated = {} /\ whole.size = HeapEnd - HeapStart /\ whole.size \in Nat
  BY HeapEnds, AlignmentAssumption DEF prvHeapInit
<1> HIDE DEF whole
<1>2. IsFiniteSet({}) /\ IsFiniteSet({whole}) /\ {whole} = {} \cup {whole}
  BY FS_EmptySet, FS_Singleton
<1>3. SumOfSizes({} \cup {whole}) = SumOfSizes({}) + whole.size
  BY <1>1, <1>2, SizesAdd
<1>4. SumOfSizes({whole}) = whole.size
  BY <1>1, <1>2, <1>3, SizesNone
<1>5. xFreeBytesRemaining = whole.size /\ xMinimumEverFreeBytesRemaining = whole.size
  BY <1>1 DEF prvHeapInit
<1>6. QED
  BY <1>1, <1>2, <1>4, <1>5, SizesNone DEF CountInv, FreeBytesExact

\* The sizes of the blocks are numbers, and so are their sums.
LEMMA SizesCount ==
  ASSUME HeapInv, CountInv
  PROVE  /\ \A b \in free \cup allocated : b.size \in Nat
         /\ SumOfSizes(free) \in Int /\ SumOfSizes(allocated) \in Int
<1>1. \A b \in free \cup allocated : b.size \in Nat
  BY Tile DEF HeapInv, Blocks
<1>2. ASSUME NEW S, IsFiniteSet(S), \A b \in S : b.size \in Nat
      PROVE  SumOfSizes(S) \in Int
  <2>1. CASE S = {}
    BY <2>1, SizesNone
  <2>2. CASE S # {}
    BY <1>2, <2>2, SizesRemove
  <2>3. QED
    BY <2>1, <2>2
<1>3. QED
  BY <1>1, <1>2 DEF CountInv

\* What is given out is no longer counted: the size of the block, not of the request.
LEMMA MallocCount ==
  ASSUME HeapInv, CountInv, NEW w \in Wanted, pvPortMallocSucceeds(w)
  PROVE  CountInv'
<1>1. PICK b, t : GivesOut(b, t)
  BY MallocInv
<1>2. /\ \A c \in free \cup allocated : c.size \in Nat
      /\ SumOfSizes(free) \in Int /\ SumOfSizes(allocated) \in Int
  BY SizesCount
<1>3. b \in free /\ t \notin allocated /\ t.size \in Nat /\ b.size \in Nat
  BY <1>1, <1>2 DEF GivesOut
<1>4. /\ IsFiniteSet(free \ {b})
      /\ SumOfSizes(free \ {b}) = SumOfSizes(free) - b.size
  BY <1>2, <1>3, SizesRemove DEF CountInv
<1>5. /\ IsFiniteSet(free')
      /\ SumOfSizes(free') = SumOfSizes(free) - t.size
  <2>1. CASE free' = free \ {b} /\ t.size = b.size
    BY <1>4, <2>1
  <2>2. CASE \E r : Holds(free', free \ {b}, r) /\ r.size = b.size - t.size
    BY <1>2, <1>3, <1>4, <2>2 DEF Holds, Bytes
  <2>3. QED
    BY <1>1, <2>1, <2>2 DEF GivesOut
<1>6. /\ IsFiniteSet(allocated')
      /\ SumOfSizes(allocated') = SumOfSizes(allocated) + t.size
  <2>1. /\ IsFiniteSet(allocated \cup {t})
        /\ SumOfSizes(allocated \cup {t}) = SumOfSizes(allocated) + t.size
    BY <1>2, <1>3, SizesAdd DEF CountInv
  <2>2. QED
    BY <1>1, <2>1 DEF GivesOut
<1>7. /\ xFreeBytesRemaining' = xFreeBytesRemaining - t.size
      /\ xMinimumEverFreeBytesRemaining' \in Int
      /\ xMinimumEverFreeBytesRemaining' <= xFreeBytesRemaining'
  <2>1. xFreeBytesRemaining' = xFreeBytesRemaining - t.size /\ xFreeBytesRemaining \in Int
    BY <1>1, <1>2 DEF GivesOut, CountInv, FreeBytesExact
  <2>2. xMinimumEverFreeBytesRemaining' =
            Least(xMinimumEverFreeBytesRemaining, xFreeBytesRemaining')
    BY DEF pvPortMallocSucceeds
  <2>3. QED
    BY <1>3, <2>1, <2>2 DEF Least, CountInv
<1>8. QED
  BY <1>2, <1>3, <1>5, <1>6, <1>7, HeapEnds DEF CountInv, FreeBytesExact

\* What is returned is counted again.
LEMMA FreeCount ==
  ASSUME HeapInv, CountInv, NEW b \in allocated, vPortFree(b)
  PROVE  CountInv'
<1>1. Holds(free', free, b)
  BY FreeInv
<1>2. /\ \A c \in free \cup allocated : c.size \in Nat
      /\ SumOfSizes(free) \in Int /\ SumOfSizes(allocated) \in Int
  BY SizesCount
<1>3. b.size \in Nat
  BY <1>2
<1>4. IsFiniteSet(free') /\ SumOfSizes(free') = SumOfSizes(free) + b.size
  BY <1>1 DEF Holds, Bytes, CountInv
<1>5. /\ IsFiniteSet(allocated \ {b})
      /\ SumOfSizes(allocated \ {b}) = SumOfSizes(allocated) - b.size
  BY <1>2, SizesRemove DEF CountInv
<1>6. /\ allocated' = allocated \ {b}
      /\ xFreeBytesRemaining' = xFreeBytesRemaining + b.size
      /\ xMinimumEverFreeBytesRemaining' = xMinimumEverFreeBytesRemaining
  BY DEF vPortFree
<1>7. QED
  BY <1>2, <1>3, <1>4, <1>5, <1>6, HeapEnds DEF CountInv, FreeBytesExact

\* For any sequence of requests and returns, the count that gates every request is that of the
\* bytes in the free list, and no byte of the heap is lost.
THEOREM HeapFreeBytesExact == Spec => []FreeBytesExact
<1>1. prvHeapInit => CountInv
  BY InitCount
<1>2. HeapInv /\ CountInv /\ [Next]_vars => CountInv'
  <2> SUFFICES ASSUME HeapInv, CountInv, [Next]_vars PROVE CountInv'
    OBVIOUS
  <2>1. ASSUME UNCHANGED vars PROVE CountInv'
    BY <2>1 DEF vars, counters, CountInv, FreeBytesExact
  <2>2. ASSUME NEW w \in Wanted, pvPortMallocFails(w) PROVE CountInv'
    BY <2>1, <2>2 DEF pvPortMallocFails
  <2>3. QED
    BY <2>1, <2>2, MallocCount, FreeCount DEF Next, pvPortMalloc
<1>3. CountInv => FreeBytesExact
  BY DEF CountInv
<1>4. QED
  BY <1>1, <1>2, <1>3, HeapTiled, PTL DEF Spec

-------------------------------------------------------------------------------
(***************************************************************************)
(* The messages on the heap: MessageInv says where each block is.          *)
(***************************************************************************)

\* What pvPortMalloc gives out nobody has, and it is not NULL.
LEMMA GivenOut ==
  ASSUME HeapInv, NEW w \in Wanted, pvPortMallocSucceeds(w)
  PROVE  /\ allocated' = allocated \cup {pvReturn(w)}
         /\ pvReturn(w) \notin allocated /\ pvReturn(w) # NULL /\ pvReturn(w) # None
<1> DEFINE n == Needed(w)
           b == FirstFit(n)
           t == Taken(b, n)
<1>1. n > 0 /\ Fitting(n) # {} /\ pvReturn(w) = t /\ allocated' = allocated \cup {pvReturn(w)}
  BY DEF pvPortMallocSucceeds, Satisfiable, Accepts, pvReturn
<1>2. n \in Nat /\ n >= 2
  <2>1. w \in Nat /\ w > 0 /\ xHeapStructSize \in Nat /\ xHeapStructSize > 0
        /\ w + xHeapStructSize \in Nat
    BY <1>1, WantedAssumption, AlignmentAssumption DEF Needed
  <2>2. n = AlignUp(w + xHeapStructSize)
    BY <2>1 DEF Needed
  <2>3. n \in Nat /\ n >= w + xHeapStructSize
    BY <2>1, <2>2, Rounding
  <2>4. QED
    BY <2>1, <2>3
<1> HIDE DEF n
<1>3. b \in free /\ b.size >= n
  BY <1>1, <1>2, FirstFitFits
<1>4. /\ b.addr \in Nat /\ b.size \in Nat /\ b = [addr |-> b.addr, size |-> b.size]
      /\ b \in Blocks /\ b \notin allocated /\ Tiles(Blocks)
  BY <1>3, Tile DEF HeapInv, Blocks
<1> HIDE DEF b
<1>5. t.addr = b.addr /\ t.size >= n /\ t.size \in Nat
  BY <1>2, <1>3, <1>4 DEF Taken
<1>6. t # NULL /\ t # None
  BY <1>2, <1>5 DEF NULL, None
<1>7. t \notin allocated
  <2>1. t = b \/ t \notin Blocks
    BY <1>4, <1>5, Tile
  <2>2. QED
    BY <1>4, <2>1 DEF Blocks
<1>8. QED
  BY <1>1, <1>6, <1>7

\* Whatever is held is a block given out.
LEMMA HeldAllocated ==
  ASSUME MessageInv
  PROVE  /\ HandHas \subseteq allocated
         /\ \A t \in Tasks : /\ QueueHas(t) \subseteq allocated /\ TaskHas(t) \subseteq allocated
                             /\ InQueue(t) \subseteq Pointers /\ None \notin InQueue(t)
         /\ (hand = NoHand => HandHas = {})
<1>1. HandHas \subseteq allocated
  BY DEF MessageInv, HandHas, NoHand, Pointers
<1>2. ASSUME NEW t \in Tasks
      PROVE  InQueue(t) \subseteq Pointers
  <2>1. queue[t] \in Seq(Pointers)
    BY DEF MessageInv
  <2>2. \A i \in DOMAIN queue[t] : queue[t][i] \in Pointers
    BY <2>1, LenProperties, ElementOfSeq
  <2>3. QED
    BY <2>2 DEF InQueue
<1>3. None # NULL
  BY DEF None, NULL
<1>4. QED
  BY <1>1, <1>2, <1>3 DEF MessageInv, QueueHas, TaskHas, Pointers, HandHas, NoHand

LEMMA InitMessages == Init => MessageInv
<1> SUFFICES ASSUME Init PROVE MessageInv
  OBVIOUS
<1>1. /\ allocated = {} /\ hand = NoHand /\ queue = [t \in Tasks |-> <<>>]
      /\ msg_rcv = [t \in Tasks |-> None] /\ mailboxes = {} /\ prvHeapInit
  BY DEF Init, prvHeapInit
<1>2. \A t \in Tasks : InQueue(t) = {} /\ queue[t] = <<>>
  BY <1>1 DEF InQueue
<1>3. HandHas = {} /\ \A t \in Tasks : QueueHas(t) = {} /\ TaskHas(t) = {}
  BY <1>1, <1>2 DEF HandHas, NoHand, QueueHas, TaskHas
<1>4. OneHolder
  BY <1>1, <1>2, <1>3 DEF OneHolder
<1>5. QED
  BY <1>1, <1>3, <1>4, InitInv DEF MessageInv

\* The tcp thread gets a block, or NULL.
LEMMA MakeMessages ==
  ASSUME MessageInv, NEW t \in Tasks, Make(t)
  PROVE  MessageInv'
<1> DEFINE w == Size[t]
           m == pvReturn(w)
<1>1. /\ hand = NoHand /\ pvPortMalloc(w) /\ hand' = [task |-> t, msg |-> m]
      /\ UNCHANGED <<queue, msg_rcv, mailboxes>>
  BY DEF Make
<1>2. w \in Wanted /\ HeapInv
  BY MessageAssumption DEF MessageInv
<1>3. HeapInv'
  BY <1>1, <1>2, NextInv DEF Next
<1>4. HandHas = {} /\ HandHas' = {m} \ {NULL, None}
  BY <1>1, HeldAllocated DEF HandHas
<1>5. \A u \in Tasks : QueueHas(u)' = QueueHas(u) /\ TaskHas(u)' = TaskHas(u)
  BY <1>1 DEF QueueHas, InQueue, TaskHas
<1>6. \A u \in Tasks : QueueHas(u) \cup TaskHas(u) \subseteq allocated
  BY HeldAllocated
<1> HIDE DEF m, w
<1>7. CASE pvPortMallocSucceeds(w)
  <2>1. allocated' = allocated \cup {m} /\ m \notin allocated /\ m # NULL /\ m # None
    BY <1>2, <1>7, GivenOut DEF m
  <2>2. OneHolder'
    BY <1>1, <1>4, <1>5, <1>6, <2>1 DEF MessageInv, OneHolder
  <2>3. HandHas' = {m} /\ Pointers' = Pointers \cup {m}
    BY <1>4, <2>1 DEF Pointers
  <2>4. queue' \in [Tasks -> Seq(Pointers')]
    BY <1>1, <2>3 DEF MessageInv
  <2>5. hand' \in [task : Tasks, msg : Pointers']
    BY <1>1, <2>3
  <2>6. msg_rcv' \in [Tasks -> Pointers' \cup {None}] /\ mailboxes' \subseteq allocated'
    BY <1>1, <2>1, <2>3 DEF MessageInv
  <2>7. \A b \in allocated' : b \in HandHas' \cup mailboxes'
                              \/ \E u \in Tasks : b \in QueueHas(u)' \cup TaskHas(u)'
    BY <1>1, <1>4, <1>5, <2>1, <2>3 DEF MessageInv
  <2>8. NULL \notin allocated' /\ None \notin allocated'
    BY <2>1 DEF MessageInv
  <2>9. QED
    BY <1>3, <2>2, <2>4, <2>5, <2>6, <2>7, <2>8 DEF MessageInv
<1>8. CASE pvPortMallocFails(w)
  <2>1. UNCHANGED allocated /\ m = NULL
    BY <1>8 DEF pvPortMallocFails, vars, pvReturn, m
  <2>2. OneHolder'
    BY <1>1, <1>4, <1>5, <2>1 DEF MessageInv, OneHolder
  <2>3. HandHas' = {} /\ Pointers' = Pointers
    BY <1>4, <2>1 DEF Pointers
  <2>4. hand' \in [task : Tasks, msg : Pointers']
    BY <1>1, <2>1, <2>3 DEF Pointers
  <2>5. QED
    BY <1>1, <1>3, <1>4, <1>5, <2>1, <2>2, <2>3, <2>4 DEF MessageInv
<1>9. QED
  BY <1>1, <1>7, <1>8 DEF pvPortMalloc

\* Elements of a queue that grows or shrinks.
LEMMA QueueGrows ==
  ASSUME NEW S, NEW s \in Seq(S), NEW e \in S
  PROVE  /\ Append(s, e) \in Seq(S)
         /\ Len(s) \in Nat /\ DOMAIN s = 1 .. Len(s)
         /\ DOMAIN Append(s, e) = 1 .. Len(s) + 1
         /\ \A i \in 1 .. Len(s) : Append(s, e)[i] = s[i]
         /\ Append(s, e)[Len(s) + 1] = e
BY AppendProperties, LenProperties

LEMMA QueueShrinks ==
  ASSUME NEW S, NEW s \in Seq(S), s # <<>>
  PROVE  /\ Tail(s) \in Seq(S) /\ Head(s) = s[1] /\ Head(s) \in S
         /\ Len(s) \in Nat /\ Len(s) > 0 /\ DOMAIN s = 1 .. Len(s)
         /\ DOMAIN Tail(s) = 1 .. Len(s) - 1
         /\ \A i \in 1 .. Len(s) - 1 : Tail(s)[i] = s[i + 1]
<1>1. Len(s) \in Nat /\ Len(s) > 0 /\ DOMAIN s = 1 .. Len(s)
  BY LenProperties, EmptySeq
<1>2. Tail(s) \in Seq(S) /\ Len(Tail(s)) = Len(s) - 1 /\ \A i \in 1 .. Len(Tail(s)) : Tail(s)[i] = s[i + 1]
  BY HeadTailProperties
<1>3. Head(s) = s[1] /\ Head(s) \in S
  BY HeadTailProperties DEF Head
<1>4. DOMAIN Tail(s) = 1 .. Len(Tail(s))
  BY <1>2, LenProperties
<1>5. QED
  BY <1>1, <1>2, <1>3, <1>4

\* A pointer goes from the tcp thread to the end of a queue.
LEMMA SendMessages ==
  ASSUME MessageInv, Send
  PROVE  MessageInv'
<1>1. /\ hand # NoHand /\ hand' = NoHand
      /\ UNCHANGED <<free, allocated, msg_rcv, mailboxes>>
  BY DEF Send, heapVars
<1>2. PICK t \in Tasks, m \in Pointers : hand = [task |-> t, msg |-> m]
  BY <1>1 DEF MessageInv
<1>3. queue' = [queue EXCEPT ![t] = Append(queue[t], m)]
  BY <1>2 DEF Send
<1>4. queue \in [Tasks -> Seq(Pointers)] /\ queue[t] \in Seq(Pointers)
  BY DEF MessageInv
<1>5. queue' \in [Tasks -> Seq(Pointers)] /\ queue'[t] = Append(queue[t], m)
      /\ \A u \in Tasks : u # t => queue'[u] = queue[u]
  BY <1>3, <1>4, QueueGrows
<1>6. HeapInv' /\ Pointers' = Pointers
  BY <1>1 DEF MessageInv, HeapInv, Blocks, Pointers
<1>7. HandHas = {m} \ {NULL, None} /\ HandHas' = {}
  BY <1>1, <1>2 DEF HandHas, NoHand
<1>8. InQueue(t)' = InQueue(t) \cup {m}
  <2> DEFINE n == Len(queue[t])
  <2>1. /\ n \in Nat /\ DOMAIN queue[t] = 1 .. n /\ DOMAIN queue'[t] = 1 .. n + 1
        /\ \A k \in 1 .. n : queue'[t][k] = queue[t][k]
        /\ queue'[t][n + 1] = m
    BY <1>4, <1>5, QueueGrows
  <2> HIDE DEF n
  <2>2. 1 .. n + 1 = (1 .. n) \cup {n + 1}
    BY <2>1
  <2>3. QED
    BY <2>1, <2>2 DEF InQueue
<1>9. None # m /\ None # NULL
  BY HeldAllocated DEF MessageInv, Pointers, None, NULL
<1>10. QueueHas(t)' = QueueHas(t) \cup HandHas
       /\ \A u \in Tasks : u # t => QueueHas(u)' = QueueHas(u)
  BY <1>5, <1>7, <1>8, <1>9 DEF QueueHas, InQueue
<1>11. \A u \in Tasks : TaskHas(u)' = TaskHas(u)
  BY <1>1 DEF TaskHas
<1>12. ASSUME NEW i \in DOMAIN queue'[t], NEW j \in DOMAIN queue'[t],
              queue'[t][i] = queue'[t][j], queue'[t][i] # NULL
       PROVE  i = j
  <2> DEFINE n == Len(queue[t])
  <2>1. /\ n \in Nat /\ DOMAIN queue[t] = 1 .. n /\ DOMAIN queue'[t] = 1 .. n + 1
        /\ \A k \in 1 .. n : queue'[t][k] = queue[t][k]
        /\ queue'[t][n + 1] = m
    BY <1>4, <1>5, QueueGrows
  <2>2. \A k \in 1 .. n : queue[t][k] \in InQueue(t)
    BY <2>1 DEF InQueue
  <2> HIDE DEF n
  <2>3. m # NULL => m \notin InQueue(t)
    BY <1>7, <1>9 DEF MessageInv, OneHolder, QueueHas
  <2>4. \A k, l \in 1 .. n : queue[t][k] = queue[t][l] /\ queue[t][k] # NULL => k = l
    BY <2>1 DEF MessageInv, OneHolder
  <2>5. i \in 1 .. n \cup {n + 1} /\ j \in 1 .. n \cup {n + 1}
    BY <2>1
  <2>6. CASE i \in 1 .. n /\ j \in 1 .. n
    BY <1>12, <2>1, <2>4, <2>6
  <2>7. CASE i \in 1 .. n /\ j = n + 1
    BY <1>12, <2>1, <2>2, <2>3, <2>7
  <2>8. CASE i = n + 1 /\ j \in 1 .. n
    BY <1>12, <2>1, <2>2, <2>3, <2>8
  <2>9. QED
    BY <2>5, <2>6, <2>7, <2>8
<1>13. OneHolder'
  <2>1. OneHolder
    BY DEF MessageInv
  <2>2. \A u \in Tasks : /\ QueueHas(u)' \subseteq QueueHas(u) \cup (IF u = t THEN HandHas ELSE {})
                         /\ TaskHas(u)' = TaskHas(u)
    BY <1>10, <1>11
  <2>3. HandHas' \cap mailboxes' = {}
    BY <1>7
  <2>4. ASSUME NEW u \in Tasks
        PROVE  /\ (QueueHas(u)' \cup TaskHas(u)') \cap (HandHas' \cup mailboxes') = {}
               /\ QueueHas(u)' \cap TaskHas(u)' = {}
    BY <1>1, <1>7, <2>1, <2>2 DEF OneHolder
  <2>5. ASSUME NEW u \in Tasks, NEW v \in Tasks, u # v
        PROVE  (QueueHas(u)' \cup TaskHas(u)') \cap (QueueHas(v)' \cup TaskHas(v)') = {}
    BY <2>1, <2>2, <2>5 DEF OneHolder
  <2>6. ASSUME NEW u \in Tasks, NEW i \in DOMAIN queue'[u], NEW j \in DOMAIN queue'[u],
               queue'[u][i] = queue'[u][j], queue'[u][i] # NULL
        PROVE  i = j
    <3>1. CASE u = t
      BY <1>12, <2>6, <3>1
    <3>2. CASE u # t
      BY <1>5, <2>1, <2>6, <3>2 DEF OneHolder
    <3>3. QED
      BY <3>1, <3>2
  <2>7. QED
    BY <2>3, <2>4, <2>5, <2>6 DEF OneHolder
<1>14. \A b \in allocated' : b \in HandHas' \cup mailboxes'
                             \/ \E u \in Tasks : b \in QueueHas(u)' \cup TaskHas(u)'
  BY <1>1, <1>10, <1>11 DEF MessageInv
<1>15. QED
  BY <1>1, <1>5, <1>6, <1>13, <1>14 DEF MessageInv

\* The head of a queue goes to its task.
LEMMA ReceiveMessages ==
  ASSUME MessageInv, NEW t \in Tasks, Receive(t)
  PROVE  MessageInv'
<1>1. /\ msg_rcv[t] = None /\ queue[t] # <<>>
      /\ msg_rcv' = [msg_rcv EXCEPT ![t] = Head(queue[t])]
      /\ queue' = [queue EXCEPT ![t] = Tail(queue[t])]
      /\ UNCHANGED <<free, allocated, hand, mailboxes>>
  BY DEF Receive, heapVars
<1>2. queue \in [Tasks -> Seq(Pointers)] /\ queue[t] \in Seq(Pointers)
      /\ msg_rcv \in [Tasks -> Pointers \cup {None}]
  BY DEF MessageInv
<1>3. PICK m \in Pointers : m = Head(queue[t])
  BY <1>1, <1>2, QueueShrinks
<1>4. /\ queue' \in [Tasks -> Seq(Pointers)] /\ queue'[t] = Tail(queue[t])
      /\ \A u \in Tasks : u # t => queue'[u] = queue[u]
  BY <1>1, <1>2, QueueShrinks
<1>5. /\ msg_rcv' \in [Tasks -> Pointers \cup {None}] /\ msg_rcv'[t] = m
      /\ \A u \in Tasks : u # t => msg_rcv'[u] = msg_rcv[u]
  BY <1>1, <1>2, <1>3
<1>6. HeapInv' /\ Pointers' = Pointers
  BY <1>1 DEF MessageInv, HeapInv, Blocks, Pointers
<1>7. HandHas' = HandHas
  BY <1>1 DEF HandHas
<1>8. None # m /\ None # NULL
  BY HeldAllocated DEF MessageInv, Pointers, None, NULL
<1>9. TaskHas(t) = {} /\ TaskHas(t)' = {m} \ {NULL}
      /\ \A u \in Tasks : u # t => TaskHas(u)' = TaskHas(u)
  BY <1>1, <1>5, <1>8 DEF TaskHas
<1> DEFINE n == Len(queue[t])
<1>10. /\ n \in Nat /\ n > 0 /\ DOMAIN queue[t] = 1 .. n /\ DOMAIN queue'[t] = 1 .. n - 1
       /\ \A k \in 1 .. n - 1 : queue'[t][k] = queue[t][k + 1]
       /\ queue[t][1] = m
  BY <1>1, <1>2, <1>3, <1>4, QueueShrinks
<1>11. \A k, l \in 1 .. n : queue[t][k] = queue[t][l] /\ queue[t][k] # NULL => k = l
  BY <1>10 DEF MessageInv, OneHolder
<1> HIDE DEF n
<1>12. QueueHas(t)' = QueueHas(t) \ {m} /\ m \in InQueue(t)
  <2>1. InQueue(t) = {queue[t][k] : k \in 1 .. n} /\ InQueue(t)' = {queue'[t][k] : k \in 1 .. n - 1}
    BY <1>10 DEF InQueue
  <2>2. ASSUME NEW x, x \in InQueue(t)', x # NULL PROVE x \in InQueue(t) /\ x # m
    <3>1. PICK k \in 1 .. n - 1 : x = queue'[t][k]
      BY <2>1, <2>2
    <3>2. k + 1 \in 1 .. n /\ x = queue[t][k + 1] /\ k + 1 # 1 /\ 1 \in 1 .. n
      BY <1>10, <3>1
    <3>3. QED
      BY <1>10, <1>11, <2>1, <2>2, <3>2
  <2>3. ASSUME NEW x, x \in InQueue(t), x # m PROVE x \in InQueue(t)'
    <3>1. PICK k \in 1 .. n : x = queue[t][k]
      BY <2>1, <2>3
    <3>2. k # 1
      BY <1>10, <2>3, <3>1
    <3>3. k - 1 \in 1 .. n - 1 /\ (k - 1) + 1 = k
      BY <1>10, <3>2
    <3>4. QED
      BY <1>10, <2>1, <3>1, <3>3
  <2>4. m \in InQueue(t)
    BY <1>10, <2>1
  <2>5. QED
    BY <2>2, <2>3, <2>4 DEF QueueHas
<1>13. \A u \in Tasks : u # t => QueueHas(u)' = QueueHas(u)
  BY <1>4 DEF QueueHas, InQueue
<1>14. QueueHas(t) \cup TaskHas(t) = QueueHas(t)' \cup TaskHas(t)'
  BY <1>9, <1>12 DEF QueueHas
<1>15. OneHolder'
  <2>1. HandHas' \cap mailboxes' = {}
        /\ \A u \in Tasks : (QueueHas(u)' \cup TaskHas(u)') \cap (HandHas' \cup mailboxes') = {}
    BY <1>1, <1>7, <1>9, <1>13, <1>14 DEF MessageInv, OneHolder
  <2>2. \A u \in Tasks : QueueHas(u)' \cap TaskHas(u)' = {}
    BY <1>9, <1>12, <1>13 DEF MessageInv, OneHolder
  <2>3. \A u, v \in Tasks : u # v =>
            (QueueHas(u)' \cup TaskHas(u)') \cap (QueueHas(v)' \cup TaskHas(v)') = {}
    BY <1>9, <1>13, <1>14 DEF MessageInv, OneHolder
  <2>4. \A k, l \in 1 .. n - 1 : queue'[t][k] = queue'[t][l] /\ queue'[t][k] # NULL => k = l
    <3>1. \A k \in 1 .. n - 1 : k + 1 \in 1 .. n
      BY <1>10
    <3>2. SUFFICES ASSUME NEW k \in 1 .. n - 1, NEW l \in 1 .. n - 1,
                          queue'[t][k] = queue'[t][l], queue'[t][k] # NULL
                   PROVE  k = l
      OBVIOUS
    <3>3. queue[t][k + 1] = queue[t][l + 1] /\ queue[t][k + 1] # NULL
      BY <1>10, <3>2
    <3>4. k + 1 = l + 1
      BY <1>11, <3>1, <3>3
    <3>5. QED
      BY <1>10, <3>4
  <2>5. ASSUME NEW u \in Tasks, NEW i \in DOMAIN queue'[u], NEW j \in DOMAIN queue'[u],
               queue'[u][i] = queue'[u][j], queue'[u][i] # NULL
        PROVE  i = j
    <3>1. CASE u = t
      BY <1>10, <2>4, <2>5, <3>1
    <3>2. CASE u # t
      BY <1>4, <2>5, <3>2 DEF MessageInv, OneHolder
    <3>3. QED
      BY <3>1, <3>2
  <2>6. QED
    BY <2>1, <2>2, <2>3, <2>5 DEF OneHolder
<1>16. \A b \in allocated' : b \in HandHas' \cup mailboxes'
                             \/ \E u \in Tasks : b \in QueueHas(u)' \cup TaskHas(u)'
  BY <1>1, <1>7, <1>9, <1>13, <1>14 DEF MessageInv
<1>17. QED
  BY <1>1, <1>4, <1>5, <1>6, <1>15, <1>16 DEF MessageInv


\* A task returns what it had.
LEMMA DoneMessages ==
  ASSUME MessageInv, NEW t \in Tasks, Done(t)
  PROVE  MessageInv'
<1> DEFINE m == msg_rcv[t]
<1>1. /\ m # None /\ msg_rcv' = [msg_rcv EXCEPT ![t] = None]
      /\ UNCHANGED <<hand, queue, mailboxes>>
      /\ IF m = NULL THEN UNCHANGED heapVars ELSE vPortFree(m)
  BY DEF Done
<1>2. msg_rcv \in [Tasks -> Pointers \cup {None}] /\ m \in Pointers
  BY <1>1 DEF MessageInv
<1>3. /\ msg_rcv' \in [Tasks -> Pointers \cup {None}] /\ msg_rcv'[t] = None
      /\ \A u \in Tasks : u # t => msg_rcv'[u] = msg_rcv[u]
  BY <1>1, <1>2
<1>4. HandHas' = HandHas /\ \A u \in Tasks : QueueHas(u)' = QueueHas(u)
  BY <1>1 DEF HandHas, QueueHas, InQueue
<1>5. TaskHas(t) = {m} \ {NULL} /\ TaskHas(t)' = {}
      /\ \A u \in Tasks : u # t => TaskHas(u)' = TaskHas(u)
  BY <1>1, <1>3 DEF TaskHas
<1>6. HeapInv' /\ allocated' = allocated \ {m}
  <2>1. CASE m = NULL
    BY <1>1, <2>1 DEF heapVars, MessageInv, HeapInv, Blocks
  <2>2. CASE m # NULL
    <3>1. m \in allocated /\ vPortFree(m)
      BY <1>1, <1>2, <2>2 DEF Pointers
    <3>2. HeapInv'
      BY <3>1, FreeInv DEF MessageInv
    <3>3. QED
      BY <3>1, <3>2 DEF vPortFree
  <2>3. QED
    BY <2>1, <2>2
<1>7. OneHolder
  BY DEF MessageInv
<1>8. OneHolder'
  <2>1. ASSUME NEW u \in Tasks
        PROVE  TaskHas(u)' \subseteq TaskHas(u)
    BY <1>5
  <2>2. QED
    BY <1>1, <1>4, <1>7, <2>1 DEF OneHolder
<1>9. /\ m \notin HandHas \cup mailboxes
      /\ \A u \in Tasks : m \notin QueueHas(u) /\ (u # t => m \notin TaskHas(u))
  <2>1. CASE m = NULL
    BY <2>1 DEF HandHas, QueueHas, TaskHas, MessageInv
  <2>2. CASE m # NULL
    <3>1. m \in TaskHas(t)
      BY <1>5, <2>2
    <3>2. QED
      BY <1>7, <3>1 DEF OneHolder
  <2>3. QED
    BY <2>1, <2>2
<1> HIDE DEF m
<1>10. hand' \in {NoHand} \cup [task : Tasks, msg : Pointers']
  <2>1. CASE hand = NoHand
    BY <1>1, <2>1
  <2>2. CASE hand # NoHand
    <3>1. PICK s \in Tasks, p \in Pointers : hand = [task |-> s, msg |-> p]
      BY <2>2 DEF MessageInv
    <3>2. p = NULL \/ p \in HandHas
      BY <3>1 DEF HandHas, MessageInv, Pointers
    <3>3. p \in Pointers'
      BY <1>6, <1>9, <3>1, <3>2 DEF Pointers
    <3>4. QED
      BY <1>1, <3>1, <3>3
  <2>3. QED
    BY <2>1, <2>2
<1>11. queue' \in [Tasks -> Seq(Pointers')]
  <2>1. ASSUME NEW u \in Tasks
        PROVE  queue[u] \in Seq(Pointers')
    <3>1. queue[u] \in Seq(Pointers)
      BY DEF MessageInv
    <3>2. \A i \in 1 .. Len(queue[u]) : queue[u][i] \in Pointers'
      BY <1>6, <1>9, <3>1, LenProperties DEF QueueHas, InQueue, Pointers
    <3>3. QED
      BY <3>1, <3>2, SeqDef, LenProperties
  <2>2. QED
    BY <1>1, <2>1 DEF MessageInv
<1>12. msg_rcv' \in [Tasks -> Pointers' \cup {None}]
  <2>1. ASSUME NEW u \in Tasks
        PROVE  msg_rcv'[u] \in Pointers' \cup {None}
    BY <1>2, <1>3, <1>6, <1>9 DEF TaskHas, Pointers
  <2>2. QED
    BY <1>3, <2>1
<1>13. mailboxes' \subseteq allocated' /\ NULL \notin allocated' /\ None \notin allocated'
  BY <1>1, <1>6, <1>9 DEF MessageInv
<1>14. \A b \in allocated' : b \in HandHas' \cup mailboxes'
                             \/ \E u \in Tasks : b \in QueueHas(u)' \cup TaskHas(u)'
  <2>1. SUFFICES ASSUME NEW b \in allocated, b # m, b \notin HandHas \cup mailboxes
                 PROVE  \E u \in Tasks : b \in QueueHas(u)' \cup TaskHas(u)'
    BY <1>1, <1>4, <1>6
  <2>2. PICK u \in Tasks : b \in QueueHas(u) \cup TaskHas(u)
    BY <2>1 DEF MessageInv
  <2>3. b \in QueueHas(u)' \cup TaskHas(u)'
    BY <1>4, <1>5, <2>1, <2>2
  <2>4. QED
    BY <2>3
<1>15. QED
  BY <1>6, <1>8, <1>10, <1>11, <1>12, <1>13, <1>14 DEF MessageInv

\* A connection is made, or not for want of memory.
LEMMA MailboxMade ==
  ASSUME MessageInv, sys_mbox_new
  PROVE  MessageInv'
<1> DEFINE m == pvReturn(MailboxSize)
<1>1. /\ pvPortMalloc(MailboxSize) /\ mailboxes' = mailboxes \cup ({m} \ {NULL})
      /\ UNCHANGED <<hand, queue, msg_rcv>>
  BY DEF sys_mbox_new
<1>2. MailboxSize \in Wanted /\ HeapInv
  BY MessageAssumption DEF MessageInv
<1>3. HeapInv'
  BY <1>1, <1>2, NextInv DEF Next
<1>4. HandHas' = HandHas /\ \A u \in Tasks : QueueHas(u)' = QueueHas(u) /\ TaskHas(u)' = TaskHas(u)
  BY <1>1 DEF HandHas, QueueHas, InQueue, TaskHas
<1>5. HandHas \subseteq allocated /\ \A u \in Tasks : QueueHas(u) \cup TaskHas(u) \subseteq allocated
  BY HeldAllocated
<1> HIDE DEF m
<1>6. CASE pvPortMallocSucceeds(MailboxSize)
  <2>1. allocated' = allocated \cup {m} /\ m \notin allocated /\ m # NULL /\ m # None
    BY <1>2, <1>6, GivenOut DEF m
  <2>2. mailboxes' = mailboxes \cup {m} /\ Pointers' = Pointers \cup {m}
    BY <1>1, <2>1 DEF Pointers
  <2>3. OneHolder'
    BY <1>1, <1>4, <1>5, <2>1, <2>2 DEF MessageInv, OneHolder
  <2>4. queue' \in [Tasks -> Seq(Pointers')] /\ msg_rcv' \in [Tasks -> Pointers' \cup {None}]
        /\ hand' \in {NoHand} \cup [task : Tasks, msg : Pointers']
    BY <1>1, <2>2 DEF MessageInv
  <2>5. \A b \in allocated' : b \in HandHas' \cup mailboxes'
                              \/ \E u \in Tasks : b \in QueueHas(u)' \cup TaskHas(u)'
    BY <1>4, <2>1, <2>2 DEF MessageInv
  <2>6. mailboxes' \subseteq allocated' /\ NULL \notin allocated' /\ None \notin allocated'
    BY <2>1, <2>2 DEF MessageInv
  <2>7. QED
    BY <1>3, <2>3, <2>4, <2>5, <2>6 DEF MessageInv
<1>7. CASE pvPortMallocFails(MailboxSize)
  <2>1. UNCHANGED <<allocated, mailboxes>>
    BY <1>1, <1>7 DEF pvPortMallocFails, vars, pvReturn, m
  <2>2. QED
    BY <1>1, <1>3, <1>4, <2>1 DEF MessageInv, OneHolder, Pointers
<1>8. QED
  BY <1>1, <1>6, <1>7 DEF pvPortMalloc

\* A connection ends.
LEMMA MailboxFreed ==
  ASSUME MessageInv, sys_mbox_free
  PROVE  MessageInv'
<1>1. PICK m \in mailboxes : vPortFree(m) /\ mailboxes' = mailboxes \ {m}
  BY DEF sys_mbox_free
<1>2. UNCHANGED <<hand, queue, msg_rcv>>
  BY DEF sys_mbox_free
<1>3. m \in allocated /\ allocated' = allocated \ {m} /\ HeapInv'
  BY <1>1, FreeInv DEF MessageInv, vPortFree
<1>4. HandHas' = HandHas /\ \A u \in Tasks : QueueHas(u)' = QueueHas(u) /\ TaskHas(u)' = TaskHas(u)
  BY <1>2 DEF HandHas, QueueHas, InQueue, TaskHas
<1>5. m \notin HandHas /\ \A u \in Tasks : m \notin QueueHas(u) \cup TaskHas(u)
  BY <1>1 DEF MessageInv, OneHolder
<1>6. m # NULL /\ m # None
  BY <1>3 DEF MessageInv
<1>7. OneHolder'
  BY <1>1, <1>2, <1>4 DEF MessageInv, OneHolder
<1>8. hand' \in {NoHand} \cup [task : Tasks, msg : Pointers']
  <2>1. CASE hand = NoHand
    BY <1>2, <2>1
  <2>2. CASE hand # NoHand
    <3>1. PICK s \in Tasks, p \in Pointers : hand = [task |-> s, msg |-> p]
      BY <2>2 DEF MessageInv
    <3>2. p = NULL \/ p \in HandHas
      BY <3>1 DEF HandHas, MessageInv, Pointers
    <3>3. p \in Pointers'
      BY <1>3, <1>5, <3>1, <3>2 DEF Pointers
    <3>4. QED
      BY <1>2, <3>1, <3>3
  <2>3. QED
    BY <2>1, <2>2
<1>9. queue' \in [Tasks -> Seq(Pointers')]
  <2>1. ASSUME NEW u \in Tasks
        PROVE  queue[u] \in Seq(Pointers')
    <3>1. queue[u] \in Seq(Pointers)
      BY DEF MessageInv
    <3>2. \A i \in 1 .. Len(queue[u]) : queue[u][i] \in Pointers'
      BY <1>3, <1>5, <1>6, <3>1, LenProperties DEF QueueHas, InQueue, Pointers
    <3>3. QED
      BY <3>1, <3>2, SeqDef, LenProperties
  <2>2. QED
    BY <1>2, <2>1 DEF MessageInv
<1>10. msg_rcv' \in [Tasks -> Pointers' \cup {None}]
  <2>1. ASSUME NEW u \in Tasks
        PROVE  msg_rcv[u] \in Pointers' \cup {None}
    <3>1. msg_rcv[u] \in Pointers \cup {None}
      BY DEF MessageInv
    <3>2. QED
      BY <1>3, <1>5, <1>6, <3>1 DEF TaskHas, Pointers
  <2>2. QED
    BY <1>2, <2>1 DEF MessageInv
<1>11. mailboxes' \subseteq allocated' /\ NULL \notin allocated' /\ None \notin allocated'
  BY <1>1, <1>3 DEF MessageInv
<1>12. \A b \in allocated' : b \in HandHas' \cup mailboxes'
                             \/ \E u \in Tasks : b \in QueueHas(u)' \cup TaskHas(u)'
  BY <1>1, <1>3, <1>4 DEF MessageInv
<1>13. QED
  BY <1>3, <1>7, <1>8, <1>9, <1>10, <1>11, <1>12 DEF MessageInv

LEMMA MessagesStep == MessageInv /\ [MessageNext]_messageVars => MessageInv'
<1> SUFFICES ASSUME MessageInv, [MessageNext]_messageVars PROVE MessageInv'
  OBVIOUS
<1>1. CASE UNCHANGED messageVars
  <2>1. UNCHANGED <<free, allocated, counters, hand, queue, msg_rcv, mailboxes>>
    BY <1>1 DEF messageVars, heapVars
  <2>2. HeapInv'
    BY <2>1, NextInv DEF MessageInv, vars
  <2>3. HandHas' = HandHas /\ \A u \in Tasks : QueueHas(u)' = QueueHas(u) /\ TaskHas(u)' = TaskHas(u)
    BY <2>1 DEF HandHas, QueueHas, InQueue, TaskHas
  <2>4. OneHolder'
    BY <2>1, <2>3 DEF MessageInv, OneHolder
  <2>5. QED
    BY <2>1, <2>2, <2>3, <2>4 DEF MessageInv, Pointers
<1>2. CASE MessageNext
  BY <1>2, MakeMessages, SendMessages, ReceiveMessages, DoneMessages, MailboxMade, MailboxFreed
  DEF MessageNext
<1>3. QED
  BY <1>1, <1>2

\* For every number of motion tasks, queue length, message size and heap: each block given out is
\* with exactly one of the tcp thread, a queue, a motion task and a connection, until it is returned.
THEOREM MessagesHaveOneOwner == MessageSpec => []MessagesOwned
<1>1. MessageInv => MessagesOwned
  <2> SUFFICES ASSUME MessageInv PROVE MessagesOwned
    OBVIOUS
  <2>1. /\ HandHas \subseteq allocated /\ mailboxes \subseteq allocated
        /\ \A t \in Tasks : QueueHas(t) \subseteq allocated /\ TaskHas(t) \subseteq allocated
    BY HeldAllocated DEF MessageInv
  <2>2. NULL \notin allocated /\ None \notin allocated
    BY DEF MessageInv
  <2>3. ASSUME NEW b, b \in Held \ {NULL} PROVE b \in allocated
    <3>1. b # NULL /\ b # None
      BY <2>3 DEF Held
    <3>2. b = hand.msg \/ b \in mailboxes \/ \E t \in Tasks : b = msg_rcv[t] \/ b \in InQueue(t)
      BY <2>3 DEF Held
    <3>3. b \in HandHas \/ b \in mailboxes \/ \E t \in Tasks : b \in TaskHas(t) \/ b \in QueueHas(t)
      BY <3>1, <3>2 DEF HandHas, TaskHas, QueueHas
    <3>4. QED
      BY <2>1, <3>3
  <2>4. ASSUME NEW b \in allocated PROVE b \in Held \ {NULL}
    <3>1. b \in HandHas \cup mailboxes \/ \E t \in Tasks : b \in QueueHas(t) \cup TaskHas(t)
      BY DEF MessageInv
    <3>2. b = hand.msg \/ b \in mailboxes \/ \E t \in Tasks : b = msg_rcv[t] \/ b \in InQueue(t)
      BY <3>1 DEF HandHas, TaskHas, QueueHas
    <3>3. QED
      BY <2>2, <3>2 DEF Held
  <2>5. QED
    BY <2>3, <2>4 DEF MessagesOwned, MessageInv
<1>2. QED
  BY <1>1, InitMessages, MessagesStep, PTL DEF MessageSpec

\* The messages and the mailboxes are one use of the heap among others: what is proved of the heap
\* under any requests holds under theirs.
THEOREM MessagesUseHeap == MessageSpec => Spec
<1>1. Init => prvHeapInit
  BY DEF Init
<1>2. ASSUME [MessageNext]_messageVars PROVE [Next]_vars
  <2>1. CASE UNCHANGED messageVars
    BY <2>1 DEF messageVars, heapVars, vars
  <2>2. ASSUME NEW t \in Tasks, Make(t) PROVE [Next]_vars
    BY <2>2, MessageAssumption DEF Make, Next
  <2>3. ASSUME NEW t \in Tasks, Done(t) PROVE [Next]_vars
    <3>1. CASE msg_rcv[t] = NULL
      BY <2>3, <3>1 DEF Done, heapVars, vars
    <3>2. CASE msg_rcv[t] # NULL
      BY <2>3, <3>2 DEF Done, Next, vPortFree
    <3>3. QED
      BY <3>1, <3>2
  <2>4. CASE sys_mbox_new
    BY <2>4, MessageAssumption DEF sys_mbox_new, Next
  <2>5. CASE sys_mbox_free
    BY <2>5 DEF sys_mbox_free, Next, vPortFree
  <2>6. CASE Send \/ \E t \in Tasks : Receive(t)
    BY <2>6 DEF Send, Receive, heapVars, vars
  <2>7. QED
    BY <1>2, <2>1, <2>2, <2>3, <2>4, <2>5, <2>6 DEF MessageNext
<1>3. QED
  BY <1>1, <1>2, PTL DEF MessageSpec, Spec
================================================================================
