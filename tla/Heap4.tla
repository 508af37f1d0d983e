------------------------------- MODULE Heap4 -------------------------------
(***************************************************************************)
(* The first-fit, coalescing allocator of heap_4.c, which backs SQLite and *)
(* the benchmark in the Windows build.  The heap is an array of bytes cut  *)
(* into blocks; a block starts with a header (BlockLink_t) and is either   *)
(* on the free list or owned by the application.                           *)
(*                                                                         *)
(* The list from xStart to pxEnd is the sequence h.list of the blocks      *)
(* strictly between them; both ends are implicit.  The header's            *)
(* pxNextFreeBlock is the position in that sequence, and the allocated bit *)
(* of xBlockSize is a field of its own.  The program has one thread (the   *)
(* suspend, resume and critical-section macros of heap_4.h are empty), so  *)
(* a call is one step.                                                     *)
(***************************************************************************)
EXTENDS Integers, Sequences, FiniteSets

CONSTANTS
  Base,          \* address of ucHeap, not necessarily aligned
  TotalSize,     \* configTOTAL_HEAP_SIZE
  StructSize,    \* xHeapStructSize
  Alignment,     \* portBYTE_ALIGNMENT
  SizeMax,       \* heapSIZE_MAX
  Requests,      \* the sizes callers ask for
  CallocArgs,    \* the pairs <<xNum, xSize>> given to pvPortCalloc
  MayShrink,     \* whether pvPortRealloc is called with a smaller size
  MaxMallocs     \* bound on the number of successful allocations

VARIABLES heap, status

vars == <<heap, status>>

\* A mutant: the array is used from its first byte, aligned or not.
AlignUpNot(a) == a

AlignUp(a) == IF a % Alignment = 0 THEN a ELSE a + (Alignment - (a % Alignment))
AlignDown(a) == a - (a % Alignment)

FirstBlock == AlignUp(Base)
EndMarker == AlignDown(Base + TotalSize - StructSize)    \* pxEnd
AllocatedBit == (SizeMax + 1) \div 2                     \* heapBLOCK_ALLOCATED_BITMASK

ASSUME HeapAssumption ==
  /\ Base \in Nat /\ TotalSize \in Nat /\ SizeMax \in Nat
  /\ StructSize \in Nat \ {0} /\ Alignment \in Nat \ {0}
  /\ Requests \subseteq 0 .. SizeMax
  /\ CallocArgs \subseteq (0 .. SizeMax) \X (0 .. SizeMax)
  /\ MayShrink \in BOOLEAN /\ MaxMallocs \in Nat

\* The array has room for pxEnd and one block, and stays below the bit that
\* marks a block as allocated.
ASSUME RoomAssumption ==
  /\ FirstBlock \in Nat /\ EndMarker \in Nat
  /\ FirstBlock < EndMarker
  /\ EndMarker < AllocatedBit

\* xHeapStructSize is rounded up to the alignment (heap_4.c:126).
ASSUME StructAssumption == StructSize % Alignment = 0

Header == [size : Nat, allocated : BOOLEAN, wanted : Nat]

Blocks(h) == DOMAIN h.hdr
FreeBlocks(h) == {b \in Blocks(h) : ~h.hdr[b].allocated}
Allocated(h) == {b \in Blocks(h) : h.hdr[b].allocated}
EndOf(h, b) == b + h.hdr[b].size
-----------------------------------------------------------------------------
\* The statics before the first call: pxEnd = NULL and every counter 0.
NoHeap ==
  [ready |-> FALSE, hdr |-> [b \in {} |-> [size |-> 0, allocated |-> FALSE, wanted |-> 0]],
   list |-> << >>, free |-> 0, minFree |-> 0, mallocs |-> 0, frees |-> 0]

\* prvHeapInit: one free block from the aligned start to pxEnd.
HeapInit ==
  LET size == EndMarker - FirstBlock IN
  [NoHeap EXCEPT !.ready = TRUE,
     !.hdr = [b \in {FirstBlock} |-> [size |-> size, allocated |-> FALSE, wanted |-> 0]],
     !.list = <<FirstBlock>>, !.free = size, !.minFree = size]

Initialised(h) == IF h.ready THEN h ELSE HeapInit
-----------------------------------------------------------------------------
(***************************************************************************)
(* prvInsertBlockIntoFreeList.  The iterator stops at the first list       *)
(* element whose successor is not below the block; it is the k-th element, *)
(* and k = 0 is xStart.                                                    *)
(***************************************************************************)
Positions(list, b) ==
  {k \in 0 .. Len(list) : /\ \A i \in 1 .. k : list[i] < b
                          /\ k < Len(list) => list[k + 1] >= b}

\* Mutants: a merge that is never tried.
JoinsPrevNever(h, b, k) == FALSE
JoinsNextNever(h, b, k) == FALSE

\* A mutant: the next free block is merged without being adjacent.
JoinsNextAlways(h, b, k) == k < Len(h.list)

JoinsPrev(h, b, k) == k > 0 /\ EndOf(h, h.list[k]) = b
JoinsNext(h, b, k) == k < Len(h.list) /\ EndOf(h, b) = h.list[k + 1]

\* The first i elements, x, and the elements from the j-th on.
Spliced(list, i, x, j) == SubSeq(list, 1, i) \o <<x>> \o SubSeq(list, j, Len(list))

InsertedAt(h, b, k) ==
  LET prev == JoinsPrev(h, b, k)
      next == JoinsNext(h, b, k)
      start == IF prev THEN h.list[k] ELSE b
      end == IF next THEN EndOf(h, h.list[k + 1]) ELSE EndOf(h, b)
      swallowed == (IF prev THEN {b} ELSE {}) \cup (IF next THEN {h.list[k + 1]} ELSE {})
  IN [h EXCEPT
        !.hdr = [c \in Blocks(h) \ swallowed |->
                   IF c = start THEN [h.hdr[c] EXCEPT !.size = end - start] ELSE h.hdr[c]],
        !.list = Spliced(h.list, IF prev THEN k - 1 ELSE k, start, IF next THEN k + 2 ELSE k + 1)]

Inserted(h, b) == {InsertedAt(h, b, k) : k \in Positions(h.list, b)}
-----------------------------------------------------------------------------
\* A mutant: no room for the header.
AdjustedSizeNoHeader(n) ==
  LET extra == Alignment - (n % Alignment) IN
  IF n = 0 \/ n > SizeMax - extra THEN 0 ELSE n + extra

\* The request plus header and padding; a whole Alignment is added when the
\* request is already aligned.  0 stands for a request that overflows.
AdjustedSize(n) ==
  LET extra == StructSize + Alignment - (n % Alignment) IN
  IF n = 0 \/ n > SizeMax - extra THEN 0 ELSE n + extra

\* The walk from xStart to the first block that is large enough.
FirstFit(h, size) ==
  {i \in 1 .. Len(h.list) : /\ h.hdr[h.list[i]].size >= size
                            /\ \A j \in 1 .. (i - 1) : h.hdr[h.list[j]].size < size}

Satisfiable(h, n) ==
  /\ AdjustedSize(n) < AllocatedBit
  /\ AdjustedSize(n) > 0
  /\ AdjustedSize(n) <= h.free
  /\ FirstFit(h, AdjustedSize(n)) # {}

Unlinked(list, i) == SubSeq(list, 1, i - 1) \o SubSeq(list, i + 1, Len(list))

\* A mutant: the low-water mark follows every allocation, up as well as down.
TakenLastFree(h, i, b, size, n) ==
  [h EXCEPT
     !.hdr = [c \in Blocks(h) |->
                IF c = b THEN [size |-> size, allocated |-> TRUE, wanted |-> n] ELSE h.hdr[c]],
     !.list = Unlinked(h.list, i),
     !.free = h.free - size,
     !.minFree = h.free - size,
     !.mallocs = h.mallocs + 1]

\* Block b leaves the list and is given to the application with `size` bytes.
Taken(h, i, b, size, n) ==
  [h EXCEPT
     !.hdr = [c \in Blocks(h) |->
                IF c = b THEN [size |-> size, allocated |-> TRUE, wanted |-> n] ELSE h.hdr[c]],
     !.list = Unlinked(h.list, i),
     !.free = h.free - size,
     !.minFree = IF h.free - size < h.minFree THEN h.free - size ELSE h.minFree,
     !.mallocs = h.mallocs + 1]

\* A mutant: the size of the rest is subtracted the wrong way round.
SplitSwapped(h, i, b, size, n) ==
  LET t == Taken(h, i, b, size, n)
      rest == [size |-> size - h.hdr[b].size, allocated |-> FALSE, wanted |-> 0]
  IN [t EXCEPT !.hdr = [c \in Blocks(h) \cup {b + size} |->
                          IF c = b + size THEN rest ELSE t.hdr[c]]]

\* The same, with the rest of b made a free block of its own.
Split(h, i, b, size, n) ==
  LET t == Taken(h, i, b, size, n)
      rest == [size |-> h.hdr[b].size - size, allocated |-> FALSE, wanted |-> 0]
  IN [t EXCEPT !.hdr = [c \in Blocks(h) \cup {b + size} |->
                          IF c = b + size THEN rest ELSE t.hdr[c]]]

\* A mutant: the block is split however little is left of it.
CarvedAlways(h, i, b, size, n) == Inserted(Split(h, i, b, size, n), b + size)

Carved(h, i, b, size, n) ==
  IF h.hdr[b].size - size > 2 * StructSize
    THEN Inserted(Split(h, i, b, size, n), b + size)
    ELSE {Taken(h, i, b, h.hdr[b].size, n)}

\* pvPortMalloc on an initialised heap: the block it returns and the heap after.
Mallocs(h, n) ==
  IF ~Satisfiable(h, n) THEN {}
  ELSE UNION {{[block |-> h.list[i], heap |-> g] : g \in Carved(h, i, h.list[i], AdjustedSize(n), n)}
                : i \in FirstFit(h, AdjustedSize(n))}

\* Mutants: a counter that vPortFree forgets.
ReleasedBytesUncounted(h, b) ==
  [h EXCEPT !.hdr[b].allocated = FALSE, !.hdr[b].wanted = 0, !.frees = h.frees + 1]
ReleasedCallUncounted(h, b) ==
  [h EXCEPT !.hdr[b].allocated = FALSE, !.hdr[b].wanted = 0, !.free = h.free + h.hdr[b].size]

\* vPortFree of a block the application owns: the header is marked free and the
\* counters follow, then the block goes back on the list.
Released(h, b) ==
  [h EXCEPT !.hdr = [c \in Blocks(h) |->
                       IF c = b THEN [size |-> h.hdr[b].size, allocated |-> FALSE, wanted |-> 0]
                                ELSE h.hdr[c]],
            !.free = h.free + h.hdr[b].size,
            !.frees = h.frees + 1]

Frees(h, b) == Inserted(Released(h, b), b)
-----------------------------------------------------------------------------
Init == heap = NoHeap /\ status = "running"

\* A NULL result runs vApplicationMallocFailedHook, which exits.
MallocFailed(n) ==
  /\ Mallocs(Initialised(heap), n) = {}
  /\ heap' = Initialised(heap)
  /\ status' = "exited"

Malloc(n) ==
  \/ \E m \in Mallocs(Initialised(heap), n) : heap' = m.heap /\ UNCHANGED status
  \/ MallocFailed(n)

\* A product that overflows returns NULL without reaching the hook.
Calloc(num, size) ==
  IF num * size > SizeMax THEN UNCHANGED vars ELSE Malloc(num * size)

Free(b) == heap' \in Frees(heap, b) /\ UNCHANGED status

\* pvPortRealloc copies as many bytes as the OLD block was asked for, whatever
\* the new size; a copy past the end of the new block lands in the header of
\* its neighbour, and the heap is not followed any further.
Overruns(b, m) == heap.hdr[b].wanted > m.heap.hdr[m.block].size - StructSize

Realloc(b, n) ==
  /\ MayShrink \/ n >= heap.hdr[b].wanted
  /\ \/ \E m \in Mallocs(heap, n) :
          IF Overruns(b, m)
            THEN heap' = m.heap /\ status' = "overrun"
            ELSE heap' \in Frees(m.heap, b) /\ UNCHANGED status
     \/ MallocFailed(n)

\* A mutant: the walk begins behind the first free block.
GetHeapStatsFromSecond ==
  /\ status' = IF heap.ready /\ Len(heap.list) <= 1 THEN "walked_past_end" ELSE status
  /\ UNCHANGED heap

\* vPortGetHeapStats starts at the first free block and stops when it meets
\* pxEnd again after a step; with an empty list it starts AT pxEnd and follows
\* pxEnd's NULL link.
GetHeapStats ==
  /\ status' = IF heap.ready /\ heap.list = << >> THEN "walked_past_end" ELSE status
  /\ UNCHANGED heap

Next ==
  /\ status = "running"
  /\ \/ \E n \in Requests : heap.mallocs < MaxMallocs /\ Malloc(n)
     \/ \E a \in CallocArgs : heap.mallocs < MaxMallocs /\ Calloc(a[1], a[2])
     \/ \E b \in Allocated(heap) : Free(b)
     \/ \E b \in Allocated(heap), n \in Requests : heap.mallocs < MaxMallocs /\ Realloc(b, n)
     \/ GetHeapStats

Spec == Init /\ [][Next]_vars
-----------------------------------------------------------------------------
HeapBytes == FirstBlock .. (EndMarker - 1)
FreeBytes(h) == {x \in HeapBytes : \E b \in FreeBlocks(h) : b <= x /\ x < EndOf(h, b)}

\* Type correctness of the allocator's statics and headers.
TypeOK ==
  /\ status \in {"running", "exited", "overrun", "walked_past_end"}
  /\ heap \in [ready : BOOLEAN, hdr : [Blocks(heap) -> Header], list : Seq(Nat),
               free : Int, minFree : Int, mallocs : Nat, frees : Nat]

\* The blocks partition the heap: cutting and merging blocks in heap_4.c:214-231
\* and 460-520 never makes two blocks overlap, and never loses a byte.
BlocksDisjoint(h) ==
  /\ \A b \in Blocks(h) : h.hdr[b].size > 0 /\ FirstBlock <= b /\ EndOf(h, b) <= EndMarker
  /\ \A b, c \in Blocks(h) : b < c => EndOf(h, b) <= c
NoByteLost(h) ==
  h.ready => \A x \in HeapBytes : \E b \in Blocks(h) : b <= x /\ x < EndOf(h, b)
BlocksTile == BlocksDisjoint(heap) /\ NoByteLost(heap)

\* The free list holds exactly the blocks the application does not own, in the
\* order of their addresses, and prvInsertBlockIntoFreeList leaves no two free
\* blocks side by side: fragmentation is never worse than the live blocks make it.
ListIsFree(h) == {h.list[i] : i \in 1 .. Len(h.list)} = FreeBlocks(h)
NoFreeNeighbours(h) ==
  \A i, j \in 1 .. Len(h.list) : i < j => EndOf(h, h.list[i]) < h.list[j]
Coalesced == ListIsFree(heap) /\ NoFreeNeighbours(heap)

\* A block the application owns holds its header and every byte asked for, so
\* writing what was asked for never reaches the next header.
LiveBlocksFit(h) ==
  \A b \in Allocated(h) : h.hdr[b].wanted > 0 /\ h.hdr[b].wanted + StructSize <= h.hdr[b].size
LiveFits == LiveBlocksFit(heap)

\* xFreeBytesRemaining, kept by += and -= on a size_t, is the number of bytes in
\* free blocks and so never wraps; the low-water mark never exceeds it.
FreeCounted(h) == h.free = Cardinality(FreeBytes(h)) /\ h.minFree <= h.free
FreeAccounting == FreeCounted(heap)

\* The two call counters of vPortGetHeapStats differ by the blocks in use.
CallsCounted(h) == h.mallocs = h.frees + Cardinality(Allocated(h))
CallAccounting == CallsCounted(heap)

\* Every path of malloc, calloc, realloc and free keeps all the counters true.
Accounting == FreeAccounting /\ CallAccounting

\* Once everything is freed the heap is again the one block prvHeapInit made.
AllFreedIsOneBlock ==
  heap.ready /\ Allocated(heap) = {} =>
    heap.list = <<FirstBlock>> /\ EndOf(heap, FirstBlock) = EndMarker

\* Every pointer handed out is aligned: pvPortMalloc asserts it
\* (heap_4.c:221 and 288), and freeing depends on it.
PointersAligned == \A b \in Allocated(heap) : (b + StructSize) % Alignment = 0

\* What a caller may take for granted of a pointer it holds: the room it asked for,
\* and the alignment, whatever was split, merged and freed since.
LiveUsable == LiveFits /\ PointersAligned

\* The low-water mark is the lowest xFreeBytesRemaining any call has left, and
\* only a call that takes a block moves it.
LowWaterMark ==
  [][heap.ready => /\ heap'.minFree <= heap.minFree
                   /\ heap'.minFree < heap.minFree =>
                        heap'.minFree <= heap'.free /\ heap'.mallocs = heap.mallocs + 1]_vars

\* pvPortRealloc never writes past the block it has just been given when callers
\* only ever grow a block.
NoOverrun == status # "overrun"

\* vPortGetHeapStats follows pxEnd's NULL link only on a heap whose last byte is
\* taken: a caller who asks xPortGetFreeHeapSize first is safe.
StatsStayInList == status = "walked_past_end" => heap.ready /\ heap.free = 0

\* Each live pointer and the bytes asked for there, as the caller sees them.
LivePointers(h) == {b + StructSize : b \in Allocated(h)}
Live(h) == [p \in LivePointers(h) |-> h.hdr[p - StructSize].wanted]
live == Live(heap)
running == status \in {"running", "walked_past_end"}
AskedSizes == Requests \cup {a[1] * a[2] : a \in CallocArgs}
Abstract == INSTANCE Allocator WITH Bytes <- HeapBytes, Sizes <- AskedSizes

\* The allocator implements malloc, realloc and free: no step disturbs a live
\* region, and a new one is disjoint from all of them.
ImplementsAllocator == Abstract!Spec
=============================================================================
