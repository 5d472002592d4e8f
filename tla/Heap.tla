---------------------------------- MODULE Heap ----------------------------------
(***************************************************************************)
(* The memory of libdvbsubdec (lsmemory.c), as values: an operation takes  *)
(* a heap and yields what the heap may be afterwards.  Two of the builds   *)
(* are modelled: "internal", an arena with a free list in address order    *)
(* (LS_INTERNAL_HEAP), and "tracked", the default, which counts what it    *)
(* takes from the C library.  Addresses and sizes of the arena are in      *)
(* units of LS_MEM_NODE_SIZE, as in the code; the tracked build counts     *)
(* bytes.  The mutex never fails; peak is left out.                        *)
(***************************************************************************)
EXTENDS Integers, SequencesExt

CONSTANTS
  HeapSize,    \* heap_units: units of the arena, or bytes that may be taken
  NodeSize,    \* LS_MEM_NODE_SIZE, bytes in a unit
  HeaderSize,  \* sizeof(LS_MemHeader), the tracked build's header
  NULL

ASSUME HeapAssumption ==
  /\ {HeapSize, NodeSize, HeaderSize} \subseteq Nat \ {0}
  /\ NULL \notin Nat

Builds == {"internal", "tracked"}

VARIABLES
  build,   \* how the library was compiled
  heap     \* [free: the free list, header: what stands before each block, allocated]

Address == 0 .. HeapSize - 1

FreeBlock == [at : Address, units : 1 .. HeapSize]

\* valid tells whether the magic number is still there.
Header == [units : 1 .. HeapSize, valid : BOOLEAN]

HeapTypeOK ==
  /\ build \in Builds
  /\ heap.free \in Seq(FreeBlock)
  /\ DOMAIN heap.header \subseteq Address
  /\ \A at \in DOMAIN heap.header : heap.header[at] \in Header
  /\ heap.allocated \in 0 .. HeapSize

\* LS_MemInit: the arena is one free block.
NewHeap(b) ==
  [free |-> IF b = "internal" THEN << [at |-> 0, units |-> HeapSize] >> ELSE << >>,
   header |-> << >>, allocated |-> 0]

\* A function with one more or another value.
With(f, x, v) == [y \in DOMAIN f \cup {x} |-> IF y = x THEN v ELSE f[y]]

HeapInit == build \in Builds /\ heap = NewHeap(build)

-----------------------------------------------------------------------------
(* The internal heap                                                       *)

\* Units for that many bytes and the header.
Request(bytes) == 1 + (bytes + NodeSize - 1) \div NodeSize

Fitting(h, n) == {i \in DOMAIN h.free : h.free[i].units >= n}

\* The first block of that size, or else the last of the smallest that are larger.
BestFit(h, n) ==
  LET exact == {i \in Fitting(h, n) : h.free[i].units = n}
      least == {i \in Fitting(h, n) : \A j \in Fitting(h, n) : h.free[i].units <= h.free[j].units}
  IN  IF exact # {} THEN CHOOSE i \in exact : \A j \in exact : i <= j
                    ELSE CHOOSE i \in least : \A j \in least : j <= i

\* Variant of Taken: an exact fit leaves its block in the free list.
TakenKeptWhenExact(h, i, n) == [h.free EXCEPT ![i].units = IF @ = n THEN n ELSE @ - n]

\* The end of the block is given out; a block that is used up leaves the list.
Taken(h, i, n) ==
  IF h.free[i].units = n THEN RemoveAt(h.free, i) ELSE [h.free EXCEPT ![i].units = @ - n]

\* What __heap_malloc may return: the block's address or NULL, and the heap after it.
InternalMallocs(h, bytes) ==
  LET n == Request(bytes)
      i == BestFit(h, n)
      at == h.free[i].at + h.free[i].units - n
  IN  IF Fitting(h, n) = {} THEN {[at |-> NULL, heap |-> h]}
      ELSE {[at |-> at,
             heap |-> [free |-> Taken(h, i, n),
                       header |-> With(h.header, at, [units |-> n, valid |-> TRUE]),
                       allocated |-> h.allocated + n]]}

\* Variant of Joined: the right neighbour is merged and stays in the list.
JoinedTwice(free, k, block) ==
  LET right == k < Len(free) /\ block.at + block.units = free[k + 1].at
  IN  InsertAt(free, k + 1, IF right THEN [block EXCEPT !.units = @ + free[k + 1].units] ELSE block)

\* A freed block after the k-th free one, merged with its right neighbour, then the left one.
Joined(free, k, block) ==
  LET toLeft == free[k].at + free[k].units = block.at
      toRight == k < Len(free) /\ block.at + block.units = free[k + 1].at
      units == block.units + IF toRight THEN free[k + 1].units ELSE 0
      rest == IF toRight THEN RemoveAt(free, k + 1) ELSE free
  IN  IF toLeft THEN [rest EXCEPT ![k].units = @ + units]
                ELSE InsertAt(rest, k + 1, [block EXCEPT !.units = units])

\* The free blocks before an address.
Before(free, at) ==
  CHOOSE k \in 0 .. Len(free) : \A i \in DOMAIN free : free[i].at < at <=> i <= k

\* A block before the first free one is put in front of it and not merged.
Inserted(h, block) ==
  LET k == Before(h.free, block.at)
  IN  IF k = 0 THEN InsertAt(h.free, 1, block) ELSE Joined(h.free, k, block)

-----------------------------------------------------------------------------
(* The tracked heap                                                        *)

Fresh(h) == CHOOSE a \in Address : a \notin DOMAIN h.header /\ 0 .. a - 1 \subseteq DOMAIN h.header

\* The C library may fail even if the limit is not reached.
TrackedMallocs(h, bytes) ==
  LET request == bytes + HeaderSize
  IN  {[at |-> NULL, heap |-> h]}
      \cup IF request > HeapSize - h.allocated THEN {}
           ELSE {[at |-> Fresh(h),
                  heap |-> [h EXCEPT !.header = With(@, Fresh(h), [units |-> request, valid |-> TRUE]),
                                     !.allocated = @ + request]]}

\* The magic number is wiped before the C library is asked and stays wiped if it fails.
TrackedReallocs(h, at, bytes) ==
  LET request == bytes + HeaderSize
      old == h.header[at].units
  IN  IF request > HeapSize - (h.allocated - old) THEN {[at |-> NULL, heap |-> h]}
      ELSE {[at |-> NULL, heap |-> [h EXCEPT !.header[at].valid = FALSE]],
            [at |-> at, heap |-> [h EXCEPT !.header[at].units = request,
                                           !.allocated = @ - old + request]]}

-----------------------------------------------------------------------------
(* LS_Malloc, LS_Free and LS_Realloc                                       *)

Mallocs(h, bytes) ==
  IF build = "internal" THEN InternalMallocs(h, bytes) ELSE TrackedMallocs(h, bytes)

\* Variant of Free: the units are not given back to the count.
FreeUncounted(h, at) ==
  [h EXCEPT !.free = IF build = "internal"
                       THEN Inserted(h, [at |-> at, units |-> h.header[at].units]) ELSE @,
            !.header = [a \in DOMAIN @ \ {at} |-> @[a]]]

\* A block whose magic number is gone is refused.
Free(h, at) ==
  IF ~h.header[at].valid THEN h
  ELSE [free |-> IF build = "internal"
                   THEN Inserted(h, [at |-> at, units |-> h.header[at].units]) ELSE h.free,
        header |-> [a \in DOMAIN h.header \ {at} |-> h.header[a]],
        allocated |-> h.allocated - h.header[at].units]

\* The internal heap allocates the new block before it frees the old one.
Reallocs(h, at, bytes) ==
  IF ~h.header[at].valid THEN {[at |-> NULL, heap |-> h]}
  ELSE IF build = "tracked" THEN TrackedReallocs(h, at, bytes)
  ELSE {IF m.at = NULL THEN m ELSE [m EXCEPT !.heap = Free(@, at)] : m \in InternalMallocs(h, bytes)}

\* One block after the other.
FreeAll(h, blocks) ==
  LET freed[i \in 0 .. Len(blocks)] == IF i = 0 THEN h ELSE Free(freed[i - 1], blocks[i])
  IN  freed[Len(blocks)]

-----------------------------------------------------------------------------
(* Properties                                                              *)

UnitsOf(at, n) == at .. at + n - 1

FreeUnits == UNION {UnitsOf(heap.free[i].at, heap.free[i].units) : i \in DOMAIN heap.free}

\* What each block in use takes, by block.
Taking == UNION {{at} \X (1 .. heap.header[at].units) : at \in DOMAIN heap.header}

UsedUnits == UNION {UnitsOf(at, heap.header[at].units) : at \in DOMAIN heap.header}

\* What stm_check_heap asserts before and after every operation of a debug build: the free
\* blocks lie in the arena in address order, and no units are lost or counted twice.
FreeListInOrder ==
  /\ \A i \in DOMAIN heap.free : heap.free[i].at + heap.free[i].units <= HeapSize
  /\ \A i, j \in DOMAIN heap.free :
       i < j => heap.free[i].at + heap.free[i].units <= heap.free[j].at
  /\ build = "internal" => heap.allocated + Cardinality(FreeUnits) = HeapSize

\* Every unit of the arena is in one block that is free or in use, whatever was split and
\* merged before; and what counts as allocated is what the blocks in use take.
ArenaIsTiled ==
  /\ heap.allocated = Cardinality(Taking)
  /\ build = "internal" =>
       /\ FreeUnits \cup UsedUnits = Address
       /\ FreeUnits \cap UsedUnits = {}
       /\ \A a, b \in DOMAIN heap.header : a < b => a + heap.header[a].units <= b

=============================================================================
