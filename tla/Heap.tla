-------------------------------- MODULE Heap ---------------------------------
(***************************************************************************)
(* The kernel heap, kernel/src/allocator.rs: a first-fit allocator on a    *)
(* linked list of free regions.  Each operation runs with interrupts off   *)
(* under the allocator's lock, so it is one action.  The nodes of the list *)
(* are stored in the free regions themselves; here the list is a sequence  *)
(* of regions, the one head.next points to first.                          *)
(***************************************************************************)
EXTENDS Integers, Sequences, FiniteSets, SequencesExt

CONSTANTS
  HEAP_START, HEAP_SIZE,
  NodeSize, NodeAlign,   \* size_of and align_of ListNode: 16 and 8
  Modulus,               \* 2^64: one more than the largest usize
  Layouts                \* the layouts callers ask for

\* The heap ends below the top of the address space; a list node fits and its
\* size is a multiple of its alignment.
ASSUME HeapAssumption ==
  /\ HEAP_START \in Nat
  /\ HEAP_SIZE \in Nat
  /\ Modulus \in Nat
  /\ HEAP_START + HEAP_SIZE < Modulus
  /\ NodeAlign \in Nat \ {0}
  /\ NodeSize \in Nat \ {0}
  /\ NodeSize <= HEAP_SIZE
  /\ HEAP_START % NodeAlign = 0
  /\ NodeSize % NodeAlign = 0

HEAP_END == HEAP_START + HEAP_SIZE

MaxOf(a, b) == IF a >= b THEN a ELSE b

\* Sizes are positive (a rule for callers of alloc); alignments are powers of
\* two, so of two of them one is a multiple of the other; and no alignment is
\* so large that align_up overflows.
ASSUME LayoutAssumption ==
  \A l \in Layouts :
    /\ l = [size |-> l.size, align |-> l.align]
    /\ l.size \in Nat \ {0}
    /\ l.align \in Nat \ {0}
    /\ MaxOf(l.align, NodeAlign) % l.align = 0
    /\ MaxOf(l.align, NodeAlign) % NodeAlign = 0
    /\ HEAP_END + MaxOf(l.align, NodeAlign) <= Modulus

VARIABLES
  free,      \* the list of free regions: [addr, size]
  live,      \* the blocks in use: [addr, layout]
  panicked   \* an assertion of add_free_region has failed

vars == <<free, live, panicked>>

Region == [addr : Nat, size : Nat]
Block  == [addr : Nat, layout : Layouts]

EndAddr(r) == r.addr + r.size

-----------------------------------------------------------------------------
\* x & !(align - 1), for a power of two.
RoundDown(x, align) == x - (x % align)

align_up_Down(addr, align) == RoundDown(addr, align)

align_up(addr, align) == RoundDown(addr + align - 1, align)

\* size_align: align_to, pad_to_align, then room for a node once it is freed.
Align(l) == MaxOf(l.align, NodeAlign)

Size_NoNode(l) == align_up(l.size, Align(l))

Size(l) == MaxOf(align_up(l.size, Align(l)), NodeSize)

\* alloc_from_region succeeds: the block fits, and what is left over behind it
\* is nothing or large enough for a node.
FitsRegion_Wrapping(r, size, align) ==
  LET alloc_end == (align_up(r.addr, align) + size) % Modulus
      excess == EndAddr(r) - alloc_end IN
  /\ alloc_end <= EndAddr(r)
  /\ excess = 0 \/ excess >= NodeSize

FitsRegion(r, size, align) ==
  LET alloc_end == align_up(r.addr, align) + size
      excess == EndAddr(r) - alloc_end IN
  /\ alloc_end < Modulus
  /\ alloc_end <= EndAddr(r)
  /\ excess = 0 \/ excess >= NodeSize

\* find_region: the first region of the list that fits, which it unlinks.
FirstFit(i, size, align) ==
  /\ i \in 1 .. Len(free)
  /\ FitsRegion(free[i], size, align)
  /\ \A j \in 1 .. i - 1 : ~FitsRegion(free[j], size, align)

\* The assertions of add_free_region.
AcceptsRegion(addr, size) ==
  /\ align_up(addr, NodeAlign) = addr
  /\ size >= NodeSize

\* add_free_region puts the region in front of the list.
AddFreeRegion_Append(list, addr, size) ==
  IF AcceptsRegion(addr, size)
  THEN free' = Append(list, [addr |-> addr, size |-> size]) /\ UNCHANGED panicked
  ELSE panicked' = TRUE /\ free' = list

AddFreeRegion(list, addr, size) ==
  IF AcceptsRegion(addr, size)
  THEN free' = Cons([addr |-> addr, size |-> size], list) /\ UNCHANGED panicked
  ELSE panicked' = TRUE /\ free' = list

\* init, called once by init_heap.
Init ==
  /\ free = <<[addr |-> HEAP_START, size |-> HEAP_SIZE]>>
  /\ live = {}
  /\ panicked = FALSE

\* alloc when find_region finds region i; with no such region it returns null
\* and nothing changes.  The gap in front of an aligned block is lost.
AllocFrom_Keep(i, l) ==
  LET alloc_end == align_up(free[i].addr, Align(l)) + Size(l)
      excess == EndAddr(free[i]) - alloc_end IN
  IF excess > 0
  THEN AddFreeRegion(free, alloc_end, excess)
  ELSE free' = RemoveAt(free, i) /\ UNCHANGED panicked

AllocFrom(i, l) ==
  LET alloc_end == align_up(free[i].addr, Align(l)) + Size(l)
      excess == EndAddr(free[i]) - alloc_end IN
  IF excess > 0
  THEN AddFreeRegion(RemoveAt(free, i), alloc_end, excess)
  ELSE free' = RemoveAt(free, i) /\ UNCHANGED panicked

Alloc(l) ==
  /\ ~panicked
  /\ \E i \in 1 .. Len(free) :
       /\ FirstFit(i, Size(l), Align(l))
       /\ AllocFrom(i, l)
       /\ live' = IF panicked' THEN live
                  ELSE live \cup {[addr |-> align_up(free[i].addr, Align(l)),
                                   layout |-> l]}

\* dealloc: the caller passes a block it was given, with its layout.
Dealloc_Layout(b) ==
  /\ ~panicked
  /\ AddFreeRegion(free, b.addr, b.layout.size)
  /\ live' = live \ {b}

Dealloc(b) ==
  /\ ~panicked
  /\ AddFreeRegion(free, b.addr, Size(b.layout))
  /\ live' = live \ {b}

Next ==
  \/ \E l \in Layouts : Alloc(l)
  \/ \E b \in live : Dealloc(b)

Spec == Init /\ [][Next]_vars

-----------------------------------------------------------------------------
InsideHeap ==
  /\ \A i \in 1 .. Len(free) :
       free[i].addr >= HEAP_START /\ EndAddr(free[i]) <= HEAP_END
  /\ \A b \in live :
       b.addr >= HEAP_START /\ b.addr + Size(b.layout) <= HEAP_END

\* Free regions and blocks are regions and blocks of the heap.
TypeOK ==
  /\ free \in Seq(Region)
  /\ live \subseteq Block
  /\ panicked \in BOOLEAN
  /\ InsideHeap

\* The bytes [a, a+m) and [b, b+n) do not overlap.
Apart(a, m, b, n) == a + m <= b \/ b + n <= a

\* No byte is in two free regions, in two blocks, or in a region and a block,
\* counting a block with the size dealloc will give back.  The list nodes live
\* in the free regions, so writing one never hits a block in use.
FreeApart ==
  \A i, j \in 1 .. Len(free) :
    i # j => Apart(free[i].addr, free[i].size, free[j].addr, free[j].size)

LiveApart ==
  \A b, c \in live :
    b # c => Apart(b.addr, Size(b.layout), c.addr, Size(c.layout))

FreeLiveApart ==
  \A i \in 1 .. Len(free), b \in live :
    Apart(free[i].addr, free[i].size, b.addr, Size(b.layout))

NoOverlap == FreeApart /\ LiveApart /\ FreeLiveApart

\* The assertions of add_free_region never fail, whatever is allocated and
\* freed in whatever order: every remainder of a region is aligned and large
\* enough for a node, and so is every block.
AssertionsHold == ~panicked

\* Heap memory neither free nor in use.
ListBytes(list) == SumFunction([i \in 1 .. Len(list) |-> list[i].size])
BlockBytes(B)   == SumFunction([b \in B |-> Size(b.layout)])

Lost == HEAP_SIZE - ListBytes(free) - BlockBytes(live)

\* Memory is lost for good, and only when a block with an alignment above that
\* of a list node is allocated: the gap in front of it is not put back.
LossStep ==
  /\ Lost' >= Lost
  /\ Lost' # Lost => \E b \in live' \ live : b.layout.align > NodeAlign

LostOnlyToAlignment == [][LossStep]_vars

\* A block that has been freed can be allocated again at once, at the same
\* address: it is in front of the list and fits itself exactly.
ReuseStep ==
  \A b \in live \ live' :
    /\ FitsRegion(free'[1], Size(b.layout), Align(b.layout))
    /\ align_up(free'[1].addr, Align(b.layout)) = b.addr

FreedIsReusable == [][ReuseStep]_vars

\* The allocator keeps the promise of HeapAbs.
Abs == INSTANCE HeapAbs

ImplementsHeapAbs == Abs!Spec
=============================================================================
