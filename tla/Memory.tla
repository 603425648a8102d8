------------------------------- MODULE Memory --------------------------------
(***************************************************************************)
(* Physical frames and the one address space: kernel/src/memory.rs and the *)
(* three places that map pages.  kernel_main maps the heap with frames of  *)
(* the boot allocator, hands its state over to the bitmap allocator, loads *)
(* the init program and its stack with that (add_user_process), and then   *)
(* serves the program's requests for memory (anon_allocate_syscall).       *)
(*                                                                         *)
(* All of them run one loop: allocate a frame, map it, go on to the next   *)
(* page.  Whoever runs it holds the mapper and the frame allocator, so the *)
(* loops never interleave: add_user_process may be preempted after it has  *)
(* put init on the process list and before it has dropped the two guards,  *)
(* and then a request of init waits for them.  Every error ends in a panic.*)
(***************************************************************************)
EXTENDS Integers, Sequences, SequencesExt

CONSTANTS
  MemoryMaps,   \* the memory maps a boot loader may pass
  PageSize,     \* 4096
  Span,         \* pages that share a page table (the three levels in one)
  HeapRange,    \* the address range of the heap: <<first, last>>
  StackRange,   \* that of the user stack
  Programs,     \* init programs: sequences of the ranges of their segments
  AnonStart,    \* 0x100_000_000: where the memory given to init begins
  Sizes,        \* sizes init asks for
  Pointers,     \* addresses where it wants the result stored
  Word,         \* 8: the size of the result
  LowerEnd,     \* 2^47: end of the lower half of the virtual addresses
  UpperStart,   \* 2^64 - 2^47: start of the upper half
  AddressEnd    \* 2^64

ASSUME PageAssumption == PageSize \in Nat \ {0} /\ Span \in Nat \ {0}

\* VirtAddr's operators + and - panic unless the result is canonical.
IsAddress(a) ==
  \/ 0 <= a /\ a < LowerEnd
  \/ UpperStart <= a /\ a < AddressEnd

\* Page::containing_address and PhysFrame::containing_address.
Containing(addr) == addr \div PageSize

\* Page::range_inclusive of the pages that contain the two addresses; empty
\* when the first is above the last.
PageRange(first, last) ==
  LET p == Containing(first) IN
  [k \in 1 .. Containing(last) - p + 1 |-> p + k - 1]

\* The boot loader reports page-aligned regions [start, end, kind] in order.
ASSUME MemoryMapAssumption ==
  \A map \in MemoryMaps :
    /\ map \in Seq([start : Nat, end : Nat, kind : STRING])
    /\ \A i \in 1 .. Len(map) :
         /\ map[i].start % PageSize = 0
         /\ map[i].end % PageSize = 0
         /\ map[i].start <= map[i].end
    /\ \A i, j \in 1 .. Len(map) : i < j => map[i].end <= map[j].start

VARIABLES
  memory_map,  \* boot_info.memory_regions
  phase,     \* what runs: "init_heap", "handover", "add_user_process",
             \* "user", "lock_mapper" and "anon_allocate", "panicked"
  held,      \* whether add_user_process holds the mapper and the frame allocator
  todo,      \* pages the running loop has still to map
  frame,     \* the frame it has allocated for the first of them, or NoFrame
  next,      \* BootInfoFrameAllocator: next
  bitmap,    \* BitmapAllocator: one bit per usable frame; <<>> before the handover
  tables,    \* page tables: from number to the frame that holds it
  mapped,    \* the address space: from page to frame
  pages,     \* Process.pages of init
  request,   \* the size init has asked for
  ptr,       \* where it wants the result
  blocks     \* history: the memory init was given, [start, size]

memory == <<frame, next, bitmap, tables, mapped>>
process == <<pages, request, ptr, blocks>>
vars == <<memory_map, phase, held, todo, memory, process>>

NoFrame == -1

\* usable_frames, the same for both allocators: the frames of the regions of
\* kind Usable, in order, one for every PageSize bytes from their start.
RegionFrames(r) ==
  [k \in 1 .. (r.end - r.start + PageSize - 1) \div PageSize |->
     Containing(r.start + (k - 1) * PageSize)]

usable_frames ==
  [map \in MemoryMaps |->
     FlattenSeq([i \in 1 .. Len(map) |->
                   IF map[i].kind = "Usable" THEN RegionFrames(map[i]) ELSE <<>>])]

UsableFrames == usable_frames[memory_map]

Count == Len(UsableFrames)

\* Addresses and sizes are unsigned, and init's pointers are addresses of the
\* lower half.
ASSUME AddressAssumption ==
  /\ HeapRange \in Nat \X Nat
  /\ StackRange \in Nat \X Nat
  /\ Programs \subseteq Seq(Nat \X Nat)
  /\ AnonStart \in Nat
  /\ Sizes \subseteq Nat
  /\ Word \in Nat \ {0}
  /\ LowerEnd \in Nat /\ UpperStart \in Nat /\ AddressEnd \in Nat
  /\ Pointers \subseteq 0 .. LowerEnd - Word

\* The program and its stack lie below the memory given to init (0x200000 and
\* 0x100_000_000).  The heap is in the upper half (2 MiB below
\* 0xffff_ffff_8000_0000), and all frames together do not fill the lower one: a
\* loop that never ends runs out of frames before it runs out of addresses.
ASSUME LayoutAssumption ==
  /\ Containing(StackRange[2]) < Containing(AnonStart)
  /\ \A p \in Programs : \A i \in 1 .. Len(p) :
       Containing(p[i][2]) < Containing(AnonStart)
  /\ \A map \in MemoryMaps :
       /\ Containing(AnonStart) + Len(usable_frames[map]) <= Containing(LowerEnd)
       /\ Containing(LowerEnd) <= Containing(HeapRange[1])

\* f extended by, or changed at, one argument.
Extend(f, x, y) == [z \in DOMAIN f \cup {x} |-> IF z = x THEN y ELSE f[z]]

-----------------------------------------------------------------------------
Init ==
  /\ memory_map \in MemoryMaps
  /\ phase = "init_heap"
  /\ held = FALSE
  /\ todo = PageRange(HeapRange[1], HeapRange[2])
  /\ frame = NoFrame
  /\ next = 0
  /\ bitmap = <<>>
  /\ tables = <<>>
  /\ mapped = <<>>
  /\ pages = AnonStart
  /\ request = 0
  /\ ptr = 0
  /\ blocks = {}

\* allocate_frame returns frame f: of the boot allocator until the handover, of
\* the bitmap allocator (first_zero) from then on.
AllocateFrame(f) ==
  \/ /\ phase = "init_heap"
     /\ next < Count
     /\ f = UsableFrames[next + 1]
     /\ next' = next + 1
     /\ UNCHANGED bitmap
  \/ /\ phase # "init_heap"
     /\ \E i \in 1 .. Count :
          /\ ~bitmap[i]
          /\ \A j \in 1 .. i - 1 : bitmap[j]
          /\ f = UsableFrames[i]
          /\ bitmap' = [bitmap EXCEPT ![i] = TRUE]
     /\ UNCHANGED next

\* allocate_frame returns None.
NoFrameLeft ==
  \/ /\ phase = "init_heap"
     /\ next >= Count
     /\ next' = next + 1
     /\ UNCHANGED bitmap
  \/ /\ phase # "init_heap"
     /\ \A i \in 1 .. Count : bitmap[i]
     /\ UNCHANGED <<next, bitmap>>

Mapping == phase \in {"init_heap", "add_user_process", "anon_allocate"} /\ todo # <<>>
Table(page) == page \div Span

TakeFrame ==
  /\ Mapping
  /\ frame = NoFrame
  /\ \E f \in Range(UsableFrames) : AllocateFrame(f) /\ frame' = f
  /\ UNCHANGED <<phase, held, todo, tables, mapped, process>>

\* map_to creates the page table first, with a frame of the same allocator.
CreateTable_SameFrame ==
  /\ Mapping
  /\ frame # NoFrame
  /\ Table(Head(todo)) \notin DOMAIN tables
  /\ tables' = Extend(tables, Table(Head(todo)), frame)
  /\ UNCHANGED <<phase, held, todo, frame, next, bitmap, mapped, process>>

CreateTable ==
  /\ Mapping
  /\ frame # NoFrame
  /\ Table(Head(todo)) \notin DOMAIN tables
  /\ \E f \in Range(UsableFrames) :
       AllocateFrame(f) /\ tables' = Extend(tables, Table(Head(todo)), f)
  /\ UNCHANGED <<phase, held, todo, frame, mapped, process>>

MapPage ==
  /\ Mapping
  /\ frame # NoFrame
  /\ Table(Head(todo)) \in DOMAIN tables
  /\ Head(todo) \notin DOMAIN mapped
  /\ mapped' = Extend(mapped, Head(todo), frame)
  /\ frame' = NoFrame
  /\ todo' = Tail(todo)
  /\ UNCHANGED <<phase, held, next, bitmap, tables, process>>

OutOfFrames_Retry ==
  /\ Mapping
  /\ phase = "init_heap"
  /\ NoFrameLeft
  /\ phase' = "panicked"
  /\ UNCHANGED <<held, todo, frame, tables, mapped, process>>

\* FrameAllocationFailed, for the page or for its table.
OutOfFrames ==
  /\ Mapping
  /\ frame = NoFrame \/ Table(Head(todo)) \notin DOMAIN tables
  /\ NoFrameLeft
  /\ phase' = "panicked"
  /\ UNCHANGED <<held, todo, frame, tables, mapped, process>>

PageAlreadyMapped ==
  /\ Mapping
  /\ frame # NoFrame
  /\ Head(todo) \in DOMAIN mapped
  /\ phase' = "panicked"
  /\ UNCHANGED <<held, todo, memory, process>>

InitHeapDone ==
  /\ phase = "init_heap"
  /\ todo = <<>>
  /\ phase' = "handover"
  /\ UNCHANGED <<held, todo, memory, process>>

\* BitmapAllocator::init marks what the boot allocator has given away; then
\* kernel_main loads a program, and add_user_process maps its segments and then
\* its stack.
Marked_OffByOne == [i \in 1 .. Count |-> i < next]

Marked == [i \in 1 .. Count |-> i <= next]

Handover ==
  /\ phase = "handover"
  /\ bitmap' = Marked
  /\ \E p \in Programs :
       todo' = FlattenSeq([i \in 1 .. Len(p) |-> PageRange(p[i][1], p[i][2])])
                 \o PageRange(StackRange[1], StackRange[2])
  /\ phase' = "add_user_process"
  /\ held' = TRUE
  /\ UNCHANGED <<frame, next, tables, mapped, process>>

\* It pushes init onto the process list: from now on init may run.
AddUserProcessDone ==
  /\ phase = "add_user_process"
  /\ todo = <<>>
  /\ phase' = "user"
  /\ UNCHANGED <<held, todo, memory, process>>

\* add_user_process returns, if kernel_main gets the processor again: not while
\* a system call of init runs, with interrupts off.
DropGuards ==
  /\ phase = "user"
  /\ held
  /\ held' = FALSE
  /\ UNCHANGED <<phase, todo, memory, process>>

\* range_start + size - 1, evaluated from the left.
EndIsAddress(size) == IsAddress(pages + size) /\ IsAddress(pages + size - 1)

AnonAllocate_WholePages(size, p) ==
  /\ phase = "user"
  /\ EndIsAddress(size)
  /\ phase' = "lock_mapper"
  /\ request' = size
  /\ ptr' = p
  /\ todo' = [k \in 1 .. size \div PageSize |-> Containing(pages) + k - 1]
  /\ UNCHANGED <<held, memory, pages, blocks>>

AnonAllocate(size, p) ==
  /\ phase = "user"
  /\ EndIsAddress(size)
  /\ phase' = "lock_mapper"
  /\ request' = size
  /\ ptr' = p
  /\ todo' = PageRange(pages, pages + size - 1)
  /\ UNCHANGED <<held, memory, pages, blocks>>

EndNotAnAddress(size, p) ==
  /\ phase = "user"
  /\ ~EndIsAddress(size)
  /\ phase' = "panicked"
  /\ request' = size
  /\ ptr' = p
  /\ UNCHANGED <<held, todo, memory, pages, blocks>>

\* anon_allocate_syscall spins until it has the mapper and the frame allocator.
LockMapper ==
  /\ phase = "lock_mapper"
  /\ ~held
  /\ phase' = "anon_allocate"
  /\ UNCHANGED <<held, todo, memory, process>>

\* The pointer moves on by whole pages: page_range.size().
Advance_Bytes == request

Advance == PageSize * Len(PageRange(pages, pages + request - 1))

\* The pages of the word at p.
WordPages(p) == {Containing(p), Containing(p + Word - 1)}

AnonAllocateDone ==
  /\ phase = "anon_allocate"
  /\ todo = <<>>
  /\ WordPages(ptr) \subseteq DOMAIN mapped
  /\ blocks' = blocks \cup {[start |-> pages, size |-> request]}
  /\ pages' = pages + Advance
  /\ phase' = "user"
  /\ request' = 0
  /\ ptr' = 0
  /\ UNCHANGED <<held, todo, memory>>

\* The store faults after the pages were mapped and before pages moves on; a debug
\* build also panics when the pointer is misaligned.
StoreFaults ==
  /\ phase = "anon_allocate"
  /\ todo = <<>>
  /\ ~(WordPages(ptr) \subseteq DOMAIN mapped) \/ ptr % Word # 0
  /\ phase' = "panicked"
  /\ UNCHANGED <<held, todo, memory, process>>

KernelStep ==
  \/ TakeFrame
  \/ CreateTable
  \/ MapPage
  \/ OutOfFrames
  \/ PageAlreadyMapped
  \/ InitHeapDone
  \/ Handover
  \/ AddUserProcessDone
  \/ LockMapper
  \/ AnonAllocateDone
  \/ StoreFaults

Next ==
  /\ \/ KernelStep
     \/ DropGuards
     \/ \E size \in Sizes, p \in Pointers :
          AnonAllocate(size, p) \/ EndNotAnAddress(size, p)
  /\ UNCHANGED memory_map

Spec == Init /\ [][Next]_vars

\* The kernel's loops run on.  Init need not ask for memory, and kernel_main need
\* not get the processor before it does.
FairSpec == Spec /\ WF_vars(KernelStep /\ UNCHANGED memory_map)

-----------------------------------------------------------------------------
\* Every frame in use, by what uses it.
Uses ==
  {<<"page", p, mapped[p]>> : p \in DOMAIN mapped}
    \cup {<<"table", t, tables[t]>> : t \in DOMAIN tables}
    \cup (IF frame = NoFrame THEN {} ELSE {<<"in hand", 0, frame>>})

\* No frame is used twice, whichever allocator it came from: not for two pages,
\* nor for a page and a page table.  And every frame in use lies in a region the
\* boot loader declared usable.
NoFrameShared ==
  /\ \A u, v \in Uses : u[3] = v[3] => u = v
  /\ \A u \in Uses : \E i \in 1 .. Len(memory_map) :
       /\ memory_map[i].kind = "Usable"
       /\ memory_map[i].start <= u[3] * PageSize
       /\ (u[3] + 1) * PageSize <= memory_map[i].end

\* Both allocators account exactly for the frames in use: none is free and in
\* use, and none is lost.  The handover finds no more frames given away than the
\* bitmap has bits.
GivenAway ==
  IF bitmap = <<>>
  THEN {UsableFrames[i] : i \in 1 .. (IF next <= Count THEN next ELSE Count)}
  ELSE {UsableFrames[i] : i \in {j \in 1 .. Count : bitmap[j]}}

ExactAccounting ==
  /\ GivenAway = {u[3] : u \in Uses}
  /\ phase \notin {"init_heap", "panicked"} => next <= Count

\* Memory that init was given is its own: mapped, in one piece, and shared
\* neither with another allocation nor with the stack or the heap.
PagesOf(b) == Range(PageRange(b.start, b.start + b.size - 1))

FixedPages ==
  Range(PageRange(HeapRange[1], HeapRange[2]))
    \cup Range(PageRange(StackRange[1], StackRange[2]))

AnonBlocksBacked ==
  \A b \in blocks :
    /\ PagesOf(b) \subseteq DOMAIN mapped
    /\ PagesOf(b) \cap FixedPages = {}
    /\ \A c \in blocks : b = c \/ PagesOf(b) \cap PagesOf(c) = {}

\* Once init runs, the kernel panics over its requests only when the last frame
\* is gone, when the request would end outside the addresses, or when the result
\* is wanted elsewhere than in a word of init's stack or of memory it was given
\* before.  Two requests never meet at a page that is already mapped, and a store
\* to init's own memory never faults.
OwnPages ==
  Range(PageRange(StackRange[1], StackRange[2])) \cup UNION {PagesOf(b) : b \in blocks}

PanicStep ==
  phase \in {"user", "lock_mapper", "anon_allocate"} /\ phase' = "panicked" =>
    \/ phase = "user" /\ ~EndIsAddress(request')
    \/ phase = "anon_allocate" /\ todo # <<>> /\ \A i \in 1 .. Count : bitmap[i]
    \/ /\ phase = "anon_allocate" /\ todo = <<>>
       /\ ptr % Word # 0 \/ ~(WordPages(ptr) \subseteq OwnPages)

PanicsOnlyForCause == [][PanicStep]_vars

\* anon_allocate_syscall runs, or waits for its locks.
Requesting == phase \in {"lock_mapper", "anon_allocate"}

\* A request for memory ends: it is granted or the kernel panics, unless it came
\* before add_user_process has returned: then it waits for the mapper for ever,
\* with interrupts off.
RequestEnds ==
  Requesting ~>
    (phase \in {"user", "panicked"} \/ (phase = "lock_mapper" /\ held))
=============================================================================
