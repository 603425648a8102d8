# A verification project for bayos

bayos is a small x86-64 kernel in Rust (`src/kernel`), booted by the
`bootloader` crate, with one user process, `init`, compiled against a patched
mlibc (`src/user`). This directory holds TLA+ models of its parts, TLC runs that
check them on small instances, and TLAPS proofs of what matters most for
instances of any size.

## 1. The system

One CPU, one address space, preemption by the periodic LAPIC timer.

| Part | State | Operations | Talks to |
|---|---|---|---|
| Scheduler (`sched.rs`) | `PROCESS_LIST`, `CURRENT_PROCESS` | `init`, `add_process`, `add_user_process`, `mark_current_as_dead`, `delete_process`, `schedule` | called by `timer_handler`; the list is read and written by `anon_allocate_syscall` |
| Interrupts (`int.rs`, `gdt.rs`) | IDT, `LAPIC`, TSS stacks, `INPUT_PIPE` | timer, keyboard, LAPIC error, spurious and exception handlers, `send_eoi`, `init_apic` | run on the stack of what they interrupt; the timer switches stacks |
| System calls (`syscall.rs`) | MSRs, `FRAME_ALLOCATOR` | `syscall_entry`, `read`, `write`, `anon_allocate` | pipe, logger, process list, mapper |
| Frames and address space (`memory.rs`) | `next` of the boot allocator, bitmap, page tables | `allocate_frame`, handover in `BitmapAllocator::init`, `map_to` | heap initialisation, loader, `anon_allocate` |
| Heap (`allocator.rs`) | linked list of free regions | `init`, `alloc`, `dealloc` | every `Box`, `Vec`, `Arc` of the kernel |
| Pipe (`vfs/pipe.rs`) | a bounded queue | `read` (busy waits), `write` (panics when full) | keyboard handler writes, `read` system call reads |
| Logger (`framebuffer.rs`) | cursor, pixel format, frame buffer | `log`, `write_char`, `clear` | everybody, panic handler included |
| Loader (`sched.rs`, `elf.rs`) | the init image | maps and copies the segments | part of `add_user_process` |
| Boot (`main.rs`) | | `kernel_main`, `panic`, `hcf` | initialises everything in order |
| ACPI handler (`acpi.rs`) | | address translation | `init_apic` |
| Toolchain build (`user/cross/build.rs`) | download cache, source trees, installed tools | download, verify, extract, patch, build | cargo; `user/build.rs` and `build.rs` use what it makes |

What is hard about it: handlers run on top of any instruction of the code that
has interrupts enabled, and all locks are spinlocks, so a handler that wants a
lock of the code below it waits for ever; a system call keeps interrupts enabled
and stays on the user's stack; all entries from ring 3 share one TSS stack; two
frame allocators hand over to each other; the heap keeps its list inside the
memory it manages; and every error is a panic whose report needs the logger's
lock. The assembly at the two entries to the kernel moves values between
overlapping registers and stacks, and the toolchain build must survive being
interrupted anywhere, since it takes long. `PROJECT.json` lists these hazards at their lines.

## 2. Modules

| Module | Models | Checked by | Proved in |
|---|---|---|---|
| `Scheduler` | process list, context save and restore, TSS stack | run `scheduler` | `SchedulerProofs` |
| `KernelCode`, `Kernel` | every function of the kernel as operations, and their execution: locks, interrupt flag, LAPIC in-service state, all handlers | run `kernel` | `SchedulerProofs` |
| `Heap`, `HeapAbs` | the linked-list allocator and the contract it implements | run `heap` | `HeapProofs` |
| `Memory` | frame allocators, handover, page mapping loops | run `memory` | `MemoryProofs` |
| `Registers` | `syscall_entry` and `timer_handler` by instructions, GDT, first frame of `init` | runs `registers`, `registers_linux` | |
| `Pipe`, `PipeAbs` | the input queue by memory accesses and the FIFO it implements | run `pipe` | `PipeProofs` |
| `Framebuffer` | cursor and glyphs of the logger | run `framebuffer` | `FramebufferProofs` |
| `Loader` | the bytes and pages of a loaded program | run `loader` | `LoaderProofs` |
| `Apic` | `init_apic` with the timers running | runs `apic`, `apic_masked` | `ApicProofs` |
| `Toolchain` | the build scripts and what they leave on disk | run `toolchain` | `ToolchainProofs` |

How they fit together: `Registers` justifies that `Scheduler` treats a context
as one value that `timer_handler` saves and restores, and `Scheduler` in turn the
round robin that `Kernel` takes for granted (theorem `PickIsSchedule`); `Pipe` justifies that `Kernel` counts
the bytes of the queue and has a pop in two steps; `Memory` has the frames of the
loop whose bytes are in `Loader`.

`MC*` modules hold the constants of the runs. An operator whose name is that of
another with a suffix (`Marked_OffByOne` before `Marked`) is a deliberately wrong
variant, used to see that a property can fail; no specification uses it.

### Scheduler
Critical sections on `PROCESS_LIST` run with interrupts off, so every function but
the timer handler is one action. `proc_list`, `current` are the two statics (indices count from 1).
The contents of stacks are abstracted to the frame last pushed on each:
`frame[s]`; a context is its thread, the ring it runs in, and a counter `work`
that stands for the rest of the registers. `timer_handler` goes through three
steps, with `at` as its program counter: `Tick` pushes the context on the stack that
the CPU selects (the TSS stack when coming from ring 3) and calls `schedule`;
`LockProcessList` takes the lock of the list (`locked`); `SwitchToNext` stores
`rsp`, picks the next process, drops the lock and resumes that process from the frame
its `rsp` points to. `preempted` is a history variable: the context each thread was
really interrupted in.
On a dead process `schedule` calls `delete_process` instead (`CallDeleteProcess`),
which wants the lock that `schedule` still holds: `LockProcessList` is not
enabled, and no other step is. Nothing in the repository calls
`mark_current_as_dead` or `add_process` yet; both are public operations of the
component and are modelled as such.
`map_to` refuses a second user stack at the same fixed address, hence the guard
of `AddUserProcess`; in the code this is `kernel_main`'s `expect`, or an error
for another caller, and nothing is pushed to the list in either case.

### Kernel
In `KernelCode` a function is the sequence of its operations on shared state (`lock`,
`unlock`, `cli`, `sti`, `eoi`, ...); the safety invariants are there, too. In `Kernel` a
thread is a stack of activations, and one action per kind of operation executes the
top of the running thread's stack. Interrupts
(`Interrupt`) push a handler when the interrupt flag is set and, for the vectors
32 to 34, when none of their priority class is in service. `Exception` is a
fault, a non-maskable interrupt or a machine check at any point. The queue
behind the pipe (crossbeam's `ArrayQueue`, external) pops in two steps: it moves
`head`, then frees the slot; a `push` that needs that slot spins. Scheduling
itself is `Pick`: with no dead process, the next slot (what `Scheduler` proves).
`syscall::init` writes no flag mask, so a trap flag that `init` sets stays set in
its system calls and in a panic they end in: `DebugTrap` may come at any of their
operations, with interrupts on or off (`saved` is the flag to return to), but not
inside a handler, whose gate clears the trap flag. Log calls and
allocations in a row are one. A `read` or `write` on another descriptor, or of
no bytes, changes nothing.

### Heap
`free` is the linked list from `head.next` on, `live` the blocks callers hold.
`Alloc` is `size_align`, `find_region`, `alloc_from_region` and the return of the
excess by `add_free_region`; `panicked` becomes true when an assertion of
`add_free_region` fails. `x & !(align - 1)` is `x - x % align`, the same for
powers of two. `Modulus` is 2^64: `checked_add` fails at or above it.
`HeapAbs` is the contract of `GlobalAlloc`.

### Memory
The three mapping loops of the kernel (`init_heap`, `add_user_process`,
`anon_allocate_syscall`) are one loop over `todo` with the allocator of the
current phase; `map_to` (external) takes a second frame when the page's table
does not exist. The three lower levels of page tables are one level here. The
loops hold both locks and each ends before the next begins, so `phase` is a
program counter. All three callers turn an error into a panic.
`add_user_process` pushes `init` while it still has the mapper and the frame allocator
(`held`), and drops them when `kernel_main` gets the processor again (`DropGuards`):
never while a system call of `init` runs with interrupts off. A request is
`AnonAllocate`, which computes the range of pages, `LockMapper`, the loop, and
`AnonAllocateDone`, which stores the result and moves the pointer on. It panics on the way
when `VirtAddr` refuses the end of the range (`EndNotAnAddress`) or the store faults
(`StoreFaults`; a debug build checks the alignment, too). The pointers of `init` are
addresses of the lower half; what the boot loader has mapped is not in `mapped`.

### Registers
A register or a word of memory holds a symbolic value that says where it came
from (`Own(p, r)`, `Rip(..)`, `Rsp(..)`, `Junk`). Functions are sequences of
instructions, in the order of the source; one action per kind of instruction. The
timer may interrupt every instruction that has interrupts enabled: `init`, all
of `syscall_entry` (the entry masks no flag) and the handler. The
CPU selects the TSS stack when it comes from ring 3 and otherwise aligns the
stack it is on. `send_eoi`, `schedule` and the body of `syscall_handler` are compiled
code and do what the calling convention lets them do, which includes using the
stack slot of the seventh argument. Words beyond the stack pointer are forgotten at
once. `interrupted` and `entered` are history: the state a process was
interrupted in and the one `init` made its system call in.

### Pipe
`head`, `tail` and the stamps of the slots are those of crossbeam's `ArrayQueue`
(external): position and lap in one number. `Typed` is `keyboard_handler` with a
character, in one step because interrupts are off; its `push` either stores the byte,
or finds the queue full and panics, or spins on a slot that a reader has claimed.
A read takes one step per access to shared memory. There may be several readers,
as in a system with more than one process; today `init` is the only one.
`PipeAbs` is a bounded FIFO; the refinement mapping takes the filled slots from
`head` to `tail` as the queue, and a byte as taken when its slot is claimed.

### Framebuffer
`Wrapped`, `Scrolled`, `newline` and `clear` are the functions of the source on a
record of cursor and screen; `write_char` is one action per kind of character.
`glyphs` are the positions drawn since the screen was erased. A glyph is
out of range when its last pixel is, since indices grow along it.

### Loader
Memory is one symbolic value per byte: from the image at an offset, zero, left over
from the frame's last owner, or from behind the ramdisk. `Copy` copies `p_memsz`
bytes as the code does; reading behind the ramdisk may fault or not. Images
are assumed to be valid ELF files (`LoaderAssumption`): sequences of headers with
unsigned fields (`Program`), `p_filesz` at most `p_memsz` and within the file. The kernel checks neither this nor the magic number.

### Apic
One action per group of writes that belong together; `Tick` lets both timers count
between any two of them. Masking the timer does not stop it. The entries of an
IOAPIC start as the firmware left them. A port access is assumed to take longer than
one clock of the PIT, so that the PIT's output has gone low when it is first polled.

### Toolchain
One action per point at which an early end leaves something different on disk.
A source tree goes from nothing over `partial`, `unpatched` and `half` to `patched`
or `plain` (no patch file); each stage leaves its product `whole`, or `torn` if it
ends early. `fresh` is cargo's record that the cross script succeeded with the
present patches; the other two scripts run in every build (`user/build.rs:32` names a
file that never exists, which makes cargo run it always). What a tool does
with an incomplete tree is left open: it fails, or it does not notice.

## 3. Runs

| Run | Bounds | Shows |
|---|---|---|
| `scheduler` | 3 processes, 2 units of work | `OneRunning`, `ContextIntact`: contexts survive the shared TSS stack. `RoundRobin`. `EveryReadyRuns`: everyone ready gets the CPU, except once a process has died: it is never deleted, and the machine hangs. (`TypeOK` and `ResumesWhereInterrupted` are proved.) |
| `kernel` | queue of 2 bytes, supported and unsupported pixel format, with and without ramdisk | `StuckOnlyKnownWays`: the complete list of lock-ups (below). `HandlerLocksMasked`: the discipline that makes the timer and keyboard handlers safe. `TimerStopsOnlyAfterLapicError`. `WriteReturns`. `PanicStops`: after a panic nothing else runs, and its report waits for the logger at most. |
| `heap` | heap of 22 units, nodes of 4, six layouts | `NoOverlap`, `AssertionsHold`, `LostOnlyToAlignment`, `FreedIsReusable`, `ImplementsHeapAbs`, and in `TypeOK` that all lies inside the heap |
| `memory` | 16 usable frames, four programs, six request sizes, three pointers | `NoFrameShared`, `ExactAccounting`, `AnonBlocksBacked`. `PanicsOnlyForCause`: a request panics only over its end, the last frame or a result wanted elsewhere than in memory of `init`. `RequestEnds`: it ends, unless it came before `add_user_process` returned |
| `registers` | one system call at a time, 0 or 1 words on the user's stack (both alignments) | `ArgumentsArrive`, `ResumesExactly`, `ReturnsToCaller`, `SegmentsRight` |
| `registers_linux` | same | violated: see Findings |
| `pipe` | 2 slots, 2 readers, 5 characters, reads of 1 or 2 bytes | `ImplementsFifo` (refinement), `StopsOnlyWhenFull`, `BytesArrive` |
| `framebuffer` | glyphs of 2 by 3, all screens up to 7 by 18, with and without padding | `GlyphsInside`, `NeverOverdrawn`, `ErasesOnlyWhenFull` |
| `loader` | pages of 2 bytes, segments of 0 to 3 bytes at 6 addresses, alone and in pairs, 2 or 6 frames | `LoadedRight`, `FailsOnlyForCause` |
| `apic` | 6 machines, PIT period of 3 ticks, counter of 5 | `TimerCalibrated`, `OnlyLastTwoOpen`, `KeyboardToCpuZero`, `SetupEnds` |
| `apic_masked` | same | violated: see Findings |
| `toolchain` | see `MCToolchain.cfg`: builds ending early and changes of patches | `OnlyVerifiedSources`, `CompleteUnlessTorn`, `ToolsWhole`, `EventuallyBuilt` |

Why the bounds suffice: three processes give every relation of two positions in
the list (before, after, wrapping), and a user process beside two kernel ones; a
queue of two is empty, partly filled and full, and full with a pop under way; a
heap of 22 units holds up to five blocks and has remainders of every size
relative to a node; frames run out in each of the three loops, requests end between the
halves of the address space, on the border and behind it, and results go to mapped pages,
across two of them and to pages that a request has yet to map; five characters reuse each of two slots
twice, and a stale reader meets a slot one lap on; the largest screen holds three
lines of three glyphs, the smallest none; two segments of up to three bytes on pages
of two begin and end at every position in a page, share one or not, and reach the
stack's; the APIC's counter can run out before it is read.

The lock-ups that `StuckOnlyKnownWays` lists, all real behaviour of the code:
1. a spurious or LAPIC error interrupt, or a panic, while LOGGER is held;
2. a debug trap while `write`, or the log call for an unknown system call, holds
   LOGGER: `init` has set the trap flag, which `syscall` keeps (`syscall.rs:21`), and
   `debug_handler` (`int.rs:219`) logs;
3. `init` calls `anon_allocate` while `kernel_main`, preempted after pushing it
   (`sched.rs:194`) and before returning, still holds the mapper
   (`sched.rs:102`);
4. a key press when the queue is full and its reader is in the middle of `pop`.

Deadlock checking is on in `registers` and `toolchain`, which never stop. It is off
in the others: the machine really stops, after a panic or one of these lock-ups,
`kernel_main` ends in an idle loop, and `add_user_process` and `init_apic` return.

### Fairness
- `Scheduler`: weak fairness of `Tick`, since the LAPIC timer is periodic
  (`int.rs:174`) and interrupts are enabled outside the handler, and of `Schedule`: the CPU
  executes the handler. Neither helps a CPU that spins.
- `Kernel`: the CPU executes kernel code (weak); interrupts and debug traps do not come so
  densely that the code below makes no progress (strong, per thread); the timer
  keeps firing (strong, since the flag is cleared now and then). Nothing is
  assumed of the program of `init`, of keys or of errors.
- `Memory`: weak fairness of the kernel's steps; `init` need not ask, and
  `kernel_main` need not get to drop its guards before it does.
- `Pipe`: weak fairness of each reader inside `read`: the scheduler gives every
  process the CPU again (`EveryReadyRuns`). Nothing is assumed of keys.
- `Apic`: the CPU goes on and time passes.
- `Toolchain`: a build that was started runs on, and a failed one is started
  again; early ends are bounded by `MaxFaults`, patches by `MaxEdits`.

## 4. Proofs

Proofs hold for every value of the constants.

`SchedulerProofs`, first part, about `Scheduler`. `IInv` strengthens `TypeOK`,
`OneRunning` and `ContextIntact` by: a waiting process was saved on its own stack or,
only if it is a user process, on the TSS stack; there is at most one user process; only
user processes are in ring 3; inside `schedule` the interrupted context is the one on
its stack (`InterruptedSaved`); and the lock is held exactly there (`LockedInSchedule`),
so `delete_process` never gets it. The first three are why the TSS stack never holds
two contexts: `ContextIntact` alone is not inductive. `TickIInv` and `ScheduleIInv` are the
main steps; `NextSlot` shows that the search of `schedule` stops at the next slot.
From `IInv` follow the invariants and the action properties `RoundRobin`
and `ResumesWhereInterrupted`. Assumed: `MaxProcs` is a positive and
`MaxWork` a natural number.

`SchedulerProofs`, second part, about `Kernel` (there the instance `K`;
`SameMachine` identifies what both see of `KernelCode`). The three
invariants of the run speak of the moment at which something is wrong; none is
inductive, since whether a step is right depends on what every activation on every
stack still expects. Two tables say it for each point of the code: `On`, where
interrupts are enabled, and `Holds`, which locks are taken there. The tables are
not assumed to fit: the lemmas `Code_...` go through each function and show that
each operation leads from one row to the next (a `lock` adds its lock, `cli` clears
the flag, ...), that no operation locks what its function holds, and that the code of
a handler never enables interrupts. `KernelInv` then says of a state:
- `Shape`: what may be called from where, so what the stacks look like;
- `Flags`: the interrupt flag is that of the table at the top of the running stack;
  every preempted thread, and everything below a handler, is at a point with
  interrupts enabled;
- `Held`, `Owner`, `Once`: a taken lock is held by some activation of its owner; an
  activation that will still unlock a lock owns it, and is the only one of its stack.
  `Live` excepts what a panic has abandoned;
- `PanicKeeps`: after a panic that leaves the mapper or the frame allocator
  locked, `init` never runs again. Without it there would be a fifth lock-up, of `init`
  behind a dead `kernel_main`;
- `Trapped`: the flag that a `debug_handler` returns to is that of the point it
  interrupted, and everything below a trap with interrupts on has them on;
- `Spawned`, `InService`: when `init` may run at all, and who will acknowledge an
  interrupt.

One lemma per action shows that `KernelInv` is kept (`AcquirePreserves`,
`ReturnPreserves`, ..., together `KernelNext`). `HandlersNeverWait` follows from
`Held` and `Flags`: the tables of the handlers' locks have no point where `On` holds.
`TimerGoesOn` is `InService`. `StopsOnlyInKnownWays` goes through the operations that
wait: the owner of the lock is the running thread, in an activation below, or a
preempted one, and `Flags` leaves only the points with interrupts enabled. `LocksExclude`
is mutual exclusion as such: no two activations hold the same lock, unless a panic has
abandoned one. No assumption on the constants is needed. `PickIsSchedule` connects the
two parts and is why they are one module: where no process is dead, `Pick` goes to
the slot at which the search of `schedule` ends.

`HeapProofs`. First arithmetic (what `align_up` and `size_align` return) and lists
(`RemoveAt`, `Cons`). `Sound(list, B)`, with the list and the blocks as
parameters so that it can speak of the list between the two halves of `alloc`,
says that all regions and blocks are typed, aligned to nodes, inside the heap,
large enough and apart. `NoOverlap` alone is not inductive: without alignment
and minimum size the assertions could fail, without the bounds `checked_add`
could. `AllocStep` cuts a block and a remainder out of a vacant region,
`DeallocStep` gives one back; both also yield the step of `HeapAbs`, hence
`Refinement`. Assumed (`HeapAssumption`, `LayoutAssumption`): the heap ends below
the top of the address space, a node's size is a multiple of its alignment,
sizes are positive, of two alignments one divides the other, and aligning up
does not overflow inside the heap.

`LostOnlyToAlignment` is about sums over the list and over the blocks, which the
library defines by recursion over subsets. `SumsExist` shows that this recursion has a
solution, by a least size without one; `SumsInsert` that the order of the elements does
not matter, `SumsRename` nor the index of a value, both by `FiniteInduction`, induction
over the subsets of a finite set with the set of good ones as a parameter. Hence `SumWithout`: without one
element the sum is less by its value. With it `RemoveBytes`, `ConsBytes` and
`BlockBytesWithout` follow the bytes through `alloc` and `dealloc`: the change of `Lost` is
exactly the distance from the region's start to the block's (`AllocLoss`), nought if
the block needs no more alignment than a node. So `NothingGained`, too: starting at 0,
`Lost` never is negative, and no byte is counted twice.

`FramebufferProofs`. `IInv` says where the cursor is relative to the glyphs: each of
them is in the cursor's line or ends above it and, unless a carriage return moved
the cursor back, ends left of it. `NeverOverdrawn` speaks of the next glyph only
and is not inductive without this. `NewlinePlaced` and `ClearPlaced` show that
both ways to a fresh line keep it, `DrawingPlace` that wrapping and erasing in one
character do, and `InRange` that the last pixel of a glyph inside the screen is in the
buffer (an argument about rows of the length `stride`, `RowsFit`). The cursor's
type and border are proved as `TypeCorrect`. Assumed (`FontAssumption`,
`ScreensAssumption`): glyphs have a positive size, and the stride is at least the
width.

`MemoryProofs`. The enumeration first: `UsableFramesRight` shows for every memory map
of aligned regions in order that `usable_frames` yields frames inside usable regions
only, in strictly ascending order. It is a concatenation defined by recursion; that
the recursion has a solution at all (`PartlyFlattened`) and what it yields is proved
by taking a least length for which it fails (`NatMin`). `Allocated` says that either
allocator gives away a frame it had not given away, and accounts for it. `IInv` has
three parts. `FrameInv`: the frames given away are those in use, and no two of them
have the same user; `NoFrameShared` and `ExactAccounting` are inductive only
together. `BlockInv`: what each mapping loop has mapped so far. `AnonBlocksBacked`
follows because `map_to` refuses a mapped page and everything that must not be
shared is mapped before the first request; no assumption on addresses is needed.
`Layout`, on top of `IInv`, has the requests' pages consecutive from `AnonStart` on.
From it `NeverMappedBefore`: a request could only run into the heap, but then more
pages than there are frames would be mapped, each to its own frame. Assumed:
`MemoryMapAssumption` (what the boot loader reports), `AddressAssumption`
(addresses are unsigned, and the pointers of `init` lie in the lower half) and, for
`PanicsForCause` only, `LayoutAssumption`: the stack and the program's segments end
below `AnonStart`, the lower half has room for more pages from there on than there are
usable frames, and the heap (2 MiB below 0xffff_ffff_8000_0000) is in the upper half. For
the program this is how `init` is linked; the kernel does not check it. That a store of
the result to the stack or to an earlier block does not fault follows from `BlockInv`.

`PipeProofs`. Positions first: an index and a lap in one number, and what a step of
one slot or one lap does to them. `IInv` says which slots hold a byte (those from
`head` to `tail`, with the stamp of their lap), which are vacant, which slot a reader
holds between claiming and freeing it, that no two readers hold the same, and that
the `head` a reader has loaded is never ahead of the real one, so that its
compare-and-swap fails or claims a filled slot. `StopsOnlyWhenFull` is part of it. `Refinement`
maps the filled slots to the queue of `PipeAbs`: claiming a slot takes the byte,
`Typed` appends one, all other steps stutter. Assumed: `OneLap` is larger than
`Capacity` (`OneLapAssumption`), a fact about the next power of two that the
provers have no theory for; TLC evaluates it.

`LoaderProofs`. `IInv` follows the loop over the headers: the pages mapped are those
of the segments before the current one and those of it that are no longer to do,
then those of the stack (`Mapping`), and the bytes of the segments before, and of the current one as far as
it got, are in place (`Copying`). The second needs the first: a later segment does
not overwrite an earlier one because no page is mapped twice. `FailsOnlyForCause` is
inductive with `Mapping`. Assumed: `LoaderAssumption`.

`ApicProofs`. `TimerInv` relates both counters to the time that has passed:
`TimerCalibrated` speaks of the end only. A counter that has run out shows less than
the time passed, and still at least the period. `EntryInv` has the IOAPICs done so far
and the entries masked so far; between the two writes of the keyboard's entry
`KeyboardToCpuZero` holds because the loop before has set its destination to 0.
`ShiftedOut` computes why the id is lost. Assumed: `ApicAssumption`.

`ToolchainProofs`. `IInv` says of every tree which step may have left it as it is,
what `torn` must contain then, and of every product whether the stage that makes it is
over. The three invariants speak of single steps; that an early end between any two
leaves the disk in a state that the next build handles is the content of `Trees`,
`Extracted` and `Installed`. It holds for any number of early ends and of changed
patches (`BoundsAssumption` says that they are natural numbers).

Only model-checked, and why:
- all liveness properties (`EveryReadyRuns`, `WriteReturns`, `PanicStops`, `RequestEnds`, `BytesArrive`,
  `SetupEnds`, `EventuallyBuilt`): fairness is out of the prover's reach;
- `Registers`: it has no constants and finitely many states, so the run is
  exhaustive and a proof would say nothing more; it would have to carry the contents of
  four stacks through some eighty instructions.

## 5. Findings

- `syscall.rs:49` promises "the same registers as linux"; six of them are lost,
  and mlibc's stubs tell the compiler they are not (run `registers_linux`).
- `int.rs:191` says "mask all irqs in ioapic"; the loop stops before the last two
  entries of each, since `num_of_irqs` (`int.rs:189`) is the largest index minus one
  instead of plus one (run `apic_masked`; `OnlyLastTwoOpen` is what remains true).

Behaviour of the same kind, which the models show and the passing runs state as
exceptions or definitions:
- `syscall.rs:81` pops the seventh argument into `rax` (`syscall_entry` in `Registers`).
  No system call returns a result, and `sys_read` of mlibc (`mlibc.patch:3639`)
  takes what is there for the number of bytes read;
- `framebuffer.rs:161-164` replaces an unsupported pixel format before it panics, "to
  avoid a double panic". But it panics with LOGGER held, and the panic handler logs: it
  waits for ever, interrupts off, and nothing is displayed (`PanicStops` and the first
  way of `StuckOnlyKnownWays`). The same happens when the panic is another thread's;
- the keyboard is always routed to the CPU with id 0 (`int.rs:203`,
  `KeyboardToCpuZero`);
- a system call for memory panics the kernel for a size that leaves the address space
  and for a pointer to memory that is not mapped (`syscall.rs:125` and `149`,
  `PanicsOnlyForCause`);
- `p_memsz` instead of `p_filesz` bytes are read from the image (`sched.rs:141`,
  `FailsOnlyForCause`);
- a source tree that was being made when a build ended is never repaired, and one
  patched with an old patch is never patched again although the script reruns for
  that (`user/cross/build.rs:49-51` and `83`, `CompleteUnlessTorn`).

## 6. Not modelled, and the plan

All safety properties of modules that have constants are proved. Should more system
calls or locks be added, the tables `On` and `Holds` and the lemma `Code_...` of the
function are what must be extended, with `PointFacts` about the points at which
locks are held; most of the proof that the steps keep `KernelInv` speaks of kinds of
operations only.

Left out for good: `acpi.rs` (adds an offset to an address; all other methods are
`todo!()`), `get_virtual_address` and the page-table walk (the `x86_64` crate), the
IST stack of the double fault, `src/main.rs` (starts QEMU; straight-line),
`deallocate_frame` (never called), the decoding of scan codes, the rasterisation and
colours of glyphs (libraries), the red zone below the user's stack pointer and the
reordering of non-volatile device accesses (the compiler's choice; listed as
hazards).
