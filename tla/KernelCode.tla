----------------------------- MODULE KernelCode ------------------------------
(***************************************************************************)
(* The code of the kernel as far as spinlocks, the interrupt flag and the  *)
(* local APIC are concerned: kernel_main, the system calls, and the        *)
(* interrupt, exception and panic handlers.  Module Kernel executes it.    *)
(*                                                                         *)
(* A Rust function is the sequence of operations it performs on that       *)
(* shared state; a thread is a stack of activations of functions.          *)
(***************************************************************************)
EXTENDS Integers, Sequences, SequencesExt

CONSTANTS
  PipeCapacity,   \* Pipe::new(128), small here
  Formats         \* pixel formats the boot loader may report

ASSUME PipeAssumption    == PipeCapacity \in Nat \ {0}
ASSUME FormatsAssumption == Formats \subseteq {"Rgb", "other"} /\ Formats # {}

VARIABLES
  stack,      \* per thread: its activations [prog, pc], innermost last
  running,    \* the thread on the CPU
  iflag,      \* the interrupt flag of the CPU
  saved,      \* the interrupt flag in the frame that a debug trap has pushed
  lock,       \* per spinlock: "free" or the thread that holds it
  PROCESS_LIST, CURRENT_PROCESS,
  inService,  \* LAPIC: interrupts delivered and not yet acknowledged
  queued,     \* INPUT_PIPE: bytes in the queue
  claimed,    \* INPUT_PIPE: a pop has moved head and not yet freed its slot
  format      \* pixel_format of the frame buffer

Threads == {"main", "init"}
Locks   == {"LOGGER", "LAPIC", "PROCESS_LIST", "CURRENT_PROCESS", "ALLOCATOR",
            "KEYBOARD", "MAPPER", "FRAME_ALLOCATOR"}

-----------------------------------------------------------------------------
(* The functions.  Guards are dropped in the reverse order of declaration.  *)

\* log::info! and its kin: Logger::log.
Log == << <<"lock", "LOGGER">>, <<"emit">>, <<"unlock", "LOGGER">> >>

\* GlobalAlloc::alloc inside without_interrupts.
HeapAlloc == << <<"cli">>, <<"lock", "ALLOCATOR">>, <<"unlock", "ALLOCATOR">>,
                <<"sti">> >>

add_user_process_Unmasked ==
  << <<"lock", "MAPPER">>, <<"lock", "FRAME_ALLOCATOR">>, <<"map">>,
     <<"lock", "PROCESS_LIST">>, <<"lock", "ALLOCATOR">>,
     <<"unlock", "ALLOCATOR">>, <<"spawn">>, <<"unlock", "PROCESS_LIST">>,
     <<"unlock", "FRAME_ALLOCATOR">>, <<"unlock", "MAPPER">> >>

add_user_process ==
  << <<"lock", "MAPPER">>, <<"lock", "FRAME_ALLOCATOR">>, <<"map">>, <<"cli">>,
     <<"lock", "PROCESS_LIST">>, <<"lock", "ALLOCATOR">>,
     <<"unlock", "ALLOCATOR">>, <<"spawn">>, <<"unlock", "PROCESS_LIST">>,
     <<"sti">>, <<"unlock", "FRAME_ALLOCATOR">>, <<"unlock", "MAPPER">> >>

\* kernel_main boots with interrupts off; init_apic holds LAPIC and takes the
\* mapper to translate addresses; interrupts::enable() starts the scheduler.
\* Consecutive log lines and allocations have the same effect as one.
Boot == Log \o << <<"lock", "LAPIC">>, <<"lock", "MAPPER">>,
                 <<"unlock", "MAPPER">>, <<"unlock", "LAPIC">>, <<"sti">> >>
            \o Log \o HeapAlloc

kernel_main(ramdisk) ==
  Boot \o (IF ramdisk THEN add_user_process ELSE Log) \o << <<"idle">> >>

send_eoi_Missing ==
  << <<"lock", "LAPIC">>, <<"unlock", "LAPIC">> >>

send_eoi == << <<"lock", "LAPIC">>, <<"eoi">>, <<"unlock", "LAPIC">> >>

timer_handler ==
  send_eoi \o
  << <<"lock", "CURRENT_PROCESS">>, <<"lock", "PROCESS_LIST">>, <<"pick">>,
     <<"unlock", "PROCESS_LIST">>, <<"unlock", "CURRENT_PROCESS">>,
     <<"switch">> >>

keyboard_handler ==
  send_eoi \o
  << <<"lock", "KEYBOARD">>, <<"push">>, <<"unlock", "KEYBOARD">>,
     <<"iret">> >>

\* lapic_error_handler, spurious_interrupt_handler, debug_handler.
logging_handler == Log \o << <<"iret">> >>

\* Pipe::read: for each byte, pop moves head and frees the slot, then the byte
\* is stored in the user's buffer.
read_syscall ==
  << <<"claim">>, <<"release">>, <<"user_memory">>, <<"again">>, <<"ret">> >>

write_syscall_KeepsGuard ==
  << <<"lock", "LOGGER">>, <<"user_memory">>, <<"emit">>, <<"ret">> >>

write_syscall ==
  << <<"lock", "LOGGER">>, <<"user_memory">>, <<"emit">>,
     <<"unlock", "LOGGER">>, <<"ret">> >>

anon_allocate_syscall_Unmasked ==
  << <<"lock", "PROCESS_LIST">>, <<"lock", "CURRENT_PROCESS">>,
     <<"lock", "MAPPER">>, <<"lock", "FRAME_ALLOCATOR">>, <<"map">>,
     <<"unlock", "FRAME_ALLOCATOR">>, <<"unlock", "MAPPER">>,
     <<"user_memory">>, <<"unlock", "CURRENT_PROCESS">>,
     <<"unlock", "PROCESS_LIST">>, <<"ret">> >>

anon_allocate_syscall ==
  << <<"cli">>, <<"lock", "PROCESS_LIST">>, <<"lock", "CURRENT_PROCESS">>,
     <<"lock", "MAPPER">>, <<"lock", "FRAME_ALLOCATOR">>, <<"map">>,
     <<"unlock", "FRAME_ALLOCATOR">>, <<"unlock", "MAPPER">>,
     <<"user_memory">>, <<"unlock", "CURRENT_PROCESS">>,
     <<"unlock", "PROCESS_LIST">>, <<"sti">>, <<"ret">> >>

unknown_syscall == Log \o << <<"ret">> >>

panic_Allocates ==
  << <<"cli">>, <<"lock", "ALLOCATOR">>, <<"unlock", "ALLOCATOR">> >>
    \o Log \o << <<"cli">>, <<"halt">> >>

\* panic and hcf.
panic == << <<"cli">> >> \o Log \o << <<"cli">>, <<"halt">> >>

Code ==
  [kernel_main |-> kernel_main(TRUE), kernel_main_no_ramdisk |-> kernel_main(FALSE),
   user |-> << <<"user">> >>,
   timer_handler |-> timer_handler, keyboard_handler |-> keyboard_handler,
   lapic_error_handler |-> logging_handler,
   spurious_interrupt_handler |-> logging_handler,
   debug_handler |-> logging_handler,
   read_syscall |-> read_syscall, write_syscall |-> write_syscall,
   anon_allocate_syscall |-> anon_allocate_syscall,
   unknown_syscall |-> unknown_syscall, panic |-> panic]

Syscalls == {"read_syscall", "write_syscall", "anon_allocate_syscall",
             "unknown_syscall"}

\* Vectors 32, 33 and 34 share a priority class: the LAPIC delivers none of
\* them while one is in service.  The spurious vector is never in service.
Prioritised == {"timer_handler", "keyboard_handler", "lapic_error_handler"}
Interrupts  == Prioritised \cup {"spurious_interrupt_handler"}

-----------------------------------------------------------------------------
Activation(prog) == [prog |-> prog, pc |-> 1]

Top(t) == Last(stack[t])
Op(t)  == Code[Top(t).prog][Top(t).pc]

\* The thread on the CPU is about to execute an operation of this kind.
At(kind) == Op(running)[1] = kind

-----------------------------------------------------------------------------
(* What must be true of the machine at any time.                            *)

\* The CPU waits with interrupts off for what only another activation could
\* provide: no step is possible any more.
WaitsForLock(l) == At("lock") /\ Op(running)[2] = l /\ lock[l] # "free" /\ ~iflag
WaitsForSlot    == At("push") /\ claimed /\ queued + 1 = PipeCapacity

\* The only ways this kernel can stop for good, apart from a reported panic.
\* (1) A logging or panic handler interrupts the holder of LOGGER;
\* (2) init has set the trap flag, which stays set in a system call, and traps
\* in one that logs;
\* (3) init allocates memory while kernel_main, preempted after it pushed init
\* and before add_user_process returned, still holds the mapper;
\* (4) a key press finds the pipe full and its reader in the middle of pop.
\* In particular the timer and the keyboard handler never wait for a lock, and
\* the two lock orders on PROCESS_LIST and CURRENT_PROCESS never meet.
StuckOnlyKnownWays ==
  /\ \A l \in Locks : WaitsForLock(l) =>
       \/ /\ l = "LOGGER"
          /\ Top(running).prog \in {"panic", "lapic_error_handler",
                                    "spurious_interrupt_handler"}
       \/ /\ l = "LOGGER"
          /\ Top(running).prog = "debug_handler"
          /\ lock[l] = running
       \/ /\ l = "MAPPER"
          /\ Top(running).prog = "anon_allocate_syscall"
          /\ lock[l] = "main"
          /\ Top("main").prog = "kernel_main"
  /\ WaitsForSlot => Top(running).prog = "keyboard_handler"

\* A lock that the timer or the keyboard handler takes, or that of the heap, is
\* never held while an interrupt can arrive nor across a switch of threads.
HandlerLocks == {"LAPIC", "PROCESS_LIST", "CURRENT_PROCESS", "KEYBOARD", "ALLOCATOR"}

HandlerLocksMasked ==
  \A l \in HandlerLocks : lock[l] # "free" => ~iflag /\ lock[l] = running

\* Timer interrupts stop being delivered only after a LAPIC error interrupt,
\* whose handler returns without acknowledging it.
TimerBlocked == iflag /\ inService # {}

TimerStopsOnlyAfterLapicError ==
  TimerBlocked => inService = {"lapic_error_handler"}
=============================================================================
