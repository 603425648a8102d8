------------------------------- MODULE Kernel --------------------------------
(***************************************************************************)
(* The whole kernel on its one CPU: the threads kernel_main and init       *)
(* execute the functions of KernelCode, preempted by interrupts and        *)
(* exceptions.  A handler runs on the stack of the thread it interrupts,   *)
(* so a handler that waits for a lock of that thread waits for ever.       *)
(***************************************************************************)
EXTENDS KernelCode

vars == <<stack, running, iflag, saved, lock, PROCESS_LIST, CURRENT_PROCESS,
          inService, queued, claimed, format>>

Advanced(t) == [stack EXCEPT ![t][Len(stack[t])].pc = @ + 1]
Called(t, prog) == [stack EXCEPT ![t] = Append(@, Activation(prog))]
Returned(t) == [stack EXCEPT ![t] = Front(@)]

Init ==
  /\ \E m \in {"kernel_main", "kernel_main_no_ramdisk"} :
       stack = [main |-> <<Activation(m)>>, init |-> <<Activation("user")>>]
  /\ running = "main"
  /\ iflag = FALSE
  /\ saved = FALSE
  /\ lock = [l \in Locks |-> "free"]
  /\ PROCESS_LIST = <<"main">>
  /\ CURRENT_PROCESS = 1
  /\ inService = {}
  /\ queued = 0
  /\ claimed = FALSE
  /\ format \in Formats

\* All that an operation on stacks, locks and the interrupt flag leaves alone.
Machine ==
  <<saved, PROCESS_LIST, CURRENT_PROCESS, inService, queued, claimed, format>>

Acquire ==
  /\ At("lock")
  /\ lock[Op(running)[2]] = "free"
  /\ lock' = [lock EXCEPT ![Op(running)[2]] = running]
  /\ stack' = Advanced(running)
  /\ UNCHANGED <<running, iflag, Machine>>

Release ==
  /\ At("unlock")
  /\ lock' = [lock EXCEPT ![Op(running)[2]] = "free"]
  /\ stack' = Advanced(running)
  /\ UNCHANGED <<running, iflag, Machine>>

SetInterruptFlag ==
  /\ At("cli") \/ At("sti")
  /\ iflag' = At("sti")
  /\ stack' = Advanced(running)
  /\ UNCHANGED <<running, lock, Machine>>

\* A panic abandons the activation it happens in without dropping its guards.
Panic ==
  /\ stack' = Called(running, "panic")
  /\ UNCHANGED <<running, iflag, saved, lock, PROCESS_LIST, CURRENT_PROCESS, inService,
                 queued, claimed>>

\* write_pixel: an unsupported format is replaced before the panic.
Emit ==
  /\ At("emit")
  /\ \/ /\ format = "Rgb"
        /\ stack' = Advanced(running)
        /\ UNCHANGED <<running, iflag, lock, Machine>>
     \/ /\ format = "other"
        /\ format' = "Rgb"
        /\ Panic

\* allocate_frame and map_to succeed, or fail: in anon_allocate_syscall unwrap
\* panics; add_user_process returns the error, dropping its guards, and then
\* kernel_main's expect panics.
MapPages ==
  /\ At("map")
  /\ \/ /\ stack' = Advanced(running)
        /\ UNCHANGED <<running, iflag, lock, Machine>>
     \/ /\ running = "init"
        /\ Panic
        /\ UNCHANGED format
     \/ /\ running = "main"
        /\ stack' = Called("main", "panic")
        /\ lock' = [lock EXCEPT !["MAPPER"] = "free", !["FRAME_ALLOCATOR"] = "free"]
        /\ UNCHANGED <<running, iflag, Machine>>

\* The memory a system call was given a pointer to; a page fault is Exception.
UserMemory ==
  /\ At("user_memory")
  /\ stack' = Advanced(running)
  /\ UNCHANGED <<running, iflag, lock, Machine>>

Spawn ==
  /\ At("spawn")
  /\ PROCESS_LIST' = Append(PROCESS_LIST, "init")
  /\ stack' = Advanced(running)
  /\ UNCHANGED <<running, iflag, saved, lock, CURRENT_PROCESS, inService, queued, claimed,
                 format>>

Eoi ==
  /\ At("eoi")
  /\ inService' = {}
  /\ stack' = Advanced(running)
  /\ UNCHANGED <<running, iflag, saved, lock, PROCESS_LIST, CURRENT_PROCESS, queued,
                 claimed, format>>

\* The body of schedule: neither process is ever dead here, so the next slot
\* of the list is READY (RoundRobin of module Scheduler).
Pick ==
  /\ At("pick")
  /\ CURRENT_PROCESS' =
       IF CURRENT_PROCESS = Len(PROCESS_LIST) THEN 1 ELSE CURRENT_PROCESS + 1
  /\ stack' = Advanced(running)
  /\ UNCHANGED <<running, iflag, saved, lock, PROCESS_LIST, inService, queued, claimed,
                 format>>

\* mov rsp, rax; pop ...; iretq: the saved context has interrupts enabled.
Switch ==
  /\ At("switch")
  /\ stack' = Returned(running)
  /\ running' = PROCESS_LIST[CURRENT_PROCESS]
  /\ iflag' = TRUE
  /\ UNCHANGED <<lock, Machine>>

\* An interrupt comes only when interrupts are enabled, a debug trap always.
Iret ==
  /\ At("iret")
  /\ stack' = Returned(running)
  /\ iflag' = (Top(running).prog = "debug_handler" => saved)
  /\ UNCHANGED <<running, lock, Machine>>

Ret ==
  /\ At("ret")
  /\ stack' = Returned(running)
  /\ UNCHANGED <<running, iflag, lock, Machine>>

\* ArrayQueue::push from keyboard_handler: Err when tail is a lap ahead of
\* head, which panics; while a pop holds the slot it needs, push spins.  A
\* scan code that completes no ASCII character pushes nothing.
PipePush ==
  /\ At("push")
  /\ \/ /\ stack' = Advanced(running)
        /\ UNCHANGED <<running, iflag, lock, Machine>>
     \/ /\ queued + (IF claimed THEN 1 ELSE 0) < PipeCapacity
        /\ queued' = queued + 1
        /\ stack' = Advanced(running)
        /\ UNCHANGED <<running, iflag, saved, lock, PROCESS_LIST, CURRENT_PROCESS,
                       inService, claimed, format>>
     \/ /\ queued = PipeCapacity
        /\ Panic
        /\ UNCHANGED format

\* ArrayQueue::pop from Pipe::read, in two steps; the loop waits for a byte.
PopClaim ==
  /\ At("claim")
  /\ queued > 0
  /\ queued' = queued - 1
  /\ claimed' = TRUE
  /\ stack' = Advanced(running)
  /\ UNCHANGED <<running, iflag, saved, lock, PROCESS_LIST, CURRENT_PROCESS, inService,
                 format>>

PopRelease ==
  /\ At("release")
  /\ claimed' = FALSE
  /\ stack' = Advanced(running)
  /\ UNCHANGED <<running, iflag, saved, lock, PROCESS_LIST, CURRENT_PROCESS, inService,
                 queued, format>>

\* The loop of Pipe::read over the bytes it was asked for.
NextByte ==
  /\ At("again")
  /\ \/ stack' = Advanced(running)
     \/ stack' = [stack EXCEPT ![running][Len(stack[running])].pc = 1]
  /\ UNCHANGED <<running, iflag, lock, Machine>>

UserCall ==
  /\ At("user")
  /\ \E s \in Syscalls : stack' = Called(running, s)
  /\ UNCHANGED <<running, iflag, lock, Machine>>

\* init may set the trap flag.  syscall::init writes no flag mask, so the flag
\* survives the system call and the functions it calls, a panic included; an
\* interrupt or exception gate clears it (the model does not tell the panic of
\* an exception handler from one that was called).  Breakpoints of user code end
\* in the general protection fault handler: their gate is closed to it.
MayTrap ==
  \A i \in DOMAIN stack[running] :
    stack[running][i].prog \in Syscalls \cup {"user", "panic"}

DebugTrap ==
  /\ MayTrap
  /\ stack' = Called(running, "debug_handler")
  /\ saved' = iflag
  /\ iflag' = FALSE
  /\ UNCHANGED <<running, lock, PROCESS_LIST, CURRENT_PROCESS, inService, queued,
                 claimed, format>>

Interrupt(h) ==
  /\ iflag
  /\ h \in Prioritised => inService = {}
  /\ inService' = inService \cup (Prioritised \cap {h})
  /\ stack' = Called(running, h)
  /\ iflag' = FALSE
  /\ UNCHANGED <<running, saved, lock, PROCESS_LIST, CURRENT_PROCESS, queued, claimed,
                 format>>

\* A fault of the running code, a non-maskable interrupt or a machine check:
\* the gate clears the interrupt flag and the handler panics.
Exception ==
  /\ Top(running).prog # "panic"
  /\ stack' = Called(running, "panic")
  /\ iflag' = FALSE
  /\ UNCHANGED <<running, lock, Machine>>

\* One operation of the code that the thread on the CPU executes.
Execute ==
  \/ Acquire
  \/ Release
  \/ SetInterruptFlag
  \/ Emit
  \/ MapPages
  \/ UserMemory
  \/ Spawn
  \/ Eoi
  \/ Pick
  \/ Switch
  \/ Iret
  \/ Ret
  \/ PipePush
  \/ PopClaim
  \/ PopRelease
  \/ NextByte
  \/ UserCall

Next ==
  \/ Execute
  \/ DebugTrap
  \/ Exception
  \/ \E h \in Interrupts : Interrupt(h)

\* The CPU executes kernel code; interrupts leave time in between (the timer's
\* are 10 ms apart) and a debug trap comes after an instruction, so the thread
\* that runs gets on; the periodic timer does not stop.  Nothing is assumed of
\* the program of the init process.
InKernel == Top(running).prog # "user"

Fairness ==
  /\ WF_vars(InKernel /\ Execute)
  /\ \A t \in Threads :
       SF_vars(running = t /\ InKernel /\ Execute
                 /\ Top(t).prog \notin Interrupts \cup {"debug_handler"})
  /\ SF_vars(Interrupt("timer_handler"))

Spec == Init /\ [][Next]_vars

FairSpec == Spec /\ Fairness

-----------------------------------------------------------------------------
Active(prog) == \E t \in Threads : \E i \in DOMAIN stack[t] : stack[t][i].prog = prog
Halted == At("halt")

\* A write system call returns, unless the kernel panics, is stuck, or has
\* stopped being interrupted.
Stuck == WaitsForSlot \/ \E l \in Locks : WaitsForLock(l)

WriteReturns ==
  (Top("init").prog = "write_syscall")
    ~> (Len(stack["init"]) = 1 \/ Active("panic") \/ Stuck
          \/ "lapic_error_handler" \in inService)

\* A panic stops the machine: its report is written and the machine halts in hcf,
\* or the report waits with interrupts off for the logger, which the panicking code
\* has locked (write_pixel over its pixel format, for one) or a preempted thread.
\* No other code runs on, and panic waits for nothing else.
PanicStops == Active("panic") ~> (Halted \/ WaitsForLock("LOGGER"))
=============================================================================
