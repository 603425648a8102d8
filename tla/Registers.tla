------------------------------ MODULE Registers ------------------------------
(***************************************************************************)
(* The assembly of the kernel, instruction by instruction: syscall_entry   *)
(* (kernel/src/syscall.rs) and timer_handler (kernel/src/int.rs), with the *)
(* segments of kernel/src/gdt.rs and the first frame that add_user_process *)
(* (kernel/src/sched.rs) builds.  Two processes, kernel_main and init, are *)
(* switched by a timer that may interrupt any instruction that has         *)
(* interrupts enabled, those of syscall_entry included.                    *)
(*                                                                         *)
(* What registers and words of memory hold is symbolic: a tuple that tells *)
(* where the value came from.                                              *)
(***************************************************************************)
EXTENDS Integers, Sequences

VARIABLES
  cpu,          \* registers, stack pointer, instruction pointer, segments, flag
  mem,          \* the words of each stack, the first pushed first
  rsp,          \* Process.rsp of each process
  current,      \* CURRENT_PROCESS
  interrupted,  \* history: the state in which each process was interrupted
  entered       \* history: the state in which init made its system call

vars == <<cpu, mem, rsp, current, interrupted, entered>>

\* The order of the pushes and pops of timer_handler.
Saved == <<"rax", "rcx", "rdx", "rbx", "rbp", "rsi", "rdi", "r8", "r9", "r10",
           "r11", "r12", "r13", "r14", "r15">>

Restored_Swapped ==
  <<"r15", "r14", "r13", "r12", "r11", "r10", "r9", "r8", "rsi", "rdi", "rbp",
    "rbx", "rdx", "rcx", "rax">>

Restored ==
  <<"r15", "r14", "r13", "r12", "r11", "r10", "r9", "r8", "rdi", "rsi", "rbp",
    "rbx", "rdx", "rcx", "rax">>

Reg == {Saved[i] : i \in 1 .. Len(Saved)}

\* The calling convention of the functions that the assembly calls.
CalleeSaved == {"rbx", "rbp", "r12", "r13", "r14", "r15"}
Scratch     == Reg \ CalleeSaved

Processes == {"main", "init"}
Other(p)  == CHOOSE q \in Processes : q # p

\* The stacks: of kernel_main, of init, the TSS's for entry from ring 3, and
\* the low end of init's stack where its first frame is.
Stacks   == {"main", "init", "tss", "first"}
MaxDepth == 34

Junk            == <<"junk">>
Own(p, r)       == <<"own", p, r>>
Rip(prog, pc)   == <<"rip", prog, pc>>
Rsp(s, depth)   == <<"rsp", s, depth>>
Flags(on)       == <<"flags", on>>
Selector(i, rpl) == <<"selector", i, rpl>>

-----------------------------------------------------------------------------
(* Segments.  A TSS descriptor takes two entries.                           *)

GDT_CodeFirst == <<"kernel_code", "kernel_data", "tss", "tss", "user_code", "user_data">>

GDT == <<"kernel_code", "kernel_data", "tss", "tss", "user_data", "user_code">>

IndexOf(descriptor) == CHOOSE i \in 1 .. Len(GDT) : GDT[i] = descriptor

KernelCode == Selector(IndexOf("kernel_code"), 0)
KernelData == Selector(IndexOf("kernel_data"), 0)

\* sysretq adds to the base that Star::write derives from the code selector;
\* Star::write has checked that the data selector fits.
SysretCode == Selector(IndexOf("user_code"), 3)
SysretData == Selector(IndexOf("user_code") - 1, 3)

-----------------------------------------------------------------------------
(* The code.                                                                *)

syscall_entry_MovesForward ==
  << <<"push", "rbp">>, <<"push", "r15">>, <<"push", "r14">>, <<"push", "r13">>,
     <<"push", "r12">>, <<"push", "r11">>, <<"push", "rcx">>, <<"push", "r9">>,
     <<"mov", "rdi", "rax">>, <<"mov", "rsi", "rdi">>, <<"mov", "rdx", "rsi">>,
     <<"mov", "rcx", "rdx">>, <<"mov", "r8", "r10">>, <<"mov", "r9", "r8">>,
     <<"call", "syscall_handler">>, <<"pop", "rax">>, <<"pop", "rcx">>,
     <<"pop", "r11">>, <<"pop", "r12">>, <<"pop", "r13">>, <<"pop", "r14">>,
     <<"pop", "r15">>, <<"pop", "rbp">>, <<"sysretq">> >>

syscall_entry_NoCleanup ==
  << <<"push", "rbp">>, <<"push", "r15">>, <<"push", "r14">>, <<"push", "r13">>,
     <<"push", "r12">>, <<"push", "r11">>, <<"push", "rcx">>, <<"push", "r9">>,
     <<"mov", "r9", "r8">>, <<"mov", "r8", "r10">>, <<"mov", "rcx", "rdx">>,
     <<"mov", "rdx", "rsi">>, <<"mov", "rsi", "rdi">>, <<"mov", "rdi", "rax">>,
     <<"call", "syscall_handler">>, <<"pop", "rcx">>, <<"pop", "r11">>,
     <<"pop", "r12">>, <<"pop", "r13">>, <<"pop", "r14">>, <<"pop", "r15">>,
     <<"pop", "rbp">>, <<"sysretq">> >>

syscall_entry ==
  << <<"push", "rbp">>, <<"push", "r15">>, <<"push", "r14">>, <<"push", "r13">>,
     <<"push", "r12">>, <<"push", "r11">>, <<"push", "rcx">>, <<"push", "r9">>,
     <<"mov", "r9", "r8">>, <<"mov", "r8", "r10">>, <<"mov", "rcx", "rdx">>,
     <<"mov", "rdx", "rsi">>, <<"mov", "rsi", "rdi">>, <<"mov", "rdi", "rax">>,
     <<"call", "syscall_handler">>, <<"pop", "rax">>, <<"pop", "rcx">>,
     <<"pop", "r11">>, <<"pop", "r12">>, <<"pop", "r13">>, <<"pop", "r14">>,
     <<"pop", "r15">>, <<"pop", "rbp">>, <<"sysretq">> >>

timer_handler ==
  [i \in 1 .. Len(Saved) |-> <<"push", Saved[i]>>]
    \o << <<"send_eoi">>, <<"mov", "rdi", "rsp">>, <<"schedule">>,
          <<"mov", "rsp", "rax">> >>
    \o [i \in 1 .. Len(Restored) |-> <<"pop", Restored[i]>>]
    \o << <<"iretq">> >>

\* A compiled function: its body, then its return.
syscall_handler == << <<"body">>, <<"ret">> >>

\* init computes and makes system calls; kernel_main has reached its hlt loop.
Code == [syscall_entry |-> syscall_entry, syscall_handler |-> syscall_handler,
         timer_handler |-> timer_handler,
         init |-> << <<"compute">>, <<"syscall">>, <<"jmp">> >>,
         main |-> << <<"hlt">> >>]

Op     == Code[cpu.rip[2]][cpu.rip[3]]
At(op) == Op[1] = op

\* Memory after words are pushed at a stack pointer, and a word of it.
Pushed(sp, words) ==
  [mem EXCEPT ![sp[2]] =
     [d \in 1 .. MaxDepth |->
        IF d \in sp[3] + 1 .. sp[3] + Len(words) THEN words[d - sp[3]] ELSE @[d]]]

\* Memory after n words are popped.  An interrupt may overwrite what is beyond the
\* stack pointer at any time, so it is forgotten at once.
Popped(n) ==
  [mem EXCEPT ![cpu.rsp[2]] =
     [d \in 1 .. MaxDepth |-> IF d > cpu.rsp[3] - n THEN Junk ELSE @[d]]]

Word(k) == mem[cpu.rsp[2]][cpu.rsp[3] - k]

Advance == [cpu EXCEPT !.rip[3] = @ + 1]

-----------------------------------------------------------------------------
\* What add_user_process wants init to start with: the entry point in ring 3 on
\* an empty stack, interrupts enabled; the registers are whatever was there.
FirstContext ==
  [regs |-> [r \in Reg |-> Junk], rsp |-> Rsp("init", 0), rip |-> Rip("init", 1),
   cs |-> Selector(6, 3), ss |-> Selector(5, 3), iflag |-> TRUE]

\* What the CPU pushes for an interrupt and iretq pops.
Frame(c) == <<c.ss, c.rsp, Flags(c.iflag), c.cs, c.rip>>

\* The frame is written 120 bytes, 15 words, above the rsp of the new process.
FirstGap == 15

Init ==
  /\ cpu = [regs |-> [r \in Reg |-> Own("main", r)], rsp |-> Rsp("main", 0),
            rip |-> Rip("main", 1), cs |-> KernelCode, ss |-> KernelData,
            iflag |-> TRUE]
  /\ mem = [s \in Stacks |-> [d \in 1 .. MaxDepth |->
              IF s = "first" /\ d <= 5 THEN Frame(FirstContext)[d] ELSE Junk]]
  /\ rsp = [main |-> Rsp("first", 0), init |-> Rsp("first", 5 + FirstGap)]
  /\ current = "main"
  /\ interrupted = [main |-> cpu, init |-> FirstContext]
  /\ entered = FirstContext

\* The CPU aligns the stack pointer to two words before it pushes the frame,
\* on the TSS's stack if it comes from ring 3.
InterruptRsp ==
  IF cpu.cs[3] = 3 THEN Rsp("tss", 0) ELSE Rsp(cpu.rsp[2], cpu.rsp[3] + (cpu.rsp[3] % 2))

TimerInterrupt ==
  /\ cpu.iflag
  /\ mem' = Pushed(InterruptRsp, Frame(cpu))
  /\ cpu' = [cpu EXCEPT !.rsp = Rsp(InterruptRsp[2], InterruptRsp[3] + 5),
                        !.rip = Rip("timer_handler", 1), !.cs = KernelCode,
                        !.ss = IF cpu.cs[3] = 3 THEN Selector(0, 0) ELSE @,
                        !.iflag = FALSE]
  /\ interrupted' = [interrupted EXCEPT ![current] = cpu]
  /\ UNCHANGED <<rsp, current, entered>>

Iretq ==
  /\ At("iretq")
  /\ cpu' = [cpu EXCEPT !.rip = Word(0), !.cs = Word(1), !.iflag = (Word(2) = Flags(TRUE)),
                        !.rsp = Word(3), !.ss = Word(4)]
  /\ mem' = Popped(5)
  /\ UNCHANGED <<rsp, current, interrupted, entered>>

Push ==
  /\ At("push")
  /\ mem' = Pushed(cpu.rsp, <<cpu.regs[Op[2]]>>)
  /\ cpu' = [Advance EXCEPT !.rsp[3] = @ + 1]
  /\ UNCHANGED <<rsp, current, interrupted, entered>>

Pop ==
  /\ At("pop")
  /\ cpu' = [Advance EXCEPT !.regs[Op[2]] = Word(0), !.rsp[3] = @ - 1]
  /\ mem' = Popped(1)
  /\ UNCHANGED <<rsp, current, interrupted, entered>>

Mov ==
  /\ At("mov")
  /\ \/ /\ Op[2] = "rsp"
        /\ cpu' = [Advance EXCEPT !.rsp = cpu.regs[Op[3]]]
     \/ /\ Op[3] = "rsp"
        /\ cpu' = [Advance EXCEPT !.regs[Op[2]] = cpu.rsp]
     \/ /\ "rsp" \notin {Op[2], Op[3]}
        /\ cpu' = [Advance EXCEPT !.regs[Op[2]] = cpu.regs[Op[3]]]
  /\ UNCHANGED <<mem, rsp, current, interrupted, entered>>

Clobbered(regs) == [r \in Reg |-> IF r \in Scratch THEN Junk ELSE regs[r]]

\* Interrupts are off in timer_handler, so the functions it calls are one step.
SendEoi ==
  /\ At("send_eoi")
  /\ cpu' = [Advance EXCEPT !.regs = Clobbered(@)]
  /\ UNCHANGED <<mem, rsp, current, interrupted, entered>>

\* schedule stores its argument and returns the rsp of the next process.
Schedule ==
  /\ At("schedule")
  /\ rsp' = [rsp EXCEPT ![current] = cpu.regs["rdi"]]
  /\ current' = Other(current)
  /\ cpu' = [Advance EXCEPT !.regs = [Clobbered(@) EXCEPT !["rax"] = rsp'[current']]]
  /\ UNCHANGED <<mem, interrupted, entered>>

Call ==
  /\ At("call")
  /\ mem' = Pushed(cpu.rsp, <<Advance.rip>>)
  /\ cpu' = [cpu EXCEPT !.rsp[3] = @ + 1, !.rip = Rip(Op[2], 1)]
  /\ UNCHANGED <<rsp, current, interrupted, entered>>

\* syscall_handler returns nothing, and owns the stack word of its last argument.
HandlerBody ==
  /\ At("body")
  /\ cpu' = [Advance EXCEPT !.regs = Clobbered(@)]
  /\ \/ UNCHANGED mem
     \/ mem' = [mem EXCEPT ![cpu.rsp[2]][cpu.rsp[3] - 1] = Junk]
  /\ UNCHANGED <<rsp, current, interrupted, entered>>

Ret ==
  /\ At("ret")
  /\ cpu' = [cpu EXCEPT !.rip = Word(0), !.rsp[3] = @ - 1]
  /\ mem' = Popped(1)
  /\ UNCHANGED <<rsp, current, interrupted, entered>>

\* The syscall instruction: no stack switch, and no flag is masked.
Syscall ==
  /\ At("syscall")
  /\ cpu' = [cpu EXCEPT !.regs["rcx"] = Advance.rip, !.regs["r11"] = Flags(cpu.iflag),
                        !.rip = Rip("syscall_entry", 1),
                        !.cs = KernelCode, !.ss = KernelData]
  /\ entered' = cpu
  /\ UNCHANGED <<mem, rsp, current, interrupted>>

Sysretq ==
  /\ At("sysretq")
  /\ cpu' = [cpu EXCEPT !.rip = cpu.regs["rcx"], !.iflag = (cpu.regs["r11"] = Flags(TRUE)),
                        !.cs = SysretCode, !.ss = SysretData]
  /\ UNCHANGED <<mem, rsp, current, interrupted, entered>>

\* init fills its registers and has any number of words on its stack.
Compute ==
  /\ At("compute")
  /\ \E n \in {0, 1} :
       /\ cpu' = [Advance EXCEPT !.regs = [r \in Reg |-> Own("init", r)],
                                 !.rsp = Rsp("init", n)]
       /\ mem' = [mem EXCEPT !["init"][1] = IF n = 1 THEN Own("init", "word") ELSE Junk]
  /\ UNCHANGED <<rsp, current, interrupted, entered>>

Jmp ==
  /\ At("jmp")
  /\ cpu' = [cpu EXCEPT !.rip[3] = 1]
  /\ UNCHANGED <<mem, rsp, current, interrupted, entered>>

Next ==
  \/ TimerInterrupt \/ Iretq \/ Push \/ Pop \/ Mov \/ SendEoi \/ Schedule
  \/ Call \/ HandlerBody \/ Ret \/ Syscall \/ Sysretq \/ Compute \/ Jmp

Spec == Init /\ [][Next]_vars

-----------------------------------------------------------------------------
\* iretq gives a process every register, its stack, flags and segments as they
\* were when it was interrupted, be it in ring 3, in syscall_entry or in the
\* handler; the first time it starts init as add_user_process meant it to.
ResumeStep == Iretq => cpu' = interrupted[current]

ResumesExactly == [][ResumeStep]_vars

\* syscall_handler gets the system call number and all six arguments in the
\* places where its signature expects them.
ArgumentsArrive ==
  cpu.rip = Rip("syscall_handler", 1) =>
    /\ cpu.regs["rdi"] = entered.regs["rax"]
    /\ cpu.regs["rsi"] = entered.regs["rdi"]
    /\ cpu.regs["rdx"] = entered.regs["rsi"]
    /\ cpu.regs["rcx"] = entered.regs["rdx"]
    /\ cpu.regs["r8"]  = entered.regs["r10"]
    /\ cpu.regs["r9"]  = entered.regs["r8"]
    /\ Word(1) = entered.regs["r9"]

\* A system call returns behind the syscall instruction, in ring 3, on the same
\* stack with the same contents, with interrupts as they were and with all
\* registers that a function preserves.
ReturnStep ==
  Sysretq =>
    /\ cpu'.rip = Rip("init", entered.rip[3] + 1)
    /\ cpu'.rsp = entered.rsp
    /\ cpu'.iflag = entered.iflag
    /\ \A r \in CalleeSaved : cpu'.regs[r] = entered.regs[r]
    /\ \A d \in 1 .. entered.rsp[3] : mem["init"][d] = Own("init", "word")

ReturnsToCaller == [][ReturnStep]_vars

\* The constants in add_user_process, the selectors that syscall and sysretq
\* load and the order of the GDT agree: code always runs in a segment made for
\* its privilege level.
SegmentsRight ==
  IF cpu.rip[2] = "init"
  THEN GDT[cpu.cs[2]] = "user_code" /\ GDT[cpu.ss[2]] = "user_data"
  ELSE /\ GDT[cpu.cs[2]] = "kernel_code"
       /\ cpu.ss[2] # 0 => GDT[cpu.ss[2]] = "kernel_data"

\* syscall.rs: "preserve the same registers as linux", that is all but rax, rcx
\* and r11; the clobber lists of mlibc's system call stubs rely on it.
LinuxStep ==
  Sysretq => \A r \in Reg \ {"rax", "rcx", "r11"} : cpu'.regs[r] = entered.regs[r]

PreservesLinuxRegisters == [][LinuxStep]_vars
=============================================================================
