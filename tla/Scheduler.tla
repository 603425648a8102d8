------------------------------ MODULE Scheduler ------------------------------
(***************************************************************************)
(* The process list and the round-robin scheduler of kernel/src/sched.rs,  *)
(* with the part of timer_handler (kernel/src/int.rs) that saves and       *)
(* restores a context and the interrupt stack of kernel/src/gdt.rs.        *)
(*                                                                         *)
(* One CPU.  Every critical section on PROCESS_LIST runs with interrupts   *)
(* disabled, so a function that takes and drops the lock once is one       *)
(* atomic action here; module Kernel breaks them into lock operations.     *)
(* schedule takes it twice when the process is dead: its steps are actions *)
(* of their own.  A process is never removed from the list (TypeOK says    *)
(* so: delete_process gets no further than its lock), so the index of a    *)
(* process, counted from 1, also names its thread and its own stack.       *)
(***************************************************************************)
EXTENDS Integers, Sequences

CONSTANTS
  MaxProcs,   \* bound on the length of PROCESS_LIST
  MaxWork     \* bound on the steps a thread takes (the data in its registers)

ASSUME MaxProcsAssumption == MaxProcs \in Nat \ {0}
ASSUME MaxWorkAssumption  == MaxWork \in Nat

VARIABLES
  proc_list,  \* PROCESS_LIST: status, saved rsp, mapper (Some: user process)
  current,    \* CURRENT_PROCESS + 1
  frame,      \* the register frame last pushed on each stack
  cpu,        \* the context executing now
  at,         \* what the CPU executes: a thread or, interrupts off, the timer's
              \* handler, by the function and the step of it that comes next
  locked,     \* the spinlock of PROCESS_LIST is taken
  preempted   \* history: the context in which each thread was interrupted

vars == <<proc_list, current, frame, cpu, at, locked, preempted>>

ThreadIds == 1 .. MaxProcs

\* rsp values: thread i's own stack is i, the TSS stack for entry from ring 3
\* is shared by all threads, and 0 is the rsp that sched::init stores.
NullRsp  == 0
TssStack == -1
Stacks   == {TssStack} \cup ThreadIds

Status  == {"READY", "RUNNING", "DEAD"}
Process == [status : Status, rsp : {NullRsp} \cup Stacks, mapper : {"None", "Some"}]
Context == [thread : 0 .. MaxProcs, work : 0 .. MaxWork, ring : {0, 3}]

NoContext == [thread |-> 0, work |-> 0, ring |-> 0]
Fresh(i, ring) == [thread |-> i, work |-> 0, ring |-> ring]

TypeOK ==
  /\ proc_list \in Seq(Process)
  /\ Len(proc_list) \in 1 .. MaxProcs
  /\ current \in 1 .. Len(proc_list)
  /\ frame \in [Stacks -> Context]
  /\ cpu \in Context
  /\ at \in {"thread", "schedule", "search", "delete_process"}
  /\ locked \in BOOLEAN
  /\ preempted \in [ThreadIds -> Context]

-----------------------------------------------------------------------------
\* sched::init: kernel_main becomes process 0 and is RUNNING.
Init ==
  /\ proc_list = <<[status |-> "RUNNING", rsp |-> NullRsp, mapper |-> "None"]>>
  /\ current = 1
  /\ frame = [s \in Stacks |-> NoContext]
  /\ cpu = Fresh(1, 0)
  /\ at = "thread"
  /\ locked = FALSE
  /\ preempted = [t \in ThreadIds |-> NoContext]

\* The thread on the CPU computes, changing its registers.
Work ==
  /\ at = "thread"
  /\ cpu.work < MaxWork
  /\ cpu' = [cpu EXCEPT !.work = @ + 1]
  /\ UNCHANGED <<proc_list, current, frame, at, locked, preempted>>

\* A user process enters the kernel with syscall.  It stays on its own stack
\* and interrupts stay enabled: no flag mask is ever written.
Syscall ==
  /\ at = "thread"
  /\ cpu.ring = 3
  /\ cpu' = [cpu EXCEPT !.ring = 0]
  /\ UNCHANGED <<proc_list, current, frame, at, locked, preempted>>

Sysret ==
  /\ at = "thread"
  /\ proc_list[current].mapper = "Some"
  /\ cpu.ring = 0
  /\ cpu' = [cpu EXCEPT !.ring = 3]
  /\ UNCHANGED <<proc_list, current, frame, at, locked, preempted>>

\* Appends a process whose first frame, built by hand on its own stack, makes
\* iretq start it in the given ring.
Spawn(ring) ==
  LET new == Len(proc_list) + 1 IN
  /\ at = "thread" /\ cpu.ring = 0
  /\ ~locked
  /\ new <= MaxProcs
  /\ proc_list' = Append(proc_list,
                    [status |-> "READY", rsp |-> new,
                     mapper |-> IF ring = 3 THEN "Some" ELSE "None"])
  /\ frame' = [frame EXCEPT ![new] = Fresh(new, ring)]
  /\ preempted' = [preempted EXCEPT ![new] = Fresh(new, ring)]
  /\ UNCHANGED <<current, cpu, at, locked>>

AddProcess == Spawn(0)

\* The user stack has a fixed address in the one address space there is, so
\* map_to refuses a second user process and nothing is pushed then.
UserStackMapped == \E i \in 1 .. Len(proc_list) : proc_list[i].mapper = "Some"

AddUserProcess_Remap == Spawn(3)

AddUserProcess ==
  /\ ~UserStackMapped
  /\ Spawn(3)

MarkCurrentAsDead ==
  /\ at = "thread" /\ cpu.ring = 0
  /\ ~locked
  /\ proc_list' = [proc_list EXCEPT ![current].status = "DEAD"]
  /\ UNCHANGED <<current, frame, cpu, at, locked, preempted>>

-----------------------------------------------------------------------------
\* Where the CPU pushes the interrupted context: on privilege_stack_table[0]
\* when it comes from ring 3, else on the stack already in use.
InterruptStack(c) == IF c.ring = 3 THEN TssStack ELSE c.thread

\* timer_handler pushes all registers and hands rsp to schedule.
Tick ==
  /\ at = "thread"
  /\ frame' = [frame EXCEPT ![InterruptStack(cpu)] = cpu]
  /\ preempted' = [preempted EXCEPT ![current] = cpu]
  /\ at' = "schedule"
  /\ UNCHANGED <<proc_list, current, cpu, locked>>

\* The lock of PROCESS_LIST, first in schedule and then in delete_process;
\* until it is free the CPU spins, with interrupts off.
LockProcessList ==
  /\ at \in {"schedule", "delete_process"}
  /\ ~locked
  /\ locked' = TRUE
  /\ at' = IF at = "schedule" THEN "search" ELSE "remove"
  /\ UNCHANGED <<proc_list, current, frame, cpu, preempted>>

\* schedule stores rsp in the current process.
SavedList == [proc_list EXCEPT ![current].rsp = InterruptStack(cpu)]

\* schedule's treatment of the process that was running.
Requeued_KeepRunning(list) == list

Requeued(list) == [list EXCEPT ![current].status = "READY"]

\* m is visited strictly between i and j when the index counts up from i and
\* wraps to the start at the end of the list.
Between(i, j, m) == IF i < j THEN i < m /\ m < j ELSE i < m \/ m < j

\* The loop of schedule: the first READY process after i, i itself last.
FirstReadyAfter_FromStart(list, i, j) ==
  /\ list[j].status = "READY"
  /\ \A m \in 1 .. Len(list) : m < j => list[m].status # "READY"

FirstReadyAfter_Backwards(list, i, j) ==
  /\ list[j].status = "READY"
  /\ \A m \in 1 .. Len(list) : Between(j, i, m) => list[m].status # "READY"

FirstReadyAfter(list, i, j) ==
  /\ list[j].status = "READY"
  /\ \A m \in 1 .. Len(list) : Between(i, j, m) => list[m].status # "READY"

IsDead(p) == p.status = "DEAD"

\* The rest of schedule, which drops its guard, and of timer_handler.
SwitchToNext ==
  /\ at = "search"
  /\ ~IsDead(proc_list[current])
  /\ \E j \in 1 .. Len(proc_list) :
       /\ FirstReadyAfter(Requeued(SavedList), current, j)
       /\ current' = j
       /\ proc_list' = [Requeued(SavedList) EXCEPT ![j].status = "RUNNING"]
       /\ cpu' = frame[SavedList[j].rsp]
  /\ at' = "thread"
  /\ locked' = FALSE
  /\ UNCHANGED <<frame, preempted>>

\* schedule calls delete_process while its own guard is alive.
CallDeleteProcess ==
  /\ at = "search"
  /\ IsDead(proc_list[current])
  /\ proc_list' = SavedList
  /\ at' = "delete_process"
  /\ UNCHANGED <<current, frame, cpu, locked, preempted>>

Schedule == LockProcessList \/ SwitchToNext \/ CallDeleteProcess

Next ==
  \/ Work
  \/ Syscall
  \/ Sysret
  \/ AddProcess
  \/ AddUserProcess
  \/ MarkCurrentAsDead
  \/ Tick
  \/ Schedule

Spec == Init /\ [][Next]_vars

\* The periodic LAPIC timer keeps interrupting as long as interrupts are on, and
\* the CPU executes its handler.
FairSpec == Spec /\ WF_vars(Tick) /\ WF_vars(Schedule)

-----------------------------------------------------------------------------
\* The CPU executes the process CURRENT_PROCESS names; that process alone is
\* not READY.  So the search in schedule always finds a process: at worst the
\* one that was interrupted.
OneRunning ==
  /\ cpu.thread = current
  /\ proc_list[current].status \in {"RUNNING", "DEAD"}
  /\ \A i \in 1 .. Len(proc_list) : i # current => proc_list[i].status = "READY"

\* Every process that waits finds, through its saved rsp, exactly the context
\* in which it was interrupted, although all entries from ring 3 push on the
\* one stack of the TSS.
ContextIntact ==
  \A i \in 1 .. Len(proc_list) : i # current =>
     /\ frame[proc_list[i].rsp] = preempted[i]
     /\ preempted[i].thread = i

\* schedule moves to the next slot of the list, wrapping at its end: no
\* process is skipped and none is preferred.
RoundRobinStep ==
  current' = IF current = Len(proc_list) THEN 1 ELSE current + 1

RoundRobin == [][RoundRobinStep]_current

\* A process that schedule resumes continues from where it was interrupted.
ResumeStep == current' # current => cpu' = preempted[current']

ResumesWhereInterrupted == [][ResumeStep]_vars

\* Every process that is ready gets the CPU, unless some process has been
\* marked dead: then schedule never gets past delete_process.
EveryReadyRuns ==
  \A i \in ThreadIds :
    (i <= Len(proc_list) /\ proc_list[i].status = "READY")
      ~> (current = i \/ \E j \in 1 .. Len(proc_list) : IsDead(proc_list[j]))
=============================================================================
