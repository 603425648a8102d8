--------------------------- MODULE SchedulerProofs ---------------------------
(***************************************************************************)
(* TLAPS proofs about the two modules that schedule: Scheduler, here in    *)
(* the first part, and Kernel, here K, in the second.                      *)
(*                                                                         *)
(* About Scheduler, for every length of the process list and every amount  *)
(* of work: type correctness, that exactly the current process runs, that  *)
(* waiting contexts are intact, and that the scheduler is round-robin.     *)
(*                                                                         *)
(* About Kernel, for every capacity of the pipe and set of pixel formats:  *)
(* that the locks of the interrupt handlers are only held with interrupts  *)
(* off, that the timer stops only after a LAPIC error, and that the kernel *)
(* stops for good only in the ways it is known to.                         *)
(***************************************************************************)
EXTENDS Scheduler, KernelCode, TLAPS

USE MaxProcsAssumption, MaxWorkAssumption

\* A waiting process was saved either on its own stack or, if it is a user
\* process, on the TSS stack.
SavedOnOwnOrTss ==
  \A i \in 1 .. Len(proc_list) : i # current =>
     /\ proc_list[i].rsp \in {i, TssStack}
     /\ proc_list[i].rsp = TssStack => proc_list[i].mapper = "Some"

\* Why the shared TSS stack holds one context at a time.
AtMostOneUser ==
  \A i, j \in 1 .. Len(proc_list) :
     proc_list[i].mapper = "Some" /\ proc_list[j].mapper = "Some" => i = j

\* Only user processes are ever in ring 3.
RingThreeIsUser ==
  /\ cpu.ring = 3 => proc_list[current].mapper = "Some"
  /\ \A i \in 1 .. Len(proc_list) :
       i # current /\ preempted[i].ring = 3 => proc_list[i].mapper = "Some"

\* While timer_handler runs, the context it interrupted is on the stack it
\* pushed it on.
InterruptedSaved ==
  at # "thread" => frame[InterruptStack(cpu)] = cpu /\ preempted[current] = cpu

\* schedule holds the lock of the process list from its first step on, also in
\* delete_process, which therefore never gets to remove a process.
LockedInSchedule == locked <=> at \in {"search", "delete_process"}

\* The inductive invariant.
IInv ==
  /\ TypeOK
  /\ OneRunning
  /\ SavedOnOwnOrTss
  /\ AtMostOneUser
  /\ RingThreeIsUser
  /\ ContextIntact
  /\ InterruptedSaved
  /\ LockedInSchedule

-----------------------------------------------------------------------------
\* The initial state, with kernel_main as the only process, satisfies IInv.
LEMMA InitIInv == Init => IInv
<1> SUFFICES ASSUME Init PROVE IInv
  OBVIOUS
<1>1. Len(proc_list) = 1 /\ proc_list \in Seq(Process)
  BY DEF Init, Process, Status, Stacks, NullRsp
<1>2. TypeOK
  <2>1. cpu \in Context /\ NoContext \in Context
    BY DEF Init, Fresh, NoContext, Context
  <2>2. frame \in [Stacks -> Context] /\ preempted \in [ThreadIds -> Context]
    BY <2>1 DEF Init
  <2>3. Len(proc_list) \in 1 .. MaxProcs /\ current \in 1 .. Len(proc_list)
    BY <1>1 DEF Init
  <2>4. QED
    BY <1>1, <2>1, <2>2, <2>3 DEF Init, TypeOK
<1>3. OneRunning /\ InterruptedSaved /\ LockedInSchedule
  BY <1>1 DEF Init, OneRunning, InterruptedSaved, LockedInSchedule, Fresh
<1>4. SavedOnOwnOrTss /\ AtMostOneUser /\ RingThreeIsUser /\ ContextIntact
  BY <1>1 DEF Init, SavedOnOwnOrTss, AtMostOneUser, RingThreeIsUser,
     ContextIntact, Fresh
<1>5. QED
  BY <1>2, <1>3, <1>4 DEF IInv

\* Computing, entering and leaving a system call change only cpu, and keep
\* its thread.
LEMMA CpuOnlyIInv ==
  ASSUME IInv, Work \/ Syscall \/ Sysret
  PROVE  IInv'
<1>1. /\ cpu' \in Context
      /\ cpu'.thread = cpu.thread
      /\ cpu'.ring = 3 => proc_list[current].mapper = "Some"
  <2>1. cpu \in Context /\ (cpu.ring = 3 => proc_list[current].mapper = "Some")
    BY DEF IInv, TypeOK, RingThreeIsUser
  <2>2. CASE Work
    BY <2>1, <2>2 DEF Work, Context
  <2>3. CASE Syscall
    BY <2>1, <2>3 DEF Syscall, Context
  <2>4. CASE Sysret
    BY <2>1, <2>4 DEF Sysret, Context
  <2>5. QED
    BY <2>2, <2>3, <2>4
<1>2. at = "thread" /\ UNCHANGED <<proc_list, current, frame, at, locked, preempted>>
  BY DEF Work, Syscall, Sysret
<1>3. QED
  BY <1>1, <1>2 DEF IInv, TypeOK, OneRunning, SavedOnOwnOrTss, AtMostOneUser,
     RingThreeIsUser, ContextIntact, InterruptedSaved, LockedInSchedule

\* Adding a process keeps IInv as long as it is not a second user process.
LEMMA SpawnIInv ==
  ASSUME IInv, NEW ring \in {0, 3}, Spawn(ring),
         ring = 3 => ~UserStackMapped
  PROVE  IInv'
<1> DEFINE new == Len(proc_list) + 1
           rec == [status |-> "READY", rsp |-> new,
                   mapper |-> IF ring = 3 THEN "Some" ELSE "None"]
<1>1. /\ new \in ThreadIds /\ new # TssStack
      /\ proc_list' = Append(proc_list, rec)
      /\ frame' = [frame EXCEPT ![new] = Fresh(new, ring)]
      /\ preempted' = [preempted EXCEPT ![new] = Fresh(new, ring)]
      /\ at = "thread" /\ UNCHANGED <<current, cpu, at, locked>>
  BY DEF Spawn, IInv, TypeOK, ThreadIds, TssStack
<1>2. rec \in Process /\ Fresh(new, ring) \in Context
  BY <1>1 DEF Process, Status, Stacks, Context, Fresh, ThreadIds
<1>3. /\ proc_list' \in Seq(Process)
      /\ Len(proc_list') = new
      /\ proc_list'[new] = rec
      /\ \A i \in 1 .. Len(proc_list) : proc_list'[i] = proc_list[i]
  BY <1>1, <1>2 DEF IInv, TypeOK
<1>4. TypeOK'
  BY <1>1, <1>2, <1>3 DEF IInv, TypeOK, Stacks, ThreadIds
<1>5. /\ OneRunning' /\ InterruptedSaved' /\ LockedInSchedule' /\ SavedOnOwnOrTss'
  BY <1>1, <1>3 DEF IInv, TypeOK, OneRunning, InterruptedSaved, LockedInSchedule,
     SavedOnOwnOrTss
<1>6. AtMostOneUser'
  BY <1>1, <1>3 DEF IInv, TypeOK, AtMostOneUser, UserStackMapped
<1>7. /\ frame'[new] = Fresh(new, ring)
      /\ preempted'[new] = Fresh(new, ring)
      /\ \A s \in Stacks : s # new => frame'[s] = frame[s]
      /\ \A i \in 1 .. Len(proc_list) : preempted'[i] = preempted[i]
  BY <1>1 DEF IInv, TypeOK, Stacks, ThreadIds
<1>8. RingThreeIsUser'
  BY <1>1, <1>3, <1>7 DEF IInv, TypeOK, RingThreeIsUser, Fresh
<1>9. ContextIntact'
  BY <1>1, <1>3, <1>7 DEF IInv, TypeOK, ContextIntact, SavedOnOwnOrTss,
     Fresh, Stacks, ThreadIds, TssStack
<1>10. QED
  BY <1>4, <1>5, <1>6, <1>8, <1>9 DEF IInv

\* Marking the current process dead leaves every waiting process alone.
LEMMA MarkDeadIInv ==
  ASSUME IInv, MarkCurrentAsDead
  PROVE  IInv'
<1> DEFINE p == [proc_list[current] EXCEPT !.status = "DEAD"]
<1>1. proc_list[current] \in Process
  BY DEF IInv, TypeOK
<1>2. p \in Process
  BY <1>1 DEF Process, Status
<1>3. proc_list' = [proc_list EXCEPT ![current] = p]
  BY DEF MarkCurrentAsDead
<1>4. /\ proc_list' \in Seq(Process)
      /\ Len(proc_list') = Len(proc_list)
      /\ proc_list'[current].status = "DEAD"
      /\ proc_list'[current].mapper = proc_list[current].mapper
      /\ \A i \in 1 .. Len(proc_list) :
           i # current => proc_list'[i] = proc_list[i]
  BY <1>1, <1>2, <1>3 DEF IInv, TypeOK, Process
<1>5. QED
  BY <1>4 DEF MarkCurrentAsDead, IInv, TypeOK, OneRunning, SavedOnOwnOrTss, AtMostOneUser,
     RingThreeIsUser, ContextIntact, InterruptedSaved, LockedInSchedule

\* A timer interrupt overwrites no waiting context, because only the current
\* process can be the user process whose frame the TSS stack holds.
LEMMA TickIInv ==
  ASSUME IInv, Tick
  PROVE  IInv'
<1> DEFINE s == InterruptStack(cpu)
<1>1. /\ frame' = [frame EXCEPT ![s] = cpu]
      /\ preempted' = [preempted EXCEPT ![current] = cpu]
      /\ at = "thread" /\ at' = "schedule" /\ UNCHANGED <<proc_list, current, cpu, locked>>
  BY DEF Tick
<1>2. /\ current \in 1 .. Len(proc_list) /\ Len(proc_list) \in 1 .. MaxProcs
      /\ frame \in [Stacks -> Context] /\ preempted \in [ThreadIds -> Context]
      /\ cpu \in Context /\ cpu.thread = current
      /\ cpu.ring = 3 => proc_list[current].mapper = "Some"
  BY DEF IInv, TypeOK, OneRunning, RingThreeIsUser
<1>3. /\ s \in {current, TssStack} /\ s \in Stacks
      /\ s = TssStack => proc_list[current].mapper = "Some"
  BY <1>2 DEF InterruptStack, TssStack, Stacks, ThreadIds
<1>4. /\ frame' \in [Stacks -> Context] /\ preempted' \in [ThreadIds -> Context]
      /\ frame'[s] = cpu /\ preempted'[current] = cpu
      /\ \A r \in Stacks : r # s => frame'[r] = frame[r]
      /\ \A i \in 1 .. Len(proc_list) : i # current => preempted'[i] = preempted[i]
  BY <1>1, <1>2, <1>3 DEF ThreadIds
<1>5. ASSUME NEW i \in 1 .. Len(proc_list), i # current
      PROVE  proc_list[i].rsp \in Stacks /\ proc_list[i].rsp # s
  <2>1. /\ proc_list[i].rsp \in {i, TssStack}
        /\ proc_list[i].rsp = TssStack => proc_list[i].mapper = "Some"
    BY <1>5 DEF IInv, SavedOnOwnOrTss
  <2>2. proc_list[i].rsp # s
    BY <1>2, <1>3, <1>5, <2>1 DEF IInv, AtMostOneUser, TssStack
  <2>3. QED
    BY <1>2, <2>1, <2>2 DEF Stacks, ThreadIds
<1>6. TypeOK'
  BY <1>1, <1>4 DEF IInv, TypeOK
<1>7. OneRunning' /\ SavedOnOwnOrTss' /\ AtMostOneUser' /\ LockedInSchedule'
  BY <1>1 DEF IInv, OneRunning, SavedOnOwnOrTss, AtMostOneUser, LockedInSchedule
<1>8. RingThreeIsUser'
  BY <1>1, <1>4 DEF IInv, RingThreeIsUser
<1>9. ContextIntact'
  BY <1>1, <1>4, <1>5 DEF IInv, ContextIntact
<1>10. InterruptedSaved'
  BY <1>1, <1>4 DEF InterruptedSaved, InterruptStack
<1>11. QED
  BY <1>6, <1>7, <1>8, <1>9, <1>10 DEF IInv

\* Taking the lock changes nothing else; only schedule ever gets it.
LEMMA LockIInv ==
  ASSUME IInv, LockProcessList
  PROVE  IInv'
<1>1. /\ at \in {"schedule", "delete_process"} /\ ~locked /\ locked' = TRUE
      /\ at' = IF at = "schedule" THEN "search" ELSE "remove"
      /\ UNCHANGED <<proc_list, current, frame, cpu, preempted>>
  BY DEF LockProcessList
<1>2. at = "schedule" /\ at' = "search"
  BY <1>1 DEF IInv, LockedInSchedule
<1>3. QED
  BY <1>1, <1>2 DEF IInv, TypeOK, OneRunning, SavedOnOwnOrTss, AtMostOneUser,
     RingThreeIsUser, ContextIntact, InterruptedSaved, LockedInSchedule, InterruptStack

\* What holds once schedule has stored rsp: every process, the interrupted one
\* included, finds its context through the list.
LEMMA SaveIntact ==
  ASSUME IInv, at # "thread"
  PROVE  /\ SavedList \in Seq(Process)
         /\ Len(SavedList) = Len(proc_list)
         /\ \A i \in 1 .. Len(proc_list) :
              /\ SavedList[i].status = proc_list[i].status
              /\ SavedList[i].mapper = proc_list[i].mapper
              /\ SavedList[i].rsp \in {i, TssStack}
              /\ SavedList[i].rsp = TssStack => proc_list[i].mapper = "Some"
              /\ frame[SavedList[i].rsp] = preempted[i]
              /\ preempted[i].thread = i
              /\ preempted[i].ring = 3 => proc_list[i].mapper = "Some"
<1> DEFINE s == InterruptStack(cpu)
           p == [proc_list[current] EXCEPT !.rsp = s]
<1>1. /\ proc_list \in Seq(Process) /\ proc_list[current] \in Process
      /\ current \in 1 .. Len(proc_list) /\ Len(proc_list) \in 1 .. MaxProcs
      /\ cpu \in Context /\ cpu.thread = current
      /\ cpu.ring = 3 => proc_list[current].mapper = "Some"
      /\ frame[s] = cpu /\ preempted[current] = cpu
  BY DEF IInv, TypeOK, OneRunning, RingThreeIsUser, InterruptedSaved
<1>2. /\ s \in {current, TssStack} /\ s \in Stacks
      /\ s = TssStack => proc_list[current].mapper = "Some"
  BY <1>1 DEF InterruptStack, TssStack, Stacks, ThreadIds
<1>3. p \in Process
  BY <1>1, <1>2 DEF Process
<1>4. SavedList = [proc_list EXCEPT ![current] = p]
  BY DEF SavedList
<1>5. /\ SavedList \in Seq(Process)
      /\ Len(SavedList) = Len(proc_list)
      /\ SavedList[current] = p
      /\ \A i \in 1 .. Len(proc_list) :
           i # current => SavedList[i] = proc_list[i]
  BY <1>1, <1>3, <1>4
<1>6. p.rsp = s /\ p.status = proc_list[current].status
                /\ p.mapper = proc_list[current].mapper
  BY <1>1 DEF Process
<1>7. ASSUME NEW i \in 1 .. Len(proc_list)
      PROVE  /\ SavedList[i].status = proc_list[i].status
             /\ SavedList[i].mapper = proc_list[i].mapper
             /\ SavedList[i].rsp \in {i, TssStack}
             /\ SavedList[i].rsp = TssStack => proc_list[i].mapper = "Some"
             /\ frame[SavedList[i].rsp] = preempted[i]
             /\ preempted[i].thread = i
             /\ preempted[i].ring = 3 => proc_list[i].mapper = "Some"
  <2>1. CASE i = current
    BY <1>1, <1>2, <1>5, <1>6, <2>1
  <2>2. CASE i # current
    BY <1>5, <2>2 DEF IInv, SavedOnOwnOrTss, ContextIntact, RingThreeIsUser
  <2>3. QED
    BY <2>1, <2>2
<1>8. QED
  BY <1>5, <1>7

\* schedule picks the next slot of the list: every process but the current
\* one is READY, so the first candidate is taken, and the current process
\* itself only if it is alone.
LEMMA NextSlot ==
  ASSUME IInv, at # "thread",
         NEW j \in 1 .. Len(proc_list),
         FirstReadyAfter(Requeued(SavedList), current, j)
  PROVE  j = IF current = Len(proc_list) THEN 1 ELSE current + 1
<1> DEFINE R == Requeued(SavedList)
           p == [SavedList[current] EXCEPT !.status = "READY"]
<1>1. /\ SavedList \in Seq(Process)
      /\ Len(SavedList) = Len(proc_list)
      /\ current \in 1 .. Len(proc_list)
      /\ \A i \in 1 .. Len(proc_list) : i # current => SavedList[i].status = "READY"
  BY SaveIntact DEF IInv, TypeOK, OneRunning
<1>2. R = [SavedList EXCEPT ![current] = p]
  BY DEF Requeued
<1>3. p.status = "READY"
  BY <1>1 DEF Process
<1>4. Len(R) = Len(proc_list) /\ \A i \in 1 .. Len(proc_list) : R[i].status = "READY"
  BY <1>1, <1>2, <1>3
<1>5. \A m \in 1 .. Len(proc_list) : ~Between(current, j, m)
  BY <1>4 DEF FirstReadyAfter
<1>6. CASE current = Len(proc_list)
  BY <1>1, <1>5, <1>6 DEF Between
<1>7. CASE current # Len(proc_list)
  <2>1. current + 1 \in 1 .. Len(proc_list)
    BY <1>1, <1>7
  <2>2. QED
    BY <1>1, <1>5, <1>7, <2>1 DEF Between
<1>8. QED
  BY <1>6, <1>7

\* What schedule does after it has the lock keeps IInv.
LEMMA ScheduleIInv ==
  ASSUME IInv, SwitchToNext \/ CallDeleteProcess
  PROVE  IInv'
<1>1. at = "search" /\ locked /\ UNCHANGED <<frame, preempted>>
  BY DEF SwitchToNext, CallDeleteProcess, IInv, LockedInSchedule
<1> DEFINE n == Len(proc_list)
           Intact(i) == /\ SavedList[i].status = proc_list[i].status
                        /\ SavedList[i].mapper = proc_list[i].mapper
                        /\ SavedList[i].rsp \in {i, TssStack}
                        /\ SavedList[i].rsp = TssStack
                              => proc_list[i].mapper = "Some"
                        /\ frame[SavedList[i].rsp] = preempted[i]
                        /\ preempted[i].thread = i
                        /\ preempted[i].ring = 3
                              => proc_list[i].mapper = "Some"
<1>2. /\ frame \in [Stacks -> Context]
      /\ preempted \in [ThreadIds -> Context]
      /\ SavedList \in Seq(Process)
      /\ Len(SavedList) = n
      /\ \A i \in 1 .. n : Intact(i)
  BY <1>1, SaveIntact DEF IInv, TypeOK
<1>3. n \in 1 .. MaxProcs /\ current \in 1 .. n
  BY DEF IInv, TypeOK
<1>4. CASE CallDeleteProcess
  <2>1. /\ proc_list' = SavedList /\ at' = "delete_process"
        /\ UNCHANGED <<current, cpu, locked>>
    BY <1>4 DEF CallDeleteProcess
  <2>2. TypeOK'
    BY <1>1, <1>2, <1>3, <2>1 DEF IInv, TypeOK
  <2>3. OneRunning' /\ InterruptedSaved' /\ LockedInSchedule'
    BY <1>1, <1>2, <1>3, <2>1 DEF IInv, OneRunning, InterruptedSaved, LockedInSchedule,
       InterruptStack
  <2>4. SavedOnOwnOrTss' /\ AtMostOneUser' /\ RingThreeIsUser'
    <3>1. SavedOnOwnOrTss'
      BY <1>2, <2>1 DEF SavedOnOwnOrTss
    <3>2. AtMostOneUser'
      BY <1>2, <2>1 DEF IInv, AtMostOneUser
    <3>3. RingThreeIsUser'
      BY <1>1, <1>2, <1>3, <2>1 DEF IInv, RingThreeIsUser
    <3>4. QED
      BY <3>1, <3>2, <3>3
  <2>5. ContextIntact'
    BY <1>1, <1>2, <1>3, <2>1 DEF ContextIntact
  <2>6. QED
    BY <2>2, <2>3, <2>4, <2>5 DEF IInv
<1>5. CASE SwitchToNext
  <2>1. PICK j \in 1 .. n :
          /\ current' = j
          /\ proc_list' = [Requeued(SavedList) EXCEPT ![j].status = "RUNNING"]
          /\ cpu' = frame[SavedList[j].rsp]
          /\ at' = "thread" /\ locked' = FALSE
    BY <1>5 DEF SwitchToNext
  <2> DEFINE p == [SavedList[current] EXCEPT !.status = "READY"]
             R == [SavedList EXCEPT ![current] = p]
             q == [R[j] EXCEPT !.status = "RUNNING"]
  <2>2. SavedList[current] \in Process /\ p \in Process
    <3>1. SavedList[current] \in Process
      BY <1>2, <1>3
    <3>2. QED
      BY <3>1 DEF Process, Status
  <2>3. /\ R \in Seq(Process) /\ Len(R) = n
        /\ R[current] = p
        /\ \A i \in 1 .. n : i # current => R[i] = SavedList[i]
    BY <1>2, <1>3, <2>2
  <2>4. \A i \in 1 .. n : /\ R[i].rsp = SavedList[i].rsp
                          /\ R[i].mapper = proc_list[i].mapper
                          /\ R[i].status = "READY"
    <3>1. /\ p.rsp = SavedList[current].rsp
          /\ p.mapper = SavedList[current].mapper
          /\ p.status = "READY"
      BY <2>2 DEF Process
    <3>2. QED
      BY <1>2, <1>3, <2>3, <3>1 DEF IInv, OneRunning
  <2>5. proc_list' = [R EXCEPT ![j] = q]
    BY <2>1 DEF Requeued
  <2> HIDE DEF R
  <2>6. R[j] \in Process /\ q \in Process
    <3>1. R[j] \in Process
      BY <2>3
    <3>2. QED
      BY <3>1 DEF Process, Status
  <2>7. /\ proc_list' \in Seq(Process) /\ Len(proc_list') = n
        /\ proc_list'[j] = q
        /\ \A i \in 1 .. n : i # j => proc_list'[i] = R[i]
    BY <2>3, <2>5, <2>6
  <2>8. /\ proc_list'[j].status = "RUNNING"
        /\ \A i \in 1 .. n : /\ proc_list'[i].rsp = SavedList[i].rsp
                             /\ proc_list'[i].mapper = proc_list[i].mapper
                             /\ i # j => proc_list'[i].status = "READY"
    <3>1. q.status = "RUNNING" /\ q.rsp = R[j].rsp /\ q.mapper = R[j].mapper
      BY <2>6 DEF Process
    <3>2. proc_list'[j].status = "RUNNING"
      BY <2>7, <3>1
    <3>3. ASSUME NEW i \in 1 .. n
          PROVE  /\ proc_list'[i].rsp = SavedList[i].rsp
                 /\ proc_list'[i].mapper = proc_list[i].mapper
                 /\ i # j => proc_list'[i].status = "READY"
      <4>1. /\ proc_list'[i].rsp = R[i].rsp /\ proc_list'[i].mapper = R[i].mapper
            /\ i # j => proc_list'[i].status = R[i].status
        BY <2>7, <3>1
      <4>2. QED
        BY <2>4, <4>1
    <3>4. QED
      BY <3>2, <3>3
  <2>9. cpu' = preempted[j]
    BY <1>2, <2>1
  <2>10. cpu' \in Context
    BY <1>2, <1>3, <2>9 DEF ThreadIds
  <2>11. TypeOK'
    BY <1>1, <1>2, <1>3, <2>1, <2>7, <2>10 DEF TypeOK
  <2>12. OneRunning' /\ InterruptedSaved' /\ LockedInSchedule'
    BY <1>2, <2>1, <2>7, <2>8, <2>9 DEF OneRunning, InterruptedSaved, LockedInSchedule
  <2>13. SavedOnOwnOrTss' /\ AtMostOneUser'
    <3>1. SavedOnOwnOrTss'
      <4> SUFFICES ASSUME NEW i \in 1 .. n
                   PROVE  /\ proc_list'[i].rsp \in {i, TssStack}
                          /\ proc_list'[i].rsp = TssStack
                               => proc_list'[i].mapper = "Some"
        BY <2>7 DEF SavedOnOwnOrTss
      <4>1. Intact(i)
        BY <1>2
      <4>2. QED
        BY <2>8, <4>1
    <3>2. AtMostOneUser'
      BY <2>7, <2>8 DEF IInv, AtMostOneUser
    <3>3. QED
      BY <3>1, <3>2
  <2>14. RingThreeIsUser'
    <3>1. ASSUME NEW i \in 1 .. n, preempted[i].ring = 3
          PROVE  proc_list'[i].mapper = "Some"
      <4>1. Intact(i)
        BY <1>2
      <4>2. QED
        BY <2>8, <3>1, <4>1
    <3>2. QED
      BY <1>1, <2>1, <2>7, <2>9, <3>1 DEF RingThreeIsUser
  <2>15. ContextIntact'
    BY <1>1, <1>2, <2>1, <2>7, <2>8 DEF ContextIntact
  <2>16. QED
    BY <2>11, <2>12, <2>13, <2>14, <2>15 DEF IInv
<1>6. QED
  BY <1>4, <1>5

\* Every step of the scheduler keeps IInv.
LEMMA NextIInv == IInv /\ [Next]_vars => IInv'
<1> SUFFICES ASSUME IInv, [Next]_vars PROVE IInv'
  OBVIOUS
<1>1. CASE Work \/ Syscall \/ Sysret
  BY <1>1, CpuOnlyIInv
<1>2. CASE AddProcess
  BY <1>2, SpawnIInv DEF AddProcess
<1>3. CASE AddUserProcess
  BY <1>3, SpawnIInv DEF AddUserProcess
<1>4. CASE MarkCurrentAsDead
  BY <1>4, MarkDeadIInv
<1>5. CASE Tick
  BY <1>5, TickIInv
<1>6. CASE LockProcessList
  BY <1>6, LockIInv
<1>7. CASE SwitchToNext \/ CallDeleteProcess
  BY <1>7, ScheduleIInv
<1>8. CASE UNCHANGED vars
  BY <1>8 DEF vars, IInv, TypeOK, OneRunning, SavedOnOwnOrTss, AtMostOneUser, InterruptStack,
     RingThreeIsUser, ContextIntact, InterruptedSaved, LockedInSchedule
<1>9. QED
  BY <1>1, <1>2, <1>3, <1>4, <1>5, <1>6, <1>7, <1>8 DEF Next, Schedule

\* IInv is an invariant of the scheduler.
THEOREM Invariance == Spec => []IInv
  BY InitIInv, NextIInv, PTL DEF Spec

\* The state of the scheduler always has its type.
THEOREM TypeCorrect == Spec => []TypeOK
<1>1. IInv => TypeOK
  BY DEF IInv
<1>2. QED
  BY <1>1, Invariance, PTL

\* The CPU always executes the current process, and all others are READY.
THEOREM OneRunningHolds == Spec => []OneRunning
<1>1. IInv => OneRunning
  BY DEF IInv
<1>2. QED
  BY <1>1, Invariance, PTL

\* No waiting process ever loses the context timer_handler saved for it.
THEOREM ContextsSafe == Spec => []ContextIntact
<1>1. IInv => ContextIntact
  BY DEF IInv
<1>2. QED
  BY <1>1, Invariance, PTL

\* schedule visits the slots of PROCESS_LIST in order, skipping none.
THEOREM RoundRobinOrder == Spec => RoundRobin
<1>1. IInv /\ [Next]_vars => [RoundRobinStep]_current
  <2> SUFFICES ASSUME IInv, [Next]_vars, current' # current
               PROVE  RoundRobinStep
    BY DEF RoundRobinStep
  <2>1. SwitchToNext /\ at # "thread"
    BY DEF Next, vars, Work, Syscall, Sysret, AddProcess, AddUserProcess, Spawn,
       MarkCurrentAsDead, Tick, Schedule, LockProcessList, SwitchToNext, CallDeleteProcess
  <2>2. PICK j \in 1 .. Len(proc_list) :
          /\ FirstReadyAfter(Requeued(SavedList), current, j)
          /\ current' = j
    BY <2>1 DEF SwitchToNext
  <2>3. QED
    BY <2>1, <2>2, NextSlot DEF RoundRobinStep
<1>2. QED
  BY <1>1, Invariance, PTL DEF Spec, RoundRobin

\* A process resumed by schedule has the context it was interrupted in.
THEOREM ResumeExact == Spec => ResumesWhereInterrupted
<1>1. IInv /\ [Next]_vars => [ResumeStep]_vars
  <2> SUFFICES ASSUME IInv, [Next]_vars, current' # current
               PROVE  cpu' = preempted[current']
    BY DEF ResumeStep
  <2>1. SwitchToNext /\ at # "thread"
    BY DEF Next, vars, Work, Syscall, Sysret, AddProcess, AddUserProcess, Spawn,
       MarkCurrentAsDead, Tick, Schedule, LockProcessList, SwitchToNext, CallDeleteProcess
  <2>2. PICK j \in 1 .. Len(proc_list) :
          current' = j /\ cpu' = frame[SavedList[j].rsp]
    BY <2>1 DEF SwitchToNext
  <2>3. QED
    BY <2>1, <2>2, SaveIntact
<1>2. QED
  BY <1>1, Invariance, PTL DEF Spec, ResumesWhereInterrupted

-----------------------------------------------------------------------------
(***************************************************************************)
(* Kernel.  None of the three invariants is inductive: a step of one       *)
(* thread can only be judged by where all activations of all stacks are.   *)
(* Two tables say of each point of the code what should be true there: On, *)
(* that interrupts are enabled, and Holds, which locks are taken.  The     *)
(* lemmas Code_... show that each operation of each function takes the     *)
(* tables from one point to the next.  The inductive invariant says that   *)
(* flag and locks agree with the tables at the points on the stacks, and   *)
(* describes the stacks that calls, returns and panics can produce.        *)
(***************************************************************************)
K == INSTANCE Kernel   \* its constants and variables are those of KernelCode

\* The functions of Kernel's Code, and three kinds of them.
Progs == {"kernel_main", "kernel_main_no_ramdisk", "user", "timer_handler",
          "keyboard_handler", "lapic_error_handler", "spurious_interrupt_handler",
          "debug_handler", "read_syscall", "write_syscall", "anon_allocate_syscall",
          "unknown_syscall", "panic"}

\* kernel_main, with and without a ramdisk.
Mains    == {"kernel_main", "kernel_main_no_ramdisk"}
\* Handlers that log and return.
Loggers  == {"lapic_error_handler", "spurious_interrupt_handler", "debug_handler"}
\* What is entered through an interrupt gate, and so with interrupts off.
Handlers == K!Interrupts \cup {"debug_handler"}

\* The points at which a function, entered normally, has interrupts enabled.
On(a) ==
  \/ a.prog = "kernel_main" /\ a.pc \in 9 .. 12 \cup 16 .. 19 \cup 26 .. 28
  \/ a.prog = "kernel_main_no_ramdisk" /\ a.pc \in 9 .. 12 \cup 16 .. 19
  \/ a.prog \in {"user", "read_syscall", "write_syscall", "unknown_syscall"}
  \/ a.prog = "anon_allocate_syscall" /\ a.pc \in {1, 13}
  \/ a.prog = "panic" /\ a.pc = 1

\* The points between a function's lock and unlock of l.
Holds(a, l) ==
  \/ /\ a.prog = "kernel_main"
     /\ \/ l = "LOGGER" /\ a.pc \in {2, 3, 10, 11}
        \/ l = "LAPIC" /\ a.pc \in 5 .. 7
        \/ l = "MAPPER" /\ (a.pc = 6 \/ a.pc \in 17 .. 27)
        \/ l = "FRAME_ALLOCATOR" /\ a.pc \in 18 .. 26
        \/ l = "PROCESS_LIST" /\ a.pc \in 21 .. 24
        \/ l = "ALLOCATOR" /\ a.pc \in {14, 22}
  \/ /\ a.prog = "kernel_main_no_ramdisk"
     /\ \/ l = "LOGGER" /\ a.pc \in {2, 3, 10, 11, 17, 18}
        \/ l = "LAPIC" /\ a.pc \in 5 .. 7
        \/ l = "MAPPER" /\ a.pc = 6
        \/ l = "ALLOCATOR" /\ a.pc = 14
  \/ /\ a.prog = "timer_handler"
     /\ \/ l = "LAPIC" /\ a.pc \in {2, 3}
        \/ l = "CURRENT_PROCESS" /\ a.pc \in 5 .. 8
        \/ l = "PROCESS_LIST" /\ a.pc \in {6, 7}
  \/ /\ a.prog = "keyboard_handler"
     /\ \/ l = "LAPIC" /\ a.pc \in {2, 3}
        \/ l = "KEYBOARD" /\ a.pc \in {5, 6}
  \/ /\ a.prog \in Loggers \cup {"unknown_syscall"}
     /\ l = "LOGGER" /\ a.pc \in {2, 3}
  \/ /\ a.prog = "write_syscall"
     /\ l = "LOGGER" /\ a.pc \in 2 .. 4
  \/ /\ a.prog = "anon_allocate_syscall"
     /\ \/ l = "PROCESS_LIST" /\ a.pc \in 3 .. 11
        \/ l = "CURRENT_PROCESS" /\ a.pc \in 4 .. 10
        \/ l = "MAPPER" /\ a.pc \in 5 .. 8
        \/ l = "FRAME_ALLOCATOR" /\ a.pc \in {6, 7}
  \/ /\ a.prog = "panic"
     /\ l = "LOGGER" /\ a.pc \in {3, 4}

\* An activation: a function and the operation it is at.
Points == [prog : Progs, pc : Nat]

\* The operation exists.
InCode(a) == a.pc \in 1 .. Len(K!Code[a.prog])

\* Types: every thread has a stack of activations that are inside their code.
StackType ==
  /\ DOMAIN stack = K!Threads
  /\ \A t \in K!Threads :
       /\ stack[t] \in Seq(Points)
       /\ Len(stack[t]) >= 1
       /\ \A i \in 1 .. Len(stack[t]) : InCode(stack[t][i])
  /\ running \in K!Threads
  /\ iflag \in BOOLEAN
  /\ lock \in [K!Locks -> K!Threads \cup {"free"}]

\* kernel_main and the user program are at the bottom of their stacks; only
\* handlers, system calls and panics are called, system calls only from the user
\* program; traps occur only in its thread.
Shape ==
  /\ stack["main"][1].prog \in Mains
  /\ stack["init"][1].prog = "user"
  /\ \A t \in K!Threads : \A i \in 2 .. Len(stack[t]) :
       stack[t][i].prog \in Handlers \cup K!Syscalls \cup {"panic"}
  /\ \A t \in K!Threads : \A i \in 2 .. Len(stack[t]) :
       /\ stack[t][i].prog \in K!Syscalls \cup {"debug_handler"} => t = "init"
       /\ stack[t][i].prog \in K!Syscalls => i = 2

\* The interrupt flag agrees with the tables: with interrupts enabled all
\* activations of the running thread are at points where they are; a thread
\* is preempted, and an interrupt handler entered, only at such points.
Flags ==
  /\ iflag => \A i \in 1 .. Len(stack[running]) : On(stack[running][i])
  /\ ~iflag => ~On(K!Top(running)) \/ K!Top(running).prog = "panic"
  /\ \A t \in K!Threads : t # running => \A i \in 1 .. Len(stack[t]) : On(stack[t][i])
  /\ \A t \in K!Threads : \A i \in 1 .. Len(stack[t]) : stack[t][i].prog \in K!Interrupts =>
       \A j \in 1 .. i - 1 : On(stack[t][j])

\* No panic has abandoned activation i of thread t, so it will drop its guards.
Live(t, i) == i = Len(stack[t]) \/ stack[t][i + 1].prog # "panic"

\* A lock that is taken is held by an activation of its owner...
Held ==
  \A l \in K!Locks : lock[l] # "free" =>
    \E i \in 1 .. Len(stack[lock[l]]) : Holds(stack[lock[l]][i], l)

\* ... and an activation that will still unlock a lock owns it...
Owner ==
  \A t \in K!Threads : \A i \in 1 .. Len(stack[t]) : \A l \in K!Locks :
    Holds(stack[t][i], l) /\ Live(t, i) => lock[l] = t

\* ... alone on its stack.
Once ==
  \A t \in K!Threads : \A i, j \in 1 .. Len(stack[t]) : \A l \in K!Locks :
    Live(t, i) /\ Live(t, j) /\ Holds(stack[t][i], l) /\ Holds(stack[t][j], l) => i = j

\* Once kernel_main has panicked with the mapper or the frame allocator in its
\* hands, interrupts stay off: init never sees these locks left taken.
PanicKeeps ==
  \A l \in {"MAPPER", "FRAME_ALLOCATOR"} : \A i \in 1 .. Len(stack["main"]) :
    lock[l] = "main" /\ stack["main"][i].prog = "panic" =>
      running = "main" /\ ~iflag /\ K!Top("main").prog = "panic"

\* A debug trap has saved the flag that agrees with what it interrupted.
Trapped ==
  \A i \in 2 .. Len(stack["init"]) : stack["init"][i].prog = "debug_handler" =>
    /\ saved \in BOOLEAN
    /\ saved => \A j \in 1 .. i - 1 : On(stack["init"][j])
    /\ ~saved => ~On(stack["init"][i - 1]) \/ stack["init"][i - 1].prog = "panic"

\* What holds of stacks, locks and interrupt flag.
Core == StackType /\ Shape /\ Flags /\ Held /\ Owner /\ Once /\ PanicKeeps

\* init is in the process list from the moment add_user_process has pushed it,
\* and has not run before.
Spawned ==
  \/ /\ PROCESS_LIST = <<"main">>
     /\ CURRENT_PROCESS = 1
     /\ running = "main"
     /\ stack["init"] = <<K!Activation("user")>>
     /\ stack["main"][1].prog = "kernel_main" => stack["main"][1].pc <= 23
  \/ /\ PROCESS_LIST = <<"main", "init">>
     /\ CURRENT_PROCESS \in {1, 2}
     /\ stack["main"][1].prog = "kernel_main" /\ stack["main"][1].pc >= 24

\* Interrupts in service: none, or a LAPIC error nobody acknowledges, or one
\* whose handler is about to acknowledge it, or a panic prevents it.
InService ==
  \/ inService = {}
  \/ inService = {"lapic_error_handler"}
  \/ /\ inService \in SUBSET K!Prioritised
     /\ ~iflag
     /\ \E i \in 1 .. Len(stack[running]) :
          stack[running][i].prog \in {"timer_handler", "keyboard_handler"}
     /\ \/ K!Top(running).prog = "panic"
        \/ K!Top(running).prog \in {"timer_handler", "keyboard_handler"} /\ K!Top(running).pc <= 2

\* The inductive invariant.
KernelInv == Core /\ Trapped /\ Spawned /\ InService

-----------------------------------------------------------------------------
\* a and b agree on locks and interrupt flag.
Alike(a, b) ==
  /\ On(a) <=> On(b)
  /\ \A l \in K!Locks : Holds(a, l) <=> Holds(b, l)

\* The operations that change neither locks nor interrupt flag.
Advancing == {"emit", "map", "user_memory", "spawn", "eoi", "pick", "push", "claim",
              "release", "again"}

\* What operation number k of function p, named op, does to the tables: lock
\* and unlock add and remove one lock, cli and sti set the flag, a return
\* holds nothing.
Steps(p, k, op) ==
  LET a == [prog |-> p, pc |-> k]
      b == [prog |-> p, pc |-> k + 1]
  IN
  /\ op[1] \in Advancing => k < Len(K!Code[p]) /\ Alike(a, b)
  /\ op[1] = "again" => Alike(a, K!Activation(p))
  /\ op[1] = "lock" =>
       /\ op[2] \in K!Locks /\ k < Len(K!Code[p]) /\ (On(a) <=> On(b))
       /\ ~Holds(a, op[2])
       /\ \A l \in K!Locks : Holds(b, l) <=> Holds(a, l) \/ l = op[2]
  /\ op[1] = "unlock" =>
       /\ op[2] \in K!Locks /\ k < Len(K!Code[p]) /\ (On(a) <=> On(b))
       /\ Holds(a, op[2])
       /\ \A l \in K!Locks : Holds(b, l) <=> Holds(a, l) /\ l # op[2]
  /\ op[1] \in {"cli", "sti"} =>
       /\ k < Len(K!Code[p]) /\ (On(b) <=> op[1] = "sti")
       /\ \A l \in K!Locks : Holds(a, l) <=> Holds(b, l)
  /\ op[1] \in {"switch", "iret", "ret"} => \A l \in K!Locks : ~Holds(a, l)

\* Which functions contain which operations, at which points.
Where(p, k, op) ==
  LET a == [prog |-> p, pc |-> k] IN
  /\ op[1] = "switch" => p = "timer_handler"
  /\ op[1] = "iret" => p \in Handlers
  /\ op[1] = "ret" => p \in K!Syscalls
  /\ op[1] = "user" => p = "user"
  /\ op[1] = "again" => p = "read_syscall"
  /\ op[1] = "eoi" => p \in {"timer_handler", "keyboard_handler"}
  /\ op[1] = "push" => p = "keyboard_handler"
  /\ op[1] = "map" => /\ p \in {"kernel_main", "anon_allocate_syscall"}
                      /\ Holds(a, "MAPPER") /\ Holds(a, "FRAME_ALLOCATOR")
  /\ op[1] = "spawn" <=> p = "kernel_main" /\ k = 23
  /\ op[1] = "emit" => ~Holds(a, "MAPPER") /\ ~Holds(a, "FRAME_ALLOCATOR")
  /\ p \in {"timer_handler", "keyboard_handler"} /\ k = 2 => op[1] = "eoi"
  /\ p \in {"timer_handler", "keyboard_handler"} /\ k = 1 => op[1] = "lock"
  /\ p = "panic" => op[1] \in {"cli", "lock", "unlock", "emit", "halt"}
  /\ op[1] = "sti" => p \in Mains \cup {"anon_allocate_syscall"}
  /\ op[1] = "ret" => On(a)
  /\ op[1] = "emit" /\ p = "panic" => ~On(a)
  /\ op[1] = "lock" /\ p \in Loggers \cup {"panic"} => op[2] = "LOGGER"
  /\ op[1] = "lock" /\ op[2] = "LOGGER" =>
       \/ p \in Loggers \cup {"panic"}
       \/ p \in Mains /\ k = 1
       \/ On(a)
  /\ op[1] = "lock" /\ op[2] \in {"MAPPER", "FRAME_ALLOCATOR"} =>
       p \in Mains \cup {"anon_allocate_syscall"}
  /\ op[1] = "lock" /\ op[2] = "FRAME_ALLOCATOR" => Holds(a, "MAPPER")

\* Operation k of p fits both.
Right(p, k, op) == Steps(p, k, op) /\ Where(p, k, op)

\* The tables fit the code of each function, operation by operation.
LEMMA Code_user ==
  \A k \in 1 .. Len(K!Code["user"]) :
    Right("user", k, K!Code["user"][k])
<1> USE DEF Right, Steps, Where, Alike, On, Holds, Advancing, K!Activation, Loggers,
       K!Locks, Mains, K!Syscalls, Handlers, K!Interrupts, K!Prioritised
<1>1. Len(K!Code["user"]) = 1
  BY DEF K!Code
<1>2. \A k \in 1 .. 1 : k = 1
  OBVIOUS
<1> DEFINE c == K!Code["user"]
<1>3. /\ c[1] = <<"user">>
  BY DEF K!Code
<1> HIDE DEF c
<1>4. \A k \in 1 .. 1 : Steps("user", k, c[k])
  BY <1>1, <1>2, <1>3
<1>5. \A k \in 1 .. 1 : Where("user", k, c[k])
  BY <1>1, <1>2, <1>3
<1> HIDE DEF Steps, Where
<1> QED BY <1>1, <1>4, <1>5 DEF c

\* timer_handler: send_eoi, then schedule under its two locks.
LEMMA Code_timer_handler ==
  \A k \in 1 .. Len(K!Code["timer_handler"]) :
    Right("timer_handler", k, K!Code["timer_handler"][k])
<1> USE DEF Right, Steps, Where, Alike, On, Holds, Advancing, K!Activation, Loggers,
       K!Locks, Mains, K!Syscalls, Handlers, K!Interrupts, K!Prioritised
<1>1. Len(K!Code["timer_handler"]) = 9
  BY DEF K!Code, K!timer_handler, K!send_eoi
<1>2. \A k \in 1 .. 9 : k = 1 \/ k = 2 \/ k = 3 \/ k = 4 \/ k = 5 \/ k = 6
        \/ k = 7 \/ k = 8 \/ k = 9
  OBVIOUS
<1> DEFINE c == K!Code["timer_handler"]
<1>3. /\ c[1] = <<"lock", "LAPIC">> /\ c[2] = <<"eoi">>
      /\ c[3] = <<"unlock", "LAPIC">> /\ c[4] = <<"lock", "CURRENT_PROCESS">>
      /\ c[5] = <<"lock", "PROCESS_LIST">> /\ c[6] = <<"pick">>
      /\ c[7] = <<"unlock", "PROCESS_LIST">>
      /\ c[8] = <<"unlock", "CURRENT_PROCESS">> /\ c[9] = <<"switch">>
  BY DEF K!Code, K!timer_handler, K!send_eoi
<1> HIDE DEF c
<1>4. \A k \in 1 .. 9 : Steps("timer_handler", k, c[k])
  BY <1>1, <1>2, <1>3
<1>5. \A k \in 1 .. 9 : Where("timer_handler", k, c[k])
  BY <1>1, <1>2, <1>3
<1> HIDE DEF Steps, Where
<1> QED BY <1>1, <1>4, <1>5 DEF c

\* keyboard_handler: send_eoi, then the push under KEYBOARD.
LEMMA Code_keyboard_handler ==
  \A k \in 1 .. Len(K!Code["keyboard_handler"]) :
    Right("keyboard_handler", k, K!Code["keyboard_handler"][k])
<1> USE DEF Right, Steps, Where, Alike, On, Holds, Advancing, K!Activation, Loggers,
       K!Locks, Mains, K!Syscalls, Handlers, K!Interrupts, K!Prioritised
<1>1. Len(K!Code["keyboard_handler"]) = 7
  BY DEF K!Code, K!keyboard_handler, K!send_eoi
<1>2. \A k \in 1 .. 7 : k = 1 \/ k = 2 \/ k = 3 \/ k = 4 \/ k = 5 \/ k = 6
        \/ k = 7
  OBVIOUS
<1> DEFINE c == K!Code["keyboard_handler"]
<1>3. /\ c[1] = <<"lock", "LAPIC">> /\ c[2] = <<"eoi">>
      /\ c[3] = <<"unlock", "LAPIC">> /\ c[4] = <<"lock", "KEYBOARD">>
      /\ c[5] = <<"push">> /\ c[6] = <<"unlock", "KEYBOARD">> /\ c[7] = <<"iret">>
  BY DEF K!Code, K!keyboard_handler, K!send_eoi
<1> HIDE DEF c
<1>4. \A k \in 1 .. 7 : Steps("keyboard_handler", k, c[k])
  BY <1>1, <1>2, <1>3
<1>5. \A k \in 1 .. 7 : Where("keyboard_handler", k, c[k])
  BY <1>1, <1>2, <1>3
<1> HIDE DEF Steps, Where
<1> QED BY <1>1, <1>4, <1>5 DEF c

\* lapic_error_handler, spurious_interrupt_handler and debug_handler.
LEMMA CodeLogging ==
  ASSUME NEW p \in Loggers
  PROVE  \A k \in 1 .. Len(K!Code[p]) : Right(p, k, K!Code[p][k])
<1> USE DEF Right, Steps, Where, Alike, On, Holds, Advancing, K!Activation, Loggers,
       K!Locks, Mains, K!Syscalls, Handlers, K!Interrupts, K!Prioritised
<1>1. Len(K!Code[p]) = 4
  BY DEF K!Code, K!logging_handler, K!Log
<1>2. \A k \in 1 .. 4 : k = 1 \/ k = 2 \/ k = 3 \/ k = 4
  OBVIOUS
<1> DEFINE c == K!Code[p]
<1>3. /\ c[1] = <<"lock", "LOGGER">> /\ c[2] = <<"emit">>
      /\ c[3] = <<"unlock", "LOGGER">> /\ c[4] = <<"iret">>
  BY DEF K!Code, K!logging_handler, K!Log
<1> HIDE DEF c
<1>4. \A k \in 1 .. 4 : Steps(p, k, c[k])
  BY <1>1, <1>2, <1>3
<1>5. \A k \in 1 .. 4 : Where(p, k, c[k])
  BY <1>1, <1>2, <1>3
<1> HIDE DEF Steps, Where
<1> QED BY <1>1, <1>4, <1>5 DEF c

\* read_syscall takes no lock.
LEMMA Code_read_syscall ==
  \A k \in 1 .. Len(K!Code["read_syscall"]) :
    Right("read_syscall", k, K!Code["read_syscall"][k])
<1> USE DEF Right, Steps, Where, Alike, On, Holds, Advancing, K!Activation, Loggers,
       K!Locks, Mains, K!Syscalls, Handlers, K!Interrupts, K!Prioritised
<1>1. Len(K!Code["read_syscall"]) = 5
  BY DEF K!Code, K!read_syscall
<1>2. \A k \in 1 .. 5 : k = 1 \/ k = 2 \/ k = 3 \/ k = 4 \/ k = 5
  OBVIOUS
<1> DEFINE c == K!Code["read_syscall"]
<1>3. /\ c[1] = <<"claim">> /\ c[2] = <<"release">> /\ c[3] = <<"user_memory">>
      /\ c[4] = <<"again">> /\ c[5] = <<"ret">>
  BY DEF K!Code, K!read_syscall
<1> HIDE DEF c
<1>4. \A k \in 1 .. 5 : Steps("read_syscall", k, c[k])
  BY <1>1, <1>2, <1>3
<1>5. \A k \in 1 .. 5 : Where("read_syscall", k, c[k])
  BY <1>1, <1>2, <1>3
<1> HIDE DEF Steps, Where
<1> QED BY <1>1, <1>4, <1>5 DEF c

\* write_syscall holds LOGGER while it reads user memory.
LEMMA Code_write_syscall ==
  \A k \in 1 .. Len(K!Code["write_syscall"]) :
    Right("write_syscall", k, K!Code["write_syscall"][k])
<1> USE DEF Right, Steps, Where, Alike, On, Holds, Advancing, K!Activation, Loggers,
       K!Locks, Mains, K!Syscalls, Handlers, K!Interrupts, K!Prioritised
<1>1. Len(K!Code["write_syscall"]) = 5
  BY DEF K!Code, K!write_syscall
<1>2. \A k \in 1 .. 5 : k = 1 \/ k = 2 \/ k = 3 \/ k = 4 \/ k = 5
  OBVIOUS
<1> DEFINE c == K!Code["write_syscall"]
<1>3. /\ c[1] = <<"lock", "LOGGER">> /\ c[2] = <<"user_memory">>
      /\ c[3] = <<"emit">> /\ c[4] = <<"unlock", "LOGGER">> /\ c[5] = <<"ret">>
  BY DEF K!Code, K!write_syscall
<1> HIDE DEF c
<1>4. \A k \in 1 .. 5 : Steps("write_syscall", k, c[k])
  BY <1>1, <1>2, <1>3
<1>5. \A k \in 1 .. 5 : Where("write_syscall", k, c[k])
  BY <1>1, <1>2, <1>3
<1> HIDE DEF Steps, Where
<1> QED BY <1>1, <1>4, <1>5 DEF c

\* anon_allocate_syscall: four locks, all with interrupts off.
LEMMA Code_anon_allocate_syscall ==
  \A k \in 1 .. Len(K!Code["anon_allocate_syscall"]) :
    Right("anon_allocate_syscall", k, K!Code["anon_allocate_syscall"][k])
<1> USE DEF Right, Steps, Where, Alike, On, Holds, Advancing, K!Activation, Loggers,
       K!Locks, Mains, K!Syscalls, Handlers, K!Interrupts, K!Prioritised
<1>1. Len(K!Code["anon_allocate_syscall"]) = 13
  BY DEF K!Code, K!anon_allocate_syscall
<1>2. \A k \in 1 .. 13 : k = 1 \/ k = 2 \/ k = 3 \/ k = 4 \/ k = 5 \/ k = 6
        \/ k = 7 \/ k = 8 \/ k = 9 \/ k = 10 \/ k = 11 \/ k = 12
        \/ k = 13
  OBVIOUS
<1> DEFINE c == K!Code["anon_allocate_syscall"]
<1>3. /\ c[1] = <<"cli">> /\ c[2] = <<"lock", "PROCESS_LIST">>
      /\ c[3] = <<"lock", "CURRENT_PROCESS">> /\ c[4] = <<"lock", "MAPPER">>
      /\ c[5] = <<"lock", "FRAME_ALLOCATOR">> /\ c[6] = <<"map">>
      /\ c[7] = <<"unlock", "FRAME_ALLOCATOR">> /\ c[8] = <<"unlock", "MAPPER">>
      /\ c[9] = <<"user_memory">> /\ c[10] = <<"unlock", "CURRENT_PROCESS">>
      /\ c[11] = <<"unlock", "PROCESS_LIST">> /\ c[12] = <<"sti">>
      /\ c[13] = <<"ret">>
  BY DEF K!Code, K!anon_allocate_syscall
<1> HIDE DEF c
<1>4. \A k \in 1 .. 13 : Steps("anon_allocate_syscall", k, c[k])
  BY <1>1, <1>2, <1>3
<1>5. \A k \in 1 .. 13 : Where("anon_allocate_syscall", k, c[k])
  BY <1>1, <1>2, <1>3
<1> HIDE DEF Steps, Where
<1> QED BY <1>1, <1>4, <1>5 DEF c

\* unknown_syscall logs.
LEMMA Code_unknown_syscall ==
  \A k \in 1 .. Len(K!Code["unknown_syscall"]) :
    Right("unknown_syscall", k, K!Code["unknown_syscall"][k])
<1> USE DEF Right, Steps, Where, Alike, On, Holds, Advancing, K!Activation, Loggers,
       K!Locks, Mains, K!Syscalls, Handlers, K!Interrupts, K!Prioritised
<1>1. Len(K!Code["unknown_syscall"]) = 4
  BY DEF K!Code, K!unknown_syscall, K!Log
<1>2. \A k \in 1 .. 4 : k = 1 \/ k = 2 \/ k = 3 \/ k = 4
  OBVIOUS
<1> DEFINE c == K!Code["unknown_syscall"]
<1>3. /\ c[1] = <<"lock", "LOGGER">> /\ c[2] = <<"emit">>
      /\ c[3] = <<"unlock", "LOGGER">> /\ c[4] = <<"ret">>
  BY DEF K!Code, K!unknown_syscall, K!Log
<1> HIDE DEF c
<1>4. \A k \in 1 .. 4 : Steps("unknown_syscall", k, c[k])
  BY <1>1, <1>2, <1>3
<1>5. \A k \in 1 .. 4 : Where("unknown_syscall", k, c[k])
  BY <1>1, <1>2, <1>3
<1> HIDE DEF Steps, Where
<1> QED BY <1>1, <1>4, <1>5 DEF c

\* panic logs with interrupts off and halts.
LEMMA Code_panic ==
  \A k \in 1 .. Len(K!Code["panic"]) :
    Right("panic", k, K!Code["panic"][k])
<1> USE DEF Right, Steps, Where, Alike, On, Holds, Advancing, K!Activation, Loggers,
       K!Locks, Mains, K!Syscalls, Handlers, K!Interrupts, K!Prioritised
<1>1. Len(K!Code["panic"]) = 6
  BY DEF K!Code, K!panic, K!Log
<1>2. \A k \in 1 .. 6 : k = 1 \/ k = 2 \/ k = 3 \/ k = 4 \/ k = 5 \/ k = 6
  OBVIOUS
<1> DEFINE c == K!Code["panic"]
<1>3. /\ c[1] = <<"cli">> /\ c[2] = <<"lock", "LOGGER">> /\ c[3] = <<"emit">>
      /\ c[4] = <<"unlock", "LOGGER">> /\ c[5] = <<"cli">> /\ c[6] = <<"halt">>
  BY DEF K!Code, K!panic, K!Log
<1> HIDE DEF c
<1>4. \A k \in 1 .. 6 : Steps("panic", k, c[k])
  BY <1>1, <1>2, <1>3
<1>5. \A k \in 1 .. 6 : Where("panic", k, c[k])
  BY <1>1, <1>2, <1>3
<1> HIDE DEF Steps, Where
<1> QED BY <1>1, <1>4, <1>5 DEF c

\* kernel_main with a ramdisk: boot, then add_user_process.
LEMMA Code_kernel_main ==
  \A k \in 1 .. Len(K!Code["kernel_main"]) :
    Right("kernel_main", k, K!Code["kernel_main"][k])
<1> USE DEF Right, Steps, Where, Alike, On, Holds, Advancing, K!Activation, Loggers,
       K!Locks, Mains, K!Syscalls, Handlers, K!Interrupts, K!Prioritised
<1>1. Len(K!Code["kernel_main"]) = 28
  BY DEF K!Code, K!kernel_main, K!Boot, K!Log, K!HeapAlloc, K!add_user_process
<1>2. \A k \in 1 .. 28 : k = 1 \/ k = 2 \/ k = 3 \/ k = 4 \/ k = 5 \/ k = 6
        \/ k = 7 \/ k = 8 \/ k = 9 \/ k = 10 \/ k = 11 \/ k = 12
        \/ k = 13 \/ k = 14 \/ k = 15 \/ k = 16 \/ k = 17 \/ k = 18
        \/ k = 19 \/ k = 20 \/ k = 21 \/ k = 22 \/ k = 23 \/ k = 24
        \/ k = 25 \/ k = 26 \/ k = 27 \/ k = 28
  OBVIOUS
<1> DEFINE c == K!Code["kernel_main"]
<1>3. /\ c[1] = <<"lock", "LOGGER">> /\ c[2] = <<"emit">>
      /\ c[3] = <<"unlock", "LOGGER">> /\ c[4] = <<"lock", "LAPIC">>
      /\ c[5] = <<"lock", "MAPPER">> /\ c[6] = <<"unlock", "MAPPER">>
      /\ c[7] = <<"unlock", "LAPIC">> /\ c[8] = <<"sti">>
      /\ c[9] = <<"lock", "LOGGER">> /\ c[10] = <<"emit">>
      /\ c[11] = <<"unlock", "LOGGER">> /\ c[12] = <<"cli">>
      /\ c[13] = <<"lock", "ALLOCATOR">> /\ c[14] = <<"unlock", "ALLOCATOR">>
      /\ c[15] = <<"sti">> /\ c[16] = <<"lock", "MAPPER">>
      /\ c[17] = <<"lock", "FRAME_ALLOCATOR">> /\ c[18] = <<"map">>
      /\ c[19] = <<"cli">> /\ c[20] = <<"lock", "PROCESS_LIST">>
      /\ c[21] = <<"lock", "ALLOCATOR">> /\ c[22] = <<"unlock", "ALLOCATOR">>
      /\ c[23] = <<"spawn">> /\ c[24] = <<"unlock", "PROCESS_LIST">>
      /\ c[25] = <<"sti">> /\ c[26] = <<"unlock", "FRAME_ALLOCATOR">>
      /\ c[27] = <<"unlock", "MAPPER">> /\ c[28] = <<"idle">>
  BY DEF K!Code, K!kernel_main, K!Boot, K!Log, K!HeapAlloc, K!add_user_process
<1> HIDE DEF c
<1>4. \A k \in 1 .. 28 : Steps("kernel_main", k, c[k])
  BY <1>1, <1>2, <1>3
<1>5. \A k \in 1 .. 28 : Where("kernel_main", k, c[k])
  BY <1>1, <1>2, <1>3
<1> HIDE DEF Steps, Where
<1> QED BY <1>1, <1>4, <1>5 DEF c

\* kernel_main without one: boot, then a log line.
LEMMA Code_kernel_main_no_ramdisk ==
  \A k \in 1 .. Len(K!Code["kernel_main_no_ramdisk"]) :
    Right("kernel_main_no_ramdisk", k, K!Code["kernel_main_no_ramdisk"][k])
<1> USE DEF Right, Steps, Where, Alike, On, Holds, Advancing, K!Activation, Loggers,
       K!Locks, Mains, K!Syscalls, Handlers, K!Interrupts, K!Prioritised
<1>1. Len(K!Code["kernel_main_no_ramdisk"]) = 19
  BY DEF K!Code, K!kernel_main, K!Boot, K!Log, K!HeapAlloc
<1>2. \A k \in 1 .. 19 : k = 1 \/ k = 2 \/ k = 3 \/ k = 4 \/ k = 5 \/ k = 6
        \/ k = 7 \/ k = 8 \/ k = 9 \/ k = 10 \/ k = 11 \/ k = 12
        \/ k = 13 \/ k = 14 \/ k = 15 \/ k = 16 \/ k = 17 \/ k = 18
        \/ k = 19
  OBVIOUS
<1> DEFINE c == K!Code["kernel_main_no_ramdisk"]
<1>3. /\ c[1] = <<"lock", "LOGGER">> /\ c[2] = <<"emit">>
      /\ c[3] = <<"unlock", "LOGGER">> /\ c[4] = <<"lock", "LAPIC">>
      /\ c[5] = <<"lock", "MAPPER">> /\ c[6] = <<"unlock", "MAPPER">>
      /\ c[7] = <<"unlock", "LAPIC">> /\ c[8] = <<"sti">>
      /\ c[9] = <<"lock", "LOGGER">> /\ c[10] = <<"emit">>
      /\ c[11] = <<"unlock", "LOGGER">> /\ c[12] = <<"cli">>
      /\ c[13] = <<"lock", "ALLOCATOR">> /\ c[14] = <<"unlock", "ALLOCATOR">>
      /\ c[15] = <<"sti">> /\ c[16] = <<"lock", "LOGGER">> /\ c[17] = <<"emit">>
      /\ c[18] = <<"unlock", "LOGGER">> /\ c[19] = <<"idle">>
  BY DEF K!Code, K!kernel_main, K!Boot, K!Log, K!HeapAlloc
<1> HIDE DEF c
<1>4. \A k \in 1 .. 19 : Steps("kernel_main_no_ramdisk", k, c[k])
  BY <1>1, <1>2, <1>3
<1>5. \A k \in 1 .. 19 : Where("kernel_main_no_ramdisk", k, c[k])
  BY <1>1, <1>2, <1>3
<1> HIDE DEF Steps, Where
<1> QED BY <1>1, <1>4, <1>5 DEF c

\* So they fit all of Code.
LEMMA CodeFacts ==
  ASSUME NEW p \in Progs, NEW k \in 1 .. Len(K!Code[p])
  PROVE  Right(p, k, K!Code[p][k])
BY Code_user, Code_timer_handler, Code_keyboard_handler, CodeLogging,
   Code_read_syscall, Code_write_syscall, Code_anon_allocate_syscall,
   Code_unknown_syscall, Code_panic, Code_kernel_main, Code_kernel_main_no_ramdisk
   DEF Progs, Loggers

\* What the tables say of single points.  In particular a lock the handlers
\* take is only held where interrupts are off, and only kernel_main holds the
\* mapper where they are on.
LEMMA PointFacts ==
  ASSUME NEW a \in Points, NEW l \in K!Locks
  PROVE  /\ l \in K!HandlerLocks /\ Holds(a, l) => ~On(a)
         /\ a.pc = 1 => ~Holds(a, l)
         /\ a.prog \in Handlers => ~On(a)
         /\ a.prog = "user" => On(a) /\ ~Holds(a, l)
         /\ a.prog \in K!Syscalls \cup {"panic"} /\ a.pc = 1 => On(a)
         /\ a.prog = "anon_allocate_syscall" /\ Holds(a, l) => ~On(a)
         /\ Holds(a, "FRAME_ALLOCATOR") => Holds(a, "MAPPER")
         /\ Holds(a, "MAPPER") => a.prog \in Mains \cup {"anon_allocate_syscall"}
         /\ Holds(a, "MAPPER") /\ On(a) => a.prog = "kernel_main"
         /\ a.prog = "kernel_main" /\ a.pc >= 24 => ~Holds(a, "LOGGER")
BY DEF Points, Holds, On, K!HandlerLocks, K!Locks, Handlers, K!Interrupts, K!Prioritised,
   K!Syscalls, Mains, Loggers

\* The innermost activation of the running thread, and what it does next.
LEMMA TopFacts ==
  ASSUME StackType
  PROVE  /\ running \in K!Threads
         /\ Len(stack[running]) \in Nat /\ Len(stack[running]) >= 1
         /\ K!Top(running) = stack[running][Len(stack[running])]
         /\ K!Top(running) \in Points
         /\ K!Top(running) = [prog |-> K!Top(running).prog, pc |-> K!Top(running).pc]
         /\ K!Top(running).pc \in 1 .. Len(K!Code[K!Top(running).prog])
         /\ Steps(K!Top(running).prog, K!Top(running).pc, K!Op(running))
         /\ Where(K!Top(running).prog, K!Top(running).pc, K!Op(running))
<1>1. /\ running \in K!Threads
      /\ stack[running] \in Seq(Points)
      /\ Len(stack[running]) \in Nat /\ Len(stack[running]) >= 1
  BY DEF StackType
<1>2. K!Top(running) = stack[running][Len(stack[running])]
  BY <1>1 DEF K!Top, K!Last
<1>3. K!Top(running) \in Points /\ InCode(K!Top(running))
  BY <1>1, <1>2 DEF StackType
<1>4. /\ K!Top(running).prog \in Progs
      /\ K!Top(running) = [prog |-> K!Top(running).prog, pc |-> K!Top(running).pc]
  BY <1>3 DEF Points
<1>5. Right(K!Top(running).prog, K!Top(running).pc, K!Op(running))
  BY <1>3, <1>4, CodeFacts DEF K!Op, InCode
<1> QED BY <1>1, <1>2, <1>3, <1>4, <1>5 DEF InCode, Right

-----------------------------------------------------------------------------
\* The step replaces the innermost activation of the running thread by b ...
Moves(b) ==
  /\ DOMAIN stack' = K!Threads
  /\ \A t \in K!Threads : t # running => stack'[t] = stack[t]
  /\ stack'[running] \in Seq(Points) /\ Len(stack'[running]) = Len(stack[running])
  /\ \A i \in 1 .. Len(stack[running]) - 1 : stack'[running][i] = stack[running][i]
  /\ stack'[running][Len(stack[running])] = b

\* ... or puts a new activation of p on top of it ...
Calls(p) ==
  /\ DOMAIN stack' = K!Threads
  /\ \A t \in K!Threads : t # running => stack'[t] = stack[t]
  /\ stack'[running] \in Seq(Points) /\ Len(stack'[running]) = Len(stack[running]) + 1
  /\ \A i \in 1 .. Len(stack[running]) : stack'[running][i] = stack[running][i]
  /\ stack'[running][Len(stack[running]) + 1] = K!Activation(p)

\* ... or removes it.
Returns ==
  /\ DOMAIN stack' = K!Threads
  /\ \A t \in K!Threads : t # running => stack'[t] = stack[t]
  /\ stack'[running] \in Seq(Points) /\ Len(stack'[running]) = Len(stack[running]) - 1
  /\ \A i \in 1 .. Len(stack[running]) - 1 : stack'[running][i] = stack[running][i]

\* Setting the pc of the innermost activation is such a replacement.
LEMMA MoveStack ==
  ASSUME StackType, NEW k \in Nat,
         stack' = [stack EXCEPT ![running][Len(stack[running])].pc = k]
  PROVE  Moves([prog |-> K!Top(running).prog, pc |-> k])
<1> DEFINE n == Len(stack[running])
           a == stack[running][n]
           b == [prog |-> a.prog, pc |-> k]
           s == [stack[running] EXCEPT ![n] = b]
<1>1. /\ running \in K!Threads /\ DOMAIN stack = K!Threads
      /\ stack[running] \in Seq(Points) /\ n \in Nat /\ n >= 1
      /\ a \in Points
  BY TopFacts DEF StackType
<1>2. b \in Points /\ [a EXCEPT !.pc = k] = b
  BY <1>1 DEF Points
<1>3. stack' = [stack EXCEPT ![running] = s]
  BY <1>2
<1>4. /\ s \in Seq(Points) /\ Len(s) = n
      /\ \A i \in 1 .. n : s[i] = IF i = n THEN b ELSE stack[running][i]
  BY <1>1, <1>2
<1> HIDE DEF s, b
<1>5. stack'[running] = s /\ DOMAIN stack' = K!Threads
      /\ \A t \in K!Threads : t # running => stack'[t] = stack[t]
  BY <1>1, <1>3
<1>6. s[n] = b /\ \A i \in 1 .. n - 1 : s[i] = stack[running][i]
  BY <1>1, <1>4
<1> HIDE DEF a
<1>7. /\ DOMAIN stack' = K!Threads
      /\ \A t \in K!Threads : t # running => stack'[t] = stack[t]
      /\ stack'[running] \in Seq(Points) /\ Len(stack'[running]) = Len(stack[running])
  BY <1>4, <1>5
<1>8. /\ \A i \in 1 .. Len(stack[running]) - 1 : stack'[running][i] = stack[running][i]
      /\ stack'[running][Len(stack[running])] = b
  BY <1>5, <1>6
<1>9. Moves(b)
  BY <1>7, <1>8 DEF Moves
<1> QED BY <1>9, TopFacts DEF a, b

\* Called is such a call.
LEMMA CallStack ==
  ASSUME StackType, NEW p \in Progs, stack' = K!Called(running, p)
  PROVE  Calls(p)
<1> DEFINE s == stack[running]
           r == Append(s, K!Activation(p))
<1>1. /\ running \in K!Threads /\ DOMAIN stack = K!Threads /\ s \in Seq(Points)
  BY TopFacts DEF StackType
<1>2. K!Activation(p) \in Points
  BY DEF K!Activation, Points
<1>3. stack' = [stack EXCEPT ![running] = r]
  BY DEF K!Called
<1>4. /\ r \in Seq(Points) /\ Len(r) = Len(s) + 1 /\ r[Len(s) + 1] = K!Activation(p)
      /\ \A i \in 1 .. Len(s) : r[i] = s[i]
  BY <1>1, <1>2
<1> HIDE DEF r
<1>5. /\ stack'[running] = r /\ DOMAIN stack' = K!Threads
      /\ \A t \in K!Threads : t # running => stack'[t] = stack[t]
  BY <1>1, <1>3
<1> QED BY <1>4, <1>5 DEF Calls

\* The library's Front, element by element.
LEMMA FrontFacts ==
  ASSUME NEW s \in Seq(Points), Len(s) >= 1
  PROVE  /\ K!Front(s) \in Seq(Points) /\ Len(K!Front(s)) = Len(s) - 1
         /\ \A i \in 1 .. Len(s) - 1 : K!Front(s)[i] = s[i]
<1>1. K!Front(s) = SubSeq(s, 1, Len(s) - 1)
  BY DEF K!Front
<1>2. PICK m \in Nat : m = Len(s) - 1
  OBVIOUS
<1>3. m <= Len(s)
  BY <1>2
<1>4. SubSeq(s, 1, m) \in Seq(Points)
  BY <1>3
<1>5. Len(SubSeq(s, 1, m)) = m
  BY <1>3
<1>6. \A i \in 1 .. m : SubSeq(s, 1, m)[i] = s[i]
  BY <1>3
<1> QED BY <1>1, <1>2, <1>4, <1>5, <1>6

\* Returned is such a return.
LEMMA ReturnStack ==
  ASSUME StackType, stack' = K!Returned(running)
  PROVE  Returns
<1> DEFINE s == stack[running]
           r == K!Front(s)
<1>1. /\ running \in K!Threads /\ DOMAIN stack = K!Threads /\ s \in Seq(Points)
      /\ Len(s) \in Nat /\ Len(s) >= 1
  BY TopFacts DEF StackType
<1>2. stack' = [stack EXCEPT ![running] = r]
  BY DEF K!Returned
<1>3. /\ r \in Seq(Points) /\ Len(r) = Len(s) - 1
      /\ \A i \in 1 .. Len(s) - 1 : r[i] = s[i]
  BY <1>1, FrontFacts
<1> HIDE DEF r
<1>4. /\ stack'[running] = r /\ DOMAIN stack' = K!Threads
      /\ \A t \in K!Threads : t # running => stack'[t] = stack[t]
  BY <1>1, <1>2
<1> QED BY <1>3, <1>4 DEF Returns

-----------------------------------------------------------------------------
\* No function is entered or left, and only the innermost activation moves.
SameProgs ==
  \A t \in K!Threads :
    /\ Len(stack'[t]) = Len(stack[t])
    /\ \A i \in 1 .. Len(stack[t]) :
         /\ stack'[t][i].prog = stack[t][i].prog
         /\ ~(t = running /\ i = Len(stack[running])) => stack'[t][i] = stack[t][i]

\* What every move of the innermost activation to b leaves as it was.
Moved(b) ==
  /\ running' = running
  /\ \A t \in K!Threads : t # running => stack'[t] = stack[t]
  /\ StackType' /\ Shape' /\ SameProgs
  /\ \A t \in K!Threads : \A i \in 1 .. Len(stack[t]) : Live(t, i)' <=> Live(t, i)
  /\ K!Top(running)' = b
  /\ stack'[running][Len(stack[running])] = b
  /\ \A t \in K!Threads : K!Top(t)'.prog = K!Top(t).prog

\* A move within a function keeps types and shape of the stacks.
LEMMA MoveCommon ==
  ASSUME StackType, Shape,
         NEW b \in Points, Moves(b), b.prog = K!Top(running).prog, InCode(b),
         running' = running, iflag' \in BOOLEAN,
         lock' \in [K!Locks -> K!Threads \cup {"free"}]
  PROVE  Moved(b)
<1> DEFINE n == Len(stack[running])
<1>1. /\ running \in K!Threads /\ n \in Nat /\ n >= 1
      /\ K!Top(running) = stack[running][n]
      /\ \A t \in K!Threads : Len(stack[t]) \in Nat /\ Len(stack[t]) >= 1
  BY TopFacts DEF StackType
<1>2. \A t \in K!Threads : Len(stack'[t]) = Len(stack[t]) /\ stack'[t] \in Seq(Points)
  BY DEF Moves, StackType
<1>3. ASSUME NEW t \in K!Threads, NEW i \in 1 .. Len(stack[t])
      PROVE  /\ stack'[t][i].prog = stack[t][i].prog
             /\ ~(t = running /\ i = n) => stack'[t][i] = stack[t][i]
             /\ InCode(stack'[t][i])
  <2>1. CASE t = running /\ i = n
    BY <1>1, <2>1 DEF Moves
  <2>2. CASE ~(t = running /\ i = n)
    <3>1. stack'[t][i] = stack[t][i]
      BY <1>1, <2>2 DEF Moves
    <3> QED BY <2>2, <3>1 DEF StackType
  <2> QED BY <2>1, <2>2
<1>4. StackType'
  BY <1>2, <1>3 DEF StackType, Moves, InCode
<1>5. SameProgs
  BY <1>2, <1>3 DEF SameProgs
<1>6. Shape'
  <2>1. "main" \in K!Threads /\ "init" \in K!Threads
    BY DEF K!Threads
  <2>2. stack'["main"][1].prog \in Mains /\ stack'["init"][1].prog = "user"
    <3>1. 1 \in 1 .. Len(stack["main"]) /\ 1 \in 1 .. Len(stack["init"])
      BY <1>1, <2>1
    <3> QED BY <1>3, <2>1, <3>1 DEF Shape
  <2>3. \A t \in K!Threads : \A i \in 2 .. Len(stack'[t]) :
          i \in 2 .. Len(stack[t]) /\ stack'[t][i].prog = stack[t][i].prog
    BY <1>1, <1>2, <1>3
  <2>4. (\A t \in K!Threads : \A i \in 2 .. Len(stack[t]) :
           stack[t][i].prog \in Handlers \cup K!Syscalls \cup {"panic"})'
    BY <2>3 DEF Shape
  <2>5. (\A t \in K!Threads : \A i \in 2 .. Len(stack[t]) :
           /\ stack[t][i].prog \in K!Syscalls \cup {"debug_handler"} => t = "init"
           /\ stack[t][i].prog \in K!Syscalls => i = 2)'
    BY <2>3 DEF Shape
  <2> QED BY <2>2, <2>4, <2>5 DEF Shape
<1>7. \A t \in K!Threads : \A i \in 1 .. Len(stack[t]) : Live(t, i)' <=> Live(t, i)
  <2> SUFFICES ASSUME NEW t \in K!Threads, NEW i \in 1 .. Len(stack[t])
               PROVE  Live(t, i)' <=> Live(t, i)
    OBVIOUS
  <2>1. CASE i = Len(stack[t])
    BY <1>2, <2>1 DEF Live
  <2>2. CASE i # Len(stack[t])
    <3>1. i + 1 \in 1 .. Len(stack[t])
      BY <1>1, <2>2
    <3>2. stack'[t][i + 1].prog = stack[t][i + 1].prog
      BY <1>3, <3>1
    <3> QED BY <1>2, <2>2, <3>2 DEF Live
  <2> QED BY <2>1, <2>2
<1>8. \A t \in K!Threads : /\ K!Top(t)' = stack'[t][Len(stack[t])]
                           /\ K!Top(t) = stack[t][Len(stack[t])]
  BY <1>1, <1>2 DEF K!Top, K!Last
<1>9. K!Top(running)' = b
  BY <1>1, <1>8 DEF Moves
<1>10. \A t \in K!Threads : K!Top(t)'.prog = K!Top(t).prog
  BY <1>1, <1>3, <1>8
<1> QED BY <1>4, <1>5, <1>6, <1>7, <1>9, <1>10 DEF Moved, Moves

\* A move that changes neither the interrupt flag nor what the tables say of
\* it keeps Flags.
LEMMA MoveFlags ==
  ASSUME StackType, Flags, NEW b, Moved(b),
         On(b) <=> On(K!Top(running)), iflag' = iflag
  PROVE  Flags'
<1> DEFINE n == Len(stack[running])
<1>1. /\ running \in K!Threads /\ n \in Nat /\ n >= 1 /\ K!Top(running) = stack[running][n]
      /\ \A t \in K!Threads : Len(stack[t]) \in Nat
  BY TopFacts DEF StackType
<1>2. \A t \in K!Threads : \A i \in 1 .. Len(stack[t]) :
        /\ On(stack'[t][i]) <=> On(stack[t][i])
        /\ stack'[t][i].prog = stack[t][i].prog
  <2> SUFFICES ASSUME NEW t \in K!Threads, NEW i \in 1 .. Len(stack[t])
               PROVE  /\ On(stack'[t][i]) <=> On(stack[t][i])
                      /\ stack'[t][i].prog = stack[t][i].prog
    OBVIOUS
  <2>1. CASE t = running /\ i = n
    BY <1>1, <2>1 DEF Moved, SameProgs
  <2>2. CASE ~(t = running /\ i = n)
    BY <2>2 DEF Moved, SameProgs
  <2> QED BY <2>1, <2>2
<1>3. \A t \in K!Threads : Len(stack'[t]) = Len(stack[t])
  BY DEF Moved, SameProgs
<1>4. (iflag => \A i \in 1 .. Len(stack[running]) : On(stack[running][i]))'
  BY <1>1, <1>2, <1>3 DEF Flags, Moved
<1>5. (~iflag => ~On(K!Top(running)) \/ K!Top(running).prog = "panic")'
  BY <1>1 DEF Flags, Moved
<1>6. (\A t \in K!Threads : t # running => \A i \in 1 .. Len(stack[t]) : On(stack[t][i]))'
  BY <1>2, <1>3 DEF Flags, Moved
<1>7. (\A t \in K!Threads : \A i \in 1 .. Len(stack[t]) : stack[t][i].prog \in K!Interrupts =>
         \A j \in 1 .. i - 1 : On(stack[t][j]))'
  BY <1>1, <1>2, <1>3 DEF Flags
<1> QED BY <1>4, <1>5, <1>6, <1>7 DEF Flags

\* Thread t has not panicked.
NoPanicIn(t) == \A i \in 1 .. Len(stack[t]) : stack[t][i].prog # "panic"

\* A move keeps PanicKeeps unless, after a panic of kernel_main, it enabled
\* interrupts or took one of the two locks.
LEMMA MovePanicKeeps ==
  ASSUME StackType, PanicKeeps, NEW b, Moved(b), iflag' \in BOOLEAN,
         iflag' /\ running = "main" => iflag \/ NoPanicIn("main"),
         \A l \in {"MAPPER", "FRAME_ALLOCATOR"} :
           lock'[l] = "main" => lock[l] = "main" \/ NoPanicIn("main")
  PROVE  PanicKeeps'
<1> SUFFICES ASSUME NEW l \in {"MAPPER", "FRAME_ALLOCATOR"},
                    NEW i \in 1 .. Len(stack'["main"]),
                    lock'[l] = "main", stack'["main"][i].prog = "panic"
             PROVE  running' = "main" /\ ~iflag' /\ K!Top("main")'.prog = "panic"
  BY DEF PanicKeeps
<1>1. "main" \in K!Threads
  BY DEF K!Threads
<1>2. i \in 1 .. Len(stack["main"]) /\ stack["main"][i].prog = "panic"
  BY <1>1 DEF Moved, SameProgs
<1>3. ~NoPanicIn("main")
  BY <1>2 DEF NoPanicIn
<1>4. running = "main" /\ ~iflag /\ K!Top("main").prog = "panic"
  BY <1>2, <1>3 DEF PanicKeeps
<1> QED BY <1>1, <1>3, <1>4 DEF Moved

\* A move between points that hold the same locks keeps ownership.
LEMMA MoveLocks ==
  ASSUME StackType, Held, Owner, Once, NEW b, Moved(b), lock' = lock,
         \A l \in K!Locks : Holds(b, l) <=> Holds(K!Top(running), l)
  PROVE  Held' /\ Owner' /\ Once'
<1> DEFINE n == Len(stack[running])
<1>1. /\ running \in K!Threads /\ n \in Nat /\ n >= 1 /\ K!Top(running) = stack[running][n]
      /\ \A t \in K!Threads : Len(stack[t]) \in Nat
  BY TopFacts DEF StackType
<1>2. \A t \in K!Threads : \A i \in 1 .. Len(stack[t]) : \A l \in K!Locks :
        Holds(stack'[t][i], l) <=> Holds(stack[t][i], l)
  <2> SUFFICES ASSUME NEW t \in K!Threads, NEW i \in 1 .. Len(stack[t]), NEW l \in K!Locks
               PROVE  Holds(stack'[t][i], l) <=> Holds(stack[t][i], l)
    OBVIOUS
  <2>1. CASE t = running /\ i = n
    BY <1>1, <2>1 DEF Moved
  <2>2. CASE ~(t = running /\ i = n)
    BY <2>2 DEF Moved, SameProgs
  <2> QED BY <2>1, <2>2
<1>3. \A t \in K!Threads : Len(stack'[t]) = Len(stack[t])
  BY DEF Moved, SameProgs
<1>4. \A t \in K!Threads : \A i \in 1 .. Len(stack[t]) : Live(t, i)' <=> Live(t, i)
  BY DEF Moved
<1>5. Held'
  BY <1>2, <1>3 DEF Held, StackType
<1>6. Owner'
  BY <1>2, <1>3, <1>4 DEF Owner
<1>7. Once'
  BY <1>2, <1>3, <1>4 DEF Once
<1> QED BY <1>5, <1>6, <1>7

\* So does taking a free lock ...
LEMMA MoveAcquire ==
  ASSUME StackType, Held, Owner, Once, NEW b, Moved(b), NEW l \in K!Locks,
         lock[l] = "free", lock' = [lock EXCEPT ![l] = running],
         \A m \in K!Locks : Holds(b, m) <=> Holds(K!Top(running), m) \/ m = l
  PROVE  Held' /\ Owner' /\ Once'
<1> DEFINE n == Len(stack[running])
<1>1. /\ running \in K!Threads /\ n \in Nat /\ n >= 1 /\ K!Top(running) = stack[running][n]
      /\ \A t \in K!Threads : Len(stack[t]) \in Nat
      /\ "free" \notin K!Threads
  BY TopFacts DEF StackType, K!Threads
<1>2. \A t \in K!Threads : \A i \in 1 .. Len(stack[t]) : \A m \in K!Locks :
        Holds(stack'[t][i], m) <=> \/ Holds(stack[t][i], m)
                                   \/ t = running /\ i = n /\ m = l
  <2> SUFFICES ASSUME NEW t \in K!Threads, NEW i \in 1 .. Len(stack[t]), NEW m \in K!Locks
               PROVE  Holds(stack'[t][i], m) <=> \/ Holds(stack[t][i], m)
                                                 \/ t = running /\ i = n /\ m = l
    OBVIOUS
  <2>1. CASE t = running /\ i = n
    BY <1>1, <2>1 DEF Moved
  <2>2. CASE ~(t = running /\ i = n)
    BY <2>2 DEF Moved, SameProgs
  <2> QED BY <2>1, <2>2
<1>3. \A t \in K!Threads : Len(stack'[t]) = Len(stack[t])
  BY DEF Moved, SameProgs
<1>4. \A t \in K!Threads : \A i \in 1 .. Len(stack[t]) : Live(t, i)' <=> Live(t, i)
  BY DEF Moved
<1>5. /\ lock'[l] = running
      /\ \A m \in K!Locks : m # l => lock'[m] = lock[m]
  BY DEF StackType
<1>6. \* nobody who could give it back holds the lock
      \A t \in K!Threads : \A i \in 1 .. Len(stack[t]) : Live(t, i) => ~Holds(stack[t][i], l)
  BY <1>1 DEF Owner
<1>7. Held'
  <2> SUFFICES ASSUME NEW m \in K!Locks, lock'[m] # "free"
               PROVE  \E i \in 1 .. Len(stack'[lock'[m]]) : Holds(stack'[lock'[m]][i], m)
    BY DEF Held
  <2>1. CASE m = l
    <3>1. n \in 1 .. Len(stack'[running])
      BY <1>1, <1>3
    <3>2. Holds(stack'[running][n], l)
      BY <1>1, <1>2
    <3> QED BY <1>5, <2>1, <3>1, <3>2
  <2>2. CASE m # l
    <3>1. lock'[m] = lock[m] /\ lock[m] \in K!Threads
      BY <1>5, <2>2 DEF StackType
    <3>2. PICK i \in 1 .. Len(stack[lock[m]]) : Holds(stack[lock[m]][i], m)
      BY <3>1 DEF Held
    <3>3. i \in 1 .. Len(stack'[lock[m]]) /\ Holds(stack'[lock[m]][i], m)
      BY <1>2, <1>3, <3>1, <3>2
    <3> QED BY <3>1, <3>3
  <2> QED BY <2>1, <2>2
<1>8. Owner'
  <2> SUFFICES ASSUME NEW t \in K!Threads, NEW i \in 1 .. Len(stack'[t]), NEW m \in K!Locks,
                      Holds(stack'[t][i], m), Live(t, i)'
               PROVE  lock'[m] = t
    BY DEF Owner
  <2>1. i \in 1 .. Len(stack[t]) /\ Live(t, i)
    BY <1>3, <1>4
  <2>2. Holds(stack[t][i], m) \/ (t = running /\ m = l)
    BY <1>2, <2>1
  <2> QED BY <1>5, <1>6, <2>1, <2>2 DEF Owner
<1>9. Once'
  <2> SUFFICES ASSUME NEW t \in K!Threads, NEW i \in 1 .. Len(stack'[t]),
                      NEW j \in 1 .. Len(stack'[t]), NEW m \in K!Locks,
                      Live(t, i)', Live(t, j)', Holds(stack'[t][i], m), Holds(stack'[t][j], m)
               PROVE  i = j
    BY DEF Once
  <2>1. /\ i \in 1 .. Len(stack[t]) /\ Live(t, i) /\ j \in 1 .. Len(stack[t]) /\ Live(t, j)
    BY <1>3, <1>4
  <2>2. /\ Holds(stack[t][i], m) \/ (i = n /\ m = l)
        /\ Holds(stack[t][j], m) \/ (j = n /\ m = l)
    BY <1>2, <2>1
  <2> QED BY <1>6, <2>1, <2>2 DEF Once
<1> QED BY <1>7, <1>8, <1>9

\* ... and releasing a held one.
LEMMA MoveRelease ==
  ASSUME StackType, Held, Owner, Once, NEW b, Moved(b), NEW l \in K!Locks,
         Holds(K!Top(running), l), lock' = [lock EXCEPT ![l] = "free"],
         \A m \in K!Locks : Holds(b, m) <=> Holds(K!Top(running), m) /\ m # l
  PROVE  Held' /\ Owner' /\ Once'
<1> DEFINE n == Len(stack[running])
<1>1. /\ running \in K!Threads /\ n \in Nat /\ n >= 1 /\ K!Top(running) = stack[running][n]
      /\ \A t \in K!Threads : Len(stack[t]) \in Nat
      /\ "free" \notin K!Threads
  BY TopFacts DEF StackType, K!Threads
<1>2. \A t \in K!Threads : \A i \in 1 .. Len(stack[t]) : \A m \in K!Locks :
        Holds(stack'[t][i], m) <=> /\ Holds(stack[t][i], m)
                                   /\ ~(t = running /\ i = n /\ m = l)
  <2> SUFFICES ASSUME NEW t \in K!Threads, NEW i \in 1 .. Len(stack[t]), NEW m \in K!Locks
               PROVE  Holds(stack'[t][i], m) <=> /\ Holds(stack[t][i], m)
                                                 /\ ~(t = running /\ i = n /\ m = l)
    OBVIOUS
  <2>1. CASE t = running /\ i = n
    BY <1>1, <2>1 DEF Moved
  <2>2. CASE ~(t = running /\ i = n)
    BY <2>2 DEF Moved, SameProgs
  <2> QED BY <2>1, <2>2
<1>3. \A t \in K!Threads : Len(stack'[t]) = Len(stack[t])
  BY DEF Moved, SameProgs
<1>4. \A t \in K!Threads : \A i \in 1 .. Len(stack[t]) : Live(t, i)' <=> Live(t, i)
  BY DEF Moved
<1>5. /\ lock'[l] = "free"
      /\ \A m \in K!Locks : m # l => lock'[m] = lock[m]
  BY DEF StackType
<1>6. /\ n \in 1 .. Len(stack[running]) /\ Live(running, n) /\ lock[l] = running
      /\ Holds(stack[running][n], l)
  BY <1>1 DEF Owner, Live
<1>7. Held'
  <2> SUFFICES ASSUME NEW m \in K!Locks, lock'[m] # "free"
               PROVE  \E i \in 1 .. Len(stack'[lock'[m]]) : Holds(stack'[lock'[m]][i], m)
    BY DEF Held
  <2>1. m # l /\ lock'[m] = lock[m] /\ lock[m] \in K!Threads
    BY <1>5 DEF StackType
  <2>2. PICK i \in 1 .. Len(stack[lock[m]]) : Holds(stack[lock[m]][i], m)
    BY <2>1 DEF Held
  <2>3. i \in 1 .. Len(stack'[lock[m]]) /\ Holds(stack'[lock[m]][i], m)
    BY <1>2, <1>3, <2>1, <2>2
  <2> QED BY <2>1, <2>3
<1>8. Owner'
  <2> SUFFICES ASSUME NEW t \in K!Threads, NEW i \in 1 .. Len(stack'[t]), NEW m \in K!Locks,
                      Holds(stack'[t][i], m), Live(t, i)'
               PROVE  lock'[m] = t
    BY DEF Owner
  <2>1. i \in 1 .. Len(stack[t]) /\ Live(t, i)
    BY <1>3, <1>4
  <2>2. Holds(stack[t][i], m) /\ ~(t = running /\ i = n /\ m = l)
    BY <1>2, <2>1
  <2>3. lock[m] = t
    BY <2>1, <2>2 DEF Owner
  <2>4. m # l
    BY <1>6, <2>1, <2>2, <2>3 DEF Once
  <2> QED BY <1>5, <2>3, <2>4
<1>9. Once'
  <2> SUFFICES ASSUME NEW t \in K!Threads, NEW i \in 1 .. Len(stack'[t]),
                      NEW j \in 1 .. Len(stack'[t]), NEW m \in K!Locks,
                      Live(t, i)', Live(t, j)', Holds(stack'[t][i], m), Holds(stack'[t][j], m)
               PROVE  i = j
    BY DEF Once
  <2>1. /\ i \in 1 .. Len(stack[t]) /\ Live(t, i) /\ j \in 1 .. Len(stack[t]) /\ Live(t, j)
    BY <1>3, <1>4
  <2>2. Holds(stack[t][i], m) /\ Holds(stack[t][j], m)
    BY <1>2, <2>1
  <2> QED BY <2>1, <2>2 DEF Once
<1> QED BY <1>7, <1>8, <1>9

\* Where on its stack an activation can be.
LEMMA Bases ==
  ASSUME StackType, Shape
  PROVE  /\ K!Top(running).prog \in Mains => running = "main" /\ Len(stack[running]) = 1
         /\ K!Top(running).prog = "user" => running = "init" /\ Len(stack[running]) = 1
         /\ K!Top(running).prog \in K!Syscalls \cup {"debug_handler"} => running = "init"
         /\ K!Top(running).prog \in K!Syscalls => Len(stack[running]) = 2
         /\ Len(stack[running]) = 1 => K!Top(running).prog \in Mains \cup {"user"}
<1> DEFINE n == Len(stack[running])
<1>1. /\ running \in K!Threads /\ n \in Nat /\ n >= 1 /\ K!Top(running) = stack[running][n]
  BY TopFacts
<1>2. n = 1 \/ (n # 1 /\ n \in 2 .. n)
  <2>1. n \in Nat /\ n >= 1
    BY <1>1
  <2> HIDE DEF n
  <2> QED BY <2>1
<1>3. CASE n = 1
  BY <1>1, <1>3 DEF Shape, K!Threads, Mains, K!Syscalls
<1>4. CASE n # 1 /\ n \in 2 .. n
  <2>1. /\ K!Top(running).prog \in Handlers \cup K!Syscalls \cup {"panic"}
        /\ K!Top(running).prog \in K!Syscalls \cup {"debug_handler"} => running = "init"
        /\ K!Top(running).prog \in K!Syscalls => n = 2
    BY <1>1, <1>4 DEF Shape
  <2> QED BY <1>4, <2>1 DEF Handlers, K!Interrupts, K!Prioritised, K!Syscalls, Mains
<1> QED BY <1>2, <1>3, <1>4

\* cli and sti keep Flags: sti occurs only in kernel_main, alone on its stack,
\* and in anon_allocate_syscall, right above the user program.
LEMMA MoveSetsFlag ==
  ASSUME StackType, Shape, Flags, NEW b, Moved(b), iflag' \in BOOLEAN,
         On(b) <=> iflag',
         iflag' => K!Top(running).prog \in Mains \cup {"anon_allocate_syscall"}
  PROVE  Flags'
<1> DEFINE n == Len(stack[running])
<1>1. /\ running \in K!Threads /\ n \in Nat /\ n >= 1 /\ K!Top(running) = stack[running][n]
      /\ \A t \in K!Threads : Len(stack[t]) \in Nat
  BY TopFacts DEF StackType
<1>2. \A t \in K!Threads : \A i \in 1 .. Len(stack[t]) :
        /\ ~(t = running /\ i = n) => stack'[t][i] = stack[t][i]
        /\ stack'[t][i].prog = stack[t][i].prog
  BY DEF Moved, SameProgs
<1>3. \A t \in K!Threads : Len(stack'[t]) = Len(stack[t])
  BY DEF Moved, SameProgs
<1>4. (iflag => \A i \in 1 .. Len(stack[running]) : On(stack[running][i]))'
  <2> SUFFICES ASSUME iflag', NEW i \in 1 .. n
               PROVE  On(stack'[running][i])
    BY <1>1, <1>3 DEF Moved
  <2>1. CASE i = n
    BY <2>1 DEF Moved
  <2>2. CASE i # n
    <3>1. K!Top(running).prog = "anon_allocate_syscall"
      BY <1>1, <2>2, Bases
    <3>2. running = "init" /\ n = 2
      BY <3>1, Bases DEF K!Syscalls
    <3>3. i = 1
      BY <2>2, <3>2
    <3>4. stack'[running][i].prog = "user"
      BY <1>1, <1>2, <3>2, <3>3 DEF Shape
    <3> QED BY <3>4 DEF On
  <2> QED BY <2>1, <2>2
<1>5. (~iflag => ~On(K!Top(running)) \/ K!Top(running).prog = "panic")'
  BY DEF Moved
<1>6. (\A t \in K!Threads : t # running => \A i \in 1 .. Len(stack[t]) : On(stack[t][i]))'
  BY <1>2, <1>3 DEF Flags, Moved
<1>7. (\A t \in K!Threads : \A i \in 1 .. Len(stack[t]) : stack[t][i].prog \in K!Interrupts =>
         \A j \in 1 .. i - 1 : On(stack[t][j]))'
  <2> SUFFICES ASSUME NEW t \in K!Threads, NEW i \in 1 .. Len(stack'[t]),
                      stack'[t][i].prog \in K!Interrupts, NEW j \in 1 .. i - 1
               PROVE  On(stack'[t][j])
    OBVIOUS
  <2>1. i \in 1 .. Len(stack[t]) /\ stack[t][i].prog \in K!Interrupts
    BY <1>2, <1>3
  <2>2. j \in 1 .. Len(stack[t]) /\ ~(t = running /\ j = n)
    BY <1>1, <2>1
  <2>3. stack'[t][j] = stack[t][j]
    BY <1>2, <2>2
  <2>4. On(stack[t][j])
    BY <2>1 DEF Flags
  <2> QED BY <2>3, <2>4
<1> QED BY <1>4, <1>5, <1>6, <1>7 DEF Flags

-----------------------------------------------------------------------------
\* Operation by operation: Core is preserved.

\* The point after the next operation of the running thread.
Succ == [prog |-> K!Top(running).prog, pc |-> K!Top(running).pc + 1]

\* Advanced moves to that point, and it is inside the code.
LEMMA AdvancedPoint ==
  ASSUME StackType, stack' = K!Advanced(running),
         K!Top(running).pc < Len(K!Code[K!Top(running).prog])
  PROVE  Succ \in Points /\ Moves(Succ) /\ InCode(Succ)
<1> DEFINE n == Len(stack[running])
           a == K!Top(running)
           b == [prog |-> K!Top(running).prog, pc |-> K!Top(running).pc + 1]
<1>1. a \in Points /\ a = stack[running][n] /\ a.pc \in 1 .. Len(K!Code[a.prog])
  BY TopFacts
<1>2. a.pc + 1 \in Nat /\ b \in Points
  BY <1>1 DEF Points
<1>3. stack' = [stack EXCEPT ![running][n].pc = a.pc + 1]
  <2>1. stack' = [stack EXCEPT ![running] = [stack[running] EXCEPT ![n] =
                    [stack[running][n] EXCEPT !.pc = stack[running][n].pc + 1]]]
    BY DEF K!Advanced
  <2> QED BY <1>1, <2>1
<1>4. Moves(b)
  BY <1>2, <1>3, MoveStack
<1>5. InCode(b)
  <2> DEFINE p == K!Top(running).prog
             k == K!Top(running).pc
  <2>1. k \in 1 .. Len(K!Code[p]) /\ k < Len(K!Code[p])
    BY <1>1
  <2> HIDE DEF p, k
  <2>2. k + 1 \in 1 .. Len(K!Code[p])
    BY <2>1
  <2> QED BY <2>2 DEF InCode, p, k
<1> QED BY <1>2, <1>4, <1>5 DEF Succ

\* A move between points that agree on locks and flag keeps Core.
LEMMA QuietMove ==
  ASSUME Core, NEW b \in Points, Moves(b), b.prog = K!Top(running).prog, InCode(b),
         Alike(K!Top(running), b),
         running' = running, iflag' = iflag, lock' = lock
  PROVE  Core' /\ Moved(b)
<1>1. StackType /\ Shape /\ Flags /\ Held /\ Owner /\ Once /\ PanicKeeps
  BY DEF Core
<1>2. iflag' \in BOOLEAN /\ lock' \in [K!Locks -> K!Threads \cup {"free"}]
  BY <1>1 DEF StackType
<1>3. Moved(b)
  BY <1>1, <1>2, MoveCommon
<1>4. /\ On(b) <=> On(K!Top(running))
      /\ \A l \in K!Locks : Holds(b, l) <=> Holds(K!Top(running), l)
  BY DEF Alike
<1>5. Flags'
  BY <1>1, <1>3, <1>4, MoveFlags
<1>6. Held' /\ Owner' /\ Once'
  BY <1>1, <1>3, <1>4, MoveLocks
<1>7. PanicKeeps'
  BY <1>1, <1>2, <1>3, MovePanicKeeps
<1> QED BY <1>3, <1>5, <1>6, <1>7 DEF Core, Moved

\* emit, map, user_memory, spawn and the like keep Core.
LEMMA QuietStep ==
  ASSUME Core, K!Op(running)[1] \in Advancing, stack' = K!Advanced(running),
         running' = running, iflag' = iflag, lock' = lock
  PROVE  Core' /\ Moved(Succ)
<1>1. StackType
  BY DEF Core
<1>2. /\ Steps(K!Top(running).prog, K!Top(running).pc, K!Op(running))
      /\ K!Top(running) = [prog |-> K!Top(running).prog, pc |-> K!Top(running).pc]
  BY <1>1, TopFacts
<1>3. K!Top(running).pc < Len(K!Code[K!Top(running).prog]) /\ Alike(K!Top(running), Succ)
  BY <1>2 DEF Steps, Succ
<1>4. Succ \in Points /\ Moves(Succ) /\ InCode(Succ)
  BY <1>1, <1>3, AdvancedPoint
<1>5. Succ.prog = K!Top(running).prog
  BY DEF Succ
<1> QED BY <1>3, <1>4, <1>5, QuietMove

\* Taking a free lock keeps Core.
LEMMA AcquireStep ==
  ASSUME Core, K!Acquire
  PROVE  Core' /\ Moved(Succ)
<1> DEFINE l == K!Op(running)[2]
<1>1. StackType /\ Shape /\ Flags /\ Held /\ Owner /\ Once /\ PanicKeeps
  BY DEF Core
<1>2. /\ K!Op(running)[1] = "lock" /\ lock[l] = "free"
      /\ lock' = [lock EXCEPT ![l] = running] /\ stack' = K!Advanced(running)
      /\ running' = running /\ iflag' = iflag
  BY DEF K!Acquire, K!At
<1>3. /\ Steps(K!Top(running).prog, K!Top(running).pc, K!Op(running))
      /\ Where(K!Top(running).prog, K!Top(running).pc, K!Op(running))
      /\ K!Top(running) = [prog |-> K!Top(running).prog, pc |-> K!Top(running).pc]
      /\ running \in K!Threads
  BY <1>1, TopFacts
<1>4. /\ K!Top(running).pc < Len(K!Code[K!Top(running).prog])
      /\ l \in K!Locks /\ (On(Succ) <=> On(K!Top(running)))
      /\ \A m \in K!Locks : Holds(Succ, m) <=> Holds(K!Top(running), m) \/ m = l
  BY <1>2, <1>3 DEF Steps, Succ
<1>5. l \in {"MAPPER", "FRAME_ALLOCATOR"} =>
        K!Top(running).prog \in Mains \cup {"anon_allocate_syscall"}
  BY <1>2, <1>3 DEF Where
<1> HIDE DEF l
<1>6. Succ \in Points /\ Moves(Succ) /\ InCode(Succ)
  BY <1>1, <1>2, <1>4, AdvancedPoint
<1>7. Succ.prog = K!Top(running).prog
  BY DEF Succ
<1>8. iflag' \in BOOLEAN /\ lock' \in [K!Locks -> K!Threads \cup {"free"}]
  BY <1>1, <1>2, <1>3 DEF StackType
<1>9. Moved(Succ)
  BY <1>1, <1>2, <1>6, <1>7, <1>8, MoveCommon
<1>10. Flags'
  BY <1>1, <1>2, <1>4, <1>9, MoveFlags
<1>11. Held' /\ Owner' /\ Once'
  BY <1>1, <1>2, <1>4, <1>9, MoveAcquire
<1>12. \A m \in {"MAPPER", "FRAME_ALLOCATOR"} :
         lock'[m] = "main" => lock[m] = "main" \/ NoPanicIn("main")
  <2> SUFFICES ASSUME NEW m \in {"MAPPER", "FRAME_ALLOCATOR"},
                      lock'[m] = "main", lock[m] # "main"
               PROVE  NoPanicIn("main")
    OBVIOUS
  <2>1. m \in K!Locks
    BY DEF K!Locks
  <2>2. m = l /\ running = "main"
    BY <1>1, <1>2, <1>4, <2>1 DEF StackType
  <2>3. K!Top(running).prog \in Mains
    BY <1>1, <1>5, <2>2, Bases DEF K!Syscalls
  <2>4. Len(stack["main"]) = 1
    BY <1>1, <2>2, <2>3, Bases
  <2>5. stack["main"][1].prog # "panic"
    BY <1>1 DEF Shape, Mains
  <2> QED BY <2>4, <2>5 DEF NoPanicIn
<1>13. PanicKeeps'
  BY <1>1, <1>2, <1>8, <1>9, <1>12, MovePanicKeeps
<1> QED BY <1>9, <1>10, <1>11, <1>13 DEF Core, Moved

\* Releasing a lock keeps Core.
LEMMA ReleaseStep ==
  ASSUME Core, K!Release
  PROVE  Core' /\ Moved(Succ)
<1> DEFINE l == K!Op(running)[2]
<1>1. StackType /\ Shape /\ Flags /\ Held /\ Owner /\ Once /\ PanicKeeps
  BY DEF Core
<1>2. /\ K!Op(running)[1] = "unlock"
      /\ lock' = [lock EXCEPT ![l] = "free"] /\ stack' = K!Advanced(running)
      /\ running' = running /\ iflag' = iflag
  BY DEF K!Release, K!At
<1>3. /\ Steps(K!Top(running).prog, K!Top(running).pc, K!Op(running))
      /\ K!Top(running) = [prog |-> K!Top(running).prog, pc |-> K!Top(running).pc]
      /\ running \in K!Threads
  BY <1>1, TopFacts
<1>4. /\ K!Top(running).pc < Len(K!Code[K!Top(running).prog])
      /\ l \in K!Locks /\ (On(Succ) <=> On(K!Top(running))) /\ Holds(K!Top(running), l)
      /\ \A m \in K!Locks : Holds(Succ, m) <=> Holds(K!Top(running), m) /\ m # l
  BY <1>2, <1>3 DEF Steps, Succ
<1> HIDE DEF l
<1>5. Succ \in Points /\ Moves(Succ) /\ InCode(Succ)
  BY <1>1, <1>2, <1>4, AdvancedPoint
<1>6. Succ.prog = K!Top(running).prog
  BY DEF Succ
<1>7. iflag' \in BOOLEAN /\ lock' \in [K!Locks -> K!Threads \cup {"free"}]
  BY <1>1, <1>2, <1>3 DEF StackType
<1>8. Moved(Succ)
  BY <1>1, <1>2, <1>5, <1>6, <1>7, MoveCommon
<1>9. Flags'
  BY <1>1, <1>2, <1>4, <1>8, MoveFlags
<1>10. Held' /\ Owner' /\ Once'
  BY <1>1, <1>2, <1>4, <1>8, MoveRelease
<1>11. \A m \in {"MAPPER", "FRAME_ALLOCATOR"} : lock'[m] = "main" => lock[m] = "main"
  BY <1>1, <1>2 DEF StackType, K!Locks
<1>12. PanicKeeps'
  BY <1>1, <1>2, <1>7, <1>8, <1>11, MovePanicKeeps
<1> QED BY <1>8, <1>9, <1>10, <1>12 DEF Core, Moved

\* cli and sti keep Core.
LEMMA FlagStep ==
  ASSUME Core, K!SetInterruptFlag
  PROVE  Core' /\ Moved(Succ)
<1>1. StackType /\ Shape /\ Flags /\ Held /\ Owner /\ Once /\ PanicKeeps
  BY DEF Core
<1>2. /\ K!Op(running)[1] \in {"cli", "sti"} /\ iflag' = (K!Op(running)[1] = "sti")
      /\ stack' = K!Advanced(running) /\ running' = running /\ lock' = lock
  BY DEF K!SetInterruptFlag, K!At
<1>3. /\ Steps(K!Top(running).prog, K!Top(running).pc, K!Op(running))
      /\ Where(K!Top(running).prog, K!Top(running).pc, K!Op(running))
      /\ K!Top(running) = [prog |-> K!Top(running).prog, pc |-> K!Top(running).pc]
  BY <1>1, TopFacts
<1>4. /\ K!Top(running).pc < Len(K!Code[K!Top(running).prog])
      /\ On(Succ) <=> iflag'
      /\ \A m \in K!Locks : Holds(Succ, m) <=> Holds(K!Top(running), m)
  BY <1>2, <1>3 DEF Steps, Succ
<1>5. iflag' => K!Top(running).prog \in Mains \cup {"anon_allocate_syscall"}
  BY <1>2, <1>3 DEF Where
<1>6. Succ \in Points /\ Moves(Succ) /\ InCode(Succ)
  BY <1>1, <1>2, <1>4, AdvancedPoint
<1>7. Succ.prog = K!Top(running).prog
  BY DEF Succ
<1>8. iflag' \in BOOLEAN /\ lock' \in [K!Locks -> K!Threads \cup {"free"}]
  BY <1>1, <1>2 DEF StackType
<1>9. Moved(Succ)
  BY <1>1, <1>2, <1>6, <1>7, <1>8, MoveCommon
<1>10. Flags'
  BY <1>1, <1>4, <1>5, <1>8, <1>9, MoveSetsFlag
<1>11. Held' /\ Owner' /\ Once'
  BY <1>1, <1>2, <1>4, <1>9, MoveLocks
<1>12. iflag' /\ running = "main" => NoPanicIn("main")
  <2> SUFFICES ASSUME iflag', running = "main"
               PROVE  NoPanicIn("main")
    OBVIOUS
  <2>1. K!Top(running).prog \in Mains
    BY <1>1, <1>5, Bases DEF K!Syscalls
  <2>2. Len(stack["main"]) = 1
    BY <1>1, <2>1, Bases
  <2>3. stack["main"][1].prog # "panic"
    BY <1>1 DEF Shape, Mains
  <2> QED BY <2>2, <2>3 DEF NoPanicIn
<1>13. PanicKeeps'
  BY <1>1, <1>2, <1>8, <1>9, <1>12, MovePanicKeeps
<1> QED BY <1>9, <1>10, <1>11, <1>13 DEF Core, Moved

\* Every function has a first operation.
LEMMA Starts ==
  ASSUME NEW p \in Progs
  PROVE  K!Activation(p) \in Points /\ InCode(K!Activation(p))
<1>1. K!Activation(p) \in Points /\ K!Activation(p).pc = 1 /\ K!Activation(p).prog = p
  BY DEF K!Activation, Points
<1>2. p \in {"user", "timer_handler", "keyboard_handler"} => Len(K!Code[p]) >= 1
  BY DEF K!Code, K!timer_handler, K!keyboard_handler, K!send_eoi
<1>3. p \in Loggers \cup {"unknown_syscall", "panic"} => Len(K!Code[p]) >= 1
  BY DEF K!Code, Loggers, K!logging_handler, K!unknown_syscall, K!panic, K!Log
<1>4. p \in {"read_syscall", "write_syscall", "anon_allocate_syscall"} => Len(K!Code[p]) >= 1
  BY DEF K!Code, K!read_syscall, K!write_syscall, K!anon_allocate_syscall
<1>5. p = "kernel_main" => Len(K!Code[p]) >= 1
  BY DEF K!Code, K!kernel_main, K!Boot, K!Log, K!HeapAlloc, K!add_user_process
<1>6. p = "kernel_main_no_ramdisk" => Len(K!Code[p]) >= 1
  BY DEF K!Code, K!kernel_main, K!Boot, K!Log, K!HeapAlloc
<1>7. Len(K!Code[p]) >= 1
  BY <1>2, <1>3, <1>4, <1>5, <1>6 DEF Progs, Loggers
<1> QED BY <1>1, <1>7 DEF InCode

\* A call: a new innermost activation, which holds nothing yet; a panic
\* deprives its caller of the chance to unlock.
Pushed(p) ==
  /\ running' = running
  /\ StackType' /\ Shape' /\ Calls(p)
  /\ K!Top(running)' = K!Activation(p)
  /\ \A t \in K!Threads : t # running => K!Top(t)' = K!Top(t)
  /\ \A t \in K!Threads : \A i \in 1 .. Len(stack'[t]) : \A l \in K!Locks :
       Holds(stack'[t][i], l) /\ Live(t, i)' =>
         /\ i \in 1 .. Len(stack[t]) /\ Holds(stack[t][i], l) /\ Live(t, i)
         /\ ~(t = running /\ i = Len(stack[running]) /\ p = "panic")

\* A call keeps types and shape of the stacks.
LEMMA CallCommon ==
  ASSUME StackType, Shape, NEW p \in Progs, stack' = K!Called(running, p),
         running' = running, iflag' \in BOOLEAN,
         lock' \in [K!Locks -> K!Threads \cup {"free"}],
         p \in Handlers \cup K!Syscalls \cup {"panic"},
         p \in K!Syscalls \cup {"debug_handler"} => running = "init",
         p \in K!Syscalls => Len(stack[running]) = 1
  PROVE  Pushed(p)
<1> DEFINE n == Len(stack[running])
<1>1. /\ running \in K!Threads /\ n \in Nat /\ n >= 1 /\ K!Top(running) = stack[running][n]
      /\ \A t \in K!Threads : Len(stack[t]) \in Nat /\ Len(stack[t]) >= 1
  BY TopFacts DEF StackType
<1>2. Calls(p)
  BY CallStack
<1>3. K!Activation(p) \in Points /\ InCode(K!Activation(p)) /\ K!Activation(p).prog = p
      /\ K!Activation(p).pc = 1
  BY Starts DEF K!Activation
<1>4. \A t \in K!Threads : /\ stack'[t] \in Seq(Points)
                           /\ Len(stack'[t]) = IF t = running THEN n + 1 ELSE Len(stack[t])
  BY <1>2 DEF Calls, StackType
<1>5. \A t \in K!Threads : \A i \in 1 .. Len(stack[t]) : stack'[t][i] = stack[t][i]
  BY <1>2 DEF Calls
<1>6. stack'[running][n + 1] = K!Activation(p)
  BY <1>2 DEF Calls
<1>7. \A t \in K!Threads : \A i \in 1 .. Len(stack'[t]) :
        \/ i \in 1 .. Len(stack[t]) /\ stack'[t][i] = stack[t][i]
        \/ t = running /\ i = n + 1 /\ stack'[t][i] = K!Activation(p)
  <2> SUFFICES ASSUME NEW t \in K!Threads, NEW i \in 1 .. Len(stack'[t])
               PROVE  \/ i \in 1 .. Len(stack[t]) /\ stack'[t][i] = stack[t][i]
                      \/ t = running /\ i = n + 1 /\ stack'[t][i] = K!Activation(p)
    OBVIOUS
  <2>1. i \in 1 .. Len(stack[t]) \/ (t = running /\ i = n + 1)
    BY <1>1, <1>4
  <2> QED BY <1>5, <1>6, <2>1
<1>8. StackType'
  <2>1. DOMAIN stack' = K!Threads
    BY <1>2 DEF Calls
  <2>2. \A t \in K!Threads : Len(stack'[t]) >= 1
    BY <1>1, <1>4
  <2>3. \A t \in K!Threads : \A i \in 1 .. Len(stack'[t]) : InCode(stack'[t][i])
    BY <1>3, <1>7 DEF StackType
  <2> QED BY <1>1, <1>4, <2>1, <2>2, <2>3 DEF StackType, InCode
<1>9. Shape'
  <2>1. "main" \in K!Threads /\ "init" \in K!Threads
    BY DEF K!Threads
  <2>2. stack'["main"][1].prog \in Mains /\ stack'["init"][1].prog = "user"
    <3>1. 1 \in 1 .. Len(stack["main"]) /\ 1 \in 1 .. Len(stack["init"])
      BY <1>1, <2>1
    <3> QED BY <1>5, <2>1, <3>1 DEF Shape
  <2>3. ASSUME NEW t \in K!Threads, NEW i \in 2 .. Len(stack'[t])
        PROVE  \/ i \in 2 .. Len(stack[t]) /\ stack'[t][i] = stack[t][i]
               \/ t = running /\ i = n + 1 /\ stack'[t][i].prog = p
    BY <1>1, <1>3, <1>4, <1>7
  <2>4. (\A t \in K!Threads : \A i \in 2 .. Len(stack[t]) :
           stack[t][i].prog \in Handlers \cup K!Syscalls \cup {"panic"})'
    BY <2>3 DEF Shape
  <2>5. (\A t \in K!Threads : \A i \in 2 .. Len(stack[t]) :
           /\ stack[t][i].prog \in K!Syscalls \cup {"debug_handler"} => t = "init"
           /\ stack[t][i].prog \in K!Syscalls => i = 2)'
    BY <2>3 DEF Shape
  <2> QED BY <2>2, <2>4, <2>5 DEF Shape
<1>10. K!Top(running)' = K!Activation(p) /\ \A t \in K!Threads : t # running => K!Top(t)' = K!Top(t)
  <2>1. Len(stack'[running]) = n + 1 /\ stack'[running][n + 1] = K!Activation(p)
    BY <1>2 DEF Calls
  <2>2. K!Top(running)' = stack'[running][Len(stack'[running])]
    BY <1>1, <1>4 DEF K!Top, K!Last
  <2>3. \A t \in K!Threads : t # running => K!Top(t)' = K!Top(t)
    BY <1>2 DEF K!Top, Calls
  <2> QED BY <2>1, <2>2, <2>3
<1>11. ASSUME NEW t \in K!Threads, NEW i \in 1 .. Len(stack'[t]), NEW l \in K!Locks,
              Holds(stack'[t][i], l), Live(t, i)'
       PROVE  /\ i \in 1 .. Len(stack[t]) /\ Holds(stack[t][i], l) /\ Live(t, i)
              /\ ~(t = running /\ i = n /\ p = "panic")
  <2>1. ~Holds(K!Activation(p), l)
    BY <1>3, PointFacts
  <2>2. i \in 1 .. Len(stack[t]) /\ stack'[t][i] = stack[t][i]
    BY <1>7, <1>11, <2>1
  <2>3. Live(t, i)
    <3>1. CASE i = Len(stack[t])
      BY <3>1 DEF Live
    <3>2. CASE i # Len(stack[t])
      <4>1. i + 1 \in 1 .. Len(stack[t])
        BY <1>1, <2>2, <3>2
      <4>2. stack'[t][i + 1] = stack[t][i + 1] /\ i # Len(stack'[t])
        BY <1>1, <1>4, <1>5, <4>1
      <4> QED BY <1>11, <4>2 DEF Live
    <3> QED BY <3>1, <3>2
  <2>4. ~(t = running /\ i = n /\ p = "panic")
    <3> SUFFICES ASSUME t = running, i = n, p = "panic"
                 PROVE  FALSE
      OBVIOUS
    <3>1. i # Len(stack'[t]) /\ stack'[t][i + 1].prog = "panic"
      BY <1>1, <1>3, <1>4, <1>6
    <3> QED BY <1>11, <3>1 DEF Live
  <2> QED BY <1>11, <2>2, <2>3, <2>4
<1> QED BY <1>2, <1>8, <1>9, <1>10, <1>11 DEF Pushed

\* A call keeps Flags when the function is entered with the flag it expects,
\* and an interrupt handler only where interrupts were enabled.
LEMMA CallFlags ==
  ASSUME StackType, Flags, NEW p \in Progs, Pushed(p), iflag' \in BOOLEAN,
         iflag' => iflag /\ On(K!Activation(p)),
         ~iflag' => ~On(K!Activation(p)) \/ p = "panic",
         p \in K!Interrupts => \A i \in 1 .. Len(stack[running]) : On(stack[running][i])
  PROVE  Flags'
<1> DEFINE n == Len(stack[running])
<1>1. /\ running \in K!Threads /\ n \in Nat /\ n >= 1
      /\ \A t \in K!Threads : Len(stack[t]) \in Nat
      /\ running' = running /\ K!Activation(p).prog = p
  BY TopFacts DEF StackType, Pushed, K!Activation
<1>2. /\ Len(stack'[running]) = n + 1 /\ stack'[running][n + 1] = K!Activation(p)
      /\ \A t \in K!Threads : t # running => stack'[t] = stack[t]
      /\ \A i \in 1 .. n : stack'[running][i] = stack[running][i]
  BY DEF Pushed, Calls
<1>3. (iflag => \A i \in 1 .. Len(stack[running]) : On(stack[running][i]))'
  <2> SUFFICES ASSUME iflag', NEW i \in 1 .. n + 1
               PROVE  On(stack'[running][i])
    BY <1>1, <1>2
  <2>1. i \in 1 .. n \/ i = n + 1
    BY <1>1
  <2> QED BY <1>2, <2>1 DEF Flags
<1>4. (~iflag => ~On(K!Top(running)) \/ K!Top(running).prog = "panic")'
  BY <1>1 DEF Pushed
<1>5. (\A t \in K!Threads : t # running => \A i \in 1 .. Len(stack[t]) : On(stack[t][i]))'
  BY <1>1, <1>2 DEF Flags
<1>6. (\A t \in K!Threads : \A i \in 1 .. Len(stack[t]) : stack[t][i].prog \in K!Interrupts =>
         \A j \in 1 .. i - 1 : On(stack[t][j]))'
  <2> SUFFICES ASSUME NEW t \in K!Threads, NEW i \in 1 .. Len(stack'[t]),
                      stack'[t][i].prog \in K!Interrupts, NEW j \in 1 .. i - 1
               PROVE  On(stack'[t][j])
    OBVIOUS
  <2>1. CASE t # running
    BY <1>2, <2>1 DEF Flags
  <2>2. CASE t = running
    <3>1. Len(stack'[t]) = n + 1 /\ (i = n + 1 \/ i \in 1 .. n) /\ j \in 1 .. n
      <4>1. Len(stack'[t]) = n + 1
        BY <1>2, <2>2
      <4> HIDE DEF n
      <4> QED BY <1>1, <4>1
    <3>2. stack'[t][j] = stack[t][j]
      BY <1>2, <2>2, <3>1
    <3>3. CASE i = n + 1
      <4>1. p \in K!Interrupts
        BY <1>1, <1>2, <2>2, <3>3
      <4> QED BY <2>2, <3>1, <3>2, <4>1
    <3>4. CASE i \in 1 .. n
      <4>1. stack'[t][i] = stack[t][i]
        BY <1>2, <2>2, <3>4
      <4> QED BY <2>2, <3>2, <3>4, <4>1 DEF Flags
    <3> QED BY <3>1, <3>3, <3>4
  <2> QED BY <2>1, <2>2
<1> QED BY <1>3, <1>4, <1>5, <1>6 DEF Flags

\* A call keeps ownership, also when the caller of a panic drops its guards.
LEMMA CallLocks ==
  ASSUME StackType, Held, Owner, Once, NEW p \in Progs, Pushed(p),
         \A l \in K!Locks :
           \/ lock'[l] = lock[l]
           \/ lock'[l] = "free" /\ p = "panic" /\ Holds(K!Top(running), l)
  PROVE  Held' /\ Owner' /\ Once'
<1> DEFINE n == Len(stack[running])
<1>1. /\ running \in K!Threads /\ n \in Nat /\ n >= 1 /\ K!Top(running) = stack[running][n]
      /\ \A t \in K!Threads : Len(stack[t]) \in Nat
  BY TopFacts DEF StackType
<1>2. \A t \in K!Threads : \A i \in 1 .. Len(stack[t]) :
        i \in 1 .. Len(stack'[t]) /\ stack'[t][i] = stack[t][i]
  BY <1>1 DEF Pushed, Calls
<1>3. \A t \in K!Threads : \A i \in 1 .. Len(stack'[t]) : \A l \in K!Locks :
       Holds(stack'[t][i], l) /\ Live(t, i)' =>
         /\ i \in 1 .. Len(stack[t]) /\ Holds(stack[t][i], l) /\ Live(t, i)
         /\ ~(t = running /\ i = n /\ p = "panic")
  BY DEF Pushed
<1>4. n \in 1 .. Len(stack[running]) /\ Live(running, n)
  BY <1>1 DEF Live
<1>5. Held'
  <2> SUFFICES ASSUME NEW m \in K!Locks, lock'[m] # "free"
               PROVE  \E i \in 1 .. Len(stack'[lock'[m]]) : Holds(stack'[lock'[m]][i], m)
    BY DEF Held
  <2>1. lock'[m] = lock[m] /\ lock[m] \in K!Threads
    BY DEF StackType
  <2>2. PICK i \in 1 .. Len(stack[lock[m]]) : Holds(stack[lock[m]][i], m)
    BY <2>1 DEF Held
  <2>3. i \in 1 .. Len(stack'[lock[m]]) /\ Holds(stack'[lock[m]][i], m)
    BY <1>2, <2>1, <2>2
  <2> QED BY <2>1, <2>3
<1>6. Owner'
  <2> SUFFICES ASSUME NEW t \in K!Threads, NEW i \in 1 .. Len(stack'[t]), NEW m \in K!Locks,
                      Holds(stack'[t][i], m), Live(t, i)'
               PROVE  lock'[m] = t
    BY DEF Owner
  <2>1. /\ i \in 1 .. Len(stack[t]) /\ Holds(stack[t][i], m) /\ Live(t, i)
        /\ ~(t = running /\ i = n /\ p = "panic")
    BY <1>3
  <2>2. lock[m] = t
    BY <2>1 DEF Owner
  <2>3. ~(p = "panic" /\ Holds(K!Top(running), m))
    <3> SUFFICES ASSUME p = "panic", Holds(stack[running][n], m)
                 PROVE  FALSE
      BY <1>1
    <3>1. lock[m] = running
      BY <1>1, <1>4 DEF Owner
    <3>2. i = n
      BY <1>4, <2>1, <2>2, <3>1 DEF Once
    <3> QED BY <2>1, <2>2, <3>1, <3>2
  <2> QED BY <2>2, <2>3
<1>7. Once'
  <2> SUFFICES ASSUME NEW t \in K!Threads, NEW i \in 1 .. Len(stack'[t]),
                      NEW j \in 1 .. Len(stack'[t]), NEW m \in K!Locks,
                      Live(t, i)', Live(t, j)', Holds(stack'[t][i], m), Holds(stack'[t][j], m)
               PROVE  i = j
    BY DEF Once
  <2>1. /\ i \in 1 .. Len(stack[t]) /\ Holds(stack[t][i], m) /\ Live(t, i)
        /\ j \in 1 .. Len(stack[t]) /\ Holds(stack[t][j], m) /\ Live(t, j)
    BY <1>3
  <2> QED BY <2>1 DEF Once
<1> QED BY <1>5, <1>6, <1>7

\* A call keeps PanicKeeps: no handler is entered on top of a panic with
\* interrupts off, and a panic with interrupts on holds neither lock.
LEMMA CallPanicKeeps ==
  ASSUME StackType, PanicKeeps, NEW p \in Progs, Pushed(p), iflag' \in BOOLEAN,
         iflag' => iflag,
         \A l \in {"MAPPER", "FRAME_ALLOCATOR"} : lock'[l] = "main" => lock[l] = "main",
         p # "panic" /\ running = "main" => iflag,
         p = "panic" /\ running = "main" /\ iflag' =>
           \A l \in {"MAPPER", "FRAME_ALLOCATOR"} : lock'[l] # "main"
  PROVE  PanicKeeps'
<1> SUFFICES ASSUME NEW l \in {"MAPPER", "FRAME_ALLOCATOR"},
                    NEW i \in 1 .. Len(stack'["main"]),
                    lock'[l] = "main", stack'["main"][i].prog = "panic"
             PROVE  running' = "main" /\ ~iflag' /\ K!Top("main")'.prog = "panic"
  BY DEF PanicKeeps
<1>1. "main" \in K!Threads /\ running' = running /\ running \in K!Threads
      /\ Len(stack[running]) \in Nat /\ K!Activation(p).prog = p
  BY TopFacts DEF K!Threads, Pushed, K!Activation
<1>2. lock[l] = "main"
  OBVIOUS
<1>3. CASE running # "main"
  <2>1. stack'["main"] = stack["main"]
    BY <1>1, <1>3 DEF Pushed, Calls
  <2> QED BY <1>2, <1>3, <2>1 DEF PanicKeeps
<1>4. CASE running = "main" /\ p = "panic"
  <2>1. K!Top("main")' = K!Activation(p)
    BY <1>1, <1>4 DEF Pushed
  <2> QED BY <1>1, <1>4, <2>1
<1>5. CASE running = "main" /\ p # "panic"
  <2>1. i \in 1 .. Len(stack["main"]) /\ stack["main"][i].prog = "panic"
    BY <1>1, <1>5 DEF Pushed, Calls
  <2> QED BY <1>2, <1>5, <2>1 DEF PanicKeeps
<1> QED BY <1>3, <1>4, <1>5

\* A panic keeps Core.
LEMMA PanicStep ==
  ASSUME Core, stack' = K!Called(running, "panic"), running' = running,
         iflag' \in BOOLEAN, iflag' => iflag,
         lock' \in [K!Locks -> K!Threads \cup {"free"}],
         \A l \in K!Locks : \/ lock'[l] = lock[l]
                            \/ lock'[l] = "free" /\ Holds(K!Top(running), l),
         running = "main" /\ iflag' =>
           \A l \in {"MAPPER", "FRAME_ALLOCATOR"} : lock'[l] # "main"
  PROVE  Core' /\ Pushed("panic")
<1>1. StackType /\ Shape /\ Flags /\ Held /\ Owner /\ Once /\ PanicKeeps
  BY DEF Core
<1>2. /\ "panic" \in Progs /\ "panic" \notin K!Syscalls \cup {"debug_handler"}
      /\ "panic" \notin Handlers /\ "panic" \notin K!Interrupts
  BY DEF Progs, K!Syscalls, Handlers, K!Interrupts, K!Prioritised
<1>3. Pushed("panic")
  BY <1>1, <1>2, CallCommon
<1>4. On(K!Activation("panic"))
  BY DEF On, K!Activation
<1>5. Flags'
  BY <1>1, <1>2, <1>3, <1>4, CallFlags
<1>6. Held' /\ Owner' /\ Once'
  BY <1>1, <1>2, <1>3, CallLocks
<1>7. \A l \in {"MAPPER", "FRAME_ALLOCATOR"} : lock'[l] = "main" => lock[l] = "main"
  BY DEF K!Locks
<1>8. PanicKeeps'
  BY <1>1, <1>2, <1>3, <1>7, CallPanicKeeps
<1> QED BY <1>3, <1>5, <1>6, <1>8 DEF Core, Pushed

\* If main owns the mapper while it runs with interrupts enabled, kernel_main
\* itself is the innermost activation, or has panicked.
LEMMA MapperEnabled ==
  ASSUME Core, iflag, running = "main",
         NEW l \in {"MAPPER", "FRAME_ALLOCATOR"}, lock[l] = "main"
  PROVE  \/ K!Top(running).prog = "panic"
         \/ Holds(K!Top(running), l)
<1>1. StackType /\ Shape /\ Flags /\ Held
  BY DEF Core
<1> DEFINE n == Len(stack["main"])
<1>2. /\ n \in Nat /\ n >= 1 /\ K!Top("main") = stack["main"][n] /\ K!Top("main") \in Points
  BY <1>1, TopFacts
<1>3. l \in K!Locks /\ "MAPPER" \in K!Locks
  BY DEF K!Locks
<1>4. PICK i \in 1 .. n : Holds(stack["main"][i], l)
  BY <1>1, <1>3 DEF Held
<1>5. stack["main"][i] \in Points /\ On(stack["main"][i]) /\ On(K!Top("main"))
  BY <1>1, <1>2, <1>4 DEF Flags, StackType, K!Threads
<1>6. stack["main"][i].prog = "kernel_main"
  BY <1>3, <1>4, <1>5, PointFacts
<1>7. i = 1
  <2> SUFFICES ASSUME i # 1 PROVE FALSE
    OBVIOUS
  <2>1. i \in 2 .. Len(stack["main"]) /\ "main" \in K!Threads
    BY <1>2, <1>4 DEF K!Threads
  <2> QED BY <1>1, <1>6, <2>1 DEF Shape, Handlers, K!Interrupts, K!Prioritised, K!Syscalls
<1>8. CASE n = 1
  BY <1>2, <1>4, <1>7, <1>8
<1>9. CASE n # 1
  <2>1. n \in 2 .. n
    <3>1. n \in Nat /\ n >= 1
      BY <1>2
    <3> HIDE DEF n
    <3> QED BY <1>9, <3>1
  <2>2. K!Top("main").prog \in Handlers \cup K!Syscalls \cup {"panic"}
    BY <1>1, <1>2, <2>1 DEF Shape, K!Threads
  <2>3. K!Top("main").prog \notin K!Syscalls
    BY <1>1, Bases
  <2>4. K!Top("main").prog \notin Handlers
    BY <1>2, <1>3, <1>5, PointFacts
  <2> QED BY <2>2, <2>3, <2>4
<1> QED BY <1>8, <1>9

\* Entering an interrupt handler, or that of a debug trap, keeps Core.
LEMMA HandlerStep ==
  ASSUME Core, NEW h \in Handlers, stack' = K!Called(running, h), running' = running,
         iflag' = FALSE, lock' = lock,
         \/ iflag /\ h # "debug_handler"
         \/ running = "init" /\ h = "debug_handler"
  PROVE  Core' /\ Pushed(h)
<1>1. StackType /\ Shape /\ Flags /\ Held /\ Owner /\ Once /\ PanicKeeps
  BY DEF Core
<1>2. /\ h \in Progs /\ h \notin K!Syscalls /\ h # "panic"
  BY DEF Progs, K!Syscalls, Handlers, K!Interrupts, K!Prioritised
<1>3. iflag' \in BOOLEAN /\ lock' \in [K!Locks -> K!Threads \cup {"free"}]
  BY <1>1 DEF StackType
<1>4. running = "main" => iflag
  OBVIOUS
<1>5. Pushed(h)
  BY <1>1, <1>2, <1>3, CallCommon
<1>6. ~On(K!Activation(h))
  <2>1. "LOGGER" \in K!Locks /\ K!Activation(h) \in Points /\ K!Activation(h).prog = h
    BY <1>2, Starts DEF K!Locks, K!Activation
  <2> QED BY <2>1, PointFacts
<1>7. h \in K!Interrupts => \A i \in 1 .. Len(stack[running]) : On(stack[running][i])
  BY <1>1 DEF Flags, K!Interrupts, K!Prioritised
<1>8. Flags'
  BY <1>1, <1>2, <1>3, <1>5, <1>6, <1>7, CallFlags
<1>9. Held' /\ Owner' /\ Once'
  BY <1>1, <1>2, <1>5, CallLocks
<1>10. PanicKeeps'
  BY <1>1, <1>2, <1>3, <1>4, <1>5, CallPanicKeeps
<1> QED BY <1>5, <1>8, <1>9, <1>10 DEF Core, Pushed

\* Entering a system call keeps Core.
LEMMA SyscallStep ==
  ASSUME Core, NEW s \in K!Syscalls, stack' = K!Called(running, s), running' = running,
         iflag' = iflag, lock' = lock, K!Top(running).prog = "user"
  PROVE  Core' /\ Pushed(s)
<1>1. StackType /\ Shape /\ Flags /\ Held /\ Owner /\ Once /\ PanicKeeps
  BY DEF Core
<1>2. /\ s \in Progs /\ s \notin Handlers /\ s # "panic" /\ s \notin K!Interrupts
  BY DEF Progs, K!Syscalls, Handlers, K!Interrupts, K!Prioritised
<1>3. iflag' \in BOOLEAN /\ lock' \in [K!Locks -> K!Threads \cup {"free"}]
  BY <1>1 DEF StackType
<1>4. running = "init" /\ Len(stack[running]) = 1
  BY <1>1, Bases
<1>5. Pushed(s)
  BY <1>1, <1>2, <1>3, <1>4, CallCommon
<1>6. On(K!Activation(s))
  BY DEF On, K!Activation, K!Syscalls
<1>7. iflag
  BY <1>1 DEF Flags, On
<1>8. Flags'
  BY <1>1, <1>2, <1>3, <1>5, <1>6, <1>7, CallFlags
<1>9. Held' /\ Owner' /\ Once'
  BY <1>1, <1>2, <1>5, CallLocks
<1>10. PanicKeeps'
  BY <1>1, <1>2, <1>3, <1>4, <1>5, CallPanicKeeps
<1> QED BY <1>5, <1>8, <1>9, <1>10 DEF Core, Pushed

\* Returning from a handler or a system call, and switching threads, keep Core.
LEMMA ReturnStep ==
  ASSUME Core, stack' = K!Returned(running), running' \in K!Threads, iflag' \in BOOLEAN,
         lock' = lock, K!Top(running).prog \in Handlers \cup K!Syscalls,
         \A l \in K!Locks : ~Holds(K!Top(running), l),
         iflag' => \A i \in 1 .. Len(stack[running]) - 1 : On(stack[running][i]),
         ~iflag' => LET a == stack[running][Len(stack[running]) - 1]
                    IN  running' = running /\ (~On(a) \/ a.prog = "panic")
  PROVE  Core' /\ Returns
<1> DEFINE n == Len(stack[running])
<1>1. StackType /\ Shape /\ Flags /\ Held /\ Owner /\ Once /\ PanicKeeps
  BY DEF Core
<1>2. /\ running \in K!Threads /\ n \in Nat /\ n >= 1 /\ K!Top(running) = stack[running][n]
      /\ \A t \in K!Threads : Len(stack[t]) \in Nat /\ Len(stack[t]) >= 1
  BY <1>1, TopFacts DEF StackType
<1>3. n # 1 /\ K!Top(running).prog # "panic"
  BY <1>1, Bases DEF Handlers, K!Interrupts, K!Prioritised, K!Syscalls, Mains
<1>4. Returns
  BY <1>1, ReturnStack
<1>5. /\ Len(stack'[running]) = n - 1 /\ Len(stack'[running]) >= 1
      /\ \A t \in K!Threads : t # running => stack'[t] = stack[t]
  <2>1. n \in Nat /\ n >= 1 /\ n # 1
    BY <1>2, <1>3
  <2> HIDE DEF n
  <2>2. n - 1 >= 1
    BY <2>1
  <2> QED BY <1>4, <2>2 DEF Returns, n
<1>6. \A t \in K!Threads : \A i \in 1 .. Len(stack'[t]) :
        /\ i \in 1 .. Len(stack[t]) /\ stack'[t][i] = stack[t][i]
        /\ t = running => i \in 1 .. n - 1
  BY <1>2, <1>4 DEF Returns
<1>7. StackType'
  <2>1. \A t \in K!Threads : Len(stack'[t]) >= 1 /\ stack'[t] \in Seq(Points)
    BY <1>1, <1>2, <1>4, <1>5 DEF Returns, StackType
  <2>2. \A t \in K!Threads : \A i \in 1 .. Len(stack'[t]) : InCode(stack'[t][i])
    BY <1>1, <1>6 DEF StackType
  <2>3. iflag' \in BOOLEAN /\ lock' \in [K!Locks -> K!Threads \cup {"free"}]
    BY <1>1 DEF StackType
  <2>4. DOMAIN stack' = K!Threads
    BY <1>4 DEF Returns
  <2> QED BY <2>1, <2>2, <2>3, <2>4 DEF StackType, InCode
<1>8. Shape'
  <2>1. "main" \in K!Threads /\ "init" \in K!Threads
    BY DEF K!Threads
  <2>2. stack'["main"][1].prog \in Mains /\ stack'["init"][1].prog = "user"
    <3>1. 1 \in 1 .. Len(stack'["main"]) /\ 1 \in 1 .. Len(stack'["init"])
      BY <1>2, <1>5, <1>7, <2>1 DEF StackType
    <3> QED BY <1>1, <1>6, <2>1, <3>1 DEF Shape
  <2>3. ASSUME NEW t \in K!Threads, NEW i \in 2 .. Len(stack'[t])
        PROVE  i \in 2 .. Len(stack[t]) /\ stack'[t][i] = stack[t][i]
    BY <1>2, <1>5, <1>6
  <2>4. (\A t \in K!Threads : \A i \in 2 .. Len(stack[t]) :
           stack[t][i].prog \in Handlers \cup K!Syscalls \cup {"panic"})'
    BY <1>1, <2>3 DEF Shape
  <2>5. (\A t \in K!Threads : \A i \in 2 .. Len(stack[t]) :
           /\ stack[t][i].prog \in K!Syscalls \cup {"debug_handler"} => t = "init"
           /\ stack[t][i].prog \in K!Syscalls => i = 2)'
    BY <1>1, <2>3 DEF Shape
  <2> QED BY <2>2, <2>4, <2>5 DEF Shape
<1>9. \A t \in K!Threads : t # running \/ iflag' =>
        \A i \in 1 .. Len(stack'[t]) : On(stack'[t][i])
  <2> SUFFICES ASSUME NEW t \in K!Threads, t # running \/ iflag',
                      NEW i \in 1 .. Len(stack'[t])
               PROVE  On(stack[t][i])
    BY <1>6
  <2>1. CASE t # running
    BY <1>1, <1>6, <2>1 DEF Flags
  <2>2. CASE t = running /\ iflag'
    BY <1>6, <2>2
  <2> QED BY <2>1, <2>2
<1>10. Flags'
  <2>1. (iflag => \A i \in 1 .. Len(stack[running]) : On(stack[running][i]))'
    BY <1>9
  <2>2. (~iflag => ~On(K!Top(running)) \/ K!Top(running).prog = "panic")'
    <3> SUFFICES ASSUME ~iflag'
                 PROVE  ~On(K!Top(running)') \/ K!Top(running)'.prog = "panic"
      OBVIOUS
    <3>1. running' = running /\ n - 1 \in 1 .. Len(stack'[running])
      BY <1>2, <1>5
    <3>2. K!Top(running)' = stack'[running][n - 1]
      BY <1>5, <3>1 DEF K!Top, K!Last
    <3>3. stack'[running][n - 1] = stack[running][n - 1]
      BY <1>2, <1>6, <3>1
    <3> QED BY <3>2, <3>3
  <2>3. (\A t \in K!Threads : t # running => \A i \in 1 .. Len(stack[t]) : On(stack[t][i]))'
    BY <1>9
  <2>4. (\A t \in K!Threads : \A i \in 1 .. Len(stack[t]) : stack[t][i].prog \in K!Interrupts =>
           \A j \in 1 .. i - 1 : On(stack[t][j]))'
    <3> SUFFICES ASSUME NEW t \in K!Threads, NEW i \in 1 .. Len(stack'[t]),
                        stack'[t][i].prog \in K!Interrupts, NEW j \in 1 .. i - 1
                 PROVE  On(stack'[t][j])
      OBVIOUS
    <3>1. j \in 1 .. Len(stack'[t])
      BY <1>2, <1>6
    <3>2. /\ i \in 1 .. Len(stack[t]) /\ stack'[t][i] = stack[t][i]
          /\ stack'[t][j] = stack[t][j]
      BY <1>6, <3>1
    <3> QED BY <1>1, <3>2 DEF Flags
  <2> QED BY <2>1, <2>2, <2>3, <2>4 DEF Flags
<1>11. \A t \in K!Threads : \A i \in 1 .. Len(stack'[t]) : Live(t, i)' => Live(t, i)
  <2> SUFFICES ASSUME NEW t \in K!Threads, NEW i \in 1 .. Len(stack'[t]), Live(t, i)'
               PROVE  Live(t, i)
    OBVIOUS
  <2>1. CASE t # running
    BY <1>5, <2>1 DEF Live
  <2>2. CASE t = running /\ i = n - 1
    BY <1>2, <1>3, <2>2 DEF Live
  <2>3. CASE t = running /\ i # n - 1
    <3>1. i + 1 \in 1 .. Len(stack'[t]) /\ i # Len(stack'[t])
      BY <1>2, <1>5, <1>6, <2>3
    <3>2. stack'[t][i + 1] = stack[t][i + 1]
      BY <1>6, <3>1
    <3> QED BY <3>1, <3>2 DEF Live
  <2> QED BY <2>1, <2>2, <2>3
<1>12. Held'
  <2> SUFFICES ASSUME NEW m \in K!Locks, lock[m] # "free"
               PROVE  \E i \in 1 .. Len(stack'[lock[m]]) : Holds(stack'[lock[m]][i], m)
    BY DEF Held
  <2>1. lock[m] \in K!Threads
    BY <1>1 DEF StackType
  <2>2. PICK i \in 1 .. Len(stack[lock[m]]) : Holds(stack[lock[m]][i], m)
    BY <1>1, <2>1 DEF Held
  <2>3. ~(lock[m] = running /\ i = n)
    BY <1>2, <2>2
  <2>4. i \in 1 .. Len(stack'[lock[m]])
    BY <1>2, <1>5, <2>1, <2>2, <2>3
  <2> QED BY <1>6, <2>1, <2>2, <2>4
<1>13. Owner'
  BY <1>1, <1>6, <1>11 DEF Owner
<1>14. Once'
  BY <1>1, <1>6, <1>11 DEF Once
<1>15. PanicKeeps'
  <2> SUFFICES ASSUME NEW l \in {"MAPPER", "FRAME_ALLOCATOR"},
                      NEW i \in 1 .. Len(stack'["main"]),
                      lock[l] = "main", stack'["main"][i].prog = "panic"
               PROVE  FALSE
    BY DEF PanicKeeps
  <2>1. i \in 1 .. Len(stack["main"]) /\ stack["main"][i].prog = "panic"
    BY <1>6 DEF K!Threads
  <2>2. running = "main" /\ K!Top("main").prog = "panic"
    BY <1>1, <2>1 DEF PanicKeeps
  <2> QED BY <1>3, <2>2
<1> QED BY <1>4, <1>7, <1>8, <1>10, <1>12, <1>13, <1>14, <1>15 DEF Core

-----------------------------------------------------------------------------
\* init stays in, or out of, the process list unless kernel_main passes the
\* push; a switch reaches init only from the list.
LEMMA SpawnedKept ==
  ASSUME Spawned,
         PROCESS_LIST' = PROCESS_LIST,
         \/ CURRENT_PROCESS' = CURRENT_PROCESS
         \/ CURRENT_PROCESS' =
              IF CURRENT_PROCESS = Len(PROCESS_LIST) THEN 1 ELSE CURRENT_PROCESS + 1,
         running' = running \/ running' = PROCESS_LIST[CURRENT_PROCESS],
         running = "main" => stack'["init"] = stack["init"],
         stack'["main"][1].prog = stack["main"][1].prog,
         stack["main"][1].prog = "kernel_main" =>
           /\ stack["main"][1].pc <= 23 => stack'["main"][1].pc <= 23
           /\ stack["main"][1].pc >= 24 => stack'["main"][1].pc >= 24
  PROVE  Spawned'
<1>1. CASE /\ PROCESS_LIST = <<"main">> /\ CURRENT_PROCESS = 1 /\ running = "main"
           /\ stack["init"] = <<K!Activation("user")>>
           /\ stack["main"][1].prog = "kernel_main" => stack["main"][1].pc <= 23
  <2>1. CURRENT_PROCESS' = 1 /\ running' = "main"
    BY <1>1
  <2> QED BY <1>1, <2>1 DEF Spawned, K!Activation
<1>2. CASE /\ PROCESS_LIST = <<"main", "init">> /\ CURRENT_PROCESS \in {1, 2}
           /\ stack["main"][1].prog = "kernel_main" /\ stack["main"][1].pc >= 24
  <2>1. CURRENT_PROCESS' \in {1, 2}
    BY <1>2
  <2> QED BY <1>2, <2>1 DEF Spawned
<1> QED BY <1>1, <1>2 DEF Spawned

\* So for moves ...
LEMMA SpawnedMove ==
  ASSUME StackType, Shape, Spawned, NEW b, Moved(b), b.prog = K!Top(running).prog,
         b.prog = "kernel_main" =>
           /\ K!Top(running).pc <= 23 => b.pc <= 23
           /\ K!Top(running).pc >= 24 => b.pc >= 24,
         PROCESS_LIST' = PROCESS_LIST,
         \/ CURRENT_PROCESS' = CURRENT_PROCESS
         \/ CURRENT_PROCESS' =
              IF CURRENT_PROCESS = Len(PROCESS_LIST) THEN 1 ELSE CURRENT_PROCESS + 1
  PROVE  Spawned'
<1>1. "main" \in K!Threads /\ "init" \in K!Threads /\ running \in K!Threads /\ running' = running
  BY TopFacts DEF K!Threads, Moved
<1>2. running = "main" => stack'["init"] = stack["init"]
  BY <1>1 DEF Moved
<1>3. 1 \in 1 .. Len(stack["main"])
  BY <1>1 DEF StackType
<1>4. stack'["main"][1].prog = stack["main"][1].prog
  BY <1>1, <1>3 DEF Moved, SameProgs
<1>5. stack["main"][1].prog = "kernel_main" =>
        /\ stack["main"][1].pc <= 23 => stack'["main"][1].pc <= 23
        /\ stack["main"][1].pc >= 24 => stack'["main"][1].pc >= 24
  <2>1. CASE running = "main" /\ Len(stack[running]) = 1
    <3>1. K!Top(running) = stack["main"][1] /\ stack'["main"][1] = b
      BY <2>1, TopFacts DEF Moved
    <3> QED BY <3>1
  <2>2. CASE ~(running = "main" /\ Len(stack[running]) = 1)
    BY <1>1, <1>3, <2>2 DEF Moved, SameProgs
  <2> QED BY <2>1, <2>2
<1> QED BY <1>1, <1>2, <1>4, <1>5, SpawnedKept

\* ... for calls ...
LEMMA SpawnedCall ==
  ASSUME StackType, Spawned, NEW p, Pushed(p),
         PROCESS_LIST' = PROCESS_LIST, CURRENT_PROCESS' = CURRENT_PROCESS
  PROVE  Spawned'
<1>1. "main" \in K!Threads /\ "init" \in K!Threads /\ running \in K!Threads /\ running' = running
  BY TopFacts DEF K!Threads, Pushed
<1>2. running = "main" => stack'["init"] = stack["init"]
  BY <1>1 DEF Pushed, Calls
<1>3. 1 \in 1 .. Len(stack["main"])
  BY <1>1 DEF StackType
<1>4. stack'["main"][1] = stack["main"][1]
  BY <1>1, <1>3 DEF Pushed, Calls
<1> QED BY <1>1, <1>2, <1>4, SpawnedKept

\* ... and for returns.
LEMMA SpawnedReturn ==
  ASSUME StackType, Spawned, Returns, Len(stack[running]) # 1,
         running' = running \/ running' = PROCESS_LIST[CURRENT_PROCESS],
         PROCESS_LIST' = PROCESS_LIST, CURRENT_PROCESS' = CURRENT_PROCESS
  PROVE  Spawned'
<1>1. "main" \in K!Threads /\ "init" \in K!Threads /\ running \in K!Threads
  BY TopFacts DEF K!Threads
<1>2. running = "main" => stack'["init"] = stack["init"]
  BY <1>1 DEF Returns
<1>3. running = "main" => 1 \in 1 .. Len(stack["main"]) - 1
  <2>1. PICK m \in Nat : m = Len(stack[running])
    BY TopFacts
  <2>2. m >= 1 /\ m # 1
    BY <2>1, TopFacts
  <2>3. 1 \in 1 .. m - 1
    BY <2>2
  <2> QED BY <2>1, <2>3
<1>4. stack'["main"][1] = stack["main"][1]
  BY <1>1, <1>3 DEF Returns
<1> QED BY <1>2, <1>4, SpawnedKept

-----------------------------------------------------------------------------
\* No interrupt is in service, or only one of the LAPIC error vector.
Settled == inService = {} \/ inService = {"lapic_error_handler"}

\* A move other than send_eoi leaves the in-service interrupts explained ...
LEMMA InServiceMove ==
  ASSUME StackType, InService, Moved(Succ), K!Op(running)[1] # "eoi",
         iflag' => iflag \/ K!Op(running)[1] = "sti", inService' = inService
  PROVE  InService'
<1>1. CASE Settled
  BY <1>1 DEF InService, Settled
<1>2. CASE ~Settled
  <2>1. /\ inService \in SUBSET K!Prioritised /\ ~iflag
        /\ \/ K!Top(running).prog = "panic"
           \/ /\ K!Top(running).prog \in {"timer_handler", "keyboard_handler"}
              /\ K!Top(running).pc <= 2
    BY <1>2 DEF InService, Settled
  <2>6. \E i \in 1 .. Len(stack'[running']) :
          stack'[running'][i].prog \in {"timer_handler", "keyboard_handler"}
    <3>1. PICK i \in 1 .. Len(stack[running]) :
            stack[running][i].prog \in {"timer_handler", "keyboard_handler"}
      BY <1>2 DEF InService, Settled
    <3>2. /\ running' = running /\ Len(stack'[running]) = Len(stack[running])
          /\ stack'[running][i].prog = stack[running][i].prog
      BY TopFacts DEF Moved, SameProgs
    <3> QED BY <3>1, <3>2
  <2>2. /\ Where(K!Top(running).prog, K!Top(running).pc, K!Op(running))
        /\ K!Top(running).pc \in 1 .. Len(K!Code[K!Top(running).prog])
        /\ K!Top(running) \in Points
    BY TopFacts
  <2>3. K!Top(running)' = Succ
    BY DEF Moved
  <2>4. CASE K!Top(running).prog = "panic"
    <3>1. ~iflag'
      BY <2>1, <2>2, <2>4 DEF Where
    <3>2. K!Top(running)'.prog = "panic"
      BY <2>3, <2>4 DEF Succ
    <3> QED BY <2>1, <2>6, <3>1, <3>2 DEF InService
  <2>5. CASE K!Top(running).prog \in {"timer_handler", "keyboard_handler"} /\ K!Top(running).pc <= 2
    <3>1. K!Top(running).pc # 2
      BY <2>2, <2>5 DEF Where
    <3>2. K!Top(running).pc \in Nat /\ K!Top(running).pc >= 1
      BY <2>2 DEF Points
    <3>3. K!Top(running).pc = 1
      BY <2>5, <3>1, <3>2
    <3>4. ~iflag'
      BY <2>1, <2>2, <2>5, <3>3 DEF Where
    <3>5. K!Top(running)'.prog \in {"timer_handler", "keyboard_handler"} /\ K!Top(running)'.pc <= 2
      BY <2>3, <2>5, <3>3 DEF Succ
    <3> QED BY <2>1, <2>6, <3>4, <3>5 DEF InService
  <2> QED BY <2>1, <2>4, <2>5
<1> QED BY <1>1, <1>2

\* ... and so does a panic.
LEMMA InServicePanic ==
  ASSUME StackType, InService, Pushed("panic"), iflag' => iflag, inService' = inService
  PROVE  InService'
<1>1. CASE Settled
  BY <1>1 DEF InService, Settled
<1>2. CASE ~Settled
  <2>1. inService \in SUBSET K!Prioritised /\ ~iflag
    BY <1>2 DEF InService, Settled
  <2>2. K!Top(running)'.prog = "panic"
    BY DEF Pushed, K!Activation
  <2>3. \E i \in 1 .. Len(stack'[running']) :
          stack'[running'][i].prog \in {"timer_handler", "keyboard_handler"}
    <3>1. PICK i \in 1 .. Len(stack[running]) :
            stack[running][i].prog \in {"timer_handler", "keyboard_handler"}
      BY <1>2 DEF InService, Settled
    <3>2. /\ running' = running /\ i \in 1 .. Len(stack'[running])
          /\ stack'[running][i] = stack[running][i]
      BY TopFacts DEF Pushed, Calls
    <3> QED BY <3>1, <3>2
  <2> QED BY <2>1, <2>2, <2>3 DEF InService
<1> QED BY <1>1, <1>2

\* Only at the first two operations of the two handlers that acknowledge, and
\* in a panic, is there another interrupt in service.
LEMMA SettledElsewhere ==
  ASSUME StackType, InService,
         \/ iflag
         \/ K!Op(running)[1] \in {"user", "again", "switch", "iret", "ret"}
  PROVE  Settled
<1>1. /\ Where(K!Top(running).prog, K!Top(running).pc, K!Op(running))
      /\ K!Top(running).pc \in 1 .. Len(K!Code[K!Top(running).prog])
      /\ K!Top(running) \in Points
  BY TopFacts
<1> SUFFICES ASSUME ~Settled PROVE FALSE
  OBVIOUS
<1>2. /\ ~iflag
      /\ \/ K!Top(running).prog = "panic"
         \/ K!Top(running).prog \in {"timer_handler", "keyboard_handler"} /\ K!Top(running).pc <= 2
  BY DEF InService, Settled
<1>3. CASE K!Top(running).prog = "panic"
  BY <1>1, <1>2, <1>3 DEF Where
<1>4. CASE K!Top(running).prog \in {"timer_handler", "keyboard_handler"} /\ K!Top(running).pc <= 2
  <2>1. K!Top(running).pc \in Nat /\ K!Top(running).pc >= 1
    BY <1>1 DEF Points
  <2>2. K!Top(running).pc = 1 \/ K!Top(running).pc = 2
    BY <1>4, <2>1
  <2>3. K!Op(running)[1] \in {"lock", "eoi"}
    BY <1>1, <1>4, <2>2 DEF Where
  <2> QED BY <1>2, <2>3
<1> QED BY <1>2, <1>3, <1>4

-----------------------------------------------------------------------------
\* The saved flag stays right while what is below a debug trap stays ...
LEMMA TrappedKept ==
  ASSUME Trapped, saved' = saved,
         \A i \in 2 .. Len(stack'["init"]) : stack'["init"][i].prog = "debug_handler" =>
           /\ i \in 2 .. Len(stack["init"]) /\ stack["init"][i].prog = "debug_handler"
           /\ \A j \in 1 .. i - 1 : stack'["init"][j] = stack["init"][j]
  PROVE  Trapped'
<1> SUFFICES ASSUME NEW i \in 2 .. Len(stack'["init"]),
                    stack'["init"][i].prog = "debug_handler"
             PROVE  /\ saved' \in BOOLEAN
                    /\ saved' => \A j \in 1 .. i - 1 : On(stack'["init"][j])
                    /\ ~saved' => \/ ~On(stack'["init"][i - 1])
                                 \/ stack'["init"][i - 1].prog = "panic"
  BY DEF Trapped
<1>1. /\ i \in 2 .. Len(stack["init"]) /\ stack["init"][i].prog = "debug_handler"
      /\ \A j \in 1 .. i - 1 : stack'["init"][j] = stack["init"][j]
  OBVIOUS
<1>2. /\ saved \in BOOLEAN
      /\ saved => \A j \in 1 .. i - 1 : On(stack["init"][j])
      /\ ~saved => ~On(stack["init"][i - 1]) \/ stack["init"][i - 1].prog = "panic"
  BY <1>1 DEF Trapped
<1>3. i - 1 \in 1 .. i - 1
  OBVIOUS
<1>4. stack'["init"][i - 1] = stack["init"][i - 1]
  BY <1>1, <1>3
<1> QED BY <1>1, <1>2, <1>4

\* ... so for moves ...
LEMMA TrappedMove ==
  ASSUME StackType, Trapped, NEW b, Moved(b), saved' = saved
  PROVE  Trapped'
<1>1. "init" \in K!Threads /\ Len(stack["init"]) \in Nat
  BY DEF K!Threads, StackType
<1>2. Len(stack'["init"]) = Len(stack["init"])
  BY <1>1 DEF Moved, SameProgs
<1>3. \A i \in 1 .. Len(stack["init"]) :
        /\ stack'["init"][i].prog = stack["init"][i].prog
        /\ i # Len(stack["init"]) => stack'["init"][i] = stack["init"][i]
  BY <1>1 DEF Moved, SameProgs
<1>4. ASSUME NEW i \in 2 .. Len(stack["init"]), NEW j \in 1 .. i - 1
      PROVE  i \in 1 .. Len(stack["init"]) /\ stack'["init"][j] = stack["init"][j]
  <2>1. /\ i \in 1 .. Len(stack["init"])
        /\ j \in 1 .. Len(stack["init"]) /\ j # Len(stack["init"])
    BY <1>1
  <2> QED BY <1>3, <2>1
<1>5. \A i \in 2 .. Len(stack["init"]) : stack'["init"][i].prog = stack["init"][i].prog
  BY <1>1, <1>3
<1> QED BY <1>2, <1>4, <1>5, TrappedKept

\* ... for calls, other than the trap's ...
LEMMA TrappedCall ==
  ASSUME StackType, Trapped, NEW p, Pushed(p), p # "debug_handler", saved' = saved
  PROVE  Trapped'
<1> DEFINE n == Len(stack["init"])
<1>1. /\ "init" \in K!Threads /\ running \in K!Threads /\ n \in Nat
      /\ K!Activation(p).prog = p
  BY TopFacts DEF K!Threads, StackType, K!Activation
<1>2. \A i \in 1 .. n : stack'["init"][i] = stack["init"][i]
  BY <1>1 DEF Pushed, Calls
<1>3. \/ Len(stack'["init"]) = n
      \/ Len(stack'["init"]) = n + 1 /\ stack'["init"][n + 1].prog = p
  BY <1>1 DEF Pushed, Calls
<1> HIDE DEF n
<1>4. ASSUME NEW i \in 2 .. Len(stack'["init"]), stack'["init"][i].prog = "debug_handler"
      PROVE  /\ i \in 2 .. n /\ stack["init"][i].prog = "debug_handler"
             /\ \A j \in 1 .. i - 1 : stack'["init"][j] = stack["init"][j]
  <2>1. i \in 2 .. n
    BY <1>1, <1>3, <1>4
  <2>2. i \in 1 .. n /\ \A j \in 1 .. i - 1 : j \in 1 .. n
    BY <1>1, <2>1
  <2> QED BY <1>2, <1>4, <2>1, <2>2
<1> QED BY <1>4, TrappedKept DEF n

\* ... and for returns.
LEMMA TrappedReturn ==
  ASSUME StackType, Trapped, Returns, saved' = saved
  PROVE  Trapped'
<1> DEFINE n == Len(stack["init"])
           m == Len(stack'["init"])
<1>1. "init" \in K!Threads /\ running \in K!Threads /\ n \in Nat
  BY TopFacts DEF K!Threads, StackType
<1>2. /\ m = n \/ m = n - 1
      /\ \A i \in 1 .. m : stack'["init"][i] = stack["init"][i]
  BY <1>1 DEF Returns
<1> HIDE DEF n, m
<1>3. ASSUME NEW i \in 2 .. m, stack'["init"][i].prog = "debug_handler"
      PROVE  /\ i \in 2 .. n /\ stack["init"][i].prog = "debug_handler"
             /\ \A j \in 1 .. i - 1 : stack'["init"][j] = stack["init"][j]
  <2>1. i \in 2 .. n /\ i \in 1 .. m /\ \A j \in 1 .. i - 1 : j \in 1 .. m
    BY <1>1, <1>2
  <2> QED BY <1>2, <1>3, <2>1
<1> QED BY <1>3, TrappedKept DEF n, m

-----------------------------------------------------------------------------
\* Only the push of init takes kernel_main past it.
LEMMA SuccFacts ==
  ASSUME StackType
  PROVE  /\ Succ.prog = K!Top(running).prog
         /\ K!Top(running).prog = "kernel_main" /\ K!Op(running)[1] # "spawn" =>
              /\ K!Top(running).pc <= 23 => Succ.pc <= 23
              /\ K!Top(running).pc >= 24 => Succ.pc >= 24
<1>1. /\ K!Top(running).pc \in Nat
      /\ Where(K!Top(running).prog, K!Top(running).pc, K!Op(running))
  BY TopFacts DEF Points
<1>2. K!Top(running).prog = "kernel_main" /\ K!Op(running)[1] # "spawn" =>
        K!Top(running).pc # 23
  BY <1>1 DEF Where
<1>3. /\ Succ.prog = K!Top(running).prog /\ Succ.pc = K!Top(running).pc + 1
  BY DEF Succ
<1> QED BY <1>1, <1>2, <1>3

\* A move that neither pushes init nor acknowledges keeps the rest of the
\* invariant.
LEMMA MoveRest ==
  ASSUME KernelInv, Moved(Succ), K!Op(running)[1] \notin {"spawn", "eoi"}, saved' = saved,
         iflag' => iflag \/ K!Op(running)[1] = "sti", inService' = inService,
         PROCESS_LIST' = PROCESS_LIST,
         \/ CURRENT_PROCESS' = CURRENT_PROCESS
         \/ CURRENT_PROCESS' =
              IF CURRENT_PROCESS = Len(PROCESS_LIST) THEN 1 ELSE CURRENT_PROCESS + 1
  PROVE  Trapped' /\ Spawned' /\ InService'
<1>1. StackType /\ Shape /\ Trapped /\ Spawned /\ InService
  BY DEF KernelInv, Core
<1>2. Spawned'
  BY <1>1, SuccFacts, SpawnedMove
<1>3. InService'
  BY <1>1, InServiceMove
<1>4. Trapped'
  BY <1>1, TrappedMove
<1> QED BY <1>2, <1>3, <1>4

\* Emit, MapPages, UserMemory, Pick, PipePush, PopClaim, PopRelease and NextByte,
\* when they move on to the next operation, keep KernelInv.
LEMMA PlainStep ==
  ASSUME KernelInv, K!Op(running)[1] \in Advancing \ {"spawn", "eoi"},
         stack' = K!Advanced(running), running' = running, iflag' = iflag, lock' = lock,
         PROCESS_LIST' = PROCESS_LIST, inService' = inService, saved' = saved,
         \/ CURRENT_PROCESS' = CURRENT_PROCESS
         \/ CURRENT_PROCESS' =
              IF CURRENT_PROCESS = Len(PROCESS_LIST) THEN 1 ELSE CURRENT_PROCESS + 1
  PROVE  KernelInv'
<1>1. Core' /\ Moved(Succ)
  BY QuietStep DEF KernelInv
<1>2. Trapped' /\ Spawned' /\ InService'
  BY <1>1, MoveRest
<1> QED BY <1>1, <1>2 DEF KernelInv

\* Acquire keeps KernelInv.
LEMMA AcquirePreserves ==
  ASSUME KernelInv, K!Acquire
  PROVE  KernelInv'
<1>1. Core' /\ Moved(Succ)
  BY AcquireStep DEF KernelInv
<1>2. /\ K!Op(running)[1] = "lock" /\ iflag' = iflag /\ PROCESS_LIST' = PROCESS_LIST
      /\ CURRENT_PROCESS' = CURRENT_PROCESS /\ inService' = inService /\ saved' = saved
  BY DEF K!Acquire, K!At, K!Machine
<1>3. Trapped' /\ Spawned' /\ InService'
  BY <1>1, <1>2, MoveRest
<1> QED BY <1>1, <1>3 DEF KernelInv

\* Release keeps KernelInv.
LEMMA ReleasePreserves ==
  ASSUME KernelInv, K!Release
  PROVE  KernelInv'
<1>1. Core' /\ Moved(Succ)
  BY ReleaseStep DEF KernelInv
<1>2. /\ K!Op(running)[1] = "unlock" /\ iflag' = iflag /\ PROCESS_LIST' = PROCESS_LIST
      /\ CURRENT_PROCESS' = CURRENT_PROCESS /\ inService' = inService /\ saved' = saved
  BY DEF K!Release, K!At, K!Machine
<1>3. Trapped' /\ Spawned' /\ InService'
  BY <1>1, <1>2, MoveRest
<1> QED BY <1>1, <1>3 DEF KernelInv

\* SetInterruptFlag keeps KernelInv.
LEMMA FlagPreserves ==
  ASSUME KernelInv, K!SetInterruptFlag
  PROVE  KernelInv'
<1>1. Core' /\ Moved(Succ)
  BY FlagStep DEF KernelInv
<1>2. /\ K!Op(running)[1] \in {"cli", "sti"} /\ iflag' = (K!Op(running)[1] = "sti")
      /\ PROCESS_LIST' = PROCESS_LIST /\ CURRENT_PROCESS' = CURRENT_PROCESS
      /\ inService' = inService /\ saved' = saved
  BY DEF K!SetInterruptFlag, K!At, K!Machine
<1>3. Trapped' /\ Spawned' /\ InService'
  BY <1>1, <1>2, MoveRest
<1> QED BY <1>1, <1>3 DEF KernelInv

\* The process list once init is in it.
LEMMA TwoProcesses == Append(<<"main">>, "init") = <<"main", "init">>
<1> DEFINE s == Append(<<"main">>, "init")
           r == <<"main", "init">>
<1>1. s \in Seq({"main", "init"}) /\ r \in Seq({"main", "init"})
  OBVIOUS
<1>2. Len(s) = 2 /\ Len(r) = 2
  OBVIOUS
<1>3. s[1] = "main" /\ s[2] = "init" /\ r[1] = "main" /\ r[2] = "init"
  OBVIOUS
<1> HIDE DEF s, r
<1>4. s = [i \in 1 .. 2 |-> s[i]] /\ r = [i \in 1 .. 2 |-> r[i]]
  BY <1>1, <1>2
<1>5. s = r
  BY <1>3, <1>4
<1> QED BY <1>5 DEF s, r

\* Spawn keeps KernelInv: it is the one step that puts init in the list.
LEMMA SpawnPreserves ==
  ASSUME KernelInv, K!Spawn
  PROVE  KernelInv'
<1>1. /\ K!Op(running)[1] = "spawn" /\ PROCESS_LIST' = Append(PROCESS_LIST, "init")
      /\ stack' = K!Advanced(running) /\ running' = running /\ iflag' = iflag
      /\ lock' = lock /\ CURRENT_PROCESS' = CURRENT_PROCESS /\ inService' = inService
      /\ saved' = saved
  BY DEF K!Spawn, K!At
<1>2. Core' /\ Moved(Succ)
  BY <1>1, QuietStep DEF KernelInv, Advancing
<1>3. StackType /\ Shape /\ Trapped /\ Spawned /\ InService
  BY DEF KernelInv, Core
<1>4. K!Top(running).prog = "kernel_main" /\ K!Top(running).pc = 23
  BY <1>1, <1>3, TopFacts DEF Where
<1>5. running = "main" /\ Len(stack[running]) = 1
  BY <1>3, <1>4, Bases DEF Mains
<1>6. stack["main"][1] = K!Top(running) /\ stack'["main"][1] = Succ
  BY <1>2, <1>3, <1>5, TopFacts DEF Moved
<1>7. stack'["main"][1].prog = "kernel_main" /\ stack'["main"][1].pc = 24
  BY <1>4, <1>6 DEF Succ
<1>8. PROCESS_LIST = <<"main">> /\ CURRENT_PROCESS = 1
  BY <1>3, <1>4, <1>6 DEF Spawned
<1>9. PROCESS_LIST' = <<"main", "init">>
  BY <1>1, <1>8, TwoProcesses
<1>10. Spawned'
  <2>1. CURRENT_PROCESS' \in {1, 2}
    BY <1>1, <1>8
  <2>2. stack'["main"][1].pc >= 24
    BY <1>7
  <2> QED BY <1>7, <1>9, <2>1, <2>2 DEF Spawned
<1>11. InService'
  BY <1>1, <1>2, <1>3, InServiceMove
<1>12. Trapped'
  BY <1>1, <1>2, <1>3, TrappedMove
<1> QED BY <1>2, <1>10, <1>11, <1>12 DEF KernelInv

\* Eoi keeps KernelInv.
LEMMA EoiPreserves ==
  ASSUME KernelInv, K!Eoi
  PROVE  KernelInv'
<1>1. /\ K!Op(running)[1] = "eoi" /\ inService' = {}
      /\ stack' = K!Advanced(running) /\ running' = running /\ iflag' = iflag
      /\ lock' = lock /\ PROCESS_LIST' = PROCESS_LIST
      /\ CURRENT_PROCESS' = CURRENT_PROCESS /\ saved' = saved
  BY DEF K!Eoi, K!At
<1>2. Core' /\ Moved(Succ)
  BY <1>1, QuietStep DEF KernelInv, Advancing
<1>3. Spawned'
  BY <1>1, <1>2, SuccFacts, SpawnedMove DEF KernelInv, Core
<1>4. InService'
  BY <1>1 DEF InService
<1>5. Trapped'
  BY <1>1, <1>2, TrappedMove DEF KernelInv, Core
<1> QED BY <1>2, <1>3, <1>4, <1>5 DEF KernelInv

\* NextByte keeps KernelInv: the loop of Pipe::read goes on or starts again.
LEMMA NextBytePreserves ==
  ASSUME KernelInv, K!NextByte
  PROVE  KernelInv'
<1>1. /\ K!Op(running)[1] = "again"
      /\ running' = running /\ iflag' = iflag /\ lock' = lock
      /\ PROCESS_LIST' = PROCESS_LIST /\ CURRENT_PROCESS' = CURRENT_PROCESS
      /\ inService' = inService /\ saved' = saved
  BY DEF K!NextByte, K!At, K!Machine
<1>2. CASE stack' = K!Advanced(running)
  BY <1>1, <1>2, PlainStep DEF Advancing
<1>3. CASE stack' = [stack EXCEPT ![running][Len(stack[running])].pc = 1]
  <2> DEFINE b == K!Activation("read_syscall")
  <2>1. StackType /\ Shape /\ Trapped /\ Spawned /\ InService /\ Core
    BY DEF KernelInv, Core
  <2>2. /\ Steps(K!Top(running).prog, K!Top(running).pc, K!Op(running))
        /\ Where(K!Top(running).prog, K!Top(running).pc, K!Op(running))
        /\ K!Top(running) = [prog |-> K!Top(running).prog, pc |-> K!Top(running).pc]
    BY <2>1, TopFacts
  <2>3. K!Top(running).prog = "read_syscall"
    BY <1>1, <2>2 DEF Where
  <2>4. Alike(K!Top(running), b)
    BY <1>1, <2>2, <2>3 DEF Steps
  <2>5. Moves([prog |-> K!Top(running).prog, pc |-> 1])
    BY <1>3, <2>1, MoveStack
  <2>6. Moves(b) /\ b.prog = K!Top(running).prog
    BY <2>3, <2>5 DEF K!Activation
  <2>7. b \in Points /\ InCode(b)
    BY Starts DEF Progs
  <2>8. Core' /\ Moved(b)
    BY <1>1, <2>1, <2>4, <2>6, <2>7, QuietMove
  <2>9. Spawned'
    BY <1>1, <2>1, <2>3, <2>6, <2>8, SpawnedMove
  <2>10. InService'
    BY <1>1, <2>1, SettledElsewhere DEF Settled, InService
  <2>11. Trapped'
    BY <1>1, <2>1, <2>8, TrappedMove
  <2> QED BY <2>8, <2>9, <2>10, <2>11 DEF KernelInv
<1> QED BY <1>2, <1>3 DEF K!NextByte

\* A panic in any activation keeps KernelInv.
LEMMA PanicPreserves ==
  ASSUME KernelInv, stack' = K!Called(running, "panic"), running' = running,
         iflag' \in BOOLEAN, iflag' => iflag,
         lock' \in [K!Locks -> K!Threads \cup {"free"}],
         \A l \in K!Locks : \/ lock'[l] = lock[l]
                            \/ lock'[l] = "free" /\ Holds(K!Top(running), l),
         running = "main" /\ iflag' =>
           \A l \in {"MAPPER", "FRAME_ALLOCATOR"} : lock'[l] # "main",
         PROCESS_LIST' = PROCESS_LIST, CURRENT_PROCESS' = CURRENT_PROCESS,
         inService' = inService, saved' = saved
  PROVE  KernelInv'
<1>1. Core' /\ Pushed("panic")
  BY PanicStep DEF KernelInv
<1>2. StackType /\ Trapped /\ Spawned /\ InService
  BY DEF KernelInv, Core
<1>3. Spawned'
  BY <1>1, <1>2, SpawnedCall
<1>4. InService'
  BY <1>1, <1>2, InServicePanic
<1>5. Trapped'
  BY <1>1, <1>2, TrappedCall
<1> QED BY <1>1, <1>3, <1>4, <1>5 DEF KernelInv

\* Emit keeps KernelInv; it panics nowhere that the mapper is held.
LEMMA EmitPreserves ==
  ASSUME KernelInv, K!Emit
  PROVE  KernelInv'
<1>1. /\ K!Op(running)[1] = "emit"
      /\ stack' = K!Advanced(running) \/ stack' = K!Called(running, "panic")
      /\ running' = running /\ iflag' = iflag /\ lock' = lock
      /\ PROCESS_LIST' = PROCESS_LIST /\ CURRENT_PROCESS' = CURRENT_PROCESS
      /\ inService' = inService /\ saved' = saved
  BY DEF K!Emit, K!At, K!Panic, K!Machine
<1>2. CASE stack' = K!Advanced(running)
  BY <1>1, <1>2, PlainStep DEF Advancing
<1>3. CASE stack' = K!Called(running, "panic")
  <2>1. Core /\ StackType /\ Flags
    BY DEF KernelInv, Core
  <2>2. /\ Where(K!Top(running).prog, K!Top(running).pc, K!Op(running))
        /\ K!Top(running) = [prog |-> K!Top(running).prog, pc |-> K!Top(running).pc]
    BY <2>1, TopFacts
  <2>3. /\ ~Holds(K!Top(running), "MAPPER") /\ ~Holds(K!Top(running), "FRAME_ALLOCATOR")
        /\ K!Top(running).prog = "panic" => ~On(K!Top(running))
    BY <1>1, <2>2 DEF Where
  <2>4. iflag => On(K!Top(running))
    BY <2>1, TopFacts DEF Flags
  <2>5. running = "main" /\ iflag =>
          \A l \in {"MAPPER", "FRAME_ALLOCATOR"} : lock[l] # "main"
    BY <2>1, <2>3, <2>4, MapperEnabled
  <2>6. iflag' \in BOOLEAN /\ lock' \in [K!Locks -> K!Threads \cup {"free"}]
    BY <1>1, <2>1 DEF StackType
  <2> QED BY <1>1, <1>3, <2>5, <2>6, PanicPreserves
<1> QED BY <1>1, <1>2, <1>3

\* MapPages keeps KernelInv; kernel_main drops both guards before it panics.
LEMMA MapPagesPreserves ==
  ASSUME KernelInv, K!MapPages
  PROVE  KernelInv'
<1>1. /\ K!Op(running)[1] = "map"
      /\ running' = running /\ iflag' = iflag
      /\ PROCESS_LIST' = PROCESS_LIST /\ CURRENT_PROCESS' = CURRENT_PROCESS
      /\ inService' = inService /\ saved' = saved
  BY DEF K!MapPages, K!At, K!Panic, K!Machine
<1>2. Core /\ StackType
  BY DEF KernelInv, Core
<1>3. iflag' \in BOOLEAN
  BY <1>1, <1>2 DEF StackType
<1>4. CASE stack' = K!Advanced(running) /\ lock' = lock
  BY <1>1, <1>4, PlainStep DEF Advancing
<1>5. CASE running = "init" /\ stack' = K!Called(running, "panic") /\ lock' = lock
  BY <1>1, <1>2, <1>3, <1>5, PanicPreserves DEF StackType
<1>6. CASE /\ running = "main" /\ stack' = K!Called(running, "panic")
           /\ lock' = [lock EXCEPT !["MAPPER"] = "free", !["FRAME_ALLOCATOR"] = "free"]
  <2>1. /\ Where(K!Top(running).prog, K!Top(running).pc, K!Op(running))
        /\ K!Top(running) = [prog |-> K!Top(running).prog, pc |-> K!Top(running).pc]
    BY <1>2, TopFacts
  <2>2. Holds(K!Top(running), "MAPPER") /\ Holds(K!Top(running), "FRAME_ALLOCATOR")
    BY <1>1, <2>1 DEF Where
  <2>3. lock' \in [K!Locks -> K!Threads \cup {"free"}]
    BY <1>2, <1>6 DEF StackType
  <2>4. \A l \in K!Locks :
          lock'[l] = IF l \in {"MAPPER", "FRAME_ALLOCATOR"} THEN "free" ELSE lock[l]
    BY <1>2, <1>6 DEF StackType
  <2>5. \A l \in K!Locks : \/ lock'[l] = lock[l]
                           \/ lock'[l] = "free" /\ Holds(K!Top(running), l)
    BY <2>2, <2>4
  <2>6. \A l \in {"MAPPER", "FRAME_ALLOCATOR"} : lock'[l] # "main"
    BY <2>4 DEF K!Locks
  <2> QED BY <1>1, <1>3, <1>6, <2>3, <2>5, <2>6, PanicPreserves
<1> QED BY <1>4, <1>5, <1>6 DEF K!MapPages, K!Panic

\* PipePush keeps KernelInv; it panics with interrupts off.
LEMMA PipePushPreserves ==
  ASSUME KernelInv, K!PipePush
  PROVE  KernelInv'
<1>1. /\ K!Op(running)[1] = "push"
      /\ stack' = K!Advanced(running) \/ stack' = K!Called(running, "panic")
      /\ running' = running /\ iflag' = iflag /\ lock' = lock
      /\ PROCESS_LIST' = PROCESS_LIST /\ CURRENT_PROCESS' = CURRENT_PROCESS
      /\ inService' = inService /\ saved' = saved
  BY DEF K!PipePush, K!At, K!Panic, K!Machine
<1>2. CASE stack' = K!Advanced(running)
  BY <1>1, <1>2, PlainStep DEF Advancing
<1>3. CASE stack' = K!Called(running, "panic")
  <2>1. Core /\ StackType /\ Flags
    BY DEF KernelInv, Core
  <2>2. K!Top(running).prog = "keyboard_handler"
    BY <1>1, <2>1, TopFacts DEF Where
  <2>3. ~On(K!Top(running))
    BY <2>2 DEF On
  <2>4. ~iflag
    BY <2>1, <2>3, TopFacts DEF Flags
  <2>5. iflag' \in BOOLEAN /\ lock' \in [K!Locks -> K!Threads \cup {"free"}]
    BY <1>1, <2>1 DEF StackType
  <2> QED BY <1>1, <1>3, <2>4, <2>5, PanicPreserves
<1> QED BY <1>1, <1>2, <1>3

\* Exception keeps KernelInv.
LEMMA ExceptionPreserves ==
  ASSUME KernelInv, K!Exception
  PROVE  KernelInv'
<1>1. /\ stack' = K!Called(running, "panic") /\ iflag' = FALSE
      /\ running' = running /\ lock' = lock
      /\ PROCESS_LIST' = PROCESS_LIST /\ CURRENT_PROCESS' = CURRENT_PROCESS
      /\ inService' = inService /\ saved' = saved
  BY DEF K!Exception, K!Machine
<1>2. lock' \in [K!Locks -> K!Threads \cup {"free"}]
  BY <1>1 DEF KernelInv, Core, StackType
<1> QED BY <1>1, <1>2, PanicPreserves

\* UserCall keeps KernelInv.
LEMMA UserCallPreserves ==
  ASSUME KernelInv, K!UserCall
  PROVE  KernelInv'
<1>1. /\ K!Op(running)[1] = "user"
      /\ running' = running /\ iflag' = iflag /\ lock' = lock
      /\ PROCESS_LIST' = PROCESS_LIST /\ CURRENT_PROCESS' = CURRENT_PROCESS
      /\ inService' = inService /\ saved' = saved
  BY DEF K!UserCall, K!At, K!Machine
<1>2. Core /\ StackType /\ Trapped /\ Spawned /\ InService
  BY DEF KernelInv, Core
<1>3. K!Top(running).prog = "user"
  BY <1>1, <1>2, TopFacts DEF Where
<1>4. InService'
  BY <1>1, <1>2, SettledElsewhere DEF Settled, InService
<1>5. PICK s \in K!Syscalls : stack' = K!Called(running, s)
  BY DEF K!UserCall
<1>6. Core' /\ Pushed(s)
  BY <1>1, <1>2, <1>3, <1>5, SyscallStep
<1>7. Spawned'
  BY <1>1, <1>2, <1>6, SpawnedCall
<1>8. Trapped'
  BY <1>1, <1>2, <1>6, TrappedCall DEF K!Syscalls
<1> QED BY <1>4, <1>6, <1>7, <1>8 DEF KernelInv

\* DebugTrap keeps KernelInv: it saves the flag as it is, and finds no handler
\* on the stack.
LEMMA DebugTrapPreserves ==
  ASSUME KernelInv, K!DebugTrap
  PROVE  KernelInv'
<1> DEFINE n == Len(stack["init"])
<1>1. /\ K!MayTrap /\ stack' = K!Called(running, "debug_handler")
      /\ saved' = iflag /\ iflag' = FALSE
      /\ running' = running /\ lock' = lock
      /\ PROCESS_LIST' = PROCESS_LIST /\ CURRENT_PROCESS' = CURRENT_PROCESS
      /\ inService' = inService
  BY DEF K!DebugTrap
<1>2. Core /\ StackType /\ Shape /\ Flags /\ Spawned /\ InService
  BY DEF KernelInv, Core
<1>3. /\ running \in K!Threads /\ Len(stack[running]) \in Nat /\ Len(stack[running]) >= 1
      /\ K!Top(running) = stack[running][Len(stack[running])]
  BY <1>2, TopFacts
<1>4. \A i \in 1 .. Len(stack[running]) :
        stack[running][i].prog \in K!Syscalls \cup {"user", "panic"}
  <2>1. DOMAIN stack[running] = 1 .. Len(stack[running])
    BY <1>2, <1>3 DEF StackType
  <2> QED BY <1>1, <2>1 DEF K!MayTrap
<1>5. running = "init"
  <2>1. 1 \in 1 .. Len(stack[running])
    BY <1>3
  <2>2. stack[running][1].prog \notin Mains
    BY <1>4, <2>1 DEF Mains, K!Syscalls
  <2> QED BY <1>2, <1>3, <2>2 DEF Shape, K!Threads
<1>6. "debug_handler" \in Handlers
  BY DEF Handlers
<1>7. Core' /\ Pushed("debug_handler")
  BY <1>1, <1>2, <1>5, <1>6, HandlerStep
<1>8. Spawned'
  BY <1>1, <1>2, <1>7, SpawnedCall
<1>9. InService'
  <2>1. \A i \in 1 .. Len(stack[running]) :
          stack[running][i].prog \notin {"timer_handler", "keyboard_handler"}
    BY <1>4 DEF K!Syscalls
  <2>2. Settled
    BY <1>2, <2>1 DEF InService, Settled
  <2> QED BY <1>1, <2>2 DEF InService, Settled
<1>10. Trapped'
  <2>1. /\ Len(stack'["init"]) = n + 1
        /\ \A i \in 1 .. n : stack'["init"][i] = stack["init"][i]
    BY <1>5, <1>7 DEF Pushed, Calls
  <2>2. /\ n \in Nat /\ n >= 1 /\ K!Top(running) = stack["init"][n]
        /\ \A i \in 1 .. n : stack["init"][i].prog # "debug_handler"
    BY <1>3, <1>4, <1>5 DEF K!Syscalls
  <2>3. /\ iflag \in BOOLEAN
        /\ iflag => \A i \in 1 .. n : On(stack["init"][i])
        /\ ~iflag => ~On(stack["init"][n]) \/ stack["init"][n].prog = "panic"
    BY <1>2, <1>5, <2>2 DEF Flags, StackType
  <2> HIDE DEF n
  <2> SUFFICES ASSUME NEW i \in 2 .. Len(stack'["init"]),
                      stack'["init"][i].prog = "debug_handler"
               PROVE  /\ iflag \in BOOLEAN
                      /\ iflag => \A j \in 1 .. i - 1 : On(stack'["init"][j])
                      /\ ~iflag => \/ ~On(stack'["init"][i - 1])
                                   \/ stack'["init"][i - 1].prog = "panic"
    BY <1>1 DEF Trapped
  <2>4. i - 1 = n
    <3>1. i \notin 1 .. n
      BY <2>1, <2>2
    <3> QED BY <2>1, <2>2, <3>1
  <2>5. n \in 1 .. n
    BY <2>2
  <2> QED BY <2>1, <2>3, <2>4, <2>5
<1> QED BY <1>7, <1>8, <1>9, <1>10 DEF KernelInv

\* Interrupt keeps KernelInv.
LEMMA InterruptPreserves ==
  ASSUME KernelInv, NEW h \in K!Interrupts, K!Interrupt(h)
  PROVE  KernelInv'
<1>1. /\ iflag /\ stack' = K!Called(running, h) /\ iflag' = FALSE
      /\ running' = running /\ lock' = lock
      /\ PROCESS_LIST' = PROCESS_LIST /\ CURRENT_PROCESS' = CURRENT_PROCESS
      /\ h \in K!Prioritised => inService = {}
      /\ inService' = inService \cup (K!Prioritised \cap {h})
      /\ saved' = saved
  BY DEF K!Interrupt
<1>2. Core /\ StackType /\ Trapped /\ Spawned /\ InService
  BY DEF KernelInv, Core
<1>3. h \in Handlers /\ h # "debug_handler"
  BY DEF Handlers, K!Interrupts, K!Prioritised
<1>4. Core' /\ Pushed(h)
  BY <1>1, <1>2, <1>3, HandlerStep
<1>5. Spawned'
  BY <1>1, <1>2, <1>4, SpawnedCall
<1>6. InService'
  <2>1. Settled
    BY <1>1, <1>2, SettledElsewhere
  <2>2. K!Top(running)'.prog = h /\ K!Top(running)'.pc = 1
    BY <1>4 DEF Pushed, K!Activation
  <2>3. CASE h \notin K!Prioritised
    <3>1. inService' = inService
      BY <1>1, <2>3
    <3> QED BY <2>1, <3>1 DEF Settled, InService
  <2>4. CASE h \in K!Prioritised
    <3>1. inService' = {h}
      BY <1>1, <2>4
    <3>2. CASE h = "lapic_error_handler"
      BY <3>1, <3>2 DEF InService
    <3>3. CASE h # "lapic_error_handler"
      <4>1. h \in {"timer_handler", "keyboard_handler"}
        BY <2>4, <3>3 DEF K!Prioritised
      <4>2. inService' \in SUBSET K!Prioritised
        BY <2>4, <3>1
      <4>3. \E i \in 1 .. Len(stack'[running']) :
              stack'[running'][i].prog \in {"timer_handler", "keyboard_handler"}
        <5>1. /\ running' = running /\ K!Activation(h).prog = h
              /\ Len(stack'[running]) = Len(stack[running]) + 1
              /\ stack'[running][Len(stack[running]) + 1] = K!Activation(h)
              /\ Len(stack[running]) \in Nat
          BY <1>2, <1>4, TopFacts DEF Pushed, Calls, K!Activation
        <5>2. Len(stack[running]) + 1 \in 1 .. Len(stack'[running])
          BY <5>1
        <5> QED BY <4>1, <5>1, <5>2
      <4> QED BY <1>1, <2>2, <4>1, <4>2, <4>3 DEF InService
    <3> QED BY <3>2, <3>3
  <2> QED BY <2>3, <2>4
<1>7. Trapped'
  BY <1>1, <1>2, <1>3, <1>4, TrappedCall
<1> QED BY <1>4, <1>5, <1>6, <1>7 DEF KernelInv

\* Switch, Iret and Ret keep KernelInv.
LEMMA ReturnPreserves ==
  ASSUME KernelInv, K!Switch \/ K!Iret \/ K!Ret
  PROVE  KernelInv'
<1>1. /\ K!Op(running)[1] \in {"switch", "iret", "ret"} /\ stack' = K!Returned(running)
      /\ lock' = lock /\ PROCESS_LIST' = PROCESS_LIST
      /\ CURRENT_PROCESS' = CURRENT_PROCESS /\ inService' = inService /\ saved' = saved
      /\ running' = running \/ running' = PROCESS_LIST[CURRENT_PROCESS]
  BY DEF K!Switch, K!Iret, K!Ret, K!At, K!Machine
<1>2. Core /\ StackType /\ Shape /\ Flags /\ Trapped /\ Spawned /\ InService
  BY DEF KernelInv, Core
<1>3. /\ Steps(K!Top(running).prog, K!Top(running).pc, K!Op(running))
      /\ Where(K!Top(running).prog, K!Top(running).pc, K!Op(running))
      /\ K!Top(running) = [prog |-> K!Top(running).prog, pc |-> K!Top(running).pc]
      /\ running \in K!Threads
  BY <1>2, TopFacts
<1>4. \A l \in K!Locks : ~Holds(K!Top(running), l)
  BY <1>1, <1>3 DEF Steps
<1>5. /\ K!Op(running)[1] \in {"switch", "iret"} => K!Top(running).prog \in Handlers
      /\ K!Op(running)[1] = "ret" => K!Top(running).prog \in K!Syscalls /\ On(K!Top(running))
  BY <1>3 DEF Where, Handlers, K!Interrupts, K!Prioritised
<1>6. K!Top(running).prog \in K!Syscalls => K!Top(running).prog \notin Handlers
  BY DEF K!Syscalls, Handlers, K!Interrupts, K!Prioritised
<1>7. K!Op(running)[1] = "ret" => iflag
  <2>1. K!Top(running).prog \in K!Syscalls => K!Top(running).prog # "panic"
    BY DEF K!Syscalls
  <2> QED BY <1>2, <1>5, <2>1 DEF Flags
<1>8. /\ iflag' \in BOOLEAN
      /\ iflag' => \A i \in 1 .. Len(stack[running]) - 1 : On(stack[running][i])
      /\ ~iflag' => LET a == stack[running][Len(stack[running]) - 1]
                    IN  running' = running /\ (~On(a) \/ a.prog = "panic")
  <2> DEFINE n == Len(stack[running])
  <2>1. n \in Nat /\ n >= 1 /\ K!Top(running) = stack[running][n]
    BY <1>2, TopFacts
  <2>2. CASE K!Op(running)[1] = "ret"
    <3>1. iflag' = iflag
      BY <2>2 DEF K!Switch, K!Iret, K!Ret, K!At
    <3> QED BY <1>2, <1>7, <2>1, <2>2, <3>1 DEF StackType, Flags
  <2>3. CASE K!Op(running)[1] # "ret" /\ K!Top(running).prog # "debug_handler"
    <3>1. iflag' = TRUE
      BY <2>3 DEF K!Switch, K!Iret, K!Ret, K!At
    <3>2. n \in 1 .. n /\ stack[running][n].prog \in K!Interrupts
      BY <1>1, <1>5, <2>1, <2>3 DEF Handlers
    <3> QED BY <1>2, <1>3, <3>1, <3>2 DEF Flags
  <2>4. CASE K!Op(running)[1] # "ret" /\ K!Top(running).prog = "debug_handler"
    <3>1. K!Iret
      <4>1. K!Op(running)[1] # "switch"
        BY <1>3, <2>4 DEF Where
      <4> QED BY <2>4, <4>1 DEF K!Switch, K!Ret, K!At
    <3>2. running = "init" /\ n # 1
      BY <1>2, <2>4, Bases DEF Mains
    <3>3. n \in 2 .. n
      <4>1. n \in Nat /\ n >= 1 /\ n # 1
        BY <2>1, <3>2
      <4> HIDE DEF n
      <4> QED BY <4>1
    <3>4. /\ saved \in BOOLEAN
          /\ saved => \A j \in 1 .. n - 1 : On(stack[running][j])
          /\ ~saved => ~On(stack[running][n - 1]) \/ stack[running][n - 1].prog = "panic"
      BY <1>2, <2>1, <2>4, <3>2, <3>3 DEF Trapped
    <3>5. iflag' = saved /\ running' = running
      <4>1. iflag' = (K!Top(running).prog = "debug_handler" => saved) /\ running' = running
        BY <3>1 DEF K!Iret
      <4> QED BY <2>4, <3>4, <4>1
    <3> QED BY <3>4, <3>5
  <2> QED BY <2>2, <2>3, <2>4
<1>9. PROCESS_LIST[CURRENT_PROCESS] \in K!Threads
  BY <1>2 DEF Spawned, K!Threads
<1>10. Core' /\ Returns
  BY <1>1, <1>2, <1>3, <1>4, <1>5, <1>6, <1>7, <1>8, <1>9, ReturnStep
<1>11. Len(stack[running]) # 1
  BY <1>1, <1>2, <1>5, Bases DEF Mains, K!Syscalls, Handlers, K!Interrupts, K!Prioritised
<1>12. Spawned'
  BY <1>1, <1>2, <1>10, <1>11, SpawnedReturn
<1>13. InService'
  BY <1>1, <1>2, SettledElsewhere DEF Settled, InService
<1>14. Trapped'
  BY <1>1, <1>2, <1>10, TrappedReturn
<1> QED BY <1>10, <1>12, <1>13, <1>14 DEF KernelInv

-----------------------------------------------------------------------------
\* The boot loader enters kernel_main with interrupts off and all locks free.
LEMMA KernelInit == K!Init => KernelInv
<1> SUFFICES ASSUME K!Init PROVE KernelInv
  OBVIOUS
<1>1. PICK m \in {"kernel_main", "kernel_main_no_ramdisk"} :
        stack = [main |-> <<K!Activation(m)>>, init |-> <<K!Activation("user")>>]
  BY DEF K!Init
<1>2. /\ running = "main" /\ iflag = FALSE /\ lock = [l \in K!Locks |-> "free"]
      /\ PROCESS_LIST = <<"main">> /\ CURRENT_PROCESS = 1 /\ inService = {}
  BY DEF K!Init
<1>3. /\ K!Activation(m) \in Points /\ InCode(K!Activation(m))
      /\ K!Activation("user") \in Points /\ InCode(K!Activation("user"))
  BY Starts DEF Progs
<1>4. /\ K!Activation(m).prog = m /\ K!Activation(m).pc = 1
      /\ K!Activation("user").prog = "user" /\ K!Activation("user").pc = 1
  BY DEF K!Activation
<1> DEFINE a == K!Activation(m)
           u == K!Activation("user")
<1> HIDE DEF a, u
<1>5. /\ stack["main"] = <<a>> /\ stack["init"] = <<u>> /\ DOMAIN stack = K!Threads
  BY <1>1 DEF K!Threads, a, u
<1>6. \A t \in K!Threads : Len(stack[t]) = 1 /\ stack[t][1] \in {a, u}
                         /\ stack[t] \in Seq(Points)
  <2>1. a \in Points /\ u \in Points
    BY <1>3 DEF a, u
  <2>2. <<a>> \in Seq(Points) /\ Len(<<a>>) = 1 /\ <<a>>[1] = a
    BY <2>1
  <2>3. <<u>> \in Seq(Points) /\ Len(<<u>>) = 1 /\ <<u>>[1] = u
    BY <2>1
  <2>4. \A t \in K!Threads : stack[t] = <<a>> \/ stack[t] = <<u>>
    BY <1>5 DEF K!Threads
  <2> QED BY <2>2, <2>3, <2>4
<1>7. stack["main"][1] = a /\ stack["init"][1] = u /\ Len(stack["main"]) = 1
  BY <1>5
<1>8. StackType
  <2>1. InCode(a) /\ InCode(u)
    BY <1>3 DEF a, u
  <2>2. \A t \in K!Threads : \A i \in 1 .. Len(stack[t]) : InCode(stack[t][i])
    BY <1>6, <2>1
  <2>3. \A t \in K!Threads : Len(stack[t]) >= 1
    BY <1>6
  <2>4. running \in K!Threads /\ iflag \in BOOLEAN
        /\ lock \in [K!Locks -> K!Threads \cup {"free"}]
    BY <1>2 DEF K!Threads
  <2> QED BY <1>5, <1>6, <2>2, <2>3, <2>4 DEF StackType
<1>9. Shape
  BY <1>4, <1>6, <1>7 DEF Shape, Mains, a, u
<1>10. Flags
  <2>1. K!Top(running) = a
    BY <1>2, <1>7 DEF K!Top, K!Last
  <2>2. ~On(a)
    BY <1>4 DEF On, a
  <2>3. On(u)
    BY <1>4 DEF On, u
  <2>4. \A t \in K!Threads : t # running => \A i \in 1 .. Len(stack[t]) : On(stack[t][i])
    BY <1>2, <1>5, <2>3 DEF K!Threads
  <2>5. ASSUME NEW t \in K!Threads, NEW i \in 1 .. Len(stack[t]), NEW j \in 1 .. i - 1
        PROVE  FALSE
    <3>1. i \in 1 .. 1
      BY <1>6
    <3> QED BY <3>1
  <2> QED BY <1>2, <2>1, <2>2, <2>4, <2>5 DEF Flags
<1>11. \A t \in K!Threads : \A i \in 1 .. Len(stack[t]) : \A l \in K!Locks :
         ~Holds(stack[t][i], l)
  <2>1. \A l \in K!Locks : ~Holds(a, l) /\ ~Holds(u, l)
    BY <1>3, <1>4, PointFacts DEF a, u
  <2> QED BY <1>6, <2>1
<1>12. Held /\ Owner /\ Once
  BY <1>2, <1>11 DEF Held, Owner, Once
<1>13. PanicKeeps
  BY <1>2 DEF PanicKeeps, K!Locks
<1>14. Spawned
  BY <1>2, <1>4, <1>5, <1>7 DEF Spawned, a, u
<1>15. InService
  BY <1>2 DEF InService
<1>16. Trapped
  <2>1. Len(stack["init"]) = 1
    BY <1>6 DEF K!Threads
  <2> QED BY <2>1 DEF Trapped
<1> QED BY <1>8, <1>9, <1>10, <1>12, <1>13, <1>14, <1>15, <1>16 DEF KernelInv, Core

\* Every step of the kernel keeps KernelInv.
LEMMA KernelNext == KernelInv /\ [K!Next]_(K!vars) => KernelInv'
<1> SUFFICES ASSUME KernelInv, [K!Next]_(K!vars) PROVE KernelInv'
  OBVIOUS
<1>1. CASE K!Acquire
  BY <1>1, AcquirePreserves
<1>2. CASE K!Release
  BY <1>2, ReleasePreserves
<1>3. CASE K!SetInterruptFlag
  BY <1>3, FlagPreserves
<1>4. CASE K!Emit
  BY <1>4, EmitPreserves
<1>5. CASE K!MapPages
  BY <1>5, MapPagesPreserves
<1>6. CASE K!UserMemory
  BY <1>6, PlainStep DEF K!UserMemory, K!At, Advancing, K!Machine
<1>7. CASE K!Spawn
  BY <1>7, SpawnPreserves
<1>8. CASE K!Eoi
  BY <1>8, EoiPreserves
<1>9. CASE K!Pick
  BY <1>9, PlainStep DEF K!Pick, K!At, Advancing
<1>10. CASE K!Switch \/ K!Iret \/ K!Ret
  BY <1>10, ReturnPreserves
<1>11. CASE K!PipePush
  BY <1>11, PipePushPreserves
<1>12. CASE K!PopClaim
  BY <1>12, PlainStep DEF K!PopClaim, K!At, Advancing
<1>13. CASE K!PopRelease
  BY <1>13, PlainStep DEF K!PopRelease, K!At, Advancing
<1>14. CASE K!NextByte
  BY <1>14, NextBytePreserves
<1>15. CASE K!UserCall
  BY <1>15, UserCallPreserves
<1>16. CASE K!Exception
  BY <1>16, ExceptionPreserves
<1>17. CASE \E h \in K!Interrupts : K!Interrupt(h)
  BY <1>17, InterruptPreserves
<1>18. CASE UNCHANGED K!vars
  BY <1>18 DEF K!vars, KernelInv, Core, StackType, Shape, Flags, Held, Owner, Once, PanicKeeps,
               Trapped, Spawned, InService, Live, K!Top
<1>19. CASE K!DebugTrap
  BY <1>19, DebugTrapPreserves
<1> QED BY <1>1, <1>2, <1>3, <1>4, <1>5, <1>6, <1>7, <1>8, <1>9, <1>10, <1>11, <1>12,
           <1>13, <1>14, <1>15, <1>16, <1>17, <1>18, <1>19
        DEF K!Next, K!Execute

\* KernelInv is an invariant of the kernel: in every interleaving the locks are
\* held and the interrupts enabled exactly where the code says.
THEOREM KernelInductive == K!Spec => []KernelInv
BY KernelInit, KernelNext, PTL DEF K!Spec

\* What KernelCode defines, here and as seen by Kernel.
LEMMA SameCode == Code = K!Code
BY DEF Code, K!Code,
       Log, K!Log, HeapAlloc, K!HeapAlloc, add_user_process, K!add_user_process, Boot,
       K!Boot, kernel_main, K!kernel_main, send_eoi, K!send_eoi, timer_handler,
       K!timer_handler, keyboard_handler, K!keyboard_handler, logging_handler,
       K!logging_handler, read_syscall, K!read_syscall, write_syscall, K!write_syscall,
       anon_allocate_syscall, K!anon_allocate_syscall, unknown_syscall,
       K!unknown_syscall, panic, K!panic

LEMMA SameMachine ==
  /\ Locks = K!Locks
  /\ HandlerLocks = K!HandlerLocks
  /\ \A t : Top(t) = K!Top(t) /\ Op(t) = K!Op(t)
BY SameCode DEF Locks, K!Locks, HandlerLocks, K!HandlerLocks, Top, K!Top, Last, K!Last,
       Op, K!Op

LEMMA SameInvariants ==
  /\ K!HandlerLocksMasked => HandlerLocksMasked
  /\ K!TimerStopsOnlyAfterLapicError => TimerStopsOnlyAfterLapicError
  /\ K!StuckOnlyKnownWays => StuckOnlyKnownWays
<1>1. K!HandlerLocksMasked => HandlerLocksMasked
  BY SameMachine DEF HandlerLocksMasked, K!HandlerLocksMasked
<1>2. K!TimerStopsOnlyAfterLapicError => TimerStopsOnlyAfterLapicError
  BY DEF TimerStopsOnlyAfterLapicError, K!TimerStopsOnlyAfterLapicError, TimerBlocked,
         K!TimerBlocked
<1>3. /\ \A l : WaitsForLock(l) <=> K!WaitsForLock(l)
      /\ WaitsForSlot <=> K!WaitsForSlot
  BY SameMachine DEF WaitsForLock, K!WaitsForLock, WaitsForSlot, K!WaitsForSlot, At, K!At
<1>4. K!StuckOnlyKnownWays => StuckOnlyKnownWays
  BY <1>3, SameMachine DEF StuckOnlyKnownWays, K!StuckOnlyKnownWays
<1> QED BY <1>1, <1>2, <1>4

-----------------------------------------------------------------------------
\* A lock of the handlers is only held where interrupts are off, and a thread
\* is only preempted where they are on.
LEMMA MaskedFromInv == KernelInv => K!HandlerLocksMasked
<1> SUFFICES ASSUME KernelInv, NEW l \in K!HandlerLocks, lock[l] # "free"
             PROVE  ~iflag /\ lock[l] = running
  BY DEF K!HandlerLocksMasked
<1>1. StackType /\ Flags /\ Held
  BY DEF KernelInv, Core
<1>2. l \in K!Locks
  BY DEF K!HandlerLocks, K!Locks
<1>3. lock[l] \in K!Threads
  BY <1>1, <1>2 DEF StackType
<1>4. PICK i \in 1 .. Len(stack[lock[l]]) : Holds(stack[lock[l]][i], l)
  BY <1>1, <1>2 DEF Held
<1>5. stack[lock[l]][i] \in Points
  BY <1>1, <1>3, <1>4 DEF StackType
<1>6. ~On(stack[lock[l]][i])
  BY <1>2, <1>4, <1>5, PointFacts
<1> QED BY <1>1, <1>3, <1>4, <1>6 DEF Flags

\* A lock that the timer or the keyboard handler takes, or that of the heap, is
\* never held while an interrupt can arrive nor across a switch of threads.
THEOREM HandlersNeverWait == K!Spec => []HandlerLocksMasked
BY KernelInductive, MaskedFromInv, SameInvariants, PTL

\* With interrupts enabled no handler is about to acknowledge.
LEMMA TimerFromInv == KernelInv => K!TimerStopsOnlyAfterLapicError
BY DEF KernelInv, InService, K!TimerStopsOnlyAfterLapicError, K!TimerBlocked

\* The timer stops interrupting only after a LAPIC error interrupt, whose
\* handler returns without acknowledging it.
THEOREM TimerGoesOn == K!Spec => []TimerStopsOnlyAfterLapicError
BY KernelInductive, TimerFromInv, SameInvariants, PTL

-----------------------------------------------------------------------------
\* Whoever waits with interrupts off is not waiting for a lock that the timer
\* or the keyboard handler takes: an activation further out on its own stack
\* would hold it, with interrupts off, and then only a panic is above it.
LEMMA NoWaitForHandlerLock ==
  ASSUME KernelInv, NEW l \in K!HandlerLocks, K!WaitsForLock(l)
  PROVE  FALSE
<1> DEFINE n == Len(stack[running])
<1>1. StackType /\ Shape /\ Flags /\ Held
  BY DEF KernelInv, Core
<1>2. K!Op(running)[1] = "lock" /\ K!Op(running)[2] = l /\ lock[l] # "free" /\ ~iflag
  BY DEF K!WaitsForLock, K!At
<1>3. l \in K!Locks /\ l # "LOGGER"
  BY DEF K!HandlerLocks, K!Locks
<1>4. lock[l] = running
  BY <1>2, MaskedFromInv DEF K!HandlerLocksMasked
<1>5. /\ running \in K!Threads /\ n \in Nat /\ n >= 1 /\ K!Top(running) = stack[running][n]
      /\ Steps(K!Top(running).prog, K!Top(running).pc, K!Op(running))
      /\ Where(K!Top(running).prog, K!Top(running).pc, K!Op(running))
      /\ K!Top(running) = [prog |-> K!Top(running).prog, pc |-> K!Top(running).pc]
  BY <1>1, TopFacts
<1>6. ~Holds(K!Top(running), l)
  BY <1>2, <1>5 DEF Steps
<1>7. PICK i \in 1 .. n : Holds(stack[running][i], l)
  BY <1>1, <1>2, <1>3, <1>4 DEF Held
<1>8. stack[running][i] \in Points
  BY <1>1, <1>5, <1>7 DEF StackType
<1>9. ~On(stack[running][i])
  BY <1>3, <1>7, <1>8, PointFacts
<1>10. i # n
  BY <1>5, <1>6, <1>7
<1>11. n # 1 /\ i \in 1 .. n - 1 /\ n \in 1 .. n
  <2>1. n \in Nat /\ n >= 1 /\ i \in 1 .. n
    BY <1>5, <1>7
  <2> HIDE DEF n
  <2> QED BY <1>10, <2>1
<1>12. K!Top(running).prog \notin Handlers
  <2>1. K!Top(running).prog \notin K!Interrupts
    BY <1>1, <1>5, <1>9, <1>11 DEF Flags
  <2>2. K!Top(running).prog # "debug_handler"
    BY <1>2, <1>3, <1>5 DEF Where, Loggers
  <2> QED BY <2>1, <2>2 DEF Handlers
<1>13. K!Top(running).prog \in K!Syscalls => running = "init" /\ i = 1
  <2>1. K!Top(running).prog \in K!Syscalls => running = "init" /\ n = 2
    BY <1>1, Bases
  <2>2. i \in 1 .. n - 1
    BY <1>11
  <2>3. n = 2 => i = 1
    <3> HIDE DEF n
    <3> QED BY <2>2
  <2> QED BY <2>1, <2>3
<1>14. K!Top(running).prog \notin K!Syscalls
  <2> SUFFICES ASSUME K!Top(running).prog \in K!Syscalls PROVE FALSE
    OBVIOUS
  <2>1. stack[running][i].prog = "user"
    BY <1>1, <1>13 DEF Shape
  <2> QED BY <1>9, <2>1 DEF On
<1>15. K!Top(running).prog # "panic"
  BY <1>2, <1>3, <1>5 DEF Where
<1>16. K!Top(running).prog \in Handlers \cup K!Syscalls \cup {"panic"}
  <2>1. n \in 2 .. n
    <3>1. n \in Nat /\ n >= 1 /\ n # 1
      BY <1>5, <1>11
    <3> HIDE DEF n
    <3> QED BY <3>1
  <2> QED BY <1>1, <1>5, <2>1 DEF Shape
<1> QED BY <1>12, <1>14, <1>15, <1>16

\* The frame allocator is only waited for by who holds the mapper, and whoever
\* holds the frame allocator would hold the mapper as well.
LEMMA NoWaitForFrameAllocator ==
  ASSUME KernelInv, K!WaitsForLock("FRAME_ALLOCATOR")
  PROVE  FALSE
<1> DEFINE n == Len(stack[running])
           f == lock["FRAME_ALLOCATOR"]
<1>1. StackType /\ Shape /\ Flags /\ Held /\ Owner /\ Once /\ PanicKeeps
  BY DEF KernelInv, Core
<1>2. /\ K!Op(running)[1] = "lock" /\ K!Op(running)[2] = "FRAME_ALLOCATOR"
      /\ f # "free" /\ ~iflag
  BY DEF K!WaitsForLock, K!At
<1>3. "FRAME_ALLOCATOR" \in K!Locks /\ "MAPPER" \in K!Locks /\ "MAPPER" # "FRAME_ALLOCATOR"
  BY DEF K!Locks
<1>4. /\ running \in K!Threads /\ n \in Nat /\ n >= 1 /\ K!Top(running) = stack[running][n]
      /\ Steps(K!Top(running).prog, K!Top(running).pc, K!Op(running))
      /\ Where(K!Top(running).prog, K!Top(running).pc, K!Op(running))
      /\ K!Top(running) = [prog |-> K!Top(running).prog, pc |-> K!Top(running).pc]
      /\ K!Top(running) \in Points
  BY <1>1, TopFacts
<1>5. /\ ~Holds(K!Top(running), "FRAME_ALLOCATOR") /\ Holds(K!Top(running), "MAPPER")
      /\ K!Top(running).prog \in Mains \cup {"anon_allocate_syscall"}
  BY <1>2, <1>4 DEF Steps, Where
<1>6. Live(running, n) /\ n \in 1 .. Len(stack[running])
  BY <1>4 DEF Live
<1>7. lock["MAPPER"] = running
  BY <1>1, <1>3, <1>4, <1>5, <1>6 DEF Owner
<1>8. f \in K!Threads
  BY <1>1, <1>2, <1>3 DEF StackType
<1>9. PICK i \in 1 .. Len(stack[f]) : Holds(stack[f][i], "FRAME_ALLOCATOR")
  BY <1>1, <1>2, <1>3 DEF Held
<1>10. stack[f][i] \in Points
  BY <1>1, <1>8, <1>9 DEF StackType
<1>11. Holds(stack[f][i], "MAPPER")
  BY <1>3, <1>9, <1>10, PointFacts
<1>12. CASE f = running
  <2>1. i # n
    BY <1>4, <1>5, <1>9, <1>12
  <2>2. CASE K!Top(running).prog \in Mains
    <3>1. n = 1
      BY <1>1, <2>2, Bases
    <3>2. i \in 1 .. 1
      BY <1>9, <1>12, <3>1
    <3> QED BY <2>1, <3>1, <3>2
  <2>3. CASE K!Top(running).prog = "anon_allocate_syscall"
    <3>1. running = "init" /\ n = 2
      BY <1>1, <2>3, Bases DEF K!Syscalls
    <3>2. i = 1
      BY <1>9, <1>12, <2>1, <3>1
    <3>3. stack[f][i].prog = "user"
      BY <1>1, <1>12, <3>1, <3>2 DEF Shape
    <3> QED BY <1>3, <1>9, <1>10, <3>3, PointFacts
  <2> QED BY <1>5, <2>2, <2>3
<1>13. CASE f # running
  <2>1. On(stack[f][i])
    BY <1>1, <1>8, <1>9, <1>13 DEF Flags
  <2>2. stack[f][i].prog = "kernel_main"
    BY <1>3, <1>10, <1>11, <2>1, PointFacts
  <2>3. f = "main" /\ Len(stack[f]) \in Nat
    <3>1. i = 1 \/ i \in 2 .. Len(stack[f])
      BY <1>1, <1>8, <1>9 DEF StackType
    <3>2. i \notin 2 .. Len(stack[f])
      BY <1>1, <1>8, <2>2 DEF Shape, Handlers, K!Interrupts, K!Prioritised, K!Syscalls
    <3>3. i = 1
      BY <3>1, <3>2
    <3>4. f # "init"
      BY <1>1, <2>2, <3>3 DEF Shape
    <3> QED BY <1>1, <1>8, <3>4 DEF K!Threads, StackType
  <2>4. Live(f, i)
    <3> SUFFICES ASSUME ~Live(f, i) PROVE FALSE
      OBVIOUS
    <3>1. i + 1 \in 1 .. Len(stack[f]) /\ stack[f][i + 1].prog = "panic"
      BY <1>9, <2>3 DEF Live
    <3> QED BY <1>1, <1>13, <2>3, <3>1 DEF PanicKeeps
  <2>5. lock["MAPPER"] = f
    BY <1>1, <1>3, <1>8, <1>9, <1>11, <2>4 DEF Owner
  <2> QED BY <1>7, <1>13, <2>5
<1> QED BY <1>12, <1>13

\* The mapper is only waited for by a system call of init, and its holder is
\* then kernel_main, preempted within add_user_process.
LEMMA WaitForMapper ==
  ASSUME KernelInv, K!WaitsForLock("MAPPER")
  PROVE  /\ K!Top(running).prog = "anon_allocate_syscall"
         /\ lock["MAPPER"] = "main" /\ K!Top("main").prog = "kernel_main"
<1> DEFINE n == Len(stack[running])
           f == lock["MAPPER"]
<1>1. StackType /\ Shape /\ Flags /\ Held /\ PanicKeeps
  BY DEF KernelInv, Core
<1>2. K!Op(running)[1] = "lock" /\ K!Op(running)[2] = "MAPPER" /\ f # "free" /\ ~iflag
  BY DEF K!WaitsForLock, K!At
<1>3. "MAPPER" \in K!Locks
  BY DEF K!Locks
<1>4. /\ running \in K!Threads /\ n \in Nat /\ n >= 1 /\ K!Top(running) = stack[running][n]
      /\ Steps(K!Top(running).prog, K!Top(running).pc, K!Op(running))
      /\ Where(K!Top(running).prog, K!Top(running).pc, K!Op(running))
      /\ K!Top(running) = [prog |-> K!Top(running).prog, pc |-> K!Top(running).pc]
  BY <1>1, TopFacts
<1>5. /\ ~Holds(K!Top(running), "MAPPER")
      /\ K!Top(running).prog \in Mains \cup {"anon_allocate_syscall"}
  BY <1>2, <1>4 DEF Steps, Where
<1>6. f \in K!Threads
  BY <1>1, <1>2, <1>3 DEF StackType
<1>7. PICK i \in 1 .. Len(stack[f]) : Holds(stack[f][i], "MAPPER")
  BY <1>1, <1>2, <1>3 DEF Held
<1>8. stack[f][i] \in Points
  BY <1>1, <1>6, <1>7 DEF StackType
<1>9. f # running
  <2> SUFFICES ASSUME f = running PROVE FALSE
    OBVIOUS
  <2>1. i # n
    BY <1>4, <1>5, <1>7
  <2>2. CASE K!Top(running).prog \in Mains
    <3>1. n = 1
      BY <1>1, <2>2, Bases
    <3>2. i \in 1 .. 1
      BY <1>7, <3>1
    <3> QED BY <2>1, <3>1, <3>2
  <2>3. CASE K!Top(running).prog = "anon_allocate_syscall"
    <3>1. running = "init" /\ n = 2
      BY <1>1, <2>3, Bases DEF K!Syscalls
    <3>2. i = 1
      BY <1>7, <2>1, <3>1
    <3>3. stack[f][i].prog = "user"
      BY <1>1, <3>1, <3>2 DEF Shape
    <3> QED BY <1>3, <1>7, <1>8, <3>3, PointFacts
  <2> QED BY <1>5, <2>2, <2>3
<1>10. On(stack[f][i])
  BY <1>1, <1>6, <1>7, <1>9 DEF Flags
<1>11. stack[f][i].prog = "kernel_main"
  BY <1>3, <1>7, <1>8, <1>10, PointFacts
<1>12. f = "main"
  <2>1. i = 1 \/ i \in 2 .. Len(stack[f])
    BY <1>1, <1>6, <1>7 DEF StackType
  <2>2. i \notin 2 .. Len(stack[f])
    BY <1>1, <1>6, <1>11 DEF Shape, Handlers, K!Interrupts, K!Prioritised, K!Syscalls
  <2>3. f # "init"
    BY <1>1, <1>11, <2>1, <2>2 DEF Shape
  <2> QED BY <1>6, <2>3 DEF K!Threads
<1>13. K!Top(running).prog = "anon_allocate_syscall"
  BY <1>1, <1>5, <1>9, <1>12, Bases
<1>14. K!Top("main").prog = "kernel_main"
  <2> DEFINE m == Len(stack["main"])
  <2>1. /\ m \in Nat /\ m >= 1 /\ K!Top("main") = stack["main"][m] /\ stack["main"][m] \in Points
    BY <1>1 DEF StackType, K!Threads, K!Top, K!Last
  <2>2. On(stack["main"][m])
    BY <1>1, <1>6, <1>9, <1>12, <2>1 DEF Flags
  <2>3. stack["main"][m].prog \notin Handlers
    BY <1>3, <2>1, <2>2, PointFacts
  <2>4. stack["main"][m].prog # "panic"
    BY <1>1, <1>9, <1>12, <2>1 DEF PanicKeeps
  <2>5. m = 1 \/ m \in 2 .. m
    <3>1. m \in Nat /\ m >= 1
      BY <2>1
    <3> HIDE DEF m
    <3> QED BY <3>1
  <2>6. m \notin 2 .. m
    BY <1>1, <2>3, <2>4 DEF Shape, K!Threads
  <2>7. m = 1
    BY <2>5, <2>6
  <2>8. i = 1
    BY <1>7, <1>12, <2>7
  <2> QED BY <1>11, <1>12, <2>1, <2>7, <2>8
<1> QED BY <1>12, <1>13, <1>14

\* The logger is only waited for by a panic or by a handler that logs: boot
\* logs before anyone else, and when init can trap kernel_main logs no more.
LEMMA WaitForLogger ==
  ASSUME KernelInv, K!WaitsForLock("LOGGER")
  PROVE  \/ K!Top(running).prog \in {"panic", "lapic_error_handler",
                                   "spurious_interrupt_handler"}
         \/ K!Top(running).prog = "debug_handler" /\ lock["LOGGER"] = running
<1> DEFINE n == Len(stack[running])
           f == lock["LOGGER"]
<1>1. StackType /\ Shape /\ Flags /\ Held /\ Spawned
  BY DEF KernelInv, Core
<1>2. K!Op(running)[1] = "lock" /\ K!Op(running)[2] = "LOGGER" /\ f # "free" /\ ~iflag
  BY DEF K!WaitsForLock, K!At
<1>3. "LOGGER" \in K!Locks
  BY DEF K!Locks
<1>4. /\ running \in K!Threads /\ n \in Nat /\ n >= 1 /\ K!Top(running) = stack[running][n]
      /\ Where(K!Top(running).prog, K!Top(running).pc, K!Op(running))
      /\ K!Top(running) = [prog |-> K!Top(running).prog, pc |-> K!Top(running).pc]
  BY <1>1, TopFacts
<1>5. f \in K!Threads
  BY <1>1, <1>2, <1>3 DEF StackType
<1>6. PICK i \in 1 .. Len(stack[f]) : Holds(stack[f][i], "LOGGER")
  BY <1>1, <1>2, <1>3 DEF Held
<1>7. stack[f][i] \in Points
  BY <1>1, <1>5, <1>6 DEF StackType
<1>8. \/ K!Top(running).prog \in Loggers \cup {"panic"}
      \/ K!Top(running).prog \in Mains /\ K!Top(running).pc = 1
      \/ On(K!Top(running))
  BY <1>2, <1>4 DEF Where
<1>9. CASE On(K!Top(running))
  BY <1>1, <1>2, <1>9 DEF Flags
<1>10. CASE K!Top(running).prog \in Mains /\ K!Top(running).pc = 1
  \* nothing has happened yet, so nobody holds a lock
  <2>1. running = "main" /\ n = 1
    BY <1>1, <1>10, Bases
  <2>2. stack["main"][1].pc = 1 /\ ~(stack["main"][1].pc >= 24)
    BY <1>4, <1>10, <2>1
  <2>3. stack["init"] = <<K!Activation("user")>>
    BY <1>1, <2>2 DEF Spawned
  <2>4. f = "main" => i = 1
    BY <1>6, <2>1
  <2>5. f = "main" => ~Holds(stack[f][i], "LOGGER")
    BY <1>3, <1>7, <2>2, <2>4, PointFacts
  <2>6. f = "init" => stack[f][i].prog = "user"
    BY <1>1, <1>6, <2>3 DEF Shape
  <2>7. f = "init" => ~Holds(stack[f][i], "LOGGER")
    BY <1>3, <1>7, <2>6, PointFacts
  <2> QED BY <1>5, <1>6, <2>5, <2>7 DEF K!Threads
<1>11. CASE K!Top(running).prog \in Loggers \cup {"panic"}
  <2> SUFFICES ASSUME K!Top(running).prog = "debug_handler" PROVE f = running
    BY <1>11 DEF Loggers
  \* a trap of init: kernel_main has run as far as add_user_process
  <2>1. running = "init"
    BY <1>1, Bases
  <2>2. stack["main"][1].prog = "kernel_main" /\ stack["main"][1].pc >= 24
    BY <1>1, <2>1 DEF Spawned
  <2>3. CASE f = "main"
    <3>1. On(stack[f][i])
      BY <1>1, <1>5, <1>6, <2>1, <2>3 DEF Flags
    <3>2. stack[f][i].prog \notin Handlers
      BY <1>3, <1>7, <3>1, PointFacts
    <3>3. i # 1
      BY <1>3, <1>6, <1>7, <2>2, <2>3, PointFacts
    <3>4. i \in 2 .. Len(stack[f])
      BY <1>1, <1>5, <1>6, <3>3 DEF StackType
    <3>5. stack[f][i].prog = "panic"
      BY <1>1, <1>5, <2>3, <3>2, <3>4 DEF Shape
    <3> QED BY <1>6, <3>1, <3>5 DEF On, Holds
  <2> QED BY <1>5, <2>1, <2>3 DEF K!Threads
<1> QED BY <1>8, <1>9, <1>10, <1>11

\* The four cases together.
LEMMA StuckFromInv == KernelInv => K!StuckOnlyKnownWays
<1> SUFFICES ASSUME KernelInv PROVE K!StuckOnlyKnownWays
  OBVIOUS
<1>1. StackType
  BY DEF KernelInv, Core
<1>2. ASSUME NEW l \in K!Locks, K!WaitsForLock(l)
      PROVE  \/ /\ l = "LOGGER"
                /\ K!Top(running).prog \in {"panic", "lapic_error_handler",
                                          "spurious_interrupt_handler"}
             \/ /\ l = "LOGGER"
                /\ K!Top(running).prog = "debug_handler"
                /\ lock[l] = running
             \/ /\ l = "MAPPER"
                /\ K!Top(running).prog = "anon_allocate_syscall"
                /\ lock[l] = "main"
                /\ K!Top("main").prog = "kernel_main"
  <2>1. l \notin K!HandlerLocks
    BY <1>2, NoWaitForHandlerLock
  <2>2. l # "FRAME_ALLOCATOR"
    BY <1>2, NoWaitForFrameAllocator
  <2>3. l = "LOGGER" \/ l = "MAPPER"
    BY <2>1, <2>2 DEF K!Locks, K!HandlerLocks
  <2> QED BY <1>2, <2>3, WaitForMapper, WaitForLogger
<1>3. K!WaitsForSlot => K!Top(running).prog = "keyboard_handler"
  BY <1>1, TopFacts DEF K!WaitsForSlot, K!At, Where
<1> QED BY <1>2, <1>3 DEF K!StuckOnlyKnownWays

\* The kernel waits for ever for a lock or a slot of the pipe only in the four
\* ways StuckOnlyKnownWays lists, however threads and interrupts interleave.
THEOREM StopsOnlyInKnownWays == K!Spec => []StuckOnlyKnownWays
BY KernelInductive, StuckFromInv, SameInvariants, PTL

\* No two activations that could still use what a lock protects hold it.
Exclusive ==
  \A l \in K!Locks : \A t, u \in K!Threads :
    \A i \in 1 .. Len(stack[t]) : \A j \in 1 .. Len(stack[u]) :
      /\ Live(t, i) /\ Holds(stack[t][i], l)
      /\ Live(u, j) /\ Holds(stack[u][j], l)
      => t = u /\ i = j

\* The spinlocks exclude: two activations that have locked the same lock and
\* have not unlocked it or panicked are the same activation of the same thread.
THEOREM LocksExclude == K!Spec => []Exclusive
<1>1. KernelInv => Exclusive
  BY DEF KernelInv, Core, Owner, Once, Exclusive
<1> QED BY <1>1, KernelInductive, PTL

-----------------------------------------------------------------------------
\* The two modules agree on the scheduler: from the same process list, without
\* a dead process, the search loop of Scheduler's SwitchToNext ends at the slot
\* to which Kernel's Pick goes at once.
THEOREM PickIsSchedule ==
  ASSUME IInv, SwitchToNext,
         K!Pick, CURRENT_PROCESS = current, Len(PROCESS_LIST) = Len(proc_list)
  PROVE  CURRENT_PROCESS' = current'
<1>1. SwitchToNext /\ at # "thread"
  BY DEF SwitchToNext
<1>2. PICK j \in 1 .. Len(proc_list) :
        FirstReadyAfter(Requeued(SavedList), current, j) /\ current' = j
  BY <1>1 DEF SwitchToNext
<1>3. j = IF current = Len(proc_list) THEN 1 ELSE current + 1
  BY <1>1, <1>2, NextSlot
<1> QED BY <1>2, <1>3 DEF K!Pick
=============================================================================
