-------------------------------- MODULE Apic ---------------------------------
(***************************************************************************)
(* init_apic (kernel/src/int.rs): the legacy PIC is switched off, the local *)
(* APIC set up, its timer calibrated against the PIT, and the entries of   *)
(* every IOAPIC masked but the keyboard's.  It runs with interrupts off,   *)
(* but the timers count while it does.  The devices are modelled from how  *)
(* the code uses them.                                                     *)
(***************************************************************************)
EXTENDS Integers, Sequences

CONSTANTS
  Models,      \* the InterruptModels of machines: of kind "apic", with IOAPICs
  Ids,         \* the local APIC id of the CPU that boots
  PitPeriod,   \* the 10 ms that the PIT is set to, in ticks of the APIC timer
  CounterMax,  \* 0xffffffff
  MaxTicks     \* bound on the time that is told apart

ASSUME ApicAssumption ==
  /\ PitPeriod \in Nat \ {0} /\ CounterMax \in Nat /\ CounterMax >= PitPeriod
  /\ MaxTicks \in Nat /\ MaxTicks >= CounterMax
  /\ Ids \subseteq Nat
  /\ \A m \in Models : m.io_apics \in Seq([max : Nat, base : Nat])

VARIABLES
  at,       \* the step of init_apic
  model,    \* interrupt_model
  id,       \* what the ID register holds in its upper byte
  pic,      \* the legacy PICs: "firmware" or "masked"
  timer,    \* the APIC timer: masked, mode, initial count and current count
  pit,      \* clocks until the PIT is finished; its output is high at 0
  elapsed,  \* history: ticks since the calibration started
  ticks,    \* ticks_in_10ms
  n, i,     \* the IOAPIC and the entry that the loops are at
  entry     \* the redirection entries of each IOAPIC

vars == <<at, model, id, pic, timer, pit, elapsed, ticks, n, i, entry>>

Firmware == [state |-> "firmware", dest |-> 1]

\* The version register gives the largest index of an entry.
Entries(apic) == 0 .. apic.max

Init ==
  /\ at = "pic"
  /\ model \in Models
  /\ id \in Ids
  /\ pic = "firmware"
  /\ timer = [masked |-> FALSE, mode |-> "firmware", initial |-> 0, count |-> 0]
  /\ pit = 0
  /\ elapsed = 0
  /\ ticks = 0
  /\ n = 1 /\ i = 0
  /\ entry = [k \in 1 .. Len(model.io_apics) |->
               [e \in Entries(model.io_apics[k]) |-> Firmware]]

\* Time passes: both timers count down.
Tick ==
  /\ at \in {"trigger", "wait", "stop", "read"}
  /\ elapsed' = IF elapsed < MaxTicks THEN elapsed + 1 ELSE elapsed
  /\ timer' = [timer EXCEPT !.count = IF @ = 0 THEN 0 ELSE @ - 1]
  /\ pit' = IF pit = 0 THEN 0 ELSE pit - 1
  /\ UNCHANGED <<at, model, id, pic, ticks, n, i, entry>>

DisablePic ==
  /\ at = "pic"
  /\ pic' = "masked"
  /\ at' = IF model.kind = "apic" THEN "lapic" ELSE "panicked"
  /\ UNCHANGED <<model, id, timer, pit, elapsed, ticks, n, i, entry>>

\* The local APIC's vectors; the timer's is open until the PIT is configured.
InitLapic ==
  /\ at = "lapic"
  /\ timer' = [timer EXCEPT !.masked = FALSE, !.mode = "one-shot"]
  /\ at' = "pit"
  /\ UNCHANGED <<model, id, pic, pit, elapsed, ticks, n, i, entry>>

ConfigurePit ==
  /\ at = "pit"
  /\ timer' = [timer EXCEPT !.masked = TRUE]
  /\ at' = "start"
  /\ UNCHANGED <<model, id, pic, pit, elapsed, ticks, n, i, entry>>

StartTimer ==
  /\ at = "start"
  /\ timer' = [timer EXCEPT !.initial = CounterMax, !.count = CounterMax]
  /\ at' = "trigger"
  /\ UNCHANGED <<model, id, pic, pit, elapsed, ticks, n, i, entry>>

\* A rising edge of its gate starts the PIT.  A port access takes longer than a
\* clock of the PIT, so its output is low when it is read next.
TriggerPit ==
  /\ at = "trigger"
  /\ pit' = PitPeriod
  /\ at' = "wait"
  /\ UNCHANGED <<model, id, pic, timer, elapsed, ticks, n, i, entry>>

PitFinished_NoWait ==
  /\ at = "wait"
  /\ at' = "stop"
  /\ UNCHANGED <<model, id, pic, timer, pit, elapsed, ticks, n, i, entry>>

PitFinished_WaitsForLow ==
  /\ at = "wait"
  /\ pit # 0
  /\ at' = "stop"
  /\ UNCHANGED <<model, id, pic, timer, pit, elapsed, ticks, n, i, entry>>

PitFinished ==
  /\ at = "wait"
  /\ pit = 0
  /\ at' = "stop"
  /\ UNCHANGED <<model, id, pic, timer, pit, elapsed, ticks, n, i, entry>>

\* "stop lapic timer" masks its interrupt; the counter goes on.
MaskTimer ==
  /\ at = "stop"
  /\ timer' = [timer EXCEPT !.masked = TRUE]
  /\ at' = "read"
  /\ UNCHANGED <<model, id, pic, pit, elapsed, ticks, n, i, entry>>

ReadTicks ==
  /\ at = "read"
  /\ ticks' = CounterMax - timer.count
  /\ at' = "periodic"
  /\ UNCHANGED <<model, id, pic, timer, pit, elapsed, n, i, entry>>

SetPeriodic ==
  /\ at = "periodic"
  /\ timer' = [masked |-> FALSE, mode |-> "periodic", initial |-> ticks, count |-> ticks]
  /\ at' = "ioapic"
  /\ UNCHANGED <<model, id, pic, pit, elapsed, ticks, n, i, entry>>

-----------------------------------------------------------------------------
(* One IOAPIC after the other.                                              *)

apics == model.io_apics

num_of_irqs == apics[n].max - 1

\* The largest index minus one is not a u8 if there is only one entry.
CountIrqs ==
  /\ at = "ioapic" /\ n <= Len(apics)
  /\ at' = IF num_of_irqs < 0 THEN "panicked" ELSE "mask"
  /\ i' = 0
  /\ UNCHANGED <<model, id, pic, timer, pit, elapsed, ticks, n, entry>>

MaskEntry_KeepsDest ==
  /\ at = "mask" /\ i < num_of_irqs
  /\ entry' = [entry EXCEPT ![n][i].state = "masked"]
  /\ i' = i + 1
  /\ UNCHANGED <<at, model, id, pic, timer, pit, elapsed, ticks, n>>

MaskEntry ==
  /\ at = "mask" /\ i < num_of_irqs
  /\ entry' = [entry EXCEPT ![n][i] = [state |-> "masked", dest |-> 0]]
  /\ i' = i + 1
  /\ UNCHANGED <<at, model, id, pic, timer, pit, elapsed, ticks, n>>

RouteKeyboard_EveryIoApic ==
  /\ at = "mask" /\ i >= num_of_irqs
  /\ entry' = [entry EXCEPT ![n][1].state = "keyboard"]
  /\ at' = "dest"
  /\ UNCHANGED <<model, id, pic, timer, pit, elapsed, ticks, n, i>>

\* The first IOAPIC's entry 1 is the keyboard's: its lower half opens it...
RouteKeyboard ==
  /\ at = "mask" /\ i >= num_of_irqs
  /\ apics[n].base = 0
  /\ entry' = [entry EXCEPT ![n][1].state = "keyboard"]
  /\ at' = "dest"
  /\ UNCHANGED <<model, id, pic, timer, pit, elapsed, ticks, n, i>>

\* ...and its upper half gets the ID register shifted left by 24: of 32 bits,
\* with the id in the upper eight, nothing is left.  (A byte has 4 values here.)
Byte   == 4
Bits24 == Byte * Byte * Byte
Bits32 == Byte * Bits24

ShiftedId == (((id * Bits24) * Bits24) % Bits32) \div Bits24

SetDestination ==
  /\ at = "dest"
  /\ entry' = [entry EXCEPT ![n][1].dest = ShiftedId]
  /\ n' = n + 1
  /\ at' = "ioapic"
  /\ UNCHANGED <<model, id, pic, timer, pit, elapsed, ticks, i>>

OtherIoApic ==
  /\ at = "mask" /\ i >= num_of_irqs
  /\ apics[n].base # 0
  /\ n' = n + 1
  /\ at' = "ioapic"
  /\ UNCHANGED <<model, id, pic, timer, pit, elapsed, ticks, i, entry>>

\* INPUT_PIPE is created last, before interrupts are enabled.
Finish ==
  /\ at = "ioapic" /\ n > Len(apics)
  /\ at' = "done"
  /\ UNCHANGED <<model, id, pic, timer, pit, elapsed, ticks, n, i, entry>>

Step ==
  \/ DisablePic
  \/ InitLapic
  \/ ConfigurePit
  \/ StartTimer
  \/ TriggerPit
  \/ PitFinished
  \/ MaskTimer
  \/ ReadTicks
  \/ SetPeriodic
  \/ CountIrqs
  \/ MaskEntry
  \/ RouteKeyboard
  \/ SetDestination
  \/ OtherIoApic
  \/ Finish

Next == Tick \/ Step

Spec == Init /\ [][Next]_vars

\* The CPU executes its program and the PIT counts.
FairSpec == Spec /\ WF_vars(Step) /\ WF_vars(Tick)

-----------------------------------------------------------------------------
\* Whatever time passes between its steps, the calibration gives at least the
\* PIT's 10 ms and at most the time it took, so the periodic timer is neither
\* stopped (an initial count of 0) nor faster than meant.
TimerCalibrated ==
  timer.mode = "periodic" =>
    /\ timer.initial >= PitPeriod
    /\ timer.initial <= elapsed
    /\ ~timer.masked

\* "mask all irqs in ioapic" (int.rs:191): when init_apic is done, no entry is left
\* as the firmware had it.  The code does not achieve this.
AllMasked ==
  at = "done" =>
    \A k \in DOMAIN entry : \A e \in DOMAIN entry[k] :
      entry[k][e].state = (IF apics[k].base = 0 /\ e = 1 THEN "keyboard" ELSE "masked")

\* What the code achieves of AllMasked: no entry but the last two of an IOAPIC is
\* left as the firmware had it, and none but the first IOAPIC's entry 1 is opened.
OnlyLastTwoOpen ==
  at = "done" =>
    \A k \in DOMAIN entry : \A e \in DOMAIN entry[k] :
      e < apics[k].max - 1 =>
        entry[k][e].state = (IF apics[k].base = 0 /\ e = 1 THEN "keyboard" ELSE "masked")

\* From the moment that it is open, the keyboard's entry leads to the CPU with
\* the id 0 and never, not even before its second half is written, to the one
\* that the firmware had chosen.  (Entry 1 must not be among the last two.)
KeyboardToCpuZero ==
  \A k \in DOMAIN entry :
    apics[k].max > 2 /\ entry[k][1].state = "keyboard" => entry[k][1].dest = 0

\* init_apic comes to an end: the wait for the PIT is no endless loop.
SetupEnds == <>(at \in {"done", "panicked"})
=============================================================================
