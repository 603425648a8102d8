----------------------------- MODULE ApicProofs ------------------------------
(***************************************************************************)
(* Proofs about init_apic, for every machine (any number of IOAPICs of any *)
(* size), any boot id, any PIT period and any time between the steps: the  *)
(* timer is calibrated, and the redirection entries are masked and routed  *)
(* as OnlyLastTwoOpen and KeyboardToCpuZero say.                           *)
(* The two halves of the setup have an inductive invariant each.           *)
(***************************************************************************)
EXTENDS Apic, TLAPS

\* The ID register holds the id in its upper byte; shifted left by three bytes
\* in four, nothing of it is left.
LEMMA ShiftedOut ==
  ASSUME id \in Nat
  PROVE  ShiftedId = 0
<1>1. ((id * 64) * 64) % 256 = 0
  OBVIOUS
<1>2. Bits24 = 64 /\ Bits32 = 256
  BY DEF Bits24, Bits32, Byte
<1>3. 0 \div 64 = 0
  OBVIOUS
<1> QED BY <1>1, <1>2, <1>3 DEF ShiftedId

-----------------------------------------------------------------------------
\* The steps before the counter runs, while it runs, and after it was read.
Before == {"pic", "lapic", "pit", "start"}
Counts == {"trigger", "wait", "stop", "read"}
IoApic == {"ioapic", "mask", "dest", "done"}

TypeInv ==
  /\ at \in Before \cup Counts \cup IoApic \cup {"periodic", "panicked"}
  /\ model \in Models
  /\ id \in Nat
  /\ timer \in [masked : BOOLEAN, mode : {"firmware", "one-shot", "periodic"},
                initial : Nat, count : Nat]
  /\ pit \in Nat /\ elapsed \in 0 .. MaxTicks /\ ticks \in Nat
  /\ n \in 1 .. Len(apics) + 1 /\ i \in Nat
  /\ at \in {"mask", "dest"} => n <= Len(apics)

\* While it runs, the counter shows the time since it was started, unless it
\* has reached 0, in which case it shows less than that and as much as it can;
\* and once the PIT is done, at least its period has passed.
Calibrating ==
  /\ at \in Before \cup Counts \cup {"periodic"} => timer.mode # "periodic"
  /\ at \in Counts =>
       /\ timer.count <= CounterMax
       /\ CounterMax - timer.count <= elapsed
       /\ timer.count > 0 => CounterMax - timer.count >= elapsed
  /\ at \in Before => elapsed = 0
  /\ at = "wait" => pit + elapsed >= PitPeriod
  /\ at \in {"stop", "read"} => elapsed >= PitPeriod
  /\ at = "periodic" => ticks >= PitPeriod /\ ticks <= elapsed

\* The inductive invariant of the calibration.  TimerCalibrated speaks of the
\* timer after SetPeriodic only; what it needs is the relation of both counters
\* to the time.
TimerInv == TypeInv /\ Calibrating /\ TimerCalibrated

\* It holds at the start.
LEMMA InitTimer == Init => TimerInv
<1> SUFFICES ASSUME Init PROVE TimerInv
  OBVIOUS
<1>1. model.io_apics \in Seq([max : Nat, base : Nat]) /\ id \in Nat
  BY ApicAssumption DEF Init
<1>2. 1 \in 1 .. Len(apics) + 1
  BY <1>1 DEF apics
<1>3. TypeInv
  BY <1>1, <1>2, ApicAssumption DEF Init, TypeInv, Before
<1>4. Calibrating /\ TimerCalibrated
  BY DEF Init, Calibrating, TimerCalibrated, Counts
<1> QED BY <1>3, <1>4 DEF TimerInv

\* Time may pass between any two steps of the calibration, also after the
\* counter has reached 0.
LEMMA TickTimer ==
  ASSUME TimerInv, Tick
  PROVE  TimerInv'
<1> DEFINE c == timer.count
<1> DEFINE d == IF c = 0 THEN 0 ELSE c - 1
<1>1. /\ at \in Counts /\ at' = at /\ model' = model /\ id' = id /\ ticks' = ticks
      /\ n' = n /\ i' = i
      /\ elapsed' = IF elapsed < MaxTicks THEN elapsed + 1 ELSE elapsed
      /\ pit' = IF pit = 0 THEN 0 ELSE pit - 1
      /\ timer' = [timer EXCEPT !.count = d]
  BY DEF Tick, Counts
<1>2. /\ timer \in [masked : BOOLEAN, mode : {"firmware", "one-shot", "periodic"},
                    initial : Nat, count : Nat]
      /\ c \in Nat /\ d \in Nat /\ pit \in Nat /\ elapsed \in 0 .. MaxTicks
  BY DEF TimerInv, TypeInv
<1>3. /\ timer' \in [masked : BOOLEAN, mode : {"firmware", "one-shot", "periodic"},
                     initial : Nat, count : Nat]
      /\ timer'.count = d /\ timer'.mode = timer.mode
  <2> HIDE DEF d
  <2> QED BY <1>1, <1>2
<1>4. TypeInv'
  <2>1. pit' \in Nat /\ elapsed' \in 0 .. MaxTicks
    BY <1>1, <1>2, ApicAssumption
  <2> HIDE DEF c, d
  <2> QED BY <1>1, <1>3, <2>1 DEF TimerInv, TypeInv, apics
<1>5. timer.mode # "periodic"
  BY <1>1 DEF TimerInv, Calibrating
<1>6. /\ c <= CounterMax /\ CounterMax - c <= elapsed
      /\ c > 0 => CounterMax - c >= elapsed
  BY <1>1 DEF TimerInv, Calibrating
<1>7. /\ d <= CounterMax /\ CounterMax - d <= elapsed'
      /\ d > 0 => CounterMax - d >= elapsed'
  BY <1>1, <1>2, <1>6, ApicAssumption
<1>8. at = "wait" => pit' + elapsed' >= PitPeriod
  <2>1. at = "wait" => pit + elapsed >= PitPeriod
    BY DEF TimerInv, Calibrating
  <2> QED BY <1>1, <1>2, <2>1, ApicAssumption
<1>9. at \in {"stop", "read"} => elapsed' >= PitPeriod
  <2>1. at \in {"stop", "read"} => elapsed >= PitPeriod
    BY DEF TimerInv, Calibrating
  <2> QED BY <1>1, <1>2, <2>1, ApicAssumption
<1> HIDE DEF c, d
<1>10. Calibrating'
  BY <1>1, <1>3, <1>5, <1>7, <1>8, <1>9 DEF Calibrating, Counts, Before
<1>11. TimerCalibrated'
  BY <1>3, <1>5 DEF TimerCalibrated
<1> QED BY <1>4, <1>10, <1>11 DEF TimerInv

\* The steps up to the periodic timer.
LEMMA SetupTimer ==
  ASSUME TimerInv,
         \/ DisablePic \/ InitLapic \/ ConfigurePit \/ StartTimer \/ TriggerPit
         \/ PitFinished \/ MaskTimer \/ ReadTicks \/ SetPeriodic
  PROVE  TimerInv'
<1> USE ApicAssumption
<1>1. CASE DisablePic
  BY <1>1 DEF DisablePic, TimerInv, TypeInv, Calibrating, TimerCalibrated,
              Before, Counts, IoApic, apics
<1>2. CASE InitLapic
  BY <1>2 DEF InitLapic, TimerInv, TypeInv, Calibrating, TimerCalibrated,
              Before, Counts, IoApic, apics
<1>3. CASE ConfigurePit
  BY <1>3 DEF ConfigurePit, TimerInv, TypeInv, Calibrating, TimerCalibrated,
              Before, Counts, IoApic, apics
<1>4. CASE StartTimer
  <2>1. /\ timer' \in [masked : BOOLEAN, mode : {"firmware", "one-shot", "periodic"},
                       initial : Nat, count : Nat]
        /\ timer'.count = CounterMax /\ timer'.mode = timer.mode
    BY <1>4 DEF StartTimer, TimerInv, TypeInv
  <2>2. timer.mode # "periodic" /\ elapsed = 0 /\ elapsed' = 0 /\ at' = "trigger"
    BY <1>4 DEF StartTimer, TimerInv, Calibrating, Before
  <2>3. TypeInv'
    BY <1>4, <2>1, <2>2 DEF StartTimer, TimerInv, TypeInv, Counts, apics
  <2>4. Calibrating'
    BY <2>1, <2>2 DEF Calibrating, Before, Counts
  <2>5. TimerCalibrated'
    BY <2>1, <2>2 DEF TimerCalibrated
  <2> QED BY <2>3, <2>4, <2>5 DEF TimerInv
<1>5. CASE TriggerPit
  BY <1>5 DEF TriggerPit, TimerInv, TypeInv, Calibrating, TimerCalibrated,
              Before, Counts, IoApic, apics
<1>6. CASE PitFinished
  BY <1>6 DEF PitFinished, TimerInv, TypeInv, Calibrating, TimerCalibrated,
              Before, Counts, IoApic, apics
<1>7. CASE MaskTimer
  BY <1>7 DEF MaskTimer, TimerInv, TypeInv, Calibrating, TimerCalibrated,
              Before, Counts, IoApic, apics
<1>8. CASE ReadTicks
  BY <1>8 DEF ReadTicks, TimerInv, TypeInv, Calibrating, TimerCalibrated,
              Before, Counts, IoApic, apics
<1>9. CASE SetPeriodic
  BY <1>9 DEF SetPeriodic, TimerInv, TypeInv, Calibrating, TimerCalibrated,
              Before, Counts, IoApic, apics
<1> QED BY <1>1, <1>2, <1>3, <1>4, <1>5, <1>6, <1>7, <1>8, <1>9

\* The type of a sequence's elements.
LEMMA SeqType ==
  ASSUME NEW T, NEW s \in Seq(T)
  PROVE  Len(s) \in Nat /\ \A k \in 1 .. Len(s) : s[k] \in T
OBVIOUS

\* The IOAPICs are a sequence.
LEMMA ApicsType ==
  ASSUME TypeInv
  PROVE  /\ Len(apics) \in Nat
         /\ \A k \in 1 .. Len(apics) : apics[k] \in [max : Nat, base : Nat]
<1>1. apics \in Seq([max : Nat, base : Nat])
  BY ApicAssumption DEF TypeInv, apics
<1> QED BY <1>1, SeqType, Zenon

\* The loop's IOAPIC exists.
LEMMA CurrentApic ==
  ASSUME TypeInv, n <= Len(apics)
  PROVE  Len(apics) \in Nat /\ n \in 1 .. Len(apics) /\ apics[n].max \in Nat
<1>1. Len(apics) \in Nat /\ \A k \in 1 .. Len(apics) : apics[k] \in [max : Nat, base : Nat]
  BY ApicsType
<1>2. n \in 1 .. Len(apics)
  BY <1>1 DEF TypeInv
<1>3. apics[n] \in [max : Nat, base : Nat]
  BY <1>1, <1>2
<1> QED BY <1>1, <1>2, <1>3

\* The loops over the IOAPICs leave the timer alone.
LEMMA IoApicTimer ==
  ASSUME TimerInv,
         CountIrqs \/ MaskEntry \/ RouteKeyboard \/ SetDestination \/ OtherIoApic \/ Finish
  PROVE  TimerInv'
<1>1. /\ at \in {"ioapic", "mask", "dest"} /\ at' \in IoApic \cup {"panicked"}
      /\ UNCHANGED <<model, id, timer, pit, elapsed, ticks>>
  BY DEF CountIrqs, MaskEntry, RouteKeyboard, SetDestination, OtherIoApic, Finish, IoApic
<1>2. Len(apics) \in Nat /\ n \in 1 .. Len(apics) + 1 /\ i \in Nat
      /\ (at \in {"mask", "dest"} => n <= Len(apics))
  BY ApicsType DEF TimerInv, TypeInv
<1>3. apics' = apics
  BY <1>1 DEF apics
<1>4. /\ n' \in 1 .. Len(apics) + 1 /\ i' \in Nat
      /\ at' \in {"mask", "dest"} => n' <= Len(apics)
  BY <1>2 DEF CountIrqs, MaskEntry, RouteKeyboard, SetDestination, OtherIoApic, Finish
<1>5. TypeInv'
  BY <1>1, <1>3, <1>4 DEF TimerInv, TypeInv
<1>6. Calibrating' /\ TimerCalibrated'
  BY <1>1 DEF TimerInv, Calibrating, TimerCalibrated, Before, Counts, IoApic
<1> QED BY <1>5, <1>6 DEF TimerInv

\* Every step preserves the invariant.
LEMMA NextTimer == TimerInv /\ [Next]_vars => TimerInv'
<1> SUFFICES ASSUME TimerInv, [Next]_vars PROVE TimerInv'
  OBVIOUS
<1>1. CASE Next
  BY <1>1, TickTimer, SetupTimer, IoApicTimer DEF Next, Step
<1>2. CASE UNCHANGED vars
  BY <1>2 DEF vars, TimerInv, TypeInv, Calibrating, TimerCalibrated, apics
<1> QED BY <1>1, <1>2

\* The calibration's invariant holds in every reachable state.
THEOREM TimerInvariance == Spec => []TimerInv
BY InitTimer, NextTimer, PTL DEF Spec

\* However long the code takes between its steps, the periodic timer's initial
\* count is at least the PIT's 10 ms, never 0, and at most the time that the
\* calibration took.
THEOREM TimerIsCalibrated == Spec => []TimerCalibrated
<1>1. TimerInv => TimerCalibrated
  BY DEF TimerInv
<1> QED BY <1>1, TimerInvariance, PTL

-----------------------------------------------------------------------------
\* What an entry may hold.
Redirection == [state : {"firmware", "masked", "keyboard"}, dest : Nat]

EntryType ==
  /\ DOMAIN entry = 1 .. Len(apics)
  /\ \A k \in 1 .. Len(apics) : entry[k] \in [0 .. apics[k].max -> Redirection]

\* An IOAPIC as the code leaves it.
Opened(k) ==
  \A e \in 0 .. apics[k].max : e < apics[k].max - 1 =>
    entry[k][e].state = (IF apics[k].base = 0 /\ e = 1 THEN "keyboard" ELSE "masked")

\* The IOAPICs before the current one are done, and the entries before the
\* current one are masked with destination 0.
Masking ==
  /\ \A k \in 1 .. Len(apics) : k < n => Opened(k)
  /\ at = "mask" =>
       /\ apics[n].max >= 1 /\ i <= apics[n].max - 1
       /\ \A e \in 0 .. apics[n].max :
            e < i => entry[n][e] = [state |-> "masked", dest |-> 0]
  /\ at = "dest" => apics[n].max >= 1 /\ Opened(n)
  /\ at = "done" => n > Len(apics)

\* The inductive invariant of the loops.  KeyboardToCpuZero holds between the
\* two writes of the keyboard's entry only because that entry was masked, with
\* destination 0, in the loop before.
EntryInv == TypeInv /\ EntryType /\ Masking /\ KeyboardToCpuZero

\* It holds at the start.
LEMMA InitEntries == Init => EntryInv
<1> SUFFICES ASSUME Init PROVE EntryInv
  OBVIOUS
<1>1. TypeInv
  BY InitTimer DEF TimerInv
<1>2. Len(apics) \in Nat /\ \A k \in 1 .. Len(apics) : apics[k] \in [max : Nat, base : Nat]
  BY <1>1, ApicsType
<1>3. Firmware \in Redirection
  BY DEF Firmware, Redirection
<1>4. entry = [k \in 1 .. Len(apics) |-> [e \in 0 .. apics[k].max |-> Firmware]]
  BY DEF Init, apics, Entries
<1>5. EntryType
  BY <1>3, <1>4 DEF EntryType
<1>6. Masking
  BY <1>2 DEF Init, Masking
<1>7. KeyboardToCpuZero
  <2> SUFFICES ASSUME NEW k \in 1 .. Len(apics), apics[k].max > 2
               PROVE  entry[k][1].state # "keyboard"
    BY <1>4 DEF KeyboardToCpuZero
  <2>1. 1 \in 0 .. apics[k].max
    BY <1>2
  <2>2. entry[k][1] = Firmware
    BY <1>4, <2>1
  <2> QED BY <2>2 DEF Firmware
<1> QED BY <1>1, <1>5, <1>6, <1>7 DEF EntryInv

\* Steps that write no entry.
LEMMA QuietEntries ==
  ASSUME EntryInv, TypeInv', model' = model, entry' = entry,
         \/ n' = n /\ at \notin {"mask", "dest"} /\ at' \notin {"mask", "dest", "done"}
         \/ CountIrqs \/ OtherIoApic \/ Finish
  PROVE  EntryInv'
<1>1. apics' = apics
  BY DEF apics
<1>2. Len(apics) \in Nat /\ n \in Nat
      /\ \A k \in 1 .. Len(apics) : apics[k] \in [max : Nat, base : Nat]
  <2>1. Len(apics) \in Nat /\ \A k \in 1 .. Len(apics) : apics[k] \in [max : Nat, base : Nat]
    BY ApicsType DEF EntryInv
  <2>2. n \in Nat
    BY <2>1 DEF EntryInv, TypeInv
  <2> QED BY <2>1, <2>2
<1>3. EntryType' /\ KeyboardToCpuZero'
  BY <1>1 DEF EntryInv, EntryType, KeyboardToCpuZero
<1>4. \A k : Opened(k)' <=> Opened(k)
  BY <1>1 DEF Opened
<1>5. Masking'
  <2>1. CASE n' = n /\ at \notin {"mask", "dest"} /\ at' \notin {"mask", "dest", "done"}
    BY <1>1, <1>4, <2>1 DEF EntryInv, Masking
  <2>2. CASE CountIrqs
    <3>1. n <= Len(apics) /\ n' = n /\ i' = 0 /\ apics[n].max \in Nat
      BY <1>2, <2>2 DEF CountIrqs, EntryInv, TypeInv
    <3>2. \/ at' = "panicked"
          \/ at' = "mask" /\ apics[n].max >= 1
      BY <2>2, <3>1 DEF CountIrqs, num_of_irqs
    <3>3. Masking'
      BY <1>1, <1>4, <3>1, <3>2 DEF EntryInv, Masking
    <3> QED BY <3>3
  <2>3. CASE OtherIoApic
    <3>1. /\ at = "mask" /\ at' = "ioapic" /\ n' = n + 1 /\ n <= Len(apics)
          /\ apics[n].base # 0 /\ i >= apics[n].max - 1 /\ i \in Nat
      BY <2>3 DEF OtherIoApic, num_of_irqs, EntryInv, TypeInv
    <3>2. \A e \in 0 .. apics[n].max :
            e < i => entry[n][e] = [state |-> "masked", dest |-> 0]
      BY <3>1 DEF EntryInv, Masking
    <3>3. apics[n].max \in Nat
      <4>1. n \in 1 .. Len(apics)
        BY <1>2, <3>1 DEF EntryInv, TypeInv
      <4>2. apics[n] \in [max : Nat, base : Nat]
        BY <1>2, <4>1
      <4> QED BY <4>2
    <3>4. Opened(n)
      BY <3>1, <3>2, <3>3 DEF Opened
    <3>5. \A k \in 1 .. Len(apics) : k < n' => Opened(k)
      BY <1>2, <3>1, <3>4 DEF EntryInv, Masking
    <3> QED BY <1>1, <1>4, <3>1, <3>5 DEF Masking
  <2>4. CASE Finish
    BY <1>1, <1>4, <2>4 DEF Finish, EntryInv, Masking
  <2> QED BY <2>1, <2>2, <2>3, <2>4
<1> QED BY <1>3, <1>5 DEF EntryInv

\* Writing one entry leaves all others as they were.
LEMMA WriteEntry ==
  ASSUME EntryInv, model' = model, n <= Len(apics),
         NEW e \in 0 .. apics[n].max, NEW x \in Redirection,
         entry' = [entry EXCEPT ![n] = [entry[n] EXCEPT ![e] = x]]
  PROVE  /\ EntryType'
         /\ \A k \in 1 .. Len(apics) : k # n => entry'[k] = entry[k]
         /\ entry'[n][e] = x
         /\ \A f \in 0 .. apics[n].max : f # e => entry'[n][f] = entry[n][f]
<1>1. apics' = apics /\ n \in 1 .. Len(apics)
  BY ApicsType DEF apics, EntryInv, TypeInv
<1>2. entry[n] \in [0 .. apics[n].max -> Redirection] /\ DOMAIN entry = 1 .. Len(apics)
  BY <1>1 DEF EntryInv, EntryType
<1>3. entry'[n] = [entry[n] EXCEPT ![e] = x]
  BY <1>1, <1>2
<1>4. \A k \in 1 .. Len(apics) : k # n => entry'[k] = entry[k]
  BY <1>1, <1>2
<1>5. DOMAIN entry' = 1 .. Len(apics)
  BY <1>2
<1>6. entry'[n] \in [0 .. apics[n].max -> Redirection]
  BY <1>2, <1>3
<1>7. EntryType'
  BY <1>1, <1>4, <1>5, <1>6 DEF EntryInv, EntryType
<1>8. entry'[n][e] = x /\ \A f \in 0 .. apics[n].max : f # e => entry'[n][f] = entry[n][f]
  <2> DEFINE old == entry[n]
             new == entry'[n]
  <2>1. old \in [0 .. apics[n].max -> Redirection] /\ new = [old EXCEPT ![e] = x]
    BY <1>2, <1>3
  <2> HIDE DEF old, new
  <2>2. new[e] = x /\ \A f \in 0 .. apics[n].max : f # e => new[f] = old[f]
    BY <2>1
  <2> QED BY <2>2 DEF old, new
<1> QED BY <1>4, <1>7, <1>8

\* Masking an entry.
LEMMA MaskEntryStep ==
  ASSUME EntryInv, TypeInv', MaskEntry
  PROVE  EntryInv'
<1> DEFINE x == [state |-> "masked", dest |-> 0]
<1>1. /\ at = "mask" /\ at' = "mask" /\ model' = model /\ n' = n /\ i' = i + 1
      /\ i < apics[n].max - 1 /\ n <= Len(apics) /\ i \in Nat
      /\ entry' = [entry EXCEPT ![n][i] = x]
  BY DEF MaskEntry, num_of_irqs, EntryInv, TypeInv
<1>2. Len(apics) \in Nat /\ n \in 1 .. Len(apics) /\ apics[n].max \in Nat /\ apics' = apics
  BY <1>1, CurrentApic DEF EntryInv, apics
<1>3. i \in 0 .. apics[n].max /\ x \in Redirection
  BY <1>1, <1>2 DEF Redirection
<1>4. entry' = [entry EXCEPT ![n] = [entry[n] EXCEPT ![i] = x]]
  BY <1>1
<1> HIDE DEF x
<1>5. /\ EntryType'
      /\ \A k \in 1 .. Len(apics) : k # n => entry'[k] = entry[k]
      /\ entry'[n][i] = x
      /\ \A f \in 0 .. apics[n].max : f # i => entry'[n][f] = entry[n][f]
  BY <1>1, <1>3, <1>4, WriteEntry
<1>6. Masking'
  <2>1. \A k \in 1 .. Len(apics) : k < n => entry'[k] = entry[k]
    BY <1>2, <1>5
  <2>2. \A k \in 1 .. Len(apics) : k < n => Opened(k)'
    BY <1>2, <2>1 DEF EntryInv, Masking, Opened
  <2>3. \A e \in 0 .. apics[n].max : e < i + 1 => entry'[n][e] = x
    <3>1. \A e \in 0 .. apics[n].max : e < i => entry[n][e] = x
      BY <1>1 DEF EntryInv, Masking, x
    <3> QED BY <1>1, <1>2, <1>5, <3>1
  <2>4. apics[n].max >= 1 /\ i + 1 <= apics[n].max - 1
    BY <1>1, <1>2
  <2> QED BY <1>1, <1>2, <2>2, <2>3, <2>4 DEF Masking, x
<1>7. KeyboardToCpuZero'
  <2> SUFFICES ASSUME NEW k \in 1 .. Len(apics), apics[k].max > 2,
                      entry'[k][1].state = "keyboard"
               PROVE  entry'[k][1].dest = 0
    BY <1>2, <1>5 DEF KeyboardToCpuZero, EntryType
  <2>1. entry[k][1].state = "keyboard" => entry[k][1].dest = 0
    BY DEF EntryInv, EntryType, KeyboardToCpuZero
  <2>2. CASE k = n /\ i = 1
    BY <1>5, <2>2 DEF x
  <2>3. CASE k = n /\ i # 1
    BY <1>2, <1>5, <2>1, <2>3
  <2>4. CASE k # n
    BY <1>5, <2>1, <2>4
  <2> QED BY <2>2, <2>3, <2>4
<1> QED BY <1>5, <1>6, <1>7 DEF EntryInv

\* The lower half of the keyboard's entry: it opens the entry and keeps the
\* destination.
LEMMA RouteKeyboardStep ==
  ASSUME EntryInv, TypeInv', RouteKeyboard
  PROVE  EntryInv'
<1> DEFINE x == [entry[n][1] EXCEPT !.state = "keyboard"]
<1>1. /\ at = "mask" /\ at' = "dest" /\ model' = model /\ n' = n /\ i' = i
      /\ i >= apics[n].max - 1 /\ n <= Len(apics) /\ i \in Nat /\ apics[n].base = 0
      /\ entry' = [entry EXCEPT ![n][1].state = "keyboard"]
  BY DEF RouteKeyboard, num_of_irqs, EntryInv, TypeInv
<1>2. Len(apics) \in Nat /\ n \in 1 .. Len(apics) /\ apics[n].max \in Nat /\ apics' = apics
  BY <1>1, CurrentApic DEF EntryInv, apics
<1>3. /\ apics[n].max >= 1
      /\ \A e \in 0 .. apics[n].max :
           e < i => entry[n][e] = [state |-> "masked", dest |-> 0]
  BY <1>1 DEF EntryInv, Masking
<1>4. 1 \in 0 .. apics[n].max /\ entry[n][1] \in Redirection
  BY <1>2, <1>3 DEF EntryInv, EntryType
<1>5. x \in Redirection /\ x.state = "keyboard" /\ x.dest = entry[n][1].dest
  BY <1>4 DEF Redirection
<1>6. entry' = [entry EXCEPT ![n] = [entry[n] EXCEPT ![1] = x]]
  BY <1>1
<1> HIDE DEF x
<1>7. /\ EntryType'
      /\ \A k \in 1 .. Len(apics) : k # n => entry'[k] = entry[k]
      /\ entry'[n][1] = x
      /\ \A f \in 0 .. apics[n].max : f # 1 => entry'[n][f] = entry[n][f]
  <2>1. model' = model /\ n <= Len(apics)
    BY <1>1
  <2> QED BY <2>1, <1>4, <1>5, <1>6, WriteEntry
<1>8. Masking'
  <2>1. \A k \in 1 .. Len(apics) : k < n => entry'[k] = entry[k]
    BY <1>2, <1>7
  <2>2. \A k \in 1 .. Len(apics) : k < n => Opened(k)'
    BY <1>2, <2>1 DEF EntryInv, Masking, Opened
  <2>3. ASSUME NEW e \in 0 .. apics[n].max, e < apics[n].max - 1
        PROVE  entry'[n][e].state = IF e = 1 THEN "keyboard" ELSE "masked"
    <3>1. CASE e = 1
      BY <1>5, <1>7, <3>1
    <3>2. CASE e # 1
      <4>1. e < i
        BY <1>1, <1>2, <2>3
      <4>2. entry[n][e].state = "masked"
        BY <1>3, <4>1
      <4> QED BY <1>7, <3>2, <4>2
    <3> QED BY <3>1, <3>2
  <2>4. Opened(n)'
    BY <1>1, <1>2, <2>3 DEF Opened
  <2> QED BY <1>1, <1>2, <1>3, <2>2, <2>4 DEF Masking
<1>9. KeyboardToCpuZero'
  <2> SUFFICES ASSUME NEW k \in 1 .. Len(apics), apics[k].max > 2,
                      entry'[k][1].state = "keyboard"
               PROVE  entry'[k][1].dest = 0
    BY <1>2, <1>7 DEF KeyboardToCpuZero, EntryType
  <2>1. CASE k = n
    <3>1. 1 < i
      BY <1>1, <1>2, <2>1
    <3>2. entry[n][1].dest = 0
      BY <1>3, <1>4, <3>1
    <3> QED BY <1>5, <1>7, <2>1, <3>2
  <2>2. CASE k # n
    BY <1>7, <2>2 DEF EntryInv, EntryType, KeyboardToCpuZero
  <2> QED BY <2>1, <2>2
<1> QED BY <1>7, <1>8, <1>9 DEF EntryInv

\* The upper half: the shifted id is 0.
LEMMA SetDestinationStep ==
  ASSUME EntryInv, TypeInv', SetDestination
  PROVE  EntryInv'
<1> DEFINE x == [entry[n][1] EXCEPT !.dest = 0]
<1>1. /\ at = "dest" /\ at' = "ioapic" /\ model' = model /\ n' = n + 1
      /\ n <= Len(apics)
      /\ entry' = [entry EXCEPT ![n][1].dest = 0]
  BY ShiftedOut DEF SetDestination, EntryInv, TypeInv
<1>2. Len(apics) \in Nat /\ n \in 1 .. Len(apics) /\ apics[n].max \in Nat /\ apics' = apics
  BY <1>1, CurrentApic DEF EntryInv, apics
<1>3. apics[n].max >= 1 /\ Opened(n)
  BY <1>1 DEF EntryInv, Masking
<1>4. 1 \in 0 .. apics[n].max /\ entry[n][1] \in Redirection
  BY <1>2, <1>3 DEF EntryInv, EntryType
<1>5. x \in Redirection /\ x.state = entry[n][1].state /\ x.dest = 0
  BY <1>4 DEF Redirection
<1>6. entry' = [entry EXCEPT ![n] = [entry[n] EXCEPT ![1] = x]]
  BY <1>1
<1> HIDE DEF x
<1>7. /\ EntryType'
      /\ \A k \in 1 .. Len(apics) : k # n => entry'[k] = entry[k]
      /\ entry'[n][1] = x
      /\ \A f \in 0 .. apics[n].max : f # 1 => entry'[n][f] = entry[n][f]
  <2>1. model' = model /\ n <= Len(apics)
    BY <1>1
  <2> QED BY <2>1, <1>4, <1>5, <1>6, WriteEntry
<1>8. Masking'
  <2>1. \A k \in 1 .. Len(apics) : k < n => entry'[k] = entry[k]
    BY <1>2, <1>7
  <2>2. \A k \in 1 .. Len(apics) : k < n => Opened(k)'
    BY <1>2, <2>1 DEF EntryInv, Masking, Opened
  <2>3. \A e \in 0 .. apics[n].max : entry'[n][e].state = entry[n][e].state
    BY <1>5, <1>7
  <2>4. \A e \in 0 .. apics[n].max : e < apics[n].max - 1 =>
          entry'[n][e].state = (IF apics[n].base = 0 /\ e = 1 THEN "keyboard" ELSE "masked")
    BY <1>3, <2>3 DEF Opened
  <2>5. \A k \in 1 .. Len(apics) : k = n => Opened(k)'
    BY <1>2, <2>4 DEF Opened
  <2>6. \A k \in 1 .. Len(apics) : k < n + 1 => Opened(k)'
    BY <1>2, <2>2, <2>5
  <2> QED BY <1>1, <1>2, <2>6 DEF Masking
<1>9. KeyboardToCpuZero'
  <2> SUFFICES ASSUME NEW k \in 1 .. Len(apics), apics[k].max > 2,
                      entry'[k][1].state = "keyboard"
               PROVE  entry'[k][1].dest = 0
    BY <1>2, <1>7 DEF KeyboardToCpuZero, EntryType
  <2>1. CASE k = n
    BY <1>5, <1>7, <2>1
  <2>2. CASE k # n
    BY <1>7, <2>2 DEF EntryInv, EntryType, KeyboardToCpuZero
  <2> QED BY <2>1, <2>2
<1> QED BY <1>7, <1>8, <1>9 DEF EntryInv

\* Every step preserves the invariant.
LEMMA NextEntries == EntryInv /\ TimerInv' /\ [Next]_vars => EntryInv'
<1> SUFFICES ASSUME EntryInv, TypeInv', [Next]_vars PROVE EntryInv'
  BY DEF TimerInv
<1>1. CASE MaskEntry \/ RouteKeyboard \/ SetDestination
  BY <1>1, MaskEntryStep, RouteKeyboardStep, SetDestinationStep
<1>2. CASE CountIrqs \/ OtherIoApic \/ Finish
  <2>1. model' = model /\ entry' = entry
    BY <1>2 DEF CountIrqs, OtherIoApic, Finish
  <2> QED BY <1>2, <2>1, QuietEntries
<1>3. CASE \/ Tick \/ DisablePic \/ InitLapic \/ ConfigurePit \/ StartTimer \/ TriggerPit
           \/ PitFinished \/ MaskTimer \/ ReadTicks \/ SetPeriodic
  <2>1. /\ model' = model /\ entry' = entry /\ n' = n
        /\ at \notin {"mask", "dest"} /\ at' \notin {"mask", "dest", "done"}
    BY <1>3 DEF Tick, DisablePic, InitLapic, ConfigurePit, StartTimer, TriggerPit,
                PitFinished, MaskTimer, ReadTicks, SetPeriodic
  <2> QED BY <2>1, QuietEntries
<1>4. CASE UNCHANGED vars
  BY <1>4 DEF vars, EntryInv, EntryType, Masking, Opened, KeyboardToCpuZero, apics
<1> QED BY <1>1, <1>2, <1>3, <1>4 DEF Next, Step

\* The invariant of the loops holds in every reachable state.
THEOREM EntryInvariance == Spec => []EntryInv
BY InitEntries, NextEntries, TimerInvariance, PTL DEF Spec

\* When init_apic is done, every entry of every IOAPIC but its last two is
\* masked, or the keyboard's.
THEOREM LastTwoOpen == Spec => []OnlyLastTwoOpen
<1>1. EntryInv => OnlyLastTwoOpen
  <2> SUFFICES ASSUME EntryInv, at = "done",
                      NEW k \in DOMAIN entry, NEW e \in DOMAIN entry[k],
                      e < apics[k].max - 1
               PROVE  entry[k][e].state =
                        (IF apics[k].base = 0 /\ e = 1 THEN "keyboard" ELSE "masked")
    BY DEF OnlyLastTwoOpen
  <2>1. Len(apics) \in Nat
    BY ApicsType DEF EntryInv
  <2>2. k \in 1 .. Len(apics) /\ e \in 0 .. apics[k].max
    BY DEF EntryInv, EntryType
  <2>3. k < n
    BY <2>1, <2>2 DEF EntryInv, Masking, TypeInv
  <2> QED BY <2>2, <2>3 DEF EntryInv, Masking, Opened
<1> QED BY <1>1, EntryInvariance, PTL

\* The keyboard's entry is never open with a destination other than CPU 0, not
\* even between the writes of its two halves.
THEOREM KeyboardReachesCpuZero == Spec => []KeyboardToCpuZero
<1>1. EntryInv => KeyboardToCpuZero
  BY DEF EntryInv
<1> QED BY <1>1, EntryInvariance, PTL
=============================================================================
