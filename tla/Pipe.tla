-------------------------------- MODULE Pipe ---------------------------------
(***************************************************************************)
(* INPUT_PIPE: Pipe::read and Pipe::write (kernel/src/vfs/pipe.rs) on top  *)
(* of crossbeam's ArrayQueue, at the grain of single memory accesses.      *)
(*                                                                         *)
(* keyboard_handler writes with interrupts off on the only CPU, so a write *)
(* is one step; read_syscall reads with interrupts on, so a write and      *)
(* other readers may come between any two accesses of a read.  A handler   *)
(* that panicked or spins keeps interrupts off: nothing runs any more.     *)
(***************************************************************************)
EXTENDS Integers, Sequences

CONSTANTS
  Readers,   \* the processes that read file descriptor 0
  Capacity,  \* the size given to Pipe::new
  Sizes,     \* the counts that readers ask for
  MaxTyped   \* bound on the characters typed

ASSUME PipeAssumption ==
  Capacity \in Nat \ {0} /\ MaxTyped \in Nat /\ Sizes \subseteq Nat

VARIABLES
  head, tail,  \* ArrayQueue.head and tail: the lap and the index of a slot
  slot,        \* ArrayQueue.buffer: the stamp and the value of each slot
  status,      \* "ok", "panicked" (the pipe was full), "spinning" (in push)
  typed,       \* characters so far; the k-th is the byte k
  at,          \* where each reader is
  seen,        \* the local variable head of each reader's pop
  need,        \* the bytes that each reader's call still waits for
  got          \* all bytes stored in each reader's buffers

vars  == <<head, tail, slot, status, typed, at, seen, need, got>>
queue == <<head, tail, slot>>

\* Positions.  A lap is the next power of two above the capacity, so that the
\* stamp of a full slot is never that of an empty one.
OneLap ==
  CHOOSE n \in {2 ^ i : i \in 0 .. Capacity} :
    n > Capacity /\ \A i \in 0 .. Capacity : 2 ^ i > Capacity => n <= 2 ^ i

\* What a power of two above the capacity is needed for; there is always one.
ASSUME OneLapAssumption == OneLap \in Nat /\ OneLap > Capacity

Slots    == 0 .. Capacity - 1
Index(p) == p % OneLap
Lap(p)   == p - Index(p)

Successor(p) == IF Index(p) + 1 < Capacity THEN p + 1 ELSE Lap(p) + OneLap

Stamp(p) == slot[Index(p)].stamp

-----------------------------------------------------------------------------
Init ==
  /\ head = 0 /\ tail = 0
  /\ slot = [i \in Slots |-> [stamp |-> i, value |-> 0]]
  /\ status = "ok"
  /\ typed = 0
  /\ at = [r \in Readers |-> "user"]
  /\ seen = [r \in Readers |-> 0]
  /\ need = [r \in Readers |-> 0]
  /\ got = [r \in Readers |-> <<>>]

\* keyboard_handler with a character, write(0, 1, ..) and ArrayQueue::push.
\* The slot at the tail is free, or the queue is full and expect panics, or a
\* reader has claimed the slot and not released it yet: push waits for that
\* with interrupts off.
Typed_NoWait ==
  /\ status = "ok" /\ typed < MaxTyped
  /\ typed' = typed + 1
  /\ \/ /\ Stamp(tail) = tail
        /\ slot' = [slot EXCEPT ![Index(tail)] = [stamp |-> tail + 1, value |-> typed']]
        /\ tail' = Successor(tail)
        /\ UNCHANGED status
     \/ /\ Stamp(tail) # tail
        /\ status' = "panicked"
        /\ UNCHANGED <<tail, slot>>
  /\ UNCHANGED <<head, at, seen, need, got>>

Typed ==
  /\ status = "ok" /\ typed < MaxTyped
  /\ typed' = typed + 1
  /\ \/ /\ Stamp(tail) = tail
        /\ slot' = [slot EXCEPT ![Index(tail)] = [stamp |-> tail + 1, value |-> typed']]
        /\ tail' = Successor(tail)
        /\ UNCHANGED status
     \/ /\ Stamp(tail) # tail
        /\ status' = IF Stamp(tail) + OneLap = tail + 1 /\ head + OneLap = tail
                     THEN "panicked" ELSE "spinning"
        /\ UNCHANGED <<tail, slot>>
  /\ UNCHANGED <<head, at, seen, need, got>>

\* read_syscall on file descriptor 0; a read of nothing returns at once.
ReadSyscall(r) ==
  /\ status = "ok" /\ at[r] = "user"
  /\ \E size \in Sizes \ {0} :
       /\ need' = [need EXCEPT ![r] = size]
       /\ at' = [at EXCEPT ![r] = "head"]
  /\ UNCHANGED <<queue, status, typed, seen, got>>

\* ArrayQueue::pop loads the head...
LoadHead(r) ==
  /\ status = "ok" /\ at[r] = "head"
  /\ seen' = [seen EXCEPT ![r] = head]
  /\ at' = [at EXCEPT ![r] = "stamp"]
  /\ UNCHANGED <<queue, status, typed, need, got>>

\* ...and the stamp of its slot: filled, empty, or another reader was faster.
LoadStamp_Retry(r) ==
  /\ status = "ok" /\ at[r] = "stamp"
  /\ at' = [at EXCEPT ![r] = CASE Stamp(seen[r]) = seen[r] + 1 -> "claim"
                               [] Stamp(seen[r]) = seen[r]     -> "tail"
                               [] OTHER                        -> "stamp"]
  /\ UNCHANGED <<queue, status, typed, seen, need, got>>

LoadStamp(r) ==
  /\ status = "ok" /\ at[r] = "stamp"
  /\ at' = [at EXCEPT ![r] = CASE Stamp(seen[r]) = seen[r] + 1 -> "claim"
                               [] Stamp(seen[r]) = seen[r]     -> "tail"
                               [] OTHER                        -> "head"]
  /\ UNCHANGED <<queue, status, typed, seen, need, got>>

\* An empty queue makes pop return None and read call it again; otherwise pop
\* itself starts over.
LoadTail(r) ==
  /\ status = "ok" /\ at[r] = "tail"
  /\ at' = [at EXCEPT ![r] = "head"]
  /\ UNCHANGED <<queue, status, typed, seen, need, got>>

\* The compare-and-exchange of the head.
Claim(r) ==
  /\ status = "ok" /\ at[r] = "claim"
  /\ \/ /\ head = seen[r]
        /\ head' = Successor(head)
        /\ at' = [at EXCEPT ![r] = "value"]
        /\ UNCHANGED seen
     \/ /\ head # seen[r]
        /\ seen' = [seen EXCEPT ![r] = head]
        /\ at' = [at EXCEPT ![r] = "stamp"]
        /\ UNCHANGED head
  /\ UNCHANGED <<tail, slot, status, typed, need, got>>

ReadValue_Release(r) ==
  /\ status = "ok" /\ at[r] = "value"
  /\ slot' = [slot EXCEPT ![Index(seen[r])].stamp = seen[r] + OneLap]
  /\ at' = [at EXCEPT ![r] = "release"]
  /\ UNCHANGED <<head, tail, status, typed, seen, need, got>>

ReadValue(r) ==
  /\ status = "ok" /\ at[r] = "value"
  /\ got' = [got EXCEPT ![r] = Append(@, slot[Index(seen[r])].value)]
  /\ at' = [at EXCEPT ![r] = "release"]
  /\ UNCHANGED <<queue, status, typed, seen, need>>

\* The slot is free for the next lap; read stores the byte and, when the buffer
\* is full, returns.
Release(r) ==
  /\ status = "ok" /\ at[r] = "release"
  /\ slot' = [slot EXCEPT ![Index(seen[r])].stamp = seen[r] + OneLap]
  /\ need' = [need EXCEPT ![r] = @ - 1]
  /\ at' = [at EXCEPT ![r] = IF need[r] = 1 THEN "user" ELSE "head"]
  /\ UNCHANGED <<head, tail, status, typed, seen, got>>

Pop(r) ==
  \/ LoadHead(r)
  \/ LoadStamp(r)
  \/ LoadTail(r)
  \/ Claim(r)
  \/ ReadValue(r)
  \/ Release(r)

Next ==
  \/ Typed
  \/ \E r \in Readers : ReadSyscall(r) \/ Pop(r)

Spec == Init /\ [][Next]_vars

\* The scheduler gives every process the CPU again and again.
FairSpec == Spec /\ \A r \in Readers : WF_vars(Pop(r))

-----------------------------------------------------------------------------
\* The bytes in the queue: filled slots that no reader has claimed.
Length ==
  IF Lap(head) = Lap(tail) THEN tail - head ELSE Capacity - Index(head) + Index(tail)

Pending == [i \in 1 .. Length |-> slot[(Index(head) + i - 1) % Capacity].value]

\* A byte belongs to the reader as soon as it has claimed the slot.
Taken ==
  [r \in Readers |->
     IF at[r] = "value" THEN Append(got[r], slot[Index(seen[r])].value) ELSE got[r]]

Fifo == INSTANCE PipeAbs WITH Bytes <- 1 .. MaxTyped, pending <- Pending, taken <- Taken

\* However the handler interrupts the readers, and the readers each other, every
\* byte is read once, in the order it was typed, and none is overwritten: the
\* queue with its slots, stamps and half-done pops is a bounded FIFO.
ImplementsFifo == Fifo!Spec

\* The handler stops the kernel in two cases only.  "Pipe is full" is raised when
\* as many bytes as the pipe holds have not been claimed by any reader: a panic is
\* never due to a slow reader alone.  And push waits for ever if the handler
\* interrupted a reader between claiming and releasing the very slot to fill.
StopsOnlyWhenFull ==
  /\ status = "panicked" => Length = Capacity
  /\ status = "spinning" =>
       \E r \in Readers : at[r] \in {"value", "release"} /\ Index(seen[r]) = Index(tail)

\* While some reader waits, every byte that was typed reaches one in the end,
\* unless the kernel has stopped.
BytesArrive ==
  \A k \in 1 .. MaxTyped :
    (typed >= k) ~>
      \/ \E r \in Readers : \E i \in 1 .. Len(got[r]) : got[r][i] = k
      \/ \A r \in Readers : at[r] = "user"
      \/ status # "ok"
=============================================================================
