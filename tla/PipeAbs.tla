------------------------------- MODULE PipeAbs -------------------------------
(***************************************************************************)
(* What the input pipe promises: a bounded first-in-first-out queue.  Every *)
(* byte accepted is handed to exactly one reader, in the order of arrival. *)
(***************************************************************************)
EXTENDS Naturals, Sequences

CONSTANTS Readers, Capacity, Bytes

VARIABLES
  pending,  \* the bytes in the pipe
  taken     \* the bytes that each reader took out, in order

vars == <<pending, taken>>

Init == pending = <<>> /\ taken = [r \in Readers |-> <<>>]

Put(byte) ==
  /\ Len(pending) < Capacity
  /\ pending' = Append(pending, byte)
  /\ UNCHANGED taken

Take(r) ==
  /\ pending # <<>>
  /\ pending' = Tail(pending)
  /\ taken' = [taken EXCEPT ![r] = Append(@, Head(pending))]

Next ==
  \/ \E byte \in Bytes : Put(byte)
  \/ \E r \in Readers : Take(r)

Spec == Init /\ [][Next]_vars
=============================================================================
