------------------------------- MODULE HeapAbs -------------------------------
(***************************************************************************)
(* What a global allocator promises its callers (the contract of           *)
(* GlobalAlloc): an allocation is a block of the heap with the layout that *)
(* was asked for, disjoint from every block that is still in use.          *)
(***************************************************************************)
EXTENDS Integers

CONSTANTS HEAP_START, HEAP_SIZE, Layouts

VARIABLE live   \* the blocks in use: [addr, layout]

HEAP_END == HEAP_START + HEAP_SIZE

\* The bytes of two blocks, as far as their users may touch them, are disjoint.
DisjointBlocks(b, c) ==
  \/ b.addr + b.layout.size <= c.addr
  \/ c.addr + c.layout.size <= b.addr

Init == live = {}

\* An allocation; one that returns null changes nothing.
Alloc(l) ==
  \E addr \in HEAP_START .. HEAP_END - 1 :
    LET b == [addr |-> addr, layout |-> l] IN
    /\ addr % l.align = 0
    /\ addr + l.size <= HEAP_END
    /\ \A c \in live : DisjointBlocks(b, c)
    /\ live' = live \cup {b}

Dealloc(b) == live' = live \ {b}

Next ==
  \/ \E l \in Layouts : Alloc(l)
  \/ \E b \in live : Dealloc(b)

Spec == Init /\ [][Next]_live
=============================================================================
