------------------------------- MODULE MCHeap --------------------------------
(* A heap of 22 units with list nodes of size 4 and alignment 2, in an       *)
(* address space of 64 units that ends 16 units behind the heap.  The last   *)
(* layout is so large that the end address of such a block overflows.        *)
EXTENDS Heap

L(size, align) == [size |-> size, align |-> align]

MCLayouts == {L(1, 1), L(3, 2), L(6, 1), L(5, 4), L(2, 8), L(50, 1)}
=============================================================================
