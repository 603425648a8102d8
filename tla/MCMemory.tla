------------------------------ MODULE MCMemory -------------------------------
(* Pages of 4 bytes.  A memory map with 16 usable frames in four regions (one *)
(* of them empty) between others, and one in which the heap does not fit.    *)
(* A heap of two pages, a stack of two, and four init programs: one segment, *)
(* two segments, two segments that share a page, and one that reaches into   *)
(* the stack.  Of the sizes three need no page, one and two; 300 ends        *)
(* between the halves of the address space, 352 at first just at the start   *)
(* of the upper half, and 390 inside it, beyond all frames.  The result goes  *)
(* to the stack, across two of its pages, or to the first memory init gets.   *)
EXTENDS Memory

R(start, end, kind) == [start |-> start, end |-> end, kind |-> kind]

MCMemoryMaps ==
  { << R(0, 4, "Bootloader"), R(4, 16, "Usable"), R(16, 20, "Unknown"),
       R(20, 36, "Usable"), R(40, 40, "Usable"), R(44, 80, "Usable") >>,
    << R(0, 8, "Usable"), R(8, 40, "Unknown") >> }

MCHeapRange  == <<440, 447>>
MCStackRange == <<24, 31>>

MCPrograms ==
  { << <<4, 9>> >>, << <<4, 6>>, <<8, 10>> >>, << <<4, 9>>, <<10, 15>> >>,
    << <<20, 25>> >> }

MCSizes == {0, 4, 5, 300, 352, 390}

MCPointers == {24, 27, 48}
=============================================================================
