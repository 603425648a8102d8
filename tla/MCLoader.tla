------------------------------- MODULE MCLoader ------------------------------
(* All pairs of segments on three pages of two bytes below a page of stack,  *)
(* with a segment of another type between them, and single segments.         *)
EXTENDS Loader

Segment ==
  {p \in [p_type : {PT_LOAD}, p_offset : {0, 2}, p_vaddr : 0 .. 5,
          p_filesz : 0 .. 3, p_memsz : 0 .. 3] :
     p.p_filesz <= p.p_memsz /\ p.p_offset + p.p_filesz <= 4}

Note == [p_type |-> 4, p_offset |-> 0, p_vaddr |-> 0, p_filesz |-> 1, p_memsz |-> 1]

MCImages == {<<p, Note, q>> : p, q \in Segment} \cup {<<p>> : p \in Segment}
=============================================================================
