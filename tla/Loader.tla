------------------------------- MODULE Loader --------------------------------
(***************************************************************************)
(* add_user_process (kernel/src/sched.rs) as a loader of ELF images        *)
(* (kernel/src/elf.rs): which pages it maps and what each byte of the new  *)
(* process's memory holds.  The process's first context is in Registers,   *)
(* the frames are in Memory.                                               *)
(***************************************************************************)
EXTENDS Integers, Sequences

CONSTANTS
  PageSize,
  LastPage,    \* the pages are 0 .. LastPage
  StackPages,  \* the five pages below 0x200000
  ImageSize,   \* the bytes of the ramdisk
  Images,      \* the program header tables to load
  Frames       \* how many frames the allocator may have left

PT_LOAD == 1

Page == 0 .. LastPage
Addr == 0 .. (LastPage + 1) * PageSize - 1

\* A program header: the fields that add_user_process reads.
Program ==
  [p_type : Nat, p_offset : Nat, p_vaddr : Nat, p_filesz : Nat, p_memsz : Nat]

BytesOf(p) == p.p_vaddr .. p.p_vaddr + p.p_memsz - 1

ASSUME LoaderAssumption ==
  /\ PageSize \in Nat \ {0} /\ LastPage \in Nat /\ ImageSize \in Nat
  /\ StackPages \subseteq Page /\ Frames \subseteq Nat
  /\ Images \subseteq Seq(Program)
  /\ \A image \in Images : \A i \in 1 .. Len(image) :
       /\ BytesOf(image[i]) \subseteq Addr
       /\ image[i].p_filesz <= image[i].p_memsz
       /\ image[i].p_offset + image[i].p_filesz <= ImageSize

VARIABLES
  programs,  \* the image's program headers
  n,         \* the header that the loop is at
  at,        \* the step: "header", "map", "zero", "stack" or an outcome
  todo,      \* page_range: the pages still to map
  mapped,    \* the pages mapped for the user
  free,      \* the frames that the allocator has left
  mem        \* what each byte holds

vars == <<programs, n, at, todo, mapped, free, mem>>

Image(i)  == <<"image", i>>
Zero      == <<"zero">>
Leftover  == <<"leftover">>     \* from the last owner of a frame
Beyond    == <<"beyond">>       \* whatever lies behind the ramdisk

Containing(addr)    == addr \div PageSize
PagesContaining(bs) == {Containing(b) : b \in bs}
P == programs[n]

Init ==
  /\ programs \in Images
  /\ n = 1
  /\ at = "header"
  /\ todo = {}
  /\ mapped = {}
  /\ free \in Frames
  /\ mem = [a \in Addr |-> Leftover]

\* Segments of other types are skipped.
SkipHeader ==
  /\ at = "header" /\ n <= Len(programs)
  /\ P.p_type # PT_LOAD
  /\ n' = n + 1
  /\ UNCHANGED <<programs, at, todo, mapped, free, mem>>

\* start_page .. end_page of a loadable segment; the subtraction overflows for an
\* empty segment at address 0.
page_range_Exclusive(p) ==
  Containing(p.p_vaddr) .. Containing(p.p_vaddr + p.p_memsz - 1) - 1

page_range(p) == Containing(p.p_vaddr) .. Containing(p.p_vaddr + p.p_memsz - 1)

StartSegment ==
  /\ at = "header" /\ n <= Len(programs)
  /\ P.p_type = PT_LOAD
  /\ IF P.p_vaddr + P.p_memsz = 0
     THEN at' = "panicked" /\ UNCHANGED todo
     ELSE at' = "map" /\ todo' = page_range(P)
  /\ UNCHANGED <<programs, n, mapped, free, mem>>

\* allocate_frame and map_to for the next page, of a segment or of the stack.
NextPage == CHOOSE p \in todo : \A q \in todo : p <= q

MapPage ==
  /\ at \in {"map", "stack"} /\ todo # {}
  /\ free > 0 /\ NextPage \notin mapped
  /\ free' = free - 1
  /\ mapped' = mapped \cup {NextPage}
  /\ todo' = todo \ {NextPage}
  /\ UNCHANGED <<programs, n, at, mem>>

\* FrameAllocationFailed or PageAlreadyMapped; the caller panics.
MapFails ==
  /\ at \in {"map", "stack"} /\ todo # {}
  /\ free = 0 \/ NextPage \in mapped
  /\ at' = "error"
  /\ UNCHANGED <<programs, n, todo, mapped, free, mem>>

\* All p_memsz bytes are copied, the ones behind the file's part included.  What
\* is behind the ramdisk may be mapped or not; a page fault is a panic.
Copied(beyond) ==
  [a \in Addr |-> IF a \notin BytesOf(P) THEN mem[a]
                  ELSE IF P.p_offset + a - P.p_vaddr < ImageSize
                  THEN Image(P.p_offset + a - P.p_vaddr)
                  ELSE beyond]

ReadsBeyond(p) == p.p_memsz > 0 /\ p.p_offset + p.p_memsz > ImageSize

Copy ==
  /\ at = "map" /\ todo = {}
  /\ \/ /\ PagesContaining(BytesOf(P)) \subseteq mapped
        /\ mem' = Copied(Beyond)
        /\ at' = "zero"
     \/ /\ ReadsBeyond(P) \/ ~(PagesContaining(BytesOf(P)) \subseteq mapped)
        /\ at' = "fault"
        /\ UNCHANGED mem
  /\ UNCHANGED <<programs, n, todo, mapped, free>>

\* The part of the segment that is not in the file is zeroed.
ZeroTail_FromStart ==
  /\ at = "zero"
  /\ mem' = [a \in Addr |-> IF a \in P.p_vaddr .. P.p_vaddr + P.p_memsz - P.p_filesz - 1
                            THEN Zero ELSE mem[a]]
  /\ n' = n + 1
  /\ at' = "header"
  /\ UNCHANGED <<programs, todo, mapped, free>>

ZeroTail ==
  /\ at = "zero"
  /\ mem' = [a \in Addr |-> IF a \in P.p_vaddr + P.p_filesz .. P.p_vaddr + P.p_memsz - 1
                            THEN Zero ELSE mem[a]]
  /\ n' = n + 1
  /\ at' = "header"
  /\ UNCHANGED <<programs, todo, mapped, free>>

StartStack ==
  /\ at = "header" /\ n > Len(programs)
  /\ at' = "stack"
  /\ todo' = StackPages
  /\ UNCHANGED <<programs, n, mapped, free, mem>>

\* The first frame and the thread control block are written to the stack and the
\* process is added to the list.
PushProcess ==
  /\ at = "stack" /\ todo = {}
  /\ at' = "done"
  /\ mem' = [a \in Addr |-> IF Containing(a) \in StackPages THEN <<"stack">> ELSE mem[a]]
  /\ UNCHANGED <<programs, n, todo, mapped, free>>

Next ==
  \/ SkipHeader
  \/ StartSegment
  \/ MapPage
  \/ MapFails
  \/ Copy
  \/ ZeroTail
  \/ StartStack
  \/ PushProcess

Spec == Init /\ [][Next]_vars

-----------------------------------------------------------------------------
Loadable == {i \in 1 .. Len(programs) : programs[i].p_type = PT_LOAD}

\* The bytes that a segment maps pages for: an empty one inside a page takes it.
Needs(p) ==
  PagesContaining(IF p.p_memsz = 0 /\ p.p_vaddr % PageSize # 0 THEN {p.p_vaddr} ELSE BytesOf(p))

\* A program that starts finds every byte of its segments as the image says:
\* the file's bytes, then zeros.  Nothing from behind the ramdisk, from an
\* earlier use of the frame or from another segment is left in them.  And it can
\* reach the pages of its segments and of its stack, and no others.
LoadedRight ==
  at = "done" =>
    /\ \A i \in Loadable : LET p == programs[i] IN
         \A k \in 0 .. p.p_memsz - 1 :
           mem[p.p_vaddr + k] = IF k < p.p_filesz THEN Image(p.p_offset + k) ELSE Zero
    /\ mapped = StackPages \cup UNION {Needs(programs[i]) : i \in Loadable}

\* A program is rejected only if memory is short or two segments, or one and the
\* stack, need the same page.  The arithmetic panics only for an empty segment at
\* address 0.  The only page fault is due to copying p_memsz instead of p_filesz
\* bytes, behind the ramdisk's end: loading never touches a page not mapped.
FailsOnlyForCause ==
  /\ at = "error" =>
       \/ free = 0
       \/ \E i \in Loadable : Needs(programs[i]) \cap StackPages # {}
       \/ \E i, j \in Loadable : i # j /\ Needs(programs[i]) \cap Needs(programs[j]) # {}
  /\ at = "panicked" =>
       \E i \in Loadable : programs[i].p_vaddr = 0 /\ programs[i].p_memsz = 0
  /\ at = "fault" => \E i \in Loadable : ReadsBeyond(programs[i])
=============================================================================
