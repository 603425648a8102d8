---------------------------- MODULE LoaderProofs -----------------------------
(***************************************************************************)
(* Proofs about add_user_process as a loader, for every set of well-formed *)
(* images, every page size, stack and number of free frames: a program     *)
(* that starts finds its memory as the image says, and loading fails only  *)
(* for the reasons that FailsOnlyForCause names.                           *)
(* First the arithmetic of pages, then the inductive invariant: which      *)
(* pages are mapped at each step and what has been copied so far.          *)
(***************************************************************************)
EXTENDS Loader, WellFoundedInduction, TLAPS

\* A set of natural numbers has a least element.
LEMMA NatMin ==
  ASSUME NEW S \in SUBSET Nat, S # {}
  PROVE  \E m \in S : \A k \in S : m <= k
<1>1. PICK m \in S : \A k \in S : ~(<<k, m>> \in OpToRel(<, Nat))
  BY NatLessThanWellFounded, WFMin, Zenon
<1>2. \A k \in S : ~(k < m)
  BY <1>1 DEF OpToRel
<1> QED BY <1>2

\* What the prover knows of quotient and remainder.
LEMMA Division ==
  ASSUME NEW a \in Nat, NEW m \in Nat \ {0}
  PROVE  /\ a % m \in 0 .. m - 1
         /\ a \div m \in Nat
         /\ a = (a \div m) * m + (a % m)
OBVIOUS

\* Two multiples of m are at least m apart.
LEMMA Multiples ==
  ASSUME NEW a \in Int, NEW b \in Int, NEW m \in Nat \ {0}, a * m < b * m + m
  PROVE  a <= b
<1> SUFFICES ASSUME a >= b + 1 PROVE FALSE
  OBVIOUS
<1>1. PICK d \in Nat : a = b + 1 + d
  <2> WITNESS a - b - 1 \in Nat
  <2> QED OBVIOUS
<1>2. a * m = b * m + m + d * m
  BY <1>1
<1>3. d * m >= 0
  OBVIOUS
<1> QED BY <1>2, <1>3

\* The quotient is the number of the multiple below.
LEMMA Quotient ==
  ASSUME NEW a \in Nat, NEW m \in Nat \ {0}, NEW q \in Nat, q * m <= a, a < q * m + m
  PROVE  a \div m = q
<1> DEFINE k == a \div m
<1> DEFINE j == a % m
<1>1. k \in Nat /\ j \in 0 .. m - 1 /\ a = k * m + j
  BY Division
<1> HIDE DEF k, j
<1>2. k * m < q * m + m /\ q * m < k * m + m
  BY <1>1
<1>3. k <= q /\ q <= k
  BY <1>1, <1>2, Multiples
<1>4. k = q
  BY <1>1, <1>3
<1> QED BY <1>4 DEF k

\* Quotients keep the order.
LEMMA QuotientMonotone ==
  ASSUME NEW a \in Nat, NEW b \in Nat, a <= b, NEW m \in Nat \ {0}
  PROVE  a \div m <= b \div m
<1> DEFINE k == a \div m
<1> DEFINE l == b \div m
<1>1. /\ k \in Nat /\ a % m \in 0 .. m - 1 /\ a = k * m + (a % m)
      /\ l \in Nat /\ b % m \in 0 .. m - 1 /\ b = l * m + (b % m)
  BY Division
<1> HIDE DEF k, l
<1>2. k * m < l * m + m
  BY <1>1
<1>3. k <= l
  BY <1>1, <1>2, Multiples
<1> QED BY <1>3 DEF k, l

-----------------------------------------------------------------------------
\* What is known of the constants.
LEMMA SizeFacts == PageSize \in Nat \ {0} /\ StackPages \subseteq Nat /\ Frames \subseteq Nat
BY LoaderAssumption DEF Page

\* Pages are numbers.
LEMMA ContainingType ==
  ASSUME NEW a \in Nat
  PROVE  Containing(a) \in Nat
<1>1. a \div PageSize \in Nat
  BY SizeFacts, Division
<1> QED BY <1>1 DEF Containing

\* Every page between those of the first and the last byte contains a byte of
\* the segment, whatever the alignment.
LEMMA PageInRange ==
  ASSUME NEW v \in Nat, NEW w \in Nat, v <= w,
         NEW q \in Containing(v) .. Containing(w)
  PROVE  \E b \in v .. w : Containing(b) = q
<1> DEFINE m == PageSize
<1> DEFINE k == Containing(v)
<1> DEFINE l == Containing(w)
<1>1. /\ k \in Nat /\ v % m \in 0 .. m - 1 /\ v = k * m + (v % m)
      /\ l \in Nat /\ w % m \in 0 .. m - 1 /\ w = l * m + (w % m)
  BY SizeFacts, Division DEF Containing
<1>2. m \in Nat \ {0} /\ q \in Nat /\ k <= q /\ q <= l
  BY <1>1, SizeFacts
<1>3. CASE q = k
  <2>1. v \in v .. w
    OBVIOUS
  <2> QED BY <1>3, <2>1
<1>4. CASE q # k
  <2> HIDE DEF k, l, m
  <2>1. k + 1 <= q
    BY <1>1, <1>2, <1>4
  <2>2. PICK d \in Nat : q = k + 1 + d
    <3>1. q - k - 1 \in Nat /\ q = k + 1 + (q - k - 1)
      BY <1>1, <1>2, <2>1
    <3> QED BY <3>1
  <2>3. PICK e \in Nat : l = q + e
    <3>1. l - q \in Nat /\ l = q + (l - q)
      BY <1>1, <1>2
    <3> QED BY <3>1
  <2>4. q * m = k * m + m + d * m /\ d * m >= 0 /\ q * m \in Nat /\ k * m \in Nat
    BY <1>1, <1>2, <2>2
  <2>5. l * m = q * m + e * m /\ e * m >= 0 /\ l * m \in Nat
    BY <1>1, <1>2, <2>3
  <2>6. q * m \in v .. w
    BY <1>1, <1>2, <2>4, <2>5
  <2>7. (q * m) \div m = q
    BY <1>2, <2>4, Quotient
  <2> QED BY <2>6, <2>7 DEF Containing, m
<1> QED BY <1>3, <1>4

\* Each byte of a segment lies in a page that the segment needs.
LEMMA NeedsFacts ==
  ASSUME NEW p \in Program
  PROVE  /\ Needs(p) \subseteq Nat
         /\ \A a \in BytesOf(p) : a \in Nat /\ Containing(a) \in Needs(p)
<1> HIDE DEF Containing
<1>1. p.p_vaddr \in Nat /\ p.p_memsz \in Nat
  BY DEF Program
<1>2. BytesOf(p) \subseteq Nat
  BY <1>1 DEF BytesOf
<1>3. p.p_memsz = 0 => BytesOf(p) = {}
  BY <1>1 DEF BytesOf
<1>4. Needs(p) \subseteq Nat
  BY <1>1, <1>2, ContainingType DEF Needs, PagesContaining
<1>5. \A a \in BytesOf(p) : Containing(a) \in Needs(p)
  BY <1>3 DEF Needs, PagesContaining
<1> QED BY <1>2, <1>4, <1>5

\* page_range, computed from the first and the last byte, is the set of pages
\* that the segment needs: also for an empty segment inside a page and for one
\* at a page boundary, where the range is empty.
LEMMA NeedsIsRange ==
  ASSUME NEW p \in Program, p.p_vaddr + p.p_memsz # 0
  PROVE  page_range(p) = Needs(p)
<1> DEFINE v == p.p_vaddr
<1> DEFINE w == p.p_vaddr + p.p_memsz - 1
<1>1. v \in Nat /\ p.p_memsz \in Nat /\ w \in Nat
  BY DEF Program
<1>2. Containing(v) \in Nat /\ Containing(w) \in Nat
  BY <1>1, ContainingType
<1>3. CASE p.p_memsz # 0
  <2>1. v <= w
    BY <1>1, <1>3
  <2>2. Needs(p) = {Containing(b) : b \in v .. w}
    BY <1>3 DEF Needs, PagesContaining, BytesOf
  <2>3. page_range(p) = Containing(v) .. Containing(w)
    BY DEF page_range
  <2> HIDE DEF v, w
  <2>4. ASSUME NEW q \in Containing(v) .. Containing(w)
        PROVE  q \in {Containing(b) : b \in v .. w}
    <3>1. PICK b \in v .. w : Containing(b) = q
      BY <1>1, <2>1, PageInRange
    <3> QED BY <3>1
  <2>5. ASSUME NEW b \in v .. w
        PROVE  Containing(b) \in Containing(v) .. Containing(w)
    <3>1. b \in Nat /\ v <= b /\ b <= w
      BY <1>1
    <3>2. Containing(b) \in Nat /\ Containing(v) <= Containing(b)
          /\ Containing(b) <= Containing(w)
      BY <1>1, <3>1, SizeFacts, ContainingType, QuotientMonotone DEF Containing
    <3> QED BY <1>2, <3>2
  <2> QED BY <2>2, <2>3, <2>4, <2>5
<1>4. CASE p.p_memsz = 0
  <2>1. w = v - 1 /\ v > 0
    BY <1>1, <1>4
  <2>2. page_range(p) = Containing(v) .. Containing(w)
    BY DEF page_range
  <2>3. Needs(p) = IF v % PageSize # 0 THEN {Containing(v)} ELSE {}
    <3>1. BytesOf(p) = {}
      BY <1>1, <1>4 DEF BytesOf
    <3> QED BY <1>4, <3>1 DEF Needs, PagesContaining
  <2> HIDE DEF v, w
  <2> DEFINE q == v \div PageSize
  <2>4. /\ q \in Nat /\ v % PageSize \in 0 .. PageSize - 1 /\ v = q * PageSize + (v % PageSize)
        /\ q * PageSize \in Nat
    <3>1. PageSize \in Nat \ {0}
      BY SizeFacts
    <3>2. q \in Nat /\ v % PageSize \in 0 .. PageSize - 1 /\ v = q * PageSize + (v % PageSize)
      BY <1>1, <3>1, Division, Zenon
    <3>3. q * PageSize \in Nat
      BY <3>1, <3>2
    <3> QED BY <3>2, <3>3
  <2>5. CASE v % PageSize # 0
    <3>1. w \div PageSize = q
      <4>1. q * PageSize <= w /\ w < q * PageSize + PageSize
        BY <1>1, <2>1, <2>4, <2>5, SizeFacts
      <4> HIDE DEF q
      <4> QED BY <1>1, <2>4, <4>1, SizeFacts, Quotient
    <3>2. Containing(v) .. Containing(w) = {Containing(v)}
      BY <1>2, <3>1 DEF Containing
    <3> QED BY <2>2, <2>3, <2>5, <3>2
  <2>6. CASE v % PageSize = 0
    <3>1. v = q * PageSize
      BY <1>1, <2>4, <2>6
    <3>2. q >= 1
      BY <2>1, <2>4, <3>1, SizeFacts
    <3>3. (q - 1) * PageSize = q * PageSize - PageSize /\ q - 1 \in Nat
      <4> HIDE DEF q
      <4>1. \A i, j \in Int : (i - 1) * j = i * j - j
        OBVIOUS
      <4>2. (q - 1) * PageSize = q * PageSize - PageSize
        BY <2>4, <4>1, SizeFacts
      <4>3. q - 1 \in Nat
        BY <2>4, <3>2
      <4> QED BY <4>2, <4>3
    <3>4. w \div PageSize = q - 1
      <4> HIDE DEF q
      <4>1. (q - 1) * PageSize <= w /\ w < (q - 1) * PageSize + PageSize
        BY <1>1, <2>1, <2>4, <3>1, <3>3, SizeFacts
      <4> QED BY <1>1, <3>3, <4>1, SizeFacts, Quotient
    <3>5. Containing(v) .. Containing(w) = {}
      BY <1>2, <2>4, <3>4 DEF Containing
    <3> QED BY <2>2, <2>3, <2>6, <3>5
  <2> QED BY <2>5, <2>6
<1> QED BY <1>3, <1>4

-----------------------------------------------------------------------------
\* The segments before the one that the loop is at.
Prev == {i \in Loadable : i < n}

\* The pages of a set of segments.
PagesOf(I) == UNION {Needs(programs[i]) : i \in I}

\* The bytes of a segment are the file's, then zeros.
Right(m, p) ==
  \A k \in 0 .. p.p_memsz - 1 :
    m[p.p_vaddr + k] = IF k < p.p_filesz THEN Image(p.p_offset + k) ELSE Zero

Loading == {"header", "map", "zero", "stack", "done"}

TypeInv ==
  /\ programs \in Images
  /\ n \in 1 .. Len(programs) + 1
  /\ at \in Loading \cup {"error", "panicked", "fault"}
  /\ todo \subseteq Nat
  /\ free \in Nat

\* At each step the pages mapped are those of the earlier segments and the part
\* of the current range that is done; these never meet, since map_to refuses a
\* page that is mapped.
Mapping ==
  /\ at = "header" => mapped = PagesOf(Prev)
  /\ at \in {"map", "zero"} => n \in Loadable
  /\ at = "map" =>
       /\ todo \subseteq Needs(P)
       /\ mapped = PagesOf(Prev) \cup (Needs(P) \ todo)
       /\ (Needs(P) \ todo) \cap PagesOf(Prev) = {}
  /\ at = "zero" =>
       /\ mapped = PagesOf(Prev) \cup Needs(P)
       /\ Needs(P) \cap PagesOf(Prev) = {}
  /\ at \in {"stack", "done"} => Prev = Loadable
  /\ at = "stack" =>
       /\ todo \subseteq StackPages
       /\ mapped = PagesOf(Loadable) \cup (StackPages \ todo)
       /\ (StackPages \ todo) \cap PagesOf(Loadable) = {}
  /\ at = "done" => mapped = StackPages \cup PagesOf(Loadable)

\* The earlier segments stay as they were loaded, and between the copy and the
\* zeroing the file's part is in place.
Copying ==
  /\ at \in Loading => \A i \in Prev : Right(mem, programs[i])
  /\ at = "zero" =>
       \A k \in 0 .. P.p_filesz - 1 : mem[P.p_vaddr + k] = Image(P.p_offset + k)

\* The inductive invariant.  LoadedRight speaks only of the last state: that a
\* segment is still right then needs that no later one shares a page with it.
IInv == TypeInv /\ Mapping /\ Copying /\ FailsOnlyForCause

\* What is known of the headers of an image.
LEMMA ProgramFacts ==
  ASSUME TypeInv
  PROVE  /\ Len(programs) \in Nat
         /\ \A i \in 1 .. Len(programs) :
              /\ programs[i] \in Program
              /\ BytesOf(programs[i]) \subseteq Addr
              /\ programs[i].p_filesz <= programs[i].p_memsz
              /\ programs[i].p_offset + programs[i].p_filesz <= ImageSize
<1>1. programs \in Seq(Program)
  BY LoaderAssumption DEF TypeInv
<1> QED BY <1>1, LoaderAssumption DEF TypeInv

\* The loop over a range takes one of its pages.
LEMMA NextPageType ==
  ASSUME todo \subseteq Nat, todo # {}
  PROVE  NextPage \in todo
<1>1. \E p \in todo : \A q \in todo : p <= q
  BY NatMin
<1> QED BY <1>1 DEF NextPage

\* Nothing is mapped before the first header.
LEMMA InitIInv == Init => IInv
<1> SUFFICES ASSUME Init PROVE IInv
  OBVIOUS
<1>1. programs \in Seq(Program)
  BY LoaderAssumption DEF Init
<1>2. TypeInv
  BY <1>1, LoaderAssumption DEF Init, TypeInv, Loading
<1>3. Prev = {}
  BY <1>1 DEF Init, Prev, Loadable
<1>4. Mapping /\ Copying /\ FailsOnlyForCause
  BY <1>3 DEF Init, Mapping, Copying, FailsOnlyForCause, PagesOf
<1> QED BY <1>2, <1>4 DEF IInv

\* Stepping to the next header adds the segment to the earlier ones.
LEMMA PrevStep ==
  ASSUME TypeInv, n <= Len(programs), n' = n + 1, programs' = programs
  PROVE  Prev' = IF n \in Loadable THEN Prev \cup {n} ELSE Prev
<1>1. Len(programs) \in Nat /\ n \in Nat /\ n >= 1
  BY ProgramFacts DEF TypeInv
<1> QED BY <1>1 DEF Prev, Loadable

\* Segments that share no page share no byte.
LEMMA Apart ==
  ASSUME NEW p \in Program, NEW q \in Program, Needs(p) \cap Needs(q) = {}
  PROVE  BytesOf(p) \cap BytesOf(q) = {}
BY NeedsFacts

\* The k-th byte of a segment is one of its bytes.
LEMMA ByteOf ==
  ASSUME NEW p \in Program, NEW k \in 0 .. p.p_memsz - 1
  PROVE  p.p_vaddr + k \in BytesOf(p)
BY DEF BytesOf, Program

\* Skipping a header, starting a segment and starting the stack.
LEMMA HeaderStep ==
  ASSUME IInv, SkipHeader \/ StartSegment \/ StartStack
  PROVE  IInv'
<1>1. Len(programs) \in Nat /\ n \in Nat /\ n >= 1
  BY ProgramFacts DEF IInv, TypeInv
<1>2. /\ at = "header" /\ programs' = programs /\ mapped' = mapped /\ free' = free /\ mem' = mem
  BY DEF SkipHeader, StartSegment, StartStack
<1>3. mapped = PagesOf(Prev) /\ \A i \in Prev : Right(mem, programs[i])
  BY <1>2 DEF IInv, Mapping, Copying, Loading
<1>4. CASE SkipHeader
  <2>1. n <= Len(programs) /\ n' = n + 1 /\ at' = "header" /\ todo' = todo /\ n \notin Loadable
    BY <1>4 DEF SkipHeader, Loadable, P
  <2>2. Prev' = Prev
    BY <1>2, <2>1, PrevStep DEF IInv
  <2>3. TypeInv'
    BY <1>1, <1>2, <2>1 DEF IInv, TypeInv
  <2>4. Mapping'
    BY <1>2, <1>3, <2>1, <2>2 DEF Mapping, PagesOf
  <2>5. Copying'
    BY <1>2, <1>3, <2>1, <2>2 DEF Copying, Right
  <2>6. FailsOnlyForCause'
    BY <2>1 DEF FailsOnlyForCause
  <2> QED BY <2>3, <2>4, <2>5, <2>6 DEF IInv
<1>5. CASE StartSegment
  <2>1. n <= Len(programs) /\ n' = n /\ n \in Loadable
    BY <1>1, <1>5 DEF StartSegment, Loadable, P
  <2>2. P \in Program
    BY <2>1, ProgramFacts DEF IInv, Loadable, P
  <2>3. Prev' = Prev /\ Loadable' = Loadable /\ P' = P
    BY <1>2, <2>1 DEF Prev, Loadable, P
  <2>4. CASE P.p_vaddr + P.p_memsz = 0
    <3>1. at' = "panicked" /\ todo' = todo
      BY <1>5, <2>4 DEF StartSegment
    <3>2. P.p_vaddr = 0 /\ P.p_memsz = 0
      BY <2>2, <2>4 DEF Program
    <3>3. TypeInv'
      BY <1>2, <2>1, <3>1 DEF IInv, TypeInv
    <3>4. Mapping' /\ Copying'
      BY <3>1 DEF Mapping, Copying, Loading
    <3>5. FailsOnlyForCause'
      BY <1>2, <2>1, <2>3, <3>1, <3>2 DEF FailsOnlyForCause, P
    <3> QED BY <3>3, <3>4, <3>5 DEF IInv
  <2>5. CASE P.p_vaddr + P.p_memsz # 0
    <3>1. at' = "map" /\ todo' = Needs(P)
      BY <1>5, <2>2, <2>5, NeedsIsRange DEF StartSegment
    <3>2. TypeInv'
      BY <1>2, <2>1, <2>2, <3>1, NeedsFacts DEF IInv, TypeInv, Loading
    <3>3. Mapping'
      BY <1>2, <1>3, <2>1, <2>3, <3>1 DEF Mapping, PagesOf
    <3>4. Copying'
      BY <1>2, <1>3, <2>3, <3>1 DEF Copying, Right
    <3>5. FailsOnlyForCause'
      BY <3>1 DEF FailsOnlyForCause
    <3> QED BY <3>2, <3>3, <3>4, <3>5 DEF IInv
  <2> QED BY <2>4, <2>5
<1>6. CASE StartStack
  <2>1. n > Len(programs) /\ n' = n /\ at' = "stack" /\ todo' = StackPages
    BY <1>6 DEF StartStack
  <2>2. Prev = Loadable /\ Prev' = Prev /\ Loadable' = Loadable
    BY <1>1, <1>2, <2>1 DEF Prev, Loadable
  <2>3. TypeInv'
    BY <1>2, <2>1, SizeFacts DEF IInv, TypeInv, Loading
  <2>4. Mapping'
    BY <1>2, <1>3, <2>1, <2>2 DEF Mapping, PagesOf
  <2>5. Copying'
    BY <1>2, <1>3, <2>1, <2>2 DEF Copying, Right
  <2>6. FailsOnlyForCause'
    BY <2>1 DEF FailsOnlyForCause
  <2> QED BY <2>3, <2>4, <2>5, <2>6 DEF IInv
<1> QED BY <1>4, <1>5, <1>6

\* Mapping a page moves it from the range to the mapped pages.
LEMMA MapPageStep ==
  ASSUME IInv, MapPage
  PROVE  IInv'
<1>1. /\ programs' = programs /\ n' = n /\ at' = at /\ mem' = mem
      /\ at \in {"map", "stack"} /\ NextPage \notin mapped
      /\ mapped' = mapped \cup {NextPage} /\ todo' = todo \ {NextPage}
      /\ free > 0 /\ free' = free - 1
  BY DEF MapPage
<1>2. NextPage \in todo
  BY NextPageType DEF IInv, TypeInv, MapPage
<1>3. Prev' = Prev /\ Loadable' = Loadable /\ P' = P
  BY <1>1 DEF Prev, Loadable, P
<1>4. PagesOf(Prev)' = PagesOf(Prev) /\ PagesOf(Loadable)' = PagesOf(Loadable)
  BY <1>1, <1>3 DEF PagesOf
<1>5. TypeInv'
  <2>1. free' \in Nat
    BY <1>1 DEF IInv, TypeInv
  <2>2. todo' \subseteq Nat
    BY <1>1 DEF IInv, TypeInv
  <2> QED BY <1>1, <2>1, <2>2 DEF IInv, TypeInv
<1>6. Mapping'
  <2>1. CASE at = "map"
    <3> HIDE DEF P, NextPage
    <3>1. /\ todo \subseteq Needs(P) /\ n \in Loadable
          /\ mapped = PagesOf(Prev) \cup (Needs(P) \ todo)
          /\ (Needs(P) \ todo) \cap PagesOf(Prev) = {}
      BY <2>1 DEF IInv, Mapping
    <3>2. /\ todo' \subseteq Needs(P)
          /\ mapped' = PagesOf(Prev) \cup (Needs(P) \ todo')
          /\ (Needs(P) \ todo') \cap PagesOf(Prev) = {}
      BY <1>1, <1>2, <3>1
    <3> QED BY <1>1, <1>3, <1>4, <2>1, <3>1, <3>2 DEF Mapping
  <2>2. CASE at = "stack"
    <3> HIDE DEF P, NextPage
    <3>1. /\ todo \subseteq StackPages /\ Prev = Loadable
          /\ mapped = PagesOf(Loadable) \cup (StackPages \ todo)
          /\ (StackPages \ todo) \cap PagesOf(Loadable) = {}
      BY <2>2 DEF IInv, Mapping
    <3>2. /\ todo' \subseteq StackPages
          /\ mapped' = PagesOf(Loadable) \cup (StackPages \ todo')
          /\ (StackPages \ todo') \cap PagesOf(Loadable) = {}
      BY <1>1, <1>2, <3>1
    <3> QED BY <1>1, <1>3, <1>4, <2>2, <3>1, <3>2 DEF Mapping
  <2> QED BY <1>1, <2>1, <2>2
<1>7. Copying'
  BY <1>1, <1>3 DEF IInv, Copying, Right
<1>8. FailsOnlyForCause'
  BY <1>1 DEF FailsOnlyForCause
<1> QED BY <1>5, <1>6, <1>7, <1>8 DEF IInv

\* If the page is mapped already, an earlier segment has it: pages of the
\* current range are mapped once.
LEMMA MapFailsStep ==
  ASSUME IInv, MapFails
  PROVE  IInv'
<1>1. /\ programs' = programs /\ n' = n /\ at' = "error" /\ todo' = todo
      /\ at \in {"map", "stack"} /\ free' = free
      /\ free = 0 \/ NextPage \in mapped
  BY DEF MapFails
<1>2. NextPage \in todo
  BY NextPageType DEF IInv, TypeInv, MapFails
<1>3. Loadable' = Loadable
  BY <1>1 DEF Loadable
<1>4. TypeInv'
  BY <1>1 DEF IInv, TypeInv
<1>5. Mapping' /\ Copying'
  BY <1>1 DEF Mapping, Copying, Loading
<1>6. \/ free = 0
      \/ \E i \in Loadable : Needs(programs[i]) \cap StackPages # {}
      \/ \E i, j \in Loadable : i # j /\ Needs(programs[i]) \cap Needs(programs[j]) # {}
  <2> HIDE DEF NextPage
  <2>1. CASE at = "map" /\ NextPage \in mapped
    <3>1. /\ todo \subseteq Needs(P) /\ n \in Loadable
          /\ mapped = PagesOf(Prev) \cup (Needs(P) \ todo)
      BY <2>1 DEF IInv, Mapping
    <3>2. NextPage \in PagesOf(Prev) /\ NextPage \in Needs(P)
      BY <1>2, <2>1, <3>1
    <3>3. PICK i \in Prev : NextPage \in Needs(programs[i])
      BY <3>2 DEF PagesOf
    <3>4. i \in Loadable /\ i # n
      BY <3>3, ProgramFacts DEF Prev, IInv, TypeInv, Loadable
    <3> QED BY <3>1, <3>2, <3>3, <3>4 DEF P
  <2>2. CASE at = "stack" /\ NextPage \in mapped
    <3>1. /\ todo \subseteq StackPages
          /\ mapped = PagesOf(Loadable) \cup (StackPages \ todo)
      BY <2>2 DEF IInv, Mapping
    <3>2. NextPage \in PagesOf(Loadable) /\ NextPage \in StackPages
      BY <1>2, <2>2, <3>1
    <3> QED BY <3>2 DEF PagesOf
  <2> QED BY <1>1, <2>1, <2>2
<1>7. FailsOnlyForCause'
  BY <1>1, <1>3, <1>6 DEF FailsOnlyForCause
<1> QED BY <1>4, <1>5, <1>7 DEF IInv

\* The copy leaves the earlier segments alone, and with all pages of the
\* segment mapped it can fault only behind the ramdisk.
LEMMA CopyStep ==
  ASSUME IInv, Copy
  PROVE  IInv'
<1>1. /\ programs' = programs /\ n' = n /\ todo' = todo /\ mapped' = mapped /\ free' = free
      /\ at = "map" /\ todo = {} /\ at' \in {"zero", "fault"}
  BY DEF Copy
<1>2. /\ n \in Loadable
      /\ mapped = PagesOf(Prev) \cup Needs(P)
      /\ Needs(P) \cap PagesOf(Prev) = {}
      /\ \A i \in Prev : Right(mem, programs[i])
  BY <1>1 DEF IInv, Mapping, Copying, Loading
<1>3. /\ P \in Program /\ BytesOf(P) \subseteq Addr /\ P.p_filesz <= P.p_memsz
      /\ P.p_offset + P.p_filesz <= ImageSize
  BY <1>2, ProgramFacts DEF IInv, Loadable, P
<1>4. Prev' = Prev /\ Loadable' = Loadable /\ P' = P
  BY <1>1 DEF Prev, Loadable, P
<1>5. TypeInv'
  BY <1>1 DEF IInv, TypeInv, Loading
<1>6. PagesContaining(BytesOf(P)) \subseteq mapped
  BY <1>2, <1>3, NeedsFacts DEF PagesContaining
<1>7. CASE at' = "fault"
  <2>1. ReadsBeyond(P)
    BY <1>6, <1>7 DEF Copy
  <2>2. Mapping' /\ Copying'
    BY <1>7 DEF Mapping, Copying, Loading
  <2>3. FailsOnlyForCause'
    BY <1>1, <1>2, <1>4, <1>7, <2>1 DEF FailsOnlyForCause, P
  <2> QED BY <1>5, <2>2, <2>3 DEF IInv
<1>8. CASE at' = "zero"
  <2>1. mem' = Copied(Beyond)
    BY <1>8 DEF Copy
  <2>2. Mapping'
    <3>1. PagesOf(Prev)' = PagesOf(Prev) /\ Needs(P)' = Needs(P)
      BY <1>1, <1>4 DEF PagesOf
    <3> QED BY <1>1, <1>2, <1>4, <1>8, <3>1 DEF Mapping
  <2>3. ASSUME NEW i \in Prev PROVE Right(mem', programs[i])
    <3> DEFINE p == programs[i]
    <3>1. i \in 1 .. Len(programs) /\ Right(mem, p)
      BY <1>2 DEF Prev, Loadable
    <3>2. p \in Program /\ BytesOf(p) \subseteq Addr
      BY <3>1, ProgramFacts DEF IInv
    <3>3. Needs(p) \cap Needs(P) = {}
      BY <1>2 DEF PagesOf
    <3>4. BytesOf(p) \cap BytesOf(P) = {}
      BY <1>3, <3>2, <3>3, Apart
    <3>5. ASSUME NEW a \in BytesOf(p) PROVE mem'[a] = mem[a]
      <4>1. a \in Addr /\ a \notin BytesOf(P)
        BY <3>2, <3>4
      <4> QED BY <2>1, <4>1 DEF Copied
    <3>6. \A k \in 0 .. p.p_memsz - 1 : mem'[p.p_vaddr + k] = mem[p.p_vaddr + k]
      BY <3>2, <3>5, ByteOf
    <3> QED BY <1>1, <3>1, <3>6 DEF Right
  <2>4. ASSUME NEW k \in 0 .. P.p_filesz - 1
        PROVE  mem'[P.p_vaddr + k] = Image(P.p_offset + k)
    <3>1. P.p_filesz \in Nat /\ P.p_memsz \in Nat /\ P.p_vaddr \in Nat /\ P.p_offset \in Nat
      BY <1>3 DEF Program
    <3>2. k \in Nat /\ k \in 0 .. P.p_memsz - 1 /\ k < P.p_filesz
      BY <1>3, <3>1
    <3>3. P.p_vaddr + k \in BytesOf(P)
      BY <1>3, <3>2, ByteOf
    <3>4. P.p_offset + (P.p_vaddr + k) - P.p_vaddr = P.p_offset + k
      BY <3>1, <3>2
    <3>5. P.p_offset + k < ImageSize
      BY <1>3, <3>1, <3>2, LoaderAssumption
    <3> HIDE DEF P, BytesOf, Image, Beyond
    <3> QED BY <1>3, <2>1, <3>3, <3>4, <3>5 DEF Copied
  <2>5. Copying'
    BY <1>1, <1>4, <2>3, <2>4 DEF Copying, P
  <2>6. FailsOnlyForCause'
    BY <1>8 DEF FailsOnlyForCause
  <2> QED BY <1>5, <2>2, <2>5, <2>6 DEF IInv
<1> QED BY <1>1, <1>7, <1>8

\* Zeroing completes the segment: what was copied from behind the file's part
\* is overwritten.
LEMMA ZeroTailStep ==
  ASSUME IInv, ZeroTail
  PROVE  IInv'
<1>1. /\ programs' = programs /\ n' = n + 1 /\ todo' = todo /\ mapped' = mapped /\ free' = free
      /\ at = "zero" /\ at' = "header"
  BY DEF ZeroTail
<1>2. /\ n \in Loadable
      /\ mapped = PagesOf(Prev) \cup Needs(P)
      /\ Needs(P) \cap PagesOf(Prev) = {}
      /\ \A i \in Prev : Right(mem, programs[i])
      /\ \A k \in 0 .. P.p_filesz - 1 : mem[P.p_vaddr + k] = Image(P.p_offset + k)
  BY <1>1 DEF IInv, Mapping, Copying, Loading
<1>3. P \in Program /\ BytesOf(P) \subseteq Addr /\ P.p_filesz <= P.p_memsz
  BY <1>2, ProgramFacts DEF IInv, Loadable, P
<1>4. P.p_filesz \in Nat /\ P.p_memsz \in Nat /\ P.p_vaddr \in Nat /\ P.p_offset \in Nat
  BY <1>3 DEF Program
<1>5. n \in 1 .. Len(programs) /\ Len(programs) \in Nat
  BY <1>2, ProgramFacts DEF Loadable, IInv
<1>6. Prev' = Prev \cup {n}
  BY <1>1, <1>2, <1>5, PrevStep DEF IInv
<1>7. TypeInv'
  BY <1>1, <1>5 DEF IInv, TypeInv, Loading
<1>8. Mapping'
  <2>1. PagesOf(Prev)' = PagesOf(Prev) \cup Needs(P)
    BY <1>1, <1>6 DEF PagesOf, P
  <2> QED BY <1>1, <1>2, <2>1 DEF Mapping
<1>9. ASSUME NEW i \in Prev PROVE Right(mem', programs[i])
  <2> DEFINE p == programs[i]
  <2>1. i \in 1 .. Len(programs) /\ Right(mem, p)
    BY <1>2 DEF Prev, Loadable
  <2>2. p \in Program /\ BytesOf(p) \subseteq Addr
    BY <2>1, ProgramFacts DEF IInv
  <2>3. Needs(p) \cap Needs(P) = {}
    BY <1>2 DEF PagesOf
  <2>4. BytesOf(p) \cap BytesOf(P) = {}
    BY <1>3, <2>2, <2>3, Apart
  <2>5. \A a \in P.p_vaddr + P.p_filesz .. P.p_vaddr + P.p_memsz - 1 : a \in BytesOf(P)
    BY <1>4 DEF BytesOf
  <2>6. \A a \in BytesOf(p) : mem'[a] = mem[a]
    BY <2>2, <2>4, <2>5 DEF ZeroTail
  <2>7. \A k \in 0 .. p.p_memsz - 1 : mem'[p.p_vaddr + k] = mem[p.p_vaddr + k]
    BY <2>2, <2>6, ByteOf
  <2> QED BY <1>1, <2>1, <2>7 DEF Right
<1>10. Right(mem', programs[n])
  <2> SUFFICES ASSUME NEW k \in 0 .. P.p_memsz - 1
               PROVE  mem'[P.p_vaddr + k] =
                        IF k < P.p_filesz THEN Image(P.p_offset + k) ELSE Zero
    BY DEF Right, P
  <2>1. k \in Nat /\ P.p_vaddr + k \in Addr
    BY <1>3, <1>4, ByteOf
  <2>2. CASE k < P.p_filesz
    <3>1. k \in 0 .. P.p_filesz - 1
      BY <1>4, <2>1, <2>2
    <3>2. P.p_vaddr + k \notin P.p_vaddr + P.p_filesz .. P.p_vaddr + P.p_memsz - 1
      BY <1>4, <2>1, <2>2
    <3> QED BY <1>2, <2>1, <2>2, <3>1, <3>2 DEF ZeroTail
  <2>3. CASE ~(k < P.p_filesz)
    <3>1. P.p_vaddr + k \in P.p_vaddr + P.p_filesz .. P.p_vaddr + P.p_memsz - 1
      BY <1>4, <2>1, <2>3
    <3> QED BY <2>1, <2>3, <3>1 DEF ZeroTail
  <2> QED BY <2>2, <2>3
<1>11. Copying'
  <2>1. \A i \in Prev' : Right(mem', programs[i])
    BY <1>6, <1>9, <1>10
  <2> QED BY <1>1, <2>1 DEF Copying
<1>12. FailsOnlyForCause'
  BY <1>1 DEF FailsOnlyForCause
<1> QED BY <1>7, <1>8, <1>11, <1>12 DEF IInv

\* The first frame goes to the stack, which shares no page with a segment.
LEMMA PushProcessStep ==
  ASSUME IInv, PushProcess
  PROVE  IInv'
<1>1. /\ programs' = programs /\ n' = n /\ todo' = todo /\ mapped' = mapped /\ free' = free
      /\ at = "stack" /\ todo = {} /\ at' = "done"
  BY DEF PushProcess
<1>2. /\ Prev = Loadable
      /\ mapped = PagesOf(Loadable) \cup StackPages
      /\ StackPages \cap PagesOf(Loadable) = {}
      /\ \A i \in Prev : Right(mem, programs[i])
  BY <1>1 DEF IInv, Mapping, Copying, Loading
<1>3. Prev' = Prev /\ Loadable' = Loadable
  BY <1>1 DEF Prev, Loadable
<1>4. TypeInv'
  BY <1>1 DEF IInv, TypeInv, Loading
<1>5. Mapping'
  <2>1. PagesOf(Loadable)' = PagesOf(Loadable)
    BY <1>1, <1>3 DEF PagesOf
  <2> QED BY <1>1, <1>2, <1>3, <2>1 DEF Mapping
<1>6. ASSUME NEW i \in Prev PROVE Right(mem', programs[i])
  <2> DEFINE p == programs[i]
  <2>1. i \in 1 .. Len(programs) /\ i \in Loadable /\ Right(mem, p)
    BY <1>2 DEF Prev, Loadable
  <2>2. p \in Program /\ BytesOf(p) \subseteq Addr
    BY <2>1, ProgramFacts DEF IInv
  <2>3. Needs(p) \cap StackPages = {}
    BY <1>2, <2>1 DEF PagesOf
  <2>4. \A a \in BytesOf(p) : Containing(a) \notin StackPages
    BY <2>2, <2>3, NeedsFacts
  <2>5. \A a \in BytesOf(p) : mem'[a] = mem[a]
    BY <2>2, <2>4 DEF PushProcess
  <2>6. \A k \in 0 .. p.p_memsz - 1 : mem'[p.p_vaddr + k] = mem[p.p_vaddr + k]
    BY <2>2, <2>5, ByteOf
  <2> QED BY <1>1, <2>1, <2>6 DEF Right
<1>7. Copying'
  BY <1>1, <1>3, <1>6 DEF Copying
<1>8. FailsOnlyForCause'
  BY <1>1 DEF FailsOnlyForCause
<1> QED BY <1>4, <1>5, <1>7, <1>8 DEF IInv

\* Every step preserves the invariant.
LEMMA NextIInv == IInv /\ [Next]_vars => IInv'
<1> SUFFICES ASSUME IInv, [Next]_vars PROVE IInv'
  OBVIOUS
<1>1. CASE Next
  BY <1>1, HeaderStep, MapPageStep, MapFailsStep, CopyStep, ZeroTailStep, PushProcessStep
     DEF Next
<1>2. CASE UNCHANGED vars
  <2>1. Prev' = Prev /\ Loadable' = Loadable /\ P' = P
    BY <1>2 DEF vars, Prev, Loadable, P
  <2>2. PagesOf(Prev)' = PagesOf(Prev) /\ PagesOf(Loadable)' = PagesOf(Loadable)
    BY <1>2, <2>1 DEF vars, PagesOf
  <2>3. TypeInv' /\ Mapping' /\ Copying'
    BY <1>2, <2>1, <2>2 DEF vars, IInv, TypeInv, Mapping, Copying
  <2>4. FailsOnlyForCause'
    BY <1>2, <2>1 DEF vars, IInv, FailsOnlyForCause
  <2> QED BY <2>3, <2>4 DEF IInv
<1> QED BY <1>1, <1>2

\* The invariant holds in every reachable state.
THEOREM Invariance == Spec => []IInv
BY InitIInv, NextIInv, PTL DEF Spec

\* A process that add_user_process pushes has in each loadable segment the
\* bytes of the file and then zeros, and exactly the pages of its segments and
\* of its stack.
THEOREM ProgramsLoadedRight == Spec => []LoadedRight
<1>1. IInv => LoadedRight
  BY DEF IInv, Mapping, Copying, Loading, LoadedRight, PagesOf, Right
<1> QED BY <1>1, Invariance, PTL

\* add_user_process fails to map only if frames ran out or two segments, or one
\* and the stack, need the same page; its subtraction overflows only for an
\* empty segment at address 0; and it faults only when p_memsz reaches behind
\* the ramdisk.
THEOREM LoadingFailsForCause == Spec => []FailsOnlyForCause
<1>1. IInv => FailsOnlyForCause
  BY DEF IInv
<1> QED BY <1>1, Invariance, PTL
=============================================================================
