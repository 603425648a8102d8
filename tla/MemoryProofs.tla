---------------------------- MODULE MemoryProofs -----------------------------
(***************************************************************************)
(* Proofs about the frame allocators and the address space, for every      *)
(* memory map, page size, program, stack, heap and sequence of requests:   *)
(* no frame has two users, both allocators account for every frame, the    *)
(* memory given to init is its own, and the kernel panics over a request   *)
(* only for one of three causes.                                           *)
(* usable_frames and the pages of a program are concatenations, defined by *)
(* recursion.  That such a definition has a value, and what this value is, *)
(* follows by well-founded induction: a least length for which it failed   *)
(* would not be least.                                                     *)
(***************************************************************************)
EXTENDS Memory, FiniteSetTheorems, WellFoundedInduction, TLAPS

\* A set of natural numbers that is not empty has a least element.
LEMMA NatMin ==
  ASSUME NEW S \in SUBSET Nat, S # {}
  PROVE  \E m \in S : \A k \in S : m <= k
<1>1. PICK m \in S : \A k \in S : ~(<<k, m>> \in OpToRel(<, Nat))
  BY NatLessThanWellFounded, WFMin, Zenon
<1>2. \A k \in S : ~(k < m)
  BY <1>1 DEF OpToRel
<1> QED BY <1>2

\* f holds the concatenations of the first i sequences of ss, for every i.
Flattens(f, ss) ==
  f = [i \in 1 .. Len(ss) |-> IF i = 1 THEN ss[i] ELSE f[i - 1] \o ss[i]]

\* The recursion that FlattenSeq is defined by has a solution up to every
\* length: the least length without one could be reached from the one before.
LEMMA PartlyFlattened ==
  ASSUME NEW S, NEW ss \in Seq(Seq(S)), NEW n \in Nat, n <= Len(ss)
  PROVE  \E f : f = [i \in 1 .. n |-> IF i = 1 THEN ss[i] ELSE f[i - 1] \o ss[i]]
<1> DEFINE P(m) == \E f : f = [i \in 1 .. m |->
                                 IF i = 1 THEN ss[i] ELSE f[i - 1] \o ss[i]]
           Bad == {m \in Nat : m <= n /\ ~P(m)}
<1>0. SUFFICES ASSUME ~P(n) PROVE FALSE
  OBVIOUS
<1>1. Bad # {}
  <2>1. n \in Nat /\ n <= n OBVIOUS
  <2> HIDE DEF P
  <2> QED BY <1>0, <2>1
<1>2. PICK m \in Bad : \A k \in Bad : m <= k
  <2> Bad \in SUBSET Nat OBVIOUS
  <2> HIDE DEF Bad
  <2> QED BY <1>1, NatMin
<1>3. m \in Nat /\ m <= n /\ ~P(m)
  OBVIOUS
<1>4. m # 0
  <2> SUFFICES ASSUME m = 0 PROVE P(m) BY <1>3
  <2>1. [i \in 1 .. m |-> ss[i]] =
          [i \in 1 .. m |-> IF i = 1 THEN ss[i]
                           ELSE [j \in 1 .. m |-> ss[j]][i - 1] \o ss[i]]
    OBVIOUS
  <2> QED BY <2>1
<1>5. P(m - 1)
  <2>1. m - 1 \in Nat /\ m - 1 <= n /\ ~(m <= m - 1)
    BY <1>3, <1>4
  <2> HIDE DEF P
  <2> QED BY <2>1, <1>2
<1>6. PICK f : f = [i \in 1 .. m - 1 |-> IF i = 1 THEN ss[i] ELSE f[i - 1] \o ss[i]]
  BY <1>5
<1> DEFINE g == [i \in 1 .. m |-> IF i < m THEN f[i] ELSE
                    IF i = 1 THEN ss[i] ELSE f[i - 1] \o ss[i]]
<1>7. \A i \in 1 .. m : g[i] = IF i = 1 THEN ss[i] ELSE g[i - 1] \o ss[i]
  <2> TAKE i \in 1 .. m
  <2>1. CASE i < m
    <3>1. i \in 1 .. m - 1 BY <2>1, <1>3
    <3>2. f[i] = IF i = 1 THEN ss[i] ELSE f[i - 1] \o ss[i]
      BY <3>1, <1>6
    <3>3. g[i] = f[i] BY <2>1
    <3>4. i # 1 => g[i - 1] = f[i - 1] BY <3>1, <1>3
    <3> QED BY <3>2, <3>3, <3>4
  <2>2. CASE ~(i < m)
    <3>1. g[i] = IF i = 1 THEN ss[i] ELSE f[i - 1] \o ss[i] BY <2>2
    <3>2. i # 1 => g[i - 1] = f[i - 1] BY <1>3
    <3> QED BY <3>1, <3>2
  <2> QED BY <2>1, <2>2
<1>8. g = [i \in 1 .. m |-> IF i = 1 THEN ss[i] ELSE g[i - 1] \o ss[i]]
  <2>1. g = [i \in 1 .. m |-> g[i]] OBVIOUS
  <2> HIDE DEF g
  <2> QED BY <1>7, <2>1
<1>9. P(m)
  <2> HIDE DEF g
  <2> QED BY <1>8
<1> QED BY <1>9, <1>3

\* Hence FlattenSeq is what its recursion says.
LEMMA Flattened ==
  ASSUME NEW S, NEW ss \in Seq(Seq(S)), Len(ss) # 0
  PROVE  \E f : Flattens(f, ss) /\ FlattenSeq(ss) = f[Len(ss)]
<1> DEFINE h == CHOOSE f : f = [i \in 1 .. Len(ss) |->
                                 IF i = 1 THEN ss[i] ELSE f[i - 1] \o ss[i]]
<1>1. \E f : f = [i \in 1 .. Len(ss) |-> IF i = 1 THEN ss[i] ELSE f[i - 1] \o ss[i]]
  <2>1. Len(ss) \in Nat /\ Len(ss) <= Len(ss) OBVIOUS
  <2> QED BY <2>1, PartlyFlattened
<1>2. h = [i \in 1 .. Len(ss) |-> IF i = 1 THEN ss[i] ELSE h[i - 1] \o ss[i]]
  BY <1>1, Zenon
<1>3. FlattenSeq(ss) = h[Len(ss)]
  BY DEF FlattenSeq
<1> HIDE DEF h
<1> QED BY <1>2, <1>3 DEF Flattens
\* Quotient and remainder determine each other.
LEMMA DivUnique ==
  ASSUME NEW d \in Nat \ {0}, NEW q \in Int, NEW r \in Nat, r < d
  PROVE  (d * q + r) \div d = q
BY SMTT(20)

\* The frames of an aligned region, in ascending order, are those that lie
\* inside it: step_by(4096) neither leaves the region nor visits a frame twice.
LEMMA FramesOfRegion ==
  ASSUME NEW r, r.start \in Nat, r.end \in Nat, r.start % PageSize = 0,
         r.end % PageSize = 0, r.start <= r.end
  PROVE  /\ RegionFrames(r) \in Seq(Nat)
         /\ \A i \in 1 .. Len(RegionFrames(r)) :
              /\ r.start <= RegionFrames(r)[i] * PageSize
              /\ (RegionFrames(r)[i] + 1) * PageSize <= r.end
              /\ \A j \in 1 .. i - 1 : RegionFrames(r)[j] < RegionFrames(r)[i]
<1> DEFINE a == r.start \div PageSize
           b == r.end \div PageSize
<1>1. /\ PageSize \in Nat \ {0} /\ a \in Nat /\ b \in Nat
      /\ r.start = PageSize * a /\ r.end = PageSize * b /\ a <= b
  BY PageAssumption
<1> HIDE DEF a, b
<1>2. (r.end - r.start + PageSize - 1) \div PageSize = b - a
  <2>1. r.end - r.start + PageSize - 1 = PageSize * (b - a) + (PageSize - 1)
    BY <1>1
  <2>2. PageSize - 1 \in Nat /\ PageSize - 1 < PageSize /\ b - a \in Int
    BY <1>1
  <2> QED BY <2>1, <2>2, <1>1, DivUnique
<1>3. \A k \in Int : Containing(r.start + (k - 1) * PageSize) = a + k - 1
  <2> TAKE k \in Int
  <2>1. r.start + (k - 1) * PageSize = PageSize * (a + k - 1) + 0
    BY <1>1
  <2>2. a + k - 1 \in Int /\ 0 \in Nat /\ 0 < PageSize
    BY <1>1
  <2> QED BY <2>1, <2>2, <1>1, DivUnique DEF Containing
<1>4. RegionFrames(r) = [k \in 1 .. b - a |-> a + k - 1]
  BY <1>2, <1>3 DEF RegionFrames
<1>5. RegionFrames(r) \in Seq(Nat) /\ Len(RegionFrames(r)) = b - a
  BY <1>4, <1>1
<1>6. ASSUME NEW i \in 1 .. b - a
      PROVE  /\ r.start <= (a + i - 1) * PageSize
             /\ ((a + i - 1) + 1) * PageSize <= r.end
  <2>1. \A x, y \in Int, p \in Nat : x <= y => p * x <= y * p
    BY SMTT(20)
  <2> QED BY <2>1, <1>1
<1>7. \A i \in 1 .. b - a : RegionFrames(r)[i] = a + i - 1
  BY <1>4
<1>8. ASSUME NEW i \in 1 .. b - a, NEW j \in 1 .. i - 1
      PROVE  RegionFrames(r)[j] < RegionFrames(r)[i]
  <2>1. j \in 1 .. b - a /\ j < i BY <1>1
  <2> QED BY <1>7, <2>1, <1>1
<1>9. ASSUME NEW i \in 1 .. b - a
      PROVE  /\ r.start <= RegionFrames(r)[i] * PageSize
             /\ (RegionFrames(r)[i] + 1) * PageSize <= r.end
  BY <1>6, <1>7
<1> QED BY <1>5, <1>8, <1>9

\* The frame lies in a region declared usable.
Inside(r, f) ==
  r.kind = "Usable" /\ r.start <= f * PageSize /\ (f + 1) * PageSize <= r.end

\* The numbers are strictly ascending.
Ascending(s) == \A i \in 1 .. Len(s) : \A j \in 1 .. i - 1 : s[j] < s[i]

\* usable_frames, for every memory map of aligned regions in order: every frame
\* it enumerates lies in a usable region, and none comes twice.
LEMMA UsableFramesRight ==
  ASSUME NEW map \in MemoryMaps
  PROVE  /\ usable_frames[map] \in Seq(Nat)
         /\ Ascending(usable_frames[map])
         /\ \A i \in 1 .. Len(usable_frames[map]) :
              \E r \in 1 .. Len(map) : Inside(map[r], usable_frames[map][i])
<1> DEFINE ss == [i \in 1 .. Len(map) |->
                    IF map[i].kind = "Usable" THEN RegionFrames(map[i]) ELSE <<>>]
<1> DEFINE Region == [start : Nat, end : Nat, kind : STRING]
<1>0. map \in Seq(Region)
  BY MemoryMapAssumption
<1>1. /\ Len(map) \in Nat
      /\ \A i \in 1 .. Len(map) : /\ map[i].start % PageSize = 0
                                  /\ map[i].end % PageSize = 0
                                  /\ map[i].start <= map[i].end
      /\ \A i, j \in 1 .. Len(map) : i < j => map[i].end <= map[j].start
  BY <1>0, MemoryMapAssumption
<1>2. \A i \in 1 .. Len(map) : map[i].start \in Nat /\ map[i].end \in Nat
  <2> TAKE i \in 1 .. Len(map)
  <2>1. map[i] \in Region
    <3> HIDE DEF Region
    <3> QED BY <1>0
  <2> QED BY <2>1
<1>3. ASSUME NEW i \in 1 .. Len(map)
      PROVE  /\ ss[i] \in Seq(Nat)
             /\ Ascending(ss[i])
             /\ \A k \in 1 .. Len(ss[i]) : Inside(map[i], ss[i][k])
  <2>1. CASE map[i].kind = "Usable"
    <3>1. ss[i] = RegionFrames(map[i]) BY <2>1
    <3>2. /\ RegionFrames(map[i]) \in Seq(Nat)
          /\ \A k \in 1 .. Len(RegionFrames(map[i])) :
              /\ map[i].start <= RegionFrames(map[i])[k] * PageSize
              /\ (RegionFrames(map[i])[k] + 1) * PageSize <= map[i].end
              /\ \A j \in 1 .. k - 1 : RegionFrames(map[i])[j] < RegionFrames(map[i])[k]
      <4> HIDE DEF ss
      <4> QED BY <1>1, <1>2, FramesOfRegion
    <3> HIDE DEF ss
    <3> QED BY <3>1, <3>2, <2>1 DEF Ascending, Inside
  <2>2. CASE map[i].kind # "Usable"
    <3>1. ss[i] = <<>> BY <2>2
    <3> HIDE DEF ss
    <3> QED BY <3>1 DEF Ascending
  <2> QED BY <2>1, <2>2
<1>4. ss \in Seq(Seq(Nat)) /\ Len(ss) = Len(map)
  <2>1. Len(map) \in Nat BY <1>1
  <2>2. \A i \in 1 .. Len(map) : ss[i] \in Seq(Nat) BY <1>3
  <2>3. ss = [i \in 1 .. Len(map) |-> ss[i]] OBVIOUS
  <2> HIDE DEF ss
  <2> QED BY <2>1, <2>2, <2>3
<1>5. usable_frames[map] = FlattenSeq(ss)
  BY DEF usable_frames
<1> HIDE DEF ss
<1>6. CASE Len(map) = 0
  <2>1. FlattenSeq(ss) = ss BY <1>4, <1>6 DEF FlattenSeq
  <2>2. ss = <<>> BY <1>4, <1>6
  <2>3. usable_frames[map] = <<>> BY <2>1, <2>2, <1>5
  <2> QED BY <2>3 DEF Ascending
<1>7. CASE Len(map) # 0
  <2>1. PICK f : Flattens(f, ss) /\ FlattenSeq(ss) = f[Len(ss)]
    BY <1>4, <1>7, Flattened
  <2>2. f[1] = ss[1]
    BY <2>1, <1>1, <1>4, <1>7 DEF Flattens
  <2>3. ASSUME NEW n \in 2 .. Len(map)
        PROVE  f[n] = f[n - 1] \o ss[n]
    <3>1. n \in 1 .. Len(ss) /\ n # 1 BY <1>1, <1>4
    <3>2. f[n] = IF n = 1 THEN ss[n] ELSE f[n - 1] \o ss[n]
      BY <3>1, <2>1 DEF Flattens
    <3> QED BY <3>1, <3>2
  <2> DEFINE Good(n) == /\ f[n] \in Seq(Nat)
                        /\ Ascending(f[n])
                        /\ \A k \in 1 .. Len(f[n]) :
                             \E r \in 1 .. n : Inside(map[r], f[n][k])
             Bad == {n \in Nat : n \in 1 .. Len(map) /\ ~Good(n)}
  <2>4. SUFFICES ASSUME ~Good(Len(map)) PROVE FALSE
    BY <2>1, <1>4, <1>5
  <2>5. PICK n \in Bad : \A k \in Bad : n <= k
    <3>1. Len(map) \in 1 .. Len(map) /\ Len(map) \in Nat BY <1>1, <1>7
    <3> HIDE DEF Good
    <3>2. Bad # {} /\ Bad \in SUBSET Nat BY <2>4, <3>1
    <3> HIDE DEF Bad
    <3> QED BY <3>2, NatMin
  <2>6. n \in 1 .. Len(map) /\ ~Good(n)
    OBVIOUS
  <2>7. CASE n = 1
    BY <2>2, <2>6, <2>7, <1>3
  <2>8. CASE n # 1
    <3>1. n \in 2 .. Len(map) /\ n - 1 \in 1 .. Len(map) /\ n - 1 \in Nat /\ ~(n <= n - 1)
      BY <2>6, <2>8, <1>1
    <3>2. Good(n - 1)
      <4> HIDE DEF Good
      <4> QED BY <3>1, <2>5
    <3>3. f[n] = f[n - 1] \o ss[n]
      BY <3>1, <2>3
    <3>4. /\ ss[n] \in Seq(Nat) /\ Ascending(ss[n])
          /\ \A k \in 1 .. Len(ss[n]) : Inside(map[n], ss[n][k])
      BY <3>1, <1>3
    <3> DEFINE u == f[n - 1]
               v == ss[n]
    <3>5. /\ u \in Seq(Nat) /\ Ascending(u)
          /\ \A k \in 1 .. Len(u) : \E r \in 1 .. n - 1 : Inside(map[r], u[k])
      BY <3>2
    <3>6. /\ v \in Seq(Nat) /\ Ascending(v)
          /\ \A k \in 1 .. Len(v) : Inside(map[n], v[k])
      BY <3>4
    <3>7. f[n] = u \o v BY <3>3
    <3> HIDE DEF u, v
    <3>8. ASSUME NEW j \in 1 .. Len(u), NEW k \in 1 .. Len(v)
          PROVE  u[j] < v[k]
      <4>1. PICK r \in 1 .. n - 1 : Inside(map[r], u[j]) BY <3>5
      <4>2. Inside(map[n], v[k]) BY <3>6
      <4>0. u \in Seq(Nat) /\ v \in Seq(Nat) BY <3>5, <3>6
      <4>3. u[j] \in Nat /\ v[k] \in Nat BY <4>0
      <4>4. map[r].end <= map[n].start /\ map[r].end \in Nat /\ map[n].start \in Nat
        <5>1. r \in 1 .. Len(map) /\ n \in 1 .. Len(map) /\ r < n BY <3>1
        <5> QED BY <5>1, <1>1, <1>2
      <4>5. (u[j] + 1) * PageSize <= v[k] * PageSize
        <5>1. (u[j] + 1) * PageSize <= map[r].end /\ map[n].start <= v[k] * PageSize
          BY <4>1, <4>2 DEF Inside
        <5>2. (u[j] + 1) * PageSize \in Int /\ v[k] * PageSize \in Int
          BY <4>3, PageAssumption
        <5> DEFINE x == (u[j] + 1) * PageSize
                   y == v[k] * PageSize
                   e == map[r].end
                   s == map[n].start
        <5>3. x \in Int /\ y \in Int /\ e \in Int /\ s \in Int /\ x <= e /\ e <= s /\ s <= y
          BY <5>1, <5>2, <4>4
        <5>4. x <= y
          <6> HIDE DEF x, y, e, s
          <6> QED BY <5>3
        <5> QED BY <5>4
      <4>6. \A x, y \in Nat, d \in Nat \ {0} : (x + 1) * d <= y * d => x < y
        BY SMTT(20)
      <4> QED BY <4>3, <4>5, <4>6, PageAssumption
    <3>9. f[n] \in Seq(Nat) /\ Len(f[n]) = Len(u) + Len(v)
      BY <3>5, <3>6, <3>7
    <3>10. /\ \A k \in 1 .. Len(u) : f[n][k] = u[k]
           /\ \A k \in 1 .. Len(f[n]) : k > Len(u) =>
                k - Len(u) \in 1 .. Len(v) /\ f[n][k] = v[k - Len(u)]
      BY <3>5, <3>6, <3>7, <3>9
    <3>11. Ascending(f[n])
      <4> SUFFICES ASSUME NEW i \in 1 .. Len(f[n]), NEW j \in 1 .. i - 1
                   PROVE  f[n][j] < f[n][i]
        BY DEF Ascending
      <4>0. Len(u) \in Nat /\ Len(v) \in Nat /\ j \in 1 .. Len(f[n]) /\ j < i
        BY <3>5, <3>6, <3>9
      <4>1. CASE i <= Len(u)
        <5>1. i \in 1 .. Len(u) /\ j \in 1 .. Len(u) BY <4>1, <4>0
        <5> QED BY <5>1, <3>10, <3>5 DEF Ascending
      <4>2. CASE i > Len(u) /\ j <= Len(u)
        <5>1. j \in 1 .. Len(u) /\ i - Len(u) \in 1 .. Len(v) BY <4>2, <4>0, <3>10
        <5> QED BY <5>1, <4>2, <3>10, <3>8
      <4>3. CASE i > Len(u) /\ j > Len(u)
        <5>1. i - Len(u) \in 1 .. Len(v) /\ j - Len(u) \in 1 .. Len(v)
          BY <4>3, <4>0, <3>10
        <5>2. j - Len(u) \in 1 .. (i - Len(u)) - 1 BY <5>1, <4>0
        <5>3. v[j - Len(u)] < v[i - Len(u)] BY <5>1, <5>2, <3>6 DEF Ascending
        <5> QED BY <5>3, <4>3, <4>0, <3>10
      <4> QED BY <4>0, <4>1, <4>2, <4>3
    <3>12. ASSUME NEW k \in 1 .. Len(f[n])
           PROVE  \E r \in 1 .. n : Inside(map[r], f[n][k])
      <4>0. Len(u) \in Nat BY <3>5
      <4>1. CASE k <= Len(u)
        <5>1. k \in 1 .. Len(u) BY <4>1, <4>0
        <5>2. PICK r \in 1 .. n - 1 : Inside(map[r], u[k]) BY <5>1, <3>5
        <5>3. r \in 1 .. n BY <3>1
        <5> QED BY <5>1, <5>2, <5>3, <3>10
      <4>2. CASE k > Len(u)
        <5>1. Inside(map[n], v[k - Len(u)]) BY <4>2, <3>10, <3>6
        <5>2. n \in 1 .. n BY <3>1
        <5> QED BY <5>1, <5>2, <4>2, <3>10
      <4> QED BY <4>0, <4>1, <4>2
    <3> QED BY <3>9, <3>11, <3>12, <2>6
  <2> QED BY <2>7, <2>8
<1> QED BY <1>6, <1>7, <1>1
-----------------------------------------------------------------------------
USE DEF memory, process

Phases == {"init_heap", "handover", "add_user_process", "user", "lock_mapper",
           "anon_allocate", "panicked"}

\* The process list holds init.
UserPhases == {"user", "lock_mapper", "anon_allocate"}

\* The types of the state.
TypeInv ==
  /\ memory_map \in MemoryMaps
  /\ phase \in Phases
  /\ todo \in Seq(Int)
  /\ frame \in Nat \cup {NoFrame}
  /\ next \in Nat
  /\ pages \in Nat
  /\ request \in Nat
  /\ blocks \subseteq [start : Nat, size : Nat]

\* The bitmap is there once the handover has made it, and the boot allocator has
\* not given away more than there is.
Allocators ==
  /\ bitmap = <<>> \/ bitmap \in [1 .. Count -> BOOLEAN]
  /\ phase \in {"init_heap", "handover"} => bitmap = <<>>
  /\ phase \in {"add_user_process"} \cup UserPhases =>
       bitmap \in [1 .. Count -> BOOLEAN]
  /\ phase # "panicked" => next <= Count

\* The frames in use.
InUse ==
  Range(mapped) \cup Range(tables) \cup (IF frame = NoFrame THEN {} ELSE {frame})

\* The frames in use are those the allocators have given away.
Accounted == InUse = GivenAway

\* Page tables, mapped pages and the frame in hand are pairwise different.
Unshared ==
  /\ IsInjective(mapped)
  /\ IsInjective(tables)
  /\ Range(mapped) \cap Range(tables) = {}
  /\ frame # NoFrame => frame \notin Range(mapped) \cup Range(tables)

\* The pages of the heap and those of the stack.
HeapPages == Range(PageRange(HeapRange[1], HeapRange[2]))
StackPages == Range(PageRange(StackRange[1], StackRange[2]))

\* What a loop has mapped of its pages, and what the earlier loops have mapped.
Done == Range(PageRange(pages, pages + request - 1)) \ Range(todo)

Backed ==
  /\ phase = "init_heap" => HeapPages \subseteq DOMAIN mapped \cup Range(todo)
  /\ phase \notin {"init_heap", "panicked"} => HeapPages \subseteq DOMAIN mapped
  /\ phase = "add_user_process" => StackPages \subseteq DOMAIN mapped \cup Range(todo)
  /\ phase \in UserPhases => StackPages \subseteq DOMAIN mapped
  /\ Requesting =>
       /\ Done \subseteq DOMAIN mapped
       /\ Done \cap FixedPages = {}
       /\ \A b \in blocks : Done \cap PagesOf(b) = {}

\* The first page after those mapped for init's requests.
Base == Containing(AnonStart)

Frontier ==
  IF Requesting
  THEN Containing(pages) + Len(PageRange(pages, pages + request - 1)) - Len(todo)
  ELSE Containing(pages)

\* The pages mapped: those of the program and its stack below Base, those of
\* the requests from Base up to Frontier, and those of the heap.
Layout ==
  phase # "panicked" =>
    /\ Base <= Frontier
    /\ Base .. Frontier - 1 \subseteq DOMAIN mapped
    /\ DOMAIN mapped \subseteq Int
    /\ \A q \in DOMAIN mapped : q < Frontier \/ q \in HeapPages
    /\ phase = "init_heap" => Range(todo) \subseteq HeapPages
    /\ phase = "add_user_process" => \A q \in Range(todo) : q < Base
    /\ Requesting => todo = [k \in 1 .. Len(todo) |-> Frontier + k - 1]

-----------------------------------------------------------------------------
\* The usable frames are pairwise different.
LEMMA FramesDistinct ==
  ASSUME memory_map \in MemoryMaps
  PROVE  /\ UsableFrames \in Seq(Nat)
         /\ Count \in Nat
         /\ \A i, j \in 1 .. Count : UsableFrames[i] = UsableFrames[j] => i = j
<1>1. UsableFrames \in Seq(Nat) /\ Ascending(UsableFrames)
  BY UsableFramesRight DEF UsableFrames
<1>2. Count \in Nat /\ Count = Len(UsableFrames)
  BY <1>1 DEF Count
<1>3. ASSUME NEW i \in 1 .. Count, NEW j \in 1 .. Count, i < j
      PROVE  UsableFrames[i] # UsableFrames[j]
  <2>1. i \in 1 .. j - 1 BY <1>3, <1>2
  <2>2. UsableFrames[i] < UsableFrames[j] BY <2>1, <1>1, <1>2 DEF Ascending
  <2>3. UsableFrames[i] \in Nat BY <1>1, <1>2
  <2> QED BY <2>2, <2>3
<1>4. \A i, j \in 1 .. Count : i < j \/ j < i \/ i = j
  BY <1>2
<1> QED BY <1>1, <1>2, <1>3, <1>4

\* GivenAway as a function of the enumeration and of the state of the two
\* allocators.
Given(u, bits, n) ==
  IF bits = <<>>
  THEN {u[i] : i \in 1 .. (IF n <= Len(u) THEN n ELSE Len(u))}
  ELSE {u[i] : i \in {j \in 1 .. Len(u) : bits[j]}}

\* Once there is a bitmap it is what counts, even if it is empty.
LEMMA GivenByBitmap ==
  ASSUME NEW u \in Seq(Nat), NEW bits \in [1 .. Len(u) -> BOOLEAN], NEW n \in Nat
  PROVE  Given(u, bits, n) = {u[i] : i \in {j \in 1 .. Len(u) : bits[j]}}
<1>1. CASE bits = <<>>
  <2>1. Len(u) = 0
    <3>1. DOMAIN bits = {} BY <1>1
    <3>2. DOMAIN bits = 1 .. Len(u) OBVIOUS
    <3>3. Len(u) # 0 => 1 \in 1 .. Len(u) OBVIOUS
    <3> QED BY <3>1, <3>2, <3>3
  <2>2. 1 .. Len(u) = {} /\ 1 .. (IF n <= Len(u) THEN n ELSE Len(u)) = {}
    BY <2>1
  <2> QED BY <2>2, <1>1 DEF Given
<1>2. CASE bits # <<>>
  BY <1>2 DEF Given
<1> QED BY <1>1, <1>2

\* allocate_frame gives a frame that was not given away before, and accounts
\* for it: before the handover as after it.
LEMMA Allocated ==
  ASSUME TypeInv, Allocators, Mapping, UNCHANGED <<memory_map, phase>>,
         NEW f, AllocateFrame(f)
  PROVE  /\ f \in Nat
         /\ f \notin GivenAway
         /\ GivenAway' = GivenAway \cup {f}
         /\ next' \in Nat
         /\ Allocators'
<1> USE DEF TypeInv
<1>1. /\ UsableFrames \in Seq(Nat)
      /\ Count \in Nat /\ Len(UsableFrames) = Count
      /\ \A i, j \in 1 .. Count : UsableFrames[i] = UsableFrames[j] => i = j
  BY FramesDistinct DEF Count
<1>2. UsableFrames' = UsableFrames /\ Count' = Count
  BY DEF UsableFrames, Count
<1>3. CASE phase = "init_heap"
  <2>1. /\ next < Count /\ f = UsableFrames[next + 1] /\ next' = next + 1
        /\ bitmap' = <<>> /\ bitmap = <<>>
    BY <1>3 DEF AllocateFrame, Allocators
  <2>2. next + 1 \in 1 .. Count /\ next \in Nat /\ next' \in Nat /\ next' <= Count
    BY <2>1, <1>1
  <2>3. GivenAway = {UsableFrames[i] : i \in 1 .. next}
    BY <2>1, <2>2, <1>1 DEF GivenAway
  <2>4. GivenAway' = {UsableFrames[i] : i \in 1 .. next + 1}
    <3>1. GivenAway' =
            {UsableFrames[i] : i \in 1 .. IF next' <= Count THEN next' ELSE Count}
      BY <2>1, <1>2 DEF GivenAway
    <3> QED BY <3>1, <2>1, <2>2
  <2>5. 1 .. next + 1 = 1 .. next \cup {next + 1}
    BY <2>2
  <2>6. \A i \in 1 .. next : i \in 1 .. Count /\ i # next + 1
    BY <2>2, <1>1
  <2>7. f \notin GivenAway
    BY <2>1, <2>2, <2>3, <2>6, <1>1
  <2>8. GivenAway' = GivenAway \cup {f}
    BY <2>1, <2>3, <2>4, <2>5
  <2>9. f \in Nat
    BY <2>1, <2>2, <1>1
  <2>10. Allocators'
    BY <2>1, <2>2, <1>2, <1>3 DEF Allocators
  <2> QED BY <2>2, <2>7, <2>8, <2>9, <2>10
<1>4. CASE phase # "init_heap"
  <2>1. bitmap \in [1 .. Count -> BOOLEAN]
    BY <1>4 DEF Mapping, Allocators, UserPhases
  <2>2. PICK i \in 1 .. Count : ~bitmap[i] /\ f = UsableFrames[i]
                               /\ bitmap' = [bitmap EXCEPT ![i] = TRUE]
    BY <1>4 DEF AllocateFrame
  <2>3. next' = next BY <1>4 DEF AllocateFrame
  <2>4. bitmap' \in [1 .. Count -> BOOLEAN]
    BY <2>1, <2>2
  <2>5. GivenAway = {UsableFrames[k] : k \in {j \in 1 .. Count : bitmap[j]}}
    <3>1. GivenAway = Given(UsableFrames, bitmap, next)
      BY DEF GivenAway, Given, Count
    <3> QED BY <3>1, <2>1, <1>1, GivenByBitmap
  <2>6. GivenAway' = {UsableFrames[k] : k \in {j \in 1 .. Count : bitmap'[j]}}
    <3>1. GivenAway' = Given(UsableFrames, bitmap', next)
      BY <1>2, <2>3 DEF GivenAway, Given, Count
    <3> QED BY <3>1, <2>4, <1>1, GivenByBitmap
  <2>7. {j \in 1 .. Count : bitmap'[j]} = {j \in 1 .. Count : bitmap[j]} \cup {i}
    BY <2>1, <2>2
  <2>8. f \notin GivenAway
    BY <2>2, <2>5, <1>1
  <2>9. GivenAway' = GivenAway \cup {f}
    BY <2>2, <2>5, <2>6, <2>7
  <2>10. f \in Nat
    BY <2>2, <1>1
  <2>11. Allocators'
    BY <2>3, <2>4, <1>2, <1>4 DEF Allocators, Mapping
  <2> QED BY <2>3, <2>8, <2>9, <2>10, <2>11
<1> QED BY <1>3, <1>4

\* allocate_frame without a frame left gives none away, though the boot
\* allocator counts on.
LEMMA NoneLeft ==
  ASSUME TypeInv, Allocators, Mapping, NoFrameLeft, UNCHANGED memory_map,
         phase' = "panicked"
  PROVE  GivenAway' = GivenAway /\ next' \in Nat /\ Allocators'
<1> USE DEF TypeInv
<1>1. Count \in Nat
  BY FramesDistinct
<1>2. UsableFrames' = UsableFrames /\ Count' = Count /\ bitmap' = bitmap
  BY DEF UsableFrames, Count, NoFrameLeft
<1>3. CASE phase = "init_heap"
  <2>1. bitmap = <<>> /\ next >= Count /\ next' = next + 1
    BY <1>3 DEF NoFrameLeft, Allocators
  <2>2. GivenAway = {UsableFrames[i] : i \in 1 .. Count}
    <3>1. (IF next <= Count THEN next ELSE Count) = Count BY <2>1, <1>1
    <3> QED BY <3>1, <2>1 DEF GivenAway
  <2>3. GivenAway' = {UsableFrames[i] : i \in 1 .. Count}
    <3>1. (IF next' <= Count THEN next' ELSE Count) = Count BY <2>1, <1>1
    <3> QED BY <3>1, <2>1, <1>2 DEF GivenAway
  <2> QED BY <2>1, <2>2, <2>3, <1>2 DEF Allocators, UserPhases
<1>4. CASE phase # "init_heap"
  <2>1. next' = next BY <1>4 DEF NoFrameLeft
  <2> QED BY <2>1, <1>2, <1>4 DEF GivenAway, Allocators, UserPhases
<1> QED BY <1>3, <1>4

\* Mapping a page adds it to the address space,
LEMMA ExtendedDomain ==
  ASSUME NEW g, NEW x, NEW y
  PROVE  DOMAIN Extend(g, x, y) = DOMAIN g \cup {x}
BY DEF Extend

\* adds its frame to those mapped,
LEMMA ExtendedRange ==
  ASSUME NEW g, NEW x, NEW y, x \notin DOMAIN g
  PROVE  Range(Extend(g, x, y)) = Range(g) \cup {y}
BY DEF Extend, Range

\* and shares no frame, if the frame was not mapped before.
LEMMA ExtendedInjective ==
  ASSUME NEW g, NEW x, NEW y, x \notin DOMAIN g, y \notin Range(g), IsInjective(g)
  PROVE  IsInjective(Extend(g, x, y))
BY DEF Extend, Range, IsInjective

\* Both allocators count right, and no frame gets a second user.
FrameInv == Allocators /\ Accounted /\ Unshared

\* Every step preserves this.  The handover does because it marks exactly the
\* frames that the boot allocator has given away.
LEMMA FrameStep ==
  ASSUME TypeInv, FrameInv, Next
  PROVE  FrameInv' /\ next' \in Nat /\ frame' \in Nat \cup {NoFrame}
<1> USE DEF TypeInv, FrameInv
<1>0. UNCHANGED memory_map BY DEF Next
<1>1. CASE TakeFrame
  <2> USE DEF TakeFrame
  <2>1. PICK f : AllocateFrame(f) /\ frame' = f BY <1>1
  <2>2. /\ f \in Nat /\ f \notin GivenAway /\ GivenAway' = GivenAway \cup {f}
        /\ next' \in Nat /\ Allocators'
    BY <1>0, <1>1, <2>1, Allocated
  <2>3. f # NoFrame BY <2>2 DEF NoFrame
  <2>4. Accounted'
    BY <1>1, <2>1, <2>2, <2>3 DEF Accounted, InUse
  <2>5. Unshared'
    BY <1>1, <2>1, <2>2 DEF Accounted, InUse, Unshared
  <2> QED BY <2>1, <2>2, <2>4, <2>5
<1>2. CASE CreateTable
  <2> USE DEF CreateTable
  <2>1. PICK f : AllocateFrame(f) /\ tables' = Extend(tables, Table(Head(todo)), f)
    BY <1>2
  <2>2. /\ f \in Nat /\ f \notin GivenAway /\ GivenAway' = GivenAway \cup {f}
        /\ next' \in Nat /\ Allocators'
    BY <1>0, <1>2, <2>1, Allocated
  <2>3. f \notin Range(mapped) /\ f \notin Range(tables) /\ f # frame
    BY <2>2, <1>2 DEF Accounted, InUse
  <2>4. Range(tables') = Range(tables) \cup {f} /\ IsInjective(tables')
    <3>1. Table(Head(todo)) \notin DOMAIN tables BY <1>2
    <3>2. IsInjective(tables) /\ f \notin Range(tables) BY <2>3 DEF Unshared
    <3>3. Range(Extend(tables, Table(Head(todo)), f)) = Range(tables) \cup {f}
      BY <3>1, ExtendedRange
    <3>4. IsInjective(Extend(tables, Table(Head(todo)), f))
      BY <3>1, <3>2, ExtendedInjective
    <3> QED BY <3>3, <3>4, <2>1
  <2>5. Accounted'
    BY <1>2, <2>2, <2>4 DEF Accounted, InUse
  <2>6. Unshared'
    BY <1>2, <2>3, <2>4 DEF Unshared
  <2> QED BY <1>2, <2>2, <2>5, <2>6
<1>3. CASE MapPage
  <2> USE DEF MapPage
  <2>1. /\ Range(mapped') = Range(mapped) \cup {frame}
        /\ IsInjective(mapped')
    <3>1. /\ Head(todo) \notin DOMAIN mapped
          /\ mapped' = Extend(mapped, Head(todo), frame)
      BY <1>3
    <3>2. IsInjective(mapped) /\ frame \notin Range(mapped) BY <1>3 DEF Unshared
    <3>3. Range(Extend(mapped, Head(todo), frame)) = Range(mapped) \cup {frame}
      BY <3>1, ExtendedRange
    <3>4. IsInjective(Extend(mapped, Head(todo), frame))
      BY <3>1, <3>2, ExtendedInjective
    <3> QED BY <3>3, <3>4, <3>1
  <2>2. GivenAway' = GivenAway
    BY <1>0, <1>3 DEF GivenAway, UsableFrames, Count
  <2>3. Accounted'
    BY <1>3, <2>1, <2>2 DEF Accounted, InUse
  <2>4. Unshared'
    BY <1>3, <2>1 DEF Unshared
  <2>5. Allocators'
    BY <1>0, <1>3 DEF Allocators, Count, UsableFrames
  <2> QED BY <1>3, <2>3, <2>4, <2>5
<1>4. CASE OutOfFrames
  <2>1. GivenAway' = GivenAway /\ next' \in Nat /\ Allocators'
    BY <1>0, <1>4, NoneLeft DEF OutOfFrames
  <2> QED BY <1>4, <2>1 DEF OutOfFrames, Accounted, InUse, Unshared
<1>5. CASE Handover
  <2> USE DEF Handover
  <2>0. /\ UsableFrames \in Seq(Nat) /\ Count \in Nat /\ Len(UsableFrames) = Count
    BY FramesDistinct DEF Count
  <2>1. bitmap = <<>> /\ next <= Count
    BY <1>5 DEF Allocators
  <2>2. UsableFrames' = UsableFrames /\ Count' = Count
    BY <1>0 DEF UsableFrames, Count
  <2>3. bitmap' \in [1 .. Count -> BOOLEAN] /\ bitmap' = Marked
    BY <1>5, <2>0 DEF Marked
  <2>4. GivenAway = {UsableFrames[i] : i \in 1 .. next}
    BY <2>0, <2>1 DEF GivenAway
  <2>5. GivenAway' = {UsableFrames[i] : i \in {j \in 1 .. Count : bitmap'[j]}}
    <3>1. GivenAway' = Given(UsableFrames, bitmap', next)
      BY <1>5, <2>2 DEF GivenAway, Given, Count
    <3>2. bitmap' \in [1 .. Len(UsableFrames) -> BOOLEAN] /\ next \in Nat
      BY <2>0, <2>3
    <3>3. Given(UsableFrames, bitmap', next)
            = {UsableFrames[i] : i \in {j \in 1 .. Len(UsableFrames) : bitmap'[j]}}
      BY <2>0, <3>2, GivenByBitmap
    <3> QED BY <3>1, <3>3, <2>0
  <2>6. {j \in 1 .. Count : bitmap'[j]} = 1 .. next
    <3>1. \A j \in 1 .. Count : bitmap'[j] <=> j <= next
      BY <2>0, <2>3 DEF Marked
    <3> QED BY <3>1, <2>0, <2>1
  <2>7. GivenAway' = GivenAway
    BY <2>4, <2>5, <2>6
  <2>8. Allocators'
    BY <1>5, <2>1, <2>2, <2>3 DEF Allocators
  <2> QED BY <1>5, <2>7, <2>8 DEF Accounted, InUse, Unshared
<1>6. ASSUME UNCHANGED <<frame, next, bitmap, tables, mapped>>,
             \/ phase' = "panicked"
             \/ phase = "init_heap" /\ phase' = "handover"
             \/ /\ phase \in {"add_user_process"} \cup UserPhases
                /\ phase' \in {"add_user_process"} \cup UserPhases
      PROVE  FrameInv'
  <2>1. GivenAway' = GivenAway
    BY <1>0, <1>6 DEF GivenAway, UsableFrames, Count
  <2>2. Allocators'
    <3>1. Count' = Count BY <1>0 DEF UsableFrames, Count
    <3> QED BY <3>1, <1>6 DEF Allocators, UserPhases
  <2> QED BY <1>6, <2>1, <2>2 DEF Accounted, InUse, Unshared
<1>7. CASE PageAlreadyMapped
  BY <1>6, <1>7 DEF PageAlreadyMapped
<1>8. CASE InitHeapDone
  BY <1>6, <1>8 DEF InitHeapDone
<1>9. CASE AddUserProcessDone
  BY <1>6, <1>9 DEF AddUserProcessDone, UserPhases
<1>10. CASE AnonAllocateDone
  BY <1>6, <1>10 DEF AnonAllocateDone, UserPhases
<1>11. ASSUME NEW size \in Sizes, NEW p \in Pointers,
              AnonAllocate(size, p) \/ EndNotAnAddress(size, p)
       PROVE  FrameInv' /\ next' \in Nat /\ frame' \in Nat \cup {NoFrame}
  BY <1>6, <1>11 DEF AnonAllocate, EndNotAnAddress, UserPhases
<1>12. CASE LockMapper
  BY <1>6, <1>12 DEF LockMapper, UserPhases
<1>13. CASE StoreFaults
  BY <1>6, <1>13 DEF StoreFaults
<1>14. CASE DropGuards
  BY <1>6, <1>14 DEF DropGuards, UserPhases
<1> QED BY <1>1, <1>2, <1>3, <1>4, <1>5, <1>7, <1>8, <1>9, <1>10, <1>11, <1>12, <1>13,
           <1>14 DEF Next, KernelStep

-----------------------------------------------------------------------------
\* The elements of a concatenation are those of its parts.
LEMMA FlattenedType ==
  ASSUME NEW S, NEW ss \in Seq(Seq(S))
  PROVE  FlattenSeq(ss) \in Seq(S)
<1>1. CASE Len(ss) = 0
  <2>1. FlattenSeq(ss) = ss BY <1>1 DEF FlattenSeq
  <2>2. ss = <<>> BY <1>1
  <2> QED BY <2>1, <2>2
<1>2. CASE Len(ss) # 0
  <2>1. PICK f : Flattens(f, ss) /\ FlattenSeq(ss) = f[Len(ss)]
    BY <1>2, Flattened
  <2> DEFINE Bad == {n \in Nat : n \in 1 .. Len(ss) /\ f[n] \notin Seq(S)}
  <2>2. SUFFICES ASSUME f[Len(ss)] \notin Seq(S) PROVE FALSE
    BY <2>1
  <2>3. PICK n \in Bad : \A k \in Bad : n <= k
    <3>1. Len(ss) \in Nat /\ Len(ss) \in 1 .. Len(ss) BY <1>2
    <3>2. Bad # {} /\ Bad \in SUBSET Nat BY <2>2, <3>1
    <3> HIDE DEF Bad
    <3> QED BY <3>2, NatMin
  <2>4. n \in 1 .. Len(ss) /\ f[n] \notin Seq(S)
    OBVIOUS
  <2>5. f[n] = IF n = 1 THEN ss[n] ELSE f[n - 1] \o ss[n]
    BY <2>1, <2>4 DEF Flattens
  <2>6. n # 1 => f[n - 1] \in Seq(S)
    <3>1. n # 1 => n - 1 \in Nat /\ n - 1 \in 1 .. Len(ss) /\ ~(n <= n - 1)
      BY <2>4
    <3> QED BY <3>1, <2>3
  <2>7. ss[n] \in Seq(S) BY <2>4
  <2> QED BY <2>4, <2>5, <2>6, <2>7
<1> QED BY <1>1, <1>2

\* The pages of an address range are consecutive.
LEMMA PagesInRange ==
  ASSUME NEW a \in Int, NEW b \in Int
  PROVE  /\ Containing(a) \in Int
         /\ Containing(b) \in Int
         /\ Len(PageRange(a, b)) =
              IF Containing(b) < Containing(a) THEN 0
              ELSE Containing(b) - Containing(a) + 1
         /\ PageRange(a, b) =
              [k \in 1 .. Len(PageRange(a, b)) |-> Containing(a) + k - 1]
         /\ PageRange(a, b) \in Seq(Int)
         /\ Range(PageRange(a, b)) = Containing(a) .. Containing(b)
<1>1. Containing(a) \in Int /\ Containing(b) \in Int
  BY PageAssumption DEF Containing
<1> DEFINE p == Containing(a)
           q == Containing(b)
           n == IF q < p THEN 0 ELSE q - p + 1
<1>2. p \in Int /\ q \in Int /\ n \in Nat BY <1>1
<1>3. PageRange(a, b) = [k \in 1 .. q - p + 1 |-> p + k - 1]
  BY DEF PageRange
<1> HIDE DEF p, q
<1>4. 1 .. q - p + 1 = 1 .. n BY <1>2
<1>5. PageRange(a, b) = [k \in 1 .. n |-> p + k - 1] BY <1>3, <1>4
<1> HIDE DEF n
<1>6. PageRange(a, b) \in Seq(Int) /\ Len(PageRange(a, b)) = n
  BY <1>2, <1>5
<1>7. Range(PageRange(a, b)) = {p + k - 1 : k \in 1 .. n}
  BY <1>5 DEF Range
<1>8. {p + k - 1 : k \in 1 .. n} = p .. q
  <2>1. ASSUME NEW x \in p .. q PROVE \E k \in 1 .. n : x = p + k - 1
    <3>1. x - p + 1 \in 1 .. n BY <1>2 DEF n
    <3>2. x = p + (x - p + 1) - 1 BY <1>2
    <3> QED BY <3>1, <3>2
  <2>2. ASSUME NEW k \in 1 .. n PROVE p + k - 1 \in p .. q
    BY <1>2 DEF n
  <2> QED BY <2>1, <2>2
<1> QED BY <1>1, <1>5, <1>6, <1>7, <1>8 DEF n, p, q

\* The pages left to map: the next one and the rest.
LEMMA RangeHeadTail ==
  ASSUME NEW S, NEW s \in Seq(S), s # <<>>
  PROVE  Range(s) = {Head(s)} \cup Range(Tail(s))
<1>1. /\ DOMAIN s = 1 .. Len(s) /\ Len(s) \in Nat \ {0} /\ Head(s) = s[1]
      /\ Tail(s) \in Seq(S) /\ Len(Tail(s)) = Len(s) - 1
      /\ DOMAIN Tail(s) = 1 .. Len(s) - 1
      /\ \A i \in 1 .. Len(s) - 1 : Tail(s)[i] = s[i + 1]
  OBVIOUS
<1>2. ASSUME NEW i \in 1 .. Len(s) PROVE s[i] \in {Head(s)} \cup Range(Tail(s))
  <2>1. CASE i = 1 BY <2>1, <1>1
  <2>2. CASE i # 1
    <3>1. i - 1 \in 1 .. Len(s) - 1 /\ (i - 1) + 1 = i BY <2>2, <1>1
    <3>2. s[i] = Tail(s)[i - 1] BY <3>1, <1>1
    <3> QED BY <3>1, <3>2, <1>1 DEF Range
  <2> QED BY <2>1, <2>2
<1>3. ASSUME NEW i \in 1 .. Len(s) - 1 PROVE Tail(s)[i] \in Range(s)
  <2>1. i + 1 \in 1 .. Len(s) BY <1>1
  <2> QED BY <2>1, <1>1 DEF Range
<1>4. Head(s) \in Range(s)
  BY <1>1 DEF Range
<1> QED BY <1>1, <1>2, <1>3, <1>4 DEF Range

\* The same by position.
LEMMA HeadAndTail ==
  ASSUME NEW s \in Seq(Int), s # <<>>
  PROVE  /\ Head(s) \in Int
         /\ Head(s) = s[1]
         /\ Len(s) \in Nat \ {0}
         /\ Len(Tail(s)) = Len(s) - 1
         /\ \A i \in 1 .. Len(s) - 1 : Tail(s)[i] = s[i + 1]
         /\ Tail(s) = [i \in 1 .. Len(s) - 1 |-> Tail(s)[i]]
<1>1. /\ Len(s) \in Nat \ {0} /\ Head(s) = s[1] /\ Tail(s) \in Seq(Int)
      /\ Len(Tail(s)) = Len(s) - 1
      /\ \A i \in 1 .. Len(s) - 1 : Tail(s)[i] = s[i + 1]
  OBVIOUS
<1>2. s[1] \in Int BY <1>1
<1>3. Tail(s) = [i \in 1 .. Len(s) - 1 |-> Tail(s)[i]]
  <2> DEFINE t == Tail(s)
  <2>1. t \in Seq(Int) /\ Len(t) = Len(s) - 1 BY <1>1
  <2> HIDE DEF t
  <2>2. t = [i \in 1 .. Len(t) |-> t[i]] BY <2>1
  <2>3. t = [i \in 1 .. Len(s) - 1 |-> t[i]] BY <2>1, <2>2
  <2> QED BY <2>3 DEF t
<1> QED BY <1>1, <1>2, <1>3

\* The pages of the stack come after those of the program.
LEMMA RangeAppended ==
  ASSUME NEW S, NEW s \in Seq(S), NEW t \in Seq(S)
  PROVE  s \o t \in Seq(S) /\ Range(t) \subseteq Range(s \o t)
<1>1. /\ s \o t \in Seq(S) /\ DOMAIN (s \o t) = 1 .. Len(s) + Len(t)
      /\ DOMAIN t = 1 .. Len(t) /\ Len(s) \in Nat /\ Len(t) \in Nat
  OBVIOUS
<1>2. ASSUME NEW i \in 1 .. Len(t) PROVE t[i] \in Range(s \o t)
  <2>1. Len(s) + i \in 1 .. Len(s) + Len(t) BY <1>1
  <2>2. (s \o t)[Len(s) + i] = t[i] BY <1>1
  <2> QED BY <1>1, <2>1, <2>2 DEF Range
<1> QED BY <1>1, <1>2 DEF Range

\* The pages of a program's segments, in the order of its headers.
ProgramPages(p) == FlattenSeq([i \in 1 .. Len(p) |-> PageRange(p[i][1], p[i][2])])

\* They lie where the segments lie.
LEMMA ProgramPagesType ==
  ASSUME NEW p \in Programs, NEW S \in SUBSET Int,
         \A i \in 1 .. Len(p) : Range(PageRange(p[i][1], p[i][2])) \subseteq S
  PROVE  ProgramPages(p) \in Seq(S)
<1> DEFINE ss == [i \in 1 .. Len(p) |-> PageRange(p[i][1], p[i][2])]
<1>1. p \in Seq(Nat \X Nat) BY AddressAssumption
<1>2. ASSUME NEW i \in 1 .. Len(p) PROVE ss[i] \in Seq(S)
  <2>1. p[i] \in Nat \X Nat BY <1>1
  <2>2. p[i][1] \in Int /\ p[i][2] \in Int BY <2>1
  <2> DEFINE r == PageRange(p[i][1], p[i][2])
  <2>3. r \in Seq(Int) /\ Range(r) \subseteq S
    BY <2>2, PagesInRange
  <2>4. ss[i] = r OBVIOUS
  <2> HIDE DEF r, ss
  <2>5. Len(r) \in Nat /\ DOMAIN r = 1 .. Len(r) /\ r = [k \in 1 .. Len(r) |-> r[k]]
    BY <2>3
  <2>6. \A k \in 1 .. Len(r) : r[k] \in S BY <2>3, <2>5 DEF Range
  <2> QED BY <2>4, <2>5, <2>6
<1>3. ss \in Seq(Seq(S))
  <2>1. Len(p) \in Nat BY <1>1
  <2>2. ss = [i \in 1 .. Len(p) |-> ss[i]] OBVIOUS
  <2> HIDE DEF ss
  <2> QED BY <2>1, <2>2, <1>2
<1>4. ProgramPages(p) = FlattenSeq(ss) BY DEF ProgramPages
<1> HIDE DEF ss
<1> QED BY <1>3, <1>4, FlattenedType

\* They are pages.
LEMMA ProgramPagesInt ==
  ASSUME NEW p \in Programs
  PROVE  ProgramPages(p) \in Seq(Int)
<1>1. p \in Seq(Nat \X Nat) BY AddressAssumption
<1>2. ASSUME NEW i \in 1 .. Len(p)
      PROVE  Range(PageRange(p[i][1], p[i][2])) \subseteq Int
  <2>1. p[i] \in Nat \X Nat BY <1>1
  <2>2. p[i][1] \in Int /\ p[i][2] \in Int BY <2>1
  <2>3. /\ Containing(p[i][1]) \in Int /\ Containing(p[i][2]) \in Int
        /\ Range(PageRange(p[i][1], p[i][2])) =
             Containing(p[i][1]) .. Containing(p[i][2])
    BY <2>2, PagesInRange
  <2> QED BY <2>3
<1>3. Int \in SUBSET Int OBVIOUS
<1> QED BY <1>2, <1>3, ProgramPagesType

\* So are those of the heap and the stack.
LEMMA FixedPagesType ==
  /\ PageRange(HeapRange[1], HeapRange[2]) \in Seq(Int)
  /\ PageRange(StackRange[1], StackRange[2]) \in Seq(Int)
<1>1. /\ HeapRange[1] \in Int /\ HeapRange[2] \in Int
      /\ StackRange[1] \in Int /\ StackRange[2] \in Int
  BY AddressAssumption
<1> QED BY <1>1, PagesInRange

\* Every step preserves the types.
LEMMA TypeStep ==
  ASSUME TypeInv, FrameInv, Next
  PROVE  TypeInv'
<1> USE DEF TypeInv, Phases
<1>1. memory_map' \in MemoryMaps /\ next' \in Nat /\ frame' \in Nat \cup {NoFrame}
  BY FrameStep DEF Next
<1>2. CASE TakeFrame BY <1>1, <1>2 DEF TakeFrame
<1>3. CASE CreateTable BY <1>1, <1>3 DEF CreateTable
<1>4. CASE MapPage
  <2>1. todo' \in Seq(Int) BY <1>4 DEF MapPage, Mapping
  <2> QED BY <1>1, <1>4, <2>1 DEF MapPage
<1>5. CASE OutOfFrames BY <1>1, <1>5 DEF OutOfFrames
<1>6. CASE PageAlreadyMapped BY <1>1, <1>6 DEF PageAlreadyMapped
<1>7. CASE InitHeapDone BY <1>1, <1>7 DEF InitHeapDone
<1>8. CASE Handover
  <2>1. PICK p \in Programs :
          todo' = ProgramPages(p) \o PageRange(StackRange[1], StackRange[2])
    BY <1>8 DEF Handover, ProgramPages
  <2>3. todo' \in Seq(Int)
    BY <2>1, ProgramPagesInt, FixedPagesType, RangeAppended
  <2> QED BY <1>1, <1>8, <2>3 DEF Handover
<1>9. CASE AddUserProcessDone BY <1>1, <1>9 DEF AddUserProcessDone
<1>10. CASE AnonAllocateDone
  <2> DEFINE r == PageRange(pages, pages + request - 1)
  <2>1. pages \in Int /\ pages + request - 1 \in Int OBVIOUS
  <2>2. Len(r) \in Nat BY <2>1, PagesInRange
  <2>3. Advance \in Nat BY <2>2, PageAssumption DEF Advance
  <2> QED BY <1>1, <1>10, <2>3 DEF AnonAllocateDone
<1>11. ASSUME NEW size \in Sizes, NEW p \in Pointers,
              AnonAllocate(size, p) \/ EndNotAnAddress(size, p)
       PROVE  TypeInv'
  <2>2. size \in Nat BY AddressAssumption
  <2>3. pages \in Int /\ pages + size - 1 \in Int BY <2>2
  <2>4. PageRange(pages, pages + size - 1) \in Seq(Int) BY <2>3, PagesInRange
  <2> QED BY <1>1, <1>11, <2>2, <2>4 DEF AnonAllocate, EndNotAnAddress
<1>12. CASE LockMapper BY <1>1, <1>12 DEF LockMapper
<1>13. CASE StoreFaults BY <1>1, <1>13 DEF StoreFaults
<1>14. CASE DropGuards BY <1>1, <1>14 DEF DropGuards
<1> QED BY <1>2, <1>3, <1>4, <1>5, <1>6, <1>7, <1>8, <1>9, <1>10, <1>11, <1>12, <1>13,
           <1>14 DEF Next, KernelStep

\* What the loops have mapped, and the memory given to init.
BlockInv == Backed /\ AnonBlocksBacked

\* Every step preserves this: a page is mapped for a request only if it is not
\* mapped yet, and whatever is the heap's, the stack's or another request's is
\* mapped.
LEMMA BlockStep ==
  ASSUME TypeInv, BlockInv, Next
  PROVE  BlockInv'
<1> USE DEF BlockInv
<1> HIDE DEF PagesOf, FixedPages, HeapPages, StackPages
<1>1. CASE TakeFrame
  BY <1>1 DEF TakeFrame, Backed, AnonBlocksBacked, Done, Requesting
<1>2. CASE CreateTable
  BY <1>2 DEF CreateTable, Backed, AnonBlocksBacked, Done, Requesting
<1>3. CASE MapPage
  <2>1. /\ DOMAIN mapped' = DOMAIN mapped \cup {Head(todo)}
        /\ Head(todo) \notin DOMAIN mapped
        /\ todo # <<>> /\ todo' = Tail(todo)
        /\ UNCHANGED <<phase, pages, request, blocks>>
    <3>1. DOMAIN Extend(mapped, Head(todo), frame) = DOMAIN mapped \cup {Head(todo)}
      BY ExtendedDomain
    <3> QED BY <1>3, <3>1 DEF MapPage, Mapping
  <2>2. Range(todo) = {Head(todo)} \cup Range(todo')
    BY <2>1, RangeHeadTail DEF TypeInv
  <2>3. AnonBlocksBacked'
    BY <2>1 DEF AnonBlocksBacked
  <2>4. Done' \subseteq Done \cup {Head(todo)}
    BY <2>1, <2>2 DEF Done
  <2>5. Requesting =>
          /\ Head(todo) \notin FixedPages
          /\ \A b \in blocks : Head(todo) \notin PagesOf(b)
    BY <2>1 DEF Backed, AnonBlocksBacked, FixedPages, HeapPages, StackPages,
                Requesting, UserPhases
  <2>6. Backed'
    BY <2>1, <2>2, <2>4, <2>5 DEF Backed, Requesting
  <2> QED BY <2>3, <2>6
<1>4. CASE OutOfFrames
  BY <1>4 DEF OutOfFrames, Backed, AnonBlocksBacked,
     Requesting, UserPhases
<1>5. CASE PageAlreadyMapped
  BY <1>5 DEF PageAlreadyMapped, Backed, AnonBlocksBacked,
     Requesting, UserPhases
<1>6. Range(<<>>) = {}
  BY DEF Range
<1>7. CASE InitHeapDone
  BY <1>6, <1>7 DEF InitHeapDone, Backed, AnonBlocksBacked,
     Requesting, UserPhases
<1>8. CASE Handover
  <2>1. PICK p \in Programs :
          todo' = ProgramPages(p) \o PageRange(StackRange[1], StackRange[2])
    BY <1>8 DEF Handover, ProgramPages
  <2>2. StackPages \subseteq Range(todo')
    BY <2>1, ProgramPagesInt, FixedPagesType, RangeAppended DEF StackPages
  <2> QED BY <1>8, <2>2 DEF Handover, Backed, AnonBlocksBacked,
     Requesting, UserPhases
<1>9. CASE AddUserProcessDone
  BY <1>6, <1>9 DEF AddUserProcessDone, Backed, AnonBlocksBacked,
     Requesting, UserPhases
<1>10. CASE AnonAllocateDone
  <2> DEFINE b == [start |-> pages, size |-> request]
  <2>1. Done = PagesOf(b)
    BY <1>6, <1>10 DEF AnonAllocateDone, Done, PagesOf
  <2>2. /\ phase = "anon_allocate" /\ phase' = "user" /\ mapped' = mapped
        /\ blocks' = blocks \cup {b}
    BY <1>10 DEF AnonAllocateDone
  <2> HIDE DEF b
  <2>3. /\ PagesOf(b) \subseteq DOMAIN mapped /\ PagesOf(b) \cap FixedPages = {}
        /\ \A c \in blocks : PagesOf(b) \cap PagesOf(c) = {}
    BY <2>1, <2>2 DEF Backed, Requesting
  <2>4. AnonBlocksBacked'
    BY <2>2, <2>3 DEF AnonBlocksBacked
  <2>5. Backed'
    BY <2>2 DEF Backed, Requesting, UserPhases
  <2> QED BY <2>4, <2>5
<1>11. ASSUME NEW size \in Sizes, NEW p \in Pointers, AnonAllocate(size, p)
       PROVE  BlockInv'
  <2>2. Done' = {}
    BY <1>11 DEF AnonAllocate, Done
  <2> QED BY <1>11, <2>2 DEF AnonAllocate, Backed, AnonBlocksBacked, UserPhases
<1>12. ASSUME NEW size \in Sizes, NEW p \in Pointers, EndNotAnAddress(size, p)
       PROVE  BlockInv'
  BY <1>12 DEF EndNotAnAddress, Backed, AnonBlocksBacked, Requesting, UserPhases
<1>13. CASE LockMapper
  BY <1>13 DEF LockMapper, Backed, AnonBlocksBacked, Done, Requesting, UserPhases
<1>14. CASE StoreFaults
  BY <1>14 DEF StoreFaults, Backed, AnonBlocksBacked, Requesting, UserPhases
<1>15. CASE DropGuards
  BY <1>15 DEF DropGuards, Backed, AnonBlocksBacked, Requesting
<1> QED BY <1>1, <1>2, <1>3, <1>4, <1>5, <1>7, <1>8, <1>9, <1>10, <1>11, <1>12, <1>13,
           <1>14, <1>15 DEF Next, KernelStep

\* The inductive invariant.  NoFrameShared and ExactAccounting need each other
\* (a frame that is free and in use would be given away again);
\* AnonBlocksBacked needs to know what the loops before the request have
\* mapped, and what the request's own has.
IInv == TypeInv /\ FrameInv /\ BlockInv

\* The invariant holds in every reachable state.
THEOREM Invariance == Spec => []IInv
<1> USE DEF IInv
<1>1. Init => IInv
  <2> SUFFICES ASSUME Init PROVE IInv OBVIOUS
  <2> USE DEF Init
  <2>0. UsableFrames \in Seq(Nat) /\ Count \in Nat BY FramesDistinct
  <2>1. TypeInv
    BY FixedPagesType, AddressAssumption DEF TypeInv, Phases
  <2>2. Allocators
    BY <2>0 DEF Allocators, UserPhases
  <2>3. GivenAway = {} /\ InUse = {}
    <3>1. Range(<<>>) = {} BY DEF Range
    <3>2. GivenAway = {UsableFrames[i] : i \in 1 .. 0} BY <2>0 DEF GivenAway
    <3>3. 1 .. 0 = {} OBVIOUS
    <3> QED BY <3>1, <3>2, <3>3 DEF InUse
  <2>4. Unshared
    BY DEF Unshared, Range, IsInjective
  <2>5. BlockInv
    BY DEF BlockInv, Backed, AnonBlocksBacked, HeapPages, Requesting, UserPhases
  <2> QED BY <2>1, <2>2, <2>3, <2>4, <2>5 DEF FrameInv, Accounted
<1>2. IInv /\ [Next]_vars => IInv'
  <2> SUFFICES ASSUME IInv, [Next]_vars PROVE IInv' OBVIOUS
  <2>1. CASE Next
    BY <2>1, TypeStep, FrameStep, BlockStep
  <2>2. CASE UNCHANGED vars
    <3> USE <2>2 DEF vars
    <3>1. TypeInv' BY DEF TypeInv
    <3>2. UsableFrames' = UsableFrames /\ Count' = Count BY DEF UsableFrames, Count
    <3>3. Allocators' /\ Unshared' BY <3>2 DEF FrameInv, Allocators, Unshared
    <3>4. Accounted' BY <3>2 DEF FrameInv, Accounted, InUse, GivenAway
    <3>5. BlockInv' BY DEF BlockInv, Backed, Done, AnonBlocksBacked, Requesting
    <3> QED BY <3>1, <3>3, <3>4, <3>5 DEF FrameInv
  <2> QED BY <2>1, <2>2
<1> QED BY <1>1, <1>2, PTL DEF Spec

\* Only usable frames are given away.
LEMMA GivenAwayUsable ==
  ASSUME TypeInv, Allocators
  PROVE  GivenAway \subseteq {UsableFrames[i] : i \in 1 .. Count}
<1>1. Count \in Nat /\ next \in Nat BY FramesDistinct DEF TypeInv
<1>2. 1 .. (IF next <= Count THEN next ELSE Count) \subseteq 1 .. Count BY <1>1
<1> QED BY <1>2 DEF GivenAway

\* The frames of Uses are those in use.
LEMMA FramesUsed == {u[3] : u \in Uses} = InUse
<1>1. ASSUME NEW u \in Uses PROVE u[3] \in InUse
  <2>1. CASE \E p \in DOMAIN mapped : u = <<"page", p, mapped[p]>>
    <3>1. PICK p \in DOMAIN mapped : u = <<"page", p, mapped[p]>> BY <2>1
    <3>2. u[3] = mapped[p] BY <3>1
    <3> QED BY <3>2 DEF InUse, Range
  <2>2. CASE \E t \in DOMAIN tables : u = <<"table", t, tables[t]>>
    <3>1. PICK t \in DOMAIN tables : u = <<"table", t, tables[t]>> BY <2>2
    <3>2. u[3] = tables[t] BY <3>1
    <3> QED BY <3>2 DEF InUse, Range
  <2>3. CASE frame # NoFrame /\ u = <<"in hand", 0, frame>>
    <3>1. u[3] = frame BY <2>3
    <3> QED BY <3>1, <2>3 DEF InUse
  <2> QED BY <2>1, <2>2, <2>3 DEF Uses
<1>2. ASSUME NEW f \in InUse PROVE \E u \in Uses : u[3] = f
  <2>1. CASE f \in Range(mapped)
    <3>1. PICK p \in DOMAIN mapped : f = mapped[p] BY <2>1 DEF Range
    <3>2. <<"page", p, mapped[p]>> \in Uses BY DEF Uses
    <3> QED BY <3>1, <3>2
  <2>2. CASE f \in Range(tables)
    <3>1. PICK t \in DOMAIN tables : f = tables[t] BY <2>2 DEF Range
    <3>2. <<"table", t, tables[t]>> \in Uses BY DEF Uses
    <3> QED BY <3>1, <3>2
  <2>3. CASE frame # NoFrame /\ f = frame
    <3>1. <<"in hand", 0, frame>> \in Uses BY <2>3 DEF Uses
    <3> QED BY <3>1, <2>3
  <2> QED BY <2>1, <2>2, <2>3 DEF InUse
<1> QED BY <1>1, <1>2

\* The invariant implies NoFrameShared.
LEMMA NotShared ==
  ASSUME TypeInv, FrameInv
  PROVE  NoFrameShared
<1> USE DEF FrameInv
<1>1. ASSUME NEW u \in Uses, NEW v \in Uses, u[3] = v[3]
      PROVE  u = v
  <2> DEFINE P(w) == \E p \in DOMAIN mapped : w = <<"page", p, mapped[p]>>
             T(w) == \E t \in DOMAIN tables : w = <<"table", t, tables[t]>>
             H(w) == frame # NoFrame /\ w = <<"in hand", 0, frame>>
  <2>1. \A w \in Uses : P(w) \/ T(w) \/ H(w)
    BY DEF Uses
  <2>2. /\ \A w : P(w) => w[3] \in Range(mapped)
        /\ \A w : T(w) => w[3] \in Range(tables)
        /\ \A w : H(w) => w[3] = frame /\ frame # NoFrame
    <3>1. ASSUME NEW w, P(w) PROVE w[3] \in Range(mapped)
      <4>1. PICK p \in DOMAIN mapped : w = <<"page", p, mapped[p]>> BY <3>1
      <4>2. w[3] = mapped[p] BY <4>1
      <4> QED BY <4>2 DEF Range
    <3>2. ASSUME NEW w, T(w) PROVE w[3] \in Range(tables)
      <4>1. PICK t \in DOMAIN tables : w = <<"table", t, tables[t]>> BY <3>2
      <4>2. w[3] = tables[t] BY <4>1
      <4> QED BY <4>2 DEF Range
    <3>3. ASSUME NEW w, H(w) PROVE w[3] = frame /\ frame # NoFrame
      BY <3>3
    <3> HIDE DEF P, T, H
    <3> QED BY <3>1, <3>2, <3>3
  <2>3. CASE P(u) /\ P(v)
    BY <2>3, <1>1 DEF Unshared, IsInjective
  <2>4. CASE T(u) /\ T(v)
    BY <2>4, <1>1 DEF Unshared, IsInjective
  <2>5. CASE H(u) /\ H(v)
    BY <2>5
  <2> HIDE DEF P, T, H
  <2> QED BY <1>1, <2>1, <2>2, <2>3, <2>4, <2>5 DEF Unshared
<1>2. ASSUME NEW u \in Uses
      PROVE  \E i \in 1 .. Len(memory_map) : Inside(memory_map[i], u[3])
  <2>1. u[3] \in GivenAway BY FramesUsed DEF Accounted
  <2>2. PICK k \in 1 .. Count : u[3] = UsableFrames[k] BY <2>1, GivenAwayUsable
  <2>3. \E i \in 1 .. Len(memory_map) : Inside(memory_map[i], UsableFrames[k])
    BY UsableFramesRight DEF UsableFrames, Count, TypeInv
  <2> QED BY <2>2, <2>3
<1> QED BY <1>1, <1>2 DEF NoFrameShared, Inside

\* No physical frame ever has two users, among the pages and the page tables
\* mapped by kernel_main, add_user_process and anon_allocate_syscall, whichever
\* allocator it came from; and each lies in usable memory.
THEOREM FramesNotShared == Spec => []NoFrameShared
<1>1. IInv => NoFrameShared
  BY NotShared DEF IInv
<1> QED BY <1>1, Invariance, PTL

\* The frames both allocators count as given away are exactly those in use,
\* across the handover from BootInfoFrameAllocator to BitmapAllocator too,
\* which never marks a frame beyond the bitmap's end.
THEOREM FramesAccounted == Spec => []ExactAccounting
<1>1. IInv => ExactAccounting
  BY FramesUsed DEF IInv, FrameInv, Accounted, Allocators, ExactAccounting
<1> QED BY <1>1, Invariance, PTL

\* All memory that anon_allocate_syscall has ever returned is mapped, and
\* shared neither with the heap, nor the stack, nor another request.
THEOREM BlocksBacked == Spec => []AnonBlocksBacked
<1>1. IInv => AnonBlocksBacked
  BY DEF IInv, BlockInv
<1> QED BY <1>1, Invariance, PTL

-----------------------------------------------------------------------------
\* Moving on by whole pages moves on by as many pages.
LEMMA DivShift ==
  ASSUME NEW d \in Nat \ {0}, NEW x \in Nat, NEW n \in Nat
  PROVE  (x + d * n) \div d = (x \div d) + n
<1> DEFINE q == x \div d
           r == x % d
<1>1. q \in Int /\ r \in Nat /\ r < d /\ x = d * q + r
  OBVIOUS
<1> HIDE DEF q, r
<1>2. x + d * n = d * (q + n) + r BY <1>1
<1>3. q + n \in Int BY <1>1
<1>4. (x + d * n) \div d = q + n BY <1>1, <1>2, <1>3, DivUnique
<1> QED BY <1>4 DEF q

\* Every step preserves the layout of the address space.
LEMMA LayoutStep ==
  ASSUME TypeInv, TypeInv', Layout, Next
  PROVE  Layout'
<1>0. Base \in Int /\ Containing(pages) \in Int /\ Frontier \in Int
  <2>1. AnonStart \in Int /\ pages \in Int /\ pages + request - 1 \in Int
    BY AddressAssumption DEF TypeInv
  <2>2. Base \in Int /\ Containing(pages) \in Int BY <2>1, PagesInRange DEF Base
  <2>3. PageRange(pages, pages + request - 1) \in Seq(Int) BY <2>1, PagesInRange
  <2>4. Len(PageRange(pages, pages + request - 1)) \in Nat /\ Len(todo) \in Nat
    BY <2>3 DEF TypeInv
  <2> QED BY <2>2, <2>4 DEF Frontier
<1>1. ASSUME UNCHANGED <<phase, todo, mapped, pages, request>>
      PROVE  Layout'
  <2>1. Frontier' = Frontier BY <1>1 DEF Frontier, Requesting
  <2> QED BY <1>1, <2>1 DEF Layout, Requesting
<1>2. CASE TakeFrame BY <1>1, <1>2 DEF TakeFrame
<1>3. CASE CreateTable BY <1>1, <1>3 DEF CreateTable
<1>4. CASE MapPage
  <2>1. /\ DOMAIN mapped' = DOMAIN mapped \cup {Head(todo)}
        /\ todo # <<>> /\ todo' = Tail(todo)
        /\ UNCHANGED <<phase, pages, request>>
        /\ phase \in {"init_heap", "add_user_process", "anon_allocate"}
    <3>1. DOMAIN Extend(mapped, Head(todo), frame) = DOMAIN mapped \cup {Head(todo)}
      BY ExtendedDomain
    <3> QED BY <1>4, <3>1 DEF MapPage, Mapping
  <2>2. Range(todo) = {Head(todo)} \cup Range(todo')
    BY <2>1, RangeHeadTail DEF TypeInv
  <2>3. /\ Head(todo) \in Int /\ Head(todo) = todo[1] /\ Len(todo) \in Nat \ {0}
        /\ Len(todo') = Len(todo) - 1
        /\ \A i \in 1 .. Len(todo) - 1 : todo'[i] = todo[i + 1]
        /\ todo' = [i \in 1 .. Len(todo) - 1 |-> todo'[i]]
    <3>1. todo \in Seq(Int) BY DEF TypeInv
    <3> QED BY <2>1, <3>1, HeadAndTail
  <2>4. CASE phase # "anon_allocate"
    <3>1. Frontier' = Frontier BY <2>1, <2>4 DEF Frontier, Requesting
    <3>2. Head(todo) \in HeapPages \/ Head(todo) < Frontier
      <4>1. CASE phase = "init_heap" BY <4>1, <2>2 DEF Layout
      <4>2. CASE phase = "add_user_process"
        <5>1. Head(todo) < Base /\ Base <= Frontier BY <4>2, <2>2 DEF Layout
        <5> QED BY <5>1, <2>3, <1>0
      <4> QED BY <4>1, <4>2, <2>1, <2>4
    <3> QED BY <2>1, <2>2, <2>3, <2>4, <3>1, <3>2 DEF Layout, Requesting
  <2>5. CASE phase = "anon_allocate"
    <3>1. Frontier' = Frontier + 1
      <4>1. pages \in Int /\ pages + request - 1 \in Int BY DEF TypeInv
      <4>2. Len(PageRange(pages, pages + request - 1)) \in Int
        BY <4>1, PagesInRange
      <4> QED BY <4>2, <2>1, <2>3, <2>5, <1>0 DEF Frontier, Requesting
    <3>2. \A k \in 1 .. Len(todo) : todo[k] = Frontier + k - 1
      BY <2>5 DEF Layout, Requesting
    <3>3. Head(todo) = Frontier
      BY <3>2, <2>3, <1>0
    <3>4. ASSUME NEW k \in 1 .. Len(todo') PROVE todo'[k] = Frontier' + k - 1
      <4>1. k + 1 \in 1 .. Len(todo) BY <2>3
      <4> QED BY <4>1, <3>1, <3>2, <2>3, <1>0
    <3>5. todo' = [k \in 1 .. Len(todo') |-> Frontier' + k - 1]
      <4>1. todo' = [k \in 1 .. Len(todo') |-> todo'[k]] BY <2>3
      <4> QED BY <3>4, <4>1
    <3>6. Base <= Frontier' /\ Base .. Frontier' - 1 \subseteq DOMAIN mapped'
      <4>1. Base <= Frontier /\ Base .. Frontier - 1 \subseteq DOMAIN mapped
        BY <2>5 DEF Layout
      <4>2. Base .. Frontier' - 1 \subseteq (Base .. Frontier - 1) \cup {Frontier}
        BY <3>1, <1>0
      <4> QED BY <4>1, <4>2, <3>1, <3>3, <2>1, <1>0
    <3>7. /\ DOMAIN mapped' \subseteq Int
          /\ \A q \in DOMAIN mapped' : q < Frontier' \/ q \in HeapPages
      <4>1. /\ DOMAIN mapped \subseteq Int
            /\ \A q \in DOMAIN mapped : q < Frontier \/ q \in HeapPages
        BY <2>5 DEF Layout
      <4> QED BY <4>1, <3>1, <3>3, <2>1, <1>0
    <3> QED BY <2>1, <2>5, <3>5, <3>6, <3>7 DEF Layout, Requesting
  <2> QED BY <2>4, <2>5
<1>5. CASE OutOfFrames BY <1>5 DEF OutOfFrames, Layout
<1>6. CASE PageAlreadyMapped BY <1>6 DEF PageAlreadyMapped, Layout
<1>7. ASSUME phase \notin {"lock_mapper", "anon_allocate", "panicked"},
             phase' \in {"handover", "add_user_process", "user"},
             UNCHANGED <<mapped, pages>>,
             phase' = "add_user_process" => \A q \in Range(todo') : q < Base
      PROVE  Layout'
  <2>1. Frontier' = Frontier BY <1>7 DEF Frontier, Requesting
  <2> QED BY <2>1, <1>7 DEF Layout, Requesting
<1>8. CASE InitHeapDone BY <1>7, <1>8 DEF InitHeapDone
<1>9. CASE Handover
  <2> DEFINE Low == {q \in Int : q < Base}
  <2>1. PICK p \in Programs :
          todo' = ProgramPages(p) \o PageRange(StackRange[1], StackRange[2])
    BY <1>9 DEF Handover, ProgramPages
  <2>2. ASSUME NEW a \in Nat, NEW b \in Nat, Containing(b) < Base
        PROVE  PageRange(a, b) \in Seq(Low) /\ Range(PageRange(a, b)) \subseteq Low
    <3>0. a \in Int /\ b \in Int OBVIOUS
    <3>1. /\ Containing(a) \in Int /\ Containing(b) \in Int
          /\ Range(PageRange(a, b)) = Containing(a) .. Containing(b)
          /\ PageRange(a, b) \in Seq(Int)
      BY <3>0, PagesInRange
    <3>2. Range(PageRange(a, b)) \subseteq Low BY <3>1, <2>2, <1>0
    <3> DEFINE r == PageRange(a, b)
    <3>3. r \in Seq(Int) /\ Range(r) \subseteq Low BY <3>1, <3>2
    <3> HIDE DEF r, Low
    <3>4. Len(r) \in Nat /\ DOMAIN r = 1 .. Len(r) /\ r = [k \in 1 .. Len(r) |-> r[k]]
      BY <3>3
    <3>5. \A k \in 1 .. Len(r) : r[k] \in Low BY <3>3, <3>4 DEF Range
    <3>6. r \in Seq(Low) BY <3>4, <3>5
    <3> QED BY <3>6, <3>3 DEF r
  <2>3. ProgramPages(p) \in Seq(Low)
    <3>1. p \in Seq(Nat \X Nat) BY AddressAssumption
    <3>2. ASSUME NEW i \in 1 .. Len(p)
          PROVE  Range(PageRange(p[i][1], p[i][2])) \subseteq Low
      <4>1. p[i] \in Nat \X Nat BY <3>1
      <4>2. p[i][1] \in Nat /\ p[i][2] \in Nat BY <4>1
      <4>3. Containing(p[i][2]) < Base BY LayoutAssumption DEF Base
      <4> HIDE DEF Low
      <4> QED BY <4>2, <4>3, <2>2
    <3>3. Low \in SUBSET Int OBVIOUS
    <3> HIDE DEF Low
    <3> QED BY <3>2, <3>3, ProgramPagesType
  <2>4. PageRange(StackRange[1], StackRange[2]) \in Seq(Low)
    <3>1. StackRange[1] \in Nat /\ StackRange[2] \in Nat BY AddressAssumption
    <3>2. Containing(StackRange[2]) < Base BY LayoutAssumption DEF Base
    <3> HIDE DEF Low
    <3> QED BY <3>1, <3>2, <2>2
  <2>5. todo' \in Seq(Low)
    <3> HIDE DEF Low
    <3> QED BY <2>1, <2>3, <2>4, RangeAppended
  <2>6. \A q \in Range(todo') : q \in Low
    <3> HIDE DEF Low
    <3> QED BY <2>5 DEF Range
  <2> QED BY <1>7, <1>9, <2>6 DEF Handover
<1>10. CASE AddUserProcessDone BY <1>7, <1>10 DEF AddUserProcessDone
<1>11. CASE AnonAllocateDone
  <2> DEFINE n == Len(PageRange(pages, pages + request - 1))
  <2>1. pages \in Int /\ pages + request - 1 \in Int BY DEF TypeInv
  <2>2. n \in Nat BY <2>1, PagesInRange
  <2>3. Len(todo) = 0 /\ phase = "anon_allocate" /\ phase' = "user" /\ mapped' = mapped
    BY <1>11 DEF AnonAllocateDone
  <2>4. Frontier = Containing(pages) + n
    BY <2>2, <2>3, <1>0 DEF Frontier, Requesting
  <2>5. pages' = pages + PageSize * n
    BY <1>11 DEF AnonAllocateDone, Advance
  <2> HIDE DEF n
  <2>6. Containing(pages') = Containing(pages) + n
    BY <2>2, <2>5, DivShift, PageAssumption DEF Containing, TypeInv
  <2>7. Frontier' = Frontier
    BY <2>3, <2>4, <2>6 DEF Frontier, Requesting
  <2> QED BY <2>3, <2>7 DEF Layout, Requesting
<1>12. ASSUME NEW size \in Sizes, NEW p \in Pointers, AnonAllocate(size, p)
       PROVE  Layout'
  <2>2. /\ phase = "user" /\ phase' = "lock_mapper" /\ request' = size
        /\ todo' = PageRange(pages, pages + size - 1)
        /\ UNCHANGED <<mapped, pages>>
    BY <1>12 DEF AnonAllocate
  <2>3. size \in Nat /\ pages \in Int /\ pages + size - 1 \in Int
    BY AddressAssumption DEF TypeInv
  <2>4. /\ Len(todo') \in Nat
        /\ todo' = [k \in 1 .. Len(todo') |-> Containing(pages) + k - 1]
    <3> DEFINE r == PageRange(pages, pages + size - 1)
    <3>1. r = [k \in 1 .. Len(r) |-> Containing(pages) + k - 1] BY <2>3, PagesInRange
    <3>2. r \in Seq(Int) BY <2>3, PagesInRange
    <3>3. todo' = r BY <2>2
    <3> HIDE DEF r
    <3> QED BY <3>1, <3>2, <3>3
  <2>5. Frontier = Containing(pages) BY <2>2 DEF Frontier, Requesting
  <2>6. Frontier' = Containing(pages)
    <3>1. Frontier' = Containing(pages) + Len(todo') - Len(todo')
      BY <2>2 DEF Frontier, Requesting
    <3> QED BY <3>1, <2>4, <1>0
  <2> QED BY <2>2, <2>4, <2>5, <2>6 DEF Layout, Requesting
<1>13. ASSUME NEW size \in Sizes, NEW p \in Pointers, EndNotAnAddress(size, p)
       PROVE  Layout'
  BY <1>13 DEF EndNotAnAddress, Layout
<1>14. CASE LockMapper
  <2>1. Frontier' = Frontier BY <1>14 DEF LockMapper, Frontier, Requesting
  <2> QED BY <1>14, <2>1 DEF LockMapper, Layout, Requesting
<1>15. CASE StoreFaults BY <1>15 DEF StoreFaults, Layout
<1>16. CASE DropGuards BY <1>1, <1>16 DEF DropGuards
<1> QED BY <1>2, <1>3, <1>4, <1>5, <1>6, <1>8, <1>9, <1>10, <1>11, <1>12, <1>13, <1>14,
           <1>15, <1>16 DEF Next, KernelStep

\* The next page of a request is not mapped: if it were, it would be one of the
\* heap, and all pages between AnonStart and the heap would be mapped to
\* different frames, of which there are not so many.
LEMMA NeverMappedBefore ==
  ASSUME TypeInv, FrameInv, Layout, phase = "anon_allocate", todo # <<>>,
         frame # NoFrame
  PROVE  Head(todo) \notin DOMAIN mapped
<1> SUFFICES ASSUME Head(todo) \in DOMAIN mapped PROVE FALSE
  OBVIOUS
<1>1. /\ Base <= Frontier /\ Base .. Frontier - 1 \subseteq DOMAIN mapped
      /\ DOMAIN mapped \subseteq Int
      /\ \A q \in DOMAIN mapped : q < Frontier \/ q \in HeapPages
      /\ todo = [k \in 1 .. Len(todo) |-> Frontier + k - 1]
  BY DEF Layout, Requesting
<1>2. Base \in Int /\ Frontier \in Int
  <2>1. AnonStart \in Int /\ pages \in Int /\ pages + request - 1 \in Int
    BY AddressAssumption DEF TypeInv
  <2>2. Base \in Int /\ Containing(pages) \in Int BY <2>1, PagesInRange DEF Base
  <2>3. Len(PageRange(pages, pages + request - 1)) \in Int BY <2>1, PagesInRange
  <2>4. Len(todo) \in Nat BY DEF TypeInv
  <2> QED BY <2>2, <2>3, <2>4 DEF Frontier
<1>3. Head(todo) = Frontier
  <2>1. todo \in Seq(Int) BY DEF TypeInv
  <2>2. Head(todo) = todo[1] /\ Len(todo) \in Nat \ {0} BY <2>1, HeadAndTail
  <2>3. 1 \in 1 .. Len(todo) BY <2>2
  <2>4. todo[1] = Frontier + 1 - 1 BY <2>3, <1>1
  <2> QED BY <2>2, <2>4, <1>2
<1>4. Base + Count <= Frontier /\ Count \in Nat
  <2>1. Frontier \in HeapPages BY <1>1, <1>2, <1>3
  <2>2. HeapRange[1] \in Int /\ HeapRange[2] \in Int BY AddressAssumption
  <2>3. /\ HeapPages = Containing(HeapRange[1]) .. Containing(HeapRange[2])
        /\ Containing(HeapRange[1]) \in Int
    BY <2>2, PagesInRange DEF HeapPages
  <2>4. Base + Count <= Containing(HeapRange[1])
    <3>1. /\ Base + Count <= Containing(LowerEnd)
          /\ Containing(LowerEnd) <= Containing(HeapRange[1])
      BY LayoutAssumption DEF TypeInv, Base, Count, UsableFrames
    <3>2. Containing(LowerEnd) \in Int
      BY AddressAssumption, PageAssumption DEF Containing
    <3>3. Count \in Int BY FramesDistinct DEF TypeInv
    <3> QED BY <3>1, <3>2, <3>3, <2>3, <1>2
  <2>5. Count \in Nat BY FramesDistinct DEF TypeInv
  <2> QED BY <2>1, <2>3, <2>4, <2>5, <1>2
<1> DEFINE T == Range(UsableFrames)
           g == [q \in Base .. Frontier |-> IF q = Frontier THEN frame ELSE mapped[q]]
<1>5. IsFiniteSet(T) /\ Cardinality(T) <= Count /\ Cardinality(T) \in Nat
  <2>1. UsableFrames \in Seq(Nat) /\ Count = Len(UsableFrames)
    BY FramesDistinct DEF TypeInv, Count
  <2>2. UsableFrames \in Surjection(1 .. Count, T)
    BY <2>1 DEF Surjection, Range
  <2>3. IsFiniteSet(1 .. Count) /\ Cardinality(1 .. Count) = Count
    BY FS_Interval, <1>4
  <2>4. IsFiniteSet(T) /\ Cardinality(T) <= Cardinality(1 .. Count)
    <3> HIDE DEF T
    <3> QED BY <2>2, <2>3, FS_Surjection
  <2> QED BY <2>3, <2>4, FS_CardinalityType
<1>6. \A q \in Base .. Frontier - 1 : mapped[q] \in Range(mapped)
  BY <1>1 DEF Range
<1>7. InUse \subseteq T
  <2>1. UsableFrames \in Seq(Nat) /\ DOMAIN UsableFrames = 1 .. Count
    BY FramesDistinct DEF TypeInv, Count
  <2> QED BY <2>1, GivenAwayUsable DEF FrameInv, Accounted, Range
<1>8. g \in Injection(Base .. Frontier, T)
  <2>1. ASSUME NEW q \in Base .. Frontier PROVE g[q] \in T
    <3>1. CASE q = Frontier BY <3>1, <1>7 DEF InUse
    <3>2. CASE q # Frontier
      <4>1. q \in Base .. Frontier - 1 BY <3>2, <1>2
      <4> QED BY <4>1, <3>2, <1>6, <1>7 DEF InUse
    <3> QED BY <3>1, <3>2
  <2>2. ASSUME NEW q \in Base .. Frontier, NEW r \in Base .. Frontier, g[q] = g[r]
        PROVE  q = r
    <3>1. \A x \in Base .. Frontier : x # Frontier => x \in Base .. Frontier - 1
      BY <1>2
    <3>2. frame \notin Range(mapped) /\ IsInjective(mapped)
      BY DEF FrameInv, Unshared
    <3>3. CASE q = Frontier \/ r = Frontier
      BY <3>1, <3>2, <3>3, <2>2, <1>6
    <3>4. CASE q # Frontier /\ r # Frontier
      <4>1. q \in DOMAIN mapped /\ r \in DOMAIN mapped BY <3>1, <3>4, <1>1
      <4>2. mapped[q] = mapped[r] BY <3>4, <2>2
      <4> QED BY <4>1, <4>2, <3>2 DEF IsInjective
    <3> QED BY <3>3, <3>4
  <2>3. g \in [Base .. Frontier -> T]
    <3> HIDE DEF T
    <3> QED BY <2>1
  <2>4. DOMAIN g = Base .. Frontier OBVIOUS
  <2> HIDE DEF g, T
  <2> QED BY <2>2, <2>3, <2>4 DEF Injection, IsInjective
<1>9. Cardinality(Base .. Frontier) <= Cardinality(T)
  <2> HIDE DEF g, T
  <2> QED BY <1>5, <1>8, FS_Injection
<1>10. Cardinality(Base .. Frontier) = Frontier - Base + 1
  BY <1>1, <1>2, FS_Interval
<1> HIDE DEF T
<1> QED BY <1>2, <1>4, <1>5, <1>9, <1>10

\* The layout of the address space, in every reachable state.
THEOREM LayoutInvariance == Spec => []Layout
<1>1. Init => Layout
  <2> SUFFICES ASSUME Init PROVE Layout OBVIOUS
  <2>1. Base \in Int
    BY AddressAssumption, PageAssumption DEF Base, Containing
  <2>2. Frontier = Base BY DEF Init, Frontier, Base, Requesting
  <2>3. Base .. Base - 1 = {} BY <2>1
  <2> QED BY <2>1, <2>2, <2>3 DEF Init, Layout, HeapPages, Requesting
<1>2. IInv /\ IInv' /\ Layout /\ [Next]_vars => Layout'
  <2> SUFFICES ASSUME IInv, IInv', Layout, [Next]_vars PROVE Layout' OBVIOUS
  <2>1. CASE Next BY <2>1, LayoutStep DEF IInv
  <2>2. CASE UNCHANGED vars
    <3>1. Frontier' = Frontier BY <2>2 DEF vars, Frontier, Requesting
    <3> QED BY <2>2, <3>1 DEF vars, Layout, Requesting
  <2> QED BY <2>1, <2>2
<1> QED BY <1>1, <1>2, Invariance, PTL DEF Spec

\* A request makes the kernel panic for three causes only: its end is not an
\* address, the bitmap has no zero left, or the result is wanted outside init's
\* stack and blocks or misaligned.  The map_to of anon_allocate_syscall never
\* fails with PageAlreadyMapped, and the store *ptr never faults on memory that
\* the kernel gave to init.
THEOREM PanicsForCause == Spec => PanicsOnlyForCause
<1>1. IInv /\ Layout /\ [Next]_vars => [PanicStep]_vars
  <2> SUFFICES ASSUME IInv, Layout, Next, phase \in UserPhases, phase' = "panicked"
               PROVE  PanicStep
    BY DEF PanicStep, UserPhases
  <2>1. CASE OutOfFrames
    BY <2>1 DEF OutOfFrames, NoFrameLeft, Mapping, PanicStep
  <2>2. CASE PageAlreadyMapped
    BY <2>2, NeverMappedBefore DEF PageAlreadyMapped, Mapping, IInv, UserPhases
  <2>3. CASE StoreFaults
    <3>1. phase = "anon_allocate" /\ todo = <<>> BY <2>3 DEF StoreFaults
    <3>2. OwnPages \subseteq DOMAIN mapped
      BY DEF OwnPages, IInv, BlockInv, Backed, AnonBlocksBacked, StackPages
    <3>3. ptr % Word # 0 \/ ~(WordPages(ptr) \subseteq OwnPages)
      BY <2>3, <3>2 DEF StoreFaults
    <3> QED BY <3>1, <3>3 DEF PanicStep
  <2>4. ASSUME NEW size \in Sizes, NEW p \in Pointers, EndNotAnAddress(size, p)
        PROVE  PanicStep
    BY <2>4 DEF EndNotAnAddress, PanicStep
  <2> QED
    BY <2>1, <2>2, <2>3, <2>4 DEF Next, KernelStep, TakeFrame, CreateTable, MapPage,
       InitHeapDone, Handover, AddUserProcessDone, LockMapper, AnonAllocateDone,
       DropGuards, AnonAllocate, UserPhases
<1> QED BY <1>1, Invariance, LayoutInvariance, PTL DEF Spec, PanicsOnlyForCause

=============================================================================
