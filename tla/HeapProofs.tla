----------------------------- MODULE HeapProofs ------------------------------
(***************************************************************************)
(* The heap keeps its blocks and free regions apart, never fails one of    *)
(* its assertions, implements HeapAbs and loses memory only to alignment,  *)
(* for every heap, every layout of the callers and every sequence of       *)
(* operations.                                                             *)
(***************************************************************************)
EXTENDS Heap, SequenceTheorems, FiniteSetTheorems, NaturalsInduction, TLAPS

-----------------------------------------------------------------------------
(* Arithmetic: what rounding to a multiple gives.                            *)

\* Division with remainder.
LEMMA DivMod ==
  ASSUME NEW x \in Nat, NEW a \in Nat \ {0}
  PROVE  /\ x % a \in 0 .. a - 1
         /\ x \div a \in Nat
         /\ x = a * (x \div a) + (x % a)
  BY SMT

\* The remainder of a multiple plus a small number is that number.
LEMMA RemainderOfSum ==
  ASSUME NEW a \in Nat \ {0}, NEW q \in Nat, NEW r \in 0 .. a - 1
  PROVE  (a * q + r) % a = r
<1> DEFINE x == a * q + r
           d == x \div a
           m == x % a
<1>0. a * q \in Nat /\ x \in Nat
  OBVIOUS
<1>1. m \in 0 .. a - 1 /\ d \in Nat /\ x = a * d + m
  BY <1>0, DivMod
<1>2. x = a * q + r
  OBVIOUS
<1> HIDE DEF x, d, m
<1>3. a * (q - d) = m - r
  BY <1>1, <1>2
<1>4. CASE q - d >= 1
  <2>1. a * (q - d) >= a
    BY <1>4, <1>1
  <2> QED
    BY <2>1, <1>3, <1>1
<1>5. CASE q - d <= -1
  <2>1. a * (q - d) <= -a
    BY <1>5, <1>1
  <2> QED
    BY <2>1, <1>3, <1>1
<1>6. CASE q = d
  <2>1. m = r
    BY <1>3, <1>6, <1>1
  <2> QED
    BY <2>1 DEF m, x
<1> QED
  BY <1>1, <1>4, <1>5, <1>6

LEMMA MultipleMod ==
  ASSUME NEW a \in Nat \ {0}, NEW q \in Nat
  PROVE  (a * q) % a = 0
<1>1. (a * q + 0) % a = 0
  BY RemainderOfSum, 0 \in 0 .. a - 1
<1> QED
  BY <1>1

\* A number without remainder is a multiple.
LEMMA IsMultiple ==
  ASSUME NEW x \in Nat, NEW a \in Nat \ {0}, x % a = 0
  PROVE  \E k \in Nat : x = a * k
<1>1. x \div a \in Nat /\ x = a * (x \div a)
  BY DivMod
<1> QED
  BY <1>1

LEMMA SumMod ==
  ASSUME NEW a \in Nat \ {0}, NEW x \in Nat, NEW y \in Nat,
         x % a = 0, y % a = 0
  PROVE  (x + y) % a = 0
<1>1. PICK j \in Nat : x = a * j
  BY IsMultiple
<1>2. PICK k \in Nat : y = a * k
  BY IsMultiple
<1>3. x + y = a * (j + k)
  BY <1>1, <1>2
<1> QED
  BY <1>3, MultipleMod, j + k \in Nat

LEMMA RoundDownFacts ==
  ASSUME NEW x \in Nat, NEW m \in Nat \ {0}
  PROVE  /\ RoundDown(x, m) \in Nat
         /\ RoundDown(x, m) <= x
         /\ x - RoundDown(x, m) < m
         /\ \A a \in Nat \ {0} : m % a = 0 => RoundDown(x, m) % a = 0
<1> DEFINE q == x \div m
<1>1. x % m \in 0 .. m - 1 /\ q \in Nat /\ x = m * q + (x % m)
  BY DivMod
<1>2. RoundDown(x, m) = m * q
  BY <1>1 DEF RoundDown
<1> HIDE DEF q
<1>3. ASSUME NEW a \in Nat \ {0}, m % a = 0
      PROVE  (m * q) % a = 0
  <2>1. PICK k \in Nat : m = a * k
    BY <1>3, IsMultiple
  <2>2. m * q = a * (k * q) /\ k * q \in Nat
    BY <2>1, <1>1
  <2> QED
    BY <2>2, MultipleMod
<1>4. RoundDown(x, m) \in Nat /\ RoundDown(x, m) <= x /\ x - RoundDown(x, m) < m
  BY <1>1 DEF RoundDown
<1> QED
  BY <1>2, <1>3, <1>4

\* align_up returns an aligned address at or just above its argument.
LEMMA AlignUp ==
  ASSUME NEW x \in Nat, NEW m \in Nat \ {0}
  PROVE  /\ align_up(x, m) \in Nat
         /\ x <= align_up(x, m)
         /\ align_up(x, m) < x + m
         /\ \A a \in Nat \ {0} : m % a = 0 => align_up(x, m) % a = 0
<1>1. x + m - 1 \in Nat
  OBVIOUS
<1> QED
  BY <1>1, RoundDownFacts DEF align_up

\* align_up leaves an aligned address alone.
LEMMA AlignUpAligned ==
  ASSUME NEW x \in Nat, NEW m \in Nat \ {0}, x % m = 0
  PROVE  align_up(x, m) = x
<1>1. PICK k \in Nat : x = m * k
  BY IsMultiple
<1>2. (m * k + (m - 1)) % m = m - 1
  BY RemainderOfSum, m - 1 \in 0 .. m - 1
<1>3. x + m - 1 = m * k + (m - 1)
  BY <1>1
<1> QED
  BY <1>2, <1>3 DEF align_up, RoundDown

\* What size_align computes for a layout.
LEMMA SizeAlign ==
  ASSUME NEW l \in Layouts
  PROVE  /\ Align(l) \in Nat \ {0}
         /\ Align(l) % l.align = 0
         /\ Align(l) % NodeAlign = 0
         /\ Size(l) \in Nat
         /\ Size(l) >= l.size
         /\ Size(l) >= NodeSize
         /\ Size(l) % NodeAlign = 0
<1>1. l.align \in Nat \ {0} /\ l.size \in Nat \ {0}
  BY LayoutAssumption
<1>2. /\ Align(l) \in Nat \ {0}
      /\ Align(l) % l.align = 0
      /\ Align(l) % NodeAlign = 0
  BY <1>1, LayoutAssumption, HeapAssumption DEF Align, MaxOf
<1>3. /\ align_up(l.size, Align(l)) \in Nat
      /\ align_up(l.size, Align(l)) >= l.size
      /\ align_up(l.size, Align(l)) % NodeAlign = 0
  BY <1>1, <1>2, AlignUp, HeapAssumption
<1> QED
  BY <1>1, <1>2, <1>3, HeapAssumption DEF Size, MaxOf

-----------------------------------------------------------------------------
(* Lists.                                                                    *)

LEMMA RemoveAtFacts ==
  ASSUME NEW S, NEW s \in Seq(S), NEW i \in 1 .. Len(s)
  PROVE  /\ RemoveAt(s, i) \in Seq(S)
         /\ Len(RemoveAt(s, i)) = Len(s) - 1
         /\ \A k \in 1 .. Len(s) - 1 :
              RemoveAt(s, i)[k] = s[IF k < i THEN k ELSE k + 1]
<1> DEFINE a == SubSeq(s, 1, i - 1)
           b == SubSeq(s, i + 1, Len(s))
<1>1. /\ a \in Seq(S)
      /\ Len(a) = i - 1
      /\ \A k \in 1 .. i - 1 : a[k] = s[k]
  OBVIOUS
<1>2. /\ b \in Seq(S)
      /\ Len(b) = Len(s) - i
      /\ \A k \in 1 .. Len(s) - i : b[k] = s[k + i]
  OBVIOUS
<1>3. RemoveAt(s, i) = a \o b
  BY DEF RemoveAt
<1> HIDE DEF a, b
<1>4. /\ a \o b \in Seq(S)
      /\ Len(a \o b) = Len(s) - 1
      /\ \A k \in 1 .. Len(s) - 1 :
           (a \o b)[k] = IF k <= i - 1 THEN a[k] ELSE b[k - (i - 1)]
  <2>1. /\ a \o b \in Seq(S)
        /\ Len(a \o b) = Len(a) + Len(b)
        /\ \A k \in 1 .. Len(a) + Len(b) :
             (a \o b)[k] = IF k <= Len(a) THEN a[k] ELSE b[k - Len(a)]
    BY <1>1, <1>2, ConcatProperties, Zenon
  <2>2. Len(a) = i - 1 /\ Len(a) + Len(b) = Len(s) - 1
    BY <1>1, <1>2
  <2> QED
    BY <2>1, <2>2
<1>5. ASSUME NEW k \in 1 .. Len(s) - 1
      PROVE  (a \o b)[k] = s[IF k < i THEN k ELSE k + 1]
  <2>1. CASE k <= i - 1
    BY <1>1, <1>4, <2>1
  <2>2. CASE ~(k <= i - 1)
    <3>1. k - (i - 1) \in 1 .. Len(s) - i
      BY <2>2
    <3>2. b[k - (i - 1)] = s[k - (i - 1) + i]
      BY <3>1, <1>2
    <3>3. k - (i - 1) + i = k + 1 /\ ~(k < i)
      BY <2>2
    <3> QED
      BY <3>2, <3>3, <1>4, <2>2
  <2> QED
    BY <2>1, <2>2
<1> QED
  BY <1>3, <1>4, <1>5

LEMMA ConsFacts ==
  ASSUME NEW S, NEW s \in Seq(S), NEW e \in S
  PROVE  /\ Cons(e, s) \in Seq(S)
         /\ Len(Cons(e, s)) = Len(s) + 1
         /\ Cons(e, s)[1] = e
         /\ \A k \in 2 .. Len(s) + 1 : Cons(e, s)[k] = s[k - 1]
  BY DEF Cons

-----------------------------------------------------------------------------
(* The inductive invariant, for a list of free regions and a set of blocks,  *)
(* so that it can also speak of the list between the two halves of alloc.    *)

Inside(addr, size) == addr >= HEAP_START /\ addr + size <= HEAP_END

RegionsSound(list) ==
  \A i \in 1 .. Len(list) :
    /\ Inside(list[i].addr, list[i].size)
    /\ list[i].size >= NodeSize
    /\ list[i].addr % NodeAlign = 0

BlocksSound(B) ==
  \A b \in B :
    /\ Inside(b.addr, Size(b.layout))
    /\ b.addr % Align(b.layout) = 0
    /\ b.addr % NodeAlign = 0

AllApart(list, B) ==
  /\ \A i, j \in 1 .. Len(list) :
       i # j => Apart(list[i].addr, list[i].size, list[j].addr, list[j].size)
  /\ \A b, c \in B :
       b # c => Apart(b.addr, Size(b.layout), c.addr, Size(c.layout))
  /\ \A i \in 1 .. Len(list), b \in B :
       Apart(list[i].addr, list[i].size, b.addr, Size(b.layout))

Sound(list, B) ==
  /\ list \in Seq(Region)
  /\ B \subseteq Block
  /\ RegionsSound(list)
  /\ BlocksSound(B)
  /\ AllApart(list, B)

\* No region of the list and no block has a byte of [addr, addr + size).
Vacant(addr, size, list, B) ==
  /\ \A i \in 1 .. Len(list) : Apart(addr, size, list[i].addr, list[i].size)
  /\ \A b \in B : Apart(addr, size, b.addr, Size(b.layout))

IInv == Sound(free, live) /\ panicked = FALSE

\* Unlinking a region leaves a sound list, in which its bytes are vacant.
LEMMA RemoveSound ==
  ASSUME NEW list, NEW B, Sound(list, B), NEW i \in 1 .. Len(list)
  PROVE  /\ Sound(RemoveAt(list, i), B)
         /\ Vacant(list[i].addr, list[i].size, RemoveAt(list, i), B)
<1> DEFINE rest == RemoveAt(list, i)
           at(k) == IF k < i THEN k ELSE k + 1
<1>0. list \in Seq(Region) /\ Len(list) \in Nat
  BY DEF Sound
<1>1. /\ rest \in Seq(Region)
      /\ Len(rest) = Len(list) - 1
      /\ \A k \in 1 .. Len(list) - 1 : rest[k] = list[at(k)]
  BY <1>0, RemoveAtFacts
<1>2. \A k \in 1 .. Len(rest) : at(k) \in 1 .. Len(list) /\ at(k) # i
  BY <1>0, <1>1
<1>3. \A j, k \in 1 .. Len(rest) : j # k => at(j) # at(k)
  BY <1>0, <1>1
<1>4. \A k \in 1 .. Len(rest) : rest[k] = list[at(k)]
  BY <1>1
<1> HIDE DEF rest, at
<1>5. RegionsSound(rest)
  BY <1>2, <1>4 DEF Sound, RegionsSound
<1>6. AllApart(rest, B)
  <2>1. \A j, k \in 1 .. Len(rest) :
          j # k => Apart(rest[j].addr, rest[j].size, rest[k].addr, rest[k].size)
    BY <1>2, <1>3, <1>4 DEF Sound, AllApart
  <2>2. \A k \in 1 .. Len(rest), b \in B :
          Apart(rest[k].addr, rest[k].size, b.addr, Size(b.layout))
    BY <1>2, <1>4 DEF Sound, AllApart
  <2> QED
    BY <2>1, <2>2 DEF Sound, AllApart
<1>7. Vacant(list[i].addr, list[i].size, rest, B)
  BY <1>2, <1>4 DEF Sound, AllApart, Vacant
<1> QED
  BY <1>1, <1>5, <1>6, <1>7 DEF Sound, rest

\* A part of vacant memory is vacant.
LEMMA VacantPart ==
  ASSUME NEW list, NEW B, Sound(list, B),
         NEW a \in Nat, NEW m \in Nat, Vacant(a, m, list, B),
         NEW a2 \in Nat, NEW m2 \in Nat, a <= a2, a2 + m2 <= a + m
  PROVE  Vacant(a2, m2, list, B)
<1>1. \A x, n \in Nat : Apart(a, m, x, n) => Apart(a2, m2, x, n)
  BY DEF Apart
<1>2. \A i \in 1 .. Len(list) : list[i].addr \in Nat /\ list[i].size \in Nat
  <2>1. list \in Seq(Region)
    BY DEF Sound
  <2>2. \A i \in 1 .. Len(list) : list[i] \in Region
    BY <2>1
  <2> QED
    BY <2>2 DEF Region
<1>3. \A b \in B : b.addr \in Nat /\ Size(b.layout) \in Nat
  BY SizeAlign DEF Sound, Block
<1> QED
  BY <1>1, <1>2, <1>3 DEF Vacant

\* add_free_region on vacant memory keeps the list sound.
LEMMA ConsSound ==
  ASSUME NEW list, NEW B, Sound(list, B),
         NEW a \in Nat, NEW m \in Nat, Vacant(a, m, list, B),
         Inside(a, m), m >= NodeSize, a % NodeAlign = 0
  PROVE  Sound(Cons([addr |-> a, size |-> m], list), B)
<1> DEFINE r == [addr |-> a, size |-> m]
           new == Cons(r, list)
<1>0. list \in Seq(Region) /\ Len(list) \in Nat /\ r \in Region
  BY DEF Sound, Region
<1>2. r.addr = a /\ r.size = m
  OBVIOUS
<1> HIDE DEF r
<1>1. /\ new \in Seq(Region)
      /\ Len(new) = Len(list) + 1
      /\ new[1] = r
      /\ \A k \in 2 .. Len(list) + 1 : new[k] = list[k - 1]
  BY <1>0, ConsFacts
<1> HIDE DEF new
<1>3. \A k \in 1 .. Len(new) :
        \/ k = 1 /\ new[k] = r
        \/ k # 1 /\ k - 1 \in 1 .. Len(list) /\ new[k] = list[k - 1]
  BY <1>0, <1>1
<1>4. RegionsSound(new)
  BY <1>2, <1>3 DEF Sound, RegionsSound
<1>5. \A j, k \in 1 .. Len(new) :
        j # k => Apart(new[j].addr, new[j].size, new[k].addr, new[k].size)
  <2> SUFFICES ASSUME NEW j \in 1 .. Len(new), NEW k \in 1 .. Len(new), j # k
               PROVE  Apart(new[j].addr, new[j].size, new[k].addr, new[k].size)
    OBVIOUS
  <2>1. CASE j # 1 /\ k # 1
    <3>1. j - 1 # k - 1
      OBVIOUS
    <3> QED
      BY <2>1, <3>1, <1>3 DEF Sound, AllApart
  <2>2. CASE j = 1
    BY <2>2, <1>2, <1>3 DEF Vacant
  <2>3. CASE k = 1
    <3>1. Apart(new[k].addr, new[k].size, new[j].addr, new[j].size)
      BY <2>3, <1>2, <1>3 DEF Vacant
    <3> QED
      BY <3>1 DEF Apart
  <2> QED
    BY <2>1, <2>2, <2>3
<1>6. \A k \in 1 .. Len(new), b \in B :
        Apart(new[k].addr, new[k].size, b.addr, Size(b.layout))
  BY <1>2, <1>3 DEF Sound, AllApart, Vacant
<1> QED
  BY <1>1, <1>4, <1>5, <1>6 DEF Sound, AllApart, new, r

\* A new block in vacant, aligned memory keeps everything apart.
LEMMA BlockSound ==
  ASSUME NEW list, NEW B, Sound(list, B), NEW l \in Layouts,
         NEW a \in Nat, Vacant(a, Size(l), list, B), Inside(a, Size(l)),
         a % Align(l) = 0, a % NodeAlign = 0
  PROVE  Sound(list, B \cup {[addr |-> a, layout |-> l]})
<1> DEFINE b == [addr |-> a, layout |-> l]
<1>1. b \in Block /\ b.addr = a /\ b.layout = l
  BY DEF Block
<1> HIDE DEF b
<1>2. BlocksSound(B \cup {b})
  BY <1>1 DEF Sound, BlocksSound
<1>3. AllApart(list, B \cup {b})
  BY <1>1 DEF Sound, AllApart, Vacant, Apart
<1> QED
  BY <1>1, <1>2, <1>3 DEF Sound, b

\* The memory of a block that is given back is vacant.
LEMMA UnblockSound ==
  ASSUME NEW list, NEW B, Sound(list, B), NEW b \in B
  PROVE  /\ Sound(list, B \ {b})
         /\ Vacant(b.addr, Size(b.layout), list, B \ {b})
<1>1. Sound(list, B \ {b})
  BY DEF Sound, BlocksSound, AllApart
<1>2. Vacant(b.addr, Size(b.layout), list, B \ {b})
  BY DEF Sound, AllApart, Vacant, Apart
<1> QED
  BY <1>1, <1>2

-----------------------------------------------------------------------------
(* The steps.                                                                *)

LEMMA InitIInv == Init => IInv
<1> SUFFICES ASSUME Init
             PROVE  IInv
  OBVIOUS
<1> DEFINE r == [addr |-> HEAP_START, size |-> HEAP_SIZE]
<1>1. r \in Region /\ r.addr = HEAP_START /\ r.size = HEAP_SIZE
  BY HeapAssumption DEF Region
<1> HIDE DEF r
<1>2. free = <<r>> /\ live = {} /\ panicked = FALSE
  BY DEF Init, r
<1>3. free \in Seq(Region) /\ Len(free) = 1 /\ free[1] = r
  BY <1>1, <1>2
<1>4. \A i \in 1 .. Len(free) : i = 1
  BY <1>3
<1>5. RegionsSound(free)
  BY <1>1, <1>3, <1>4, HeapAssumption DEF RegionsSound, Inside, HEAP_END
<1>6. AllApart(free, live) /\ BlocksSound(live)
  BY <1>2, <1>4 DEF AllApart, BlocksSound
<1> QED
  BY <1>2, <1>3, <1>5, <1>6 DEF IInv, Sound

\* The block that alloc cuts out of region i, and what is left behind it.
LEMMA CutRegion ==
  ASSUME IInv, NEW l \in Layouts, NEW i \in 1 .. Len(free),
         FitsRegion(free[i], Size(l), Align(l))
  PROVE  LET start == align_up(free[i].addr, Align(l))
             end == start + Size(l)
             excess == EndAddr(free[i]) - end
         IN  /\ start \in Nat
             /\ end \in Nat
             /\ excess \in Nat
             /\ free[i].addr \in Nat
             /\ free[i].size \in Nat
             /\ free[i].addr <= start
             /\ end + excess = free[i].addr + free[i].size
             /\ excess = 0 \/ excess >= NodeSize
             /\ Inside(start, Size(l))
             /\ Inside(end, excess)
             /\ start % Align(l) = 0
             /\ start % NodeAlign = 0
             /\ start % l.align = 0
             /\ end % NodeAlign = 0
<1> DEFINE start == align_up(free[i].addr, Align(l))
           end == start + Size(l)
           excess == EndAddr(free[i]) - end
<1>1. free[i] \in Region
  BY DEF IInv, Sound
<1>2. free[i].addr \in Nat /\ free[i].size \in Nat
  BY <1>1 DEF Region
<1>3. /\ Align(l) \in Nat \ {0}
      /\ Size(l) \in Nat
      /\ Align(l) % NodeAlign = 0
      /\ Align(l) % l.align = 0
      /\ Size(l) % NodeAlign = 0
      /\ l.align \in Nat \ {0}
      /\ NodeAlign \in Nat \ {0}
  BY SizeAlign, LayoutAssumption, HeapAssumption
<1>4. Align(l) % Align(l) = 0
  <2>1. (Align(l) * 1) % Align(l) = 0
    BY <1>3, MultipleMod
  <2> QED
    BY <2>1, <1>3
<1>5. /\ start \in Nat
      /\ free[i].addr <= start
      /\ start % Align(l) = 0
      /\ start % NodeAlign = 0
      /\ start % l.align = 0
  BY <1>2, <1>3, <1>4, AlignUp
<1>6. /\ end <= EndAddr(free[i])
      /\ excess = 0 \/ excess >= NodeSize
  BY DEF FitsRegion
<1>7. end % NodeAlign = 0
  BY <1>3, <1>5, SumMod
<1>8. Inside(free[i].addr, free[i].size)
  BY DEF IInv, Sound, RegionsSound
<1> HIDE DEF start
<1>9. /\ end \in Nat
      /\ excess \in Nat
      /\ end + excess = free[i].addr + free[i].size
      /\ Inside(start, Size(l))
      /\ Inside(end, excess)
  <2>1. EndAddr(free[i]) = free[i].addr + free[i].size /\ Size(l) \in Nat
    BY <1>3 DEF EndAddr
  <2>2. HEAP_START \in Nat /\ HEAP_END \in Nat
    BY HeapAssumption DEF HEAP_END
  <2>3. /\ end \in Nat
        /\ excess \in Nat
        /\ end + excess = free[i].addr + free[i].size
    BY <2>1, <1>2, <1>5, <1>6
  <2>4. /\ HEAP_START <= free[i].addr
        /\ free[i].addr + free[i].size <= HEAP_END
    BY <1>8 DEF Inside
  <2> HIDE DEF excess
  <2>5. end + excess <= HEAP_END /\ HEAP_START <= start
    BY <2>2, <2>3, <2>4, <1>2, <1>5
  <2>6. Inside(start, Size(l)) /\ Inside(end, excess)
    BY <2>1, <2>2, <2>3, <2>5, <1>5 DEF Inside
  <2> QED
    BY <2>3, <2>6
<1> QED
  BY <1>2, <1>5, <1>6, <1>7, <1>9 DEF start

\* alloc: the new state is sound, and the new block is as HeapAbs wants it.
LEMMA AllocStep ==
  ASSUME IInv, NEW l \in Layouts, Alloc(l)
  PROVE  /\ IInv'
         /\ \E a \in Nat :
              /\ a % l.align = 0
              /\ Inside(a, Size(l))
              /\ \A c \in live : Apart(a, Size(l), c.addr, Size(c.layout))
              /\ live' = live \cup {[addr |-> a, layout |-> l]}
<1>1. PICK i \in 1 .. Len(free) :
        /\ FitsRegion(free[i], Size(l), Align(l))
        /\ AllocFrom(i, l)
        /\ live' = IF panicked' THEN live
                   ELSE live \cup {[addr |-> align_up(free[i].addr, Align(l)),
                                    layout |-> l]}
  BY DEF Alloc, FirstFit
<1> DEFINE start == align_up(free[i].addr, Align(l))
           end == start + Size(l)
           excess == EndAddr(free[i]) - end
           rest == RemoveAt(free, i)
<1>2. /\ start \in Nat /\ end \in Nat /\ excess \in Nat
      /\ free[i].addr \in Nat /\ free[i].size \in Nat
      /\ free[i].addr <= start
      /\ end + excess = free[i].addr + free[i].size
      /\ excess = 0 \/ excess >= NodeSize
      /\ Inside(start, Size(l)) /\ Inside(end, excess)
      /\ start % Align(l) = 0 /\ start % NodeAlign = 0
      /\ start % l.align = 0 /\ end % NodeAlign = 0
  BY <1>1, CutRegion
<1>3. Sound(free, live) /\ panicked = FALSE
  BY DEF IInv
<1>4. Sound(rest, live) /\ Vacant(free[i].addr, free[i].size, rest, live)
  BY <1>3, RemoveSound
<1>5. IF excess > 0 THEN AddFreeRegion(rest, end, excess)
                    ELSE free' = rest /\ UNCHANGED panicked
  BY <1>1 DEF AllocFrom
<1>6. Size(l) \in Nat /\ end = start + Size(l)
  BY SizeAlign
<1>7. live' = IF panicked' THEN live
              ELSE live \cup {[addr |-> start, layout |-> l]}
  BY <1>1
<1> HIDE DEF start, end, excess, rest
<1>8. Vacant(start, Size(l), rest, live)
  <2>1. start + Size(l) <= free[i].addr + free[i].size
    BY <1>2, <1>6
  <2> QED
    BY <2>1, <1>2, <1>4, <1>6, VacantPart
<1>9. Sound(free', live) /\ panicked' = FALSE /\ Vacant(start, Size(l), free', live)
  <2>1. CASE excess = 0
    BY <2>1, <1>3, <1>4, <1>5, <1>8
  <2>2. CASE excess > 0
    <3>1. excess >= NodeSize
      BY <2>2, <1>2
    <3>2. AcceptsRegion(end, excess)
      BY <3>1, <1>2, AlignUpAligned, HeapAssumption DEF AcceptsRegion
    <3>3. free' = Cons([addr |-> end, size |-> excess], rest) /\ panicked' = FALSE
      BY <3>2, <2>2, <1>3, <1>5 DEF AddFreeRegion
    <3>4. Vacant(end, excess, rest, live)
      BY <1>2, <1>4, <1>6, VacantPart
    <3>5. Sound(free', live)
      BY <3>1, <3>3, <3>4, <1>2, <1>4, ConsSound
    <3>6. Vacant(start, Size(l), free', live)
      <4> DEFINE r == [addr |-> end, size |-> excess]
      <4>1. r \in Region /\ r.addr = end /\ r.size = excess
        BY <1>2 DEF Region
      <4>2. free' = Cons(r, rest)
        BY <3>3
      <4> HIDE DEF r
      <4>3. rest \in Seq(Region) /\ Len(rest) \in Nat
        BY <1>4 DEF Sound
      <4>4. /\ Len(free') = Len(rest) + 1
            /\ free'[1] = r
            /\ \A k \in 2 .. Len(rest) + 1 : free'[k] = rest[k - 1]
        <5>1. /\ Len(Cons(r, rest)) = Len(rest) + 1
              /\ Cons(r, rest)[1] = r
              /\ \A k \in 2 .. Len(rest) + 1 : Cons(r, rest)[k] = rest[k - 1]
          BY <4>1, <4>3, ConsFacts
        <5> QED BY <4>2, <5>1
      <4>5. Apart(start, Size(l), r.addr, r.size)
        BY <4>1, <1>6 DEF Apart
      <4>6. ASSUME NEW k \in 1 .. Len(free')
            PROVE  Apart(start, Size(l), free'[k].addr, free'[k].size)
        <5>1. CASE k = 1
          BY <5>1, <4>4, <4>5
        <5>2. CASE k # 1
          <6>1. k - 1 \in 1 .. Len(rest) /\ free'[k] = rest[k - 1]
            BY <5>2, <4>3, <4>4
          <6> QED
            BY <6>1, <1>8 DEF Vacant
        <5> QED
          BY <5>1, <5>2
      <4> QED
        BY <4>6, <1>8 DEF Vacant
    <3> QED
      BY <3>3, <3>5, <3>6
  <2>3. excess = 0 \/ excess > 0
    BY <1>2
  <2> QED
    BY <2>1, <2>2, <2>3
<1>10. live' = live \cup {[addr |-> start, layout |-> l]}
  BY <1>7, <1>9
<1>11. Sound(free', live')
  BY <1>2, <1>9, <1>10, BlockSound
<1>12. \A c \in live : Apart(start, Size(l), c.addr, Size(c.layout))
  BY <1>9 DEF Vacant
<1> QED
  BY <1>2, <1>9, <1>10, <1>11, <1>12 DEF IInv

LEMMA DeallocStep ==
  ASSUME IInv, NEW b \in live, Dealloc(b)
  PROVE  /\ IInv'
         /\ free' = Cons([addr |-> b.addr, size |-> Size(b.layout)], free)
         /\ live' = live \ {b}
<1>1. Sound(free, live) /\ panicked = FALSE
  BY DEF IInv
<1>2. b \in Block
  BY <1>1 DEF Sound
<1>3. b.addr \in Nat /\ b.layout \in Layouts
  BY <1>2 DEF Block
<1>4. Size(b.layout) \in Nat /\ Size(b.layout) >= NodeSize
  BY <1>3, SizeAlign
<1>5. Inside(b.addr, Size(b.layout)) /\ b.addr % NodeAlign = 0
  BY <1>1 DEF Sound, BlocksSound
<1>6. AcceptsRegion(b.addr, Size(b.layout))
  BY <1>3, <1>4, <1>5, AlignUpAligned, HeapAssumption DEF AcceptsRegion
<1>7. /\ free' = Cons([addr |-> b.addr, size |-> Size(b.layout)], free)
      /\ panicked' = FALSE
      /\ live' = live \ {b}
  BY <1>1, <1>6 DEF Dealloc, AddFreeRegion
<1>8. Sound(free, live \ {b}) /\ Vacant(b.addr, Size(b.layout), free, live \ {b})
  BY <1>1, UnblockSound
<1>9. Sound(free', live')
  BY <1>3, <1>4, <1>5, <1>7, <1>8, ConsSound
<1> QED
  BY <1>7, <1>9 DEF IInv

LEMMA NextIInv == IInv /\ [Next]_vars => IInv'
<1> SUFFICES ASSUME IInv, [Next]_vars
             PROVE  IInv'
  OBVIOUS
<1>1. CASE UNCHANGED vars
  BY <1>1 DEF IInv, vars
<1>2. ASSUME NEW l \in Layouts, Alloc(l)
      PROVE  IInv'
  BY <1>2, AllocStep
<1>3. ASSUME NEW b \in live, Dealloc(b)
      PROVE  IInv'
  BY <1>3, DeallocStep
<1> QED
  BY <1>1, <1>2, <1>3 DEF Next

-----------------------------------------------------------------------------
(* The theorems.                                                             *)

\* Every reachable state satisfies the inductive invariant.
THEOREM Invariance == Spec => []IInv
  BY InitIInv, NextIInv, PTL DEF Spec

\* The list of regions and the set of blocks always have their types, and lie
\* inside the heap.
THEOREM TypeCorrect == Spec => []TypeOK
<1>1. IInv => TypeOK
  BY DEF IInv, Sound, RegionsSound, BlocksSound, Inside, InsideHeap, EndAddr, TypeOK
<1> QED
  BY <1>1, Invariance, PTL

\* alloc and dealloc never let two blocks, two free regions, or a block and a
\* free region (with the list node stored in it) overlap.
THEOREM NoOverlapHolds == Spec => []NoOverlap
<1>1. IInv => NoOverlap
  BY DEF IInv, Sound, AllApart, NoOverlap, FreeApart, LiveApart, FreeLiveApart
<1> QED
  BY <1>1, Invariance, PTL

\* The assertions at the start of add_free_region never fail.
THEOREM AssertionsNeverFail == Spec => []AssertionsHold
<1>1. IInv => AssertionsHold
  BY DEF IInv, AssertionsHold
<1> QED
  BY <1>1, Invariance, PTL

\* After dealloc the first region of the list fits the freed block's layout, at
\* the freed block's address.
LEMMA ReuseLemma == IInv /\ [Next]_vars => ReuseStep
<1> SUFFICES ASSUME IInv, [Next]_vars, NEW b \in live \ live'
             PROVE  /\ FitsRegion(free'[1], Size(b.layout), Align(b.layout))
                    /\ align_up(free'[1].addr, Align(b.layout)) = b.addr
  BY DEF ReuseStep
<1>1. Dealloc(b)
  <2>1. live' # live
    OBVIOUS
  <2>2. ASSUME NEW l \in Layouts, Alloc(l)
        PROVE  FALSE
    <3>1. live \subseteq live'
      BY <2>2, AllocStep
    <3> QED
      BY <3>1
  <2>3. PICK c \in live : Dealloc(c)
    BY <2>1, <2>2 DEF Next, vars
  <2>4. live' = live \ {c}
    BY <2>3, DeallocStep
  <2> QED
    BY <2>3, <2>4
<1> DEFINE r == [addr |-> b.addr, size |-> Size(b.layout)]
<1>2. free' = Cons(r, free)
  BY <1>1, DeallocStep
<1>3. free \in Seq(Region) /\ b \in Block
  BY DEF IInv, Sound
<1>4. b.addr \in Nat /\ b.layout \in Layouts
  BY <1>3 DEF Block
<1>5. Size(b.layout) \in Nat /\ Align(b.layout) \in Nat \ {0}
  BY <1>4, SizeAlign
<1>6. /\ r \in Region
      /\ r.addr = b.addr /\ r.size = Size(b.layout)
  BY <1>4, <1>5 DEF Region
<1> HIDE DEF r
<1>7. free'[1] = r
  <2>1. Cons(r, free)[1] = r
    BY <1>3, <1>6, ConsFacts
  <2> QED BY <1>2, <2>1
<1>8. free'[1].addr = b.addr /\ EndAddr(free'[1]) = b.addr + Size(b.layout)
  BY <1>6, <1>7 DEF EndAddr
<1>9. /\ b.addr % Align(b.layout) = 0
      /\ b.addr + Size(b.layout) <= HEAP_END
  BY DEF IInv, Sound, BlocksSound, Inside
<1>10. align_up(b.addr, Align(b.layout)) = b.addr
  BY <1>4, <1>5, <1>9, AlignUpAligned
<1>11. b.addr + Size(b.layout) < Modulus
  BY <1>4, <1>5, <1>9, HeapAssumption DEF HEAP_END
<1> QED
  BY <1>4, <1>5, <1>8, <1>10, <1>11 DEF FitsRegion

\* A freed block can be allocated again at once, at the same address.
THEOREM FreedBlockReusable == Spec => FreedIsReusable
  BY Invariance, ReuseLemma, PTL DEF Spec, FreedIsReusable

\* A step of the heap is a step of HeapAbs or leaves the blocks alone.
LEMMA StepRefines == IInv /\ [Next]_vars => [Abs!Next]_live
<1> SUFFICES ASSUME IInv, [Next]_vars
             PROVE  [Abs!Next]_live
  OBVIOUS
<1>1. ASSUME NEW l \in Layouts, Alloc(l)
      PROVE  Abs!Next
  <2>1. PICK a \in Nat :
          /\ a % l.align = 0
          /\ Inside(a, Size(l))
          /\ \A c \in live : Apart(a, Size(l), c.addr, Size(c.layout))
          /\ live' = live \cup {[addr |-> a, layout |-> l]}
    BY <1>1, AllocStep
  <2>2. /\ l.size \in Nat \ {0} /\ Size(l) \in Nat /\ Size(l) >= l.size
        /\ HEAP_START \in Nat /\ HEAP_SIZE \in Nat
    BY SizeAlign, LayoutAssumption, HeapAssumption
  <2>3. /\ a \in HEAP_START .. Abs!HEAP_END - 1
        /\ a + l.size <= Abs!HEAP_END
    BY <2>1, <2>2 DEF Inside, HEAP_END, Abs!HEAP_END
  <2> DEFINE b == [addr |-> a, layout |-> l]
  <2>4. ASSUME NEW c \in live
        PROVE  Abs!DisjointBlocks(b, c)
    <3>1. c \in Block
      BY DEF IInv, Sound
    <3>2. c.addr \in Nat /\ c.layout \in Layouts
      BY <3>1 DEF Block
    <3>3. c.layout.size \in Nat /\ Size(c.layout) \in Nat
          /\ Size(c.layout) >= c.layout.size
      BY <3>2, SizeAlign, LayoutAssumption
    <3>4. Apart(a, Size(l), c.addr, Size(c.layout))
      BY <2>1
    <3>5. a + l.size <= c.addr \/ c.addr + c.layout.size <= a
      BY <3>2, <3>3, <3>4, <2>2 DEF Apart
    <3> QED
      BY <3>5 DEF Abs!DisjointBlocks
  <2>5. Abs!Alloc(l)
    BY <2>1, <2>3, <2>4 DEF Abs!Alloc
  <2> QED
    BY <2>5 DEF Abs!Next
<1>2. ASSUME NEW b \in live, Dealloc(b)
      PROVE  Abs!Next
  BY <1>2, DeallocStep DEF Abs!Next, Abs!Dealloc
<1>3. CASE UNCHANGED vars
  BY <1>3 DEF vars
<1> QED
  BY <1>1, <1>2, <1>3 DEF Next

\* The linked-list allocator implements the contract of a global allocator.
THEOREM Refinement == Spec => ImplementsHeapAbs
<1>1. Init => Abs!Init
  BY DEF Init, Abs!Init
<1> QED
  BY <1>1, Invariance, StepRefines, PTL DEF Spec, ImplementsHeapAbs, Abs!Spec

-----------------------------------------------------------------------------
(* Sums.  The library defines the sum of the values of a function by         *)
(* recursion over the subsets of its domain.                                 *)

\* A set of natural numbers that is not empty has a least element.
LEMMA NatMin ==
  ASSUME NEW S \in SUBSET Nat, S # {}
  PROVE  \E m \in S : \A k \in S : m <= k
<1>1. PICK m \in S : \A k \in S : ~(<<k, m>> \in OpToRel(<, Nat))
  BY NatLessThanWellFounded, WFMin, Zenon
<1>2. \A k \in S : ~(k < m)
  BY <1>1 DEF OpToRel
<1> QED BY <1>2

\* Induction over the subsets of a finite set: a family that contains a set when
\* it contains all sets with one element less contains them all.
LEMMA FiniteInduction ==
  ASSUME NEW S, IsFiniteSet(S), NEW Good,
         \A T \in SUBSET S : (\A x \in T : T \ {x} \in Good) => T \in Good
  PROVE  \A T \in SUBSET S : T \in Good
<1> DEFINE Bad == {T \in SUBSET S : T \notin Good}
           Sizes == {Cardinality(T) : T \in Bad}
<1>1. \A T \in SUBSET S : IsFiniteSet(T) /\ Cardinality(T) \in Nat
  BY FS_Subset, FS_CardinalityType
<1> SUFFICES ASSUME Bad # {} PROVE FALSE
  OBVIOUS
<1>2. Sizes \in SUBSET Nat /\ Sizes # {}
  BY <1>1
<1>3. PICK m \in Sizes : \A k \in Sizes : m <= k
  <2> HIDE DEF Sizes
  <2> QED BY <1>2, NatMin
<1>4. PICK T \in Bad : Cardinality(T) = m
  OBVIOUS
<1>5. \A x \in T : T \ {x} \in Good
  <2> SUFFICES ASSUME NEW x \in T, T \ {x} \notin Good PROVE FALSE
    OBVIOUS
  <2>1. Cardinality(T \ {x}) = m - 1 /\ m \in Nat
    BY <1>1, <1>4, FS_RemoveElement
  <2>2. m <= Cardinality(T \ {x})
    BY <1>3
  <2> QED BY <2>1, <2>2
<1> QED BY <1>4, <1>5

\* The element with which SumFunction begins.
Chosen(T) == CHOOSE x \in T : TRUE

\* What the library defines SumFunction by.
LEMMA SumUnfolds ==
  ASSUME NEW f
  PROVE  SumFunction(f) =
    (CHOOSE g : g = [T \in SUBSET DOMAIN f |->
        IF T = {} THEN 0 ELSE f[Chosen(T)] + g[T \ {Chosen(T)}]])[DOMAIN f]
BY DEF SumFunction, SumFunctionOnSet, FoldFunctionOnSet, MapThenFoldSet, Chosen

\* g holds the sums of f over all sets of arguments.
Sums(f, g) ==
  /\ g \in [SUBSET DOMAIN f -> Nat]
  /\ \A T \in SUBSET DOMAIN f :
       g[T] = IF T = {} THEN 0 ELSE f[Chosen(T)] + g[T \ {Chosen(T)}]

\* It is an element.
LEMMA ChosenIn ==
  ASSUME NEW T, T # {}
  PROVE  Chosen(T) \in T
BY DEF Chosen

\* The recursion has a solution, for sets of any size: the least size without one
\* could be reached from the one before.
LEMMA SumsExist ==
  ASSUME NEW S, IsFiniteSet(S), NEW f \in [S -> Nat]
  PROVE  \E g : Sums(f, g)
<1> DEFINE Small(m) == {T \in SUBSET S : Cardinality(T) <= m}
           P(m) == \E g \in [Small(m) -> Nat] : \A T \in Small(m) :
                     g[T] = IF T = {} THEN 0 ELSE f[Chosen(T)] + g[T \ {Chosen(T)}]
           Bad == {m \in Nat : ~P(m)}
<1>1. \A T \in SUBSET S : /\ IsFiniteSet(T) /\ Cardinality(T) \in Nat
                          /\ Cardinality(T) <= Cardinality(S)
                          /\ T # {} => Cardinality(T \ {Chosen(T)}) = Cardinality(T) - 1
  BY FS_Subset, FS_CardinalityType, FS_RemoveElement, ChosenIn
<1>2. Cardinality(S) \in Nat
  BY FS_CardinalityType
<1>3. P(Cardinality(S))
  <2> SUFFICES ASSUME ~P(Cardinality(S)) PROVE FALSE
    OBVIOUS
  <2>1. PICK m \in Bad : \A k \in Bad : m <= k
    <3>1. Bad \in SUBSET Nat /\ Bad # {}
      <4> HIDE DEF P
      <4> QED BY <1>2
    <3> HIDE DEF Bad
    <3> QED BY <3>1, NatMin
  <2>2. m \in Nat /\ ~P(m)
    OBVIOUS
  <2>3. m # 0
    <3> SUFFICES ASSUME m = 0 PROVE P(m)
      BY <2>2
    <3>1. \A T \in Small(m) : T = {}
      <4> SUFFICES ASSUME NEW T \in Small(m) PROVE T = {}
        OBVIOUS
      <4>1. T \in SUBSET S /\ Cardinality(T) <= 0
        OBVIOUS
      <4>2. IsFiniteSet(T) /\ Cardinality(T) \in Nat
        BY <1>1, <4>1
      <4>3. Cardinality(T) = 0
        BY <4>1, <4>2
      <4> QED BY <4>2, <4>3, FS_EmptySet
    <3> DEFINE z == [T \in Small(m) |-> 0]
    <3>2. z \in [Small(m) -> Nat] /\ \A T \in Small(m) : z[T] = 0
      OBVIOUS
    <3> HIDE DEF Small, z
    <3> QED BY <3>1, <3>2
  <2>4. P(m - 1)
    <3>1. m - 1 \in Nat /\ ~(m <= m - 1)
      BY <2>2, <2>3
    <3> HIDE DEF P
    <3> QED BY <2>1, <3>1
  <2>5. PICK g \in [Small(m - 1) -> Nat] : \A T \in Small(m - 1) :
          g[T] = IF T = {} THEN 0 ELSE f[Chosen(T)] + g[T \ {Chosen(T)}]
    BY <2>4
  <2> DEFINE h == [T \in Small(m) |->
                     IF T = {} THEN 0 ELSE f[Chosen(T)] + g[T \ {Chosen(T)}]]
  <2>6. \A T \in Small(m) : T # {} => /\ T \ {Chosen(T)} \in Small(m - 1)
                                      /\ T \ {Chosen(T)} \in Small(m)
                                      /\ Chosen(T) \in S
    <3> SUFFICES ASSUME NEW T \in Small(m), T # {}
                 PROVE  /\ T \ {Chosen(T)} \in Small(m - 1)
                        /\ T \ {Chosen(T)} \in Small(m)
                        /\ Chosen(T) \in S
      OBVIOUS
    <3>1. T \in SUBSET S /\ T \ {Chosen(T)} \in SUBSET S /\ Cardinality(T) <= m
      OBVIOUS
    <3>2. Chosen(T) \in S
      BY <3>1, ChosenIn
    <3>3. Cardinality(T) \in Nat /\ Cardinality(T \ {Chosen(T)}) = Cardinality(T) - 1
      BY <1>1, <3>1
    <3> QED BY <2>2, <3>1, <3>2, <3>3
  <2>7. h \in [Small(m) -> Nat]
    <3> SUFFICES ASSUME NEW T \in Small(m), T # {}
                 PROVE  f[Chosen(T)] + g[T \ {Chosen(T)}] \in Nat
      OBVIOUS
    <3>1. f[Chosen(T)] \in Nat /\ g[T \ {Chosen(T)}] \in Nat
      <4> HIDE DEF Small
      <4> QED BY <2>5, <2>6
    <3> QED BY <3>1
  <2>8. \A T \in Small(m - 1) : T \in Small(m) /\ h[T] = g[T]
    <3>1. Small(m - 1) \subseteq Small(m)
      <4> SUFFICES ASSUME NEW T \in Small(m - 1) PROVE T \in Small(m)
        BY Zenon
      <4>1. T \in SUBSET S /\ Cardinality(T) <= m - 1
        OBVIOUS
      <4>2. Cardinality(T) \in Nat
        BY <1>1, <4>1
      <4> QED BY <2>2, <4>1, <4>2
    <3> HIDE DEF Small
    <3> QED BY <2>5, <3>1
  <2>9. \A T \in Small(m) :
          h[T] = IF T = {} THEN 0 ELSE f[Chosen(T)] + h[T \ {Chosen(T)}]
    <3> HIDE DEF Small
    <3> QED BY <2>6, <2>8
  <2>10. P(m)
    <3> HIDE DEF h, Small
    <3> QED BY <2>7, <2>9
  <2> QED BY <2>2, <2>10
<1>4. Small(Cardinality(S)) = SUBSET S
  BY <1>1
<1> HIDE DEF Small
<1> QED BY <1>3, <1>4 DEF Sums

\* Hence SumFunction is what its recursion says.
LEMMA SumIsSums ==
  ASSUME NEW S, IsFiniteSet(S), NEW f \in [S -> Nat]
  PROVE  \E g : Sums(f, g) /\ SumFunction(f) = g[S]
<1> DEFINE h == CHOOSE g : g = [T \in SUBSET DOMAIN f |->
                  IF T = {} THEN 0 ELSE f[Chosen(T)] + g[T \ {Chosen(T)}]]
<1>1. PICK g : Sums(f, g)
  BY SumsExist
<1>2. g = [T \in SUBSET DOMAIN f |->
             IF T = {} THEN 0 ELSE f[Chosen(T)] + g[T \ {Chosen(T)}]]
  <2>1. g = [T \in SUBSET DOMAIN f |-> g[T]]
    BY <1>1 DEF Sums
  <2> QED BY <1>1, <2>1 DEF Sums
<1>3. h = [T \in SUBSET DOMAIN f |->
             IF T = {} THEN 0 ELSE f[Chosen(T)] + h[T \ {Chosen(T)}]]
  BY <1>2, Zenon
<1>4. SumFunction(f) = h[S]
  BY SumUnfolds
<1> HIDE DEF h
<1>5. \A T \in SUBSET S : T \in {U \in SUBSET S : h[U] = g[U]}
  <2> DEFINE Good == {U \in SUBSET S : h[U] = g[U]}
  <2>1. \A T \in SUBSET S : (\A x \in T : T \ {x} \in Good) => T \in Good
    <3> SUFFICES ASSUME NEW T \in SUBSET S, \A x \in T : T \ {x} \in Good
                 PROVE  h[T] = g[T]
      OBVIOUS
    <3>1. CASE T = {}
      BY <1>2, <1>3, <3>1
    <3>2. CASE T # {}
      <4>1. h[T \ {Chosen(T)}] = g[T \ {Chosen(T)}]
        BY <3>2, ChosenIn
      <4>2. DOMAIN f = S
        OBVIOUS
      <4>3. g[T] = f[Chosen(T)] + g[T \ {Chosen(T)}]
        BY <1>1, <3>2, <4>2 DEF Sums
      <4>4. h[T] = f[Chosen(T)] + h[T \ {Chosen(T)}]
        BY <1>3, <3>2, <4>2
      <4> QED BY <4>1, <4>3, <4>4
    <3> QED BY <3>1, <3>2
  <2> HIDE DEF Good
  <2>2. \A T \in SUBSET S : T \in Good
    BY <2>1, FiniteInduction
  <2> QED BY <2>2 DEF Good
<1>6. h[S] = g[S]
  BY <1>5
<1> QED BY <1>1, <1>4, <1>6

\* The sum does not depend on the order in which elements are chosen.
LEMMA SumsInsert ==
  ASSUME NEW S, IsFiniteSet(S), NEW f \in [S -> Nat], NEW g, Sums(f, g)
  PROVE  \A T \in SUBSET S : \A x \in S \ T : g[T \cup {x}] = f[x] + g[T]
<1> DEFINE Good == {T \in SUBSET S : \A x \in S \ T : g[T \cup {x}] = f[x] + g[T]}
<1>0. DOMAIN f = S
  OBVIOUS
<1>1. \A T \in SUBSET S : (\A y \in T : T \ {y} \in Good) => T \in Good
  <2> SUFFICES ASSUME NEW T \in SUBSET S, \A y \in T : T \ {y} \in Good,
                      NEW x \in S \ T
               PROVE  g[T \cup {x}] = f[x] + g[T]
    OBVIOUS
  <2> DEFINE U == T \cup {x}
             y == Chosen(U)
  <2>1. U \in SUBSET S /\ U # {} /\ y \in U
    BY ChosenIn
  <2>2. g[U] = f[y] + g[U \ {y}]
    BY <1>0, <2>1 DEF Sums
  <2>3. CASE y = x
    <3>1. U \ {y} = T
      BY <2>3
    <3> QED BY <2>2, <2>3, <3>1
  <2>4. CASE y # x
    <3>0. y \in T
      BY <2>1, <2>4
    <3> HIDE DEF y
    <3>1. T \ {y} \in Good /\ x \in S \ (T \ {y}) /\ y \in S \ (T \ {y})
      BY <3>0
    <3>2. U \ {y} = (T \ {y}) \cup {x} /\ T = (T \ {y}) \cup {y}
      BY <2>4, <3>0
    <3>3. g[U \ {y}] = f[x] + g[T \ {y}] /\ g[T] = f[y] + g[T \ {y}]
      BY <3>1, <3>2
    <3>4. f[x] \in Nat /\ f[y] \in Nat /\ g[T \ {y}] \in Nat
      BY <1>0, <3>0 DEF Sums
    <3> HIDE DEF U
    <3>5. g[U] = f[x] + g[T]
      BY <2>2, <3>3, <3>4
    <3> QED BY <3>5 DEF U
  <2> QED BY <2>3, <2>4
<1> HIDE DEF Good
<1>2. \A T \in SUBSET S : T \in Good
  BY <1>1, FiniteInduction
<1> QED BY <1>2 DEF Good

\* Nor does it depend on the arguments at which the values are.
LEMMA SumsRename ==
  ASSUME NEW S, IsFiniteSet(S), NEW f \in [S -> Nat], NEW g, Sums(f, g),
         NEW R, IsFiniteSet(R), NEW e \in [R -> Nat], NEW d, Sums(e, d),
         NEW h \in [R -> S], \A a, b \in R : h[a] = h[b] => a = b,
         \A a \in R : e[a] = f[h[a]]
  PROVE  \A T \in SUBSET R : d[T] = g[{h[a] : a \in T}]
<1>1. ASSUME NEW I \in SUBSET S, NEW z \in S \ I
      PROVE  g[I \cup {z}] = f[z] + g[I]
  BY SumsInsert
<1> DEFINE Image(T) == {h[a] : a \in T}
           Good == {T \in SUBSET R : d[T] = g[Image(T)]}
<1>2. DOMAIN f = S /\ DOMAIN e = R
  OBVIOUS
<1>3. \A T \in SUBSET R : (\A y \in T : T \ {y} \in Good) => T \in Good
  <2> SUFFICES ASSUME NEW T \in SUBSET R, \A y \in T : T \ {y} \in Good
               PROVE  d[T] = g[Image(T)]
    OBVIOUS
  <2>1. CASE T = {}
    <3>1. Image(T) = {}
      BY <2>1
    <3>2. d[T] = 0 /\ g[{}] = 0
      BY <1>2, <2>1 DEF Sums
    <3> QED BY <3>1, <3>2
  <2>2. CASE T # {}
    <3> DEFINE y == Chosen(T)
    <3>1. y \in T /\ T \in SUBSET DOMAIN e
      BY <2>2, ChosenIn
    <3>2. d[T] = e[y] + d[T \ {y}]
      BY <2>2, <3>1 DEF Sums
    <3> HIDE DEF y
    <3>3. d[T \ {y}] = g[Image(T \ {y})]
      BY <3>1
    <3>4. /\ Image(T \ {y}) \in SUBSET S
          /\ h[y] \in S \ Image(T \ {y})
          /\ Image(T) = Image(T \ {y}) \cup {h[y]}
      BY <3>1
    <3>5. g[Image(T)] = f[h[y]] + g[Image(T \ {y})]
      <4> HIDE DEF Image
      <4> QED BY <1>1, <3>4
    <3> QED BY <3>1, <3>2, <3>3, <3>5
  <2> QED BY <2>1, <2>2
<1>4. \A T \in SUBSET R : T \in Good
  <2> HIDE DEF Good
  <2> QED BY <1>3, FiniteInduction
<1> QED BY <1>4

\* e has the values of f but the one at x, each once, at other arguments.
Without(f, S, x, e, R, h) ==
  /\ IsFiniteSet(S) /\ x \in S
  /\ f \in [S -> Nat] /\ e \in [R -> Nat] /\ h \in [R -> S \ {x}]
  /\ \A a, b \in R : h[a] = h[b] => a = b
  /\ \A y \in S \ {x} : \E a \in R : h[a] = y
  /\ \A a \in R : e[a] = f[h[a]]

\* Taking one argument away takes its value from the sum.
LEMMA SumWithout ==
  ASSUME NEW S, NEW f, NEW x, NEW R, NEW e, NEW h, Without(f, S, x, e, R, h)
  PROVE  SumFunction(f) = f[x] + SumFunction(e) /\ SumFunction(e) \in Nat
<1> USE DEF Without
<1>1. IsFiniteSet(S \ {x})
  BY FS_RemoveElement
<1>2. IsFiniteSet(R)
  <2>1. h \in Injection(R, S \ {x})
    BY DEF Injection, IsInjective
  <2> QED BY <1>1, <2>1, FS_Injection
<1>3. PICK g : Sums(f, g) /\ SumFunction(f) = g[S]
  BY SumIsSums
<1>4. PICK d : Sums(e, d) /\ SumFunction(e) = d[R]
  BY <1>2, SumIsSums
<1>5. h \in [R -> S]
  OBVIOUS
<1>6. d[R] = g[{h[a] : a \in R}]
  BY <1>2, <1>3, <1>4, <1>5, SumsRename
<1>7. {h[a] : a \in R} = S \ {x}
  OBVIOUS
<1>8. g[(S \ {x}) \cup {x}] = f[x] + g[S \ {x}]
  BY <1>3, SumsInsert
<1>9. (S \ {x}) \cup {x} = S
  OBVIOUS
<1>10. d[R] \in Nat
  BY <1>4 DEF Sums
<1> QED BY <1>3, <1>4, <1>6, <1>7, <1>8, <1>9, <1>10

-----------------------------------------------------------------------------
(* Bytes.  Lost only changes when alloc cuts a gap off.                      *)

\* Unlinking a region takes its bytes from the list.
LEMMA RemoveBytes ==
  ASSUME NEW list \in Seq(Region), NEW i \in 1 .. Len(list)
  PROVE  /\ ListBytes(list) = list[i].size + ListBytes(RemoveAt(list, i))
         /\ ListBytes(RemoveAt(list, i)) \in Nat
<1> DEFINE rest == RemoveAt(list, i)
           S == 1 .. Len(list)
           R == 1 .. Len(rest)
           f == [k \in S |-> list[k].size]
           e == [k \in R |-> rest[k].size]
           h == [k \in R |-> IF k < i THEN k ELSE k + 1]
<1>1. /\ rest \in Seq(Region)
      /\ Len(rest) = Len(list) - 1
      /\ \A k \in 1 .. Len(list) - 1 : rest[k] = list[IF k < i THEN k ELSE k + 1]
  BY RemoveAtFacts
<1>2. Len(list) \in Nat /\ i \in S
  OBVIOUS
<1>3. IsFiniteSet(S)
  BY <1>2, FS_Interval
<1>4. f \in [S -> Nat]
  <2>1. \A k \in S : list[k] \in Region
    OBVIOUS
  <2>2. \A k \in S : list[k].size \in Nat
    BY <2>1 DEF Region
  <2> QED BY <2>2
<1>5. e \in [R -> Nat]
  <2> HIDE DEF rest
  <2>1. \A k \in R : rest[k] \in Region
    BY <1>1
  <2>2. \A k \in R : rest[k].size \in Nat
    BY <2>1 DEF Region
  <2> QED BY <2>2
<1>6. h \in [R -> S \ {i}]
  BY <1>1, <1>2
<1>7. \A a, b \in R : h[a] = h[b] => a = b
  BY <1>1, <1>2
<1>8. \A y \in S \ {i} : \E a \in R : h[a] = y
  <2> SUFFICES ASSUME NEW y \in S \ {i} PROVE \E a \in R : h[a] = y
    OBVIOUS
  <2>1. CASE y < i
    <3>1. y \in R /\ h[y] = y
      BY <1>1, <1>2, <2>1
    <3> QED BY <3>1
  <2>2. CASE ~(y < i)
    <3>1. y - 1 \in R /\ h[y - 1] = y
      BY <1>1, <1>2, <2>2
    <3> QED BY <3>1
  <2> QED BY <2>1, <2>2
<1>9. \A a \in R : e[a] = f[h[a]]
  <2>1. \A a \in R : e[a] = rest[a].size /\ h[a] \in S /\ f[h[a]] = list[h[a]].size
    BY <1>6
  <2>2. \A a \in R : rest[a] = list[h[a]]
    BY <1>1
  <2> HIDE DEF rest, f, e, h, R, S
  <2> QED BY <2>1, <2>2
<1>10. ListBytes(list) = SumFunction(f) /\ ListBytes(rest) = SumFunction(e)
  BY DEF ListBytes
<1>11. f[i] = list[i].size
  BY <1>2
<1> HIDE DEF rest, S, R, f, e, h
<1>12. SumFunction(f) = f[i] + SumFunction(e) /\ SumFunction(e) \in Nat
  <2>1. Without(f, S, i, e, R, h)
    BY <1>2, <1>3, <1>4, <1>5, <1>6, <1>7, <1>8, <1>9 DEF Without
  <2> QED BY <2>1, SumWithout
<1> QED BY <1>10, <1>11, <1>12 DEF rest

\* add_free_region adds the bytes of its region to the list.
LEMMA ConsBytes ==
  ASSUME NEW list \in Seq(Region), NEW r \in Region
  PROVE  /\ ListBytes(Cons(r, list)) = r.size + ListBytes(list)
         /\ ListBytes(list) \in Nat
<1> DEFINE s == Cons(r, list)
<1>1. /\ s \in Seq(Region) /\ Len(s) = Len(list) + 1 /\ s[1] = r
      /\ \A k \in 2 .. Len(list) + 1 : s[k] = list[k - 1]
  BY ConsFacts
<1> HIDE DEF s
<1>2. RemoveAt(s, 1) = list
  <2>1. 1 \in 1 .. Len(s) /\ Len(list) \in Nat
    BY <1>1
  <2>2. /\ RemoveAt(s, 1) \in Seq(Region)
        /\ Len(RemoveAt(s, 1)) = Len(list)
        /\ \A k \in 1 .. Len(list) : RemoveAt(s, 1)[k] = s[k + 1]
    <3>1. /\ RemoveAt(s, 1) \in Seq(Region)
          /\ Len(RemoveAt(s, 1)) = Len(s) - 1
          /\ \A k \in 1 .. Len(s) - 1 : RemoveAt(s, 1)[k] = s[IF k < 1 THEN k ELSE k + 1]
      BY <1>1, <2>1, RemoveAtFacts
    <3> QED BY <1>1, <2>1, <3>1
  <2>3. \A k \in 1 .. Len(list) : RemoveAt(s, 1)[k] = list[k]
    BY <1>1, <2>1, <2>2
  <2> QED BY <2>2, <2>3, SeqEqual
<1>3. 1 \in 1 .. Len(s)
  BY <1>1
<1>4. /\ ListBytes(s) = s[1].size + ListBytes(RemoveAt(s, 1))
      /\ ListBytes(RemoveAt(s, 1)) \in Nat
  BY <1>1, <1>3, RemoveBytes
<1> QED BY <1>1, <1>2, <1>4 DEF s

\* The bytes in use without those of one block.
LEMMA BlockBytesWithout ==
  ASSUME NEW B, B \subseteq Block, IsFiniteSet(B), NEW b \in B
  PROVE  /\ BlockBytes(B) = Size(b.layout) + BlockBytes(B \ {b})
         /\ BlockBytes(B \ {b}) \in Nat
<1> DEFINE R == B \ {b}
           f == [c \in B |-> Size(c.layout)]
           e == [c \in R |-> Size(c.layout)]
           h == [c \in R |-> c]
<1>1. \A c \in B : Size(c.layout) \in Nat
  BY SizeAlign DEF Block
<1>2. f \in [B -> Nat] /\ e \in [R -> Nat] /\ h \in [R -> B \ {b}]
  BY <1>1
<1>3. /\ \A a, c \in R : h[a] = h[c] => a = c
      /\ \A y \in B \ {b} : \E a \in R : h[a] = y
      /\ \A a \in R : e[a] = f[h[a]]
  OBVIOUS
<1>4. BlockBytes(B) = SumFunction(f) /\ BlockBytes(R) = SumFunction(e)
  BY DEF BlockBytes
<1>5. f[b] = Size(b.layout)
  OBVIOUS
<1> HIDE DEF R, f, e, h
<1>6. SumFunction(f) = f[b] + SumFunction(e) /\ SumFunction(e) \in Nat
  <2>1. Without(f, B, b, e, R, h)
    BY <1>2, <1>3 DEF Without
  <2> QED BY <2>1, SumWithout
<1> QED BY <1>4, <1>5, <1>6 DEF R

\* The blocks in use are finitely many, so that their bytes have a sum.
FiniteInv == IInv /\ IsFiniteSet(live)

\* The bytes of a list and of finitely many blocks are a number.
LEMMA BytesAreNumbers ==
  ASSUME NEW list \in Seq(Region), NEW B, B \subseteq Block, IsFiniteSet(B)
  PROVE  ListBytes(list) \in Nat /\ BlockBytes(B) \in Nat
<1>1. ListBytes(list) \in Nat
  <2>1. [addr |-> 0, size |-> 0] \in Region
    BY DEF Region
  <2> QED BY <2>1, ConsBytes
<1>2. \A c \in B : Size(c.layout) \in Nat
  BY SizeAlign DEF Block
<1>3. BlockBytes(B) \in Nat
  <2> DEFINE f == [c \in B |-> Size(c.layout)]
  <2>1. f \in [B -> Nat]
    BY <1>2
  <2>2. BlockBytes(B) = SumFunction(f)
    BY DEF BlockBytes
  <2> HIDE DEF f
  <2>3. PICK g : Sums(f, g) /\ SumFunction(f) = g[B]
    BY <2>1, SumIsSums
  <2>4. g[B] \in Nat
    BY <2>1, <2>3 DEF Sums
  <2> QED BY <2>2, <2>3, <2>4
<1> QED BY <1>1, <1>3

\* What alloc takes from the list, beyond the block, is the gap in front of it.
LEMMA AllocLoss ==
  ASSUME FiniteInv, NEW l \in Layouts, Alloc(l)
  PROVE  LossStep /\ IsFiniteSet(live')
<1>1. PICK i \in 1 .. Len(free) :
        /\ FitsRegion(free[i], Size(l), Align(l))
        /\ AllocFrom(i, l)
        /\ live' = IF panicked' THEN live
                   ELSE live \cup {[addr |-> align_up(free[i].addr, Align(l)),
                                    layout |-> l]}
  BY DEF Alloc, FirstFit
<1> DEFINE start == align_up(free[i].addr, Align(l))
           end == start + Size(l)
           excess == EndAddr(free[i]) - end
           rest == RemoveAt(free, i)
           b == [addr |-> start, layout |-> l]
<1>2. IInv /\ IInv' /\ free \in Seq(Region) /\ live \subseteq Block /\ IsFiniteSet(live)
  BY AllocStep DEF FiniteInv, IInv, Sound
<1>3. /\ start \in Nat /\ end \in Nat /\ excess \in Nat
      /\ free[i].addr \in Nat /\ free[i].size \in Nat
      /\ free[i].addr <= start
      /\ end + excess = free[i].addr + free[i].size
  BY <1>1, <1>2, CutRegion
<1>4. IF excess > 0 THEN AddFreeRegion(rest, end, excess)
                    ELSE free' = rest /\ UNCHANGED panicked
  BY <1>1 DEF AllocFrom
<1>5. live' = live \cup {b} /\ panicked' = FALSE
  BY <1>1, <1>2 DEF IInv
<1>6. b.layout = l /\ b.addr = start /\ Size(l) \in Nat /\ Size(l) > 0
  BY SizeAlign, HeapAssumption
<1>7. b \notin live
  <2>1. PICK a \in Nat :
          /\ \A c \in live : Apart(a, Size(l), c.addr, Size(c.layout))
          /\ live' = live \cup {[addr |-> a, layout |-> l]}
    BY <1>2, AllocStep
  <2> SUFFICES ASSUME b \in live PROVE FALSE
    OBVIOUS
  <2>2. [addr |-> a, layout |-> l] \in live
    BY <1>5, <2>1
  <2>3. Apart(a, Size(l), a, Size(l))
    BY <2>1, <2>2
  <2> QED BY <1>6, <2>3 DEF Apart
<1>8. end = start + Size(l)
  OBVIOUS
<1>9. /\ rest \in Seq(Region)
      /\ ListBytes(free) = free[i].size + ListBytes(rest)
      /\ ListBytes(rest) \in Nat
  BY <1>2, RemoveAtFacts, RemoveBytes
<1>10. l.align <= NodeAlign => start = free[i].addr
  <2> SUFFICES ASSUME l.align <= NodeAlign PROVE start = free[i].addr
    OBVIOUS
  <2>1. l.align \in Nat /\ NodeAlign \in Nat \ {0}
    BY LayoutAssumption, HeapAssumption
  <2>2. Align(l) = NodeAlign
    BY <2>1 DEF Align, MaxOf
  <2>3. free[i].addr % NodeAlign = 0
    BY <1>2 DEF IInv, Sound, RegionsSound
  <2> QED BY <1>3, <2>1, <2>2, <2>3, AlignUpAligned
<1> HIDE DEF start, end, excess, rest, b
<1>11. ListBytes(free') = excess + ListBytes(rest)
  <2>1. CASE excess > 0
    <3>1. free' = Cons([addr |-> end, size |-> excess], rest)
      BY <1>4, <1>5, <2>1 DEF AddFreeRegion
    <3>2. [addr |-> end, size |-> excess] \in Region
      BY <1>3 DEF Region
    <3>3. ListBytes(Cons([addr |-> end, size |-> excess], rest))
            = [addr |-> end, size |-> excess].size + ListBytes(rest)
      BY <1>9, <3>2, ConsBytes
    <3> QED BY <3>1, <3>3
  <2>2. CASE excess = 0
    BY <1>3, <1>4, <1>9, <2>2
  <2> QED BY <1>3, <2>1, <2>2
<1>12. IsFiniteSet(live') /\ live' \subseteq Block /\ live' \ {b} = live /\ b \in live'
  <2>1. IsFiniteSet(live')
    BY <1>2, <1>5, FS_AddElement
  <2>2. live' \subseteq Block
    BY <1>2 DEF IInv, Sound
  <2> QED BY <1>5, <1>7, <2>1, <2>2
<1>13. BlockBytes(live') = Size(l) + BlockBytes(live) /\ BlockBytes(live) \in Nat
  <2>1. /\ BlockBytes(live') = Size(b.layout) + BlockBytes(live' \ {b})
        /\ BlockBytes(live' \ {b}) \in Nat
    BY <1>12, BlockBytesWithout
  <2> QED BY <1>6, <1>12, <2>1
<1>14. HEAP_SIZE \in Nat
  BY HeapAssumption
<1>15. Lost' = Lost + (start - free[i].addr) /\ Lost \in Int
  <2>1. /\ Lost = HEAP_SIZE - ListBytes(free) - BlockBytes(live)
        /\ Lost' = HEAP_SIZE - ListBytes(free') - BlockBytes(live')
    BY DEF Lost, ListBytes, BlockBytes
  <2> DEFINE LR == ListBytes(rest)
             BL == BlockBytes(live)
             size == Size(l)
             from == free[i].addr
             long == free[i].size
  <2>2. /\ Lost = HEAP_SIZE - (long + LR) - BL
        /\ Lost' = HEAP_SIZE - (excess + LR) - (size + BL)
    BY <1>9, <1>11, <1>13, <2>1
  <2>3. /\ LR \in Nat /\ BL \in Nat /\ size \in Nat /\ from \in Nat /\ long \in Nat
        /\ start \in Nat /\ excess \in Nat
    BY <1>3, <1>6, <1>9, <1>13
  <2>4. start + size + excess = from + long
    BY <1>3, <1>8
  <2> HIDE DEF LR, BL, size, from, long
  <2>5. Lost' = Lost + (start - from) /\ Lost \in Int
    BY <1>14, <2>2, <2>3, <2>4
  <2> QED BY <2>5 DEF from
<1>16. Lost' >= Lost
  BY <1>3, <1>15
<1>17. Lost' # Lost => \E c \in live' \ live : c.layout.align > NodeAlign
  <2> SUFFICES ASSUME Lost' # Lost PROVE b.layout.align > NodeAlign
    BY <1>7, <1>12
  <2>1. l.align \in Nat /\ NodeAlign \in Nat
    BY LayoutAssumption, HeapAssumption
  <2>2. start # free[i].addr
    BY <1>3, <1>15
  <2> QED BY <1>6, <1>10, <2>1, <2>2
<1> QED BY <1>12, <1>16, <1>17 DEF LossStep

\* dealloc gives back exactly what the block took.
LEMMA DeallocLoss ==
  ASSUME FiniteInv, NEW b \in live, Dealloc(b)
  PROVE  Lost' = Lost /\ IsFiniteSet(live')
<1>1. IInv /\ free \in Seq(Region) /\ live \subseteq Block /\ IsFiniteSet(live)
  BY DEF FiniteInv, IInv, Sound
<1> DEFINE r == [addr |-> b.addr, size |-> Size(b.layout)]
<1>2. free' = Cons(r, free) /\ live' = live \ {b}
  BY <1>1, DeallocStep
<1>3. b.addr \in Nat /\ b.layout \in Layouts
  BY <1>1 DEF Block
<1>4. Size(b.layout) \in Nat
  BY <1>3, SizeAlign
<1>5. r \in Region /\ r.size = Size(b.layout)
  BY <1>3, <1>4 DEF Region
<1> HIDE DEF r
<1>6. ListBytes(free') = Size(b.layout) + ListBytes(free) /\ ListBytes(free) \in Nat
  BY <1>1, <1>2, <1>5, ConsBytes
<1>7. /\ BlockBytes(live) = Size(b.layout) + BlockBytes(live')
      /\ BlockBytes(live') \in Nat
  BY <1>1, <1>2, BlockBytesWithout
<1>8. /\ Lost = HEAP_SIZE - ListBytes(free) - BlockBytes(live)
      /\ Lost' = HEAP_SIZE - ListBytes(free') - BlockBytes(live')
  BY DEF Lost, ListBytes, BlockBytes
<1>9. IsFiniteSet(live')
  BY <1>1, <1>2, FS_RemoveElement
<1> QED BY <1>4, <1>6, <1>7, <1>8, <1>9, HeapAssumption

\* Both operations, and a step that changes nothing.
LEMMA StepLoss == FiniteInv /\ [Next]_vars => FiniteInv' /\ LossStep
<1> SUFFICES ASSUME FiniteInv, [Next]_vars
             PROVE  FiniteInv' /\ LossStep
  OBVIOUS
<1>0. Lost \in Int
  BY BytesAreNumbers, HeapAssumption DEF Lost, FiniteInv, IInv, Sound
<1>1. IInv'
  BY NextIInv DEF FiniteInv
<1>2. CASE UNCHANGED vars
  <2>1. Lost' = Lost /\ live' = live
    BY <1>2 DEF vars, Lost, ListBytes, BlockBytes
  <2> QED BY <1>0, <1>1, <2>1 DEF FiniteInv, LossStep
<1>3. ASSUME NEW l \in Layouts, Alloc(l)
      PROVE  FiniteInv' /\ LossStep
  BY <1>1, <1>3, AllocLoss DEF FiniteInv
<1>4. ASSUME NEW b \in live, Dealloc(b)
      PROVE  FiniteInv' /\ LossStep
  <2>1. Lost' = Lost /\ IsFiniteSet(live')
    BY <1>4, DeallocLoss
  <2> QED BY <1>0, <1>1, <2>1 DEF FiniteInv, LossStep
<1> QED BY <1>2, <1>3, <1>4 DEF Next

\* After init all of the heap is free.
LEMMA InitLoss == Init => FiniteInv /\ Lost = 0
<1> SUFFICES ASSUME Init PROVE FiniteInv /\ Lost = 0
  OBVIOUS
<1>1. FiniteInv
  BY InitIInv, FS_EmptySet DEF Init, FiniteInv
<1> DEFINE r == [addr |-> HEAP_START, size |-> HEAP_SIZE]
<1>2. free = <<r>> /\ live = {} /\ r \in Region /\ r.size = HEAP_SIZE /\ HEAP_SIZE \in Nat
  BY HeapAssumption DEF Init, Region
<1> HIDE DEF r
<1>3. free = Cons(r, <<>>) /\ <<>> \in Seq(Region)
  BY <1>2 DEF Cons
<1>4. ListBytes(free) = r.size + ListBytes(<<>>)
  BY <1>2, <1>3, ConsBytes
<1>5. \A f : f \in [{} -> Nat] => SumFunction(f) = 0
  <2> SUFFICES ASSUME NEW f \in [{} -> Nat] PROVE SumFunction(f) = 0
    OBVIOUS
  <2>1. PICK g : Sums(f, g) /\ SumFunction(f) = g[{}]
    BY FS_EmptySet, SumIsSums
  <2> QED BY <2>1 DEF Sums
<1>6. ListBytes(<<>>) = 0 /\ BlockBytes(live) = 0
  <2>1. [i \in 1 .. Len(<<>>) |-> <<>>[i].size] \in [{} -> Nat]
    OBVIOUS
  <2>2. [c \in live |-> Size(c.layout)] \in [{} -> Nat]
    BY <1>2
  <2> QED BY <1>5, <2>1, <2>2 DEF ListBytes, BlockBytes
<1> QED BY <1>1, <1>2, <1>4, <1>6 DEF Lost

\* Memory is lost only to the gap in front of a block that is aligned more than
\* a list node, and never comes back: alloc and dealloc account for all other
\* bytes.
THEOREM LossOnlyByAlignment == Spec => LostOnlyToAlignment
BY InitLoss, StepLoss, PTL DEF Spec, LostOnlyToAlignment

\* The free regions and the blocks in use are never larger than the heap
\* together.
THEOREM NothingGained == Spec => [](Lost >= 0)
<1>1. Init => FiniteInv /\ Lost >= 0
  BY InitLoss
<1>2. FiniteInv /\ Lost >= 0 /\ [Next]_vars => (FiniteInv /\ Lost >= 0)'
  <2>1. FiniteInv => Lost \in Int
    BY BytesAreNumbers, HeapAssumption DEF Lost, FiniteInv, IInv, Sound
  <2>2. FiniteInv' => Lost' \in Int
    <3>1. Lost' = HEAP_SIZE - ListBytes(free') - BlockBytes(live')
      BY DEF Lost, ListBytes, BlockBytes
    <3>2. FiniteInv' => ListBytes(free') \in Nat /\ BlockBytes(live') \in Nat
      BY BytesAreNumbers DEF FiniteInv, IInv, Sound
    <3> QED BY <3>1, <3>2, HeapAssumption
  <2> QED BY StepLoss, <2>1, <2>2 DEF LossStep
<1> QED BY <1>1, <1>2, PTL DEF Spec
=============================================================================
