----------------------------- MODULE PipeProofs ------------------------------
(***************************************************************************)
(* Proofs about the input pipe, for any number of readers, any capacity and*)
(* any number of characters: the kernel stops in push only for the two     *)
(* reasons that StopsOnlyWhenFull names, and the lock-free queue implements*)
(* the bounded FIFO of PipeAbs.                                            *)
(* A position is a lap and an index.  The facts about laps come first; then*)
(* the inductive invariant, which says for each slot, by its distance from *)
(* head and tail, what its stamp is; then the refinement.                  *)
(***************************************************************************)
EXTENDS Pipe, SequenceTheorems, TLAPS

\* Two multiples of m are at least m apart.
LEMMA Multiples ==
  ASSUME NEW a \in Int, NEW b \in Int, NEW m \in Nat \ {0}, a * m < b * m + m
  PROVE  a <= b
<1> SUFFICES ASSUME a >= b + 1 PROVE FALSE
  OBVIOUS
<1>1. PICK d \in Nat : a = b + 1 + d
  <2> WITNESS a - b - 1 \in Nat
  <2> QED OBVIOUS
<1>2. a * m = b * m + m + d * m
  BY <1>1
<1>3. d * m >= 0
  OBVIOUS
<1> QED BY <1>2, <1>3

\* What the prover knows of quotient and remainder.
LEMMA Division ==
  ASSUME NEW p \in Nat, NEW m \in Nat \ {0}
  PROVE  /\ p % m \in 0 .. m - 1
         /\ p \div m \in Nat
         /\ p = (p \div m) * m + (p % m)
OBVIOUS

\* A number's remainder is the one that a multiple leaves.
LEMMA Remainder ==
  ASSUME NEW q \in Nat, NEW m \in Nat \ {0}, NEW i \in 0 .. m - 1
  PROVE  (q * m + i) % m = i
<1> DEFINE p == q * m + i
<1> DEFINE k == p \div m
<1> DEFINE j == p % m
<1>1. p \in Nat
  OBVIOUS
<1>2. j \in 0 .. m - 1 /\ k \in Nat /\ p = k * m + j
  BY <1>1, Division
<1>3. k <= q /\ q <= k
  <2> HIDE DEF k, j
  <2>1. k * m < q * m + m /\ q * m < k * m + m
    BY <1>2
  <2> QED BY <2>1, <1>2, Multiples
<1> QED BY <1>2, <1>3

\* A lap is longer than the queue.
LEMMA OneLapType == OneLap \in Nat /\ OneLap > Capacity /\ Capacity \in Nat \ {0}
BY OneLapAssumption, PipeAssumption

\* The lap of a position is a multiple of one_lap.
LEMMA LapMultiple ==
  ASSUME NEW p \in Nat
  PROVE  \E q \in Nat : Lap(p) = q * OneLap
<1> HIDE DEF OneLap
<1>1. /\ p \div OneLap \in Nat /\ p % OneLap \in 0 .. OneLap - 1
      /\ p = (p \div OneLap) * OneLap + (p % OneLap)
  BY Division, OneLapType
<1>2. (p \div OneLap) * OneLap \in Nat
  BY <1>1, OneLapType
<1>3. Lap(p) = (p \div OneLap) * OneLap
  BY <1>1, <1>2 DEF Lap, Index
<1> QED BY <1>1, <1>3

\* A position is its lap plus its index.
LEMMA PositionFacts ==
  ASSUME NEW p \in Nat
  PROVE  /\ Index(p) \in Nat /\ Index(p) < OneLap
         /\ Lap(p) \in Nat
         /\ p = Lap(p) + Index(p)
<1> HIDE DEF OneLap
<1>1. PICK q \in Nat : Lap(p) = q * OneLap
  BY LapMultiple
<1>2. Lap(p) \in Nat
  BY <1>1, OneLapType
<1>3. p % OneLap \in 0 .. OneLap - 1
  BY Division, OneLapType
<1>4. Index(p) \in Nat /\ Index(p) < OneLap
  BY <1>3, OneLapType DEF Index
<1> QED BY <1>2, <1>4 DEF Lap

\* Conversely, a multiple of one_lap plus an index is that lap and that index.
LEMMA PositionIs ==
  ASSUME NEW q \in Nat, NEW i \in Nat, i < OneLap, NEW p, p = q * OneLap + i
  PROVE  p \in Nat /\ Index(p) = i /\ Lap(p) = q * OneLap
BY Remainder, OneLapType DEF Index, Lap

\* Different laps differ by one_lap at least.
LEMMA LapsApart ==
  ASSUME NEW p \in Nat, NEW q \in Nat, Lap(p) < Lap(q)
  PROVE  Lap(p) + OneLap <= Lap(q)
<1> HIDE DEF OneLap, Lap, Index
<1>1. PICK j \in Nat : Lap(p) = j * OneLap
  BY LapMultiple
<1>2. PICK k \in Nat : Lap(q) = k * OneLap
  BY LapMultiple
<1> SUFFICES ASSUME Lap(q) < Lap(p) + OneLap PROVE FALSE
  BY OneLapType, PositionFacts
<1>3. k <= j
  BY <1>1, <1>2, Multiples, OneLapType
<1>4. k * OneLap <= j * OneLap
  BY <1>3, OneLapType
<1> QED BY <1>1, <1>2, <1>4, OneLapType

\* Two positions of the same slot are one lap apart at least: within a lap a
\* position is known by its slot, which is what the stamps rely on.
LEMMA SameSlot ==
  ASSUME NEW p \in Nat, NEW q \in Nat, Index(p) = Index(q), p < q
  PROVE  p + OneLap <= q
<1> HIDE DEF OneLap, Lap, Index
<1>1. /\ p = Lap(p) + Index(p) /\ q = Lap(q) + Index(q)
      /\ Lap(p) \in Nat /\ Lap(q) \in Nat /\ Index(p) \in Nat
  BY PositionFacts
<1>2. Lap(p) + OneLap <= Lap(q)
  BY <1>1, LapsApart
<1> QED BY <1>1, <1>2, OneLapType

\* The position one lap later is the same slot.
LEMMA NextLap ==
  ASSUME NEW p \in Nat
  PROVE  p + OneLap \in Nat /\ Index(p + OneLap) = Index(p) /\ Lap(p + OneLap) = Lap(p) + OneLap
<1> HIDE DEF OneLap, Lap, Index
<1>1. PICK q \in Nat : Lap(p) = q * OneLap
  BY LapMultiple
<1>2. (q + 1) * OneLap = q * OneLap + OneLap /\ q + 1 \in Nat /\ q * OneLap \in Nat
  BY OneLapType
<1>3. p = Lap(p) + Index(p) /\ Index(p) \in Nat /\ Index(p) < OneLap /\ Lap(p) \in Nat
  BY PositionFacts
<1>4. p + OneLap = (q + 1) * OneLap + Index(p)
  <2>1. p + OneLap = (Lap(p) + OneLap) + Index(p)
    BY <1>3, OneLapType
  <2>2. Lap(p) + OneLap = (q + 1) * OneLap
    BY <1>1, <1>2
  <2> QED BY <2>1, <2>2
<1> QED BY <1>1, <1>2, <1>3, <1>4, PositionIs

\* The values that head and tail take: the index is that of a slot.
Position == {p \in Nat : Index(p) < Capacity}

\* What push and pop advance tail and head to: the next slot, or the first one
\* of the next lap.
LEMMA SuccessorFacts ==
  ASSUME NEW p \in Position
  PROVE  /\ Successor(p) \in Position
         /\ p < Successor(p) /\ Successor(p) <= p + OneLap
         /\ \/ /\ Index(p) + 1 < Capacity /\ Successor(p) = p + 1
               /\ Index(Successor(p)) = Index(p) + 1
               /\ Lap(Successor(p)) = Lap(p)
            \/ /\ Index(p) = Capacity - 1 /\ Successor(p) = Lap(p) + OneLap
               /\ Index(Successor(p)) = 0
               /\ Lap(Successor(p)) = Lap(p) + OneLap
<1> HIDE DEF OneLap, Lap, Index
<1>1. p \in Nat /\ Index(p) < Capacity
  BY DEF Position
<1>2. p = Lap(p) + Index(p) /\ Index(p) \in Nat /\ Index(p) < OneLap /\ Lap(p) \in Nat
  BY <1>1, PositionFacts
<1>3. PICK q \in Nat : Lap(p) = q * OneLap
  BY <1>1, LapMultiple
<1>4. CASE Index(p) + 1 < Capacity
  <2>1. Successor(p) = p + 1
    BY <1>4 DEF Successor
  <2>2. p + 1 = q * OneLap + (Index(p) + 1) /\ Index(p) + 1 \in Nat /\ Index(p) + 1 < OneLap
    BY <1>2, <1>3, <1>4, OneLapType
  <2>3. Index(p + 1) = Index(p) + 1 /\ Lap(p + 1) = Lap(p)
    BY <2>2, <1>3, PositionIs
  <2> QED BY <2>1, <2>3, <1>1, <1>2, <1>4, OneLapType DEF Position
<1>5. CASE ~(Index(p) + 1 < Capacity)
  <2>1. Successor(p) = Lap(p) + OneLap
    BY <1>5 DEF Successor
  <2>2. (q + 1) * OneLap = q * OneLap + OneLap /\ q + 1 \in Nat /\ q * OneLap \in Nat
    BY OneLapType
  <2>3. Lap(p) + OneLap = (q + 1) * OneLap + 0 /\ 0 < OneLap
    BY <1>3, <2>2, OneLapType
  <2>4. Index(Lap(p) + OneLap) = 0 /\ Lap(Lap(p) + OneLap) = Lap(p) + OneLap
    BY <2>2, <2>3, <1>3, PositionIs
  <2>5. Index(p) = Capacity - 1
    BY <1>1, <1>2, <1>5, OneLapType
  <2> QED BY <2>1, <2>4, <2>5, <1>1, <1>2, OneLapType DEF Position
<1> QED BY <1>4, <1>5

\* No position lies between one and its successor.
LEMMA SuccessorIsNext ==
  ASSUME NEW p \in Position, NEW q \in Position, p < q
  PROVE  Successor(p) <= q
<1> HIDE DEF OneLap, Lap, Index, Successor
<1>1. p \in Nat /\ Index(p) < Capacity /\ q \in Nat /\ Index(q) < Capacity
  BY DEF Position
<1>2. /\ p = Lap(p) + Index(p) /\ Index(p) \in Nat /\ Lap(p) \in Nat
      /\ q = Lap(q) + Index(q) /\ Index(q) \in Nat /\ Index(q) < OneLap /\ Lap(q) \in Nat
  BY <1>1, PositionFacts
<1>3. \/ Index(p) + 1 < Capacity /\ Successor(p) = p + 1
      \/ Index(p) = Capacity - 1 /\ Successor(p) = Lap(p) + OneLap
  BY SuccessorFacts
<1>4. CASE Lap(p) = Lap(q)
  BY <1>1, <1>2, <1>3, <1>4, OneLapType
<1>5. CASE Lap(p) < Lap(q)
  <2>1. Lap(p) + OneLap <= Lap(q)
    BY <1>1, <1>5, LapsApart
  <2> QED BY <1>2, <1>3, <2>1, OneLapType
<1>6. CASE Lap(q) < Lap(p)
  <2>1. Lap(q) + OneLap <= Lap(p)
    BY <1>1, <1>6, LapsApart
  <2> QED BY <1>2, <2>1, OneLapType
<1> QED BY <1>2, <1>4, <1>5, <1>6

\* Laps and successors commute.
LEMMA PositionNextLap ==
  ASSUME NEW p \in Position
  PROVE  /\ p + OneLap \in Position /\ Index(p + OneLap) = Index(p)
         /\ Successor(p + OneLap) = Successor(p) + OneLap
<1> HIDE DEF OneLap, Lap, Index
<1>1. p \in Nat /\ Index(p) < Capacity
  BY DEF Position
<1>2. p + OneLap \in Nat /\ Index(p + OneLap) = Index(p) /\ Lap(p + OneLap) = Lap(p) + OneLap
  BY <1>1, NextLap
<1>3. p + OneLap \in Position
  BY <1>1, <1>2 DEF Position
<1>4. Lap(p) \in Nat /\ Index(p) \in Nat
  BY <1>1, PositionFacts
<1> QED BY <1>1, <1>2, <1>3, <1>4, OneLapType DEF Successor

-----------------------------------------------------------------------------
\* A reader has claimed a slot and not released it yet.
Holding(r) == at[r] \in {"value", "release"}

TypeInv ==
  /\ head \in Position /\ tail \in Position
  /\ slot \in [Slots -> [stamp : Nat, value : Nat]]
  /\ status \in {"ok", "panicked", "spinning"}
  /\ typed \in 0 .. MaxTyped
  /\ at \in [Readers -> {"user", "head", "stamp", "tail", "claim", "value", "release"}]
  /\ seen \in [Readers -> Position]
  /\ need \in [Readers -> Nat]
  /\ got \in [Readers -> Seq(Nat)]
  /\ \A r \in Readers : at[r] # "user" => need[r] > 0

\* At most one lap of bytes lies between head and tail.
Window == head <= tail /\ tail <= head + OneLap

\* The slots from head to tail hold bytes that nobody claimed.
Filled == \A p \in Position : head <= p /\ p < tail => Stamp(p) = p + 1

\* From the tail on a slot is free for this lap, unless a reader that claimed
\* it a lap ago has not released it.
Vacant ==
  \A p \in Position :
    tail <= p /\ p < head + OneLap =>
      Stamp(p) = p \/ \E r \in Readers : Holding(r) /\ seen[r] + OneLap = p

\* A reader's slot stays as it was filled, and the tail does not pass it.
Held ==
  \A r \in Readers : Holding(r) =>
    /\ seen[r] < head
    /\ tail <= seen[r] + OneLap
    /\ Stamp(seen[r]) = seen[r] + 1

\* Two readers never hold the same position.
Alone == \A r, q \in Readers : Holding(r) /\ Holding(q) /\ r # q => seen[r] # seen[q]

\* A reader's copy of head is never ahead of head; and if it found the slot
\* filled, the tail was already past it, however late it gets to the exchange.
Popping ==
  \A r \in Readers :
    /\ at[r] \in {"stamp", "tail", "claim"} => seen[r] <= head
    /\ at[r] = "claim" => seen[r] < tail

\* The inductive invariant.  StopsOnlyWhenFull says nothing of the stamps, and
\* is reached from them in one step of the handler.
IInv ==
  /\ TypeInv
  /\ Window
  /\ Filled
  /\ Vacant
  /\ Held
  /\ Alone
  /\ Popping
  /\ StopsOnlyWhenFull

\* The index of a position is a slot.
LEMMA PositionType ==
  ASSUME NEW p \in Position
  PROVE  p \in Nat /\ Index(p) \in Slots
<1> HIDE DEF Index
<1>1. p \in Nat /\ Index(p) < Capacity
  BY DEF Position
<1> QED BY <1>1, PositionFacts, OneLapType DEF Slots

\* The empty queue: each slot's stamp is its own index.
LEMMA InitIInv == Init => IInv
<1> SUFFICES ASSUME Init PROVE IInv
  OBVIOUS
<1> HIDE DEF OneLap, Lap, Index, Successor
<1>1. Index(0) = 0
  BY PositionFacts, OneLapType
<1>2. 0 \in Position
  BY <1>1, OneLapType DEF Position
<1>3. TypeInv
  BY <1>2, PipeAssumption, OneLapType DEF Init, TypeInv, Slots
<1>4. \A p \in Position : p < OneLap => Stamp(p) = p
  <2> SUFFICES ASSUME NEW p \in Position, p < OneLap PROVE Stamp(p) = p
    OBVIOUS
  <2>1. Index(p) \in Slots /\ p \in Nat
    BY PositionType
  <2>2. p = 0 * OneLap + p
    BY <2>1, OneLapType
  <2>3. Index(p) = p
    BY <2>1, <2>2, PositionIs
  <2> QED BY <2>1, <2>3 DEF Init, Stamp
<1>5. Window /\ Filled
  BY <1>2, OneLapType, PositionType DEF Init, Window, Filled
<1>6. Vacant
  BY <1>4, OneLapType DEF Init, Vacant
<1>7. Held /\ Alone /\ Popping /\ StopsOnlyWhenFull
  BY DEF Init, Held, Alone, Popping, StopsOnlyWhenFull, Holding
<1> QED BY <1>3, <1>5, <1>6, <1>7 DEF IInv

\* keyboard_handler's push preserves the invariant.  If the slot at the tail is
\* free, filling it disturbs no other slot of the lap and no reader's; if not,
\* the queue is full or a reader holds that slot.
LEMMA TypedStep ==
  ASSUME IInv, Typed
  PROVE  IInv'
<1> HIDE DEF OneLap, Lap, Index, Successor
<1> USE OneLapType
<1>1. /\ head \in Position /\ tail \in Position /\ head \in Nat /\ tail \in Nat
      /\ Index(head) \in Slots /\ Index(tail) \in Slots
  BY PositionType DEF IInv, TypeInv
<1>2. head <= tail /\ tail <= head + OneLap
  BY DEF IInv, Window
<1>3. /\ head + OneLap \in Position
      /\ Index(head + OneLap) = Index(head)
  BY <1>1, PositionNextLap
<1>4. typed' \in 0 .. MaxTyped /\ typed' \in Nat
  BY PipeAssumption DEF IInv, TypeInv, Typed
<1>5. ASSUME tail = head + OneLap PROVE Stamp(tail) = head + 1
  <2>1. head < tail
    BY <1>1, <1>5
  <2>2. Stamp(head) = head + 1
    BY <1>1, <2>1 DEF IInv, Filled
  <2> QED BY <1>3, <1>5, <2>2 DEF Stamp
<1>6. CASE Stamp(tail) = tail
  <2>1. /\ slot' = [slot EXCEPT ![Index(tail)] = [stamp |-> tail + 1, value |-> typed']]
        /\ tail' = Successor(tail) /\ head' = head /\ status' = status /\ status = "ok"
        /\ at' = at /\ seen' = seen /\ need' = need /\ got' = got
    BY <1>6 DEF Typed
  <2>2. tail < head + OneLap
    BY <1>1, <1>2, <1>5, <1>6
  <2>3. /\ tail' \in Position /\ tail' \in Nat /\ tail < tail' /\ tail' <= head + OneLap
    BY <1>1, <1>3, <2>1, <2>2, SuccessorFacts, SuccessorIsNext, PositionType
  <2>4. \A p \in Position : Index(p) # Index(tail) => Stamp(p)' = Stamp(p)
    BY <2>1, PositionType DEF Stamp, IInv, TypeInv
  <2>6. TypeInv'
    BY <1>1, <1>4, <2>1, <2>3 DEF IInv, TypeInv
  <2>7. Window'
    BY <1>1, <1>2, <2>1, <2>3 DEF Window
  <2>8. Filled'
    <3> SUFFICES ASSUME NEW p \in Position, head <= p, p < tail'
                 PROVE  Stamp(p)' = p + 1
      BY <2>1 DEF Filled
    <3>1. p \in Nat
      BY PositionType
    <3>2. CASE p < tail
      <4>1. Index(p) # Index(tail)
        BY <1>1, <2>2, <3>1, <3>2, SameSlot
      <4> QED BY <2>4, <3>2, <4>1 DEF IInv, Filled
    <3>3. CASE p = tail
      BY <1>1, <2>1, <3>3 DEF Stamp, IInv, TypeInv
    <3>4. CASE p > tail
      <4>1. Successor(tail) <= p
        BY <1>1, <3>1, <3>4, SuccessorIsNext
      <4> QED BY <2>1, <2>3, <3>1, <4>1
    <3> QED BY <1>1, <3>1, <3>2, <3>3, <3>4
  <2>9. Vacant'
    <3> SUFFICES ASSUME NEW p \in Position, tail' <= p, p < head + OneLap
                 PROVE  \/ Stamp(p)' = p
                        \/ \E r \in Readers : Holding(r) /\ seen[r] + OneLap = p
      BY <2>1 DEF Vacant, Holding
    <3>1. p \in Nat /\ tail < p /\ tail <= p
      BY <1>1, <2>3, PositionType
    <3>2. Index(p) # Index(tail)
      BY <1>1, <1>2, <3>1, SameSlot
    <3> QED BY <2>4, <3>1, <3>2 DEF IInv, Vacant
  <2>10. Held'
    <3> SUFFICES ASSUME NEW r \in Readers, Holding(r)
                 PROVE  /\ seen[r] < head
                        /\ tail' <= seen[r] + OneLap
                        /\ slot'[Index(seen[r])].stamp = seen[r] + 1
      BY <2>1 DEF Held, Holding, Stamp
    <3>1. seen[r] \in Position /\ seen[r] \in Nat
      BY PositionType DEF IInv, TypeInv
    <3>2. seen[r] < head /\ tail <= seen[r] + OneLap /\ Stamp(seen[r]) = seen[r] + 1
      BY DEF IInv, Held
    <3>3. seen[r] + OneLap \in Position /\ Index(seen[r] + OneLap) = Index(seen[r])
      BY <3>1, PositionNextLap
    <3>4. tail # seen[r] + OneLap
      BY <1>1, <1>6, <3>1, <3>2, <3>3 DEF Stamp
    <3>5. tail' <= seen[r] + OneLap
      BY <1>1, <2>1, <3>1, <3>2, <3>3, <3>4, SuccessorIsNext
    <3>6. Index(seen[r]) # Index(tail)
      BY <1>1, <1>2, <3>1, <3>2, <3>4, SameSlot
    <3> QED BY <2>4, <3>1, <3>2, <3>5, <3>6 DEF Stamp
  <2>11. Alone'
    BY <2>1 DEF IInv, Alone, Holding
  <2>12. Popping'
    <3> SUFFICES ASSUME NEW r \in Readers, at[r] = "claim", seen[r] < tail
                 PROVE  seen[r] < tail'
      BY <2>1 DEF IInv, Popping
    <3>1. seen[r] \in Nat
      BY PositionType DEF IInv, TypeInv
    <3> QED BY <1>1, <2>3, <3>1
  <2>13. StopsOnlyWhenFull'
    BY <2>1 DEF StopsOnlyWhenFull
  <2> QED BY <2>6, <2>7, <2>8, <2>9, <2>10, <2>11, <2>12, <2>13 DEF IInv
<1>7. CASE Stamp(tail) # tail
  <2>1. /\ slot' = slot /\ tail' = tail /\ head' = head /\ status = "ok"
        /\ status' = IF Stamp(tail) + OneLap = tail + 1 /\ head + OneLap = tail
                     THEN "panicked" ELSE "spinning"
        /\ at' = at /\ seen' = seen /\ need' = need /\ got' = got
    BY <1>7 DEF Typed
  <2>2. TypeInv'
    BY <1>4, <2>1 DEF IInv, TypeInv
  <2>3. (Window /\ Filled /\ Vacant /\ Held /\ Alone /\ Popping)'
    BY <2>1 DEF IInv, Window, Filled, Vacant, Held, Alone, Popping, Holding, Stamp
  <2>4. CASE tail = head + OneLap
    <3>1. Stamp(tail) + OneLap = tail + 1
      BY <1>1, <1>5, <2>4
    <3>2. status' = "panicked"
      BY <1>1, <2>1, <2>4, <3>1
    <3>3. Lap(tail) = Lap(head) + OneLap /\ Index(tail) = Index(head) /\ Lap(head) \in Nat
      BY <1>1, <2>4, NextLap, PositionFacts
    <3>4. Index(head) \in Nat
      BY <1>1, PositionFacts
    <3>5. Lap(head) # Lap(tail)
      BY <3>3
    <3>6. Length = Capacity - Index(head) + Index(head)
      BY <3>3, <3>5 DEF Length
    <3>7. Length = Capacity
      BY <3>4, <3>6
    <3> QED BY <2>1, <2>2, <2>3, <3>2, <3>7 DEF IInv, StopsOnlyWhenFull, Length
  <2>5. CASE tail # head + OneLap
    <3>1. status' = "spinning"
      BY <1>1, <2>1, <2>5
    <3>2. PICK r \in Readers : Holding(r) /\ seen[r] + OneLap = tail
      BY <1>1, <1>2, <1>7, <2>5 DEF IInv, Vacant
    <3>3. Index(seen[r]) = Index(tail)
      BY <3>2, PositionNextLap DEF IInv, TypeInv
    <3> QED BY <2>1, <2>2, <2>3, <3>1, <3>2, <3>3 DEF IInv, StopsOnlyWhenFull, Holding
  <2> QED BY <2>4, <2>5
<1> QED BY <1>6, <1>7

\* Steps of read that leave the queue alone.
LEMMA QuietStep ==
  ASSUME IInv, NEW r \in Readers, ReadSyscall(r) \/ LoadHead(r) \/ LoadTail(r) \/ ReadValue(r)
  PROVE  IInv'
<1> HIDE DEF OneLap, Lap, Index, Successor
<1>1. /\ head \in Position /\ tail \in Position /\ head \in Nat /\ tail \in Nat
  BY PositionType DEF IInv, TypeInv
<1>2. UNCHANGED <<head, tail, slot, status, typed>> /\ status = "ok"
  BY DEF ReadSyscall, LoadHead, LoadTail, ReadValue, queue
<1>3. TypeInv'
  <2>1. CASE ReadSyscall(r)
    BY <1>2, <2>1, PipeAssumption DEF IInv, TypeInv, ReadSyscall
  <2>2. CASE LoadHead(r)
    BY <1>2, <2>2 DEF IInv, TypeInv, LoadHead
  <2>3. CASE LoadTail(r)
    BY <1>2, <2>3 DEF IInv, TypeInv, LoadTail
  <2>4. CASE ReadValue(r)
    <3>1. Index(seen[r]) \in Slots
      BY PositionType DEF IInv, TypeInv
    <3>2. slot[Index(seen[r])].value \in Nat
      BY <3>1 DEF IInv, TypeInv
    <3>3. got' \in [Readers -> Seq(Nat)]
      BY <2>4, <3>2 DEF IInv, TypeInv, ReadValue
    <3> QED BY <1>2, <2>4, <3>3 DEF IInv, TypeInv, ReadValue
  <2> QED BY <2>1, <2>2, <2>3, <2>4
<1>4. \A q \in Readers : (Holding(q)' <=> Holding(q)) /\ (Holding(q) => seen'[q] = seen[q])
  BY DEF IInv, TypeInv, Holding, ReadSyscall, LoadHead, LoadTail, ReadValue
<1>5. (Window /\ Filled /\ Vacant)'
  BY <1>2, <1>4 DEF IInv, Window, Filled, Vacant, Stamp
<1>6. (Held /\ Alone)'
  BY <1>2, <1>4 DEF IInv, Held, Alone, Stamp
<1>7. Popping'
  BY <1>1, <1>2 DEF IInv, TypeInv, Popping, ReadSyscall, LoadHead, LoadTail, ReadValue
<1>8. StopsOnlyWhenFull'
  BY <1>2 DEF StopsOnlyWhenFull
<1> QED BY <1>3, <1>5, <1>6, <1>7, <1>8 DEF IInv

\* A reader that finds its slot filled is behind the tail: were the queue
\* empty, the slot's stamp would be that of a free slot or of a claimed one.
LEMMA LoadStampStep ==
  ASSUME IInv, NEW r \in Readers, LoadStamp(r)
  PROVE  IInv'
<1> HIDE DEF OneLap, Lap, Index, Successor
<1> USE OneLapType
<1>1. /\ head \in Position /\ tail \in Position /\ head \in Nat /\ tail \in Nat
      /\ seen[r] \in Position /\ seen[r] \in Nat
  BY PositionType DEF IInv, TypeInv
<1>2. /\ UNCHANGED <<head, tail, slot, status, typed, seen, need, got>> /\ status = "ok"
      /\ at[r] = "stamp" /\ at'[r] \in {"claim", "tail", "head"}
      /\ \A q \in Readers : q # r => at'[q] = at[q]
      /\ at'[r] = "claim" => Stamp(seen[r]) = seen[r] + 1
  BY DEF LoadStamp, queue, IInv, TypeInv
<1>3. TypeInv'
  BY <1>2 DEF IInv, TypeInv, LoadStamp
<1>4. \A q \in Readers : Holding(q)' <=> Holding(q)
  BY <1>2 DEF IInv, TypeInv, Holding
<1>5. (Window /\ Filled /\ Vacant /\ Held /\ Alone)'
  BY <1>2, <1>4 DEF IInv, Window, Filled, Vacant, Held, Alone, Stamp
<1>6. ASSUME at'[r] = "claim" PROVE seen[r] < tail
  <2>1. seen[r] <= head /\ head <= tail
    BY <1>2 DEF IInv, Popping, Window
  <2> SUFFICES ASSUME seen[r] = head, head = tail PROVE FALSE
    BY <1>1, <2>1
  <2>2. \/ Stamp(head) = head
        \/ \E q \in Readers : Holding(q) /\ seen[q] + OneLap = head
    BY <1>1 DEF IInv, Vacant
  <2>3. PICK q \in Readers : Holding(q) /\ seen[q] + OneLap = head
    BY <1>1, <1>2, <1>6, <2>2
  <2>4. seen[q] \in Position /\ seen[q] \in Nat
    BY PositionType DEF IInv, TypeInv
  <2>5. Index(head) = Index(seen[q])
    BY <2>3, <2>4, PositionNextLap
  <2>6. Stamp(head) = seen[q] + 1
    BY <2>3, <2>5 DEF IInv, Held, Stamp
  <2> QED BY <1>1, <1>2, <1>6, <2>3, <2>4, <2>6
<1>7. Popping'
  BY <1>2, <1>6 DEF IInv, Popping
<1>8. StopsOnlyWhenFull'
  BY <1>2 DEF StopsOnlyWhenFull
<1> QED BY <1>3, <1>5, <1>7, <1>8 DEF IInv

\* Winning the exchange moves one byte from the queue to the reader; losing it
\* changes only the reader's copy of head.
LEMMA ClaimStep ==
  ASSUME IInv, NEW r \in Readers, Claim(r)
  PROVE  IInv'
<1> HIDE DEF OneLap, Lap, Index, Successor
<1> USE OneLapType
<1>1. /\ head \in Position /\ tail \in Position /\ head \in Nat /\ tail \in Nat
      /\ \A q \in Readers : seen[q] \in Position /\ seen[q] \in Nat
  BY PositionType DEF IInv, TypeInv
<1>2. /\ UNCHANGED <<tail, slot, status, typed, need, got>> /\ status = "ok"
      /\ at[r] = "claim"
      /\ \A q \in Readers : q # r => at'[q] = at[q] /\ seen'[q] = seen[q]
  BY DEF Claim, IInv, TypeInv
<1>3. StopsOnlyWhenFull'
  BY <1>2 DEF StopsOnlyWhenFull
<1>4. CASE head # seen[r]
  <2>1. head' = head /\ at' = [at EXCEPT ![r] = "stamp"] /\ seen' = [seen EXCEPT ![r] = head]
    BY <1>4 DEF Claim
  <2>2. TypeInv'
    BY <1>1, <1>2, <2>1 DEF IInv, TypeInv
  <2>3. \A q \in Readers : (Holding(q)' <=> Holding(q)) /\ (Holding(q) => seen'[q] = seen[q])
    BY <1>2, <2>1 DEF IInv, TypeInv, Holding
  <2>4. (Window /\ Filled /\ Vacant)'
    BY <1>2, <2>1, <2>3 DEF IInv, Window, Filled, Vacant, Stamp
  <2>5. (Held /\ Alone)'
    BY <1>2, <2>1, <2>3 DEF IInv, Held, Alone, Stamp
  <2>6. Popping'
    BY <1>1, <1>2, <2>1 DEF IInv, TypeInv, Popping
  <2> QED BY <1>3, <2>2, <2>4, <2>5, <2>6 DEF IInv
<1>5. CASE head = seen[r]
  <2>1. head' = Successor(head) /\ at' = [at EXCEPT ![r] = "value"] /\ seen' = seen
    BY <1>5 DEF Claim
  <2>2. head < tail /\ tail <= head + OneLap
    BY <1>2, <1>5 DEF IInv, Popping, Window
  <2>3. /\ head' \in Position /\ head' \in Nat /\ head < head' /\ head' <= tail
    BY <1>1, <2>1, <2>2, SuccessorFacts, SuccessorIsNext, PositionType
  <2>4. Stamp(head) = head + 1
    BY <1>1, <2>2 DEF IInv, Filled
  <2>5. TypeInv'
    BY <1>1, <1>2, <2>1, <2>3 DEF IInv, TypeInv
  <2>6. Window'
    BY <1>1, <1>2, <2>2, <2>3 DEF Window
  <2>7. Filled'
    BY <1>1, <1>2, <2>3, PositionType DEF IInv, Filled, Stamp
  <2>8. at'[r] = "value" /\ Holding(r)'
    BY <2>1 DEF IInv, TypeInv, Holding
  <2>9. \A q \in Readers : q # r => (Holding(q)' <=> Holding(q))
    BY <1>2 DEF Holding
  <2>10. ~Holding(r)
    BY <1>2 DEF Holding
  <2>11. head' + OneLap \in Nat
    <3>1. \A h, k \in Nat : h + k \in Nat
      OBVIOUS
    <3> QED BY <2>3, <3>1, OneLapType, Zenon
  <2>12. Vacant'
    <3> SUFFICES ASSUME NEW p \in Position, tail <= p, p < head' + OneLap
                 PROVE  \/ Stamp(p) = p
                        \/ \E q \in Readers : Holding(q)' /\ seen[q] + OneLap = p
      BY <1>2, <2>1 DEF Vacant, Stamp
    <3>1. p \in Nat
      BY PositionType
    <3>2. CASE p < head + OneLap
      BY <2>9, <2>10, <3>2 DEF IInv, Vacant
    <3>3. CASE p = head + OneLap
      BY <1>5, <2>8, <3>3
    <3>4. CASE head + OneLap < p
      <4>1. head + OneLap \in Position /\ Successor(head + OneLap) = head' + OneLap
        BY <1>1, <2>1, PositionNextLap
      <4>2. head' + OneLap <= p
        BY <3>4, <4>1, SuccessorIsNext
      <4>3. ~(p < head' + OneLap)
        BY <2>11, <3>1, <4>2
      <4> QED BY <4>3
    <3> QED BY <1>1, <3>1, <3>2, <3>3, <3>4
  <2>13. Held'
    <3> SUFFICES ASSUME NEW q \in Readers, Holding(q)'
                 PROVE  /\ seen[q] < head'
                        /\ tail <= seen[q] + OneLap
                        /\ Stamp(seen[q]) = seen[q] + 1
      BY <1>2, <2>1 DEF Held, Stamp
    <3>1. CASE q = r
      BY <1>1, <1>5, <2>2, <2>3, <2>4, <3>1
    <3>2. CASE q # r
      BY <1>1, <2>3, <2>9, <3>2 DEF IInv, Held
    <3> QED BY <3>1, <3>2
  <2>14. Alone'
    <3>1. \A q \in Readers : q # r /\ Holding(q)' => seen[q] # seen[r] /\ Holding(q)
      BY <1>1, <1>5, <2>9 DEF IInv, Held
    <3> QED BY <2>1, <3>1 DEF IInv, Alone
  <2>15. Popping'
    BY <1>1, <1>2, <2>1, <2>3, <2>8 DEF IInv, Popping
  <2> QED BY <1>3, <2>5, <2>6, <2>7, <2>12, <2>13, <2>14, <2>15 DEF IInv
<1> QED BY <1>4, <1>5

\* Storing the stamp of the next lap frees the reader's slot and no other.
LEMMA ReleaseStep ==
  ASSUME IInv, NEW r \in Readers, Release(r)
  PROVE  IInv'
<1> HIDE DEF OneLap, Lap, Index, Successor
<1> USE OneLapType
<1>1. /\ head \in Position /\ tail \in Position /\ head \in Nat /\ tail \in Nat
      /\ \A q \in Readers : seen[q] \in Position /\ seen[q] \in Nat
      /\ head <= tail /\ tail <= head + OneLap
  BY PositionType DEF IInv, TypeInv, Window
<1>2. /\ UNCHANGED <<head, tail, status, typed, seen, got>> /\ status = "ok"
      /\ at[r] = "release" /\ at'[r] \in {"user", "head"}
      /\ \A q \in Readers : q # r => at'[q] = at[q]
  BY DEF Release, IInv, TypeInv
<1>3. Index(seen[r]) \in Slots
  BY <1>1, PositionType
<1>4. Holding(r) /\ ~Holding(r)' /\ \A q \in Readers : q # r => (Holding(q)' <=> Holding(q))
  BY <1>2 DEF Holding
<1>5. seen[r] < head /\ tail <= seen[r] + OneLap
  BY <1>4 DEF IInv, Held
<1>6. \A p \in Position : Index(p) # Index(seen[r]) => slot'[Index(p)].stamp = Stamp(p)
  BY <1>3, PositionType DEF Stamp, Release, IInv, TypeInv
<1>7. slot'[Index(seen[r])].stamp = seen[r] + OneLap
  BY <1>3 DEF Release, IInv, TypeInv
<1>8. TypeInv'
  <2>1. slot' \in [Slots -> [stamp : Nat, value : Nat]]
    <3> DEFINE old == slot[Index(seen[r])]
    <3> DEFINE new == [old EXCEPT !.stamp = seen[r] + OneLap]
    <3>1. slot' = [slot EXCEPT ![Index(seen[r])] = new]
      BY DEF Release
    <3>2. old \in [stamp : Nat, value : Nat] /\ seen[r] + OneLap \in Nat
      BY <1>1, <1>3 DEF IInv, TypeInv
    <3>3. new \in [stamp : Nat, value : Nat]
      BY <3>2
    <3> HIDE DEF new
    <3> QED BY <3>1, <3>3 DEF IInv, TypeInv
  <2>2. need[r] > 0 /\ need[r] \in Nat
    BY <1>2 DEF IInv, TypeInv
  <2>3. need' \in [Readers -> Nat]
    BY <2>2 DEF Release, IInv, TypeInv
  <2>4. \A q \in Readers : at'[q] # "user" => need'[q] > 0
    BY <2>2 DEF Release, IInv, TypeInv
  <2> QED BY <1>2, <2>1, <2>3, <2>4 DEF Release, IInv, TypeInv
<1>9. Window'
  BY <1>2 DEF IInv, Window
<1>10. Filled'
  <2> SUFFICES ASSUME NEW p \in Position, head <= p, p < tail
               PROVE  slot'[Index(p)].stamp = p + 1
    BY <1>2 DEF Filled, Stamp
  <2>1. p \in Nat /\ seen[r] < p /\ p < seen[r] + OneLap
    BY <1>1, <1>5, PositionType
  <2>2. Index(p) # Index(seen[r])
    BY <1>1, <2>1, SameSlot
  <2> QED BY <1>6, <2>2 DEF IInv, Filled
<1>11. Vacant'
  <2> SUFFICES ASSUME NEW p \in Position, tail <= p, p < head + OneLap
               PROVE  \/ slot'[Index(p)].stamp = p
                      \/ \E q \in Readers : Holding(q)' /\ seen[q] + OneLap = p
    BY <1>2 DEF Vacant, Stamp
  <2>1. p \in Nat /\ seen[r] < p
    BY <1>1, <1>5, PositionType
  <2>2. CASE Index(p) = Index(seen[r])
    <3>1. seen[r] + OneLap <= p
      BY <1>1, <2>1, <2>2, SameSlot
    <3>2. seen[r] + OneLap \in Nat /\ Index(seen[r] + OneLap) = Index(seen[r])
      BY <1>1, NextLap
    <3>3. ~(seen[r] + OneLap < p)
      <4> SUFFICES ASSUME seen[r] + OneLap < p PROVE FALSE
        OBVIOUS
      <4>1. seen[r] + OneLap + OneLap <= p
        BY <2>1, <2>2, <3>2, SameSlot
      <4> QED BY <1>1, <1>5, <2>1, <4>1
    <3>4. p = seen[r] + OneLap
      BY <1>1, <2>1, <3>1, <3>3
    <3> QED BY <1>7, <2>2, <3>4
  <2>3. CASE Index(p) # Index(seen[r])
    <3>1. CASE Stamp(p) = p
      BY <1>6, <2>3, <3>1
    <3>2. CASE \E q \in Readers : Holding(q) /\ seen[q] + OneLap = p
      <4>1. PICK q \in Readers : Holding(q) /\ seen[q] + OneLap = p
        BY <3>2
      <4>2. q # r
        BY <1>1, <2>3, <4>1, NextLap
      <4> QED BY <1>4, <4>1, <4>2
    <3> QED BY <3>1, <3>2 DEF IInv, Vacant
  <2> QED BY <2>2, <2>3
<1>12. Held'
  <2> SUFFICES ASSUME NEW q \in Readers, Holding(q)'
               PROVE  /\ seen[q] < head
                      /\ tail <= seen[q] + OneLap
                      /\ slot'[Index(seen[q])].stamp = seen[q] + 1
    BY <1>2 DEF Held, Stamp
  <2>1. q # r /\ Holding(q)
    BY <1>4
  <2>2. seen[q] < head /\ tail <= seen[q] + OneLap /\ Stamp(seen[q]) = seen[q] + 1
    BY <2>1 DEF IInv, Held
  <2>3. seen[q] # seen[r]
    BY <1>4, <2>1 DEF IInv, Alone
  <2>4. Index(seen[q]) # Index(seen[r])
    <3>1. CASE seen[q] < seen[r]
      BY <1>1, <1>5, <2>2, <3>1, SameSlot
    <3>2. CASE seen[r] < seen[q]
      BY <1>1, <1>5, <2>2, <3>2, SameSlot
    <3> QED BY <1>1, <2>3, <3>1, <3>2
  <2> QED BY <1>1, <1>6, <2>2, <2>4 DEF Stamp
<1>13. Alone'
  BY <1>2, <1>4 DEF IInv, Alone
<1>14. Popping'
  BY <1>2 DEF IInv, Popping
<1>15. StopsOnlyWhenFull'
  BY <1>2 DEF StopsOnlyWhenFull
<1> QED BY <1>8, <1>9, <1>10, <1>11, <1>12, <1>13, <1>14, <1>15 DEF IInv

\* Every step preserves the invariant.
LEMMA NextIInv == IInv /\ [Next]_vars => IInv'
<1> SUFFICES ASSUME IInv, [Next]_vars PROVE IInv'
  OBVIOUS
<1>1. CASE Typed
  BY <1>1, TypedStep
<1>2. ASSUME NEW r \in Readers, ReadSyscall(r) \/ Pop(r) PROVE IInv'
  BY <1>2, QuietStep, LoadStampStep, ClaimStep, ReleaseStep DEF Pop
<1>3. CASE UNCHANGED vars
  <2> HIDE DEF OneLap, Lap, Index
  <2> QED BY <1>3 DEF vars, IInv, TypeInv, Window, Filled, Vacant, Held, Alone, Popping,
                StopsOnlyWhenFull, Holding, Stamp, Length
<1> QED BY <1>1, <1>2, <1>3 DEF Next

\* The invariant holds in every reachable state.
THEOREM Invariance == Spec => []IInv
BY InitIInv, NextIInv, PTL DEF Spec

\* Pipe::write panics only when the pipe holds Capacity unclaimed bytes, and
\* push spins with interrupts off only on a slot that an interrupted reader has
\* claimed and not released.
THEOREM StopsForCause == Spec => []StopsOnlyWhenFull
<1>1. IInv => StopsOnlyWhenFull
  BY DEF IInv
<1> QED BY <1>1, Invariance, PTL

-----------------------------------------------------------------------------
\* Length, for any two positions.
LengthOf(h, t) ==
  IF Lap(h) = Lap(t) THEN t - h ELSE Capacity - Index(h) + Index(t)

\* The slot of the i-th byte from position h on.
Place(h, i) == (Index(h) + i - 1) % Capacity

\* The tail is in the lap of the head, or in the next one and not past the
\* head's slot.
LEMMA LengthFacts ==
  ASSUME NEW h \in Position, NEW t \in Position, h <= t, t <= h + OneLap
  PROVE  \/ /\ Lap(t) = Lap(h) /\ LengthOf(h, t) = Index(t) - Index(h)
            /\ Index(h) <= Index(t)
         \/ /\ Lap(t) = Lap(h) + OneLap /\ LengthOf(h, t) = Capacity - Index(h) + Index(t)
            /\ Index(t) <= Index(h)
<1> HIDE DEF OneLap, Lap, Index
<1>1. h \in Nat /\ t \in Nat /\ Index(h) < Capacity /\ Index(t) < Capacity
  BY DEF Position
<1>2. /\ h = Lap(h) + Index(h) /\ Index(h) \in Nat /\ Lap(h) \in Nat
      /\ t = Lap(t) + Index(t) /\ Index(t) \in Nat /\ Lap(t) \in Nat
  BY <1>1, PositionFacts
<1>3. CASE Lap(h) = Lap(t)
  BY <1>1, <1>2, <1>3 DEF LengthOf
<1>4. CASE Lap(h) # Lap(t)
  <2>1. ~(Lap(t) < Lap(h))
    <3> SUFFICES ASSUME Lap(t) < Lap(h) PROVE FALSE
      OBVIOUS
    <3>1. Lap(t) + OneLap <= Lap(h)
      BY <1>1, LapsApart
    <3> QED BY <1>1, <1>2, <3>1, OneLapType
  <2>2. Lap(h) + OneLap <= Lap(t)
    BY <1>1, <1>2, <1>4, <2>1, LapsApart
  <2>3. h + OneLap \in Nat /\ Lap(h + OneLap) = Lap(h) + OneLap
    BY <1>1, NextLap
  <2>4. ~(Lap(h + OneLap) < Lap(t))
    <3> SUFFICES ASSUME Lap(h + OneLap) < Lap(t) PROVE FALSE
      OBVIOUS
    <3>1. Lap(h) + OneLap + OneLap <= Lap(t)
      BY <1>1, <2>3, LapsApart
    <3> QED BY <1>1, <1>2, <3>1, OneLapType
  <2>5. Lap(t) = Lap(h) + OneLap
    BY <1>2, <2>2, <2>3, <2>4, OneLapType
  <2> QED BY <1>1, <1>2, <1>4, <2>5, OneLapType DEF LengthOf
<1> QED BY <1>3, <1>4

\* Bytes wrap around at the end of the buffer once.
LEMMA PlaceFacts ==
  ASSUME NEW h \in Position, NEW i \in 1 .. Capacity + 1
  PROVE  Place(h, i) = IF Index(h) + i - 1 < Capacity
                       THEN Index(h) + i - 1 ELSE Index(h) + i - 1 - Capacity
<1> HIDE DEF OneLap, Lap, Index
<1> USE OneLapType
<1>1. Index(h) \in 0 .. Capacity - 1
  BY PositionType DEF Slots
<1> DEFINE k == Index(h) + i - 1
<1>2. k \in Nat
  BY <1>1
<1>3. CASE k < Capacity
  <2>1. k = 0 * Capacity + k /\ k \in 0 .. Capacity - 1
    BY <1>2, <1>3
  <2>2. (0 * Capacity + k) % Capacity = k
    BY <2>1, Remainder
  <2>3. Place(h, i) = k
    BY <2>1, <2>2 DEF Place
  <2> QED BY <1>3, <2>3
<1>4. CASE ~(k < Capacity)
  <2>1. k = 1 * Capacity + (k - Capacity) /\ k - Capacity \in 0 .. Capacity - 1
    BY <1>1, <1>2, <1>4
  <2>2. (1 * Capacity + (k - Capacity)) % Capacity = k - Capacity
    BY <2>1, Remainder
  <2>3. Place(h, i) = k % Capacity
    BY DEF Place
  <2>4. k % Capacity = k - Capacity
    BY <2>1, <2>2, Zenon
  <2> HIDE DEF k
  <2>5. Place(h, i) = k - Capacity /\ ~(k < Capacity)
    BY <1>4, <2>3, <2>4, Zenon
  <2> QED BY <1>1, <2>5 DEF k
<1> QED BY <1>3, <1>4

\* Advancing the tail adds one place, the tail's slot, to the others.
LEMMA LengthPut ==
  ASSUME NEW h \in Position, NEW t \in Position, h <= t, t < h + OneLap
  PROVE  /\ LengthOf(h, t) \in Nat /\ LengthOf(h, t) < Capacity
         /\ LengthOf(h, Successor(t)) = LengthOf(h, t) + 1
         /\ Place(h, LengthOf(h, t) + 1) = Index(t)
         /\ \A i \in 1 .. LengthOf(h, t) : Place(h, i) \in Slots /\ Place(h, i) # Index(t)
<1> HIDE DEF OneLap, Lap, Index, Successor, LengthOf, Place
<1> USE OneLapType
<1>1. h \in Nat /\ t \in Nat /\ Index(h) < Capacity /\ Index(t) < Capacity
  BY DEF Position
<1>2. /\ h = Lap(h) + Index(h) /\ Index(h) \in Nat /\ Lap(h) \in Nat
      /\ t = Lap(t) + Index(t) /\ Index(t) \in Nat /\ Lap(t) \in Nat
  BY <1>1, PositionFacts
<1>3. \/ /\ Lap(t) = Lap(h) /\ LengthOf(h, t) = Index(t) - Index(h)
         /\ Index(h) <= Index(t)
      \/ /\ Lap(t) = Lap(h) + OneLap /\ LengthOf(h, t) = Capacity - Index(h) + Index(t)
         /\ Index(t) < Index(h)
  BY <1>1, <1>2, LengthFacts
<1>4. LengthOf(h, t) \in Nat /\ LengthOf(h, t) < Capacity
  BY <1>1, <1>2, <1>3
<1>5. LengthOf(h, Successor(t)) = LengthOf(h, t) + 1
  <2>1. Successor(t) \in Position /\ h <= Successor(t) /\ Successor(t) <= h + OneLap
    <3>1. Successor(t) \in Position /\ t < Successor(t)
      BY SuccessorFacts
    <3>2. h + OneLap \in Position
      BY PositionNextLap
    <3>3. Successor(t) <= h + OneLap
      BY <3>2, SuccessorIsNext
    <3>4. Successor(t) \in Nat
      BY <3>1, PositionType
    <3> QED BY <1>1, <3>1, <3>3, <3>4
  <2>2. \/ /\ Index(t) + 1 < Capacity
           /\ Index(Successor(t)) = Index(t) + 1
           /\ Lap(Successor(t)) = Lap(t)
        \/ /\ Index(t) = Capacity - 1
           /\ Index(Successor(t)) = 0
           /\ Lap(Successor(t)) = Lap(t) + OneLap
    BY SuccessorFacts
  <2>3. \/ /\ Lap(Successor(t)) = Lap(h)
           /\ LengthOf(h, Successor(t)) = Index(Successor(t)) - Index(h)
        \/ /\ Lap(Successor(t)) = Lap(h) + OneLap
           /\ LengthOf(h, Successor(t)) = Capacity - Index(h) + Index(Successor(t))
    BY <2>1, LengthFacts
  <2> QED BY <1>1, <1>2, <1>3, <2>2, <2>3
<1>6. Place(h, LengthOf(h, t) + 1) = Index(t)
  <2>1. LengthOf(h, t) + 1 \in 1 .. Capacity + 1
    BY <1>4
  <2>2. Place(h, LengthOf(h, t) + 1) =
          IF Index(h) + (LengthOf(h, t) + 1) - 1 < Capacity
          THEN Index(h) + (LengthOf(h, t) + 1) - 1
          ELSE Index(h) + (LengthOf(h, t) + 1) - 1 - Capacity
    BY <2>1, PlaceFacts
  <2> QED BY <1>1, <1>2, <1>3, <1>4, <2>2
<1>7. ASSUME NEW i \in 1 .. LengthOf(h, t)
      PROVE  Place(h, i) \in Slots /\ Place(h, i) # Index(t)
  <2>1. i \in 1 .. Capacity + 1 /\ i \in Nat /\ 1 <= i /\ i <= LengthOf(h, t)
    BY <1>4, <1>7
  <2>2. Place(h, i) = IF Index(h) + i - 1 < Capacity
                      THEN Index(h) + i - 1 ELSE Index(h) + i - 1 - Capacity
    BY <2>1, PlaceFacts
  <2> QED BY <1>1, <1>2, <1>3, <1>4, <2>1, <2>2 DEF Slots
<1> QED BY <1>4, <1>5, <1>6, <1>7

\* Advancing the head drops the first place and keeps the others.
LEMMA LengthTake ==
  ASSUME NEW h \in Position, NEW t \in Position, h < t, t <= h + OneLap
  PROVE  /\ LengthOf(h, t) \in Nat \ {0} /\ LengthOf(h, t) <= Capacity
         /\ LengthOf(Successor(h), t) = LengthOf(h, t) - 1
         /\ Place(h, 1) = Index(h)
         /\ \A i \in 1 .. LengthOf(h, t) - 1 : Place(Successor(h), i) = Place(h, i + 1)
         /\ \A i \in 1 .. LengthOf(h, t) : Place(h, i) \in Slots
<1> HIDE DEF OneLap, Lap, Index, Successor, LengthOf, Place
<1> USE OneLapType
<1>1. h \in Nat /\ t \in Nat /\ Index(h) < Capacity /\ Index(t) < Capacity
  BY DEF Position
<1>2. /\ h = Lap(h) + Index(h) /\ Index(h) \in Nat /\ Lap(h) \in Nat
      /\ t = Lap(t) + Index(t) /\ Index(t) \in Nat /\ Lap(t) \in Nat
  BY <1>1, PositionFacts
<1>3. \/ /\ Lap(t) = Lap(h) /\ LengthOf(h, t) = Index(t) - Index(h)
         /\ Index(h) < Index(t)
      \/ /\ Lap(t) = Lap(h) + OneLap /\ LengthOf(h, t) = Capacity - Index(h) + Index(t)
         /\ Index(t) <= Index(h)
  BY <1>1, <1>2, LengthFacts
<1>4. LengthOf(h, t) \in Nat \ {0} /\ LengthOf(h, t) <= Capacity
  BY <1>1, <1>2, <1>3
<1>5. /\ Successor(h) \in Position /\ Successor(h) \in Nat
      /\ h < Successor(h) /\ Successor(h) <= t /\ t <= Successor(h) + OneLap
  <2>1. Successor(h) \in Position /\ h < Successor(h) /\ Successor(h) <= t
    BY SuccessorFacts, SuccessorIsNext
  <2>2. Successor(h) \in Nat
    BY <2>1, PositionType
  <2> QED BY <1>1, <2>1, <2>2
<1>6. \/ /\ Index(h) + 1 < Capacity
         /\ Index(Successor(h)) = Index(h) + 1
         /\ Lap(Successor(h)) = Lap(h)
      \/ /\ Index(h) = Capacity - 1
         /\ Index(Successor(h)) = 0
         /\ Lap(Successor(h)) = Lap(h) + OneLap
  BY SuccessorFacts
<1>7. LengthOf(Successor(h), t) = LengthOf(h, t) - 1
  <2>1. \/ /\ Lap(t) = Lap(Successor(h))
           /\ LengthOf(Successor(h), t) = Index(t) - Index(Successor(h))
        \/ /\ Lap(t) = Lap(Successor(h)) + OneLap
           /\ LengthOf(Successor(h), t) = Capacity - Index(Successor(h)) + Index(t)
    BY <1>5, LengthFacts
  <2> QED BY <1>1, <1>2, <1>3, <1>6, <2>1
<1>8. Place(h, 1) = Index(h)
  <2>1. 1 \in 1 .. Capacity + 1
    OBVIOUS
  <2> QED BY <1>1, <1>2, <2>1, PlaceFacts
<1>9. ASSUME NEW i \in 1 .. LengthOf(h, t) - 1
      PROVE  Place(Successor(h), i) = Place(h, i + 1)
  <2>1. i \in 1 .. Capacity + 1 /\ i + 1 \in 1 .. Capacity + 1 /\ i \in Nat /\ i < Capacity
    BY <1>4, <1>9
  <2>2. Place(h, i + 1) = IF Index(h) + (i + 1) - 1 < Capacity
                          THEN Index(h) + (i + 1) - 1 ELSE Index(h) + (i + 1) - 1 - Capacity
    BY <2>1, PlaceFacts
  <2>3. Place(Successor(h), i) = IF Index(Successor(h)) + i - 1 < Capacity
                                 THEN Index(Successor(h)) + i - 1
                                 ELSE Index(Successor(h)) + i - 1 - Capacity
    BY <1>5, <2>1, PlaceFacts
  <2> QED BY <1>1, <1>2, <1>6, <2>1, <2>2, <2>3
<1>10. ASSUME NEW i \in 1 .. LengthOf(h, t) PROVE Place(h, i) \in Slots
  <2>1. i \in 1 .. Capacity + 1 /\ i \in Nat /\ 1 <= i /\ i <= Capacity
    BY <1>4, <1>10
  <2>2. Place(h, i) = IF Index(h) + i - 1 < Capacity
                      THEN Index(h) + i - 1 ELSE Index(h) + i - 1 - Capacity
    BY <2>1, PlaceFacts
  <2> QED BY <1>1, <1>2, <2>1, <2>2 DEF Slots
<1> QED BY <1>4, <1>7, <1>8, <1>9, <1>10

\* When a sequence is another one with an element appended.
LEMMA AppendIs ==
  ASSUME NEW s \in Seq(Nat), NEW x \in Nat, NEW u \in Seq(Nat),
         Len(u) = Len(s) + 1, u[Len(s) + 1] = x, \A i \in 1 .. Len(s) : u[i] = s[i]
  PROVE  u = Append(s, x)
<1>1. Append(s, x) \in Seq(Nat) /\ Len(Append(s, x)) = Len(s) + 1
  BY AppendProperties
<1>2. \A i \in 1 .. Len(u) : u[i] = Append(s, x)[i]
  BY AppendProperties
<1> QED BY <1>1, <1>2, SeqEqual

\* When a sequence is another one without its first element.
LEMMA TailIs ==
  ASSUME NEW s \in Seq(Nat), s # <<>>, NEW u \in Seq(Nat),
         Len(u) = Len(s) - 1, \A i \in 1 .. Len(u) : u[i] = s[i + 1]
  PROVE  u = Tail(s)
<1>1. Tail(s) \in Seq(Nat) /\ Len(Tail(s)) = Len(s) - 1
  BY HeadTailProperties
<1>2. \A i \in 1 .. Len(u) : u[i] = Tail(s)[i]
  BY HeadTailProperties
<1> QED BY <1>1, <1>2, SeqEqual

\* Pending, for any two positions and any buffer.
Contents(h, t, s) == [i \in 1 .. LengthOf(h, t) |-> s[Place(h, i)].value]

\* The bytes between two positions form a sequence.
LEMMA ContentsFacts ==
  ASSUME NEW h \in Position, NEW t \in Position, h <= t, t <= h + OneLap,
         NEW s \in [Slots -> [stamp : Nat, value : Nat]]
  PROVE  /\ LengthOf(h, t) \in Nat
         /\ \A i \in 1 .. LengthOf(h, t) : Place(h, i) \in Slots
         /\ Contents(h, t, s) \in Seq(Nat) /\ Len(Contents(h, t, s)) = LengthOf(h, t)
         /\ \A i \in 1 .. LengthOf(h, t) : Contents(h, t, s)[i] = s[Place(h, i)].value
<1> HIDE DEF OneLap, Lap, Index, Successor, Place
<1>1. h \in Nat /\ t \in Nat
  BY PositionType
<1>2. /\ LengthOf(h, t) \in Nat
      /\ \A i \in 1 .. LengthOf(h, t) : Place(h, i) \in Slots
  <2>1. CASE h < t
    <3> HIDE DEF LengthOf
    <3> QED BY <1>1, <2>1, LengthTake
  <2>2. CASE h = t
    BY <1>1, <2>2 DEF LengthOf
  <2> QED BY <1>1, <2>1, <2>2
<1>3. \A i \in 1 .. LengthOf(h, t) : s[Place(h, i)].value \in Nat
  BY <1>2
<1> HIDE DEF LengthOf
<1>4. Contents(h, t, s) \in [1 .. LengthOf(h, t) -> Nat]
  BY <1>3 DEF Contents
<1>5. Contents(h, t, s) \in Seq(Nat) /\ Len(Contents(h, t, s)) = LengthOf(h, t)
  BY <1>2, <1>4, LenProperties
<1> QED BY <1>2, <1>5 DEF Contents

\* Pending before and after a step, in those terms.
LEMMA PendingIs ==
  /\ Pending = Contents(head, tail, slot)
  /\ Pending' = Contents(head', tail', slot')
<1> HIDE DEF OneLap, Lap, Index
<1> QED BY DEF Pending, Contents, Length, LengthOf, Place

\* push is Put: the byte goes behind the others, and no slot that a reader is
\* about to copy from is overwritten.  A push that stops the kernel changes
\* nothing.
LEMMA TypedRefines ==
  ASSUME IInv, IInv', Typed
  PROVE  [Fifo!Next]_<<Pending, Taken>>
<1> HIDE DEF OneLap, Lap, Index, Successor, Pending, LengthOf, Place, Contents
<1> USE OneLapType
<1>1. /\ head \in Position /\ tail \in Position /\ head \in Nat /\ tail \in Nat
      /\ Index(tail) \in Slots
      /\ head <= tail /\ tail <= head + OneLap
      /\ slot \in [Slots -> [stamp : Nat, value : Nat]]
      /\ tail' \in Position /\ head <= tail' /\ tail' <= head + OneLap
      /\ slot' \in [Slots -> [stamp : Nat, value : Nat]]
      /\ head' = head /\ at' = at /\ got' = got /\ seen' = seen
  BY PositionType DEF IInv, TypeInv, Window, Typed
<1>2. CASE Stamp(tail) # tail
  <2>1. tail' = tail /\ slot' = slot
    BY <1>2 DEF Typed
  <2>2. Pending' = Pending
    BY <1>1, <2>1, PendingIs
  <2>3. Taken' = Taken
    BY <1>1, <2>1 DEF Taken
  <2> QED BY <2>2, <2>3
<1>3. CASE Stamp(tail) = tail
  <2>1. /\ tail' = Successor(tail)
        /\ slot' = [slot EXCEPT ![Index(tail)] = [stamp |-> tail + 1, value |-> typed']]
        /\ typed' \in 1 .. MaxTyped /\ typed' \in Nat
    BY <1>3, PipeAssumption DEF Typed, IInv, TypeInv
  <2>2. tail < head + OneLap
    <3> SUFFICES ASSUME tail = head + OneLap PROVE FALSE
      BY <1>1
    <3>1. Stamp(head) = head + 1
      BY <1>1 DEF IInv, Filled
    <3>2. Index(tail) = Index(head)
      BY <1>1, NextLap
    <3> QED BY <1>1, <1>3, <3>1, <3>2 DEF Stamp
  <2> DEFINE k == LengthOf(head, tail)
  <2>3. /\ k \in Nat /\ k < Capacity
        /\ LengthOf(head, tail') = k + 1
        /\ Place(head, k + 1) = Index(tail)
        /\ \A i \in 1 .. k : Place(head, i) \in Slots /\ Place(head, i) # Index(tail)
    BY <1>1, <2>1, <2>2, LengthPut
  <2>4. /\ Pending \in Seq(Nat) /\ Len(Pending) = k
        /\ \A i \in 1 .. k : Pending[i] = slot[Place(head, i)].value
    <3> DEFINE c == Contents(head, tail, slot)
    <3>1. Pending = c
      BY PendingIs
    <3>2. /\ c \in Seq(Nat) /\ Len(c) = k
          /\ \A i \in 1 .. k : c[i] = slot[Place(head, i)].value
      BY <1>1, ContentsFacts
    <3> HIDE DEF c, k
    <3> QED BY <3>1, <3>2
  <2>5. /\ Pending' \in Seq(Nat) /\ Len(Pending') = k + 1
        /\ \A i \in 1 .. k + 1 : Pending'[i] = slot'[Place(head, i)].value
    <3> DEFINE c == Contents(head, tail', slot')
    <3>1. Pending' = c
      BY <1>1, PendingIs
    <3>2. /\ c \in Seq(Nat) /\ Len(c) = LengthOf(head, tail')
          /\ \A i \in 1 .. LengthOf(head, tail') : c[i] = slot'[Place(head, i)].value
      BY <1>1, ContentsFacts
    <3> HIDE DEF c
    <3> QED BY <2>3, <3>1, <3>2
  <2>6. /\ slot'[Index(tail)].value = typed'
        /\ \A j \in Slots : j # Index(tail) => slot'[j] = slot[j]
    BY <1>1, <2>1
  <2> HIDE DEF k
  <2>7. Pending' = Append(Pending, typed')
    <3>1. Pending'[k + 1] = typed'
      BY <2>3, <2>5, <2>6
    <3>2. ASSUME NEW i \in 1 .. k PROVE Pending'[i] = Pending[i]
      <4>1. i \in 1 .. k + 1
        BY <2>3
      <4>2. slot'[Place(head, i)] = slot[Place(head, i)]
        BY <2>3, <2>6
      <4>3. Pending'[i] = slot'[Place(head, i)].value
        BY <2>5, <4>1
      <4>4. Pending[i] = slot[Place(head, i)].value
        BY <2>4
      <4> QED BY <4>2, <4>3, <4>4
    <3> QED BY <2>1, <2>3, <2>4, <2>5, <3>1, <3>2, AppendIs
  <2>8. ASSUME NEW r \in Readers, at[r] = "value"
        PROVE  Index(seen[r]) \in Slots /\ Index(seen[r]) # Index(tail)
    <3>1. seen[r] \in Nat /\ Index(seen[r]) \in Slots
      BY PositionType DEF IInv, TypeInv
    <3>2. seen[r] < head /\ Stamp(seen[r]) = seen[r] + 1
      BY <2>8 DEF IInv, Held, Holding
    <3>3. seen[r] < tail
      BY <1>1, <3>1, <3>2
    <3>4. Index(seen[r]) = Index(tail) => tail = seen[r] + 1 /\ seen[r] + OneLap <= tail
      BY <1>1, <1>3, <3>1, <3>2, <3>3, SameSlot DEF Stamp
    <3> QED BY <1>1, <3>1, <3>4
  <2>9. Taken' = Taken
    BY <1>1, <2>6, <2>8 DEF Taken
  <2>10. Fifo!Put(typed')
    BY <2>3, <2>4, <2>7, <2>9 DEF Fifo!Put
  <2> QED BY <2>1, <2>10 DEF Fifo!Next
<1> QED BY <1>2, <1>3

\* Winning the exchange is Take: the reader will copy the oldest byte.
LEMMA ClaimRefines ==
  ASSUME IInv, IInv', NEW r \in Readers, Claim(r)
  PROVE  [Fifo!Next]_<<Pending, Taken>>
<1> HIDE DEF OneLap, Lap, Index, Successor, Pending, LengthOf, Place, Contents
<1> USE OneLapType
<1>1. /\ head \in Position /\ tail \in Position /\ head \in Nat /\ tail \in Nat
      /\ head <= tail /\ tail <= head + OneLap
      /\ slot \in [Slots -> [stamp : Nat, value : Nat]]
      /\ head' \in Position /\ head' <= tail /\ tail <= head' + OneLap
      /\ tail' = tail /\ slot' = slot /\ got' = got
      /\ at[r] = "claim"
  BY PositionType DEF IInv, TypeInv, Window, Claim
<1>2. CASE head # seen[r]
  <2>1. head' = head /\ at' = [at EXCEPT ![r] = "stamp"] /\ seen' = [seen EXCEPT ![r] = head]
    BY <1>2 DEF Claim
  <2>2. Pending' = Pending
    BY <1>1, <2>1, PendingIs
  <2>3. Taken' = Taken
    BY <1>1, <2>1 DEF Taken, IInv, TypeInv
  <2> QED BY <2>2, <2>3
<1>3. CASE head = seen[r]
  <2>1. head' = Successor(head) /\ at' = [at EXCEPT ![r] = "value"] /\ seen' = seen
    BY <1>3 DEF Claim
  <2>2. head < tail
    BY <1>1, <1>3 DEF IInv, Popping
  <2> DEFINE k == LengthOf(head, tail)
  <2>3. /\ k \in Nat \ {0}
        /\ LengthOf(head', tail) = k - 1
        /\ Place(head, 1) = Index(head)
        /\ \A i \in 1 .. k - 1 : Place(head', i) = Place(head, i + 1)
    BY <1>1, <2>1, <2>2, LengthTake
  <2>4. /\ Pending \in Seq(Nat) /\ Len(Pending) = k
        /\ \A i \in 1 .. k : Pending[i] = slot[Place(head, i)].value
    BY <1>1, PendingIs, ContentsFacts
  <2>5. /\ Pending' \in Seq(Nat) /\ Len(Pending') = k - 1
        /\ \A i \in 1 .. k - 1 : Pending'[i] = slot[Place(head', i)].value
    <3> DEFINE c == Contents(head', tail, slot)
    <3>1. Pending' = c
      BY <1>1, PendingIs
    <3>2. /\ c \in Seq(Nat) /\ Len(c) = LengthOf(head', tail)
          /\ \A i \in 1 .. LengthOf(head', tail) : c[i] = slot[Place(head', i)].value
      BY <1>1, ContentsFacts
    <3> HIDE DEF c
    <3> QED BY <2>3, <3>1, <3>2
  <2> HIDE DEF k
  <2>6. Pending # <<>>
    BY <2>3, <2>4
  <2>7. Pending' = Tail(Pending)
    <3>1. ASSUME NEW i \in 1 .. k - 1 PROVE Pending'[i] = Pending[i + 1]
      <4>1. i + 1 \in 1 .. k
        BY <2>3
      <4>2. Pending'[i] = slot[Place(head', i)].value
        BY <2>5
      <4>3. Pending[i + 1] = slot[Place(head, i + 1)].value
        BY <2>4, <4>1
      <4>4. Place(head', i) = Place(head, i + 1)
        BY <2>3
      <4> QED BY <4>2, <4>3, <4>4
    <3> QED BY <2>3, <2>4, <2>5, <2>6, <3>1, TailIs
  <2>8. Head(Pending) = slot[Index(seen[r])].value
    <3>1. Head(Pending) = Pending[1]
      BY <2>4, <2>6, HeadTailProperties
    <3> QED BY <1>3, <2>3, <2>4, <3>1
  <2>9. Taken' = [Taken EXCEPT ![r] = Append(@, Head(Pending))]
    BY <1>1, <2>1, <2>8 DEF Taken, IInv, TypeInv
  <2>10. Fifo!Take(r)
    BY <2>6, <2>7, <2>9 DEF Fifo!Take
  <2> QED BY <2>10 DEF Fifo!Next
<1> QED BY <1>2, <1>3

\* All other steps of read are invisible: between the claim and the copy the
\* byte stays in its slot.
LEMMA OtherRefines ==
  ASSUME IInv, NEW r \in Readers,
         \/ ReadSyscall(r) \/ LoadHead(r) \/ LoadStamp(r) \/ LoadTail(r)
         \/ ReadValue(r) \/ Release(r)
  PROVE  UNCHANGED <<Pending, Taken>>
<1> HIDE DEF OneLap, Lap, Index, Successor, Pending, LengthOf, Place
<1>1. /\ head' = head /\ tail' = tail
      /\ head \in Position /\ tail \in Position /\ head <= tail /\ tail <= head + OneLap
      /\ slot \in [Slots -> [stamp : Nat, value : Nat]]
  BY DEF IInv, TypeInv, Window, ReadSyscall, LoadHead, LoadStamp, LoadTail, ReadValue,
         Release, queue
<1>2. \A j \in Slots : slot'[j].value = slot[j].value
  <2>1. CASE Release(r)
    <3> SUFFICES ASSUME NEW j \in Slots PROVE slot'[j].value = slot[j].value
      OBVIOUS
    <3>1. slot[j] \in [stamp : Nat, value : Nat]
      BY <1>1
    <3>2. slot'[j] = slot[j] \/ slot'[j] = [slot[j] EXCEPT !.stamp = seen[r] + OneLap]
      BY <1>1, <2>1 DEF Release
    <3> QED BY <3>1, <3>2
  <2>2. CASE ~Release(r)
    BY <2>2 DEF ReadSyscall, LoadHead, LoadStamp, LoadTail, ReadValue, queue
  <2> QED BY <2>1, <2>2
<1>3. \A i \in 1 .. LengthOf(head, tail) : Place(head, i) \in Slots
  BY <1>1, ContentsFacts
<1>4. Pending' = Pending
  BY <1>1, <1>2, <1>3, PendingIs DEF Contents
<1>5. \A q \in Readers : Index(seen[q]) \in Slots
  BY PositionType DEF IInv, TypeInv
<1>6. Taken' = Taken
  <2>1. CASE ReadValue(r)
    BY <1>5, <2>1 DEF ReadValue, queue, Taken, IInv, TypeInv
  <2>2. CASE Release(r)
    BY <1>2, <1>5, <2>2 DEF Release, Taken, IInv, TypeInv
  <2>3. CASE LoadHead(r)
    BY <2>3 DEF LoadHead, queue, Taken, IInv, TypeInv
  <2>4. CASE ReadSyscall(r) \/ LoadStamp(r) \/ LoadTail(r)
    BY <2>4 DEF ReadSyscall, LoadStamp, LoadTail, queue, Taken, IInv, TypeInv
  <2> QED BY <2>1, <2>2, <2>3, <2>4
<1> QED BY <1>4, <1>6

\* The queue with its slots, stamps and half-done pops implements the bounded
\* FIFO: every byte that push accepts is handed to exactly one reader, in the
\* order of typing, however the handler and the readers interleave.
THEOREM Refinement == Spec => ImplementsFifo
<1>1. Init => Fifo!Init
  <2> SUFFICES ASSUME Init PROVE Fifo!Init
    OBVIOUS
  <2> HIDE DEF OneLap, Lap, Index
  <2>1. Length = 0
    BY DEF Init, Length
  <2>2. Pending = <<>>
    BY <2>1 DEF Pending
  <2>3. Taken = [r \in Readers |-> <<>>]
    BY DEF Init, Taken
  <2> QED BY <2>2, <2>3 DEF Fifo!Init
<1>2. IInv /\ IInv' /\ [Next]_vars => [Fifo!Next]_<<Pending, Taken>>
  <2> SUFFICES ASSUME IInv, IInv', [Next]_vars PROVE [Fifo!Next]_<<Pending, Taken>>
    OBVIOUS
  <2>1. CASE Typed
    BY <2>1, TypedRefines
  <2>2. ASSUME NEW r \in Readers, ReadSyscall(r) \/ Pop(r)
        PROVE  [Fifo!Next]_<<Pending, Taken>>
    BY <2>2, ClaimRefines, OtherRefines DEF Pop
  <2>3. CASE UNCHANGED vars
    <3> HIDE DEF OneLap, Lap, Index
    <3> QED BY <2>3 DEF vars, Pending, Taken, Length
  <2> QED BY <2>1, <2>2, <2>3 DEF Next
<1> QED BY <1>1, <1>2, Invariance, PTL DEF Spec, ImplementsFifo, Fifo!Spec, Fifo!vars
=============================================================================
