--------------------------- MODULE RefTableProofs ---------------------------
(***************************************************************************)
(* RefTable is correct for every capacity, every hash function and every   *)
(* set of keys: its invariant holds, and it implements RefMap.             *)
(***************************************************************************)
EXTENDS RefTable, FiniteSetTheorems, TLAPS

-----------------------------------------------------------------------------
(* Distances along the probe order. *)

\* A distance is an index, and only a slot itself is at distance 0.
LEMMA DistRange ==
  ASSUME NEW a \in Index, NEW b \in Index
  PROVE  /\ Dist(a, b) \in Index /\ Dist(a, b) \in Nat
         /\ Dist(a, b) = 0 <=> a = b
BY CapacityAssumption DEF Dist, Index

\* Two slots at the same distance from a are the same slot.
LEMMA DistInjective ==
  ASSUME NEW a \in Index, NEW b \in Index, NEW c \in Index,
         Dist(a, b) = Dist(a, c)
  PROVE  b = c
BY CapacityAssumption DEF Dist, Index

\* The next slot is one further away, unless it is the origin.
LEMMA DistSucc ==
  ASSUME NEW a \in Index, NEW b \in Index
  PROVE  /\ Succ(b) \in Index
         /\ Succ(b) # b
         /\ Succ(b) # a => Dist(a, Succ(b)) = Dist(a, b) + 1
BY CapacityAssumption DEF Dist, Index, Succ

\* Distances add up along a path from a over b to c.
LEMMA DistAdd ==
  ASSUME NEW a \in Index, NEW b \in Index, NEW c \in Index,
         Dist(a, b) <= Dist(a, c)
  PROVE  Dist(a, c) = Dist(a, b) + Dist(b, c)
BY CapacityAssumption DEF Dist, Index

\* A slot between p and a lies on every path from h over p to a.
LEMMA PathBeyond ==
  ASSUME NEW h \in Index, NEW p \in Index, NEW q \in Index, NEW a \in Index,
         Dist(h, a) = Dist(h, p) + Dist(p, a), Dist(p, q) < Dist(p, a)
  PROVE  Dist(h, q) < Dist(h, a)
BY CapacityAssumption DEF Dist, Index

\* erase moves an entry exactly when the hole lies on its path from home.
LEMMA CanMoveMeaning ==
  ASSUME NEW h \in Index, NEW n \in Index, NEW k \in Index, h # n
  PROVE  CanMove(h, n, k) <=> Dist(k, h) < Dist(k, n)
BY CapacityAssumption DEF Dist, Index, CanMove

-----------------------------------------------------------------------------
(* Type correctness. *)

\* A running call has a key, and a value when it inserts.
LEMMA CallTyped ==
  ASSUME TypeOK, pc # "idle"
  PROVE  /\ call \in Calls
         /\ call.key \in Key
         /\ call.op = "insert" => call.value \in Value
BY DEF TypeOK, Calls, NoCall

\* What a slot holds.
LEMMA SlotTyped ==
  ASSUME TypeOK, NEW s \in Index
  PROVE  /\ slots[s] \in [key : Key \cup {kEmpty}, value : Value]
         /\ slots[s].key \in Key \cup {kEmpty}
         /\ slots[s].value \in Value
         /\ Occupied(s) => slots[s].key \in Key /\ Home[slots[s].key] \in Index
BY HomeAssumption DEF TypeOK, Occupied

\* The slots, and those in use, can be counted.
LEMMA IndexFinite ==
  /\ IsFiniteSet(Index) /\ Cardinality(Index) = Capacity
  /\ IsFiniteSet(OccupiedSet)
  /\ OccupiedSet \subseteq Index
<1>1. IsFiniteSet(Index) /\ Cardinality(Index) = Capacity
    BY FS_Interval, CapacityAssumption DEF Index
<1>2. OccupiedSet \subseteq Index
    BY DEF OccupiedSet
<1> QED
    BY <1>1, <1>2, FS_Subset

\* Types hold in an empty table.
LEMMA TypeInit == Init => TypeOK
BY CapacityAssumption, ZeroAssumption DEF Init, TypeOK, Index, NoCall

\* While erase shifts, the hole is in use, so size_ is not yet 0.
LEMMA ShiftSizePositive ==
  ASSUME TypeOK, SizeExact, ShiftClean, pc = "shift"
  PROVE  size - 1 \in Nat
<1>1. i \in OccupiedSet
    BY DistRange DEF TypeOK, ShiftClean, OccupiedSet
<1>2. IsFiniteSet(OccupiedSet)
    BY IndexFinite
<1>3. Cardinality(OccupiedSet) # 0
    BY <1>1, <1>2, FS_EmptySet
<1> QED
    BY <1>3 DEF SizeExact, TypeOK

\* Every step keeps the types; the invariant keeps size_ from going below 0.
LEMMA TypeNext == TypeOK /\ TableInv /\ [Next]_vars => TypeOK'
<1> SUFFICES ASSUME TypeOK, TableInv, [Next]_vars PROVE TypeOK'
    OBVIOUS
<1> USE CapacityAssumption
<1>0. 0 \in Index
    BY DEF Index
<1>1. ASSUME NEW k \in Key, NEW v \in Value, CallInsert(k, v) PROVE TypeOK'
    BY <1>1, HomeAssumption DEF CallInsert, StartProbe, TypeOK, Calls, NoCall
<1>2. ASSUME NEW k \in Key, CallFind(k) PROVE TypeOK'
    BY <1>2, HomeAssumption DEF CallFind, StartProbe, TypeOK, Calls, NoCall
<1>3. ASSUME NEW k \in Key, CallErase(k) PROVE TypeOK'
    BY <1>3, HomeAssumption DEF CallErase, StartProbe, TypeOK, Calls, NoCall
<1>4. CASE InsertRefused
    BY <1>4 DEF InsertRefused, TypeOK
<1>5. CASE ProbeStep
  <2>1. Succ(i) \in Index
      BY DistSucc DEF TypeOK
  <2> QED
      BY <1>5, <2>1 DEF ProbeStep, TypeOK
<1>6. CASE InsertDone
  <2>1. [key |-> call.key, value |-> call.value]
          \in [key : Key \cup {kEmpty}, value : Value]
      BY <1>6, CallTyped DEF InsertDone
  <2>2. slots' \in [Index -> [key : Key \cup {kEmpty}, value : Value]]
      BY <1>6, <2>1 DEF InsertDone, TypeOK
  <2>3. size' \in Nat
      BY <1>6 DEF InsertDone, TypeOK
  <2> QED
      BY <1>0, <1>6, <2>2, <2>3 DEF InsertDone, Return, TypeOK, NoCall
<1>7. CASE FindDone
    BY <1>0, <1>7, SlotTyped DEF FindDone, Return, TypeOK, NoCall
<1>8. CASE EraseMiss
    BY <1>0, <1>8 DEF EraseMiss, Return, TypeOK, NoCall
<1>9. CASE EraseHit
    BY <1>9, CallTyped DEF EraseHit, TypeOK
<1>10. CASE ShiftStep
  <2>1. Succ(j) \in Index
      BY DistSucc DEF TypeOK
  <2>2. slots[Succ(j)] \in [key : Key \cup {kEmpty}, value : Value]
      BY <2>1 DEF TypeOK
  <2>3. slots' \in [Index -> [key : Key \cup {kEmpty}, value : Value]]
      BY <1>10, <2>2 DEF ShiftStep, TypeOK
  <2> QED
      BY <1>10, <2>1, <2>3 DEF ShiftStep, TypeOK
<1>11. CASE ShiftDone
  <2>1. slots' \in [Index -> [key : Key \cup {kEmpty}, value : Value]]
      BY <1>11 DEF ShiftDone, TypeOK
  <2>2. size' \in Nat
      BY <1>11, ShiftSizePositive DEF ShiftDone, TableInv
  <2> QED
      BY <1>0, <1>11, <2>1, <2>2 DEF ShiftDone, Return, TypeOK, NoCall
<1>12. CASE UNCHANGED vars
    BY <1>12 DEF vars, TypeOK
<1> QED
    BY <1>1, <1>2, <1>3, <1>4, <1>5, <1>6, <1>7, <1>8, <1>9, <1>10, <1>11,
       <1>12
    DEF Next, Begin, Run

-----------------------------------------------------------------------------
(* The invariant, one lemma per step. *)

Inv == TypeOK /\ TableInv

\* The load limit leaves a free slot for every loop to stop at.
LEMMA FreeSlot ==
  ASSUME TypeOK, SizeExact
  PROVE  \E e \in Index : ~Occupied(e)
<1> SUFFICES ASSUME \A e \in Index : Occupied(e) PROVE FALSE
    OBVIOUS
<1>1. OccupiedSet = Index
    BY DEF OccupiedSet
<1>2. size = Capacity
    BY <1>1, IndexFinite DEF SizeExact
<1> QED
    BY <1>2, CapacityAssumption DEF SizeExact

\* An empty table satisfies the invariant.
LEMMA InvInit == Init => Inv
<1> SUFFICES ASSUME Init PROVE Inv
    OBVIOUS
<1>1. \A s \in Index : ~Occupied(s) /\ ~Held(s)
    BY DEF Init, Occupied, Held
<1>2. OccupiedSet = {}
    BY <1>1 DEF OccupiedSet
<1>3. SizeExact
    BY <1>2, FS_EmptySet, CapacityAssumption DEF SizeExact, Init
<1>4. KeysUnique /\ Reachable
    BY <1>1 DEF KeysUnique, Reachable
<1>5. ProbeClean /\ ShiftClean /\ InsertHasRoom
    BY DEF Init, ProbeClean, ShiftClean, InsertHasRoom
<1> QED
    BY <1>3, <1>4, <1>5, TypeInit DEF Inv, TableInv

\* A step that touches no slot and neither enters nor leaves a shift.
LEMMA SlotsUntouched ==
  ASSUME Inv, slots' = slots, size' = size, pc # "shift", pc' # "shift"
  PROVE  SizeExact' /\ KeysUnique' /\ Reachable' /\ ShiftClean'
<1>1. \A s \in Index : Occupied(s)' = Occupied(s) /\ Held(s)' = Held(s)
    BY DEF Occupied, Held
<1>2. OccupiedSet' = OccupiedSet
    BY <1>1 DEF OccupiedSet
<1>3. SizeExact'
    BY <1>2 DEF Inv, TableInv, SizeExact
<1>4. KeysUnique' /\ Reachable'
    BY <1>1 DEF Inv, TableInv, KeysUnique, Reachable
<1> QED
    BY <1>3, <1>4 DEF ShiftClean

\* Entering probe has passed no slot yet.
LEMMA StartInv ==
  ASSUME Inv, NEW c \in Calls, StartProbe(c), c.op = "insert" => ~Saturated
  PROVE  TableInv'
<1>1. c.key \in Key
    BY DEF Calls
<1>2. ProbeClean'
  <2>1. i' = Home[c.key] /\ call' = c /\ Home[c.key] \in Index
      BY <1>1, HomeAssumption DEF StartProbe
  <2>2. \A b \in Index : ~(Dist(Home[c.key], b) < Dist(Home[c.key], Home[c.key]))
      BY <2>1, DistRange
  <2> QED
      BY <2>1, <2>2 DEF ProbeClean
<1>3. InsertHasRoom'
    BY DEF StartProbe, InsertHasRoom, Saturated
<1> QED
    BY <1>2, <1>3, SlotsUntouched DEF StartProbe, TableInv

\* A probe step passes a slot taken by another key, and never comes back home,
\* since a free slot is left.
LEMMA ProbeStepInv ==
  ASSUME Inv, ProbeStep
  PROVE  TableInv'
<1> DEFINE h == Home[call.key]
<1>1. h \in Index /\ i \in Index /\ Succ(i) \in Index
    BY CallTyped, HomeAssumption, DistSucc DEF ProbeStep, Inv, TypeOK
<1>2. ASSUME NEW b \in Index, Dist(h, b) < Dist(h, Succ(i))
      PROVE  Occupied(b) /\ slots[b].key # call.key
  <2>1. Dist(h, b) \in Nat /\ Dist(h, i) \in Nat /\ Dist(h, Succ(i)) \in Nat
      BY <1>1, DistRange
  <2>2. Succ(i) # h
      BY <1>1, <1>2, <2>1, DistRange
  <2>3. Dist(h, b) < Dist(h, i) \/ Dist(h, b) = Dist(h, i)
      BY <1>1, <1>2, <2>1, <2>2, DistSucc
  <2>4. CASE Dist(h, b) < Dist(h, i)
      BY <2>4 DEF ProbeStep, Inv, TableInv, ProbeClean
  <2>5. CASE b = i
      BY <2>5 DEF ProbeStep, Passing, Occupied
  <2> QED
      BY <1>1, <2>3, <2>4, <2>5, DistInjective
<1>3. ProbeClean'
    BY <1>2 DEF ProbeStep, ProbeClean, Occupied
<1>4. InsertHasRoom'
    BY DEF ProbeStep, Inv, TableInv, InsertHasRoom, Saturated
<1> QED
    BY <1>3, <1>4, SlotsUntouched DEF ProbeStep, TableInv

\* Where probe stops, its key is held nowhere but, possibly, right there.
LEMMA ProbeStopsAtKey ==
  ASSUME Inv, pc = "probe", ~Passing,
         NEW a \in Index, Occupied(a), slots[a].key = call.key
  PROVE  a = i
<1> DEFINE h == Home[call.key]
<1>1. h \in Index /\ i \in Index
    BY CallTyped, HomeAssumption DEF Inv, TypeOK
<1>2. Held(a)
    BY DEF Held
<1>3. ~(Dist(h, a) < Dist(h, i))
    BY DEF Inv, TableInv, ProbeClean
<1>4. ~(Dist(h, i) < Dist(h, a))
  <2> SUFFICES ASSUME Dist(h, i) < Dist(h, a) PROVE FALSE
      OBVIOUS
  <2>1. Held(i)
      BY <1>1, <1>2 DEF Inv, TableInv, Reachable
  <2>2. slots[i].key = call.key
      BY <2>1 DEF Passing, Held, Occupied
  <2>3. a = i
      BY <1>1, <1>2, <2>1, <2>2 DEF Inv, TableInv, KeysUnique
  <2> QED
      BY <1>1, <2>3, DistRange
<1>5. Dist(h, a) \in Nat /\ Dist(h, i) \in Nat
    BY <1>1, DistRange
<1> QED
    BY <1>1, <1>3, <1>4, <1>5, DistInjective

\* The slot an insert fills ends its key's probe path.
LEMMA InsertInv ==
  ASSUME Inv, InsertDone
  PROVE  TableInv'
<1> DEFINE h == Home[call.key]
<1>1. /\ h \in Index /\ i \in Index /\ call.key \in Key /\ kEmpty \notin Key
      /\ slots \in [Index -> [key : Key \cup {kEmpty}, value : Value]]
    BY CallTyped, HomeAssumption, SentinelAssumption DEF InsertDone, Inv, TypeOK
<1>0. PICK p \in Index : p = i    \* i itself changes in this step
    BY <1>1
<1>2. /\ slots'[p].key = call.key
      /\ \A s \in Index : s # p => slots'[s] = slots[s]
    BY <1>0, <1>1 DEF InsertDone
<1>3. /\ Held(p)' /\ Occupied(p)'
      /\ \A s \in Index : s # p => /\ Held(s)' = Held(s)
                                   /\ Occupied(s)' = Occupied(s)
    BY <1>1, <1>2 DEF InsertDone, Return, Held, Occupied
<1>4. SizeExact'
  <2>1. OccupiedSet' = OccupiedSet \cup {p}
      BY <1>3 DEF OccupiedSet
  <2>2. CASE Occupied(i)
    <3>1. OccupiedSet' = OccupiedSet
        BY <1>0, <2>1, <2>2 DEF OccupiedSet
    <3> QED
        BY <2>2, <3>1 DEF InsertDone, Inv, TableInv, SizeExact
  <2>3. CASE ~Occupied(i)
    <3>1. p \notin OccupiedSet
        BY <1>0, <2>3 DEF OccupiedSet
    <3>2. Cardinality(OccupiedSet') = Cardinality(OccupiedSet) + 1
        BY <2>1, <3>1, IndexFinite, FS_AddElement
    <3>3. size * 2 < Capacity /\ size \in Nat /\ size = Cardinality(OccupiedSet)
        BY CapacityAssumption
        DEF InsertDone, Inv, TypeOK, TableInv, SizeExact, InsertHasRoom, Saturated
    <3>4. size' = size + 1
        BY <2>3 DEF InsertDone
    <3> QED
        BY <3>2, <3>3, <3>4, CapacityAssumption DEF SizeExact
  <2> QED
      BY <2>2, <2>3
<1>5. KeysUnique'
  <2> SUFFICES ASSUME NEW a \in Index, NEW b \in Index,
                      Held(a)', Held(b)', slots'[a].key = slots'[b].key
               PROVE  a = b
      BY DEF KeysUnique
  <2>1. CASE a # p /\ b # p
      BY <1>0, <1>2, <1>3, <2>1 DEF Inv, TableInv, KeysUnique
  <2>2. CASE a = p /\ b # p
      BY <1>0, <1>2, <1>3, <2>2, ProbeStopsAtKey DEF InsertDone, Held
  <2>3. CASE a # p /\ b = p
      BY <1>0, <1>2, <1>3, <2>3, ProbeStopsAtKey DEF InsertDone, Held
  <2> QED
      BY <2>1, <2>2, <2>3
<1>6. Reachable'
  <2> SUFFICES ASSUME NEW a \in Index, NEW b \in Index, Held(a)',
                      Dist(Home[slots'[a].key], b) < Dist(Home[slots'[a].key], a)
               PROVE  Held(b)'
      BY DEF Reachable
  <2>1. CASE b = p
      BY <1>3, <2>1
  <2>2. CASE b # p /\ a = p
      BY <1>0, <1>2, <1>3, <2>2 DEF InsertDone, Inv, TableInv, ProbeClean, Held
  <2>3. CASE b # p /\ a # p
      BY <1>0, <1>2, <1>3, <2>3 DEF InsertDone, Inv, TableInv, Reachable
  <2> QED
      BY <2>1, <2>2, <2>3
<1> QED
    BY <1>4, <1>5, <1>6
    DEF TableInv, InsertDone, Return, ProbeClean, ShiftClean, InsertHasRoom

\* The entry that is erased becomes the hole; what lies beyond it may now be
\* reached over the hole only.
LEMMA EraseHitInv ==
  ASSUME Inv, EraseHit
  PROVE  TableInv'
<1>1. i \in Index /\ call.key \in Key /\ Occupied(i) /\ slots[i].key = call.key
    BY CallTyped, SentinelAssumption DEF EraseHit, Inv, TypeOK, Occupied
<1>2. \A s \in Index : /\ Occupied(s)' = Occupied(s)
                       /\ Held(s) <=> Occupied(s)
                       /\ Held(s)' <=> Held(s) /\ s # i
    BY DEF EraseHit, Occupied, Held
<1>3. SizeExact'
  <2>1. OccupiedSet' = OccupiedSet
      BY <1>2 DEF OccupiedSet
  <2> QED
      BY <2>1 DEF EraseHit, Inv, TableInv, SizeExact
<1>4. KeysUnique'
    BY <1>2 DEF EraseHit, Inv, TableInv, KeysUnique
<1>5. Reachable'
  <2> SUFFICES ASSUME NEW a \in Index, NEW b \in Index, Held(a)',
                      Dist(Home[slots[a].key], b) < Dist(Home[slots[a].key], a)
               PROVE  Held(b)' \/ (b = i /\ Dist(i, a) > Dist(i, i))
      BY DEF EraseHit, Reachable
  <2>1. Held(b)
      BY <1>2 DEF EraseHit, Inv, TableInv, Reachable
  <2>2. a # i /\ Dist(i, a) \in Nat /\ Dist(i, a) # 0 /\ Dist(i, i) = 0
      BY <1>1, <1>2, DistRange
  <2> QED
      BY <1>2, <2>1, <2>2
<1>6. ShiftClean'
  <2>1. ASSUME NEW b \in Index, Dist(i, b) <= Dist(i, i) PROVE Occupied(b)
    <3>1. b = i
        BY <1>1, <2>1, DistRange
    <3> QED
        BY <1>1, <3>1
  <2>2. ASSUME NEW a \in Index, Held(a)' PROVE slots[a].key # call.key
    <3>1. Held(a) /\ Held(i) /\ a # i
        BY <1>1, <1>2, <2>2
    <3> QED
        BY <1>1, <3>1 DEF Inv, TableInv, KeysUnique
  <2> QED
      BY <1>2, <2>1, <2>2 DEF EraseHit, ShiftClean
<1> QED
    BY <1>3, <1>4, <1>5, <1>6
    DEF EraseHit, TableInv, ProbeClean, InsertHasRoom

\* The scan never comes round to the hole: a free slot lies in between.
LEMMA ScanStaysAhead ==
  ASSUME Inv, pc = "shift", Occupied(Succ(j))
  PROVE  /\ Succ(j) \in Index /\ Succ(j) # i
         /\ Dist(i, Succ(j)) = Dist(i, j) + 1
<1>1. i \in Index /\ j \in Index /\ Succ(j) \in Index
    BY DistSucc DEF Inv, TypeOK
<1>2. PICK e \in Index : ~Occupied(e)
    BY FreeSlot DEF Inv, TableInv
<1>3. ~(Dist(i, e) <= Dist(i, j))
    BY <1>2 DEF Inv, TableInv, ShiftClean
<1>4. Succ(j) # i
  <2> SUFFICES ASSUME Succ(j) = i PROVE FALSE
      OBVIOUS
  <2>1. Dist(i, j) = Capacity - 1
      BY <1>1, CapacityAssumption DEF Succ, Dist, Index
  <2>2. Dist(i, e) \in Index
      BY <1>1, DistRange
  <2> QED
      BY <1>3, <2>1, <2>2, CapacityAssumption DEF Index
<1> QED
    BY <1>1, <1>4, DistSucc

\* The entry the scan finds stays where it is.
LEMMA ShiftKeepInv ==
  ASSUME Inv, ShiftStep, ~CanMove(i, Succ(j), Home[slots[Succ(j)].key])
  PROVE  TableInv'
<1> DEFINE n == Succ(j)
<1>1. /\ i \in Index /\ j \in Index /\ n \in Index /\ n # i
      /\ Dist(i, n) = Dist(i, j) + 1 /\ Dist(i, j) \in Nat /\ Dist(i, n) \in Nat
    BY ScanStaysAhead, DistRange DEF ShiftStep, Inv, TypeOK
<1>2. Occupied(n) /\ j' = n /\ UNCHANGED <<slots, i, size, pc, call>>
    BY DEF ShiftStep
<1>3. \A s \in Index : Occupied(s)' = Occupied(s) /\ Held(s)' = Held(s)
    BY <1>2 DEF Occupied, Held
<1>4. SizeExact'
  <2>1. OccupiedSet' = OccupiedSet
      BY <1>3 DEF OccupiedSet
  <2> QED
      BY <1>2, <2>1 DEF Inv, TableInv, SizeExact
<1>5. KeysUnique'
    BY <1>2, <1>3 DEF Inv, TableInv, KeysUnique
<1>6. Reachable'
  <2> SUFFICES ASSUME NEW a \in Index, NEW b \in Index, Held(a),
                      Dist(Home[slots[a].key], b) < Dist(Home[slots[a].key], a),
                      ~Held(b)
               PROVE  b = i /\ Dist(i, a) > Dist(i, n)
      BY <1>2, <1>3 DEF Reachable, ShiftStep
  <2>1. b = i /\ Dist(i, a) > Dist(i, j)
      BY DEF Inv, TableInv, Reachable
  <2>2. a # n
    <3>1. Home[slots[n].key] \in Index
        BY <1>1, <1>2, SlotTyped DEF Inv
    <3>2. ~(Dist(Home[slots[n].key], i) < Dist(Home[slots[n].key], n))
        BY <1>1, <3>1, CanMoveMeaning
    <3> QED
        BY <2>1, <3>2
  <2>3. Dist(i, a) # Dist(i, n)
      BY <1>1, <2>2, DistInjective
  <2>4. Dist(i, a) \in Nat
      BY <1>1, DistRange
  <2> QED
      BY <1>1, <2>1, <2>3, <2>4
<1>7. ShiftClean'
  <2>1. ASSUME NEW b \in Index, Dist(i, b) <= Dist(i, n) PROVE Occupied(b)
    <3>1. Dist(i, b) <= Dist(i, j) \/ Dist(i, b) = Dist(i, n)
        BY <1>1, <2>1, DistRange
    <3> QED
        BY <1>1, <1>2, <3>1, DistInjective DEF ShiftStep, Inv, TableInv, ShiftClean
  <2> QED
      BY <1>2, <1>3, <2>1 DEF Inv, TableInv, ShiftClean, ShiftStep
<1> QED
    BY <1>4, <1>5, <1>6, <1>7
    DEF ShiftStep, TableInv, ProbeClean, InsertHasRoom

\* The entry the scan finds moves into the hole and leaves the new hole.
LEMMA ShiftMoveInv ==
  ASSUME Inv, ShiftStep, CanMove(i, Succ(j), Home[slots[Succ(j)].key])
  PROVE  TableInv'
<1> DEFINE n == Succ(j)
<1>0. PICK p \in Index : p = i
    BY DEF Inv, TypeOK
<1>00. PICK q \in Index : q = n
    BY DistSucc DEF Inv, TypeOK
<1>1. /\ j \in Index /\ q # p
      /\ Dist(p, q) = Dist(p, j) + 1 /\ Dist(p, j) \in Nat /\ Dist(p, q) \in Nat
    BY <1>0, <1>00, ScanStaysAhead, DistRange DEF ShiftStep, Inv, TypeOK
<1>2. /\ Occupied(q) /\ j' = q /\ i' = q /\ pc = "shift" /\ pc' = "shift"
      /\ slots' = [slots EXCEPT ![p] = slots[q]]
      /\ UNCHANGED <<size, call>>
    BY <1>0, <1>00 DEF ShiftStep
<1>3. /\ slots'[p] = slots[q]
      /\ \A s \in Index : s # p => slots'[s] = slots[s]
    BY <1>0, <1>2 DEF Inv, TypeOK
<1>4. Occupied(p)
  <2>1. Dist(p, p) = 0
      BY DistRange
  <2> QED
      BY <1>0, <1>1, <1>2, <2>1 DEF Inv, TableInv, ShiftClean
<1>5. \A s \in Index : Occupied(s)' = Occupied(s)
    BY <1>2, <1>3, <1>4 DEF Occupied
<1>6. /\ Held(p)' /\ ~Held(q)' /\ Held(q) /\ ~Held(p)
      /\ \A s \in Index : s # p /\ s # q => Held(s)' = Held(s)
    BY <1>0, <1>1, <1>2, <1>4, <1>5 DEF Held
<1>7. SizeExact'
  <2>1. OccupiedSet' = OccupiedSet
      BY <1>5 DEF OccupiedSet
  <2> QED
      BY <1>2, <2>1 DEF Inv, TableInv, SizeExact
<1>8. KeysUnique'
    BY <1>3, <1>6 DEF Inv, TableInv, KeysUnique
<1>9. Reachable'
  <2> SUFFICES ASSUME NEW a \in Index, NEW b \in Index, Held(a)',
                      Dist(Home[slots'[a].key], b) < Dist(Home[slots'[a].key], a)
               PROVE  Held(b)' \/ (b = q /\ Dist(q, a) > Dist(q, q))
      BY <1>2 DEF Reachable
  <2>1. CASE b = p
      BY <1>6, <2>1
  <2>2. CASE b = q
    <3>1. a # q /\ Dist(q, a) \in Nat /\ Dist(q, a) # 0 /\ Dist(q, q) = 0
        BY <1>6, DistRange
    <3> QED
        BY <2>2, <3>1
  <2>3. CASE b # p /\ b # q /\ a # p
    <3>1. Held(a) /\ slots'[a] = slots[a]
        BY <1>3, <1>6, <2>3
    <3>2. Held(b)
        BY <1>0, <2>3, <3>1 DEF Inv, TableInv, Reachable
    <3> QED
        BY <1>6, <2>3, <3>2
  <2>4. CASE b # p /\ b # q /\ a = p
    <3> DEFINE h == Home[slots[q].key]
    <3>1. h \in Index
        BY <1>2, SlotTyped DEF Inv
    <3>2. Dist(h, p) < Dist(h, q)
        BY <1>0, <1>00, <1>1, <3>1, CanMoveMeaning
    <3>3. Dist(h, b) < Dist(h, p)
        BY <1>3, <2>4
    <3>4. Dist(h, b) < Dist(h, q)
        BY <3>1, <3>2, <3>3, DistRange
    <3>5. Held(b)
        BY <1>0, <1>6, <2>4, <3>4 DEF Inv, TableInv, Reachable
    <3> QED
        BY <1>6, <2>4, <3>5
  <2> QED
      BY <2>1, <2>2, <2>3, <2>4
<1>10. ShiftClean'
  <2>1. ASSUME NEW b \in Index, Dist(q, b) <= Dist(q, q) PROVE Occupied(b)
    <3>1. b = q
        BY <2>1, DistRange
    <3> QED
        BY <1>2, <3>1
  <2>2. ASSUME NEW a \in Index, Held(a)' PROVE slots'[a].key # call.key
      BY <1>2, <1>3, <1>6, <2>2 DEF Inv, TableInv, ShiftClean
  <2> QED
      BY <1>2, <1>5, <2>1, <2>2 DEF ShiftClean
<1> QED
    BY <1>2, <1>7, <1>8, <1>9, <1>10
    DEF TableInv, ProbeClean, InsertHasRoom

\* At the first free slot no entry's path leads over the hole any more.
LEMMA ShiftDoneInv ==
  ASSUME Inv, ShiftDone
  PROVE  TableInv'
<1>0. PICK p \in Index : p = i    \* i itself changes in this step
    BY DEF Inv, TypeOK
<1>00. PICK q \in Index : q = Succ(j)
    BY DistSucc DEF Inv, TypeOK
<1>1. /\ j \in Index /\ ~Occupied(q) /\ pc = "shift" /\ pc' = "idle"
      /\ slots' = [slots EXCEPT ![p].key = kEmpty]
    BY <1>0, <1>00 DEF ShiftDone, Return, Inv, TypeOK
<1>2. /\ slots'[p].key = kEmpty
      /\ \A s \in Index : s # p => slots'[s] = slots[s]
    BY <1>0, <1>1 DEF Inv, TypeOK
<1>3. Occupied(p)
  <2>1. Dist(p, p) = 0 /\ Dist(p, j) \in Nat
      BY <1>1, DistRange
  <2> QED
      BY <1>0, <1>1, <2>1 DEF Inv, TableInv, ShiftClean
<1>4. /\ ~Occupied(p)' /\ ~Held(p)' /\ ~Held(p)
      /\ \A s \in Index : s # p => /\ Occupied(s)' = Occupied(s)
                                   /\ Held(s)' = Held(s)
                                   /\ Held(s) = Occupied(s)
    BY <1>0, <1>1, <1>2 DEF Held, Occupied
<1>5. SizeExact'
  <2>1. OccupiedSet' = OccupiedSet \ {p} /\ p \in OccupiedSet
      BY <1>3, <1>4 DEF OccupiedSet
  <2>2. Cardinality(OccupiedSet') = Cardinality(OccupiedSet) - 1
      BY <2>1, IndexFinite, FS_RemoveElement
  <2> QED
      BY <2>2, CapacityAssumption
      DEF ShiftDone, Inv, TypeOK, TableInv, SizeExact
<1>6. KeysUnique'
    BY <1>2, <1>4 DEF Inv, TableInv, KeysUnique
<1>7. Reachable'
  <2> SUFFICES ASSUME NEW a \in Index, NEW b \in Index, Held(a), a # p,
                      Dist(Home[slots[a].key], b) < Dist(Home[slots[a].key], a),
                      ~Held(b)
               PROVE  FALSE
      BY <1>2, <1>4 DEF Reachable
  <2> DEFINE h == Home[slots[a].key]
  <2>1. b = p /\ Dist(p, a) > Dist(p, j)
      BY <1>0 DEF Inv, TableInv, Reachable
  <2>2. h \in Index
      BY <1>4, SlotTyped DEF Inv
  <2>3. Dist(p, q) = Dist(p, j) + 1 \/ q = p
      BY <1>00, <1>1, DistSucc
  <2>4. a # q /\ q # p
      BY <1>1, <1>3, <1>4
  <2>5. Dist(p, q) < Dist(p, a)
    <3>1. Dist(p, a) # Dist(p, q)
        BY <2>4, DistInjective
    <3> QED
        BY <1>1, <2>1, <2>3, <2>4, <3>1, DistRange
  <2>6. Dist(h, a) = Dist(h, p) + Dist(p, a)
      BY <2>1, <2>2, DistAdd, DistRange
  <2>7. Dist(h, q) < Dist(h, a)
      BY <2>2, <2>5, <2>6, PathBeyond
  <2>8. Held(q) \/ q = i
      BY <2>7 DEF Inv, TableInv, Reachable
  <2> QED
      BY <1>0, <1>1, <2>4, <2>8 DEF Held
<1> QED
    BY <1>5, <1>6, <1>7
    DEF TableInv, ShiftDone, Return, ProbeClean, ShiftClean, InsertHasRoom

\* A call that leaves the slots alone may return.
LEMMA ReturnOnlyInv ==
  ASSUME Inv, pc = "probe", NEW r, Return(r), UNCHANGED <<slots, size>>
  PROVE  TableInv'
BY SlotsUntouched DEF Return, TableInv, ProbeClean, InsertHasRoom

\* Every step keeps the invariant.
LEMMA InvNext == Inv /\ [Next]_vars => Inv'
<1> SUFFICES ASSUME Inv, [Next]_vars PROVE TableInv'
    BY TypeNext DEF Inv
<1>1. ASSUME NEW k \in Key, NEW v \in Value, CallInsert(k, v) PROVE TableInv'
    BY <1>1, StartInv DEF CallInsert, Calls
<1>2. ASSUME NEW k \in Key, CallFind(k) PROVE TableInv'
    BY <1>2, StartInv DEF CallFind, Calls
<1>3. ASSUME NEW k \in Key, CallErase(k) PROVE TableInv'
    BY <1>3, StartInv DEF CallErase, Calls
<1>4. CASE InsertRefused
    BY <1>4, SlotsUntouched
    DEF InsertRefused, TableInv, ProbeClean, InsertHasRoom
<1>5. CASE ProbeStep
    BY <1>5, ProbeStepInv
<1>6. CASE InsertDone
    BY <1>6, InsertInv
<1>7. CASE FindDone
    BY <1>7, ReturnOnlyInv DEF FindDone
<1>8. CASE EraseMiss
    BY <1>8, ReturnOnlyInv DEF EraseMiss
<1>9. CASE EraseHit
    BY <1>9, EraseHitInv
<1>10. CASE ShiftStep
    BY <1>10, ShiftKeepInv, ShiftMoveInv
<1>11. CASE ShiftDone
    BY <1>11, ShiftDoneInv
<1>12. CASE UNCHANGED vars
    BY <1>12 DEF vars, Inv, TableInv, SizeExact, OccupiedSet, Occupied, Held,
       KeysUnique, Reachable, ProbeClean, ShiftClean, InsertHasRoom, Saturated,
       Passing
<1> QED
    BY <1>1, <1>2, <1>3, <1>4, <1>5, <1>6, <1>7, <1>8, <1>9, <1>10, <1>11,
       <1>12 DEF Next, Begin, Run

\* RefTable's variables keep their types, whatever calls are made.
THEOREM TypeCorrect == Spec => []TypeOK
<1>1. Init => Inv
    BY InvInit
<1>2. Inv /\ [Next]_vars => Inv'
    BY InvNext
<1>3. Inv => TypeOK
    BY DEF Inv
<1> QED
    BY <1>1, <1>2, <1>3, PTL DEF Spec

\* Probing, load limit and backward-shift deletion keep the table sound: every
\* held key is unique and reachable from its home, size_ is exact, and a free
\* slot is left for every loop, for any capacity and any hash function.
THEOREM TableCorrect == Spec => []TableInv
<1>1. Init => Inv
    BY InvInit
<1>2. Inv /\ [Next]_vars => Inv'
    BY InvNext
<1>3. Inv => TableInv
    BY DEF Inv
<1> QED
    BY <1>1, <1>2, <1>3, PTL DEF Spec

-----------------------------------------------------------------------------
(* RefTable implements RefMap. *)

\* Looking up a held key gives the value stored with it.
LEMMA LookupHit ==
  ASSUME NEW sl, NEW held, NEW s \in held,
         \A a, b \in held : sl[a].key = sl[b].key => a = b
  PROVE  Lookup(sl, held, sl[s].key) = sl[s].value
BY DEF Lookup

\* A key that no held entry has is not found.
LEMMA LookupMiss ==
  ASSUME NEW sl, NEW held, NEW k, \A s \in held : sl[s].key # k
  PROVE  Lookup(sl, held, k) = kNullIdx
BY DEF Lookup

\* Tables that hold the same entries, wherever, have the same contents.
LEMMA LookupSame ==
  ASSUME NEW sl, NEW held, NEW sm, NEW heldm, NEW k,
         \A a, b \in held : sl[a].key = sl[b].key => a = b,
         \A a, b \in heldm : sm[a].key = sm[b].key => a = b,
         \A s \in held : \E t \in heldm : sl[s] = sm[t],
         \A t \in heldm : \E s \in held : sl[s] = sm[t]
  PROVE  Lookup(sl, held, k) = Lookup(sm, heldm, k)
<1>1. CASE \E s \in held : sl[s].key = k
  <2>1. PICK s \in held : sl[s].key = k
      BY <1>1
  <2>2. PICK t \in heldm : sl[s] = sm[t]
      OBVIOUS
  <2>3. Lookup(sl, held, sl[s].key) = sl[s].value
      BY LookupHit
  <2>4. Lookup(sm, heldm, sm[t].key) = sm[t].value
      BY LookupHit
  <2> QED
      BY <2>1, <2>2, <2>3, <2>4
<1>2. CASE ~ \E s \in held : sl[s].key = k
  <2>1. \A t \in heldm : sm[t].key # k
      BY <1>2
  <2> QED
      BY <1>2, <2>1, LookupMiss
<1> QED
    BY <1>1, <1>2

\* Two held entries with one key are the same entry.
LEMMA HeldUnique ==
  Inv => \A a, b \in HeldSet : slots[a].key = slots[b].key => a = b
BY DEF Inv, TableInv, KeysUnique, HeldSet

\* Between calls and while probing, size_ is the number of live keys.
LEMMA LiveCount ==
  ASSUME Inv, pc # "shift"
  PROVE  Cardinality(Abs!Live(Contents)) = size
<1> DEFINE L == Abs!Live(Contents)
           f == [s \in OccupiedSet |-> slots[s].key]
<1>1. HeldSet = OccupiedSet
    BY DEF HeldSet, OccupiedSet, Held
<1>2. \A s \in OccupiedSet : /\ slots[s].key \in Key /\ slots[s].value \in Value
                             /\ Contents[slots[s].key] = slots[s].value
  <2>1. SUFFICES ASSUME NEW s \in OccupiedSet
                 PROVE  /\ slots[s].key \in Key /\ slots[s].value \in Value
                        /\ Contents[slots[s].key] = slots[s].value
      OBVIOUS
  <2>2. slots[s].key \in Key /\ slots[s].value \in Value
      BY SlotTyped DEF OccupiedSet, Inv
  <2>3. Lookup(slots, HeldSet, slots[s].key) = slots[s].value
      BY <1>1, HeldUnique, LookupHit
  <2> QED
      BY <2>2, <2>3 DEF Contents
<1>3. f \in [OccupiedSet -> L]
    BY <1>2, SentinelAssumption DEF Abs!Live
<1>4. \A k \in L : \E s \in OccupiedSet : f[s] = k
  <2> SUFFICES ASSUME NEW k \in L, \A s \in OccupiedSet : slots[s].key # k
               PROVE  FALSE
      OBVIOUS
  <2>1. Lookup(slots, HeldSet, k) = kNullIdx
      BY <1>1, LookupMiss
  <2> QED
      BY <2>1 DEF Contents, Abs!Live
<1>5. f \in Surjection(OccupiedSet, L)
    BY <1>3, <1>4 DEF Surjection
<1>6. f \in Injection(OccupiedSet, L)
    BY <1>1, <1>3, HeldUnique DEF Injection, IsInjective
<1>7. Cardinality(L) = Cardinality(OccupiedSet)
    BY <1>5, <1>6, IndexFinite, FS_Surjection
<1> QED
    BY <1>7 DEF Inv, TableInv, SizeExact

\* Outside a shift the table and the map agree on being half full.
LEMMA SaturatedMeaning ==
  ASSUME Inv, pc # "shift"
  PROVE  Abs!Saturated(Contents) <=> Saturated
<1>1. Cardinality(Abs!Live(Contents)) = size /\ size \in Nat
    BY LiveCount DEF Inv, TypeOK
<1>2. Abs!Cardinality(Abs!Live(Contents)) = Cardinality(Abs!Live(Contents))
    BY DEF Abs!Cardinality, Cardinality
<1> QED
    BY <1>1, <1>2, CapacityAssumption DEF Abs!Saturated, Saturated

\* An empty table stands for the empty map.
LEMMA RefineInit == Init => Abs!Init
<1> SUFFICES ASSUME Init PROVE Abs!Init
    OBVIOUS
<1>1. HeldSet = {}
    BY DEF Init, HeldSet, Held, Occupied
<1>2. \A k \in Key : Lookup(slots, HeldSet, k) = kNullIdx
    BY <1>1, LookupMiss
<1> QED
    BY <1>2 DEF Init, Abs!Init, Abs!Empty, Abs!NoCall, Contents, Pending, NoCall

\* Steps outside a shift that leave the slots alone leave the map alone.
LEMMA ContentsUntouched ==
  ASSUME Inv, slots' = slots, pc # "shift", pc' # "shift"
  PROVE  Contents' = Contents
<1>1. HeldSet' = HeldSet
    BY DEF HeldSet, Held, Occupied
<1> QED
    BY <1>1 DEF Contents

\* A call that enters probe is one the map has let in.
LEMMA BeginRefines ==
  ASSUME Inv, NEW c \in Calls, StartProbe(c), c.op = "insert" => ~Saturated
  PROVE  Abs!Begin(c)
<1>1. Contents' = Contents
    BY ContentsUntouched DEF StartProbe
<1>2. c.op = "insert" => ~Abs!Saturated(Contents)
    BY SaturatedMeaning DEF StartProbe
<1>3. Pending = Abs!NoCall /\ Pending' = c
    BY DEF StartProbe, Pending, NoCall, Abs!NoCall, Inv, TypeOK
<1> QED
    BY <1>1, <1>2, <1>3 DEF StartProbe, Abs!Begin

\* An insert is refused only when the map is half full.
LEMMA RefusedRefines ==
  ASSUME Inv, InsertRefused
  PROVE  Abs!Refuse
<1>1. Contents' = Contents
    BY ContentsUntouched DEF InsertRefused
<1>2. Abs!Saturated(Contents)
    BY SaturatedMeaning DEF InsertRefused
<1>3. Pending = Abs!NoCall /\ Pending' = Pending
    BY DEF InsertRefused, Pending, NoCall, Abs!NoCall, Inv, TypeOK
<1> QED
    BY <1>1, <1>2, <1>3 DEF InsertRefused, Abs!Refuse

\* A call that returns from probe, or starts to shift, was pending until now.
LEMMA TakesEffect ==
  ASSUME pc = "probe", (pc' = "idle" /\ call' = NoCall) \/ pc' = "shift"
  PROVE  Pending = call /\ Pending' = Abs!NoCall
BY DEF Pending, NoCall, Abs!NoCall

\* An insert that returns has put its value under its key.
LEMMA InsertRefines ==
  ASSUME Inv, Inv', InsertDone
  PROVE  Abs!Insert
<1>0. PICK p \in Index : p = i
    BY DEF Inv, TypeOK
<1>1. /\ call.key \in Key /\ kEmpty \notin Key
      /\ slots' = [slots EXCEPT ![p] = [key |-> call.key, value |-> call.value]]
      /\ pc = "probe" /\ pc' = "idle" /\ ~Passing
    BY <1>0, CallTyped, SentinelAssumption DEF InsertDone, Return, Inv
<1>2. /\ slots'[p] = [key |-> call.key, value |-> call.value]
      /\ \A s \in Index : s # p => slots'[s] = slots[s]
    BY <1>0, <1>1 DEF Inv, TypeOK
<1>3. HeldSet' = HeldSet \cup {p}
    BY <1>1, <1>2 DEF HeldSet, Held, Occupied
<1>4. \A a \in HeldSet : a # p => slots[a].key # call.key
    BY <1>0, <1>1, ProbeStopsAtKey DEF HeldSet, Held
<1>5. slots[p].key = call.key \/ p \notin HeldSet
    BY <1>0 DEF InsertDone, Passing, HeldSet, Held, Occupied
<1>6. (\A a, b \in HeldSet : slots[a].key = slots[b].key => a = b)'
    BY HeldUnique, <1>1, <1>2, <1>3, <1>4
<1>7. Contents'[call.key] = call.value
  <2>1. Lookup(slots', HeldSet', slots'[p].key) = slots'[p].value
      BY <1>3, <1>6, LookupHit
  <2> QED
      BY <1>1, <1>2, <2>1 DEF Contents
<1>8. ASSUME NEW k \in Key, k # call.key PROVE Contents'[k] = Contents[k]
  <2>1. CASE \E s \in HeldSet : slots[s].key = k
    <3>1. PICK s \in HeldSet : slots[s].key = k
        BY <2>1
    <3>2. s # p
        BY <1>5, <1>8, <3>1
    <3>3. s \in HeldSet' /\ slots'[s] = slots[s]
        BY <1>2, <1>3, <3>1, <3>2 DEF HeldSet
    <3>4. Lookup(slots', HeldSet', slots'[s].key) = slots'[s].value
        BY <1>6, <3>3, LookupHit
    <3>5. Lookup(slots, HeldSet, slots[s].key) = slots[s].value
        BY HeldUnique, LookupHit
    <3> QED
        BY <3>1, <3>3, <3>4, <3>5 DEF Contents
  <2>2. CASE \A s \in HeldSet : slots[s].key # k
    <3>1. \A s \in HeldSet' : slots'[s].key # k
        BY <1>2, <1>3, <1>8, <2>2 DEF HeldSet
    <3>2. Lookup(slots', HeldSet', k) = kNullIdx
        BY <3>1, LookupMiss
    <3>3. Lookup(slots, HeldSet, k) = kNullIdx
        BY <2>2, LookupMiss
    <3> QED
        BY <3>2, <3>3 DEF Contents
  <2> QED
      BY <2>1, <2>2
<1>9. Contents' = [Contents EXCEPT ![call.key] = call.value]
    BY <1>1, <1>7, <1>8 DEF Contents
<1>10. ~Abs!Saturated(Contents)
    BY SaturatedMeaning DEF InsertDone, Inv, TableInv, InsertHasRoom
<1>11. Pending = call /\ Pending' = Abs!NoCall
    BY TakesEffect DEF InsertDone, Return
<1> QED
    BY <1>9, <1>10, <1>11 DEF Abs!Insert, Abs!Put, InsertDone, Return

\* A find returns what the map holds.
LEMMA FindRefines ==
  ASSUME Inv, FindDone
  PROVE  Abs!Find
<1>0. call.key \in Key /\ i \in Index /\ pc = "probe" /\ ~Passing
    BY CallTyped DEF FindDone, Inv, TypeOK
<1>1. Contents' = Contents /\ Pending = call /\ Pending' = Abs!NoCall
    BY ContentsUntouched, TakesEffect DEF FindDone, Return
<1>2. CASE slots[i].key = call.key
  <2>1. i \in HeldSet
      BY <1>0, <1>2, SentinelAssumption DEF HeldSet, Held, Occupied
  <2>2. Lookup(slots, HeldSet, slots[i].key) = slots[i].value
      BY <2>1, HeldUnique, LookupHit
  <2> QED
      BY <1>0, <1>1, <1>2, <2>2 DEF Contents, FindDone, Return, Abs!Find
<1>3. CASE slots[i].key # call.key
  <2>1. \A s \in HeldSet : slots[s].key # call.key
      BY <1>0, <1>3, ProbeStopsAtKey DEF HeldSet, Held
  <2>2. Lookup(slots, HeldSet, call.key) = kNullIdx
      BY <2>1, LookupMiss
  <2> QED
      BY <1>0, <1>1, <1>3, <2>2 DEF Contents, FindDone, Return, Abs!Find
<1> QED
    BY <1>2, <1>3

\* An erase that misses drops a key the map does not hold.
LEMMA MissRefines ==
  ASSUME Inv, EraseMiss
  PROVE  Abs!Erase
<1>0. call.key \in Key /\ i \in Index /\ pc = "probe" /\ ~Passing
      /\ slots[i].key # call.key
    BY CallTyped, SentinelAssumption DEF EraseMiss, Inv, TypeOK, Passing
<1>1. Contents' = Contents
    BY ContentsUntouched DEF EraseMiss, Return
<1>2. \A s \in HeldSet : slots[s].key # call.key
    BY <1>0, ProbeStopsAtKey DEF HeldSet, Held
<1>3. Contents[call.key] = kNullIdx
    BY <1>0, <1>2, LookupMiss DEF Contents
<1>4. Contents = [Contents EXCEPT ![call.key] = kNullIdx]
    BY <1>3 DEF Contents
<1>5. Pending = call /\ Pending' = Abs!NoCall
    BY <1>0, TakesEffect DEF EraseMiss, Return
<1> QED
    BY <1>1, <1>4, <1>5 DEF Abs!Erase, Abs!Drop, EraseMiss, Return

\* An erase drops its key the moment it finds it.
LEMMA HitRefines ==
  ASSUME Inv, Inv', EraseHit
  PROVE  Abs!Erase
<1>1. /\ i \in Index /\ call.key \in Key /\ slots[i].key = call.key
      /\ slots' = slots
    BY CallTyped DEF EraseHit, Inv, TypeOK
<1>2. HeldSet' = HeldSet \ {i} /\ i \in HeldSet
    BY <1>1, SentinelAssumption DEF EraseHit, HeldSet, Held, Occupied
<1>3. \A s \in HeldSet' : slots[s].key # call.key
    BY <1>1, <1>2, HeldUnique
<1>4. Contents'[call.key] = kNullIdx
    BY <1>1, <1>3, LookupMiss DEF Contents
<1>5. ASSUME NEW k \in Key, k # call.key PROVE Contents'[k] = Contents[k]
  <2>1. CASE \E s \in HeldSet : slots[s].key = k
    <3>1. PICK s \in HeldSet : slots[s].key = k
        BY <2>1
    <3>2. s \in HeldSet'
        BY <1>1, <1>2, <1>5, <3>1
    <3>3. Lookup(slots, HeldSet', slots[s].key) = slots[s].value
      <4>1. \A a, b \in HeldSet' : slots[a].key = slots[b].key => a = b
          BY <1>2, HeldUnique
      <4> QED
          BY <3>2, <4>1, LookupHit
    <3>4. Lookup(slots, HeldSet, slots[s].key) = slots[s].value
        BY HeldUnique, LookupHit
    <3> QED
        BY <1>1, <3>1, <3>3, <3>4 DEF Contents
  <2>2. CASE \A s \in HeldSet : slots[s].key # k
    <3>1. Lookup(slots, HeldSet', k) = kNullIdx
        BY <1>2, <2>2, LookupMiss
    <3>2. Lookup(slots, HeldSet, k) = kNullIdx
        BY <2>2, LookupMiss
    <3> QED
        BY <1>1, <3>1, <3>2 DEF Contents
  <2> QED
      BY <2>1, <2>2
<1>6. Contents' = [Contents EXCEPT ![call.key] = kNullIdx]
    BY <1>1, <1>4, <1>5 DEF Contents
<1>7. Pending = call /\ Pending' = Abs!NoCall
    BY TakesEffect DEF EraseHit
<1> QED
    BY <1>6, <1>7 DEF Abs!Erase, Abs!Drop, EraseHit

\* Moving an entry into the hole changes no lookup.
LEMMA ShiftRefines ==
  ASSUME Inv, Inv', ShiftStep
  PROVE  Contents' = Contents
<1>1. CASE ~CanMove(i, Succ(j), Home[slots[Succ(j)].key])
    BY <1>1 DEF ShiftStep, Contents, HeldSet, Held, Occupied
<1>2. CASE CanMove(i, Succ(j), Home[slots[Succ(j)].key])
  <2>0. PICK p \in Index : p = i
      BY DEF Inv, TypeOK
  <2>1. PICK q \in Index : q = Succ(j)
      BY DistSucc DEF Inv, TypeOK
  <2>2. /\ q # p /\ Occupied(q) /\ i' = q /\ pc = "shift" /\ pc' = "shift"
        /\ slots' = [slots EXCEPT ![p] = slots[q]]
      BY <1>2, <2>0, <2>1, ScanStaysAhead DEF ShiftStep
  <2>3. /\ slots'[p] = slots[q]
        /\ \A s \in Index : s # p => slots'[s] = slots[s]
      BY <2>0, <2>2 DEF Inv, TypeOK
  <2>4. HeldSet' = (HeldSet \ {q}) \cup {p} /\ q \in HeldSet /\ p \notin HeldSet
      BY <2>0, <2>2, <2>3 DEF HeldSet, Held, Occupied
  <2>5. \A a, b \in HeldSet' : slots'[a].key = slots'[b].key => a = b
      BY HeldUnique, <2>3, <2>4 DEF HeldSet
  <2>6. \A s \in HeldSet : \E t \in HeldSet' : slots[s] = slots'[t]
      BY <2>3, <2>4 DEF HeldSet
  <2>7. \A t \in HeldSet' : \E s \in HeldSet : slots[s] = slots'[t]
      BY <2>3, <2>4 DEF HeldSet
  <2>8. \A k \in Key : Lookup(slots, HeldSet, k) = Lookup(slots', HeldSet', k)
      BY <2>5, <2>6, <2>7, HeldUnique, LookupSame
  <2> QED
      BY <2>8 DEF Contents
<1> QED
    BY <1>1, <1>2

\* Freeing the hole changes no lookup.
LEMMA ShiftDoneRefines ==
  ASSUME Inv, ShiftDone
  PROVE  Contents' = Contents
<1>0. PICK p \in Index : p = i
    BY DEF Inv, TypeOK
<1>1. /\ pc = "shift" /\ pc' = "idle"
      /\ slots' = [slots EXCEPT ![p].key = kEmpty]
    BY <1>0 DEF ShiftDone, Return
<1>2. /\ slots'[p].key = kEmpty
      /\ \A s \in Index : s # p => slots'[s] = slots[s]
    BY <1>0, <1>1 DEF Inv, TypeOK
<1>3. HeldSet' = HeldSet /\ p \notin HeldSet
    BY <1>0, <1>1, <1>2 DEF HeldSet, Held, Occupied
<1>4. \A s \in HeldSet : slots'[s] = slots[s]
    BY <1>2, <1>3 DEF HeldSet
<1>5. \A k \in Key : Lookup(slots', HeldSet', k) = Lookup(slots, HeldSet, k)
    BY <1>3, <1>4, HeldUnique, LookupSame
<1> QED
    BY <1>5 DEF Contents

\* Every step of the table is a step of the map or leaves it alone.
LEMMA RefineNext == Inv /\ Inv' /\ [Next]_vars => [Abs!Next]_(Abs!vars)
<1> SUFFICES ASSUME Inv, Inv', [Next]_vars PROVE [Abs!Next]_(Abs!vars)
    OBVIOUS
<1>1. ASSUME NEW c \in Calls, StartProbe(c), c.op = "insert" => ~Saturated
      PROVE  Abs!Next
  <2>1. Abs!Begin(c) /\ c \in Abs!Calls
      BY <1>1, BeginRefines DEF Calls, Abs!Calls
  <2> QED
      BY <2>1 DEF Abs!Next
<1>2. CASE InsertRefused
    BY <1>2, RefusedRefines DEF Abs!Next
<1>3. CASE ProbeStep
    BY <1>3, ContentsUntouched DEF ProbeStep, Pending, Abs!vars
<1>4. CASE InsertDone
    BY <1>4, InsertRefines DEF Abs!Next
<1>5. CASE FindDone
    BY <1>5, FindRefines DEF Abs!Next
<1>6. CASE EraseMiss
    BY <1>6, MissRefines DEF Abs!Next
<1>7. CASE EraseHit
    BY <1>7, HitRefines DEF Abs!Next
<1>8. CASE ShiftStep
    BY <1>8, ShiftRefines DEF ShiftStep, Pending, Abs!vars
<1>9. CASE ShiftDone
    BY <1>9, ShiftDoneRefines DEF ShiftDone, Return, Pending, Abs!vars
<1>10. CASE UNCHANGED vars
    BY <1>10 DEF vars, Abs!vars, Contents, Pending, HeldSet, Held, Occupied
<1>11. ASSUME NEW k \in Key, NEW v \in Value, CallInsert(k, v) PROVE Abs!Next
  <2>1. [op |-> "insert", key |-> k, value |-> v] \in Calls
      BY DEF Calls
  <2> QED
      BY <1>1, <1>11, <2>1 DEF CallInsert
<1>12. ASSUME NEW k \in Key, CallFind(k) PROVE Abs!Next
  <2>1. [op |-> "find", key |-> k] \in Calls
      BY DEF Calls
  <2> QED
      BY <1>1, <1>12, <2>1 DEF CallFind
<1>13. ASSUME NEW k \in Key, CallErase(k) PROVE Abs!Next
  <2>1. [op |-> "erase", key |-> k] \in Calls
      BY DEF Calls
  <2> QED
      BY <1>1, <1>13, <2>1 DEF CallErase
<1> QED
    BY <1>2, <1>3, <1>4, <1>5, <1>6, <1>7, <1>8, <1>9, <1>10, <1>11, <1>12, <1>13
    DEF Next, Begin, Run

\* RefTable implements RefMap, each call on the key it was given: find(k)
\* returns exactly what the map holds for k, so a present key is never missed;
\* erase(k) removes k and no other key whatever it shifts; insert(k, v) sets k
\* alone, and is refused when the table is half full and only then.
THEOREM TableRefinesMap == Spec => RefinesMap
<1>1. Init => Abs!Init
    BY RefineInit
<1>2. Inv /\ Inv' /\ [Next]_vars => [Abs!Next]_(Abs!vars)
    BY RefineNext
<1>3. Spec => []Inv
  <2>1. Init => Inv
      BY InvInit
  <2>2. Inv /\ [Next]_vars => Inv'
      BY InvNext
  <2> QED
      BY <2>1, <2>2, PTL DEF Spec
<1> QED
    BY <1>1, <1>2, <1>3, PTL DEF Spec, RefinesMap, Abs!Spec
=============================================================================
