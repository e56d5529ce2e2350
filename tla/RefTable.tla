------------------------------ MODULE RefTable ------------------------------
(***************************************************************************)
(* v3::RefTable (include/v3/ref_table.hpp): open addressing with linear    *)
(* probing and backward-shift deletion.  One thread calls it; a call is    *)
(* modelled one loop iteration at a time, so that the state in the middle  *)
(* of a shift -- a hole that still holds a stale entry -- is visible.      *)
(***************************************************************************)
EXTENDS Integers, FiniteSets

CONSTANTS Key,       \* order references; kEmpty is not one of them
          Value,     \* pool indices
          kEmpty,    \* key of a free slot
          kNullIdx,  \* result of find for an absent key
          Capacity,  \* slots_.size()
          Home       \* k |-> hash(k) & mask_: any function will do

Index == 0 .. Capacity - 1

ASSUME CapacityAssumption == Capacity \in Nat /\ Capacity >= 2
ASSUME HomeAssumption == Home \in [Key -> Index]
ASSUME SentinelAssumption == kEmpty \notin Key /\ kNullIdx \notin Value
ASSUME ZeroAssumption == 0 \in Value   \* the constructor's Slot{kEmpty, 0, 0}

VARIABLES slots,   \* slots_
          size,    \* size_
          pc,      \* "idle", "probe" (in probe) or "shift" (erase's loop)
          call,    \* the running call: operation and arguments
          i,       \* probe position; in "shift" the hole being moved
          j,       \* erase's scan position
          ret      \* result of the last call, kNullIdx for a void one

vars == <<slots, size, pc, call, i, j, ret>>

Calls == [op : {"insert"}, key : Key, value : Value]
           \cup [op : {"find", "erase"}, key : Key]

NoCall == [op |-> "none"]

TypeOK ==
  /\ slots \in [Index -> [key : Key \cup {kEmpty}, value : Value]]
  /\ size \in Nat
  /\ pc \in {"idle", "probe", "shift"}
  /\ call \in Calls \cup {NoCall}
  /\ pc = "idle" <=> call = NoCall
  /\ pc = "shift" => call.op = "erase"
  /\ i \in Index /\ j \in Index
  /\ ret \in Value \cup {kNullIdx}

-----------------------------------------------------------------------------
(* Slots and distances along the probe order. *)

\* Without the mask.
BugSuccNoMask(n) == n + 1

Succ(n) == IF n + 1 = Capacity THEN 0 ELSE n + 1    \* (n + 1) & mask_

Dist(a, b) == IF a <= b THEN b - a ELSE b - a + Capacity

Occupied(s) == slots[s].key # kEmpty

OccupiedSet == {s \in Index : Occupied(s)}

\* Without the load limit.
BugSaturatedNever == FALSE

Saturated == size * 2 >= Capacity

\* erase's can_move: the entry at scan position n, at home in k, may fill
\* the hole h iff k does not lie cyclically after h and up to n.
\* Without the case of a path that wraps around.
BugCanMoveNoWrap(h, n, k) == k <= h \/ k > n

CanMove(h, n, k) == IF n > h THEN k <= h \/ k > n
                             ELSE k <= h /\ k > n

-----------------------------------------------------------------------------
(* Steps of a call. *)

Init ==
  /\ slots = [s \in Index |-> [key |-> kEmpty, value |-> 0]]
  /\ size = 0
  /\ pc = "idle" /\ call = NoCall
  /\ i = 0 /\ j = 0
  /\ ret = kNullIdx

Return(r) ==
  /\ pc' = "idle" /\ call' = NoCall
  /\ i' = 0 /\ j' = 0
  /\ ret' = r

\* A call enters probe: its first look is at the key's home.
StartProbe(c) ==
  /\ pc = "idle"
  /\ pc' = "probe" /\ call' = c
  /\ i' = Home[c.key]
  /\ UNCHANGED <<slots, size, j, ret>>

CallInsert(k, v) == ~Saturated /\ StartProbe([op |-> "insert", key |-> k, value |-> v])

InsertRefused ==
  /\ pc = "idle" /\ Saturated
  /\ ret' = kNullIdx
  /\ UNCHANGED <<slots, size, pc, call, i, j>>

CallFind(k) == StartProbe([op |-> "find", key |-> k])

CallErase(k) == StartProbe([op |-> "erase", key |-> k])

\* probe's loop condition: the slot is taken by another key.
Passing == slots[i].key # kEmpty /\ slots[i].key # call.key

ProbeStep ==
  /\ pc = "probe" /\ Passing
  /\ i' = Succ(i)
  /\ UNCHANGED <<slots, size, pc, call, j, ret>>

InsertDone ==
  /\ pc = "probe" /\ ~Passing /\ call.op = "insert"
  /\ slots' = [slots EXCEPT ![i] = [key |-> call.key, value |-> call.value]]
  /\ size' = IF Occupied(i) THEN size ELSE size + 1
  /\ Return(kNullIdx)

FindDone ==
  /\ pc = "probe" /\ ~Passing /\ call.op = "find"
  /\ Return(IF slots[i].key = call.key THEN slots[i].value ELSE kNullIdx)
  /\ UNCHANGED <<slots, size>>

EraseMiss ==
  /\ pc = "probe" /\ call.op = "erase" /\ slots[i].key = kEmpty
  /\ Return(kNullIdx)
  /\ UNCHANGED <<slots, size>>

EraseHit ==
  /\ pc = "probe" /\ call.op = "erase" /\ slots[i].key = call.key
  /\ pc' = "shift" /\ j' = i
  /\ ret' = kNullIdx
  /\ UNCHANGED <<slots, size, call, i>>

\* Scans from the hole again and again instead of from j.
BugShiftRescans ==
  /\ pc = "shift"
  /\ LET n == Succ(i)
     IN  /\ Occupied(n)
         /\ j' = n
         /\ IF CanMove(i, n, Home[slots[n].key])
              THEN slots' = [slots EXCEPT ![i] = slots[n]] /\ i' = n
              ELSE UNCHANGED <<slots, i>>
  /\ UNCHANGED <<size, pc, call, ret>>

\* One iteration of erase's loop: j advances, and the entry found there
\* moves into the hole when its probe path crosses the hole.
ShiftStep ==
  /\ pc = "shift"
  /\ LET n == Succ(j)
     IN  /\ Occupied(n)
         /\ j' = n
         /\ IF CanMove(i, n, Home[slots[n].key])
              THEN slots' = [slots EXCEPT ![i] = slots[n]] /\ i' = n
              ELSE UNCHANGED <<slots, i>>
  /\ UNCHANGED <<size, pc, call, ret>>

\* The loop breaks at the first free slot.
ShiftDone ==
  /\ pc = "shift" /\ ~Occupied(Succ(j))
  /\ slots' = [slots EXCEPT ![i].key = kEmpty]
  /\ size' = size - 1
  /\ Return(ret)

-----------------------------------------------------------------------------

Begin == \/ \E k \in Key : \/ \E v \in Value : CallInsert(k, v)
                           \/ CallFind(k)
                           \/ CallErase(k)
         \/ InsertRefused

Run == \/ ProbeStep \/ InsertDone \/ FindDone \/ EraseMiss
       \/ EraseHit \/ ShiftStep \/ ShiftDone

Next == Begin \/ Run

\* The thread inside a call keeps running; nothing makes it begin one.
Spec == Init /\ [][Next]_vars /\ WF_vars(Run)

-----------------------------------------------------------------------------
(* Invariants. *)

\* The entries a finished call would leave: the hole of a running shift is
\* already logically free, though it still holds a stale entry.
Held(s) == Occupied(s) /\ ~(pc = "shift" /\ s = i)

\* size_ counts the slots in use and respects the load limit, so a free slot
\* is always left for probe and for erase's loop to stop at.
SizeExact == size = Cardinality(OccupiedSet) /\ 2 * size <= Capacity + 1

\* No key is held twice.
KeysUnique == \A a, b \in Index :
  Held(a) /\ Held(b) /\ slots[a].key = slots[b].key => a = b

\* Every held entry can be reached from its home without meeting a free slot;
\* a running shift may leave its hole on the path of entries beyond the scan.
Reachable == \A a, b \in Index :
  Held(a) /\ Dist(Home[slots[a].key], b) < Dist(Home[slots[a].key], a)
    => \/ Held(b)
       \/ pc = "shift" /\ b = i /\ Dist(i, a) > Dist(i, j)

\* probe has passed only slots taken by other keys.
ProbeClean == pc = "probe" =>
  \A b \in Index : Dist(Home[call.key], b) < Dist(Home[call.key], i)
                     => Occupied(b) /\ slots[b].key # call.key

\* erase's scan has crossed only occupied slots since the hole, and the key
\* being erased is held nowhere else.
ShiftClean == pc = "shift" =>
  /\ \A b \in Index : Dist(i, b) <= Dist(i, j) => Occupied(b)
  /\ \A a \in Index : Held(a) => slots[a].key # call.key

\* An insert that got past the load limit still has room.
InsertHasRoom == (pc = "probe" /\ call.op = "insert") => ~Saturated

TableInv == /\ SizeExact /\ KeysUnique /\ Reachable
            /\ ProbeClean /\ ShiftClean /\ InsertHasRoom

-----------------------------------------------------------------------------
(* Properties. *)

\* The map the table stands for.
Lookup(sl, held, k) ==
  IF \E s \in held : sl[s].key = k
    THEN sl[CHOOSE s \in held : sl[s].key = k].value
    ELSE kNullIdx

HeldSet == {s \in Index : Held(s)}

Contents == [k \in Key |-> Lookup(slots, HeldSet, k)]

\* The call that has yet to take effect: an erase has taken effect when it has
\* found its entry, and only tidies up while it shifts.
Pending == IF pc = "shift" THEN NoCall ELSE call

Abs == INSTANCE RefMap WITH map <- Contents, call <- Pending

\* Every call does to its own key what the abstract map does, in one step, and
\* no other step touches the map: find(k) returns what was inserted last under
\* k, or kNullIdx when k was erased since, whatever else was erased and shifted
\* in between (test_ref_table.cpp:1-3, "must behave identically"); an erase of
\* a present key never misses; inserts are refused at half load and only then.
RefinesMap == Abs!Spec

\* Every call returns: neither probe nor erase's loop can circle for ever.
CallsReturn == (pc # "idle") ~> (pc = "idle")
=============================================================================
