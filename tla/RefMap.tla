------------------------------- MODULE RefMap -------------------------------
(***************************************************************************)
(* What v3::RefTable promises its callers: a map from order references to  *)
(* pool slots that behaves like std::unordered_map (the claim of           *)
(* tests/v3/test_ref_table.cpp) except that it admits no further entry     *)
(* once it is half full.  No probing, no hashing: RefTable.tla refines it, *)
(* and OrderBookV3.tla is built on its operators.                          *)
(***************************************************************************)
EXTENDS Integers, FiniteSets

CONSTANTS Key,        \* order references
          Value,      \* pool indices
          kNullIdx,   \* what find returns for an unknown key
          Capacity    \* slots_.size()

VARIABLES map,        \* the value of each key, kNullIdx when it has none
          call,       \* the call that has yet to take effect, with its arguments
          ret         \* the result of the last call, kNullIdx for a void one

vars == <<map, call, ret>>

Calls == [op : {"insert"}, key : Key, value : Value]
           \cup [op : {"find", "erase"}, key : Key]

NoCall == [op |-> "none"]

-----------------------------------------------------------------------------
(* The operations, as functions of a map. *)

Empty == [k \in Key |-> kNullIdx]

Live(m) == {k \in Key : m[k] # kNullIdx}

\* insert returns at once, and says nothing, when size_ * 2 >= slots_.size().
Saturated(m) == 2 * Cardinality(Live(m)) >= Capacity

Put(m, k, v) == IF Saturated(m) THEN m ELSE [m EXCEPT ![k] = v]

Drop(m, k) == [m EXCEPT ![k] = kNullIdx]

-----------------------------------------------------------------------------

Init == map = Empty /\ call = NoCall /\ ret = kNullIdx

\* A call arrives with its arguments; only a refused insert never gets here.
Begin(c) ==
  /\ call = NoCall
  /\ c.op = "insert" => ~Saturated(map)
  /\ call' = c
  /\ UNCHANGED <<map, ret>>

\* An insert into a map that is half full, whatever its arguments.
Refuse ==
  /\ call = NoCall /\ Saturated(map)
  /\ ret' = kNullIdx
  /\ UNCHANGED <<map, call>>

\* The call takes effect, on the key it was given.
Insert ==
  /\ call.op = "insert" /\ call' = NoCall
  /\ map' = Put(map, call.key, call.value)
  /\ ret' = kNullIdx

Find ==
  /\ call.op = "find" /\ call' = NoCall
  /\ ret' = map[call.key]
  /\ UNCHANGED map

Erase ==
  /\ call.op = "erase" /\ call' = NoCall
  /\ map' = Drop(map, call.key)
  /\ ret' = kNullIdx

Next == \/ \E c \in Calls : Begin(c)
        \/ Refuse
        \/ Insert
        \/ Find
        \/ Erase

Spec == Init /\ [][Next]_vars
=============================================================================
