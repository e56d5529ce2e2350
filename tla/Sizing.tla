------------------------------- MODULE Sizing -------------------------------
(***************************************************************************)
(* The first pass of src/common/analyze_data.cpp, which counts live orders *)
(* in a day's file to size the pool of the v3 books, next to the books     *)
(* that are then built from the same messages.  The tool does not follow   *)
(* executions and cancels, and never asks whether an order is known.       *)
(***************************************************************************)
EXTENDS BookEquivalence

VARIABLES live_orders,   \* references the tool takes for live
          max_live       \* the peak it reports

tool_vars == <<live_orders, max_live>>

SizingInit == Init /\ live_orders = {} /\ max_live = 0

CountAdd(r) == /\ live_orders' = live_orders \cup {r}
               /\ max_live' = Max({max_live, Cardinality(live_orders')})

CountDelete(r) == live_orders' = live_orders \ {r} /\ UNCHANGED max_live

\* A replacement leaves like a delete; its new reference is not entered.
BugReplaceNotEntered(r, new) == live_orders' = live_orders \ {r} /\ UNCHANGED max_live

\* The peak is not looked at here, although the set grows when r is not in it.
CountReplace(r, new) == /\ live_orders' = (live_orders \ {r}) \cup {new}
                        /\ UNCHANGED max_live

SizingNext == \E r \in Ref :
  \/ (\E q \in Quotes : Add(r, q)) /\ CountAdd(r)
  \/ (Execute(r) \/ Cancel(r)) /\ UNCHANGED tool_vars
  \/ Delete(r) /\ CountDelete(r)
  \/ \E new \in Ref : (\E q \in Quotes : Replace(r, new, q)) /\ CountReplace(r, new)

SizingSpec == SizingInit /\ [][SizingNext]_<<vars, tool_vars>>

-----------------------------------------------------------------------------

\* "profiles the real ITCH sample to size the v3 ... object pool"
\* (analyze_data.cpp:1-2): with a pool as large as the peak the tool reports,
\* v3 loses no order, although the tool's set of live orders drifts from the
\* real one with every order that is executed away or replaced when gone.
PoolSuffices == max_live <= PoolCapacity => \A r \in Ref : V1!Live(r) => V3!Known(r)
=============================================================================
