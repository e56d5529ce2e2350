----------------------------- MODULE ReceiverV1 -----------------------------
(***************************************************************************)
(* Sequence tracking of the v1 receiver (src/v1/receiver.cpp): only the    *)
(* next expected number is kept, so whatever comes late is a duplicate.    *)
(* A packet is [seq, count]: its first message number and how many.        *)
(***************************************************************************)
EXTENDS Integers

VARIABLES expected_seq,   \* 0 until the first packet
          gaps, lost, dups,
          delivered       \* auxiliary: the messages handed to the books

vars == <<expected_seq, gaps, lost, dups, delivered>>

Messages(p) == p.seq .. p.seq + p.count - 1

Init == /\ expected_seq = 0
        /\ gaps = 0 /\ lost = 0 /\ dups = 0
        /\ delivered = {}

\* What the packet's number is compared with; the first packet sets it.
Expected(p) == IF expected_seq = 0 THEN p.seq ELSE expected_seq

Accept(p) == /\ expected_seq' = p.seq + p.count
             /\ delivered' = delivered \cup Messages(p)

InOrder(p) == /\ p.seq = Expected(p)
              /\ Accept(p)
              /\ UNCHANGED <<gaps, lost, dups>>

\* The packet that shows the gap is counted as lost with it.
BugGapRecounted(p) ==
  /\ p.seq > Expected(p)
  /\ gaps' = gaps + 1
  /\ lost' = lost + p.seq + p.count - Expected(p)
  /\ Accept(p)
  /\ UNCHANGED dups

Gap(p) == /\ p.seq > Expected(p)
          /\ gaps' = gaps + 1
          /\ lost' = lost + p.seq - Expected(p)
          /\ Accept(p)
          /\ UNCHANGED dups

\* `continue`: the packet's messages never reach the books.
Late(p) == /\ p.seq < Expected(p)
           /\ dups' = dups + 1
           /\ expected_seq' = Expected(p)
           /\ UNCHANGED <<gaps, lost, delivered>>

Receive(p) == InOrder(p) \/ Gap(p) \/ Late(p)
=============================================================================
