---------------------------- MODULE RingReceiver ----------------------------
(***************************************************************************)
(* The sequence tracking of v2 and v3 behind the rings.  The network of    *)
(* this module keeps the order of the packets and may lose some, so that   *)
(* whatever comes late was made late by the rings.                         *)
(***************************************************************************)
EXTENDS IoUring, ReceiverV3

VARIABLE wire      \* the packets that reached the socket, in order

vars == <<wire, ring_vars, track_vars>>

ASSUME PacketsAssumption == WellFormed

Init == RingInit /\ TrackInit /\ wire = <<>>

Reach(p) == /\ \A i \in DOMAIN wire : wire[i].seq < p.seq
            /\ wire' = Append(wire, p)
            /\ Arrive /\ UNCHANGED track_vars

\* The packet is read out of the buffer when its completion is handled.
Handle == /\ Process
          /\ IF Cqe.packet THEN Receive(wire[bufs[Cqe.idx]]) ELSE UNCHANGED track_vars
          /\ UNCHANGED wire

Other == Kernel \/ Wake \/ Stop \/ Drained \/ Advance \/ Submit

Next == \/ \E p \in Packet : Reach(p)
        \/ Handle
        \/ Other /\ UNCHANGED <<wire, track_vars>>

Spec == Init /\ [][Next]_vars /\ RingFairness

-----------------------------------------------------------------------------

\* "a packet that merely arrived late gets thrown away as a duplicate"
\* (README.md:232) no more: what was read reached the books, unless it came
\* after the first packet and belongs before it.
ReadsDelivered == \A d \in read : Messages(wire[d]) \subseteq delivered \cup 1 .. first - 1

\* Nothing was lost so far.
Unbroken ==
  \A i \in DOMAIN wire : i > 1 => wire[i].seq = wire[i - 1].seq + wire[i - 1].count

\* On a network that loses nothing a missing range is a packet still under way:
\* there are fewer than the receives in flight, none with one in flight.
GapsBounded == Unbroken => Cardinality(DOMAIN pending_gaps) < kQueueDepth
=============================================================================
