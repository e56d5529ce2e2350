----------------------------- MODULE ReceiverV3 -----------------------------
(***************************************************************************)
(* Sequence tracking of the v2 and v3 receivers (src/v2/receiver.cpp,      *)
(* src/v3/receiver.cpp, line for line the same): the missing ranges are    *)
(* remembered, so that a packet that fills one is still accepted.          *)
(* A packet is [seq, count]: its first message number and how many.        *)
(***************************************************************************)
EXTENDS Integers

CONSTANTS Packet,      \* the datagrams the sender cuts the session into
          kU16         \* 2^16 in the code: gap lengths are kept in a uint16_t

\* The sender puts every message into one packet and numbers it once.
WellFormed ==
  /\ Packet \subseteq [seq : Nat \ {0}, count : Nat \ {0}]
  /\ \A p, q \in Packet : p # q =>
       p.seq + p.count <= q.seq \/ q.seq + q.count <= p.seq
  /\ kU16 \in Nat \ {0}

VARIABLES high_seq,       \* one past the highest number seen; 0 at first
          pending_gaps,   \* start of a missing range -> its length
          gaps, dups, recovered, messages,
          first,          \* auxiliary: the number of the first packet received
          delivered       \* auxiliary: the messages handed to the books

track_vars == <<high_seq, pending_gaps, gaps, dups, recovered, messages, first, delivered>>

Messages(p) == p.seq .. p.seq + p.count - 1

TrackInit == /\ high_seq = 0
             /\ pending_gaps = [g \in {} |-> 0]
             /\ gaps = 0 /\ dups = 0 /\ recovered = 0 /\ messages = 0
             /\ first = 0 /\ delivered = {}

-----------------------------------------------------------------------------

\* What the packet's number is compared with; the first packet sets it.
High(p) == IF high_seq = 0 THEN p.seq ELSE high_seq

First(p) == IF high_seq = 0 THEN p.seq ELSE first

\* The packet's messages go to the books.
Accept(p) == /\ messages' = messages + p.count
             /\ delivered' = delivered \cup Messages(p)
             /\ first' = First(p)

InOrder(p) == /\ p.seq = High(p)
              /\ high_seq' = High(p) + p.count
              /\ Accept(p)
              /\ UNCHANGED <<pending_gaps, gaps, dups, recovered>>

\* high_seq moves by the packet's length only, not past the gap.
BugGapForgetsJump(p) ==
  /\ p.seq > High(p)
  /\ gaps' = gaps + 1
  /\ pending_gaps' = [g \in DOMAIN pending_gaps \cup {High(p)} |->
       IF g = High(p) THEN (p.seq - High(p)) % kU16 ELSE pending_gaps[g]]
  /\ high_seq' = High(p) + p.count
  /\ Accept(p)
  /\ UNCHANGED <<dups, recovered>>

Gap(p) ==
  /\ p.seq > High(p)
  /\ gaps' = gaps + 1
  /\ pending_gaps' = [g \in DOMAIN pending_gaps \cup {High(p)} |->
       IF g = High(p) THEN (p.seq - High(p)) % kU16 ELSE pending_gaps[g]]
  /\ high_seq' = p.seq + p.count
  /\ Accept(p)
  /\ UNCHANGED <<dups, recovered>>

End(g) == g + pending_gaps[g]

\* lower_bound for upper_bound: the range that starts with the packet is passed over.
BugHolderStrict(p) ==
  {g \in DOMAIN pending_gaps :
     /\ g < p.seq
     /\ \A h \in DOMAIN pending_gaps : h < p.seq => h <= g
     /\ p.seq + p.count <= End(g)}

\* upper_bound and one step back: the last missing range that starts at or
\* before the packet, if the packet lies inside it.
Holder(p) ==
  {g \in DOMAIN pending_gaps :
     /\ g <= p.seq
     /\ \A h \in DOMAIN pending_gaps : h <= p.seq => h <= g
     /\ p.seq + p.count <= End(g)}

\* A tail of length zero is kept: < has become <=.
BugWithoutKeepsEmptyTail(g, p) ==
  LET tail_start == p.seq + p.count
      head == IF p.seq > g THEN {g} ELSE {}
  IN  [x \in (DOMAIN pending_gaps \ {g}) \cup head \cup {tail_start} |->
         IF x \in head THEN (p.seq - g) % kU16
         ELSE IF x = tail_start THEN (End(g) - tail_start) % kU16
         ELSE pending_gaps[x]]

\* The range is left as it was, so that a second copy is recovered again.
BugWithoutForgets(g, p) == pending_gaps

\* A packet from the middle of a range loses what comes after it.
BugWithoutDropsTail(g, p) ==
  LET head == IF p.seq > g THEN {g} ELSE {}
  IN  [x \in (DOMAIN pending_gaps \ {g}) \cup head |->
         IF x = g THEN (p.seq - g) % kU16 ELSE pending_gaps[x]]

\* What is left of range g without the packet: nothing, a head, a tail or both.
Without(g, p) ==
  LET tail_start == p.seq + p.count
      head == IF p.seq > g THEN {g} ELSE {}
      tail == IF tail_start < End(g) THEN {tail_start} ELSE {}
  IN  [x \in (DOMAIN pending_gaps \ {g}) \cup head \cup tail |->
         IF x \in head THEN (p.seq - g) % kU16
         ELSE IF x \in tail THEN (End(g) - tail_start) % kU16
         ELSE pending_gaps[x]]

Recovered(p) ==
  /\ p.seq < High(p)
  /\ \E g \in Holder(p) : pending_gaps' = Without(g, p)
  /\ recovered' = recovered + p.count
  /\ Accept(p)
  /\ UNCHANGED <<high_seq, gaps, dups>>

Duplicate(p) ==
  /\ p.seq < High(p) /\ Holder(p) = {}
  /\ dups' = dups + 1
  /\ UNCHANGED <<high_seq, pending_gaps, gaps, recovered, messages, first, delivered>>

Receive(p) == InOrder(p) \/ Gap(p) \/ Recovered(p) \/ Duplicate(p)

\* A step that shows a gap shows one whose length fits its type.
NarrowGap == \A p \in Packet : Gap(p) => p.seq - High(p) < kU16

\* Any packet may come at any time, again and again, or never.
TrackNext == \E p \in Packet : Receive(p)

Tracking == TrackInit /\ [][TrackNext]_track_vars

-----------------------------------------------------------------------------

Missing == UNION {g .. End(g) - 1 : g \in DOMAIN pending_gaps}

\* "Sequence tracking remembers which ranges are missing" (README.md:230):
\* the pending ranges are exactly the messages between the first and the
\* highest packet that have not been delivered.
PendingExact == Missing = (first .. high_seq - 1) \ delivered

\* A packet is called a duplicate only if all of it was delivered before, or
\* if it precedes the first packet ever received.
RejectsOnlySeen ==
  [][\A p \in Packet :
       Duplicate(p) => Messages(p) \subseteq delivered \cup 1 .. first - 1]_track_vars
=============================================================================
