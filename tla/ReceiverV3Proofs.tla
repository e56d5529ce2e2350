-------------------------- MODULE ReceiverV3Proofs --------------------------
(***************************************************************************)
(* The sequence tracking of the v2 and v3 receivers is exact for every way *)
(* of cutting the session into packets and every loss, duplication and     *)
(* reordering of them, as long as no gap outgrows its sixteen bits.        *)
(***************************************************************************)
EXTENDS ReceiverV3, TLAPS

\* No packet straddles the boundary before message number x.
Clean(x) == \A p \in Packet : x <= p.seq \/ p.seq + p.count <= x

\* Numbers are natural, and every range has a length its type can hold.
TrackTypeOK ==
  /\ high_seq \in Nat /\ first \in Nat
  /\ DOMAIN pending_gaps \subseteq Nat
  /\ \A g \in DOMAIN pending_gaps : pending_gaps[g] \in 1 .. kU16 - 1

\* Before the first packet nothing is known; from then on first < high_seq.
Started ==
  /\ high_seq = 0 => /\ delivered = {} /\ first = 0
                     /\ DOMAIN pending_gaps = {}
  /\ high_seq # 0 => /\ 1 <= first /\ first < high_seq
                     /\ Clean(first) /\ Clean(high_seq)
  /\ \A m \in delivered : m \in Nat /\ m < high_seq

\* The ranges lie between the first and the highest packet, do not overlap,
\* and begin and end between packets.
RangesSound ==
  /\ \A g \in DOMAIN pending_gaps :
       /\ first <= g /\ End(g) <= high_seq
       /\ Clean(g) /\ Clean(End(g))
  /\ \A g, h \in DOMAIN pending_gaps : g < h => End(g) <= h

TrackInv == TrackTypeOK /\ Started /\ RangesSound /\ PendingExact

-----------------------------------------------------------------------------

\* A gap length that fits its sixteen bits is stored as it is.
LEMMA ModSmall ==
  ASSUME NEW k \in Nat \ {0}, NEW x \in Nat, x < k
  PROVE  x % k = x
BY SMT

\* A packet's numbers are positive, and no other packet straddles its ends.
LEMMA PacketTyped ==
  ASSUME WellFormed, NEW p \in Packet
  PROVE  /\ p.seq \in Nat /\ p.count \in Nat /\ p.seq >= 1 /\ p.count >= 1
         /\ Clean(p.seq) /\ Clean(p.seq + p.count)
<1>1. /\ p.seq \in Nat /\ p.count \in Nat /\ p.seq >= 1 /\ p.count >= 1
    BY DEF WellFormed
<1>2. ASSUME NEW q \in Packet
      PROVE  /\ p.seq <= q.seq \/ q.seq + q.count <= p.seq
             /\ p.seq + p.count <= q.seq \/ q.seq + q.count <= p.seq + p.count
  <2>1. q.seq \in Nat /\ q.count \in Nat
      BY DEF WellFormed
  <2>2. CASE p = q
      BY <1>1, <2>2
  <2>3. CASE p # q
    <3>1. p.seq + p.count <= q.seq \/ q.seq + q.count <= p.seq
        BY <2>3 DEF WellFormed
    <3> QED
        BY <1>1, <2>1, <3>1
  <2> QED
      BY <2>2, <2>3
<1> QED
    BY <1>1, <1>2 DEF Clean

\* What Missing contains.
LEMMA MissingMeaning ==
  TrackTypeOK => \A m : m \in Missing <=>
              m \in Nat /\ \E g \in DOMAIN pending_gaps : g <= m /\ m < End(g)
<1> SUFFICES ASSUME TrackTypeOK
             PROVE  \A m : m \in Missing <=>
               m \in Nat /\ \E g \in DOMAIN pending_gaps : g <= m /\ m < End(g)
    OBVIOUS
<1>1. \A g \in DOMAIN pending_gaps : g \in Nat /\ End(g) \in Nat
    BY DEF TrackTypeOK, End
<1>2. \A m : m \in Missing <=>
               \E g \in DOMAIN pending_gaps : m \in g .. End(g) - 1
    BY DEF Missing
<1> QED
    BY <1>1, <1>2

\* The steps compare with a known number, and from the first packet on it is
\* between packets and beyond everything delivered or missing.
LEMMA HighMeaning ==
  ASSUME WellFormed, TrackInv, NEW p \in Packet
  PROVE  /\ High(p) \in Nat /\ First(p) \in Nat /\ 1 <= First(p)
         /\ First(p) <= High(p)
         /\ Clean(High(p)) /\ Clean(First(p))
         /\ \A g \in DOMAIN pending_gaps : First(p) <= g /\ End(g) <= High(p)
         /\ Missing = (First(p) .. High(p) - 1) \ delivered
         /\ \A m \in delivered : m < High(p)
<1> USE PacketTyped
<1>2. CASE high_seq = 0
  <2>1. High(p) = p.seq /\ First(p) = p.seq
      BY <1>2 DEF High, First
  <2>2. DOMAIN pending_gaps = {} /\ delivered = {}
      BY <1>2 DEF TrackInv, Started
  <2>3. Missing = {}
      BY <2>2 DEF Missing
  <2> QED
      BY <2>1, <2>2, <2>3 DEF WellFormed
<1>3. CASE high_seq # 0
    BY <1>3
    DEF High, First, TrackInv, TrackTypeOK, Started, RangesSound, PendingExact
<1> QED
    BY <1>2, <1>3

\* The invariant holds at the start.
LEMMA InvInit == TrackInit => TrackInv
<1> SUFFICES ASSUME TrackInit PROVE TrackInv
    OBVIOUS
<1>1. DOMAIN pending_gaps = {} /\ high_seq = 0 /\ first = 0 /\ delivered = {}
    BY DEF TrackInit
<1>2. Missing = {}
    BY <1>1 DEF Missing
<1> QED
    BY <1>1, <1>2 DEF TrackInv, TrackTypeOK, Started, RangesSound, PendingExact

\* What a packet's acceptance adds.
LEMMA MessagesMeaning ==
  ASSUME WellFormed, NEW p \in Packet
  PROVE  \A m : m \in Messages(p) <=> m \in Nat /\ p.seq <= m /\ m < p.seq + p.count
BY PacketTyped DEF Messages

\* The next packet in order moves the highest number only.
LEMMA InOrderInv ==
  ASSUME WellFormed, TrackInv, NEW p \in Packet, InOrder(p)
  PROVE  TrackInv'
<1> DEFINE hi == High(p)
           lo == First(p)
<1>1. /\ high_seq' = hi + p.count /\ first' = lo /\ p.seq = hi
      /\ delivered' = delivered \cup Messages(p)
      /\ pending_gaps' = pending_gaps
    BY DEF InOrder, Accept
<1>2. TrackTypeOK'
    BY <1>1, HighMeaning, PacketTyped DEF TrackInv, TrackTypeOK
<1>3. Started'
  <2>1. 1 <= first' /\ first' < high_seq' /\ high_seq' # 0
      BY <1>1, HighMeaning, PacketTyped
  <2>2. Clean(lo) /\ Clean(hi + p.count)
      BY <1>1, HighMeaning, PacketTyped
  <2>3. \A m \in delivered' : m \in Nat /\ m < high_seq'
      BY <1>1, HighMeaning, PacketTyped, MessagesMeaning DEF TrackInv, Started
  <2> QED
      BY <1>1, <2>1, <2>2, <2>3 DEF Started, Clean
<1>4. RangesSound'
  <2>1. \A g \in DOMAIN pending_gaps : End(g)' = End(g) /\ End(g) \in Nat
      BY <1>1 DEF End, TrackInv, TrackTypeOK
  <2>2. \A g \in DOMAIN pending_gaps : lo <= g /\ End(g) <= hi + p.count
      BY <2>1, HighMeaning, PacketTyped
  <2> QED
      BY <1>1, <2>1, <2>2 DEF TrackInv, RangesSound, Clean
<1>5. PendingExact'
  <2>1. Missing' = Missing
      BY <1>1 DEF Missing, End
  <2>2. Missing = (lo .. hi - 1) \ delivered
      BY HighMeaning
  <2>3. (lo .. hi - 1) \ delivered
          = (lo .. (hi + p.count) - 1) \ (delivered \cup Messages(p))
      BY <1>1, HighMeaning, PacketTyped, MessagesMeaning
  <2> QED
      BY <1>1, <2>1, <2>2, <2>3 DEF PendingExact
<1> QED
    BY <1>2, <1>3, <1>4, <1>5 DEF TrackInv

\* A packet beyond the highest number adds the range between them.
LEMMA GapInv ==
  ASSUME WellFormed, NarrowGap, TrackInv, NEW p \in Packet, Gap(p)
  PROVE  TrackInv'
<1> DEFINE hi == High(p)
           lo == First(p)
           D == DOMAIN pending_gaps
<1>0. /\ hi \in Nat /\ lo \in Nat /\ p.seq \in Nat /\ p.count \in Nat
      /\ hi < p.seq /\ 1 <= lo /\ lo <= hi /\ p.count >= 1
      /\ p.seq - hi < kU16
    BY HighMeaning, PacketTyped DEF Gap, NarrowGap
<1>00. PICK h \in Nat : h = hi
    BY <1>0
<1>1. /\ high_seq' = p.seq + p.count /\ first' = lo
      /\ delivered' = delivered \cup Messages(p)
      /\ DOMAIN pending_gaps' = D \cup {h}
      /\ \A g \in D \cup {h} : pending_gaps'[g] =
           IF g = h THEN (p.seq - h) % kU16 ELSE pending_gaps[g]
    BY <1>00 DEF Gap, Accept
<1>2. (p.seq - h) % kU16 = p.seq - h
    BY <1>0, <1>00, ModSmall DEF WellFormed
<1>3. \A g \in D : g \in Nat /\ End(g) \in Nat /\ g < End(g) /\ End(g) <= h
                   /\ g # h /\ lo <= g
    BY <1>00, HighMeaning DEF End, TrackInv, TrackTypeOK
<1>4. /\ End(h)' = p.seq
      /\ \A g \in D : End(g)' = End(g)
    BY <1>0, <1>00, <1>1, <1>2, <1>3 DEF End
<1>5. TrackTypeOK'
  <2>1. p.seq - h \in 1 .. kU16 - 1
      BY <1>0, <1>00 DEF WellFormed
  <2> QED
      BY <1>0, <1>1, <1>2, <1>3, <2>1 DEF TrackInv, TrackTypeOK
<1>6. Started'
  <2>1. Clean(lo) /\ Clean(p.seq + p.count)
      BY HighMeaning, PacketTyped
  <2>2. \A m \in delivered' : m \in Nat /\ m < high_seq'
      BY <1>0, <1>1, HighMeaning, MessagesMeaning DEF TrackInv, Started
  <2> QED
      BY <1>0, <1>1, <2>1, <2>2 DEF Started, Clean
<1>7. RangesSound'
  <2>1. \A g \in D : Clean(g) /\ Clean(End(g))
      BY DEF TrackInv, RangesSound
  <2>2. Clean(h) /\ Clean(p.seq)
      BY <1>00, HighMeaning, PacketTyped
  <2>3. \A g \in D \cup {h} : /\ first' <= g /\ End(g)' <= high_seq'
                              /\ Clean(g) /\ Clean(End(g)')
      BY <1>0, <1>00, <1>1, <1>3, <1>4, <2>1, <2>2
  <2>4. \A g, k \in D \cup {h} : g < k => End(g)' <= k
      BY <1>0, <1>1, <1>3, <1>4 DEF TrackInv, RangesSound
  <2> QED
      BY <1>1, <2>3, <2>4 DEF RangesSound, Clean
<1>8. PendingExact'
  <2>1. \A m : m \in Missing' <=>
          m \in Nat /\ \E g \in D \cup {h} : g <= m /\ m < End(g)'
    <3>1. (\A m : m \in Missing <=>
             m \in Nat /\ \E g \in DOMAIN pending_gaps : g <= m /\ m < End(g))'
        BY <1>5, MissingMeaning, PTL
    <3> QED
        BY <1>1, <3>1
  <2>2. \A m : m \in Missing' <=> m \in Missing \/ (m \in Nat /\ h <= m /\ m < p.seq)
      BY <1>4, <2>1, MissingMeaning DEF TrackInv
  <2>3. Missing = (lo .. hi - 1) \ delivered /\ \A m \in delivered : m < hi
      BY HighMeaning
  <2>4. \A m : m \in Missing' <=>
               m \in (lo .. (p.seq + p.count) - 1) \ (delivered \cup Messages(p))
      BY <1>0, <1>00, <2>2, <2>3, MessagesMeaning
  <2> QED
      BY <1>1, <2>4 DEF PendingExact
<1> QED
    BY <1>5, <1>6, <1>7, <1>8 DEF TrackInv

\* The range that holds a recovered packet loses it, and nothing else changes.
LEMMA RecoveredInv ==
  ASSUME WellFormed, TrackInv, NEW p \in Packet, Recovered(p)
  PROVE  TrackInv'
<1> DEFINE D == DOMAIN pending_gaps
           lo == First(p)
           hi == High(p)
           end == p.seq + p.count
<1>0. PICK c \in Holder(p) : pending_gaps' = Without(c, p)
    BY DEF Recovered
<1>1. /\ c \in D /\ c <= p.seq /\ end <= End(c)
      /\ \A g \in D : g <= p.seq => g <= c
    BY DEF Holder
<1>2. /\ hi \in Nat /\ lo \in Nat /\ p.seq \in Nat /\ p.count \in Nat
      /\ p.seq < hi /\ 1 <= lo /\ p.count >= 1 /\ p.seq < end /\ end \in Nat
    BY HighMeaning, PacketTyped DEF Recovered
<1>3. high_seq # 0 /\ hi = high_seq /\ lo = first
    BY <1>2 DEF High, First
<1>4. /\ \A g \in D : /\ g \in Nat /\ End(g) \in Nat /\ g < End(g)
                      /\ lo <= g /\ End(g) <= hi /\ End(g) - g < kU16
                      /\ Clean(g) /\ Clean(End(g))
      /\ \A g, h \in D : g < h => End(g) <= h
    BY <1>3, HighMeaning DEF End, TrackInv, TrackTypeOK, RangesSound, WellFormed
<1>5. PICK e \in Nat : e = End(c)
    BY <1>1, <1>4
<1> DEFINE head == IF p.seq > c THEN {c} ELSE {}
           tail == IF end < e THEN {end} ELSE {}
           N == (D \ {c}) \cup head \cup tail
<1>6. /\ DOMAIN pending_gaps' = N
      /\ \A g \in N : pending_gaps'[g] =
           IF g \in head THEN (p.seq - c) % kU16
           ELSE IF g \in tail THEN (e - end) % kU16
           ELSE pending_gaps[g]
    BY <1>0, <1>5 DEF Without
<1>7. /\ c < p.seq => (p.seq - c) % kU16 = p.seq - c
      /\ end < e => (e - end) % kU16 = e - end
  <2>1. ASSUME c < p.seq PROVE (p.seq - c) % kU16 = p.seq - c
    <3>1. p.seq - c \in Nat /\ p.seq - c < kU16
        BY <1>1, <1>2, <1>4, <2>1 DEF WellFormed
    <3> QED
        BY <3>1, ModSmall DEF WellFormed
  <2>2. ASSUME end < e PROVE (e - end) % kU16 = e - end
    <3>1. e - end \in Nat /\ e - end < kU16
        BY <1>1, <1>2, <1>4, <1>5, <2>2 DEF WellFormed
    <3> QED
        BY <3>1, ModSmall DEF WellFormed
  <2> QED
      BY <2>1, <2>2
\* The ranges other than c lie before c or after its end.
<1>8. \A g \in D : g # c => End(g) <= c \/ e <= g
    BY <1>1, <1>4, <1>5
<1>9. \A g \in N : \/ g \in D /\ g # c /\ End(g)' = End(g)
                   \/ g = c /\ c < p.seq /\ End(g)' = p.seq
                   \/ g = end /\ end < e /\ End(g)' = e
  <2> SUFFICES ASSUME NEW g \in N
               PROVE  \/ g \in D /\ g # c /\ End(g)' = End(g)
                      \/ g = c /\ c < p.seq /\ End(g)' = p.seq
                      \/ g = end /\ end < e /\ End(g)' = e
      OBVIOUS
  <2>0. End(g)' = g + pending_gaps'[g]
      BY DEF End
  <2>1. CASE g \in head
      BY <1>1, <1>2, <1>4, <1>6, <1>7, <2>0, <2>1
  <2>2. CASE g \notin head /\ g \in tail
      BY <1>2, <1>6, <1>7, <2>0, <2>2
  <2>3. CASE g \notin head /\ g \notin tail
      BY <1>6, <2>0, <2>3 DEF End
  <2> QED
      BY <2>1, <2>2, <2>3
<1>10. \A g \in D : g # c => g \in N
    OBVIOUS
<1>11. (c < p.seq => c \in N) /\ (end < e => end \in N)
    OBVIOUS
<1>12. /\ high_seq' = high_seq /\ first' = first
       /\ delivered' = delivered \cup Messages(p)
    BY <1>3 DEF Recovered, Accept
<1>13. TrackTypeOK'
  <2>1. \A g \in N : g \in Nat /\ g < End(g)'
      BY <1>1, <1>2, <1>4, <1>9
  <2>2. \A g \in N : pending_gaps'[g] \in 1 .. kU16 - 1
    <3>1. \A g \in N : \/ pending_gaps'[g] = p.seq - c /\ c < p.seq
                       \/ pending_gaps'[g] = e - end /\ end < e
                       \/ pending_gaps'[g] = pending_gaps[g] /\ g \in D
        BY <1>6, <1>7
    <3> QED
        BY <1>1, <1>2, <1>4, <1>5, <3>1 DEF TrackInv, TrackTypeOK, WellFormed
  <2> QED
      BY <1>6, <1>12, <2>1, <2>2 DEF TrackInv, TrackTypeOK
<1>14. Started'
  <2>1. \A m \in delivered' : m \in Nat /\ m < high_seq'
    <3>1. end <= hi
        BY <1>1, <1>2, <1>4, <1>5
    <3> QED
        BY <1>2, <1>3, <1>12, <3>1, MessagesMeaning DEF TrackInv, Started
  <2> QED
      BY <1>3, <1>12, <2>1 DEF TrackInv, Started, Clean
<1>15. RangesSound'
  <2>1. Clean(p.seq) /\ Clean(end)
      BY PacketTyped
  <2>2. \A g \in N : /\ first' <= g /\ End(g)' <= high_seq'
                     /\ Clean(g) /\ Clean(End(g)')
      BY <1>1, <1>2, <1>3, <1>4, <1>5, <1>9, <1>12, <2>1
  <2>3. \A g, h \in N : g < h => End(g)' <= h
      BY <1>1, <1>2, <1>4, <1>5, <1>8, <1>9
  <2> QED
      BY <1>6, <2>2, <2>3 DEF RangesSound, Clean
<1>16. PendingExact'
  <2>1. \A m : m \in Missing' <=>
          m \in Nat /\ \E g \in N : g <= m /\ m < End(g)'
    <3>1. (\A m : m \in Missing <=>
             m \in Nat /\ \E g \in DOMAIN pending_gaps : g <= m /\ m < End(g))'
        BY <1>13, MissingMeaning, PTL
    <3> QED
        BY <1>6, <3>1
  <2>2. \A m : m \in Missing' => m \in Missing /\ m \notin Messages(p)
    <3> SUFFICES ASSUME NEW m \in Nat, NEW g \in N, g <= m, m < End(g)'
                 PROVE  m \in Missing /\ m \notin Messages(p)
        BY <2>1
    <3>1. m \in Missing
        BY <1>1, <1>2, <1>4, <1>5, <1>9, MissingMeaning DEF TrackInv
    <3>2. ~(p.seq <= m /\ m < end)
        BY <1>1, <1>2, <1>4, <1>5, <1>8, <1>9
    <3> QED
        BY <3>1, <3>2, MessagesMeaning
  <2>3. \A m : m \in Missing /\ m \notin Messages(p) => m \in Missing'
    <3> SUFFICES ASSUME NEW m \in Nat, NEW g \in D, g <= m, m < End(g),
                        m \notin Messages(p)
                 PROVE  m \in Missing'
        BY MissingMeaning DEF TrackInv
    <3>1. m < p.seq \/ end <= m
        BY <1>2, MessagesMeaning
    <3>2. CASE g # c
        BY <1>8, <1>9, <1>10, <2>1, <3>2, <1>1, <1>2, <1>4, <1>5
    <3>3. CASE g = c /\ m < p.seq
      <4>1. c \in N /\ End(c)' = p.seq
          BY <1>1, <1>2, <1>4, <1>5, <1>8, <1>9, <1>11, <3>3
      <4> QED
          BY <2>1, <3>3, <4>1
    <3>4. CASE g = c /\ end <= m
      <4>1. end \in N /\ end < e
          BY <1>2, <1>4, <1>5, <1>11, <3>4
      <4>2. End(end)' = e
          BY <1>1, <1>2, <1>4, <1>5, <1>8, <1>9, <4>1
      <4> QED
          BY <1>5, <2>1, <3>4, <4>1, <4>2
    <3> QED
        BY <3>1, <3>2, <3>3, <3>4
  <2>4. Missing = (first .. high_seq - 1) \ delivered
      BY DEF TrackInv, PendingExact
  <2>5. \A m : m \in Missing' <=>
               m \in (first .. high_seq - 1) \ (delivered \cup Messages(p))
      BY <2>2, <2>3, <2>4
  <2> QED
      BY <1>12, <2>5 DEF PendingExact
<1> QED
    BY <1>13, <1>14, <1>15, <1>16 DEF TrackInv

\* A duplicate changes nothing the invariant speaks of.
LEMMA DuplicateInv ==
  ASSUME TrackInv, NEW p \in Packet, Duplicate(p)
  PROVE  TrackInv'
BY DEF Duplicate, TrackInv, TrackTypeOK, Started, RangesSound, PendingExact, Missing, End,
   Clean

\* What a packet brings that is beyond all that was seen is new to v3.
LEMMA NewAhead ==
  ASSUME WellFormed, TrackInv, NEW p \in Packet, p.seq >= High(p)
  PROVE  delivered \cap Messages(p) = {}
<1>1. \A m \in delivered : m \in Nat /\ m < High(p)
    BY HighMeaning DEF TrackInv, Started
<1>2. High(p) \in Nat /\ p.seq \in Nat
    BY HighMeaning, PacketTyped
<1> QED BY <1>1, <1>2, MessagesMeaning

\* So is what fills a missing range.
LEMMA NewBehind ==
  ASSUME WellFormed, TrackInv, NEW p \in Packet, NEW g \in Holder(p)
  PROVE  delivered \cap Messages(p) = {}
<1>1. g \in DOMAIN pending_gaps /\ g <= p.seq /\ p.seq + p.count <= End(g)
    BY DEF Holder
<1>2. g \in Nat /\ p.seq \in Nat /\ p.count \in Nat /\ End(g) \in Nat
    BY <1>1, PacketTyped DEF TrackInv, TrackTypeOK, End
<1>3. \A m \in Messages(p) : m \in Missing
    BY <1>1, <1>2, MessagesMeaning, MissingMeaning DEF TrackInv
<1> QED BY <1>3 DEF TrackInv, PendingExact

\* Every step keeps the invariant, provided the gaps it shows are narrow.
LEMMA InvNext == WellFormed /\ TrackInv /\ [TrackNext /\ NarrowGap]_track_vars => TrackInv'
<1> SUFFICES ASSUME WellFormed, TrackInv, [TrackNext /\ NarrowGap]_track_vars PROVE TrackInv'
    OBVIOUS
<1>1. ASSUME NEW p \in Packet, Receive(p), NarrowGap PROVE TrackInv'
    BY <1>1, InOrderInv, GapInv, RecoveredInv, DuplicateInv DEF Receive
<1>2. CASE UNCHANGED track_vars
    BY <1>2 DEF track_vars, TrackInv, TrackTypeOK, Started, RangesSound, PendingExact, Missing,
       End, Clean
<1> QED
    BY <1>1, <1>2 DEF TrackNext

\* Whatever the network loses, repeats or reorders, as long as it never loses
\* 2^16 messages in a row, the pending ranges are exactly the messages that
\* have not been delivered yet.
THEOREM TrackingExact ==
  ASSUME WellFormed
  PROVE  Tracking /\ [][NarrowGap]_track_vars => []PendingExact
<1>1. TrackInit => TrackInv
    BY InvInit
<1>2. TrackInv /\ [TrackNext]_track_vars /\ [NarrowGap]_track_vars => TrackInv'
    BY InvNext
<1>3. TrackInv => PendingExact
    BY DEF TrackInv
<1> QED
    BY <1>1, <1>2, <1>3, PTL DEF Tracking

\* A packet that is called a duplicate lies in no pending range, and, since
\* ranges and packets do not straddle each other, touches none.
LEMMA DuplicateSeen ==
  ASSUME WellFormed, TrackInv, NEW p \in Packet, Duplicate(p)
  PROVE  Messages(p) \subseteq delivered \cup 1 .. first - 1
<1> SUFFICES ASSUME NEW m \in Nat, p.seq <= m, m < p.seq + p.count,
                    m \notin delivered, ~(m < first)
             PROVE  FALSE
    BY MessagesMeaning, PacketTyped DEF TrackInv, TrackTypeOK
<1>1. /\ p.seq \in Nat /\ p.count \in Nat /\ p.count >= 1 /\ p.seq >= 1
      /\ high_seq # 0 /\ p.seq < high_seq
    BY PacketTyped DEF Duplicate, High
<1>2. p.seq + p.count <= high_seq
    BY <1>1 DEF TrackInv, TrackTypeOK, Started, Clean
<1>3. m \in Missing
    BY <1>1, <1>2 DEF TrackInv, TrackTypeOK, PendingExact
<1>4. PICK g \in DOMAIN pending_gaps : g <= m /\ m < End(g)
    BY <1>3, MissingMeaning DEF TrackInv
<1>5. g <= p.seq /\ p.seq + p.count <= End(g)
    BY <1>1, <1>4 DEF TrackInv, TrackTypeOK, RangesSound, Clean, End
<1>6. \A h \in DOMAIN pending_gaps : h <= p.seq => h <= g
    BY <1>1, <1>4, <1>5 DEF TrackInv, TrackTypeOK, RangesSound, End
<1> QED
    BY <1>4, <1>5, <1>6 DEF Duplicate, Holder

\* Under the same assumption no packet with news is ever thrown away as a
\* duplicate, unless it precedes the first one received.
THEOREM NewsNeverRejected ==
  ASSUME WellFormed
  PROVE  Tracking /\ [][NarrowGap]_track_vars => RejectsOnlySeen
<1>1. TrackInit => TrackInv
    BY InvInit
<1>2. TrackInv /\ [TrackNext]_track_vars /\ [NarrowGap]_track_vars => TrackInv'
    BY InvNext
<1>3. TrackInv => (\A p \in Packet :
        Duplicate(p) => Messages(p) \subseteq delivered \cup 1 .. first - 1)
    BY DuplicateSeen
<1> QED
    BY <1>1, <1>2, <1>3, PTL DEF Tracking, RejectsOnlySeen
=============================================================================
