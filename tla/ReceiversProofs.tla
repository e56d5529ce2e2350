-------------------------- MODULE ReceiversProofs ---------------------------
(***************************************************************************)
(* The receivers of Receivers.tla track sequence numbers as ReceiverV3.tla *)
(* says, so what ReceiverV3Proofs.tla proves holds of them.                *)
(***************************************************************************)
EXTENDS Receivers, ReceiverV3Proofs, SumLemmas

\* Arrivals are steps of the tracking, the end of the session leaves it alone.
THEOREM ReceiversTrack == Spec => Tracking
<1>1. Init => TrackInit
    BY DEF Init
<1>2. [Next]_vars => [TrackNext]_track_vars
  <2>1. ASSUME NEW p \in Packet, Arrive(p) PROVE TrackNext
      BY <2>1 DEF Arrive, TrackNext
  <2>2. ASSUME Timeout PROVE UNCHANGED track_vars
      BY <2>2 DEF Timeout
  <2>3. ASSUME UNCHANGED vars PROVE UNCHANGED track_vars
      BY <2>3 DEF vars
  <2> QED
      BY <2>1, <2>2, <2>3 DEF Next
<1> QED
    BY <1>1, <1>2, PTL DEF Spec, Tracking

\* Whatever UDP does to the packets, short of losing 2^16 messages in a row,
\* v3's pending ranges are exact and it rejects no packet with news.
THEOREM ReceiversExact ==
  Spec /\ [][NarrowGap]_track_vars => []PendingExact /\ RejectsOnlySeen
BY PacketsAssumption, ReceiversTrack, TrackingExact, NewsNeverRejected, PTL

-----------------------------------------------------------------------------
(* The counters. *)

V1Missing == (first .. expected_seq - 1) \ v1_delivered

CountInv ==
  /\ {messages, recovered, v1_lost} \subseteq Nat
  /\ IsFiniteSet(delivered) /\ v1_delivered \subseteq delivered
  /\ expected_seq = high_seq
  /\ messages = Cardinality(delivered)
  /\ recovered = Cardinality(delivered \ v1_delivered)
  /\ v1_lost = Cardinality(V1Missing)

\* The sizes of disjoint finite sets add up.
LEMMA AddDisjoint ==
  ASSUME NEW S, IsFiniteSet(S), NEW T, IsFiniteSet(T), S \cap T = {}
  PROVE  /\ IsFiniteSet(S \cup T)
         /\ Cardinality(S \cup T) = Cardinality(S) + Cardinality(T)
         /\ Cardinality(S) \in Nat /\ Cardinality(T) \in Nat
BY FS_Union, FS_EmptySet, FS_CardinalityType, SMTT(40)

\* A packet has as many messages as it says.
LEMMA MessagesCount ==
  ASSUME NEW p \in Packet
  PROVE  IsFiniteSet(Messages(p)) /\ Cardinality(Messages(p)) = p.count
<1>1. p.seq \in Nat /\ p.count \in Nat /\ p.count >= 1
    BY PacketsAssumption, PacketTyped
<1> DEFINE last == p.seq + p.count - 1
<1>2. last \in Int /\ p.seq \in Int /\ last - p.seq + 1 = p.count /\ ~(p.seq > last)
    BY <1>1
<1>3. Messages(p) = p.seq .. last
    BY DEF Messages
<1> HIDE DEF last
<1>4. IsFiniteSet(p.seq .. last) /\ Cardinality(p.seq .. last) = last - p.seq + 1
    BY <1>2, FS_Interval
<1> QED BY <1>2, <1>3, <1>4

\* The two receivers compare a packet with the same number.
LEMMA SameHigh ==
  ASSUME CountInv, NEW p \in Packet
  PROVE  V1!Expected(p) = High(p) /\ V1!Messages(p) = Messages(p)
BY DEF CountInv, V1!Expected, High, V1!Messages, Messages

\* In order, both deliver the packet and neither counts a loss.
LEMMA CountInOrder ==
  ASSUME TrackInv, CountInv, NEW p \in Packet, V1!Receive(p), InOrder(p)
  PROVE  CountInv'
<1> DEFINE M == Messages(p)
<1>0. /\ p.seq \in Nat /\ p.count \in Nat /\ p.count >= 1
      /\ High(p) \in Nat /\ first \in Nat /\ high_seq \in Nat /\ p.seq = High(p)
      /\ V1!Expected(p) = High(p) /\ V1!Messages(p) = M
    BY PacketsAssumption, PacketTyped, HighMeaning, SameHigh
    DEF InOrder, TrackInv, TrackTypeOK
<1>1. /\ messages' = messages + p.count /\ delivered' = delivered \cup M
      /\ first' = First(p) /\ high_seq' = p.seq + p.count /\ recovered' = recovered
    BY <1>0 DEF InOrder, Accept
<1>2. /\ expected_seq' = p.seq + p.count /\ v1_delivered' = v1_delivered \cup M
      /\ v1_lost' = v1_lost
    BY <1>0 DEF V1!Receive, V1!InOrder, V1!Gap, V1!Late, V1!Accept
<1>3. delivered \cap M = {} /\ IsFiniteSet(M) /\ Cardinality(M) = p.count
    BY <1>0, PacketsAssumption, NewAhead, MessagesCount
<1>4. /\ IsFiniteSet(delivered') /\ messages' = Cardinality(delivered')
    BY <1>1, <1>3, AddDisjoint DEF CountInv
<1>5. delivered' \ v1_delivered' = delivered \ v1_delivered
    BY <1>1, <1>2, <1>3
<1>6. V1Missing' = V1Missing
  <2>1. \A m \in delivered : m \in Nat /\ m < High(p)
      BY PacketsAssumption, HighMeaning DEF TrackInv, Started
  <2>2. v1_delivered \subseteq delivered /\ expected_seq = high_seq
      BY DEF CountInv
  <2>3. \A m : m \in M <=> m \in Nat /\ p.seq <= m /\ m < p.seq + p.count
      BY PacketsAssumption, MessagesMeaning
  <2>4. CASE high_seq = 0
    <3>1. first = 0 /\ first' = p.seq
        BY <1>1, <2>4 DEF TrackInv, Started, First
    <3>2. V1Missing = {}
        BY <2>2, <2>4, <3>1 DEF V1Missing
    <3>3. V1Missing' = {}
        BY <1>0, <1>2, <2>3, <3>1 DEF V1Missing
    <3> QED BY <3>2, <3>3
  <2>5. CASE high_seq # 0
    <3>1. first' = first /\ High(p) = high_seq /\ first < high_seq
        BY <1>1, <2>5 DEF TrackInv, Started, First, High
    <3>2. ASSUME NEW m PROVE m \in V1Missing' <=> m \in V1Missing
        BY <1>0, <1>2, <2>2, <2>3, <3>1 DEF V1Missing
    <3> QED BY <3>2
  <2> QED BY <2>4, <2>5
<1> QED BY <1>0, <1>1, <1>2, <1>4, <1>5, <1>6 DEF CountInv

\* A gap is a loss to v1, of as many messages as it is long.
LEMMA CountGap ==
  ASSUME TrackInv, CountInv, NEW p \in Packet, V1!Receive(p), Gap(p)
  PROVE  CountInv'
<1> DEFINE M == Messages(p)
           skipped == high_seq .. p.seq - 1
<1>0. /\ p.seq \in Nat /\ p.count \in Nat /\ p.count >= 1
      /\ High(p) \in Nat /\ first \in Nat /\ high_seq \in Nat /\ p.seq > High(p)
      /\ V1!Expected(p) = High(p) /\ V1!Messages(p) = M
    BY PacketsAssumption, PacketTyped, HighMeaning, SameHigh
    DEF Gap, TrackInv, TrackTypeOK
<1>a. high_seq # 0 /\ High(p) = high_seq /\ First(p) = first /\ first < high_seq
    BY <1>0 DEF High, First, TrackInv, Started
<1>1. /\ messages' = messages + p.count /\ delivered' = delivered \cup M
      /\ first' = first /\ high_seq' = p.seq + p.count /\ recovered' = recovered
    BY <1>0, <1>a DEF Gap, Accept
<1>2. /\ expected_seq' = p.seq + p.count /\ v1_delivered' = v1_delivered \cup M
      /\ v1_lost' = v1_lost + p.seq - high_seq
    BY <1>0, <1>a DEF V1!Receive, V1!InOrder, V1!Gap, V1!Late, V1!Accept
<1>3. delivered \cap M = {} /\ IsFiniteSet(M) /\ Cardinality(M) = p.count
    BY <1>0, PacketsAssumption, NewAhead, MessagesCount
<1>4. IsFiniteSet(delivered') /\ messages' = Cardinality(delivered')
    BY <1>1, <1>3, AddDisjoint DEF CountInv
<1>5. delivered' \ v1_delivered' = delivered \ v1_delivered
    BY <1>1, <1>2, <1>3
<1>6. V1Missing' = V1Missing \cup skipped /\ V1Missing \cap skipped = {}
  <2>1. \A m \in v1_delivered : m \in Nat /\ m < high_seq
      BY DEF CountInv, TrackInv, Started
  <2>2. expected_seq = high_seq
      BY DEF CountInv
  <2>3. \A m : m \in M <=> m \in Nat /\ p.seq <= m /\ m < p.seq + p.count
      BY PacketsAssumption, MessagesMeaning
  <2>4. ASSUME NEW m
        PROVE  /\ m \in V1Missing' <=> m \in V1Missing \/ m \in skipped
               /\ ~(m \in V1Missing /\ m \in skipped)
      BY <1>0, <1>a, <1>1, <1>2, <2>1, <2>2, <2>3 DEF V1Missing
  <2> QED BY <2>4
<1>7. Cardinality(skipped) = p.seq - high_seq /\ IsFiniteSet(skipped)
  <2>1. high_seq \in Int /\ p.seq - 1 \in Int
      BY <1>0
  <2>2. /\ IsFiniteSet(skipped)
        /\ Cardinality(skipped) = IF high_seq > p.seq - 1 THEN 0 ELSE p.seq - 1 - high_seq + 1
      BY <2>1, FS_Interval
  <2> QED BY <1>0, <1>a, <2>2
<1>8. IsFiniteSet(V1Missing)
  <2>1. IsFiniteSet(first .. expected_seq - 1)
      BY <1>0, FS_Interval DEF CountInv
  <2> QED BY <2>1, FS_Difference DEF V1Missing
<1>9. v1_lost' = Cardinality(V1Missing') /\ v1_lost' \in Nat
  <2>1. /\ Cardinality(V1Missing') = Cardinality(V1Missing) + Cardinality(skipped)
        /\ Cardinality(V1Missing) \in Nat
    <3> HIDE DEF skipped
    <3> QED BY <1>6, <1>7, <1>8, AddDisjoint
  <2> QED BY <1>0, <1>a, <1>2, <1>7, <2>1 DEF CountInv
<1> QED BY <1>0, <1>1, <1>2, <1>4, <1>5, <1>9 DEF CountInv

\* A packet that fills a range is late for v1, and recovered by v3.
LEMMA CountRecovered ==
  ASSUME TrackInv, CountInv, NEW p \in Packet, V1!Receive(p), Recovered(p)
  PROVE  CountInv'
<1> DEFINE M == Messages(p)
<1>0. /\ p.seq \in Nat /\ p.count \in Nat /\ p.seq < High(p) /\ High(p) \in Nat
      /\ V1!Expected(p) = High(p)
    BY PacketsAssumption, PacketTyped, HighMeaning, SameHigh DEF Recovered
<1>a. high_seq # 0 /\ High(p) = high_seq /\ First(p) = first
    BY <1>0 DEF High, First
<1>1. /\ messages' = messages + p.count /\ delivered' = delivered \cup M
      /\ first' = first /\ high_seq' = high_seq /\ recovered' = recovered + p.count
    BY <1>a DEF Recovered, Accept
<1>2. /\ expected_seq' = expected_seq /\ v1_delivered' = v1_delivered
      /\ v1_lost' = v1_lost
    BY <1>0, <1>a DEF V1!Receive, V1!InOrder, V1!Gap, V1!Late, CountInv
<1>3. delivered \cap M = {} /\ IsFiniteSet(M) /\ Cardinality(M) = p.count
    BY PacketsAssumption, NewBehind, MessagesCount DEF Recovered
<1>4. IsFiniteSet(delivered') /\ messages' = Cardinality(delivered')
    BY <1>1, <1>3, AddDisjoint DEF CountInv
<1>5. recovered' = Cardinality(delivered' \ v1_delivered')
  <2>1. /\ delivered' \ v1_delivered' = (delivered \ v1_delivered) \cup M
        /\ (delivered \ v1_delivered) \cap M = {}
      BY <1>1, <1>2, <1>3 DEF CountInv
  <2>2. IsFiniteSet(delivered \ v1_delivered)
      BY FS_Difference DEF CountInv
  <2>3. Cardinality(delivered' \ v1_delivered') = Cardinality(delivered \ v1_delivered) + p.count
    <3> HIDE DEF M
    <3> QED BY <1>3, <2>1, <2>2, AddDisjoint
  <2> QED BY <1>1, <2>3 DEF CountInv
<1>6. V1Missing' = V1Missing
    BY <1>1, <1>2 DEF V1Missing
<1> QED BY <1>0, <1>1, <1>2, <1>4, <1>5, <1>6 DEF CountInv

\* A packet that v3 rejects v1 drops too, and no message is counted.
LEMMA CountDuplicate ==
  ASSUME TrackInv, CountInv, NEW p \in Packet, V1!Receive(p), Duplicate(p)
  PROVE  CountInv'
<1>0. /\ p.seq \in Nat /\ p.count \in Nat /\ p.seq < High(p) /\ High(p) \in Nat
      /\ V1!Expected(p) = High(p) /\ high_seq # 0
    BY PacketsAssumption, PacketTyped, HighMeaning, SameHigh DEF Duplicate, High
<1>1. UNCHANGED <<messages, delivered, first, high_seq, recovered>>
    BY DEF Duplicate
<1>2. UNCHANGED <<expected_seq, v1_delivered, v1_lost>>
    BY <1>0 DEF V1!Receive, V1!InOrder, V1!Gap, V1!Late, V1!Expected
<1> QED BY <1>1, <1>2 DEF CountInv, V1Missing

\* Before the first packet every counter is zero and nothing is delivered.
LEMMA CountInit == Init => CountInv
<1> SUFFICES ASSUME Init PROVE CountInv
    OBVIOUS
<1>1. /\ messages = 0 /\ recovered = 0 /\ v1_lost = 0 /\ delivered = {}
      /\ v1_delivered = {} /\ expected_seq = 0 /\ high_seq = 0 /\ first = 0
    BY DEF Init, TrackInit, V1!Init
<1>2. V1Missing = {} /\ delivered \ v1_delivered = {}
    BY <1>1 DEF V1Missing
<1> QED BY <1>1, <1>2, FS_EmptySet DEF CountInv

\* Every arrival, and the end of the session, keeps the counters true.
LEMMA CountNext == TrackInv /\ CountInv /\ [Next]_vars => CountInv'
<1> SUFFICES ASSUME TrackInv, CountInv, [Next]_vars PROVE CountInv'
    OBVIOUS
<1>1. ASSUME NEW p \in Packet, Arrive(p) PROVE CountInv'
    BY <1>1, CountInOrder, CountGap, CountRecovered, CountDuplicate DEF Arrive, Receive
<1>2. CASE Timeout
    BY <1>2 DEF Timeout, v1_vars, track_vars, CountInv, V1Missing
<1>3. CASE UNCHANGED vars
    BY <1>3 DEF vars, v1_vars, track_vars, CountInv, V1Missing
<1> QED BY <1>1, <1>2, <1>3 DEF Next

\* The counters the receivers print are true, short of losing 2^16 messages in
\* a row: v3 delivers no message twice, delivers all that v1 does and exactly
\* the recovered ones more, and v1's losses are the messages it skipped.
THEOREM CountersExact ==
  Spec /\ [][NarrowGap]_track_vars => [](ExactlyOnce /\ V3DeliversMore /\ V1LossExact)
<1>1. Init => TrackInv
    BY InvInit DEF Init
<1>2. TrackInv /\ [TrackNext]_track_vars /\ [NarrowGap]_track_vars => TrackInv'
    BY PacketsAssumption, InvNext
<1>3. CountInv => ExactlyOnce /\ V3DeliversMore /\ V1LossExact
    BY DEF CountInv, V1Missing, ExactlyOnce, V3DeliversMore, V1LossExact
<1> QED BY <1>1, <1>2, <1>3, ReceiversTrack, CountInit, CountNext, PTL DEF Spec, Tracking

\* Of these, what v1 misses: remembering ranges never costs v3 a message.
THEOREM V3NeverBehind == Spec /\ [][NarrowGap]_track_vars => []V3DeliversMore
BY CountersExact, PTL

\* And v1's own count of lost messages, which late arrivals never reduce.
THEOREM V1LossCounted == Spec /\ [][NarrowGap]_track_vars => []V1LossExact
BY CountersExact, PTL

-----------------------------------------------------------------------------
(* What has arrived, and the final report. *)

\* The session numbers its messages without a hole, as the sender does
\* (ReplaySender.tla): between two packets every number was sent.
NumbersInARow == \A p, q \in Packet : p.seq .. q.seq \subseteq Sent

ArrivalInv ==
  /\ arrivals \in [Packet -> 0 .. MaxCopies]
  /\ high_seq = 0 => \A p \in Packet : arrivals[p] = 0
  /\ high_seq # 0 => \E p, q \in Packet : first = p.seq /\ high_seq = q.seq + q.count
  /\ \A p \in Packet : arrivals[p] # 0 => Messages(p) \subseteq delivered \cup 1 .. first - 1
  /\ \A m \in delivered : \E p \in Packet : m \in Messages(p) /\ arrivals[p] # 0

Pending == Sum(pending_gaps, DOMAIN pending_gaps)

ReportInv ==
  /\ done \in BOOLEAN /\ truly_lost \in Nat
  /\ {v1_gaps, v1_dups, gaps, dups} \subseteq Nat
  /\ done => truly_lost = Pending

\* What a packet adds to the ends of the session seen so far.
LEMMA AcceptedArrives ==
  ASSUME TrackInv, ArrivalInv, NEW p \in Packet, Accept(p),
         arrivals' = [arrivals EXCEPT ![p] = @ + 1], arrivals[p] < MaxCopies,
         \/ high_seq' = p.seq + p.count
         \/ high_seq # 0 /\ high_seq' = high_seq
  PROVE  ArrivalInv'
<1>0. /\ p.seq \in Nat /\ p.count \in Nat /\ p.count >= 1 /\ p.seq >= 1
      /\ high_seq \in Nat /\ MaxCopies \in Nat
    BY PacketsAssumption, CopiesAssumption, PacketTyped DEF TrackInv, TrackTypeOK
<1>1. arrivals' \in [Packet -> 0 .. MaxCopies]
    BY <1>0 DEF ArrivalInv
<1>2. /\ delivered' = delivered \cup Messages(p) /\ first' = First(p)
      /\ high_seq' # 0
    BY <1>0 DEF Accept
<1>3. \E x, y \in Packet : first' = x.seq /\ high_seq' = y.seq + y.count
  <2>1. CASE high_seq = 0
    <3>1. first' = p.seq /\ high_seq' = p.seq + p.count
        BY <1>2, <2>1 DEF First
    <3> QED BY <3>1
  <2>2. CASE high_seq # 0
    <3>1. first' = first
        BY <1>2, <2>2 DEF First
    <3>2. PICK x, y \in Packet : first = x.seq /\ high_seq = y.seq + y.count
        BY <2>2 DEF ArrivalInv
    <3>3. CASE high_seq' = p.seq + p.count
        BY <3>1, <3>2, <3>3
    <3>4. CASE high_seq' = high_seq
        BY <3>1, <3>2, <3>4
    <3> QED BY <3>3, <3>4
  <2> QED BY <2>1, <2>2
<1>4. ASSUME NEW q \in Packet, arrivals'[q] # 0
      PROVE  Messages(q) \subseteq delivered' \cup 1 .. first' - 1
  <2>1. CASE q = p
      BY <1>2, <2>1
  <2>2. CASE q # p
    <3>1. arrivals[q] # 0
        BY <1>4, <2>2 DEF ArrivalInv
    <3>2. high_seq # 0
        BY <3>1 DEF ArrivalInv
    <3>3. first' = first
        BY <1>2, <3>2 DEF First
    <3> QED BY <1>2, <3>1, <3>3 DEF ArrivalInv
  <2> QED BY <2>1, <2>2
<1>5. ASSUME NEW m \in delivered'
      PROVE  \E q \in Packet : m \in Messages(q) /\ arrivals'[q] # 0
  <2>1. CASE m \in Messages(p)
    <3>1. arrivals'[p] # 0
        BY DEF ArrivalInv
    <3> QED BY <2>1, <3>1
  <2>2. CASE m \notin Messages(p)
    <3>1. PICK q \in Packet : m \in Messages(q) /\ arrivals[q] # 0
        BY <1>2, <1>5, <2>2 DEF ArrivalInv
    <3>2. arrivals'[q] # 0
        BY <3>1, <2>2 DEF ArrivalInv
    <3> QED BY <3>1, <3>2
  <2> QED BY <2>1, <2>2
<1>6. \A q \in Packet : (Messages(q))' = Messages(q)
    BY DEF Messages
<1> QED BY <1>1, <1>2, <1>3, <1>4, <1>5, <1>6 DEF ArrivalInv

\* A packet that is rejected had been seen.
LEMMA RejectedArrives ==
  ASSUME TrackInv, ArrivalInv, NEW p \in Packet, Duplicate(p),
         arrivals' = [arrivals EXCEPT ![p] = @ + 1], arrivals[p] < MaxCopies
  PROVE  ArrivalInv'
<1>0. high_seq # 0 /\ MaxCopies \in Nat
    BY PacketsAssumption, CopiesAssumption, PacketTyped DEF Duplicate, High
<1>1. UNCHANGED <<delivered, first, high_seq>>
    BY DEF Duplicate
<1>2. arrivals' \in [Packet -> 0 .. MaxCopies]
    BY <1>0 DEF ArrivalInv
<1>3. \A q \in Packet : arrivals'[q] # 0 => q = p \/ arrivals[q] # 0
    BY DEF ArrivalInv
<1>4. \A q \in Packet : arrivals[q] # 0 => arrivals'[q] # 0
    BY DEF ArrivalInv
<1>5. Messages(p) \subseteq delivered \cup 1 .. first - 1
    BY PacketsAssumption, DuplicateSeen
<1>6. \A q \in Packet : (Messages(q))' = Messages(q)
    BY DEF Messages
<1> QED BY <1>0, <1>1, <1>2, <1>3, <1>4, <1>5, <1>6 DEF ArrivalInv

\* Before the first packet nothing has arrived and nothing is reported.
LEMMA ArrivalInit == Init => ArrivalInv /\ ReportInv
<1> SUFFICES ASSUME Init PROVE ArrivalInv /\ ReportInv
    OBVIOUS
<1>1. /\ arrivals = [p \in Packet |-> 0] /\ high_seq = 0 /\ delivered = {}
      /\ done = FALSE /\ truly_lost = 0
      /\ v1_gaps = 0 /\ v1_dups = 0 /\ gaps = 0 /\ dups = 0
    BY DEF Init, TrackInit, V1!Init
<1>2. ArrivalInv
  <2>1. arrivals \in [Packet -> 0 .. MaxCopies]
      BY <1>1, CopiesAssumption
  <2>2. \A p \in Packet : arrivals[p] = 0
      BY <1>1
  <2> QED BY <1>1, <2>1, <2>2 DEF ArrivalInv
<1>3. done \in BOOLEAN /\ ~done
    BY <1>1, Zenon
<1>4. truly_lost \in Nat /\ {v1_gaps, v1_dups, gaps, dups} \subseteq Nat
    BY <1>1
<1> QED BY <1>2, <1>3, <1>4 DEF ReportInv

\* Every packet that arrives is delivered, or precedes the first one received.
LEMMA ArrivalNext == TrackInv /\ ArrivalInv /\ [Next]_vars => ArrivalInv'
<1> SUFFICES ASSUME TrackInv, ArrivalInv, [Next]_vars PROVE ArrivalInv'
    OBVIOUS
<1>1. ASSUME NEW p \in Packet, Arrive(p) PROVE ArrivalInv'
  <2>1. arrivals' = [arrivals EXCEPT ![p] = @ + 1] /\ arrivals[p] < MaxCopies
      BY <1>1 DEF Arrive
  <2>2. p.seq \in Nat /\ p.count \in Nat
      BY PacketsAssumption, PacketTyped
  <2>3. CASE InOrder(p)
    <3>1. Accept(p) /\ high_seq' = p.seq + p.count
        BY <2>3 DEF InOrder
    <3> QED BY <2>1, <3>1, AcceptedArrives
  <2>4. CASE Gap(p)
    <3>1. Accept(p) /\ high_seq' = p.seq + p.count
        BY <2>4 DEF Gap
    <3> QED BY <2>1, <3>1, AcceptedArrives
  <2>5. CASE Recovered(p)
    <3>1. Accept(p) /\ high_seq # 0 /\ high_seq' = high_seq
        BY <2>2, <2>5 DEF Recovered, High
    <3> QED BY <2>1, <3>1, AcceptedArrives
  <2>6. CASE Duplicate(p)
      BY <2>1, <2>6, RejectedArrives
  <2> QED BY <1>1, <2>3, <2>4, <2>5, <2>6 DEF Arrive, Receive
<1>2. CASE Timeout
    BY <1>2 DEF Timeout, track_vars, ArrivalInv, Messages
<1>3. CASE UNCHANGED vars
    BY <1>3 DEF vars, track_vars, ArrivalInv, Messages
<1> QED BY <1>1, <1>2, <1>3 DEF Next

\* The lengths of the pending ranges sum up to the messages missing.
LEMMA PendingSum ==
  ASSUME TrackInv
  PROVE  Pending = Cardinality(Missing) /\ IsFiniteSet(Missing) /\ Pending \in Nat
<1> DEFINE part == [g \in DOMAIN pending_gaps |-> g .. End(g) - 1]
<1>1. ASSUME NEW g \in DOMAIN pending_gaps
      PROVE  /\ g \in Nat /\ pending_gaps[g] \in Nat \ {0} /\ End(g) = g + pending_gaps[g]
             /\ first <= g /\ End(g) <= high_seq /\ first \in Nat /\ high_seq \in Nat
    BY PacketsAssumption DEF TrackInv, TrackTypeOK, RangesSound, End, WellFormed
<1>2. IsFiniteSet(DOMAIN pending_gaps)
  <2>1. high_seq \in Nat /\ DOMAIN pending_gaps \in SUBSET Nat
      BY DEF TrackInv, TrackTypeOK
  <2>2. \A g \in DOMAIN pending_gaps : g <= high_seq
      BY <1>1
  <2> QED BY <2>1, <2>2, FS_BoundedSetOfNaturals
<1>3. ASSUME NEW g \in DOMAIN pending_gaps
      PROVE  IsFiniteSet(part[g]) /\ pending_gaps[g] = Cardinality(part[g])
  <2>1. g \in Int /\ End(g) - 1 \in Int /\ End(g) - 1 - g + 1 = pending_gaps[g] /\ ~(g > End(g) - 1)
      BY <1>1
  <2>2. IsFiniteSet(g .. End(g) - 1)
      /\ Cardinality(g .. End(g) - 1) = IF g > End(g) - 1 THEN 0 ELSE End(g) - 1 - g + 1
      BY <2>1, FS_Interval
  <2> QED BY <2>1, <2>2
<1>4. ASSUME NEW g \in DOMAIN pending_gaps, NEW h \in DOMAIN pending_gaps, g # h
      PROVE  part[g] \cap part[h] = {}
  <2>1. End(g) <= h \/ End(h) <= g
      BY <1>1, <1>4 DEF TrackInv, RangesSound
  <2> QED BY <1>1, <2>1
<1>5. Missing = UNION {part[g] : g \in DOMAIN pending_gaps}
    BY DEF Missing
<1> HIDE DEF part
<1>6. IsFiniteSet(Missing) /\ Cardinality(Missing) = Pending
  <2> DEFINE D == DOMAIN pending_gaps
  <2>1. \A g \in D : IsFiniteSet(part[g]) /\ pending_gaps[g] = Cardinality(part[g])
      BY <1>3
  <2>2. \A g, h \in D : g # h => part[g] \cap part[h] = {}
      BY <1>4
  <2>3. IsFiniteSet(D) /\ Pending = Sum(pending_gaps, D)
      BY <1>2 DEF Pending
  <2>4. \A m : m \in Missing <=> \E g \in D : m \in part[g]
      BY <1>5
  <2> HIDE DEF D
  <2> QED BY <2>1, <2>2, <2>3, <2>4, SumOfSizes
<1> QED BY <1>6, FS_CardinalityType

\* Only the timeout writes the report, and nothing arrives after it.
LEMMA ReportNext == TrackInv /\ ReportInv /\ [Next]_vars => ReportInv'
<1> SUFFICES ASSUME TrackInv, ReportInv, [Next]_vars PROVE ReportInv'
    OBVIOUS
<1>1. ASSUME NEW p \in Packet, Arrive(p) PROVE ReportInv'
  <2>1. ~done /\ UNCHANGED <<done, truly_lost>>
      BY <1>1 DEF Arrive
  <2>2. {gaps', dups'} \subseteq Nat
      BY <1>1 DEF Arrive, Receive, InOrder, Gap, Recovered, Duplicate, ReportInv
  <2>3. {v1_gaps', v1_dups'} \subseteq Nat
      BY <1>1 DEF Arrive, V1!Receive, V1!InOrder, V1!Gap, V1!Late, ReportInv
  <2> QED BY <2>1, <2>2, <2>3 DEF ReportInv
<1>2. CASE Timeout
  <2>1. truly_lost' = Pending
      BY <1>2, SumDef DEF Timeout, Pending
  <2>2. UNCHANGED <<pending_gaps, gaps, dups, v1_gaps, v1_dups>> /\ done' = TRUE
      BY <1>2 DEF Timeout, track_vars, v1_vars
  <2>3. Pending' = Pending
      BY <2>2 DEF Pending, Sum, SumIter, IsSum, AnyOf
  <2> QED BY <2>1, <2>2, <2>3, PendingSum DEF ReportInv
<1>3. CASE UNCHANGED vars
  <2>1. UNCHANGED <<pending_gaps, gaps, dups, v1_gaps, v1_dups, done, truly_lost>>
      BY <1>3 DEF vars, track_vars, v1_vars
  <2>2. Pending' = Pending
      BY <2>1 DEF Pending, Sum, SumIter, IsSum, AnyOf
  <2> QED BY <2>1, <2>2 DEF ReportInv
<1> QED BY <1>1, <1>2, <1>3 DEF Next

\* What is missing was sent, and never arrived.
LEMMA MissingSent ==
  ASSUME NumbersInARow, TrackInv, ArrivalInv
  PROVE  Missing = {m \in Sent : first <= m /\ m < high_seq /\
                      \A p \in Packet : m \in Messages(p) => arrivals[p] = 0}
<1>1. CASE high_seq = 0
  <2>1. Missing = {}
      BY <1>1 DEF TrackInv, Started, Missing
  <2>2. \A m \in Sent : m \in Nat
      BY PacketsAssumption, MessagesMeaning DEF Sent
  <2> QED BY <1>1, <2>1, <2>2
<1>2. CASE high_seq # 0
  <2>1. PICK x, y \in Packet : first = x.seq /\ high_seq = y.seq + y.count
      BY <1>2 DEF ArrivalInv
  <2>2. /\ y.seq \in Nat /\ y.count \in Nat /\ first \in Nat /\ high_seq \in Nat
        /\ 1 <= first
      BY PacketsAssumption, <1>2, PacketTyped DEF TrackInv, TrackTypeOK, Started
  <2>3. \A m : m \in Missing <=> m \in Nat /\ first <= m /\ m < high_seq /\ m \notin delivered
      BY <2>2 DEF TrackInv, PendingExact
  <2>4. ASSUME NEW m \in Missing
        PROVE  m \in Sent /\ \A p \in Packet : m \in Messages(p) => arrivals[p] = 0
    <3>1. m \in Sent
      <4>1. CASE m <= y.seq
          BY <2>1, <2>2, <2>3, <4>1 DEF NumbersInARow
      <4>2. CASE y.seq < m
        <5>1. m \in Messages(y)
            BY <2>1, <2>2, <2>3, <4>2, PacketsAssumption, MessagesMeaning
        <5> QED BY <5>1 DEF Sent
      <4> QED BY <2>2, <2>3, <4>1, <4>2
    <3>2. ASSUME NEW p \in Packet, m \in Messages(p) PROVE arrivals[p] = 0
      <4>1. m \notin delivered \cup 1 .. first - 1
          BY <2>2, <2>3
      <4>2. ~(arrivals[p] # 0)
          BY <3>2, <4>1 DEF ArrivalInv
      <4> QED BY <4>2 DEF ArrivalInv
    <3> QED BY <3>1, <3>2
  <2>5. ASSUME NEW m \in Sent, first <= m, m < high_seq,
               \A p \in Packet : m \in Messages(p) => arrivals[p] = 0
        PROVE  m \in Missing
    <3>1. m \in Nat
        BY PacketsAssumption, MessagesMeaning DEF Sent
    <3>2. m \notin delivered
        BY <2>5 DEF ArrivalInv
    <3> QED BY <2>3, <2>5, <3>1, <3>2
  <2>6. \A m \in Missing : first <= m /\ m < high_seq
      BY <2>3
  <2> QED BY <2>4, <2>5, <2>6
<1> QED BY <1>1, <1>2

\* When the sender numbers without holes and no gap reaches 2^16 messages, the
\* final report is the number of messages that never arrived between the first
\* and the last packet, however the others were shuffled and doubled.
THEOREM FinalReportExact ==
  ASSUME NumbersInARow
  PROVE  Spec /\ [][NarrowGap]_track_vars => []LossReported
<1>1. Init => TrackInv
    BY InvInit DEF Init
<1>2. TrackInv /\ [TrackNext]_track_vars /\ [NarrowGap]_track_vars => TrackInv'
    BY PacketsAssumption, InvNext
<1>3. TrackInv /\ ArrivalInv /\ ReportInv => LossReported
    BY MissingSent, PendingSum DEF ReportInv, LossReported
<1> QED
    BY <1>1, <1>2, <1>3, ReceiversTrack, ArrivalInit, ArrivalNext, ReportNext, PTL
    DEF Spec, Tracking

\* Under the same assumptions the receivers' state is type-correct.
THEOREM ReceiversTyped ==
  ASSUME NumbersInARow
  PROVE  Spec /\ [][NarrowGap]_track_vars => []TypeOK
<1>1. Init => TrackInv
    BY InvInit DEF Init
<1>2. TrackInv /\ [TrackNext]_track_vars /\ [NarrowGap]_track_vars => TrackInv'
    BY PacketsAssumption, InvNext
<1>3. TrackInv /\ ArrivalInv /\ CountInv /\ ReportInv => TypeOK
  <2> SUFFICES ASSUME TrackInv, ArrivalInv, CountInv, ReportInv PROVE TypeOK
      OBVIOUS
  <2>1. delivered \subseteq Sent /\ v1_delivered \subseteq Sent
      BY DEF ArrivalInv, CountInv, Sent
  <2>2. DOMAIN pending_gaps \subseteq Sent
    <3>1. ASSUME NEW g \in DOMAIN pending_gaps PROVE g \in Missing
        BY PacketsAssumption, MissingMeaning DEF TrackInv, TrackTypeOK, End, WellFormed
    <3>2. Missing \subseteq Sent
        BY MissingSent
    <3> QED BY <3>1, <3>2
  <2> QED BY <2>1, <2>2
      DEF TypeOK, TrackInv, TrackTypeOK, ArrivalInv, CountInv, ReportInv
<1> QED
    BY <1>1, <1>2, <1>3, ReceiversTrack, ArrivalInit, ArrivalNext, ReportNext,
       CountInit, CountNext, PTL
    DEF Spec, Tracking
=============================================================================
