----------------------------- MODULE Receivers ------------------------------
(***************************************************************************)
(* A v1 and a v3 receiver on the same multicast group, fed the same        *)
(* datagrams in the same order.  UDP may lose, duplicate and reorder them. *)
(* Three seconds of silence end a receiver, and with it the session.       *)
(***************************************************************************)
EXTENDS ReceiverV3, FiniteSetsExt

CONSTANT MaxCopies       \* bound: how often the network delivers one packet

VARIABLES arrivals,      \* how often each packet has arrived
          done,          \* the receivers have timed out
          truly_lost,    \* v3's final report
          expected_seq, v1_gaps, v1_lost, v1_dups, v1_delivered

V1 == INSTANCE ReceiverV1 WITH gaps <- v1_gaps, lost <- v1_lost, dups <- v1_dups,
                               delivered <- v1_delivered

v1_vars == <<expected_seq, v1_gaps, v1_lost, v1_dups, v1_delivered>>
vars == <<arrivals, done, truly_lost, v1_vars, track_vars>>

ASSUME PacketsAssumption == WellFormed
ASSUME CopiesAssumption == MaxCopies \in Nat

Init == /\ V1!Init /\ TrackInit
        /\ arrivals = [p \in Packet |-> 0]
        /\ done = FALSE /\ truly_lost = 0

\* A packet that never arrives is lost.
Arrive(p) == /\ ~done /\ arrivals[p] < MaxCopies
             /\ arrivals' = [arrivals EXCEPT ![p] = @ + 1]
             /\ V1!Receive(p) /\ Receive(p)
             /\ UNCHANGED <<done, truly_lost>>

\* Missing ranges are counted instead of missing messages.
BugTimeoutCountsRanges ==
  /\ ~done /\ done' = TRUE
  /\ truly_lost' = Cardinality(DOMAIN pending_gaps)
  /\ UNCHANGED <<arrivals, v1_vars, track_vars>>

\* SO_RCVTIMEO of v1, -ETIME of v2 and v3; the packets still under way at that
\* moment reach nobody.
Timeout ==
  /\ ~done /\ done' = TRUE
  /\ truly_lost' = MapThenSumSet(LAMBDA g : pending_gaps[g], DOMAIN pending_gaps)
  /\ UNCHANGED <<arrivals, v1_vars, track_vars>>

Next == (\E p \in Packet : Arrive(p)) \/ Timeout

Spec == Init /\ [][Next]_vars

-----------------------------------------------------------------------------

Sent == UNION {Messages(p) : p \in Packet}

\* Types; no missing range is empty, so none can be found in front of another.
TypeOK ==
  /\ arrivals \in [Packet -> 0 .. MaxCopies] /\ done \in BOOLEAN
  /\ {truly_lost, expected_seq, v1_gaps, v1_lost, v1_dups} \subseteq Nat
  /\ {high_seq, gaps, dups, recovered, messages, first} \subseteq Nat
  /\ delivered \subseteq Sent /\ v1_delivered \subseteq Sent
  /\ DOMAIN pending_gaps \subseteq Sent
  /\ \A g \in DOMAIN pending_gaps : pending_gaps[g] \in 1 .. kU16 - 1

\* No message reaches the v3 books twice, whatever the network duplicates
\* (receiver.cpp:157-160).
ExactlyOnce == messages = Cardinality(delivered)

\* Remembering the ranges never costs a message: v3 delivers all that v1 does,
\* both stand at the same number, and what v3 has beyond v1 is exactly what it
\* reports as recovered.
V3DeliversMore ==
  /\ expected_seq = high_seq
  /\ v1_delivered \subseteq delivered
  /\ recovered = Cardinality(delivered \ v1_delivered)

\* v1's loss count is the number of messages it skipped, late arrivals included.
V1LossExact ==
  v1_lost = Cardinality((first .. expected_seq - 1) \ v1_delivered)

\* The final report names exactly the messages that never arrived between the
\* first and the last packet.
LossReported ==
  done => truly_lost = Cardinality(
            {m \in Sent : first <= m /\ m < high_seq /\
               \A p \in Packet : m \in Messages(p) => arrivals[p] = 0})
=============================================================================
