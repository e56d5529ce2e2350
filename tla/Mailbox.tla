------------------------------ MODULE Mailbox -------------------------------
(***************************************************************************)
(* What the io_uring rings promise the receivers: every datagram of the    *)
(* socket is read once, whole, and overtakes fewer than Depth others.      *)
(* Datagrams are named by the order in which they arrive.                  *)
(***************************************************************************)
EXTENDS Integers, FiniteSets

CONSTANT Depth       \* receives in flight

VARIABLES arrived,   \* how many datagrams have arrived
          read,      \* those the loop has read
          packets    \* how often it has read one

vars == <<arrived, read, packets>>

Init == arrived = 0 /\ read = {} /\ packets = 0

Unread == (1 .. arrived) \ read

Arrive == arrived' = arrived + 1 /\ UNCHANGED <<read, packets>>

Read(d) == /\ d \in Unread
           /\ Cardinality({e \in Unread : e < d}) < Depth
           /\ read' = read \cup {d} /\ packets' = packets + 1
           /\ UNCHANGED arrived

Next == Arrive \/ \E d \in Unread : Read(d)

Spec == Init /\ [][Next]_vars
=============================================================================
