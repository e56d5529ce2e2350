------------------------------- MODULE MCRing -------------------------------
(* Packets of one or two messages.                                           *)
EXTENDS RingReceiver

Pkt(s, c) == [seq |-> s, count |-> c]

MCPacket == {Pkt(1, 1), Pkt(2, 2), Pkt(4, 1), Pkt(5, 1), Pkt(6, 1)}
=============================================================================
