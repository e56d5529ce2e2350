---------------------------- MODULE MCReceivers -----------------------------
(* Six packets of one to three messages, each arriving up to twice.         *)
EXTENDS Receivers

Pkt(s, c) == [seq |-> s, count |-> c]

MCPacket == {Pkt(1, 2), Pkt(3, 1), Pkt(4, 3), Pkt(7, 1), Pkt(8, 2), Pkt(10, 1)}
=============================================================================
