--------------------------- MODULE MCReplaySender ---------------------------
(* Files of up to five messages of 1, 3 and 8 bytes.  A packet has room for *)
(* ten bytes of records: one long message, two middle ones or three short   *)
(* ones, the first two filling it to the last byte.                         *)
EXTENDS ReplaySender

MCFiles == UNION {[1 .. n -> {1, 3, 8}] : n \in 0 .. 5}
=============================================================================
