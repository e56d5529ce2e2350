----------------------------- MODULE MCRefTable -----------------------------
(* Small instance of RefTable: eight slots, homes clustered around the      *)
(* wrap-around, so that probe paths and shifts cross slot 0.                *)
EXTENDS RefTable

MCKey == 1 .. 5
MCValue == {0, 1}
MCHome == <<6, 6, 7, 0, 7>>
=============================================================================
