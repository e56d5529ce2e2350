------------------------------ MODULE MCSizing ------------------------------
(* Four references and a pool of two slots, so that a session can exceed the *)
(* pool, or fill it with the tool still counting orders that have gone.      *)
EXTENDS Sizing, TLC

CONSTANTS r1, r2, r3, r4, s1

MCSymbolOf == [r \in Ref |-> s1]
MCQuotes == {[side |-> "B", price |-> 10, shares |-> 2], [side |-> "S", price |-> 13, shares |-> 1]}
AnyRef == Permutations(Ref)
=============================================================================
