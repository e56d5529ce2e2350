----------------------------- MODULE MCEndToEnd -----------------------------
(* All legal sessions of five messages about at most three orders, whose     *)
(* references are used in order; four packets, each arriving up to twice.    *)
(* A byte has two values, so that small numbers fill their fields.           *)
EXTENDS EndToEnd, TLC

Pkt(s, c) == [seq |-> s, count |-> c]
MCPacket == {Pkt(1, 1), Pkt(2, 2), Pkt(4, 1), Pkt(5, 1)}

MCSymbolOf == [r \in Ref |-> 1]

Msg(type, r) == [type |-> type, stock_locate |-> 1, ref |-> r]
Adds(r) == {Msg("A", r) @@ [side |-> "B", price |-> 10, shares |-> 3]}
Takings(r, n) == {Msg("E", r) @@ [shares |-> n]} \cup
                 (IF n > 1 THEN {Msg("X", r) @@ [shares |-> n - 1]} ELSE {Msg("D", r)})
Replaces(r, new) == {Msg("U", r) @@ [new |-> new, price |-> 12, shares |-> 2]}

\* The messages that may follow when orders have `left` and `new` is unused.
Following(left, new) ==
  LET resting == {r \in Ref : left[r] > 0}
  IN  UNION {Takings(r, left[r]) : r \in resting} \cup {[type |-> "S"]}
        \cup IF new \notin Ref THEN {}
             ELSE Adds(new) \cup UNION {Replaces(r, new) : r \in resting}

MCQuotes == {[side |-> "B", price |-> 10, shares |-> 3], [side |-> "B", price |-> 12, shares |-> 2]}

MCFeeds ==
  LET Used(m, new) == IF m.type \in {"A", "U"} THEN new + 1 ELSE new
      longer[n \in 0 .. 5] ==
        IF n = 0 THEN {[msgs |-> <<>>, left |-> [r \in Ref |-> 0], new |-> 1]}
        ELSE UNION {{[msgs |-> Append(s.msgs, m), left |-> After(s.left, m),
                      new |-> Used(m, s.new)] : m \in Following(s.left, s.new)} :
                    s \in longer[n - 1]}
  IN  {s.msgs : s \in {x \in longer[5] : \A i \in 2 .. 5 : x.msgs[i].type # "S"}}
=============================================================================
