------------------------------ MODULE MCBooks -------------------------------
(* Small instances of BookEquivalence.                                       *)
EXTENDS BookEquivalence, TLC

CONSTANTS r1, r2, r3, s1, s2    \* references and symbols

Both(prices, shares) == [side : {"B", "S"}, price : prices, shares : shares]

\* One book.  With Cent = 2 and kWindow = 4, 10 and 12 fall into the window
\* whichever price begins the book; 13 is no whole number of cents and goes to
\* an overflow level between and beyond them.
OneSymbol == {s1}
AllS1 == [r \in {r1, r2, r3} |-> s1]
WindowPrices == {10, 12, 13}
WindowQuotes == Both({10, 12, 13}, {1}) \cup {[side |-> "B", price |-> 10, shares |-> 2]}
AnyRef == Permutations({r1, r2, r3})

\* Two books that share pool and table.  14 lies just beyond the window of a
\* book that began at 10, and 10 is the lowest price of one that began at 14.
TwoSymbols == {s1, s2}
SplitRefs == [r \in {r1, r2, r3} |-> IF r = r3 THEN s2 ELSE s1]
S1Refs == Permutations({r1, r2})
EdgePrices == {10, 14}
EdgeQuotes == Both({10, 14}, {1})

\* Fewer slots than orders; 10 lies just below the window of a book that began
\* at 16.
LimitPrices == {10, 16}
LimitQuotes == Both({10, 16}, {1}) \cup {[side |-> "B", price |-> 10, shares |-> 2]}
=============================================================================
