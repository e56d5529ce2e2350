---------------------------- MODULE ItchMessages ----------------------------
(***************************************************************************)
(* Wire messages and what the parsers of include/common/itch_messages.hpp  *)
(* read from them.  Tracking number, timestamp, stock name and match       *)
(* number are left out: they are parsed and nothing looks at them.         *)
(***************************************************************************)
EXTENDS Integers

CONSTANT ByteBase      \* 256 in the code

\* read_be16 and read_be32 (read_be64 is alike): n bytes from p on, most significant first.
ReadBe(w, p, n) ==
  LET v[i \in 0 .. n] == IF i = 0 THEN 0 ELSE v[i - 1] * ByteBase + w[p + i - 1]
  IN  v[n]

Header(w) == [type |-> w[0], stock_locate |-> ReadBe(w, 1, 2), ref |-> ReadBe(w, 11, 8)]

With(r, s) == [x \in DOMAIN r \cup DOMAIN s |-> IF x \in DOMAIN r THEN r[x] ELSE s[x]]

AddOrder(w) == With(Header(w),
  [side |-> w[19], shares |-> ReadBe(w, 20, 4), price |-> ReadBe(w, 32, 4)])

OrderExecuted(w) == With(Header(w), [shares |-> ReadBe(w, 19, 4)])

OrderCancel(w) == With(Header(w), [shares |-> ReadBe(w, 19, 4)])

OrderDelete(w) == Header(w)

\* Shares and price in the order of an add.
BugReplaceSwapped(w) == With(Header(w),
  [new |-> ReadBe(w, 19, 8), shares |-> ReadBe(w, 31, 4), price |-> ReadBe(w, 27, 4)])

OrderReplace(w) == With(Header(w),
  [new |-> ReadBe(w, 19, 8), shares |-> ReadBe(w, 27, 4), price |-> ReadBe(w, 31, 4)])

\* The parser each case of the switch calls; nothing of other types is read.
Parse(w) == CASE w[0] = "A" -> AddOrder(w)
              [] w[0] = "E" -> OrderExecuted(w)
              [] w[0] = "X" -> OrderCancel(w)
              [] w[0] = "D" -> OrderDelete(w)
              [] w[0] = "U" -> OrderReplace(w)
              [] OTHER -> [type |-> w[0]]

-----------------------------------------------------------------------------
(* The exchange's side: where ITCH 5.0 puts the fields. *)

\* First byte and width of a field.
Place(type) ==
  With([stock_locate |-> <<1, 2>>, ref |-> <<11, 8>>],
       CASE type = "A" -> [shares |-> <<20, 4>>, price |-> <<32, 4>>]
         [] type \in {"E", "X"} -> [shares |-> <<19, 4>>]
         [] type = "U" -> [new |-> <<19, 8>>, shares |-> <<27, 4>>, price |-> <<31, 4>>]
         [] OTHER -> <<>>)

WireSize(type) == CASE type = "A" -> 36 [] type = "E" -> 31 [] type = "X" -> 23
                    [] type = "D" -> 19 [] type = "U" -> 35 [] OTHER -> 12

\* x without its i lowest bytes.
Shifted(x, i) == LET s[j \in 0 .. i] == IF j = 0 THEN x ELSE s[j - 1] \div ByteBase IN s[i]

\* The fields of m are numbers that their bytes can hold.
Fits(m) == LET place == Place(m.type)
           IN  \A x \in DOMAIN place \cap DOMAIN m :
                 m[x] \in Nat /\ Shifted(m[x], place[x][2]) = 0

\* The bytes of message m; those of fields that m does not show are all ones.
Wire(m) ==
  LET place == Place(m.type)
      In(k, x) == x \in DOMAIN m /\ k \in place[x][1] .. place[x][1] + place[x][2] - 1
      Byte(k, x) == Shifted(m[x], place[x][1] + place[x][2] - 1 - k) % ByteBase
  IN  [k \in 0 .. WireSize(m.type) - 1 |->
         IF k = 0 THEN m.type
         ELSE IF k = 19 /\ m.type = "A" THEN m.side
         ELSE IF \E x \in DOMAIN place : In(k, x)
                THEN Byte(k, CHOOSE x \in DOMAIN place : In(k, x))
                ELSE 1]
=============================================================================
