--------------------------- MODULE EndToEndProofs ---------------------------
(***************************************************************************)
(* From the exchange's bytes to the three books, for every session, every  *)
(* number of symbols, orders and bytes, and every network.                 *)
(*                                                                         *)
(* 1. What the parsers read is what was sent: the fields of a message lie  *)
(*    apart, and shifting right and reading back are inverse.              *)
(* 2. What the exchange may send keeps its own book in balance: messages   *)
(*    take no more of an order than its creation brought, and a deletion   *)
(*    or replacement is the last one about it.  So any part of them takes  *)
(*    no more either, in whatever order they come.                         *)
(* 3. Amount says what a book holds of an order that was given some of the *)
(*    session's messages, each once, in some order.                        *)
(* 4. The inductive invariant EInv: the tracking is exact (Tracked), what  *)
(*    is delivered has been applied or is at hand, once (AtHand), and the  *)
(*    v1 books of both receivers hold the Amount of every order (Booked).  *)
(*    With it every message dispatched is a step of BookEquivalence, so    *)
(*    the theorems of BookProofs carry over to v3's books.                 *)
(***************************************************************************)
EXTENDS EndToEnd, BookProofs, ReceiverV3Proofs

-----------------------------------------------------------------------------
(* Recursion on the natural numbers. *)

\* s begins with a and goes on as G says, up to n.
Runs(s, V, a, G, n) == /\ s \in [0 .. n -> V] /\ s[0] = a
                       /\ \A i \in 0 .. n - 1 : s[i + 1] = G[i][s[i]]

Steps(V, a, G) == a \in V /\ G \in [Nat -> [V -> V]]
RunsOn(s, V, a, G) == s \in [Nat -> V] /\ s[0] = a /\ \A i \in Nat : s[i + 1] = G[i][s[i]]

\* There is such a function on all the numbers.
LEMMA Recursion ==
  ASSUME NEW V, NEW a, NEW G, Steps(V, a, G)
  PROVE  \E s : RunsOn(s, V, a, G)
<1>0. a \in V /\ G \in [Nat -> [V -> V]]
    BY DEF Steps
<1> DEFINE N == {n \in Nat : \E s : Runs(s, V, a, G, n)}
           upto(n) == CHOOSE s : Runs(s, V, a, G, n)
           all == [n \in Nat |-> upto(n)[n]]
<1>1. 0 \in N
  <2> DEFINE s == [i \in 0 .. 0 |-> a]
  <2>1. Runs(s, V, a, G, 0)
      BY <1>0 DEF Runs
  <2> QED BY <2>1
<1>2. ASSUME NEW n \in Nat, n \in N PROVE n + 1 \in N
  <2>1. PICK s : Runs(s, V, a, G, n)
      BY <1>2
  <2> DEFINE t == [i \in 0 .. n + 1 |-> IF i = n + 1 THEN G[n][s[n]] ELSE s[i]]
  <2>2. s[n] \in V /\ G[n][s[n]] \in V
      BY <1>0, <2>1 DEF Runs
  <2>3. \A i \in 0 .. n + 1 : t[i] \in V
      BY <2>1, <2>2 DEF Runs
  <2>4. t[0] = a
      BY <2>1 DEF Runs
  <2>5. ASSUME NEW i \in 0 .. n PROVE t[i + 1] = G[i][t[i]]
    <3>1. CASE i = n
        BY <2>2, <3>1
    <3>2. CASE i # n
        BY <2>1, <3>2 DEF Runs
    <3> QED BY <3>1, <3>2
  <2>6. t \in [0 .. n + 1 -> V]
      BY <2>3
  <2> HIDE DEF t
  <2>7. 0 .. (n + 1) - 1 = 0 .. n
      OBVIOUS
  <2>8. Runs(t, V, a, G, n + 1)
      BY <2>4, <2>5, <2>6, <2>7 DEF Runs
  <2> QED BY <2>8
<1> HIDE DEF N
<1>3. Nat \subseteq N
    BY <1>1, <1>2, NatSetInduction
<1>4. ASSUME NEW n \in Nat PROVE Runs(upto(n), V, a, G, n)
    BY <1>3 DEF N
<1> HIDE DEF upto
<1>5. ASSUME NEW n \in Nat PROVE upto(n + 1)[n] = upto(n)[n]
  <2> DEFINE M == {i \in Nat : i <= n => upto(n + 1)[i] = upto(n)[i]}
  <2>1. 0 \in M
      BY <1>4 DEF Runs
  <2>2. ASSUME NEW i \in Nat, i \in M PROVE i + 1 \in M
    <3> SUFFICES ASSUME i + 1 <= n PROVE upto(n + 1)[i + 1] = upto(n)[i + 1]
        OBVIOUS
    <3>1. upto(n + 1)[i] = upto(n)[i]
        BY <2>2
    <3>2. upto(n + 1)[i + 1] = G[i][upto(n + 1)[i]]
        BY <1>4 DEF Runs
    <3>3. upto(n)[i + 1] = G[i][upto(n)[i]]
        BY <1>4 DEF Runs
    <3> QED BY <3>1, <3>2, <3>3
  <2> HIDE DEF M
  <2>3. n \in M
      BY <2>1, <2>2, NatSetInduction
  <2> QED BY <2>3 DEF M
<1>6. all \in [Nat -> V]
    BY <1>4 DEF Runs
<1>7. all[0] = a
    BY <1>4 DEF Runs
<1>8. ASSUME NEW i \in Nat PROVE all[i + 1] = G[i][all[i]]
  <2>1. all[i] = upto(i + 1)[i] /\ all[i + 1] = upto(i + 1)[i + 1]
      BY <1>5
  <2>2. upto(i + 1)[i + 1] = G[i][upto(i + 1)[i]]
      BY <1>4 DEF Runs
  <2> QED BY <2>1, <2>2
<1> QED BY <1>6, <1>7, <1>8 DEF RunsOn

-----------------------------------------------------------------------------
(* The bytes of a message. *)

\* s shifts x right by whole bytes, n times.
Shifts(s, x, n) == s = [j \in 0 .. n |-> IF j = 0 THEN x ELSE s[j - 1] \div ByteBase]

\* Shifting right is dividing once more.
LEMMA ShiftedIs ==
  ASSUME NEW x \in Nat
  PROVE  /\ Itch!Shifted(x, 0) = x
         /\ \A i \in Nat : /\ Itch!Shifted(x, i) \in Nat
                           /\ Itch!Shifted(x, i + 1) = Itch!Shifted(x, i) \div ByteBase
<1> DEFINE G == [i \in Nat |-> [v \in Nat |-> v \div ByteBase]]
<1>1. \A v \in Nat : v \div ByteBase \in Nat
    BY BytesAssumption
<1>2. G \in [Nat -> [Nat -> Nat]]
    BY <1>1
<1>a. \A i, v \in Nat : G[i][v] = v \div ByteBase
    OBVIOUS
<1> HIDE DEF G
<1>3. PICK s \in [Nat -> Nat] : s[0] = x /\ \A i \in Nat : s[i + 1] = G[i][s[i]]
  <2>1. Steps(Nat, x, G)
      BY <1>2 DEF Steps
  <2>2. \E s : RunsOn(s, Nat, x, G)
      BY <2>1, Recursion
  <2> QED BY <2>2 DEF RunsOn
<1>4. \A i \in Nat : s[i + 1] = s[i] \div ByteBase
    BY <1>3, <1>a
<1>5. ASSUME NEW n \in Nat PROVE Itch!Shifted(x, n) = s[n]
  <2> DEFINE t == CHOOSE u : Shifts(u, x, n)
             M == {j \in Nat : j <= n => t[j] = s[j]}
  <2>1. Shifts([j \in 0 .. n |-> s[j]], x, n)
    <3> DEFINE u == [j \in 0 .. n |-> s[j]]
    <3>1. ASSUME NEW j \in 0 .. n PROVE u[j] = IF j = 0 THEN x ELSE u[j - 1] \div ByteBase
      <4>1. CASE j = 0
          BY <1>3, <4>1
      <4>2. CASE j # 0
        <5>1. j - 1 \in Nat /\ j - 1 \in 0 .. n /\ (j - 1) + 1 = j
            BY <4>2
        <5>2. s[j] = s[j - 1] \div ByteBase
            BY <1>4, <5>1
        <5> QED BY <4>2, <5>1, <5>2
      <4> QED BY <4>1, <4>2
    <3>2. u = [j \in 0 .. n |-> IF j = 0 THEN x ELSE u[j - 1] \div ByteBase]
        BY <3>1
    <3> QED BY <3>2 DEF Shifts
  <2>2. Shifts(t, x, n)
      BY <2>1
  <2>3. Itch!Shifted(x, n) = t[n]
      BY DEF Itch!Shifted, Shifts
  <2> HIDE DEF t
  <2>4. 0 \in M
      BY <1>3, <2>2 DEF Shifts
  <2>5. ASSUME NEW j \in Nat, j \in M PROVE j + 1 \in M
    <3> SUFFICES ASSUME j + 1 <= n PROVE t[j + 1] = s[j + 1]
        OBVIOUS
    <3>1. j + 1 \in 0 .. n /\ j + 1 # 0 /\ (j + 1) - 1 = j
        OBVIOUS
    <3>2. t[j + 1] = t[(j + 1) - 1] \div ByteBase
        BY <2>2, <3>1 DEF Shifts
    <3> QED BY <1>4, <2>5, <3>1, <3>2
  <2> HIDE DEF M
  <2>6. n \in M
      BY <2>4, <2>5, NatSetInduction
  <2> QED BY <2>3, <2>6 DEF M
<1> QED BY <1>3, <1>4, <1>5

\* Reading n bytes of w from p on adds one byte after another.
Reads(v, w, p, n) ==
  v = [i \in 0 .. n |-> IF i = 0 THEN 0 ELSE v[i - 1] * ByteBase + w[p + i - 1]]

\* A number whose bytes are where they are read is read back.
LEMMA ReadBack ==
  ASSUME NEW x \in Nat, NEW n \in Nat, NEW p \in Nat, NEW w, Itch!Shifted(x, n) = 0,
         \A i \in 1 .. n : w[p + i - 1] = Itch!Shifted(x, n - i) % ByteBase
  PROVE  Itch!ReadBe(w, p, n) = x
<1> DEFINE t == CHOOSE v : Reads(v, w, p, n)
           u == [i \in 0 .. n |-> Itch!Shifted(x, n - i)]
           M == {i \in Nat : i <= n => t[i] = Itch!Shifted(x, n - i)}
<1>1. ASSUME NEW i \in 1 .. n
      PROVE  Itch!Shifted(x, n - i)
               = Itch!Shifted(x, n - (i - 1)) * ByteBase + w[p + i - 1]
  <2> DEFINE y == Itch!Shifted(x, n - i)
  <2>1. n - i \in Nat /\ n - (i - 1) = (n - i) + 1
      OBVIOUS
  <2>2. y \in Nat /\ Itch!Shifted(x, n - (i - 1)) = y \div ByteBase
      BY <2>1, ShiftedIs
  <2>3. w[p + i - 1] = y % ByteBase
      OBVIOUS
  <2> HIDE DEF y
  <2>4. y = (y \div ByteBase) * ByteBase + (y % ByteBase)
      BY <2>2, BytesAssumption
  <2> QED BY <2>2, <2>3, <2>4 DEF y
<1>2. Reads(u, w, p, n)
  <2>1. ASSUME NEW i \in 0 .. n
        PROVE  u[i] = IF i = 0 THEN 0 ELSE u[i - 1] * ByteBase + w[p + i - 1]
    <3>1. CASE i = 0
        BY <3>1
    <3>2. CASE i # 0
      <4>1. i \in 1 .. n /\ i - 1 \in 0 .. n
          BY <3>2
      <4> QED BY <1>1, <3>2, <4>1
    <3> QED BY <3>1, <3>2
  <2> QED BY <2>1 DEF Reads
<1>3. Reads(t, w, p, n)
    BY <1>2
<1>4. Itch!ReadBe(w, p, n) = t[n]
    BY DEF Itch!ReadBe, Reads
<1> HIDE DEF t
<1>5. 0 \in M
    BY <1>3 DEF Reads
<1>6. ASSUME NEW i \in Nat, i \in M PROVE i + 1 \in M
  <2> SUFFICES ASSUME i + 1 <= n PROVE t[i + 1] = Itch!Shifted(x, n - (i + 1))
      OBVIOUS
  <2>1. i + 1 \in 0 .. n /\ i + 1 \in 1 .. n /\ i + 1 # 0 /\ (i + 1) - 1 = i
      OBVIOUS
  <2>2. t[i + 1] = t[(i + 1) - 1] * ByteBase + w[p + (i + 1) - 1]
      BY <1>3, <2>1 DEF Reads
  <2>3. Itch!Shifted(x, n - (i + 1))
          = Itch!Shifted(x, n - ((i + 1) - 1)) * ByteBase + w[p + (i + 1) - 1]
      BY <1>1, <2>1
  <2> QED BY <1>6, <2>1, <2>2, <2>3
<1> HIDE DEF M
<1>7. n \in M
    BY <1>5, <1>6, NatSetInduction
<1>8. n - n = 0
    OBVIOUS
<1>9. t[n] = Itch!Shifted(x, n - n)
    BY <1>7 DEF M
<1> QED BY <1>4, <1>8, <1>9, ShiftedIs

-----------------------------------------------------------------------------
(* Where the fields are. *)

\* The fields that m has at places of their own, and the bytes of each.
Fields(m) == DOMAIN Itch!Place(m.type) \cap DOMAIN m
Bytes(m, x) == Itch!Place(m.type)[x][1] ..
                 Itch!Place(m.type)[x][1] + Itch!Place(m.type)[x][2] - 1

\* The fields of m keep apart, and leave the type and an add's side alone.
Apart(m) ==
  \A x \in Fields(m) :
    /\ Itch!Place(m.type)[x][1] \in Nat \ {0} /\ Itch!Place(m.type)[x][2] \in Nat
    /\ Bytes(m, x) \subseteq 1 .. Itch!WireSize(m.type) - 1
    /\ m.type = "A" => 19 \notin Bytes(m, x)
    /\ \A y \in Fields(m) : y # x => Bytes(m, x) \cap Bytes(m, y) = {}

\* Then every field is read back where it is.
LEMMA FieldBack ==
  ASSUME NEW m, Itch!Fits(m), Apart(m), NEW x \in Fields(m)
  PROVE  Itch!ReadBe(Itch!Wire(m), Itch!Place(m.type)[x][1], Itch!Place(m.type)[x][2]) = m[x]
<1> DEFINE place == Itch!Place(m.type)
           a == place[x][1]
           n == place[x][2]
           w == Itch!Wire(m)
<1>1. m[x] \in Nat /\ Itch!Shifted(m[x], n) = 0
    BY DEF Itch!Fits, Fields
<1>2. a \in Nat \ {0} /\ n \in Nat
    BY DEF Apart
<1>3. ASSUME NEW i \in 1 .. n
      PROVE  w[a + i - 1] = Itch!Shifted(m[x], n - i) % ByteBase
  <2> DEFINE k == a + i - 1
             In(y) == y \in DOMAIN m /\ k \in place[y][1] .. place[y][1] + place[y][2] - 1
  <2>1. k \in a .. a + n - 1 /\ k # 0 /\ a + n - 1 - k = n - i
      BY <1>2
  <2>2. k \in Bytes(m, x)
      BY <2>1 DEF Bytes
  <2>3. k \in 0 .. Itch!WireSize(m.type) - 1 /\ ~(k = 19 /\ m.type = "A")
      BY <2>1, <2>2 DEF Apart
  <2>4. ASSUME NEW y \in DOMAIN place, In(y) PROVE y = x
      BY <2>2, <2>4 DEF Apart, Fields, Bytes
  <2>5. x \in DOMAIN place /\ In(x)
      BY <2>1 DEF Fields
  <2>6. (CHOOSE y \in DOMAIN place : In(y)) = x
      BY <2>4, <2>5
  <2>7. w[k] = Itch!Shifted(m[x], a + n - 1 - k) % ByteBase
      BY <2>1, <2>3, <2>5, <2>6 DEF Itch!Wire
  <2> QED BY <2>1, <2>7
<1> HIDE DEF place, a, n, w
<1>4. Itch!ReadBe(w, a, n) = m[x]
    BY <1>1, <1>2, <1>3, ReadBack
<1> QED BY <1>4 DEF a, n, w, place

\* The type comes first, an add's side has a byte of its own.
LEMMA FirstByte ==
  ASSUME NEW m, 0 \in 0 .. Itch!WireSize(m.type) - 1
  PROVE  Itch!Wire(m)[0] = m.type
BY DEF Itch!Wire

LEMMA SideByte ==
  ASSUME NEW m, m.type = "A", 19 \in 0 .. Itch!WireSize(m.type) - 1
  PROVE  Itch!Wire(m)[19] = m.side
BY 19 # 0 DEF Itch!Wire

\* The table of places, type by type.
LEMMA Places ==
  /\ DOMAIN Itch!Place("A") = {"stock_locate", "ref", "shares", "price"}
  /\ Itch!Place("A")["stock_locate"] = <<1, 2>> /\ Itch!Place("A")["ref"] = <<11, 8>>
  /\ Itch!Place("A")["shares"] = <<20, 4>> /\ Itch!Place("A")["price"] = <<32, 4>>
  /\ \A type \in {"E", "X"} :
       /\ DOMAIN Itch!Place(type) = {"stock_locate", "ref", "shares"}
       /\ Itch!Place(type)["stock_locate"] = <<1, 2>> /\ Itch!Place(type)["ref"] = <<11, 8>>
       /\ Itch!Place(type)["shares"] = <<19, 4>>
  /\ DOMAIN Itch!Place("D") = {"stock_locate", "ref"}
  /\ Itch!Place("D")["stock_locate"] = <<1, 2>> /\ Itch!Place("D")["ref"] = <<11, 8>>
  /\ DOMAIN Itch!Place("U") = {"stock_locate", "ref", "new", "shares", "price"}
  /\ Itch!Place("U")["stock_locate"] = <<1, 2>> /\ Itch!Place("U")["ref"] = <<11, 8>>
  /\ Itch!Place("U")["new"] = <<19, 8>> /\ Itch!Place("U")["shares"] = <<27, 4>>
  /\ Itch!Place("U")["price"] = <<31, 4>>
BY DEF Itch!Place, Itch!With

\* What each type of message shows.
LEMMA MessageFields ==
  ASSUME NEW m \in Message
  PROVE  /\ m.type = "A" => DOMAIN m = {"type", "stock_locate", "ref", "side", "price", "shares"}
         /\ m.type \in {"E", "X"} => DOMAIN m = {"type", "stock_locate", "ref", "shares"}
         /\ m.type = "D" => DOMAIN m = {"type", "stock_locate", "ref"}
         /\ m.type = "U" => DOMAIN m = {"type", "stock_locate", "ref", "new", "price", "shares"}
         /\ m.type \notin {"A", "E", "X", "D", "U"} => DOMAIN m = {"type"}
BY DEF Message

\* An add, whose side is the byte 19.
LEMMA AddRead ==
  ASSUME NEW m \in Message, Itch!Fits(m), m.type = "A", NEW x \in DOMAIN m
  PROVE  Itch!Parse(Itch!Wire(m))[x] = m[x]
<1>1. DOMAIN m = {"type", "stock_locate", "ref", "side", "price", "shares"}
    BY MessageFields
<1>2. Fields(m) = {"stock_locate", "ref", "shares", "price"}
    BY <1>1, Places DEF Fields
<1>3. /\ Bytes(m, "stock_locate") = 1 .. 2 /\ Bytes(m, "ref") = 11 .. 18
      /\ Bytes(m, "shares") = 20 .. 23 /\ Bytes(m, "price") = 32 .. 35
    BY Places, SMTT(40) DEF Bytes
<1>4. Itch!WireSize(m.type) = 36
    BY DEF Itch!WireSize
<1>5. Apart(m)
    BY <1>2, <1>3, <1>4, Places, SMTT(40) DEF Apart
<1> DEFINE w == Itch!Wire(m)
<1>6. /\ Itch!ReadBe(w, 1, 2) = m["stock_locate"] /\ Itch!ReadBe(w, 11, 8) = m["ref"]
      /\ Itch!ReadBe(w, 20, 4) = m["shares"] /\ Itch!ReadBe(w, 32, 4) = m["price"]
  <2>1. \A y \in Fields(m) : Itch!ReadBe(w, Itch!Place(m.type)[y][1],
                                         Itch!Place(m.type)[y][2]) = m[y]
      BY <1>5, FieldBack
  <2> HIDE DEF w
  <2> QED BY <1>2, <2>1, Places
<1>7. w[0] = "A" /\ w[19] = m.side
  <2>1. 0 \in 0 .. Itch!WireSize(m.type) - 1 /\ 19 \in 0 .. Itch!WireSize(m.type) - 1
      BY <1>4
  <2> QED BY <2>1, FirstByte, SideByte
<1> HIDE DEF w
<1>8. Itch!Parse(w) = Itch!AddOrder(w)
    BY <1>7 DEF Itch!Parse
<1>9. Itch!AddOrder(w)[x] = m[x]
    BY <1>1, <1>6, <1>7 DEF Itch!AddOrder, Itch!With, Itch!Header
<1> QED BY <1>8, <1>9 DEF w

\* An execution or a cancel.
LEMMA TakeRead ==
  ASSUME NEW m \in Message, Itch!Fits(m), m.type \in {"E", "X"}, NEW x \in DOMAIN m
  PROVE  Itch!Parse(Itch!Wire(m))[x] = m[x]
<1>1. DOMAIN m = {"type", "stock_locate", "ref", "shares"}
    BY MessageFields
<1>2. Fields(m) = {"stock_locate", "ref", "shares"}
    BY <1>1, Places DEF Fields
<1>3. /\ Bytes(m, "stock_locate") = 1 .. 2 /\ Bytes(m, "ref") = 11 .. 18
      /\ Bytes(m, "shares") = 19 .. 22
    BY Places, SMTT(40) DEF Bytes
<1>4. Itch!WireSize(m.type) \in {23, 31}
    BY DEF Itch!WireSize
<1>5. Apart(m)
    BY <1>2, <1>3, <1>4, Places, SMTT(40) DEF Apart
<1> DEFINE w == Itch!Wire(m)
<1>6. /\ Itch!ReadBe(w, 1, 2) = m["stock_locate"] /\ Itch!ReadBe(w, 11, 8) = m["ref"]
      /\ Itch!ReadBe(w, 19, 4) = m["shares"]
  <2>1. \A y \in Fields(m) : Itch!ReadBe(w, Itch!Place(m.type)[y][1],
                                         Itch!Place(m.type)[y][2]) = m[y]
      BY <1>5, FieldBack
  <2> HIDE DEF w
  <2> QED BY <1>2, <2>1, Places
<1>7. w[0] = m.type
  <2>1. 0 \in 0 .. Itch!WireSize(m.type) - 1
      BY <1>4
  <2> QED BY <2>1, FirstByte
<1> HIDE DEF w
<1>8. Itch!Parse(w) = Itch!With(Itch!Header(w), [shares |-> Itch!ReadBe(w, 19, 4)])
    BY <1>7 DEF Itch!Parse, Itch!OrderExecuted, Itch!OrderCancel
<1>9. Itch!With(Itch!Header(w), [shares |-> Itch!ReadBe(w, 19, 4)])[x] = m[x]
    BY <1>1, <1>6, <1>7 DEF Itch!With, Itch!Header
<1> QED BY <1>8, <1>9 DEF w

\* A deletion.
LEMMA DeleteRead ==
  ASSUME NEW m \in Message, Itch!Fits(m), m.type = "D", NEW x \in DOMAIN m
  PROVE  Itch!Parse(Itch!Wire(m))[x] = m[x]
<1>1. DOMAIN m = {"type", "stock_locate", "ref"}
    BY MessageFields
<1>2. Fields(m) = {"stock_locate", "ref"}
    BY <1>1, Places DEF Fields
<1>3. Bytes(m, "stock_locate") = 1 .. 2 /\ Bytes(m, "ref") = 11 .. 18
  <2>1. Itch!Place(m.type)["stock_locate"] = <<1, 2>> /\ Itch!Place(m.type)["ref"] = <<11, 8>>
      BY Places
  <2> QED BY <2>1 DEF Bytes
<1>4. Itch!WireSize(m.type) = 19
    BY DEF Itch!WireSize
<1>5. Apart(m)
    BY <1>2, <1>3, <1>4, Places, SMTT(40) DEF Apart
<1> DEFINE w == Itch!Wire(m)
<1>6. Itch!ReadBe(w, 1, 2) = m["stock_locate"] /\ Itch!ReadBe(w, 11, 8) = m["ref"]
  <2>1. \A y \in Fields(m) : Itch!ReadBe(w, Itch!Place(m.type)[y][1],
                                         Itch!Place(m.type)[y][2]) = m[y]
      BY <1>5, FieldBack
  <2> HIDE DEF w
  <2> QED BY <1>2, <2>1, Places
<1>7. w[0] = "D"
  <2>1. 0 \in 0 .. Itch!WireSize(m.type) - 1
      BY <1>4
  <2> QED BY <2>1, FirstByte
<1> HIDE DEF w
<1>8. Itch!Parse(w) = Itch!Header(w)
    BY <1>7 DEF Itch!Parse, Itch!OrderDelete
<1>9. Itch!Header(w)[x] = m[x]
    BY <1>1, <1>6, <1>7 DEF Itch!Header
<1> QED BY <1>8, <1>9 DEF w

\* A replacement.
LEMMA ReplaceRead ==
  ASSUME NEW m \in Message, Itch!Fits(m), m.type = "U", NEW x \in DOMAIN m
  PROVE  Itch!Parse(Itch!Wire(m))[x] = m[x]
<1>1. DOMAIN m = {"type", "stock_locate", "ref", "new", "price", "shares"}
    BY MessageFields
<1>2. Fields(m) = {"stock_locate", "ref", "new", "shares", "price"}
    BY <1>1, Places DEF Fields
<1>3. /\ Bytes(m, "stock_locate") = 1 .. 2 /\ Bytes(m, "ref") = 11 .. 18
      /\ Bytes(m, "new") = 19 .. 26 /\ Bytes(m, "shares") = 27 .. 30
      /\ Bytes(m, "price") = 31 .. 34
    BY Places, SMTT(40) DEF Bytes
<1>4. Itch!WireSize(m.type) = 35
    BY DEF Itch!WireSize
<1>5. Apart(m)
    BY <1>2, <1>3, <1>4, Places, SMTT(40) DEF Apart
<1> DEFINE w == Itch!Wire(m)
<1>6. /\ Itch!ReadBe(w, 1, 2) = m["stock_locate"] /\ Itch!ReadBe(w, 11, 8) = m["ref"]
      /\ Itch!ReadBe(w, 19, 8) = m["new"] /\ Itch!ReadBe(w, 27, 4) = m["shares"]
      /\ Itch!ReadBe(w, 31, 4) = m["price"]
  <2>1. \A y \in Fields(m) : Itch!ReadBe(w, Itch!Place(m.type)[y][1],
                                         Itch!Place(m.type)[y][2]) = m[y]
      BY <1>5, FieldBack
  <2> HIDE DEF w
  <2> QED BY <1>2, <2>1, Places
<1>7. w[0] = "U"
  <2>1. 0 \in 0 .. Itch!WireSize(m.type) - 1
      BY <1>4
  <2> QED BY <2>1, FirstByte
<1> HIDE DEF w
<1>8. Itch!Parse(w) = Itch!OrderReplace(w)
    BY <1>7 DEF Itch!Parse
<1>9. Itch!OrderReplace(w)[x] = m[x]
    BY <1>1, <1>6, <1>7 DEF Itch!OrderReplace, Itch!With, Itch!Header
<1> QED BY <1>8, <1>9 DEF w

\* The parser gets from the bytes of a message what the message says.
LEMMA ParseWire ==
  ASSUME NEW m \in Message, Itch!Fits(m), NEW x \in DOMAIN m
  PROVE  Itch!Parse(Itch!Wire(m))[x] = m[x]
<1>1. CASE m.type = "A"
    BY <1>1, AddRead
<1>2. CASE m.type \in {"E", "X"}
    BY <1>2, TakeRead
<1>3. CASE m.type = "D"
    BY <1>3, DeleteRead
<1>4. CASE m.type = "U"
    BY <1>4, ReplaceRead
<1>5. CASE m.type \notin {"A", "E", "X", "D", "U"}
  <2> DEFINE w == Itch!Wire(m)
  <2>1. Itch!WireSize(m.type) = 12
      BY <1>5 DEF Itch!WireSize
  <2>2. w[0] = m.type
    <3>1. 0 \in 0 .. Itch!WireSize(m.type) - 1
        BY <2>1
    <3> QED BY <3>1, FirstByte
  <2> HIDE DEF w
  <2>3. Itch!Parse(w) = [type |-> m.type]
      BY <1>5, <2>2 DEF Itch!Parse
  <2>4. x = "type"
      BY <1>5, MessageFields
  <2> QED BY <2>3, <2>4 DEF w
<1> QED BY <1>1, <1>2, <1>3, <1>4, <1>5

\* The session stays, and it is one of those assumed.
LEMMA FeedKept == FeedSpec => [](feed \in Feeds)
<1>1. FeedInit => feed \in Feeds
    BY DEF FeedInit
<1>2. feed \in Feeds /\ [FeedNext]_feed_vars => (feed \in Feeds)'
    BY DEF FeedNext, ReceivePacket, Dispatch, feed_vars
<1> QED BY <1>1, <1>2, PTL DEF FeedSpec

\* In every execution the parsers read what the exchange sent, field by field
\* (itch_messages.hpp:105-187).
THEOREM AlwaysParsed == FeedSpec => []ParsedAsSent
<1>1. ASSUME feed \in Feeds PROVE ParsedAsSent
  <2>1. ASSUME NEW k \in DOMAIN feed PROVE feed[k] \in Message /\ Itch!Fits(feed[k])
      BY <1>1, FeedsAssumption
  <2> QED BY <2>1, ParseWire DEF ParsedAsSent
<1> QED BY <1>1, FeedKept, PTL

-----------------------------------------------------------------------------
(* The exchange's book. *)

\* What a message names.
LEMMA MessageTyped ==
  ASSUME NEW m \in Message
  PROVE  /\ m.type = "A" => m.side \in Side
         /\ m.type \in {"A", "U"} => m.price \in Price
         /\ m.type \in {"A", "E", "X", "U"} => m.shares \in Uint /\ m.shares \in Nat \ {0}
         /\ m.type \in {"A", "E", "X", "D", "U"} => m.ref \in Ref
         /\ m.type = "U" => m.new \in Ref
<1> USE BooksAssumption DEF Message, Uint
<1>1. m.type = "A" => m.side \in Side /\ m.price \in Price /\ m.ref \in Ref
    OBVIOUS
<1>2. m.type = "U" => m.price \in Price /\ m.ref \in Ref /\ m.new \in Ref
    OBVIOUS
<1>3. m.type \in {"A", "E", "X", "U"} => m.shares \in 1 .. UintMod - 1
    OBVIOUS
<1>4. m.type \in {"E", "X", "D"} => m.ref \in Ref
    OBVIOUS
<1>5. UintMod \in Nat
    OBVIOUS
<1> QED BY <1>1, <1>2, <1>3, <1>4, <1>5

\* A message of a session is one of the messages assumed.
LEMMA FeedTyped ==
  ASSUME NEW f \in Feeds
  PROVE  /\ Len(f) \in Nat /\ DOMAIN f = 1 .. Len(f)
         /\ \A k \in DOMAIN f : /\ f[k] \in Message /\ LegalAt(f, k)
                                /\ Itch!Fits(f[k]) /\ InQuotes(f[k])
BY FeedsAssumption

\* What rests keeps its type.
LEMMA AfterType ==
  ASSUME NEW left \in [Ref -> Int], NEW m \in Message
  PROVE  After(left, m) \in [Ref -> Int]
<1>1. CASE m.type = "A"
    BY <1>1, MessageTyped DEF After
<1>2. CASE m.type \in {"E", "X"}
    BY <1>2, MessageTyped DEF After
<1>3. CASE m.type = "D"
    BY <1>3, MessageTyped DEF After
<1>4. CASE m.type = "U"
    BY <1>4, MessageTyped DEF After
<1>5. CASE m.type \notin {"A", "E", "X", "D", "U"}
    BY <1>5 DEF After
<1> QED BY <1>1, <1>2, <1>3, <1>4, <1>5

\* s follows the exchange's book through the first n messages of f.
LeftRuns(s, f, n) ==
  s = [k \in 0 .. n |-> IF k = 0 THEN [r \in Ref |-> 0] ELSE After(s[k - 1], f[k])]

\* The exchange's book goes from message to message.
LEMMA LeftIs ==
  ASSUME NEW f \in Feeds
  PROVE  /\ Left(f, 0) = [r \in Ref |-> 0]
         /\ \A n \in 0 .. Len(f) : Left(f, n) \in [Ref -> Int]
         /\ \A n \in 1 .. Len(f) : Left(f, n) = After(Left(f, n - 1), f[n])
<1> DEFINE V == [Ref -> Int]
           none == [r \in Ref |-> 0]
           G == [i \in Nat |-> [v \in V |-> IF i + 1 \in DOMAIN f THEN After(v, f[i + 1]) ELSE v]]
<1>1. Len(f) \in Nat /\ DOMAIN f = 1 .. Len(f) /\ \A k \in DOMAIN f : f[k] \in Message
    BY FeedTyped
<1>2. none \in V
    OBVIOUS
<1>3. G \in [Nat -> [V -> V]]
  <2>1. ASSUME NEW i \in Nat, NEW v \in V
        PROVE  (IF i + 1 \in DOMAIN f THEN After(v, f[i + 1]) ELSE v) \in V
      BY <1>1, AfterType
  <2> QED BY <2>1
<1>4. \A i \in Nat : \A v \in V : i + 1 \in DOMAIN f => G[i][v] = After(v, f[i + 1])
    OBVIOUS
<1> HIDE DEF G, V, none
<1>5. PICK s \in [Nat -> V] : s[0] = none /\ \A i \in Nat : s[i + 1] = G[i][s[i]]
  <2>1. Steps(V, none, G)
      BY <1>2, <1>3 DEF Steps
  <2>2. \E s : RunsOn(s, V, none, G)
      BY <2>1, Recursion
  <2> QED BY <2>2 DEF RunsOn
<1>6. ASSUME NEW n \in 1 .. Len(f) PROVE s[n] = After(s[n - 1], f[n])
  <2>1. n - 1 \in Nat /\ (n - 1) + 1 = n /\ n \in DOMAIN f
      BY <1>1
  <2> QED BY <1>4, <1>5, <2>1
<1>7. ASSUME NEW n \in 0 .. Len(f) PROVE Left(f, n) = s[n]
  <2> DEFINE t == CHOOSE u : LeftRuns(u, f, n)
             M == {j \in Nat : j <= n => t[j] = s[j]}
  <2>0. n \in Nat /\ n <= Len(f)
      BY <1>1
  <2>1. LeftRuns([j \in 0 .. n |-> s[j]], f, n)
    <3> DEFINE u == [j \in 0 .. n |-> s[j]]
    <3>1. ASSUME NEW j \in 0 .. n
          PROVE  u[j] = IF j = 0 THEN none ELSE After(u[j - 1], f[j])
      <4>1. CASE j = 0
          BY <1>5, <4>1
      <4>2. CASE j # 0
        <5>1. j \in 1 .. Len(f) /\ j - 1 \in 0 .. n
            BY <1>1, <2>0, <4>2
        <5> QED BY <1>6, <4>2, <5>1
      <4> QED BY <4>1, <4>2
    <3>2. u = [j \in 0 .. n |-> IF j = 0 THEN none ELSE After(u[j - 1], f[j])]
        BY <3>1
    <3> QED BY <3>2 DEF LeftRuns, none
  <2>2. LeftRuns(t, f, n)
      BY <2>1
  <2>3. Left(f, n) = t[n]
      BY DEF Left, LeftRuns
  <2> HIDE DEF t
  <2>4. 0 \in M
      BY <1>5, <2>2 DEF LeftRuns, none
  <2>5. ASSUME NEW j \in Nat, j \in M PROVE j + 1 \in M
    <3> SUFFICES ASSUME j + 1 <= n PROVE t[j + 1] = s[j + 1]
        OBVIOUS
    <3>1. j + 1 \in 0 .. n /\ j + 1 # 0 /\ (j + 1) - 1 = j /\ j + 1 \in 1 .. Len(f)
        BY <1>1, <2>0
    <3>2. t[j + 1] = After(t[(j + 1) - 1], f[j + 1])
        BY <2>2, <3>1 DEF LeftRuns
    <3> QED BY <1>6, <2>5, <3>1, <3>2
  <2> HIDE DEF M
  <2>6. n \in M
      BY <2>0, <2>4, <2>5, NatSetInduction
  <2> QED BY <2>0, <2>3, <2>6 DEF M
<1>8. 0 \in 0 .. Len(f) /\ \A n \in 1 .. Len(f) : n \in 0 .. Len(f) /\ n - 1 \in 0 .. Len(f)
    BY <1>1
<1>9. \A n \in 0 .. Len(f) : n \in Nat
    BY <1>1
<1> QED BY <1>5, <1>6, <1>7, <1>8, <1>9 DEF V, none

\* A part of a sum is at most the sum.
LEMMA SumOfPart ==
  ASSUME NEW S, IsFiniteSet(S), NEW w, \A x \in S : w[x] \in Nat, NEW T \in SUBSET S
  PROVE  /\ IsFiniteSet(T) /\ Sum(w, T) \in Nat /\ Sum(w, S) \in Nat
         /\ Sum(w, T) <= Sum(w, S)
<1> DEFINE Q == {U \in SUBSET (S \ T) : Sum(w, T) <= Sum(w, T \cup U)}
<1>1. \A U \in SUBSET S : IsFiniteSet(U) /\ Sum(w, U) \in Nat
    BY FS_Subset, SumType
<1>2. {} \in Q
  <2>1. T \cup {} = T
      OBVIOUS
  <2> QED BY <1>1, <2>1
<1>3. ASSUME NEW U \in SUBSET (S \ T), NEW x \in (S \ T) \ U, U \in Q PROVE U \cup {x} \in Q
  <2>1. T \cup (U \cup {x}) = (T \cup U) \cup {x} /\ T \cup U \in SUBSET S
        /\ x \notin T \cup U /\ (T \cup U) \cup {x} \in SUBSET S
      OBVIOUS
  <2>2. Sum(w, (T \cup U) \cup {x}) = Sum(w, T \cup U) + w[x]
      BY <1>1, <2>1, SumAdd
  <2>3. w[x] \in Nat /\ Sum(w, T \cup U) \in Nat /\ Sum(w, T) \in Nat
      BY <1>1, <2>1
  <2>4. Sum(w, T) <= Sum(w, T \cup U)
      BY <1>3
  <2>5. Sum(w, T) <= Sum(w, T \cup U) + w[x]
      BY <2>3, <2>4
  <2>6. Sum(w, T) <= Sum(w, T \cup (U \cup {x})) /\ U \cup {x} \in SUBSET (S \ T)
      BY <2>1, <2>2, <2>5
  <2> QED BY <2>6
<1> HIDE DEF Q
<1>4. IsFiniteSet(S \ T)
    BY <1>1
<1>5. S \ T \in Q
    BY <1>2, <1>3, <1>4, FiniteSetInduction
<1>6. T \cup (S \ T) = S
    OBVIOUS
<1> QED BY <1>1, <1>5, <1>6 DEF Q

\* A deletion and a replacement end an order.
Ends(m) == m.type \in {"D", "U"}

\* The shares message k takes from the exchange's book.
Weight(f) == [k \in DOMAIN f |-> IF f[k].type \in {"E", "X"} THEN f[k].shares
                                 ELSE IF Ends(f[k]) THEN Left(f, k - 1)[f[k].ref] ELSE 0]

\* The messages among the first n of f that take shares of r.
TakenBy(f, r, n) == {k \in 1 .. n : Takes(f[k], r)}

\* An order is created once.
LEMMA CreatedOnce ==
  ASSUME NEW f \in Feeds, NEW r \in Ref, NEW c \in DOMAIN f, NEW d \in DOMAIN f,
         Creates(f[c], r), Creates(f[d], r)
  PROVE  c = d
<1>1. c \in Nat /\ d \in Nat /\ c >= 1 /\ d >= 1
    BY FeedTyped
<1>2. ASSUME NEW i \in DOMAIN f, NEW j \in DOMAIN f, Creates(f[i], r), Creates(f[j], r), i < j
      PROVE  FALSE
  <2>1. LegalAt(f, j) /\ i \in 1 .. j - 1
      BY <1>2, FeedTyped
  <2> QED BY <1>2, <2>1 DEF LegalAt
<1>3. ~(c < d) /\ ~(d < c)
    BY <1>2
<1> QED BY <1>1, <1>3

\* What one message does to one order of the exchange.
LEMMA LeftStep ==
  ASSUME NEW f \in Feeds, NEW r \in Ref, NEW k \in DOMAIN f
  PROVE  LET before == Left(f, k - 1)[r]
             after == Left(f, k)[r]
         IN  /\ before \in Int /\ after \in Int
             /\ Creates(f[k], r) => after = f[k].shares /\ after \in Nat
             /\ Takes(f[k], r) => /\ Weight(f)[k] \in Nat \ {0} /\ Weight(f)[k] <= before
                                  /\ Ends(f[k]) => Weight(f)[k] = before
             /\ ~Creates(f[k], r) /\ Takes(f[k], r) => after = before - Weight(f)[k]
             /\ ~Creates(f[k], r) /\ ~Takes(f[k], r) => after = before
<1> DEFINE m == f[k]
           old == Left(f, k - 1)
<1>1. k \in 1 .. Len(f) /\ k - 1 \in 0 .. Len(f) /\ k \in 0 .. Len(f)
    BY FeedTyped
<1>2. old \in [Ref -> Int] /\ Left(f, k) \in [Ref -> Int] /\ Left(f, k) = After(old, m)
    BY <1>1, LeftIs
<1>3. m \in Message /\ LegalAt(f, k)
    BY FeedTyped
<1>4. m.type \in {"E", "X"} => m.shares <= old[m.ref]
    BY <1>3 DEF LegalAt
<1>5. m.type \in {"D", "U"} => old[m.ref] > 0
    BY <1>3 DEF LegalAt
<1>6. Weight(f)[k] = IF m.type \in {"E", "X"} THEN m.shares
                     ELSE IF Ends(m) THEN old[m.ref] ELSE 0
    BY DEF Weight
<1> SUFFICES /\ old[r] \in Int /\ Left(f, k)[r] \in Int
             /\ Creates(m, r) => Left(f, k)[r] = m.shares /\ Left(f, k)[r] \in Nat
             /\ Takes(m, r) => /\ Weight(f)[k] \in Nat \ {0} /\ Weight(f)[k] <= old[r]
                               /\ Ends(m) => Weight(f)[k] = old[r]
             /\ ~Creates(m, r) /\ Takes(m, r) => Left(f, k)[r] = old[r] - Weight(f)[k]
             /\ ~Creates(m, r) /\ ~Takes(m, r) => Left(f, k)[r] = old[r]
    BY Zenon
<1> HIDE DEF m, old
<1>7. CASE m.type = "A"
    BY <1>2, <1>3, <1>7, MessageTyped DEF After, Creates, Takes
<1>8. CASE m.type \in {"E", "X"}
    BY <1>2, <1>3, <1>4, <1>6, <1>8, MessageTyped DEF After, Creates, Takes, Ends
<1>9. CASE m.type = "D"
    BY <1>2, <1>3, <1>5, <1>6, <1>9, MessageTyped DEF After, Creates, Takes, Ends
<1>10. CASE m.type = "U"
    BY <1>2, <1>3, <1>5, <1>6, <1>10, MessageTyped DEF After, Creates, Takes, Ends
<1>11. CASE m.type \notin {"A", "E", "X", "D", "U"}
    BY <1>2, <1>3, <1>11 DEF After, Creates, Takes
<1> QED BY <1>7, <1>8, <1>9, <1>10, <1>11

\* Before an order is created there is nothing of it; from then on its shares are
\* those it was created with, less what has been taken.
Balance(f, r, n) ==
  /\ (\A k \in 1 .. n : ~Creates(f[k], r)) => Left(f, n)[r] = 0 /\ TakenBy(f, r, n) = {}
  /\ \A c \in 1 .. n : Creates(f[c], r) =>
       /\ \A k \in TakenBy(f, r, n) : c < k
       /\ Left(f, n)[r] = f[c].shares - Sum(Weight(f), TakenBy(f, r, n))
       /\ Left(f, n)[r] >= 0

\* The messages that take shares are finitely many and each takes some.
LEMMA TakenFacts ==
  ASSUME NEW f \in Feeds, NEW r \in Ref, NEW n \in 0 .. Len(f)
  PROVE  /\ IsFiniteSet(TakenBy(f, r, n)) /\ TakenBy(f, r, n) \subseteq DOMAIN f
         /\ \A k \in TakenBy(f, r, n) : Weight(f)[k] \in Nat \ {0} /\ Takes(f[k], r)
         /\ Sum(Weight(f), TakenBy(f, r, n)) \in Nat
<1>1. Len(f) \in Nat /\ DOMAIN f = 1 .. Len(f)
    BY FeedTyped
<1>2. n \in Nat /\ 1 .. n \subseteq DOMAIN f /\ IsFiniteSet(1 .. n)
    BY <1>1, FS_Interval
<1>3. IsFiniteSet(TakenBy(f, r, n)) /\ TakenBy(f, r, n) \subseteq DOMAIN f
    BY <1>2, FS_Subset DEF TakenBy
<1>4. \A k \in TakenBy(f, r, n) : Takes(f[k], r)
    BY DEF TakenBy
<1>5. \A k \in TakenBy(f, r, n) : Weight(f)[k] \in Nat \ {0}
    BY <1>3, <1>4, LeftStep
<1>6. Sum(Weight(f), TakenBy(f, r, n)) \in Nat
    BY <1>3, <1>5, SumType
<1> QED BY <1>3, <1>4, <1>5, <1>6

\* The balance holds from message to message.
LEMMA Balanced ==
  ASSUME NEW f \in Feeds, NEW r \in Ref, NEW n \in 0 .. Len(f)
  PROVE  Balance(f, r, n)
<1> DEFINE M == {i \in Nat : i <= Len(f) => Balance(f, r, i)}
<1>0. Len(f) \in Nat /\ DOMAIN f = 1 .. Len(f)
    BY FeedTyped
<1>1. 0 \in M
  <2>1. Left(f, 0)[r] = 0
      BY LeftIs
  <2>2. TakenBy(f, r, 0) = {}
      BY DEF TakenBy
  <2> QED BY <2>1, <2>2 DEF Balance
<1>2. ASSUME NEW i \in Nat, i \in M PROVE i + 1 \in M
  <2> SUFFICES ASSUME i + 1 <= Len(f) PROVE Balance(f, r, i + 1)
      OBVIOUS
  <2> DEFINE k == i + 1
             old == TakenBy(f, r, i)
             new == TakenBy(f, r, k)
             w == Weight(f)
  <2>1. i \in 0 .. Len(f) /\ k \in DOMAIN f /\ k - 1 = i /\ k \in Nat /\ i < k
        /\ 1 .. k = (1 .. i) \cup {k} /\ k \notin 1 .. i
      BY <1>0
  <2>2. Balance(f, r, i)
      BY <1>2, <2>1
  <2>3. /\ IsFiniteSet(old) /\ Sum(w, old) \in Nat
        /\ \A j \in old : w[j] \in Nat
      BY <2>1, TakenFacts
  <2>4. new = IF Takes(f[k], r) THEN old \cup {k} ELSE old
      BY <2>1 DEF TakenBy
  <2>5. k \notin old /\ \A j \in old : j \in 1 .. i
      BY <2>1 DEF TakenBy
  <2>6. /\ Left(f, i)[r] \in Int /\ Left(f, k)[r] \in Int
        /\ Creates(f[k], r) => Left(f, k)[r] = f[k].shares /\ Left(f, k)[r] \in Nat
        /\ Takes(f[k], r) => w[k] \in Nat \ {0} /\ w[k] <= Left(f, i)[r]
        /\ ~Creates(f[k], r) /\ Takes(f[k], r) => Left(f, k)[r] = Left(f, i)[r] - w[k]
        /\ ~Creates(f[k], r) /\ ~Takes(f[k], r) => Left(f, k)[r] = Left(f, i)[r]
      BY <2>1, LeftStep
  <2> HIDE DEF k, old, new, w
  <2>7. CASE \A j \in 1 .. i : ~Creates(f[j], r)
    <3>1. Left(f, i)[r] = 0 /\ old = {}
        BY <2>2, <2>7 DEF Balance, old
    <3>2. ~Takes(f[k], r)
        BY <2>6, <3>1
    <3>3. new = {}
        BY <2>4, <3>1, <3>2
    <3>4. ASSUME \A j \in 1 .. k : ~Creates(f[j], r) PROVE Left(f, k)[r] = 0
      <4>1. ~Creates(f[k], r)
          BY <2>1, <3>4
      <4> QED BY <2>6, <3>1, <3>2, <4>1
    <3>5. ASSUME NEW c \in 1 .. k, Creates(f[c], r)
          PROVE  Left(f, k)[r] = f[c].shares - Sum(w, {}) /\ Left(f, k)[r] >= 0
      <4>1. c = k
          BY <2>1, <2>7, <3>5
      <4>2. Left(f, k)[r] = f[c].shares /\ Left(f, k)[r] \in Nat
          BY <2>6, <3>5, <4>1
      <4> QED BY <4>2, SumEmpty
    <3>6. Balance(f, r, k)
        BY <3>3, <3>4, <3>5 DEF Balance, new, w
    <3> QED BY <3>6 DEF k
  <2>8. ASSUME NEW c \in 1 .. i, Creates(f[c], r) PROVE Balance(f, r, k)
    <3>1. /\ \A j \in old : c < j
          /\ Left(f, i)[r] = f[c].shares - Sum(w, old) /\ Left(f, i)[r] >= 0
        BY <2>2, <2>8 DEF Balance, old, w
    <3>2. c \in DOMAIN f /\ c < k /\ c \in 1 .. k /\ c \in Nat
        BY <1>0, <2>1
    <3>3. ~Creates(f[k], r)
        BY <2>1, <2>8, <3>2, CreatedOnce
    <3>4. ASSUME NEW d \in 1 .. k, Creates(f[d], r) PROVE d = c
      <4>1. d \in DOMAIN f
          BY <1>0, <2>1
      <4> QED BY <2>8, <3>2, <3>4, <4>1, CreatedOnce
    <3>5. f[c].shares \in Int
        BY <2>8, <3>2, LeftStep
    <3>6. /\ \A j \in new : c < j
          /\ Left(f, k)[r] = f[c].shares - Sum(w, new) /\ Left(f, k)[r] >= 0
      <4>1. CASE Takes(f[k], r)
        <5>1. Sum(w, new) = Sum(w, old) + w[k]
            BY <2>3, <2>4, <2>5, <2>6, <4>1, SumAdd
        <5> QED BY <2>3, <2>4, <2>6, <3>1, <3>2, <3>3, <3>5, <4>1, <5>1, SMTT(40)
      <4>2. CASE ~Takes(f[k], r)
          BY <2>4, <2>6, <3>1, <3>3, <4>2
      <4> QED BY <4>1, <4>2
    <3> QED BY <2>8, <3>2, <3>4, <3>6 DEF Balance, new, w
  <2> QED BY <2>7, <2>8 DEF k
<1> HIDE DEF M
<1>3. n \in M
    BY <1>0, <1>1, <1>2, NatSetInduction
<1> QED BY <1>0, <1>3 DEF M

\* All that take shares of an order come after what creates it, and together they
\* take no more than there is.
LEMMA Takings ==
  ASSUME NEW f \in Feeds, NEW r \in Ref, NEW c \in DOMAIN f, Creates(f[c], r)
  PROVE  LET all == TakenBy(f, r, Len(f))
         IN  /\ f[c].shares \in Nat \ {0}
             /\ \A k \in DOMAIN f : Takes(f[k], r) => k \in all /\ c < k
             /\ Sum(Weight(f), all) <= f[c].shares
<1> DEFINE all == TakenBy(f, r, Len(f))
<1>1. Len(f) \in Nat /\ DOMAIN f = 1 .. Len(f) /\ f[c] \in Message
    BY FeedTyped
<1>2. f[c].shares \in Nat \ {0}
    BY <1>1, MessageTyped DEF Creates
<1>3. Balance(f, r, Len(f))
    BY <1>1, Balanced
<1>4. /\ \A k \in all : c < k
      /\ Left(f, Len(f))[r] = f[c].shares - Sum(Weight(f), all)
      /\ Left(f, Len(f))[r] >= 0
    BY <1>1, <1>3 DEF Balance
<1>5. \A k \in DOMAIN f : Takes(f[k], r) => k \in all
    BY <1>1 DEF TakenBy
<1>6. Sum(Weight(f), all) \in Nat
    BY <1>1, TakenFacts
<1> QED BY <1>2, <1>4, <1>5, <1>6

\* Nothing is taken of an order that was not created before.
LEMMA TakenOfSome ==
  ASSUME NEW f \in Feeds, NEW r \in Ref, NEW k \in DOMAIN f, Takes(f[k], r)
  PROVE  \E c \in 1 .. k - 1 : c \in DOMAIN f /\ Creates(f[c], r)
<1>1. Len(f) \in Nat /\ DOMAIN f = 1 .. Len(f) /\ k \in 1 .. Len(f)
    BY FeedTyped
<1>2. k - 1 \in 0 .. Len(f)
    BY <1>1
<1>3. Left(f, k - 1)[r] > 0
    BY LeftStep
<1>4. \E c \in 1 .. k - 1 : Creates(f[c], r)
    BY <1>2, <1>3, Balanced DEF Balance
<1> QED BY <1>1, <1>4

\* What a deletion or a replacement ends stays ended.
LEMMA EndsAll ==
  ASSUME NEW f \in Feeds, NEW r \in Ref, NEW e \in DOMAIN f, Takes(f[e], r), Ends(f[e])
  PROVE  /\ \A n \in e .. Len(f) : Left(f, n)[r] = 0
         /\ \A k \in DOMAIN f : Takes(f[k], r) => k <= e
<1>1. Len(f) \in Nat /\ DOMAIN f = 1 .. Len(f) /\ e \in 1 .. Len(f)
    BY FeedTyped
<1>2. PICK c \in 1 .. e - 1 : c \in DOMAIN f /\ Creates(f[c], r)
    BY TakenOfSome
<1>3. ~Creates(f[e], r)
    BY <1>1, <1>2, CreatedOnce
<1>4. Left(f, e)[r] = 0
    BY <1>3, LeftStep
<1>5. ASSUME NEW n \in e .. Len(f)
      PROVE  /\ n \in 0 .. Len(f) /\ c \in 1 .. n
             /\ TakenBy(f, r, e) \subseteq TakenBy(f, r, n)
    BY <1>1, <1>2 DEF TakenBy
<1>6. ASSUME NEW n \in e .. Len(f)
      PROVE  /\ Left(f, n)[r] = f[c].shares - Sum(Weight(f), TakenBy(f, r, n))
             /\ Left(f, n)[r] >= 0
    BY <1>2, <1>5, Balanced DEF Balance
<1>7. e \in e .. Len(f) /\ f[c].shares \in Nat
    BY <1>1, <1>2, Takings
<1>8. ASSUME NEW n \in e .. Len(f) PROVE Left(f, n)[r] = 0
  <2> DEFINE before == Sum(Weight(f), TakenBy(f, r, e))
             after == Sum(Weight(f), TakenBy(f, r, n))
  <2>1. before \in Nat /\ after \in Nat /\ before <= after
    <3>1. \A k \in TakenBy(f, r, n) : Weight(f)[k] \in Nat
        BY <1>5, TakenFacts
    <3> QED BY <1>5, <3>1, TakenFacts, SumOfPart
  <2> HIDE DEF before, after
  <2>2. f[c].shares - before = 0
      BY <1>4, <1>6, <1>7 DEF before
  <2>3. Left(f, n)[r] = f[c].shares - after /\ Left(f, n)[r] >= 0
      BY <1>6 DEF after
  <2> QED BY <1>7, <2>1, <2>2, <2>3
<1>9. ASSUME NEW k \in DOMAIN f, Takes(f[k], r), e < k PROVE FALSE
  <2>1. k - 1 \in e .. Len(f)
      BY <1>1, <1>9
  <2>2. Left(f, k - 1)[r] > 0
      BY <1>9, LeftStep
  <2> QED BY <1>8, <2>1, <2>2
<1> QED BY <1>1, <1>8, <1>9

-----------------------------------------------------------------------------
(* What has been dispatched, in order. *)

\* One more message comes after all that came.
LEMMA Appended ==
  ASSUME NEW s \in Seq(Nat), NEW k \in Nat
  PROVE  /\ Append(s, k) \in Seq(Nat)
         /\ Range(Append(s, k)) = Range(s) \cup {k}
         /\ \A i, j : Before(Append(s, k), i, j) <=>
                        Before(s, i, j) \/ (j = k /\ i \in Range(s))
<1> DEFINE n == Len(s)
           t == Append(s, k)
<1>1. n \in Nat /\ DOMAIN s = 1 .. n /\ t \in Seq(Nat) /\ DOMAIN t = 1 .. n + 1
      /\ t[n + 1] = k /\ \A a \in 1 .. n : t[a] = s[a]
    OBVIOUS
<1> HIDE DEF n, t
<1>2. \A a \in 1 .. n + 1 : a \in 1 .. n \/ a = n + 1
    BY <1>1
<1>3. 1 .. n \subseteq 1 .. n + 1 /\ n + 1 \in 1 .. n + 1 /\ \A a \in 1 .. n : a < n + 1
    BY <1>1
<1>4. Range(t) = Range(s) \cup {k}
    BY <1>1, <1>2, <1>3 DEF Range
<1>5. ASSUME NEW i, NEW j, Before(t, i, j)
      PROVE  Before(s, i, j) \/ (j = k /\ i \in Range(s))
  <2>1. PICK a, b \in 1 .. n + 1 : a < b /\ t[a] = i /\ t[b] = j
      BY <1>1, <1>5 DEF Before
  <2>2. a \in 1 .. n
      BY <1>1, <2>1
  <2>3. CASE b \in 1 .. n
      BY <1>1, <2>1, <2>2, <2>3 DEF Before
  <2>4. CASE b = n + 1
      BY <1>1, <2>1, <2>2, <2>4 DEF Range
  <2> QED BY <1>2, <2>3, <2>4
<1>6. ASSUME NEW i, NEW j, Before(s, i, j) PROVE Before(t, i, j)
    BY <1>1, <1>3, <1>6 DEF Before
<1>7. ASSUME NEW i, i \in Range(s) PROVE Before(t, i, k)
  <2>1. PICK a \in 1 .. n : s[a] = i
      BY <1>1, <1>7 DEF Range
  <2> QED BY <1>1, <1>3, <2>1 DEF Before
<1> QED BY <1>1, <1>4, <1>5, <1>6, <1>7 DEF t

\* What comes before or after something has come.
LEMMA BeforeIn ==
  ASSUME NEW s, NEW i, NEW j, Before(s, i, j)
  PROVE  i \in Range(s) /\ j \in Range(s)
BY DEF Before, Range

\* Message j of s found what it needs, if g tells of those before it.
Found(g, f, s, j) ==
  \/ f[j].type = "A" /\ j \in Range(s)
  \/ f[j].type = "U" /\ \E i \in 1 .. j - 1 :
       Creates(f[i], f[j].ref) /\ g[i] /\ Before(s, i, j)

Effects(g, f, s, n) == g = [j \in 1 .. n |-> Found(g, f, s, j)]

\* Whether a message has an effect depends on those before it.
LEMMA EffectIs ==
  ASSUME NEW f \in Feeds, NEW s, NEW k \in DOMAIN f
  PROVE  InEffect(f, s, k) <=>
           \/ f[k].type = "A" /\ k \in Range(s)
           \/ f[k].type = "U" /\ \E i \in 1 .. k - 1 :
                Creates(f[i], f[k].ref) /\ InEffect(f, s, i) /\ Before(s, i, k)
<1> DEFINE N == {n \in Nat : \E g : Effects(g, f, s, n)}
           eff == CHOOSE g : Effects(g, f, s, Len(f))
<1>0. Len(f) \in Nat /\ DOMAIN f = 1 .. Len(f)
    BY FeedTyped
<1>1. 0 \in N
  <2> DEFINE none == [j \in 1 .. 0 |-> TRUE]
  <2>1. Effects(none, f, s, 0)
      BY DEF Effects
  <2> QED BY <2>1
<1>2. ASSUME NEW n \in Nat, n \in N PROVE n + 1 \in N
  <2>1. PICK g : Effects(g, f, s, n)
      BY <1>2
  <2> DEFINE h == [j \in 1 .. n + 1 |-> Found(g, f, s, j)]
  <2>2. ASSUME NEW j \in 1 .. n PROVE g[j] = Found(g, f, s, j)
      BY <2>1 DEF Effects
  <2>3. ASSUME NEW j \in 1 .. n PROVE h[j] = g[j]
      BY <2>2
  <2>4. ASSUME NEW j \in 1 .. n + 1 PROVE Found(h, f, s, j) = Found(g, f, s, j)
    <3> HIDE DEF h
    <3>1. \A i \in 1 .. j - 1 : h[i] = g[i]
        BY <2>3
    <3>2. (\E i \in 1 .. j - 1 : Creates(f[i], f[j].ref) /\ h[i] /\ Before(s, i, j)) =
          (\E i \in 1 .. j - 1 : Creates(f[i], f[j].ref) /\ g[i] /\ Before(s, i, j))
        BY <3>1, Zenon
    <3> QED BY <3>2, Zenon DEF Found
  <2>5. h = [j \in 1 .. n + 1 |-> Found(h, f, s, j)]
      BY <2>4
  <2>6. Effects(h, f, s, n + 1)
      BY <2>5 DEF Effects
  <2> QED BY <2>6
<1> HIDE DEF N
<1>3. Len(f) \in N
    BY <1>0, <1>1, <1>2, NatSetInduction
<1>4. Effects(eff, f, s, Len(f))
    BY <1>3 DEF N
<1>5. \A j : InEffect(f, s, j) = eff[j]
    BY <1>0 DEF InEffect, Effects, Found
<1> HIDE DEF eff
<1>6. \A j \in 1 .. Len(f) : eff[j] = Found(eff, f, s, j)
    BY <1>4 DEF Effects
<1>7. InEffect(f, s, k) = Found(eff, f, s, k)
    BY <1>0, <1>5, <1>6
<1> QED BY <1>5, <1>7 DEF Found

\* What has an effect has come.
LEMMA EffectIn ==
  ASSUME NEW f \in Feeds, NEW s, NEW k \in DOMAIN f, InEffect(f, s, k)
  PROVE  k \in Range(s)
BY EffectIs, BeforeIn

\* What comes later changes nothing in the effect of what came.
LEMMA EffectKept ==
  ASSUME NEW f \in Feeds, NEW s \in Seq(Nat), NEW k \in DOMAIN f, k \notin Range(s),
         NEW j \in DOMAIN f, j # k
  PROVE  InEffect(f, Append(s, k), j) <=> InEffect(f, s, j)
<1> DEFINE t == Append(s, k)
           Same(i) == InEffect(f, t, i) <=> InEffect(f, s, i)
           N == {n \in Nat : \A i \in DOMAIN f : i <= n /\ i # k => Same(i)}
<1>0. Len(f) \in Nat /\ DOMAIN f = 1 .. Len(f) /\ k \in Nat
    BY FeedTyped
<1>1. /\ Range(t) = Range(s) \cup {k}
      /\ \A i, l : Before(t, i, l) <=> Before(s, i, l) \/ (l = k /\ i \in Range(s))
    BY <1>0, Appended
<1>2. \A i, l : Before(s, i, l) => i # k /\ l # k
    BY BeforeIn
<1> HIDE DEF t
<1>3. 0 \in N
    BY <1>0
<1>4. ASSUME NEW n \in Nat, n \in N PROVE n + 1 \in N
  <2> SUFFICES ASSUME NEW i \in DOMAIN f, i = n + 1, i # k PROVE Same(i)
      BY <1>0, <1>4
  <2>1. i \in Range(t) <=> i \in Range(s)
      BY <1>1
  <2>2. ASSUME NEW l \in 1 .. i - 1
        PROVE  InEffect(f, t, l) /\ Before(t, l, i) <=> InEffect(f, s, l) /\ Before(s, l, i)
    <3>1. l \in DOMAIN f /\ l <= n
        BY <1>0
    <3>2. CASE l = k
        BY <1>1, <1>2, <3>2
    <3>3. CASE l # k
      <4>1. InEffect(f, t, l) <=> InEffect(f, s, l)
          BY <1>4, <3>1, <3>3
      <4>2. Before(t, l, i) <=> Before(s, l, i)
          BY <1>1
      <4> QED BY <4>1, <4>2
    <3> QED BY <3>2, <3>3
  <2>3. InEffect(f, t, i) <=>
          \/ f[i].type = "A" /\ i \in Range(t)
          \/ f[i].type = "U" /\ \E l \in 1 .. i - 1 :
               Creates(f[l], f[i].ref) /\ InEffect(f, t, l) /\ Before(t, l, i)
      BY EffectIs
  <2>4. InEffect(f, s, i) <=>
          \/ f[i].type = "A" /\ i \in Range(s)
          \/ f[i].type = "U" /\ \E l \in 1 .. i - 1 :
               Creates(f[l], f[i].ref) /\ InEffect(f, s, l) /\ Before(s, l, i)
      BY EffectIs
  <2> QED BY <2>1, <2>2, <2>3, <2>4
<1> HIDE DEF N, Same
<1>5. j \in Nat /\ j \in N
    BY <1>0, <1>3, <1>4, NatSetInduction
<1>6. Same(j)
    BY <1>5 DEF N
<1> QED BY <1>6 DEF Same, t

-----------------------------------------------------------------------------
(* What a book that was given the messages s of f holds. *)

\* The message that created r, if it had an effect, and what took of r since.
Born(f, s, r) == {c \in DOMAIN f : Creates(f[c], r) /\ InEffect(f, s, c)}

Since(f, s, r, c) == {k \in DOMAIN f : Takes(f[k], r) /\ Before(s, c, k)}

\* Shares of the order created by message c, without what the messages T took.
LeftOf(f, c, T) == IF \E k \in T : Ends(f[k]) THEN 0 ELSE f[c].shares - Sum(Weight(f), T)

Amount(f, s, r) == IF Born(f, s, r) = {} THEN 0
                   ELSE LET c == CHOOSE c \in Born(f, s, r) : TRUE
                        IN  LeftOf(f, c, Since(f, s, r, c))

\* The creation of an order is one message.
LEMMA AmountIs ==
  ASSUME NEW f \in Feeds, NEW s, NEW r \in Ref, NEW c \in Born(f, s, r)
  PROVE  /\ Amount(f, s, r) = LeftOf(f, c, Since(f, s, r, c))
         /\ c \in DOMAIN f /\ Creates(f[c], r) /\ InEffect(f, s, c) /\ c \in Range(s)
<1>1. \A d \in Born(f, s, r) : d = c
    BY CreatedOnce DEF Born
<1>2. (CHOOSE d \in Born(f, s, r) : TRUE) = c
    BY <1>1
<1>3. Born(f, s, r) # {}
    OBVIOUS
<1>4. Amount(f, s, r) = LeftOf(f, c, Since(f, s, r, c))
    BY <1>2, <1>3 DEF Amount
<1> QED BY <1>4, EffectIn DEF Born

\* As long as a message that takes some has not come, that much is there.
LEMMA MoreLeft ==
  ASSUME NEW f \in Feeds, NEW r \in Ref, NEW c \in DOMAIN f, Creates(f[c], r),
         NEW T, T \subseteq {k \in DOMAIN f : Takes(f[k], r)}
  PROVE  /\ IsFiniteSet(T) /\ T \subseteq TakenBy(f, r, Len(f))
         /\ Sum(Weight(f), T) \in Nat /\ Sum(Weight(f), T) <= f[c].shares
         /\ LeftOf(f, c, T) \in Nat
         /\ \A k \in DOMAIN f \ T : Takes(f[k], r) =>
              /\ Weight(f)[k] \in Nat \ {0}
              /\ Sum(Weight(f), T \cup {k}) = Sum(Weight(f), T) + Weight(f)[k]
              /\ Sum(Weight(f), T) + Weight(f)[k] <= f[c].shares
<1> DEFINE all == TakenBy(f, r, Len(f))
           w == Weight(f)
<1>1. Len(f) \in Nat /\ Len(f) \in 0 .. Len(f) /\ DOMAIN f = 1 .. Len(f)
    BY FeedTyped
<1>2. /\ IsFiniteSet(all) /\ \A k \in all : w[k] \in Nat \ {0}
      /\ Sum(w, all) \in Nat
    BY <1>1, TakenFacts
<1>3. /\ f[c].shares \in Nat /\ Sum(w, all) <= f[c].shares
      /\ \A k \in DOMAIN f : Takes(f[k], r) => k \in all
    BY Takings
<1> HIDE DEF all, w
<1>4. ASSUME NEW U, U \subseteq all
      PROVE  IsFiniteSet(U) /\ Sum(w, U) \in Nat /\ Sum(w, U) <= f[c].shares
  <2>1. /\ IsFiniteSet(all) /\ \A x \in all : w[x] \in Nat
        /\ U \in SUBSET all
      BY <1>2, <1>4
  <2>2. /\ IsFiniteSet(U) /\ Sum(w, U) \in Nat /\ Sum(w, all) \in Nat
        /\ Sum(w, U) <= Sum(w, all)
      BY <2>1, SumOfPart, Zenon
  <2> QED BY <1>3, <2>2
<1>5. T \subseteq all
    BY <1>3
<1>6. ASSUME NEW k \in DOMAIN f \ T, Takes(f[k], r)
      PROVE  /\ w[k] \in Nat \ {0} /\ Sum(w, T \cup {k}) = Sum(w, T) + w[k]
             /\ Sum(w, T) + w[k] <= f[c].shares
  <2>1. k \in all /\ T \cup {k} \subseteq all
      BY <1>3, <1>5, <1>6
  <2>2. Sum(w, T \cup {k}) = Sum(w, T) + w[k]
      BY <1>2, <1>4, <1>5, <2>1, SumAdd
  <2>3. Sum(w, T \cup {k}) <= f[c].shares
      BY <1>4, <2>1
  <2> QED BY <1>2, <2>1, <2>2, <2>3
<1>7. LeftOf(f, c, T) \in Nat
    BY <1>3, <1>4, <1>5 DEF LeftOf, w
<1> QED BY <1>4, <1>5, <1>6, <1>7 DEF all, w

\* What a book holds of an order is a number.
LEMMA AmountType ==
  ASSUME NEW f \in Feeds, NEW s, NEW r \in Ref
  PROVE  Amount(f, s, r) \in Nat
<1>1. CASE Born(f, s, r) = {}
    BY <1>1 DEF Amount
<1>2. ASSUME NEW c \in Born(f, s, r) PROVE Amount(f, s, r) \in Nat
  <2> DEFINE T == Since(f, s, r, c)
  <2>1. Amount(f, s, r) = LeftOf(f, c, T) /\ c \in DOMAIN f /\ Creates(f[c], r)
      BY AmountIs
  <2>2. T \subseteq {k \in DOMAIN f : Takes(f[k], r)}
      BY DEF Since
  <2> HIDE DEF T
  <2>3. LeftOf(f, c, T) \in Nat
      BY <2>1, <2>2, MoreLeft
  <2> QED BY <2>1, <2>3
<1> QED BY <1>1, <1>2

\* A message about another order, or none, changes nothing in an order.
LEMMA AmountSame ==
  ASSUME NEW f \in Feeds, NEW s \in Seq(Nat), NEW k \in DOMAIN f, k \notin Range(s),
         NEW r \in Ref, ~Creates(f[k], r), ~Takes(f[k], r)
  PROVE  Amount(f, Append(s, k), r) = Amount(f, s, r)
<1> DEFINE t == Append(s, k)
<1>0. k \in Nat
    BY FeedTyped
<1>1. \A i, j : Before(t, i, j) <=> Before(s, i, j) \/ (j = k /\ i \in Range(s))
    BY <1>0, Appended
<1>2. Born(f, t, r) = Born(f, s, r)
    BY EffectKept DEF Born
<1>3. \A c : Since(f, t, r, c) = Since(f, s, r, c)
    BY <1>1 DEF Since
<1> HIDE DEF t
<1> QED BY <1>2, <1>3 DEF Amount, t

\* A message that takes shares of an order: all of them, or some if it is there.
LEMMA AmountTaken ==
  ASSUME NEW f \in Feeds, NEW s \in Seq(Nat), NEW k \in DOMAIN f, k \notin Range(s),
         NEW r \in Ref, Takes(f[k], r)
  PROVE  LET old == Amount(f, s, r)
             new == Amount(f, Append(s, k), r)
         IN  /\ Ends(f[k]) => new = 0
             /\ ~Ends(f[k]) => \/ old = 0 /\ new = 0
                               \/ old >= f[k].shares /\ new = old - f[k].shares
<1> DEFINE t == Append(s, k)
           w == Weight(f)
<1>0. k \in Nat
    BY FeedTyped
<1>1. \A i, j : Before(t, i, j) <=> Before(s, i, j) \/ (j = k /\ i \in Range(s))
    BY <1>0, Appended
<1>2. \A i : ~Before(s, i, k)
    BY BeforeIn
<1>3. ~Creates(f[k], r)
  <2>1. PICK c \in 1 .. k - 1 : c \in DOMAIN f /\ Creates(f[c], r)
      BY TakenOfSome
  <2>2. c # k
      BY <1>0
  <2> QED BY <2>1, <2>2, CreatedOnce
<1>4. Born(f, t, r) = Born(f, s, r)
    BY <1>3, EffectKept DEF Born
<1>5. CASE Born(f, s, r) = {}
    BY <1>4, <1>5 DEF Amount
<1>6. ASSUME NEW c \in Born(f, s, r)
      PROVE  LET old == Amount(f, s, r)
                 new == Amount(f, t, r)
             IN  /\ Ends(f[k]) => new = 0
                 /\ ~Ends(f[k]) => \/ old = 0 /\ new = 0
                                   \/ old >= f[k].shares /\ new = old - f[k].shares
  <2> DEFINE T == Since(f, s, r, c)
  <2>1. c \in DOMAIN f /\ Creates(f[c], r) /\ c \in Range(s)
        /\ Amount(f, s, r) = LeftOf(f, c, T)
      BY AmountIs
  <2>2. c \in Born(f, t, r) /\ Amount(f, t, r) = LeftOf(f, c, Since(f, t, r, c))
      BY <1>4, AmountIs
  <2>3. Since(f, t, r, c) = T \cup {k} /\ k \notin T
      BY <1>1, <1>2, <2>1 DEF Since
  <2>4. /\ Sum(w, T) \in Nat /\ w[k] \in Nat \ {0}
        /\ Sum(w, T \cup {k}) = Sum(w, T) + w[k]
        /\ Sum(w, T) + w[k] <= f[c].shares
    <3>1. T \subseteq {j \in DOMAIN f : Takes(f[j], r)} /\ k \in DOMAIN f \ T
        BY <2>3 DEF Since
    <3> HIDE DEF T
    <3> QED BY <2>1, <3>1, MoreLeft
  <2>5. f[c].shares \in Nat
      BY <2>1, Takings
  <2>6. ~Ends(f[k]) => w[k] = f[k].shares
      BY DEF Ends, Takes, Weight
  <2> HIDE DEF T, w, t
  <2>7. CASE Ends(f[k])
      BY <2>2, <2>3, <2>7 DEF LeftOf
  <2>8. CASE ~Ends(f[k]) /\ \E j \in T : Ends(f[j])
      BY <2>1, <2>2, <2>3, <2>8 DEF LeftOf
  <2>9. CASE ~Ends(f[k]) /\ ~\E j \in T : Ends(f[j])
    <3>1. Amount(f, s, r) = f[c].shares - Sum(w, T)
        BY <2>1, <2>9 DEF LeftOf, w
    <3>2. Amount(f, t, r) = f[c].shares - (Sum(w, T) + w[k])
        BY <2>2, <2>3, <2>4, <2>9 DEF LeftOf, w
    <3> QED BY <2>4, <2>5, <2>6, <2>9, <3>1, <3>2
  <2> QED BY <2>7, <2>8, <2>9
<1> HIDE DEF t
<1> QED BY <1>5, <1>6 DEF t

\* An order that a message is to end is there if what created it had an effect.
LEMMA AmountThere ==
  ASSUME NEW f \in Feeds, NEW s, NEW k \in DOMAIN f, k \notin Range(s),
         NEW r \in Ref, Takes(f[k], r), Ends(f[k])
  PROVE  Amount(f, s, r) > 0 <=> Born(f, s, r) # {}
<1>1. CASE Born(f, s, r) = {}
    BY <1>1 DEF Amount
<1>2. ASSUME NEW c \in Born(f, s, r) PROVE Amount(f, s, r) > 0
  <2> DEFINE T == Since(f, s, r, c)
             w == Weight(f)
  <2>1. /\ c \in DOMAIN f /\ Creates(f[c], r) /\ Amount(f, s, r) = LeftOf(f, c, T)
      BY AmountIs
  <2>2. T \subseteq {j \in DOMAIN f : Takes(f[j], r)} /\ k \in DOMAIN f \ T
      BY BeforeIn DEF Since
  <2>3. ~\E j \in T : Ends(f[j])
    <3> SUFFICES ASSUME NEW j \in T, Ends(f[j]) PROVE FALSE
        OBVIOUS
    <3>1. j \in DOMAIN f /\ Takes(f[j], r) /\ j # k
        BY <2>2
    <3>2. j <= k /\ k <= j /\ j \in Nat /\ k \in Nat
        BY <3>1, EndsAll, FeedTyped
    <3> QED BY <3>1, <3>2
  <2> HIDE DEF T
  <2>4. /\ Sum(w, T) \in Nat /\ w[k] \in Nat \ {0}
        /\ Sum(w, T) + w[k] <= f[c].shares
      BY <2>1, <2>2, MoreLeft
  <2>5. f[c].shares \in Nat
      BY <2>1, Takings
  <2>6. Amount(f, s, r) = f[c].shares - Sum(w, T)
      BY <2>1, <2>3 DEF LeftOf
  <2> HIDE DEF w
  <2> QED BY <2>4, <2>5, <2>6
<1> QED BY <1>1, <1>2

\* An order that comes: an add always, a replacement if its original is there.
LEMMA AmountNew ==
  ASSUME NEW f \in Feeds, NEW s \in Seq(Nat), NEW k \in DOMAIN f, k \notin Range(s),
         NEW r \in Ref, Creates(f[k], r)
  PROVE  /\ Amount(f, s, r) = 0
         /\ f[k].type = "A" => Amount(f, Append(s, k), r) = f[k].shares
         /\ f[k].type = "U" => Amount(f, Append(s, k), r) =
                                 IF Amount(f, s, f[k].ref) > 0 THEN f[k].shares ELSE 0
<1> DEFINE t == Append(s, k)
           m == f[k]
<1>0. k \in Nat /\ m \in Message
    BY FeedTyped
<1>1. /\ Range(t) = Range(s) \cup {k}
      /\ \A i, j : Before(t, i, j) <=> Before(s, i, j) \/ (j = k /\ i \in Range(s))
    BY <1>0, Appended
<1>2. \A i : ~Before(s, i, k) /\ ~Before(s, k, i)
    BY BeforeIn
<1>3. \A c \in DOMAIN f : Creates(f[c], r) => c = k
    BY CreatedOnce
<1>4. ~InEffect(f, s, k)
    BY EffectIn
<1>5. Amount(f, s, r) = 0
    BY <1>3, <1>4 DEF Amount, Born
<1>6. Since(f, t, r, k) = {}
    BY <1>1, <1>2 DEF Since
<1>7. LeftOf(f, k, {}) = m.shares
  <2>1. m.shares \in Nat
      BY Takings
  <2> QED BY <2>1, SumEmpty DEF LeftOf
<1>8. InEffect(f, t, k) => Amount(f, t, r) = m.shares
  <2> SUFFICES ASSUME InEffect(f, t, k) PROVE Amount(f, t, r) = m.shares
      OBVIOUS
  <2>1. k \in Born(f, t, r)
      BY DEF Born
  <2> HIDE DEF t
  <2>2. /\ Amount(f, t, r) = LeftOf(f, k, Since(f, t, r, k))
        /\ k \in DOMAIN f /\ Creates(f[k], r) /\ InEffect(f, t, k) /\ k \in Range(t)
      BY <2>1, AmountIs
  <2> QED BY <1>6, <1>7, <2>2
<1>9. ~InEffect(f, t, k) => Amount(f, t, r) = 0
    BY <1>3 DEF Amount, Born
<1>10. InEffect(f, t, k) <=>
           \/ m.type = "A" /\ k \in Range(t)
           \/ m.type = "U" /\ \E i \in 1 .. k - 1 :
                Creates(f[i], m.ref) /\ InEffect(f, t, i) /\ Before(t, i, k)
    BY EffectIs
<1>11. CASE m.type = "A"
    BY <1>1, <1>5, <1>8, <1>10, <1>11
<1>12. CASE m.type = "U"
  <2>1. m.ref \in Ref /\ Takes(m, m.ref) /\ Ends(m)
      BY <1>0, <1>12, MessageTyped DEF Takes, Ends
  <2>2. Amount(f, s, m.ref) > 0 <=> Born(f, s, m.ref) # {}
      BY <2>1, AmountThere
  <2>3. ASSUME NEW i \in Born(f, s, m.ref)
        PROVE  i \in 1 .. k - 1 /\ Creates(f[i], m.ref) /\ InEffect(f, t, i) /\ Before(t, i, k)
    <3>1. i \in DOMAIN f /\ Creates(f[i], m.ref) /\ InEffect(f, s, i) /\ i \in Range(s)
        BY <2>1, AmountIs
    <3>2. i # k
        BY <3>1
    <3>3. InEffect(f, t, i) /\ Before(t, i, k)
        BY <1>1, <3>1, <3>2, EffectKept
    <3>4. i \in Nat /\ i >= 1 /\ i < k
        BY <2>1, <3>1, FeedTyped, Takings
    <3> QED BY <1>0, <3>1, <3>3, <3>4
  <2>4. ASSUME NEW i \in 1 .. k - 1, Creates(f[i], m.ref), InEffect(f, t, i)
        PROVE  i \in Born(f, s, m.ref)
    <3>1. i \in DOMAIN f /\ i # k
        BY <1>0, FeedTyped
    <3>2. InEffect(f, s, i)
        BY <2>4, <3>1, EffectKept
    <3> QED BY <2>4, <3>1, <3>2 DEF Born
  <2>5. InEffect(f, t, k) <=> Born(f, s, m.ref) # {}
      BY <1>10, <1>12, <2>3, <2>4
  <2> QED BY <1>5, <1>8, <1>9, <1>12, <2>2, <2>5
<1>13. m.type \in {"A", "U"}
    BY DEF Creates
<1> QED BY <1>5, <1>11, <1>12, <1>13

-----------------------------------------------------------------------------
(* What the loop over the messages does to v1's and v2's books. *)

\* r is live with n shares, or not at all.
Holding(lv, index, r, n) == IF n = 0 THEN r \notin DOMAIN index ELSE HasLive(lv, index, r, n)

\* A book that was given the messages s of f.
Holds(f, s, lv, index) ==
  /\ V1Inv(lv, index)
  /\ \A r \in Ref : Holding(lv, index, r, Amount(f, s, r))

\* The switch of v1, on values of levels_ and ref_index_ before and after.
Does(lv, index, lv2, index2, m) ==
  LET left == (V1!SharesOf(lv, index, m.ref) - m.shares) % UintMod
      Stays == lv2 = lv /\ index2 = index
      Goes == lv2 = V1!RemoveLocator(lv, index, m.ref) /\ index2 = V1!Unindexed(index, m.ref)
      side == index[m.ref].side
  IN  \/ /\ m.type = "A"
         /\ lv2 = V1!PushBack(lv, m.ref, m.side, m.price, m.shares)
         /\ index2 = V1!Indexed(index, m.ref, m.side, m.price)
      \/ /\ m.type \in {"E", "X"}
         /\ \/ m.ref \notin DOMAIN index /\ Stays
            \/ m.ref \in DOMAIN index /\ left = 0 /\ Goes
            \/ /\ m.ref \in DOMAIN index /\ left # 0
               /\ lv2 = V1!SetShares(lv, index, m.ref, left) /\ index2 = index
      \/ /\ m.type = "D"
         /\ \/ m.ref \notin DOMAIN index /\ Stays
            \/ m.ref \in DOMAIN index /\ Goes
      \/ /\ m.type = "U"
         /\ \/ m.ref \notin DOMAIN index /\ Stays
            \/ /\ m.ref \in DOMAIN index
               /\ lv2 = V1!PushBack(V1!RemoveLocator(lv, index, m.ref), m.new, side,
                                    m.price, m.shares)
               /\ index2 = V1!Indexed(V1!Unindexed(index, m.ref), m.new, side, m.price)
      \/ m.type \notin {"A", "E", "X", "D", "U"} /\ Stays

\* Orders that a step leaves alone are still held.
LEMMA OthersHold ==
  ASSUME NEW lv, NEW index, NEW lv2, NEW index2, NEW r,
         Others(lv, index, lv2, index2, r), DOMAIN index2 \subseteq DOMAIN index \cup {r},
         NEW x, x # r, NEW n, Holding(lv, index, x, n)
  PROVE  Holding(lv2, index2, x, n)
<1>1. CASE n = 0
    BY <1>1 DEF Holding
<1>2. CASE n # 0
    BY <1>2 DEF Holding, HasLive, Others
<1> QED BY <1>1, <1>2

\* A message that takes of an order creates another, if any.
LEMMA TakesAnother ==
  ASSUME NEW f \in Feeds, NEW r \in Ref, NEW k \in DOMAIN f, Takes(f[k], r)
  PROVE  ~Creates(f[k], r)
<1>1. PICK c \in 1 .. k - 1 : c \in DOMAIN f /\ Creates(f[c], r)
    BY TakenOfSome
<1>2. c # k
    BY FeedTyped
<1> QED BY <1>1, <1>2, CreatedOnce

\* An add.
LEMMA AddHolds ==
  ASSUME NEW f \in Feeds, NEW s \in Seq(Nat), NEW k \in DOMAIN f, k \notin Range(s),
         NEW lv, NEW index, Holds(f, s, lv, index), NEW lv2, NEW index2,
         Does(lv, index, lv2, index2, f[k]), f[k].type = "A"
  PROVE  Holds(f, Append(s, k), lv2, index2)
<1> DEFINE m == f[k]
           r == m.ref
<1>1. /\ r \in Ref /\ m.side \in Side /\ m.price \in Price
      /\ m.shares \in Uint /\ m.shares \in Nat \ {0}
    BY FeedTyped, MessageTyped
<1>2. /\ lv2 = V1!PushBack(lv, r, m.side, m.price, m.shares)
      /\ index2 = V1!Indexed(index, r, m.side, m.price)
    BY DEF Does
<1>3. Creates(m, r) /\ \A x \in Ref : x # r => ~Creates(m, x) /\ ~Takes(m, x)
    BY DEF Creates, Takes
<1>4. Amount(f, s, r) = 0 /\ Amount(f, Append(s, k), r) = m.shares
    BY <1>1, <1>3, AmountNew
<1>5. V1Inv(lv, index) /\ r \notin DOMAIN index
    BY <1>1, <1>4 DEF Holds, Holding
<1> HIDE DEF m, r
<1>6. V1Inv(lv2, index2)
    BY <1>1, <1>2, <1>5, PushKeeps
<1> DEFINE side == m.side
           price == m.price
           n == m.shares
<1>7. /\ DOMAIN index2 = DOMAIN index \cup {r}
      /\ HasLive(lv2, index2, r, n) /\ Others(lv, index, lv2, index2, r)
  <2>1. side \in Side /\ price \in Price /\ n \in Uint
      BY <1>1
  <2>2. lv2 = V1!PushBack(lv, r, side, price, n) /\ index2 = V1!Indexed(index, r, side, price)
      BY <1>2
  <2> HIDE DEF side, price, n
  <2>3. LET lv3 == V1!PushBack(lv, r, side, price, n)
            index3 == V1!Indexed(index, r, side, price)
        IN  /\ DOMAIN index3 = DOMAIN index \cup {r}
            /\ index3[r] = [side |-> side, price |-> price]
            /\ HasLive(lv3, index3, r, n) /\ Others(lv, index, lv3, index3, r)
      BY <1>1, <1>5, <2>1, PushEntries
  <2> QED BY <2>2, <2>3, Zenon
<1>8. ASSUME NEW x \in Ref PROVE Holding(lv2, index2, x, Amount(f, Append(s, k), x))
  <2>1. CASE x = r
      BY <1>1, <1>4, <1>7, <2>1 DEF Holding
  <2>2. CASE x # r
    <3>1. Amount(f, Append(s, k), x) = Amount(f, s, x)
        BY <1>3, <2>2, AmountSame DEF m
    <3>2. Holding(lv, index, x, Amount(f, s, x))
        BY DEF Holds
    <3> QED BY <1>7, <2>2, <3>1, <3>2, OthersHold
  <2> QED BY <2>1, <2>2
<1> QED BY <1>6, <1>8 DEF Holds

\* An order leaves the books.
LEMMA GoneHolds ==
  ASSUME NEW lv, NEW index, V1Inv(lv, index), NEW r \in DOMAIN index, NEW lv2, NEW index2,
         lv2 = V1!RemoveLocator(lv, index, r), index2 = V1!Unindexed(index, r)
  PROVE  /\ V1Inv(lv2, index2) /\ Holding(lv2, index2, r, 0)
         /\ DOMAIN index2 = DOMAIN index \ {r} /\ Others(lv, index, lv2, index2, r)
         /\ \A x, n : x # r /\ Holding(lv, index, x, n) => Holding(lv2, index2, x, n)
<1>1. /\ V1Inv(lv2, index2)
      /\ DOMAIN index2 = DOMAIN index \ {r} /\ Others(lv, index, lv2, index2, r)
    BY RemoveKeeps, RemoveEntries
<1>2. Holding(lv2, index2, r, 0)
    BY <1>1 DEF Holding
<1>3. DOMAIN index2 \subseteq DOMAIN index \cup {r}
    BY <1>1
<1>4. ASSUME NEW x, NEW n, x # r, Holding(lv, index, x, n) PROVE Holding(lv2, index2, x, n)
    BY <1>1, <1>3, <1>4, OthersHold
<1> QED BY <1>1, <1>2, <1>4

\* An execution or a cancel.
LEMMA TakeHolds ==
  ASSUME NEW f \in Feeds, NEW s \in Seq(Nat), NEW k \in DOMAIN f, k \notin Range(s),
         NEW lv, NEW index, Holds(f, s, lv, index), NEW lv2, NEW index2,
         Does(lv, index, lv2, index2, f[k]), f[k].type \in {"E", "X"}
  PROVE  Holds(f, Append(s, k), lv2, index2)
<1> DEFINE m == f[k]
           r == m.ref
           t == Append(s, k)
           old == Amount(f, s, r)
           new == Amount(f, t, r)
           left == (V1!SharesOf(lv, index, r) - m.shares) % UintMod
<1>1. r \in Ref /\ m.shares \in Nat \ {0}
    BY FeedTyped, MessageTyped
<1>2. Takes(m, r) /\ ~Ends(m) /\ \A x \in Ref : x # r => ~Creates(m, x) /\ ~Takes(m, x)
    BY DEF Creates, Takes, Ends
<1>3. (old = 0 /\ new = 0) \/ (old >= m.shares /\ new = old - m.shares)
    BY <1>1, <1>2, AmountTaken
<1>4. old \in Nat
    BY <1>1, AmountType
<1>5. V1Inv(lv, index) /\ \A x \in Ref : Holding(lv, index, x, Amount(f, s, x))
    BY DEF Holds
<1>6. \A x \in Ref : x # r => Amount(f, t, x) = Amount(f, s, x)
    BY <1>2, AmountSame
<1>7. \/ r \notin DOMAIN index /\ lv2 = lv /\ index2 = index
      \/ /\ r \in DOMAIN index /\ left = 0
         /\ lv2 = V1!RemoveLocator(lv, index, r) /\ index2 = V1!Unindexed(index, r)
      \/ /\ r \in DOMAIN index /\ left # 0
         /\ lv2 = V1!SetShares(lv, index, r, left) /\ index2 = index
    BY DEF Does
<1>8. Holding(lv, index, r, old)
    BY <1>1, <1>5
<1> HIDE DEF m, r, t, old, new, left
<1>9. CASE r \notin DOMAIN index
  <2>1. old = 0 /\ new = 0
      BY <1>1, <1>3, <1>4, <1>8, <1>9 DEF Holding, HasLive
  <2>2. \A x \in Ref : Amount(f, t, x) = Amount(f, s, x)
      BY <1>6, <2>1 DEF old, new
  <2>3. lv2 = lv /\ index2 = index
      BY <1>7, <1>9
  <2> QED BY <1>5, <2>2, <2>3 DEF Holds, t
<1>10. CASE r \in DOMAIN index
  <2>1. old # 0 /\ HasLive(lv, index, r, old)
      BY <1>8, <1>10 DEF Holding
  <2>2. V1!SharesOf(lv, index, r) = old /\ old \in Uint
      BY <1>5, <2>1, SharesAre
  <2>3. new = old - m.shares /\ new \in Uint
      BY <1>1, <1>3, <1>4, <2>1, <2>2, BooksAssumption DEF Uint
  <2>4. left = new
    <3>1. \A i, n \in Nat : i < n => i % n = i
        OBVIOUS
    <3>2. left = new % UintMod
        BY <2>2, <2>3 DEF left
    <3>3. new \in Nat /\ UintMod \in Nat /\ new < UintMod
        BY <2>3, BooksAssumption DEF Uint
    <3>4. new % UintMod = new
        BY <3>1, <3>3
    <3> QED BY <3>2, <3>4
  <2>5. CASE left = 0
    <3>1. lv2 = V1!RemoveLocator(lv, index, r) /\ index2 = V1!Unindexed(index, r)
        BY <1>7, <1>10, <2>5
    <3>2. /\ V1Inv(lv2, index2) /\ Holding(lv2, index2, r, 0)
          /\ \A x, n : x # r /\ Holding(lv, index, x, n) => Holding(lv2, index2, x, n)
        BY <1>5, <1>10, <3>1, GoneHolds
    <3> QED BY <1>5, <1>6, <2>4, <2>5, <3>2 DEF Holds, new, t
  <2>6. CASE left # 0
    <3>1. lv2 = V1!SetShares(lv, index, r, left) /\ index2 = index
        BY <1>7, <1>10, <2>6
    <3>2. V1Inv(lv2, index2)
        BY <1>5, <1>10, <2>3, <2>4, <3>1, SetKeeps
    <3>3. HasLive(lv2, index2, r, left) /\ Others(lv, index, lv2, index2, r)
        BY <1>5, <1>10, <2>3, <2>4, <3>1, SetEntries
    <3>4. Holding(lv2, index2, r, new)
        BY <2>4, <2>6, <3>3 DEF Holding
    <3>5. ASSUME NEW x \in Ref, x # r PROVE Holding(lv2, index2, x, Amount(f, t, x))
      <4>1. Holding(lv, index, x, Amount(f, s, x)) /\ Amount(f, t, x) = Amount(f, s, x)
          BY <1>5, <1>6, <3>5
      <4> QED BY <3>1, <3>3, <3>5, <4>1, OthersHold
    <3> QED BY <3>2, <3>4, <3>5 DEF Holds, new, t
  <2> QED BY <2>5, <2>6
<1> QED BY <1>9, <1>10

\* A deletion.
LEMMA DeleteHolds ==
  ASSUME NEW f \in Feeds, NEW s \in Seq(Nat), NEW k \in DOMAIN f, k \notin Range(s),
         NEW lv, NEW index, Holds(f, s, lv, index), NEW lv2, NEW index2,
         Does(lv, index, lv2, index2, f[k]), f[k].type = "D"
  PROVE  Holds(f, Append(s, k), lv2, index2)
<1> DEFINE m == f[k]
           r == m.ref
           t == Append(s, k)
<1>1. r \in Ref
    BY FeedTyped, MessageTyped
<1>2. Takes(m, r) /\ Ends(m) /\ \A x \in Ref : x # r => ~Creates(m, x) /\ ~Takes(m, x)
    BY DEF Creates, Takes, Ends
<1>3. Amount(f, t, r) = 0
    BY <1>1, <1>2, AmountTaken
<1>4. V1Inv(lv, index) /\ \A x \in Ref : Holding(lv, index, x, Amount(f, s, x))
    BY DEF Holds
<1>5. \A x \in Ref : x # r => Amount(f, t, x) = Amount(f, s, x)
    BY <1>2, AmountSame
<1>6. \/ r \notin DOMAIN index /\ lv2 = lv /\ index2 = index
      \/ /\ r \in DOMAIN index
         /\ lv2 = V1!RemoveLocator(lv, index, r) /\ index2 = V1!Unindexed(index, r)
    BY DEF Does
<1> HIDE DEF m, r, t
<1>7. CASE r \notin DOMAIN index
  <2>1. lv2 = lv /\ index2 = index /\ Holding(lv, index, r, 0)
      BY <1>6, <1>7 DEF Holding
  <2> QED BY <1>3, <1>4, <1>5, <2>1 DEF Holds, t
<1>8. CASE r \in DOMAIN index
  <2>1. lv2 = V1!RemoveLocator(lv, index, r) /\ index2 = V1!Unindexed(index, r)
      BY <1>6, <1>8
  <2>2. /\ V1Inv(lv2, index2) /\ Holding(lv2, index2, r, 0)
        /\ \A x, n : x # r /\ Holding(lv, index, x, n) => Holding(lv2, index2, x, n)
      BY <1>4, <1>8, <2>1, GoneHolds
  <2> QED BY <1>3, <1>4, <1>5, <2>2 DEF Holds, t
<1> QED BY <1>7, <1>8

\* A replacement.
LEMMA ReplaceHolds ==
  ASSUME NEW f \in Feeds, NEW s \in Seq(Nat), NEW k \in DOMAIN f, k \notin Range(s),
         NEW lv, NEW index, Holds(f, s, lv, index), NEW lv2, NEW index2,
         Does(lv, index, lv2, index2, f[k]), f[k].type = "U"
  PROVE  Holds(f, Append(s, k), lv2, index2)
<1> DEFINE m == f[k]
           r == m.ref
           new == m.new
           t == Append(s, k)
           side == index[r].side
           lv1 == V1!RemoveLocator(lv, index, r)
           index1 == V1!Unindexed(index, r)
<1>1. /\ r \in Ref /\ new \in Ref /\ m.price \in Price
      /\ m.shares \in Uint /\ m.shares \in Nat \ {0}
    BY FeedTyped, MessageTyped
<1>2. /\ Takes(m, r) /\ Ends(m) /\ Creates(m, new)
      /\ \A x \in Ref : x # r /\ x # new => ~Creates(m, x) /\ ~Takes(m, x)
    BY DEF Creates, Takes, Ends
<1>3. new # r
    BY <1>1, <1>2, TakesAnother
<1>4. Amount(f, t, r) = 0
    BY <1>1, <1>2, AmountTaken
<1>5. /\ Amount(f, s, new) = 0
      /\ Amount(f, t, new) = IF Amount(f, s, r) > 0 THEN m.shares ELSE 0
    BY <1>1, <1>2, AmountNew
<1>6. V1Inv(lv, index) /\ \A x \in Ref : Holding(lv, index, x, Amount(f, s, x))
    BY DEF Holds
<1>7. \A x \in Ref : x # r /\ x # new => Amount(f, t, x) = Amount(f, s, x)
    BY <1>2, AmountSame
<1>8. \/ r \notin DOMAIN index /\ lv2 = lv /\ index2 = index
      \/ /\ r \in DOMAIN index
         /\ lv2 = V1!PushBack(lv1, new, side, m.price, m.shares)
         /\ index2 = V1!Indexed(index1, new, side, m.price)
    BY DEF Does
<1>9. Amount(f, s, r) \in Nat /\ Holding(lv, index, r, Amount(f, s, r))
    BY <1>1, <1>6, AmountType
<1>10. new \notin DOMAIN index
    BY <1>1, <1>5, <1>6 DEF Holding
<1> HIDE DEF m, r, t, new, side, lv1, index1
<1>11. CASE r \notin DOMAIN index
  <2>1. Amount(f, s, r) = 0
      BY <1>9, <1>11 DEF Holding, HasLive
  <2>2. lv2 = lv /\ index2 = index
      BY <1>8, <1>11
  <2>3. \A x \in Ref : Amount(f, t, x) = Amount(f, s, x)
      BY <1>4, <1>5, <1>7, <2>1
  <2> QED BY <1>6, <2>2, <2>3 DEF Holds, t
<1>12. CASE r \in DOMAIN index
  <2>1. Amount(f, s, r) > 0
      BY <1>9, <1>12 DEF Holding
  <2>2. /\ V1Inv(lv1, index1) /\ Holding(lv1, index1, r, 0)
        /\ DOMAIN index1 = DOMAIN index \ {r} /\ Others(lv, index, lv1, index1, r)
        /\ \A x, n : x # r /\ Holding(lv, index, x, n) => Holding(lv1, index1, x, n)
      BY <1>6, <1>12, GoneHolds DEF lv1, index1
  <2>3. side \in Side
      BY <1>6, <1>12, LocatorFinds DEF side
  <2>4. new \notin DOMAIN index1
      BY <1>10, <2>2
  <2>5. /\ lv2 = V1!PushBack(lv1, new, side, m.price, m.shares)
        /\ index2 = V1!Indexed(index1, new, side, m.price)
      BY <1>8, <1>12
  <2>6. V1Inv(lv2, index2)
      BY <1>1, <2>2, <2>3, <2>4, <2>5, PushKeeps
  <2>7. /\ DOMAIN index2 = DOMAIN index1 \cup {new}
        /\ HasLive(lv2, index2, new, m.shares) /\ Others(lv1, index1, lv2, index2, new)
    <3> DEFINE price == m.price
               n == m.shares
    <3>1. price \in Price /\ n \in Uint
        BY <1>1
    <3>2. /\ lv2 = V1!PushBack(lv1, new, side, price, n)
          /\ index2 = V1!Indexed(index1, new, side, price)
        BY <2>5
    <3> HIDE DEF price, n
    <3>3. LET lv3 == V1!PushBack(lv1, new, side, price, n)
              index3 == V1!Indexed(index1, new, side, price)
          IN  /\ DOMAIN index3 = DOMAIN index1 \cup {new}
              /\ index3[new] = [side |-> side, price |-> price]
              /\ HasLive(lv3, index3, new, n) /\ Others(lv1, index1, lv3, index3, new)
        BY <1>1, <2>2, <2>3, <2>4, <3>1, PushEntries
    <3>4. /\ DOMAIN index2 = DOMAIN index1 \cup {new}
          /\ HasLive(lv2, index2, new, n) /\ Others(lv1, index1, lv2, index2, new)
        BY <3>2, <3>3, Zenon
    <3> QED BY <3>4 DEF n
  <2>8. ASSUME NEW x \in Ref PROVE Holding(lv2, index2, x, Amount(f, t, x))
    <3>1. CASE x = new
      <4>1. Amount(f, t, new) = m.shares /\ m.shares \in Nat /\ m.shares > 0
          BY <1>1, <1>5, <2>1
      <4>2. new \in DOMAIN index2 /\ HasLive(lv2, index2, new, m.shares)
          BY <2>7
      <4> QED BY <3>1, <4>1, <4>2 DEF Holding
    <3>2. CASE x = r
        BY <1>3, <1>4, <2>2, <2>7, <3>2 DEF Holding
    <3>3. CASE x # r /\ x # new
      <4>1. Holding(lv1, index1, x, Amount(f, t, x))
          BY <1>6, <1>7, <2>2, <3>3
      <4> QED BY <2>7, <3>3, <4>1, OthersHold
    <3> QED BY <3>1, <3>2, <3>3
  <2> QED BY <2>6, <2>8 DEF Holds, t
<1> QED BY <1>11, <1>12

\* Every message that comes once.
LEMMA DoesHolds ==
  ASSUME NEW f \in Feeds, NEW s \in Seq(Nat), NEW k \in DOMAIN f, k \notin Range(s),
         NEW lv, NEW index, Holds(f, s, lv, index), NEW lv2, NEW index2,
         Does(lv, index, lv2, index2, f[k])
  PROVE  Holds(f, Append(s, k), lv2, index2)
<1>1. CASE f[k].type = "A"
    BY <1>1, AddHolds
<1>2. CASE f[k].type \in {"E", "X"}
    BY <1>2, TakeHolds
<1>3. CASE f[k].type = "D"
    BY <1>3, DeleteHolds
<1>4. CASE f[k].type = "U"
    BY <1>4, ReplaceHolds
<1>5. CASE f[k].type \notin {"A", "E", "X", "D", "U"}
  <2>1. lv2 = lv /\ index2 = index
      BY <1>5 DEF Does
  <2>2. \A r \in Ref : ~Creates(f[k], r) /\ ~Takes(f[k], r)
      BY <1>5 DEF Creates, Takes
  <2>3. \A r \in Ref : Amount(f, Append(s, k), r) = Amount(f, s, r)
      BY <2>2, AmountSame
  <2> QED BY <2>1, <2>3 DEF Holds
<1> QED BY <1>1, <1>2, <1>3, <1>4, <1>5

-----------------------------------------------------------------------------
(* The invariant: packets, messages at hand, and the books. *)

\* Packets are packets of the session, and the tracking of v2 and v3 is exact.
Tracked == /\ feed \in Feeds /\ TrackInv
           /\ messages \in Nat /\ high_seq <= Len(feed) + 1
           /\ delivered \subseteq DOMAIN feed

\* What is at hand is new, and v1 has dispatched nothing that v2 and v3 have not.
AtHand == /\ todo \in Seq(Nat) /\ applied \in Seq(Nat) /\ old_applied \in Seq(Nat)
          /\ Distinct(todo) /\ Range(todo) \cap Range(applied) = {}
          /\ Range(todo) \cup Range(applied) \subseteq delivered
          /\ Range(old_applied) \subseteq Range(applied)

\* The books hold what their messages say.
Booked == /\ Holds(feed, applied, v1_levels, v1_index)
          /\ Holds(feed, old_applied, old_levels, old_index)

EInv == Tracked /\ AtHand /\ Booked

\* The network gives v2 and v3 the packet.
LEMMA Received ==
  ASSUME NEW p \in Packet, ReceivePacket(p)
  PROVE  Receive(p)
<1>1. Net!InOrder(p) \/ Net!Gap(p) \/ Net!Recovered(p) \/ Net!Duplicate(p)
    BY DEF ReceivePacket, Net!Arrive, Net!Receive
<1>2. Net!InOrder(p) => InOrder(p)
    BY DEF Net!InOrder, InOrder, Net!Accept, Accept, Net!High, High, Net!First, First,
       Net!Messages, Messages
<1>3. Net!Gap(p) => Gap(p)
    BY DEF Net!Gap, Gap, Net!Accept, Accept, Net!High, High, Net!First, First,
       Net!Messages, Messages
<1>4. Net!Recovered(p) => Recovered(p)
  <2>1. Net!Holder(p) = Holder(p)
      BY DEF Net!Holder, Holder, Net!End, End
  <2>2. \A g : Net!Without(g, p) = Without(g, p)
      BY DEF Net!Without, Without, Net!End, End
  <2> QED BY <2>1, <2>2 DEF Net!Recovered, Recovered, Net!Accept, Accept, Net!High, High,
             Net!First, First, Net!Messages, Messages
<1>5. Net!Duplicate(p) => Duplicate(p)
    BY DEF Net!Duplicate, Duplicate, Net!Holder, Holder, Net!End, End, Net!High, High
<1> QED BY <1>1, <1>2, <1>3, <1>4, <1>5 DEF Receive

\* A packet's messages are in the session.
LEMMA PacketSent ==
  ASSUME feed \in Feeds, NEW p \in Packet
  PROVE  Messages(p) \subseteq DOMAIN feed /\ p.seq + p.count <= Len(feed) + 1
<1>1. Messages(p) \subseteq DOMAIN feed
    BY FeedsAssumption
<1>2. p.seq \in Nat /\ p.count \in Nat /\ p.count >= 1 /\ p.seq >= 1
    BY PacketsAssumption, PacketTyped
<1>3. p.seq + p.count - 1 \in Messages(p)
    BY <1>2 DEF Messages
<1> QED BY <1>1, <1>2, <1>3, FeedTyped

\* A packet is taken for a duplicate, or all of its messages are new.
LEMMA NewOrSeen ==
  ASSUME Tracked, NEW p \in Packet, Receive(p)
  PROVE  /\ high_seq' <= Len(feed) + 1 /\ messages' \in Nat /\ delivered' \subseteq DOMAIN feed
         /\ \/ messages' = messages /\ delivered' = delivered
            \/ /\ messages' # messages /\ delivered' = delivered \cup Messages(p)
               /\ delivered \cap Messages(p) = {}
<1>1. /\ Messages(p) \subseteq DOMAIN feed /\ p.seq + p.count <= Len(feed) + 1
      /\ Len(feed) \in Nat
    BY PacketSent, FeedTyped DEF Tracked
<1>2. p.seq \in Nat /\ p.count \in Nat /\ p.count >= 1
    BY PacketsAssumption, PacketTyped
<1>3. TrackInv /\ messages \in Nat /\ high_seq <= Len(feed) + 1 /\ delivered \subseteq DOMAIN feed
    BY DEF Tracked
<1>4. CASE InOrder(p)
  <2>1. delivered \cap Messages(p) = {}
      BY <1>2, <1>3, <1>4, PacketsAssumption, NewAhead DEF InOrder
  <2> QED BY <1>1, <1>2, <1>3, <1>4, <2>1 DEF InOrder, Accept
<1>5. CASE Gap(p)
  <2>1. High(p) \in Nat
      BY <1>3, PacketsAssumption, HighMeaning
  <2>2. delivered \cap Messages(p) = {}
      BY <1>2, <1>3, <1>5, <2>1, PacketsAssumption, NewAhead DEF Gap
  <2> QED BY <1>1, <1>2, <1>3, <1>5, <2>2 DEF Gap, Accept
<1>6. CASE Recovered(p)
  <2>1. PICK g \in Holder(p) : pending_gaps' = Without(g, p)
      BY <1>6 DEF Recovered
  <2>2. delivered \cap Messages(p) = {}
      BY <1>3, PacketsAssumption, NewBehind
  <2> QED BY <1>1, <1>2, <1>3, <1>6, <2>2 DEF Recovered, Accept
<1>7. CASE Duplicate(p)
    BY <1>3, <1>7 DEF Duplicate
<1> QED BY <1>4, <1>5, <1>6, <1>7 DEF Receive

\* The messages of an accepted packet are at hand, each once.
LEMMA PacketAtHand ==
  ASSUME NEW p \in Packet, NEW q, q = [i \in 1 .. p.count |-> p.seq + i - 1]
  PROVE  q \in Seq(Nat) /\ Distinct(q) /\ Range(q) \subseteq Messages(p)
<1>1. p.seq \in Nat /\ p.count \in Nat /\ p.seq >= 1
    BY PacketsAssumption, PacketTyped
<1>2. q \in [1 .. p.count -> Nat]
    BY <1>1
<1>3. q \in Seq(Nat)
    BY <1>1, <1>2
<1>4. Distinct(q)
    BY <1>1 DEF Distinct
<1>5. Range(q) \subseteq Messages(p)
    BY <1>1 DEF Range, Messages
<1> QED BY <1>3, <1>4, <1>5

\* Reading a datagram keeps the invariant.
LEMMA ReceiveKeeps ==
  ASSUME EInv, NEW p \in Packet, ReceivePacket(p), [NarrowGap]_track_vars
  PROVE  EInv'
<1>1. Receive(p)
    BY Received
<1>2. TrackInv'
    BY <1>1, PacketsAssumption, InvNext DEF EInv, Tracked, TrackNext
<1>3. /\ high_seq' <= Len(feed) + 1 /\ messages' \in Nat /\ delivered' \subseteq DOMAIN feed
      /\ \/ messages' = messages /\ delivered' = delivered
         \/ /\ messages' # messages /\ delivered' = delivered \cup Messages(p)
            /\ delivered \cap Messages(p) = {}
    BY <1>1, NewOrSeen DEF EInv
<1>4. /\ todo' = IF messages' = messages THEN <<>> ELSE [i \in 1 .. p.count |-> p.seq + i - 1]
      /\ UNCHANGED <<feed, applied, old_applied, old_levels, old_index, v1_levels, v1_index>>
    BY DEF ReceivePacket, old_vars, vars
<1>5. Tracked'
    BY <1>2, <1>3, <1>4 DEF EInv, Tracked
<1>6. AtHand'
  <2>1. CASE messages' = messages /\ delivered' = delivered
    <3>1. /\ todo' \in Seq(Nat) /\ Distinct(todo') /\ Range(todo') = {}
        BY <1>4, <2>1 DEF Distinct, Range
    <3> QED BY <1>4, <2>1, <3>1 DEF EInv, AtHand
  <2>2. CASE /\ messages' # messages /\ delivered' = delivered \cup Messages(p)
             /\ delivered \cap Messages(p) = {}
    <3>1. todo' \in Seq(Nat) /\ Distinct(todo') /\ Range(todo') \subseteq Messages(p)
        BY <1>4, <2>2, PacketAtHand
    <3> QED BY <1>4, <2>2, <3>1 DEF EInv, AtHand
  <2> QED BY <1>3, <2>1, <2>2
<1>7. Booked'
    BY <1>4 DEF EInv, Booked
<1> QED BY <1>5, <1>6, <1>7 DEF EInv

\* The switch of v2, and of v1, on a message that says what n says.
LEMMA ApplyDoes ==
  ASSUME NEW n \in Message, NEW m, \A x \in DOMAIN n : m[x] = n[x]
  PROVE  /\ V1!Apply(m) => Does(v1_levels, v1_index, v1_levels', v1_index', n)
         /\ Old!Apply(m) => Does(old_levels, old_index, old_levels', old_index', n)
<1>1. /\ m.type = n.type
      /\ n.type \in {"A", "E", "X", "D", "U"} => m.ref = n.ref
      /\ n.type \in {"A", "E", "X", "U"} => m.shares = n.shares
      /\ n.type \in {"A", "U"} => m.price = n.price
      /\ n.type = "A" => m.side = n.side
      /\ n.type = "U" => m.new = n.new
  <2>1. n.type \in {"A", "E", "X", "D", "U"} \/ n.type \notin {"A", "E", "X", "D", "U"}
      OBVIOUS
  <2>2. "type" \in DOMAIN n
      BY MessageFields
  <2>3. n.type \in {"A", "E", "X", "D", "U"} => "ref" \in DOMAIN n
      BY MessageFields
  <2>4. n.type \in {"A", "E", "X", "U"} => "shares" \in DOMAIN n
      BY MessageFields
  <2>5. n.type \in {"A", "U"} => "price" \in DOMAIN n
      BY MessageFields
  <2>6. (n.type = "A" => "side" \in DOMAIN n) /\ (n.type = "U" => "new" \in DOMAIN n)
      BY MessageFields
  <2> QED BY <2>2, <2>3, <2>4, <2>5, <2>6
<1>2. ASSUME V1!Apply(m) PROVE Does(v1_levels, v1_index, v1_levels', v1_index', n)
  <2>1. CASE m.type = "A"
      BY <1>1, <1>2, <2>1 DEF Does, V1!Apply, V1!AddOrder
  <2>2. CASE m.type \in {"E", "X"}
      BY <1>1, <1>2, <2>2 DEF Does, V1!Apply, V1!ExecuteOrder, V1!CancelOrder, V1!Reduce, V1!Live,
         V1!Leave, V1!vars
  <2>3. CASE m.type = "D"
      BY <1>1, <1>2, <2>3 DEF Does, V1!Apply, V1!DeleteOrder, V1!Live, V1!Leave, V1!vars
  <2>4. CASE m.type = "U"
      BY <1>1, <1>2, <2>4 DEF Does, V1!Apply, V1!ReplaceOrder, V1!Live, V1!vars
  <2>5. CASE m.type \notin {"A", "E", "X", "D", "U"}
      BY <1>1, <1>2, <2>5 DEF Does, V1!Apply, V1!vars
  <2> QED BY <2>1, <2>2, <2>3, <2>4, <2>5
<1>3. ASSUME Old!Apply(m) PROVE Does(old_levels, old_index, old_levels', old_index', n)
  <2>a. \A lv, index, r : /\ Old!SharesOf(lv, index, r) = V1!SharesOf(lv, index, r)
                          /\ Old!RemoveLocator(lv, index, r) = V1!RemoveLocator(lv, index, r)
                          /\ Old!Unindexed(index, r) = V1!Unindexed(index, r)
      BY DEF Old!SharesOf, V1!SharesOf, Old!RemoveLocator, V1!RemoveLocator,
         Old!Unindexed, V1!Unindexed, Old!Position, V1!Position, Old!RemoveAt, V1!RemoveAt,
         Old!Restrict, V1!Restrict
  <2>b. \A lv, r, side, price, shares :
          Old!PushBack(lv, r, side, price, shares) = V1!PushBack(lv, r, side, price, shares)
      BY DEF Old!PushBack, V1!PushBack
  <2>c. \A index, r, side, price :
          Old!Indexed(index, r, side, price) = V1!Indexed(index, r, side, price)
      BY DEF Old!Indexed, V1!Indexed
  <2>d. \A lv, index, r, shares :
          Old!SetShares(lv, index, r, shares) = V1!SetShares(lv, index, r, shares)
      BY DEF Old!SetShares, V1!SetShares, Old!Position, V1!Position
  <2>1. CASE m.type = "A"
      BY <1>1, <1>3, <2>1, <2>b, <2>c DEF Does, Old!Apply, Old!AddOrder
  <2>2. CASE m.type \in {"E", "X"}
      BY <1>1, <1>3, <2>2, <2>a, <2>d DEF Does, Old!Apply, Old!ExecuteOrder, Old!CancelOrder,
         Old!Reduce, Old!Live, Old!Leave, Old!vars
  <2>3. CASE m.type = "D"
      BY <1>1, <1>3, <2>3, <2>a DEF Does, Old!Apply, Old!DeleteOrder, Old!Live, Old!Leave, Old!vars
  <2>4. CASE m.type = "U"
      BY <1>1, <1>3, <2>4, <2>a, <2>b, <2>c DEF Does, Old!Apply, Old!ReplaceOrder, Old!Live, Old!vars
  <2>5. CASE m.type \notin {"A", "E", "X", "D", "U"}
      BY <1>1, <1>3, <2>5 DEF Does, Old!Apply, Old!vars
  <2> QED BY <2>1, <2>2, <2>3, <2>4, <2>5
<1> QED BY <1>2, <1>3

\* A message that comes once is one that the harness allows.
LEMMA ApplyNext ==
  ASSUME NEW f \in Feeds, NEW s \in Seq(Nat), NEW k \in DOMAIN f, k \notin Range(s),
         Holds(f, s, v1_levels, v1_index), \E L, F : Stands(L, F),
         NEW m, \A x \in DOMAIN f[k] : m[x] = f[k][x], V1!Apply(m), V3!Apply(m)
  PROVE  [Next]_vars
<1> DEFINE n == f[k]
           r == n.ref
<1>1. n \in Message /\ LegalAt(f, k) /\ InQuotes(n) /\ V1Inv(v1_levels, v1_index)
    BY FeedTyped DEF Holds
<1>2. /\ n.type \in {"A", "E", "X", "D", "U"} => r \in Ref
      /\ n.type \in {"A", "E", "X", "U"} => n.shares \in Nat \ {0}
      /\ n.type = "U" => n.new \in Ref
    BY <1>1, MessageTyped
<1>3. ASSUME NEW x \in Ref
      PROVE  Amount(f, s, x) \in Nat /\ Holding(v1_levels, v1_index, x, Amount(f, s, x))
    BY AmountType DEF Holds
<1>4. ASSUME NEW x \in Ref, Creates(n, x) PROVE ~V1!Live(x)
  <2>1. Amount(f, s, x) = 0
      BY <1>4, AmountNew
  <2> QED BY <1>3, <2>1 DEF Holding, V1!Live
<1>5. ASSUME NEW x \in Ref, ~V1!Live(x) PROVE refs[x] = kNullIdx
    BY <1>5, Unknown
<1>6. m.type = n.type
  <2>1. "type" \in DOMAIN n
      BY <1>1, MessageFields
  <2> QED BY <2>1
<1>7. CASE n.type = "A"
  <2>1. m.ref = r /\ m.side = n.side /\ m.price = n.price /\ m.shares = n.shares
      BY <1>1, <1>7, MessageFields
  <2>2. PICK q \in Quotes : q.price = n.price /\ q.shares = n.shares /\ q.side = n.side
      BY <1>1, <1>7 DEF InQuotes
  <2>3. r \in Ref /\ ~V1!Live(r)
      BY <1>2, <1>4, <1>7 DEF Creates
  <2>4. Add(r, q)
      BY <1>6, <1>7, <2>1, <2>2, <2>3 DEF Add, V1!Apply, V3!Apply
  <2> QED BY <2>3, <2>4 DEF Next
<1>8. CASE n.type \in {"E", "X"}
  <2>1. m.ref = r /\ m.shares = n.shares /\ r \in Ref /\ n.shares \in Nat \ {0}
      BY <1>1, <1>2, <1>8, MessageFields
  <2>2. V1!Reduce(r, n.shares) /\ V3!Reduce(r, n.shares)
      BY <1>6, <1>8, <2>1 DEF V1!Apply, V3!Apply, V1!ExecuteOrder, V3!ExecuteOrder,
         V1!CancelOrder, V3!CancelOrder
  <2>3. CASE ~V1!Live(r)
    <3>1. UNCHANGED <<v1_levels, v1_index>>
        BY <2>2, <2>3 DEF V1!Reduce, V1!vars
    <3>2. UNCHANGED <<slots, free_head, refs, books>>
        BY <1>5, <2>1, <2>2, <2>3, SlotFacts DEF V3!Reduce, V3!Known, V3!vars
    <3> QED BY <3>1, <3>2 DEF vars
  <2>4. CASE V1!Live(r)
    <3> DEFINE old == Amount(f, s, r)
    <3>1. old # 0 /\ HasLive(v1_levels, v1_index, r, old)
        BY <1>3, <2>1, <2>4 DEF Holding, V1!Live
    <3>2. V1!SharesOf(v1_levels, v1_index, r) = old
        BY <1>1, <3>1, SharesAre
    <3>3. Takes(n, r) /\ ~Ends(n)
        BY <1>8 DEF Takes, Ends
    <3>4. old >= n.shares /\ old \in Nat
        BY <1>3, <2>1, <3>1, <3>3, AmountTaken
    <3>5. n.shares \in Takeable(r)
        BY <2>1, <2>4, <3>2, <3>4 DEF Takeable
    <3>6. \/ V1!ExecuteOrder(r, n.shares) /\ V3!ExecuteOrder(r, n.shares)
        BY <2>2 DEF V1!ExecuteOrder, V3!ExecuteOrder
    <3>7. Execute(r)
        BY <3>5, <3>6 DEF Execute
    <3> QED BY <2>1, <3>7 DEF Next
  <2> QED BY <2>3, <2>4
<1>9. CASE n.type = "D"
  <2>1. m.ref = r /\ r \in Ref
      BY <1>1, <1>2, <1>9, MessageFields
  <2>2. Delete(r)
      BY <1>6, <1>9, <2>1 DEF Delete, V1!Apply, V3!Apply
  <2> QED BY <2>1, <2>2 DEF Next
<1>10. CASE n.type = "U"
  <2>1. /\ m.ref = r /\ m.new = n.new /\ m.price = n.price /\ m.shares = n.shares
        /\ r \in Ref /\ n.new \in Ref
      BY <1>1, <1>2, <1>10, MessageFields
  <2>2. PICK q \in Quotes : q.price = n.price /\ q.shares = n.shares
      BY <1>1, <1>10 DEF InQuotes
  <2>3. Creates(n, n.new) /\ Takes(n, r)
      BY <1>10 DEF Creates, Takes
  <2>4. n.new # r
      BY <2>1, <2>3, TakesAnother
  <2>5. SymbolOf[n.new] = SymbolOf[r]
      BY <1>1, <1>10 DEF LegalAt
  <2>6. ~V1!Live(n.new)
      BY <1>4, <2>1, <2>3
  <2>7. Replace(r, n.new, q)
      BY <1>6, <1>10, <2>1, <2>2, <2>4, <2>5, <2>6 DEF Replace, V1!Apply, V3!Apply
  <2> QED BY <2>1, <2>7 DEF Next
<1>11. CASE n.type \notin {"A", "E", "X", "D", "U"}
    BY <1>6, <1>11 DEF V1!Apply, V3!Apply, V1!vars, V3!vars, vars
<1> QED BY <1>7, <1>8, <1>9, <1>10, <1>11

\* The head of a sequence and what follows it.
LEMMA HeadTail ==
  ASSUME NEW q \in Seq(Nat), q # <<>>, Distinct(q)
  PROVE  /\ Head(q) \in Range(q) /\ Head(q) \in Nat /\ Tail(q) \in Seq(Nat)
         /\ Distinct(Tail(q)) /\ Range(Tail(q)) \subseteq Range(q) \ {Head(q)}
<1>1. /\ Len(q) \in Nat /\ Len(q) >= 1 /\ DOMAIN q = 1 .. Len(q)
      /\ Head(q) = q[1] /\ Tail(q) \in Seq(Nat) /\ DOMAIN Tail(q) = 1 .. Len(q) - 1
      /\ \A i \in 1 .. Len(q) - 1 : Tail(q)[i] = q[i + 1]
    OBVIOUS
<1>2. 1 \in DOMAIN q /\ \A i \in 1 .. Len(q) - 1 : i + 1 \in DOMAIN q /\ i + 1 # 1
    BY <1>1
<1>3. Head(q) \in Range(q) /\ Head(q) \in Nat
    BY <1>1, <1>2 DEF Range
<1>4. Distinct(Tail(q))
  <2>1. ASSUME NEW i \in 1 .. Len(q) - 1, NEW j \in 1 .. Len(q) - 1, Tail(q)[i] = Tail(q)[j]
        PROVE  i = j
    <3>1. q[i + 1] = q[j + 1] /\ i + 1 \in DOMAIN q /\ j + 1 \in DOMAIN q
        BY <1>1, <1>2, <2>1
    <3>2. i + 1 = j + 1
        BY <3>1 DEF Distinct
    <3> QED BY <3>2
  <2> QED BY <1>1, <2>1 DEF Distinct
<1>5. Range(Tail(q)) \subseteq Range(q) \ {Head(q)}
    BY <1>1, <1>2 DEF Range, Distinct
<1> QED BY <1>1, <1>3, <1>4, <1>5

\* One round of the loop keeps the invariant, and is a step the harness allows.
LEMMA DispatchKeeps ==
  ASSUME EInv, \E L, F : Stands(L, F), Dispatch
  PROVE  EInv' /\ [Next]_vars
<1> DEFINE k == Head(todo)
           m == Itch!Parse(Itch!Wire(feed[k]))
<1>1. /\ todo # <<>> /\ todo' = Tail(todo) /\ applied' = Append(applied, k)
      /\ V1!Apply(m) /\ V3!Apply(m)
      /\ \/ UNCHANGED <<old_applied, old_levels, old_index>>
         \/ Old!Apply(m) /\ old_applied' = Append(old_applied, k)
      /\ UNCHANGED <<feed, net_vars>>
    BY DEF Dispatch, old_vars
<1>2. /\ k \in Range(todo) /\ k \in Nat /\ todo' \in Seq(Nat) /\ Distinct(todo')
      /\ Range(todo') \subseteq Range(todo) \ {k}
    BY <1>1, HeadTail DEF EInv, AtHand
<1>3. /\ feed \in Feeds /\ k \in DOMAIN feed /\ k \notin Range(applied)
      /\ k \notin Range(old_applied)
      /\ applied \in Seq(Nat) /\ old_applied \in Seq(Nat)
    BY <1>2 DEF EInv, AtHand, Tracked
<1>4. feed[k] \in Message /\ \A x \in DOMAIN feed[k] : m[x] = feed[k][x]
    BY <1>3, FeedTyped, ParseWire
<1> HIDE DEF k, m
<1>5. Tracked'
    BY <1>1 DEF EInv, Tracked, net_vars, track_vars, TrackInv, TrackTypeOK, Started,
       RangesSound, PendingExact, Missing, End, Clean
<1>6. AtHand'
  <2>1. applied' \in Seq(Nat) /\ Range(applied') = Range(applied) \cup {k}
      BY <1>1, <1>2, <1>3, Appended
  <2>2. /\ old_applied' \in Seq(Nat)
        /\ Range(old_applied') \subseteq Range(old_applied) \cup {k}
    <3>1. CASE old_applied' = old_applied
        BY <1>3, <3>1
    <3>2. CASE old_applied' = Append(old_applied, k)
        BY <1>2, <1>3, <3>2, Appended
    <3> QED BY <1>1, <3>1, <3>2
  <2>3. delivered' = delivered
      BY <1>1 DEF net_vars, track_vars
  <2> QED BY <1>2, <2>1, <2>2, <2>3 DEF EInv, AtHand
<1>7. Holds(feed, Append(applied, k), v1_levels', v1_index')
  <2>1. Does(v1_levels, v1_index, v1_levels', v1_index', feed[k])
      BY <1>1, <1>4, ApplyDoes
  <2> QED BY <1>3, <2>1, DoesHolds DEF EInv, Booked
<1>8. Holds(feed, old_applied', old_levels', old_index')
  <2>1. CASE UNCHANGED <<old_applied, old_levels, old_index>>
      BY <2>1 DEF EInv, Booked
  <2>2. CASE Old!Apply(m) /\ old_applied' = Append(old_applied, k)
    <3>1. Does(old_levels, old_index, old_levels', old_index', feed[k])
        BY <1>4, <2>2, ApplyDoes
    <3> QED BY <1>3, <2>2, <3>1, DoesHolds DEF EInv, Booked
  <2> QED BY <1>1, <2>1, <2>2
<1>9. Booked'
    BY <1>1, <1>7, <1>8 DEF Booked
<1>10. [Next]_vars
  <2>1. Holds(feed, applied, v1_levels, v1_index)
      BY DEF EInv, Booked
  <2>2. V1!Apply(m) /\ V3!Apply(m)
      BY <1>1
  <2>3. \A x \in DOMAIN feed[k] : m[x] = feed[k][x]
      BY <1>4
  <2> QED BY <1>3, <2>1, <2>2, <2>3, ApplyNext
<1> QED BY <1>5, <1>6, <1>9, <1>10 DEF EInv

\* At first nothing has come and nothing is held.
LEMMA EInit == FeedInit => EInv /\ IInv
<1> SUFFICES ASSUME FeedInit PROVE EInv /\ IInv
    OBVIOUS
<1>1. /\ feed \in Feeds /\ todo = <<>> /\ applied = <<>> /\ old_applied = <<>>
      /\ Old!Init /\ Init /\ Net!Init
    BY DEF FeedInit
<1>2. IInv
    BY <1>1, V1Init, InitStands DEF IInv
<1>3. TrackInit
    BY <1>1 DEF Net!Init, Net!TrackInit, TrackInit
<1>4. Tracked
  <2>1. Len(feed) \in Nat
      BY <1>1, FeedTyped
  <2>2. high_seq = 0 /\ messages = 0 /\ delivered = {}
      BY <1>3 DEF TrackInit
  <2> QED BY <1>1, <1>3, <2>1, <2>2, InvInit DEF Tracked
<1>5. Range(<<>>) = {}
    BY DEF Range
<1>6. AtHand
    BY <1>1, <1>5 DEF AtHand, Distinct
<1>7. old_levels = v1_levels /\ old_index = v1_index /\ v1_index = <<>>
    BY <1>1 DEF Init, V1!Init, Old!Init, V1!Side, Old!Side
<1>8. ASSUME NEW r \in Ref PROVE Amount(feed, <<>>, r) = 0
  <2>1. \A c \in DOMAIN feed : ~InEffect(feed, <<>>, c)
      BY <1>1, <1>5, EffectIn
  <2> QED BY <2>1 DEF Amount, Born
<1>9. Holds(feed, <<>>, v1_levels, v1_index)
    BY <1>2, <1>7, <1>8 DEF IInv, Holds, Holding
<1> QED BY <1>1, <1>2, <1>4, <1>6, <1>7, <1>9 DEF EInv, Booked

\* Every step keeps the invariant and is a step that the harness allows.
LEMMA ENext ==
  EInv /\ IInv /\ [FeedNext]_feed_vars /\ [NarrowGap]_track_vars /\ TableRoom'
    => EInv' /\ IInv' /\ [Next]_vars
<1> SUFFICES ASSUME EInv, IInv, [FeedNext]_feed_vars, [NarrowGap]_track_vars, TableRoom'
             PROVE  EInv' /\ IInv' /\ [Next]_vars
    OBVIOUS
<1>1. EInv' /\ [Next]_vars
  <2>1. ASSUME NEW p \in Packet, ReceivePacket(p) PROVE EInv' /\ [Next]_vars
      BY <2>1, ReceiveKeeps DEF ReceivePacket
  <2>2. CASE Dispatch
      BY <2>2, DispatchKeeps DEF IInv
  <2>3. CASE UNCHANGED feed_vars
    <3>1. UNCHANGED <<feed, todo, applied, old_applied, old_levels, old_index, vars, track_vars>>
        BY <2>3 DEF feed_vars, old_vars, net_vars
    <3>2. Tracked'
        BY <3>1 DEF EInv, Tracked, track_vars, TrackInv, TrackTypeOK, Started,
           RangesSound, PendingExact, Missing, End, Clean
    <3>3. AtHand' /\ Booked'
        BY <3>1 DEF EInv, AtHand, Booked, vars, track_vars
    <3> QED BY <3>1, <3>2, <3>3 DEF EInv
  <2> QED BY <2>1, <2>2, <2>3 DEF FeedNext
<1>2. V1Inv(v1_levels, v1_index)'
    BY <1>1, V1Next DEF IInv
<1>3. PICK L, F : Stands(L, F)
    BY DEF IInv
<1>4. Moves(L)
    BY <1>1, <1>2, <1>3, AllMoves DEF IInv
<1> QED BY <1>1, <1>2, <1>4 DEF IInv, Moves

\* While no gap outgrows its field and the reference table has room.
LEMMA EStands == FeedSpec /\ [][NarrowGap]_track_vars /\ []TableRoom => [](EInv /\ IInv)
BY EInit, ENext, PTL DEF FeedSpec

\* Whatever the network loses, repeats and reorders, the receivers' loops drive the
\* v2 and v3 books as the harness of test_v1_v3_equivalence.cpp does, with a legal
\* feed: the end-to-end specification implements that of the books, and all that is
\* proved of the books holds in the receivers (v2/receiver.cpp, v3/receiver.cpp).
THEOREM FeedStaysLegal ==
  FeedSpec /\ [][NarrowGap]_track_vars /\ []TableRoom => LegalForBooks
<1>1. FeedInit => Init
    BY DEF FeedInit
<1> QED BY <1>1, EStands, ENext, PTL DEF FeedSpec, LegalForBooks, Spec

\* So while the pool has room too, v2 and v3 queue the same orders at all times.
THEOREM ReceiversQueueSame ==
  FeedSpec /\ [][NarrowGap]_track_vars /\ []TableRoom /\ []PoolRoom => []SameQueues
BY FeedStaysLegal, QueuesSame, PTL DEF LegalForBooks

-----------------------------------------------------------------------------
(* Why a book differs from the exchange's. *)

\* The numbers up to the highest packet.
SentUpto == Max({high_seq, 1}) - 1

\* What a book holds according to its messages is the exchange's number, or more for
\* want of a message, or nothing for want of the creation.
LEMMA AmountExplained ==
  ASSUME feed \in Feeds, NEW s, SentUpto \in 0 .. Len(feed), Range(s) \subseteq 1 .. SentUpto,
         NEW r \in Ref
  PROVE  Explained(s, Amount(feed, s, r), r)
<1> DEFINE sent == SentUpto
           held == Amount(feed, s, r)
           right == Left(feed, sent)[r]
           w == Weight(feed)
<1>0. Len(feed) \in Nat /\ DOMAIN feed = 1 .. Len(feed) /\ sent \in Nat
      /\ 1 .. sent \subseteq DOMAIN feed
    BY FeedTyped
<1> HIDE DEF sent
<1>a. Explained(s, held, r) <=>
        \/ held = right
        \/ /\ held > right
           /\ \E k \in 1 .. sent : Takes(feed[k], r) /\
                ~ \E c \in 1 .. k : Creates(feed[c], r) /\ Before(s, c, k)
        \/ /\ held = 0
           /\ ~ \E c \in 1 .. sent : Creates(feed[c], r) /\ InEffect(feed, s, c)
    BY DEF Explained, sent, SentUpto
<1>1. CASE Born(feed, s, r) = {}
  <2>1. held = 0
      BY <1>1 DEF Amount
  <2>2. ~ \E c \in 1 .. sent : Creates(feed[c], r) /\ InEffect(feed, s, c)
      BY <1>0, <1>1 DEF Born
  <2> HIDE DEF held, right
  <2> QED BY <1>a, <2>1, <2>2 DEF held
<1>2. ASSUME NEW c \in Born(feed, s, r) PROVE Explained(s, held, r)
  <2> DEFINE T == Since(feed, s, r, c)
             all == TakenBy(feed, r, sent)
  <2>1. /\ c \in DOMAIN feed /\ Creates(feed[c], r) /\ c \in Range(s)
        /\ held = LeftOf(feed, c, T)
      BY AmountIs
  <2>2. c \in 1 .. sent /\ sent \in 0 .. Len(feed)
      BY <2>1 DEF sent
  <2>3. right = feed[c].shares - Sum(w, all)
      BY <2>1, <2>2, Balanced DEF Balance
  <2>4. T \subseteq {j \in DOMAIN feed : Takes(feed[j], r)}
      BY DEF Since
  <2>5. T \subseteq all
      BY BeforeIn DEF Since, TakenBy, sent
  <2>6. /\ IsFiniteSet(all) /\ \A k \in all : w[k] \in Nat \ {0} /\ Takes(feed[k], r)
        /\ all \subseteq DOMAIN feed
      BY <2>2, TakenFacts
  <2>7. Sum(w, T) \in Nat /\ Sum(w, all) \in Nat /\ Sum(w, T) <= Sum(w, all)
      BY <2>5, <2>6, SumOfPart
  <2>8. feed[c].shares \in Nat
      BY <2>1, Takings
  <2> HIDE DEF T, w
  <2>9. CASE \E e \in T : Ends(feed[e])
    <3>1. PICK e \in T : Ends(feed[e])
        BY <2>9
    <3>2. e \in all /\ e \in DOMAIN feed /\ Takes(feed[e], r) /\ sent \in e .. Len(feed)
        BY <1>0, <2>2, <2>4, <2>5, <3>1 DEF TakenBy
    <3>3. right = 0
        BY <3>1, <3>2, EndsAll
    <3>4. held = 0
        BY <2>1, <2>9 DEF LeftOf
    <3> HIDE DEF held, right
    <3> QED BY <1>a, <3>3, <3>4
  <2>10. CASE ~\E e \in T : Ends(feed[e])
    <3>1. held = feed[c].shares - Sum(w, T)
        BY <2>1, <2>10 DEF LeftOf, w
    <3> HIDE DEF held, right
    <3>2. held >= right
        BY <2>3, <2>7, <2>8, <3>1
    <3>3. CASE T = all
        BY <1>a, <2>3, <3>1, <3>3
    <3>4. CASE T # all
      <4>1. PICK k \in all : k \notin T
          BY <2>5, <3>4
      <4>2. k \in 1 .. sent /\ Takes(feed[k], r) /\ k \in DOMAIN feed
          BY <2>6, <4>1 DEF TakenBy
      <4>3. ~Before(s, c, k)
          BY <4>1, <4>2 DEF T, Since
      <4>4. ASSUME NEW d \in 1 .. k, Creates(feed[d], r), Before(s, d, k) PROVE FALSE
        <5>1. d \in DOMAIN feed
            BY <1>0, <4>2
        <5>2. d = c
            BY <2>1, <4>4, <5>1, CreatedOnce
        <5> QED BY <4>3, <4>4, <5>2
      <4>5. held = right \/ held > right
          BY <2>3, <2>7, <2>8, <3>1, <3>2
      <4> QED BY <1>a, <4>2, <4>4, <4>5
    <3> QED BY <3>3, <3>4
  <2> QED BY <2>9, <2>10
<1> QED BY <1>1, <1>2 DEF held

\* v1's and v2's books hold what their messages say, and v3's what v2's do while
\* nothing was missed.
LEMMA HeldIs ==
  ASSUME EInv, NEW r \in Ref
  PROVE  /\ HeldV1(r) = Amount(feed, old_applied, r)
         /\ IInv /\ AllKnown => HeldV3(r) = Amount(feed, applied, r)
<1>1. /\ V1Inv(old_levels, old_index) /\ V1Inv(v1_levels, v1_index)
      /\ Holding(old_levels, old_index, r, Amount(feed, old_applied, r))
      /\ Holding(v1_levels, v1_index, r, Amount(feed, applied, r))
    BY DEF EInv, Booked, Holds
<1>2. HeldV1(r) = Amount(feed, old_applied, r)
  <2>1. Old!SharesOf(old_levels, old_index, r) = V1!SharesOf(old_levels, old_index, r)
      BY DEF Old!SharesOf, V1!SharesOf, Old!Position, V1!Position
  <2>2. CASE r \notin DOMAIN old_index
      BY <1>1, <2>2 DEF HeldV1, Old!Live, Holding, HasLive
  <2>3. CASE r \in DOMAIN old_index
    <3>1. HasLive(old_levels, old_index, r, Amount(feed, old_applied, r))
        BY <1>1, <2>3 DEF Holding
    <3>2. V1!SharesOf(old_levels, old_index, r) = Amount(feed, old_applied, r)
        BY <1>1, <3>1, SharesAre
    <3> QED BY <2>1, <2>3, <3>2 DEF HeldV1, Old!Live
  <2> QED BY <2>2, <2>3
<1>3. ASSUME IInv, AllKnown PROVE HeldV3(r) = Amount(feed, applied, r)
  <2>1. PICK L, F : Stands(L, F)
      BY <1>3 DEF IInv
  <2>2. CASE r \notin DOMAIN v1_index
    <3>1. refs[r] = kNullIdx
        BY <2>1, <2>2, Unknown DEF V1!Live
    <3>2. HeldV3(r) = 0
        BY <3>1, SlotFacts DEF HeldV3, V3!Known
    <3> QED BY <1>1, <2>2, <3>2 DEF Holding, HasLive
  <2>3. CASE r \in DOMAIN v1_index
    <3>1. refs[r] # kNullIdx
        BY <1>3, <2>3 DEF AllKnown
    <3>2. HasLive(v1_levels, v1_index, r, slots[refs[r]].qty)
        BY <2>1, <3>1 DEF Stands, Agrees
    <3>3. HasLive(v1_levels, v1_index, r, Amount(feed, applied, r))
        BY <1>1, <2>3 DEF Holding
    <3>4. slots[refs[r]].qty = Amount(feed, applied, r)
        BY <1>1, <3>2, <3>3, SharesAre
    <3>5. HeldV3(r) = slots[refs[r]].qty
        BY <3>1, SlotFacts DEF HeldV3, V3!Known, V3!Order
    <3> QED BY <3>4, <3>5
  <2> QED BY <2>2, <2>3
<1> QED BY <1>2, <1>3

\* What the invariant says of the errors.
LEMMA ExplainedStands == ASSUME EInv, IInv, AllKnown PROVE ErrorsExplained
<1>1. /\ feed \in Feeds /\ Len(feed) \in Nat /\ DOMAIN feed = 1 .. Len(feed)
      /\ high_seq \in Nat /\ high_seq <= Len(feed) + 1
      /\ \A k \in delivered : k \in Nat /\ k < high_seq
      /\ delivered \subseteq DOMAIN feed
    BY FeedTyped DEF EInv, Tracked, TrackInv, TrackTypeOK, Started
<1>2. SentUpto = IF high_seq > 1 THEN high_seq - 1 ELSE 0
  <2>1. \A x \in {high_seq, 1} : x \in Nat
      BY <1>1
  <2>2. CASE high_seq > 1
    <3>1. \A x \in {high_seq, 1} : x <= high_seq
        BY <1>1, <2>2
    <3>2. Max({high_seq, 1}) = high_seq
        BY <2>1, <3>1, MaxIs
    <3> QED BY <2>2, <3>2 DEF SentUpto
  <2>3. CASE ~(high_seq > 1)
    <3>1. Max({high_seq, 1}) = 1
        BY <1>1, <2>3, MaxIs
    <3> QED BY <2>3, <3>1 DEF SentUpto
  <2> QED BY <2>2, <2>3
<1>3. SentUpto \in 0 .. Len(feed)
    BY <1>1, <1>2
<1>4. delivered \subseteq 1 .. SentUpto
    BY <1>1, <1>2
<1>5. Range(applied) \subseteq 1 .. SentUpto /\ Range(old_applied) \subseteq 1 .. SentUpto
    BY <1>4 DEF EInv, AtHand
<1>6. ASSUME NEW r \in Ref
      PROVE  Explained(applied, HeldV3(r), r) /\ Explained(old_applied, HeldV1(r), r)
    BY <1>1, <1>3, <1>5, HeldIs, AmountExplained
<1> QED BY <1>6 DEF ErrorsExplained

\* However packets are lost, repeated and reordered, no book of the three receivers
\* understates an order it knows, and every other difference from the exchange's book
\* is owed to a message that did not come or came too late (README.md:34-35).
THEOREM ErrorsStayExplained ==
  FeedSpec /\ [][NarrowGap]_track_vars /\ []TableRoom /\ []PoolRoom => []ErrorsExplained
<1>1. Spec /\ []TableRoom /\ []PoolRoom => []AllKnown
    BY NothingMissed
<1>2. EInv /\ IInv /\ AllKnown => ErrorsExplained
    BY ExplainedStands
<1> QED BY <1>1, <1>2, EStands, FeedStaysLegal, PTL DEF LegalForBooks
=============================================================================
