------------------------------ MODULE EndToEnd ------------------------------
(***************************************************************************)
(* From the exchange's feed to the books of the three receivers.  The      *)
(* network gives every receiver the same datagrams (Receivers.tla); the    *)
(* messages of an accepted packet are parsed and dispatched one by one     *)
(* before the next datagram is read.  v2 feeds v1's books with v3's        *)
(* tracking, so v2 and v3 dispatch together; v1 leaves late packets out.   *)
(***************************************************************************)
EXTENDS BookEquivalence, ReceiverV3

CONSTANTS ByteBase, MaxCopies,
          Feeds        \* the sessions: what the exchange sends, message by message

\* v2's books are v1_levels and v1_index, v3's slots, free_head, refs and books
\* (BookEquivalence.tla); the tracking of both is ReceiverV3.tla's.
VARIABLES feed,
          todo,        \* numbers of the packet's messages still to be dispatched
          late,        \* v1 has taken the packet for a duplicate
          applied,     \* auxiliary: what v2 and v3 have dispatched, in order
          old_applied, \* auxiliary: what v1 has dispatched, in order
          old_levels, old_index,               \* v1: its books
          arrivals, done, truly_lost,          \* the network
          expected_seq, v1_gaps, v1_lost, v1_dups, v1_delivered

Itch == INSTANCE ItchMessages
Net == INSTANCE Receivers
Old == INSTANCE OrderBookV1 WITH levels <- old_levels, ref_index <- old_index

old_vars == <<old_levels, old_index>>
net_vars == <<arrivals, done, truly_lost, expected_seq, v1_gaps, v1_lost, v1_dups,
              v1_delivered, track_vars>>
feed_vars == <<feed, todo, late, applied, old_applied, old_vars, vars, net_vars>>

FeedInit ==
  /\ feed \in Feeds
  /\ todo = <<>> /\ late = FALSE /\ applied = <<>> /\ old_applied = <<>>
  /\ Old!Init /\ Init /\ Net!Init

-----------------------------------------------------------------------------

\* A datagram is read and judged; of an accepted one the messages are at hand.
ReceivePacket(p) ==
  /\ todo = <<>>
  /\ Net!Arrive(p)
  /\ todo' = IF messages' = messages THEN <<>> ELSE [i \in 1 .. p.count |-> p.seq + i - 1]
  /\ late' = (v1_delivered' = v1_delivered)
  /\ UNCHANGED <<feed, applied, old_applied, old_vars, vars>>

\* One round of the loop over a packet's messages.
Dispatch ==
  LET m == Itch!Parse(Itch!Wire(feed[Head(todo)]))
  IN  /\ todo # <<>>
      /\ todo' = Tail(todo)
      /\ applied' = Append(applied, Head(todo))
      /\ V1!Apply(m) /\ V3!Apply(m)
      /\ IF late THEN UNCHANGED <<old_applied, old_vars>>
                 ELSE Old!Apply(m) /\ old_applied' = Append(old_applied, Head(todo))
      /\ UNCHANGED <<feed, late, net_vars>>

FeedNext == (\E p \in Packet : ReceivePacket(p)) \/ Dispatch

FeedSpec == FeedInit /\ [][FeedNext]_feed_vars

-----------------------------------------------------------------------------
(* What the exchange sends, and what its own book holds. *)

Message ==
  LET Shares == 1 .. UintMod - 1
  IN  [type : {"A"}, stock_locate : Symbol, ref : Ref, side : Side, price : Price,
       shares : Shares]
      \cup [type : {"E", "X"}, stock_locate : Symbol, ref : Ref, shares : Shares]
      \cup [type : {"D"}, stock_locate : Symbol, ref : Ref]
      \cup [type : {"U"}, stock_locate : Symbol, ref : Ref, new : Ref, price : Price,
            shares : Shares]
      \cup [type : STRING \ {"A", "E", "X", "D", "U"}]

\* Shares left of every order after message m; 0 for one that does not rest.
After(left, m) ==
  CASE m.type = "A" -> [left EXCEPT ![m.ref] = m.shares]
    [] m.type \in {"E", "X"} -> [left EXCEPT ![m.ref] = @ - m.shares]
    [] m.type = "D" -> [left EXCEPT ![m.ref] = 0]
    [] m.type = "U" -> [left EXCEPT ![m.ref] = 0, ![m.new] = m.shares]
    [] OTHER -> left

\* Shares left of every order after the first n messages of f.
Left(f, n) == LET left[k \in 0 .. n] == IF k = 0 THEN [r \in Ref |-> 0]
                                        ELSE After(left[k - 1], f[k])
              IN  left[n]

Creates(m, r) == \/ m.type = "A" /\ m.ref = r
                 \/ m.type = "U" /\ m.new = r
Takes(m, r) == m.type \in {"E", "X", "D", "U"} /\ m.ref = r

\* What the exchange may send as message k of f: a new order under a reference it
\* has not used before, or a message about shares that rest.
LegalAt(f, k) ==
  LET m == f[k]
      left == Left(f, k - 1)
  IN  /\ \A r \in Ref, j \in 1 .. k - 1 : Creates(m, r) => ~Creates(f[j], r)
      /\ m.type \in {"E", "X"} => m.shares <= left[m.ref]
      /\ m.type \in {"D", "U"} => left[m.ref] > 0
      /\ m.type \in {"A", "E", "X", "D", "U"} => m.stock_locate = SymbolOf[m.ref]
      /\ m.type = "U" => SymbolOf[m.new] = SymbolOf[m.ref]

\* The harness is given the quotes of the session.
InQuotes(m) == m.type \in {"A", "U"} => \E q \in Quotes :
  q.price = m.price /\ q.shares = m.shares /\ (m.type = "A" => q.side = m.side)

\* The feed is the exchange's, its numbers fit their fields, and every packet
\* holds some of its messages.
ASSUME FeedsAssumption == \A f \in Feeds :
  /\ f \in Seq(Message)
  /\ \A k \in DOMAIN f : LegalAt(f, k) /\ Itch!Fits(f[k]) /\ InQuotes(f[k])
  /\ \A p \in Packet : Messages(p) \subseteq DOMAIN f

ASSUME PacketsAssumption == WellFormed

ASSUME BytesAssumption == ByteBase \in Nat \ {0, 1}

-----------------------------------------------------------------------------
(* What the books hold. *)

HeldV1(r) == IF Old!Live(r) THEN Old!SharesOf(old_levels, old_index, r) ELSE 0
HeldV3(r) == IF V3!Known(r) THEN V3!Order(r).qty ELSE 0

Before(s, j, k) == \E a, b \in DOMAIN s : a < b /\ s[a] = j /\ s[b] = k

\* Message k of s found what it needs: an add always, a replacement its original.
InEffect(f, s, k) ==
  LET eff[j \in DOMAIN f] ==
        \/ f[j].type = "A" /\ j \in Range(s)
        \/ f[j].type = "U" /\ \E i \in 1 .. j - 1 :
             Creates(f[i], f[j].ref) /\ eff[i] /\ Before(s, i, j)
  IN  eff[k]

\* An order is as the exchange has it; or it has more shares than it should,
\* because a message that takes some did not come, or came before the order;
\* or it is not there, because the message that creates it had no effect.
Explained(s, held, r) ==
  LET sent == Max({high_seq, 1}) - 1
      right == Left(feed, sent)[r]
  IN  \/ held = right
      \/ /\ held > right
         /\ \E k \in 1 .. sent : Takes(feed[k], r) /\
              ~ \E c \in 1 .. k : Creates(feed[c], r) /\ Before(s, c, k)
      \/ /\ held = 0
         /\ ~ \E c \in 1 .. sent : Creates(feed[c], r) /\ InEffect(feed, s, c)

-----------------------------------------------------------------------------

\* Every parser reads from the exchange's bytes what the exchange put there.
ParsedAsSent == \A k \in DOMAIN feed :
  LET m == Itch!Parse(Itch!Wire(feed[k])) IN \A x \in DOMAIN feed[k] : m[x] = feed[k][x]

\* Loss, repetition and reordering never make the feed an illegal one for the
\* books: what is dispatched is what the harness of BookEquivalence.tla allows, so
\* an execution never exceeds what is left and no live reference is added again.
LegalForBooks == Spec

\* No receiver's book understates an order it knows, and every other error in a
\* book is the trace of a message that did not come or came too late.
ErrorsExplained == \A r \in Ref : /\ Explained(applied, HeldV3(r), r)
                                  /\ Explained(old_applied, HeldV1(r), r)

\* "sequence gap tracking (detect loss, tolerate reordering)" (README.md:34-35):
\* when all messages have come, in whatever order, the book is the exchange's.
ReorderingTolerated ==
  todo = <<>> /\ delivered = DOMAIN feed =>
    \A r \in Ref : HeldV3(r) = Left(feed, Len(feed))[r]
=============================================================================
