---------------------------- MODULE OrderBookV1 -----------------------------
(***************************************************************************)
(* The v1 baseline books (include/v1/order_book.hpp, src/v1/order_book.cpp *)
(* and the map of books in src/v1/main.cpp): std::map of price levels, a   *)
(* std::list of orders per level and a hash map from order references to   *)
(* list positions.  It is the specification v3 is measured against.        *)
(*                                                                         *)
(* Each handler takes any message; which messages the feed sends is the    *)
(* business of the modules that instantiate this one.                      *)
(***************************************************************************)
EXTENDS Integers, FiniteSetsExt, SequencesExt

CONSTANTS Symbol,     \* stock_locate values
          Ref,        \* order references
          SymbolOf,   \* the symbol each reference belongs to, for the whole day
          Price,      \* prices, in units of 1/Cent of a cent
          UintMod     \* 2^32 in the code: shares wrap there

Side == {"B", "S"}

VARIABLES levels,     \* bids_ and asks_ of every book: price -> list of orders
          ref_index   \* ref_index_ of every book: live reference -> side and price

vars == <<levels, ref_index>>

NoQuote == <<>>       \* std::nullopt of best_bid_ask

Init ==
  /\ levels = [sym \in Symbol |-> [side \in Side |-> <<>>]]
  /\ ref_index = <<>>

-----------------------------------------------------------------------------
(* The steps the handlers are made of, on values lv of levels_ and index of ref_index_. *)

\* levels[price].push_back(...); operator[] makes a missing level.
PushBack(lv, r, side, price, shares) ==
  LET old == lv[SymbolOf[r]][side]
      queue == IF price \in DOMAIN old THEN old[price] ELSE <<>>
      new == [p \in DOMAIN old \cup {price} |->
                IF p = price THEN Append(queue, [ref |-> r, shares |-> shares]) ELSE old[p]]
  IN  [lv EXCEPT ![SymbolOf[r]][side] = new]

\* The list position a live order's locator holds.
Position(r, queue) == CHOOSE k \in DOMAIN queue : queue[k].ref = r

\* The level stays behind, empty, when its last order goes.
BugRemoveLocatorKeepsLevel(lv, index, r) ==
  LET loc == index[r]
      queue == lv[SymbolOf[r]][loc.side][loc.price]
  IN  [lv EXCEPT ![SymbolOf[r]][loc.side][loc.price] = RemoveAt(queue, Position(r, queue))]

\* The list entry goes, and the level with it when it was the last.
RemoveLocator(lv, index, r) ==
  LET loc == index[r]
      side_levels == lv[SymbolOf[r]][loc.side]
      queue == side_levels[loc.price]
      others == RemoveAt(queue, Position(r, queue))
  IN  [lv EXCEPT ![SymbolOf[r]][loc.side] =
         IF others = <<>> THEN Restrict(side_levels, DOMAIN side_levels \ {loc.price})
                          ELSE [side_levels EXCEPT ![loc.price] = others]]

Indexed(index, r, side, price) ==
  [x \in DOMAIN index \cup {r} |->
     IF x = r THEN [side |-> side, price |-> price] ELSE index[x]]

Unindexed(index, r) == Restrict(index, DOMAIN index \ {r})

\* The shares of a live order, through its locator.
SharesOf(lv, index, r) ==
  LET queue == lv[SymbolOf[r]][index[r].side][index[r].price]
  IN  queue[Position(r, queue)].shares

SetShares(lv, index, r, shares) ==
  LET loc == index[r]
      queue == lv[SymbolOf[r]][loc.side][loc.price]
  IN  [lv EXCEPT ![SymbolOf[r]][loc.side][loc.price] =
         [queue EXCEPT ![Position(r, queue)].shares = shares]]

Live(r) == r \in DOMAIN ref_index

-----------------------------------------------------------------------------
(* The handlers. *)

AddOrder(r, side, price, shares) ==
  /\ levels' = PushBack(levels, r, side, price, shares)
  /\ ref_index' = Indexed(ref_index, r, side, price)

Leave(r) ==
  /\ levels' = RemoveLocator(levels, ref_index, r)
  /\ ref_index' = Unindexed(ref_index, r)

\* execute_order and cancel_order: `shares -= n` on a uint32_t, then a test
\* for exactly zero.
Reduce(r, n) ==
  LET left == (SharesOf(levels, ref_index, r) - n) % UintMod
  IN  \/ ~Live(r) /\ UNCHANGED vars
      \/ Live(r) /\ left = 0 /\ Leave(r)
      \/ Live(r) /\ left # 0 /\ levels' = SetShares(levels, ref_index, r, left)
                       /\ UNCHANGED ref_index

ExecuteOrder(r, n) == Reduce(r, n)

CancelOrder(r, n) == Reduce(r, n)

DeleteOrder(r) == \/ ~Live(r) /\ UNCHANGED vars
                  \/ Live(r) /\ Leave(r)

\* The old order leaves first, so a replacement at the same price queues last.
ReplaceOrder(r, new, price, shares) ==
  \/ ~Live(r) /\ UNCHANGED vars
  \/ /\ Live(r)
     /\ levels' = PushBack(RemoveLocator(levels, ref_index, r), new, ref_index[r].side,
                           price, shares)
     /\ ref_index' = Indexed(Unindexed(ref_index, r), new, ref_index[r].side, price)

\* The drivers' and receivers' switch; other types are skipped.
Apply(m) ==
  \/ m.type = "A" /\ AddOrder(m.ref, m.side, m.price, m.shares)
  \/ m.type = "E" /\ ExecuteOrder(m.ref, m.shares)
  \/ m.type = "X" /\ CancelOrder(m.ref, m.shares)
  \/ m.type = "D" /\ DeleteOrder(m.ref)
  \/ m.type = "U" /\ ReplaceOrder(m.ref, m.new, m.price, m.shares)
  \/ m.type \notin {"A", "E", "X", "D", "U"} /\ UNCHANGED vars

\* best_bid_ask
TopOfBook(sym) ==
  LET bids == DOMAIN levels[sym]["B"]
      asks == DOMAIN levels[sym]["S"]
  IN  IF bids = {} \/ asks = {} THEN NoQuote ELSE <<Max(bids), Min(asks)>>

-----------------------------------------------------------------------------

\* ref_index_ and the level lists hold the same orders, no list is empty, and
\* every order is under the side and price its locator names.
LocatorsValid ==
  /\ \A sym \in Symbol, side \in Side : \A price \in DOMAIN levels[sym][side] :
       LET queue == levels[sym][side][price]
       IN  /\ queue # <<>>
           /\ \A k \in DOMAIN queue :
                /\ Live(queue[k].ref) /\ SymbolOf[queue[k].ref] = sym
                /\ ref_index[queue[k].ref] = [side |-> side, price |-> price]
                /\ \A l \in DOMAIN queue : queue[k].ref = queue[l].ref => k = l
  /\ \A r \in DOMAIN ref_index :
       LET side_levels == levels[SymbolOf[r]][ref_index[r].side]
       IN  /\ ref_index[r].price \in DOMAIN side_levels
           /\ \E k \in DOMAIN side_levels[ref_index[r].price] :
                side_levels[ref_index[r].price][k].ref = r
=============================================================================
