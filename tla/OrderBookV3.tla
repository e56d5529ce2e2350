---------------------------- MODULE OrderBookV3 -----------------------------
(***************************************************************************)
(* The v3 books (include/v3/order_book.hpp, src/v3/order_book.cpp) with    *)
(* the order pool (include/v3/object_pool.hpp) and the reference table     *)
(* they all share.  The table is the abstract map of RefMap.tla, which     *)
(* RefTable.tla implements; everything else is the code's own structure:   *)
(* intrusive lists through pool slots, a free list through the same        *)
(* next_idx field, dense price levels around a base, overflow levels, the  *)
(* occupied bits and the two cached best levels.                           *)
(*                                                                         *)
(* Each handler takes any message; which messages the feed sends is the    *)
(* business of the modules that instantiate this one.                      *)
(***************************************************************************)
EXTENDS Integers, Sequences, FiniteSetsExt

CONSTANTS Symbol,        \* stock_locate values
          Ref,           \* order references
          SymbolOf,      \* the symbol each reference belongs to
          Price,         \* prices; Cent of them to the cent
          Cent,          \* 100 in the code
          kWindow,       \* 1024 in the code: dense price levels per side
          kWordBits,     \* 64 in the code: bits of a word of occupied_
          PoolCapacity,  \* slots of the order pool
          RefCapacity    \* slots of the reference table

Side == {"B", "S"}
Slot == 0 .. PoolCapacity - 1
kNullIdx == -1           \* 0xFFFFFFFF in the code: no slot
kAskBase == kWindow
NoQuote == <<>>          \* std::nullopt of best_bid_ask

VARIABLES slots,         \* slots_ of the pool
          free_head,     \* free_head_ of the pool
          refs,          \* the reference table
          books          \* the OrderBook of every symbol

vars == <<slots, free_head, refs, books>>

Table == INSTANCE RefMap WITH Key <- Ref, Value <- Slot, kNullIdx <- kNullIdx,
                              Capacity <- RefCapacity, map <- refs,
                              call <- kNullIdx, ret <- kNullIdx    \* only its operators are used

EmptyLevel == [head_idx |-> kNullIdx, tail_idx |-> kNullIdx,
               total_qty |-> 0, order_count |-> 0]

\* What a slot holds besides its link while it is free: nothing reads it
\* before link_order has written all four fields again.
Blank(next) == [next_idx |-> next, prev_idx |-> 0, qty |-> 0, level_idx |-> 0]

EmptyBook ==
  [base_set   |-> FALSE,
   base_cents |-> -1,
   levels     |-> [x \in 0 .. 2 * kWindow - 1 |-> EmptyLevel],
   overflow   |-> <<>>,    \* [side, price] of levels_[2 * kWindow + k - 1]
   occupied   |-> {},      \* the set bits of occupied_
   best_bid   |-> -1,      \* best_bid_idx_
   best_ask   |-> -1]      \* best_ask_idx_

Init ==
  /\ slots = [s \in Slot |-> Blank(IF s + 1 \in Slot THEN s + 1 ELSE kNullIdx)]
  /\ free_head = 0
  /\ refs = Table!Empty
  /\ books = [sym \in Symbol |-> EmptyBook]

\* The memory the books share, threaded through the steps of one handler.
Memory == [slots |-> slots, free_head |-> free_head, refs |-> refs, books |-> books]

Becomes(m) == /\ slots' = m.slots /\ free_head' = m.free_head
              /\ refs' = m.refs /\ books' = m.books

-----------------------------------------------------------------------------
(* OrderPool and the reference table. *)

\* The slot is freed without a link to the slots that were free before.
BugReleaseLosesRest(m, s) ==
  [m EXCEPT !.slots[s] = Blank(kNullIdx), !.free_head = s]

Release(m, s) == [m EXCEPT !.slots[s] = Blank(m.free_head), !.free_head = s]

Allocate(m) == [m EXCEPT !.free_head = m.slots[m.free_head].next_idx]

Insert(m, r, s) == [m EXCEPT !.refs = Table!Put(m.refs, r, s)]

\* The reference outlives its order.
BugEraseForgets(m, r) == m

Erase(m, r) == [m EXCEPT !.refs = Table!Drop(m.refs, r)]

-----------------------------------------------------------------------------
(* Level indices of a book b. *)

Dense(level) == level < 2 * kWindow

SideOf(b, level) ==
  IF level < kAskBase THEN "B"
  ELSE IF Dense(level) THEN "S" ELSE b.overflow[level - 2 * kWindow + 1].side

\* price_of, for the dense levels: the only ones best_bid_ask asks about.
PriceOf(b, level) ==
  (b.base_cents + (IF level < kAskBase THEN level ELSE level - kAskBase)) * Cent

\* The first price a book sees fixes the window for good.
WithBase(b, price) ==
  IF b.base_set THEN b
  ELSE [b EXCEPT !.base_set = TRUE,
                 !.base_cents = price \div Cent - kWindow \div 2]

InWindow(b, price) ==
  price % Cent = 0 /\ price \div Cent - b.base_cents \in 0 .. kWindow - 1

\* One overflow map for both sides.
BugOverflowIgnoresSide(b, price, side) ==
  {k \in DOMAIN b.overflow : b.overflow[k].price = price}

OverflowIndex(b, price, side) ==
  {k \in DOMAIN b.overflow : b.overflow[k] = [side |-> side, price |-> price]}

WithOverflow(b, price, side) ==
  IF InWindow(b, price) \/ OverflowIndex(b, price, side) # {} THEN b
  ELSE [b EXCEPT
         !.overflow = Append(@, [side |-> side, price |-> price]),
         !.levels = [x \in 0 .. 2 * kWindow + Len(b.overflow) |->
                       IF x \in DOMAIN @ THEN @[x] ELSE EmptyLevel]]

\* level_for, in two parts: the book it leaves and the index it returns there.
Prepared(b, price, side) == WithOverflow(WithBase(b, price), price, side)

LevelFor(b, price, side) ==
  IF InWindow(b, price)
    THEN price \div Cent - b.base_cents + (IF side = "B" THEN 0 ELSE kAskBase)
    ELSE 2 * kWindow - 1 + CHOOSE k \in OverflowIndex(b, price, side) : TRUE

\* The set bits of one word of occupied_.
Word(occupied, w) == {x \in occupied : x \div kWordBits = w}

\* The scans look at the word of `from`, masked, then at whole words downwards
\* or upwards until one has a bit.
FindPrevSet(occupied, from) ==
  LET scan[w \in -1 .. from \div kWordBits] ==
        LET word == {x \in Word(occupied, w) : x <= from}
        IN  IF w = -1 THEN -1 ELSE IF word # {} THEN Max(word) ELSE scan[w - 1]
  IN  scan[from \div kWordBits]

\* The scan does not begin at the ask side.
BugFindNextSetFromZero(occupied, from) ==
  IF occupied = {} THEN -1 ELSE Min(occupied)

FindNextSet(occupied, from) ==
  LET last == (2 * kWindow - 1) \div kWordBits
      scan[w \in 0 .. last + 1] ==
        LET word == {x \in Word(occupied, w) : x >= from}
        IN  IF w > last THEN -1 ELSE IF word # {} THEN Min(word) ELSE scan[w + 1]
  IN  scan[from \div kWordBits]

-----------------------------------------------------------------------------
(* link_order and unlink_order. *)

\* A slot's field, when there is a slot.
SetNext(sl, s, next) == IF s = kNullIdx THEN sl ELSE [sl EXCEPT ![s].next_idx = next]

\* The successor keeps pointing at the slot that has left.
BugSetPrevSkipped(sl, s, prev) == sl

SetPrev(sl, s, prev) == IF s = kNullIdx THEN sl ELSE [sl EXCEPT ![s].prev_idx = prev]

\* A better ask does not displace the cached one.
BugLinkForgetsAsk(m, sym, level, s, qty) ==
  LET b == m.books[sym]
      lvl == b.levels[level]
      node == [next_idx |-> kNullIdx, prev_idx |-> lvl.tail_idx,
               qty |-> qty, level_idx |-> level]
      linked == [head_idx |-> IF lvl.tail_idx = kNullIdx THEN s ELSE lvl.head_idx,
                 tail_idx |-> s,
                 total_qty |-> lvl.total_qty + qty,
                 order_count |-> lvl.order_count + 1]
  IN  [m EXCEPT
        !.slots = SetNext([@ EXCEPT ![s] = node], lvl.tail_idx, s),
        !.books[sym] = [b EXCEPT
          !.levels[level] = linked,
          !.occupied = IF Dense(level) THEN @ \cup {level} ELSE @,
          !.best_bid = IF level < kAskBase /\ level > @ THEN level ELSE @,
          !.best_ask = IF level >= kAskBase /\ Dense(level) /\ @ < 0 THEN level ELSE @]]

LinkOrder(m, sym, level, s, qty) ==
  LET b == m.books[sym]
      lvl == b.levels[level]
      node == [next_idx |-> kNullIdx, prev_idx |-> lvl.tail_idx,
               qty |-> qty, level_idx |-> level]
      linked == [head_idx |-> IF lvl.tail_idx = kNullIdx THEN s ELSE lvl.head_idx,
                 tail_idx |-> s,
                 total_qty |-> lvl.total_qty + qty,
                 order_count |-> lvl.order_count + 1]
  IN  [m EXCEPT
        !.slots = SetNext([@ EXCEPT ![s] = node], lvl.tail_idx, s),
        !.books[sym] = [b EXCEPT
          !.levels[level] = linked,
          !.occupied = IF Dense(level) THEN @ \cup {level} ELSE @,
          !.best_bid = IF level < kAskBase /\ level > @ THEN level ELSE @,
          !.best_ask = IF level >= kAskBase /\ Dense(level) /\ (@ < 0 \/ level < @)
                         THEN level ELSE @]]

UnlinkOrder(m, sym, s) ==
  LET b == m.books[sym]
      o == m.slots[s]
      level == o.level_idx
      lvl == b.levels[level]
      left == [head_idx |-> IF o.prev_idx = kNullIdx THEN o.next_idx ELSE lvl.head_idx,
               tail_idx |-> IF o.next_idx = kNullIdx THEN o.prev_idx ELSE lvl.tail_idx,
               total_qty |-> lvl.total_qty - o.qty,
               order_count |-> lvl.order_count - 1]
      emptied == left.head_idx = kNullIdx
      occupied == IF emptied THEN b.occupied \ {level} ELSE b.occupied
  IN  [m EXCEPT
        !.slots = SetPrev(SetNext(@, o.prev_idx, o.next_idx), o.next_idx, o.prev_idx),
        !.books[sym] = [b EXCEPT
          !.levels[level] = left,
          !.occupied = occupied,
          !.best_bid = IF emptied /\ level = @ THEN FindPrevSet(occupied, @) ELSE @,
          !.best_ask = IF emptied /\ level = @ THEN FindNextSet(occupied, @) ELSE @]]

-----------------------------------------------------------------------------
(* The handlers. *)

\* add_order, and the second half of replace_order: without a free slot the
\* order is dropped, without room in the table it rests but is not indexed.
Rest(m, r, side, price, shares) ==
  LET sym == SymbolOf[r]
      s == m.free_head
      taken == [Allocate(m) EXCEPT !.books[sym] = Prepared(@, price, side)]
      level == LevelFor(taken.books[sym], price, side)
  IN  IF s = kNullIdx THEN m
      ELSE Insert(LinkOrder(taken, sym, level, s, shares), r, s)

\* Unlinked, its slot back in the pool, its reference forgotten.
Gone(m, r) == Erase(Release(UnlinkOrder(m, SymbolOf[r], m.refs[r]), m.refs[r]), r)

Known(r) == refs[r] # kNullIdx

Order(r) == slots[refs[r]]

AddOrder(r, side, price, shares) == Becomes(Rest(Memory, r, side, price, shares))

\* The level's total forgets a partial execution.
BugReduceKeepsTotal(r, n) ==
  \/ ~Known(r) /\ UNCHANGED vars
  \/ Known(r) /\ n >= Order(r).qty /\ Becomes(Gone(Memory, r))
  \/ /\ Known(r) /\ n < Order(r).qty
     /\ slots' = [slots EXCEPT ![refs[r]].qty = @ - n]
     /\ UNCHANGED <<free_head, refs, books>>

\* A partial execution relinks the order, at the end of its level.
BugReduceRequeues(r, n) ==
  \/ ~Known(r) /\ UNCHANGED vars
  \/ Known(r) /\ n >= Order(r).qty /\ Becomes(Gone(Memory, r))
  \/ /\ Known(r) /\ n < Order(r).qty
     /\ LET left == UnlinkOrder(Memory, SymbolOf[r], refs[r])
        IN  Becomes(LinkOrder(left, SymbolOf[r], Order(r).level_idx, refs[r],
                              Order(r).qty - n))

\* execute_order and cancel_order, which differ in the message only.
Reduce(r, n) ==
  \/ ~Known(r) /\ UNCHANGED vars
  \/ Known(r) /\ n >= Order(r).qty /\ Becomes(Gone(Memory, r))
  \/ /\ Known(r) /\ n < Order(r).qty
     /\ slots' = [slots EXCEPT ![refs[r]].qty = @ - n]
     /\ books' = [books EXCEPT
          ![SymbolOf[r]].levels[Order(r).level_idx].total_qty = @ - n]
     /\ UNCHANGED <<free_head, refs>>

ExecuteOrder(r, n) == Reduce(r, n)

CancelOrder(r, n) == Reduce(r, n)

DeleteOrder(r) == \/ ~Known(r) /\ UNCHANGED vars
                  \/ Known(r) /\ Becomes(Gone(Memory, r))

\* The replacement asks for a slot before the old order gives its own back.
BugReplaceAllocatesFirst(r, new, price, shares) ==
  \/ ~Known(r) /\ UNCHANGED vars
  \/ /\ Known(r)
     /\ LET side == SideOf(books[SymbolOf[r]], Order(r).level_idx)
        IN  Becomes(Gone(Rest(Memory, new, side, price, shares), r))

\* The side is read before the slot is given back.
ReplaceOrder(r, new, price, shares) ==
  \/ ~Known(r) /\ UNCHANGED vars
  \/ /\ Known(r)
     /\ LET side == SideOf(books[SymbolOf[r]], Order(r).level_idx)
        IN  Becomes(Rest(Gone(Memory, r), new, side, price, shares))

\* The drivers' and receivers' switch; other types are skipped.
Apply(m) ==
  \/ m.type = "A" /\ AddOrder(m.ref, m.side, m.price, m.shares)
  \/ m.type = "E" /\ ExecuteOrder(m.ref, m.shares)
  \/ m.type = "X" /\ CancelOrder(m.ref, m.shares)
  \/ m.type = "D" /\ DeleteOrder(m.ref)
  \/ m.type = "U" /\ ReplaceOrder(m.ref, m.new, m.price, m.shares)
  \/ m.type \notin {"A", "E", "X", "D", "U"} /\ UNCHANGED vars

\* An overflow level counts even when it has emptied.
BugTopOfBookStaleOverflow(sym) ==
  LET b == books[sym]
      Overflowing(side) == {b.overflow[k].price : k \in
        {l \in DOMAIN b.overflow : b.overflow[l].side = side}}
      Cached(level) == IF level >= 0 THEN {PriceOf(b, level)} ELSE {}
      bids == Cached(b.best_bid) \cup Overflowing("B")
      asks == Cached(b.best_ask) \cup Overflowing("S")
  IN  IF bids = {} \/ asks = {} THEN NoQuote ELSE <<Max(bids), Min(asks)>>

\* best_bid_ask: the cached dense level against the best live overflow level.
TopOfBook(sym) ==
  LET b == books[sym]
      Overflowing(side) == {b.overflow[k].price : k \in
        {l \in DOMAIN b.overflow : /\ b.overflow[l].side = side
                                   /\ b.levels[2 * kWindow + l - 1].head_idx # kNullIdx}}
      Cached(level) == IF level >= 0 THEN {PriceOf(b, level)} ELSE {}
      bids == Cached(b.best_bid) \cup Overflowing("B")
      asks == Cached(b.best_ask) \cup Overflowing("S")
  IN  IF bids = {} \/ asks = {} THEN NoQuote ELSE <<Max(bids), Min(asks)>>
=============================================================================
