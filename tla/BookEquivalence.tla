-------------------------- MODULE BookEquivalence ---------------------------
(***************************************************************************)
(* The v1 and the v3 books driven by the same messages, as the loop of     *)
(* tests/v3/test_v1_v3_equivalence.cpp drives them.  The feed is a legal   *)
(* one: a reference is added only while no order bears it, and executions  *)
(* and cancels never exceed what is left of an order; messages about an    *)
(* order that is gone do arrive.                                           *)
(***************************************************************************)
EXTENDS Integers, Sequences, FiniteSetsExt, Functions

CONSTANTS Symbol, Ref, SymbolOf, Price, UintMod,
          Cent, kWindow, kWordBits, PoolCapacity, RefCapacity,
          Quotes       \* the [side, price, shares] an order may be quoted with

\* Sizes are positive, prices are numbers, an order's shares fit a uint32_t.
ASSUME BooksAssumption ==
  /\ {UintMod, Cent, kWindow, kWordBits, PoolCapacity} \subseteq Nat \ {0}
  /\ RefCapacity \in Nat /\ Price \subseteq Nat
  /\ SymbolOf \in [Ref -> Symbol]
  /\ Quotes \subseteq [side : {"B", "S"}, price : Price, shares : 0 .. UintMod - 1]

VARIABLES v1_levels, v1_index,             \* the v1 books
          slots, free_head, refs, books    \* the v3 books

vars == <<v1_levels, v1_index, slots, free_head, refs, books>>

V1 == INSTANCE OrderBookV1 WITH levels <- v1_levels, ref_index <- v1_index
V3 == INSTANCE OrderBookV3

Side == {"B", "S"}
kNullIdx == V3!kNullIdx
NoQuote == V1!NoQuote

Init == V1!Init /\ V3!Init

-----------------------------------------------------------------------------
(* The messages. *)

\* Shares that may be taken from an order; any message may name a gone one.
Takeable(r) == IF V1!Live(r) THEN 1 .. V1!SharesOf(v1_levels, v1_index, r) ELSE {1}

Add(r, q) ==
  /\ ~V1!Live(r)
  /\ V1!AddOrder(r, q.side, q.price, q.shares)
  /\ V3!AddOrder(r, q.side, q.price, q.shares)

Execute(r) == \E n \in Takeable(r) : V1!ExecuteOrder(r, n) /\ V3!ExecuteOrder(r, n)

Cancel(r) == \E n \in Takeable(r) : V1!CancelOrder(r, n) /\ V3!CancelOrder(r, n)

Delete(r) == V1!DeleteOrder(r) /\ V3!DeleteOrder(r)

Replace(r, new, q) ==
  /\ ~V1!Live(new) /\ new # r /\ SymbolOf[new] = SymbolOf[r]
  /\ V1!ReplaceOrder(r, new, q.price, q.shares)
  /\ V3!ReplaceOrder(r, new, q.price, q.shares)

Next == \E r \in Ref :
  \/ \E q \in Quotes : Add(r, q)
  \/ Execute(r)
  \/ Cancel(r)
  \/ Delete(r)
  \/ \E new \in Ref, q \in Quotes : Replace(r, new, q)

Spec == Init /\ [][Next]_vars

-----------------------------------------------------------------------------
(* What v3's memory stands for. *)

\* The slots met from s along next_idx; a cycle shows as too long a chain.
Chain(s) ==
  LET at[k \in 1 .. PoolCapacity] ==
        IF k = 1 THEN s
        ELSE IF at[k - 1] = kNullIdx THEN kNullIdx ELSE slots[at[k - 1]].next_idx
  IN  [k \in 1 .. Cardinality({l \in 1 .. PoolCapacity : at[l] # kNullIdx}) |-> at[k]]

\* The levels of a book that stand for a side and a price: one or none.
LevelsOf(b, side, price) ==
  IF ~b.base_set THEN {}
  ELSE IF V3!InWindow(b, price) THEN {V3!LevelFor(b, price, side)}
  ELSE {2 * kWindow - 1 + k : k \in V3!OverflowIndex(b, price, side)}

Bearers(s) == {r \in Ref : refs[r] = s}

QueueV3(sym, side, price) ==
  LET heads == {books[sym].levels[l].head_idx : l \in LevelsOf(books[sym], side, price)}
      chain == IF heads = {} THEN <<>> ELSE Chain(CHOOSE h \in heads : TRUE)
  IN  [k \in DOMAIN chain |-> [refs |-> Bearers(chain[k]), shares |-> slots[chain[k]].qty]]

QueueV1(sym, side, price) ==
  LET side_levels == v1_levels[sym][side]
      queue == IF price \in DOMAIN side_levels THEN side_levels[price] ELSE <<>>
  IN  [k \in DOMAIN queue |-> [refs |-> {queue[k].ref}, shares |-> queue[k].shares]]

-----------------------------------------------------------------------------
(* Invariants and action properties. *)

\* Types of both books' state.
TypeOK ==
  /\ \A sym \in Symbol, side \in Side : DOMAIN v1_levels[sym][side] \subseteq Price
  /\ DOMAIN v1_index \subseteq Ref
  /\ slots \in [V3!Slot -> [next_idx : V3!Slot \cup {kNullIdx},
                            prev_idx : V3!Slot \cup {kNullIdx},
                            qty : Nat, level_idx : Nat]]
  /\ free_head \in V3!Slot \cup {kNullIdx}
  /\ refs \in [Ref -> V3!Slot \cup {kNullIdx}]
  /\ \A sym \in Symbol :
       LET b == books[sym]
           n == 2 * kWindow + Len(b.overflow)
       IN  /\ b.levels \in [0 .. n - 1 ->
                  [head_idx : V3!Slot \cup {kNullIdx}, tail_idx : V3!Slot \cup {kNullIdx},
                   total_qty : Nat, order_count : Nat]]
           /\ b.occupied \subseteq 0 .. 2 * kWindow - 1
           /\ b.best_bid \in -1 .. kWindow - 1
           /\ b.best_ask \in {-1} \cup kWindow .. 2 * kWindow - 1

\* v1's locators always name an order that is there (order_book.cpp:4-11).
V1LocatorsValid == V1!LocatorsValid

\* "they agree on top-of-book after every single message"
\* (tests/v3/test_v1_v3_equivalence.cpp:1-4).
TopOfBookAgrees == \A sym \in Symbol : V3!TopOfBook(sym) = V1!TopOfBook(sym)

\* Every price level of v3 queues the same orders with the same shares in the
\* same order as v1's, through all relinking and slot reuse.
SameQueues == \A sym \in Symbol, side \in Side, price \in Price :
  QueueV3(sym, side, price) = QueueV1(sym, side, price)

\* A pool that ran out costs only orders that were dropped on arrival: v3
\* queues what it still indexes, in the order and with the shares of v1, and
\* nothing else is linked.
QueuesAgreeUpToLoss == \A sym \in Symbol, side \in Side, price \in Price :
  LET v3_queue == QueueV3(sym, side, price)
      v1_queue == QueueV1(sym, side, price)
      kept == {k \in DOMAIN v1_queue : \E r \in v1_queue[k].refs : V3!Known(r)}
  IN  \E at \in [DOMAIN v3_queue -> kept] :
        /\ \A j, k \in DOMAIN v3_queue : j < k => at[j] < at[k]
        /\ Range(at) = kept
        /\ \A k \in DOMAIN v3_queue : v3_queue[k] = v1_queue[at[k]]

\* Free list and resting orders share the next_idx field and split the pool
\* between them: no slot is lost, in use twice, or free while in use.
PoolExact ==
  LET free == Chain(free_head)
      resting == {refs[r] : r \in {x \in Ref : V3!Known(x)}}
  IN  /\ Cardinality(Range(free)) = Len(free)
      /\ Range(free) \cap resting = {}
      /\ Range(free) \cup resting = V3!Slot

\* The cached data of a book are what a full scan would compute: bits and best
\* levels (order_book.cpp:99-104 repairs them lazily), totals and counts.
CachesExact == \A sym \in Symbol :
  LET b == books[sym]
      qty == [s \in V3!Slot |-> slots[s].qty]
      taken == {x \in 0 .. 2 * kWindow - 1 : b.levels[x].head_idx # kNullIdx}
      bids == {x \in taken : x < kWindow}
      asks == taken \ bids
  IN  /\ b.occupied = taken
      /\ b.best_bid = IF bids = {} THEN -1 ELSE Max(bids)
      /\ b.best_ask = IF asks = {} THEN -1 ELSE Min(asks)
      /\ \A x \in DOMAIN b.levels :
           LET chain == Chain(b.levels[x].head_idx)
           IN  /\ b.levels[x].order_count = Len(chain)
               /\ b.levels[x].total_qty
                    = MapThenSumSet(LAMBDA s : qty[s], Range(chain))

Ahead(x, y) == \E sym \in Symbol, side \in Side, price \in Price :
  LET queue == QueueV3(sym, side, price)
  IN  \E k, l \in DOMAIN queue : k < l /\ x \in queue[k].refs /\ y \in queue[l].refs

\* Time priority: while two orders stay, no message lets one overtake the
\* other; a partial execution or cancel does not cost an order its place.
PriorityKept ==
  [][\A x, y \in Ref :
       Ahead(x, y) /\ V3!Known(x)' /\ V3!Known(y)' => Ahead(x, y)']_vars

\* v3 misses an order only if it was added while the pool was empty, or if it
\* replaces an order that v3 had already missed: a replacement takes over the
\* slot of the order it replaces and is never lost itself.
LossExplained ==
  [][\A r \in Ref :
       V1!Live(r)' /\ ~V1!Live(r) /\ ~V3!Known(r)' =>
         \/ free_head = kNullIdx /\ \A x \in Ref : V1!Live(x) => V1!Live(x)'
         \/ \E x \in Ref : V1!Live(x) /\ ~V3!Known(x) /\ ~V1!Live(x)']_vars
=============================================================================
