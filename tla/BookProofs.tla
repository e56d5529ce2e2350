----------------------------- MODULE BookProofs -----------------------------
(***************************************************************************)
(* The v3 books and what they have in common with the v1 books, for any    *)
(* symbols, references, prices, window, word width, pool and table.        *)
(*                                                                         *)
(* v3 keeps its orders in one array of slots that is linked in place.  The *)
(* proofs name what the links stand for: L, a list of slots for every      *)
(* level of every book, and F, the free list.  The inductive invariant     *)
(* says that such lists exist, that they split the pool, that every cached *)
(* value is what they say, and that the orders they hold are v1's, with    *)
(* v1's shares, at v1's prices (Rep, Agrees) and in v1's order             *)
(* (OrderAgrees).  One step per handler shows which lists it leads to.     *)
(*                                                                         *)
(* Of the v1 books alone: every locator of ref_index_ names an order in    *)
(* the list it points into, and a list goes when its last order does.      *)
(***************************************************************************)
EXTENDS Sizing, SumLemmas, SequenceTheorems

-----------------------------------------------------------------------------
(* Queues with one element less. *)

Shorter(q, k) == [j \in 1 .. Len(q) - 1 |-> IF j < k THEN q[j] ELSE q[j + 1]]

\* What is left of a sequence when one element goes.
LEMMA ShorterSeq ==
  ASSUME NEW S, NEW q \in Seq(S), NEW k \in DOMAIN q
  PROVE  /\ Shorter(q, k) \in Seq(S)
         /\ Len(Shorter(q, k)) = Len(q) - 1
         /\ DOMAIN Shorter(q, k) = 1 .. Len(q) - 1
         /\ \A j \in 1 .. Len(q) - 1 :
              Shorter(q, k)[j] = IF j < k THEN q[j] ELSE q[j + 1]
<1>1. Len(q) \in Nat /\ DOMAIN q = 1 .. Len(q) /\ Len(q) - 1 \in Nat
    OBVIOUS
<1>2. ASSUME NEW j \in 1 .. Len(q) - 1
      PROVE  (IF j < k THEN q[j] ELSE q[j + 1]) \in S
  <2>1. j \in DOMAIN q /\ j + 1 \in DOMAIN q
      BY <1>1
  <2> QED BY <2>1
<1>3. Shorter(q, k) \in [1 .. Len(q) - 1 -> S]
    BY <1>2 DEF Shorter
<1>4. Shorter(q, k) \in Seq(S)
    BY <1>1, <1>3
<1> QED BY <1>1, <1>3, <1>4 DEF Shorter

\* The library's RemoveAt is that.
LEMMA RemoveAtIsShorter ==
  ASSUME NEW S, NEW q \in Seq(S), NEW k \in DOMAIN q
  PROVE  V1!RemoveAt(q, k) = Shorter(q, k)
<1> DEFINE front == SubSeq(q, 1, k - 1)
           back == SubSeq(q, k + 1, Len(q))
<1>1. Len(q) \in Nat /\ k \in 1 .. Len(q)
    OBVIOUS
<1>2. /\ front \in Seq(S) /\ Len(front) = k - 1
      /\ \A j \in 1 .. k - 1 : front[j] = q[j]
  BY <1>1
<1>3. /\ back \in Seq(S) /\ Len(back) = Len(q) - k
      /\ \A j \in 1 .. Len(q) - k : back[j] = q[k + j]
  BY <1>1
<1> HIDE DEF front, back
<1> DEFINE whole == front \o back
<1>4. whole \in Seq(S) /\ Len(whole) = Len(q) - 1
    BY <1>1, <1>2, <1>3
<1> HIDE DEF whole
<1>5. ASSUME NEW j \in 1 .. Len(q) - 1 PROVE whole[j] = Shorter(q, k)[j]
  <2>1. CASE j < k
    <3>1. whole[j] = front[j]
        BY <1>1, <1>2, <1>3, <2>1 DEF whole
    <3> QED BY <1>1, <1>2, <2>1, <3>1 DEF Shorter
  <2>2. CASE k <= j
    <3>1. j - (k - 1) \in 1 .. Len(q) - k
        BY <1>1, <2>2
    <3>2. whole[j] = back[j - (k - 1)]
        BY <1>1, <1>2, <1>3, <2>2, SMTT(40) DEF whole
    <3>3. back[j - (k - 1)] = q[k + (j - (k - 1))] /\ k + (j - (k - 1)) = j + 1
        BY <1>1, <1>3, <3>1, SMTT(40)
    <3>4. Shorter(q, k)[j] = q[j + 1]
        BY <1>1, <2>2 DEF Shorter
    <3> QED BY <3>2, <3>3, <3>4
  <2> QED BY <1>1, <2>1, <2>2
<1>6. /\ Shorter(q, k) \in Seq(S) /\ Len(Shorter(q, k)) = Len(q) - 1
    BY ShorterSeq
<1>7. whole = Shorter(q, k)
    BY <1>4, <1>5, <1>6, SeqEqual
<1> QED BY <1>7 DEF V1!RemoveAt, whole, front, back

-----------------------------------------------------------------------------
(* The books as queues, one for every symbol, side and price. *)

Uint == 0 .. UintMod - 1

Entry == [ref : Ref, shares : Uint]

\* What one side of one book may be: a map from prices to queues.
SideLevels == UNION {[S -> Seq(Entry)] : S \in SUBSET Price}

QueueIn(f, price) == IF price \in DOMAIN f THEN f[price] ELSE <<>>

QueueAt(lv, sym, side, price) == QueueIn(lv[sym][side], price)

NoEmptyQueue(f) == \A p \in DOMAIN f : f[p] # <<>>

NoneEmpty(lv) == \A sym \in Symbol, side \in Side : NoEmptyQueue(lv[sym][side])

\* One side of one book has been replaced by f.
SideBecomes(new, lv, sym, side, f) == new = [lv EXCEPT ![sym][side] = f]

LevelsType(lv) == lv \in [Symbol -> [Side -> SideLevels]]

IndexType(index) == /\ DOMAIN index \subseteq Ref /\ IsFiniteSet(DOMAIN index)
                    /\ \A r \in DOMAIN index : index[r] \in [side : Side, price : Price]

\* Every order of a queue is indexed there, and queues once.
Filed(index, sym, side, price, q) == \A k \in DOMAIN q :
  /\ q[k].ref \in DOMAIN index /\ SymbolOf[q[k].ref] = sym
  /\ index[q[k].ref] = [side |-> side, price |-> price]
  /\ \A l \in DOMAIN q : q[l].ref = q[k].ref => k = l

\* The queue that the locator of r names.
QueueOf(lv, index, r) == QueueAt(lv, SymbolOf[r], index[r].side, index[r].price)

Queues(q, r) == \E k \in DOMAIN q : q[k].ref = r

QueuedOnce(lv, index) ==
  /\ \A sym \in Symbol, side \in Side, price \in Price :
       Filed(index, sym, side, price, QueueAt(lv, sym, side, price))
  /\ \A r \in DOMAIN index : Queues(QueueOf(lv, index, r), r)

\* One queue becomes q, the others stay.
QueueBecomes(new, lv, sym, side, price, q) ==
  /\ LevelsType(new) /\ NoneEmpty(new)
  /\ \A s2 \in Symbol, d2 \in Side, p2 \in Price :
       QueueAt(new, s2, d2, p2) = IF s2 = sym /\ d2 = side /\ p2 = price
                                    THEN q ELSE QueueAt(lv, s2, d2, p2)

V1Inv(lv, index) ==
  LevelsType(lv) /\ NoneEmpty(lv) /\ IndexType(index) /\ QueuedOnce(lv, index)

\* One side of a book maps some prices to queues.
LEMMA SideLevelsMeaning ==
  ASSUME NEW f
  PROVE  f \in SideLevels <=> /\ DOMAIN f \subseteq Price
                              /\ f \in [DOMAIN f -> Seq(Entry)]
BY DEF SideLevels

\* Every queue is a sequence of orders.
LEMMA QueueType ==
  ASSUME NEW lv, LevelsType(lv), NEW sym \in Symbol, NEW side \in Side, NEW price
  PROVE  QueueAt(lv, sym, side, price) \in Seq(Entry)
<1>1. lv[sym][side] \in SideLevels
    BY DEF LevelsType
<1>2. lv[sym][side] \in [DOMAIN lv[sym][side] -> Seq(Entry)]
    BY <1>1, SideLevelsMeaning
<1> QED BY <1>2 DEF QueueAt, QueueIn

\* Replacing one side of one book by one that differs in a queue.
LEMMA SideReplaced ==
  ASSUME NEW lv, LevelsType(lv), NoneEmpty(lv), NEW sym \in Symbol, NEW side \in Side,
         NEW price \in Price, NEW q, NEW f, f \in SideLevels, NoEmptyQueue(f),
         \A p : QueueIn(f, p) = IF p = price THEN q ELSE QueueIn(lv[sym][side], p),
         NEW new, SideBecomes(new, lv, sym, side, f)
  PROVE  QueueBecomes(new, lv, sym, side, price, q)
<1>1. new \in [Symbol -> [Side -> SideLevels]]
    BY DEF LevelsType, SideBecomes
<1>2. ASSUME NEW s2 \in Symbol, NEW d2 \in Side
      PROVE  new[s2][d2] = IF s2 = sym /\ d2 = side THEN f ELSE lv[s2][d2]
    BY DEF LevelsType, SideBecomes
<1>3. LevelsType(new)
    BY <1>1 DEF LevelsType
<1>4. NoneEmpty(new)
    BY <1>2 DEF NoneEmpty
<1>5. \A s2 \in Symbol, d2 \in Side, p2 \in Price :
        QueueAt(new, s2, d2, p2) = IF s2 = sym /\ d2 = side /\ p2 = price
                                     THEN q ELSE QueueAt(lv, s2, d2, p2)
    BY <1>2 DEF QueueAt
<1> QED BY <1>3, <1>4, <1>5 DEF QueueBecomes

\* push_back lengthens one queue and no other.
LEMMA PushBackQueues ==
  ASSUME NEW lv, LevelsType(lv), NoneEmpty(lv),
         NEW r \in Ref, NEW side \in Side, NEW price \in Price, NEW shares \in Uint
  PROVE  QueueBecomes(V1!PushBack(lv, r, side, price, shares), lv, SymbolOf[r], side, price,
                      Append(QueueAt(lv, SymbolOf[r], side, price),
                             [ref |-> r, shares |-> shares]))
<1> DEFINE sym == SymbolOf[r]
           old == lv[sym][side]
           order == [ref |-> r, shares |-> shares]
           queue == QueueAt(lv, sym, side, price)
           q == Append(queue, order)
           f == [p \in DOMAIN old \cup {price} |-> IF p = price THEN q ELSE old[p]]
           new == [lv EXCEPT ![sym][side] = f]
<1>1. sym \in Symbol /\ order \in Entry
    BY BooksAssumption DEF Entry
<1>2. queue \in Seq(Entry)
    BY <1>1, QueueType
<1>3. old \in SideLevels /\ NoEmptyQueue(old)
    BY <1>1 DEF LevelsType, NoneEmpty
<1>4. DOMAIN old \subseteq Price /\ old \in [DOMAIN old -> Seq(Entry)]
    BY <1>3, SideLevelsMeaning
<1>5. V1!PushBack(lv, r, side, price, shares) = new
    BY DEF V1!PushBack, QueueAt, QueueIn
<1>6. q \in Seq(Entry) /\ q # <<>>
    BY <1>1, <1>2
<1> HIDE DEF q
<1>7. f \in SideLevels
  <2>1. DOMAIN f \subseteq Price /\ f \in [DOMAIN f -> Seq(Entry)]
      BY <1>4, <1>6
  <2> QED BY <2>1, SideLevelsMeaning
<1>8. NoEmptyQueue(f)
    BY <1>3, <1>6 DEF NoEmptyQueue
<1>9. \A p : QueueIn(f, p) = IF p = price THEN q ELSE QueueIn(lv[sym][side], p)
    BY DEF QueueIn
<1>10. SideBecomes(new, lv, sym, side, f)
    BY DEF SideBecomes
<1> HIDE DEF f, new, sym
<1>11. QueueBecomes(new, lv, sym, side, price, q)
    BY <1>1, <1>7, <1>8, <1>9, <1>10, SideReplaced
<1> QED BY <1>5, <1>11 DEF q, sym

\* Replacing a queue of an existing level.
LEMMA LevelReplaced ==
  ASSUME NEW lv, LevelsType(lv), NoneEmpty(lv), NEW sym \in Symbol, NEW side \in Side,
         NEW price, price \in DOMAIN lv[sym][side], NEW q \in Seq(Entry), q # <<>>,
         NEW new, new = [lv EXCEPT ![sym][side][price] = q]
  PROVE  QueueBecomes(new, lv, sym, side, price, q)
<1> DEFINE old == lv[sym][side]
           f == [old EXCEPT ![price] = q]
<1>1. old \in SideLevels /\ NoEmptyQueue(old)
    BY DEF LevelsType, NoneEmpty
<1>2. DOMAIN old \subseteq Price /\ old \in [DOMAIN old -> Seq(Entry)]
    BY <1>1, SideLevelsMeaning
<1>3. f \in SideLevels
  <2>1. DOMAIN f \subseteq Price /\ f \in [DOMAIN f -> Seq(Entry)]
      BY <1>2
  <2> QED BY <2>1, SideLevelsMeaning
<1>4. NoEmptyQueue(f)
    BY <1>1, <1>2 DEF NoEmptyQueue
<1>5. \A p : QueueIn(f, p) = IF p = price THEN q ELSE QueueIn(lv[sym][side], p)
    BY <1>2 DEF QueueIn
<1>6. SideBecomes(new, lv, sym, side, f)
    BY DEF SideBecomes
<1>7. price \in Price
    BY <1>2
<1> HIDE DEF f
<1> QED BY <1>3, <1>4, <1>5, <1>6, <1>7, SideReplaced

\* Without the level of a price its queue is empty.
LEMMA LevelErased ==
  ASSUME NEW lv, LevelsType(lv), NoneEmpty(lv), NEW sym \in Symbol, NEW side \in Side,
         NEW price, price \in DOMAIN lv[sym][side], NEW new,
         new = [lv EXCEPT ![sym][side] =
                  V1!Restrict(lv[sym][side], DOMAIN lv[sym][side] \ {price})]
  PROVE  QueueBecomes(new, lv, sym, side, price, <<>>)
<1> DEFINE old == lv[sym][side]
           f == [p \in DOMAIN old \ {price} |-> old[p]]
           none == <<>>
<1>1. old \in SideLevels /\ NoEmptyQueue(old)
    BY DEF LevelsType, NoneEmpty
<1>2. DOMAIN old \subseteq Price /\ old \in [DOMAIN old -> Seq(Entry)]
    BY <1>1, SideLevelsMeaning
<1>3. f \in SideLevels
  <2>1. DOMAIN f \subseteq Price /\ f \in [DOMAIN f -> Seq(Entry)]
      BY <1>2
  <2> QED BY <2>1, SideLevelsMeaning
<1>4. NoEmptyQueue(f)
    BY <1>1, <1>2 DEF NoEmptyQueue
<1>5. \A p : QueueIn(f, p) = IF p = price THEN none ELSE QueueIn(lv[sym][side], p)
    BY <1>2 DEF QueueIn
<1>6. SideBecomes(new, lv, sym, side, f)
    BY DEF SideBecomes, V1!Restrict
<1>7. price \in Price
    BY <1>2
<1> HIDE DEF f, none
<1>8. QueueBecomes(new, lv, sym, side, price, none)
    BY <1>3, <1>4, <1>5, <1>6, <1>7, SideReplaced
<1> QED BY <1>8 DEF none

-----------------------------------------------------------------------------
(* Locators. *)

\* Where in its queue r is.
Place(lv, index, r) == V1!Position(r, QueueOf(lv, index, r))

\* A live order's locator names it.
LEMMA LocatorFinds ==
  ASSUME NEW lv, NEW index, V1Inv(lv, index), NEW r \in DOMAIN index
  PROVE  /\ r \in Ref /\ SymbolOf[r] \in Symbol
         /\ index[r].side \in Side /\ index[r].price \in Price
         /\ index[r] = [side |-> index[r].side, price |-> index[r].price]
         /\ index[r].price \in DOMAIN lv[SymbolOf[r]][index[r].side]
         /\ QueueOf(lv, index, r) = lv[SymbolOf[r]][index[r].side][index[r].price]
         /\ QueueOf(lv, index, r) \in Seq(Entry)
         /\ Place(lv, index, r) \in DOMAIN QueueOf(lv, index, r)
         /\ QueueOf(lv, index, r)[Place(lv, index, r)].ref = r
         /\ Filed(index, SymbolOf[r], index[r].side, index[r].price, QueueOf(lv, index, r))
         /\ V1!SharesOf(lv, index, r) = QueueOf(lv, index, r)[Place(lv, index, r)].shares
<1>1. /\ r \in Ref /\ index[r] \in [side : Side, price : Price]
      /\ SymbolOf[r] \in Symbol
    BY BooksAssumption DEF V1Inv, IndexType
<1>2. Queues(QueueOf(lv, index, r), r)
    BY DEF V1Inv, QueuedOnce
<1>3. index[r].price \in DOMAIN lv[SymbolOf[r]][index[r].side]
    BY <1>2 DEF QueueOf, QueueAt, QueueIn, Queues
<1>4. QueueOf(lv, index, r) = lv[SymbolOf[r]][index[r].side][index[r].price]
    BY <1>3 DEF QueueOf, QueueAt, QueueIn
<1>5. QueueOf(lv, index, r) \in Seq(Entry)
    BY <1>1, QueueType DEF QueueOf, V1Inv
<1>6. /\ Place(lv, index, r) \in DOMAIN QueueOf(lv, index, r)
      /\ QueueOf(lv, index, r)[Place(lv, index, r)].ref = r
    BY <1>2 DEF Queues, Place, V1!Position
<1>7. Filed(index, SymbolOf[r], index[r].side, index[r].price, QueueOf(lv, index, r))
    BY <1>1 DEF V1Inv, QueuedOnce, QueueOf
<1>8. V1!SharesOf(lv, index, r) = QueueOf(lv, index, r)[Place(lv, index, r)].shares
    BY <1>4 DEF V1!SharesOf, Place
<1>9. index[r] = [side |-> index[r].side, price |-> index[r].price]
    BY <1>1
<1> QED BY <1>1, <1>3, <1>4, <1>5, <1>6, <1>7, <1>8, <1>9

\* remove_locator shortens the queue of the order and no other.
LEMMA RemoveLocatorQueues ==
  ASSUME NEW lv, NEW index, V1Inv(lv, index), NEW r \in DOMAIN index
  PROVE  QueueBecomes(V1!RemoveLocator(lv, index, r), lv, SymbolOf[r], index[r].side,
                      index[r].price, Shorter(QueueOf(lv, index, r), Place(lv, index, r)))
<1> DEFINE sym == SymbolOf[r]
           side == index[r].side
           price == index[r].price
           q == QueueOf(lv, index, r)
           others == Shorter(q, Place(lv, index, r))
<1>1. /\ sym \in Symbol /\ side \in Side /\ price \in DOMAIN lv[sym][side]
      /\ q = lv[sym][side][price] /\ q \in Seq(Entry) /\ Place(lv, index, r) \in DOMAIN q
    BY LocatorFinds
<1>2. V1!RemoveAt(q, Place(lv, index, r)) = others /\ others \in Seq(Entry)
    BY <1>1, RemoveAtIsShorter, ShorterSeq
<1>3. V1!RemoveLocator(lv, index, r)
        = [lv EXCEPT ![sym][side] =
             IF others = <<>>
               THEN V1!Restrict(lv[sym][side], DOMAIN lv[sym][side] \ {price})
               ELSE [lv[sym][side] EXCEPT ![price] = others]]
    BY <1>1, <1>2 DEF V1!RemoveLocator, Place
<1>4. LevelsType(lv) /\ NoneEmpty(lv)
    BY DEF V1Inv
<1> HIDE DEF sym, side, price, q, others
<1>5. CASE others = <<>>
  <2>1. V1!RemoveLocator(lv, index, r)
          = [lv EXCEPT ![sym][side] =
               V1!Restrict(lv[sym][side], DOMAIN lv[sym][side] \ {price})]
      BY <1>3, <1>5
  <2>2. QueueBecomes(V1!RemoveLocator(lv, index, r), lv, sym, side, price, <<>>)
      BY <1>1, <1>4, <2>1, LevelErased
  <2> QED BY <1>5, <2>2 DEF sym, side, price, q, others
<1>6. CASE others # <<>>
  <2>1. V1!RemoveLocator(lv, index, r) = [lv EXCEPT ![sym][side][price] = others]
      BY <1>1, <1>3, <1>6
  <2>2. QueueBecomes(V1!RemoveLocator(lv, index, r), lv, sym, side, price, others)
      BY <1>1, <1>2, <1>4, <1>6, <2>1, LevelReplaced
  <2> QED BY <2>2 DEF sym, side, price, q, others
<1> QED BY <1>5, <1>6

\* A queue with other shares at one place.
WithShares(q, k, n) == [q EXCEPT ![k].shares = n]

\* Nothing else of the queue changes.
LEMMA SharesSet ==
  ASSUME NEW q \in Seq(Entry), NEW k \in DOMAIN q, NEW n \in Uint
  PROVE  /\ WithShares(q, k, n) \in Seq(Entry) /\ WithShares(q, k, n) # <<>>
         /\ DOMAIN WithShares(q, k, n) = DOMAIN q
         /\ \A j \in DOMAIN q : WithShares(q, k, n)[j]
              = IF j = k THEN [ref |-> q[j].ref, shares |-> n] ELSE q[j]
<1> DEFINE new == WithShares(q, k, n)
<1>1. Len(q) \in Nat /\ DOMAIN q = 1 .. Len(q) /\ \A j \in 1 .. Len(q) : q[j] \in Entry
    OBVIOUS
<1>2. [q[k] EXCEPT !.shares = n] = [ref |-> q[k].ref, shares |-> n]
    BY <1>1 DEF Entry
<1>3. \A j \in 1 .. Len(q) :
        new[j] = IF j = k THEN [ref |-> q[j].ref, shares |-> n] ELSE q[j]
    BY <1>1, <1>2 DEF WithShares
<1>4. \A j \in 1 .. Len(q) : [ref |-> q[j].ref, shares |-> n] \in Entry
    BY <1>1 DEF Entry
<1>5. new \in [1 .. Len(q) -> Entry]
    BY <1>1, <1>3, <1>4 DEF WithShares
<1> HIDE DEF new
<1>6. new \in Seq(Entry) /\ DOMAIN new = 1 .. Len(q)
    BY <1>1, <1>5, SeqDef
<1>7. new # <<>>
    BY <1>1, <1>6
<1> QED BY <1>1, <1>3, <1>6, <1>7 DEF new

\* A partial execution changes the shares of one order.
LEMMA SetSharesQueues ==
  ASSUME NEW lv, NEW index, V1Inv(lv, index), NEW r \in DOMAIN index, NEW n \in Uint
  PROVE  QueueBecomes(V1!SetShares(lv, index, r, n), lv, SymbolOf[r], index[r].side,
                      index[r].price, WithShares(QueueOf(lv, index, r), Place(lv, index, r), n))
<1> DEFINE sym == SymbolOf[r]
           side == index[r].side
           price == index[r].price
           q == QueueOf(lv, index, r)
           fewer == WithShares(q, Place(lv, index, r), n)
<1>1. /\ sym \in Symbol /\ side \in Side /\ price \in DOMAIN lv[sym][side]
      /\ q = lv[sym][side][price] /\ q \in Seq(Entry) /\ Place(lv, index, r) \in DOMAIN q
    BY LocatorFinds
<1> HIDE DEF q
<1>2. fewer \in Seq(Entry) /\ fewer # <<>>
    BY <1>1, SharesSet
<1>3. V1!SetShares(lv, index, r, n) = [lv EXCEPT ![sym][side][price] = fewer]
    BY <1>1 DEF V1!SetShares, Place, q, WithShares
<1>4. LevelsType(lv) /\ NoneEmpty(lv)
    BY DEF V1Inv
<1> HIDE DEF sym, side, price, fewer
<1>5. QueueBecomes(V1!SetShares(lv, index, r, n), lv, sym, side, price, fewer)
    BY <1>1, <1>2, <1>3, <1>4, LevelReplaced
<1> QED BY <1>5 DEF sym, side, price, q, fewer

-----------------------------------------------------------------------------
(* The steps keep the invariant. *)

\* Appending an order that is not indexed yet, and indexing it.
LEMMA PushKeeps ==
  ASSUME NEW lv, NEW index, V1Inv(lv, index), NEW r \in Ref, r \notin DOMAIN index,
         NEW side \in Side, NEW price \in Price, NEW shares \in Uint
  PROVE  V1Inv(V1!PushBack(lv, r, side, price, shares), V1!Indexed(index, r, side, price))
<1> DEFINE new == V1!PushBack(lv, r, side, price, shares)
           ix == V1!Indexed(index, r, side, price)
           sym == SymbolOf[r]
           order == [ref |-> r, shares |-> shares]
           old == QueueAt(lv, sym, side, price)
           q == Append(old, order)
<1>1. sym \in Symbol
    BY BooksAssumption
<1>2. LevelsType(lv) /\ NoneEmpty(lv) /\ IndexType(index) /\ QueuedOnce(lv, index)
    BY DEF V1Inv
<1>3. QueueBecomes(new, lv, sym, side, price, q)
    BY <1>2, PushBackQueues
<1>4. old \in Seq(Entry) /\ Filed(index, sym, side, price, old)
    BY <1>1, <1>2, QueueType DEF QueuedOnce
<1>5. /\ DOMAIN ix = DOMAIN index \cup {r} /\ ix[r] = [side |-> side, price |-> price]
      /\ \A x \in DOMAIN index : x # r /\ ix[x] = index[x]
    BY DEF V1!Indexed
<1>6. /\ DOMAIN q = 1 .. Len(old) + 1 /\ Len(old) \in Nat /\ DOMAIN old = 1 .. Len(old)
      /\ \A k \in 1 .. Len(old) : q[k] = old[k]
      /\ q[Len(old) + 1] = order /\ order.ref = r
    BY <1>4
<1> HIDE DEF new, ix, q, order, old, sym
<1>7. IndexType(ix)
    BY <1>2, <1>5, FS_AddElement DEF IndexType
<1>8. Filed(ix, sym, side, price, q)
  <2> SUFFICES ASSUME NEW k \in DOMAIN q
               PROVE  /\ q[k].ref \in DOMAIN ix /\ SymbolOf[q[k].ref] = sym
                      /\ ix[q[k].ref] = [side |-> side, price |-> price]
                      /\ \A l \in DOMAIN q : q[l].ref = q[k].ref => k = l
      BY DEF Filed
  <2>1. \A l \in 1 .. Len(old) : q[l].ref \in DOMAIN index /\ q[l].ref # r
      BY <1>4, <1>5, <1>6 DEF Filed
  <2>2. CASE k \in 1 .. Len(old)
      BY <1>4, <1>5, <1>6, <2>1, <2>2 DEF Filed
  <2>3. CASE k = Len(old) + 1
      BY <1>5, <1>6, <2>1, <2>3 DEF sym
  <2> QED BY <1>6, <2>2, <2>3
<1>9. ASSUME NEW s2 \in Symbol, NEW d2 \in Side, NEW p2 \in Price
      PROVE  Filed(ix, s2, d2, p2, QueueAt(new, s2, d2, p2))
  <2>1. CASE s2 = sym /\ d2 = side /\ p2 = price
      BY <1>3, <1>8, <2>1 DEF QueueBecomes
  <2>2. CASE ~(s2 = sym /\ d2 = side /\ p2 = price)
    <3>1. QueueAt(new, s2, d2, p2) = QueueAt(lv, s2, d2, p2)
        BY <1>3, <2>2 DEF QueueBecomes
    <3>2. Filed(index, s2, d2, p2, QueueAt(lv, s2, d2, p2))
        BY <1>2 DEF QueuedOnce
    <3> QED BY <1>5, <3>1, <3>2 DEF Filed
  <2> QED BY <2>1, <2>2
<1>10. ASSUME NEW x \in DOMAIN ix PROVE Queues(QueueOf(new, ix, x), x)
  <2>1. CASE x = r
    <3>1. QueueOf(new, ix, x) = q
        BY <1>1, <1>3, <1>5, <2>1 DEF QueueOf, QueueBecomes, sym
    <3> QED BY <1>6, <2>1, <3>1 DEF Queues
  <2>2. CASE x \in DOMAIN index
    <3>1. Queues(QueueOf(lv, index, x), x)
        BY <1>2, <2>2 DEF QueuedOnce
    <3>2. SymbolOf[x] \in Symbol /\ index[x].side \in Side /\ index[x].price \in Price
        BY <1>2, <2>2, BooksAssumption DEF IndexType
    <3>3. QueueOf(new, ix, x) = QueueAt(new, SymbolOf[x], index[x].side, index[x].price)
        BY <1>5, <2>2 DEF QueueOf
    <3>4. QueueOf(lv, index, x) = QueueAt(lv, SymbolOf[x], index[x].side, index[x].price)
        BY DEF QueueOf
    <3>5. CASE SymbolOf[x] = sym /\ index[x].side = side /\ index[x].price = price
      <4>1. QueueOf(new, ix, x) = q /\ QueueOf(lv, index, x) = old
          BY <1>3, <3>2, <3>3, <3>4, <3>5 DEF QueueBecomes, old
      <4> QED BY <1>6, <3>1, <4>1 DEF Queues
    <3>6. CASE ~(SymbolOf[x] = sym /\ index[x].side = side /\ index[x].price = price)
      <4>1. QueueOf(new, ix, x) = QueueOf(lv, index, x)
          BY <1>3, <3>2, <3>3, <3>4, <3>6 DEF QueueBecomes
      <4> QED BY <3>1, <4>1
    <3> QED BY <3>5, <3>6
  <2> QED BY <1>5, <2>1, <2>2
<1>11. QueuedOnce(new, ix)
    BY <1>9, <1>10 DEF QueuedOnce
<1> QED BY <1>3, <1>7, <1>11 DEF V1Inv, QueueBecomes, new, ix

\* Removing a live order from its queue and from the index.
LEMMA RemoveKeeps ==
  ASSUME NEW lv, NEW index, V1Inv(lv, index), NEW r \in DOMAIN index
  PROVE  /\ V1Inv(V1!RemoveLocator(lv, index, r), V1!Unindexed(index, r))
         /\ DOMAIN V1!Unindexed(index, r) = DOMAIN index \ {r}
         /\ \A x \in DOMAIN index \ {r} : V1!Unindexed(index, r)[x] = index[x]
<1> DEFINE new == V1!RemoveLocator(lv, index, r)
           ix == V1!Unindexed(index, r)
           sym == SymbolOf[r]
           side == index[r].side
           price == index[r].price
           old == QueueOf(lv, index, r)
           k0 == Place(lv, index, r)
           q == Shorter(old, k0)
<1>1. /\ r \in Ref /\ sym \in Symbol /\ side \in Side /\ price \in Price
      /\ old \in Seq(Entry) /\ k0 \in DOMAIN old /\ old[k0].ref = r
      /\ Filed(index, sym, side, price, old)
      /\ old = QueueAt(lv, sym, side, price)
    BY LocatorFinds DEF QueueOf
<1>2. IndexType(index) /\ QueuedOnce(lv, index)
    BY DEF V1Inv
<1>3. QueueBecomes(new, lv, sym, side, price, q)
    BY RemoveLocatorQueues
<1>4. /\ DOMAIN ix = DOMAIN index \ {r}
      /\ \A x \in DOMAIN index \ {r} : ix[x] = index[x]
    BY DEF V1!Unindexed, V1!Restrict
<1>5. /\ DOMAIN q = 1 .. Len(old) - 1 /\ Len(old) \in Nat /\ DOMAIN old = 1 .. Len(old)
      /\ \A k \in 1 .. Len(old) - 1 : q[k] = IF k < k0 THEN old[k] ELSE old[k + 1]
    BY <1>1, ShorterSeq, SMTT(40)
<1>a. r \in DOMAIN index
    OBVIOUS
<1> HIDE DEF new, ix, q, old, sym, side, price, k0
<1>6. IndexType(ix)
    BY <1>2, <1>4, FS_RemoveElement DEF IndexType
<1>7. Filed(ix, sym, side, price, q)
  <2> SUFFICES ASSUME NEW k \in DOMAIN q
               PROVE  /\ q[k].ref \in DOMAIN ix /\ SymbolOf[q[k].ref] = sym
                      /\ ix[q[k].ref] = [side |-> side, price |-> price]
                      /\ \A l \in DOMAIN q : q[l].ref = q[k].ref => k = l
      BY DEF Filed
  <2> DEFINE at(l) == IF l < k0 THEN l ELSE l + 1
  <2>1. \A l \in DOMAIN q : at(l) \in DOMAIN old
      BY <1>1, <1>5
  <2>2. \A l \in DOMAIN q : q[l] = old[at(l)] /\ at(l) # k0
      BY <1>1, <1>5
  <2>3. \A l \in DOMAIN q : at(l) = at(k) => l = k
      BY <1>1, <1>5
  <2> HIDE DEF at
  <2>4. \A l \in DOMAIN old : old[l].ref = r => l = k0
      BY <1>1 DEF Filed
  <2>5. q[k].ref \in DOMAIN index /\ q[k].ref # r /\ SymbolOf[q[k].ref] = sym
        /\ index[q[k].ref] = [side |-> side, price |-> price]
      BY <1>1, <2>1, <2>2, <2>4 DEF Filed
  <2>6. \A l \in DOMAIN q : q[l].ref = q[k].ref => k = l
      BY <1>1, <2>1, <2>2, <2>3 DEF Filed
  <2> QED BY <1>4, <2>5, <2>6
<1>8. ASSUME NEW x \in DOMAIN index, x # r, NEW l \in DOMAIN old, old[l].ref = x
      PROVE  Queues(q, x)
  <2>1. l # k0
      BY <1>1, <1>8
  <2>2. CASE l < k0
      BY <1>1, <1>5, <1>8, <2>2 DEF Queues
  <2>3. CASE l > k0
    <3>1. l - 1 \in DOMAIN q /\ ~(l - 1 < k0) /\ (l - 1) + 1 = l
        BY <1>1, <1>5, <2>3
    <3>2. q[l - 1] = old[l]
        BY <1>5, <3>1
    <3> QED BY <1>8, <3>1, <3>2 DEF Queues
  <2> QED BY <1>1, <1>5, <2>1, <2>2, <2>3
<1>9. ASSUME NEW s2 \in Symbol, NEW d2 \in Side, NEW p2 \in Price
      PROVE  Filed(ix, s2, d2, p2, QueueAt(new, s2, d2, p2))
  <2>1. CASE s2 = sym /\ d2 = side /\ p2 = price
      BY <1>3, <1>7, <2>1 DEF QueueBecomes
  <2>2. CASE ~(s2 = sym /\ d2 = side /\ p2 = price)
    <3>1. QueueAt(new, s2, d2, p2) = QueueAt(lv, s2, d2, p2)
        BY <1>3, <2>2 DEF QueueBecomes
    <3>2. Filed(index, s2, d2, p2, QueueAt(lv, s2, d2, p2))
        BY <1>2 DEF QueuedOnce
    <3>3. SymbolOf[r] = sym /\ index[r].side = side /\ index[r].price = price
        BY DEF sym, side, price
    <3> QED BY <1>4, <2>2, <3>1, <3>2, <3>3 DEF Filed
  <2> QED BY <2>1, <2>2
<1>10. ASSUME NEW x \in DOMAIN ix PROVE Queues(QueueOf(new, ix, x), x)
  <2>1. x \in DOMAIN index /\ x # r /\ ix[x] = index[x]
      BY <1>4
  <2>2. Queues(QueueOf(lv, index, x), x)
      BY <1>2, <2>1 DEF QueuedOnce
  <2>3. SymbolOf[x] \in Symbol /\ ix[x].side \in Side /\ ix[x].price \in Price
      BY <1>2, <2>1, BooksAssumption DEF IndexType
  <2>4. QueueOf(new, ix, x) = QueueAt(new, SymbolOf[x], ix[x].side, ix[x].price)
      BY DEF QueueOf
  <2>5. QueueOf(lv, index, x)
          = QueueAt(lv, SymbolOf[x], ix[x].side, ix[x].price)
      BY <2>1 DEF QueueOf
  <2>6. CASE SymbolOf[x] = sym /\ ix[x].side = side /\ ix[x].price = price
    <3>1. QueueOf(new, ix, x) = q /\ QueueOf(lv, index, x) = old
        BY <1>1, <1>3, <2>3, <2>4, <2>5, <2>6 DEF QueueBecomes
    <3> QED BY <1>8, <2>1, <2>2, <3>1 DEF Queues
  <2>7. CASE ~(SymbolOf[x] = sym /\ ix[x].side = side /\ ix[x].price = price)
    <3>1. QueueOf(new, ix, x) = QueueOf(lv, index, x)
        BY <1>3, <2>3, <2>4, <2>5, <2>7 DEF QueueBecomes
    <3> QED BY <2>2, <3>1
  <2> QED BY <2>6, <2>7
<1>11. QueuedOnce(new, ix)
    BY <1>9, <1>10 DEF QueuedOnce
<1>12. V1Inv(new, ix)
    BY <1>3, <1>6, <1>11 DEF V1Inv, QueueBecomes
<1> QED BY <1>4, <1>12 DEF new, ix

\* Changing the shares of a live order.
LEMMA SetKeeps ==
  ASSUME NEW lv, NEW index, V1Inv(lv, index), NEW r \in DOMAIN index, NEW n \in Uint
  PROVE  V1Inv(V1!SetShares(lv, index, r, n), index)
<1> DEFINE new == V1!SetShares(lv, index, r, n)
           sym == SymbolOf[r]
           side == index[r].side
           price == index[r].price
           old == QueueOf(lv, index, r)
           k0 == Place(lv, index, r)
           q == WithShares(old, k0, n)
<1>1. /\ r \in Ref /\ sym \in Symbol /\ side \in Side /\ price \in Price
      /\ old \in Seq(Entry) /\ k0 \in DOMAIN old
      /\ old = QueueAt(lv, sym, side, price)
    BY LocatorFinds DEF QueueOf
<1>2. IndexType(index) /\ QueuedOnce(lv, index)
    BY DEF V1Inv
<1>3. QueueBecomes(new, lv, sym, side, price, q)
    BY SetSharesQueues
<1> HIDE DEF new, sym, side, price, old, k0
<1>a. /\ DOMAIN q = DOMAIN old
      /\ \A k \in DOMAIN old :
           q[k] = IF k = k0 THEN [ref |-> old[k].ref, shares |-> n] ELSE old[k]
    BY <1>1, SharesSet
<1>4. DOMAIN q = DOMAIN old /\ \A k \in DOMAIN old : q[k].ref = old[k].ref
  <2> HIDE DEF q
  <2> QED BY <1>a
<1> HIDE DEF q
<1>5. ASSUME NEW s2 \in Symbol, NEW d2 \in Side, NEW p2 \in Price
      PROVE  LET a == QueueAt(new, s2, d2, p2)
                 b == QueueAt(lv, s2, d2, p2)
             IN  DOMAIN a = DOMAIN b /\ \A k \in DOMAIN b : a[k].ref = b[k].ref
  <2>1. CASE s2 = sym /\ d2 = side /\ p2 = price
      BY <1>1, <1>3, <1>4, <2>1 DEF QueueBecomes
  <2>2. CASE ~(s2 = sym /\ d2 = side /\ p2 = price)
      BY <1>3, <2>2 DEF QueueBecomes
  <2> QED BY <2>1, <2>2
<1>6. ASSUME NEW s2 \in Symbol, NEW d2 \in Side, NEW p2 \in Price
      PROVE  Filed(index, s2, d2, p2, QueueAt(new, s2, d2, p2))
  <2>1. Filed(index, s2, d2, p2, QueueAt(lv, s2, d2, p2))
      BY <1>2 DEF QueuedOnce
  <2> QED BY <1>5, <2>1 DEF Filed
<1>7. ASSUME NEW x \in DOMAIN index PROVE Queues(QueueOf(new, index, x), x)
  <2>1. Queues(QueueOf(lv, index, x), x)
      BY <1>2 DEF QueuedOnce
  <2>2. /\ SymbolOf[x] \in Symbol /\ index[x].side \in Side
        /\ index[x].price \in Price
      BY <1>2, BooksAssumption DEF IndexType
  <2> QED BY <1>5, <2>1, <2>2 DEF QueueOf, Queues
<1>8. QueuedOnce(new, index)
    BY <1>6, <1>7 DEF QueuedOnce
<1> QED BY <1>2, <1>3, <1>8 DEF V1Inv, QueueBecomes, new

-----------------------------------------------------------------------------
(* The theorem. *)

\* Whoever drives it, an action that leaves v1's books to one of its handlers,
\* adds no live reference and takes no more than is there, keeps v1 in order.
LEMMA V1Reduces ==
  ASSUME V1Inv(v1_levels, v1_index), NEW r \in Ref, NEW n \in Takeable(r),
         V1!Reduce(r, n)
  PROVE  V1Inv(v1_levels, v1_index)'
<1>1. CASE UNCHANGED <<v1_levels, v1_index>>
    BY <1>1 DEF V1!vars
<1>2. CASE V1!Live(r) /\ V1!Leave(r)
  <2>1. r \in DOMAIN v1_index
      BY <1>2 DEF V1!Live
  <2> QED BY <1>2, <2>1, RemoveKeeps DEF V1!Leave
<1>3. CASE /\ V1!Live(r) /\ UNCHANGED v1_index
           /\ v1_levels' = V1!SetShares(v1_levels, v1_index, r,
                                         (V1!SharesOf(v1_levels, v1_index, r) - n) % UintMod)
  <2>1. r \in DOMAIN v1_index
      BY <1>3 DEF V1!Live
  <2>2. QueueOf(v1_levels, v1_index, r)[Place(v1_levels, v1_index, r)] \in Entry
      BY <2>1, LocatorFinds
  <2>3. V1!SharesOf(v1_levels, v1_index, r) \in Uint
      BY <2>1, <2>2, LocatorFinds DEF Entry
  <2>4. n \in 1 .. V1!SharesOf(v1_levels, v1_index, r)
      BY <1>3 DEF Takeable
  <2>5. (V1!SharesOf(v1_levels, v1_index, r) - n) % UintMod \in Uint
      BY <2>3, <2>4, BooksAssumption DEF Uint
  <2> QED BY <1>3, <2>1, <2>5, SetKeeps
<1> QED BY <1>1, <1>2, <1>3 DEF V1!Reduce, V1!vars

\* At first nothing is queued.
LEMMA V1Init == Init => V1Inv(v1_levels, v1_index)
<1> SUFFICES ASSUME Init PROVE V1Inv(v1_levels, v1_index)
    OBVIOUS
<1>1. v1_levels = [sym \in Symbol |-> [side \in Side |-> <<>>]] /\ v1_index = <<>>
    BY DEF Init, V1!Init, V1!Side, Side
<1> DEFINE none == <<>>
<1>2. none \in SideLevels /\ DOMAIN none = {} /\ NoEmptyQueue(none)
  <2>1. DOMAIN none = {}
      OBVIOUS
  <2>2. none \in [{} -> Seq(Entry)]
      OBVIOUS
  <2> HIDE DEF none
  <2> QED BY <2>1, <2>2, SideLevelsMeaning DEF NoEmptyQueue
<1>3. v1_levels = [sym \in Symbol |-> [side \in Side |-> none]] /\ v1_index = none
    BY <1>1
<1>4. \A sym, side, price, index : Filed(index, sym, side, price, <<>>)
    BY DEF Filed
<1>5. IsFiniteSet({})
    BY FS_EmptySet
<1> HIDE DEF none
<1>6. LevelsType(v1_levels) /\ NoneEmpty(v1_levels)
    BY <1>2, <1>3 DEF LevelsType, NoneEmpty
<1>7. \A sym \in Symbol, side \in Side, price \in Price : QueueAt(v1_levels, sym, side, price) = <<>>
    BY <1>2, <1>3 DEF QueueAt, QueueIn
<1>8. IndexType(v1_index)
    BY <1>2, <1>3, <1>5 DEF IndexType
<1>9. QueuedOnce(v1_levels, v1_index)
    BY <1>2, <1>3, <1>4, <1>7 DEF QueuedOnce
<1> QED BY <1>6, <1>8, <1>9 DEF V1Inv

\* Every message of the feed keeps v1 in order.
LEMMA V1Next == V1Inv(v1_levels, v1_index) /\ [Next]_vars => V1Inv(v1_levels, v1_index)'
<1> SUFFICES ASSUME V1Inv(v1_levels, v1_index), [Next]_vars
             PROVE  V1Inv(v1_levels, v1_index)'
    OBVIOUS
<1>a. \A q \in Quotes : q.side \in Side /\ q.price \in Price /\ q.shares \in Uint
    BY BooksAssumption DEF Side, Uint
<1>1. ASSUME NEW r \in Ref, NEW q \in Quotes, Add(r, q) PROVE V1Inv(v1_levels, v1_index)'
  <2>1. r \notin DOMAIN v1_index
      BY <1>1 DEF Add, V1!Live
  <2>2. V1Inv(V1!PushBack(v1_levels, r, q.side, q.price, q.shares),
              V1!Indexed(v1_index, r, q.side, q.price))
      BY <1>a, <2>1, PushKeeps
  <2> QED BY <1>1, <2>2 DEF Add, V1!AddOrder
<1>2. ASSUME NEW r \in Ref, Execute(r) PROVE V1Inv(v1_levels, v1_index)'
    BY <1>2, V1Reduces DEF Execute, V1!ExecuteOrder
<1>3. ASSUME NEW r \in Ref, Cancel(r) PROVE V1Inv(v1_levels, v1_index)'
    BY <1>3, V1Reduces DEF Cancel, V1!CancelOrder
<1>4. ASSUME NEW r \in Ref, Delete(r) PROVE V1Inv(v1_levels, v1_index)'
  <2>1. CASE UNCHANGED <<v1_levels, v1_index>>
      BY <2>1
  <2>2. CASE V1!Live(r) /\ V1!Leave(r)
    <3>1. r \in DOMAIN v1_index
        BY <2>2 DEF V1!Live
    <3> QED BY <2>2, <3>1, RemoveKeeps DEF V1!Leave
  <2> QED BY <1>4, <2>1, <2>2 DEF Delete, V1!DeleteOrder, V1!vars
<1>5. ASSUME NEW r \in Ref, NEW new \in Ref, NEW q \in Quotes, Replace(r, new, q)
      PROVE  V1Inv(v1_levels, v1_index)'
  <2>1. CASE UNCHANGED <<v1_levels, v1_index>>
      BY <2>1
  <2>2. CASE V1!Live(r) /\ ~UNCHANGED <<v1_levels, v1_index>>
    <3> DEFINE lv == V1!RemoveLocator(v1_levels, v1_index, r)
               ix == V1!Unindexed(v1_index, r)
               side == v1_index[r].side
    <3>1. r \in DOMAIN v1_index
        BY <2>2 DEF V1!Live
    <3>2. side \in Side
        BY <3>1, LocatorFinds
    <3>3. V1Inv(lv, ix) /\ DOMAIN ix = DOMAIN v1_index \ {r}
        BY <3>1, RemoveKeeps
    <3>6. new \notin DOMAIN ix
        BY <1>5, <3>3 DEF Replace, V1!Live
    <3>4. /\ v1_levels' = V1!PushBack(lv, new, side, q.price, q.shares)
          /\ v1_index' = V1!Indexed(ix, new, side, q.price)
        BY <1>5, <2>2 DEF Replace, V1!ReplaceOrder, V1!vars
    <3> HIDE DEF lv, ix, side
    <3>5. V1Inv(V1!PushBack(lv, new, side, q.price, q.shares),
                V1!Indexed(ix, new, side, q.price))
        BY <1>a, <3>2, <3>3, <3>6, PushKeeps
    <3> QED BY <3>4, <3>5
  <2> QED BY <1>5, <2>1, <2>2 DEF Replace, V1!ReplaceOrder, V1!vars
<1>6. CASE UNCHANGED vars
    BY <1>6 DEF vars
<1> QED BY <1>1, <1>2, <1>3, <1>4, <1>5, <1>6 DEF Next

\* Every step leaves v1's books in order.
THEOREM V1InOrder == Spec => []V1Inv(v1_levels, v1_index)
BY V1Init, V1Next, PTL DEF Spec

\* However orders come, fill, move and go, v1's locators name an order that is
\* in its list, under its side and price, and no list is left empty: erase
\* through a locator is never undefined (order_book.cpp:4-11).
THEOREM LocatorsStayValid == Spec => []V1LocatorsValid
<1>1. V1Inv(v1_levels, v1_index) => V1LocatorsValid
  <2> SUFFICES ASSUME V1Inv(v1_levels, v1_index) PROVE V1!LocatorsValid
      BY DEF V1LocatorsValid
  <2>1. ASSUME NEW sym \in Symbol, NEW side \in Side,
               NEW price \in DOMAIN v1_levels[sym][side]
        PROVE  LET queue == v1_levels[sym][side][price]
               IN  /\ queue # <<>>
                   /\ \A k \in DOMAIN queue :
                        /\ V1!Live(queue[k].ref) /\ SymbolOf[queue[k].ref] = sym
                        /\ v1_index[queue[k].ref] = [side |-> side, price |-> price]
                        /\ \A l \in DOMAIN queue : queue[k].ref = queue[l].ref => k = l
    <3>1. v1_levels[sym][side] \in SideLevels /\ NoEmptyQueue(v1_levels[sym][side])
        BY DEF V1Inv, LevelsType, NoneEmpty
    <3>2. price \in Price /\ v1_levels[sym][side][price] # <<>>
        BY <3>1, SideLevelsMeaning DEF NoEmptyQueue
    <3>3. Filed(v1_index, sym, side, price, v1_levels[sym][side][price])
        BY <3>2 DEF V1Inv, QueuedOnce, QueueAt, QueueIn
    <3> QED BY <3>2, <3>3 DEF Filed, V1!Live
  <2>2. ASSUME NEW r \in DOMAIN v1_index
        PROVE  LET side_levels == v1_levels[SymbolOf[r]][v1_index[r].side]
               IN  /\ v1_index[r].price \in DOMAIN side_levels
                   /\ \E k \in DOMAIN side_levels[v1_index[r].price] :
                        side_levels[v1_index[r].price][k].ref = r
      BY LocatorFinds
  <2> QED BY <2>1, <2>2 DEF V1!LocatorsValid, V1!Side, Side
<1> QED BY <1>1, V1InOrder, PTL

-----------------------------------------------------------------------------
(* Lists through the slots. *)

\* The slots of the pool.
Slot == V3!Slot

\* What a link field holds: a slot, or none.
Link == Slot \cup {kNullIdx}

\* What a slot holds.
SlotRec == [next_idx : Link, prev_idx : Link, qty : Nat, level_idx : Nat]

\* What a level holds.
LevelRec == [head_idx : Link, tail_idx : Link, total_qty : Nat, order_count : Nat]

\* The k-th slot of a list, and no slot before and after it.
At(q, k) == IF k \in DOMAIN q THEN q[k] ELSE kNullIdx

\* No element twice.
Distinct(q) == \A j, k \in DOMAIN q : q[j] = q[k] => j = k

\* The slots of q are linked in both directions, and know their level.
Linked(sl, q, level) == \A k \in DOMAIN q :
  /\ sl[q[k]].next_idx = At(q, k + 1)
  /\ sl[q[k]].prev_idx = At(q, k - 1)
  /\ sl[q[k]].level_idx = level

\* The shares of every slot.
Qty(sl) == [s \in Slot |-> sl[s].qty]

\* What a level keeps of the list q.
Summary(sl, lvl, q) ==
  /\ lvl \in LevelRec
  /\ lvl.head_idx = At(q, 1) /\ lvl.tail_idx = At(q, Len(q))
  /\ lvl.order_count = Len(q)
  /\ lvl.total_qty = Sum(Qty(sl), Range(q))

\* Level lvl, numbered level, lists the slots q.
Lists(sl, lvl, q, level) ==
  q \in Seq(Slot) /\ Distinct(q) /\ Linked(sl, q, level) /\ Summary(sl, lvl, q)

\* The slots are numbered from 0, and -1 is none of them.
LEMMA SlotFacts ==
  /\ kNullIdx = -1 /\ V3!kNullIdx = -1 /\ Slot = 0 .. PoolCapacity - 1 /\ V3!Slot = Slot
  /\ kNullIdx \notin Slot /\ Slot \subseteq Nat /\ 0 \in Slot
  /\ IsFiniteSet(Slot) /\ Cardinality(Slot) = PoolCapacity
  /\ PoolCapacity \in Nat \ {0}
<1>1. PoolCapacity \in Nat \ {0}
    BY BooksAssumption
<1>2. IsFiniteSet(0 .. PoolCapacity - 1) /\ Cardinality(0 .. PoolCapacity - 1) = PoolCapacity
    BY <1>1, FS_Interval
<1> QED BY <1>1, <1>2 DEF kNullIdx, V3!kNullIdx, Slot, V3!Slot

\* A list of slots, its places and the slots on them.
LEMMA SeqFacts ==
  ASSUME NEW q \in Seq(Slot)
  PROVE  /\ Len(q) \in Nat /\ DOMAIN q = 1 .. Len(q)
         /\ \A k \in 1 .. Len(q) : q[k] \in Slot /\ At(q, k) = q[k]
         /\ At(q, 0) = kNullIdx /\ At(q, Len(q) + 1) = kNullIdx
         /\ \A k \in Int : At(q, k) \in Link
         /\ Range(q) \subseteq Slot /\ IsFiniteSet(Range(q))
         /\ \A s : s \in Range(q) <=> \E k \in 1 .. Len(q) : q[k] = s
<1>1. Len(q) \in Nat /\ DOMAIN q = 1 .. Len(q) /\ \A k \in 1 .. Len(q) : q[k] \in Slot
    OBVIOUS
<1>2. /\ At(q, 0) = kNullIdx /\ At(q, Len(q) + 1) = kNullIdx
      /\ \A k \in Int : At(q, k) \in Link
      /\ \A k \in 1 .. Len(q) : At(q, k) = q[k]
    BY <1>1 DEF At, Link
<1>3. \A s : s \in Range(q) <=> \E k \in 1 .. Len(q) : q[k] = s
    BY <1>1 DEF Range
<1>4. Range(q) \subseteq Slot
    BY <1>1, <1>3
<1>5. IsFiniteSet(Range(q))
    BY <1>4, SlotFacts, FS_Subset
<1> QED BY <1>1, <1>2, <1>3, <1>4, <1>5

\* A list lengthened.
LEMMA AppendFacts ==
  ASSUME NEW q \in Seq(Slot), NEW s \in Slot, Distinct(q), s \notin Range(q)
  PROVE  LET new == Append(q, s)
         IN  /\ new \in Seq(Slot) /\ Distinct(new) /\ Len(new) = Len(q) + 1
             /\ DOMAIN new = 1 .. Len(q) + 1 /\ Range(new) = Range(q) \cup {s}
             /\ \A k \in 1 .. Len(q) : new[k] = q[k]
             /\ new[Len(q) + 1] = s
             /\ At(new, Len(q) + 1) = s /\ At(new, Len(q) + 2) = kNullIdx
             /\ \A k \in 0 .. Len(q) : At(new, k) = At(q, k)
<1> DEFINE new == Append(q, s)
           n == Len(q)
<1>1. /\ n \in Nat /\ DOMAIN q = 1 .. n /\ At(q, 0) = kNullIdx
      /\ \A x : x \in Range(q) <=> \E k \in 1 .. n : q[k] = x
      /\ \A k \in 1 .. n : At(q, k) = q[k]
    BY SeqFacts
<1>2. /\ new \in Seq(Slot) /\ Len(new) = n + 1 /\ DOMAIN new = 1 .. n + 1
      /\ \A k \in 1 .. n : new[k] = q[k]
      /\ new[n + 1] = s
    BY <1>1
<1> HIDE DEF new, n
<1>3. Distinct(new)
    BY <1>1, <1>2 DEF Distinct
<1>4. /\ At(new, n + 1) = s /\ At(new, n + 2) = kNullIdx
      /\ \A k \in 0 .. n : At(new, k) = At(q, k)
    BY <1>1, <1>2 DEF At
<1>5. Range(new) = Range(q) \cup {s}
  <2>1. \A x : x \in Range(new) <=> \E k \in 1 .. n + 1 : new[k] = x
      BY <1>2 DEF Range
  <2>2. \A x : x \in Range(new) <=> x \in Range(q) \/ x = s
      BY <1>1, <1>2, <2>1
  <2> QED BY <2>2
<1> QED BY <1>2, <1>3, <1>4, <1>5 DEF new, n

\* Quantities elsewhere do not count.
LEMMA QtySame ==
  ASSUME NEW S, S \subseteq Slot, NEW sl, NEW new,
         \A t \in S : new[t].qty = sl[t].qty
  PROVE  Sum(Qty(new), S) = Sum(Qty(sl), S)
<1>1. IsFiniteSet(S)
    BY SlotFacts, FS_Subset
<1>2. \A t \in S : Qty(new)[t] = Qty(sl)[t]
    BY DEF Qty
<1> QED BY <1>1, <1>2, SumSame

\* What link_order does to the slots: the new order points back to the tail, and
\* the tail to the new order.
LinkedSlots(sl, lvl, s, qty, level) ==
  V3!SetNext([sl EXCEPT ![s] = [next_idx |-> kNullIdx, prev_idx |-> lvl.tail_idx,
                                qty |-> qty, level_idx |-> level]], lvl.tail_idx, s)

\* What link_order does to the level.
LinkedLevel(lvl, s, qty) ==
  [head_idx |-> IF lvl.tail_idx = kNullIdx THEN s ELSE lvl.head_idx,
   tail_idx |-> s,
   total_qty |-> lvl.total_qty + qty,
   order_count |-> lvl.order_count + 1]

\* A linked slot is the last of its list; the other lists are untouched.
LEMMA LinkSlots ==
  ASSUME NEW sl \in [Slot -> SlotRec], NEW lvl, NEW q, NEW level \in Nat,
         Lists(sl, lvl, q, level), NEW s \in Slot, s \notin Range(q), NEW qty \in Nat
  PROVE  LET new == LinkedSlots(sl, lvl, s, qty, level)
         IN  /\ new \in [Slot -> SlotRec]
             /\ new[s].qty = qty /\ new[s].level_idx = level
             /\ \A t \in Slot \ {s} : /\ new[t].qty = sl[t].qty
                                      /\ new[t].level_idx = sl[t].level_idx
                                      /\ t \notin Range(q) => new[t] = sl[t]
             /\ Lists(new, LinkedLevel(lvl, s, qty), Append(q, s), level)
<1> DEFINE new == LinkedSlots(sl, lvl, s, qty, level)
           node == [next_idx |-> kNullIdx, prev_idx |-> lvl.tail_idx,
                    qty |-> qty, level_idx |-> level]
           n == Len(q)
           longer == Append(q, s)
           tail == lvl.tail_idx
           after == LinkedLevel(lvl, s, qty)
<1>1. /\ q \in Seq(Slot) /\ Distinct(q) /\ Linked(sl, q, level) /\ lvl \in LevelRec
      /\ lvl.head_idx = At(q, 1) /\ tail = At(q, n) /\ tail \in Link
      /\ lvl.order_count = n /\ lvl.total_qty = Sum(Qty(sl), Range(q))
    BY DEF Lists, Summary, LevelRec
<1>2. /\ n \in Nat /\ DOMAIN q = 1 .. n /\ At(q, 0) = kNullIdx /\ At(q, n + 1) = kNullIdx
      /\ \A k \in 1 .. n : q[k] \in Slot /\ At(q, k) = q[k]
      /\ Range(q) \subseteq Slot /\ IsFiniteSet(Range(q))
      /\ \A t : t \in Range(q) <=> \E k \in 1 .. n : q[k] = t
    BY <1>1, SeqFacts
<1>3. node \in SlotRec /\ s # kNullIdx /\ kNullIdx \notin Slot /\ V3!kNullIdx = kNullIdx
    BY <1>1, SlotFacts DEF SlotRec, Link
<1>4. tail # s
    BY <1>1, <1>2, <1>3
<1>5. /\ DOMAIN new = Slot /\ new[s] = node
      /\ \A t \in Slot \ {s} :
           new[t] = IF t = tail THEN [sl[t] EXCEPT !.next_idx = s] ELSE sl[t]
  <2>1. CASE tail = kNullIdx
    <3>1. new = [sl EXCEPT ![s] = node]
        BY <1>3, <2>1 DEF LinkedSlots, V3!SetNext
    <3> HIDE DEF new, node
    <3> QED BY <1>3, <2>1, <3>1
  <2>2. CASE tail # kNullIdx
    <3>1. new = [[sl EXCEPT ![s] = node] EXCEPT ![tail].next_idx = s]
        BY <1>3, <2>2 DEF LinkedSlots, V3!SetNext
    <3>2. tail \in Slot
        BY <1>1, <2>2 DEF Link
    <3> HIDE DEF new, node, tail
    <3> QED BY <1>3, <1>4, <3>1, <3>2
  <2> QED BY <2>1, <2>2
<1>6. /\ node.qty = qty /\ node.level_idx = level /\ node.next_idx = kNullIdx
      /\ node.prev_idx = tail
    OBVIOUS
<1> HIDE DEF new, node, n, longer, tail
<1>7. \A t \in Slot : sl[t] \in SlotRec
    OBVIOUS
<1>8. ASSUME NEW t \in Slot \ {s}
      PROVE  /\ new[t] \in SlotRec
             /\ new[t].qty = sl[t].qty /\ new[t].level_idx = sl[t].level_idx
             /\ new[t].prev_idx = sl[t].prev_idx
             /\ new[t].next_idx = IF t = tail THEN s ELSE sl[t].next_idx
             /\ t \notin Range(q) => new[t] = sl[t]
  <2>1. CASE t = tail
    <3>1. new[t] = [sl[t] EXCEPT !.next_idx = s] /\ s \in Link /\ sl[t] \in SlotRec
        BY <1>5, <1>7, <2>1 DEF Link
    <3>2. t \in Range(q)
      <4>1. tail # kNullIdx /\ n \in 1 .. n /\ q[n] = tail
          BY <1>1, <1>2, <1>3, <2>1 DEF At
      <4> QED BY <1>2, <2>1, <4>1
    <3> QED BY <2>1, <3>1, <3>2 DEF SlotRec
  <2>2. CASE t # tail
      BY <1>5, <1>7, <2>2
  <2> QED BY <2>1, <2>2
<1>9. new \in [Slot -> SlotRec]
  <2>1. \A t \in Slot : new[t] \in SlotRec
      BY <1>3, <1>5, <1>8
  <2>2. new = [t \in Slot |-> new[t]]
    <3>1. new = V3!SetNext([sl EXCEPT ![s] = node], tail, s)
        BY DEF new, LinkedSlots, node, tail
    <3>2. CASE tail = kNullIdx
      <4>1. new = [sl EXCEPT ![s] = node]
          BY <1>3, <3>1, <3>2 DEF V3!SetNext
      <4> QED BY <4>1
    <3>3. CASE tail # kNullIdx
      <4>1. new = [[sl EXCEPT ![s] = node] EXCEPT ![tail].next_idx = s]
          BY <1>3, <3>1, <3>3 DEF V3!SetNext
      <4> QED BY <4>1
    <3> QED BY <3>2, <3>3
  <2> QED BY <2>1, <2>2
<1>10. /\ longer \in Seq(Slot) /\ Distinct(longer) /\ Len(longer) = n + 1
       /\ DOMAIN longer = 1 .. n + 1 /\ Range(longer) = Range(q) \cup {s}
       /\ \A k \in 1 .. n : longer[k] = q[k]
       /\ longer[n + 1] = s
       /\ At(longer, n + 1) = s /\ At(longer, n + 2) = kNullIdx
       /\ \A k \in 0 .. n : At(longer, k) = At(q, k)
    BY <1>1, AppendFacts DEF longer, n
<1>11. Linked(new, longer, level)
  <2> SUFFICES ASSUME NEW k \in 1 .. n + 1
               PROVE  /\ new[longer[k]].next_idx = At(longer, k + 1)
                      /\ new[longer[k]].prev_idx = At(longer, k - 1)
                      /\ new[longer[k]].level_idx = level
      BY <1>10 DEF Linked
  <2>1. CASE k = n + 1
      BY <1>1, <1>2, <1>5, <1>6, <1>10, <2>1
  <2>2. CASE k \in 1 .. n
    <3>1. /\ longer[k] = q[k] /\ q[k] \in Slot \ {s} /\ q[k] \in Range(q)
        BY <1>2, <1>10, <2>2
    <3>2. /\ sl[q[k]].next_idx = At(q, k + 1) /\ sl[q[k]].prev_idx = At(q, k - 1)
          /\ sl[q[k]].level_idx = level
        BY <1>1, <1>2, <2>2 DEF Linked
    <3>3. At(longer, k - 1) = At(q, k - 1)
        BY <1>2, <1>10, <2>2
    <3>4. CASE k = n
        BY <1>1, <1>2, <1>8, <1>10, <3>1, <3>2, <3>3, <3>4
    <3>5. CASE k # n
      <4>1. k + 1 \in 0 .. n /\ q[k] # q[n] /\ n \in 1 .. n
          BY <1>1, <1>2, <2>2, <3>5 DEF Distinct
      <4>2. q[k] # tail
          BY <1>1, <1>2, <4>1
      <4> QED BY <1>8, <1>10, <3>1, <3>2, <3>3, <4>1, <4>2
    <3> QED BY <3>4, <3>5
  <2> QED BY <1>2, <2>1, <2>2
<1>12. Summary(new, after, longer)
  <2>1. after.total_qty = Sum(Qty(new), Range(longer)) /\ after.total_qty \in Nat
    <3>1. Sum(Qty(new), Range(q)) = Sum(Qty(sl), Range(q))
        BY <1>2, <1>8, QtySame
    <3>2. Qty(new)[s] = qty /\ \A t \in Range(q) \cup {s} : Qty(new)[t] \in Nat
      <4>1. \A t \in Slot : new[t].qty \in Nat
          BY <1>9 DEF SlotRec
      <4> QED BY <1>2, <1>5, <1>6, <4>1 DEF Qty
    <3>3. Sum(Qty(new), Range(longer)) = Sum(Qty(new), Range(q)) + qty
      <4> DEFINE S == Range(q)
                 f == Qty(new)
      <4>1. IsFiniteSet(S) /\ s \notin S /\ \A t \in S \cup {s} : f[t] \in Nat
          BY <1>2, <3>2
      <4> HIDE DEF S, f
      <4>2. Sum(f, S \cup {s}) = Sum(f, S) + f[s]
          BY <4>1, SumAdd
      <4> QED BY <1>10, <3>2, <4>2 DEF S, f
    <3>4. after.total_qty = lvl.total_qty + qty
        BY DEF LinkedLevel
    <3>5. lvl.total_qty \in Nat
        BY <1>1 DEF LevelRec
    <3> HIDE DEF after
    <3> QED BY <1>1, <3>1, <3>3, <3>4, <3>5
  <2>2. after.tail_idx = s /\ after.order_count = n + 1
      BY <1>1 DEF LinkedLevel
  <2>3. after.head_idx = At(longer, 1)
    <3>1. after.head_idx = IF tail = kNullIdx THEN s ELSE lvl.head_idx
        BY DEF LinkedLevel, tail
    <3>2. CASE n = 0
        BY <1>1, <1>2, <1>10, <3>1, <3>2
    <3>3. CASE n # 0
      <4>1. tail # kNullIdx /\ 1 \in 0 .. n
          BY <1>1, <1>2, <1>3, <3>3
      <4> QED BY <1>1, <1>10, <3>1, <4>1
    <3> QED BY <3>2, <3>3
  <2>4. after.head_idx \in Link
    <3>1. \A k \in Int : At(longer, k) \in Link
        BY <1>10, SeqFacts
    <3> QED BY <2>3, <3>1
  <2>5. after \in LevelRec
    <3>1. after = [head_idx |-> after.head_idx, tail_idx |-> after.tail_idx,
                   total_qty |-> after.total_qty, order_count |-> after.order_count]
        BY DEF LinkedLevel
    <3> HIDE DEF after
    <3>2. s \in Link
        BY DEF Link
    <3> QED BY <1>2, <2>1, <2>2, <2>4, <3>1, <3>2 DEF LevelRec
  <2> HIDE DEF after
  <2> QED BY <1>10, <2>1, <2>2, <2>3, <2>5 DEF Summary
<1>13. Lists(new, after, longer, level)
    BY <1>10, <1>11, <1>12 DEF Lists
<1> HIDE DEF after
<1>14. new[s].qty = qty /\ new[s].level_idx = level
    BY <1>5, <1>6
<1> QED BY <1>8, <1>9, <1>13, <1>14 DEF new, after, longer

\* A list that lost an element.
LEMMA ShorterFacts ==
  ASSUME NEW q \in Seq(Slot), NEW k0 \in DOMAIN q, Distinct(q)
  PROVE  LET new == Shorter(q, k0)
         IN  /\ new \in Seq(Slot) /\ Distinct(new) /\ Len(new) = Len(q) - 1
             /\ DOMAIN new = 1 .. Len(q) - 1 /\ Range(new) = Range(q) \ {q[k0]}
             /\ \A k \in 0 .. Len(q) :
                  At(new, k) = IF k < k0 THEN At(q, k) ELSE At(q, k + 1)
<1> DEFINE new == Shorter(q, k0)
           n == Len(q)
<1>1. /\ n \in Nat /\ DOMAIN q = 1 .. n /\ At(q, 0) = kNullIdx /\ At(q, n + 1) = kNullIdx
      /\ \A x : x \in Range(q) <=> \E k \in 1 .. n : q[k] = x
      /\ \A k \in 1 .. n : At(q, k) = q[k]
    BY SeqFacts
<1>2. /\ new \in Seq(Slot) /\ Len(new) = n - 1 /\ DOMAIN new = 1 .. n - 1
      /\ \A k \in 1 .. n - 1 : new[k] = IF k < k0 THEN q[k] ELSE q[k + 1]
      /\ k0 \in 1 .. n
    BY <1>1, ShorterSeq
<1> HIDE DEF new, n
<1>3. Distinct(new)
  <2> SUFFICES ASSUME NEW j \in 1 .. n - 1, NEW k \in 1 .. n - 1, new[j] = new[k]
               PROVE  j = k
      BY <1>2 DEF Distinct
  <2> DEFINE at(l) == IF l < k0 THEN l ELSE l + 1
  <2>1. at(j) \in 1 .. n /\ at(k) \in 1 .. n /\ new[j] = q[at(j)] /\ new[k] = q[at(k)]
      BY <1>1, <1>2
  <2>2. at(j) = at(k) => j = k
      BY <1>2
  <2> HIDE DEF at
  <2>3. \A a, b \in 1 .. n : q[a] = q[b] => a = b
      BY <1>1 DEF Distinct
  <2>4. q[at(j)] = q[at(k)]
      BY <2>1
  <2>5. at(j) = at(k)
      BY <2>1, <2>3, <2>4
  <2> QED BY <2>2, <2>5
<1>4. \A k \in 0 .. n : At(new, k) = IF k < k0 THEN At(q, k) ELSE At(q, k + 1)
  <2> SUFFICES ASSUME NEW k \in 0 .. n
               PROVE  At(new, k) = IF k < k0 THEN At(q, k) ELSE At(q, k + 1)
      OBVIOUS
  <2>1. CASE k \in 1 .. n - 1
      BY <1>1, <1>2, <2>1 DEF At
  <2>2. CASE k = 0
      BY <1>1, <1>2, <2>2 DEF At
  <2>3. CASE k = n
      BY <1>1, <1>2, <2>3 DEF At
  <2> QED BY <1>1, <2>1, <2>2, <2>3
<1>5. Range(new) = Range(q) \ {q[k0]}
  <2>1. \A x : x \in Range(new) <=> \E k \in 1 .. n - 1 : new[k] = x
      BY <1>2 DEF Range
  <2>2. ASSUME NEW x \in Range(new) PROVE x \in Range(q) /\ x # q[k0]
    <3>1. PICK k \in 1 .. n - 1 : new[k] = x
        BY <2>1
    <3>2. CASE k < k0
      <4>1. x = q[k] /\ k \in 1 .. n /\ k # k0
          BY <1>1, <1>2, <3>1, <3>2
      <4> QED BY <1>1, <1>2, <4>1 DEF Distinct
    <3>3. CASE ~(k < k0)
      <4>1. x = q[k + 1] /\ k + 1 \in 1 .. n /\ k + 1 # k0
          BY <1>1, <1>2, <3>1, <3>3
      <4> QED BY <1>1, <1>2, <4>1 DEF Distinct
    <3> QED BY <3>2, <3>3
  <2>3. ASSUME NEW x \in Range(q), x # q[k0] PROVE x \in Range(new)
    <3>1. PICK k \in 1 .. n : q[k] = x
        BY <1>1
    <3>2. k # k0
        BY <2>3, <3>1
    <3>3. CASE k < k0
        BY <1>1, <1>2, <2>1, <3>1, <3>3
    <3>4. CASE k > k0
      <4>1. k - 1 \in 1 .. n - 1 /\ ~(k - 1 < k0) /\ (k - 1) + 1 = k
          BY <1>1, <1>2, <3>4
      <4>2. new[k - 1] = x
          BY <1>2, <3>1, <4>1
      <4> QED BY <2>1, <4>1, <4>2
    <3> QED BY <1>1, <1>2, <3>2, <3>3, <3>4
  <2> QED BY <2>2, <2>3
<1> QED BY <1>2, <1>3, <1>4, <1>5 DEF new, n

\* What unlink_order does to the slots: the neighbours point to each other.
UnlinkedSlots(sl, s) ==
  V3!SetPrev(V3!SetNext(sl, sl[s].prev_idx, sl[s].next_idx), sl[s].next_idx, sl[s].prev_idx)

\* What unlink_order does to the level.
UnlinkedLevel(lvl, o) ==
  [head_idx |-> IF o.prev_idx = kNullIdx THEN o.next_idx ELSE lvl.head_idx,
   tail_idx |-> IF o.next_idx = kNullIdx THEN o.prev_idx ELSE lvl.tail_idx,
   total_qty |-> lvl.total_qty - o.qty,
   order_count |-> lvl.order_count - 1]

\* Setting a next_idx changes nothing else.
LEMMA SetNextFacts ==
  ASSUME NEW sl \in [Slot -> SlotRec], NEW s \in Link, NEW x \in Link
  PROVE  LET new == V3!SetNext(sl, s, x)
         IN  /\ new \in [Slot -> SlotRec]
             /\ \A t \in Slot : /\ new[t].qty = sl[t].qty
                                /\ new[t].level_idx = sl[t].level_idx
                                /\ new[t].prev_idx = sl[t].prev_idx
                                /\ new[t].next_idx = IF t = s THEN x ELSE sl[t].next_idx
                                /\ t # s => new[t] = sl[t]
<1>1. \A t \in Slot : sl[t] \in SlotRec /\ t # kNullIdx
    BY SlotFacts
<1>2. CASE s = kNullIdx
    BY <1>1, <1>2, SlotFacts DEF V3!SetNext
<1>3. CASE s # kNullIdx
  <2> DEFINE new == [sl EXCEPT ![s].next_idx = x]
  <2>1. V3!SetNext(sl, s, x) = new /\ s \in Slot
      BY <1>3, SlotFacts DEF V3!SetNext, Link
  <2>2. [sl[s] EXCEPT !.next_idx = x] \in SlotRec
      BY <1>1, <2>1 DEF SlotRec
  <2>3. new \in [Slot -> SlotRec]
      BY <2>1, <2>2
  <2>4. \A t \in Slot : new[t] = IF t = s THEN [sl[t] EXCEPT !.next_idx = x] ELSE sl[t]
      OBVIOUS
  <2> HIDE DEF new
  <2> QED BY <1>1, <2>1, <2>3, <2>4 DEF SlotRec
<1> QED BY <1>2, <1>3

\* Setting a prev_idx changes nothing else.
LEMMA SetPrevFacts ==
  ASSUME NEW sl \in [Slot -> SlotRec], NEW s \in Link, NEW x \in Link
  PROVE  LET new == V3!SetPrev(sl, s, x)
         IN  /\ new \in [Slot -> SlotRec]
             /\ \A t \in Slot : /\ new[t].qty = sl[t].qty
                                /\ new[t].level_idx = sl[t].level_idx
                                /\ new[t].next_idx = sl[t].next_idx
                                /\ new[t].prev_idx = IF t = s THEN x ELSE sl[t].prev_idx
                                /\ t # s => new[t] = sl[t]
<1>1. \A t \in Slot : sl[t] \in SlotRec /\ t # kNullIdx
    BY SlotFacts
<1>2. CASE s = kNullIdx
    BY <1>1, <1>2, SlotFacts DEF V3!SetPrev
<1>3. CASE s # kNullIdx
  <2> DEFINE new == [sl EXCEPT ![s].prev_idx = x]
  <2>1. V3!SetPrev(sl, s, x) = new /\ s \in Slot
      BY <1>3, SlotFacts DEF V3!SetPrev, Link
  <2>2. [sl[s] EXCEPT !.prev_idx = x] \in SlotRec
      BY <1>1, <2>1 DEF SlotRec
  <2>3. new \in [Slot -> SlotRec]
      BY <2>1, <2>2
  <2>4. \A t \in Slot : new[t] = IF t = s THEN [sl[t] EXCEPT !.prev_idx = x] ELSE sl[t]
      OBVIOUS
  <2> HIDE DEF new
  <2> QED BY <1>1, <2>1, <2>3, <2>4 DEF SlotRec
<1> QED BY <1>2, <1>3

\* The list without one of its slots, wherever it stood.
LEMMA UnlinkSlots ==
  ASSUME NEW sl \in [Slot -> SlotRec], NEW lvl, NEW q, NEW level \in Nat,
         Lists(sl, lvl, q, level), NEW k0 \in DOMAIN q, NEW s, s = q[k0]
  PROVE  /\ UnlinkedSlots(sl, s) \in [Slot -> SlotRec]
         /\ \A t \in Slot :
              /\ UnlinkedSlots(sl, s)[t].qty = sl[t].qty
              /\ UnlinkedSlots(sl, s)[t].level_idx = sl[t].level_idx
              /\ t \notin Range(q) => UnlinkedSlots(sl, s)[t] = sl[t]
         /\ Lists(UnlinkedSlots(sl, s), UnlinkedLevel(lvl, sl[s]), Shorter(q, k0), level)
<1> DEFINE next == sl[s].next_idx
           prev == sl[s].prev_idx
           mid == V3!SetNext(sl, prev, next)
           new == UnlinkedSlots(sl, s)
           n == Len(q)
           rest == Shorter(q, k0)
           after == UnlinkedLevel(lvl, sl[s])
<1>1. /\ q \in Seq(Slot) /\ Distinct(q) /\ Linked(sl, q, level) /\ lvl \in LevelRec
      /\ lvl.head_idx = At(q, 1) /\ lvl.tail_idx = At(q, n)
      /\ lvl.order_count = n /\ lvl.total_qty = Sum(Qty(sl), Range(q))
    BY DEF Lists, Summary
<1>2. /\ n \in Nat /\ DOMAIN q = 1 .. n /\ At(q, 0) = kNullIdx /\ At(q, n + 1) = kNullIdx
      /\ \A k \in 1 .. n : q[k] \in Slot /\ At(q, k) = q[k]
      /\ Range(q) \subseteq Slot /\ IsFiniteSet(Range(q))
      /\ \A t : t \in Range(q) <=> \E k \in 1 .. n : q[k] = t
    BY <1>1, SeqFacts
<1>3. /\ k0 \in 1 .. n /\ s \in Slot /\ sl[s] \in SlotRec
      /\ next = At(q, k0 + 1) /\ prev = At(q, k0 - 1)
    BY <1>1, <1>2 DEF Linked
<1>4. next \in Link /\ prev \in Link
    BY <1>3 DEF SlotRec
<1>5. /\ mid \in [Slot -> SlotRec]
      /\ \A t \in Slot :
           /\ mid[t].qty = sl[t].qty /\ mid[t].level_idx = sl[t].level_idx
           /\ mid[t].prev_idx = sl[t].prev_idx
           /\ mid[t].next_idx = IF t = prev THEN next ELSE sl[t].next_idx
           /\ t # prev => mid[t] = sl[t]
    BY <1>4, SetNextFacts
<1>6. new = V3!SetPrev(mid, next, prev)
    BY DEF UnlinkedSlots
<1> HIDE DEF next, prev, mid, new
<1>7. /\ new \in [Slot -> SlotRec]
      /\ \A t \in Slot :
           /\ new[t].qty = mid[t].qty /\ new[t].level_idx = mid[t].level_idx
           /\ new[t].next_idx = mid[t].next_idx
           /\ new[t].prev_idx = IF t = next THEN prev ELSE mid[t].prev_idx
           /\ t # next => new[t] = mid[t]
    BY <1>4, <1>5, <1>6, SetPrevFacts
<1>8. \A t \in Slot :
        /\ new[t].qty = sl[t].qty /\ new[t].level_idx = sl[t].level_idx
        /\ new[t].next_idx = IF t = prev THEN next ELSE sl[t].next_idx
        /\ new[t].prev_idx = IF t = next THEN prev ELSE sl[t].prev_idx
        /\ t # next /\ t # prev => new[t] = sl[t]
    BY <1>5, <1>7
<1>9. \A t \in Slot : t \notin Range(q) => t # next /\ t # prev
  <2>1. \A k \in Int : At(q, k) \in Range(q) \cup {kNullIdx}
      BY <1>2 DEF At
  <2> QED BY <1>3, <2>1, SlotFacts
<1>10. \A t \in Slot : t \notin Range(q) => new[t] = sl[t]
    BY <1>8, <1>9
<1>11. /\ rest \in Seq(Slot) /\ Distinct(rest) /\ Len(rest) = n - 1
       /\ DOMAIN rest = 1 .. n - 1 /\ Range(rest) = Range(q) \ {s}
       /\ \A k \in 0 .. n : At(rest, k) = IF k < k0 THEN At(q, k) ELSE At(q, k + 1)
    BY <1>1, ShorterFacts
<1> HIDE DEF rest, n
<1>12. \A j, k \in 1 .. n : q[j] = q[k] => j = k
    BY <1>1, <1>2 DEF Distinct
<1>13. \A k \in 1 .. n : /\ sl[q[k]].next_idx = At(q, k + 1)
                         /\ sl[q[k]].prev_idx = At(q, k - 1)
                         /\ sl[q[k]].level_idx = level
    BY <1>1, <1>2 DEF Linked
<1>14. \A k \in 1 .. n : (q[k] = prev <=> k = k0 - 1) /\ (q[k] = next <=> k = k0 + 1)
    BY <1>2, <1>3, <1>12, SlotFacts DEF At
<1>15. Linked(new, rest, level)
  <2> SUFFICES ASSUME NEW k \in 1 .. n - 1
               PROVE  /\ new[rest[k]].next_idx = At(rest, k + 1)
                      /\ new[rest[k]].prev_idx = At(rest, k - 1)
                      /\ new[rest[k]].level_idx = level
      BY <1>11 DEF Linked
  <2>1. rest[k] = At(rest, k) /\ k \in 0 .. n /\ k + 1 \in 0 .. n /\ k - 1 \in 0 .. n
      BY <1>2, <1>11 DEF At
  <2>2. CASE k < k0
    <3>1. k \in 1 .. n /\ rest[k] = q[k] /\ q[k] \in Slot
        BY <1>2, <1>11, <2>1, <2>2
    <3>2. At(rest, k - 1) = At(q, k - 1)
        BY <1>11, <1>3, <2>1, <2>2
    <3>3. q[k] # next
        BY <1>3, <1>14, <2>2, <3>1
    <3>4. new[q[k]].prev_idx = At(q, k - 1) /\ new[q[k]].level_idx = level
        BY <1>8, <1>13, <3>1, <3>3
    <3>5. CASE k = k0 - 1
      <4>1. new[q[k]].next_idx = At(q, k0 + 1)
          BY <1>3, <1>8, <1>14, <3>1, <3>5
      <4>2. At(rest, k + 1) = At(q, k0 + 1)
          BY <1>3, <1>11, <2>1, <3>5
      <4> QED BY <3>1, <3>2, <3>4, <4>1, <4>2
    <3>6. CASE k # k0 - 1
      <4>1. new[q[k]].next_idx = At(q, k + 1)
          BY <1>8, <1>13, <1>14, <3>1, <3>6
      <4>2. At(rest, k + 1) = At(q, k + 1)
          BY <1>3, <1>11, <2>1, <2>2, <3>6
      <4> QED BY <3>1, <3>2, <3>4, <4>1, <4>2
    <3> QED BY <3>5, <3>6
  <2>3. CASE ~(k < k0)
    <3>1. k + 1 \in 1 .. n /\ rest[k] = q[k + 1] /\ q[k + 1] \in Slot
        BY <1>2, <1>3, <1>11, <2>1, <2>3
    <3>2. At(rest, k + 1) = At(q, (k + 1) + 1)
        BY <1>11, <1>3, <2>1, <2>3
    <3>3. q[k + 1] # prev
        BY <1>3, <1>14, <2>3, <3>1
    <3>4. new[q[k + 1]].next_idx = At(q, (k + 1) + 1) /\ new[q[k + 1]].level_idx = level
        BY <1>8, <1>13, <3>1, <3>3
    <3>5. CASE k = k0
      <4>1. new[q[k + 1]].prev_idx = At(q, k0 - 1)
          BY <1>3, <1>8, <1>14, <3>1, <3>5
      <4>2. At(rest, k - 1) = At(q, k0 - 1)
          BY <1>3, <1>11, <2>1, <3>5
      <4> QED BY <3>1, <3>2, <3>4, <4>1, <4>2
    <3>6. CASE k # k0
      <4>1. new[q[k + 1]].prev_idx = At(q, k)
        <5>1. q[k + 1] # next
            BY <1>3, <1>14, <2>3, <3>1, <3>6
        <5>2. (k + 1) - 1 = k
            OBVIOUS
        <5> QED BY <1>8, <1>13, <3>1, <5>1, <5>2
      <4>2. At(rest, k - 1) = At(q, k)
        <5>1. ~(k - 1 < k0) /\ (k - 1) + 1 = k
            BY <1>3, <2>3, <3>6
        <5> QED BY <1>11, <2>1, <5>1
      <4> QED BY <3>1, <3>2, <3>4, <4>1, <4>2
    <3> QED BY <3>5, <3>6
  <2> QED BY <2>2, <2>3
<1>16. Sum(Qty(new), Range(rest)) = lvl.total_qty - sl[s].qty
  <2> DEFINE S == Range(q)
             f == Qty(sl)
             R == Range(rest)
  <2>1. IsFiniteSet(S) /\ s \in S /\ \A t \in S : f[t] \in Nat
    <3>1. \A t \in Slot : sl[t].qty \in Nat
        BY DEF SlotRec
    <3> QED BY <1>2, <1>3, <3>1 DEF Qty
  <2>2. f[s] = sl[s].qty /\ lvl.total_qty = Sum(f, S) /\ R = S \ {s} /\ R \subseteq Slot
      BY <1>1, <1>2, <1>3, <1>11 DEF Qty
  <2>3. Sum(Qty(new), R) = Sum(f, R)
      BY <1>8, <2>2, QtySame
  <2> HIDE DEF S, f, R
  <2>4. Sum(f, S) = f[s] + Sum(f, S \ {s})
      BY <2>1, SumRemove
  <2>5. Sum(f, S \ {s}) \in Nat
    <3>1. IsFiniteSet(S \ {s}) /\ \A t \in S \ {s} : f[t] \in Nat
        BY <2>1, FS_RemoveElement
    <3> QED BY <3>1, SumType
  <2>6. f[s] \in Nat
      BY <2>1
  <2> DEFINE rsum == Sum(f, S \ {s})
  <2>7. Sum(Qty(new), R) = rsum /\ lvl.total_qty = f[s] + rsum /\ rsum \in Nat
      BY <2>2, <2>3, <2>4, <2>5
  <2> HIDE DEF rsum
  <2>8. rsum = lvl.total_qty - f[s]
      BY <2>6, <2>7
  <2> QED BY <2>2, <2>7, <2>8 DEF R
<1>17. Summary(new, after, rest)
  <2>1. after.total_qty = Sum(Qty(new), Range(rest)) /\ after.total_qty \in Nat
    <3>1. after.total_qty = lvl.total_qty - sl[s].qty
        BY DEF UnlinkedLevel
    <3>2. Sum(Qty(new), Range(rest)) \in Nat
      <4>1. IsFiniteSet(Range(rest)) /\ Range(rest) \subseteq Slot
          BY <1>11, SeqFacts
      <4>2. \A t \in Slot : new[t].qty \in Nat
          BY <1>7 DEF SlotRec
      <4>3. \A t \in Range(rest) : Qty(new)[t] \in Nat
          BY <4>1, <4>2 DEF Qty
      <4> QED BY <4>1, <4>3, SumType
    <3> HIDE DEF after
    <3> QED BY <1>16, <3>1, <3>2
  <2>2. after.order_count = n - 1 /\ n - 1 \in Nat
      BY <1>1, <1>2, <1>3 DEF UnlinkedLevel
  <2>3. after.head_idx = At(rest, 1)
    <3>1. after.head_idx = IF prev = kNullIdx THEN next ELSE lvl.head_idx
        BY DEF UnlinkedLevel, prev, next
    <3>2. 1 \in 0 .. n
        BY <1>2, <1>3
    <3>3. CASE k0 = 1
      <4>1. prev = kNullIdx
          BY <1>2, <1>3, <3>3
      <4> QED BY <1>3, <1>11, <3>1, <3>2, <3>3, <4>1
    <3>4. CASE k0 # 1
      <4>1. prev # kNullIdx
          BY <1>2, <1>3, <3>4, SlotFacts
      <4>2. 1 < k0
          BY <1>3, <3>4
      <4> QED BY <1>1, <1>11, <3>1, <3>2, <4>1, <4>2
    <3> QED BY <3>3, <3>4
  <2>4. after.tail_idx = At(rest, n - 1)
    <3>1. after.tail_idx = IF next = kNullIdx THEN prev ELSE lvl.tail_idx
        BY DEF UnlinkedLevel, prev, next
    <3>2. n - 1 \in 0 .. n /\ (n - 1) + 1 = n
        BY <1>2, <1>3
    <3>3. CASE k0 = n
      <4>1. next = kNullIdx /\ n - 1 < k0
          BY <1>2, <1>3, <3>3
      <4> QED BY <1>3, <1>11, <3>1, <3>2, <3>3, <4>1
    <3>4. CASE k0 # n
      <4>1. next # kNullIdx
          BY <1>2, <1>3, <3>4, SlotFacts
      <4>2. ~(n - 1 < k0)
          BY <1>2, <1>3, <3>4
      <4> QED BY <1>1, <1>11, <3>1, <3>2, <4>1, <4>2
    <3> QED BY <3>3, <3>4
  <2>5. after.head_idx \in Link /\ after.tail_idx \in Link
    <3>1. \A k \in Int : At(rest, k) \in Link
        BY <1>11, SeqFacts
    <3> HIDE DEF after
    <3> QED BY <1>2, <2>3, <2>4, <3>1
  <2>6. after \in LevelRec
    <3>1. after = [head_idx |-> after.head_idx, tail_idx |-> after.tail_idx,
                   total_qty |-> after.total_qty, order_count |-> after.order_count]
        BY DEF UnlinkedLevel
    <3> HIDE DEF after
    <3> QED BY <2>1, <2>2, <2>5, <3>1 DEF LevelRec
  <2> HIDE DEF after
  <2> QED BY <1>11, <2>1, <2>2, <2>3, <2>4, <2>6 DEF Summary
<1>18. Lists(new, after, rest, level)
    BY <1>11, <1>15, <1>17 DEF Lists
<1> HIDE DEF after
<1> QED BY <1>7, <1>8, <1>10, <1>18 DEF new, after, rest

\* Changes of other slots do not matter to a list.
LEMMA ListsFrame ==
  ASSUME NEW sl, NEW lvl, NEW q, NEW level, Lists(sl, lvl, q, level),
         NEW new, \A t \in Range(q) : new[t] = sl[t]
  PROVE  Lists(new, lvl, q, level)
<1>1. q \in Seq(Slot) /\ Distinct(q) /\ Linked(sl, q, level) /\ Summary(sl, lvl, q)
    BY DEF Lists
<1>2. Range(q) \subseteq Slot /\ \A k \in DOMAIN q : q[k] \in Range(q)
    BY <1>1, SeqFacts
<1>3. Linked(new, q, level)
    BY <1>1, <1>2 DEF Linked
<1>4. Sum(Qty(new), Range(q)) = Sum(Qty(sl), Range(q))
    BY <1>2, QtySame
<1> QED BY <1>1, <1>3, <1>4 DEF Lists, Summary

\* What a partial execution leaves of a slot's shares and of a level's total.
SharesTaken(sl, s, n) == [sl EXCEPT ![s].qty = @ - n]

\* What a partial execution or cancel does to the level.
TotalTaken(lvl, n) == [lvl EXCEPT !.total_qty = @ - n]

\* A partial execution, on the order and on its level's total.
LEMMA ReduceLists ==
  ASSUME NEW sl \in [Slot -> SlotRec], NEW lvl, NEW q, NEW level,
         Lists(sl, lvl, q, level), NEW s \in Range(q), NEW n \in Nat, n < sl[s].qty,
         NEW new, new = SharesTaken(sl, s, n)
  PROVE  /\ new \in [Slot -> SlotRec]
         /\ new[s].qty = sl[s].qty - n
         /\ \A t \in Slot : /\ new[t].level_idx = sl[t].level_idx
                            /\ new[t].next_idx = sl[t].next_idx
                            /\ t # s => new[t] = sl[t]
         /\ Lists(new, TotalTaken(lvl, n), q, level)
<1>1. /\ q \in Seq(Slot) /\ Distinct(q) /\ Linked(sl, q, level) /\ Summary(sl, lvl, q)
      /\ Range(q) \subseteq Slot /\ IsFiniteSet(Range(q))
      /\ \A k \in DOMAIN q : q[k] \in Slot
    BY SeqFacts DEF Lists
<1>2. s \in Slot /\ sl[s] \in SlotRec
    BY <1>1
<1>3. [sl[s] EXCEPT !.qty = @ - n] \in SlotRec /\ sl[s].qty \in Nat
    BY <1>2 DEF SlotRec
<1>4. new \in [Slot -> SlotRec]
    BY <1>2, <1>3 DEF SharesTaken
<1>5. \A t \in Slot : new[t] = IF t = s THEN [sl[t] EXCEPT !.qty = @ - n] ELSE sl[t]
    BY <1>2 DEF SharesTaken
<1>6. \A t \in Slot : /\ new[t].level_idx = sl[t].level_idx
                      /\ new[t].next_idx = sl[t].next_idx
                      /\ new[t].prev_idx = sl[t].prev_idx
                      /\ t # s => new[t] = sl[t]
    BY <1>2, <1>5 DEF SlotRec
<1>7. new[s].qty = sl[s].qty - n
    BY <1>2, <1>5 DEF SlotRec
<1>8. Linked(new, q, level)
    BY <1>1, <1>6 DEF Linked
<1> DEFINE S == Range(q)
           R == S \ {s}
           f == Qty(sl)
           g == Qty(new)
<1>9. /\ IsFiniteSet(S) /\ s \in S /\ IsFiniteSet(R) /\ R \subseteq Slot
      /\ \A t \in S : f[t] \in Nat /\ g[t] \in Nat
      /\ f[s] = sl[s].qty /\ g[s] = sl[s].qty - n
  <2>1. \A t \in Slot : sl[t].qty \in Nat /\ new[t].qty \in Nat
      BY <1>4 DEF SlotRec
  <2> QED BY <1>1, <1>2, <1>7, <2>1, FS_RemoveElement DEF Qty
<1>10. Sum(g, R) = Sum(f, R)
    BY <1>6, <1>9, QtySame
<1> HIDE DEF S, R, f, g
<1>11. Sum(f, S) = f[s] + Sum(f, R) /\ Sum(g, S) = g[s] + Sum(g, R)
    BY <1>9, SumRemove DEF R
<1>12. Sum(f, R) \in Nat
  <2>1. \A t \in R : f[t] \in Nat
      BY <1>9 DEF R
  <2> QED BY <1>9, <2>1, SumType
<1> DEFINE rest == Sum(f, R)
           after == [lvl EXCEPT !.total_qty = @ - n]
<1>13. Sum(f, S) = f[s] + rest /\ Sum(g, S) = g[s] + rest /\ rest \in Nat
    BY <1>10, <1>11, <1>12
<1> HIDE DEF rest
<1>14. Sum(g, S) = Sum(f, S) - n /\ Sum(g, S) \in Nat
  <2>1. g[s] \in Nat /\ f[s] \in Nat /\ f[s] = g[s] + n
      BY <1>3, <1>9
  <2> QED BY <1>13, <2>1
<1>15. lvl \in LevelRec /\ lvl.total_qty = Sum(f, S)
    BY <1>1 DEF Summary, f, S
<1>16. /\ after \in LevelRec /\ after.total_qty = Sum(g, S)
       /\ after.head_idx = lvl.head_idx /\ after.tail_idx = lvl.tail_idx
       /\ after.order_count = lvl.order_count
    BY <1>14, <1>15 DEF LevelRec
<1> HIDE DEF after
<1>17. Summary(new, after, q)
    BY <1>1, <1>16 DEF Summary, g, S
<1>18. Lists(new, after, q, level)
    BY <1>1, <1>8, <1>17 DEF Lists
<1> QED BY <1>4, <1>6, <1>7, <1>18 DEF after, TotalTaken

-----------------------------------------------------------------------------
(* The free list. *)

\* The free list q starts at head and follows next_idx through different slots.
FreeList(sl, head, q) ==
  /\ q \in Seq(Slot) /\ Distinct(q) /\ head = At(q, 1)
  /\ \A k \in DOMAIN q : sl[q[k]].next_idx = At(q, k + 1)

\* Changes of slots that are not free do not matter to it.
LEMMA FreeFrame ==
  ASSUME NEW sl, NEW head, NEW q, FreeList(sl, head, q),
         NEW new, \A t \in Range(q) : new[t].next_idx = sl[t].next_idx
  PROVE  FreeList(new, head, q)
<1>1. \A k \in DOMAIN q : q[k] \in Range(q)
    BY DEF Range
<1> QED BY <1>1 DEF FreeList

\* allocate takes the first free slot.
LEMMA FreePop ==
  ASSUME NEW sl, NEW head, NEW q, FreeList(sl, head, q), head # kNullIdx
  PROVE  /\ head \in Slot /\ head \in Range(q)
         /\ FreeList(sl, sl[head].next_idx, Shorter(q, 1))
         /\ Range(Shorter(q, 1)) = Range(q) \ {head}
<1>1. /\ q \in Seq(Slot) /\ Distinct(q) /\ head = At(q, 1)
      /\ \A k \in DOMAIN q : sl[q[k]].next_idx = At(q, k + 1)
    BY DEF FreeList
<1>2. Len(q) \in Nat /\ DOMAIN q = 1 .. Len(q) /\ \A k \in 1 .. Len(q) : q[k] \in Slot
    BY <1>1
<1>3. 1 \in DOMAIN q /\ head = q[1] /\ head \in Slot /\ head \in Range(q)
    BY <1>1, <1>2 DEF At, Range
<1> DEFINE rest == Shorter(q, 1)
<1>4. /\ rest \in Seq(Slot) /\ Distinct(rest) /\ DOMAIN rest = 1 .. Len(q) - 1
      /\ Range(rest) = Range(q) \ {head}
      /\ \A k \in 0 .. Len(q) : At(rest, k) = IF k < 1 THEN At(q, k) ELSE At(q, k + 1)
    BY <1>1, <1>3, ShorterFacts
<1> HIDE DEF rest
<1>5. sl[head].next_idx = At(rest, 1)
    BY <1>1, <1>2, <1>3, <1>4
<1>6. ASSUME NEW k \in DOMAIN rest PROVE sl[rest[k]].next_idx = At(rest, k + 1)
  <2>1. /\ k \in 1 .. Len(q) /\ k + 1 \in 1 .. Len(q)
        /\ rest[k] = q[k + 1] /\ At(rest, k + 1) = At(q, (k + 1) + 1)
      BY <1>2, <1>4 DEF At
  <2> QED BY <1>1, <1>2, <2>1
<1>7. FreeList(sl, sl[head].next_idx, rest)
    BY <1>4, <1>5, <1>6 DEF FreeList
<1> QED BY <1>3, <1>4, <1>7 DEF rest

\* A slot put before a list.
Pushed(s, q) == [k \in 1 .. Len(q) + 1 |-> IF k = 1 THEN s ELSE q[k - 1]]

\* release puts a slot in front.
LEMMA FreePush ==
  ASSUME NEW sl, NEW head, NEW q, FreeList(sl, head, q),
         NEW s \in Slot, s \notin Range(q), NEW new, new[s].next_idx = head,
         \A t \in Range(q) : new[t].next_idx = sl[t].next_idx
  PROVE  FreeList(new, s, Pushed(s, q)) /\ Range(Pushed(s, q)) = Range(q) \cup {s}
<1> DEFINE all == Pushed(s, q)
           n == Len(q)
<1>1. /\ q \in Seq(Slot) /\ Distinct(q) /\ head = At(q, 1)
      /\ \A k \in DOMAIN q : sl[q[k]].next_idx = At(q, k + 1)
    BY DEF FreeList
<1>2. /\ n \in Nat /\ DOMAIN q = 1 .. n /\ \A k \in 1 .. n : q[k] \in Slot
      /\ \A x : x \in Range(q) <=> \E k \in 1 .. n : q[k] = x
    BY <1>1, SeqFacts
<1>3. /\ DOMAIN all = 1 .. n + 1 /\ all[1] = s
      /\ \A k \in 1 .. n : all[k + 1] = q[k]
      /\ \A k \in 1 .. n + 1 : k = 1 \/ (k - 1 \in 1 .. n /\ all[k] = q[k - 1])
    BY <1>2 DEF Pushed
<1>4. all \in Seq(Slot)
  <2>1. all \in [1 .. n + 1 -> Slot]
      BY <1>2 DEF Pushed
  <2> QED BY <1>2, <2>1
<1> HIDE DEF all, n
<1>5. Distinct(all)
  <2> SUFFICES ASSUME NEW j \in 1 .. n + 1, NEW k \in 1 .. n + 1, all[j] = all[k]
               PROVE  j = k
      BY <1>3 DEF Distinct
  <2>1. \A l \in 1 .. n : q[l] # s
      BY <1>2
  <2>2. CASE j = 1 \/ k = 1
      BY <1>3, <2>1, <2>2
  <2>3. CASE j # 1 /\ k # 1
    <3>1. j - 1 \in 1 .. n /\ k - 1 \in 1 .. n /\ q[j - 1] = q[k - 1]
        BY <1>3, <2>3
    <3>2. j - 1 = k - 1
        BY <1>1, <1>2, <3>1 DEF Distinct
    <3> QED BY <1>2, <3>2
  <2> QED BY <2>2, <2>3
<1>6. Range(all) = Range(q) \cup {s}
  <2>1. \A x : x \in Range(all) <=> \E k \in 1 .. n + 1 : all[k] = x
      BY <1>3 DEF Range
  <2>2. ASSUME NEW x \in Range(q) PROVE x \in Range(all)
    <3>1. PICK k \in 1 .. n : q[k] = x
        BY <1>2
    <3>2. k + 1 \in 1 .. n + 1 /\ all[k + 1] = x
        BY <1>2, <1>3, <3>1
    <3> QED BY <2>1, <3>2
  <2>3. s \in Range(all)
      BY <1>2, <1>3, <2>1
  <2>4. \A x \in Range(all) : x \in Range(q) \cup {s}
      BY <1>2, <1>3, <2>1
  <2> QED BY <2>2, <2>3, <2>4
<1>7. \A k \in 1 .. n + 1 : At(all, k + 1) = At(q, k)
    BY <1>2, <1>3 DEF At
<1>8. At(all, 1) = s
    BY <1>2, <1>3 DEF At
<1>9. ASSUME NEW k \in 1 .. n + 1 PROVE new[all[k]].next_idx = At(all, k + 1)
  <2>1. CASE k = 1
      BY <1>1, <1>2, <1>3, <1>7, <2>1
  <2>2. CASE k # 1
    <3>1. k - 1 \in 1 .. n /\ all[k] = q[k - 1] /\ q[k - 1] \in Range(q)
        BY <1>2, <1>3, <2>2
    <3>2. sl[q[k - 1]].next_idx = At(q, (k - 1) + 1) /\ (k - 1) + 1 = k
        BY <1>1, <1>2, <3>1
    <3> QED BY <1>7, <3>1, <3>2
  <2> QED BY <2>1, <2>2
<1>10. FreeList(new, s, all)
    BY <1>3, <1>4, <1>5, <1>8, <1>9 DEF FreeList
<1> QED BY <1>6, <1>10 DEF all

-----------------------------------------------------------------------------
(* Following next_idx. *)

\* A list of different slots is no longer than the pool, and has as many slots as places.
LEMMA DistinctLen ==
  ASSUME NEW q \in Seq(Slot), Distinct(q)
  PROVE  Len(q) <= PoolCapacity /\ Cardinality(Range(q)) = Len(q)
<1> DEFINE n == Len(q)
<1>1. /\ n \in Nat /\ DOMAIN q = 1 .. n /\ q \in [1 .. n -> Slot]
      /\ IsFiniteSet(1 .. n) /\ Cardinality(1 .. n) = n
      /\ IsFiniteSet(Slot) /\ Cardinality(Slot) = PoolCapacity /\ PoolCapacity \in Nat
  <2>1. n \in Nat /\ DOMAIN q = 1 .. n /\ q \in [1 .. n -> Slot]
      OBVIOUS
  <2>2. IsFiniteSet(1 .. n) /\ Cardinality(1 .. n) = n
    <3> HIDE DEF n
    <3> QED BY <2>1, FS_Interval
  <2> QED BY <2>1, <2>2, SlotFacts
<1>2. \A j, k \in 1 .. n : q[j] = q[k] => j = k
    BY <1>1 DEF Distinct
<1>3. q \in [1 .. n -> Range(q)] /\ \A t \in Range(q) : \E k \in 1 .. n : q[k] = t
    BY <1>1 DEF Range
<1> HIDE DEF n
<1>4. n <= PoolCapacity
  <2> SUFFICES ASSUME PoolCapacity < n PROVE FALSE
      BY <1>1
  <2>1. \E x, y \in 1 .. n : x # y /\ q[x] = q[y]
      BY <1>1, FS_PigeonHole
  <2> QED BY <1>2, <2>1
<1>5. q \in Surjection(1 .. n, Range(q)) /\ q \in Injection(1 .. n, Range(q))
    BY <1>2, <1>3 DEF Surjection, Injection, IsInjective
<1>6. Cardinality(Range(q)) = n
    BY <1>1, <1>5, FS_Surjection
<1> QED BY <1>4, <1>6 DEF n

\* A function that follows the links from s.
Follows(at, sl, s) == at = [k \in 1 .. PoolCapacity |->
  IF k = 1 THEN s
  ELSE IF at[k - 1] = kNullIdx THEN kNullIdx ELSE sl[at[k - 1]].next_idx]

\* That function.
Following(sl, s) == CHOOSE at : Follows(at, sl, s)

\* Chain reads the function up to its first null link.
LEMMA ChainDef ==
  ASSUME NEW s
  PROVE  Chain(s) = LET at == Following(slots, s)
                    IN  [k \in 1 .. Cardinality({l \in 1 .. PoolCapacity : at[l] # kNullIdx})
                           |-> at[k]]
BY DEF Chain, Following, Follows

\* From the first slot of a linked list the links lead along the list.
LEMMA ChainIs ==
  ASSUME NEW q \in Seq(Slot), Distinct(q),
         \A k \in DOMAIN q : slots[q[k]].next_idx = At(q, k + 1)
  PROVE  Chain(At(q, 1)) = q
<1> DEFINE n == Len(q)
           P == PoolCapacity
           it == [k \in 1 .. P |-> At(q, k)]
           at == Following(slots, At(q, 1))
<1>1. /\ n \in Nat /\ DOMAIN q = 1 .. n /\ P \in Nat \ {0} /\ n <= P
      /\ \A k \in 1 .. n : q[k] \in Slot /\ At(q, k) = q[k] /\ q[k] # kNullIdx
      /\ q = [k \in 1 .. n |-> q[k]]
    BY SlotFacts, SeqFacts, DistinctLen
<1> HIDE DEF n, P
<1>2. \A k \in 1 .. P : At(q, k) # kNullIdx <=> k \in 1 .. n
    BY <1>1 DEF At
<1>3. ASSUME NEW k \in 1 .. P, k # 1
      PROVE  At(q, k) = IF At(q, k - 1) = kNullIdx THEN kNullIdx
                        ELSE slots[At(q, k - 1)].next_idx
  <2>1. k - 1 \in 1 .. P /\ (k - 1) + 1 = k
      BY <1>1, <1>3
  <2>2. CASE k - 1 \in 1 .. n
      BY <1>1, <1>2, <2>1, <2>2
  <2>3. CASE k - 1 \notin 1 .. n
    <3>1. k \notin 1 .. n
        BY <1>1, <2>1, <2>3
    <3> QED BY <1>1, <1>2, <2>1, <2>3, <3>1 DEF At
  <2> QED BY <2>2, <2>3
<1>4. Follows(it, slots, At(q, 1))
  <2>1. ASSUME NEW k \in 1 .. P
        PROVE  it[k] = IF k = 1 THEN At(q, 1)
                       ELSE IF it[k - 1] = kNullIdx THEN kNullIdx
                            ELSE slots[it[k - 1]].next_idx
    <3>1. k # 1 => k - 1 \in 1 .. P
        BY <1>1
    <3> QED BY <1>3, <3>1
  <2> HIDE DEF it
  <2>2. it = [k \in 1 .. P |-> it[k]]
      BY DEF it
  <2> QED BY <2>1, <2>2 DEF Follows, P
<1>5. Follows(at, slots, At(q, 1))
    BY <1>4 DEF Following
<1> HIDE DEF at, it
<1>6. \A k \in 1 .. P : at[k] = IF k = 1 THEN At(q, 1)
                                ELSE IF at[k - 1] = kNullIdx THEN kNullIdx
                                     ELSE slots[at[k - 1]].next_idx
    BY <1>5 DEF Follows, P
<1>7. \A k \in 1 .. P : at[k] = At(q, k)
  <2> DEFINE T == {m \in Nat : m + 1 \in 1 .. P => at[m + 1] = At(q, m + 1)}
  <2>1. 0 \in T
    <3>1. 0 + 1 = 1 /\ 1 \in 1 .. P
        BY <1>1
    <3>2. at[1] = At(q, 1)
        BY <1>6, <3>1
    <3> QED BY <3>1, <3>2
  <2>2. ASSUME NEW m \in Nat, m \in T PROVE m + 1 \in T
    <3> SUFFICES ASSUME (m + 1) + 1 \in 1 .. P
                 PROVE  at[(m + 1) + 1] = At(q, (m + 1) + 1)
        OBVIOUS
    <3>1. m + 1 \in 1 .. P /\ ((m + 1) + 1) - 1 = m + 1 /\ (m + 1) + 1 # 1
        BY <1>1
    <3>2. at[m + 1] = At(q, m + 1)
        BY <2>2, <3>1
    <3>3. at[(m + 1) + 1] = IF at[m + 1] = kNullIdx THEN kNullIdx
                            ELSE slots[at[m + 1]].next_idx
        BY <1>6, <3>1
    <3>4. At(q, (m + 1) + 1) = IF At(q, m + 1) = kNullIdx THEN kNullIdx
                               ELSE slots[At(q, m + 1)].next_idx
        BY <1>3, <3>1
    <3> QED BY <3>2, <3>3, <3>4
  <2>3. Nat \subseteq T
      BY <2>1, <2>2, NatSetInduction
  <2>4. ASSUME NEW k \in 1 .. P PROVE at[k] = At(q, k)
    <3>1. k - 1 \in Nat /\ (k - 1) + 1 = k
        BY <1>1
    <3>2. k - 1 \in T
        BY <2>3, <3>1
    <3> QED BY <3>1, <3>2
  <2> QED BY <2>4
<1>8. {l \in 1 .. P : at[l] # kNullIdx} = 1 .. n
  <2>1. \A l \in 1 .. P : at[l] # kNullIdx <=> l \in 1 .. n
      BY <1>2, <1>7
  <2> QED BY <1>1, <2>1
<1>9. Cardinality({l \in 1 .. P : at[l] # kNullIdx}) = n
  <2>1. n \in Nat
      BY <1>1
  <2>2. Cardinality(1 .. n) = n
      BY <2>1, FS_Interval
  <2> QED BY <1>8, <2>2
<1>10. Chain(At(q, 1)) = [k \in 1 .. n |-> at[k]]
    BY <1>9, ChainDef DEF at, P
<1>11. ASSUME NEW k \in 1 .. n PROVE at[k] = q[k]
  <2>1. k \in 1 .. P /\ At(q, k) = q[k]
      BY <1>1
  <2> QED BY <1>7, <2>1
<1> QED BY <1>1, <1>10, <1>11

-----------------------------------------------------------------------------
(* The scans of the occupied bits. *)

\* The cached best level of a set of levels, for bids and for asks.
Highest(S) == IF S = {} THEN -1 ELSE Max(S)

Lowest(S) == IF S = {} THEN -1 ELSE Min(S)

\* The largest element of a set.
LEMMA MaxIs ==
  ASSUME NEW S, S \subseteq Nat, NEW m \in S, \A y \in S : y <= m
  PROVE  Max(S) = m /\ V3!Max(S) = m
<1>1. \A x \in S : (\A y \in S : x >= y) => x = m
    BY SMT
<1>2. \A y \in S : m >= y
    OBVIOUS
<1> QED BY <1>1, <1>2 DEF Max, V3!Max

\* The least one.
LEMMA MinIs ==
  ASSUME NEW S, S \subseteq Nat, NEW m \in S, \A y \in S : m <= y
  PROVE  Min(S) = m /\ V3!Min(S) = m
<1>1. \A x \in S : (\A y \in S : x <= y) => x = m
    BY SMT
<1> QED BY <1>1 DEF Min, V3!Min

\* A bounded set of numbers has a largest element.
LEMMA MaxIn ==
  ASSUME NEW n \in Nat, NEW S, S \subseteq 0 .. n, S # {}
  PROVE  Max(S) \in S /\ V3!Max(S) = Max(S) /\ \A y \in S : y <= Max(S)
<1> DEFINE T == {j \in Nat : n - j \in S}
<1>1. PICK s \in S : TRUE
    OBVIOUS
<1>2. s \in 0 .. n /\ n - s \in Nat /\ n - (n - s) = s
    BY <1>1
<1>3. n - s \in T
    BY <1>2
<1>4. PICK j \in T : \A i \in T : j <= i
    BY <1>3, LeastNat
<1>5. n - j \in S
    OBVIOUS
<1>6. ASSUME NEW y \in S PROVE y <= n - j
  <2>1. y \in 0 .. n /\ n - y \in Nat /\ n - (n - y) = y
      OBVIOUS
  <2>2. j <= n - y
      BY <1>4, <2>1
  <2> QED BY <2>1, <2>2
<1> DEFINE m == n - j
<1>7. m \in S /\ S \subseteq Nat /\ \A y \in S : y <= m
    BY <1>5, <1>6
<1> HIDE DEF m
<1> QED BY <1>7, MaxIs

\* A set of numbers has a least element.
LEMMA MinIn ==
  ASSUME NEW S, S \subseteq Nat, S # {}
  PROVE  Min(S) \in S /\ V3!Min(S) = Min(S) /\ \A y \in S : Min(S) <= y
<1>1. PICK m \in S : \A y \in S : m <= y
    BY LeastNat
<1> QED BY <1>1, MinIs

\* The word a bit is in: later bits are in later words.
WordOf == [x \in Nat |-> x \div kWordBits]

\* Words are numbered as the levels in them.
LEMMA WordOrder ==
  /\ \A x \in Nat : WordOf[x] \in Nat
  /\ \A x, y \in Nat : x <= y => WordOf[x] <= WordOf[y]
<1>1. kWordBits \in Nat /\ kWordBits > 0
    BY BooksAssumption
<1>2. ASSUME NEW x \in Nat PROVE x \div kWordBits \in Nat
    BY <1>1
<1>3. ASSUME NEW x \in Nat, NEW y \in Nat, x <= y
      PROVE  x \div kWordBits <= y \div kWordBits
    BY <1>1, <1>3
<1> QED BY <1>2, <1>3 DEF WordOf

\* The scan of find_prev_set, as a function of the word.
PrevScan(scan, occ, from) == scan = [w \in -1 .. from \div kWordBits |->
  IF w = -1 THEN -1
  ELSE IF {x \in V3!Word(occ, w) : x <= from} # {}
         THEN V3!Max({x \in V3!Word(occ, w) : x <= from})
         ELSE scan[w - 1]]

\* find_prev_set is that scan from the word of `from` down.
LEMMA FindPrevDef ==
  ASSUME NEW occ, NEW from
  PROVE  V3!FindPrevSet(occ, from)
           = (CHOOSE scan : PrevScan(scan, occ, from))[from \div kWordBits]
BY DEF V3!FindPrevSet, PrevScan

\* find_prev_set returns the highest occupied level up to `from`.
LEMMA FindPrev ==
  ASSUME NEW n \in Nat, NEW occ, occ \subseteq 0 .. n, NEW from \in Nat
  PROVE  V3!FindPrevSet(occ, from) = Highest({x \in occ : x <= from})
<1> DEFINE last == from \div kWordBits
           Word(w) == {x \in V3!Word(occ, w) : x <= from}
           Upto(w) == {x \in occ : x <= from /\ WordOf[x] <= w}
           it == [w \in -1 .. last |-> Highest(Upto(w))]
           scan == CHOOSE f : PrevScan(f, occ, from)
<1>1. last \in Nat /\ last = WordOf[from]
    BY WordOrder DEF WordOf
<1>2. \A w : Word(w) = {x \in occ : x <= from /\ WordOf[x] = w}
  <2>1. \A x \in occ : WordOf[x] = x \div kWordBits
      BY DEF WordOf
  <2> QED BY <2>1 DEF V3!Word
<1>3. \A x \in occ : x \in Nat /\ WordOf[x] \in Nat
    BY WordOrder
<1>4. Upto(-1) = {} /\ Upto(last) = {x \in occ : x <= from}
  <2>1. \A x \in occ : ~(WordOf[x] <= -1)
      BY <1>3
  <2>2. \A x \in occ : x <= from => WordOf[x] <= last
      BY <1>1, <1>3, WordOrder
  <2> QED BY <2>1, <2>2
<1> HIDE DEF last, Word, Upto
<1>5. ASSUME NEW w \in 0 .. last, Word(w) # {} PROVE Highest(Upto(w)) = V3!Max(Word(w))
  <2>1. Word(w) \subseteq 0 .. n
      BY <1>2
  <2>2. /\ V3!Max(Word(w)) \in Word(w)
        /\ \A y \in Word(w) : y <= V3!Max(Word(w))
      BY <1>5, <2>1, MaxIn
  <2> DEFINE m == V3!Max(Word(w))
  <2>3. m \in occ /\ m <= from /\ WordOf[m] = w /\ \A y \in Word(w) : y <= m
      BY <1>2, <2>2
  <2> HIDE DEF m
  <2>4. m \in Upto(w)
      BY <1>1, <2>3 DEF Upto
  <2>5. ASSUME NEW y \in Upto(w) PROVE y <= m
    <3>1. y \in occ /\ y <= from /\ WordOf[y] <= w
        BY DEF Upto
    <3>2. CASE WordOf[y] = w
        BY <1>2, <2>3, <3>1, <3>2
    <3>3. CASE WordOf[y] # w
      <4>1. ~(WordOf[m] <= WordOf[y])
          BY <1>1, <1>3, <2>3, <3>1, <3>3
      <4>2. ~(m <= y)
          BY <1>3, <2>3, <3>1, <4>1, WordOrder
      <4> QED BY <1>3, <2>3, <3>1, <4>2
    <3> QED BY <3>2, <3>3
  <2>6. Upto(w) \subseteq Nat
      BY <1>3 DEF Upto
  <2>7. Max(Upto(w)) = m
      BY <2>4, <2>5, <2>6, MaxIs
  <2> QED BY <2>4, <2>7 DEF Highest, m
<1>6. ASSUME NEW w \in 0 .. last, Word(w) = {} PROVE Upto(w) = Upto(w - 1)
  <2>1. ASSUME NEW x \in occ, x <= from
        PROVE  WordOf[x] <= w <=> WordOf[x] <= w - 1
    <3>1. WordOf[x] # w
        BY <1>2, <1>6, <2>1
    <3> QED BY <1>1, <1>3, <3>1
  <2> QED BY <2>1 DEF Upto
<1>7. PrevScan(it, occ, from)
  <2>1. ASSUME NEW w \in -1 .. last
        PROVE  it[w] = IF w = -1 THEN -1
                       ELSE IF Word(w) # {} THEN V3!Max(Word(w)) ELSE it[w - 1]
    <3>1. w = -1 \/ (w \in 0 .. last /\ w - 1 \in -1 .. last)
        BY <1>1
    <3> QED BY <1>4, <1>5, <1>6, <3>1 DEF Highest
  <2> HIDE DEF it
  <2>2. it = [w \in -1 .. last |-> it[w]]
      BY DEF it
  <2>3. it = [w \in -1 .. last |-> IF w = -1 THEN -1
                ELSE IF Word(w) # {} THEN V3!Max(Word(w)) ELSE it[w - 1]]
      BY <2>1, <2>2
  <2> QED BY <2>3 DEF PrevScan, Word, last
<1>8. PrevScan(scan, occ, from)
    BY <1>7
<1> HIDE DEF it, scan
<1>9. \A w \in -1 .. last :
        scan[w] = IF w = -1 THEN -1
                  ELSE IF Word(w) # {} THEN V3!Max(Word(w)) ELSE scan[w - 1]
    BY <1>8 DEF PrevScan, Word, last
<1> DEFINE T == {k \in Nat : k <= last => scan[k] = Highest(Upto(k))}
<1>10. scan[-1] = Highest(Upto(-1))
    BY <1>1, <1>4, <1>9 DEF Highest
<1>11. ASSUME NEW w \in 0 .. last, scan[w - 1] = Highest(Upto(w - 1))
       PROVE  scan[w] = Highest(Upto(w))
  <2>1. scan[w] = IF Word(w) # {} THEN V3!Max(Word(w)) ELSE scan[w - 1]
      BY <1>1, <1>9
  <2> QED BY <1>5, <1>6, <1>11, <2>1
<1>12. 0 \in T
  <2>1. 0 \in 0 .. last /\ 0 - 1 = -1
      BY <1>1
  <2>2. scan[0] = Highest(Upto(0))
      BY <1>10, <1>11, <2>1
  <2> QED BY <2>2
<1>13. ASSUME NEW k \in Nat, k \in T PROVE k + 1 \in T
  <2> SUFFICES ASSUME k + 1 <= last PROVE scan[k + 1] = Highest(Upto(k + 1))
      OBVIOUS
  <2>1. k <= last /\ k + 1 \in 0 .. last /\ (k + 1) - 1 = k
      BY <1>1
  <2>2. scan[k] = Highest(Upto(k))
      BY <1>13, <2>1
  <2> QED BY <1>11, <2>1, <2>2
<1>14. Nat \subseteq T
    BY <1>12, <1>13, NatSetInduction
<1>15. scan[last] = Highest(Upto(last))
    BY <1>1, <1>14
<1> QED BY <1>4, <1>15, FindPrevDef DEF scan, last

\* The last word of the bits.
LastWord == (2 * kWindow - 1) \div kWordBits

\* The scan of find_next_set.
NextScan(scan, occ, from) == scan = [w \in 0 .. LastWord + 1 |->
  IF w > LastWord THEN -1
  ELSE IF {x \in V3!Word(occ, w) : x >= from} # {}
         THEN V3!Min({x \in V3!Word(occ, w) : x >= from})
         ELSE scan[w + 1]]

\* find_next_set is that scan from the word of `from` up.
LEMMA FindNextDef ==
  ASSUME NEW occ, NEW from
  PROVE  V3!FindNextSet(occ, from)
           = (CHOOSE scan : NextScan(scan, occ, from))[from \div kWordBits]
BY DEF V3!FindNextSet, NextScan, LastWord

\* find_next_set returns the lowest occupied level from `from` on.
LEMMA FindNext ==
  ASSUME NEW occ, occ \subseteq 0 .. 2 * kWindow - 1, NEW from \in 0 .. 2 * kWindow - 1
  PROVE  V3!FindNextSet(occ, from) = Lowest({x \in occ : x >= from})
<1> DEFINE first == from \div kWordBits
           last == LastWord
           Word(w) == {x \in V3!Word(occ, w) : x >= from}
           From(w) == {x \in occ : x >= from /\ w <= WordOf[x]}
           it == [w \in 0 .. last + 1 |-> Lowest(From(w))]
           scan == CHOOSE f : NextScan(f, occ, from)
<1>1. kWindow \in Nat \ {0} /\ from \in Nat /\ first = WordOf[from] /\ first \in Nat
    BY WordOrder, BooksAssumption DEF WordOf
<1>2. last \in Nat /\ last = WordOf[2 * kWindow - 1]
    BY <1>1, WordOrder DEF WordOf, LastWord
<1>3. \A x \in occ : x \in Nat /\ WordOf[x] \in Nat /\ WordOf[x] <= last
    BY <1>1, <1>2, WordOrder
<1>4. first <= last
    BY <1>1, <1>2, WordOrder
<1>5. \A w : Word(w) = {x \in occ : x >= from /\ WordOf[x] = w}
  <2>1. \A x \in occ : WordOf[x] = x \div kWordBits
      BY <1>3 DEF WordOf
  <2> QED BY <2>1 DEF V3!Word
<1>6. From(last + 1) = {} /\ From(first) = {x \in occ : x >= from}
  <2>1. \A x \in occ : ~(last + 1 <= WordOf[x])
      BY <1>2, <1>3
  <2>2. \A x \in occ : x >= from => first <= WordOf[x]
      BY <1>1, <1>3, WordOrder
  <2> QED BY <2>1, <2>2
<1> HIDE DEF first, last, Word, From
<1>7. ASSUME NEW w \in 0 .. last, Word(w) # {} PROVE Lowest(From(w)) = V3!Min(Word(w))
  <2>1. Word(w) \subseteq Nat
      BY <1>3, <1>5
  <2>2. /\ V3!Min(Word(w)) \in Word(w)
        /\ \A y \in Word(w) : V3!Min(Word(w)) <= y
      BY <1>7, <2>1, MinIn
  <2> DEFINE m == V3!Min(Word(w))
  <2>3. m \in occ /\ m >= from /\ WordOf[m] = w /\ \A y \in Word(w) : m <= y
      BY <1>5, <2>2
  <2> HIDE DEF m
  <2>4. m \in From(w)
      BY <1>2, <2>3 DEF From
  <2>5. ASSUME NEW y \in From(w) PROVE m <= y
    <3>1. y \in occ /\ y >= from /\ w <= WordOf[y]
        BY DEF From
    <3>2. CASE WordOf[y] = w
        BY <1>5, <2>3, <3>1, <3>2
    <3>3. CASE WordOf[y] # w
      <4>1. ~(WordOf[y] <= WordOf[m])
          BY <1>2, <1>3, <2>3, <3>1, <3>3
      <4>2. ~(y <= m)
          BY <1>3, <2>3, <3>1, <4>1, WordOrder
      <4> QED BY <1>3, <2>3, <3>1, <4>2
    <3> QED BY <3>2, <3>3
  <2>6. From(w) \subseteq Nat
      BY <1>3 DEF From
  <2>7. Min(From(w)) = m
      BY <2>4, <2>5, <2>6, MinIs
  <2> QED BY <2>4, <2>7 DEF Lowest, m
<1>8. ASSUME NEW w \in 0 .. last, Word(w) = {} PROVE From(w) = From(w + 1)
  <2>1. ASSUME NEW x \in occ, x >= from
        PROVE  w <= WordOf[x] <=> w + 1 <= WordOf[x]
    <3>1. WordOf[x] # w
        BY <1>5, <1>8, <2>1
    <3> QED BY <1>2, <1>3, <3>1
  <2> QED BY <2>1 DEF From
<1>9. NextScan(it, occ, from)
  <2>1. ASSUME NEW w \in 0 .. last + 1
        PROVE  it[w] = IF w > last THEN -1
                       ELSE IF Word(w) # {} THEN V3!Min(Word(w)) ELSE it[w + 1]
    <3>1. CASE w > last
      <4>1. w = last + 1
          BY <1>2, <3>1
      <4> QED BY <1>6, <3>1, <4>1 DEF Lowest
    <3>2. CASE ~(w > last)
      <4>1. w \in 0 .. last /\ w + 1 \in 0 .. last + 1
          BY <1>2, <3>2
      <4> QED BY <1>7, <1>8, <3>2, <4>1
    <3> QED BY <3>1, <3>2
  <2> HIDE DEF it
  <2>2. it = [w \in 0 .. last + 1 |-> it[w]]
      BY DEF it
  <2>3. it = [w \in 0 .. last + 1 |-> IF w > last THEN -1
                ELSE IF Word(w) # {} THEN V3!Min(Word(w)) ELSE it[w + 1]]
      BY <2>1, <2>2
  <2> QED BY <2>3 DEF NextScan, Word, last
<1>10. NextScan(scan, occ, from)
    BY <1>9
<1> HIDE DEF it, scan
<1>11. \A w \in 0 .. last + 1 :
         scan[w] = IF w > last THEN -1
                   ELSE IF Word(w) # {} THEN V3!Min(Word(w)) ELSE scan[w + 1]
    BY <1>10 DEF NextScan, Word, last
<1> DEFINE T == {k \in Nat : k <= last + 1 =>
                   scan[last + 1 - k] = Lowest(From(last + 1 - k))}
<1>12. 0 \in T
  <2>1. last + 1 - 0 = last + 1 /\ last + 1 \in 0 .. last + 1 /\ last + 1 > last
      BY <1>2
  <2>2. scan[last + 1] = -1
      BY <1>11, <2>1
  <2> QED BY <1>6, <2>1, <2>2 DEF Lowest
<1>13. ASSUME NEW k \in Nat, k \in T PROVE k + 1 \in T
  <2> SUFFICES ASSUME k + 1 <= last + 1
               PROVE  scan[last + 1 - (k + 1)] = Lowest(From(last + 1 - (k + 1)))
      OBVIOUS
  <2> DEFINE w == last + 1 - (k + 1)
  <2>1. w \in 0 .. last /\ w \in 0 .. last + 1 /\ ~(w > last) /\ k <= last + 1
        /\ w + 1 = last + 1 - k
      BY <1>2
  <2> HIDE DEF w
  <2>2. scan[w + 1] = Lowest(From(w + 1))
      BY <1>13, <2>1
  <2>3. scan[w] = IF Word(w) # {} THEN V3!Min(Word(w)) ELSE scan[w + 1]
      BY <1>11, <2>1
  <2>4. scan[w] = Lowest(From(w))
      BY <1>7, <1>8, <2>1, <2>2, <2>3
  <2> QED BY <2>4 DEF w
<1>14. Nat \subseteq T
    BY <1>12, <1>13, NatSetInduction
<1>15. scan[first] = Lowest(From(first))
  <2> DEFINE k == last + 1 - first
  <2>1. k \in Nat /\ k <= last + 1 /\ last + 1 - k = first
      BY <1>1, <1>2, <1>4
  <2> HIDE DEF k
  <2>2. k \in T
      BY <1>14, <2>1
  <2> QED BY <2>1, <2>2
<1> QED BY <1>6, <1>15, FindNextDef DEF scan, first

\* A new element changes the highest only if it is higher.
LEMMA HighestAdd ==
  ASSUME NEW n \in Nat, NEW S, S \subseteq 0 .. n, NEW x \in 0 .. n
  PROVE  Highest(S \cup {x}) = IF x > Highest(S) THEN x ELSE Highest(S)
<1>1. CASE S = {}
  <2>1. Max({x}) = x
      BY MaxIs
  <2> QED BY <1>1, <2>1 DEF Highest
<1>2. CASE S # {}
  <2> DEFINE m == Max(S)
             U == S \cup {x}
  <2>0. m \in S /\ \A y \in S : y <= m
      BY <1>2, MaxIn
  <2>1. m \in S /\ m \in Nat /\ \A y \in S : y \in Nat /\ y <= m
    <3>1. S \subseteq Nat
        OBVIOUS
    <3> QED BY <2>0, <3>1
  <2>2. Highest(S) = m /\ Highest(S \cup {x}) = Max(S \cup {x})
      BY <1>2 DEF Highest
  <2> HIDE DEF m, U
  <2>3. CASE x > m
    <3>1. x \in U /\ U \subseteq Nat /\ \A y \in U : y <= x
        BY <2>1, <2>3 DEF U
    <3>2. Max(S \cup {x}) = x
        BY <3>1, MaxIs DEF U
    <3> QED BY <2>2, <2>3, <3>2
  <2>4. CASE ~(x > m)
    <3>1. m \in U /\ U \subseteq Nat /\ \A y \in U : y <= m
        BY <2>1, <2>4 DEF U
    <3>2. Max(S \cup {x}) = m
        BY <3>1, MaxIs DEF U
    <3> QED BY <2>2, <2>4, <3>2
  <2> QED BY <2>3, <2>4
<1> QED BY <1>1, <1>2

\* A new element changes the lowest only if it is lower.
LEMMA LowestAdd ==
  ASSUME NEW S, S \subseteq Nat, NEW x \in Nat
  PROVE  Lowest(S \cup {x}) = IF Lowest(S) < 0 \/ x < Lowest(S) THEN x ELSE Lowest(S)
<1>1. CASE S = {}
  <2>1. Min({x}) = x
      BY MinIs
  <2> QED BY <1>1, <2>1 DEF Lowest
<1>2. CASE S # {}
  <2> DEFINE m == Min(S)
             U == S \cup {x}
  <2>1. m \in S /\ m \in Nat /\ \A y \in S : y \in Nat /\ m <= y
      BY <1>2, MinIn
  <2>2. Lowest(S) = m /\ Lowest(S \cup {x}) = Min(S \cup {x})
      BY <1>2 DEF Lowest
  <2> HIDE DEF m, U
  <2>3. CASE x < m
    <3>1. x \in U /\ U \subseteq Nat /\ \A y \in U : x <= y
        BY <2>1, <2>3 DEF U
    <3>2. Min(S \cup {x}) = x
        BY <3>1, MinIs DEF U
    <3> QED BY <2>2, <2>3, <3>2
  <2>4. CASE ~(x < m)
    <3>1. m \in U /\ U \subseteq Nat /\ \A y \in U : m <= y
        BY <2>1, <2>4 DEF U
    <3>2. Min(S \cup {x}) = m
        BY <3>1, MinIs DEF U
    <3> QED BY <2>1, <2>2, <2>4, <3>2
  <2> QED BY <2>3, <2>4
<1> QED BY <1>1, <1>2

\* Losing another element does not change it.
LEMMA HighestDrop ==
  ASSUME NEW n \in Nat, NEW S, S \subseteq 0 .. n, NEW x, x # Highest(S)
  PROVE  Highest(S \ {x}) = Highest(S)
<1>1. CASE S = {}
    BY <1>1 DEF Highest
<1>2. CASE S # {}
  <2> DEFINE m == Max(S)
  <2>0. m \in S /\ \A y \in S : y <= m
      BY <1>2, MaxIn
  <2>1. m \in S /\ \A y \in S : y \in Nat /\ y <= m
    <3>1. S \subseteq Nat
        OBVIOUS
    <3> QED BY <2>0, <3>1
  <2>2. Highest(S) = m /\ m \in S \ {x}
      BY <1>2, <2>1 DEF Highest
  <2> HIDE DEF m
  <2>3. Max(S \ {x}) = m
      BY <2>1, <2>2, MaxIs
  <2> QED BY <2>2, <2>3 DEF Highest
<1> QED BY <1>1, <1>2

\* The lowest stays when another element goes.
LEMMA LowestDrop ==
  ASSUME NEW S, S \subseteq Nat, NEW x, x # Lowest(S)
  PROVE  Lowest(S \ {x}) = Lowest(S)
<1>1. CASE S = {}
    BY <1>1 DEF Lowest
<1>2. CASE S # {}
  <2> DEFINE m == Min(S)
  <2>1. m \in S /\ \A y \in S : y \in Nat /\ m <= y
      BY <1>2, MinIn
  <2>2. Lowest(S) = m /\ m \in S \ {x}
      BY <1>2, <2>1 DEF Lowest
  <2> HIDE DEF m
  <2>3. Min(S \ {x}) = m
      BY <2>1, <2>2, MinIs
  <2> QED BY <2>2, <2>3 DEF Lowest
<1> QED BY <1>1, <1>2

\* Where they lie.
LEMMA HighestIn ==
  ASSUME NEW n \in Nat, NEW S, S \subseteq 0 .. n
  PROVE  IF S = {} THEN Highest(S) = -1
         ELSE Highest(S) \in S /\ \A y \in S : y <= Highest(S)
BY MaxIn DEF Highest

\* The lowest is an element, and none is below it.
LEMMA LowestIn ==
  ASSUME NEW S, S \subseteq Nat
  PROVE  IF S = {} THEN Lowest(S) = -1
         ELSE Lowest(S) \in S /\ \A y \in S : Lowest(S) <= y
BY MinIn DEF Lowest

-----------------------------------------------------------------------------
(* A book by itself. *)

\* The levels of the window.
Dense == 0 .. 2 * kWindow - 1

\* A book is a record of seven fields.
IsBook(b) == b =
  [base_set |-> b.base_set, base_cents |-> b.base_cents, levels |-> b.levels,
   overflow |-> b.overflow, occupied |-> b.occupied,
   best_bid |-> b.best_bid, best_ask |-> b.best_ask]

\* What names an overflow level.
OverflowRec == [side : Side, price : Price]

\* The dense levels that hold an order, and those among them of each side.
Taken(levels) == {x \in Dense : levels[x].head_idx # kNullIdx}

\* The bid levels and the ask levels of a set.
Bids(S) == {x \in S : x < kWindow}

Asks(S) == {x \in S : x >= kWindow}

\* The types of a book.
BookTyped(b) ==
  /\ IsBook(b) /\ b.base_set \in BOOLEAN /\ b.base_cents \in Int
  /\ b.overflow \in Seq(OverflowRec)
  /\ b.levels \in [0 .. 2 * kWindow - 1 + Len(b.overflow) -> LevelRec]

\* The bits and the best levels are what a scan would find.
Scanned(b) ==
  /\ b.occupied = Taken(b.levels)
  /\ b.best_bid = Highest(Bids(Taken(b.levels)))
  /\ b.best_ask = Lowest(Asks(Taken(b.levels)))

\* No price has two overflow levels, or one besides its dense level.
OverflowOK(b) ==
  /\ \A j, k \in DOMAIN b.overflow : b.overflow[j] = b.overflow[k] => j = k
  /\ \A k \in DOMAIN b.overflow : ~V3!InWindow(b, b.overflow[k].price)
  /\ ~b.base_set => b.overflow = <<>>

\* A book whose cached data are right.
BookOK(b) == BookTyped(b) /\ Scanned(b) /\ OverflowOK(b)

\* The level of a number, EmptyLevel beyond the levels there are.
LevelAt(b, level) == IF level \in DOMAIN b.levels THEN b.levels[level] ELSE V3!EmptyLevel

\* The level that stands for a side and a price.
LevelIs(b, level, side, price) ==
  /\ b.base_set
  /\ IF V3!InWindow(b, price)
       THEN level = price \div Cent - b.base_cents + (IF side = "B" THEN 0 ELSE kWindow)
       ELSE \E k \in DOMAIN b.overflow : /\ level = 2 * kWindow - 1 + k
                                         /\ b.overflow[k] = [side |-> side, price |-> price]

\* The window is not empty, and its levels are numbers.
LEMMA DenseFacts ==
  /\ kWindow \in Nat /\ kWindow > 0 /\ 2 * kWindow - 1 \in Nat /\ Dense \subseteq Nat
  /\ \A levels : /\ Taken(levels) \subseteq Dense
                 /\ Bids(Taken(levels)) \subseteq 0 .. 2 * kWindow - 1
                 /\ Asks(Taken(levels)) \subseteq Nat
BY BooksAssumption DEF Dense, Taken, Bids, Asks

\* The empty book is fine.
LEMMA EmptyBookOK == BookOK(V3!EmptyBook) /\ \A x \in Nat : LevelAt(V3!EmptyBook, x) = V3!EmptyLevel
<1> DEFINE b == V3!EmptyBook
           none == <<>>
<1>1. /\ b = [base_set |-> FALSE, base_cents |-> -1, levels |-> b.levels, overflow |-> none,
              occupied |-> {}, best_bid |-> -1, best_ask |-> -1]
      /\ b.levels = [x \in Dense |-> V3!EmptyLevel]
    BY DEF V3!EmptyBook, Dense
<1>2. V3!EmptyLevel \in LevelRec /\ V3!EmptyLevel.head_idx = kNullIdx
    BY DEF V3!EmptyLevel, LevelRec, Link, kNullIdx, V3!kNullIdx
<1>3. none \in Seq(OverflowRec) /\ Len(none) = 0 /\ DOMAIN none = {}
    OBVIOUS
<1>4. kWindow \in Nat /\ kWindow > 0 /\ 2 * kWindow - 1 + Len(none) = 2 * kWindow - 1
    BY <1>3, DenseFacts
<1> HIDE DEF b
<1>5. Taken(b.levels) = {} /\ Bids({}) = {} /\ Asks({}) = {}
    BY <1>1, <1>2 DEF Taken, Bids, Asks
<1>6. Scanned(b)
  <2>1. /\ b.occupied = {} /\ b.best_bid = -1 /\ b.best_ask = -1
        /\ Highest({}) = -1 /\ Lowest({}) = -1
      BY <1>1 DEF Highest, Lowest
  <2> QED BY <1>5, <2>1 DEF Scanned
<1>7. b.levels \in [0 .. 2 * kWindow - 1 + Len(none) -> LevelRec]
    BY <1>1, <1>2, <1>4 DEF Dense
<1>8. b.overflow = none /\ b.base_set = FALSE /\ b.base_cents = -1
    BY <1>1
<1>9. IsBook(b)
    BY <1>1 DEF IsBook
<1>10. BookTyped(b)
  <2>0. b.base_set \in BOOLEAN
      BY <1>8, Zenon
  <2>1. b.base_cents \in Int /\ b.overflow \in Seq(OverflowRec)
    <3>1. -1 \in Int
        OBVIOUS
    <3> QED BY <1>3, <1>8, <3>1, Zenon
  <2>2. b.levels \in [0 .. 2 * kWindow - 1 + Len(b.overflow) -> LevelRec]
      BY <1>7, <1>8
  <2> QED BY <1>9, <2>0, <2>1, <2>2 DEF BookTyped
<1>11. OverflowOK(b)
    BY <1>3, <1>8 DEF OverflowOK
<1>12. \A x \in Nat : LevelAt(b, x) = V3!EmptyLevel
    BY <1>1 DEF LevelAt
<1> QED BY <1>6, <1>10, <1>11, <1>12 DEF BookOK, b

\* The first price fixes the window; no level changes.
LEMMA WithBaseOK ==
  ASSUME NEW b, BookOK(b), NEW price \in Price
  PROVE  /\ BookOK(V3!WithBase(b, price)) /\ V3!WithBase(b, price).base_set = TRUE
         /\ V3!WithBase(b, price).levels = b.levels
         /\ V3!WithBase(b, price).overflow = b.overflow
         /\ b.base_set = TRUE => V3!WithBase(b, price) = b
<1> DEFINE new == V3!WithBase(b, price)
<1>1. BookTyped(b) /\ Scanned(b) /\ OverflowOK(b) /\ IsBook(b)
    BY DEF BookOK, BookTyped
<1>2. CASE b.base_set = TRUE
    BY <1>2 DEF V3!WithBase
<1>3. CASE b.base_set # TRUE
  <2>1. b.base_set = FALSE /\ b.overflow = <<>>
      BY <1>1, <1>3 DEF BookTyped, OverflowOK
  <2> DEFINE base == price \div Cent - kWindow \div 2
  <2>2. base \in Int
    <3>1. price \in Nat /\ Cent \in Nat /\ Cent > 0 /\ kWindow \in Nat
        BY BooksAssumption
    <3> QED BY <3>1
  <2>3. new = [b EXCEPT !.base_set = TRUE, !.base_cents = base]
      BY <2>1 DEF V3!WithBase
  <2> HIDE DEF base, new
  <2>4. new = [base_set |-> TRUE, base_cents |-> base, levels |-> b.levels,
               overflow |-> b.overflow, occupied |-> b.occupied,
               best_bid |-> b.best_bid, best_ask |-> b.best_ask]
      BY <1>1, <2>3 DEF IsBook
  <2>5. /\ new.base_set = TRUE /\ new.base_cents = base /\ new.levels = b.levels
        /\ new.overflow = b.overflow /\ new.occupied = b.occupied
        /\ new.best_bid = b.best_bid /\ new.best_ask = b.best_ask /\ IsBook(new)
      BY <2>4 DEF IsBook
  <2>6. BookTyped(new)
    <3>1. TRUE \in BOOLEAN
        OBVIOUS
    <3> QED BY <1>1, <2>2, <2>5, <3>1, Zenon DEF BookTyped
  <2>7. Scanned(new)
      BY <1>1, <2>5 DEF Scanned
  <2>8. OverflowOK(new)
    <3>1. DOMAIN new.overflow = {}
        BY <2>1, <2>5
    <3> QED BY <2>5, <3>1 DEF OverflowOK
  <2> QED BY <1>3, <2>5, <2>6, <2>7, <2>8 DEF BookOK, new
<1> QED BY <1>2, <1>3

\* An overflow level is added when there is none; it is an empty level.
LEMMA WithOverflowOK ==
  ASSUME NEW b, BookOK(b), b.base_set = TRUE, NEW price \in Price, NEW side \in Side
  PROVE  LET new == V3!WithOverflow(b, price, side)
         IN  /\ BookOK(new) /\ new.base_set = TRUE /\ new.base_cents = b.base_cents
             /\ \A x \in Nat : LevelAt(new, x) = LevelAt(b, x)
             /\ V3!InWindow(b, price) \/ V3!OverflowIndex(new, price, side) # {}
             /\ DOMAIN b.overflow \subseteq DOMAIN new.overflow
             /\ \A k \in DOMAIN b.overflow : new.overflow[k] = b.overflow[k]
<1> DEFINE new == V3!WithOverflow(b, price, side)
           entry == [side |-> side, price |-> price]
           over == b.overflow
           n == Len(over)
<1>1. BookTyped(b) /\ Scanned(b) /\ OverflowOK(b) /\ IsBook(b)
    BY DEF BookOK, BookTyped
<1>2. CASE V3!InWindow(b, price) \/ V3!OverflowIndex(b, price, side) # {}
    BY <1>2 DEF V3!WithOverflow
<1>3. CASE ~(V3!InWindow(b, price) \/ V3!OverflowIndex(b, price, side) # {})
  <2> DEFINE longer == Append(over, entry)
             levels == [x \in 0 .. 2 * kWindow + n |->
                          IF x \in DOMAIN b.levels THEN b.levels[x] ELSE V3!EmptyLevel]
  <2>1. new = [b EXCEPT !.overflow = longer, !.levels = levels]
      BY <1>3 DEF V3!WithOverflow
  <2>2. over \in Seq(OverflowRec) /\ n \in Nat /\ DOMAIN over = 1 .. n /\ entry \in OverflowRec
      BY <1>1 DEF BookTyped, OverflowRec
  <2>3. /\ longer \in Seq(OverflowRec) /\ Len(longer) = n + 1 /\ DOMAIN longer = 1 .. n + 1
        /\ \A k \in 1 .. n : longer[k] = over[k]
        /\ longer[n + 1] = entry
      BY <2>2
  <2>4. /\ kWindow \in Nat /\ kWindow > 0 /\ 2 * kWindow - 1 + (n + 1) = 2 * kWindow + n
        /\ Dense \subseteq 0 .. 2 * kWindow - 1 + n
        /\ 0 .. 2 * kWindow - 1 + n \subseteq 0 .. 2 * kWindow + n
    <3>1. n \in Nat /\ kWindow \in Nat /\ kWindow > 0
        BY <2>2, DenseFacts
    <3> HIDE DEF n
    <3> QED BY <3>1 DEF Dense
  <2>5. DOMAIN b.levels = 0 .. 2 * kWindow - 1 + n /\ \A x \in DOMAIN b.levels : b.levels[x] \in LevelRec
      BY <1>1 DEF BookTyped
  <2> HIDE DEF new, longer, levels, n, entry
  <2>6. new = [base_set |-> b.base_set, base_cents |-> b.base_cents, levels |-> levels,
               overflow |-> longer, occupied |-> b.occupied,
               best_bid |-> b.best_bid, best_ask |-> b.best_ask]
      BY <1>1, <2>1 DEF IsBook
  <2>7. /\ new.base_set = b.base_set /\ new.base_cents = b.base_cents /\ new.levels = levels
        /\ new.overflow = longer /\ new.occupied = b.occupied
        /\ new.best_bid = b.best_bid /\ new.best_ask = b.best_ask /\ IsBook(new)
      BY <2>6 DEF IsBook
  <2>8. V3!EmptyLevel \in LevelRec
      BY DEF V3!EmptyLevel, LevelRec, Link, kNullIdx, V3!kNullIdx
  <2>9. /\ levels \in [0 .. 2 * kWindow + n -> LevelRec]
        /\ \A x \in 0 .. 2 * kWindow - 1 + n : levels[x] = b.levels[x]
        /\ levels[2 * kWindow + n] = V3!EmptyLevel
    <3>1. levels \in [0 .. 2 * kWindow + n -> LevelRec]
        BY <2>5, <2>8 DEF levels
    <3>2. \A x \in 0 .. 2 * kWindow - 1 + n : levels[x] = b.levels[x]
        BY <2>4, <2>5 DEF levels
    <3>3. 2 * kWindow + n \in 0 .. 2 * kWindow + n /\ 2 * kWindow + n \notin 0 .. 2 * kWindow - 1 + n
        BY <2>2, <2>4
    <3>4. levels[2 * kWindow + n] = V3!EmptyLevel
        BY <2>5, <3>3 DEF levels
    <3> QED BY <3>1, <3>2, <3>4
  <2>10. BookTyped(new)
    <3>1. /\ new.base_set \in BOOLEAN /\ new.base_cents \in Int /\ IsBook(new)
          /\ new.overflow \in Seq(OverflowRec)
        BY <1>1, <2>3, <2>7, Zenon DEF BookTyped
    <3>2. new.levels \in [0 .. 2 * kWindow - 1 + Len(new.overflow) -> LevelRec]
        BY <2>3, <2>4, <2>7, <2>9
    <3> QED BY <3>1, <3>2 DEF BookTyped
  <2>11. Taken(levels) = Taken(b.levels)
      BY <2>4, <2>9 DEF Taken
  <2>12. Scanned(new)
      BY <1>1, <2>7, <2>11 DEF Scanned
  <2>13. \A k \in 1 .. n : over[k] # entry
      BY <1>3, <2>2 DEF V3!OverflowIndex, entry
  <2>14. OverflowOK(new)
    <3>1. \A j, k \in 1 .. n + 1 : longer[j] = longer[k] => j = k
      <4>1. \A j, k \in 1 .. n : over[j] = over[k] => j = k
          BY <1>1, <2>2 DEF OverflowOK
      <4> QED BY <2>2, <2>3, <2>13, <4>1
    <3>2. ASSUME NEW k \in 1 .. n + 1 PROVE ~V3!InWindow(new, longer[k].price)
      <4>1. \A p : V3!InWindow(new, p) <=> V3!InWindow(b, p)
          BY <2>7 DEF V3!InWindow
      <4>2. CASE k = n + 1
          BY <1>3, <2>3, <4>1, <4>2 DEF entry
      <4>3. CASE k \in 1 .. n
          BY <1>1, <2>2, <2>3, <4>1, <4>3 DEF OverflowOK
      <4> QED BY <2>2, <4>2, <4>3
    <3> QED BY <2>3, <2>7, <3>1, <3>2 DEF OverflowOK
  <2>15. ASSUME NEW x \in Nat PROVE LevelAt(new, x) = LevelAt(b, x)
    <3>1. CASE x \in 0 .. 2 * kWindow - 1 + n
        BY <2>4, <2>5, <2>7, <2>9, <3>1 DEF LevelAt
    <3>2. CASE x \notin 0 .. 2 * kWindow - 1 + n
      <4>1. LevelAt(b, x) = V3!EmptyLevel
          BY <2>5, <3>2 DEF LevelAt
      <4>2. x \notin 0 .. 2 * kWindow + n \/ x = 2 * kWindow + n
          BY <2>2, <2>4, <3>2
      <4>3. DOMAIN new.levels = 0 .. 2 * kWindow + n
          BY <2>7, <2>9
      <4> QED BY <2>7, <2>9, <4>1, <4>2, <4>3 DEF LevelAt
    <3> QED BY <3>1, <3>2
  <2>16. V3!OverflowIndex(new, price, side) # {}
    <3>1. n + 1 \in DOMAIN new.overflow /\ new.overflow[n + 1] = entry
        BY <2>2, <2>3, <2>7
    <3> QED BY <3>1 DEF V3!OverflowIndex, entry
  <2>17. /\ DOMAIN over \subseteq DOMAIN new.overflow
         /\ \A k \in DOMAIN over : new.overflow[k] = over[k]
      BY <2>2, <2>3, <2>7
  <2>18. new.base_set = TRUE
      BY <2>7
  <2> QED BY <2>7, <2>10, <2>12, <2>14, <2>15, <2>16, <2>17, <2>18 DEF BookOK, new
<1> QED BY <1>2, <1>3

\* level_for returns the level of the side and the price, which is there then;
\* the levels that were there stay what they stand for.
LEMMA PreparedOK ==
  ASSUME NEW b, BookOK(b), NEW price \in Price, NEW side \in Side
  PROVE  LET new == V3!Prepared(b, price, side)
         IN  /\ BookOK(new)
             /\ \A x \in Nat : LevelAt(new, x) = LevelAt(b, x)
             /\ V3!LevelFor(new, price, side) \in DOMAIN new.levels
             /\ LevelIs(new, V3!LevelFor(new, price, side), side, price)
             /\ \A x, d, p : LevelIs(b, x, d, p) => LevelIs(new, x, d, p)
<1> DEFINE based == V3!WithBase(b, price)
           new == V3!WithOverflow(based, price, side)
           level == V3!LevelFor(new, price, side)
<1>1. V3!Prepared(b, price, side) = new
    BY DEF V3!Prepared
<1>2. /\ BookOK(based) /\ based.base_set = TRUE /\ based.levels = b.levels
      /\ b.base_set = TRUE => based = b
    BY WithBaseOK
<1> HIDE DEF based
<1>3. /\ BookOK(new) /\ new.base_set = TRUE /\ new.base_cents = based.base_cents
      /\ \A x \in Nat : LevelAt(new, x) = LevelAt(based, x)
      /\ V3!InWindow(based, price) \/ V3!OverflowIndex(new, price, side) # {}
      /\ DOMAIN based.overflow \subseteq DOMAIN new.overflow
      /\ \A k \in DOMAIN based.overflow : new.overflow[k] = based.overflow[k]
    BY <1>2, WithOverflowOK
<1> HIDE DEF new
<1>4. \A p : V3!InWindow(new, p) <=> V3!InWindow(based, p)
    BY <1>3 DEF V3!InWindow
<1>5. \A x \in Nat : LevelAt(new, x) = LevelAt(b, x)
    BY <1>2, <1>3 DEF LevelAt
<1>6. /\ new.overflow \in Seq(OverflowRec) /\ new.base_cents \in Int
      /\ DOMAIN new.levels = 0 .. 2 * kWindow - 1 + Len(new.overflow)
    BY <1>3 DEF BookOK, BookTyped
<1>7. level \in DOMAIN new.levels /\ LevelIs(new, level, side, price)
  <2>1. CASE V3!InWindow(new, price)
    <3>1. level = price \div Cent - new.base_cents + (IF side = "B" THEN 0 ELSE kWindow)
        BY <2>1 DEF V3!LevelFor, V3!kAskBase
    <3>2. LevelIs(new, level, side, price)
        BY <1>3, <2>1, <3>1 DEF LevelIs
    <3> DEFINE c == price \div Cent - new.base_cents
               n == Len(new.overflow)
    <3>3. c \in 0 .. kWindow - 1 /\ kWindow \in Nat /\ n \in Nat
        BY <1>6, <2>1, DenseFacts DEF V3!InWindow
    <3>4. level = c \/ level = c + kWindow
      <4>1. c \in Int
          BY <3>3
      <4> HIDE DEF level, c
      <4> QED BY <3>1, <4>1 DEF c
    <3> HIDE DEF level, c, n
    <3>5. level \in 0 .. 2 * kWindow - 1 + n
        BY <3>3, <3>4
    <3> QED BY <1>6, <3>2, <3>5 DEF n
  <2>2. CASE ~V3!InWindow(new, price)
    <3> DEFINE k == CHOOSE l \in V3!OverflowIndex(new, price, side) : TRUE
    <3>1. k \in V3!OverflowIndex(new, price, side)
        BY <1>3, <1>4, <2>2
    <3>2. k \in DOMAIN new.overflow /\ new.overflow[k] = [side |-> side, price |-> price]
        BY <3>1 DEF V3!OverflowIndex
    <3>3. level = 2 * kWindow - 1 + k
        BY <2>2 DEF V3!LevelFor
    <3> HIDE DEF k, level
    <3>4. LevelIs(new, level, side, price)
        BY <1>3, <2>2, <3>2, <3>3 DEF LevelIs
    <3> DEFINE n == Len(new.overflow)
    <3>5. k \in 1 .. n /\ n \in Nat /\ kWindow \in Nat
        BY <1>6, <3>2, DenseFacts
    <3> HIDE DEF n
    <3>6. level \in 0 .. 2 * kWindow - 1 + n
        BY <3>3, <3>5, DenseFacts
    <3> QED BY <1>6, <3>4, <3>6 DEF n
  <2> QED BY <2>1, <2>2
<1>8. ASSUME NEW x, NEW d, NEW p, LevelIs(b, x, d, p) PROVE LevelIs(new, x, d, p)
  <2>1. b.base_set = TRUE
      BY <1>8 DEF LevelIs, BookOK, BookTyped
  <2>2. based = b /\ LevelIs(based, x, d, p)
      BY <1>2, <1>8, <2>1
  <2>3. CASE V3!InWindow(new, p)
      BY <1>3, <1>4, <2>2, <2>3 DEF LevelIs
  <2>4. CASE ~V3!InWindow(new, p)
    <3>1. PICK k \in DOMAIN based.overflow :
            /\ x = 2 * kWindow - 1 + k
            /\ based.overflow[k] = [side |-> d, price |-> p]
        BY <1>4, <2>2, <2>4 DEF LevelIs
    <3>2. k \in DOMAIN new.overflow /\ new.overflow[k] = [side |-> d, price |-> p]
        BY <1>3, <3>1
    <3> QED BY <1>3, <2>4, <3>1, <3>2 DEF LevelIs
  <2> QED BY <2>3, <2>4
<1> HIDE DEF level
<1>9. level = V3!LevelFor(V3!Prepared(b, price, side), price, side)
    BY <1>1 DEF level
<1> QED BY <1>1, <1>3, <1>5, <1>7, <1>8, <1>9

\* A book with one level, its bits and its best levels replaced.
LevelSet(b, level, lvl, occupied, bid, ask) ==
  [base_set |-> b.base_set, base_cents |-> b.base_cents,
   levels |-> [b.levels EXCEPT ![level] = lvl], overflow |-> b.overflow,
   occupied |-> occupied, best_bid |-> bid, best_ask |-> ask]

\* It is a book again when the bits and the best levels are right; what the
\* levels stand for does not change.
LEMMA LevelSetOK ==
  ASSUME NEW b, BookOK(b), NEW level \in DOMAIN b.levels, NEW lvl \in LevelRec,
         NEW occupied, NEW bid, NEW ask,
         LET taken == Taken([b.levels EXCEPT ![level] = lvl])
         IN  occupied = taken /\ bid = Highest(Bids(taken)) /\ ask = Lowest(Asks(taken))
  PROVE  LET new == LevelSet(b, level, lvl, occupied, bid, ask)
         IN  /\ BookOK(new)
             /\ \A x \in Nat : LevelAt(new, x) = IF x = level THEN lvl ELSE LevelAt(b, x)
             /\ \A x, d, p : LevelIs(new, x, d, p) <=> LevelIs(b, x, d, p)
<1> DEFINE new == LevelSet(b, level, lvl, occupied, bid, ask)
           levels == [b.levels EXCEPT ![level] = lvl]
<1>1. BookTyped(b) /\ OverflowOK(b)
    BY DEF BookOK
<1>2. /\ new.base_set = b.base_set /\ new.base_cents = b.base_cents /\ new.levels = levels
      /\ new.overflow = b.overflow /\ new.occupied = occupied
      /\ new.best_bid = bid /\ new.best_ask = ask /\ IsBook(new)
    BY DEF LevelSet, IsBook
<1> HIDE DEF new
<1>3. levels \in [0 .. 2 * kWindow - 1 + Len(b.overflow) -> LevelRec]
    BY <1>1 DEF BookTyped
<1>4. BookTyped(new)
    BY <1>1, <1>2, <1>3, Zenon DEF BookTyped
<1>5. Scanned(new)
    BY <1>2 DEF Scanned
<1>6. \A p : V3!InWindow(new, p) <=> V3!InWindow(b, p)
    BY <1>2 DEF V3!InWindow
<1>7. OverflowOK(new)
    BY <1>1, <1>2, <1>6 DEF OverflowOK
<1>8. \A x \in Nat : LevelAt(new, x) = IF x = level THEN lvl ELSE LevelAt(b, x)
    BY <1>2 DEF LevelAt
<1>9. \A x, d, p : LevelIs(new, x, d, p) <=> LevelIs(b, x, d, p)
    BY <1>2, <1>6 DEF LevelIs
<1> QED BY <1>4, <1>5, <1>7, <1>8, <1>9 DEF BookOK, new

\* A change of four fields of a book.
FourSet(b, levels, occupied, bid, ask) ==
  [b EXCEPT !.levels = levels, !.occupied = occupied, !.best_bid = bid, !.best_ask = ask]

\* It leaves the other fields alone.
LEMMA FieldsSet ==
  ASSUME NEW b, IsBook(b), NEW levels, NEW occupied, NEW bid, NEW ask
  PROVE  FourSet(b, levels, occupied, bid, ask)
           = [base_set |-> b.base_set, base_cents |-> b.base_cents, levels |-> levels,
              overflow |-> b.overflow, occupied |-> occupied,
              best_bid |-> bid, best_ask |-> ask]
<1> DEFINE b1 == [b EXCEPT !.levels = levels]
           b2 == [b1 EXCEPT !.occupied = occupied]
           b3 == [b2 EXCEPT !.best_bid = bid]
           b4 == [b3 EXCEPT !.best_ask = ask]
<1>1. IsBook(b)
    OBVIOUS
<1> DEFINE f1 == b.base_set
           f2 == b.base_cents
           f4 == b.overflow
<1>2. b1 = [base_set |-> f1, base_cents |-> f2, levels |-> levels,
            overflow |-> f4, occupied |-> b.occupied,
            best_bid |-> b.best_bid, best_ask |-> b.best_ask]
    BY <1>1 DEF IsBook
<1> HIDE DEF b1, f1, f2, f4
<1>3. b2 = [base_set |-> f1, base_cents |-> f2, levels |-> levels,
            overflow |-> f4, occupied |-> occupied,
            best_bid |-> b.best_bid, best_ask |-> b.best_ask]
    BY <1>2
<1> HIDE DEF b2
<1>4. b3 = [base_set |-> f1, base_cents |-> f2, levels |-> levels,
            overflow |-> f4, occupied |-> occupied,
            best_bid |-> bid, best_ask |-> b.best_ask]
    BY <1>3
<1> HIDE DEF b3
<1>5. b4 = [base_set |-> f1, base_cents |-> f2, levels |-> levels,
            overflow |-> f4, occupied |-> occupied,
            best_bid |-> bid, best_ask |-> ask]
    BY <1>4
<1>6. FourSet(b, levels, occupied, bid, ask) = b4
    BY DEF b1, b2, b3, FourSet
<1> QED BY <1>5, <1>6 DEF f1, f2, f4

\* What link_order does to a book whose level becomes lvl.
LinkBook(b, level, lvl) == [b EXCEPT
  !.levels[level] = lvl,
  !.occupied = IF V3!Dense(level) THEN @ \cup {level} ELSE @,
  !.best_bid = IF level < V3!kAskBase /\ level > @ THEN level ELSE @,
  !.best_ask = IF level >= V3!kAskBase /\ V3!Dense(level) /\ (@ < 0 \/ level < @)
                 THEN level ELSE @]

\* The book's bits and best levels stay exact when a level gets an order.
LEMMA LinkBookOK ==
  ASSUME NEW b, BookOK(b), NEW level \in DOMAIN b.levels,
         NEW lvl \in LevelRec, lvl.head_idx # kNullIdx
  PROVE  LET new == LinkBook(b, level, lvl)
         IN  /\ BookOK(new)
             /\ \A x \in Nat : LevelAt(new, x) = IF x = level THEN lvl ELSE LevelAt(b, x)
             /\ \A x, d, p : LevelIs(new, x, d, p) <=> LevelIs(b, x, d, p)
<1> DEFINE T == Taken(b.levels)
           S == Taken([b.levels EXCEPT ![level] = lvl])
           occ == IF V3!Dense(level) THEN b.occupied \cup {level} ELSE b.occupied
           bid == IF level < V3!kAskBase /\ level > b.best_bid THEN level ELSE b.best_bid
           ask == IF level >= V3!kAskBase /\ V3!Dense(level)
                     /\ (b.best_ask < 0 \/ level < b.best_ask)
                    THEN level ELSE b.best_ask
<1>1. /\ IsBook(b) /\ b.occupied = T /\ b.best_bid = Highest(Bids(T))
      /\ b.best_ask = Lowest(Asks(T))
      /\ DOMAIN b.levels = 0 .. 2 * kWindow - 1 + Len(b.overflow) /\ Len(b.overflow) \in Nat
    BY DEF BookOK, BookTyped, Scanned
<1>2. /\ level \in Nat /\ kWindow \in Nat /\ kWindow > 0 /\ V3!kAskBase = kWindow
      /\ V3!Dense(level) <=> level < 2 * kWindow
      /\ level \in Dense <=> level < 2 * kWindow
    BY <1>1, DenseFacts DEF Dense, V3!Dense, V3!kAskBase
<1>3. S = IF level \in Dense THEN T \cup {level} ELSE T
  <2>1. \A x \in Dense : x \in DOMAIN b.levels
      BY <1>1, <1>2 DEF Dense
  <2>2. \A x \in Dense : x \in S <=> (x = level \/ x \in T)
      BY <2>1 DEF Taken
  <2>3. S \subseteq Dense /\ T \subseteq Dense
      BY DEF Taken
  <2> QED BY <2>2, <2>3
<1>4. LinkBook(b, level, lvl) = LevelSet(b, level, lvl, occ, bid, ask)
  <2> DEFINE levels == [b.levels EXCEPT ![level] = lvl]
  <2>1. LinkBook(b, level, lvl) = FourSet(b, levels, occ, bid, ask)
      BY DEF LinkBook, FourSet
  <2> HIDE DEF occ, bid, ask, levels
  <2>2. FourSet(b, levels, occ, bid, ask) =
          [base_set |-> b.base_set, base_cents |-> b.base_cents, levels |-> levels,
           overflow |-> b.overflow, occupied |-> occ, best_bid |-> bid, best_ask |-> ask]
      BY <1>1, FieldsSet
  <2> QED BY <2>1, <2>2 DEF LevelSet, levels
<1>5. T \subseteq Dense /\ Bids(T) \subseteq 0 .. 2 * kWindow - 1 /\ Asks(T) \subseteq Nat
    BY DenseFacts
<1> HIDE DEF S, T
<1>6. occ = S
    BY <1>1, <1>2, <1>3
<1>7. bid = Highest(Bids(S))
  <2>1. CASE level < kWindow
    <3>1. Bids(S) = Bids(T) \cup {level}
        BY <1>2, <1>3, <2>1 DEF Bids
    <3>2. level \in 0 .. 2 * kWindow - 1 /\ 2 * kWindow - 1 \in Nat
        BY <1>2, <2>1
    <3>3. Highest(Bids(T) \cup {level})
            = IF level > Highest(Bids(T)) THEN level ELSE Highest(Bids(T))
        BY <1>5, <3>2, HighestAdd
    <3> QED BY <1>1, <1>2, <2>1, <3>1, <3>3
  <2>2. CASE ~(level < kWindow)
    <3>1. Bids(S) = Bids(T)
        BY <1>2, <1>3, <2>2 DEF Bids
    <3> QED BY <1>1, <1>2, <2>2, <3>1
  <2> QED BY <2>1, <2>2
<1>8. ask = Lowest(Asks(S))
  <2>1. CASE level >= kWindow /\ level < 2 * kWindow
    <3>1. Asks(S) = Asks(T) \cup {level}
        BY <1>2, <1>3, <2>1 DEF Asks
    <3>2. Lowest(Asks(T) \cup {level})
            = IF Lowest(Asks(T)) < 0 \/ level < Lowest(Asks(T)) THEN level
              ELSE Lowest(Asks(T))
        BY <1>2, <1>5, LowestAdd
    <3> QED BY <1>1, <1>2, <2>1, <3>1, <3>2
  <2>2. CASE ~(level >= kWindow /\ level < 2 * kWindow)
    <3>1. Asks(S) = Asks(T)
        BY <1>2, <1>3, <2>2 DEF Asks
    <3> QED BY <1>1, <1>2, <2>2, <3>1
  <2> QED BY <2>1, <2>2
<1> HIDE DEF occ, bid, ask
<1>9. LET new == LevelSet(b, level, lvl, occ, bid, ask)
      IN  /\ BookOK(new)
          /\ \A x \in Nat : LevelAt(new, x) = IF x = level THEN lvl ELSE LevelAt(b, x)
          /\ \A x, d, p : LevelIs(new, x, d, p) <=> LevelIs(b, x, d, p)
    BY <1>6, <1>7, <1>8, LevelSetOK DEF S
<1> QED BY <1>4, <1>9

\* What unlink_order does to it.
UnlinkBook(b, level, lvl) ==
  LET emptied == lvl.head_idx = kNullIdx
      occupied == IF emptied THEN b.occupied \ {level} ELSE b.occupied
  IN  [b EXCEPT
        !.levels[level] = lvl,
        !.occupied = occupied,
        !.best_bid = IF emptied /\ level = @ THEN V3!FindPrevSet(occupied, @) ELSE @,
        !.best_ask = IF emptied /\ level = @ THEN V3!FindNextSet(occupied, @) ELSE @]

\* They stay exact when a level loses an order: the scans begin at the level
\* that was best.
LEMMA UnlinkBookOK ==
  ASSUME NEW b, BookOK(b), NEW level \in DOMAIN b.levels,
         b.levels[level].head_idx # kNullIdx, NEW lvl \in LevelRec
  PROVE  LET new == UnlinkBook(b, level, lvl)
         IN  /\ BookOK(new)
             /\ \A x \in Nat : LevelAt(new, x) = IF x = level THEN lvl ELSE LevelAt(b, x)
             /\ \A x, d, p : LevelIs(new, x, d, p) <=> LevelIs(b, x, d, p)
<1> DEFINE T == Taken(b.levels)
           S == Taken([b.levels EXCEPT ![level] = lvl])
           emptied == lvl.head_idx = kNullIdx
           occ == IF emptied THEN b.occupied \ {level} ELSE b.occupied
           bid == IF emptied /\ level = b.best_bid
                    THEN V3!FindPrevSet(occ, b.best_bid) ELSE b.best_bid
           ask == IF emptied /\ level = b.best_ask
                    THEN V3!FindNextSet(occ, b.best_ask) ELSE b.best_ask
<1>1. /\ IsBook(b) /\ b.occupied = T /\ b.best_bid = Highest(Bids(T))
      /\ b.best_ask = Lowest(Asks(T))
      /\ DOMAIN b.levels = 0 .. 2 * kWindow - 1 + Len(b.overflow) /\ Len(b.overflow) \in Nat
    BY DEF BookOK, BookTyped, Scanned
<1>2. /\ level \in Nat /\ kWindow \in Nat /\ kWindow > 0 /\ 2 * kWindow - 1 \in Nat
    BY <1>1, DenseFacts
<1>3. S = IF emptied THEN T \ {level} ELSE T
  <2>0. DOMAIN b.levels = 0 .. 2 * kWindow - 1 + Len(b.overflow) /\ Len(b.overflow) \in Nat
      BY <1>1
  <2> DEFINE n == Len(b.overflow)
  <2>1. \A x \in Dense : x \in DOMAIN b.levels
    <3>1. n \in Nat /\ DOMAIN b.levels = 0 .. 2 * kWindow - 1 + n
        BY <2>0
    <3> HIDE DEF n
    <3> QED BY <1>2, <3>1 DEF Dense
  <2>2. \A x \in Dense : x \in S <=> IF emptied THEN x \in T /\ x # level ELSE x \in T
      BY <2>1 DEF Taken
  <2>3. S \subseteq Dense /\ T \subseteq Dense
      BY DEF Taken
  <2> HIDE DEF S, T, emptied
  <2> QED BY <2>2, <2>3
<1>4. UnlinkBook(b, level, lvl) = LevelSet(b, level, lvl, occ, bid, ask)
  <2> DEFINE levels == [b.levels EXCEPT ![level] = lvl]
  <2>1. UnlinkBook(b, level, lvl) = FourSet(b, levels, occ, bid, ask)
      BY DEF UnlinkBook, FourSet
  <2> HIDE DEF occ, bid, ask, levels
  <2>2. FourSet(b, levels, occ, bid, ask) =
          [base_set |-> b.base_set, base_cents |-> b.base_cents, levels |-> levels,
           overflow |-> b.overflow, occupied |-> occ, best_bid |-> bid, best_ask |-> ask]
      BY <1>1, FieldsSet
  <2> QED BY <2>1, <2>2 DEF LevelSet, levels
<1>5. /\ T \subseteq Dense /\ Bids(T) \subseteq 0 .. 2 * kWindow - 1 /\ Asks(T) \subseteq Nat
      /\ S \subseteq 0 .. 2 * kWindow - 1
    BY DenseFacts DEF Dense
<1> HIDE DEF S, T
<1>6. occ = S
    BY <1>1, <1>3
<1> HIDE DEF occ
<1>7. bid = Highest(Bids(S))
  <2>1. CASE ~emptied
      BY <1>1, <1>3, <2>1
  <2>2. CASE emptied /\ level # b.best_bid
    <3>1. Bids(S) = Bids(T) \ {level}
        BY <1>3, <2>2 DEF Bids
    <3>2. Highest(Bids(T) \ {level}) = Highest(Bids(T))
        BY <1>1, <1>2, <1>5, <2>2, HighestDrop
    <3> QED BY <1>1, <2>2, <3>1, <3>2
  <2>3. CASE emptied /\ level = b.best_bid
    <3>1. Bids(T) # {} /\ level \in Bids(T) /\ \A y \in Bids(T) : y <= level
        BY <1>1, <1>2, <1>5, <2>3, HighestIn
    <3>2. V3!FindPrevSet(S, level) = Highest({x \in S : x <= level})
        BY <1>2, <1>5, FindPrev
    <3>3. {x \in S : x <= level} = Bids(S)
      <4>1. level < kWindow
          BY <3>1 DEF Bids
      <4>2. \A x \in S : x \in Nat /\ x \in T
          BY <1>3, <1>5
      <4>3. \A x \in S : x <= level <=> x < kWindow
          BY <1>2, <3>1, <4>1, <4>2 DEF Bids
      <4> QED BY <4>3 DEF Bids
    <3> QED BY <1>6, <2>3, <3>2, <3>3
  <2> QED BY <2>1, <2>2, <2>3
<1>8. ask = Lowest(Asks(S))
  <2>1. CASE ~emptied
      BY <1>1, <1>3, <2>1
  <2>2. CASE emptied /\ level # b.best_ask
    <3>1. Asks(S) = Asks(T) \ {level}
        BY <1>3, <2>2 DEF Asks
    <3>2. Lowest(Asks(T) \ {level}) = Lowest(Asks(T))
        BY <1>1, <1>5, <2>2, LowestDrop
    <3> QED BY <1>1, <2>2, <3>1, <3>2
  <2>3. CASE emptied /\ level = b.best_ask
    <3>1. Asks(T) # {} /\ level \in Asks(T) /\ \A y \in Asks(T) : level <= y
        BY <1>1, <1>2, <1>5, <2>3, LowestIn
    <3>2. level \in 0 .. 2 * kWindow - 1 /\ level >= kWindow
        BY <1>5, <3>1 DEF Asks, Dense
    <3>3. V3!FindNextSet(S, level) = Lowest({x \in S : x >= level})
        BY <1>5, <3>2, FindNext
    <3>4. {x \in S : x >= level} = Asks(S)
      <4>1. \A x \in S : x \in Nat /\ x \in T
          BY <1>3, <1>5
      <4>2. \A x \in S : x >= level <=> x >= kWindow
          BY <1>2, <3>1, <3>2, <4>1 DEF Asks
      <4> QED BY <4>2 DEF Asks
    <3> QED BY <1>6, <2>3, <3>3, <3>4
  <2> QED BY <2>1, <2>2, <2>3
<1> HIDE DEF bid, ask
<1>9. LET new == LevelSet(b, level, lvl, occ, bid, ask)
      IN  /\ BookOK(new)
          /\ \A x \in Nat : LevelAt(new, x) = IF x = level THEN lvl ELSE LevelAt(b, x)
          /\ \A x, d, p : LevelIs(new, x, d, p) <=> LevelIs(b, x, d, p)
    BY <1>6, <1>7, <1>8, LevelSetOK DEF S
<1> QED BY <1>4, <1>9

\* A partial execution changes nothing that the bits and best levels depend on.
LEMMA TotalBookOK ==
  ASSUME NEW b, BookOK(b), NEW level \in DOMAIN b.levels,
         NEW lvl \in LevelRec, lvl.head_idx = b.levels[level].head_idx,
         NEW new,
         new = FourSet(b, [b.levels EXCEPT ![level] = lvl], b.occupied, b.best_bid, b.best_ask)
  PROVE  /\ BookOK(new)
         /\ \A x \in Nat : LevelAt(new, x) = IF x = level THEN lvl ELSE LevelAt(b, x)
         /\ \A x, d, p : LevelIs(new, x, d, p) <=> LevelIs(b, x, d, p)
<1>1. /\ IsBook(b) /\ b.occupied = Taken(b.levels)
      /\ b.best_bid = Highest(Bids(Taken(b.levels)))
      /\ b.best_ask = Lowest(Asks(Taken(b.levels)))
      /\ DOMAIN b.levels = 0 .. 2 * kWindow - 1 + Len(b.overflow) /\ Len(b.overflow) \in Nat
    BY DEF BookOK, BookTyped, Scanned
<1>2. Taken([b.levels EXCEPT ![level] = lvl]) = Taken(b.levels)
  <2> DEFINE n == Len(b.overflow)
  <2>1. \A x \in Dense : x \in DOMAIN b.levels
    <3>1. n \in Nat /\ DOMAIN b.levels = 0 .. 2 * kWindow - 1 + n
        BY <1>1
    <3> HIDE DEF n
    <3> QED BY <3>1, DenseFacts DEF Dense
  <2> QED BY <2>1 DEF Taken
<1>3. new = LevelSet(b, level, lvl, b.occupied, b.best_bid, b.best_ask)
  <2> DEFINE levels == [b.levels EXCEPT ![level] = lvl]
  <2>1. new = FourSet(b, levels, b.occupied, b.best_bid, b.best_ask)
      OBVIOUS
  <2> HIDE DEF levels
  <2>2. FourSet(b, levels, b.occupied, b.best_bid, b.best_ask) =
          [base_set |-> b.base_set, base_cents |-> b.base_cents, levels |-> levels,
           overflow |-> b.overflow, occupied |-> b.occupied,
           best_bid |-> b.best_bid, best_ask |-> b.best_ask]
      BY <1>1, FieldsSet
  <2> QED BY <2>1, <2>2 DEF LevelSet, levels
<1> DEFINE S == Taken([b.levels EXCEPT ![level] = lvl])
           set == LevelSet(b, level, lvl, b.occupied, b.best_bid, b.best_ask)
<1>4. b.occupied = S /\ b.best_bid = Highest(Bids(S)) /\ b.best_ask = Lowest(Asks(S))
    BY <1>1, <1>2
<1>5. /\ BookOK(set)
      /\ \A x \in Nat : LevelAt(set, x) = IF x = level THEN lvl ELSE LevelAt(b, x)
      /\ \A x, d, p : LevelIs(set, x, d, p) <=> LevelIs(b, x, d, p)
    BY <1>4, LevelSetOK
<1> QED BY <1>3, <1>5

-----------------------------------------------------------------------------
(* The parts of the handlers, on the memory they thread through. *)

\* The memory with these parts.
Mem(sl, head, rf, bk) == [slots |-> sl, free_head |-> head, refs |-> rf, books |-> bk]

\* A family of books, one for every symbol.
IsBooks(bk) == bk = [sym \in Symbol |-> bk[sym]]

\* allocate takes the first free slot.
LEMMA AllocateIs ==
  ASSUME NEW sl, NEW head, NEW rf, NEW bk
  PROVE  V3!Allocate(Mem(sl, head, rf, bk)) = Mem(sl, sl[head].next_idx, rf, bk)
BY DEF V3!Allocate, Mem

\* release puts a blank slot before the free list.
LEMMA ReleaseIs ==
  ASSUME NEW sl, NEW head, NEW rf, NEW bk, NEW s
  PROVE  V3!Release(Mem(sl, head, rf, bk), s)
           = Mem([sl EXCEPT ![s] = V3!Blank(head)], s, rf, bk)
<1> DEFINE m == Mem(sl, head, rf, bk)
           sl2 == [sl EXCEPT ![s] = V3!Blank(head)]
           m1 == [m EXCEPT !.slots[s] = V3!Blank(head)]
           m2 == [m1 EXCEPT !.free_head = s]
<1>1. m1 = Mem(sl2, head, rf, bk)
    BY DEF Mem
<1>2. V3!Release(m, s) = m2
    BY DEF V3!Release, Mem
<1> HIDE DEF m1, sl2
<1>3. m2 = Mem(sl2, s, rf, bk)
    BY <1>1 DEF Mem
<1> QED BY <1>2, <1>3 DEF sl2

\* insert, while the table is not saturated.
LEMMA InsertIs ==
  ASSUME NEW sl, NEW head, NEW rf, NEW bk, NEW r, NEW s, ~V3!Table!Saturated(rf)
  PROVE  V3!Insert(Mem(sl, head, rf, bk), r, s) = Mem(sl, head, [rf EXCEPT ![r] = s], bk)
BY DEF V3!Insert, V3!Table!Put, Mem

\* erase.
LEMMA EraseIs ==
  ASSUME NEW sl, NEW head, NEW rf, NEW bk, NEW r
  PROVE  V3!Erase(Mem(sl, head, rf, bk), r) = Mem(sl, head, [rf EXCEPT ![r] = kNullIdx], bk)
BY DEF V3!Erase, V3!Table!Drop, Mem, kNullIdx

\* Preparing a price touches the book of the symbol only.
LEMMA PreparedIs ==
  ASSUME NEW sl, NEW head, NEW rf, NEW bk, NEW sym \in Symbol, IsBooks(bk),
         NEW price, NEW side
  PROVE  [Mem(sl, head, rf, bk) EXCEPT !.books[sym] = V3!Prepared(@, price, side)]
           = Mem(sl, head, rf, [bk EXCEPT ![sym] = V3!Prepared(bk[sym], price, side)])
BY DEF Mem

\* link_order changes the slots and one level.
LEMMA LinkIs ==
  ASSUME NEW sl, NEW head, NEW rf, NEW bk, NEW sym, NEW level, NEW s, NEW qty
  PROVE  LET b == bk[sym]
             lvl == b.levels[level]
         IN  V3!LinkOrder(Mem(sl, head, rf, bk), sym, level, s, qty)
               = Mem(LinkedSlots(sl, lvl, s, qty, level), head, rf,
                     [bk EXCEPT ![sym] = LinkBook(b, level, LinkedLevel(lvl, s, qty))])
<1> DEFINE m == Mem(sl, head, rf, bk)
           b == bk[sym]
           lvl == b.levels[level]
           sl2 == LinkedSlots(sl, lvl, s, qty, level)
           b2 == LinkBook(b, level, LinkedLevel(lvl, s, qty))
<1>1. m.slots = sl /\ m.books = bk
    BY DEF Mem
<1>2. V3!LinkOrder(m, sym, level, s, qty) = [m EXCEPT !.slots = sl2, !.books[sym] = b2]
    BY <1>1 DEF V3!LinkOrder, LinkedSlots, LinkedLevel, LinkBook, kNullIdx
<1> HIDE DEF sl2, b2
<1>3. [m EXCEPT !.slots = sl2, !.books[sym] = b2]
        = Mem(sl2, head, rf, [bk EXCEPT ![sym] = b2])
  <2> DEFINE m1 == [m EXCEPT !.slots = sl2]
             m2 == [m1 EXCEPT !.books[sym] = b2]
  <2>1. m1 = Mem(sl2, head, rf, bk)
      BY DEF Mem
  <2>2. [m EXCEPT !.slots = sl2, !.books[sym] = b2] = m2
      BY DEF m1
  <2> HIDE DEF m1
  <2>3. m2 = Mem(sl2, head, rf, [bk EXCEPT ![sym] = b2])
      BY <2>1 DEF Mem
  <2> QED BY <2>2, <2>3
<1> QED BY <1>2, <1>3 DEF sl2, b2

\* unlink_order changes the slots and one level.
LEMMA UnlinkIs ==
  ASSUME NEW sl, NEW head, NEW rf, NEW bk, NEW sym, NEW s
  PROVE  LET b == bk[sym]
             level == sl[s].level_idx
         IN  V3!UnlinkOrder(Mem(sl, head, rf, bk), sym, s)
               = Mem(UnlinkedSlots(sl, s), head, rf,
                     [bk EXCEPT ![sym] =
                        UnlinkBook(b, level, UnlinkedLevel(b.levels[level], sl[s]))])
<1> DEFINE m == Mem(sl, head, rf, bk)
           b == bk[sym]
           level == sl[s].level_idx
           sl2 == UnlinkedSlots(sl, s)
           b2 == UnlinkBook(b, level, UnlinkedLevel(b.levels[level], sl[s]))
<1>1. m.slots = sl /\ m.books = bk
    BY DEF Mem
<1>2. V3!UnlinkOrder(m, sym, s) = [m EXCEPT !.slots = sl2, !.books[sym] = b2]
    BY <1>1 DEF V3!UnlinkOrder, UnlinkedSlots, UnlinkedLevel, UnlinkBook, kNullIdx
<1> HIDE DEF sl2, b2
<1>3. [m EXCEPT !.slots = sl2, !.books[sym] = b2]
        = Mem(sl2, head, rf, [bk EXCEPT ![sym] = b2])
  <2> DEFINE m1 == [m EXCEPT !.slots = sl2]
             m2 == [m1 EXCEPT !.books[sym] = b2]
  <2>1. m1 = Mem(sl2, head, rf, bk)
      BY DEF Mem
  <2>2. [m EXCEPT !.slots = sl2, !.books[sym] = b2] = m2
      BY DEF m1
  <2> HIDE DEF m1
  <2>3. m2 = Mem(sl2, head, rf, [bk EXCEPT ![sym] = b2])
      BY <2>1 DEF Mem
  <2> QED BY <2>2, <2>3
<1> QED BY <1>2, <1>3 DEF sl2, b2

-----------------------------------------------------------------------------
(* What the memory stands for: L are the lists of the levels, F the free list. *)

\* Every book is right by itself.
BooksOK(bk) == IsBooks(bk) /\ \A sym \in Symbol : BookOK(bk[sym])

\* A list of slots for every level of every book.
LevelLists == [Symbol -> [Nat -> Seq(Slot)]]

\* Every level lists the slots L says.
ListsOK(sl, bk, L) == \A sym \in Symbol, x \in Nat :
  Lists(sl, LevelAt(bk[sym], x), L[sym][x], x)

\* The slot of a known reference is listed by its level, and not free.
Listed(sl, rf, L, F) == \A r \in Ref : rf[r] # kNullIdx =>
  rf[r] \in Range(L[SymbolOf[r]][sl[rf[r]].level_idx]) /\ rf[r] \notin Range(F)

\* No two references have one slot.
Injective(rf) == \A r, x \in Ref : rf[r] = rf[x] /\ rf[r] # kNullIdx => r = x

\* A listed slot has a reference, of the symbol that lists it.
Borne(rf, L) == \A sym \in Symbol, x \in Nat : \A t \in Range(L[sym][x]) :
  \E r \in Ref : rf[r] = t /\ SymbolOf[r] = sym

\* Every slot is free or has a reference.
Covered(rf, F) == \A t \in Slot : t \in Range(F) \/ \E r \in Ref : rf[r] = t

\* The memory stands for the lists L and the free list F.
Rep(sl, head, rf, bk, L, F) ==
  /\ sl \in [Slot -> SlotRec] /\ rf \in [Ref -> Link] /\ L \in LevelLists
  /\ FreeList(sl, head, F)
  /\ BooksOK(bk)
  /\ ListsOK(sl, bk, L)
  /\ Listed(sl, rf, L, F) /\ Injective(rf) /\ Borne(rf, L) /\ Covered(rf, F)

\* One list becomes q.
ListBecomes(new, L, sym, level, q) ==
  new \in LevelLists /\ \A y \in Symbol, x \in Nat :
    new[y][x] = IF y = sym /\ x = level THEN q ELSE L[y][x]

\* Replacing one list.
LEMMA ListReplaced ==
  ASSUME NEW L \in LevelLists, NEW sym \in Symbol, NEW level \in Nat, NEW q \in Seq(Slot)
  PROVE  ListBecomes([L EXCEPT ![sym][level] = q], L, sym, level, q)
BY DEF ListBecomes, LevelLists

\* One book becomes b.
BookSet(new, bk, sym, b) == new = [bk EXCEPT ![sym] = b]

\* Replacing one book leaves the others alone.
LEMMA BookReplaced ==
  ASSUME NEW bk, IsBooks(bk), NEW sym \in Symbol, NEW b, NEW new,
         BookSet(new, bk, sym, b)
  PROVE  IsBooks(new) /\ \A y \in Symbol : new[y] = IF y = sym THEN b ELSE bk[y]
<1> DEFINE bk0 == [y \in Symbol |-> bk[y]]
<1>1. bk = bk0
    BY DEF IsBooks
<1> HIDE DEF bk0
<1>2. DOMAIN bk = Symbol
    BY <1>1 DEF bk0
<1>3. \A y \in Symbol : new[y] = IF y = sym THEN b ELSE bk[y]
    BY <1>2 DEF BookSet
<1>4. new = [y \in Symbol |-> new[y]]
    BY <1>2 DEF BookSet
<1> QED BY <1>3, <1>4 DEF IsBooks

\* A slot is in one list at most.
LEMMA OneList ==
  ASSUME NEW sl, NEW head, NEW rf, NEW bk, NEW L, NEW F, Rep(sl, head, rf, bk, L, F),
         NEW y1 \in Symbol, NEW x1 \in Nat, NEW y2 \in Symbol, NEW x2 \in Nat,
         NEW t, t \in Range(L[y1][x1]), t \in Range(L[y2][x2])
  PROVE  y1 = y2 /\ x1 = x2
<1>1. PICK r1 \in Ref : rf[r1] = t /\ SymbolOf[r1] = y1
    BY DEF Rep, Borne
<1>2. PICK r2 \in Ref : rf[r2] = t /\ SymbolOf[r2] = y2
    BY DEF Rep, Borne
<1>3. L[y1][x1] \in Seq(Slot) /\ L[y2][x2] \in Seq(Slot)
    BY DEF Rep, LevelLists
<1>4. t # kNullIdx
    BY <1>3, SeqFacts, SlotFacts
<1>5. r1 = r2
    BY <1>1, <1>2, <1>4 DEF Rep, Injective
<1>6. Linked(sl, L[y1][x1], x1) /\ Linked(sl, L[y2][x2], x2)
    BY DEF Rep, ListsOK, Lists
<1>7. sl[t].level_idx = x1
    BY <1>6 DEF Linked, Range
<1>8. sl[t].level_idx = x2
    BY <1>6 DEF Linked, Range
<1> QED BY <1>1, <1>2, <1>5, <1>7, <1>8

\* A free slot is in no list.
LEMMA FreeNotListed ==
  ASSUME NEW sl, NEW head, NEW rf, NEW bk, NEW L, NEW F, Rep(sl, head, rf, bk, L, F),
         NEW t, t \in Range(F), NEW y \in Symbol, NEW x \in Nat
  PROVE  t \notin Range(L[y][x])
<1> SUFFICES ASSUME t \in Range(L[y][x]) PROVE FALSE
    OBVIOUS
<1>1. PICK r \in Ref : rf[r] = t
    BY DEF Rep, Borne
<1>2. L[y][x] \in Seq(Slot)
    BY DEF Rep, LevelLists
<1>3. t # kNullIdx
    BY <1>2, SeqFacts, SlotFacts
<1> QED BY <1>1, <1>3 DEF Rep, Listed

\* A level that lists a slot is a level of the book and not empty.
LEMMA LevelThere ==
  ASSUME NEW sl, NEW head, NEW rf, NEW bk, NEW L, NEW F, Rep(sl, head, rf, bk, L, F),
         NEW y \in Symbol, NEW x \in Nat, NEW t, t \in Range(L[y][x])
  PROVE  /\ x \in DOMAIN bk[y].levels /\ LevelAt(bk[y], x) = bk[y].levels[x]
         /\ bk[y].levels[x].head_idx # kNullIdx /\ t \in Slot
<1> DEFINE q == L[y][x]
           lvl == LevelAt(bk[y], x)
<1>1. Lists(sl, lvl, q, x)
    BY DEF Rep, ListsOK
<1> HIDE DEF lvl
<1>2. q \in Seq(Slot) /\ lvl.head_idx = At(q, 1)
    BY <1>1 DEF Lists, Summary
<1>3. PICK k \in DOMAIN q : q[k] = t
    BY DEF Range
<1>4. 1 \in DOMAIN q /\ q[1] \in Slot /\ t \in Slot
    BY <1>2, <1>3
<1>5. lvl.head_idx # kNullIdx
    BY <1>2, <1>4, SlotFacts DEF At
<1>6. V3!EmptyLevel.head_idx = kNullIdx
    BY DEF V3!EmptyLevel, kNullIdx
<1>7. x \in DOMAIN bk[y].levels
    BY <1>5, <1>6 DEF lvl, LevelAt
<1> QED BY <1>4, <1>5, <1>7 DEF lvl, LevelAt

\* What an order that comes to rest changes: slot s, at the end of a level.
Added(sl, bk, L, sl2, bk2, L2, sym, s, side, price, shares) ==
  \E level \in Nat :
    /\ ListBecomes(L2, L, sym, level, Append(L[sym][level], s))
    /\ sl2[s].qty = shares /\ sl2[s].level_idx = level
    /\ \A t \in Slot \ {s} : sl2[t].qty = sl[t].qty /\ sl2[t].level_idx = sl[t].level_idx
    /\ LevelIs(bk2[sym], level, side, price)
    /\ \A x, d, p : LevelIs(bk[sym], x, d, p) => LevelIs(bk2[sym], x, d, p)
    /\ \A y \in Symbol \ {sym} : bk2[y] = bk[y]

\* add_order with a free slot and room in the table.
LEMMA RestRep ==
  ASSUME NEW sl, NEW head, NEW rf, NEW bk, NEW L, NEW F, Rep(sl, head, rf, bk, L, F),
         NEW r \in Ref, rf[r] = kNullIdx, head # kNullIdx, ~V3!Table!Saturated(rf),
         NEW side \in Side, NEW price \in Price, NEW shares \in Nat
  PROVE  \E sl2, head2, bk2, L2, F2 :
           /\ V3!Rest(Mem(sl, head, rf, bk), r, side, price, shares)
                = Mem(sl2, head2, [rf EXCEPT ![r] = head], bk2)
           /\ Rep(sl2, head2, [rf EXCEPT ![r] = head], bk2, L2, F2)
           /\ head \in Slot
           /\ Added(sl, bk, L, sl2, bk2, L2, SymbolOf[r], head, side, price, shares)
<1> DEFINE sym == SymbolOf[r]
           P == V3!Prepared(bk[sym], price, side)
           level == V3!LevelFor(P, price, side)
           lvl == P.levels[level]
           q == L[sym][level]
           after == LinkedLevel(lvl, head, shares)
           sl2 == LinkedSlots(sl, lvl, head, shares, level)
           head2 == sl[head].next_idx
           bk1 == [bk EXCEPT ![sym] = P]
           b2 == LinkBook(P, level, after)
           bk2 == [bk1 EXCEPT ![sym] = b2]
           rf2 == [rf EXCEPT ![r] = head]
           longer == Append(q, head)
           L2 == [L EXCEPT ![sym][level] = longer]
           F2 == Shorter(F, 1)
<1>1. /\ sl \in [Slot -> SlotRec] /\ rf \in [Ref -> Link] /\ L \in LevelLists
      /\ FreeList(sl, head, F) /\ IsBooks(bk) /\ \A y \in Symbol : BookOK(bk[y])
      /\ ListsOK(sl, bk, L) /\ sym \in Symbol
    BY BooksAssumption DEF Rep, BooksOK
<1>2. /\ BookOK(P) /\ \A x \in Nat : LevelAt(P, x) = LevelAt(bk[sym], x)
      /\ level \in DOMAIN P.levels
      /\ LevelIs(P, level, side, price)
      /\ \A x, d, p : LevelIs(bk[sym], x, d, p) => LevelIs(P, x, d, p)
  <2> HIDE DEF sym
  <2> QED BY <1>1, PreparedOK
<1>3. IsBooks(bk1) /\ \A y \in Symbol : bk1[y] = IF y = sym THEN P ELSE bk[y]
  <2>1. BookSet(bk1, bk, sym, P)
      BY DEF BookSet
  <2> HIDE DEF sym, P, bk1
  <2> QED BY <1>1, <2>1, BookReplaced
<1>4. V3!Rest(Mem(sl, head, rf, bk), r, side, price, shares) = Mem(sl2, head2, rf2, bk2)
  <2> DEFINE m == Mem(sl, head, rf, bk)
             taken == Mem(sl, head2, rf, bk1)
             linked == V3!LinkOrder(taken, sym, level, head, shares)
  <2>1. V3!Allocate(m) = Mem(sl, head2, rf, bk)
      BY AllocateIs
  <2>2. [V3!Allocate(m) EXCEPT !.books[sym] = V3!Prepared(@, price, side)] = taken
    <3>1. [Mem(sl, head2, rf, bk) EXCEPT !.books[sym] = V3!Prepared(@, price, side)] = taken
      <4> HIDE DEF sym, head2
      <4> QED BY DEF Mem
    <3> QED BY <2>1, <3>1
  <2>3. bk1[sym] = P /\ taken.books = bk1 /\ m.free_head = head
    <3>1. bk1[sym] = P
        BY <1>1, <1>3
    <3> QED BY <3>1 DEF Mem
  <2>4. V3!Rest(m, r, side, price, shares) = V3!Insert(linked, r, head)
      BY <2>2, <2>3, V3!kNullIdx = kNullIdx DEF V3!Rest, kNullIdx
  <2> HIDE DEF m, taken, linked, level, P, head2, bk1, sl2, b2, lvl, sym, after
  <2>5. linked = Mem(sl2, head2, rf, bk2)
    <3>1. V3!LinkOrder(Mem(sl, head2, rf, bk1), sym, level, head, shares)
            = Mem(LinkedSlots(sl, bk1[sym].levels[level], head, shares, level), head2, rf,
                  [bk1 EXCEPT ![sym] = LinkBook(bk1[sym], level,
                     LinkedLevel(bk1[sym].levels[level], head, shares))])
        BY LinkIs, SMTT(40)
    <3> QED BY <2>3, <3>1 DEF linked, taken, sl2, b2, lvl, after
  <2> HIDE DEF bk2
  <2>6. V3!Insert(Mem(sl2, head2, rf, bk2), r, head) = Mem(sl2, head2, rf2, bk2)
      BY InsertIs
  <2> QED BY <2>4, <2>5, <2>6 DEF m
<1> HIDE DEF level, P
<1>5. level \in Nat /\ lvl = LevelAt(P, level) /\ lvl = LevelAt(bk[sym], level)
  <2>1. level \in Nat
    <3>1. DOMAIN P.levels = 0 .. 2 * kWindow - 1 + Len(P.overflow)
        BY <1>2 DEF BookOK, BookTyped
    <3> QED BY <1>2, <3>1
  <2> QED BY <1>2, <2>1 DEF LevelAt
<1> HIDE DEF lvl, sym
<1>6. /\ head \in Slot /\ head \in Range(F) /\ FreeList(sl, head2, F2)
      /\ Range(F2) = Range(F) \ {head}
    BY <1>1, FreePop
<1> HIDE DEF head2, F2
<1>7. Lists(sl, lvl, q, level)
    BY <1>1, <1>5 DEF ListsOK
<1>8. \A y \in Symbol, x \in Nat : \A t \in Range(L[y][x]) : t # head /\ t \in Slot
    BY <1>6, FreeNotListed, LevelThere
<1>9. q \in Seq(Slot) /\ Distinct(q) /\ head \notin Range(q)
    BY <1>1, <1>5, <1>7, <1>8 DEF Lists
<1> HIDE DEF q
<1>10. /\ sl2 \in [Slot -> SlotRec]
       /\ sl2[head].qty = shares /\ sl2[head].level_idx = level
       /\ \A t \in Slot \ {head} : /\ sl2[t].qty = sl[t].qty
                                   /\ sl2[t].level_idx = sl[t].level_idx
                                   /\ t \notin Range(q) => sl2[t] = sl[t]
       /\ Lists(sl2, after, longer, level)
    BY <1>1, <1>5, <1>6, <1>7, <1>9, LinkSlots
<1>11. longer \in Seq(Slot) /\ Range(longer) = Range(q) \cup {head} /\ 1 \in DOMAIN longer
  <2>1. Len(q) \in Nat
      BY <1>9
  <2> QED BY <1>6, <1>9, <2>1, AppendFacts
<1> HIDE DEF sl2, after, longer
<1>12. after \in LevelRec /\ after.head_idx # kNullIdx
  <2>1. after \in LevelRec /\ after.head_idx = At(longer, 1)
    <3>1. Lists(sl2, after, longer, level)
        BY <1>10
    <3> QED BY <3>1 DEF Lists, Summary
  <2>2. longer[1] \in Slot
      BY <1>11
  <2> QED BY <1>11, <2>1, <2>2, SlotFacts DEF At
<1>13. /\ BookOK(b2)
       /\ \A x \in Nat : LevelAt(b2, x) = IF x = level THEN after ELSE LevelAt(P, x)
       /\ \A x, d, p : LevelIs(b2, x, d, p) <=> LevelIs(P, x, d, p)
    BY <1>2, <1>12, LinkBookOK
<1> HIDE DEF b2
<1>14. IsBooks(bk2) /\ \A y \in Symbol : bk2[y] = IF y = sym THEN b2 ELSE bk[y]
  <2> HIDE DEF bk1
  <2>1. BookSet(bk2, bk1, sym, b2)
      BY DEF BookSet
  <2> HIDE DEF bk2
  <2>2. IsBooks(bk2) /\ \A y \in Symbol : bk2[y] = IF y = sym THEN b2 ELSE bk1[y]
      BY <1>1, <1>3, <2>1, BookReplaced
  <2> QED BY <1>3, <2>2
<1> HIDE DEF bk2
<1>15. BooksOK(bk2)
    BY <1>1, <1>13, <1>14 DEF BooksOK
<1>16. ListBecomes(L2, L, sym, level, longer)
    BY <1>1, <1>5, <1>11, ListReplaced
<1> HIDE DEF L2
<1>17. L2 \in LevelLists /\ \A y \in Symbol, x \in Nat :
         L2[y][x] = IF y = sym /\ x = level THEN longer ELSE L[y][x]
    BY <1>16 DEF ListBecomes
<1>18. ListsOK(sl2, bk2, L2)
  <2> SUFFICES ASSUME NEW y \in Symbol, NEW x \in Nat
               PROVE  Lists(sl2, LevelAt(bk2[y], x), L2[y][x], x)
      BY DEF ListsOK
  <2>1. CASE y = sym /\ x = level
    <3>1. Lists(sl2, after, longer, level)
        BY <1>10
    <3>2. LevelAt(bk2[y], x) = after /\ L2[y][x] = longer
        BY <1>5, <1>13, <1>14, <1>17, <2>1
    <3> QED BY <2>1, <3>1, <3>2
  <2>2. CASE ~(y = sym /\ x = level)
    <3>1. LevelAt(bk2[y], x) = LevelAt(bk[y], x) /\ L2[y][x] = L[y][x]
        BY <1>2, <1>13, <1>14, <1>17, <2>2
    <3>2. Lists(sl, LevelAt(bk[y], x), L[y][x], x)
        BY <1>1 DEF ListsOK
    <3>3. \A t \in Range(L[y][x]) : sl2[t] = sl[t]
      <4> SUFFICES ASSUME NEW t \in Range(L[y][x]) PROVE sl2[t] = sl[t]
          OBVIOUS
      <4>1. t \notin Range(q)
          BY <1>1, <1>5, <2>2, OneList DEF q
      <4> QED BY <1>8, <1>10, <4>1
    <3> QED BY <3>1, <3>2, <3>3, ListsFrame
  <2> QED BY <2>1, <2>2
<1>19. FreeList(sl2, head2, F2)
  <2>1. ASSUME NEW t \in Range(F2) PROVE sl2[t].next_idx = sl[t].next_idx
    <3>1. t \in Range(F) /\ t # head
        BY <1>6
    <3>2. t \notin Range(q)
        BY <1>1, <1>5, <3>1, FreeNotListed DEF q
    <3>3. t \in Slot
        BY <1>1, <3>1, SeqFacts DEF FreeList
    <3> QED BY <1>10, <3>1, <3>2, <3>3
  <2> QED BY <1>6, <2>1, FreeFrame
<1>20. /\ rf2 \in [Ref -> Link] /\ rf2[r] = head
       /\ \A x \in Ref : x # r => rf2[x] = rf[x]
    BY <1>1, <1>6 DEF Link
<1> HIDE DEF rf2
<1>21. \A y \in Symbol, x \in Nat : Range(L2[y][x])
         = IF y = sym /\ x = level THEN Range(L[y][x]) \cup {head} ELSE Range(L[y][x])
    BY <1>11, <1>17 DEF q
<1>22. Listed(sl, rf, L, F) /\ Injective(rf) /\ Borne(rf, L) /\ Covered(rf, F)
    BY DEF Rep
<1>23. \A x \in Ref : rf[x] # kNullIdx => rf[x] # head /\ rf[x] \in Slot
    BY <1>1, <1>6, <1>22 DEF Listed, Link
<1>24. Listed(sl2, rf2, L2, F2)
  <2> SUFFICES ASSUME NEW x \in Ref, rf2[x] # kNullIdx
               PROVE  /\ rf2[x] \in Range(L2[SymbolOf[x]][sl2[rf2[x]].level_idx])
                      /\ rf2[x] \notin Range(F2)
      BY DEF Listed
  <2>1. CASE x = r
      BY <1>1, <1>5, <1>6, <1>10, <1>20, <1>21, <2>1 DEF sym
  <2>2. CASE x # r
    <3>1. rf2[x] = rf[x] /\ rf[x] # head /\ rf[x] \in Slot
        BY <1>20, <1>23, <2>2
    <3>2. /\ rf[x] \in Range(L[SymbolOf[x]][sl[rf[x]].level_idx])
          /\ rf[x] \notin Range(F)
        BY <1>22, <3>1, <2>2, <1>20 DEF Listed
    <3>3. sl2[rf[x]].level_idx = sl[rf[x]].level_idx /\ sl[rf[x]].level_idx \in Nat
        BY <1>1, <1>10, <3>1 DEF SlotRec
    <3>4. SymbolOf[x] \in Symbol
        BY BooksAssumption
    <3> QED BY <1>6, <1>21, <3>1, <3>2, <3>3, <3>4
  <2> QED BY <2>1, <2>2
<1>25. Injective(rf2)
    BY <1>20, <1>22, <1>23 DEF Injective
<1>26. Borne(rf2, L2)
  <2> SUFFICES ASSUME NEW y \in Symbol, NEW x \in Nat, NEW t \in Range(L2[y][x])
               PROVE  \E z \in Ref : rf2[z] = t /\ SymbolOf[z] = y
      BY DEF Borne
  <2>1. CASE t \in Range(L[y][x])
    <3>1. PICK z \in Ref : rf[z] = t /\ SymbolOf[z] = y
        BY <1>22, <2>1 DEF Borne
    <3>2. z # r
        BY <1>8, <2>1, <3>1, SlotFacts
    <3> QED BY <1>20, <3>1, <3>2
  <2>2. CASE t \notin Range(L[y][x])
    <3>1. y = sym /\ t = head
        BY <1>21, <2>2
    <3> QED BY <1>20, <3>1 DEF sym
  <2> QED BY <2>1, <2>2
<1>27. Covered(rf2, F2)
  <2> SUFFICES ASSUME NEW t \in Slot, t \notin Range(F2)
               PROVE  \E x \in Ref : rf2[x] = t
      BY DEF Covered
  <2>1. CASE t = head
      BY <1>20, <2>1
  <2>2. CASE t # head
    <3>1. PICK x \in Ref : rf[x] = t
        BY <1>6, <1>22, <2>2 DEF Covered
    <3>2. x # r
        BY <3>1, SlotFacts
    <3> QED BY <1>20, <3>1, <3>2
  <2> QED BY <2>1, <2>2
<1>28. Rep(sl2, head2, rf2, bk2, L2, F2)
    BY <1>10, <1>15, <1>17, <1>18, <1>19, <1>20, <1>24, <1>25, <1>26, <1>27 DEF Rep
<1>29. Added(sl, bk, L, sl2, bk2, L2, sym, head, side, price, shares)
  <2>1. LevelIs(bk2[sym], level, side, price)
      BY <1>1, <1>2, <1>13, <1>14
  <2>2. \A x, d, p : LevelIs(bk[sym], x, d, p) => LevelIs(bk2[sym], x, d, p)
      BY <1>1, <1>2, <1>13, <1>14
  <2>3. \A y \in Symbol \ {sym} : bk2[y] = bk[y]
      BY <1>14
  <2>4. ListBecomes(L2, L, sym, level, Append(L[sym][level], head))
      BY <1>16 DEF longer, q
  <2> QED BY <1>5, <1>10, <2>1, <2>2, <2>3, <2>4 DEF Added
<1> QED BY <1>4, <1>6, <1>28, <1>29 DEF rf2, sym

\* What an order that goes changes: slot s leaves its list.
Removed(sl, bk, L, sl2, bk2, L2, sym, s) ==
  LET level == sl[s].level_idx
  IN  \E k0 \in DOMAIN L[sym][level] :
        /\ L[sym][level][k0] = s
        /\ ListBecomes(L2, L, sym, level, Shorter(L[sym][level], k0))
        /\ \A t \in Slot \ {s} : sl2[t].qty = sl[t].qty /\ sl2[t].level_idx = sl[t].level_idx
        /\ \A x, d, p : LevelIs(bk2[sym], x, d, p) <=> LevelIs(bk[sym], x, d, p)
        /\ \A y \in Symbol \ {sym} : bk2[y] = bk[y]

\* unlink_order, release and erase, of a known order.
LEMMA GoneRep ==
  ASSUME NEW sl, NEW head, NEW rf, NEW bk, NEW L, NEW F, Rep(sl, head, rf, bk, L, F),
         NEW r \in Ref, rf[r] # kNullIdx
  PROVE  \E sl2, bk2, L2, F2 :
           /\ V3!Gone(Mem(sl, head, rf, bk), r)
                = Mem(sl2, rf[r], [rf EXCEPT ![r] = kNullIdx], bk2)
           /\ Rep(sl2, rf[r], [rf EXCEPT ![r] = kNullIdx], bk2, L2, F2)
           /\ rf[r] \in Slot
           /\ Removed(sl, bk, L, sl2, bk2, L2, SymbolOf[r], rf[r])
<1> DEFINE sym == SymbolOf[r]
           s == rf[r]
           b == bk[sym]
           level == sl[s].level_idx
           lvl == b.levels[level]
           q == L[sym][level]
           after == UnlinkedLevel(lvl, sl[s])
           mid == UnlinkedSlots(sl, s)
           sl2 == [mid EXCEPT ![s] = V3!Blank(head)]
           b2 == UnlinkBook(b, level, after)
           bk2 == [bk EXCEPT ![sym] = b2]
           rf2 == [rf EXCEPT ![r] = kNullIdx]
           F2 == Pushed(s, F)
<1>1. /\ sl \in [Slot -> SlotRec] /\ rf \in [Ref -> Link] /\ L \in LevelLists
      /\ FreeList(sl, head, F) /\ IsBooks(bk) /\ \A y \in Symbol : BookOK(bk[y])
      /\ ListsOK(sl, bk, L) /\ sym \in Symbol
      /\ Listed(sl, rf, L, F) /\ Injective(rf) /\ Borne(rf, L) /\ Covered(rf, F)
    BY BooksAssumption DEF Rep, BooksOK
<1>2. V3!Gone(Mem(sl, head, rf, bk), r) = Mem(sl2, s, rf2, bk2)
  <2> DEFINE m == Mem(sl, head, rf, bk)
  <2>1. m.refs[r] = s
      BY DEF Mem
  <2>2. V3!UnlinkOrder(m, sym, s) = Mem(mid, head, rf, bk2)
      BY UnlinkIs
  <2> HIDE DEF m, mid, bk2, s, sym
  <2>3. V3!Release(Mem(mid, head, rf, bk2), s) = Mem(sl2, s, rf, bk2)
      BY ReleaseIs
  <2>4. V3!Erase(Mem(sl2, s, rf, bk2), r) = Mem(sl2, s, rf2, bk2)
    <3> HIDE DEF sl2
    <3> QED BY EraseIs
  <2>5. V3!Gone(m, r) = V3!Erase(V3!Release(V3!UnlinkOrder(m, sym, s), s), r)
      BY <2>1 DEF V3!Gone, sym
  <2> HIDE DEF sl2, rf2
  <2> QED BY <2>2, <2>3, <2>4, <2>5 DEF m
<1>3. /\ s \in Slot /\ level \in Nat /\ s \in Range(q) /\ s \notin Range(F)
  <2>1. s \in Link /\ s # kNullIdx
      BY <1>1
  <2>2. s \in Slot
      BY <2>1 DEF Link
  <2>3. level \in Nat
      BY <1>1, <2>2 DEF SlotRec
  <2>4. s \in Range(q) /\ s \notin Range(F)
      BY <1>1, <2>1 DEF Listed
  <2> QED BY <2>2, <2>3, <2>4
<1> HIDE DEF level, sym, s
<1>4. /\ level \in DOMAIN b.levels /\ LevelAt(b, level) = lvl
      /\ lvl.head_idx # kNullIdx
    BY <1>1, <1>3, LevelThere
<1> HIDE DEF lvl, b
<1>5. Lists(sl, lvl, q, level)
    BY <1>1, <1>3, <1>4 DEF ListsOK, b
<1>6. PICK k0 \in DOMAIN q : q[k0] = s
    BY <1>3 DEF Range
<1> DEFINE rest == Shorter(q, k0)
           L2 == [L EXCEPT ![sym][level] = rest]
<1>7. /\ mid \in [Slot -> SlotRec]
      /\ \A t \in Slot : /\ mid[t].qty = sl[t].qty
                         /\ mid[t].level_idx = sl[t].level_idx
                         /\ t \notin Range(q) => mid[t] = sl[t]
      /\ Lists(mid, after, rest, level)
  <2> HIDE DEF q
  <2> QED BY <1>1, <1>3, <1>5, <1>6, UnlinkSlots
<1>8. rest \in Seq(Slot) /\ Range(rest) = Range(q) \ {s}
  <2>1. q \in Seq(Slot) /\ Distinct(q)
      BY <1>5 DEF Lists
  <2> HIDE DEF q
  <2> QED BY <1>6, <2>1, ShorterFacts
<1> HIDE DEF q, mid, after, rest
<1>9. after \in LevelRec
  <2>1. Lists(mid, after, rest, level)
      BY <1>7
  <2> QED BY <2>1 DEF Lists, Summary
<1>10. /\ BookOK(b2)
       /\ \A x \in Nat : LevelAt(b2, x) = IF x = level THEN after ELSE LevelAt(b, x)
       /\ \A x, d, p : LevelIs(b2, x, d, p) <=> LevelIs(b, x, d, p)
  <2>1. BookOK(b) /\ b.levels[level].head_idx # kNullIdx
      BY <1>1, <1>4 DEF b, lvl
  <2> QED BY <1>4, <1>9, <2>1, UnlinkBookOK
<1> HIDE DEF b2
<1>11. IsBooks(bk2) /\ \A y \in Symbol : bk2[y] = IF y = sym THEN b2 ELSE bk[y]
  <2>1. BookSet(bk2, bk, sym, b2)
      BY DEF BookSet
  <2> HIDE DEF bk2
  <2> QED BY <1>1, <2>1, BookReplaced
<1> HIDE DEF bk2
<1>12. BooksOK(bk2)
    BY <1>1, <1>10, <1>11 DEF BooksOK
<1>13. ListBecomes(L2, L, sym, level, rest)
    BY <1>1, <1>3, <1>8, ListReplaced
<1> HIDE DEF L2
<1>14. L2 \in LevelLists /\ \A y \in Symbol, x \in Nat :
         L2[y][x] = IF y = sym /\ x = level THEN rest ELSE L[y][x]
    BY <1>13 DEF ListBecomes
<1>15. \A y \in Symbol, x \in Nat : Range(L2[y][x]) = Range(L[y][x]) \ {s}
  <2> SUFFICES ASSUME NEW y \in Symbol, NEW x \in Nat
               PROVE  Range(L2[y][x]) = Range(L[y][x]) \ {s}
      OBVIOUS
  <2>1. CASE y = sym /\ x = level
      BY <1>8, <1>14, <2>1 DEF q
  <2>2. CASE ~(y = sym /\ x = level)
    <3>1. s \notin Range(L[y][x])
        BY <1>1, <1>3, <2>2, OneList DEF q
    <3> QED BY <1>14, <2>2, <3>1
  <2> QED BY <2>1, <2>2
<1>16. V3!Blank(head) \in SlotRec /\ V3!Blank(head).next_idx = head
  <2>1. head \in Link
    <3>1. F \in Seq(Slot) /\ head = At(F, 1)
        BY <1>1 DEF FreeList
    <3> QED BY <3>1, SeqFacts
  <2>2. 0 \in Link
      BY SlotFacts DEF Link
  <2> QED BY <2>1, <2>2 DEF V3!Blank, SlotRec
<1>17. /\ sl2 \in [Slot -> SlotRec] /\ sl2[s] = V3!Blank(head)
       /\ \A t \in Slot \ {s} : sl2[t] = mid[t]
    BY <1>3, <1>7, <1>16
<1> HIDE DEF sl2
<1>18. ListsOK(sl2, bk2, L2)
  <2> SUFFICES ASSUME NEW y \in Symbol, NEW x \in Nat
               PROVE  Lists(sl2, LevelAt(bk2[y], x), L2[y][x], x)
      BY DEF ListsOK
  <2>1. \A t \in Range(L[y][x]) : t \in Slot
      BY LevelThere
  <2>2. CASE y = sym /\ x = level
    <3>1. Lists(mid, after, rest, level)
        BY <1>7
    <3>2. LevelAt(bk2[y], x) = after /\ L2[y][x] = rest
        BY <1>3, <1>10, <1>11, <1>14, <2>2
    <3>3. \A t \in Range(rest) : sl2[t] = mid[t]
        BY <1>8, <1>17, <2>1, <2>2 DEF q
    <3>4. Lists(sl2, after, rest, level)
        BY <3>1, <3>3, ListsFrame
    <3> QED BY <2>2, <3>2, <3>4
  <2>3. CASE ~(y = sym /\ x = level)
    <3>1. LevelAt(bk2[y], x) = LevelAt(bk[y], x) /\ L2[y][x] = L[y][x]
        BY <1>10, <1>11, <1>14, <2>3 DEF b
    <3>2. Lists(sl, LevelAt(bk[y], x), L[y][x], x)
        BY <1>1 DEF ListsOK
    <3>3. \A t \in Range(L[y][x]) : sl2[t] = sl[t]
      <4> SUFFICES ASSUME NEW t \in Range(L[y][x]) PROVE sl2[t] = sl[t]
          OBVIOUS
      <4>1. t \notin Range(q)
          BY <1>1, <1>3, <2>3, OneList DEF q
      <4>2. t # s
          BY <1>3, <4>1
      <4> QED BY <1>7, <1>17, <2>1, <4>1, <4>2
    <3> QED BY <3>1, <3>2, <3>3, ListsFrame
  <2> QED BY <2>2, <2>3
<1>19. FreeList(sl2, s, F2) /\ Range(F2) = Range(F) \cup {s}
  <2>1. ASSUME NEW t \in Range(F) PROVE sl2[t].next_idx = sl[t].next_idx
    <3>1. t \in Slot /\ t # s
        BY <1>1, <1>3, SeqFacts DEF FreeList
    <3>2. t \notin Range(q)
        BY <1>1, <1>3, FreeNotListed DEF q
    <3> QED BY <1>7, <1>17, <3>1, <3>2
  <2>2. sl2[s].next_idx = head
      BY <1>16, <1>17
  <2> QED BY <1>1, <1>3, <2>1, <2>2, FreePush
<1> HIDE DEF F2
<1>20. /\ rf2 \in [Ref -> Link] /\ rf2[r] = kNullIdx
       /\ \A x \in Ref : x # r => rf2[x] = rf[x]
    BY <1>1 DEF Link
<1> HIDE DEF rf2
<1>21. \A x \in Ref : x # r => rf[x] # s
    BY <1>1, <1>3, SlotFacts DEF Injective, s
<1>22. Listed(sl2, rf2, L2, F2)
  <2> SUFFICES ASSUME NEW x \in Ref, rf2[x] # kNullIdx
               PROVE  /\ rf2[x] \in Range(L2[SymbolOf[x]][sl2[rf2[x]].level_idx])
                      /\ rf2[x] \notin Range(F2)
      BY DEF Listed
  <2>1. x # r /\ rf2[x] = rf[x] /\ rf[x] # s /\ rf[x] # kNullIdx
      BY <1>20, <1>21
  <2>2. /\ rf[x] \in Range(L[SymbolOf[x]][sl[rf[x]].level_idx])
        /\ rf[x] \notin Range(F)
      BY <1>1, <2>1 DEF Listed
  <2>3. rf[x] \in Slot
      BY <1>1, <2>1 DEF Link
  <2>4. sl2[rf[x]].level_idx = sl[rf[x]].level_idx /\ sl[rf[x]].level_idx \in Nat
      BY <1>1, <1>7, <1>17, <2>1, <2>3 DEF SlotRec
  <2>5. SymbolOf[x] \in Symbol
      BY BooksAssumption
  <2> QED BY <1>15, <1>19, <2>1, <2>2, <2>4, <2>5
<1>23. Injective(rf2)
    BY <1>1, <1>20 DEF Injective
<1>24. Borne(rf2, L2)
  <2> SUFFICES ASSUME NEW y \in Symbol, NEW x \in Nat, NEW t \in Range(L2[y][x])
               PROVE  \E z \in Ref : rf2[z] = t /\ SymbolOf[z] = y
      BY DEF Borne
  <2>1. t \in Range(L[y][x]) /\ t # s
      BY <1>15
  <2>2. PICK z \in Ref : rf[z] = t /\ SymbolOf[z] = y
      BY <1>1, <2>1 DEF Borne
  <2>3. z # r
      BY <2>1, <2>2 DEF s
  <2> QED BY <1>20, <2>2, <2>3
<1>25. Covered(rf2, F2)
  <2> SUFFICES ASSUME NEW t \in Slot, t \notin Range(F2)
               PROVE  \E x \in Ref : rf2[x] = t
      BY DEF Covered
  <2>1. t # s /\ t \notin Range(F)
      BY <1>19
  <2>2. PICK x \in Ref : rf[x] = t
      BY <1>1, <2>1 DEF Covered
  <2>3. x # r
      BY <2>1, <2>2 DEF s
  <2> QED BY <1>20, <2>2, <2>3
<1>26. Rep(sl2, s, rf2, bk2, L2, F2)
    BY <1>12, <1>14, <1>17, <1>18, <1>19, <1>20, <1>22, <1>23, <1>24, <1>25 DEF Rep
<1>27. Removed(sl, bk, L, sl2, bk2, L2, sym, s)
  <2>1. \A t \in Slot \ {s} : sl2[t].qty = sl[t].qty /\ sl2[t].level_idx = sl[t].level_idx
      BY <1>7, <1>17
  <2>2. \A x, d, p : LevelIs(bk2[sym], x, d, p) <=> LevelIs(bk[sym], x, d, p)
      BY <1>1, <1>10, <1>11 DEF b
  <2>3. \A y \in Symbol \ {sym} : bk2[y] = bk[y]
      BY <1>11
  <2>4. k0 \in DOMAIN L[sym][level] /\ L[sym][level][k0] = s
        /\ ListBecomes(L2, L, sym, level, Shorter(L[sym][level], k0))
      BY <1>6, <1>13 DEF rest, q
  <2> QED BY <2>1, <2>2, <2>3, <2>4 DEF Removed, level
<1> QED BY <1>2, <1>3, <1>26, <1>27 DEF rf2, sym, s

\* The assignments of a partial execution or cancel of the order in slot s.
Reduces(sl, bk, sl2, bk2, sym, s, n) ==
  /\ sl2 = [sl EXCEPT ![s].qty = @ - n]
  /\ bk2 = [bk EXCEPT ![sym].levels[sl[s].level_idx].total_qty = @ - n]

\* What it changes for a reader of the lists: the shares of slot s.
Reduced(sl, bk, sl2, bk2, sym, s, n) ==
  /\ sl2[s].qty = sl[s].qty - n
  /\ \A t \in Slot : sl2[t].level_idx = sl[t].level_idx /\ (t # s => sl2[t].qty = sl[t].qty)
  /\ \A x, d, p : LevelIs(bk2[sym], x, d, p) <=> LevelIs(bk[sym], x, d, p)
  /\ \A y \in Symbol \ {sym} : bk2[y] = bk[y]

\* It leaves the lists as they are.
LEMMA ReduceRep ==
  ASSUME NEW sl, NEW head, NEW rf, NEW bk, NEW L, NEW F, Rep(sl, head, rf, bk, L, F),
         NEW r \in Ref, rf[r] # kNullIdx, NEW n \in Nat, n < sl[rf[r]].qty,
         NEW sl2, NEW bk2, Reduces(sl, bk, sl2, bk2, SymbolOf[r], rf[r], n)
  PROVE  /\ Rep(sl2, head, rf, bk2, L, F)
         /\ Reduced(sl, bk, sl2, bk2, SymbolOf[r], rf[r], n)
         /\ rf[r] \in Slot
<1> DEFINE sym == SymbolOf[r]
           s == rf[r]
           b == bk[sym]
           level == sl[s].level_idx
           lvl == b.levels[level]
           q == L[sym][level]
           after == TotalTaken(lvl, n)
           b2 == bk2[sym]
<1>1. /\ sl \in [Slot -> SlotRec] /\ rf \in [Ref -> Link] /\ L \in LevelLists
      /\ FreeList(sl, head, F) /\ IsBooks(bk) /\ \A y \in Symbol : BookOK(bk[y])
      /\ ListsOK(sl, bk, L) /\ sym \in Symbol
      /\ Listed(sl, rf, L, F) /\ Injective(rf) /\ Borne(rf, L) /\ Covered(rf, F)
    BY BooksAssumption DEF Rep, BooksOK
<1>2. /\ s \in Slot /\ level \in Nat /\ s \in Range(q) /\ s \notin Range(F)
  <2>1. s \in Link /\ s # kNullIdx
      BY <1>1
  <2>2. s \in Slot
      BY <2>1 DEF Link
  <2>3. level \in Nat
      BY <1>1, <2>2 DEF SlotRec
  <2>4. s \in Range(q) /\ s \notin Range(F)
      BY <1>1, <2>1 DEF Listed
  <2> QED BY <2>2, <2>3, <2>4
<1>3. sl2 = [sl EXCEPT ![s].qty = @ - n] /\ n < sl[s].qty
    BY DEF Reduces
<1>4. bk2 = [bk EXCEPT ![sym].levels[level].total_qty = @ - n]
    BY DEF Reduces
<1> HIDE DEF level, sym, s
<1>5. /\ level \in DOMAIN b.levels /\ LevelAt(b, level) = lvl
      /\ lvl.head_idx # kNullIdx
    BY <1>1, <1>2, LevelThere
<1> DEFINE nb == [b EXCEPT !.levels = [b.levels EXCEPT ![level] = after]]
<1>6. /\ b2 = nb /\ IsBooks(bk2)
      /\ \A y \in Symbol : bk2[y] = IF y = sym THEN nb ELSE bk[y]
  <2>1. bk2 = [bk EXCEPT ![sym] = nb]
      BY <1>4 DEF TotalTaken
  <2> HIDE DEF nb
  <2>2. BookSet(bk2, bk, sym, nb)
      BY <2>1 DEF BookSet
  <2>3. IsBooks(bk2) /\ \A y \in Symbol : bk2[y] = IF y = sym THEN nb ELSE bk[y]
      BY <1>1, <2>2, BookReplaced
  <2> QED BY <1>1, <2>3
<1> HIDE DEF lvl, b
<1>7. Lists(sl, lvl, q, level)
    BY <1>1, <1>2, <1>5 DEF ListsOK, b
<1> HIDE DEF q
<1>8. /\ sl2 \in [Slot -> SlotRec] /\ sl2[s].qty = sl[s].qty - n
      /\ \A t \in Slot : /\ sl2[t].level_idx = sl[t].level_idx
                         /\ sl2[t].next_idx = sl[t].next_idx
                         /\ t # s => sl2[t] = sl[t]
      /\ Lists(sl2, after, q, level)
  <2> HIDE DEF b2, nb
  <2>1. /\ s \in Slot /\ s \in Range(q) /\ n < sl[s].qty
        /\ sl \in [Slot -> SlotRec] /\ Lists(sl, lvl, q, level)
      BY <1>1, <1>2, <1>3, <1>7
  <2> DEFINE cut == SharesTaken(sl, s, n)
  <2>2. sl2 = cut
      BY <1>3 DEF SharesTaken
  <2>3. /\ cut \in [Slot -> SlotRec] /\ cut[s].qty = sl[s].qty - n
        /\ \A t \in Slot : /\ cut[t].level_idx = sl[t].level_idx
                           /\ cut[t].next_idx = sl[t].next_idx
                           /\ t # s => cut[t] = sl[t]
        /\ Lists(cut, after, q, level)
      BY <2>1, ReduceLists
  <2> QED BY <2>2, <2>3
<1>9. after \in LevelRec /\ after.head_idx = lvl.head_idx
  <2>1. Lists(sl2, after, q, level)
      BY <1>8
  <2>2. after \in LevelRec
      BY <2>1 DEF Lists, Summary
  <2>3. lvl \in LevelRec
      BY <1>7 DEF Lists, Summary
  <2> QED BY <2>2, <2>3 DEF LevelRec, TotalTaken
<1> HIDE DEF after
<1>10. /\ BookOK(b2)
       /\ \A x \in Nat : LevelAt(b2, x) = IF x = level THEN after ELSE LevelAt(b, x)
       /\ \A x, d, p : LevelIs(b2, x, d, p) <=> LevelIs(b, x, d, p)
  <2> DEFINE levels == [b.levels EXCEPT ![level] = after]
             four == FourSet(b, levels, b.occupied, b.best_bid, b.best_ask)
  <2>1. BookOK(b) /\ IsBook(b) /\ b.levels[level] = lvl
      BY <1>1 DEF b, BookOK, BookTyped, lvl
  <2> HIDE DEF b2, levels
  <2>2. b2 = four
    <3>1. b2 = [base_set |-> b.base_set, base_cents |-> b.base_cents, levels |-> levels,
                overflow |-> b.overflow, occupied |-> b.occupied,
                best_bid |-> b.best_bid, best_ask |-> b.best_ask]
        BY <1>6, <2>1 DEF IsBook, levels
    <3> QED BY <2>1, <3>1, FieldsSet
  <2> HIDE DEF four
  <2>3. b2 = FourSet(b, [b.levels EXCEPT ![level] = after], b.occupied, b.best_bid, b.best_ask)
      BY <2>2 DEF four, levels
  <2> QED BY <1>5, <1>9, <2>1, <2>3, TotalBookOK
<1> HIDE DEF b2
<1>11. \A y \in Symbol, x \in Nat :
         LevelAt(bk2[y], x) = IF y = sym /\ x = level THEN after ELSE LevelAt(bk[y], x)
    BY <1>6, <1>10 DEF b, b2
<1>12. BooksOK(bk2)
    BY <1>1, <1>6, <1>10 DEF BooksOK, b2
<1>13. ListsOK(sl2, bk2, L)
  <2> SUFFICES ASSUME NEW y \in Symbol, NEW x \in Nat
               PROVE  Lists(sl2, LevelAt(bk2[y], x), L[y][x], x)
      BY DEF ListsOK
  <2>1. CASE y = sym /\ x = level
    <3>1. Lists(sl2, after, q, level)
        BY <1>8
    <3>2. LevelAt(bk2[y], x) = after /\ L[y][x] = q
        BY <1>11, <2>1 DEF q
    <3> QED BY <2>1, <3>1, <3>2
  <2>2. CASE ~(y = sym /\ x = level)
    <3>1. LevelAt(bk2[y], x) = LevelAt(bk[y], x)
        BY <1>11, <2>2
    <3>2. Lists(sl, LevelAt(bk[y], x), L[y][x], x)
        BY <1>1 DEF ListsOK
    <3>3. \A t \in Range(L[y][x]) : sl2[t] = sl[t]
      <4> SUFFICES ASSUME NEW t \in Range(L[y][x]) PROVE sl2[t] = sl[t]
          OBVIOUS
      <4>1. t # s
          BY <1>1, <1>2, <2>2, OneList DEF q
      <4>2. t \in Slot
          BY LevelThere
      <4> QED BY <1>8, <4>1, <4>2
    <3> QED BY <3>1, <3>2, <3>3, ListsFrame
  <2> QED BY <2>1, <2>2
<1>14. FreeList(sl2, head, F)
  <2>1. \A t \in Range(F) : t \in Slot
      BY <1>1, SeqFacts DEF FreeList
  <2>2. \A t \in Range(F) : sl2[t].next_idx = sl[t].next_idx
      BY <1>8, <2>1
  <2> QED BY <1>1, <2>2, FreeFrame
<1>15. Listed(sl2, rf, L, F)
  <2> SUFFICES ASSUME NEW x \in Ref, rf[x] # kNullIdx
               PROVE  /\ rf[x] \in Range(L[SymbolOf[x]][sl2[rf[x]].level_idx])
                      /\ rf[x] \notin Range(F)
      BY DEF Listed
  <2>1. rf[x] \in Slot
      BY <1>1 DEF Link
  <2>2. sl2[rf[x]].level_idx = sl[rf[x]].level_idx
      BY <1>8, <2>1
  <2> QED BY <1>1, <2>2 DEF Listed
<1>16. Rep(sl2, head, rf, bk2, L, F)
    BY <1>1, <1>8, <1>12, <1>13, <1>14, <1>15 DEF Rep
<1>17. Reduced(sl, bk, sl2, bk2, sym, s, n)
  <2>1. \A t \in Slot : t # s => sl2[t].qty = sl[t].qty
      BY <1>8
  <2>2. \A x, d, p : LevelIs(bk2[sym], x, d, p) <=> LevelIs(bk[sym], x, d, p)
      BY <1>10 DEF b2, b
  <2> QED BY <1>6, <1>8, <2>1, <2>2 DEF Reduced
<1> QED BY <1>2, <1>16, <1>17 DEF sym, s

-----------------------------------------------------------------------------
(* The handlers. *)

\* The reference table has room as long as it is twice as large as the pool, or
\* twice as large as the set of the orders that are live: insert refuses at half
\* its size (ref_table.hpp:14).
Roomy(n) == 2 * PoolCapacity <= RefCapacity \/ 2 * n <= RefCapacity

\* The reference table has room for what is live.
TableRoom == Roomy(Cardinality(DOMAIN v1_index))

\* Then an order that takes a free slot is indexed.
LEMMA RoomFor ==
  ASSUME NEW sl, NEW head, NEW rf, NEW bk, NEW L, NEW F, Rep(sl, head, rf, bk, L, F),
         NEW r \in Ref, rf[r] = kNullIdx, head # kNullIdx,
         NEW D, IsFiniteSet(D), r \in D,
         \A x \in Ref : rf[x] # kNullIdx => x \in D,
         Roomy(Cardinality(D))
  PROVE  ~V3!Table!Saturated(rf)
<1> DEFINE K == V3!Table!Live(rf)
           T == Slot \ {head}
           D1 == D \ {r}
<1>1. K = {x \in Ref : rf[x] # kNullIdx}
    BY SlotFacts DEF V3!Table!Live
<1>2. V3!Table!Saturated(rf) <=> 2 * Cardinality(K) >= RefCapacity
    BY DEF V3!Table!Saturated, V3!Table!Cardinality, Cardinality
<1>3. rf \in [Ref -> Link] /\ FreeList(sl, head, F) /\ Listed(sl, rf, L, F) /\ Injective(rf)
    BY DEF Rep
<1>4. head \in Slot /\ head \in Range(F)
    BY <1>3, FreePop
<1>5. /\ IsFiniteSet(T) /\ Cardinality(T) = PoolCapacity - 1
      /\ IsFiniteSet(D1) /\ Cardinality(D1) = Cardinality(D) - 1
      /\ Cardinality(D) \in Nat /\ PoolCapacity \in Nat /\ RefCapacity \in Nat
  <2>0. IsFiniteSet(Slot) /\ Cardinality(Slot) = PoolCapacity /\ head \in Slot
      BY <1>4, SlotFacts
  <2>1. IsFiniteSet(Slot \ {head}) /\ Cardinality(Slot \ {head}) = PoolCapacity - 1
      BY <2>0, FS_RemoveElement
  <2>2. IsFiniteSet(D \ {r}) /\ Cardinality(D \ {r}) = Cardinality(D) - 1
      BY FS_RemoveElement
  <2> QED BY <2>1, <2>2, BooksAssumption, FS_CardinalityType
<1>6. K \subseteq D1
    BY <1>1
<1>7. IsFiniteSet(K) /\ Cardinality(K) <= Cardinality(D1) /\ Cardinality(K) \in Nat
    BY <1>5, <1>6, FS_Subset, FS_CardinalityType
<1>8. Cardinality(K) <= Cardinality(T)
  <2> DEFINE f == [x \in K |-> rf[x]]
  <2>1. \A x \in K : rf[x] \in T
      BY <1>1, <1>3, <1>4 DEF Listed, Link
  <2>2. \A x, y \in K : f[x] = f[y] => x = y
      BY <1>1, <1>3 DEF Injective
  <2>3. f \in [K -> T]
      BY <2>1
  <2>4. f \in Injection(K, T)
    <3> HIDE DEF f, K, T
    <3> QED BY <2>2, <2>3 DEF Injection, IsInjective
  <2> HIDE DEF f, K, T
  <2> QED BY <1>5, <2>4, FS_Injection
<1> HIDE DEF K, T, D1
<1> DEFINE k == Cardinality(K)
           d == Cardinality(D)
<1>9. /\ k \in Nat /\ k <= d - 1 /\ k <= PoolCapacity - 1 /\ d \in Nat
      /\ 2 * PoolCapacity <= RefCapacity \/ 2 * d <= RefCapacity
    BY <1>5, <1>7, <1>8 DEF Roomy
<1> HIDE DEF k, d
<1>10. 2 * k < RefCapacity
    BY <1>5, <1>9
<1> QED BY <1>2, <1>5, <1>9, <1>10 DEF k

\* add_order of a new reference, when there is a free slot.
LEMMA AddStep ==
  ASSUME NEW L, NEW F, Rep(slots, free_head, refs, books, L, F),
         NEW r \in Ref, refs[r] = kNullIdx, free_head # kNullIdx,
         ~V3!Table!Saturated(refs),
         NEW side \in Side, NEW price \in Price, NEW shares \in Nat,
         V3!AddOrder(r, side, price, shares)
  PROVE  \E L2, F2 :
           /\ Rep(slots', free_head', refs', books', L2, F2)
           /\ refs' = [refs EXCEPT ![r] = free_head] /\ free_head \in Slot
           /\ Added(slots, books, L, slots', books', L2, SymbolOf[r], free_head,
                    side, price, shares)
<1>1. PICK sl2, head2, bk2, L2, F2 :
        /\ V3!Rest(Mem(slots, free_head, refs, books), r, side, price, shares)
             = Mem(sl2, head2, [refs EXCEPT ![r] = free_head], bk2)
        /\ Rep(sl2, head2, [refs EXCEPT ![r] = free_head], bk2, L2, F2)
        /\ free_head \in Slot
        /\ Added(slots, books, L, sl2, bk2, L2, SymbolOf[r], free_head, side, price, shares)
    BY RestRep
<1> DEFINE rf2 == [refs EXCEPT ![r] = free_head]
<1> HIDE DEF rf2
<1>2. slots' = sl2 /\ free_head' = head2 /\ books' = bk2 /\ refs' = rf2
  <2>1. V3!Memory = Mem(slots, free_head, refs, books)
      BY DEF V3!Memory, Mem
  <2>2. V3!Becomes(Mem(sl2, head2, rf2, bk2))
      BY <1>1, <2>1 DEF V3!AddOrder, rf2
  <2> QED BY <2>2 DEF V3!Becomes, Mem
<1> QED BY <1>1, <1>2 DEF rf2

\* add_order with no free slot: nothing happens.
LEMMA DropStep ==
  ASSUME free_head = kNullIdx, NEW r, NEW side, NEW price, NEW shares,
         V3!AddOrder(r, side, price, shares)
  PROVE  UNCHANGED <<slots, free_head, refs, books>>
BY DEF V3!AddOrder, V3!Rest, V3!Becomes, V3!Memory, kNullIdx

\* unlink_order, release and erase of a known order.
LEMMA GoneStep ==
  ASSUME NEW L, NEW F, Rep(slots, free_head, refs, books, L, F),
         NEW r \in Ref, refs[r] # kNullIdx, V3!Becomes(V3!Gone(V3!Memory, r))
  PROVE  \E L2, F2 :
           /\ Rep(slots', free_head', refs', books', L2, F2)
           /\ refs' = [refs EXCEPT ![r] = kNullIdx] /\ refs[r] \in Slot
           /\ Removed(slots, books, L, slots', books', L2, SymbolOf[r], refs[r])
<1>1. PICK sl2, bk2, L2, F2 :
        /\ V3!Gone(Mem(slots, free_head, refs, books), r)
             = Mem(sl2, refs[r], [refs EXCEPT ![r] = kNullIdx], bk2)
        /\ Rep(sl2, refs[r], [refs EXCEPT ![r] = kNullIdx], bk2, L2, F2)
        /\ refs[r] \in Slot
        /\ Removed(slots, books, L, sl2, bk2, L2, SymbolOf[r], refs[r])
    BY GoneRep
<1> DEFINE rf2 == [refs EXCEPT ![r] = kNullIdx]
<1> HIDE DEF rf2
<1>2. slots' = sl2 /\ free_head' = refs[r] /\ books' = bk2 /\ refs' = rf2
  <2>1. V3!Memory = Mem(slots, free_head, refs, books)
      BY DEF V3!Memory, Mem
  <2>2. V3!Becomes(Mem(sl2, refs[r], rf2, bk2))
      BY <1>1, <2>1 DEF rf2
  <2> QED BY <2>2 DEF V3!Becomes, Mem
<1> QED BY <1>1, <1>2 DEF rf2

\* A partial execution or cancel.
LEMMA ReduceStep ==
  ASSUME NEW L, NEW F, Rep(slots, free_head, refs, books, L, F),
         NEW r \in Ref, refs[r] # kNullIdx, NEW n \in Nat, n < slots[refs[r]].qty,
         Reduces(slots, books, slots', books', SymbolOf[r], refs[r], n),
         UNCHANGED <<free_head, refs>>
  PROVE  /\ Rep(slots', free_head', refs', books', L, F)
         /\ Reduced(slots, books, slots', books', SymbolOf[r], refs[r], n)
         /\ refs[r] \in Slot
<1>1. /\ Rep(slots', free_head, refs, books', L, F)
      /\ Reduced(slots, books, slots', books', SymbolOf[r], refs[r], n)
      /\ refs[r] \in Slot
    BY ReduceRep
<1> QED BY <1>1

\* replace_order of a known order by a new one: through a state without either.
LEMMA ReplaceStep ==
  ASSUME NEW L, NEW F, Rep(slots, free_head, refs, books, L, F),
         NEW r \in Ref, refs[r] # kNullIdx, NEW new \in Ref, new # r, refs[new] = kNullIdx,
         NEW D, IsFiniteSet(D), new \in D,
         \A x \in Ref : x # r /\ refs[x] # kNullIdx => x \in D,
         Roomy(Cardinality(D)),
         NEW side \in Side, NEW price \in Price, NEW shares \in Nat,
         V3!Becomes(V3!Rest(V3!Gone(V3!Memory, r), new, side, price, shares))
  PROVE  \E sl1, rf1, bk1, L1, F1, L2, F2 :
           /\ Rep(sl1, refs[r], rf1, bk1, L1, F1)
           /\ rf1 = [refs EXCEPT ![r] = kNullIdx] /\ refs[r] \in Slot
           /\ Removed(slots, books, L, sl1, bk1, L1, SymbolOf[r], refs[r])
           /\ Rep(slots', free_head', refs', books', L2, F2)
           /\ refs' = [rf1 EXCEPT ![new] = refs[r]]
           /\ Added(sl1, bk1, L1, slots', books', L2, SymbolOf[new], refs[r],
                    side, price, shares)
<1> DEFINE s == refs[r]
           rf1 == [refs EXCEPT ![r] = kNullIdx]
<1>1. PICK sl1, bk1, L1, F1 :
        /\ V3!Gone(Mem(slots, free_head, refs, books), r) = Mem(sl1, s, rf1, bk1)
        /\ Rep(sl1, s, rf1, bk1, L1, F1)
        /\ s \in Slot
        /\ Removed(slots, books, L, sl1, bk1, L1, SymbolOf[r], s)
    BY GoneRep
<1>2. refs \in [Ref -> Link]
    BY DEF Rep
<1>3. rf1[new] = kNullIdx /\ \A x \in Ref : rf1[x] # kNullIdx => x # r /\ refs[x] # kNullIdx
    BY <1>2
<1>4. s # kNullIdx
    OBVIOUS
<1> DEFINE rf2 == [rf1 EXCEPT ![new] = s]
<1> HIDE DEF rf1, s
<1>5. ~V3!Table!Saturated(rf1)
    BY <1>1, <1>3, <1>4, RoomFor
<1>6. PICK sl2, head2, bk2, L2, F2 :
        /\ V3!Rest(Mem(sl1, s, rf1, bk1), new, side, price, shares)
             = Mem(sl2, head2, rf2, bk2)
        /\ Rep(sl2, head2, rf2, bk2, L2, F2)
        /\ Added(sl1, bk1, L1, sl2, bk2, L2, SymbolOf[new], s, side, price, shares)
    BY <1>1, <1>3, <1>4, <1>5, RestRep
<1>7. slots' = sl2 /\ free_head' = head2 /\ books' = bk2 /\ refs' = rf2
  <2>1. V3!Memory = Mem(slots, free_head, refs, books)
      BY DEF V3!Memory, Mem
  <2>2. V3!Becomes(Mem(sl2, head2, rf2, bk2))
      BY <1>1, <1>6, <2>1
  <2> QED BY <2>2 DEF V3!Becomes, Mem
<1> HIDE DEF rf2
<1>8. Rep(slots', free_head', refs', books', L2, F2)
    BY <1>6, <1>7
<1>9. Added(sl1, bk1, L1, slots', books', L2, SymbolOf[new], s, side, price, shares)
    BY <1>6, <1>7
<1> QED BY <1>1, <1>7, <1>8, <1>9 DEF rf1, rf2, s

-----------------------------------------------------------------------------
(* The orders of v1 by their shares. *)

\* Queue q has an order r of n shares.
Has(q, r, n) == \E k \in DOMAIN q : q[k] = [ref |-> r, shares |-> n]

\* r is live in v1 with n shares.
HasLive(lv, index, r, n) == r \in DOMAIN index /\ Has(QueueOf(lv, index, r), r, n)

\* The live orders of v1 other than r are still live, as they were.
Others(lv, index, lv2, index2, r) ==
  \A x \in DOMAIN index \ {r} :
    /\ x \in DOMAIN index2 /\ index2[x] = index[x]
    /\ \A n : HasLive(lv, index, x, n) => HasLive(lv2, index2, x, n)

\* The queue of a live order is one of the typed queues.
LEMMA QueueOfType ==
  ASSUME NEW lv, NEW index, V1Inv(lv, index), NEW r \in DOMAIN index
  PROVE  /\ r \in Ref /\ SymbolOf[r] \in Symbol
         /\ index[r].side \in Side /\ index[r].price \in Price
         /\ QueueOf(lv, index, r) = QueueAt(lv, SymbolOf[r], index[r].side, index[r].price)
         /\ QueueOf(lv, index, r) \in Seq(Entry)
<1>1. r \in Ref /\ SymbolOf[r] \in Symbol /\ index[r].side \in Side /\ index[r].price \in Price
    BY BooksAssumption DEF V1Inv, IndexType
<1>2. QueueAt(lv, SymbolOf[r], index[r].side, index[r].price) \in Seq(Entry)
    BY <1>1, QueueType DEF V1Inv
<1> QED BY <1>1, <1>2 DEF QueueOf

\* SharesOf reads the shares of the one entry of an order.
LEMMA SharesAre ==
  ASSUME NEW lv, NEW index, V1Inv(lv, index), NEW r, NEW n, HasLive(lv, index, r, n)
  PROVE  V1!SharesOf(lv, index, r) = n /\ n \in Uint
<1>1. r \in DOMAIN index /\ Has(QueueOf(lv, index, r), r, n)
    BY DEF HasLive
<1>2. PICK k \in DOMAIN QueueOf(lv, index, r) :
        QueueOf(lv, index, r)[k] = [ref |-> r, shares |-> n]
    BY <1>1 DEF Has
<1>3. /\ Place(lv, index, r) \in DOMAIN QueueOf(lv, index, r)
      /\ QueueOf(lv, index, r)[Place(lv, index, r)].ref = r
      /\ V1!SharesOf(lv, index, r) = QueueOf(lv, index, r)[Place(lv, index, r)].shares
      /\ Filed(index, SymbolOf[r], index[r].side, index[r].price, QueueOf(lv, index, r))
      /\ QueueOf(lv, index, r) \in Seq(Entry)
    BY <1>1, LocatorFinds
<1>4. k = Place(lv, index, r)
    BY <1>2, <1>3 DEF Filed
<1>5. QueueOf(lv, index, r)[k] \in Entry
    BY <1>2, <1>3
<1> QED BY <1>2, <1>3, <1>4, <1>5 DEF Entry

\* A live order has some shares.
LEMMA LiveHas ==
  ASSUME NEW lv, NEW index, V1Inv(lv, index), NEW r \in DOMAIN index
  PROVE  HasLive(lv, index, r, V1!SharesOf(lv, index, r))
<1>1. /\ Place(lv, index, r) \in DOMAIN QueueOf(lv, index, r)
      /\ QueueOf(lv, index, r)[Place(lv, index, r)].ref = r
      /\ V1!SharesOf(lv, index, r) = QueueOf(lv, index, r)[Place(lv, index, r)].shares
      /\ QueueOf(lv, index, r) \in Seq(Entry)
    BY LocatorFinds
<1>2. QueueOf(lv, index, r)[Place(lv, index, r)] \in Entry
    BY <1>1
<1>3. QueueOf(lv, index, r)[Place(lv, index, r)] = [ref |-> r, shares |-> V1!SharesOf(lv, index, r)]
    BY <1>1, <1>2 DEF Entry
<1> QED BY <1>1, <1>3 DEF HasLive, Has

\* push_back and the new locator.
LEMMA PushEntries ==
  ASSUME NEW lv, NEW index, V1Inv(lv, index), NEW r \in Ref, r \notin DOMAIN index,
         NEW side \in Side, NEW price \in Price, NEW n \in Uint
  PROVE  LET lv2 == V1!PushBack(lv, r, side, price, n)
             index2 == V1!Indexed(index, r, side, price)
         IN  /\ DOMAIN index2 = DOMAIN index \cup {r}
             /\ index2[r] = [side |-> side, price |-> price]
             /\ HasLive(lv2, index2, r, n)
             /\ Others(lv, index, lv2, index2, r)
<1> DEFINE lv2 == V1!PushBack(lv, r, side, price, n)
           index2 == V1!Indexed(index, r, side, price)
           sym == SymbolOf[r]
           order == [ref |-> r, shares |-> n]
           old == QueueAt(lv, sym, side, price)
           q == Append(old, order)
<1>1. /\ DOMAIN index2 = DOMAIN index \cup {r}
      /\ index2[r] = [side |-> side, price |-> price]
      /\ \A x \in DOMAIN index : index2[x] = index[x]
    BY DEF V1!Indexed
<1>2. QueueBecomes(lv2, lv, sym, side, price, q)
    BY PushBackQueues DEF V1Inv
<1>3. sym \in Symbol /\ old \in Seq(Entry)
    BY BooksAssumption, QueueType DEF V1Inv
<1> HIDE DEF lv2, index2, sym, old
<1>4. /\ Has(q, r, n)
      /\ \A x, m : Has(old, x, m) => Has(q, x, m)
  <2> DEFINE l == Len(old)
  <2>1. l \in Nat /\ DOMAIN old = 1 .. l /\ DOMAIN q = 1 .. l + 1
      BY <1>3
  <2>2. q[l + 1] = order /\ \A k \in 1 .. l : q[k] = old[k]
      BY <1>3
  <2> HIDE DEF l, q
  <2>3. l + 1 \in DOMAIN q /\ 1 .. l \subseteq DOMAIN q
      BY <2>1
  <2> QED BY <2>1, <2>2, <2>3 DEF Has
<1> HIDE DEF q
<1>5. QueueOf(lv2, index2, r) = q
    BY <1>1, <1>2, <1>3 DEF QueueOf, QueueBecomes, sym
<1>6. HasLive(lv2, index2, r, n)
    BY <1>1, <1>4, <1>5 DEF HasLive
<1>7. ASSUME NEW x \in DOMAIN index, NEW m, HasLive(lv, index, x, m)
      PROVE  HasLive(lv2, index2, x, m)
  <2>1. /\ SymbolOf[x] \in Symbol /\ index[x].side \in Side /\ index[x].price \in Price
        /\ QueueOf(lv, index, x) = QueueAt(lv, SymbolOf[x], index[x].side, index[x].price)
      BY QueueOfType
  <2>2. QueueOf(lv2, index2, x) = QueueAt(lv2, SymbolOf[x], index[x].side, index[x].price)
      BY <1>1 DEF QueueOf
  <2>3. \/ QueueOf(lv2, index2, x) = q /\ QueueOf(lv, index, x) = old
        \/ QueueOf(lv2, index2, x) = QueueOf(lv, index, x)
      BY <1>2, <2>1, <2>2 DEF QueueBecomes, old
  <2>4. Has(QueueOf(lv2, index2, x), x, m)
      BY <1>4, <1>7, <2>3 DEF HasLive
  <2> QED BY <1>1, <2>4 DEF HasLive
<1>8. Others(lv, index, lv2, index2, r)
    BY <1>1, <1>7 DEF Others
<1> QED BY <1>1, <1>6, <1>8 DEF lv2, index2

\* remove_locator and the erased locator.
LEMMA RemoveEntries ==
  ASSUME NEW lv, NEW index, V1Inv(lv, index), NEW r \in DOMAIN index
  PROVE  /\ DOMAIN V1!Unindexed(index, r) = DOMAIN index \ {r}
         /\ Others(lv, index, V1!RemoveLocator(lv, index, r), V1!Unindexed(index, r), r)
<1> DEFINE lv2 == V1!RemoveLocator(lv, index, r)
           index2 == V1!Unindexed(index, r)
           sym == SymbolOf[r]
           side == index[r].side
           price == index[r].price
           old == QueueOf(lv, index, r)
           k0 == Place(lv, index, r)
           q == Shorter(old, k0)
<1>1. /\ DOMAIN index2 = DOMAIN index \ {r}
      /\ \A x \in DOMAIN index \ {r} : index2[x] = index[x]
    BY RemoveKeeps
<1>2. QueueBecomes(lv2, lv, sym, side, price, q)
    BY RemoveLocatorQueues
<1>3. /\ old \in Seq(Entry) /\ k0 \in DOMAIN old /\ old[k0].ref = r
      /\ old = QueueAt(lv, sym, side, price)
    BY LocatorFinds DEF QueueOf
<1> HIDE DEF lv2, index2, sym, side, price, old, k0
<1>4. ASSUME NEW x, x # r, NEW m, Has(old, x, m) PROVE Has(q, x, m)
  <2>1. PICK k \in DOMAIN old : old[k] = [ref |-> x, shares |-> m]
      BY <1>4 DEF Has
  <2>2. k # k0
      BY <1>3, <1>4, <2>1
  <2>3. /\ DOMAIN q = 1 .. Len(old) - 1 /\ Len(old) \in Nat /\ DOMAIN old = 1 .. Len(old)
        /\ \A j \in 1 .. Len(old) - 1 : q[j] = IF j < k0 THEN old[j] ELSE old[j + 1]
    <3>1. Len(old) \in Nat /\ DOMAIN old = 1 .. Len(old)
        BY <1>3
    <3>2. /\ DOMAIN q = 1 .. Len(old) - 1
          /\ \A j \in 1 .. Len(old) - 1 : q[j] = IF j < k0 THEN old[j] ELSE old[j + 1]
        BY <1>3, ShorterSeq
    <3> QED BY <3>1, <3>2
  <2> HIDE DEF q
  <2>4. CASE k < k0
    <3>1. k \in 1 .. Len(old) - 1
        BY <1>3, <2>3, <2>4
    <3> QED BY <2>1, <2>3, <2>4, <3>1 DEF Has
  <2>5. CASE k > k0
    <3>1. k - 1 \in 1 .. Len(old) - 1 /\ ~(k - 1 < k0) /\ (k - 1) + 1 = k
        BY <1>3, <2>3, <2>5
    <3>2. q[k - 1] = old[k]
        BY <2>3, <3>1
    <3> QED BY <2>1, <2>3, <3>1, <3>2 DEF Has
  <2> QED BY <1>3, <2>2, <2>3, <2>4, <2>5
<1> HIDE DEF q
<1>5. ASSUME NEW x \in DOMAIN index, x # r, NEW m, HasLive(lv, index, x, m)
      PROVE  HasLive(lv2, index2, x, m)
  <2>1. /\ SymbolOf[x] \in Symbol /\ index[x].side \in Side /\ index[x].price \in Price
        /\ QueueOf(lv, index, x)
             = QueueAt(lv, SymbolOf[x], index[x].side, index[x].price)
      BY QueueOfType
  <2>2. QueueOf(lv2, index2, x)
          = QueueAt(lv2, SymbolOf[x], index[x].side, index[x].price)
      BY <1>1, <1>5 DEF QueueOf
  <2>3. \/ QueueOf(lv2, index2, x) = q /\ QueueOf(lv, index, x) = old
        \/ QueueOf(lv2, index2, x) = QueueOf(lv, index, x)
      BY <1>2, <1>3, <2>1, <2>2 DEF QueueBecomes
  <2>4. Has(QueueOf(lv2, index2, x), x, m)
      BY <1>4, <1>5, <2>3 DEF HasLive
  <2> QED BY <1>1, <1>5, <2>4 DEF HasLive
<1>6. Others(lv, index, lv2, index2, r)
    BY <1>1, <1>5 DEF Others
<1> QED BY <1>1, <1>6 DEF lv2, index2

\* A partial execution.
LEMMA SetEntries ==
  ASSUME NEW lv, NEW index, V1Inv(lv, index), NEW r \in DOMAIN index, NEW n \in Uint
  PROVE  /\ HasLive(V1!SetShares(lv, index, r, n), index, r, n)
         /\ Others(lv, index, V1!SetShares(lv, index, r, n), index, r)
<1> DEFINE lv2 == V1!SetShares(lv, index, r, n)
           sym == SymbolOf[r]
           side == index[r].side
           price == index[r].price
           old == QueueOf(lv, index, r)
           k0 == Place(lv, index, r)
           q == WithShares(old, k0, n)
<1>1. QueueBecomes(lv2, lv, sym, side, price, q)
    BY SetSharesQueues
<1>2. /\ old \in Seq(Entry) /\ k0 \in DOMAIN old /\ old[k0].ref = r
      /\ old = QueueAt(lv, sym, side, price)
      /\ sym \in Symbol /\ side \in Side /\ price \in Price
    BY LocatorFinds DEF QueueOf
<1>3. /\ DOMAIN q = DOMAIN old
      /\ \A k \in DOMAIN old : q[k] = IF k = k0 THEN [ref |-> old[k].ref, shares |-> n]
                                      ELSE old[k]
    BY <1>2, SharesSet
<1> HIDE DEF lv2, old, k0, q
<1>4. Has(q, r, n) /\ \A x, m : x # r /\ Has(old, x, m) => Has(q, x, m)
  <2>1. q[k0] = [ref |-> r, shares |-> n]
      BY <1>2, <1>3
  <2>2. ASSUME NEW x, NEW m, x # r, Has(old, x, m) PROVE Has(q, x, m)
    <3>1. PICK k \in DOMAIN old : old[k] = [ref |-> x, shares |-> m]
        BY <2>2 DEF Has
    <3>2. k # k0
        BY <1>2, <2>2, <3>1
    <3> QED BY <1>3, <3>1, <3>2 DEF Has
  <2> QED BY <1>2, <1>3, <2>1, <2>2 DEF Has
<1>5. HasLive(lv2, index, r, n)
  <2>1. QueueOf(lv2, index, r) = q
      BY <1>1, <1>2 DEF QueueOf, QueueBecomes
  <2> QED BY <1>4, <2>1 DEF HasLive
<1> HIDE DEF sym, side, price
<1>6. ASSUME NEW x \in DOMAIN index, x # r, NEW m, HasLive(lv, index, x, m)
      PROVE  HasLive(lv2, index, x, m)
  <2>1. /\ SymbolOf[x] \in Symbol /\ index[x].side \in Side /\ index[x].price \in Price
        /\ QueueOf(lv, index, x)
             = QueueAt(lv, SymbolOf[x], index[x].side, index[x].price)
      BY QueueOfType
  <2>2. QueueOf(lv2, index, x)
          = QueueAt(lv2, SymbolOf[x], index[x].side, index[x].price)
      BY DEF QueueOf
  <2>3. \/ QueueOf(lv2, index, x) = q /\ QueueOf(lv, index, x) = old
        \/ QueueOf(lv2, index, x) = QueueOf(lv, index, x)
      BY <1>1, <1>2, <2>1, <2>2 DEF QueueBecomes
  <2>4. Has(QueueOf(lv2, index, x), x, m)
      BY <1>4, <1>6, <2>3 DEF HasLive
  <2> QED BY <1>6, <2>4 DEF HasLive
<1>7. Others(lv, index, lv2, index, r)
    BY <1>6 DEF Others
<1> QED BY <1>5, <1>7 DEF lv2

-----------------------------------------------------------------------------
(* Both books together. *)

\* An order that v3 knows is live in v1, with the shares of its slot, and its
\* level stands for the side and price of its locator.
Agrees(sl, rf, bk, lv, index) == \A r \in Ref : rf[r] # kNullIdx =>
  /\ HasLive(lv, index, r, sl[rf[r]].qty)
  /\ LevelIs(bk[SymbolOf[r]], sl[rf[r]].level_idx, index[r].side, index[r].price)

\* v1's orders may change where v3 knows nothing of them.
LEMMA AgreesOthers ==
  ASSUME NEW sl, NEW rf, NEW bk, NEW lv, NEW index, Agrees(sl, rf, bk, lv, index),
         NEW r, r \in Ref => rf[r] = kNullIdx,
         NEW lv2, NEW index2, Others(lv, index, lv2, index2, r)
  PROVE  Agrees(sl, rf, bk, lv2, index2)
BY DEF Agrees, Others, HasLive

\* Both books add order r.
LEMMA AgreesAdded ==
  ASSUME NEW sl, NEW head, NEW rf, NEW bk, NEW L, NEW F, Rep(sl, head, rf, bk, L, F),
         NEW lv, NEW index, Agrees(sl, rf, bk, lv, index),
         NEW r \in Ref, rf[r] = kNullIdx, head # kNullIdx,
         NEW side, NEW price, NEW n, NEW sl2, NEW bk2, NEW L2,
         Added(sl, bk, L, sl2, bk2, L2, SymbolOf[r], head, side, price, n),
         NEW rf2, rf2 = [rf EXCEPT ![r] = head],
         NEW lv2, NEW index2, HasLive(lv2, index2, r, n),
         index2[r] = [side |-> side, price |-> price],
         Others(lv, index, lv2, index2, r)
  PROVE  Agrees(sl2, rf2, bk2, lv2, index2)
<1>1. PICK level \in Nat :
        /\ sl2[head].qty = n /\ sl2[head].level_idx = level
        /\ \A t \in Slot \ {head} : sl2[t].qty = sl[t].qty /\ sl2[t].level_idx = sl[t].level_idx
        /\ LevelIs(bk2[SymbolOf[r]], level, side, price)
        /\ \A x, d, p : LevelIs(bk[SymbolOf[r]], x, d, p) => LevelIs(bk2[SymbolOf[r]], x, d, p)
        /\ \A y \in Symbol \ {SymbolOf[r]} : bk2[y] = bk[y]
    BY DEF Added
<1>2. /\ rf \in [Ref -> Link] /\ FreeList(sl, head, F) /\ Listed(sl, rf, L, F)
    BY DEF Rep
<1>3. head \in Slot /\ head \in Range(F)
    BY <1>2, FreePop
<1>4. rf2[r] = head /\ \A x \in Ref : x # r => rf2[x] = rf[x]
    BY <1>2
<1> SUFFICES ASSUME NEW x \in Ref, rf2[x] # kNullIdx
             PROVE  /\ HasLive(lv2, index2, x, sl2[rf2[x]].qty)
                    /\ LevelIs(bk2[SymbolOf[x]], sl2[rf2[x]].level_idx,
                               index2[x].side, index2[x].price)
    BY DEF Agrees
<1>5. CASE x = r
    BY <1>1, <1>4, <1>5
<1>6. CASE x # r
  <2>1. rf2[x] = rf[x] /\ rf[x] # kNullIdx /\ SymbolOf[x] \in Symbol
      BY <1>4, <1>6, BooksAssumption
  <2>2. rf[x] \in Slot \ {head}
      BY <1>2, <1>3, <2>1 DEF Listed, Link
  <2>3. /\ HasLive(lv, index, x, sl[rf[x]].qty)
        /\ LevelIs(bk[SymbolOf[x]], sl[rf[x]].level_idx, index[x].side, index[x].price)
      BY <2>1 DEF Agrees
  <2>4. HasLive(lv2, index2, x, sl[rf[x]].qty) /\ index2[x] = index[x]
      BY <1>6, <2>3 DEF Others, HasLive
  <2>5. LevelIs(bk2[SymbolOf[x]], sl[rf[x]].level_idx, index[x].side, index[x].price)
      BY <1>1, <2>1, <2>3
  <2> QED BY <1>1, <2>1, <2>2, <2>4, <2>5
<1> QED BY <1>5, <1>6

\* Both books lose order r.
LEMMA AgreesRemoved ==
  ASSUME NEW sl, NEW head, NEW rf, NEW bk, NEW L, NEW F, Rep(sl, head, rf, bk, L, F),
         NEW lv, NEW index, Agrees(sl, rf, bk, lv, index),
         NEW r \in Ref, rf[r] # kNullIdx, NEW sl2, NEW bk2, NEW L2,
         Removed(sl, bk, L, sl2, bk2, L2, SymbolOf[r], rf[r]),
         NEW rf2, rf2 = [rf EXCEPT ![r] = kNullIdx],
         NEW lv2, NEW index2, Others(lv, index, lv2, index2, r)
  PROVE  Agrees(sl2, rf2, bk2, lv2, index2)
<1>1. /\ \A t \in Slot \ {rf[r]} : sl2[t].qty = sl[t].qty /\ sl2[t].level_idx = sl[t].level_idx
      /\ \A x, d, p : LevelIs(bk2[SymbolOf[r]], x, d, p) <=> LevelIs(bk[SymbolOf[r]], x, d, p)
      /\ \A y \in Symbol \ {SymbolOf[r]} : bk2[y] = bk[y]
    BY DEF Removed
<1>2. rf \in [Ref -> Link] /\ Injective(rf)
    BY DEF Rep
<1>3. rf2[r] = kNullIdx /\ \A x \in Ref : x # r => rf2[x] = rf[x]
    BY <1>2
<1> SUFFICES ASSUME NEW x \in Ref, rf2[x] # kNullIdx
             PROVE  /\ HasLive(lv2, index2, x, sl2[rf2[x]].qty)
                    /\ LevelIs(bk2[SymbolOf[x]], sl2[rf2[x]].level_idx,
                               index2[x].side, index2[x].price)
    BY DEF Agrees
<1>4. x # r /\ rf2[x] = rf[x] /\ rf[x] # kNullIdx /\ SymbolOf[x] \in Symbol
    BY <1>3, BooksAssumption
<1>5. rf[x] \in Slot \ {rf[r]}
    BY <1>2, <1>4 DEF Injective, Link
<1>6. /\ HasLive(lv, index, x, sl[rf[x]].qty)
      /\ LevelIs(bk[SymbolOf[x]], sl[rf[x]].level_idx, index[x].side, index[x].price)
    BY <1>4 DEF Agrees
<1>7. HasLive(lv2, index2, x, sl[rf[x]].qty) /\ index2[x] = index[x]
    BY <1>4, <1>6 DEF Others, HasLive
<1>8. LevelIs(bk2[SymbolOf[x]], sl[rf[x]].level_idx, index[x].side, index[x].price)
    BY <1>1, <1>4, <1>6
<1> QED BY <1>1, <1>4, <1>5, <1>7, <1>8

\* Both books take n shares from order r.
LEMMA AgreesReduced ==
  ASSUME NEW sl, NEW head, NEW rf, NEW bk, NEW L, NEW F, Rep(sl, head, rf, bk, L, F),
         NEW lv, NEW index, Agrees(sl, rf, bk, lv, index),
         NEW r \in Ref, rf[r] # kNullIdx, NEW n, NEW sl2, NEW bk2,
         Reduced(sl, bk, sl2, bk2, SymbolOf[r], rf[r], n),
         NEW lv2, HasLive(lv2, index, r, sl[rf[r]].qty - n),
         Others(lv, index, lv2, index, r)
  PROVE  Agrees(sl2, rf, bk2, lv2, index)
<1>1. /\ sl2[rf[r]].qty = sl[rf[r]].qty - n
      /\ \A t \in Slot : /\ sl2[t].level_idx = sl[t].level_idx
                         /\ t # rf[r] => sl2[t].qty = sl[t].qty
      /\ \A x, d, p : LevelIs(bk2[SymbolOf[r]], x, d, p) <=> LevelIs(bk[SymbolOf[r]], x, d, p)
      /\ \A y \in Symbol \ {SymbolOf[r]} : bk2[y] = bk[y]
    BY DEF Reduced
<1>2. rf \in [Ref -> Link] /\ Injective(rf)
    BY DEF Rep
<1> SUFFICES ASSUME NEW x \in Ref, rf[x] # kNullIdx
             PROVE  /\ HasLive(lv2, index, x, sl2[rf[x]].qty)
                    /\ LevelIs(bk2[SymbolOf[x]], sl2[rf[x]].level_idx,
                               index[x].side, index[x].price)
    BY DEF Agrees
<1>3. rf[x] \in Slot /\ SymbolOf[x] \in Symbol
    BY <1>2, BooksAssumption DEF Link
<1>4. /\ HasLive(lv, index, x, sl[rf[x]].qty)
      /\ LevelIs(bk[SymbolOf[x]], sl[rf[x]].level_idx, index[x].side, index[x].price)
    BY DEF Agrees
<1>5. LevelIs(bk2[SymbolOf[x]], sl2[rf[x]].level_idx, index[x].side, index[x].price)
    BY <1>1, <1>3, <1>4
<1>6. CASE x = r
    BY <1>1, <1>5, <1>6
<1>7. CASE x # r
  <2>1. sl2[rf[x]].qty = sl[rf[x]].qty
      BY <1>1, <1>2, <1>3, <1>7 DEF Injective
  <2>2. HasLive(lv2, index, x, sl[rf[x]].qty)
      BY <1>4, <1>7 DEF Others, HasLive
  <2> QED BY <1>5, <2>1, <2>2
<1> QED BY <1>6, <1>7

\* Slot s is somewhere ahead of slot t.
Precedes(q, s, t) == \E j, k \in DOMAIN q : j < k /\ q[j] = s /\ q[k] = t

\* Levels keep what they stand for, orders that stay keep their order, and an
\* order that comes is ahead of none.
Kept(rf, bk, L, rf2, bk2, L2) ==
  /\ \A y \in Symbol : \A x, d, p : LevelIs(bk[y], x, d, p) => LevelIs(bk2[y], x, d, p)
  /\ \A y \in Symbol, x \in Nat, a \in Ref, b \in Ref :
       Precedes(L[y][x], rf[a], rf[b]) /\ rf2[a] # kNullIdx /\ rf2[b] # kNullIdx
         => Precedes(L2[y][x], rf2[a], rf2[b])
  /\ \A y \in Symbol, x \in Nat, a \in Ref, b \in Ref :
       rf[b] = kNullIdx /\ rf2[b] # kNullIdx => ~Precedes(L2[y][x], rf2[b], rf2[a])

\* A step that changes nothing keeps every order.
LEMMA KeptSame ==
  ASSUME NEW rf, NEW bk, NEW L
  PROVE  Kept(rf, bk, L, rf, bk, L)
BY DEF Kept

\* A partial execution or cancel moves no order.
LEMMA KeptReduced ==
  ASSUME NEW rf, NEW sl, NEW bk, NEW L, NEW sl2, NEW bk2, NEW sym \in Symbol, NEW s, NEW n,
         Reduced(sl, bk, sl2, bk2, sym, s, n)
  PROVE  Kept(rf, bk, L, rf, bk2, L)
<1>1. \A x, d, p : LevelIs(bk2[sym], x, d, p) <=> LevelIs(bk[sym], x, d, p)
    BY DEF Reduced
<1>2. \A y \in Symbol \ {sym} : bk2[y] = bk[y]
    BY DEF Reduced
<1>3. \A y \in Symbol : \A x, d, p : LevelIs(bk[y], x, d, p) => LevelIs(bk2[y], x, d, p)
    BY <1>1, <1>2
<1> QED BY <1>3 DEF Kept

\* An order that comes last overtakes nothing.
LEMMA KeptAdded ==
  ASSUME NEW sl, NEW head, NEW rf, NEW bk, NEW L, NEW F, Rep(sl, head, rf, bk, L, F),
         NEW r \in Ref, rf[r] = kNullIdx, head # kNullIdx,
         NEW side, NEW price, NEW n, NEW sl2, NEW bk2, NEW L2,
         Added(sl, bk, L, sl2, bk2, L2, SymbolOf[r], head, side, price, n),
         NEW rf2, rf2 = [rf EXCEPT ![r] = head]
  PROVE  Kept(rf, bk, L, rf2, bk2, L2)
<1> DEFINE sym == SymbolOf[r]
           s == head
<1>1. PICK level \in Nat : /\ ListBecomes(L2, L, sym, level, Append(L[sym][level], s))
                           /\ \A x, d, p : LevelIs(bk[sym], x, d, p) => LevelIs(bk2[sym], x, d, p)
                           /\ \A y \in Symbol \ {sym} : bk2[y] = bk[y]
    BY DEF Added
<1>2. rf \in [Ref -> Link] /\ L \in LevelLists /\ sym \in Symbol
    BY BooksAssumption DEF Rep
<1>3. \A x \in Ref : x # r => rf2[x] = rf[x]
    BY <1>2
<1> HIDE DEF sym
<1>4. \A y \in Symbol : \A x, d, p : LevelIs(bk[y], x, d, p) => LevelIs(bk2[y], x, d, p)
    BY <1>1
<1>5. ASSUME NEW y \in Symbol, NEW x \in Nat, NEW a \in Ref, NEW b \in Ref,
             Precedes(L[y][x], rf[a], rf[b])
      PROVE  Precedes(L2[y][x], rf2[a], rf2[b])
  <2>1. L[y][x] \in Seq(Slot)
      BY <1>2 DEF LevelLists
  <2>2. a # r /\ b # r
      BY <1>5, <2>1, SlotFacts DEF Precedes
  <2>3. L2[y][x] = IF y = sym /\ x = level THEN Append(L[y][x], s) ELSE L[y][x]
      BY <1>1 DEF ListBecomes
  <2> DEFINE q == L[y][x]
  <2>4. PICK j \in DOMAIN q, k \in DOMAIN q : j < k /\ q[j] = rf[a] /\ q[k] = rf[b]
      BY <1>5 DEF Precedes
  <2>5. /\ j \in DOMAIN Append(q, s) /\ k \in DOMAIN Append(q, s)
        /\ Append(q, s)[j] = q[j] /\ Append(q, s)[k] = q[k]
      BY <2>1
  <2> QED BY <1>3, <2>2, <2>3, <2>4, <2>5 DEF Precedes
<1>6. ASSUME NEW y \in Symbol, NEW x \in Nat, NEW a \in Ref, NEW b \in Ref,
             rf[b] = kNullIdx, rf2[b] # kNullIdx, Precedes(L2[y][x], rf2[b], rf2[a])
      PROVE  FALSE
  <2> DEFINE q == L[y][x]
  <2>1. q \in Seq(Slot)
      BY <1>2 DEF LevelLists
  <2>2. rf2[b] = s
      BY <1>2, <1>3, <1>6
  <2>3. FreeList(sl, head, F)
      BY DEF Rep
  <2>4. s \in Slot /\ s \notin Range(q)
      BY <2>3, FreePop, FreeNotListed
  <2>5. L2[y][x] = IF y = sym /\ x = level THEN Append(q, s) ELSE q
      BY <1>1 DEF ListBecomes
  <2> HIDE DEF q
  <2>6. ASSUME NEW j \in DOMAIN q PROVE q[j] # s
      BY <2>4 DEF Range
  <2>7. /\ Len(q) \in Nat /\ DOMAIN q = 1 .. Len(q)
        /\ DOMAIN Append(q, s) = 1 .. Len(q) + 1
        /\ \A j \in 1 .. Len(q) : Append(q, s)[j] = q[j]
      BY <2>1, <2>4
  <2>8. ~Precedes(q, s, rf2[a])
      BY <2>6 DEF Precedes
  <2>9. ~Precedes(Append(q, s), s, rf2[a])
    <3> SUFFICES ASSUME NEW j \in DOMAIN Append(q, s), NEW k \in DOMAIN Append(q, s),
                        j < k, Append(q, s)[j] = s
                 PROVE  FALSE
        BY DEF Precedes
    <3>1. j \in 1 .. Len(q)
        BY <2>7
    <3> QED BY <2>6, <2>7, <3>1
  <2> QED BY <1>6, <2>2, <2>5, <2>8, <2>9
<1> QED BY <1>4, <1>5, <1>6 DEF Kept

\* Nor does an order that leaves let one overtake another.
LEMMA KeptRemoved ==
  ASSUME NEW sl, NEW head, NEW rf, NEW bk, NEW L, NEW F, Rep(sl, head, rf, bk, L, F),
         NEW r \in Ref, rf[r] # kNullIdx, NEW sl2, NEW bk2, NEW L2,
         Removed(sl, bk, L, sl2, bk2, L2, SymbolOf[r], rf[r]),
         NEW rf2, rf2 = [rf EXCEPT ![r] = kNullIdx]
  PROVE  Kept(rf, bk, L, rf2, bk2, L2)
<1> DEFINE sym == SymbolOf[r]
           s == rf[r]
           level == sl[s].level_idx
<1>1. PICK k0 \in DOMAIN L[sym][level] :
        /\ L[sym][level][k0] = s
        /\ ListBecomes(L2, L, sym, level, Shorter(L[sym][level], k0))
        /\ \A x, d, p : LevelIs(bk2[sym], x, d, p) <=> LevelIs(bk[sym], x, d, p)
        /\ \A y \in Symbol \ {sym} : bk2[y] = bk[y]
    BY DEF Removed
<1>2. rf \in [Ref -> Link] /\ L \in LevelLists /\ sym \in Symbol /\ Injective(rf)
    BY BooksAssumption DEF Rep
<1>3. rf2[r] = kNullIdx /\ \A x \in Ref : x # r => rf2[x] = rf[x]
    BY <1>2
<1> HIDE DEF sym, level
<1>4. \A y \in Symbol : \A x, d, p : LevelIs(bk[y], x, d, p) => LevelIs(bk2[y], x, d, p)
    BY <1>1
<1>5. ASSUME NEW y \in Symbol, NEW x \in Nat, NEW a \in Ref, NEW b \in Ref,
             Precedes(L[y][x], rf[a], rf[b]), rf2[a] # kNullIdx, rf2[b] # kNullIdx
      PROVE  Precedes(L2[y][x], rf2[a], rf2[b])
  <2>1. L[y][x] \in Seq(Slot)
      BY <1>2 DEF LevelLists
  <2>2. /\ a # r /\ b # r /\ rf2[a] = rf[a] /\ rf2[b] = rf[b]
        /\ rf[a] # s /\ rf[b] # s
      BY <1>2, <1>3, <1>5 DEF Injective
  <2>3. L2[y][x] = IF y = sym /\ x = level THEN Shorter(L[y][x], k0) ELSE L[y][x]
      BY <1>1 DEF ListBecomes
  <2> DEFINE q == L[y][x]
  <2>4. CASE y = sym /\ x = level
    <3>1. PICK j \in DOMAIN q, k \in DOMAIN q : j < k /\ q[j] = rf[a] /\ q[k] = rf[b]
        BY <1>5 DEF Precedes
    <3>2. k0 \in DOMAIN q /\ q[k0] = s
        BY <1>1, <2>4
    <3> DEFINE rest == Shorter(q, k0)
               n == Len(q)
               to(i) == IF i < k0 THEN i ELSE i - 1
    <3>3. n \in Nat /\ DOMAIN q = 1 .. n
        BY <2>1
    <3>4. /\ DOMAIN rest = 1 .. n - 1
          /\ \A i \in 1 .. n - 1 : rest[i] = IF i < k0 THEN q[i] ELSE q[i + 1]
        BY <2>1, <3>2, ShorterSeq
    <3>5. j # k0 /\ k # k0
        BY <2>2, <3>1, <3>2
    <3> HIDE DEF q, rest, n
    <3>6. to(j) \in 1 .. n - 1 /\ to(k) \in 1 .. n - 1 /\ to(j) < to(k)
        BY <3>1, <3>2, <3>3, <3>5
    <3>7. rest[to(j)] = q[j] /\ rest[to(k)] = q[k]
        BY <3>1, <3>2, <3>3, <3>4, <3>5, <3>6
    <3>8. Precedes(rest, rf[a], rf[b])
        BY <3>1, <3>4, <3>6, <3>7 DEF Precedes
    <3> QED BY <2>2, <2>3, <2>4, <3>8 DEF rest, q
  <2>5. CASE ~(y = sym /\ x = level)
      BY <1>5, <2>2, <2>3, <2>5
  <2> QED BY <2>4, <2>5
<1>6. \A b \in Ref : rf[b] = kNullIdx => rf2[b] = kNullIdx
    BY <1>3
<1> QED BY <1>4, <1>5, <1>6 DEF Kept

\* Two changes after another.
LEMMA KeptTwice ==
  ASSUME NEW rf, NEW bk, NEW L, L \in LevelLists,
         NEW rf1, NEW bk1, NEW L1, NEW rf2, NEW bk2, NEW L2,
         Kept(rf, bk, L, rf1, bk1, L1), Kept(rf1, bk1, L1, rf2, bk2, L2),
         \A a \in Ref : rf[a] # kNullIdx /\ rf2[a] # kNullIdx => rf1[a] # kNullIdx,
         \A a \in Ref : rf[a] = kNullIdx => rf1[a] = kNullIdx
  PROVE  Kept(rf, bk, L, rf2, bk2, L2)
<1>1. \A y \in Symbol : \A x, d, p : LevelIs(bk[y], x, d, p) => LevelIs(bk2[y], x, d, p)
    BY DEF Kept
<1>2. ASSUME NEW y \in Symbol, NEW x \in Nat, NEW a \in Ref, NEW b \in Ref,
             Precedes(L[y][x], rf[a], rf[b]), rf2[a] # kNullIdx, rf2[b] # kNullIdx
      PROVE  Precedes(L2[y][x], rf2[a], rf2[b])
  <2>1. L[y][x] \in Seq(Slot)
      BY DEF LevelLists
  <2>2. rf[a] # kNullIdx /\ rf[b] # kNullIdx
      BY <1>2, <2>1, SlotFacts DEF Precedes
  <2>3. Precedes(L1[y][x], rf1[a], rf1[b])
      BY <1>2, <2>2 DEF Kept
  <2> QED BY <1>2, <2>2, <2>3 DEF Kept
<1>3. \A y \in Symbol, x \in Nat, a \in Ref, b \in Ref :
        rf[b] = kNullIdx /\ rf2[b] # kNullIdx => ~Precedes(L2[y][x], rf2[b], rf2[a])
    BY DEF Kept
<1> QED BY <1>1, <1>2, <1>3 DEF Kept

-----------------------------------------------------------------------------
(* Every message. *)

\* v3's memory stands for the lists L and the free list F and agrees with v1.
Stands(L, F) == /\ Rep(slots, free_head, refs, books, L, F)
                /\ Agrees(slots, refs, books, v1_levels, v1_index)

\* The three ways in which v3 does not know an order that v1 has: it missed it
\* before, the order came while no slot was free, or it replaces one v3 missed.
\* And v3 does not learn later of an order it missed.
Accounted ==
  /\ \A x \in Ref : x \in DOMAIN v1_index' /\ refs'[x] = kNullIdx =>
       \/ x \in DOMAIN v1_index /\ refs[x] = kNullIdx
       \/ /\ x \notin DOMAIN v1_index /\ free_head = kNullIdx
          /\ DOMAIN v1_index' = DOMAIN v1_index \cup {x}
       \/ /\ x \notin DOMAIN v1_index
          /\ \E y \in Ref : /\ y \in DOMAIN v1_index /\ refs[y] = kNullIdx
                            /\ y \notin DOMAIN v1_index'
  /\ \A x \in Ref : refs[x] = kNullIdx /\ refs'[x] # kNullIdx => x \notin DOMAIN v1_index

\* What a step may do to the lists.
Moves(L) == /\ \E L2, F2 : Stands(L2, F2)' /\ Kept(refs, books, L, refs', books', L2)
            /\ Accounted

\* An order that v1 does not know is unknown to v3.
LEMMA Unknown ==
  ASSUME NEW L, NEW F, Stands(L, F), NEW r \in Ref, ~V1!Live(r)
  PROVE  refs[r] = kNullIdx /\ r \notin DOMAIN v1_index
BY DEF Stands, Agrees, HasLive, V1!Live

\* Nothing happens to v3's memory, and to v1's orders that v3 knows.
LEMMA MovesSame ==
  ASSUME NEW L, NEW F, Stands(L, F), NEW r, r \in Ref => refs[r] = kNullIdx,
         UNCHANGED <<slots, free_head, refs, books>>,
         \/ UNCHANGED <<v1_levels, v1_index>>
         \/ Others(v1_levels, v1_index, v1_levels', v1_index', r),
         \/ DOMAIN v1_index' \subseteq DOMAIN v1_index
         \/ /\ free_head = kNullIdx /\ r \notin DOMAIN v1_index
            /\ DOMAIN v1_index' = DOMAIN v1_index \cup {r}
  PROVE  Moves(L)
<1>1. Rep(slots', free_head', refs', books', L, F)
    BY DEF Stands
<1>2. Agrees(slots, refs, books, v1_levels, v1_index)
    BY DEF Stands
<1>3. Agrees(slots', refs', books', v1_levels', v1_index')
  <2>1. CASE UNCHANGED <<v1_levels, v1_index>>
      BY <1>2, <2>1
  <2>2. CASE Others(v1_levels, v1_index, v1_levels', v1_index', r)
    <3>1. Agrees(slots, refs, books, v1_levels', v1_index')
        BY <1>2, <2>2, AgreesOthers
    <3> QED BY <3>1
  <2> QED BY <2>1, <2>2
<1>4. Kept(refs, books, L, refs', books', L)
    BY KeptSame
<1>5. Accounted
    BY DEF Accounted
<1> QED BY <1>1, <1>3, <1>4, <1>5 DEF Moves, Stands

\* An add: both books take the order, or v3 has no slot for it.
LEMMA AddMoves ==
  ASSUME V1Inv(v1_levels, v1_index), NEW L, NEW F, Stands(L, F),
         NEW r \in Ref, NEW q \in Quotes, Add(r, q),
         V1Inv(v1_levels, v1_index)', TableRoom'
  PROVE  Moves(L)
<1>1. q.side \in Side /\ q.price \in Price /\ q.shares \in Uint /\ q.shares \in Nat
    BY BooksAssumption DEF Side, Uint
<1>2. /\ V1!AddOrder(r, q.side, q.price, q.shares)
      /\ V3!AddOrder(r, q.side, q.price, q.shares)
      /\ refs[r] = kNullIdx /\ r \notin DOMAIN v1_index
    BY Unknown DEF Add
<1>3. /\ DOMAIN v1_index' = DOMAIN v1_index \cup {r}
      /\ v1_index'[r] = [side |-> q.side, price |-> q.price]
      /\ HasLive(v1_levels', v1_index', r, q.shares)
      /\ Others(v1_levels, v1_index, v1_levels', v1_index', r)
  <2> DEFINE lv == V1!PushBack(v1_levels, r, q.side, q.price, q.shares)
             index == V1!Indexed(v1_index, r, q.side, q.price)
  <2>1. /\ DOMAIN index = DOMAIN v1_index \cup {r}
        /\ index[r] = [side |-> q.side, price |-> q.price]
        /\ HasLive(lv, index, r, q.shares)
        /\ Others(v1_levels, v1_index, lv, index, r)
      BY <1>1, <1>2, PushEntries
  <2>2. v1_levels' = lv /\ v1_index' = index
      BY <1>2 DEF V1!AddOrder
  <2> HIDE DEF lv, index
  <2> QED BY <2>1, <2>2
<1>4. CASE free_head = kNullIdx
  <2>1. UNCHANGED <<slots, free_head, refs, books>>
      BY <1>2, <1>4, DropStep
  <2> QED BY <1>2, <1>3, <1>4, <2>1, MovesSame
<1>5. CASE free_head # kNullIdx
  <2>1. Rep(slots, free_head, refs, books, L, F)
      BY DEF Stands
  <2>2. /\ IsFiniteSet(DOMAIN v1_index') /\ r \in DOMAIN v1_index'
        /\ \A x \in Ref : refs[x] # kNullIdx => x \in DOMAIN v1_index'
        /\ Roomy(Cardinality(DOMAIN v1_index'))
      BY <1>3 DEF V1Inv, IndexType, Stands, Agrees, HasLive, TableRoom
  <2>3. ~V3!Table!Saturated(refs)
      BY <1>2, <1>5, <2>1, <2>2, RoomFor
  <2>4. PICK L2, F2 :
          /\ Rep(slots', free_head', refs', books', L2, F2)
          /\ refs' = [refs EXCEPT ![r] = free_head] /\ free_head \in Slot
          /\ Added(slots, books, L, slots', books', L2, SymbolOf[r], free_head,
                   q.side, q.price, q.shares)
      BY <1>1, <1>2, <1>5, <2>1, <2>3, AddStep
  <2>5. Agrees(slots', refs', books', v1_levels', v1_index')
      BY <1>2, <1>3, <1>5, <2>1, <2>4, AgreesAdded DEF Stands
  <2>6. Kept(refs, books, L, refs', books', L2)
      BY <1>2, <1>5, <2>1, <2>4, KeptAdded
  <2>7. \A x \in Ref : refs'[x] = IF x = r THEN free_head ELSE refs[x]
    <3>1. refs \in [Ref -> Link]
        BY <2>1 DEF Rep
    <3> QED BY <2>4, <3>1
  <2>8. Accounted
      BY <1>2, <1>3, <1>5, <2>7 DEF Accounted
  <2> QED BY <2>4, <2>5, <2>6, <2>8 DEF Moves, Stands
<1> QED BY <1>4, <1>5

\* An order goes from both books.
LEMMA GoneMoves ==
  ASSUME V1Inv(v1_levels, v1_index), NEW L, NEW F, Stands(L, F),
         NEW r \in DOMAIN v1_index, r \in Ref, V1!Leave(r),
         refs[r] # kNullIdx, V3!Becomes(V3!Gone(V3!Memory, r))
  PROVE  Moves(L)
<1>1. Rep(slots, free_head, refs, books, L, F)
    BY DEF Stands
<1>2. PICK L2, F2 :
        /\ Rep(slots', free_head', refs', books', L2, F2)
        /\ refs' = [refs EXCEPT ![r] = kNullIdx] /\ refs[r] \in Slot
        /\ Removed(slots, books, L, slots', books', L2, SymbolOf[r], refs[r])
    BY <1>1, GoneStep
<1>3. Others(v1_levels, v1_index, v1_levels', v1_index', r)
    BY RemoveEntries DEF V1!Leave
<1>4. Agrees(slots', refs', books', v1_levels', v1_index')
    BY <1>1, <1>2, <1>3, AgreesRemoved DEF Stands
<1>5. Kept(refs, books, L, refs', books', L2)
    BY <1>1, <1>2, KeptRemoved
<1>6. DOMAIN v1_index' = DOMAIN v1_index \ {r}
    BY RemoveEntries DEF V1!Leave
<1>7. \A x \in Ref : refs'[x] = IF x = r THEN kNullIdx ELSE refs[x]
  <2>1. refs \in [Ref -> Link]
      BY <1>1 DEF Rep
  <2> QED BY <1>2, <2>1
<1>8. Accounted
    BY <1>6, <1>7 DEF Accounted
<1> QED BY <1>2, <1>4, <1>5, <1>8 DEF Moves, Stands

\* v1 loses an order that v3 never knew.
LEMMA MissedMoves ==
  ASSUME V1Inv(v1_levels, v1_index), NEW L, NEW F, Stands(L, F),
         NEW r \in DOMAIN v1_index, refs[r] = kNullIdx, V1!Leave(r),
         UNCHANGED <<slots, free_head, refs, books>>
  PROVE  Moves(L)
<1>1. /\ Others(v1_levels, v1_index, v1_levels', v1_index', r)
      /\ DOMAIN v1_index' = DOMAIN v1_index \ {r}
    BY RemoveEntries DEF V1!Leave
<1> QED BY <1>1, MovesSame

\* A delete.
LEMMA DeleteMoves ==
  ASSUME V1Inv(v1_levels, v1_index), NEW L, NEW F, Stands(L, F),
         NEW r \in Ref, Delete(r)
  PROVE  Moves(L)
<1>1. V1!DeleteOrder(r) /\ V3!DeleteOrder(r)
    BY DEF Delete
<1>2. CASE ~V1!Live(r)
  <2>1. refs[r] = kNullIdx /\ UNCHANGED <<v1_levels, v1_index>>
      BY <1>1, <1>2, Unknown DEF V1!DeleteOrder, V1!vars
  <2>2. UNCHANGED <<slots, free_head, refs, books>>
      BY <1>1, <2>1, SlotFacts DEF V3!DeleteOrder, V3!Known, V3!vars
  <2> QED BY <2>1, <2>2, MovesSame
<1>3. CASE V1!Live(r)
  <2>1. r \in DOMAIN v1_index /\ V1!Leave(r)
      BY <1>1, <1>3 DEF V1!DeleteOrder, V1!Live
  <2>2. CASE refs[r] = kNullIdx
    <3>1. UNCHANGED <<slots, free_head, refs, books>>
        BY <1>1, <2>2, SlotFacts DEF V3!DeleteOrder, V3!Known, V3!vars
    <3> QED BY <2>1, <2>2, <3>1, MissedMoves
  <2>3. CASE refs[r] # kNullIdx
    <3>1. V3!Becomes(V3!Gone(V3!Memory, r))
        BY <1>1, <2>3, SlotFacts DEF V3!DeleteOrder, V3!Known
    <3> QED BY <2>1, <2>3, <3>1, GoneMoves
  <2> QED BY <2>2, <2>3
<1> QED BY <1>2, <1>3

\* Executions and cancels: v1 and v3 part with an order at the same time.
LEMMA ReduceMoves ==
  ASSUME V1Inv(v1_levels, v1_index), NEW L, NEW F, Stands(L, F),
         NEW r \in Ref, NEW n \in Takeable(r), V1!Reduce(r, n), V3!Reduce(r, n)
  PROVE  Moves(L)
<1>1. CASE ~V1!Live(r)
  <2>1. refs[r] = kNullIdx /\ UNCHANGED <<v1_levels, v1_index>>
      BY <1>1, Unknown DEF V1!Reduce, V1!vars
  <2>2. UNCHANGED <<slots, free_head, refs, books>>
      BY <2>1, SlotFacts DEF V3!Reduce, V3!Known, V3!vars
  <2> QED BY <2>1, <2>2, MovesSame
<1>2. CASE V1!Live(r)
  <2> DEFINE had == V1!SharesOf(v1_levels, v1_index, r)
  <2>1. /\ r \in DOMAIN v1_index /\ HasLive(v1_levels, v1_index, r, had)
        /\ had \in Uint /\ n \in 1 .. had
    <3>1. r \in DOMAIN v1_index
        BY <1>2 DEF V1!Live
    <3>2. HasLive(v1_levels, v1_index, r, had)
        BY <3>1, LiveHas
    <3>3. had \in Uint
        BY <3>2, SharesAre
    <3>4. n \in 1 .. had
        BY <1>2 DEF Takeable
    <3> QED BY <3>1, <3>2, <3>3, <3>4
  <2>2. \/ n = had /\ V1!Leave(r)
        \/ /\ n < had /\ UNCHANGED v1_index
           /\ v1_levels' = V1!SetShares(v1_levels, v1_index, r, had - n)
    <3>1. \/ (had - n) % UintMod = 0 /\ V1!Leave(r)
          \/ /\ (had - n) % UintMod # 0 /\ UNCHANGED v1_index
             /\ v1_levels' = V1!SetShares(v1_levels, v1_index, r, (had - n) % UintMod)
        BY <1>2 DEF V1!Reduce
    <3> HIDE DEF had
    <3>2. had - n \in 0 .. UintMod - 1 /\ UintMod \in Nat /\ UintMod > 0
        BY <2>1, BooksAssumption DEF Uint
    <3>3. (had - n) % UintMod = had - n
      <4>1. \A a, m \in Nat : a < m => a % m = a
          OBVIOUS
      <4>2. had - n \in Nat /\ had - n < UintMod
          BY <3>2
      <4> DEFINE left == had - n
      <4> HIDE DEF left
      <4>3. left % UintMod = left
          BY <3>2, <4>1, <4>2 DEF left
      <4> QED BY <4>3 DEF left
    <3>4. (had - n = 0 => n = had) /\ (had - n # 0 => n < had)
        BY <2>1, BooksAssumption DEF Uint
    <3> DEFINE left == had - n
    <3>5. \/ left = 0 /\ V1!Leave(r)
          \/ /\ left # 0 /\ UNCHANGED v1_index
             /\ v1_levels' = V1!SetShares(v1_levels, v1_index, r, left)
        BY <3>1, <3>3, Zenon
    <3> QED BY <3>4, <3>5
  <2> HIDE DEF had
  <2>3. n \in Nat /\ had \in Nat /\ had - n \in Uint
      BY <2>1, BooksAssumption DEF Uint
  <2>4. CASE refs[r] = kNullIdx
    <3>1. UNCHANGED <<slots, free_head, refs, books>>
        BY <2>4, SlotFacts DEF V3!Reduce, V3!Known, V3!vars
    <3>2. CASE V1!Leave(r)
        BY <2>1, <2>4, <3>1, <3>2, MissedMoves
    <3>3. CASE v1_levels' = V1!SetShares(v1_levels, v1_index, r, had - n) /\ UNCHANGED v1_index
      <4>1. Others(v1_levels, v1_index, v1_levels', v1_index', r)
          BY <2>1, <2>3, <3>3, SetEntries
      <4> QED BY <2>4, <3>1, <3>3, <4>1, MovesSame
    <3> QED BY <2>2, <3>2, <3>3
  <2>5. CASE refs[r] # kNullIdx
    <3>1. slots[refs[r]].qty = had
      <4>1. HasLive(v1_levels, v1_index, r, slots[refs[r]].qty)
          BY <2>5 DEF Stands, Agrees
      <4> QED BY <4>1, SharesAre DEF had
    <3>2. CASE n = had
      <4>1. V1!Leave(r)
          BY <2>2, <2>3, <3>2
      <4>2. V3!Becomes(V3!Gone(V3!Memory, r))
        <5>1. ~(n < slots[refs[r]].qty)
            BY <2>3, <3>1, <3>2
        <5> QED BY <2>5, <5>1, SlotFacts DEF V3!Reduce, V3!Known, V3!Order
      <4> QED BY <2>1, <2>5, <4>1, <4>2, GoneMoves
    <3>3. CASE n # had
      <4>1. /\ n < had /\ n < slots[refs[r]].qty
            /\ v1_levels' = V1!SetShares(v1_levels, v1_index, r, had - n) /\ UNCHANGED v1_index
          BY <2>1, <2>2, <2>3, <3>1, <3>3
      <4>2. /\ Reduces(slots, books, slots', books', SymbolOf[r], refs[r], n)
            /\ UNCHANGED <<free_head, refs>>
        <5>1. ~(n >= slots[refs[r]].qty)
            BY <2>3, <3>1, <4>1
        <5> QED BY <2>5, <5>1, SlotFacts DEF V3!Reduce, V3!Known, V3!Order, Reduces
      <4>3. Rep(slots, free_head, refs, books, L, F)
          BY DEF Stands
      <4>4. /\ Rep(slots', free_head', refs', books', L, F)
            /\ Reduced(slots, books, slots', books', SymbolOf[r], refs[r], n)
            /\ refs[r] \in Slot
          BY <2>3, <2>5, <4>1, <4>2, <4>3, ReduceStep
      <4>5. /\ HasLive(v1_levels', v1_index, r, slots[refs[r]].qty - n)
            /\ Others(v1_levels, v1_index, v1_levels', v1_index, r)
          BY <2>1, <2>3, <3>1, <4>1, SetEntries
      <4>6. Agrees(slots', refs, books', v1_levels', v1_index)
          BY <2>5, <4>3, <4>4, <4>5, AgreesReduced DEF Stands
      <4>7. Agrees(slots', refs', books', v1_levels', v1_index')
          BY <4>1, <4>2, <4>6
      <4>8. Kept(refs, books, L, refs', books', L)
        <5>1. SymbolOf[r] \in Symbol
            BY BooksAssumption
        <5>2. Kept(refs, books, L, refs, books', L)
            BY <4>4, <5>1, KeptReduced
        <5> QED BY <4>2, <5>2
      <4>9. Accounted
          BY <4>1, <4>2 DEF Accounted
      <4> QED BY <4>4, <4>7, <4>8, <4>9 DEF Moves, Stands
    <3> QED BY <3>2, <3>3
  <2> QED BY <2>4, <2>5
<1> QED BY <1>1, <1>2

\* SideOf reads off a level the side it stands for.
LEMMA SideIs ==
  ASSUME NEW b, BookOK(b), NEW level, NEW side \in Side, NEW price, LevelIs(b, level, side, price)
  PROVE  V3!SideOf(b, level) = side
<1>1. kWindow \in Nat /\ kWindow > 0 /\ V3!kAskBase = kWindow
    BY DenseFacts DEF V3!kAskBase
<1>2. b.overflow \in Seq(OverflowRec)
    BY DEF BookOK, BookTyped
<1>3. CASE V3!InWindow(b, price)
  <2> DEFINE offset == price \div Cent - b.base_cents
  <2>1. offset \in 0 .. kWindow - 1
      BY <1>3 DEF V3!InWindow
  <2>2. level = offset + (IF side = "B" THEN 0 ELSE kWindow)
      BY <1>3 DEF LevelIs
  <2> HIDE DEF offset
  <2>3. side = "B" => level < kWindow
      BY <1>1, <2>1, <2>2
  <2>4. side # "B" => ~(level < kWindow) /\ level < 2 * kWindow
      BY <1>1, <2>1, <2>2
  <2> QED BY <1>1, <2>3, <2>4 DEF V3!SideOf, V3!Dense, Side
<1>4. CASE ~V3!InWindow(b, price)
  <2>1. PICK k \in DOMAIN b.overflow : /\ level = 2 * kWindow - 1 + k
                                       /\ b.overflow[k] = [side |-> side, price |-> price]
      BY <1>4 DEF LevelIs
  <2>2. k \in Nat /\ k >= 1
      BY <1>2, <2>1
  <2>3. ~(level < kWindow) /\ ~(level < 2 * kWindow) /\ level - 2 * kWindow + 1 = k
      BY <1>1, <2>1, <2>2
  <2> QED BY <1>1, <2>1, <2>3 DEF V3!SideOf, V3!Dense
<1> QED BY <1>3, <1>4

\* A replace: the order goes, and its slot is there for the new one.
LEMMA ReplaceMoves ==
  ASSUME V1Inv(v1_levels, v1_index), NEW L, NEW F, Stands(L, F),
         NEW r \in Ref, NEW new \in Ref, NEW q \in Quotes, Replace(r, new, q),
         V1Inv(v1_levels, v1_index)', TableRoom'
  PROVE  Moves(L)
<1>1. q.side \in Side /\ q.price \in Price /\ q.shares \in Uint /\ q.shares \in Nat
    BY BooksAssumption DEF Side, Uint
<1>2. /\ V1!ReplaceOrder(r, new, q.price, q.shares)
      /\ V3!ReplaceOrder(r, new, q.price, q.shares)
      /\ refs[new] = kNullIdx /\ new \notin DOMAIN v1_index /\ new # r
    BY Unknown DEF Replace
<1>3. Rep(slots, free_head, refs, books, L, F)
      /\ Agrees(slots, refs, books, v1_levels, v1_index)
    BY DEF Stands
<1>4. CASE ~V1!Live(r)
  <2>1. refs[r] = kNullIdx /\ UNCHANGED <<v1_levels, v1_index>>
      BY <1>2, <1>4, Unknown DEF V1!ReplaceOrder, V1!vars
  <2>2. UNCHANGED <<slots, free_head, refs, books>>
      BY <1>2, <2>1, SlotFacts DEF V3!ReplaceOrder, V3!Known, V3!vars
  <2> QED BY <2>1, <2>2, MovesSame
<1>5. CASE V1!Live(r)
  <2> DEFINE lv1 == V1!RemoveLocator(v1_levels, v1_index, r)
             index1 == V1!Unindexed(v1_index, r)
             side == v1_index[r].side
             price == v1_index[r].price
  <2>1. r \in DOMAIN v1_index
      BY <1>5 DEF V1!Live
  <2>2. /\ V1Inv(lv1, index1) /\ DOMAIN index1 = DOMAIN v1_index \ {r}
        /\ Others(v1_levels, v1_index, lv1, index1, r)
        /\ side \in Side /\ price \in Price
      BY <2>1, RemoveKeeps, RemoveEntries, LocatorFinds
  <2>3. /\ v1_levels' = V1!PushBack(lv1, new, side, q.price, q.shares)
        /\ v1_index' = V1!Indexed(index1, new, side, q.price)
      BY <1>2, <1>5 DEF V1!ReplaceOrder
  <2> HIDE DEF lv1, index1, side, price
  <2>4. /\ DOMAIN v1_index' = (DOMAIN v1_index \ {r}) \cup {new}
        /\ v1_index'[new] = [side |-> side, price |-> q.price]
        /\ HasLive(v1_levels', v1_index', new, q.shares)
        /\ Others(lv1, index1, v1_levels', v1_index', new)
    <3> DEFINE lv2 == V1!PushBack(lv1, new, side, q.price, q.shares)
               index2 == V1!Indexed(index1, new, side, q.price)
    <3>1. new \notin DOMAIN index1
        BY <1>2, <2>2
    <3>2. /\ DOMAIN index2 = DOMAIN index1 \cup {new}
          /\ index2[new] = [side |-> side, price |-> q.price]
          /\ HasLive(lv2, index2, new, q.shares)
          /\ Others(lv1, index1, lv2, index2, new)
        BY <1>1, <2>2, <3>1, PushEntries
    <3>3. v1_levels' = lv2 /\ v1_index' = index2
        BY <2>3
    <3> HIDE DEF lv2, index2
    <3> QED BY <2>2, <3>2, <3>3
  <2>5. CASE refs[r] = kNullIdx
    <3>1. UNCHANGED <<slots, free_head, refs, books>>
        BY <1>2, <2>5, SlotFacts DEF V3!ReplaceOrder, V3!Known, V3!vars
    <3>2. Agrees(slots, refs, books, lv1, index1)
        BY <1>3, <2>2, <2>5, AgreesOthers
    <3>3. Agrees(slots, refs, books, v1_levels', v1_index')
        BY <1>2, <2>4, <3>2, AgreesOthers
    <3>4. Kept(refs, books, L, refs', books', L)
        BY <3>1, KeptSame
    <3>5. Rep(slots', free_head', refs', books', L, F)
        BY <1>3, <3>1
    <3>6. Agrees(slots', refs', books', v1_levels', v1_index')
        BY <3>1, <3>3
    <3>7. Accounted
        BY <1>2, <2>1, <2>4, <2>5, <3>1 DEF Accounted
    <3> QED BY <3>4, <3>5, <3>6, <3>7 DEF Moves, Stands
  <2>6. CASE refs[r] # kNullIdx
    <3>1. V3!SideOf(books[SymbolOf[r]], slots[refs[r]].level_idx) = side
      <4>1. LevelIs(books[SymbolOf[r]], slots[refs[r]].level_idx, side, price)
          BY <1>3, <2>6 DEF Agrees, side, price
      <4>2. BookOK(books[SymbolOf[r]])
          BY <1>3, BooksAssumption DEF Rep, BooksOK
      <4> QED BY <2>2, <4>1, <4>2, SideIs
    <3>2. V3!Becomes(V3!Rest(V3!Gone(V3!Memory, r), new, side, q.price, q.shares))
        BY <1>2, <2>6, <3>1, SlotFacts DEF V3!ReplaceOrder, V3!Known, V3!Order
    <3>3. /\ IsFiniteSet(DOMAIN v1_index') /\ new \in DOMAIN v1_index'
          /\ \A x \in Ref : x # r /\ refs[x] # kNullIdx => x \in DOMAIN v1_index'
          /\ Roomy(Cardinality(DOMAIN v1_index'))
        BY <1>3, <2>4 DEF V1Inv, IndexType, Agrees, HasLive, TableRoom
    <3>4. PICK sl1, rf1, bk1, L1, F1, L2, F2 :
            /\ Rep(sl1, refs[r], rf1, bk1, L1, F1)
            /\ rf1 = [refs EXCEPT ![r] = kNullIdx] /\ refs[r] \in Slot
            /\ Removed(slots, books, L, sl1, bk1, L1, SymbolOf[r], refs[r])
            /\ Rep(slots', free_head', refs', books', L2, F2)
            /\ refs' = [rf1 EXCEPT ![new] = refs[r]]
            /\ Added(sl1, bk1, L1, slots', books', L2, SymbolOf[new], refs[r],
                     side, q.price, q.shares)
        BY <1>1, <1>2, <1>3, <2>2, <2>6, <3>2, <3>3, ReplaceStep
    <3>5. refs \in [Ref -> Link]
        BY <1>3 DEF Rep
    <3>6. /\ rf1[new] = kNullIdx
          /\ \A a \in Ref : refs[a] # kNullIdx /\ refs'[a] # kNullIdx => rf1[a] # kNullIdx
          /\ \A a \in Ref : refs[a] = kNullIdx => rf1[a] = kNullIdx
        BY <1>2, <3>4, <3>5
    <3>7. Agrees(sl1, rf1, bk1, lv1, index1)
        BY <1>3, <2>2, <2>6, <3>4, AgreesRemoved
    <3>8. Agrees(slots', refs', books', v1_levels', v1_index')
      <4> DEFINE s == refs[r]
                 rf2 == [rf1 EXCEPT ![new] = s]
                 lv2 == v1_levels'
                 index2 == v1_index'
      <4>1. /\ Rep(sl1, s, rf1, bk1, L1, F1) /\ rf1[new] = kNullIdx /\ s # kNullIdx
            /\ Added(sl1, bk1, L1, slots', books', L2, SymbolOf[new], s,
                     side, q.price, q.shares)
          BY <2>6, <3>4, <3>6
      <4>2. /\ HasLive(lv2, index2, new, q.shares) /\ Others(lv1, index1, lv2, index2, new)
            /\ index2[new] = [side |-> side, price |-> q.price]
          BY <2>4
      <4> HIDE DEF s, lv2, index2
      <4>3. Agrees(slots', rf2, books', lv2, index2)
          BY <3>7, <4>1, <4>2, AgreesAdded
      <4> QED BY <3>4, <4>3 DEF s, lv2, index2
    <3>9. Kept(refs, books, L, rf1, bk1, L1)
        BY <1>3, <2>6, <3>4, KeptRemoved
    <3>10. Kept(rf1, bk1, L1, refs', books', L2)
        BY <2>6, <3>4, <3>6, KeptAdded
    <3>11. Kept(refs, books, L, refs', books', L2)
      <4>1. L \in LevelLists
          BY <1>3 DEF Rep
      <4> QED BY <3>6, <3>9, <3>10, <4>1, KeptTwice
    <3>12. \A x \in Ref : refs'[x] = IF x = new THEN refs[r]
                                      ELSE IF x = r THEN kNullIdx ELSE refs[x]
        BY <3>4, <3>5
    <3>13. Accounted
        BY <1>2, <2>4, <2>6, <3>12 DEF Accounted
    <3> QED BY <3>4, <3>8, <3>11, <3>13 DEF Moves, Stands
  <2> QED BY <2>5, <2>6
<1> QED BY <1>4, <1>5

\* Whatever message comes.
LEMMA AllMoves ==
  ASSUME V1Inv(v1_levels, v1_index), NEW L, NEW F, Stands(L, F), [Next]_vars,
         V1Inv(v1_levels, v1_index)', TableRoom'
  PROVE  Moves(L)
<1>1. ASSUME NEW r \in Ref, NEW q \in Quotes, Add(r, q) PROVE Moves(L)
    BY <1>1, AddMoves
<1>2. ASSUME NEW r \in Ref, Execute(r) PROVE Moves(L)
    BY <1>2, ReduceMoves DEF Execute, V1!ExecuteOrder, V3!ExecuteOrder
<1>3. ASSUME NEW r \in Ref, Cancel(r) PROVE Moves(L)
    BY <1>3, ReduceMoves DEF Cancel, V1!CancelOrder, V3!CancelOrder
<1>4. ASSUME NEW r \in Ref, Delete(r) PROVE Moves(L)
    BY <1>4, DeleteMoves
<1>5. ASSUME NEW r \in Ref, NEW new \in Ref, NEW q \in Quotes, Replace(r, new, q)
      PROVE  Moves(L)
    BY <1>5, ReplaceMoves
<1>6. CASE UNCHANGED vars
  <2>1. Stands(L, F)'
      BY <1>6 DEF vars, Stands
  <2>2. Kept(refs, books, L, refs', books', L)
      BY <1>6, KeptSame DEF vars
  <2>3. Accounted
      BY <1>6 DEF vars, Accounted
  <2> QED BY <2>1, <2>2, <2>3 DEF Moves
<1> QED BY <1>1, <1>2, <1>3, <1>4, <1>5, <1>6 DEF Next

-----------------------------------------------------------------------------
(* The inductive invariant. *)

\* v3's memory always stands for some lists, and agrees with v1.
IInv == V1Inv(v1_levels, v1_index) /\ \E L, F : Stands(L, F)

\* In the initial state all the slots are free, in their order.
LEMMA InitStands == ASSUME Init PROVE \E L, F : Stands(L, F)
<1> DEFINE none == <<>>
           L == [sym \in Symbol |-> [x \in Nat |-> none]]
           F == [k \in 1 .. PoolCapacity |-> k - 1]
           P == PoolCapacity
<1>1. /\ slots = [s \in Slot |-> V3!Blank(IF s + 1 \in Slot THEN s + 1 ELSE kNullIdx)]
      /\ free_head = 0
      /\ refs = [r \in Ref |-> kNullIdx]
      /\ books = [sym \in Symbol |-> V3!EmptyBook]
    BY DEF Init, V3!Init, V3!Table!Empty, Slot, kNullIdx
<1>2. /\ none \in Seq(Slot) /\ Len(none) = 0 /\ DOMAIN none = {}
    OBVIOUS
<1>3. Range(none) = {}
    BY <1>2 DEF Range
<1>4. P \in Nat /\ P > 0 /\ Slot = 0 .. P - 1
    BY SlotFacts
<1>5. \A s \in Slot : slots[s] = V3!Blank(IF s + 1 \in Slot THEN s + 1 ELSE kNullIdx)
    BY <1>1
<1>6. \A next \in Link : V3!Blank(next) \in SlotRec /\ V3!Blank(next).next_idx = next
  <2>1. 0 \in Link /\ 0 \in Nat
      BY SlotFacts DEF Link
  <2> QED BY <2>1 DEF V3!Blank, SlotRec
<1>7. slots \in [Slot -> SlotRec]
    BY <1>1, <1>6 DEF Link
<1>8. refs \in [Ref -> Link] /\ \A r \in Ref : refs[r] = kNullIdx
    BY <1>1 DEF Link
<1>9. L \in LevelLists /\ \A sym \in Symbol, x \in Nat : L[sym][x] = none
    BY <1>2 DEF LevelLists
<1>10. FreeList(slots, free_head, F) /\ Range(F) = Slot
  <2>1. DOMAIN F = 1 .. P /\ \A k \in 1 .. P : F[k] = k - 1 /\ F[k] \in Slot
      BY <1>4
  <2>2. F \in Seq(Slot)
    <3>1. F \in [1 .. P -> Slot]
        BY <1>4
    <3> QED BY <1>4, <3>1
  <2> HIDE DEF F
  <2>3. Distinct(F)
      BY <1>4, <2>1 DEF Distinct
  <2>4. free_head = At(F, 1)
      BY <1>1, <1>4, <2>1 DEF At
  <2>5. ASSUME NEW k \in DOMAIN F PROVE slots[F[k]].next_idx = At(F, k + 1)
    <3> DEFINE s == F[k]
    <3>1. s \in Slot /\ s + 1 = k /\ k \in 1 .. P
        BY <1>4, <2>1
    <3> HIDE DEF s
    <3>2. slots[s].next_idx = IF s + 1 \in Slot THEN s + 1 ELSE kNullIdx
        BY <1>5, <1>6, <3>1 DEF Link
    <3>3. CASE k = P
        BY <1>4, <2>1, <3>1, <3>2, <3>3 DEF At, s
    <3>4. CASE k # P
      <4>1. k + 1 \in 1 .. P /\ F[k + 1] = k /\ k \in Slot
          BY <1>4, <2>1, <3>1, <3>4
      <4> QED BY <2>1, <3>1, <3>2, <4>1 DEF At, s
    <3> QED BY <3>3, <3>4
  <2>6. Range(F) = Slot
    <3>1. Range(F) \subseteq Slot
        BY <2>1 DEF Range
    <3>2. ASSUME NEW s \in Slot PROVE s \in Range(F)
      <4>1. s + 1 \in 1 .. P /\ F[s + 1] = s
          BY <1>4, <2>1
      <4> QED BY <2>1, <4>1 DEF Range
    <3> QED BY <3>1, <3>2
  <2> QED BY <2>2, <2>3, <2>4, <2>5, <2>6 DEF FreeList
<1>11. BooksOK(books)
    BY <1>1, EmptyBookOK DEF BooksOK, IsBooks
<1>12. ListsOK(slots, books, L)
  <2> SUFFICES ASSUME NEW sym \in Symbol, NEW x \in Nat
               PROVE  Lists(slots, LevelAt(books[sym], x), L[sym][x], x)
      BY DEF ListsOK
  <2> DEFINE lvl == LevelAt(books[sym], x)
  <2>1. lvl = V3!EmptyLevel /\ L[sym][x] = none
      BY <1>1, <1>9, EmptyBookOK
  <2>2. /\ V3!EmptyLevel \in LevelRec
        /\ V3!EmptyLevel.head_idx = kNullIdx /\ V3!EmptyLevel.tail_idx = kNullIdx
        /\ V3!EmptyLevel.total_qty = 0 /\ V3!EmptyLevel.order_count = 0
      BY DEF V3!EmptyLevel, LevelRec, Link, kNullIdx, V3!kNullIdx
  <2> HIDE DEF lvl, none
  <2>3. At(none, 1) = kNullIdx /\ At(none, Len(none)) = kNullIdx
      BY <1>2 DEF At
  <2>4. Sum(Qty(slots), Range(none)) = 0
      BY <1>3, SumEmpty
  <2>5. Summary(slots, lvl, none)
      BY <1>2, <2>1, <2>2, <2>3, <2>4 DEF Summary
  <2>6. Distinct(none) /\ Linked(slots, none, x)
      BY <1>2 DEF Distinct, Linked
  <2> QED BY <1>2, <2>1, <2>5, <2>6 DEF Lists, lvl
<1> HIDE DEF L, F, none
<1>13. Listed(slots, refs, L, F) /\ Injective(refs) /\ Borne(refs, L) /\ Covered(refs, F)
    BY <1>3, <1>8, <1>9, <1>10 DEF Listed, Injective, Borne, Covered
<1>14. Agrees(slots, refs, books, v1_levels, v1_index)
    BY <1>8 DEF Agrees
<1> QED BY <1>7, <1>8, <1>9, <1>10, <1>11, <1>12, <1>13, <1>14 DEF Rep, Stands

\* While the reference table has room for the orders that rest, whatever
\* messages come and however often the pool runs out.
THEOREM BooksStand == Spec /\ []TableRoom => []IInv
<1>1. Init => IInv
    BY V1Init, InitStands DEF IInv
<1>2. IInv /\ [Next]_vars /\ TableRoom' => IInv'
  <2> SUFFICES ASSUME IInv, [Next]_vars, TableRoom' PROVE IInv'
      OBVIOUS
  <2>1. V1Inv(v1_levels, v1_index)'
      BY V1Next DEF IInv
  <2>2. PICK L, F : Stands(L, F)
      BY DEF IInv
  <2>3. Moves(L)
      BY <2>1, <2>2, AllMoves DEF IInv
  <2> QED BY <2>1, <2>3 DEF IInv, Moves
<1> QED BY <1>1, <1>2, PTL DEF Spec

-----------------------------------------------------------------------------
(* What the invariant says of the memory. *)

\* The chain of a level is its list.
LEMMA LevelChain ==
  ASSUME NEW L, NEW F, Stands(L, F), NEW sym \in Symbol, NEW x \in Nat
  PROVE  /\ L[sym][x] \in Seq(Slot) /\ Distinct(L[sym][x])
         /\ Chain(LevelAt(books[sym], x).head_idx) = L[sym][x]
<1> DEFINE q == L[sym][x]
           lvl == LevelAt(books[sym], x)
<1>1. Lists(slots, lvl, q, x)
    BY DEF Stands, Rep, ListsOK
<1> HIDE DEF q, lvl
<1>2. /\ q \in Seq(Slot) /\ Distinct(q) /\ lvl.head_idx = At(q, 1)
      /\ \A k \in DOMAIN q : slots[q[k]].next_idx = At(q, k + 1)
    BY <1>1 DEF Lists, Linked, Summary
<1>3. Chain(At(q, 1)) = q
    BY <1>2, ChainIs
<1> QED BY <1>2, <1>3 DEF q, lvl

\* The chain of the free list is the free list.
LEMMA FreeChain ==
  ASSUME NEW L, NEW F, Stands(L, F)
  PROVE  F \in Seq(Slot) /\ Distinct(F) /\ Chain(free_head) = F
<1>1. /\ F \in Seq(Slot) /\ Distinct(F) /\ free_head = At(F, 1)
      /\ \A k \in DOMAIN F : slots[F[k]].next_idx = At(F, k + 1)
    BY DEF Stands, Rep, FreeList
<1>2. Chain(At(F, 1)) = F
    BY <1>1, ChainIs
<1> QED BY <1>1, <1>2

\* The book of a symbol is a good one.
LEMMA BookStands ==
  ASSUME NEW L, NEW F, Stands(L, F), NEW sym \in Symbol
  PROVE  BookOK(books[sym])
BY DEF Stands, Rep, BooksOK

\* How far the levels of a book extend, and where its bits and best levels lie.
Extents(b) ==
  LET n == 2 * kWindow + Len(b.overflow)
  IN  /\ b.levels \in [0 .. n - 1 -> LevelRec]
      /\ b.occupied \subseteq 0 .. 2 * kWindow - 1
      /\ b.best_bid \in -1 .. kWindow - 1
      /\ b.best_ask \in {-1} \cup kWindow .. 2 * kWindow - 1

\* The invariant gives the types.
LEMMA TypesStand == ASSUME IInv PROVE TypeOK
<1>1. PICK L, F : Stands(L, F)
    BY DEF IInv
<1>2. \A sym \in Symbol, side \in Side : DOMAIN v1_levels[sym][side] \subseteq Price
  <2>1. \A sym \in Symbol, side \in Side : v1_levels[sym][side] \in SideLevels
      BY DEF IInv, V1Inv, LevelsType
  <2> QED BY <2>1, SideLevelsMeaning
<1>3. DOMAIN v1_index \subseteq Ref
    BY DEF IInv, V1Inv, IndexType
<1>4. slots \in [Slot -> SlotRec] /\ refs \in [Ref -> Link] /\ free_head \in Link
  <2>1. F \in Seq(Slot) /\ free_head = At(F, 1)
      BY <1>1 DEF Stands, Rep, FreeList
  <2>2. At(F, 1) \in Link
      BY <2>1, SeqFacts
  <2> QED BY <1>1, <2>1, <2>2 DEF Stands, Rep
<1>5. ASSUME NEW sym \in Symbol
      PROVE  Extents(books[sym])
  <2> DEFINE b == books[sym]
             T == Taken(b.levels)
             W == 2 * kWindow - 1
  <2>1. BookTyped(b) /\ Scanned(b)
      BY <1>1, BookStands DEF BookOK
  <2> HIDE DEF b
  <2>2. /\ kWindow \in Nat /\ kWindow > 0 /\ W \in Nat /\ T \subseteq Dense
        /\ Bids(T) \subseteq 0 .. W /\ Asks(T) \subseteq Nat
      BY DenseFacts
  <2>3. b.overflow \in Seq(OverflowRec) /\ b.levels \in [0 .. W + Len(b.overflow) -> LevelRec]
      BY <2>1 DEF BookTyped
  <2>4. Len(b.overflow) \in Nat
      BY <2>3
  <2>6. b.occupied = T /\ b.best_bid = Highest(Bids(T)) /\ b.best_ask = Lowest(Asks(T))
      BY <2>1 DEF Scanned
  <2>7. /\ \A x \in Bids(T) : x \in 0 .. kWindow - 1
        /\ \A x \in Asks(T) : x \in kWindow .. 2 * kWindow - 1
      BY <2>2 DEF Bids, Asks, Dense
  <2> HIDE DEF T, W
  <2>8. Highest(Bids(T)) \in {-1} \cup 0 .. kWindow - 1
      BY <2>2, <2>7, HighestIn
  <2>9. Lowest(Asks(T)) \in {-1} \cup kWindow .. 2 * kWindow - 1
      BY <2>2, <2>7, LowestIn
  <2>10. b.best_bid \in -1 .. kWindow - 1
      BY <2>2, <2>6, <2>8
  <2>11. b.occupied \subseteq 0 .. 2 * kWindow - 1
      BY <2>2, <2>6 DEF Dense
  <2> DEFINE n == 2 * kWindow + Len(b.overflow)
  <2>12. b.levels \in [0 .. n - 1 -> LevelRec]
    <3>1. n - 1 = W + Len(b.overflow)
        BY <2>2, <2>4 DEF W
    <3> HIDE DEF n
    <3> QED BY <2>3, <3>1
  <2>13. b.best_ask \in {-1} \cup kWindow .. 2 * kWindow - 1
      BY <2>6, <2>9, Zenon
  <2>14. Extents(b)
    <3> HIDE DEF n
    <3>1. Extents(b) <=> /\ b.levels \in [0 .. n - 1 -> LevelRec]
                         /\ b.occupied \subseteq 0 .. 2 * kWindow - 1
                         /\ b.best_bid \in -1 .. kWindow - 1
                         /\ b.best_ask \in {-1} \cup kWindow .. 2 * kWindow - 1
        BY Zenon DEF Extents, n
    <3> QED BY <2>10, <2>11, <2>12, <2>13, <3>1, Zenon
  <2> QED BY <2>14 DEF b
<1>6. /\ V3!Slot = Slot /\ Link = V3!Slot \cup {kNullIdx}
      /\ SlotRec = [next_idx : V3!Slot \cup {kNullIdx}, prev_idx : V3!Slot \cup {kNullIdx},
                    qty : Nat, level_idx : Nat]
      /\ LevelRec = [head_idx : V3!Slot \cup {kNullIdx}, tail_idx : V3!Slot \cup {kNullIdx},
                     total_qty : Nat, order_count : Nat]
    BY DEF Slot, Link, SlotRec, LevelRec
<1> QED BY <1>2, <1>3, <1>4, <1>5, <1>6 DEF TypeOK, Extents

\* The free list and the listed slots split the pool.
LEMMA PoolStands == ASSUME IInv PROVE PoolExact
<1>1. PICK L, F : Stands(L, F)
    BY DEF IInv
<1> DEFINE resting == {refs[r] : r \in {x \in Ref : V3!Known(x)}}
<1>2. Chain(free_head) = F /\ F \in Seq(Slot) /\ Distinct(F)
    BY <1>1, FreeChain
<1>3. Cardinality(Range(F)) = Len(F) /\ Range(F) \subseteq Slot
    BY <1>2, DistinctLen, SeqFacts
<1>4. /\ refs \in [Ref -> Link] /\ Listed(slots, refs, L, F) /\ Covered(refs, F)
    BY <1>1 DEF Stands, Rep
<1>5. \A x \in Ref : V3!Known(x) <=> refs[x] # kNullIdx
    BY SlotFacts DEF V3!Known
<1>6. resting \subseteq Slot /\ Range(F) \cap resting = {}
    BY <1>4, <1>5 DEF Listed, Link
<1>7. ASSUME NEW t \in Slot PROVE t \in Range(F) \/ t \in resting
  <2>1. CASE t \in Range(F)
      BY <2>1
  <2>2. CASE \E r \in Ref : refs[r] = t
    <3>1. PICK r \in Ref : refs[r] = t
        BY <2>2
    <3>2. V3!Known(r)
        BY <1>5, <3>1, SlotFacts
    <3> QED BY <3>1, <3>2
  <2> QED BY <1>4, <2>1, <2>2 DEF Covered
<1> HIDE DEF resting
<1>8. Range(F) \cup resting = V3!Slot
    BY <1>3, <1>6, <1>7, SlotFacts
<1> QED BY <1>2, <1>3, <1>6, <1>8 DEF PoolExact, resting

\* What is cached is what the lists say.
LEMMA CachesStand == ASSUME IInv PROVE CachesExact
<1>1. PICK L, F : Stands(L, F)
    BY DEF IInv
<1> SUFFICES ASSUME NEW sym \in Symbol
             PROVE  LET b == books[sym]
                        qty == [s \in V3!Slot |-> slots[s].qty]
                        taken == {x \in 0 .. 2 * kWindow - 1 :
                                    b.levels[x].head_idx # kNullIdx}
                        bids == {x \in taken : x < kWindow}
                        asks == taken \ bids
                    IN  /\ b.occupied = taken
                        /\ b.best_bid = IF bids = {} THEN -1 ELSE Max(bids)
                        /\ b.best_ask = IF asks = {} THEN -1 ELSE Min(asks)
                        /\ \A x \in DOMAIN b.levels :
                             LET chain == Chain(b.levels[x].head_idx)
                             IN  /\ b.levels[x].order_count = Len(chain)
                                 /\ b.levels[x].total_qty
                                      = MapThenSumSet(LAMBDA s : qty[s], Range(chain))
    BY DEF CachesExact
<1> DEFINE b == books[sym]
           taken == {x \in 0 .. 2 * kWindow - 1 : b.levels[x].head_idx # kNullIdx}
           bids == {x \in taken : x < kWindow}
           asks == taken \ bids
           qty == [s \in V3!Slot |-> slots[s].qty]
<1>2. BookTyped(b) /\ Scanned(b)
    BY <1>1, BookStands DEF BookOK
<1>3. /\ taken = Taken(b.levels) /\ bids = Bids(Taken(b.levels))
      /\ asks = Asks(Taken(b.levels))
  <2>1. taken = Taken(b.levels)
      BY DEF Taken, Dense
  <2>2. bids = Bids(Taken(b.levels))
      BY <2>1 DEF Bids
  <2>3. Taken(b.levels) \subseteq Nat /\ kWindow \in Nat
      BY DenseFacts
  <2>4. asks = Asks(Taken(b.levels))
      BY <2>1, <2>3 DEF Asks
  <2> QED BY <2>1, <2>2, <2>4
<1>4. /\ b.occupied = taken
      /\ b.best_bid = IF bids = {} THEN -1 ELSE Max(bids)
      /\ b.best_ask = IF asks = {} THEN -1 ELSE Min(asks)
    BY <1>2, <1>3 DEF Scanned, Highest, Lowest
<1>5. ASSUME NEW x \in DOMAIN b.levels
      PROVE  LET chain == Chain(b.levels[x].head_idx)
             IN  /\ b.levels[x].order_count = Len(chain)
                 /\ b.levels[x].total_qty = MapThenSumSet(LAMBDA s : qty[s], Range(chain))
  <2>1. x \in Nat /\ LevelAt(b, x) = b.levels[x]
    <3>1. /\ kWindow \in Nat /\ Len(b.overflow) \in Nat
          /\ DOMAIN b.levels = 0 .. 2 * kWindow - 1 + Len(b.overflow)
      <4> HIDE DEF b
      <4>1. /\ b.overflow \in Seq(OverflowRec)
            /\ b.levels \in [0 .. 2 * kWindow - 1 + Len(b.overflow) -> LevelRec]
          BY <1>2 DEF BookTyped
      <4>2. kWindow \in Nat
          BY DenseFacts
      <4>3. Len(b.overflow) \in Nat
          BY <4>1
      <4>4. DOMAIN b.levels = 0 .. 2 * kWindow - 1 + Len(b.overflow)
          BY <4>1
      <4> QED BY <4>2, <4>3, <4>4 DEF b
    <3> QED BY <3>1 DEF LevelAt
  <2>2. Chain(b.levels[x].head_idx) = L[sym][x]
      BY <1>1, <2>1, LevelChain
  <2>3. Summary(slots, b.levels[x], L[sym][x])
      BY <1>1, <2>1 DEF Stands, Rep, ListsOK, Lists
  <2> HIDE DEF b
  <2> DEFINE chain == L[sym][x]
  <2>4. qty = Qty(slots)
      BY SlotFacts DEF Qty
  <2> HIDE DEF qty
  <2>5. MapThenSumSet(LAMBDA s : qty[s], Range(chain)) = Sum(qty, Range(chain))
      BY SumDef
  <2>6. /\ b.levels[x].order_count = Len(chain)
        /\ b.levels[x].total_qty = Sum(Qty(slots), Range(chain))
      BY <2>3 DEF Summary
  <2> HIDE DEF chain
  <2> QED BY <2>2, <2>4, <2>5, <2>6 DEF chain
<1> QED BY <1>4, <1>5

-----------------------------------------------------------------------------
(* The queues of v3. *)

\* A side and a price have at most one level.
LEMMA OneLevel ==
  ASSUME NEW b, BookOK(b), NEW side, NEW price, NEW x, LevelIs(b, x, side, price),
         NEW y, LevelIs(b, y, side, price)
  PROVE  x = y
<1>1. CASE V3!InWindow(b, price)
    BY <1>1 DEF LevelIs
<1>2. CASE ~V3!InWindow(b, price)
    BY <1>2 DEF LevelIs, BookOK, OverflowOK
<1> QED BY <1>1, <1>2

\* A level stands for one side and one price at most.
LEMMA OnePrice ==
  ASSUME NEW b, BookOK(b), NEW x, NEW side \in Side, NEW price \in Price,
         LevelIs(b, x, side, price), NEW d \in Side, NEW p \in Price, LevelIs(b, x, d, p)
  PROVE  side = d /\ price = p
<1>1. /\ kWindow \in Nat /\ kWindow > 0 /\ Cent \in Nat /\ Cent > 0
      /\ price \in Nat /\ p \in Nat /\ b.base_cents \in Int
      /\ b.overflow \in Seq(OverflowRec)
    BY BooksAssumption DEF BookOK, BookTyped
<1>2. ASSUME NEW d1 \in Side, NEW p1 \in Price, LevelIs(b, x, d1, p1), V3!InWindow(b, p1)
      PROVE  /\ p1 % Cent = 0 /\ p1 \div Cent - b.base_cents \in 0 .. kWindow - 1
             /\ x = p1 \div Cent - b.base_cents + (IF d1 = "B" THEN 0 ELSE kWindow)
    BY <1>2 DEF LevelIs, V3!InWindow
<1>3. ASSUME NEW d1 \in Side, NEW p1 \in Price, LevelIs(b, x, d1, p1), ~V3!InWindow(b, p1)
      PROVE  \E k \in DOMAIN b.overflow : /\ x = 2 * kWindow - 1 + k /\ k \in Nat \ {0}
                                          /\ b.overflow[k] = [side |-> d1, price |-> p1]
  <2>1. PICK k \in DOMAIN b.overflow : /\ x = 2 * kWindow - 1 + k
                                       /\ b.overflow[k] = [side |-> d1, price |-> p1]
      BY <1>3 DEF LevelIs
  <2>2. k \in Nat \ {0}
      BY <1>1, <2>1
  <2> QED BY <2>1, <2>2
<1>4. CASE V3!InWindow(b, price) /\ V3!InWindow(b, p)
  <2> DEFINE c == price \div Cent
             e == p \div Cent
  <2>1. /\ price % Cent = 0 /\ p % Cent = 0
        /\ c - b.base_cents \in 0 .. kWindow - 1 /\ e - b.base_cents \in 0 .. kWindow - 1
        /\ x = c - b.base_cents + (IF side = "B" THEN 0 ELSE kWindow)
        /\ x = e - b.base_cents + (IF d = "B" THEN 0 ELSE kWindow)
      BY <1>2, <1>4
  <2>2. c \in Int /\ e \in Int
      BY <1>1
  <2>3. price = Cent * c + (price % Cent) /\ p = Cent * e + (p % Cent)
      BY <1>1
  <2> HIDE DEF c, e
  <2>4. c = e /\ (side = "B" <=> d = "B")
    <3> DEFINE m == b.base_cents
               u == IF side = "B" THEN 0 ELSE kWindow
               v == IF d = "B" THEN 0 ELSE kWindow
    <3>1. /\ m \in Int /\ c - m \in 0 .. kWindow - 1 /\ e - m \in 0 .. kWindow - 1
          /\ c - m + u = e - m + v
        BY <1>1, <2>1
    <3>2. /\ (side = "B" => u = 0) /\ (side # "B" => u = kWindow)
          /\ (d = "B" => v = 0) /\ (d # "B" => v = kWindow)
        OBVIOUS
    <3> HIDE DEF m, u, v
    <3>3. c = e /\ u = v
        BY <1>1, <2>2, <3>1, <3>2
    <3> QED BY <1>1, <3>2, <3>3
  <2>5. side = d
      BY <2>4 DEF Side
  <2> QED BY <2>1, <2>3, <2>4, <2>5
<1>5. CASE V3!InWindow(b, price) /\ ~V3!InWindow(b, p)
  <2>1. x < 2 * kWindow
    <3> DEFINE c == price \div Cent - b.base_cents
    <3>1. c \in 0 .. kWindow - 1 /\ x = c + (IF side = "B" THEN 0 ELSE kWindow)
        BY <1>2, <1>5
    <3> HIDE DEF c
    <3> QED BY <1>1, <3>1
  <2>2. PICK k \in Nat \ {0} : x = 2 * kWindow - 1 + k
      BY <1>3, <1>5
  <2> QED BY <1>1, <2>1, <2>2
<1>6. CASE ~V3!InWindow(b, price) /\ V3!InWindow(b, p)
  <2>1. x < 2 * kWindow
    <3> DEFINE c == p \div Cent - b.base_cents
    <3>1. c \in 0 .. kWindow - 1 /\ x = c + (IF d = "B" THEN 0 ELSE kWindow)
        BY <1>2, <1>6
    <3> HIDE DEF c
    <3> QED BY <1>1, <3>1
  <2>2. PICK k \in Nat \ {0} : x = 2 * kWindow - 1 + k
      BY <1>3, <1>6
  <2> QED BY <1>1, <2>1, <2>2
<1>7. CASE ~V3!InWindow(b, price) /\ ~V3!InWindow(b, p)
  <2>1. PICK k \in DOMAIN b.overflow : /\ x = 2 * kWindow - 1 + k /\ k \in Nat \ {0}
                                       /\ b.overflow[k] = [side |-> side, price |-> price]
      BY <1>3, <1>7
  <2>2. PICK l \in DOMAIN b.overflow : /\ x = 2 * kWindow - 1 + l /\ l \in Nat \ {0}
                                       /\ b.overflow[l] = [side |-> d, price |-> p]
      BY <1>3, <1>7
  <2>3. k = l
      BY <1>1, <2>1, <2>2
  <2> QED BY <2>1, <2>2, <2>3
<1> QED BY <1>4, <1>5, <1>6, <1>7

\* A level that stands for a price is a level of the book.
LEMMA LevelInBook ==
  ASSUME NEW b, BookOK(b), NEW side \in Side, NEW price, NEW x, LevelIs(b, x, side, price)
  PROVE  x \in Nat /\ x \in DOMAIN b.levels /\ LevelAt(b, x) = b.levels[x]
<1>1. kWindow \in Nat /\ kWindow > 0
    BY DenseFacts
<1>2. /\ b.overflow \in Seq(OverflowRec)
      /\ b.levels \in [0 .. 2 * kWindow - 1 + Len(b.overflow) -> LevelRec]
    BY DEF BookOK, BookTyped
<1> DEFINE n == Len(b.overflow)
<1>3. n \in Nat /\ DOMAIN b.overflow = 1 .. n
    BY <1>2
<1>4. DOMAIN b.levels = 0 .. 2 * kWindow - 1 + n
    BY <1>2
<1> HIDE DEF n
<1>5. x \in 0 .. 2 * kWindow - 1 + n
  <2>1. CASE V3!InWindow(b, price)
    <3> DEFINE c == price \div Cent - b.base_cents
    <3>1. c \in 0 .. kWindow - 1 /\ x = c + (IF side = "B" THEN 0 ELSE kWindow)
        BY <2>1 DEF LevelIs, V3!InWindow
    <3> HIDE DEF c
    <3> QED BY <1>1, <1>3, <3>1
  <2>2. CASE ~V3!InWindow(b, price)
    <3>1. PICK k \in 1 .. n : x = 2 * kWindow - 1 + k
        BY <1>3, <2>2 DEF LevelIs
    <3> QED BY <1>1, <1>3, <3>1
  <2> QED BY <2>1, <2>2
<1>6. x \in Nat
    BY <1>1, <1>3, <1>5
<1> QED BY <1>4, <1>5, <1>6 DEF LevelAt

\* LevelsOf finds the level of a side and a price.
LEMMA LevelsOfIs ==
  ASSUME NEW b, NEW side, NEW price
  PROVE  \A x : x \in LevelsOf(b, side, price) <=> LevelIs(b, x, side, price)
<1>1. CASE ~b.base_set
    BY <1>1 DEF LevelsOf, LevelIs
<1>2. CASE b.base_set /\ V3!InWindow(b, price)
  <2>1. LevelsOf(b, side, price) = {V3!LevelFor(b, price, side)}
      BY <1>2 DEF LevelsOf
  <2>2. V3!LevelFor(b, price, side)
          = price \div Cent - b.base_cents + (IF side = "B" THEN 0 ELSE kWindow)
      BY <1>2 DEF V3!LevelFor, V3!kAskBase
  <2> QED BY <1>2, <2>1, <2>2 DEF LevelIs
<1>3. CASE b.base_set /\ ~V3!InWindow(b, price)
  <2>1. LevelsOf(b, side, price)
          = {2 * kWindow - 1 + k : k \in V3!OverflowIndex(b, price, side)}
      BY <1>3 DEF LevelsOf
  <2> QED BY <1>3, <2>1 DEF LevelIs, V3!OverflowIndex
<1> QED BY <1>1, <1>2, <1>3

\* The queue of a level, as the list says it.
LEMMA QueueIs ==
  ASSUME NEW L, NEW F, Stands(L, F), NEW sym \in Symbol, NEW side \in Side, NEW price,
         NEW x, LevelIs(books[sym], x, side, price)
  PROVE  QueueV3(sym, side, price)
           = [k \in DOMAIN L[sym][x] |-> [refs   |-> Bearers(L[sym][x][k]),
                                          shares |-> slots[L[sym][x][k]].qty]]
<1> DEFINE b == books[sym]
           heads == {b.levels[l].head_idx : l \in LevelsOf(b, side, price)}
           head == b.levels[x].head_idx
<1>1. BookOK(b)
    BY BookStands
<1>2. x \in Nat /\ LevelAt(b, x) = b.levels[x]
    BY <1>1, LevelInBook
<1>3. LevelsOf(b, side, price) = {x}
    BY <1>1, LevelsOfIs, OneLevel
<1>4. heads = {head} /\ (CHOOSE h \in heads : TRUE) = head
    BY <1>3
<1>5. Chain(head) = L[sym][x]
    BY <1>2, LevelChain
<1> HIDE DEF b, head
<1> DEFINE chain == IF heads = {} THEN <<>> ELSE Chain(CHOOSE h \in heads : TRUE)
<1>6. chain = L[sym][x]
    BY <1>4, <1>5
<1>7. QueueV3(sym, side, price)
        = [k \in DOMAIN chain |-> [refs |-> Bearers(chain[k]), shares |-> slots[chain[k]].qty]]
    BY DEF QueueV3, b
<1> HIDE DEF chain
<1> QED BY <1>6, <1>7

\* Without a level there is no queue.
LEMMA NoQueue ==
  ASSUME NEW sym, NEW side, NEW price, \A x : ~LevelIs(books[sym], x, side, price)
  PROVE  QueueV3(sym, side, price) = <<>>
<1>1. LevelsOf(books[sym], side, price) = {}
    BY LevelsOfIs
<1> DEFINE none == <<>>
           heads == {books[sym].levels[l].head_idx : l \in LevelsOf(books[sym], side, price)}
           chain == IF heads = {} THEN none ELSE Chain(CHOOSE h \in heads : TRUE)
<1>2. chain = none
    BY <1>1
<1>3. QueueV3(sym, side, price)
        = [k \in DOMAIN chain |-> [refs |-> Bearers(chain[k]), shares |-> slots[chain[k]].qty]]
    BY DEF QueueV3
<1>4. DOMAIN none = {} /\ \A f : DOMAIN f = {} /\ f = [k \in {} |-> f[k]] => f = none
    OBVIOUS
<1> HIDE DEF chain, none
<1> QED BY <1>2, <1>3, <1>4 DEF none

\* A listed slot has one bearer.
LEMMA BearerIs ==
  ASSUME NEW L, NEW F, Stands(L, F), NEW sym \in Symbol, NEW x \in Nat,
         NEW k \in DOMAIN L[sym][x]
  PROVE  \E r \in Ref : /\ refs[r] = L[sym][x][k] /\ refs[r] # kNullIdx /\ SymbolOf[r] = sym
                        /\ Bearers(L[sym][x][k]) = {r}
<1> DEFINE t == L[sym][x][k]
<1>1. Borne(refs, L) /\ Injective(refs) /\ L \in LevelLists
    BY DEF Stands, Rep
<1>2. L[sym][x] \in Seq(Slot)
    BY <1>1 DEF LevelLists
<1>3. t \in Range(L[sym][x]) /\ t \in Slot
    BY <1>2 DEF Range
<1> HIDE DEF t
<1>4. PICK r \in Ref : refs[r] = t /\ SymbolOf[r] = sym
    BY <1>1, <1>3 DEF Borne
<1>5. refs[r] # kNullIdx
    BY <1>3, <1>4, SlotFacts
<1>6. Bearers(t) = {r}
    BY <1>1, <1>4, <1>5 DEF Bearers, Injective
<1> QED BY <1>4, <1>5, <1>6 DEF t

\* Which order is ahead of which, as the lists say it.
InFront(L, x, y) == \E sym \in Symbol, side \in Side, price \in Price, level \in Nat :
  LevelIs(books[sym], level, side, price) /\ Precedes(L[sym][level], refs[x], refs[y])

\* The order of the queues is that of the lists, for a step to use in the state
\* it reaches.
AheadMeans == \A L, F : Stands(L, F) =>
  \A x, y \in Ref : Ahead(x, y) <=> InFront(L, x, y)

\* The queues and the lists agree on which order is ahead.
LEMMA AheadIs == AheadMeans
<1> SUFFICES ASSUME NEW L, NEW F, Stands(L, F), NEW x \in Ref, NEW y \in Ref
             PROVE  Ahead(x, y) <=> InFront(L, x, y)
    BY DEF AheadMeans
<1>1. ASSUME NEW sym \in Symbol, NEW side \in Side, NEW price \in Price,
             NEW level \in Nat, LevelIs(books[sym], level, side, price)
      PROVE  LET queue == QueueV3(sym, side, price)
             IN  (\E k, l \in DOMAIN queue : k < l /\ x \in queue[k].refs /\ y \in queue[l].refs)
                   <=> Precedes(L[sym][level], refs[x], refs[y])
  <2> DEFINE q == L[sym][level]
             queue == QueueV3(sym, side, price)
  <2>1. queue = [k \in DOMAIN q |-> [refs |-> Bearers(q[k]), shares |-> slots[q[k]].qty]]
      BY <1>1, QueueIs
  <2> HIDE DEF queue
  <2>2. DOMAIN queue = DOMAIN q /\ \A k \in DOMAIN q : queue[k].refs = Bearers(q[k])
      BY <2>1
  <2>3. \A k \in DOMAIN q : \A r \in Ref : r \in Bearers(q[k]) <=> q[k] = refs[r]
      BY DEF Bearers
  <2> HIDE DEF q
  <2>4. (\E k, l \in DOMAIN queue : k < l /\ x \in queue[k].refs /\ y \in queue[l].refs)
          <=> Precedes(q, refs[x], refs[y])
      BY <2>2, <2>3 DEF Precedes
  <2> QED BY <2>4 DEF queue, q
<1>2. ASSUME Ahead(x, y) PROVE InFront(L, x, y)
  <2> DEFINE Q(sym, side, price) == QueueV3(sym, side, price)
  <2>1. PICK sym \in Symbol, side \in Side, price \in Price :
          \E k, l \in DOMAIN Q(sym, side, price) :
            /\ k < l /\ x \in Q(sym, side, price)[k].refs
            /\ y \in Q(sym, side, price)[l].refs
      BY <1>2 DEF Ahead
  <2>2. DOMAIN Q(sym, side, price) # {}
      BY <2>1
  <2>3. DOMAIN <<>> = {}
      OBVIOUS
  <2>4. PICK level : LevelIs(books[sym], level, side, price)
      BY <2>2, <2>3, NoQueue
  <2>5. level \in Nat
      BY <2>4, BookStands, LevelInBook
  <2>6. Precedes(L[sym][level], refs[x], refs[y])
      BY <1>1, <2>1, <2>4, <2>5
  <2> QED BY <2>4, <2>5, <2>6 DEF InFront
<1>3. ASSUME InFront(L, x, y) PROVE Ahead(x, y)
    BY <1>1, <1>3 DEF InFront, Ahead
<1> QED BY <1>2, <1>3

\* While two orders stay in v3's books, no message lets one overtake the
\* other: a partial execution or cancel costs no order its place, and a
\* replacement comes last in its level.
THEOREM PriorityStays == Spec /\ []TableRoom => PriorityKept
<1>1. IInv /\ IInv' /\ [Next]_vars /\ TableRoom' /\ AheadMeans /\ AheadMeans' =>
        [\A x, y \in Ref : Ahead(x, y) /\ V3!Known(x)' /\ V3!Known(y)' => Ahead(x, y)']_vars
  <2> SUFFICES ASSUME IInv, IInv', [Next]_vars, TableRoom', AheadMeans, AheadMeans',
                      NEW x \in Ref, NEW y \in Ref,
                      Ahead(x, y), V3!Known(x)', V3!Known(y)'
               PROVE  Ahead(x, y)'
      OBVIOUS
  <2>1. PICK L, F : Stands(L, F)
      BY DEF IInv
  <2>2. Moves(L)
      BY <2>1, AllMoves DEF IInv
  <2>3. PICK L2, F2 : Stands(L2, F2)' /\ Kept(refs, books, L, refs', books', L2)
      BY <2>2 DEF Moves
  <2>4. refs'[x] # kNullIdx /\ refs'[y] # kNullIdx
      BY SlotFacts DEF V3!Known
  <2>5. PICK sym \in Symbol, side \in Side, price \in Price, level \in Nat :
          /\ LevelIs(books[sym], level, side, price)
          /\ Precedes(L[sym][level], refs[x], refs[y])
      BY <2>1 DEF AheadMeans, InFront
  <2>6. /\ LevelIs(books'[sym], level, side, price)
        /\ Precedes(L2[sym][level], refs'[x], refs'[y])
      BY <2>3, <2>4, <2>5 DEF Kept
  <2>7. InFront(L2, x, y)'
      BY <2>6 DEF InFront
  <2> QED BY <2>3, <2>7 DEF AheadMeans
<1> QED BY <1>1, AheadIs, BooksStand, PTL DEF PriorityKept, Spec

-----------------------------------------------------------------------------
(* Orders that v3 does not know. *)

\* v3 misses an order only if it came while the pool was empty, or if it
\* replaces an order that v3 had missed; in particular no replacement of an
\* order that v3 has is ever lost, although it allocates after it releases.
THEOREM LossesExplained == Spec /\ []TableRoom => LossExplained
<1>1. IInv /\ IInv' /\ [Next]_vars /\ TableRoom' =>
        [\A r \in Ref :
           V1!Live(r)' /\ ~V1!Live(r) /\ ~V3!Known(r)' =>
             \/ free_head = kNullIdx /\ \A x \in Ref : V1!Live(x) => V1!Live(x)'
             \/ \E x \in Ref : V1!Live(x) /\ ~V3!Known(x) /\ ~V1!Live(x)']_vars
  <2> SUFFICES ASSUME IInv, IInv', [Next]_vars, TableRoom',
                      NEW r \in Ref, V1!Live(r)', ~V1!Live(r), ~V3!Known(r)'
               PROVE  \/ free_head = kNullIdx /\ \A x \in Ref : V1!Live(x) => V1!Live(x)'
                      \/ \E x \in Ref : V1!Live(x) /\ ~V3!Known(x) /\ ~V1!Live(x)'
      OBVIOUS
  <2>1. PICK L, F : Stands(L, F)
      BY DEF IInv
  <2>2. Accounted
      BY <2>1, AllMoves DEF IInv, Moves
  <2>3. r \in DOMAIN v1_index' /\ r \notin DOMAIN v1_index /\ refs'[r] = kNullIdx
      BY SlotFacts DEF V1!Live, V3!Known
  <2>4. \/ free_head = kNullIdx /\ DOMAIN v1_index' = DOMAIN v1_index \cup {r}
        \/ \E y \in Ref : /\ y \in DOMAIN v1_index /\ refs[y] = kNullIdx
                          /\ y \notin DOMAIN v1_index'
      BY <2>2, <2>3 DEF Accounted
  <2> QED BY <2>4, SlotFacts DEF V1!Live, V3!Known
<1> QED BY <1>1, BooksStand, PTL DEF LossExplained, Spec

\* v3 knows every order that v1 has.
AllKnown == \A r \in Ref : r \in DOMAIN v1_index => refs[r] # kNullIdx

\* There is a slot for every order that is live.
PoolRoom == Cardinality(DOMAIN v1_index) <= PoolCapacity

\* While no slot is free, there are as many live orders as slots.
LEMMA PoolFull ==
  ASSUME NEW L, NEW F, Stands(L, F), free_head = kNullIdx, IsFiniteSet(DOMAIN v1_index)
  PROVE  PoolCapacity <= Cardinality(DOMAIN v1_index)
<1> DEFINE D == DOMAIN v1_index
           at == [t \in Slot |-> CHOOSE r \in Ref : refs[r] = t]
<1>1. F \in Seq(Slot) /\ free_head = At(F, 1)
    BY DEF Stands, Rep, FreeList
<1>2. Range(F) = {}
  <2> SUFFICES ASSUME NEW t \in Range(F) PROVE FALSE
      OBVIOUS
  <2>1. PICK k \in DOMAIN F : F[k] = t
      BY DEF Range
  <2>2. 1 \in DOMAIN F /\ F[1] \in Slot
      BY <1>1, <2>1
  <2> QED BY <1>1, <2>2, SlotFacts DEF At
<1>3. ASSUME NEW t \in Slot
      PROVE  at[t] \in D /\ refs[at[t]] = t
  <2>1. \E r \in Ref : refs[r] = t
      BY <1>2 DEF Stands, Rep, Covered
  <2>2. at[t] \in Ref /\ refs[at[t]] = t
      BY <2>1
  <2>3. t # kNullIdx
      BY SlotFacts
  <2> QED BY <2>2, <2>3 DEF Stands, Agrees, HasLive
<1> HIDE DEF D
<1>4. at \in [Slot -> D]
    BY <1>3
<1>5. \A t, u \in Slot : at[t] = at[u] => t = u
    BY <1>3
<1> HIDE DEF at
<1>6. at \in Injection(Slot, D)
    BY <1>4, <1>5 DEF Injection, IsInjective
<1>7. Cardinality(Slot) <= Cardinality(D)
    BY <1>6, FS_Injection DEF D
<1> QED BY <1>7, SlotFacts DEF D

\* As long as the table and the pool have room, v3 misses no order.
THEOREM NothingMissed == Spec /\ []TableRoom /\ []PoolRoom => []AllKnown
<1>1. Init => AllKnown
  <2> SUFFICES ASSUME Init PROVE AllKnown
      OBVIOUS
  <2>1. v1_index = <<>>
      BY DEF Init, V1!Init
  <2> DEFINE none == <<>>
  <2>2. DOMAIN none = {}
      OBVIOUS
  <2> HIDE DEF none
  <2>3. v1_index = none
      BY <2>1 DEF none
  <2> QED BY <2>2, <2>3 DEF AllKnown
<1>2. IInv /\ IInv' /\ AllKnown /\ [Next]_vars /\ TableRoom' /\ PoolRoom' => AllKnown'
  <2> SUFFICES ASSUME IInv, IInv', AllKnown, [Next]_vars, TableRoom', PoolRoom',
                      NEW x \in Ref, x \in DOMAIN v1_index', refs'[x] = kNullIdx
               PROVE  FALSE
      BY DEF AllKnown
  <2>1. PICK L, F : Stands(L, F)
      BY DEF IInv
  <2>2. Accounted
      BY <2>1, AllMoves DEF IInv, Moves
  <2>3. /\ x \notin DOMAIN v1_index /\ free_head = kNullIdx
        /\ DOMAIN v1_index' = DOMAIN v1_index \cup {x}
      BY <2>2 DEF Accounted, AllKnown
  <2>4. IsFiniteSet(DOMAIN v1_index)
      BY DEF IInv, V1Inv, IndexType
  <2>5. PoolCapacity <= Cardinality(DOMAIN v1_index)
      BY <2>1, <2>3, <2>4, PoolFull
  <2> DEFINE D == DOMAIN v1_index
  <2> HIDE DEF D
  <2>6. Cardinality(D \cup {x}) = Cardinality(D) + 1 /\ Cardinality(D) \in Nat
      BY <2>3, <2>4, FS_AddElement, FS_CardinalityType DEF D
  <2>7. Cardinality(DOMAIN v1_index') <= PoolCapacity
      BY DEF PoolRoom
  <2> QED BY <2>3, <2>5, <2>6, <2>7, SlotFacts DEF D
<1> QED BY <1>1, <1>2, BooksStand, PTL DEF Spec

-----------------------------------------------------------------------------
(* The same prices in both books. *)

\* A listed slot is that of a live order, whose locator names the level.
LEMMA ListedKnown ==
  ASSUME NEW L, NEW F, Stands(L, F), NEW sym \in Symbol, NEW x \in Nat,
         NEW k \in DOMAIN L[sym][x]
  PROVE  \E r \in Ref :
           /\ refs[r] = L[sym][x][k] /\ refs[r] # kNullIdx /\ SymbolOf[r] = sym
           /\ Bearers(L[sym][x][k]) = {r}
           /\ HasLive(v1_levels, v1_index, r, slots[L[sym][x][k]].qty)
           /\ LevelIs(books[sym], x, v1_index[r].side, v1_index[r].price)
<1> DEFINE t == L[sym][x][k]
<1>1. PICK r \in Ref : /\ refs[r] = t /\ refs[r] # kNullIdx /\ SymbolOf[r] = sym
                       /\ Bearers(t) = {r}
    BY BearerIs
<1>2. Linked(slots, L[sym][x], x)
    BY DEF Stands, Rep, ListsOK, Lists
<1>3. slots[t].level_idx = x
    BY <1>2 DEF Linked
<1> HIDE DEF t
<1>4. /\ HasLive(v1_levels, v1_index, r, slots[t].qty)
      /\ LevelIs(books[sym], x, v1_index[r].side, v1_index[r].price)
    BY <1>1, <1>3 DEF Stands, Agrees
<1> QED BY <1>1, <1>4 DEF t

\* A known order is listed by the level of its locator.
LEMMA KnownListed ==
  ASSUME V1Inv(v1_levels, v1_index), NEW L, NEW F, Stands(L, F),
         NEW r \in Ref, refs[r] # kNullIdx
  PROVE  /\ r \in DOMAIN v1_index /\ SymbolOf[r] \in Symbol
         /\ \E x \in Nat :
              /\ LevelIs(books[SymbolOf[r]], x, v1_index[r].side, v1_index[r].price)
              /\ refs[r] \in Range(L[SymbolOf[r]][x])
<1> DEFINE x == slots[refs[r]].level_idx
<1>1. /\ r \in DOMAIN v1_index
      /\ LevelIs(books[SymbolOf[r]], x, v1_index[r].side, v1_index[r].price)
    BY DEF Stands, Agrees, HasLive
<1>2. SymbolOf[r] \in Symbol /\ v1_index[r].side \in Side
    BY <1>1, LocatorFinds
<1>3. x \in Nat
    BY <1>1, <1>2, BookStands, LevelInBook
<1>4. refs[r] \in Range(L[SymbolOf[r]][x])
    BY DEF Stands, Rep, Listed
<1> QED BY <1>1, <1>2, <1>3, <1>4

\* A side and a price at which v3 has an order.
Quoted(b, side, price) == \E x : LevelIs(b, x, side, price) /\ b.levels[x].head_idx # kNullIdx

\* They are the sides and prices at which v1 has one.
LEMMA QuotedAgrees ==
  ASSUME IInv, AllKnown, NEW sym \in Symbol, NEW side \in Side, NEW price \in Price
  PROVE  price \in DOMAIN v1_levels[sym][side] <=> Quoted(books[sym], side, price)
<1>0. V1Inv(v1_levels, v1_index)
    BY DEF IInv
<1>1. PICK L, F : Stands(L, F)
    BY DEF IInv
<1>2. BookOK(books[sym])
    BY <1>1, BookStands
<1>3. ASSUME Quoted(books[sym], side, price) PROVE price \in DOMAIN v1_levels[sym][side]
  <2>1. PICK x : LevelIs(books[sym], x, side, price) /\ books[sym].levels[x].head_idx # kNullIdx
      BY <1>3 DEF Quoted
  <2>2. x \in Nat /\ LevelAt(books[sym], x) = books[sym].levels[x]
      BY <1>2, <2>1, LevelInBook
  <2>3. Lists(slots, LevelAt(books[sym], x), L[sym][x], x)
      BY <1>1, <2>2 DEF Stands, Rep, ListsOK
  <2>4. 1 \in DOMAIN L[sym][x]
      BY <2>1, <2>2, <2>3 DEF Lists, Summary, At
  <2>5. PICK r \in Ref : /\ SymbolOf[r] = sym /\ refs[r] # kNullIdx
                         /\ LevelIs(books[sym], x, v1_index[r].side, v1_index[r].price)
      BY <1>1, <2>2, <2>4, ListedKnown
  <2>6. r \in DOMAIN v1_index
      BY <1>0, <1>1, <2>5, KnownListed
  <2>7. /\ v1_index[r].side \in Side /\ v1_index[r].price \in Price
        /\ v1_index[r].price \in DOMAIN v1_levels[sym][v1_index[r].side]
      BY <1>0, <2>5, <2>6, LocatorFinds
  <2>8. v1_index[r].side = side /\ v1_index[r].price = price
      BY <1>2, <2>1, <2>5, <2>7, OnePrice
  <2> QED BY <2>7, <2>8
<1>4. ASSUME price \in DOMAIN v1_levels[sym][side] PROVE Quoted(books[sym], side, price)
  <2> DEFINE q == v1_levels[sym][side][price]
  <2>1. v1_levels[sym][side] \in SideLevels /\ NoEmptyQueue(v1_levels[sym][side])
      BY <1>0 DEF V1Inv, LevelsType, NoneEmpty
  <2>2. q \in Seq(Entry) /\ q # <<>>
      BY <1>4, <2>1, SideLevelsMeaning DEF NoEmptyQueue
  <2>3. 1 \in DOMAIN q
      BY <2>2
  <2>4. Filed(v1_index, sym, side, price, q)
      BY <1>0, <1>4 DEF V1Inv, QueuedOnce, QueueAt, QueueIn
  <2> HIDE DEF q
  <2>5. PICK r : r \in DOMAIN v1_index /\ SymbolOf[r] = sym
                 /\ v1_index[r] = [side |-> side, price |-> price]
      BY <2>3, <2>4 DEF Filed
  <2>6. r \in Ref
      BY <1>0, <2>5, LocatorFinds
  <2>7. refs[r] # kNullIdx
      BY <2>5, <2>6 DEF AllKnown
  <2>8. PICK x \in Nat : /\ LevelIs(books[sym], x, side, price)
                         /\ refs[r] \in Range(L[sym][x])
      BY <1>0, <1>1, <2>5, <2>6, <2>7, KnownListed
  <2>9. books[sym].levels[x].head_idx # kNullIdx
      BY <1>1, <2>8, LevelThere DEF Stands
  <2> QED BY <2>8, <2>9 DEF Quoted
<1> QED BY <1>3, <1>4

-----------------------------------------------------------------------------
(* The top of the book. *)

\* A dense level stands for the price that PriceOf computes.
LEMMA DensePrice ==
  ASSUME NEW b, BookOK(b), NEW side \in Side, NEW price \in Price,
         NEW x, LevelIs(b, x, side, price), x < 2 * kWindow
  PROVE  /\ x \in Dense /\ price = V3!PriceOf(b, x)
         /\ side = "B" <=> x < kWindow
<1>1. /\ kWindow \in Nat /\ kWindow > 0 /\ Cent \in Nat /\ Cent > 0
      /\ price \in Nat /\ b.base_cents \in Int /\ b.overflow \in Seq(OverflowRec)
    BY BooksAssumption DEF BookOK, BookTyped
<1>2. V3!InWindow(b, price)
  <2> SUFFICES ASSUME ~V3!InWindow(b, price) PROVE FALSE
      OBVIOUS
  <2>1. PICK k \in DOMAIN b.overflow : x = 2 * kWindow - 1 + k
      BY DEF LevelIs
  <2>2. k \in Nat /\ k > 0
      BY <1>1, <2>1
  <2> QED BY <1>1, <2>1, <2>2
<1> DEFINE m == b.base_cents
           c == price \div Cent
           u == IF side = "B" THEN 0 ELSE kWindow
<1>3. c - m \in 0 .. kWindow - 1 /\ x = c - m + u /\ price % Cent = 0
    BY <1>2 DEF LevelIs, V3!InWindow
<1>4. price = Cent * c /\ c \in Int
  <2>1. c \in Int /\ price = Cent * c + (price % Cent)
      BY <1>1
  <2> HIDE DEF c
  <2> QED BY <1>1, <1>3, <2>1
<1>5. (side = "B" => u = 0) /\ (side # "B" => u = kWindow)
    OBVIOUS
<1>6. V3!PriceOf(b, x) = (m + (IF x < kWindow THEN x ELSE x - kWindow)) * Cent
    BY DEF V3!PriceOf, V3!kAskBase
<1>7. m \in Int
    BY <1>1
<1> HIDE DEF m, c, u
<1>8. x \in 0 .. 2 * kWindow - 1 /\ (side = "B" <=> x < kWindow)
    BY <1>1, <1>3, <1>4, <1>5, <1>7
<1>9. m + (IF x < kWindow THEN x ELSE x - kWindow) = c
    BY <1>1, <1>3, <1>4, <1>5, <1>7, <1>8
<1> QED BY <1>1, <1>4, <1>6, <1>8, <1>9 DEF Dense

\* Higher levels of a side stand for higher prices.
LEMMA PriceOrder ==
  ASSUME NEW b, b.base_cents \in Int, NEW x \in Dense, NEW y \in Dense, x <= y,
         x < kWindow <=> y < kWindow
  PROVE  V3!PriceOf(b, x) \in Int /\ V3!PriceOf(b, x) <= V3!PriceOf(b, y)
<1> DEFINE m == b.base_cents
           c == m + (IF x < kWindow THEN x ELSE x - kWindow)
           e == m + (IF y < kWindow THEN y ELSE y - kWindow)
<1>1. kWindow \in Nat /\ Cent \in Nat /\ m \in Int
    BY BooksAssumption
<1>2. V3!PriceOf(b, x) = c * Cent /\ V3!PriceOf(b, y) = e * Cent
    BY DEF V3!PriceOf, V3!kAskBase
<1>3. c \in Int /\ e \in Int /\ c <= e
  <2> HIDE DEF m
  <2> QED BY <1>1 DEF Dense
<1> HIDE DEF c, e
<1>4. c * Cent \in Int /\ c * Cent <= e * Cent
  <2>1. \A i, j \in Int : \A n \in Nat : i <= j => i * n \in Int /\ i * n <= j * n
      OBVIOUS
  <2> QED BY <1>1, <1>3, <2>1
<1> QED BY <1>2, <1>4

\* What best_bid_ask looks at: the price of the best dense level, and those of
\* the overflow levels of the side that hold an order.
CachedPrice(b, level) == IF level >= 0 THEN {V3!PriceOf(b, level)} ELSE {}

\* The prices of the overflow levels of a side that have orders.
OverflowPrices(b, side) == {b.overflow[k].price : k \in
  {l \in DOMAIN b.overflow : /\ b.overflow[l].side = side
                             /\ b.levels[2 * kWindow + l - 1].head_idx # kNullIdx}}

\* v3's top of the book by these sets.
LEMMA V3TopIs ==
  ASSUME NEW sym
  PROVE  V3!TopOfBook(sym) =
           LET b == books[sym]
               bids == CachedPrice(b, b.best_bid) \cup OverflowPrices(b, "B")
               asks == CachedPrice(b, b.best_ask) \cup OverflowPrices(b, "S")
           IN  IF bids = {} \/ asks = {} THEN <<>> ELSE <<V3!Max(bids), V3!Min(asks)>>
BY SlotFacts DEF V3!TopOfBook, CachedPrice, OverflowPrices, V3!NoQuote

\* Sets of prices with the same maximum.
LEMMA SameMax ==
  ASSUME NEW n \in Nat, NEW A, A \subseteq 0 .. n, A # {}, NEW B, A \subseteq B, B \subseteq Nat,
         \A y \in B : \E x \in A : y <= x
  PROVE  V3!Max(A) = V1!Max(B)
<1> DEFINE m == Max(A)
<1>1. m \in A /\ V3!Max(A) = m /\ \A y \in A : y <= m
    BY MaxIn
<1> HIDE DEF m
<1>2. m \in B /\ m \in Nat /\ \A y \in B : y <= m
  <2>1. ASSUME NEW y \in B PROVE y <= m
    <3>1. PICK x \in A : y <= x
        OBVIOUS
    <3>2. x <= m /\ x \in Nat /\ y \in Nat /\ m \in Nat
        BY <1>1
    <3> QED BY <3>1, <3>2
  <2> QED BY <1>1, <2>1
<1>3. Max(B) = m
    BY <1>2, MaxIs
<1>4. V1!Max(B) = Max(B)
    BY DEF V1!Max, Max
<1> QED BY <1>1, <1>3, <1>4

\* Sets of prices with the same minimum.
LEMMA SameMin ==
  ASSUME NEW A, A \subseteq Nat, A # {}, NEW B, A \subseteq B, B \subseteq Nat,
         \A y \in B : \E x \in A : x <= y
  PROVE  V3!Min(A) = V1!Min(B)
<1> DEFINE m == Min(A)
<1>1. m \in A /\ V3!Min(A) = m /\ \A y \in A : m <= y
    BY MinIn
<1> HIDE DEF m
<1>2. m \in B /\ m \in Nat /\ \A y \in B : m <= y
  <2>1. ASSUME NEW y \in B PROVE m <= y
    <3>1. PICK x \in A : x <= y
        OBVIOUS
    <3>2. m <= x /\ x \in Nat /\ y \in Nat /\ m \in Nat
        BY <1>1
    <3> QED BY <3>1, <3>2
  <2> QED BY <1>1, <2>1
<1>3. Min(B) = m
    BY <1>2, MinIs
<1>4. V1!Min(B) = Min(B)
    BY DEF V1!Min, Min
<1> QED BY <1>1, <1>3, <1>4

\* The overflow levels' prices are bounded.
LEMMA OverflowBounded ==
  ASSUME NEW q \in Seq(OverflowRec)
  PROVE  \E n \in Nat : \A k \in DOMAIN q : q[k].price <= n
<1> DEFINE T == {i \in Nat : \E n \in Nat : \A k \in DOMAIN q : k <= i => q[k].price <= n}
<1>1. /\ Len(q) \in Nat /\ DOMAIN q = 1 .. Len(q)
      /\ \A k \in DOMAIN q : q[k].price \in Nat
  <2>1. Len(q) \in Nat /\ DOMAIN q = 1 .. Len(q) /\ \A k \in DOMAIN q : q[k] \in OverflowRec
      OBVIOUS
  <2>2. \A k \in DOMAIN q : q[k].price \in Price
      BY <2>1 DEF OverflowRec
  <2> QED BY <2>1, <2>2, BooksAssumption
<1>2. 0 \in T
    BY <1>1
<1>3. ASSUME NEW i \in Nat, i \in T PROVE i + 1 \in T
  <2>1. PICK n \in Nat : \A k \in DOMAIN q : k <= i => q[k].price <= n
      BY <1>3
  <2>2. CASE i + 1 \in DOMAIN q
    <3> DEFINE p == q[i + 1].price
    <3>1. p \in Nat
        BY <1>1, <2>2
    <3>2. \A k \in DOMAIN q : k <= i + 1 => k <= i \/ k = i + 1
        BY <1>1
    <3>3. \A k \in DOMAIN q : k = i + 1 => q[k].price = p
        OBVIOUS
    <3> HIDE DEF p
    <3>4. n + p \in Nat
        BY <3>1
    <3>5. ASSUME NEW k \in DOMAIN q, k <= i + 1 PROVE q[k].price <= n + p
      <4> DEFINE v == q[k].price
      <4>1. v \in Nat /\ (v <= n \/ v = p)
          BY <1>1, <2>1, <3>2, <3>3, <3>5
      <4> HIDE DEF v
      <4>2. v <= n + p
          BY <3>1, <4>1
      <4> QED BY <4>2 DEF v
    <3> DEFINE m == n + p
    <3>6. m \in Nat /\ \A k \in DOMAIN q : k <= i + 1 => q[k].price <= m
        BY <3>4, <3>5
    <3> HIDE DEF m
    <3>7. \E j \in Nat : \A k \in DOMAIN q : k <= i + 1 => q[k].price <= j
        BY <3>6
    <3> QED BY <3>7
  <2>3. CASE i + 1 \notin DOMAIN q
    <3>1. \A k \in DOMAIN q : k <= i + 1 => k <= i
        BY <1>1, <2>3
    <3>2. \A k \in DOMAIN q : k <= i + 1 => q[k].price <= n
        BY <2>1, <3>1
    <3> QED BY <3>2
  <2> QED BY <2>2, <2>3
<1>4. Nat \subseteq T
  <2> HIDE DEF T
  <2> QED BY <1>2, <1>3, NatSetInduction
<1>5. Len(q) \in T
    BY <1>1, <1>4
<1>6. PICK n \in Nat : \A k \in DOMAIN q : k <= Len(q) => q[k].price <= n
    BY <1>5
<1> QED BY <1>1, <1>6

\* The overflow levels best_bid_ask looks at.
LEMMA OverflowIs ==
  ASSUME NEW b, BookOK(b), NEW side \in Side, NEW p
  PROVE  p \in OverflowPrices(b, side) <=>
           /\ p \in Price
           /\ \E x : /\ LevelIs(b, x, side, p) /\ ~V3!InWindow(b, p)
                     /\ b.levels[x].head_idx # kNullIdx
<1>1. /\ b.overflow \in Seq(OverflowRec) /\ kWindow \in Nat
      /\ \A k \in DOMAIN b.overflow : ~V3!InWindow(b, b.overflow[k].price)
      /\ b.base_set \in BOOLEAN /\ (~b.base_set => b.overflow = <<>>)
    BY DenseFacts DEF BookOK, BookTyped, OverflowOK
<1>2. \A k \in DOMAIN b.overflow : /\ b.overflow[k] \in OverflowRec
                                   /\ 2 * kWindow - 1 + k = 2 * kWindow + k - 1
    BY <1>1
<1>3. \A k \in DOMAIN b.overflow : b.base_set
  <2> DEFINE none == <<>>
  <2>1. DOMAIN none = {}
      OBVIOUS
  <2>2. ~b.base_set => b.overflow = none
      BY <1>1
  <2> HIDE DEF none
  <2> QED BY <2>1, <2>2
<1>4. ASSUME p \in OverflowPrices(b, side)
      PROVE  /\ p \in Price
             /\ \E x : /\ LevelIs(b, x, side, p) /\ ~V3!InWindow(b, p)
                       /\ b.levels[x].head_idx # kNullIdx
  <2>1. PICK k \in DOMAIN b.overflow :
          /\ p = b.overflow[k].price /\ b.overflow[k].side = side
          /\ b.levels[2 * kWindow + k - 1].head_idx # kNullIdx
      BY <1>4 DEF OverflowPrices
  <2>2. p \in Price /\ b.overflow[k] = [side |-> side, price |-> p]
      BY <1>2, <2>1 DEF OverflowRec
  <2>3. ~V3!InWindow(b, p) /\ b.base_set
      BY <1>1, <1>3, <2>1
  <2>4. LevelIs(b, 2 * kWindow - 1 + k, side, p)
      BY <2>2, <2>3 DEF LevelIs
  <2> DEFINE x == 2 * kWindow - 1 + k
  <2>5. b.levels[x].head_idx # kNullIdx
      BY <1>2, <2>1
  <2> HIDE DEF x
  <2> QED BY <2>2, <2>3, <2>4, <2>5 DEF x
<1>5. ASSUME NEW x, LevelIs(b, x, side, p), ~V3!InWindow(b, p), b.levels[x].head_idx # kNullIdx
      PROVE  p \in OverflowPrices(b, side)
  <2>1. PICK k \in DOMAIN b.overflow :
          x = 2 * kWindow - 1 + k /\ b.overflow[k] = [side |-> side, price |-> p]
      BY <1>5 DEF LevelIs
  <2>2. b.levels[2 * kWindow + k - 1].head_idx # kNullIdx
      BY <1>2, <1>5, <2>1
  <2>3. b.overflow[k].side = side /\ b.overflow[k].price = p
      BY <2>1
  <2> QED BY <2>2, <2>3 DEF OverflowPrices
<1> QED BY <1>4, <1>5

\* A dense level that holds an order stands for a price.
LEMMA TakenStands ==
  ASSUME IInv, NEW sym \in Symbol, NEW x \in Taken(books[sym].levels)
  PROVE  \E side \in Side, price \in Price : LevelIs(books[sym], x, side, price)
<1>1. PICK L, F : Stands(L, F)
    BY DEF IInv
<1>2. V1Inv(v1_levels, v1_index)
    BY DEF IInv
<1> DEFINE b == books[sym]
<1>3. x \in Dense /\ x \in Nat /\ b.levels[x].head_idx # kNullIdx /\ BookTyped(b)
    BY <1>1, BookStands, DenseFacts DEF Taken, BookOK
<1>4. x \in DOMAIN b.levels
  <2> HIDE DEF b
  <2>1. /\ b.overflow \in Seq(OverflowRec)
        /\ b.levels \in [0 .. 2 * kWindow - 1 + Len(b.overflow) -> LevelRec]
      BY <1>3 DEF BookTyped
  <2>2. Len(b.overflow) \in Nat /\ DOMAIN b.levels = 0 .. 2 * kWindow - 1 + Len(b.overflow)
      BY <2>1
  <2> DEFINE n == Len(b.overflow)
  <2>3. n \in Nat /\ DOMAIN b.levels = 0 .. 2 * kWindow - 1 + n
      BY <2>2
  <2> HIDE DEF n
  <2>4. kWindow \in Nat /\ x \in 0 .. 2 * kWindow - 1
      BY <1>3, DenseFacts DEF Dense
  <2> QED BY <2>3, <2>4
<1>5. LevelAt(b, x) = b.levels[x]
    BY <1>4 DEF LevelAt
<1>6. Lists(slots, LevelAt(b, x), L[sym][x], x)
    BY <1>1, <1>3 DEF Stands, Rep, ListsOK
<1>7. 1 \in DOMAIN L[sym][x]
    BY <1>3, <1>5, <1>6 DEF Lists, Summary, At
<1>8. PICK r \in Ref : /\ refs[r] # kNullIdx
                       /\ LevelIs(b, x, v1_index[r].side, v1_index[r].price)
    BY <1>1, <1>3, <1>7, ListedKnown
<1>9. r \in DOMAIN v1_index
    BY <1>1, <1>2, <1>8, KnownListed
<1>10. v1_index[r].side \in Side /\ v1_index[r].price \in Price
    BY <1>2, <1>9, LocatorFinds
<1> QED BY <1>8, <1>10

\* The quoted prices of a side.
Prices(b, side) == {p \in Price : Quoted(b, side, p)}

\* What best_bid_ask looks at are quoted prices, and no quoted price is better
\* than all of them.
LEMMA BidsCover ==
  ASSUME IInv, NEW sym \in Symbol
  PROVE  LET b == books[sym]
             bids == CachedPrice(b, b.best_bid) \cup OverflowPrices(b, "B")
         IN  /\ bids \subseteq Prices(b, "B")
             /\ \A p \in Prices(b, "B") : \E y \in bids : p <= y
<1> DEFINE b == books[sym]
           T == Bids(Taken(b.levels))
           best == b.best_bid
           bids == CachedPrice(b, best) \cup OverflowPrices(b, "B")
<1>1. BookOK(b)
    BY BookStands DEF IInv
<1>2. /\ best = Highest(T) /\ T \subseteq 0 .. 2 * kWindow - 1 /\ 2 * kWindow - 1 \in Nat
      /\ b.base_cents \in Int /\ "B" \in Side /\ kWindow \in Nat
    BY <1>1, DenseFacts DEF BookOK, Scanned, BookTyped, Side
<1>3. IF T = {} THEN best = -1 ELSE best \in T /\ \A y \in T : y <= best
    BY <1>2, HighestIn
<1>4. ASSUME NEW x \in T
      PROVE  /\ x \in Dense /\ x < kWindow
             /\ \E p \in Price : LevelIs(b, x, "B", p) /\ b.levels[x].head_idx # kNullIdx
                                 /\ p = V3!PriceOf(b, x)
  <2>1. x \in Taken(b.levels) /\ x < kWindow /\ x \in Dense /\ b.levels[x].head_idx # kNullIdx
      BY DEF Bids, Taken
  <2>2. PICK d \in Side, p \in Price : LevelIs(b, x, d, p)
      BY <2>1, TakenStands
  <2>3. x < 2 * kWindow
      BY <1>2, <2>1 DEF Dense
  <2>4. p = V3!PriceOf(b, x) /\ (d = "B" <=> x < kWindow)
      BY <1>1, <2>2, <2>3, DensePrice
  <2> QED BY <2>1, <2>2, <2>4
<1> HIDE DEF b
<1>5. ASSUME NEW p \in bids PROVE p \in Prices(b, "B")
  <2>1. CASE p \in OverflowPrices(b, "B")
      BY <1>1, <1>2, <2>1, OverflowIs DEF Prices, Quoted
  <2>2. CASE p \in CachedPrice(b, best)
    <3>1. best >= 0 /\ p = V3!PriceOf(b, best)
        BY <2>2 DEF CachedPrice
    <3>2. best \in T
        BY <1>3, <3>1
    <3> HIDE DEF best, T
    <3> QED BY <1>4, <3>1, <3>2 DEF Prices, Quoted
  <2> QED BY <2>1, <2>2
<1>6. ASSUME NEW p \in Prices(b, "B") PROVE \E y \in bids : p <= y
  <2>1. PICK x : LevelIs(b, x, "B", p) /\ b.levels[x].head_idx # kNullIdx
      BY DEF Prices, Quoted
  <2>2. p \in Price /\ p \in Nat
      BY BooksAssumption DEF Prices
  <2>3. CASE ~V3!InWindow(b, p)
    <3>1. p \in OverflowPrices(b, "B")
        BY <1>1, <1>2, <2>1, <2>2, <2>3, OverflowIs
    <3> QED BY <2>2, <3>1
  <2>4. CASE V3!InWindow(b, p)
    <3>1. x < 2 * kWindow
      <4> DEFINE c == p \div Cent - b.base_cents
      <4>1. c \in 0 .. kWindow - 1 /\ x = c
        <5>1. c \in 0 .. kWindow - 1 /\ x = c + (IF "B" = "B" THEN 0 ELSE kWindow)
            BY <2>1, <2>4 DEF LevelIs, V3!InWindow
        <5> HIDE DEF c
        <5> QED BY <1>2, <5>1
      <4> HIDE DEF c
      <4> QED BY <1>2, <4>1
    <3>2. x \in Dense /\ p = V3!PriceOf(b, x) /\ x < kWindow
        BY <1>1, <1>2, <2>1, <2>2, <3>1, DensePrice
    <3>3. x \in T
        BY <2>1, <3>2 DEF Bids, Taken
    <3>4. best \in T /\ x <= best
        BY <1>3, <3>3
    <3>5. best \in Dense /\ best < kWindow /\ best >= 0
        BY <1>2, <1>4, <3>4
    <3>6. V3!PriceOf(b, x) <= V3!PriceOf(b, best)
        BY <1>2, <3>2, <3>4, <3>5, PriceOrder
    <3>7. V3!PriceOf(b, best) \in CachedPrice(b, best)
        BY <3>5 DEF CachedPrice
    <3> QED BY <3>2, <3>6, <3>7
  <2> QED BY <2>3, <2>4
<1> QED BY <1>5, <1>6 DEF b

\* The same for the asks.
LEMMA AsksCover ==
  ASSUME IInv, NEW sym \in Symbol
  PROVE  LET b == books[sym]
             asks == CachedPrice(b, b.best_ask) \cup OverflowPrices(b, "S")
         IN  /\ asks \subseteq Prices(b, "S")
             /\ \A p \in Prices(b, "S") : \E y \in asks : y <= p
<1> DEFINE b == books[sym]
           T == Asks(Taken(b.levels))
           best == b.best_ask
           asks == CachedPrice(b, best) \cup OverflowPrices(b, "S")
<1>1. BookOK(b)
    BY BookStands DEF IInv
<1>2. /\ best = Lowest(T) /\ T \subseteq Nat /\ T \subseteq Dense /\ 2 * kWindow - 1 \in Nat
      /\ b.base_cents \in Int /\ "S" \in Side /\ kWindow \in Nat
    BY <1>1, DenseFacts DEF BookOK, Scanned, BookTyped, Side, Asks
<1>3. IF T = {} THEN best = -1 ELSE best \in T /\ \A y \in T : best <= y
    BY <1>2, LowestIn
<1>4. ASSUME NEW x \in T
      PROVE  /\ x \in Dense /\ ~(x < kWindow)
             /\ \E p \in Price : LevelIs(b, x, "S", p) /\ b.levels[x].head_idx # kNullIdx
                                 /\ p = V3!PriceOf(b, x)
  <2>1. /\ x \in Taken(b.levels) /\ x >= kWindow /\ x \in Dense
        /\ b.levels[x].head_idx # kNullIdx
      BY DEF Asks, Taken
  <2>2. PICK d \in Side, p \in Price : LevelIs(b, x, d, p)
      BY <2>1, TakenStands
  <2>3. x < 2 * kWindow /\ ~(x < kWindow)
      BY <1>2, <2>1 DEF Dense
  <2>4. p = V3!PriceOf(b, x) /\ (d = "B" <=> x < kWindow)
      BY <1>1, <2>2, <2>3, DensePrice
  <2>5. d = "S"
      BY <2>3, <2>4 DEF Side
  <2> QED BY <2>1, <2>2, <2>3, <2>4, <2>5
<1> HIDE DEF b
<1>5. ASSUME NEW p \in asks PROVE p \in Prices(b, "S")
  <2>1. CASE p \in OverflowPrices(b, "S")
      BY <1>1, <1>2, <2>1, OverflowIs DEF Prices, Quoted
  <2>2. CASE p \in CachedPrice(b, best)
    <3>1. best >= 0 /\ p = V3!PriceOf(b, best)
        BY <2>2 DEF CachedPrice
    <3>2. best \in T
        BY <1>3, <3>1
    <3> HIDE DEF best, T
    <3> QED BY <1>4, <3>1, <3>2 DEF Prices, Quoted
  <2> QED BY <2>1, <2>2
<1>6. ASSUME NEW p \in Prices(b, "S") PROVE \E y \in asks : y <= p
  <2>1. PICK x : LevelIs(b, x, "S", p) /\ b.levels[x].head_idx # kNullIdx
      BY DEF Prices, Quoted
  <2>2. p \in Price /\ p \in Nat
      BY BooksAssumption DEF Prices
  <2>3. CASE ~V3!InWindow(b, p)
    <3>1. p \in OverflowPrices(b, "S")
        BY <1>1, <1>2, <2>1, <2>2, <2>3, OverflowIs
    <3> QED BY <2>2, <3>1
  <2>4. CASE V3!InWindow(b, p)
    <3>1. x < 2 * kWindow
      <4> DEFINE c == p \div Cent - b.base_cents
      <4>1. c \in 0 .. kWindow - 1 /\ x = c + kWindow
        <5>1. c \in 0 .. kWindow - 1 /\ x = c + (IF "S" = "B" THEN 0 ELSE kWindow)
            BY <2>1, <2>4 DEF LevelIs, V3!InWindow
        <5> HIDE DEF c
        <5> QED BY <1>2, <5>1
      <4> HIDE DEF c
      <4> QED BY <1>2, <4>1
    <3>2. x \in Dense /\ p = V3!PriceOf(b, x) /\ ~(x < kWindow)
        BY <1>1, <1>2, <2>1, <2>2, <3>1, DensePrice
    <3>3. x \in T
        BY <1>2, <2>1, <3>2 DEF Asks, Taken, Dense
    <3>4. best \in T /\ best <= x
        BY <1>3, <3>3
    <3>5. best \in Dense /\ ~(best < kWindow) /\ best >= 0
        BY <1>2, <1>4, <3>4
    <3>6. V3!PriceOf(b, best) <= V3!PriceOf(b, x)
        BY <1>2, <3>2, <3>4, <3>5, PriceOrder
    <3>7. V3!PriceOf(b, best) \in CachedPrice(b, best)
        BY <3>5 DEF CachedPrice
    <3> QED BY <3>2, <3>6, <3>7
  <2> QED BY <2>3, <2>4
<1> QED BY <1>5, <1>6 DEF b

\* The bids best_bid_ask looks at are bounded.
LEMMA BidsBounded ==
  ASSUME IInv, NEW sym \in Symbol
  PROVE  LET b == books[sym]
         IN  \E n \in Nat :
               CachedPrice(b, b.best_bid) \cup OverflowPrices(b, "B") \subseteq 0 .. n
<1> DEFINE b == books[sym]
           cached == CachedPrice(b, b.best_bid)
           over == OverflowPrices(b, "B")
<1>1. cached \cup over \subseteq Nat
  <2>1. cached \cup over \subseteq Prices(b, "B")
      BY BidsCover
  <2>2. Prices(b, "B") \subseteq Nat
      BY BooksAssumption DEF Prices
  <2> QED BY <2>1, <2>2
<1>2. b.overflow \in Seq(OverflowRec)
    BY BookStands DEF IInv, BookOK, BookTyped
<1>3. PICK m \in Nat : \A k \in DOMAIN b.overflow : b.overflow[k].price <= m
    BY <1>2, OverflowBounded
<1>4. \A p \in over : p <= m
    BY <1>3 DEF OverflowPrices
<1>5. cached = {} \/ \E c : cached = {c}
    BY DEF CachedPrice
<1> HIDE DEF b, cached, over
<1>6. CASE cached = {}
  <2>1. cached \cup over \subseteq 0 .. m
      BY <1>1, <1>4, <1>6
  <2> QED BY <2>1 DEF b, cached, over
<1>7. CASE cached # {}
  <2>1. PICK c : cached = {c}
      BY <1>5, <1>7
  <2>2. c \in Nat
      BY <1>1, <2>1
  <2>3. \A p \in cached \cup over : p \in 0 .. m + c
      BY <1>1, <1>4, <2>1, <2>2
  <2>4. m + c \in Nat /\ cached \cup over \subseteq 0 .. m + c
      BY <2>2, <2>3
  <2> QED BY <2>4 DEF b, cached, over
<1> QED BY <1>6, <1>7

\* When v3 knows every live order, both books show the same best prices.
LEMMA TopsStand == ASSUME IInv, AllKnown PROVE TopOfBookAgrees
<1> SUFFICES ASSUME NEW sym \in Symbol PROVE V3!TopOfBook(sym) = V1!TopOfBook(sym)
    BY DEF TopOfBookAgrees
<1> DEFINE b == books[sym]
           bids == CachedPrice(b, b.best_bid) \cup OverflowPrices(b, "B")
           asks == CachedPrice(b, b.best_ask) \cup OverflowPrices(b, "S")
           v1_bids == DOMAIN v1_levels[sym]["B"]
           v1_asks == DOMAIN v1_levels[sym]["S"]
<1>1. ASSUME NEW side \in Side
      PROVE  DOMAIN v1_levels[sym][side] = Prices(b, side) /\ Prices(b, side) \subseteq Nat
  <2>1. v1_levels[sym][side] \in SideLevels
      BY DEF IInv, V1Inv, LevelsType
  <2>2. DOMAIN v1_levels[sym][side] \subseteq Price /\ Price \subseteq Nat
      BY <2>1, SideLevelsMeaning, BooksAssumption
  <2> QED BY <2>2, QuotedAgrees DEF Prices
<1>2. /\ v1_bids = Prices(b, "B") /\ v1_bids \subseteq Nat
      /\ v1_asks = Prices(b, "S") /\ v1_asks \subseteq Nat
    BY <1>1 DEF Side
<1>3. bids \subseteq v1_bids /\ \A p \in v1_bids : \E y \in bids : p <= y
    BY <1>2, BidsCover
<1>4. asks \subseteq v1_asks /\ \A p \in v1_asks : \E y \in asks : y <= p
    BY <1>2, AsksCover
<1>5. PICK n \in Nat : bids \subseteq 0 .. n
    BY BidsBounded
<1>6. V3!TopOfBook(sym)
        = IF bids = {} \/ asks = {} THEN <<>> ELSE <<V3!Max(bids), V3!Min(asks)>>
    BY V3TopIs
<1>7. V1!TopOfBook(sym)
        = IF v1_bids = {} \/ v1_asks = {} THEN <<>> ELSE <<V1!Max(v1_bids), V1!Min(v1_asks)>>
    BY DEF V1!TopOfBook, V1!NoQuote
<1> HIDE DEF bids, asks, v1_bids, v1_asks
<1>8. (bids = {} <=> v1_bids = {}) /\ (asks = {} <=> v1_asks = {})
    BY <1>3, <1>4
<1>9. bids # {} => V3!Max(bids) = V1!Max(v1_bids)
    BY <1>2, <1>3, <1>5, SameMax
<1>10. asks # {} => V3!Min(asks) = V1!Min(v1_asks)
  <2>1. asks \subseteq Nat
      BY <1>2, <1>4
  <2> QED BY <1>2, <1>4, <2>1, SameMin
<1> QED BY <1>6, <1>7, <1>8, <1>9, <1>10

\* "They agree on top-of-book after every single message", for every legal feed,
\* window, price and number of symbols, as long as table and pool have room:
\* v3's window around the first price, its overflow levels, its bit scans and
\* its two cached best levels show what v1's sorted maps show.
THEOREM TopsAgree == Spec /\ []TableRoom /\ []PoolRoom => []TopOfBookAgrees
BY BooksStand, NothingMissed, TopsStand, PTL

-----------------------------------------------------------------------------
(* The order of v1's queues. *)

\* Order a is ahead of order b in the queue q of v1.
RefsBefore(q, a, b) == \E j, k \in DOMAIN q : j < k /\ q[j].ref = a /\ q[k].ref = b

\* The orders that stay live keep their side, price and order, and a new order
\* is ahead of none.
V1Kept(lv, index, lv2, index2) ==
  /\ \A a \in DOMAIN index : a \in DOMAIN index2 => index2[a] = index[a]
  /\ \A sym \in Symbol, side \in Side, price \in Price, a \in DOMAIN index2, b \in DOMAIN index2 :
       RefsBefore(QueueAt(lv, sym, side, price), a, b)
         => RefsBefore(QueueAt(lv2, sym, side, price), a, b)
  /\ \A sym \in Symbol, side \in Side, price \in Price, a \in Ref, b \in Ref :
       b \notin DOMAIN index => ~RefsBefore(QueueAt(lv2, sym, side, price), b, a)

\* Only live orders are queued.
LEMMA OnlyLive ==
  ASSUME NEW lv, NEW index, V1Inv(lv, index), NEW sym \in Symbol, NEW side \in Side,
         NEW price \in Price, NEW a, NEW b, RefsBefore(QueueAt(lv, sym, side, price), a, b)
  PROVE  a \in DOMAIN index /\ b \in DOMAIN index
<1> DEFINE q == QueueAt(lv, sym, side, price)
<1>1. Filed(index, sym, side, price, q)
    BY DEF V1Inv, QueuedOnce
<1> HIDE DEF q
<1>2. \A k \in DOMAIN q : q[k].ref \in DOMAIN index
    BY <1>1 DEF Filed
<1> QED BY <1>2 DEF RefsBefore, q

\* An order that joins a queue comes last.
LEMMA V1KeptAdd ==
  ASSUME NEW lv, NEW index, V1Inv(lv, index), NEW r \in Ref, r \notin DOMAIN index,
         NEW side \in Side, NEW price \in Price, NEW n \in Uint
  PROVE  V1Kept(lv, index, V1!PushBack(lv, r, side, price, n), V1!Indexed(index, r, side, price))
<1> DEFINE lv2 == V1!PushBack(lv, r, side, price, n)
           index2 == V1!Indexed(index, r, side, price)
           entry == [ref |-> r, shares |-> n]
           old == QueueAt(lv, SymbolOf[r], side, price)
<1>1. Others(lv, index, lv2, index2, r)
    BY PushEntries
<1>2. QueueBecomes(lv2, lv, SymbolOf[r], side, price, Append(old, entry))
    BY PushBackQueues DEF V1Inv
<1>3. old \in Seq(Entry) /\ SymbolOf[r] \in Symbol
    BY QueueType, BooksAssumption DEF V1Inv
<1>4. ASSUME NEW a, NEW b, RefsBefore(old, a, b) PROVE RefsBefore(Append(old, entry), a, b)
    BY <1>3, <1>4 DEF RefsBefore
<1>5. ASSUME NEW a, NEW b, RefsBefore(Append(old, entry), a, b) PROVE a \in DOMAIN index
  <2>1. \A j \in DOMAIN old : old[j].ref \in DOMAIN index
      BY <1>3 DEF V1Inv, QueuedOnce, Filed
  <2>2. \A j, k \in DOMAIN Append(old, entry) : j < k =>
          j \in DOMAIN old /\ Append(old, entry)[j] = old[j]
      BY <1>3
  <2> QED BY <1>5, <2>1, <2>2 DEF RefsBefore
<1> HIDE DEF lv2, index2, entry, old
<1>6. ASSUME NEW sym \in Symbol, NEW d \in Side, NEW p \in Price
      PROVE  \/ QueueAt(lv2, sym, d, p) = QueueAt(lv, sym, d, p)
             \/ /\ QueueAt(lv2, sym, d, p) = Append(old, entry)
                /\ QueueAt(lv, sym, d, p) = old
    BY <1>2 DEF QueueBecomes, old
<1>7. \A sym \in Symbol, d \in Side, p \in Price, a \in DOMAIN index2, b \in DOMAIN index2 :
        RefsBefore(QueueAt(lv, sym, d, p), a, b) => RefsBefore(QueueAt(lv2, sym, d, p), a, b)
    BY <1>4, <1>6
<1>8. \A sym \in Symbol, d \in Side, p \in Price, a \in Ref, b \in Ref :
        b \notin DOMAIN index => ~RefsBefore(QueueAt(lv2, sym, d, p), b, a)
    BY <1>5, <1>6, OnlyLive
<1>9. \A a \in DOMAIN index : a \in DOMAIN index2 => index2[a] = index[a]
    BY <1>1 DEF Others
<1> QED BY <1>7, <1>8, <1>9 DEF V1Kept, lv2, index2

\* An order that leaves its queue leaves the others in order.
LEMMA V1KeptLeave ==
  ASSUME V1Inv(v1_levels, v1_index), NEW r \in DOMAIN v1_index
  PROVE  V1Kept(v1_levels, v1_index,
                V1!RemoveLocator(v1_levels, v1_index, r), V1!Unindexed(v1_index, r))
<1> DEFINE lv2 == V1!RemoveLocator(v1_levels, v1_index, r)
           index2 == V1!Unindexed(v1_index, r)
           old == QueueOf(v1_levels, v1_index, r)
           place == Place(v1_levels, v1_index, r)
           side == v1_index[r].side
           price == v1_index[r].price
<1>1. DOMAIN index2 = DOMAIN v1_index \ {r} /\ Others(v1_levels, v1_index, lv2, index2, r)
    BY RemoveEntries
<1>2. QueueBecomes(lv2, v1_levels, SymbolOf[r], side, price, Shorter(old, place))
    BY RemoveLocatorQueues
<1>3. /\ old \in Seq(Entry) /\ place \in DOMAIN old /\ old[place].ref = r
      /\ old = QueueAt(v1_levels, SymbolOf[r], side, price)
      /\ Filed(v1_index, SymbolOf[r], side, price, old)
    BY LocatorFinds DEF QueueOf
<1> HIDE DEF lv2, index2, old, place, side, price
<1>4. /\ Len(old) \in Nat /\ DOMAIN old = 1 .. Len(old)
      /\ DOMAIN Shorter(old, place) = 1 .. Len(old) - 1
      /\ \A j \in 1 .. Len(old) - 1 :
           Shorter(old, place)[j] = IF j < place THEN old[j] ELSE old[j + 1]
    BY <1>3, ShorterSeq
<1>5. ASSUME NEW a, NEW b, a # r, b # r, RefsBefore(old, a, b)
      PROVE  RefsBefore(Shorter(old, place), a, b)
  <2>1. PICK j, k \in 1 .. Len(old) : j < k /\ old[j].ref = a /\ old[k].ref = b
      BY <1>4, <1>5 DEF RefsBefore
  <2>2. j # place /\ k # place /\ place \in 1 .. Len(old)
      BY <1>3, <1>4, <1>5, <2>1
  <2> DEFINE x == IF j < place THEN j ELSE j - 1
             y == IF k < place THEN k ELSE k - 1
  <2>3. /\ x \in 1 .. Len(old) - 1 /\ y \in 1 .. Len(old) - 1 /\ x < y
        /\ (j < place => x = j /\ x < place) /\ (~(j < place) => x + 1 = j /\ ~(x < place))
        /\ (k < place => y = k /\ y < place) /\ (~(k < place) => y + 1 = k /\ ~(y < place))
      BY <1>4, <2>1, <2>2
  <2> HIDE DEF x, y
  <2>4. Shorter(old, place)[x] = old[j] /\ Shorter(old, place)[y] = old[k]
      BY <1>4, <2>3
  <2> QED BY <1>4, <2>1, <2>3, <2>4 DEF RefsBefore
<1>6. ASSUME NEW a, NEW b, RefsBefore(Shorter(old, place), a, b) PROVE a \in DOMAIN v1_index
  <2>1. \A j \in DOMAIN old : old[j].ref \in DOMAIN v1_index
      BY <1>3 DEF Filed
  <2>2. PICK j \in 1 .. Len(old) - 1 : Shorter(old, place)[j].ref = a
      BY <1>4, <1>6 DEF RefsBefore
  <2>3. j \in DOMAIN old /\ j + 1 \in DOMAIN old
      BY <1>4, <2>2
  <2> QED BY <1>4, <2>1, <2>2, <2>3
<1>7. ASSUME NEW sym \in Symbol, NEW d \in Side, NEW p \in Price
      PROVE  \/ QueueAt(lv2, sym, d, p) = QueueAt(v1_levels, sym, d, p)
             \/ /\ QueueAt(lv2, sym, d, p) = Shorter(old, place)
                /\ QueueAt(v1_levels, sym, d, p) = old
    BY <1>2, <1>3 DEF QueueBecomes
<1>8. \A sym \in Symbol, d \in Side, p \in Price, a \in DOMAIN index2, b \in DOMAIN index2 :
        RefsBefore(QueueAt(v1_levels, sym, d, p), a, b)
          => RefsBefore(QueueAt(lv2, sym, d, p), a, b)
    BY <1>1, <1>5, <1>7
<1>9. \A sym \in Symbol, d \in Side, p \in Price, a \in Ref, b \in Ref :
        b \notin DOMAIN v1_index => ~RefsBefore(QueueAt(lv2, sym, d, p), b, a)
    BY <1>6, <1>7, OnlyLive
<1>10. \A a \in DOMAIN v1_index : a \in DOMAIN index2 => index2[a] = v1_index[a]
    BY <1>1 DEF Others
<1> QED BY <1>8, <1>9, <1>10 DEF V1Kept, lv2, index2

\* A partial execution or cancel moves no order.
LEMMA V1KeptSet ==
  ASSUME V1Inv(v1_levels, v1_index), NEW r \in DOMAIN v1_index, NEW n \in Uint
  PROVE  V1Kept(v1_levels, v1_index, V1!SetShares(v1_levels, v1_index, r, n), v1_index)
<1> DEFINE lv2 == V1!SetShares(v1_levels, v1_index, r, n)
           old == QueueOf(v1_levels, v1_index, r)
           place == Place(v1_levels, v1_index, r)
           side == v1_index[r].side
           price == v1_index[r].price
<1>1. QueueBecomes(lv2, v1_levels, SymbolOf[r], side, price, WithShares(old, place, n))
    BY SetSharesQueues
<1>2. /\ old \in Seq(Entry) /\ place \in DOMAIN old
      /\ old = QueueAt(v1_levels, SymbolOf[r], side, price)
    BY LocatorFinds DEF QueueOf
<1> HIDE DEF lv2, old, place, side, price
<1>3. /\ DOMAIN WithShares(old, place, n) = DOMAIN old
      /\ \A j \in DOMAIN old : WithShares(old, place, n)[j].ref = old[j].ref
  <2>1. /\ DOMAIN WithShares(old, place, n) = DOMAIN old
        /\ \A j \in DOMAIN old : WithShares(old, place, n)[j]
             = IF j = place THEN [ref |-> old[j].ref, shares |-> n] ELSE old[j]
      BY <1>2, SharesSet
  <2> QED BY <2>1
<1>4. \A a, b : RefsBefore(WithShares(old, place, n), a, b) <=> RefsBefore(old, a, b)
    BY <1>3 DEF RefsBefore
<1>5. ASSUME NEW sym \in Symbol, NEW d \in Side, NEW p \in Price
      PROVE  \A a, b : RefsBefore(QueueAt(lv2, sym, d, p), a, b)
                         <=> RefsBefore(QueueAt(v1_levels, sym, d, p), a, b)
  <2>1. \/ QueueAt(lv2, sym, d, p) = QueueAt(v1_levels, sym, d, p)
        \/ /\ QueueAt(lv2, sym, d, p) = WithShares(old, place, n)
           /\ QueueAt(v1_levels, sym, d, p) = old
      BY <1>1, <1>2 DEF QueueBecomes
  <2> QED BY <1>4, <2>1
<1>6. \A sym \in Symbol, d \in Side, p \in Price, a \in Ref, b \in Ref :
        b \notin DOMAIN v1_index => ~RefsBefore(QueueAt(lv2, sym, d, p), b, a)
    BY <1>5, OnlyLive
<1> QED BY <1>5, <1>6 DEF V1Kept, lv2

\* A message that changes nothing.
LEMMA V1KeptSame ==
  ASSUME V1Inv(v1_levels, v1_index)
  PROVE  V1Kept(v1_levels, v1_index, v1_levels, v1_index)
BY OnlyLive DEF V1Kept

\* Two changes, one after the other.
LEMMA V1KeptTwice ==
  ASSUME NEW lv, NEW index, V1Inv(lv, index), NEW lv1, NEW index1, NEW lv2, NEW index2,
         V1Kept(lv, index, lv1, index1), V1Kept(lv1, index1, lv2, index2),
         DOMAIN index1 \subseteq DOMAIN index,
         \A a \in DOMAIN index : a \in DOMAIN index2 => a \in DOMAIN index1
  PROVE  V1Kept(lv, index, lv2, index2)
<1>1. \A a \in DOMAIN index : a \in DOMAIN index2 => index2[a] = index[a]
    BY DEF V1Kept
<1>2. ASSUME NEW sym \in Symbol, NEW side \in Side, NEW price \in Price,
             NEW a \in DOMAIN index2, NEW b \in DOMAIN index2,
             RefsBefore(QueueAt(lv, sym, side, price), a, b)
      PROVE  RefsBefore(QueueAt(lv2, sym, side, price), a, b)
  <2>1. a \in DOMAIN index1 /\ b \in DOMAIN index1
      BY <1>2, OnlyLive
  <2>2. RefsBefore(QueueAt(lv1, sym, side, price), a, b)
      BY <1>2, <2>1 DEF V1Kept
  <2> QED BY <2>2 DEF V1Kept
<1>3. \A sym \in Symbol, side \in Side, price \in Price, a \in Ref, b \in Ref :
        b \notin DOMAIN index => ~RefsBefore(QueueAt(lv2, sym, side, price), b, a)
    BY DEF V1Kept
<1> QED BY <1>1, <1>2, <1>3 DEF V1Kept

\* An execution or a cancel, whole or in part.
LEMMA V1KeptReduce ==
  ASSUME V1Inv(v1_levels, v1_index), NEW r \in Ref, NEW n \in Takeable(r),
         V1!Reduce(r, n)
  PROVE  V1Kept(v1_levels, v1_index, v1_levels', v1_index')
<1>1. CASE UNCHANGED <<v1_levels, v1_index>>
    BY <1>1, V1KeptSame
<1>2. CASE V1!Live(r) /\ V1!Leave(r)
  <2>1. r \in DOMAIN v1_index
      BY <1>2 DEF V1!Live
  <2> QED BY <1>2, <2>1, V1KeptLeave DEF V1!Leave
<1>3. CASE /\ V1!Live(r) /\ UNCHANGED v1_index
           /\ v1_levels' = V1!SetShares(v1_levels, v1_index, r,
                                         (V1!SharesOf(v1_levels, v1_index, r) - n) % UintMod)
  <2>1. r \in DOMAIN v1_index
      BY <1>3 DEF V1!Live
  <2>2. QueueOf(v1_levels, v1_index, r)[Place(v1_levels, v1_index, r)] \in Entry
      BY <2>1, LocatorFinds
  <2>3. V1!SharesOf(v1_levels, v1_index, r) \in Uint
      BY <2>1, <2>2, LocatorFinds DEF Entry
  <2>4. n \in 1 .. V1!SharesOf(v1_levels, v1_index, r)
      BY <1>3 DEF Takeable
  <2>5. (V1!SharesOf(v1_levels, v1_index, r) - n) % UintMod \in Uint
      BY <2>3, <2>4, BooksAssumption DEF Uint
  <2> QED BY <1>3, <2>1, <2>5, V1KeptSet
<1> QED BY <1>1, <1>2, <1>3 DEF V1!Reduce, V1!vars

\* A replacement leaves its queue and joins one, as another order.
LEMMA V1KeptReplace ==
  ASSUME V1Inv(v1_levels, v1_index), NEW r \in Ref, NEW new \in Ref, NEW q \in Quotes,
         Replace(r, new, q)
  PROVE  V1Kept(v1_levels, v1_index, v1_levels', v1_index')
<1>1. q.side \in Side /\ q.price \in Price /\ q.shares \in Uint
    BY BooksAssumption DEF Side, Uint
<1>2. CASE UNCHANGED <<v1_levels, v1_index>>
    BY <1>2, V1KeptSame
<1>3. CASE V1!Live(r) /\ ~UNCHANGED <<v1_levels, v1_index>>
  <2> DEFINE lv1 == V1!RemoveLocator(v1_levels, v1_index, r)
             index1 == V1!Unindexed(v1_index, r)
             side == v1_index[r].side
  <2>1. r \in DOMAIN v1_index /\ new \notin DOMAIN v1_index
      BY <1>3 DEF V1!Live, Replace
  <2>2. /\ V1Inv(lv1, index1) /\ DOMAIN index1 = DOMAIN v1_index \ {r} /\ side \in Side
        /\ V1Kept(v1_levels, v1_index, lv1, index1)
      BY <2>1, RemoveKeeps, LocatorFinds, V1KeptLeave
  <2>3. /\ v1_levels' = V1!PushBack(lv1, new, side, q.price, q.shares)
        /\ v1_index' = V1!Indexed(index1, new, side, q.price)
      BY <1>3 DEF Replace, V1!ReplaceOrder, V1!vars
  <2> HIDE DEF lv1, index1, side
  <2> DEFINE lv2 == V1!PushBack(lv1, new, side, q.price, q.shares)
             index2 == V1!Indexed(index1, new, side, q.price)
  <2>4. new \notin DOMAIN index1
      BY <2>1, <2>2
  <2>5. V1Kept(lv1, index1, lv2, index2)
      BY <1>1, <2>2, <2>4, V1KeptAdd
  <2>6. /\ DOMAIN index2 = DOMAIN index1 \cup {new}
        /\ index2[new] = [side |-> side, price |-> q.price]
        /\ HasLive(lv2, index2, new, q.shares)
        /\ Others(lv1, index1, lv2, index2, new)
      BY <1>1, <2>2, <2>4, PushEntries
  <2> HIDE DEF lv2, index2
  <2>7. V1Kept(v1_levels, v1_index, lv2, index2)
      BY <2>1, <2>2, <2>5, <2>6, V1KeptTwice
  <2> QED BY <2>3, <2>7 DEF lv2, index2
<1> QED BY <1>2, <1>3 DEF Replace, V1!ReplaceOrder, V1!vars

\* Whatever message comes, v1 keeps the order of what stays.
LEMMA V1AllKept ==
  ASSUME V1Inv(v1_levels, v1_index), [Next]_vars
  PROVE  V1Kept(v1_levels, v1_index, v1_levels', v1_index')
<1>1. ASSUME NEW r \in Ref, NEW q \in Quotes, Add(r, q)
      PROVE  V1Kept(v1_levels, v1_index, v1_levels', v1_index')
  <2>1. /\ r \notin DOMAIN v1_index
        /\ v1_levels' = V1!PushBack(v1_levels, r, q.side, q.price, q.shares)
        /\ v1_index' = V1!Indexed(v1_index, r, q.side, q.price)
      BY <1>1 DEF Add, V1!Live, V1!AddOrder
  <2>2. q.side \in Side /\ q.price \in Price /\ q.shares \in Uint
      BY BooksAssumption DEF Side, Uint
  <2> QED BY <2>1, <2>2, V1KeptAdd
<1>2. ASSUME NEW r \in Ref, Execute(r)
      PROVE  V1Kept(v1_levels, v1_index, v1_levels', v1_index')
    BY <1>2, V1KeptReduce DEF Execute, V1!ExecuteOrder
<1>3. ASSUME NEW r \in Ref, Cancel(r)
      PROVE  V1Kept(v1_levels, v1_index, v1_levels', v1_index')
    BY <1>3, V1KeptReduce DEF Cancel, V1!CancelOrder
<1>4. ASSUME NEW r \in Ref, Delete(r)
      PROVE  V1Kept(v1_levels, v1_index, v1_levels', v1_index')
  <2>1. CASE UNCHANGED <<v1_levels, v1_index>>
      BY <2>1, V1KeptSame
  <2>2. CASE V1!Live(r) /\ V1!Leave(r)
    <3>1. r \in DOMAIN v1_index
        BY <2>2 DEF V1!Live
    <3> QED BY <2>2, <3>1, V1KeptLeave DEF V1!Leave
  <2> QED BY <1>4, <2>1, <2>2 DEF Delete, V1!DeleteOrder, V1!vars
<1>5. ASSUME NEW r \in Ref, NEW new \in Ref, NEW q \in Quotes, Replace(r, new, q)
      PROVE  V1Kept(v1_levels, v1_index, v1_levels', v1_index')
    BY <1>5, V1KeptReplace
<1>6. CASE UNCHANGED vars
    BY <1>6, V1KeptSame DEF vars
<1> QED BY <1>1, <1>2, <1>3, <1>4, <1>5, <1>6 DEF Next

-----------------------------------------------------------------------------
(* The same order in both books. *)

\* What is listed in front is queued in front.
OrderAgrees(L) ==
  \A sym \in Symbol, x \in Nat, side \in Side, price \in Price, a \in Ref, b \in Ref :
    LevelIs(books[sym], x, side, price) /\ refs[a] # kNullIdx /\ refs[b] # kNullIdx =>
      (Precedes(L[sym][x], refs[a], refs[b])
         => RefsBefore(QueueAt(v1_levels, sym, side, price), a, b))

\* Different elements of a list are one before the other, and not both ways.
LEMMA OneFirst ==
  ASSUME NEW q \in Seq(Slot), Distinct(q)
  PROVE  /\ \A s, t \in Range(q) : s = t \/ Precedes(q, s, t) \/ Precedes(q, t, s)
         /\ \A s, t : Precedes(q, s, t) => /\ s \in Range(q) /\ t \in Range(q) /\ s # t
                                         /\ ~Precedes(q, t, s)
<1>1. /\ Len(q) \in Nat /\ DOMAIN q = 1 .. Len(q)
      /\ \A s : s \in Range(q) <=> \E k \in 1 .. Len(q) : q[k] = s
    BY SeqFacts
<1>2. ASSUME NEW s \in Range(q), NEW t \in Range(q), s # t
      PROVE  Precedes(q, s, t) \/ Precedes(q, t, s)
  <2>1. PICK j, k \in 1 .. Len(q) : q[j] = s /\ q[k] = t
      BY <1>1
  <2>2. j < k \/ k < j
      BY <1>1, <1>2, <2>1
  <2> QED BY <1>1, <2>1, <2>2 DEF Precedes
<1>3. ASSUME NEW s, NEW t, Precedes(q, s, t)
      PROVE  s \in Range(q) /\ t \in Range(q) /\ s # t /\ ~Precedes(q, t, s)
  <2>1. PICK j, k \in 1 .. Len(q) : j < k /\ q[j] = s /\ q[k] = t
      BY <1>1, <1>3 DEF Precedes
  <2>2. s # t
      BY <1>1, <2>1 DEF Distinct
  <2>3. ASSUME Precedes(q, t, s) PROVE FALSE
    <3>1. PICK m, l \in 1 .. Len(q) : m < l /\ q[m] = t /\ q[l] = s
        BY <1>1, <2>3 DEF Precedes
    <3>2. l = j /\ m = k
        BY <1>1, <2>1, <3>1 DEF Distinct
    <3> QED BY <2>1, <3>1, <3>2
  <2> QED BY <1>1, <2>1, <2>2, <2>3
<1> QED BY <1>2, <1>3

\* A known order of a list has the side and price of its level.
LEMMA PriceOfListed ==
  ASSUME V1Inv(v1_levels, v1_index), NEW L, NEW F, Stands(L, F),
         NEW sym \in Symbol, NEW x \in Nat, NEW side \in Side, NEW price \in Price,
         LevelIs(books[sym], x, side, price),
         NEW r \in Ref, refs[r] \in Range(L[sym][x])
  PROVE  /\ r \in DOMAIN v1_index /\ SymbolOf[r] = sym /\ refs[r] # kNullIdx
         /\ v1_index[r] = [side |-> side, price |-> price]
<1>1. L[sym][x] \in Seq(Slot) /\ Injective(refs)
    BY DEF Stands, Rep, LevelLists
<1>2. PICK k \in DOMAIN L[sym][x] : L[sym][x][k] = refs[r]
    BY <1>1, SeqFacts
<1>3. PICK r2 \in Ref : /\ refs[r2] = refs[r] /\ refs[r2] # kNullIdx /\ SymbolOf[r2] = sym
                        /\ LevelIs(books[sym], x, v1_index[r2].side, v1_index[r2].price)
    BY <1>2, ListedKnown
<1>4. r2 = r
    BY <1>1, <1>3 DEF Injective
<1>5. r \in DOMAIN v1_index
    BY <1>3, <1>4, KnownListed
<1>6. /\ v1_index[r].side \in Side /\ v1_index[r].price \in Price
      /\ v1_index[r] = [side |-> v1_index[r].side, price |-> v1_index[r].price]
    BY <1>5, LocatorFinds
<1>7. BookOK(books[sym])
    BY BookStands
<1>8. v1_index[r].side = side /\ v1_index[r].price = price
    BY <1>3, <1>4, <1>6, <1>7, OnePrice
<1> QED BY <1>3, <1>4, <1>5, <1>6, <1>8

\* A known order is in the list of the level for its side and price.
LEMMA ListedAtPrice ==
  ASSUME V1Inv(v1_levels, v1_index), NEW L, NEW F, Stands(L, F),
         NEW x, NEW r \in Ref, refs[r] # kNullIdx,
         LevelIs(books[SymbolOf[r]], x, v1_index[r].side, v1_index[r].price)
  PROVE  refs[r] \in Range(L[SymbolOf[r]][x])
<1>1. PICK y \in Nat : /\ LevelIs(books[SymbolOf[r]], y, v1_index[r].side, v1_index[r].price)
                       /\ refs[r] \in Range(L[SymbolOf[r]][y])
    BY KnownListed
<1>2. SymbolOf[r] \in Symbol
    BY KnownListed
<1>3. BookOK(books[SymbolOf[r]])
    BY <1>2, BookStands
<1>4. x = y
    BY <1>1, <1>3, OneLevel
<1> QED BY <1>1, <1>4

\* The lemma above, for a step to use in the state it reaches.
PricesOfListed == V1Inv(v1_levels, v1_index) => \A L, F : Stands(L, F) =>
  \A sym \in Symbol, x \in Nat, side \in Side, price \in Price, r \in Ref :
    LevelIs(books[sym], x, side, price) /\ refs[r] \in Range(L[sym][x]) =>
      /\ r \in DOMAIN v1_index /\ SymbolOf[r] = sym /\ refs[r] # kNullIdx
      /\ v1_index[r] = [side |-> side, price |-> price]

\* It holds of every state.
LEMMA PricesListed == PricesOfListed
BY PriceOfListed DEF PricesOfListed

\* No step changes the order in one book only.
LEMMA OrderKept ==
  ASSUME V1Inv(v1_levels, v1_index), V1Inv(v1_levels, v1_index)', PricesOfListed',
         NEW L, NEW F, Stands(L, F), OrderAgrees(L), NEW L2, NEW F2, Stands(L2, F2)',
         Kept(refs, books, L, refs', books', L2), Accounted,
         V1Kept(v1_levels, v1_index, v1_levels', v1_index')
  PROVE  OrderAgrees(L2)'
<1> SUFFICES ASSUME NEW sym \in Symbol, NEW x \in Nat, NEW side \in Side, NEW price \in Price,
                    NEW a \in Ref, NEW b \in Ref, LevelIs(books'[sym], x, side, price),
                    refs'[a] # kNullIdx, refs'[b] # kNullIdx,
                    Precedes(L2[sym][x], refs'[a], refs'[b])
             PROVE  RefsBefore(QueueAt(v1_levels', sym, side, price), a, b)
    BY DEF OrderAgrees
<1>1. /\ refs'[a] \in Range(L2[sym][x]) /\ refs'[b] \in Range(L2[sym][x])
      /\ refs'[a] # refs'[b] /\ ~Precedes(L2[sym][x], refs'[b], refs'[a])
  <2>1. L2[sym][x] \in Seq(Slot) /\ Distinct(L2[sym][x])
      BY DEF Stands, Rep, ListsOK, Lists
  <2> QED BY <2>1, OneFirst
<1>2. /\ a \in DOMAIN v1_index' /\ SymbolOf[a] = sym
      /\ v1_index'[a] = [side |-> side, price |-> price]
      /\ b \in DOMAIN v1_index' /\ SymbolOf[b] = sym
      /\ v1_index'[b] = [side |-> side, price |-> price]
    BY <1>1 DEF PricesOfListed
<1>3. refs[a] # kNullIdx
    BY DEF Kept
<1>4. CASE refs[b] # kNullIdx
  <2>1. ASSUME NEW r \in {a, b}
        PROVE  /\ r \in DOMAIN v1_index
               /\ LevelIs(books[sym], x, side, price) /\ refs[r] \in Range(L[sym][x])
    <3>1. PICK y \in Nat :
            /\ LevelIs(books[SymbolOf[r]], y, v1_index[r].side, v1_index[r].price)
            /\ refs[r] \in Range(L[SymbolOf[r]][y])
        BY <1>3, <1>4, KnownListed
    <3>2. r \in DOMAIN v1_index
        BY <1>3, <1>4, KnownListed
    <3>3. v1_index[r] = [side |-> side, price |-> price] /\ SymbolOf[r] = sym
        BY <1>2, <3>2 DEF V1Kept
    <3>4. LevelIs(books[sym], y, side, price) /\ refs[r] \in Range(L[sym][y])
        BY <3>1, <3>3
    <3>5. LevelIs(books'[sym], y, side, price)
        BY <3>4 DEF Kept
    <3>6. BookOK(books'[sym])
        BY DEF Stands, Rep, BooksOK
    <3>7. y = x
        BY <3>5, <3>6, OneLevel
    <3> QED BY <3>2, <3>4, <3>7
  <2>2. refs[a] # refs[b]
      BY <1>1, <1>3 DEF Stands, Rep, Injective
  <2>3. Precedes(L[sym][x], refs[a], refs[b]) \/ Precedes(L[sym][x], refs[b], refs[a])
    <3>1. L[sym][x] \in Seq(Slot) /\ Distinct(L[sym][x])
        BY DEF Stands, Rep, ListsOK, Lists
    <3> QED BY <2>1, <2>2, <3>1, OneFirst
  <2>4. Precedes(L[sym][x], refs[a], refs[b])
      BY <1>1, <2>3 DEF Kept
  <2>5. RefsBefore(QueueAt(v1_levels, sym, side, price), a, b)
      BY <1>3, <1>4, <2>1, <2>4 DEF OrderAgrees
  <2> QED BY <1>2, <2>5 DEF V1Kept
<1>5. CASE refs[b] = kNullIdx
  <2> DEFINE q == QueueAt(v1_levels', sym, side, price)
  <2>1. b \notin DOMAIN v1_index
      BY <1>5 DEF Accounted
  <2>2. ~RefsBefore(q, b, a)
      BY <2>1 DEF V1Kept
  <2>3. q \in Seq(Entry)
      BY QueueType DEF V1Inv
  <2>4. Queues(q, a) /\ Queues(q, b)
    <3>1. \A r \in DOMAIN v1_index' : Queues(QueueOf(v1_levels', v1_index', r), r)
        BY DEF V1Inv, QueuedOnce
    <3> QED BY <1>2, <3>1 DEF QueueOf
  <2> HIDE DEF q
  <2>5. PICK j, k \in DOMAIN q : q[j].ref = a /\ q[k].ref = b
      BY <2>4 DEF Queues
  <2>6. a # b
      BY <1>1
  <2>7. j < k \/ k < j
      BY <2>3, <2>5, <2>6
  <2> QED BY <2>2, <2>5, <2>7 DEF RefsBefore, q
<1> QED BY <1>4, <1>5

\* Both books in order, and the lists in the order of v1's queues.
IOrdered == V1Inv(v1_levels, v1_index) /\ \E L, F : Stands(L, F) /\ OrderAgrees(L)

\* While the reference table has room for the orders that rest, what both
\* books know rests in the same order in both.
THEOREM OrderStands == Spec /\ []TableRoom => []IOrdered
<1>1. Init => IOrdered
  <2> SUFFICES ASSUME Init PROVE IOrdered
      OBVIOUS
  <2>1. PICK L, F : Stands(L, F)
      BY InitStands
  <2>2. \A r \in Ref : refs[r] = kNullIdx
      BY SlotFacts DEF Init, V3!Init, V3!Table!Empty
  <2>3. OrderAgrees(L)
      BY <2>2 DEF OrderAgrees
  <2> QED BY <2>1, <2>3, V1Init DEF IOrdered
<1>2. IOrdered /\ [Next]_vars /\ TableRoom' /\ PricesOfListed' => IOrdered'
  <2> SUFFICES ASSUME IOrdered, [Next]_vars, TableRoom', PricesOfListed' PROVE IOrdered'
      OBVIOUS
  <2>1. V1Inv(v1_levels, v1_index) /\ V1Inv(v1_levels, v1_index)'
      BY V1Next DEF IOrdered
  <2>2. PICK L, F : Stands(L, F) /\ OrderAgrees(L)
      BY DEF IOrdered
  <2>3. Moves(L)
      BY <2>1, <2>2, AllMoves
  <2>4. PICK L2, F2 : Stands(L2, F2)' /\ Kept(refs, books, L, refs', books', L2)
      BY <2>3 DEF Moves
  <2>5. Accounted
      BY <2>3 DEF Moves
  <2>6. OrderAgrees(L2)'
      BY <2>1, <2>2, <2>4, <2>5, V1AllKept, OrderKept
  <2> QED BY <2>1, <2>4, <2>6 DEF IOrdered
<1> QED BY <1>1, <1>2, PricesListed, PTL DEF Spec

\* A queue of v1 with the orders as sets, as v3's are written.
LEMMA QueueV1Is ==
  ASSUME V1Inv(v1_levels, v1_index),
         NEW sym \in Symbol, NEW side \in Side, NEW price \in Price
  PROVE  LET q == QueueAt(v1_levels, sym, side, price)
         IN  /\ q \in Seq(Entry) /\ Filed(v1_index, sym, side, price, q)
             /\ QueueV1(sym, side, price)
                  = [k \in DOMAIN q |-> [refs |-> {q[k].ref}, shares |-> q[k].shares]]
<1> DEFINE q == QueueAt(v1_levels, sym, side, price)
<1>1. q \in Seq(Entry)
    BY QueueType DEF V1Inv
<1>2. Filed(v1_index, sym, side, price, q)
    BY DEF V1Inv, QueuedOnce
<1>3. q = IF price \in DOMAIN v1_levels[sym][side] THEN v1_levels[sym][side][price] ELSE <<>>
    BY DEF QueueAt, QueueIn
<1>4. QueueV1(sym, side, price)
        = [k \in DOMAIN q |-> [refs |-> {q[k].ref}, shares |-> q[k].shares]]
    BY <1>3 DEF QueueV1
<1> QED BY <1>1, <1>2, <1>4

\* The entry of v1 that stands for slot k of a list.
Stand(q, k, entry) ==
  /\ refs[entry.ref] = q[k] /\ refs[entry.ref] # kNullIdx
  /\ Bearers(q[k]) = {entry.ref} /\ entry.shares = slots[q[k]].qty

\* Every listed slot has one in the queue of its level.
LEMMA EntryOf ==
  ASSUME V1Inv(v1_levels, v1_index), NEW L, NEW F, Stands(L, F),
         NEW sym \in Symbol, NEW x \in Nat, NEW side \in Side, NEW price \in Price,
         LevelIs(books[sym], x, side, price), NEW k \in DOMAIN L[sym][x]
  PROVE  LET q == QueueAt(v1_levels, sym, side, price)
         IN  \E j \in DOMAIN q : q[j].ref \in Ref /\ Stand(L[sym][x], k, q[j])
<1> DEFINE q == QueueAt(v1_levels, sym, side, price)
           t == L[sym][x][k]
<1>1. PICK r \in Ref : /\ refs[r] = t /\ refs[r] # kNullIdx /\ SymbolOf[r] = sym
                       /\ Bearers(t) = {r}
                       /\ HasLive(v1_levels, v1_index, r, slots[t].qty)
    BY ListedKnown
<1>2. t \in Range(L[sym][x])
  <2>1. L[sym][x] \in Seq(Slot)
      BY DEF Stands, Rep, LevelLists
  <2> QED BY <2>1, SeqFacts
<1> HIDE DEF t
<1>3. v1_index[r] = [side |-> side, price |-> price]
    BY <1>1, <1>2, PriceOfListed
<1>4. Has(q, r, slots[t].qty)
    BY <1>1, <1>3 DEF HasLive, QueueOf
<1>5. PICK j \in DOMAIN q : q[j] = [ref |-> r, shares |-> slots[t].qty]
    BY <1>4 DEF Has
<1>6. q[j].ref = r /\ q[j].shares = slots[t].qty
    BY <1>5
<1> HIDE DEF q
<1>7. Stand(L[sym][x], k, q[j])
    BY <1>1, <1>6 DEF Stand, t
<1> QED BY <1>1, <1>6, <1>7 DEF q

\* What v3 has of a queue of v1, one level of v3 at most.
LEMMA QueueKept ==
  ASSUME IOrdered, NEW sym \in Symbol, NEW side \in Side, NEW price \in Price
  PROVE  LET v3_queue == QueueV3(sym, side, price)
             v1_queue == QueueV1(sym, side, price)
             kept == {k \in DOMAIN v1_queue : \E r \in v1_queue[k].refs : V3!Known(r)}
         IN  \E at \in [DOMAIN v3_queue -> kept] :
               /\ \A j, k \in DOMAIN v3_queue : j < k => at[j] < at[k]
               /\ Range(at) = kept
               /\ \A k \in DOMAIN v3_queue : v3_queue[k] = v1_queue[at[k]]
<1> DEFINE v3_queue == QueueV3(sym, side, price)
           v1_queue == QueueV1(sym, side, price)
           kept == {k \in DOMAIN v1_queue : \E r \in v1_queue[k].refs : V3!Known(r)}
           q1 == QueueAt(v1_levels, sym, side, price)
<1>0. V1Inv(v1_levels, v1_index)
    BY DEF IOrdered
<1>1. PICK L, F : Stands(L, F) /\ OrderAgrees(L)
    BY DEF IOrdered
<1>2. /\ q1 \in Seq(Entry) /\ Filed(v1_index, sym, side, price, q1)
      /\ v1_queue = [k \in DOMAIN q1 |-> [refs |-> {q1[k].ref}, shares |-> q1[k].shares]]
    BY <1>0, QueueV1Is
<1> HIDE DEF v1_queue, v3_queue, q1
<1>3. /\ DOMAIN v1_queue = DOMAIN q1
      /\ \A k \in DOMAIN q1 : /\ v1_queue[k] = [refs |-> {q1[k].ref}, shares |-> q1[k].shares]
                              /\ v1_queue[k].refs = {q1[k].ref}
                              /\ q1[k].ref \in Ref
  <2>1. \A k \in DOMAIN q1 : q1[k] \in Entry
      BY <1>2
  <2>2. \A k \in DOMAIN q1 : q1[k].ref \in Ref
      BY <2>1 DEF Entry
  <2> QED BY <1>2, <2>2
<1>4. kept = {k \in DOMAIN q1 : refs[q1[k].ref] # kNullIdx}
    BY <1>3, SlotFacts DEF V3!Known
<1> HIDE DEF kept
<1>5. ASSUME NEW j \in kept
      PROVE  \E x \in Nat : /\ LevelIs(books[sym], x, side, price)
                            /\ refs[q1[j].ref] \in Range(L[sym][x])
  <2> DEFINE r == q1[j].ref
  <2>1. r \in Ref /\ refs[r] # kNullIdx
      BY <1>3, <1>4
  <2>2. SymbolOf[r] = sym /\ v1_index[r] = [side |-> side, price |-> price]
      BY <1>2, <1>4 DEF Filed
  <2> HIDE DEF r
  <2>3. PICK x \in Nat : /\ LevelIs(books[SymbolOf[r]], x, v1_index[r].side, v1_index[r].price)
                         /\ refs[r] \in Range(L[SymbolOf[r]][x])
      BY <1>0, <1>1, <2>1, KnownListed
  <2> QED BY <2>2, <2>3 DEF r
<1>6. CASE \A x : ~LevelIs(books[sym], x, side, price)
  <2> DEFINE none == <<>>
  <2>1. DOMAIN none = {} /\ none \in [{} -> {}] /\ Range(none) = {}
      BY DEF Range
  <2>2. kept = {} /\ v3_queue = none
      BY <1>5, <1>6, NoQueue DEF v3_queue
  <2> HIDE DEF none
  <2>3. \E at \in [DOMAIN v3_queue -> kept] :
          /\ \A j, k \in DOMAIN v3_queue : j < k => at[j] < at[k]
          /\ Range(at) = kept
          /\ \A k \in DOMAIN v3_queue : v3_queue[k] = v1_queue[at[k]]
      BY <2>1, <2>2
  <2> QED BY <2>3 DEF kept, v3_queue, v1_queue
<1>7. ASSUME NEW x, LevelIs(books[sym], x, side, price)
      PROVE  \E at \in [DOMAIN v3_queue -> kept] :
               /\ \A j, k \in DOMAIN v3_queue : j < k => at[j] < at[k]
               /\ Range(at) = kept
               /\ \A k \in DOMAIN v3_queue : v3_queue[k] = v1_queue[at[k]]
  <2> DEFINE q3 == L[sym][x]
  <2>1. BookOK(books[sym]) /\ x \in Nat
      BY <1>1, <1>7, BookStands, LevelInBook
  <2>2. v3_queue = [k \in DOMAIN q3 |-> [refs |-> Bearers(q3[k]), shares |-> slots[q3[k]].qty]]
      BY <1>1, <1>7, QueueIs DEF v3_queue
  <2>3. q3 \in Seq(Slot)
      BY <1>1, <2>1 DEF Stands, Rep, LevelLists
  <2>4. ASSUME NEW k \in DOMAIN q3
        PROVE  \E j \in DOMAIN q1 : q1[j].ref \in Ref /\ Stand(q3, k, q1[j])
      BY <1>0, <1>1, <1>7, <2>1, EntryOf DEF q1
  <2>5. \A a, b \in Ref : Precedes(q3, refs[a], refs[b]) /\ refs[a] # kNullIdx /\ refs[b] # kNullIdx
                            => RefsBefore(q1, a, b)
      BY <1>1, <1>7, <2>1 DEF OrderAgrees, q1
  <2>6. ASSUME NEW r \in Ref, refs[r] # kNullIdx, SymbolOf[r] = sym,
               v1_index[r] = [side |-> side, price |-> price]
        PROVE  refs[r] \in Range(q3)
    <3>1. LevelIs(books[SymbolOf[r]], x, v1_index[r].side, v1_index[r].price)
        BY <1>7, <2>6
    <3>2. refs[r] \in Range(L[SymbolOf[r]][x])
        BY <1>0, <1>1, <2>6, <3>1, ListedAtPrice
    <3> QED BY <2>6, <3>2
  <2>7. Injective(refs)
      BY <1>1 DEF Stands, Rep
  <2> HIDE DEF q3
  <2> DEFINE at == [k \in DOMAIN q3 |-> CHOOSE j \in DOMAIN q1 :
                                          q1[j].ref \in Ref /\ Stand(q3, k, q1[j])]
  <2>8. \A k \in DOMAIN q3 : /\ at[k] \in DOMAIN q1 /\ q1[at[k]].ref \in Ref
                             /\ Stand(q3, k, q1[at[k]])
      BY <2>4
  <2>9. DOMAIN v3_queue = DOMAIN q3 /\ DOMAIN at = DOMAIN q3
      BY <2>2
  <2>10. at = [k \in DOMAIN q3 |-> at[k]]
      OBVIOUS
  <2> HIDE DEF at
  <2>11. at \in [DOMAIN v3_queue -> kept]
      BY <1>4, <2>8, <2>9, <2>10 DEF Stand
  <2>12. \A j, k \in DOMAIN q1 : q1[j].ref = q1[k].ref => j = k
      BY <1>2 DEF Filed
  <2>13. ASSUME NEW j \in DOMAIN q3, NEW k \in DOMAIN q3, j < k PROVE at[j] < at[k]
    <3> DEFINE a == q1[at[j]].ref
               b == q1[at[k]].ref
    <3>1. /\ a \in Ref /\ b \in Ref /\ at[j] \in DOMAIN q1 /\ at[k] \in DOMAIN q1
          /\ refs[a] = q3[j] /\ refs[b] = q3[k]
          /\ refs[a] # kNullIdx /\ refs[b] # kNullIdx
        BY <2>8 DEF Stand
    <3>2. Precedes(q3, refs[a], refs[b])
        BY <2>13, <3>1 DEF Precedes
    <3> HIDE DEF a, b
    <3>3. RefsBefore(q1, a, b)
        BY <2>5, <3>1, <3>2
    <3>4. PICK m, n \in DOMAIN q1 : m < n /\ q1[m].ref = a /\ q1[n].ref = b
        BY <3>3 DEF RefsBefore
    <3>5. m = at[j] /\ n = at[k]
        BY <2>12, <3>1, <3>4 DEF a, b
    <3> QED BY <3>4, <3>5
  <2>14. ASSUME NEW j \in kept PROVE \E k \in DOMAIN q3 : at[k] = j
    <3> DEFINE r == q1[j].ref
    <3>1. j \in DOMAIN q1 /\ r \in Ref /\ refs[r] # kNullIdx
        BY <1>3, <1>4
    <3>2. SymbolOf[r] = sym /\ v1_index[r] = [side |-> side, price |-> price]
        BY <1>2, <3>1 DEF Filed
    <3> HIDE DEF r
    <3>3. refs[r] \in Range(q3)
        BY <2>6, <3>1, <3>2
    <3>4. PICK k \in DOMAIN q3 : q3[k] = refs[r]
        BY <2>3, <3>3, SeqFacts
    <3>5. /\ at[k] \in DOMAIN q1 /\ q1[at[k]].ref \in Ref
          /\ refs[q1[at[k]].ref] = refs[r] /\ refs[r] # kNullIdx
        BY <2>8, <3>1, <3>4 DEF Stand
    <3>6. q1[at[k]].ref = r
        BY <2>7, <3>1, <3>5 DEF Injective
    <3> QED BY <2>12, <3>1, <3>5, <3>6 DEF r
  <2>15. Range(at) = kept
      BY <2>9, <2>11, <2>14 DEF Range
  <2>16. ASSUME NEW k \in DOMAIN q3 PROVE v3_queue[k] = v1_queue[at[k]]
    <3>1. v3_queue[k] = [refs |-> Bearers(q3[k]), shares |-> slots[q3[k]].qty]
        BY <2>2
    <3>2. v1_queue[at[k]] = [refs |-> {q1[at[k]].ref}, shares |-> q1[at[k]].shares]
        BY <1>3, <2>8
    <3>3. Bearers(q3[k]) = {q1[at[k]].ref} /\ q1[at[k]].shares = slots[q3[k]].qty
        BY <2>8 DEF Stand
    <3> QED BY <3>1, <3>2, <3>3
  <2> QED BY <2>9, <2>11, <2>13, <2>15, <2>16
<1> QED BY <1>6, <1>7 DEF kept, v3_queue, v1_queue

\* However often the pool runs out, what v3 still queues at a price is what v1
\* queues there, in the same order and with the same shares, less the orders
\* v3 does not know; nothing else is linked.
THEOREM QueuesKept == Spec /\ []TableRoom => []QueuesAgreeUpToLoss
<1>1. IOrdered => QueuesAgreeUpToLoss
    BY QueueKept DEF QueuesAgreeUpToLoss
<1> QED BY <1>1, OrderStands, PTL

\* A list of places that rises and leaves none out counts them.
LEMMA AllPlaces ==
  ASSUME NEW n \in Nat, NEW m \in Nat, NEW f \in [1 .. n -> 1 .. m],
         \A j, k \in 1 .. n : j < k => f[j] < f[k],
         \A i \in 1 .. m : \E k \in 1 .. n : f[k] = i
  PROVE  n = m /\ \A k \in 1 .. n : f[k] = k
<1> DEFINE T == {k \in Nat : k \in 1 .. n => f[k] = k}
<1>1. 0 \in T
    OBVIOUS
<1>2. ASSUME NEW k \in Nat, k \in T PROVE k + 1 \in T
  <2> SUFFICES ASSUME k + 1 \in 1 .. n PROVE f[k + 1] = k + 1
      OBVIOUS
  <2>1. f[k + 1] >= k + 1
    <3>1. CASE k = 0
        BY <3>1
    <3>2. CASE k # 0
      <4>1. k \in 1 .. n /\ f[k] = k
          BY <1>2, <3>2
      <4>2. f[k] < f[k + 1] /\ f[k + 1] \in 1 .. m
          BY <4>1
      <4> QED BY <4>1, <4>2
    <3> QED BY <3>1, <3>2
  <2>2. k + 1 \in 1 .. m
    <3>1. f[k + 1] \in 1 .. m
        OBVIOUS
    <3> QED BY <2>1, <3>1
  <2>3. PICK i \in 1 .. n : f[i] = k + 1
      BY <2>2
  <2>4. ~(i < k + 1)
    <3> SUFFICES ASSUME i < k + 1 PROVE FALSE
        OBVIOUS
    <3>1. k \in 1 .. n /\ f[k] = k
        BY <1>2
    <3>2. i = k \/ f[i] < f[k]
        BY <3>1
    <3> QED BY <2>3, <3>1, <3>2
  <2>5. f[k + 1] <= f[i]
    <3>1. i = k + 1 \/ f[k + 1] < f[i]
        BY <2>4
    <3>2. f[k + 1] \in 1 .. m
        OBVIOUS
    <3> QED BY <2>3, <3>1, <3>2
  <2>6. f[k + 1] \in 1 .. m
      OBVIOUS
  <2> QED BY <2>1, <2>3, <2>5, <2>6
<1>3. Nat \subseteq T
    BY <1>1, <1>2, NatSetInduction
<1>4. \A k \in 1 .. n : f[k] = k
    BY <1>3
<1>5. n <= m
  <2>1. n # 0 => f[n] \in 1 .. m /\ f[n] = n
      BY <1>4
  <2> QED BY <2>1
<1>6. m <= n
  <2>1. m # 0 => m \in 1 .. m
      OBVIOUS
  <2>2. m # 0 => \E k \in 1 .. n : f[k] = m
      BY <2>1
  <2> QED BY <1>4, <2>2
<1> QED BY <1>4, <1>5, <1>6

\* With a pool for all orders of the day nothing is lost, and every level of v3
\* queues the same orders with the same shares in the same order as v1's,
\* through all relinking and slot reuse.
THEOREM QueuesSame == Spec /\ []TableRoom /\ []PoolRoom => []SameQueues
<1>1. IOrdered /\ AllKnown => SameQueues
  <2> SUFFICES ASSUME IOrdered, AllKnown,
                      NEW sym \in Symbol, NEW side \in Side, NEW price \in Price
               PROVE  QueueV3(sym, side, price) = QueueV1(sym, side, price)
      BY DEF SameQueues
  <2> DEFINE v3_queue == QueueV3(sym, side, price)
             v1_queue == QueueV1(sym, side, price)
             kept == {k \in DOMAIN v1_queue : \E r \in v1_queue[k].refs : V3!Known(r)}
             q1 == QueueAt(v1_levels, sym, side, price)
  <2>1. PICK at \in [DOMAIN v3_queue -> kept] :
          /\ \A j, k \in DOMAIN v3_queue : j < k => at[j] < at[k]
          /\ Range(at) = kept
          /\ \A k \in DOMAIN v3_queue : v3_queue[k] = v1_queue[at[k]]
      BY QueueKept
  <2>2. /\ q1 \in Seq(Entry) /\ Filed(v1_index, sym, side, price, q1)
        /\ v1_queue = [k \in DOMAIN q1 |-> [refs |-> {q1[k].ref}, shares |-> q1[k].shares]]
      BY QueueV1Is DEF IOrdered
  <2>3. \A k \in DOMAIN q1 : V3!Known(q1[k].ref)
    <3>1. \A k \in DOMAIN q1 : q1[k].ref \in DOMAIN v1_index
        BY <2>2 DEF Filed
    <3>2. \A k \in DOMAIN q1 : q1[k] \in Entry
        BY <2>2
    <3>3. \A k \in DOMAIN q1 : q1[k].ref \in Ref
        BY <3>2 DEF Entry
    <3> QED BY <3>1, <3>3, SlotFacts DEF AllKnown, V3!Known
  <2> HIDE DEF q1, v1_queue
  <2>4. kept = DOMAIN q1 /\ DOMAIN v1_queue = DOMAIN q1
    <3>1. DOMAIN v1_queue = DOMAIN q1 /\ \A k \in DOMAIN q1 : v1_queue[k].refs = {q1[k].ref}
        BY <2>2
    <3> QED BY <2>3, <3>1
  <2>5. \E n \in Nat : DOMAIN v3_queue = 1 .. n
    <3>1. CASE \A x : ~LevelIs(books[sym], x, side, price)
      <4>1. v3_queue = <<>>
          BY <3>1, NoQueue
      <4> QED BY <4>1
    <3>2. ASSUME NEW x, LevelIs(books[sym], x, side, price)
          PROVE  \E n \in Nat : DOMAIN v3_queue = 1 .. n
      <4>1. PICK L, F : Stands(L, F)
          BY DEF IOrdered
      <4>2. BookOK(books[sym]) /\ x \in Nat
          BY <3>2, <4>1, BookStands, LevelInBook
      <4>3. L[sym][x] \in Seq(Slot)
          BY <4>1, <4>2 DEF Stands, Rep, LevelLists
      <4>4. DOMAIN v3_queue = DOMAIN L[sym][x]
          BY <3>2, <4>1, QueueIs
      <4> QED BY <4>3, <4>4, SeqFacts
    <3> QED BY <3>1, <3>2
  <2>6. PICK n \in Nat : DOMAIN v3_queue = 1 .. n
      BY <2>5
  <2> DEFINE m == Len(q1)
  <2>7. m \in Nat /\ DOMAIN q1 = 1 .. m
      BY <2>2
  <2>8. v3_queue = [k \in DOMAIN v3_queue |-> v3_queue[k]]
    <3>1. CASE \A x : ~LevelIs(books[sym], x, side, price)
      <4>1. v3_queue = <<>>
          BY <3>1, NoQueue
      <4> QED BY <4>1
    <3>2. ASSUME NEW x, LevelIs(books[sym], x, side, price)
          PROVE  v3_queue = [k \in DOMAIN v3_queue |-> v3_queue[k]]
      <4>1. PICK L, F : Stands(L, F)
          BY DEF IOrdered
      <4>2. v3_queue = [k \in DOMAIN L[sym][x] |->
                          [refs |-> Bearers(L[sym][x][k]), shares |-> slots[L[sym][x][k]].qty]]
          BY <3>2, <4>1, QueueIs
      <4> HIDE DEF v3_queue
      <4> QED BY <4>2
    <3> QED BY <3>1, <3>2
  <2>9. v1_queue = [k \in DOMAIN v1_queue |-> v1_queue[k]]
      BY <2>2
  <2> HIDE DEF v3_queue, kept, m
  <2>10. /\ at \in [1 .. n -> 1 .. m]
         /\ \A j, k \in 1 .. n : j < k => at[j] < at[k]
         /\ \A i \in 1 .. m : \E k \in 1 .. n : at[k] = i
    <3>1. at \in [1 .. n -> 1 .. m]
        BY <2>4, <2>6, <2>7
    <3>2. \A j, k \in 1 .. n : j < k => at[j] < at[k]
        BY <2>1, <2>6
    <3>3. Range(at) = 1 .. m
        BY <2>1, <2>4, <2>7
    <3>4. \A i \in 1 .. m : \E k \in 1 .. n : at[k] = i
        BY <3>1, <3>3 DEF Range
    <3> QED BY <3>1, <3>2, <3>4
  <2>11. n = m /\ \A k \in 1 .. n : at[k] = k
      BY <2>7, <2>10, AllPlaces, SMTT(40)
  <2>12. DOMAIN v3_queue = DOMAIN v1_queue /\ \A k \in DOMAIN v1_queue : v3_queue[k] = v1_queue[k]
      BY <2>1, <2>4, <2>6, <2>7, <2>11
  <2>13. v3_queue = v1_queue
      BY <2>8, <2>9, <2>12
  <2> QED BY <2>13 DEF v3_queue, v1_queue
<1> QED BY <1>1, OrderStands, NothingMissed, PTL

-----------------------------------------------------------------------------
(* The memory itself. *)

\* Both books keep their types.
THEOREM BooksTyped == Spec /\ []TableRoom => []TypeOK
BY BooksStand, TypesStand, PTL

\* No slot is lost, in use twice, or free while in use: the free list and the
\* resting orders split the pool, though both are linked through next_idx.
THEOREM PoolStaysExact == Spec /\ []TableRoom => []PoolExact
BY BooksStand, PoolStands, PTL

\* The bits, best levels, totals and counts a book caches are those a scan of
\* its lists would find, after every message.
THEOREM CachesStayExact == Spec /\ []TableRoom => []CachesExact
BY BooksStand, CachesStand, PTL

-----------------------------------------------------------------------------
(* The size of the pool. *)

\* The books beside the tool are the books.
LEMMA SizingBooks == SizingSpec => Spec
<1>1. [SizingNext]_<<vars, tool_vars>> => [Next]_vars
    BY DEF SizingNext, Next
<1> QED BY <1>1, PTL DEF SizingSpec, SizingInit, Spec

\* The tool takes every order that is live for live, and with its peak within
\* the pool v3 knows them all.
Counted ==
  /\ IsFiniteSet(live_orders) /\ max_live \in Nat
  /\ DOMAIN v1_index \subseteq live_orders
  /\ max_live <= PoolCapacity => AllKnown

\* Only an add makes the set of live orders larger.
LEMMA OnlyAddGrows ==
  ASSUME V1Inv(v1_levels, v1_index), NEW r \in Ref, NEW x, x \notin DOMAIN v1_index,
         DOMAIN v1_index' = DOMAIN v1_index \cup {x},
         \/ Execute(r) \/ Cancel(r)
         \/ Delete(r)
         \/ \E new \in Ref, q \in Quotes : Replace(r, new, q)
  PROVE  FALSE
<1>1. r \in DOMAIN v1_index => DOMAIN V1!Unindexed(v1_index, r) = DOMAIN v1_index \ {r}
    BY RemoveKeeps
<1>2. v1_index' # v1_index
    OBVIOUS
<1>3. ASSUME V1!Leave(r), V1!Live(r) PROVE FALSE
    BY <1>1, <1>3 DEF V1!Leave, V1!Live
<1>4. ASSUME NEW n, V1!Reduce(r, n) PROVE FALSE
    BY <1>2, <1>3, <1>4 DEF V1!Reduce, V1!vars
<1>5. CASE Execute(r) \/ Cancel(r)
    BY <1>4, <1>5 DEF Execute, Cancel, V1!ExecuteOrder, V1!CancelOrder
<1>6. CASE Delete(r)
    BY <1>2, <1>3, <1>6 DEF Delete, V1!DeleteOrder, V1!vars
<1>7. ASSUME NEW new \in Ref, NEW q \in Quotes, Replace(r, new, q) PROVE FALSE
  <2>1. /\ r \in DOMAIN v1_index /\ new # r
        /\ v1_index' = V1!Indexed(V1!Unindexed(v1_index, r), new, v1_index[r].side, q.price)
      BY <1>2, <1>7 DEF Replace, V1!ReplaceOrder, V1!Live, V1!vars
  <2>2. DOMAIN v1_index' = (DOMAIN v1_index \ {r}) \cup {new}
      BY <1>1, <2>1 DEF V1!Indexed
  <2> QED BY <2>1, <2>2
<1> QED BY <1>5, <1>6, <1>7

\* What a message adds to the live orders, the tool has too.
LEMMA LiveCounted ==
  ASSUME V1Inv(v1_levels, v1_index), DOMAIN v1_index \subseteq live_orders, SizingNext
  PROVE  DOMAIN v1_index' \subseteq live_orders'
<1>1. PICK r \in Ref :
        \/ (\E q \in Quotes : Add(r, q)) /\ CountAdd(r)
        \/ (Execute(r) \/ Cancel(r)) /\ UNCHANGED tool_vars
        \/ Delete(r) /\ CountDelete(r)
        \/ \E new \in Ref : (\E q \in Quotes : Replace(r, new, q)) /\ CountReplace(r, new)
    BY DEF SizingNext
<1>2. r \in DOMAIN v1_index => DOMAIN V1!Unindexed(v1_index, r) = DOMAIN v1_index \ {r}
    BY RemoveKeeps
<1>3. CASE (\E q \in Quotes : Add(r, q)) /\ CountAdd(r)
    BY <1>3 DEF Add, V1!AddOrder, V1!Indexed, CountAdd
<1>4. CASE (Execute(r) \/ Cancel(r)) /\ UNCHANGED tool_vars
  <2>1. PICK n : V1!Reduce(r, n)
      BY <1>4 DEF Execute, Cancel, V1!ExecuteOrder, V1!CancelOrder
  <2>2. DOMAIN v1_index' \subseteq DOMAIN v1_index
      BY <1>2, <2>1 DEF V1!Reduce, V1!Leave, V1!Live, V1!vars
  <2> QED BY <1>4, <2>2 DEF tool_vars
<1>5. CASE Delete(r) /\ CountDelete(r)
    BY <1>2, <1>5 DEF Delete, V1!DeleteOrder, V1!Leave, V1!Live, V1!vars, CountDelete
<1>6. ASSUME NEW new \in Ref, NEW q \in Quotes, Replace(r, new, q), CountReplace(r, new)
      PROVE  DOMAIN v1_index' \subseteq live_orders'
  <2>1. \/ r \notin DOMAIN v1_index /\ v1_index' = v1_index
        \/ /\ r \in DOMAIN v1_index
           /\ v1_index' = V1!Indexed(V1!Unindexed(v1_index, r), new, v1_index[r].side, q.price)
      BY <1>6 DEF Replace, V1!ReplaceOrder, V1!Live, V1!vars
  <2>2. DOMAIN v1_index' \subseteq (DOMAIN v1_index \ {r}) \cup {new}
      BY <1>2, <2>1 DEF V1!Indexed
  <2> QED BY <1>6, <2>2 DEF CountReplace
<1> QED BY <1>1, <1>3, <1>4, <1>5, <1>6

\* The peak never falls, and after an add it is no less than what is live.
LEMMA PeakRises ==
  ASSUME IsFiniteSet(live_orders), max_live \in Nat, SizingNext
  PROVE  /\ IsFiniteSet(live_orders') /\ max_live' \in Nat /\ max_live <= max_live'
         /\ \/ Cardinality(live_orders') <= max_live'
            \/ \E r \in Ref : \/ Execute(r) \/ Cancel(r)
                              \/ Delete(r)
                              \/ \E new \in Ref, q \in Quotes : Replace(r, new, q)
<1>1. PICK r \in Ref :
        \/ (\E q \in Quotes : Add(r, q)) /\ CountAdd(r)
        \/ (Execute(r) \/ Cancel(r)) /\ UNCHANGED tool_vars
        \/ Delete(r) /\ CountDelete(r)
        \/ \E new \in Ref : (\E q \in Quotes : Replace(r, new, q)) /\ CountReplace(r, new)
    BY DEF SizingNext
<1>2. /\ \A x : IsFiniteSet(live_orders \cup {x}) /\ IsFiniteSet(live_orders \ {x})
      /\ \A x, y : IsFiniteSet((live_orders \ {x}) \cup {y})
    BY FS_AddElement, FS_RemoveElement
<1>3. CASE CountAdd(r)
  <2> DEFINE n == Cardinality(live_orders')
  <2>1. IsFiniteSet(live_orders') /\ n \in Nat /\ max_live' = Max({max_live, n})
      BY <1>2, <1>3, FS_CardinalityType DEF CountAdd
  <2> HIDE DEF n
  <2>2. /\ Max({max_live, n}) \in {max_live, n}
        /\ \A y \in {max_live, n} : y <= Max({max_live, n})
    <3> DEFINE S == {max_live, n}
               top == IF max_live <= n THEN n ELSE max_live
    <3>1. top \in S /\ \A y \in S : y \in Nat /\ y <= top
        BY <2>1
    <3> HIDE DEF S, top
    <3>2. Max(S) = top
        BY <3>1, MaxIs
    <3> QED BY <3>1, <3>2 DEF S
  <2>3. max_live' \in Nat /\ max_live <= max_live' /\ n <= max_live'
      BY <2>1, <2>2
  <2> QED BY <2>1, <2>3 DEF n
<1>4. CASE ~CountAdd(r)
  <2>1. /\ max_live' = max_live
        /\ \/ live_orders' = live_orders \/ live_orders' = live_orders \ {r}
           \/ \E new \in Ref : live_orders' = (live_orders \ {r}) \cup {new}
        /\ \/ Execute(r) \/ Cancel(r)
           \/ Delete(r)
           \/ \E new \in Ref, q \in Quotes : Replace(r, new, q)
      BY <1>1, <1>4 DEF CountDelete, CountReplace, tool_vars
  <2> QED BY <1>2, <2>1, SMTT(40)
<1> QED BY <1>3, <1>4

\* A pool as large as the peak the analysis tool reports loses no order,
\* although the tool's set of live orders drifts from the real one.
THEOREM PoolLargeEnough == SizingSpec /\ []TableRoom => []PoolSuffices
<1>1. SizingInit => Counted
  <2> SUFFICES ASSUME SizingInit PROVE Counted
      OBVIOUS
  <2>1. live_orders = {} /\ max_live = 0 /\ v1_index = <<>>
      BY DEF SizingInit, Init, V1!Init
  <2>2. DOMAIN v1_index = {}
      BY <2>1
  <2> QED BY <2>1, <2>2, FS_EmptySet DEF Counted, AllKnown
<1>2. IInv /\ Counted /\ [SizingNext]_<<vars, tool_vars>> /\ V1Inv(v1_levels, v1_index)'
        /\ TableRoom' => Counted'
  <2> SUFFICES ASSUME IInv, Counted, [SizingNext]_<<vars, tool_vars>>,
                      V1Inv(v1_levels, v1_index)', TableRoom'
               PROVE  Counted'
      OBVIOUS
  <2>1. CASE UNCHANGED <<vars, tool_vars>>
    <3>1. UNCHANGED <<live_orders, max_live, v1_index, refs>>
        BY <2>1 DEF vars, tool_vars
    <3> QED BY <3>1 DEF Counted, AllKnown
  <2>2. CASE SizingNext
    <3>1. /\ IsFiniteSet(live_orders') /\ max_live' \in Nat /\ max_live <= max_live'
          /\ \/ Cardinality(live_orders') <= max_live'
             \/ \E r \in Ref : \/ Execute(r) \/ Cancel(r)
                               \/ Delete(r)
                               \/ \E new \in Ref, q \in Quotes : Replace(r, new, q)
        BY <2>2, PeakRises DEF Counted
    <3>2. DOMAIN v1_index' \subseteq live_orders'
        BY <2>2, LiveCounted DEF IInv, Counted
    <3>3. PICK L, F : Stands(L, F)
        BY DEF IInv
    <3>4. Accounted
      <4>1. [Next]_vars
          BY <2>2 DEF SizingNext, Next
      <4> QED BY <3>3, <4>1, AllMoves DEF IInv, Moves
    <3>5. ASSUME max_live' <= PoolCapacity PROVE AllKnown'
      <4>1. AllKnown /\ PoolCapacity \in Nat /\ max_live \in Nat
        <5>1. PoolCapacity \in Nat /\ max_live \in Nat
            BY SlotFacts DEF Counted
        <5>2. max_live <= PoolCapacity
            BY <3>1, <3>5, <5>1
        <5> QED BY <5>1, <5>2 DEF Counted
      <4>2. SUFFICES ASSUME NEW x \in Ref, x \in DOMAIN v1_index', refs'[x] = kNullIdx
                     PROVE  FALSE
          BY DEF AllKnown
      <4>3. /\ x \notin DOMAIN v1_index /\ free_head = kNullIdx
            /\ DOMAIN v1_index' = DOMAIN v1_index \cup {x}
          BY <3>4, <4>1, <4>2 DEF Accounted, AllKnown
      <4>4. Cardinality(live_orders') <= max_live'
          BY <3>1, <4>3, OnlyAddGrows DEF IInv
      <4>5. IsFiniteSet(DOMAIN v1_index) /\ PoolCapacity <= Cardinality(DOMAIN v1_index)
          BY <3>3, <4>3, PoolFull DEF IInv, V1Inv, IndexType
      <4>6. Cardinality(DOMAIN v1_index') = Cardinality(DOMAIN v1_index) + 1
          BY <4>3, <4>5, FS_AddElement
      <4>7. Cardinality(DOMAIN v1_index') <= Cardinality(live_orders')
          BY <3>1, <3>2, FS_Subset
      <4>8. /\ Cardinality(DOMAIN v1_index) \in Nat /\ Cardinality(DOMAIN v1_index') \in Nat
            /\ Cardinality(live_orders') \in Nat
          BY <3>1, <3>2, <4>5, FS_Subset, FS_CardinalityType
      <4> QED BY <3>1, <3>5, <4>1, <4>4, <4>5, <4>6, <4>7, <4>8
    <3> QED BY <3>1, <3>2, <3>5 DEF Counted
  <2> QED BY <2>1, <2>2
<1>3. IInv => V1Inv(v1_levels, v1_index)
    BY DEF IInv
<1>4. Counted => PoolSuffices
  <2> SUFFICES ASSUME Counted, max_live <= PoolCapacity, NEW r \in Ref, V1!Live(r)
               PROVE  V3!Known(r)
      BY DEF PoolSuffices
  <2> QED BY SlotFacts DEF Counted, AllKnown, V1!Live, V3!Known
<1> QED BY <1>1, <1>2, <1>3, <1>4, SizingBooks, BooksStand, PTL DEF SizingSpec
=============================================================================
