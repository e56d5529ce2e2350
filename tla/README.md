# Feed handler: a verification project in TLA+

These modules specify the feed handler of this repository: a replay sender that
multicasts a NASDAQ ITCH file in MoldUDP64 packets, receivers in three versions
(v1 blocking, v2 and v3 on io_uring) that track sequence numbers, and order books
in two versions (v1 on `std::map` and `std::list`, v3 on flat arrays). Paths below
are relative to the repository. `PROJECT.json` maps each definition to the lines
it models, and lists runs, mutants, hazards, findings and theorems.

## 1. The system

| Component | State | Operations | Talks to |
|---|---|---|---|
| ITCH file reader (`src/common/itch_reader.cpp`) | mapped file, offset | `next` | called by the drivers and the sender |
| Replay sender (`src/common/replay_sender.cpp`) | packet being filled, next sequence number | `flush_packet`, loop | UDP multicast to the receivers |
| v1 receiver (`src/v1/receiver.cpp`) | `expected_seq`, counters | packet loop, 3 s timeout | calls v1 books |
| v2, v3 receivers (`src/v2/receiver.cpp`, `src/v3/receiver.cpp`) | `high_seq`, `pending_gaps`, counters; io_uring rings and buffers | completion loop, `prep_recv`, 3 s timeout | kernel through the rings; calls v1 (v2) or v3 (v3) books |
| v1 book (`src/v1/order_book.cpp`) | `bids_`, `asks_`, `ref_index_` | add, execute, cancel, delete, replace, `best_bid_ask` | - |
| v3 book (`src/v3/order_book.cpp`) | `levels_`, overflow maps, `occupied_`, best indices, base | the same six | pool and table shared by all books |
| Order pool (`include/v3/object_pool.hpp`) | slots, free list through `next_idx` | `allocate`, `release` | v3 books |
| Reference table (`include/v3/ref_table.hpp`) | open-addressing array, size | `insert`, `find`, `erase` | v3 books |
| Equivalence test (`tests/v3/test_v1_v3_equivalence.cpp`) | both sets of books | drives both, compares quotes | all of the above |
| ITCH parsers (`include/common/itch_messages.hpp`) | none | five `parse`, `read_be16/32/64` | called by receivers and drivers |
| Pool sizing (`src/common/analyze_data.cpp`) | live references, their peak | pass over a file | its result sizes the pool |
| Benchmarks, `trace_symbol` | samples, counters | - | drive the books |

Every program is single threaded. What runs concurrently is the sender, the
network and each receiver (UDP loses, repeats and reorders), and in v2 and v3 the
kernel, which fills buffers while the loop reads others. The rest of the
difficulty is sequential: data structures whose invariants span several arrays,
and a long day of legal messages.

What makes each part correct:

- **Table.** It behaves as a map (`tests/v3/test_ref_table.cpp:1-3`), each entry
  stays reachable from its home while others are erased and shifted, its loops end.
- **Pool.** Free list and resting orders split the slots: none lost, none shared.
- **v3 book.** Every price level queues the orders the v1 book queues, in the same
  order; bits, best levels, totals and counts are what a scan would find; quotes
  agree after every message.
- **Sender.** Packets are numbered by what they carry, every complete message of the
  file is in exactly one, also when a send fails.
- **Receivers.** Missing ranges are exact, each message reaches the books at most
  once, nothing new that follows the first packet received is rejected, the final
  counts are true.
- **Rings.** Each buffer has one owner, no queue overflows, every datagram that
  reaches the socket is handled, once, and few places late.
- **Parsing and dispatch.** The books get what the exchange sent; where a book
  differs from the exchange's, a message did not come in time.
- **Sizing.** A pool of the reported peak loses no order.

### Hard behaviours

`PROJECT.json`, "hazards", has the full list with lines. In short: silent refusal
at the table's load limit; backward shift around the end of the array; pool
exhaustion in the middle of a replace; `next_idx` as link of two kinds of list;
lazily repaired best levels; prices at the edge of the window; symbols that share
memory; late packets that split a missing range; a 16-bit gap length; silence that
ends a session while packets are missing; completions out of order, and more of them
posted while a batch is handled; recovered messages applied after later ones.

## 2. Modules

    RefMap            what the table promises
      ^ refined by
    RefTable          the table, one loop iteration per step
    OrderBookV3       pool + books, on RefMap's operators (INSTANCE)
    OrderBookV1       the baseline books
    BookEquivalence   V1 and V3 instances driven by one legal feed
    ReceiverV1        v1 sequence tracking
    ReceiverV3        v2/v3 sequence tracking
    ReplaySender      file reader and sender
    Receivers         both receivers on one lossy, duplicating, reordering network
    Mailbox           what the io_uring rings promise
      ^ refined by
    IoUring           buffers, queues, kernel and loop of v2/v3
    RingReceiver      IoUring + ReceiverV3: tracking behind the rings
    ItchMessages      parsers, and the exchange's encoder
    EndToEnd          BookEquivalence (the books of v2 and v3) and ReceiverV3 (their
                      tracking), with Receivers, ItchMessages and v1's books
    Sizing            BookEquivalence + the analysis tool's count
    MC*               values for the constants
    SumLemmas         sums over finite sets, and induction over them, for the proofs
    *Proofs           theorems and proofs

**RefMap / RefTable.** `slots`, `size` are `slots_`, `size_`. A call is a sequence
of steps: `StartProbe` (a call enters `probe`), `ProbeStep` (one iteration),
`InsertDone`/`FindDone`/`EraseMiss` (return), `EraseHit`, `ShiftStep` (one iteration
of the shift loop), `ShiftDone`. `InsertRefused` is the early return of `insert`.
The hash is the constant `Home`, any function from keys to slots. RefMap keeps the
running call with its arguments in its state: a call begins, and takes effect in one
step, on the key and value it began with. The refinement maps RefTable's `call` to
RefMap's, and its slots to RefMap's map (`Contents`). An erase takes effect at
`EraseHit`, when the entry becomes a hole; the shift that follows is invisible to the
caller, and RefMap has no call then (`Pending`). A refused insert begins and ends in
one step of both.

**OrderBookV3.** `slots`, `free_head` are the pool, `refs` the table, `books` a
record per symbol with the fields of `OrderBook`. A handler is an operator that
threads a `Memory` record through the calls the code makes, in the code's order
(`Rest` = allocate, `level_for`, `link_order`, `insert`; `Gone` = `unlink_order`,
`release`, `erase`), and assigns all four variables at once: the program is
single-threaded and nobody looks in between. Abstractions, all of data:

- `Cent` stands for 100 and `kWindow` for 1024; the arithmetic is the code's.
- `occupied_` is the set of its bits and a word of it the bits x with the same
  x div `kWordBits`. `FindPrevSet` and `FindNextSet` go word by word as the code does,
  the first word masked; `CachesExact` compares them with the nearest bit. Two bits
  to the word make scans stay within a word, leave it, and cross empty ones.
- the two overflow maps and `overflow_side_` are one sequence of (side, price), whose
  positions are the level indices; `overflow_bid_` in price order is `Max`/`Min`.
- a released slot forgets its `qty`, `prev_idx` and `level_idx`. The code leaves
  stale values there, and writes all of them in `link_order` before any read;
  forgetting them only merges states no handler can tell apart.
- `total_qty` is a number without a width.

**OrderBookV1.** `levels` are `bids_` and `asks_`, a queue per price; `ref_index`
the locators. A list iterator is found by its order's reference, which is sound
because references are unique (`Position`); `LocatorsValid` states that the locator finds it.
`shares -= n` wraps at `UintMod`.

**BookEquivalence.** One action per message type, and each action is the conjunction
of v1's and v3's handler on the same message. The feed is legal, as an exchange's
is: a new reference is not in use, an execution or cancel takes at most what v1's
order has left; messages about unknown references may come. Orders of all symbols
share one reference space (`README.md`, "Order references are unique across the
whole market"). `Chain` reads an intrusive list with a bound, so a cycle is seen
as a difference and not as a failure to evaluate.

**ReceiverV1, ReceiverV3, Receivers.** A packet is a first number and a count;
`Receive(p)` is the loop body up to the dispatch, with one action per branch
(`InOrder`, `Gap`, `Late`; `InOrder`, `Gap`, `Recovered`, `Duplicate`).
`delivered` is auxiliary: the numbers of the messages handed to the books.
`first` is auxiliary too. `kU16` is 2^16, where `pending_gaps`' lengths wrap.
`Arrive` gives the same packet to both receivers, any packet at any time up to
`MaxCopies` times; one that never arrives is lost. `Timeout` is the end of the loop
and adds up `truly_lost`. Datagrams shorter than a header are skipped by both
receivers before any state changes and are left out; so are packets with no
message, which the sender never sends (`replay_sender.cpp:53`).

**ReplaySender.** The file is a sequence of message lengths and a size in bytes at
which it is cut off (the sample of `README.md` is a truncated download). `offset` is
the reader's; `Readable` is `next`. One action per way through the loop: `Pack`,
`FlushAndPack`, and `Finish` after the last message. `Sendto` may fail, and the code
goes on as if it had not. Messages are named by their place in the file, `wire` and
`dropped` are auxiliary. `MessagesFit` assumes that every message fits into a packet:
ITCH's have at most 50 bytes, a packet has room for 1378. `PacketsDisjoint` and
the non-empty packets of `TypeOK` are what `WellFormed` in `ReceiverV3` assumes.

**Mailbox / IoUring.** Datagrams are named by the order in which they reach the socket.
A buffer moves from `armed` (the kernel may fill it) to `filled` (it has, and will post)
to `cq`, and by `Process`, one iteration of `io_uring_for_each_cqe`, to `sq`, until
`Submit` arms it again. Entries stay in `cq` until `Advance`, as
`io_uring_cq_advance` releases them only then, and the kernel posts at any moment
between. The kernel takes datagrams from the socket in order but serves any armed
receive and posts served ones in any order: io_uring promises no order between
requests. `Fail` is a completion with an error or less than a header, which the loop
skips but arms again; `MaxFailures` bounds it. `Stop` covers both exits of the loop, the timeout and
a failing wait; the code stops only when the wait returns no completion. The timed
wait is taken to use no submission entry, as on kernels since 5.11 (with EXT_ARG), and
`Submit` to accept all entries. In `Mailbox` a read may overtake fewer than `Depth`
unread datagrams.

**RingReceiver.** `Reach` puts a packet into the socket; this network keeps order and may lose,
so lateness comes from the rings alone. `Handle` is `Process` with `Receive` on the
packet that is in the buffer *then*.

**ItchMessages.** A message on the wire is a function from offsets to bytes of `ByteBase`
values. `Parse` is the switch with the parser each case calls. `Place` and `Wire` are the
exchange's encoder, external: field positions as ITCH 5.0 lays them out. Bytes of fields
that the model does not show are all ones, so a read at a wrong place is seen. `Fits` says
that a message's numbers are no larger than their fields.

**EndToEnd.** `ReceivePacket` reads a datagram and decides with `Receivers!Arrive`; `Dispatch` is
one round of the loop over a packet's messages: parse, then the handler. The packet's
messages are all dispatched before the next datagram is read, as in the code. v2
(v1's books behind v3's tracking) and v3 dispatch together, v1 leaves late packets out
(`late`). The module extends `BookEquivalence`, whose books are v2's (v1's code) and v3's, so that
its properties and theorems can be used behind the receivers. A session is any element of `Feeds`.
`FeedsAssumption` says what an exchange may send (`LegalAt`): a new order under a reference it has
not used before, messages about shares that rest, in numbers that fit their fields. `After` and
`Left` are the book the exchange keeps. What the receivers get of a session is *not* legal in
this sense, as adds may be missing. `LegalForBooks` says that it still is a feed as `BookEquivalence` allows
(a refinement: every dispatch is a step of `Spec` or a stutter). `applied` and `old_applied` are auxiliary.

**Sizing.** `CountAdd`, `CountDelete`, `CountReplace` are the tool's cases, in step with the
books' handlers on the same message. `live_orders` is a set of references: the symbol
the tool stores with each is never read.

## 3. Runs

| Run | Instance | Question | States |
|---|---|---|---|
| `ref_table` | 8 slots, 5 keys, homes 6 6 7 0 7 | map refinement, reachability, termination | 100,880 |
| `books_window` | 1 symbol, 3 references, prices 10 12 13, pool 3, table 6 | queues, quotes, caches, free list, time priority | 8,833 |
| `books_shared` | 2 symbols, prices 10 14, pool 3, table 6 | books that share memory, prices at the window's edges | 11,245 |
| `books_exhausted` | 2 symbols, prices 10 16, pool 2, table 4 | what an empty pool costs | 71,351 |
| `books_saturated` | pool 8, table 2 | violation: quotes after the table refused | - |
| `receivers` | 6 packets of 1 to 3 messages, each up to twice | tracking, loss counts, v1 against v3 | 15,626 |
| `replay_sender` | all files of up to 5 messages of 1, 3, 8 bytes, cut at any byte; packets of 12 bytes | numbering, packing, completeness | 89,927 |
| `ring` | 2 buffers, 5 packets, 2 failing receives | ownership, overflow, order, liveness, tracking behind the rings | 104,808 |
| `end_to_end` | all legal sessions of 5 messages on 3 references, 4 packets, each up to twice | parsing, what the books can be given, v2 against v3, what each error in a book comes from | 167,596 |
| `end_to_end_reordered` | the same | violation: books after reordering | - |
| `sizing` | 4 references, pool 2, table 8 | does the reported peak suffice | 28,545 |
| `receivers_wide_gap` | the same, `kU16` = 4 | violation: a gap of 4 or more is forgotten | - |

Why the bounds are enough to mean something:

- *ref_table.* Five keys exceed the load limit of four, so refusal happens; three
  homes at the end of the array and one at its start make probe paths and shifts
  cross the wrap with entries that must and entries that must not move. Two values
  show overwriting. The proofs remove the bound.
- *books.* Three orders are the fewest with a head, a middle and a tail in one
  queue. The prices are chosen so that one is not a whole cent (13), and one lies
  just beyond (14) or just below (10, when the book began at 14 or 16) the window:
  the same price is dense in one state and overflow in another. One quote has two
  shares, so partial fills exist. References are symmetric within a symbol; the
  properties checked under symmetry are invariants and box-action formulas.
- *receivers.* Six packets leave room for two gaps, for a range filled at its head,
  its tail and in its middle, and for a late packet after each; two copies are enough
  for a duplicate of every kind of packet. The receivers stop after a timeout, so
  deadlock is not checked there.
- *replay_sender.* Ten bytes of records: one long message or two middle ones fill a
  packet exactly, so both sides of the size test occur, and five messages make up to
  five packets. The sender stops at the end of the file: no deadlock check.

- *ring.* With two buffers a batch can be as long as there are buffers, completions can swap,
  and the kernel can post while the loop is anywhere; five datagrams refill both. Two
  failures cover one of each buffer or the same twice. The receivers may stop, so
  deadlock is not checked. The proofs remove the bounds.
- *end_to_end.* Five messages suffice for an add, a partial fill or replacement, and the end
  of the order, with another order beside it; a packet of two messages and three of one
  can each be lost, late or repeated. Bytes have two values, so quantities of two bits
  already spread over bytes.
- *sizing.* Four references with a pool of two: sessions that stay within the pool, that exceed
  it, and that have the tool still counting orders that are gone. The table does not refuse.

Every property has a mutant: an operator named `Bug...` beside the operator it
replaces, with the mistake one would make there. They are used by no specification.

### What the properties say

- `TableInv`: load limit exact, keys unique, every held entry reachable (a running
  shift's hole excepted, and only for entries beyond the scan), probe and shift
  loops clean. `RefinesMap`: RefTable implements RefMap, call by call on the key given:
  `find(k)` returns the map's value of k, so it misses only what is absent; `erase(k)`
  removes k, and misses only when k is absent; no step touches another key. That
  insert refuses at half load is part of the map it implements: what a refusal does to
  a book is the subject of `books_saturated` alone. `CallsReturn`: every call returns.
- `SameQueues`: level by level, the orders, shares and queue positions of v3 are
  v1's. `TopOfBookAgrees`: the test's assertion. `CachesExact`: bits, best levels,
  totals, counts. `PoolExact`: partition of the slots. `PriorityKept`: two orders
  that both stay never swap. `V1LocatorsValid`: v1's index and lists agree.
- `QueuesAgreeUpToLoss`, `LossExplained`: v3's queue is a subsequence of v1's, all of it but
  the orders v3 does not know; and with an exhausted pool v3 lacks only
  orders that arrived while no slot was free, or that replace such an order. In
  particular `replace_order`, which removes the old order before it asks for a slot,
  never loses one.
- `PendingExact`: pending ranges are exactly what is undelivered between the first
  and the highest number. `RejectsOnlySeen`: a duplicate was delivered before, or
  precedes the first packet received. `ExactlyOnce`, `V1LossExact`, `LossReported`:
  the counters are true. `V3DeliversMore`: v3 delivers what v1 does, and exactly
  `recovered` messages more.
- `OneOwner`: a buffer is in exactly one place; no buffer is lost, none is the kernel's and
  the loop's at once. `RingsFit`: `io_uring_get_sqe` never returns null, which `prep_recv`
  does not test; no completion overflows; batches end. `RefinesMailbox`: read once, whole,
  overtaking fewer than `kQueueDepth`. `AllRead`: what reached the socket is handled.
- `ReadsDelivered`: the complaint of the repository's README about v1's tracking ("a packet
  that merely arrived late gets thrown away") does not hold of this one, the very first packets
  excepted. `GapsBounded`: without loss the missing ranges are fewer than the buffers.
- `ParsedAsSent`: encoder and parsers agree on every message of every session. `LegalForBooks`:
  whatever the network loses, repeats and reorders, no message reaches the books that takes more
  shares than its order has left, and none that adds a reference in use. On such a message v1's and v3's books would
  part, for they test for exhausted orders differently (`v1/order_book.cpp:27`,
  `v3/order_book.cpp:158`); `SameQueues` in `end_to_end` says that they do not.
  `ErrorsExplained`: a book never understates an order it knows, and it is wrong only where a
  message that should have changed it did not come or came before its order.
- `PoolSuffices`: if the tool's peak is at most the pool, v3 knows every order v1 does.
- `NumberingExact`, `PacketsDisjoint`: a packet's number is the place in the file of its
  first message, and no two packets share a number. `PacketsFull`: sizes are right and
  no packet is sent early. `AllSent`: at the end exactly the complete messages are out.

### Findings

1. `books_saturated`. `RefTable::insert` refuses without a word at half load
   (`include/v3/ref_table.hpp:14`) after the order is already linked. The order can
   never be removed. With the sizes in `src/v3/receiver.cpp:66-67` and in the
   equivalence test this begins at 131,072 live orders, well before the pool of
   1,048,576 is exhausted; the peak noted in the test is about 76,000.
2. `receivers_wide_gap`. The length of a gap is cast to `uint16_t`
   (`src/v3/receiver.cpp:127`, `src/v2/receiver.cpp:118`). Of a gap of n messages
   n mod 65536 are remembered; the rest count as duplicates when they come late, and
   are missing from `truly_lost`.
3. `end_to_end_reordered`. The diagram of `README.md:34-35` has the receivers "detect loss,
   tolerate reordering". The tracking does, but messages of a late packet go to the
   books when it comes (`src/v3/receiver.cpp:163`): a delete or execution that came before
   its add has been dropped as unknown by then, and the order rests with shares the exchange no
   longer has, with no message counted as lost. `ErrorsExplained` says that this is the only way
   in which a book goes wrong when no packet is lost or rejected.

### Fairness

`RefTable`: weak fairness of `Run`, the steps inside a call. The thread that made the
call does nothing else until it returns; nothing obliges it to make another call.

`IoUring`: weak fairness of the loop, which never blocks while there is a completion; of
the kernel serving *some* armed receive while a datagram waits; and of posting each
receive that was served. Nothing obliges datagrams to come, receives to fail or the loop to
stop, and nothing obliges the kernel to use a particular buffer. `AllRead` therefore
excepts a loop that has ended: it may do so whenever its queue is empty, for the timeout is
counted from the wait and a datagram may be on its way.

The other specifications are safety only: packets may never come, the feed may stop.

## 4. Theorems

Eight modules are checked by TLAPS. `SumLemmas` has the lemmas on sums that the others
share. The theorems listed in `PROJECT.json` state every property of the passing runs but the two
liveness properties, for all values of the constants:

| Module | About | States |
|---|---|---|
| `RefTableProofs` | the table | `TypeOK`, `TableInv`, `RefinesMap` |
| `ReceiverV3Proofs` | v3's tracking alone | `PendingExact`, `RejectsOnlySeen` |
| `ReceiversProofs` | both receivers on the network | these two, `ExactlyOnce`, `V3DeliversMore`, `V1LossExact`, `LossReported`, `TypeOK` |
| `RingReceiverProofs` | the rings, alone and with the tracking | `TypeOK`, `OneOwner`, `RingsFit`, `RefinesMailbox`, `ReadsDelivered`, `GapsBounded` |
| `ReplaySenderProofs` | the sender | `TypeOK`, `NumberingExact`, `PacketsDisjoint`, `PacketsFull`, `AllSent` |
| `BookProofs` | v1's books, v3's against them, and the sizing tool | `V1LocatorsValid`, `TypeOK`, `PoolExact`, `CachesExact`, `PriorityKept`, `LossExplained`, `QueuesAgreeUpToLoss`, `SameQueues`, `TopOfBookAgrees`, `PoolSuffices` |
| `EndToEndProofs` | from the exchange's bytes to the books of v1, v2 and v3 | `ParsedAsSent`, `LegalForBooks`, `SameQueues`, `ErrorsExplained` |

**RefTable** (`TypeCorrect`, `TableCorrect`, `TableRefinesMap`), for every capacity
of at least two, every key and value set and every hash. Assumptions: the four
ASSUMEs of the module (capacity, range of the hash, the sentinel is no key and no
value, 0 is a value because the constructor writes it). `TypeOK /\ TableInv` is
inductive. The argument is about distances along the probe order: `CanMoveMeaning`
says that the three-way test of `ref_table.hpp:37` is "the hole lies on the entry's
path from home"; an entry that may not move therefore does not need the hole, and
one that may is closer to home afterwards. The exception in `Reachable` (an entry
beyond the scan may need the hole) is what makes the invariant inductive in the
middle of a shift, and it is empty at the first free slot, where the shift stops.
`SizeExact` leaves a free slot, so a probe never returns to its home. For the
refinement the abstract map is read off the held entries, and the abstract call is the
running one until it takes effect; a lemma for each step shows that it is the step of
`RefMap` for the key of the running call, or changes nothing. `ProbeClean` and
`Reachable` say that a probe that stops at a free slot has proved its key absent
(`ProbeStopsAtKey`), which is why no find and no erase misses a key that is there.

**Tracking** (`TrackingExact`, `NewsNeverRejected`, and `ReceiversExact` for the
specification the runs check), for every way of cutting a session into numbered
packets (`WellFormed`: positive, disjoint), under the assumption that no gap reaches
2^16 messages (`[][NarrowGap]`), which finding 2 shows to be necessary. The inductive
invariant adds that ranges are disjoint, lie between `first` and `high_seq`, have a
length their type holds, and begin and end between packets (`Clean`), so that a packet
lies in a range or touches none. It has to be `Clean` also at `first` and `high_seq`.

**Counters** (`CountersExact`, in `ReceiversProofs`), under the same assumption: `ExactlyOnce`,
`V3DeliversMore` and `V1LossExact` for `Receivers`. The invariant `CountInv` says that the counts
are cardinalities of the sets delivered, that what v1 has delivered v3 has too, and that
`expected_seq` and `high_seq` are equal; each branch of `Receive` then adds a set
disjoint from those before, whose size is the packet's count. `V3NeverBehind` and
`V1LossCounted` single out two of the three.

**The final report** (`FinalReportExact`, `ReceiversTyped`), under `[][NarrowGap]` and
`NumbersInARow`: the numbers between any two packets are in packets of the session, as
`NumbersAreExact` says of the sender. Without it a number nobody sent would count as lost. What
never arrived between `first` and `high_seq` is then exactly what is not delivered
(`ArrivalInv`): a packet that arrived has been delivered, or precedes `first`. By `PendingExact` these numbers are the union of the pending
ranges, disjoint ranges whose lengths `truly_lost` adds up; `SumLemmas` says that such a sum is
the cardinality of the union. `CopiesAssumption` (a copy bound is a number) is needed for
`TypeOK` alone.

**Rings** (`RingTyped`, `BuffersOwned`, `QueuesLargeEnough`, `RingsRefineMailbox`), for every
number of buffers and any bounds. The inductive invariant `RingInv` is `TypeOK`, `OneOwner`,
`LoopState` (what each place of the loop implies about `sq`, `cq` and `completed`) and
`Holding`: the buffers in `filled` and those completed with a packet hold exactly the datagrams taken and not
read, each in one buffer. From it follows that every `Process` reads a datagram nobody has
read, that the queues hold each buffer at most once, and that the unread datagrams older
than one being read are in other buffers, so fewer than `kQueueDepth`.

**Rings and tracking** (`SystemRings`, `SystemDelivers`, `SystemGapsBounded`): the rings are untouched
by the tracking, so `RingInv` carries over. `FewOvertaken` adds that fewer than
`kQueueDepth` datagrams are unread while a later one is read, and `WireInv` that the wire is
numbered upwards (without loss, unbroken), that `high_seq` is the end of the last packet
read, and `ReadsDelivered` itself. A missing range then begins with a packet that was
overtaken, different ranges with different ones, which bounds how many there are. The
assumption `[][NarrowGap]` stays for `SystemDelivers` and `SystemGapsBounded`.

**Sender** (`SenderTypes`, `NumbersAreExact`, `NumbersNeverRepeat`, `PacketsWellFilled`,
`EverythingSent`), for every set of files, header and packet size. Assumptions: `MessagesFit` and
`SizesAssumption` (lengths and sizes are numbers). The inductive invariant `SenderInv` says that the
messages in datagrams on the wire, in dropped ones, in the packet being filled and those not read
yet follow one another in the file (`RunFrom`), that `offset` and `packet_used` are sums of what
was read and packed, and that the numbers in use end where `next_seq` begins. Sums are those of
`SumLemmas`.

**v1's books** (in `BookProofs`: `V1InOrder`, `LocatorsStayValid`), for any symbols, references, prices and
quotes. `V1Inv` adds to `V1LocatorsValid` what `remove_locator` needs: every order in a list is indexed
at that side and price, and no reference is in two places.

**v3's books** (the rest of `BookProofs`), for any symbols, references, prices, quotes, window, bitmap
word, pool and table. `BooksAssumption` asks that sizes are positive, prices numbers, and
that shares fit a `uint32_t`; nothing relates the window to the prices, the pool to the
references or the cent to anything. The code links its orders in place, so no variable holds a
queue. The proofs name what the links stand for: `L`, a list of slots for every level
of every book, and `F`, the free list. The invariant `IInv` says that such lists exist with

- `Rep`: slots are linked both ways along `L` and one way along `F` and know their level, the
  lists are disjoint and hold all slots, `refs` maps the known orders one to one to the
  slots of `L`, and each book's bits, best levels, totals and counts are those of `L`;
- `Agrees`: an order v3 knows is one v1 knows, at the same side and price, with the same shares;
- `V1Inv` for v1.

`OrderAgrees`, kept beside it by `OrderStands`, adds that two slots of one list stand as v1's queue
has them. `CachesExact` or `PoolExact` are not inductive without `L` and `F`: whether an unlink leaves
the list well formed depends on the links of slots no cache mentions. The proof goes bottom up:
`LinkOrder` appends to one list and `UnlinkOrder` removes one element; `Allocate` and `Release`
take and push the head of `F`; `FindPrevSet` and `FindNextSet`, word by word, return the nearest
bit (`CachesExact` needs it after a best level empties); `LevelFor` gives one level to a side and price, in
or beyond the window, and never to two; then `Rest`, `Gone` and `Reduce`, and one case per message.

Two hypotheses restrict the behaviours, both about room:

- `[]TableRoom`: the pool is at most half the table, or the live orders never exceed half the
  table. In the code it is the second that holds: the pool has 2^20 slots and the table
  2^18, and a day's live orders peak at about 76,000 by the comment in the equivalence
  test, below 131,072. `books_saturated` shows what happens otherwise (finding 1), so the
  theorems would be false without it.
- `[]PoolRoom`: the live orders never exceed the pool. `NothingMissed` derives from it that v3
  knows every order v1 knows; only `NothingMissed`, `TopsAgree` and `QueuesSame` assume it. Without it
  quotes do differ, by the orders that are missing; `QueuesKept`, `LossesExplained` and
  `PriorityStays` say what holds then.

Every behaviour of `books_window`, `books_shared`, `books_exhausted` and `sizing` satisfies `TableRoom`, by
its first half; those of `books_window` and `books_shared` also satisfy `PoolRoom`.

**Sizing** (`PoolLargeEnough`), under `[]TableRoom`: the tool's set always contains the live orders, for it
forgets an order only with a message that ends it in the books too. The peak is compared at
adds only, but no other message makes the books' orders more (a replacement takes one out and
puts one in), so at each add the peak bounds what rests, and `NothingMissed`'s argument applies
while it is at most the pool.

**From the exchange to the books** (`AlwaysParsed`, `FeedStaysLegal`, `ReceiversQueueSame`,
`ErrorsStayExplained`), for every set of sessions, packets, symbols, references, prices, books and
bytes. Assumptions: `FeedsAssumption` (above; TLC evaluates it on every session of the run), `WellFormed` packets,
`BytesAssumption` (a byte has at least two values) and `BooksAssumption`. `AlwaysParsed` has no other
hypothesis: the fields of each type keep apart (`Apart`), so byte by byte the encoder's choice is the
field that is read there, and `ReadBack` undoes the shifts of a number that fits. The other three assume
`[][NarrowGap]` and `[]TableRoom`, the last two also `[]PoolRoom`, for the reasons given above. The argument:

- *The exchange's book.* `Balanced`: as long as messages are legal, the shares an order began with
  are those left and those taken, and a deletion or replacement takes what is left. So all
  messages about an order together take at most what its creation brought, and a message that comes after
  its end takes nothing (`Takings`, `EndsAll`); hence any *subset* of them takes at most that, and strictly
  leaves what a missing one would take (`MoreLeft`). This is what makes loss and reordering harmless.
- *What a book should hold.* `Amount(f, s, r)` is 0 unless the message that creates r is among the
  messages s dispatched and had an effect (a replacement needs its original, `EffectIs`); else it is
  what that message brought less what messages dispatched *after* it take. `AmountTaken`, `AmountNew` and
  `AmountSame` say how it changes with one more message, in any order.
- *The invariant.* `EInv` is `Tracked` (the tracking's invariant, and only messages of the session are delivered),
  `AtHand` (each delivered message is dispatched or at hand, once: this needs that the tracking
  never accepts a packet twice, `NewOrSeen`) and `Booked` (every order in v1's code, behind v1's and behind v2's
  tracking, has `Amount`). Neither half stands alone: that an execution takes no more than is left needs `Booked`, and
  that `Booked` survives needs that no message comes twice.
- *The step.* `ApplyNext`: under `EInv` a dispatched message is an action of `BookEquivalence`. By
  `FeedStaysLegal` the theorems on the books hold behind the receivers; `ReceiversQueueSame` is one, and
  `Agrees` with `NothingMissed` gives v3's shares from v1's. `AmountExplained` compares `Amount` with the
  exchange's number for `ErrorsStayExplained`.

Every behaviour of `end_to_end` satisfies the three hypotheses: `kU16` exceeds the session, and pool and half the
table have room for its three orders.

What is only model-checked: `CallsReturn` and `AllRead`, which are liveness and need `ENABLED`, and the
three violations. Induction over data is done without the library's
induction theorems: the set of numbers for which a statement holds contains 0 and is closed
under successor. `SelectSeq` cannot be expanded by the provers, hence the form of
`QueuesAgreeUpToLoss`.

## 5. Not modelled, and why

- **Benchmarks and `trace_symbol`**: measurement; they drive the books through the switch
  that `Apply` models and keep samples and counters.
- **Statistics of `analyze_data`** (prices, levels, windows): histograms of one pass over a file.
- **Build files.**
- **Statistics output and pacing**: no property is about them.
- **Key 2^64-1 and over-execution by the exchange**: excluded by `SentinelAssumption` and by
  legal feeds. That the network does not produce over-execution is proved (`FeedStaysLegal`).
- **Truncated datagrams** (the tests of `off` against `n` in the dispatch loops): the sender packs
  whole messages and a datagram arrives whole or not at all; shorter ones than a header are
  `Fail` in `IoUring` and left out elsewhere.
- **Opening and mapping the file, sockets, a failing `io_uring_queue_init`**: before or beside
  everything that is stated.
- **Composition of rings with books**: `RingReceiver` shows what order the rings make, and
  `EndToEnd` what any order does to the books; their product adds states and no new question.

## 6. Plan

Done: RefMap, RefTable with proofs; both books, their bitmap scans and their equivalence, with
proofs; both receivers' tracking, counters and final report with proofs; the sender with proofs;
the rings with proofs, alone and below the tracking; parsing and dispatch from the exchange to the
books with proofs; the sizing tool with its proof.

What remains worth doing:

1. `ErrorsExplained` when the pool runs out: `LossExplained` would be a fourth case of `Explained`.
2. `LegalForBooks` without `TableRoom`: v1's half of `EInv` needs none, but `ApplyNext` needs that v3 knows
   no order v1 does not, which `IInv` shows only while the table has room.
3. `RefTable` below `OrderBookV3`: the books use `RefMap`'s operators, which `TableRefinesMap` justifies call
   by call; a composed specification would say it once.
