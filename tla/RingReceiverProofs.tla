------------------------- MODULE RingReceiverProofs -------------------------
(***************************************************************************)
(* The rings of IoUring.tla are correct for every queue depth, every       *)
(* number of datagrams and every failure: a buffer has one owner, the      *)
(* queues are large enough, and the rings keep the promise of Mailbox.tla. *)
(* The v2 and v3 receivers behind them are correct for every way of        *)
(* cutting the session into packets: the rings reorder, the tracking puts  *)
(* right what they did.                                                    *)
(***************************************************************************)
EXTENDS RingReceiver, ReceiverV3Proofs, FiniteSetTheorems, SequenceTheorems

-----------------------------------------------------------------------------
(* The rings by themselves. *)

\* What the loop has prepared is what it has handled of this batch.
LoopState ==
  /\ pc \in {"wait", "stopped"} => sq = <<>>
  /\ pc \in {"drain", "advance"} =>
       /\ completed <= Len(cq) /\ Len(sq) = completed
       /\ \A i \in 1 .. completed : sq[i] = cq[i].idx

\* The buffers of the completions that bring a packet to the loop.
Brought == {b \in Buf : \E i \in Waiting : cq[i].idx = b /\ cq[i].packet}

Held == filled \cup Brought

\* Every datagram taken is read already or held by one buffer, and none is both.
Holding ==
  /\ \A b \in Held : bufs[b] \in 1 .. taken /\ bufs[b] \notin read
  /\ \A b, c \in Held : bufs[b] = bufs[c] => b = c
  /\ \A d \in 1 .. taken : d \in read \/ \E b \in Held : bufs[b] = d

RingInv == TypeOK /\ OneOwner /\ LoopState /\ Holding

Entry == [idx : Buf, packet : BOOLEAN]

-----------------------------------------------------------------------------
(* Counting. *)

\* There are kQueueDepth buffers.
LEMMA BufFinite == IsFiniteSet(Buf) /\ Cardinality(Buf) = kQueueDepth
BY FS_Interval, RingAssumption DEF Buf

\* No more than kQueueDepth different buffers stand in a row.
LEMMA AtMostDepth ==
  ASSUME NEW a \in Int, NEW b \in Int, NEW f \in [a .. b -> Buf],
         \A i, j \in a .. b : f[i] = f[j] => i = j
  PROVE  b - a + 1 <= kQueueDepth
<1>1. f \in Injection(a .. b, Buf)
    BY DEF Injection, IsInjective
<1>2. Cardinality(a .. b) <= kQueueDepth
    BY <1>1, FS_Injection, BufFinite
<1>3. Cardinality(a .. b) = IF a > b THEN 0 ELSE b - a + 1
    BY FS_Interval
<1> QED BY <1>2, <1>3, RingAssumption

\* The positions of the queues.
LEMMA Positions ==
  ASSUME TypeOK, LoopState
  PROVE  /\ Len(cq) \in Nat /\ Len(sq) \in Nat
         /\ DOMAIN sq = 1 .. Len(sq) /\ DOMAIN cq = 1 .. Len(cq)
         /\ Head1 \in Nat \ {0} /\ Head1 <= Len(cq) + 1
         /\ Waiting = {i \in 1 .. Len(cq) : i >= Head1}
         /\ \A i \in 1 .. Len(cq) : cq[i] \in Entry
         /\ \A i \in 1 .. Len(sq) : sq[i] \in Buf
<1>1. cq \in Seq(Entry) /\ sq \in Seq(Buf) /\ completed \in Nat
    BY DEF TypeOK, Entry
<1>2. /\ Len(cq) \in Nat /\ Len(sq) \in Nat
      /\ DOMAIN sq = 1 .. Len(sq) /\ DOMAIN cq = 1 .. Len(cq)
      /\ \A i \in 1 .. Len(cq) : cq[i] \in Entry
      /\ \A i \in 1 .. Len(sq) : sq[i] \in Buf
    BY <1>1, LenProperties, ElementOfSeq
<1>3. Head1 \in Nat \ {0} /\ Head1 <= Len(cq) + 1
  <2>1. CASE pc \in {"drain", "advance"}
    <3>1. Head1 = completed + 1 /\ completed <= Len(cq)
        BY <2>1 DEF Head1, LoopState
    <3> QED BY <3>1, <1>1, <1>2
  <2>2. CASE pc \notin {"drain", "advance"}
    <3>1. Head1 = 1
        BY <2>2 DEF Head1
    <3> QED BY <3>1, <1>2
  <2> QED BY <2>1, <2>2
<1> QED BY <1>2, <1>3 DEF Waiting

\* The waiting completions name different buffers, so there are few of them.
LEMMA FewWaiting ==
  ASSUME RingInv
  PROVE  Len(cq) - Head1 + 1 <= kQueueDepth
<1>0. TypeOK /\ LoopState /\ OneOwner
    BY DEF RingInv
<1> DEFINE f == [i \in Head1 .. Len(cq) |-> cq[i].idx]
<1>1. f \in [Head1 .. Len(cq) -> Buf]
    BY <1>0, Positions DEF Entry
<1>2. \A i, j \in Head1 .. Len(cq) : f[i] = f[j] => i = j
    BY <1>0 DEF OneOwner, Waiting
<1>3. Head1 \in Int /\ Len(cq) \in Int
    BY <1>0, Positions
<1> HIDE DEF f
<1> QED BY <1>1, <1>2, <1>3, AtMostDepth

\* So are the prepared receives.
LEMMA FewQueued ==
  ASSUME RingInv
  PROVE  Len(sq) <= kQueueDepth
<1>0. TypeOK /\ LoopState /\ OneOwner
    BY DEF RingInv
<1>1. sq \in [1 .. Len(sq) -> Buf] /\ Len(sq) \in Int
    BY <1>0, LenProperties DEF TypeOK
<1>2. \A i, j \in 1 .. Len(sq) : sq[i] = sq[j] => i = j
    BY <1>0, Positions DEF OneOwner
<1>3. Len(sq) - 1 + 1 <= kQueueDepth
    BY <1>1, <1>2, AtMostDepth
<1> QED BY <1>1, <1>3

\* The types of the two queues and the count of a batch.
LEMMA EntryTyped == TypeOK => cq \in Seq(Entry) /\ sq \in Seq(Buf) /\ completed \in Nat
BY DEF TypeOK, Entry

-----------------------------------------------------------------------------
(* The initial states. *)

\* At the start every buffer is armed.
LEMMA RingInvInit == RingInit => RingInv
<1> SUFFICES ASSUME RingInit PROVE RingInv
    OBVIOUS
<1>1. sq = <<>> /\ cq = <<>> /\ Len(cq) = 0 /\ Len(sq) = 0 /\ Head1 = 1
    BY DEF RingInit, Head1
<1>2. sq \in Seq(Buf) /\ cq \in Seq(Entry)
    BY <1>1
<1>3. Waiting = {} /\ Completed = {} /\ Brought = {} /\ Queued = {} /\ Held = {}
  <2>1. Waiting = {} /\ DOMAIN sq = {}
      BY <1>1 DEF Waiting
  <2>2. filled = {}
      BY DEF RingInit
  <2> QED BY <2>1, <2>2 DEF Completed, Brought, Queued, Held
<1>4. TypeOK
    BY <1>2, RingAssumption DEF RingInit, TypeOK, Entry
<1>5. OneOwner
  <2>1. armed = Buf /\ filled = {} /\ DOMAIN sq = {}
      BY <1>1 DEF RingInit
  <2> QED BY <1>3, <2>1 DEF OneOwner
<1>6. LoopState
    BY <1>1 DEF RingInit, LoopState
<1>7. Holding
  <2>1. taken = 0
      BY DEF RingInit
  <2> QED BY <1>3, <2>1 DEF Holding
<1> QED BY <1>4, <1>5, <1>6, <1>7 DEF RingInv

-----------------------------------------------------------------------------
(* The kernel's steps. *)

\* What a step leaves as it was.
LEMMA QueuesUntouched ==
  ASSUME UNCHANGED <<sq, cq, pc, completed>>
  PROVE  /\ Head1' = Head1 /\ Waiting' = Waiting /\ Completed' = Completed
         /\ Queued' = Queued /\ Brought' = Brought /\ LoopState' = LoopState
<1>1. Head1' = Head1 /\ LoopState' = LoopState /\ Queued' = Queued
    BY DEF Head1, LoopState, Queued
<1>2. Waiting' = Waiting
    BY <1>1 DEF Waiting
<1> QED BY <1>1, <1>2 DEF Completed, Brought

\* A completion joins the queue behind those that wait.
LEMMA PostedChanges ==
  ASSUME RingInv, NEW b \in Buf, NEW flag \in BOOLEAN, b \notin Completed,
         cq' = Append(cq, [idx |-> b, packet |-> flag]),
         UNCHANGED <<sq, pc, completed>>
  PROVE  /\ cq' \in Seq(Entry) /\ LoopState' /\ Queued' = Queued
         /\ Completed' = Completed \cup {b}
         /\ Brought' = IF flag THEN Brought \cup {b} ELSE Brought
         /\ \A i, j \in Waiting' : cq'[i].idx = cq'[j].idx => i = j
<1> DEFINE e == [idx |-> b, packet |-> flag]
           n == Len(cq) + 1
<1>0. TypeOK /\ LoopState /\ OneOwner /\ e \in Entry
    BY DEF RingInv, Entry
<1>1. /\ cq' \in Seq(Entry) /\ Len(cq') = n
      /\ \A i \in 1 .. Len(cq) : cq'[i] = cq[i]
      /\ cq'[n] = e
  <2>1. cq' = Append(cq, e)
      OBVIOUS
  <2> HIDE DEF e
  <2> QED BY <1>0, <2>1, EntryTyped, AppendProperties
<1>2. Head1' = Head1 /\ Queued' = Queued
    BY DEF Head1, Queued
<1>3. /\ Waiting' = Waiting \cup {n}
      /\ \A i \in Waiting : i # n /\ cq'[i] = cq[i]
    BY <1>0, <1>1, <1>2, Positions DEF Waiting
<1>a. cq'[n].idx = b /\ cq'[n].packet = flag
    BY <1>1
<1> HIDE DEF e, n
<1>4. Completed' = Completed \cup {b}
    BY <1>3, <1>a DEF Completed
<1>5. Brought' = IF flag THEN Brought \cup {b} ELSE Brought
  <2>1. \A i \in Waiting : cq'[i].packet = cq[i].packet /\ cq'[i].idx = cq[i].idx
      BY <1>3
  <2>2. ASSUME NEW c \in Buf
        PROVE  (\E i \in Waiting' : cq'[i].idx = c /\ cq'[i].packet)
                 <=> (\E i \in Waiting : cq[i].idx = c /\ cq[i].packet) \/ (c = b /\ flag)
    <3>1. (\E i \in Waiting' : cq'[i].idx = c /\ cq'[i].packet)
            <=> \/ \E i \in Waiting : cq'[i].idx = c /\ cq'[i].packet
                \/ cq'[n].idx = c /\ cq'[n].packet
        BY <1>3
    <3>2. (\E i \in Waiting : cq'[i].idx = c /\ cq'[i].packet)
            <=> \E i \in Waiting : cq[i].idx = c /\ cq[i].packet
        BY <2>1
    <3>3. cq'[n].idx = c /\ cq'[n].packet <=> c = b /\ flag
        BY <1>a, Zenon
    <3> QED BY <3>1, <3>2, <3>3
  <2>3. Brought' = {c \in Buf : c \in Brought \/ (c = b /\ flag)}
      BY <2>2 DEF Brought
  <2>4. Brought \subseteq Buf
      BY DEF Brought
  <2> QED BY <2>3, <2>4
<1>6. \A i, j \in Waiting' : cq'[i].idx = cq'[j].idx => i = j
  <2>1. \A i \in Waiting : cq'[i].idx # cq'[n].idx
      BY <1>3, <1>a DEF Completed
  <2>2. \A i, j \in Waiting : cq'[i].idx = cq'[j].idx => i = j
      BY <1>0, <1>3 DEF OneOwner
  <2>3. ASSUME NEW i \in Waiting', NEW j \in Waiting', cq'[i].idx = cq'[j].idx
        PROVE  i = j
    <3>1. CASE i \in Waiting /\ j \in Waiting
        BY <2>2, <2>3, <3>1
    <3>2. CASE i = n \/ j = n
        BY <1>3, <2>1, <2>3, <3>2
    <3> QED BY <1>3, <3>1, <3>2
  <2> QED BY <2>3
<1>7. LoopState'
  <2>1. \A i \in 1 .. completed : pc \in {"drain", "advance"} => i \in 1 .. Len(cq)
      BY <1>0, Positions, EntryTyped DEF LoopState
  <2>2. Len(cq) \in Nat /\ completed \in Nat
      BY <1>0, Positions, EntryTyped
  <2> QED BY <1>0, <1>1, <2>1, <2>2 DEF LoopState, n
<1> QED BY <1>1, <1>2, <1>4, <1>5, <1>6, <1>7

\* A datagram reaches the socket.
LEMMA ArriveInv == ASSUME RingInv, Arrive PROVE RingInv'
<1>1. /\ Head1' = Head1 /\ Waiting' = Waiting /\ Completed' = Completed
      /\ Queued' = Queued /\ Brought' = Brought /\ LoopState' = LoopState
    BY QueuesUntouched DEF Arrive
<1>2. TypeOK'
    BY DEF RingInv, TypeOK, Arrive
<1>3. OneOwner'
    BY <1>1 DEF RingInv, OneOwner, Arrive
<1>4. Holding'
    BY <1>1 DEF RingInv, Holding, Held, Arrive
<1> QED BY <1>1, <1>2, <1>3, <1>4 DEF RingInv

\* The kernel fills an armed buffer.
LEMMA TakeInv == ASSUME RingInv, NEW b \in Buf, Take(b) PROVE RingInv'
<1>0. TypeOK /\ LoopState /\ OneOwner /\ Holding
    BY DEF RingInv
<1>1. /\ Waiting' = Waiting /\ Completed' = Completed
      /\ Queued' = Queued /\ Brought' = Brought /\ LoopState' = LoopState
    BY QueuesUntouched DEF Take
<1>2. /\ taken \in Nat /\ taken' = taken + 1 /\ taken' <= arrived
      /\ bufs' \in [Buf -> 0 .. taken'] /\ bufs'[b] = taken'
      /\ \A c \in Buf : c # b => bufs'[c] = bufs[c] /\ bufs[c] \in 0 .. taken
    BY <1>0 DEF TypeOK, Take
<1>3. TypeOK'
    BY <1>0, <1>2 DEF TypeOK, Take
<1>4. OneOwner'
    BY <1>0, <1>1 DEF OneOwner, Take
<1>5. b \notin Held /\ Held' = Held \cup {b} /\ Held \subseteq Buf
  <2>1. Brought \subseteq Completed
      BY DEF Brought, Completed
  <2> QED BY <1>0, <1>1, <2>1 DEF Held, OneOwner, Take
<1>6. Holding'
  <2>1. \A c \in Held : bufs'[c] = bufs[c] /\ bufs[c] \in 1 .. taken /\ bufs[c] \notin read
      BY <1>0, <1>2, <1>5 DEF Holding
  <2>2. read' = read /\ taken' \notin read
      BY <1>0, <1>2 DEF Take, TypeOK
  <2>3. \A c \in Held' : bufs'[c] \in 1 .. taken' /\ bufs'[c] \notin read'
      BY <1>2, <1>5, <2>1, <2>2
  <2>4. \A c \in Held : bufs'[c] # bufs'[b]
      BY <1>2, <2>1
  <2>5. \A c, d \in Held : bufs'[c] = bufs'[d] => c = d
      BY <1>0, <2>1 DEF Holding
  <2>6. ASSUME NEW d \in 1 .. taken' PROVE d \in read' \/ \E c \in Held' : bufs'[c] = d
    <3>1. CASE d = taken'
        BY <3>1, <1>2, <1>5
    <3>2. CASE d \in 1 .. taken
        BY <3>2, <1>0, <1>5, <2>1, <2>2 DEF Holding
    <3> QED BY <3>1, <3>2, <1>2
  <2> QED BY <1>5, <2>3, <2>4, <2>5, <2>6 DEF Holding
<1> QED BY <1>0, <1>1, <1>3, <1>4, <1>6 DEF RingInv

\* The kernel posts a completion.
LEMMA PostInv == ASSUME RingInv, NEW b \in Buf, Post(b) PROVE RingInv'
<1>0. TypeOK /\ LoopState /\ OneOwner /\ Holding
    BY DEF RingInv
<1>1. /\ cq' \in Seq(Entry) /\ LoopState' /\ Queued' = Queued
      /\ Completed' = Completed \cup {b} /\ Brought' = Brought \cup {b}
      /\ \A i, j \in Waiting' : cq'[i].idx = cq'[j].idx => i = j
    BY <1>0, PostedChanges, b \notin Completed DEF Post, OneOwner
<1>2. TypeOK'
    BY <1>0, <1>1 DEF TypeOK, Post, Entry
<1>3. OneOwner'
  <2>1. b \in filled /\ filled' = filled \ {b} /\ UNCHANGED <<armed, sq>>
      BY DEF Post
  <2>2. /\ armed' \cup filled' \cup Completed' \cup Queued' = Buf
        /\ armed' \cap filled' = {} /\ armed' \cap Completed' = {} /\ armed' \cap Queued' = {}
        /\ filled' \cap Completed' = {} /\ filled' \cap Queued' = {}
        /\ Completed' \cap Queued' = {}
    <3>1. /\ armed \cup filled \cup Completed \cup Queued = Buf
          /\ armed \cap filled = {} /\ armed \cap Completed = {} /\ armed \cap Queued = {}
          /\ filled \cap Completed = {} /\ filled \cap Queued = {}
          /\ Completed \cap Queued = {}
        BY <1>0 DEF OneOwner
    <3>2. armed' = armed /\ Queued' = Queued /\ Completed' = Completed \cup {b}
        BY <1>1, <2>1
    <3> QED BY <2>1, <3>1, <3>2
  <2>3. \A i, j \in DOMAIN sq' : sq'[i] = sq'[j] => i = j
      BY <1>0, <2>1 DEF OneOwner
  <2> QED BY <1>1, <2>2, <2>3 DEF OneOwner
<1>4. Held' = Held
    BY <1>1 DEF Held, Post
<1>5. Holding'
    BY <1>0, <1>4 DEF Holding, Post
<1> QED BY <1>1, <1>2, <1>3, <1>5 DEF RingInv

\* A receive fails and is posted as such.
LEMMA FailInv == ASSUME RingInv, NEW b \in Buf, Fail(b) PROVE RingInv'
<1>0. TypeOK /\ LoopState /\ OneOwner /\ Holding
    BY DEF RingInv
<1>1. /\ cq' \in Seq(Entry) /\ LoopState' /\ Queued' = Queued
      /\ Completed' = Completed \cup {b} /\ Brought' = Brought
      /\ \A i, j \in Waiting' : cq'[i].idx = cq'[j].idx => i = j
    BY <1>0, PostedChanges, b \notin Completed DEF Fail, OneOwner
<1>2. TypeOK'
    BY <1>0, <1>1 DEF TypeOK, Fail, Entry
<1>3. OneOwner'
  <2>1. b \in armed /\ armed' = armed \ {b} /\ UNCHANGED <<filled, sq>>
      BY DEF Fail
  <2> QED BY <1>0, <1>1, <2>1 DEF OneOwner
<1>4. Held' = Held
    BY <1>1 DEF Held, Fail
<1>5. Holding'
    BY <1>0, <1>4 DEF Holding, Fail
<1> QED BY <1>1, <1>2, <1>3, <1>5 DEF RingInv

-----------------------------------------------------------------------------
(* The loop's steps. *)

\* A step of the loop that handles nothing.
LEMMA MovesOn ==
  ASSUME RingInv, Head1' = Head1,
         UNCHANGED <<kernel_vars, sq, cq, read, packets>>
  PROVE  OneOwner' /\ Holding'
<1>1. Waiting' = Waiting /\ Queued' = Queued
    BY DEF Waiting, Queued
<1>2. Completed' = Completed /\ Brought' = Brought
    BY <1>1 DEF Completed, Brought
<1>3. Held' = Held
    BY <1>2 DEF Held, kernel_vars
<1>4. OneOwner'
    BY <1>1, <1>2 DEF RingInv, OneOwner, kernel_vars
<1>5. Holding'
    BY <1>3 DEF RingInv, Holding, kernel_vars
<1> QED BY <1>4, <1>5

\* The wait returns and a batch begins.
LEMMA WakeInv == ASSUME RingInv, Wake PROVE RingInv'
<1>1. sq = <<>> /\ Len(sq) = 0 /\ Len(cq) \in Nat
    BY Positions DEF RingInv, Wake, LoopState
<1>2. Head1' = Head1
    BY DEF Wake, Head1
<1>3. OneOwner' /\ Holding'
    BY <1>2, MovesOn DEF Wake
<1>4. TypeOK'
    BY DEF RingInv, TypeOK, Wake, kernel_vars
<1>5. LoopState'
    BY <1>1 DEF Wake, LoopState
<1> QED BY <1>3, <1>4, <1>5 DEF RingInv

\* The loop ends.
LEMMA StopInv == ASSUME RingInv, Stop PROVE RingInv'
<1>1. Head1' = Head1
    BY DEF Stop, Head1
<1>2. OneOwner' /\ Holding'
    BY <1>1, MovesOn DEF Stop
<1>3. TypeOK'
    BY DEF RingInv, TypeOK, Stop, kernel_vars
<1>4. LoopState'
    BY DEF RingInv, Stop, LoopState
<1> QED BY <1>2, <1>3, <1>4 DEF RingInv

\* The batch ends when every completion in the queue has been handled.
LEMMA DrainedInv == ASSUME RingInv, Drained PROVE RingInv'
<1>1. Head1' = Head1
    BY DEF Drained, Head1
<1>2. OneOwner' /\ Holding'
    BY <1>1, MovesOn DEF Drained
<1>3. TypeOK'
    BY DEF RingInv, TypeOK, Drained, kernel_vars
<1>4. LoopState'
    BY DEF RingInv, Drained, LoopState
<1> QED BY <1>2, <1>3, <1>4 DEF RingInv

\* The receives that were queued again go to the kernel.
LEMMA SubmitInv == ASSUME RingInv, Submit PROVE RingInv'
<1>0. TypeOK /\ LoopState /\ OneOwner /\ Holding
    BY DEF RingInv
<1>1. Head1' = Head1 /\ cq' = cq /\ filled' = filled
    BY DEF Submit, Head1
<1>2. Waiting' = Waiting
    BY <1>1 DEF Waiting
<1>3. Completed' = Completed /\ Brought' = Brought
    BY <1>1, <1>2 DEF Completed, Brought
<1>4. sq' = <<>> /\ Queued' = {} /\ armed' = armed \cup Queued /\ DOMAIN sq' = {}
  <2>1. sq' = <<>> /\ DOMAIN sq' = {}
      BY DEF Submit
  <2> QED BY <2>1 DEF Submit, Queued
<1>5. TypeOK'
  <2>1. Queued \subseteq Buf
      BY <1>0 DEF OneOwner
  <2>2. sq' \in Seq(Buf)
      BY <1>4
  <2> QED BY <1>0, <1>4, <2>1, <2>2 DEF TypeOK, Submit
<1>6. OneOwner'
    BY <1>0, <1>1, <1>2, <1>3, <1>4 DEF OneOwner
<1>7. Holding'
    BY <1>0, <1>1, <1>3 DEF Holding, Held, Submit
<1>8. LoopState'
    BY <1>4 DEF LoopState, Submit
<1> QED BY <1>5, <1>6, <1>7, <1>8 DEF RingInv

\* Advancing renumbers the waiting completions and loses none of them.
LEMMA AdvanceInv == ASSUME RingInv, Advance PROVE RingInv'
<1>0. /\ TypeOK /\ LoopState /\ OneOwner /\ Holding
      /\ UNCHANGED <<kernel_vars, sq, completed, read, packets>>
    BY DEF RingInv, Advance
<1>1. /\ completed \in Nat /\ Len(cq) \in Nat /\ completed <= Len(cq)
      /\ Head1 = completed + 1 /\ Head1' = 1
    BY <1>0, Positions, EntryTyped DEF Advance, LoopState, Head1
<1>2. /\ cq' \in Seq(Entry) /\ Len(cq') = Len(cq) - completed
      /\ \A i \in 1 .. Len(cq) - completed : cq'[i] = cq[completed + i]
  <2>1. \A i \in completed + 1 .. Len(cq) : cq[i] \in Entry
      BY <1>0, <1>1, Positions
  <2>2. completed + 1 \in Int /\ Len(cq) \in Int
      BY <1>1
  <2>3. cq' = SubSeq(cq, completed + 1, Len(cq))
      BY DEF Advance
  <2>4. /\ cq' \in Seq(Entry)
        /\ Len(cq') = IF completed + 1 <= Len(cq) THEN Len(cq) - (completed + 1) + 1 ELSE 0
        /\ \A i \in 1 .. Len(cq) - (completed + 1) + 1 : cq'[i] = cq[completed + 1 + i - 1]
      BY <2>1, <2>2, <2>3, SubSeqProperties
  <2> QED BY <1>1, <2>4
<1>3. /\ \A i \in Waiting' : completed + i \in Waiting /\ cq'[i] = cq[completed + i]
      /\ \A i \in Waiting : i - completed \in Waiting' /\ cq'[i - completed] = cq[i]
      /\ Waiting \subseteq Int /\ Waiting' \subseteq Int
    BY <1>1, <1>2 DEF Waiting
<1>4. Completed' = Completed
  <2>1. ASSUME NEW i \in Waiting' PROVE cq'[i].idx \in Completed
      BY <1>3 DEF Completed
  <2>2. ASSUME NEW i \in Waiting PROVE cq[i].idx \in Completed'
    <3>1. i - completed \in Waiting' /\ cq'[i - completed].idx = cq[i].idx
        BY <1>3
    <3> QED BY <3>1 DEF Completed
  <2> QED BY <2>1, <2>2 DEF Completed
<1>5. Brought' = Brought
    BY <1>3 DEF Brought
<1>6. TypeOK'
    BY <1>0, <1>2 DEF TypeOK, Advance, Entry, kernel_vars
<1>7. OneOwner'
  <2>1. Queued' = Queued
      BY <1>0 DEF Queued
  <2>2. \A i, j \in Waiting' : cq'[i].idx = cq'[j].idx => i = j
    <3> SUFFICES ASSUME NEW i \in Waiting', NEW j \in Waiting', cq'[i].idx = cq'[j].idx
                 PROVE  i = j
        OBVIOUS
    <3>1. cq[completed + i].idx = cq[completed + j].idx
        BY <1>3
    <3>2. completed + i \in Waiting /\ completed + j \in Waiting
        BY <1>3
    <3>3. completed + i = completed + j
        BY <1>0, <3>1, <3>2 DEF OneOwner
    <3>4. i \in Int /\ j \in Int
        BY <1>3
    <3> QED BY <3>3, <3>4, <1>1
  <2> QED BY <1>0, <1>4, <2>1, <2>2 DEF OneOwner, kernel_vars
<1>8. Holding'
    BY <1>0, <1>5 DEF Holding, Held, kernel_vars
<1>9. LoopState'
    BY DEF LoopState, Advance
<1> QED BY <1>6, <1>7, <1>8, <1>9 DEF RingInv

\* What one round of the batch moves: the completion at the head is handled,
\* and its buffer prepared again.
LEMMA ProcessChanges ==
  ASSUME RingInv, Process
  PROVE  /\ Cqe \in Entry /\ Cqe.idx \in Completed
         /\ completed + 1 \in Waiting /\ Waiting' = Waiting \ {completed + 1}
         /\ Completed' = Completed \ {Cqe.idx}
         /\ Queued' = Queued \cup {Cqe.idx} /\ sq' \in Seq(Buf)
         /\ \A i, j \in DOMAIN sq' : sq'[i] = sq'[j] => i = j
         /\ Brought' = Brought \ {Cqe.idx} /\ (Cqe.packet <=> Cqe.idx \in Brought)
         /\ LoopState'
<1>0. /\ TypeOK /\ LoopState /\ OneOwner
      /\ cq' = cq /\ completed' = completed + 1 /\ pc = "drain" /\ pc' = pc
    BY DEF RingInv, Process
<1>1. /\ completed \in Nat /\ Len(cq) \in Nat /\ completed < Len(cq)
      /\ Head1 = completed + 1 /\ Head1' = completed + 2 /\ Len(sq) = completed
    BY <1>0, Positions, EntryTyped DEF Process, LoopState, Head1
<1>2. completed + 1 \in Waiting /\ Waiting' = Waiting \ {completed + 1}
    BY <1>0, <1>1 DEF Waiting
<1>3. Cqe \in Entry /\ Cqe.idx \in Buf /\ Cqe.packet \in BOOLEAN
    BY <1>0, <1>1, Positions DEF Cqe, Entry
<1>4. Cqe.idx \in Completed
    BY <1>2 DEF Completed, Cqe
<1>5. \A i \in Waiting' : cq[i].idx # Cqe.idx
    BY <1>0, <1>2 DEF OneOwner, Cqe
<1>6. Completed' = Completed \ {Cqe.idx}
  <2>1. Completed' = {cq[i].idx : i \in Waiting'}
      BY <1>0 DEF Completed
  <2>2. \A i \in Waiting : i # completed + 1 => i \in Waiting'
      BY <1>2
  <2> QED BY <1>2, <1>5, <2>1, <2>2 DEF Completed, Cqe
<1>7. Brought' = Brought \ {Cqe.idx}
  <2>1. Brought' = {b \in Buf : \E i \in Waiting' : cq[i].idx = b /\ cq[i].packet}
      BY <1>0 DEF Brought
  <2> QED BY <1>2, <1>5, <2>1 DEF Brought, Cqe
<1>8. Cqe.packet <=> Cqe.idx \in Brought
  <2>1. Cqe.idx \in Brought => Cqe.packet
    <3> SUFFICES ASSUME NEW i \in Waiting, cq[i].idx = Cqe.idx, cq[i].packet
                 PROVE  Cqe.packet
        BY DEF Brought
    <3>1. i = completed + 1
        BY <1>2, <1>5
    <3> QED BY <3>1 DEF Cqe
  <2>2. Cqe.packet => Cqe.idx \in Brought
      BY <1>2, <1>3 DEF Brought, Cqe
  <2> QED BY <2>1, <2>2
<1>9. /\ sq' \in Seq(Buf) /\ Len(sq') = completed + 1
      /\ \A i \in 1 .. completed : sq'[i] = sq[i]
      /\ sq'[completed + 1] = Cqe.idx
    BY <1>0, <1>1, <1>3, EntryTyped, AppendProperties DEF Process, PrepRecv
<1>10. DOMAIN sq = 1 .. completed /\ DOMAIN sq' = 1 .. completed + 1
    BY <1>0, <1>1, <1>9, Positions, LenProperties
<1>11. Queued' = Queued \cup {Cqe.idx}
  <2>1. \A i \in DOMAIN sq : i \in DOMAIN sq' /\ sq'[i] = sq[i]
      BY <1>1, <1>9, <1>10
  <2>2. \A i \in DOMAIN sq' : i = completed + 1 \/ i \in DOMAIN sq
      BY <1>1, <1>10
  <2>3. completed + 1 \in DOMAIN sq'
      BY <1>1, <1>10
  <2> QED BY <1>9, <2>1, <2>2, <2>3 DEF Queued
<1>12. \A i, j \in DOMAIN sq' : sq'[i] = sq'[j] => i = j
  <2>1. \A i \in DOMAIN sq : sq[i] # Cqe.idx
      BY <1>0, <1>4 DEF OneOwner, Queued
  <2>2. \A i, j \in DOMAIN sq : sq[i] = sq[j] => i = j
      BY <1>0 DEF OneOwner
  <2> QED BY <1>1, <1>9, <1>10, <2>1, <2>2
<1>13. LoopState'
  <2>1. \A i \in 1 .. completed : sq'[i] = cq[i].idx
      BY <1>0, <1>9 DEF LoopState
  <2>2. \A i \in 1 .. completed + 1 : sq'[i] = cq[i].idx
      BY <1>1, <1>9, <2>1 DEF Cqe
  <2> QED BY <1>0, <1>1, <1>9, <2>2 DEF LoopState
<1> QED BY <1>2, <1>3, <1>4, <1>6, <1>7, <1>8, <1>9, <1>11, <1>12, <1>13

\* The datagram of a completion is new to the loop.
LEMMA BroughtNews ==
  ASSUME RingInv, Process, Cqe.packet
  PROVE  /\ bufs[Cqe.idx] \in (1 .. taken) \ read
         /\ read' = read \cup {bufs[Cqe.idx]} /\ packets' = packets + 1
<1>1. Cqe.idx \in Held
    BY ProcessChanges DEF Held
<1> QED BY <1>1 DEF RingInv, Holding, Process

\* One round of the loop reads a buffer and queues its receive again.
LEMMA ProcessInv == ASSUME RingInv, Process PROVE RingInv'
<1>0. /\ TypeOK /\ LoopState /\ OneOwner /\ Holding
      /\ UNCHANGED <<kernel_vars, cq, pc>>
    BY DEF RingInv, Process
<1>1. /\ Cqe.idx \in Completed /\ Waiting' \subseteq Waiting
      /\ Completed' = Completed \ {Cqe.idx}
      /\ Queued' = Queued \cup {Cqe.idx} /\ sq' \in Seq(Buf)
      /\ \A i, j \in DOMAIN sq' : sq'[i] = sq'[j] => i = j
      /\ Brought' = Brought \ {Cqe.idx} /\ (Cqe.packet <=> Cqe.idx \in Brought)
      /\ LoopState'
    BY ProcessChanges
<1>2. /\ Cqe.packet => /\ bufs[Cqe.idx] \in 1 .. taken
                       /\ read' = read \cup {bufs[Cqe.idx]} /\ packets' = packets + 1
      /\ ~Cqe.packet => read' = read /\ packets' = packets
    BY BroughtNews DEF Process
<1>3. TypeOK'
  <2>1. read' \subseteq 1 .. taken' /\ packets' \in Nat
    <3>1. taken' = taken /\ read \subseteq 1 .. taken /\ packets \in Nat
        BY <1>0 DEF TypeOK, kernel_vars
    <3>2. CASE Cqe.packet
      <4>1. bufs[Cqe.idx] \in 1 .. taken /\ read' = read \cup {bufs[Cqe.idx]}
          BY <1>2, <3>2
      <4>2. packets' = packets + 1
          BY <1>2, <3>2
      <4>3. read' \subseteq 1 .. taken'
          BY <3>1, <4>1
      <4> QED BY <3>1, <4>2, <4>3
    <3>3. CASE ~Cqe.packet
        BY <1>2, <3>1, <3>3
    <3> QED BY <3>2, <3>3
  <2>2. completed' \in Nat
      BY <1>0 DEF TypeOK, Process
  <2> QED BY <1>0, <1>1, <2>1, <2>2 DEF TypeOK, kernel_vars
<1>4. OneOwner'
  <2>1. \A i, j \in Waiting' : cq'[i].idx = cq'[j].idx => i = j
      BY <1>0, <1>1 DEF OneOwner
  <2>2. armed' = armed /\ filled' = filled
      BY <1>0 DEF kernel_vars
  <2> QED BY <1>0, <1>1, <2>1, <2>2 DEF OneOwner
<1>5. Holding'
  <2>1. Cqe.idx \notin filled
      BY <1>0, <1>1 DEF OneOwner
  <2>2. filled' = filled /\ bufs' = bufs /\ taken' = taken
      BY <1>0 DEF kernel_vars
  <2>3. Held' = Held \ {Cqe.idx}
      BY <1>1, <2>1, <2>2 DEF Held
  <2>4. CASE Cqe.packet
    <3>1. Cqe.idx \in Held /\ read' = read \cup {bufs[Cqe.idx]}
        BY <1>1, <1>2, <2>4 DEF Held
    <3> QED BY <1>0, <2>2, <2>3, <3>1 DEF Holding
  <2>5. CASE ~Cqe.packet
    <3>1. Cqe.idx \notin Held /\ read' = read
        BY <1>1, <1>2, <2>1, <2>5 DEF Held
    <3> QED BY <1>0, <2>2, <2>3, <3>1 DEF Holding
  <2> QED BY <2>4, <2>5
<1> QED BY <1>1, <1>3, <1>4, <1>5 DEF RingInv

\* Every step of the kernel and of the loop keeps the rings' invariant.
LEMMA RingInvNext == RingInv /\ [RingNext]_ring_vars => RingInv'
<1> SUFFICES ASSUME RingInv, [RingNext]_ring_vars PROVE RingInv'
    OBVIOUS
<1>1. CASE Kernel
    BY <1>1, TakeInv, PostInv, FailInv DEF Kernel
<1>2. CASE Loop
    BY <1>2, WakeInv, ProcessInv, DrainedInv, AdvanceInv, SubmitInv DEF Loop
<1>3. CASE UNCHANGED ring_vars
  <2>1. UNCHANGED <<sq, cq, pc, completed>>
      BY <1>3 DEF ring_vars
  <2>2. Head1' = Head1 /\ LoopState' = LoopState
      BY <2>1, QueuesUntouched
  <2>3. OneOwner' /\ Holding'
      BY <1>3, <2>2, MovesOn DEF ring_vars, kernel_vars
  <2>4. TypeOK'
      BY <1>3 DEF RingInv, TypeOK, ring_vars
  <2> QED BY <2>2, <2>3, <2>4 DEF RingInv
<1> QED BY <1>1, <1>2, <1>3, ArriveInv, StopInv DEF RingNext

-----------------------------------------------------------------------------
(* The theorems. *)

\* The rings' state is well typed (v3/receiver.cpp:75-84, 104-209).
THEOREM RingTyped == RingSpec => []TypeOK
<1>1. RingInv => TypeOK
    BY DEF RingInv
<1> QED BY <1>1, RingInvInit, RingInvNext, PTL DEF RingSpec

\* Every buffer is in exactly one place, whatever the kernel does beside the
\* loop (v3/receiver.cpp:205): it never writes one that the loop reads.
THEOREM BuffersOwned == RingSpec => []OneOwner
<1>1. RingInv => OneOwner
    BY DEF RingInv
<1> QED BY <1>1, RingInvInit, RingInvNext, PTL DEF RingSpec

\* With each buffer in one place no queue holds more than there are buffers.
LEMMA InvFits == RingInv => RingsFit
<1> SUFFICES ASSUME RingInv PROVE RingsFit
    OBVIOUS
<1>0. /\ TypeOK /\ LoopState /\ OneOwner
      /\ completed \in Nat /\ Len(cq) \in Nat /\ Len(sq) \in Nat
      /\ kQueueDepth \in Nat \ {0}
    BY Positions, EntryTyped, RingAssumption DEF RingInv
<1>1. Len(sq) <= kQueueDepth /\ Len(cq) - Head1 + 1 <= kQueueDepth
    BY FewQueued, FewWaiting
<1>2. pc \in {"drain", "advance"} => completed <= kQueueDepth
    BY <1>0, <1>1 DEF LoopState
<1>3. Len(cq) <= CqEntries
  <2>1. CASE pc \in {"drain", "advance"}
    <3>1. Head1 = completed + 1
        BY <2>1 DEF Head1
    <3> QED BY <1>0, <1>1, <1>2, <2>1, <3>1 DEF CqEntries
  <2>2. CASE pc \notin {"drain", "advance"}
    <3>1. Head1 = 1
        BY <2>2 DEF Head1
    <3> QED BY <1>0, <1>1, <3>1 DEF CqEntries
  <2> QED BY <2>1, <2>2
<1>4. ASSUME pc = "drain", completed < Len(cq) PROVE Len(sq) < kQueueDepth
  <2>1. \A i \in 1 .. Len(sq) : sq[i] \in Buf /\ sq[i] \in Queued
      BY <1>0, Positions DEF Queued
  <2> DEFINE head == cq[completed + 1].idx
             f == [i \in 1 .. Len(sq) + 1 |-> IF i <= Len(sq) THEN sq[i] ELSE head]
  <2>2. head \in Completed /\ head \in Buf /\ head \notin Queued
    <3>1. completed + 1 \in Waiting
        BY <1>0, <1>4 DEF Waiting, Head1
    <3>2. head \in Completed
        BY <3>1 DEF Completed
    <3> QED BY <1>0, <3>2 DEF OneOwner
  <2> HIDE DEF head
  <2>3. f \in [1 .. Len(sq) + 1 -> Buf]
      BY <1>0, <2>1, <2>2
  <2>4. \A i, j \in 1 .. Len(sq) + 1 : f[i] = f[j] => i = j
    <3>1. \A i, j \in 1 .. Len(sq) : sq[i] = sq[j] => i = j
        BY <1>0, Positions DEF OneOwner
    <3>2. \A i \in 1 .. Len(sq) : f[i] = sq[i] /\ sq[i] # head
        BY <1>0, <2>1, <2>2
    <3>3. f[Len(sq) + 1] = head
        BY <1>0
    <3>4. \A i \in 1 .. Len(sq) + 1 : i \in 1 .. Len(sq) \/ i = Len(sq) + 1
        BY <1>0
    <3> HIDE DEF f
    <3> QED BY <3>1, <3>2, <3>3, <3>4
  <2> HIDE DEF f
  <2>5. Len(sq) + 1 - 1 + 1 <= kQueueDepth
      BY <1>0, <2>3, <2>4, AtMostDepth
  <2> QED BY <1>0, <2>5
<1> QED BY <1>2, <1>3, <1>4 DEF RingsFit

\* io_uring_get_sqe has an entry whenever prep_recv asks for one, the
\* completion queue never overflows and a batch is never longer than the
\* buffers (v3/receiver.cpp:75-79, 108-209).
THEOREM QueuesLargeEnough == RingSpec => []RingsFit
BY InvFits, RingInvInit, RingInvNext, PTL DEF RingSpec

\* What a datagram overtakes is held in the other buffers.
LEMMA OvertakesFew ==
  ASSUME RingInv, Process, Cqe.packet
  PROVE  Box!Read(bufs[Cqe.idx])
<1> DEFINE d == bufs[Cqe.idx]
           before == {e \in Box!Unread : e < d}
           others == Buf \ {Cqe.idx}
<1>0. /\ TypeOK /\ Holding /\ arrived \in Nat /\ taken \in Nat /\ taken <= arrived
      /\ Cqe.idx \in Buf /\ arrived' = arrived
  <2>1. Cqe.idx \in Buf
      BY ProcessChanges DEF Entry
  <2> QED BY <2>1 DEF RingInv, TypeOK, Process, kernel_vars
<1>1. d \in (1 .. taken) \ read /\ read' = read \cup {d} /\ packets' = packets + 1
    BY BroughtNews
<1>2. d \in Box!Unread
    BY <1>0, <1>1 DEF Box!Unread
<1>3. Cardinality(before) < kQueueDepth
  <2>1. \A e \in before : \E b \in others : bufs[b] = e
    <3> SUFFICES ASSUME NEW e \in before PROVE \E b \in others : bufs[b] = e
        OBVIOUS
    <3>1. e \in 1 .. taken /\ e \notin read /\ e # d
        BY <1>0, <1>1 DEF Box!Unread
    <3>2. PICK b \in Held : bufs[b] = e
        BY <1>0, <3>1 DEF Holding
    <3>3. b \in Buf
        BY <1>0, <3>2 DEF Held, Brought, TypeOK
    <3> QED BY <3>1, <3>2, <3>3
  <2> DEFINE f == [e \in before |-> CHOOSE b \in others : bufs[b] = e]
  <2>2. \A e \in before : f[e] \in others /\ bufs[f[e]] = e
      BY <2>1
  <2>3. f \in Injection(before, others)
    <3>1. f \in [before -> others]
        BY <2>2
    <3>2. \A x, y \in before : f[x] = f[y] => x = y
        BY <2>2
    <3> HIDE DEF f, before
    <3> QED BY <3>1, <3>2 DEF Injection, IsInjective
  <2>4. IsFiniteSet(others) /\ Cardinality(others) = kQueueDepth - 1
      BY <1>0, BufFinite, FS_RemoveElement
  <2>5. Cardinality(before) <= Cardinality(others) /\ IsFiniteSet(before)
    <3> HIDE DEF f, before, others
    <3> QED BY <2>3, <2>4, FS_Injection
  <2>6. Cardinality(before) \in Nat
      BY <2>5, FS_CardinalityType
  <2> QED BY <2>4, <2>5, <2>6, RingAssumption
<1>4. Box!Cardinality(before) = Cardinality(before)
    BY DEF Box!Cardinality, Cardinality
<1> QED BY <1>0, <1>1, <1>2, <1>3, <1>4 DEF Box!Read

\* Every step of the rings is one of the mailbox, or changes nothing it shows.
LEMMA RefineNext == RingInv /\ [RingNext]_ring_vars => [Box!Next]_(Box!vars)
<1> SUFFICES ASSUME RingInv, [RingNext]_ring_vars PROVE [Box!Next]_(Box!vars)
    OBVIOUS
<1>1. CASE Arrive
    BY <1>1 DEF Arrive, Box!Next, Box!Arrive
<1>2. CASE Process
  <2>1. CASE Cqe.packet
      BY <1>2, <2>1, OvertakesFew DEF Box!Next, Box!Read
  <2>2. CASE ~Cqe.packet
      BY <1>2, <2>2 DEF Process, kernel_vars, Box!vars
  <2> QED BY <2>1, <2>2
<1>3. CASE Kernel
    BY <1>3 DEF Kernel, Take, Post, Fail, Box!vars
<1>4. CASE Wake \/ Drained \/ Advance \/ Submit \/ Stop
    BY <1>4 DEF Wake, Drained, Advance, Submit, Stop, kernel_vars, Box!vars
<1>5. CASE UNCHANGED ring_vars
    BY <1>5 DEF ring_vars, Box!vars
<1> QED BY <1>1, <1>2, <1>3, <1>4, <1>5 DEF RingNext, Loop

\* The rings implement Mailbox.tla: every datagram is read once, whole, and no
\* more than kQueueDepth - 1 places out of order (README.md:230-233).
THEOREM RingsRefineMailbox == RingSpec => RefinesMailbox
<1>1. RingInit => Box!Init
    BY DEF RingInit, Box!Init
<1>2. RingInv /\ [RingNext]_ring_vars => [Box!Next]_(Box!vars)
    BY RefineNext
<1> QED BY <1>1, <1>2, RingInvInit, RingInvNext, PTL DEF RingSpec, RefinesMailbox, Box!Spec
-----------------------------------------------------------------------------
(* The datagrams that a later one has overtaken. *)

Overtaken == {e \in (1 .. taken) \ read : \E r \in read : e < r}

FewOvertaken == Cardinality(Overtaken) < kQueueDepth

\* The datagrams that were overtaken are finitely many.
LEMMA OvertakenFinite == TypeOK => IsFiniteSet(Overtaken) /\ Cardinality(Overtaken) \in Nat
<1> SUFFICES ASSUME TypeOK PROVE IsFiniteSet(Overtaken) /\ Cardinality(Overtaken) \in Nat
    OBVIOUS
<1>1. IsFiniteSet(1 .. taken) /\ Overtaken \in SUBSET (1 .. taken)
    BY FS_Interval DEF TypeOK, Overtaken
<1> QED BY <1>1, FS_Subset, FS_CardinalityType

\* A set within one that is small enough is small enough.
LEMMA FewerOvertaken ==
  ASSUME NEW S, IsFiniteSet(S), Cardinality(S) < kQueueDepth, Overtaken' \subseteq S
  PROVE  FewOvertaken'
<1>1. Overtaken' \in SUBSET S
    OBVIOUS
<1>2. IsFiniteSet(Overtaken') /\ Cardinality(Overtaken') <= Cardinality(S)
    BY <1>1, FS_Subset
<1>3. Cardinality(S) \in Nat /\ Cardinality(Overtaken') \in Nat
    BY <1>2, FS_CardinalityType
<1> QED BY <1>2, <1>3, RingAssumption DEF FewOvertaken

\* Fewer datagrams than buffers are overtaken at any time.
LEMMA OvertakenInit == RingInit => FewOvertaken
<1> SUFFICES ASSUME RingInit PROVE FewOvertaken
    OBVIOUS
<1>1. Overtaken = {}
    BY DEF RingInit, Overtaken
<1> QED BY <1>1, FS_EmptySet, RingAssumption DEF FewOvertaken

\* Fewer than kQueueDepth datagrams are overtaken after every step.
LEMMA OvertakenNext == RingInv /\ FewOvertaken /\ [RingNext]_ring_vars => FewOvertaken'
<1> SUFFICES ASSUME RingInv, FewOvertaken, [RingNext]_ring_vars PROVE FewOvertaken'
    OBVIOUS
<1>0. TypeOK /\ taken \in Nat /\ arrived \in Nat /\ taken <= arrived /\ read \subseteq 1 .. taken
    BY DEF RingInv, TypeOK
<1>1. ASSUME Overtaken' \subseteq Overtaken PROVE FewOvertaken'
    BY <1>0, <1>1, OvertakenFinite, FewerOvertaken DEF FewOvertaken
<1>2. CASE taken' = taken /\ read' = read
    BY <1>1, <1>2 DEF Overtaken
<1>3. ASSUME NEW b \in Buf, Take(b) PROVE FewOvertaken'
  <2>1. taken' = taken + 1 /\ read' = read
      BY <1>3 DEF Take
  <2>2. Overtaken' \subseteq Overtaken
      BY <1>0, <2>1 DEF Overtaken
  <2> QED BY <1>1, <2>2
<1>4. CASE Process
  <2> DEFINE d == bufs[Cqe.idx]
             before == {e \in Box!Unread : e < d}
  <2>0. taken' = taken
      BY <1>4 DEF Process, kernel_vars
  <2>1. CASE ~Cqe.packet
      BY <1>2, <1>4, <2>0, <2>1 DEF Process
  <2>2. CASE Cqe.packet
    <3>1. d \in (1 .. taken) \ read /\ read' = read \cup {d}
        BY <1>4, <2>2, BroughtNews
    <3>2. CASE \E r \in read : d < r
      <4>1. Overtaken' \subseteq Overtaken
          BY <1>0, <2>0, <3>1, <3>2 DEF Overtaken
      <4> QED BY <1>1, <4>1
    <3>3. CASE \A r \in read : ~(d < r)
      <4>1. Box!Cardinality(before) < kQueueDepth
          BY <1>4, <2>2, OvertakesFew DEF Box!Read
      <4>2. Cardinality(before) < kQueueDepth
        <5>1. Box!Cardinality(before) = Cardinality(before)
            BY DEF Box!Cardinality, Cardinality
        <5> QED BY <4>1, <5>1
      <4>3. Overtaken' \subseteq before
          BY <1>0, <2>0, <3>1, <3>3 DEF Overtaken, Box!Unread
      <4>4. IsFiniteSet(before)
        <5>1. IsFiniteSet(1 .. arrived) /\ before \in SUBSET (1 .. arrived)
            BY <1>0, FS_Interval DEF Box!Unread
        <5> QED BY <5>1, FS_Subset
      <4> HIDE DEF before
      <4> QED BY <4>2, <4>3, <4>4, FewerOvertaken
    <3> QED BY <3>2, <3>3
  <2> QED BY <2>1, <2>2
<1>5. ASSUME NEW b \in Buf, Post(b) \/ Fail(b) PROVE FewOvertaken'
    BY <1>2, <1>5 DEF Post, Fail
<1>6. CASE Arrive \/ Wake \/ Drained \/ Advance \/ Submit \/ Stop
    BY <1>2, <1>6 DEF Arrive, Wake, Drained, Advance, Submit, Stop, kernel_vars
<1>7. CASE UNCHANGED ring_vars
    BY <1>2, <1>7 DEF ring_vars
<1> QED BY <1>3, <1>4, <1>5, <1>6, <1>7 DEF RingNext, Kernel, Loop

-----------------------------------------------------------------------------
(* The parts of the system. *)

\* The system starts as its two parts do.
LEMMA InitParts == Init => RingInit /\ TrackInit
BY DEF Init

\* Every step of the system is one of the rings, or leaves them alone.
LEMMA RingSteps == [Next]_vars => [RingNext]_ring_vars
<1>1. ASSUME NEW p \in Packet, Reach(p) PROVE RingNext
    BY <1>1 DEF Reach, RingNext
<1>2. CASE Handle
    BY <1>2 DEF Handle, RingNext, Loop
<1>3. CASE Other
    BY <1>3 DEF Other, RingNext, Loop
<1>4. CASE UNCHANGED vars
    BY <1>4 DEF vars
<1> QED BY <1>1, <1>2, <1>3, <1>4 DEF Next

\* Behind the receivers' tracking the rings are what IoUring.tla says, so all
\* that is proved above holds of them: buffers have one owner, the
\* queues are large enough, and the promise of Mailbox.tla is kept.
THEOREM SystemRings == Spec => [](OneOwner /\ RingsFit) /\ RefinesMailbox
<1>1. RingInit => Box!Init
    BY DEF RingInit, Box!Init
<1>2. RingInv /\ [RingNext]_ring_vars => [Box!Next]_(Box!vars)
    BY RefineNext
<1>3. RingInv => OneOwner /\ RingsFit
    BY InvFits DEF RingInv
<1> QED BY <1>1, <1>2, <1>3, InitParts, RingSteps, RingInvInit, RingInvNext, PTL
        DEF Spec, RefinesMailbox, Box!Spec

-----------------------------------------------------------------------------
(* What ties the two parts together. *)

EndOf(i) == wire[i].seq + wire[i].count

\* The packets stand on the wire in the order of their numbers, and without a
\* loss they carry all numbers from the first to the last.
WireSound ==
  /\ wire \in Seq(Packet) /\ Len(wire) = arrived
  /\ \A i, j \in 1 .. arrived : i < j => wire[i].seq < wire[j].seq
  /\ Unbroken /\ arrived # 0 =>
       \A m \in Nat : wire[1].seq <= m /\ m < EndOf(arrived) =>
         \E i \in 1 .. arrived : m \in Messages(wire[i])

\* high_seq is the end of the last packet read.
HighSound ==
  /\ high_seq = 0 => read = {}
  /\ high_seq # 0 => /\ \E r \in read : high_seq = EndOf(r) /\ \A d \in read : d <= r
                     /\ wire[1].seq <= first

WireInv == WireSound /\ HighSound /\ ReadsDelivered

SysInv == RingInv /\ FewOvertaken /\ TrackInv /\ WireInv

\* The packets of the wire.
LEMMA WireTyped ==
  ASSUME WireSound, arrived \in Nat, NEW i \in 1 .. arrived
  PROVE  /\ DOMAIN wire = 1 .. arrived /\ wire[i] \in Packet
         /\ wire[i].seq \in Nat /\ wire[i].count \in Nat
         /\ wire[i].seq >= 1 /\ wire[i].count >= 1
         /\ EndOf(i) \in Nat /\ EndOf(i) > wire[i].seq
<1>1. DOMAIN wire = 1 .. arrived /\ wire[i] \in Packet
    BY LenProperties, ElementOfSeq DEF WireSound
<1>2. /\ wire[i].seq \in Nat /\ wire[i].count \in Nat
      /\ wire[i].seq >= 1 /\ wire[i].count >= 1
    BY <1>1, PacketsAssumption, PacketTyped
<1> QED BY <1>1, <1>2 DEF EndOf

\* Packets do not overlap.
LEMMA WireApart ==
  ASSUME WireSound, arrived \in Nat, NEW i \in 1 .. arrived, NEW j \in 1 .. arrived, i < j
  PROVE  EndOf(i) <= wire[j].seq
<1>1. /\ wire[i] \in Packet /\ wire[j] \in Packet
      /\ wire[i].seq \in Nat /\ wire[j].seq \in Nat /\ wire[i].seq < wire[j].seq
      /\ wire[i].count \in Nat /\ wire[j].count \in Nat /\ wire[j].count >= 1
    BY WireTyped DEF WireSound
<1>2. \/ wire[i].seq + wire[i].count <= wire[j].seq
      \/ wire[j].seq + wire[j].count <= wire[i].seq
  <2>1. wire[i] # wire[j]
      BY <1>1
  <2> QED BY <1>1, <2>1, PacketsAssumption DEF WellFormed
<1> QED BY <1>1, <1>2 DEF EndOf

\* Before the first datagram the system's invariant holds.
LEMMA SysInit == Init => SysInv
<1> SUFFICES ASSUME Init PROVE SysInv
    OBVIOUS
<1>1. RingInit /\ TrackInit /\ wire = <<>>
    BY DEF Init
<1>2. arrived = 0 /\ read = {} /\ high_seq = 0
    BY <1>1 DEF RingInit, TrackInit
<1>3. RingInv /\ FewOvertaken /\ TrackInv
    BY <1>1, RingInvInit, OvertakenInit, InvInit
<1>4. WireSound
  <2>1. wire \in Seq(Packet) /\ Len(wire) = 0
      BY <1>1
  <2> QED BY <1>2, <2>1 DEF WireSound
<1>5. HighSound /\ ReadsDelivered
    BY <1>2 DEF HighSound, ReadsDelivered
<1> QED BY <1>3, <1>4, <1>5 DEF SysInv, WireInv

-----------------------------------------------------------------------------
(* The steps. *)

\* The packet of a completion.
LEMMA HandleMeaning ==
  ASSUME SysInv, Handle, Cqe.packet
  PROVE  \E d \in (1 .. taken) \ read :
           /\ d \in 1 .. arrived /\ wire[d] \in Packet /\ Receive(wire[d])
           /\ read' = read \cup {d}
<1> DEFINE d == bufs[Cqe.idx]
<1>1. Process /\ Receive(wire[d])
    BY DEF Handle
<1>2. d \in (1 .. taken) \ read /\ read' = read \cup {d}
    BY <1>1, BroughtNews DEF SysInv
<1>3. taken \in Nat /\ arrived \in Nat /\ taken <= arrived
    BY DEF SysInv, RingInv, TypeOK
<1>4. d \in 1 .. arrived
    BY <1>2, <1>3
<1>5. wire[d] \in Packet
    BY <1>3, <1>4, WireTyped DEF SysInv, WireInv
<1> HIDE DEF d
<1> QED BY <1>1, <1>2, <1>4, <1>5

\* A completion without a packet leaves the tracking alone.
LEMMA HandleElse ==
  ASSUME Handle, ~Cqe.packet
  PROVE  UNCHANGED <<track_vars, read, wire, arrived>>
BY DEF Handle, Process, kernel_vars

\* Every step of the system is one of the tracking, or leaves it alone.
LEMMA TrackSteps == SysInv /\ [Next]_vars => [TrackNext]_track_vars
<1> SUFFICES ASSUME SysInv, [Next]_vars PROVE [TrackNext]_track_vars
    OBVIOUS
<1>1. CASE Handle
  <2>1. CASE Cqe.packet
      BY <1>1, <2>1, HandleMeaning DEF TrackNext
  <2>2. CASE ~Cqe.packet
      BY <1>1, <2>2, HandleElse
  <2> QED BY <2>1, <2>2
<1>2. ASSUME NEW p \in Packet, Reach(p) PROVE UNCHANGED track_vars
    BY <1>2 DEF Reach
<1>3. CASE UNCHANGED vars
    BY <1>3 DEF vars
<1> QED BY <1>1, <1>2, <1>3 DEF Next

\* Nothing is taken back from the books, and the session's start only moves up.
LEMMA DeliveredGrows ==
  ASSUME TrackInv, NEW p \in Packet, Receive(p)
  PROVE  /\ delivered \subseteq delivered' /\ first <= first' /\ first' \in Nat
         /\ Messages(p) \subseteq delivered' \cup 1 .. first' - 1
<1>0. first \in Nat /\ p.seq \in Nat /\ (high_seq = 0 => first = 0)
    BY PacketsAssumption, PacketTyped DEF TrackInv, TrackTypeOK, Started
<1>1. CASE Duplicate(p)
  <2>1. delivered' = delivered /\ first' = first
      BY <1>1 DEF Duplicate
  <2>2. Messages(p) \subseteq delivered \cup 1 .. first - 1
      BY <1>1, PacketsAssumption, DuplicateSeen
  <2> QED BY <1>0, <2>1, <2>2
<1>2. CASE InOrder(p) \/ Gap(p) \/ Recovered(p)
  <2>1. Accept(p)
      BY <1>2 DEF InOrder, Gap, Recovered
  <2>2. delivered' = delivered \cup Messages(p) /\ first' = First(p)
      BY <2>1 DEF Accept
  <2>3. first <= First(p) /\ First(p) \in Nat
      BY <1>0 DEF First
  <2> QED BY <2>2, <2>3
<1> QED BY <1>1, <1>2 DEF Receive

\* Where high_seq and first go: to the end of the packet, or nowhere.
LEMMA HighMoves ==
  ASSUME TrackInv, NEW p \in Packet, Receive(p)
  PROVE  /\ p.seq >= High(p) => high_seq' = p.seq + p.count
         /\ p.seq < High(p) => high_seq' = high_seq /\ high_seq # 0
         /\ high_seq' # 0
         /\ first' = IF high_seq = 0 THEN p.seq ELSE first
<1>0. /\ p.seq \in Nat /\ p.count \in Nat /\ p.seq >= 1 /\ p.count >= 1
      /\ high_seq \in Nat /\ High(p) \in Nat /\ (high_seq = 0 => High(p) = p.seq)
    BY PacketsAssumption, PacketTyped DEF TrackInv, TrackTypeOK, High
<1>1. CASE InOrder(p)
    BY <1>0, <1>1 DEF InOrder, Accept, First
<1>2. CASE Gap(p)
    BY <1>0, <1>2 DEF Gap, Accept, First
<1>3. CASE Recovered(p)
    BY <1>0, <1>3 DEF Recovered, Accept, First
<1>4. CASE Duplicate(p)
    BY <1>0, <1>4 DEF Duplicate
<1> QED BY <1>1, <1>2, <1>3, <1>4 DEF Receive

\* A packet that reaches the socket is the last on the wire.
LEMMA ReachInv ==
  ASSUME SysInv, NEW p \in Packet, Reach(p), RingInv'
  PROVE  WireInv'
<1>0. /\ RingInv /\ TrackInv /\ WireSound /\ HighSound /\ ReadsDelivered
      /\ arrived \in Nat /\ arrived' = arrived + 1 /\ read' = read
      /\ read \subseteq 1 .. arrived /\ UNCHANGED track_vars
      /\ DOMAIN wire = 1 .. Len(wire) /\ Len(wire) = arrived
  <2>1. wire \in Seq(Packet) /\ Len(wire) = arrived
      BY DEF SysInv, WireInv, WireSound
  <2>2. DOMAIN wire = 1 .. Len(wire)
      BY <2>1, LenProperties
  <2> QED BY <2>1, <2>2 DEF SysInv, WireInv, RingInv, TypeOK, Reach, Arrive
<1>1. /\ wire' \in Seq(Packet) /\ Len(wire') = arrived + 1
      /\ \A i \in 1 .. arrived : wire'[i] = wire[i]
      /\ wire'[arrived + 1] = p
    BY <1>0, AppendProperties DEF Reach, WireSound
<1>2. \A i \in 1 .. arrived : wire[i].seq < p.seq
    BY <1>0 DEF Reach
<1>3. /\ p.seq \in Nat /\ p.count \in Nat /\ p.seq >= 1 /\ p.count >= 1
    BY PacketsAssumption, PacketTyped
<1>4. WireSound'
  <2>1. \A i, j \in 1 .. arrived' : i < j => wire'[i].seq < wire'[j].seq
    <3> SUFFICES ASSUME NEW i \in 1 .. arrived', NEW j \in 1 .. arrived', i < j
                 PROVE  wire'[i].seq < wire'[j].seq
        OBVIOUS
    <3>1. i \in 1 .. arrived
        BY <1>0
    <3>2. CASE j = arrived + 1
        BY <1>1, <1>2, <3>1, <3>2
    <3>3. CASE j \in 1 .. arrived
        BY <1>0, <1>1, <3>1, <3>3 DEF WireSound
    <3> QED BY <1>0, <3>2, <3>3
  <2>2. ASSUME Unbroken', NEW m \in Nat, wire'[1].seq <= m, m < EndOf(arrived)'
        PROVE  \E i \in 1 .. arrived' : m \in Messages(wire'[i])
    <3>1. EndOf(arrived)' = p.seq + p.count
        BY <1>0, <1>1 DEF EndOf
    <3>2. CASE m >= p.seq
      <4>1. m \in Messages(p)
          BY <1>3, <2>2, <3>1, <3>2 DEF Messages
      <4> QED BY <1>0, <1>1, <4>1
    <3>3. CASE m < p.seq
      <4>1. arrived # 0
          BY <1>0, <1>1, <1>3, <2>2, <3>3
      <4>2. DOMAIN wire' = 1 .. arrived + 1
          BY <1>1, LenProperties
      <4>3. Unbroken
        <5> SUFFICES ASSUME NEW i \in 1 .. arrived, i > 1
                     PROVE  wire[i].seq = wire[i - 1].seq + wire[i - 1].count
            BY <1>0 DEF Unbroken
        <5>1. i \in DOMAIN wire' /\ i - 1 \in 1 .. arrived
            BY <1>0, <4>2
        <5> QED BY <1>1, <2>2, <5>1 DEF Unbroken
      <4>4. p.seq = EndOf(arrived) /\ wire'[1] = wire[1]
        <5>1. arrived + 1 \in DOMAIN wire' /\ arrived + 1 > 1 /\ arrived + 1 - 1 = arrived
              /\ arrived \in 1 .. arrived /\ 1 \in 1 .. arrived
            BY <1>0, <4>1, <4>2
        <5> QED BY <1>1, <2>2, <5>1 DEF Unbroken, EndOf
      <4>5. PICK i \in 1 .. arrived : m \in Messages(wire[i])
          BY <1>0, <2>2, <3>3, <4>1, <4>3, <4>4 DEF WireSound
      <4> QED BY <1>0, <1>1, <4>5
    <3> QED BY <1>3, <3>2, <3>3
  <2> QED BY <1>0, <1>1, <2>1, <2>2 DEF WireSound
<1>5. \A i \in 1 .. arrived : EndOf(i)' = EndOf(i)
    BY <1>1 DEF EndOf
<1>6. HighSound'
  <2>1. \A r \in read : EndOf(r)' = EndOf(r)
      BY <1>0, <1>5
  <2>2. read # {} => wire'[1] = wire[1]
    <3> SUFFICES ASSUME NEW r \in read PROVE wire'[1] = wire[1]
        OBVIOUS
    <3>1. r \in 1 .. arrived
        BY <1>0
    <3>2. 1 \in 1 .. arrived
        BY <1>0, <3>1
    <3> QED BY <1>1, <3>2
  <2>3. high_seq' = high_seq /\ first' = first
      BY <1>0 DEF track_vars
  <2> QED BY <1>0, <2>1, <2>2, <2>3 DEF HighSound
<1>7. ReadsDelivered'
  <2>1. delivered' = delivered /\ first' = first
      BY <1>0 DEF track_vars
  <2>2. \A d \in read : wire'[d] = wire[d]
      BY <1>0, <1>1
  <2>3. \A d \in read : Messages(wire'[d]) = Messages(wire[d])
      BY <2>2
  <2> QED BY <1>0, <2>1, <2>2, <2>3 DEF ReadsDelivered, Messages
<1> QED BY <1>4, <1>6, <1>7 DEF WireInv

\* A step that reads nothing and delivers nothing.
LEMMA WireUntouched ==
  ASSUME WireInv, UNCHANGED <<wire, arrived, read, track_vars>>
  PROVE  WireInv'
<1>1. WireSound'
    BY DEF WireInv, WireSound, Unbroken, EndOf, Messages
<1>2. HighSound'
    BY DEF WireInv, HighSound, EndOf, track_vars
<1>3. ReadsDelivered'
    BY DEF WireInv, ReadsDelivered, Messages, track_vars
<1> QED BY <1>1, <1>2, <1>3 DEF WireInv

\* The shorter interval is part of the longer one.
LEMMA IntervalGrows ==
  ASSUME NEW a \in Nat, NEW b \in Nat, a <= b
  PROVE  1 .. a - 1 \subseteq 1 .. b - 1
<1> SUFFICES ASSUME NEW x \in Int, 1 <= x, x <= a - 1 PROVE x <= b - 1
    OBVIOUS
<1> QED OBVIOUS

\* A packet that is read reaches the books, or precedes the first one.
LEMMA HandleInv ==
  ASSUME SysInv, Handle, Cqe.packet
  PROVE  WireInv'
<1>0. /\ TrackInv /\ WireSound /\ HighSound /\ ReadsDelivered
      /\ arrived \in Nat /\ arrived' = arrived /\ wire' = wire
      /\ read \subseteq 1 .. arrived
    BY DEF SysInv, WireInv, RingInv, TypeOK, Handle, Process, kernel_vars
<1>1. PICK d \in (1 .. taken) \ read :
        /\ d \in 1 .. arrived /\ wire[d] \in Packet /\ Receive(wire[d])
        /\ read' = read \cup {d}
    BY HandleMeaning
<1>2. WireSound'
    BY <1>0 DEF WireSound, Unbroken, EndOf, Messages
<1>3. ReadsDelivered'
  <2>1. /\ delivered \subseteq delivered' /\ first <= first' /\ first' \in Nat
        /\ Messages(wire[d]) \subseteq delivered' \cup 1 .. first' - 1
      BY <1>0, <1>1, DeliveredGrows
  <2>2. first \in Nat
      BY <1>0 DEF TrackInv, TrackTypeOK
  <2>3. 1 .. first - 1 \subseteq 1 .. first' - 1
    <3>1. first <= first' /\ first' \in Nat
        BY <2>1
    <3> QED BY <2>2, <3>1, IntervalGrows
  <2>4. \A r \in read' : Messages(wire[r]) \subseteq delivered' \cup 1 .. first' - 1
    <3> SUFFICES ASSUME NEW r \in read'
                 PROVE  Messages(wire[r]) \subseteq delivered' \cup 1 .. first' - 1
        OBVIOUS
    <3>1. CASE r = d
        BY <2>1, <3>1
    <3>2. CASE r \in read
      <4>1. Messages(wire[r]) \subseteq delivered \cup 1 .. first - 1
          BY <1>0, <3>2 DEF ReadsDelivered
      <4> QED BY <2>1, <2>3, <4>1
    <3> QED BY <1>1, <3>1, <3>2
  <2> QED BY <1>0, <2>4 DEF ReadsDelivered, Messages
<1>4. HighSound'
  <2> DEFINE p == wire[d]
  <2>0. /\ p.seq \in Nat /\ p.count \in Nat /\ p.count >= 1 /\ p.seq >= 1
        /\ EndOf(d) = p.seq + p.count
      BY <1>0, <1>1, WireTyped DEF EndOf
  <2>1. /\ p.seq >= High(p) => high_seq' = p.seq + p.count
        /\ p.seq < High(p) => high_seq' = high_seq /\ high_seq # 0
        /\ high_seq' # 0
        /\ first' = IF high_seq = 0 THEN p.seq ELSE first
      BY <1>0, <1>1, HighMoves
  <2>2. wire[1].seq <= p.seq /\ wire[1].seq \in Nat
    <3>1. 1 \in 1 .. arrived
        BY <1>0, <1>1
    <3>2. wire[1].seq \in Nat
        BY <1>0, <3>1, WireTyped
    <3>3. CASE d = 1
        BY <3>2, <3>3
    <3>4. CASE d # 1
        BY <1>0, <1>1, <2>0, <3>1, <3>2, <3>4 DEF WireSound
    <3> QED BY <3>2, <3>3, <3>4
  <2>3. wire'[1].seq <= first'
      BY <1>0, <2>1, <2>2 DEF HighSound
  <2>4. \A r \in 1 .. arrived : EndOf(r)' = EndOf(r)
      BY <1>0 DEF EndOf
  <2>5. \E r \in read' : high_seq' = EndOf(r) /\ \A e \in read' : e <= r
    <3>1. CASE high_seq = 0
      <4>1. read = {} /\ High(p) = p.seq
          BY <1>0, <3>1 DEF HighSound, High
      <4>2. high_seq' = EndOf(d) /\ read' = {d}
          BY <1>1, <2>0, <2>1, <4>1
      <4> QED BY <1>0, <1>1, <4>2
    <3>2. CASE high_seq # 0
      <4>1. PICK r \in read : high_seq = EndOf(r) /\ \A e \in read : e <= r
          BY <1>0, <3>2 DEF HighSound
      <4>2. /\ High(p) = EndOf(r) /\ r \in 1 .. arrived /\ r # d
            /\ EndOf(r) \in Nat /\ EndOf(r) > wire[r].seq /\ wire[r].seq \in Nat
          BY <1>0, <1>1, <3>2, <4>1, WireTyped DEF High
      <4>3. CASE r < d
        <5>1. EndOf(r) <= p.seq
            BY <1>0, <1>1, <4>2, <4>3, WireApart
        <5>2. high_seq' = EndOf(d)
            BY <2>0, <2>1, <4>2, <5>1
        <5>3. \A e \in read' : e <= d
            BY <1>0, <1>1, <4>1, <4>2, <4>3
        <5> QED BY <1>1, <5>2, <5>3
      <4>4. CASE d < r
        <5>1. p.seq < EndOf(r)
            BY <1>0, <1>1, <2>0, <4>2, <4>4 DEF WireSound
        <5>2. high_seq' = EndOf(r)
            BY <2>0, <2>1, <4>1, <4>2, <5>1
        <5>3. d <= r
            BY <1>0, <1>1, <4>2, <4>4
        <5>4. \A e \in read' : e <= r
            BY <1>1, <4>1, <5>3
        <5> QED BY <1>1, <4>1, <5>2, <5>4
      <4> QED BY <1>0, <1>1, <4>2, <4>3, <4>4
    <3> QED BY <3>1, <3>2
  <2>6. read' \subseteq 1 .. arrived
      BY <1>0, <1>1
  <2> HIDE DEF p
  <2> QED BY <2>1, <2>3, <2>4, <2>5, <2>6 DEF HighSound
<1> QED BY <1>2, <1>3, <1>4 DEF WireInv

\* Every step of the system, with no gap of 2^16 messages, keeps its invariant.
LEMMA SysNext == SysInv /\ [Next]_vars /\ [NarrowGap]_track_vars => SysInv'
<1> SUFFICES ASSUME SysInv, [Next]_vars, [NarrowGap]_track_vars PROVE SysInv'
    OBVIOUS
<1>1. RingInv' /\ FewOvertaken'
    BY RingSteps, RingInvNext, OvertakenNext DEF SysInv
<1>2. TrackInv'
    BY TrackSteps, PacketsAssumption, InvNext DEF SysInv
<1>3. WireInv'
  <2>1. ASSUME NEW p \in Packet, Reach(p) PROVE WireInv'
      BY <1>1, <2>1, ReachInv
  <2>2. CASE Handle
    <3>1. CASE Cqe.packet
        BY <2>2, <3>1, HandleInv
    <3>2. CASE ~Cqe.packet
        BY <2>2, <3>2, HandleElse, WireUntouched DEF SysInv
    <3> QED BY <3>1, <3>2
  <2>3. CASE Other /\ UNCHANGED <<wire, track_vars>>
    <3>1. UNCHANGED <<arrived, read>>
        BY <2>3 DEF Other, Kernel, Take, Post, Fail, Wake, Stop, Drained, Advance, Submit,
           kernel_vars
    <3> QED BY <2>3, <3>1, WireUntouched DEF SysInv
  <2>4. CASE UNCHANGED vars
    <3>1. UNCHANGED <<wire, arrived, read, track_vars>>
        BY <2>4 DEF vars, ring_vars
    <3> QED BY <3>1, WireUntouched DEF SysInv
  <2> QED BY <2>1, <2>2, <2>3, <2>4 DEF Next
<1> QED BY <1>1, <1>2, <1>3 DEF SysInv

-----------------------------------------------------------------------------
(* The theorems. *)

\* "a packet that merely arrived late" is never "thrown away as a duplicate"
\* (README.md:232): whatever the rings reorder, everything read reaches the
\* books, unless it comes after the first packet and belongs before it.
THEOREM SystemDelivers ==
  Spec /\ [][NarrowGap]_track_vars => []ReadsDelivered
<1>1. SysInv => ReadsDelivered
    BY DEF SysInv, WireInv
<1> QED BY <1>1, SysInit, SysNext, PTL DEF Spec

\* A missing range begins with a packet that has been overtaken.
LEMMA GapOvertaken ==
  ASSUME SysInv, Unbroken, NEW g \in DOMAIN pending_gaps
  PROVE  \E e \in Overtaken : wire[e].seq = g
<1>0. /\ TrackInv /\ WireSound /\ HighSound /\ ReadsDelivered
      /\ arrived \in Nat /\ taken \in Nat /\ taken <= arrived /\ read \subseteq 1 .. taken
    BY DEF SysInv, WireInv, RingInv, TypeOK
<1>1. /\ g \in Nat /\ first \in Nat /\ high_seq \in Nat /\ high_seq # 0
      /\ first <= g /\ End(g) <= high_seq /\ End(g) \in Nat /\ g < End(g) /\ Clean(g)
    BY <1>0 DEF TrackInv, TrackTypeOK, Started, RangesSound, End
<1>2. PICK r \in read : high_seq = EndOf(r) /\ \A d \in read : d <= r
    BY <1>0, <1>1 DEF HighSound
<1>3. r \in 1 .. taken /\ r \in 1 .. arrived /\ 1 \in 1 .. arrived /\ arrived \in 1 .. arrived
    BY <1>0, <1>2
<1>4. EndOf(r) <= EndOf(arrived) /\ EndOf(arrived) \in Nat /\ EndOf(r) \in Nat
  <2>1. EndOf(arrived) \in Nat /\ EndOf(arrived) > wire[arrived].seq
        /\ wire[arrived].seq \in Nat /\ EndOf(r) \in Nat
      BY <1>0, <1>3, WireTyped
  <2>2. CASE r = arrived
      BY <2>1, <2>2
  <2>3. CASE r < arrived
      BY <1>0, <1>3, <2>1, <2>3, WireApart
  <2> QED BY <1>0, <1>3, <2>1, <2>2, <2>3
<1>5. wire[1].seq <= g /\ wire[1].seq \in Nat
  <2>1. wire[1].seq \in Nat
      BY <1>0, <1>3, WireTyped
  <2> QED BY <1>0, <1>1, <2>1 DEF HighSound
<1>6. g < EndOf(arrived) /\ arrived # 0
    BY <1>0, <1>1, <1>2, <1>3, <1>4
<1>7. PICK e \in 1 .. arrived : g \in Messages(wire[e])
    BY <1>0, <1>1, <1>5, <1>6 DEF WireSound
<1>8. /\ wire[e] \in Packet /\ wire[e].seq \in Nat /\ wire[e].count \in Nat
      /\ wire[e].seq <= g /\ g < wire[e].seq + wire[e].count
  <2>1. wire[e] \in Packet /\ wire[e].seq \in Nat /\ wire[e].count \in Nat
      BY <1>0, WireTyped
  <2> QED BY <1>1, <1>7, <2>1 DEF Messages
<1>9. wire[e].seq = g
    BY <1>1, <1>8 DEF Clean
<1>10. e \notin read
  <2>1. g \in Missing
      BY <1>0, <1>1, MissingMeaning DEF TrackInv
  <2>2. g \notin delivered
      BY <1>0, <2>1 DEF TrackInv, PendingExact
  <2>3. g \notin 1 .. first - 1
      BY <1>1
  <2> QED BY <1>0, <1>7, <2>2, <2>3 DEF ReadsDelivered
<1>11. e < r
  <2>1. e # r
      BY <1>2, <1>10
  <2>2. CASE r < e
    <3>1. EndOf(r) <= wire[e].seq
        BY <1>0, <1>3, <2>2, WireApart
    <3> QED BY <1>1, <1>2, <1>9, <3>1
  <2> QED BY <1>0, <1>3, <2>1, <2>2
<1>12. e \in Overtaken
  <2>1. e \in (1 .. taken) \ read
      BY <1>0, <1>3, <1>10, <1>11
  <2> QED BY <1>2, <1>11, <2>1 DEF Overtaken
<1> QED BY <1>9, <1>12

\* With kQueueDepth receives in flight and a network that loses nothing, fewer
\* than kQueueDepth ranges are ever missing at once (README.md:230-233).
THEOREM SystemGapsBounded ==
  Spec /\ [][NarrowGap]_track_vars => []GapsBounded
<1>1. SysInv => GapsBounded
  <2> SUFFICES ASSUME SysInv, Unbroken
               PROVE  Cardinality(DOMAIN pending_gaps) < kQueueDepth
      BY DEF GapsBounded
  <2> DEFINE f == [g \in DOMAIN pending_gaps |-> CHOOSE e \in Overtaken : wire[e].seq = g]
  <2>1. \A g \in DOMAIN pending_gaps : f[g] \in Overtaken /\ wire[f[g]].seq = g
      BY GapOvertaken
  <2>2. f \in Injection(DOMAIN pending_gaps, Overtaken)
    <3>1. f \in [DOMAIN pending_gaps -> Overtaken]
        BY <2>1
    <3>2. \A g, h \in DOMAIN pending_gaps : f[g] = f[h] => g = h
        BY <2>1
    <3> HIDE DEF f
    <3> QED BY <3>1, <3>2 DEF Injection, IsInjective
  <2>3. /\ IsFiniteSet(Overtaken) /\ Cardinality(Overtaken) \in Nat
        /\ Cardinality(Overtaken) < kQueueDepth
      BY OvertakenFinite DEF SysInv, RingInv, FewOvertaken
  <2> HIDE DEF f
  <2>4. /\ Cardinality(DOMAIN pending_gaps) <= Cardinality(Overtaken)
        /\ IsFiniteSet(DOMAIN pending_gaps)
      BY <2>2, <2>3, FS_Injection
  <2>5. Cardinality(DOMAIN pending_gaps) \in Nat
      BY <2>4, FS_CardinalityType
  <2> QED BY <2>3, <2>4, <2>5, RingAssumption
<1> QED BY <1>1, SysInit, SysNext, PTL DEF Spec
=============================================================================
