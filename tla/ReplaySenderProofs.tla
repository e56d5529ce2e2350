------------------------- MODULE ReplaySenderProofs -------------------------
(***************************************************************************)
(* The replay sender numbers, packs and sends every file rightly, whatever *)
(* the lengths of its messages and wherever it is cut off, and whichever   *)
(* packets sendto refuses.                                                 *)
(***************************************************************************)
EXTENDS ReplaySender, SumLemmas, SequenceTheorems

-----------------------------------------------------------------------------
(* Lengths in bytes. *)

Record(f) == [k \in DOMAIN f |-> 2 + f[k]]

\* The length of a sequence of records is a sum over its places.
LEMMA BytesSum ==
  ASSUME NEW f, IsFiniteSet(DOMAIN f)
  PROVE  Bytes(f) = Sum(Record(f), DOMAIN f)
<1> DEFINE D == DOMAIN f
           Own(it) == it = [s \in SUBSET D |-> IF s = {} THEN 0
                               ELSE 2 + f[AnyOf(s)] + it[s \ {AnyOf(s)}]]
<1>1. ASSUME NEW it PROVE Own(it) <=> IsSum(it, Record(f), D)
  <2>1. ASSUME NEW s \in SUBSET D
        PROVE  (IF s = {} THEN 0 ELSE 2 + f[AnyOf(s)] + it[s \ {AnyOf(s)}])
             = (IF s = {} THEN 0 ELSE Record(f)[AnyOf(s)] + it[s \ {AnyOf(s)}])
      BY AnyIn DEF Record
  <2> QED BY <2>1 DEF IsSum
<1>2. Bytes(f) = (CHOOSE it : Own(it))[D]
    BY DEF Bytes, MapThenSumSet, MapThenFoldSet, AnyOf
<1> HIDE DEF Own, D
<1>3. \E it : Own(it)
    BY <1>1, SumIterExists DEF D
<1>4. Own(CHOOSE it : Own(it))
    BY <1>3
<1>5. IsSum(CHOOSE it : Own(it), Record(f), D) /\ D \in SUBSET D
    BY <1>1, <1>4
<1>6. (CHOOSE it : Own(it))[D] = Sum(Record(f), D)
    BY <1>5, SumUnique DEF D
<1> QED BY <1>2, <1>6 DEF D

\* A length in bytes is a number.
LEMMA BytesType ==
  ASSUME NEW f \in Seq(Nat)
  PROVE  Bytes(f) \in Nat
<1>1. DOMAIN f = 1 .. Len(f) /\ Len(f) \in Nat /\ \A k \in DOMAIN f : f[k] \in Nat
    OBVIOUS
<1>2. IsFiniteSet(DOMAIN f)
    BY <1>1, FS_Interval
<1>3. \A k \in DOMAIN f : Record(f)[k] \in Nat
    BY <1>1 DEF Record
<1> QED BY <1>2, <1>3, BytesSum, SumType

\* No messages have no bytes.
LEMMA BytesEmpty == Bytes(<<>>) = 0
<1>1. DOMAIN <<>> = {}
    OBVIOUS
<1>2. IsFiniteSet(DOMAIN <<>>)
    BY <1>1, FS_EmptySet
<1>3. Bytes(<<>>) = Sum(Record(<<>>), {})
    BY <1>1, <1>2, BytesSum
<1> QED BY <1>3, SumEmpty

\* One more message, and the two bytes of its length.
LEMMA BytesAppend ==
  ASSUME NEW f \in Seq(Nat), NEW x \in Nat
  PROVE  Bytes(Append(f, x)) = Bytes(f) + 2 + x
<1> DEFINE g == Append(f, x)
           n == Len(f)
<1>1. /\ n \in Nat /\ g \in Seq(Nat) /\ DOMAIN f = 1 .. n /\ DOMAIN g = 1 .. n + 1
      /\ g[n + 1] = x /\ \A k \in 1 .. n : g[k] = f[k]
      /\ \A k \in 1 .. n : f[k] \in Nat
    OBVIOUS
<1> HIDE DEF g, n
<1>2. /\ 1 .. n + 1 = (1 .. n) \cup {n + 1} /\ n + 1 \notin 1 .. n
      /\ IsFiniteSet(1 .. n)
  <2>1. 1 .. n + 1 = (1 .. n) \cup {n + 1} /\ n + 1 \notin 1 .. n
      BY <1>1
  <2>2. IsFiniteSet(1 .. n)
      BY <1>1, FS_Interval
  <2> QED BY <2>1, <2>2
<1>3. IsFiniteSet(DOMAIN g)
    BY <1>1, <1>2, FS_AddElement
<1>4. /\ \A k \in (1 .. n) \cup {n + 1} : Record(g)[k] \in Nat
      /\ Record(g)[n + 1] = 2 + x
      /\ \A k \in 1 .. n : Record(g)[k] = Record(f)[k]
    BY <1>1, <1>2 DEF Record
<1>5. Sum(Record(g), (1 .. n) \cup {n + 1}) = Sum(Record(g), 1 .. n) + Record(g)[n + 1]
    BY <1>2, <1>4, SumAdd
<1>6. Sum(Record(g), 1 .. n) = Sum(Record(f), 1 .. n)
    BY <1>2, <1>4, SumSame
<1>7. Bytes(g) = Sum(Record(g), (1 .. n) \cup {n + 1}) /\ Bytes(f) = Sum(Record(f), 1 .. n)
    BY <1>1, <1>2, <1>3, BytesSum
<1>8. Bytes(f) \in Nat
    BY BytesType
<1> QED BY <1>4, <1>5, <1>6, <1>7, <1>8 DEF g

\* Where the records begin.
LEMMA StartSteps ==
  ASSUME file \in Seq(Nat)
  PROVE  /\ Start(1) = 0
         /\ \A k \in 1 .. Len(file) + 1 : Start(k) \in Nat
         /\ \A k \in 1 .. Len(file) : Start(k + 1) = Start(k) + 2 + file[k]
<1>1. Start(1) = 0
  <2>1. SubSeq(file, 1, 1 - 1) = <<>>
      BY SubSeqEmpty
  <2> QED BY <2>1, BytesEmpty DEF Start
<1>2. ASSUME NEW k \in 1 .. Len(file) + 1 PROVE SubSeq(file, 1, k - 1) \in Seq(Nat)
    BY SubSeqProperties
<1>3. ASSUME NEW k \in 1 .. Len(file) + 1 PROVE Start(k) \in Nat
    BY <1>2, BytesType DEF Start
<1>4. ASSUME NEW k \in 1 .. Len(file) PROVE Start(k + 1) = Start(k) + 2 + file[k]
  <2> DEFINE a == SubSeq(file, 1, k)
             b == SubSeq(file, 1, k - 1)
  <2>1. b \in Seq(Nat) /\ file[k] \in Nat
      BY <1>2
  <2>2. a = Append(b, file[k])
      OBVIOUS
  <2>3. Start(k + 1) = Bytes(a) /\ Start(k) = Bytes(b)
      BY DEF Start
  <2> HIDE DEF a, b
  <2> QED BY <2>1, <2>2, <2>3, BytesAppend
<1> QED BY <1>1, <1>3, <1>4

\* Later records begin later.
LEMMA StartGrows ==
  ASSUME file \in Seq(Nat), NEW j \in 1 .. Len(file) + 1, NEW k \in 1 .. Len(file) + 1, j < k
  PROVE  Start(j) < Start(k)
<1> DEFINE N == {n \in Nat : j + 1 + n <= Len(file) + 1 => Start(j) < Start(j + 1 + n)}
<1>0. Len(file) \in Nat /\ j \in Nat /\ k \in Nat /\ j >= 1 /\ \A i \in 1 .. Len(file) : file[i] \in Nat
    OBVIOUS
<1>1. ASSUME NEW i \in 1 .. Len(file) PROVE Start(i) \in Nat /\ Start(i) < Start(i + 1)
  <2>1. i \in 1 .. Len(file) + 1 /\ file[i] \in Nat
      BY <1>0
  <2>2. Start(i) \in Nat /\ Start(i + 1) = Start(i) + 2 + file[i]
      BY <2>1, StartSteps
  <2> QED BY <2>1, <2>2
<1>2. 0 \in N
    BY <1>0, <1>1
<1>3. ASSUME NEW n \in Nat, n \in N PROVE n + 1 \in N
  <2>1. SUFFICES ASSUME j + 1 + (n + 1) <= Len(file) + 1
                 PROVE  Start(j) < Start(j + 1 + (n + 1))
      OBVIOUS
  <2>2. j + 1 + n \in 1 .. Len(file) /\ j + 1 + (n + 1) = (j + 1 + n) + 1
      BY <1>0, <2>1
  <2>3. Start(j + 1 + n) < Start((j + 1 + n) + 1) /\ Start((j + 1 + n) + 1) \in Nat
      BY <1>1, <2>2, StartSteps, SMTT(40)
  <2>4. Start(j) < Start(j + 1 + n) /\ Start(j) \in Nat /\ Start(j + 1 + n) \in Nat
      BY <1>0, <1>1, <1>3, <2>1, <2>2
  <2> QED BY <2>2, <2>3, <2>4
<1>4. Nat \subseteq N
  <2> HIDE DEF N
  <2> QED BY <1>2, <1>3, NatSetInduction
<1>5. k - j - 1 \in N /\ j + 1 + (k - j - 1) = k
  <2>1. k - j - 1 \in Nat /\ j + 1 + (k - j - 1) = k
      BY <1>0
  <2> HIDE DEF N
  <2> QED BY <1>4, <2>1
<1> QED BY <1>0, <1>5

-----------------------------------------------------------------------------
(* The invariant. *)

\* The first message that has not been handed to sendto.
Flushed == next_seq - Len(packet)

\* The lengths of messages, given by their places in the file.
Lengths(ms) == [i \in DOMAIN ms |-> file[ms[i]]]

\* The reader stands at the record next_seq counts.
ReadInv ==
  /\ file \in Files /\ size \in Nat
  /\ next_seq \in 1 .. Len(file) + 1
  /\ offset = Start(next_seq) /\ offset <= size

\* A run of messages from number n on.
RunFrom(ms, n) == /\ ms \in Seq(DOMAIN file)
                  /\ \A i \in DOMAIN ms : ms[i] = n + i - 1

\* The packet being filled holds the messages up to next_seq.
PacketInv ==
  /\ Flushed \in Nat \ {0} /\ RunFrom(packet, Flushed)
  /\ packet_first_seq \in Nat \ {0}
  /\ packet # <<>> => packet_first_seq = Flushed /\ packet_used <= kMaxPacketSize
  /\ packet_used = kHeaderSize + Bytes(Lengths(packet))

\* A datagram d names its messages, and was full when it was sent while
\* messages up to number nx had been read.
Sound(d, nx) ==
  /\ d \in [seq : Nat \ {0}, count : Nat \ {0}, msgs : Seq(DOMAIN file), bytes : Nat]
  /\ RunFrom(d.msgs, d.seq) /\ d.count = Len(d.msgs)
  /\ d.bytes = kHeaderSize + Bytes(Lengths(d.msgs)) /\ d.bytes <= kMaxPacketSize
  /\ d.seq + d.count < nx => d.bytes + 2 + file[d.seq + d.count] > kMaxPacketSize

\* The datagrams on the wire and the messages dropped share the messages
\* before number fl between them, in order.
SentInv(w, dr, fl, nx) ==
  /\ w \in Seq([seq : Nat \ {0}, count : Nat \ {0}, msgs : Seq(DOMAIN file), bytes : Nat])
  /\ \A b \in DOMAIN w : Sound(w[b], nx) /\ w[b].seq + w[b].count <= fl
  /\ \A a, b \in DOMAIN w : a < b => w[a].seq + w[a].count <= w[b].seq
  /\ \A b \in DOMAIN w : \A n \in dr : n < w[b].seq \/ w[b].seq + w[b].count <= n
  /\ dr \subseteq DOMAIN file /\ \A n \in dr : n < fl
  /\ \A n \in 1 .. fl - 1 : n \in dr \/ \E b \in DOMAIN w : n \in Range(w[b].msgs)

SenderInv ==
  /\ ReadInv /\ PacketInv
  /\ SentInv(wire, dropped, Flushed, next_seq)
  /\ total_sent = Flushed - 1
  /\ done \in BOOLEAN
  /\ done => packet = <<>> /\ NextRecord = {}
  /\ packet = <<>> => done \/ next_seq = 1

\* A run's messages are its numbers.
LEMMA RunRange ==
  ASSUME file \in Seq(Nat), NEW ms, NEW n \in Nat, RunFrom(ms, n)
  PROVE  /\ Len(ms) \in Nat /\ DOMAIN ms = 1 .. Len(ms)
         /\ \A x : x \in Range(ms) <=> x \in Nat /\ n <= x /\ x < n + Len(ms)
<1>1. Len(ms) \in Nat /\ DOMAIN ms = 1 .. Len(ms) /\ \A i \in DOMAIN ms : ms[i] = n + i - 1
    BY DEF RunFrom
<1>2. ASSUME NEW x \in Range(ms) PROVE x \in Nat /\ n <= x /\ x < n + Len(ms)
    BY <1>1 DEF Range
<1>3. ASSUME NEW x \in Nat, n <= x, x < n + Len(ms) PROVE x \in Range(ms)
  <2>1. x - n + 1 \in 1 .. Len(ms)
      BY <1>1, <1>3
  <2>2. ms[x - n + 1] = n + (x - n + 1) - 1
      BY <1>1, <2>1
  <2>3. ms[x - n + 1] = x
      BY <2>2
  <2> QED BY <1>1, <2>1, <2>3 DEF Range
<1> QED BY <1>1, <1>2, <1>3

\* The next record is the one next_seq counts, and it fits into the file.
LEMMA NextRecordMeaning ==
  ASSUME ReadInv
  PROVE  NextRecord = {k \in {next_seq} : k \in DOMAIN file /\ Start(k + 1) <= size}
<1>1. /\ file \in Seq(Nat) /\ next_seq \in 1 .. Len(file) + 1 /\ offset = Start(next_seq)
      /\ DOMAIN file = 1 .. Len(file) /\ Len(file) \in Nat
    BY SizesAssumption DEF ReadInv
<1>2. ASSUME NEW k \in DOMAIN file
      PROVE  Start(k) = offset <=> k = next_seq
  <2>1. k \in 1 .. Len(file) + 1 /\ k \in Nat /\ next_seq \in Nat
      BY <1>1
  <2>2. Start(k) \in Nat /\ Start(next_seq) \in Nat
      BY <1>1, <2>1, StartSteps
  <2>3. k < next_seq => Start(k) < Start(next_seq)
      BY <1>1, <2>1, StartGrows
  <2>4. next_seq < k => Start(next_seq) < Start(k)
      BY <1>1, <2>1, StartGrows
  <2> QED BY <1>1, <2>1, <2>2, <2>3, <2>4
<1>3. ASSUME NEW k \in DOMAIN file PROVE Start(k + 1) = Start(k) + 2 + file[k]
    BY <1>1, StartSteps
<1> QED BY <1>2, <1>3 DEF NextRecord, Readable

\* Reading a record moves the reader to the next one.
LEMMA ReadOn ==
  ASSUME ReadInv, NEW k \in NextRecord, UNCHANGED <<file, size>>,
         next_seq' = next_seq + 1, offset' = offset + 2 + file[k]
  PROVE  /\ k = next_seq /\ k \in DOMAIN file /\ ReadInv'
<1>1. k = next_seq /\ k \in DOMAIN file /\ Start(k + 1) <= size
    BY NextRecordMeaning
<1>2. file \in Seq(Nat) /\ file' = file /\ size' = size /\ DOMAIN file = 1 .. Len(file)
    BY SizesAssumption DEF ReadInv
<1>3. Start(k + 1) = Start(k) + 2 + file[k]
    BY <1>1, <1>2, StartSteps
<1>4. Start(next_seq)' = Start(k + 1)
    BY <1>1, <1>2 DEF Start
<1>5. next_seq' \in 1 .. Len(file) + 1
    BY <1>1, <1>2
<1> QED BY <1>1, <1>2, <1>3, <1>4, <1>5 DEF ReadInv

\* One more message in the packet.
LEMMA FillPacket ==
  ASSUME file \in Seq(Nat), NEW k \in DOMAIN file, NEW held, NEW n \in Nat, RunFrom(held, n),
         n + Len(held) = k
  PROVE  /\ RunFrom(Append(held, k), n) /\ Len(Append(held, k)) = Len(held) + 1
         /\ Append(held, k) # <<>>
         /\ Bytes(Lengths(Append(held, k))) = Bytes(Lengths(held)) + 2 + file[k]
<1>1. /\ held \in Seq(DOMAIN file) /\ Len(held) \in Nat /\ DOMAIN held = 1 .. Len(held)
      /\ \A i \in DOMAIN held : held[i] = n + i - 1
    BY DEF RunFrom
<1> DEFINE new == Append(held, k)
<1>2. /\ new \in Seq(DOMAIN file) /\ Len(new) = Len(held) + 1 /\ new # <<>>
      /\ DOMAIN new = 1 .. Len(held) + 1
      /\ new[Len(held) + 1] = k /\ \A i \in DOMAIN held : new[i] = held[i]
  <2>1. held \in Seq(DOMAIN file) /\ k \in DOMAIN file
      BY <1>1
  <2>2. /\ new \in Seq(DOMAIN file) /\ Len(new) = Len(held) + 1 /\ new # <<>>
        /\ new[Len(held) + 1] = k /\ \A i \in 1 .. Len(held) : new[i] = held[i]
    <3>1. new \in Seq(DOMAIN file) /\ Len(new) = Len(held) + 1 /\ new # <<>>
        BY <2>1, AppendProperties
    <3>2. new[Len(held) + 1] = k
        BY <2>1, AppendProperties
    <3>3. \A i \in 1 .. Len(held) : new[i] = held[i]
        BY <2>1, AppendProperties
    <3> QED BY <3>1, <3>2, <3>3
  <2> HIDE DEF new
  <2>3. DOMAIN new = 1 .. Len(new)
      BY <2>2
  <2> QED BY <1>1, <2>2, <2>3
<1> HIDE DEF new
<1>3. RunFrom(new, n)
  <2>1. ASSUME NEW i \in DOMAIN new PROVE new[i] = n + i - 1
    <3>1. CASE i \in DOMAIN held
        BY <1>1, <1>2, <3>1
    <3>2. CASE i = Len(held) + 1
        BY <1>1, <1>2, <3>2
    <3> QED BY <1>1, <1>2, <3>1, <3>2
  <2> QED BY <1>2, <2>1 DEF RunFrom
<1>4. Lengths(held) \in Seq(Nat) /\ Len(Lengths(held)) = Len(held)
  <2>1. \A i \in 1 .. Len(held) : file[held[i]] \in Nat
      BY <1>1
  <2> QED BY <1>1, <2>1 DEF Lengths
<1>5. Lengths(new) = Append(Lengths(held), file[k])
  <2> DEFINE a == Lengths(new)
             b == Append(Lengths(held), file[k])
  <2>1. file[k] \in Nat /\ \A i \in 1 .. Len(held) + 1 : file[new[i]] \in Nat
      BY <1>2
  <2>2. a \in Seq(Nat) /\ Len(a) = Len(held) + 1
      /\ \A i \in 1 .. Len(held) + 1 : a[i] = file[new[i]]
      BY <1>1, <1>2, <2>1 DEF Lengths
  <2>3. b \in Seq(Nat) /\ Len(b) = Len(held) + 1 /\ b[Len(held) + 1] = file[k]
      /\ \A i \in 1 .. Len(held) : b[i] = file[held[i]]
      BY <1>1, <1>4, <2>1 DEF Lengths
  <2> HIDE DEF a, b
  <2>4. ASSUME NEW i \in 1 .. Len(a) PROVE a[i] = b[i]
    <3>1. CASE i \in 1 .. Len(held)
      <4>1. i \in DOMAIN held /\ i \in 1 .. Len(held) + 1
          BY <1>1, <3>1
      <4>2. new[i] = held[i]
          BY <1>2, <4>1
      <4>3. a[i] = file[new[i]] /\ b[i] = file[held[i]]
          BY <2>2, <2>3, <3>1, <4>1
      <4> QED BY <4>2, <4>3
    <3>2. CASE i = Len(held) + 1
        BY <1>1, <1>2, <2>2, <2>3, <3>2
    <3> QED BY <1>1, <2>2, <3>1, <3>2
  <2>5. a = b
      BY <2>2, <2>3, <2>4, SeqEqual
  <2> QED BY <2>5 DEF a, b
<1>6. Bytes(Lengths(new)) = Bytes(Lengths(held)) + 2 + file[k]
    BY <1>4, <1>5, BytesAppend
<1> QED BY <1>2, <1>3, <1>6 DEF new

\* Handing a packet to sendto, sent or refused, keeps wire and losses in order.
LEMMA Handed ==
  ASSUME file \in Seq(Nat), PacketInv, packet # <<>>, Sendto, next_seq \in Nat,
         SentInv(wire, dropped, Flushed, next_seq),
         NEW nx \in Nat, next_seq <= nx,
         next_seq < nx => packet_used + 2 + file[next_seq] > kMaxPacketSize
  PROVE  SentInv(wire', dropped', next_seq, nx)
<1> DEFINE fl == Flushed
           Dg == [seq : Nat \ {0}, count : Nat \ {0}, msgs : Seq(DOMAIN file), bytes : Nat]
<1>1. /\ fl \in Nat \ {0} /\ RunFrom(packet, fl) /\ packet_first_seq = fl
      /\ fl + Len(packet) = next_seq /\ Len(packet) \in Nat \ {0}
      /\ packet \in Seq(DOMAIN file) /\ fl < next_seq
    BY DEF PacketInv, Flushed, RunFrom
<1> HIDE DEF fl, Dg
<1>2. packet_used = kHeaderSize + Bytes(Lengths(packet)) /\ packet_used <= kMaxPacketSize
    BY DEF PacketInv
<1>a. Lengths(packet) \in Seq(Nat)
  <2>1. \A i \in 1 .. Len(packet) : file[packet[i]] \in Nat
      BY <1>1, SMTT(40)
  <2> QED BY <1>1, <2>1, SMTT(40) DEF Lengths
<1>b. packet_used \in Nat
    BY <1>2, <1>a, BytesType, SizesAssumption
<1>3. \A x : x \in Range(packet) <=> x \in Nat /\ fl <= x /\ x < next_seq
    BY <1>1, RunRange
<1>4. Range(packet) \subseteq DOMAIN file
    BY <1>1 DEF Range
<1>5. /\ wire \in Seq(Dg) /\ Len(wire) \in Nat /\ DOMAIN wire = 1 .. Len(wire)
      /\ \A b \in DOMAIN wire : /\ Sound(wire[b], next_seq)
                                /\ wire[b].seq + wire[b].count <= fl
                                /\ wire[b].seq \in Nat /\ wire[b].count \in Nat \ {0}
    BY DEF SentInv, Sound, fl, Dg
<1>6. \A b \in DOMAIN wire : Sound(wire[b], nx)
  <2>1. ASSUME NEW b \in DOMAIN wire PROVE Sound(wire[b], nx)
    <3>1. wire[b].seq + wire[b].count < next_seq
        BY <1>1, <1>5, SMTT(40)
    <3> QED BY <1>5, <3>1 DEF Sound
  <2> QED BY <2>1
<1>c. /\ \A a, b \in DOMAIN wire : a < b => wire[a].seq + wire[a].count <= wire[b].seq
      /\ \A b \in DOMAIN wire : \A n \in dropped :
           n < wire[b].seq \/ wire[b].seq + wire[b].count <= n
      /\ dropped \subseteq DOMAIN file /\ \A n \in dropped : n < fl /\ n \in Nat
      /\ \A n \in 1 .. fl - 1 : n \in dropped \/ \E b \in DOMAIN wire : n \in Range(wire[b].msgs)
    BY DEF SentInv, fl
<1>7. CASE wire' = Append(wire, Datagram) /\ UNCHANGED dropped
  <2> DEFINE last == Len(wire) + 1
  <2>1. Datagram \in Dg /\ Sound(Datagram, nx)
    <3>1. Datagram \in Dg
        BY <1>1, <1>b DEF Datagram, Dg
    <3> QED BY <1>1, <1>2, <3>1 DEF Sound, Datagram, Dg
  <2>2. Datagram.seq = fl /\ Datagram.count = Len(packet) /\ Datagram.msgs = packet
      BY <1>1 DEF Datagram
  <2>3. /\ wire' \in Seq(Dg) /\ DOMAIN wire' = 1 .. last /\ wire'[last] = Datagram
        /\ \A b \in DOMAIN wire : wire'[b] = wire[b]
    <3> QED BY <1>5, <1>7, <2>1
  <2> HIDE DEF last
  <2>4. \A b \in DOMAIN wire' : b \in DOMAIN wire \/ b = last
      BY <1>5, <2>3 DEF last
  <2>a. DOMAIN wire \subseteq DOMAIN wire' /\ last \in DOMAIN wire'
      BY <1>5, <2>3 DEF last
  <2>5. \A b \in DOMAIN wire' : Sound(wire'[b], nx) /\ wire'[b].seq + wire'[b].count <= next_seq
    <3>1. ASSUME NEW b \in DOMAIN wire
          PROVE  Sound(wire'[b], nx) /\ wire'[b].seq + wire'[b].count <= next_seq
      <4>1. wire'[b] = wire[b] /\ Sound(wire[b], nx)
          BY <1>6, <2>3
      <4>2. wire[b].seq + wire[b].count <= next_seq
          BY <1>1, <1>5, SMTT(40)
      <4> QED BY <4>1, <4>2
    <3>2. Sound(wire'[last], nx) /\ wire'[last].seq + wire'[last].count <= next_seq
        BY <1>1, <2>1, <2>2, <2>3
    <3> QED BY <2>4, <3>1, <3>2
  <2>6. \A a, b \in DOMAIN wire' : a < b => wire'[a].seq + wire'[a].count <= wire'[b].seq
    <3>1. ASSUME NEW a \in DOMAIN wire', NEW b \in DOMAIN wire', a < b
          PROVE  wire'[a].seq + wire'[a].count <= wire'[b].seq
      <4>1. a \in DOMAIN wire
          BY <1>5, <2>3, <3>1 DEF last
      <4>2. CASE b \in DOMAIN wire
          BY <1>c, <2>3, <3>1, <4>1, <4>2
      <4>3. CASE b = last
          BY <1>5, <2>2, <2>3, <4>1, <4>3
      <4> QED BY <2>4, <4>2, <4>3
    <3> QED BY <3>1
  <2>7. \A b \in DOMAIN wire' : \A n \in dropped :
          n < wire'[b].seq \/ wire'[b].seq + wire'[b].count <= n
    <3>1. \A n \in dropped : n < wire'[last].seq
        BY <1>c, <2>2, <2>3
    <3> QED BY <1>c, <2>3, <2>4, <3>1
  <2>8. \A n \in 1 .. next_seq - 1 :
          n \in dropped \/ \E b \in DOMAIN wire' : n \in Range(wire'[b].msgs)
    <3>1. ASSUME NEW n \in 1 .. next_seq - 1
          PROVE  n \in dropped \/ \E b \in DOMAIN wire' : n \in Range(wire'[b].msgs)
      <4>1. CASE n < fl
        <5>1. n \in 1 .. fl - 1
            BY <1>1, <4>1
        <5> QED BY <1>c, <2>3, <2>a, <5>1
      <4>2. CASE fl <= n
        <5>1. n \in Range(packet)
          <6>1. n \in Nat /\ n < next_seq
              OBVIOUS
          <6> QED BY <1>3, <4>2, <6>1
        <5>2. n \in Range(wire'[last].msgs)
            BY <2>2, <2>3, <5>1
        <5> QED BY <2>a, <5>2
      <4> QED BY <1>1, <4>1, <4>2
    <3> QED BY <3>1
  <2>9. \A n \in dropped : n < next_seq
      BY <1>1, <1>c
  <2> QED BY <1>7, <1>c, <2>3, <2>5, <2>6, <2>7, <2>8, <2>9 DEF SentInv, Dg
<1>8. CASE dropped' = dropped \cup Range(packet) /\ UNCHANGED wire
  <2>1. \A b \in DOMAIN wire : \A n \in dropped' :
          n < wire[b].seq \/ wire[b].seq + wire[b].count <= n
      BY <1>1, <1>3, <1>5, <1>8, <1>c, SMTT(40)
  <2>2. dropped' \subseteq DOMAIN file /\ \A n \in dropped' : n < next_seq
      BY <1>1, <1>3, <1>4, <1>8, <1>c
  <2>3. \A n \in 1 .. next_seq - 1 :
          n \in dropped' \/ \E b \in DOMAIN wire : n \in Range(wire[b].msgs)
    <3>1. ASSUME NEW n \in 1 .. next_seq - 1
          PROVE  n \in dropped' \/ \E b \in DOMAIN wire : n \in Range(wire[b].msgs)
      <4>1. CASE n < fl
        <5>1. n \in 1 .. fl - 1
            BY <1>1, <4>1
        <5> QED BY <1>8, <1>c, <5>1
      <4>2. CASE fl <= n
        <5>1. n \in Nat /\ n < next_seq
            OBVIOUS
        <5> QED BY <1>3, <1>8, <4>2, <5>1
      <4> QED BY <1>1, <4>1, <4>2
    <3> QED BY <3>1
  <2>4. \A b \in DOMAIN wire : wire[b].seq + wire[b].count <= next_seq
      BY <1>1, <1>5, SMTT(40)
  <2> QED BY <1>5, <1>6, <1>8, <1>c, <2>1, <2>2, <2>3, <2>4 DEF SentInv, Dg
<1> QED BY <1>7, <1>8 DEF Sendto

\* A packet without messages is as long as its header.
LEMMA EmptyPacket ==
  ASSUME NEW n \in Nat
  PROVE  Bytes(Lengths(<<>>)) = 0 /\ RunFrom(<<>>, n)
<1>1. Lengths(<<>>) = <<>>
    BY DEF Lengths
<1>2. RunFrom(<<>>, n)
    BY DEF RunFrom
<1> QED BY <1>1, <1>2, BytesEmpty

\* The sender starts with an empty packet and message 1.
LEMMA SenderInit == Init => SenderInv
<1> SUFFICES ASSUME Init PROVE SenderInv
    OBVIOUS
<1>1. /\ file \in Files /\ file \in Seq(Nat) /\ size \in 0 .. Bytes(file) /\ offset = 0
      /\ packet = <<>> /\ packet_used = kHeaderSize /\ packet_first_seq = 1 /\ next_seq = 1
      /\ total_sent = 0 /\ wire = <<>> /\ dropped = {} /\ done = FALSE
      /\ kHeaderSize \in Nat
    BY SizesAssumption DEF Init
<1>2. Flushed = 1
    BY <1>1 DEF Flushed
<1>3. ReadInv
  <2>1. size \in Nat
      BY <1>1, BytesType
  <2>2. Start(1) = 0 /\ 1 \in 1 .. Len(file) + 1
      BY <1>1, StartSteps
  <2> QED BY <1>1, <2>1, <2>2 DEF ReadInv
<1>4. PacketInv
    BY <1>1, <1>2, EmptyPacket DEF PacketInv
<1>5. SentInv(wire, dropped, Flushed, next_seq)
    BY <1>1, <1>2 DEF SentInv
<1>6. done \in BOOLEAN /\ ~done
    BY <1>1, Zenon
<1> QED BY <1>1, <1>2, <1>3, <1>4, <1>5, <1>6 DEF SenderInv

\* The typing that the steps use.
LEMMA SenderTyped ==
  ASSUME SenderInv
  PROVE  /\ file \in Seq(Nat) /\ next_seq \in Nat \ {0} /\ Len(packet) \in Nat
         /\ Flushed \in Nat \ {0} /\ Flushed + Len(packet) = next_seq
         /\ kHeaderSize \in Nat /\ kMaxPacketSize \in Nat
         /\ RunFrom(packet, Flushed)
         /\ packet = <<>> <=> Len(packet) = 0
<1>1. file \in Seq(Nat) /\ next_seq \in Nat \ {0} /\ kHeaderSize \in Nat /\ kMaxPacketSize \in Nat
    BY SizesAssumption DEF SenderInv, ReadInv
<1>2. packet \in Seq(DOMAIN file) /\ RunFrom(packet, Flushed) /\ Flushed \in Nat \ {0}
    BY DEF SenderInv, PacketInv, RunFrom
<1>3. Len(packet) \in Nat /\ (packet = <<>> <=> Len(packet) = 0)
    BY <1>2, EmptySeq, LenProperties
<1> QED BY <1>1, <1>2, <1>3 DEF Flushed

\* What was sent stays in order when another message is read.
LEMMA SentStays ==
  ASSUME SenderInv, packet # <<>> \/ next_seq = 1, file' = file
  PROVE  SentInv(wire, dropped, Flushed, next_seq + 1)
<1>1. /\ next_seq \in Nat \ {0} /\ Flushed \in Nat \ {0} /\ Flushed <= next_seq
      /\ packet # <<>> => Flushed < next_seq
    BY SenderTyped
<1>2. SentInv(wire, dropped, Flushed, next_seq)
    BY DEF SenderInv
<1>3. ASSUME NEW b \in DOMAIN wire PROVE Sound(wire[b], next_seq + 1)
  <2>1. /\ Sound(wire[b], next_seq) /\ wire[b].seq + wire[b].count <= Flushed
        /\ wire[b].seq \in Nat \ {0} /\ wire[b].count \in Nat \ {0}
      BY <1>2 DEF SentInv, Sound
  <2>2. wire[b].seq + wire[b].count < next_seq
      BY <1>1, <2>1
  <2> QED BY <2>1, <2>2 DEF Sound
<1> QED BY <1>2, <1>3 DEF SentInv

\* A message that fits is added to the packet being filled.
LEMMA PackInv ==
  ASSUME SenderInv, NEW k \in NextRecord, Pack(k)
  PROVE  SenderInv'
<1>1. /\ packet_first_seq' = (IF packet = <<>> THEN next_seq ELSE packet_first_seq)
      /\ packet' = Append(packet, k) /\ packet_used' = packet_used + 2 + file[k]
      /\ next_seq' = next_seq + 1 /\ offset' = offset + 2 + file[k]
      /\ UNCHANGED <<file, size, total_sent, wire, dropped, done>>
      /\ packet_used + 2 + file[k] <= kMaxPacketSize
    BY DEF Pack, Fill, Room
<1>2. k = next_seq /\ k \in DOMAIN file /\ ReadInv'
    BY <1>1, ReadOn DEF SenderInv
<1>3. /\ file \in Seq(Nat) /\ next_seq \in Nat \ {0} /\ Len(packet) \in Nat
      /\ Flushed \in Nat \ {0} /\ Flushed + Len(packet) = next_seq
      /\ RunFrom(packet, Flushed) /\ (packet = <<>> <=> Len(packet) = 0)
    BY SenderTyped
<1>4. ~done
    BY DEF SenderInv
<1>5. /\ RunFrom(packet', Flushed) /\ Len(packet') = Len(packet) + 1 /\ packet' # <<>>
      /\ Bytes(Lengths(packet')) = Bytes(Lengths(packet)) + 2 + file[k]
    BY <1>1, <1>2, <1>3, FillPacket
<1>6. Flushed' = Flushed
    BY <1>1, <1>3, <1>5 DEF Flushed
<1>7. (RunFrom(packet, Flushed))' /\ Bytes(Lengths(packet))' = Bytes(Lengths(packet'))
    BY <1>1, <1>5, <1>6 DEF RunFrom, Lengths
<1>8. packet_first_seq' = Flushed'
  <2>1. CASE packet = <<>>
      BY <1>1, <1>3, <1>6, <2>1
  <2>2. CASE packet # <<>>
      BY <1>1, <1>6, <2>2 DEF SenderInv, PacketInv
  <2> QED BY <2>1, <2>2
<1>9. packet_used' = kHeaderSize + Bytes(Lengths(packet))'
  <2>1. packet_used = kHeaderSize + Bytes(Lengths(packet)) /\ file[k] \in Nat
      BY <1>2, <1>3 DEF SenderInv, PacketInv
  <2>2. Bytes(Lengths(packet)) \in Nat /\ kHeaderSize \in Nat
    <3>1. Lengths(packet) \in Seq(Nat)
        BY <1>3 DEF Lengths, RunFrom
    <3> QED BY <3>1, BytesType, SizesAssumption
  <2> DEFINE old == Bytes(Lengths(packet))
  <2>3. packet_used' = kHeaderSize + old + 2 + file[k] /\ Bytes(Lengths(packet))' = old + 2 + file[k]
      BY <1>1, <1>5, <1>7, <2>1
  <2> HIDE DEF old
  <2>4. old \in Nat /\ kHeaderSize \in Nat /\ file[k] \in Nat
      BY <2>1, <2>2 DEF old
  <2> QED BY <2>3, <2>4
<1>10. PacketInv'
    BY <1>1, <1>3, <1>6, <1>7, <1>8, <1>9 DEF PacketInv
<1>11. (SentInv(wire, dropped, Flushed, next_seq))'
  <2>1. SentInv(wire, dropped, Flushed, next_seq + 1)
      BY <1>1, <1>4, SentStays DEF SenderInv
  <2> QED BY <1>1, <1>6, <2>1 DEF SentInv, Sound, RunFrom, Lengths
<1>12. (total_sent = Flushed - 1 /\ done \in BOOLEAN)'
    BY <1>1, <1>6 DEF SenderInv
<1> QED BY <1>1, <1>2, <1>4, <1>5, <1>10, <1>11, <1>12 DEF SenderInv

\* A message that does not fit sends the packet and begins the next one.
LEMMA FlushAndPackInv ==
  ASSUME SenderInv, NEW k \in NextRecord, FlushAndPack(k)
  PROVE  SenderInv'
<1>1. /\ packet_first_seq' = next_seq
      /\ packet' = Append(<<>>, k) /\ packet_used' = kHeaderSize + 2 + file[k]
      /\ next_seq' = next_seq + 1 /\ offset' = offset + 2 + file[k]
      /\ UNCHANGED <<file, size, done>> /\ total_sent' = total_sent + Len(packet)
      /\ ~(packet_used + 2 + file[k] <= kMaxPacketSize)
      /\ packet # <<>> => Sendto
    BY DEF FlushAndPack, Fill, Room
<1>2. k = next_seq /\ k \in DOMAIN file /\ ReadInv'
    BY <1>1, ReadOn DEF SenderInv
<1>3. /\ file \in Seq(Nat) /\ next_seq \in Nat \ {0} /\ Len(packet) \in Nat
      /\ Flushed \in Nat \ {0} /\ Flushed + Len(packet) = next_seq
      /\ RunFrom(packet, Flushed) /\ (packet = <<>> <=> Len(packet) = 0)
      /\ kHeaderSize \in Nat /\ kMaxPacketSize \in Nat
    BY SenderTyped
<1>4. ~done
    BY DEF SenderInv
<1>5. kHeaderSize + 2 + file[k] <= kMaxPacketSize /\ file[k] \in Nat
    BY <1>2, <1>3, MessagesFit, SMTT(40) DEF SenderInv, ReadInv
<1>6. packet_used = kHeaderSize + Bytes(Lengths(packet)) /\ packet_used \in Nat
  <2>1. Lengths(packet) \in Seq(Nat)
      BY <1>3 DEF Lengths, RunFrom
  <2> QED BY <1>3, <2>1, BytesType DEF SenderInv, PacketInv
<1>7. packet # <<>>
    BY <1>1, <1>3, <1>5, <1>6, EmptyPacket, SMTT(40)
<1>8. /\ RunFrom(packet', next_seq) /\ Len(packet') = 1 /\ packet' # <<>>
      /\ Bytes(Lengths(packet')) = 2 + file[k]
  <2>1. Len(<<>>) = 0 /\ Bytes(Lengths(<<>>)) = 0 /\ RunFrom(<<>>, next_seq)
      BY <1>3, EmptyPacket
  <2>2. /\ RunFrom(packet', next_seq) /\ Len(packet') = 0 + 1 /\ packet' # <<>>
        /\ Bytes(Lengths(packet')) = 0 + 2 + file[k]
    <3> DEFINE none == <<>>
    <3>1. /\ Len(none) = 0 /\ Bytes(Lengths(none)) = 0 /\ RunFrom(none, next_seq)
          /\ packet' = Append(none, k)
        BY <1>1, <2>1
    <3> HIDE DEF none
    <3>2. next_seq + Len(none) = k /\ next_seq \in Nat
        BY <1>2, <1>3, <3>1
    <3>3. /\ RunFrom(Append(none, k), next_seq) /\ Len(Append(none, k)) = Len(none) + 1
          /\ Append(none, k) # <<>>
          /\ Bytes(Lengths(Append(none, k))) = Bytes(Lengths(none)) + 2 + file[k]
        BY <1>2, <1>3, <3>1, <3>2, FillPacket
    <3> QED BY <3>1, <3>3
  <2> QED BY <1>5, <2>2
<1>9. Flushed' = next_seq
    BY <1>1, <1>3, <1>8 DEF Flushed
<1>10. (RunFrom(packet, Flushed))' /\ Bytes(Lengths(packet))' = Bytes(Lengths(packet'))
    BY <1>1, <1>8, <1>9 DEF RunFrom, Lengths
<1>11. PacketInv'
  <2>1. packet_used' = kHeaderSize + Bytes(Lengths(packet))' /\ packet_used' <= kMaxPacketSize
    <3>1. Bytes(Lengths(packet))' = 2 + file[k] /\ packet_used' = kHeaderSize + 2 + file[k]
        BY <1>1, <1>8, <1>10
    <3>2. kHeaderSize + 2 + file[k] = kHeaderSize + (2 + file[k])
        BY <1>3, <1>5
    <3>3. packet_used' <= kMaxPacketSize
        BY <1>5, <3>1
    <3>4. packet_used' = kHeaderSize + Bytes(Lengths(packet))'
        BY <3>1, <3>2
    <3> QED BY <3>3, <3>4
  <2> QED BY <1>1, <1>3, <1>8, <1>9, <1>10, <2>1 DEF PacketInv
<1>12. (SentInv(wire, dropped, Flushed, next_seq))'
  <2>1. packet_used + 2 + file[next_seq] > kMaxPacketSize
    <3>1. ~(packet_used + 2 + file[k] <= kMaxPacketSize) /\ k = next_seq
        BY <1>1, <1>2
    <3> QED BY <1>3, <1>5, <1>6, <3>1, SMTT(40)
  <2>2. SentInv(wire', dropped', next_seq, next_seq + 1)
      BY <1>1, <1>3, <1>7, <2>1, Handed DEF SenderInv
  <2> QED BY <1>1, <1>9, <2>2 DEF SentInv, Sound, RunFrom, Lengths
<1>13. (total_sent = Flushed - 1 /\ done \in BOOLEAN)'
    BY <1>1, <1>3, <1>9 DEF SenderInv
<1> QED BY <1>1, <1>2, <1>4, <1>8, <1>11, <1>12, <1>13 DEF SenderInv

\* What has been sent stays as it is while file, wire and numbers do.
LEMMA SentSame ==
  ASSUME SentInv(wire, dropped, Flushed, next_seq), Flushed' = Flushed,
         UNCHANGED <<file, wire, dropped, next_seq>>
  PROVE  (SentInv(wire, dropped, Flushed, next_seq))'
<1>1. \A d : (Sound(d, next_seq))' <=> Sound(d, next_seq)
    BY DEF Sound, RunFrom, Lengths
<1> QED BY <1>1 DEF SentInv, Sound, RunFrom, Lengths

\* At the end of the file what has been packed is sent, if there is any.
LEMMA FinishInv == SenderInv /\ Finish => SenderInv'
<1> SUFFICES ASSUME SenderInv, Finish PROVE SenderInv'
    OBVIOUS
<1>1. /\ NextRecord = {} /\ ~done /\ done' = TRUE
      /\ UNCHANGED <<file, size, offset, next_seq, packet_first_seq>>
    BY DEF Finish, Sending
<1>2. ReadInv' /\ NextRecord' = {}
    BY <1>1 DEF SenderInv, ReadInv, Start, NextRecord, Readable
<1>3. /\ file \in Seq(Nat) /\ next_seq \in Nat \ {0} /\ Len(packet) \in Nat
      /\ Flushed \in Nat \ {0} /\ Flushed + Len(packet) = next_seq
      /\ (packet = <<>> <=> Len(packet) = 0)
      /\ kHeaderSize \in Nat /\ kMaxPacketSize \in Nat
    BY SenderTyped
<1>4. CASE packet = <<>>
  <2>1. UNCHANGED <<packet, packet_used, packet_first_seq, total_sent, wire, dropped>>
      BY <1>4 DEF Finish, Sending
  <2>2. Flushed' = Flushed
      BY <1>1, <2>1 DEF Flushed
  <2>3. PacketInv'
      BY <1>1, <2>1, <2>2 DEF SenderInv, PacketInv, RunFrom, Lengths
  <2>a. (SentInv(wire, dropped, Flushed, next_seq))'
      BY <1>1, <2>1, <2>2, SentSame DEF SenderInv
  <2>4. (done \in BOOLEAN)'
      BY <1>1
  <2> QED BY <1>1, <1>2, <1>4, <2>1, <2>2, <2>3, <2>4, <2>a DEF SenderInv
<1>5. CASE packet # <<>>
  <2>1. /\ Sendto /\ total_sent' = total_sent + Len(packet)
        /\ packet' = <<>> /\ packet_used' = kHeaderSize
      BY <1>5 DEF Finish
  <2>2. Flushed' = next_seq
      BY <1>1, <1>3, <2>1 DEF Flushed
  <2>3. PacketInv'
    <3>1. Bytes(Lengths(packet))' = 0 /\ (RunFrom(packet, Flushed))'
        BY <1>1, <1>3, <2>1, <2>2, EmptyPacket DEF Lengths, RunFrom
    <3> QED BY <1>1, <1>3, <2>1, <2>2, <3>1 DEF SenderInv, PacketInv
  <2>4. (SentInv(wire, dropped, Flushed, next_seq))'
    <3>1. SentInv(wire', dropped', next_seq, next_seq)
        BY <1>3, <1>5, <2>1, Handed DEF SenderInv
    <3> QED BY <1>1, <2>2, <3>1 DEF SentInv, Sound, RunFrom, Lengths
  <2>5. (total_sent = Flushed - 1)'
      BY <1>3, <2>1, <2>2 DEF SenderInv
  <2>6. (done \in BOOLEAN)'
      BY <1>1
  <2> QED BY <1>1, <1>2, <2>1, <2>3, <2>4, <2>5, <2>6 DEF SenderInv
<1> QED BY <1>4, <1>5

\* Every round of the sender's loop keeps the invariant.
LEMMA SenderNext == SenderInv /\ [Next]_vars => SenderInv'
<1> SUFFICES ASSUME SenderInv, [Next]_vars PROVE SenderInv'
    OBVIOUS
<1>1. CASE Next
    BY <1>1, PackInv, FlushAndPackInv, FinishInv DEF Next
<1>2. CASE UNCHANGED vars
  <2>1. UNCHANGED <<file, size, offset, packet, packet_used, packet_first_seq, next_seq,
                    total_sent, wire, dropped, done>>
      BY <1>2 DEF vars
  <2>2. Flushed' = Flushed /\ NextRecord' = NextRecord
      BY <2>1 DEF Flushed, NextRecord, Readable, Start
  <2>3. ReadInv'
      BY <2>1 DEF SenderInv, ReadInv, Start
  <2>4. PacketInv'
      BY <2>1, <2>2 DEF SenderInv, PacketInv, RunFrom, Lengths
  <2>5. (SentInv(wire, dropped, Flushed, next_seq))'
      BY <2>1, <2>2, SentSame DEF SenderInv
  <2> QED BY <2>1, <2>2, <2>3, <2>4, <2>5 DEF SenderInv
<1> QED BY <1>1, <1>2

-----------------------------------------------------------------------------

\* In every state the messages sent, dropped and packed follow one another in
\* the file up to the next one to be read.
THEOREM SenderInvariant == Spec => []SenderInv
BY SenderInit, SenderNext, PTL DEF Spec

\* The sender's state is type-correct, and no datagram is empty.
THEOREM SenderTypes == Spec => []TypeOK
<1>1. SenderInv => TypeOK
  <2> SUFFICES ASSUME SenderInv PROVE TypeOK
      OBVIOUS
  <2>1. /\ file \in Seq(Nat) /\ next_seq \in Nat \ {0} /\ Flushed \in Nat \ {0}
        /\ RunFrom(packet, Flushed) /\ kHeaderSize \in Nat
      BY SenderTyped
  <2>2. packet_used \in Nat
    <3>1. Lengths(packet) \in Seq(Nat)
        BY <2>1 DEF Lengths, RunFrom
    <3> QED BY <2>1, <3>1, BytesType DEF SenderInv, PacketInv
  <2>3. offset \in Nat
      BY <2>1, StartSteps DEF SenderInv, ReadInv
  <2>4. \A d \in Range(wire) :
          d \in [seq : Nat \ {0}, count : Nat \ {0}, msgs : Seq(DOMAIN file), bytes : Nat]
      BY DEF SenderInv, SentInv, Sound, Range
  <2> QED BY <2>1, <2>2, <2>3, <2>4
      DEF TypeOK, SenderInv, ReadInv, PacketInv, SentInv, RunFrom
<1> QED BY <1>1, SenderInvariant, PTL

\* The number in a datagram's header is the place in the file of its first
\* message, and the others follow one by one, for every file and packet size.
THEOREM NumbersAreExact == Spec => []NumberingExact
<1>1. SenderInv => NumberingExact
    BY DEF SenderInv, SentInv, Sound, RunFrom, Range, NumberingExact
<1> QED BY <1>1, SenderInvariant, PTL

\* Datagrams never overlap, whichever of them sendto refuses; this is what the
\* receivers' theorems assume of the packets.
THEOREM NumbersNeverRepeat == Spec => []PacketsDisjoint
<1>1. SenderInv => PacketsDisjoint
    BY DEF SenderInv, SentInv, Range, PacketsDisjoint
<1> QED BY <1>1, SenderInvariant, PTL

\* No datagram outgrows the packet size, and none is sent early.
THEOREM PacketsWellFilled == Spec => []PacketsFull
<1>1. SenderInv => PacketsFull
    BY DEF SenderInv, SentInv, Sound, Range, PacketsFull, Lengths
<1> QED BY <1>1, SenderInvariant, PTL

\* When the sender ends, every message that the file holds completely has been
\* handed to sendto, and no other.
THEOREM EverythingSent == Spec => []AllSent
<1>1. SenderInv => AllSent
  <2> DEFINE sent == UNION {Range(d.msgs) : d \in Range(wire)}
             held == {k \in DOMAIN file : Start(k + 1) <= size}
  <2> SUFFICES ASSUME SenderInv, done
               PROVE  sent \cup dropped = held /\ total_sent = next_seq - 1
      BY DEF AllSent
  <2>1. packet = <<>> /\ NextRecord = {}
      BY DEF SenderInv
  <2>2. /\ file \in Seq(Nat) /\ next_seq \in Nat \ {0} /\ Flushed = next_seq
        /\ next_seq \in 1 .. Len(file) + 1 /\ Start(next_seq) <= size /\ size \in Nat
        /\ Len(file) \in Nat /\ DOMAIN file = 1 .. Len(file)
      BY <2>1, SenderTyped DEF SenderInv, ReadInv
  <2>3. ASSUME NEW k \in DOMAIN file PROVE Start(k + 1) <= size <=> k < next_seq
    <3>1. k \in Nat /\ k + 1 \in 1 .. Len(file) + 1 /\ k >= 1
        BY <2>2
    <3>2. Start(k + 1) \in Nat /\ Start(next_seq) \in Nat
        BY <2>2, <3>1, StartSteps
    <3>3. CASE k < next_seq
      <4>1. CASE k + 1 = next_seq
          BY <2>2, <3>3, <4>1
      <4>2. CASE k + 1 < next_seq
        <5>1. Start(k + 1) < Start(next_seq)
            BY <2>2, <3>1, <4>2, StartGrows
        <5> QED BY <2>2, <3>2, <3>3, <5>1
      <4> QED BY <2>2, <3>1, <3>3, <4>1, <4>2
    <3>4. CASE next_seq <= k
      <4>1. next_seq \in DOMAIN file /\ next_seq + 1 \in 1 .. Len(file) + 1
          BY <2>2, <3>1, <3>4
      <4>2. ~(Start(next_seq + 1) <= size)
          BY <2>1, <4>1, NextRecordMeaning DEF SenderInv
      <4>3. CASE k = next_seq
          BY <2>2, <4>2, <4>3
      <4>4. CASE next_seq < k
        <5>1. Start(next_seq + 1) < Start(k + 1) /\ Start(next_seq + 1) \in Nat
          <6>1. next_seq + 1 < k + 1
              BY <2>2, <3>1, <4>4
          <6> QED BY <2>2, <3>1, <4>1, <6>1, StartGrows, StartSteps
        <5> QED BY <2>2, <3>1, <3>2, <4>2, <4>4, <5>1
      <4> QED BY <2>2, <3>1, <3>4, <4>3, <4>4
    <3> QED BY <2>2, <3>1, <3>3, <3>4
  <2>4. ASSUME NEW n PROVE n \in sent \cup dropped <=> n \in DOMAIN file /\ n < next_seq
    <3>1. ASSUME NEW b \in DOMAIN wire, n \in Range(wire[b].msgs)
          PROVE  n \in DOMAIN file /\ n < next_seq
      <4>1. /\ Sound(wire[b], next_seq) /\ wire[b].seq + wire[b].count <= next_seq
            /\ wire[b].seq \in Nat /\ wire[b].count \in Nat
            /\ RunFrom(wire[b].msgs, wire[b].seq) /\ wire[b].count = Len(wire[b].msgs)
          BY <2>2 DEF SenderInv, SentInv, Sound
      <4>2. n \in Nat /\ n < wire[b].seq + wire[b].count
          BY <2>2, <3>1, <4>1, RunRange
      <4>3. n \in DOMAIN file
          BY <3>1, <4>1 DEF RunFrom, Range
      <4> QED BY <2>2, <4>1, <4>2, <4>3
    <3>2. n \in dropped => n \in DOMAIN file /\ n < next_seq
        BY <2>2 DEF SenderInv, SentInv
    <3>3. n \in DOMAIN file /\ n < next_seq =>
            n \in dropped \/ \E b \in DOMAIN wire : n \in Range(wire[b].msgs)
        BY <2>2 DEF SenderInv, SentInv
    <3>4. n \in sent
            <=> \E b \in DOMAIN wire : n \in Range(wire[b].msgs)
        BY DEF Range
    <3> DEFINE found == \E b \in DOMAIN wire : n \in Range(wire[b].msgs)
    <3>a. (n \in sent <=> found) /\ (n \in sent \cup dropped <=> n \in sent \/ n \in dropped)
        BY <3>4
    <3> HIDE DEF sent, found
    <3>5. n \in sent \cup dropped <=> n \in dropped \/ found
        BY <3>a
    <3>6. n \in dropped \/ found => n \in DOMAIN file /\ n < next_seq
        BY <3>1, <3>2 DEF found
    <3>7. n \in DOMAIN file /\ n < next_seq => n \in dropped \/ found
        BY <3>3 DEF found
    <3> QED BY <3>5, <3>6, <3>7
  <2>5. total_sent = next_seq - 1
      BY <2>2 DEF SenderInv
  <2>6. \A n : n \in held <=> n \in DOMAIN file /\ n < next_seq
      BY <2>3, Zenon
  <2> HIDE DEF sent, held
  <2>7. \A n : n \in sent \cup dropped <=> n \in held
      BY <2>4, <2>6, Zenon
  <2>8. sent \cup dropped = held
      BY <2>7
  <2> QED BY <2>5, <2>8
<1> QED BY <1>1, SenderInvariant, PTL
=============================================================================
