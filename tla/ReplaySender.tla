---------------------------- MODULE ReplaySender ----------------------------
(***************************************************************************)
(* The replay sender (src/common/replay_sender.cpp) with the file reader   *)
(* it reads from (src/common/itch_reader.cpp).  The file is a run of       *)
(* records, two bytes of length and a message, and may be cut off at any   *)
(* byte, as the sample of the README is.  Messages are named by their      *)
(* place in the file.                                                      *)
(***************************************************************************)
EXTENDS Integers, Sequences, FiniteSetsExt, SequencesExt

CONSTANTS Files,            \* the message lengths a file may consist of
          kHeaderSize,      \* 20 in the code
          kMaxPacketSize    \* 1400 in the code

\* Every message fits into a packet of its own; ITCH's have at most 50 bytes.
ASSUME MessagesFit ==
  \A f \in Files : \A k \in DOMAIN f : kHeaderSize + 2 + f[k] <= kMaxPacketSize

ASSUME SizesAssumption ==
  Files \subseteq Seq(Nat) /\ kHeaderSize \in Nat /\ kMaxPacketSize \in Nat

VARIABLES file, size,       \* the records of the file, and its length in bytes
          offset,           \* offset_ of the reader
          packet,           \* the messages in the packet being filled
          packet_used, packet_first_seq, next_seq, total_sent,
          wire,             \* auxiliary: the packets sendto took, in order
          dropped,          \* auxiliary: the messages of those it refused
          done              \* the reader found no further message

vars == <<file, size, offset, packet, packet_used, packet_first_seq, next_seq,
          total_sent, wire, dropped, done>>

Sending == <<packet, packet_used, packet_first_seq, total_sent, wire, dropped>>

-----------------------------------------------------------------------------
(* The reader. *)

\* Where record k begins, and how long a sequence of records is.
Bytes(f) == MapThenSumSet(LAMBDA k : 2 + f[k], DOMAIN f)

Start(k) == Bytes(SubSeq(file, 1, k - 1))

\* A record that ends with the file is taken for a cut off one.
BugReadableStrict(k) == Start(k) = offset /\ Start(k) + 2 + file[k] < size

\* The record at offset_, if all of it is in the file.
Readable(k) == Start(k) = offset /\ Start(k) + 2 + file[k] <= size

NextRecord == {k \in DOMAIN file : Readable(k)}

-----------------------------------------------------------------------------
(* The sender. *)

Init == /\ file \in Files /\ size \in 0 .. Bytes(file)
        /\ offset = 0
        /\ packet = <<>> /\ packet_used = kHeaderSize
        /\ packet_first_seq = 1 /\ next_seq = 1 /\ total_sent = 0
        /\ wire = <<>> /\ dropped = {} /\ done = FALSE

\* write_be64 and write_be16 into the header.
Datagram == [seq |-> packet_first_seq, count |-> Len(packet), msgs |-> packet,
             bytes |-> packet_used]

\* flush_packet, with the state it finds; its result is not looked at.
Sendto == \/ wire' = Append(wire, Datagram) /\ UNCHANGED dropped
          \/ dropped' = dropped \cup Range(packet) /\ UNCHANGED wire

\* After a flush the number of the packet before is kept.
BugFillStaleFirst(k, held, used) ==
  /\ packet_first_seq' = IF packet = <<>> THEN next_seq ELSE packet_first_seq
  /\ packet' = Append(held, k)
  /\ packet_used' = used + 2 + file[k]
  /\ next_seq' = next_seq + 1
  /\ offset' = offset + 2 + file[k]

\* The rest of the loop: message k joins the messages held so far.
Fill(k, held, used) ==
  /\ packet_first_seq' = IF held = <<>> THEN next_seq ELSE packet_first_seq
  /\ packet' = Append(held, k)
  /\ packet_used' = used + 2 + file[k]
  /\ next_seq' = next_seq + 1
  /\ offset' = offset + 2 + file[k]

\* Without the two bytes of the length.
BugRoomForLength(k) == packet_used + file[k] <= kMaxPacketSize

Room(k) == packet_used + 2 + file[k] <= kMaxPacketSize

Pack(k) == /\ Room(k)
           /\ Fill(k, packet, packet_used)
           /\ UNCHANGED <<file, size, total_sent, wire, dropped, done>>

\* flush_packet leaves an empty packet alone and resets any other.
FlushAndPack(k) == /\ ~Room(k)
                   /\ IF packet = <<>> THEN UNCHANGED <<wire, dropped>> ELSE Sendto
                   /\ total_sent' = total_sent + Len(packet)
                   /\ Fill(k, <<>>, kHeaderSize)
                   /\ UNCHANGED <<file, size, done>>

\* Without flush_packet's early return an empty packet goes out.
BugFinishSendsEmpty ==
  /\ NextRecord = {} /\ ~done
  /\ done' = TRUE
  /\ Sendto
  /\ total_sent' = total_sent + Len(packet)
  /\ packet' = <<>> /\ packet_used' = kHeaderSize
  /\ UNCHANGED <<file, size, offset, next_seq, packet_first_seq>>

\* The reader has come to the end, or to a record that is cut off.
Finish == /\ NextRecord = {} /\ ~done
          /\ done' = TRUE
          /\ IF packet = <<>>
               THEN UNCHANGED Sending
               ELSE /\ Sendto
                    /\ total_sent' = total_sent + Len(packet)
                    /\ packet' = <<>> /\ packet_used' = kHeaderSize
                    /\ UNCHANGED packet_first_seq
          /\ UNCHANGED <<file, size, offset, next_seq>>

Next == \/ \E k \in NextRecord : Pack(k) \/ FlushAndPack(k)
        \/ Finish

Spec == Init /\ [][Next]_vars

-----------------------------------------------------------------------------

\* Types; no packet is empty, which the receivers count on.
TypeOK ==
  /\ file \in Files /\ {size, offset, packet_used, total_sent} \subseteq Nat
  /\ {packet_first_seq, next_seq} \subseteq Nat \ {0}
  /\ packet \in Seq(DOMAIN file) /\ dropped \subseteq DOMAIN file
  /\ \A d \in Range(wire) :
       d \in [seq : Nat \ {0}, count : Nat \ {0}, msgs : Seq(DOMAIN file), bytes : Nat]
  /\ done \in BOOLEAN

\* A packet says which messages it carries: the number in its header is the
\* place in the file of its first message, and the others follow one by one.
\* The receivers find missing messages by these numbers alone.
NumberingExact == \A d \in Range(wire) :
  \A i \in DOMAIN d.msgs : d.msgs[i] = d.seq + i - 1

\* The packets of one session never overlap and never repeat a number, what
\* sendto refused included: what WellFormed of ReceiverV3.tla asks of them.
PacketsDisjoint ==
  /\ \A a, b \in DOMAIN wire : a < b => wire[a].seq + wire[a].count <= wire[b].seq
  /\ \A d \in Range(wire) : \A n \in dropped : n < d.seq \/ d.seq + d.count <= n

\* No packet outgrows its buffer, and none is sent while the next message
\* would still have fitted.
PacketsFull == \A d \in Range(wire) :
  /\ d.bytes = kHeaderSize + Bytes([i \in DOMAIN d.msgs |-> file[d.msgs[i]]])
  /\ d.bytes <= kMaxPacketSize
  /\ LET n == d.seq + d.count
     IN  n < next_seq => d.bytes + 2 + file[n] > kMaxPacketSize

\* In the end every message that the file holds completely is in a packet, the
\* last, half-filled one included, and one that the file cuts off is in none.
AllSent == done =>
  /\ (UNION {Range(d.msgs) : d \in Range(wire)}) \cup dropped
       = {k \in DOMAIN file : Start(k + 1) <= size}
  /\ total_sent = next_seq - 1
=============================================================================
