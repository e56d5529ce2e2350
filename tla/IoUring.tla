------------------------------ MODULE IoUring -------------------------------
(***************************************************************************)
(* The receive path of v2 and v3 (src/v2/receiver.cpp, src/v3/receiver.cpp *)
(* have it in common): kQueueDepth buffers circulate between the           *)
(* submission queue, the kernel, the completion queue and the loop.  The   *)
(* kernel runs beside the loop; it serves receives in any order, and may   *)
(* post their completions in another.  Datagrams are named by the order    *)
(* in which they reached the socket.                                       *)
(***************************************************************************)
EXTENDS Integers, Sequences, FiniteSets

CONSTANTS kQueueDepth,   \* 32 in the code: buffers, and entries of the submission queue
          MaxArrivals,   \* bound: datagrams of a session
          MaxFailures    \* bound: completions that carry no packet

ASSUME RingAssumption == kQueueDepth \in Nat \ {0}

VARIABLES arrived,       \* datagrams that have reached the socket
          taken,         \* how many of them the kernel has copied into a buffer
          bufs,          \* the datagram in each buffer; 0 before the first
          sq,            \* buffers whose receive is prepared, not submitted
          armed,         \* buffers whose receive the kernel waits to serve
          filled,        \* buffers served, their completion not posted yet
          cq,            \* completions, up to the tail the loop can see
          pc,            \* where the loop is
          completed,     \* completions of this batch handled so far
          read,          \* the datagrams the loop has handled
          packets, failures

ring_vars == <<arrived, taken, bufs, sq, armed, filled, cq, pc, completed, read,
               packets, failures>>
kernel_vars == <<arrived, taken, bufs, armed, filled, failures>>

Buf == 0 .. kQueueDepth - 1
CqEntries == 2 * kQueueDepth    \* io_uring_queue_init without flags

\* The first submission is part of the start.
RingInit == /\ arrived = 0 /\ taken = 0 /\ bufs = [b \in Buf |-> 0]
            /\ sq = <<>> /\ armed = Buf /\ filled = {} /\ cq = <<>>
            /\ pc = "wait" /\ completed = 0 /\ read = {}
            /\ packets = 0 /\ failures = 0

-----------------------------------------------------------------------------
(* The network and the kernel. *)

Arrive == /\ arrived < MaxArrivals /\ arrived' = arrived + 1
          /\ UNCHANGED <<taken, bufs, sq, armed, filled, cq, pc, completed, read,
                         packets, failures>>

\* The datagrams leave the socket in order; the receive may be any.
Take(b) == /\ b \in armed /\ taken < arrived
           /\ taken' = taken + 1
           /\ bufs' = [bufs EXCEPT ![b] = taken + 1]
           /\ armed' = armed \ {b} /\ filled' = filled \cup {b}
           /\ UNCHANGED <<arrived, sq, cq, pc, completed, read, packets, failures>>

Post(b) == /\ b \in filled
           /\ filled' = filled \ {b}
           /\ cq' = Append(cq, [idx |-> b, packet |-> TRUE])
           /\ UNCHANGED <<arrived, taken, bufs, sq, armed, pc, completed, read,
                          packets, failures>>

\* The receive fails, or yields less than a MoldUDP64 header.
Fail(b) == /\ b \in armed /\ failures < MaxFailures
           /\ failures' = failures + 1
           /\ armed' = armed \ {b}
           /\ cq' = Append(cq, [idx |-> b, packet |-> FALSE])
           /\ UNCHANGED <<arrived, taken, bufs, sq, filled, pc, completed, read, packets>>

Kernel == \E b \in Buf : Take(b) \/ Post(b) \/ Fail(b)

-----------------------------------------------------------------------------
(* The loop. *)

\* io_uring_wait_cqe_timeout returns at once if there is a completion ...
Wake == /\ pc = "wait" /\ cq # <<>>
        /\ pc' = "drain" /\ completed' = 0
        /\ UNCHANGED <<kernel_vars, sq, cq, read, packets>>

\* ... and otherwise after three seconds or an error; both end the loop.
Stop == /\ pc = "wait" /\ cq = <<>>
        /\ pc' = "stopped"
        /\ UNCHANGED <<kernel_vars, sq, cq, completed, read, packets>>

Cqe == cq[completed + 1]

\* Buffers counted from one.
BugPrepRecvFromOne == sq' = Append(sq, Cqe.idx + 1)

\* A completion without a packet is armed where it is found and again below.
BugPrepRecvTwice ==
  sq' = IF Cqe.packet THEN Append(sq, Cqe.idx) ELSE sq \o <<Cqe.idx, Cqe.idx>>

\* prep_recv: get_sqe has an entry free, which nothing tests (RingsFit).
PrepRecv == sq' = Append(sq, Cqe.idx)

\* One iteration of io_uring_for_each_cqe, which looks at the tail each time.
Process == /\ pc = "drain" /\ completed < Len(cq)
           /\ IF Cqe.packet
                THEN read' = read \cup {bufs[Cqe.idx]} /\ packets' = packets + 1
                ELSE UNCHANGED <<read, packets>>
           /\ PrepRecv
           /\ completed' = completed + 1
           /\ UNCHANGED <<kernel_vars, cq, pc>>

Drained == /\ pc = "drain" /\ completed = Len(cq)
           /\ pc' = "advance"
           /\ UNCHANGED <<kernel_vars, sq, cq, completed, read, packets>>

\* io_uring_cq_advance gives all entries back that are posted by now.
BugAdvanceAll == /\ pc = "advance" /\ pc' = "submit" /\ cq' = <<>>
                 /\ UNCHANGED <<kernel_vars, sq, completed, read, packets>>

\* The entries of the batch stay in the queue.
BugAdvanceNothing == /\ pc = "advance" /\ pc' = "submit"
                     /\ UNCHANGED <<kernel_vars, sq, cq, completed, read, packets>>

Advance == /\ pc = "advance" /\ pc' = "submit"
           /\ cq' = SubSeq(cq, completed + 1, Len(cq))
           /\ UNCHANGED <<kernel_vars, sq, completed, read, packets>>

\* The loop never comes here with completed = 0: a wait that succeeds has found one.
Submit == /\ pc = "submit" /\ pc' = "wait"
          /\ armed' = armed \cup {sq[i] : i \in DOMAIN sq} /\ sq' = <<>>
          /\ UNCHANGED <<arrived, taken, bufs, filled, failures, cq, completed, read,
                         packets>>

Loop == Wake \/ Process \/ Drained \/ Advance \/ Submit

RingNext == Arrive \/ Kernel \/ Loop \/ Stop

\* The kernel serves a waiting receive and posts what it served; the loop runs.
RingFairness == /\ WF_ring_vars(Loop)
                /\ WF_ring_vars(\E b \in Buf : Take(b))
                /\ \A b \in Buf : WF_ring_vars(Post(b))

RingSpec == RingInit /\ [][RingNext]_ring_vars

-----------------------------------------------------------------------------

\* The completions the loop has not handled: entries handled stay in cq until
\* they are advanced over.
Head1 == IF pc \in {"drain", "advance"} THEN completed + 1 ELSE 1
Waiting == Head1 .. Len(cq)
Completed == {cq[i].idx : i \in Waiting}
Queued == {sq[i] : i \in DOMAIN sq}

\* Types; the numbers of datagrams are those that arrived.
TypeOK ==
  /\ {arrived, taken, completed, packets, failures} \subseteq Nat
  /\ taken <= arrived
  /\ bufs \in [Buf -> 0 .. taken] /\ read \subseteq 1 .. taken
  /\ sq \in Seq(Buf) /\ armed \subseteq Buf /\ filled \subseteq Buf
  /\ cq \in Seq([idx : Buf, packet : BOOLEAN])
  /\ pc \in {"wait", "drain", "advance", "submit", "stopped"}

\* A buffer is always in exactly one place (receiver.cpp:75-84, 205): the kernel
\* never writes one that the loop reads, and none drops out of circulation.
OneOwner ==
  /\ armed \cup filled \cup Completed \cup Queued = Buf
  /\ armed \cap filled = {} /\ armed \cap Completed = {} /\ armed \cap Queued = {}
  /\ filled \cap Completed = {} /\ filled \cap Queued = {} /\ Completed \cap Queued = {}
  /\ \A i, j \in DOMAIN sq : sq[i] = sq[j] => i = j
  /\ \A i, j \in Waiting : cq[i].idx = cq[j].idx => i = j

\* io_uring_get_sqe never returns null (receiver.cpp:76 does not look), the
\* completion queue never overflows, and a batch ends after at most one round
\* of the buffers, however fast datagrams come.
RingsFit ==
  /\ pc = "drain" /\ completed < Len(cq) => Len(sq) < kQueueDepth
  /\ Len(cq) <= CqEntries
  /\ pc \in {"drain", "advance"} => completed <= kQueueDepth

Box == INSTANCE Mailbox WITH Depth <- kQueueDepth

\* The rings keep the promise of Mailbox.tla: nothing is read twice, from a
\* buffer filled anew, or more than kQueueDepth - 1 places out of order.
RefinesMailbox == Box!Spec

\* Every datagram that reaches the socket is handled, unless the loop has ended.
AllRead == \A d \in 1 .. MaxArrivals : d <= arrived ~> d \in read \/ pc = "stopped"
=============================================================================
