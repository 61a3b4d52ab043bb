------------------------------ MODULE SendRecv ------------------------------
(***************************************************************************)
(* SendRecvTransport: one endpoint of an RC connection that moves messages *)
(* with two-sided Send and Recv, its two arm-and-park completion queues    *)
(* (AsyncCq), and what the NIC and the connection manager do to it.        *)
(*                                                                         *)
(* Everything is an operator from endpoint record to endpoint record.  A   *)
(* completion queue is polled in two steps, because the NIC runs between   *)
(* req_notify and poll_cq.                                                 *)
(***************************************************************************)
EXTENDS Integers, SequencesExt, FiniteSetsExt

CONSTANTS
  NumSendBufs,   \* SendRecvConfig::num_send_bufs
  NumRecvBufs,   \* SendRecvConfig::num_recv_bufs
  BufSize,       \* SendRecvConfig::buf_size
  SendBatch,     \* CQEs one poll_send_completion reaps (4 in the code)
  RecvBatch      \* CQEs one poll_recv reaps (8 in the code)

SendBuf == 0 .. NumSendBufs - 1
RecvBuf == 0 .. NumRecvBufs - 1

AtMost(a, b) == IF a < b THEN a ELSE b

From(q, n) == SubSeq(q, n + 1, Len(q))

-----------------------------------------------------------------------------
(* AsyncCq: a completion queue with a completion channel                   *)

NewCq ==
  [ cqes    |-> <<>>,
    armed   |-> FALSE,    \* req_notify is outstanding
    event   |-> FALSE,    \* the channel holds an event and its fd is ready
    waiting |-> FALSE,    \* CqPollState::WaitingFd
    watched |-> FALSE ]   \* poll_readable returned Pending to the task

\* The NIC adds a completion; an armed queue raises one channel event.
Complete(cq, wc) ==
  [cq EXCEPT !.cqes = Append(@, wc), !.event = @ \/ cq.armed, !.armed = FALSE]

\* The channel fd is ready and somebody waits on it.
Rings(cq) == cq.event /\ cq.watched

\* poll_completions up to req_notify: a queue still waiting for its fd is not
\* polled at all, otherwise the channel is drained and the queue armed.
StillWaiting(cq) == cq.waiting /\ ~ cq.event

Watch(cq) == [cq EXCEPT !.waiting = TRUE, !.watched = TRUE]

Arm(cq) ==
  [cq EXCEPT !.armed = TRUE, !.event = @ /\ ~ cq.waiting, !.waiting = FALSE]

\* poll_completions after req_notify, on an empty queue: an event that came in
\* meanwhile is drained and the queue armed again.
MustRearm(cq) == cq.cqes = <<>> /\ cq.event

Drained(cq) == [cq EXCEPT !.event = FALSE]

-----------------------------------------------------------------------------
(* The transport                                                           *)

\* from_parts, after connect or complete_accept posted every receive buffer.
NewEndpoint ==
  [ busy     |-> [i \in SendBuf |-> FALSE],   \* send_in_flight
    nextSend |-> 0,                           \* next_send_idx
    dead     |-> FALSE,                       \* peer_disconnected
    closed   |-> FALSE,                       \* disconnected
    sendBuf  |-> [i \in SendBuf |-> <<>>],    \* send_bufs
    recvBuf  |-> [i \in RecvBuf |-> <<>>],    \* recv_bufs
    up       |-> TRUE,                        \* the QP is in RTS, not ERROR
    sq       |-> <<>>,                        \* posted sends not yet executed
    unacked  |-> <<>>,                        \* executed, no send CQE yet
    rq       |-> [i \in 1 .. NumRecvBufs |-> i - 1],   \* posted receives
    scq      |-> NewCq,
    rcq      |-> NewCq,
    hangup   |-> "none",                      \* the DISCONNECTED event
    listens  |-> FALSE ]                      \* poll_disconnect left its waker

\* send_gather looks for a free buffer round-robin from next_send_idx.
FreeSend(x) == {k \in SendBuf : ~ x.busy[(x.nextSend + k) % NumSendBufs]}

CanSend(x) == FreeSend(x) # {}

SendsInFlight(x) == Cardinality({i \in SendBuf : x.busy[i]})

\* A request posted to a QP in ERROR completes at once with a flush error.
PostSend(x, idx) ==
  IF x.up THEN [x EXCEPT !.sq = Append(@, idx)]
  ELSE [x EXCEPT !.scq = Complete(@, [ok |-> FALSE, idx |-> idx])]

\* send_copy and send_gather: as many bytes as a buffer holds go into the first
\* free one.
SendGather(x, data) ==
  LET idx == (x.nextSend + Min(FreeSend(x))) % NumSendBufs
      y   == [x EXCEPT !.sendBuf[idx] = SubSeq(data, 1, AtMost(Len(data), BufSize)),
                       !.busy[idx] = TRUE, !.nextSend = (idx + 1) % NumSendBufs]
  IN  PostSend(y, idx)

\* One batch of work completions, and the first of them that failed.
Reaped(cq, max) == SubSeq(cq.cqes, 1, AtMost(Len(cq.cqes), max))

Failed(batch) == \E i \in DOMAIN batch : ~ batch[i].ok

BeforeFailure(batch) ==
  SubSeq(batch, 1, Min({i \in DOMAIN batch : ~ batch[i].ok} \cup {Len(batch) + 1}) - 1)

\* poll_send_completion on a batch: buffers are freed up to the first failure.
ReapSends(x, batch) ==
  [x EXCEPT !.scq.cqes = From(@, Len(batch)),
            !.dead = @ \/ Failed(batch),
            !.busy = [i \in SendBuf |->
                        @[i] /\ \A k \in DOMAIN BeforeFailure(batch) : batch[k].idx # i]]

\* poll_recv on a batch: a failure anywhere in it fails the call, and the
\* completions before it are not reported.
ReapRecvs(x, batch) ==
  [x EXCEPT !.rcq.cqes = From(@, Len(batch)), !.dead = @ \/ Failed(batch)]

\* repost_recv; its error is ignored by the stream, and a QP in ERROR flushes.
RepostRecv(x, idx) ==
  IF x.up THEN [x EXCEPT !.rq = Append(@, idx)]
  ELSE [x EXCEPT !.rcq = Complete(@, [ok |-> FALSE, idx |-> idx])]

\* poll_cm_disconnect: reads the event, or leaves the waker on the channel fd.
PollDisconnect(x) ==
  CASE x.dead                -> x
    [] x.hangup = "queued"   -> [x EXCEPT !.dead = TRUE, !.hangup = "read"]
    [] OTHER                 -> [x EXCEPT !.listens = TRUE]

\* The QP enters ERROR: what is posted is flushed.
Flushed(cq, idxs) == FoldLeft(LAMBDA c, i : Complete(c, [ok |-> FALSE, idx |-> i]), cq, idxs)

Errored(x) ==
  IF ~ x.up THEN x
  ELSE [x EXCEPT !.up = FALSE, !.sq = <<>>, !.unacked = <<>>, !.rq = <<>>,
                 !.scq = Flushed(@, x.unacked \o x.sq),
                 !.rcq = Flushed(@, x.rq)]

\* disconnect: rdma_disconnect moves the QP to ERROR and sends a DREQ.
Disconnect(x) == [Errored(x) EXCEPT !.closed = TRUE]

-----------------------------------------------------------------------------
(* The NICs and the wire                                                   *)

\* The oldest send of x lands in the oldest posted receive buffer of y.  With
\* rnr_retry_count 7 a send waits for a receive buffer as long as it takes.
CanDeliver(x, y) == x.sq # <<>> /\ x.up /\ y.up /\ y.rq # <<>>

Delivered(x, y) ==
  [y EXCEPT !.rq = Tail(@),
            !.recvBuf[Head(y.rq)] = x.sendBuf[Head(x.sq)],
            !.rcq = Complete(@, [ok |-> TRUE, idx |-> Head(y.rq),
                                 len |-> Len(x.sendBuf[Head(x.sq)])])]

Executed(x) == [x EXCEPT !.sq = Tail(@), !.unacked = Append(@, Head(x.sq))]

Acked(x) ==
  [x EXCEPT !.unacked = Tail(@), !.scq = Complete(@, [ok |-> TRUE, idx |-> Head(x.unacked)])]
=============================================================================
