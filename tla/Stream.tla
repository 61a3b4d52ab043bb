------------------------------- MODULE Stream -------------------------------
(***************************************************************************)
(* AsyncRdmaStream over SendRecvTransport: two byte streams connected to   *)
(* each other, each owned by one task that reads, writes and closes in any *)
(* order.  A poll is cut where it looks at shared state: at every poll_cq, *)
(* and at the poll_disconnect after a queue was found empty.  A task whose *)
(* poll returned Pending runs again only when a waker it left behind       *)
(* fires.                                                                  *)
(***************************************************************************)
EXTENDS SendRecv

CONSTANTS
  StashHeadroom,   \* STASH_HEADROOM (16 in the code)
  StashPoolCap,    \* STASH_POOL_CAP (64 in the code)
  DrainBatch,      \* completions the write-blocked drain asks for (16)
  Scenarios        \* what the two applications do, see Plan

Side == {1, 2}
Other(e) == 3 - e

\* One application: how many bytes it writes, the length of its read buffer,
\* whether it reads never, after its last write or at any time, and whether it
\* may abandon a pending call or the stream.
Plan ==
  [bytes : Nat, readLen : Nat \ {0}, reads : {"never", "last", "any"}, cancels : BOOLEAN]

ASSUME StreamAssumption ==
  /\ {StashHeadroom, StashPoolCap, DrainBatch} \subseteq Nat
  /\ Scenarios \subseteq [Side -> Plan]

VARIABLES
  plan,   \* the scenario: a Plan per side
  ep,     \* the transports
  st      \* the streams and the tasks that own them

vars == <<plan, ep, st>>

NewStream ==
  [ blocked |-> FALSE,     \* write_blocked
    pending |-> <<>>,      \* recv_pending: <<>> or <<[idx, off, len]>>
    stash   |-> <<>>,      \* recv_stash
    offset  |-> 0,         \* stash_offset
    op      |-> "none",    \* the call in progress
    pc      |-> "idle",
    woken   |-> FALSE,
    written |-> 0,         \* bytes the writes accepted
    got     |-> <<>> ]     \* bytes the reads returned

\* stash_drain_cap
StashDrainCap ==
  IF NumRecvBufs + StashHeadroom > StashPoolCap THEN NumRecvBufs + StashHeadroom
  ELSE StashPoolCap

Init ==
  /\ plan \in Scenarios
  /\ ep = [e \in Side |-> NewEndpoint]
  /\ st = [e \in Side |-> NewStream]

-----------------------------------------------------------------------------
(* A poll, as a function from [x: transport, s: stream] to the same        *)

\* The call returns Ready, and the task may make another one.
Return(n) == [n EXCEPT !.s.op = "none", !.s.pc = "idle"]

\* The call returns Pending.
Park(n) == [n EXCEPT !.s.pc = "parked"]

\* The call sets eof, or fails; the application drops the stream, and with it
\* the transport: Drop disconnects and forces the QP to ERROR.
End(n) == [n EXCEPT !.s.op = "none", !.s.pc = "gone", !.x = Disconnect(@)]

\* poll_completions on queue q up to req_notify; poll_cq is at pc.  The queue
\* is not polled while it waits for its fd, and the call goes on as `pending'.
BeginPoll(n, q, pc, pending) ==
  IF StillWaiting(n.x[q]) THEN pending
  ELSE [n EXCEPT !.x[q] = Arm(@), !.s.pc = pc]

\* The waker of the call is with the fd of queue q.
Watching(n, q) == [n EXCEPT !.x[q] = Watch(@)]

\* poll_cq and, on an empty queue, poll_readable: the call goes on as `ready'
\* with what it reaped, as `pending' when it has to wait.
FinishPoll(n, q, ready, pending) ==
  IF n.x[q].cqes # <<>> THEN ready
  ELSE IF MustRearm(n.x[q]) THEN [n EXCEPT !.x[q] = Arm(Drained(@))]
  ELSE pending

\* poll_disconnect once a queue was empty; its own step, as the peer may send
\* and hang up in between.
CheckHangup(n) == [n EXCEPT !.s.pc = "hangup"]

HangupOrPark(n) ==
  LET m == [n EXCEPT !.x = PollDisconnect(@)]
  IN  IF m.x.dead THEN End(m) ELSE Park(m)

-----------------------------------------------------------------------------
(* poll_write_bufs                                                         *)

Data(n, e) == [i \in 1 .. plan[e].bytes - n.s.written |-> n.s.written + i]

\* send_gather accepts what fits into a free buffer; otherwise the write is
\* blocked and goes on as `refused'.
PostOr(n, e, refused) ==
  IF CanSend(n.x)
  THEN Return([n EXCEPT !.x = SendGather(@, Data(n, e)),
                        !.s.blocked = FALSE,
                        !.s.written = @ + AtMost(plan[e].bytes - n.s.written, BufSize)])
  ELSE refused

Blocked(n) == [n EXCEPT !.s.blocked = TRUE]

\* After the drain: the post is tried again, then the send queue is reaped.
Retry(n, e) ==
  PostOr(n, e, BeginPoll(Blocked(n), "scq", "reap", CheckHangup(Blocked(n))))

\* Mutant: a blocked write does not drain what it receives.
DrainSkipped(n, e) == Retry(n, e)

\* The write-blocked drain, up to its next poll_cq.
Drain(n, e) ==
  IF Len(n.s.stash) >= StashDrainCap THEN Retry(n, e)
  ELSE BeginPoll(n, "rcq", "drain", Retry(n, e))

Write(n, e) == PostOr(n, e, Drain(Blocked(n), e))

\* A fresh write first looks for a peer that is gone.
BeginWrite(n, e) ==
  LET m == IF n.s.blocked THEN n ELSE [n EXCEPT !.x = PollDisconnect(@)]
  IN  IF m.x.dead /\ ~ n.s.blocked THEN End(m) ELSE Write(m, e)

\* stash_recv and repost_recv for one completion.
StashRecv(n, wc) ==
  [n EXCEPT !.s.stash = Append(@, SubSeq(n.x.recvBuf[wc.idx], 1, wc.len)),
            !.x = RepostRecv(@, wc.idx)]

\* A drained batch is stashed and its buffers reposted; then the queue is
\* polled again, until it is empty and the receive waker is in place.
DrainedBatch(n, e, batch) ==
  LET m == [n EXCEPT !.x = ReapRecvs(@, batch)]
  IN  IF Failed(batch) THEN Retry(m, e) ELSE Drain(FoldLeft(StashRecv, m, batch), e)

DrainStep(n, e) ==
  FinishPoll(n, "rcq", DrainedBatch(n, e, Reaped(n.x.rcq, AtMost(DrainBatch, RecvBatch))),
             Retry(Watching(n, "rcq"), e))

ReapedSends(n, e, batch) ==
  LET m == [n EXCEPT !.x = ReapSends(@, batch)]
  IN  IF Failed(batch) THEN End(m) ELSE Write(m, e)

ReapStep(n, e) ==
  FinishPoll(n, "scq", ReapedSends(n, e, Reaped(n.x.scq, SendBatch)),
             CheckHangup(Watching(n, "scq")))

-----------------------------------------------------------------------------
(* poll_read and poll_read_tokio                                           *)

\* Mutant: the buffer of a partly read message is reposted at once.
TakeRecvEarly(n, e, wc, off) ==
  LET k == AtMost(wc.len - off, plan[e].readLen)
      m == [n EXCEPT !.s.got = @ \o SubSeq(n.x.recvBuf[wc.idx], off + 1, off + k)]
  IN  Return(IF off + k < wc.len
             THEN [m EXCEPT !.s.pending = <<[idx |-> wc.idx, off |-> off + k, len |-> wc.len]>>,
                            !.x = IF off = 0 THEN RepostRecv(@, wc.idx) ELSE @]
             ELSE [m EXCEPT !.s.pending = <<>>])

\* Copies from a receive buffer, from offset off on; the buffer is reposted
\* when all of it was read, and kept in recv_pending otherwise.
TakeRecv(n, e, wc, off) ==
  LET k == AtMost(wc.len - off, plan[e].readLen)
      m == [n EXCEPT !.s.got = @ \o SubSeq(n.x.recvBuf[wc.idx], off + 1, off + k)]
  IN  Return(IF off + k < wc.len
             THEN [m EXCEPT !.s.pending = <<[idx |-> wc.idx, off |-> off + k, len |-> wc.len]>>]
             ELSE [m EXCEPT !.s.pending = <<>>, !.x = RepostRecv(@, wc.idx)])

\* Copies from the front of the stash.
TakeStash(n, e) ==
  LET front == Head(n.s.stash)
      k     == AtMost(Len(front) - n.s.offset, plan[e].readLen)
      m     == [n EXCEPT !.s.got = @ \o SubSeq(front, n.s.offset + 1, n.s.offset + k)]
  IN  Return(IF n.s.offset + k < Len(front) THEN [m EXCEPT !.s.offset = @ + k]
             ELSE [m EXCEPT !.s.stash = Tail(@), !.s.offset = 0])

BeginRead(n, e) ==
  IF n.s.pending # <<>> THEN TakeRecv(n, e, n.s.pending[1], n.s.pending[1].off)
  ELSE IF n.s.stash # <<>> THEN TakeStash(n, e)
  ELSE BeginPoll(n, "rcq", "recv", CheckHangup(n))

ReapedRecv(n, e, batch) ==
  LET m == [n EXCEPT !.x = ReapRecvs(@, batch)]
  IN  IF Failed(batch) THEN End(m) ELSE TakeRecv(m, e, batch[1], 0)

RecvStep(n, e) ==
  FinishPoll(n, "rcq", ReapedRecv(n, e, Reaped(n.x.rcq, 1)), CheckHangup(Watching(n, "rcq")))

-----------------------------------------------------------------------------
(* poll_close_impl                                                         *)

\* Every send is reaped before the DREQ.
BeginClose(n) ==
  IF SendsInFlight(n.x) = 0 THEN End(n)
  ELSE BeginPoll(n, "scq", "flush", CheckHangup(n))

FlushedSends(n, batch) ==
  LET m == [n EXCEPT !.x = ReapSends(@, batch)]
  IN  IF Failed(batch) THEN End(m) ELSE BeginClose(m)

FlushStep(n) ==
  FinishPoll(n, "scq", FlushedSends(n, Reaped(n.x.scq, SendBatch)),
             CheckHangup(Watching(n, "scq")))

-----------------------------------------------------------------------------
(* The tasks                                                               *)

Begin(n, e) ==
  CASE n.s.op = "write" -> BeginWrite(n, e)
    [] n.s.op = "read"  -> BeginRead(n, e)
    [] n.s.op = "close" -> BeginClose(n)

Continue(n, e) ==
  CASE n.s.pc = "drain"  -> DrainStep(n, e)
    [] n.s.pc = "reap"   -> ReapStep(n, e)
    [] n.s.pc = "recv"   -> RecvStep(n, e)
    [] n.s.pc = "flush"  -> FlushStep(n)
    [] n.s.pc = "hangup" -> HangupOrPark(n)

Become(e, n) ==
  /\ ep' = [ep EXCEPT ![e] = n.x]
  /\ st' = [st EXCEPT ![e] = n.s]
  /\ UNCHANGED plan

Node(e) == [x |-> ep[e], s |-> st[e]]

\* The task goes on with the poll it is in, up to its next look at shared state.
Step(e) ==
  /\ st[e].pc \in {"drain", "reap", "recv", "flush", "hangup"}
  /\ Become(e, Continue(Node(e), e))

\* The application makes its next call.
Call(e, op) ==
  /\ st[e].pc = "idle"
  /\ op = "write" => st[e].written < plan[e].bytes
  /\ op = "read" => \/ plan[e].reads = "any"
                    \/ plan[e].reads = "last" /\ st[e].written = plan[e].bytes
  /\ op = "close" => st[e].written = plan[e].bytes
  /\ Become(e, Begin([Node(e) EXCEPT !.s.op = op, !.s.woken = FALSE], e))

\* The runtime polls the task again.
Wake(e) ==
  /\ st[e].pc = "parked" /\ st[e].woken
  /\ Become(e, Begin([Node(e) EXCEPT !.s.woken = FALSE], e))

\* The application drops the future of a pending call (a select or a timeout).
Cancel(e) ==
  /\ plan[e].cancels
  /\ st[e].pc = "parked"
  /\ Become(e, Return(Node(e)))

\* The application drops the stream without closing it.
DropStream(e) ==
  /\ plan[e].cancels
  /\ st[e].pc \in {"idle", "parked"}
  /\ Become(e, End(Node(e)))

-----------------------------------------------------------------------------
(* NICs and connection manager.  A waker that fires is used up.            *)

Rung(x) == Rings(x.scq) \/ Rings(x.rcq) \/ (x.listens /\ x.hangup = "queued")

Quiet(x) ==
  [x EXCEPT !.scq.watched = @ /\ ~ x.scq.event,
            !.rcq.watched = @ /\ ~ x.rcq.event,
            !.listens = @ /\ x.hangup # "queued"]

Provider(eps) ==
  /\ ep' = [e \in Side |-> Quiet(eps[e])]
  /\ st' = [e \in Side |-> [st[e] EXCEPT !.woken = @ \/ Rung(eps[e])]]
  /\ UNCHANGED plan

Deliver(e) ==
  /\ CanDeliver(ep[e], ep[Other(e)])
  /\ Provider([ep EXCEPT ![e] = Executed(@), ![Other(e)] = Delivered(ep[e], @)])

Ack(e) ==
  /\ ep[e].unacked # <<>>
  /\ Provider([ep EXCEPT ![e] = Acked(@)])

\* The peer's DREQ arrives.
Hangup(e) ==
  /\ ep[Other(e)].closed /\ ep[e].hangup = "none"
  /\ Provider([ep EXCEPT ![e].hangup = "queued"])

\* The QP fails after the peer's is gone, because a request timed out or the
\* provider tore it down with the connection.
PeerLost(e) ==
  /\ ep[e].up /\ ~ ep[Other(e)].up
  /\ Provider([ep EXCEPT ![e] = Errored(@)])

Next ==
  \E e \in Side :
    \/ Step(e)
    \/ \E op \in {"write", "read", "close"} : Call(e, op)
    \/ Wake(e)
    \/ Cancel(e)
    \/ DropStream(e)
    \/ Deliver(e)
    \/ Ack(e)
    \/ Hangup(e)
    \/ PeerLost(e)

Spec == Init /\ [][Next]_vars

-----------------------------------------------------------------------------
(* Properties                                                              *)

\* What a stream returns is what its peer wrote, byte by byte and in order,
\* through partial reads, messages drained into the stash by a blocked write,
\* and buffers reposted or reused meanwhile.
InOrder ==
  \A e \in Side :
    /\ Len(st[e].got) <= st[Other(e)].written
    /\ \A i \in DOMAIN st[e].got : st[e].got[i] = i

\* Nothing more happens unless an application acts: every task sleeps or has
\* finished, and NICs and CM are done.  The failure of a QP whose peer is gone
\* is not waited for.
Asleep(e) ==
  /\ \/ st[e].pc \in {"idle", "gone"}
     \/ st[e].pc = "parked" /\ ~ st[e].woken
  /\ ~ CanDeliver(ep[e], ep[Other(e)])
  /\ ep[e].unacked = <<>>
  /\ ~ (ep[Other(e)].closed /\ ep[e].hangup = "none")

\* The peer may rightly hold a writer back: it has not called read for longer
\* than its stash and its receive buffers last.
HeldBack(e) ==
  /\ st[Other(e)].pc \in {"idle", "parked"}
  /\ ep[Other(e)].rq = <<>>
  /\ st[Other(e)].op = "write" => Len(st[Other(e)].stash) >= StashDrainCap

\* Nobody sleeps through what they wait for: a reader is parked only while
\* nothing was sent to it, a writer or a closer only while its peer really
\* holds it back, and no waker is missed when the peer goes away.
NothingStuck ==
  (\A e \in Side : Asleep(e)) =>
    \A e \in Side :
      st[e].pc = "parked" =>
        /\ ~ ep[Other(e)].closed
        /\ st[e].op = "read" => ep[e].rcq.cqes = <<>> /\ ep[Other(e)].sq = <<>>
        /\ st[e].op \in {"write", "close"} => HeldBack(e)
=============================================================================
