----------------------------- MODULE CreditRing -----------------------------
(***************************************************************************)
(* Two CreditRingTransport endpoints (credit_ring_transport.rs).           *)
(*                                                                         *)
(* A message is an RDMA Write+Imm into the peer's receive ring; it costs   *)
(* one credit, and so does the padding marker that skips the end of the    *)
(* ring.  The receiver maps an arrived message to a virtual buffer index,  *)
(* the application releases indices in any order, and a credit returns,    *)
(* as a Send+Imm carrying the absolute freed count, only when the          *)
(* contiguous head of the arrival order advances.  Every arrival, credit   *)
(* updates included, consumes a doorbell receive WR of the peer.           *)
(***************************************************************************)
EXTENDS RingConnection

CONSTANTS
  CreditModulus,   \* 2^32: the immediate carries the freed count modulo this
  Reapers          \* the endpoints whose application keeps calling poll_send_completion

CREDIT_RING_SQ_HEADROOM == 2

\* The slots every table and queue of the transport is sized to.
MaxOutstanding ==
  ClampMaxOutstanding(Capacity, MaxMessage, MaxInFlight, CREDIT_RING_SQ_HEADROOM, DeviceLimit)

SqCapacity == MaxOutstanding + CREDIT_RING_SQ_HEADROOM

ASSUME CreditRingAssumption ==
  CreditModulus \in Nat /\ CreditModulus > MaxOutstanding /\ Reapers \subseteq Endpoint

Slot == 0 .. MaxOutstanding - 1

Credit(count) == [kind |-> "credit", freed |-> count, bytes |-> 0]

\* from_parts, after finish() has posted one doorbell per slot.
NewTransport ==
  [ credits   |-> MaxOutstanding,   \* remote_credits
    freedSeen |-> 0,                \* remote_freed_received
    freed     |-> 0,                \* local_freed_credits
    freedSent |-> 0 ]               \* credits_sent
  @@ NewRing(MaxOutstanding)

Init ==
  /\ ep = [e \in Endpoint |-> NewTransport]
  /\ app = [e \in Endpoint |-> NewApp]

-----------------------------------------------------------------------------
(* The helpers of CreditRingTransport, as functions of one endpoint.       *)

PostSend(x, wr) == [Post(x, wr) EXCEPT !.inFlight = @ + 1]

FlushCredits(x) ==
  IF x.freed > x.freedSent /\ x.inFlight < SqCapacity
  THEN PostSend([x EXCEPT !.freedSent = x.freed], Credit(x.freed % CreditModulus))
  ELSE x

\* Mutant: a credit per released buffer, whatever is still held before it.
ReleaseArrivalEager(x, arrival) == FlushCredits([x EXCEPT !.freed = @ + 1])

\* recv_tracker.release of an arrival, and the credits it returns.
ReleaseArrival(x, arrival) ==
  LET n == FreedBy(x, arrival)
      y == [Tracked(x, arrival) EXCEPT !.freed = @ + n]
  IN  IF n > 0 THEN FlushCredits(y) ELSE y

\* Padding is consumed on arrival.
TakePadding(x) ==
  ReleaseArrival([RepostDoorbell(x) EXCEPT !.arrivals = @ + 1], x.arrivals)

\* Mutant: the count last seen is not remembered.
TakeCreditForgets(x, wc) ==
  LET delta == (wc.freed - x.freedSeen) % CreditModulus
  IN  RepostDoorbell(IF delta > 0 /\ delta <= MaxOutstanding
                     THEN [x EXCEPT !.credits = @ + delta]
                     ELSE x)

\* Mutant: an update that returns the whole window is taken for an implausible one.
TakeCreditStrict(x, wc) ==
  LET delta == (wc.freed - x.freedSeen) % CreditModulus
  IN  RepostDoorbell(IF delta > 0 /\ delta < MaxOutstanding
                     THEN [x EXCEPT !.credits = @ + delta, !.freedSeen = wc.freed]
                     ELSE x)

\* A credit update carries the peer's absolute freed count; the difference to
\* the last one seen is applied only when it is plausible.
TakeCredit(x, wc) ==
  LET delta == (wc.freed - x.freedSeen) % CreditModulus
  IN  RepostDoorbell(IF delta > 0 /\ delta <= MaxOutstanding
                     THEN [x EXCEPT !.credits = @ + delta, !.freedSeen = wc.freed]
                     ELSE x)

\* drain_recv_credits: one CQ poll; data is stashed for poll_recv, and dropped
\* when no virtual index is free.
DrainRecvCredits(x) ==
  LET n == AtMost(Len(x.rcq), Batch)
      step(y, wc) ==
        IF y.dead THEN y
        ELSE CASE wc.kind = "failed"  -> [y EXCEPT !.dead = TRUE]
               [] wc.kind = "padding" -> TakePadding(y)
               [] wc.kind = "credit"  -> TakeCredit(y, wc)
               [] wc.kind = "data"    ->
                    IF FreeSlots(y) = {} THEN y
                    ELSE [MapArrival(y, wc) EXCEPT !.stash = Append(@, FirstFree(y))]
  IN  FoldLeft(step, [x EXCEPT !.rcq = SubSeq(@, n + 1, Len(@))], SubSeq(x.rcq, 1, n))

\* process_send_completions on the oldest n send CQEs.
ReapSends(x, n) ==
  LET good  == GoodSends(x, n)
      bytes == FoldLeft(LAMBDA b, wc : b + wc.bytes, 0, good)
  IN  [x EXCEPT !.head     = Release(Capacity, @, bytes),
                !.inFlight = @ - Len(good),
                !.dead     = @ \/ FailedSend(x, n) # 0,
                !.scq      = SubSeq(@, n + 1, Len(@))]

-----------------------------------------------------------------------------
(* send_copy / send_gather                                                 *)

\* The early returns with Ok(0) that follow the credit check.
Accepts(x, len) ==
  /\ x.credits > 0
  /\ x.inFlight + 2 <= SqCapacity
  /\ Room(x, len).ok
  /\ Room(x, len).padding > 0 => x.credits >= 2

PostPadding(x) ==
  [PostSend(x, Padding(x.remoteTail)) EXCEPT !.credits = @ - 1, !.remoteTail = 0]

\* wr_id = padding + data length is what the completion will release.
PostData(x, id, len, padding) ==
  [PostSend(x, Data(id, x.remoteTail, len, padding))
     EXCEPT !.credits = @ - 1, !.remoteTail = (@ + len) % Capacity]

Posted(x, id, len) ==
  LET r == Room(x, len)
      y == [x EXCEPT !.tail = r.tail]
  IN  PostData(IF r.padding > 0 THEN PostPadding(y) ELSE y, id, Clamped(len), r.padding)

\* Without credits the call first drains the receive CQ for credit updates.
SendCopy(e, len) ==
  LET x == IF ep[e].credits = 0 THEN DrainRecvCredits(ep[e]) ELSE ep[e]
  IN  /\ app[e].state = "open"
      /\ ~ ep[e].dead
      /\ app[e].sent < Quota[e]
      /\ \/ /\ Accepts(x, len)
            /\ ep' = [ep EXCEPT ![e] = Posted(x, app[e].sent + 1, len)]
            /\ app' = [app EXCEPT ![e].sent = @ + 1]
         \/ /\ ~ Accepts(x, len)
            /\ ep' = [ep EXCEPT ![e] = x]
            /\ UNCHANGED app

PollSendCompletion(e) ==
  LET n == AtMost(Len(ep[e].scq), Batch)
      x == ReapSends(ep[e], n)
  IN  /\ app[e].state = "open"
      /\ n > 0
      /\ IF FailedSend(ep[e], n) # 0
         THEN /\ ep' = [ep EXCEPT ![e] = x]
              /\ app' = [app EXCEPT ![e].state = "sendFailed"]
         ELSE /\ ep' = [ep EXCEPT ![e] = FlushCredits(x)]
              /\ UNCHANGED app

-----------------------------------------------------------------------------
(* poll_recv and repost_recv                                               *)

\* Mutant: the newest completion goes to the front of the caller's slice.
TakeCompletionReorders(acc, wc) ==
  CASE acc.failed \/ wc.kind = "failed" -> [acc EXCEPT !.x.dead = TRUE, !.failed = TRUE]
    [] wc.kind = "credit"  -> [acc EXCEPT !.x = TakeCredit(@, wc)]
    [] wc.kind = "padding" -> [acc EXCEPT !.x = TakePadding(@)]
    [] OTHER -> [acc EXCEPT !.x = MapArrival(@, wc), !.out = <<FirstFree(acc.x)>> \o @]

\* One receive CQE inside poll_recv; `out' collects the buffer indices for the
\* caller, the rest is stashed.
TakeCompletion(acc, wc) ==
  LET fail == [acc EXCEPT !.x.dead = TRUE, !.failed = TRUE]
      data == MapArrival(acc.x, wc)
      idx  == FirstFree(acc.x)
  IN  CASE acc.failed          -> acc
        [] wc.kind = "failed"  -> fail
        [] wc.kind = "credit"  -> [acc EXCEPT !.x = TakeCredit(@, wc)]
        [] OutOfBounds(wc)     -> fail
        [] wc.kind = "padding" -> [acc EXCEPT !.x = TakePadding(@)]
        [] FreeSlots(acc.x) = {} -> fail
        [] Len(acc.out) < OutLen -> [acc EXCEPT !.x = data, !.out = Append(@, idx)]
        [] OTHER -> [acc EXCEPT !.x = [data EXCEPT !.stash = Append(@, idx)]]

\* poll_recv: the stash first; then, if the caller's slice has room left, reap
\* the send CQ, flush a deferred credit update and reap the receive CQ.
RecvOutcome(x) ==
  LET k       == AtMost(Len(x.stash), OutLen)
      out     == SubSeq(x.stash, 1, k)
      y       == [x EXCEPT !.stash = SubSeq(@, k + 1, Len(@))]
      reaped  == ReapSends(y, Len(y.scq))
      flushed == FlushCredits(reaped)
      n       == Reaped(flushed, k)
  IN  IF k = OutLen THEN [x |-> y, out |-> out, failed |-> FALSE]
      ELSE IF FailedSend(y, Len(y.scq)) # 0
           THEN [x |-> [reaped EXCEPT !.dead = TRUE], out |-> out, failed |-> TRUE]
           ELSE FoldLeft(TakeCompletion,
                         [x |-> [flushed EXCEPT !.rcq = SubSeq(@, n + 1, Len(@))],
                          out |-> out, failed |-> FALSE],
                         SubSeq(flushed.rcq, 1, n))

PollRecv(e) == Polled(e, RecvOutcome(ep[e]))

\* Mutant: the virtual index is not freed.
RepostRecvLeaks(e, idx) ==
  /\ app[e].state = "open"
  /\ idx \in app[e].held
  /\ ep' = [ep EXCEPT ![e] = ReleaseArrival(RepostDoorbell(@), @.slots[idx].arrival)]
  /\ app' = [app EXCEPT ![e].held = @ \ {idx}, ![e].parked = FALSE]

\* repost_recv, by an application free to release buffers in any order.
RepostRecv(e, idx) ==
  /\ app[e].state = "open"
  /\ idx \in app[e].held
  /\ ep' = [ep EXCEPT ![e] =
              ReleaseArrival(RepostDoorbell([@ EXCEPT !.slots[idx] = Free]),
                             @.slots[idx].arrival)]
  /\ app' = [app EXCEPT ![e].held = @ \ {idx}, ![e].parked = FALSE]

Next ==
  \E e \in Endpoint :
    \/ \E len \in SendLens : SendCopy(e, len)
    \/ SendCopyFails(e)
    \/ PollSendCompletion(e)
    \/ PollRecv(e)
    \/ \E idx \in app[e].held : RepostRecv(e, idx)
    \/ Deliver(e)
    \/ Ack(e)
    \/ Disconnect(e)
    \/ PeerLost(e)

Spec == Init /\ [][Next]_vars

\* Weak fairness of the actions below, with ENABLED written out: each of these
\* conditions implies that the action can be taken and changes the state.
MustSend(e, len) ==
  /\ app[e].state = "open" /\ ~ ep[e].dead /\ app[e].sent < Quota[e]
  /\ \/ Accepts(ep[e], len)
     \/ ep[e].credits = 0 /\ ep[e].rcq # <<>>

MustReap(e) == app[e].state = "open" /\ ep[e].scq # <<>>

AppFairness(e) ==
  /\ \A len \in SendLens : []<>(~ MustSend(e, len)) \/ []<><<SendCopy(e, len)>>_vars
  /\ []<>(~ MustPoll(e)) \/ []<><<PollRecv(e)>>_vars
  /\ \A idx \in Slot : []<>(~ MustRepost(e, idx)) \/ []<><<RepostRecv(e, idx)>>_vars

\* An application that only reads need not call poll_send_completion.
SenderFairness(e) ==
  e \in Reapers => []<>(~ MustReap(e)) \/ []<><<PollSendCompletion(e)>>_vars

FairSpec ==
  Spec /\ \A e \in Endpoint : AppFairness(e) /\ SenderFairness(e) /\ NicFairness(e)

-----------------------------------------------------------------------------
(* Properties                                                              *)

TypeOK ==
  \A e \in Endpoint :
    LET x == ep[e]
    IN  /\ IsRing(x)
        /\ {x.credits, x.freed, x.freedSent} \subseteq Nat
        /\ x.freedSeen \in 0 .. CreditModulus - 1
        /\ IsApp(app[e], Quota[e], Slot)

\* Flow control is exact on both sides, whatever is in flight.
\*  - Credits are neither lost nor made: what the sender holds, what it has spent
\*    on messages not yet freed, and what is on its way back add up to the window.
\*  - No doorbell leaks: every receive WR is posted, waiting in the CQ, or will be
\*    reposted when its message is released.
\*  - send_in_flight is the number of send WRs whose completion was not reaped,
\*    and the send queue is deep enough for them: post_send never fails for lack
\*    of room (docs/bugs/ring-send-queue-exhaustion.md).
FlowControlExact ==
  \A e \in Endpoint :
    LET s == ep[e]
        r == ep[Peer(e)]
    IN  /\ s.up /\ r.up =>
             s.credits + Len(Only(s.sq \o r.rcq, {"data", "padding"})) + (r.arrivals - r.freed)
               + ((r.freed - s.freedSeen) % CreditModulus) = MaxOutstanding
        /\ s.up =>
             s.doorbells + Len(s.rcq) + MaxOutstanding - Cardinality(FreeSlots(s)) = MaxOutstanding
        /\ s.up => s.inFlight = Len(s.sq) + Len(s.unacked) + Len(s.scq)
        /\ s.inFlight <= SqCapacity
=============================================================================
