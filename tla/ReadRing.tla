------------------------------ MODULE ReadRing ------------------------------
(***************************************************************************)
(* Two ReadRingTransport endpoints (read_ring_transport.rs).               *)
(*                                                                         *)
(* A message is an RDMA Write+Imm into the peer's receive ring, as in      *)
(* CreditRing, but the receiver returns no credits: it publishes the head  *)
(* of its ring in an offset buffer, and the sender fetches that head with  *)
(* an RDMA Read when it runs low on space.  The doorbell of a message is   *)
(* posted again as soon as its completion is reaped.                       *)
(***************************************************************************)
EXTENDS RingConnection

CONSTANT MinFree   \* min_free_threshold

ASSUME ReadRingAssumption == MinFree \in Nat

READ_RING_SQ_HEADROOM == 3

SEND_COPY_MAX_WRS == 3

MaxOutstanding ==
  ClampMaxOutstanding(Capacity, MaxMessage, MaxInFlight, READ_RING_SQ_HEADROOM, DeviceLimit)

SqCapacity == MaxOutstanding + READ_RING_SQ_HEADROOM

Slot == 0 .. MaxOutstanding - 1

\* from_parts, after finish() has posted one doorbell per slot.  head_slot_idx
\* always equals recv_tracker.head_slot.
NewTransport ==
  [ cachedHead |-> 0,                     \* cached_remote_head
    reading    |-> FALSE,                 \* read_in_flight
    recvHead   |-> 0,                     \* recv_ring.head and the offset buffer
    lens       |-> [s \in Slot |-> 0] ]   \* slot_lengths
  @@ NewRing(MaxOutstanding)

Init ==
  /\ ep = [e \in Endpoint |-> NewTransport]
  /\ app = [e \in Endpoint |-> NewApp]

-----------------------------------------------------------------------------
(* send_copy / send_gather                                                 *)

\* remote_free_space
RemoteFree(x) == AtLeast(Capacity - (Used(Capacity, x.cachedHead, x.remoteTail) + 1), 0)

\* post_offset_read, unless one is in flight.
Refresh(x) ==
  IF x.reading THEN x ELSE [Post(x, [kind |-> "read"]) EXCEPT !.reading = TRUE]

SqUsed(x) == x.inFlight + (IF x.reading THEN 1 ELSE 0)

DoorbellBlocked(x) == SqUsed(x) + SEND_COPY_MAX_WRS > MaxOutstanding

ByteBlocked(x, len) == RemoteFree(x) < Clamped(len) + MinFree

\* The wrapped message does not fit with its padding; the reservation is undone.
PaddingBlocked(x, len) ==
  /\ Room(x, len).ok
  /\ Room(x, len).padding > 0
  /\ RemoteFree(x) < Room(x, len).padding + Clamped(len) + MinFree

Blocked(x, len) == DoorbellBlocked(x) \/ ByteBlocked(x, len) \/ PaddingBlocked(x, len)

PostWrite(x, wr, remoteTail) ==
  [Post(x, wr) EXCEPT !.inFlight = @ + 1, !.remoteTail = remoteTail]

Posted(x, id, len) ==
  LET r      == Room(x, len)
      n      == Clamped(len)
      y      == [x EXCEPT !.tail = r.tail]
      padded == IF r.padding > 0 THEN PostWrite(y, Padding(y.remoteTail), 0) ELSE y
      z      == PostWrite(padded, Data(id, padded.remoteTail, n, r.padding),
                          (padded.remoteTail + n) % Capacity)
  IN  IF RemoteFree(z) < 2 * n + MinFree THEN Refresh(z) ELSE z

SendCopy(e, len) ==
  LET x == ep[e]
  IN  /\ app[e].state = "open"
      /\ ~ x.dead
      /\ app[e].sent < Quota[e]
      /\ \/ /\ ~ Blocked(x, len) /\ Room(x, len).ok
            /\ ep' = [ep EXCEPT ![e] = Posted(x, app[e].sent + 1, len)]
            /\ app' = [app EXCEPT ![e].sent = @ + 1]
         \/ /\ Blocked(x, len)
            /\ ep' = [ep EXCEPT ![e] = Refresh(x)]
            /\ UNCHANGED app

\* Mutant: the completion of a Read does not clear read_in_flight.
TakeSentStale(x, wc) ==
  IF wc.kind = "read"
  THEN [x EXCEPT !.cachedHead = wc.head]
  ELSE [x EXCEPT !.head = Release(Capacity, @, wc.bytes), !.inFlight = @ - 1]

\* One send CQE: a Read brings the peer's head, a Write frees its send ring bytes.
TakeSent(x, wc) ==
  IF wc.kind = "read"
  THEN [x EXCEPT !.cachedHead = wc.head, !.reading = FALSE]
  ELSE [x EXCEPT !.head = Release(Capacity, @, wc.bytes), !.inFlight = @ - 1]

PollSendCompletion(e) ==
  LET n == AtMost(Len(ep[e].scq), Batch)
      x == FoldLeft(TakeSent, [ep[e] EXCEPT !.scq = SubSeq(@, n + 1, Len(@))],
                    GoodSends(ep[e], n))
  IN  /\ app[e].state = "open"
      /\ n > 0
      /\ IF FailedSend(ep[e], n) # 0
         THEN /\ ep' = [ep EXCEPT ![e] = [x EXCEPT !.dead = TRUE]]
              /\ app' = [app EXCEPT ![e].state = "sendFailed"]
         ELSE /\ ep' = [ep EXCEPT ![e] = x]
              /\ UNCHANGED app

-----------------------------------------------------------------------------
(* poll_recv and repost_recv                                               *)

\* Mutant: the head advances by the released message, whatever is held before it.
ReleaseArrivalEager(x, arrival) ==
  [x EXCEPT !.recvHead = Release(Capacity, @, x.lens[arrival % MaxOutstanding])]

\* recv_tracker.release of an arrival, and advance_recv_head over the lengths
\* of the slots the chase has freed.
ReleaseArrival(x, arrival) ==
  LET n     == FreedBy(x, arrival)
      bytes == FoldLeft(LAMBDA b, i : b + x.lens[(x.headSlot + i - 1) % MaxOutstanding],
                        0, [i \in 1 .. n |-> i])
  IN  [Tracked(x, arrival) EXCEPT !.recvHead = Release(Capacity, @, bytes)]

\* Padding fills the ring from its offset to the end, and is consumed on arrival.
TakePadding(x, wc) ==
  ReleaseArrival([RepostDoorbell(x) EXCEPT !.arrivals = @ + 1,
                                           !.lens[x.arrivals % MaxOutstanding] = Capacity - wc.off],
                 x.arrivals)

TakeData(x, wc) ==
  RepostDoorbell([MapArrival(x, wc) EXCEPT !.lens[x.arrivals % MaxOutstanding] = wc.len])

\* Mutant: data beyond the caller's slice is not stashed.
TakeCompletionDrops(acc, wc) ==
  CASE acc.failed \/ wc.kind = "failed" -> [acc EXCEPT !.x.dead = TRUE, !.failed = TRUE]
    [] wc.kind = "padding" -> [acc EXCEPT !.x = TakePadding(@, wc)]
    [] OTHER -> [acc EXCEPT !.x = TakeData(@, wc),
                            !.out = IF Len(@) < OutLen THEN Append(@, FirstFree(acc.x)) ELSE @]

\* One receive CQE inside poll_recv; `out' collects the buffer indices for the
\* caller, the rest is stashed.
TakeCompletion(acc, wc) ==
  LET fail == [acc EXCEPT !.x.dead = TRUE, !.failed = TRUE]
      data == TakeData(acc.x, wc)
      idx  == FirstFree(acc.x)
  IN  CASE acc.failed            -> acc
        [] wc.kind = "failed"    -> fail
        [] OutOfBounds(wc)       -> fail
        [] wc.kind = "padding"   -> [acc EXCEPT !.x = TakePadding(@, wc)]
        [] FreeSlots(acc.x) = {} -> fail
        [] Len(acc.out) < OutLen -> [acc EXCEPT !.x = data, !.out = Append(@, idx)]
        [] OTHER -> [acc EXCEPT !.x = [data EXCEPT !.stash = Append(@, idx)]]

\* poll_recv: the stash first; then, if the caller's slice has room left, the
\* receive CQ.
RecvOutcome(x) ==
  LET k   == AtMost(Len(x.stash), OutLen)
      out == SubSeq(x.stash, 1, k)
      y   == [x EXCEPT !.stash = SubSeq(@, k + 1, Len(@))]
      n   == Reaped(y, k)
  IN  IF k = OutLen THEN [x |-> y, out |-> out, failed |-> FALSE]
      ELSE FoldLeft(TakeCompletion,
                    [x |-> [y EXCEPT !.rcq = SubSeq(@, n + 1, Len(@))],
                     out |-> out, failed |-> FALSE],
                    SubSeq(y.rcq, 1, n))

PollRecv(e) == Polled(e, RecvOutcome(ep[e]))

\* Mutant: the virtual index is not freed.
RepostRecvLeaks(e, idx) ==
  /\ app[e].state = "open"
  /\ idx \in app[e].held
  /\ ep' = [ep EXCEPT ![e] = ReleaseArrival(@, @.slots[idx].arrival)]
  /\ app' = [app EXCEPT ![e].held = @ \ {idx}, ![e].parked = FALSE]

\* repost_recv only advances the head: the doorbell is already posted again.
RepostRecv(e, idx) ==
  /\ app[e].state = "open"
  /\ idx \in app[e].held
  /\ ep' = [ep EXCEPT ![e] = ReleaseArrival([@ EXCEPT !.slots[idx] = Free], @.slots[idx].arrival)]
  /\ app' = [app EXCEPT ![e].held = @ \ {idx}, ![e].parked = FALSE]

\* The RDMA Read executes after the writes posted before it, and samples the
\* peer's offset buffer; it needs no doorbell.
ExecuteRead(e) ==
  LET p == Peer(e)
  IN  /\ ep[e].up
      /\ ep[p].up
      /\ ep[e].sq # <<>>
      /\ Head(ep[e].sq).kind = "read"
      /\ ep' = [ep EXCEPT ![e] = Executed(@, [kind |-> "read", head |-> ep[p].recvHead])]
      /\ UNCHANGED app

Next ==
  \E e \in Endpoint :
    \/ \E len \in SendLens : SendCopy(e, len)
    \/ SendCopyFails(e)
    \/ PollSendCompletion(e)
    \/ PollRecv(e)
    \/ \E idx \in app[e].held : RepostRecv(e, idx)
    \/ Deliver(e)
    \/ ExecuteRead(e)
    \/ Ack(e)
    \/ Disconnect(e)
    \/ PeerLost(e)

Spec == Init /\ [][Next]_vars

\* Weak fairness, with ENABLED written out as in CreditRing.
MustSend(e, len) ==
  /\ app[e].state = "open" /\ ~ ep[e].dead /\ app[e].sent < Quota[e]
  /\ IF Blocked(ep[e], len) THEN ~ ep[e].reading ELSE Room(ep[e], len).ok

MustReap(e) == app[e].state = "open" /\ ep[e].scq # <<>>

AppFairness(e) ==
  /\ \A len \in SendLens : []<>(~ MustSend(e, len)) \/ []<><<SendCopy(e, len)>>_vars
  /\ []<>(~ MustPoll(e)) \/ []<><<PollRecv(e)>>_vars
  /\ \A idx \in Slot : []<>(~ MustRepost(e, idx)) \/ []<><<RepostRecv(e, idx)>>_vars
  /\ Quota[e] > 0 => []<>(~ MustReap(e)) \/ []<><<PollSendCompletion(e)>>_vars

FairSpec ==
  /\ Spec
  /\ \A e \in Endpoint : AppFairness(e) /\ NicFairness(e) /\ WF_vars(ExecuteRead(e))

-----------------------------------------------------------------------------
(* Properties                                                              *)

TypeOK ==
  \A e \in Endpoint :
    LET x == ep[e]
    IN  /\ IsRing(x)
        /\ {x.cachedHead, x.recvHead} \subseteq 0 .. Capacity - 1
        /\ x.reading \in BOOLEAN
        /\ x.lens \in [Slot -> 0 .. Capacity]
        /\ IsApp(app[e], Quota[e], Slot)
=============================================================================
