--------------------------- MODULE RingConnection ---------------------------
(***************************************************************************)
(* What CreditRingTransport and ReadRingTransport have in common: two      *)
(* endpoints that write messages into each other's receive ring over one   *)
(* RC connection, the tables that map an arrived message to a virtual      *)
(* buffer index, the queue pairs, and the applications.                    *)
(*                                                                         *)
(* Each method of the Transport trait is one action: it takes &mut self    *)
(* and never awaits, so the peer and the NICs run between calls only.      *)
(***************************************************************************)
EXTENDS RingOps, SequencesExt

CONSTANTS
  Capacity,        \* ring_capacity, the same on both sides
  MaxMessage,      \* max_message_size
  MaxInFlight,     \* the Option max_in_flight: {} or {n}
  DeviceLimit,     \* min(max_qp_wr, max_cqe)
  Batch,           \* work completions reaped by one CQ poll (8 in the code)
  OutLen,          \* length of the slice the application gives poll_recv
  SendLens,        \* lengths the applications try to send
  Quota,           \* per endpoint, how many messages its application sends
  HoldLimit,       \* an application holding this many buffers does not poll
  DelayedAcks,     \* may a send CQE appear later than the peer's receive CQE?
  MayDisconnect    \* may an application close the connection?

Endpoint == {1, 2}

Peer(e) == 3 - e

ASSUME RingConnectionAssumption ==
  /\ {Capacity, MaxMessage, DeviceLimit, Batch, OutLen, HoldLimit} \subseteq Nat \ {0}
  /\ MaxInFlight \subseteq Nat
  /\ SendLens \subseteq Nat \ {0}
  /\ Quota \in [Endpoint -> Nat]
  /\ {DelayedAcks, MayDisconnect} \subseteq BOOLEAN

VARIABLES
  ep,    \* the transport of each endpoint together with its queue pair
  app    \* the application that owns the transport

vars == <<ep, app>>

Free == [id |-> 0]   \* a None entry of virtual_idx_map

\* Write+Imm requests, and the receive completions they cause at the peer.
\* `bytes' is the part of the send ring the completion of a request releases
\* (wr_id = padding + data length).
Data(id, off, len, padding) ==
  [kind |-> "data", id |-> id, off |-> off, len |-> len, bytes |-> padding + len]

Padding(off) == [kind |-> "padding", off |-> off, bytes |-> 0]

Failed == [kind |-> "failed"]

\* What from_parts sets up in both transports, for n = max_outstanding slots.
NewRing(n) ==
  [ inFlight   |-> 0,                             \* send_in_flight
    head       |-> 0,                             \* send_ring.head
    tail       |-> 0,                             \* send_ring.tail
    remoteTail |-> 0,                             \* remote_write_tail
    slots      |-> [s \in 0 .. n - 1 |-> Free],   \* virtual_idx_map
    nextSlot   |-> 0,                             \* next_virt_idx
    arrivals   |-> 0,                             \* recv_arrival_seq
    stash      |-> <<>>,                          \* recv_stash, of buffer indices
    released   |-> [s \in 0 .. n - 1 |-> FALSE],  \* recv_tracker.released
    headSlot   |-> 0,                             \* recv_tracker.head_slot
    dead       |-> FALSE,                         \* peer_disconnected
    up         |-> TRUE,                          \* the QP is in RTS, not ERROR
    sq         |-> <<>>,                          \* posted sends not yet executed
    unacked    |-> <<>>,                          \* executed, no send CQE yet
    scq        |-> <<>>,                          \* send CQEs
    rcq        |-> <<>>,                          \* receive CQEs
    doorbells  |-> n ]                            \* receive WRs posted

NewApp ==
  [ sent   |-> 0,       \* messages send_copy accepted
    got    |-> <<>>,    \* ids poll_recv returned, in order
    held   |-> {},      \* buffer indices not yet given to repost_recv
    parked |-> FALSE,   \* the last poll_recv returned Pending
    state  |-> "open" ] \* how the application stopped using the transport

-----------------------------------------------------------------------------
(* One endpoint                                                            *)

\* post_send: a QP in ERROR accepts the request and flushes it.
Post(x, wr) == IF x.up THEN [x EXCEPT !.sq = Append(@, wr)]
                       ELSE [x EXCEPT !.scq = Append(@, Failed)]

RepostDoorbell(x) == IF x.up THEN [x EXCEPT !.doorbells = @ + 1] ELSE x

Slots(x) == Cardinality(DOMAIN x.slots)

\* recv_tracker.release of an arrival: how many slots it frees, and the tracker
\* it leaves.
FreedBy(x, arrival) == Chased(Slots(x), x.released, x.headSlot, arrival % Slots(x))

Tracked(x, arrival) ==
  [x EXCEPT !.released = TrackerFlags(Slots(x), @, x.headSlot, arrival % Slots(x)),
            !.headSlot = (@ + FreedBy(x, arrival)) % Slots(x)]

\* The search for a free virtual index, round robin from next_virt_idx.
FreeSlots(x) == {k \in DOMAIN x.slots : x.slots[(x.nextSlot + k) % Slots(x)] = Free}

FirstFree(x) ==
  (x.nextSlot + CHOOSE k \in FreeSlots(x) : \A j \in FreeSlots(x) : k <= j) % Slots(x)

MapArrival(x, wc) ==
  [x EXCEPT !.slots[FirstFree(x)] =
              [id |-> wc.id, off |-> wc.off, len |-> wc.len, arrival |-> x.arrivals],
            !.nextSlot = (FirstFree(x) + 1) % Slots(x),
            !.arrivals = @ + 1]

\* The length send_gather tries to place (the 16-bit limit of the immediate is
\* above every modelled length), and where.
Clamped(len) == AtMost(AtMost(len, MaxMessage), Capacity)

Room(x, len) == Reserve(Capacity, x.head, x.tail, Clamped(len))

\* The oldest n send CQEs, up to the first failed one.
FailedSend(x, n) == SelectInSubSeq(x.scq, 1, n, LAMBDA wc : wc = Failed)

GoodSends(x, n) ==
  SubSeq(x.scq, 1, IF FailedSend(x, n) = 0 THEN n ELSE FailedSend(x, n) - 1)

\* CQEs poll_recv takes off the receive CQ: whole batches, as long as there is
\* nothing to return and a batch held only padding.
Reaped(x, filled) ==
  LET stop == SelectInSeq(x.rcq, LAMBDA wc : wc.kind # "padding")
      last == IF filled > 0 THEN 1 ELSE IF stop = 0 THEN Len(x.rcq) ELSE stop
  IN  AtMost(Len(x.rcq), Batch * ((last + Batch - 1) \div Batch))

OutOfBounds(wc) ==
  \/ wc.off >= Capacity
  \/ wc.kind = "data" /\ wc.off + wc.len > Capacity

\* What the application sees of a poll_recv with outcome r: the transport r.x,
\* the buffer indices r.out, or an error (and then no count: whatever the call
\* had already placed in the caller's slice is lost).
Polled(e, r) ==
  LET ids == [i \in DOMAIN r.out |-> r.x.slots[r.out[i]].id]
  IN  /\ app[e].state = "open"
      /\ Cardinality(app[e].held) < HoldLimit
      /\ ep' = [ep EXCEPT ![e] = r.x]
      /\ IF r.failed
         THEN app' = [app EXCEPT ![e].state = "recvFailed"]
         ELSE app' = [app EXCEPT ![e].got = @ \o ids,
                                 ![e].held = @ \cup ToSet(r.out),
                                 ![e].parked = /\ r.out = <<>>
                                                /\ \A wc \in ToSet(ep[e].rcq) : wc.kind = "padding"]

\* Sending on a connection known to be dead fails, and the application gives up.
SendCopyFails(e) ==
  /\ app[e].state = "open"
  /\ ep[e].dead
  /\ app' = [app EXCEPT ![e].state = "sendFailed"]
  /\ UNCHANGED ep

-----------------------------------------------------------------------------
(* The queue pairs: an RC connection executes requests in order; a write   *)
(* whose receiver has no doorbell posted waits (rnr_retry is infinite).    *)

\* The oldest request is executed; its send CQE appears with it, or later.
Executed(x, cqe) ==
  [x EXCEPT !.sq      = Tail(@),
            !.unacked = IF DelayedAcks THEN Append(@, cqe) ELSE @,
            !.scq     = IF DelayedAcks THEN @ ELSE Append(@, cqe)]

Deliver(e) ==
  LET p == Peer(e)
  IN  /\ ep[e].up
      /\ ep[p].up
      /\ ep[e].sq # <<>>
      /\ Head(ep[e].sq).kind # "read"
      /\ ep[p].doorbells > 0
      /\ ep' = [ep EXCEPT ![e] = Executed(@, [kind |-> "sent", bytes |-> Head(@.sq).bytes]),
                          ![p].rcq = Append(@, Head(ep[e].sq)),
                          ![p].doorbells = @ - 1]
      /\ UNCHANGED app

Ack(e) ==
  /\ ep[e].unacked # <<>>
  /\ ep' = [ep EXCEPT ![e].unacked = Tail(@), ![e].scq = Append(@, Head(ep[e].unacked))]
  /\ UNCHANGED app

\* The QP enters ERROR: what is posted completes with a flush error.
Errored(x) ==
  [x EXCEPT !.up = FALSE, !.sq = <<>>, !.unacked = <<>>, !.doorbells = 0,
            !.scq = IF Len(x.sq \o x.unacked) > 0 THEN Append(@, Failed) ELSE @,
            !.rcq = IF x.doorbells > 0 THEN Append(@, Failed) ELSE @]

\* disconnect(), by an application that first drained its sends (poll_close).
Disconnect(e) ==
  /\ MayDisconnect
  /\ app[e].state = "open"
  /\ ep[e].inFlight = 0
  /\ ep' = [ep EXCEPT ![e] = Errored(@)]
  /\ app' = [app EXCEPT ![e].state = "disconnected"]

\* The disconnect reaches the peer's QP, or its requests time out against ours.
PeerLost(e) ==
  /\ ep[e].up
  /\ ~ ep[Peer(e)].up
  /\ ep' = [ep EXCEPT ![e] = Errored(@)]
  /\ UNCHANGED app

\* Fairness.  An application hands every buffer back, and polls for messages
\* when its last poll did not park, or the receive CQ (or a stash left by the
\* send path) has woken it.
MustPoll(e) ==
  /\ app[e].state = "open"
  /\ Cardinality(app[e].held) < HoldLimit
  /\ ~ app[e].parked \/ ep[e].rcq # <<>> \/ ep[e].stash # <<>>

MustRepost(e, idx) == app[e].state = "open" /\ idx \in app[e].held

NicFairness(e) == WF_vars(Deliver(e)) /\ WF_vars(Ack(e))

-----------------------------------------------------------------------------
(* Properties of both transports                                           *)

IsRing(x) ==
  /\ {x.inFlight, x.arrivals, x.doorbells} \subseteq Nat
  /\ {x.head, x.tail, x.remoteTail} \subseteq 0 .. Capacity - 1
  /\ \A s \in DOMAIN x.slots : x.slots[s] = Free \/ x.slots[s].id > 0
  /\ x.stash \in Seq(DOMAIN x.slots)
  /\ x.released \in [DOMAIN x.slots -> BOOLEAN]
  /\ {x.nextSlot, x.headSlot} \subseteq DOMAIN x.slots
  /\ {x.dead, x.up} \subseteq BOOLEAN

IsApp(a, quota, slots) ==
  /\ a.sent \in 0 .. quota
  /\ a.held \subseteq slots
  /\ a.state \in {"open", "sendFailed", "recvFailed", "disconnected"}

Only(q, kinds) == SelectSeq(q, LAMBDA wc : wc.kind \in kinds)

\* The messages whose bytes are still needed in the receive ring of e: posted
\* by the peer, reported but not reaped, or mapped and not yet reposted.
Unreleased(e) ==
       ToSet(Only(ep[Peer(e)].sq \o ep[e].rcq, {"data"}))
  \cup {ep[e].slots[s] : s \in {t \in DOMAIN ep[e].slots : ep[e].slots[t] # Free}}

\* No RDMA Write is ever posted over bytes of the peer's ring that its
\* application has not released, in whatever order it releases buffers
\* (docs/bugs/credit-ring-ooo-overwrite.md).
NoOverwrite ==
  \A e \in Endpoint : \A m, n \in Unreleased(e) :
    m.id < n.id => m.off + m.len <= n.off \/ n.off + n.len <= m.off

\* The transport keeps the promise of MessageChannel: a message is delivered
\* once, in order and never dropped.  On the wire to e are its stash, the data
\* in its receive CQ and the data its peer has posted.
InFlightIds(e) ==
  LET x     == ep[e]
      wired == Only(x.rcq \o ep[Peer(e)].sq, {"data"})
  IN  [i \in DOMAIN x.stash |-> x.slots[x.stash[i]].id] \o [i \in DOMAIN wired |-> wired[i].id]

Channel == INSTANCE MessageChannel WITH
  accepted <- [e \in Endpoint |-> app[e].sent],
  wire     <- [e \in Endpoint |-> IF app[e].state = "open" THEN InFlightIds(e) ELSE <<>>],
  got      <- [e \in Endpoint |-> app[e].got],
  broken   <- [e \in Endpoint |-> ~ (ep[1].up /\ ep[2].up) \/ app[e].state # "open"]

\* The transport implements MessageChannel: what send_copy accepted, poll_recv
\* of the peer returns once and in order, up to the break of the connection.
ImplementsChannel == Channel!Spec

\* Flow control always lets the sender go on: every application gets its whole
\* quota across unless a side disconnects.  So the out-of-bounds and map-exhausted
\* errors of poll_recv, which would end a connection nobody closed, are unreachable.
EverythingArrives ==
  <>(\/ \A e \in Endpoint : Len(app[Peer(e)].got) = Quota[e]
     \/ \E e \in Endpoint : ~ ep[e].up)
=============================================================================
