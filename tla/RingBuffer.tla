----------------------------- MODULE RingBuffer -----------------------------
(***************************************************************************)
(* The life of one RingBuffer as the ring transports use their send_ring:  *)
(* send_gather reserves space for a message (skipping the end of the ring  *)
(* with padding when it has to wrap), and each send completion, which an   *)
(* RC queue pair reports in posting order, releases the oldest             *)
(* reservation with its padding.                                           *)
(***************************************************************************)
EXTENDS RingOps, Sequences

CONSTANT Capacity   \* ring_capacity, not zero

VARIABLES
  head,   \* RingBuffer.head
  tail,   \* RingBuffer.tail
  live    \* the reservations not yet released, oldest first

vars == <<head, tail, live>>

Extent == [offset : Nat, len : Nat, padding : Nat]

Init ==
  /\ head = 0
  /\ tail = 0
  /\ live = <<>>

\* A send_gather whose reserve() succeeds.  When the caller cannot pay for the
\* padding it puts the tail back at Capacity - padding, the value it had: that
\* call changes nothing.
ReserveBytes(len) ==
  LET r == Reserve(Capacity, head, tail, len)
  IN  /\ r.ok
      /\ tail' = r.tail
      /\ live' = Append(live, [offset |-> r.offset, len |-> len, padding |-> r.padding])
      /\ UNCHANGED head

\* The completion of the oldest data WR: its wr_id is padding + data length.
ReleaseOldest ==
  /\ live # <<>>
  /\ head' = Release(Capacity, head, live[1].padding + live[1].len)
  /\ live' = Tail(live)
  /\ UNCHANGED tail

Next == ReleaseOldest \/ \E len \in 1 .. Capacity : ReserveBytes(len)

Spec == Init /\ [][Next]_vars

-----------------------------------------------------------------------------
TypeOK ==
  /\ head \in 0 .. Capacity - 1
  /\ tail \in 0 .. Capacity - 1
  /\ live \in Seq(Extent)

Disjoint(x, y) == x.offset + x.len <= y.offset \/ y.offset + y.len <= x.offset

\* The bytes of a message that is still being sent are never handed to another
\* message: RingBuffer::reserve only returns space no unreleased reservation
\* covers, and every reservation lies inside the ring.
NoOverlap ==
  /\ \A i \in 1 .. Len(live) : live[i].offset + live[i].len <= Capacity
  /\ \A i, j \in 1 .. Len(live) : i < j => Disjoint(live[i], live[j])

\* RingBuffer::used never confuses a full ring with an empty one: head meets
\* tail exactly when nothing is reserved.
EmptyIffDrained == head = tail <=> live = <<>>

\* Once everything in flight has completed, send_gather can place any message
\* of at most half the ring, wherever the head stopped: Ok(0) is transient.
DrainedRingAccepts ==
  live = <<>> =>
    \A len \in 1 .. Capacity :
      2 * len <= Capacity => Reserve(Capacity, head, tail, len).ok

-----------------------------------------------------------------------------
(* The inductive invariant: unrolled from the head, the reservations tile  *)
(* the ring up to the tail.                                                *)

\* Where an offset lies when the ring is unrolled from its head.
Unrolled(offset) == IF offset < head THEN offset + Capacity ELSE offset

Start(i) == Unrolled(live[i].offset)

End(i) == Start(i) + live[i].len

\* A reservation is not empty, stays inside the ring, and is not split by its end.
Whole ==
  \A i \in 1 .. Len(live) : live[i].len > 0 /\ live[i].offset + live[i].len <= Capacity

Tiled ==
  /\ live # <<>> => Start(1) = head + live[1].padding
  /\ \A i \in 1 .. Len(live) - 1 : Start(i + 1) = End(i) + live[i + 1].padding

Ordered == \A i, j \in 1 .. Len(live) : i < j => End(i) <= Start(j)

TailAtEnd ==
  /\ live = <<>> => tail = head
  /\ live # <<>> => tail # head /\ Unrolled(tail) = End(Len(live))

\* The reservations tile the unrolled ring from its head to its tail: what
\* reserve and release together keep true.
RingInv == TypeOK /\ Whole /\ Tiled /\ Ordered /\ TailAtEnd
=============================================================================
