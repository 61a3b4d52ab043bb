------------------------------ MODULE RingOps ------------------------------
(***************************************************************************)
(* The arithmetic both ring transports share (transport_common.rs): the    *)
(* wrap-around RingBuffer, the chase-forward CompletionTracker and the     *)
(* slot-count clamp.  Positions and lengths are in ring units (bytes in    *)
(* the code).  A ring is given by its capacity `cap', head `h' and tail    *)
(* `t'; one unit stays unused to tell a full ring from an empty one.       *)
(***************************************************************************)
EXTENDS Integers

AtLeast(x, floor) == IF x < floor THEN floor ELSE x

AtMost(x, ceiling) == IF x > ceiling THEN ceiling ELSE x

\* RingBuffer::used
Used(cap, h, t) == IF t >= h THEN t - h ELSE cap - h + t

\* RingBuffer::available
Available(cap, h, t) == cap - Used(cap, h, t) - 1

\* RingBuffer::contiguous_free
ContiguousFree(cap, h, t) ==
  IF t >= h THEN IF h = 0 THEN cap - t - 1 ELSE cap - t
            ELSE h - t - 1

FitsContiguous(cap, h, t, len) ==
  /\ len > 0
  /\ len <= Available(cap, h, t)
  /\ len <= ContiguousFree(cap, h, t)

FitsWrapped(cap, h, t, len) ==
  /\ len > 0
  /\ len <= Available(cap, h, t)
  /\ len > ContiguousFree(cap, h, t)
  /\ cap - t + len <= Available(cap, h, t) + 1
  /\ h > len

\* RingBuffer::reserve: `ok' is FALSE where the code returns None; `tail' is
\* the ring's tail after the call.
Reserve(cap, h, t, len) ==
  IF FitsContiguous(cap, h, t, len)
  THEN [ok |-> TRUE, offset |-> t, padding |-> 0, tail |-> (t + len) % cap]
  ELSE IF FitsWrapped(cap, h, t, len)
       THEN [ok |-> TRUE, offset |-> 0, padding |-> cap - t, tail |-> len]
       ELSE [ok |-> FALSE, offset |-> 0, padding |-> 0, tail |-> t]

\* RingBuffer::release
Release(cap, h, len) == (h + len) % cap

\* CompletionTracker::release(slot) on the flags `released' (over 0..n-1) and
\* the index `headSlot': how many contiguous slots the chase frees ...
Chased(n, released, headSlot, slot) ==
  LET marked == [released EXCEPT ![slot] = TRUE]
  IN  CHOOSE k \in 0 .. n :
        /\ \A i \in 0 .. k - 1 : marked[(headSlot + i) % n]
        /\ k < n => ~ marked[(headSlot + k) % n]

\* ... and the flags it leaves behind.
TrackerFlags(n, released, headSlot, slot) ==
  LET k == Chased(n, released, headSlot, slot)
      chasedSlots == {(headSlot + i) % n : i \in 0 .. k - 1}
  IN  [s \in 0 .. n - 1 |-> s \notin chasedSlots /\ (released[s] \/ s = slot)]

\* clamp_max_outstanding; the Option maxInFlight is a set of at most one number.
ClampMaxOutstanding(ringCapacity, maxMessageSize, maxInFlight, headroom, deviceLimit) ==
  LET derived   == AtLeast(ringCapacity \div AtLeast(maxMessageSize, 1), 1)
      requested == AtLeast(IF maxInFlight = {} THEN derived
                                                     ELSE CHOOSE n \in maxInFlight : TRUE, 1)
      reserve   == AtLeast(headroom, 2)
      deviceCap == AtLeast(deviceLimit - reserve, 1)
  IN  AtLeast(AtMost(requested, deviceCap), 1)
=============================================================================
