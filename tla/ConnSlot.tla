------------------------------ MODULE ConnSlot ------------------------------
(***************************************************************************)
(* The hand-off between the busy-poll driver of a core and one connection: *)
(* per direction an inbox of completions, the parked waiter and the count  *)
(* of work requests the NIC may still complete, and the life of the slot.  *)
(* A completion is represented by the connection whose work request it     *)
(* completes.                                                              *)
(***************************************************************************)
EXTENDS Naturals, Sequences

CONSTANTS
  InboxCapacity,  \* of each direction
  PollBatch       \* completions a poll takes at most

Dirs == {"send", "recv"}

ASSUME ConnSlotAssumption ==
  InboxCapacity \in [Dirs -> Nat \ {0}] /\ PollBatch \in Nat \ {0}

SlotStates == {"Connecting", "Established", "Closing", "Drained"}

TerminalFaults == {"none", "InboxOverflow", "SharedCqPollFailed"}

NewSlot ==
  [ state    |-> "Connecting",
    inbox    |-> [d \in Dirs |-> <<>>],
    posted   |-> [d \in Dirs |-> 0],
    parked   |-> [d \in Dirs |-> FALSE],
    terminal |-> "none" ]

Wake(s, d) == [s EXCEPT !.parked[d] = FALSE]

WakeBoth(s) == [s EXCEPT !.parked = [d \in Dirs |-> FALSE]]

IncPosted(s, d, n) == [s EXCEPT !.posted[d] = @ + n]

\* dec_posted panics instead.
Underflows(s, d) == s.posted[d] = 0

DecPosted(s, d) == [s EXCEPT !.posted[d] = @ - 1]

SetState(s, state) == [s EXCEPT !.state = state]

\* Mutant: a fault wakes nobody.
MarkFatalSilently(s, fault) ==
  [s EXCEPT !.terminal = IF @ = "none" THEN fault ELSE @]

\* Only the first fault is kept.
MarkFatal(s, fault) ==
  WakeBoth([s EXCEPT !.terminal = IF @ = "none" THEN fault ELSE @])

IsFatal(s) == s.terminal # "none"

InboxFull(s, d) == Len(s.inbox[d]) >= InboxCapacity[d]

Deliver(s, d, wc) == [s EXCEPT !.inbox[d] = Append(@, wc)]

DrainInbox(s, d) == [s EXCEPT !.inbox[d] = <<>>]

DrainComplete(s) == \A d \in Dirs : s.posted[d] = 0 /\ s.inbox[d] = <<>>

\* poll_inbox of a slot without a fault: the completions it returns (none if
\* Pending), and the slot it leaves, with the waiter registered if Pending.
PollCount(s, d) ==
  IF Len(s.inbox[d]) < PollBatch THEN Len(s.inbox[d]) ELSE PollBatch

PollInbox(s, d) ==
  [s EXCEPT !.inbox[d] = SubSeq(@, PollCount(s, d) + 1, Len(@)),
            !.parked[d] = @ \/ s.inbox[d] = <<>>]
=============================================================================
