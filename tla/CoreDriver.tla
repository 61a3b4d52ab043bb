----------------------------- MODULE CoreDriver -----------------------------
(***************************************************************************)
(* The busy-poll driver of one core: the only code that polls the shared   *)
(* completion queues, the read-ring connections placed on the core from    *)
(* their setup to their teardown, and the NIC.  The driver and the         *)
(* connections are tasks of one single-threaded runtime, so a step is what *)
(* a task does between two awaits; the NIC completes work requests between *)
(* any two steps.  The admission of a pool (see BusyPool) is one step.     *)
(***************************************************************************)
EXTENDS ConnSlot, FiniteSetsExt, SequencesExt

CONSTANTS
  Conns,            \* connections, each set up once
  QpNums,           \* QP numbers of the device, reused after a QP is destroyed
  MaxOutstanding,   \* doorbell receives of a connection
  SqHeadroom,       \* READ_RING_SQ_HEADROOM
  SetupSends,       \* sends of a setup: the token and the window binds
  Cap,              \* connections admitted to the core
  MaxCqePerCq,      \* MAX_CQE_PER_CQ
  ReclaimMaxTurns,  \* RECLAIM_MAX_TURNS
  Faults,           \* what may go wrong (see below)
  Nobody

ASSUME CoreDriverAssumption ==
  /\ MaxOutstanding \in Nat \ {0} /\ SqHeadroom \in Nat
  /\ SetupSends \in 1..(MaxOutstanding + SqHeadroom)
  /\ InboxCapacity = [send |-> MaxOutstanding + SqHeadroom,
                      recv |-> MaxOutstanding + 2]
  /\ Cap \in Nat \ {0} /\ MaxCqePerCq \in Nat \ {0}
  /\ ReclaimMaxTurns \in Nat \ {0}
  /\ Faults \subseteq {"handshake",  \* a setup ends before its CM is attached
                       "setup",      \* ... after
                       "poll"}       \* polling a CQ fails
  /\ Nobody \notin Conns

VARIABLES
  task,      \* each connection's task
  qp,        \* the QP of a connection: its number, whether it exists, and the
             \* work requests the NIC has not completed
  slot,      \* its ConnSlot
  unreaped,  \* sends whose completion the transport has not taken
  slots,     \* the routing map
  cq,        \* the shared completion queues
  reclaim,   \* connections handed off for teardown
  admitted,  \* the admission count of the core
  unknown,   \* completions for a QP number not in the map
  shutdown,  \* the flag
  driver     \* "running", "exited" or "panicked"

vars == <<task, qp, slot, unreaped, slots, cq, reclaim, admitted, unknown,
          shutdown, driver>>

Tasks == {"idle", "handshake", "token", "sends", "established", "ended"}

NoWork == [d \in Dirs |-> 0]

Init ==
  /\ task = [c \in Conns |-> "idle"]
  /\ qp = [c \in Conns |-> [num |-> Nobody, exists |-> FALSE, nic |-> NoWork]]
  /\ slot = [c \in Conns |-> NewSlot]
  /\ unreaped = [c \in Conns |-> 0]
  /\ slots = [q \in QpNums |-> Nobody]
  /\ cq = [d \in Dirs |-> <<>>]
  /\ reclaim = <<>>
  /\ admitted = 0
  /\ unknown = 0
  /\ shutdown = FALSE
  /\ driver = "running"
-----------------------------------------------------------------------------
(***************************************************************************)
(* The provider.                                                           *)
(***************************************************************************)
FreshQpNums == QpNums \ {qp[c].num : c \in {x \in Conns : qp[x].exists}}

\* A post that succeeds is counted.
Post(c, d, n) ==
  /\ qp' = [qp EXCEPT ![c].nic[d] = @ + n]
  /\ slot' = [slot EXCEPT ![c] = IncPosted(@, d, n)]

Destroyed(q) == [q EXCEPT !.exists = FALSE, !.nic = NoWork]

\* The NIC completes a work request, successfully or flushed.
Complete(c, d) ==
  /\ qp[c].nic[d] > 0
  /\ qp' = [qp EXCEPT ![c].nic[d] = @ - 1]
  /\ cq' = [cq EXCEPT ![d] = Append(@, c)]
  /\ UNCHANGED <<task, slot, unreaped, slots, reclaim, admitted, unknown,
                 shutdown, driver>>
-----------------------------------------------------------------------------
(***************************************************************************)
(* A connection's task.                                                    *)
(***************************************************************************)
Active(c) == driver = "running" /\ ~slot[c].parked["send"] /\ ~slot[c].parked["recv"]

\* try_admit, then prepare_pending: a QP on the shared CQs, its slot
\* registered, the token receive posted.
Begin(c, q) ==
  /\ driver = "running" /\ ~shutdown
  /\ task[c] = "idle" /\ admitted < Cap
  /\ q \in FreshQpNums
  /\ slots[q] = Nobody
  /\ task' = [task EXCEPT ![c] = "handshake"]
  /\ qp' = [qp EXCEPT ![c] = [num |-> q, exists |-> TRUE,
                              nic |-> [NoWork EXCEPT !["recv"] = 1]]]
  /\ slot' = [slot EXCEPT ![c] = IncPosted(@, "recv", 1)]
  /\ slots' = [slots EXCEPT ![q] = c]
  /\ admitted' = admitted + 1
  /\ UNCHANGED <<unreaped, cq, reclaim, unknown, shutdown, driver>>

\* register refuses a number that is still in the map: the QP is dropped and
\* the admission released.
BeginRefused(c, q) ==
  /\ driver = "running" /\ ~shutdown
  /\ task[c] = "idle" /\ admitted < Cap
  /\ q \in FreshQpNums
  /\ slots[q] # Nobody
  /\ task' = [task EXCEPT ![c] = "ended"]
  /\ UNCHANGED <<qp, slot, unreaped, slots, cq, reclaim, admitted, unknown,
                 shutdown, driver>>

\* Drop of PendingReadRing before attach_cm: ERR, unregister, destroy.  The
\* NIC may have flushed the token receive into the shared CQ by then.
RollbackHandshake(c, flushed) ==
  /\ "handshake" \in Faults
  /\ driver = "running" /\ task[c] = "handshake"
  /\ flushed \in 0..qp[c].nic["recv"]
  /\ task' = [task EXCEPT ![c] = "ended"]
  /\ cq' = [cq EXCEPT !["recv"] = @ \o [i \in 1..flushed |-> c]]
  /\ slots' = [slots EXCEPT ![qp[c].num] = Nobody]
  /\ qp' = [qp EXCEPT ![c] = Destroyed(@)]
  /\ admitted' = admitted - 1
  /\ UNCHANGED <<slot, unreaped, reclaim, unknown, shutdown, driver>>

\* The handshake completed: attach_cm, bind the windows, send the token.
Attach(c) ==
  /\ driver = "running" /\ task[c] = "handshake"
  /\ task' = [task EXCEPT ![c] = "token"]
  /\ Post(c, "send", SetupSends)
  /\ unreaped' = [unreaped EXCEPT ![c] = SetupSends]
  /\ UNCHANGED <<slots, cq, reclaim, admitted, unknown, shutdown, driver>>

\* acquire of the peer's token.
AwaitToken(c) ==
  /\ Active(c) /\ task[c] = "token" /\ ~IsFatal(slot[c])
  /\ slot' = [slot EXCEPT ![c] = PollInbox(@, "recv")]
  /\ task' = [task EXCEPT ![c] = IF PollCount(slot[c], "recv") > 0 THEN "sends" ELSE @]
  /\ UNCHANGED <<qp, unreaped, slots, cq, reclaim, admitted, unknown, shutdown,
                 driver>>

\* drain_ring_setup_sends; after the last one the doorbells are posted and the
\* slot committed, with the admission as its lease.
AwaitSetupSends(c) ==
  /\ Active(c) /\ task[c] = "sends" /\ ~IsFatal(slot[c])
  /\ LET polled == PollInbox(slot[c], "send")
         left   == unreaped[c] - PollCount(slot[c], "send")
     IN  /\ unreaped' = [unreaped EXCEPT ![c] = left]
         /\ \/ /\ left > 0
               /\ slot' = [slot EXCEPT ![c] = polled]
               /\ UNCHANGED <<task, qp>>
            \/ /\ left = 0
               /\ slot' = [slot EXCEPT ![c] =
                     SetState(IncPosted(polled, "recv", MaxOutstanding), "Established")]
               /\ qp' = [qp EXCEPT ![c].nic["recv"] = @ + MaxOutstanding]
               /\ task' = [task EXCEPT ![c] = "established"]
  /\ UNCHANGED <<slots, cq, reclaim, admitted, unknown, shutdown, driver>>

\* Mutant: one send too many.
SendOneMore(c) ==
  /\ driver = "running" /\ task[c] = "established"
  /\ unreaped[c] <= InboxCapacity["send"]
  /\ Post(c, "send", 1)
  /\ unreaped' = [unreaped EXCEPT ![c] = @ + 1]
  /\ UNCHANGED <<task, slots, cq, reclaim, admitted, unknown, shutdown, driver>>

\* The transport posts a Write or the head Read while its queue has room.
Send(c) ==
  /\ driver = "running" /\ task[c] = "established"
  /\ unreaped[c] < InboxCapacity["send"]
  /\ Post(c, "send", 1)
  /\ unreaped' = [unreaped EXCEPT ![c] = @ + 1]
  /\ UNCHANGED <<task, slots, cq, reclaim, admitted, unknown, shutdown, driver>>

\* A poll of the write half.
PollSend(c) ==
  /\ driver = "running" /\ task[c] = "established"
  /\ ~slot[c].parked["send"] /\ ~IsFatal(slot[c])
  /\ slot' = [slot EXCEPT ![c] = PollInbox(@, "send")]
  /\ unreaped' = [unreaped EXCEPT ![c] = @ - PollCount(slot[c], "send")]
  /\ UNCHANGED <<task, qp, slots, cq, reclaim, admitted, unknown, shutdown, driver>>

\* A poll of the read half; a doorbell is posted for each one taken.
PollRecv(c) ==
  /\ driver = "running" /\ task[c] = "established"
  /\ ~slot[c].parked["recv"] /\ ~IsFatal(slot[c])
  /\ LET n == PollCount(slot[c], "recv")
     IN  /\ slot' = [slot EXCEPT ![c] = IncPosted(PollInbox(@, "recv"), "recv", n)]
         /\ qp' = [qp EXCEPT ![c].nic["recv"] = @ + n]
  /\ UNCHANGED <<task, unreaped, slots, cq, reclaim, admitted, unknown, shutdown,
                 driver>>

HandOff(c, lease) ==
  /\ task' = [task EXCEPT ![c] = "ended"]
  /\ slot' = [slot EXCEPT ![c] = SetState(@, "Closing")]
  /\ reclaim' = Append(reclaim, [conn |-> c, turns |-> 0, lease |-> lease])

\* A setup that fails, times out or is cancelled once the CM is attached: the
\* bundle goes to the driver without a lease, the caller's guard is dropped.
RollbackSetup(c) ==
  /\ \/ "setup" \in Faults
     \/ IsFatal(slot[c])
  /\ driver = "running" /\ task[c] \in {"token", "sends"}
  /\ HandOff(c, FALSE)
  /\ admitted' = admitted - 1
  /\ UNCHANGED <<qp, unreaped, slots, cq, unknown, shutdown, driver>>

\* Drop of an established transport.
Drop(c) ==
  /\ driver = "running" /\ task[c] = "established"
  /\ HandOff(c, TRUE)
  /\ UNCHANGED <<qp, unreaped, slots, cq, admitted, unknown, shutdown, driver>>
-----------------------------------------------------------------------------
(***************************************************************************)
(* The driver's task.  A turn transforms the record of what it changes.    *)
(***************************************************************************)
\* Mutant: a completion that is not delivered is not counted down either.
RouteOneUncounted(k, c, d) ==
  LET owner == k.slots[qp[c].num]
  IN  IF k.driver = "panicked" THEN k
      ELSE IF owner = Nobody THEN [k EXCEPT !.unknown = @ + 1]
      ELSE IF k.slot[owner].state \in {"Closing", "Drained"} THEN k
      ELSE IF Underflows(k.slot[owner], d) THEN [k EXCEPT !.driver = "panicked"]
      ELSE LET s == DecPosted(k.slot[owner], d)
               t == IF InboxFull(s, d) THEN MarkFatal(s, "InboxOverflow")
                    ELSE Wake(Deliver(s, d, c), d)
           IN  [k EXCEPT !.slot[owner] = t]

\* route_into, one completion: count it down, deliver it unless the slot is
\* being torn down.
RouteOne(k, c, d) ==
  LET owner == k.slots[qp[c].num]
  IN  IF k.driver = "panicked" THEN k
      ELSE IF owner = Nobody THEN [k EXCEPT !.unknown = @ + 1]
      ELSE IF Underflows(k.slot[owner], d) THEN [k EXCEPT !.driver = "panicked"]
      ELSE LET s == DecPosted(k.slot[owner], d)
               t == IF s.state \in {"Closing", "Drained"} THEN s
                    ELSE IF InboxFull(s, d) THEN MarkFatal(s, "InboxOverflow")
                    ELSE Wake(Deliver(s, d, c), d)
           IN  [k EXCEPT !.slot[owner] = t]

FailAllSlots(k) ==
  [k EXCEPT !.slot = [c \in Conns |->
     IF \E q \in QpNums : k.slots[q] = c
     THEN MarkFatal(k.slot[c], "SharedCqPollFailed") ELSE k.slot[c]]]

\* One sweep of one CQ, bounded, or its failure.
Sweep(k, d, fails) ==
  LET n     == IF Len(k.cq[d]) < MaxCqePerCq THEN Len(k.cq[d]) ELSE MaxCqePerCq
      batch == SubSeq(k.cq[d], 1, n)
  IN  IF fails THEN FailAllSlots(k)
      ELSE FoldLeft(LAMBDA j, c : RouteOne(j, c, d),
                    [k EXCEPT !.cq[d] = SubSeq(@, n + 1, Len(@))], batch)

\* Mutant: a number the driver gave up on may be reused.
ReclaimOneUnquarantined(k, entry) ==
  LET c     == entry.conn
      s     == DrainInbox(DrainInbox(k.slot[c], "send"), "recv")
      turns == entry.turns + 1
  IN  IF ~DrainComplete(s) /\ turns < ReclaimMaxTurns
      THEN [k EXCEPT !.slot[c] = s, !.reclaim = Append(@, [entry EXCEPT !.turns = turns])]
      ELSE [k EXCEPT !.slot[c]  = SetState(s, "Drained"),
                     !.qp[c]    = Destroyed(@),
                     !.slots    = [@ EXCEPT ![qp[c].num] = Nobody],
                     !.admitted = IF entry.lease THEN @ - 1 ELSE @]

\* Mutant: the driver waits for the NIC.
ReclaimOnePatient(k, entry) ==
  LET c == entry.conn
      s == DrainInbox(DrainInbox(k.slot[c], "send"), "recv")
  IN  IF ~DrainComplete(s)
      THEN [k EXCEPT !.slot[c] = s, !.reclaim = Append(@, entry)]
      ELSE [k EXCEPT !.slot[c]  = SetState(s, "Drained"),
                     !.qp[c]    = Destroyed(@),
                     !.slots    = [@ EXCEPT ![qp[c].num] = Nobody],
                     !.admitted = IF entry.lease THEN @ - 1 ELSE @]

\* One entry of process_reclaim: drop the backlog, then keep it, retire it, or
\* give up on it, leaving its number in the map.
ReclaimOne(k, entry) ==
  LET c      == entry.conn
      s      == DrainInbox(DrainInbox(k.slot[c], "send"), "recv")
      turns  == entry.turns + 1
      done   == DrainComplete(s)
      wedged == turns >= ReclaimMaxTurns
  IN  IF ~done /\ ~wedged
      THEN [k EXCEPT !.slot[c] = s, !.reclaim = Append(@, [entry EXCEPT !.turns = turns])]
      ELSE [k EXCEPT !.slot[c]  = SetState(s, "Drained"),
                     !.qp[c]    = Destroyed(@),
                     !.slots    = IF done THEN [@ EXCEPT ![qp[c].num] = Nobody] ELSE @,
                     !.admitted = IF entry.lease THEN @ - 1 ELSE @]

ProcessReclaim(k) ==
  FoldLeft(ReclaimOne, [k EXCEPT !.reclaim = <<>>], k.reclaim)

\* Mutant: the driver leaves at once.
EndTurnHasty(k) ==
  LET done == ProcessReclaim(k)
  IN  IF k.driver = "panicked" THEN k
      ELSE IF shutdown THEN [done EXCEPT !.driver = "exited"]
      ELSE done

\* The end of a turn: reclaim, then the exit once asked to stop.
EndTurn(k) ==
  LET done == ProcessReclaim(k)
  IN  IF k.driver = "panicked" THEN k
      ELSE IF shutdown /\ done.reclaim = <<>> THEN [done EXCEPT !.driver = "exited"]
      ELSE done

\* A turn of run.  (The quantifiers name the record between the parts.)
Turn(failing) ==
  /\ driver = "running"
  /\ \E start \in {[slot |-> slot, qp |-> qp, slots |-> slots, cq |-> cq,
                    reclaim |-> reclaim, admitted |-> admitted,
                    unknown |-> unknown, driver |-> driver]} :
     \E received \in {Sweep(start, "recv", "recv" \in failing)} :
     \E sent \in {Sweep(received, "send", "send" \in failing)} :
     \E k \in {EndTurn(sent)} :
       /\ slot' = k.slot /\ qp' = k.qp /\ slots' = k.slots /\ cq' = k.cq
       /\ reclaim' = k.reclaim /\ admitted' = k.admitted /\ unknown' = k.unknown
       /\ driver' = k.driver
  /\ UNCHANGED <<task, unreaped, shutdown>>

\* The owner asks the driver to stop once every connection's task has ended.
Shutdown ==
  /\ ~shutdown
  /\ \A c \in Conns : task[c] \in {"idle", "ended"}
  /\ shutdown' = TRUE
  /\ UNCHANGED <<task, qp, slot, unreaped, slots, cq, reclaim, admitted,
                 unknown, driver>>
-----------------------------------------------------------------------------
DriverTurn == \E failing \in SUBSET Dirs :
  (failing = {} \/ "poll" \in Faults) /\ Turn(failing)

Next ==
  \/ \E c \in Conns, d \in Dirs : Complete(c, d)
  \/ \E c \in Conns, q \in QpNums : Begin(c, q) \/ BeginRefused(c, q)
  \/ \E c \in Conns : \E flushed \in 0..1 : RollbackHandshake(c, flushed)
  \/ \E c \in Conns : \/ Attach(c) \/ AwaitToken(c) \/ AwaitSetupSends(c)
                      \/ Send(c) \/ PollSend(c) \/ PollRecv(c)
                      \/ RollbackSetup(c) \/ Drop(c)
  \/ DriverTurn
  \/ Shutdown

Spec == Init /\ [][Next]_vars
-----------------------------------------------------------------------------
TypeOK ==
  /\ task \in [Conns -> Tasks]
  /\ \A c \in Conns :
       /\ qp[c].num \in QpNums \cup {Nobody} /\ qp[c].exists \in BOOLEAN
       /\ slot[c].state \in SlotStates /\ slot[c].terminal \in TerminalFaults
       /\ \A d \in Dirs : /\ qp[c].nic[d] \in 0..InboxCapacity[d]
                          /\ slot[c].posted[d] \in 0..InboxCapacity[d]
                          /\ slot[c].inbox[d] \in Seq(Conns)
       /\ unreaped[c] \in 0..InboxCapacity["send"]
  /\ slots \in [QpNums -> Conns \cup {Nobody}]
  /\ cq \in [Dirs -> Seq(Conns)]
  /\ admitted \in 0..Cap /\ unknown \in Nat
  /\ driver \in {"running", "exited", "panicked"}

InCq(c, d) == Len(SelectSeq(cq[d], LAMBDA x : x = c))

Abandoned(c) == slot[c].state = "Drained" /\ slots[qp[c].num] = c

\* A handshake that is rolled back destroys its QP without the drain barrier;
\* the flush of its token receive then belongs to no connection.
HandshakeLost == \E c \in Conns :
  task[c] = "ended" /\ slot[c].state = "Connecting" /\ qp[c].num # Nobody

\* The count that guards the destruction of a QP is exactly the work the NIC
\* can still report or has reported unseen, however posts, completions,
\* partial sweeps and teardown interleave (a QP the driver gave up on
\* excepted, whose lost work stays counted).  A smaller count frees memory in
\* use, a larger one never drains.
PostedIsExact ==
  ~HandshakeLost =>
    \A c \in Conns, d \in Dirs :
      /\ slot[c].posted[d] >= qp[c].nic[d] + InCq(c, d)
      /\ ~Abandoned(c) /\ qp[c].exists
           => slot[c].posted[d] = qp[c].nic[d] + InCq(c, d)

\* A completion is only ever handed to, and counted against, the connection
\* that posted the work, although QP numbers are reused: dec_posted never
\* underflows, no inbox holds another connection's completion, and none comes
\* for a number that left the map (a connection leaves it only behind the
\* drain barrier, or not at all).
CompletionsReachOwner ==
  ~HandshakeLost =>
    /\ driver # "panicked" /\ unknown = 0
    /\ \A c \in Conns, d \in Dirs : ToSet(slot[c].inbox[d]) \subseteq {c}

\* Inboxes sized to the QP never overflow, whatever batches the driver and the
\* transport work in.
InboxesSuffice == \A c \in Conns : slot[c].terminal # "InboxOverflow"

\* Nobody stays parked on an inbox that holds a completion, or on a slot that
\* failed: deliveries are announced once per sweep, faults to both halves.
NoLostWakeup ==
  \A c \in Conns, d \in Dirs :
    slot[c].parked[d] /\ slot[c].state \in {"Connecting", "Established"}
      => slot[c].inbox[d] = <<>> /\ ~IsFatal(slot[c])

\* When the driver leaves, no QP outlives it and every slot left in the map is
\* Drained.
ExitIsClean ==
  driver = "exited" =>
    /\ \A c \in Conns : ~qp[c].exists
    /\ \A q \in QpNums : slots[q] # Nobody => slot[slots[q]].state = "Drained"

\* The QP of a connection whose task ended is destroyed after at most
\* ReclaimMaxTurns turns of the driver, even if the NIC never flushes its work:
\* it has one entry in the reclaim list, short of that limit, and every turn
\* destroys the QP or ages the entry.
ReclaimEnds ==
  [][/\ \A c \in Conns : task'[c] = "ended" /\ qp'[c].exists =>
          \E e \in ToSet(reclaim') : e.conn = c /\ e.turns < ReclaimMaxTurns
     /\ DriverTurn => \A e \in ToSet(reclaim) :
          \/ ~qp'[e.conn].exists \/ driver' = "panicked"
          \/ \E f \in ToSet(reclaim') : f.conn = e.conn /\ f.turns = e.turns + 1]_vars
=============================================================================
