------------------------------ MODULE Reactor ------------------------------
(***************************************************************************)
(* The driver task of the v2 engine in readiness mode: how it is woken,    *)
(* what one poll does, and how a turn of the reactor shares its bounded    *)
(* publications among the sources of work.  What the sources do to         *)
(* operations and connections is the subject of Engine and                 *)
(* ConnectionSetup; here a source is the amount of work that waits in it.  *)
(*                                                                         *)
(* A step of the driver is one access to state that others change.  Client *)
(* tasks, the NIC, the CM, tokio's I/O driver and the clock act between    *)
(* any two of them.  Every per-source budget is 1, the least the           *)
(* configuration admits.  CmSoftware stands for the five classes of CM     *)
(* software work, DeadlineIngress and Deadline for the two queues of each  *)
(* kind; the shutdown and terminal sources are left to Engine.             *)
(***************************************************************************)
EXTENDS CqReadiness, Integers, FiniteSets, FiniteSetsExt

CONSTANTS
  Producers,     \* client tasks
  MaxQueued,     \* bound on every queue of the model
  MaxEvents,     \* bound on the notifications in the completion channel
  MaxTime,       \* the last instant
  ActionBudget,  \* REACTOR_ACTION_BUDGET
  Scenarios      \* what happens in a behaviour: the number of requests,
                 \* completions, CM events and instants, and a source to watch

Arrivals == {"close", "listen", "operation", "completion", "event", "instant"}

\* The sources in the order of the source code, and their number.
ALL == [Commands |-> 0, Cq |-> 1, CompletionDispatch |-> 2, CmSoftware |-> 3,
        CmEvent |-> 4, CmDestruction |-> 5, DeadlineIngress |-> 6, Deadline |-> 7]

Sources == DOMAIN ALL

Rotation == 8

ASSUME ReactorAssumption ==
  /\ MaxCqes \in Nat /\ MaxQueued \in Nat /\ MaxEvents \in Nat /\ MaxTime \in Nat
  /\ ActionBudget \in Nat /\ ActionBudget >= 8
  /\ Scenarios \subseteq [arrivals : [Arrivals -> Nat], watch : Sources]

VARIABLES
  world,    \* the arrivals still to come, and the instant
  client,   \* how far each client task is with its request
  command,  \* CommandIngress
  signal,   \* WorkSignal
  woken,    \* the executor is to poll the driver
  cq,       \* the completion queue and its readiness
  cm,       \* the CM event channel, and an event held in memory
  work,     \* the queues that only the driver touches
  timer,    \* the deadline timer
  turn,     \* where the poll is
  watch     \* a source, and the turns in a row that passed it over

vars == <<world, client, command, signal, woken, cq, cm, work, timer, turn, watch>>

Classes == <<"listen", "operation">>

Instants == 0..MaxTime

Never == MaxTime + 1
-----------------------------------------------------------------------------
(***************************************************************************)
(* Amounts of work.                                                        *)
(***************************************************************************)
HasRunnable(c, w) == c.close > 0 \/ c.operation > 0 \/ (c.listen > 0 /\ w.slot)

Due(w) == \E d \in w.heap : d <= world.now

\* drain_due, when no deadline waits in ready_deadlines already.
DueMoved(w) ==
  IF Due(w) /\ w.due = 0
  THEN [w EXCEPT !.heap = @ \ {Min(w.heap)}, !.due = 1]
  ELSE w

NextDeadline(w) == IF w.heap = {} THEN Never ELSE Min(w.heap)

\* The sources that are ready when a turn begins.
Ready(c, w) ==
  {"Cq", "CmEvent"}
    \cup {s \in {"Commands"} : HasRunnable(c, w)}
    \cup {s \in {"CompletionDispatch"} : w.dispatch > 0}
    \cup {s \in {"CmSoftware"} : w.software > 0}
    \cup {s \in {"CmDestruction"} : w.destroy > 0}
    \cup {s \in {"DeadlineIngress"} : w.ingress # {}}
    \cup {s \in {"Deadline"} : w.due > 0}

\* What is looked at once more when a turn ends.
WorkRemains(c, m, w) ==
  \/ w.dispatch > 0 \/ w.software > 0 \/ w.destroy > 0 \/ w.ingress # {}
  \/ w.due > 0 \/ Due(w)
  \/ m.deferred
  \/ HasRunnable(c, w)

\* A mutant of BeginTurn: every turn starts with the first source.
BeginTurnFixed(next, ready) == [next_start |-> next, start |-> next, todo |-> ready]

\* begin_turn of the scheduler: the ready sources, to be served in rotating
\* order from next on.
BeginTurn(next, ready) ==
  [next_start |-> (next + 1) % Rotation, start |-> next, todo |-> ready]

\* The offset at which a turn that begins at start comes to a source.
Offset(start, s) == (ALL[s] + Rotation - start) % Rotation
-----------------------------------------------------------------------------
NoTurn == [pc |-> "parked", next_start |-> 0, start |-> 0, todo |-> {},
           left |-> ActionBudget, repoll |-> FALSE, would_block |-> FALSE,
           ready |-> FALSE, served |-> FALSE]

Init ==
  /\ \E s \in Scenarios :
       /\ world = [left |-> s.arrivals, now |-> 0]
       /\ watch = [source |-> s.watch, passed |-> 0]
  /\ client = [p \in Producers |-> "idle"]
  /\ command = [close |-> 0, listen |-> 0, operation |-> 0, next_class |-> 1]
  /\ signal = [pending |-> FALSE, moved |-> FALSE, waker |-> FALSE]
  /\ woken = TRUE    \* a spawned task is polled
  /\ cq = NewCq
  /\ cm = [events |-> 0, deferred |-> FALSE, fd |-> IdleFd]
  /\ work = [dispatch |-> 0, software |-> 0, destroy |-> 0, slot |-> TRUE,
             ingress |-> {}, heap |-> {}, due |-> 0]
  /\ timer = [at |-> Never, polled |-> FALSE]
  /\ turn = NoTurn
-----------------------------------------------------------------------------
Arrival(kind) ==
  /\ world.left[kind] > 0
  /\ world' = [world EXCEPT !.left[kind] = @ - 1,
                            !.now = IF kind = "instant" THEN @ + 1 ELSE @]

(***************************************************************************)
(* A client task publishes its request, then notify_reactor in its three   *)
(* steps: the pending bit, the epoch, the wake.  signal.moved says that    *)
(* the epoch differs from the one the driver observed.                     *)
(***************************************************************************)
Enqueue(p, kind) ==
  /\ client[p] = "idle" /\ command[kind] < MaxQueued
  /\ Arrival(kind)
  /\ command' = [command EXCEPT ![kind] = @ + 1]
  /\ client' = [client EXCEPT ![p] = "queued"]
  /\ UNCHANGED <<signal, woken, cq, cm, work, timer, turn, watch>>

NotifyPending(p) ==
  /\ client[p] = "queued"
  /\ client' = [client EXCEPT ![p] = "marked"]
  /\ signal' = [signal EXCEPT !.pending = TRUE]
  /\ UNCHANGED <<world, command, woken, cq, cm, work, timer, turn, watch>>

NotifyEpoch(p) ==
  /\ client[p] = "marked"
  /\ client' = [client EXCEPT ![p] = "counted"]
  /\ signal' = [signal EXCEPT !.moved = TRUE]
  /\ UNCHANGED <<world, command, woken, cq, cm, work, timer, turn, watch>>

NotifyWake(p) ==
  /\ client[p] = "counted"
  /\ client' = [client EXCEPT ![p] = "idle"]
  /\ woken' = (woken \/ signal.waker)
  /\ signal' = [signal EXCEPT !.waker = FALSE]
  /\ UNCHANGED <<world, command, cq, cm, work, timer, turn, watch>>

\* notify_reactor from within the driver's own poll.
NotifySelf(on) ==
  /\ woken' = (woken \/ (on /\ signal.waker))
  /\ signal' = IF on THEN [pending |-> TRUE, moved |-> TRUE, waker |-> FALSE]
                     ELSE signal
-----------------------------------------------------------------------------
(***************************************************************************)
(* The NIC, the CM, tokio's I/O driver and the clock.                      *)
(***************************************************************************)
CompletionArrives ==
  /\ Arrival("completion")
  /\ cq.cqes < MaxCqes
  /\ cq.armed => cq.events < MaxEvents
  /\ cq' = Completed(cq)
  /\ UNCHANGED <<client, command, signal, woken, cm, work, timer, turn, watch>>

EventArrives ==
  /\ Arrival("event")
  /\ cm.events < MaxQueued
  /\ cm' = [cm EXCEPT !.events = @ + 1, !.fd = Signalled(cm.fd)]
  /\ UNCHANGED <<client, command, signal, woken, cq, work, timer, turn, watch>>

CqFdReady ==
  /\ cq.fd.edge
  /\ cq' = [cq EXCEPT !.fd = Delivered(cq.fd)]
  /\ woken' = (woken \/ cq.fd.waker)
  /\ UNCHANGED <<world, client, command, signal, cm, work, timer, turn, watch>>

CmFdReady ==
  /\ cm.fd.edge
  /\ cm' = [cm EXCEPT !.fd = Delivered(cm.fd)]
  /\ woken' = (woken \/ cm.fd.waker)
  /\ UNCHANGED <<world, client, command, signal, cq, work, timer, turn, watch>>

\* A timer that was polled wakes the driver when its instant comes.
Elapse ==
  /\ world.now < MaxTime /\ Arrival("instant")
  /\ woken' = (woken \/ (timer.polled /\ timer.at = world.now + 1))
  /\ UNCHANGED <<client, command, signal, cq, cm, work, timer, turn, watch>>
-----------------------------------------------------------------------------
(***************************************************************************)
(* The poll up to the turn.                                                *)
(***************************************************************************)
\* poll_deadline_timer: a timer for another instant is replaced; one whose
\* instant has come is dropped, and reported.
Fired == NextDeadline(work) <= world.now

PollDeadlineTimer ==
  timer' = IF Fired THEN [at |-> Never, polled |-> FALSE]
           ELSE [at |-> NextDeadline(work), polled |-> work.heap # {}]

StartPoll ==
  /\ turn.pc = "parked" /\ woken
  /\ woken' = FALSE
  /\ PollDeadlineTimer
  /\ turn' = [turn EXCEPT !.pc = "observe"]
  /\ UNCHANGED <<world, client, command, signal, cq, cm, work, watch>>

ObserveEpoch ==
  /\ turn.pc = "observe"
  /\ signal' = [signal EXCEPT !.moved = FALSE]
  /\ turn' = [turn EXCEPT !.pc = "take"]
  /\ UNCHANGED <<world, client, command, woken, cq, cm, work, timer, watch>>

TakePending ==
  /\ turn.pc = "take"
  /\ signal' = [signal EXCEPT !.pending = FALSE]
  /\ turn' = [turn EXCEPT !.pc = "snapshot"]
  /\ UNCHANGED <<world, client, command, woken, cq, cm, work, timer, watch>>

Snapshot ==
  /\ turn.pc = "snapshot"
  /\ work' = DueMoved(work)
  /\ LET ready == Ready(command, work')
         begin == BeginTurn(turn.next_start, ready)
     IN  turn' = [NoTurn EXCEPT !.pc = "turn", !.next_start = begin.next_start,
                                !.start = begin.start, !.todo = begin.todo,
                                !.ready = watch.source \in ready]
  /\ UNCHANGED <<world, client, command, signal, woken, cq, cm, timer, watch>>
-----------------------------------------------------------------------------
(***************************************************************************)
(* The sources, each served once in a turn.  A service publishes some of   *)
(* the leaves it reserved; the ends of the range stand for the rest.       *)
(***************************************************************************)
Serving(s) ==
  /\ turn.pc = "turn" /\ s \in turn.todo
  /\ \A r \in turn.todo : Offset(turn.start, s) <= Offset(turn.start, r)

\* The source leaves the queue; leaves were published, ran says that it had
\* the capacity to run, again that the turn asks for another poll.
Serve(s, leaves, ran, again) ==
  turn' = [turn EXCEPT !.todo = @ \ {s}, !.left = @ - leaves,
                       !.repoll = @ \/ again,
                       !.served = @ \/ (ran /\ s = watch.source)]

Leaves(n) == {0, n}

More(n) == IF n < MaxQueued THEN n + 1 ELSE n

\* select_ready_class over the classes of queued commands.
CommandReady(left, slot) ==
  [listen |-> left >= 1 /\ slot /\ command.listen > 0,
   operation |-> left >= 4 /\ command.operation > 0]

Selected(ready) ==
  LET order == [i \in 1..2 |-> ((command.next_class + i - 2) % 2) + 1]
      hits == {i \in 1..2 : ready[Classes[order[i]]]}
  IN  IF hits = {} THEN 0 ELSE order[Min(hits)]

\* service_turn_into: a close, when it can publish; then one command.  A close
\* requests a drain deadline and a listen starts CM software work.
ServeCommands ==
  /\ Serving("Commands")
  /\ \E closing \in {command.close > 0 /\ turn.left >= 4},
        closed \in Leaves(4), executed \in Leaves(4), at \in Instants :
       LET published == IF closing THEN closed ELSE 0
           left == turn.left - published
           class == Selected(CommandReady(left, work.slot))
           listens == class = 1
           operates == class = 2
           leaves == published + IF operates THEN executed ELSE 0
           after == [close |-> command.close - IF closing THEN 1 ELSE 0,
                     listen |-> command.listen - IF listens THEN 1 ELSE 0,
                     operation |-> command.operation - IF operates THEN 1 ELSE 0,
                     next_class |-> IF class = 0 THEN command.next_class
                                    ELSE (class % 2) + 1]
           w == [work EXCEPT
                   !.ingress = IF closing THEN @ \cup {at} ELSE @,
                   !.slot = @ /\ ~listens,
                   !.software = IF listens THEN More(@) ELSE @]
           session_work == closing \/ listens
           has_more == HasRunnable(after, w)
       IN  /\ ~closing => closed = 0 /\ at = 0
           /\ closing => at >= world.now
           /\ ~operates => executed = 0
           /\ command' = after
           /\ work' = w
           /\ NotifySelf(session_work \/ has_more)
           /\ Serve("Commands", leaves, closing \/ class # 0, session_work \/ has_more)
  /\ UNCHANGED <<world, client, cq, cm, timer, watch>>

\* service_cq: one round of poll_with.  A completion makes its connection a
\* source of CompletionDispatch.
ServeCq ==
  /\ Serving("Cq")
  /\ LET r == PollWith(cq)
     IN  /\ cq' = r.cq
         /\ IF r.exit = "again" THEN UNCHANGED turn
            ELSE Serve("Cq", 0, TRUE, r.exit = "ready")
         /\ woken' = (woken \/ r.exit = "rewoken")
         /\ work' = IF r.exit = "ready" THEN [work EXCEPT !.dispatch = More(@)] ELSE work
  /\ UNCHANGED <<world, client, command, signal, cm, timer, watch>>

\* A source that reserves more than is left waits for the next turn.
Starved(s, reserve, again) ==
  /\ Serving(s) /\ turn.left < reserve
  /\ Serve(s, 0, FALSE, again)
  /\ UNCHANGED <<world, client, command, signal, woken, cq, cm, work, timer, watch>>

\* A dispatched completion publishes up to three leaves; it may drain its
\* connection, whose retirement is CM software work.
ServeCompletionDispatch ==
  /\ Serving("CompletionDispatch") /\ turn.left >= 3
  /\ \E leaves \in Leaves(3), stays, drained \in BOOLEAN :
       /\ work' = [work EXCEPT !.dispatch = IF stays THEN @ ELSE @ - 1,
                               !.software = IF drained THEN More(@) ELSE @]
       /\ NotifySelf(drained)
       /\ Serve("CompletionDispatch", leaves, TRUE, work'.dispatch > 0)
  /\ UNCHANGED <<world, client, command, cq, cm, timer, watch>>

\* One item of CM software work; a retirement queues a destruction.
ServeCmSoftware ==
  /\ Serving("CmSoftware") /\ turn.left >= 8
  /\ \E leaves \in Leaves(8), retires \in BOOLEAN :
       /\ work' = [work EXCEPT !.software = @ - 1,
                               !.destroy = IF retires THEN More(@) ELSE @]
       /\ Serve("CmSoftware", leaves, TRUE, work'.software > 0)
  /\ UNCHANGED <<world, client, command, signal, woken, cq, cm, timer, watch>>

\* try_process_event: the deferred event or one from the channel; a connect
\* request is work for its listener.
ServeCmEvent ==
  /\ Serving("CmEvent") /\ turn.left >= 8
  /\ cm.deferred \/ cm.events > 0
  /\ cm' = IF cm.deferred THEN [cm EXCEPT !.deferred = FALSE]
                          ELSE [cm EXCEPT !.events = @ - 1]
  /\ \E leaves \in Leaves(8), listener \in BOOLEAN :
       /\ work' = [work EXCEPT !.software = IF listener THEN More(@) ELSE @]
       /\ Serve("CmEvent", leaves, TRUE, TRUE)
  /\ UNCHANGED <<world, client, command, signal, woken, cq, timer, watch>>

\* The channel would block: poll_readiness_events asks the descriptor.
ServeCmEventBlocked ==
  /\ Serving("CmEvent") /\ turn.left >= 8
  /\ ~cm.deferred /\ cm.events = 0
  /\ turn' = [turn EXCEPT !.pc = "cm_fd"]
  /\ UNCHANGED <<world, client, command, signal, woken, cq, cm, work, timer, watch>>

\* Not ready: the task is registered, and the channel was seen empty.
CmFdPending ==
  /\ turn.pc = "cm_fd" /\ ~cm.fd.ready
  /\ cm' = [cm EXCEPT !.fd = ReadReady(cm.fd)]
  /\ turn' = [turn EXCEPT !.pc = "turn", !.todo = @ \ {"CmEvent"}, !.would_block = TRUE,
                          !.served = @ \/ watch.source = "CmEvent"]
  /\ UNCHANGED <<world, client, command, signal, woken, cq, work, timer, watch>>

\* Ready: a guard, and one more event is tried.
CmFdGuard ==
  /\ turn.pc = "cm_fd" /\ cm.fd.ready
  /\ cm' = [cm EXCEPT !.fd = ReadReady(cm.fd)]
  /\ turn' = [turn EXCEPT !.pc = "cm_try"]
  /\ UNCHANGED <<world, client, command, signal, woken, cq, work, timer, watch>>

CmTryEvent ==
  /\ turn.pc = "cm_try" /\ cm.events > 0
  /\ cm' = [cm EXCEPT !.events = @ - 1]
  /\ \E leaves \in Leaves(8), listener \in BOOLEAN :
       /\ work' = [work EXCEPT !.software = IF listener THEN More(@) ELSE @]
       /\ turn' = [turn EXCEPT !.pc = "turn", !.todo = @ \ {"CmEvent"},
                               !.left = @ - leaves, !.repoll = TRUE,
                               !.served = @ \/ watch.source = "CmEvent"]
  /\ UNCHANGED <<world, client, command, signal, woken, cq, timer, watch>>

\* It blocks: the readiness is cleared and the descriptor asked again.
CmTryBlocked ==
  /\ turn.pc = "cm_try" /\ cm.events = 0
  /\ turn' = [turn EXCEPT !.pc = "cm_clear"]
  /\ UNCHANGED <<world, client, command, signal, woken, cq, cm, work, timer, watch>>

CmClearReady ==
  /\ turn.pc = "cm_clear"
  /\ cm' = [cm EXCEPT !.fd = ClearReady(cm.fd)]
  /\ turn' = [turn EXCEPT !.pc = "cm_fd"]
  /\ UNCHANGED <<world, client, command, signal, woken, cq, work, timer, watch>>

\* A destruction needs a channel seen empty in this turn, and looks at it once
\* more: an event that is there is kept in memory and the destruction waits.
\* The CM id of a listener frees its slot.
ServeCmDestruction ==
  /\ Serving("CmDestruction") /\ turn.left >= 8
  /\ LET found == cm.deferred \/ cm.events > 0
     IN  \/ /\ turn.would_block /\ ~found
            /\ \E leaves \in Leaves(8), listener \in BOOLEAN :
                 /\ work' = [work EXCEPT !.destroy = @ - 1, !.slot = @ \/ listener]
                 /\ Serve("CmDestruction", leaves, TRUE, work'.destroy > 0)
            /\ UNCHANGED cm
         \/ /\ turn.would_block /\ found
            /\ cm' = IF cm.deferred THEN cm
                     ELSE [cm EXCEPT !.deferred = TRUE, !.events = @ - 1]
            /\ Serve("CmDestruction", 0, TRUE, TRUE)
            /\ UNCHANGED work
         \/ /\ ~turn.would_block
            /\ Serve("CmDestruction", 0, FALSE, TRUE)
            /\ UNCHANGED <<cm, work>>
  /\ UNCHANGED <<world, client, command, signal, woken, cq, timer, watch>>

\* A requested deadline enters the heap.
ServeDeadlineIngress ==
  /\ Serving("DeadlineIngress")
  /\ \E at \in work.ingress :
       work' = [work EXCEPT !.ingress = @ \ {at}, !.heap = @ \cup {at}]
  /\ Serve("DeadlineIngress", 0, TRUE, work'.ingress # {})
  /\ UNCHANGED <<world, client, command, signal, woken, cq, cm, timer, watch>>

\* A due deadline reserves two leaves; it may be put off to a later instant.
ServeDeadline ==
  /\ Serving("Deadline") /\ turn.left >= 2
  /\ \E leaves \in Leaves(2), again \in SUBSET {i \in Instants : i >= world.now} :
       /\ Cardinality(again) <= 1
       /\ work' = [work EXCEPT !.due = 0, !.ingress = @ \cup again]
       /\ Serve("Deadline", leaves, TRUE, Due(work))
  /\ UNCHANGED <<world, client, command, signal, woken, cq, cm, timer, watch>>

ServeSource ==
  \/ ServeCommands \/ ServeCq
  \/ ServeCompletionDispatch \/ Starved("CompletionDispatch", 3, TRUE)
  \/ ServeCmSoftware \/ Starved("CmSoftware", 8, TRUE)
  \/ ServeCmEvent \/ ServeCmEventBlocked \/ Starved("CmEvent", 8, TRUE)
  \/ CmFdPending \/ CmFdGuard \/ CmTryEvent \/ CmTryBlocked \/ CmClearReady
  \/ ServeCmDestruction \/ Starved("CmDestruction", 8, TRUE)
  \/ ServeDeadlineIngress
  \/ ServeDeadline \/ Starved("Deadline", 2, FALSE)
-----------------------------------------------------------------------------
(***************************************************************************)
(* The end of the turn and of the poll.                                    *)
(***************************************************************************)
\* A destruction waits for a channel that stays empty; such a turn counts
\* for it only when the channel was.
PassedOver ==
  /\ turn.ready /\ ~turn.served
  /\ watch.source = "CmDestruction" => turn.would_block /\ ~cm.deferred

EndTurn ==
  /\ turn.pc = "turn" /\ turn.todo = {}
  /\ turn' = [turn EXCEPT !.pc = "timer", !.repoll = @ \/ WorkRemains(command, cm, work)]
  /\ watch' = [watch EXCEPT !.passed = IF PassedOver THEN @ + 1 ELSE 0]
  /\ UNCHANGED <<world, client, command, signal, woken, cq, cm, work, timer>>

PollTimer ==
  /\ turn.pc = "timer"
  /\ PollDeadlineTimer
  /\ woken' = (woken \/ Fired)
  /\ turn' = [turn EXCEPT !.pc = "register"]
  /\ UNCHANGED <<world, client, command, signal, cq, cm, work, watch>>

\* register_and_recheck.
RegisterWaker ==
  /\ turn.pc = "register"
  /\ signal' = [signal EXCEPT !.waker = TRUE]
  /\ turn' = [turn EXCEPT !.pc = "retake"]
  /\ UNCHANGED <<world, client, command, woken, cq, cm, work, timer, watch>>

RetakePending ==
  /\ turn.pc = "retake"
  /\ signal' = [signal EXCEPT !.pending = FALSE]
  /\ woken' = (woken \/ signal.pending \/ turn.repoll)
  /\ turn' = [turn EXCEPT !.pc = "recheck"]
  /\ UNCHANGED <<world, client, command, cq, cm, work, timer, watch>>

RecheckEpoch ==
  /\ turn.pc = "recheck"
  /\ woken' = (woken \/ signal.moved)
  /\ turn' = [NoTurn EXCEPT !.next_start = turn.next_start]
  /\ UNCHANGED <<world, client, command, signal, cq, cm, work, timer, watch>>
-----------------------------------------------------------------------------
ClientNext ==
  \E p \in Producers :
    \/ \E kind \in {"close", "listen", "operation"} : Enqueue(p, kind)
    \/ NotifyPending(p) \/ NotifyEpoch(p) \/ NotifyWake(p)

WorldNext == CompletionArrives \/ EventArrives \/ CqFdReady \/ CmFdReady \/ Elapse

DriverNext ==
  \/ StartPoll \/ ObserveEpoch \/ TakePending \/ Snapshot
  \/ ServeSource
  \/ EndTurn \/ PollTimer \/ RegisterWaker \/ RetakePending \/ RecheckEpoch

Next == ClientNext \/ WorldNext \/ DriverNext

Spec == Init /\ [][Next]_vars
-----------------------------------------------------------------------------
\* Nobody is about to wake the driver: it returned Pending, no wake is
\* outstanding, no client is between its publication and its wake, no edge is
\* on its way to tokio.
Asleep ==
  /\ turn.pc = "parked" /\ ~woken
  /\ \A p \in Producers : client[p] = "idle"
  /\ ~cq.fd.edge /\ ~cm.fd.edge

\* A driver that sleeps has nothing to do and will hear of what comes: no
\* command it could run, no completion, no CM event in the channel or in
\* memory, no internal work, no due deadline; the CQ is armed, both
\* descriptors and the signal hold its waker, and the timer is set for the
\* first deadline (the claim of the module comment of driver/mod.rs, extended
\* to completions, CM events and deadlines).
NoLostWakeup ==
  Asleep =>
    /\ cq.cqes = 0 /\ cq.armed /\ cq.fd.waker
    /\ cm.events = 0 /\ cm.fd.waker
    /\ work.dispatch = 0 /\ work.software = 0 /\ work.destroy = 0
    /\ work.ingress = {} /\ work.due = 0 /\ ~Due(work)
    /\ ~cm.deferred /\ ~HasRunnable(command, work)
    /\ signal.waker
    /\ work.heap # {} => timer = [at |-> Min(work.heap), polled |-> TRUE]

\* The sources share 32 publications a turn, and one that finds too few left
\* runs in no turn.  The rotation of begin_turn bounds that: no ready source
\* is passed over in as many turns in a row as there are sources.
NoSourceStarved == watch.passed < Rotation
=============================================================================
