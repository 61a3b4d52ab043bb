------------------------------- MODULE Engine -------------------------------
(***************************************************************************)
(* The v2 RDMA engine: frontend futures that submit, await and drop        *)
(* operations on any thread, the command ingress between them and the      *)
(* driver, the driver thread that owns all provider state, and the         *)
(* provider that executes work requests and reports completions.           *)
(*                                                                         *)
(* A frontend step is one access to state shared with the driver.  The     *)
(* driver executes a command in the steps between its own accesses to      *)
(* that state; any other source the driver services is one step, and the   *)
(* scheduler rotates over the ready ones, so every order is possible.  Deadlines    *)
(* fire at any time after they are set.                                    *)
(***************************************************************************)
EXTENDS Session

CONSTANT
  Scenarios  \* what goes wrong together, in the behaviours examined

\* drop: futures that may be dropped before they resolve
\* close: connections whose frontend may call close
\* faults: what the provider may do wrong
\* events: what the application and the peer may do
\* dups: CQEs the provider reports twice, at most
ASSUME EngineAssumption ==
  Scenarios \subseteq
    [drop : SUBSET Futures, close : SUBSET Conns,
     faults : SUBSET {"post",       \* a post fails with nothing accepted
                      "ambiguous",  \* ... with acceptance unknown
                      "error",      \* a QP cannot be moved to ERR
                      "destroy",    \* a QP cannot be destroyed
                      "cm"},        \* a CM ID cannot be destroyed
     events : SUBSET {"shutdown", "driverdrop", "disconnect", "cmfailure"},
     dups : Nat]

VARIABLES
  fut,       \* each future's state, and how far its Drop has got
  inflight,  \* OperationCommandCompletion.in_flight, a set of at most one token
  queue,     \* operation commands: futures
  cancels,   \* operation_cancel controls, in order
  closes,    \* connection_close controls, in order
  driver,    \* what the driver is executing
  eng,       \* the state the driver owns, and the observers
  hw         \* the provider: work requests out, CQEs, CQEs already polled,
             \* duplicates left, whether its resources are gone, and the
             \* scenario, which no step changes

vars == <<fut, inflight, queue, cancels, closes, driver, eng, hw>>

Idle == [pc |-> "idle"]

Dropped == [pc |-> "dropped"]

Answers(fault) == IF fault \in hw.may.faults THEN BOOLEAN ELSE {TRUE}

Init ==
  /\ fut = [f \in Futures |-> "Created"]
  /\ inflight = [f \in Futures |-> {}]
  /\ queue = <<>> /\ cancels = <<>> /\ closes = <<>>
  /\ driver = Idle
  /\ eng = [ slots |-> [i \in Slots |-> VacantSlot], recycled |-> <<>>, nextUnused |-> 0,
             cqUsed |-> 0, retained |-> 0, accepted |-> 0, pending |-> 0, quarantined |-> 0,
             deadlines |-> {}, ready |-> {},
             obs |-> [f \in Futures |-> NewObserver], mr |-> [f \in Futures |-> "future"],
             conn |-> [c \in Conns |-> NewConnection],
             closed |-> FALSE, failReq |-> FALSE, shutdown |-> FALSE, failed |-> FALSE,
             toclose |-> {}, wedge |-> FALSE, termScan |-> 0, termDone |-> FALSE,
             finished |-> "none" ]
  /\ \E may \in Scenarios :
       hw = [out |-> {}, cq |-> {}, seen |-> {}, dups |-> may.dups, gone |-> FALSE, may |-> may]

-----------------------------------------------------------------------------
(* Frontends: RdmaOperation (future.rs)                                    *)

\* The first poll: the command is enqueued, unless admission is closed.
PollSubmit(f) ==
  /\ fut[f] = "Created"
  /\ fut' = [fut EXCEPT ![f] = "Queued"]
  /\ IF eng.closed
     THEN /\ eng' = CompleteWithMr(eng, f)
          /\ UNCHANGED queue
     ELSE /\ eng' = [eng EXCEPT !.mr[f] = "command"]
          /\ queue' = Append(queue, f)
  /\ UNCHANGED <<inflight, cancels, closes, driver, hw>>

\* A later poll that finds the output.
PollReady(f) ==
  /\ fut[f] = "Queued" /\ eng.obs[f].result = "Ready"
  /\ fut' = [fut EXCEPT ![f] = "Done"]
  /\ eng' = [eng EXCEPT !.obs[f] = TakeResult(@),
                        !.mr[f] = IF @ = "result" THEN "caller" ELSE @]
  /\ UNCHANGED <<inflight, queue, cancels, closes, driver, hw>>

\* Drop of a future that was never polled.
DropCreated(f) ==
  /\ f \in hw.may.drop /\ fut[f] = "Created"
  /\ fut' = [fut EXCEPT ![f] = "Dropped"]
  /\ eng' = [eng EXCEPT !.mr[f] = "freed"]
  /\ UNCHANGED <<inflight, queue, cancels, closes, driver, hw>>

\* Drop, first access: completion.cancel() stores the flag ...
DropFlag(f) ==
  /\ f \in hw.may.drop /\ fut[f] = "Queued"
  /\ fut' = [fut EXCEPT ![f] = "Flagged"]
  /\ eng' = [eng EXCEPT !.obs[f] = StoreCancelled(@)]
  /\ UNCHANGED <<inflight, queue, cancels, closes, driver, hw>>

\* ... and drops an output that is already there.
DropTake(f) ==
  /\ fut[f] = "Flagged"
  /\ fut' = [fut EXCEPT ![f] = "Emptied"]
  /\ eng' = [eng EXCEPT !.obs[f] = TakeResult(@),
                        !.mr[f] = IF @ = "result" THEN "freed" ELSE @]
  /\ UNCHANGED <<inflight, queue, cancels, closes, driver, hw>>

Executing(f) == driver \notin {Idle, Dropped} /\ driver.f = f

\* command.upgrade(): only the queue and the executing driver own the command.
DropUpgrade(f) ==
  /\ fut[f] = "Emptied"
  /\ fut' = [fut EXCEPT ![f] = IF f \in ToSet(queue) \/ Executing(f) THEN "Upgraded" ELSE "Orphaned"]
  /\ UNCHANGED <<inflight, queue, cancels, closes, driver, eng, hw>>

\* CommandIngress::cancel_operation: a removed command takes its MR with it.
DropRemove(f) ==
  /\ fut[f] = "Upgraded"
  /\ queue' = SelectSeq(queue, LAMBDA g : g # f)
  /\ IF f \in ToSet(queue)
     THEN /\ fut' = [fut EXCEPT ![f] = "Dropped"]
          /\ eng' = [eng EXCEPT !.mr[f] = "freed"]
     ELSE /\ fut' = [fut EXCEPT ![f] = "Missed"]
          /\ UNCHANGED eng
  /\ UNCHANGED <<inflight, cancels, closes, driver, hw>>

\* completion.in_flight_token()
DropToken(f) ==
  /\ fut[f] = "Missed"
  /\ fut' = [fut EXCEPT ![f] = IF inflight[f] = {} THEN "Dropped" ELSE "HasToken"]
  /\ UNCHANGED <<inflight, queue, cancels, closes, driver, eng, hw>>

\* CoalescedQueue::push
CoalescedPush(q, x) == IF x \in ToSet(q) THEN q ELSE Append(q, x)

\* request_operation_cancel: coalesced by token.
DropPush(f) ==
  /\ fut[f] = "HasToken"
  /\ fut' = [fut EXCEPT ![f] = "Dropped"]
  /\ \E t \in inflight[f] : cancels' = CoalescedPush(cancels, t)
  /\ UNCHANGED <<inflight, queue, closes, driver, eng, hw>>

-----------------------------------------------------------------------------
(* Frontends: connections and the engine handle                            *)

\* request_connection_close
RequestConnectionClose(c) ==
  /\ c \in hw.may.close /\ ~eng.conn[c].retired /\ c \notin ToSet(closes) /\ ~eng.closed
  /\ closes' = CoalescedPush(closes, c)
  /\ UNCHANGED <<fut, inflight, queue, cancels, driver, eng, hw>>

\* request_shutdown_command
RequestShutdown ==
  /\ "shutdown" \in hw.may.events /\ ~eng.closed
  /\ eng' = [eng EXCEPT !.closed = TRUE]
  /\ UNCHANGED <<fut, inflight, queue, cancels, closes, driver, hw>>

-----------------------------------------------------------------------------
(* The driver executes one operation command                               *)

\* The driver accepts work while it is not executing a command and has not
\* published its terminal outcome.
Running == driver = Idle /\ eng.finished = "none"

\* What a command turn pops of a queue: at most its head.
Popped(served, q) == IF served /\ q # <<>> THEN {Head(q)} ELSE {}

Rest(served, q) == IF served /\ q # <<>> THEN Tail(q) ELSE q

\* service_turn_into: one close, one cancellation, then one command.  served
\* tells for which of close and command the turn has publication budget left.
\* Admission is read after the controls; if it is closed the command's MR is
\* handed back (cancel_before_execution_into), otherwise execution starts.
ServiceTurn(served, errok) ==
  /\ Running
  /\ LET close == Popped("close" \in served, closes)
         cancel == Popped(TRUE, cancels)
         command == Popped("command" \in served, queue)
         e1 == FoldSet(LAMBDA c, acc : BeginConnectionClose(acc, c, errok), eng, close)
         e2 == FoldSet(LAMBDA t, acc : CancelOperation(acc, t), e1, cancel)
     IN  /\ close # {} \/ cancel # {} \/ command # {}
         /\ eng' = IF e2.closed THEN FoldSet(LAMBDA f, acc : CompleteWithMr(acc, f), e2, command) ELSE e2
         /\ IF e2.closed \/ command = {} THEN driver' = driver
            ELSE \E f \in command : driver' = [pc |-> "start", f |-> f]
  /\ closes' = Rest("close" \in served, closes)
  /\ cancels' = Rest(TRUE, cancels)
  /\ queue' = Rest("command" \in served, queue)
  /\ UNCHANGED <<fut, inflight, hw>>

\* execute_into up to the reservations of start_operation that can fail.
Refused(f) ==
  LET k == eng.conn[ConnOf[f]]
  IN  \/ eng.obs[f].cancelled \/ ~IoIsOpen(k)
      \/ k.local = MaxWr \/ ~CanAllocate(eng) \/ eng.cqUsed = CqCapacity

\* Everything start_operation reserves, and takes back on a failed post.
Reserve(f) ==
  [Allocate(eng, NewScalar(f, ConnOf[f])) EXCEPT
     !.conn[ConnOf[f]].local = @ + 1, !.cqUsed = @ + 1, !.mr[f] = "operation"]

\* Mutant: the operation slot is released and the credits are not.
UnreserveLeaky(e, t) ==
  [ReleaseSlot(e, t, FALSE) EXCEPT !.conn[OpAt(e, t).conn].local = @ - 1]

Unreserve(e, t) ==
  [ReleaseSlot(e, t, FALSE) EXCEPT !.conn[OpAt(e, t).conn].local = @ - 1, !.cqUsed = @ - 1]

\* execute_into without a post: StartResult::Immediate hands the MR back.
StartRefused ==
  /\ driver.pc = "start" /\ Refused(driver.f)
  /\ driver' = Idle
  /\ eng' = CompleteWithMr(eng, driver.f)
  /\ UNCHANGED <<fut, inflight, queue, cancels, closes, hw>>

\* A post that fails with nothing accepted is rolled back.
StartUnaccepted ==
  /\ driver.pc = "start" /\ ~Refused(driver.f) /\ "post" \in hw.may.faults
  /\ driver' = Idle
  /\ eng' = CompleteWithMr(Unreserve(Reserve(driver.f), NextToken(eng)), driver.f)
  /\ UNCHANGED <<fut, inflight, queue, cancels, closes, hw>>

\* A post that is accepted, or whose acceptance is unknown.
StartPosted(outcome, owned) ==
  /\ driver.pc = "start" /\ ~Refused(driver.f)
  /\ outcome = "accepted" => owned
  /\ outcome = "ambiguous" => "ambiguous" \in hw.may.faults
  /\ eng' = Reserve(driver.f)
  /\ driver' = [pc |-> "commit", f |-> driver.f, t |-> NextToken(eng), outcome |-> outcome]
  /\ hw' = IF owned THEN [hw EXCEPT !.out = @ \union {[t |-> NextToken(eng), c |-> ConnOf[driver.f]]}]
           ELSE hw
  /\ UNCHANGED <<fut, inflight, queue, cancels, closes>>

\* add_accepted and commit_accepted, which reads the cancellation flag; an
\* ambiguous post is detached from its future, which gets the error.
CommitPosted ==
  /\ driver.pc = "commit"
  /\ LET t == driver.t
         cancelled == eng.obs[driver.f].cancelled
         e1 == [SetOp(eng, t, CommitAccepted(OpAt(eng, t), cancelled)) EXCEPT
                  !.accepted = @ + 1, !.conn[ConnOf[driver.f]].accepted = @ \union {t}]
         e2 == IF OpAt(e1, t).pending THEN ScheduleReclamation(e1, t) ELSE e1
         e3 == SetOp(e2, t, DetachWithPostError(OpAt(e2, t)))
         e4 == IF OpAt(e2, t).pending THEN e3 ELSE ScheduleReclamation(e3, t)
     IN  IF driver.outcome = "accepted"
         THEN eng' = e2 /\ driver' = [driver EXCEPT !.pc = "install"]
         ELSE eng' = CompleteWithoutMr(e4, driver.f) /\ driver' = Idle
  /\ UNCHANGED <<fut, inflight, queue, cancels, closes, hw>>

\* install_into publishes the token ...
Install ==
  /\ driver.pc = "install"
  /\ inflight' = [inflight EXCEPT ![driver.f] = {driver.t}]
  /\ driver' = [driver EXCEPT !.pc = "recheck"]
  /\ UNCHANGED <<fut, queue, cancels, closes, eng, hw>>

\* Mutant: the flag is not read again after the token is published.
RecheckNothing ==
  /\ driver.pc = "recheck"
  /\ driver' = Idle
  /\ UNCHANGED <<fut, inflight, queue, cancels, closes, eng, hw>>

\* ... and reads the flag again: a Drop that saw no token is served here.
Recheck ==
  /\ driver.pc = "recheck"
  /\ driver' = Idle
  /\ eng' = IF eng.obs[driver.f].cancelled THEN CancelOperation(eng, driver.t) ELSE eng
  /\ UNCHANGED <<fut, inflight, queue, cancels, closes, hw>>

-----------------------------------------------------------------------------
(* The driver services its other sources                                   *)

\* A driver step that changes the engine to e; destroyed QPs forget their work.
DriverStep(e) ==
  /\ eng' = e
  /\ hw' = [hw EXCEPT !.out = {w \in @ : ~e.conn[w.c].destroyed}]
  /\ UNCHANGED <<fut, inflight, queue, driver>>

\* Sources that a failing driver no longer services.
Serving == Running /\ ~eng.failed

\* service_cq takes one CQE of a batch.
ServiceCq(t) ==
  /\ Serving /\ t \in hw.cq
  /\ eng' = EnqueueCompletion(eng, t)
  /\ hw' = [hw EXCEPT !.cq = @ \ {t}, !.seen = IF hw.dups = 0 THEN {} ELSE @ \union {t}]
  /\ UNCHANGED <<fut, inflight, queue, cancels, closes, driver>>

\* service_completion_dispatch
CompletionDispatch(c) ==
  /\ Serving /\ c \in eng.ready
  /\ DriverStep(DispatchConnection(eng, c))
  /\ UNCHANGED <<cancels, closes>>

\* service_reclamation_deadlines: the CQE of a cancelled operation is missing.
ReclamationDeadline(t) ==
  /\ Serving /\ t \in eng.deadlines
  /\ DriverStep(QuarantineOperation([eng EXCEPT !.deadlines = @ \ {t}], t))
  /\ UNCHANGED <<cancels, closes>>

\* service_due_deadlines_into, ConnectionDrain
ConnectionDrainDeadline(c, P, destroyed) ==
  /\ Serving /\ eng.conn[c].drain
  /\ DriverStep(HandleConnectionDrainDeadline(eng, c, P, destroyed))
  /\ UNCHANGED <<cancels, closes>>

\* service_due_deadlines_into, EngineShutdown: what is retained fails the driver.
ShutdownDeadline ==
  /\ Serving /\ eng.wedge
  /\ LET e == [eng EXCEPT !.wedge = FALSE]
     IN  DriverStep(IF Retained(eng) THEN BeginFailure(e) ELSE e)
  /\ UNCHANGED <<cancels, closes>>

Retirement(c, destroyed) ==
  /\ Serving /\ eng.conn[c].retire
  /\ DriverStep(RetireRegisteredConnection([eng EXCEPT !.conn[c].retire = FALSE], c, destroyed))
  /\ UNCHANGED <<cancels, closes>>

CmDestruction(c, destroyed) ==
  /\ Serving /\ eng.conn[c].cm
  /\ DriverStep(CompleteConnectionCmDestruction(eng, c, destroyed))
  /\ UNCHANGED <<cancels, closes>>

PeerDisconnects(c, errok, destroyed) ==
  /\ Serving /\ "disconnect" \in hw.may.events /\ eng.conn[c].route = "Established"
  /\ DriverStep(HandleDisconnected(eng, c, errok, destroyed))
  /\ UNCHANGED <<cancels, closes>>

CmFails(c, errok, destroyed) ==
  /\ Serving /\ "cmfailure" \in hw.may.events /\ eng.conn[c].route \in {"Established", "Disconnected"}
  /\ DriverStep(HandleFailureEvent(eng, c, errok, destroyed))
  /\ UNCHANGED <<cancels, closes>>

\* The start of a turn takes a requested shutdown ...
TakeShutdown ==
  /\ Running /\ eng.closed /\ ~eng.failReq /\ ~eng.shutdown
  /\ DriverStep(StartShutdown(eng))
  /\ UNCHANGED <<cancels, closes>>

\* ... or a requested failure.
TakeFailure ==
  /\ Running /\ eng.failReq
  /\ DriverStep(BeginFailure(eng))
  /\ UNCHANGED <<cancels, closes>>

ShutdownConnection(c, errok) ==
  /\ Running /\ eng.shutdown /\ c \in eng.toclose
  /\ DriverStep(ServiceShutdownConnection(eng, c, errok))
  /\ UNCHANGED <<cancels, closes>>

Terminal ==
  /\ Running /\ eng.failed /\ ~eng.termDone
  /\ DriverStep(ServiceTerminal(eng))
  /\ UNCHANGED <<cancels, closes>>

\* progress_driver_terminal
Finish ==
  /\ Running /\ queue = <<>> /\ cancels = <<>> /\ closes = <<>> /\ CanFinish(eng)
  /\ DriverStep([eng EXCEPT !.finished = IF eng.failed THEN "error" ELSE "ok"])
  /\ UNCHANGED <<cancels, closes>>

\* Drop of the driver: what it cannot prove released stays allocated forever,
\* otherwise the reactor and all provider resources go.
DropDriver(destroyed) ==
  /\ "driverdrop" \in hw.may.events /\ driver = Idle
  /\ LET drained == FoldSeq(LAMBDA f, acc : CompleteWithMr(acc, f), FinishDriverDrop(eng, destroyed), queue)
         e == IF eng.finished = "none" THEN drained ELSE eng
     IN  /\ eng' = e
         /\ queue' = IF eng.finished = "none" THEN <<>> ELSE queue
         /\ hw' = [hw EXCEPT !.out = {w \in @ : ~e.conn[w.c].destroyed},
                             !.gone = ~RequiresCompleteQuarantine(e)]
  /\ driver' = Dropped
  /\ UNCHANGED <<fut, inflight, cancels, closes>>

-----------------------------------------------------------------------------
(* The provider (external)                                                 *)

\* A work request finishes, or is flushed once its QP is in error.
HwComplete(w) ==
  /\ w \in hw.out
  /\ hw' = [hw EXCEPT !.out = @ \ {w}, !.cq = @ \union {w.t}]
  /\ UNCHANGED <<fut, inflight, queue, cancels, closes, driver, eng>>

\* A CQE is reported again.
HwDuplicate(t) ==
  /\ hw.dups > 0 /\ t \in hw.seen
  /\ hw' = [hw EXCEPT !.cq = @ \union {t}, !.dups = @ - 1]
  /\ UNCHANGED <<fut, inflight, queue, cancels, closes, driver, eng>>

-----------------------------------------------------------------------------

FrontendNext ==
  \/ \E f \in Futures :
       \/ PollSubmit(f) \/ PollReady(f) \/ DropCreated(f) \/ DropFlag(f) \/ DropTake(f)
       \/ DropUpgrade(f) \/ DropRemove(f) \/ DropToken(f) \/ DropPush(f)
  \/ \E c \in Conns : RequestConnectionClose(c)
  \/ RequestShutdown

ExecuteNext ==
  \/ StartRefused \/ StartUnaccepted \/ CommitPosted \/ Install \/ Recheck
  \/ \E outcome \in {"accepted", "ambiguous"}, owned \in BOOLEAN : StartPosted(outcome, owned)

\* A deadline that reclaims at least one operation if there is one.
DrainProgress(c) ==
  \E P \in SUBSET eng.conn[c].accepted, destroyed \in Answers("destroy") :
    /\ P = {} => eng.conn[c].accepted = {}
    /\ ConnectionDrainDeadline(c, P, destroyed)

\* A deadline whose turn has no publication budget left for any operation.
DrainStarved(c) ==
  \E destroyed \in Answers("destroy") :
    /\ eng.conn[c].accepted # {} /\ ~eng.conn[c].proof
    /\ ConnectionDrainDeadline(c, {}, destroyed)

\* A command turn with enough publication budget, and one that runs short.
CommandSource == \E errok \in Answers("error") : ServiceTurn({"close", "command"}, errok)

CommandStarved ==
  \E served \in {{}, {"close"}, {"command"}}, errok \in Answers("error") : ServiceTurn(served, errok)

\* The sources of the reactor's scheduler that belong to a connection.
ShutdownSource(c) == \E errok \in Answers("error") : ShutdownConnection(c, errok)

RetirementSource(c) == \E destroyed \in Answers("destroy") : Retirement(c, destroyed)

CmSource(c) == \E destroyed \in Answers("cm") : CmDestruction(c, destroyed)

\* Its engine-wide sources.
CqSource == \E t \in hw.cq : ServiceCq(t)

ReclamationSource == \E t \in eng.deadlines : ReclamationDeadline(t)

TerminalSource == TakeShutdown \/ TakeFailure \/ Terminal \/ Finish

ServiceNext ==
  \/ CommandSource \/ ShutdownDeadline \/ CqSource \/ ReclamationSource \/ TerminalSource
  \/ \E c \in Conns :
       \/ ShutdownSource(c) \/ RetirementSource(c) \/ CmSource(c)
       \/ CompletionDispatch(c) \/ DrainProgress(c)

DriverNext == ExecuteNext \/ ServiceNext

EnvironmentNext ==
  \/ \E w \in hw.out : HwComplete(w)
  \/ \E t \in hw.seen : HwDuplicate(t)
  \/ CommandStarved
  \/ \E c \in Conns : DrainStarved(c)
  \/ \E c \in Conns, errok \in Answers("error"), destroyed \in Answers("destroy") :
       PeerDisconnects(c, errok, destroyed) \/ CmFails(c, errok, destroyed)
  \/ \E destroyed \in Answers("destroy") : DropDriver(destroyed)

Next == FrontendNext \/ DriverNext \/ EnvironmentNext

Spec == Init /\ [][Next]_vars

\* The driver task is polled as long as it has work, and each of its turns
\* serves every source that is ready (ready_sources, and the rotation of
\* FairTurn).  Executors poll woken futures, and a Drop that has begun runs to
\* its end.  Nothing is assumed of the provider: a work request may stay
\* without a CQE for ever.
Fairness ==
  /\ WF_vars(ExecuteNext) /\ WF_vars(CommandSource) /\ WF_vars(ShutdownDeadline)
  /\ WF_vars(CqSource) /\ WF_vars(ReclamationSource) /\ WF_vars(TerminalSource)
  /\ \A c \in Conns :
       /\ WF_vars(ShutdownSource(c)) /\ WF_vars(RetirementSource(c)) /\ WF_vars(CmSource(c))
       /\ WF_vars(CompletionDispatch(c)) /\ WF_vars(DrainProgress(c))
  /\ \A f \in Futures :
       /\ WF_vars(PollReady(f))
       /\ WF_vars(DropTake(f) \/ DropUpgrade(f) \/ DropRemove(f) \/ DropToken(f) \/ DropPush(f))

FairSpec == Spec /\ Fairness

-----------------------------------------------------------------------------
(* Properties                                                              *)

Operations == {OpAt(eng, t) : t \in Registered(eng)}

Lifecycles == {"Posting", "InFlight", "Cancelled", "Reclaiming", "Quarantined"}

\* The types of the engine's counters, queues and ownership states.  All the
\* saturating subtractions of the code stay within the naturals.
TypeOK ==
  /\ fut \in [Futures -> {"Created", "Queued", "Done", "Flagged", "Emptied", "Upgraded",
                          "Missed", "HasToken", "Orphaned", "Dropped"}]
  /\ \A f \in Futures : inflight[f] \subseteq Token
  /\ IsInjective(queue) /\ IsInjective(cancels)
  /\ ToSet(queue) \subseteq Futures /\ ToSet(cancels) \subseteq Token /\ ToSet(closes) \subseteq Conns
  /\ {eng.cqUsed, eng.retained, eng.accepted, eng.pending, eng.quarantined} \subseteq Nat
  /\ eng.cqUsed <= CqCapacity
  /\ \A i \in Slots : eng.slots[i].gen \in 1 .. MaxGeneration
  /\ \A op \in Operations : op.lifecycle \in Lifecycles /\ op.fut \in Futures
  /\ eng.mr \in [Futures -> {"future", "command", "operation", "result", "caller", "freed"}]
  /\ \A c \in Conns :
       /\ eng.conn[c].local \in 0 .. MaxWr
       /\ eng.conn[c].entry \in {"Active", "Draining", "Retiring", "Retired"}
       /\ eng.conn[c].quar <=> (eng.conn[c].bundle \/ eng.conn[c].qops # {})
  /\ \A w \in hw.out : w.t \in Token /\ w.c \in Conns
  /\ hw.cq \subseteq Token

\* The memory region of an operation has one owner at a time: the queued command,
\* the registered operation, or the output in the observer.  And while the provider
\* may still execute a work request, that owner is the operation registered under
\* the work request's exact token, and the provider's resources have not been
\* released (positive-proof release).
MrOwnership ==
  /\ \A w \in hw.out :
       /\ ~hw.gone
       /\ Occupied(eng, w.t)
       /\ OpAt(eng, w.t).conn = w.c
       /\ eng.mr[OpAt(eng, w.t).fut] = "operation"
  /\ \A f \in Futures :
       /\ eng.mr[f] = "command" <=> (f \in ToSet(queue) \/ (Executing(f) /\ driver.pc = "start"))
       /\ eng.mr[f] = "operation" <=> (\E op \in Operations : op.fut = f)
       /\ eng.mr[f] = "result" => eng.obs[f].result = "Ready"
       /\ fut[f] = "Created" => eng.mr[f] = "future"

CountOps(P(_)) == Cardinality({t \in Registered(eng) : P(OpAt(eng, t))})

\* Credits and counters agree with the registered operations: every CQ credit,
\* local credit, accepted entry, pending reclamation and quarantined operation
\* is accounted exactly once, so none leaks and none is returned twice.
AccountsBalance ==
  /\ eng.cqUsed = Cardinality(Registered(eng))
  /\ eng.accepted = SumFunction([c \in Conns |-> Cardinality(eng.conn[c].accepted)])
  /\ eng.pending = CountOps(LAMBDA op : op.pending)
  /\ eng.quarantined = CountOps(LAMBDA op : op.quarantined)
  /\ eng.retained = eng.quarantined
  /\ \A c \in Conns :
       LET k == eng.conn[c]
           mine == {t \in Registered(eng) : OpAt(eng, t).conn = c}
       IN  /\ k.local = Cardinality(mine)
           /\ k.accepted = {t \in mine : OpAt(eng, t).lifecycle # "Posting"}
           /\ k.qops = {t \in mine : OpAt(eng, t).quarantined}

\* Completions that were taken off the CQ are for registered operations, each
\* once, and their connection is scheduled for dispatch: none is stranded.
CompletionsRouted ==
  \A c \in Conns :
    LET queued == eng.conn[c].completions
    IN  /\ queued # <<>> => c \in eng.ready
        /\ IsInjective(queued)
        /\ \A t \in ToSet(queued) :
             Occupied(eng, t) /\ OpAt(eng, t).queued /\ OpAt(eng, t).conn = c

\* A connection leaves the registry only drained, with its QP destroyed before
\* its CM ID (the debug assertion of retire_connection_io).
RetiredIsDrained ==
  \A c \in Conns :
    LET k == eng.conn[c]
    IN  k.entry = "Retired" =>
          k.destroyed /\ ~k.cm /\ k.accepted = {} /\ k.completions = <<>> /\ k.local = 0

\* A Drop that still finds its command is never lost between the driver and
\* the frontend: once both are done with it, the operation is reclaiming.
DropServed ==
  \A f \in Futures, t \in Registered(eng) :
    /\ fut[f] = "Dropped" /\ OpAt(eng, t).fut = f
    /\ ~Executing(f) /\ t \notin ToSet(cancels)
    => OpAt(eng, t).lifecycle # "InFlight"

\* An operation that waits for reclamation has a missing-CQE deadline, so it
\* ends in quarantine if its CQE never comes.
ReclamationHasDeadline ==
  \A t \in Registered(eng) :
    OpAt(eng, t).pending => t \in eng.deadlines /\ OpAt(eng, t).lifecycle \in {"Cancelled", "Reclaiming"}

\* A bounded scan over the operations misses none of its connection, although
\* slots are allocated and recycled between its stretches.
ScansMissNothing ==
  \A op \in Operations :
    LET k == eng.conn[op.conn]
    IN  /\ k.closeScanned => ~op.observer
        /\ k.quarScanned => op.lifecycle = "Quarantined"
        /\ eng.termDone => op.lifecycle = "Quarantined" /\ ~op.observer

\* When the driver has published its outcome no future still waits, and after
\* a success nothing is left behind.
FinishedResolvesAll ==
  /\ eng.finished # "none" => \A f \in Futures : fut[f] = "Queued" => eng.obs[f].result = "Ready"
  /\ eng.finished = "ok" =>
       /\ Registered(eng) = {} /\ hw.out = {}
       /\ \A c \in Conns : eng.conn[c].entry = "Retired"

HasOutcome(c) == CloseOutcome(eng.conn[c]) # "none" \/ eng.finished # "none"

\* A close requested by a frontend gets an outcome: the connection retires,
\* its bundle is quarantined, or the engine ends; unless a missing CQE has
\* quarantined an operation of the connection: its entry then
\* stays as it is until the provider reports or the engine ends.
CloseResolves ==
  \A c \in Conns :
    c \in ToSet(closes) ~> (HasOutcome(c) \/ (eng.conn[c].quar /\ ~eng.conn[c].bundle))

\* Futures of a connection that closes get an output although the provider
\* may owe their CQEs forever.
CloseFailsFutures ==
  \A f \in Futures :
    (fut[f] = "Queued" /\ ConnOf[f] \in ToSet(closes)) ~> fut[f] # "Queued"

\* A shutdown or a failure ends: the driver publishes its terminal outcome
\* whatever the provider withholds or refuses.
ShutdownFinishes == eng.closed ~> eng.finished # "none"
=============================================================================
