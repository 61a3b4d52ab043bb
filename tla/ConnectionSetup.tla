-------------------------- MODULE ConnectionSetup --------------------------
(***************************************************************************)
(* Connection setup of the v2 engine: the frontends' listen, accept,       *)
(* connect, close and shutdown calls, their command queues, the driver     *)
(* that serves commands, software work, CM events and CM destructions in   *)
(* any order its budgets allow, and the provider with its peers.  Driver   *)
(* steps are one handler each; service_listener, process_selected_pair and *)
(* handle_route_resolved are cut where a frontend's call can be seen.      *)
(***************************************************************************)
EXTENDS Inbound, Outbound, SequencesExt

CONSTANTS
  MaxConns,   \* max_live_connections
  Scenarios   \* who takes part, how many provider calls fail, and how often
              \* users and peers strike against a setup, in the behaviours examined

ASSUME SetupAssumption ==
  Scenarios \subseteq [who : SUBSET (Accepts \cup Routes), faults : Nat, strikes : Nat]

\* The provider calls that may fail, by the step that makes them.
Faults == {"reject", "context", "build", "install", "installReject", "installDestroy",
           "param", "setup", "call", "create", "qp", "resources", "destroy"}

VARIABLE s

Init ==
  \E may \in Scenarios :
  s = [acc      |-> [a \in Accepts |-> NewRequest],
       acceptQ  |-> <<>>,                       \* queues.accept
       lst      |-> NewEntry,
       listen   |-> [fut |-> "idle", result |-> "pending", cancelled |-> FALSE, at |-> "none"],
       out      |-> [o \in Outs |-> NewConnect],
       connectQ |-> <<>>,                       \* queues.connect
       outQ     |-> <<>>,                       \* pending_outbound
       setup    |-> FALSE,                      \* an outbound setup runs
       rt       |-> [r \in Routes |-> NewRoute],
       conn     |-> [r \in Routes |-> NewConn],
       held     |-> {},                         \* connections a user owns
       net      |-> [r \in Routes |-> "none"],  \* the provider's side of a CM ID
       ev       |-> <<>>,                       \* the CM event channel
       pend     |-> <<>>,                       \* pending_event
       destr    |-> <<>>,                       \* cm_destructions
       retireQ  |-> {},
       cancelQ  |-> {},
       ctl      |-> [closeL |-> FALSE, workL |-> FALSE, cancel |-> {}, closeC |-> {}],
       pc       |-> [at |-> "idle", id |-> None],
       shut     |-> FALSE,                      \* admission closed, shutdown requested
       shutting |-> FALSE,                      \* shutdown_started
       scans    |-> {},                         \* the shutdown scans that are complete
       failed   |-> "no",                       \* begin_driver_failure: no, call, route, wedged
       ended    |-> "no",                       \* the engine's outcome: no, ok, err
       who      |-> may.who,                    \* the scenario: no step changes who,
       faults   |-> may.faults,                 \* faults and
       strikes  |-> may.strikes]                \* strikes are what is left

PermitsFree == Cardinality({r \in Routes : s.rt[r].permit}) < MaxConns

MayStrike == s.strikes > 0

Struck(t) == [t EXCEPT !.strikes = @ - 1]

-----------------------------------------------------------------------------
(* The frontends.                                                          *)

Listen ==
  /\ s.listen.fut = "idle" /\ ~s.shut
  /\ s' = [s EXCEPT !.listen.fut = "waiting", !.listen.at = "ingress"]

\* RdmaListener's close and drop: request_listener_close
CloseHandle(t) ==
  IF ~Present(t) THEN t
  ELSE [t EXCEPT !.lst.open = FALSE, !.ctl.closeL = @ \/ ~t.shut]

ListenPoll ==
  /\ s.listen.fut = "waiting" /\ s.listen.result \in {"ok", "err"}
  /\ s' = [s EXCEPT !.listen.fut = s.listen.result, !.listen.result = "taken"]

ListenDrop ==
  /\ s.listen.fut = "waiting" /\ MayStrike
  /\ LET t == [s EXCEPT !.listen.fut = "dropped", !.listen.cancelled = TRUE,
                        !.listen.result = IF @ = "pending" THEN "err" ELSE @,
                        !.listen.at = IF @ = "ingress" THEN "none" ELSE @]
     IN  s' = Struck(IF s.listen.result = "ok" THEN CloseHandle(t) ELSE t)

ListenerClose ==
  /\ s.listen.fut = "ok" /\ MayStrike
  /\ s' = Struck(CloseHandle([s EXCEPT !.listen.fut = "closed"]))

\* accept_with_setup: a permit, the admission checks, the queue
Accept(a) ==
  /\ a \in s.who /\ s.acc[a].fut = "idle" /\ s.listen.fut = "ok"
  /\ PermitFree(s) /\ s.lst.open /\ ~s.shut /\ s.ended = "no"
  /\ s' = [s EXCEPT !.acc[a].fut = "waiting", !.acc[a].permit = TRUE,
                    !.acceptQ = Append(@, a)]

\* AcceptWaiter::poll; the take and the delivered flag are one critical section
AcceptPoll(a) ==
  /\ s.acc[a].fut = "waiting" /\ s.acc[a].result \in {"ok", "err"}
  /\ LET t == [s EXCEPT !.acc[a].fut = s.acc[a].result, !.acc[a].result = "taken"]
         k == CHOOSE r \in Kids : s.rt[r].req = a
     IN  s' = IF s.acc[a].result = "err" THEN t
              ELSE [t EXCEPT !.acc[a].delivered = TRUE, !.held = @ \cup {k}, !.ctl.workL = TRUE]

AcceptDrop(a) ==
  /\ s.acc[a].fut = "waiting" /\ MayStrike
  /\ LET t == [s EXCEPT !.acc[a].fut = "dropped", !.acc[a].cancelled = TRUE]
     IN  s' = Struck(IF a \in ToSet(s.acceptQ)
                     THEN ReleasePermit([t EXCEPT !.acceptQ = Remove(@, a)], a)
                     ELSE [t EXCEPT !.ctl.workL = TRUE])

Connect(o) ==
  /\ o \in s.who /\ s.out[o].fut = "idle" /\ PermitsFree /\ ~s.shut /\ s.ended = "no"
  /\ s' = [s EXCEPT !.out[o].fut = "waiting", !.rt[o].permit = TRUE,
                    !.connectQ = Append(@, o)]

\* ConnectWaiter::poll; the delivered flag is stored after the take.
ConnectPoll(o) ==
  /\ s.out[o].fut = "waiting" /\ s.out[o].result \in {"ok", "err"}
  /\ s' = IF s.out[o].result = "err"
          THEN [s EXCEPT !.out[o].fut = "err", !.out[o].result = "taken"]
          ELSE [s EXCEPT !.out[o].fut = "taking", !.out[o].result = "taken", !.held = @ \cup {o}]

ConnectDelivered(o) ==
  /\ s.out[o].fut = "taking"
  /\ s' = [s EXCEPT !.out[o].fut = "ok", !.out[o].delivered = TRUE]

ConnectDrop(o) ==
  /\ s.out[o].fut = "waiting" /\ MayStrike
  /\ LET t == CancelConnect([s EXCEPT !.out[o].fut = "dropped"], o)
     IN  s' = Struck(IF o \in ToSet(s.connectQ)
                     THEN [t EXCEPT !.connectQ = Remove(@, o), !.rt[o].permit = FALSE]
                     ELSE [t EXCEPT !.ctl.cancel = @ \cup {o}])

ConnectionDrop(r) ==
  /\ r \in s.held /\ MayStrike
  /\ s' = Struck(DropHandle([s EXCEPT !.held = @ \ {r}], r))

\* request_shutdown_command
Shutdown ==
  /\ ~s.shut /\ MayStrike
  /\ s' = Struck([s EXCEPT !.shut = TRUE])

Frontend ==
  \/ Listen \/ ListenPoll \/ ListenDrop \/ ListenerClose \/ Shutdown
  \/ \E a \in Accepts : Accept(a) \/ AcceptPoll(a) \/ AcceptDrop(a)
  \/ \E o \in Outs : Connect(o) \/ ConnectPoll(o) \/ ConnectDelivered(o) \/ ConnectDrop(o)
  \/ \E r \in Routes : ConnectionDrop(r)

-----------------------------------------------------------------------------
(* The provider and the peers.  net[r] is none, requested, refused, addr   *)
(* and route (a resolution runs), resolved, connecting, up or down.        *)

Emit(r, type, now) == [s EXCEPT !.ev = Append(@, [type |-> type, id |-> r]), !.net[r] = now]

\* A CM ID that was not destroyed may still report.
Reports(r) == s.rt[r].cm \in {"live", "queued", "kept"}

PeerConnects(k) ==
  /\ k \in s.who /\ s.net[k] = "none" /\ s.lst.st = "active" /\ s.lst.cm \in {"live", "queued"}
  /\ s' = Emit(k, "request", "requested")

Progresses(r) ==
  /\ Reports(r)
  /\ \/ s.net[r] \in {"addr", "route"} /\ s' = Emit(r, s.net[r], "resolved")
     \/ s.net[r] = "connecting" /\ s' = Emit(r, "established", "up")

\* The peer, or the network to it, ends a setup or a connection.
PeerEnds(r) ==
  /\ Reports(r) /\ MayStrike
  /\ \/ s.net[r] \in {"addr", "route", "connecting", "up"} /\ s' = Struck(Emit(r, "failure", "down"))
     \/ s.net[r] = "up" /\ s' = Struck(Emit(r, "disconnected", "down"))

\* A peer answers the local close.
PeerAnswersClose(r) ==
  /\ Reports(r) /\ s.net[r] = "up" /\ s.conn[r].st \in {"draining", "retiring", "retired"}
  /\ s' = Emit(r, "disconnected", "down")

ListenerFails ==
  /\ s.lst.cm = "live" /\ MayStrike
  /\ s' = Struck([s EXCEPT !.ev = Append(@, [type |-> "listenFail", id |-> None])])

Provider ==
  \/ ListenerFails
  \/ \E k \in Kids : PeerConnects(k)
  \/ \E r \in Routes : Progresses(r) \/ PeerEnds(r) \/ PeerAnswersClose(r)

-----------------------------------------------------------------------------
(* The driver.                                                             *)

Runs == s.failed = "no" /\ s.ended = "no"

Serves == Runs /\ s.pc.at = "idle"

\* A step whose handler calls the provider: it succeeds, or a call fails in it.
Calls(handler(_)) ==
  \/ s' = handler("none")
  \/ \E f \in Faults :
       /\ s.faults > 0 /\ handler(f) # handler("none")
       /\ s' = [handler(f) EXCEPT !.faults = @ - 1]

\* service_turn, the controls
CloseListenerControl ==
  /\ Serves /\ s.ctl.closeL
  /\ LET t == [s EXCEPT !.ctl.closeL = FALSE]
     IN  s' = IF Present(s) /\ ~s.lst.closing THEN EnqueueWork(RequestClose(t)) ELSE t

ListenerWorkControl ==
  /\ Serves /\ s.ctl.workL
  /\ s' = EnqueueWork([s EXCEPT !.ctl.workL = FALSE])

CancelControl(o) ==
  /\ Serves /\ o \in s.ctl.cancel
  /\ s' = EnqueueCancellation([s EXCEPT !.ctl.cancel = @ \ {o}], o)

CloseConnectionControl(r) ==
  /\ Serves /\ r \in s.ctl.closeC
  /\ s' = BeginClose([s EXCEPT !.ctl.closeC = @ \ {r}], r)

\* service_turn, the commands; a closed ingress answers them with its error
ConnectCommand ==
  /\ Serves /\ s.connectQ # <<>>
  /\ LET o == Head(s.connectQ)
         t == [s EXCEPT !.connectQ = Tail(@)]
     IN  s' = IF s.shut THEN CompleteConnect([t EXCEPT !.rt[o].permit = FALSE], o, "err")
              ELSE [t EXCEPT !.outQ = Append(@, o)]

CompleteListen(t, result) ==
  IF t.listen.result = "pending" THEN [t EXCEPT !.listen.result = result] ELSE t

ListenCommand ==
  /\ Serves /\ s.listen.at = "ingress"
  /\ s' = IF s.shut THEN CompleteListen([s EXCEPT !.listen.at = "none"], "err")
          ELSE [s EXCEPT !.listen.at = "pending", !.lst.st = "reserved"]

AcceptCommand ==
  /\ Serves /\ s.acceptQ # <<>>
  /\ LET a == Head(s.acceptQ)
         t == [s EXCEPT !.acceptQ = Tail(@)]
     IN  s' = IF s.shut \/ ~Present(s) \/ IsClosing(s)
              THEN CompleteAccept(ReleasePermit(t, a), a, "err")
              ELSE EnqueueWork(RegisterWaiter(t, a))

\* service_software_class_into
Cancellation(o) ==
  /\ Serves /\ o \in s.cancelQ
  /\ LET H(f) == ProcessCancellation([s EXCEPT !.cancelQ = @ \ {o}], o, f) IN Calls(H)

Retirement(r) ==
  /\ Serves /\ r \in s.retireQ
  /\ LET H(f) == Retire(s, r, f) IN Calls(H)

OutboundStart ==
  /\ Serves /\ s.outQ # <<>> /\ ~s.setup
  /\ LET H(f) == StartOutbound([s EXCEPT !.outQ = Tail(@), !.setup = TRUE], Head(s.outQ), f)
     IN  Calls(H)

\* start_listener
StartListener(f) ==
  LET t == [s EXCEPT !.listen.at = "none"]
  IN  CASE s.listen.cancelled \/ s.shut \/ f = "create" ->
             CompleteListen(ReleaseListener(t), "err")
        [] ~(s.listen.cancelled \/ s.shut) /\ f = "call" ->
             CompleteListen(FinalizeListener(t), "err")
        [] OTHER -> CompleteListen([t EXCEPT !.lst.st = "active", !.lst.cm = "live"], "ok")

ListenStart == Serves /\ s.listen.at = "pending" /\ Calls(StartListener)

ServeListener ==
  /\ Serves /\ s.lst.work
  /\ LET H(f) == ListenerWork(s, f) IN Calls(H)

ContinueAccept ==
  /\ Runs
  /\ \/ s.pc.at = "accept"
        /\ LET H(f) == WorkDone(s, EstablishInbound(s, f)) IN Calls(H)
     \/ s.pc.at = "cancel"
        /\ LET H(f) == WorkDone(s, CancelInboundRoute([s EXCEPT !.pc = [at |-> "idle", id |-> None]],
                                                      s.pc.id, f))
           IN  Calls(H)

ContinueConnect ==
  /\ Runs
  /\ \/ s.pc.at = "connect"
        /\ LET H(f) == EstablishOutbound(s, f) IN Calls(H)
     \/ s.pc.at = "connected"
        /\ LET H(f) == ConnectIssued(s, f) IN Calls(H)

\* process_event: the deferred event first, or the next of the channel
Dispatch(t, p, f) ==
  LET e == p.event
  IN  CASE e.type = "request" -> HandleConnectRequest(t, e.id, p.ok, PermitsFree, f)
        [] e.type = "listenFail" -> HandleListenerEvent(t, p.ok)
        [] e.type \notin {"request", "listenFail"} /\ ~p.ok -> t
        [] p.ok /\ e.id \in Outs -> OutboundEvent(t, e.id, e.type, f)
        [] p.ok /\ e.id \in Kids /\ e.type = "established" -> InboundEstablished(t, e.id, f)
        [] p.ok /\ e.id \in Kids /\ e.type = "disconnected" -> InboundDisconnected(t, e.id, f)
        [] p.ok /\ e.id \in Kids /\ e.type = "failure" -> InboundFailure(t, e.id, f)

ProcessEvent ==
  /\ Serves
  /\ \/ /\ s.pend # <<>>
        /\ LET H(f) == Dispatch([s EXCEPT !.pend = <<>>], Head(s.pend), f) IN Calls(H)
     \/ /\ s.pend = <<>> /\ s.ev # <<>>
        /\ LET H(f) == Dispatch([s EXCEPT !.ev = Tail(@)], Acquire(s, Head(s.ev)), f) IN Calls(H)

\* service_cm_destructions: only after the channel was read to WouldBlock, so no
\* event is deferred when it starts.
CmDestruction ==
  /\ Serves /\ s.destr # <<>> /\ s.pend = <<>>
  /\ LET H(f) == ServiceDestruction(s, f) IN Calls(H)

\* The flushed completions of a connection in the error state.
Flush(r) ==
  /\ Runs /\ s.conn[r].wr /\ s.conn[r].st \in {"draining", "retiring"}
  /\ s' = RequestRetirement([s EXCEPT !.conn[r].wr = FALSE], r)

Driver ==
  \/ CloseListenerControl \/ ListenerWorkControl
  \/ ConnectCommand \/ ListenCommand \/ AcceptCommand
  \/ OutboundStart \/ ListenStart \/ ServeListener
  \/ ContinueAccept \/ ContinueConnect \/ ProcessEvent \/ CmDestruction
  \/ \E o \in Outs : CancelControl(o) \/ Cancellation(o)
  \/ \E r \in Routes : CloseConnectionControl(r) \/ Retirement(r) \/ Flush(r)

-----------------------------------------------------------------------------
(* Shutdown.  The scans go through the registries slot by slot.            *)

Scanned(kind, r) == [s EXCEPT !.scans = @ \cup {<<kind, r>>}]

AllScans ==
  ({"route"} \X (Outs \cap s.who)) \cup ({"conn"} \X (Routes \cap s.who)) \cup {<<"listener", None>>}

ShutdownStart ==
  /\ Serves /\ s.shut /\ ~s.shutting
  /\ s' = [s EXCEPT !.shutting = TRUE]

ShutdownPendingOutbound ==
  /\ Serves /\ s.shutting /\ s.outQ # <<>>
  /\ LET o == Head(s.outQ)
     IN  s' = CancelConnect([s EXCEPT !.outQ = Tail(@), !.rt[o].permit = FALSE], o)

ShutdownPendingListen ==
  /\ Serves /\ s.shutting /\ s.listen.at = "pending"
  /\ s' = CompleteListen(ReleaseListener([s EXCEPT !.listen.at = "none"]), "err")

ShutdownRoute(o) ==
  /\ Serves /\ s.shutting /\ <<"route", o>> \in AllScans \ s.scans
  /\ LET t == Scanned("route", o)
     IN  s' = IF HasConnectRequest(s, o) THEN EnqueueCancellation(CancelConnect(t, o), o) ELSE t

ShutdownListener ==
  /\ Serves /\ s.shutting /\ <<"listener", None>> \notin s.scans
  /\ LET t == Scanned("listener", None)
         c == RequestClose(t)
     IN  s' = IF ~Present(s) THEN t
              ELSE IF s.lst.closing /\ ~HasWork(c) THEN c ELSE EnqueueWork(c)

\* service_shutdown_connections
ShutdownConnection(r) ==
  /\ Serves /\ s.shutting /\ <<"conn", r>> \in AllScans \ s.scans
  /\ s' = BeginClose(Scanned("conn", r), r)

\* shutdown_issuance_complete and terminal_state_drained, after WouldBlock
Drained ==
  /\ s.scans = AllScans /\ s.outQ = <<>> /\ s.listen.at = "none"
  /\ s.ev = <<>> /\ s.pend = <<>> /\ s.destr = <<>> /\ ~s.lst.work /\ ~Present(s)
  /\ s.retireQ = {} /\ s.cancelQ = {} /\ s.acceptQ = <<>> /\ s.connectQ = <<>>
  /\ \A r \in Routes : s.rt[r].st \in {"none", "released"} /\ s.conn[r].st \in {"none", "gone"}
                       /\ s.rt[r].cm # "kept"

Finish ==
  /\ Serves /\ s.shutting /\ Drained
  /\ s' = [s EXCEPT !.ended = "ok"]

\* The shutdown deadline.  The model lets it fire only over what no other step
\* releases: a CM ID or a connection that is retained.
Retained == \E r \in Routes : s.rt[r].cm = "kept" \/ s.conn[r].st = "quarantined"

Deadline ==
  /\ Serves /\ s.shutting /\ Retained
  /\ s' = Fail(s, "wedged")

\* A failed driver answers what waits, in terminalize_into and the drained
\* commands, and ends.
EngineFails ==
  /\ s.failed # "no" /\ s.ended = "no"
  /\ LET waits(o) == o \in ToSet(s.connectQ) \/ o \in ToSet(s.outQ) \/ HasConnectRequest(s, o)
         t == CompleteListen(
                [s EXCEPT !.ended = "err", !.acceptQ = <<>>, !.connectQ = <<>>, !.outQ = <<>>,
                   !.listen.at = "none", !.shut = TRUE,
                   !.acc = [a \in Accepts |->
                     IF a \in ToSet(s.acceptQ)
                     THEN [s.acc[a] EXCEPT !.permit = FALSE, !.result = "err"] ELSE s.acc[a]],
                   !.out = [o \in Outs |->
                     IF waits(o) /\ s.out[o].result \in {"pending", "ok"}
                     THEN [s.out[o] EXCEPT !.cancelled = TRUE, !.result = "err"]
                     ELSE s.out[o]]], "err")
     IN  s' = IF Present(t) THEN Terminalize(t) ELSE t

ShutdownSteps ==
  \/ ShutdownStart \/ ShutdownPendingOutbound \/ ShutdownPendingListen \/ ShutdownListener
  \/ Finish \/ Deadline \/ EngineFails
  \/ \E o \in Outs : ShutdownRoute(o)
  \/ \E r \in Routes : ShutdownConnection(r)

Next == Frontend \/ Provider \/ Driver \/ ShutdownSteps

Spec == Init /\ [][Next]_s

-----------------------------------------------------------------------------
(* Properties.                                                             *)

Live == s.failed = "no" /\ s.ended = "no"

\* Every child slot, accept permit and connection permit belongs to exactly the
\* children, requests and connections that are still under way: none leaks on
\* any way out of a setup, none is given back while its owner still lives
\* (ListenerEntry::finish_selected_*, AcceptRequest::release_permit,
\* ConnectionReservation).
SlotsExact ==
  Live =>
    LET paired == IF s.lst.sel.phase = "none" THEN {} ELSE {s.lst.sel.req}
        under == {r \in Routes : \/ s.rt[r].st \in {"Pending", "AwaitAddr", "AwaitRoute"}
                                 \/ s.conn[r].st \notin {"none", "gone"}}
    IN  /\ Present(s) => s.lst.slots = Len(s.lst.kids) + Cardinality(paired)
        /\ {a \in Accepts : s.acc[a].permit}
             = ToSet(s.acceptQ) \cup ToSet(s.lst.waiters) \cup paired
        /\ {r \in Routes : s.rt[r].permit} = ToSet(s.connectQ) \cup ToSet(s.outQ) \cup under

\* A connection that accept() or connect() returned stays open as long as its
\* owner, its peer and the engine keep it: neither a listener close nor the
\* cancellation it raced with takes it back (next_action and
\* close_accepted_connection against take_result).
DeliveredStaysOpen ==
  \A r \in s.held : Live /\ ~s.shut /\ s.net[r] = "up" => s.conn[r].st = "active"

\* A CM ID is destroyed only when nothing depends on it any more: a child's peer
\* has its answer, the QP is gone, and no event that names it is unread or
\* deferred (service_cm_destructions_with_probe).
DestroyedIsSettled ==
  \A r \in Routes : s.rt[r].cm = "gone" =>
    /\ r \in Kids => s.rt[r].told # "none"
    /\ s.conn[r].st \in {"none", "gone"}
    /\ \A e \in ToSet(s.ev) \cup {p.event : p \in ToSet(s.pend)} : e.id # r

\* No step of the driver, of a poll or of a running CM operation is left.
DriverIdle ==
  \/ s.ended # "no"
  \/ /\ s.failed = "no" /\ s.pc.at = "idle" /\ ~s.lst.work /\ ~s.setup
     /\ s.ctl = [closeL |-> FALSE, workL |-> FALSE, cancel |-> {}, closeC |-> {}]
     /\ s.connectQ = <<>> /\ s.acceptQ = <<>> /\ s.outQ = <<>> /\ s.listen.at = "none"
     /\ s.ev = <<>> /\ s.pend = <<>> /\ s.destr = <<>> /\ s.retireQ = {} /\ s.cancelQ = {}
     /\ \A r \in Routes : ~(s.conn[r].wr /\ s.conn[r].st \in {"draining", "retiring"})
     /\ s.shut => s.shutting /\ s.scans = AllScans /\ ~Drained /\ ~Retained

Quiescent ==
  /\ DriverIdle
  /\ s.listen.result \notin {"ok", "err"} \/ s.listen.fut # "waiting"
  /\ \A a \in Accepts : s.acc[a].result \notin {"ok", "err"} \/ s.acc[a].fut # "waiting"
  /\ \A o \in Outs : /\ s.out[o].result \notin {"ok", "err"} \/ s.out[o].fut # "waiting"
                     /\ s.out[o].fut # "taking"
  /\ \A r \in Routes : ~Reports(r) \/ s.net[r] \notin {"addr", "route", "connecting"}

\* A QP that could not be destroyed keeps its route, and with it the pair.
PairQuarantined ==
  /\ s.lst.sel.phase = "routed" /\ s.conn[s.lst.sel.kid].st = "quarantined"
  /\ s.rt[s.lst.sel.kid].st = "Closing"

\* A connect that still waits has an answer, or one to come: what ends it at a
\* shutdown is the error that ShutdownRoute published (request.cancel_into),
\* which only its future takes.
ConnectAnswered ==
  \A o \in Outs : s.out[o].fut = "waiting" => s.out[o].result # "taken"

\* When nothing is left to do, nobody waits for what cannot come: every future
\* is answered unless it is an accept of an open listener without children, or
\* a connect whose answer process_cancellation took (ConnectAnswered); a
\* closing listener is gone and close() answered; a connection nobody owns is
\* destroyed or quarantined; a shutdown has its outcome.
NothingStuck ==
  Quiescent =>
    /\ s.listen.fut # "waiting"
    /\ \A o \in Outs : s.out[o].fut = "waiting" => s.out[o].result = "taken"
    /\ \A a \in Accepts : s.acc[a].fut = "waiting" =>
         /\ s.ended = "no"
         /\ \/ PairQuarantined
            \/ /\ Present(s) /\ ~IsClosing(s) /\ a \in ToSet(s.lst.waiters)
               /\ s.lst.kids = <<>> /\ s.lst.sel.phase = "none"
    /\ Present(s) /\ IsClosing(s) /\ s.ended = "no" => PairQuarantined
    /\ s.listen.fut = "closed" /\ ~PairQuarantined => s.lst.outcome # "none" \/ s.ended # "no"
    /\ \A r \in Routes : s.conn[r].st \notin {"none", "gone", "quarantined"}
                         => s.ended # "no" \/ r \in s.held
    /\ s.shut => s.ended # "no"
=============================================================================
