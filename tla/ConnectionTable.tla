--------------------------- MODULE ConnectionTable ---------------------------
(***************************************************************************)
(* The v2 connection registry as a whole (v2/engine/session/registry.rs):  *)
(* admission permits, slots and tokens, the index from QP number to token, *)
(* the count of CM routes, and the gauge that publishes how many           *)
(* connections are in which state (session/connection/mod.rs).             *)
(*                                                                         *)
(* One connection's lifecycle is ConnectionRegistry's; here many of them   *)
(* come, fail at every step of their setup, close, are quarantined and     *)
(* retire, in slots and under QP numbers that others used before.  A       *)
(* handler is an operator from world to world, w = [reg, tbl].  Which CM   *)
(* event or command runs it, and when, is ConnectionSetup's matter.        *)
(***************************************************************************)
EXTENDS PagedRegistry, ConnectionRegistry

CONSTANTS
  QpNum,     \* the QP numbers the provider hands out
  Ops        \* work requests of one connection that may be accepted at once

VARIABLE tbl

\* ConnectionReservation.  A frontend's reservation has no gauge yet.
NewReservation(gauged) ==
  [state |-> "Establishing", counted |-> FALSE, diag |-> gauged, indexed |-> FALSE]

\* An entry whose connection is still being set up has no QP.
NewEntry(kind, res) ==
  [ kind |-> kind, entry |-> "Setup", started |-> FALSE, quar |-> FALSE, bundle |-> FALSE,
    route |-> TRUE, retire |-> FALSE, cm |-> FALSE, qp |-> "none", destroyed |-> FALSE,
    errStarted |-> FALSE, errDone |-> FALSE, ioClosed |-> FALSE,
    accepted |-> {}, qops |-> {}, res |-> res ]

FreeEntry == [entry |-> "Free"]

NoToken == [slot |-> 0, gen |-> 0]

NoGauge == [live |-> 0, establishing |-> 0, established |-> 0, draining |-> 0, qps |-> 0, bundles |-> 0]

\* new_with_admission
NewTable ==
  [ entry   |-> [s \in Slot |-> FreeEntry],
    index   |-> [q \in QpNum |-> NoToken],    \* qp_index
    routes  |-> 0,                            \* route_count
    gauge   |-> NoGauge,                      \* ConnectionDiagnosticsGauge
    permits |-> Capacity,                     \* admission
    queued  |-> 0,                            \* reservations of outbound requests not yet started
    qps     |-> {},                           \* QPs that exist at the provider
    failed  |-> FALSE ]                       \* driver failure: admission is closed

InUse(k) == k.entry # "Free"

HasConnection(k) == k.entry \notin {"Setup", "Free"}

-----------------------------------------------------------------------------
(* The gauge                                                               *)

B(condition) == IF condition THEN 1 ELSE 0

Contribution(res) ==
  [ live         |-> 0,
    establishing |-> B(res.state = "Establishing"),
    established  |-> B(res.state = "Established"),
    draining     |-> B(res.state \in {"Draining", "QuarantinedDraining"}),
    qps          |-> B(res.counted),
    bundles      |-> B(res.state \in {"QuarantinedEstablishing", "QuarantinedEstablished",
                                      "QuarantinedDraining"}) ]

AddSnapshot(g, c) == [f \in DOMAIN g |-> g[f] + c[f]]

\* saturating_sub
SubSnapshot(g, c) == [f \in DOMAIN g |-> IF g[f] < c[f] THEN 0 ELSE g[f] - c[f]]

AddLive(g) == [g EXCEPT !.live = @ + 1]

\* ConnectionReservation::update: only an indexed reservation is counted.
Transition(g, old, new) ==
  IF new.diag /\ new.indexed
  THEN AddSnapshot(SubSnapshot(g, Contribution(old)), Contribution(new))
  ELSE g

\* Drop for ConnectionReservation: off the gauge, and the permit is free again.
DropReservation(tb, res) ==
  LET g == IF res.indexed THEN SubSnapshot(tb.gauge, Contribution(res)) ELSE tb.gauge
  IN  [tb EXCEPT !.permits = @ + 1,
                 !.gauge   = IF res.diag THEN [g EXCEPT !.live = IF @ = 0 THEN 0 ELSE @ - 1] ELSE g]

\* mark_indexed of the reservation in slot s.
MarkIndexed(tb, s) ==
  LET res == tb.entry[s].res
      g   == IF res.diag THEN tb.gauge ELSE AddLive(tb.gauge)
  IN  IF res.indexed THEN tb
      ELSE [tb EXCEPT !.entry[s].res = [res EXCEPT !.diag = TRUE, !.indexed = TRUE],
                      !.gauge        = AddSnapshot(g, Contribution(res))]

\* The reservation in slot s becomes res.
UpdateReservation(tb, s, res) ==
  [tb EXCEPT !.entry[s].res = res, !.gauge = Transition(@, tb.entry[s].res, res)]

MarkRegistered(res) ==
  IF res.state = "Establishing" THEN [res EXCEPT !.state = "Established", !.counted = TRUE] ELSE res

MarkDraining(res) ==
  [res EXCEPT !.state = CASE @ = "Established" -> "Draining"
                          [] @ = "QuarantinedEstablished" -> "QuarantinedDraining"
                          [] OTHER -> @]

RollbackDraining(res) ==
  [res EXCEPT !.state = CASE @ = "Draining" -> "Established"
                          [] @ = "QuarantinedDraining" -> "QuarantinedEstablished"
                          [] OTHER -> @]

\* retain_setup_quarantine is the same.
MarkQuarantined(res) ==
  [res EXCEPT !.state = CASE @ = "Establishing" -> "QuarantinedEstablishing"
                          [] @ = "Established" -> "QuarantinedEstablished"
                          [] @ = "Draining" -> "QuarantinedDraining"
                          [] OTHER -> @,
              !.counted = FALSE]

RecoverQuarantine(res, qpLive) ==
  CASE res.state = "QuarantinedEstablished" -> [res EXCEPT !.state = "Established", !.counted = qpLive]
    [] res.state = "QuarantinedDraining" -> [res EXCEPT !.state = "Draining", !.counted = qpLive]
    [] OTHER -> res

-----------------------------------------------------------------------------
(* Slots, routes and quarantine                                            *)

TokenOf(w, s) == [slot |-> s, gen |-> w.reg.slots[s].gen]

SetEntry(w, s, k) == [w EXCEPT !.tbl.entry[s] = k]

Fail(w) == [w EXCEPT !.tbl.failed = TRUE]

\* register_outbound, register_inbound: the entry's route is counted, and its
\* reservation indexed when the route holds one.
RegisterRoute(w, k, indexed) ==
  LET s == NextSlot(w.reg)
      b == [w.tbl EXCEPT !.entry[s] = k, !.routes = @ + 1]
  IN  [reg |-> Allocated(w.reg), tbl |-> IF indexed THEN MarkIndexed(b, s) ELSE b]

\* release_route of an entry without a connection frees its slot.
ReleaseSetup(w, s, completed) ==
  [ reg |-> Released(w.reg, TokenOf(w, s), completed),
    tbl |-> [w.tbl EXCEPT !.entry[s] = FreeEntry, !.routes = IF @ = 0 THEN 0 ELSE @ - 1] ]

\* The setup in slot s is over: its reservation is dropped, its slot freed.
AbandonSetup(w, s, completed) ==
  ReleaseSetup([w EXCEPT !.tbl = DropReservation(@, w.tbl.entry[s].res)], s, completed)

\* release_route of an entry with a connection only takes its route.
DropRoute(w, s) ==
  LET k == w.tbl.entry[s]
  IN  IF k.route /\ k.entry # "Registered"
      THEN [w EXCEPT !.tbl.entry[s].route = FALSE, !.tbl.routes = IF @ = 0 THEN 0 ELSE @ - 1]
      ELSE w

\* track_bundle_quarantine: the reservation is marked the first time only.
QuarantineBundle(w, s) ==
  LET k == w.tbl.entry[s]
      v == SetEntry(w, s, TrackBundleQuarantine(k))
  IN  IF k.bundle THEN w
      ELSE [v EXCEPT !.tbl = UpdateReservation(@, s, MarkQuarantined(k.res))]

\* clear_bundle_quarantine
RecoverBundle(w, s) ==
  LET k == w.tbl.entry[s]
      v == SetEntry(w, s, ClearBundleQuarantine(k))
  IN  IF k.quar /\ k.bundle
      THEN [v EXCEPT !.tbl = UpdateReservation(@, s, RecoverQuarantine(k.res, ~k.destroyed))]
      ELSE w

\* record_qp_destroyed
RecordQpDestroyed(w, s) ==
  LET k == w.tbl.entry[s]
      v == [w EXCEPT !.tbl.entry[s].destroyed = TRUE, !.tbl.qps = @ \ {k.qp}]
  IN  IF k.destroyed THEN w
      ELSE [v EXCEPT !.tbl = UpdateReservation(@, s, [k.res EXCEPT !.counted = FALSE])]

\* The connection's last accepted operation is settled: apply_session's drained.
Drained(w, s) ==
  IF CloseStarted(w.tbl.entry[s])
  THEN LET v == RecoverBundle(w, s) IN SetEntry(v, s, RequestRetirement(v.tbl.entry[s]))
  ELSE w

-----------------------------------------------------------------------------
(* Setup                                                                   *)

World == [reg |-> reg, tbl |-> tbl]

Become(w) == reg' = w.reg /\ tbl' = w.tbl

\* reserve_connect: a frontend takes a permit for its outbound request.
Reserve ==
  /\ ~ tbl.failed /\ tbl.permits > 0
  /\ Become([World EXCEPT !.tbl.permits = @ - 1, !.tbl.queued = @ + 1])

Dequeued(w) == [w EXCEPT !.tbl.queued = @ - 1]

\* start: a request that was cancelled, or that finds no slot, gives its permit
\* back; one whose CM ID cannot be created also its slot.
StartOutbound(cancelled, memory, cmOk) ==
  LET w   == Dequeued(World)
      res == NewReservation(FALSE)
      v   == RegisterRoute(w, NewEntry("out", res), FALSE)
  IN  /\ tbl.queued > 0
      /\ Become(IF cancelled \/ ~ CanAllocate(reg, memory)
                THEN [w EXCEPT !.tbl = DropReservation(@, res)]
                ELSE IF cmOk THEN v
                ELSE AbandonSetup(v, NextSlot(reg), FALSE))

\* The CONNECT_REQUEST of a child: reserve_connection, then register_inbound.
\* A child without a permit or after a failure is rejected without an entry.
InboundChild(memory) ==
  LET res == NewReservation(TRUE)
      w   == [World EXCEPT !.tbl.permits = @ - 1, !.tbl.gauge = AddLive(@)]
  IN  /\ ~ tbl.failed /\ tbl.permits > 0
      /\ Become(IF CanAllocate(reg, memory)
                THEN RegisterRoute(w, NewEntry("in", res), TRUE)
                ELSE Fail([w EXCEPT !.tbl = DropReservation(@, res)]))

InSetup(s) == tbl.entry[s].entry = "Setup" /\ ~ tbl.entry[s].quar

\* Address or route resolution failed, was cancelled, or the QP was not built.
SetupFails(s) ==
  /\ InSetup(s) /\ tbl.entry[s].kind = "out"
  /\ Become(AbandonSetup(World, s, TRUE))

\* reject_child; a child whose rejection fails stays, quarantined.
RejectChild(s, ok) ==
  /\ InSetup(s) /\ tbl.entry[s].kind = "in"
  /\ Become(IF ok THEN AbandonSetup(World, s, TRUE) ELSE Fail(QuarantineBundle(World, s)))

\* Mutant: the index is not consulted.
ValidateQpUnindexed(w, q) == TRUE

\* validate_qp: a destroyed QP's number is taken until its entry is released.
ValidateQp(w, q) == w.tbl.index[q] = NoToken

\* attach_registered of a new ConnectionState.
Attach(w, s, q) ==
  LET k == w.tbl.entry[s]
      b == UpdateReservation(w.tbl, s, MarkRegistered(k.res))
  IN  [w EXCEPT !.tbl = MarkIndexed([b EXCEPT !.entry[s].entry = "Registered",
                                              !.entry[s].qp    = q,
                                              !.index[q]       = TokenOf(w, s)], s)]

\* The installation failed: the child is rejected, then the QP destroyed, and
\* what cannot be undone is retained with its reservation.
FailedInstall(w, s, q, rejectOk, destroyOk) ==
  LET inbound  == w.tbl.entry[s].kind = "in"
      retained == QuarantineBundle(w, s)
  IN  CASE inbound /\ ~ rejectOk -> Fail(retained)
        [] (inbound => rejectOk) /\ destroyOk ->
             AbandonSetup([w EXCEPT !.tbl.qps = @ \ {q}], s, ~ inbound)
        [] (inbound => rejectOk) /\ ~ destroyOk -> retained

\* install_reserved_connection with a QP the provider just created; accepted is
\* the verdict on the configuration and the QP's capabilities.
Install(s, q, accepted, rejectOk, destroyOk) ==
  LET w == [World EXCEPT !.tbl.qps = @ \union {q}]
  IN  /\ InSetup(s) /\ q \notin tbl.qps
      /\ Become(IF accepted /\ ValidateQp(w, q) THEN Attach(w, s, q)
                ELSE FailedInstall(w, s, q, rejectOk, destroyOk))

-----------------------------------------------------------------------------
(* A registered connection                                                 *)

Connected(s) == HasConnection(tbl.entry[s])

MarkActive(s) ==
  /\ Connected(s) /\ tbl.entry[s].entry = "Registered" /\ ~ tbl.entry[s].quar
  /\ Become([World EXCEPT !.tbl.entry[s].entry = "Active"])

\* The provider accepts a work request of the setup or of a frontend.
AcceptOp(s, o) ==
  /\ Connected(s) /\ BeginsClose(tbl.entry[s]) /\ ~ tbl.entry[s].ioClosed
  /\ o \notin tbl.entry[s].accepted
  /\ Become([World EXCEPT !.tbl.entry[s].accepted = @ \union {o}])

\* OperationQuarantineEffect::Added
QuarantineOp(s, o) ==
  /\ Connected(s) /\ o \in tbl.entry[s].accepted \ tbl.entry[s].qops
  /\ Become(SetEntry(World, s, TrackOperationQuarantine(tbl.entry[s], o)))

\* The operations in done are settled: Cleared effects first, then drained.
Settled(w, s, done) ==
  LET k == w.tbl.entry[s]
      c == IF k.quar /\ k.qops \intersect done # {}
           THEN [k EXCEPT !.qops = @ \ done, !.quar = k.bundle \/ k.qops \ done # {}]
           ELSE k
      v == SetEntry(w, s, [c EXCEPT !.accepted = @ \ done])
  IN  IF k.accepted \subseteq done THEN Drained(v, s) ELSE v

\* A completion settles one operation.
CompleteOp(s, o) ==
  /\ Connected(s) /\ o \in tbl.entry[s].accepted
  /\ Become(Settled(World, s, {o}))

\* fail_selected_connection could not reject the child.
RejectSelected(s) ==
  /\ Connected(s) /\ tbl.entry[s].kind = "in" /\ tbl.entry[s].entry = "Registered"
  /\ Become(Fail(QuarantineBundle(World, s)))

\* Mutant: the draining count is not rolled back.
FailedCloseCounted(w, s) ==
  LET k == w.tbl.entry[s]
      v == SetEntry(w, s, [k EXCEPT !.quar = TRUE, !.bundle = TRUE])
  IN  [v EXCEPT !.tbl = UpdateReservation(@, s, MarkQuarantined(k.res))]

\* fail_close_into_quarantine
FailedClose(w, s) ==
  LET k == w.tbl.entry[s]
      v == SetEntry(w, s, [k EXCEPT !.quar = TRUE, !.bundle = TRUE])
  IN  [v EXCEPT !.tbl = UpdateReservation(@, s, MarkQuarantined(RollbackDraining(k.res)))]

\* begin_connection_close_into; ok is the QP's transition to the error state.
CloseConnection(s, ok) ==
  LET k == TransitionToError(BeginClose(tbl.entry[s]), ok)
      w == [SetEntry(World, s, k) EXCEPT !.tbl = UpdateReservation(@, s, MarkDraining(k.res))]
  IN  /\ Connected(s) /\ BeginsClose(tbl.entry[s])
      /\ Become(IF ~ ok THEN Fail(FailedClose(w, s))
                ELSE IF k.accepted = {} THEN SetEntry(w, s, RequestRetirement(w.tbl.entry[s]))
                ELSE w)

\* handle_connection_drain_deadline_into: the QP is destroyed and its accepted
\* operations reclaimed, or the bundle is quarantined with all of them.
DrainDeadline(s, ok) ==
  LET k == tbl.entry[s]
      q == QuarantineBundle(World, s)
  IN  /\ Connected(s) /\ CloseStarted(k) /\ k.errDone /\ ~ k.quar /\ k.accepted # {}
      /\ Become(IF ok /\ ~ k.destroyed THEN Settled(RecordQpDestroyed(World, s), s, k.accepted)
                ELSE [q EXCEPT !.tbl.entry[s].qops = k.accepted])

\* The engine has failed: a connection with accepted work keeps its bundle.
RetainForFailure(s) ==
  /\ Connected(s) /\ tbl.failed /\ tbl.entry[s].accepted # {}
  /\ Become(QuarantineBundle(World, s))

-----------------------------------------------------------------------------
(* Retirement                                                              *)

\* retire_registered_connection_into; fault names the step that fails.  A
\* route that is not ready for retirement fails the driver.
Retire(s, fault) ==
  LET k == tbl.entry[s]
      w == SetEntry(World, s, [k EXCEPT !.started = TRUE, !.retire = FALSE, !.ioClosed = TRUE])
      d == RecordQpDestroyed(w, s)
      r == DropRoute(d, s)
  IN  /\ Connected(s) /\ BeginsRetirement(k) /\ k.accepted = {} /\ k.errDone
      /\ Become(CASE fault = "qp" /\ ~ k.destroyed -> QuarantineBundle(w, s)
                  [] fault = "route" -> Fail(d)
                  [] fault = "resources" -> QuarantineBundle(r, s)
                  [] fault = "reject" /\ k.kind = "in" ->
                       Fail(QuarantineBundle([r EXCEPT !.tbl.entry[s].cm = TRUE], s))
                  [] OTHER -> [r EXCEPT !.tbl.entry[s].cm = TRUE])

\* release: index, slot, a route that is left, reservation.
ReleaseConnection(w, s) ==
  LET k == w.tbl.entry[s]
      b == DropReservation(w.tbl, k.res)
  IN  [ reg |-> Released(w.reg, TokenOf(w, s), TRUE),
        tbl |-> [b EXCEPT !.entry[s]    = FreeEntry,
                          !.index[k.qp] = NoToken,
                          !.routes      = IF k.route THEN @ - 1 ELSE @] ]

\* complete_connection_cm_destruction: a CM ID that is not destroyed stays
\* pending, and an entry quarantined meanwhile is not released.
FinishCm(s, ok) ==
  LET k == tbl.entry[s]
      w == [World EXCEPT !.tbl.entry[s].cm = FALSE]
  IN  /\ Connected(s) /\ k.cm
      /\ Become(IF ~ ok THEN Fail(QuarantineBundle(World, s))
                ELSE IF Releases(k) THEN ReleaseConnection(w, s)
                ELSE Fail(w))

-----------------------------------------------------------------------------
Faults == {"none", "qp", "route", "resources", "reject"}

Init == reg = NewRegistry /\ tbl = NewTable

Next ==
  \/ Reserve
  \/ \E cancelled, memory, ok \in BOOLEAN : StartOutbound(cancelled, memory, ok)
  \/ \E memory \in BOOLEAN : InboundChild(memory)
  \/ \E s \in Slot :
       \/ SetupFails(s)
       \/ \E ok \in BOOLEAN : RejectChild(s, ok)
       \/ \E q \in QpNum, accepted, rejectOk, destroyOk \in BOOLEAN :
            Install(s, q, accepted, rejectOk, destroyOk)
       \/ MarkActive(s)
       \/ \E o \in Ops : AcceptOp(s, o)
       \/ \E o \in Ops : QuarantineOp(s, o)
       \/ \E o \in Ops : CompleteOp(s, o)
       \/ RejectSelected(s)
       \/ \E ok \in BOOLEAN : CloseConnection(s, ok)
       \/ \E ok \in BOOLEAN : DrainDeadline(s, ok)
       \/ RetainForFailure(s)
       \/ \E fault \in Faults : Retire(s, fault)
       \/ \E ok \in BOOLEAN : FinishCm(s, ok)

Spec == Init /\ [][Next]_<<reg, tbl>>

-----------------------------------------------------------------------------
(* Properties                                                              *)

Count(P(_)) == Cardinality({s \in Slot : InUse(tbl.entry[s]) /\ P(tbl.entry[s])})

\* The counts that diagnostics publishes are those of the entries themselves,
\* however a connection came to its state and whatever failed on the way: the
\* saturating arithmetic of the gauge hides no double count.  A permit is out
\* for every queued request and every entry, so an admitted request finds a
\* slot unless slots have been retired.  An outbound setup is not on the gauge,
\* also when it is quarantined.
GaugeExact ==
  LET OutSetup(k) == k.kind = "out" /\ k.entry = "Setup"
  IN  /\ tbl.gauge.live = Count(LAMBDA k : ~ OutSetup(k))
      /\ tbl.gauge.establishing = Count(LAMBDA k : k.kind = "in" /\ k.entry = "Setup" /\ ~ k.bundle)
      /\ tbl.gauge.established = Count(LAMBDA k : HasConnection(k) /\ ~ k.bundle /\ ~ k.errDone)
      /\ tbl.gauge.draining = Count(LAMBDA k : HasConnection(k) /\ k.errDone)
      /\ tbl.gauge.qps = Count(LAMBDA k : HasConnection(k) /\ ~ k.destroyed /\ ~ k.bundle)
      /\ tbl.gauge.bundles = Count(LAMBDA k : k.bundle /\ ~ OutSetup(k))
      /\ Capacity - tbl.permits = tbl.queued + Count(LAMBDA k : TRUE)

\* A completion's QP number leads to the connection that owns the QP and to no
\* other, although the provider reuses numbers: the index holds exactly the
\* entries with a connection, each under its token.  The entries themselves
\* are those of held tokens, and route_count counts the routes.
IndexExact ==
  /\ \A s \in Slot :
       InUse(tbl.entry[s]) <=> TokenOf(World, s) \in reg.held
  /\ \A s \in Slot : Connected(s) => tbl.index[tbl.entry[s].qp] = TokenOf(World, s)
  /\ \A q \in QpNum :
       tbl.index[q] # NoToken =>
         Connected(tbl.index[q].slot) /\ tbl.entry[tbl.index[q].slot].qp = q
  /\ tbl.routes = Count(LAMBDA k : k.route)
=============================================================================
