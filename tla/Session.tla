------------------------------ MODULE Session ------------------------------
(***************************************************************************)
(* Connection close, drain, quarantine and retirement on the v2 driver     *)
(* (v2/engine/session/drain.rs, session/cm/retirement.rs,                  *)
(* session/cm/outbound.rs and session/progress.rs), as operators on the    *)
(* engine record e of module IoState.  Further fields of e:                *)
(*   closed     admission is closed (CommandIngress.closed)                *)
(*   failReq    a driver failure waits in the control mailbox              *)
(*   shutdown   the driver has started its shutdown                        *)
(*   failed     the driver has begun to terminalize a failure              *)
(*   toclose    connections the shutdown scan has not reached yet          *)
(*   wedge      the EngineShutdown deadline is pending                     *)
(*   termScan, termDone   cursor of the terminal scan over operations      *)
(*   finished   the terminal outcome ("none", "ok" or "error")             *)
(* Frontends see close results when the driver's turn ends; here they see  *)
(* them when the step that publishes them ends.                            *)
(***************************************************************************)
EXTENDS IoState

CONSTANTS
  ScanBudget      \* operations one bounded scan visits (32 in the code)

ASSUME SessionAssumption == ScanBudget \in Nat \ {0}

\* Mutant: the deadline is not armed.
ScheduleDrainLost(e, c) == e

\* schedule_connection_drain and schedule_connection_drain_now: deadlines may
\* fire at any later time, so the two delays are alike.
ScheduleDrain(e, c) == [e EXCEPT !.conn[c].drain = TRUE]

\* context.begin_driver_failure -> request_driver_failure
RequestFailure(e) == [e EXCEPT !.closed = TRUE, !.failReq = ~e.failed]

\* begin_driver_failure of the reactor, with prepare_failure_scan.
BeginFailure(e) ==
  [e EXCEPT !.closed = TRUE, !.failReq = FALSE, !.failed = TRUE, !.shutdown = TRUE,
            !.toclose = IF e.failed THEN @ ELSE {c \in Conns : IsOccupied(e.conn[c])}]

-----------------------------------------------------------------------------
(* Bounded scans over the operation registry                               *)

ScanEnd(e, start) == Min({start + ScanBudget, e.nextUnused})

\* Mutant: the scan goes on behind its cursor.
ScannedSkipsFirst(e, start) ==
  {t \in Registered(e) : start < t.slot /\ t.slot < ScanEnd(e, start)}

\* The operations that scan_occupied_tokens returns from a cursor.
Scanned(e, start) == {t \in Registered(e) : start <= t.slot /\ t.slot < ScanEnd(e, start)}

ScannedOf(e, c, start) == {t \in Scanned(e, start) : OpAt(e, t).conn = c}

FailObserverForClose(e, t) ==
  IF FailsObserverForClose(OpAt(e, t))
  THEN CompleteWithoutMr([e EXCEPT !.slots[t.slot].op.observer = FALSE], OpAt(e, t).fut)
  ELSE e

\* scan_close_observers_into: futures of a closing connection get an error.
ScanCloseObservers(e, c) ==
  LET start == e.conn[c].closeScan
      end == ScanEnd(e, start)
      e1 == FoldSet(LAMBDA t, acc : FailObserverForClose(acc, t), e, ScannedOf(e, c, start))
  IN  IF e.conn[c].closeScanned THEN e
      ELSE [e1 EXCEPT !.conn[c].closeScan = end, !.conn[c].closeScanned = end >= e.nextUnused]

\* scan_quarantine_operations_into
ScanQuarantineOperations(e, c) ==
  LET start == e.conn[c].quarScan
      end == ScanEnd(e, start)
      e1 == FoldSet(LAMBDA t, acc : QuarantineOperation(acc, t), e, ScannedOf(e, c, start))
  IN  IF e.conn[c].quarScanned THEN e
      ELSE [e1 EXCEPT !.conn[c].quarScan = end, !.conn[c].quarScanned = end >= e.nextUnused]

-----------------------------------------------------------------------------
(* Close                                                                   *)

\* The tail of begin_connection_close_into.
RetireIfDrained(e, c) ==
  IF e.conn[c].accepted = {} THEN [e EXCEPT !.conn[c] = RequestRetirement(@)] ELSE e

\* begin_connection_close_into; errok: the QP could be moved to ERR.
BeginConnectionClose(e, c, errok) ==
  LET first == BeginsClose(e.conn[c])
      k == TransitionToError(BeginClose(e.conn[c]), errok)
      e1 == [e EXCEPT !.conn[c] = k]
      refused == ~e.conn[c].errStarted /\ ~errok
      lost == RequestFailure([e1 EXCEPT !.conn[c] = Publish(TrackBundleQuarantine(RecordFailure(@)))])
      scanned == IF e.closed THEN e1 ELSE ScanCloseObservers(e1, c)
  IN  CASE ~IsOccupied(e.conn[c]) -> e
        [] first /\ refused       -> lost
        [] first /\ ~refused      -> RetireIfDrained(ScheduleDrain(scanned, c), c)
        [] OTHER                  -> RetireIfDrained(e, c)

-----------------------------------------------------------------------------
(* The drain deadline                                                      *)

\* The path with a QP destruction proof in hand: reclaim the accepted
\* operations P, and keep the proof while others are left.
ReclaimProven(e, c, P) ==
  LET e1 == FoldSet(LAMBDA t, acc : ReclaimAfterQpDestroy(acc, t), e, P)
  IN  IF P = e.conn[c].accepted
      THEN [e1 EXCEPT !.conn[c] = RequestRetirement(ClearBundleQuarantine([@ EXCEPT !.proof = FALSE]))]
      ELSE ScheduleDrain([e1 EXCEPT !.conn[c].proof = TRUE], c)

\* The path without one: the whole bundle is quarantined.
QuarantineBundle(e, c) ==
  LET e1 == ScanQuarantineOperations(
              [e EXCEPT !.conn[c] = PublishQuarantine(TrackBundleQuarantine(@))], c)
  IN  IF e1.conn[c].quarScanned THEN e1 ELSE ScheduleDrain(e1, c)

\* What is left once close publication, queued CQEs and an earlier quarantine
\* are out of the way; destroyed is the provider's answer to destroying the QP.
ReclaimOrQuarantine(e, c, P, destroyed) ==
  LET k == e.conn[c]
      e1 == [e EXCEPT !.conn[c] = DestroyQp(@, destroyed)]
  IN  CASE k.accepted = {} -> [e EXCEPT !.conn[c] = RequestRetirement([@ EXCEPT !.proof = FALSE])]
        [] k.accepted # {} /\ k.proof -> ReclaimProven(e, c, P)
        [] k.accepted # {} /\ ~k.proof /\ destroyed /\ ~k.destroyed -> ReclaimProven(e1, c, P)
        [] OTHER -> QuarantineBundle(e1, c)

\* handle_connection_drain_deadline_into.  P is the part of the accepted set
\* that the publication budget of the turn admits.
HandleConnectionDrainDeadline(e, c, P, destroyed) ==
  LET k == e.conn[c]
      e0 == [e EXCEPT !.conn[c].drain = FALSE]
      scanned == ScanQuarantineOperations(e0, c)
  IN  CASE ~IsOccupied(k) -> e0
        [] IsOccupied(k) /\ CloseStarted(k) /\ ~e.closed /\ ~k.closeScanned ->
             ScheduleDrain(ScanCloseObservers(e0, c), c)
        [] OTHER ->
             IF k.completions # <<>> THEN ScheduleDrain([e0 EXCEPT !.ready = @ \union {c}], c)
             ELSE IF k.quar
             THEN IF scanned.conn[c].quarScanned THEN scanned ELSE ScheduleDrain(scanned, c)
             ELSE ReclaimOrQuarantine(e0, c, P, destroyed)

-----------------------------------------------------------------------------
(* Retirement                                                              *)

\* Mutant: the CM ID goes whether or not its QP could be destroyed.
RetireRegisteredConnectionHasty(e, c, destroyed) ==
  LET k == e.conn[c]
      begun == DestroyQp([k EXCEPT !.started = TRUE], destroyed)
  IN  IF IsOccupied(k) /\ k.accepted = {} /\ k.errDone /\ BeginsRetirement(k)
      THEN [e EXCEPT !.conn[c] = [begun EXCEPT !.route = "none", !.cm = TRUE]]
      ELSE e

\* retire_registered_connection_into: the QP goes before its CM ID.  The
\* retry of a route in transition belongs to setup and is not modelled.
RetireRegisteredConnection(e, c, destroyed) ==
  LET k == e.conn[c]
      begun == DestroyQp([k EXCEPT !.started = TRUE], destroyed)
  IN  CASE ~IsOccupied(k) \/ k.accepted # {} -> e
        [] IsOccupied(k) /\ k.accepted = {} /\ ~k.errDone -> [e EXCEPT !.conn[c].retire = TRUE]
        [] OTHER ->
             IF ~BeginsRetirement(k) THEN e
             ELSE IF ~begun.destroyed
             THEN [e EXCEPT !.conn[c] = PublishDestroyQuarantine(TrackBundleQuarantine(begun))]
             ELSE [e EXCEPT !.conn[c] = [begun EXCEPT !.route = "none", !.cm = TRUE]]

\* complete_connection_cm_destruction: a failure keeps the CM ID, quarantines
\* the bundle and fails the driver.
CompleteConnectionCmDestruction(e, c, destroyed) ==
  LET k == e.conn[c]
      e1 == [e EXCEPT !.conn[c] = FinishRetirement(Release([@ EXCEPT !.cm = FALSE])),
                      !.ready = @ \ {c}]
      held == PublishDestroyQuarantine(TrackBundleQuarantine(k))
  IN  CASE destroyed /\ Releases(k) -> e1
        [] destroyed /\ ~Releases(k) ->
             [e EXCEPT !.conn[c] = [held EXCEPT !.cm = FALSE]]
        [] OTHER -> BeginFailure([e EXCEPT !.conn[c] = held])

-----------------------------------------------------------------------------
(* CM events on an established outbound connection                         *)

\* The common tail of handle_disconnected and handle_failure_event.
CloseAndRetire(e, c, errok, destroyed) ==
  LET e1 == BeginConnectionClose(e, c, errok)
  IN  IF e1.conn[c].accepted = {} THEN RetireRegisteredConnection(e1, c, destroyed) ELSE e1

HandleDisconnected(e, c, errok, destroyed) ==
  CloseAndRetire([e EXCEPT !.conn[c].ioClosed = TRUE, !.conn[c].route = "Disconnected"],
                 c, errok, destroyed)

HandleFailureEvent(e, c, errok, destroyed) ==
  CloseAndRetire([e EXCEPT !.conn[c] = [Publish(RecordFailure(@)) EXCEPT !.route = "Failed"]],
                 c, errok, destroyed)

-----------------------------------------------------------------------------
(* Shutdown and failure                                                    *)

\* Mutant: the shutdown has no deadline.
StartShutdownUntimed(e) ==
  [e EXCEPT !.shutdown = TRUE, !.toclose = {c \in Conns : IsOccupied(e.conn[c])}]

\* ensure_shutdown_started
StartShutdown(e) ==
  [e EXCEPT !.shutdown = TRUE, !.wedge = TRUE,
            !.toclose = {c \in Conns : IsOccupied(e.conn[c])}]

\* Retention, finalize_engine_without_provider and wake_close_into.
FinalizeConnection(e, c) ==
  LET k == IF e.conn[c].accepted # {} THEN TrackBundleQuarantine(e.conn[c]) ELSE e.conn[c]
  IN  IF IsOccupied(k) THEN [e EXCEPT !.conn[c] = Publish(RecordFailure(k))] ELSE e

\* service_shutdown_connections for one connection.  After a failure it goes
\* on to finalize_engine.
ServiceShutdownConnection(e, c, errok) ==
  LET e1 == BeginConnectionClose([e EXCEPT !.toclose = @ \ {c}], c, errok)
  IN  IF e.failed /\ IsOccupied(e.conn[c])
      THEN FinalizeConnection([e1 EXCEPT !.conn[c] = TransitionToError(@, errok)], c)
      ELSE e1

\* Everything that the EngineShutdown deadline finds retained.
Retained(e) == e.accepted # 0 \/ \E c \in Conns : IsOccupied(e.conn[c])

\* service_terminal: one bounded stretch of terminalize_operations.
ServiceTerminal(e) ==
  LET end == ScanEnd(e, e.termScan)
      e1 == FoldSet(LAMBDA t, acc : TerminalizeOperation(acc, t), e, Scanned(e, e.termScan))
  IN  [e1 EXCEPT !.termScan = end, !.termDone = end >= e.nextUnused]

\* Mutant: a failed driver does not wait for the terminal scan.
CanFinishEarly(e) == e.shutdown /\ e.toclose = {} /\ (e.failed \/ ~Retained(e))

\* can_finish of the I/O core and of the session.
CanFinish(e) ==
  /\ e.shutdown /\ e.toclose = {}
  /\ IF e.failed THEN e.termDone ELSE ~Retained(e)

\* synchronously_prepare_driver_drop and finish_driver_drop_into: every
\* connection is stopped, and every operation the provider owns is quarantined.
\* Whether the QPs reached ERR no longer matters.
DropConnection(e, c, destroyed) ==
  LET k == TransitionToError([e.conn[c] EXCEPT !.ioClosed = TRUE], TRUE)
  IN  IF ~IsOccupied(e.conn[c]) THEN e
      ELSE IF e.conn[c].quar THEN [e EXCEPT !.conn[c].ioClosed = TRUE]
      ELSE [e EXCEPT !.conn[c] = IF k.accepted = {} THEN DestroyQp(k, destroyed) ELSE k]

FinishDriverDrop(e, destroyed) ==
  LET e1 == FoldSet(LAMBDA c, acc : DropConnection(acc, c, destroyed), e, Conns)
      e2 == TerminalizeOperations(e1)
      e3 == FoldSet(LAMBDA c, acc : FinalizeConnection(acc, c), e2, Conns)
  IN  [e3 EXCEPT !.closed = TRUE, !.failReq = FALSE, !.failed = TRUE, !.shutdown = TRUE,
                 !.toclose = {}, !.finished = "error"]

\* requires_complete_quarantine: the dropped driver keeps its reactor alive.
RequiresCompleteQuarantine(e) == Retained(e)
=============================================================================
