------------------------------ MODULE Inbound ------------------------------
(***************************************************************************)
(* Incoming connections (session/cm/inbound.rs): a child of the listener   *)
(* from its connect request to its delivery, rejection or close.  A child  *)
(* route k is none, Pending, Transitioning (inside process_selected_pair), *)
(* AwaitEst, EstAwait, Established, Closing, Quarantined or released.  The *)
(* parameter f names the provider call that fails in this step, if any.    *)
(***************************************************************************)
EXTENDS CmRetirement

-----------------------------------------------------------------------------
(* Rejection.                                                              *)

\* reject_child: only a child that waits for its selection is rejected here.  If
\* the provider refuses, CM ID and reservation stay and the driver fails.
RejectChild(s, k, f) ==
  IF s.rt[k].st # "Pending" THEN s
  ELSE IF f = "reject" THEN Fail([s EXCEPT !.rt[k].cm = "kept"], "call")
  ELSE Unwind([s EXCEPT !.rt[k].told = "rejected", !.net[k] = "refused"], k)

\* reject_unreserved_child, reject_raw_child
RejectUnreserved(s, k, f) ==
  IF f = "reject"
  THEN Fail([s EXCEPT !.rt[k].cm = "kept", !.rt[k].st = "released"], "call")
  ELSE Unwind([s EXCEPT !.rt[k].told = "rejected", !.net[k] = "refused"], k)

-----------------------------------------------------------------------------
(* Close of an accepted connection.                                        *)

StartClosing(s, k) ==
  [s EXCEPT !.rt[k].st = "Closing", !.rt[k].selected = TRUE, !.rt[k].req = None]

\* Mutant: a connection the frontend took meanwhile is closed under it.
CloseAcceptedAnyway(s, k, f) ==
  CloseAndRetire(StartClosing(ClaimUndelivered(s, s.rt[k].req), k), k, f)

\* close_accepted_connection: what the frontend took is left to it; otherwise the
\* accept fails and the connection is closed.
CloseAccepted(s, k, f) ==
  IF s.acc[s.rt[k].req].delivered
  THEN FinishRouteAndWork([s EXCEPT !.rt[k].st = "Established", !.rt[k].req = None], k)
  ELSE CloseAndRetire(StartClosing(ClaimUndelivered(s, s.rt[k].req), k), k, f)

CancelInboundRoute(s, k, f) ==
  IF s.rt[k].st \in {"AwaitEst", "EstAwait"} THEN CloseAccepted(s, k, f) ELSE s

\* close_after_inbound_terminal
CloseAfterTerminal(s, k, f) ==
  IF s.rt[k].st = "Established"
  THEN CloseAndRetire([s EXCEPT !.rt[k].st = "Closing", !.rt[k].selected = FALSE], k, f)
  ELSE CloseAndRetire(StartClosing(ClaimUndelivered(s, s.rt[k].req), k), k, f)

\* handle_disconnected.  In a Closing route the peer has its answer already, so
\* finish_closing_terminal finds a duplicate.
InboundDisconnected(s, k, f) ==
  IF s.rt[k].st \in {"AwaitEst", "EstAwait", "Established"} THEN CloseAfterTerminal(s, k, f) ELSE s

\* handle_failure; a pending or quarantined child keeps its state.
InboundFailure(s, k, f) ==
  IF s.rt[k].st \in {"Pending", "Closing", "Quarantined"} THEN s ELSE CloseAfterTerminal(s, k, f)

-----------------------------------------------------------------------------
(* The selected pair: process_selected_pair, in the two steps between      *)
(* which a frontend may act, before and after its last check.              *)

AcceptStopped(s, a) == s.acc[a].cancelled \/ ~Present(s) \/ IsClosing(s) \/ s.shut

\* The child is rejected, the accept fails and the pair is finished.
GiveUpPair(s, a, k, f) ==
  LET r == RejectChild(s, k, f)
  IN  IF r.failed # s.failed THEN r
      ELSE FinishSelectedRequest(CompleteAccept(r, a, "err"), a)

\* A failed install whose rollback fails keeps the bundle.
QuarantineInstall(s, a, k) ==
  CompleteAccept([s EXCEPT !.rt[k].st = "Quarantined", !.rt[k].cm = "kept",
                           !.conn[k].st = "quarantined"], a, "err")

ProcessSelected(s, a, k, f) ==
  CASE AcceptStopped(s, a) \/ f \in {"context", "build", "install"} -> GiveUpPair(s, a, k, f)
    [] ~AcceptStopped(s, a) /\ f = "installReject" ->
         Fail(FinishSelectedRequest(FailListener(QuarantineInstall(s, a, k)), a), "call")
    [] ~AcceptStopped(s, a) /\ f = "installDestroy" ->
         FinishSelectedRequest(
           QuarantineInstall([s EXCEPT !.rt[k].told = "rejected", !.net[k] = "refused"], a, k), a)
    [] OTHER ->
         [s EXCEPT !.lst.sel.phase = "routed", !.rt[k].st = "Transitioning", !.rt[k].req = a,
                   !.rt[k].ctx = TRUE, !.conn[k].st = "registered",
                   !.pc = [at |-> "accept", id |-> k]]

\* fail_selected_connection, for a connection whose accept did not succeed
FailSelected(s, k, f) ==
  IF f = "reject"
  THEN Fail(FinishRouteAndWork(FailListener(QuarantineInstall(s, s.rt[k].req, k)), k), "call")
  ELSE CloseAndRetire([s EXCEPT !.rt[k].told = "rejected", !.net[k] = "refused",
                                !.rt[k].st = "Closing", !.rt[k].selected = TRUE,
                                !.rt[k].completion = TRUE], k, f)

\* conn_param, the setup, before_establish, rdma_accept
EstablishInbound(s, f) ==
  LET k == s.pc.id
      idle == [s EXCEPT !.pc = [at |-> "idle", id |-> None]]
      set == [idle EXCEPT !.conn[k].wr = k \in Posting]
  IN  CASE f = "param" -> FailSelected(idle, k, f)
        [] f # "param" /\ (f \in {"setup", "call"} \/ AcceptStopped(s, s.rt[k].req)) ->
             FailSelected(set, k, f)
        [] OTHER -> [set EXCEPT !.rt[k].told = "accepted", !.rt[k].st = "AwaitEst",
                                !.net[k] = "connecting"]

-----------------------------------------------------------------------------
(* The listener's service: next_action and what it asks for.  A frontend   *)
(* may take the connection between the decision to cancel and the claim.   *)

\* acknowledge_accept_delivery, and the close when the route moved on.
Acknowledge(s, a, k, f) ==
  IF s.rt[k].st = "EstAwait" /\ s.rt[k].req = a
  THEN FinishRouteAndWork([s EXCEPT !.rt[k].st = "Established", !.rt[k].req = None], k)
  ELSE CancelInboundRoute(MarkRouteClosing(s, k), k, f)

\* finalize_listener; the listener of this model has a CM ID once it is active.
FinalizeListener(s) ==
  [s EXCEPT !.lst.cm = "queued",
            !.destr = Append(@, Destruction("listener", None, NewRoute))]

ServiceListener(s, f) ==
  LET n == NextAction(s)
      rejected == RejectChild(n.s, n.kid, f)
  IN  CASE n.kind = "fail"        -> CompleteAccept(n.s, n.req, "err")
        [] n.kind = "rejectChild" -> ReleaseSlot(rejected)
        [] n.kind = "process"     -> ProcessSelected(n.s, n.req, n.kid, f)
        [] n.kind = "rejectPair"  ->
             FinishSelectedRequest(CompleteAccept(rejected, n.req, "err"), n.req)
        [] n.kind = "cancel"      -> [n.s EXCEPT !.pc = [at |-> "cancel", id |-> n.kid]]
        [] n.kind = "acknowledge" -> Acknowledge(n.s, n.req, n.kid, f)
        [] n.kind = "finalize"    -> FinalizeListener(n.s)
        [] n.kind = "none"        -> n.s

\* The end of a step of the ListenerWork class: the listener is queued again if
\* has_work still finds some.
WorkDone(s, t) ==
  IF t.failed = s.failed /\ t.pc.at = "idle" /\ HasWork(t) THEN EnqueueWork(t) ELSE t

ListenerWork(s, f) == WorkDone(s, ServiceListener([s EXCEPT !.lst.work = FALSE], f))

-----------------------------------------------------------------------------
(* Events.                                                                 *)

\* handle_connect_request; known is the event's route when it was read.
HandleConnectRequest(s, k, known, free, f) ==
  LET arrived == [s EXCEPT !.rt[k].cm = "live"]
      pending == [arrived EXCEPT !.rt[k].st = "Pending", !.rt[k].permit = TRUE]
  IN  IF ~known \/ ~Present(s) \/ IsClosing(s) \/ s.shut \/ ~free \/ f = "context"
      THEN RejectUnreserved(arrived, k, f)
      ELSE LET t == IF CanAdmit(s) THEN AdmitChild(pending, k) ELSE RejectChild(pending, k, f)
           IN  WorkDone(s, t)

\* handle_event, Established
InboundEstablished(s, k, f) ==
  IF s.rt[k].st # "AwaitEst" THEN s
  ELSE IF AcceptStopped(s, s.rt[k].req) THEN CloseAccepted(s, k, f)
  ELSE CompleteAccept([s EXCEPT !.rt[k].st = "EstAwait", !.conn[k].st = "active"],
                      s.rt[k].req, "ok")

\* handle_listener_event, for a failure that is not the device's removal
HandleListenerEvent(s, known) ==
  IF ~known \/ ~Present(s) THEN s
  ELSE IF s.lst.closing THEN FailListener(s) ELSE EnqueueWork(FailListener(s))
=============================================================================
