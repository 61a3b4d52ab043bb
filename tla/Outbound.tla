------------------------------ MODULE Outbound ------------------------------
(***************************************************************************)
(* Outgoing connects (session/cm/outbound.rs).  A connect o is the request *)
(* s.out[o] the frontend waits on and the route s.rt[o]: none, AwaitAddr,  *)
(* AwaitRoute, Transitioning (inside handle_route_resolved), AwaitEst,     *)
(* EstAwait, DiscAwait, FailAwait, Disconnected, Failed, Closing,          *)
(* Quarantined or released.  f names the provider call that fails.         *)
(***************************************************************************)
EXTENDS CmRetirement

NewConnect ==
  [fut       |-> "idle",      \* the connect future: idle, waiting, ok, err, dropped
   result    |-> "pending",   \* CommandCompletion: pending, ok, err, taken
   cancelled |-> FALSE,
   delivered |-> FALSE,
   enqueued  |-> FALSE]       \* cancellation_enqueued

CompleteConnect(s, o, result) ==
  IF s.out[o].result = "pending" THEN [s EXCEPT !.out[o].result = result] ELSE s

\* CommandCompletion::cancel: an unobserved success is dropped for an error.
CancelConnect(s, o) ==
  LET t == [s EXCEPT !.out[o].cancelled = TRUE,
                     !.out[o].result = IF @ \in {"pending", "ok"} THEN "err" ELSE @]
  IN  IF s.out[o].result = "ok" THEN DropHandle(t, o) ELSE t

EnqueueCancellation(s, o) ==
  IF s.out[o].enqueued THEN s
  ELSE [s EXCEPT !.out[o].enqueued = TRUE, !.cancelQ = @ \cup {o}]

ConnectStopped(s, o) == s.out[o].cancelled \/ s.shut

IsEstablishing(s, o) == s.rt[o].st \in {"AwaitAddr", "AwaitRoute", "AwaitEst", "Transitioning"}

\* The request an outbound state still refers to.
HasConnectRequest(s, o) ==
  IsEstablishing(s, o) \/ s.rt[o].st \in {"EstAwait", "DiscAwait", "FailAwait"}

\* defer_cm_id, drop(reservation), retire_route, and the error for the frontend
GiveUpConnect(s, o) == CompleteConnect(Unwind(s, o), o, "err")

\* start: a CM ID that cannot be made leaves nothing, a later failure its CM ID.
StartOutbound(s, o, f) ==
  CASE s.out[o].cancelled \/ s.shutting ->
         CompleteConnect([s EXCEPT !.rt[o].permit = FALSE, !.setup = FALSE], o, "err")
    [] ~(s.out[o].cancelled \/ s.shutting) /\ f = "create" ->
         CompleteConnect([s EXCEPT !.rt[o].permit = FALSE, !.rt[o].st = "released",
                                   !.setup = FALSE], o, "err")
    [] ~(s.out[o].cancelled \/ s.shutting) /\ f = "call" ->
         GiveUpConnect([s EXCEPT !.setup = FALSE, !.rt[o].ctx = TRUE], o)
    [] OTHER -> [s EXCEPT !.rt[o].st = "AwaitAddr", !.rt[o].cm = "live", !.rt[o].ctx = TRUE,
                          !.net[o] = "addr"]

\* handle_addr_resolved
AddrResolved(s, o, f) ==
  IF s.rt[o].st # "AwaitAddr" THEN s
  ELSE IF ConnectStopped(s, o) \/ f \in {"context", "call"} THEN GiveUpConnect(s, o)
  ELSE [s EXCEPT !.rt[o].st = "AwaitRoute", !.net[o] = "route"]

\* fail_registered_connection
FailRegistered(s, o, f) ==
  CompleteConnect(CloseAndRetire([s EXCEPT !.rt[o].st = "Closing"], o, f), o, "err")

\* handle_route_resolved up to the registered connection
RouteResolved(s, o, f) ==
  CASE s.rt[o].st # "AwaitRoute" -> s
    [] s.rt[o].st = "AwaitRoute" /\ (ConnectStopped(s, o) \/ f \in {"context", "build", "install"}) ->
         GiveUpConnect(s, o)
    [] s.rt[o].st = "AwaitRoute" /\ ~ConnectStopped(s, o) /\ f = "installDestroy" ->
         CompleteConnect([s EXCEPT !.rt[o].st = "Quarantined", !.rt[o].cm = "kept",
                                   !.conn[o].st = "quarantined"], o, "err")
    [] OTHER -> [s EXCEPT !.rt[o].st = "Transitioning", !.conn[o].st = "registered",
                          !.pc = [at |-> "connect", id |-> o]]

\* conn_param, the setup, before_establish, rdma_connect
EstablishOutbound(s, f) ==
  LET o == s.pc.id
      set == [s EXCEPT !.conn[o].wr = o \in Posting]
      idle(t) == [t EXCEPT !.pc = [at |-> "idle", id |-> None]]
  IN  CASE f = "param" -> FailRegistered(idle(s), o, f)
        [] f # "param" /\ (f \in {"setup", "call"} \/ ConnectStopped(s, o)) ->
             FailRegistered(idle(set), o, f)
        [] OTHER -> [set EXCEPT !.net[o] = "connecting", !.pc.at = "connected"]

\* The check after rdma_connect.
ConnectIssued(s, f) ==
  LET o == s.pc.id
      idle == [s EXCEPT !.pc = [at |-> "idle", id |-> None]]
  IN  IF ConnectStopped(s, o) THEN FailRegistered(idle, o, f)
      ELSE [idle EXCEPT !.rt[o].st = "AwaitEst"]

\* handle_established
OutboundEstablished(s, o, f) ==
  IF s.rt[o].st # "AwaitEst" THEN s
  ELSE IF ConnectStopped(s, o) THEN FailRegistered(s, o, f)
  ELSE CompleteConnect([s EXCEPT !.rt[o].st = "EstAwait", !.conn[o].st = "active"], o, "ok")

\* handle_disconnected
OutboundDisconnected(s, o, f) ==
  CASE s.rt[o].st = "AwaitEst" -> FailRegistered(s, o, f)
    [] s.rt[o].st = "EstAwait" ->
         CloseAndRetire([s EXCEPT !.rt[o].st = IF s.out[o].delivered THEN "Disconnected"
                                               ELSE "DiscAwait"], o, f)
    [] OTHER -> s

\* handle_failure_event
OutboundFailure(s, o, f) ==
  CASE s.rt[o].st \in {"AwaitAddr", "AwaitRoute"} -> GiveUpConnect(s, o)
    [] s.rt[o].st = "AwaitEst" -> FailRegistered(s, o, f)
    [] s.rt[o].st \in {"EstAwait", "DiscAwait"} ->
         CloseAndRetire([s EXCEPT !.rt[o].st = IF s.out[o].delivered THEN "Failed"
                                               ELSE "FailAwait"], o, f)
    [] s.rt[o].st = "Disconnected" -> CloseAndRetire([s EXCEPT !.rt[o].st = "Failed"], o, f)
    [] OTHER -> s

\* handle_event: the handler, then finish_outbound_setup once the route is no
\* longer establishing or its route was resolved.
OutboundEvent(s, o, type, f) ==
  LET t == CASE type = "addr"         -> AddrResolved(s, o, f)
             [] type = "route"        -> RouteResolved(s, o, f)
             [] type = "established"  -> OutboundEstablished(s, o, f)
             [] type = "disconnected" -> OutboundDisconnected(s, o, f)
             [] type = "failure"      -> OutboundFailure(s, o, f)
  IN  IF t.failed = s.failed
         /\ (type \in {"failure", "route", "established"} \/ ~IsEstablishing(t, o))
      THEN [t EXCEPT !.setup = FALSE] ELSE t

\* process_cancellation: an established connection nobody took is closed.  The
\* request's answer is taken with it.
ProcessCancellation(s, o, f) ==
  IF s.rt[o].st \notin {"EstAwait", "DiscAwait", "FailAwait"} THEN s
  ELSE [CloseAndRetire([s EXCEPT !.rt[o].st = "Closing"], o, f) EXCEPT !.out[o].result = "taken"]
=============================================================================
