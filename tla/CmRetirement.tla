---------------------------- MODULE CmRetirement ----------------------------
(***************************************************************************)
(* What inbound and outbound setup share (session/cm/retirement.rs and     *)
(* parts of cm/mod.rs): CM IDs that wait for destruction behind the event  *)
(* channel, and a registered connection's close and retirement.  A route   *)
(* r, its CM ID and the connection registered under it are s.rt[r] and     *)
(* s.conn[r].                                                              *)
(***************************************************************************)
EXTENDS Listener

CONSTANTS
  Outs,     \* the outgoing connects
  Posting   \* the routes whose setup posts a receive before it establishes

Routes == Kids \cup Outs

NewRoute ==
  [st         |-> "none",    \* InboundState or OutboundState; released once retired
   cm         |-> "none",    \* CM ID: none, live, queued for destruction, gone, kept
   ctx        |-> FALSE,     \* a ContextRoute names it
   permit     |-> FALSE,     \* the ConnectionReservation, later the connection's permit
   told       |-> "none",    \* a child's peer: none, rejected, accepted
   req        |-> None,      \* Closing.request
   completion |-> FALSE,     \* Closing.completion.is_some()
   selected   |-> FALSE]     \* Closing.selected

NewConn ==
  [st |-> "none",   \* none, registered, active, draining, retiring, retired, quarantined, gone
   wr |-> FALSE]    \* setup posted work that has not completed

Fail(s, why) == IF s.failed = "no" THEN [s EXCEPT !.failed = why] ELSE s

Destruction(kind, r, rt) ==
  [kind |-> kind, id |-> r, req |-> rt.req, completion |-> rt.completion,
   selected |-> rt.selected]

DeferCmId(s, r) ==
  [s EXCEPT !.rt[r].cm = "queued", !.destr = Append(@, Destruction("route", r, NewRoute))]

\* defer_cm_id, drop(reservation), retire_route
Unwind(s, r) ==
  [DeferCmId(s, r) EXCEPT !.rt[r].permit = FALSE, !.rt[r].st = "released"]

-----------------------------------------------------------------------------
(* A handle that the last frontend drops asks the reactor to close the     *)
(* connection, unless the engine's admission is closed.  For a connection  *)
(* that is already closing the request changes nothing and is left out.    *)

DropHandle(s, r) ==
  IF s.conn[r].st \in {"registered", "active"} /\ ~s.shut
  THEN [s EXCEPT !.ctl.closeC = @ \cup {r}] ELSE s

FinishInboundRetirement(s, d) ==
  LET told == IF d.req # None /\ d.completion THEN CompleteAccept(s, d.req, "err") ELSE s
  IN  IF d.selected THEN FinishRouteAndWork(told, d.id) ELSE told

\* prepare_selected_connection_close
PrepareClose(s, r) ==
  CASE s.rt[r].told = "accepted" /\ s.rt[r].st \in {"AwaitEst", "EstAwait"} ->
         ClaimUndelivered([s EXCEPT !.rt[r].st = "Closing", !.rt[r].selected = TRUE,
                                    !.rt[r].req = None],
                          s.rt[r].req)
    [] s.rt[r].told = "accepted" /\ s.rt[r].st = "Established" ->
         [s EXCEPT !.rt[r].st = "Closing", !.rt[r].selected = FALSE]
    [] OTHER -> s

\* request_retirement: a draining connection without work is queued, once.
RequestRetirement(s, r) ==
  IF s.conn[r].st = "draining" /\ ~s.conn[r].wr
  THEN [s EXCEPT !.conn[r].st = "retiring", !.retireQ = @ \cup {r}] ELSE s

BeginClose(s, r) ==
  IF s.conn[r].st \in {"none", "gone"} THEN s
  ELSE LET p == PrepareClose(s, r)
           q == IF p.conn[r].st \in {"registered", "active"}
                THEN [p EXCEPT !.conn[r].st = "draining"] ELSE p
       IN  RequestRetirement(q, r)

\* retire_outbound_route_for_retirement, retire_inbound_route_for_retirement:
\* the route states a connection may be retired from.
RetirableRoute(s, r) ==
  IF r \in Outs
  THEN s.rt[r].st \in {"EstAwait", "DiscAwait", "Disconnected", "FailAwait", "Failed", "Closing"}
  ELSE s.rt[r].st \in {"Established", "Closing"}

\* Mutant: the resources fail to go away and the listener is not told.
RetireForgettingPair(s, r, f) ==
  IF s.conn[r].st # "retiring" \/ s.conn[r].wr THEN s
  ELSE IF f = "qp"
  THEN [s EXCEPT !.conn[r].st = "quarantined", !.retireQ = @ \ {r}, !.rt[r].cm = "kept"]
  ELSE LET route == s.rt[r]
           out == [s EXCEPT !.retireQ = @ \ {r}, !.conn[r].st = "retired"]
       IN  IF ~RetirableRoute(s, r) THEN Fail(out, "route")
           ELSE IF f = "resources"
           THEN [out EXCEPT !.rt[r].st = "released", !.rt[r].cm = "kept",
                            !.conn[r].st = "quarantined"]
           ELSE [out EXCEPT !.rt[r].st = "released", !.rt[r].cm = "queued",
                            !.destr = Append(@, Destruction("conn", r, route))]

\* retire_registered_connection_into.  A QP that cannot be destroyed keeps the
\* route and the bundle; the pair the route was selected for is not finished.
Retire(s, r, f) ==
  IF s.conn[r].st # "retiring" \/ s.conn[r].wr THEN s
  ELSE IF f = "qp"
  THEN [s EXCEPT !.conn[r].st = "quarantined", !.retireQ = @ \ {r}, !.rt[r].cm = "kept"]
  ELSE LET route == s.rt[r]
           out == [s EXCEPT !.retireQ = @ \ {r}, !.conn[r].st = "retired"]
       IN  IF ~RetirableRoute(s, r) THEN Fail(out, "route")
           ELSE IF f = "resources"
           THEN FinishInboundRetirement(
                  [out EXCEPT !.rt[r].st = "released", !.rt[r].cm = "kept",
                              !.conn[r].st = "quarantined"],
                  Destruction("conn", r, route))
           ELSE [out EXCEPT !.rt[r].st = "released", !.rt[r].cm = "queued",
                            !.destr = Append(@, Destruction("conn", r, route))]

\* begin_connection_close_into, and the retirement its callers run at once when
\* the connection has no work.
CloseAndRetire(s, r, f) == Retire(BeginClose(s, r), r, f)

-----------------------------------------------------------------------------
(* service_cm_destructions_with_probe: one queued CM ID.  It is destroyed  *)
(* only behind an empty event channel; an event found there is deferred,   *)
(* with the route it names now, and the CM ID goes to the back.            *)

\* lookup_dispatch_route: a context route and an occupied slot.
Routable(s, r) == s.rt[r].ctx /\ s.rt[r].st \notin {"none", "released"}

\* Where the event leads: a child's request and a listener's failure by the
\* listener's identity, all others by their route.
Acquire(s, e) ==
  [event |-> e, ok |-> IF e.type \in {"request", "listenFail"}
                       THEN s.lst.st = "active" /\ s.lst.cm = "live"
                       ELSE Routable(s, e.id)]

\* Mutant: the CM ID is destroyed without looking at the channel first.
DestroyUnprobed(s, f) ==
  LET d == Head(s.destr)
      rest == [s EXCEPT !.destr = Tail(@)]
  IN  CASE d.kind = "route" -> [rest EXCEPT !.rt[d.id].cm = "gone", !.rt[d.id].ctx = FALSE]
        [] d.kind = "conn" ->
             FinishInboundRetirement(
               [rest EXCEPT !.rt[d.id].cm = "gone", !.rt[d.id].ctx = FALSE,
                            !.rt[d.id].permit = FALSE, !.conn[d.id].st = "gone"], d)
        [] d.kind = "listener" ->
             ReleaseListener(FinishClose([rest EXCEPT !.lst.cm = "gone"], FALSE))

ServiceDestruction(s, f) ==
  LET d == Head(s.destr)
      rest == [s EXCEPT !.destr = Tail(@)]
  IN  CASE s.ev # <<>> ->
             [s EXCEPT !.destr = Append(Tail(@), d), !.ev = Tail(@),
                       !.pend = <<Acquire(s, Head(s.ev))>>]
        [] s.ev = <<>> /\ f = "destroy" ->
             Fail(CASE d.kind = "conn" ->
                         [s EXCEPT !.rt[d.id].ctx = FALSE, !.conn[d.id].st = "quarantined"]
                    [] d.kind = "route" -> [s EXCEPT !.rt[d.id].ctx = FALSE]
                    [] d.kind = "listener" -> FinishClose(s, TRUE),
                  "call")
        [] s.ev = <<>> /\ f # "destroy" /\ d.kind = "route" ->
             [rest EXCEPT !.rt[d.id].cm = "gone", !.rt[d.id].ctx = FALSE]
        [] s.ev = <<>> /\ f # "destroy" /\ d.kind = "conn" ->
             FinishInboundRetirement(
               [rest EXCEPT !.rt[d.id].cm = "gone", !.rt[d.id].ctx = FALSE,
                            !.rt[d.id].permit = FALSE, !.conn[d.id].st = "gone"], d)
        [] s.ev = <<>> /\ f # "destroy" /\ d.kind = "listener" ->
             ReleaseListener(FinishClose([rest EXCEPT !.lst.cm = "gone"], FALSE))
=============================================================================
