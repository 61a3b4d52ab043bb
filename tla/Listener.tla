------------------------------ MODULE Listener ------------------------------
(***************************************************************************)
(* A listener of the v2 engine (session/listener.rs): its accept requests, *)
(* its two queues and the one pair it has selected.  The operators take    *)
(* and return the whole setup state s; s.acc holds the accept requests and *)
(* s.lst the ListenerEntry with its ListenerAdmission.                     *)
(***************************************************************************)
EXTENDS Naturals, Sequences, FiniteSets

CONSTANTS
  Accepts,  \* the calls of accept()
  Kids,     \* the incoming connections (children of the listener)
  Backlog,  \* the listener's backlog: accept permits, and child slots
  None

-----------------------------------------------------------------------------
(* AcceptRequest and its observer.                                         *)

NewRequest ==
  [fut       |-> "idle",      \* the accept future: idle, waiting, ok, err, dropped
   result    |-> "pending",   \* TakeOnceResult: pending, ok, err, taken
   cancelled |-> FALSE,
   delivered |-> FALSE,
   permit    |-> FALSE]       \* the backlog permit it holds

CompleteAccept(s, a, result) ==
  IF s.acc[a].result = "pending" THEN [s EXCEPT !.acc[a].result = result] ELSE s

\* An undelivered success becomes a failure (its connection handle goes back
\* to the caller); what the frontend already took stays taken.
ClaimUndelivered(s, a) ==
  IF s.acc[a].result \in {"pending", "ok"} THEN [s EXCEPT !.acc[a].result = "err"] ELSE s

ReleasePermit(s, a) == [s EXCEPT !.acc[a].permit = FALSE]

PermitFree(s) == Cardinality({a \in Accepts : s.acc[a].permit}) < Backlog

-----------------------------------------------------------------------------
(* ListenerEntry.                                                          *)

NoPair == [phase |-> "none", req |-> None, kid |-> None, cancelStarted |-> FALSE]

NewEntry ==
  [st         |-> "none",   \* none, reserved (a token only), active, released
   cm         |-> "none",   \* its CM ID: none, live, queued for destruction, gone
   open       |-> TRUE,     \* admission.open, which the frontend closes
   closing    |-> FALSE,
   finalizing |-> FALSE,
   failed     |-> FALSE,    \* failure.is_some()
   waiters    |-> <<>>,
   kids       |-> <<>>,
   sel        |-> NoPair,
   slots      |-> 0,        \* child_slots_used
   work       |-> FALSE,    \* work_enqueued: the token is in listener_work
   outcome    |-> "none"]   \* SessionListenerCloseState

Present(s) == s.lst.st \in {"reserved", "active"}

IsClosing(s) == s.lst.closing \/ ~s.lst.open

EnqueueWork(s) == IF Present(s) THEN [s EXCEPT !.lst.work = TRUE] ELSE s

SelectPair(s) ==
  LET l == s.lst
  IN  IF \/ l.sel.phase # "none" \/ l.waiters = <<>> \/ l.kids = <<>>
         \/ s.acc[Head(l.waiters)].cancelled
      THEN s
      ELSE [s EXCEPT !.lst.waiters = Tail(@), !.lst.kids = Tail(@),
                     !.lst.sel = [phase |-> "ready", req |-> Head(l.waiters),
                                  kid |-> Head(l.kids), cancelStarted |-> FALSE]]

\* register_waiter, where the listener is not closing.
RegisterWaiter(s, a) == SelectPair([s EXCEPT !.lst.waiters = Append(@, a)])

CanAdmit(s) == Present(s) /\ ~IsClosing(s) /\ s.lst.slots < Backlog

AdmitChild(s, k) == SelectPair([s EXCEPT !.lst.slots = @ + 1, !.lst.kids = Append(@, k)])

\* release_child_slot
ReleaseSlot(s) == [s EXCEPT !.lst.slots = IF @ > 0 THEN @ - 1 ELSE 0]

\* Mutant: the pair goes away but its child slot stays taken.
FinishPairKeepingSlot(s) ==
  SelectPair(ReleasePermit([s EXCEPT !.lst.sel = NoPair], s.lst.sel.req))

FinishPair(s) ==
  SelectPair(ReleaseSlot(ReleasePermit([s EXCEPT !.lst.sel = NoPair], s.lst.sel.req)))

FinishSelectedRequest(s, a) ==
  IF Present(s) /\ s.lst.sel.phase # "none" /\ s.lst.sel.req = a THEN FinishPair(s) ELSE s

IsRouted(s, k) == Present(s) /\ s.lst.sel.phase = "routed" /\ s.lst.sel.kid = k

\* finish_selected_route, after which its callers enqueue listener work
FinishRouteAndWork(s, k) == IF IsRouted(s, k) THEN EnqueueWork(FinishPair(s)) ELSE s

MarkRouteClosing(s, k) ==
  IF IsRouted(s, k) THEN [s EXCEPT !.lst.sel.cancelStarted = TRUE] ELSE s

RequestClose(s) == [s EXCEPT !.lst.closing = TRUE, !.lst.open = FALSE]

FailListener(s) == RequestClose([s EXCEPT !.lst.failed = TRUE])

FinishClose(s, err) ==
  IF s.lst.outcome # "none" THEN s
  ELSE [s EXCEPT !.lst.outcome = IF err \/ s.lst.failed THEN "err" ELSE "ok"]

ReleaseListener(s) ==
  [s EXCEPT !.lst.st = "released", !.lst.open = FALSE, !.lst.work = FALSE]

HasWork(s) ==
  LET l == s.lst
      pending == l.sel.phase = "routed" /\ ~l.sel.cancelStarted
  IN  /\ Present(s)
      /\ IF IsClosing(s)
         THEN \/ l.waiters # <<>> \/ l.kids # <<>> \/ l.sel.phase = "ready" \/ pending
              \/ l.sel.phase = "none" /\ ~l.finalizing
         ELSE \/ l.waiters # <<>> /\ s.acc[Head(l.waiters)].cancelled
              \/ l.sel.phase = "ready"
              \/ pending /\ (s.acc[l.sel.req].cancelled \/ s.acc[l.sel.req].delivered)
              \/ l.sel.phase = "none" /\ l.waiters # <<>> /\ l.kids # <<>>

-----------------------------------------------------------------------------
(* next_action: what one service of the listener does, and the entry it    *)
(* leaves.                                                                 *)

Act(kind, s, a, k) == [kind |-> kind, s |-> s, req |-> a, kid |-> k]

\* The part of next_action that looks at a pair that was routed.
RoutedAction(s) ==
  LET sel == s.lst.sel
  IN  CASE s.acc[sel.req].delivered -> Act("acknowledge", s, sel.req, sel.kid)
        [] sel.cancelStarted -> Act("none", s, None, None)
        [] OTHER -> Act("cancel", [s EXCEPT !.lst.sel.cancelStarted = TRUE], sel.req, sel.kid)

\* The part for a listener that is closing: waiters, children, the pair, itself.
ClosingAction(s) ==
  LET l == s.lst
  IN  CASE l.waiters # <<>> ->
             Act("fail", ReleasePermit([s EXCEPT !.lst.waiters = Tail(@)], Head(l.waiters)),
                 Head(l.waiters), None)
        [] l.waiters = <<>> /\ l.kids # <<>> ->
             Act("rejectChild", [s EXCEPT !.lst.kids = Tail(@)], None, Head(l.kids))
        [] l.waiters = <<>> /\ l.kids = <<>> /\ l.sel.phase = "ready" ->
             Act("rejectPair", [s EXCEPT !.lst.sel.phase = "processing"], l.sel.req, l.sel.kid)
        [] l.waiters = <<>> /\ l.kids = <<>> /\ l.sel.phase = "none" /\ ~l.finalizing ->
             Act("finalize", [s EXCEPT !.lst.finalizing = TRUE], None, None)
        [] OTHER -> Act("none", s, None, None)

NextAction(s) ==
  LET l == s.lst
      a == l.sel.req
      stale == l.waiters # <<>> /\ s.acc[Head(l.waiters)].cancelled
      paired == SelectPair(s)
  IN  IF /\ l.sel.phase = "routed"
         /\ s.acc[a].delivered \/ IsClosing(s) \/ s.acc[a].cancelled
      THEN RoutedAction(s)
      ELSE IF stale
      THEN Act("fail", ReleasePermit([s EXCEPT !.lst.waiters = Tail(@)], Head(l.waiters)),
               Head(l.waiters), None)
      ELSE IF IsClosing(s)
      THEN ClosingAction(s)
      ELSE IF paired.lst.sel.phase = "ready"
      THEN Act("process", [paired EXCEPT !.lst.sel.phase = "processing"],
               paired.lst.sel.req, paired.lst.sel.kid)
      ELSE Act("none", paired, None, None)

-----------------------------------------------------------------------------
\* terminalize_waiters_into, repeated until no waiter is left: the engine's
\* outcome answers the waiters, the selected request and close().
Terminalize(s) ==
  LET sel == s.lst.sel
      closed == [RequestClose(s) EXCEPT !.lst.outcome = IF @ = "none" THEN "err" ELSE @]
      drained ==
        [closed EXCEPT !.lst.waiters = <<>>,
           !.acc = [a \in Accepts |->
             IF \E i \in 1 .. Len(s.lst.waiters) : s.lst.waiters[i] = a
             THEN [s.acc[a] EXCEPT !.permit = FALSE,
                                   !.result = IF @ = "pending" THEN "err" ELSE @]
             ELSE s.acc[a]]]
  IN  IF sel.phase = "none" \/ ~s.acc[sel.req].permit
      THEN drained
      ELSE IF sel.phase = "routed"
      THEN ClaimUndelivered(ReleasePermit(drained, sel.req), sel.req)
      ELSE CompleteAccept(ReleasePermit(drained, sel.req), sel.req, "err")
=============================================================================
