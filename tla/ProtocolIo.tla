----------------------------- MODULE ProtocolIo -----------------------------
(***************************************************************************)
(* The protocol I/O boundary of the v2 engine (engine/io.rs): how the      *)
(* message driver of a connection hands sends and receives to the reactor, *)
(* and how their outcomes come back.                                       *)
(*                                                                         *)
(* A command is submitted into a pending list (submit), waits there for an *)
(* operation permit (poll_admission), moves to the reactor's protocol      *)
(* queue (enqueue_protocol), and is posted to the QP by a reactor turn     *)
(* (execute_into).  Its outcome returns through the connection's event     *)
(* port: a completion, and one submission receipt that carries the         *)
(* provider's disposition but does not say of which command.               *)
(*                                                                         *)
(* The handlers are operators on one record, io:                           *)
(*   pending    ProtocolAdmissionState.pending, the commands not admitted  *)
(*   open       ProtocolAdmissionState.open                                *)
(*   admitting  the engine has not closed operation_permits                *)
(*   queue      the connection's commands in CommandQueues.protocol        *)
(*   deferred   a DeferredProtocolActions: events of an executed command   *)
(*              that did not fit the turn's action budget                  *)
(*   port       IoEventPort: the events the driver has not taken           *)
(*   receiving  is the port open?                                          *)
(*   posted     receive work requests on the QP                            *)
(*   sending    send work requests accepted and not completed, oldest first*)
(*   conn       the connection: open, closing (posting stopped, QP in      *)
(*              error), closed (retired)                                   *)
(* A command is the PendingProtocolTransition its sender will pop for its  *)
(* receipt, [t, n]: it determines the work request and its context.        *)
(***************************************************************************)
EXTENDS Naturals, Sequences, SequencesExt

CONSTANT OperationPermits  \* operation_permits: commands the reactor's lane holds

ASSUME PermitAssumption == OperationPermits \in Nat \ {0}

\* PendingProtocolTransition; n is return_credit, the send request, the
\* credits or the peer's capacity.
Command(t, n) == [t |-> t, n |-> n]

IsReceive(c) == c.t \in {"Receive", "HelloReceiveRepost"}

NoFrame == [f |-> "none", n |-> 0]

\* IoEvent: a submission receipt, a completion or a terminal event.  The
\* receipt's `of` is history, read by properties only.
Receipt(c, disposition) ==
  [e |-> "submission", of |-> c, res |-> disposition, frame |-> NoFrame]

Completion(c, res, frame) ==
  [e |-> "completion", of |-> c, res |-> res, frame |-> frame]

Terminal(what) ==
  [e |-> "terminal", of |-> Command("none", 0), res |-> what, frame |-> NoFrame]

\* A completion of a command the provider never accepted.
Unaccepted(c, error) == Completion(c, error, NoFrame)

\* The results that come with proven_unaccepted.
UnacceptedResults == {"TransportClosed", "CapacityExhausted", "DriverShutdown", "cancelled"}

InitIo(receives) ==
  [pending |-> <<>>, open |-> TRUE, admitting |-> TRUE, queue |-> <<>>, deferred |-> <<>>,
   port |-> <<>>, receiving |-> TRUE, posted |-> receives, sending |-> <<>>,
   conn |-> "open"]

\* IoEventSender::send: a closed port drops the event.
Deliver(io, events) ==
  [io EXCEPT !.port = IF io.receiving THEN @ \o events ELSE @]

\* IoConnection::submit: the command becomes pending, or is rejected at once.
\* reserve_protocol_payload bounds the pending commands as well.
Submittable(io) == io.open /\ Len(io.pending) < OperationPermits

Submit(io, c) == [io EXCEPT !.pending = Append(@, c)]

\* ProtocolCommand::reject: the completion is delivered, the disposition is the
\* caller's return value.
Reject(io, c, error) == Deliver(io, <<Unaccepted(c, error)>>)

\* ProtocolCommand::receiver_lost
ReceiverLost(io) == ~ io.open \/ ~ io.receiving

\* reject_after_pending and cancel_after_pending: the completion and the
\* receipt go straight to the port.
RejectAfterPending(io, c, error) ==
  Deliver(io, <<Unaccepted(c, error), Receipt(c, "unaccepted")>>)

\* poll_admission makes progress on the first pending command unless it still
\* waits for a permit; permits are held by the commands in the queue.
\* `cancelled' is whether that command was.
AdmissionReady(io, cancelled) ==
  /\ io.pending # <<>>
  /\ \/ ReceiverLost(io)
     \/ cancelled
     \/ ~ io.admitting
     \/ Len(io.queue) < OperationPermits

\* poll_admission, one command
PollAdmission(io, cancelled) ==
  LET c == Head(io.pending)
      rest == [io EXCEPT !.pending = Tail(@)]
  IN  IF ReceiverLost(io) THEN rest
      ELSE IF cancelled THEN RejectAfterPending(rest, c, "cancelled")
      ELSE IF ~ io.admitting THEN RejectAfterPending(rest, c, "DriverShutdown")
      ELSE [rest EXCEPT !.queue = Append(@, c)]

\* discard_pending_protocol
DiscardPending(io) == [io EXCEPT !.open = FALSE, !.pending = <<>>]

\* IoEventReceiver::close and drain
ClosePort(io) == [io EXCEPT !.port = <<>>, !.receiving = FALSE]

DrainPort(io) == [io EXCEPT !.port = <<>>]

-----------------------------------------------------------------------------
(* The reactor.                                                            *)

\* What executing c gives: the QP after it, and the events it publishes.
\* `post` is what the provider does with the work request: accepted,
\* CapacityExhausted (proven unaccepted), or ambiguous (retained).
Executed(io, c, cancelled, post) ==
  LET refused(error) ==
        [io |-> io, events |-> <<Unaccepted(c, error), Receipt(c, "unaccepted")>>]
      placed ==
        IF IsReceive(c) THEN [io EXCEPT !.posted = @ + 1]
                        ELSE [io EXCEPT !.sending = Append(@, c)]
  IN  IF ReceiverLost(io) THEN [io |-> io, events |-> <<>>]
      ELSE IF cancelled THEN refused("cancelled")
      ELSE IF ~ io.admitting THEN refused("DriverShutdown")
      ELSE IF io.conn # "open" THEN refused("TransportClosed")
      ELSE IF post = "CapacityExhausted" THEN refused(post)
      ELSE [io |-> placed, events |-> <<Receipt(c, post)>>]

\* Does executing c put a work request on the QP?
Posts(io, c, cancelled, post) ==
  /\ ~ ReceiverLost(io)
  /\ ~ cancelled
  /\ io.admitting
  /\ io.conn = "open"
  /\ post \in {"accepted", "ambiguous"}

\* One protocol command of a service_turn: executed, and as many of its events
\* published as the turn has room for.
ExecuteCommand(io, cancelled, post, room) ==
  LET done == Executed([io EXCEPT !.queue = Tail(@)], Head(io.queue), cancelled, post)
      now == IF room < Len(done.events) THEN room ELSE Len(done.events)
  IN  [Deliver(done.io, SubSeq(done.events, 1, now)) EXCEPT
         !.deferred = SubSeq(done.events, now + 1, Len(done.events))]

\* A later turn publishes the deferred events; they go before any command.
PublishDeferred(io) == [Deliver(io, io.deferred) EXCEPT !.deferred = <<>>]

\* The connection stops posting and its QP goes to the error state: every work
\* request left on it completes flushed.
StopPosting(io, event) ==
  LET flushed == [i \in 1 .. Len(io.sending) |-> Completion(io.sending[i], "flushed", NoFrame)]
                 \o [i \in 1 .. io.posted |->
                       Completion(Command("Receive", 0), "flushed", NoFrame)]
  IN  [Deliver(io, event \o flushed) EXCEPT !.conn = "closing", !.posted = 0, !.sending = <<>>]

\* finish_retirement_into
Retire(io) == [Deliver(io, <<Terminal("closed")>>) EXCEPT !.conn = "closed"]
=============================================================================
