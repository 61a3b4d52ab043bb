-------------------------- MODULE MessageTransport --------------------------
(***************************************************************************)
(* The v2 message transport (v2/message_transport.rs), both ends of one    *)
(* connection: HELLO negotiation, DATA under receive credits, CREDIT       *)
(* returns, receive reposting, send cancellation, close and failure, over  *)
(* the protocol I/O boundary of ProtocolIo and a reliable in-order link.   *)
(*                                                                         *)
(* ep[s] is one end: EngineMessageState, its MessageTransportDriver, the   *)
(* application task that sends (one send() at a time, so a message is its  *)
(* send request's number), and the application that receives.              *)
(***************************************************************************)
EXTENDS ProtocolIo, FiniteSets

CONSTANTS
  Side, Peer(_),
  SendBuffers, RecvBuffers,  \* per side
  Quota,                     \* per side, how many messages it sends
  Closers,                   \* the sides whose application may call close()
  CancelAt,                  \* where a send may be when its future is dropped
  Faults,                    \* what may go wrong,
  MaxFaults                  \* and how often (a bound)

ASSUME MessageAssumption ==
  /\ \A s \in Side : Peer(s) \in Side /\ Peer(Peer(s)) = s /\ Peer(s) # s
  /\ SendBuffers \in [Side -> Nat \ {0}] /\ RecvBuffers \in [Side -> Nat \ {0}]
  /\ Quota \in [Side -> Nat]
  /\ CancelAt \subseteq {"credit", "event", "admission", "reactor", "posted"}
  /\ Faults \subseteq {"capacity", "ambiguous", "defer", "timeout", "driver", "link",
                       "shutdown", "close", "cancel"}
  /\ MaxFaults \in Nat

VARIABLES
  ep,    \* the ends
  wire,  \* per sender, the frames its QP has sent that are not yet received
  hits   \* how many faults have struck

vars == <<ep, wire, hits>>

CTRL_RECV_COUNT == 2
CTRL_SEND_COUNT == 2

\* derive_engine_config: the queue depths a side's QP is created with
MaxRecvWr(s) == RecvBuffers[s] + CTRL_RECV_COUNT
MaxSendWr(s) == SendBuffers[s] + CTRL_SEND_COUNT + 1

StateClosing == {"closing", "stopped", "failed"}
StateTerminal == {"stopped", "failed"}

Frame(f, n) == [f |-> f, n |-> n]

\* EngineSendRequest
NewRequest == [taken |-> FALSE, cancelled |-> FALSE, committed |-> FALSE, out |-> "none"]

-----------------------------------------------------------------------------
(* EngineSendRequest and the credit semaphore.                             *)

\* EngineSendRequest::complete: the first result stays.
Complete(r, i, result) ==
  [r EXCEPT !.req[i].out = IF @ = "none" THEN result ELSE @]

\* Mutant: the credit of an unaccepted send stays in flight.
RollbackForgets(r, i) == [r EXCEPT !.req[i].committed = FALSE]

\* rollback_unaccepted_send: once, the credit comes back.
Rollback(r, i) ==
  IF r.req[i].committed /\ r.inFlight > 0
  THEN [r EXCEPT !.req[i].committed = FALSE, !.inFlight = @ - 1, !.avail = @ + 1]
  ELSE r

\* RegisteredMrPool::put, which a closed pool drops
PutData(r) == IF r.poolsOpen THEN [r EXCEPT !.dataPool = @ + 1] ELSE r
PutControl(r) == IF r.poolsOpen THEN [r EXCEPT !.controlPool = @ + 1] ELSE r

\* close_pools
ClosePools(r) == [r EXCEPT !.poolsOpen = FALSE, !.dataPool = 0, !.controlPool = 0]

\* dispose_terminal_event
DisposeEvent(r, ev) ==
  IF ev.t = "SendRequest" /\ ~ r.req[ev.n].taken
  THEN Complete([r EXCEPT !.req[ev.n].taken = TRUE, !.avail = @ + 1], ev.n, "err")
  ELSE r

\* dispose_io_event
DisposeIoEvent(r, ev) ==
  CASE ev.e = "submission" ->
         [r EXCEPT !.transitions = IF @ = <<>> THEN @ ELSE Tail(@)]
    [] ev.e = "completion" /\ ev.of.t = "Send" ->
         Complete(IF ev.res \in UnacceptedResults THEN Rollback(r, ev.of.n) ELSE r,
                  ev.of.n, "err")
    [] OTHER -> r

-----------------------------------------------------------------------------
(* The end of a transport.                                                 *)

\* drain_terminal_events(true): nothing queued is acted on, the port closes.
DrainAndClose(r) ==
  LET events == FoldLeft(DisposeEvent, [r EXCEPT !.events = <<>>], r.events)
      ports == [events EXCEPT !.io = ClosePort(DiscardPending(@))]
  IN  FoldLeft(DisposeIoEvent, ports, r.io.port)

\* enter_failed
EnterFailed(r, error) ==
  DrainAndClose(ClosePools(
    [r EXCEPT !.st = "failed", !.err = IF @ = "none" THEN error ELSE @, !.returns = 0]))

\* fail: the first terminal state stays; close_connection asks the engine to
\* close the connection.
Fail(r, error, closeConnection) ==
  IF r.st \in StateTerminal THEN r
  ELSE [EnterFailed(r, error) EXCEPT !.closeRequested = @ \/ closeConnection]

\* finish_close(Ok)
FinishClose(r) ==
  DrainAndClose(ClosePools([r EXCEPT !.st = IF @ \in StateTerminal THEN @ ELSE "stopped"]))

-----------------------------------------------------------------------------
(* Submission and its receipts.                                            *)

\* try_mark_ready
TryMarkReady(r) ==
  [r EXCEPT !.st = IF @ = "created" /\ r.helloSent /\ r.helloSeen THEN "ready" ELSE @]

\* Mutant: reposting a buffer gives no credit back.
ApplyNoReturn(r, tr, disposition) ==
  CASE disposition = "ambiguous" -> Fail(r, "ProviderError", TRUE)
    [] disposition = "accepted" /\ tr.t = "HelloReceiveRepost" ->
         TryMarkReady([r EXCEPT !.cap = tr.n, !.avail = @ + tr.n, !.helloSeen = TRUE])
    [] OTHER -> r

\* apply_protocol_disposition
ApplyDisposition(r, tr, disposition) ==
  CASE disposition = "ambiguous" -> Fail(r, "ProviderError", TRUE)
    [] disposition = "accepted" /\ tr.t = "Receive" -> [r EXCEPT !.returns = @ + tr.n]
    [] disposition = "accepted" /\ tr.t = "HelloReceiveRepost" ->
         TryMarkReady([r EXCEPT !.cap = tr.n, !.avail = @ + tr.n, !.helloSeen = TRUE])
    [] disposition = "unaccepted" /\ tr.t = "ControlSend" /\ r.st = "ready" ->
         [r EXCEPT !.returns = @ + tr.n]
    [] OTHER -> r

\* submit_protocol, then track_protocol_disposition
Post(r, tr) ==
  LET error == IF ~ r.io.open THEN "TransportClosed" ELSE "CapacityExhausted"
  IN  IF Submittable(r.io)
      THEN [r EXCEPT !.io = Submit(@, tr), !.transitions = Append(@, tr)]
      ELSE ApplyDisposition([r EXCEPT !.io = Reject(@, tr, error)], tr, "unaccepted")

-----------------------------------------------------------------------------
(* What the driver does with an event.                                     *)

\* start_hello_send
StartHello(r) ==
  IF r.st # "created" \/ r.helloPosted THEN r
  ELSE Post([r EXCEPT !.helloPosted = TRUE], Command("HelloSend", 0))

\* process_repost, post_receive
Repost(r) == IF r.st # "ready" THEN r ELSE Post(r, Command("Receive", 1))

\* Mutant: a request cancelled before the driver saw it keeps its buffer.
SendRequestLeaks(r, i) ==
  LET taken == [r EXCEPT !.req[i].taken = TRUE]
  IN  IF r.req[i].cancelled \/ r.st # "ready" THEN [taken EXCEPT !.avail = @ + 1]
      ELSE Post([taken EXCEPT !.inFlight = @ + 1, !.req[i].committed = TRUE],
                Command("Send", i))

\* process_send_request
ProcessSendRequest(r, i) ==
  LET taken == [r EXCEPT !.req[i].taken = TRUE]
  IN  IF r.req[i].taken THEN r
      ELSE IF r.req[i].cancelled THEN PutData([taken EXCEPT !.avail = @ + 1])
      ELSE IF r.st # "ready"
           THEN Complete(PutData([taken EXCEPT !.avail = @ + 1]), i, "err")
      ELSE Post([taken EXCEPT !.inFlight = @ + 1, !.req[i].committed = TRUE],
                Command("Send", i))

\* process_event
ProcessEvent(r, ev) ==
  CASE ev.t = "Start" -> StartHello(r)
    [] ev.t = "Repost" -> Repost(r)
    [] OTHER -> ProcessSendRequest(r, ev.n)

\* normalize_message_completion_error
Normalize(res) == IF res = "flushed" THEN "TransportClosed" ELSE res

\* process_hello_receive: the first frame must be the peer's HELLO; its buffer is
\* reposted, and the receipt of that completes the negotiation.
ProcessHelloReceive(r, res, frame) ==
  CASE res # "ok" -> Fail(r, Normalize(res), TRUE)
    [] res = "ok" /\ (frame.f # "HELLO" \/ r.helloSeen) -> Fail(r, "ProtocolViolation", TRUE)
    [] OTHER -> Post(r, Command("HelloReceiveRepost", frame.n))

\* check_credit_return
CreditValid(r, credits) ==
  /\ credits # 0
  /\ credits <= r.inFlight
  /\ r.avail + credits <= r.cap

\* process_receive in STATE_READY
ProcessSteadyReceive(r, res, frame) ==
  CASE res # "ok" -> Fail(r, Normalize(res), TRUE)
    [] res = "ok" /\ frame.f = "DATA" -> [r EXCEPT !.received = Append(@, frame.n)]
    [] res = "ok" /\ frame.f = "CREDIT" /\ CreditValid(r, frame.n) ->
         Post([r EXCEPT !.inFlight = @ - frame.n, !.avail = @ + frame.n],
              Command("Receive", 0))
    [] OTHER -> Fail(r, "ProtocolViolation", TRUE)

\* process_receive
ProcessReceive(r, res, frame) ==
  CASE r.st = "created" -> ProcessHelloReceive(r, res, frame)
    [] r.st = "ready" -> ProcessSteadyReceive(r, res, frame)
    [] OTHER -> r

\* Mutant: a flushed send counts as sent.
SendCompletionOk(r, i, res) ==
  LET back == PutData(IF res \in UnacceptedResults THEN Rollback(r, i) ELSE r)
  IN  Complete(back, i, IF res \in {"ok", "flushed"} THEN "ok" ELSE "err")

\* process_send_completion, and a send cancelled before it was submitted
ProcessSendCompletion(r, i, res) ==
  LET back == PutData(IF res \in UnacceptedResults THEN Rollback(r, i) ELSE r)
      done == Complete(back, i, IF res = "ok" THEN "ok" ELSE "err")
  IN  IF res \in {"ok", "cancelled", "CapacityExhausted"} \/ r.st # "ready" THEN done
      ELSE Fail(done, Normalize(res), TRUE)

\* process_io_completion
ProcessCompletion(r, ev) ==
  CASE IsReceive(ev.of) -> ProcessReceive(r, ev.res, ev.frame)
    [] ev.of.t = "Send" -> ProcessSendCompletion(r, ev.of.n, ev.res)
    [] ev.of.t = "HelloSend" ->
         IF ev.res = "ok" THEN TryMarkReady([r EXCEPT !.helloSent = TRUE])
                          ELSE Fail(r, Normalize(ev.res), TRUE)
    [] ev.of.t = "ControlSend" ->
         IF ev.res # "ok" /\ r.st = "ready" THEN Fail(PutControl(r), Normalize(ev.res), TRUE)
                                            ELSE PutControl(r)

\* process_io_event
ProcessIoEvent(r, ev) ==
  CASE ev.e = "submission" ->
         IF r.transitions = <<>> THEN Fail(r, "InvalidConfig", TRUE)
         ELSE ApplyDisposition([r EXCEPT !.transitions = Tail(@)], Head(r.transitions), ev.res)
    [] ev.e = "terminal" ->
         IF ev.res = "closed" THEN FinishClose(r) ELSE Fail(r, "TransportClosed", TRUE)
    [] ev.e = "completion" ->
         IF r.st \in StateClosing THEN DisposeIoEvent(r, ev) ELSE ProcessCompletion(r, ev)

\* flush_one_credit: every pending return in one CREDIT frame.
FlushReady(r) == r.returns > 0 /\ r.st = "ready" /\ r.controlPool > 0

FlushOneCredit(r) ==
  Post([r EXCEPT !.controlPool = @ - 1, !.returns = 0], Command("ControlSend", r.returns))

\* pop_work: the protocol events and the I/O events take turns.
TakesIo(r) == r.io.port # <<>> /\ (r.preferIo \/ r.events = <<>>)

Handle(r) ==
  LET next == IF TakesIo(r)
              THEN ProcessIoEvent([r EXCEPT !.io.port = Tail(@), !.preferIo = FALSE],
                                  Head(r.io.port))
              ELSE ProcessEvent([r EXCEPT !.events = Tail(@), !.preferIo = TRUE],
                                Head(r.events))
  IN  [next EXCEPT !.preferCredit = TRUE, !.preferAdmission = TRUE]

\* is_cancelled of a command: only DATA sends carry a cancellation.
Cancelled(r, c) == c.t = "Send" /\ r.req[c.n].cancelled

Admission(r) == AdmissionReady(r.io, Cancelled(r, Head(r.io.pending)))

Admit(r) ==
  [r EXCEPT !.io = PollAdmission(@, Cancelled(r, Head(@.pending))),
            !.preferAdmission = FALSE]

\* One turn of the loop in `process`: admission, a credit flush, an event, in
\* the order the preferences give.
HasWork(r) == r.events # <<>> \/ r.io.port # <<>> \/ Admission(r) \/ FlushReady(r)

Process(r) ==
  IF r.preferAdmission /\ Admission(r) THEN Admit(r)
  ELSE IF r.preferCredit /\ FlushReady(r)
       THEN [FlushOneCredit(r) EXCEPT !.preferCredit = FALSE, !.preferAdmission = TRUE]
  ELSE IF r.events # <<>> \/ r.io.port # <<>> THEN Handle(r)
  ELSE IF Admission(r) THEN Admit(r)
  ELSE FlushOneCredit(r)

\* queue_event: a closing transport disposes of the event at once.
QueueEvent(r, ev) ==
  IF r.st \in StateClosing THEN DisposeEvent(r, ev) ELSE [r EXCEPT !.events = Append(@, ev)]

-----------------------------------------------------------------------------
\* EngineMessageState::new, install_pools, install_io and attach: the pools are full
\* and Start is queued.
NewState(s) ==
  [st |-> "created", err |-> "none",
   helloPosted |-> FALSE, helloSent |-> FALSE, helloSeen |-> FALSE,
   avail |-> 0, cap |-> 0, inFlight |-> 0, returns |-> 0,
   dataPool |-> SendBuffers[s], controlPool |-> CTRL_SEND_COUNT, poolsOpen |-> TRUE,
   transitions |-> <<>>, events |-> <<Command("Start", 0)>>, received |-> <<>>,
   req |-> <<>>, preferIo |-> FALSE, preferCredit |-> FALSE, preferAdmission |-> FALSE,
   io |-> InitIo(MaxRecvWr(s)), closeRequested |-> FALSE, localClose |-> FALSE,
   driver |-> "running",
   task |-> "idle", results |-> <<>>, got |-> <<>>, held |-> 0,
   closer |-> "open", preexisting |-> "none", failedBefore |-> FALSE]

\* MessagePreparation::run posted every receive before the connection was
\* established.
Init ==
  /\ ep = [s \in Side |-> NewState(s)]
  /\ wire = [s \in Side |-> <<>>]
  /\ hits = 0

Set(s, r) == ep' = [ep EXCEPT ![s] = r]

Strike(fault) == fault \in Faults /\ hits < MaxFaults /\ hits' = hits + 1

-----------------------------------------------------------------------------
(* The application: MessageTransport::send, recv, close, and the drop of a *)
(* ReceivedMessage.                                                        *)

Current(r) == Len(r.req)

\* send() on a ready transport acquires a credit,
BeginSend(s) ==
  /\ ep[s].task = "idle" /\ Len(ep[s].results) < Quota[s]
  /\ ep[s].st = "ready" /\ ep[s].avail > 0
  /\ Set(s, [ep[s] EXCEPT !.task = "credit", !.avail = @ - 1])
  /\ UNCHANGED <<wire, hits>>

\* takes a registered buffer, and queues the request,
EnqueueSend(s) ==
  LET r == ep[s]
      asked == [r EXCEPT !.task = "waiting", !.dataPool = @ - 1, !.req = Append(@, NewRequest)]
  IN  /\ r.task = "credit" /\ r.poolsOpen /\ r.dataPool > 0
      /\ Set(s, QueueEvent(asked, Command("SendRequest", Len(asked.req))))
      /\ UNCHANGED <<wire, hits>>

\* then returns the request's result, or the transport's terminal error.
EndSend(s) ==
  LET r == ep[s]
      out == r.req[Current(r)].out
  IN  /\ r.task = "waiting" /\ out # "none"
      /\ Set(s, [r EXCEPT !.task = "idle", !.results = Append(@, out)])
      /\ UNCHANGED <<wire, hits>>

\* The waiter's drop cancels the request.
Abandon(r, result) ==
  LET idle == [r EXCEPT !.task = "idle", !.results = Append(@, result)]
  IN  IF r.task = "credit" THEN [idle EXCEPT !.avail = @ + 1]
                           ELSE [idle EXCEPT !.req[Current(r)].cancelled = TRUE]

EndSendTerminal(s) ==
  LET r == ep[s]
  IN  /\ r.st \in StateClosing
      /\ \/ r.task = "credit"
         \/ r.task = "waiting" /\ r.req[Current(r)].out = "none"
      /\ Set(s, Abandon(r, "err"))
      /\ UNCHANGED <<wire, hits>>

\* Where the current send is.
Whereabouts(r) ==
  LET among(commands) == Command("Send", Current(r)) \in Range(commands)
  IN  CASE r.task = "credit" -> "credit"
        [] r.task = "waiting" /\ among(r.io.pending) -> "admission"
        [] r.task = "waiting" /\ among(r.io.queue) -> "reactor"
        [] r.task = "waiting" /\ ~ r.req[Current(r)].taken -> "event"
        [] OTHER -> "posted"

\* The application drops a send() future.
CancelSend(s) ==
  /\ Strike("cancel") /\ ep[s].task # "idle"
  /\ Whereabouts(ep[s]) \in CancelAt
  /\ Set(s, Abandon(ep[s], "dropped"))
  /\ UNCHANGED wire

\* recv() returns what was delivered, in any state.
Recv(s) ==
  /\ ep[s].received # <<>>
  /\ Set(s, [ep[s] EXCEPT !.received = Tail(@), !.got = Append(@, Head(ep[s].received)),
                          !.held = @ + 1])
  /\ UNCHANGED <<wire, hits>>

\* ReceivedMessage::drop
DropMessage(s) ==
  /\ ep[s].held > 0
  /\ Set(s, QueueEvent([ep[s] EXCEPT !.held = @ - 1], Command("Repost", 0)))
  /\ UNCHANGED <<wire, hits>>

\* Mutant: begin_close takes every close for a local one.
CallCloseLocal(s) ==
  /\ s \in Closers /\ Strike("close") /\ ep[s].closer = "open"
  /\ Set(s, [ep[s] EXCEPT !.closer = "draining", !.localClose = TRUE,
                          !.failedBefore = ep[s].st = "failed",
                          !.st = IF @ \in {"created", "ready"} THEN "closing" ELSE @])
  /\ UNCHANGED wire

\* begin_close first moves the state (failedBefore is history),
CallClose(s) ==
  LET r == ep[s]
      local == r.st \in {"created", "ready"}
  IN  /\ s \in Closers /\ Strike("close") /\ r.closer = "open"
      /\ Set(s, [r EXCEPT !.closer = "draining",
                          !.st = IF local THEN "closing" ELSE @,
                          !.localClose = @ \/ local,
                          !.failedBefore = r.st = "failed"])
      /\ UNCHANGED wire

\* then drains what is queued; drain_terminal_events(false) acts on I/O events.
DrainClose(s) ==
  LET r == ep[s]
      closed == ClosePools([r EXCEPT !.returns = 0, !.events = <<>>])
      disposed == FoldLeft(DisposeEvent, closed, r.events)
      drained == FoldLeft(ProcessIoEvent,
                          [disposed EXCEPT !.io = DrainPort(DiscardPending(@))], r.io.port)
  IN  /\ r.closer = "draining"
      /\ Set(s, [drained EXCEPT
                   !.closer = "waiting",
                   !.closeRequested = @ \/ r.localClose,
                   !.preexisting = IF ~ drained.localClose /\ drained.st = "failed"
                                   THEN drained.err ELSE "none"])
      /\ UNCHANGED <<wire, hits>>

\* close() returns once the connection has retired.
ReturnClose(s) ==
  LET r == FinishClose(ep[s])
  IN  /\ ep[s].closer = "waiting" /\ ep[s].io.conn = "closed"
      /\ Set(s, [r EXCEPT !.closer =
                   IF r.preexisting = "none" /\ r.err \in {"none", "TransportClosed"}
                   THEN "ok" ELSE "err"])
      /\ UNCHANGED <<wire, hits>>

-----------------------------------------------------------------------------
(* The driver: MessageTransportDriver::poll and drop.                      *)

Running(s) == ep[s].driver = "running" /\ ep[s].st \notin StateTerminal

DriverStep(s) ==
  /\ Running(s)
  /\ HasWork(ep[s])
  /\ Set(s, Process(ep[s]))
  /\ UNCHANGED <<wire, hits>>

DriverFinish(s) ==
  /\ ep[s].driver = "running" /\ ep[s].st \in StateTerminal
  /\ Set(s, [ep[s] EXCEPT !.driver = "done"])
  /\ UNCHANGED <<wire, hits>>

\* deadline_expired
HelloDeadline(s) ==
  /\ Strike("timeout")
  /\ Running(s) /\ ep[s].st = "created"
  /\ Set(s, Fail(ep[s], "ProtocolViolation", TRUE))
  /\ UNCHANGED wire

DropDriver(s) ==
  /\ Strike("driver")
  /\ Running(s)
  /\ Set(s, [Fail(ep[s], "DriverShutdown", TRUE) EXCEPT !.driver = "done"])
  /\ UNCHANGED wire

-----------------------------------------------------------------------------
(* The reactor and the link.                                               *)

FrameOf(s, c) ==
  CASE c.t = "HelloSend" -> Frame("HELLO", RecvBuffers[s])
    [] c.t = "Send" -> Frame("DATA", c.n)
    [] c.t = "ControlSend" -> Frame("CREDIT", c.n)

\* What the provider does with a work request.
PostOutcome(trouble) ==
  CASE trouble = "capacity" -> "CapacityExhausted"
    [] trouble = "ambiguous" -> "ambiguous"
    [] OTHER -> "accepted"

\* A command publishes at most two events.
Execute(s, trouble, room) ==
  LET io == ep[s].io
      c == Head(io.queue)
      cancelled == Cancelled(ep[s], c)
      post == PostOutcome(trouble)
  IN  /\ io.queue # <<>> /\ io.deferred = <<>>
      /\ trouble = "defer" <=> room < 2
      /\ \/ trouble = "none" /\ UNCHANGED hits
         \/ Strike(trouble)
      /\ Set(s, [ep[s] EXCEPT !.io = ExecuteCommand(@, cancelled, post, room)])
      /\ wire' = IF Posts(io, c, cancelled, post) /\ ~ IsReceive(c)
                 THEN [wire EXCEPT ![s] = Append(@, FrameOf(s, c))] ELSE wire

Publish(s) ==
  /\ ep[s].io.deferred # <<>>
  /\ Set(s, [ep[s] EXCEPT !.io = PublishDeferred(@)])
  /\ UNCHANGED <<wire, hits>>

\* A frame reaches the peer when a receive is posted there (RNR retry waits for
\* one), and its completion is routed to the peer's port.
Transmit(s) ==
  LET p == Peer(s)
      got == Completion(Command("Receive", 0), "ok", Head(wire[s]))
  IN  /\ wire[s] # <<>>
      /\ ep[p].io.conn = "open" /\ ep[p].io.posted > 0
      /\ wire' = [wire EXCEPT ![s] = Tail(@)]
      /\ Set(p, [ep[p] EXCEPT !.io = Deliver([@ EXCEPT !.posted = @ - 1], <<got>>)])
      /\ UNCHANGED hits

\* The oldest received send is acknowledged and completes.
Acknowledge(s) ==
  LET io == ep[s].io
  IN  /\ io.conn = "open" /\ Len(io.sending) > Len(wire[s])
      /\ Set(s, [ep[s] EXCEPT !.io =
             Deliver([@ EXCEPT !.sending = Tail(@)],
                     <<Completion(Head(io.sending), "ok", NoFrame)>>)])
      /\ UNCHANGED <<wire, hits>>

\* The reactor serves request_close.
CloseConnection(s) ==
  /\ ep[s].closeRequested /\ ep[s].io.conn = "open"
  /\ Set(s, [ep[s] EXCEPT !.io = StopPosting(@, <<>>)])
  /\ wire' = [wire EXCEPT ![s] = <<>>]
  /\ UNCHANGED hits

\* The CM reports that the peer, or the link, is gone.
Disconnected(s) ==
  /\ ep[s].io.conn = "open"
  /\ \/ Strike("link")
     \/ ep[Peer(s)].io.conn # "open" /\ UNCHANGED hits
  /\ Set(s, [ep[s] EXCEPT !.io = StopPosting(@, <<Terminal("disconnected")>>)])
  /\ wire' = [wire EXCEPT ![s] = <<>>]

Retired(s) ==
  /\ ep[s].io.conn = "closing"
  /\ Set(s, [ep[s] EXCEPT !.io = Retire(@)])
  /\ UNCHANGED <<wire, hits>>

\* Engine shutdown closes admission and every connection.
ShutDown(s) ==
  /\ Strike("shutdown") /\ ep[s].io.admitting
  /\ Set(s, [ep[s] EXCEPT !.io.admitting = FALSE, !.closeRequested = TRUE])
  /\ UNCHANGED wire

-----------------------------------------------------------------------------
AppStep(s) ==
  \/ EnqueueSend(s) \/ EndSend(s) \/ EndSendTerminal(s)
  \/ Recv(s) \/ DropMessage(s) \/ DrainClose(s) \/ ReturnClose(s)

ReactorStep(s) ==
  \/ \E trouble \in {"none", "capacity", "ambiguous", "defer"}, room \in 0 .. 2 :
       Execute(s, trouble, room)
  \/ Publish(s) \/ CloseConnection(s) \/ Retired(s)

LinkStep(s) == Transmit(s) \/ Acknowledge(s)

Next ==
  \E s \in Side :
    \/ BeginSend(s) \/ CancelSend(s) \/ CallClose(s) \/ AppStep(s)
    \/ DriverStep(s) \/ DriverFinish(s) \/ HelloDeadline(s) \/ DropDriver(s)
    \/ ReactorStep(s) \/ LinkStep(s) \/ Disconnected(s) \/ ShutDown(s)

Spec == Init /\ [][Next]_vars

-----------------------------------------------------------------------------
(* Properties.                                                             *)

Count(seq, Test(_)) == Len(SelectSeq(seq, Test))

Total(seq, Value(_)) == FoldLeft(LAMBDA sum, x : sum + Value(x), 0, seq)

Commands(r) == r.io.queue \o r.io.pending

Published(r) == r.io.port \o r.io.deferred

Live(r) == r.st \in {"created", "ready"}

Connected(s) == Live(ep[s]) /\ ep[s].io.conn = "open"

\* The buffer invariants of the module's documentation, on a live transport.  Every
\* receive buffer MessagePreparation registered is in one place: posted, on its way
\* to or from the QP, delivered, held by the application, or queued for repost.
\* Every data-send and control-send buffer is in its pool or belongs to one send that
\* has not completed.  So none is lost or used twice through completions,
\* cancellations and refused posts, and the queue depths of derive_engine_config
\* are never exceeded.
BuffersConserved ==
  \A s \in Side :
    LET r == ep[s]
        completed(ev) == ev.e = "completion" /\ IsReceive(ev.of)
        Out(t) == LET is(c) == c.t = t
                      done(ev) == ev.e = "completion" /\ ev.of.t = t
                  IN  Count(Commands(r) \o r.io.sending, is) + Count(Published(r), done)
        Queued(t) == Count(r.events, LAMBDA ev : ev.t = t)
    IN  Live(r) =>
          /\ r.io.posted + Count(Commands(r), IsReceive) + Count(Published(r), completed)
               + Len(r.received) + r.held + Queued("Repost")
             = MaxRecvWr(s)
          /\ r.dataPool + Queued("SendRequest") + Out("Send") = SendBuffers[s]
          /\ r.controlPool + Out("ControlSend") = CTRL_SEND_COUNT
          /\ Len(r.io.sending) <= MaxSendWr(s)

\* Credits a frame or an event carries back.
CreditIn(f) == IF f.f = "CREDIT" THEN f.n ELSE 0
CreditSent(c) == IF c.t = "ControlSend" THEN c.n ELSE 0

\* The credit balance of the module's documentation, end to end.  While both
\* ends are live, a sender's credits - available, held by a send, or in flight -
\* are exactly the peer's advertised receive buffers, and each credit in flight is
\* one message on its way, one buffer the peer's application has not given back,
\* or one credit on its way back.
CreditsConserved ==
  \A s \in Side :
    LET r == ep[s]
        p == ep[Peer(s)]
        holding == (IF r.task = "credit" THEN 1 ELSE 0)
                   + Count(r.events, LAMBDA ev : ev.t = "SendRequest")
        unsent == Count(Commands(r), LAMBDA c : c.t = "Send")
                  + Count(Published(r), LAMBDA ev : /\ ev.e = "completion"
                                                    /\ ev.of.t = "Send"
                                                    /\ ev.res \in UnacceptedResults)
        data == Count(wire[s], LAMBDA f : f.f = "DATA")
                + Count(Published(p), LAMBDA ev : ev.frame.f = "DATA")
                + Len(p.received) + p.held + Count(p.events, LAMBDA ev : ev.t = "Repost")
                + Count(Commands(p), LAMBDA c : c = Command("Receive", 1))
                + Count(Published(p), LAMBDA ev : /\ ev.e = "submission"
                                                  /\ ev.of = Command("Receive", 1))
        returning == p.returns + Total(Commands(p), CreditSent)
                     + Total(Published(p), LAMBDA ev : IF ev.res = "unaccepted"
                                                        THEN CreditSent(ev.of) ELSE 0)
                     + Total(wire[Peer(s)], CreditIn)
                     + Total(Published(r), LAMBDA ev : CreditIn(ev.frame))
    IN  Connected(s) /\ Connected(Peer(s)) =>
          /\ r.avail + holding + r.inFlight = r.cap
          /\ r.inFlight = unsent + data + returning

\* recv() returns messages in the order they were sent, none twice, and never
\* one whose send was cancelled or refused before it was posted.  And a message whose
\* send() returned Ok is at the peer while the peer lives: in its application's hands
\* or on its way there.
DeliveredAsSent ==
  \A s \in Side :
    LET r == ep[s]
        p == ep[Peer(s)]
        got == p.got \o p.received
        arriving == {ev.frame.n : ev \in {x \in Range(Published(p)) : x.frame.f = "DATA"}}
    IN  /\ \A i, j \in 1 .. Len(got) : i < j => got[i] < got[j]
        /\ \A i \in 1 .. Len(got) : r.req[got[i]].committed
        /\ Live(p) => \A i \in 1 .. Len(r.req) :
                        r.req[i].out = "ok" => i \in Range(got) \cup arriving

\* close() never hides a failure: it returns Ok only on a transport that had not
\* failed when it was called, and that has not failed since except by the teardown
\* of this close.
CloseTellsFailure ==
  \A s \in Side :
    ep[s].closer = "ok" => /\ ~ ep[s].failedBefore
                           /\ ep[s].err \in {"none", "TransportClosed"}

\* No end fails by itself: with no fault and nobody closing, a transport that is
\* negotiating or exchanging messages with an honest peer does not fail.
HealthyPeersStayUp == \A s \in Side : ep[s].st # "failed"

\* No task, reactor or frame of side s can go on: none of AppStep, DriverStep,
\* DriverFinish, ReactorStep and LinkStep, nor the disconnect a peer's end brings.
Quiescent(s) ==
  LET r == ep[s]
      io == ep[s].io
  IN  /\ r.task = "credit" => r.dataPool = 0 /\ r.st \notin StateClosing
      /\ r.task = "waiting" => r.req[Current(r)].out = "none" /\ r.st \notin StateClosing
      /\ r.received = <<>> /\ r.held = 0
      /\ r.closer # "draining" /\ ~ (r.closer = "waiting" /\ io.conn = "closed")
      /\ r.driver = "running" => r.st \notin StateTerminal /\ ~ HasWork(r)
      /\ io.queue = <<>> /\ io.deferred = <<>> /\ io.conn # "closing"
      /\ io.conn = "open" => /\ ~ r.closeRequested
                             /\ ep[Peer(s)].io.conn = "open"
                             /\ Len(io.sending) <= Len(wire[s])
                             /\ io.posted = 0 \/ wire[Peer(s)] = <<>>

\* Nothing is left hanging: when no task, neither reactor and no frame can go on,
\* every send() that had a credit has returned, a live sender has its credits back,
\* every close() has returned, and once an end has closed or failed both drivers are
\* done.
NothingStuck ==
  (\A s \in Side : Quiescent(s)) =>
    \A s \in Side :
      LET r == ep[s]
      IN  /\ r.task = "idle"
          /\ r.st = "ready" => r.avail = r.cap
          /\ r.closer \notin {"draining", "waiting"}
          /\ ~ Live(r) => r.driver = "done" /\ ep[Peer(s)].driver = "done"
=============================================================================
