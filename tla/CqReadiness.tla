---------------------------- MODULE CqReadiness ----------------------------
(***************************************************************************)
(* How the engine learns of completions and CM events without polling: an  *)
(* AsyncFd whose readiness tokio caches, and on top of it the CqReadiness  *)
(* protocol, which polls the completion queue, arms it, polls it again and *)
(* only then waits for the descriptor.                                     *)
(***************************************************************************)
EXTENDS Naturals

(***************************************************************************)
(* A registered descriptor.  edge: the kernel has signalled it and tokio   *)
(* has not heard; ready: the readiness tokio caches; fresh: readiness that *)
(* came after the last guard was given out; waker: a task is registered.   *)
(***************************************************************************)
AsyncFd == [edge : BOOLEAN, ready : BOOLEAN, fresh : BOOLEAN, waker : BOOLEAN]

IdleFd == [edge |-> FALSE, ready |-> FALSE, fresh |-> FALSE, waker |-> FALSE]

Signalled(fd) == [fd EXCEPT !.edge = TRUE]

\* tokio delivers the edge; the registered task is woken (see Reactor).
Delivered(fd) == [edge |-> FALSE, ready |-> TRUE, fresh |-> TRUE, waker |-> FALSE]

\* poll_read_ready: a guard when ready, otherwise the task is registered.
ReadReady(fd) == IF fd.ready THEN [fd EXCEPT !.fresh = FALSE]
                             ELSE [fd EXCEPT !.waker = TRUE]

\* clear_ready of a guard keeps readiness that is newer than the guard.
ClearReady(fd) == [fd EXCEPT !.ready = fd.fresh]
-----------------------------------------------------------------------------
(***************************************************************************)
(* The channel-backed CQ of the engine.  cqes: completions in the queue;   *)
(* events: notifications in the completion channel.                        *)
(***************************************************************************)
CONSTANT MaxCqes   \* completions the CQ of the model holds

PollState == {"PollBeforeArm", "Arm", "PollAfterArm", "WaitingFd", "DrainFd"}

Cq == [cqes : 0..MaxCqes, armed : BOOLEAN, events : Nat, fd : AsyncFd,
       state : PollState]

NewCq == [cqes |-> 0, armed |-> FALSE, events |-> 0, fd |-> IdleFd,
          state |-> "PollBeforeArm"]

\* The NIC adds a completion; an armed CQ signals its channel, once.
Completed(cq) ==
  IF cq.armed
  THEN [cq EXCEPT !.cqes = @ + 1, !.armed = FALSE, !.events = @ + 1,
                  !.fd = Signalled(cq.fd)]
  ELSE [cq EXCEPT !.cqes = @ + 1]

\* One round of the loop of poll_with, and how it leaves the loop: "ready"
\* with a completion, "pending" without one, "again" round the loop, or
\* "rewoken" when the drain used its budget and the task woke itself.
PolledCq(cq) ==
  IF cq.cqes > 0
  THEN [cq |-> [cq EXCEPT !.cqes = @ - 1, !.state = "PollBeforeArm"], exit |-> "ready"]
  ELSE [cq |-> [cq EXCEPT !.state = IF @ = "PollBeforeArm" THEN "Arm" ELSE "WaitingFd"],
        exit |-> "again"]

\* A mutant of Armed: no poll between arming and waiting.
ArmedThenWaiting(cq) == [cq |-> [cq EXCEPT !.armed = TRUE, !.state = "WaitingFd"],
                         exit |-> "again"]

Armed(cq) == [cq |-> [cq EXCEPT !.armed = TRUE, !.state = "PollAfterArm"],
              exit |-> "again"]

\* Waiting clears the readiness of the guard at once.
Waited(cq) ==
  IF cq.fd.ready
  THEN [cq |-> [cq EXCEPT !.fd = ClearReady(ReadReady(cq.fd)), !.state = "DrainFd"],
        exit |-> "again"]
  ELSE [cq |-> [cq EXCEPT !.fd = ReadReady(cq.fd)], exit |-> "pending"]

\* drain_and_ack_events with a budget of one event.
Drained(cq) ==
  IF cq.events > 0
  THEN [cq |-> [cq EXCEPT !.events = @ - 1], exit |-> "rewoken"]
  ELSE [cq |-> [cq EXCEPT !.state = "PollBeforeArm"], exit |-> "again"]

PollWith(cq) ==
  CASE cq.state \in {"PollBeforeArm", "PollAfterArm"} -> PolledCq(cq)
    [] cq.state = "Arm"       -> Armed(cq)
    [] cq.state = "WaitingFd" -> Waited(cq)
    [] cq.state = "DrainFd"   -> Drained(cq)
=============================================================================
