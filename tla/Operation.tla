----------------------------- MODULE Operation -----------------------------
(***************************************************************************)
(* One accepted or posting work request of the v2 engine and the observer  *)
(* it shares with the future that submitted it                             *)
(* (v2/engine/io_core/operation/state.rs).                                 *)
(*                                                                         *)
(* Lifecycles Completing and Released do not appear: an operation that     *)
(* reaches them leaves the registry in the same driver step.  A completion *)
(* is never Early, because posting and CQ polling run on one thread.       *)
(***************************************************************************)

NoOp == [lifecycle |-> "Vacant"]

\* OperationState::new_scalar: the record owns the MR from here on.
NewScalar(f, c) ==
  [ lifecycle |-> "Posting", fut |-> f, conn |-> c,
    queued |-> FALSE,        \* CompletionOwnership::Queued
    observer |-> TRUE,       \* observer.is_some()
    pending |-> FALSE,       \* reclamation_pending
    quarantined |-> FALSE ]

\* commit_accepted, given what is_cancelled() returned.
CommitAccepted(op, cancelled) ==
  [op EXCEPT !.lifecycle = IF cancelled THEN "Cancelled" ELSE "InFlight",
             !.pending = @ \/ cancelled]

\* mark_completion_queued succeeds: queueing is single-shot.
MarkCompletionQueued(op) == ~op.queued

\* cancel_backend has something to do.
CanCancel(op) == op.lifecycle \in {"InFlight", "Posting"}

\* cancel_backend, followed by the mark_reclaiming of schedule_reclamation.
CancelBackend(op) ==
  [op EXCEPT !.lifecycle = IF @ = "InFlight" THEN "Reclaiming" ELSE @,
             !.observer = FALSE, !.pending = TRUE]

\* begin_reclamation / mark_reclaiming
MarkReclaiming(op) ==
  [op EXCEPT !.lifecycle = IF @ = "Cancelled" THEN "Reclaiming" ELSE @]

\* detach_with_post_error: the caller has been told, the provider may own the MR.
DetachWithPostError(op) ==
  [op EXCEPT !.observer = FALSE, !.lifecycle = "Cancelled", !.pending = TRUE]

\* Lifecycles in which the provider owns the work request.
ProviderOwned(op) == op.lifecycle \in {"InFlight", "Cancelled", "Reclaiming", "Quarantined"}

\* mark_quarantined and finalize_terminal move the operation to quarantine.
NewlyQuarantined(op) ==
  op.lifecycle \in {"InFlight", "Cancelled", "Reclaiming"} /\ ~op.quarantined

\* mark_quarantined
MarkQuarantined(op) ==
  [op EXCEPT !.lifecycle = "Quarantined", !.pending = FALSE, !.quarantined = TRUE]

\* finalize_terminal, for an operation the provider owns.
FinalizeTerminal(op) == [MarkQuarantined(op) EXCEPT !.observer = FALSE]

\* Mutant: futures of a closing connection wait for their CQEs.
FailsObserverForCloseNever(op) == FALSE

\* fail_observer_for_close has an observer to fail.
FailsObserverForClose(op) == op.lifecycle # "Vacant" /\ ProviderOwned(op) /\ op.observer

-----------------------------------------------------------------------------
(* OperationObserver                                                       *)

NewObserver == [result |-> "Pending", cancelled |-> FALSE]

\* complete: the first result wins.
Complete(o) == IF o.result = "Pending" THEN [o EXCEPT !.result = "Ready"] ELSE o

\* poll with a result, and the second half of cancel.
TakeResult(o) == IF o.result = "Ready" THEN [o EXCEPT !.result = "Taken"] ELSE o

\* The first half of cancel.
StoreCancelled(o) == [o EXCEPT !.cancelled = TRUE]
=============================================================================
