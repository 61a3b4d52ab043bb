------------------------- MODULE ConnectionRegistry -------------------------
(***************************************************************************)
(* One entry of the v2 connection registry: its lifecycle, its quarantine  *)
(* wrapper, the provider resources of the connection and the close result  *)
(* its frontends wait for (v2/engine/session/registry.rs,                  *)
(* session/connection/mod.rs and session/mod.rs).                          *)
(*                                                                         *)
(* ConnectionEntry::Quarantined(lifecycle) is the flag quar beside the     *)
(* wrapped lifecycle in entry.  NewConnection is Active, as the engine's   *)
(* model starts; ConnectionTable has the setup phases before it.           *)
(***************************************************************************)
EXTENDS Naturals, Sequences

\* An established connection with its empty ConnectionIoState.
NewConnection ==
  [ entry |-> "Active", started |-> FALSE, quar |-> FALSE, bundle |-> FALSE,
    ioClosed |-> FALSE, errStarted |-> FALSE, errDone |-> FALSE,
    destroyed |-> FALSE,      \* qp_destroyed
    proof |-> FALSE,          \* qp_reclamation_proof is stored
    route |-> "Established",  \* OutboundState of its CM route
    closeScan |-> 0, closeScanned |-> FALSE, quarScan |-> 0, quarScanned |-> FALSE,
    drain |-> FALSE,          \* a ConnectionDrain deadline is pending
    retire |-> FALSE,         \* queued in retirements
    cm |-> FALSE,             \* its CM ID awaits destruction
    result |-> "none",        \* close_result
    outcome |-> "none",       \* SessionCloseState.outcome
    retired |-> FALSE,        \* SessionCloseState.retired
    local |-> 0, accepted |-> {}, completions |-> <<>>, qops |-> {} ]

IsOccupied(k) == k.entry # "Retired"

IoIsOpen(k) == k.entry = "Active" /\ ~k.quar /\ ~k.ioClosed

CloseStarted(k) == k.entry \in {"Draining", "Retiring"}

\* transition_to_error_once; ok is the provider's answer.
TransitionToError(k, ok) ==
  IF k.errStarted THEN k ELSE [k EXCEPT !.errStarted = TRUE, !.errDone = ok]

\* destroy_qp_for_session: it stops posting whatever the provider answers.
DestroyQp(k, ok) == [k EXCEPT !.ioClosed = TRUE, !.destroyed = @ \/ ok]

\* begin_close applies to a bare entry with a connection that is not closing.
BeginsClose(k) == k.entry \in {"Registered", "Active"} /\ ~k.quar

BeginClose(k) == [k EXCEPT !.entry = "Draining", !.ioClosed = TRUE]

-----------------------------------------------------------------------------
(* Quarantine                                                              *)

TrackBundleQuarantine(k) ==
  IF IsOccupied(k) THEN [k EXCEPT !.quar = TRUE, !.bundle = TRUE] ELSE k

TrackOperationQuarantine(k, t) ==
  IF IsOccupied(k) THEN [k EXCEPT !.quar = TRUE, !.qops = @ \union {t}] ELSE k

ClearBundleQuarantine(k) ==
  IF k.quar /\ k.bundle THEN [k EXCEPT !.bundle = FALSE, !.quar = k.qops # {}] ELSE k

ClearOperationQuarantine(k, t) ==
  IF k.quar
  THEN [k EXCEPT !.qops = @ \ {t}, !.quar = k.bundle \/ k.qops \ {t} # {}]
  ELSE k

-----------------------------------------------------------------------------
(* Retirement                                                              *)

RequestRetirement(k) ==
  IF k.entry = "Draining" /\ ~k.quar /\ k.errDone
  THEN [k EXCEPT !.entry = "Retiring", !.started = FALSE, !.retire = TRUE]
  ELSE k

BeginsRetirement(k) == k.entry = "Retiring" /\ ~k.quar /\ ~k.started

\* release applies only to a bare entry whose retirement has begun.
Releases(k) == k.entry = "Retiring" /\ ~k.quar /\ k.started

\* The connection is out of the registry; its close state outlives it.
Release(k) == [k EXCEPT !.entry = "Retired"]

-----------------------------------------------------------------------------
(* The result that close() waits for                                       *)

\* SessionCloseState::publish: only a quarantine replaces an earlier outcome.
Publish(k) ==
  [k EXCEPT !.outcome =
     IF k.result # "none" /\ (@ = "none" \/ k.result = "quarantined") THEN k.result ELSE @]

\* record_cm_failure and finalize_engine keep an earlier close_result.
RecordFailure(k) ==
  [k EXCEPT !.ioClosed = TRUE, !.result = IF @ = "none" THEN "error" ELSE @]

\* publish_quarantine_into
PublishQuarantine(k) ==
  Publish([k EXCEPT !.result = IF @ = "none" THEN "quarantined" ELSE @])

\* publish_destroy_quarantine_into overrides an ordinary result.
PublishDestroyQuarantine(k) == Publish([k EXCEPT !.result = "quarantined"])

\* finish_retirement_into
FinishRetirement(k) ==
  [Publish([k EXCEPT !.result = IF @ = "none" THEN "ok" ELSE @]) EXCEPT !.retired = TRUE]

\* SessionCloseState::outcome, without the engine's own terminal result.
CloseOutcome(k) == IF k.outcome = "quarantined" \/ k.retired THEN k.outcome ELSE "none"
=============================================================================
