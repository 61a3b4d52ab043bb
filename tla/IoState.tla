------------------------------ MODULE IoState ------------------------------
(***************************************************************************)
(* The I/O core of the v2 engine: the generational operation registry, CQ  *)
(* credits, accepted-work ledgers, completion routing, reclamation and     *)
(* quarantine (v2/engine/io_core).  Each operator maps the state record e  *)
(* of the engine to the record one driver step leaves behind; module       *)
(* Engine has the steps.  Fields of e used here:                           *)
(*   slots, recycled, nextUnused           OperationRegistry               *)
(*   cqUsed, retained                      CqCreditPool                    *)
(*   accepted, pending, quarantined        the counters of IoState         *)
(*   deadlines  tokens with a missing-CQE deadline, requested or armed     *)
(*   ready      connections queued for completion dispatch                 *)
(*   obs, mr    each future's observer, and who holds its memory region    *)
(*   conn       the connection registry                                    *)
(* The saturating subtractions of the code are plain ones here: the type   *)
(* invariant says that they never saturate.                                *)
(***************************************************************************)
EXTENDS Operation, ConnectionRegistry, SequencesExt, FiniteSetsExt

CONSTANTS
  Futures,         \* the operations that frontends submit, each once
  Conns,           \* established connections
  ConnOf,          \* the connection of each operation
  MaxInflight,     \* max_inflight_operations: registry slots
  CqCapacity,      \* cq_capacity
  MaxWr,           \* max_send_wr: work requests of one connection
  MaxGeneration    \* the last generation of a slot (u32::MAX)

ASSUME IoAssumption ==
  /\ ConnOf \in [Futures -> Conns]
  /\ {MaxInflight, CqCapacity, MaxWr, MaxGeneration} \subseteq Nat \ {0}
  /\ MaxInflight <= CqCapacity                    \* config.rs

Slots == 0 .. MaxInflight - 1

Token == [slot : Slots, gen : 1 .. MaxGeneration]

-----------------------------------------------------------------------------
(* OperationRegistry (accounting.rs)                                       *)

VacantSlot == [gen |-> 1, last |-> 0, retired |-> FALSE, op |-> NoOp]

OpAt(e, t) == e.slots[t.slot].op

\* Mutant: only the slot is compared.
OccupiedAnyGeneration(e, t) == OpAt(e, t) # NoOp

\* lookup(token) is Lookup::Occupied.  Everything else (Duplicate, Stale,
\* Unknown, Retired) is refused alike by every caller.
Occupied(e, t) ==
  /\ e.slots[t.slot].last # t.gen
  /\ e.slots[t.slot].gen = t.gen
  /\ OpAt(e, t) # NoOp

Registered(e) ==
  {[slot |-> i, gen |-> e.slots[i].gen] : i \in {j \in Slots : e.slots[j].op # NoOp}}

CanAllocate(e) == e.recycled # <<>> \/ e.nextUnused < MaxInflight

\* allocate: the last recycled slot, or else the first unused one.
NextToken(e) ==
  LET i == IF e.recycled # <<>> THEN Last(e.recycled) ELSE e.nextUnused
  IN  [slot |-> i, gen |-> e.slots[i].gen]

Allocate(e, op) ==
  LET t == NextToken(e)
  IN  [e EXCEPT !.slots[t.slot].op = op,
                !.recycled = IF @ # <<>> THEN Front(@) ELSE @,
                !.nextUnused = IF e.recycled # <<>> THEN @ ELSE @ + 1]

\* release: a slot at its last generation is retired instead of recycled.
ReleaseSlot(e, t, completed) ==
  LET s == e.slots[t.slot]
      spent == s.gen = MaxGeneration
  IN  [e EXCEPT
         !.slots[t.slot] = [op |-> NoOp, retired |-> spent,
                            last |-> IF completed THEN t.gen ELSE s.last,
                            gen |-> IF spent THEN s.gen ELSE s.gen + 1],
         !.recycled = IF spent THEN @ ELSE Append(@, t.slot)]

SetOp(e, t, op) == [e EXCEPT !.slots[t.slot].op = op]

One(b) == IF b THEN 1 ELSE 0

-----------------------------------------------------------------------------
(* The observer a future polls, and the memory region that goes with it    *)

\* complete((result, Some(mr))): an output nobody takes drops its MR.
CompleteWithMr(e, f) ==
  [e EXCEPT !.obs[f] = Complete(@),
            !.mr[f] = IF e.obs[f].result = "Pending" THEN "result" ELSE "freed"]

\* complete((Err(_), None))
CompleteWithoutMr(e, f) == [e EXCEPT !.obs[f] = Complete(@)]

-----------------------------------------------------------------------------
(* Effects on the connection registry (effects.rs)                         *)

\* The accepted-zero effect of apply_session.
ApplyDrained(e, c) ==
  IF CloseStarted(e.conn[c]) /\ e.conn[c].accepted = {}
  THEN [e EXCEPT !.conn[c] = RequestRetirement(ClearBundleQuarantine(@))]
  ELSE e

-----------------------------------------------------------------------------
(* Accepted work leaves the registry                                       *)

\* What finish_operation and reclaim_after_qp_destroy undo together: the
\* registration, the accepted entry, the local and the CQ credit, and the
\* reclamation and quarantine accounts the operation was in.
Unwind(e, t, completed) ==
  LET op == OpAt(e, t)
      e1 == ReleaseSlot(e, t, completed)
      e2 == [e1 EXCEPT !.conn[op.conn].accepted = @ \ {t},
                       !.conn[op.conn].local = @ - 1,
                       !.cqUsed = @ - 1, !.accepted = @ - 1,
                       !.pending = @ - One(op.pending),
                       !.quarantined = @ - One(op.quarantined),
                       !.retained = @ - One(op.quarantined)]
  IN  IF op.quarantined
      THEN [e2 EXCEPT !.conn[op.conn] = ClearOperationQuarantine(@, t)]
      ELSE e2

\* finish_completion: the exact CQE returns the MR to a future that waits.
FinishOperation(e, t) ==
  LET op == OpAt(e, t)
      e1 == Unwind(e, t, TRUE)
      e2 == IF op.observer /\ ~e.obs[op.fut].cancelled
            THEN CompleteWithMr(e1, op.fut)
            ELSE [e1 EXCEPT !.mr[op.fut] = "freed"]
  IN  ApplyDrained(e2, op.conn)

\* finish_after_qp_destroy: the MR is dropped, a waiting future gets an error.
ReclaimAfterQpDestroy(e, t) ==
  LET op == OpAt(e, t)
      e1 == [Unwind(e, t, FALSE) EXCEPT !.mr[op.fut] = "freed"]
  IN  IF op.observer /\ ~e.obs[op.fut].cancelled THEN CompleteWithoutMr(e1, op.fut) ELSE e1

-----------------------------------------------------------------------------
(* Completions (completion.rs)                                             *)

\* prepare_completion and enqueue_prepared_completion.  CQEs carry the QP and
\* opcode of the work request they answer, so only identity is in question.
EnqueueCompletion(e, t) ==
  IF /\ Occupied(e, t)
     /\ IsOccupied(e.conn[OpAt(e, t).conn])
     /\ MarkCompletionQueued(OpAt(e, t))
  THEN LET c == OpAt(e, t).conn
       IN  [e EXCEPT !.slots[t.slot].op.queued = TRUE,
                     !.conn[c].completions = Append(@, t),
                     !.ready = @ \union {c}]
  ELSE e

\* dispatch_queued_completion, after record_completion.
DispatchCompletion(e, t) ==
  IF Occupied(e, t) /\ OpAt(e, t).queued THEN FinishOperation(e, t) ELSE e

\* Mutant: a connection with completions left is not queued again.
DispatchConnectionOnce(e, c) ==
  LET queue == e.conn[c].completions
      e1 == [e EXCEPT !.ready = @ \ {c}]
  IN  IF queue = <<>> \/ ~IsOccupied(e.conn[c]) THEN e1
      ELSE DispatchCompletion([e1 EXCEPT !.conn[c].completions = Tail(@)], Head(queue))

\* dispatch_connection_completions with a quantum of one completion.
DispatchConnection(e, c) ==
  LET queue == e.conn[c].completions
      e1 == [e EXCEPT !.ready = @ \ {c}]
  IN  IF queue = <<>> \/ ~IsOccupied(e.conn[c]) THEN e1
      ELSE LET e2 == DispatchCompletion([e1 EXCEPT !.conn[c].completions = Tail(@)], Head(queue))
           IN  IF e2.conn[c].completions = <<>> THEN e2 ELSE [e2 EXCEPT !.ready = @ \union {c}]

-----------------------------------------------------------------------------
(* Reclamation and quarantine (reclamation.rs)                             *)

ScheduleReclamation(e, t) ==
  [SetOp(e, t, MarkReclaiming(OpAt(e, t))) EXCEPT
     !.pending = @ + 1, !.deadlines = @ \union {t}]

\* Mutant: the operation is marked and its deadline is not requested.
CancelOperationUntimed(e, t) ==
  IF Occupied(e, t) /\ CanCancel(OpAt(e, t))
  THEN [SetOp(e, t, CancelBackend(OpAt(e, t))) EXCEPT !.pending = @ + 1]
  ELSE e

\* IoState::cancel_operation
CancelOperation(e, t) ==
  IF Occupied(e, t) /\ CanCancel(OpAt(e, t))
  THEN [SetOp(e, t, CancelBackend(OpAt(e, t))) EXCEPT
          !.pending = @ + 1, !.deadlines = @ \union {t}]
  ELSE e

\* Moves an operation and its CQ credit to the quarantine accounts.
Quarantine(e, t, op) ==
  LET old == OpAt(e, t)
  IN  [SetOp(e, t, op) EXCEPT
         !.pending = @ - One(old.pending),
         !.quarantined = @ + 1, !.retained = @ + 1,
         !.conn[old.conn] = TrackOperationQuarantine(@, t)]

QuarantineOperation(e, t) ==
  IF Occupied(e, t) /\ NewlyQuarantined(OpAt(e, t))
  THEN Quarantine(e, t, MarkQuarantined(OpAt(e, t)))
  ELSE e

\* terminalize_operations for one token.
TerminalizeOperation(e, t) ==
  LET op == OpAt(e, t)
      e1 == IF NewlyQuarantined(op) THEN Quarantine(e, t, FinalizeTerminal(op))
            ELSE SetOp(e, t, FinalizeTerminal(op))
  IN  IF ~ProviderOwned(op) THEN e
      ELSE IF op.observer /\ ~e.obs[op.fut].cancelled THEN CompleteWithoutMr(e1, op.fut)
      ELSE e1

TerminalizeOperations(e) ==
  FoldSet(LAMBDA t, acc : TerminalizeOperation(acc, t), e, Registered(e))
=============================================================================
