------------------------------ MODULE BusyPool ------------------------------
(***************************************************************************)
(* Admission of connections to the cores of a busy-poll pool.  Callers on  *)
(* any thread scan the cores from a shared round-robin cursor; a core      *)
(* counts its admissions in an atomic, and a caller that finds it at its   *)
(* cap takes its increment back.  Each atomic access is a step.            *)
(***************************************************************************)
EXTENDS Naturals, FiniteSets

CONSTANTS
  Callers,  \* calls of try_admit, and the guards they return
  Workers,  \* the number of cores
  Cap       \* connections admitted to a core

\* What the theorems assume of the constants.
BusyPoolAssumption ==
  /\ IsFiniteSet(Callers)
  /\ Workers \in Nat \ {0} /\ Cap \in Nat

Cores == 0..(Workers - 1)

VARIABLES
  next,      \* the cursor, modulo the number of cores
  admitted,  \* each core's count
  phase,     \* what each caller does next
  at,        \* the core it visits or was admitted to
  tries      \* cores it has visited

vars == <<next, admitted, phase, at, tries>>

Phases == {"outside", "scanning", "picked", "over", "holding", "refused"}

Holding(i) == {c \in Callers : phase[c] = "holding" /\ at[c] = i}

Init ==
  /\ next = 0
  /\ admitted = [i \in Cores |-> 0]
  /\ phase = [c \in Callers |-> "outside"]
  /\ at = [c \in Callers |-> 0]
  /\ tries = [c \in Callers |-> 0]

\* A caller enters try_admit.
Enter(c) ==
  /\ phase[c] \in {"outside", "refused"}
  /\ phase' = [phase EXCEPT ![c] = "scanning"]
  /\ tries' = [tries EXCEPT ![c] = 0]
  /\ UNCHANGED <<next, admitted, at>>

\* next.fetch_add.
Pick(c) ==
  /\ phase[c] = "scanning" /\ tries[c] < Workers
  /\ phase' = [phase EXCEPT ![c] = "picked"]
  /\ at' = [at EXCEPT ![c] = next]
  /\ next' = (next + 1) % Workers
  /\ tries' = [tries EXCEPT ![c] = @ + 1]
  /\ UNCHANGED admitted

\* admitted.fetch_add finds the core below its cap: the guard is returned.
Admit(c) ==
  /\ phase[c] = "picked" /\ admitted[at[c]] < Cap
  /\ admitted' = [admitted EXCEPT ![at[c]] = @ + 1]
  /\ phase' = [phase EXCEPT ![c] = "holding"]
  /\ UNCHANGED <<next, at, tries>>

\* ... or at it.
Exceed(c) ==
  /\ phase[c] = "picked" /\ admitted[at[c]] >= Cap
  /\ admitted' = [admitted EXCEPT ![at[c]] = @ + 1]
  /\ phase' = [phase EXCEPT ![c] = "over"]
  /\ UNCHANGED <<next, at, tries>>

\* admitted.fetch_sub, and on to the next core.
Undo(c) ==
  /\ phase[c] = "over"
  /\ admitted' = [admitted EXCEPT ![at[c]] = @ - 1]
  /\ phase' = [phase EXCEPT ![c] = "scanning"]
  /\ UNCHANGED <<next, at, tries>>

\* Every core has been tried.
Refuse(c) ==
  /\ phase[c] = "scanning" /\ tries[c] = Workers
  /\ phase' = [phase EXCEPT ![c] = "refused"]
  /\ UNCHANGED <<next, admitted, at, tries>>

\* The guard is dropped: by the driver at retirement, or by a failed setup.
Release(c) ==
  /\ phase[c] = "holding"
  /\ admitted' = [admitted EXCEPT ![at[c]] = @ - 1]
  /\ phase' = [phase EXCEPT ![c] = "outside"]
  /\ UNCHANGED <<next, at, tries>>

Next ==
  \E c \in Callers : \/ Enter(c) \/ Pick(c) \/ Admit(c) \/ Exceed(c)
                     \/ Undo(c) \/ Refuse(c) \/ Release(c)

Spec == Init /\ [][Next]_vars
-----------------------------------------------------------------------------
TypeOK ==
  /\ next \in Cores
  /\ admitted \in [Cores -> Nat]
  /\ phase \in [Callers -> Phases]
  /\ at \in [Callers -> Cores]
  /\ tries \in [Callers -> 0..Workers]

Counted(i) == {c \in Callers : phase[c] \in {"holding", "over"} /\ at[c] = i}

\* A core's count is the guards it gave out plus the increments about to be
\* taken back, so it returns to zero with the last connection.
CountIsExact == \A i \in Cores : admitted[i] = Cardinality(Counted(i))

\* However callers race on the counter, no core is given more connections than
\* its cap, which its shared completion queues are sized for.
NeverOverAdmitted == \A i \in Cores : Cardinality(Holding(i)) <= Cap
=============================================================================
