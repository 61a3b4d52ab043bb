--------------------------- MODULE BusyPoolProofs ---------------------------
(***************************************************************************)
(* Admission never exceeds the cap of a core, for any number of callers    *)
(* and cores and any cap.  A caller decides by the count of the core, so   *)
(* the invariant to carry is that the count is exact: it bounds the guards *)
(* given out because it counts them, and increments about to be undone.    *)
(***************************************************************************)
EXTENDS BusyPool, FiniteSetTheorems, TLAPS

PoolInv == TypeOK /\ CountIsExact /\ NeverOverAdmitted

\* What one more or one less caller does to the size of a set of callers.
LEMMA OneMore ==
  ASSUME BusyPoolAssumption,
         NEW S \in SUBSET Callers, NEW c \in Callers, c \notin S
  PROVE  Cardinality(S) \in Nat /\ Cardinality(S \cup {c}) = Cardinality(S) + 1
<1>1. IsFiniteSet(S)
  BY FS_Subset, BusyPoolAssumption DEF BusyPoolAssumption
<1>. QED
  BY <1>1, FS_AddElement, FS_CardinalityType

LEMMA OneLess ==
  ASSUME BusyPoolAssumption,
         NEW S \in SUBSET Callers, NEW c \in S
  PROVE  /\ Cardinality(S) \in Nat
         /\ Cardinality(S) >= 1
         /\ Cardinality(S \ {c}) = Cardinality(S) - 1
         /\ Cardinality(S \ {c}) \in Nat
<1>1. IsFiniteSet(S)
  BY FS_Subset, BusyPoolAssumption DEF BusyPoolAssumption
<1>2. IsFiniteSet(S \ {c}) /\ Cardinality(S \ {c}) = Cardinality(S) - 1
  BY <1>1, FS_RemoveElement
<1>3. Cardinality(S) \in Nat /\ Cardinality(S \ {c}) \in Nat
  BY <1>1, <1>2, FS_CardinalityType
<1>. QED
  BY <1>2, <1>3

\* The guards a core gave out are among what it counts.
LEMMA HoldingBounded ==
  ASSUME BusyPoolAssumption,
         NEW i \in Cores
  PROVE  /\ Holding(i) \in SUBSET Callers
         /\ Counted(i) \in SUBSET Callers
         /\ Cardinality(Holding(i)) \in Nat
         /\ Cardinality(Counted(i)) \in Nat
         /\ Cardinality(Holding(i)) <= Cardinality(Counted(i))
<1>1. Holding(i) \subseteq Counted(i) /\ Counted(i) \subseteq Callers
  BY DEF Holding, Counted
<1>2. IsFiniteSet(Counted(i)) /\ IsFiniteSet(Holding(i))
  BY <1>1, FS_Subset, BusyPoolAssumption DEF BusyPoolAssumption
<1>. QED
  BY <1>1, <1>2, FS_Subset, FS_CardinalityType

\* The pool starts with empty cores.
LEMMA PoolInit ==
  ASSUME BusyPoolAssumption
  PROVE  Init => PoolInv
<1>. SUFFICES ASSUME Init PROVE PoolInv
  OBVIOUS
<1>1. TypeOK
  BY BusyPoolAssumption DEF BusyPoolAssumption, Init, TypeOK, Cores, Phases
<1>2. ASSUME NEW i \in Cores PROVE Counted(i) = {} /\ Holding(i) = {}
  BY DEF Init, Counted, Holding
<1>3. CountIsExact
  BY <1>2, FS_EmptySet DEF CountIsExact, Init
<1>4. NeverOverAdmitted
  BY <1>2, FS_EmptySet, BusyPoolAssumption DEF NeverOverAdmitted, BusyPoolAssumption
<1>. QED
  BY <1>1, <1>3, <1>4 DEF PoolInv

\* A step that moves a caller between phases that count for nothing leaves
\* every core's sets alone.
LEMMA Uncounted ==
  ASSUME BusyPoolAssumption,
         TypeOK, NEW c \in Callers,
         phase[c] \notin {"holding", "over"},
         NEW p \in Phases \ {"holding", "over"}, phase' = [phase EXCEPT ![c] = p],
         \A x \in Callers \ {c} : at'[x] = at[x],
         UNCHANGED admitted,
         CountIsExact, NeverOverAdmitted
  PROVE  CountIsExact' /\ NeverOverAdmitted'
<1>1. ASSUME NEW i \in Cores PROVE Counted(i)' = Counted(i) /\ Holding(i)' = Holding(i)
  BY DEF Counted, Holding, TypeOK, Phases
<1>. QED
  BY <1>1 DEF CountIsExact, NeverOverAdmitted

\* A caller that takes its increment back, or drops its guard, leaves the
\* set its core counts.
LEMMA Leaving ==
  ASSUME BusyPoolAssumption,
         TypeOK, NEW c \in Callers,
         phase[c] \in {"holding", "over"},
         NEW p \in Phases \ {"holding", "over"}, phase' = [phase EXCEPT ![c] = p],
         UNCHANGED at, admitted' = [admitted EXCEPT ![at[c]] = @ - 1],
         CountIsExact, NeverOverAdmitted
  PROVE  admitted' \in [Cores -> Nat] /\ CountIsExact' /\ NeverOverAdmitted'
<1>. DEFINE k == at[c]
<1>1. k \in Cores /\ c \in Counted(k)
  BY DEF TypeOK, Counted
<1>2. Counted(k)' = Counted(k) \ {c} /\ Holding(k)' = Holding(k) \ {c}
  BY DEF TypeOK, Counted, Holding, Phases
<1>3. ASSUME NEW i \in Cores, i # k PROVE Counted(i)' = Counted(i) /\ Holding(i)' = Holding(i)
  BY <1>3 DEF TypeOK, Counted, Holding, Phases
<1>4. /\ Cardinality(Counted(k)) \in Nat /\ Cardinality(Counted(k)) >= 1
      /\ Cardinality(Counted(k)') = Cardinality(Counted(k)) - 1
  BY <1>1, <1>2, OneLess, HoldingBounded
<1>5. Cardinality(Holding(k)') <= Cardinality(Holding(k))
  <2>1. CASE c \in Holding(k)
    BY <1>1, <1>2, <2>1, OneLess, HoldingBounded
  <2>2. CASE c \notin Holding(k)
    <3>1. Holding(k)' = Holding(k)
      BY <1>2, <2>2
    <3>2. Cardinality(Holding(k)) \in Nat
      BY <1>1, HoldingBounded
    <3>. QED
      BY <3>1, <3>2
  <2>. QED
    BY <2>1, <2>2
<1>6. admitted[k] = Cardinality(Counted(k)) /\ admitted'[k] = admitted[k] - 1
  BY <1>1 DEF CountIsExact, TypeOK
<1>7. admitted' \in [Cores -> Nat]
  BY <1>1, <1>4, <1>6 DEF TypeOK
<1>8. CountIsExact'
  <2>. SUFFICES ASSUME NEW i \in Cores PROVE admitted'[i] = Cardinality(Counted(i)')
    BY DEF CountIsExact
  <2>. QED
    BY <1>1, <1>3, <1>4, <1>6 DEF CountIsExact, TypeOK
<1>9. NeverOverAdmitted'
  <2>. SUFFICES ASSUME NEW i \in Cores PROVE Cardinality(Holding(i)') <= Cap
    BY DEF NeverOverAdmitted
  <2>1. CASE i = k
    <3>1. Holding(k)' \in SUBSET Callers
      BY DEF Holding
    <3>2. Cardinality(Holding(k)') \in Nat /\ Cardinality(Holding(k)) \in Nat
      BY <1>1, <3>1, HoldingBounded, FS_Subset, FS_CardinalityType, BusyPoolAssumption
         DEF BusyPoolAssumption
    <3>. QED
      BY <1>1, <1>5, <2>1, <3>2, BusyPoolAssumption DEF NeverOverAdmitted, BusyPoolAssumption
  <2>2. CASE i # k
    BY <1>3, <2>2 DEF NeverOverAdmitted
  <2>. QED
    BY <2>1, <2>2
<1>. QED
  BY <1>7, <1>8, <1>9

\* A caller whose increment is counted joins the set its core counts; it
\* joins the holders only if the count was below the cap.
LEMMA Joining ==
  ASSUME BusyPoolAssumption,
         TypeOK, NEW c \in Callers,
         phase[c] = "picked",
         NEW p \in {"holding", "over"}, phase' = [phase EXCEPT ![c] = p],
         p = "holding" => admitted[at[c]] < Cap,
         UNCHANGED at, admitted' = [admitted EXCEPT ![at[c]] = @ + 1],
         CountIsExact, NeverOverAdmitted
  PROVE  admitted' \in [Cores -> Nat] /\ CountIsExact' /\ NeverOverAdmitted'
<1>. DEFINE k == at[c]
<1>1. k \in Cores /\ c \notin Counted(k) /\ c \notin Holding(k)
  BY DEF TypeOK, Counted, Holding
<1>2. Counted(k)' = Counted(k) \cup {c}
  BY DEF TypeOK, Counted, Phases
<1>3. Holding(k)' = IF p = "holding" THEN Holding(k) \cup {c} ELSE Holding(k)
  BY DEF TypeOK, Holding, Phases
<1>4. ASSUME NEW i \in Cores, i # k PROVE Counted(i)' = Counted(i) /\ Holding(i)' = Holding(i)
  BY <1>4 DEF TypeOK, Counted, Holding, Phases
<1>5. Cardinality(Counted(k)') = Cardinality(Counted(k)) + 1
  BY <1>1, <1>2, OneMore, HoldingBounded
<1>6. admitted[k] = Cardinality(Counted(k)) /\ admitted'[k] = admitted[k] + 1
  BY <1>1 DEF CountIsExact, TypeOK
<1>7. admitted' \in [Cores -> Nat]
  BY <1>1 DEF TypeOK
<1>8. CountIsExact'
  <2>. SUFFICES ASSUME NEW i \in Cores PROVE admitted'[i] = Cardinality(Counted(i)')
    BY DEF CountIsExact
  <2>. QED
    BY <1>1, <1>4, <1>5, <1>6 DEF CountIsExact, TypeOK
<1>9. Cardinality(Holding(k)') <= Cap
  <2>1. CASE p = "holding"
    <3>1. Cardinality(Holding(k)') = Cardinality(Holding(k)) + 1
      BY <1>1, <1>3, <2>1, OneMore, HoldingBounded
    <3>2. Cardinality(Holding(k)) < Cap
      BY <1>1, <1>6, <2>1, HoldingBounded, BusyPoolAssumption DEF BusyPoolAssumption
    <3>. QED
      BY <1>1, <3>1, <3>2, HoldingBounded, BusyPoolAssumption DEF BusyPoolAssumption
  <2>2. CASE p # "holding"
    BY <1>1, <1>3, <2>2 DEF NeverOverAdmitted
  <2>. QED
    BY <2>1, <2>2
<1>10. NeverOverAdmitted'
  <2>. SUFFICES ASSUME NEW i \in Cores PROVE Cardinality(Holding(i)') <= Cap
    BY DEF NeverOverAdmitted
  <2>. QED
    BY <1>4, <1>9 DEF NeverOverAdmitted
<1>. QED
  BY <1>7, <1>8, <1>10

\* Every step of a caller keeps the invariant.
LEMMA PoolNext ==
  ASSUME BusyPoolAssumption
  PROVE  PoolInv /\ [Next]_vars => PoolInv'
<1>. SUFFICES ASSUME PoolInv, [Next]_vars PROVE PoolInv'
  OBVIOUS
<1>. USE DEF PoolInv
<1>0. CASE UNCHANGED vars
  BY <1>0 DEF vars, TypeOK, CountIsExact, NeverOverAdmitted, Counted, Holding
<1>. SUFFICES ASSUME NEW c \in Callers,
       Enter(c) \/ Pick(c) \/ Admit(c) \/ Exceed(c) \/ Undo(c) \/ Refuse(c) \/ Release(c)
     PROVE PoolInv'
  BY <1>0 DEF Next
<1>1. CASE Enter(c)
  <2>1. TypeOK'
    BY <1>1, BusyPoolAssumption DEF Enter, TypeOK, Phases, BusyPoolAssumption
  <2>. QED
    BY <1>1, <2>1, Uncounted, Zenon DEF Enter, Phases
<1>2. CASE Pick(c)
  <2>1. (next + 1) % Workers \in Cores
    BY BusyPoolAssumption DEF TypeOK, Cores, BusyPoolAssumption
  <2>2. TypeOK'
    BY <1>2, <2>1, BusyPoolAssumption DEF Pick, TypeOK, Phases, BusyPoolAssumption
  <2>. QED
    BY <1>2, <2>2, Uncounted, Zenon DEF Pick, Phases, TypeOK
<1>3. CASE Admit(c)
  <2>1. admitted' \in [Cores -> Nat] /\ CountIsExact' /\ NeverOverAdmitted'
    BY <1>3, Joining, Zenon DEF Admit
  <2>2. TypeOK'
    BY <1>3, <2>1 DEF Admit, TypeOK, Phases
  <2>. QED
    BY <2>1, <2>2
<1>4. CASE Exceed(c)
  <2>1. admitted' \in [Cores -> Nat] /\ CountIsExact' /\ NeverOverAdmitted'
    BY <1>4, Joining, Zenon DEF Exceed
  <2>2. TypeOK'
    BY <1>4, <2>1 DEF Exceed, TypeOK, Phases
  <2>. QED
    BY <2>1, <2>2
<1>5. CASE Undo(c)
  <2>1. admitted' \in [Cores -> Nat] /\ CountIsExact' /\ NeverOverAdmitted'
    BY <1>5, Leaving, Zenon DEF Undo, Phases
  <2>2. TypeOK'
    BY <1>5, <2>1 DEF Undo, TypeOK, Phases
  <2>. QED
    BY <2>1, <2>2
<1>6. CASE Refuse(c)
  <2>1. TypeOK'
    BY <1>6 DEF Refuse, TypeOK, Phases
  <2>. QED
    BY <1>6, <2>1, Uncounted, Zenon DEF Refuse, Phases
<1>7. CASE Release(c)
  <2>1. admitted' \in [Cores -> Nat] /\ CountIsExact' /\ NeverOverAdmitted'
    BY <1>7, Leaving, Zenon DEF Release, Phases
  <2>2. TypeOK'
    BY <1>7, <2>1 DEF Release, TypeOK, Phases
  <2>. QED
    BY <2>1, <2>2
<1>. QED
  BY <1>1, <1>2, <1>3, <1>4, <1>5, <1>6, <1>7

\* The invariant holds in every state of the pool.
THEOREM PoolInvariant ==
  ASSUME BusyPoolAssumption
  PROVE  Spec => []PoolInv
  BY PoolInit, PoolNext, PTL DEF Spec

\* A core's count is the guards it gave out plus the increments about to be
\* taken back, whatever callers race in try_admit.
THEOREM CountTheorem ==
  ASSUME BusyPoolAssumption
  PROVE  Spec => []CountIsExact
<1>1. PoolInv => CountIsExact
  BY DEF PoolInv
<1>. QED
  BY <1>1, PoolInvariant, PTL

\* No core is given more connections than its cap, whatever callers race in
\* try_admit.
THEOREM AdmissionTheorem ==
  ASSUME BusyPoolAssumption
  PROVE  Spec => []NeverOverAdmitted
<1>1. PoolInv => NeverOverAdmitted
  BY DEF PoolInv
<1>. QED
  BY <1>1, PoolInvariant, PTL
=============================================================================
