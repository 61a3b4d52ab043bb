---------------------------- MODULE PagedRegistry ----------------------------
(***************************************************************************)
(* PagedRegistry (v2/engine/registry.rs): the slots behind connection and  *)
(* listener tokens.  A token is a slot and the generation the slot had     *)
(* when it was handed out; CM events, work completions, deadlines and      *)
(* commands carry tokens and may arrive long after the slot was released.  *)
(*                                                                         *)
(* Everything is an operator from registry to registry.  held and stale    *)
(* are history: the tokens handed out and not yet released, and released.  *)
(***************************************************************************)
EXTENDS Integers, Sequences, FiniteSets

CONSTANTS
  Capacity,        \* capacity
  PageSize,        \* PAGE_SIZE (256 in the code)
  MaxGeneration    \* u32::MAX

ASSUME RegistryAssumption ==
  /\ Capacity \in Nat
  /\ PageSize \in Nat \ {0}
  /\ MaxGeneration \in Nat \ {0}

VARIABLE reg

Slot == 0 .. Capacity - 1

\* Generations start at 1; 0 stands for no generation.
Generation == 1 .. MaxGeneration

Token == [slot : Slot, gen : Generation]

VacantSlot == [gen |-> 1, state |-> "Vacant", last |-> 0]

NewRegistry ==
  [ slots      |-> [s \in Slot |-> VacantSlot],
    pages      |-> {},        \* the pages allocated so far
    recycled   |-> <<>>,
    nextUnused |-> 0,
    live       |-> 0,
    held       |-> {},
    stale      |-> {} ]

-----------------------------------------------------------------------------
(* Lookup                                                                  *)

PageOf(s) == s \div PageSize

\* slot_ref: the slots of a page exist once the page is allocated.
Exists(r, s) == PageOf(s) \in r.pages

Lookup(r, t) ==
  LET slot == r.slots[t.slot]
  IN  IF ~ Exists(r, t.slot) THEN "Unknown"
      ELSE IF slot.last = t.gen THEN "Duplicate"
      ELSE IF slot.gen # t.gen THEN "Stale"
      ELSE IF slot.state = "Vacant" THEN "Unknown"
      ELSE slot.state

\* get_mut and release look at the generation and the state only.
GetMut(r, t) ==
  /\ Exists(r, t.slot)
  /\ r.slots[t.slot].gen = t.gen
  /\ r.slots[t.slot].state = "Occupied"

-----------------------------------------------------------------------------
(* Allocation                                                              *)

HasCapacity(r) == r.recycled # <<>> \/ r.nextUnused < Capacity

NextSlot(r) == IF r.recycled # <<>> THEN r.recycled[Len(r.recycled)] ELSE r.nextUnused

NextToken(r) == [slot |-> NextSlot(r), gen |-> r.slots[NextSlot(r)].gen]

\* allocate_owned succeeds; memory says whether a page can be allocated.  When
\* it fails, recycled and next_unused are as they were before.
CanAllocate(r, memory) ==
  /\ HasCapacity(r)
  /\ Exists(r, NextSlot(r)) \/ memory
  /\ r.slots[NextSlot(r)].state = "Vacant"

Allocated(r) ==
  LET s == NextSlot(r)
  IN  [ r EXCEPT !.slots[s].state = "Occupied",
                 !.recycled   = IF @ # <<>> THEN SubSeq(@, 1, Len(@) - 1) ELSE @,
                 !.nextUnused = IF r.recycled # <<>> THEN @ ELSE @ + 1,
                 !.pages      = @ \union {PageOf(s)},
                 !.live       = @ + 1,
                 !.held       = @ \union {NextToken(r)} ]

-----------------------------------------------------------------------------
(* Release                                                                 *)

\* Mutant: the slot keeps its generation.
ReleasedSameGeneration(r, t, completed) ==
  IF ~ GetMut(r, t) THEN r
  ELSE [ r EXCEPT !.slots[t.slot].state = "Vacant",
                  !.recycled = Append(@, t.slot),
                  !.live     = @ - 1,
                  !.held     = @ \ {t},
                  !.stale    = @ \union {t} ]

\* release: the next holder of the slot gets another generation; a slot that
\* has used its last one is never handed out again.
Released(r, t, completed) ==
  LET old     == r.slots[t.slot]
      retired == old.gen = MaxGeneration
      new     == [ gen   |-> IF retired THEN old.gen ELSE old.gen + 1,
                   state |-> IF retired THEN "Retired" ELSE "Vacant",
                   last  |-> IF completed THEN t.gen ELSE old.last ]
  IN  IF ~ GetMut(r, t) THEN r
      ELSE [ r EXCEPT !.slots[t.slot] = new,
                      !.recycled = IF retired THEN @ ELSE Append(@, t.slot),
                      !.live     = @ - 1,
                      !.held     = @ \ {t},
                      !.stale    = @ \union {t} ]

-----------------------------------------------------------------------------
(* The registry on its own: anybody may allocate, and release any token     *)
(* they were ever given, also twice.                                        *)

RegistryInit == reg = NewRegistry

AllocateToken(memory) == CanAllocate(reg, memory) /\ reg' = Allocated(reg)

ReleaseToken(t, completed) == reg' = Released(reg, t, completed)

RegistryNext ==
  \/ \E memory \in BOOLEAN : AllocateToken(memory)
  \/ \E t \in reg.held \union reg.stale, completed \in BOOLEAN : ReleaseToken(t, completed)

RegistrySpec == RegistryInit /\ [][RegistryNext]_reg

-----------------------------------------------------------------------------
(* Properties                                                              *)

\* A token leads to the value it was handed out for as long as that value is
\* in the registry, for lookup and get_mut alike, and to nothing afterwards:
\* no late event reaches the slot's next owner.
TokensResolve ==
  /\ \A t \in reg.held : Lookup(reg, t) = "Occupied" /\ GetMut(reg, t)
  /\ \A t \in reg.stale : Lookup(reg, t) \in {"Stale", "Duplicate", "Retired"} /\ ~ GetMut(reg, t)

\* No slot is lost: the registry has room exactly when some slot is vacant, and
\* the next slot it would hand out is.
NoSlotLost ==
  /\ HasCapacity(reg) <=> \E s \in Slot : reg.slots[s].state = "Vacant"
  /\ HasCapacity(reg) => reg.slots[NextSlot(reg)].state = "Vacant"
=============================================================================
