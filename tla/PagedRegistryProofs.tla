------------------------- MODULE PagedRegistryProofs -------------------------
(***************************************************************************)
(* Tokens of a PagedRegistry never alias and its slots are never lost, for *)
(* every capacity, page size and number of generations.                    *)
(***************************************************************************)
EXTENDS PagedRegistry, TLAPS

SlotRecord ==
  [gen : Generation, state : {"Vacant", "Occupied", "Retired"}, last : 0 .. MaxGeneration]

Registry ==
  [ slots : [Slot -> SlotRecord], pages : SUBSET {PageOf(s) : s \in Slot}, recycled : Seq(Slot),
    nextUnused : 0 .. Capacity, live : Int, held : SUBSET Token, stale : SUBSET Token ]

\* Slots from nextUnused on are as new, those below have a page.
Frontier(r) ==
  \A s \in Slot : IF s < r.nextUnused THEN Exists(r, s) ELSE r.slots[s] = VacantSlot

\* recycled lists the vacant slots below nextUnused, each once.
RecycledExact(r) ==
  /\ \A i \in 1 .. Len(r.recycled) :
       r.recycled[i] < r.nextUnused /\ r.slots[r.recycled[i]].state = "Vacant"
  /\ \A i, j \in 1 .. Len(r.recycled) : r.recycled[i] = r.recycled[j] => i = j
  /\ \A s \in Slot :
       s < r.nextUnused /\ r.slots[s].state = "Vacant" =>
         \E i \in 1 .. Len(r.recycled) : r.recycled[i] = s

\* A generation is recorded as completed only after it is over.
LastIsOver(r) ==
  \A s \in Slot :
    r.slots[s].last < r.slots[s].gen
      \/ (r.slots[s].last = r.slots[s].gen /\ r.slots[s].state = "Retired")

\* A token that is held names the slot's present generation, one that was
\* released an earlier one or the last one of a retired slot.
TokensPlaced(r) ==
  /\ \A t \in r.held :
       /\ t.slot < r.nextUnused
       /\ r.slots[t.slot].gen = t.gen
       /\ r.slots[t.slot].state = "Occupied"
  /\ \A t \in r.stale :
       /\ t.slot < r.nextUnused
       /\ t.gen < r.slots[t.slot].gen
            \/ (t.gen = r.slots[t.slot].gen /\ r.slots[t.slot].state = "Retired")

\* The inductive invariant.  TokensResolve alone says nothing of the slot that
\* will be handed out next: it must be vacant, and its generation one that no
\* released token names.
Inv(r) == r \in Registry /\ Frontier(r) /\ RecycledExact(r) /\ LastIsOver(r) /\ TokensPlaced(r)

-----------------------------------------------------------------------------
\* A new registry satisfies the invariant.
LEMMA NewRegistryInv == Inv(NewRegistry)
  BY RegistryAssumption
  DEF Inv, Registry, SlotRecord, Frontier, RecycledExact, LastIsOver, TokensPlaced,
      NewRegistry, VacantSlot, Slot, Generation, Token, Exists

\* The slot handed out next is vacant and below the new nextUnused.
LEMMA NextSlotVacant ==
  ASSUME NEW r, Inv(r), HasCapacity(r)
  PROVE  /\ NextSlot(r) \in Slot
         /\ r.slots[NextSlot(r)].state = "Vacant"
         /\ NextSlot(r) <= r.nextUnused
  <1>1. CASE r.recycled # <<>>
    <2>1. Len(r.recycled) \in 1 .. Len(r.recycled)
      BY <1>1 DEF Inv, Registry
    <2> QED
      BY <1>1, <2>1, RegistryAssumption
      DEF Inv, Registry, RecycledExact, NextSlot, Slot
  <1>2. CASE r.recycled = <<>>
    BY <1>2, RegistryAssumption
    DEF Inv, Registry, Frontier, HasCapacity, NextSlot, VacantSlot, Slot
  <1> QED BY <1>1, <1>2

\* allocate_owned preserves the invariant.
LEMMA AllocatedInv ==
  ASSUME NEW r, Inv(r), HasCapacity(r)
  PROVE  Inv(Allocated(r))
  <1> DEFINE s == NextSlot(r)
             q == Allocated(r)
  <1>1. s \in Slot /\ r.slots[s].state = "Vacant" /\ s <= r.nextUnused
    BY NextSlotVacant
  <1>2. /\ q.slots = [r.slots EXCEPT ![s] = [r.slots[s] EXCEPT !.state = "Occupied"]]
        /\ q.pages = r.pages \union {PageOf(s)}
        /\ q.recycled = IF r.recycled # <<>> THEN SubSeq(r.recycled, 1, Len(r.recycled) - 1) ELSE r.recycled
        /\ q.nextUnused = IF r.recycled # <<>> THEN r.nextUnused ELSE r.nextUnused + 1
        /\ q.held = r.held \union {NextToken(r)}
        /\ q.stale = r.stale
        /\ q.live = r.live + 1
    BY DEF Allocated, Inv, Registry
  <1> HIDE DEF q, s
  <1>3. \A u \in Slot : u # s => q.slots[u] = r.slots[u]
    BY <1>1, <1>2 DEF Inv, Registry
  <1>4. q.slots[s] = [gen |-> r.slots[s].gen, state |-> "Occupied", last |-> r.slots[s].last]
    BY <1>1, <1>2 DEF Inv, Registry, SlotRecord
  <1>5. NextToken(r) = [slot |-> s, gen |-> r.slots[s].gen] /\ NextToken(r) \in Token
    BY <1>1 DEF NextToken, s, Token, Inv, Registry, SlotRecord
  <1>6. /\ Len(q.recycled) \in Nat /\ Len(q.recycled) <= Len(r.recycled)
        /\ q.recycled \in Seq(Slot)
        /\ \A i \in 1 .. Len(q.recycled) :
             i < Len(r.recycled) /\ i \in 1 .. Len(r.recycled) /\ q.recycled[i] = r.recycled[i]
        /\ \A i \in 1 .. Len(r.recycled) : i = Len(r.recycled) \/ i \in 1 .. Len(q.recycled)
    <2>1. CASE r.recycled # <<>>
      <3>1. Len(r.recycled) \in Nat /\ Len(r.recycled) >= 1 /\ r.recycled \in Seq(Slot)
        BY <2>1 DEF Inv, Registry
      <3>2. q.recycled = SubSeq(r.recycled, 1, Len(r.recycled) - 1)
        BY <2>1, <1>2
      <3> QED BY <3>1, <3>2
    <2>2. CASE r.recycled = <<>>
      BY <2>2, <1>2 DEF Inv, Registry
    <2> QED BY <2>1, <2>2
  <1>7. /\ q.nextUnused \in 0 .. Capacity /\ r.nextUnused <= q.nextUnused /\ s < q.nextUnused
        /\ \A u \in Slot : u < q.nextUnused => u < r.nextUnused \/ u = s
    <2>1. CASE r.recycled # <<>>
      <3>1. Len(r.recycled) \in 1 .. Len(r.recycled) /\ s = r.recycled[Len(r.recycled)]
        BY <2>1 DEF Inv, Registry, s, NextSlot
      <3> QED BY <2>1, <3>1, <1>2, RegistryAssumption DEF Inv, Registry, RecycledExact
    <2>2. CASE r.recycled = <<>>
      BY <2>2, <1>2, RegistryAssumption
      DEF Inv, Registry, HasCapacity, s, NextSlot, Slot
    <2> QED BY <2>1, <2>2
  <1>8. q \in Registry
    <2>1. q.slots \in [Slot -> SlotRecord]
      BY <1>1, <1>2, ZenonT(30) DEF Inv, Registry, SlotRecord
    <2>2. q.pages \subseteq {PageOf(u) : u \in Slot}
      BY <1>1, <1>2 DEF Inv, Registry
    <2>3. q.held \subseteq Token /\ q.stale \subseteq Token /\ q.live \in Int
      BY <1>2, <1>5 DEF Inv, Registry
    <2> QED BY <2>1, <2>2, <2>3, <1>6, <1>7, Zenon DEF Inv, Registry, q, Allocated
  <1>9. Frontier(q)
    <2> SUFFICES ASSUME NEW u \in Slot
                 PROVE  IF u < q.nextUnused THEN Exists(q, u) ELSE q.slots[u] = VacantSlot
      BY DEF Frontier
    <2>1. CASE u = s
      BY <2>1, <1>2, <1>7 DEF Exists
    <2>2. CASE u # s
      BY <2>2, <1>2, <1>3, <1>7, RegistryAssumption DEF Inv, Registry, Frontier, Exists, Slot
    <2> QED BY <2>1, <2>2
  <1>10. RecycledExact(q)
    <2>1. \A i \in 1 .. Len(q.recycled) : q.recycled[i] # s
      <3> SUFFICES ASSUME NEW i \in 1 .. Len(q.recycled), q.recycled[i] = s PROVE FALSE
        OBVIOUS
      <3>1. r.recycled # <<>> /\ Len(r.recycled) \in 1 .. Len(r.recycled)
        BY <1>6 DEF Inv, Registry
      <3>2. s = r.recycled[Len(r.recycled)]
        BY <3>1 DEF s, NextSlot
      <3> QED BY <3>1, <3>2, <1>6 DEF Inv, RecycledExact
    <2>2. \A i \in 1 .. Len(q.recycled) :
            q.recycled[i] < q.nextUnused /\ q.slots[q.recycled[i]].state = "Vacant"
      <3> SUFFICES ASSUME NEW i \in 1 .. Len(q.recycled)
                   PROVE  q.recycled[i] < q.nextUnused /\ q.slots[q.recycled[i]].state = "Vacant"
        OBVIOUS
      <3>1. q.recycled[i] \in Slot /\ q.recycled[i] # s
        BY <1>6, <2>1
      <3>2. r.recycled[i] < r.nextUnused /\ r.slots[r.recycled[i]].state = "Vacant"
        BY <1>6 DEF Inv, RecycledExact
      <3>3. q.slots[q.recycled[i]] = r.slots[r.recycled[i]] /\ q.recycled[i] = r.recycled[i]
        BY <3>1, <1>3, <1>6
      <3>4. r.nextUnused \in Nat /\ q.nextUnused \in Nat /\ r.recycled[i] \in Int
        BY <3>1, <3>3, <1>7, RegistryAssumption DEF Inv, Registry, Slot
      <3> QED BY <3>2, <3>3, <3>4, <1>7
    <2>3. \A i, j \in 1 .. Len(q.recycled) : q.recycled[i] = q.recycled[j] => i = j
      BY <1>6, Zenon DEF Inv, RecycledExact
    <2>4. \A u \in Slot :
            u < q.nextUnused /\ q.slots[u].state = "Vacant" =>
              \E i \in 1 .. Len(q.recycled) : q.recycled[i] = u
      <3> SUFFICES ASSUME NEW u \in Slot, u < q.nextUnused, q.slots[u].state = "Vacant"
                   PROVE  \E i \in 1 .. Len(q.recycled) : q.recycled[i] = u
        OBVIOUS
      <3>1. u # s
        BY <1>4
      <3>2. PICK i \in 1 .. Len(r.recycled) : r.recycled[i] = u
        BY <3>1, <1>3, <1>7 DEF Inv, RecycledExact
      <3>3. i # Len(r.recycled)
        BY <3>1, <3>2 DEF s, NextSlot
      <3> QED BY <3>2, <3>3, <1>6
    <2> QED BY <2>2, <2>3, <2>4 DEF RecycledExact
  <1>11. LastIsOver(q)
    BY <1>1, <1>3, <1>4 DEF Inv, LastIsOver
  <1>12. TokensPlaced(q)
    <2>1. ASSUME NEW t \in q.held
          PROVE  /\ t.slot < q.nextUnused
                 /\ q.slots[t.slot].gen = t.gen
                 /\ q.slots[t.slot].state = "Occupied"
      <3>1. CASE t = NextToken(r)
        BY <3>1, <1>4, <1>5, <1>7
      <3>2. CASE t \in r.held
        <4>1. t.slot \in Slot /\ t.slot # s
          BY <3>2, <1>1 DEF Inv, Registry, Token, TokensPlaced
        <4> QED BY <3>2, <4>1, <1>3, <1>7, RegistryAssumption
                DEF Inv, Registry, TokensPlaced, Slot
      <3> QED BY <3>1, <3>2, <1>2
    <2>2. ASSUME NEW t \in q.stale
          PROVE  /\ t.slot < q.nextUnused
                 /\ t.gen < q.slots[t.slot].gen
                      \/ (t.gen = q.slots[t.slot].gen /\ q.slots[t.slot].state = "Retired")
      <3>1. t \in r.stale /\ t.slot \in Slot
        BY <1>2 DEF Inv, Registry, Token
      <3>2. CASE t.slot = s
        BY <3>1, <3>2, <1>1, <1>4, <1>7 DEF Inv, TokensPlaced
      <3>3. CASE t.slot # s
        BY <3>1, <3>3, <1>3, <1>7, RegistryAssumption DEF Inv, Registry, TokensPlaced, Slot
      <3> QED BY <3>2, <3>3
    <2> QED BY <2>1, <2>2 DEF TokensPlaced
  <1> QED BY <1>8, <1>9, <1>10, <1>11, <1>12 DEF Inv, q

\* release preserves the invariant, for any token and also when it is refused.
LEMMA ReleasedInv ==
  ASSUME NEW r, Inv(r), NEW t \in Token, NEW completed \in BOOLEAN
  PROVE  Inv(Released(r, t, completed))
  <1>1. CASE ~ GetMut(r, t)
    BY <1>1 DEF Released
  <1>2. CASE GetMut(r, t)
    <2> DEFINE s == t.slot
               old == r.slots[s]
               retired == old.gen = MaxGeneration
               q == Released(r, t, completed)
    <2>1. s \in Slot /\ t.gen \in Generation /\ old.gen = t.gen /\ old.state = "Occupied"
      BY <1>2 DEF GetMut, Token
    <2>2. s < r.nextUnused
      BY <2>1 DEF Inv, Registry, Frontier, VacantSlot, Slot
    <2>3. /\ q.slots = [r.slots EXCEPT ![s] =
                         [ gen   |-> IF retired THEN old.gen ELSE old.gen + 1,
                           state |-> IF retired THEN "Retired" ELSE "Vacant",
                           last  |-> IF completed THEN t.gen ELSE old.last ]]
          /\ q.recycled = IF retired THEN r.recycled ELSE Append(r.recycled, s)
          /\ q.pages = r.pages /\ q.nextUnused = r.nextUnused /\ q.live = r.live - 1
          /\ q.held = r.held \ {t} /\ q.stale = r.stale \union {t}
      BY <1>2 DEF Released, Inv, Registry
    <2> HIDE DEF q
    <2>4. \A u \in Slot : u # s => q.slots[u] = r.slots[u]
      BY <2>1, <2>3 DEF Inv, Registry
    <2>5. /\ q.slots[s].gen = IF retired THEN old.gen ELSE old.gen + 1
          /\ q.slots[s].state = IF retired THEN "Retired" ELSE "Vacant"
          /\ q.slots[s].last = IF completed THEN t.gen ELSE old.last
      BY <2>1, <2>3 DEF Inv, Registry
    <2>6. old \in SlotRecord /\ old.gen \in 1 .. MaxGeneration /\ old.last \in 0 .. MaxGeneration
      BY <2>1, SMTT(30) DEF Inv, Registry, SlotRecord, Generation
    <2>7. q \in Registry
      <3>1. q.slots \in [Slot -> SlotRecord]
        BY <2>1, <2>3, <2>6, RegistryAssumption DEF Inv, Registry, SlotRecord, Generation
      <3>2. q.recycled \in Seq(Slot)
        BY <2>1, <2>3 DEF Inv, Registry
      <3>3. /\ q.pages \subseteq {PageOf(u) : u \in Slot} /\ q.nextUnused \in 0 .. Capacity
            /\ q.live \in Int /\ q.held \subseteq Token /\ q.stale \subseteq Token
        BY <2>3 DEF Inv, Registry
      <3> QED BY <3>1, <3>2, <3>3, <1>2, Zenon DEF Inv, Registry, q, Released
    <2>8. Frontier(q)
      BY <2>2, <2>3, <2>4 DEF Inv, Registry, Frontier, Exists
    <2>9. RecycledExact(q)
      <3>1. \A i \in 1 .. Len(r.recycled) : r.recycled[i] # s /\ r.recycled[i] \in Slot
        BY <2>1, SMTT(30) DEF Inv, Registry, RecycledExact
      <3>2. CASE retired
        BY <3>1, <3>2, <2>1, <2>3, <2>4, <2>5 DEF Inv, RecycledExact
      <3>3. CASE ~ retired
        <4>1. /\ Len(q.recycled) = Len(r.recycled) + 1 /\ Len(r.recycled) \in Nat
              /\ q.recycled[Len(r.recycled) + 1] = s
              /\ \A i \in 1 .. Len(r.recycled) : q.recycled[i] = r.recycled[i]
          BY <3>3, <2>3, <2>1 DEF Inv, Registry
        <4>2. \A i \in 1 .. Len(q.recycled) :
                q.recycled[i] < q.nextUnused /\ q.slots[q.recycled[i]].state = "Vacant"
          BY <4>1, <3>1, <3>3, <2>2, <2>3, <2>4, <2>5 DEF Inv, RecycledExact
        <4>3. \A i, j \in 1 .. Len(q.recycled) : q.recycled[i] = q.recycled[j] => i = j
          <5> SUFFICES ASSUME NEW i \in 1 .. Len(q.recycled), NEW j \in 1 .. Len(q.recycled),
                              q.recycled[i] = q.recycled[j]
                       PROVE  i = j
            OBVIOUS
          <5>1. CASE i \in 1 .. Len(r.recycled) /\ j \in 1 .. Len(r.recycled)
            BY <5>1, <4>1 DEF Inv, RecycledExact
          <5>2. CASE ~ (i \in 1 .. Len(r.recycled) /\ j \in 1 .. Len(r.recycled))
            BY <5>2, <4>1, <3>1
          <5> QED BY <5>1, <5>2
        <4>4. \A u \in Slot :
                u < q.nextUnused /\ q.slots[u].state = "Vacant" =>
                  \E i \in 1 .. Len(q.recycled) : q.recycled[i] = u
          <5> SUFFICES ASSUME NEW u \in Slot, u < q.nextUnused, q.slots[u].state = "Vacant"
                       PROVE  \E i \in 1 .. Len(q.recycled) : q.recycled[i] = u
            OBVIOUS
          <5>1. CASE u = s
            BY <5>1, <4>1
          <5>2. CASE u # s
            <6>1. PICK i \in 1 .. Len(r.recycled) : r.recycled[i] = u
              BY <5>2, <2>3, <2>4 DEF Inv, RecycledExact
            <6> QED BY <6>1, <4>1
          <5> QED BY <5>1, <5>2
        <4> QED BY <4>2, <4>3, <4>4 DEF RecycledExact
      <3> QED BY <3>2, <3>3
    <2>10. LastIsOver(q)
      <3> SUFFICES ASSUME NEW u \in Slot
                   PROVE  q.slots[u].last < q.slots[u].gen
                            \/ (q.slots[u].last = q.slots[u].gen /\ q.slots[u].state = "Retired")
        BY DEF LastIsOver
      <3>1. CASE u = s
        <4>1. old.last < old.gen
          BY <2>1 DEF Inv, LastIsOver
        <4> QED BY <3>1, <4>1, <2>1, <2>5, <2>6, RegistryAssumption
      <3>2. CASE u # s
        BY <3>2, <2>4 DEF Inv, LastIsOver
      <3> QED BY <3>1, <3>2
    <2>11. TokensPlaced(q)
      <3>1. ASSUME NEW h \in q.held
            PROVE  /\ h.slot < q.nextUnused
                   /\ q.slots[h.slot].gen = h.gen
                   /\ q.slots[h.slot].state = "Occupied"
        <4>1. h \in r.held /\ h # t /\ h \in Token
          BY <2>3 DEF Inv, Registry
        <4>2. h.slot # s
          BY <4>1, <2>1 DEF Inv, TokensPlaced, Token
        <4> QED BY <4>1, <4>2, <2>3, <2>4 DEF Inv, TokensPlaced, Token
      <3>2. ASSUME NEW o \in q.stale
            PROVE  /\ o.slot < q.nextUnused
                   /\ o.gen < q.slots[o.slot].gen
                        \/ (o.gen = q.slots[o.slot].gen /\ q.slots[o.slot].state = "Retired")
        <4>1. CASE o = t
          BY <4>1, <2>1, <2>2, <2>3, <2>5, <2>6, RegistryAssumption
        <4>2. CASE o # t
          <5>1. o \in r.stale /\ o.slot \in Slot /\ o.gen \in 1 .. MaxGeneration
            BY <4>2, <2>3 DEF Inv, Registry, Token, Generation
          <5>2. CASE o.slot = s
            <6>1. o.gen < old.gen
              BY <5>1, <5>2, <2>1 DEF Inv, TokensPlaced
            <6> QED BY <5>1, <5>2, <6>1, <2>2, <2>3, <2>5, <2>6, RegistryAssumption
          <5>3. CASE o.slot # s
            BY <5>1, <5>3, <2>3, <2>4 DEF Inv, TokensPlaced
          <5> QED BY <5>2, <5>3
        <4> QED BY <4>1, <4>2
      <3> QED BY <3>1, <3>2 DEF TokensPlaced
    <2> QED BY <2>7, <2>8, <2>9, <2>10, <2>11 DEF Inv, q
  <1> QED BY <1>1, <1>2

-----------------------------------------------------------------------------
\* Every state of the registry satisfies the invariant.
THEOREM RegistryInvariant == RegistrySpec => []Inv(reg)
  <1>1. RegistryInit => Inv(reg)
    BY NewRegistryInv DEF RegistryInit
  <1>2. Inv(reg) /\ [RegistryNext]_reg => Inv(reg)'
    <2> SUFFICES ASSUME Inv(reg), [RegistryNext]_reg PROVE Inv(reg')
      OBVIOUS
    <2>1. CASE UNCHANGED reg
      BY <2>1
    <2>2. ASSUME NEW memory \in BOOLEAN, AllocateToken(memory) PROVE Inv(reg')
      BY <2>2, AllocatedInv DEF AllocateToken, CanAllocate
    <2>3. ASSUME NEW t \in reg.held \union reg.stale, NEW completed \in BOOLEAN, ReleaseToken(t, completed)
          PROVE  Inv(reg')
      <3>1. t \in Token
        BY DEF Inv, Registry
      <3> QED BY <2>3, <3>1, ReleasedInv DEF ReleaseToken
    <2> QED BY <2>1, <2>2, <2>3 DEF RegistryNext
  <1> QED BY <1>1, <1>2, PTL DEF RegistrySpec

\* Where the bookkeeping of the slots is right, held tokens lead to their slot
\* and stale ones nowhere.
LEMMA InvTokensResolve ==
  ASSUME Inv(reg)
  PROVE  TokensResolve
  <1>1. ASSUME NEW t \in reg.held PROVE Lookup(reg, t) = "Occupied" /\ GetMut(reg, t)
    <2>1. t \in Token /\ t.slot \in Slot /\ t.gen \in Generation
      BY DEF Inv, Registry, Token
    <2>2. Exists(reg, t.slot) /\ reg.slots[t.slot].gen = t.gen /\ reg.slots[t.slot].state = "Occupied"
      BY <2>1 DEF Inv, Frontier, TokensPlaced
    <2>3. reg.slots[t.slot].last # t.gen
      BY <2>1, <2>2 DEF Inv, LastIsOver, Generation
    <2> QED BY <2>2, <2>3 DEF Lookup, GetMut
  <1>2. ASSUME NEW t \in reg.stale
        PROVE  Lookup(reg, t) \in {"Stale", "Duplicate", "Retired"} /\ ~ GetMut(reg, t)
    <2>1. t \in Token /\ t.slot \in Slot /\ t.gen \in 1 .. MaxGeneration
      BY DEF Inv, Registry, Token, Generation
    <2>2. Exists(reg, t.slot)
      BY <2>1 DEF Inv, Frontier, TokensPlaced
    <2>3. reg.slots[t.slot].gen # t.gen \/ reg.slots[t.slot].state = "Retired"
      BY <2>1 DEF Inv, TokensPlaced
    <2> QED BY <2>2, <2>3 DEF Lookup, GetMut
  <1> QED BY <1>1, <1>2 DEF TokensResolve

\* TokensResolve: lookup and get_mut find the value a token was handed out for
\* while it is in the registry and nothing once it was released, however often
\* slots are reused and whichever tokens are released again.
THEOREM RegistryTokensResolve == RegistrySpec => []TokensResolve
  <1>1. Inv(reg) => TokensResolve
    BY InvTokensResolve
  <1> QED BY <1>1, RegistryInvariant, PTL

\* NoSlotLost: allocate_owned is refused for want of a slot only when no slot is
\* vacant, and never takes one that is in use.
THEOREM RegistryNoSlotLost == RegistrySpec => []NoSlotLost
  <1>1. Inv(reg) => NoSlotLost
    <2> SUFFICES ASSUME Inv(reg) PROVE NoSlotLost
      OBVIOUS
    <2>1. HasCapacity(reg) => NextSlot(reg) \in Slot /\ reg.slots[NextSlot(reg)].state = "Vacant"
      BY NextSlotVacant
    <2>2. ASSUME NEW s \in Slot, reg.slots[s].state = "Vacant" PROVE HasCapacity(reg)
      <3>1. CASE s < reg.nextUnused
        <4>1. PICK i \in 1 .. Len(reg.recycled) : reg.recycled[i] = s
          BY <2>2, <3>1 DEF Inv, RecycledExact
        <4> QED BY <4>1 DEF Inv, Registry, HasCapacity
      <3>2. CASE ~ (s < reg.nextUnused)
        BY <3>2, RegistryAssumption DEF Inv, Registry, HasCapacity, Slot
      <3> QED BY <3>1, <3>2
    <2> QED BY <2>1, <2>2 DEF NoSlotLost
  <1> QED BY <1>1, RegistryInvariant, PTL
=============================================================================
