------------------------ MODULE ConnectionTableInvariant ------------------------
(***************************************************************************)
(* The inductive invariant of the v2 connection registry, TableInv, and    *)
(* what the operators that its steps are made of do to it: the moves of a  *)
(* reservation on the gauge, the edits of one entry, the taking and the    *)
(* release of a slot.                                                      *)
(***************************************************************************)
EXTENDS ConnectionTable, PagedRegistryProofs, FiniteSetTheorems

\* The types of the state.
Reservation ==
  [ state : {"Establishing", "Established", "Draining", "QuarantinedEstablishing",
             "QuarantinedEstablished", "QuarantinedDraining"},
    counted : BOOLEAN, diag : BOOLEAN, indexed : BOOLEAN ]

Entry ==
  [ kind : {"out", "in"}, entry : {"Setup", "Registered", "Active", "Draining", "Retiring"},
    started : BOOLEAN, quar : BOOLEAN, bundle : BOOLEAN, route : BOOLEAN, retire : BOOLEAN,
    cm : BOOLEAN, qp : QpNum \union {"none"}, destroyed : BOOLEAN, errStarted : BOOLEAN,
    errDone : BOOLEAN, ioClosed : BOOLEAN, accepted : SUBSET Ops, qops : SUBSET Ops,
    res : Reservation ]

Gauge ==
  [ live : Nat, establishing : Nat, established : Nat, draining : Nat, qps : Nat, bundles : Nat ]

Counts == DOMAIN NoGauge

Table ==
  [ entry : [Slot -> Entry \union {FreeEntry}], index : [QpNum -> Token \union {NoToken}],
    routes : Nat, gauge : Gauge, permits : Int, queued : Int, qps : SUBSET QpNum,
    failed : BOOLEAN ]

Worlds == [reg : Registry, tbl : Table]

\* What the reservation of an entry adds to the gauge.
Share(k) ==
  IF ~ InUse(k) THEN NoGauge
  ELSE [(IF k.res.indexed THEN Contribution(k.res) ELSE NoGauge) EXCEPT !.live = B(k.res.diag)]

\* The slots that a count, the routes and the registry are the number of.
Sharing(e, f) == {s \in Slot : Share(e[s])[f] = 1}

Routed(e) == {s \in Slot : InUse(e[s]) /\ e[s].route}

Used(e) == {s \in Slot : InUse(e[s])}

\* The gauge and route_count agree with the entries, whatever these are.
Counted(tb) ==
  /\ tb \in Table
  /\ \A f \in Counts : tb.gauge[f] = Cardinality(Sharing(tb.entry, f))
  /\ tb.routes = Cardinality(Routed(tb.entry))

\* How the reservation of an entry follows its lifecycle.
EntryOK(k) ==
  /\ k \in Entry
  /\ k.bundle => k.quar
  /\ k.entry = "Setup" =>
       /\ k.route /\ ~ k.errStarted /\ ~ k.errDone /\ ~ k.destroyed /\ ~ k.res.counted
       /\ k.res.diag <=> k.kind = "in"
       /\ k.res.indexed <=> k.kind = "in"
       /\ k.res.state = IF k.bundle THEN "QuarantinedEstablishing" ELSE "Establishing"
  /\ k.entry # "Setup" =>
       /\ k.qp \in QpNum /\ k.res.diag /\ k.res.indexed
       /\ k.res.counted <=> ~ k.destroyed /\ ~ k.bundle
       /\ k.res.state = IF k.errDone
                        THEN IF k.bundle THEN "QuarantinedDraining" ELSE "Draining"
                        ELSE IF k.bundle THEN "QuarantinedEstablished" ELSE "Established"
  /\ k.entry \in {"Registered", "Active"} => ~ k.errStarted /\ ~ k.errDone

\* The index leads to the connection that owns the QP, under its token.
Indexed(w) ==
  /\ \A s \in Slot :
       HasConnection(w.tbl.entry[s]) => w.tbl.index[w.tbl.entry[s].qp] = TokenOf(w, s)
  /\ \A q \in QpNum :
       w.tbl.index[q] # NoToken =>
         /\ w.tbl.index[q].slot \in Slot
         /\ HasConnection(w.tbl.entry[w.tbl.index[q].slot])
         /\ w.tbl.entry[w.tbl.index[q].slot].qp = q

\* An entry is in use as long as its token is held.
EntriesHeld(w) == \A s \in Slot : InUse(w.tbl.entry[s]) <=> TokenOf(w, s) \in w.reg.held

\* A permit is out for every queued request and every entry.
PermitsOut(tb) == Capacity - tb.permits = tb.queued + Cardinality(Used(tb.entry))

\* The inductive invariant.
TableInv(w) ==
  /\ w \in Worlds /\ Inv(w.reg) /\ Counted(w.tbl)
  /\ \A s \in Slot : InUse(w.tbl.entry[s]) => EntryOK(w.tbl.entry[s])
  /\ EntriesHeld(w) /\ Indexed(w) /\ PermitsOut(w.tbl)
-----------------------------------------------------------------------------
\* Slots are finitely many.
LEMMA SlotsFinite ==
  ASSUME NEW A \in SUBSET Slot
  PROVE  IsFiniteSet(A) /\ Cardinality(A) \in Nat
<1>1. IsFiniteSet(Slot)
  BY RegistryAssumption, FS_Interval DEF Slot
<1>2. IsFiniteSet(A)
  BY <1>1, FS_Subset
<1> QED
  BY <1>2, FS_CardinalityType

\* How a count changes when one slot does.
LEMMA CountChanges ==
  ASSUME NEW A \in SUBSET Slot, NEW A2 \in SUBSET Slot, NEW s \in Slot,
         \A u \in Slot \ {s} : u \in A <=> u \in A2
  PROVE  /\ Cardinality(A) \in Nat /\ Cardinality(A2) \in Nat
         /\ Cardinality(A) >= B(s \in A)
         /\ Cardinality(A2) = Cardinality(A) + B(s \in A2) - B(s \in A)
<1> DEFINE C == A \ {s}
<1>1. IsFiniteSet(A) /\ IsFiniteSet(A2) /\ Cardinality(A) \in Nat /\ Cardinality(A2) \in Nat
  BY SlotsFinite
<1>2. C = A2 \ {s}
  OBVIOUS
<1>3. Cardinality(C) = IF s \in A THEN Cardinality(A) - 1 ELSE Cardinality(A)
  BY <1>1, FS_RemoveElement, Zenon
<1>4. Cardinality(C) = IF s \in A2 THEN Cardinality(A2) - 1 ELSE Cardinality(A2)
  BY <1>1, <1>2, FS_RemoveElement
<1>5. Cardinality(C) \in Nat
  BY SlotsFinite
<1> HIDE DEF C
<1> QED
  BY <1>1, <1>3, <1>4, <1>5 DEF B

\* The shares of an entry, count by count.
LEMMA ShareOf ==
  ASSUME NEW k
  PROVE  /\ \A f \in Counts : Share(k)[f] \in {0, 1}
         /\ ~ InUse(k) => \A f \in Counts : Share(k)[f] = 0
         /\ InUse(k) =>
              /\ Share(k).live = B(k.res.diag)
              /\ \A f \in Counts \ {"live"} :
                   Share(k)[f] = IF k.res.indexed THEN Contribution(k.res)[f] ELSE 0
<1>1. DOMAIN Contribution(k.res) = Counts /\ DOMAIN NoGauge = Counts
  BY DEF Counts, NoGauge, Contribution
<1>2. /\ \A f \in Counts : NoGauge[f] = 0 /\ Contribution(k.res)[f] \in {0, 1}
      /\ "live" \in Counts
  BY DEF Counts, NoGauge, Contribution, B
<1>3. B(k.res.diag) \in {0, 1}
  BY DEF B
<1>4. InUse(k) => /\ Share(k).live = B(k.res.diag)
                  /\ \A f \in Counts \ {"live"} :
                       Share(k)[f] = IF k.res.indexed THEN Contribution(k.res)[f] ELSE NoGauge[f]
  BY <1>1, <1>2 DEF Share
<1>5. ~ InUse(k) => \A f \in Counts : Share(k)[f] = 0
  BY <1>2 DEF Share
<1>6. InUse(k) => \A f \in Counts : Share(k)[f] \in {0, 1}
  BY <1>2, <1>3, <1>4
<1> QED
  BY <1>2, <1>4, <1>5, <1>6

\* A table whose gauge and route count moved with one of its entries is still
\* counted.
LEMMA Recount ==
  ASSUME NEW tb, Counted(tb), NEW t2 \in Table, NEW s \in Slot,
         \A u \in Slot \ {s} : t2.entry[u] = tb.entry[u],
         \A f \in Counts :
           t2.gauge[f] = tb.gauge[f] + Share(t2.entry[s])[f] - Share(tb.entry[s])[f],
         t2.routes = tb.routes + B(InUse(t2.entry[s]) /\ t2.entry[s].route)
                               - B(InUse(tb.entry[s]) /\ tb.entry[s].route)
  PROVE  Counted(t2)
<1>1. ASSUME NEW f \in Counts
      PROVE  t2.gauge[f] = Cardinality(Sharing(t2.entry, f))
  <2> DEFINE A == Sharing(tb.entry, f)
             A2 == Sharing(t2.entry, f)
  <2>1. A \in SUBSET Slot /\ A2 \in SUBSET Slot /\ \A u \in Slot \ {s} : u \in A <=> u \in A2
    BY DEF Sharing
  <2>2. B(s \in A) = Share(tb.entry[s])[f] /\ B(s \in A2) = Share(t2.entry[s])[f]
    <3>1. Share(tb.entry[s])[f] \in {0, 1} /\ Share(t2.entry[s])[f] \in {0, 1}
      BY ShareOf
    <3> QED
      BY <3>1 DEF B, Sharing
  <2>3. Cardinality(A2) = Cardinality(A) + B(s \in A2) - B(s \in A)
    <3> HIDE DEF A, A2
    <3> QED
      BY <2>1, CountChanges
  <2>4. tb.gauge[f] = Cardinality(A)
    BY DEF Counted
  <2> QED
    BY <2>2, <2>3, <2>4
<1>2. t2.routes = Cardinality(Routed(t2.entry))
  <2> DEFINE A == Routed(tb.entry)
             A2 == Routed(t2.entry)
  <2>1. A \in SUBSET Slot /\ A2 \in SUBSET Slot /\ \A u \in Slot \ {s} : u \in A <=> u \in A2
    BY DEF Routed
  <2>2. /\ B(s \in A) = B(InUse(tb.entry[s]) /\ tb.entry[s].route)
        /\ B(s \in A2) = B(InUse(t2.entry[s]) /\ t2.entry[s].route)
    BY DEF B, Routed
  <2>3. Cardinality(A2) = Cardinality(A) + B(s \in A2) - B(s \in A)
    <3> HIDE DEF A, A2
    <3> QED
      BY <2>1, CountChanges
  <2>4. tb.routes = Cardinality(A)
    BY DEF Counted
  <2> QED
    BY <2>2, <2>3, <2>4
<1> QED
  BY <1>1, <1>2 DEF Counted

\* A count is no less than the share of any entry: nothing saturates.
LEMMA NoUnderflow ==
  ASSUME NEW tb, Counted(tb), NEW s \in Slot
  PROVE  /\ \A f \in Counts : tb.gauge[f] \in Nat /\ tb.gauge[f] >= Share(tb.entry[s])[f]
         /\ tb.routes \in Nat
         /\ InUse(tb.entry[s]) /\ tb.entry[s].route => tb.routes >= 1
<1>1. ASSUME NEW f \in Counts
      PROVE  tb.gauge[f] \in Nat /\ tb.gauge[f] >= Share(tb.entry[s])[f]
  <2> DEFINE A == Sharing(tb.entry, f)
  <2>1. A \in SUBSET Slot
    BY DEF Sharing
  <2>2. B(s \in A) = Share(tb.entry[s])[f]
    BY ShareOf DEF B, Sharing
  <2>3. Cardinality(A) \in Nat /\ Cardinality(A) >= B(s \in A)
    <3> HIDE DEF A
    <3> QED
      BY <2>1, CountChanges
  <2> QED
    BY <2>2, <2>3 DEF Counted
<1>2. Routed(tb.entry) \in SUBSET Slot
  BY DEF Routed
<1>3. Cardinality(Routed(tb.entry)) \in Nat
      /\ Cardinality(Routed(tb.entry)) >= B(s \in Routed(tb.entry))
  BY <1>2, CountChanges
<1>4. InUse(tb.entry[s]) /\ tb.entry[s].route => B(s \in Routed(tb.entry)) = 1
  BY DEF Routed, B
<1> QED
  BY <1>1, <1>3, <1>4 DEF Counted
-----------------------------------------------------------------------------
(***************************************************************************)
(* The operators that change one entry.  Edit(w, v, s, k): v is w with k   *)
(* in slot s, its counts still exact, its slots, index and permits as they *)
(* were.                                                                   *)
(***************************************************************************)
Edit(w, v, s, k) ==
  /\ v \in Worlds /\ Counted(v.tbl) /\ v.reg = w.reg
  /\ v.tbl.entry = [w.tbl.entry EXCEPT ![s] = k]
  /\ v.tbl.index = w.tbl.index /\ v.tbl.permits = w.tbl.permits
  /\ v.tbl.queued = w.tbl.queued

\* A world in which slot s is in use.
Editable(w, s) ==
  /\ w \in Worlds /\ Counted(w.tbl) /\ s \in Slot
  /\ InUse(w.tbl.entry[s])
  /\ w.tbl.entry[s].res.indexed => w.tbl.entry[s].res.diag

\* An entry in use is one of Entry.
LEMMA InUseTyped ==
  ASSUME NEW k \in Entry \union {FreeEntry}
  PROVE  InUse(k) <=> k \in Entry
  BY DEF Entry, FreeEntry, InUse

\* The types of a world that can be edited, which is an edit of itself.
LEMMA EditableTyped ==
  ASSUME NEW w, NEW s, Editable(w, s)
  PROVE  /\ w.tbl \in Table /\ w.reg \in Registry /\ w.tbl.entry[s] \in Entry
         /\ w.tbl.entry[s].res \in Reservation
         /\ Edit(w, w, s, w.tbl.entry[s])
<1>1. w.tbl \in Table /\ w.reg \in Registry
  BY DEF Editable, Worlds
<1>2. w.tbl.entry[s] \in Entry
  BY <1>1, InUseTyped DEF Editable, Table
<1>3. w.tbl.entry = [w.tbl.entry EXCEPT ![s] = w.tbl.entry[s]]
  BY <1>1 DEF Editable, Table
<1> QED
  BY <1>1, <1>2, <1>3 DEF Edit, Editable, Entry

\* The second edit of a slot replaces the first.
LEMMA EditThenEdit ==
  ASSUME NEW w, NEW v, NEW x, NEW s, NEW k, NEW k2, w.tbl \in Table, s \in Slot,
         Edit(w, v, s, k), Edit(v, x, s, k2)
  PROVE  Edit(w, x, s, k2)
<1>1. [[w.tbl.entry EXCEPT ![s] = k] EXCEPT ![s] = k2] = [w.tbl.entry EXCEPT ![s] = k2]
  BY DEF Table
<1> QED
  BY <1>1 DEF Edit

\* After an edit the slot can be edited again.
LEMMA EditEditable ==
  ASSUME NEW w, NEW v, NEW s, NEW k \in Entry, Editable(w, s), Edit(w, v, s, k),
         k.res.indexed => k.res.diag
  PROVE  Editable(v, s) /\ v.tbl.entry[s] = k
<1>1. v.tbl.entry[s] = k
  BY EditableTyped DEF Edit, Table, Editable
<1> QED
  BY <1>1 DEF Edit, Editable, InUse, Entry

\* The driver's failure and the QPs at the provider are apart from the counts.
LEMMA EditAside ==
  ASSUME NEW w, NEW v, NEW s, NEW k, Edit(w, v, s, k), NEW Q \in SUBSET QpNum
  PROVE  Edit(w, Fail(v), s, k) /\ Edit(w, [v EXCEPT !.tbl.qps = Q], s, k)
<1>1. v \in Worlds /\ v.tbl \in Table
  BY DEF Edit, Worlds
<1>2. ASSUME NEW t2 \in Table, t2.entry = v.tbl.entry, t2.gauge = v.tbl.gauge,
             t2.routes = v.tbl.routes, t2.index = v.tbl.index, t2.permits = v.tbl.permits,
             t2.queued = v.tbl.queued
      PROVE  Edit(w, [v EXCEPT !.tbl = t2], s, k)
  <2>1. Counted(t2)
    BY <1>2 DEF Edit, Counted
  <2> QED
    BY <1>1, <1>2, <2>1 DEF Edit, Worlds
<1>3. [v.tbl EXCEPT !.failed = TRUE] \in Table /\ [v.tbl EXCEPT !.qps = Q] \in Table
  BY <1>1, Zenon DEF Table
<1> QED
  BY <1>1, <1>2, <1>3, Zenon DEF Fail, Table

\* An entry is replaced by one with the same reservation and route.
LEMMA SetEntryEdits ==
  ASSUME NEW w, NEW s, Editable(w, s), NEW k \in Entry,
         k.res = w.tbl.entry[s].res, k.route = w.tbl.entry[s].route
  PROVE  Edit(w, SetEntry(w, s, k), s, k)
<1> DEFINE t2 == [w.tbl EXCEPT !.entry = [w.tbl.entry EXCEPT ![s] = k]]
<1>1. w \in Worlds /\ w.tbl \in Table /\ s \in Slot /\ InUse(k) /\ InUse(w.tbl.entry[s])
  BY DEF Editable, Worlds, InUse, Entry
<1>2. t2 \in Table
  <2>1. [w.tbl.entry EXCEPT ![s] = k] \in [Slot -> Entry \union {FreeEntry}]
    BY <1>1 DEF Table
  <2> QED
    BY <1>1, <2>1 DEF Table
<1>3. t2.entry[s] = k /\ \A u \in Slot \ {s} : t2.entry[u] = w.tbl.entry[u]
  BY <1>1 DEF Table
<1>4. Share(k) = Share(w.tbl.entry[s])
  BY <1>1 DEF Share
<1>5. t2.gauge = w.tbl.gauge /\ t2.routes = w.tbl.routes
  BY <1>1 DEF Table
<1>6. Counted(t2)
  <2>1. \A f \in Counts : w.tbl.gauge[f] \in Nat /\ Share(w.tbl.entry[s])[f] \in {0, 1}
    BY NoUnderflow, ShareOf DEF Editable
  <2>2. w.tbl.routes \in Nat
    BY <1>1 DEF Table
  <2>3. B(InUse(k) /\ k.route) = B(InUse(w.tbl.entry[s]) /\ w.tbl.entry[s].route)
        /\ B(InUse(k) /\ k.route) \in {0, 1}
    BY <1>1 DEF B
  <2>4. Counted(w.tbl)
    BY DEF Editable
  <2> HIDE DEF t2
  <2> QED
    BY <1>1, <1>2, <1>3, <1>4, <1>5, <2>1, <2>2, <2>3, <2>4, Recount, SMTT(30)
<1>7. SetEntry(w, s, k) = [w EXCEPT !.tbl = t2]
  BY DEF SetEntry
<1> QED
  BY <1>1, <1>2, <1>6, <1>7, ZenonT(30) DEF Edit, Worlds, Table

\* ConnectionReservation::update moves the shares of the entry with it.
LEMMA UpdateEdits ==
  ASSUME NEW w, NEW s, Editable(w, s), NEW res \in Reservation,
         res.diag = w.tbl.entry[s].res.diag, res.indexed = w.tbl.entry[s].res.indexed
  PROVE  Edit(w, [w EXCEPT !.tbl = UpdateReservation(w.tbl, s, res)], s,
              [w.tbl.entry[s] EXCEPT !.res = res])
<1> DEFINE k == w.tbl.entry[s]
           k2 == [k EXCEPT !.res = res]
           g2 == Transition(w.tbl.gauge, k.res, res)
           t2 == UpdateReservation(w.tbl, s, res)
<1>1. /\ w \in Worlds /\ w.tbl \in Table /\ s \in Slot /\ k \in Entry /\ k.res \in Reservation
      /\ InUse(k)
  BY EditableTyped DEF Editable
<1>2. k2 \in Entry /\ k2.res = res /\ k2.route = k.route /\ InUse(k2)
  BY <1>1 DEF Entry, InUse
<1>3. /\ t2.entry = [w.tbl.entry EXCEPT ![s] = k2] /\ t2.gauge = g2
      /\ t2.routes = w.tbl.routes /\ t2.index = w.tbl.index /\ t2.permits = w.tbl.permits
      /\ t2.queued = w.tbl.queued /\ t2.qps = w.tbl.qps /\ t2.failed = w.tbl.failed
      /\ t2 = [w.tbl EXCEPT !.entry = [w.tbl.entry EXCEPT ![s] = k2], !.gauge = g2]
  BY <1>1 DEF UpdateReservation, Table
<1>a. /\ k.res.indexed = res.indexed /\ k.res.diag = res.diag /\ k2.res = res
      /\ Share(k).live = B(k.res.diag) /\ Share(k2).live = B(k2.res.diag)
      /\ \A f \in Counts \ {"live"} :
           /\ Share(k)[f] = IF k.res.indexed THEN Contribution(k.res)[f] ELSE 0
           /\ Share(k2)[f] = IF k2.res.indexed THEN Contribution(k2.res)[f] ELSE 0
  <2>1. k.res.indexed = res.indexed /\ k.res.diag = res.diag
    BY ZenonT(30)
  <2> HIDE DEF k, k2
  <2> QED
    BY <1>1, <1>2, <2>1, ShareOf, Zenon
<1>4. ASSUME NEW f \in Counts
      PROVE  g2[f] = w.tbl.gauge[f] + Share(k2)[f] - Share(k)[f] /\ g2[f] \in Nat
  <2>1. /\ w.tbl.gauge[f] \in Nat /\ w.tbl.gauge[f] >= Share(k)[f]
        /\ Share(k)[f] \in {0, 1} /\ Share(k2)[f] \in {0, 1}
    BY NoUnderflow, ShareOf, SMTT(30) DEF Editable
  <2>2. w.tbl.gauge \in Gauge /\ DOMAIN w.tbl.gauge = Counts
    BY <1>1 DEF Table, Gauge, Counts, NoGauge
  <2>3. CASE ~ res.indexed
    <3>1. g2 = w.tbl.gauge
      BY <2>3 DEF Transition
    <3>2. Share(k2)[f] = Share(k)[f]
      <4> HIDE DEF k, k2
      <4> QED
        BY <1>a, <2>3, SMTT(30)
    <3> QED
      BY <2>1, <3>1, <3>2
  <2>4. CASE res.indexed
    <3>1. res.diag
      BY <1>1, <2>4 DEF Editable
    <3>2. g2[f] = (IF w.tbl.gauge[f] < Contribution(k.res)[f] THEN 0
                   ELSE w.tbl.gauge[f] - Contribution(k.res)[f]) + Contribution(res)[f]
      BY <2>2, <2>4, <3>1 DEF Transition, AddSnapshot, SubSnapshot
    <3>3. CASE f = "live"
      <4>1. Contribution(k.res)[f] = 0 /\ Contribution(res)[f] = 0
        BY <3>3 DEF Contribution
      <4>2. Share(k2)[f] = Share(k)[f]
        <5> HIDE DEF k, k2
        <5> QED
          BY <1>a, <3>3
      <4> QED
        BY <2>1, <3>2, <4>1, <4>2
    <3>4. CASE f # "live"
      <4>1. Contribution(k.res)[f] = Share(k)[f] /\ Contribution(res)[f] = Share(k2)[f]
        <5> HIDE DEF k, k2
        <5> QED
          BY <1>a, <2>4, <3>4
      <4> QED
        BY <2>1, <3>2, <4>1
    <3> QED
      BY <3>3, <3>4
  <2> QED
    BY <2>3, <2>4
<1>5. g2 \in Gauge
  <2>1. w.tbl.gauge \in Gauge
    BY <1>1 DEF Table
  <2>2. g2 = [f \in Counts |-> g2[f]]
    BY <2>1, Zenon DEF Transition, AddSnapshot, SubSnapshot, Gauge, Counts, NoGauge
  <2> HIDE DEF g2
  <2> QED
    BY <1>4, <2>2, Zenon DEF Gauge, Counts, NoGauge
<1> HIDE DEF g2, t2, k2, k
<1>6. t2 \in Table
  <2>1. [w.tbl.entry EXCEPT ![s] = k2] \in [Slot -> Entry \union {FreeEntry}]
    BY <1>1, <1>2 DEF Table
  <2> QED
    BY <1>1, <1>3, <1>5, <2>1, Zenon DEF Table
<1>7. Counted(t2)
  <2>1. t2.entry[s] = k2 /\ \A u \in Slot \ {s} : t2.entry[u] = w.tbl.entry[u]
    BY <1>1, <1>3 DEF Table
  <2>2. w.tbl.routes \in Nat /\ B(InUse(k) /\ k.route) = B(InUse(k2) /\ k2.route)
        /\ B(InUse(k) /\ k.route) \in {0, 1}
    BY <1>1, <1>2 DEF Table, B
  <2>3. Counted(w.tbl) /\ k = w.tbl.entry[s]
    BY DEF Editable, k
  <2>4. \A f \in Counts :
          t2.gauge[f] = w.tbl.gauge[f] + Share(t2.entry[s])[f] - Share(w.tbl.entry[s])[f]
    BY <1>3, <1>4, <2>1, <2>3
  <2>5. t2.routes = w.tbl.routes + B(InUse(t2.entry[s]) /\ t2.entry[s].route)
                                - B(InUse(w.tbl.entry[s]) /\ w.tbl.entry[s].route)
    BY <1>3, <2>1, <2>2, <2>3
  <2> QED
    BY <1>1, <1>6, <2>1, <2>3, <2>4, <2>5, Recount
<1> QED
  BY <1>1, <1>3, <1>6, <1>7, Zenon DEF Edit, Worlds, k2, t2, k

\* The entries that the operators of quarantine and destruction leave.
QuarantinedEntry(k) ==
  IF k.bundle THEN k ELSE [TrackBundleQuarantine(k) EXCEPT !.res = MarkQuarantined(k.res)]

RecoveredEntry(k) ==
  IF k.quar /\ k.bundle
  THEN [ClearBundleQuarantine(k) EXCEPT !.res = RecoverQuarantine(k.res, ~ k.destroyed)]
  ELSE k

DestroyedEntry(k) ==
  IF k.destroyed THEN k
  ELSE [[k EXCEPT !.destroyed = TRUE] EXCEPT !.res = [k.res EXCEPT !.counted = FALSE]]

DrainedEntry(k) == IF CloseStarted(k) THEN RequestRetirement(RecoveredEntry(k)) ELSE k

\* The operations in done leave the entry.
ClearedEntry(k, done) ==
  LET c == IF k.quar /\ k.qops \intersect done # {}
           THEN [k EXCEPT !.qops = @ \ done, !.quar = k.bundle \/ k.qops \ done # {}]
           ELSE k
  IN  [c EXCEPT !.accepted = @ \ done]

SettledEntry(k, done) ==
  IF k.accepted \subseteq done THEN DrainedEntry(ClearedEntry(k, done)) ELSE ClearedEntry(k, done)

\* The transitions of a reservation keep its place on the gauge.
LEMMA ReservationMoves ==
  ASSUME NEW res \in Reservation, NEW live \in BOOLEAN
  PROVE  /\ \A r2 \in {MarkRegistered(res), MarkDraining(res), RollbackDraining(res),
                       MarkQuarantined(res), RecoverQuarantine(res, live),
                       [res EXCEPT !.counted = FALSE]} :
              r2 \in Reservation /\ r2.diag = res.diag /\ r2.indexed = res.indexed
<1>1. MarkRegistered(res) \in Reservation /\ MarkRegistered(res).diag = res.diag
      /\ MarkRegistered(res).indexed = res.indexed
  BY Zenon DEF MarkRegistered, Reservation
<1>2. MarkDraining(res) \in Reservation /\ MarkDraining(res).diag = res.diag
      /\ MarkDraining(res).indexed = res.indexed
  BY DEF MarkDraining, Reservation
<1>3. RollbackDraining(res) \in Reservation /\ RollbackDraining(res).diag = res.diag
      /\ RollbackDraining(res).indexed = res.indexed
  BY DEF RollbackDraining, Reservation
<1>4. MarkQuarantined(res) \in Reservation /\ MarkQuarantined(res).diag = res.diag
      /\ MarkQuarantined(res).indexed = res.indexed
  BY Zenon DEF MarkQuarantined, Reservation
<1>5. RecoverQuarantine(res, live) \in Reservation /\ RecoverQuarantine(res, live).diag = res.diag
      /\ RecoverQuarantine(res, live).indexed = res.indexed
  BY Zenon DEF RecoverQuarantine, Reservation
<1>6. [res EXCEPT !.counted = FALSE] \in Reservation
      /\ [res EXCEPT !.counted = FALSE].diag = res.diag
      /\ [res EXCEPT !.counted = FALSE].indexed = res.indexed
  BY Zenon DEF Reservation
<1> QED
  BY <1>1, <1>2, <1>3, <1>4, <1>5, <1>6

\* The quarantine wrapper of an entry and its fields.
LEMMA WrapperTyped ==
  ASSUME NEW k \in Entry
  PROVE  \A c \in {TrackBundleQuarantine(k), ClearBundleQuarantine(k)} :
           c \in Entry /\ c.res = k.res /\ c.route = k.route
<1>1. ASSUME NEW p \in BOOLEAN, NEW q \in BOOLEAN
      PROVE  [k EXCEPT !.bundle = p, !.quar = q] \in Entry
  BY ZenonT(30) DEF Entry
<1>2. TrackBundleQuarantine(k) \in Entry
  <2>1. [k EXCEPT !.quar = TRUE, !.bundle = TRUE] = [k EXCEPT !.bundle = TRUE, !.quar = TRUE]
    BY Zenon DEF Entry
  <2> QED
    BY <1>1, <2>1, Zenon DEF TrackBundleQuarantine
<1>3. ClearBundleQuarantine(k) \in Entry
  <2>1. (k.qops # {}) \in BOOLEAN
    OBVIOUS
  <2> QED
    BY <1>1, <2>1, Zenon DEF ClearBundleQuarantine
<1>4. TrackBundleQuarantine(k).res = k.res /\ TrackBundleQuarantine(k).route = k.route
  BY DEF TrackBundleQuarantine, Entry
<1>5. ClearBundleQuarantine(k).res = k.res /\ ClearBundleQuarantine(k).route = k.route
  BY DEF ClearBundleQuarantine, Entry
<1> QED
  BY <1>2, <1>3, <1>4, <1>5

\* A new entry with the old reservation, then the reservation itself.
LEMMA SetUpdateEdits ==
  ASSUME NEW w, NEW s, Editable(w, s), NEW c \in Entry,
         c.res = w.tbl.entry[s].res, c.route = w.tbl.entry[s].route,
         NEW r \in Reservation, r.diag = c.res.diag, r.indexed = c.res.indexed
  PROVE  /\ Edit(w, [SetEntry(w, s, c) EXCEPT !.tbl = UpdateReservation(@, s, r)], s,
                 [c EXCEPT !.res = r])
         /\ [c EXCEPT !.res = r] \in Entry
<1> DEFINE v == SetEntry(w, s, c)
           x == [v EXCEPT !.tbl = UpdateReservation(v.tbl, s, r)]
<1>1. Edit(w, v, s, c)
  BY SetEntryEdits
<1>2. c.res.indexed => c.res.diag
  BY DEF Editable
<1>3. Editable(v, s) /\ v.tbl.entry[s] = c
  BY <1>1, <1>2, EditEditable
<1>4. w.tbl \in Table /\ s \in Slot
  BY EditableTyped DEF Editable
<1>5. [c EXCEPT !.res = r] \in Entry
  BY DEF Entry
<1>6. x = [SetEntry(w, s, c) EXCEPT !.tbl = UpdateReservation(@, s, r)]
  OBVIOUS
<1> HIDE DEF v
<1>7. Edit(v, x, s, [c EXCEPT !.res = r])
  BY <1>3, UpdateEdits
<1> HIDE DEF x
<1>8. Edit(w, x, s, [c EXCEPT !.res = r])
  BY <1>1, <1>4, <1>7, EditThenEdit
<1> QED
  BY <1>5, <1>6, <1>8

\* track_bundle_quarantine
LEMMA QuarantineEdits ==
  ASSUME NEW w, NEW s, Editable(w, s)
  PROVE  /\ QuarantinedEntry(w.tbl.entry[s]) \in Entry
         /\ Edit(w, QuarantineBundle(w, s), s, QuarantinedEntry(w.tbl.entry[s]))
<1> DEFINE k == w.tbl.entry[s]
           c == TrackBundleQuarantine(k)
<1>1. k \in Entry /\ k.res \in Reservation /\ Edit(w, w, s, k)
  BY EditableTyped
<1>2. CASE k.bundle
  BY <1>1, <1>2 DEF QuarantinedEntry, QuarantineBundle
<1>3. CASE ~ k.bundle
  <2>1. c \in Entry /\ c.res = k.res /\ c.route = k.route
    BY <1>1, WrapperTyped
  <2>2. /\ MarkQuarantined(k.res) \in Reservation /\ MarkQuarantined(k.res).diag = c.res.diag
        /\ MarkQuarantined(k.res).indexed = c.res.indexed
    BY <1>1, <2>1, ReservationMoves, ZenonT(30)
  <2>3. /\ QuarantinedEntry(k) = [c EXCEPT !.res = MarkQuarantined(k.res)]
        /\ QuarantineBundle(w, s)
             = [SetEntry(w, s, c) EXCEPT !.tbl = UpdateReservation(@, s, MarkQuarantined(k.res))]
    BY <1>3 DEF QuarantinedEntry, QuarantineBundle
  <2> HIDE DEF c
  <2> QED
    BY <2>1, <2>2, <2>3, SetUpdateEdits
<1> QED
  BY <1>2, <1>3

\* clear_bundle_quarantine
LEMMA RecoverEdits ==
  ASSUME NEW w, NEW s, Editable(w, s)
  PROVE  /\ RecoveredEntry(w.tbl.entry[s]) \in Entry
         /\ Edit(w, RecoverBundle(w, s), s, RecoveredEntry(w.tbl.entry[s]))
<1> DEFINE k == w.tbl.entry[s]
           c == ClearBundleQuarantine(k)
           r == RecoverQuarantine(k.res, ~ k.destroyed)
<1>1. k \in Entry /\ k.res \in Reservation /\ Edit(w, w, s, k)
  BY EditableTyped
<1>2. CASE ~ (k.quar /\ k.bundle)
  BY <1>1, <1>2 DEF RecoveredEntry, RecoverBundle
<1>3. CASE k.quar /\ k.bundle
  <2>1. c \in Entry /\ c.res = k.res /\ c.route = k.route
    BY <1>1, WrapperTyped, ZenonT(30)
  <2>2. r \in Reservation /\ r.diag = c.res.diag /\ r.indexed = c.res.indexed
    <3>1. (~ k.destroyed) \in BOOLEAN
      OBVIOUS
    <3>2. r \in Reservation /\ r.diag = k.res.diag /\ r.indexed = k.res.indexed
      BY <1>1, <3>1, ReservationMoves, Zenon
    <3> QED
      BY <2>1, <3>2
  <2>3. /\ RecoveredEntry(k) = [c EXCEPT !.res = r]
        /\ RecoverBundle(w, s) = [SetEntry(w, s, c) EXCEPT !.tbl = UpdateReservation(@, s, r)]
    BY <1>3 DEF RecoveredEntry, RecoverBundle
  <2> HIDE DEF c, r
  <2> QED
    BY <2>1, <2>2, <2>3, SetUpdateEdits
<1> QED
  BY <1>2, <1>3

\* The reservation of a recovered entry keeps its place on the gauge.
LEMMA EntriesKeepPlace ==
  ASSUME NEW k \in Entry
  PROVE  \A k2 \in {QuarantinedEntry(k), RecoveredEntry(k), DestroyedEntry(k)} :
           /\ k2 \in Entry /\ k2.res.diag = k.res.diag /\ k2.res.indexed = k.res.indexed
           /\ k2.kind = k.kind /\ k2.entry = k.entry /\ k2.qp = k.qp /\ k2.route = k.route
           /\ k2.accepted = k.accepted
<1>1. k.res \in Reservation
  BY DEF Entry
<1>2. QuarantinedEntry(k) \in Entry
  <2>1. TrackBundleQuarantine(k) \in Entry
    BY WrapperTyped
  <2>2. MarkQuarantined(k.res) \in Reservation
    BY <1>1, ReservationMoves, Zenon
  <2> HIDE DEF TrackBundleQuarantine
  <2> QED
    BY <2>1, <2>2 DEF QuarantinedEntry, Entry
<1>3. RecoveredEntry(k) \in Entry
  <2>1. ClearBundleQuarantine(k) \in Entry
    BY WrapperTyped
  <2>2. RecoverQuarantine(k.res, ~ k.destroyed) \in Reservation
    <3>1. (~ k.destroyed) \in BOOLEAN
      OBVIOUS
    <3> QED
      BY <1>1, <3>1, ReservationMoves, Zenon
  <2> QED
    BY <2>1, <2>2 DEF RecoveredEntry, Entry
<1>4. DestroyedEntry(k) \in Entry
  <2> DEFINE c == [k EXCEPT !.destroyed = TRUE]
  <2>1. c \in Entry
    BY Zenon DEF Entry
  <2>2. [k.res EXCEPT !.counted = FALSE] \in Reservation
    BY Zenon DEF Entry, Reservation
  <2>3. DestroyedEntry(k) = IF k.destroyed THEN k
                            ELSE [c EXCEPT !.res = [k.res EXCEPT !.counted = FALSE]]
    BY DEF DestroyedEntry
  <2> HIDE DEF c
  <2>4. [c EXCEPT !.res = [k.res EXCEPT !.counted = FALSE]] \in Entry
    BY <2>1, <2>2, Zenon DEF Entry
  <2> QED
    BY <2>3, <2>4
<1>5. /\ MarkQuarantined(k.res).diag = k.res.diag /\ MarkQuarantined(k.res).indexed = k.res.indexed
      /\ RecoverQuarantine(k.res, ~ k.destroyed).diag = k.res.diag
      /\ RecoverQuarantine(k.res, ~ k.destroyed).indexed = k.res.indexed
      /\ [k.res EXCEPT !.counted = FALSE].diag = k.res.diag
      /\ [k.res EXCEPT !.counted = FALSE].indexed = k.res.indexed
  <2>1. (~ k.destroyed) \in BOOLEAN
    OBVIOUS
  <2> QED
    BY <1>1, <2>1, ReservationMoves, Zenon
<1>6. LET k2 == QuarantinedEntry(k)
      IN  /\ k2.res.diag = k.res.diag /\ k2.res.indexed = k.res.indexed
          /\ k2.kind = k.kind /\ k2.entry = k.entry /\ k2.qp = k.qp /\ k2.route = k.route
          /\ k2.accepted = k.accepted
  BY <1>5 DEF QuarantinedEntry, TrackBundleQuarantine, Entry
<1>7. LET k2 == RecoveredEntry(k)
      IN  /\ k2.res.diag = k.res.diag /\ k2.res.indexed = k.res.indexed
          /\ k2.kind = k.kind /\ k2.entry = k.entry /\ k2.qp = k.qp /\ k2.route = k.route
          /\ k2.accepted = k.accepted
  BY <1>5 DEF RecoveredEntry, ClearBundleQuarantine, Entry
<1>8. LET k2 == DestroyedEntry(k)
      IN  /\ k2.res.diag = k.res.diag /\ k2.res.indexed = k.res.indexed
          /\ k2.kind = k.kind /\ k2.entry = k.entry /\ k2.qp = k.qp /\ k2.route = k.route
          /\ k2.accepted = k.accepted
  BY <1>5 DEF DestroyedEntry, Entry
<1> QED
  BY <1>2, <1>3, <1>4, <1>6, <1>7, <1>8

\* record_qp_destroyed
LEMMA DestroyEdits ==
  ASSUME NEW w, NEW s, Editable(w, s)
  PROVE  /\ DestroyedEntry(w.tbl.entry[s]) \in Entry
         /\ Edit(w, RecordQpDestroyed(w, s), s, DestroyedEntry(w.tbl.entry[s]))
<1> DEFINE k == w.tbl.entry[s]
           c == [k EXCEPT !.destroyed = TRUE]
           r == [k.res EXCEPT !.counted = FALSE]
           Q == w.tbl.qps \ {k.qp}
           u == SetEntry(w, s, c)
           v == [u EXCEPT !.tbl.qps = Q]
           x == [v EXCEPT !.tbl = UpdateReservation(v.tbl, s, r)]
<1>1. k \in Entry /\ k.res \in Reservation /\ Edit(w, w, s, k) /\ w.tbl \in Table /\ s \in Slot
      /\ w \in Worlds
  BY EditableTyped DEF Editable
<1>2. CASE k.destroyed
  BY <1>1, <1>2 DEF DestroyedEntry, RecordQpDestroyed
<1>3. CASE ~ k.destroyed
  <2>1. c \in Entry /\ c.res = k.res /\ c.route = k.route
    BY <1>1, Zenon DEF Entry
  <2>2. r \in Reservation /\ r.diag = k.res.diag /\ r.indexed = k.res.indexed
    BY <1>1, Zenon DEF Reservation
  <2>3. DestroyedEntry(k) = [c EXCEPT !.res = r]
    BY <1>3 DEF DestroyedEntry
  <2>4. [c EXCEPT !.res = r] \in Entry
    BY <2>1, <2>2, Zenon DEF Entry
  <2>5. RecordQpDestroyed(w, s) = x
    <3>1. v = [w EXCEPT !.tbl.entry[s].destroyed = TRUE, !.tbl.qps = @ \ {k.qp}]
      BY <1>1 DEF SetEntry, Worlds, Table
    <3> QED
      BY <1>3, <3>1, Zenon DEF RecordQpDestroyed
  <2>6. Q \in SUBSET QpNum
    BY <1>1 DEF Table
  <2> HIDE DEF c, r, Q, x, u
  <2>7. Edit(w, u, s, c)
    BY <2>1, SetEntryEdits DEF u
  <2>8. Edit(w, v, s, c)
    BY <2>6, <2>7, EditAside
  <2> HIDE DEF v
  <2>9. Editable(v, s) /\ v.tbl.entry[s] = c
    <3>1. c.res.indexed => c.res.diag
      BY <2>1 DEF Editable
    <3> QED
      BY <2>1, <2>8, <3>1, EditEditable
  <2>10. Edit(v, x, s, [c EXCEPT !.res = r])
    BY <2>1, <2>2, <2>9, UpdateEdits DEF x
  <2>11. Edit(w, x, s, [c EXCEPT !.res = r])
    BY <1>1, <2>8, <2>10, EditThenEdit
  <2> QED
    BY <2>3, <2>4, <2>5, <2>11
<1> QED
  BY <1>2, <1>3

\* What a handler may do to an entry in use: it stays consistent, keeps its QP
\* number and has a connection if and only if it had one.
Evolves(k, k2) ==
  EntryOK(k2) /\ k2.qp = k.qp /\ (k2.entry = "Setup" <=> k.entry = "Setup")

\* A bundle enters quarantine with its reservation, whatever its state.
LEMMA QuarantineEvolves ==
  ASSUME NEW k, EntryOK(k)
  PROVE  Evolves(k, QuarantinedEntry(k))
<1> DEFINE k2 == QuarantinedEntry(k)
<1>1. k \in Entry /\ k2 \in Entry /\ k2.entry = k.entry /\ k2.qp = k.qp /\ k2.kind = k.kind
      /\ k2.route = k.route /\ k2.res.diag = k.res.diag /\ k2.res.indexed = k.res.indexed
  BY EntriesKeepPlace DEF EntryOK
<1>2. CASE k.bundle
  BY <1>2 DEF QuarantinedEntry, Evolves
<1>3. CASE ~ k.bundle
  <2>1. /\ k2.quar = TRUE /\ k2.bundle = TRUE /\ k2.res = MarkQuarantined(k.res)
        /\ k2.errStarted = k.errStarted /\ k2.errDone = k.errDone /\ k2.destroyed = k.destroyed
    BY <1>1, <1>3 DEF QuarantinedEntry, TrackBundleQuarantine, IsOccupied, Entry
  <2>2. /\ k2.res.counted = FALSE
        /\ k2.res.state = CASE k.res.state = "Establishing" -> "QuarantinedEstablishing"
                            [] k.res.state = "Established" -> "QuarantinedEstablished"
                            [] k.res.state = "Draining" -> "QuarantinedDraining"
                            [] OTHER -> k.res.state
    BY <1>1, <2>1 DEF MarkQuarantined, Entry, Reservation
  <2> HIDE DEF k2
  <2>3. k.entry = "Setup" =>
          /\ ~ k2.errStarted /\ ~ k2.errDone /\ ~ k2.destroyed
          /\ k2.res.state = "QuarantinedEstablishing"
    BY <1>3, <2>1, <2>2 DEF EntryOK
  <2>4. k.entry # "Setup" =>
          k2.res.state = IF k2.errDone THEN "QuarantinedDraining" ELSE "QuarantinedEstablished"
    BY <1>3, <2>1, <2>2 DEF EntryOK
  <2>5. EntryOK(k2)
    BY <1>1, <2>1, <2>2, <2>3, <2>4 DEF EntryOK
  <2> QED
    BY <1>1, <2>5 DEF Evolves, k2
<1> QED
  BY <1>2, <1>3

\* The bundle leaves quarantine with the QP counted if it still exists.
LEMMA RecoverEvolves ==
  ASSUME NEW k, EntryOK(k), k.entry # "Setup"
  PROVE  Evolves(k, RecoveredEntry(k)) /\ RecoveredEntry(k).entry = k.entry
<1> DEFINE k2 == RecoveredEntry(k)
<1>1. k \in Entry /\ k2 \in Entry /\ k2.entry = k.entry /\ k2.qp = k.qp /\ k2.kind = k.kind
      /\ k2.route = k.route /\ k2.res.diag = k.res.diag /\ k2.res.indexed = k.res.indexed
  BY EntriesKeepPlace DEF EntryOK
<1>2. CASE ~ (k.quar /\ k.bundle)
  BY <1>2 DEF RecoveredEntry, Evolves
<1>3. CASE k.quar /\ k.bundle
  <2>1. /\ k2.bundle = FALSE /\ k2.res = RecoverQuarantine(k.res, ~ k.destroyed)
        /\ k2.errStarted = k.errStarted /\ k2.errDone = k.errDone /\ k2.destroyed = k.destroyed
    <3> DEFINE c == ClearBundleQuarantine(k)
    <3>1. c \in Entry
      BY <1>1, WrapperTyped
    <3>2. /\ c.bundle = FALSE /\ c.errStarted = k.errStarted /\ c.errDone = k.errDone
          /\ c.destroyed = k.destroyed
      BY <1>1, <1>3, Zenon DEF ClearBundleQuarantine, Entry
    <3>3. k2 = [c EXCEPT !.res = RecoverQuarantine(k.res, ~ k.destroyed)]
      BY <1>3 DEF RecoveredEntry
    <3> HIDE DEF c, k2
    <3> QED
      BY <3>1, <3>2, <3>3 DEF Entry
  <2>2. k.res \in Reservation
        /\ k.res.state = IF k.errDone THEN "QuarantinedDraining" ELSE "QuarantinedEstablished"
    BY <1>1, <1>3 DEF EntryOK, Entry
  <2>3. k2.res.state = IF k.errDone THEN "Draining" ELSE "Established"
    BY <2>1, <2>2 DEF RecoverQuarantine, Reservation
  <2>4. k2.res.counted <=> ~ k.destroyed
    BY <2>1, <2>2, Zenon DEF RecoverQuarantine, Reservation
  <2> HIDE DEF k2
  <2>5. EntryOK(k2)
    BY <1>1, <2>1, <2>3, <2>4 DEF EntryOK
  <2> QED
    BY <1>1, <2>5 DEF Evolves, k2
<1> QED
  BY <1>1, <1>2, <1>3

\* A destroyed QP is counted no more.
LEMMA DestroyEvolves ==
  ASSUME NEW k, EntryOK(k), k.entry # "Setup"
  PROVE  /\ Evolves(k, DestroyedEntry(k)) /\ DestroyedEntry(k).entry = k.entry
         /\ DestroyedEntry(k).accepted = k.accepted
<1> DEFINE k2 == DestroyedEntry(k)
<1>1. k \in Entry /\ k2 \in Entry /\ k2.entry = k.entry /\ k2.qp = k.qp /\ k2.kind = k.kind
      /\ k2.route = k.route /\ k2.res.diag = k.res.diag /\ k2.res.indexed = k.res.indexed
      /\ k2.accepted = k.accepted
  BY EntriesKeepPlace DEF EntryOK
<1>2. CASE k.destroyed
  BY <1>2 DEF DestroyedEntry, Evolves
<1>3. CASE ~ k.destroyed
  <2>1. /\ k2.destroyed = TRUE /\ k2.res.counted = FALSE /\ k2.res.state = k.res.state
        /\ k2.errStarted = k.errStarted /\ k2.errDone = k.errDone
        /\ k2.quar = k.quar /\ k2.bundle = k.bundle
    BY <1>1, <1>3 DEF DestroyedEntry, Entry, Reservation
  <2> HIDE DEF k2
  <2>2. k2.res.state = IF k2.errDone
                        THEN IF k2.bundle THEN "QuarantinedDraining" ELSE "Draining"
                        ELSE IF k2.bundle THEN "QuarantinedEstablished" ELSE "Established"
    BY <2>1 DEF EntryOK
  <2>3. EntryOK(k2)
    BY <1>1, <2>1, <2>2 DEF EntryOK
  <2> QED
    BY <1>1, <2>3 DEF Evolves, k2
<1> QED
  BY <1>1, <1>2, <1>3

\* An entry changes in fields that its reservation does not follow.
LEMMA AsideEvolves ==
  ASSUME NEW k, EntryOK(k), k.entry # "Setup", NEW k2 \in Entry, k2.entry # "Setup",
         k2.res = k.res, k2.qp = k.qp, k2.destroyed = k.destroyed, k2.bundle = k.bundle,
         k2.errStarted = k.errStarted, k2.errDone = k.errDone,
         k2.bundle => k2.quar,
         k2.entry \in {"Registered", "Active"} => k.entry \in {"Registered", "Active"}
  PROVE  Evolves(k, k2)
<1>1. k2.res.state = IF k2.errDone
                     THEN IF k2.bundle THEN "QuarantinedDraining" ELSE "Draining"
                     ELSE IF k2.bundle THEN "QuarantinedEstablished" ELSE "Established"
  BY DEF EntryOK
<1>2. k2.res.counted <=> ~ k2.destroyed /\ ~ k2.bundle
  BY DEF EntryOK
<1> QED
  BY <1>1, <1>2 DEF Evolves, EntryOK

\* request_retirement
LEMMA RetirementEvolves ==
  ASSUME NEW k, EntryOK(k), k.entry # "Setup"
  PROVE  /\ Evolves(k, RequestRetirement(k))
         /\ RequestRetirement(k).res = k.res /\ RequestRetirement(k).route = k.route
<1> DEFINE k2 == RequestRetirement(k)
<1>1. k \in Entry
  BY DEF EntryOK
<1>2. k2 \in Entry
  <2>1. [k EXCEPT !.entry = "Retiring", !.started = FALSE, !.retire = TRUE] \in Entry
    BY <1>1, Zenon DEF Entry
  <2> QED
    BY <1>1, <2>1 DEF RequestRetirement
<1>3. /\ k2.res = k.res /\ k2.qp = k.qp /\ k2.destroyed = k.destroyed /\ k2.bundle = k.bundle
      /\ k2.errStarted = k.errStarted /\ k2.errDone = k.errDone /\ k2.quar = k.quar
      /\ k2.entry \in {k.entry, "Retiring"} /\ k2.route = k.route
  BY <1>1 DEF RequestRetirement, Entry
<1> HIDE DEF k2
<1>4. k.bundle => k.quar
  BY DEF EntryOK
<1>5. Evolves(k, k2)
  BY <1>2, <1>3, <1>4, AsideEvolves
<1> QED
  BY <1>3, <1>5 DEF k2

\* The last accepted operation of a connection is settled.
LEMMA DrainedEdits ==
  ASSUME NEW w, NEW s, Editable(w, s), EntryOK(w.tbl.entry[s]), w.tbl.entry[s].entry # "Setup"
  PROVE  /\ Evolves(w.tbl.entry[s], DrainedEntry(w.tbl.entry[s]))
         /\ Edit(w, Drained(w, s), s, DrainedEntry(w.tbl.entry[s]))
<1> DEFINE k == w.tbl.entry[s]
           v == RecoverBundle(w, s)
           c == RecoveredEntry(k)
           k2 == RequestRetirement(c)
<1>1. Edit(w, w, s, k) /\ w.tbl \in Table /\ s \in Slot
  BY EditableTyped DEF Editable
<1>2. CASE ~ CloseStarted(k)
  BY <1>1, <1>2 DEF DrainedEntry, Drained, Evolves
<1>3. CASE CloseStarted(k)
  <2>1. c \in Entry /\ Edit(w, v, s, c)
    BY RecoverEdits
  <2>2. Evolves(k, c) /\ c.entry # "Setup"
    BY RecoverEvolves
  <2>3. Drained(w, s) = SetEntry(v, s, RequestRetirement(v.tbl.entry[s])) /\ DrainedEntry(k) = k2
    BY <1>3 DEF Drained, DrainedEntry
  <2> HIDE DEF v, c
  <2>4. Editable(v, s) /\ v.tbl.entry[s] = c
    <3>1. c.res.indexed => c.res.diag
      BY <2>2 DEF Evolves, EntryOK
    <3> QED
      BY <2>1, <3>1, EditEditable, ZenonT(30)
  <2>5. EntryOK(c)
    BY <2>2 DEF Evolves
  <2>6. Evolves(c, k2) /\ k2.res = c.res /\ k2.route = c.route
    BY <2>2, <2>5, RetirementEvolves, ZenonT(30)
  <2> HIDE DEF k2
  <2>7. Evolves(k, k2) /\ k2 \in Entry
    BY <2>2, <2>6, Zenon DEF Evolves, EntryOK
  <2>8. Edit(v, SetEntry(v, s, k2), s, k2)
    BY <2>4, <2>6, <2>7, SetEntryEdits
  <2>9. Edit(w, SetEntry(v, s, k2), s, k2)
    BY <1>1, <2>1, <2>8, EditThenEdit
  <2> QED
    BY <2>3, <2>4, <2>7, <2>9 DEF k2
<1> QED
  BY <1>2, <1>3

\* Operations leave an entry, and take an operation's quarantine with them.
LEMMA ClearedEvolves ==
  ASSUME NEW k, EntryOK(k), k.entry # "Setup", NEW done \in SUBSET Ops
  PROVE  /\ Evolves(k, ClearedEntry(k, done)) /\ ClearedEntry(k, done).entry # "Setup"
         /\ ClearedEntry(k, done).res = k.res /\ ClearedEntry(k, done).route = k.route
<1> DEFINE q == k.bundle \/ k.qops \ done # {}
           d == [k EXCEPT !.qops = @ \ done, !.quar = q]
           c == IF k.quar /\ k.qops \intersect done # {} THEN d ELSE k
           k2 == [c EXCEPT !.accepted = @ \ done]
<1>1. k \in Entry /\ (k.bundle => k.quar)
  BY DEF EntryOK
<1>2. /\ d \in Entry /\ d.res = k.res /\ d.qp = k.qp /\ d.destroyed = k.destroyed /\ d.bundle = k.bundle
      /\ d.errStarted = k.errStarted /\ d.errDone = k.errDone /\ d.entry = k.entry
      /\ d.route = k.route /\ d.quar = q
  <2>1. q \in BOOLEAN /\ k.qops \ done \in SUBSET Ops
    BY <1>1 DEF Entry
  <2> HIDE DEF q
  <2> QED
    BY <1>1, <2>1, Zenon DEF Entry
<1>3. d.bundle => d.quar
  <2>1. d.bundle => q
    BY <1>2
  <2> HIDE DEF d, q
  <2> QED
    BY <1>2, <2>1
<1> HIDE DEF d
<1>4. /\ c \in Entry /\ c.res = k.res /\ c.qp = k.qp /\ c.destroyed = k.destroyed
      /\ c.bundle = k.bundle /\ c.errStarted = k.errStarted /\ c.errDone = k.errDone
      /\ c.entry = k.entry /\ c.route = k.route /\ (c.bundle => c.quar)
  BY <1>1, <1>2, <1>3
<1> HIDE DEF c
<1>5. /\ k2 \in Entry /\ k2.res = c.res /\ k2.qp = c.qp /\ k2.destroyed = c.destroyed
      /\ k2.bundle = c.bundle /\ k2.errStarted = c.errStarted /\ k2.errDone = c.errDone
      /\ k2.entry = c.entry /\ k2.route = c.route /\ k2.quar = c.quar
  BY <1>4 DEF Entry
<1>6. ClearedEntry(k, done) = k2
  BY DEF ClearedEntry, c, d
<1> HIDE DEF k2
<1>7. Evolves(k, k2)
  BY <1>4, <1>5, AsideEvolves
<1> QED
  BY <1>4, <1>5, <1>6, <1>7

\* Evolution composes.
LEMMA EvolvesTwice ==
  ASSUME NEW k, NEW k2, NEW k3, Evolves(k, k2), Evolves(k2, k3)
  PROVE  Evolves(k, k3)
  BY SMTT(30) DEF Evolves

\* The operations in done are settled.
LEMMA SettledEdits ==
  ASSUME NEW w, NEW s, Editable(w, s), EntryOK(w.tbl.entry[s]), w.tbl.entry[s].entry # "Setup",
         NEW done \in SUBSET Ops
  PROVE  /\ Evolves(w.tbl.entry[s], SettledEntry(w.tbl.entry[s], done))
         /\ Edit(w, Settled(w, s, done), s, SettledEntry(w.tbl.entry[s], done))
<1> DEFINE k == w.tbl.entry[s]
           c == ClearedEntry(k, done)
           v == SetEntry(w, s, c)
<1>1. w.tbl \in Table /\ s \in Slot
  BY EditableTyped DEF Editable
<1>2. Evolves(k, c) /\ c.entry # "Setup" /\ c.res = k.res /\ c.route = k.route
  BY ClearedEvolves, Zenon
<1>3. c \in Entry /\ (c.res.indexed => c.res.diag) /\ EntryOK(c)
  BY <1>2, Zenon DEF Evolves, EntryOK
<1>4. Settled(w, s, done) = IF k.accepted \subseteq done THEN Drained(v, s) ELSE v
  BY Zenon DEF Settled, ClearedEntry
<1> HIDE DEF c
<1>5. Edit(w, v, s, c)
  BY <1>2, <1>3, SetEntryEdits
<1> HIDE DEF v
<1>6. Editable(v, s) /\ v.tbl.entry[s] = c
  BY <1>3, <1>5, EditEditable, Zenon
<1>7. Evolves(c, DrainedEntry(c)) /\ Edit(v, Drained(v, s), s, DrainedEntry(c))
  BY <1>2, <1>3, <1>6, DrainedEdits, Zenon
<1>8. Evolves(k, DrainedEntry(c)) /\ Edit(w, Drained(v, s), s, DrainedEntry(c))
  BY <1>1, <1>2, <1>5, <1>7, EvolvesTwice, EditThenEdit, ZenonT(30)
<1> QED
  BY <1>2, <1>4, <1>5, <1>8, SMTT(30) DEF SettledEntry, c

\* release_route of an entry with a connection takes its route off route_count.
RoutelessEntry(k) == IF k.route /\ k.entry # "Registered" THEN [k EXCEPT !.route = FALSE] ELSE k

\* Taking the route off edits the entry and keeps route_count exact.
LEMMA DropRouteEdits ==
  ASSUME NEW w, NEW s, Editable(w, s), EntryOK(w.tbl.entry[s]), w.tbl.entry[s].entry # "Setup"
  PROVE  /\ Evolves(w.tbl.entry[s], RoutelessEntry(w.tbl.entry[s]))
         /\ RoutelessEntry(w.tbl.entry[s]).entry # "Setup"
         /\ Edit(w, DropRoute(w, s), s, RoutelessEntry(w.tbl.entry[s]))
<1> DEFINE k == w.tbl.entry[s]
           k2 == [k EXCEPT !.route = FALSE]
           e2 == [w.tbl.entry EXCEPT ![s] = k2]
           n2 == IF w.tbl.routes = 0 THEN 0 ELSE w.tbl.routes - 1
           t2 == [w.tbl EXCEPT !.entry = e2, !.routes = n2]
<1>1. w \in Worlds /\ w.tbl \in Table /\ s \in Slot /\ k \in Entry /\ InUse(k) /\ Edit(w, w, s, k)
  BY EditableTyped DEF Editable
<1>2. CASE ~ (k.route /\ k.entry # "Registered")
  BY <1>1, <1>2 DEF RoutelessEntry, DropRoute, Evolves
<1>3. CASE k.route /\ k.entry # "Registered"
  <2>1. /\ k2 \in Entry /\ k2.res = k.res /\ k2.qp = k.qp /\ k2.destroyed = k.destroyed
        /\ k2.bundle = k.bundle /\ k2.errStarted = k.errStarted /\ k2.errDone = k.errDone
        /\ k2.entry = k.entry /\ k2.quar = k.quar /\ k2.route = FALSE
    BY <1>1, Zenon DEF Entry
  <2>2. DropRoute(w, s) = [w EXCEPT !.tbl = t2]
    BY <1>1, <1>3, Zenon DEF DropRoute, Worlds, Table
  <2>3. RoutelessEntry(k) = k2
    BY <1>3, ZenonT(30) DEF RoutelessEntry
  <2>4. k.bundle => k.quar
    BY DEF EntryOK
  <2> HIDE DEF k2
  <2>5. Evolves(k, k2)
    BY <2>1, <2>4, AsideEvolves, ZenonT(30)
  <2>6. e2 \in [Slot -> Entry \union {FreeEntry}] /\ e2[s] = k2
        /\ \A u \in Slot \ {s} : e2[u] = w.tbl.entry[u]
    BY <1>1, <2>1 DEF Table
  <2>7. w.tbl.routes \in Nat /\ w.tbl.routes >= 1 /\ n2 = w.tbl.routes - 1 /\ n2 \in Nat
    <3>1. Counted(w.tbl)
      BY DEF Editable
    <3>2. w.tbl.routes \in Nat /\ w.tbl.routes >= 1
      BY <1>1, <1>3, <3>1, NoUnderflow
    <3> QED
      BY <3>2
  <2> HIDE DEF e2, n2
  <2>8. t2 \in Table /\ t2.entry = e2 /\ t2.routes = n2 /\ t2.gauge = w.tbl.gauge
        /\ t2.index = w.tbl.index /\ t2.permits = w.tbl.permits /\ t2.queued = w.tbl.queued
    BY <1>1, <2>6, <2>7, ZenonT(30) DEF Table
  <2> HIDE DEF t2
  <2>9. Counted(t2)
    <3>1. Counted(w.tbl) /\ Share(k2) = Share(k)
      BY <1>1, <2>1 DEF Editable, Share, InUse
    <3>2. \A f \in Counts : w.tbl.gauge[f] \in Nat /\ Share(k)[f] \in {0, 1}
      BY <1>1, <3>1, NoUnderflow, ShareOf, ZenonT(30)
    <3>3. t2.routes = w.tbl.routes + B(InUse(t2.entry[s]) /\ t2.entry[s].route)
                                   - B(InUse(w.tbl.entry[s]) /\ w.tbl.entry[s].route)
      BY <1>1, <1>3, <2>1, <2>6, <2>7, <2>8, SMTT(30) DEF B
    <3>4. \A f \in Counts :
            t2.gauge[f] = w.tbl.gauge[f] + Share(t2.entry[s])[f] - Share(w.tbl.entry[s])[f]
      BY <2>6, <2>8, <3>1, <3>2
    <3>5. \A u \in Slot \ {s} : t2.entry[u] = w.tbl.entry[u]
      BY <2>6, <2>8
    <3> QED
      BY <1>1, <2>8, <3>1, <3>3, <3>4, <3>5, Recount, ZenonT(30)
  <2>10. Edit(w, [w EXCEPT !.tbl = t2], s, k2)
    BY <1>1, <2>8, <2>9 DEF Edit, Worlds, e2
  <2> QED
    BY <2>1, <2>2, <2>3, <2>5, <2>10, ZenonT(30)
<1> QED
  BY <1>2, <1>3
-----------------------------------------------------------------------------
(***************************************************************************)
(* Steps that edit one entry in use keep the invariant.                    *)
(***************************************************************************)

\* Every entry in use can be edited and is consistent.
LEMMA TableEditable ==
  ASSUME NEW w, TableInv(w), NEW s \in Slot, InUse(w.tbl.entry[s])
  PROVE  Editable(w, s) /\ EntryOK(w.tbl.entry[s])
<1>1. EntryOK(w.tbl.entry[s])
  BY ZenonT(30) DEF TableInv
<1>2. w.tbl.entry[s].res.indexed => w.tbl.entry[s].res.diag
  BY <1>1 DEF EntryOK
<1> QED
  BY <1>1, <1>2 DEF TableInv, Editable

\* An edit under which the entry evolves keeps the whole invariant.
LEMMA EditKeeps ==
  ASSUME NEW w, TableInv(w), NEW s \in Slot, InUse(w.tbl.entry[s]), NEW v, NEW k2,
         Edit(w, v, s, k2), Evolves(w.tbl.entry[s], k2)
  PROVE  TableInv(v)
<1> DEFINE k == w.tbl.entry[s]
<1>1. w \in Worlds /\ w.tbl \in Table /\ k \in Entry /\ k2 \in Entry /\ EntryOK(k2)
  BY TableEditable, ZenonT(30) DEF Evolves, EntryOK, TableInv, Worlds
<1>2. InUse(k2) /\ k2.qp = k.qp /\ (HasConnection(k2) <=> HasConnection(k))
  BY <1>1 DEF Evolves, InUse, HasConnection, Entry
<1>3. v.tbl.entry[s] = k2 /\ \A u \in Slot \ {s} : v.tbl.entry[u] = w.tbl.entry[u]
  BY <1>1 DEF Edit, Table
<1>4. /\ v \in Worlds /\ v.reg = w.reg /\ Counted(v.tbl) /\ v.tbl.index = w.tbl.index
      /\ v.tbl.permits = w.tbl.permits /\ v.tbl.queued = w.tbl.queued
  BY DEF Edit
<1>5. Inv(v.reg)
  BY <1>4 DEF TableInv
<1>6. \A u \in Slot : InUse(v.tbl.entry[u]) => EntryOK(v.tbl.entry[u])
  BY <1>1, <1>3 DEF TableInv
<1>7. \A u \in Slot : TokenOf(v, u) = TokenOf(w, u)
  BY <1>4 DEF TokenOf
<1>8. \A u \in Slot : /\ InUse(v.tbl.entry[u]) <=> InUse(w.tbl.entry[u])
                      /\ HasConnection(v.tbl.entry[u]) <=> HasConnection(w.tbl.entry[u])
                      /\ InUse(w.tbl.entry[u]) => v.tbl.entry[u].qp = w.tbl.entry[u].qp
  BY <1>2, <1>3, Zenon
<1>9. EntriesHeld(v)
  BY <1>4, <1>7, <1>8, Zenon DEF TableInv, EntriesHeld
<1>10. Indexed(v)
  <2>1. \A u \in Slot : HasConnection(w.tbl.entry[u]) => InUse(w.tbl.entry[u])
    BY DEF HasConnection, InUse
  <2> QED
    BY <1>4, <1>7, <1>8, <2>1, ZenonT(30) DEF TableInv, Indexed
<1>11. PermitsOut(v.tbl)
  <2>1. Used(v.tbl.entry) = Used(w.tbl.entry)
    BY <1>8 DEF Used
  <2> QED
    BY <1>4, <2>1 DEF TableInv, PermitsOut
<1> QED
  BY <1>4, <1>5, <1>6, <1>9, <1>10, <1>11, ZenonT(30) DEF TableInv

\* A handler's result becomes the next state.
LEMMA BecomeInv ==
  ASSUME NEW STATE x, Become(x), TableInv(x)
  PROVE  TableInv(World')
<1>1. x = [reg |-> x.reg, tbl |-> x.tbl]
  BY DEF TableInv, Worlds
<1> QED
  BY <1>1 DEF Become, World

\* The world of the two variables.
LEMMA WorldFields ==
  World.reg = reg /\ World.tbl = tbl
  BY Zenon DEF World

\* A step that changes one entry in fields its reservation does not follow.
LEMMA AsideKeeps ==
  ASSUME NEW w, TableInv(w), NEW s \in Slot, HasConnection(w.tbl.entry[s]),
         NEW k2, k2 \in Entry, k2.entry # "Setup", k2.route = w.tbl.entry[s].route,
         k2.res = w.tbl.entry[s].res, k2.qp = w.tbl.entry[s].qp,
         k2.destroyed = w.tbl.entry[s].destroyed, k2.bundle = w.tbl.entry[s].bundle,
         k2.errStarted = w.tbl.entry[s].errStarted, k2.errDone = w.tbl.entry[s].errDone,
         k2.bundle => k2.quar,
         k2.entry \in {"Registered", "Active"} => w.tbl.entry[s].entry \in {"Registered", "Active"}
  PROVE  TableInv(SetEntry(w, s, k2))
<1>1. Editable(w, s) /\ EntryOK(w.tbl.entry[s]) /\ w.tbl.entry[s].entry # "Setup"
      /\ InUse(w.tbl.entry[s])
  BY TableEditable, Zenon DEF HasConnection, InUse
<1>2. Evolves(w.tbl.entry[s], k2)
  BY <1>1, AsideEvolves, ZenonT(30)
<1>3. Edit(w, SetEntry(w, s, k2), s, k2)
  BY <1>1, SetEntryEdits
<1> QED
  BY <1>1, <1>2, <1>3, EditKeeps, Zenon

\* The driver's failure and the QPs at the provider are apart from the invariant.
LEMMA FailKeeps ==
  ASSUME NEW w, TableInv(w), NEW Q \in SUBSET QpNum
  PROVE  TableInv(Fail(w)) /\ TableInv([w EXCEPT !.tbl.qps = Q])
<1>1. w \in Worlds /\ w.tbl \in Table
  BY DEF TableInv, Worlds
<1>2. ASSUME NEW t2 \in Table, t2.entry = w.tbl.entry, t2.gauge = w.tbl.gauge,
             t2.routes = w.tbl.routes, t2.index = w.tbl.index, t2.permits = w.tbl.permits,
             t2.queued = w.tbl.queued
      PROVE  TableInv([w EXCEPT !.tbl = t2])
  <2> DEFINE v == [w EXCEPT !.tbl = t2]
  <2>1. v \in Worlds /\ v.tbl = t2 /\ v.reg = w.reg
    BY <1>1 DEF Worlds
  <2> HIDE DEF v
  <2>2. Counted(v.tbl)
    BY <1>2, <2>1 DEF TableInv, Counted
  <2>3. \A u \in Slot : TokenOf(v, u) = TokenOf(w, u)
    BY <2>1, Zenon DEF TokenOf
  <2>4. EntriesHeld(v) /\ Indexed(v)
    BY <1>2, <2>1, <2>3, Zenon DEF TableInv, EntriesHeld, Indexed
  <2>5. PermitsOut(v.tbl)
    BY <1>2, <2>1 DEF TableInv, PermitsOut
  <2> QED
    BY <1>2, <2>1, <2>2, <2>4, <2>5 DEF TableInv, v
<1>3. [w.tbl EXCEPT !.failed = TRUE] \in Table /\ [w.tbl EXCEPT !.qps = Q] \in Table
  BY <1>1, Zenon DEF Table
<1> QED
  BY <1>1, <1>2, <1>3, Zenon DEF Fail, Table

\* What an edit leaves in its slot.
LEMMA EditLeaves ==
  ASSUME NEW w, TableInv(w), NEW s \in Slot, InUse(w.tbl.entry[s]), NEW v, NEW k2,
         Edit(w, v, s, k2), Evolves(w.tbl.entry[s], k2)
  PROVE  /\ TableInv(v) /\ v.tbl.entry[s] = k2 /\ InUse(v.tbl.entry[s])
         /\ HasConnection(v.tbl.entry[s]) <=> HasConnection(w.tbl.entry[s])
<1>1. TableInv(v)
  BY EditKeeps
<1>2. w.tbl \in Table /\ w.tbl.entry[s] \in Entry /\ k2 \in Entry
  BY TableEditable, ZenonT(30) DEF TableInv, Worlds, Evolves, EntryOK
<1>3. v.tbl.entry[s] = k2
  BY <1>2, Zenon DEF Edit, Table
<1> QED
  BY <1>1, <1>2, <1>3 DEF Evolves, HasConnection, InUse, Entry

\* Quarantine of a bundle keeps the invariant.
LEMMA QuarantineKeeps ==
  ASSUME NEW w, TableInv(w), NEW s \in Slot, InUse(w.tbl.entry[s])
  PROVE  /\ TableInv(QuarantineBundle(w, s)) /\ TableInv(Fail(QuarantineBundle(w, s)))
         /\ QuarantineBundle(w, s).tbl.entry[s] = QuarantinedEntry(w.tbl.entry[s])
         /\ HasConnection(QuarantineBundle(w, s).tbl.entry[s]) <=> HasConnection(w.tbl.entry[s])
<1>1. Editable(w, s) /\ EntryOK(w.tbl.entry[s])
  BY TableEditable
<1>2. Edit(w, QuarantineBundle(w, s), s, QuarantinedEntry(w.tbl.entry[s]))
  BY <1>1, QuarantineEdits
<1>3. Evolves(w.tbl.entry[s], QuarantinedEntry(w.tbl.entry[s]))
  BY <1>1, QuarantineEvolves
<1>4. /\ TableInv(QuarantineBundle(w, s))
      /\ QuarantineBundle(w, s).tbl.entry[s] = QuarantinedEntry(w.tbl.entry[s])
      /\ HasConnection(QuarantineBundle(w, s).tbl.entry[s]) <=> HasConnection(w.tbl.entry[s])
  BY <1>2, <1>3, EditLeaves
<1>5. TableInv(Fail(QuarantineBundle(w, s)))
  BY <1>4, FailKeeps, Zenon
<1> QED
  BY <1>4, <1>5

\* Destruction of a QP, the end of its route and of its operations do.
LEMMA TeardownKeeps ==
  ASSUME NEW w, TableInv(w), NEW s \in Slot, HasConnection(w.tbl.entry[s]),
         NEW done \in SUBSET Ops
  PROVE  /\ TableInv(RecordQpDestroyed(w, s))
         /\ HasConnection(RecordQpDestroyed(w, s).tbl.entry[s])
         /\ TableInv(DropRoute(w, s)) /\ HasConnection(DropRoute(w, s).tbl.entry[s])
         /\ TableInv(Settled(w, s, done))
<1> DEFINE k == w.tbl.entry[s]
<1>1. InUse(k) /\ k.entry # "Setup"
  BY DEF HasConnection, InUse
<1>2. Editable(w, s) /\ EntryOK(k)
  BY <1>1, TableEditable
<1>3. Edit(w, RecordQpDestroyed(w, s), s, DestroyedEntry(k)) /\ Evolves(k, DestroyedEntry(k))
  BY <1>1, <1>2, DestroyEdits, DestroyEvolves, Zenon
<1>4. Edit(w, DropRoute(w, s), s, RoutelessEntry(k)) /\ Evolves(k, RoutelessEntry(k))
  BY <1>1, <1>2, DropRouteEdits, ZenonT(30)
<1>5. Edit(w, Settled(w, s, done), s, SettledEntry(k, done)) /\ Evolves(k, SettledEntry(k, done))
  BY <1>1, <1>2, SettledEdits, SMTT(30)
<1>6. TableInv(RecordQpDestroyed(w, s)) /\ HasConnection(RecordQpDestroyed(w, s).tbl.entry[s])
  BY <1>1, <1>3, EditLeaves, SMTT(30)
<1>7. TableInv(DropRoute(w, s)) /\ HasConnection(DropRoute(w, s).tbl.entry[s])
  BY <1>1, <1>4, EditLeaves, SMTT(30)
<1>8. TableInv(Settled(w, s, done))
  BY <1>1, <1>5, EditLeaves
<1> QED
  BY <1>6, <1>7, <1>8
-----------------------------------------------------------------------------
(***************************************************************************)
(* Steps that take a slot, free one or attach a connection.                *)
(***************************************************************************)

\* A slot's token is the only one of its generation; it is never the null token.
LEMMA Tokens ==
  ASSUME NEW w, w.reg \in Registry, NEW s \in Slot
  PROVE  TokenOf(w, s) \in Token /\ TokenOf(w, s).slot = s /\ TokenOf(w, s) # NoToken
<1>1. w.reg.slots[s].gen \in Generation
  BY DEF Registry, SlotRecord
<1>2. w.reg.slots[s].gen # 0
  BY <1>1, RegistryAssumption, SMTT(30) DEF Generation
<1> QED
  BY <1>1, <1>2 DEF TokenOf, Token, NoToken

\* The token of a slot that is not occupied is not held.
LEMMA HeldIsOccupied ==
  ASSUME NEW w, Inv(w.reg), NEW s \in Slot, w.reg.slots[s].state # "Occupied"
  PROVE  TokenOf(w, s) \notin w.reg.held
  BY DEF Inv, TokensPlaced, TokenOf

\* What a release does to the slots and the held tokens.
LEMMA ReleaseFrees ==
  ASSUME NEW w, Inv(w.reg), NEW s \in Slot, TokenOf(w, s) \in w.reg.held,
         NEW completed \in BOOLEAN,
         NEW v, v.reg = Released(w.reg, TokenOf(w, s), completed)
  PROVE  /\ Inv(v.reg)
         /\ \A u \in Slot \ {s} : /\ TokenOf(v, u) = TokenOf(w, u)
                                  /\ TokenOf(v, u) \in v.reg.held <=> TokenOf(w, u) \in w.reg.held
         /\ TokenOf(v, s) \notin v.reg.held
<1> DEFINE r == w.reg
           t == TokenOf(w, s)
<1>1. r \in Registry /\ t \in Token /\ t.slot = s /\ t.gen = r.slots[s].gen
  BY Tokens DEF Inv, TokenOf
<1>2. Inv(v.reg)
  BY <1>1, ReleasedInv
<1>3. GetMut(r, t)
  <2>1. r.slots[t.slot].gen = t.gen /\ r.slots[t.slot].state = "Occupied" /\ t.slot < r.nextUnused
    BY DEF Inv, TokensPlaced
  <2>2. Exists(r, t.slot)
    BY <1>1, <2>1, ZenonT(30) DEF Inv, Frontier
  <2> QED
    BY <2>1, <2>2, ZenonT(30) DEF GetMut
<1>4. /\ v.reg.held = r.held \ {t}
      /\ \A u \in Slot \ {s} : v.reg.slots[u] = r.slots[u]
      /\ v.reg.slots[s].state # "Occupied"
  <2>1. PICK n : /\ n.state # "Occupied"
                 /\ v.reg.slots = [r.slots EXCEPT ![s] = n] /\ v.reg.held = r.held \ {t}
    <3> DEFINE old == r.slots[s]
               retired == old.gen = MaxGeneration
               n == [ gen   |-> IF retired THEN old.gen ELSE old.gen + 1,
                      state |-> IF retired THEN "Retired" ELSE "Vacant",
                      last  |-> IF completed THEN t.gen ELSE old.last ]
    <3>1. v.reg = [ r EXCEPT !.slots[s] = n,
                             !.recycled = IF retired THEN @ ELSE Append(@, s),
                             !.live     = @ - 1,
                             !.held     = @ \ {t},
                             !.stale    = @ \union {t} ]
      <4>1. v.reg = Released(r, t, completed)
        OBVIOUS
      <4> HIDE DEF t
      <4> QED
        BY <1>1, <1>3, <4>1 DEF Released
    <3>2. n.state # "Occupied"
      OBVIOUS
    <3> HIDE DEF n, retired, t
    <3>3. v.reg.slots = [r.slots EXCEPT ![s] = n] /\ v.reg.held = r.held \ {t}
      BY <1>1, <3>1, ZenonT(30) DEF Registry
    <3> QED
      BY <3>2, <3>3
  <2> HIDE DEF t
  <2> QED
    BY <1>1, <2>1 DEF Registry
<1>5. \A u \in Slot \ {s} : TokenOf(v, u) = TokenOf(w, u) /\ TokenOf(w, u) # t
  BY <1>4 DEF TokenOf
<1>6. TokenOf(v, s) \notin v.reg.held
  BY <1>2, <1>4, HeldIsOccupied, Zenon
<1> HIDE DEF t
<1> QED
  BY <1>2, <1>4, <1>5, <1>6, ZenonT(30)

\* What an allocation does to them.
LEMMA AllocateTakes ==
  ASSUME NEW w, Inv(w.reg), NEW memory, CanAllocate(w.reg, memory),
         NEW v, v.reg = Allocated(w.reg)
  PROVE  /\ Inv(v.reg) /\ NextSlot(w.reg) \in Slot
         /\ TokenOf(w, NextSlot(w.reg)) \notin w.reg.held
         /\ \A u \in Slot \ {NextSlot(w.reg)} :
              /\ TokenOf(v, u) = TokenOf(w, u)
              /\ TokenOf(v, u) \in v.reg.held <=> TokenOf(w, u) \in w.reg.held
         /\ TokenOf(v, NextSlot(w.reg)) \in v.reg.held
<1> DEFINE r == w.reg
           s == NextSlot(r)
           t == NextToken(r)
<1>1. HasCapacity(r) /\ r \in Registry
  BY DEF CanAllocate, Inv
<1>2. s \in Slot /\ r.slots[s].state = "Vacant"
  BY <1>1, NextSlotVacant
<1>3. Inv(v.reg)
  BY <1>1, AllocatedInv
<1>4. TokenOf(w, s) \notin r.held
  BY <1>2, HeldIsOccupied
<1>5. /\ v.reg.held = r.held \union {t}
      /\ \A u \in Slot \ {s} : v.reg.slots[u] = r.slots[u]
      /\ v.reg.slots[s].gen = r.slots[s].gen
  <2> HIDE DEF t
  <2>1. r.slots[s] \in SlotRecord
    BY <1>1, <1>2 DEF Registry
  <2>2. v.reg.slots = [r.slots EXCEPT ![s].state = "Occupied"]
    BY <1>1 DEF Allocated, Registry
  <2>3. v.reg.held = r.held \union {t}
    BY <1>1 DEF Allocated, Registry, t
  <2> HIDE DEF s
  <2> QED
    BY <1>1, <1>2, <2>1, <2>2, <2>3, ZenonT(30) DEF Registry, SlotRecord
<1>6. TokenOf(w, s) = t
  BY DEF TokenOf, NextToken
<1>7. \A u \in Slot \ {s} : TokenOf(v, u) = TokenOf(w, u) /\ TokenOf(w, u) # t
  BY <1>5, <1>6 DEF TokenOf
<1>8. TokenOf(v, s) = t
  BY <1>5, <1>6 DEF TokenOf
<1> HIDE DEF t, s
<1> QED
  BY <1>2, <1>3, <1>4, <1>5, <1>7, <1>8, ZenonT(30) DEF s

\* A set of slots grows by one.
LEMMA OneMore ==
  ASSUME NEW A \in SUBSET Slot, NEW A2 \in SUBSET Slot, NEW s \in Slot, s \notin A, s \in A2,
         \A u \in Slot \ {s} : u \in A <=> u \in A2
  PROVE  Cardinality(A) \in Nat /\ Cardinality(A2) = Cardinality(A) + 1
<1>1. B(s \in A) = 0 /\ B(s \in A2) = 1
  BY DEF B
<1>2. /\ Cardinality(A) \in Nat
      /\ Cardinality(A2) = Cardinality(A) + B(s \in A2) - B(s \in A)
  BY CountChanges, Zenon
<1> QED
  BY <1>1, <1>2

\* Slots without a connection come and go without the index.
LEMMA IndexedAside ==
  ASSUME NEW w, NEW v, Indexed(w), v.tbl.index = w.tbl.index,
         \A u \in Slot : HasConnection(v.tbl.entry[u]) <=> HasConnection(w.tbl.entry[u]),
         \A u \in Slot : HasConnection(w.tbl.entry[u]) =>
           v.tbl.entry[u] = w.tbl.entry[u] /\ TokenOf(v, u) = TokenOf(w, u)
  PROVE  Indexed(v)
  BY ZenonT(30) DEF Indexed

\* v is w with its next slot taken by the setup k, with its permit.
Taken(w, v, k) ==
  /\ v \in Worlds /\ v.reg = Allocated(w.reg) /\ Counted(v.tbl)
  /\ v.tbl.entry = [w.tbl.entry EXCEPT ![NextSlot(w.reg)] = k]
  /\ v.tbl.index = w.tbl.index
  /\ v.tbl.permits + v.tbl.queued = w.tbl.permits + w.tbl.queued - 1

\* A taken slot keeps the invariant.
LEMMA TakeKeeps ==
  ASSUME NEW w, TableInv(w), NEW memory, CanAllocate(w.reg, memory),
         NEW k, EntryOK(k), k.entry = "Setup",
         NEW v, Taken(w, v, k)
  PROVE  TableInv(v) /\ InUse(v.tbl.entry[NextSlot(w.reg)]) /\ v.tbl.entry[NextSlot(w.reg)] = k
<1> DEFINE s == NextSlot(w.reg)
<1>0. /\ v \in Worlds /\ v.reg = Allocated(w.reg) /\ Counted(v.tbl)
      /\ v.tbl.entry = [w.tbl.entry EXCEPT ![s] = k] /\ v.tbl.index = w.tbl.index
      /\ v.tbl.permits + v.tbl.queued = w.tbl.permits + w.tbl.queued - 1
  BY Zenon DEF Taken
<1>1. w \in Worlds /\ Inv(w.reg) /\ w.tbl \in Table /\ v.tbl \in Table /\ k \in Entry
  BY <1>0, ZenonT(30) DEF TableInv, Worlds, EntryOK
<1>2. /\ Inv(v.reg) /\ s \in Slot /\ TokenOf(w, s) \notin w.reg.held
      /\ \A u \in Slot \ {s} : /\ TokenOf(v, u) = TokenOf(w, u)
                               /\ TokenOf(v, u) \in v.reg.held <=> TokenOf(w, u) \in w.reg.held
      /\ TokenOf(v, s) \in v.reg.held
  BY <1>0, <1>1, AllocateTakes, ZenonT(30)
<1> HIDE DEF s
<1>3. v.tbl.entry[s] = k /\ \A u \in Slot \ {s} : v.tbl.entry[u] = w.tbl.entry[u]
  BY <1>0, <1>1, <1>2, ZenonT(30) DEF Table
<1>4. ~ InUse(w.tbl.entry[s]) /\ InUse(k)
  BY <1>1, <1>2 DEF TableInv, EntriesHeld, InUse, Entry
<1>5. ~ HasConnection(w.tbl.entry[s]) /\ ~ HasConnection(k)
  BY <1>4, ZenonT(30) DEF InUse, HasConnection
<1>6. EntriesHeld(v)
  BY <1>2, <1>3, <1>4 DEF TableInv, EntriesHeld
<1>7. Indexed(v)
  <2>1. \A u \in Slot : HasConnection(v.tbl.entry[u]) <=> HasConnection(w.tbl.entry[u])
    BY <1>3, <1>5, Zenon
  <2>2. \A u \in Slot : HasConnection(w.tbl.entry[u]) =>
          v.tbl.entry[u] = w.tbl.entry[u] /\ TokenOf(v, u) = TokenOf(w, u)
    BY <1>2, <1>3, <1>5, ZenonT(30)
  <2>3. Indexed(w) /\ v.tbl.index = w.tbl.index
    BY <1>0 DEF TableInv
  <2> QED
    BY <2>1, <2>2, <2>3, IndexedAside
<1>8. PermitsOut(v.tbl)
  <2>1. Used(w.tbl.entry) \in SUBSET Slot /\ Used(v.tbl.entry) \in SUBSET Slot
        /\ s \notin Used(w.tbl.entry) /\ s \in Used(v.tbl.entry)
        /\ \A u \in Slot \ {s} : u \in Used(w.tbl.entry) <=> u \in Used(v.tbl.entry)
    BY <1>2, <1>3, <1>4, Zenon DEF Used
  <2>2. Cardinality(Used(v.tbl.entry)) = Cardinality(Used(w.tbl.entry)) + 1
        /\ Cardinality(Used(w.tbl.entry)) \in Nat
    BY <1>2, <2>1, OneMore, Zenon
  <2>3. w.tbl.permits \in Int /\ w.tbl.queued \in Int /\ v.tbl.permits \in Int
        /\ v.tbl.queued \in Int /\ Capacity \in Int
    BY <1>1, RegistryAssumption, SMTT(30) DEF Table
  <2>4. Capacity - w.tbl.permits = w.tbl.queued + Cardinality(Used(w.tbl.entry))
    BY DEF TableInv, PermitsOut
  <2>5. v.tbl.permits + v.tbl.queued = w.tbl.permits + w.tbl.queued - 1
    BY <1>0
  <2>6. Capacity - v.tbl.permits = v.tbl.queued + Cardinality(Used(v.tbl.entry))
    BY <2>2, <2>3, <2>4, <2>5, SMTT(30)
  <2> QED
    BY <2>6, Zenon DEF PermitsOut
<1>9. \A u \in Slot : InUse(v.tbl.entry[u]) => EntryOK(v.tbl.entry[u])
  BY <1>3, Zenon DEF TableInv
<1> QED
  BY <1>0, <1>2, <1>3, <1>4, <1>6, <1>7, <1>8, <1>9, Zenon DEF TableInv, s

\* v is w with slot s freed, with its permit; the index forgets its QP.
Freed(w, v, s, completed) ==
  /\ v \in Worlds /\ v.reg = Released(w.reg, TokenOf(w, s), completed) /\ Counted(v.tbl)
  /\ v.tbl.entry = [w.tbl.entry EXCEPT ![s] = FreeEntry]
  /\ IF HasConnection(w.tbl.entry[s])
     THEN v.tbl.index = [w.tbl.index EXCEPT ![w.tbl.entry[s].qp] = NoToken]
     ELSE v.tbl.index = w.tbl.index
  /\ v.tbl.queued = w.tbl.queued /\ v.tbl.permits = w.tbl.permits + 1

\* A freed slot keeps the invariant.
LEMMA FreeKeeps ==
  ASSUME NEW w, TableInv(w), NEW s \in Slot, InUse(w.tbl.entry[s]), NEW completed \in BOOLEAN,
         NEW v, Freed(w, v, s, completed)
  PROVE  TableInv(v)
<1> DEFINE k == w.tbl.entry[s]
<1>0. /\ v \in Worlds /\ v.reg = Released(w.reg, TokenOf(w, s), completed) /\ Counted(v.tbl)
      /\ v.tbl.entry = [w.tbl.entry EXCEPT ![s] = FreeEntry]
      /\ HasConnection(k) => v.tbl.index = [w.tbl.index EXCEPT ![k.qp] = NoToken]
      /\ ~ HasConnection(k) => v.tbl.index = w.tbl.index
      /\ v.tbl.queued = w.tbl.queued /\ v.tbl.permits = w.tbl.permits + 1
  BY Zenon DEF Freed
<1>1. w \in Worlds /\ Inv(w.reg) /\ w.tbl \in Table /\ v.tbl \in Table /\ EntryOK(k)
      /\ TokenOf(w, s) \in w.reg.held /\ w.reg \in Registry
  BY <1>0, ZenonT(30) DEF TableInv, Worlds, EntriesHeld, Inv
<1>2. /\ Inv(v.reg)
      /\ \A u \in Slot \ {s} : /\ TokenOf(v, u) = TokenOf(w, u)
                               /\ TokenOf(v, u) \in v.reg.held <=> TokenOf(w, u) \in w.reg.held
      /\ TokenOf(v, s) \notin v.reg.held
  BY <1>0, <1>1, ReleaseFrees, SMTT(30)
<1>3. v.tbl.entry[s] = FreeEntry /\ \A u \in Slot \ {s} : v.tbl.entry[u] = w.tbl.entry[u]
  BY <1>0, <1>1 DEF Table
<1>4. ~ InUse(FreeEntry) /\ ~ HasConnection(FreeEntry)
  BY DEF InUse, HasConnection, FreeEntry
<1>5. EntriesHeld(v)
  BY <1>2, <1>3, <1>4, Zenon DEF TableInv, EntriesHeld
<1>6. Indexed(v)
  <2>1. \A u \in Slot : HasConnection(v.tbl.entry[u]) => u # s
    BY <1>3, <1>4, Zenon
  <2>2. CASE ~ HasConnection(k)
    <3>1. v.tbl.index = w.tbl.index
      BY <1>0, <2>2
    <3>2. \A u \in Slot : HasConnection(v.tbl.entry[u]) <=> HasConnection(w.tbl.entry[u])
      BY <1>3, <1>4, <2>2, ZenonT(30)
    <3>3. \A u \in Slot : HasConnection(w.tbl.entry[u]) =>
            v.tbl.entry[u] = w.tbl.entry[u] /\ TokenOf(v, u) = TokenOf(w, u)
      BY <1>2, <1>3, <2>2
    <3>4. Indexed(w)
      BY Zenon DEF TableInv
    <3> QED
      BY <3>1, <3>2, <3>3, <3>4, IndexedAside, ZenonT(30)
  <2>3. CASE HasConnection(k)
    <3>1. k.qp \in QpNum /\ w.tbl.index[k.qp] = TokenOf(w, s)
      BY <1>1, <2>3, ZenonT(30) DEF TableInv, Indexed, EntryOK, HasConnection
    <3>2. v.tbl.index[k.qp] = NoToken /\ \A q \in QpNum \ {k.qp} : v.tbl.index[q] = w.tbl.index[q]
      BY <1>0, <1>1, <2>3, <3>1, ZenonT(30) DEF Table
    <3>3. ASSUME NEW u \in Slot, HasConnection(v.tbl.entry[u])
          PROVE  v.tbl.index[v.tbl.entry[u].qp] = TokenOf(v, u)
      <4>1. u # s /\ v.tbl.entry[u] = w.tbl.entry[u] /\ TokenOf(v, u) = TokenOf(w, u)
        BY <1>2, <1>3, <2>1, <3>3, ZenonT(30)
      <4>2. w.tbl.index[w.tbl.entry[u].qp] = TokenOf(w, u) /\ w.tbl.entry[u].qp \in QpNum
        <5>1. Indexed(w) /\ HasConnection(w.tbl.entry[u])
          BY <3>3, <4>1 DEF TableInv
        <5>2. InUse(w.tbl.entry[u]) /\ w.tbl.entry[u].entry # "Setup"
          BY <5>1 DEF HasConnection, InUse
        <5>3. EntryOK(w.tbl.entry[u])
          BY <5>2, Zenon DEF TableInv
        <5>4. w.tbl.entry[u].qp \in QpNum
          BY <5>2, <5>3, Zenon DEF EntryOK
        <5> QED
          BY <5>1, <5>4 DEF Indexed
      <4>3. TokenOf(w, u) # TokenOf(w, s)
        BY <4>1, Zenon DEF TokenOf
      <4> QED
        BY <3>1, <3>2, <4>1, <4>2, <4>3, ZenonT(30)
    <3>4. ASSUME NEW q \in QpNum, v.tbl.index[q] # NoToken
          PROVE  /\ v.tbl.index[q].slot \in Slot
                 /\ HasConnection(v.tbl.entry[v.tbl.index[q].slot])
                 /\ v.tbl.entry[v.tbl.index[q].slot].qp = q
      <4>1. q # k.qp /\ v.tbl.index[q] = w.tbl.index[q]
        BY <3>2, <3>4, Zenon
      <4>2. w.tbl.index[q].slot \in Slot /\ HasConnection(w.tbl.entry[w.tbl.index[q].slot])
            /\ w.tbl.entry[w.tbl.index[q].slot].qp = q
        BY <3>4, <4>1, ZenonT(30) DEF TableInv, Indexed
      <4>3. w.tbl.index[q].slot # s
        BY <4>1, <4>2, Zenon
      <4> QED
        BY <1>3, <4>1, <4>2, <4>3, ZenonT(30)
    <3> QED
      BY <3>3, <3>4, Zenon DEF Indexed
  <2> QED
    BY <2>2, <2>3, Zenon
<1>7. PermitsOut(v.tbl)
  <2>1. Used(w.tbl.entry) \in SUBSET Slot /\ Used(v.tbl.entry) \in SUBSET Slot
        /\ s \in Used(w.tbl.entry) /\ s \notin Used(v.tbl.entry)
        /\ \A u \in Slot \ {s} : u \in Used(w.tbl.entry) <=> u \in Used(v.tbl.entry)
    BY <1>3, <1>4 DEF Used
  <2>2. /\ Cardinality(Used(w.tbl.entry)) = Cardinality(Used(v.tbl.entry)) + 1
        /\ Cardinality(Used(v.tbl.entry)) \in Nat
    BY <2>1, OneMore, SMTT(30)
  <2>3. w.tbl.permits \in Int /\ w.tbl.queued \in Int /\ Capacity \in Int
    BY <1>1, RegistryAssumption DEF Table
  <2>4. Capacity - w.tbl.permits = w.tbl.queued + Cardinality(Used(w.tbl.entry))
    BY DEF TableInv, PermitsOut
  <2> QED
    BY <1>0, <2>2, <2>3, <2>4, SMTT(30) DEF PermitsOut
<1>8. \A u \in Slot : InUse(v.tbl.entry[u]) => EntryOK(v.tbl.entry[u])
  BY <1>3, <1>4, Zenon DEF TableInv
<1> QED
  BY <1>0, <1>2, <1>5, <1>6, <1>7, <1>8, ZenonT(30) DEF TableInv

\* Drop for ConnectionReservation takes the entry's shares off the gauge and
\* returns its permit.
LEMMA DropTakesShare ==
  ASSUME NEW w, NEW s, Editable(w, s)
  PROVE  LET b == DropReservation(w.tbl, w.tbl.entry[s].res)
         IN  /\ b.gauge \in Gauge
             /\ \A f \in Counts : b.gauge[f] = w.tbl.gauge[f] - Share(w.tbl.entry[s])[f]
             /\ b = [w.tbl EXCEPT !.permits = b.permits, !.gauge = b.gauge]
             /\ b.permits = w.tbl.permits + 1
<1> DEFINE k == w.tbl.entry[s]
           b == DropReservation(w.tbl, k.res)
           g == IF k.res.indexed THEN SubSnapshot(w.tbl.gauge, Contribution(k.res)) ELSE w.tbl.gauge
           g2 == IF k.res.diag THEN [g EXCEPT !.live = IF @ = 0 THEN 0 ELSE @ - 1] ELSE g
<1>1. w.tbl \in Table /\ w.tbl.gauge \in Gauge /\ InUse(k) /\ Counted(w.tbl) /\ s \in Slot
      /\ (k.res.indexed => k.res.diag) /\ w.tbl.permits \in Int
  BY EditableTyped DEF Editable, Table
<1>2. b.gauge = g2 /\ b.permits = w.tbl.permits + 1
      /\ b = [w.tbl EXCEPT !.permits = b.permits, !.gauge = b.gauge]
  BY <1>1, ZenonT(30) DEF DropReservation, Table
<1>3. \A f \in Counts : /\ w.tbl.gauge[f] \in Nat /\ w.tbl.gauge[f] >= Share(k)[f]
                        /\ Share(k)[f] \in {0, 1}
  <2> HIDE DEF k
  <2> QED
    BY <1>1, NoUnderflow, ShareOf DEF k
<1>4. /\ Share(k).live = B(k.res.diag)
      /\ \A f \in Counts \ {"live"} :
           Share(k)[f] = IF k.res.indexed THEN Contribution(k.res)[f] ELSE 0
  <2> HIDE DEF k
  <2> QED
    BY <1>1, ShareOf, Zenon
<1>5. DOMAIN w.tbl.gauge = Counts /\ "live" \in Counts /\ Contribution(k.res).live = 0
  BY <1>1, Zenon DEF Gauge, Counts, NoGauge, Contribution
<1> HIDE DEF k
<1>6. DOMAIN g = Counts /\ g.live = w.tbl.gauge.live
  BY <1>3, <1>5, SMTT(30) DEF SubSnapshot
<1>7. \A f \in Counts \ {"live"} : g[f] = w.tbl.gauge[f] - Share(k)[f]
  BY <1>3, <1>4, <1>5 DEF SubSnapshot
<1> HIDE DEF g
<1>8. DOMAIN g2 = Counts /\ g2.live = w.tbl.gauge.live - Share(k).live
  BY <1>3, <1>4, <1>5, <1>6 DEF B
<1>9. \A f \in Counts \ {"live"} : g2[f] = w.tbl.gauge[f] - Share(k)[f]
  BY <1>6, <1>7
<1>10. \A f \in Counts : g2[f] = w.tbl.gauge[f] - Share(k)[f]
  BY <1>8, <1>9
<1>11. g2 \in Gauge
  <2>1. \A f \in Counts : g2[f] \in Nat
    BY <1>3, <1>10
  <2>2. g2 = [f \in Counts |-> g2[f]]
    <3>1. g = [f \in Counts |-> g[f]]
      BY <1>1, <1>5 DEF g, SubSnapshot, Gauge, Counts, NoGauge
    <3> QED
      BY <3>1, <1>8, ZenonT(30)
  <2> HIDE DEF g2
  <2> QED
    BY <2>1, <2>2 DEF Gauge, Counts, NoGauge
<1> QED
  BY <1>2, <1>10, <1>11, ZenonT(30) DEF k

\* The setup in a slot is over.
LEMMA AbandonKeeps ==
  ASSUME NEW w, TableInv(w), NEW s \in Slot, w.tbl.entry[s].entry = "Setup",
         NEW completed \in BOOLEAN
  PROVE  TableInv(AbandonSetup(w, s, completed))
<1> DEFINE k == w.tbl.entry[s]
           b == DropReservation(w.tbl, k.res)
           n2 == IF w.tbl.routes = 0 THEN 0 ELSE w.tbl.routes - 1
           e2 == [w.tbl.entry EXCEPT ![s] = FreeEntry]
           t2 == [b EXCEPT !.entry = e2, !.routes = n2]
           v == AbandonSetup(w, s, completed)
<1>1. w \in Worlds /\ w.reg \in Registry /\ w.tbl \in Table /\ InUse(k) /\ Inv(w.reg) /\ Counted(w.tbl)
      /\ ~ HasConnection(k)
  BY DEF TableInv, Worlds, InUse, HasConnection
<1>2. Editable(w, s) /\ EntryOK(k)
  BY <1>1, TableEditable, Zenon
<1>3. /\ b.gauge \in Gauge
      /\ \A f \in Counts : b.gauge[f] = w.tbl.gauge[f] - Share(w.tbl.entry[s])[f]
      /\ b = [w.tbl EXCEPT !.permits = b.permits, !.gauge = b.gauge]
      /\ b.permits = w.tbl.permits + 1
  BY <1>2, DropTakesShare, Zenon
<1> HIDE DEF b
<1>4. b \in Table /\ b.entry = w.tbl.entry /\ b.index = w.tbl.index /\ b.queued = w.tbl.queued
      /\ b.routes = w.tbl.routes
  <2>1. b.permits \in Int
    BY <1>1, <1>3 DEF Table
  <2> QED
    BY <1>1, <1>3, <2>1, Zenon DEF Table
<1>5. v = [reg |-> Released(w.reg, TokenOf(w, s), completed), tbl |-> t2]
  <2> DEFINE x == [w EXCEPT !.tbl = b]
  <2>1. v = ReleaseSetup(x, s, completed)
    BY DEF AbandonSetup, b
  <2>2. x.reg = w.reg /\ x.tbl = b /\ TokenOf(x, s) = TokenOf(w, s)
    BY <1>1 DEF Worlds, TokenOf
  <2> HIDE DEF x
  <2> QED
    BY <1>4, <2>1, <2>2, ZenonT(30) DEF ReleaseSetup
<1>6. k.route /\ w.tbl.routes \in Nat /\ w.tbl.routes >= 1 /\ n2 = w.tbl.routes - 1 /\ n2 \in Nat
  <2>1. k.route
    BY <1>2, Zenon DEF EntryOK
  <2>2. w.tbl.routes \in Nat /\ w.tbl.routes >= 1
    BY <1>1, <2>1, NoUnderflow, ZenonT(30)
  <2> QED
    BY <2>1, <2>2, SMTT(30)
<1>7. e2 \in [Slot -> Entry \union {FreeEntry}] /\ e2[s] = FreeEntry
      /\ \A u \in Slot \ {s} : e2[u] = w.tbl.entry[u]
  BY <1>1 DEF Table
<1> HIDE DEF e2, n2, v
<1>8. t2 \in Table /\ t2.entry = e2 /\ t2.routes = n2 /\ t2.gauge = b.gauge
      /\ t2.index = w.tbl.index /\ t2.permits = b.permits /\ t2.queued = w.tbl.queued
  BY <1>4, <1>6, <1>7, ZenonT(30) DEF Table
<1> HIDE DEF t2
<1>9. Counted(t2)
  <2>1. ~ InUse(FreeEntry)
    BY Zenon DEF InUse, FreeEntry
  <2>2. \A f \in Counts : /\ w.tbl.gauge[f] \in Nat /\ Share(w.tbl.entry[s])[f] \in {0, 1}
                          /\ Share(FreeEntry)[f] = 0
    BY <1>1, <2>1, NoUnderflow, ShareOf, ZenonT(30)
  <2>3. t2.routes = w.tbl.routes + B(InUse(t2.entry[s]) /\ t2.entry[s].route)
                                 - B(InUse(w.tbl.entry[s]) /\ w.tbl.entry[s].route)
    BY <1>1, <1>6, <1>7, <1>8, <2>1, SMTT(30) DEF B
  <2>4. \A f \in Counts :
          t2.gauge[f] = w.tbl.gauge[f] + Share(t2.entry[s])[f] - Share(w.tbl.entry[s])[f]
    BY <1>3, <1>7, <1>8, <2>2, SMTT(30)
  <2>5. \A u \in Slot \ {s} : t2.entry[u] = w.tbl.entry[u]
    BY <1>7, <1>8, Zenon
  <2> QED
    BY <1>1, <1>8, <2>3, <2>4, <2>5, Recount, Zenon
<1>10. v \in Worlds /\ v.reg = Released(w.reg, TokenOf(w, s), completed) /\ v.tbl = t2
  <2>1. TokenOf(w, s) \in Token
    BY <1>1, Tokens, Zenon
  <2>2. Released(w.reg, TokenOf(w, s), completed) \in Registry
    BY <1>1, <2>1, ReleasedInv, Zenon DEF Inv
  <2> QED
    BY <1>5, <1>8, <2>2, Zenon DEF Worlds
<1>11. TableInv(v)
  <2>1. v.tbl.entry = [w.tbl.entry EXCEPT ![s] = FreeEntry]
    BY <1>8, <1>10 DEF e2
  <2>2. Freed(w, v, s, completed)
    BY <1>1, <1>3, <1>8, <1>9, <1>10, <2>1, ZenonT(30) DEF Freed
  <2> QED
    BY <1>1, <2>2, FreeKeeps, ZenonT(30)
<1> QED
  BY <1>11, ZenonT(30) DEF v

\* release of a retired connection.
LEMMA ReleaseKeeps ==
  ASSUME NEW w, TableInv(w), NEW s \in Slot, HasConnection(w.tbl.entry[s])
  PROVE  TableInv(ReleaseConnection(w, s))
<1> DEFINE k == w.tbl.entry[s]
           b == DropReservation(w.tbl, k.res)
           n2 == IF k.route THEN w.tbl.routes - 1 ELSE w.tbl.routes
           e2 == [w.tbl.entry EXCEPT ![s] = FreeEntry]
           i2 == [w.tbl.index EXCEPT ![k.qp] = NoToken]
           t2 == [b EXCEPT !.entry = e2, !.index = i2, !.routes = n2]
           v == ReleaseConnection(w, s)
<1>1. w \in Worlds /\ w.reg \in Registry /\ w.tbl \in Table /\ InUse(k) /\ Inv(w.reg) /\ Counted(w.tbl)
  BY DEF TableInv, Worlds, InUse, HasConnection
<1>2. Editable(w, s) /\ EntryOK(k)
  BY <1>1, TableEditable, Zenon
<1>3. /\ b.gauge \in Gauge
      /\ \A f \in Counts : b.gauge[f] = w.tbl.gauge[f] - Share(w.tbl.entry[s])[f]
      /\ b = [w.tbl EXCEPT !.permits = b.permits, !.gauge = b.gauge]
      /\ b.permits = w.tbl.permits + 1
  BY <1>2, DropTakesShare, Zenon
<1>4. v = [ reg |-> Released(w.reg, TokenOf(w, s), TRUE),
            tbl |-> [b EXCEPT !.entry[s] = FreeEntry, !.index[k.qp] = NoToken,
                              !.routes   = IF k.route THEN @ - 1 ELSE @] ]
  BY DEF ReleaseConnection
<1> HIDE DEF b, v
<1>5. b \in Table /\ b.entry = w.tbl.entry /\ b.index = w.tbl.index /\ b.queued = w.tbl.queued
      /\ b.routes = w.tbl.routes
  <2>1. b.permits \in Int
    BY <1>1, <1>3 DEF Table
  <2> QED
    BY <1>1, <1>3, <2>1, Zenon DEF Table
<1>6. v = [reg |-> Released(w.reg, TokenOf(w, s), TRUE), tbl |-> t2]
  BY <1>4, <1>5, ZenonT(30)
<1>7. w.tbl.routes \in Nat /\ n2 \in Nat /\ k \in Entry
      /\ n2 = w.tbl.routes - B(InUse(k) /\ k.route)
  <2>1. w.tbl.routes \in Nat /\ (k.route => w.tbl.routes >= 1)
    BY <1>1, NoUnderflow, Zenon
  <2>2. k \in Entry
    BY <1>2, ZenonT(30) DEF EntryOK
  <2> QED
    BY <1>1, <2>1, <2>2, SMTT(30) DEF B
<1>8. e2 \in [Slot -> Entry \union {FreeEntry}] /\ e2[s] = FreeEntry
      /\ i2 \in [QpNum -> Token \union {NoToken}]
      /\ \A u \in Slot \ {s} : e2[u] = w.tbl.entry[u]
  BY <1>1, Zenon DEF Table
<1> HIDE DEF e2, n2, i2
<1>9. t2 \in Table /\ t2.entry = e2 /\ t2.routes = n2 /\ t2.gauge = b.gauge
      /\ t2.index = i2 /\ t2.permits = b.permits /\ t2.queued = w.tbl.queued
  BY <1>5, <1>7, <1>8, Zenon DEF Table
<1> HIDE DEF t2
<1>10. Counted(t2)
  <2>1. ~ InUse(FreeEntry)
    BY Zenon DEF InUse, FreeEntry
  <2>2. \A f \in Counts : /\ w.tbl.gauge[f] \in Nat /\ Share(w.tbl.entry[s])[f] \in {0, 1}
                          /\ Share(FreeEntry)[f] = 0
    BY <1>1, <2>1, NoUnderflow, ShareOf, ZenonT(30)
  <2>3. t2.routes = w.tbl.routes + B(InUse(t2.entry[s]) /\ t2.entry[s].route)
                                 - B(InUse(w.tbl.entry[s]) /\ w.tbl.entry[s].route)
    <3>1. B(InUse(t2.entry[s]) /\ t2.entry[s].route) = 0
      BY <1>8, <1>9, <2>1, Zenon DEF B
    <3> QED
      BY <1>7, <1>9, <3>1, SMTT(30) DEF B
  <2>4. \A f \in Counts :
          t2.gauge[f] = w.tbl.gauge[f] + Share(t2.entry[s])[f] - Share(w.tbl.entry[s])[f]
    BY <1>3, <1>8, <1>9, <2>2, SMTT(30)
  <2>5. \A u \in Slot \ {s} : t2.entry[u] = w.tbl.entry[u]
    BY <1>8, <1>9, Zenon
  <2> QED
    BY <1>1, <1>9, <2>3, <2>4, <2>5, Recount, ZenonT(30)
<1>11. v \in Worlds /\ v.reg = Released(w.reg, TokenOf(w, s), TRUE) /\ v.tbl = t2
  <2>1. TokenOf(w, s) \in Token
    BY <1>1, Tokens
  <2>2. Released(w.reg, TokenOf(w, s), TRUE) \in Registry
    BY <1>1, <2>1, ReleasedInv, Zenon DEF Inv
  <2> QED
    BY <1>6, <1>9, <2>2, ZenonT(30) DEF Worlds
<1>12. TableInv(v)
  <2>1. v.tbl.entry = [w.tbl.entry EXCEPT ![s] = FreeEntry]
        /\ v.tbl.index = [w.tbl.index EXCEPT ![w.tbl.entry[s].qp] = NoToken]
    BY <1>9, <1>11 DEF e2, i2
  <2>2. Freed(w, v, s, TRUE)
    BY <1>3, <1>9, <1>10, <1>11, <2>1 DEF Freed
  <2> QED
    BY <1>1, <2>2, FreeKeeps, ZenonT(30)
<1> QED
  BY <1>12, ZenonT(30) DEF v
=============================================================================
