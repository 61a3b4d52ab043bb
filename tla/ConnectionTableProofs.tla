------------------------ MODULE ConnectionTableProofs ------------------------
(***************************************************************************)
(* Every operation of the v2 connection registry keeps the invariant of    *)
(* ConnectionTableInvariant, so its tokens, its QP index and its counts    *)
(* stay exact, for every capacity, page size, number of generations, set   *)
(* of QP numbers and set of work requests.                                 *)
(***************************************************************************)
EXTENDS ConnectionTableInvariant

\* The facts about a connected entry that every step below starts from.
LEMMA ConnectedEntry ==
  ASSUME TableInv(World), NEW s \in Slot, Connected(s)
  PROVE  /\ Editable(World, s) /\ EntryOK(tbl.entry[s]) /\ tbl.entry[s].entry # "Setup"
         /\ InUse(tbl.entry[s]) /\ HasConnection(tbl.entry[s]) /\ tbl.entry[s] \in Entry
         /\ tbl \in Table /\ (tbl.entry[s].bundle => tbl.entry[s].quar)
         /\ World.tbl.entry[s] = tbl.entry[s]
<1>1. InUse(World.tbl.entry[s]) /\ tbl.entry[s].entry # "Setup" /\ HasConnection(tbl.entry[s])
  BY WorldFields DEF Connected, HasConnection, InUse
<1>2. Editable(World, s) /\ EntryOK(tbl.entry[s])
  BY <1>1, TableEditable, WorldFields
<1> QED
  BY <1>1, <1>2, WorldFields DEF EntryOK, Editable, Worlds

\* mark_active
LEMMA MarkActiveStep ==
  ASSUME TableInv(World), NEW s \in Slot, MarkActive(s)
  PROVE  TableInv(World')
<1> DEFINE k == tbl.entry[s]
           k2 == [k EXCEPT !.entry = "Active"]
<1>1. Connected(s) /\ k.entry = "Registered"
      /\ Become([World EXCEPT !.tbl.entry[s].entry = "Active"])
  BY DEF MarkActive
<1>2. k \in Entry /\ tbl \in Table /\ HasConnection(k) /\ (k.bundle => k.quar) /\ World.tbl = tbl
  BY <1>1, ConnectedEntry, WorldFields
<1>3. k2 \in Entry /\ k2.entry = "Active" /\ k2.route = k.route /\ k2.res = k.res /\ k2.qp = k.qp
      /\ k2.destroyed = k.destroyed /\ k2.bundle = k.bundle /\ k2.errStarted = k.errStarted
      /\ k2.errDone = k.errDone /\ k2.quar = k.quar
  BY <1>2 DEF Entry
<1>4. [World EXCEPT !.tbl.entry[s].entry = "Active"] = SetEntry(World, s, k2)
  BY <1>2 DEF SetEntry, World, Table
<1> HIDE DEF k2
<1>5. TableInv(SetEntry(World, s, k2))
  BY <1>1, <1>2, <1>3, AsideKeeps
<1> QED
  BY <1>1, <1>4, <1>5, BecomeInv

\* An accepted work request.
LEMMA AcceptOpStep ==
  ASSUME TableInv(World), NEW s \in Slot, NEW o \in Ops, AcceptOp(s, o)
  PROVE  TableInv(World')
<1> DEFINE k == tbl.entry[s]
           k2 == [k EXCEPT !.accepted = @ \union {o}]
<1>1. Connected(s) /\ Become([World EXCEPT !.tbl.entry[s].accepted = @ \union {o}])
  BY DEF AcceptOp
<1>2. k \in Entry /\ tbl \in Table /\ HasConnection(k) /\ (k.bundle => k.quar) /\ World.tbl = tbl
      /\ k.entry # "Setup"
  BY <1>1, ConnectedEntry, WorldFields
<1>3. k2 \in Entry /\ k2.entry = k.entry /\ k2.route = k.route /\ k2.res = k.res /\ k2.qp = k.qp
      /\ k2.destroyed = k.destroyed /\ k2.bundle = k.bundle /\ k2.errStarted = k.errStarted
      /\ k2.errDone = k.errDone /\ k2.quar = k.quar
  BY <1>2 DEF Entry
<1>4. [World EXCEPT !.tbl.entry[s].accepted = @ \union {o}] = SetEntry(World, s, k2)
  BY <1>2 DEF SetEntry, World, Table
<1> HIDE DEF k2
<1>5. TableInv(SetEntry(World, s, k2))
  BY <1>2, <1>3, AsideKeeps
<1> QED
  BY <1>1, <1>4, <1>5, BecomeInv, Zenon

\* An operation enters quarantine.
LEMMA QuarantineOpStep ==
  ASSUME TableInv(World), NEW s \in Slot, NEW o \in Ops, QuarantineOp(s, o)
  PROVE  TableInv(World')
<1> DEFINE k == tbl.entry[s]
           d == [k EXCEPT !.quar = TRUE, !.qops = @ \union {o}]
           k2 == TrackOperationQuarantine(k, o)
<1>1. Connected(s) /\ Become(SetEntry(World, s, k2))
  BY DEF QuarantineOp
<1>2. k \in Entry /\ tbl \in Table /\ HasConnection(k) /\ (k.bundle => k.quar) /\ World.tbl = tbl
      /\ k.entry # "Setup"
  BY <1>1, ConnectedEntry, WorldFields
<1>3. d \in Entry
  <2>1. k.qops \union {o} \in SUBSET Ops
    BY <1>2 DEF Entry
  <2> QED
    BY <1>2, <2>1, ZenonT(30) DEF Entry
<1>4. k2 \in Entry /\ k2.entry = k.entry /\ k2.route = k.route /\ k2.res = k.res /\ k2.qp = k.qp
      /\ k2.destroyed = k.destroyed /\ k2.bundle = k.bundle /\ k2.errStarted = k.errStarted
      /\ k2.errDone = k.errDone /\ k2.quar = TRUE
  BY <1>2, <1>3 DEF Entry, TrackOperationQuarantine, IsOccupied
<1> HIDE DEF k2
<1>5. TableInv(SetEntry(World, s, k2))
  BY <1>2, <1>4, AsideKeeps
<1> QED
  BY <1>1, <1>5, BecomeInv

\* A completion.
LEMMA CompleteOpStep ==
  ASSUME TableInv(World), NEW s \in Slot, NEW o \in Ops, CompleteOp(s, o)
  PROVE  TableInv(World')
<1>1. Connected(s) /\ Become(Settled(World, s, {o}))
  BY DEF CompleteOp
<1>2. HasConnection(World.tbl.entry[s]) /\ {o} \in SUBSET Ops
  BY <1>1, ConnectedEntry
<1>3. TableInv(Settled(World, s, {o}))
  BY <1>2, TeardownKeeps
<1> QED
  BY <1>1, <1>3, BecomeInv

\* A selected child that could not be rejected, and work kept after a failure.
LEMMA RetainStep ==
  ASSUME TableInv(World), NEW s \in Slot, RejectSelected(s) \/ RetainForFailure(s)
  PROVE  TableInv(World')
<1>1. Connected(s) /\ (Become(Fail(QuarantineBundle(World, s))) \/ Become(QuarantineBundle(World, s)))
  BY DEF RejectSelected, RetainForFailure
<1>2. InUse(World.tbl.entry[s])
  BY <1>1, ConnectedEntry
<1>3. TableInv(QuarantineBundle(World, s)) /\ TableInv(Fail(QuarantineBundle(World, s)))
  BY <1>2, QuarantineKeeps
<1> QED
  BY <1>1, <1>3, BecomeInv

\* The drain deadline: destroyed and reclaimed, or quarantined whole.
LEMMA DrainDeadlineStep ==
  ASSUME TableInv(World), NEW s \in Slot, NEW ok \in BOOLEAN, DrainDeadline(s, ok)
  PROVE  TableInv(World')
<1> DEFINE k == tbl.entry[s]
           q == QuarantineBundle(World, s)
           d == RecordQpDestroyed(World, s)
           e == q.tbl.entry[s]
           k2 == [e EXCEPT !.qops = k.accepted]
           x == [q EXCEPT !.tbl.entry[s].qops = k.accepted]
<1>1. Connected(s) /\ (Become(Settled(d, s, k.accepted)) \/ Become(x))
  BY DEF DrainDeadline
<1>2. HasConnection(World.tbl.entry[s]) /\ InUse(World.tbl.entry[s]) /\ k.accepted \in SUBSET Ops
      /\ {} \in SUBSET Ops
  BY <1>1, ConnectedEntry DEF Entry
<1>3. TableInv(d) /\ HasConnection(d.tbl.entry[s])
  BY <1>2, TeardownKeeps
<1>4. TableInv(q) /\ HasConnection(e)
  BY <1>2, QuarantineKeeps
<1> HIDE DEF q, d
<1>5. TableInv(Settled(d, s, k.accepted))
  BY <1>2, <1>3, TeardownKeeps, Zenon
<1>6. TableInv(x)
  <2>1. EntryOK(e) /\ e \in Entry /\ e.entry # "Setup" /\ q \in Worlds /\ q.tbl \in Table
    BY <1>4, TableEditable, Zenon DEF HasConnection, InUse, TableInv, EntryOK, Worlds
  <2>2. x = SetEntry(q, s, k2)
    BY <2>1 DEF SetEntry, Worlds, Table
  <2>3. k2 \in Entry /\ k2.entry = e.entry /\ k2.route = e.route /\ k2.res = e.res /\ k2.qp = e.qp
        /\ k2.destroyed = e.destroyed /\ k2.bundle = e.bundle /\ k2.errStarted = e.errStarted
        /\ k2.errDone = e.errDone /\ k2.quar = e.quar
    BY <1>2, <2>1, Zenon DEF Entry
  <2>4. e.bundle => e.quar
    BY <2>1, Zenon DEF EntryOK
  <2> HIDE DEF k2, x
  <2> QED
    BY <1>4, <2>1, <2>2, <2>3, <2>4, AsideKeeps, ZenonT(30)
<1> HIDE DEF x
<1> QED
  BY <1>1, <1>5, <1>6, BecomeInv

\* The entry, and the registry, that begin_close leaves.
ErredEntry(k, ok) == TransitionToError(BeginClose(k), ok)

ClosingEntry(k, ok) ==
  [ErredEntry(k, ok) EXCEPT !.res = MarkDraining(ErredEntry(k, ok).res)]

ClosingWorld(w, s, ok) ==
  LET c == ErredEntry(w.tbl.entry[s], ok)
  IN  [SetEntry(w, s, c) EXCEPT !.tbl = UpdateReservation(@, s, MarkDraining(c.res))]

\* k2 is entry k with its close begun.
Closing(k, k2, ok) ==
  /\ k2 \in Entry /\ k2.entry = "Draining" /\ k2.qp = k.qp /\ k2.qp \in QpNum
  /\ k2.errDone = ok /\ ~ k2.bundle /\ ~ k2.quar /\ k2.errStarted
  /\ k2.res \in Reservation /\ k2.res.state = "Draining" /\ k2.res.diag /\ k2.res.indexed
  /\ k2.res.counted <=> ~ k2.destroyed

\* The close of a connection that is not closing, and its QP's transition to the
\* error state: entry and reservation reach Draining together.
LEMMA CloseEdits ==
  ASSUME NEW w, NEW s, Editable(w, s), EntryOK(w.tbl.entry[s]), BeginsClose(w.tbl.entry[s]),
         NEW ok \in BOOLEAN
  PROVE  /\ Edit(w, ClosingWorld(w, s, ok), s, ClosingEntry(w.tbl.entry[s], ok))
         /\ Closing(w.tbl.entry[s], ClosingEntry(w.tbl.entry[s], ok), ok)
<1> DEFINE k == w.tbl.entry[s]
           b == BeginClose(k)
           c == ErredEntry(k, ok)
           k2 == ClosingEntry(k, ok)
           v == ClosingWorld(w, s, ok)
<1>1. k \in Entry /\ k.res \in Reservation /\ ~ k.quar /\ ~ k.bundle /\ ~ k.errStarted /\ ~ k.errDone
      /\ k.entry # "Setup" /\ k.qp \in QpNum /\ k.res.state = "Established"
      /\ k.res.diag /\ k.res.indexed
  BY DEF EntryOK, BeginsClose, Entry
<1>2. k.res.counted <=> ~ k.destroyed
  BY <1>1 DEF EntryOK
<1>3. b \in Entry
  BY <1>1, Zenon DEF BeginClose, Entry
<1>4. /\ b.entry = "Draining" /\ b.quar = k.quar /\ b.bundle = k.bundle /\ b.qp = k.qp
      /\ b.res = k.res /\ b.destroyed = k.destroyed /\ b.errStarted = k.errStarted
      /\ b.route = k.route
  BY <1>1, SMTT(30) DEF BeginClose, Entry
<1> HIDE DEF b
<1>5. c = [b EXCEPT !.errStarted = TRUE, !.errDone = ok]
  BY <1>1, <1>4 DEF ErredEntry, TransitionToError, b
<1>6. c \in Entry
  BY <1>3, <1>5, Zenon DEF Entry
<1>7. /\ c.entry = "Draining" /\ c.quar = k.quar /\ c.bundle = k.bundle /\ c.qp = k.qp
      /\ c.res = k.res /\ c.destroyed = k.destroyed /\ c.errStarted = TRUE /\ c.errDone = ok
      /\ c.route = k.route
  BY <1>3, <1>4, <1>5, ZenonT(30) DEF Entry
<1>8. /\ MarkDraining(k.res) \in Reservation /\ MarkDraining(k.res).diag = k.res.diag
      /\ MarkDraining(k.res).indexed = k.res.indexed
  BY <1>1, ReservationMoves, Zenon
<1>9. MarkDraining(k.res).state = "Draining" /\ MarkDraining(k.res).counted = k.res.counted
  BY <1>1 DEF MarkDraining, Reservation
<1>a. /\ k2 = [c EXCEPT !.res = MarkDraining(c.res)]
      /\ v = [SetEntry(w, s, c) EXCEPT !.tbl = UpdateReservation(@, s, MarkDraining(c.res))]
  BY DEF ClosingEntry, ClosingWorld
<1> HIDE DEF c, k2, v
<1>10. Edit(w, v, s, k2) /\ k2 \in Entry
  BY <1>6, <1>7, <1>8, <1>a, SetUpdateEdits, Zenon
<1>11. k2.res = MarkDraining(k.res) /\ k2.entry = c.entry /\ k2.quar = c.quar /\ k2.bundle = c.bundle
       /\ k2.qp = c.qp /\ k2.destroyed = c.destroyed /\ k2.errStarted = c.errStarted
       /\ k2.errDone = c.errDone
  BY <1>6, <1>7, <1>a, Zenon DEF Entry
<1>12. k2.res.diag /\ k2.res.indexed
  BY <1>1, <1>8, <1>11, Zenon
<1>13. k2.res.counted <=> ~ k2.destroyed
  BY <1>2, <1>7, <1>9, <1>11, ZenonT(30)
<1> QED
  BY <1>1, <1>7, <1>8, <1>9, <1>10, <1>11, <1>12, <1>13, ZenonT(30) DEF Closing, k2, v

\* fail_close_into_quarantine rolls the draining reservation back.
LEMMA FailedCloseEdits ==
  ASSUME NEW w, NEW s, Editable(w, s),
         NEW k, k = w.tbl.entry[s], k.entry = "Draining", k.qp \in QpNum,
         ~ k.errDone, k.res.state = "Draining", k.res.diag, k.res.indexed
  PROVE  \E k3 : /\ Edit(w, FailedClose(w, s), s, k3) /\ EntryOK(k3)
                 /\ k3.entry = "Draining" /\ k3.qp = k.qp
<1> DEFINE c == [k EXCEPT !.quar = TRUE, !.bundle = TRUE]
           r == MarkQuarantined(RollbackDraining(k.res))
           k3 == [c EXCEPT !.res = r]
<1>1. k \in Entry /\ k.res \in Reservation
  BY EditableTyped
<1>2. c \in Entry
  BY <1>1, Zenon DEF Entry
<1>3. c.res = k.res /\ c.route = k.route /\ c.entry = k.entry /\ c.qp = k.qp
      /\ c.errDone = k.errDone /\ c.quar = TRUE /\ c.bundle = TRUE
  BY <1>1 DEF Entry
<1>4. /\ RollbackDraining(k.res) \in Reservation /\ RollbackDraining(k.res).state = "Established"
      /\ RollbackDraining(k.res).diag = k.res.diag /\ RollbackDraining(k.res).indexed = k.res.indexed
  BY <1>1, ZenonT(30) DEF RollbackDraining, Reservation
<1>5. r \in Reservation /\ r.state = "QuarantinedEstablished" /\ r.counted = FALSE
      /\ r.diag = k.res.diag /\ r.indexed = k.res.indexed
  <2> DEFINE p == RollbackDraining(k.res)
  <2> HIDE DEF p
  <2>1. /\ MarkQuarantined(p) \in Reservation /\ MarkQuarantined(p).state = "QuarantinedEstablished"
        /\ MarkQuarantined(p).counted = FALSE /\ MarkQuarantined(p).diag = p.diag
        /\ MarkQuarantined(p).indexed = p.indexed
    <3>1. p \in Reservation /\ p.state = "Established"
      BY <1>4 DEF p
    <3>2. /\ MarkQuarantined(p) \in Reservation /\ MarkQuarantined(p).diag = p.diag
          /\ MarkQuarantined(p).indexed = p.indexed
      BY <3>1, ReservationMoves, ZenonT(30)
    <3> QED
      BY <3>1, <3>2, SMTT(30) DEF MarkQuarantined, Reservation
  <2> QED
    BY <1>4, <2>1 DEF p
<1> HIDE DEF c, r
<1>6. Edit(w, FailedClose(w, s), s, k3) /\ k3 \in Entry
  <2>1. FailedClose(w, s) = [SetEntry(w, s, c) EXCEPT !.tbl = UpdateReservation(@, s, r)]
    BY DEF FailedClose, c, r
  <2>2. c.res = w.tbl.entry[s].res /\ c.route = w.tbl.entry[s].route
    BY <1>3
  <2>3. r.diag = c.res.diag /\ r.indexed = c.res.indexed
    BY <1>3, <1>5, ZenonT(30)
  <2> QED
    BY <1>2, <1>5, <2>1, <2>2, <2>3, SetUpdateEdits, SMTT(30)
<1>7. k3.res = r /\ k3.entry = "Draining" /\ k3.qp = k.qp /\ k3.errDone = k.errDone
      /\ k3.quar = TRUE /\ k3.bundle = TRUE
  BY <1>2, <1>3, SMTT(30) DEF Entry
<1> HIDE DEF k3
<1>8. EntryOK(k3)
  <2>1. k3.res.diag /\ k3.res.indexed
    BY <1>5, <1>7, Zenon
  <2>2. k3.res.counted <=> ~ k3.destroyed /\ ~ k3.bundle
    BY <1>5, <1>7
  <2>3. k3.res.state = "QuarantinedEstablished" /\ ~ k3.errDone
    BY <1>5, <1>7
  <2> QED
    BY <1>6, <1>7, <2>1, <2>2, <2>3, SMTT(30) DEF EntryOK
<1> QED
  BY <1>6, <1>7, <1>8

\* begin_connection_close_into
LEMMA CloseConnectionStep ==
  ASSUME TableInv(World), NEW s \in Slot, NEW ok \in BOOLEAN, CloseConnection(s, ok)
  PROVE  TableInv(World')
<1> DEFINE k == tbl.entry[s]
           c == ErredEntry(k, ok)
           v == ClosingWorld(World, s, ok)
           k2 == ClosingEntry(k, ok)
<1>1. /\ Connected(s) /\ BeginsClose(k)
      /\ Become(IF ~ ok THEN Fail(FailedClose(v, s))
                ELSE IF c.accepted = {} THEN SetEntry(v, s, RequestRetirement(v.tbl.entry[s]))
                ELSE v)
  BY WorldFields DEF CloseConnection, ClosingWorld, ErredEntry
<1>2. /\ Editable(World, s) /\ EntryOK(k) /\ k.entry # "Setup" /\ InUse(World.tbl.entry[s])
      /\ World.tbl.entry[s] = k /\ World.tbl \in Table
  BY <1>1, ConnectedEntry, WorldFields
<1>3. /\ Edit(World, v, s, k2) /\ k2 \in Entry /\ k2.entry = "Draining" /\ k2.qp = k.qp
      /\ k2.errDone = ok /\ ~ k2.bundle /\ ~ k2.quar /\ k2.errStarted
      /\ k2.res \in Reservation /\ k2.res.state = "Draining" /\ k2.res.diag /\ k2.res.indexed
      /\ k2.res.counted <=> ~ k2.destroyed
      /\ k2.qp \in QpNum
  <2>1. Edit(World, v, s, k2) /\ Closing(k, k2, ok)
    BY <1>1, <1>2, CloseEdits
  <2> HIDE DEF k, k2, v
  <2> QED
    BY <2>1 DEF Closing
<1> HIDE DEF v, k2, c
<1>4. Editable(v, s) /\ v.tbl.entry[s] = k2
  BY <1>2, <1>3, EditEditable
<1>5. CASE ~ ok
  <2>1. ~ k2.errDone
    BY <1>3, <1>5
  <2>2. PICK k3 : /\ Edit(v, FailedClose(v, s), s, k3) /\ EntryOK(k3)
                  /\ k3.entry = "Draining" /\ k3.qp = k2.qp
    BY <1>3, <1>4, <2>1, FailedCloseEdits, SMTT(30)
  <2>3. Edit(World, FailedClose(v, s), s, k3)
    BY <1>2, <1>3, <2>2, EditThenEdit, ZenonT(30)
  <2>4. Evolves(World.tbl.entry[s], k3)
    BY <1>2, <1>3, <2>2, SMTT(30) DEF Evolves
  <2>5. TableInv(FailedClose(v, s))
    BY <1>2, <2>3, <2>4, EditKeeps
  <2>6. TableInv(Fail(FailedClose(v, s)))
    BY <2>5, FailKeeps, Zenon
  <2>7. Become(Fail(FailedClose(v, s)))
    BY <1>1, <1>5
  <2> QED
    BY <2>6, <2>7, BecomeInv
<1>6. CASE ok
  <2>1. EntryOK(k2)
    BY <1>3, <1>6 DEF EntryOK
  <2>2. Evolves(World.tbl.entry[s], k2)
    BY <1>2, <1>3, <2>1, SMTT(30) DEF Evolves
  <2>3. TableInv(v)
    BY <1>2, <1>3, <2>2, EditKeeps, SMTT(30)
  <2> DEFINE k3 == RequestRetirement(k2)
  <2>4. Evolves(k2, k3) /\ k3.res = k2.res /\ k3.route = k2.route
    BY <1>3, <2>1, RetirementEvolves, SMTT(30)
  <2> HIDE DEF k3
  <2>5. Edit(v, SetEntry(v, s, k3), s, k3)
    BY <1>4, <2>4, SetEntryEdits DEF Evolves, EntryOK
  <2>6. InUse(v.tbl.entry[s])
    BY <1>4 DEF Editable
  <2>7. TableInv(SetEntry(v, s, RequestRetirement(v.tbl.entry[s])))
    BY <1>4, <2>3, <2>4, <2>5, <2>6, EditKeeps, ZenonT(30) DEF k3
  <2>8. Become(v) \/ Become(SetEntry(v, s, RequestRetirement(v.tbl.entry[s])))
    BY <1>1, <1>6
  <2> QED
    BY <2>3, <2>7, <2>8, BecomeInv, SMTT(30)
<1> QED
  BY <1>5, <1>6, ZenonT(30)

\* retire_registered_connection_into, whichever of its steps fails.
LEMMA RetireStep ==
  ASSUME TableInv(World), NEW s \in Slot, NEW fault \in Faults, Retire(s, fault)
  PROVE  TableInv(World')
<1> DEFINE k == tbl.entry[s]
           k1 == [k EXCEPT !.started = TRUE, !.retire = FALSE, !.ioClosed = TRUE]
           w == SetEntry(World, s, k1)
           d == RecordQpDestroyed(w, s)
           r == DropRoute(d, s)
           c == [r EXCEPT !.tbl.entry[s].cm = TRUE]
<1>1. Connected(s) /\ (\/ Become(QuarantineBundle(w, s))
                       \/ Become(Fail(d))
                       \/ Become(QuarantineBundle(r, s))
                       \/ Become(Fail(QuarantineBundle(c, s)))
                       \/ Become(c))
  BY DEF Retire
<1>2. k \in Entry /\ tbl \in Table /\ HasConnection(k) /\ (k.bundle => k.quar) /\ World.tbl = tbl
      /\ k.entry # "Setup"
  BY <1>1, ConnectedEntry, WorldFields
<1>3. k1 \in Entry
  BY <1>2, ZenonT(30) DEF Entry
<1>4. k1.entry = k.entry /\ k1.route = k.route /\ k1.res = k.res /\ k1.qp = k.qp
      /\ k1.destroyed = k.destroyed /\ k1.bundle = k.bundle /\ k1.errStarted = k.errStarted
      /\ k1.errDone = k.errDone /\ k1.quar = k.quar
  BY <1>2 DEF Entry
<1> HIDE DEF k1
<1>5. TableInv(w)
  BY <1>2, <1>3, <1>4, AsideKeeps
<1>6. w.tbl.entry[s] = k1 /\ HasConnection(w.tbl.entry[s])
  BY <1>2, <1>4 DEF SetEntry, Table, World, HasConnection
<1> HIDE DEF w
<1>7. {} \in SUBSET Ops
  OBVIOUS
<1>8. TableInv(d) /\ HasConnection(d.tbl.entry[s])
  BY <1>5, <1>6, <1>7, TeardownKeeps
<1> HIDE DEF d
<1>9. TableInv(r) /\ HasConnection(r.tbl.entry[s])
  BY <1>7, <1>8, TeardownKeeps, Zenon
<1> HIDE DEF r
<1>10. TableInv(c) /\ InUse(c.tbl.entry[s])
  <2> DEFINE e == r.tbl.entry[s]
             k2 == [e EXCEPT !.cm = TRUE]
  <2>1. EntryOK(e) /\ e \in Entry /\ e.entry # "Setup" /\ r \in Worlds /\ r.tbl \in Table
    BY <1>9, TableEditable, Zenon DEF HasConnection, InUse, TableInv, EntryOK, Worlds
  <2>2. c = SetEntry(r, s, k2) /\ c.tbl.entry[s] = k2
    BY <2>1, Zenon DEF SetEntry, Worlds, Table
  <2>3. k2 \in Entry /\ k2.entry = e.entry /\ k2.route = e.route /\ k2.res = e.res /\ k2.qp = e.qp
        /\ k2.destroyed = e.destroyed /\ k2.bundle = e.bundle /\ k2.errStarted = e.errStarted
        /\ k2.errDone = e.errDone /\ k2.quar = e.quar
    BY <2>1, ZenonT(30) DEF Entry
  <2>4. e.bundle => e.quar
    BY <2>1, Zenon DEF EntryOK
  <2> HIDE DEF k2, c
  <2>5. TableInv(SetEntry(r, s, k2))
    BY <1>9, <2>1, <2>3, <2>4, AsideKeeps, ZenonT(30)
  <2> QED
    BY <2>2, <2>3, <2>5, ZenonT(30) DEF InUse, Entry
<1> HIDE DEF c
<1>11. InUse(w.tbl.entry[s]) /\ InUse(r.tbl.entry[s])
  BY <1>6, <1>9 DEF HasConnection, InUse
<1>12. TableInv(QuarantineBundle(w, s)) /\ TableInv(QuarantineBundle(r, s))
  BY <1>5, <1>9, <1>11, QuarantineKeeps, SMTT(30)
<1>13. TableInv(Fail(QuarantineBundle(c, s)))
  BY <1>10, QuarantineKeeps
<1>14. TableInv(Fail(d))
  BY <1>8, FailKeeps, Zenon
<1> QED
  BY <1>1, <1>10, <1>12, <1>13, <1>14, BecomeInv, ZenonT(30)

\* The slot handed out next has no entry.
LEMMA NextIsFree ==
  ASSUME NEW w, TableInv(w), NEW memory, CanAllocate(w.reg, memory)
  PROVE  NextSlot(w.reg) \in Slot /\ ~ InUse(w.tbl.entry[NextSlot(w.reg)])
<1> DEFINE v == [reg |-> Allocated(w.reg)]
<1>1. NextSlot(w.reg) \in Slot /\ TokenOf(w, NextSlot(w.reg)) \notin w.reg.held
  <2>1. v.reg = Allocated(w.reg) /\ Inv(w.reg)
    BY DEF TableInv
  <2> HIDE DEF v
  <2> QED
    BY <2>1, AllocateTakes
<1> QED
  BY <1>1 DEF TableInv, EntriesHeld

\* The premises of Recount.
Moved(tb, t2, s) ==
  /\ \A u \in Slot \ {s} : t2.entry[u] = tb.entry[u]
  /\ \A f \in Counts :
       t2.gauge[f] = tb.gauge[f] + Share(t2.entry[s])[f] - Share(tb.entry[s])[f]
  /\ t2.routes = tb.routes + B(InUse(t2.entry[s]) /\ t2.entry[s].route)
                           - B(InUse(tb.entry[s]) /\ tb.entry[s].route)

\* Recount, in one premise.
LEMMA RecountMoved ==
  ASSUME NEW tb, Counted(tb), NEW t2 \in Table, NEW s \in Slot, Moved(tb, t2, s)
  PROVE  Counted(t2)
  BY Recount DEF Moved

\* A table with one more entry, on the gauge and with its route, is counted.
LEMMA TakeCounts ==
  ASSUME NEW tb, Counted(tb), NEW s \in Slot, ~ InUse(tb.entry[s]), NEW k \in Entry, k.route,
         NEW t2 \in Table, t2.entry = [tb.entry EXCEPT ![s] = k], t2.routes = tb.routes + 1,
         \A f \in Counts : t2.gauge[f] = tb.gauge[f] + Share(k)[f]
  PROVE  Counted(t2)
<1>1. tb \in Table /\ InUse(k)
  BY DEF Counted, InUse, Entry
<1>2. t2.entry[s] = k /\ \A u \in Slot \ {s} : t2.entry[u] = tb.entry[u]
  BY <1>1 DEF Table
<1>3. \A f \in Counts : /\ tb.gauge[f] \in Nat /\ Share(tb.entry[s])[f] = 0 /\ Share(k)[f] \in {0, 1}
  BY NoUnderflow, ShareOf, SMTT(30)
<1>4. \A f \in Counts : t2.gauge[f] = tb.gauge[f] + Share(t2.entry[s])[f] - Share(tb.entry[s])[f]
  BY <1>2, <1>3
<1>5. t2.routes = tb.routes + B(InUse(t2.entry[s]) /\ t2.entry[s].route)
                            - B(InUse(tb.entry[s]) /\ tb.entry[s].route)
  <2>1. tb.routes \in Nat
    BY <1>1, SMTT(30) DEF Table
  <2> QED
    BY <1>1, <1>2, <2>1, SMTT(30) DEF B
<1>6. Moved(tb, t2, s)
  BY <1>2, <1>4, <1>5 DEF Moved
<1> QED
  BY <1>6, RecountMoved

\* The entry of a new setup is consistent once its reservation is as it should be.
LEMMA NewSetup ==
  LET out == NewEntry("out", NewReservation(FALSE))
      in  == [NewEntry("in", NewReservation(TRUE)) EXCEPT
                !.res = [NewReservation(TRUE) EXCEPT !.diag = TRUE, !.indexed = TRUE]]
  IN  /\ EntryOK(out) /\ out.entry = "Setup" /\ out.route
      /\ \A f \in Counts : Share(out)[f] = 0
      /\ EntryOK(in) /\ in.entry = "Setup" /\ in.route
      /\ Share(in) = [live |-> 1, establishing |-> 1, established |-> 0, draining |-> 0,
                      qps |-> 0, bundles |-> 0]
<1> DEFINE r0 == NewReservation(FALSE)
           r1 == [NewReservation(TRUE) EXCEPT !.diag = TRUE, !.indexed = TRUE]
           out == NewEntry("out", r0)
           k0 == NewEntry("in", NewReservation(TRUE))
           in == [k0 EXCEPT !.res = r1]
<1>1. r0 \in Reservation /\ r0.state = "Establishing" /\ r0.counted = FALSE
      /\ r0.diag = FALSE /\ r0.indexed = FALSE
  BY DEF NewReservation, Reservation
<1>2. r1 \in Reservation /\ r1.state = "Establishing" /\ r1.counted = FALSE
      /\ r1.diag = TRUE /\ r1.indexed = TRUE
  BY Zenon DEF NewReservation, Reservation
<1>a. NewReservation(TRUE) \in Reservation
  BY DEF NewReservation, Reservation
<1> HIDE DEF r0, r1
<1>3. /\ out \in Entry /\ out.res = r0 /\ out.entry = "Setup" /\ out.route = TRUE /\ out.kind = "out"
      /\ out.bundle = FALSE /\ out.errStarted = FALSE /\ out.errDone = FALSE
      /\ out.destroyed = FALSE
  BY <1>1 DEF NewEntry, Entry
<1>4. /\ in \in Entry /\ in.res = r1 /\ in.entry = "Setup" /\ in.route = TRUE /\ in.kind = "in"
      /\ in.bundle = FALSE /\ in.errStarted = FALSE /\ in.errDone = FALSE
      /\ in.destroyed = FALSE
  <2>1. /\ k0 \in Entry /\ k0.entry = "Setup" /\ k0.route = TRUE /\ k0.kind = "in"
        /\ k0.bundle = FALSE /\ k0.errStarted = FALSE /\ k0.errDone = FALSE
        /\ k0.destroyed = FALSE
    BY <1>a, Zenon DEF NewEntry, Entry
  <2> HIDE DEF k0
  <2> QED
    BY <1>2, <2>1, Zenon DEF Entry
<1> HIDE DEF out, in
<1>5. EntryOK(out)
  BY <1>1, <1>3 DEF EntryOK
<1>6. EntryOK(in)
  BY <1>2, <1>4 DEF EntryOK
<1>7. Share(out) = [NoGauge EXCEPT !.live = 0]
  BY <1>1, <1>3 DEF Share, InUse, B
<1>8. \A f \in Counts : Share(out)[f] = 0
  BY <1>7 DEF Counts, NoGauge
<1>9. Share(in) = [Contribution(r1) EXCEPT !.live = 1]
  BY <1>2, <1>4, ZenonT(30) DEF Share, InUse, B
<1>10. Contribution(r1) = [live |-> 0, establishing |-> 1, established |-> 0, draining |-> 0,
                           qps |-> 0, bundles |-> 0]
  BY <1>2 DEF Contribution, B
<1>11. Share(in) = [live |-> 1, establishing |-> 1, established |-> 0, draining |-> 0,
                    qps |-> 0, bundles |-> 0]
  BY <1>9, <1>10, SMTT(30)
<1> QED
  BY <1>3, <1>4, <1>5, <1>6, <1>8, <1>11, Zenon DEF out, in, r0, r1, k0

\* register_outbound of a request taken from the queue.
LEMMA RegisterOut ==
  ASSUME NEW w, TableInv(w), NEW memory, CanAllocate(w.reg, memory)
  PROVE  LET v == RegisterRoute(Dequeued(w), NewEntry("out", NewReservation(FALSE)), FALSE)
         IN  TableInv(v) /\ v.tbl.entry[NextSlot(w.reg)].entry = "Setup"
<1> DEFINE k == NewEntry("out", NewReservation(FALSE))
           s == NextSlot(w.reg)
           v == RegisterRoute(Dequeued(w), k, FALSE)
           e2 == [w.tbl.entry EXCEPT ![s] = k]
           t2 == [w.tbl EXCEPT !.entry = e2, !.routes = w.tbl.routes + 1, !.queued = w.tbl.queued - 1]
<1>1. w \in Worlds /\ w.tbl \in Table /\ Inv(w.reg) /\ Counted(w.tbl)
  BY DEF TableInv, Worlds
<1>2. s \in Slot /\ ~ InUse(w.tbl.entry[s])
  BY NextIsFree
<1>3. EntryOK(k) /\ k \in Entry /\ k.entry = "Setup" /\ k.route /\ \A f \in Counts : Share(k)[f] = 0
  BY NewSetup, Zenon DEF EntryOK
<1>4. v.reg = Allocated(w.reg) /\ v.tbl = t2 /\ v = [reg |-> v.reg, tbl |-> v.tbl]
  BY <1>1, Zenon DEF RegisterRoute, Dequeued, Worlds, Table
<1> HIDE DEF v, s, k
<1>a. w.tbl.routes \in Nat /\ w.tbl.permits \in Int /\ w.tbl.queued \in Int
  BY <1>1 DEF Table
<1>b. e2 \in [Slot -> Entry \union {FreeEntry}]
  BY <1>1, <1>3, Zenon DEF Table
<1>5. e2 \in [Slot -> Entry \union {FreeEntry}] /\ w.tbl.routes + 1 \in Nat
      /\ w.tbl.queued - 1 \in Int /\ w.tbl.permits \in Int /\ w.tbl.queued \in Int
  BY <1>a, <1>b
<1> HIDE DEF e2
<1>6. t2 \in Table /\ t2.entry = e2 /\ t2.routes = w.tbl.routes + 1 /\ t2.gauge = w.tbl.gauge
      /\ t2.index = w.tbl.index /\ t2.permits = w.tbl.permits /\ t2.queued = w.tbl.queued - 1
  BY <1>1, <1>5, Zenon DEF Table
<1> HIDE DEF t2
<1>7. Counted(t2)
  <2>1. \A f \in Counts : t2.gauge[f] = w.tbl.gauge[f] + Share(k)[f]
    BY <1>1, <1>2, <1>3, <1>6, NoUnderflow, SMTT(30)
  <2> QED
    BY <1>1, <1>2, <1>3, <1>6, <2>1, TakeCounts, SMTT(30) DEF e2
<1>8. v \in Worlds
  BY <1>1, <1>4, <1>6, AllocatedInv, ZenonT(30) DEF Worlds, Inv, CanAllocate
<1>9. Taken(w, v, k)
  BY <1>4, <1>5, <1>6, <1>7, <1>8, ZenonT(30) DEF Taken, e2, s
<1> QED
  BY <1>3, <1>9, TakeKeeps, Zenon DEF v, s, k

\* reserve_connection takes a permit and counts the child as live.
Admitted(w) == [w EXCEPT !.tbl.permits = @ - 1, !.tbl.gauge = AddLive(@)]

\* The table that reserve_connection leaves.
LEMMA AdmittedTable ==
  ASSUME NEW w \in Worlds
  PROVE  /\ Admitted(w).reg = w.reg
         /\ Admitted(w).tbl
              = [w.tbl EXCEPT !.permits = w.tbl.permits - 1, !.gauge = AddLive(w.tbl.gauge)]
  BY DEF Admitted, Worlds, Table

\* register_inbound of a child that just got its permit.
LEMMA RegisterIn ==
  ASSUME NEW w, TableInv(w), NEW memory, CanAllocate(w.reg, memory)
  PROVE  TableInv(RegisterRoute(Admitted(w), NewEntry("in", NewReservation(TRUE)), TRUE))
<1> DEFINE x == Admitted(w)
           r == NewReservation(TRUE)
           r1 == [r EXCEPT !.diag = TRUE, !.indexed = TRUE]
           k0 == NewEntry("in", r)
           k == [k0 EXCEPT !.res = r1]
           s == NextSlot(w.reg)
           v == RegisterRoute(x, k0, TRUE)
           e2 == [w.tbl.entry EXCEPT ![s] = k]
           g2 == AddSnapshot(AddLive(w.tbl.gauge), Contribution(r))
           t2 == [w.tbl EXCEPT !.entry = e2, !.routes = w.tbl.routes + 1, !.permits = w.tbl.permits - 1,
                               !.gauge = g2]
<1>1. w \in Worlds /\ w.tbl \in Table /\ Inv(w.reg) /\ Counted(w.tbl) /\ w.tbl.gauge \in Gauge
  BY DEF TableInv, Worlds, Table
<1>2. s \in Slot /\ ~ InUse(w.tbl.entry[s])
  BY NextIsFree
<1>3. /\ EntryOK(k) /\ k \in Entry /\ k.entry = "Setup" /\ k.route
      /\ Share(k) = [live |-> 1, establishing |-> 1, established |-> 0, draining |-> 0,
                     qps |-> 0, bundles |-> 0]
  BY NewSetup, Zenon DEF EntryOK
<1>4. v.reg = Allocated(w.reg) /\ v.tbl = t2 /\ v = [reg |-> v.reg, tbl |-> v.tbl]
  <2> DEFINE b == [x.tbl EXCEPT !.entry[s] = k0, !.routes = @ + 1]
  <2>1. x.reg = w.reg /\ x.tbl = [w.tbl EXCEPT !.permits = w.tbl.permits - 1, !.gauge = AddLive(w.tbl.gauge)]
    BY <1>1, AdmittedTable, Zenon
  <2> HIDE DEF x
  <2>2. v = [reg |-> Allocated(w.reg), tbl |-> MarkIndexed(b, s)]
    BY <2>1 DEF RegisterRoute
  <2>3. /\ b = [w.tbl EXCEPT !.permits = w.tbl.permits - 1, !.gauge = AddLive(w.tbl.gauge),
                             !.entry = [w.tbl.entry EXCEPT ![s] = k0], !.routes = w.tbl.routes + 1]
        /\ b.entry = [w.tbl.entry EXCEPT ![s] = k0] /\ b.gauge = AddLive(w.tbl.gauge)
    <3> HIDE DEF k0, s
    <3>1. x.tbl.entry = w.tbl.entry /\ x.tbl.routes = w.tbl.routes
          /\ x.tbl.gauge = AddLive(w.tbl.gauge)
      BY <1>1, <2>1 DEF Table
    <3>2. b = [x.tbl EXCEPT !.entry = [w.tbl.entry EXCEPT ![s] = k0], !.routes = w.tbl.routes + 1]
      BY <3>1
    <3>3. b = [w.tbl EXCEPT !.permits = w.tbl.permits - 1, !.gauge = AddLive(w.tbl.gauge),
                            !.entry = [w.tbl.entry EXCEPT ![s] = k0], !.routes = w.tbl.routes + 1]
      BY <1>1, <2>1, <3>2 DEF Table
    <3> HIDE DEF b
    <3> QED
      BY <1>1, <3>3 DEF Table
  <2>4. k0.res = r /\ r.diag = TRUE /\ r.indexed = FALSE /\ k = [k0 EXCEPT !.res = r1]
    <3>1. r.diag = TRUE /\ r.indexed = FALSE
      BY DEF NewReservation
    <3> HIDE DEF r, r1
    <3>2. k0.res = r
      BY DEF NewEntry
    <3> QED
      BY <3>1, <3>2
  <2> HIDE DEF b, k0, k, r1, r, s, v, x
  <2>5. b.entry[s].res = r
    BY <1>1, <1>2, <2>3, <2>4, Zenon DEF Table
  <2>6. MarkIndexed(b, s)
          = [b EXCEPT !.entry[s].res = [r EXCEPT !.diag = TRUE, !.indexed = TRUE],
                      !.gauge = AddSnapshot(b.gauge, Contribution(r))]
    BY <2>4, <2>5, Zenon DEF MarkIndexed
  <2>7. [[w.tbl.entry EXCEPT ![s] = k0] EXCEPT ![s].res = r1] = e2
    BY <1>1, <1>2, <2>4 DEF Table
  <2>8. MarkIndexed(b, s) = t2
    BY <1>1, <2>3, <2>6, <2>7, ZenonT(30) DEF Table, r1
  <2> QED
    BY <2>2, <2>8
<1>5. g2 \in Gauge /\ \A f \in Counts : g2[f] = w.tbl.gauge[f] + Share(k)[f]
  <2>1. Contribution(r) = [live |-> 0, establishing |-> 1, established |-> 0, draining |-> 0,
                           qps |-> 0, bundles |-> 0]
    BY DEF Contribution, NewReservation, B
  <2> HIDE DEF r, k
  <2>2. AddLive(w.tbl.gauge) \in Gauge
    BY <1>1 DEF AddLive, Gauge
  <2>3. /\ g2 = [f \in Counts |-> AddLive(w.tbl.gauge)[f] + Contribution(r)[f]]
    BY <2>2 DEF AddSnapshot, Gauge, Counts, NoGauge
  <2>4. g2 \in Gauge
    BY <2>1, <2>2, <2>3, SMTT(30) DEF Gauge, Counts, NoGauge
  <2>5. \A f \in Counts : g2[f] = w.tbl.gauge[f] + Share(k)[f]
    BY <1>1, <1>3, <2>1, <2>3, SMTT(30) DEF Gauge, Counts, NoGauge, AddLive
  <2> QED
    BY <2>4, <2>5
<1> HIDE DEF v, s, k, g2
<1>a. w.tbl.routes \in Nat /\ w.tbl.permits \in Int /\ w.tbl.queued \in Int
  BY <1>1 DEF Table
<1>b. e2 \in [Slot -> Entry \union {FreeEntry}]
  BY <1>1, <1>3, Zenon DEF Table
<1>6. e2 \in [Slot -> Entry \union {FreeEntry}] /\ w.tbl.routes + 1 \in Nat
      /\ w.tbl.permits - 1 \in Int /\ w.tbl.permits \in Int /\ w.tbl.queued \in Int
  BY <1>a, <1>b
<1> HIDE DEF e2
<1>7. t2 \in Table /\ t2.entry = e2 /\ t2.routes = w.tbl.routes + 1 /\ t2.gauge = g2
      /\ t2.index = w.tbl.index /\ t2.permits = w.tbl.permits - 1 /\ t2.queued = w.tbl.queued
  BY <1>1, <1>5, <1>6, ZenonT(30) DEF Table
<1> HIDE DEF t2
<1>8. Counted(t2)
  <2>1. \A f \in Counts : t2.gauge[f] = w.tbl.gauge[f] + Share(k)[f]
    BY <1>5, <1>7
  <2> QED
    BY <1>1, <1>2, <1>3, <1>7, <2>1, TakeCounts, SMTT(30) DEF e2
<1>9. v \in Worlds
  BY <1>1, <1>4, <1>7, AllocatedInv, Zenon DEF Worlds, Inv, CanAllocate
<1>10. Taken(w, v, k)
  BY <1>4, <1>6, <1>7, <1>8, <1>9, SMTT(30) DEF Taken, e2, s
<1> QED
  BY <1>3, <1>10, TakeKeeps, ZenonT(30) DEF v

\* v is w with the connection k2 of QP q attached to slot s.
Attached(w, v, s, q, k2) ==
  /\ v \in Worlds /\ v.reg = w.reg /\ Counted(v.tbl)
  /\ v.tbl.entry = [w.tbl.entry EXCEPT ![s] = k2]
  /\ v.tbl.index = [w.tbl.index EXCEPT ![q] = TokenOf(w, s)]
  /\ v.tbl.permits = w.tbl.permits /\ v.tbl.queued = w.tbl.queued
  /\ EntryOK(k2) /\ k2.entry = "Registered" /\ k2.qp = q

\* An attached connection keeps the invariant, since its QP number was free.
LEMMA AttachedKeeps ==
  ASSUME NEW w, TableInv(w), NEW s \in Slot, w.tbl.entry[s].entry = "Setup",
         NEW q \in QpNum, ValidateQp(w, q), NEW v, NEW k2, Attached(w, v, s, q, k2)
  PROVE  TableInv(v)
<1> DEFINE k == w.tbl.entry[s]
<1>1. w \in Worlds /\ w.tbl \in Table /\ w.reg \in Registry /\ Indexed(w) /\ InUse(k) /\ InUse(k2)
      /\ ~ HasConnection(k) /\ HasConnection(k2) /\ k2.qp = q
  BY DEF TableInv, Worlds, InUse, HasConnection, Attached
<1>2. /\ v \in Worlds /\ v.reg = w.reg /\ Counted(v.tbl) /\ EntryOK(k2)
      /\ v.tbl.permits = w.tbl.permits /\ v.tbl.queued = w.tbl.queued
  BY DEF Attached
<1>3. v.tbl.entry[s] = k2 /\ \A u \in Slot \ {s} : v.tbl.entry[u] = w.tbl.entry[u]
  BY <1>1 DEF Attached, Table
<1>4. v.tbl.index[q] = TokenOf(w, s) /\ \A p \in QpNum \ {q} : v.tbl.index[p] = w.tbl.index[p]
  BY <1>1 DEF Attached, Table
<1>5. \A u \in Slot : TokenOf(v, u) = TokenOf(w, u)
  BY <1>2 DEF TokenOf
<1>6. w.tbl.index[q] = NoToken
  BY DEF ValidateQp
<1>7. EntriesHeld(v)
  <2>1. \A u \in Slot : InUse(v.tbl.entry[u]) <=> InUse(w.tbl.entry[u])
    BY <1>1, <1>3, Zenon
  <2> QED
    BY <1>2, <1>5, <2>1, ZenonT(30) DEF TableInv, EntriesHeld
<1>8. Indexed(v)
  <2>1. ASSUME NEW u \in Slot, HasConnection(v.tbl.entry[u])
        PROVE  v.tbl.index[v.tbl.entry[u].qp] = TokenOf(v, u)
    <3>1. CASE u = s
      BY <1>1, <1>3, <1>4, <1>5, <3>1, ZenonT(30)
    <3>2. CASE u # s
      <4>1. v.tbl.entry[u] = w.tbl.entry[u] /\ HasConnection(w.tbl.entry[u])
        BY <1>3, <2>1, <3>2, ZenonT(30)
      <4>2. w.tbl.index[w.tbl.entry[u].qp] = TokenOf(w, u)
        BY <1>1, <4>1, Zenon DEF Indexed
      <4>3. w.tbl.entry[u].qp \in QpNum
        <5>1. InUse(w.tbl.entry[u]) /\ w.tbl.entry[u].entry # "Setup"
          BY <4>1 DEF HasConnection, InUse
        <5>2. EntryOK(w.tbl.entry[u])
          BY <5>1, Zenon DEF TableInv
        <5> QED
          BY <5>1, <5>2, ZenonT(30) DEF EntryOK
      <4>4. w.tbl.entry[u].qp # q
        BY <1>1, <1>6, <4>2, Tokens, ZenonT(30)
      <4> QED
        BY <1>4, <1>5, <4>1, <4>2, <4>3, <4>4, ZenonT(30)
    <3> QED
      BY <3>1, <3>2, Zenon
  <2>2. ASSUME NEW p \in QpNum, v.tbl.index[p] # NoToken
        PROVE  /\ v.tbl.index[p].slot \in Slot
               /\ HasConnection(v.tbl.entry[v.tbl.index[p].slot])
               /\ v.tbl.entry[v.tbl.index[p].slot].qp = p
    <3>1. CASE p = q
      <4>1. v.tbl.index[p].slot = s
        BY <1>1, <1>4, <3>1, Tokens, ZenonT(30)
      <4> QED
        BY <1>1, <1>3, <3>1, <4>1, ZenonT(30)
    <3>2. CASE p # q
      <4>1. v.tbl.index[p] = w.tbl.index[p]
        BY <1>4, <3>2, Zenon
      <4>2. w.tbl.index[p].slot \in Slot /\ HasConnection(w.tbl.entry[w.tbl.index[p].slot])
            /\ w.tbl.entry[w.tbl.index[p].slot].qp = p
        BY <1>1, <2>2, <4>1, ZenonT(30) DEF Indexed
      <4>3. w.tbl.index[p].slot # s
        BY <1>1, <4>2, ZenonT(30)
      <4> QED
        BY <1>3, <4>1, <4>2, <4>3, ZenonT(30)
    <3> QED
      BY <3>1, <3>2, ZenonT(30)
  <2> QED
    BY <2>1, <2>2, ZenonT(30) DEF Indexed
<1>9. PermitsOut(v.tbl)
  <2>1. Used(v.tbl.entry) = Used(w.tbl.entry)
    BY <1>1, <1>3, Zenon DEF Used
  <2> QED
    BY <1>2, <2>1 DEF TableInv, PermitsOut
<1>10. \A u \in Slot : InUse(v.tbl.entry[u]) => EntryOK(v.tbl.entry[u])
  BY <1>2, <1>3, ZenonT(30) DEF TableInv
<1>11. Inv(v.reg)
  BY <1>2 DEF TableInv
<1> QED
  BY <1>2, <1>7, <1>8, <1>9, <1>10, <1>11, ZenonT(30) DEF TableInv

\* The entry of a setup whose connection is attached.
AttachedEntry(k, q) ==
  [k EXCEPT !.entry = "Registered", !.qp = q,
            !.res = [MarkRegistered(k.res) EXCEPT !.diag = TRUE, !.indexed = TRUE]]

\* mark_indexed of a reservation.
IndexedReservation(r) == [r EXCEPT !.diag = TRUE, !.indexed = TRUE]

\* It is consistent, and its shares are those of an established connection.
LEMMA AttachedEntryOK ==
  ASSUME NEW k, EntryOK(k), k.entry = "Setup", ~ k.quar, NEW q \in QpNum
  PROVE  /\ EntryOK(AttachedEntry(k, q)) /\ AttachedEntry(k, q).entry = "Registered"
         /\ AttachedEntry(k, q).qp = q /\ AttachedEntry(k, q).route = k.route
         /\ AttachedEntry(k, q).res = IndexedReservation(MarkRegistered(k.res))
<1> DEFINE r1 == MarkRegistered(k.res)
           r2 == [r1 EXCEPT !.diag = TRUE, !.indexed = TRUE]
           k2 == AttachedEntry(k, q)
<1>1. k \in Entry /\ k.res \in Reservation /\ ~ k.bundle /\ ~ k.errStarted /\ ~ k.errDone
      /\ ~ k.destroyed /\ k.res.state = "Establishing"
  BY DEF EntryOK, Entry
<1>2. r1 \in Reservation /\ r1.state = "Established" /\ r1.counted = TRUE
  BY <1>1, Zenon DEF MarkRegistered, Reservation
<1> HIDE DEF r1
<1>3. r2 \in Reservation /\ r2.state = "Established" /\ r2.counted = TRUE
      /\ r2.diag = TRUE /\ r2.indexed = TRUE
  BY <1>2, Zenon DEF Reservation
<1> HIDE DEF r2
<1>4. k2 = [k EXCEPT !.entry = "Registered", !.qp = q, !.res = r2]
  BY DEF AttachedEntry, r1, r2
<1> HIDE DEF k2
<1>5. k2 \in Entry
  BY <1>1, <1>3, <1>4, Zenon DEF Entry
<1>6. /\ k2.entry = "Registered" /\ k2.qp = q /\ k2.route = k.route /\ k2.res = r2
      /\ k2.bundle = k.bundle /\ k2.quar = k.quar /\ k2.errStarted = k.errStarted
      /\ k2.errDone = k.errDone /\ k2.destroyed = k.destroyed
  BY <1>1, <1>4, Zenon DEF Entry
<1>7. EntryOK(k2)
  BY <1>1, <1>3, <1>5, <1>6, ZenonT(30) DEF EntryOK
<1> QED
  <2>1. r2 = IndexedReservation(MarkRegistered(k.res))
    BY DEF IndexedReservation, r1, r2
  <2> HIDE DEF r2
  <2> QED
    BY <1>6, <1>7, <2>1 DEF k2

\* attach_registered: the reservation is marked registered, then indexed unless
\* it already was.
LEMMA AttachKeeps ==
  ASSUME NEW w, TableInv(w), NEW s \in Slot, w.tbl.entry[s].entry = "Setup",
         ~ w.tbl.entry[s].quar, NEW q \in QpNum, ValidateQp(w, q)
  PROVE  TableInv(Attach(w, s, q))
<1> DEFINE k == w.tbl.entry[s]
           r1 == MarkRegistered(k.res)
           r2 == [r1 EXCEPT !.diag = TRUE, !.indexed = TRUE]
           k1 == [k EXCEPT !.res = r1]
           k2 == AttachedEntry(k, q)
           b == UpdateReservation(w.tbl, s, r1)
           kc == [k1 EXCEPT !.entry = "Registered", !.qp = q]
           i2 == [w.tbl.index EXCEPT ![q] = TokenOf(w, s)]
           c == [b EXCEPT !.entry = [w.tbl.entry EXCEPT ![s] = kc], !.index = i2]
           t2 == MarkIndexed(c, s)
           g2 == AddSnapshot(AddLive(b.gauge), Contribution(r1))
           v == [w EXCEPT !.tbl = t2]
<1>1. w \in Worlds /\ w.tbl \in Table /\ w.reg \in Registry /\ InUse(k) /\ TokenOf(w, s) \in Token
  BY Tokens, Zenon DEF TableInv, Worlds, InUse
<1>2. Editable(w, s) /\ EntryOK(k) /\ k \in Entry /\ k.res \in Reservation
      /\ k.res.state = "Establishing" /\ (k.res.indexed <=> k.res.diag)
  <2>1. Editable(w, s) /\ EntryOK(k)
    BY <1>1, TableEditable, Zenon
  <2> QED
    BY <2>1, ZenonT(30) DEF EntryOK, Entry
<1>3. r1 \in Reservation /\ r1.diag = k.res.diag /\ r1.indexed = k.res.indexed
      /\ r1.state = "Established" /\ r1.counted = TRUE
  BY <1>2, Zenon DEF MarkRegistered, Reservation
<1>4. /\ EntryOK(k2) /\ k2.entry = "Registered" /\ k2.qp = q /\ k2.route = k.route /\ k2.res = r2
      /\ k2 \in Entry
  <2>1. /\ EntryOK(k2) /\ k2.entry = "Registered" /\ k2.qp = q /\ k2.route = k.route /\ k2.res = r2
    <3>1. EntryOK(k) /\ k.entry = "Setup" /\ ~ k.quar
      BY <1>2
    <3>2. r2 = IndexedReservation(MarkRegistered(k.res))
      BY Zenon DEF IndexedReservation
    <3> HIDE DEF k, r2
    <3> QED
      BY <3>1, <3>2, AttachedEntryOK, ZenonT(30)
  <2> HIDE DEF k2
  <2> QED
    BY <2>1, Zenon DEF EntryOK
<1>5. Edit(w, [w EXCEPT !.tbl = b], s, k1)
  <2> HIDE DEF r1
  <2> QED
    BY <1>2, <1>3, UpdateEdits
<1>6. Attach(w, s, q) = v
  <2>1. b.entry = [w.tbl.entry EXCEPT ![s] = k1] /\ b.index = w.tbl.index
    BY <1>1 DEF UpdateReservation, Table
  <2>2. Attach(w, s, q)
          = [w EXCEPT !.tbl = MarkIndexed([b EXCEPT !.entry[s].entry = "Registered",
                                                    !.entry[s].qp    = q,
                                                    !.index[q]       = TokenOf(w, s)], s)]
    BY DEF Attach
  <2> HIDE DEF b, k1, k
  <2>3. b \in Table
    BY <1>1, <1>5 DEF Edit, Worlds
  <2>4. [b EXCEPT !.entry[s].entry = "Registered", !.entry[s].qp = q, !.index[q] = TokenOf(w, s)] = c
    BY <1>1, <2>1, <2>3, ZenonT(30) DEF Table
  <2> HIDE DEF c
  <2> QED
    BY <2>2, <2>4
<1>7. /\ b \in Table /\ Counted(b) /\ b.entry = [w.tbl.entry EXCEPT ![s] = k1]
      /\ b.index = w.tbl.index /\ b.permits = w.tbl.permits /\ b.queued = w.tbl.queued
  <2> HIDE DEF b, k1
  <2> QED
    BY <1>1, <1>5, ZenonT(30) DEF Edit, Worlds
<1> HIDE DEF b
<1>8. k1 \in Entry /\ k1.res = r1 /\ k1.route = k.route
  BY <1>2, <1>3 DEF Entry
<1>9. kc \in Entry /\ kc.res = r1 /\ kc.route = k.route
  <2> HIDE DEF k1
  <2>1. kc \in Entry
    BY <1>8, Zenon DEF Entry
  <2>2. kc.res = k1.res /\ kc.route = k1.route
    BY <1>8 DEF Entry
  <2> QED
    BY <1>8, <2>1, <2>2
<1>10. [kc EXCEPT !.res = r2] = k2
  <2> HIDE DEF r1, r2
  <2>1. k2 = [k EXCEPT !.entry = "Registered", !.qp = q, !.res = r2]
    BY DEF AttachedEntry, r1, r2
  <2> QED
    BY <1>2, <2>1, Zenon DEF Entry
<1>11. b.entry[s] = k1 /\ \A u \in Slot \ {s} : b.entry[u] = w.tbl.entry[u]
  BY <1>1, <1>7 DEF Table
<1> HIDE DEF k1, kc, k2
<1>12. /\ c \in Table /\ c.entry = [w.tbl.entry EXCEPT ![s] = kc] /\ c.index = i2
       /\ c.gauge = b.gauge /\ c.routes = b.routes
       /\ c.permits = b.permits /\ c.queued = b.queued
  <2>1. [w.tbl.entry EXCEPT ![s] = kc] \in [Slot -> Entry \union {FreeEntry}]
        /\ i2 \in [QpNum -> Token \union {NoToken}]
    BY <1>1, <1>9 DEF Table
  <2> HIDE DEF i2
  <2>2. c \in Table
    BY <1>7, <2>1, Zenon DEF Table
  <2> QED
    BY <1>7, <2>1, ZenonT(30) DEF Table
<1>13. c.entry[s] = kc /\ \A u \in Slot \ {s} : c.entry[u] = w.tbl.entry[u]
  BY <1>1, <1>12, ZenonT(30) DEF Table
<1>14. /\ t2 \in Table /\ t2.entry = [w.tbl.entry EXCEPT ![s] = k2] /\ t2.index = i2
       /\ t2.routes = b.routes /\ t2.permits = b.permits /\ t2.queued = b.queued
       /\ \A f \in Counts : t2.gauge[f] = b.gauge[f] + Share(k2)[f] - Share(k1)[f]
  <2> HIDE DEF c, i2
  <2>1. InUse(k1) /\ InUse(k2)
    BY <1>4, <1>8, ZenonT(30) DEF InUse, Entry
  <2>2. \A f \in Counts : b.gauge[f] \in Nat
    BY <1>7, NoUnderflow, Zenon
  <2>3. CASE r1.indexed
    <3>1. r2 = r1
      <4>1. r1.diag = TRUE /\ r1.indexed = TRUE
        BY <1>2, <1>3, <2>3, ZenonT(30) DEF Reservation
      <4> HIDE DEF r1
      <4> QED
        BY <1>3, <4>1, ZenonT(30) DEF Reservation
    <3>2. t2 = c
      BY <1>9, <1>13, <2>3, ZenonT(30) DEF MarkIndexed
    <3>3. k2 = kc
      <4> HIDE DEF r1, r2
      <4> QED
        BY <1>9, <1>10, <3>1, ZenonT(30) DEF Entry
    <3>4. Share(k2) = Share(k1)
      BY <1>4, <1>8, <2>1, <3>1, ZenonT(30) DEF Share
    <3>5. \A f \in Counts : Share(k1)[f] \in {0, 1}
      BY ShareOf, Zenon
    <3> HIDE DEF t2
    <3> QED
      BY <1>12, <2>2, <3>2, <3>3, <3>4, <3>5, SMTT(30)
  <2>4. CASE ~ r1.indexed
    <3>1. ~ r1.diag
      BY <1>2, <1>3, <2>4, ZenonT(30)
    <3>2. t2 = [c EXCEPT !.entry[s].res = r2, !.gauge = g2]
      BY <1>9, <1>12, <1>13, <2>4, <3>1, Zenon DEF MarkIndexed
    <3>3. [c.entry EXCEPT ![s].res = r2] = [w.tbl.entry EXCEPT ![s] = k2]
      BY <1>1, <1>10, <1>12, <1>13, ZenonT(30) DEF Table
    <3>4. [w.tbl.entry EXCEPT ![s] = k2] \in [Slot -> Entry \union {FreeEntry}]
      BY <1>1, <1>4, ZenonT(30) DEF Table
    <3>5. g2 \in Gauge /\ \A f \in Counts : g2[f] = b.gauge[f] + Share(k2)[f] - Share(k1)[f]
      <4>1. b.gauge \in Gauge
        BY <1>7 DEF Table
      <4>2. \A f \in Counts : Share(k1)[f] = 0
        <5> HIDE DEF r1
        <5>1. Share(k1).live = 0
          BY <1>8, <2>1, <3>1, ShareOf, ZenonT(30) DEF B
        <5>2. \A f \in Counts \ {"live"} : Share(k1)[f] = 0
          BY <1>8, <2>1, <2>4, ShareOf, ZenonT(30)
        <5> QED
          BY <5>1, <5>2, ZenonT(30)
      <4>3. r2.indexed = TRUE /\ r2.diag = TRUE /\ Contribution(r2) = Contribution(r1)
        <5>1. r2.indexed = TRUE /\ r2.diag = TRUE /\ r2.state = r1.state /\ r2.counted = r1.counted
          <6> HIDE DEF r1
          <6> QED
            BY <1>3, Zenon DEF Reservation
        <5> HIDE DEF r1, r2
        <5> QED
          BY <5>1 DEF Contribution
      <4> HIDE DEF r1, r2
      <4>4. Share(k2).live = 1 /\ \A f \in Counts \ {"live"} : Share(k2)[f] = Contribution(r1)[f]
        BY <1>4, <2>1, <4>3, ShareOf, ZenonT(30) DEF B
      <4>5. Contribution(r1).live = 0 /\ \A f \in Counts : Contribution(r1)[f] \in {0, 1}
        BY DEF Contribution, B, Counts, NoGauge
      <4>6. AddLive(b.gauge) \in Gauge /\ AddLive(b.gauge).live = b.gauge.live + 1
            /\ \A f \in Counts \ {"live"} : AddLive(b.gauge)[f] = b.gauge[f]
        BY <4>1 DEF AddLive, Gauge, Counts, NoGauge
      <4>7. g2 = [f \in Counts |-> AddLive(b.gauge)[f] + Contribution(r1)[f]]
        BY <4>6 DEF AddSnapshot, Gauge, Counts, NoGauge
      <4>8. \A f \in Counts : AddLive(b.gauge)[f] \in Nat
        BY <4>6 DEF Gauge, Counts, NoGauge
      <4> HIDE DEF g2
      <4>9. \A f \in Counts : g2[f] \in Nat
        BY <4>5, <4>7, <4>8, SMTT(30)
      <4>10. g2 \in Gauge
        BY <4>7, <4>9, Zenon DEF Gauge, Counts, NoGauge
      <4>11. ASSUME NEW f \in Counts PROVE g2[f] = b.gauge[f] + Share(k2)[f] - Share(k1)[f]
        BY <2>2, <4>2, <4>4, <4>5, <4>6, <4>7, SMTT(30)
      <4> QED
        BY <4>10, <4>11, ZenonT(30)
    <3> HIDE DEF t2, g2
    <3>6. t2 = [c EXCEPT !.entry = [w.tbl.entry EXCEPT ![s] = k2], !.gauge = g2]
      BY <3>2, <3>3, ZenonT(30)
    <3>7. t2 \in Table
      BY <1>12, <3>4, <3>5, <3>6, Zenon DEF Table
    <3>8. /\ t2.entry = [w.tbl.entry EXCEPT ![s] = k2] /\ t2.index = c.index /\ t2.gauge = g2
          /\ t2.routes = c.routes /\ t2.permits = c.permits /\ t2.queued = c.queued
      BY <1>12, <3>6, ZenonT(30) DEF Table
    <3> QED
      BY <1>12, <3>5, <3>7, <3>8, ZenonT(30)
  <2> QED
    BY <2>3, <2>4
<1> HIDE DEF t2, c, i2
<1>15. t2.entry[s] = k2 /\ \A u \in Slot \ {s} : t2.entry[u] = b.entry[u]
  BY <1>1, <1>11, <1>14, ZenonT(30) DEF Table
<1>16. Counted(t2)
  <2>1. b.routes \in Nat /\ B(InUse(t2.entry[s]) /\ t2.entry[s].route) \in {0, 1}
        /\ B(InUse(t2.entry[s]) /\ t2.entry[s].route) = B(InUse(b.entry[s]) /\ b.entry[s].route)
    BY <1>4, <1>7, <1>8, <1>11, <1>15, ZenonT(30) DEF B, Table, InUse, Entry
  <2>2. Moved(b, t2, s)
    BY <1>11, <1>14, <1>15, <2>1, SMTT(30) DEF Moved
  <2> QED
    BY <1>7, <1>14, <2>2, RecountMoved, ZenonT(30)
<1>17. v \in Worlds /\ v.tbl = t2 /\ v.reg = w.reg
  BY <1>1, <1>14 DEF Worlds
<1> HIDE DEF v
<1>18. Attached(w, v, s, q, k2)
  BY <1>4, <1>7, <1>14, <1>16, <1>17, Zenon DEF Attached, i2
<1> QED
  BY <1>6, <1>18, AttachedKeeps, ZenonT(30)

\* Permits move between the admission and the queue.
LEMMA PermitsMove ==
  ASSUME NEW w, TableInv(w), NEW v \in Worlds, v.reg = w.reg, v.tbl.entry = w.tbl.entry,
         v.tbl.gauge = w.tbl.gauge, v.tbl.routes = w.tbl.routes, v.tbl.index = w.tbl.index,
         v.tbl.permits + v.tbl.queued = w.tbl.permits + w.tbl.queued
  PROVE  TableInv(v)
<1>1. w.tbl \in Table /\ v.tbl \in Table
  BY Zenon DEF TableInv, Worlds
<1>2. Counted(v.tbl)
  BY <1>1, Zenon DEF TableInv, Counted
<1>3. \A u \in Slot : TokenOf(v, u) = TokenOf(w, u)
  BY Zenon DEF TokenOf
<1>4. EntriesHeld(v) /\ Indexed(v)
  BY <1>3, ZenonT(30) DEF TableInv, EntriesHeld, Indexed
<1>5. PermitsOut(v.tbl)
  <2>1. w.tbl.permits \in Int /\ w.tbl.queued \in Int /\ v.tbl.permits \in Int
        /\ v.tbl.queued \in Int /\ Capacity \in Int
    BY <1>1, RegistryAssumption DEF Table
  <2>2. Cardinality(Used(w.tbl.entry)) \in Nat
    <3>1. Used(w.tbl.entry) \in SUBSET Slot
      BY DEF Used
    <3> QED
      BY <3>1, SlotsFinite, ZenonT(30)
  <2>3. Capacity - w.tbl.permits = w.tbl.queued + Cardinality(Used(w.tbl.entry))
    BY DEF TableInv, PermitsOut
  <2>4. Capacity - v.tbl.permits = v.tbl.queued + Cardinality(Used(w.tbl.entry))
    BY <2>1, <2>2, <2>3
  <2> QED
    BY <2>4 DEF PermitsOut
<1> QED
  BY <1>2, <1>4, <1>5, Zenon DEF TableInv

\* reserve_connect
LEMMA ReserveStep ==
  ASSUME TableInv(World), Reserve
  PROVE  TableInv(World')
<1> DEFINE t2 == [tbl EXCEPT !.permits = tbl.permits - 1, !.queued = tbl.queued + 1]
           x == [World EXCEPT !.tbl = t2]
<1>1. tbl \in Table /\ World \in Worlds /\ World.tbl = tbl /\ World.reg = reg
  BY WorldFields DEF TableInv, Worlds
<1>2. Become(x)
  BY <1>1, Zenon DEF Reserve, Table, World
<1>3. /\ t2 \in Table /\ t2.entry = tbl.entry /\ t2.gauge = tbl.gauge /\ t2.routes = tbl.routes
      /\ t2.index = tbl.index /\ t2.permits = tbl.permits - 1 /\ t2.queued = tbl.queued + 1
      /\ tbl.permits \in Int /\ tbl.queued \in Int
  <2>1. tbl.permits \in Int /\ tbl.queued \in Int
    BY <1>1 DEF Table
  <2>2. tbl.permits - 1 \in Int /\ tbl.queued + 1 \in Int
    BY <2>1
  <2>3. t2 \in Table
    BY <1>1, <2>2, Zenon DEF Table
  <2> QED
    BY <1>1, <2>1, <2>3 DEF Table
<1> HIDE DEF t2
<1>4. x \in Worlds /\ x.tbl = t2 /\ x.reg = reg
  BY <1>1, <1>3 DEF Worlds
<1> HIDE DEF x
<1>5. TableInv(x)
  BY <1>1, <1>3, <1>4, PermitsMove, SMTT(30)
<1> QED
  BY <1>2, <1>5, BecomeInv, ZenonT(30)

\* start: cancelled, refused, registered, or abandoned for want of a CM ID.
LEMMA StartOutboundStep ==
  ASSUME TableInv(World), NEW cancelled \in BOOLEAN, NEW memory \in BOOLEAN, NEW cmOk \in BOOLEAN,
         StartOutbound(cancelled, memory, cmOk)
  PROVE  TableInv(World')
<1> DEFINE res == NewReservation(FALSE)
           v == RegisterRoute(Dequeued(World), NewEntry("out", res), FALSE)
           t2 == [tbl EXCEPT !.permits = tbl.permits + 1, !.queued = tbl.queued - 1]
           x == [World EXCEPT !.tbl = t2]
<1>1. tbl \in Table /\ World \in Worlds /\ World.tbl = tbl /\ World.reg = reg
  BY WorldFields DEF TableInv, Worlds
<1>2. CASE cancelled \/ ~ CanAllocate(reg, memory)
  <2>1. [Dequeued(World) EXCEPT !.tbl = DropReservation(@, res)] = x
    <3>1. res.indexed = FALSE /\ res.diag = FALSE
      BY DEF NewReservation
    <3> HIDE DEF res
    <3> QED
      BY <1>1, <3>1, ZenonT(30) DEF Dequeued, DropReservation, Table, World
  <2>2. Become(x)
    BY <1>2, <2>1, Zenon DEF StartOutbound
  <2>3. /\ t2 \in Table /\ t2.entry = tbl.entry /\ t2.gauge = tbl.gauge /\ t2.routes = tbl.routes
        /\ t2.index = tbl.index /\ t2.permits = tbl.permits + 1 /\ t2.queued = tbl.queued - 1
        /\ tbl.permits \in Int /\ tbl.queued \in Int
    <3>1. tbl.permits \in Int /\ tbl.queued \in Int
      BY <1>1 DEF Table
    <3>2. tbl.permits + 1 \in Int /\ tbl.queued - 1 \in Int
      BY <3>1
    <3>3. t2 \in Table
      BY <1>1, <3>2, Zenon DEF Table
    <3> QED
      BY <1>1, <3>1, <3>3, ZenonT(30) DEF Table
  <2> HIDE DEF t2
  <2>4. x \in Worlds /\ x.tbl = t2 /\ x.reg = reg
    BY <1>1, <2>3, ZenonT(30) DEF Worlds
  <2> HIDE DEF x
  <2>5. TableInv(x)
    BY <1>1, <2>3, <2>4, PermitsMove, SMTT(30)
  <2> QED
    BY <2>2, <2>5, BecomeInv
<1>3. CASE ~ (cancelled \/ ~ CanAllocate(reg, memory))
  <2>1. Become(v) \/ Become(AbandonSetup(v, NextSlot(reg), FALSE))
    BY <1>3, Zenon DEF StartOutbound
  <2>2. CanAllocate(World.reg, memory)
    BY <1>1, <1>3
  <2>3. TableInv(v) /\ v.tbl.entry[NextSlot(reg)].entry = "Setup" /\ NextSlot(reg) \in Slot
    BY <1>1, <2>2, RegisterOut, NextIsFree, Zenon
  <2> HIDE DEF v
  <2>4. TableInv(AbandonSetup(v, NextSlot(reg), FALSE))
    BY <2>3, AbandonKeeps, Zenon
  <2> QED
    BY <2>1, <2>3, <2>4, BecomeInv, Zenon
<1> QED
  BY <1>2, <1>3

\* The CONNECT_REQUEST of a child; one without a slot leaves the counts as they were.
LEMMA InboundChildStep ==
  ASSUME TableInv(World), NEW memory \in BOOLEAN, InboundChild(memory)
  PROVE  TableInv(World')
<1> DEFINE res == NewReservation(TRUE)
           w == Admitted(World)
           v == RegisterRoute(w, NewEntry("in", res), TRUE)
           y == [w EXCEPT !.tbl = DropReservation(w.tbl, res)]
<1>1. tbl \in Table /\ World \in Worlds /\ World.tbl = tbl /\ World.reg = reg
  BY WorldFields DEF TableInv, Worlds
<1>2. Become(IF CanAllocate(reg, memory) THEN v ELSE Fail(y))
  BY Zenon DEF InboundChild, Admitted
<1>3. CASE CanAllocate(reg, memory)
  <2>1. TableInv(v)
    BY <1>1, <1>3, RegisterIn, ZenonT(30)
  <2> QED
    BY <1>2, <1>3, <2>1, BecomeInv, Zenon
<1>4. CASE ~ CanAllocate(reg, memory)
  <2>1. y = World
    <3>1. res.indexed = FALSE /\ res.diag = TRUE
      BY Zenon DEF NewReservation
    <3>2. w.reg = reg /\ w.tbl = [tbl EXCEPT !.permits = tbl.permits - 1, !.gauge = AddLive(tbl.gauge)]
      BY <1>1, AdmittedTable, Zenon
    <3>3. w = [reg |-> w.reg, tbl |-> w.tbl]
      <4>1. w = [World EXCEPT !.tbl = w.tbl]
        BY <1>1, <3>2, Zenon DEF Admitted, World
      <4> HIDE DEF w
      <4> QED
        BY <4>1 DEF World
    <3> HIDE DEF w, res
    <3>4. tbl.gauge \in Gauge /\ tbl.permits \in Int
      BY <1>1 DEF Table
    <3>5. [AddLive(tbl.gauge) EXCEPT !.live = IF @ = 0 THEN 0 ELSE @ - 1] = tbl.gauge
      <4>1. AddLive(tbl.gauge) = [tbl.gauge EXCEPT !.live = tbl.gauge.live + 1]
        BY <3>4 DEF AddLive, Gauge
      <4>2. AddLive(tbl.gauge).live = tbl.gauge.live + 1 /\ tbl.gauge.live \in Nat
        BY <3>4, <4>1 DEF Gauge, NoGauge
      <4>3. AddLive(tbl.gauge).live # 0 /\ AddLive(tbl.gauge).live - 1 = tbl.gauge.live
        BY <4>2
      <4>4. [AddLive(tbl.gauge) EXCEPT !.live = tbl.gauge.live] = tbl.gauge
        BY <3>4, <4>1, Zenon DEF Gauge
      <4> QED
        BY <4>3, <4>4
    <3>6. w.tbl.gauge = AddLive(tbl.gauge) /\ w.tbl.permits = tbl.permits - 1
      BY <1>1, <3>2 DEF Table
    <3>7. DropReservation(w.tbl, res) = [w.tbl EXCEPT !.permits = tbl.permits, !.gauge = tbl.gauge]
      <4>1. w.tbl.permits + 1 = tbl.permits
        BY <3>4, <3>6
      <4> QED
        <5>1. DropReservation(w.tbl, res)
                = [w.tbl EXCEPT !.permits = w.tbl.permits + 1,
                                !.gauge = [w.tbl.gauge EXCEPT !.live = IF @ = 0 THEN 0 ELSE @ - 1]]
          BY <3>1, Zenon DEF DropReservation
        <5>2. [w.tbl.gauge EXCEPT !.live = IF @ = 0 THEN 0 ELSE @ - 1] = tbl.gauge
          BY <3>5, <3>6
        <5> QED
          BY <4>1, <5>1, <5>2, Zenon
    <3>8. DropReservation(w.tbl, res) = tbl
      BY <1>1, <3>2, <3>7, Zenon DEF Table
    <3> QED
      BY <3>2, <3>3, <3>8, SMTT(30) DEF World
  <2> HIDE DEF y
  <2>2. TableInv(Fail(World))
    BY FailKeeps, Zenon
  <2> QED
    BY <1>2, <1>4, <2>1, <2>2, BecomeInv, ZenonT(30)
<1> QED
  BY <1>3, <1>4

\* A setup that fails, and a child that is rejected.
LEMMA SetupEndsStep ==
  ASSUME TableInv(World), NEW s \in Slot, SetupFails(s) \/ \E ok \in BOOLEAN : RejectChild(s, ok)
  PROVE  TableInv(World')
<1>1. /\ tbl.entry[s].entry = "Setup"
      /\ Become(AbandonSetup(World, s, TRUE)) \/ Become(Fail(QuarantineBundle(World, s)))
  BY Zenon DEF SetupFails, RejectChild, InSetup
<1>2. World.tbl.entry[s].entry = "Setup" /\ InUse(World.tbl.entry[s])
  BY <1>1, WorldFields DEF InUse
<1>3. TableInv(AbandonSetup(World, s, TRUE))
  BY <1>2, AbandonKeeps, ZenonT(30)
<1>4. TableInv(Fail(QuarantineBundle(World, s)))
  BY <1>2, QuarantineKeeps
<1> QED
  BY <1>1, <1>3, <1>4, BecomeInv, ZenonT(30)

\* install_reserved_connection
LEMMA InstallStep ==
  ASSUME TableInv(World), NEW s \in Slot, NEW q \in QpNum, NEW accepted \in BOOLEAN,
         NEW rejectOk \in BOOLEAN, NEW destroyOk \in BOOLEAN,
         Install(s, q, accepted, rejectOk, destroyOk)
  PROVE  TableInv(World')
<1> DEFINE w == [World EXCEPT !.tbl.qps = @ \union {q}]
           y == [w EXCEPT !.tbl.qps = @ \ {q}]
           inbound == w.tbl.entry[s].kind = "in"
<1>1. tbl \in Table /\ World \in Worlds /\ World.tbl = tbl /\ World.reg = reg
  BY WorldFields DEF TableInv, Worlds
<1>2. TableInv(w)
  <2>1. tbl.qps \union {q} \in SUBSET QpNum
    BY <1>1 DEF Table
  <2> QED
    BY <1>1, <2>1, FailKeeps, ZenonT(30)
<1>3. w.tbl.entry[s].entry = "Setup" /\ ~ w.tbl.entry[s].quar /\ InUse(w.tbl.entry[s])
  <2>1. w.tbl.entry = tbl.entry
    BY <1>1 DEF World, Table
  <2>2. tbl.entry[s].entry = "Setup" /\ ~ tbl.entry[s].quar
    BY DEF Install, InSetup
  <2> HIDE DEF w
  <2> QED
    BY <2>1, <2>2 DEF InUse
<1>4. Become(IF accepted /\ ValidateQp(w, q) THEN Attach(w, s, q)
             ELSE FailedInstall(w, s, q, rejectOk, destroyOk))
  BY DEF Install
<1> HIDE DEF w
<1>5. TableInv(y) /\ y.tbl.entry[s].entry = "Setup"
  <2>1. w \in Worlds /\ w.tbl \in Table /\ w.tbl.qps \ {q} \in SUBSET QpNum
    BY <1>2 DEF TableInv, Worlds, Table
  <2>2. TableInv(y)
    BY <1>2, <2>1, FailKeeps
  <2>3. y.tbl.entry = w.tbl.entry
    BY <2>1 DEF Worlds, Table
  <2> QED
    BY <1>3, <2>2, <2>3, ZenonT(30)
<1>6. CASE accepted /\ ValidateQp(w, q)
  <2>1. TableInv(Attach(w, s, q))
    BY <1>2, <1>3, <1>6, AttachKeeps, ZenonT(30)
  <2> QED
    BY <1>4, <1>6, <2>1, BecomeInv, ZenonT(30)
<1>7. CASE ~ (accepted /\ ValidateQp(w, q))
  <2>1. Become(FailedInstall(w, s, q, rejectOk, destroyOk))
    BY <1>4, <1>7
  <2> HIDE DEF y
  <2>2. /\ TableInv(QuarantineBundle(w, s)) /\ TableInv(Fail(QuarantineBundle(w, s)))
        /\ TableInv(AbandonSetup(y, s, TRUE)) /\ TableInv(AbandonSetup(y, s, FALSE))
    BY <1>2, <1>3, <1>5, QuarantineKeeps, AbandonKeeps, Zenon
  <2>3. FailedInstall(w, s, q, rejectOk, destroyOk)
          \in {QuarantineBundle(w, s), Fail(QuarantineBundle(w, s)),
               AbandonSetup(y, s, TRUE), AbandonSetup(y, s, FALSE)}
    <3>1. (~ inbound) \in BOOLEAN /\ (~ inbound = TRUE \/ ~ inbound = FALSE)
      OBVIOUS
    <3>2. FailedInstall(w, s, q, rejectOk, destroyOk)
            \in {QuarantineBundle(w, s), Fail(QuarantineBundle(w, s)), AbandonSetup(y, s, ~ inbound)}
      BY DEF FailedInstall, y
    <3> HIDE DEF inbound
    <3> QED
      BY <3>1, <3>2, Zenon
  <2> QED
    BY <2>1, <2>2, <2>3, BecomeInv, ZenonT(30)
<1> QED
  BY <1>6, <1>7

\* complete_connection_cm_destruction
LEMMA FinishCmStep ==
  ASSUME TableInv(World), NEW s \in Slot, NEW ok \in BOOLEAN, FinishCm(s, ok)
  PROVE  TableInv(World')
<1> DEFINE k == tbl.entry[s]
           k2 == [k EXCEPT !.cm = FALSE]
           w == [World EXCEPT !.tbl.entry[s].cm = FALSE]
<1>1. Connected(s) /\ (\/ Become(Fail(QuarantineBundle(World, s)))
                       \/ Become(ReleaseConnection(w, s))
                       \/ Become(Fail(w)))
  BY DEF FinishCm
<1>2. k \in Entry /\ tbl \in Table /\ HasConnection(k) /\ (k.bundle => k.quar) /\ World.tbl = tbl
      /\ k.entry # "Setup" /\ InUse(World.tbl.entry[s])
  BY <1>1, ConnectedEntry, WorldFields
<1>3. k2 \in Entry /\ k2.entry = k.entry /\ k2.route = k.route /\ k2.res = k.res /\ k2.qp = k.qp
      /\ k2.destroyed = k.destroyed /\ k2.bundle = k.bundle /\ k2.errStarted = k.errStarted
      /\ k2.errDone = k.errDone /\ k2.quar = k.quar
  BY <1>2, ZenonT(30) DEF Entry
<1>4. w = SetEntry(World, s, k2) /\ w.tbl.entry[s] = k2
  BY <1>2, Zenon DEF SetEntry, World, Table
<1> HIDE DEF k2, w
<1>5. TableInv(w)
  BY <1>2, <1>3, <1>4, AsideKeeps, ZenonT(30)
<1>6. HasConnection(w.tbl.entry[s])
  BY <1>2, <1>3, <1>4 DEF HasConnection
<1>7. TableInv(ReleaseConnection(w, s)) /\ TableInv(Fail(w))
  BY <1>5, <1>6, ReleaseKeeps, FailKeeps, ZenonT(30)
<1>8. TableInv(Fail(QuarantineBundle(World, s)))
  BY <1>2, QuarantineKeeps, Zenon
<1> QED
  BY <1>1, <1>7, <1>8, BecomeInv, ZenonT(30)

\* What an entry adds to each count, by its lifecycle, error and quarantine.
LEMMA EntryShare ==
  ASSUME NEW k, InUse(k) => EntryOK(k)
  PROVE  /\ Share(k).live = 1 <=> InUse(k) /\ ~ (k.kind = "out" /\ k.entry = "Setup")
         /\ Share(k).establishing = 1 <=> InUse(k) /\ k.kind = "in" /\ k.entry = "Setup" /\ ~ k.bundle
         /\ Share(k).established = 1 <=> InUse(k) /\ HasConnection(k) /\ ~ k.bundle /\ ~ k.errDone
         /\ Share(k).draining = 1 <=> InUse(k) /\ HasConnection(k) /\ k.errDone
         /\ Share(k).qps = 1 <=> InUse(k) /\ HasConnection(k) /\ ~ k.destroyed /\ ~ k.bundle
         /\ Share(k).bundles = 1 <=> InUse(k) /\ k.bundle /\ ~ (k.kind = "out" /\ k.entry = "Setup")
<1>1. CASE ~ InUse(k)
  BY <1>1, SMTT(30) DEF Share, NoGauge
<1>2. CASE InUse(k)
  <2> DEFINE r == k.res
  <2>1. EntryOK(k) /\ k \in Entry /\ r \in Reservation
    BY <1>2 DEF EntryOK, Entry
  <2>2. /\ Share(k).live = B(r.diag)
        /\ Share(k).establishing = IF r.indexed THEN B(r.state = "Establishing") ELSE 0
        /\ Share(k).established = IF r.indexed THEN B(r.state = "Established") ELSE 0
        /\ Share(k).draining = IF r.indexed THEN B(r.state \in {"Draining", "QuarantinedDraining"}) ELSE 0
        /\ Share(k).qps = IF r.indexed THEN B(r.counted) ELSE 0
        /\ Share(k).bundles = IF r.indexed
                              THEN B(r.state \in {"QuarantinedEstablishing", "QuarantinedEstablished",
                                                  "QuarantinedDraining"})
                              ELSE 0
    BY <1>2 DEF Share, Contribution, NoGauge
  <2>3. k.kind \in {"out", "in"} /\ k.bundle \in BOOLEAN /\ k.errDone \in BOOLEAN /\ k.destroyed \in BOOLEAN
    BY <2>1, ZenonT(30) DEF Entry
  <2>4. CASE k.entry = "Setup"
    <3>1. /\ ~ r.counted /\ (r.diag <=> k.kind = "in") /\ (r.indexed <=> k.kind = "in")
          /\ r.state = IF k.bundle THEN "QuarantinedEstablishing" ELSE "Establishing"
      BY <2>1, <2>4, Zenon DEF EntryOK
    <3>2. ~ HasConnection(k)
      BY <2>4, SMT DEF HasConnection
    <3> HIDE DEF r
    <3>3. /\ B(r.diag) = 1 <=> k.kind = "in"
          /\ B(r.state = "Establishing") = 1 <=> ~ k.bundle
          /\ B(r.state = "Established") = 0 /\ B(r.counted) = 0
          /\ B(r.state \in {"Draining", "QuarantinedDraining"}) = 0
      BY <2>3, <3>1, SMT DEF B
    <3>4. B(r.state \in {"QuarantinedEstablishing", "QuarantinedEstablished",
                         "QuarantinedDraining"}) = 1 <=> k.bundle
      BY <2>3, <3>1, SMT DEF B
    <3> QED
      BY <1>2, <2>2, <2>3, <2>4, <3>1, <3>2, <3>3, <3>4, SMT
  <2>5. CASE k.entry # "Setup"
    <3>1. HasConnection(k)
      BY <1>2, <2>5, SMT DEF HasConnection, InUse
    <3>2. /\ r.diag /\ r.indexed /\ (r.counted <=> ~ k.destroyed /\ ~ k.bundle)
          /\ r.state = IF k.errDone
                       THEN IF k.bundle THEN "QuarantinedDraining" ELSE "Draining"
                       ELSE IF k.bundle THEN "QuarantinedEstablished" ELSE "Established"
      BY <2>1, <2>5, Zenon DEF EntryOK
    <3> HIDE DEF r
    <3>3. /\ B(r.diag) = 1 /\ B(r.state = "Establishing") = 0
          /\ B(r.counted) = 1 <=> ~ k.destroyed /\ ~ k.bundle
          /\ B(r.state = "Established") = 1 <=> ~ k.bundle /\ ~ k.errDone
      BY <2>3, <3>2, SMT DEF B
    <3>4. /\ B(r.state \in {"Draining", "QuarantinedDraining"}) = 1 <=> k.errDone
          /\ B(r.state \in {"QuarantinedEstablishing", "QuarantinedEstablished",
                            "QuarantinedDraining"}) = 1 <=> k.bundle
      BY <2>3, <3>2, SMT DEF B
    <3>5. /\ Share(k).live = 1 /\ Share(k).establishing = 0
          /\ Share(k).established = B(r.state = "Established") /\ Share(k).qps = B(r.counted)
          /\ Share(k).draining = B(r.state \in {"Draining", "QuarantinedDraining"})
          /\ Share(k).bundles = B(r.state \in {"QuarantinedEstablishing", "QuarantinedEstablished",
                                               "QuarantinedDraining"})
      BY <2>2, <3>2, <3>3, Zenon
    <3> QED
      BY <1>2, <2>3, <2>5, <3>1, <3>3, <3>4, <3>5, SMT
  <2> QED
    BY <2>4, <2>5, ZenonT(30)
<1> QED
  BY <1>1, <1>2, Zenon

-----------------------------------------------------------------------------
\* The registry, its table and its gauge start empty (new_with_admission).
LEMMA InitLemma ==
  ASSUME Init
  PROVE  TableInv(World)
<1>1. World.reg = NewRegistry /\ World.tbl = NewTable /\ World = [reg |-> NewRegistry, tbl |-> NewTable]
  BY DEF Init, World
<1>2. Inv(NewRegistry) /\ NewRegistry \in Registry
  BY NewRegistryInv DEF Inv
<1>3. NewTable \in Table
  <2>1. Capacity \in Int
    BY RegistryAssumption, SMTT(30)
  <2>2. NoGauge \in Gauge
    BY DEF NoGauge, Gauge
  <2> HIDE DEF NoGauge
  <2>3. [s \in Slot |-> FreeEntry] \in [Slot -> Entry \union {FreeEntry}]
    OBVIOUS
  <2>4. [q \in QpNum |-> NoToken] \in [QpNum -> Token \union {NoToken}]
    OBVIOUS
  <2>5. 0 \in Nat /\ 0 \in Int /\ {} \in SUBSET QpNum /\ FALSE \in BOOLEAN
    OBVIOUS
  <2> QED
    BY <2>1, <2>2, <2>3, <2>4, <2>5, Zenon DEF Table, NewTable
<1>4. /\ NewTable.gauge = NoGauge /\ NewTable.routes = 0 /\ NewTable.permits = Capacity
      /\ NewTable.queued = 0 /\ NewTable.entry = [s \in Slot |-> FreeEntry]
      /\ NewTable.index = [q \in QpNum |-> NoToken]
  BY DEF NewTable
<1>5. \A s \in Slot : ~ InUse(NewTable.entry[s]) /\ ~ HasConnection(NewTable.entry[s])
                      /\ Share(NewTable.entry[s]) = NoGauge
  BY <1>4 DEF InUse, HasConnection, FreeEntry, Share
<1>6. Counted(NewTable)
  <2>1. \A f \in Counts : NoGauge[f] = 0
    BY DEF Counts, NoGauge
  <2>2. \A f \in Counts : Sharing(NewTable.entry, f) = {}
    BY <1>5, <2>1, SMTT(30) DEF Sharing
  <2>3. Routed(NewTable.entry) = {}
    BY <1>5 DEF Routed
  <2>4. Cardinality({}) = 0
    BY FS_EmptySet
  <2> QED
    BY <1>3, <1>4, <2>1, <2>2, <2>3, <2>4, ZenonT(30) DEF Counted
<1>7. PermitsOut(NewTable)
  <2>1. Used(NewTable.entry) = {}
    BY <1>5 DEF Used
  <2>2. Cardinality({}) = 0 /\ Capacity \in Nat
    BY FS_EmptySet, RegistryAssumption
  <2> QED
    BY <1>4, <2>1, <2>2, SMTT(30) DEF PermitsOut
<1>8. World \in Worlds
  BY <1>1, <1>2, <1>3, Zenon DEF Worlds
<1>9. EntriesHeld(World)
  <2>1. NewRegistry.held = {}
    BY Zenon DEF NewRegistry
  <2> QED
    BY <1>1, <1>5, <2>1, Zenon DEF EntriesHeld
<1>10. Indexed(World)
  BY <1>1, <1>4, <1>5, ZenonT(30) DEF Indexed
<1> QED
  BY <1>1, <1>2, <1>5, <1>6, <1>7, <1>8, <1>9, <1>10, ZenonT(30) DEF TableInv

\* Every operation of the table keeps the invariant.
LEMMA NextLemma ==
  ASSUME TableInv(World), [Next]_<<reg, tbl>>
  PROVE  TableInv(World')
<1>1. CASE UNCHANGED <<reg, tbl>>
  BY <1>1 DEF World
<1>2. CASE Reserve
  BY <1>2, ReserveStep
<1>3. ASSUME NEW cancelled \in BOOLEAN, NEW memory \in BOOLEAN, NEW ok \in BOOLEAN,
             StartOutbound(cancelled, memory, ok)
      PROVE  TableInv(World')
  BY <1>3, StartOutboundStep
<1>4. ASSUME NEW memory \in BOOLEAN, InboundChild(memory) PROVE TableInv(World')
  BY <1>4, InboundChildStep
<1>5. ASSUME NEW s \in Slot, SetupFails(s) \/ \E ok \in BOOLEAN : RejectChild(s, ok)
      PROVE  TableInv(World')
  BY <1>5, SetupEndsStep
<1>6. ASSUME NEW s \in Slot, NEW q \in QpNum, NEW accepted \in BOOLEAN, NEW rejectOk \in BOOLEAN,
             NEW destroyOk \in BOOLEAN, Install(s, q, accepted, rejectOk, destroyOk)
      PROVE  TableInv(World')
  BY <1>6, InstallStep
<1>7. ASSUME NEW s \in Slot, MarkActive(s) PROVE TableInv(World')
  BY <1>7, MarkActiveStep
<1>8. ASSUME NEW s \in Slot, NEW o \in Ops, AcceptOp(s, o) \/ QuarantineOp(s, o) \/ CompleteOp(s, o)
      PROVE  TableInv(World')
  BY <1>8, AcceptOpStep, QuarantineOpStep, CompleteOpStep, ZenonT(30)
<1>9. ASSUME NEW s \in Slot, RejectSelected(s) \/ RetainForFailure(s) PROVE TableInv(World')
  BY <1>9, RetainStep
<1>10. ASSUME NEW s \in Slot, NEW ok \in BOOLEAN,
              CloseConnection(s, ok) \/ DrainDeadline(s, ok) \/ FinishCm(s, ok)
       PROVE  TableInv(World')
  BY <1>10, CloseConnectionStep, DrainDeadlineStep, FinishCmStep, ZenonT(30)
<1>11. ASSUME NEW s \in Slot, NEW fault \in Faults, Retire(s, fault) PROVE TableInv(World')
  BY <1>11, RetireStep
<1> QED
  BY <1>1, <1>2, <1>3, <1>4, <1>5, <1>6, <1>7, <1>8, <1>9, <1>10, <1>11, ZenonT(30) DEF Next

\* In every reachable state of the connection registry the entries are those of
\* the held tokens, each agrees with its reservation, the QP index leads to the
\* connections, and the gauge, route_count and the permits count the entries.
THEOREM TableInvariant == Spec => []TableInv(World)
<1>1. Init => TableInv(World)
  BY InitLemma
<1>2. TableInv(World) /\ [Next]_<<reg, tbl>> => TableInv(World)'
  <2> SUFFICES ASSUME TableInv(World), [Next]_<<reg, tbl>> PROVE TableInv(World')
    OBVIOUS
  <2> QED
    BY NextLemma
<1> QED
  BY <1>1, <1>2, PTL DEF Spec

\* Also when setups fail, entries are quarantined and connections retire, a
\* token of a connection in the table leads to its slot and an old one nowhere
\* (resolve, get_mut).
THEOREM TableTokensResolve == Spec => []TokensResolve
<1>1. TableInv(World) => TokensResolve
  BY WorldFields, InvTokensResolve DEF TableInv
<1> QED
  BY <1>1, TableInvariant, PTL

\* A completion's QP number leads to the connection that owns the QP and to no
\* other, and route_count is the number of routes: qp_index and the entries are
\* changed together by attach, release and abandon_setup.
THEOREM TableIndexExact == Spec => []IndexExact
<1>1. ASSUME TableInv(World) PROVE IndexExact
  <2>1. EntriesHeld(World) /\ Indexed(World) /\ Counted(tbl) /\ World.tbl = tbl /\ World.reg = reg
    BY <1>1, WorldFields, ZenonT(30) DEF TableInv
  <2>2. \A s \in Slot : InUse(tbl.entry[s]) <=> TokenOf(World, s) \in reg.held
    BY <2>1, Zenon DEF EntriesHeld
  <2>3. \A s \in Slot : Connected(s) => tbl.index[tbl.entry[s].qp] = TokenOf(World, s)
    BY <2>1, ZenonT(30) DEF Indexed, Connected
  <2>4. \A q \in QpNum :
          tbl.index[q] # NoToken =>
            Connected(tbl.index[q].slot) /\ tbl.entry[tbl.index[q].slot].qp = q
    BY <2>1 DEF Indexed, Connected
  <2>5. tbl.routes = Cardinality({s \in Slot : InUse(tbl.entry[s]) /\ tbl.entry[s].route})
    BY <2>1, ZenonT(30) DEF Counted, Routed
  <2> QED
    BY <2>2, <2>3, <2>4, <2>5, ZenonT(30) DEF IndexExact, Count
<1> QED
  BY <1>1, TableInvariant, PTL

\* The diagnostics gauge equals the counts of the entries, and a permit is out
\* for every queued request and every entry: the saturating subtraction in
\* release and update never saturates, on any path a connection takes.
THEOREM TableGaugeExact == Spec => []GaugeExact
<1>1. ASSUME TableInv(World) PROVE GaugeExact
  <2> DEFINE e == tbl.entry
             OutSetup(k) == k.kind = "out" /\ k.entry = "Setup"
  <2>1. Counted(tbl) /\ PermitsOut(tbl) /\ \A s \in Slot : InUse(e[s]) => EntryOK(e[s])
    BY <1>1, WorldFields, ZenonT(30) DEF TableInv
  <2>2. ASSUME NEW s \in Slot
        PROVE  /\ Share(e[s]).live = 1 <=> InUse(e[s]) /\ ~ OutSetup(e[s])
               /\ Share(e[s]).establishing = 1
                    <=> InUse(e[s]) /\ e[s].kind = "in" /\ e[s].entry = "Setup" /\ ~ e[s].bundle
               /\ Share(e[s]).established = 1
                    <=> InUse(e[s]) /\ HasConnection(e[s]) /\ ~ e[s].bundle /\ ~ e[s].errDone
               /\ Share(e[s]).draining = 1 <=> InUse(e[s]) /\ HasConnection(e[s]) /\ e[s].errDone
               /\ Share(e[s]).qps = 1
                    <=> InUse(e[s]) /\ HasConnection(e[s]) /\ ~ e[s].destroyed /\ ~ e[s].bundle
               /\ Share(e[s]).bundles = 1 <=> InUse(e[s]) /\ e[s].bundle /\ ~ OutSetup(e[s])
    BY <2>1, EntryShare, ZenonT(30) DEF HasConnection, InUse
  <2>3. /\ tbl.gauge.live = Cardinality(Sharing(e, "live"))
        /\ tbl.gauge.establishing = Cardinality(Sharing(e, "establishing"))
        /\ tbl.gauge.established = Cardinality(Sharing(e, "established"))
        /\ tbl.gauge.draining = Cardinality(Sharing(e, "draining"))
        /\ tbl.gauge.qps = Cardinality(Sharing(e, "qps"))
        /\ tbl.gauge.bundles = Cardinality(Sharing(e, "bundles"))
    BY <2>1, ZenonT(30) DEF Counted, Counts, NoGauge
  <2>4. Sharing(e, "live") = {s \in Slot : InUse(e[s]) /\ ~ OutSetup(e[s])}
    BY <2>2, Zenon DEF Sharing
  <2>5. Sharing(e, "establishing")
          = {s \in Slot : InUse(e[s]) /\ (e[s].kind = "in" /\ e[s].entry = "Setup" /\ ~ e[s].bundle)}
    BY <2>2, Zenon DEF Sharing
  <2>6. Sharing(e, "established")
          = {s \in Slot : InUse(e[s]) /\ (HasConnection(e[s]) /\ ~ e[s].bundle /\ ~ e[s].errDone)}
    BY <2>2, Zenon DEF Sharing
  <2>7. Sharing(e, "draining") = {s \in Slot : InUse(e[s]) /\ (HasConnection(e[s]) /\ e[s].errDone)}
    BY <2>2, Zenon DEF Sharing
  <2>8. Sharing(e, "qps")
          = {s \in Slot : InUse(e[s]) /\ (HasConnection(e[s]) /\ ~ e[s].destroyed /\ ~ e[s].bundle)}
    BY <2>2, ZenonT(30) DEF Sharing
  <2>9. Sharing(e, "bundles") = {s \in Slot : InUse(e[s]) /\ (e[s].bundle /\ ~ OutSetup(e[s]))}
    BY <2>2 DEF Sharing
  <2>10. Used(e) = {s \in Slot : InUse(e[s]) /\ TRUE}
    BY DEF Used
  <2> QED
    BY <2>1, <2>3, <2>4, <2>5, <2>6, <2>7, <2>8, <2>9, <2>10, Zenon DEF GaugeExact, Count, PermitsOut
<1> QED
  BY <1>1, TableInvariant, PTL
=============================================================================
