# A TLA+ model of rust-rdma-io

This directory models the concurrent parts of rust-rdma-io in TLA+: the
transports that move messages over RDMA queue pairs, the byte stream on top of
one of them, the busy-poll driver that runs many connections on one core, and the
v2 engine, in which one driver task owns all provider state, with its connection
setup, its reactor and its message transport.  TLC checks the models on small
instances and TLAPS proves theorems about some of them for every instance.
`PROJECT.json` lists the runs, maps every definition to the lines it models, and
records the hazards the properties are aimed at.

    tlc -config <run>.cfg <module>      # a run
    tlapm <module>.tla                  # the proofs of a module

## 1. The system

Paths are relative to `src/rdma-io/src/` unless they say otherwise.

| part | code | state | operations |
|---|---|---|---|
| ring arithmetic | `transport_common.rs` | head, tail; tracker flags | reserve, release, chase forward, clamp |
| `Transport` trait | `transport.rs` | none | send_copy, poll_send_completion, poll_recv, repost_recv, disconnect |
| credit ring | `credit_ring_transport.rs` | two rings, credits, index map, doorbells | as the trait; credit updates by Send+Imm |
| read ring | `read_ring_transport.rs` | two rings, cached remote head | as the trait; head refresh by RDMA Read |
| send/recv transport | `send_recv_transport.rs`, `async_cq.rs` | pre-posted buffers, armed CQs | as the trait |
| byte stream | `async_stream.rs` | stash, partly read buffer, eof | read, write, close, drop |
| busy-poll driver | `core_driver.rs`, `conn_slot.rs`, `completion_source.rs` | routing map, inboxes, counts of posted work, reclaim list | register, sweep, route, reclaim, unregister, shutdown |
| busy-poll pool | `src/rdma-io-busy/src/lib.rs` | cursor, admission counts | try_admit, guard drop |
| v2 operations | `v2/engine/io_core/operation` | operation registry, observers | poll, drop, post, complete, cancel, quarantine |
| v2 I/O core | `v2/engine/io_core` | CQ credits, ledgers, deadlines, completion queues | allocate, release, dispatch, terminal scan |
| v2 connections | `v2/engine/registry.rs`, `v2/engine/session/registry.rs`, `session/connection` | slots and generations, permits, QP index, gauge, close state | reserve, publish, close, quarantine, retire |
| v2 session | `v2/engine/session` | drain and retirement queues | drain, destroy, retire, shutdown |
| v2 connection setup | `v2/engine/session/cm`, `session/listener.rs` | routes, backlog, waiters, CM IDs to destroy | resolve, connect, admit, accept, reject, deliver, cancel |
| v2 reactor | `v2/engine/reactor`, `driver`, `v2/completion.rs` | command ingress, work signal, readiness, deadlines, rotation | publish, poll a source, arm, park, finish, drop |
| v2 messages | `v2/message_transport.rs`, `v2/protocol.rs`, `v2/engine/io.rs` | buffers, credits, pending submissions, event queue | HELLO, send, recv, cancel, close |
| wrappers | verbs, CM, device, `rdma-io-sys` | handles | one call each |

What makes it hard:

* The NIC works between any two calls.  A message leaves a receive ring in the
  order the application returns buffers, arrives in the order of the queue
  pair, and is acknowledged whenever the NIC says so.
* Space is accounted in several currencies at once: bytes of the ring, credits,
  doorbell receives, send-queue slots, entries of the index map.
* Two connections of a core share completion queues, and QP numbers are
  reused.  Completions may still be queued when their QP is gone.
* In the v2 engine a future may be dropped on any thread while the driver
  installs, posts or completes its operation.  The provider owns the memory of
  a posted request until it reports a completion or the QP is destroyed, and
  either may fail.
* Close, disconnect, CM failures, missing completions, quarantine and shutdown
  overlap in every order, and may meet a connection in any phase of its setup.
* The driver sleeps.  Whoever gives it work, in whatever order with its last
  look at the queues, must wake it.

What should hold: no byte is overwritten before it is released; messages arrive
once and in order; no credit, buffer or slot is lost; nothing waits for ever;
memory is never freed while the provider may write to it; every credit is
returned once; completions go to the operation or connection that posted;
a token never resolves to another's connection; shutdown ends and leaves no one
waiting.

## 2. The modules

| module | models | extends |
|---|---|---|
| `RingOps` | RingBuffer, CompletionTracker, clamp as operators | |
| `RingBuffer` | the life of one send ring | `RingOps` |
| `RingBufferProofs` | its theorems | `RingBuffer` |
| `MessageChannel` | the promise of the Transport trait (abstract) | |
| `MessageChannelProofs` | its theorems | `MessageChannel` |
| `RingConnection` | what the ring transports share: queue pairs, index map, applications, NIC | `RingOps` |
| `CreditRing` | two CreditRingTransport endpoints | `RingConnection` |
| `ReadRing` | two ReadRingTransport endpoints | `RingConnection` |
| `SendRecv` | SendRecvTransport and its asynchronous CQs, as operators on an endpoint | |
| `Stream` | two AsyncRdmaStreams, their tasks and wakers, the NIC | `SendRecv` |
| `ConnSlot` | one connection's hand-off with the driver of its core | |
| `CoreDriver` | a core: driver, connections from setup to retirement, NIC | `ConnSlot` |
| `BusyPool` | admission of connections to cores | |
| `BusyPoolProofs` | its theorems | `BusyPool` |
| `Operation` | a v2 operation and its observer as operators on records | |
| `ConnectionRegistry` | an entry of the v2 connection registry | |
| `IoState` | the v2 I/O core, as operators on the engine record | both above |
| `Session` | v2 close, drain, retirement, shutdown, likewise | `IoState` |
| `Engine` | the v2 engine: frontends, ingress, driver, provider | `Session` |
| `PagedRegistry` | slots and generational tokens | |
| `PagedRegistryProofs` | its theorems | `PagedRegistry` |
| `ConnectionTable` | permits, reservations, tokens, QP index, route count and gauge of all connections | `PagedRegistry`, `ConnectionRegistry` |
| `ConnectionTableInvariant` | its inductive invariant, and what its operators do to it | `ConnectionTable`, `PagedRegistryProofs` |
| `ConnectionTableProofs` | its theorems | `ConnectionTableInvariant` |
| `Listener` | the listener's backlog, waiters and selected pair, as operators on the setup record | |
| `CmRetirement` | routes, retirement, destruction of CM IDs, likewise | `Listener` |
| `Inbound`, `Outbound` | the handlers of accepted and of connecting routes, likewise | `CmRetirement` |
| `ConnectionSetup` | futures, listener, CM, driver and shutdown around them | `Inbound`, `Outbound` |
| `ProtocolIo` | the boundary between a protocol and the engine: batches, receipts, events | |
| `MessageTransport` | both ends of a message connection: handles, driver, engine, link | `ProtocolIo` |
| `CqReadiness` | a descriptor whose readiness is cached, and the poll-arm-poll-wait protocol | |
| `Reactor` | the driver task: work signal, timer, readiness, rotating bounded turn | `CqReadiness` |
| `ReactorProofs` | its theorems | `Reactor` |
| `MC*` | constant values, scenarios and symmetry sets for TLC | |

`CreditRing` and `ReadRing` refine `MessageChannel` through
`RingConnection!Channel`: `accepted` counts what `send_copy` took, `wire` holds
what is in a send queue, the receive ring or a completion queue, `got` what
`poll_recv` returned.

The v2 engine is cut into five models along its own module boundaries, since one
model of all of it is out of TLC's reach.  `Engine` has operations and the end of
connections, and takes a connection as established.  `ConnectionSetup` has
everything up to that point and the destruction of what never got there, and
takes work requests as a flag (`Posting`).  `ConnectionTable` has the tables both
of them use, and lets every handler run in any order that the state of a
connection admits.  `Reactor` has when the driver runs and which source it
serves; a source is the amount of work in it.  `MessageTransport` is a user of
the engine, whose side of the boundary is `ProtocolIo`.

### How state and actions correspond to the code

**Ring transports.**  An endpoint is a record with the fields of the Rust
struct.  Each Transport method takes `&mut self` and does not await, so it is
one action: `SendCopy`, `PollSendCompletion`, `PollRecv`, `RepostRecv`, and
the environment's `Deliver`, `Ack`, `Disconnect`, `PeerLost` and (for the read
ring) `ExecuteRead`.  A message is a number, an offset and a length.  Lengths
are in ring units.  The 32-bit count of a credit update is taken modulo
`CreditModulus`, so that it wraps in the runs.

**Byte stream.**  One task owns a stream.  A poll is cut where it looks at state
the NIC changes: at every `poll_cq` and at the `poll_disconnect` after a queue
was found empty.  A task whose poll returned Pending runs again only when a waker
it left behind fires.  Bytes are numbered by the order in which they were written.

**Busy-poll driver.**  The driver and the connections of a core are tasks of one
single-threaded runtime, so a step is what a task does between two awaits.  A
turn of `run` (both sweeps, reclaim, exit) is one step.  A completion is
represented by the connection that posted the work; the driver looks only at
its QP number.  Inboxes have the sizes `into_sources` gives them.

**Pool.**  `try_admit` runs on any thread.  Each atomic access is a step.

**v2 engine.**  The engine's state is one record `e`.  A handler of the driver
is an operator from records to records in `IoState` or `Session`, and `Engine`
has the steps that apply them.  A frontend step is one access to state shared
with the driver.  The driver executes an operation command in the steps between
its own accesses to that state; each other source it serves is one step.
Deadlines fire at any time after they are set.  The provider may complete late,
twice or never, and each call to it may fail if the scenario says so.

**v2 connection setup.**  The state is one record `s`: the commands, the listener
with its backlog, waiters and selected pair, a route and a connection per CM ID,
the queues of cancellations, retirements and destructions, and the observers of
listen, accept and connect futures.  One step of the driver is one service of one
source for one item.  The CM delivers events in any order the phase of an ID
admits.  A scenario says who takes part, how many provider calls may fail and how
many strikes (drop, close, shutdown, loss of a peer or of the listener) may fall.

**v2 connection table.**  A world is the registry and the table.  Every handler
that changes either is an action on one connection, with each of its provider
calls failing or not.

**v2 messages.**  An end is one record: the state shared with handles, the
driver's buffers and credits, the events published by the engine, and the
engine's queue of its commands.  Steps are single accesses to shared state by a
handle, one event of the driver's turn, and one command of the reactor.

**Reactor.**  A step is one access to state that others change: the swap of the
pending bits, the registration of the waker, each `poll_read_ready`, each poll
and arm of the CQ, each service of a source.  Clients, the NIC, the CM, tokio and
the clock act between any two of them.

## 3. The runs

| run | what it shows | instance |
|---|---|---|
| `credit` | nothing overwritten; credits, doorbells and send-queue slots exactly accounted; refinement of the channel; everything arrives | ring of 5, 4 messages of 1 or 2, count wraps at 3, late acknowledgements, a break at any point |
| `read` | nothing overwritten, refinement of the channel, everything arrives | ring of 7, 4 messages of 1 or 2, reader holds up to 2 |
| `engine` | an MR has one owner, and that is its operation while the provider may use it; exact accounts; no lost Drop; a retired connection is drained; scans complete; no future left waiting | 2 futures on one connection, 2 generations; either dropped anywhere with failing, ambiguous and duplicated provider answers, or close, disconnect, CM failure, shutdown and loss of the driver with failing destruction |
| `engine_live` | close and shutdown end and resolve futures | 1 future, every provider fault, CQEs may stay away for ever |
| `busy` | counts of posted work exact, completions reach their owner although numbers are reused, inboxes never overflow, no lost wakeup, bounded reclaim, clean exit | 2 connections, 2 numbers, sweeps of 1, failing handshakes, setups and polls, a NIC that may never flush |
| `message` | buffers and credits conserved through cancellation and failure; delivery in order, and an Ok send is at the peer; a close reports a failure that came first; nobody stuck | 2 messages over 1 credit, one of nine faults at any point |
| `message_early` | violated as expected: two healthy peers can lose their connection | 1 message, no fault |
| `setup` | permits and backlog slots exact; a delivered connection is not closed by the listener; no CM ID destroyed while an event or a QP needs it; nobody stuck | 2 accepts and 2 children, an accept and a connect, a connect under 2 strikes |
| `setup_shutdown` | violated as expected: a connect can lose its answer | 1 connect, 1 strike |
| `stream` | bytes arrive in order, nobody sleeps through what they wait for | 1 send and 2 receive buffers of 2 bytes, up to 9 bytes, reads of 1 or 2, cancelled calls, close and drop |
| `registry` | tokens resolve to their own connection or to nothing; QP index, route count and permits exact; the published counts exact | 2 slots in 2 pages, 2 generations, 2 QP numbers |
| `reactor` | the driver never sleeps on work it could do; no source is passed over for a whole rotation | 8 sources, 8 scenarios of two or three arrivals, every budget 1 |

### The two violations

`message_early`.  A side becomes READY when it has taken the receipt of the
command that reposts its HELLO buffer.  Its peer, READY already, may send before.
`process_receive` looks at the state, finds CREATED and treats the DATA frame as
a HELLO: the connection fails with a protocol violation though nothing went
wrong (`v2/message_transport.rs:1351`).  The sender did what the documentation
of `ready()` asks for (2095).

`setup_shutdown`.  A connect is established and its future not yet polled.
Shutdown scans the routes, replaces the result by `DriverShutdown` and enqueues a
cancellation (`cm/shutdown.rs:164`).  `process_cancellation` closes the connection
and takes the result away (`cm/outbound.rs:240`).  The future then finds nothing
and waits for ever, where the tests expect an error (`api_tests.rs:397`).

### Behaviours met while modelling

Each of these differs from a sentence of the repository or from what one would
expect of it.  No run is kept for them: they follow from the models with other
constants, or a property names them as its exception.

Rings and stream:

* Credit ring: with `max_in_flight` above `ring_capacity / max_message_size`
  (`MaxInFlight = {n}`) the sender wraps into bytes the receiver holds, since
  a credit is per message and the ring is bytes.
  `docs/bugs/credit-ring-ooo-overwrite.md:13` calls the overwrite fixed.
* Credit ring: a reader that never calls `poll_send_completion` (`Reapers = {1}`)
  can park on the receive CQ with a credit deferred for want of a send slot.
  Nothing flushes it when the acknowledgements come, and the writer starves
  (`credit_ring_transport.rs:1064` and the comment at 1246).
* Credit ring: after a peer drained its sends and disconnected, `poll_recv`
  fails at the first flushed completion and drops data that was acknowledged
  (`credit_ring_transport.rs:1088`, against `transport.rs:130`).
* Read ring: the sender's cap counts unacknowledged writes, so a reader that
  holds `max_outstanding` small messages (`HoldLimit = 3`) gets a fatal error
  for the next one (`read_ring_transport.rs:1391`, against 1375).
* Read ring: with fewer than three slots (`Capacity = 2 * MaxMessage`)
  `send_copy` refuses every message (`read_ring_transport.rs:1391`, against 1387).
* Stream: a read that finds no completion and then a disconnect reports end of
  file, though data sent before the disconnect may have arrived in between
  (`async_stream.rs:570`); the comment at 382 closes gracefully so that "the
  posted data is delivered".
* Stream: `close` drains sends but not receives.  Two ends that close while the
  other's receive buffers are full wait for each other (`HeldBack` excepts it).

Busy-poll:

* A setup cancelled during the handshake can leave a flushed receive in the shared
  CQ.  It is counted against the next connection with that QP number
  (`read_ring_transport.rs:960`, against `core_driver.rs:394`).  `PostedIsExact`
  and `CompletionsReachOwner` except the states after it (`HandshakeLost`).
* Setups that fail after the handshake release their admission while their work
  can still complete, so several of them exceed the CQ's headroom
  (`src/rdma-io-busy/src/lib.rs:264`, against 268).
* Pool: callers share the cursor, so a scan can visit one core twice and miss
  another that has room (`src/rdma-io-busy/src/lib.rs:222`, against 217).

v2 engine:

* `RdmaConnection::close` does not always return.  An operation whose CQE misses
  its deadline wraps its connection in `Quarantined`, with `Active` inside.
  `begin_close` changes a bare `Active` entry only, so a close requested then has
  no effect, and is not repeated when the late CQE lifts the quarantine.  The
  same quarantine during the drain makes the drain deadline return before it
  quarantines the bundle.  `CloseResolves` therefore excepts a connection with a
  quarantined operation.
* Dropping a future in flight finds its weak command reference dead, so no
  cancellation is requested (`future.rs:283`, against 31-32).
* Two dropped futures can queue the tokens of two generations of one slot, which
  exceeds the bound asserted at `coalesced.rs:25`.
* After a CM failure event the quarantine of a bundle is not published
  (`connection/mod.rs:753`, against `session/mod.rs:63`).

v2 connection setup and table:

* A graceful shutdown that meets an outbound connect waiting for ESTABLISHED, with
  nothing posted, fails the driver with `InvalidConfig` (`cm/mod.rs:950`), though
  `v2/engine/mod.rs:276` says "Request graceful shutdown and await the engine
  driver's result."
* When the QP of an accepted but undelivered connection cannot be destroyed, its
  pair stays selected: the accept and the close of its listener wait until the
  engine ends (`cm/retirement.rs:460`; `PairQuarantined` in `NothingStuck`).
* Any CM event of a route that does not establish runs `finish_outbound_setup`, so
  a second setup may start before the first one ended.
* A quarantine during setup, of a reservation that has no QP number yet, is not in
  the published count of quarantined bundles.
* A QP number is refused while the connection that had it is still indexed
  (`session/registry.rs:836`), so a new connection can fail for the old one's
  slow retirement.
* A slot at its last generation is retired for good, so a permit may find no slot.

v2 messages and reactor:

* A command cancelled in the reactor's queue delivers its receipt at once
  (`io.rs:703`), ahead of receipts of commands executed before it in the turn.  The
  transport matches receipts to its pending transitions by position, so a receipt
  may be applied to another command's transition.  Buffers and credits stay
  conserved all the same.
* When every arm of the CQ is followed by a completion that the second poll finds,
  events accumulate in the completion channel until the driver next waits on it
  (`MaxEvents` bounds them in the model).
* An outbound connect that waits while a setup is active keeps the driver polling.

### Bounds

A ring needs to wrap with messages of different lengths and padding; 5 to 7
units and messages of 1 and 2 do that.  One direction carries data and the other
credits or Reads; the code of the two ends is the same.  Two operations, slots and
generations give every pair of a stale token and a new owner.  Scans advance one
slot at a time (`ScanBudget = 1`), so that a scan is always interrupted.  Sweeps
of one completion interleave every two completions, and a reclaim budget of two
turns gives up on some QPs and retires others; two connections are enough to share
a CQ and to take over a number.

Two messages over one credit and one buffer make every send wait for a credit to
come back, and one fault at any point meets each of those waits.  One backlog slot
and two children make one of them wait for the other; two accepts make one of them
lose.  The stream's writers exceed all buffers and the stash.  Every budget of the
reactor is 1 and the actions of a turn are fewer than its sources ask for, so that
each turn leaves something behind; eight sources in scenarios of two or three
arrivals give each pair of an arrival and a source that is passed over.

Deadlock is not checked: in every model the system may stop (closed connections,
ended futures, a driver that exited or sleeps).  That it stops only where it may is
what the properties `NothingStuck`, `NoLostWakeup`, `FinishedResolvesAll` and
`ExitIsClean` state: in a state where no step of the system is left, nobody waits
for something that has happened or cannot happen.

The symmetry sets permute futures of one connection, and connections and QP numbers
of a core; nothing tells these apart in the instances that use them.  Runs with
liveness properties use no symmetry.

### Fairness

* Ring transports: an application polls when it was woken, hands every buffer
  back and retries a refused send; the NIC executes what was posted.  These are
  the contract of the trait and of a reliable connection.  In `credit` both
  applications keep calling `poll_send_completion` (`Reapers`), as one does that
  also writes or flushes; see the second behaviour above for one that does not.
* v2 engine: the driver is polled while it has work, each turn serves every
  ready source (`reactor/scheduler.rs`; `Reactor` shows that a source is not passed
  over), executors poll woken futures, and a Drop that began ends.  Nothing is
  assumed of the provider.

The other runs check safety only and assume no fairness.

## 4. The proofs

| theorem | statement | argument |
|---|---|---|
| `RingInvariant` | `RingInv` is invariant, for every capacity | inductive: the live reservations, in order, tile the ring unrolled from its head; the tail is the end of the last one |
| `TypeCorrect`, `NoOverlapTheorem`, `EmptyIffDrainedTheorem`, `DrainedRingAcceptsTheorem` | no overlap of reservations; full and empty told apart; a drained ring accepts half its size | follow from `RingInv`: tiles are disjoint, and the tail meets the head only if there is none |
| `ChannelTypeCorrect`, `ChannelInOrder` | the channel delivers in order, once, up to the break, for any endpoints and quotas | inductive with the type invariant: the wire continues what was returned |
| `CountTheorem`, `AdmissionTheorem` | no core is given more connections than its cap, for any callers, cores and cap | inductive together: a core's count is the guards plus the increments about to be undone, so a caller that finds the count below the cap finds fewer guards than the cap |
| `RegistryInvariant` | `Inv` of the paged registry is invariant, for every capacity, page size and last generation | inductive: a slot is free and listed once, or never used, or held by one token of its generation, or retired; released tokens have older generations |
| `RegistryTokensResolve`, `RegistryNoSlotLost` | a token finds its own value or nothing; an allocation fails only when no slot is vacant | follow from `Inv` |
| `TableInvariant` | `TableInv` of the connection registry is invariant, for every capacity, page size, last generation, set of QP numbers and set of work requests | inductive: see below |
| `TableTokensResolve`, `TableIndexExact`, `TableGaugeExact` | the properties `TokensResolve`, `IndexExact` and `GaugeExact` of the run `registry`: tokens, QP index, route count, permits and gauge agree with the entries, whatever fails | follow from `TableInv` |
| `ReactorInvariant` | `IInv` of the driver task is invariant, for any clients, arrivals, bounds and instants, and any budget of at least 8 | inductive: see below |
| `ReactorNoLostWakeup`, `ReactorNoSourceStarved` | the properties of the run `reactor`: a driver that sleeps has nothing to do and will be woken for what comes; no ready source is passed over in 8 turns in a row | follow from `IInv` |

`NoOverlap` is not inductive: it says nothing of where the tail lies.
`NeverOverAdmitted` is not either: it says nothing of the counter.  `TokensResolve`
is not: it says nothing of the free list, from which a slot in use could be
handed out again.  The hypotheses are a positive capacity of the ring, that
every endpoint has a peer (`ChannelAssumption`), finitely many callers, at least
one core and any cap (`BusyPoolAssumption`), and a positive page size and last
generation (`RegistryAssumption`), naturals as bounds of the reactor's queues and
a budget of at least 8, the largest reservation of a source (`ReactorAssumption`).

**The connection table.**  `RegistrySpec` releases any token at any time; in
`ConnectionTable` tokens are allocated and released by the handlers of a
connection, and the same invariant `Inv` of the slots is one conjunct of
`TableInv`.  `GaugeExact` compares the gauge with the lifecycle of the entries, but
the code never computes it from them: each handler moves the reservation of one
entry from a state to another and adds and subtracts the two contributions,
saturating.  `TableInv` therefore says three things that the property does not.
The gauge is the sum of the contributions of the reservations (`Counted`); an
entry's reservation has the state that its lifecycle, its error transition and its
bundle's quarantine demand (`EntryOK`); and the entries in use are those whose
tokens are held (`EntriesHeld`), so that a slot that is handed out is empty.  From
the first it follows that no subtraction saturates (`NoUnderflow`).  Most handlers
edit one entry: `EditKeeps` reduces such a step to the claim that the new entry
agrees with its new reservation, with the same QP (`Evolves`).  Steps that take or
free a slot (`TakeKeeps`, `ReleaseKeeps`) also move a permit and the index.
`ConnectionTableInvariant` has what the operators do, `ConnectionTableProofs` one
lemma for each action and the theorems.

**The reactor.**  `NoLostWakeup` speaks of a sleeping driver only.  `IInv` says at
every step of the poll where the wake for what the poll has not seen will come
from: a client still has to notify, or the epoch of the signal has moved
(`CommandsHeard`), the waker is in the signal from its registration until it is
used (`WakerKept`), the timer is polled at the first deadline (`TimerSet`), the
CQ is armed or its descriptor has an edge (`CqSound`, `CqWaits`), a CM event is
behind an edge or a readiness that is not cleared (`CmSound`, `CmWaits`), or the
poll will wake its own task (`PolledAgain`).  `NoSourceStarved` needs that a source
is served in the turn that starts at its place (`OwnTurn`): nothing ran before it,
so the whole budget is left.  A destruction of CM IDs is the exception, as it
needs a CM event source that was found empty in the same turn: its place is that
of CM events.  The rest is the rotation of the starts (`Rotates`).

Everything else is model-checked only.  Liveness (`EverythingArrives`, the
properties of `engine_live`) is out of the prover's reach.  The refinement of the
channel by the ring transports, and the invariants of the engine, of connection
setup, of the message transport, of the byte stream and of a busy-poll core, are
checked by TLC and not proved.

## 5. What is not modelled

Abstractions of the modelled parts:

* Engine: a publication at the end of a turn is seen when the step ends.  Checks
  of the data in a CQE are abstracted.
* Engine: `reject_queued_completions_after_qp_destroy` finds no completion in the
  model, because the QP is destroyed when its queue is empty.
* Engine: a CQE of a destroyed QP may still arrive, but the CQ has no capacity of
  its own, so its occupancy by such entries is not checked.
* Setup: one listener, and one connection per CM ID.  Address and private data
  are abstracted.  Work requests of a new connection are a flag.
* Messages: a frame is its kind and number; encoding and validation of headers are
  abstracted to the choice of accepting the frame or failing the connection.  The
  engine's bound on protocol operations is not reached.
* Reactor: CmSoftware stands for the five classes of CM software work, and the
  shutdown and terminal sources are left to `Engine`.  The driver mode that polls
  without readiness never sleeps and has no wake protocol.
* Stream: the two halves of a split stream on two tasks would share one waker per
  CQ; only one task per stream is modelled.  The stream runs over the send/recv
  transport; over a ring it is not modelled.
* Busy-poll: the status of a completion is abstracted, so a setup may fail at
  any time when the run allows it.  The send discipline is abstracted to the
  size of the send queue.  The generation of a slot has no reader and is left
  out.  The depth of the shared CQ is not modelled.  The pool's cursor is taken
  modulo the number of cores, so that its wrap at 2^64 is not modelled.
* Rings: both ends are given the same ring capacity.  The exchange of ring tokens
  and the teardown drain of the arm-and-park mode are not modelled.

Parts with no module: the exchange of ring tokens, the quinn and tonic adapters,
configuration and diagnostics for display, the verbs and CM wrappers, whose effects
are the provider's steps, generated bindings, tests and benchmarks.  `components`
gives the reason for each.
