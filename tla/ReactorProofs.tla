--------------------------- MODULE ReactorProofs ---------------------------
(***************************************************************************)
(* The driver task never sleeps over work and no source of a turn starves, *)
(* for every number of client tasks, every bound on the queues, every      *)
(* scenario and every publication budget that the configuration admits.    *)
(***************************************************************************)
EXTENDS Reactor, WellFoundedInduction, TLAPS

World == [left : [Arrivals -> Nat], now : Instants]
Clients == [Producers -> {"idle", "queued", "marked", "counted"}]
CommandQueues == [close : Nat, listen : Nat, operation : Nat, next_class : 1..2]
Signal == [pending : BOOLEAN, moved : BOOLEAN, waker : BOOLEAN]
CmChannel == [events : Nat, deferred : BOOLEAN, fd : AsyncFd]
Work == [dispatch : Nat, software : Nat, destroy : Nat, slot : BOOLEAN,
         ingress : SUBSET Instants, heap : SUBSET Instants, due : Nat]
Timer == [at : 0..Never, polled : BOOLEAN]
Turn == [pc : {"parked", "observe", "take", "snapshot", "turn", "cm_fd", "cm_try",
               "cm_clear", "timer", "register", "retake", "recheck"},
         next_start : 0..7, start : 0..7, todo : SUBSET Sources,
         left : 0..ActionBudget, repoll : BOOLEAN, would_block : BOOLEAN,
         ready : BOOLEAN, served : BOOLEAN]
Watch == [source : Sources, passed : Nat]

\* What a turn publishes stays within its budget.
TypeOK ==
  /\ world \in World /\ client \in Clients /\ command \in CommandQueues /\ signal \in Signal
  /\ woken \in BOOLEAN /\ cq \in Cq /\ cm \in CmChannel /\ work \in Work
  /\ timer \in Timer /\ turn \in Turn /\ watch \in Watch

\* Where the poll is: in the turn, after it and before the last look at
\* repoll, after that look.
AtCm == turn.pc \in {"cm_fd", "cm_try", "cm_clear"}

InTurn == turn.pc = "turn" \/ AtCm

BeforeRetake == turn.pc \in {"timer", "register", "retake"}

AfterRetake == turn.pc \in {"recheck", "parked"}

\* The task has been woken since the poll began, or will wake itself.
PolledAgain == woken \/ ((InTurn \/ BeforeRetake) /\ turn.repoll)

\* Once registered, the waker is in the signal until it is used.
WakerKept == turn.pc \in {"retake", "recheck", "parked"} => signal.waker \/ woken

\* A command the turn did not see is followed by its client's notification,
\* whose epoch is looked at after the waker is in place.
CommandsHeard ==
  /\ BeforeRetake \/ turn.pc = "recheck" =>
       \/ ~HasRunnable(command, work) \/ PolledAgain \/ signal.moved
       \/ \E p \in Producers : client[p] \in {"queued", "marked"}
  /\ turn.pc = "parked" =>
       \/ ~HasRunnable(command, work) \/ woken
       \/ \E p \in Producers : client[p] # "idle"

NoInternalWork ==
  /\ work.dispatch = 0 /\ work.software = 0 /\ work.destroy = 0
  /\ work.ingress = {} /\ work.due = 0 /\ ~cm.deferred

WorkSeen == BeforeRetake \/ AfterRetake => NoInternalWork \/ PolledAgain

TimerSet ==
  turn.pc \in {"register", "retake", "recheck", "parked"} =>
    \/ woken \/ work.heap = {}
    \/ timer.at = Min(work.heap) /\ timer.polled /\ world.now < Min(work.heap)

\* What the state of the CQ protocol says of the completion queue.
CqSound ==
  /\ cq.state = "PollAfterArm" => cq.armed \/ cq.cqes > 0
  /\ cq.state = "WaitingFd" => (cq.armed /\ cq.cqes = 0) \/ cq.fd.edge \/ cq.fd.ready

CqWaits ==
  (InTurn /\ "Cq" \notin turn.todo) \/ BeforeRetake \/ AfterRetake =>
    PolledAgain \/ (cq.state = "WaitingFd" /\ cq.fd.waker /\ ~cq.fd.ready)

\* A CM event has signalled the descriptor.
CmSound ==
  cm.events > 0 => cm.fd.edge \/ IF turn.pc = "cm_clear" THEN cm.fd.fresh ELSE cm.fd.ready

CmWaits ==
  (InTurn /\ "CmEvent" \notin turn.todo) \/ BeforeRetake \/ AfterRetake =>
    PolledAgain \/ (cm.fd.waker /\ ~cm.fd.ready)

\* A source that is still to be served has the work that made it ready.
TodoBacked ==
  /\ InTurn =>
       /\ "Commands" \in turn.todo => HasRunnable(command, work)
       /\ "CompletionDispatch" \in turn.todo => work.dispatch > 0
       /\ "CmSoftware" \in turn.todo => work.software > 0
       /\ "CmDestruction" \in turn.todo => work.destroy > 0
  /\ AtCm =>
       /\ "CmEvent" \in turn.todo /\ turn.left >= 8
       /\ \A r \in turn.todo : Offset(turn.start, "CmEvent") <= Offset(turn.start, r)

\* The start at which a source is certain to run: its own place, or for a
\* destruction the place of the CM event that must find the channel empty.
OwnStart == IF watch.source = "CmDestruction" THEN 4 ELSE ALL[watch.source]

\* In such a turn the source runs with the whole budget.
OwnTurn ==
  InTurn /\ turn.ready /\ ~turn.served /\ turn.start = OwnStart =>
    \/ /\ watch.source \in turn.todo /\ turn.left = ActionBudget
       /\ watch.source = "CmDestruction" =>
            ("CmEvent" \in turn.todo <=> ~turn.would_block)
    \/ /\ watch.source = "CmDestruction"
       /\ "CmEvent" \notin turn.todo /\ ~turn.would_block

\* The turns since the last one that began at start c.
Since(next, c) == IF next > c THEN next - 1 - c ELSE next + 7 - c

Rotates ==
  IF InTurn
  THEN /\ turn.next_start = IF turn.start = 7 THEN 0 ELSE turn.start + 1
       /\ watch.passed <= Since(turn.start, OwnStart)
  ELSE watch.passed <= Since(turn.next_start, OwnStart)

\* The inductive invariant.
IInv ==
  /\ TypeOK /\ TodoBacked
  /\ WakerKept /\ CommandsHeard /\ WorkSeen /\ TimerSet
  /\ CqSound /\ CqWaits /\ CmSound /\ CmWaits
  /\ OwnTurn /\ Rotates
-----------------------------------------------------------------------------
\* A nonempty set of natural numbers has a least element.
LEMMA MinIsLeast ==
  ASSUME NEW S \in SUBSET Nat, S # {}
  PROVE  Min(S) \in S /\ \A y \in S : Min(S) <= y
<1> DEFINE Less == {ss \in Nat \X Nat : ss[1] < ss[2]}
<1>1. IsWellFoundedOn(Less, Nat)
  BY NatLessThanWellFounded, Zenon DEF OpToRel
<1>2. PICK x \in S : \A y \in S : ~(<<y, x>> \in Less)
  <2> HIDE DEF Less
  <2> QED BY <1>1, WFMin, Zenon
<1>3. ASSUME NEW y \in S PROVE x <= y
  <2>1. <<y, x>> \notin Less
    BY <1>2
  <2>2. x \in Nat /\ y \in Nat /\ ~(y < x)
    BY <2>1
  <2> QED
    BY <2>2
<1> QED
  BY <1>3, Zenon DEF Min

\* Initially.
LEMMA InitInv == Init => IInv
<1> SUFFICES ASSUME Init PROVE IInv
  OBVIOUS
<1> USE ReactorAssumption
<1>1. TypeOK
  BY DEF Init, TypeOK, World, Clients, CommandQueues, Signal, CmChannel, Work, Timer, Turn, Watch,
         NewCq, Cq, PollState, AsyncFd, IdleFd, NoTurn, Instants, Never
<1>2. TodoBacked /\ WakerKept /\ CommandsHeard /\ WorkSeen /\ TimerSet
  BY DEF Init, NoTurn, TodoBacked, WakerKept, CommandsHeard, WorkSeen, TimerSet, InTurn, AtCm,
         BeforeRetake, AfterRetake, PolledAgain
<1>3. CqSound /\ CqWaits /\ CmSound /\ CmWaits
  BY DEF Init, NoTurn, CqSound, CqWaits, CmSound, CmWaits, InTurn, AtCm,
         BeforeRetake, AfterRetake, PolledAgain, NewCq
<1>4. OwnTurn /\ Rotates
  BY DEF Init, NoTurn, OwnTurn, Rotates, InTurn, AtCm, Since, OwnStart, Sources, ALL
<1> QED
  BY <1>1, <1>2, <1>3, <1>4 DEF IInv

\* The classes of commands: the one selected can run, and there is one when
\* some class can.
LEMMA SelectedReady ==
  ASSUME NEW ready \in [listen : BOOLEAN, operation : BOOLEAN], command.next_class \in 1..2
  PROVE  /\ Selected(ready) \in 0..2
         /\ Selected(ready) = 1 => ready.listen
         /\ Selected(ready) = 2 => ready.operation
         /\ Selected(ready) = 0 => ~ready.listen /\ ~ready.operation
<1> DEFINE order == [i \in 1..2 |-> ((command.next_class + i - 2) % 2) + 1]
           hits == {i \in 1..2 : ready[Classes[order[i]]]}
<1>1. Selected(ready) = IF hits = {} THEN 0 ELSE order[Min(hits)]
  BY DEF Selected
<1>2. hits # {} => Min(hits) \in hits
  <2>1. hits \in SUBSET Nat
    OBVIOUS
  <2> HIDE DEF hits
  <2> QED
    BY <2>1, MinIsLeast
<1>3. order[1] = command.next_class /\ order[2] = 3 - command.next_class
  OBVIOUS
<1>4. \A i \in 1..2 : ready[Classes[order[i]]] =
                        IF order[i] = 1 THEN ready.listen ELSE ready.operation
  BY <1>3 DEF Classes
<1> HIDE DEF order
<1> QED
  BY <1>1, <1>2, <1>3, <1>4

\* What an arrival does to the world.
LEMMA ArrivalTyped ==
  ASSUME world \in World, NEW kind \in Arrivals, Arrival(kind),
         kind = "instant" => world.now < MaxTime
  PROVE  /\ world' \in World
         /\ world'.now = IF kind = "instant" THEN world.now + 1 ELSE world.now
<1>1. world.left[kind] - 1 \in Nat
  BY DEF World, Arrival
<1>2. (IF kind = "instant" THEN world.now + 1 ELSE world.now) \in Instants
  BY ReactorAssumption DEF World, Instants
<1>3. world' \in World
  BY <1>1, <1>2, Zenon DEF World, Arrival
<1> QED
  BY <1>3 DEF World, Arrival

\* A service changes the turn in four fields.
LEMMA ServeTyped ==
  ASSUME turn \in Turn, NEW s, NEW leaves \in 0..turn.left, NEW ran \in BOOLEAN,
         NEW again \in BOOLEAN, Serve(s, leaves, ran, again)
  PROVE  turn' \in Turn
<1>1. turn.left - leaves \in 0..ActionBudget
  BY ReactorAssumption DEF Turn
<1> QED
  BY <1>1, Zenon DEF Turn, Serve

\* A bounded queue grows by one or stays full.
LEMMA MoreIsMore ==
  ASSUME NEW n \in Nat
  PROVE  More(n) \in Nat /\ More(n) >= n
  BY ReactorAssumption DEF More

\* The turn of a parked driver.
LEMMA NoTurnTyped == NoTurn \in Turn
  BY ReactorAssumption DEF NoTurn, Turn

\* Whether each class of commands can run.
LEMMA CommandReadyTyped ==
  ASSUME NEW left, NEW slot
  PROVE  CommandReady(left, slot) \in [listen : BOOLEAN, operation : BOOLEAN]
  BY Zenon DEF CommandReady

\* A service of the commands runs one when some can run and the budget is whole.
LEMMA CommandsServed ==
  ASSUME TypeOK, ServeCommands
  PROVE  /\ command' \in CommandQueues /\ work' \in Work
         /\ work'.dispatch = work.dispatch /\ work'.software >= work.software
         /\ work'.destroy = work.destroy /\ work'.heap = work.heap /\ work'.due = work.due
         /\ \E leaves \in 0..turn.left, ran, again \in BOOLEAN :
              /\ NotifySelf(again) /\ Serve("Commands", leaves, ran, again)
              /\ HasRunnable(command, work) /\ turn.left >= 8 => ran
<1>1. PICK closing \in {command.close > 0 /\ turn.left >= 4},
           closed \in Leaves(4), executed \in Leaves(4), at \in Instants :
             ServeCommands!2!(closing, closed, executed, at)
  BY Zenon DEF ServeCommands
<1> DEFINE published == IF closing THEN closed ELSE 0
           left == turn.left - published
           class == Selected(CommandReady(left, work.slot))
           listens == class = 1
           operates == class = 2
           leaves == published + IF operates THEN executed ELSE 0
           after == [close |-> command.close - IF closing THEN 1 ELSE 0,
                     listen |-> command.listen - IF listens THEN 1 ELSE 0,
                     operation |-> command.operation - IF operates THEN 1 ELSE 0,
                     next_class |-> IF class = 0 THEN command.next_class
                                    ELSE (class % 2) + 1]
           w == [work EXCEPT !.ingress = IF closing THEN @ \cup {at} ELSE @,
                             !.slot = @ /\ ~listens,
                             !.software = IF listens THEN More(@) ELSE @]
           again == closing \/ listens \/ HasRunnable(after, w)
<1>2. /\ command' = after /\ work' = w
      /\ NotifySelf(again) /\ Serve("Commands", leaves, closing \/ class # 0, again)
  BY <1>1
<1>3. /\ turn.left \in 0..ActionBudget /\ work \in Work /\ command \in CommandQueues
      /\ closing \in BOOLEAN /\ (closing <=> command.close > 0 /\ turn.left >= 4)
      /\ closed \in {0, 4} /\ executed \in {0, 4} /\ at \in Instants
  BY Zenon DEF TypeOK, Turn, Leaves
<1>4. published \in {0, 4} /\ (published = 4 => turn.left >= 4) /\ left \in Nat
  BY <1>3, ReactorAssumption
<1>5. CommandReady(left, work.slot) =
        [listen |-> left >= 1 /\ work.slot /\ command.listen > 0,
         operation |-> left >= 4 /\ command.operation > 0]
  BY DEF CommandReady
<1>6. CommandReady(left, work.slot) \in [listen : BOOLEAN, operation : BOOLEAN]
  BY CommandReadyTyped
<1> HIDE DEF left, published
<1>7. /\ class \in 0..2
      /\ listens => command.listen > 0 /\ work.slot
      /\ operates => command.operation > 0 /\ left >= 4
      /\ class = 0 => ~(left >= 1 /\ work.slot /\ command.listen > 0)
                      /\ ~(left >= 4 /\ command.operation > 0)
  BY <1>3, <1>5, <1>6, SelectedReady, Zenon DEF CommandQueues
<1> HIDE DEF class
<1>8. after \in CommandQueues
  <2>1. /\ command.close - (IF closing THEN 1 ELSE 0) \in Nat
    BY <1>3 DEF CommandQueues
  <2>2. /\ command.listen - (IF listens THEN 1 ELSE 0) \in Nat
        /\ command.operation - (IF operates THEN 1 ELSE 0) \in Nat
    BY <1>3, <1>7 DEF CommandQueues
  <2>3. (IF class = 0 THEN command.next_class ELSE (class % 2) + 1) \in 1..2
    BY <1>3, <1>7 DEF CommandQueues
  <2> QED
    BY <2>1, <2>2, <2>3, Zenon DEF CommandQueues
<1>9. /\ w \in Work
      /\ w.dispatch = work.dispatch /\ w.software >= work.software
      /\ w.destroy = work.destroy /\ w.heap = work.heap /\ w.due = work.due
  <2>1. work.software \in Nat /\ More(work.software) \in Nat
        /\ More(work.software) >= work.software
    BY <1>3, MoreIsMore DEF Work
  <2>2. w \in Work
    BY <1>3, <2>1, Zenon DEF Work
  <2> QED
    BY <1>3, <2>1, <2>2 DEF Work
<1>10. leaves \in 0..turn.left
  BY <1>3, <1>4, <1>7 DEF left
<1>11. (closing \/ class # 0) \in BOOLEAN /\ again \in BOOLEAN
  BY <1>3 DEF HasRunnable
<1>12. HasRunnable(command, work) /\ turn.left >= 8 => closing \/ class # 0
  <2> SUFFICES ASSUME HasRunnable(command, work), turn.left >= 8, ~closing PROVE class # 0
    OBVIOUS
  <2>1. command.close = 0 /\ left >= 4
    BY <1>3, <1>4 DEF left, CommandQueues
  <2> QED
    BY <2>1, <1>4, <1>7 DEF HasRunnable
<1> QED
  <2> HIDE DEF after, w, again, leaves
  <2> QED
    BY <1>2, <1>8, <1>9, <1>10, <1>11, <1>12, Zenon

\* notify_reactor from within the poll.
LEMMA NotifySelfTyped ==
  ASSUME signal \in Signal, woken \in BOOLEAN, NEW on \in BOOLEAN, NotifySelf(on)
  PROVE  signal' \in Signal /\ woken' \in BOOLEAN
  BY DEF Signal, NotifySelf

\* Every step keeps the types: no queue is taken below zero and no turn
\* publishes more than its budget.
LEMMA TypeStep == TypeOK /\ TodoBacked /\ [Next]_vars => TypeOK'
<1> SUFFICES ASSUME TypeOK, TodoBacked, [Next]_vars PROVE TypeOK'
  OBVIOUS
<1>1. ASSUME NEW p \in Producers, NEW kind \in {"close", "listen", "operation"}, Enqueue(p,
        kind) PROVE TypeOK'
  <2>1. world' \in World
    BY <1>1, ArrivalTyped DEF TypeOK, Enqueue, Arrivals
  <2>2. client' \in Clients
    BY <1>1 DEF TypeOK, Clients, Enqueue
  <2>3. command[kind] + 1 \in Nat
    BY <1>1 DEF TypeOK, CommandQueues
  <2>4. command' \in CommandQueues
    BY <1>1, <2>3 DEF TypeOK, CommandQueues, Enqueue
  <2> QED
    BY <1>1, <2>1, <2>2, <2>3, <2>4 DEF TypeOK, Enqueue
<1>2. ASSUME NEW p \in Producers, NotifyPending(p) \/ NotifyEpoch(p) \/ NotifyWake(p) PROVE TypeOK'
  <2>1. client' \in Clients
    BY <1>2 DEF TypeOK, Clients, NotifyPending, NotifyEpoch, NotifyWake
  <2>2. signal' \in Signal /\ woken' \in BOOLEAN
    BY <1>2, Zenon DEF TypeOK, Signal, NotifyPending, NotifyEpoch, NotifyWake
  <2> QED
    BY <1>2, <2>1, <2>2 DEF TypeOK, NotifyPending, NotifyEpoch, NotifyWake
<1>3. ASSUME CompletionArrives PROVE TypeOK'
  <2>1. world' \in World
    BY <1>3, ArrivalTyped DEF TypeOK, CompletionArrives, Arrivals
  <2>2. cq.cqes + 1 \in 0..MaxCqes /\ cq.events + 1 \in Nat
    BY <1>3, ReactorAssumption DEF TypeOK, CompletionArrives, Cq
  <2>3. Signalled(cq.fd) \in AsyncFd
    BY Zenon DEF TypeOK, Cq, AsyncFd, Signalled
  <2>4. cq' \in Cq
    BY <1>3, <2>2, <2>3, Zenon DEF TypeOK, CompletionArrives, Completed, Cq
  <2> QED
    BY <1>3, <2>1, <2>2, <2>3, <2>4 DEF TypeOK, CompletionArrives
<1>4. ASSUME EventArrives PROVE TypeOK'
  <2>1. world' \in World
    BY <1>4, ArrivalTyped DEF TypeOK, EventArrives, Arrivals
  <2>2. cm.events + 1 \in Nat /\ Signalled(cm.fd) \in AsyncFd
    <3>1. cm.events \in Nat /\ cm.fd \in AsyncFd
      BY DEF TypeOK, CmChannel
    <3>2. Signalled(cm.fd) \in AsyncFd
      BY <3>1, Zenon DEF AsyncFd, Signalled
    <3> QED
      BY <3>1, <3>2
  <2>3. cm' \in CmChannel
    BY <1>4, <2>2, Zenon DEF TypeOK, EventArrives, CmChannel
  <2> QED
    BY <1>4, <2>1, <2>2, <2>3 DEF TypeOK, EventArrives
<1>5. ASSUME CqFdReady \/ CmFdReady PROVE TypeOK'
  <2>1. \A fd : Delivered(fd) \in AsyncFd
    BY DEF AsyncFd, Delivered
  <2>2. cq' \in Cq /\ cm' \in CmChannel
    BY <1>5, <2>1 DEF TypeOK, CqFdReady, CmFdReady, Cq, CmChannel
  <2>3. woken' \in BOOLEAN
    BY <1>5 DEF TypeOK, CqFdReady, CmFdReady, Cq, CmChannel, AsyncFd
  <2> QED
    BY <1>5, <2>1, <2>2, <2>3 DEF TypeOK, CqFdReady, CmFdReady
<1>6. ASSUME Elapse PROVE TypeOK'
  <2>1. world' \in World
    BY <1>6, ArrivalTyped DEF TypeOK, Elapse, Arrivals
  <2>2. woken' \in BOOLEAN
    BY <1>6 DEF TypeOK, Elapse, Timer
  <2> QED
    BY <1>6, <2>1, <2>2 DEF TypeOK, Elapse
<1>7. ASSUME StartPoll \/ PollTimer PROVE TypeOK'
  <2>1. work.heap \in SUBSET Nat /\ work.heap \in SUBSET (0..MaxTime)
    BY DEF TypeOK, Work, Instants
  <2>2. NextDeadline(work) \in 0..Never
    BY <2>1, MinIsLeast, ReactorAssumption DEF NextDeadline, Never
  <2>3. timer' \in Timer
    <3>1. Never \in 0..Never /\ (work.heap # {}) \in BOOLEAN
      BY ReactorAssumption DEF Never
    <3>2. PollDeadlineTimer
      BY <1>7 DEF StartPoll, PollTimer
    <3>3. [at |-> Never, polled |-> FALSE] \in Timer
      BY <3>1 DEF Timer
    <3>4. [at |-> NextDeadline(work), polled |-> work.heap # {}] \in Timer
      BY <2>2, <3>1, Zenon DEF Timer
    <3> QED
      BY <3>2, <3>3, <3>4 DEF PollDeadlineTimer
  <2>4. woken' \in BOOLEAN
    BY <1>7, Zenon DEF TypeOK, StartPoll, PollTimer, Fired
  <2>5. turn' \in Turn
    BY <1>7 DEF TypeOK, StartPoll, PollTimer, Turn
  <2> QED
    BY <1>7, <2>1, <2>2, <2>3, <2>4, <2>5 DEF TypeOK, StartPoll, PollTimer
<1>8. ASSUME ObserveEpoch \/ TakePending \/ RegisterWaker \/ RetakePending PROVE TypeOK'
  <2>1. signal' \in Signal
    BY <1>8, Zenon DEF TypeOK, Signal, ObserveEpoch, TakePending, RegisterWaker, RetakePending
  <2>2. woken' \in BOOLEAN
    BY <1>8 DEF TypeOK, Signal, Turn, ObserveEpoch, TakePending, RegisterWaker, RetakePending
  <2>3. turn' \in Turn
    BY <1>8 DEF TypeOK, Turn, ObserveEpoch, TakePending, RegisterWaker, RetakePending
  <2> QED
    BY <1>8, <2>1, <2>2, <2>3 DEF TypeOK, ObserveEpoch, TakePending, RegisterWaker, RetakePending
<1>9. ASSUME Snapshot PROVE TypeOK'
  <2>1. work' \in Work
    BY <1>9, Zenon DEF TypeOK, Snapshot, DueMoved, Work
  <2>2. Ready(command, work') \in SUBSET Sources
    BY DEF Ready, Sources, ALL
  <2>3. turn.next_start \in 0..7 /\ (turn.next_start + 1) % Rotation \in 0..7
    BY DEF TypeOK, Turn, Rotation
  <2>4. NoTurn \in Turn
    BY NoTurnTyped
  <2>5. (watch.source \in Ready(command, work')) \in BOOLEAN
    OBVIOUS
  <2>6. turn' \in Turn
    <3>1. turn' = [NoTurn EXCEPT !.pc = "turn", !.next_start = (turn.next_start + 1) % Rotation,
                                 !.start = turn.next_start, !.todo = Ready(command, work'),
                                 !.ready = watch.source \in Ready(command, work')]
      BY <1>9 DEF Snapshot, BeginTurn
    <3> QED
      BY <3>1, <2>2, <2>3, <2>4, <2>5, Zenon DEF Turn
  <2> QED
    BY <1>9, <2>1, <2>2, <2>3, <2>4, <2>5, <2>6 DEF TypeOK, Snapshot
<1>10. ASSUME ServeCq PROVE TypeOK'
  <2>1. PollWith(cq).cq \in Cq
    <3>1. cq.fd \in AsyncFd /\ cq.state \in PollState /\ cq.events \in Nat /\ cq.cqes \in 0..MaxCqes
      BY DEF TypeOK, Cq
    <3>2. ReadReady(cq.fd) \in AsyncFd /\ ClearReady(ReadReady(cq.fd)) \in AsyncFd
      BY <3>1, Zenon DEF AsyncFd, ReadReady, ClearReady
    <3>3. PolledCq(cq).cq \in Cq
      <4>1. cq.cqes > 0 => cq.cqes - 1 \in 0..MaxCqes
        BY <3>1, ReactorAssumption
      <4>2. cq.cqes > 0 => [cq EXCEPT !.cqes = cq.cqes - 1, !.state = "PollBeforeArm"] \in Cq
        BY <4>1, Zenon DEF TypeOK, Cq, PollState
      <4> QED
        BY <4>2 DEF TypeOK, PolledCq, Cq, PollState
    <3>4. Armed(cq).cq \in Cq
      BY Zenon DEF TypeOK, Armed, Cq, PollState
    <3>5. Waited(cq).cq \in Cq
      BY <3>2, Zenon DEF TypeOK, Waited, Cq, PollState
    <3>6. Drained(cq).cq \in Cq
      BY <3>1 DEF TypeOK, Drained, Cq, PollState
    <3> QED
      BY <3>1, <3>3, <3>4, <3>5, <3>6 DEF PollWith, PollState
  <2>2. cq' \in Cq /\ woken' \in BOOLEAN
    BY <1>10, <2>1 DEF TypeOK, ServeCq
  <2>3. work' \in Work
    BY <1>10, MoreIsMore DEF TypeOK, ServeCq, Work
  <2>4. turn' \in Turn
    <3>1. 0 \in 0..turn.left /\ (PollWith(cq).exit = "ready") \in BOOLEAN
      BY DEF TypeOK, Turn
    <3> QED
      BY <1>10, <3>1, ServeTyped, Zenon DEF TypeOK, ServeCq
  <2> QED
    BY <1>10, <2>1, <2>2, <2>3, <2>4 DEF TypeOK, ServeCq
<1>11. ASSUME NEW s \in Sources, NEW n \in Nat, NEW again \in BOOLEAN, Starved(s, n, again)
       PROVE  TypeOK'
  <2>1. turn' \in Turn
    <3>1. 0 \in 0..turn.left
      BY DEF TypeOK, Turn
    <3> QED
      BY <1>11, <3>1, ServeTyped, Zenon DEF TypeOK, Starved
  <2> QED
    BY <1>11, <2>1 DEF TypeOK, Starved
<1>12. ASSUME ServeCompletionDispatch PROVE TypeOK'
  <2>1. PICK leaves \in Leaves(3), stays \in BOOLEAN, drained \in BOOLEAN :
          ServeCompletionDispatch!2!(leaves, stays, drained)
    BY <1>12, Zenon DEF ServeCompletionDispatch
  <2>2. work.dispatch \in Nat \ {0} /\ work.software \in Nat
    BY <1>12 DEF TypeOK, Work, TodoBacked, ServeCompletionDispatch, Serving, InTurn
  <2>3. work.dispatch - 1 \in Nat /\ More(work.software) \in Nat
    BY <2>2, MoreIsMore
  <2>4. work' \in Work
    BY <2>1, <2>2, <2>3, Zenon DEF TypeOK, Work
  <2>5. signal' \in Signal /\ woken' \in BOOLEAN
    BY <2>1, NotifySelfTyped DEF TypeOK
  <2>6. turn' \in Turn
    <3>1. leaves \in 0..turn.left /\ (work'.dispatch > 0) \in BOOLEAN
      BY <1>12, <2>1 DEF ServeCompletionDispatch, Leaves, TypeOK, Turn
    <3> QED
      BY <3>1, <2>1, ServeTyped, Zenon DEF TypeOK
  <2> QED
    BY <1>12, <2>1, <2>2, <2>3, <2>4, <2>5, <2>6 DEF TypeOK, ServeCompletionDispatch
<1>13. ASSUME ServeCmSoftware PROVE TypeOK'
  <2>1. PICK leaves \in Leaves(8), retires \in BOOLEAN : ServeCmSoftware!2!(leaves, retires)
    BY <1>13, Zenon DEF ServeCmSoftware
  <2>2. work.software - 1 \in Nat /\ work.destroy \in Nat
    BY <1>13 DEF TypeOK, Work, TodoBacked, ServeCmSoftware, Serving, InTurn
  <2>3. More(work.destroy) \in Nat
    BY <2>2, MoreIsMore
  <2>4. work' \in Work
    BY <2>1, <2>2, <2>3, Zenon DEF TypeOK, Work
  <2>5. turn' \in Turn
    <3>1. leaves \in 0..turn.left /\ (work'.software > 0) \in BOOLEAN
      BY <1>13, <2>1 DEF ServeCmSoftware, Leaves, TypeOK, Turn
    <3> QED
      BY <3>1, <2>1, ServeTyped, Zenon DEF TypeOK
  <2> QED
    BY <1>13, <2>1, <2>2, <2>3, <2>4, <2>5 DEF TypeOK, ServeCmSoftware
<1>14. ASSUME ServeCmEvent PROVE TypeOK'
  <2>1. cm' \in CmChannel
    <3>1. cm.events > 0 => cm.events - 1 \in Nat
      BY DEF TypeOK, CmChannel
    <3> QED
      BY <1>14, <3>1, Zenon DEF TypeOK, CmChannel, ServeCmEvent
  <2>2. PICK leaves \in Leaves(8), listener \in BOOLEAN : ServeCmEvent!4!(leaves, listener)
    BY <1>14, Zenon DEF ServeCmEvent
  <2>3. work' \in Work
    BY <2>2, MoreIsMore DEF TypeOK, Work
  <2>4. turn' \in Turn
    <3>1. leaves \in 0..turn.left
      BY <1>14, <2>2 DEF ServeCmEvent, Leaves, TypeOK, Turn
    <3> QED
      BY <3>1, <2>2, ServeTyped, Zenon DEF TypeOK
  <2> QED
    BY <1>14, <2>1, <2>2, <2>3, <2>4 DEF TypeOK, ServeCmEvent
<1>15. ASSUME ServeCmEventBlocked \/ CmFdGuard \/ CmTryBlocked \/ CmClearReady PROVE TypeOK'
  <2>1. ReadReady(cm.fd) \in AsyncFd /\ ClearReady(cm.fd) \in AsyncFd
    BY Zenon DEF TypeOK, CmChannel, AsyncFd, ReadReady, ClearReady
  <2>2. cm' \in CmChannel
    BY <1>15, <2>1 DEF TypeOK, CmChannel, ServeCmEventBlocked, CmFdGuard, CmTryBlocked, CmClearReady
  <2>3. turn' \in Turn
    BY <1>15 DEF TypeOK, Turn, ServeCmEventBlocked, CmFdGuard, CmTryBlocked, CmClearReady
  <2> QED
    BY <1>15, <2>1, <2>2, <2>3 DEF TypeOK, ServeCmEventBlocked, CmFdGuard, CmTryBlocked, CmClearReady
<1>16. ASSUME CmFdPending PROVE TypeOK'
  <2>1. ReadReady(cm.fd) \in AsyncFd
    BY Zenon DEF TypeOK, CmChannel, AsyncFd, ReadReady
  <2>2. cm' \in CmChannel
    BY <1>16, <2>1 DEF TypeOK, CmChannel, CmFdPending
  <2>3. turn' \in Turn
    BY <1>16, Zenon DEF TypeOK, Turn, CmFdPending
  <2> QED
    BY <1>16, <2>1, <2>2, <2>3 DEF TypeOK, CmFdPending
<1>17. ASSUME CmTryEvent PROVE TypeOK'
  <2>1. cm' \in CmChannel
    BY <1>17 DEF TypeOK, CmChannel, CmTryEvent
  <2>2. PICK leaves \in Leaves(8), listener \in BOOLEAN : CmTryEvent!3!(leaves, listener)
    BY <1>17, Zenon DEF CmTryEvent
  <2>3. work' \in Work
    BY <2>2, MoreIsMore DEF TypeOK, Work
  <2>4. turn.left - leaves \in 0..ActionBudget
    BY <1>17, ReactorAssumption DEF CmTryEvent, TodoBacked, AtCm, Leaves, TypeOK, Turn
  <2>5. turn' \in Turn
    BY <2>2, <2>4, ZenonT(30) DEF TypeOK, Turn
  <2> QED
    BY <1>17, <2>1, <2>2, <2>3, <2>4, <2>5 DEF TypeOK, CmTryEvent
<1>18. ASSUME ServeCmDestruction PROVE TypeOK'
  <2>1. turn.left >= 8 /\ work.destroy - 1 \in Nat
    <3>1. turn.left >= 8 /\ turn.pc = "turn" /\ "CmDestruction" \in turn.todo
      BY <1>18, Zenon DEF ServeCmDestruction, Serving
    <3> QED
      BY <3>1, SMTT(30) DEF TypeOK, Work, TodoBacked, InTurn
  <2>2. cm' \in CmChannel
    <3>1. (cm.deferred \/ cm.events > 0) /\ ~cm.deferred => cm.events - 1 \in Nat
      BY DEF TypeOK, CmChannel
    <3> QED
      BY <1>18, <3>1, Zenon DEF TypeOK, CmChannel, ServeCmDestruction
  <2>3. work' \in Work
    BY <1>18, <2>1, Zenon DEF TypeOK, Work, ServeCmDestruction
  <2>4. \E leaves \in 0..turn.left, ran, again \in BOOLEAN :
          Serve("CmDestruction", leaves, ran, again)
    <3>1. 0 \in 0..turn.left /\ \A n \in Leaves(8) : n \in 0..turn.left
      BY <2>1 DEF Leaves, TypeOK, Turn
    <3>2. (work'.destroy > 0) \in BOOLEAN
      OBVIOUS
    <3> QED
      BY <1>18, <3>1, <3>2, Zenon DEF ServeCmDestruction
  <2>5. turn' \in Turn
    BY <2>4, ServeTyped DEF TypeOK
  <2> QED
    BY <1>18, <2>1, <2>2, <2>3, <2>4, <2>5, Zenon DEF TypeOK, ServeCmDestruction
<1>19. ASSUME ServeDeadlineIngress PROVE TypeOK'
  <2>1. PICK at \in work.ingress :
          work' = [work EXCEPT !.ingress = @ \ {at}, !.heap = @ \cup {at}]
    BY <1>19, Zenon DEF ServeDeadlineIngress
  <2>2. work' \in Work
    BY <2>1, Zenon DEF TypeOK, Work
  <2>3. turn' \in Turn
    <3>1. 0 \in 0..turn.left /\ (work'.ingress # {}) \in BOOLEAN
      BY DEF TypeOK, Turn
    <3> QED
      BY <1>19, <3>1, ServeTyped, Zenon DEF ServeDeadlineIngress, TypeOK
  <2> QED
    BY <1>19, <2>1, <2>2, <2>3, SMTT(30) DEF TypeOK, ServeDeadlineIngress
<1>20. ASSUME ServeDeadline PROVE TypeOK'
  <2>1. PICK leaves \in Leaves(2), again \in SUBSET {i \in Instants : i >= world.now} :
          ServeDeadline!2!(leaves, again)
    BY <1>20, Zenon DEF ServeDeadline
  <2>2. work' \in Work
    <3>1. 0 \in Nat /\ again \in SUBSET Instants
      OBVIOUS
    <3> QED
      BY <2>1, <3>1, Zenon DEF TypeOK, Work
  <2>3. turn' \in Turn
    <3>1. leaves \in 0..turn.left /\ Due(work) \in BOOLEAN
      BY <1>20, <2>1 DEF ServeDeadline, Leaves, TypeOK, Turn, Due
    <3> QED
      BY <3>1, <2>1, ServeTyped, Zenon DEF TypeOK
  <2> QED
    BY <1>20, <2>1, <2>2, <2>3 DEF TypeOK, ServeDeadline
<1>21. ASSUME EndTurn PROVE TypeOK'
  <2>1. turn' \in Turn
    BY <1>21, Zenon DEF TypeOK, Turn, EndTurn
  <2>2. watch' \in Watch
    BY <1>21 DEF TypeOK, Watch, EndTurn
  <2> QED
    BY <1>21, <2>1, <2>2 DEF TypeOK, EndTurn
<1>22. ASSUME RecheckEpoch PROVE TypeOK'
  <2>1. woken' \in BOOLEAN
    BY <1>22 DEF TypeOK, RecheckEpoch, Signal
  <2>2. NoTurn \in Turn
    BY NoTurnTyped
  <2>3. turn' \in Turn
    BY <1>22, <2>2, Zenon DEF TypeOK, RecheckEpoch, Turn
  <2> QED
    BY <1>22, <2>1, <2>2, <2>3 DEF TypeOK, RecheckEpoch
<1>23. ASSUME ServeCommands PROVE TypeOK'
  <2>1. PICK leaves \in 0..turn.left, ran \in BOOLEAN, again \in BOOLEAN :
          NotifySelf(again) /\ Serve("Commands", leaves, ran, again)
    BY <1>23, CommandsServed
  <2>2. turn' \in Turn
    BY <2>1, ServeTyped DEF TypeOK
  <2>3. signal' \in Signal /\ woken' \in BOOLEAN
    BY <2>1, NotifySelfTyped DEF TypeOK
  <2>4. command' \in CommandQueues /\ work' \in Work
    BY <1>23, CommandsServed
  <2> QED
    BY <1>23, <2>1, <2>2, <2>3, <2>4 DEF TypeOK, ServeCommands
<1>24. ASSUME UNCHANGED vars PROVE TypeOK'
  BY <1>24 DEF TypeOK, vars
<1> QED
  BY <1>1, <1>2, <1>3, <1>4, <1>5, <1>6, <1>7, <1>8, <1>9, <1>10, <1>11, <1>12, <1>13,
     <1>14, <1>15, <1>16, <1>17, <1>18, <1>19, <1>20, <1>21, <1>22, <1>23, <1>24, Zenon
  DEF Next, ClientNext, WorldNext, DriverNext, ServeSource, Sources, ALL

-----------------------------------------------------------------------------
\* The fields of a turn after a service.
LEMMA ServeFields ==
  ASSUME turn \in Turn, NEW s, NEW leaves \in Nat, NEW ran \in BOOLEAN,
         NEW again \in BOOLEAN, Serve(s, leaves, ran, again)
  PROVE  /\ turn'.pc = turn.pc /\ turn'.start = turn.start
         /\ turn'.next_start = turn.next_start /\ turn'.ready = turn.ready
         /\ turn'.would_block = turn.would_block
         /\ turn'.todo = turn.todo \ {s} /\ turn'.left = turn.left - leaves
         /\ turn'.repoll <=> turn.repoll \/ again
         /\ turn'.served <=> turn.served \/ (ran /\ s = watch.source)
  BY DEF Turn, Serve

\* What every step of a turn keeps.
Frame ==
  /\ turn'.pc \in {"turn", "cm_fd", "cm_try", "cm_clear"}
  /\ turn'.start = turn.start /\ turn'.next_start = turn.next_start
  /\ turn'.ready = turn.ready /\ turn'.todo \subseteq turn.todo
  /\ turn.repoll => turn'.repoll
  /\ turn.served => turn'.served
  /\ woken => woken'
  /\ UNCHANGED <<world, client, watch, timer>>

\* A source that is served with the budget a turn begins with runs; so does a
\* destruction when the channel was seen empty.
Service ==
  \E s \in Sources, leaves \in 0..turn.left, ran, again \in BOOLEAN :
    /\ Serving(s) /\ Serve(s, leaves, ran, again)
    /\ turn.left >= 8 /\ (s = "CmDestruction" => turn.would_block) => ran

\* A service of a source stays in the turn.
LEMMA ServiceFrame ==
  ASSUME TypeOK, Service, woken => woken', UNCHANGED <<world, client, watch, timer>>
  PROVE  Frame
<1>1. PICK s \in Sources, leaves \in 0..turn.left, ran \in BOOLEAN, again \in BOOLEAN :
        Serving(s) /\ Serve(s, leaves, ran, again)
  BY DEF Service
<1>2. leaves \in Nat /\ turn \in Turn /\ turn.pc = "turn"
  BY <1>1 DEF TypeOK, Turn, Serving
<1>3. /\ turn'.pc = turn.pc /\ turn'.start = turn.start
      /\ turn'.next_start = turn.next_start /\ turn'.ready = turn.ready
      /\ turn'.todo = turn.todo \ {s}
      /\ turn'.repoll <=> turn.repoll \/ again
      /\ turn'.served <=> turn.served \/ (ran /\ s = watch.source)
  BY <1>1, <1>2, ServeFields, ZenonT(30)
<1> QED
  BY <1>2, <1>3 DEF Frame

\* Which steps serve a source.
LEMMA StarvedServes ==
  ASSUME TypeOK, NEW s \in Sources, NEW n \in 0..8, NEW again \in BOOLEAN, Starved(s, n, again)
  PROVE  Service /\ Frame
<1>1. 0 \in 0..turn.left /\ ~(turn.left >= 8)
  BY DEF TypeOK, Turn, Starved
<1>2. Service
  BY <1>1, Zenon DEF Service, Starved
<1> QED
  BY <1>2, ServiceFrame DEF Starved

\* The commands: one runs when the budget is whole, as TodoBacked says that
\* one can run.
LEMMA CommandsServes ==
  ASSUME TypeOK, TodoBacked, ServeCommands
  PROVE  Service /\ Frame
<1>1. PICK leaves \in 0..turn.left, ran \in BOOLEAN, again \in BOOLEAN :
        /\ NotifySelf(again) /\ Serve("Commands", leaves, ran, again)
        /\ HasRunnable(command, work) /\ turn.left >= 8 => ran
  BY CommandsServed
<1>2. Serving("Commands") /\ HasRunnable(command, work)
  BY DEF ServeCommands, Serving, TodoBacked, InTurn
<1>3. Service
  BY <1>1, <1>2 DEF Service, Sources, ALL
<1>4. woken => woken'
  BY <1>1, Zenon DEF NotifySelf
<1> QED
  BY <1>3, <1>4, ServiceFrame DEF ServeCommands

\* The completion queue, which reserves nothing.
LEMMA CqServes ==
  ASSUME TypeOK, ServeCq
  PROVE  /\ (PollWith(cq).exit # "again" /\ Service) \/ (PollWith(cq).exit = "again" /\ turn' = turn)
         /\ Frame
<1>1. 0 \in 0..turn.left /\ (PollWith(cq).exit = "ready") \in BOOLEAN /\ "Cq" \in Sources
  BY DEF TypeOK, Turn, Sources, ALL
<1>2. ASSUME PollWith(cq).exit # "again" PROVE Service /\ Frame
  <2>1. Service
    BY <1>1, <1>2, Zenon DEF ServeCq, Service
  <2> QED
    BY <2>1, ServiceFrame, Zenon DEF ServeCq
<1>3. ASSUME PollWith(cq).exit = "again" PROVE turn' = turn /\ Frame
  BY <1>3, Zenon DEF ServeCq, Frame, Serving
<1> QED
  BY <1>2, <1>3

\* The dispatch of a completion.
LEMMA DispatchServes ==
  ASSUME TypeOK, ServeCompletionDispatch
  PROVE  Service /\ Frame
<1>1. PICK leaves \in Leaves(3), stays \in BOOLEAN, drained \in BOOLEAN :
        ServeCompletionDispatch!2!(leaves, stays, drained)
  BY Zenon DEF ServeCompletionDispatch
<1>2. leaves \in 0..turn.left /\ (work'.dispatch > 0) \in BOOLEAN
      /\ "CompletionDispatch" \in Sources
  BY <1>1 DEF ServeCompletionDispatch, Leaves, TypeOK, Turn, Sources, ALL
<1>3. Service
  BY <1>1, <1>2, ZenonT(30) DEF Service, ServeCompletionDispatch
<1>4. woken => woken'
  BY <1>1, Zenon DEF NotifySelf
<1> QED
  BY <1>3, <1>4, ServiceFrame DEF ServeCompletionDispatch

\* The CM software work.
LEMMA SoftwareServes ==
  ASSUME TypeOK, ServeCmSoftware
  PROVE  Service /\ Frame
<1>1. PICK leaves \in Leaves(8), retires \in BOOLEAN : ServeCmSoftware!2!(leaves, retires)
  BY Zenon DEF ServeCmSoftware
<1>2. leaves \in 0..turn.left /\ (work'.software > 0) \in BOOLEAN /\ "CmSoftware" \in Sources
  BY <1>1 DEF ServeCmSoftware, Leaves, TypeOK, Turn, Sources, ALL
<1>3. Service
  BY <1>1, <1>2, Zenon DEF Service, ServeCmSoftware
<1> QED
  BY <1>3, ServiceFrame DEF ServeCmSoftware

\* A CM event that is there.
LEMMA EventServes ==
  ASSUME TypeOK, ServeCmEvent
  PROVE  Service /\ Frame
<1>1. PICK leaves \in Leaves(8), listener \in BOOLEAN : ServeCmEvent!4!(leaves, listener)
  BY Zenon DEF ServeCmEvent
<1>2. leaves \in 0..turn.left /\ "CmEvent" \in Sources
  BY <1>1 DEF ServeCmEvent, Leaves, TypeOK, Turn, Sources, ALL
<1>3. Service
  BY <1>1, <1>2, Zenon DEF Service, ServeCmEvent
<1> QED
  BY <1>3, ServiceFrame DEF ServeCmEvent

\* A destruction, which runs only behind a channel seen empty.
LEMMA DestructionServes ==
  ASSUME TypeOK, ServeCmDestruction
  PROVE  Service /\ Frame
<1>1. /\ 0 \in 0..turn.left /\ \A n \in Leaves(8) : n \in 0..turn.left
      /\ (work'.destroy > 0) \in BOOLEAN /\ "CmDestruction" \in Sources
  <2>1. turn.left >= 8
    BY Zenon DEF ServeCmDestruction
  <2>2. turn.left \in Nat
    BY DEF TypeOK, Turn
  <2> QED
    BY <2>1, <2>2 DEF Leaves, Sources, ALL
<1>2. Service
  BY <1>1, Zenon DEF Service, ServeCmDestruction
<1> QED
  BY <1>2, ServiceFrame, Zenon DEF ServeCmDestruction

\* The two queues of deadlines.
LEMMA DeadlinesServe ==
  ASSUME TypeOK, ServeDeadlineIngress \/ ServeDeadline
  PROVE  Service /\ Frame
<1>1. ASSUME ServeDeadlineIngress PROVE Service /\ Frame
  <2>1. 0 \in 0..turn.left /\ (work'.ingress # {}) \in BOOLEAN /\ "DeadlineIngress" \in Sources
    BY SMTT(30) DEF TypeOK, Turn, Sources, ALL
  <2>2. Service
    BY <1>1, <2>1, ZenonT(30) DEF Service, ServeDeadlineIngress
  <2> QED
    BY <1>1, <2>2, ServiceFrame, Zenon DEF ServeDeadlineIngress
<1>2. ASSUME ServeDeadline PROVE Service /\ Frame
  <2>1. PICK leaves \in Leaves(2), again \in SUBSET {i \in Instants : i >= world.now} :
          ServeDeadline!2!(leaves, again)
    BY <1>2, Zenon DEF ServeDeadline
  <2>2. leaves \in 0..turn.left /\ Due(work) \in BOOLEAN /\ "Deadline" \in Sources
    <3>1. leaves \in 0..turn.left
      <4>1. turn.left >= 2
        BY <1>2, ZenonT(30) DEF ServeDeadline
      <4> QED
        BY <4>1, <2>1 DEF Leaves, TypeOK, Turn
    <3> QED
      BY <3>1 DEF Due, Sources, ALL
  <2>3. Service
    BY <1>2, <2>1, <2>2, Zenon DEF Service, ServeDeadline
  <2> QED
    BY <1>2, <2>3, ServiceFrame, ZenonT(30) DEF ServeDeadline
<1> QED
  BY <1>1, <1>2, SMTT(30)

\* The steps at the CM descriptor.
LEMMA CmSteps ==
  ASSUME TypeOK, ServeCmEventBlocked \/ CmFdPending \/ CmFdGuard \/ CmTryEvent
                   \/ CmTryBlocked \/ CmClearReady
  PROVE  /\ Frame /\ UNCHANGED <<command, signal, woken, cq>>
         /\ turn'.pc # "turn" => turn'.todo = turn.todo /\ turn'.left = turn.left
                                   /\ turn'.would_block = turn.would_block
                                   /\ turn'.served = turn.served
         /\ turn'.pc = "turn" =>
              /\ turn.pc \in {"cm_fd", "cm_try"} /\ turn'.todo = turn.todo \ {"CmEvent"}
              /\ watch.source = "CmEvent" => turn'.served
              /\ IF turn.pc = "cm_fd"
                 THEN turn'.would_block /\ turn'.left = turn.left
                 ELSE turn'.would_block = turn.would_block
<1>1. CASE ServeCmEventBlocked \/ CmFdGuard \/ CmTryBlocked \/ CmClearReady
  BY <1>1 DEF TypeOK, Turn, ServeCmEventBlocked, CmFdGuard, CmTryBlocked, CmClearReady, Frame
<1>2. CASE CmFdPending
  BY <1>2, Zenon DEF TypeOK, Turn, CmFdPending, Frame
<1>3. CASE CmTryEvent
  <2>1. PICK leaves \in Leaves(8), listener \in BOOLEAN : CmTryEvent!3!(leaves, listener)
    BY <1>3, ZenonT(30) DEF CmTryEvent
  <2>2. turn.pc = "cm_try" /\ UNCHANGED <<world, client, command, signal, woken, cq, timer, watch>>
    BY <1>3, Zenon DEF CmTryEvent
  <2> QED
    BY <2>1, <2>2, ZenonT(30) DEF TypeOK, Turn, Frame
<1> QED
  BY <1>1, <1>2, <1>3

\* The cases of a step of a turn.
LEMMA TurnSteps ==
  ASSUME TypeOK, TodoBacked, ServeSource
  PROVE  /\ Frame
         /\ \/ Service
            \/ ServeCq /\ turn' = turn
            \/ ServeCmEventBlocked \/ CmFdPending \/ CmFdGuard \/ CmTryEvent
               \/ CmTryBlocked \/ CmClearReady
<1>1. {"CompletionDispatch", "CmSoftware", "CmEvent", "CmDestruction", "Deadline"} \subseteq Sources
  BY DEF Sources, ALL
<1>2. ASSUME \/ Starved("CompletionDispatch", 3, TRUE) \/ Starved("CmSoftware", 8, TRUE)
             \/ Starved("CmEvent", 8, TRUE) \/ Starved("CmDestruction", 8, TRUE)
             \/ Starved("Deadline", 2, FALSE)
      PROVE  Service /\ Frame
  <2>1. 2 \in 0..8 /\ 3 \in 0..8 /\ 8 \in 0..8
    OBVIOUS
  <2> QED
    BY <1>1, <1>2, <2>1, StarvedServes, Zenon
<1> QED
  BY <1>2, CommandsServes, CqServes, DispatchServes, SoftwareServes, EventServes,
     DestructionServes, DeadlinesServe, CmSteps, Zenon
  DEF ServeSource

-----------------------------------------------------------------------------
\* Steps that leave the turn alone, and steps that begin or end a poll.
Outside ==
  \/ ClientNext \/ WorldNext \/ UNCHANGED vars

\* The clients and the world leave the turn and the internal work alone, and
\* only add commands.
LEMMA OutsideKeepsTurn ==
  ASSUME TypeOK, Outside
  PROVE  /\ UNCHANGED <<work, turn, timer, watch>> /\ cm'.deferred = cm.deferred
         /\ command'.close >= command.close /\ command'.listen >= command.listen
         /\ command'.operation >= command.operation
         /\ woken => woken'
<1>1. CASE ClientNext
  <2>1. ASSUME NEW p \in Producers, NEW kind \in {"close", "listen", "operation"}, Enqueue(p, kind)
        PROVE  /\ UNCHANGED <<work, turn, timer, watch, cm, woken>>
               /\ command'.close >= command.close /\ command'.listen >= command.listen
               /\ command'.operation >= command.operation
    BY <2>1 DEF Enqueue, TypeOK, CommandQueues
  <2>2. ASSUME NEW p \in Producers, NotifyPending(p) \/ NotifyEpoch(p) \/ NotifyWake(p)
        PROVE  UNCHANGED <<work, turn, timer, watch, cm, command>> /\ (woken => woken')
    BY <2>2 DEF NotifyPending, NotifyEpoch, NotifyWake, TypeOK
  <2> QED
    BY <1>1, <2>1, <2>2 DEF ClientNext, TypeOK, CommandQueues
<1>2. CASE WorldNext
  <2>1. UNCHANGED <<work, turn, timer, watch, command>>
    BY <1>2, Zenon DEF WorldNext, CompletionArrives, EventArrives, CqFdReady, CmFdReady, Elapse
  <2>2. cm'.deferred = cm.deferred
    BY <1>2, Zenon DEF WorldNext, CompletionArrives, EventArrives, CqFdReady, CmFdReady, Elapse, TypeOK,
                CmChannel
  <2>3. woken => woken'
    BY <1>2, Zenon DEF WorldNext, CompletionArrives, EventArrives, CqFdReady, CmFdReady, Elapse
  <2> QED
    BY <2>1, <2>2, <2>3 DEF TypeOK, CommandQueues
<1>3. CASE UNCHANGED vars
  BY <1>3 DEF vars, TypeOK, CommandQueues
<1> QED
  BY <1>1, <1>2, <1>3 DEF Outside

\* Runnable commands stay runnable while others are added.
LEMMA MoreRunnable ==
  ASSUME TypeOK, TypeOK', Outside, HasRunnable(command, work)
  PROVE  HasRunnable(command', work')
  BY OutsideKeepsTurn DEF HasRunnable, TypeOK, CommandQueues

\* A step of a turn takes work only from the source it serves.
WorkKept ==
  /\ "Commands" \in turn'.todo => command' = command /\ (work.slot => work'.slot)
  /\ "CompletionDispatch" \in turn'.todo => work'.dispatch >= work.dispatch
  /\ "CmSoftware" \in turn'.todo => work'.software >= work.software
  /\ "CmDestruction" \in turn'.todo => work'.destroy >= work.destroy

\* Every step of a turn keeps the work of the other sources.
LEMMA ServeTakesOwn ==
  ASSUME TypeOK, TodoBacked, ServeSource
  PROVE  WorkKept
<1> USE DEF WorkKept
<1>1. work \in Work /\ turn \in Turn /\ work.dispatch \in Nat /\ work.software \in Nat
      /\ work.destroy \in Nat
  BY DEF TypeOK, Work
<1>2. ASSUME NEW s, NEW leaves, NEW ran, NEW again, Serve(s, leaves, ran, again)
      PROVE  s \notin turn'.todo
  BY <1>1, <1>2 DEF Serve, Turn
<1>3. CASE ServeCommands
  <2>1. "Commands" \notin turn'.todo
    BY <1>2, <1>3, CommandsServed
  <2> QED
    BY <1>1, <1>3, <2>1, CommandsServed
<1>4. CASE ServeCq
  BY <1>1, <1>4, MoreIsMore DEF ServeCq, Work
<1>5. CASE ServeCompletionDispatch
  <2>1. PICK leaves \in Leaves(3), stays \in BOOLEAN, drained \in BOOLEAN :
          ServeCompletionDispatch!2!(leaves, stays, drained)
    BY <1>5, Zenon DEF ServeCompletionDispatch
  <2>2. "CompletionDispatch" \notin turn'.todo /\ command' = command
    BY <1>2, <1>5, <2>1, Zenon DEF ServeCompletionDispatch
  <2> QED
    BY <1>1, <2>1, <2>2, MoreIsMore, SMTT(30) DEF Work
<1>6. CASE ServeCmSoftware
  <2>1. PICK leaves \in Leaves(8), retires \in BOOLEAN : ServeCmSoftware!2!(leaves, retires)
    BY <1>6, Zenon DEF ServeCmSoftware
  <2>2. "CmSoftware" \notin turn'.todo /\ command' = command
    BY <1>2, <1>6, <2>1, ZenonT(30) DEF ServeCmSoftware
  <2> QED
    BY <1>1, <2>1, <2>2, MoreIsMore DEF Work
<1>7. CASE ServeCmEvent
  BY <1>1, <1>7, MoreIsMore DEF ServeCmEvent, Work
<1>8. CASE CmTryEvent
  BY <1>1, <1>8, MoreIsMore DEF CmTryEvent, Work
<1>9. CASE ServeCmDestruction
  <2>1. "CmDestruction" \notin turn'.todo /\ command' = command
    BY <1>2, <1>9, Zenon DEF ServeCmDestruction
  <2>2. \/ work' = work
        \/ \E listener \in BOOLEAN :
             work' = [work EXCEPT !.destroy = @ - 1, !.slot = @ \/ listener]
    BY <1>9, Zenon DEF ServeCmDestruction
  <2>3. ASSUME NEW listener \in BOOLEAN,
               work' = [work EXCEPT !.destroy = @ - 1, !.slot = @ \/ listener]
        PROVE  /\ work'.dispatch = work.dispatch /\ work'.software = work.software
               /\ work.slot => work'.slot
    BY <1>1, <2>3 DEF Work
  <2>4. /\ work'.dispatch = work.dispatch /\ work'.software = work.software
        /\ work.slot => work'.slot
    BY <2>2, <2>3, Zenon
  <2> QED
    BY <1>1, <2>1, <2>4
<1>10. CASE ServeDeadlineIngress \/ ServeDeadline
  <2>1. command' = command
    BY <1>10, Zenon DEF ServeDeadlineIngress, ServeDeadline
  <2>2. \/ \E at \in work.ingress :
             work' = [work EXCEPT !.ingress = @ \ {at}, !.heap = @ \cup {at}]
        \/ \E again : work' = [work EXCEPT !.due = 0, !.ingress = @ \cup again]
    BY <1>10, ZenonT(30) DEF ServeDeadlineIngress, ServeDeadline
  <2>3. /\ work'.dispatch = work.dispatch /\ work'.software = work.software
        /\ work'.destroy = work.destroy /\ work'.slot = work.slot
    BY <1>1, <2>2, Zenon DEF Work
  <2> QED
    BY <1>1, <2>1, <2>3
<1>11. CASE command' = command /\ work' = work
  BY <1>1, <1>11
<1> QED
  BY <1>3, <1>4, <1>5, <1>6, <1>7, <1>8, <1>9, <1>10, <1>11, Zenon
  DEF ServeSource, Starved, ServeCmEventBlocked, CmFdPending, CmFdGuard, CmTryBlocked, CmClearReady

\* Every step keeps TodoBacked: nothing takes the work of a source before the
\* turn comes to it.
LEMMA TodoStep == TypeOK /\ TodoBacked /\ [Next]_vars => TodoBacked'
<1> SUFFICES ASSUME TypeOK, TodoBacked, [Next]_vars PROVE TodoBacked'
  OBVIOUS
<1>1. CASE Outside
  BY <1>1, TypeStep, OutsideKeepsTurn, MoreRunnable DEF TodoBacked, InTurn, AtCm
<1>2. CASE StartPoll \/ ObserveEpoch \/ TakePending \/ EndTurn \/ PollTimer \/ RegisterWaker
             \/ RetakePending
  BY <1>2, Zenon DEF TodoBacked, InTurn, AtCm, TypeOK, Turn, StartPoll, ObserveEpoch, TakePending, EndTurn,
              PollTimer, RegisterWaker, RetakePending
<1>3. CASE RecheckEpoch
  BY <1>3 DEF TodoBacked, InTurn, AtCm, NoTurn, RecheckEpoch
<1>4. CASE Snapshot
  BY <1>4 DEF TodoBacked, InTurn, AtCm, NoTurn, Snapshot, Ready, BeginTurn
<1>5. CASE ServeSource
  <2>1. Frame /\ WorkKept /\ TypeOK'
    BY <1>5, TurnSteps, ServeTakesOwn, TypeStep DEF Next, DriverNext
  <2>2. InTurn
    BY <1>5, TurnSteps, Zenon DEF InTurn, AtCm, Service, Serving, ServeCq, ServeCmEventBlocked, CmFdPending,
                           CmFdGuard, CmTryEvent, CmTryBlocked, CmClearReady
  <2>3. /\ "Commands" \in turn'.todo => HasRunnable(command', work')
        /\ "CompletionDispatch" \in turn'.todo => work'.dispatch > 0
        /\ "CmSoftware" \in turn'.todo => work'.software > 0
        /\ "CmDestruction" \in turn'.todo => work'.destroy > 0
    BY <2>1, <2>2 DEF Frame, WorkKept, TodoBacked, HasRunnable, TypeOK, Work
  <2>4. AtCm' => /\ "CmEvent" \in turn'.todo /\ turn'.left >= 8
                 /\ \A r \in turn'.todo : Offset(turn'.start, "CmEvent") <= Offset(turn'.start, r)
    <3>1. CASE Service
      BY <3>1, ServeFields DEF Service, Serving, AtCm, TypeOK, Turn
    <3>2. CASE ServeCq /\ turn' = turn
      BY <3>2 DEF ServeCq, Serving, AtCm
    <3>3. CASE ServeCmEventBlocked
      BY <3>3, CmSteps DEF ServeCmEventBlocked, Serving, AtCm, Frame
    <3>4. CASE CmFdPending \/ CmFdGuard \/ CmTryEvent \/ CmTryBlocked \/ CmClearReady
      <4>1. AtCm
        BY <3>4, Zenon DEF AtCm, CmFdPending, CmFdGuard, CmTryEvent, CmTryBlocked, CmClearReady
      <4> QED
        BY <3>4, <4>1, CmSteps, SMTT(30) DEF TodoBacked, AtCm, Frame
    <3> QED
      BY <1>5, TurnSteps, <3>1, <3>2, <3>3, <3>4
  <2> QED
    BY <2>3, <2>4 DEF TodoBacked
<1> QED
  BY <1>1, <1>2, <1>3, <1>4, <1>5 DEF Next, DriverNext, Outside

-----------------------------------------------------------------------------
(***************************************************************************)
(* One lemma for each conjunct of the invariant that speaks of waking.     *)
(***************************************************************************)
\* In a turn nothing is claimed about the end of the poll.
LEMMA ServeStaysInTurn ==
  ASSUME TypeOK, TodoBacked, ServeSource
  PROVE  InTurn /\ InTurn' /\ ~BeforeRetake' /\ ~AfterRetake'
<1>1. Frame
  BY TurnSteps, SMTT(30)
<1>2. InTurn
  BY TurnSteps, Zenon DEF InTurn, AtCm, Service, Serving, ServeCq, ServeCmEventBlocked, CmFdPending,
                   CmFdGuard, CmTryEvent, CmTryBlocked, CmClearReady
<1> QED
  BY <1>1, <1>2 DEF Frame, InTurn, AtCm, BeforeRetake, AfterRetake

\* The steps of the poll outside the turn, by where they lead.
LEMMA PollSteps ==
  ASSUME TypeOK
  PROVE  /\ StartPoll => turn.pc = "parked" /\ turn'.pc = "observe"
         /\ ObserveEpoch => turn.pc = "observe" /\ turn'.pc = "take"
         /\ TakePending => turn.pc = "take" /\ turn'.pc = "snapshot"
         /\ Snapshot => turn.pc = "snapshot" /\ turn'.pc = "turn"
         /\ EndTurn => turn.pc = "turn" /\ turn'.pc = "timer"
         /\ PollTimer => turn.pc = "timer" /\ turn'.pc = "register" /\ turn'.repoll = turn.repoll
         /\ RegisterWaker => turn.pc = "register" /\ turn'.pc = "retake"
                             /\ turn'.repoll = turn.repoll
         /\ RetakePending => turn.pc = "retake" /\ turn'.pc = "recheck"
         /\ RecheckEpoch => turn.pc = "recheck" /\ turn'.pc = "parked"
  BY Zenon DEF TypeOK, Turn, NoTurn, StartPoll, ObserveEpoch, TakePending, Snapshot, EndTurn, PollTimer,
         RegisterWaker, RetakePending, RecheckEpoch

\* Every step keeps WakerKept: the waker leaves the signal only by a wake.
LEMMA WakerStep == TypeOK /\ TodoBacked /\ WakerKept /\ [Next]_vars => WakerKept'
<1> SUFFICES ASSUME TypeOK, TodoBacked, WakerKept, [Next]_vars PROVE WakerKept'
  OBVIOUS
<1> USE DEF WakerKept
<1>1. CASE Outside
  <2>1. turn' = turn /\ (woken => woken')
    BY <1>1, OutsideKeepsTurn
  <2>2. signal.waker => signal'.waker \/ woken'
    BY <1>1 DEF Outside, ClientNext, WorldNext, vars, Enqueue, NotifyPending, NotifyEpoch, NotifyWake,
                CompletionArrives, EventArrives, CqFdReady, CmFdReady, Elapse, TypeOK, Signal
  <2> QED
    BY <2>1, <2>2
<1>2. CASE StartPoll \/ ObserveEpoch \/ TakePending \/ Snapshot \/ EndTurn \/ PollTimer
  BY <1>2, PollSteps
<1>3. CASE RegisterWaker \/ RetakePending \/ RecheckEpoch
  BY <1>3, PollSteps DEF RegisterWaker, RetakePending, RecheckEpoch, TypeOK, Signal
<1>4. CASE ServeSource
  BY <1>4, ServeStaysInTurn, SMTT(30) DEF InTurn, AtCm
<1> QED
  BY <1>1, <1>2, <1>3, <1>4 DEF Next, DriverNext, Outside

\* Every step keeps CommandsHeard: a command published at any point of the
\* poll is seen by the turn, by the epoch, or by the wake of its client.
LEMMA CommandStep ==
  TypeOK /\ TodoBacked /\ WakerKept /\ CommandsHeard /\ [Next]_vars => CommandsHeard'
<1> SUFFICES ASSUME TypeOK, TodoBacked, WakerKept, CommandsHeard, [Next]_vars
             PROVE  CommandsHeard'
  OBVIOUS
<1> USE DEF CommandsHeard, BeforeRetake, AfterRetake, InTurn, AtCm, PolledAgain
<1>1. ASSUME NEW p \in Producers, NEW kind \in {"close", "listen", "operation"}, Enqueue(p, kind)
      PROVE  CommandsHeard'
  BY <1>1 DEF Enqueue, TypeOK, Clients
<1>2. ASSUME NEW p \in Producers, NotifyPending(p) PROVE CommandsHeard'
  BY <1>2 DEF NotifyPending, TypeOK, Clients, Signal
<1>3. ASSUME NEW p \in Producers, NotifyEpoch(p) PROVE CommandsHeard'
  BY <1>3 DEF NotifyEpoch, TypeOK, Clients, Signal
<1>4. ASSUME NEW p \in Producers, NotifyWake(p) PROVE CommandsHeard'
  BY <1>4 DEF NotifyWake, TypeOK, Clients, Signal, WakerKept
<1>5. CASE WorldNext \/ UNCHANGED vars
  <2>1. UNCHANGED <<command, work, turn, client, signal>> /\ (woken => woken')
    BY <1>5, OutsideKeepsTurn DEF Outside, vars, WorldNext, CompletionArrives, EventArrives,
                                  CqFdReady, CmFdReady, Elapse
  <2> QED
    BY <2>1
<1>6. CASE StartPoll \/ ObserveEpoch \/ TakePending \/ Snapshot
  BY <1>6, PollSteps
<1>7. CASE EndTurn
  BY <1>7, PollSteps, Zenon DEF EndTurn, TypeOK, Turn, WorkRemains
<1>8. CASE PollTimer \/ RegisterWaker
  BY <1>8, PollSteps DEF PollTimer, RegisterWaker, TypeOK, Signal
<1>9. CASE RetakePending
  BY <1>9, PollSteps, Zenon DEF RetakePending, TypeOK, Signal
<1>10. CASE RecheckEpoch
  BY <1>10, PollSteps DEF RecheckEpoch, TypeOK, Signal, Clients
<1>11. CASE ServeSource
  BY <1>11, ServeStaysInTurn
<1> QED
  BY <1>1, <1>2, <1>3, <1>4, <1>5, <1>6, <1>7, <1>8, <1>9, <1>10, <1>11, Zenon
  DEF Next, ClientNext, DriverNext

\* Every step keeps WorkSeen: internal work that a turn leaves makes it ask
\* for another poll.
LEMMA WorkStep == TypeOK /\ TodoBacked /\ WorkSeen /\ [Next]_vars => WorkSeen'
<1> SUFFICES ASSUME TypeOK, TodoBacked, WorkSeen, [Next]_vars PROVE WorkSeen'
  OBVIOUS
<1> USE DEF WorkSeen, NoInternalWork, BeforeRetake, AfterRetake, InTurn, AtCm, PolledAgain
<1>1. CASE Outside
  BY <1>1, OutsideKeepsTurn
<1>2. CASE StartPoll \/ ObserveEpoch \/ TakePending \/ Snapshot
  BY <1>2, PollSteps
<1>3. CASE EndTurn
  <2>1. (turn'.repoll <=> turn.repoll \/ WorkRemains(command, cm, work)) /\ UNCHANGED <<cm, work>>
    BY <1>3, Zenon DEF EndTurn, TypeOK, Turn
  <2>2. ~WorkRemains(command, cm, work) => NoInternalWork
    BY DEF WorkRemains, TypeOK, Work
  <2> QED
    BY <1>3, <2>1, <2>2, PollSteps
<1>4. CASE PollTimer \/ RegisterWaker
  BY <1>4, PollSteps, Zenon DEF PollTimer, RegisterWaker
<1>5. CASE RetakePending \/ RecheckEpoch
  BY <1>5, PollSteps, Zenon DEF RetakePending, RecheckEpoch
<1>6. CASE ServeSource
  BY <1>6, ServeStaysInTurn
<1> QED
  BY <1>1, <1>2, <1>3, <1>4, <1>5, <1>6 DEF Next, DriverNext, Outside

\* Every step keeps TimerSet: the timer is polled for the first deadline
\* before the driver returns Pending.
LEMMA TimerStep == TypeOK /\ TodoBacked /\ TimerSet /\ [Next]_vars => TimerSet'
<1> SUFFICES ASSUME TypeOK, TodoBacked, TimerSet, [Next]_vars PROVE TimerSet'
  OBVIOUS
<1> USE DEF TimerSet
<1>1. CASE Elapse
  <2>1. UNCHANGED <<work, turn, timer>> /\ (woken => woken') /\ world'.now = world.now + 1
    BY <1>1, ArrivalTyped, OutsideKeepsTurn DEF Elapse, Outside, WorldNext, TypeOK, Arrivals
  <2>2. timer.polled /\ timer.at = world.now + 1 => woken'
    BY <1>1, Zenon DEF Elapse, TypeOK
  <2>3. work.heap # {} => Min(work.heap) \in Nat
    BY MinIsLeast DEF TypeOK, Work, Instants
  <2>4. world.now \in Nat
    BY DEF TypeOK, World, Instants
  <2> QED
    BY <2>1, <2>2, <2>3, <2>4, SMTT(30)
<1>2. CASE Outside /\ ~Elapse
  <2>1. UNCHANGED <<work, turn, timer>> /\ (woken => woken')
    BY <1>2, OutsideKeepsTurn
  <2>2. world'.now = world.now
    <3>1. ASSUME NEW kind \in Arrivals, kind # "instant", Arrival(kind)
          PROVE  world'.now = world.now
      BY <3>1, ArrivalTyped DEF TypeOK
    <3> QED
      BY <1>2, <3>1 DEF Outside, ClientNext, WorldNext, vars, Enqueue, NotifyPending, NotifyEpoch,
                        NotifyWake, CompletionArrives, EventArrives, CqFdReady, CmFdReady, Arrivals
  <2> QED
    BY <2>1, <2>2
<1>3. CASE StartPoll \/ ObserveEpoch \/ TakePending \/ Snapshot \/ EndTurn
  BY <1>3, PollSteps
<1>4. CASE PollTimer
  <2>1. CASE Fired
    BY <1>4, <2>1, Zenon DEF PollTimer
  <2>2. CASE ~Fired
    <3>1. timer' = [at |-> NextDeadline(work), polled |-> work.heap # {}]
          /\ UNCHANGED <<work, world>>
      BY <1>4, <2>2 DEF PollTimer, PollDeadlineTimer
    <3>2. work.heap # {} => NextDeadline(work) = Min(work.heap) /\ Min(work.heap) \in Nat
      BY MinIsLeast DEF NextDeadline, TypeOK, Work, Instants
    <3>3. world.now \in Nat
      BY DEF TypeOK, World, Instants
    <3>4. work.heap # {} => timer'.at = Min(work.heap) /\ timer'.polled
      BY <3>1, <3>2, Zenon
    <3>5. work.heap # {} => world.now < Min(work.heap)
      BY <2>2, <3>2, <3>3 DEF Fired
    <3> QED
      BY <3>1, <3>4, <3>5
  <2> QED
    BY <2>1, <2>2
<1>5. CASE RegisterWaker \/ RetakePending \/ RecheckEpoch
  BY <1>5, PollSteps, Zenon DEF RegisterWaker, RetakePending, RecheckEpoch
<1>6. CASE ServeSource
  BY <1>6, ServeStaysInTurn DEF InTurn, AtCm
<1> QED
  BY <1>1, <1>2, <1>3, <1>4, <1>5, <1>6 DEF Next, DriverNext, Outside

\* Only a service of the queue, the NIC and tokio change the queue.
LEMMA CqChanges ==
  ASSUME [Next]_vars
  PROVE  UNCHANGED cq \/ CompletionArrives \/ CqFdReady \/ ServeCq
  BY Zenon
  DEF Next, ClientNext, WorldNext, DriverNext, ServeSource, vars, Enqueue, NotifyPending,
      NotifyEpoch, NotifyWake, EventArrives, CmFdReady, Elapse, StartPoll, ObserveEpoch,
      TakePending, Snapshot, ServeCommands, ServeCompletionDispatch, Starved, ServeCmSoftware,
      ServeCmEvent, ServeCmEventBlocked, CmFdPending, CmFdGuard, CmTryEvent, CmTryBlocked,
      CmClearReady, ServeCmDestruction, ServeDeadlineIngress, ServeDeadline, EndTurn, PollTimer,
      RegisterWaker, RetakePending, RecheckEpoch

\* Every step keeps CqSound: the poll after arming closes the window between
\* the first poll and the arming.
LEMMA CqStep == TypeOK /\ CqSound /\ [Next]_vars => CqSound'
<1> SUFFICES ASSUME TypeOK, CqSound, [Next]_vars PROVE CqSound'
  OBVIOUS
<1> USE DEF CqSound
<1>1. cq \in Cq /\ cq.fd \in AsyncFd /\ cq.cqes \in Nat /\ cq.state \in PollState
  BY ReactorAssumption DEF TypeOK, Cq
<1>2. CASE CompletionArrives
  BY <1>1, <1>2 DEF CompletionArrives, Completed, Signalled, Cq, AsyncFd
<1>3. CASE CqFdReady
  BY <1>1, <1>3 DEF CqFdReady, Delivered, Cq
<1>4. CASE ServeCq
  <2>1. CASE cq.state \in {"PollBeforeArm", "PollAfterArm"}
    BY <1>1, <1>4, <2>1 DEF ServeCq, PollWith, PolledCq, Cq
  <2>2. CASE cq.state = "Arm"
    BY <1>1, <1>4, <2>2, Zenon DEF ServeCq, PollWith, Armed, Cq
  <2>3. CASE cq.state = "WaitingFd"
    BY <1>1, <1>4, <2>3 DEF ServeCq, PollWith, Waited, ReadReady, Cq, AsyncFd
  <2>4. CASE cq.state = "DrainFd"
    BY <1>1, <1>4, <2>4 DEF ServeCq, PollWith, Drained, Cq
  <2> QED
    BY <1>1, <2>1, <2>2, <2>3, <2>4 DEF PollState
<1>5. CASE UNCHANGED cq
  BY <1>5
<1> QED
  BY <1>2, <1>3, <1>4, <1>5, CqChanges

\* A source leaves the turn by its own service.
LEMMA OnlyOwnSource ==
  ASSUME TypeOK, ServeSource, NEW s \in {"Cq", "CmEvent"}, s \in turn.todo, s \notin turn'.todo
  PROVE  IF s = "Cq" THEN ServeCq
         ELSE Starved("CmEvent", 8, TRUE) \/ ServeCmEvent \/ CmFdPending \/ CmTryEvent
<1>1. ASSUME NEW r, NEW leaves, NEW ran, NEW again, Serve(r, leaves, ran, again)
      PROVE  r = s
  BY <1>1 DEF Serve, TypeOK, Turn
<1>2. turn' # turn
  OBVIOUS
<1>3. /\ ~ServeCommands /\ ~ServeCompletionDispatch /\ ~ServeCmSoftware
      /\ ~ServeDeadlineIngress /\ ~ServeDeadline
  <2>1. ~ServeCommands
    BY <1>1, CommandsServed, Zenon
  <2>2. ~ServeCompletionDispatch /\ ~ServeCmSoftware
    BY <1>1, Zenon DEF ServeCompletionDispatch, ServeCmSoftware
  <2>3. ~ServeDeadlineIngress /\ ~ServeDeadline
    BY <1>1, Zenon DEF ServeDeadlineIngress, ServeDeadline
  <2> QED
    BY <2>1, <2>2, <2>3
<1>4. ~ServeCmDestruction
  BY <1>1, Zenon DEF ServeCmDestruction
<1>5. ~Starved("CompletionDispatch", 3, TRUE) /\ ~Starved("CmSoftware", 8, TRUE)
      /\ ~Starved("CmDestruction", 8, TRUE) /\ ~Starved("Deadline", 2, FALSE)
  BY <1>1, Zenon DEF Starved
<1>6. ~ServeCmEventBlocked /\ ~CmFdGuard /\ ~CmTryBlocked /\ ~CmClearReady
  BY DEF ServeCmEventBlocked, CmFdGuard, CmTryBlocked, CmClearReady, TypeOK, Turn
<1>7. s = "Cq" => ~Starved("CmEvent", 8, TRUE) /\ ~ServeCmEvent
  BY <1>1, Zenon DEF Starved, ServeCmEvent
<1>8. s = "Cq" => ~CmFdPending /\ ~CmTryEvent
  <2>1. CmFdPending \/ CmTryEvent => turn'.todo \in {turn.todo, turn.todo \ {"CmEvent"}}
    BY CmSteps
  <2> QED
    BY <2>1
<1>9. s = "CmEvent" => ~ServeCq
  BY <1>1, <1>2, Zenon DEF ServeCq
<1> QED
  BY <1>3, <1>4, <1>5, <1>6, <1>7, <1>8, <1>9, Zenon DEF ServeSource

\* How a service of the queue leaves the loop.
LEMMA CqExits ==
  ASSUME TypeOK, ServeCq
  PROVE  \/ turn' = turn \/ woken' \/ turn'.repoll
         \/ cq'.state = "WaitingFd" /\ cq'.fd.waker /\ ~cq'.fd.ready
<1>1. cq \in Cq /\ cq.fd \in AsyncFd /\ cq.state \in PollState
  BY DEF TypeOK, Cq
<1> DEFINE r == PollWith(cq)
<1>2. /\ cq' = r.cq /\ (r.exit = "again" => turn' = turn)
      /\ r.exit = "rewoken" => woken'
  BY Zenon DEF ServeCq
<1>3. r.exit = "ready" => turn'.repoll
  <2>1. r.exit = "ready" => Serve("Cq", 0, TRUE, TRUE)
    BY Zenon DEF ServeCq
  <2> QED
    BY <2>1, ServeFields, Zenon DEF TypeOK
<1>4. \/ r.exit \in {"again", "rewoken", "ready"}
      \/ r.exit = "pending" /\ r.cq.state = "WaitingFd" /\ r.cq.fd.waker /\ ~r.cq.fd.ready
  <2>1. CASE cq.state \in {"PollBeforeArm", "PollAfterArm"}
    BY <2>1 DEF PollWith, PolledCq
  <2>2. CASE cq.state = "Arm"
    BY <2>2 DEF PollWith, Armed
  <2>3. CASE cq.state = "WaitingFd"
    BY <1>1, <2>3 DEF PollWith, Waited, ReadReady, Cq, AsyncFd
  <2>4. CASE cq.state = "DrainFd"
    BY <2>4, SMTT(30) DEF PollWith, Drained
  <2> QED
    BY <1>1, <2>1, <2>2, <2>3, <2>4 DEF PollState
<1> HIDE DEF r
<1> QED
  BY <1>2, <1>3, <1>4

\* Every step keeps CqWaits: a service of the queue ends with a completion, a
\* wake of its own, or the waker at the descriptor.
LEMMA CqWaitStep == TypeOK /\ TodoBacked /\ CqWaits /\ [Next]_vars => CqWaits'
<1> SUFFICES ASSUME TypeOK, TodoBacked, CqWaits, [Next]_vars PROVE CqWaits'
  OBVIOUS
<1> DEFINE waits == cq.state = "WaitingFd" /\ cq.fd.waker /\ ~cq.fd.ready
<1> USE DEF CqWaits, BeforeRetake, AfterRetake, InTurn, AtCm, PolledAgain
<1>1. CASE Outside
  <2>1. turn' = turn /\ (woken => woken')
    BY <1>1, OutsideKeepsTurn
  <2>2. waits => waits' \/ woken'
    <3>1. CASE UNCHANGED cq
      BY <3>1
    <3>2. CASE CompletionArrives
      BY <3>2 DEF CompletionArrives, Completed, Signalled, TypeOK, Cq, AsyncFd
    <3>3. CASE CqFdReady
      BY <3>3, Zenon DEF CqFdReady
    <3> QED
      BY <1>1, <3>1, <3>2, <3>3, Zenon
      DEF Outside, ClientNext, WorldNext, vars, Enqueue, NotifyPending, NotifyEpoch, NotifyWake,
          EventArrives, CmFdReady, Elapse
  <2> QED
    BY <2>1, <2>2
<1>2. CASE StartPoll \/ ObserveEpoch \/ TakePending
  BY <1>2, PollSteps
<1>3. CASE Snapshot
  BY <1>3, PollSteps DEF Snapshot, NoTurn, BeginTurn, Ready
<1>4. CASE EndTurn
  BY <1>4, PollSteps DEF EndTurn, TypeOK, Turn
<1>5. CASE PollTimer \/ RegisterWaker
  BY <1>5, PollSteps, Zenon DEF PollTimer, RegisterWaker
<1>6. CASE RetakePending \/ RecheckEpoch
  BY <1>6, PollSteps, Zenon DEF RetakePending, RecheckEpoch
<1>7. CASE ServeSource
  <2>1. Frame /\ InTurn /\ InTurn' /\ ~BeforeRetake' /\ ~AfterRetake'
    BY <1>7, TurnSteps, ServeStaysInTurn
  <2>2. CASE ServeCq
    BY <2>1, <2>2, CqExits, Zenon DEF Frame, ServeCq, Serving
  <2>3. CASE ~ServeCq
    <3>1. "Cq" \in turn.todo => "Cq" \in turn'.todo
      BY <1>7, <2>3, OnlyOwnSource
    <3>2. UNCHANGED cq
      BY <1>7, <2>3, Zenon DEF ServeSource, ServeCommands, ServeCompletionDispatch, Starved,
        ServeCmSoftware, ServeCmEvent, ServeCmEventBlocked, CmFdPending, CmFdGuard, CmTryEvent,
        CmTryBlocked, CmClearReady, ServeCmDestruction, ServeDeadlineIngress, ServeDeadline
    <3> QED
      BY <2>1, <3>1, <3>2 DEF Frame
  <2> QED
    BY <2>2, <2>3
<1> QED
  BY <1>1, <1>2, <1>3, <1>4, <1>5, <1>6, <1>7, ZenonT(30) DEF Next, DriverNext, Outside

\* The CM channel is changed by the CM, by tokio, and by the services of its
\* events and of a destruction.
LEMMA CmStep == TypeOK /\ TodoBacked /\ CmSound /\ [Next]_vars => CmSound'
<1> SUFFICES ASSUME TypeOK, TodoBacked, CmSound, [Next]_vars PROVE CmSound'
  OBVIOUS
<1> USE DEF CmSound
<1>1. cm \in CmChannel /\ cm.fd \in AsyncFd /\ cm.events \in Nat /\ turn \in Turn
  BY DEF TypeOK, CmChannel
<1>2. CASE EventArrives
  BY <1>1, <1>2 DEF EventArrives, Signalled, CmChannel, AsyncFd
<1>3. CASE CmFdReady
  BY <1>1, <1>3 DEF CmFdReady, Delivered, CmChannel
<1>4. CASE ServeCmEvent \/ ServeCmDestruction
  <2>1. turn.pc = "turn" /\ turn'.pc = "turn"
    BY <1>4, EventServes, DestructionServes, ServeFields, <1>1, SMTT(30) DEF Service, Serving, Turn
  <2>2. cm'.fd = cm.fd /\ (cm'.events > 0 => cm.events > 0)
    BY <1>1, <1>4, Zenon DEF ServeCmEvent, ServeCmDestruction, CmChannel
  <2> QED
    BY <2>1, <2>2
<1>5. CASE CmFdPending \/ CmFdGuard
  BY <1>1, <1>5 DEF CmFdPending, CmFdGuard, ReadReady, CmChannel, AsyncFd, Turn
<1>6. CASE CmTryEvent
  <2>1. cm' = [cm EXCEPT !.events = @ - 1] /\ turn.pc = "cm_try" /\ turn'.pc = "turn"
    BY <1>1, <1>6 DEF CmTryEvent, Turn
  <2> QED
    BY <1>1, <2>1 DEF CmChannel
<1>7. CASE CmTryBlocked
  BY <1>7 DEF CmTryBlocked
<1>8. CASE CmClearReady
  BY <1>1, <1>8 DEF CmClearReady, ClearReady, CmChannel, AsyncFd, Turn
<1>9. CASE UNCHANGED cm /\ turn.pc # "cm_clear" /\ turn'.pc # "cm_clear"
  BY <1>9
<1>10. CASE UNCHANGED <<cm, turn>>
  BY <1>10
<1>11. CASE StartPoll \/ ObserveEpoch \/ TakePending \/ Snapshot \/ EndTurn \/ PollTimer
              \/ RegisterWaker \/ RetakePending \/ RecheckEpoch
  <2>1. UNCHANGED cm
    BY <1>11 DEF StartPoll, ObserveEpoch, TakePending, Snapshot, EndTurn, PollTimer, RegisterWaker,
                 RetakePending, RecheckEpoch
  <2> QED
    BY <1>9, <1>11, <2>1, PollSteps
<1>12. CASE Outside /\ ~EventArrives /\ ~CmFdReady
  BY <1>10, <1>12, Zenon
  DEF Outside, ClientNext, WorldNext, vars, Enqueue, NotifyPending, NotifyEpoch, NotifyWake,
      CompletionArrives, CqFdReady, Elapse
<1>13. CASE Service /\ UNCHANGED cm
  <2>1. turn.pc = "turn" /\ turn'.pc = "turn"
    BY <1>1, <1>13, ServeFields DEF Service, Serving, Turn
  <2> QED
    BY <1>9, <1>13, <2>1
<1>14. CASE ServeCmEventBlocked
  BY <1>1, <1>9, <1>14 DEF ServeCmEventBlocked, Serving, Turn
<1>15. CASE ServeSource /\ Service /\ ~ServeCmEvent /\ ~ServeCmDestruction
  <2>1. \/ UNCHANGED cm \/ CmFdPending \/ CmFdGuard \/ CmTryEvent \/ CmTryBlocked \/ CmClearReady
    BY <1>15, Zenon
    DEF ServeSource, ServeCommands, ServeCq, ServeCompletionDispatch, Starved, ServeCmSoftware,
        ServeCmEventBlocked, ServeDeadlineIngress, ServeDeadline
  <2> QED
    BY <1>5, <1>6, <1>7, <1>8, <1>13, <1>15, <2>1
<1>16. CASE ServeCq /\ turn' = turn
  BY <1>10, <1>16 DEF ServeCq
<1>17. CASE ServeSource
  BY <1>4, <1>5, <1>6, <1>7, <1>8, <1>14, <1>15, <1>16, <1>17, TurnSteps, SMTT(30)
<1> QED
  BY <1>2, <1>3, <1>11, <1>12, <1>17 DEF Next, DriverNext, Outside

\* Every step keeps CmWaits: a service of the CM events ends with an event, or
\* with the waker at the descriptor.
LEMMA CmWaitStep == TypeOK /\ TodoBacked /\ CmWaits /\ [Next]_vars => CmWaits'
<1> SUFFICES ASSUME TypeOK, TodoBacked, CmWaits, [Next]_vars PROVE CmWaits'
  OBVIOUS
<1> DEFINE waits == cm.fd.waker /\ ~cm.fd.ready
<1> USE DEF CmWaits, BeforeRetake, AfterRetake, InTurn, AtCm, PolledAgain
<1>1. CASE Outside
  <2>1. turn' = turn /\ (woken => woken')
    BY <1>1, OutsideKeepsTurn
  <2>2. waits => waits' \/ woken'
    <3>1. CASE UNCHANGED cm
      BY <3>1
    <3>2. CASE EventArrives
      BY <3>2 DEF EventArrives, Signalled, TypeOK, CmChannel, AsyncFd
    <3>3. CASE CmFdReady
      BY <3>3, Zenon DEF CmFdReady
    <3> QED
      BY <1>1, <3>1, <3>2, <3>3, Zenon
      DEF Outside, ClientNext, WorldNext, vars, Enqueue, NotifyPending, NotifyEpoch, NotifyWake,
          CompletionArrives, CqFdReady, Elapse
  <2> QED
    BY <2>1, <2>2
<1>2. CASE StartPoll \/ ObserveEpoch \/ TakePending
  BY <1>2, PollSteps
<1>3. CASE Snapshot
  BY <1>3, PollSteps DEF Snapshot, NoTurn, BeginTurn, Ready
<1>4. CASE EndTurn
  BY <1>4, PollSteps DEF EndTurn, TypeOK, Turn
<1>5. CASE PollTimer \/ RegisterWaker
  BY <1>5, PollSteps, Zenon DEF PollTimer, RegisterWaker
<1>6. CASE RetakePending \/ RecheckEpoch
  BY <1>6, PollSteps, Zenon DEF RetakePending, RecheckEpoch
<1>7. CASE ServeSource
  <2>1. Frame /\ InTurn /\ InTurn' /\ ~BeforeRetake' /\ ~AfterRetake'
    BY <1>7, TurnSteps, ServeStaysInTurn
  <2>2. CASE "CmEvent" \in turn'.todo
    BY <2>1, <2>2, SMTT(30)
  <2>3. CASE "CmEvent" \in turn.todo /\ "CmEvent" \notin turn'.todo
    <3>1. CASE Starved("CmEvent", 8, TRUE)
      BY <3>1, <2>1, ServeFields, Zenon DEF Starved, TypeOK
    <3>2. CASE ServeCmEvent
      <4>1. PICK leaves \in Leaves(8) : Serve("CmEvent", leaves, TRUE, TRUE)
        BY <3>2, Zenon DEF ServeCmEvent
      <4> QED
        BY <4>1, <2>1, ServeFields, ZenonT(30) DEF Leaves, TypeOK
    <3>3. CASE CmFdPending
      BY <3>3 DEF CmFdPending, ReadReady, TypeOK, CmChannel, AsyncFd
    <3>4. CASE CmTryEvent
      BY <3>4, <2>1 DEF CmTryEvent, TypeOK, Turn
    <3> QED
      BY <1>7, <2>3, <3>1, <3>2, <3>3, <3>4, OnlyOwnSource, Zenon
  <2>4. CASE "CmEvent" \notin turn.todo
    <3>1. ~AtCm
      BY <2>4 DEF TodoBacked
    <3>2. ~ServeCmEvent
      BY <2>4, Zenon DEF ServeCmEvent, Serving
    <3>3. UNCHANGED cm \/ ServeCmDestruction
      BY <1>7, <3>1, <3>2, ZenonT(30)
      DEF ServeSource, ServeCommands, ServeCq, ServeCompletionDispatch, Starved, ServeCmSoftware,
          ServeCmEventBlocked, ServeDeadlineIngress, ServeDeadline, CmFdPending, CmFdGuard,
          CmTryEvent, CmTryBlocked, CmClearReady
    <3>4. cm'.fd = cm.fd
      BY <3>3, Zenon DEF ServeCmDestruction, TypeOK, CmChannel
    <3> QED
      BY <2>1, <2>4, <3>4 DEF Frame
  <2> QED
    BY <2>2, <2>3, <2>4
<1> QED
  BY <1>1, <1>2, <1>3, <1>4, <1>5, <1>6, <1>7 DEF Next, DriverNext, Outside

-----------------------------------------------------------------------------
(***************************************************************************)
(* The rotation.                                                           *)
(***************************************************************************)
\* A turn comes first to the source whose place it starts at, and a turn that
\* starts with the CM events comes to the destructions next.
LEMMA OwnFirst ==
  ASSUME NEW s \in Sources, NEW r \in Sources
  PROVE  /\ Offset(ALL[r], s) <= Offset(ALL[r], r) => s = r
         /\ Offset(4, s) <= Offset(4, "CmEvent") => s = "CmEvent"
         /\ Offset(4, s) <= Offset(4, "CmDestruction") => s \in {"CmEvent", "CmDestruction"}
<1>1. ASSUME NEW c \in 0..7, NEW q \in Sources
      PROVE  Offset(c, q) = IF ALL[q] >= c THEN ALL[q] - c ELSE ALL[q] + 8 - c
  <2>1. ALL[q] \in 0..7
    BY DEF Sources, ALL
  <2> QED
    BY <2>1 DEF Offset, Rotation
<1>2. ALL[r] \in 0..7 /\ ALL[s] \in 0..7 /\ (ALL[r] = ALL[s] => r = s)
  BY DEF Sources, ALL
<1>3. "CmEvent" \in Sources /\ "CmDestruction" \in Sources /\ ALL["CmEvent"] = 4
      /\ ALL["CmDestruction"] = 5 /\ (ALL[s] = 4 => s = "CmEvent")
      /\ (ALL[s] = 5 => s = "CmDestruction")
  BY DEF Sources, ALL
<1>4. Offset(ALL[r], s) <= Offset(ALL[r], r) => s = r
  BY <1>1, <1>2
<1>5. 4 \in 0..7
  OBVIOUS
<1>6. Offset(4, "CmEvent") = 0 /\ Offset(4, "CmDestruction") = 1
      /\ Offset(4, s) = IF ALL[s] >= 4 THEN ALL[s] - 4 ELSE ALL[s] + 4
  BY <1>1, <1>2, <1>3, <1>5
<1> QED
  BY <1>2, <1>3, <1>4, <1>6

\* What a service does to the turn.
LEMMA ServiceRuns ==
  ASSUME TypeOK, Service
  PROVE  \E s \in Sources :
           /\ Serving(s)
           /\ turn'.would_block = turn.would_block /\ turn'.todo = turn.todo \ {s}
           /\ turn.left >= 8 /\ (s = "CmDestruction" => turn.would_block) /\ s = watch.source
                => turn'.served
<1>1. PICK s \in Sources, leaves \in 0..turn.left, ran \in BOOLEAN, again \in BOOLEAN :
        /\ Serving(s) /\ Serve(s, leaves, ran, again)
        /\ turn.left >= 8 /\ (s = "CmDestruction" => turn.would_block) => ran
  BY DEF Service
<1>2. leaves \in Nat /\ turn \in Turn
  BY <1>1 DEF TypeOK, Turn
<1>3. /\ turn'.would_block = turn.would_block /\ turn'.todo = turn.todo \ {s}
      /\ turn'.served <=> turn.served \/ (ran /\ s = watch.source)
  BY <1>1, <1>2, ServeFields
<1> QED
  BY <1>1, <1>3

\* Every step keeps OwnTurn: nothing is published before the source that the
\* turn starts with, or between the CM events and the destructions.
LEMMA OwnTurnStep == TypeOK /\ TodoBacked /\ OwnTurn /\ [Next]_vars => OwnTurn'
<1> SUFFICES ASSUME TypeOK, TodoBacked, OwnTurn, [Next]_vars PROVE OwnTurn'
  OBVIOUS
<1> DEFINE src == watch.source
           whole == /\ src \in turn.todo /\ turn.left = ActionBudget
                    /\ src = "CmDestruction" => ("CmEvent" \in turn.todo <=> ~turn.would_block)
           barred == /\ src = "CmDestruction"
                     /\ "CmEvent" \notin turn.todo /\ ~turn.would_block
<1>1. CASE Outside
  BY <1>1, OutsideKeepsTurn DEF OwnTurn, OwnStart, InTurn, AtCm
<1>2. CASE StartPoll \/ ObserveEpoch \/ TakePending \/ EndTurn \/ PollTimer \/ RegisterWaker
             \/ RetakePending \/ RecheckEpoch
  BY <1>2, PollSteps DEF OwnTurn, InTurn, AtCm
<1>3. CASE Snapshot
  <2>1. /\ turn'.ready <=> watch.source \in turn'.todo
        /\ turn'.left = ActionBudget /\ ~turn'.would_block /\ "CmEvent" \in turn'.todo
        /\ UNCHANGED watch
    BY <1>3, Zenon DEF Snapshot, NoTurn, BeginTurn, Ready
  <2> QED
    BY <2>1 DEF OwnTurn
<1>4. CASE ServeSource
  <2> SUFFICES ASSUME turn'.ready, ~turn'.served, turn'.start = OwnStart'
               PROVE  whole' \/ barred'
    BY DEF OwnTurn
  <2>1. Frame /\ InTurn
    BY <1>4, TurnSteps, ServeStaysInTurn
  <2>2. watch' = watch /\ turn.ready /\ ~turn.served /\ turn.start = OwnStart
    BY <2>1 DEF Frame, OwnStart
  <2>3. whole \/ barred
    BY <2>1, <2>2 DEF OwnTurn
  <2>4. src \in Sources /\ turn \in Turn /\ turn.todo \subseteq Sources
    BY DEF TypeOK, Watch, Turn
  <2>5. CASE Service
    <3>1. PICK s \in Sources :
            /\ Serving(s)
            /\ turn'.would_block = turn.would_block /\ turn'.todo = turn.todo \ {s}
            /\ turn.left >= 8 /\ (s = "CmDestruction" => turn.would_block) /\ s = src
                 => turn'.served
      BY <2>5, ServiceRuns
    <3>4. barred => barred'
      BY <2>2, <3>1
    <3>5. ASSUME whole PROVE barred'
      <4>1. turn.left >= 8
        BY <3>5, ReactorAssumption
      <4>2. \A r \in turn.todo : Offset(turn.start, s) <= Offset(turn.start, r)
        BY <3>1 DEF Serving
      <4>3. s # src \/ (src = "CmDestruction" /\ ~turn.would_block)
        BY <2>2, <3>1, <4>1
      <4>4. CASE src # "CmDestruction"
        <5>1. s = src
          BY <2>2, <2>4, <3>1, <3>5, <4>2, <4>4, OwnFirst DEF OwnStart
        <5> QED
          BY <4>3, <4>4, <5>1
      <4>5. CASE src = "CmDestruction" /\ turn.would_block
        <5>1. s \in {"CmEvent", "CmDestruction"}
          BY <2>2, <2>4, <3>1, <3>5, <4>2, <4>5, OwnFirst DEF OwnStart
        <5>2. s \in turn.todo
          BY <3>1 DEF Serving
        <5> QED
          BY <3>5, <4>3, <4>5, <5>1, <5>2, SMTT(30)
      <4>6. CASE src = "CmDestruction" /\ ~turn.would_block
        <5>1. s = "CmEvent"
          BY <2>2, <2>4, <3>1, <3>5, <4>2, <4>6, OwnFirst DEF OwnStart
        <5> QED
          BY <2>2, <3>1, <4>6, <5>1
      <4> QED
        BY <4>4, <4>5, <4>6
    <3> QED
      BY <2>3, <3>4, <3>5
  <2>6. CASE ServeCq /\ turn' = turn
    BY <2>2, <2>3, <2>6
  <2>7. CASE ServeCmEventBlocked \/ CmFdPending \/ CmFdGuard \/ CmTryEvent
               \/ CmTryBlocked \/ CmClearReady
    <3>1. CASE turn'.pc # "turn"
      BY <2>2, <2>3, <2>7, <3>1, CmSteps
    <3>2. CASE turn'.pc = "turn"
      <4>1. /\ turn.pc \in {"cm_fd", "cm_try"} /\ turn'.todo = turn.todo \ {"CmEvent"}
            /\ src # "CmEvent"
            /\ IF turn.pc = "cm_fd"
               THEN turn'.would_block /\ turn'.left = turn.left
               ELSE turn'.would_block = turn.would_block
        BY <2>7, <3>2, CmSteps
      <4>2. /\ "CmEvent" \in turn.todo
            /\ \A r \in turn.todo : Offset(turn.start, "CmEvent") <= Offset(turn.start, r)
        BY <4>1 DEF TodoBacked, AtCm
      <4>3. whole
        BY <2>3, <4>2
      <4>4. src = "CmDestruction"
        BY <2>2, <2>4, <4>1, <4>2, <4>3, OwnFirst DEF OwnStart
      <4> QED
        BY <2>2, <4>1, <4>2, <4>3, <4>4
    <3> QED
      BY <3>1, <3>2
  <2> QED
    BY <1>4, <2>5, <2>6, <2>7, TurnSteps
<1> QED
  BY <1>1, <1>2, <1>3, <1>4 DEF Next, DriverNext, Outside

\* Every step keeps Rotates: a turn that passes the source over did not start
\* at its place.
LEMMA RotateStep == TypeOK /\ TodoBacked /\ OwnTurn /\ Rotates /\ [Next]_vars => Rotates'
<1> SUFFICES ASSUME TypeOK, TodoBacked, OwnTurn, Rotates, [Next]_vars PROVE Rotates'
  OBVIOUS
<1>1. OwnStart \in 0..7
  BY DEF OwnStart, TypeOK, Watch, Sources, ALL
<1>2. turn \in Turn /\ turn.next_start \in 0..7 /\ turn.start \in 0..7 /\ watch.passed \in Nat
  BY DEF TypeOK, Turn, Watch
<1>3. CASE Outside
  BY <1>3, OutsideKeepsTurn DEF Rotates, OwnStart, InTurn, AtCm
<1>4. CASE StartPoll \/ ObserveEpoch \/ TakePending \/ PollTimer \/ RegisterWaker
             \/ RetakePending \/ RecheckEpoch
  <2>1. ~InTurn /\ ~InTurn'
    BY <1>4, PollSteps DEF InTurn, AtCm
  <2>2. UNCHANGED watch /\ turn'.next_start = turn.next_start
    BY <1>2, <1>4 DEF Turn, NoTurn, StartPoll, ObserveEpoch, TakePending, PollTimer, RegisterWaker,
                      RetakePending, RecheckEpoch
  <2> QED
    BY <2>1, <2>2 DEF Rotates, OwnStart
<1>5. CASE Snapshot
  <2>1. ~InTurn /\ InTurn'
    BY <1>5, PollSteps DEF InTurn, AtCm
  <2>2. UNCHANGED watch /\ turn'.start = turn.next_start
        /\ turn'.next_start = (turn.next_start + 1) % Rotation
    BY <1>5 DEF Snapshot, NoTurn, BeginTurn
  <2>3. turn'.next_start = IF turn'.start = 7 THEN 0 ELSE turn'.start + 1
    BY <1>2, <2>2 DEF Rotation
  <2> QED
    BY <2>1, <2>2, <2>3 DEF Rotates, OwnStart
<1>6. CASE EndTurn
  <2>1. InTurn /\ ~InTurn'
    BY <1>6, PollSteps DEF InTurn, AtCm
  <2>2. /\ turn'.next_start = turn.next_start /\ watch'.source = watch.source
        /\ watch'.passed = IF PassedOver THEN watch.passed + 1 ELSE 0
    BY <1>2, <1>6 DEF EndTurn, Turn, TypeOK, Watch
  <2>3. PassedOver => turn.start # OwnStart
    BY <1>6, <2>1 DEF EndTurn, OwnTurn, PassedOver
  <2>4. turn.next_start = (IF turn.start = 7 THEN 0 ELSE turn.start + 1)
        /\ watch.passed <= Since(turn.start, OwnStart)
    BY <2>1 DEF Rotates
  <2>5. watch'.passed <= Since(turn'.next_start, OwnStart)
    BY <1>1, <1>2, <2>2, <2>3, <2>4, SMTT(30) DEF Since
  <2> QED
    BY <2>1, <2>2, <2>5 DEF Rotates, OwnStart
<1>7. CASE ServeSource
  BY <1>7, TurnSteps, ServeStaysInTurn DEF Frame, Rotates, OwnStart
<1> QED
  BY <1>3, <1>4, <1>5, <1>6, <1>7 DEF Next, DriverNext, Outside
-----------------------------------------------------------------------------
\* The invariant of the driver task: what a poll has seen, and where a wake
\* for what it has not seen will come from.
THEOREM ReactorInvariant == Spec => []IInv
<1>1. IInv /\ [Next]_vars => IInv'
  BY TypeStep, TodoStep, WakerStep, CommandStep, WorkStep, TimerStep, CqStep, CqWaitStep, CmStep,
     CmWaitStep, OwnTurnStep, RotateStep
  DEF IInv
<1> QED
  BY <1>1, InitInv, PTL DEF Spec

\* A driver that sleeps has nothing to do and will hear of what comes, for
\* every number of client tasks and every order of their three notification
\* steps, of completions, CM events, edges and instants around its poll.
THEOREM ReactorNoLostWakeup == Spec => []NoLostWakeup
<1>1. IInv => NoLostWakeup
  <2> SUFFICES ASSUME IInv, Asleep PROVE NoLostWakeup
    BY DEF NoLostWakeup
  <2>1. /\ turn.pc = "parked" /\ ~woken /\ \A p \in Producers : client[p] = "idle"
        /\ ~cq.fd.edge /\ ~cm.fd.edge
    BY DEF Asleep
  <2>2. AfterRetake /\ ~PolledAgain /\ TypeOK
    BY <2>1 DEF IInv, AfterRetake, PolledAgain, InTurn, AtCm, BeforeRetake
  <2>3. cq.cqes = 0 /\ cq.armed /\ cq.fd.waker
    BY <2>1, <2>2 DEF IInv, CqSound, CqWaits
  <2>4. cm.events = 0 /\ cm.fd.waker
    <3>1. cm.fd.waker /\ ~cm.fd.ready
      BY <2>2 DEF IInv, CmWaits
    <3> QED
      BY <2>1, <2>2, <3>1 DEF IInv, CmSound, TypeOK, CmChannel
  <2>5. NoInternalWork
    BY <2>2 DEF IInv, WorkSeen
  <2>6. ~HasRunnable(command, work) /\ signal.waker
    BY <2>1 DEF IInv, CommandsHeard, WakerKept
  <2>7. /\ ~Due(work)
        /\ work.heap # {} => timer = [at |-> Min(work.heap), polled |-> TRUE]
    <3>1. CASE work.heap = {}
      BY <3>1 DEF Due
    <3>2. CASE work.heap # {}
      <4>1. timer.at = Min(work.heap) /\ timer.polled /\ world.now < Min(work.heap)
        BY <2>1, <3>2 DEF IInv, TimerSet
      <4>2. work.heap \in SUBSET Nat /\ world.now \in Nat
        BY <2>2 DEF TypeOK, Work, World, Instants
      <4>3. ~Due(work)
        BY <3>2, <4>1, <4>2, MinIsLeast DEF Due
      <4>4. timer = [at |-> Min(work.heap), polled |-> TRUE]
        BY <2>2, <4>1 DEF TypeOK, Timer
      <4> QED
        BY <4>3, <4>4
    <3> QED
      BY <3>1, <3>2
  <2> QED
    BY <2>3, <2>4, <2>5, <2>6, <2>7, SMTT(30) DEF NoLostWakeup, NoInternalWork
<1> QED
  BY <1>1, ReactorInvariant, PTL

\* No ready source is passed over in as many turns in a row as there are
\* sources, for every publication budget of at least the largest reservation:
\* in the turn that starts at its place the source runs.
THEOREM ReactorNoSourceStarved == Spec => []NoSourceStarved
<1>1. IInv => NoSourceStarved
  <2> SUFFICES ASSUME IInv PROVE watch.passed < 8
    BY SMTT(30) DEF NoSourceStarved, Rotation
  <2>1. OwnStart \in 0..7 /\ turn.next_start \in 0..7 /\ turn.start \in 0..7 /\ watch.passed \in Nat
    BY DEF IInv, OwnStart, TypeOK, Turn, Watch, Sources, ALL
  <2> QED
    BY <2>1 DEF IInv, Rotates, Since
<1> QED
  BY <1>1, ReactorInvariant, PTL
=============================================================================
