# Staff simulator: a TLA+ verification project

This directory models the Go program under `src/internal` (the staff simulator
of the Elaris project): the modules follow the source component by component,
TLC checks them on small instances, and TLAPS proves the most important
invariants for every value of the constants. `PROJECT.json` lists the runs, the
mutants that show each property has teeth, the line map from definitions to
source, the findings and the hazards.

## 1. The system

One process. It consumes three RabbitMQ queues (cleaning requests, hour
changes, day changes), keeps its work in memory in three buffered Go channels,
and persists only two kinds of MongoDB documents: one stock document and the
cottages' cleaning status. A simulated clock is asked over gRPC.

| Component | State | Operations | Talks to |
|---|---|---|---|
| Channels (`app/init.go`) | `cleaningCh` (32), `laundererCh` (32), `stockerCh` (16), root context | blocking sends, receives, cancel | everybody |
| Employee service (`app/employee_service.go`) | per employee: idle, handled count, current request | receive, set working, work, set idle, stop on cancel | embedded by the three pools |
| Housekeepers | pool + position in the steps of a request | consume (restock, retry), laundry, update status | stock, cottages, `laundererCh`, stocker's `ImmediateRestock` |
| Launderers | pool + start time + own hour-change channel | consume soap (restock, retry), register, wait, unregister | stock, hour registry, clock |
| Stockers | pool + snapshot + position in the list | snapshot, restock short items; `ImmediateRestock` called by others | stock |
| Manager | its position, the delivery in hand, day-change channel | consume, reject, dispatch, ack, restock on day change | cleaning queue, `cleaningCh`, `stockerCh`, day registry |
| Time-event service | two sets of subscriber channels; event in hand | consume, ack, notify, Register, Unregister | hour and day queues, subscribers |
| Stock repository | the stock document, a mutex | `GetStock`, `ConsumeItem`, `RestockItem` | MongoDB |
| Cottage repository | cleaning status per cottage | `UpdateCleaningStatus` | MongoDB |
| Connection, channel, consumer (`infra/mq`) | the connection and its `closed` flag; per consumer a channel and a declared queue | dial, reconnect, open and reopen channels, declare, bind, consume, close | broker; `NewRabbitmq`, manager, time-event service |
| Broker | per queue: ready and unacknowledged messages, binding | deliver, settle, requeue, loss | manager, time-event service |
| main (`main.go`, `infra/init.go`) | position in start-up or shutdown, root context | open everything in order, start the services, wait, close everything in order | all of the above |
| Probes and HTTP server (`transport`) | listening or not | `/readyz`: connection open, database ping; `/healthz`: always 200 | connection, MongoDB client |
| config, validation, telemetry, logging, generated protobuf, producer, fakes | – | – | not modelled, see section 8 |

What is hard here, and what makes each part correct:

* **Shared stock.** Housekeepers, launderers and stockers change one document
  concurrently; a reply may be lost although the update was applied. Correct:
  never negative, never restocked without limit.
* **Stale decisions.** A stocker acts on a snapshot; a housekeeper restocks on a
  shortage seen earlier. Correct: the surplus is bounded.
* **Waiting in a circle.** Manager waits for housekeepers, housekeepers for
  launderers, launderers for hour changes. Correct: everything drains.
* **Acknowledgement and crash.** A cleaning request is acknowledged after it is
  put in an in-memory channel. Correct: nothing is lost before that, and what a
  crash can lose afterwards is bounded.
* **Event delivery without the lock.** `notify` sends on channels it read
  earlier, skips full ones, and may be late. Correct: no wash waits for ever, no
  registration leaks.
* **Metrics beside the work.** A request leaves its channel before its employee
  is entered as working. Correct: the report lags by the requests in that window
  and by nothing else.
* **Reconnection.** Start-up opens three channels one after the other on a
  connection that may die between any two calls; only some calls reopen what was
  lost. Correct: at most one connection, no unbound queue in a process that
  reports ready, and start-up ends.
* **Signals.** A signal may come at any step of start-up, which mostly does not
  look at the context. Correct: the process ends.
* **Cancellation.** No send watches the context. That is where the code does not
  keep what its tests expect (section 5).

## 2. Modules

| Module | Models |
|---|---|
| `StaffChannels` | the three channels, the context, the request values |
| `EmployeeService` | the generic pool; instantiated as `HkPool`, `StPool`, `LdPool` |
| `StockRepo`, `CottageRepo` | the two repositories, each method one atomic relation with its error |
| `StockerService`, `HousekeeperService`, `LaundererService` | the three services, one action per blocking point of `work` |
| `TimeEventRegistry` | one subscriber set and its capacity-one channels; instantiated as `Hours` and `Days` |
| `StaffStock` | composition of the three pools; manager and time-event service are an abstract environment |
| `StaffStockProofs`, `StaffRetryProofs`, `StaffMetricsProofs` | proofs about `StaffStock`: types and stock; the second attempts; the metrics |
| `BrokerQueue` | a RabbitMQ queue with one consumer (external, as the code uses it); instantiated three times |
| `ManagerService`, `TimeEventNotificationService` | the two services in front |
| `StaffSystem` | the whole process with queues, losses, shutdown, crash and restart; `ImplementsStaffStock` says it implements `StaffStock` |
| `RequestHandover` | abstract: what the process promises publishers of cleaning requests; `ImplementsHandover` in `StaffSystem` says it keeps it |
| `RabbitMqConnection`, `RabbitMqConsumer` | the shared connection with its reconnection, and the three consumers with their channels |
| `StaffProcess` | `run` and `shutdown` of `main.go` on top of them, with the probes, signals and losses |
| `StaffSystemProofs`, `RequestHandoverProofs`, `StaffProcessProofs` | proofs about the module each is named after |
| `MCStaffStock`, `MCStaffSystem`, `MCStaffProcess` | instances for TLC |

Two views of one process: `StaffSystem` starts with the queues being consumed
and is about what happens to requests and stock; `StaffProcess` is about how the
process gets there, stays there and ends, and sees of the services only whether
they consume. Its `Consume` outcome and losses are those that `MgrStart`,
`TensStart` and `BrokerLost` of `StaffSystem` start from.

`EXTENDS` follows the calls: a service extends the repositories and services it
calls. A goroutine's program counter is its phase variable; `work` is cut at
every call that another goroutine could observe or that can block. Each service
ends in an operator that collects its steps (`HkStepOf`, ...); the compositions
add the frame. Operators introduced by the comment `Mutant` are used by no
specification: they are the deliberately wrong variants the mutants substitute.

Abstractions, all deliberate:

* *Errors.* "failed" stands for every error but the shortage. A failed database
  call may or may not have been applied. After cancellation database and clock
  calls fail.
* *Merged steps.* Receiving a request and entering it in the employee table are
  two steps (`ReceiveRequest`, `StartWork`): in between the goroutine alone has the
  request (`taken`), the table shows the employee idle and the request is not
  counted. The return of `work` and setting the idle status are one step, with the
  deferred `Unregister` of a washing cycle: until the idle status is
  set a goroutine counts as being at its last step of `work`, in the model as in
  the table. A rejected delivery is received
  and nacked in one step (a channel lost in between leaves the same state as
  one lost before). Steps that only log, and the finishing clock call, are left
  out.
* *Unreachable branches* left out: an empty restock list, an item missing in the
  snapshot, an unsupported wash item, nil services, a closed request channel,
  arguments the repositories reject.
* *Time is relative.* An hour event is its age in hours. A wash keeps the whole
  hours from its start to the latest hour change, -1 when it started inside the
  current hour, saturated at `ElapsedCap`. No event waits longer than `MaxLag`
  hours: a bound on the passing of time. A day event carries no information the
  manager uses.
* *Channel identities* are reused once neither a wash nor `notify` refers to
  them; a reused channel is empty. Which of the free ones a wash gets makes no
  difference, so `StaffSystem` takes one (`FreshChans`).
* *Message bodies* are records: does it decode, room name, request type.
* *Broker.* Deliveries a channel had not handed over when it closed are dropped
  by the client library and requeued by the broker. The consumer is never
  reopened by a running process (`Consume` is called once by each `Start`).
* *Backlog.* The cleaning queue is durable and may hold messages from before the
  first start: the constant `Backlog`.
* *One process.* The repository's mutex is per process; a second instance of the
  program is not modelled.
* *Start-up* (`StaffProcess`). Each call that needs a channel is cut into the
  check of its channel, `openConnection` (one step per dial, the mutex is held
  throughout), `conn.Channel()` and the call itself, so that a loss can fall
  between any two. The client library marks a dead connection and its channels
  closed in one step; a call that fails while the connection is still open
  stands for a refusal by the broker. Queues have the default configuration:
  durable, not exclusive, calls wait for their answer. A failing step of
  start-up makes `run` return and the process exit; nothing can be observed of
  it afterwards. `Consume`'s branch for a nil channel is not reachable, every
  consumer has a channel by then. `/healthz` has no state.
* *Crash* covers every end of the process followed by a new start, also the one
  after a shutdown. The documents and the queues survive, nothing else.

## 3. Runs that pass

| Run | Question | Properties |
|---|---|---|
| `stock_safety` | two housekeepers, a launderer and a stocker with overlapping items on a stock below the first requests | `TypeOK`, `StockNeverNegative`, `StockBounded`, `RetryFindsStock`, `MetricsExact` |
| `stock_crash` | all request types, cottages, a stocker, shutdown at any moment, a crash | `IInv` |
| `sys_crash` | crash, lost channels, shutdown between delivery, dispatch, work, ack | `SysTypeOK`, `NoRequestLostUndispatched`, `RequestsAccountedFor`, `RegistriesExact`, `ImplementsHandover` |
| `sys_rooms` | two housekeepers in two rooms at the same time, two kinds of cleaning with statuses of their own | `StatusWasRequested` |
| `sys_live` | a backlog that blocks the housekeeper behind the launderer and the manager behind the housekeeper; hour events late, skipped, or in hand of `notify` for a wash that has ended | `RegistriesExact`, `EveryRequestWorked`, `WashesEnd`, `ImplementsStaffStock` |
| `sys_restock` | three day changes while the manager dispatches and the stocker channel is full | `DayChangeRestocks` |
| `process` | start-up and shutdown; refused calls and dials, up to three losses of the connection or a channel, a signal at any moment | `ProcessTypeOK`, `OneConnection`, `OneLossAbsorbed`, `ReadyMeansBound`, `StartupEnds`, `SignalEndsProcess` |

Bounds. Channel capacities are 1 instead of 32 and 16, so that every channel
fills up within two requests; the behaviour at the limit is what matters, and no
code depends on the number. Stocks start just below what the first requests
consume, so that shortage, restock and retry happen.

In `sys_crash` three valid requests exceed what one crash may lose (channel 1 +
housekeeper 1), so the bound of `RequestsAccountedFor` is not vacuous; the work
there is the shortest there is (a type the switch does not know), because the
run is about hand-over.

`BlockingBacklog` of `sys_live` is the shortest backlog that makes everybody
wait: the launderer is in its cycle with the towels of the daily cleaning, the
first wash of the full cleaning fills the launderer channel and the housekeeper
is blocked sending the second, the third request fills the cleaning channel, and
the manager is blocked sending the fourth. The last two requests have a type
without steps, since all they do is wait. `MaxLag = 1` there makes an event late
by the length of a towel cycle, so that the next hour changes while it is on its
way: the next event finds the channel full and is skipped, an old one is left in
the channel, and `notify` still has one in hand for the channel of a wash that
has ended while the next wash has registered its own (two channels).

`sys_rooms` dispatches any three of the four requests of two rooms and two
types, so rooms are cleaned side by side and one of them again with another
status. Elsewhere the counters `MaxCleaning` and `MaxRestock` of `StaffSystem`
are at least the number of messages that can be dispatched, so they never block
the manager. `process` has the code's five dial attempts and all three
consumers; three losses are one more than the two tries of an `openChannel`. In
`stock_safety` `cleaningCount` stays within what one replenishment covers, the
case `RetryFindsStock` is about.

`CHECK_DEADLOCK FALSE` is used only where the system may stop: after a shutdown,
or with all consumers lost. Symmetry: housekeepers in `stock_safety`, rooms in
`sys_crash`, both in `sys_rooms`; no liveness run uses it.

Fairness (`Fairness` in `StaffSystem`): weak fairness of each goroutine (the Go
scheduler runs every goroutine that can run, and database and clock calls
return, with a result or an error) and of the simulated clock, which publishes
hour changes for ever. In `StaffProcess` only main's goroutine is fair: its
calls return, with a result or an error (dials are bounded by the loop, the
database by its timeouts, shutdown by its five seconds). The return of
`ManagerService.Start` is left unfair there, because it may be blocked in a send
(run `manager_hang`). Nothing is assumed of publishers, losses, crashes or
cancellation. A `select` with several ready cases may choose any of them each
time; the liveness properties do not need it to be fair because messages are
finitely many.

## 4. Properties

* `StockNeverNegative`, `StockBounded` – section 6.
* `NoRequestLostUndispatched` – until its request is in the cleaning channel, a
  valid message is in the queue or unacknowledged, whatever crashes or closes.
* `RequestsAccountedFor` – a dispatched request waits, is worked on, or its work
  has returned; each crash loses at most `CleaningCap` + number of housekeepers.
  In the code that is 32 plus the configured housekeepers.
* `ImplementsHandover` – the same as a refinement of `RequestHandover`: accepted,
  handed over, in hand, done. Every step of the process is one of its steps or
  changes none of these; cancellation and lost channels take nothing out of hand.
* `RetryFindsStock` – as long as no more requests have arrived than one
  replenishment covers (five of the largest), the second attempt after a
  successful restock finds enough, whoever else consumes in between.
* `MetricsExact` – at every moment a request that arrived is in its channel, in the
  hand of an employee that received it and is not yet entered in the table, or
  counted, exactly one of the three; the employees shown idle are those outside
  `work`. The report therefore lags by at most one request per employee.
* `StatusWasRequested` – a cottage shows a status that a request for this room
  asked for, although two rooms are cleaned at the same time and out of order.
* `OneConnection` – reconnection never leaves a second connection behind, and
  after `Close` there is none.
* `OneLossAbsorbed` – `openChannel`'s single retry absorbs a single loss; only
  the call the channel was opened for can still fail.
* `ReadyMeansBound` – after a 200 of `/readyz` all three queues are bound.
* `StartupEnds`, `SignalEndsProcess` – start-up ends even with an unreachable
  broker; a signal during start-up, or after the manager has returned, ends the
  process. A signal while the manager runs is the matter of `manager_hang`.
* `RegistriesExact` – the registries hold exactly the live subscribers' channels,
  one each.
* `ImplementsStaffStock` – every step of the process is a step of `StaffStock` or
  leaves its variables alone, so the theorems about `StaffStock` speak about the
  process.
* `EveryRequestWorked` – again and again everything published is worked on, however
  the waiting is chained.
* `WashesEnd` – no launderer stays in its cycle, whatever events were skipped, late
  or sent to a channel of a wash before.
* `DayChangeRestocks` – a day change leads to a restock request, also when skipped.

## 5. Where the code and its documents or tests disagree

| Run | What TLC shows |
|---|---|
| `stale_snapshot` | A stocker restocks an item another employee restocked after its snapshot, although `stocker_service_test.go:125` says items above the minimum are not restocked. Harmless but for the surplus, which `StockBounded` limits. |
| `shutdown_hang` | A housekeeper blocked in `actionLaundry` on a full launderer channel after the launderers stopped never returns (`employee_service_test.go:38`). With the real capacity this needs more than 32 washes waiting. |
| `manager_hang` | The same for the manager's send to the cleaning channel (`manager_service_test.go:380`). `Services.Start` then never returns and `run` never reaches `shutdown`. |
| `ready_idle` | The connection is lost after the cleaning queue is bound; declaring the next queue reconnects. `Consume` (which checks for nil only, unlike `DeclareQueue` and `BindQueue`) then fails on the dead cleaning channel, `ManagerService.Start` returns, and the process waits for a signal while `/readyz` answers 200. The integration suite takes that answer as ready for requests. |
| `unknown_type` | An enum number that is not one of the README's accepted values is dispatched and acknowledged; no work is done. |

## 6. Proofs

Every invariant and both refinements that the passing runs check are theorems, for every value of the constants. TLC checked each inductive
invariant on the small instances before it was proved.

| Theorem | States | Module |
|---|---|---|
| `Invariance`, `TypeCorrect`, `NeverNegative`, `Bounded` | `Spec => []IInv`, `[]TypeOK`, `[]StockNeverNegative`, `[]StockBounded` | `StaffStockProofs` |
| `RetryFinds` | `Spec => []RetryFindsStock` | `StaffRetryProofs` |
| `MetricsAreExact` | `Spec => []MetricsExact` | `StaffMetricsProofs` |
| `SysInvariance`, `SysTypeCorrect` | `SysSpec => []SysInv`, `[]SysTypeOK` | `StaffSystemProofs` |
| `SysImplementsStaffStock`, hence `SysStock`, `SysWork` | `SysSpec => Spec`, and the theorems about `StaffStock` for the whole process | `StaffSystemProofs` |
| `NothingLostUndispatched`, `RegistriesAreExact`, `StatusesWereRequested` | `SysSpec => []` the invariant | `StaffSystemProofs` |
| `SysImplementsHandover`, with `LossesBounded` (`RequestHandoverProofs`) hence `RequestsAreAccountedFor` | the refinement of `RequestHandover`, and `[]RequestsAccountedFor` | `StaffSystemProofs` |
| `ProcessInvariance`, `ProcessTypeCorrect`, `AtMostOneConnection`, `LossAbsorbed`, `ReadyIsBound` | `ProcessSpec => []` `ProcessInv`, `ProcessTypeOK`, `OneConnection`, `OneLossAbsorbed`, `ReadyMeansBound` | `StaffProcessProofs` |

Assumptions used: only the named `ASSUME`s of the modules. Positive channel
capacities, known request types, item lists without repetition (`StaffChannels`);
natural initial stock (`StockRepo`); `NoChan` is no channel (`LaundererService`);
cottages have room names (`CottageRepo`); finite pools and natural bounds
(`StaffStock`, `StaffSystem`, `StaffProcess`); what bodies contain
(`ManagerService`); the backlog consists of bodies (`StaffSystem`); at least one dial (`RabbitMqConnection`). TLC evaluates them
in every run of those modules. The sets of employees, rooms, bodies and channels,
the initial stock and all bounds are otherwise arbitrary.

**Stock** (`IInv`). `StockBounded` is not inductive: a state whose stock is at its
limit and in which somebody is about to restock satisfies it, and the next step
breaks it. `ReplenishmentsFit` adds the replenishments already *decided* and not
yet carried out: `stock[i] + 50 * PendingRestocks(i) <= StockLimit(i)`. A decision
is taken only when the item is below `DecisionLevel(i)` (10, or 20 for soap, the
largest amount a wash asks for), and then even all restockers together fit
(lemma `FitDecide`); carrying one out moves 50 from pending to stock
(`FitRestock`); consuming only lowers (`FitLess`). A stocker's decision is its
snapshot: it is pending for each short item it has still to visit, once per item
because lists have no repetition. `HkLocals`, `StLocals` and `LdLocals` say that
a goroutine's locals belong to its phase, so that the item it will restock is
the one it found short. The proof has one lemma per kind of actor and one step
per action.

**Retry** (`RetryInv`, taken with `IInv`). That the second attempt finds its
quantity says nothing of the consumers that come before it. The invariant counts
them: while somebody retries item `i`, there are ten of it for each request that
may still consume it, `ToCome(i)`: those of the first five that have not arrived,
those waiting in the channel, those received and not started (which may be of any
type), and those in work before their consuming step of `i`. Restocking makes 50 available when at most five are to come
(`CoverReplenished`, from `ArrivedFirst`); an arrival and a receive move a request
from one part of `ToCome` to another, and a start keeps it or takes it away; a consumption takes one away, because a
request consumes an item once (`ConsumesOnce`, `StepDone`); every other step only
adds stock or removes requests. The retrying housekeeper is itself among those to
come, so at least ten are left.

**Metrics** (`MetricsInv`, taken with `IInv`). The sum over the employee table is a
library fold, defined by recursion over subsets of the employees. The lemmas
`SumsExist` (the recursion has a solution), `SumIsFold` and `SumRaised` (raising
one term by one raises the sum by one) are proved by looking at a least
counterexample, for which the well-foundedness of the naturals suffices. With
them a request is followed through its three places: a receive shortens the
channel and adds an employee to `Receiving`, a start removes the employee and
raises the sum. `HkTable` says that an employee is idle exactly outside `work`.

**Whole process** (`SysInv`). `IInv` and `HkTable`, the types of what `StaffSystem`
adds, and what relates the services to the broker: `DeliveryHeld` (the delivery
the manager holds is the message the broker has unacknowledged while their
channel is open; in the step before the ack it has been dispatched), `EventHeld`
(the same for events about to be acknowledged), `FlightDispatched` (what waits, has
been received or is worked on was dispatched). `NoRequestLostUndispatched`, `RegistriesExact` and
`StatusWasRequested` are inductive with these. From `SysInv` each step is a step
of `StaffStock` or a stutter (`StepRefines`, one lemma per service), so that `IInv`
carries over without being proved again; and each step is a step of
`RequestHandover` or leaves its variables alone (`HandoverRefines`).

**Losses** (`LossInv`). In `RequestHandover` alone, each end of the process loses at
most what was in hand. Through the refinement this is the bound of
`RequestsAccountedFor`: the capacity of the cleaning channel and one request per
housekeeper for each crash.

**Start-up** (`ProcessInv`). `LossesCounted`: each connection but the open one has
cost a loss. `RetryAfterLoss`: `openChannel` is at its second try only after its
connection died. Together a failed second try means two losses, which is
`OneLossAbsorbed`. `MainWhere` and `BoundSoFar` say which calls are behind main at
each step, and no step unbinds a durable queue.

Only model-checked: the liveness properties (`EveryRequestWorked`, `WashesEnd`,
`DayChangeRestocks`, `StartupEnds`, `SignalEndsProcess`), because fairness and
`ENABLED` are out of the prover's reach; and the properties of the runs that
expect a violation.

## 7. Plan

1. *(done)* channels, pool, repositories, three services; `StaffStock`; type and
   stock invariants with proofs.
2. *(done)* broker queues, manager, time-event service; `StaffSystem`; hand-over,
   registry and liveness properties; refinement checked by TLC.
3. *(done)* cottage, retry and metrics properties; the abstract hand-over and
   its refinement by `StaffSystem`.
4. *(done)* connection, channels and consumers; start-up, probes and shutdown in
   `StaffProcess`.
5. *(done)* proofs of every safety property and of both refinements.
6. The safety part of what the liveness properties rest on, as invariants with
   proofs: the waiting order manager, housekeepers, launderers, hours has no
   cycle (whoever is blocked in a send waits for somebody who is at work); an
   hour event that is not in a subscriber's channel was skipped because an
   earlier one was.
7. Action properties with proofs: after `Close` no connection is dialled; a
   delivery is settled at most once on the channel that delivered it.

## 8. Not modelled

Telemetry and logging change no state of the program. Configuration, its
validation and the argument checks are stateless functions over literals, run
once; a configuration that does not load is the failing step of `Configure`. The
RabbitMQ producer is used by nothing in the process. Generated protobuf and gRPC
code is represented by what it yields (does a body decode, which fields); the
fakes and the integration tests' helpers are not part of the program. Of the
clock client, `Now` is the services' clock step.

## 9. Running

    tlc -workers 2 -config stock_safety.cfg MCStaffStock
    tlc -workers 2 -config sys_live.cfg MCStaffSystem
    tlc -workers 2 -config process.cfg MCStaffProcess
    tlapm StaffStockProofs.tla
    tlapm StaffRetryProofs.tla
    tlapm StaffMetricsProofs.tla
    tlapm RequestHandoverProofs.tla
    tlapm StaffSystemProofs.tla
    tlapm StaffProcessProofs.tla

The other runs take the module named in `PROJECT.json`. Each `tlapm` call checks
the theorems of its own module; it relies on those of the modules it extends.
