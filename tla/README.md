# Verification of the agent factory runtime

This directory holds TLA+ models of the concurrent core of the agent factory, the
TLC configurations that check them on small instances, and TLAPS proofs of their
main safety properties for every instance. Paths below are relative to the
repository's `pkg/services/` unless they start elsewhere; `ORCH` stands for
`factory_runtime/internal/services/orchestration` and `PLAN` for
`factory_runtime/internal/services/dispatch_planning/internal/service`.

## 1. The system

A *factory* is a workflow definition: Work items of authored types pass through
workstations. One *factory runtime* executes one factory as a coloured petri net.
An engine goroutine *ticks*: it takes queued submissions and buffered worker
results, starts enabled transitions as *dispatches*, routes results to new places,
and finally asks whether the run is over. Dispatches leave the engine through an
outbox to Workers, which start an attempt (agent, script, model call) in a goroutine
of its own; its result comes back, is *accepted* once, retires the outbox intent and
wakes the engine. Operators submit work, move work, pause, resume, terminate, and
change the capacity of authored resources while the factory runs. JavaScript
sessions lease units of the same resources.

| component | state | operations | interacts with |
|---|---|---|---|
| Dispatch outbox (`PLAN`) | mode, ordered intents with status, attempts, result, cancellation | Publish, Retry, Retire, Pause, Resume, Stop | called by the engine's dispatch hook, by operator controls, by result acceptance; calls Workers without its lock |
| Engine run loop (`ORCH/engine`) | submission queue, accepted requests, projection waiters, wake-up channels, marking, dispatch table | Run, SubmitWorkRequest, MoveWork, NotifyResult, WakeForOperatorControl, ReconcileJoinedResults | submitters, workers, operators through `e.mu` and three channels |
| Resource pool (`ORCH/engine/resource_capacity.go`) | capacity, units in the marking, leases, notification channel, admission gate | lease, release, preview, set capacity | ticks, sessions, live changes |
| Control surface (`ORCH/runtime/factory.go`, `worker_pool.go`) | factory state, `workerSessionControlMu`, completion channel | Run, Pause, Resume, Terminate, MoveWork | engine and outbox |
| Attempt lifecycle, acceptance (`ORCH/runtime/worker_pool.go`, `dispatch_result_hook.go`) | admitted attempts, per-dispatch acceptance state, scheduled results | start, cancel, seal, join, accept | Workers, outbox, engine |
| Subsystems, scheduler (`ORCH/subsystems`, `ORCH/scheduler`) | marking, dispatch table, histories of Work | circuit breaker, dispatcher with the scheduler, transitioner, cascading failure, termination check | run inside a tick, one after the other |
| Live changes (`factory_sessions/internal/livechange`, `execution/idempotency.go`) | request and result events, effective revision | apply, recover | admission gate, resource pool, event log |
| Events (`events/internal/service`) | topics with retained records, attachments between topics, subscriptions | Append, AttachSource, Subscribe, Next, Close | producers, consumers, chains of topics through nested locks |
| Sessions, recordings, worker sessions, chat sessions, messages, webhooks, models, automations, ... | see `PROJECT.json` | | |

Hard behaviour, component by component:

- **Outbox.** The Planner calls Workers without its lock, so publication, retry,
  drain, result and stop interleave at two points of every call. It is correct when
  an intent is offered by one goroutine at a time, delivered once, never forgotten,
  never reopened after its result, and when nothing runs on behind a successful Stop.
- **Run loop.** Signals are sent after unlocking, dropped when a channel is full and
  consumed in bulk; pausing changes which inputs a tick takes. It is correct when
  the engine never sleeps over work, a request is accepted once, a waiting submitter
  is answered, and a run ends only on a verdict that still holds.
- **Resource pool.** Units live in three places (marking, lease table, consumed
  tokens of dispatches) and are created and removed at run time under reusable
  identities. It is correct when every unit has one owner, their number is the
  capacity, a previewed change stays possible, and no waiter is forgotten.
- **Control surface.** The factory state, the outbox mode and the completion channel
  are changed under different locks, and each step may fail. It is correct when state
  and outbox agree after every control that succeeded, completion is announced for a
  finished factory only, and Terminate leaves no engine behind it.
- **Subsystems of a tick.** Failures, requeues, cancellations, loops, dependencies,
  pauses and operator moves all end in the marking, each on a path of its own and some
  ticks apart. They are correct when no Work and no resource unit is lost or doubled, a
  failure reaches everything that waits for it, limits on retries and visits hold, and
  every accepted Work is settled in the end.
- **Attempt lifecycle and acceptance.** The callback of an attempt, callers that
  submit a result, cancels, vanished processes and a stop with a timeout meet at one
  dispatch. It is correct when one result is routed, it is the retired one, and a stop
  joins everything that was published.
- **Live changes.** The change is in force before its result is recorded, and a crash
  may fall between any two steps. It is correct when every request is decided once,
  the log can always be recovered from, and what is in force is what the log says.
- **Events.** A call holds the locks of a whole chain of topics, and retained records
  are handed over to live delivery. It is correct when nothing is lost or doubled at
  the handover, nothing is sent to a closed buffer and the locks cannot deadlock.

## 2. Modules

| module | what it is |
|---|---|
| `DispatchOutbox` | the Planner, one action per critical section |
| `DispatchOnce` | what the outbox promises, without goroutines: phases of intents and a seal |
| `DispatchOutboxProofs` | theorems about `DispatchOutbox` |
| `ResourceCapacity` | one resource pool with leases, dispatches and capacity changes |
| `ResourceCapacityProofs` | theorems about it |
| `EngineLoop` | the engine goroutine with submitters, workers and operators |
| `EngineLoopProofs` | theorems about it |
| `FactoryNet` | the marking of one factory and the subsystems of its ticks |
| `FactoryNetProofs` | theorems about it |
| `DispatchAttempt` | publisher calls, attempts, acceptance of results and the stop of all of it |
| `DispatchAttemptProofs` | theorems about it |
| `LiveChange` | live changes of a session with their log, its append failures and crashes |
| `LiveChangeOnce` | what live changes promise: requests decided once, one revision each |
| `LiveChangeProofs` | theorems about `LiveChange` |
| `RuntimeLifecycle` | Run and the operator controls over factory state, outbox mode and completion |
| `RuntimeLifecycleProofs` | theorems about it |
| `EventTopics` | the Events service: topics, attachments, subscriptions, locks |
| `EventTopicsProofs` | theorems about it |
| `MC*` with `*.cfg` | small instances for TLC |

Every module also holds operators commented *Mutation*: a plausible bug in one of
its definitions, used to confirm that each property fails when the code is wrong.

### DispatchOutbox

`mode`, `ordered`, `status`, `attempts`, `result` and `cancelled` are the fields of
`Planner` and `intentRecord`. `pc` and `target` say where a goroutine is between two
critical sections, `snapshot` and `next` are the local copy of `ordered` that
`Resume` and `Stop` walk. `Publish` and `Retry` end at the entrance of the shared
function `publish`, whose first section is `BeginCall` or `SkipCall` and whose second
is `EndCall`; between them the publisher call is in flight (`InCall` is an open
`publishDone`). `Resume` is `Resume`, then `Drain` for every record, and `Repause`
after an error. `Stop` is `Stop`, then `CancelNext` with `AwaitCall` or
`AwaitTimeout` when a call is in flight, `RequestCancel`, `EndCancel`, `EndStop`.
Pause, Resume and Stop come from one `Controller` because the control surface calls
them under `workerSessionControlMu`. Duplicate and rejected calls change nothing and
are stuttering. The payload of an intent, the stop reason and error texts are left
out. `cancelling` is never seen set by anyone but the controller itself.

`DispatchOnce` is the abstract view. `Once` maps `status` to `phase` and
`mode = "STOPPED"` to `sealed`, and `ImplementsDispatchOnce` is `Once!Spec`.

### ResourceCapacity

`available` are the units in the marking, `lease` is `resourceLeases`, `claim` the
consumed tokens of dispatches in flight, `gate` the holder of the token of
`admissionGate` between two actions. A tick and a lease operation hold the gate and
`e.mu` from beginning to end and are single actions. A live change keeps the gate
over `Admit`, `Preview` (or `Ask` when there is no preview), `Apply` or `Refuse`, and
`Leave`, which is also every early return. `Signal` is the closing of the
notification channel. Which dispatches a tick starts is left open; a tick gives the
units of every buffered result back, whatever its outcome. A unit is the index of
its token ID, ordered as in the code while indices have one digit.

### EngineLoop

`pc` walks through `FactoryEngine.Run`: the first drain, ticks until nothing
changes, the second look at the inputs (`check`), the wait, the termination drain,
and after the loop the reconciliation of joined results. `submitSignal`, `resultCh`
and `waitCh` are the three channels. `spc` walks through `SubmitWorkRequest`: two
critical sections, a signal after the second, the wait for the projection.
`WriteResult` and `Notify` are result acceptance as the engine sees it. The petri net
is reduced to the state of the one Work item a request brings (`ready`, `stuck`,
`done` in the marking; `running`, `buffered` in the dispatch table), with every
choice the definition of a factory could make left open. `Ticked` and `Routed` bound
what a tick may do to it; a tick starts some enabled Work if there is any.

Abstractions: replay and cron keep-alive, throttle timers, the engine wake of
capacity changes and errors of a tick other than the end of its context are left
out; two announcements of results for the same Work that overlap are merged;
`Drain` allows more interleavings of a bulk drain with concurrent senders than one
channel scan has; `Abandon` stands for a failing or timed-out stop of the attempts;
an engine runs once.

### FactoryNet

The engine holds `e.mu` over a tick, so only results arrive while its subsystems run;
`phase` is the subsystem that runs next. `board` is the place of the token of each
Work, `flight` its entry in the dispatch table, `visits` and `fails` the counters of
its history that something reads: the visits of a transition a loop breaker watches
and the consecutive failures of a workstation with a retry limit. `Breaker`,
`Dispatch`, `Transitioner`, `Cascade` and `Retire` are the subsystems in the order of
their tick groups and the retirement of the routed dispatches; a tick of a paused
factory only routes (`BeginPausedTick`). `Outcome` names what a result can mean,
beyond the four outcomes that have arcs: failures with metadata, which go to the
FAILED place whatever the arcs say, are requeued, or do not count because the provider
had no capacity; cancellations, which restore the claim; and outcomes that stop words
turn round, which are routed by the new outcome and counted by the old one.

`Bindings` is what the evaluator and its expansion make of a transition and
`Selections` what the queue scheduler can pick from all bindings. The ID of a Work's
token is its Work ID or a counter, depending on whether it has been routed before, so
the order of Work is left open, and so is the order the scheduler makes of bindings of
equal rank (queue times, names).

An accepted result of a workstation named `process` or `review` also takes other Work of
its trace and name out of the marking (`executorReviewReconcileMutations`, called by the
transitioner): `Cleared` names the places, `Supersedes` the Work, and `superseded`, a
history variable, keeps it for the properties. Three consequences are behaviour of the
code. Superseded Work is gone: `OneHome` says that this happens to no other Work, and that
some Work of its trace is left. Work that depends on it is not failed, because
`DependencyGuard` never finds its target and the cascade starts from failed Work only: it
waits for ever, and `WorkSettles` excepts it (`Stranded`). And two results of one tick that
take the same Work fail that tick, as the second finds no token (`applyConsume`), and with
it the run: the model ends there (`Transitioner` has no step for such results).

A factory may have several FAILED places; the cascade starts from all of them, and failed
Work goes to the first one. A transition takes one Work from one place and at most one unit
of one resource, and puts one Work of the same type into one place. So `process` cannot put
a review out beside its task, as it does in `factory/factory.json`; its clause in `Cleared`
is that of a factory in which it turns its Work into the review. Left out: workstations
with several input places, quorum and fan-out outputs, outputs of another work type,
same-name and batch guards, round-trip limits of loop breakers, Work that workers
generate, human approval, throttle pauses (a throttled Work is requeued, when it is
dispatched again is open), cron and its expiry transition, and limits on token age or
total visits, which the breaker implements and no mapper sets.

The instance is the task loop of `factory/factory.json` cut down to one input each:
`process`, `review`, and an escalation of failures that takes Work from `task:failed`,
with the loop breaker of `docs/reference/authoring-factories.md`, which watches the
reviewer, and a retry limit added. Executor and reviewer share a slot.

### DispatchAttempt

An intent is one `status` and one `result` of the outbox; what the outbox does with
its modes and its order is the subject of `DispatchOutbox`. `offer` is where the
publisher call of an intent is (`startThroughStatelessWorkers`): it fails early,
answers inline (a logical workstation, a prompt that cannot be rendered), finds the
dispatch active or terminal (`StartAgain`), or admits an attempt and prepares it.
`attempt`, `terminal`, `canceled` and `gone` are the fields of `attemptLifecycle`;
`Finish` takes the attempt out of the active set before its callback starts.
Acceptances have a place of their own in `acceptor` and `claim`: the callback of an
attempt goes through `Look`, `ClaimWorker` and `Materialize`, a caller of
`AcceptDispatchResult` through `ClaimRoot` and, if it has to wait, `Ready`; both end
with `Retire` and `Route`, or with `Refuse`. `ctl` walks through
`stopDispatchRuntimeLocked`, whose waits may all give up when its five seconds are
over. `unprepared` and `stopErr` are history.

Two exceptions in its properties are behaviour of the code. A dispatch whose
preparation failed is terminal in the lifecycle without a result, and a later Resume
that offers it again finds it terminal and reports success (`unprepared`). And when a
dispatch carries several Work IDs, a caller may name another one than the attempt
does; the callback then collides with the retired result and fails the next tick
(`JoinIsQuiet` speaks of dispatches with one Work).

### LiveChange

`log` is the session's event log as far as live changes go, `effective` the revision
`ProjectState` reads from it, `capacity` and `watermark` what the Runtime holds.
`holder` is the goroutine between the lock of `liveChangeMu`, which is followed by the
admission gate, and their release; all reads of the log are made there, so the
decision (`Reject`, `Replay`, `NoOp`, `Admit`, `Resume`) is one action. Between the
request event, the application, the result event and the publication of the revision
a crash may come (`Crash`), and each append may fail. A recovery is a call without a
body. `started` and `unrecorded` are history: what the process did not do itself, and
the changes it could not record. After a crash the Runtime has its authored
capacities, as nothing in the code puts the recorded ones in force again; so
`HistoryInForce` speaks of the changes since the last start.

`LiveChangeOnce` knows phases of requests and one revision; `Abstract` maps the log
to them, and `ImplementsLiveChangeOnce` is `Abstract!Spec`.

### RuntimeLifecycle

`control` is `workerSessionControlMu`, `pc` where the control call of an operator is,
`run` where `factoryImpl.Run` is. `Pause` and `Resume` set the factory state first and
the outbox mode second; `Drained` stands for the drain of `Planner.Resume` with both
outcomes. `Terminate` finishes the factory, cancels the run, waits for the engine and
stops the dispatch runtime; `Run` does the last step again on its own. `slipped` is
history: a control failed halfway, or Run started a paused factory, and no later
control has set state and outbox right.

### EventTopics

`entries` is everything a topic accepted; what it retains is derived. `lock` and
`attachMu` are the locks; `frames` is the stack of commits a call is forwarding, each
with the destinations it has still to visit, and holds the locks of all its topics.
`Commit` is `commitLocked`; `Visit` is one step of the search for a cycle, which locks
one topic at a time; `LockSource`, `ForwardBacklog` and `EndAttach` are the rest of
`AttachSource`. A subscription has its catch-up list, its buffer and the bytes it has
reserved (every record weighs one). `Close` closes the topics one by one, and their
subscriptions after the lock is released (`CloseSub`). Topics are created on demand in
the code and all there in the model; one that `Close` has not visited stands for one
created later.

## 3. Runs

| run | instance | checks |
|---|---|---|
| `outbox` | 3 intents, 1 caller, 2 results, attempts to 1 | `OneCallPerIntent`, `NoStrandedIntent`, `StopLeavesNothingRunning`, refinement of `DispatchOnce`, `ControlReturns`, `AcceptedIsOffered` |
| `outbox_overtake` | 2 intents, 1 caller | violation of `FailedResumeNotOvertaken` |
| `resources` | 2 lessees, 2 dispatches, 2 operators, capacities 0 to 3 | `OneOwner`, `UnitsMatchCapacity`, `PreviewIsBinding`, `NoLostWakeup`, `AskerAnswered` |
| `resource_sleep` | 1 lessee, 1 dispatch, 1 operator | violation of `WaitsOnlyForUnit` |
| `engine_loop` | 1 request, 2 submitters, result channel of 1, batch and service mode | `EngineAwake`, `SubmittedOnce`, `WaiterServed`, `VerdictHolds`, `InputsProcessed`, `SubmitterReturns` |
| `engine_lost` | 2 requests, 2 submitters | violation of `CompletedMeansAllAccepted` |
| `attempts` | 1 dispatch, its attempt, 2 callers with two results | `RoutedOnce`, `PublishedIsCarried`, `StopJoinsAttempts`, `JoinIsQuiet`, `StoppedIsRouted`, `AcceptReturns` |
| `live_change` | 2 operators, 2 requests, conflicting bodies, crashes | `LogRecoverable`, `WatermarkTrails`, `HistoryInForce`, refinement of `LiveChangeOnce` |
| `lifecycle` | 3 operators | `ControlsAgree`, `CompleteIsOver`, `TerminateJoins`, `FinishedCompletes` |
| `events` | 3 topics, 2 events, 1 producer, 1 linker, 1 subscription, retention 1, buffer 1, budget 2 | `SubscriberSeesAll`, `SendsAreSafe`, `BudgetExact`, `AttachmentExact`, `NoLockCycle` |
| `factory_net` | 3 Work in a chain of dependencies, the first and the last of one trace, 1 slot, 2 tries, breaker at 1 visit, escalation of failures, every outcome, 2 upsets | `OneHome`, `CascadeComplete`, `RetriesHold`, `WorkSettles` |
| `factory_loop` | 2 independent Work, 2 slots | violation of `BreakerStopsLoop` |

**Bounds.** `MaxAttempts` saturates a counter that the code never reads; the
properties ask only whether it is zero. A caller and the controller may meet at one
record; three intents give `Resume` and `Stop` a record before, at and behind the one
that fails. `MaxCapacity` 3 lets a reduction meet a leased unit, a claimed unit and an
idle one, and lets identities come back in another order than they went. `ResultCap` 1
instead of 64 makes the full channel ordinary. Two submitters are two goroutines that
submit the same ID. The instances of `outbox` and `engine_loop` are small because they
are checked with fairness; their safety properties do not depend on the size: section 5
proves them for all. In `attempts` everything the properties speak of happens to one
dispatch; dispatches meet only in the capacity of the lifecycle and in the stop, and
the proofs of section 5 hold for any number of them. In
`live_change` two requests may ask for different values
of one resource or expect a revision that never comes; the log is bounded by the
requests and crashes are not. In `events` three topics let a record go along a chain
and an attachment close a cycle; with retention 1 everything but the last record is
evicted; attachments ask for the beginning (an attachment ahead of its source is
refused by the same guard and is not exercised), subscriptions for the beginning or
the first record. In `factory_net` three Work items in a chain give a failure somebody
at a distance of two, so that one pass over direct dependents is not enough; one slot
makes two Work items and two workstations compete. The first and the last Work are of one
trace, so that a review of either may supersede the other one, and the second is of a
trace of its own, so that a mistake in the comparison shows. With one slot no two reviews
return in one tick, so no run of this instance reaches the doubly taken Work at which the
model ends; the proofs hold for nets that do. `MaxUpsets` bounds pauses, operator moves,
the results that put Work back where it was and the failures that stop words turn into
acceptance, together (each may go on adding to a counter); two of them are enough to
requeue the Work that stands before its last try or to move failed Work and have it fail
again.

**Deadlock** is checked except in the two runs of the engine, in `lifecycle` and in
`events`, whose configurations switch it off: a run that has ended and whose submitters
have returned stops, so does a completed factory whose operators have made their calls,
and so does a store that is closed. That no call of the Events service waits for ever is
`NoLockCycle`.

**Symmetry** is used in `events` only, which has no liveness property.

## 4. Fairness

- `DispatchOutbox`: goroutines inside the Planner go on, and the publisher and
  canceler calls return. The publisher starts an attempt and does not wait for it
  (`ORCH/runtime/invoke_worker.go`). Nobody has to publish, retry, retire or control,
  and `Stop` is not rescued by its context.
- `ResourceCapacity`: a lessee at the gate is served in turn (strong fairness:
  receivers blocked on a Go channel form a queue) and a change that has the gate
  returns. Nobody has to release a lease or finish a dispatch.
- `EngineLoop`: the engine goroutine goes on; a submitter sends its signal and takes
  its projection; a worker that wrote its result announces it; `Resume` performs its
  wake. Nothing is assumed of operators, contexts, workers that still work or new
  submissions.
- `FactoryNet`: the engine wakes for new input and finishes its ticks (`EngineAwake` and
  `InputsProcessed` of `EngineLoop`), while there are attempts one of them ends with a
  result, and somebody resumes a paused factory. The second and the third are assumptions about Workers and
  operators, not about this code; without them Work may wait for ever and should.
- `DispatchAttempt`: goroutines go on and the calls they make return, the execution of
  an attempt once it is canceled included. An attempt nobody cancels may run for ever.
- `RuntimeLifecycle`: a control that has begun goes on, and `Run` cleans up once its
  engine has returned; an engine whose context is canceled returns (`EngineLoop`).
- `LiveChange` and `EventTopics` assume no fairness and have no liveness properties;
  that their locks are released shows in the absence of deadlocks.

The liveness properties name the ways out that are legitimate: an outbox no longer
active, a factory paused meanwhile, a run that has ended.

## 5. Proofs

All theorems hold for every value of the constants that satisfies the named
assumptions (`ControllerAssumption`, `NoneAssumption`, `CapacityAssumption`, ...:
distinctness of identities, a positive bound, an initial capacity within the bound).

| theorem | property | argument |
|---|---|---|
| `DispatchOutboxProofs!TypeCorrect` | `TypeOK` | inductive as it stands |
| `OneCall` | `OneCallPerIntent` | `CallsInv`, with: an intent whose call is in flight has an attempt; a call begins only on a pending intent, which no call has in its hands |
| `FirstResultIsFinal` | `FirstResultWins` (in no run) | `ResultsInv`: an intent has a result exactly when it is retired; the late return of its publisher leaves it so |
| `StopSettles` | `StopLeavesNothingRunning` | `StopInv` (with `AcceptedInv`: every accepted intent is in `ordered`): the copy holds every accepted intent, each record behind the position of `Stop` is settled or in its hands, and a settled record stays so because a stopped outbox is final |
| `NothingStranded` | `NoStrandedIntent` | inductive once `CallsInv`, `AcceptedInv` and `StopInv` are known: a failed call counts as an attempt, and the copy `Resume` takes holds every accepted intent |
| `ResumeDrainsInOrder` | `DrainsInOrder` (in no run) | `DrainInv`, with `OfferedInv`: the copy stays a prefix of the list and what `Resume` has behind it was offered, because nobody pauses the outbox during its drain |
| `OutboxImplementsOnce` | `ImplementsDispatchOnce` | each action maps to a step of `DispatchOnce` or leaves `phase` and `sealed` alone |
| `ResourceCapacityProofs!TypeCorrect` | `TypeOK` | inductive: the gate and the position of an operator determine each other |
| `SingleOwner` | `OneOwner` | inductive with `TypeOK`: new units are outside `Known` |
| `UnitsConserved` | `UnitsMatchCapacity` | with `OneOwner`, from cardinalities of disjoint finite sets |
| `PreviewBinds` | `PreviewIsBinding` | whoever could use more units needs the gate |
| `LeasesWake` | `NoLostWakeup` | each action that makes a unit available signals, except a tick, which the property names |
| `EngineLoopProofs!TypeCorrect` | `TypeOK` | `TypeInv`, with `Asking`: a submitter inside `SubmitWorkRequest` has a request |
| `QueuedOnce` | `SubmittedOnce` | `OnceInv`, with `WorkAccepted`: Work exists for accepted requests only |
| `NeverAsleepOverWork` | `EngineAwake` | inductive with `TypeOK`, in two halves, one for results and one for queued requests: whoever adds to either leaves or owes a signal, and whoever consumes one ticks next |
| `VerdictIsTrue` | `VerdictHolds` | `VerdictInv`: before the termination drain the verdict holds of the marking or a wake-up is pending that the drain will see; after it nothing is accepted any more, `MoveWork` included |
| `WaitersAreServed` | `WaiterServed` | `ServedInv`, with `OneWaiter`: the only submitter that waits for a request is the one that queued it |
| `OnlyUnsignaledIsLost` | `LossIsUnsignaled` (in no run) | `LossInv`, with `VerdictInv` and `SubmittedOnce`: a queued request without a signal in the channel has its submitter between the unlock and its signal, from the last tick to the end of the run |
| `DispatchAttemptProofs!TypeCorrect` | `TypeOK` | with `PlaceInv`: where the publisher, the attempt and the intent of one dispatch are at the same time; `Admit` is the only action that makes an attempt active, and it looks at the capacity |
| `ResultRoutedOnce` | `RoutedOnce` | `ResultInv`, with `CallbackInv`: who has claimed a result holds the shared one of the dispatch, and at most one contender, the one that retired it, has still to route it |
| `PublishedCarried` | `PublishedIsCarried` | `PlaceInv`: the callback ends only with a retired intent (`AnsweredRetired`), so nothing published is left behind |
| `StopJoins` | `StopJoinsAttempts` | `StopInv`: admission is sealed before the preparations are joined, and a stop without error has sealed the outbox |
| `QuietJoin` | `JoinIsQuiet` | with one Work per dispatch, whatever the callback finds retired is the shared result, which is the one it submits |
| `FactoryNetProofs!TypeCorrect` | `TypeOK` | inductive; a selection of the scheduler is one transition per Work with a unit of its own |
| `WorkAndUnitsKept` | `OneHome` | inductive with `TypeOK` and `OnlyAccepted`: what has a place or a dispatch or was superseded was accepted; Work and units apart. Whoever supersedes is routed by the same step and so has a place; if it is superseded later, whoever does that is of the same trace |
| `RetriesAreHeld` | `RetriesHold` | `BreakerInv`: between breaker and dispatcher no unsettled Work in the marking is out of retries, and only the dispatcher takes Work. Workstations may take settled Work; that Work, which the breaker does not look at, is outside the property |
| `CascadeIsComplete` | `CascadeComplete` | inductive, from `RoundsComplete`: a round of the search that adds nothing ends it, one that adds something adds Work, so there are at most as many as there is Work. Induction over rounds goes through the least element of a set of numbers (`LeastNumber`), which also shows that the recursive function of `Doomed` exists (`RoundsExist`) |
| `BreakersHoldOne` | `BreakerHoldsOne` (in no run) | with `OneHome`: whatever the order, the breaker has a binding to some Work over the limit (`GuardedBinding`), and the scheduler selects no worker for a Work it could give to a logical workstation (`SelectsLogical`) |
| `RuntimeLifecycleProofs!TypeCorrect` | `TypeOK` | inductive: the control mutex and the positions of the operators determine each other |
| `StateAndOutboxAgree` | `ControlsAgree` | inductive with the position of the control call that is under way: between its two steps state and outbox differ in one way only |
| `CompletionIsFinal` | `CompleteIsOver` | with `PhaseInv`: who closes the channel has seen a factory that Run will find finished |
| `TerminationJoins` | `TerminateJoins` | with `PhaseInv`: the outbox is sealed only by who has seen the engine return |
| `LiveChangeProofs!TypeCorrect` | `TypeOK` | inductive |
| `LogStaysRecoverable` | `LogRecoverable` | with `DecisionInv`: between the decision and the result event the log says of the request what the decision saw, because the mutex is held |
| `WatermarkNeverAhead` | `WatermarkTrails` | with `RevisionInv`: every revision in the log is at most the effective one |
| `ImplementsOnce` | `ImplementsLiveChangeOnce` | each action maps to a step of `LiveChangeOnce` or leaves the phases alone; a crash is a stutter |
| `InForceIsRecorded` | `HistoryInForce` | `ForceInv`, on top of all of these: what is in force is the last recorded success or a change still unrecorded |
| `EventTopicsProofs!TypeCorrect` | `TypeOK` | inductive as it stands |
| `CallersNeverBlock` | `NoLockCycle` | `LockInv` (`FrameInv`, `HolderInv`, `LinkInv`) and `Acyclic`; see below |
| `AttachmentsHandOver` | `AttachmentExact` | `HandoverInv`, with `LockInv`: what a source accepted since its attachment is in the destination, due in a commit under way, or in the backlog of the attachment that holds the source; with no call on the source nothing is due |
| `SubscribersSeeAll` | `SubscriberSeesAll` | `SubInv`: the catch-up list counts on from the cursor and the buffer from the end of the list, up to the head while registered; a consumer that waits has nothing else left |
| `SendsStaySafe` | `SendsAreSafe` | `SubInv`: a subscription that is still to be told of the end of its topic is off the topic already |
| `BudgetStaysExact` | `BudgetExact` | `SubInv`, with the same cases |

The lock argument of `EventTopics`, in full: `FrameInv` makes the commits of a call a
chain of attachments with a lock for each, `HolderInv` says that nobody else holds a
lock, and `LinkInv` that the set of topics a search for a cycle has seen is closed under
forwarding once nothing is left to visit, that it has the destination and does not have
the source; attachments made by others cannot spoil it, because `attachMu` is held, and
those `Close` removes do not either. So the edge about to be made leads into a set from
which nothing leads back, and `Acyclic` is preserved. `Acyclic` is stated without paths
(among any topics there is one from which records go to none of them), which is what the
step that adds an edge and the conclusion both need: callers that waited in a circle
would be topics of which each forwards to another one.

All safety properties that the passing runs check, the two refinements included, are
thus proved for every instance.
Only model-checked are the liveness properties
(`ControlReturns`, `AcceptedIsOffered`, `AskerAnswered`, `InputsProcessed`,
`SubmitterReturns`, `StoppedIsRouted`, `AcceptReturns`, `FinishedCompletes`,
`WorkSettles`: fairness and `ENABLED` are out of the prover's reach) and the four
violations, which need a counterexample and not a proof. What remains true beside each
of the four is a theorem: `ResumeDrainsInOrder`, `OnlyUnsignaledIsLost`, `LeasesWake`
and `BreakersHoldOne`.

## 6. What the violated properties show

- `FailedResumeNotOvertaken`: `Resume` activates the outbox before it drains it. A
  `Publish` during the drain is offered at once, ahead of an older intent whose
  publication then fails, although `PLAN/lifecycle.go:29` says that the re-pause
  prevents this. What the same comment says first does hold (`ResumeDrainsInOrder`):
  the intents that were there are offered in their order; those accepted during the
  drain are outside the promise it can keep.
- `CompletedMeansAllAccepted`: a request is queued under `e.mu` and signaled after
  the unlock. The termination drain looks at the channels only, so a run may end
  `COMPLETE` with an accepted request in its queue; its submitter then waits until
  its context ends. Nothing else is lost (`OnlyUnsignaledIsLost`): an accepted request whose
  signal was sent before the end has its Work done.
- `WaitsOnlyForUnit`: a unit that a tick gives back wakes no waiting lessee. It
  sleeps on beside it until a lease is released, the capacity changes or its context
  ends.
- `BreakerStopsLoop`: a guarded transition has one binding per tick
  (`ORCH/scheduler/enablement.go:734`), while the binding of the workstation beside it
  is repeated for every waiting Work. When two Work items reach the limit in one tick
  and the workstation may run twice, the breaker takes one of them and the other is
  executed and reviewed again, although `docs/reference/operations.md:350` says that
  the breaker acts instead of another review pass. With `WorkSettles` it is a delay and
  not an endless loop: of the Work at the limit one at least is held or taken in each
  tick, whatever the net (`BreakersHoldOne`), so one that is alone there gets no other
  pass.

## 7. Plan

Done, in the order of how much a wrong interleaving would cost: outbox, pool, run
loop, attempts and acceptance, live changes, control surface, Events, the subsystems of
a tick.

Next:

1. The termination check against the resource pool: a run that waits for a lease which
   a session holds.
2. One of worker sessions, chat sequencing, agent messages or model leases.

## 8. Not modelled

The parts of the petri net listed under `FactoryNet`; replay, cron and throttle timing;
JavaScript execution; Workers and providers (external: a publisher call and a later
result); recordings, projections and read models; transports, wiring, command line and
user interface. Two hazards are modelled, but by a history variable that the properties
exempt, since the code does what they would forbid: a dispatch whose preparation failed
(`unprepared`) stays without a result, and a control that failed halfway or a paused
factory that is run (`slipped`) leaves factory state and outbox mode apart. Of the
reconciliation of executor and reviewer, the wait of Work that depends on superseded Work
and the failing tick are in the same position. Most of the implementation's lines are of these kinds: generated API
code, adapters and large sequential projections, whose faults are found by the tests
they have and not by interleavings. `PROJECT.json` names every component with its
status and reason, and the hazards no property covers yet.
