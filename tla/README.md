# Verification of the codegen-patterns runtime

codegen-patterns generates backend applications from YAML and ships, under
`runtime/`, the subsystems those applications run on. The generator is a
sequential text transformation; the subsystems are concurrent programs over a
shared Postgres database, and they are what this project models: background
jobs, the event outbox, the bridge from events to jobs, the scheduler of events, and the
integration engine.

All paths are relative to the repository. The modules model the Postgres
(Drizzle) backends, but for `MemoryJobs` and `BullJobs`.

## 1. The system

| Part | Source | State it keeps | Operations |
|---|---|---|---|
| Job worker | `runtime/subsystems/jobs/job-worker.ts` | rows of `job_run`; per worker `inFlight`, `inFlightRunIds`, the shutdown flag | poll, claim, process, settle, sweep, renew, shut down |
| Orchestrator | `jobs/job-orchestrator.drizzle-backend.ts` | rows of `job`, `job_run` | start (dedupe, collision modes), cancel with cascade, replay, upsert of definitions |
| Step memo | `jobs/job-step-service.drizzle-backend.ts`, `makeStepFn` | rows of `job_step` | find, record |
| Memory orchestrator | `jobs/job-orchestrator.memory-backend.ts` | in-process maps behind a promise mutex, `queueBlockers` | start, cancel, replay, tick |
| Wake listener | `jobs/pg-notify.ts` | one checked-out connection, retry timer | start, stop, connect, drop, reconnect |
| BullMQ orchestrator and worker | `jobs/*.bullmq-*.ts` | Redis queues plus `job_run` | start, cancel, replay, process |
| Event outbox | `events/event-bus.drizzle-backend.ts` | rows of `domain_events`, subscribers | publish, poll, wake, dispatch |
| Event scheduler | `events/event-scheduler.ts` | slot keys in `domain_events` | boot, tick, backfill |
| Bridge | `bridge/*.ts` | rows of `bridge_delivery`, wrapper runs | outbox-drain hook, delivery handler, facade |
| Integration | `integration/*.ts` | cursors, run records, canonical rows | execute, poll, webhook, incremental read |
| Auth | `auth/**` | OAuth connections, state tokens | resolve with refresh, retry, connect, callback |
| Cache, storage, observability, analytics, pagination, base classes | `cache/`, `storage/`, `observability/`, `analytics/`, `runtime/base-classes` | entries, files, none | single statements |
| Generator, templates, packages, UI | `src/`, `templates/`, `packages/`, `tools/` | none while running | sequential text generation |

How they interact. A client calls `start`, `cancel` or `replay`; each is one or
more statements on `job_run`. Worker processes poll that table, each with
timers for claiming, for renewing the claims it holds and for sweeping claims
that went stale, and a `LISTEN` connection that only makes polling earlier. A
handler runs inside the worker, memoises its steps in `job_step` and may start
children. Publishing an event inserts an outbox row; a drain claims rows, lets
the bridge insert one wrapper run and one ledger row per trigger in the same
transaction, and calls in-process subscribers afterwards. The wrapper run is an
ordinary job whose handler starts the user's job and marks the ledger row. The
event scheduler of every instance inserts outbox rows for the slots of time it
knows of. The integration engine runs on its own: it reads a cursor, walks a
vendor's changes, writes them to the local tables one by one and stores the
cursor. The memory and the BullMQ backend offer the same calls as the Drizzle
orchestrator, one over maps behind a mutex, the other over the same tables and a
Redis queue beside them.

What is hard about it. Every `await` is a point where other executions, timers
and clients interleave. Tests run one worker against a quiet database, so they
do not reach the orders in which a sweep, a cancel, a replay, a shutdown and a
late write meet on one row; a crash between two statements; a check made before
an await and used after it; or a write keyed on the id alone.

## 2. Modules

| Module | Models | Built on |
|---|---|---|
| `JobWorker` | the worker of `job-worker.ts` on `job_run`, with the clients' start, cancel and replay; the refinement mapping | `RunLease` |
| `RunLease` | what the claim on a run promises, without the table (abstract); implemented by `JobWorker` and `BullJobs` | |
| `ClaimLease` | the clock of one claim: heartbeat, renewal in flight, sweep threshold | |
| `Orchestrator` | the calls of `job-orchestrator.drizzle-backend.ts` on the tree of runs | |
| `EventOutbox` | publishing and draining in `event-bus.drizzle-backend.ts` | |
| `Bridge` | the bridge's drain hook, facade and delivery handler, composed with the outbox; the refinement mapping | `EventOutbox`, `BridgePromise` |
| `BridgePromise` | what publishers of events and readers of the delivery ledger are promised (abstract) | |
| `EventScheduler` | the schedulers of several instances in `event-scheduler.ts`, and the idempotent insert of a slot | |
| `Integration` | runs of `execute-integration.use-case.ts` over the walk of `incremental-read.ts` | |
| `MemoryJobs` | the calls and executions of `job-orchestrator.memory-backend.ts` | |
| `BullJobs` | `job-orchestrator.bullmq-backend.ts` and `job-worker.bullmq-backend.ts`: rows beside a queue; a second mapping to the lease | `RunLease` |
| `MC*` | values of the constants for TLC | the module of that name |
| `*Proofs` | theorems and proofs; those of `EventOutbox` are in `BridgeProofs` | the module of that name |

### JobWorker

A row of `job_run` is `status`, `attempts`, `due` (`run_at <= now()`) and
`stale` (its `claimed_at` is older than the threshold). An *execution* is one
async call of `pollAndProcess` with the `processRun` it starts. Its program
counter `pc` names the await it is suspended at; everything between two awaits,
and every statement or transaction, is one action:

    idle -Poll-> polling -ClaimNext-> claimed -Dispatch-> gate -Gate-> handler
         -HandlerReturns-> complete -Complete-> idle
    handler -HandlerThrows-> retry -Retry-> idle    or   fail -Fail-> (cascade) -> idle
    gate -Gate-> defer -Defer-> idle

`beats` is `inFlightRunIds`, `worker` the life cycle of the process, `snapshot`
the promises a shutdown waits for. `revoked` is a history variable: the
executions whose row has been written by somebody else since they claimed it. It
lets the properties say "a valid claim", which the code has no name for. Two more
histories say what took away a guarantee: `overlapped` are the workers two of
whose polls were once under way together (the interval timer and the drain of a
notification do not know of each other), `disturbed` that a beat was missed, a run
replayed or a worker shut down.
`Renew`, `Sweep` and `Age` are the heartbeat, the sweeper and the passage of
time. A claim ages by itself; the claim of a live worker ages only as a counted
fault, and `ClaimLease` says what it takes. A failing statement is not applied
(`ClaimFails`, `CompleteFails`, `Abandon`, `ReleaseFails`).

`claimed` is a state of its own because the claim transaction commits before
`pollAndProcess` resumes and adds the id to `inFlightRunIds`: in between, the row
is running and nobody renews it.

### ClaimLease

`JobWorker` lets the claim of a live worker age at any time, as a counted fault;
this module has the clock that decides whether it can. A claim is stamped (`age`
0) inside its transaction and is renewed only once it is `registered` in
`inFlightRunIds`, up to `MaxGap` later; a beat in between renews nothing for it.
The timer fires up to `MaxLateness` late and is armed again from there, as
`setInterval` does in a busy event loop. A renewal lands or fails within
`MaxLatency`, and the sweeper's clock is up to `MaxSkew` ahead. All five are
bounds of the environment, and `Margin` says how they must fit into the
threshold.

### Orchestrator

`start`, `cancel` and `replay` are sequences of awaited statements without a
transaction (replay's reset apart). A *call* has a `pc` naming the statement it
awaits; calls of different clients, of handlers (`ctx.spawnChild`) and of workers
(`markFailed`) interleave. The worker is reduced to its writes: `Begin`,
`Complete`, `Retry`, `Fail`, `WorkerDies`, which keep the facts that they are
keyed on the id alone and that the handler of a cancelled run is not stopped.
The concurrency key is a function `Key` of the payload, as is the dedupe key
(the payload itself), because the code computes both from the input, and `Mode`
belongs to the job type, so types that share a key can collide in different
modes. Four history variables: `seen`, the rows that existed when a cascade read the
tree; `revived`, the runs that left a terminal status; `overtaken`, the starts that
have made a check and have not inserted yet when another start inserts a row the
check would have found; and `raced`, the rows such starts have inserted. Nothing
serialises starts, so two of them pass a check together; the histories let the
properties say that this, or a run that comes back, is the only way the key is
shared.

### EventOutbox and Bridge

A drainer process runs `processBatch` from two *tasks*, the poll timer and the
wake handler, that know nothing of each other. `Claim` is the claim transaction:
as many ready rows as fit, where rows in somebody's batch may be skipped (they
may be locked) or taken again (their locks may be gone). `Commit` and `TxFails`
are the per-event transaction, `Dispatch` the in-process subscribers. `recheck`
is `wakeRecheckPending`; `owed` is a history variable, the wakes that have not
been followed by a claim. Two more say what subscribers may complain about: `missed`
are the events whose drainer ended between the stamp and the dispatch, `shared`
those that were claimed while another task had them in its batch.

`Bridge` EXTENDS `EventOutbox` and adds the ledger (`bridge_delivery`), the
wrapper runs and the step memo. The outbox's steps carry the bridge's variables
along unchanged, except `Commit`, with which the hook's `Fanout` is conjoined:
one transaction. A delivery (event, trigger) names its ledger row and its wrapper,
since `(event_id, trigger_id)` is unique. An execution of a wrapper has a program
counter over the awaits of `BridgeDeliveryHandler.run` and `ctx.step`. Executions
may be of different builds, as during a deployment: `Declined[x]` are the
deliveries whose `when` is false, or whose trigger is unknown, in the build of
execution `x`.

`BridgePromise` knows the outbox row, the verdict and the started jobs, nothing
else. The mapping takes the ledger's status for the verdict and counts a delivery
as started when its wrapper has started a user run or `publishAndStart` has. Drains
that find the event stamped, step records, retries, sweeps and replays become
stutters or repeat a start; `Process` is the commit of the first drain.

### EventScheduler

An instance reads its clock once per pass (`readAt`) and then awaits one insert
after the other; `todo` is what the pass has still to insert, so passes of
several instances interleave, and a pass that dies or whose statement fails
leaves a prefix behind. `Lookup` marks the query for the newest slot, ahead of a
backfill. A slot is named by its start, as in the slot key. Clocks of instances
differ by `Skew`, timers fire up to `Lateness` late. `lapsed` is the history of
slots that were given up by policy, by the cap or by a failed statement, with the
reason in the action that adds them. `straddled` are those that fell between the
boot pass and the first tick of a process, for which the code has neither policy
nor reason (section 5).

### Integration

The vendor is a feed of changes; a position in it is a cursor, and names the
content a record has from then on, so that `local[r]` is one number. A content
may be one that the source drops (`kept` is false): hydrate has no answer for
it, its canonical is null or the filter on records rejects it. A walk lists
changed records once (`refs`), hydrates them page by page (`page`), when they
may have moved on, drops what does not survive (`Survivors`), and hands the rest
out one by one (`change`) with a cursor: the position of the change for a
divisible source, nothing but at the end for an atomic one (`Withheld`), whose
token rides on the last survivor, if there is one. The source can throw at any
point up to the end of its walk (`Reading`). Every await of the use case is an
action. Nothing in the use case keeps two runs of one subscription apart, so
they overlap in the model; `overlapped`, `stale`, `repeated` and `lost` record
what came of it.

### MemoryJobs

A call behind the mutex is one action. `tick` is not behind it: its reads, the
steps of the handler and the settling writes are actions of their own, by several
ticks. `parked` are the pending rows in the distant future and `blockers` is
`queueBlockers`. `findStep` and the following `recordStep('running')` are one
action: between them only another execution of the same run could come in.

### BullJobs

Each inherited call (insert, cancel with cascade, replay) is one action on the
row (`Orchestrator` has what happens inside), followed by the actions on the
queue. The queue is external. What is assumed of it is what the code relies on:
`add` with an id it has is ignored, finished jobs stay (the code sets no
`removeOnComplete`), an active job cannot be removed, a job whose worker is gone
is handed out again and an active one to nobody else. `unbacked` are the runs
that lost their job, by an add that was ignored, a removal or a death between
the two stores; the lease of a run is held by the processor that has its job,
and there are no lanes; `late` are the processors whose run was cancelled after
they had read it.

## 3. What the runs check

| Run | Instance | Shows |
|---|---|---|
| `jobworker_all` | 2 workers, 1 execution each, 2 runs of one key, 2 attempts, any 2 faults of 7 kinds | `OwnerIsRunning`, `ClaimExclusive`, `LaneExclusive`, `NoDoubleExecution` (until a beat is missed, a run replayed or a worker shut down), `OnlyLateWritesUndo`, and `JobWorker` implements `RunLease` |
| `jobworker_settles` | 2 executions in a worker with a ceiling of 1, a third in another, a run with and one without a handler, 1 fault of 6 kinds, fair | `NoStrandedBeat`, `CeilingKept` (until two polls of a worker overlap), `EveryRunSettles` |
| `jobworker_ceiling` | the same workers without faults | *violation*: `WithinConcurrency`, the ceiling as the docs state it (section 5) |
| `claimlease_slack` | threshold 30, heartbeat 10 (the default), 1 missed renewal, timer up to 1 late, registration up to 3 after the claim, latency 2, skew 3: exactly the margin, and any of the five one larger is a violation; the worker may die and the row be claimed again | `NeverSwept` |
| `orchestrator_keys` | 3 runs, 2 job types on one key (reject, replace), 2 starters, 1 of them also a canceller, dedupe window, calls that die; up to one row that raced or came back (`OneExcuse`) | `SoleInFlight`, `SoleInWindow` |
| `orchestrator_cascade` | 3 runs, spawning handlers, two policies, dying calls | `CascadeLosesNone` |
| `outbox_drain` | 2 drainers with different pools, 2 events, any 2 faults of 4 kinds, fair | `WakeNotSwallowed`, `DispatchAfterCommit`, `StampedIsDelivered`, `TwiceOnlyWhenShared`, `EveryEventProcessed` |
| `bridge_fanout` | 1 drainer, 1 event, 2 triggers (one eager, one unknown to the build of one execution), 2 executions, any 2 faults of 6 kinds, fair | `FanoutComplete`, `EagerStartsOnce`, `SpawnOnce`, `LedgerTruth`, `EveryDeliverySettles`, and `Bridge` implements `BridgePromise` |
| `scheduler` | 2 instances, clocks 1 apart, 2 schedules of period 2 (one backfills at most 2 slots), 4 slots, 1 crash or failed statement (slots may be straddled) | `OneEventPerSlot`, `EverySlotAccounted`, `CurrentSlotReady` |
| `integration` | 2 runs at once, 2 records, a feed of 2 changes, each kept or dropped by the source, pages of 1, both cursor strategies, 1 fault of 5 kinds, fair | `BehindCursorAccounted`, `SerialRunsKeepOrder`, `SuccessMovesCursor`, `CursorGoesForward`, `CatchesUp` |
| `memory` | 3 runs under one key (2 queue, 1 replaces), 2 executions, 1 step, 2 attempts, 1 replay | `ParkedIsAwaited`, `LaneKeepsTwoApart`, `StepsTakeEffectOnce`, `OnlyReplayRevives` |
| `bull` | 2 runs with one dedupe key or none, 2 calls, 2 processors, 2 attempts, 1 replay, 1 death | `LiveRunIsBacked`, `OneProcessorPerRun`, `CancelSticks` |

The runs do not spend a property on types: every module has its type invariant, and
all of them are proved (section 4). Every run but `jobworker_ceiling` is expected
to pass.

**Bounds and why they are enough.** Every exclusion property is about two
executions and one row or two rows of one key, so two or three executions and
two runs reach all their shapes; `jobworker_settles` has three so that a worker
can hold two of them. `MaxFaults` counts faults and client calls of any kind:
each property needs one to take a claim away and one to make use of it, so two
let every pair of kinds meet in every order. Two attempts make the first a retry
and the second final. In the tree, three runs give a parent, a child and a
sibling or grandchild, with one starter and one canceller open at a time. For
the keys two starts are open at once, since what matters is that one inserts
between the check and the insert of the other; behaviours are followed while at
most one row has raced or come back, for beyond that most of what the properties
say of the single key is excused, and the proofs have no such bound. Handlers
await the children they spawn and a run has one handler at a time in
`Orchestrator` (`JobWorker` has double executions). In the outbox two events
fill a batch of two, so that one event of a batch can fail while the other goes
on. One event with two triggers has everything the fan-out does per trigger; two
events are out of reach of a run of a few minutes. For the scheduler, four slots
and boots at any of them give outages shorter than, equal to and longer than the
cap of two. A feed of two changes, of one record or of two, with pages of one is
where a walk can be cut between two records and where content moves on after the
listing; the proofs of `IntegrationProofs` say that longer feeds bring nothing
new. With three runs under one key one holds the lane, one waits and a third is
queued as well or replaces; in `bull` two runs are what it takes for one to be
given the other's job, or to lose its own to the other's cancel.

**Deadlock.** TLC checks for deadlock in every run but two. Workers keep polling,
drainers keep polling, schedulers boot and stop, integration runs start again,
and in `Orchestrator` calls and workers always have a next step. `memory` and
`bull` switch the check off: rows are never deleted there either, and once every
run has been started and is terminal and the replays are used up, the system has
really nothing left to do.

**Fairness.** `JobWorker`: an awaited statement returns and a handler ends
(`Execute`, weakly fair per execution); the heartbeat, the sweeper and the end
of a drain are `setInterval`/`setTimeout` timers that keep firing while the
process is up; a process that went down is restarted (the deployment's
supervisor); time passes for unattended claims and scheduled retries. Nothing is
assumed of faults, of clients, or of claims of live workers. `EveryRunSettles`
needs no fairness between runs: attempts and faults are bounded, so a run can be
preferred to another only finitely often. `EventOutbox`: the poll timer re-arms
itself in a `finally`, queries and subscribers return, time passes, processes
are restarted; nothing is assumed of notifications. `Bridge`: both, and a free
worker claims a pending wrapper. `Integration`: a schedule starts runs again and
again, and calls return; nothing is assumed of the vendor, which falls quiet
because the feed is bounded.

## 4. What is proved

All of it holds for every value of the constants, under the assumptions named in
the modules (`ConstantsAssumption`, `LeaseAssumption`, `OrchestratorAssumption`,
`OutboxAssumption`, `BridgeAssumption`, `SchedulerAssumption`,
`IntegrationAssumption`, `MemoryJobsAssumption`, `BullJobsAssumption`), which say
no more than the types of the constants. Where a property needs more, the theorem
says so in an ASSUME.

`JobWorkerProofs`. `TypeCorrect`; `ValidClaimIsRunning` (`OwnerIsRunning`),
`ClaimIsExclusive` and `LaneIsExclusive` from one inductive invariant, their
conjunction `ClaimInv` with the types: no one of them is inductive alone, since
a claim is exclusive because a claimed row is running and a claim takes pending
rows only, and the row stays running because the claim is exclusive. The lane
argument is the interesting one: the check of `Gate` locks nothing, but the row
of whoever is in the lane is running, the row of whoever checks is running as
well before it reads, so of two executions the later reader sees the earlier
one. `NoBeatIsStranded` has a proof of its own: ids are added by `Dispatch`,
which puts the execution in flight, and every way out of `processRun` is a
`Finish`, which removes the id. `LateWritesUndo` is the action property
`OnlyLateWritesUndo`, from the same invariant. `RunsExecuteOnce`
(`NoDoubleExecution`) has no hypothesis on the faults that may happen: it speaks
of every behaviour as long as no beat was missed, no run replayed and no worker
shut down (`disturbed`). Its invariant, `SoleInv`, says why nothing else puts a
run back under an execution that still works on it: the only way back to
`pending` is then the settling write of that execution, because its worker is up
and has the run in its renew set from the dispatch on, so that the row never
grows stale and no sweep takes it. `WorkerImplementsLease` (`ImplementsLease`)
maps every step to a step of `RunLease`: a claim acquires the lease, a gate that
lets through enters the lane, and every other step keeps the valid claims or
lets some of them end. `CeilingHolds` (`CeilingKept`) is about the one
comparison of `inFlight.size` with the ceiling: its invariant, `CeilingInv`,
says that a worker whose polls never overlapped and that has one under way past
the comparison has room for what that poll will register (`HasRoom`), which is a
fact about cardinalities: registering adds one, and everything else takes away.

`ClaimLeaseProofs`. `LiveClaimNeverSwept`: under `Margin` (the gap before the
registration, missed renewals + 1 beats, each as late as it may be, latency and
skew fit into the threshold) a live worker's claim is never swept. The invariant
is `AgeBound` (`AgeIsAccounted`): the age of a live claim is covered by the gap
before its registration, the renewals it has missed, the one under way and the
time since. `DefaultSurvivesOneBeat` says what the default interval, a third of
the threshold, is good for: one missed renewal, if gap, lateness of two beats,
latency and skew fit together in a third of the threshold. Three default beats
take the whole threshold, so there is no such theorem for two (section 5).

`OrchestratorProofs`. `OrchestratorTypes`; `CascadeIsComplete`
(`CascadeLosesNone`), with the invariant `TreeInv`: rows are never deleted, so
what a call remembers (its target, the parent it inserts under, the descendants
it has read) still exists, and a row it has read can come back to life only
through a replay or a late write, which `revived` records. `OnlyRacesShareAKey`
(`SoleInFlight`) and `OnlyRacesShareAWindow` (`SoleInWindow`) are about any
number of concurrent starts. The invariant of the first, `KeyInv`, says of a key
none of whose runs raced or came back that at most one run of it is in flight,
and of a start past its check that it has been overtaken, or the key is free but
for the incumbent it is about to cancel. `WindowInv` of the second says the same
of the dedupe check: no row of the key counts, or the start has been overtaken.
The lemmas say of every other step that no row enters the window, and of an
insert that it overtakes every start that stands between the two statements.

`BridgeProofs`, about the outbox. `OutboxTypes`, whose last two conjuncts (a
task holds a batch exactly while it works on one, and an event to dispatch
exactly after its commit) are what the other proofs rest on;
`DispatchesAreCommitted` (`DispatchAfterCommit`), inductive with the types;
`WakesAreKept` (`WakeNotSwallowed`), with the invariant `Listening` (only a
process that is up is notified, one that is down owes nothing). A wake that
comes while the drain is anywhere past its claim sets the recheck flag, and only
the end of the drain clears it, which goes back to the claim. A claim that fails
counts as a claim: as in the code, a wake whose claim is rolled back is left to
the poll timer. `StampsAreDelivered` (`StampedIsDelivered`) is inductive with
the types: only the end of a process takes an event out of a task's hand without
the subscribers having it. `DoublesAreShared` (`TwiceOnlyWhenShared`) needs
`SharedInv`: an event that was never claimed twice at once is in one batch at
most, and has not been dispatched while it is in one, because a dispatched row
is stamped and nobody claims a stamped row (`DispatchAfterCommit`).

`BridgeProofs`, about the bridge. `StepOfOutbox` first: every step of the
composition is an outbox step, or leaves the outbox alone but for a fault spent.
With it `BridgeTypes` and `BridgeKeepsOutbox` (the four outbox properties, of
the composition) reuse the lemmas about the outbox. `FanoutIsComplete` and
`EagerIsNotRepeated` follow from `LedgerInv`, which adds to them the order in
which the rows of a delivery come into being (`RowsInOrder`): event, ledger row,
wrapper, user run. A row the eager path wrote is there before any drain looks,
so the drain leaves its wrapper out. `LedgerIsTrue` carries the truth along the
awaits of the handler (`TruthInv`): a memo entry, and an execution past the
start, stand for a run that exists. `UserRunStartsOnce` (`SpawnOnce`) is proved
delivery by delivery (`OneStart`): while one execution at a time works on it, a
started run is in the memo or is about to be recorded by the execution that
started it, so nobody is about to start a second. `BridgeKeepsPromise`
(`ImplementsPromise`) maps each step to a step of `BridgePromise` or a stutter.
It uses `LedgerInv` and `TruthInv`, and `BuildInv`: an execution past the lookup
is of a build that decided as the branch it is on, and a skipped row and a
started job have a build behind them that declines, or accepts, the delivery.

`EventSchedulerProofs`. `SchedulerTypes`; `OneEvent` (`OneEventPerSlot`),
because all slots of an aligned schedule are multiples of its period and the
slot key admits one event each; `SlotsAreAccounted` (`EverySlotAccounted`) and
`SlotIsReady` (`CurrentSlotReady`) under `Timely`: the tick interval is no
longer than a period (the code takes the shortest period, so this holds unless
one is below its floor of a second), and interval and lateness together are no
longer than two. The invariant, `AccountInv`, says that below an event no slot
is missing (`Behind`), that a pass inserts what is missing below a slot before
that slot (`PassAccounts`), and that a running timer has looked one slot ahead
of its last tick (`TickedAhead`), which by `Timing` is as far as the next tick
can leave behind. A timer that is later than that skips a slot that nothing
records. `Booted` is the same for a process that has not ticked yet: its boot
pass accounts for everything up to the slot it read, and what lies between that
and the first tick is in `straddled`.

`IntegrationProofs`. `IntegrationTypes` proves the types together with
`Structure`: feed, store and what each run has still to do, which is at most one
change per record, none behind what was handed out, and hydrated refs ahead of
unhydrated ones. `CursorIsSafe` (`BehindCursorAccounted`) adds `AccountInv`: up
to the stored cursor everything is accounted for, up to a run's cursor
everything but the change in hand, up to its token everything but what is still
in its refs and page. That is what makes it safe to store the cursor of a run
that failed. `SuccessIsStored` (`SuccessMovesCursor`) adds what a walk comes to
(`EndInv`): the cursor in hand is that of the last record delivered, and nothing
wanted lies between it and what is still to do, so that at the end, whatever was
dropped, nothing wanted lies between it and the token; an atomic source that has
delivered a record holds one back, and the token with it, until there is no
other; `SerialRunsAreOrdered` (`SerialRunsKeepOrder`) and `CursorIsMonotonic`
(`CursorGoesForward`) add `SerialInv`: as long as nothing has overlapped one run
is under way, its cursor is not behind the stored one, the content in hand is
not older than the row, and no event is ahead of its row.

`MemoryJobsProofs`. `MemoryJobsTypes`; `ParkedRunsAreAwaited`
(`ParkedIsAwaited`): a parked run is pending and some live run has it in its
list, because every terminal transition empties the list and unparks its
members, and a row that is parked is never claimed; `TerminalRunsStay`
(`OnlyReplayRevives`); `StepsOnce` (`StepsTakeEffectOnce`), from the fact that
without an overlap the execution that works on a step is alone, so that the
effects of a step and its memo go together. `LaneIsKept` (`LaneKeepsTwoApart`)
rests on `LaneInv`: in a key that no third and no replayed run came in under, at
most two runs are in flight, and one of them is parked in the list of the other
and nobody else's, so it is released when the other has ended.

`BullJobsProofs`. `BullJobsTypes`; `OneProcessor` (`OneProcessorPerRun`), from a
one-to-one map of busy processors to active jobs; `LiveRunsAreBacked`
(`LiveRunIsBacked`), by a case per way a run can lose its job; `CancelledRunsStay`
(`CancelSticks`), from the invariant that a processor past its read of a cancelled
run is in `late`. `QueueImplementsLease` is the second implementation of
`RunLease`: the queue hands a job to one processor, so a fetch acquires the lease
and only the processor's own end or death lets go of it. It rests on the invariant
of `OneProcessor`, which the run checks.

Every invariant and action property that a run expects to hold is proved, the three
refinements included. Only model-checked: the liveness properties `EveryRunSettles`,
`EveryEventProcessed`, `EveryDeliverySettles` and `CatchesUp`, which rest on
fairness, which the prover does not handle.

## 5. Where the code and its docs part

Met while modelling. The models follow the code; one of these, the ceiling, has a
run that expects a violation (`jobworker_ceiling`).

- **A shutdown takes the runs of its whole pool.** The final UPDATE of
  `onModuleDestroy` (`job-worker.ts:420-425`) selects every running row of the
  pool, also those the other workers are executing. `JOB-3.md:170` says of it
  "For runs still `running` past timeout: UPDATE job_run SET status='pending',
  claimed_at=null", and `ADR-022:399` speaks of the worker's in-flight runs.
  (`ReleasePool` in `JobWorker`.)
- **Concurrent starts pass the collision check together.** The check for an
  incumbent (`job-orchestrator.drizzle-backend.ts:191-200`) and the INSERT (252)
  are two statements without a lock. `ADR-022:238`: "the new enqueue fails with
  `JobCollisionError`"; `handler-authoring.md:96`: "the new `start(...)` throws
  `JobCollisionError`". The same holds of the dedupe check
  (160-175): a webhook that is delivered twice at once starts two runs.
  `SoleInFlight` and `SoleInWindow` say that a key is shared only when a start was
  overtaken in this way or a run came back; without that excuse
  `orchestrator_keys` violates both.
- **The default leaves no room for two missed renewals.** The interval is a
  third of the threshold and the sweep asks for `claimed_at < now - threshold`,
  so after two missed renewals the third comes when the threshold is used up,
  and any lateness, latency or skew is too much. `job-worker.ts:75-76`,
  `102-105` and `282-283` say that a live run survives two missed renewals.
  `DefaultSurvivesOneBeat` says what it survives.
- **A failed parent does not cascade.** `markFailed` makes the row terminal and
  then calls `cancel`, which returns at once for a terminal run
  (`job-orchestrator.drizzle-backend.ts:322-324`), so the children live on.
  `job-worker.ts:736-738`: "if this run has children under the same root_run_id
  and this run's own parentClosePolicy is 'terminate', cascade";
  `handler-authoring.md:156`: "running children are cancelled when the parent
  reaches any terminal state"; `ADR-022:203` and `JOB-3.md:187` say it too. The
  model follows the code, and no property states either side. The memory and the
  BullMQ backend do the same; there the late cancel can only hit a run that was
  replayed in between.
- **A worker exceeds its concurrency.** `pollAndProcess` compares `inFlight.size`
  with the ceiling before it awaits the claim and registers the promise after it
  (`job-worker.ts:468-485`), and the interval timer and `drainOnWake` call it
  without knowing of each other. `job-worker.ts:51`: "Max concurrent in-flight
  `processRun` calls."; `BRIDGE-9.md:120` says of a pool with concurrency 1 that it
  "Serializes **all** wrappers in that direction pool". `WithinConcurrency` is
  violated; `CeilingKept` says when the ceiling holds.
- **An event is dispatched twice without any fault.** The row locks end with the
  claim transaction, before any event is stamped, and dispatch does not look at
  how many rows the stamp changed: the poll and the wake drain of one process can
  both claim a batch and both call its subscribers.
  `event-bus.drizzle-backend.ts:604-605`: "Claim a batch with FOR UPDATE SKIP
  LOCKED so multiple pollers don't double-dispatch"; `typed-bus-and-outbox.md:71`:
  "SKIP LOCKED lets multiple worker processes drain concurrently without
  double-dispatching". `TwiceOnlyWhenShared` says when it can happen.
- A terminal status is not final: settling writes are keyed on the id, so a
  cancelled run can become completed, or pending (`job-worker.ts:685-735`; the
  comment at `job-orchestrator.drizzle-backend.ts:47`). `OnlyLateWritesUndo`
  says exactly when.
- `renewClaims` renews by id, also a row another worker has claimed since
  (`job-worker.ts:201-209`).
- A concurrency key does not keep two handlers apart after a cancel: the
  cancelled run's handler goes on (ADR-022:236).
- `queue` does not keep a run from being claimed while its incumbent runs; it is
  claimed, checked and put back (ADR-022:237, `handler-authoring.md:95`).
- The cascade reads every row of the root: cancelling a child also cancels its
  parent and siblings (`job-orchestrator.drizzle-backend.ts:343`), and an
  abandoned child's own children (ADR-022:205).
- A child inserted while the cascade runs, or by the handler of a run that was
  cancelled already, survives it (`job-worker.ts:816`, ADR-022:236).
- After a replay or a late retry several runs of a key are in flight; `replace`
  cancels one of them, in no defined order, and inserts the new run beside the
  others (`job-orchestrator.drizzle-backend.ts:201-211`).
- Two replays of one run that meet each other and a worker put a run that has been
  claimed in between back to pending: the status check and the reset are two
  statements (`job-orchestrator.drizzle-backend.ts:392`), and two executions
  of it are then under way. The properties of `JobWorker` excuse a replay for it.
- A step whose record fails is done again: a wrapper can start its user job
  twice (`bridge-delivery-handler.ts:171-176`; `SpawnOnce` says when).
- A verdict is not final: `markSkipped` and `markDelivered` are keyed on the id, so
  a retry in a worker of another build can turn a delivered row into a skipped one
  (`bridge-delivery.drizzle-backend.ts:111-137`); `ImplementsPromise` says for
  which deliveries.
- A wrapper that exhausts its attempts leaves its delivery `pending`
  (deferred in `BRIDGE-5.md:77`).
- The exponential backoff reaches `MAX_SAFE_INTEGER` milliseconds, which is no
  valid date when added to the clock (`job-worker.ts:118-135`).
- The memory backend releases all runs that wait for one incumbent together, and
  they then run at once; its comment says that it mirrors the claim-time gate of
  Drizzle (`job-orchestrator.memory-backend.ts:57-62`), `JOB-3.md:197` that queue
  serializes. `LaneKeepsTwoApart` says how far it does.
- In the memory backend a tick that outlives the cancel and the replay of its run
  settles the replayed run.
- BullMQ ignores an `add` whose id it has, and finished jobs keep theirs: the
  replay of a run whose job is retained, a start after the dedupe window, and
  two job types with equal keys (the id is a hash of the key alone) leave a row
  pending that nothing will execute. `LiveRunIsBacked` says that among the calls
  of the code there is no other way but a removal and a death; BullMQ's own ways
  to give up a job (stall limit, deduplication window, parent links) are not
  modelled.
- The BullMQ cancel of a run that is terminal already removes the job of that id,
  which may belong to a newer run; its cascade removes the jobs of abandoned
  children, and on a failed parent those of all children, whose rows stay
  pending.
- A BullMQ worker that dies between the completing UPDATE and BullMQ's own
  acknowledgement executes a completed run again: only `canceled` is skipped
  (`job-worker.bullmq-backend.ts:150`).
- **A slot between boot pass and first tick is lost without any fault**, with
  `catchUp` too: the boot pass inserts up to the slot it read the clock in, the
  first tick from the slot it fires in, and the next boot goes by the newest
  slot, which is past the gap (`event-scheduler.ts:252-258`). `ADR-039:105`:
  "backfill every missed slot". `EverySlotAccounted` names such slots
  (`straddled`) apart from those that the policy, the cap or a failure gives up
  (`lapsed`).
- `align: false` anchors slots at the start of each instance, so instances
  compute different keys, while `event-scheduler.ts:122-124` says every instance
  computes the same value; the slot properties are stated for aligned schedules.
- A `stop()` that comes during the boot pass is followed by `setInterval`.
- A run item that cannot be recorded after its row was written is counted as
  failed, and its change event is never published.
- A crashed integration run stays `running`; the header of the use case says that
  its run is always completed.
- `timeoutMs` (`handler-authoring.md:87`) is enforced nowhere; `waiting` and
  `timed_out` are never written.

## 6. Not modelled, and limits of the models

- Claim order (`priority`, `run_at`) is abstracted to any claimable row. Two runs
  of one key that are claimed together defer each other, and with the same order
  next time they can do so again: `EveryRunSettles` is stated for runs without a
  key. A deferred row keeps its place at the head of the order.
- A sweep does not count as an attempt, so a run that kills its worker is
  executed for ever; the fault bound hides this, and `EveryRunSettles` says
  nothing against it.
- A failing write is taken as not applied; a commit whose acknowledgement is
  lost is not modelled.
- `Orchestrator` leaves out `cascade: false`, the tenant gate (`spawnChild`
  passes no tenant, so it throws in a multi-tenant deployment),
  `upsertJobDefinition`, and start inside a caller's transaction.
- `ClaimLease`: a renewal that lands after a later one is left out (`Margin`
  asks for a latency below the heartbeat), and a shutdown is not followed.
- `Bridge`: the drainers share one registry (the executions of wrappers may be of
  different builds), wrappers are not cancelled, and the run has no event that is
  inert.
- `EventScheduler`: a tick pass is over before the next one (in the code a pass
  that outlasts the interval overlaps the next, which inserts idempotently), and
  a `stop()` during the boot pass is left out; schedules in the run have one
  period.
- `Integration`: filters on refs (they narrow the feed), several tenants and
  sinks that reproject on noop are left out. `IncrementalReadBase` marks every
  change as an update; the deletions of the model come from other sources of
  changes, which are treated alike.
- `MemoryJobs`: the dedupe window, the tenant gate, priorities and `seq` are left
  out; priorities only choose among the claimable runs.
- `BullJobs`: BullMQ's deduplication window, its limit on stalled jobs, parent
  links and a lock that expires under a live worker are left out.
- The LISTEN connection (`pg-notify.ts`: connect, drop and reconnect around
  awaits), the OAuth refresh (two refreshes with one rotating token) and the
  numeric edge of the retry backoff have hazards of their own and no module.
  Redis does its queueing outside the repository; cache, storage, observability
  and the base classes are single statements.
- The generator (`src/`, `templates/`, `packages/`) is most of the repository: it
  transforms YAML to text sequentially, keeps no state while it runs, and what
  would be worth saying about it is about the text it writes. It is not modelled,
  and that is why the mapped lines are a small share of the implementation's.

## 7. What is left to do

A module for the LISTEN connection and one for the OAuth refresh; in
`Orchestrator` a start inside a caller's transaction.
