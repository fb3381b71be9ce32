# Promin workflow engine: TLA+ models, checks and proofs

The modules here model the core of Promin: durable workflow runs and the locks
that give a run one driver at a time, the step queue between coordinators and
workers, journaled steps with their child runs, the scheduler and its leader
lease, the start queue through which the Zorya server hands runs to workers,
and durable state machines. TLC checks the models on small instances, TLAPS
proves what can be proved for every instance. Paths below are relative to
`packages/workflow/src/lib/` unless they begin with a package name.

## 1. Inventory

### The system

A *workflow* is a DAG of steps. A *run* of it is a row in a storage, with one
row per step. A *driver* (a process that called `run`, or a coordinator) takes
the run lock, executes the ready steps wave by wave, stores each outcome, and
ends the run. Processes die, stall past their lock, lose answers; another
driver then picks the run up from its rows. Steps may sleep, wait for signals,
trip a wire that ends the run, or ask to continue as a new run. A run that
fails is rolled back: completed steps with a `compensate` function are undone,
in reverse order of dependency.

A *journaled* step is a function that is re-run from the top against a journal
of what it did before: activities, signal waits, child runs. With workers, a
step's body runs elsewhere: the driver's executor enqueues a task, a worker
claims it, runs it and settles it, and the executor takes the outcome and stores
it. On a Zorya server whole runs are handed out: the server creates the row and
queues a *start*, a worker claims the start over HTTP, drives the run under the
run lock and completes or releases the start. The scheduler's poll loop, on
whichever server holds the leader lease, creates the runs of due schedules.

| Component | State | Operations | Talks to |
| --- | --- | --- | --- |
| Run lock, `durable/in-memory/lease-table.ts` | lease per run (token, expiry, attempt id), token counter | acquire, extend, release, fence check, forget | every fenced write of the storage |
| Lock scope, `durable/with-lock.ts` | heartbeat timer, abort signal | acquire with state, heartbeat, release | lock, driver |
| Run storage, `durable/in-memory-storage.ts` | run rows, step rows, compensation ledger, signals | create, checkpoint, suspend, complete, fail, tripwire, cancel, fresh run, reset, listings | drivers, scanners, clients |
| Orchestration, `durable/runner/orchestrate.ts` | the cycle of a driver | entry gate, DAG walk, completion, retry, rollback, continue-as-new | storage, executors |
| DAG executor, `durable/runner/dag-executor.ts`, `wave.ts`, `step-checkpoint.ts` | results so far, ready set | waves, checkpoints | storage, step bodies |
| Compensation, `durable/runner/compensation.ts` | ledger | order, undo, record | storage |
| Sleep and signal steps, `durable/steps/suspend-steps.ts`; `distributed/resume-scanner.ts` | parked steps, due times | park, scan, resume | storage, drivers |
| Journaled steps, `durable/journaled-step.ts`, `journal-cursor.ts`, `journaled-ctx-*.ts`, `compensation-stack.ts` | journal of a step, cursor, stack of compensations | replay, activity, signal wait, unwind, discard and retry | storage, signals |
| Child runs, `durable/journaled-ctx-child.ts`, `child-wake.ts` | child row, child-ended signals | start, re-run, park, wake | storage, both drivers |
| Coordinator, `distributed/coordinator.ts` | runs it drives | submit, adopt orphans, sweep the queue | storage, queue |
| Step queue, `distributed/in-memory-step-queue.ts` | tasks, slot per step | enqueue, claim, release, heartbeat, complete, fail, sweep, consume, purge | executors, workers, coordinators |
| Worker, `distributed/worker.ts` | map of active tasks | claim loop, execute, heartbeat, commit, stop | queue |
| Executor, `distributed/step-queue-executor.ts`, `durable/runner/executor-wave.ts` | one wait per dispatched step | enqueue, poll, consume, give up | queue, storage |
| Leader lease, `scheduler/leader-lease.ts` | record per key: instance, epoch, expiry | acquire and refresh, release, fence of a write | poll loops, queue sweeps |
| Scheduler, `scheduler/durable-scheduler.ts`, `in-memory-scheduler-storage.ts`, `zorya/src/server/services/scheduler-loop.ts` | schedules with tick numbers, due index, tick log; per process: lease, backoff | poll, plan, dispatch, commit, register, update, pause, resume, remove, manual fire, stop | leader lease, run creation |
| Start queue, `distributed/workflow-start-queue.ts` | one record per run: claim token, requeued mark, delay | enqueue, claim, heartbeat, complete, release, reclaim | server, workers |
| Server-driven runs, `zorya/.../queued-workflows.ts`, `run-extras.ts`, `zorya-client/src/lib/worker.ts` | run rows; per worker: runs in flight | dispatch, scans, orphan sweep, rerun, resume; claim, drive, settle, stop | start queue, storage, run lock |
| State machines, `durable/state-machine.ts`, `state-machine-storage.ts` | machine row with revision, history, lock, timers | send, guards and actions, timeouts, retries, heartbeat | storage |
| Registries, streams, database backends, HTTP transport, containers, data packages, agents, the console | see `PROJECT.json` | | |

Nothing shares memory across processes: everything meets in the storages and the
queues, whose methods are atomic, and every `await` between two of them is a
point where others step. The in-memory backends are the reference
implementations of the contracts (the test suites run them and the databases
against the same expectations), so they are the ones modelled.

### What is hard, and what must hold

- *Lock and fence.* A lease lapses while its holder still runs; an acquire's
  answer is lost and repeated; a late release. Correct: at most one caller whose
  writes are accepted, tokens never shared, accepted tokens never go back.
- *Crash and takeover.* A driver dies between any two writes. Correct: the
  successor neither repeats nor skips a stored step, a rollback is finished and
  in order, every run ends.
- *Cancel and endings.* A cancel lands between any two awaits of a driver.
  Correct: what a driver answers is what is stored, ended runs stay ended.
- *Parking.* A signal arrives before the run is parked, a driver dies after it
  was resumed. Correct: no wake is lost, no run is stranded.
- *Replay.* A body meets a journal with an activity that was started and never
  recorded; a delivery, a timeout and a lapsed driver complete the same entry;
  an unwind is cut short. Correct: an effect is neither made twice nor
  forgotten, live runs and replays agree, a rollback is whole and in reverse.
- *Children.* A child ends before its parent has parked on it, the call that
  wakes the parent fails. Correct: the parent goes on.
- *Queue.* Late settlements, sweeps of live workers, dead letters, slots freed
  by consume and purge. Correct: one unconsumed task per step, bounded
  deliveries, outcomes that never change, limits kept by batches too.
- *Dispatch.* Two coordinators wait for one task, a task of an earlier run
  settles late, a worker claims a task it is still running. Correct: stored
  outcomes belong to the run, nothing is redone without a fault, waits end,
  `stop` waits.
- *Leadership and schedules.* Two servers believe they lead; a dispatch fails,
  times out and succeeds late; operators edit a schedule during a poll. Correct:
  epochs have one owner and are accepted in order, tick numbers have no gaps, a
  recorded tick has its run, a due schedule fires.
- *Starts.* A run is wanted again while its start is claimed; claim answers are
  lost; claims go stale under live workers; operators reset a run under a
  driver. Correct: no wake-up is swallowed, an unfinished run keeps a start, an
  ended run is whole.
- *Machines.* Sends overlap, locks expire under slow hooks, timers go off in
  the middle of a send, hooks are retried. Correct: no transition is lost or
  made twice, an answer says what was saved, a timeout fires when due and only
  then.

`PROJECT.json` lists these hazards one by one, at their lines, with the
properties that would catch them.

## 2. Modules

| Module | Models | Kind |
| --- | --- | --- |
| `Fence` | a run lock as a value: what an acquire, a release, an expiry leave and what a fence accepts | operators, used by the next two and by `WorkflowRun` |
| `FencedLock` | what the run lock promises | abstract specification |
| `LeaseTable` | `lease-table.ts` with clock, attempt ids, lost answers, and its callers | implements `FencedLock` |
| `WorkflowRun` | one workflow id: storage, drivers, recovery, scanners, clients | composition |
| `JournaledStep` | one journaled step of a run: drivers, journal, unwind, a child run, scanners | composition |
| `StepQueue` | `in-memory-step-queue.ts`, open to any client | component |
| `StepDispatch` | workers and executors on that queue | composition, EXTENDS `StepQueue` |
| `LeaderLease` | `leader-lease.ts`, one key | component |
| `Scheduler` | poll loops, operators and the scheduler storage of one namespace | composition, EXTENDS `LeaderLease` |
| `StartQueue` | `workflow-start-queue.ts`, open to any client | component |
| `WorkerRuns` | server, workers and run rows around that queue | composition, EXTENDS `StartQueue` |
| `StateMachine` | one machine, its sends, hooks, timers and lock | composition |
| `LeaseTableProofs`, `WorkflowRunProofs`, `JournaledStepProofs`, `StepQueueProofs`, `StepDispatchProofs`, `SchedulerProofs` (`LeaderLease` too), `WorkerRunsProofs` (`StartQueue` too), `StateMachineProofs` | theorems | TLAPS |
| `MC*` | instances and symmetry sets | TLC |

A definition whose comment says *Variant* is a plausible mistake in the
definition that follows it. It is not
part of the specification: `PROJECT.json` uses it to show that the property it is
paired with would notice. In `WorkflowRun` and `JournaledStep` one invariant
also carries `TypeOK` as its first conjunct; of the others types are a theorem.

### LeaseTable

`leases`, `nextFenceToken` are the fields of the class, `now` is its clock.
`attempt` and `held` are the callers': the acquire call in flight and the token
they were given. One action per method. `GrantUnheard` is an acquire whose
answer is lost, `Repeat` the same call again (same `attemptId`), `Crash` a
caller that forgets everything. `accepted` is history: the token of the last
accepted write.

### WorkflowRun

`row` is the run's row with its step rows and ledger, `delivered` and `due` the
signal store and the clock as the listings see them, `drv` the locals of each
driver. A driver's action is what `orchestrate.ts` does between two awaits that
touch the storage; `PC` names the awaits. `view` is the state the driver loaded
and `done` the completed steps its walk counts, so a stale driver acts on stale
data, as in the code. The lock is a `Fence` value, its expiry an action that may
happen at any time: `LeaseTable` shows that the table behaves like that.
Clients call `run` (with `force` or not), signal and cancel at any time.

Abstracted: results, inputs and errors; a step is its status. `Recover` and
`ScanAndResume` read the listing and take the lock in one step; a driver that
acts on an outdated listing is a `Call`, which may happen at any time too.

### JournaledStep

`journal` maps slots to entries: none, pending, or completed with an exit. A
driver's record holds its place in the body, the slot the cursor has reached,
the journal it loaded (`snap`), what the body was given for each yield (`seen`)
and the compensations it has registered (a set: the order of registration is
the order of their slots). Each await of `runJournaledStep` and of the
three kinds of yield is an action: replay of a completed entry, the pending row
before an activity, the effect, the completing row, the park on a signal or a
child, the unwind one compensation at a time, the discard before a retry. The
row of the step and the end of the run are two writes, and the first leaves the
run's status alone: a resumed run is `suspended` until it ends (`StepSaved`). The
child has a row and a run number of its own. A parent first creates its row, or
reads its status, under its own fence (`CreateChild`) and then takes the child's
lock under none (`TakeChild`), with `force` if it read a failure. The child is
driven by the parent's driver or by somebody else, and wakes the parent through
a child-ended signal that may be lost and is swept up later. A child that has
slept saves the row of its sleep before it ends and is still stored as
`suspended` in between, with no row that waits: *awake* in the model. `inForce` is history: the executions of an
activity that have happened and have not been undone. The lock is just its
holder, for `LeaseTable` has the rest.

### StepQueue

`tasks`, `activeByKey` are the maps of the class; the shared `counter` is split
into `ntasks` and `nclaims`. A task's age against the stale timeout is one of
*recent* and *old*, which is all a sweep distinguishes. Routing is a set of keys
per worker. One concurrency key with one limit; tasks outside it are free of
limits. `QueueSpec` lets every client make every call with every token handed
out so far: what holds there holds whoever the clients are. A purge of several
tasks is several `Purge` steps.

### StepDispatch

`execs` are the executions going on in worker processes, with the claim token
of each; `active` is the worker's map *by task id*, and the two are kept apart
because the code does. `wait` is one `runAttempt` per coordinator and step; `pc`
names its awaits (`get`, `consume`, `loadWorkflow`, `fail`, `enqueue`). `run` is
the run as executors see it: number, ended or not, fence epoch, rows. The steps
are one wave. A takeover raises the epoch while the superseded coordinator goes
on waiting, as the code's wait loop does not look at the abort signal.
`DeadWorkerSweep` may hit any worker: the registry judges by heartbeats.

### LeaderLease and Scheduler

`leader` is the record of one key, `granted` and `written` are history. A fenced
write looks at the epoch only, so a lapsed lease that nobody took over still
writes, as in the code.

`Scheduler` adds the rows of the scheduler storage (`sched`, the due index
`nextRun`, the tick log), the poll each instance has in progress and what its
process keeps between polls (lease held, backoff per schedule). A poll is: take
the lease, read the due batch, plan each schedule from the row just read,
dispatch tick by tick, commit by compare-and-set on incarnation and tick count
under the lease. A dispatch may fail, or miss its deadline and start the run
later (`late`). Operators register, update, pause, resume and remove schedules
in the storage calls the code makes, and fire by hand (`emit`), between any two
steps of a poll. Occurrences are those of an interval: cron and RRULE schedules
differ in the list of occurrences and in nothing that is modelled here.

### StartQueue and WorkerRuns

`rec` is the record of each run, `order` the insertion order of the map, `owed`
history: the enqueue that no claim has answered yet. Whether a claim is stale
and whether a delay is still ahead are flags that time turns.

`WorkerRuns` adds the run rows, the run lock, the claims and drives of the
workers and the server's calls. A drive goes claim, adopt, lock, steps, rest or
end, settle (complete, release, release with a delay), each an await; the
worker's `inFlight` map, its stop in two phases and its death are as in
`worker.ts`. The server's dispatches, timer and signal scans, orphan sweep,
rerun and resume are calls of two or three awaits in `srv`, any of which may
die half-way. `stray` marks the runs that a half-done call left behind; the
orphan sweep is there for them.

### StateMachine

The stored machine is its state, a revision, and a context that counts the sends
which went into it. A `call` is a send or a firing of a timer between its
awaits: guard and action (`decide`), `onExit`, `onEnter`. The in-memory storage
answers within one turn of the event loop, so others step only while a hook
runs: the lock may expire there, a heartbeat may find that it has, the state's
timer may go off, and further sends come. `retryMiddleware` re-runs a transition
from the point the code resumes at.

## 3. Runs

| Run | Question | Bounds |
| --- | --- | --- |
| `lease_table` | one writer, stability of live leases, refinement of `FencedLock` | 1 run id, 2 callers, 4 tokens, 5 ticks with leases of 2 |
| `run_faults` | knowledge of the holder, whole and ordered rollback, a run that is given up only when it has ended or is parked on a row, under a fault, a retry and a forced call | a step of work, then a signal wait beside work that may fail; 2 drivers, 2 client calls, one of which may be forced, 1 retry, 1 fault, no cancel (`run_recovers` has one; the theorems of these properties have any number); drivers symmetric |
| `run_recovers` | every run of plain steps ends, also when the successor fails too; an end is final; what a driver answers is what is stored, also when a cancel came in before or after its last write | 2 steps, 2 faults, 1 cancel, 1 forced call |
| `run_parked` | parked runs end unless they wait for a signal nobody sends, nothing follows a fired tripwire | 5 steps (sleep, timed and untimed wait in parallel, tripwire, continue), 2 runs in a chain, no faults |
| `step_queue` | the queue's own promises | 3 steps, 2 workers, 3 tasks, 3 claims, 2 deliveries, limit 1 |
| `dispatch_faults` | stored outcomes belong to the run, redone only for a fault, `stop` waits | 1 step with 1 retry, 2 coordinators, 1 worker of concurrency 1, 2 runs, 3 tasks, 3 claims, 2 faults, 1 stop |
| `dispatch_waits` | every wait ends | 1 step, 2 coordinators, 6 claims, 1 fault |
| `scheduler` | tick numbers without gaps, recorded ticks that were started, order of fires and of accepted epochs, due schedules fire | 2 instances, 1 schedule of interval 1, 3 ticks, leases of 1, catch-up of 2, 1 event (fault, stop, operator call or manual fire) |
| `worker_runs` | no wake-up swallowed, unfinished runs queued, ended runs whole | 1 run (sleep, signal), 2 workers, 3 claims alive, 2 faults, 1 operator call; workers and tokens symmetric |
| `worker_runs_driven` | every run there is something to do for is moved on | 1 run (work, sleep, signal), 2 workers, 1 fault |
| `journaled_step` | effects made once and remembered, rollback whole and in reverse, replay agrees with the live run, no run is forgotten | body of a compensable activity that may fail (and whose undo may), a signal wait with timeout, a compensable activity, an idempotent one, a child that may fail; 2 drivers, 1 retry, 1 fault, 2 child runs; drivers symmetric (1.5 million states) |
| `state_machine` | no transition lost or doubled, truthful answers, timeouts that fire when due and only then | 3 states, a self-loop, an error state, 2 timeouts; 2 calls at once, 3 sends, limit 2, 1 retry, 1 expiry |

Why the bounds are enough to be interesting: two drivers (workers, instances)
are the superseded one and its successor, and a third would meet only one of
them at a time; two faults give a fault of the successor as well; three steps
are the least with both a dependency and a parallel pair; two deliveries reach
the dead letter after one requeue; two runs are an archived one and its
successor; three claim tokens are an outdated, a current and a next one; three
ticks of the clock see a lease granted, lapsed and taken over while a schedule
falls due twice; two overlapping calls and one expiry are one send overtaking
another. Where one fault was all that fits with liveness, the same instance with
two was also checked for safety (`MCSchedulerTwoFaults.cfg`, 2.0 million
states). Every bound is a named constant of the module and a conjunct of a
guard. `CHECK_DEADLOCK FALSE` stands where the bounds, or the end of the run,
leave nothing to do.

`NoRunIsForgotten` is the safety half of the liveness of journaled runs: a run
that has not ended and that nobody drives is listed, or what will list it is
still to come. `MCJournaledEnds.cfg` (`MCJournaledStep`, 455,000 states) checks
the other half, `RunEnds` under `FairSpec`, for a body of a wait, an activity and
a child with one fault. Both excuse a run that is `Stranded` (section 5).

Two more configurations tie the compositions to what is proved of their
components: `MCSchedulerLease.cfg` (`MCScheduler`) checks that every step of the
scheduler is a step of `LeaseSpec` or leaves the lease alone, and
`MCWorkerRunsQueue.cfg` (`MCWorkerRuns`, 1.8 million states) the same for the
server, the workers and `QueueSpec`. Both pass.

Every property is paired with a variant of a mapped definition under which the
same run reports it violated (`PROJECT.json`, "mutants").

### Fairness

Weak fairness only, and only of what a loop, a timer or a returning await does.

- `WorkflowRun`: a live driver goes on; recovery and the scanners run on timers,
  so an orphan or a due run that stays listed is taken; a lease nobody extends
  lapses; due times come.
- `StepDispatch`: poll loops of workers and executors tick, the stale sweep runs
  on a timer (the coordinator's and the executor's own), claims grow old.
- `Scheduler`: the clock moves, a running poll loop takes its next step, a stop
  that was begun gives the lease up.
- `WorkerRuns`: the server's loops, scans and sweep run, calls and drives that
  are alive go on, claims and locks nobody beats for lapse, delays pass.
- `JournaledStep` (`MCJournaledEnds` only): a driver at work goes on; something on
  the drivers' side happens as long as something can, and something on the side
  of everybody else (child, scanners, clock).
- `StateMachine`: hooks return, armed timers go off, time passes.

Nothing is assumed about crashes, heartbeats, signals, cancels, dispatches that
succeed, or client and operator calls.

## 4. Proofs

Proved by TLAPS for every value of the constants that meets the named
assumptions (`DurationAssumption`, `BoundsAssumption`, `QueueAssumption`,
`NoOneAssumption`, `LeaseAssumption`, `TokenAssumption`, `DispatchAssumption`,
`SchedulerAssumption`, `WorkerAssumption`, `MachineAssumption`,
`JournalAssumption`, `DagAssumption`, `BoundAssumption`: durations and
limits are numbers, routes and priorities are defined for every key, the markers
for "nobody" and "no token" are not an instance or a token, no event of a machine
is called "timeout", which is the name of the code's own event, and there are
finitely many coordinators and runs, which some proofs count; TLC evaluates them
in the runs). Each module has one inductive invariant and one lemma per action or
group of actions that keeps it; the theorems about single properties follow.

**Components**

`LeaseTableProofs`: `TypeCorrect`, `TokenOwnership`, `MutualExclusion`,
`FencingOrder`, `LeaseStability`, and `Refinement` (every step of the table is a
step or a stutter of `FencedLock`). `AtMostOneWriter` alone is not inductive: it
says nothing of a token whose answer is still under way, and a repeated call
could hand it to a second caller. The invariant adds that tokens not yet handed
out are nowhere, that an attempt id belongs to one caller, that a lease whose
acquire is unanswered is nobody's yet, that a token is held by one caller, and
that accepted writes are not ahead of the current lease. Mutual exclusion is
then that two accepted tokens are both the current one.

`StepQueueProofs`: `QueueTypeCorrect`, `StepRunsOnce`, `DeliveryLimit`,
`OutcomesAreFinal`, `TokensAreUnique`, `CapHolds`, for clients that call anything
in any order. The invariant `QueueInv` adds to the properties that ids above the
counter are free (`FreshIds`): without it an enqueue might overwrite a task. Its
parts lean on each other: the type of `deliveries` after a release needs that a
running task has been delivered. Calls that leave slots and ids alone are
handled by one lemma (`QuietStep`), the two that free a slot by another
(`LeaveKeeps`). A claim takes several tasks at once: its tokens are the places
of the tasks in the order of claiming, so they differ because that order is
total; and the tasks it takes of one concurrency key come after fewer than the
limit of tasks that run or are taken before them, of which the last one taken
has the most.

`SchedulerProofs`, first part, on `LeaderLease` alone: `LeaseInvariant`,
`LeaseTypes`, `OneOwnerPerEpoch`, `AcceptedWritesInOrder`, for any instances that acquire, release and write with
any lease they were ever given. That an epoch has one owner is inductive only
with two facts about the record: no lease was handed out beyond its epoch, and
whoever was given its current epoch is its holder, as long as it has one. A
refresh then repeats a lease its holder has, every other acquisition opens a
new epoch. Accepted writes are in order because none is ahead of the record.

`WorkerRunsProofs`, first part, on `StartQueue` alone: `QueueInvariant`, `QueueTypes`, `NoWakeupLost`,
`NoUrgentDelay`, for any clients with any tokens. The invariant says of each
record by itself that it answers the enqueue it owes (`Sound`); a call that
changes one record (`OneRecordChange`) or all stale ones (`ReclaimKeepsInv`)
keeps it because what it writes is sound.

**Compositions**

`WorkflowRunProofs`: `RunInvariant`, `HolderKnows`, `FailedRunsAreUndone`,
`DependentsUndoneFirst`, `AnswersAreStored`, `RunUsesTheLock`,
`DependenciesComeFirst`, `RollbackMissesNoDependent`, `OutcomesAreFinal`,
`CompletedStepsStay`, `LiveRunsAreKept`, `TripwireEndsItsWalk`, for any DAG,
drivers, retries and faults; `EndedRunsStayEnded` for workflows without sleeps
and waits, false otherwise (section 5).

- Only the driver whose token is good writes to the row, the creation of the row
  and cancels apart, and a token is one driver's. So the invariant says nothing
  of drivers that lost their lock, and a step of one driver has to be looked at
  with that driver's state only (`DriverStep`).
- What the holder knows depends on the await it is at (`Knows`): at the gate the
  row is what it loaded, or that with a cancel on top; in the walk the run is
  open or cancelled, and its completed rows are those the walk counts and those
  saved in this wave; in a rollback the run is compensating and what is still to
  be undone is what is completed, compensable and not in the ledger; at the end
  the row agrees with the answer or is cancelled.
- The row by itself (`RowSound`): a parked step means that the run is no longer
  pending or running; a ledger is only there in a rollback or after it. Without
  the second the order of undoing would not survive a checkpoint, without the
  first a resumed sleep that parks again could answer `suspended` for a run the
  store calls running.
- `RunUsesTheLock`: what happens to the lock of a run is an acquire, a release
  or an expiry of `FencedLock`, the specification `LeaseTable` implements.
- `OutcomesAreFinal` and `CompletedStepsStay` say of any workflow what a step may
  never do: a run that has an outcome of its own is written by nobody until a
  fresh run takes its number, and within a run no completed step is taken back.
  Both come from one case split of the writes there are (`WriteCases`): whoever
  writes to a step's row is the holder, in a wave the step is in, and so neither
  has the run an outcome nor the step a completed row. Cancelled runs are
  excepted from the first, for they may be parked (section 5).
- The theorems below look at a driver's step as a relation between its local
  state and the row before and after (`Move`); `DriveMoves` shows once that every
  action of a driver is such a move, and each invariant is kept move by move.
- `DependenciesComeFirst`: every stored step has its dependencies completed.
  Inductive with what the holder's wave is made of: ready steps of a set of done
  steps that is closed under dependencies (`OrderInvariant`). It gives
  `RollbackMissesNoDependent`: `compensationOrder` counts dependents among the
  completed steps only, and `Above`, the least set of steps closed under
  dependents, goes through all of them; in every reachable state the two agree
  on completed steps, since whatever lies on a path between two completed steps
  is completed.
- `LiveRunsAreKept` (`LetsGoOfNoLiveRun`) and `TripwireEndsItsWalk` come from one
  invariant of the holder's walk (`WalkInv`). The steps its walk has not come to
  are stored as it loaded them, so a resumed sleep that reports a suspension
  without writing one has its row; a body that parked has its row too, for
  nobody else writes it. So a wave that settles as suspended leaves a row to
  wake the run by, and every other way to give the run up is an end, or is
  reported as a lost lock or a lost write. A step that this walk saved as completed has
  not fired, and a wave with a fired tripwire never leads to another wave. Of the
  run as a whole neither can be said: a driver that dies or is abandoned in a
  resumed run leaves it with no row (`MCStranded`), and the next walk goes past
  a tripwire that fired in an earlier one (`MCTripwireCrash`).

`StepDispatchProofs`: `DispatchInvariant`, `RowsComeFromTheirRun`,
`QueueKeepsItsPromises`, `StopWaits`, `RedoneOnce`.

- Workers and executors are clients of the queue, but the composition does not
  implement `QueueSpec` step by step: `releaseUnfinished` gives several claims
  back, which the model takes as one step. `QueueCall` is what a step may do to
  the queue, that one included, and every `QueueCall` keeps the queue's
  invariant.
- A row is stored as completed only with a value of its run, because a wait that
  holds a value knows a task of its step and run with that outcome, tasks keep
  key, run and value (nothing in the package purges), and a wait whose epoch is
  the run's is of the run's number.
- `StopWaits` has the hypothesis `Capacity <= 1`; with two slots it is false
  (`MCStopForgets`). With one slot a worker claims only when its map is empty, so
  it never has two executions and each has its entry.
- `RedoneOncePerFault` bounds a number of completions and says nothing of what
  may still be completed. The invariant counts for each step, against the faults
  that were spent: the values there are, the waits of the current run that may
  still enqueue a task or be given a value (`Adders`), a task of the run that no
  wait of it looks at (`Loose`), and the driver still to come when the run has
  none (`Undriven`). Every step moves one of these into another, or spends a
  fault. That a coordinator which dies can leave both a task and a run without a
  driver, and spends only one fault, is where the count needs its wait for the
  task.

`SchedulerProofs`: `SchedulerInvariant`, `SchedulerUsesTheLease`,
`SchedulerWritesInOrder`, `OneLeaderPerEpoch`, `NumbersStayGapless`,
`RecordedTicksWereStarted`, `TicksAreInOrder`. The scheduler implements
`LeaseSpec`, because a loop presents only leases it was handed, so what the
first part of the module shows of any clients holds of it. A commit writes numbers and
times from a plan that was made some awaits before; the invariant says that a
plan whose compare-and-set would succeed was made from the row as it is, so the
numbers continue the log and the times come after those in it.

`WorkerRunsProofs`: `RunsInvariant`, `RunsUseTheQueue`, `RunsLoseNoWakeup`,
`LiveRunsAreQueued`, `EndedRunsAreWhole`. Server and workers implement the start
queue's specification, so its theorems hold of them. A run that is pending or
running has its start in the queue: nobody is about to complete a start whose
run went on meanwhile, unless an enqueue of that run is under way or has left
its mark on the record. `EndedRunsAreWhole` has the hypothesis `Operators <= 1`; two
concurrent reruns break it (`MCRerunRaces`).

`StateMachineProofs`: `MachineInvariant`, `NoUpdateIsLost`,
`CallersLearnTheOutcome`, `TimeoutsAreDue`. A call computes its transition from a
snapshot taken some hooks before, while the lock may expire; the save is refused
unless the revision is the snapshot's. The invariant says that a snapshot of the
current revision is the stored machine, and that the history is as long as the
revision.

`JournaledStepProofs`: `JournalInvariant`, `JournalTypes` and `LiveAgrees` for
every body; `StepInvariant`, `OneEffectHolds`, `EffectsRemembered`,
`RollbackWhole` and `UndoneReversed` for bodies that catch no failure
(`Caught = {}`: with a caught failure `OneEffect` is false, see `MCSlotShift`).

- For every body: only the driver that holds the run takes rows away, a
  completed row is never written again, and a pending wait is completed by the
  scanners alone. So what the holder loaded as completed is still there, and
  what a yield gave the body is what its row says.
- With nothing caught, the slot of a yield does not depend on the attempt
  (`SlotOf`), and its compensation sits right behind it. Rows are therefore
  named after the yield they belong to, lie in the order of the body, and the
  row of an activity tells whether its effect is in force (`RowsTell`).
- A driver past its lease goes on with the await it is in. The invariant says
  what it can still do: take an effect away, or add one under a row that is
  pending. Such a row stays pending, because an activity that may have happened
  is not run again, so at most one driver is busy with an activity (`OneBusy`)
  and the holder is not disturbed.
- An unwind takes the largest slot first, which is the reverse of the order in
  which effects were made; a discard finds nothing left that could have been
  rolled back, which is why a failed run is rolled back whole.

**Only model-checked**

- `TripwireStops` and `NoRunIsForgotten`: the first is false with a fault, the
  second rests on the child's wakes, which the invariants of the proofs leave out.
- All liveness (`RunEnds`, `WaitEnds`, `DueFires`, `DrivableRunIsDriven`,
  `TimeoutFires`): fairness and ENABLED are outside the prover's reach.
- What section 5 refutes, where no theorem states a hypothesis under which it
  holds.

Every other safety property of the passing runs is stated by a theorem.

## 5. Disagreements between the code and what it says of itself

Each configuration below is one that TLC refutes; they are kept to be run by
hand, with the module named. The property states what the quoted line promises.

| Configuration, module | Property | What the repository says | What the code does |
| --- | --- | --- | --- |
| `MCCancelSleep`, `MCWorkflowRun` | `EndedStaysEnded` | `durable/storage/README.md`: "Only `startFreshRun` and `resetSteps` leave a terminal status." | `suspendWorkflow` overwrites any status (`in-memory-storage.ts:518`): a sleep that parks after a cancel brings the run back |
| `MCTripwireCrash`, `MCWorkflowRun` | `TripwireStops` | `workflow-builder.ts:333`: a tripwire ends the run | only the wave that ran the step knows that it fired; after a crash between its row and the end of the run, the successor goes past it (`TripwireEndsItsWalk`: the walk it fires in does not) |
| `MCStranded`, `MCWorkflowRun` | `NeverStranded` | `distributed/README.md:383`: "Suspended runs are never adopted — the scanners resume them when due." | a resumed run keeps the status `suspended`; if its driver dies once the parked step is done, no listing has it (`LiveRunsAreKept`: it takes a death, an abandon or a lost write; a driver in good standing gives no such run up) |
| `MCForgotten`, `MCWorkerRuns` | `NeverForgotten` | the same | a worker that finds such a row completes its start, and nobody queues the run again |
| `MCStopForgets`, `MCStepDispatch` | `StopWaitsForEveryTask` | `distributed/worker.ts:158`: "Without it, stop waits for every task." | the worker's map is by task id: a task claimed again while an earlier delivery runs is forgotten when that one returns |
| `MCTickSwallowed`, `MCScheduler` | `RecordedTickRan` | `scheduler-loop.ts`, header: "A crash or a failed commit re-fires the same ticks (same tickNumber) on the next poll rather than losing them" | the next poll plans the occurrence that is newest by then, under the same number; the run id exists already, so the occurrence it records never ran |
| `MCResumeLost`, `MCScheduler` | `EnabledIsTracked` | `durable-scheduler.ts:257`: "It is due immediately" | a poll that planned the schedule while it was disabled commits after the resume and takes it out of due-tracking again |
| `MCRerunRaces`, `MCWorkerRuns` | `EndedRunIsWhole` | `run-extras.ts:291`: "resetting a live run would race its driver" | two reruns that both saw the run ended: the second resets the rows of the run the first has queued and a worker drives |
| `MCSlotShift`, `MCJournaledStep` | `OneEffect` | `journaled-step.ts`, header: "Successful activities that were not rolled back still replay and never run twice" | compensations take slots; an activity whose failure the body catches, and which succeeds on the retry, shifts the rows behind it |
| `MCChildAbandoned`, `MCJournaledStep` | `ChildOutcomeIsReal` | `journaled-ctx-child.ts:180`: "Nothing happened that the journal should remember" | a parent's driver that loses its lock while it drives the child journals that as the child's outcome |
| `MCChildRerun`, `MCJournaledStep` | `OneChildRunPerAttempt` | `orchestrate.ts:341`: a failed child is run again when its parent step is retried | a child that fails on its own while its parent is parked is run again by the parent's next drive, in the same attempt |

Five more follow from the models and need no configuration:

- A tripwire that fires beside a step that fails, in a workflow with retries, or
  that parks, does not end the run: the failure or the suspension counts first,
  and the next walk takes the tripwire for a completed step. This is why
  `TripwireEndsItsWalk` speaks of the walk in which it fires.
- Continue-as-new (`orchestrate.ts:289`) archives a run that was cancelled
  meanwhile and goes on with the next one: as soon as a step of kind `continue`
  meets a cancel, the cancelled workflow runs on.
- A superseded coordinator consumes an outcome it cannot store, and the new
  owner dispatches the step again, without the crash that
  `step-queue-executor.ts:154-156` calls the one window. This is why
  `RedoneOncePerFault` counts takeovers as faults.
- The window of `MCStranded` is there in journaled runs as well: between the
  step's row and the end of a resumed run, and in a child that was resumed, whose
  parent then waits for it for ever unless it has a deadline of its own. Without
  the excuse `Stranded`, `NoRunIsForgotten` is violated.
- With two faults `NoRunIsForgotten` is violated in another way: a lapsed driver
  that read the child as failed runs it again after its successor has parked on
  the run it read, without a deadline; when that run's wake call is lost as well,
  `redeliverChildEndedSignals` passes the parent over, for the child's run number
  has moved on (`zorya/src/server/services/workflows/run-maintenance.ts`).

Seen while modelling, outside what the properties say: an `update()` or a
re-registration of a schedule has its `nextRun` overwritten by a poll that
planned from the row before it; a manual fire shares its number with a tick a
poll has dispatched and not committed; the error plan's `setEnabled(false)`
does not check the incarnation; schedules that keep failing can fill the batch
and keep others out; the worker's `inFlight` map is keyed by the start; a driver
past its lease may still be inside a compensate callback.

The passing runs stay within what these leave true: plain steps for
`EndedStaysEnded`, no faults for `TripwireStops` and for the liveness of parked runs, concurrency 1 for `StopWaitsForEveryTask`, poll ticks
only for `RecordedWasStarted`, one operator call for `EndedRunIsWhole`, no
caught failures for `OneEffect`, one fault for `NoRunIsForgotten`, which excuses
the runs its `Stranded` is about; `DrivableRunIsDriven` excuses those
`NeverForgotten` is about.

## 6. Not modelled

Most of the repository's lines are not about running workflows, or render for a
database, a wire or a page what the modules above model once.

- *Database backends* (`postgres`, `sqlite`, `redis`): the same storage and queue
  contracts in SQL and Lua. Their methods are atomic because the database makes
  them so; the model of the in-memory backend is the contract they are tested
  against.
- *Console, client library pages, agents, data packages, evals, containers, HTTP
  transport*: I/O, presentation, model adapters, sequential analytics. Of the
  transport, lost answers and repeated calls are in `LeaseTable` and
  `WorkerRuns`.
- *Authoring API* (builders, schemas, versions): sequential construction of the
  definitions that are constants here.
- *Registries, event streams*: rows with heartbeats and observation; the models
  let a registry call any worker dead and decide nothing by events.

Left out of the modelled parts:

- `WorkflowRun`: deadlines, idempotency keys, hooks, version draining, `mapOver`
  rows, the local runner's unlocked `resume({ fromStep })`, and the operator
  endings of the console (an unfenced `failWorkflow` under a driver that only
  looks for cancels).
- `JournaledStep`: `ctx.parallel`, `ctx.sleep`, payload hashes and patches,
  lazily loaded child definitions, storage outages during an unwind, cancels.
- `StepDispatch`: `taskFilter`, middleware, hooks, `onFailure`, and `purge`, which
  nothing in the package calls.
- `Scheduler`: the lease renewal that may still arrive after a stop, polling
  across namespaces, partitions, the stream interface, `triggerNow` and
  backfill, cron and RRULE arithmetic, the election loop of
  `leader-election.ts`.
- `WorkerRuns`: deletes and cancels, the control socket, version routing, paused
  workflows. How a drive walks its steps is `WorkflowRun`'s subject.
- `StateMachine`: the rate limit, versions, `restore()` (which arms no timer),
  the existence check of `start()` (not atomic with the creation), several
  instances over one storage (they do not know each other's timers), remote
  storages. A firing that fails is swallowed and not armed again, which is why
  `TimeoutFires` excuses it; a lock that expires under a self-loop lets the old
  timer fire early, which is why `TimeoutIsDue` and `TimeoutFires` excuse
  expiries. `maxTransitions` is looked at by sends and not by timeouts.

## 7. Plan

Done: the run lock; runs; the step queue and dispatch; the leader lease and the
scheduler; the start queue and server-driven runs; journaled steps with child
runs; state machines; and proofs of their safety.

Left, most valuable first:

1. Operator endings beside an active driver, `resume({ fromStep })` of the local
   runner, `mapOver` rows.
2. `CompensationOrder`: the sequence `compensation.ts` computes, against the
   definition by dependencies that `NextToUndo` uses, over all small DAGs.

## 8. Running

    tlc -workers 2 -config MCRunFaults.cfg MCWorkflowRun
    tlapm StepQueueProofs.tla

The run names of section 3, their modules and their configurations are in
`PROJECT.json`; the configurations of section 5 are run the same way, and end
with a counterexample. The longest runs take three to four minutes, a
module's proofs up to about five.
