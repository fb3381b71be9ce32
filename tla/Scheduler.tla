------------------------------ MODULE Scheduler ------------------------------
(***************************************************************************)
(* The poll loop of the scheduler and what it shares with operators:       *)
(*   packages/zorya/src/server/services/scheduler-loop.ts                  *)
(*   packages/workflow/src/lib/scheduler/durable-scheduler.ts (planning,   *)
(*     committing and the management calls)                                *)
(*   packages/workflow/src/lib/scheduler/in-memory-scheduler-storage.ts    *)
(*                                                                         *)
(* A storage call is one step; whatever a caller does between two awaits   *)
(* belongs to the step of the call before them.  The schedules fire at an  *)
(* interval; cron and RRULE schedules differ from them only in the list of *)
(* their occurrences.  Time 0 stands for null: a schedule that never       *)
(* fired, one that is not in due-tracking.  `lastError` is for display and *)
(* left out.                                                               *)
(***************************************************************************)
EXTENDS LeaderLease, Sequences, FiniteSets, FiniteSetsExt, Functions

CONSTANTS
    Schedules,    \* schedule ids of the namespace
    Intervals,    \* intervals a valid config may have
    StartAt,      \* config.startAt, 0: none
    EndAt,        \* config.endAt
    CatchUp,      \* config.maxCatchUp
    Jitter,       \* largest delay of a next run
    BatchSize,    \* most schedules of one poll
    Backoff,      \* maxDispatchBackoffMs
    MaxEvents     \* bound on the faults, stops, management calls and manual fires together

ASSUME SchedulerAssumption ==
    /\ Intervals \subseteq Nat \ {0}
    /\ {StartAt, EndAt, CatchUp, Jitter, Backoff} \subseteq Nat
    /\ BatchSize \in Nat \ {0}

VARIABLES
    sched,     \* id -> stored config and fire state; incarnation 0: no such schedule
    nextRun,   \* the due index: id -> time, 0: not in due-tracking
    log,       \* the tick log
    runs,      \* runs the workflow layer has created, one per run id
    poll,      \* instance -> its poll in progress
    loop,      \* instance -> running, held lease, dispatch backoff
    late,      \* dispatches that missed their deadline and are still under way
    admin,     \* a management call between two of its storage calls
    emit,      \* a manual fire (fireOnce) in progress
    events,    \* faults, stops, management calls and manual fires so far
    inserted   \* schedules inserted so far: the last incarnation handed out

schedVars == <<sched, nextRun, log>>
vars == <<leaseVars, schedVars, runs, poll, loop, late, admin, emit, events, inserted>>

NoSchedule == [incarnation |-> 0, enabled |-> FALSE, interval |-> 0, tickCount |-> 0, lastFired |-> 0]
NoPoll == [stage |-> "idle"]
Started == [running |-> TRUE, held |-> 0,
            backoff |-> [s \in Schedules |-> [failures |-> 0, retryAt |-> 0]]]

(* The schedules have just been registered. *)
Init ==
    /\ LeaseInit
    /\ sched \in [Schedules -> {[NoSchedule EXCEPT !.incarnation = 1, !.enabled = TRUE, !.interval = n] :
                                n \in Intervals}]
    /\ nextRun = [s \in Schedules |-> now]
    /\ log = {} /\ runs = {} /\ late = {}
    /\ poll = [i \in Instances |-> NoPoll]
    /\ loop = [i \in Instances |-> Started]
    /\ admin = [stage |-> "idle"] /\ emit = [stage |-> "idle"]
    /\ events = 0 /\ inserted = 1

Present(s) == sched[s].incarnation # 0

Event == events < MaxEvents /\ events' = events + 1

(* A call that fails, an answer that is lost, a process that dies. *)
Fault == Event

-----------------------------------------------------------------------------
(* Planning: pure functions of a loaded row and the clock. *)

(* Variant: the newest occurrence comes first. *)
ComputeDueTicksReversed(row) ==
    LET missed == (now - row.lastFired) \div row.interval
        fired == Min({Max({1, CatchUp}), missed})
    IN  IF now < StartAt \/ now > EndAt THEN <<>>
        ELSE IF row.lastFired = 0 THEN <<now>>
        ELSE [k \in 1..fired |-> row.lastFired + (missed - k + 1) * row.interval]

(* Scheduled times of the ticks due now, oldest first: the newest          *)
(* max(1, maxCatchUp) of the occurrences after the last fire.              *)
ComputeDueTicks(row) ==
    LET missed == (now - row.lastFired) \div row.interval
        fired == Min({Max({1, CatchUp}), missed})
    IN  IF now < StartAt \/ now > EndAt THEN <<>>
        ELSE IF row.lastFired = 0 THEN <<now>>
        ELSE [k \in 1..fired |-> row.lastFired + (missed - fired + k) * row.interval]

ComputeNextRun(row) ==
    LET candidate == now + row.interval
    IN  IF candidate >= EndAt THEN 0 ELSE Max({candidate, StartAt})

(* Next runs a jitter may give; the last occurrence stays within endAt. *)
JitterNextRun(next) ==
    IF next = 0 THEN {0} ELSE {Max({next, Min({next + d, EndAt})}) : d \in 0..Jitter}

(* A commit carries the row it was planned from: `guarded` says what of it *)
(* must still hold, and `ticks` are numbered from its tickCount.           *)
Commit(row, ticks, next) ==
    [incarnation |-> row.incarnation, tickCount |-> row.tickCount, ticks |-> ticks, at |-> now,
     next |-> next, broken |-> FALSE, guarded |-> ticks # <<>>]

(* An interval of 0 stands for a config that cannot be evaluated. *)
Throws(row) == row.interval = 0 /\ (now < EndAt \/ (now = EndAt /\ row.lastFired # 0))

PlanDueTicks(row) ==
    IF ~row.enabled THEN {Commit(NoSchedule, <<>>, 0)}
    ELSE IF Throws(row) THEN {[Commit(row, <<>>, 0) EXCEPT !.broken = TRUE, !.guarded = TRUE]}
    ELSE {Commit(row, ComputeDueTicks(row), next) : next \in JitterNextRun(ComputeNextRun(row))}

TickAt(s, c, k) == [schedule |-> s, incarnation |-> c.incarnation,
                   tickNumber |-> c.tickCount + k - 1, scheduledAt |-> c.ticks[k]]
TicksOf(s, c) == {TickAt(s, c, k) : k \in DOMAIN c.ticks}

SameRun(t, u) ==
    t.schedule = u.schedule /\ t.incarnation = u.incarnation /\ t.tickNumber = u.tickNumber

-----------------------------------------------------------------------------
(* Storage writes. *)

(* Variant: no compare-and-set on the tick count. *)
ConflictsByIncarnation(updates) ==
    {s \in DOMAIN updates : updates[s].guarded /\ sched[s].incarnation # updates[s].incarnation}

Conflicts(updates) ==
    {s \in DOMAIN updates :
        LET u == updates[s]
        IN  u.guarded /\ \/ sched[s].incarnation # u.incarnation
                         \/ u.ticks # <<>> /\ sched[s].tickCount # u.tickCount}

(* commitPoll: the updates whose guard holds, in one step.  A schedule      *)
(* paused or deleted since it was loaded stays out of due-tracking.        *)
CommitPoll(updates, manual) ==
    LET applied == DOMAIN updates \ Conflicts(updates)
        known == {s \in applied : Present(s)}
        new == {t \in UNION {TicksOf(s, updates[s]) : s \in known} :
                   \A l \in log : ~SameRun(l.tick, t)}
    IN  /\ sched' = [s \in Schedules |->
                       IF s \in known /\ updates[s].ticks # <<>>
                         THEN [sched[s] EXCEPT !.tickCount = @ + Len(updates[s].ticks),
                                               !.lastFired = updates[s].at]
                         ELSE sched[s]]
        /\ nextRun' = [s \in Schedules |->
                         IF s \notin applied THEN nextRun[s]
                         ELSE IF s \notin known \/ ~sched[s].enabled THEN 0
                         ELSE updates[s].next]
        /\ log' = log \cup {[tick |-> t, manual |-> manual] : t \in new}

SeedNextRun(s) == IF nextRun[s] # 0 THEN nextRun[s] ELSE Max({now, StartAt})

(* upsertSchedule: an insert starts a new incarnation, a replace keeps the *)
(* fire state.                                                             *)
UpsertSchedule(s, enabled, interval) ==
    /\ sched' = [sched EXCEPT
                   ![s] = IF Present(s)
                            THEN [@ EXCEPT !.enabled = enabled, !.interval = interval]
                            ELSE [NoSchedule EXCEPT !.incarnation = inserted + 1,
                                                    !.enabled = enabled, !.interval = interval]]
    /\ nextRun' = [nextRun EXCEPT ![s] = IF enabled THEN SeedNextRun(s) ELSE 0]
    /\ UNCHANGED log

SetEnabled(s, enabled) ==
    /\ sched' = [sched EXCEPT ![s].enabled = enabled /\ Present(s)]
    /\ nextRun' = [nextRun EXCEPT ![s] = IF ~Present(s) THEN @
                                          ELSE IF enabled THEN SeedNextRun(s) ELSE 0]
    /\ UNCHANGED log

-----------------------------------------------------------------------------
(* The poll loop of instance i. *)

Idle(i) == poll[i].stage = "idle"

Due(s) == sched[s].enabled /\ nextRun[s] \in 1..now

(* The batches findDue may answer: the oldest due ids, up to the limit. *)
DueBatches ==
    LET due == {s \in Schedules : Due(s)}
    IN  {b \in SUBSET due : /\ Cardinality(b) = Min({BatchSize, Cardinality(due)})
                            /\ \A s \in b, t \in due \ b : nextRun[s] <= nextRun[t]}

(* acquireLease, then findDue.  The lease's answer may be lost after the    *)
(* store granted it, or findDue fail: the poll is tried again later.       *)
FindDue(i) ==
    /\ loop[i].running /\ Idle(i)
    /\ \/ /\ Acquire(i)
          /\ \/ /\ loop' = [loop EXCEPT ![i].held = leader'.epoch]
                /\ \E b \in DueBatches \ {{}} :
                     poll' = [poll EXCEPT ![i] = [stage |-> "found", epoch |-> leader'.epoch, ids |-> b]]
                /\ UNCHANGED events
             \/ /\ loop' = [loop EXCEPT ![i].held = leader'.epoch]
                /\ DueBatches = {{}}
                /\ UNCHANGED <<poll, events>>
             \/ Fault /\ loop' \in {loop, [loop EXCEPT ![i].held = leader'.epoch]} /\ UNCHANGED poll
       \/ /\ ~CanLead(i)
          /\ loop' = [loop EXCEPT ![i].held = 0]
          /\ UNCHANGED <<leaseVars, poll, events>>
    /\ UNCHANGED <<schedVars, runs, late, admin, emit, inserted>>

(* A load of the poll failed: the loop reports it and polls again later. *)
PollFails(i) ==
    /\ poll[i].stage = "found"
    /\ Fault
    /\ poll' = [poll EXCEPT ![i] = NoPoll]
    /\ UNCHANGED <<leaseVars, schedVars, runs, loop, late, admin, emit, inserted>>

(* Variant: the retry time is not looked at. *)
BackingOffForGood(i, s) == loop[i].backoff[s].failures > 0

BackingOff(i, s) == loop[i].backoff[s].retryAt > now

(* processDueIds up to the dispatches: load, plan, leave out the schedules *)
(* that back off.  A plan without ticks forgets the backoff.               *)
LoadAndPlan(i) ==
    /\ poll[i].stage = "found"
    /\ \E plans \in [poll[i].ids -> UNION {PlanDueTicks(sched[s]) : s \in poll[i].ids}] :
        /\ \A s \in poll[i].ids : plans[s] \in PlanDueTicks(sched[s])
        /\ LET tickless == {s \in poll[i].ids : plans[s].ticks = <<>>}
               deliver == {s \in poll[i].ids : s \in tickless \/ ~BackingOff(i, s)}
           IN  /\ poll' = [poll EXCEPT ![i] =
                             [stage |-> "deliver", epoch |-> @.epoch,
                              plans |-> Restrict(plans, deliver),
                              todo |-> UNION {TicksOf(s, plans[s]) : s \in deliver},
                              failed |-> {}, skipped |-> {}, lost |-> FALSE]]
               /\ loop' = [loop EXCEPT ![i].backoff =
                             [s \in Schedules |-> IF s \in tickless
                                THEN [failures |-> 0, retryAt |-> 0] ELSE @[s]]]
    /\ UNCHANGED <<leaseVars, schedVars, runs, late, admin, emit, events, inserted>>

(* The workflow layer answers an existing run id from storage. *)
Start(t) == IF \E r \in runs : SameRun(r, t) THEN runs ELSE runs \cup {t}

(* One tick of the batch.  The dispatches of a batch run side by side, so  *)
(* they take effect in any order; one not yet begun is skipped once        *)
(* another tick of its schedule failed or the lease is known to be lost.   *)
Dispatch(i) ==
    /\ poll[i].stage = "deliver"
    /\ \E t \in poll[i].todo :
        \/ /\ runs' = Start(t)
           /\ poll' = [poll EXCEPT ![i].todo = @ \ {t}]
           /\ UNCHANGED <<late, events>>
        \/ /\ t.schedule \in poll[i].failed
           /\ poll' = [poll EXCEPT ![i].todo = @ \ {t}]
           /\ UNCHANGED <<runs, late, events>>
        \/ /\ poll[i].lost
           /\ poll' = [poll EXCEPT ![i].todo = @ \ {t}, ![i].skipped = @ \cup {t.schedule}]
           /\ UNCHANGED <<runs, late, events>>
        \/ /\ Fault
           /\ poll' = [poll EXCEPT ![i].todo = @ \ {t}, ![i].failed = @ \cup {t.schedule}]
           /\ late' \in {late, late \cup {t}}
           /\ UNCHANGED runs
    /\ UNCHANGED <<leaseVars, schedVars, loop, admin, emit, inserted>>

(* A dispatch that missed its deadline settles after all. *)
LateStart ==
    /\ \E t \in late : runs' = Start(t) /\ late' = late \ {t}
    /\ UNCHANGED <<leaseVars, schedVars, poll, loop, admin, emit, events, inserted>>

(* keepLease: a renewal while the batch is dispatched.  One that comes     *)
(* back with another epoch, or without a lease, marks the lease lost.      *)
Renew(i) ==
    /\ poll[i].stage = "deliver" /\ poll[i].todo # {} /\ ~poll[i].lost
    /\ \/ Acquire(i) /\ loop' = [loop EXCEPT ![i].held = leader'.epoch]
       \/ ~CanLead(i) /\ loop' = [loop EXCEPT ![i].held = 0] /\ UNCHANGED leaseVars
    /\ poll' = [poll EXCEPT ![i].lost = loop'[i].held # poll[i].epoch]
    /\ UNCHANGED <<schedVars, runs, late, admin, emit, events, inserted>>

(* The poll interval is the unit of time; a backoff ends with the clock at *)
(* the latest.                                                             *)
BackOff(b) == [failures |-> b.failures + 1,
               retryAt |-> Min({MaxTime, now + Min({Backoff, 2 ^ (b.failures + 1)})})]

(* Variant: a plan is committed though a dispatch of it failed. *)
DeliveredOrFailed(i) == Restrict(poll[i].plans, DOMAIN poll[i].plans \ poll[i].skipped)

(* Plans that may be committed: every tick of theirs was dispatched. *)
Delivered(i) == Restrict(poll[i].plans, DOMAIN poll[i].plans \ (poll[i].failed \cup poll[i].skipped))

AfterCommit(i, broken) ==
    LET failed == Restrict(poll[i].plans, poll[i].failed)
    IN  IF broken = {} /\ DOMAIN failed = {} THEN NoPoll
        ELSE [stage |-> "after", epoch |-> poll[i].epoch, broken |-> broken, failed |-> failed]

(* The batch is dispatched: back off what failed, commit the rest under    *)
(* the poll's lease.  A stale lease writes nothing; a call that fails may  *)
(* have been applied.                                                      *)
CommitBatch(i) ==
    /\ poll[i].stage = "deliver" /\ poll[i].todo = {}
    /\ loop' = [loop EXCEPT ![i].backoff = [s \in Schedules |->
                  IF s \in poll[i].failed THEN BackOff(@[s])
                  ELSE IF s \in DOMAIN Delivered(i) THEN [failures |-> 0, retryAt |-> 0]
                  ELSE @[s]]]
    /\ \/ /\ DOMAIN Delivered(i) # {}
          /\ FencedWrite(poll[i].epoch) /\ CommitPoll(Delivered(i), FALSE)
          /\ \/ /\ poll' = [poll EXCEPT ![i] =
                              AfterCommit(i, {s \in DOMAIN Delivered(i) : Delivered(i)[s].broken})]
                /\ UNCHANGED events
             \/ Fault /\ poll' = [poll EXCEPT ![i] = AfterCommit(i, {})]
       \/ /\ \/ DOMAIN Delivered(i) = {} /\ UNCHANGED events
             \/ ~AssertCurrent(poll[i].epoch) /\ UNCHANGED events
             \/ Fault
          /\ poll' = [poll EXCEPT ![i] = AfterCommit(i, {})]
          /\ UNCHANGED <<leaseVars, schedVars>>
    /\ UNCHANGED <<runs, late, admin, emit, inserted>>

(* What recordErrors writes besides the error: a paused schedule leaves    *)
(* due-tracking.                                                           *)
ErrorUpdate(s, c) == [c EXCEPT !.ticks = <<>>, !.next = nextRun[s], !.guarded = TRUE]

(* Disable the schedules that could not be evaluated, one call each, then  *)
(* record the failed dispatches under the poll's lease.                    *)
FinishPoll(i) ==
    /\ poll[i].stage = "after"
    /\ \/ \E s \in poll[i].broken :
             /\ SetEnabled(s, FALSE)
             /\ poll' = [poll EXCEPT ![i] =
                           IF poll[i].broken = {s} /\ DOMAIN poll[i].failed = {} THEN NoPoll
                           ELSE [poll[i] EXCEPT !.broken = @ \ {s}]]
             /\ UNCHANGED leaseVars
       \/ /\ poll[i].broken = {}
          /\ IF AssertCurrent(poll[i].epoch)
               THEN /\ FencedWrite(poll[i].epoch)
                    /\ CommitPoll([s \in DOMAIN poll[i].failed |-> ErrorUpdate(s, poll[i].failed[s])],
                                  FALSE)
               ELSE UNCHANGED <<leaseVars, schedVars>>
          /\ poll' = [poll EXCEPT ![i] = NoPoll]
    /\ UNCHANGED <<runs, loop, late, admin, emit, events, inserted>>

(* stop lets the poll in progress end, then gives the lease up.  Another    *)
(* instance keeps running: a system with no loop fires nothing.            *)
Stop(i) ==
    /\ loop[i].running /\ Event
    /\ \E j \in Instances \ {i} : loop[j].running
    /\ loop' = [loop EXCEPT ![i].running = FALSE]
    /\ UNCHANGED <<leaseVars, schedVars, runs, poll, late, admin, emit, inserted>>

StopRelease(i) ==
    /\ ~loop[i].running /\ Idle(i) /\ loop[i].held # 0
    /\ ReleaseLeader(i, loop[i].held)
    /\ loop' = [loop EXCEPT ![i].held = 0]
    /\ UNCHANGED <<schedVars, runs, poll, late, admin, emit, events, inserted>>

Restart(i) ==
    /\ ~loop[i].running /\ Idle(i) /\ loop[i].held = 0
    /\ loop' = [loop EXCEPT ![i].running = TRUE]
    /\ UNCHANGED <<leaseVars, schedVars, runs, poll, late, admin, emit, events, inserted>>

(* The process dies and is started again under the same instanceId. *)
Crash(i) ==
    /\ Fault
    /\ poll' = [poll EXCEPT ![i] = NoPoll]
    /\ loop' = [loop EXCEPT ![i] = Started]
    /\ UNCHANGED <<leaseVars, schedVars, runs, late, admin, emit, inserted>>

-----------------------------------------------------------------------------
(* Management calls. *)

Inserts(s) == inserted' = inserted + (IF Present(s) THEN 0 ELSE 1)

(* register: an upsert, then a call that makes an enabled schedule due.    *)
Register(s) ==
    /\ Event /\ admin.stage = "idle"
    /\ \E enabled \in BOOLEAN, interval \in Intervals :
        /\ UpsertSchedule(s, enabled, interval)
        /\ admin' = IF enabled THEN [stage |-> "set", id |-> s, interval |-> 0] ELSE admin
    /\ Inserts(s)
    /\ UNCHANGED <<leaseVars, runs, poll, loop, late, emit>>

(* update: the stored config is loaded and merged with the patch... *)
UpdateLoad(s) ==
    /\ Event /\ admin.stage = "idle" /\ Present(s)
    /\ \E interval \in Intervals :
         admin' = [stage |-> "merged", id |-> s, interval |-> interval, enabled |-> sched[s].enabled]
    /\ UNCHANGED <<leaseVars, schedVars, runs, poll, loop, late, emit, inserted>>

(* ...written back whole... *)
UpdateWrite ==
    /\ admin.stage = "merged"
    /\ UpsertSchedule(admin.id, admin.enabled, admin.interval)
    /\ admin' = IF admin.enabled THEN [stage |-> "set", id |-> admin.id, interval |-> admin.interval]
                ELSE [stage |-> "idle"]
    /\ Inserts(admin.id)
    /\ UNCHANGED <<leaseVars, runs, poll, loop, late, emit, events>>

(* ...and its next run set, as register sets it to now. *)
AdminSetNextRun ==
    /\ admin.stage = "set"
    /\ nextRun' = [nextRun EXCEPT ![admin.id] =
                     IF admin.interval = 0 THEN now ELSE ComputeNextRun(admin)]
    /\ admin' = [stage |-> "idle"]
    /\ UNCHANGED <<leaseVars, sched, log, runs, poll, loop, late, emit, events, inserted>>

PauseOrResume(s) ==
    /\ Event
    /\ SetEnabled(s, ~sched[s].enabled)
    /\ UNCHANGED <<leaseVars, runs, poll, loop, late, admin, emit, inserted>>

Unregister(s) ==
    /\ Event /\ Present(s)
    /\ sched' = [sched EXCEPT ![s] = NoSchedule]
    /\ nextRun' = [nextRun EXCEPT ![s] = 0]
    /\ log' = {l \in log : l.tick.schedule # s}
    /\ UNCHANGED <<leaseVars, runs, poll, loop, late, admin, emit, inserted>>

(* A config that cannot be evaluated, written straight to storage. *)
WriteInvalid(s) ==
    /\ Event
    /\ UpsertSchedule(s, TRUE, 0)
    /\ Inserts(s)
    /\ UNCHANGED <<leaseVars, runs, poll, loop, late, admin, emit>>

-----------------------------------------------------------------------------
(* fireOnce: load, take the next number by compare-and-set, dispatch.      *)

EmitLoad(s) ==
    /\ \/ emit.stage = "idle" /\ Event
       \/ emit.stage = "retry" /\ emit.id = s /\ UNCHANGED events
    /\ emit' = IF sched[s].enabled THEN [stage |-> "loaded", id |-> s, row |-> sched[s]]
               ELSE [stage |-> "idle"]
    /\ UNCHANGED <<leaseVars, schedVars, runs, poll, loop, late, admin, inserted>>

EmitCommit ==
    /\ emit.stage = "loaded"
    /\ LET s == emit.id
           c == Commit(emit.row, <<now>>, ComputeNextRun(emit.row))
       IN  IF emit.row.interval = 0 /\ now < EndAt
             THEN emit' = [stage |-> "idle"] /\ UNCHANGED schedVars
             ELSE /\ CommitPoll([x \in {s} |-> c], TRUE)
                  /\ emit' = IF s \in Conflicts([x \in {s} |-> c]) THEN [stage |-> "retry", id |-> s]
                             ELSE [stage |-> "fired", id |-> s, commit |-> c]
    /\ UNCHANGED <<leaseVars, runs, poll, loop, late, admin, events, inserted>>

(* A failed dispatch is the caller's to see: the number is not taken back. *)
EmitDispatch ==
    /\ emit.stage = "fired"
    /\ LET t == TickAt(emit.id, emit.commit, 1)
       IN  \/ runs' = Start(t) /\ UNCHANGED <<late, events>>
           \/ Fault /\ late' \in {late, late \cup {t}} /\ UNCHANGED runs
    /\ emit' = [emit EXCEPT !.stage = "record"]
    /\ UNCHANGED <<leaseVars, schedVars, poll, loop, admin, inserted>>

EmitRecord ==
    /\ emit.stage = "record"
    /\ CommitPoll([x \in {emit.id} |-> ErrorUpdate(x, emit.commit)], TRUE)
    /\ emit' = [stage |-> "idle"]
    /\ UNCHANGED <<leaseVars, runs, poll, loop, late, admin, events, inserted>>

-----------------------------------------------------------------------------
Poll(i) == FindDue(i) \/ LoadAndPlan(i) \/ Dispatch(i) \/ CommitBatch(i) \/ FinishPoll(i)

Clock == Tick /\ UNCHANGED <<schedVars, runs, poll, loop, late, admin, emit, events, inserted>>

AdminFinishes == UpdateWrite \/ AdminSetNextRun

Next ==
    \/ Clock
    \/ \E i \in Instances : Poll(i) \/ PollFails(i) \/ Renew(i) \/ Stop(i) \/ StopRelease(i) \/ Restart(i) \/ Crash(i)
    \/ LateStart
    \/ \E s \in Schedules : Register(s) \/ UpdateLoad(s) \/ PauseOrResume(s) \/ Unregister(s) \/ WriteInvalid(s)
                           \/ EmitLoad(s)
    \/ AdminFinishes \/ EmitCommit \/ EmitDispatch \/ EmitRecord

Spec == Init /\ [][Next]_vars

(* The clock runs, a loop keeps taking the steps of its poll, a stopping   *)
(* loop gives its lease up.                                                *)
FairSpec ==
    /\ Spec
    /\ WF_vars(Clock)
    /\ \A i \in Instances : WF_vars(Poll(i)) /\ WF_vars(StopRelease(i))

-----------------------------------------------------------------------------
TypeOK ==
    /\ LeaseTypeOK
    /\ sched \in [Schedules -> [incarnation : Nat, enabled : BOOLEAN, interval : {0} \cup Intervals,
                                tickCount : Nat, lastFired : Nat]]
    /\ nextRun \in [Schedules -> Nat]
    /\ \A i \in Instances : loop[i].held \in {0} \cup {l[2] : l \in {g \in granted : g[1] = i}}

(* The log of a schedule's current incarnation holds each number below its  *)
(* tickCount exactly once and no other, whatever polls of old leaders,     *)
(* manual fires, retries, re-registrations and lost answers interleave.    *)
NumbersAreGapless ==
    /\ TypeOK
    /\ \A s \in Schedules :
          LET mine == {l.tick : l \in {x \in log : x.tick.schedule = s}}
          IN  /\ \A n \in 0..(sched[s].tickCount - 1) : \E t \in mine : t.tickNumber = n
              /\ \A t \in mine : /\ t.incarnation = sched[s].incarnation
                                 /\ t.tickNumber < sched[s].tickCount
              /\ \A t, u \in mine : t.tickNumber = u.tickNumber => t = u

(* At least once: a tick a poll has recorded as fired has its run, whatever *)
(* dispatches failed or timed out, whoever took over, wherever it crashed.  *)
RecordedWasStarted ==
    \A l \in log : ~l.manual => \E r \in runs : SameRun(r, l.tick)

(* Fires are recorded in the order of their scheduled times: a stale plan  *)
(* is never committed over a newer fire.                                   *)
FiresInOrder ==
    \A l, m \in log :
        (l.tick.schedule = m.tick.schedule /\ l.tick.tickNumber < m.tick.tickNumber)
            => l.tick.scheduledAt <= m.tick.scheduledAt

(* A schedule that is due does not stay due unfired: a poll fires it, or    *)
(* an operator takes it out of due-tracking.                               *)
Waiting(s, n) == Due(s) /\ sched[s].tickCount = n
DueFires == \A s \in Schedules, n \in 0..MaxTime : Waiting(s, n) ~> ~Waiting(s, n)

(* "Resume a paused schedule. It is due immediately; the next poll fires   *)
(* the most recent missed occurrence" and "An enabled schedule is due      *)
(* immediately, so the next poll picks it up" (durable-scheduler.ts): when *)
(* no call is half done, an enabled schedule whose occurrences are not     *)
(* over is in due-tracking.                                                *)
EnabledIsTracked ==
    admin.stage = "idle" =>
        \A s \in Schedules :
            (sched[s].enabled /\ sched[s].interval # 0 /\ now + sched[s].interval < EndAt)
                => nextRun[s] # 0

(* "A crash or a failed commit re-fires the same ticks (same tickNumber)   *)
(* on the next poll rather than losing them" (scheduler-loop.ts): the run  *)
(* of a recorded tick was started for that tick's own occurrence.  The     *)
(* first fire of a schedule is scheduled for the time of the poll.         *)
RecordedTickRan ==
    \A l \in log : (~l.manual /\ l.tick.tickNumber > 0) => l.tick \in runs
=============================================================================
