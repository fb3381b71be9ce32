---------------------------- MODULE StepDispatch ----------------------------
(***************************************************************************)
(* The clients of the step queue: workers (distributed/worker.ts) that     *)
(* claim tasks and run step bodies, and coordinators whose executors       *)
(* (distributed/step-queue-executor.ts) enqueue the steps of a run, wait   *)
(* for the outcomes and hand them to the runner, which stores the step     *)
(* rows under its run lock.                                                *)
(*                                                                         *)
(* One workflow; Keys are its steps.  The run itself is reduced to what    *)
(* the executors see of it: its number, whether it has ended, its step     *)
(* rows, and the fence epoch of the driver that holds its lock             *)
(* (WorkflowRun and LeaseTable have the rest).  A superseded coordinator   *)
(* goes on waiting; its row writes are refused.                            *)
(***************************************************************************)
EXTENDS StepQueue

CONSTANTS
    Coordinators,
    Capacity,      \* a worker's concurrency
    StepRetries,   \* retries of a step after a typed failure
    MaxFaults,     \* bound on takeovers, coordinator crashes, expired waits, cancels
    MaxStops       \* bound on worker stops

ASSUME DispatchAssumption ==
    /\ Capacity \in Nat /\ StepRetries \in Nat /\ MaxFaults \in Nat /\ MaxStops \in Nat
    /\ IsFiniteSet(Coordinators)

VARIABLES
    execs,    \* executions of tasks going on in worker processes
    active,   \* worker -> task id -> claim token of its entry, 0 for none
    life,     \* worker -> "up", "stopping", "stopped" or "released"
    run,      \* [number, ended, epoch, row] of the workflow's run
    wait,     \* coordinator -> step -> the executor's wait
    left      \* what is left of each bound

workerVars == <<execs, active, life>>
coordVars == <<run, wait>>
vars == <<queueVars, workerVars, coordVars, left>>

ExecState == {"running", "value", "typed", "defect", "aborted"}
Exec == [w : Workers, t : TaskIds, token : Nat, st : ExecState]
NoEntry == [t \in TaskIds |-> 0]

WaitPC == {"idle", "wait", "check", "discard", "again", "take", "expire", "expired", "record",
           "settled"}
Got == Outcome \cup {"gaveup"}
Wait == [pc : WaitPC, id : 0 .. MaxTasks, run : Nat, epoch : Nat, got : Got, retries : Nat]
NoWait == [pc |-> "idle", id |-> 0, run |-> 0, epoch |-> 0, got |-> "none", retries |-> 0]
RowStatus == {"none", "completed", "failed"}
NoRows == [k \in Keys |-> "none"]

Init ==
    /\ QueueInit
    /\ execs = {}
    /\ active = [w \in Workers |-> NoEntry]
    /\ life = [w \in Workers |-> "up"]
    /\ run = [number |-> 0, ended |-> TRUE, epoch |-> 0, row |-> NoRows]
    /\ wait = [c \in Coordinators |-> [k \in Keys |-> NoWait]]
    /\ left = [faults |-> MaxFaults, stops |-> MaxStops]

Fault == left.faults > 0 /\ left' = [left EXCEPT !.faults = @ - 1]

-----------------------------------------------------------------------------
(* Workers *)

Entries(w) == {t \in TaskIds : active[w][t] # 0}

(* claimOnce and launch: fill the free slots. *)
ClaimOnce(w) ==
    LET B == Batch(w, Capacity - Cardinality(Entries(w))) IN
    /\ life[w] = "up"
    /\ Claim(w, B)
    /\ active' = [active EXCEPT ![w] = [t \in TaskIds |-> IF t \in B THEN TokenIn(B, t) ELSE @[t]]]
    /\ execs' = execs \cup {[w |-> w, t |-> t, token |-> TokenIn(B, t), st |-> "running"] : t \in B}
    /\ UNCHANGED <<life, coordVars, left>>

Becomes(x, st) == execs' = (execs \ {x}) \cup {[x EXCEPT !.st = st]}

(* computeOutcome: a value, a tagged error (a timeout too) or any other. *)
ComputeOutcome(x) ==
    /\ x.st = "running"
    /\ \E st \in {"value", "typed", "defect"} : Becomes(x, st)
    /\ UNCHANGED <<queueVars, active, life, coordVars, left>>

(* heartbeatTask: a refused heartbeat aborts the execution. *)
HeartbeatTask(x) ==
    /\ x.st = "running"
    /\ \/ /\ Heartbeat(x.t, x.token)
          /\ UNCHANGED execs
       \/ /\ ~ IsCurrentClaim(x.t, x.token)
          /\ Becomes(x, "aborted")
          /\ UNCHANGED queueVars
    /\ UNCHANGED <<active, life, coordVars, left>>

(* launch, finally: the entry of the task id goes, whoever put it there. *)
Leave(x) ==
    /\ execs' = execs \ {x}
    /\ active' = [active EXCEPT ![x.w][x.t] = 0]

(* commit: the queue checks the claim in the call that settles the task.    *)
(* Refused or failed, the call changes nothing, and is not repeated.       *)
Commit(x) ==
    /\ x.st \in {"value", "typed", "defect"}
    /\ \/ x.st = "value" /\ Complete(x.t, x.token)
       \/ x.st # "value" /\ Fail(x.t, x.token, x.st)
       \/ UNCHANGED queueVars
    /\ Leave(x)
    /\ UNCHANGED <<life, coordVars, left>>

(* An aborted handler returns: nothing is written. *)
AbortedReturns(x) ==
    /\ x.st = "aborted"
    /\ Leave(x)
    /\ UNCHANGED <<queueVars, life, coordVars, left>>

(* The worker process dies and is started again under its id. *)
WorkerCrash(w) ==
    /\ \E x \in execs : x.w = w
    /\ execs' = {x \in execs : x.w # w}
    /\ active' = [active EXCEPT ![w] = NoEntry]
    /\ UNCHANGED <<queueVars, life, coordVars, left>>

(* stop: no more claims, then wait for the entries to go. *)
Stop(w) ==
    /\ life[w] = "up" /\ left.stops > 0
    /\ life' = [life EXCEPT ![w] = "stopping"]
    /\ left' = [left EXCEPT !.stops = @ - 1]
    /\ UNCHANGED <<queueVars, execs, active, coordVars>>

(* Variant: the worker does not wait for its tasks. *)
StopDoneAtOnce(w) ==
    /\ life[w] = "stopping"
    /\ life' = [life EXCEPT ![w] = "stopped"]
    /\ UNCHANGED <<queueVars, execs, active, coordVars, left>>

StopDone(w) ==
    /\ life[w] = "stopping" /\ Entries(w) = {}
    /\ life' = [life EXCEPT ![w] = "stopped"]
    /\ UNCHANGED <<queueVars, execs, active, coordVars, left>>

(* releaseUnfinished: after stop's timeout the entries' tasks are given     *)
(* back and their executions aborted.                                      *)
ReleaseUnfinished(w) ==
    LET mine(x) == x.w = w /\ active[w][x.t] = x.token
        given == {t \in Entries(w) : IsCurrentClaim(t, active[w][t])}
    IN
    /\ life[w] = "stopping" /\ Entries(w) # {}
    /\ tasks' = [t \in TaskIds |-> IF t \in given THEN Released(tasks[t]) ELSE tasks[t]]
    /\ execs' = {IF mine(x) THEN [x EXCEPT !.st = "aborted"] ELSE x : x \in execs}
    /\ life' = [life EXCEPT ![w] = "released"]
    /\ UNCHANGED <<activeByKey, ntasks, nclaims, active, coordVars, left>>

(* The coordinator's sweeps: of stale claims, and of the claims of a worker *)
(* that the registry lists as dead, rightly or not.                        *)
StaleSweep == RequeueStale /\ UNCHANGED <<workerVars, coordVars, left>>
DeadWorkerSweep(w) == RequeueWorker(w) /\ UNCHANGED <<workerVars, coordVars, left>>

(* The clock. *)
TimePasses(t) == GrowOld(t) /\ UNCHANGED <<workerVars, coordVars, left>>

-----------------------------------------------------------------------------
(* Coordinators *)

W(c, k) == wait[c][k]
InWait(c, k, pc) == W(c, k).pc = pc
To(c, k, pc) == wait' = [wait EXCEPT ![c][k].pc = pc]
Quiet(c) == \A k \in Keys : InWait(c, k, "idle")

(* A coordinator takes the run lock, of a released run or of a stalled      *)
(* driver; an ended run is started afresh (force).  Its steps are one wave, *)
(* of which the ones with a completed row are not run again.               *)
TakeRun(c) ==
    /\ Quiet(c)
    /\ IF \A d \in Coordinators : Quiet(d) THEN UNCHANGED left ELSE Fault
    /\ run.ended => run.number + 1 \in Runs
    /\ run' = IF run.ended
                THEN [number |-> run.number + 1, ended |-> FALSE, epoch |-> run.epoch + 1, row |-> NoRows]
                ELSE [run EXCEPT !.epoch = @ + 1]
    /\ wait' = [wait EXCEPT ![c] = [k \in Keys |->
                   [NoWait EXCEPT !.pc = IF run'.row[k] = "completed" THEN "settled" ELSE "again",
                                  !.run = run'.number, !.epoch = run'.epoch,
                                  !.retries = StepRetries]]]
    /\ UNCHANGED <<queueVars, workerVars>>

(* runAttempt: enqueue, or be handed the task the step already has. *)
EnqueueAttempt(c, k) ==
    /\ InWait(c, k, "again")
    /\ IF activeByKey[k] # 0 THEN UNCHANGED queueVars ELSE Enqueue(k, W(c, k).run)
    /\ wait' = [wait EXCEPT ![c][k].pc = "wait", ![c][k].id = EnqueueId(k)]
    /\ UNCHANGED <<workerVars, run, left>>

(* Variants: an earlier run's outcome is taken for this run's; the test is  *)
(* inverted.                                                               *)
IsLeftoverNever(c, k) == FALSE
IsLeftoverInverted(c, k) == tasks[W(c, k).id].run = W(c, k).run

(* A settled task of another run is not this run's outcome. *)
IsLeftover(c, k) == tasks[W(c, k).id].run # W(c, k).run

(* One poll: the task is read. *)
Poll(c, k) ==
    LET t == W(c, k).id IN
    /\ InWait(c, k, "wait")
    /\ wait' = [wait EXCEPT ![c][k].pc = IF ~ Settled(t) THEN "check"
                                         ELSE IF IsLeftover(c, k) THEN "discard" ELSE "take",
                            ![c][k].got = tasks[t].outcome]
    /\ UNCHANGED <<queueVars, workerVars, run, left>>

(* consume; false for a task consumed by another. *)
ConsumeOrNot(t) ==
    IF Settled(t) /\ ~ tasks[t].consumed THEN Consume(t) ELSE UNCHANGED queueVars

Discard(c, k) ==
    /\ InWait(c, k, "discard")
    /\ ConsumeOrNot(W(c, k).id)
    /\ To(c, k, "again")
    /\ UNCHANGED <<workerVars, run, left>>

(* executeStep: a typed failure may be retried, with a task of its own. *)
AfterTake(x) ==
    IF x.got = "typed" /\ x.retries > 0
      THEN [x EXCEPT !.pc = "again", !.retries = @ - 1]
      ELSE [x EXCEPT !.pc = "record"]

(* The outcome is consumed as it is taken. *)
Take(c, k) ==
    /\ InWait(c, k, "take")
    /\ ConsumeOrNot(W(c, k).id)
    /\ wait' = [wait EXCEPT ![c][k] = AfterTake(@)]
    /\ UNCHANGED <<workerVars, run, left>>

(* No outcome yet: give up on an ended run or past the deadline. *)
CheckRun(c, k) ==
    /\ InWait(c, k, "check")
    /\ IF run.ended
         THEN /\ wait' = [wait EXCEPT ![c][k].pc = "record", ![c][k].got = "gaveup"]
              /\ UNCHANGED left
         ELSE \/ To(c, k, "wait") /\ UNCHANGED left
              \/ To(c, k, "expire") /\ Fault
    /\ UNCHANGED <<queueVars, workerVars, run>>

(* Past the deadline: take the claim away from a worker, if there is one. *)
Expire(c, k) ==
    LET t == W(c, k).id IN
    /\ InWait(c, k, "expire")
    /\ IF tasks[t].status = "running" THEN FailUnclaimed(t) ELSE UNCHANGED queueVars
    /\ wait' = [wait EXCEPT ![c][k].pc = IF tasks[t].status = "running" THEN "expired" ELSE "record",
                            ![c][k].got = "gaveup"]
    /\ UNCHANGED <<workerVars, run, left>>

ExpireConsume(c, k) ==
    /\ InWait(c, k, "expired")
    /\ ConsumeOrNot(W(c, k).id)
    /\ To(c, k, "record")
    /\ UNCHANGED <<workerVars, run, left>>

(* The runner stores the row under its fence token, or finds it refused. *)
Record(c, k) ==
    /\ InWait(c, k, "record")
    /\ run' = IF W(c, k).epoch # run.epoch THEN run
              ELSE [run EXCEPT !.row[k] = IF W(c, k).got = "value" THEN "completed" ELSE "failed"]
    /\ To(c, k, "settled")
    /\ UNCHANGED <<queueVars, workerVars, left>>

(* Every step of the wave has settled: the run is completed or failed,      *)
(* unless it has ended or the driver was superseded.                       *)
EndWave(c) ==
    /\ \A k \in Keys : InWait(c, k, "settled")
    /\ run' = [run EXCEPT !.ended = @ \/ \A k \in Keys : W(c, k).epoch = run.epoch]
    /\ wait' = [wait EXCEPT ![c] = [k \in Keys |-> NoWait]]
    /\ UNCHANGED <<queueVars, workerVars, left>>

(* cancelWorkflow *)
Cancel ==
    /\ ~ run.ended
    /\ Fault
    /\ run' = [run EXCEPT !.ended = TRUE]
    /\ UNCHANGED <<queueVars, workerVars, wait>>

CoordinatorCrash(c) ==
    /\ ~ Quiet(c)
    /\ Fault
    /\ wait' = [wait EXCEPT ![c] = [k \in Keys |-> NoWait]]
    /\ UNCHANGED <<queueVars, workerVars, run>>

-----------------------------------------------------------------------------
Work(w) ==
    \/ ClaimOnce(w)
    \/ \E x \in execs : x.w = w /\ (ComputeOutcome(x) \/ Commit(x) \/ AbortedReturns(x))

Waiting(c, k) ==
    \/ EnqueueAttempt(c, k) \/ Poll(c, k) \/ Discard(c, k) \/ Take(c, k) \/ CheckRun(c, k)
    \/ Expire(c, k) \/ ExpireConsume(c, k) \/ Record(c, k)

Next ==
    \/ \E w \in Workers :
         Work(w) \/ WorkerCrash(w) \/ Stop(w) \/ StopDone(w) \/ ReleaseUnfinished(w)
         \/ DeadWorkerSweep(w)
    \/ \E x \in execs : HeartbeatTask(x)
    \/ \E t \in TaskIds : TimePasses(t)
    \/ \E c \in Coordinators : 
         TakeRun(c) \/ EndWave(c) \/ CoordinatorCrash(c) \/ \E k \in Keys : Waiting(c, k)
    \/ StaleSweep \/ Cancel

Spec == Init /\ [][Next]_vars

(* Fairness.  Workers and coordinators go on, sweeps and clocks too.        *)
Fairness ==
    /\ \A w \in Workers : WF_vars(Work(w))
    /\ \A c \in Coordinators : WF_vars(EndWave(c)) /\ \A k \in Keys : WF_vars(Waiting(c, k))
    /\ WF_vars(StaleSweep)
    /\ \A t \in TaskIds : WF_vars(TimePasses(t))

FairSpec == Spec /\ Fairness

-----------------------------------------------------------------------------
(* Properties *)

(* worker.ts, step-queue-executor.ts: the clients' state keeps its types. *)
TypeOK ==
    /\ QueueTypeOK
    /\ execs \subseteq Exec
    /\ active \in [Workers -> [TaskIds -> Nat]]
    /\ life \in [Workers -> {"up", "stopping", "stopped", "released"}]
    /\ run \in [number : Nat, ended : BOOLEAN, epoch : Nat, row : [Keys -> RowStatus]]
    /\ wait \in [Coordinators -> [Keys -> Wait]]

Done(k) == {t \in TaskIds : tasks[t].key = k /\ tasks[t].run = run.number /\ tasks[t].outcome = "value"}

(* runAttempt: a step is stored as completed only with an outcome that a    *)
(* worker produced for this run, also when tasks of earlier runs, adopted   *)
(* tasks and superseded coordinators share the queue.                      *)
RowComesFromItsRun ==
    /\ TypeOK
    /\ \A k \in Keys : run.row[k] = "completed" => Done(k) # {}

(* enqueue, consume, runAttempt: whatever workers do, a step's body is      *)
(* completed once in a run, and once more at most for each coordinator      *)
(* fault.                                                                  *)
RedoneOncePerFault ==
    \A k \in Keys : Cardinality(Done(k)) <= 1 + (MaxFaults - left.faults)

(* worker.ts, stop: a stopped worker has no task it is still working on. *)
StopWaitsForEveryTask ==
    \A x \in execs : life[x.w] = "stopped" => x.st = "aborted"

(* requeueStuck, runAttempt: while there is a worker, every wait ends,      *)
(* though workers may die on every delivery.                               *)
WaitEnds ==
    \A c \in Coordinators, k \in Keys :
        ~ InWait(c, k, "idle") ~> InWait(c, k, "idle") \/ \A w \in Workers : life[w] # "up"
=============================================================================
