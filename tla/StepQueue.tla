------------------------------ MODULE StepQueue ------------------------------
(***************************************************************************)
(* The step queue (distributed/in-memory-step-queue.ts): the tasks through *)
(* which coordinators hand steps to workers.                               *)
(*                                                                         *)
(* A task is pending, claimed by a worker under a fresh claim token, and   *)
(* settled by that claim.  A stuck claim is requeued, and dead-lettered    *)
(* after MaxDeliveries.  A task keeps the slot of its step until a         *)
(* coordinator consumes its outcome, so a step has one live task.          *)
(*                                                                         *)
(* Every method is synchronous, hence one action.  A call that is refused  *)
(* changes nothing and is not an action.  Next lets any client make any    *)
(* call with any token it was ever given; StepDispatch has the real        *)
(* clients.  Routing (step names, versions, capabilities) is the set       *)
(* Routes[w]; results and errors are the outcome's kind.                   *)
(***************************************************************************)
EXTENDS Integers, FiniteSets

CONSTANTS
    Workers,
    Keys,           \* (workflowId, stepName) pairs
    Runs,           \* run numbers tasks are tagged with
    Routes,         \* worker -> keys it may claim
    Priority,       \* key -> priority
    Capped,         \* keys that share one concurrency key
    Limit,          \* the concurrencyLimit of that key
    MaxDeliveries,
    MaxTasks,       \* bound on tasks
    MaxClaims       \* bound on claim tokens

ASSUME QueueAssumption ==
    /\ Keys # {} /\ Runs # {} /\ Runs \subseteq Nat
    /\ Routes \in [Workers -> SUBSET Keys]
    /\ Priority \in [Keys -> Int]
    /\ Capped \subseteq Keys
    /\ Limit \in Nat /\ MaxTasks \in Nat /\ MaxClaims \in Nat
    /\ MaxDeliveries \in Nat \ {0}

VARIABLES
    tasks,      \* task id -> task
    activeByKey,\* key -> id of its unconsumed task, 0 for none
    ntasks,     \* task ids handed out
    nclaims     \* claim tokens handed out

queueVars == <<tasks, activeByKey, ntasks, nclaims>>

TaskIds == 1 .. MaxTasks
TaskStatus == {"absent", "pending", "running", "completed", "failed"}
Age == {"none", "recent", "old"}
Outcome == {"none", "value", "typed", "defect", "deadletter"}

(* by and token belong to the claim; claimed and beat are the ages of       *)
(* claimedAt and heartbeatAt against the stale timeout, while it runs.     *)
Task == [key : Keys, run : Runs, status : TaskStatus, by : Workers \cup {0}, token : Nat,
         deliveries : Nat, claimed : Age, beat : Age, outcome : Outcome, consumed : BOOLEAN]

Exists(t) == tasks[t].status # "absent"
Settled(t) == tasks[t].status \in {"completed", "failed"}
Active(t) == Exists(t) /\ ~ tasks[t].consumed

(* A task as enqueue makes it, and the place of one that is not there. *)
NewTask(k, r) ==
    [key |-> k, run |-> r, status |-> "pending", by |-> 0, token |-> 0, deliveries |-> 0,
     claimed |-> "none", beat |-> "none", outcome |-> "none", consumed |-> FALSE]
NoTask == [NewTask(CHOOSE k \in Keys : TRUE, CHOOSE r \in Runs : TRUE) EXCEPT !.status = "absent"]

QueueInit ==
    /\ tasks = [t \in TaskIds |-> NoTask]
    /\ activeByKey = [k \in Keys |-> 0]
    /\ ntasks = 0 /\ nclaims = 0

-----------------------------------------------------------------------------
(* The task a call to enqueue answers with. *)
EnqueueId(k) == IF activeByKey[k] # 0 THEN activeByKey[k] ELSE ntasks + 1

(* Variant: a settled task does not hold the slot of its step. *)
EnqueueSansSettled(k, r) ==
    /\ ntasks < MaxTasks
    /\ activeByKey[k] # 0 => Settled(activeByKey[k])
    /\ tasks' = [tasks EXCEPT ![ntasks + 1] = NewTask(k, r)]
    /\ activeByKey' = [activeByKey EXCEPT ![k] = ntasks + 1]
    /\ ntasks' = ntasks + 1
    /\ UNCHANGED nclaims

(* enqueue of a step without an unconsumed task. *)
Enqueue(k, r) ==
    /\ ntasks < MaxTasks
    /\ activeByKey[k] = 0
    /\ tasks' = [tasks EXCEPT ![ntasks + 1] = NewTask(k, r)]
    /\ activeByKey' = [activeByKey EXCEPT ![k] = ntasks + 1]
    /\ ntasks' = ntasks + 1
    /\ UNCHANGED nclaims

-----------------------------------------------------------------------------
(* Claiming *)

Claimable(w) == {t \in TaskIds : tasks[t].status = "pending" /\ tasks[t].key \in Routes[w]}

(* By priority, then by creation. *)
Before(u, t) ==
    \/ Priority[tasks[u].key] > Priority[tasks[t].key]
    \/ Priority[tasks[u].key] = Priority[tasks[t].key] /\ u < t

CappedIn(T) == {t \in T : tasks[t].key \in Capped}
Running == {t \in TaskIds : tasks[t].status = "running"}

(* Variant: the tasks claimed earlier in the batch are not counted. *)
AdmittedSansBatch(w) ==
    {t \in Claimable(w) :
        tasks[t].key \in Capped => Cardinality(CappedIn(Running)) < Limit}

(* A capped task is taken while running and earlier tasks leave room. *)
Admitted(w) ==
    {t \in Claimable(w) :
        tasks[t].key \in Capped =>
          Cardinality(CappedIn(Running))
            + Cardinality(CappedIn({u \in Claimable(w) : Before(u, t)})) < Limit}

(* The tasks one claim of at most n hands out, in order. *)
Batch(w, n) ==
    {t \in Admitted(w) : Cardinality({u \in Admitted(w) : Before(u, t)}) < n}

(* Variant: the tasks of a batch share a token. *)
TokenInShared(B, t) == nclaims + 1

(* Every task of the batch gets a token of its own. *)
TokenIn(B, t) == nclaims + 1 + Cardinality({u \in B : Before(u, t)})

Claim(w, B) ==
    /\ B # {}
    /\ nclaims + Cardinality(B) <= MaxClaims
    /\ tasks' = [t \in TaskIds |->
                   IF t \in B
                     THEN [tasks[t] EXCEPT !.status = "running", !.by = w, !.token = TokenIn(B, t),
                                           !.deliveries = @ + 1, !.claimed = "recent",
                                           !.beat = "none"]
                     ELSE tasks[t]]
    /\ nclaims' = nclaims + Cardinality(B)
    /\ UNCHANGED <<activeByKey, ntasks>>

(* Variant: the status is not looked at. *)
IsCurrentClaimSansStatus(t, token) == Exists(t) /\ tasks[t].token = token

(* isCurrentClaim, for a caller that names its token. *)
IsCurrentClaim(t, token) == tasks[t].status = "running" /\ tasks[t].token = token

BackToPending(task) ==
    [task EXCEPT !.status = "pending", !.by = 0, !.token = 0, !.claimed = "none", !.beat = "none"]

(* release: the delivery does not count. *)
Released(task) == [BackToPending(task) EXCEPT !.deliveries = task.deliveries - 1]

Release(t, token) ==
    /\ IsCurrentClaim(t, token)
    /\ tasks' = [tasks EXCEPT ![t] = Released(@)]
    /\ UNCHANGED <<activeByKey, ntasks, nclaims>>

Heartbeat(t, token) ==
    /\ IsCurrentClaim(t, token)
    /\ tasks' = [tasks EXCEPT ![t].beat = "recent"]
    /\ UNCHANGED <<activeByKey, ntasks, nclaims>>

SettleAs(t, status, outcome) ==
    /\ tasks' = [tasks EXCEPT ![t].status = status, ![t].outcome = outcome,
                              ![t].claimed = "none", ![t].beat = "none"]
    /\ UNCHANGED <<activeByKey, ntasks, nclaims>>

Complete(t, token) == IsCurrentClaim(t, token) /\ SettleAs(t, "completed", "value")

(* fail, with a tagged error or with any other. *)
Fail(t, token, outcome) == IsCurrentClaim(t, token) /\ SettleAs(t, "failed", outcome)

(* fail by a caller that names no token takes whatever claim there is. *)
FailUnclaimed(t) == tasks[t].status = "running" /\ SettleAs(t, "failed", "defect")

-----------------------------------------------------------------------------
(* Sweeps *)

LastActivity(task) == IF task.beat # "none" THEN task.beat ELSE task.claimed

(* Variant: the delivery that reaches the limit is still requeued. *)
RequeuedOffByOne(task) ==
    IF task.deliveries > MaxDeliveries
      THEN [task EXCEPT !.status = "failed", !.outcome = "deadletter", !.token = 0,
                           !.claimed = "none", !.beat = "none"]
      ELSE BackToPending(task)

(* requeueStuck, for one stuck task. *)
Requeued(task) ==
    IF task.deliveries >= MaxDeliveries
      THEN [task EXCEPT !.status = "failed", !.outcome = "deadletter", !.token = 0,
                           !.claimed = "none", !.beat = "none"]
      ELSE BackToPending(task)

Requeue(S) ==
    /\ S # {}
    /\ tasks' = [t \in TaskIds |-> IF t \in S THEN Requeued(tasks[t]) ELSE tasks[t]]
    /\ UNCHANGED <<activeByKey, ntasks, nclaims>>

RequeueWorker(w) == Requeue({t \in Running : tasks[t].by = w})

(* Variant: only heartbeats count, not the claim itself. *)
StaleSansClaim == {t \in Running : tasks[t].beat = "old"}

Stale == {t \in Running : LastActivity(tasks[t]) = "old"}
RequeueStale == Requeue(Stale)

FreeSlot(t) ==
    IF activeByKey[tasks[t].key] = t THEN [activeByKey EXCEPT ![tasks[t].key] = 0] ELSE activeByKey

(* consume; consumeSettled consumes the tasks that hold the given slots. *)
Consume(t) ==
    /\ Settled(t) /\ ~ tasks[t].consumed
    /\ tasks' = [tasks EXCEPT ![t].consumed = TRUE]
    /\ activeByKey' = FreeSlot(t)
    /\ UNCHANGED <<ntasks, nclaims>>

(* Variant: the slot of a purged task is not freed. *)
PurgeSansSlot(t) ==
    /\ Settled(t)
    /\ tasks' = [tasks EXCEPT ![t] = NoTask]
    /\ UNCHANGED <<activeByKey, ntasks, nclaims>>

(* purge, of one settled task past the cutoff. *)
Purge(t) ==
    /\ Settled(t)
    /\ tasks' = [tasks EXCEPT ![t] = NoTask]
    /\ activeByKey' = FreeSlot(t)
    /\ UNCHANGED <<ntasks, nclaims>>

(* The clock passes the stale timeout of a claim, then of its last heartbeat. *)
GrowOld(t) ==
    /\ tasks[t].status = "running"
    /\ \/ tasks[t].claimed = "recent" /\ tasks' = [tasks EXCEPT ![t].claimed = "old"]
       \/ /\ tasks[t].claimed = "old" /\ tasks[t].beat = "recent"
          /\ tasks' = [tasks EXCEPT ![t].beat = "old"]
    /\ UNCHANGED <<activeByKey, ntasks, nclaims>>

-----------------------------------------------------------------------------
(* Any client, any call. *)
QueueNext ==
    \/ \E k \in Keys, r \in Runs : Enqueue(k, r)
    \/ \E w \in Workers, n \in 1 .. MaxTasks : Claim(w, Batch(w, n))
    \/ \E t \in TaskIds, token \in 1 .. MaxClaims :
         \/ Release(t, token) \/ Heartbeat(t, token) \/ Complete(t, token)
         \/ \E o \in {"typed", "defect"} : Fail(t, token, o)
    \/ \E w \in Workers : RequeueWorker(w)
    \/ RequeueStale
    \/ \E t \in TaskIds : FailUnclaimed(t) \/ Consume(t) \/ Purge(t) \/ GrowOld(t)

QueueSpec == QueueInit /\ [][QueueNext]_queueVars

-----------------------------------------------------------------------------
(* Properties *)

(* in-memory-step-queue.ts: tasks, slots and counters keep their types. *)
QueueTypeOK ==
    /\ tasks \in [TaskIds -> Task]
    /\ activeByKey \in [Keys -> 0 .. MaxTasks]
    /\ ntasks \in 0 .. MaxTasks /\ nclaims \in Nat

(* enqueue, consume, purge: a step has at most one task whose outcome is    *)
(* not taken, and the slot of the step names it: no enqueue runs a step     *)
(* beside itself, and no slot is left pointing at nothing.                 *)
OneTaskPerStep ==
    \A k \in Keys : \A t \in TaskIds :
        activeByKey[k] = t <=> Active(t) /\ tasks[t].key = k

(* requeueStuck, release, claim: no task is delivered more than             *)
(* MaxDeliveries times, however claims, releases and sweeps alternate.     *)
DeliveriesBounded ==
    \A t \in TaskIds :
        /\ tasks[t].deliveries <= MaxDeliveries
        /\ tasks[t].status = "pending" => tasks[t].deliveries < MaxDeliveries
        /\ tasks[t].status = "running" => tasks[t].deliveries > 0

(* claim: at most Limit tasks of a concurrency key run at a time.          *)
ConcurrencyCap == Cardinality(CappedIn(Running)) <= Limit

(* claim: no two tasks run under one claim token, and a token handed out    *)
(* once is never handed out again, so a late caller holds nobody's claim.  *)
OneClaimPerToken ==
    /\ \A t \in Running : tasks[t].token \in 1 .. nclaims
    /\ \A t, u \in Running : tasks[t].token = tasks[u].token => t = u

(* complete, fail, requeueStuck: the outcome of a settled task never        *)
(* changes, whoever calls late; the task can only be consumed or purged.   *)
SettledIsFinal ==
    [][\A t \in TaskIds : Settled(t) /\ tasks'[t].status # "absent" =>
          /\ tasks'[t].status = tasks[t].status
          /\ tasks'[t].outcome = tasks[t].outcome]_queueVars
=============================================================================
