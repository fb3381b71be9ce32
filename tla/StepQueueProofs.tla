--------------------------- MODULE StepQueueProofs ---------------------------
(***************************************************************************)
(* What the step queue promises to whatever clients call it: one           *)
(* unconsumed task per step, bounded deliveries, outcomes that never       *)
(* change, a claim token per running task and a concurrency limit that a   *)
(* batch cannot overrun.  The inductive invariant adds to the properties   *)
(* that ids not yet handed out are free.                                   *)
(***************************************************************************)
EXTENDS StepQueue, FiniteSetTheorems, TLAPS

(* Ids above the counter name no task. *)
FreshIds == \A t \in TaskIds : t > ntasks => tasks[t].status = "absent"

QueueInv == QueueTypeOK /\ FreshIds /\ OneTaskPerStep /\ DeliveriesBounded

(* A claim hands out pending tasks of the queue only. *)
LEMMA BatchIsPending ==
    ASSUME NEW w, NEW n, NEW t \in Batch(w, n)
    PROVE  t \in TaskIds /\ tasks[t].status = "pending"
BY DEF Batch, Admitted, Claimable

(* The tokens of a batch are numbers, and there are finitely many. *)
LEMMA BatchCounts ==
    ASSUME NEW w, NEW n, nclaims \in Nat
    PROVE  /\ Cardinality(Batch(w, n)) \in Nat
           /\ \A t \in TaskIds : TokenIn(Batch(w, n), t) \in Nat
<1> DEFINE B == Batch(w, n)
<1>1. IsFiniteSet(TaskIds)
  BY FS_Interval, QueueAssumption DEF TaskIds
<1>2. IsFiniteSet(B)
  BY <1>1, BatchIsPending, FS_Subset
<1>3. ASSUME NEW t \in TaskIds PROVE Cardinality({u \in B : Before(u, t)}) \in Nat
  <2>1. {u \in B : Before(u, t)} \subseteq B
    OBVIOUS
  <2> QED
    BY <1>2, <2>1, FS_Subset, FS_CardinalityType
<1>4. Cardinality(B) \in Nat
  BY <1>2, FS_CardinalityType
<1> QED
  BY <1>3, <1>4 DEF TokenIn

(* The place of an absent task is well typed. *)
LEMMA NoTaskType == NoTask \in Task /\ NoTask.status = "absent" /\ NoTask.deliveries = 0
BY QueueAssumption DEF NoTask, NewTask, Task, TaskStatus, Age, Outcome

(* The empty queue satisfies the invariant. *)
LEMMA QueueInitInv == QueueInit => QueueInv
<1> SUFFICES ASSUME QueueInit PROVE QueueInv
  OBVIOUS
<1> USE QueueAssumption, NoTaskType DEF QueueInit, TaskIds
<1>1. QueueTypeOK
  BY DEF QueueTypeOK
<1>2. FreshIds
  BY DEF FreshIds
<1>3. OneTaskPerStep
  BY DEF OneTaskPerStep, Active, Exists
<1>4. DeliveriesBounded
  BY DEF DeliveriesBounded
<1> QED
  BY <1>1, <1>2, <1>3, <1>4 DEF QueueInv

(* A claimed task is well typed. *)
LEMMA ClaimedType ==
    ASSUME NEW task \in Task, NEW w \in Workers, NEW token \in Nat
    PROVE  [task EXCEPT !.status = "running", !.by = w, !.token = token, !.deliveries = @ + 1,
                        !.claimed = "recent", !.beat = "none"] \in Task
<1> DEFINE d == task.deliveries + 1
<1>1. d \in Nat
  BY DEF Task
<1> HIDE DEF d
<1>2. [task EXCEPT !.status = "running", !.by = w, !.token = token, !.deliveries = d,
                   !.claimed = "recent", !.beat = "none"] \in Task
  BY <1>1 DEF Task, TaskStatus, Age
<1> QED
  BY <1>2 DEF d

(* So is one put back, *)
LEMMA PendingType ==
    ASSUME NEW task \in Task
    PROVE  /\ BackToPending(task) \in Task
           /\ BackToPending(task).deliveries = task.deliveries
           /\ BackToPending(task).key = task.key
           /\ BackToPending(task).consumed = task.consumed
           /\ BackToPending(task).status = "pending"
BY DEF BackToPending, Task, TaskStatus, Age

(* one released, *)
LEMMA ReleasedType ==
    ASSUME NEW task \in Task, task.deliveries > 0
    PROVE  /\ Released(task) \in Task
           /\ Released(task).deliveries = task.deliveries - 1
           /\ Released(task).key = task.key
           /\ Released(task).consumed = task.consumed
           /\ Released(task).status = "pending"
<1>1. task.deliveries - 1 \in Nat
  BY DEF Task
<1> QED
  BY <1>1, PendingType DEF Released, Task

(* and one swept. *)
LEMMA RequeuedType ==
    ASSUME NEW task \in Task
    PROVE  /\ Requeued(task) \in Task
           /\ Requeued(task).deliveries = task.deliveries
           /\ Requeued(task).key = task.key
           /\ Requeued(task).consumed = task.consumed
           /\ Requeued(task).status \in {"pending", "failed"}
           /\ Requeued(task).status = "pending" => ~ task.deliveries >= MaxDeliveries
<1>1. CASE task.deliveries >= MaxDeliveries
  BY <1>1 DEF Requeued, Task, TaskStatus, Age, Outcome
<1>2. CASE ~ task.deliveries >= MaxDeliveries
  BY <1>2, PendingType DEF Requeued
<1> QED
  BY <1>1, <1>2

(* Freeing a slot leaves a slot table. *)
LEMMA FreeSlotType ==
    ASSUME QueueTypeOK, NEW t \in TaskIds
    PROVE  FreeSlot(t) \in [Keys -> 0 .. MaxTasks]
<1>1. 0 \in 0 .. MaxTasks
  BY QueueAssumption
<1>2. tasks[t].key \in Keys /\ activeByKey \in [Keys -> 0 .. MaxTasks]
  BY DEF Task, QueueTypeOK
<1>3. [activeByKey EXCEPT ![tasks[t].key] = 0] \in [Keys -> 0 .. MaxTasks]
  BY <1>1, <1>2
<1> QED
  BY <1>2, <1>3 DEF FreeSlot

-----------------------------------------------------------------------------
(* Steps that touch neither slots nor ids, nor which tasks are active. *)
QuietCall ==
    /\ tasks' \in [TaskIds -> Task]
    /\ activeByKey' = activeByKey /\ ntasks' = ntasks /\ nclaims' \in Nat
    /\ \A t \in TaskIds :
         /\ tasks'[t].key = tasks[t].key
         /\ tasks'[t].consumed = tasks[t].consumed
         /\ tasks'[t].status = "absent" <=> tasks[t].status = "absent"

(* How a quiet step may move the deliveries of a task. *)
Delivers(t) ==
    /\ tasks'[t].deliveries <= MaxDeliveries
    /\ tasks'[t].status = "pending" => tasks'[t].deliveries < MaxDeliveries
    /\ tasks'[t].status = "running" => tasks'[t].deliveries > 0

(* A quiet step with bounded deliveries keeps the invariant. *)
LEMMA QuietStep ==
    ASSUME QueueInv, QuietCall, \A t \in TaskIds : Delivers(t)
    PROVE  QueueInv'
<1>1. QueueTypeOK'
  BY DEF QueueInv, QueueTypeOK, QuietCall
<1>2. FreshIds'
  BY DEF QueueInv, FreshIds, QuietCall
<1>3. OneTaskPerStep'
  BY DEF QueueInv, OneTaskPerStep, Active, Exists, QuietCall
<1>4. DeliveriesBounded'
  BY DEF DeliveriesBounded, Delivers
<1> QED
  BY <1>1, <1>2, <1>3, <1>4 DEF QueueInv

(* A task a step leaves alone keeps its deliveries in bounds. *)
LEMMA KeepsDeliveries ==
    ASSUME QueueInv, NEW t \in TaskIds, tasks'[t].deliveries = tasks[t].deliveries,
           tasks'[t].status = tasks[t].status \/ tasks'[t].status \in {"completed", "failed"}
    PROVE  Delivers(t)
BY DEF QueueInv, DeliveriesBounded, Delivers

(* One task replaced by another that is active as it was. *)
LEMMA ReplaceStep ==
    ASSUME QueueInv, NEW t \in TaskIds, NEW new \in Task,
           tasks' = [tasks EXCEPT ![t] = new], UNCHANGED <<activeByKey, ntasks, nclaims>>,
           new.key = tasks[t].key, new.consumed = tasks[t].consumed,
           new.status = "absent" <=> tasks[t].status = "absent",
           new.deliveries <= MaxDeliveries,
           new.status = "pending" => new.deliveries < MaxDeliveries,
           new.status = "running" => new.deliveries > 0
    PROVE  QueueInv'
<1>1. tasks \in [TaskIds -> Task] /\ nclaims \in Nat
  BY DEF QueueInv, QueueTypeOK
<1>2. QuietCall
  BY <1>1 DEF QuietCall
<1>3. ASSUME NEW u \in TaskIds PROVE Delivers(u)
  <2>1. CASE u = t
    BY <1>1, <2>1 DEF Delivers
  <2>2. CASE u # t
    BY <1>1, <2>2, KeepsDeliveries
  <2> QED
    BY <2>1, <2>2
<1> QED
  BY <1>2, <1>3, QuietStep

-----------------------------------------------------------------------------
(* enqueue keeps the invariant: the id is fresh and the slot was free. *)
LEMMA EnqueueKeeps ==
    ASSUME QueueInv, NEW k \in Keys, NEW r \in Runs, Enqueue(k, r)
    PROVE  QueueInv'
<1> DEFINE id == ntasks + 1
<1>1. /\ id \in TaskIds /\ id \in 0 .. MaxTasks /\ id # 0 /\ ntasks \in Nat
      /\ id > ntasks
  BY QueueAssumption DEF QueueInv, QueueTypeOK, Enqueue, TaskIds
<1>2. /\ NewTask(k, r) \in Task /\ NewTask(k, r).key = k /\ NewTask(k, r).status = "pending"
      /\ NewTask(k, r).deliveries = 0 /\ ~ NewTask(k, r).consumed
  BY DEF NewTask, Task, TaskStatus, Age, Outcome
<1>3. tasks[id].status = "absent"
  BY <1>1 DEF QueueInv, FreshIds
<1>4. /\ tasks' = [tasks EXCEPT ![id] = NewTask(k, r)]
      /\ activeByKey' = [activeByKey EXCEPT ![k] = id]
      /\ ntasks' = id /\ nclaims' = nclaims /\ activeByKey[k] = 0
  BY DEF Enqueue
<1>5. /\ tasks \in [TaskIds -> Task] /\ activeByKey \in [Keys -> 0 .. MaxTasks] /\ nclaims \in Nat
  BY DEF QueueInv, QueueTypeOK
<1> HIDE DEF id
<1>6. QueueTypeOK'
  BY <1>1, <1>2, <1>4, <1>5 DEF QueueTypeOK
<1>7. FreshIds'
  <2> SUFFICES ASSUME NEW t \in TaskIds, t > id PROVE tasks'[t].status = "absent"
    BY <1>4 DEF FreshIds
  <2>1. t > ntasks /\ t # id
    BY <1>1 DEF TaskIds, id
  <2> QED
    BY <2>1, <1>4, <1>5 DEF QueueInv, FreshIds
<1>8. OneTaskPerStep'
  <2> SUFFICES ASSUME NEW j \in Keys, NEW t \in TaskIds
               PROVE  activeByKey'[j] = t
                        <=> tasks'[t].status # "absent" /\ ~ tasks'[t].consumed /\ tasks'[t].key = j
    BY DEF OneTaskPerStep, Active, Exists
  <2>1. activeByKey[j] = t <=> tasks[t].status # "absent" /\ ~ tasks[t].consumed /\ tasks[t].key = j
    BY DEF QueueInv, OneTaskPerStep, Active, Exists
  <2>2. t # 0
    BY DEF TaskIds
  <2>3. activeByKey[k] # t /\ (tasks[t].status = "absent" \/ tasks[t].consumed \/ tasks[t].key # k)
    BY <2>2, <1>4 DEF QueueInv, OneTaskPerStep, Active, Exists
  <2>4. CASE t = id
    BY <2>4, <2>1, <1>1, <1>2, <1>3, <1>4, <1>5
  <2>5. CASE t # id
    BY <2>5, <2>1, <2>3, <1>1, <1>2, <1>4, <1>5
  <2> QED
    BY <2>4, <2>5
<1>9. DeliveriesBounded'
  <2>1. ASSUME NEW t \in TaskIds PROVE Delivers(t)
    <3>1. CASE t = id
      BY <3>1, <1>2, <1>4, <1>5, QueueAssumption DEF Delivers
    <3>2. CASE t # id
      BY <3>2, <1>4, <1>5, KeepsDeliveries
    <3> QED
      BY <3>1, <3>2
  <2> QED
    BY <2>1 DEF DeliveriesBounded, Delivers
<1> QED
  BY <1>6, <1>7, <1>8, <1>9 DEF QueueInv

(* claim keeps it: only pending tasks, below the limit, are delivered. *)
LEMMA ClaimKeeps ==
    ASSUME QueueInv, NEW w \in Workers, NEW n, Claim(w, Batch(w, n))
    PROVE  QueueInv'
<1> DEFINE B == Batch(w, n)
           claimed(t) == [tasks[t] EXCEPT !.status = "running", !.by = w, !.token = TokenIn(B, t),
                                          !.deliveries = @ + 1, !.claimed = "recent",
                                          !.beat = "none"]
<1>1. tasks \in [TaskIds -> Task] /\ nclaims \in Nat
  BY DEF QueueInv, QueueTypeOK
<1>2. Cardinality(B) \in Nat /\ \A t \in TaskIds : TokenIn(B, t) \in Nat
  BY <1>1, BatchCounts
<1>3. \A t \in B : t \in TaskIds /\ tasks[t].status = "pending"
  BY BatchIsPending
<1>4. /\ tasks' = [t \in TaskIds |-> IF t \in B THEN claimed(t) ELSE tasks[t]]
      /\ nclaims' = nclaims + Cardinality(B)
      /\ activeByKey' = activeByKey /\ ntasks' = ntasks
  BY DEF Claim
<1>5. \A t \in TaskIds :
        /\ claimed(t) \in Task /\ claimed(t).key = tasks[t].key
        /\ claimed(t).consumed = tasks[t].consumed /\ claimed(t).status = "running"
        /\ claimed(t).deliveries = tasks[t].deliveries + 1
  <2> SUFFICES ASSUME NEW t \in TaskIds
               PROVE  /\ claimed(t) \in Task /\ claimed(t).key = tasks[t].key
                      /\ claimed(t).consumed = tasks[t].consumed /\ claimed(t).status = "running"
                      /\ claimed(t).deliveries = tasks[t].deliveries + 1
    OBVIOUS
  <2>1. tasks[t] \in Task /\ TokenIn(B, t) \in Nat
    BY <1>1, <1>2
  <2>2. claimed(t) \in Task
    BY <2>1, ClaimedType
  <2> QED
    BY <2>1, <2>2 DEF Task
<1> HIDE DEF B, claimed
<1>6. nclaims' \in Nat
  BY <1>1, <1>2, <1>4
<1>7. QuietCall
  BY <1>1, <1>3, <1>4, <1>5, <1>6 DEF QuietCall
<1>8. ASSUME NEW t \in TaskIds PROVE Delivers(t)
  <2>1. CASE t \in B
    <3>1. tasks[t].deliveries < MaxDeliveries /\ tasks[t].deliveries \in Nat
      BY <2>1, <1>1, <1>3 DEF QueueInv, DeliveriesBounded, Task
    <3>2. tasks'[t] = claimed(t)
      BY <2>1, <1>4
    <3>3. tasks'[t].deliveries = tasks[t].deliveries + 1 /\ tasks'[t].status = "running"
      BY <3>2, <1>5
    <3> QED
      BY <3>1, <3>3, QueueAssumption DEF Delivers
  <2>2. CASE t \notin B
    BY <2>2, <1>4, KeepsDeliveries
  <2> QED
    BY <2>1, <2>2
<1> QED
  BY <1>7, <1>8, QuietStep

(* release keeps it: a running task has a delivery to give back. *)
LEMMA ReleaseKeeps ==
    ASSUME QueueInv, NEW t \in TaskIds, NEW token, Release(t, token)
    PROVE  QueueInv'
<1> DEFINE new == Released(tasks[t])
<1>1. /\ tasks[t] \in Task /\ tasks[t].deliveries \in Nat /\ tasks[t].status = "running"
      /\ tasks[t].deliveries > 0 /\ tasks[t].deliveries <= MaxDeliveries
  BY DEF QueueInv, QueueTypeOK, DeliveriesBounded, Release, IsCurrentClaim, Task
<1>2. /\ new \in Task /\ new.deliveries = tasks[t].deliveries - 1
      /\ new.key = tasks[t].key /\ new.consumed = tasks[t].consumed /\ new.status = "pending"
  BY <1>1, ReleasedType
<1>3. tasks' = [tasks EXCEPT ![t] = new] /\ UNCHANGED <<activeByKey, ntasks, nclaims>>
  BY DEF Release
<1> HIDE DEF new
<1>4. new.deliveries < MaxDeliveries /\ new.deliveries <= MaxDeliveries
  BY <1>1, <1>2, QueueAssumption
<1> QED
  BY <1>1, <1>2, <1>3, <1>4, ReplaceStep

(* heartbeat keeps it. *)
LEMMA HeartbeatKeeps ==
    ASSUME QueueInv, NEW t \in TaskIds, NEW token, Heartbeat(t, token)
    PROVE  QueueInv'
<1> DEFINE new == [tasks[t] EXCEPT !.beat = "recent"]
<1>1. tasks[t] \in Task /\ tasks[t].status = "running"
  BY DEF QueueInv, QueueTypeOK, Heartbeat, IsCurrentClaim
<1>2. /\ new \in Task /\ new.key = tasks[t].key /\ new.consumed = tasks[t].consumed
      /\ new.status = tasks[t].status /\ new.deliveries = tasks[t].deliveries
  BY <1>1 DEF Task, Age
<1>3. tasks' = [tasks EXCEPT ![t] = new] /\ UNCHANGED <<activeByKey, ntasks, nclaims>>
  BY DEF Heartbeat, QueueInv, QueueTypeOK
<1> HIDE DEF new
<1> QED
  BY <1>1, <1>2, <1>3, ReplaceStep DEF QueueInv, DeliveriesBounded

(* complete and fail keep it: the settled task keeps its slot. *)
LEMMA SettleKeeps ==
    ASSUME QueueInv, NEW t \in TaskIds, NEW st \in {"completed", "failed"}, NEW o \in Outcome,
           tasks[t].status = "running", SettleAs(t, st, o)
    PROVE  QueueInv'
<1> DEFINE new == [tasks[t] EXCEPT !.status = st, !.outcome = o, !.claimed = "none", !.beat = "none"]
<1>1. tasks[t] \in Task
  BY DEF QueueInv, QueueTypeOK
<1>2. /\ new \in Task /\ new.key = tasks[t].key /\ new.consumed = tasks[t].consumed
      /\ new.status = st /\ new.deliveries = tasks[t].deliveries
  BY <1>1 DEF Task, Age, TaskStatus
<1>3. tasks' = [tasks EXCEPT ![t] = new] /\ UNCHANGED <<activeByKey, ntasks, nclaims>>
  BY DEF SettleAs, QueueInv, QueueTypeOK
<1> HIDE DEF new
<1> QED
  BY <1>1, <1>2, <1>3, ReplaceStep DEF QueueInv, DeliveriesBounded

(* requeueStuck keeps it: what goes back is below the limit. *)
LEMMA RequeueKeeps ==
    ASSUME QueueInv, NEW S, S \subseteq Running, Requeue(S)
    PROVE  QueueInv'
<1>1. tasks \in [TaskIds -> Task] /\ nclaims \in Nat
  BY DEF QueueInv, QueueTypeOK
<1>2. /\ tasks' = [t \in TaskIds |-> IF t \in S THEN Requeued(tasks[t]) ELSE tasks[t]]
      /\ activeByKey' = activeByKey /\ ntasks' = ntasks /\ nclaims' = nclaims
  BY DEF Requeue
<1>3. \A t \in S : tasks[t].status = "running"
  BY DEF Running
<1>4. \A t \in TaskIds :
        /\ Requeued(tasks[t]) \in Task
        /\ Requeued(tasks[t]).deliveries = tasks[t].deliveries
        /\ Requeued(tasks[t]).key = tasks[t].key
        /\ Requeued(tasks[t]).consumed = tasks[t].consumed
        /\ Requeued(tasks[t]).status \in {"pending", "failed"}
        /\ Requeued(tasks[t]).status = "pending" => ~ tasks[t].deliveries >= MaxDeliveries
  BY <1>1, RequeuedType
<1>5. QuietCall
  BY <1>1, <1>2, <1>3, <1>4 DEF QuietCall
<1>6. ASSUME NEW t \in TaskIds PROVE Delivers(t)
  <2>1. CASE t \in S
    <3>1. tasks[t].deliveries <= MaxDeliveries /\ tasks[t].deliveries \in Nat
      BY <1>1 DEF QueueInv, DeliveriesBounded, Task
    <3>2. tasks'[t] = Requeued(tasks[t])
      BY <2>1, <1>2
    <3> QED
      BY <3>1, <3>2, <1>4, QueueAssumption DEF Delivers
  <2>2. CASE t \notin S
    BY <2>2, <1>2, KeepsDeliveries
  <2> QED
    BY <2>1, <2>2
<1> QED
  BY <1>5, <1>6, QuietStep

(* A task leaves: consumed or purged, its slot freed. *)
LEMMA LeaveKeeps ==
    ASSUME QueueInv, NEW t \in TaskIds, NEW new \in Task, Settled(t),
           tasks' = [tasks EXCEPT ![t] = new], activeByKey' = FreeSlot(t),
           UNCHANGED <<ntasks, nclaims>>,
           new.status = "absent" \/ (new.status = tasks[t].status /\ new.consumed),
           new.deliveries = 0 \/ new.deliveries = tasks[t].deliveries
    PROVE  QueueInv'
<1>1. /\ tasks \in [TaskIds -> Task] /\ activeByKey \in [Keys -> 0 .. MaxTasks] /\ nclaims \in Nat
      /\ ntasks \in 0 .. MaxTasks /\ tasks[t].key \in Keys
  BY DEF QueueInv, QueueTypeOK, Task
<1>2. activeByKey' \in [Keys -> 0 .. MaxTasks]
  BY FreeSlotType DEF QueueInv
<1>3. QueueTypeOK'
  BY <1>1, <1>2 DEF QueueTypeOK
<1>4. FreshIds'
  BY <1>1 DEF QueueInv, FreshIds
<1>5. OneTaskPerStep'
  <2> SUFFICES ASSUME NEW j \in Keys, NEW u \in TaskIds
               PROVE  activeByKey'[j] = u
                        <=> tasks'[u].status # "absent" /\ ~ tasks'[u].consumed /\ tasks'[u].key = j
    BY DEF OneTaskPerStep, Active, Exists
  <2>1. activeByKey[j] = u <=> tasks[u].status # "absent" /\ ~ tasks[u].consumed /\ tasks[u].key = j
    BY DEF QueueInv, OneTaskPerStep, Active, Exists
  <2>2. activeByKey[j] = t => tasks[t].key = j
    BY DEF QueueInv, OneTaskPerStep, Active, Exists
  <2>3. u # 0
    BY DEF TaskIds
  <2>4. CASE u = t
    <3>1. activeByKey'[j] # t
      BY <2>2, <2>3, <2>4, <1>1 DEF FreeSlot
    <3> QED
      BY <3>1, <2>4, <1>1
  <2>5. CASE u # t
    <3>1. tasks'[u] = tasks[u]
      BY <2>5, <1>1
    <3>2. activeByKey'[j] = u <=> activeByKey[j] = u
      BY <2>3, <2>5, <1>1 DEF FreeSlot
    <3> QED
      BY <3>1, <3>2, <2>1
  <2> QED
    BY <2>4, <2>5
<1>6. DeliveriesBounded'
  <2>1. ASSUME NEW u \in TaskIds PROVE Delivers(u)
    <3>1. CASE u = t
      BY <3>1, <1>1, QueueAssumption DEF QueueInv, DeliveriesBounded, Delivers, Settled
    <3>2. CASE u # t
      BY <3>2, <1>1, KeepsDeliveries
    <3> QED
      BY <3>1, <3>2
  <2> QED
    BY <2>1 DEF DeliveriesBounded, Delivers
<1> QED
  BY <1>3, <1>4, <1>5, <1>6 DEF QueueInv

(* consume keeps it. *)
LEMMA ConsumeKeeps ==
    ASSUME QueueInv, NEW t \in TaskIds, Consume(t)
    PROVE  QueueInv'
<1> DEFINE new == [tasks[t] EXCEPT !.consumed = TRUE]
<1>1. tasks[t] \in Task
  BY DEF QueueInv, QueueTypeOK
<1>2. /\ new \in Task /\ new.status = tasks[t].status /\ new.consumed
      /\ new.deliveries = tasks[t].deliveries
  BY <1>1 DEF Task
<1>3. /\ tasks' = [tasks EXCEPT ![t] = new] /\ activeByKey' = FreeSlot(t) /\ Settled(t)
      /\ UNCHANGED <<ntasks, nclaims>>
  BY DEF Consume, QueueInv, QueueTypeOK
<1> HIDE DEF new
<1> QED
  BY <1>2, <1>3, LeaveKeeps

(* purge keeps it. *)
LEMMA PurgeKeeps ==
    ASSUME QueueInv, NEW t \in TaskIds, Purge(t)
    PROVE  QueueInv'
<1>1. /\ tasks' = [tasks EXCEPT ![t] = NoTask] /\ activeByKey' = FreeSlot(t) /\ Settled(t)
      /\ UNCHANGED <<ntasks, nclaims>>
  BY DEF Purge
<1> QED
  BY <1>1, NoTaskType, LeaveKeeps

(* Time keeps it. *)
LEMMA GrowOldKeeps ==
    ASSUME QueueInv, NEW t \in TaskIds, GrowOld(t)
    PROVE  QueueInv'
<1>1. tasks[t] \in Task /\ tasks[t].status = "running" /\ UNCHANGED <<activeByKey, ntasks, nclaims>>
  BY DEF QueueInv, QueueTypeOK, GrowOld
<1>2. CASE tasks' = [tasks EXCEPT ![t].claimed = "old"]
  <2> DEFINE new == [tasks[t] EXCEPT !.claimed = "old"]
  <2>1. /\ new \in Task /\ new.key = tasks[t].key /\ new.consumed = tasks[t].consumed
        /\ new.status = tasks[t].status /\ new.deliveries = tasks[t].deliveries
    BY <1>1 DEF Task, Age
  <2>2. tasks' = [tasks EXCEPT ![t] = new]
    BY <1>2 DEF QueueInv, QueueTypeOK
  <2> HIDE DEF new
  <2> QED
    BY <1>1, <2>1, <2>2, ReplaceStep DEF QueueInv, DeliveriesBounded
<1>3. CASE tasks' = [tasks EXCEPT ![t].beat = "old"]
  <2> DEFINE new == [tasks[t] EXCEPT !.beat = "old"]
  <2>1. /\ new \in Task /\ new.key = tasks[t].key /\ new.consumed = tasks[t].consumed
        /\ new.status = tasks[t].status /\ new.deliveries = tasks[t].deliveries
    BY <1>1 DEF Task, Age
  <2>2. tasks' = [tasks EXCEPT ![t] = new]
    BY <1>3 DEF QueueInv, QueueTypeOK
  <2> HIDE DEF new
  <2> QED
    BY <1>1, <2>1, <2>2, ReplaceStep DEF QueueInv, DeliveriesBounded
<1> QED
  BY <1>2, <1>3 DEF GrowOld

-----------------------------------------------------------------------------
(* Any call but claim, with any token. *)
OtherCall ==
    \/ \E k \in Keys, r \in Runs : Enqueue(k, r)
    \/ \E t \in TaskIds, token \in Nat :
         \/ Release(t, token) \/ Heartbeat(t, token) \/ Complete(t, token)
         \/ \E o \in {"typed", "defect"} : Fail(t, token, o)
    \/ \E w \in Workers : RequeueWorker(w)
    \/ RequeueStale
    \/ \E t \in TaskIds : FailUnclaimed(t) \/ Consume(t) \/ Purge(t) \/ GrowOld(t)
    \/ UNCHANGED queueVars

(* A step is a claim or another call. *)
LEMMA StepIsACall ==
    ASSUME [QueueNext]_queueVars
    PROVE  OtherCall \/ \E w \in Workers, n \in 1 .. MaxTasks : Claim(w, Batch(w, n))
<1>1. \A token \in 1 .. MaxClaims : token \in Nat
  BY QueueAssumption
<1>2. ASSUME NEW t \in TaskIds, NEW token \in 1 .. MaxClaims,
             \/ Release(t, token) \/ Heartbeat(t, token) \/ Complete(t, token)
             \/ \E o \in {"typed", "defect"} : Fail(t, token, o)
      PROVE  OtherCall
  BY <1>1, <1>2 DEF OtherCall
<1> QED
  BY <1>2 DEF QueueNext, OtherCall

(* Every other call keeps the invariant. *)
LEMMA OtherCallInv == ASSUME QueueInv, OtherCall PROVE QueueInv'
<1>1. ASSUME NEW k \in Keys, NEW r \in Runs, Enqueue(k, r) PROVE QueueInv'
  BY <1>1, EnqueueKeeps
<1>2. ASSUME NEW t \in TaskIds, NEW token, Release(t, token) PROVE QueueInv'
  BY <1>2, ReleaseKeeps
<1>3. ASSUME NEW t \in TaskIds, NEW token, Heartbeat(t, token) PROVE QueueInv'
  BY <1>3, HeartbeatKeeps
<1>4. ASSUME NEW t \in TaskIds, NEW token, Complete(t, token) PROVE QueueInv'
  BY <1>4, SettleKeeps DEF Complete, IsCurrentClaim, Outcome
<1>5. ASSUME NEW t \in TaskIds, NEW token, NEW o \in {"typed", "defect"}, Fail(t, token, o)
      PROVE QueueInv'
  BY <1>5, SettleKeeps DEF Fail, IsCurrentClaim, Outcome
<1>6. ASSUME NEW t \in TaskIds, FailUnclaimed(t) PROVE QueueInv'
  BY <1>6, SettleKeeps DEF FailUnclaimed, Outcome
<1>7. ASSUME NEW w \in Workers, RequeueWorker(w) PROVE QueueInv'
  <2>1. {t \in Running : tasks[t].by = w} \subseteq Running
    OBVIOUS
  <2> QED
    BY <1>7, <2>1, RequeueKeeps DEF RequeueWorker
<1>8. ASSUME RequeueStale PROVE QueueInv'
  <2>1. Stale \subseteq Running
    BY DEF Stale
  <2> QED
    BY <1>8, <2>1, RequeueKeeps DEF RequeueStale
<1>9. ASSUME NEW t \in TaskIds, Consume(t) PROVE QueueInv'
  BY <1>9, ConsumeKeeps
<1>10. ASSUME NEW t \in TaskIds, Purge(t) PROVE QueueInv'
  BY <1>10, PurgeKeeps
<1>11. ASSUME NEW t \in TaskIds, GrowOld(t) PROVE QueueInv'
  BY <1>11, GrowOldKeeps
<1>12. ASSUME UNCHANGED queueVars PROVE QueueInv'
  BY <1>12 DEF queueVars, QueueInv, QueueTypeOK, FreshIds, OneTaskPerStep, Active, Exists,
               DeliveriesBounded
<1> QED
  BY <1>1, <1>2, <1>3, <1>4, <1>5, <1>6, <1>7, <1>8, <1>9, <1>10, <1>11, <1>12
     DEF OtherCall

(* So does every step. *)
LEMMA QueueNextInv == QueueInv /\ [QueueNext]_queueVars => QueueInv'
BY StepIsACall, OtherCallInv, ClaimKeeps

(* in-memory-step-queue.ts: whatever calls its clients make, the queue's     *)
(* tasks, slots and counters keep their types.                             *)
THEOREM QueueTypeCorrect == QueueSpec => []QueueTypeOK
<1>1. QueueInv => QueueTypeOK
  BY DEF QueueInv
<1> QED
  BY <1>1, QueueInitInv, QueueNextInv, PTL DEF QueueSpec

(* enqueue, consume, purge: for any workers, steps and tasks, the slot of a *)
(* step names its one unconsumed task, and only that one.                  *)
THEOREM StepRunsOnce == QueueSpec => []OneTaskPerStep
<1>1. QueueInv => OneTaskPerStep
  BY DEF QueueInv
<1> QED
  BY <1>1, QueueInitInv, QueueNextInv, PTL DEF QueueSpec

(* requeueStuck and release: no sequence of claims, releases and sweeps     *)
(* delivers a task more than MaxDeliveries times.                          *)
THEOREM DeliveryLimit == QueueSpec => []DeliveriesBounded
<1>1. QueueInv => DeliveriesBounded
  BY DEF QueueInv
<1> QED
  BY <1>1, QueueInitInv, QueueNextInv, PTL DEF QueueSpec

-----------------------------------------------------------------------------
(* What a step leaves of a settled task. *)
KeepsOutcome(t) ==
    tasks'[t].status = tasks[t].status /\ tasks'[t].outcome = tasks[t].outcome

(* A step that writes one task that is not settled. *)
LEMMA WritesOther ==
    ASSUME QueueTypeOK, NEW t \in TaskIds, NEW u \in TaskIds, NEW new, Settled(t), ~ Settled(u),
           tasks' = [tasks EXCEPT ![u] = new]
    PROVE  KeepsOutcome(t)
BY DEF QueueTypeOK, KeepsOutcome, Settled

(* No step changes the outcome of a settled task it does not remove. *)
LEMMA SettledStays ==
    ASSUME QueueInv, [QueueNext]_queueVars, NEW t \in TaskIds, Settled(t),
           tasks'[t].status # "absent"
    PROVE  KeepsOutcome(t)
<1>1. QueueTypeOK /\ tasks \in [TaskIds -> Task] /\ tasks[t] \in Task
  BY DEF QueueInv, QueueTypeOK
<1>2. ASSUME NEW k \in Keys, NEW r \in Runs, Enqueue(k, r) PROVE KeepsOutcome(t)
  <2>1. ntasks + 1 \in TaskIds /\ ntasks + 1 > ntasks
    BY <1>2, QueueAssumption DEF QueueInv, QueueTypeOK, Enqueue, TaskIds
  <2>2. ~ Settled(ntasks + 1)
    BY <2>1 DEF QueueInv, FreshIds, Settled
  <2> QED
    BY <1>1, <1>2, <2>1, <2>2, WritesOther DEF Enqueue
<1>3. ASSUME NEW w \in Workers, NEW n, Claim(w, Batch(w, n)) PROVE KeepsOutcome(t)
  <2>1. t \notin Batch(w, n)
    BY BatchIsPending DEF Settled
  <2> QED
    BY <1>3, <2>1 DEF Claim, KeepsOutcome
<1>4. ASSUME NEW u \in TaskIds, tasks[u].status = "running", NEW new,
             tasks' = [tasks EXCEPT ![u] = new]
      PROVE KeepsOutcome(t)
  <2>1. ~ Settled(u)
    BY <1>4 DEF Settled
  <2> QED
    BY <1>1, <1>4, <2>1, WritesOther
<1>5. ASSUME NEW u \in TaskIds, NEW token, Release(u, token) PROVE KeepsOutcome(t)
  BY <1>4, <1>5 DEF Release, IsCurrentClaim
<1>6. ASSUME NEW u \in TaskIds, NEW token, Heartbeat(u, token) PROVE KeepsOutcome(t)
  BY <1>1, <1>6 DEF Heartbeat, IsCurrentClaim, KeepsOutcome, Settled
<1>7. ASSUME NEW u \in TaskIds, tasks[u].status = "running", NEW st, NEW o, SettleAs(u, st, o)
      PROVE KeepsOutcome(t)
  BY <1>1, <1>7 DEF SettleAs, KeepsOutcome, Settled
<1>8. ASSUME NEW S, S \subseteq Running, Requeue(S) PROVE KeepsOutcome(t)
  <2>1. t \notin S
    BY <1>8 DEF Running, Settled
  <2> QED
    BY <1>8, <2>1 DEF Requeue, KeepsOutcome
<1>9. ASSUME NEW u \in TaskIds, Consume(u) PROVE KeepsOutcome(t)
  BY <1>1, <1>9 DEF Consume, KeepsOutcome, Task
<1>10. ASSUME NEW u \in TaskIds, Purge(u) PROVE KeepsOutcome(t)
  <2>1. u # t
    BY <1>1, <1>10, NoTaskType DEF Purge
  <2> QED
    BY <1>1, <1>10, <2>1 DEF Purge, KeepsOutcome
<1>11. ASSUME NEW u \in TaskIds, GrowOld(u) PROVE KeepsOutcome(t)
  BY <1>1, <1>11 DEF GrowOld, KeepsOutcome, Settled
<1>12. ASSUME UNCHANGED queueVars PROVE KeepsOutcome(t)
  BY <1>12 DEF queueVars, KeepsOutcome
<1>13. ASSUME NEW w \in Workers, RequeueWorker(w) PROVE KeepsOutcome(t)
  <2>1. {u \in Running : tasks[u].by = w} \subseteq Running
    OBVIOUS
  <2> QED
    BY <1>8, <1>13, <2>1 DEF RequeueWorker
<1>14. ASSUME RequeueStale PROVE KeepsOutcome(t)
  <2>1. Stale \subseteq Running
    BY DEF Stale
  <2> QED
    BY <1>8, <1>14, <2>1 DEF RequeueStale
<1>15. ASSUME NEW u \in TaskIds, NEW token, Complete(u, token) PROVE KeepsOutcome(t)
  BY <1>7, <1>15 DEF Complete, IsCurrentClaim
<1>16. ASSUME NEW u \in TaskIds, NEW token, NEW o, Fail(u, token, o) PROVE KeepsOutcome(t)
  BY <1>7, <1>16 DEF Fail, IsCurrentClaim
<1>17. ASSUME NEW u \in TaskIds, FailUnclaimed(u) PROVE KeepsOutcome(t)
  BY <1>7, <1>17 DEF FailUnclaimed
<1> QED
  BY <1>2, <1>3, <1>5, <1>6, <1>9, <1>10, <1>11, <1>12, <1>13, <1>14, <1>15, <1>16, <1>17
     DEF QueueNext

(* complete, fail, requeueStuck, consume: the outcome of a settled task is  *)
(* never changed by a late caller, a sweep or a second settlement.         *)
THEOREM OutcomesAreFinal == QueueSpec => SettledIsFinal
<1>1. QueueInv /\ [QueueNext]_queueVars =>
        [\A t \in TaskIds : Settled(t) /\ tasks'[t].status # "absent" =>
            /\ tasks'[t].status = tasks[t].status
            /\ tasks'[t].outcome = tasks[t].outcome]_queueVars
  BY SettledStays DEF KeepsOutcome
<1> QED
  BY <1>1, QueueInitInv, QueueNextInv, PTL DEF QueueSpec, SettledIsFinal

-----------------------------------------------------------------------------
(* What every call but claim does to the running tasks: some may stop, none *)
(* starts, and those that go on keep their token and their step.           *)
OnlyStops ==
    /\ Running' \subseteq Running
    /\ nclaims' = nclaims
    /\ \A t \in Running' : tasks'[t].token = tasks[t].token /\ tasks'[t].key = tasks[t].key

(* The call that writes one task and leaves it stopped or as it was. *)
LEMMA WriteOnlyStops ==
    ASSUME QueueTypeOK, NEW t \in TaskIds, NEW new, tasks' = [tasks EXCEPT ![t] = new],
           nclaims' = nclaims,
           new.status = "running" =>
              tasks[t].status = "running" /\ new.token = tasks[t].token /\ new.key = tasks[t].key
    PROVE  OnlyStops
BY DEF OnlyStops, Running, QueueTypeOK

(* No call but claim hands a task out. *)
LEMMA OthersOnlyStop ==
    ASSUME QueueInv, OtherCall
    PROVE  OnlyStops
<1>1. QueueTypeOK /\ tasks \in [TaskIds -> Task]
  BY DEF QueueInv, QueueTypeOK
<1>2. ASSUME NEW k \in Keys, NEW r \in Runs, Enqueue(k, r) PROVE OnlyStops
  <2>1. ntasks + 1 \in TaskIds
    BY <1>1, <1>2, QueueAssumption DEF QueueTypeOK, Enqueue, TaskIds
  <2>2. NewTask(k, r).status # "running"
    BY DEF NewTask
  <2> QED
    BY <1>1, <1>2, <2>1, <2>2, WriteOnlyStops DEF Enqueue
<1>3. ASSUME NEW t \in TaskIds, NEW token, Release(t, token) PROVE OnlyStops
  <2>1. Released(tasks[t]).status # "running"
    BY <1>1 DEF Released, BackToPending, Task
  <2> QED
    BY <1>1, <1>3, <2>1, WriteOnlyStops DEF Release
<1>4. ASSUME NEW t \in TaskIds, NEW token, Heartbeat(t, token) PROVE OnlyStops
  BY <1>1, <1>4 DEF Heartbeat, OnlyStops, Running, Task
<1>5. ASSUME NEW t \in TaskIds, NEW st \in {"completed", "failed"}, NEW o, SettleAs(t, st, o)
      PROVE OnlyStops
  BY <1>1, <1>5 DEF SettleAs, OnlyStops, Running, Task
<1>6. ASSUME NEW t \in TaskIds, NEW token, Complete(t, token) PROVE OnlyStops
  BY <1>5, <1>6 DEF Complete
<1>7. ASSUME NEW t \in TaskIds, NEW token, NEW o, Fail(t, token, o) PROVE OnlyStops
  BY <1>5, <1>7 DEF Fail
<1>8. ASSUME NEW t \in TaskIds, FailUnclaimed(t) PROVE OnlyStops
  BY <1>5, <1>8 DEF FailUnclaimed
<1>9. ASSUME NEW S, Requeue(S) PROVE OnlyStops
  <2>1. \A t \in TaskIds : Requeued(tasks[t]).status # "running"
    BY <1>1, RequeuedType
  <2> QED
    BY <1>9, <2>1 DEF Requeue, OnlyStops, Running
<1>10. ASSUME NEW t \in TaskIds, Consume(t) PROVE OnlyStops
  BY <1>1, <1>10 DEF Consume, OnlyStops, Running, Task
<1>11. ASSUME NEW t \in TaskIds, Purge(t) PROVE OnlyStops
  BY <1>1, <1>11, NoTaskType, WriteOnlyStops DEF Purge
<1>12. ASSUME NEW t \in TaskIds, GrowOld(t) PROVE OnlyStops
  BY <1>1, <1>12 DEF GrowOld, OnlyStops, Running, Task
<1>13. ASSUME UNCHANGED queueVars PROVE OnlyStops
  BY <1>13 DEF queueVars, OnlyStops, Running
<1> QED
  BY <1>2, <1>3, <1>4, <1>6, <1>7, <1>8, <1>9, <1>10, <1>11, <1>12, <1>13
     DEF OtherCall, RequeueWorker, RequeueStale

-----------------------------------------------------------------------------
(* The order of a batch is a strict total order on tasks. *)
LEMMA BeforeIsTotal ==
    ASSUME QueueTypeOK
    PROVE  /\ \A t \in TaskIds : ~ Before(t, t)
           /\ \A t, u \in TaskIds : t # u => Before(t, u) \/ Before(u, t)
           /\ \A t, u, v \in TaskIds : Before(t, u) /\ Before(u, v) => Before(t, v)
<1> DEFINE p(t) == Priority[tasks[t].key]
<1>1. \A t \in TaskIds : p(t) \in Int /\ t \in Int
  BY QueueAssumption DEF QueueTypeOK, Task, TaskIds
<1>2. \A t, u : Before(t, u) <=> p(t) > p(u) \/ (p(t) = p(u) /\ t < u)
  BY DEF Before
<1> HIDE DEF p
<1> QED
  BY <1>1, <1>2

(* How many tasks of a set come before a task. *)
Rank(S, t) == Cardinality({u \in S : Before(u, t)})

(* In a finite set of tasks the ranks are below the size of the set, and no *)
(* two tasks have the same.                                                *)
LEMMA RanksDiffer ==
    ASSUME QueueTypeOK, NEW S, S \subseteq TaskIds, IsFiniteSet(S)
    PROVE  /\ Cardinality(S) \in Nat
           /\ \A t \in S : Rank(S, t) \in Nat /\ Rank(S, t) < Cardinality(S)
           /\ \A t, u \in S : Rank(S, t) = Rank(S, u) => t = u
<1> DEFINE earlier(t) == {u \in S : Before(u, t)}
<1>1. ASSUME NEW t \in S
      PROVE  IsFiniteSet(earlier(t)) /\ Rank(S, t) = Cardinality(earlier(t)) /\ Rank(S, t) \in Nat
  <2>1. earlier(t) \subseteq S
    OBVIOUS
  <2> QED
    BY <2>1, FS_Subset, FS_CardinalityType DEF Rank
<1>2. Cardinality(S) \in Nat
  BY FS_CardinalityType
<1>3. ASSUME NEW t \in S PROVE Rank(S, t) < Cardinality(S)
  <2>1. earlier(t) \subseteq S /\ t \notin earlier(t)
    BY BeforeIsTotal
  <2>2. Cardinality(earlier(t)) <= Cardinality(S) /\ Cardinality(S) # Cardinality(earlier(t))
    BY <2>1, FS_Subset
  <2> QED
    BY <1>1, <1>2, <2>2
<1>4. ASSUME NEW t \in S, NEW u \in S, Before(t, u) PROVE Rank(S, t) # Rank(S, u)
  <2>1. earlier(t) \subseteq earlier(u)
    BY <1>4, BeforeIsTotal
  <2>2. t \in earlier(u) /\ t \notin earlier(t)
    BY <1>4, BeforeIsTotal
  <2>3. Cardinality(earlier(u)) # Cardinality(earlier(t))
    BY <1>1, <2>1, <2>2, FS_Subset
  <2> QED
    BY <1>1, <2>3
<1> QED
  BY <1>1, <1>2, <1>3, <1>4, BeforeIsTotal

(* So one of them comes after all the others. *)
LEMMA LastOfSet ==
    ASSUME QueueTypeOK, NEW S, S \subseteq TaskIds, IsFiniteSet(S), S # {}
    PROVE  \E t \in S : Rank(S, t) = Cardinality(S) - 1
<1> DEFINE n == Cardinality(S)
           f == [t \in S |-> Rank(S, t)]
<1>1. n \in Nat /\ n # 0
  BY RanksDiffer, FS_EmptySet
<1>2. SUFFICES ASSUME \A t \in S : Rank(S, t) # n - 1 PROVE FALSE
  OBVIOUS
<1>3. \A t \in S : Rank(S, t) \in 0 .. n - 2
  BY <1>1, <1>2, RanksDiffer
<1>4. f \in [S -> 0 .. n - 2]
  BY <1>3
<1>5. IsFiniteSet(0 .. n - 2) /\ Cardinality(0 .. n - 2) = n - 1
  <2>1. n - 2 \in Int /\ 0 \in Int
    BY <1>1
  <2>2. /\ IsFiniteSet(0 .. n - 2)
        /\ Cardinality(0 .. n - 2) = IF 0 > n - 2 THEN 0 ELSE (n - 2) - 0 + 1
    BY <2>1, FS_Interval
  <2> QED
    BY <1>1, <2>2
<1>6. Cardinality(0 .. n - 2) < Cardinality(S)
  BY <1>1, <1>5
<1> HIDE DEF f
<1>7. PICK t, u \in S : t # u /\ f[t] = f[u]
  BY <1>4, <1>5, <1>6, FS_PigeonHole
<1> QED
  BY <1>7, RanksDiffer DEF f

-----------------------------------------------------------------------------
(* A batch is a finite set of tasks, none of them running. *)
LEMMA BatchIsFinite ==
    ASSUME NEW w, NEW n
    PROVE  /\ IsFiniteSet(TaskIds) /\ Batch(w, n) \subseteq TaskIds /\ IsFiniteSet(Batch(w, n))
           /\ Batch(w, n) \cap Running = {}
<1>1. IsFiniteSet(TaskIds)
  BY FS_Interval, QueueAssumption DEF TaskIds
<1>2. Batch(w, n) \subseteq TaskIds /\ Batch(w, n) \cap Running = {}
  BY BatchIsPending DEF Running
<1> QED
  BY <1>1, <1>2, FS_Subset

(* What a claim makes of the running tasks. *)
LEMMA ClaimStarts ==
    ASSUME QueueTypeOK, NEW w, NEW n, Claim(w, Batch(w, n))
    PROVE  /\ Running' = Running \cup Batch(w, n)
           /\ nclaims' = nclaims + Cardinality(Batch(w, n))
           /\ \A t \in TaskIds : tasks'[t].key = tasks[t].key
           /\ \A t \in Running : tasks'[t].token = tasks[t].token
           /\ \A t \in Batch(w, n) :
                 tasks'[t].token = nclaims + 1 + Rank(Batch(w, n), t)
<1> DEFINE B == Batch(w, n)
<1>1. B \subseteq TaskIds /\ B \cap Running = {}
  BY BatchIsFinite
<1>2. \A t \in TaskIds : tasks[t] \in Task
  BY DEF QueueTypeOK
<1>3. \A t \in TaskIds \ B : tasks'[t] = tasks[t]
  BY DEF Claim
<1>4. \A t \in B : tasks'[t] = [tasks[t] EXCEPT !.status = "running", !.by = w,
                                 !.token = TokenIn(B, t), !.deliveries = @ + 1,
                                 !.claimed = "recent", !.beat = "none"]
  BY <1>1 DEF Claim
<1>5. \A t \in B : /\ tasks'[t].status = "running" /\ tasks'[t].key = tasks[t].key
                   /\ tasks'[t].token = nclaims + 1 + Rank(B, t)
  <2> SUFFICES ASSUME NEW t \in B
               PROVE  /\ tasks'[t].status = "running" /\ tasks'[t].key = tasks[t].key
                      /\ tasks'[t].token = nclaims + 1 + Rank(B, t)
    OBVIOUS
  <2>1. tasks[t] \in Task
    BY <1>1, <1>2
  <2> DEFINE token == TokenIn(B, t)
  <2>2. token = nclaims + 1 + Rank(B, t)
    BY DEF TokenIn, Rank
  <2> HIDE DEF token
  <2>3. tasks'[t] = [tasks[t] EXCEPT !.status = "running", !.by = w, !.token = token,
                                     !.deliveries = @ + 1, !.claimed = "recent", !.beat = "none"]
    BY <1>4 DEF token
  <2>4. /\ tasks'[t].status = "running" /\ tasks'[t].key = tasks[t].key
        /\ tasks'[t].token = token
    BY <2>1, <2>3 DEF Task
  <2> QED
    BY <2>2, <2>4
<1>6. nclaims' = nclaims + Cardinality(B)
  BY DEF Claim
<1> HIDE DEF B
<1>7. Running' = Running \cup B
  BY <1>1, <1>3, <1>5 DEF Running
<1>8. \A t \in Running : t \in TaskIds \ B
  BY <1>1 DEF Running
<1> QED
  BY <1>3, <1>5, <1>6, <1>7, <1>8 DEF B

(* What only stops tasks breaks neither the ownership of tokens nor the    *)
(* limit.                                                                  *)
LEMMA StopsKeepClaims ==
    ASSUME QueueTypeOK, OnlyStops
    PROVE  /\ OneClaimPerToken => OneClaimPerToken'
           /\ ConcurrencyCap => ConcurrencyCap'
<1>1. OneClaimPerToken => OneClaimPerToken'
  BY DEF OnlyStops, OneClaimPerToken
<1>2. ASSUME ConcurrencyCap PROVE ConcurrencyCap'
  <2> DEFINE R == CappedIn(Running)
             RP == {t \in Running' : tasks'[t].key \in Capped}
  <2>1. R \subseteq TaskIds /\ RP \subseteq R
    BY DEF OnlyStops, CappedIn, Running
  <2>2. IsFiniteSet(R) /\ Cardinality(R) \in Nat
    BY <2>1, BatchIsFinite, FS_Subset, FS_CardinalityType
  <2>3. Cardinality(RP) <= Cardinality(R) /\ Cardinality(RP) \in Nat
    BY <2>1, <2>2, FS_Subset, FS_CardinalityType
  <2>4. Cardinality(R) <= Limit /\ Limit \in Nat
    BY <1>2, QueueAssumption DEF ConcurrencyCap
  <2>5. Cardinality(RP) <= Limit
    BY <2>2, <2>3, <2>4
  <2> QED
    BY <2>5 DEF ConcurrencyCap, CappedIn
<1> QED
  BY <1>1, <1>2

(* claim: the tokens of a batch are new and differ. *)
LEMMA ClaimKeepsTokens ==
    ASSUME QueueTypeOK, OneClaimPerToken, NEW w, NEW n, Claim(w, Batch(w, n))
    PROVE  OneClaimPerToken'
<1> DEFINE B == Batch(w, n)
           token(t) == tasks'[t].token
<1>1. nclaims \in Nat
  BY DEF QueueTypeOK
<1>2. /\ Cardinality(B) \in Nat
      /\ \A t \in B : Rank(B, t) \in Nat /\ Rank(B, t) < Cardinality(B)
      /\ \A t, u \in B : Rank(B, t) = Rank(B, u) => t = u
  BY BatchIsFinite, RanksDiffer
<1>3. /\ Running' = Running \cup B /\ nclaims' = nclaims + Cardinality(B)
      /\ \A t \in Running : token(t) = tasks[t].token
      /\ \A t \in B : token(t) = nclaims + 1 + Rank(B, t)
  BY ClaimStarts
<1> HIDE DEF B
<1>4. \A t \in Running : token(t) \in 1 .. nclaims
  BY <1>3 DEF OneClaimPerToken
<1>5. \A t \in B : token(t) \in nclaims + 1 .. nclaims + Cardinality(B)
  BY <1>1, <1>2, <1>3
<1>6. \A t, u \in Running : token(t) = token(u) => t = u
  BY <1>3 DEF OneClaimPerToken
<1>7. \A t, u \in B : token(t) = token(u) => t = u
  BY <1>1, <1>2, <1>3
<1> HIDE DEF token
<1>8. \A t \in Running, u \in B : token(t) # token(u)
  BY <1>1, <1>2, <1>4, <1>5
<1>9. \A t \in Running' : token(t) \in 1 .. nclaims'
  BY <1>1, <1>2, <1>3, <1>4, <1>5
<1>10. \A t, u \in Running' : token(t) = token(u) => t = u
  BY <1>3, <1>6, <1>7, <1>8
<1> QED
  BY <1>9, <1>10 DEF OneClaimPerToken, token

(* claim: of the capped tasks of a batch, the last was admitted with room   *)
(* for it beside the running ones and all the others.                      *)
LEMMA ClaimKeepsCap ==
    ASSUME QueueTypeOK, ConcurrencyCap, NEW w, NEW n, Claim(w, Batch(w, n))
    PROVE  ConcurrencyCap'
<1> DEFINE R == CappedIn(Running)
           RP == {t \in Running' : tasks'[t].key \in Capped}
           B == Batch(w, n)
           C == CappedIn(B)
<1>1. IsFiniteSet(R) /\ Cardinality(R) \in Nat
  <2>1. R \subseteq TaskIds
    BY DEF CappedIn, Running
  <2> QED
    BY <2>1, BatchIsFinite, FS_Subset, FS_CardinalityType
<1>2. Cardinality(R) <= Limit /\ Limit \in Nat
  BY QueueAssumption DEF ConcurrencyCap
<1>3. SUFFICES Cardinality(RP) <= Limit
  BY DEF ConcurrencyCap, CappedIn
<1>4. Running' = Running \cup B /\ \A t \in TaskIds : tasks'[t].key = tasks[t].key
  BY ClaimStarts
<1>5. B \subseteq TaskIds /\ B \cap Running = {} /\ IsFiniteSet(B) /\ IsFiniteSet(TaskIds)
  BY BatchIsFinite
<1>6. C \subseteq B /\ C \subseteq TaskIds /\ IsFiniteSet(C) /\ Cardinality(C) \in Nat
  <2>1. C \subseteq B
    BY DEF CappedIn
  <2> QED
    BY <1>5, <2>1, FS_Subset, FS_CardinalityType
<1>7. Cardinality(RP) = Cardinality(R) + Cardinality(C)
  <2>1. RP = R \cup C
    BY <1>4, <1>5 DEF CappedIn, Running
  <2>2. R \cap C = {}
    BY <1>5 DEF CappedIn
  <2>3. Cardinality(R \cap C) = 0
    BY <2>2, FS_EmptySet
  <2>4. Cardinality(R \cup C) = Cardinality(R) + Cardinality(C) - Cardinality(R \cap C)
    BY <1>1, <1>6, FS_Union
  <2> HIDE DEF C, R, RP
  <2> QED
    BY <1>1, <1>6, <2>1, <2>3, <2>4
<1>8. CASE C = {}
  BY <1>1, <1>2, <1>7, <1>8, FS_EmptySet
<1>9. CASE C # {}
  <2>1. PICK t \in C : Rank(C, t) = Cardinality(C) - 1
    BY <1>6, <1>9, LastOfSet
  <2> DEFINE E == CappedIn({u \in Claimable(w) : Before(u, t)})
  <2>2. t \in Admitted(w) /\ tasks[t].key \in Capped
    BY DEF CappedIn, Batch
  <2>3. Cardinality(R) + Cardinality(E) < Limit
    BY <2>2 DEF Admitted
  <2>4. {u \in C : Before(u, t)} \subseteq E
    BY DEF CappedIn, Batch, Admitted
  <2>5. IsFiniteSet(E) /\ Cardinality(E) \in Nat
    <3>1. E \subseteq TaskIds
      BY DEF CappedIn, Claimable
    <3> QED
      BY <1>5, <3>1, FS_Subset, FS_CardinalityType
  <2>6. Rank(C, t) <= Cardinality(E)
    BY <2>4, <2>5, FS_Subset DEF Rank
  <2> HIDE DEF E, C, R, RP
  <2> QED
    BY <1>1, <1>2, <1>6, <1>7, <2>1, <2>3, <2>5, <2>6
<1> QED
  BY <1>8, <1>9

(* No call breaks either. *)
LEMMA ClaimsStep ==
    ASSUME QueueInv, [QueueNext]_queueVars
    PROVE  /\ OneClaimPerToken => OneClaimPerToken'
           /\ ConcurrencyCap => ConcurrencyCap'
<1>1. QueueTypeOK
  BY DEF QueueInv
<1> QED
  BY <1>1, StepIsACall, OthersOnlyStop, StopsKeepClaims, ClaimKeepsTokens, ClaimKeepsCap

(* The empty queue runs nothing. *)
LEMMA NothingRunsFirst == QueueInit => OneClaimPerToken /\ ConcurrencyCap
<1> SUFFICES ASSUME QueueInit PROVE OneClaimPerToken /\ ConcurrencyCap
  OBVIOUS
<1>1. Running = {}
  BY NoTaskType DEF QueueInit, Running
<1>2. Cardinality(CappedIn(Running)) = 0
  BY <1>1, FS_EmptySet DEF CappedIn
<1> QED
  BY <1>1, <1>2, QueueAssumption DEF OneClaimPerToken, ConcurrencyCap

(* claim: however claims, releases, sweeps and late calls alternate, every  *)
(* running task has a claim token of its own, so the check of isCurrentClaim *)
(* accepts the one worker that was handed the task last.                   *)
THEOREM TokensAreUnique == QueueSpec => []OneClaimPerToken
<1>1. QueueInv /\ OneClaimPerToken /\ [QueueNext]_queueVars => QueueInv' /\ OneClaimPerToken'
  BY QueueNextInv, ClaimsStep
<1> QED
  BY <1>1, QueueInitInv, NothingRunsFirst, PTL DEF QueueSpec

(* claim: at most Limit tasks of a concurrency key run, for any workers,    *)
(* priorities and batch sizes, though a claim counts the running tasks only *)
(* once for the whole batch.                                               *)
THEOREM CapHolds == QueueSpec => []ConcurrencyCap
<1>1. QueueInv /\ ConcurrencyCap /\ [QueueNext]_queueVars => QueueInv' /\ ConcurrencyCap'
  BY QueueNextInv, ClaimsStep
<1> QED
  BY <1>1, QueueInitInv, NothingRunsFirst, PTL DEF QueueSpec
=============================================================================
