-------------------------- MODULE StepDispatchProofs --------------------------
(***************************************************************************)
(* The step queue under its real clients.  What StepQueueProofs shows of   *)
(* any calls carries over to the calls workers and coordinators make, and  *)
(* with it a step row is stored as completed only from an outcome some     *)
(* worker produced for that very run.                                      *)
(*                                                                         *)
(* The argument follows the outcome from the worker to the row: no client  *)
(* purges, so a task keeps its step, its run and its value; a wait that    *)
(* holds a value holds that of a task of its own run; and the fence lets   *)
(* only a wait of the present epoch, hence of the present run, write.      *)
(***************************************************************************)
EXTENDS StepDispatch, StepQueueProofs

-----------------------------------------------------------------------------
(* worker.ts, releaseUnfinished: several claims given back in one go. *)
ReleaseAll(G) ==
    /\ G \subseteq Running
    /\ tasks' = [t \in TaskIds |-> IF t \in G THEN Released(tasks[t]) ELSE tasks[t]]
    /\ UNCHANGED <<activeByKey, ntasks, nclaims>>

(* The calls workers, executors and sweeps make.  Nobody purges. *)
QueueCall ==
    \/ UNCHANGED queueVars
    \/ \E k \in Keys, r \in Runs : Enqueue(k, r)
    \/ \E w \in Workers, n \in Int : Claim(w, Batch(w, n))
    \/ \E t \in TaskIds, token \in Nat :
         \/ Heartbeat(t, token) \/ Complete(t, token)
         \/ \E o \in {"typed", "defect"} : Fail(t, token, o)
    \/ \E w \in Workers : RequeueWorker(w)
    \/ RequeueStale
    \/ \E t \in TaskIds : FailUnclaimed(t) \/ Consume(t) \/ GrowOld(t)
    \/ \E G \in SUBSET TaskIds : ReleaseAll(G)

(* Only settled tasks have an outcome. *)
OpenHasNone == \A t \in TaskIds : ~ Settled(t) => tasks[t].outcome = "none"

(* What a call leaves of a task: its step, its run, and its value. *)
TaskKept(t) ==
    Exists(t) =>
        /\ tasks'[t].status # "absent"
        /\ tasks'[t].key = tasks[t].key /\ tasks'[t].run = tasks[t].run
        /\ tasks[t].outcome = "value" => tasks'[t].outcome = "value"

ClientInv == QueueInv /\ OneClaimPerToken /\ ConcurrencyCap /\ OpenHasNone

(* A release of several claims, as of one. *)
LEMMA ReleaseAllKeeps ==
    ASSUME QueueInv, NEW G, ReleaseAll(G)
    PROVE  QueueInv' /\ OnlyStops
<1>1. QueueTypeOK /\ tasks \in [TaskIds -> Task] /\ nclaims \in Nat
  BY DEF QueueInv, QueueTypeOK
<1>2. /\ G \subseteq Running /\ G \subseteq TaskIds
      /\ tasks' = [t \in TaskIds |-> IF t \in G THEN Released(tasks[t]) ELSE tasks[t]]
      /\ UNCHANGED <<activeByKey, ntasks, nclaims>>
  BY DEF ReleaseAll, Running
<1>3. \A t \in G : /\ tasks[t] \in Task /\ tasks[t].status = "running" /\ tasks[t].deliveries \in Nat
                   /\ tasks[t].deliveries > 0 /\ tasks[t].deliveries <= MaxDeliveries
  BY <1>1, <1>2 DEF Running, QueueInv, DeliveriesBounded, Task
<1>4. \A t \in G : /\ Released(tasks[t]) \in Task
                   /\ Released(tasks[t]).deliveries = tasks[t].deliveries - 1
                   /\ Released(tasks[t]).key = tasks[t].key
                   /\ Released(tasks[t]).consumed = tasks[t].consumed
                   /\ Released(tasks[t]).status = "pending"
  BY <1>3, ReleasedType
<1>5. QuietCall
  <2>1. tasks' \in [TaskIds -> Task]
    BY <1>1, <1>2, <1>4
  <2> QED
    BY <1>1, <1>2, <1>3, <1>4, <2>1 DEF QuietCall
<1>6. ASSUME NEW t \in TaskIds PROVE Delivers(t)
  <2>1. CASE t \in G
    <3>1. tasks'[t] = Released(tasks[t])
      BY <1>2, <2>1
    <3> QED
      BY <1>3, <1>4, <2>1, <3>1, QueueAssumption DEF Delivers
  <2>2. CASE t \notin G
    BY <1>2, <2>2, KeepsDeliveries
  <2> QED
    BY <2>1, <2>2
<1>7. OnlyStops
  BY <1>2, <1>4 DEF OnlyStops, Running
<1> QED
  BY <1>5, <1>6, <1>7, QuietStep

(* A call that writes one task, running or not there before. *)
LEMMA WriteKeepsTasks ==
    ASSUME QueueTypeOK, OpenHasNone, NEW u \in TaskIds, NEW new, ~ Settled(u),
           tasks' = [tasks EXCEPT ![u] = new], new.status # "absent",
           Exists(u) => new.key = tasks[u].key /\ new.run = tasks[u].run,
           new.status \notin {"completed", "failed"} => new.outcome = "none"
    PROVE  OpenHasNone' /\ \A t \in TaskIds : TaskKept(t)
<1>1. tasks \in [TaskIds -> Task]
  BY DEF QueueTypeOK
<1>2. tasks[u].outcome = "none"
  BY DEF OpenHasNone
<1> QED
  BY <1>1, <1>2 DEF OpenHasNone, Settled, TaskKept, Exists

(* No call takes a task's step, run or value away. *)
LEMMA CallKeepsTasks ==
    ASSUME QueueInv, OpenHasNone, QueueCall
    PROVE  OpenHasNone' /\ \A t \in TaskIds : TaskKept(t)
<1> DEFINE Goal == OpenHasNone' /\ \A t \in TaskIds : TaskKept(t)
<1>1. QueueTypeOK /\ tasks \in [TaskIds -> Task]
  BY DEF QueueInv, QueueTypeOK
<1>2. ASSUME UNCHANGED queueVars PROVE Goal
  BY <1>2 DEF queueVars, OpenHasNone, Settled, TaskKept, Exists
<1>3. ASSUME NEW k \in Keys, NEW r \in Runs, Enqueue(k, r) PROVE Goal
  <2>1. ntasks + 1 \in TaskIds /\ ntasks + 1 > ntasks
    BY <1>3, QueueAssumption DEF QueueInv, QueueTypeOK, Enqueue, TaskIds
  <2>2. ~ Settled(ntasks + 1) /\ ~ Exists(ntasks + 1)
    BY <2>1 DEF QueueInv, FreshIds, Settled, Exists
  <2>3. NewTask(k, r).status = "pending" /\ NewTask(k, r).outcome = "none"
    BY DEF NewTask
  <2> QED
    BY <1>1, <1>3, <2>1, <2>2, <2>3, WriteKeepsTasks DEF Enqueue
<1>4. ASSUME NEW w \in Workers, NEW n, Claim(w, Batch(w, n)) PROVE Goal
  <2> DEFINE B == Batch(w, n)
  <2>1. \A t \in B : t \in TaskIds /\ tasks[t].status = "pending" /\ tasks[t] \in Task
    BY <1>1, BatchIsPending
  <2>2. \A t \in TaskIds \ B : tasks'[t] = tasks[t]
    BY <1>4 DEF Claim
  <2>3. \A t \in B : /\ tasks'[t].status = "running" /\ tasks'[t].key = tasks[t].key
                     /\ tasks'[t].run = tasks[t].run /\ tasks'[t].outcome = tasks[t].outcome
    BY <1>4, <2>1 DEF Claim, Task
  <2> HIDE DEF B
  <2> QED
    BY <2>1, <2>2, <2>3 DEF OpenHasNone, Settled, TaskKept, Exists
<1>5. ASSUME NEW t \in TaskIds, NEW token, Heartbeat(t, token) PROVE Goal
  BY <1>1, <1>5 DEF Heartbeat, IsCurrentClaim, OpenHasNone, Settled, TaskKept, Exists, Task
<1>6. ASSUME NEW t \in TaskIds, tasks[t].status = "running", NEW st \in {"completed", "failed"},
             NEW o, SettleAs(t, st, o)
      PROVE Goal
  BY <1>1, <1>6 DEF SettleAs, OpenHasNone, Settled, TaskKept, Exists, Task
<1>7. ASSUME NEW t \in TaskIds, NEW token, Complete(t, token) PROVE Goal
  BY <1>6, <1>7 DEF Complete, IsCurrentClaim
<1>8. ASSUME NEW t \in TaskIds, NEW token, NEW o, Fail(t, token, o) PROVE Goal
  BY <1>6, <1>8 DEF Fail, IsCurrentClaim
<1>9. ASSUME NEW t \in TaskIds, FailUnclaimed(t) PROVE Goal
  BY <1>6, <1>9 DEF FailUnclaimed
<1>10. ASSUME NEW S, S \subseteq Running, Requeue(S) PROVE Goal
  <2>1. \A t \in S : t \in TaskIds /\ tasks[t].status = "running" /\ tasks[t] \in Task
    BY <1>1, <1>10 DEF Running
  <2>2. \A t \in S : /\ Requeued(tasks[t]).status \in {"pending", "failed"}
                     /\ Requeued(tasks[t]).key = tasks[t].key
                     /\ Requeued(tasks[t]).run = tasks[t].run
                     /\ Requeued(tasks[t]).status = "pending" =>
                          Requeued(tasks[t]).outcome = tasks[t].outcome
    BY <2>1 DEF Requeued, BackToPending, Task
  <2>3. \A t \in TaskIds : tasks'[t] = IF t \in S THEN Requeued(tasks[t]) ELSE tasks[t]
    BY <1>10 DEF Requeue
  <2> QED
    BY <2>1, <2>2, <2>3 DEF OpenHasNone, Settled, TaskKept, Exists
<1>11. ASSUME NEW w \in Workers, RequeueWorker(w) PROVE Goal
  <2>1. {t \in Running : tasks[t].by = w} \subseteq Running
    OBVIOUS
  <2> QED
    BY <1>10, <1>11, <2>1 DEF RequeueWorker
<1>12. ASSUME RequeueStale PROVE Goal
  <2>1. Stale \subseteq Running
    BY DEF Stale
  <2> QED
    BY <1>10, <1>12, <2>1 DEF RequeueStale
<1>13. ASSUME NEW t \in TaskIds, Consume(t) PROVE Goal
  BY <1>1, <1>13 DEF Consume, OpenHasNone, Settled, TaskKept, Exists, Task
<1>14. ASSUME NEW t \in TaskIds, GrowOld(t) PROVE Goal
  BY <1>1, <1>14 DEF GrowOld, OpenHasNone, Settled, TaskKept, Exists, Task
<1>15. ASSUME NEW G, ReleaseAll(G) PROVE Goal
  <2>1. \A t \in G : t \in TaskIds /\ tasks[t].status = "running" /\ tasks[t] \in Task
    BY <1>1, <1>15 DEF Running, ReleaseAll
  <2>2. \A t \in G : /\ Released(tasks[t]).status = "pending"
                     /\ Released(tasks[t]).key = tasks[t].key
                     /\ Released(tasks[t]).run = tasks[t].run
                     /\ Released(tasks[t]).outcome = tasks[t].outcome
    BY <2>1 DEF Released, BackToPending, Task
  <2>3. \A t \in TaskIds : tasks'[t] = IF t \in G THEN Released(tasks[t]) ELSE tasks[t]
    BY <1>15 DEF ReleaseAll
  <2> QED
    BY <2>1, <2>2, <2>3 DEF OpenHasNone, Settled, TaskKept, Exists
<1> QED
  BY <1>2, <1>3, <1>4, <1>5, <1>7, <1>8, <1>9, <1>11, <1>12, <1>13, <1>14, <1>15 DEF QueueCall

(* Whatever the clients call, the queue keeps its promises. *)
LEMMA CallKeepsQueue ==
    ASSUME ClientInv, QueueCall
    PROVE  ClientInv' /\ \A t \in TaskIds : TaskKept(t)
<1>1. QueueInv /\ QueueTypeOK /\ OneClaimPerToken /\ ConcurrencyCap /\ OpenHasNone
  BY DEF ClientInv, QueueInv
<1>2. OpenHasNone' /\ \A t \in TaskIds : TaskKept(t)
  BY <1>1, CallKeepsTasks
<1>3. CASE \E w \in Workers, n \in Int : Claim(w, Batch(w, n))
  BY <1>1, <1>2, <1>3, ClaimKeeps, ClaimKeepsTokens, ClaimKeepsCap DEF ClientInv
<1>4. CASE \E G \in SUBSET TaskIds : ReleaseAll(G)
  BY <1>1, <1>2, <1>4, ReleaseAllKeeps, StopsKeepClaims DEF ClientInv
<1>5. CASE OtherCall
  BY <1>1, <1>2, <1>5, OtherCallInv, OthersOnlyStop, StopsKeepClaims DEF ClientInv
<1> QED
  BY <1>3, <1>4, <1>5 DEF QueueCall, OtherCall

-----------------------------------------------------------------------------
(* The number of a run that goes on is one tasks are tagged with. *)
RunIsTagged == ~ run.ended => run.number \in Runs

(* Wait x is for this run, or superseded. *)
KnowsItsRun(x) ==
    x.pc # "idle" =>
        /\ x.run \in Runs
        /\ x.epoch <= run.epoch
        /\ x.epoch = run.epoch => x.run = run.number

(* The task wait x for step k looks at is one of that step. *)
KnowsItsTask(x, k) ==
    x.pc \in {"wait", "check", "discard", "take", "expire", "expired"} =>
        x.id \in TaskIds /\ Exists(x.id) /\ tasks[x.id].key = k

(* The value wait x holds is that of a task of its run. *)
HoldsItsValue(x, k) ==
    x.pc \in {"take", "expired", "record"} /\ x.got = "value" =>
        /\ x.id \in TaskIds
        /\ tasks[x.id].key = k /\ tasks[x.id].run = x.run /\ tasks[x.id].outcome = "value"

WaitSound(x, k) == x \in Wait /\ KnowsItsRun(x) /\ KnowsItsTask(x, k) /\ HoldsItsValue(x, k)

RunType == [number : Nat, ended : BOOLEAN, epoch : Nat, row : [Keys -> RowStatus]]

RowsHaveATask == \A k \in Keys : run.row[k] = "completed" => Done(k) # {}

WorkersTyped ==
    /\ execs \subseteq Exec
    /\ active \in [Workers -> [TaskIds -> Nat]]
    /\ life \in [Workers -> {"up", "stopping", "stopped", "released"}]

CoordinatorsSound ==
    /\ run \in RunType /\ RunIsTagged
    /\ wait \in [Coordinators -> [Keys -> Wait]]
    /\ \A c \in Coordinators, k \in Keys : WaitSound(wait[c][k], k)
    /\ RowsHaveATask

DispatchInv == ClientInv /\ WorkersTyped /\ CoordinatorsSound

-----------------------------------------------------------------------------
(* What a call on the queue leaves as it was: *)

(* a wait and its task, *)
LEMMA WaitOutlivesCall ==
    ASSUME OpenHasNone, \A t \in TaskIds : TaskKept(t), run' = run,
           NEW x, NEW k, WaitSound(x, k)
    PROVE  /\ x \in Wait /\ KnowsItsRun(x)
           /\ x.pc \in {"wait", "check", "discard", "take", "expire", "expired"} =>
                /\ x.id \in TaskIds
                /\ tasks'[x.id].status # "absent" /\ tasks'[x.id].key = k
           /\ x.pc \in {"take", "expired", "record"} /\ x.got = "value" =>
                /\ x.id \in TaskIds /\ tasks'[x.id].key = k
                /\ tasks'[x.id].run = x.run /\ tasks'[x.id].outcome = "value"
<1>1. \A t \in TaskIds : tasks[t].outcome = "value" => Exists(t)
  BY DEF OpenHasNone, Settled, Exists
<1> QED
  BY <1>1 DEF WaitSound, KnowsItsTask, HoldsItsValue, TaskKept, Exists

(* and a row and its task. *)
LEMMA RowOutlivesCall ==
    ASSUME OpenHasNone, \A t \in TaskIds : TaskKept(t), run' = run, RowsHaveATask
    PROVE  RowsHaveATask'
<1>1. \A t \in TaskIds : tasks[t].outcome = "value" => Exists(t)
  BY DEF OpenHasNone, Settled, Exists
<1>2. \A k \in Keys : \A t \in Done(k) :
        t \in TaskIds /\ tasks'[t].key = k /\ tasks'[t].run = run.number /\ tasks'[t].outcome = "value"
  BY <1>1 DEF Done, TaskKept
<1> QED
  BY <1>2 DEF RowsHaveATask, Done

(* A step of the queue and the workers leaves the coordinators sound. *)
LEMMA WorkersDisturbNobody ==
    ASSUME ClientInv, CoordinatorsSound, QueueCall, UNCHANGED coordVars
    PROVE  CoordinatorsSound'
<1>1. OpenHasNone /\ \A t \in TaskIds : TaskKept(t)
  BY CallKeepsQueue DEF ClientInv
<1>2. run' = run /\ wait' = wait
  BY DEF coordVars
<1>3. RowsHaveATask'
  BY <1>1, <1>2, RowOutlivesCall DEF CoordinatorsSound
<1>4. ASSUME NEW c \in Coordinators, NEW k \in Keys PROVE WaitSound(wait[c][k], k)'
  <2>1. WaitSound(wait[c][k], k)
    BY DEF CoordinatorsSound
  <2> QED
    BY <1>1, <1>2, <2>1, WaitOutlivesCall
       DEF WaitSound, KnowsItsRun, KnowsItsTask, HoldsItsValue, Exists
<1> QED
  BY <1>2, <1>3, <1>4 DEF CoordinatorsSound, RunIsTagged

(* A step of one wait of a coordinator, with the call it makes. *)
LEMMA WaitMoves ==
    ASSUME ClientInv, CoordinatorsSound, QueueCall, NEW c \in Coordinators, NEW k \in Keys, NEW x,
           wait' = [wait EXCEPT ![c][k] = x], run' = run,
           x \in Wait, KnowsItsRun(x),
           x.pc \in {"wait", "check", "discard", "take", "expire", "expired"} =>
             x.id \in TaskIds /\ tasks'[x.id].status # "absent" /\ tasks'[x.id].key = k,
           x.pc \in {"take", "expired", "record"} /\ x.got = "value" =>
             /\ x.id \in TaskIds /\ tasks'[x.id].key = k
             /\ tasks'[x.id].run = x.run /\ tasks'[x.id].outcome = "value"
    PROVE  CoordinatorsSound'
<1>1. OpenHasNone /\ \A t \in TaskIds : TaskKept(t)
  BY CallKeepsQueue DEF ClientInv
<1>2. wait \in [Coordinators -> [Keys -> Wait]] /\ wait' \in [Coordinators -> [Keys -> Wait]]
  BY DEF CoordinatorsSound
<1>3. RowsHaveATask'
  BY <1>1, RowOutlivesCall DEF CoordinatorsSound
<1>4. ASSUME NEW d \in Coordinators, NEW j \in Keys PROVE WaitSound(wait[d][j], j)'
  <2>1. WaitSound(wait[d][j], j)
    BY DEF CoordinatorsSound
  <2>2. CASE d = c /\ j = k
    <3>1. wait'[d][j] = x
      BY <1>2, <2>2
    <3> QED
      BY <2>2, <3>1 DEF WaitSound, KnowsItsRun, KnowsItsTask, HoldsItsValue, Exists
  <2>3. CASE ~(d = c /\ j = k)
    <3>1. wait'[d][j] = wait[d][j]
      BY <1>2, <2>3
    <3> QED
      BY <1>1, <2>1, <3>1, WaitOutlivesCall
         DEF WaitSound, KnowsItsRun, KnowsItsTask, HoldsItsValue, Exists
  <2> QED
    BY <2>2, <2>3
<1> QED
  BY <1>2, <1>3, <1>4 DEF CoordinatorsSound, RunIsTagged

-----------------------------------------------------------------------------
(* consume, of a task that may be consumed already. *)
LEMMA ConsumeIsACall ==
    ASSUME NEW t \in TaskIds, ConsumeOrNot(t)
    PROVE  QueueCall
BY DEF ConsumeOrNot, QueueCall

(* What the invariant says of one wait. *)
LEMMA OneWait ==
    ASSUME CoordinatorsSound, NEW c \in Coordinators, NEW k \in Keys
    PROVE  /\ W(c, k) = wait[c][k] /\ W(c, k) \in Wait /\ WaitSound(W(c, k), k)
           /\ wait \in [Coordinators -> [Keys -> Wait]]
BY DEF CoordinatorsSound, W

(* runAttempt: the task enqueued or adopted is one of the step. *)
LEMMA EnqueueAttemptSound ==
    ASSUME ClientInv, CoordinatorsSound, NEW c \in Coordinators, NEW k \in Keys,
           EnqueueAttempt(c, k)
    PROVE  QueueCall /\ CoordinatorsSound'
<1> DEFINE id == EnqueueId(k)
           x == [W(c, k) EXCEPT !.pc = "wait", !.id = id]
<1>1. /\ W(c, k) \in Wait /\ WaitSound(W(c, k), k) /\ W(c, k).pc = "again"
      /\ wait \in [Coordinators -> [Keys -> Wait]] /\ W(c, k) = wait[c][k]
  BY OneWait DEF EnqueueAttempt, InWait
<1>2. W(c, k).run \in Runs
  BY <1>1 DEF WaitSound, KnowsItsRun
<1>3. QueueTypeOK /\ OneTaskPerStep
  BY DEF ClientInv, QueueInv
<1>4. QueueCall /\ id \in TaskIds /\ tasks'[id].status # "absent" /\ tasks'[id].key = k
  <2>1. CASE activeByKey[k] # 0
    <3>1. id = activeByKey[k] /\ id \in TaskIds /\ UNCHANGED queueVars
      BY <1>3, <2>1, QueueAssumption DEF EnqueueAttempt, EnqueueId, QueueTypeOK, TaskIds
    <3>2. Active(id) /\ tasks[id].key = k
      BY <1>3, <3>1 DEF OneTaskPerStep
    <3> QED
      BY <3>1, <3>2 DEF QueueCall, queueVars, Active, Exists
  <2>2. CASE activeByKey[k] = 0
    <3>1. id = ntasks + 1 /\ Enqueue(k, W(c, k).run)
      BY <2>2 DEF EnqueueAttempt, EnqueueId
    <3>2. id \in TaskIds /\ tasks'[id] = NewTask(k, W(c, k).run)
      BY <1>3, <3>1, QueueAssumption DEF Enqueue, QueueTypeOK, TaskIds
    <3> QED
      BY <1>2, <3>1, <3>2 DEF QueueCall, NewTask
  <2> QED
    BY <2>1, <2>2
<1>5. wait' = [wait EXCEPT ![c][k] = x] /\ run' = run
  BY <1>1 DEF EnqueueAttempt
<1>6. id \in 0 .. MaxTasks
  BY <1>4, QueueAssumption DEF TaskIds
<1> HIDE DEF id
<1>7. /\ x \in Wait /\ x.pc = "wait" /\ x.id = id /\ x.run = W(c, k).run
      /\ x.epoch = W(c, k).epoch
  BY <1>1, <1>6 DEF Wait, WaitPC
<1> HIDE DEF x
<1>8. KnowsItsRun(x)
  BY <1>1, <1>7 DEF WaitSound, KnowsItsRun
<1>9. x.pc \notin {"take", "expired", "record"}
  BY <1>7
<1> QED
  BY <1>4, <1>5, <1>7, <1>8, <1>9, WaitMoves

(* waitForResult: an outcome counts only when it is of the wait's run. *)
LEMMA PollSound ==
    ASSUME ClientInv, CoordinatorsSound, NEW c \in Coordinators, NEW k \in Keys, Poll(c, k)
    PROVE  QueueCall /\ CoordinatorsSound'
<1> DEFINE t == W(c, k).id
           pc == IF ~ Settled(t) THEN "check" ELSE IF IsLeftover(c, k) THEN "discard" ELSE "take"
           got == tasks[t].outcome
           x == [W(c, k) EXCEPT !.pc = pc, !.got = got]
<1>1. /\ W(c, k) \in Wait /\ WaitSound(W(c, k), k) /\ W(c, k).pc = "wait"
      /\ wait \in [Coordinators -> [Keys -> Wait]] /\ W(c, k) = wait[c][k]
  BY OneWait DEF Poll, InWait
<1>2. t \in TaskIds /\ Exists(t) /\ tasks[t].key = k
  BY <1>1 DEF WaitSound, KnowsItsTask
<1>3. UNCHANGED queueVars /\ run' = run /\ wait' = [wait EXCEPT ![c][k] = x]
  BY <1>1 DEF Poll
<1>4. QueueCall /\ tasks' = tasks
  BY <1>3 DEF QueueCall, queueVars
<1>5. pc \in {"check", "discard", "take"} /\ (pc = "take" => tasks[t].run = W(c, k).run)
  BY DEF IsLeftover
<1>6. got \in Outcome
  BY <1>2 DEF ClientInv, QueueInv, QueueTypeOK, Task
<1> HIDE DEF pc, got
<1>7. /\ x \in Wait /\ x.pc = pc /\ x.got = got /\ x.id = t /\ x.run = W(c, k).run
      /\ x.epoch = W(c, k).epoch
  BY <1>1, <1>5, <1>6 DEF Wait, WaitPC, Got
<1> HIDE DEF x
<1>8. KnowsItsRun(x)
  BY <1>1, <1>7 DEF WaitSound, KnowsItsRun
<1>9. x.id \in TaskIds /\ tasks'[x.id].status # "absent" /\ tasks'[x.id].key = k
  BY <1>2, <1>4, <1>7 DEF Exists
<1>10. x.pc \in {"take", "expired", "record"} /\ x.got = "value" =>
          tasks'[x.id].run = x.run /\ tasks'[x.id].outcome = "value"
  BY <1>4, <1>5, <1>7 DEF got
<1> QED
  BY <1>3, <1>4, <1>7, <1>8, <1>9, <1>10, WaitMoves

(* A wait that goes on with what it has, *)
LEMMA GoesOnSound ==
    ASSUME ClientInv, CoordinatorsSound, QueueCall, NEW c \in Coordinators, NEW k \in Keys,
           NEW x \in Wait, wait' = [wait EXCEPT ![c][k] = x], run' = run,
           W(c, k).pc # "idle", x.run = W(c, k).run, x.epoch = W(c, k).epoch, x.id = W(c, k).id,
           x.pc \in {"wait", "check", "discard", "take", "expire", "expired"} =>
             W(c, k).pc \in {"wait", "check", "discard", "take", "expire", "expired"},
           x.pc \in {"take", "expired", "record"} /\ x.got = "value" =>
             W(c, k).pc \in {"take", "expired", "record"} /\ W(c, k).got = "value"
    PROVE  CoordinatorsSound'
<1>1. WaitSound(W(c, k), k)
  BY OneWait
<1>2. OpenHasNone /\ \A t \in TaskIds : TaskKept(t)
  BY CallKeepsQueue DEF ClientInv
<1>3. KnowsItsRun(x)
  BY <1>1 DEF WaitSound, KnowsItsRun
<1>4. x.pc \in {"wait", "check", "discard", "take", "expire", "expired"} =>
        x.id \in TaskIds /\ tasks'[x.id].status # "absent" /\ tasks'[x.id].key = k
  BY <1>1, <1>2, WaitOutlivesCall
<1>5. x.pc \in {"take", "expired", "record"} /\ x.got = "value" =>
        /\ x.id \in TaskIds /\ tasks'[x.id].key = k
        /\ tasks'[x.id].run = x.run /\ tasks'[x.id].outcome = "value"
  BY <1>1, <1>2, WaitOutlivesCall
<1> QED
  BY <1>3, <1>4, <1>5, WaitMoves

(* (its place, what it got and its retries change) *)
Moves(c, k, pc, got, retries) ==
    wait' = [wait EXCEPT ![c][k] = [W(c, k) EXCEPT !.pc = pc, !.got = got, !.retries = retries]]

(* such as one that changes its place and what it got only. *)
LEMMA MovesSound ==
    ASSUME ClientInv, CoordinatorsSound, QueueCall, NEW c \in Coordinators, NEW k \in Keys,
           NEW pc \in WaitPC, NEW got \in Got, NEW retries \in Nat, run' = run,
           Moves(c, k, pc, got, retries), W(c, k).pc # "idle",
           pc \in {"wait", "check", "discard", "take", "expire", "expired"} =>
             W(c, k).pc \in {"wait", "check", "discard", "take", "expire", "expired"},
           pc \in {"take", "expired", "record"} /\ got = "value" =>
             W(c, k).pc \in {"take", "expired", "record"} /\ W(c, k).got = "value"
    PROVE  CoordinatorsSound'
<1> DEFINE x == [W(c, k) EXCEPT !.pc = pc, !.got = got, !.retries = retries]
<1>1. W(c, k) \in Wait
  BY OneWait
<1>2. /\ x \in Wait /\ x.pc = pc /\ x.got = got /\ x.id = W(c, k).id /\ x.run = W(c, k).run
      /\ x.epoch = W(c, k).epoch
  BY <1>1 DEF Wait
<1> HIDE DEF x
<1>3. wait' = [wait EXCEPT ![c][k] = x]
  BY DEF x, Moves
<1> QED
  BY <1>2, <1>3, GoesOnSound

(* runAttempt: consume a leftover, take an outcome, look at the run, give   *)
(* up.                                                                     *)
LEMMA WaitingSound ==
    ASSUME ClientInv, CoordinatorsSound, NEW c \in Coordinators, NEW k \in Keys,
           Discard(c, k) \/ Take(c, k) \/ CheckRun(c, k) \/ Expire(c, k) \/ ExpireConsume(c, k)
    PROVE  QueueCall /\ CoordinatorsSound'
<1> DEFINE v == W(c, k)
           Watches == {"wait", "check", "discard", "take", "expire", "expired"}
<1>1. /\ v \in Wait /\ WaitSound(v, k) /\ wait \in [Coordinators -> [Keys -> Wait]]
      /\ v = wait[c][k] /\ wait[c] \in [Keys -> Wait] /\ v.got \in Got /\ v.retries \in Nat
  BY OneWait DEF Wait
<1>0. /\ "again" \in WaitPC /\ "record" \in WaitPC /\ "wait" \in WaitPC /\ "expire" \in WaitPC
      /\ "gaveup" \in Got
  BY DEF WaitPC, Got
<1>2. v.pc \in Watches => v.id \in TaskIds
  BY <1>1 DEF WaitSound, KnowsItsTask
<1>3. ASSUME NEW pc, NEW got, wait' = [wait EXCEPT ![c][k].pc = pc, ![c][k].got = got]
      PROVE  Moves(c, k, pc, got, v.retries)
  BY <1>1, <1>3 DEF Wait, Moves
<1>4. ASSUME NEW pc, wait' = [wait EXCEPT ![c][k].pc = pc]
      PROVE  Moves(c, k, pc, v.got, v.retries)
  BY <1>1, <1>4 DEF Wait, Moves
<1>5. CASE Discard(c, k)
  <2>1. v.pc = "discard" /\ ConsumeOrNot(v.id) /\ run' = run
        /\ wait' = [wait EXCEPT ![c][k].pc = "again"]
    BY <1>5 DEF Discard, InWait, To
  <2>2. QueueCall /\ Moves(c, k, "again", v.got, v.retries)
    BY <1>2, <1>4, <2>1, ConsumeIsACall
  <2> QED
    BY <1>0, <1>1, <2>1, <2>2, MovesSound
<1>6. CASE Take(c, k)
  <2>1. v.pc = "take" /\ ConsumeOrNot(v.id) /\ run' = run
        /\ wait' = [wait EXCEPT ![c][k] = AfterTake(v)]
    BY <1>1, <1>6 DEF Take, InWait
  <2>2. QueueCall
    BY <1>2, <2>1, ConsumeIsACall
  <2>3. CASE v.got = "typed" /\ v.retries > 0
    <3> DEFINE n == v.retries - 1
    <3>1. n \in Nat
      BY <1>1, <2>3
    <3>2. AfterTake(v) = [v EXCEPT !.pc = "again", !.got = v.got, !.retries = n]
      BY <1>1, <2>3 DEF AfterTake, Wait
    <3> HIDE DEF n
    <3>3. Moves(c, k, "again", v.got, n)
      BY <2>1, <3>2 DEF Moves
    <3> QED
      BY <1>0, <1>1, <2>1, <2>2, <3>1, <3>3, MovesSound
  <2>4. CASE ~(v.got = "typed" /\ v.retries > 0)
    <3>1. AfterTake(v) = [v EXCEPT !.pc = "record", !.got = v.got, !.retries = v.retries]
      BY <1>1, <2>4 DEF AfterTake, Wait
    <3>2. Moves(c, k, "record", v.got, v.retries)
      BY <2>1, <3>1 DEF Moves
    <3> QED
      BY <1>0, <1>1, <2>1, <2>2, <3>2, MovesSound
  <2> QED
    BY <2>3, <2>4
<1>7. CASE CheckRun(c, k)
  <2>1. v.pc = "check" /\ UNCHANGED queueVars /\ run' = run
    BY <1>7 DEF CheckRun, InWait
  <2>2. QueueCall
    BY <2>1 DEF QueueCall
  <2>3. CASE wait' = [wait EXCEPT ![c][k].pc = "record", ![c][k].got = "gaveup"]
    <3>1. Moves(c, k, "record", "gaveup", v.retries)
      BY <1>3, <2>3
    <3> QED
      BY <1>0, <1>1, <2>1, <2>2, <3>1, MovesSound
  <2>4. CASE wait' = [wait EXCEPT ![c][k].pc = "wait"]
    <3>1. Moves(c, k, "wait", v.got, v.retries)
      BY <1>4, <2>4
    <3> QED
      BY <1>0, <1>1, <2>1, <2>2, <3>1, MovesSound
  <2>5. CASE wait' = [wait EXCEPT ![c][k].pc = "expire"]
    <3>1. Moves(c, k, "expire", v.got, v.retries)
      BY <1>4, <2>5
    <3> QED
      BY <1>0, <1>1, <2>1, <2>2, <3>1, MovesSound
  <2> QED
    BY <1>7, <2>3, <2>4, <2>5 DEF CheckRun, To
<1>8. CASE Expire(c, k)
  <2> DEFINE pc == IF tasks[v.id].status = "running" THEN "expired" ELSE "record"
  <2>1. v.pc = "expire" /\ run' = run
        /\ wait' = [wait EXCEPT ![c][k].pc = pc, ![c][k].got = "gaveup"]
    BY <1>8 DEF Expire, InWait
  <2>2. QueueCall
    BY <1>2, <1>8, <2>1 DEF Expire, QueueCall
  <2>3. pc \in WaitPC
    BY DEF WaitPC
  <2> HIDE DEF pc
  <2>4. Moves(c, k, pc, "gaveup", v.retries)
    BY <1>3, <2>1
  <2> QED
    BY <1>0, <1>1, <2>1, <2>2, <2>3, <2>4, MovesSound
<1>9. CASE ExpireConsume(c, k)
  <2>1. v.pc = "expired" /\ ConsumeOrNot(v.id) /\ run' = run
        /\ wait' = [wait EXCEPT ![c][k].pc = "record"]
    BY <1>9 DEF ExpireConsume, InWait, To
  <2>2. QueueCall /\ Moves(c, k, "record", v.got, v.retries)
    BY <1>2, <1>4, <2>1, ConsumeIsACall
  <2> QED
    BY <1>0, <1>1, <2>1, <2>2, MovesSound
<1> QED
  BY <1>5, <1>6, <1>7, <1>8, <1>9

-----------------------------------------------------------------------------
(* A wait that did not move while the queue stood still and the run went on *)
(* under the same number or a later epoch.                                 *)
LEMMA WaitStays ==
    ASSUME UNCHANGED queueVars, NEW x, NEW k, WaitSound(x, k), run \in RunType,
           run'.epoch \in Nat,
           \/ run'.epoch = run.epoch /\ run'.number = run.number
           \/ run'.epoch > run.epoch
    PROVE  /\ x.pc # "idle" => /\ x.run \in Runs /\ x.epoch <= run'.epoch
                               /\ x.epoch = run'.epoch => x.run = run'.number
           /\ x.pc \in {"wait", "check", "discard", "take", "expire", "expired"} =>
                x.id \in TaskIds /\ tasks'[x.id].status # "absent" /\ tasks'[x.id].key = k
           /\ x.pc \in {"take", "expired", "record"} /\ x.got = "value" =>
                /\ x.id \in TaskIds /\ tasks'[x.id].key = k
                /\ tasks'[x.id].run = x.run /\ tasks'[x.id].outcome = "value"
<1>1. tasks' = tasks
  BY DEF queueVars
<1>2. x.epoch \in Nat /\ run.epoch \in Nat
  BY DEF WaitSound, Wait, RunType
<1> QED
  BY <1>1, <1>2 DEF WaitSound, KnowsItsRun, KnowsItsTask, HoldsItsValue, Exists

(* An idle wait is sound. *)
LEMMA NoWaitSound ==
    ASSUME NEW k
    PROVE  NoWait \in Wait /\ NoWait.pc = "idle"
<1>1. 0 \in 0 .. MaxTasks
  BY QueueAssumption
<1> QED
  BY <1>1 DEF NoWait, Wait, WaitPC, Got, Outcome

(* Several waits of a coordinator change while the queue stands still. *)
LEMMA RunMoves ==
    ASSUME ClientInv, CoordinatorsSound, UNCHANGED queueVars,
           run' \in RunType, RunIsTagged', RowsHaveATask',
           wait' \in [Coordinators -> [Keys -> Wait]],
           \/ run'.epoch = run.epoch /\ run'.number = run.number
           \/ run'.epoch > run.epoch,
           \A d \in Coordinators, j \in Keys :
              \/ wait'[d][j] = wait[d][j]
              \/ wait'[d][j].pc = "idle"
              \/ /\ wait'[d][j].pc \in {"again", "settled"}
                 /\ wait'[d][j].run \in Runs
                 /\ wait'[d][j].epoch <= run'.epoch
                 /\ wait'[d][j].epoch = run'.epoch => wait'[d][j].run = run'.number
    PROVE  CoordinatorsSound'
<1>1. ASSUME NEW d \in Coordinators, NEW j \in Keys PROVE WaitSound(wait[d][j], j)'
  <2>1. WaitSound(wait[d][j], j) /\ run \in RunType /\ run'.epoch \in Nat /\ wait'[d][j] \in Wait
    BY DEF CoordinatorsSound, RunType
  <2>2. CASE wait'[d][j] = wait[d][j]
    <3> DEFINE x == wait[d][j]
    <3>1. WaitSound(x, j)
      BY <2>1
    <3> HIDE DEF x
    <3>2. /\ x.pc # "idle" => /\ x.run \in Runs /\ x.epoch <= run'.epoch
                              /\ x.epoch = run'.epoch => x.run = run'.number
          /\ x.pc \in {"wait", "check", "discard", "take", "expire", "expired"} =>
               x.id \in TaskIds /\ tasks'[x.id].status # "absent" /\ tasks'[x.id].key = j
          /\ x.pc \in {"take", "expired", "record"} /\ x.got = "value" =>
               /\ x.id \in TaskIds /\ tasks'[x.id].key = j
               /\ tasks'[x.id].run = x.run /\ tasks'[x.id].outcome = "value"
      BY <2>1, <3>1, WaitStays
    <3>3. wait'[d][j] = x
      BY <2>2 DEF x
    <3> QED
      BY <2>1, <3>2, <3>3 DEF WaitSound, KnowsItsRun, KnowsItsTask, HoldsItsValue, Exists
  <2>3. CASE wait'[d][j].pc = "idle"
    BY <2>1, <2>3 DEF WaitSound, KnowsItsRun, KnowsItsTask, HoldsItsValue
  <2>4. CASE /\ wait'[d][j].pc \in {"again", "settled"}
             /\ wait'[d][j].run \in Runs
             /\ wait'[d][j].epoch <= run'.epoch
             /\ wait'[d][j].epoch = run'.epoch => wait'[d][j].run = run'.number
    BY <2>1, <2>4 DEF WaitSound, KnowsItsRun, KnowsItsTask, HoldsItsValue
  <2> QED
    BY <2>2, <2>3, <2>4
<1> QED
  BY <1>1 DEF CoordinatorsSound

(* The rows of a run with the same number keep their tasks. *)
LEMMA RowsStay ==
    ASSUME RowsHaveATask, UNCHANGED queueVars, run'.number = run.number, run'.row = run.row
    PROVE  RowsHaveATask'
BY DEF RowsHaveATask, Done, queueVars

(* The runner stores a row: the fence holds back all but the present run,   *)
(* whose value came from a task of its own.                                *)
LEMMA RecordSound ==
    ASSUME ClientInv, CoordinatorsSound, NEW c \in Coordinators, NEW k \in Keys, Record(c, k)
    PROVE  CoordinatorsSound'
<1> DEFINE v == W(c, k)
           row == IF v.got = "value" THEN "completed" ELSE "failed"
<1>1. /\ v \in Wait /\ WaitSound(v, k) /\ v.pc = "record" /\ v = wait[c][k]
      /\ wait \in [Coordinators -> [Keys -> Wait]]
  BY OneWait DEF Record, InWait
<1>2. /\ run \in RunType /\ RunIsTagged /\ RowsHaveATask
      /\ run.row \in [Keys -> RowStatus] /\ run.epoch \in Nat
  BY DEF CoordinatorsSound, RunType
<1>3. /\ UNCHANGED queueVars /\ wait' = [wait EXCEPT ![c][k].pc = "settled"]
      /\ run' = IF v.epoch # run.epoch THEN run ELSE [run EXCEPT !.row[k] = row]
  BY DEF Record, To
<1>4. row \in RowStatus
  BY DEF RowStatus
<1>5. v.epoch = run.epoch /\ v.got = "value" =>
        v.id \in TaskIds /\ tasks[v.id].key = k /\ tasks[v.id].run = run.number
        /\ tasks[v.id].outcome = "value"
  BY <1>1 DEF WaitSound, KnowsItsRun, HoldsItsValue
<1>6. row = "completed" => v.got = "value"
  OBVIOUS
<1> HIDE DEF row
<1>7. /\ run' \in RunType /\ run'.number = run.number /\ run'.epoch = run.epoch
      /\ run'.ended = run.ended
      /\ run'.row = IF v.epoch # run.epoch THEN run.row ELSE [run.row EXCEPT ![k] = row]
  BY <1>2, <1>3, <1>4 DEF RunType
<1>8. RowsHaveATask'
  <2> SUFFICES ASSUME NEW j \in Keys, run'.row[j] = "completed"
               PROVE  \E t \in TaskIds : /\ tasks[t].key = j /\ tasks[t].run = run.number
                                         /\ tasks[t].outcome = "value"
    BY <1>3, <1>7 DEF RowsHaveATask, Done, queueVars
  <2>1. CASE run.row[j] = "completed"
    BY <1>2, <2>1 DEF RowsHaveATask, Done
  <2>2. CASE run.row[j] # "completed"
    <3>1. j = k /\ row = "completed" /\ v.epoch = run.epoch
      BY <1>2, <1>7, <2>2
    <3> QED
      BY <1>5, <1>6, <3>1
  <2> QED
    BY <2>1, <2>2
<1>9. RunIsTagged'
  BY <1>2, <1>7 DEF RunIsTagged
<1>10. wait' \in [Coordinators -> [Keys -> Wait]]
  BY <1>1, <1>3 DEF Wait, WaitPC
<1>11. ASSUME NEW d \in Coordinators, NEW j \in Keys, ~(d = c /\ j = k)
       PROVE  wait'[d][j] = wait[d][j]
  BY <1>1, <1>3, <1>11
<1>12. /\ wait'[c][k].pc = "settled" /\ wait'[c][k].run \in Runs
       /\ wait'[c][k].epoch <= run'.epoch
       /\ wait'[c][k].epoch = run'.epoch => wait'[c][k].run = run'.number
  <2>1. wait'[c][k] = [v EXCEPT !.pc = "settled"]
    BY <1>1, <1>3
  <2>2. /\ wait'[c][k].pc = "settled" /\ wait'[c][k].run = v.run /\ wait'[c][k].epoch = v.epoch
    BY <1>1, <2>1 DEF Wait
  <2> QED
    BY <1>1, <1>7, <2>2 DEF WaitSound, KnowsItsRun
<1> QED
  BY <1>3, <1>7, <1>8, <1>9, <1>10, <1>11, <1>12, RunMoves

(* A coordinator takes the run over, or starts it afresh: every other wait  *)
(* is now of an earlier epoch.                                             *)
LEMMA TakeRunSound ==
    ASSUME ClientInv, CoordinatorsSound, NEW c \in Coordinators, TakeRun(c)
    PROVE  CoordinatorsSound'
<1> DEFINE pc(k) == IF run'.row[k] = "completed" THEN "settled" ELSE "again"
           new(k) == [NoWait EXCEPT !.pc = pc(k), !.run = run'.number, !.epoch = run'.epoch,
                                    !.retries = StepRetries]
<1>1. /\ run \in RunType /\ RunIsTagged /\ RowsHaveATask
      /\ wait \in [Coordinators -> [Keys -> Wait]]
  BY DEF CoordinatorsSound
<1>2. /\ UNCHANGED queueVars
      /\ run.ended => run.number + 1 \in Runs
      /\ run' = IF run.ended
                  THEN [number |-> run.number + 1, ended |-> FALSE, epoch |-> run.epoch + 1,
                        row |-> NoRows]
                  ELSE [run EXCEPT !.epoch = @ + 1]
      /\ wait' = [wait EXCEPT ![c] = [k \in Keys |-> new(k)]]
  BY DEF TakeRun
<1>3. /\ run' \in RunType /\ run'.epoch > run.epoch /\ run'.number \in Runs
      /\ run'.number \in Nat /\ run'.epoch \in Nat /\ RowsHaveATask'
  <2>0. run.number \in Nat /\ run.epoch \in Nat
    BY <1>1 DEF RunType
  <2>1. CASE run.ended
    <3>1. /\ run'.number = run.number + 1 /\ run'.epoch = run.epoch + 1 /\ run'.row = NoRows
          /\ run'.ended = FALSE
      BY <1>2, <2>1
    <3>2. NoRows \in [Keys -> RowStatus] /\ \A k \in Keys : NoRows[k] # "completed"
      BY DEF NoRows, RowStatus
    <3>3. RowsHaveATask'
      BY <3>1, <3>2 DEF RowsHaveATask
    <3>4. run'.epoch > run.epoch /\ run'.number \in Nat /\ run'.epoch \in Nat
      BY <2>0, <3>1
    <3>5. run' \in RunType
      BY <1>2, <2>1, <3>1, <3>2, <3>4 DEF RunType
    <3> QED
      BY <1>2, <2>1, <3>1, <3>3, <3>4, <3>5
  <2>2. CASE ~ run.ended
    <3> DEFINE n == run.epoch + 1
    <3>1. n \in Nat /\ n > run.epoch
      BY <2>0
    <3>2. run' = [run EXCEPT !.epoch = n]
      BY <1>2, <2>2
    <3> HIDE DEF n
    <3>3. /\ run' \in RunType /\ run'.number = run.number /\ run'.row = run.row
          /\ run'.epoch = n /\ run.number \in Nat
      BY <1>1, <3>1, <3>2 DEF RunType
    <3> QED
      BY <1>1, <1>2, <2>2, <3>1, <3>3, RowsStay DEF RunIsTagged
  <2> QED
    BY <2>1, <2>2
<1>4. \A k \in Keys : /\ new(k) \in Wait /\ new(k).pc \in {"again", "settled"}
                      /\ new(k).run = run'.number /\ new(k).epoch = run'.epoch
  <2> TAKE k \in Keys
  <2>1. pc(k) \in {"again", "settled"} /\ pc(k) \in WaitPC
    BY DEF WaitPC
  <2> HIDE DEF pc
  <2>2. NoWait \in Wait
    BY NoWaitSound
  <2> QED
    BY <1>3, <2>1, <2>2, DispatchAssumption DEF Wait
<1> HIDE DEF new
<1>5. wait' \in [Coordinators -> [Keys -> Wait]]
  BY <1>1, <1>2, <1>4
<1>6. ASSUME NEW d \in Coordinators, NEW j \in Keys
      PROVE  IF d = c THEN wait'[d][j] = new(j) ELSE wait'[d][j] = wait[d][j]
  BY <1>1, <1>2
<1>7. RunIsTagged'
  BY <1>3 DEF RunIsTagged
<1>8. ASSUME NEW d \in Coordinators, NEW j \in Keys
      PROVE  \/ wait'[d][j] = wait[d][j]
             \/ /\ wait'[d][j].pc \in {"again", "settled"}
                /\ wait'[d][j].run \in Runs
                /\ wait'[d][j].epoch <= run'.epoch
                /\ wait'[d][j].epoch = run'.epoch => wait'[d][j].run = run'.number
  BY <1>3, <1>4, <1>6
<1> QED
  BY <1>2, <1>3, <1>5, <1>7, <1>8, RunMoves

(* A wave ends, a run is cancelled, a coordinator dies. *)
LEMMA EndSound ==
    ASSUME ClientInv, CoordinatorsSound, UNCHANGED queueVars,
           run' = run \/ \E b \in BOOLEAN : (run.ended => b) /\ run' = [run EXCEPT !.ended = b],
           wait' = wait \/ \E c \in Coordinators : wait' = [wait EXCEPT ![c] = [k \in Keys |-> NoWait]]
    PROVE  CoordinatorsSound'
<1>1. /\ run \in RunType /\ RunIsTagged /\ RowsHaveATask
      /\ wait \in [Coordinators -> [Keys -> Wait]]
  BY DEF CoordinatorsSound
<1>2. /\ run' \in RunType /\ run'.number = run.number /\ run'.epoch = run.epoch
      /\ run'.row = run.row /\ (~ run'.ended => ~ run.ended)
  BY <1>1 DEF RunType
<1>3. RowsHaveATask' /\ RunIsTagged'
  BY <1>1, <1>2, RowsStay DEF RunIsTagged
<1>4. NoWait \in Wait /\ NoWait.pc = "idle"
  BY NoWaitSound
<1>5. wait' \in [Coordinators -> [Keys -> Wait]]
  BY <1>1, <1>4
<1>6. ASSUME NEW d \in Coordinators, NEW j \in Keys
      PROVE  wait'[d][j] = wait[d][j] \/ wait'[d][j].pc = "idle"
  BY <1>1, <1>4
<1> QED
  BY <1>2, <1>3, <1>5, <1>6, RunMoves

-----------------------------------------------------------------------------
(* claimOnce: the free slots are filled by one call of claim. *)
LEMMA ClaimOnceSound ==
    ASSUME ClientInv, WorkersTyped, NEW w \in Workers, ClaimOnce(w)
    PROVE  QueueCall /\ WorkersTyped'
<1> DEFINE n == Capacity - Cardinality(Entries(w))
           B == Batch(w, n)
           new(t) == [w |-> w, t |-> t, token |-> TokenIn(B, t), st |-> "running"]
<1>1. QueueTypeOK /\ nclaims \in Nat
  BY DEF ClientInv, QueueInv, QueueTypeOK
<1>2. n \in Int
  <2>1. Entries(w) \subseteq TaskIds
    BY DEF Entries
  <2>2. Cardinality(Entries(w)) \in Nat
    BY <2>1, BatchIsFinite, FS_Subset, FS_CardinalityType
  <2> QED
    BY <2>2, DispatchAssumption
<1>3. /\ Claim(w, B) /\ UNCHANGED life
      /\ active' = [active EXCEPT ![w] = [t \in TaskIds |-> IF t \in B THEN TokenIn(B, t) ELSE @[t]]]
      /\ execs' = execs \cup {new(t) : t \in B}
  BY DEF ClaimOnce
<1>4. QueueCall
  BY <1>2, <1>3 DEF QueueCall
<1> HIDE DEF n
<1>5. B \subseteq TaskIds /\ \A t \in TaskIds : TokenIn(B, t) \in Nat
  BY <1>1, BatchIsFinite, BatchCounts
<1> HIDE DEF B
<1>6. \A t \in B : new(t) \in Exec
  BY <1>5 DEF Exec, ExecState
<1>7. execs' \subseteq Exec
  BY <1>3, <1>6 DEF WorkersTyped
<1>8. active' \in [Workers -> [TaskIds -> Nat]]
  BY <1>3, <1>5 DEF WorkersTyped
<1> QED
  BY <1>3, <1>4, <1>7, <1>8 DEF WorkersTyped

(* An execution goes on to a state of its own, or leaves. *)
LEMMA BecomesTyped ==
    ASSUME WorkersTyped, NEW x \in execs, NEW st \in ExecState, Becomes(x, st)
    PROVE  execs' \subseteq Exec
<1>1. x \in Exec
  BY DEF WorkersTyped
<1>2. [x EXCEPT !.st = st] \in Exec
  BY <1>1 DEF Exec
<1> QED
  BY <1>2 DEF Becomes, WorkersTyped

(* launch, finally: the execution and its entry go. *)
LEMMA LeaveTyped ==
    ASSUME WorkersTyped, NEW x \in execs, Leave(x)
    PROVE  execs' \subseteq Exec /\ active' \in [Workers -> [TaskIds -> Nat]]
<1>1. x \in Exec
  BY DEF WorkersTyped
<1> QED
  BY <1>1 DEF Leave, WorkersTyped, Exec

(* Heartbeats, outcomes and commits of an execution. *)
LEMMA ExecSound ==
    ASSUME ClientInv, WorkersTyped, NEW x \in execs,
           ComputeOutcome(x) \/ Commit(x) \/ AbortedReturns(x) \/ HeartbeatTask(x)
    PROVE  QueueCall /\ WorkersTyped'
<1>1. x \in Exec /\ x.t \in TaskIds /\ x.token \in Nat
  BY DEF WorkersTyped, Exec
<1>2. CASE ComputeOutcome(x)
  <2>1. execs' \subseteq Exec
    BY <1>2, BecomesTyped DEF ComputeOutcome, ExecState
  <2> QED
    BY <1>2, <2>1 DEF ComputeOutcome, QueueCall, WorkersTyped
<1>3. CASE Commit(x)
  <2>1. execs' \subseteq Exec /\ active' \in [Workers -> [TaskIds -> Nat]]
    BY <1>3, LeaveTyped DEF Commit
  <2>2. QueueCall
    BY <1>1, <1>3 DEF Commit, QueueCall
  <2> QED
    BY <1>3, <2>1, <2>2 DEF Commit, WorkersTyped
<1>4. CASE AbortedReturns(x)
  <2>1. execs' \subseteq Exec /\ active' \in [Workers -> [TaskIds -> Nat]]
    BY <1>4, LeaveTyped DEF AbortedReturns
  <2> QED
    BY <1>4, <2>1 DEF AbortedReturns, QueueCall, WorkersTyped
<1>5. CASE HeartbeatTask(x)
  <2>1. QueueCall
    BY <1>1, <1>5 DEF HeartbeatTask, QueueCall
  <2>2. execs' \subseteq Exec
    BY <1>5, BecomesTyped DEF HeartbeatTask, ExecState, WorkersTyped
  <2> QED
    BY <1>5, <2>1, <2>2 DEF HeartbeatTask, WorkersTyped
<1> QED
  BY <1>2, <1>3, <1>4, <1>5

(* releaseUnfinished: the claims a worker still holds are given back. *)
LEMMA ReleaseUnfinishedSound ==
    ASSUME ClientInv, WorkersTyped, NEW w \in Workers, ReleaseUnfinished(w)
    PROVE  QueueCall /\ WorkersTyped'
<1> DEFINE given == {t \in Entries(w) : IsCurrentClaim(t, active[w][t])}
           mine(x) == x.w = w /\ active[w][x.t] = x.token
<1>1. given \subseteq Running /\ given \in SUBSET TaskIds
  BY DEF Entries, IsCurrentClaim, Running
<1>2. ReleaseAll(given)
  BY <1>1 DEF ReleaseUnfinished, ReleaseAll
<1>3. QueueCall
  BY <1>1, <1>2 DEF QueueCall
<1>4. execs' = {IF mine(x) THEN [x EXCEPT !.st = "aborted"] ELSE x : x \in execs}
  BY DEF ReleaseUnfinished
<1> HIDE DEF mine
<1>5. execs' \subseteq Exec
  BY <1>4 DEF WorkersTyped, Exec, ExecState
<1>6. active' = active /\ life' = [life EXCEPT ![w] = "released"]
  BY DEF ReleaseUnfinished
<1> QED
  BY <1>3, <1>5, <1>6 DEF WorkersTyped

(* The other steps of a worker, the sweeps and the clock. *)
LEMMA WorkerSound ==
    ASSUME ClientInv, WorkersTyped,
           \/ \E w \in Workers : WorkerCrash(w) \/ Stop(w) \/ StopDone(w) \/ DeadWorkerSweep(w)
           \/ \E t \in TaskIds : TimePasses(t)
           \/ StaleSweep
    PROVE  QueueCall /\ WorkersTyped'
<1>1. NoEntry \in [TaskIds -> Nat]
  BY DEF NoEntry
<1>2. ASSUME NEW w \in Workers, WorkerCrash(w) PROVE QueueCall /\ WorkersTyped'
  BY <1>1, <1>2 DEF WorkerCrash, QueueCall, WorkersTyped
<1>3. ASSUME NEW w \in Workers, Stop(w) PROVE QueueCall /\ WorkersTyped'
  BY <1>3 DEF Stop, QueueCall, WorkersTyped
<1>4. ASSUME NEW w \in Workers, StopDone(w) PROVE QueueCall /\ WorkersTyped'
  BY <1>4 DEF StopDone, QueueCall, WorkersTyped
<1>5. ASSUME NEW w \in Workers, DeadWorkerSweep(w) PROVE QueueCall /\ WorkersTyped'
  BY <1>5 DEF DeadWorkerSweep, QueueCall, WorkersTyped, workerVars
<1>6. ASSUME NEW t \in TaskIds, TimePasses(t) PROVE QueueCall /\ WorkersTyped'
  BY <1>6 DEF TimePasses, QueueCall, WorkersTyped, workerVars
<1>7. ASSUME StaleSweep PROVE QueueCall /\ WorkersTyped'
  BY <1>7 DEF StaleSweep, QueueCall, WorkersTyped, workerVars
<1> QED
  BY <1>2, <1>3, <1>4, <1>5, <1>6, <1>7

-----------------------------------------------------------------------------
(* No task, no execution, no run: the first state is sound. *)
LEMMA DispatchInit == Init => DispatchInv
<1> SUFFICES ASSUME Init PROVE DispatchInv
  OBVIOUS
<1>1. QueueInit
  BY DEF Init
<1>2. OpenHasNone
  BY <1>1 DEF QueueInit, OpenHasNone, Settled, NoTask, NewTask
<1>3. ClientInv
  BY <1>1, <1>2, QueueInitInv, NothingRunsFirst DEF ClientInv
<1>4. WorkersTyped
  BY DEF Init, WorkersTyped, NoEntry
<1>5. CoordinatorsSound
  <2>1. run \in RunType /\ run.ended /\ \A k \in Keys : run.row[k] = "none"
    BY DEF Init, RunType, NoRows, RowStatus
  <2>2. wait \in [Coordinators -> [Keys -> Wait]]
    BY NoWaitSound DEF Init
  <2>3. ASSUME NEW c \in Coordinators, NEW k \in Keys PROVE WaitSound(wait[c][k], k)
    <3>1. wait[c][k] = NoWait
      BY DEF Init
    <3> QED
      BY <3>1, NoWaitSound DEF WaitSound, KnowsItsRun, KnowsItsTask, HoldsItsValue
  <2> QED
    BY <2>1, <2>2, <2>3 DEF CoordinatorsSound, RunIsTagged, RowsHaveATask
<1> QED
  BY <1>3, <1>4, <1>5 DEF DispatchInv

(* Every step is one call on the queue, and leaves the invariant. *)
LEMMA DispatchStep ==
    ASSUME DispatchInv, [Next]_vars
    PROVE  QueueCall /\ DispatchInv'
<1>1. ClientInv /\ WorkersTyped /\ CoordinatorsSound
  BY DEF DispatchInv
<1>2. ASSUME QueueCall, WorkersTyped', UNCHANGED coordVars PROVE QueueCall /\ DispatchInv'
  BY <1>1, <1>2, CallKeepsQueue, WorkersDisturbNobody DEF DispatchInv
<1>3. ASSUME QueueCall, CoordinatorsSound', UNCHANGED workerVars PROVE QueueCall /\ DispatchInv'
  <2>1. WorkersTyped'
    BY <1>1, <1>3 DEF WorkersTyped, workerVars
  <2> QED
    BY <1>1, <1>3, <2>1, CallKeepsQueue DEF DispatchInv
<1>4. ASSUME UNCHANGED queueVars PROVE QueueCall
  BY <1>4 DEF QueueCall
<1>5. ASSUME NEW w \in Workers, ClaimOnce(w) PROVE QueueCall /\ DispatchInv'
  <2>1. UNCHANGED coordVars
    BY <1>5 DEF ClaimOnce
  <2> QED
    BY <1>1, <1>2, <1>5, <2>1, ClaimOnceSound
<1>6. ASSUME NEW x \in execs,
             ComputeOutcome(x) \/ Commit(x) \/ AbortedReturns(x) \/ HeartbeatTask(x)
      PROVE QueueCall /\ DispatchInv'
  <2>1. UNCHANGED coordVars
    BY <1>6 DEF ComputeOutcome, Commit, AbortedReturns, HeartbeatTask
  <2> QED
    BY <1>1, <1>2, <1>6, <2>1, ExecSound
<1>7. ASSUME NEW w \in Workers, ReleaseUnfinished(w) PROVE QueueCall /\ DispatchInv'
  <2>1. UNCHANGED coordVars
    BY <1>7 DEF ReleaseUnfinished
  <2> QED
    BY <1>1, <1>2, <1>7, <2>1, ReleaseUnfinishedSound
<1>8. ASSUME \/ \E w \in Workers : WorkerCrash(w) \/ Stop(w) \/ StopDone(w) \/ DeadWorkerSweep(w)
             \/ \E t \in TaskIds : TimePasses(t)
             \/ StaleSweep
      PROVE QueueCall /\ DispatchInv'
  <2>1. UNCHANGED coordVars
    BY <1>8 DEF WorkerCrash, Stop, StopDone, DeadWorkerSweep, TimePasses, StaleSweep
  <2> QED
    BY <1>1, <1>2, <1>8, <2>1, WorkerSound
<1>9. ASSUME NEW c \in Coordinators, TakeRun(c) PROVE QueueCall /\ DispatchInv'
  <2>1. UNCHANGED queueVars /\ UNCHANGED workerVars
    BY <1>9 DEF TakeRun
  <2> QED
    BY <1>1, <1>3, <1>4, <1>9, <2>1, TakeRunSound
<1>10. ASSUME NEW c \in Coordinators, EndWave(c) PROVE QueueCall /\ DispatchInv'
  <2> DEFINE all == \A k \in Keys : W(c, k).epoch = run.epoch
  <2>1. /\ UNCHANGED queueVars /\ UNCHANGED workerVars
        /\ run' = [run EXCEPT !.ended = @ \/ all]
        /\ wait' = [wait EXCEPT ![c] = [k \in Keys |-> NoWait]]
    BY <1>10 DEF EndWave
  <2>2. run.ended \in BOOLEAN
    BY <1>1 DEF CoordinatorsSound, RunType
  <2>3. \E b \in BOOLEAN : (run.ended => b) /\ run' = [run EXCEPT !.ended = b]
    <3> HIDE DEF all
    <3>1. run' = [run EXCEPT !.ended = run.ended \/ all]
      BY <2>1
    <3>2. (run.ended \/ all) \in BOOLEAN
      OBVIOUS
    <3> QED
      BY <2>2, <3>1, <3>2, Zenon
  <2> QED
    BY <1>1, <1>3, <1>4, <2>1, <2>3, EndSound
<1>11. ASSUME NEW c \in Coordinators, CoordinatorCrash(c) PROVE QueueCall /\ DispatchInv'
  <2>1. /\ UNCHANGED queueVars /\ UNCHANGED workerVars /\ run' = run
        /\ wait' = [wait EXCEPT ![c] = [k \in Keys |-> NoWait]]
    BY <1>11 DEF CoordinatorCrash
  <2> QED
    BY <1>1, <1>3, <1>4, <2>1, EndSound
<1>12. ASSUME NEW c \in Coordinators, NEW k \in Keys, Waiting(c, k) PROVE QueueCall /\ DispatchInv'
  <2>1. CASE EnqueueAttempt(c, k)
    BY <1>1, <1>3, <2>1, EnqueueAttemptSound DEF EnqueueAttempt
  <2>2. CASE Poll(c, k)
    BY <1>1, <1>3, <2>2, PollSound DEF Poll
  <2>3. CASE Discard(c, k) \/ Take(c, k) \/ CheckRun(c, k) \/ Expire(c, k) \/ ExpireConsume(c, k)
    <3>1. UNCHANGED workerVars
      BY <2>3 DEF Discard, Take, CheckRun, Expire, ExpireConsume
    <3> QED
      BY <1>1, <1>3, <2>3, <3>1, WaitingSound
  <2>4. CASE Record(c, k)
    <3>1. UNCHANGED queueVars /\ UNCHANGED workerVars
      BY <2>4 DEF Record
    <3> QED
      BY <1>1, <1>3, <1>4, <2>4, <3>1, RecordSound
  <2> QED
    BY <1>12, <2>1, <2>2, <2>3, <2>4 DEF Waiting
<1>13. ASSUME Cancel PROVE QueueCall /\ DispatchInv'
  <2>1. /\ UNCHANGED queueVars /\ UNCHANGED workerVars /\ wait' = wait
        /\ run' = [run EXCEPT !.ended = TRUE]
    BY <1>13 DEF Cancel
  <2> QED
    BY <1>1, <1>3, <1>4, <2>1, EndSound
<1>14. ASSUME UNCHANGED vars PROVE QueueCall /\ DispatchInv'
  <2>1. UNCHANGED queueVars /\ UNCHANGED workerVars /\ UNCHANGED coordVars
    BY <1>14 DEF vars
  <2>2. WorkersTyped'
    BY <1>1, <2>1 DEF WorkersTyped, workerVars
  <2> QED
    BY <1>2, <1>4, <2>1, <2>2
<1> QED
  BY <1>5, <1>6, <1>7, <1>8, <1>9, <1>10, <1>11, <1>12, <1>13, <1>14 DEF Next, Work

(* worker.ts, step-queue-executor.ts: the invariant in one place. *)
THEOREM DispatchInvariant == Spec => []DispatchInv
BY DispatchInit, DispatchStep, PTL DEF Spec

(* runAttempt, waitForResult: for any workers, coordinators, retries and    *)
(* faults, a step is stored as completed only with a value that a worker    *)
(* produced for this step in this run.                                     *)
THEOREM RowsComeFromTheirRun == Spec => []RowComesFromItsRun
<1>1. DispatchInv => RowComesFromItsRun
  BY DEF DispatchInv, ClientInv, QueueInv, WorkersTyped, CoordinatorsSound, RunType,
         RowsHaveATask, RowComesFromItsRun, TypeOK
<1> QED
  BY <1>1, DispatchInvariant, PTL

(* in-memory-step-queue.ts under worker.ts and step-queue-executor.ts: what *)
(* the queue promises to any client it keeps under these, who also give     *)
(* back several claims at once.                                            *)
THEOREM QueueKeepsItsPromises ==
    Spec => [](OneTaskPerStep /\ DeliveriesBounded /\ OneClaimPerToken /\ ConcurrencyCap)
<1>1. DispatchInv =>
        OneTaskPerStep /\ DeliveriesBounded /\ OneClaimPerToken /\ ConcurrencyCap
  BY DEF DispatchInv, ClientInv, QueueInv
<1> QED
  BY <1>1, DispatchInvariant, PTL

-----------------------------------------------------------------------------
(* worker.ts, stop.  With a concurrency of 1 a worker has one execution at  *)
(* a time, and the entry of its task is that execution's own.              *)
EntryOfItsOwn ==
    /\ \A x \in execs : active[x.w][x.t] # 0
    /\ \A x, y \in execs : x.w = y.w => x = y

StopInv == DispatchInv /\ EntryOfItsOwn /\ \A x \in execs : life[x.w] # "stopped"

(* claimOnce: a worker of concurrency 1 claims only when it has no entry,   *)
(* and then one task.                                                      *)
LEMMA ClaimsOne ==
    ASSUME Capacity <= 1, QueueTypeOK, NEW w \in Workers,
           NEW t \in Batch(w, Capacity - Cardinality(Entries(w)))
    PROVE  /\ Entries(w) = {}
           /\ \A u \in Batch(w, Capacity - Cardinality(Entries(w))) : u = t
<1> DEFINE n == Capacity - Cardinality(Entries(w))
           early(u) == {v \in Admitted(w) : Before(v, u)}
<1>1. /\ IsFiniteSet(TaskIds) /\ Entries(w) \subseteq TaskIds /\ Admitted(w) \subseteq TaskIds
      /\ IsFiniteSet(Entries(w)) /\ Cardinality(Entries(w)) \in Nat
  BY BatchIsFinite, FS_Subset, FS_CardinalityType DEF Entries, Admitted, Claimable
<1>2. \A u : IsFiniteSet(early(u)) /\ Cardinality(early(u)) \in Nat
  BY <1>1, FS_Subset, FS_CardinalityType
<1>3. \A u \in Batch(w, n) : u \in Admitted(w) /\ Cardinality(early(u)) < n
  BY DEF Batch
<1>4. Capacity \in Nat /\ n \in Int /\ n = Capacity - Cardinality(Entries(w)) /\ t \in Batch(w, n)
  BY <1>1, DispatchAssumption
<1> HIDE DEF n
<1>5. Cardinality(Entries(w)) = 0 /\ n <= 1
  <2>1. PICK a \in Nat : a = Cardinality(early(t))
    BY <1>2
  <2>2. PICK b \in Nat : b = Cardinality(Entries(w))
    BY <1>1
  <2>3. a < n /\ n = Capacity - b
    BY <1>3, <1>4, <2>1, <2>2
  <2>4. b = 0 /\ n <= 1
    BY <1>4, <2>3
  <2> QED
    BY <2>2, <2>4
<1>6. ASSUME NEW u \in Batch(w, n) PROVE early(u) = {}
  <2>1. PICK a \in Nat : a = Cardinality(early(u))
    BY <1>2
  <2>2. a < n
    BY <1>3, <2>1
  <2>3. a = 0
    BY <1>4, <1>5, <2>2
  <2> QED
    BY <1>2, <2>1, <2>3, FS_EmptySet
<1>7. ASSUME NEW u \in Batch(w, n) PROVE u = t
  BY <1>1, <1>3, <1>4, <1>6, <1>7, BeforeIsTotal
<1> QED
  BY <1>1, <1>5, <1>7, FS_EmptySet DEF n

(* No step of a worker leaves an execution without its entry. *)
LEMMA StopStep ==
    ASSUME Capacity <= 1, StopInv, [Next]_vars
    PROVE  EntryOfItsOwn' /\ (\A x \in execs : life[x.w] # "stopped")'
<1> DEFINE Goal == EntryOfItsOwn' /\ (\A x \in execs : life[x.w] # "stopped")'
<1>1. /\ QueueTypeOK /\ nclaims \in Nat /\ WorkersTyped /\ EntryOfItsOwn
      /\ \A x \in execs : life[x.w] # "stopped"
  BY DEF StopInv, DispatchInv, ClientInv, QueueInv, QueueTypeOK
<1>2. \A x \in execs : x \in Exec /\ x.w \in Workers /\ x.t \in TaskIds
  BY <1>1 DEF WorkersTyped, Exec
<1>3. ASSUME UNCHANGED workerVars PROVE Goal
  BY <1>1, <1>3 DEF workerVars, EntryOfItsOwn
<1>4. ASSUME NEW w \in Workers, ClaimOnce(w) PROVE Goal
  <2> DEFINE B == Batch(w, Capacity - Cardinality(Entries(w)))
             new(t) == [w |-> w, t |-> t, token |-> TokenIn(B, t), st |-> "running"]
  <2>1. /\ B # {} /\ UNCHANGED life /\ life[w] = "up"
        /\ active' = [active EXCEPT ![w] = [t \in TaskIds |-> IF t \in B THEN TokenIn(B, t) ELSE @[t]]]
        /\ execs' = execs \cup {new(t) : t \in B}
    BY <1>4 DEF ClaimOnce, Claim
  <2>2. PICK t : t \in B
    BY <2>1
  <2>3. Entries(w) = {} /\ B = {t}
    BY <1>1, <2>2, ClaimsOne
  <2>4. t \in TaskIds /\ TokenIn(B, t) # 0
    <3>1. t \in TaskIds
      BY <2>2, BatchIsPending
    <3>2. {u \in B : Before(u, t)} \subseteq B /\ IsFiniteSet(B)
      BY BatchIsFinite
    <3>3. Cardinality({u \in B : Before(u, t)}) \in Nat
      BY <3>2, FS_Subset, FS_CardinalityType
    <3> QED
      BY <1>1, <3>1, <3>3 DEF TokenIn
  <2> HIDE DEF B
  <2>5. execs' = execs \cup {new(t)}
    BY <2>1, <2>3
  <2>6. \A x \in execs : x.w # w
    BY <1>1, <1>2, <2>3 DEF EntryOfItsOwn, Entries
  <2>7. new(t).w = w /\ new(t).t = t
    OBVIOUS
  <2> HIDE DEF new
  <2>8. active'[w][t] # 0 /\ \A v \in Workers : v # w => active'[v] = active[v]
    BY <1>1, <2>1, <2>3, <2>4 DEF WorkersTyped
  <2>9. EntryOfItsOwn'
    BY <1>1, <1>2, <2>5, <2>6, <2>7, <2>8 DEF EntryOfItsOwn
  <2> QED
    BY <1>1, <2>1, <2>5, <2>7, <2>9
<1>5. ASSUME NEW x \in execs, NEW st, Becomes(x, st), UNCHANGED <<active, life>> PROVE Goal
  <2>1. PICK y : y = [x EXCEPT !.st = st]
    OBVIOUS
  <2>2. y.w = x.w /\ y.t = x.t /\ execs' = (execs \ {x}) \cup {y}
    BY <1>2, <1>5, <2>1 DEF Becomes, Exec
  <2> QED
    BY <1>1, <1>5, <2>2 DEF EntryOfItsOwn
<1>6. ASSUME NEW x \in execs, Leave(x), UNCHANGED life PROVE Goal
  <2>1. \A y \in execs' : y \in execs /\ y.w # x.w
    BY <1>1, <1>6 DEF Leave, EntryOfItsOwn
  <2>2. \A y \in execs' : active'[y.w] = active[y.w]
    BY <1>1, <1>2, <1>6, <2>1 DEF Leave, WorkersTyped
  <2> QED
    BY <1>1, <1>6, <2>1, <2>2 DEF EntryOfItsOwn
<1>7. ASSUME NEW x \in execs,
             ComputeOutcome(x) \/ Commit(x) \/ AbortedReturns(x) \/ HeartbeatTask(x)
      PROVE Goal
  <2>1. CASE ComputeOutcome(x)
    BY <1>5, <2>1 DEF ComputeOutcome
  <2>2. CASE Commit(x) \/ AbortedReturns(x)
    BY <1>6, <2>2 DEF Commit, AbortedReturns
  <2>3. CASE HeartbeatTask(x)
    <3>1. CASE UNCHANGED execs
      BY <1>3, <2>3, <3>1 DEF HeartbeatTask, workerVars
    <3>2. CASE Becomes(x, "aborted")
      BY <1>5, <2>3, <3>2 DEF HeartbeatTask
    <3> QED
      BY <2>3, <3>1, <3>2 DEF HeartbeatTask
  <2> QED
    BY <1>7, <2>1, <2>2, <2>3
<1>8. ASSUME NEW w \in Workers, WorkerCrash(w) PROVE Goal
  <2>1. \A y \in execs' : y \in execs /\ y.w # w
    BY <1>8 DEF WorkerCrash
  <2>2. \A y \in execs' : active'[y.w] = active[y.w]
    BY <1>1, <1>2, <1>8, <2>1 DEF WorkerCrash, WorkersTyped
  <2> QED
    BY <1>1, <1>8, <2>1, <2>2 DEF WorkerCrash, EntryOfItsOwn
<1>9. ASSUME NEW w \in Workers, Stop(w) PROVE Goal
  <2>1. execs' = execs /\ active' = active /\ \A v \in Workers : life'[v] \in {life[v], "stopping"}
    BY <1>1, <1>9 DEF Stop, WorkersTyped
  <2> QED
    BY <1>1, <1>2, <2>1 DEF EntryOfItsOwn
<1>10. ASSUME NEW w \in Workers, StopDone(w) PROVE Goal
  <2>1. /\ execs' = execs /\ active' = active /\ Entries(w) = {}
        /\ \A v \in Workers : v # w => life'[v] = life[v]
    BY <1>1, <1>10 DEF StopDone, WorkersTyped
  <2>2. \A x \in execs : x.w # w
    BY <1>1, <1>2, <2>1 DEF EntryOfItsOwn, Entries
  <2> QED
    BY <1>1, <1>2, <2>1, <2>2 DEF EntryOfItsOwn
<1>11. ASSUME NEW w \in Workers, ReleaseUnfinished(w) PROVE Goal
  <2> DEFINE mine(x) == x.w = w /\ active[w][x.t] = x.token
             new(x) == IF mine(x) THEN [x EXCEPT !.st = "aborted"] ELSE x
  <2>1. /\ execs' = {new(x) : x \in execs} /\ active' = active
        /\ life' = [life EXCEPT ![w] = "released"]
    BY <1>11 DEF ReleaseUnfinished
  <2>2. \A x \in execs : new(x).w = x.w /\ new(x).t = x.t
    BY <1>2 DEF Exec
  <2> HIDE DEF new
  <2>3. \A v \in Workers : life'[v] \in {life[v], "released"}
    BY <1>1, <2>1 DEF WorkersTyped
  <2> QED
    BY <1>1, <1>2, <2>1, <2>2, <2>3 DEF EntryOfItsOwn
<1>12. ASSUME \/ \E w \in Workers : DeadWorkerSweep(w)
              \/ \E t \in TaskIds : TimePasses(t)
              \/ \E c \in Coordinators :
                   TakeRun(c) \/ EndWave(c) \/ CoordinatorCrash(c) \/ \E k \in Keys : Waiting(c, k)
              \/ StaleSweep \/ Cancel \/ UNCHANGED vars
       PROVE Goal
  <2>1. ASSUME NEW c \in Coordinators, NEW k \in Keys, Waiting(c, k) PROVE UNCHANGED workerVars
    BY <2>1 DEF Waiting, EnqueueAttempt, Poll, Discard, Take, CheckRun, Expire, ExpireConsume, Record
  <2>2. UNCHANGED workerVars
    BY <1>12, <2>1 DEF DeadWorkerSweep, TimePasses, TakeRun, EndWave, CoordinatorCrash, StaleSweep,
                       Cancel, vars
  <2> QED
    BY <1>3, <2>2
<1> QED
  BY <1>4, <1>7, <1>8, <1>9, <1>10, <1>11, <1>12 DEF Next, Work

(* worker.ts, stop: a worker of concurrency 1 stops without a task it is    *)
(* still working on.  With more slots the entry of a task claimed again may *)
(* be dropped by the delivery before it (MCStopForgets).                   *)
THEOREM StopWaits ==
    ASSUME Capacity <= 1
    PROVE  Spec => []StopWaitsForEveryTask
<1>1. Init => StopInv
  BY DispatchInit DEF Init, StopInv, EntryOfItsOwn
<1>2. StopInv /\ [Next]_vars => StopInv'
  BY DispatchStep, StopStep DEF StopInv
<1>3. StopInv => StopWaitsForEveryTask
  BY DEF StopInv, StopWaitsForEveryTask
<1> QED
  BY <1>1, <1>2, <1>3, PTL DEF Spec

-----------------------------------------------------------------------------
(* step-queue-executor.ts.  What may still add a value for step k in this   *)
(* run, against what the faults allow: the values there are, the waits     *)
(* that may yet enqueue or see one, a task nobody of the run waits for,    *)
(* and the driver that is to come when the run has none.                   *)
MayAdd(x, ts, n) ==
    /\ x.run = n
    /\ \/ x.pc \in {"again", "discard"}
       \/ x.pc \in {"wait", "check", "expire"} /\ ~(ts[x.id].run = n /\ ts[x.id].outcome = "value")
       \/ x.pc = "take" /\ x.got # "value"
Awaits(x, t, n) == x.run = n /\ x.pc \in {"wait", "check", "expire"} /\ x.id = t

Adders(k) == {c \in Coordinators : MayAdd(wait[c][k], tasks, run.number)}
Loose(k) ==
    \E t \in TaskIds :
        /\ tasks[t].key = k /\ tasks[t].run = run.number /\ tasks[t].status \in {"pending", "running"}
        /\ \A c \in Coordinators : ~ Awaits(wait[c][k], t, run.number)
Undriven(k) ==
    ~ run.ended /\ \A c \in Coordinators : wait[c][k].pc = "idle" \/ wait[c][k].epoch # run.epoch

Bit(b) == IF b THEN 1 ELSE 0
Within(k) ==
    Cardinality(Done(k)) + Cardinality(Adders(k)) + Bit(Loose(k)) + Bit(Undriven(k))
        <= 1 + (MaxFaults - left.faults)

(* Nothing is of a run that has not begun, and the waits of a coordinator  *)
(* are of one epoch.                                                       *)
NothingAhead ==
    /\ \A t \in TaskIds : Exists(t) => tasks[t].run <= run.number
    /\ \A c \in Coordinators, k \in Keys : wait[c][k].pc # "idle" => wait[c][k].run <= run.number
OneEpochEach == \A c \in Coordinators, j, k \in Keys : wait[c][j].epoch = wait[c][k].epoch

OpenIsActive == \A t \in TaskIds : tasks[t].status \in {"pending", "running"} => ~ tasks[t].consumed

LeftTyped == left \in [faults : Nat, stops : Nat] /\ left.faults <= MaxFaults

RedoneInv ==
    /\ DispatchInv /\ LeftTyped /\ left.faults \in Nat /\ NothingAhead /\ OneEpochEach /\ OpenIsActive
    /\ \A k \in Keys : Within(k)

(* What a step that neither enqueues nor brings a value leaves of a task. *)
Steady(t) ==
    /\ Exists(t) =>
         /\ tasks'[t].status # "absent"
         /\ tasks'[t].key = tasks[t].key /\ tasks'[t].run = tasks[t].run
         /\ tasks'[t].outcome = "value" <=> tasks[t].outcome = "value"
         /\ tasks'[t].status \in {"pending", "running"} =>
              tasks[t].status \in {"pending", "running"} /\ tasks'[t].consumed = tasks[t].consumed
    /\ ~ Exists(t) => tasks'[t] = tasks[t]

(* All calls but enqueue and complete are such steps. *)
LEMMA SteadyCalls ==
    ASSUME QueueTypeOK, OpenHasNone,
           \/ UNCHANGED queueVars
           \/ \E w \in Workers, n \in Int : Claim(w, Batch(w, n))
           \/ \E t \in TaskIds, token \in Nat :
                Heartbeat(t, token) \/ \E o \in {"typed", "defect"} : Fail(t, token, o)
           \/ \E w \in Workers : RequeueWorker(w)
           \/ RequeueStale
           \/ \E t \in TaskIds : FailUnclaimed(t) \/ Consume(t) \/ GrowOld(t)
           \/ \E G \in SUBSET TaskIds : ReleaseAll(G)
    PROVE  \A t \in TaskIds : Steady(t)
<1> DEFINE Goal == \A t \in TaskIds : Steady(t)
<1>1. tasks \in [TaskIds -> Task]
  BY DEF QueueTypeOK
<1>2. ASSUME UNCHANGED queueVars PROVE Goal
  BY <1>2 DEF queueVars, Steady, Exists
<1>3. ASSUME NEW B, \A t \in B : tasks[t].status \in {"pending", "running"},
             \A t \in TaskIds \ B : tasks'[t] = tasks[t],
             \A t \in B : /\ tasks'[t].status # "absent" /\ tasks'[t].consumed = tasks[t].consumed
                          /\ tasks'[t].key = tasks[t].key /\ tasks'[t].run = tasks[t].run
                          /\ tasks'[t].outcome # "value"
      PROVE  Goal
  BY <1>3 DEF Steady, Exists, OpenHasNone, Settled
<1>4. ASSUME NEW w \in Workers, NEW n, Claim(w, Batch(w, n)) PROVE Goal
  <2> DEFINE B == Batch(w, n)
  <2>1. \A t \in B : t \in TaskIds /\ tasks[t].status = "pending" /\ tasks[t] \in Task /\ tasks[t].outcome = "none"
    BY <1>1, BatchIsPending DEF OpenHasNone, Settled
  <2>2. \A t \in TaskIds \ B : tasks'[t] = tasks[t]
    BY <1>4 DEF Claim
  <2>3. \A t \in B : /\ tasks'[t].status = "running" /\ tasks'[t].key = tasks[t].key
                     /\ tasks'[t].consumed = tasks[t].consumed
                     /\ tasks'[t].run = tasks[t].run /\ tasks'[t].outcome = tasks[t].outcome
    BY <1>4, <2>1 DEF Claim, Task
  <2> HIDE DEF B
  <2> QED
    BY <1>3, <2>1, <2>2, <2>3
<1>5. ASSUME NEW t \in TaskIds, tasks[t].status = "running", NEW new, tasks' = [tasks EXCEPT ![t] = new],
             new.status # "absent", new.consumed = tasks[t].consumed, new.key = tasks[t].key,
             new.run = tasks[t].run, new.outcome # "value"
      PROVE  Goal
  <2>1. \A u \in TaskIds \ {t} : tasks'[u] = tasks[u]
    BY <1>1, <1>5
  <2>2. tasks'[t] = new
    BY <1>1, <1>5
  <2> QED
    BY <1>5, <2>1, <2>2 DEF Steady, Exists, OpenHasNone, Settled
<1>6. ASSUME NEW t \in TaskIds, NEW token, Heartbeat(t, token) PROVE Goal
  <2> DEFINE new == [tasks[t] EXCEPT !.beat = "recent"]
  <2>1. /\ tasks[t].status = "running" /\ tasks' = [tasks EXCEPT ![t] = new] /\ tasks[t].outcome = "none"
        /\ tasks[t] \in Task
    BY <1>1, <1>6 DEF Heartbeat, IsCurrentClaim, OpenHasNone, Settled
  <2>2. /\ new.status = "running" /\ new.consumed = tasks[t].consumed /\ new.key = tasks[t].key
        /\ new.run = tasks[t].run /\ new.outcome = "none"
    BY <2>1 DEF Task
  <2> HIDE DEF new
  <2> QED
    BY <1>5, <2>1, <2>2
<1>7. ASSUME NEW t \in TaskIds, tasks[t].status = "running", NEW o \in {"typed", "defect"},
             SettleAs(t, "failed", o)
      PROVE Goal
  <2> DEFINE new == [tasks[t] EXCEPT !.status = "failed", !.outcome = o, !.claimed = "none", !.beat = "none"]
  <2>1. tasks' = [tasks EXCEPT ![t] = new] /\ tasks[t] \in Task
    BY <1>1, <1>7 DEF SettleAs
  <2>2. /\ new.status = "failed" /\ new.consumed = tasks[t].consumed /\ new.key = tasks[t].key
        /\ new.run = tasks[t].run /\ new.outcome = o
    BY <2>1 DEF Task
  <2> HIDE DEF new
  <2> QED
    BY <1>5, <1>7, <2>1, <2>2
<1>8. ASSUME NEW t \in TaskIds, NEW token, NEW o \in {"typed", "defect"}, Fail(t, token, o) PROVE Goal
  BY <1>7, <1>8 DEF Fail, IsCurrentClaim
<1>9. ASSUME NEW t \in TaskIds, FailUnclaimed(t) PROVE Goal
  BY <1>7, <1>9 DEF FailUnclaimed
<1>10. ASSUME NEW S, S \subseteq Running, Requeue(S) PROVE Goal
  <2>1. \A t \in S : t \in TaskIds /\ tasks[t].status = "running" /\ tasks[t] \in Task /\ tasks[t].outcome = "none"
    BY <1>1, <1>10 DEF Running, OpenHasNone, Settled
  <2>2. \A t \in S : /\ Requeued(tasks[t]).status \in {"pending", "failed"}
                     /\ Requeued(tasks[t]).key = tasks[t].key
                     /\ Requeued(tasks[t]).run = tasks[t].run
                     /\ Requeued(tasks[t]).consumed = tasks[t].consumed
                     /\ Requeued(tasks[t]).outcome # "value"
    BY <2>1 DEF Requeued, BackToPending, Task
  <2>3. \A t \in TaskIds : tasks'[t] = IF t \in S THEN Requeued(tasks[t]) ELSE tasks[t]
    BY <1>10 DEF Requeue
  <2> QED
    BY <1>3, <2>1, <2>2, <2>3
<1>11. ASSUME NEW w \in Workers, RequeueWorker(w) PROVE Goal
  <2>1. {t \in Running : tasks[t].by = w} \subseteq Running
    OBVIOUS
  <2> QED
    BY <1>10, <1>11, <2>1 DEF RequeueWorker
<1>12. ASSUME RequeueStale PROVE Goal
  <2>1. Stale \subseteq Running
    BY DEF Stale
  <2> QED
    BY <1>10, <1>12, <2>1 DEF RequeueStale
<1>13. ASSUME NEW t \in TaskIds, Consume(t) PROVE Goal
  BY <1>1, <1>13 DEF Consume, Settled, Steady, Exists, Task
<1>14. ASSUME NEW t \in TaskIds, GrowOld(t) PROVE Goal
  BY <1>1, <1>14 DEF GrowOld, OpenHasNone, Settled, Steady, Exists, Task
<1>15. ASSUME NEW G, ReleaseAll(G) PROVE Goal
  <2>1. \A t \in G : t \in TaskIds /\ tasks[t].status = "running" /\ tasks[t] \in Task /\ tasks[t].outcome = "none"
    BY <1>1, <1>15 DEF Running, ReleaseAll, OpenHasNone, Settled
  <2>2. \A t \in G : /\ Released(tasks[t]).status = "pending"
                     /\ Released(tasks[t]).key = tasks[t].key
                     /\ Released(tasks[t]).run = tasks[t].run
                     /\ Released(tasks[t]).consumed = tasks[t].consumed
                     /\ Released(tasks[t]).outcome = tasks[t].outcome
    BY <2>1 DEF Released, BackToPending, Task
  <2>3. \A t \in TaskIds : tasks'[t] = IF t \in G THEN Released(tasks[t]) ELSE tasks[t]
    BY <1>15 DEF ReleaseAll
  <2> QED
    BY <1>3, <2>1, <2>2, <2>3
<1> QED
  BY <1>2, <1>4, <1>6, <1>8, <1>9, <1>11, <1>12, <1>13, <1>14, <1>15

(* Counting: what is counted is finite. *)
LEMMA CountsAreNumbers ==
    ASSUME NEW k
    PROVE  /\ IsFiniteSet(Done(k)) /\ Cardinality(Done(k)) \in Nat
           /\ IsFiniteSet(Done(k)') /\ Cardinality(Done(k)') \in Nat
           /\ IsFiniteSet(Adders(k)) /\ Cardinality(Adders(k)) \in Nat
           /\ IsFiniteSet(Adders(k)') /\ Cardinality(Adders(k)') \in Nat
           /\ Bit(Loose(k)) \in {0, 1} /\ Bit(Loose(k)') \in {0, 1}
           /\ Bit(Undriven(k)) \in {0, 1} /\ Bit(Undriven(k)') \in {0, 1}
<1>1. IsFiniteSet(TaskIds) /\ IsFiniteSet(Coordinators)
  BY BatchIsFinite, DispatchAssumption
<1>2. Done(k) \subseteq TaskIds /\ Done(k)' \subseteq TaskIds
  BY DEF Done
<1>3. Adders(k) \subseteq Coordinators /\ Adders(k)' \subseteq Coordinators
  BY DEF Adders
<1>4. \A b : Bit(b) \in {0, 1}
  BY DEF Bit
<1>5. /\ IsFiniteSet(Done(k)) /\ IsFiniteSet(Done(k)')
      /\ IsFiniteSet(Adders(k)) /\ IsFiniteSet(Adders(k)')
  BY <1>1, <1>2, <1>3, FS_Subset
<1> QED
  BY <1>4, <1>5, FS_CardinalityType

(* A step after which no more is counted than before. *)
LEMMA CountsNoMore ==
    ASSUME NEW k, Within(k), left.faults \in Nat, left'.faults \in Nat, left'.faults <= left.faults,
           Done(k)' \subseteq Done(k), Adders(k)' \subseteq Adders(k), Loose(k)' => Loose(k),
           Undriven(k)' => Undriven(k)
    PROVE  Within(k)'
<1>1. Cardinality(Done(k)') <= Cardinality(Done(k)) /\ Cardinality(Adders(k)') <= Cardinality(Adders(k))
  BY CountsAreNumbers, FS_Subset
<1>2. Bit(Loose(k)') <= Bit(Loose(k)) /\ Bit(Undriven(k)') <= Bit(Undriven(k))
  BY DEF Bit
<1>3. /\ Cardinality(Done(k)) \in Nat /\ Cardinality(Done(k)') \in Nat
      /\ Cardinality(Adders(k)) \in Nat /\ Cardinality(Adders(k)') \in Nat
      /\ Bit(Loose(k)) \in Nat /\ Bit(Loose(k)') \in Nat
      /\ Bit(Undriven(k)) \in Nat /\ Bit(Undriven(k)') \in Nat
  BY CountsAreNumbers
<1> QED
  BY <1>1, <1>2, <1>3, DispatchAssumption DEF Within

(* A step that counts one wait less: it may bring one thing more. *)
LEMMA OneAdderLess ==
    ASSUME NEW k, NEW c \in Adders(k), Adders(k)' \subseteq Adders(k) \ {c}
    PROVE  Cardinality(Adders(k)') + 1 <= Cardinality(Adders(k))
<1>1. IsFiniteSet(Adders(k) \ {c}) /\ Cardinality(Adders(k) \ {c}) = Cardinality(Adders(k)) - 1
  BY CountsAreNumbers, FS_RemoveElement
<1>2. Cardinality(Adders(k)') <= Cardinality(Adders(k) \ {c})
  BY <1>1, FS_Subset
<1> QED
  BY <1>1, <1>2, CountsAreNumbers

(* A wait that gives up leaves at most its task behind. *)
LEMMA AdderGivesUp ==
    ASSUME NEW k, Within(k), left.faults \in Nat, left'.faults \in Nat, left'.faults <= left.faults,
           NEW c \in Adders(k), Adders(k)' \subseteq Adders(k) \ {c},
           Done(k)' \subseteq Done(k), Undriven(k)' => Undriven(k)
    PROVE  Within(k)'
<1>1. Cardinality(Done(k)') <= Cardinality(Done(k))
  BY CountsAreNumbers, FS_Subset
<1>2. Bit(Undriven(k)') <= Bit(Undriven(k))
  BY DEF Bit
<1>3. Cardinality(Adders(k)') + 1 <= Cardinality(Adders(k))
  BY OneAdderLess
<1>4. /\ Cardinality(Done(k)) \in Nat /\ Cardinality(Done(k)') \in Nat
      /\ Cardinality(Adders(k)) \in Nat /\ Cardinality(Adders(k)') \in Nat
      /\ Bit(Loose(k)) \in {0, 1} /\ Bit(Loose(k)') \in {0, 1}
      /\ Bit(Undriven(k)) \in Nat /\ Bit(Undriven(k)') \in Nat
  BY CountsAreNumbers
<1> QED
  BY <1>1, <1>2, <1>3, <1>4, DispatchAssumption DEF Within

(* One wait x of a coordinator goes on, with a call on its task. *)
WaitGoesOn(c, k, x) ==
    /\ wait' = [wait EXCEPT ![c][k] = x]
    /\ run'.number = run.number /\ run'.epoch = run.epoch /\ run'.ended = run.ended
    /\ left'.faults \in Nat /\ left'.faults <= left.faults
    /\ wait[c][k].pc # "idle" /\ x.pc # "idle"
    /\ x.run = wait[c][k].run /\ x.epoch = wait[c][k].epoch

(* What the invariant knows of the other waits and of the tasks. *)
LEMMA OthersSteady ==
    ASSUME RedoneInv, NEW c \in Coordinators, NEW k \in Keys, NEW x, WaitGoesOn(c, k, x),
           \A t \in TaskIds : Exists(t) => Steady(t),
           \A t \in TaskIds : ~ Exists(t) => tasks'[t].outcome # "value"
    PROVE  /\ \A j \in Keys : Done(j)' \subseteq Done(j) /\ (Undriven(j)' => Undriven(j))
           /\ \A d \in Coordinators, j \in Keys :
                ~(d = c /\ j = k) => /\ wait'[d][j] = wait[d][j]
                                     /\ MayAdd(wait'[d][j], tasks', run.number)
                                          => MayAdd(wait[d][j], tasks, run.number)
           /\ wait'[c][k] = x
<1>1. wait \in [Coordinators -> [Keys -> Wait]]
  BY DEF RedoneInv, DispatchInv, CoordinatorsSound
<1>2. wait'[c][k] = x /\ \A d \in Coordinators, j \in Keys : ~(d = c /\ j = k) => wait'[d][j] = wait[d][j]
  BY <1>1 DEF WaitGoesOn
<1>3. ASSUME NEW j \in Keys PROVE Done(j)' \subseteq Done(j)
  BY DEF Done, Steady, WaitGoesOn
<1>4. ASSUME NEW j \in Keys, Undriven(j)' PROVE Undriven(j)
  <2>1. ~ run.ended /\ \A d \in Coordinators : wait'[d][j].pc = "idle" \/ wait'[d][j].epoch # run.epoch
    BY <1>4 DEF Undriven, WaitGoesOn
  <2>2. ASSUME NEW d \in Coordinators PROVE wait[d][j].pc = "idle" \/ wait[d][j].epoch # run.epoch
    <3>1. CASE d = c /\ j = k
      BY <1>2, <2>1, <3>1 DEF WaitGoesOn
    <3>2. CASE ~(d = c /\ j = k)
      BY <1>2, <2>1, <3>2
    <3> QED
      BY <3>1, <3>2
  <2> QED
    BY <2>1, <2>2 DEF Undriven
<1>5. ASSUME NEW d \in Coordinators, NEW j \in Keys, ~(d = c /\ j = k),
             MayAdd(wait'[d][j], tasks', run.number)
      PROVE  MayAdd(wait[d][j], tasks, run.number)
  <2>1. PICK y : y = wait[d][j] /\ y = wait'[d][j]
    BY <1>2, <1>5
  <2>2. KnowsItsTask(y, j)
    BY <2>1 DEF RedoneInv, DispatchInv, CoordinatorsSound, WaitSound
  <2>3. y.pc \in {"wait", "check", "expire"} => y.id \in TaskIds /\ Exists(y.id) /\ Steady(y.id)
    BY <2>2 DEF KnowsItsTask
  <2>4. MayAdd(y, tasks', run.number)
    BY <1>5, <2>1
  <2>5. MayAdd(y, tasks, run.number)
    BY <2>3, <2>4 DEF MayAdd, Steady
  <2> QED
    BY <2>1, <2>5
<1> QED
  BY <1>2, <1>3, <1>4, <1>5

(* Such a step keeps the count when the wait does not begin to count, and   *)
(* either stops to, or lets go of no open task.                            *)
LEMMA WaitWithin ==
    ASSUME RedoneInv, NEW c \in Coordinators, NEW k \in Keys, NEW x, WaitGoesOn(c, k, x),
           \A t \in TaskIds : Exists(t) => Steady(t),
           \A t \in TaskIds : ~ Exists(t) =>
             /\ tasks'[t].outcome # "value"
             /\ tasks'[t].status \in {"pending", "running"} =>
                  /\ tasks'[t].key = k
                  /\ tasks'[t].run = run.number => Awaits(x, t, run.number),
           MayAdd(x, tasks', run.number) => MayAdd(wait[c][k], tasks, run.number),
           \/ MayAdd(wait[c][k], tasks, run.number) /\ ~ MayAdd(x, tasks', run.number)
           \/ \A t \in TaskIds : Awaits(wait[c][k], t, run.number)
                                   /\ tasks'[t].status \in {"pending", "running"}
                                 => Awaits(x, t, run.number)
    PROVE  \A j \in Keys : Within(j)'
<1>1. /\ \A j \in Keys : Done(j)' \subseteq Done(j) /\ (Undriven(j)' => Undriven(j))
      /\ \A d \in Coordinators, j \in Keys :
           ~(d = c /\ j = k) => /\ wait'[d][j] = wait[d][j]
                                /\ MayAdd(wait'[d][j], tasks', run.number)
                                     => MayAdd(wait[d][j], tasks, run.number)
      /\ wait'[c][k] = x
  BY OthersSteady
<1>2. run'.number = run.number /\ left.faults \in Nat /\ left'.faults \in Nat /\ left'.faults <= left.faults
  BY DEF RedoneInv, WaitGoesOn
<1>3. ASSUME NEW j \in Keys PROVE Adders(j)' \subseteq Adders(j)
  <2>1. ASSUME NEW d \in Coordinators, MayAdd(wait'[d][j], tasks', run.number)
        PROVE  MayAdd(wait[d][j], tasks, run.number)
    <3>1. CASE d = c /\ j = k
      BY <1>1, <2>1, <3>1
    <3>2. CASE ~(d = c /\ j = k)
      BY <1>1, <2>1, <3>2
    <3> QED
      BY <3>1, <3>2
  <2> QED
    BY <1>2, <2>1 DEF Adders
<1>4. CASE MayAdd(wait[c][k], tasks, run.number) /\ ~ MayAdd(x, tasks', run.number)
  <2>1. c \in Adders(k) /\ c \notin Adders(k)'
    BY <1>1, <1>2, <1>4 DEF Adders
  <2>2. Adders(k)' \subseteq Adders(k) \ {c}
    BY <1>3, <2>1
  <2>3. Within(k)'
    BY <1>1, <1>2, <2>1, <2>2, AdderGivesUp DEF RedoneInv
  <2>4. ASSUME NEW j \in Keys, j # k, Loose(j)' PROVE Loose(j)
    <3>1. PICK t \in TaskIds :
             /\ tasks'[t].key = j /\ tasks'[t].run = run.number
             /\ tasks'[t].status \in {"pending", "running"}
             /\ \A d \in Coordinators : ~ Awaits(wait'[d][j], t, run.number)
      BY <1>2, <2>4 DEF Loose
    <3>2. Exists(t) /\ Steady(t)
      BY <2>4, <3>1
    <3> QED
      BY <1>1, <2>4, <3>1, <3>2 DEF Steady, Loose
  <2>5. ASSUME NEW j \in Keys, j # k PROVE Within(j)'
    BY <1>1, <1>2, <1>3, <2>4, <2>5, CountsNoMore DEF RedoneInv
  <2> QED
    BY <2>3, <2>5
<1>5. CASE \A t \in TaskIds : Awaits(wait[c][k], t, run.number)
                                /\ tasks'[t].status \in {"pending", "running"}
                              => Awaits(x, t, run.number)
  <2>1. ASSUME NEW j \in Keys, Loose(j)' PROVE Loose(j)
    <3>1. PICK t \in TaskIds :
             /\ tasks'[t].key = j /\ tasks'[t].run = run.number
             /\ tasks'[t].status \in {"pending", "running"}
             /\ \A d \in Coordinators : ~ Awaits(wait'[d][j], t, run.number)
      BY <1>2, <2>1 DEF Loose
    <3>2. Exists(t) /\ Steady(t)
      BY <1>1, <3>1
    <3>3. ASSUME NEW d \in Coordinators PROVE ~ Awaits(wait[d][j], t, run.number)
      <4>1. CASE d = c /\ j = k
        BY <1>1, <1>5, <3>1, <4>1
      <4>2. CASE ~(d = c /\ j = k)
        BY <1>1, <3>1, <4>2
      <4> QED
        BY <4>1, <4>2
    <3> QED
      BY <3>1, <3>2, <3>3 DEF Steady, Loose
  <2>2. ASSUME NEW j \in Keys PROVE Within(j)'
    BY <1>1, <1>2, <1>3, <2>1, CountsNoMore DEF RedoneInv
  <2> QED
    BY <2>2
<1> QED
  BY <1>4, <1>5

(* What the rest of the invariant needs of such a step. *)
LEMMA WaitKeepsRest ==
    ASSUME RedoneInv, NEW c \in Coordinators, NEW k \in Keys, NEW x, WaitGoesOn(c, k, x),
           \A t \in TaskIds : Exists(t) => Steady(t),
           \A t \in TaskIds : ~ Exists(t) => /\ tasks'[t].status # "absent" => tasks'[t].run = x.run
                                             /\ ~ tasks'[t].consumed \/ tasks'[t].status = "absent"
    PROVE  NothingAhead' /\ OneEpochEach' /\ OpenIsActive'
<1>1. wait \in [Coordinators -> [Keys -> Wait]] /\ NothingAhead /\ OneEpochEach /\ OpenIsActive
  BY DEF RedoneInv, DispatchInv, CoordinatorsSound
<1>2. wait'[c][k] = x /\ \A d \in Coordinators, j \in Keys : ~(d = c /\ j = k) => wait'[d][j] = wait[d][j]
  BY <1>1 DEF WaitGoesOn
<1>3. \A d \in Coordinators, j \in Keys :
        /\ wait'[d][j].epoch = wait[d][j].epoch
        /\ wait'[d][j].run = wait[d][j].run
        /\ wait'[d][j].pc # "idle" => wait[d][j].pc # "idle"
  BY <1>2 DEF WaitGoesOn
<1>4. x.run <= run.number /\ run'.number = run.number
  BY <1>1 DEF NothingAhead, WaitGoesOn
<1>5. NothingAhead'
  BY <1>1, <1>3, <1>4 DEF NothingAhead, Steady, Exists
<1>6. OneEpochEach'
  BY <1>1, <1>3 DEF OneEpochEach
<1>7. OpenIsActive'
  BY <1>1 DEF OpenIsActive, Steady, Exists
<1> QED
  BY <1>5, <1>6, <1>7

(* The part of the invariant that counts. *)
Counted ==
    /\ left.faults \in Nat /\ NothingAhead /\ OneEpochEach /\ OpenIsActive
    /\ \A k \in Keys : Within(k)

(* Where a wait may go from its place.  *)
GoesOnTo(v, pc, got) ==
    \/ pc \in {"record", "expired", "settled"}
    \/ pc \in {"wait", "check", "expire"} /\ v.pc \in {"wait", "check", "expire"}
    \/ pc = "discard" /\ v.pc = "wait" /\ Settled(v.id) /\ tasks[v.id].run # v.run
    \/ pc = "take" /\ v.pc = "wait" /\ Settled(v.id) /\ tasks[v.id].run = v.run
         /\ got = tasks[v.id].outcome
    \/ pc = "again" /\ (v.pc = "discard" \/ (v.pc = "take" /\ v.got # "value"))

(* A wait goes on, and its call neither enqueues nor brings a value. *)
LEMMA MovesWithin ==
    ASSUME RedoneInv, NEW c \in Coordinators, NEW k \in Keys, NEW pc, NEW got, NEW retries,
           Moves(c, k, pc, got, retries), W(c, k).pc # "idle",
           run'.number = run.number, run'.epoch = run.epoch, run'.ended = run.ended,
           left'.faults \in Nat, left'.faults <= left.faults,
           \A t \in TaskIds : Steady(t),
           GoesOnTo(W(c, k), pc, got)
    PROVE  Counted'
<1> DEFINE v == W(c, k)
           x == [v EXCEPT !.pc = pc, !.got = got, !.retries = retries]
<1>1. v \in Wait /\ v = wait[c][k] /\ KnowsItsTask(v, k)
  BY DEF RedoneInv, DispatchInv, CoordinatorsSound, W, WaitSound
<1>2. /\ x.pc = pc /\ x.got = got /\ x.id = v.id /\ x.run = v.run /\ x.epoch = v.epoch
  BY <1>1 DEF Wait
<1>3. wait' = [wait EXCEPT ![c][k] = x] /\ v.pc # "idle" /\ GoesOnTo(v, pc, got)
  BY DEF Moves
<1> HIDE DEF x, v
<1>4. x.pc # "idle"
  BY <1>2, <1>3 DEF GoesOnTo
<1>5. WaitGoesOn(c, k, x)
  BY <1>1, <1>2, <1>3, <1>4 DEF WaitGoesOn
<1>6. OpenHasNone
  BY DEF RedoneInv, DispatchInv, ClientInv
<1>7. \A t \in TaskIds : ~ Exists(t) => tasks'[t].status = "absent" /\ tasks'[t].outcome # "value"
  BY <1>6 DEF Steady, Exists, OpenHasNone, Settled
<1>8. v.pc \in {"wait", "check", "expire"} => v.id \in TaskIds /\ Exists(v.id) /\ Steady(v.id)
  BY <1>1 DEF KnowsItsTask
<1>9. MayAdd(x, tasks', run.number) => MayAdd(v, tasks, run.number)
  <2>1. CASE pc \in {"record", "expired", "settled"}
    BY <1>2, <2>1 DEF MayAdd
  <2>2. CASE pc \in {"wait", "check", "expire"} /\ v.pc \in {"wait", "check", "expire"}
    BY <1>2, <1>8, <2>2 DEF MayAdd, Steady
  <2>3. CASE pc = "discard" /\ v.pc = "wait" /\ Settled(v.id) /\ tasks[v.id].run # v.run
    BY <1>2, <2>3 DEF MayAdd
  <2>4. CASE pc = "take" /\ v.pc = "wait" /\ Settled(v.id) /\ tasks[v.id].run = v.run
               /\ got = tasks[v.id].outcome
    BY <1>2, <2>4 DEF MayAdd
  <2>5. CASE pc = "again" /\ (v.pc = "discard" \/ (v.pc = "take" /\ v.got # "value"))
    BY <1>2, <2>5 DEF MayAdd
  <2> QED
    BY <1>3, <2>1, <2>2, <2>3, <2>4, <2>5 DEF GoesOnTo
<1>10. \/ MayAdd(v, tasks, run.number) /\ ~ MayAdd(x, tasks', run.number)
       \/ \A t \in TaskIds : Awaits(v, t, run.number) /\ tasks'[t].status \in {"pending", "running"}
                               => Awaits(x, t, run.number)
  <2>1. CASE pc \in {"record", "expired", "settled"}
    <3>1. ~ MayAdd(x, tasks', run.number)
      BY <1>2, <2>1 DEF MayAdd
    <3>2. CASE ~ MayAdd(v, tasks, run.number)
      <4>1. ASSUME NEW t \in TaskIds, Awaits(v, t, run.number)
            PROVE  tasks'[t].status \notin {"pending", "running"}
        <5>1. tasks[t].outcome = "value" /\ Exists(t) /\ Steady(t)
          BY <1>8, <3>2, <4>1 DEF MayAdd, Awaits
        <5>2. Settled(t)
          BY <1>6, <5>1 DEF OpenHasNone
        <5> QED
          BY <5>1, <5>2 DEF Steady, Settled
      <4> QED
        BY <4>1
    <3> QED
      BY <3>1, <3>2
  <2>2. CASE pc \in {"wait", "check", "expire"} /\ v.pc \in {"wait", "check", "expire"}
    BY <1>2, <2>2 DEF Awaits
  <2>3. CASE v.pc = "wait" /\ Settled(v.id)
    BY <1>8, <2>3 DEF Awaits, Steady, Settled
  <2>4. CASE v.pc \in {"discard", "take"}
    BY <2>4 DEF Awaits
  <2> QED
    BY <1>3, <2>1, <2>2, <2>3, <2>4 DEF GoesOnTo
<1>11. \A j \in Keys : Within(j)'
  BY <1>1, <1>5, <1>7, <1>9, <1>10, WaitWithin
<1>12. NothingAhead' /\ OneEpochEach' /\ OpenIsActive'
  BY <1>5, <1>7, WaitKeepsRest
<1> QED
  BY <1>11, <1>12 DEF Counted

(* runAttempt: the step's new task is awaited by the wait that enqueued it. *)
LEMMA EnqueueWithin ==
    ASSUME RedoneInv, NEW c \in Coordinators, NEW k \in Keys, EnqueueAttempt(c, k)
    PROVE  Counted'
<1> DEFINE v == W(c, k)
           id == EnqueueId(k)
           x == [v EXCEPT !.pc = "wait", !.id = id]
<1>1. v \in Wait /\ v = wait[c][k] /\ v.pc = "again" /\ wait \in [Coordinators -> [Keys -> Wait]]
  BY DEF RedoneInv, DispatchInv, CoordinatorsSound, W, EnqueueAttempt, InWait
<1>2. wait' = [wait EXCEPT ![c][k] = x] /\ run' = run /\ left' = left
  BY <1>1 DEF EnqueueAttempt
<1>3. /\ QueueTypeOK /\ OneTaskPerStep /\ OpenHasNone /\ FreshIds /\ tasks \in [TaskIds -> Task]
      /\ ntasks \in Nat
  BY DEF RedoneInv, DispatchInv, ClientInv, QueueInv, QueueTypeOK
<1>4. \/ UNCHANGED tasks
      \/ /\ id \in TaskIds /\ ~ Exists(id)
         /\ tasks' = [tasks EXCEPT ![id] = NewTask(k, v.run)]
  <2>1. CASE activeByKey[k] # 0
    BY <2>1 DEF EnqueueAttempt, queueVars
  <2>2. CASE activeByKey[k] = 0
    <3>1. id = ntasks + 1 /\ Enqueue(k, v.run)
      BY <2>2 DEF EnqueueAttempt, EnqueueId
    <3>2. id \in TaskIds
      BY <1>3, <3>1, QueueAssumption DEF Enqueue, TaskIds
    <3>3. ~ Exists(id)
      BY <1>3, <3>1, <3>2 DEF FreshIds, Exists
    <3> QED
      BY <3>1, <3>2, <3>3 DEF Enqueue
  <2> QED
    BY <2>1, <2>2
<1>5. x.pc = "wait" /\ x.id = id /\ x.run = v.run /\ x.epoch = v.epoch
  BY <1>1 DEF Wait
<1> HIDE DEF x, v, id
<1>6. WaitGoesOn(c, k, x)
  BY <1>1, <1>2, <1>5 DEF WaitGoesOn, RedoneInv
<1>7. /\ NewTask(k, v.run).key = k /\ NewTask(k, v.run).run = v.run /\ ~ NewTask(k, v.run).consumed
      /\ NewTask(k, v.run).outcome = "none"
  BY DEF NewTask
<1>8. \A t \in TaskIds : Exists(t) => Steady(t)
  BY <1>3, <1>4 DEF Steady, Exists
<1>9. \A t \in TaskIds : ~ Exists(t) =>
        \/ tasks'[t].status = "absent" /\ tasks'[t].outcome # "value"
        \/ t = id /\ tasks'[t] = NewTask(k, v.run)
  BY <1>3, <1>4 DEF Exists, OpenHasNone, Settled
<1>10. \A t \in TaskIds : ~ Exists(t) =>
         /\ tasks'[t].outcome # "value"
         /\ tasks'[t].status \in {"pending", "running"} =>
              /\ tasks'[t].key = k
              /\ tasks'[t].run = run.number => Awaits(x, t, run.number)
  BY <1>5, <1>7, <1>9 DEF Awaits
<1>11. MayAdd(x, tasks', run.number) => MayAdd(wait[c][k], tasks, run.number)
  BY <1>1, <1>5 DEF MayAdd
<1>12. \A t \in TaskIds : ~ Awaits(wait[c][k], t, run.number)
  BY <1>1 DEF Awaits
<1>13. \A j \in Keys : Within(j)'
  BY <1>6, <1>8, <1>10, <1>11, <1>12, WaitWithin
<1>14. NothingAhead' /\ OneEpochEach' /\ OpenIsActive'
  BY <1>5, <1>6, <1>7, <1>8, <1>9, WaitKeepsRest
<1> QED
  BY <1>2, <1>13, <1>14 DEF Counted, RedoneInv

(* The other steps of a wait. *)
LEMMA WaitingWithin ==
    ASSUME RedoneInv, NEW c \in Coordinators, NEW k \in Keys, Waiting(c, k)
    PROVE  Counted'
<1> DEFINE v == W(c, k)
<1>1. /\ v \in Wait /\ v = wait[c][k] /\ KnowsItsTask(v, k) /\ wait \in [Coordinators -> [Keys -> Wait]]
      /\ QueueTypeOK /\ OpenHasNone /\ left.faults \in Nat /\ run \in RunType
  BY DEF RedoneInv, DispatchInv, CoordinatorsSound, W, WaitSound, ClientInv, QueueInv
<1>2. v.pc \in {"wait", "check", "discard", "take", "expire", "expired"} => v.id \in TaskIds
  BY <1>1 DEF KnowsItsTask
<1>3. ASSUME NEW pc, NEW got, wait' = [wait EXCEPT ![c][k].pc = pc, ![c][k].got = got]
      PROVE  Moves(c, k, pc, got, v.retries)
  BY <1>1, <1>3 DEF Wait, Moves
<1>4. ASSUME NEW pc, wait' = [wait EXCEPT ![c][k].pc = pc]
      PROVE  Moves(c, k, pc, v.got, v.retries)
  BY <1>1, <1>4 DEF Wait, Moves
<1>5. ASSUME UNCHANGED queueVars PROVE \A t \in TaskIds : Steady(t)
  BY <1>1, <1>5, SteadyCalls
<1>6. ASSUME v.id \in TaskIds, ConsumeOrNot(v.id) PROVE \A t \in TaskIds : Steady(t)
  BY <1>1, <1>6, SteadyCalls DEF ConsumeOrNot
<1>7. CASE EnqueueAttempt(c, k)
  BY <1>7, EnqueueWithin
<1>8. CASE Poll(c, k)
  <2> DEFINE pc == IF ~ Settled(v.id) THEN "check" ELSE IF IsLeftover(c, k) THEN "discard" ELSE "take"
             got == tasks[v.id].outcome
  <2>1. /\ v.pc = "wait" /\ UNCHANGED queueVars /\ run' = run /\ left' = left
        /\ wait' = [wait EXCEPT ![c][k].pc = pc, ![c][k].got = got]
    BY <1>8 DEF Poll, InWait
  <2>2. GoesOnTo(v, pc, got)
    BY <2>1 DEF GoesOnTo, IsLeftover
  <2> HIDE DEF pc, got
  <2>3. Moves(c, k, pc, got, v.retries)
    BY <1>3, <2>1
  <2> QED
    BY <1>1, <1>5, <2>1, <2>2, <2>3, MovesWithin
<1>9. CASE Discard(c, k)
  <2>1. /\ v.pc = "discard" /\ ConsumeOrNot(v.id) /\ run' = run /\ left' = left
        /\ wait' = [wait EXCEPT ![c][k].pc = "again"]
    BY <1>9 DEF Discard, InWait, To
  <2>2. GoesOnTo(v, "again", v.got) /\ Moves(c, k, "again", v.got, v.retries)
    BY <1>4, <2>1 DEF GoesOnTo
  <2> QED
    BY <1>1, <1>2, <1>6, <2>1, <2>2, MovesWithin
<1>10. CASE Take(c, k)
  <2>1. /\ v.pc = "take" /\ ConsumeOrNot(v.id) /\ run' = run /\ left' = left
        /\ wait' = [wait EXCEPT ![c][k] = AfterTake(v)]
    BY <1>1, <1>10 DEF Take, InWait
  <2>2. CASE v.got = "typed" /\ v.retries > 0
    <3> DEFINE n == v.retries - 1
    <3>1. AfterTake(v) = [v EXCEPT !.pc = "again", !.got = v.got, !.retries = n]
      BY <1>1, <2>2 DEF AfterTake, Wait
    <3> HIDE DEF n
    <3>2. Moves(c, k, "again", v.got, n) /\ GoesOnTo(v, "again", v.got)
      BY <2>1, <2>2, <3>1 DEF Moves, GoesOnTo
    <3> QED
      BY <1>1, <1>2, <1>6, <2>1, <3>2, MovesWithin
  <2>3. CASE ~(v.got = "typed" /\ v.retries > 0)
    <3>1. AfterTake(v) = [v EXCEPT !.pc = "record", !.got = v.got, !.retries = v.retries]
      BY <1>1, <2>3 DEF AfterTake, Wait
    <3>2. Moves(c, k, "record", v.got, v.retries) /\ GoesOnTo(v, "record", v.got)
      BY <2>1, <3>1 DEF Moves, GoesOnTo
    <3> QED
      BY <1>1, <1>2, <1>6, <2>1, <3>2, MovesWithin
  <2> QED
    BY <2>2, <2>3
<1>11. CASE CheckRun(c, k)
  <2>1. v.pc = "check" /\ UNCHANGED queueVars /\ run' = run
    BY <1>11 DEF CheckRun, InWait
  <2>2. left'.faults \in Nat /\ left'.faults <= left.faults
    <3>1. CASE left' = left
      BY <1>1, <3>1
    <3>2. CASE Fault
      <4>1. (left'.faults = left.faults - 1 /\ left.faults > 0) \/ left' = left
        BY <3>2 DEF Fault
      <4> QED
        BY <1>1, <4>1
    <3> QED
      BY <1>11, <3>1, <3>2 DEF CheckRun
  <2>3. CASE wait' = [wait EXCEPT ![c][k].pc = "record", ![c][k].got = "gaveup"]
    <3>1. Moves(c, k, "record", "gaveup", v.retries) /\ GoesOnTo(v, "record", "gaveup")
      BY <1>3, <2>3 DEF GoesOnTo
    <3> QED
      BY <1>5, <2>1, <2>2, <3>1, MovesWithin
  <2>4. CASE wait' = [wait EXCEPT ![c][k].pc = "wait"]
    <3>1. Moves(c, k, "wait", v.got, v.retries) /\ GoesOnTo(v, "wait", v.got)
      BY <1>4, <2>1, <2>4 DEF GoesOnTo
    <3> QED
      BY <1>5, <2>1, <2>2, <3>1, MovesWithin
  <2>5. CASE wait' = [wait EXCEPT ![c][k].pc = "expire"]
    <3>1. Moves(c, k, "expire", v.got, v.retries) /\ GoesOnTo(v, "expire", v.got)
      BY <1>4, <2>1, <2>5 DEF GoesOnTo
    <3> QED
      BY <1>5, <2>1, <2>2, <3>1, MovesWithin
  <2> QED
    BY <1>11, <2>3, <2>4, <2>5 DEF CheckRun, To
<1>12. CASE Expire(c, k)
  <2> DEFINE pc == IF tasks[v.id].status = "running" THEN "expired" ELSE "record"
  <2>1. /\ v.pc = "expire" /\ run' = run /\ left' = left
        /\ wait' = [wait EXCEPT ![c][k].pc = pc, ![c][k].got = "gaveup"]
    BY <1>12 DEF Expire, InWait
  <2>2. \A t \in TaskIds : Steady(t)
    BY <1>1, <1>2, <1>5, <1>12, <2>1, SteadyCalls DEF Expire
  <2>3. GoesOnTo(v, pc, "gaveup")
    BY DEF GoesOnTo
  <2> HIDE DEF pc
  <2>4. Moves(c, k, pc, "gaveup", v.retries)
    BY <1>3, <2>1
  <2> QED
    BY <1>1, <2>1, <2>2, <2>3, <2>4, MovesWithin
<1>13. CASE ExpireConsume(c, k)
  <2>1. /\ v.pc = "expired" /\ ConsumeOrNot(v.id) /\ run' = run /\ left' = left
        /\ wait' = [wait EXCEPT ![c][k].pc = "record"]
    BY <1>13 DEF ExpireConsume, InWait, To
  <2>2. GoesOnTo(v, "record", v.got) /\ Moves(c, k, "record", v.got, v.retries)
    BY <1>4, <2>1 DEF GoesOnTo
  <2> QED
    BY <1>1, <1>2, <1>6, <2>1, <2>2, MovesWithin
<1>14. CASE Record(c, k)
  <2>1. /\ v.pc = "record" /\ UNCHANGED queueVars /\ left' = left
        /\ wait' = [wait EXCEPT ![c][k].pc = "settled"]
    BY <1>14 DEF Record, InWait, To
  <2>2. run'.number = run.number /\ run'.epoch = run.epoch /\ run'.ended = run.ended
    BY <1>1, <1>14 DEF Record, RunType
  <2>3. GoesOnTo(v, "settled", v.got) /\ Moves(c, k, "settled", v.got, v.retries)
    BY <1>4, <2>1 DEF GoesOnTo
  <2> QED
    BY <1>1, <1>5, <2>1, <2>2, <2>3, MovesWithin
<1> QED
  BY <1>7, <1>8, <1>9, <1>10, <1>11, <1>12, <1>13, <1>14 DEF Waiting

(* The steps of workers, sweeps and the clock, but for a value. *)
LEMMA QuietWithin ==
    ASSUME RedoneInv, \A t \in TaskIds : Steady(t), wait' = wait, run' = run,
           left'.faults = left.faults
    PROVE  Counted'
<1>1. left.faults \in Nat /\ NothingAhead /\ OneEpochEach /\ OpenIsActive /\ OpenHasNone
  BY DEF RedoneInv, DispatchInv, ClientInv
<1>2. \A c \in Coordinators, k \in Keys : KnowsItsTask(wait[c][k], k)
  BY DEF RedoneInv, DispatchInv, CoordinatorsSound, WaitSound
<1>3. ASSUME NEW k \in Keys PROVE Within(k)'
  <2>1. Done(k)' \subseteq Done(k)
    BY <1>1 DEF Done, Steady, Exists, OpenHasNone, Settled
  <2>2. Adders(k)' \subseteq Adders(k)
    <3>1. ASSUME NEW c \in Coordinators, MayAdd(wait[c][k], tasks', run.number)
          PROVE  MayAdd(wait[c][k], tasks, run.number)
      BY <1>2, <3>1 DEF KnowsItsTask, MayAdd, Steady
    <3> QED
      BY <3>1 DEF Adders
  <2>3. Loose(k)' => Loose(k)
    BY DEF Loose, Steady, Exists
  <2>4. Undriven(k)' => Undriven(k)
    BY DEF Undriven
  <2> QED
    BY <1>1, <2>1, <2>2, <2>3, <2>4, CountsNoMore DEF RedoneInv
<1>4. NothingAhead'
  BY <1>1 DEF NothingAhead, Steady, Exists
<1>5. OneEpochEach'
  BY <1>1 DEF OneEpochEach
<1>6. OpenIsActive'
  BY <1>1 DEF OpenIsActive, Steady, Exists
<1> QED
  BY <1>1, <1>3, <1>4, <1>5, <1>6 DEF Counted

(* complete: the value was expected, by a wait or of a task left alone. *)
LEMMA CompleteWithin ==
    ASSUME RedoneInv, NEW t \in TaskIds, NEW token, Complete(t, token), wait' = wait, run' = run,
           left'.faults = left.faults
    PROVE  Counted'
<1> DEFINE new == [tasks[t] EXCEPT !.status = "completed", !.outcome = "value", !.claimed = "none",
                                   !.beat = "none"]
<1>1. /\ left.faults \in Nat /\ NothingAhead /\ OneEpochEach /\ OpenIsActive /\ OpenHasNone
      /\ tasks \in [TaskIds -> Task] /\ OneTaskPerStep
  BY DEF RedoneInv, DispatchInv, ClientInv, QueueInv, QueueTypeOK
<1>2. /\ tasks[t].status = "running" /\ tasks[t].outcome = "none" /\ tasks[t] \in Task
      /\ tasks' = [tasks EXCEPT ![t] = new]
  BY <1>1 DEF Complete, IsCurrentClaim, SettleAs, OpenHasNone, Settled
<1>3. /\ new.status = "completed" /\ new.outcome = "value" /\ new.key = tasks[t].key
      /\ new.run = tasks[t].run /\ new.consumed = tasks[t].consumed
  BY <1>2 DEF Task
<1> HIDE DEF new
<1>4. tasks'[t] = new /\ \A u \in TaskIds : u # t => tasks'[u] = tasks[u]
  BY <1>1, <1>2
<1>5. \A c \in Coordinators, k \in Keys : KnowsItsTask(wait[c][k], k)
  BY DEF RedoneInv, DispatchInv, CoordinatorsSound, WaitSound
<1>6. ASSUME NEW k \in Keys
      PROVE  /\ Adders(k)' \subseteq Adders(k)
             /\ Loose(k)' => Loose(k)
             /\ Undriven(k)' => Undriven(k)
             /\ Done(k)' \subseteq Done(k) \cup {t}
             /\ tasks[t].key # k \/ tasks[t].run # run.number => Done(k)' \subseteq Done(k)
  <2>1. ASSUME NEW c \in Coordinators, MayAdd(wait[c][k], tasks', run.number)
        PROVE  MayAdd(wait[c][k], tasks, run.number)
    <3>1. PICK x : x = wait[c][k]
      OBVIOUS
    <3>2. x.pc \in {"wait", "check", "expire"} => x.id \in TaskIds
      BY <1>5, <3>1 DEF KnowsItsTask
    <3>3. MayAdd(x, tasks', run.number)
      BY <2>1, <3>1
    <3>4. MayAdd(x, tasks, run.number)
      BY <1>2, <1>3, <1>4, <3>2, <3>3 DEF MayAdd
    <3> QED
      BY <3>1, <3>4
  <2>2. Adders(k)' \subseteq Adders(k)
    BY <2>1 DEF Adders
  <2>3. Loose(k)' => Loose(k)
    BY <1>3, <1>4 DEF Loose
  <2>4. Undriven(k)' => Undriven(k)
    BY DEF Undriven
  <2>5. Done(k)' \subseteq Done(k) \cup {t}
    BY <1>4 DEF Done
  <2>6. tasks[t].key # k \/ tasks[t].run # run.number => Done(k)' \subseteq Done(k)
    BY <1>3, <1>4 DEF Done
  <2> QED
    BY <2>2, <2>3, <2>4, <2>5, <2>6
<1>7. ASSUME NEW k \in Keys, tasks[t].key # k \/ tasks[t].run # run.number PROVE Within(k)'
  BY <1>1, <1>6, <1>7, CountsNoMore DEF RedoneInv
<1>8. ASSUME NEW k \in Keys, tasks[t].key = k, tasks[t].run = run.number PROVE Within(k)'
  <2>1. Cardinality(Done(k)') <= Cardinality(Done(k)) + 1
    <3>1. IsFiniteSet(Done(k) \cup {t}) /\ Cardinality(Done(k) \cup {t}) <= Cardinality(Done(k)) + 1
      <4>1. IsFiniteSet(Done(k)) /\ Cardinality(Done(k)) \in Nat
        BY CountsAreNumbers
      <4>2. /\ IsFiniteSet(Done(k) \cup {t})
            /\ Cardinality(Done(k) \cup {t}) \in {Cardinality(Done(k)), Cardinality(Done(k)) + 1}
        BY <4>1, FS_AddElement
      <4> QED
        BY <4>1, <4>2
    <3>2. Cardinality(Done(k)') <= Cardinality(Done(k) \cup {t}) /\ Cardinality(Done(k) \cup {t}) \in Nat
      BY <1>6, <3>1, FS_Subset, FS_CardinalityType
    <3> QED
      BY <3>1, <3>2, CountsAreNumbers
  <2>2. Cardinality(Adders(k)') <= Cardinality(Adders(k))
    BY <1>6, CountsAreNumbers, FS_Subset
  <2>3. Bit(Loose(k)') <= Bit(Loose(k)) /\ Bit(Undriven(k)') <= Bit(Undriven(k))
    BY <1>6 DEF Bit
  <2>4. /\ Cardinality(Done(k)) \in Nat /\ Cardinality(Done(k)') \in Nat
        /\ Cardinality(Adders(k)) \in Nat /\ Cardinality(Adders(k)') \in Nat
        /\ Bit(Loose(k)) \in {0, 1} /\ Bit(Loose(k)') \in {0, 1}
        /\ Bit(Undriven(k)) \in Nat /\ Bit(Undriven(k)') \in Nat
    BY CountsAreNumbers
  <2>5. CASE \E c \in Coordinators : Awaits(wait[c][k], t, run.number)
    <3>1. PICK c \in Coordinators : Awaits(wait[c][k], t, run.number)
      BY <2>5
    <3>2. MayAdd(wait[c][k], tasks, run.number) /\ ~ MayAdd(wait[c][k], tasks', run.number)
      BY <1>2, <1>3, <1>4, <1>8, <3>1 DEF Awaits, MayAdd
    <3>3. c \in Adders(k) /\ Adders(k)' \subseteq Adders(k) \ {c}
      BY <1>6, <3>2 DEF Adders
    <3>4. Cardinality(Adders(k)') + 1 <= Cardinality(Adders(k))
      BY <3>3, OneAdderLess
    <3> QED
      BY <1>1, <2>1, <2>3, <2>4, <3>4, DispatchAssumption DEF Within, RedoneInv
  <2>6. CASE \A c \in Coordinators : ~ Awaits(wait[c][k], t, run.number)
    <3>1. Loose(k)
      BY <1>2, <1>8, <2>6 DEF Loose
    <3>2. ~ Loose(k)'
      <4>1. ASSUME NEW u \in TaskIds, tasks'[u].key = k, tasks'[u].status \in {"pending", "running"}
            PROVE  FALSE
        <5>1. u # t /\ tasks[u].key = k /\ tasks[u].status \in {"pending", "running"}
          BY <1>3, <1>4, <4>1
        <5>2. Active(u) /\ Active(t)
          BY <1>1, <1>2, <5>1 DEF Active, Exists, OpenIsActive
        <5> QED
          BY <1>1, <1>8, <5>1, <5>2 DEF OneTaskPerStep
      <4> QED
        BY <4>1 DEF Loose
    <3>3. Bit(Loose(k)) = 1 /\ Bit(Loose(k)') = 0
      BY <3>1, <3>2 DEF Bit
    <3> QED
      BY <1>1, <2>1, <2>2, <2>3, <2>4, <3>3, DispatchAssumption DEF Within, RedoneInv
  <2> QED
    BY <2>5, <2>6
<1>9. NothingAhead'
  BY <1>1, <1>2, <1>3, <1>4 DEF NothingAhead, Exists
<1>10. OneEpochEach'
  BY <1>1 DEF OneEpochEach
<1>11. OpenIsActive'
  BY <1>1, <1>3, <1>4 DEF OpenIsActive
<1> QED
  BY <1>1, <1>7, <1>8, <1>9, <1>10, <1>11 DEF Counted

(* The facts a step of a whole coordinator starts from. *)
LEMMA CountedParts ==
    ASSUME RedoneInv
    PROVE  /\ left.faults \in Nat /\ NothingAhead /\ OneEpochEach /\ OpenIsActive /\ OpenHasNone
           /\ wait \in [Coordinators -> [Keys -> Wait]] /\ run \in RunType
           /\ \A k \in Keys : Within(k)
BY DEF RedoneInv, DispatchInv, ClientInv, CoordinatorsSound

(* A fault spends one of what is left. *)
LEMMA FaultSpends ==
    ASSUME LeftTyped, Fault
    PROVE  LeftTyped' /\ left'.faults \in Nat /\ left'.faults + 1 = left.faults
<1>1. left.faults \in Nat /\ left.stops \in Nat
  BY DEF LeftTyped
<1>2. left.faults > 0 /\ left' = [left EXCEPT !.faults = left.faults - 1]
  BY DEF Fault, LeftTyped
<1>3. left.faults - 1 \in Nat
  BY <1>1, <1>2
<1>4. left'.faults = left.faults - 1
  BY <1>2 DEF LeftTyped
<1>5. left' \in [faults : Nat, stops : Nat]
  BY <1>2, <1>3 DEF LeftTyped
<1>6. left'.faults <= MaxFaults
  BY <1>1, <1>4, DispatchAssumption DEF LeftTyped
<1> QED
  BY <1>1, <1>3, <1>4, <1>5, <1>6 DEF LeftTyped

(* What is left of the bounds are numbers. *)
LEMMA LeftStep ==
    ASSUME LeftTyped, [Next]_vars
    PROVE  LeftTyped'
<1>1. CASE left' = left
  BY <1>1 DEF LeftTyped
<1>2. CASE Fault
  BY <1>2, FaultSpends
<1>3. ASSUME NEW w \in Workers, Stop(w) PROVE LeftTyped'
  <2>1. left.stops \in Nat /\ left.stops > 0 /\ left' = [left EXCEPT !.stops = left.stops - 1]
    BY <1>3 DEF Stop, LeftTyped
  <2>2. left.stops - 1 \in Nat
    BY <2>1
  <2> QED
    BY <2>1, <2>2 DEF LeftTyped
<1>4. ASSUME NEW c \in Coordinators, NEW k \in Keys, Waiting(c, k) PROVE left' = left \/ Fault
  BY <1>4 DEF Waiting, EnqueueAttempt, Poll, Discard, Take, CheckRun, Expire, ExpireConsume, Record
<1>5. ASSUME NEW c \in Coordinators, TakeRun(c) \/ EndWave(c) \/ CoordinatorCrash(c)
      PROVE left' = left \/ Fault
  BY <1>5 DEF TakeRun, EndWave, CoordinatorCrash
<1>6. CASE StaleSweep \/ Cancel \/ UNCHANGED vars \/ \E t \in TaskIds : TimePasses(t)
  BY <1>1, <1>2, <1>6 DEF StaleSweep, Cancel, vars, TimePasses
<1>7. ASSUME NEW w \in Workers,
             ClaimOnce(w) \/ WorkerCrash(w) \/ StopDone(w) \/ ReleaseUnfinished(w) \/ DeadWorkerSweep(w)
      PROVE left' = left
  BY <1>7 DEF ClaimOnce, WorkerCrash, StopDone, ReleaseUnfinished, DeadWorkerSweep
<1>8. ASSUME NEW x \in execs,
             ComputeOutcome(x) \/ Commit(x) \/ AbortedReturns(x) \/ HeartbeatTask(x)
      PROVE left' = left
  BY <1>8 DEF ComputeOutcome, Commit, AbortedReturns, HeartbeatTask
<1> QED
  BY <1>1, <1>2, <1>3, <1>4, <1>5, <1>6, <1>7, <1>8 DEF Next, Work

(* A coordinator's waits are all replaced. *)
LEMMA AllWaits ==
    ASSUME RedoneInv, NEW c \in Coordinators, NEW f \in [Keys -> Wait], wait' = [wait EXCEPT ![c] = f]
    PROVE  /\ \A k \in Keys : wait'[c][k] = f[k]
           /\ \A d \in Coordinators : d # c => wait'[d] = wait[d]
BY CountedParts

(* cancelWorkflow. *)
LEMMA CancelWithin ==
    ASSUME RedoneInv, Cancel
    PROVE  Counted'
<1>1. /\ UNCHANGED queueVars /\ wait' = wait /\ run' = [run EXCEPT !.ended = TRUE] /\ tasks' = tasks
  BY DEF Cancel, queueVars
<1>2. run'.number = run.number /\ run'.epoch = run.epoch /\ run'.ended
  BY <1>1, CountedParts DEF RunType
<1>3. left'.faults \in Nat /\ left'.faults + 1 = left.faults /\ left.faults \in Nat
  BY FaultSpends, CountedParts DEF Cancel, RedoneInv
<1>4. ASSUME NEW k \in Keys PROVE Within(k)'
  <2>1. Done(k)' \subseteq Done(k) /\ Adders(k)' \subseteq Adders(k)
    BY <1>1, <1>2 DEF Done, Adders
  <2>2. (Loose(k)' => Loose(k)) /\ ~ Undriven(k)'
    BY <1>1, <1>2 DEF Loose, Undriven
  <2> QED
    BY <1>3, <2>1, <2>2, CountsNoMore DEF RedoneInv
<1>5. NothingAhead' /\ OneEpochEach' /\ OpenIsActive'
  BY <1>1, <1>2, CountedParts DEF NothingAhead, OneEpochEach, OpenIsActive, Exists
<1> QED
  BY <1>3, <1>4, <1>5 DEF Counted

(* The waits of coordinator c are over: the wave ended or its process. *)
LEMMA NoWaitsLeft ==
    ASSUME RedoneInv, NEW c \in Coordinators, wait' = [wait EXCEPT ![c] = [k \in Keys |-> NoWait]],
           UNCHANGED queueVars, run'.number = run.number, run'.epoch = run.epoch
    PROVE  /\ NothingAhead' /\ OneEpochEach' /\ OpenIsActive'
           /\ \A k \in Keys : Done(k)' \subseteq Done(k) /\ Adders(k)' \subseteq Adders(k) \ {c}
           /\ \A k \in Keys : wait'[c][k].pc = "idle"
           /\ \A d \in Coordinators : d # c => wait'[d] = wait[d]
<1>1. [k \in Keys |-> NoWait] \in [Keys -> Wait]
  BY NoWaitSound
<1>2. /\ \A k \in Keys : wait'[c][k] = NoWait
      /\ \A d \in Coordinators : d # c => wait'[d] = wait[d]
  <2> DEFINE f == [k \in Keys |-> NoWait]
  <2>1. f \in [Keys -> Wait] /\ wait' = [wait EXCEPT ![c] = f] /\ \A k \in Keys : f[k] = NoWait
    BY <1>1
  <2> HIDE DEF f
  <2> QED
    BY <2>1, AllWaits
<1>3. NoWait.pc = "idle" /\ NoWait.epoch = 0 /\ tasks' = tasks
  BY DEF NoWait, queueVars
<1>4. NothingAhead' /\ OpenIsActive'
  BY <1>2, <1>3, CountedParts DEF NothingAhead, OpenIsActive, Exists
<1>5. OneEpochEach'
  BY <1>2, <1>3, CountedParts DEF OneEpochEach
<1>6. ASSUME NEW k \in Keys PROVE Done(k)' \subseteq Done(k)
  BY <1>3 DEF Done
<1>7. ASSUME NEW k \in Keys PROVE Adders(k)' \subseteq Adders(k) \ {c}
  <2>1. ~ MayAdd(wait'[c][k], tasks', run'.number)
    BY <1>2, <1>3 DEF MayAdd
  <2>2. \A d \in Coordinators : d # c => wait'[d][k] = wait[d][k]
    BY <1>2
  <2> QED
    BY <1>3, <2>1, <2>2 DEF Adders
<1> QED
  BY <1>2, <1>3, <1>4, <1>5, <1>6, <1>7

(* The wave of a coordinator ends: what it leaves open was open before. *)
LEMMA EndWithin ==
    ASSUME RedoneInv, NEW c \in Coordinators, EndWave(c)
    PROVE  Counted'
<1> DEFINE all == \A k \in Keys : W(c, k).epoch = run.epoch
<1>1. /\ wait' = [wait EXCEPT ![c] = [k \in Keys |-> NoWait]] /\ UNCHANGED queueVars /\ left' = left
      /\ run' = [run EXCEPT !.ended = run.ended \/ all] /\ tasks' = tasks
      /\ \A k \in Keys : wait[c][k].pc = "settled"
  BY DEF EndWave, InWait, W, queueVars
<1>2. run'.number = run.number /\ run'.epoch = run.epoch /\ run'.ended = (run.ended \/ all)
  <2> HIDE DEF all
  <2> QED
    BY <1>1, CountedParts DEF RunType
<1>3. /\ NothingAhead' /\ OneEpochEach' /\ OpenIsActive'
      /\ \A k \in Keys : Done(k)' \subseteq Done(k) /\ Adders(k)' \subseteq Adders(k) \ {c}
      /\ \A d \in Coordinators : d # c => wait'[d] = wait[d]
  BY <1>1, <1>2, NoWaitsLeft
<1>4. ASSUME NEW k \in Keys PROVE Within(k)'
  <2>1. Loose(k)' => Loose(k)
    <3>1. \A t : ~ Awaits(wait[c][k], t, run.number)
      BY <1>1 DEF Awaits
    <3> QED
      BY <1>1, <1>2, <1>3, <3>1 DEF Loose
  <2>2. Undriven(k)' => Undriven(k)
    <3>1. SUFFICES ASSUME Undriven(k)' PROVE Undriven(k)
      OBVIOUS
    <3>2. ~ run.ended /\ ~ all
      BY <1>2, <3>1 DEF Undriven
    <3>3. wait[c][k].epoch # run.epoch
      BY <3>2, CountedParts DEF OneEpochEach, W
    <3> QED
      BY <1>2, <1>3, <3>1, <3>2, <3>3 DEF Undriven
  <2>3. Done(k)' \subseteq Done(k) /\ Adders(k)' \subseteq Adders(k)
    BY <1>3
  <2> QED
    BY <1>1, <2>1, <2>2, <2>3, CountsNoMore, CountedParts
<1> QED
  BY <1>1, <1>3, <1>4, CountedParts DEF Counted

(* A coordinator dies: it may leave a task and a run to be driven, of which *)
(* its wait for the task covers the one and the fault the other.           *)
LEMMA CrashWithin ==
    ASSUME RedoneInv, NEW c \in Coordinators, CoordinatorCrash(c)
    PROVE  Counted'
<1>1. /\ wait' = [wait EXCEPT ![c] = [k \in Keys |-> NoWait]] /\ UNCHANGED queueVars /\ Fault
      /\ run' = run /\ tasks' = tasks
  BY DEF CoordinatorCrash, queueVars
<1>2. left'.faults \in Nat /\ left'.faults + 1 = left.faults /\ left.faults \in Nat
  BY <1>1, FaultSpends, CountedParts DEF RedoneInv
<1>3. /\ NothingAhead' /\ OneEpochEach' /\ OpenIsActive'
      /\ \A k \in Keys : Done(k)' \subseteq Done(k) /\ Adders(k)' \subseteq Adders(k) \ {c}
      /\ \A d \in Coordinators : d # c => wait'[d] = wait[d]
  BY <1>1, NoWaitsLeft
<1>4. ASSUME NEW k \in Keys PROVE Within(k)'
  <2>1. Cardinality(Done(k)') <= Cardinality(Done(k)) /\ Cardinality(Adders(k)') <= Cardinality(Adders(k))
    <3>1. Done(k)' \subseteq Done(k) /\ Adders(k)' \subseteq Adders(k)
      BY <1>3
    <3> QED
      BY <3>1, CountsAreNumbers, FS_Subset
  <2>2. Cardinality(Adders(k)') + Bit(Loose(k)') <= Cardinality(Adders(k)) + Bit(Loose(k))
    <3>1. CASE c \in Adders(k)
      <4>1. Cardinality(Adders(k)') + 1 <= Cardinality(Adders(k))
        BY <1>3, <3>1, OneAdderLess
      <4> QED
        BY <4>1, CountsAreNumbers
    <3>2. CASE c \notin Adders(k)
      <4>1. ASSUME NEW t \in TaskIds, tasks[t].status \in {"pending", "running"}
            PROVE  ~ Awaits(wait[c][k], t, run.number)
        <5>1. tasks[t].outcome = "none"
          BY <4>1, CountedParts DEF OpenHasNone, Settled
        <5> QED
          BY <3>2, <5>1 DEF Awaits, Adders, MayAdd
      <4>2. Loose(k)' => Loose(k)
        BY <1>1, <1>3, <4>1 DEF Loose
      <4>3. Bit(Loose(k)') <= Bit(Loose(k))
        BY <4>2 DEF Bit
      <4> QED
        BY <2>1, <4>3, CountsAreNumbers
    <3> QED
      BY <3>1, <3>2
  <2>3. /\ Cardinality(Done(k)) \in Nat /\ Cardinality(Done(k)') \in Nat
        /\ Cardinality(Adders(k)) \in Nat /\ Cardinality(Adders(k)') \in Nat
        /\ Bit(Loose(k)) \in Nat /\ Bit(Loose(k)') \in Nat
        /\ Bit(Undriven(k)) \in Nat /\ Bit(Undriven(k)') \in {0, 1}
    BY CountsAreNumbers
  <2>4. Within(k)
    BY CountedParts
  <2> QED
    BY <1>2, <2>1, <2>2, <2>3, <2>4, DispatchAssumption DEF Within
<1> QED
  BY <1>2, <1>3, <1>4 DEF Counted

(* The fields of a run that is taken, and of the waits of its driver. *)
LEMMA TakenRun ==
    ASSUME RedoneInv, NEW c \in Coordinators, TakeRun(c)
    PROVE  /\ run.number \in Nat /\ run.epoch \in Nat
           /\ run'.epoch = run.epoch + 1 /\ ~ run'.ended
           /\ run'.number = IF run.ended THEN run.number + 1 ELSE run.number
           /\ \A k \in Keys : /\ wait'[c][k].pc \in {"again", "settled"}
                              /\ wait'[c][k].run = run'.number /\ wait'[c][k].epoch = run'.epoch
           /\ \A d \in Coordinators : d # c => wait'[d] = wait[d]
<1> DEFINE pc(k) == IF run'.row[k] = "completed" THEN "settled" ELSE "again"
           new(k) == [NoWait EXCEPT !.pc = pc(k), !.run = run'.number, !.epoch = run'.epoch,
                                    !.retries = StepRetries]
<1>1. /\ run' = IF run.ended
                  THEN [number |-> run.number + 1, ended |-> FALSE, epoch |-> run.epoch + 1,
                        row |-> NoRows]
                  ELSE [run EXCEPT !.epoch = @ + 1]
      /\ wait' = [wait EXCEPT ![c] = [k \in Keys |-> new(k)]]
  BY DEF TakeRun
<1>2. run \in RunType /\ wait \in [Coordinators -> [Keys -> Wait]]
  BY CountedParts
<1>3. /\ run.number \in Nat /\ run.epoch \in Nat /\ run'.epoch = run.epoch + 1 /\ ~ run'.ended
      /\ run'.number = IF run.ended THEN run.number + 1 ELSE run.number
  BY <1>1, <1>2 DEF RunType
<1>4. \A k \in Keys : /\ new(k).pc \in {"again", "settled"}
                      /\ new(k).run = run'.number /\ new(k).epoch = run'.epoch
  <2> TAKE k \in Keys
  <2>1. pc(k) \in {"again", "settled"}
    OBVIOUS
  <2> HIDE DEF pc
  <2> QED
    BY <2>1 DEF NoWait
<1> HIDE DEF new
<1>5. /\ \A k \in Keys : wait'[c][k] = new(k)
      /\ \A d \in Coordinators : d # c => wait'[d] = wait[d]
  BY <1>1, <1>2
<1> QED
  BY <1>3, <1>4, <1>5

(* A run is taken: afresh, nothing is counted yet but its driver; or of     *)
(* nobody, and the driver that was to come is there; or of a stalled        *)
(* driver, and the fault allows for one more.                              *)
LEMMA TakeRunWithin ==
    ASSUME RedoneInv, NEW c \in Coordinators, TakeRun(c)
    PROVE  Counted'
<1>1. tasks' = tasks /\ Quiet(c) /\ (IF \A d \in Coordinators : Quiet(d) THEN left' = left ELSE Fault)
  BY DEF TakeRun, queueVars
<1>2. /\ left.faults \in Nat /\ left'.faults \in Nat /\ left.faults <= MaxFaults
      /\ \/ left'.faults = left.faults /\ \A d \in Coordinators : Quiet(d)
         \/ left'.faults + 1 = left.faults
  BY <1>1, FaultSpends, CountedParts DEF RedoneInv, LeftTyped
<1>3. /\ run.number \in Nat /\ run.epoch \in Nat
      /\ run'.epoch = run.epoch + 1 /\ ~ run'.ended
      /\ run'.number = IF run.ended THEN run.number + 1 ELSE run.number
      /\ \A k \in Keys : /\ wait'[c][k].pc \in {"again", "settled"}
                         /\ wait'[c][k].run = run'.number /\ wait'[c][k].epoch = run'.epoch
      /\ \A d \in Coordinators : d # c => wait'[d] = wait[d]
  BY TakenRun
<1>4. /\ \A t \in TaskIds : tasks[t].run \in Nat
      /\ \A d \in Coordinators, k \in Keys : wait[d][k].run \in Nat
  <2>1. tasks \in [TaskIds -> Task] /\ Runs \subseteq Nat
    BY QueueAssumption DEF RedoneInv, DispatchInv, ClientInv, QueueInv, QueueTypeOK
  <2>2. \A t \in TaskIds : tasks[t].run \in Nat
    BY <2>1 DEF Task
  <2>3. \A d \in Coordinators, k \in Keys : wait[d][k] \in Wait
    BY CountedParts
  <2> QED
    BY <2>2, <2>3 DEF Wait
<1>5. NothingAhead'
  BY <1>1, <1>3, <1>4, CountedParts DEF NothingAhead, Exists
<1>6. OneEpochEach'
  BY <1>3, CountedParts DEF OneEpochEach
<1>7. OpenIsActive'
  BY <1>1, CountedParts DEF OpenIsActive
<1>8. ASSUME NEW k \in Keys PROVE Within(k)'
  <2>1. Bit(Undriven(k)') = 0
    <3>1. ~ Undriven(k)'
      BY <1>3 DEF Undriven
    <3> QED
      BY <3>1 DEF Bit
  <2>2. /\ Cardinality(Done(k)) \in Nat /\ Cardinality(Done(k)') \in Nat
        /\ Cardinality(Adders(k)) \in Nat /\ Cardinality(Adders(k)') \in Nat
        /\ Bit(Loose(k)) \in {0, 1} /\ Bit(Loose(k)') \in {0, 1}
        /\ Bit(Undriven(k)) \in {0, 1}
    BY CountsAreNumbers
  <2>3. CASE run.ended
    <3>1. run'.number = run.number + 1
      BY <1>3, <2>3
    <3>2. \A t \in TaskIds : Exists(t) => tasks[t].run # run'.number
      BY <1>3, <1>4, <3>1, CountedParts DEF NothingAhead
    <3>3. Done(k)' = {}
      BY <1>1, <3>2, CountedParts DEF Done, OpenHasNone, Settled, Exists
    <3>4. ~ Loose(k)'
      BY <1>1, <3>2 DEF Loose, Exists
    <3>5. \A d \in Coordinators : d # c => wait'[d][k].pc = "idle" \/ wait'[d][k].run # run'.number
      BY <1>3, <1>4, <3>1, CountedParts DEF NothingAhead
    <3>6. Adders(k)' \subseteq {c}
      BY <3>5 DEF Adders, MayAdd
    <3>7. Cardinality(Adders(k)') <= 1
      <4>1. IsFiniteSet({c}) /\ Cardinality({c}) = 1
        BY FS_Singleton
      <4>2. Cardinality(Adders(k)') <= Cardinality({c})
        BY <3>6, <4>1, FS_Subset
      <4> QED
        BY <4>1, <4>2
    <3>8. Cardinality(Done(k)') = 0 /\ Bit(Loose(k)') = 0
      BY <3>3, <3>4, FS_EmptySet DEF Bit
    <3> QED
      BY <1>2, <2>1, <2>2, <3>7, <3>8, DispatchAssumption DEF Within
  <2>4. CASE ~ run.ended
    <3>1. run'.number = run.number
      BY <1>3, <2>4
    <3>2. Done(k)' = Done(k)
      BY <1>1, <3>1 DEF Done
    <3>3. Bit(Loose(k)') <= Bit(Loose(k))
      <4>1. \A t : ~ Awaits(wait[c][k], t, run.number)
        BY <1>1 DEF Quiet, InWait, W, Awaits
      <4>2. Loose(k)' => Loose(k)
        BY <1>1, <1>3, <3>1, <4>1 DEF Loose
      <4> QED
        BY <4>2 DEF Bit
    <3>4. Cardinality(Adders(k)') <= Cardinality(Adders(k)) + 1
      <4>1. Adders(k)' \subseteq Adders(k) \cup {c}
        BY <1>1, <1>3, <3>1 DEF Adders
      <4>2. IsFiniteSet(Adders(k)) /\ IsFiniteSet(Adders(k) \cup {c})
        BY CountsAreNumbers, FS_AddElement
      <4>3. Cardinality(Adders(k) \cup {c}) \in {Cardinality(Adders(k)), Cardinality(Adders(k)) + 1}
        BY <4>2, FS_AddElement
      <4>4. Cardinality(Adders(k)') <= Cardinality(Adders(k) \cup {c})
        BY <4>1, <4>2, FS_Subset
      <4> QED
        BY <2>2, <4>3, <4>4
    <3>5. (\A d \in Coordinators : Quiet(d)) => Bit(Undriven(k)) = 1
      <4>1. (\A d \in Coordinators : Quiet(d)) => Undriven(k)
        BY <2>4 DEF Undriven, Quiet, InWait, W
      <4> QED
        BY <4>1 DEF Bit
    <3>6. Within(k)
      BY CountedParts
    <3> QED
      BY <1>2, <2>1, <2>2, <3>2, <3>3, <3>4, <3>5, <3>6, DispatchAssumption DEF Within
  <2> QED
    BY <2>3, <2>4
<1> QED
  BY <1>2, <1>5, <1>6, <1>7, <1>8 DEF Counted

(* A worker's step: all but the commit of a value leave the tasks steady. *)
LEMMA WorkersWithin ==
    ASSUME RedoneInv,
           \/ \E w \in Workers : \/ ClaimOnce(w) \/ WorkerCrash(w) \/ Stop(w) \/ StopDone(w)
                                 \/ ReleaseUnfinished(w) \/ DeadWorkerSweep(w)
           \/ \E x \in execs : ComputeOutcome(x) \/ Commit(x) \/ AbortedReturns(x) \/ HeartbeatTask(x)
           \/ \E t \in TaskIds : TimePasses(t)
           \/ StaleSweep \/ UNCHANGED vars
    PROVE  Counted'
<1> DEFINE Calm ==
      \/ UNCHANGED queueVars
      \/ \E w \in Workers, n \in Int : Claim(w, Batch(w, n))
      \/ \E t \in TaskIds, token \in Nat :
           Heartbeat(t, token) \/ \E o \in {"typed", "defect"} : Fail(t, token, o)
      \/ \E w \in Workers : RequeueWorker(w)
      \/ RequeueStale
      \/ \E t \in TaskIds : FailUnclaimed(t) \/ Consume(t) \/ GrowOld(t)
      \/ \E G \in SUBSET TaskIds : ReleaseAll(G)
<1>1. QueueTypeOK /\ OpenHasNone /\ WorkersTyped /\ LeftTyped
  BY DEF RedoneInv, DispatchInv, ClientInv, QueueInv
<1>2. ASSUME Calm, wait' = wait, run' = run, left'.faults = left.faults PROVE Counted'
  <2>1. \A t \in TaskIds : Steady(t)
    BY <1>1, <1>2, SteadyCalls
  <2> QED
    BY <1>2, <2>1, QuietWithin
<1>3. ASSUME NEW w \in Workers, ClaimOnce(w) PROVE Counted'
  <2>1. Entries(w) \subseteq TaskIds
    BY DEF Entries
  <2>2. Cardinality(Entries(w)) \in Nat
    BY <2>1, BatchIsFinite, FS_Subset, FS_CardinalityType
  <2>3. Capacity - Cardinality(Entries(w)) \in Int
    BY <2>2, DispatchAssumption
  <2>4. /\ Claim(w, Batch(w, Capacity - Cardinality(Entries(w))))
        /\ wait' = wait /\ run' = run /\ left' = left
    BY <1>3 DEF ClaimOnce, coordVars
  <2>5. Calm
    BY <2>3, <2>4
  <2> HIDE DEF Calm
  <2> QED
    BY <1>2, <2>4, <2>5
<1>4. ASSUME NEW w \in Workers, ReleaseUnfinished(w) PROVE Counted'
  <2> DEFINE given == {t \in Entries(w) : IsCurrentClaim(t, active[w][t])}
  <2>1. given \subseteq Running /\ given \in SUBSET TaskIds
    BY DEF Entries, IsCurrentClaim, Running
  <2>2. ReleaseAll(given) /\ wait' = wait /\ run' = run /\ left' = left
    BY <1>4, <2>1 DEF ReleaseUnfinished, ReleaseAll, coordVars
  <2> HIDE DEF given
  <2>3. Calm
    BY <2>1, <2>2
  <2> HIDE DEF Calm
  <2> QED
    BY <1>2, <2>2, <2>3
<1>5. ASSUME NEW w \in Workers, Stop(w) PROVE Counted'
  <2>1. Calm /\ wait' = wait /\ run' = run /\ left' = [left EXCEPT !.stops = left.stops - 1]
    BY <1>1, <1>5 DEF Stop, coordVars, LeftTyped
  <2>2. left'.faults = left.faults
    BY <1>1, <2>1 DEF LeftTyped
  <2> HIDE DEF Calm
  <2> QED
    BY <1>2, <2>1, <2>2
<1>6. ASSUME NEW w \in Workers, WorkerCrash(w) \/ StopDone(w) \/ DeadWorkerSweep(w) PROVE Counted'
  <2>1. Calm /\ wait' = wait /\ run' = run /\ left' = left
    BY <1>6 DEF WorkerCrash, StopDone, DeadWorkerSweep, coordVars
  <2> HIDE DEF Calm
  <2> QED
    BY <1>2, <2>1
<1>7. ASSUME NEW x \in execs, ComputeOutcome(x) \/ AbortedReturns(x) \/ HeartbeatTask(x)
      PROVE Counted'
  <2>1. x.t \in TaskIds /\ x.token \in Nat
    BY <1>1 DEF WorkersTyped, Exec
  <2>2. Calm /\ wait' = wait /\ run' = run /\ left' = left
    BY <1>7, <2>1 DEF ComputeOutcome, AbortedReturns, HeartbeatTask, coordVars
  <2> HIDE DEF Calm
  <2> QED
    BY <1>2, <2>2
<1>8. ASSUME NEW x \in execs, Commit(x) PROVE Counted'
  <2>1. x.t \in TaskIds /\ x.token \in Nat
    BY <1>1 DEF WorkersTyped, Exec
  <2>2. x.st \in {"value", "typed", "defect"} /\ wait' = wait /\ run' = run /\ left' = left
    BY <1>8 DEF Commit, coordVars
  <2>3. CASE Complete(x.t, x.token)
    BY <2>1, <2>2, <2>3, CompleteWithin
  <2>4. CASE UNCHANGED queueVars \/ (x.st # "value" /\ Fail(x.t, x.token, x.st))
    <3>1. Calm
      BY <2>1, <2>2, <2>4
    <3> HIDE DEF Calm
    <3> QED
      BY <1>2, <2>2, <3>1
  <2> QED
    BY <1>8, <2>3, <2>4 DEF Commit
<1>9. ASSUME NEW t \in TaskIds, TimePasses(t) PROVE Counted'
  <2>1. Calm /\ wait' = wait /\ run' = run /\ left' = left
    BY <1>9 DEF TimePasses, coordVars
  <2> HIDE DEF Calm
  <2> QED
    BY <1>2, <2>1
<1>10. ASSUME StaleSweep \/ UNCHANGED vars PROVE Counted'
  <2>1. Calm /\ wait' = wait /\ run' = run /\ left' = left
    BY <1>10 DEF StaleSweep, vars, coordVars
  <2> HIDE DEF Calm
  <2> QED
    BY <1>2, <2>1
<1> QED
  BY <1>3, <1>4, <1>5, <1>6, <1>7, <1>8, <1>9, <1>10

(* Every step stays within what the faults allow. *)
LEMMA RedoneStep ==
    ASSUME RedoneInv, [Next]_vars
    PROVE  RedoneInv'
<1>1. DispatchInv' /\ LeftTyped'
  BY DispatchStep, LeftStep DEF RedoneInv
<1>2. Counted'
  <2>1. ASSUME NEW c \in Coordinators,
               TakeRun(c) \/ EndWave(c) \/ CoordinatorCrash(c) \/ \E k \in Keys : Waiting(c, k)
        PROVE Counted'
    BY <2>1, TakeRunWithin, EndWithin, CrashWithin, WaitingWithin
  <2>2. CASE Cancel
    BY <2>2, CancelWithin
  <2> QED
    BY <2>1, <2>2, WorkersWithin DEF Next, Work
<1> QED
  BY <1>1, <1>2 DEF RedoneInv, Counted

(* At first there is no run, no task and no wait. *)
LEMMA RedoneInit == Init => RedoneInv
<1> SUFFICES ASSUME Init PROVE RedoneInv
  OBVIOUS
<1>1. /\ DispatchInv /\ run.ended = TRUE /\ run.number = 0
      /\ left = [faults |-> MaxFaults, stops |-> MaxStops]
      /\ wait = [c \in Coordinators |-> [k \in Keys |-> NoWait]]
  BY DispatchInit DEF Init
<1>2. \A t \in TaskIds : tasks[t] = NoTask
  BY DEF Init, QueueInit
<1>3. /\ NoTask.status = "absent" /\ NoTask.outcome = "none"
      /\ NoWait.pc = "idle"
  BY NoTaskType DEF NoTask, NewTask, NoWait
<1>4. \A c \in Coordinators, k \in Keys : wait[c][k] = NoWait
  BY <1>1
<1>5. LeftTyped /\ left.faults = MaxFaults /\ MaxFaults \in Nat
  BY <1>1, DispatchAssumption DEF LeftTyped
<1>6. NothingAhead /\ OneEpochEach /\ OpenIsActive
  BY <1>2, <1>3, <1>4 DEF NothingAhead, OneEpochEach, OpenIsActive, Exists
<1>7. ASSUME NEW k \in Keys PROVE Within(k)
  <2>1. Done(k) = {} /\ Adders(k) = {} /\ ~ Loose(k) /\ ~ Undriven(k)
    BY <1>1, <1>2, <1>3, <1>4 DEF Done, Adders, MayAdd, Loose, Undriven
  <2>2. Cardinality(Done(k)) = 0 /\ Cardinality(Adders(k)) = 0
    BY <2>1, FS_EmptySet
  <2>3. Bit(Loose(k)) = 0 /\ Bit(Undriven(k)) = 0
    BY <2>1 DEF Bit
  <2> QED
    BY <1>5, <2>2, <2>3 DEF Within
<1> QED
  BY <1>1, <1>5, <1>6, <1>7 DEF RedoneInv

(* enqueue, consume, runAttempt: for any workers, coordinators, retries and *)
(* faults, a step's body is completed once in a run, and once more at most  *)
(* for each fault of a coordinator, whatever the workers do.               *)
THEOREM RedoneOnce == Spec => []RedoneOncePerFault
<1>1. RedoneInv => RedoneOncePerFault
  <2> SUFFICES ASSUME RedoneInv, NEW k \in Keys
               PROVE  Cardinality(Done(k)) <= 1 + (MaxFaults - left.faults)
    BY DEF RedoneOncePerFault
  <2>1. Within(k) /\ left.faults \in Nat
    BY CountedParts
  <2>2. /\ Cardinality(Done(k)) \in Nat /\ Cardinality(Adders(k)) \in Nat
        /\ Bit(Loose(k)) \in Nat /\ Bit(Undriven(k)) \in Nat
    BY CountsAreNumbers
  <2> QED
    BY <2>1, <2>2, DispatchAssumption DEF Within
<1> QED
  BY <1>1, RedoneInit, RedoneStep, PTL DEF Spec
=============================================================================
