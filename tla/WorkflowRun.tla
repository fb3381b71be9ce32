----------------------------- MODULE WorkflowRun -----------------------------
(***************************************************************************)
(* One durable workflow run and everybody who drives it.                   *)
(*                                                                         *)
(* The stored run (durable/in-memory-storage.ts) is shared by drivers: an  *)
(* in-process runner, the coordinator's orphan recovery, the due-timer and *)
(* signal scanners.  A driver takes the run lock with the run's state,     *)
(* walks the DAG wave by wave (runner/dag-executor.ts), checkpoints every  *)
(* step, and completes, suspends, continues, trips or rolls back and fails *)
(* the run (runner/orchestrate.ts, runner/compensation.ts).  Every await   *)
(* of the driver is a point where others may step: one action lies between *)
(* two awaits.  Leases end at any moment, drivers die at any moment, and a *)
(* superseded driver goes on until a fenced write is refused.              *)
(*                                                                         *)
(* Step results, inputs and errors are left out: a stored step is its      *)
(* status.  One workflow id; its runs are numbered as the code does.       *)
(***************************************************************************)
EXTENDS Fence

CONSTANTS
    Drivers,       \* processes that may drive the run
    Steps,         \* step names of the definition
    DependsOn,     \* step -> set of steps
    Kind,          \* step -> "work", "sleep", "signal", "tripwire" or "continue"
    CanFail,       \* work steps whose body may fail for good
    Compensable,   \* steps with a compensate function
    Timed,         \* signal steps whose waitForSignal has a timeoutMs
    MaxRetries,    \* workflow-level retries
    MaxRuns,       \* bound on the run number reached by continue-as-new
    MaxCalls,      \* bound on the run() calls made by clients
    MaxForce,      \* bound on those made with force: true
    MaxFaults,     \* bound on crashes, stalls past the lease, lost writes, abandons
    MaxCancels     \* bound on cancelWorkflow calls

ASSUME DagAssumption ==
    /\ DependsOn \in [Steps -> SUBSET Steps]
    /\ Kind \in [Steps -> {"work", "sleep", "signal", "tripwire", "continue"}]
    /\ CanFail \subseteq Steps /\ Compensable \subseteq Steps /\ Timed \subseteq Steps
ASSUME BoundAssumption ==
    /\ MaxRetries \in Nat /\ MaxRuns \in Nat /\ MaxCalls \in Nat /\ MaxForce \in Nat
    /\ MaxFaults \in Nat /\ MaxCancels \in Nat

VARIABLES
    lock,       \* the run lock (Fence)
    issued,     \* last fence token handed out
    row,        \* the stored run: status, run number, error tag, step rows
    delivered,  \* signal steps whose signal is in the store
    due,        \* parked steps whose stored wake time has passed
    drv,        \* driver -> its local state
    left        \* what is left of each bound

vars == <<lock, issued, row, delivered, due, drv, left>>
storeVars == <<row, delivered, due>>
lockVars == <<lock, issued>>

-----------------------------------------------------------------------------
(* Stored values *)

Status == {"none", "pending", "running", "suspended", "compensating",
           "completed", "failed", "tripwire"}
Tag == {"none", "step", "cancelled"}
StepStatus == {"none", "completed", "failed", "sleeping", "waiting"}

(* fired: tripwire steps stored with tripwireFired; ledger: steps stored as *)
(* compensated or compensation_failed.                                     *)
Row == [status : Status, run : Nat, tag : Tag, step : [Steps -> StepStatus],
        fired : SUBSET Steps, ledger : SUBSET Steps]

Empty(status, run) ==
    [status |-> status, run |-> run, tag |-> "none", step |-> [s \in Steps |-> "none"],
     fired |-> {}, ledger |-> {}]

(* isTerminalWorkflowStatus, isCancelledRun *)
IsTerminal(r) == r.status \in {"completed", "failed", "tripwire"}
IsCancelled(r) == r.status = "failed" /\ r.tag = "cancelled"
Completed(r) == {s \in Steps : r.step[s] = "completed"}

(* Steps that depend on s, directly or through others: the least set that   *)
(* has the direct dependents of s and the direct dependents of its members. *)
Dependents(s) == {t \in Steps : s \in DependsOn[t]}
ClosedAbove(s) ==
    {C \in SUBSET Steps : Dependents(s) \subseteq C /\ \A t \in C : Dependents(t) \subseteq C}
Above(s) == {t \in Steps : \A C \in ClosedAbove(s) : t \in C}

(* Local state of a driver.  view: the run as last loaded; done: the steps *)
(* its DAG walk counts as completed; body: how each step of the wave stands;*)
(* seen: a checkpoint of the wave read a cancelled run; chained: the cycle *)
(* follows a continue-as-new; lost: the lock signal is aborted.            *)
BodyState == {"off", "run", "unsignalled", "completed", "fired", "failed",
              "suspended", "continued", "saved", "savedFired", "savedFailed", "unsaved"}
Answer == {"none", "completed", "failed", "cancelled", "tripwire", "suspended", "lost"}
PC == {"idle", "create", "load", "gate", "reload", "wave", "bodies", "complete", "trip",
       "confirm", "failing", "retry", "retryload", "compensate", "rollback", "undo",
       "record", "continue", "release"}

Driver == [pc : PC, token : Nat, force : BOOLEAN, chained : BOOLEAN, view : Row,
           done : SUBSET Steps, first : BOOLEAN, body : [Steps -> BodyState],
           seen : BOOLEAN, lost : BOOLEAN, tries : Nat, pend : SUBSET Steps, ans : Answer]

Off == [s \in Steps |-> "off"]
Idle == [pc |-> "idle", token |-> 0, force |-> FALSE, chained |-> FALSE,
         view |-> Empty("none", 0), done |-> {}, first |-> TRUE, body |-> Off,
         seen |-> FALSE, lost |-> FALSE, tries |-> 0, pend |-> {}, ans |-> "none"]

Init ==
    /\ lock = NoLock /\ issued = 0
    /\ row = Empty("none", 0) /\ delivered = {} /\ due = {}
    /\ drv = [d \in Drivers |-> Idle]
    /\ left = [calls |-> MaxCalls, force |-> MaxForce, faults |-> MaxFaults,
               cancels |-> MaxCancels]

(* The driver's token passes the fence check now. *)
Own(d) == Accepts(lock, drv[d].token)
At(d, pc) == drv[d].pc = pc
Goto(d, pc) == drv' = [drv EXCEPT ![d].pc = pc]
Finish(d, a) == drv' = [drv EXCEPT ![d].pc = "release", ![d].ans = a]

-----------------------------------------------------------------------------
(* Taking the run *)

(* withLock, tryLockAndLoad: the lock and the state come in one step. *)
TryLockAndLoad(d, force) ==
    /\ At(d, "idle") /\ ~ lock.live
    /\ issued' = issued + 1
    /\ lock' = Granted(issued + 1)
    /\ drv' = [drv EXCEPT ![d] =
                 [Idle EXCEPT !.pc = IF row.status = "none" THEN "create" ELSE "gate",
                              !.token = issued + 1, !.force = force, !.view = row]]
    /\ UNCHANGED storeVars

(* A client's run(), or an adoption decided on a listing that is now stale. *)
Call(d, force) ==
    /\ left.calls > 0 /\ (force => left.force > 0)
    /\ TryLockAndLoad(d, force)
    /\ left' = [left EXCEPT !.calls = @ - 1, !.force = IF force THEN @ - 1 ELSE @]

(* Variant: a run left mid-rollback is not listed as an orphan. *)
RecoverSansRollback(d) ==
    /\ row.status \in {"pending", "running"}
    /\ TryLockAndLoad(d, FALSE)
    /\ UNCHANGED left

(* listOrphanedRuns, then the coordinator's adoption or recover(). *)
Recover(d) ==
    /\ row.status \in {"pending", "running", "compensating"}
    /\ TryLockAndLoad(d, FALSE)
    /\ UNCHANGED left

(* Variant: timed-out waits are not listed. *)
WakeupsSansTimeout == {s \in Steps : \/ row.step[s] = "sleeping" /\ s \in due
                                     \/ row.step[s] = "waiting" /\ s \in delivered}

(* listDueTimers, listSignalWakeups. *)
Wakeups == {s \in Steps : \/ row.step[s] = "sleeping" /\ s \in due
                          \/ row.step[s] = "waiting" /\ s \in due \cup delivered}

(* The resume scanners re-run a suspended run that is due. *)
ScanAndResume(d) ==
    /\ row.status = "suspended" /\ Wakeups # {}
    /\ TryLockAndLoad(d, FALSE)
    /\ UNCHANGED left

(* The coordinator's submit stores a run before anyone drives it. *)
Submit ==
    /\ row.status = "none"
    /\ row' = Empty("pending", 1)
    /\ UNCHANGED <<lockVars, delivered, due, drv, left>>

(* createWorkflow is not fenced; the loser of a race attaches to the winner. *)
Create(d) ==
    /\ At(d, "create")
    /\ IF row.status = "none"
         THEN row' = Empty("pending", 1) /\ Goto(d, "load")
         ELSE /\ drv' = [drv EXCEPT ![d].pc = "gate", ![d].view = row]
              /\ UNCHANGED row
    /\ UNCHANGED <<lockVars, delivered, due, left>>

Load(d) ==
    /\ At(d, "load")
    /\ drv' = [drv EXCEPT ![d].pc = "gate", ![d].view = row]
    /\ UNCHANGED <<lockVars, storeVars, left>>

-----------------------------------------------------------------------------
(* The entry gate *)

Forced(d) == drv[d].force \/ drv[d].chained

(* storedRunError, completedRunResult: an ended run answers with its outcome. *)
StoredOutcome(r) == IF IsCancelled(r) THEN "cancelled" ELSE r.status

Reject(d) ==
    /\ At(d, "gate") /\ IsTerminal(drv[d].view) /\ ~ Forced(d)
    /\ Finish(d, StoredOutcome(drv[d].view))
    /\ UNCHANGED <<lockVars, storeVars, left>>

(* startFreshRun with expectedRun: archive, next run number, no step rows,  *)
(* no signals.                                                             *)
StartFreshRun(d) ==
    IF row.run = drv[d].view.run
      THEN row' = Empty("pending", row.run + 1) /\ delivered' = {} /\ due' = {}
      ELSE UNCHANGED storeVars

ForceFresh(d) ==
    /\ At(d, "gate") /\ IsTerminal(drv[d].view) /\ Forced(d)
    /\ Own(d)
    /\ StartFreshRun(d)
    /\ Goto(d, "reload")
    /\ UNCHANGED <<lockVars, left>>

(* The walk of the DAG starts from the completed rows of the loaded run. *)
EnterDag(d, r) ==
    [drv[d] EXCEPT !.view = r, !.pc = "wave", !.first = TRUE, !.done = Completed(r)]

(* After the gate: a run found mid-rollback is rolled back, any other walked. *)
Proceed(d, r) ==
    drv' = [drv EXCEPT ![d] = IF r.status = "compensating"
                                THEN [@ EXCEPT !.view = r, !.pc = "rollback"]
                                ELSE EnterDag(d, r)]

Enter(d) ==
    /\ At(d, "gate") /\ ~ IsTerminal(drv[d].view)
    /\ Proceed(d, drv[d].view)
    /\ UNCHANGED <<lockVars, storeVars, left>>

(* The run reloaded after a forced fresh start is not gated again. *)
Reload(d) ==
    /\ At(d, "reload")
    /\ Proceed(d, row)
    /\ UNCHANGED <<lockVars, storeVars, left>>

-----------------------------------------------------------------------------
(* Walking the DAG *)

(* createReadyTracker *)
Ready(d) == {s \in Steps \ drv[d].done : DependsOn[s] \subseteq drv[d].done}
AllDone(d) == drv[d].done = Steps

(* executeWorkflowDag, head of the wave loop: stop on a lost lock or on a   *)
(* cancel that the last wave's checkpoints saw, else start the ready steps. *)
StartWave(d) ==
    /\ At(d, "wave")
    /\ IF AllDone(d) THEN Goto(d, "complete")
       ELSE IF ~ drv[d].first /\ drv[d].lost THEN Finish(d, "lost")
       ELSE IF ~ drv[d].first /\ drv[d].seen THEN Finish(d, "cancelled")
       ELSE drv' = [drv EXCEPT ![d].pc = "bodies", ![d].seen = FALSE,
                      ![d].body = [s \in Steps |-> IF s \in Ready(d) THEN "run" ELSE "off"]]
    /\ UNCHANGED <<lockVars, storeVars, left>>

InBody(d, s, kind, state) == At(d, "bodies") /\ Kind[s] = kind /\ drv[d].body[s] = state
Settles(d, s, b) == drv' = [drv EXCEPT ![d].body[s] = b]

(* The body of a plain step, its retries and onFailure included. *)
WorkBody(d, s) ==
    /\ InBody(d, s, "work", "run")
    /\ \/ Settles(d, s, "completed")
       \/ s \in CanFail /\ Settles(d, s, "failed")
    /\ UNCHANGED <<lockVars, storeVars, left>>

(* createTripwireStep: a fired tripwire is a completed step with metadata. *)
TripwireBody(d, s) ==
    /\ InBody(d, s, "tripwire", "run")
    /\ \E b \in {"completed", "fired"} : Settles(d, s, b)
    /\ UNCHANGED <<lockVars, storeVars, left>>

(* A body that may ask for continue-as-new. *)
ContinueBody(d, s) ==
    /\ InBody(d, s, "continue", "run")
    /\ \/ Settles(d, s, "completed")
       \/ drv[d].view.run < MaxRuns /\ Settles(d, s, "continued")
    /\ UNCHANGED <<lockVars, storeVars, left>>

(* Variant: a wait without a deadline marks the run and stores no step row. *)
SuspendSansRow(d, s, parked, rearm) ==
    IF Own(d)
      THEN /\ row' = [row EXCEPT !.status = "suspended",
                                 !.step[s] = IF parked = "waiting" /\ s \notin Timed THEN @ ELSE parked,
                                 !.fired = @ \ {s}, !.ledger = @ \ {s}]
           /\ due' = IF rearm THEN due \ {s} ELSE due
           /\ Settles(d, s, "suspended")
      ELSE UNCHANGED <<row, due>> /\ Settles(d, s, "failed")

(* suspendWorkflow, fenced but whatever the run's status.  A refused write  *)
(* is a defect of the body; its failure row will be refused as well.       *)
Suspend(d, s, parked, rearm) ==
    IF Own(d)
      THEN /\ row' = [row EXCEPT !.step[s] = parked, !.status = "suspended",
                                 !.fired = @ \ {s}, !.ledger = @ \ {s}]
           /\ due' = IF rearm THEN due \ {s} ELSE due
           /\ Settles(d, s, "suspended")
      ELSE UNCHANGED <<row, due>> /\ Settles(d, s, "failed")

(* createSleepStep: the wake time is the loaded row's, or a new one. *)
SleepBody(d, s) ==
    /\ InBody(d, s, "sleep", "run")
    /\ IF drv[d].view.step[s] = "sleeping"
         THEN /\ Settles(d, s, IF s \in due THEN "completed" ELSE "suspended")
              /\ UNCHANGED <<row, due>>
         ELSE Suspend(d, s, "sleeping", TRUE)
    /\ UNCHANGED <<lockVars, delivered, left>>

(* createWaitForSignalStep, first half: is the signal there, is it too late? *)
SignalBody(d, s) ==
    /\ InBody(d, s, "signal", "run")
    /\ Settles(d, s, IF s \in delivered THEN "completed"
                     ELSE IF drv[d].view.step[s] = "waiting" /\ s \in due THEN "failed"
                     ELSE "unsignalled")
    /\ UNCHANGED <<lockVars, storeVars, left>>

(* Second half: park; a re-entered wait keeps its stored deadline. *)
SignalPark(d, s) ==
    /\ InBody(d, s, "signal", "unsignalled")
    /\ Suspend(d, s, "waiting", drv[d].view.step[s] # "waiting")
    /\ UNCHANGED <<lockVars, delivered, left>>

(* Variant: a checkpoint is accepted under any token. *)
CheckpointUnfenced(d) == TRUE

(* checkpointStep checks the fence in the step that writes. *)
CheckpointAllowed(d) == Own(d)

(* checkpointStepOutcome with checkpointStep: the step row, pending to      *)
(* running, and the run's status read back, in one fenced step.            *)
Checkpoint(d, s) ==
    LET b == drv[d].body[s] IN
    /\ At(d, "bodies") /\ b \in {"completed", "fired", "failed"}
    /\ CheckpointAllowed(d)
    /\ row' = [row EXCEPT !.step[s] = IF b = "failed" THEN "failed" ELSE "completed",
                          !.status = IF @ = "pending" THEN "running" ELSE @,
                          !.fired = IF b = "fired" THEN @ \cup {s} ELSE @,
                          !.ledger = @ \ {s}]
    /\ drv' = [drv EXCEPT ![d].seen = @ \/ IsCancelled(row),
                          ![d].body[s] = CASE b = "completed" -> "saved"
                                           [] b = "fired" -> "savedFired"
                                           [] b = "failed" -> "savedFailed"]
    /\ UNCHANGED <<lockVars, delivered, due, left>>

(* The write is refused by the fence, or still fails after its retries     *)
(* (CheckpointError).                                                      *)
CheckpointLost(d, s) ==
    /\ At(d, "bodies") /\ drv[d].body[s] \in {"completed", "fired", "failed"}
    /\ IF CheckpointAllowed(d)
         THEN left.faults > 0 /\ left' = [left EXCEPT !.faults = @ - 1]
         ELSE UNCHANGED left
    /\ Settles(d, s, "unsaved")
    /\ UNCHANGED <<lockVars, storeVars>>

In(d, B) == {s \in Steps : drv[d].body[s] \in B}

(* Variant: a fired tripwire is taken for a completed step. *)
AfterWaveSansTripwire(d) ==
    IF In(d, {"savedFailed"}) # {} THEN "failing"
    ELSE IF In(d, {"continued"}) # {} THEN "continue"
    ELSE IF In(d, {"suspended"}) # {} THEN "release" ELSE "wave"

(* Failure, continue-as-new, suspension and tripwire count in this order. *)
AfterWave(d) ==
    IF In(d, {"savedFailed"}) # {} THEN "failing"
    ELSE IF In(d, {"continued"}) # {} THEN "continue"
    ELSE IF In(d, {"suspended"}) # {} THEN "release"
    ELSE IF In(d, {"savedFired"}) # {} THEN "trip" ELSE "wave"

(* settleWave and the fold: once every step has settled, a lost checkpoint  *)
(* abandons the run, else the completed steps count as done.               *)
SettleWave(d) ==
    /\ At(d, "bodies")
    /\ In(d, {"run", "unsignalled", "completed", "fired", "failed"}) = {}
    /\ IF In(d, {"unsaved"}) # {}
         THEN Finish(d, "lost")
         ELSE drv' = [drv EXCEPT ![d].done = @ \cup In(d, {"saved", "savedFired"}),
                                 ![d].pc = AfterWave(d), ![d].first = FALSE, ![d].body = Off,
                                 ![d].ans = IF AfterWave(d) = "release" THEN "suspended" ELSE @]
    /\ UNCHANGED <<lockVars, storeVars, left>>

-----------------------------------------------------------------------------
(* Ending the run *)

(* Variant: an ended run is overwritten. *)
EndAsAlways(status, tag) == row' = [row EXCEPT !.status = status, !.tag = tag]

(* completeWorkflow, tripwireWorkflow, failWorkflow: no-ops on an ended run. *)
EndAs(status, tag) ==
    row' = IF IsTerminal(row) THEN row ELSE [row EXCEPT !.status = status, !.tag = tag]

Complete(d) ==
    /\ At(d, "complete") /\ Own(d)
    /\ EndAs("completed", row.tag)
    /\ drv' = [drv EXCEPT ![d].pc = "confirm", ![d].ans = "completed"]
    /\ UNCHANGED <<lockVars, delivered, due, left>>

Trip(d) ==
    /\ At(d, "trip") /\ Own(d)
    /\ EndAs("tripwire", row.tag)
    /\ drv' = [drv EXCEPT ![d].pc = "confirm", ![d].ans = "tripwire"]
    /\ UNCHANGED <<lockVars, delivered, due, left>>

(* Variant: the answer is not checked against a cancel. *)
ConfirmBlindly(d) ==
    /\ At(d, "confirm")
    /\ Goto(d, "release")
    /\ UNCHANGED <<lockVars, storeVars, left>>

(* assertNotCancelled: report the cancel that the write left standing. *)
Confirm(d) ==
    /\ At(d, "confirm")
    /\ Finish(d, IF IsCancelled(row) THEN "cancelled" ELSE drv[d].ans)
    /\ UNCHANGED <<lockVars, storeVars, left>>

(* A failed wave: a cancel wins over it; then retry, or roll back. *)
Failing(d) ==
    /\ At(d, "failing")
    /\ IF IsCancelled(row) THEN Finish(d, "cancelled")
       ELSE IF drv[d].tries < MaxRetries
         THEN drv' = [drv EXCEPT ![d].pc = "retry", ![d].tries = @ + 1]
         ELSE Goto(d, "compensate")
    /\ UNCHANGED <<lockVars, storeVars, left>>

(* After the retry delay: assertRunActive, then the run is loaded again. *)
Retry(d) ==
    /\ At(d, "retry")
    /\ IF drv[d].lost THEN Finish(d, "lost")
       ELSE IF IsCancelled(row) THEN Finish(d, "cancelled")
       ELSE Goto(d, "retryload")
    /\ UNCHANGED <<lockVars, storeVars, left>>

RetryLoad(d) ==
    /\ At(d, "retryload")
    /\ drv' = [drv EXCEPT ![d] = EnterDag(d, row)]
    /\ UNCHANGED <<lockVars, storeVars, left>>

(* runChain: archive the run and start the next one under the same lock. *)
ContinueAsNew(d) ==
    /\ At(d, "continue") /\ Own(d)
    /\ StartFreshRun(d)
    /\ drv' = [drv EXCEPT ![d].pc = "load", ![d].chained = TRUE, ![d].tries = 0]
    /\ UNCHANGED <<lockVars, left>>

-----------------------------------------------------------------------------
(* Rollback *)

(* beginCompensation: an ended run is not rolled back. *)
BeginCompensation(d) ==
    /\ At(d, "compensate") /\ Own(d)
    /\ IF row.status \in {"pending", "running", "suspended", "compensating"}
         THEN /\ row' = [row EXCEPT !.status = "compensating", !.tag = "step"]
              /\ Goto(d, "rollback")
         ELSE /\ UNCHANGED row
              /\ drv' = [drv EXCEPT ![d].pc = "confirm", ![d].ans = "failed"]
    /\ UNCHANGED <<lockVars, delivered, due, left>>

(* Variant: the rollback starts from the driver's own record of the run. *)
LoadRollbackFromView(d) ==
    /\ At(d, "rollback")
    /\ drv' = [drv EXCEPT ![d].pc = "undo",
                 ![d].pend = (Completed(drv[d].view) \cap Compensable) \ drv[d].view.ledger]
    /\ UNCHANGED <<lockVars, storeVars, left>>

(* compensateWorkflow: what is completed, compensable and not in the ledger. *)
LoadRollback(d) ==
    /\ At(d, "rollback")
    /\ drv' = [drv EXCEPT ![d].pc = "undo",
                          ![d].pend = (Completed(row) \cap Compensable) \ row.ledger]
    /\ UNCHANGED <<lockVars, storeVars, left>>

(* Variant: the order of the rollback is arbitrary. *)
NextToUndoAny(d) == drv[d].pend

(* compensationOrder: a step after the completed steps that depend on it.  *)
(* Among independent steps the order is left open (completion times).      *)
NextToUndo(d) == {s \in drv[d].pend : Above(s) \cap drv[d].pend = {}}

(* One compensation, its retries included, has run; the lock signal is     *)
(* looked at before it.                                                    *)
Undo(d) ==
    /\ At(d, "undo") /\ drv[d].pend # {}
    /\ IF drv[d].lost THEN Finish(d, "lost") ELSE Goto(d, "record")
    /\ UNCHANGED <<lockVars, storeVars, left>>

(* saveStepCompensation, compensated or compensation_failed. *)
RecordUndo(d) ==
    /\ At(d, "record") /\ Own(d)
    /\ \E s \in NextToUndo(d) :
         /\ row' = [row EXCEPT !.ledger = IF row.step[s] = "none" THEN @ ELSE @ \cup {s}]
         /\ drv' = [drv EXCEPT ![d].pend = @ \ {s}, ![d].pc = "undo"]
    /\ UNCHANGED <<lockVars, delivered, due, left>>

FailRun(d) ==
    /\ At(d, "undo") /\ drv[d].pend = {} /\ Own(d)
    /\ EndAs("failed", "step")
    /\ Finish(d, "failed")
    /\ UNCHANGED <<lockVars, delivered, due, left>>

-----------------------------------------------------------------------------
(* Losing and leaving the run *)

(* Points where the driver's next step is a fenced write of its own. *)
AtFencedWrite(d) ==
    \/ drv[d].pc \in {"complete", "trip", "compensate", "record", "continue"}
    \/ At(d, "gate") /\ IsTerminal(drv[d].view) /\ Forced(d)
    \/ At(d, "undo") /\ drv[d].pend = {}

(* FenceTokenMismatchError: the write is refused and the run left as it is. *)
Fenced(d) ==
    /\ AtFencedWrite(d) /\ ~ Own(d)
    /\ Finish(d, "lost")
    /\ UNCHANGED <<lockVars, storeVars, left>>

(* withLock, finally: the lock is released under the driver's own token. *)
Release(d) ==
    /\ At(d, "release")
    /\ lock' = AfterRelease(lock, drv[d].token)
    /\ drv' = [drv EXCEPT ![d] = Idle]
    /\ UNCHANGED <<issued, storeVars, left>>

(* A heartbeat is refused, and the lock signal aborts. *)
NoticeLoss(d) ==
    /\ drv[d].pc \notin {"idle", "release"} /\ ~ drv[d].lost /\ ~ Own(d)
    /\ drv' = [drv EXCEPT ![d].lost = TRUE]
    /\ UNCHANGED <<lockVars, storeVars, left>>

Fault == left.faults > 0 /\ left' = [left EXCEPT !.faults = @ - 1]

(* The caller's signal aborts (a coordinator or runner shutting down). *)
Abandon(d) ==
    /\ drv[d].pc \notin {"idle", "release"} /\ ~ drv[d].lost
    /\ Fault
    /\ drv' = [drv EXCEPT ![d].lost = TRUE]
    /\ UNCHANGED <<lockVars, storeVars>>

(* The process dies; its lease is left behind. *)
Crash(d) ==
    /\ drv[d].pc # "idle"
    /\ Fault
    /\ drv' = [drv EXCEPT ![d] = Idle]
    /\ UNCHANGED <<lockVars, storeVars>>

(* A lease ends: of a dead driver in time, of a live one when it stalls or  *)
(* its heartbeats fail for lockDurationMs.                                 *)
Expire ==
    /\ lock.live
    /\ IF \E d \in Drivers : Own(d) THEN Fault ELSE UNCHANGED left
    /\ lock' = Lapsed(lock)
    /\ UNCHANGED <<issued, storeVars, drv>>

-----------------------------------------------------------------------------
(* The world around the run *)

(* The clock passes a stored wakeAt or signalTimeoutAt. *)
TimerDue(s) ==
    /\ s \notin due
    /\ row.step[s] = "sleeping" \/ (row.step[s] = "waiting" /\ s \in Timed)
    /\ due' = due \cup {s}
    /\ UNCHANGED <<lockVars, row, delivered, drv, left>>

(* deliverSignal, at any time. *)
DeliverSignal(s) ==
    /\ Kind[s] = "signal" /\ s \notin delivered
    /\ delivered' = delivered \cup {s}
    /\ UNCHANGED <<lockVars, row, due, drv, left>>

(* cancelWorkflow by a client, without a guard. *)
Cancel ==
    /\ left.cancels > 0
    /\ row.status \in {"pending", "running", "suspended"}
    /\ row' = [row EXCEPT !.status = "failed", !.tag = "cancelled"]
    /\ left' = [left EXCEPT !.cancels = @ - 1]
    /\ UNCHANGED <<lockVars, delivered, due, drv>>

-----------------------------------------------------------------------------
(* What a driver does by itself once it has the run. *)
Drive(d) ==
    \/ Create(d) \/ Load(d) \/ Reject(d) \/ ForceFresh(d) \/ Reload(d) \/ Enter(d)
    \/ StartWave(d) \/ SettleWave(d)
    \/ \E s \in Steps :
         \/ WorkBody(d, s) \/ TripwireBody(d, s) \/ ContinueBody(d, s) \/ SleepBody(d, s)
         \/ SignalBody(d, s) \/ SignalPark(d, s)
         \/ Checkpoint(d, s) \/ CheckpointLost(d, s)
    \/ Complete(d) \/ Trip(d) \/ Confirm(d)
    \/ Failing(d) \/ Retry(d) \/ RetryLoad(d) \/ ContinueAsNew(d)
    \/ BeginCompensation(d) \/ LoadRollback(d) \/ Undo(d) \/ RecordUndo(d) \/ FailRun(d)
    \/ Fenced(d) \/ Release(d)

Next ==
    \/ \E d \in Drivers :
         \/ \E force \in BOOLEAN : Call(d, force)
         \/ Recover(d) \/ ScanAndResume(d)
         \/ Drive(d)
         \/ NoticeLoss(d) \/ Abandon(d) \/ Crash(d)
    \/ \E s \in Steps : TimerDue(s) \/ DeliverSignal(s)
    \/ Submit \/ Cancel \/ Expire

Spec == Init /\ [][Next]_vars

(* Fairness.  A live driver goes on; recovery and the scanners keep        *)
(* sweeping; clocks advance; the lease of a dead driver ends.              *)
DeadLeaseEnds == (\A d \in Drivers : ~ Own(d)) /\ Expire

Fairness ==
    /\ \A d \in Drivers : WF_vars(Drive(d))
    /\ WF_vars(\E d \in Drivers : Recover(d) \/ ScanAndResume(d))
    /\ WF_vars(DeadLeaseEnds)
    /\ \A s \in Steps : WF_vars(TimerDue(s))

FairSpec == Spec /\ Fairness

-----------------------------------------------------------------------------
(* Properties *)

(* in-memory/run-record.ts, orchestrate.ts: the stored run, the lock and the *)
(* drivers' locals keep their types through every interleaving.            *)
TypeOK ==
    /\ lock \in LockValue /\ issued \in Nat
    /\ row \in Row /\ delivered \subseteq Steps /\ due \subseteq Steps
    /\ drv \in [Drivers -> Driver]
    /\ left \in [calls : Nat, force : Nat, faults : Nat, cancels : Nat]

Walking == {"wave", "bodies", "complete", "trip", "failing", "retry"}
Saved(d) == {s \in Steps : drv[d].body[s] \in {"saved", "savedFired"}}

(* dag-executor.ts, step-checkpoint.ts: while a driver's token is good, the *)
(* steps its walk counts as completed are exactly the completed rows of the *)
(* run it loaded, so it neither repeats nor skips one, whoever drove the    *)
(* run before, crashed in it or still believes to drive it.                *)
HolderKnowsTheRun ==
    /\ TypeOK
    /\ \A d \in Drivers : Own(d) /\ drv[d].pc \in Walking =>
          /\ row.run = drv[d].view.run
          /\ Completed(row) = drv[d].done \cup Saved(d)

(* compensation.ts: a run that failed by itself left no completed step with *)
(* a compensate function behind, whoever finished the rollback.            *)
RollbackIsWhole ==
    row.status = "failed" /\ row.tag = "step" => Completed(row) \cap Compensable \subseteq row.ledger

(* compensationOrder: a step is only undone after the completed steps that  *)
(* depend on it.                                                           *)
UndoneInOrder ==
    \A s \in row.ledger : Above(s) \cap Completed(row) \cap Compensable \subseteq row.ledger

(* orchestrate.ts: what a driver answers while its token is good is what    *)
(* the store says of the run.                                              *)
AnswerIsStored ==
    \A d \in Drivers : At(d, "release") /\ Own(d) =>
        CASE drv[d].ans \in {"completed", "tripwire"} -> row.status = drv[d].ans
          [] drv[d].ans = "cancelled" -> IsCancelled(row)
          [] drv[d].ans = "failed" -> row.status = "failed" /\ ~ IsCancelled(row)
          [] drv[d].ans = "suspended" -> row.status = "suspended" \/ IsCancelled(row)
          [] OTHER -> TRUE

(* storage/README.md: only startFreshRun and resetSteps leave a terminal    *)
(* status.                                                                 *)
EndedStaysEnded ==
    [][IsTerminal(row) => row'.status = row.status \/ row'.run = row.run + 1]_vars

(* dag-executor.ts, orchestrate.ts, with-lock.ts: a driver that gives up a  *)
(* run under a good token, and not because the run was taken from it or a   *)
(* write failed, leaves it ended or parked on a stored row that the resume  *)
(* scanners can list: no wave settles as suspended over a row that a later  *)
(* write of the same wave has replaced, whoever drove the run before.      *)
LetsGoOfNoLiveRun ==
    \A d \in Drivers : At(d, "release") /\ Own(d) /\ drv[d].ans # "lost" =>
        \/ IsTerminal(row)
        \/ row.status = "suspended" /\ \E s \in Steps : row.step[s] \in {"sleeping", "waiting"}

(* workflow-builder.ts: a fired tripwire ends the DAG; nothing after it runs. *)
TripwireStops == \A s \in row.fired : \A t \in Above(s) : row.step[t] = "none"

(* distributed/README.md: an unended run is driven, adoptable as an orphan, *)
(* or parked on a step that a scanner resumes when due.                    *)
NeverStranded ==
    \/ row.status # "suspended"
    \/ \E d \in Drivers : drv[d].pc # "idle"
    \/ \E s \in Steps : row.step[s] \in {"sleeping", "waiting"}

(* A wait without a timeout is entitled to last until its signal comes. *)
AwaitsSignal == \E s \in Steps \ Timed : row.step[s] = "waiting" /\ s \notin delivered

(* coordinator recovery and the resume scanners: a stored run ends, or is   *)
(* parked on a signal nobody has sent yet; once sent, the signal wakes it.  *)
RunEnds == row.status # "none" ~> IsTerminal(row) \/ AwaitsSignal
=============================================================================
