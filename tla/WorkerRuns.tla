------------------------------ MODULE WorkerRuns ------------------------------
(***************************************************************************)
(* Worker-driven runs: the Zorya server (zorya/.../queued-workflows.ts)    *)
(* creates run rows and queues starts, the workers                         *)
(* (zorya-client/src/lib/worker.ts) claim the starts over HTTP, drive the  *)
(* runs under the run lock and complete or release their starts.  Between  *)
(* any two awaits of the server or of a worker everybody else may step;    *)
(* answers get lost, claims go stale under a live worker, locks are lost,  *)
(* workers and server calls die.                                           *)
(*                                                                         *)
(* How a drive walks its steps is WorkflowRun's subject: here a run is a   *)
(* sequence of steps that work, sleep or wait for a signal, and the row    *)
(* keeps which of them are stored.  Deleting and cancelling runs is left   *)
(* out.  The orphan sweep's grace period is too: it may list a run at any  *)
(* age.                                                                    *)
(***************************************************************************)
EXTENDS StartQueue, FiniteSetsExt

CONSTANTS
    Workers,
    Hosted,         \* worker -> the runs whose workflow it hosts
    Concurrency,    \* runs one worker drives at once
    Steps,          \* a run's steps in order: "work", "sleep" or "signal"
    NoOne, Server,  \* who may hold a run lock besides a claim
    Operators,      \* operator calls (rerun, resume) under way at once
    MaxOperations,  \* bound on operator calls
    MaxFaults       \* bound on lost answers, stale claims, lost locks, stops, deaths

ASSUME WorkerAssumption ==
    /\ Hosted \in [Workers -> SUBSET Runs]
    /\ Concurrency \in Nat \ {0} /\ MaxFaults \in Nat /\ MaxOperations \in Nat
    /\ Operators \in Nat
    /\ Steps \in Seq({"work", "sleep", "signal"})
    /\ NoOne \notin Tokens /\ Server \notin Tokens /\ NoOne # Server
    /\ IsFiniteSet(Runs)

VARIABLES
    row,        \* run -> the stored run
    due,        \* run -> whose clock ("server", "worker") says its sleep is over
    signal,     \* runs whose signal is in the store
    lock,       \* run -> the claim (or the server) driving it
    drive,      \* token -> the worker's in-memory drive under that claim
    inFlight,   \* worker -> run -> the drive its inFlight map names
    wk,         \* worker -> "up", "stopping", "aborting", "down"
    call,       \* worker -> limit of the claim call under way, or 0
    srv,        \* server calls under way
    stray,      \* runs a half-done server call left behind
    left        \* what is left of the bounds

runVars == <<row, due, signal>>
workerVars == <<drive, inFlight, wk, call>>
vars == <<queueVars, runVars, lock, workerVars, srv, stray, left>>

AllSteps == 1 .. Len(Steps)

NoDrive == [stage |-> "none", worker |-> NoOne, run |-> NoOne, steps |-> {},
            settle |-> "none", aborted |-> FALSE, settled |-> FALSE]

Init ==
    /\ QueueInit
    /\ row = [r \in Runs |-> [status |-> "none", run |-> 0, steps |-> {}, parked |-> "no"]]
    /\ due = [r \in Runs |-> {}]
    /\ signal = {}
    /\ lock = [r \in Runs |-> NoOne]
    /\ drive = [c \in Tokens |-> NoDrive]
    /\ inFlight = [w \in Workers |-> [r \in Runs |-> NoToken]]
    /\ wk = [w \in Workers |-> "up"]
    /\ call = [w \in Workers |-> 0]
    /\ srv = {}
    /\ stray = {}
    /\ left = [faults |-> MaxFaults, operations |-> MaxOperations]

Ended(r) == row[r].status = "ended"

Fault == left.faults > 0 /\ left' = [left EXCEPT !.faults = @ - 1]

-----------------------------------------------------------------------------
(* Server calls.  Each ends in an enqueue; one that dies before it leaves  *)
(* the run to the orphan sweep.                                            *)
ToEnqueue(r, keep) == [op |-> "enqueue", run |-> r, keep |-> keep, expected |-> 0]
OperatorCall(op, r, n) == [op |-> op, run |-> r, keep |-> FALSE, expected |-> n]

Becomes(o, p) == srv' = (srv \ {o}) \cup {p}

(* dispatch: create the row; a retried trigger of a pending run queues it  *)
(* again.                                                                  *)
Trigger(r) ==
    /\ \/ /\ row[r].status = "none"
          /\ row' = [row EXCEPT ![r].status = "pending", ![r].run = 1]
       \/ /\ row[r].status = "pending" /\ left.operations > 0
          /\ UNCHANGED row
    /\ left' = [left EXCEPT !.operations = IF row[r].status = "none" THEN @ ELSE @ - 1]
    /\ ToEnqueue(r, FALSE) \notin srv
    /\ srv' = srv \cup {ToEnqueue(r, FALSE)}
    /\ UNCHANGED <<queueVars, due, signal, lock, workerVars, stray>>

EnqueueCall(o) ==
    /\ o.op = "enqueue"
    /\ Enqueue(o.run, o.keep)
    /\ srv' = srv \ {o}
    /\ stray' = stray \ {o.run}
    /\ UNCHANGED <<runVars, lock, workerVars, left>>

(* The rerun and resume routes answer 409 unless the run they load has     *)
(* ended.                                                                  *)
OperatorAsks(op, r) ==
    /\ Ended(r)
    /\ left.operations > 0
    /\ Cardinality({o \in srv : o.op # "enqueue"}) < Operators
    /\ left' = [left EXCEPT !.operations = @ - 1]
    /\ srv' = srv \cup {OperatorCall(op, r, 0)}
    /\ UNCHANGED <<queueVars, runVars, lock, workerVars, stray>>

(* rerun loads the run once more, for its number. *)
RerunLoad(o) ==
    /\ o.op = "rerun"
    /\ Becomes(o, OperatorCall("fresh", o.run, row[o.run].run))
    /\ UNCHANGED <<queueVars, runVars, lock, workerVars, stray, left>>

FreshRow(r) == [status |-> "pending", run |-> row[r].run + 1, steps |-> {}, parked |-> "no"]

(* startFreshRun({ expectedRun }), without a fence. *)
StartFreshRun(o) ==
    /\ o.op = "fresh"
    /\ IF row[o.run].run # o.expected THEN UNCHANGED runVars
       ELSE /\ row' = [row EXCEPT ![o.run] = FreshRow(o.run)]
            /\ due' = [due EXCEPT ![o.run] = {}]
            /\ signal' = signal \ {o.run}
    /\ Becomes(o, ToEnqueue(o.run, FALSE))
    /\ UNCHANGED <<queueVars, lock, workerVars, stray, left>>

(* resetStepsUnderLock: refused while somebody drives the run. *)
ResumeLock(o) ==
    /\ o.op = "resume"
    /\ IF lock[o.run] # NoOne THEN srv' = srv \ {o} /\ UNCHANGED lock
       ELSE /\ lock' = [lock EXCEPT ![o.run] = Server]
            /\ Becomes(o, OperatorCall("reset", o.run, 0))
    /\ UNCHANGED <<queueVars, runVars, workerVars, stray, left>>

(* The steps of a resume from step n are n and everything after it. *)
ResetSteps(o, n) ==
    /\ o.op = "reset"
    /\ row' = [row EXCEPT ![o.run].steps = {s \in @ : s < n},
                          ![o.run].parked = "no",
                          ![o.run].status = IF @ = "ended" THEN "running" ELSE @]
    /\ due' = [due EXCEPT ![o.run] = {}]
    /\ Becomes(o, OperatorCall("unlock", o.run, 0))
    /\ UNCHANGED <<queueVars, signal, lock, workerVars, stray, left>>

ResumeUnlock(o) ==
    /\ o.op = "unlock"
    /\ lock' = IF lock[o.run] = Server THEN [lock EXCEPT ![o.run] = NoOne] ELSE lock
    /\ Becomes(o, ToEnqueue(o.run, FALSE))
    /\ UNCHANGED <<queueVars, runVars, workerVars, stray, left>>

(* The leader's scanners and its sweep list runs and queue them; what they *)
(* listed may be out of date by then.                                      *)
SleepIsDue(r) == row[r].status = "suspended" /\ row[r].parked = "sleep" /\ "server" \in due[r]
SignalArrived(r) == row[r].status = "suspended" /\ row[r].parked = "signal" /\ r \in signal

Scan(r) ==
    /\ SleepIsDue(r) \/ SignalArrived(r)
    /\ ToEnqueue(r, SleepIsDue(r)) \notin srv
    /\ srv' = srv \cup {ToEnqueue(r, SleepIsDue(r))}
    /\ UNCHANGED <<queueVars, runVars, lock, workerVars, stray, left>>

Orphaned(r) == row[r].status \in {"pending", "running"} /\ lock[r] = NoOne

Sweep(r) ==
    /\ Orphaned(r)
    /\ ToEnqueue(r, FALSE) \notin srv
    /\ srv' = srv \cup {ToEnqueue(r, FALSE)}
    /\ UNCHANGED <<queueVars, runVars, lock, workerVars, stray, left>>

ServerCallDies(o) ==
    /\ Fault
    /\ srv' = srv \ {o}
    /\ stray' = stray \cup {o.run}
    /\ UNCHANGED <<queueVars, runVars, lock, workerVars>>

(* The world: the parked sleep ends, on one clock before the other; the    *)
(* signal is sent.                                                         *)
SleepEnds(r, clock) ==
    /\ row[r].parked = "sleep" /\ clock \notin due[r]
    /\ due' = [due EXCEPT ![r] = @ \cup {clock}]
    /\ UNCHANGED <<queueVars, row, signal, lock, workerVars, srv, stray, left>>

SendSignal(r) ==
    /\ row[r].status \notin {"none", "ended"} /\ r \notin signal
    /\ signal' = signal \cup {r}
    /\ UNCHANGED <<queueVars, row, due, lock, workerVars, srv, stray, left>>

-----------------------------------------------------------------------------
(* Workers: the claim loop. *)

TokenInUse(c) == \/ drive[c].stage # "none"
                 \/ \E r \in Runs : rec[r].token = c \/ lock[r] = c

Offered(w) == {c \in Tokens : drive[c].stage = "offered" /\ drive[c].worker = w}
DrivesOf(w) == {c \in Tokens : drive[c].worker = w}

InFlight(w) == {inFlight[w][r] : r \in Runs} \ {NoToken}
Free(w) == Concurrency - Cardinality(InFlight(w))

(* What the server does with a claim request.  The resend of a call whose  *)
(* answer was lost (same claimId) gets back what that call still holds.    *)
Offer(w, r) == [NoDrive EXCEPT !.stage = "offered", !.worker = w, !.run = r]

StillHeld(w) == {c \in Offered(w) : Reclaimed(drive[c].run).token = c}

ServeClaim(w, limit) ==
    IF StillHeld(w) # {}
    THEN /\ OnlyReclaim
         /\ drive' = [c \in Tokens |-> IF c \in Offered(w) \ StillHeld(w) THEN NoDrive
                                       ELSE drive[c]]
    ELSE LET taken == Taken(Hosted[w], limit)
             fresh == {c \in Tokens : ~TokenInUse(c)}
         IN \E tokenOf \in [taken -> fresh] :
               /\ \A r, s \in taken : tokenOf[r] = tokenOf[s] => r = s
               /\ Claim(taken, tokenOf)
               /\ drive' = [c \in Tokens |->
                              IF \E r \in taken : tokenOf[r] = c
                              THEN Offer(w, CHOOSE r \in taken : tokenOf[r] = c)
                              ELSE IF c \in Offered(w) THEN NoDrive ELSE drive[c]]

(* A poll that finds nothing to claim and nothing to reclaim is no step. *)
ClaimTick(w) ==
    /\ wk[w] = "up" /\ call[w] = 0 /\ Free(w) > 0
    /\ Taken(Hosted[w], Free(w)) # {} \/ \E r \in Runs : rec[r].stale
    /\ ServeClaim(w, Free(w))
    /\ call' = [call EXCEPT ![w] = Free(w)]
    /\ UNCHANGED <<runVars, lock, inFlight, wk, srv, stray, left>>

ClaimResent(w) ==
    /\ call[w] # 0
    /\ Fault
    /\ ServeClaim(w, call[w])
    /\ UNCHANGED <<runVars, lock, inFlight, wk, call, srv, stray>>

(* launch: the map is keyed by the start, not by the claim. *)
Launch(w) ==
    /\ call[w] # 0
    /\ drive' = [c \in Tokens |-> IF c \in Offered(w) THEN [drive[c] EXCEPT !.stage = "launched"]
                                  ELSE drive[c]]
    /\ inFlight' = [inFlight EXCEPT ![w] =
          [r \in Runs |-> IF \E c \in Offered(w) : drive[c].run = r
                          THEN CHOOSE c \in Offered(w) : drive[c].run = r ELSE @[r]]]
    /\ call' = [call EXCEPT ![w] = 0]
    /\ UNCHANGED <<queueVars, runVars, lock, wk, srv, stray, left>>

(* The call fails for good: its claims are left to go stale. *)
ClaimFails(w) ==
    /\ call[w] # 0
    /\ Fault
    /\ drive' = [c \in Tokens |-> IF c \in Offered(w) THEN NoDrive ELSE drive[c]]
    /\ call' = [call EXCEPT ![w] = 0]
    /\ UNCHANGED <<queueVars, runVars, lock, inFlight, wk, srv, stray>>

-----------------------------------------------------------------------------
(* Workers: one drive, from runner.run to the settled start. *)

(* drive() returned: its entry leaves the map, whoever's entry is there. *)
End(c) ==
    /\ drive' = [drive EXCEPT ![c] = NoDrive]
    /\ inFlight' = [inFlight EXCEPT ![drive[c].worker][drive[c].run] = NoToken]

(* run() has returned or thrown.  A drive that lost its claim leaves the   *)
(* start to the new claimant.                                              *)
Returns(c, then, settle) ==
    IF drive[c].settled THEN End(c)
    ELSE /\ drive' = [drive EXCEPT ![c].stage = then, ![c].settle = settle]
         /\ UNCHANGED inFlight

(* The runner takes the run lock and loads the run: a locked run is given  *)
(* up, an ended one answers its stored outcome, any other is driven.       *)
RunLocked(c) ==
    /\ drive[c].stage = "launched"
    /\ lock[drive[c].run] # NoOne
    /\ Returns(c, "stopped", "locked")
    /\ UNCHANGED <<queueVars, runVars, lock, wk, call, srv, stray, left>>

Run(c) ==
    LET r == drive[c].run IN
    /\ drive[c].stage = "launched"
    /\ lock[r] = NoOne
    /\ lock' = [lock EXCEPT ![r] = c]
    /\ drive' = [drive EXCEPT ![c].stage = IF Ended(r) THEN "answered" ELSE "driving",
                              ![c].steps = row[r].steps]
    /\ UNCHANGED <<queueVars, runVars, inFlight, wk, call, srv, stray, left>>

(* Variant: the lock is not looked at. *)
DrivingUnfenced(c) == drive[c].stage = "driving"

Driving(c) == drive[c].stage = "driving" /\ lock[drive[c].run] = c
NextStep(c) == Min(AllSteps \ drive[c].steps)
Waits(c) ==
    LET r == drive[c].run kind == Steps[NextStep(c)]
    IN (kind = "sleep" /\ "worker" \notin due[r]) \/ (kind = "signal" /\ r \notin signal)

(* markRunning: the first stored step moves a pending run; a resumed run   *)
(* stays "suspended" until it ends or parks again.                         *)
MarkRunning(status) == IF status = "pending" THEN "running" ELSE status

StepDone(c) ==
    LET r == drive[c].run IN
    /\ Driving(c) /\ drive[c].steps # AllSteps /\ ~Waits(c)
    /\ drive' = [drive EXCEPT ![c].steps = @ \cup {NextStep(c)}]
    /\ row' = [row EXCEPT ![r].steps = @ \cup {NextStep(c)}, ![r].parked = "no",
                          ![r].status = MarkRunning(@)]
    /\ due' = IF Steps[NextStep(c)] = "sleep" THEN [due EXCEPT ![r] = {}] ELSE due
    /\ UNCHANGED <<queueVars, signal, lock, inFlight, wk, call, srv, stray, left>>

Park(c) ==
    LET r == drive[c].run IN
    /\ Driving(c) /\ drive[c].steps # AllSteps /\ Waits(c)
    /\ row' = [row EXCEPT ![r].status = "suspended", ![r].parked = Steps[NextStep(c)]]
    /\ drive' = [drive EXCEPT ![c].stage = "unlocking"]
    /\ UNCHANGED <<queueVars, due, signal, lock, inFlight, wk, call, srv, stray, left>>

Finish(c) ==
    /\ Driving(c) /\ drive[c].steps = AllSteps
    /\ row' = [row EXCEPT ![drive[c].run].status = "ended"]
    /\ drive' = [drive EXCEPT ![c].stage = "answered"]
    /\ UNCHANGED <<queueVars, due, signal, lock, inFlight, wk, call, srv, stray, left>>

(* The drive stops short: aborted, or its lock is no longer its own. *)
StopsShort(c) ==
    /\ drive[c].stage = "driving" /\ (drive[c].aborted \/ ~Driving(c))
    /\ drive' = [drive EXCEPT ![c].stage = "unlocking"]
    /\ UNCHANGED <<queueVars, runVars, lock, inFlight, wk, call, srv, stray, left>>

(* The lock is released and run() settles: an answer completes the start,  *)
(* an error has the run's status read back first.                          *)
Unlock(c) ==
    LET r == drive[c].run IN
    /\ drive[c].stage \in {"unlocking", "answered"}
    /\ lock' = IF lock[r] = c THEN [lock EXCEPT ![r] = NoOne] ELSE lock
    /\ IF drive[c].stage = "answered" THEN Returns(c, "settling", "complete")
       ELSE Returns(c, "stopped", "none")
    /\ UNCHANGED <<queueVars, runVars, wk, call, srv, stray, left>>

(* Variant: a run that was left running counts as at rest. *)
RestingForgetful(r) == row[r].status # "pending"

(* loadRest: a run at rest completes its start, unless its sleep ends soon *)
(* by this worker's clock; a run that stopped short gives the start back,  *)
(* at once when the worker is stopping.                                    *)
AtRest(r) == row[r].status \in {"suspended", "ended"}

SleepsOn(r) == row[r].status = "suspended" /\ row[r].parked = "sleep" /\ "worker" \notin due[r]

GiveBack(c) == IF drive[c].settle = "locked" \/ wk[drive[c].worker] = "up" THEN "delay"
               ELSE "release"

LoadRest(c) ==
    LET r == drive[c].run IN
    /\ drive[c].stage = "stopped"
    /\ \E settle \in IF ~AtRest(r)
                     THEN {GiveBack(c)}
                     ELSE IF SleepsOn(r) THEN {"delay", "complete"} ELSE {"complete"} :
          drive' = [drive EXCEPT ![c].stage = "settling", ![c].settle = settle]
    /\ UNCHANGED <<queueVars, runVars, lock, inFlight, wk, call, srv, stray, left>>

LoadFails(c) ==
    /\ drive[c].stage = "stopped"
    /\ Fault
    /\ drive' = [drive EXCEPT ![c].stage = "settling", ![c].settle = GiveBack(c)]
    /\ UNCHANGED <<queueVars, runVars, lock, inFlight, wk, call, srv, stray>>

(* settle: the call is processed; then its answer arrives, or is lost and  *)
(* the call is made again; or no call got through and the claim is left.   *)
ServeSettle(c) ==
    LET r == drive[c].run IN
    IF drive[c].settle = "complete" THEN Complete(r, c)
    ELSE Release(r, c, drive[c].settle = "delay")

Settle(c) ==
    /\ drive[c].stage = "settling"
    /\ IF drive[c].settled THEN UNCHANGED queueVars ELSE ServeSettle(c)
    /\ End(c)
    /\ UNCHANGED <<runVars, lock, wk, call, srv, stray, left>>

SettleAnswerLost(c) ==
    /\ drive[c].stage = "settling" /\ ~drive[c].settled
    /\ Fault
    /\ ServeSettle(c)
    /\ UNCHANGED <<runVars, lock, workerVars, srv, stray>>

SettleFails(c) ==
    /\ drive[c].stage = "settling"
    /\ Fault
    /\ End(c)
    /\ UNCHANGED <<queueVars, runVars, lock, wk, call, srv, stray>>

(* heartbeatWorkflowStart, while run() is under way. *)
Heartbeat(c) ==
    /\ drive[c].stage \in {"launched", "driving", "unlocking", "answered"}
    /\ ~drive[c].aborted
    /\ OnlyReclaim
    /\ drive' = IF Reclaimed(drive[c].run).token = c THEN drive
                ELSE [drive EXCEPT ![c].settled = TRUE, ![c].aborted = TRUE]
    /\ UNCHANGED <<runVars, lock, inFlight, wk, call, srv, stray, left>>

-----------------------------------------------------------------------------
(* Workers: stop, death, restart. *)

Stop(w) ==
    /\ wk[w] = "up"
    /\ Fault
    /\ wk' = [wk EXCEPT ![w] = "stopping"]
    /\ UNCHANGED <<queueVars, runVars, lock, drive, inFlight, call, srv, stray>>

(* The timeout: what is still in flight is abandoned. *)
StopAbort(w) ==
    /\ wk[w] = "stopping" /\ call[w] = 0 /\ InFlight(w) # {}
    /\ wk' = [wk EXCEPT ![w] = "aborting"]
    /\ drive' = [c \in Tokens |-> IF c \in InFlight(w) THEN [drive[c] EXCEPT !.aborted = TRUE]
                                  ELSE drive[c]]
    /\ UNCHANGED <<queueVars, runVars, lock, inFlight, call, srv, stray, left>>

(* ... and released at once if it has not unwound by the second timeout. *)
ReleaseNow(c) ==
    LET w == drive[c].worker IN
    /\ drive[c].stage # "none" /\ wk[w] = "aborting" /\ c \in InFlight(w)
    /\ ~drive[c].settled
    /\ drive' = [drive EXCEPT ![c].settled = TRUE]
    /\ Release(drive[c].run, c, FALSE)
    /\ UNCHANGED <<runVars, lock, inFlight, wk, call, srv, stray, left>>

Forget(w) ==
    /\ drive' = [c \in Tokens |-> IF c \in DrivesOf(w) THEN NoDrive ELSE drive[c]]
    /\ inFlight' = [inFlight EXCEPT ![w] = [r \in Runs |-> NoToken]]
    /\ call' = [call EXCEPT ![w] = 0]

(* stop() returned and the process exits, or it dies where it is. *)
Stopped(w) ==
    /\ wk[w] \in {"stopping", "aborting"} /\ call[w] = 0
    /\ \A c \in InFlight(w) : wk[w] = "aborting" /\ drive[c].settled
    /\ wk' = [wk EXCEPT ![w] = "down"]
    /\ Forget(w)
    /\ UNCHANGED <<queueVars, runVars, lock, srv, stray, left>>

Crash(w) ==
    /\ wk[w] # "down"
    /\ Fault
    /\ wk' = [wk EXCEPT ![w] = "down"]
    /\ Forget(w)
    /\ UNCHANGED <<queueVars, runVars, lock, srv, stray>>

Restart(w) ==
    /\ wk[w] = "down"
    /\ wk' = [wk EXCEPT ![w] = "up"]
    /\ UNCHANGED <<queueVars, runVars, lock, drive, inFlight, call, srv, stray, left>>

(* Leases: a claim nobody beats and a lock nobody renews run out; either   *)
(* may also be lost under a live worker that was slow.                     *)
ClaimGoesStale(r) ==
    /\ GoesStale(r)
    /\ IF drive[rec[r].token].stage = "none" THEN UNCHANGED left ELSE Fault
    /\ UNCHANGED <<runVars, lock, workerVars, srv, stray>>

DelayPasses(r) ==
    /\ DelayEnds(r)
    /\ UNCHANGED <<runVars, lock, workerVars, srv, stray, left>>

LockRunsOut(r) ==
    /\ lock[r] # NoOne
    /\ lock' = [lock EXCEPT ![r] = NoOne]
    /\ IF \/ lock[r] \in Tokens /\ drive[lock[r]].stage = "none"
          \/ lock[r] = Server /\ ~\E o \in srv : o.run = r /\ o.op \in {"reset", "unlock"}
       THEN UNCHANGED left ELSE Fault
    /\ UNCHANGED <<queueVars, runVars, workerVars, srv, stray>>

-----------------------------------------------------------------------------
ServerStep(r) ==
    \E o \in srv : o.run = r /\
        (EnqueueCall(o) \/ RerunLoad(o) \/ StartFreshRun(o) \/ ResumeLock(o)
         \/ (\E n \in AllSteps : ResetSteps(o, n)) \/ ResumeUnlock(o))

DriveStep(c) == \/ RunLocked(c) \/ Run(c) \/ StepDone(c) \/ Park(c) \/ Finish(c) \/ StopsShort(c)
                \/ Unlock(c) \/ LoadRest(c) \/ Settle(c)

WorkerStep(w) == ClaimTick(w) \/ Launch(w) \/ StopAbort(w) \/ Stopped(w) \/ Restart(w)

Next ==
    \/ \E r \in Runs : \/ Trigger(r) \/ ServerStep(r) \/ Scan(r) \/ Sweep(r)
                       \/ OperatorAsks("rerun", r) \/ OperatorAsks("resume", r)
                       \/ (\E clock \in {"server", "worker"} : SleepEnds(r, clock))
                       \/ SendSignal(r)
                       \/ ClaimGoesStale(r) \/ DelayPasses(r) \/ LockRunsOut(r)
    \/ \E o \in srv : ServerCallDies(o)
    \/ \E c \in Tokens : \/ DriveStep(c) \/ Heartbeat(c) \/ ReleaseNow(c)
                         \/ LoadFails(c) \/ SettleAnswerLost(c) \/ SettleFails(c)
    \/ \E w \in Workers : WorkerStep(w) \/ ClaimResent(w) \/ ClaimFails(w) \/ Stop(w) \/ Crash(w)

Spec == Init /\ [][Next]_vars

(* Every loop of a live server and of a live worker goes on, a worker that *)
(* went down is started again, time passes.  Faults, operator calls and    *)
(* signals are never owed.                                                 *)
FairSpec ==
    /\ Spec
    /\ \A r \in Runs : /\ WF_vars(ServerStep(r)) /\ WF_vars(Scan(r)) /\ WF_vars(Sweep(r))
                       /\ \A clock \in {"server", "worker"} : WF_vars(SleepEnds(r, clock))
                       /\ WF_vars(left' = left /\ ClaimGoesStale(r))
                       /\ WF_vars(left' = left /\ LockRunsOut(r))
                       /\ WF_vars(DelayPasses(r))
    /\ \A c \in Tokens : WF_vars(DriveStep(c))
    /\ \A w \in Workers : WF_vars(WorkerStep(w))

-----------------------------------------------------------------------------
(* Types, the queue's included. *)
TypeOK ==
    /\ QueueTypeOK
    /\ row \in [Runs -> [status : {"none", "pending", "running", "suspended", "ended"},
                         run : Nat, steps : SUBSET AllSteps, parked : {"no", "sleep", "signal"}]]
    /\ \A r \in Runs : due[r] \subseteq {"server", "worker"} /\ lock[r] \in Tokens \cup {Server, NoOne}
    /\ signal \subseteq Runs /\ stray \subseteq Runs
    /\ \A c \in Tokens : drive[c].stage # "none" => /\ drive[c].worker \in Workers
                                                   /\ drive[c].run \in Runs
    /\ \A w \in Workers : /\ wk[w] \in {"up", "stopping", "aborting", "down"}
                          /\ call[w] \in 0 .. Concurrency
    /\ \A o \in srv : o.run \in Runs

(* The start queue alone keeps every live run moving                       *)
(* (queued-workflows.ts: recovery is for runs nobody drives): unless a     *)
(* server call died half-way, a run that is not at rest has its start in   *)
(* the queue, or is about to, also when it is driven under outdated claims. *)
LiveRunIsQueued ==
    /\ TypeOK
    /\ \A r \in Runs \ stray : row[r].status \in {"pending", "running"} =>
          rec[r].queued \/ \E o \in srv : o.run = r

(* A run that ended has every step of its current run number stored,       *)
(* whatever reruns and resumes came between (run-extras.ts: "resetting a   *)
(* live run would race its driver").                                       *)
EndedRunIsWhole ==
    \A r \in Runs : Ended(r) => row[r].steps = AllSteps

(* A run there is something to do for: it is under way, parked on a sleep, *)
(* or on a signal that was sent.                                           *)
Drivable(r) == \/ row[r].status \in {"pending", "running"}
               \/ row[r].status = "suspended" /\ (row[r].parked = "signal" => r \in signal)

(* A resumed run whose drive stopped short after its parked step was       *)
(* stored: it still reads "suspended", so its start was completed, and no  *)
(* scanner and no sweep lists it.                                          *)
Forgotten(r) == /\ row[r].status = "suspended" /\ row[r].parked = "no"
                /\ ~rec[r].queued /\ lock[r] = NoOne
                /\ ~\E o \in srv : o.run = r

(* What there is something to do for does not stay so, whoever dies, loses *)
(* a lock, a claim or an answer: the run ends, or parks on a signal nobody *)
(* has sent - or it is forgotten, the one way out (MCForgotten.cfg).       *)
DrivableRunIsDriven ==
    \A r \in Runs : Drivable(r) ~> (~Drivable(r) \/ Forgotten(r))

(* "Suspended runs are never adopted - the scanners resume them when due." *)
(* (distributed/README.md): a suspended run with work left is never        *)
(* without something that will resume it.                                  *)
NeverForgotten == \A r \in Runs : ~Forgotten(r)
=============================================================================
