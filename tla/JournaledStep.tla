--------------------------- MODULE JournaledStep ---------------------------
(***************************************************************************)
(* A journaled step: a body that is re-run from the top against a journal  *)
(* of what its yields did before (durable/journaled-step.ts and the files  *)
(* it names), the rollback of a failed attempt (compensation-stack.ts),    *)
(* and a child run the body waits for (journaled-ctx-child.ts,             *)
(* child-wake.ts).                                                         *)
(*                                                                         *)
(* The body is a fixed sequence of yields, each an activity, a signal wait *)
(* with a timeout, or one child run; a yield in Caught stands in a         *)
(* try/catch.  Drivers take the run lock one after another; a driver whose *)
(* lease ran out keeps going until a write of its own is rejected.  The    *)
(* lock is seen as its current holder: LeaseTable and Fence have the rest. *)
(***************************************************************************)
EXTENDS Naturals, Sequences, FiniteSets, FiniteSetsExt, Functions

CONSTANTS
    Drivers,       \* processes that drive the run
    Nobody,        \* holder of a free lock
    ChildDriver,   \* a process that drives the child on its own
    Body,          \* the yields of the body, in order
    Kind,          \* yield -> "activity", "signal" or "child"
    Idempotent,    \* activities with idempotent: true
    Compensable,   \* activities with a compensate callback
    Caught,        \* yields whose failure the body catches
    CanFail,       \* activities and children that may fail
    UndoCanFail,   \* activities whose compensate callback may throw
    MaxRetries,    \* bound on retries of the step
    MaxFaults,     \* bound on crashes, lapsed leases and lost calls
    MaxChildRuns   \* bound on runs of the child: the last one succeeds

ASSUME JournalAssumption ==
    /\ Nobody \notin Drivers /\ ChildDriver \notin Drivers \cup {Nobody}
    /\ Body \in Seq(DOMAIN Kind) /\ \A i, j \in DOMAIN Body : Body[i] = Body[j] => i = j
    /\ Kind \in [DOMAIN Kind -> {"activity", "signal", "child"}]
    /\ Compensable \subseteq {y \in Range(Body) : Kind[y] = "activity"}
    /\ {MaxRetries, MaxFaults, MaxChildRuns} \subseteq Nat

VARIABLES
    journal,    \* slot -> the step's journal entry there
    run,        \* the run row: status, what its step's row waits for, if it is done
    owner,      \* holder of the run lock, its lease live
    drv,        \* driver -> its position in runJournaledStep
    child,      \* the child run: status ("awake" is stored as suspended, with
                \* no row left that waits), run number, holder of its lock
    ended,      \* child-ended signals stored for this run, by run number
    waking,     \* child runs whose driver has yet to wake this run
    clock,      \* which deadlines have passed: the signal's, the child's
    sent,       \* the signal is stored for this run
    scan,       \* the signal scanner has listed the run and not yet acted
    inForce,    \* history: activity -> its executions not rolled back
    executed,   \* history: activity -> number of executions
    left        \* retries and faults still to come

jobVars == <<journal, run, owner, drv>>
childVars == <<child, ended, waking>>
worldVars == <<clock, sent, scan>>
effectVars == <<inForce, executed>>
vars == <<jobVars, childVars, worldVars, effectVars, left>>

Activities == {y \in Range(Body) : Kind[y] = "activity"}
Slots == 0 .. 2 * Len(Body)

(* JournalExit: a success with its value, or a failure told apart by tag.  *)
(* A signal's value says whether it was delivered or timed out.            *)
Success(v) == [ok |-> TRUE, value |-> v]
NoExit == [ok |-> FALSE, value |-> 0]
Failure == [ok |-> FALSE, value |-> 1]
LockLost == [ok |-> FALSE, value |-> 2]
Delivered == Success(1)
TimedOut == Success(2)

NoEntry == [name |-> "", kind |-> "", phase |-> "none", exit |-> NoExit]
Pending(name, kind) == [name |-> name, kind |-> kind, phase |-> "pending", exit |-> NoExit]
NewJournal == [s \in Slots |-> NoEntry]

Idle == [pc |-> "idle", at |-> 0, next |-> 0, snap |-> NewJournal, seen |-> {},
         comps |-> {}, hand |-> NoExit, rolled |-> {}]

(* runJournaledStep begins: the journal is loaded, the body starts over. *)
Begun == [Idle EXCEPT !.pc = "yield", !.at = 1, !.snap = journal]

Init ==
    /\ journal = NewJournal
    /\ run = [status |-> "running", waits |-> "", on |-> 0, timed |-> FALSE, done |-> FALSE]
    /\ owner = Nobody
    /\ drv = [d \in Drivers |-> Idle]
    /\ child = [status |-> "none", run |-> 0, by |-> Nobody]
    /\ ended = {} /\ waking = {}
    /\ clock = [signal |-> FALSE, child |-> FALSE]
    /\ sent = FALSE /\ scan = FALSE
    /\ inForce = [a \in Activities |-> {}]
    /\ executed = [a \in Activities |-> 0]
    /\ left = [retries |-> MaxRetries, faults |-> MaxFaults]

Holds(d) == owner = d

Set(d, s) == drv' = [drv EXCEPT ![d] = s]

Fault == left.faults > 0 /\ left' = [left EXCEPT !.faults = @ - 1]

(* The run leaves this driver's hands with the row `row`. *)
LetGo(d, row) ==
    /\ run' = row
    /\ owner' = Nobody
    /\ Set(d, Idle)

(* The step's row replaces the one that waited.  The run's status moves    *)
(* from pending only (markRunning): a resumed run is still suspended.      *)
StepSaved(done) == [run EXCEPT !.waits = "", !.on = 0, !.timed = FALSE, !.done = done]

(* The row of a run that has ended. *)
Over(status) == [StepSaved(run.done) EXCEPT !.status = status]

(* A fenced write is rejected: FenceTokenMismatchError abandons the run. *)
Abandon(d) ==
    /\ ~Holds(d)
    /\ Set(d, Idle)
    /\ UNCHANGED <<journal, run, owner>>

-----------------------------------------------------------------------------
(* The journal store (in-memory/journal.ts).                               *)

(* appendPending: idempotent on the slot. *)
AppendPending(s, name, kind) ==
    journal' = [journal EXCEPT ![s] = IF @.phase = "none" THEN Pending(name, kind) ELSE @]

(* completePending: first writer wins. *)
CompletePending(s, exit) ==
    journal' = [journal EXCEPT ![s] =
        IF @.phase = "pending" THEN [@ EXCEPT !.phase = "completed", !.exit = exit] ELSE @]

(* Variant: the caller goes on with its own exit. *)
OwnExit(s, exit) == exit

(* JournalCursor.complete: the exit the caller must go on with. *)
StoredExit(s, exit) == IF journal[s].phase = "completed" THEN journal[s].exit ELSE exit

-----------------------------------------------------------------------------
(* Taking the run.                                                         *)

PendingSignals == {s \in Slots : journal[s].kind = "signal" /\ journal[s].phase = "pending"}

(* A suspended run is resumed by the sleep scanner when its wait's deadline *)
(* has passed, by the signal scanner once the signal it waits for is there. *)
Woken ==
    \/ run.waits = "signal" /\ (clock.signal \/ (sent /\ PendingSignals = {}))
    \/ /\ run.waits = "child"
       /\ run.on \in ended \/ (run.timed /\ (clock.child \/ child.run > run.on))

Drivable == run.status = "running" \/ (run.status = "suspended" /\ Woken)

(* The row of a resumed run goes on saying what the run waited for until   *)
(* the step ends or waits again: a run whose driver died is listed anew.   *)
(* A step whose row is completed is not run again.                         *)
Lock(d) ==
    /\ drv[d].pc = "idle" /\ owner = Nobody /\ Drivable
    /\ owner' = d
    /\ Set(d, IF run.done THEN [Idle EXCEPT !.pc = "complete"] ELSE Begun)
    /\ UNCHANGED <<journal, run, childVars, worldVars, effectVars, left>>

-----------------------------------------------------------------------------
(* One yield of the body.                                                  *)

Yield(d) == Body[drv[d].at]
Recorded(d) == drv[d].snap[drv[d].next]
AtYield(d, kinds) ==
    drv[d].pc = "yield" /\ drv[d].at <= Len(Body) /\ Kind[Yield(d)] \in kinds

(* expectRecorded: another yield recorded this slot. *)
Drifted(d) ==
    /\ Recorded(d).phase # "none"
    /\ Recorded(d).name # Yield(d) \/ Recorded(d).kind # Kind[Yield(d)]

(* CompensationStack.register: an activity that succeeds and can be undone  *)
(* reserves the next slot for its compensation, on replay too.             *)
Reserves(d, exit) == exit.ok /\ Yield(d) \in Compensable

(* Variant: replayed activities are not registered. *)
RegisteredLive(d, exit) ==
    IF ~Reserves(d, exit) \/ Recorded(d).phase = "completed" THEN drv[d].comps
    ELSE drv[d].comps \cup {[slot |-> drv[d].next + 1, source |-> drv[d].next,
                             name |-> Yield(d), value |-> exit.value]}

Registered(d, exit) ==
    IF ~Reserves(d, exit) THEN drv[d].comps
    ELSE drv[d].comps \cup {[slot |-> drv[d].next + 1, source |-> drv[d].next,
                             name |-> Yield(d), value |-> exit.value]}

(* The exit of a settled yield goes to the body.  A failure that escapes   *)
(* the body ends the attempt; WorkflowLockLostError is not a failure of    *)
(* the body's own and leaves without unwinding.                            *)
Settled(d, exit) ==
    CASE exit.ok \/ Yield(d) \in Caught ->
           [drv[d] EXCEPT !.pc = "yield", !.at = @ + 1, !.hand = NoExit,
                          !.next = @ + (IF Reserves(d, exit) THEN 2 ELSE 1),
                          !.seen = @ \cup {[slot |-> drv[d].next, exit |-> exit]},
                          !.comps = Registered(d, exit)]
      [] ~exit.ok /\ Yield(d) \notin Caught /\ exit = LockLost -> [Idle EXCEPT !.pc = "leave"]
      [] OTHER -> [drv[d] EXCEPT !.pc = "unwind", !.hand = NoExit, !.at = 0, !.next = 0, !.seen = {}]

Replay(d) ==
    /\ AtYield(d, {"activity", "signal", "child"})
    /\ ~Drifted(d) /\ Recorded(d).phase = "completed"
    /\ Set(d, Settled(d, Recorded(d).exit))
    /\ UNCHANGED <<journal, run, owner, childVars, worldVars, effectVars, left>>

(* Variant: an activity whose outcome is unknown is run again. *)
RunsAgain(d) == ~Drifted(d)

(* An activity left pending by a driver that died in it may run again only *)
(* when it is idempotent; a wait or a child just goes on.                   *)
MayRun(d) ==
    /\ ~Drifted(d)
    /\ \/ Recorded(d).phase = "none"
       \/ Recorded(d).phase = "pending" /\ (Kind[Yield(d)] = "activity" => Yield(d) \in Idempotent)

(* checkpointOutcome: the step's row, under the fence; the run's end is a  *)
(* write of its own.                                                       *)
SaveStep(d, done, pc) ==
    /\ Holds(d)
    /\ run' = StepSaved(done)
    /\ Set(d, [Idle EXCEPT !.pc = pc])
    /\ UNCHANGED <<journal, owner>>

(* AmbiguousActivityOutcome and JournalNonDeterminismError: the step fails *)
(* at once, nothing is rolled back, an operator has to look.               *)
Halt(d) ==
    /\ AtYield(d, {"activity", "signal", "child"})
    /\ Recorded(d).phase # "completed" \/ Drifted(d)
    /\ ~MayRun(d)
    /\ \/ Abandon(d)
       \/ SaveStep(d, FALSE, "halt")
    /\ UNCHANGED <<childVars, worldVars, effectVars, left>>

(* writePending; a signal that is already pending is not written again. *)
WritePending(d) ==
    /\ AtYield(d, {"activity", "signal", "child"})
    /\ MayRun(d) /\ Recorded(d).phase # "completed"
    /\ \/ Abandon(d)
       \/ /\ Holds(d)
          /\ AppendPending(drv[d].next, Yield(d), Kind[Yield(d)])
          /\ Set(d, [drv[d] EXCEPT !.pc = Kind[Yield(d)]])
          /\ UNCHANGED <<run, owner>>
    /\ UNCHANGED <<childVars, worldVars, effectVars, left>>

(* recordOutcome's completion: the outcome in hand, or the stored one. *)
Record(d) ==
    /\ drv[d].pc = "record"
    /\ \/ Abandon(d)
       \/ /\ Holds(d)
          /\ CompletePending(drv[d].next, drv[d].hand)
          /\ Set(d, Settled(d, StoredExit(drv[d].next, drv[d].hand)))
          /\ UNCHANGED <<run, owner>>
    /\ UNCHANGED <<childVars, worldVars, effectVars, left>>

-----------------------------------------------------------------------------
(* ctx.activity: the side effect itself asks nobody for a fence.  Running  *)
(* an idempotent activity again is running it once.                        *)
Execution(a) == IF a \in Idempotent THEN 1 ELSE executed[a] + 1

RunActivity(d) ==
    /\ drv[d].pc = "activity"
    /\ \/ /\ Set(d, [drv[d] EXCEPT !.pc = "record", !.hand = Success(Execution(Yield(d)))])
          /\ executed' = [executed EXCEPT ![Yield(d)] = Execution(Yield(d))]
          /\ inForce' = [inForce EXCEPT ![Yield(d)] = @ \cup {Execution(Yield(d))}]
       \/ /\ Yield(d) \in CanFail
          /\ Set(d, [drv[d] EXCEPT !.pc = "record", !.hand = Failure])
          /\ UNCHANGED effectVars
    /\ UNCHANGED <<journal, run, owner, childVars, worldVars, left>>

(* ctx.signal: past its deadline the body records the timeout itself, and  *)
(* takes a delivery that came first; before it, the run is suspended.      *)
Suspended(waits, on, timed) ==
    [status |-> "suspended", waits |-> waits, on |-> on, timed |-> timed, done |-> FALSE]

AwaitSignal(d) ==
    /\ drv[d].pc = "signal"
    /\ \/ Abandon(d)
       \/ /\ Holds(d) /\ clock.signal
          /\ CompletePending(drv[d].next, TimedOut)
          /\ Set(d, Settled(d, StoredExit(drv[d].next, TimedOut)))
          /\ UNCHANGED <<run, owner>>
       \/ /\ Holds(d) /\ ~clock.signal
          /\ LetGo(d, Suspended("signal", 0, TRUE))
          /\ UNCHANGED journal
    /\ UNCHANGED <<childVars, worldVars, effectVars, left>>

-----------------------------------------------------------------------------
(* ctx.child and runChildWorkflow.  First the row: created if absent, under *)
(* the parent's fence, else its status is read.                            *)
CreateChild(d) ==
    /\ drv[d].pc = "child"
    /\ \/ Abandon(d) /\ UNCHANGED <<child, clock>>
       \/ /\ Holds(d)
          /\ IF child.status = "none"
               THEN /\ child' = [status |-> "running", run |-> 1, by |-> Nobody]
                    /\ clock' = [clock EXCEPT !.child = FALSE]
               ELSE UNCHANGED <<child, clock>>
          /\ Set(d, [drv[d] EXCEPT !.pc = IF child.status = "failed" THEN "retake" ELSE "take"])
          /\ UNCHANGED <<journal, run, owner>>
    /\ UNCHANGED <<ended, waking, sent, scan, effectVars, left>>

ChildTerminal == child.status \in {"completed", "failed"}

(* Then the child's own lock, under no fence of the parent's.  An ended    *)
(* child answers as stored; one that was read as failed is run from        *)
(* scratch (force), whatever became of it since.                           *)
TakeChild(d) ==
    /\ drv[d].pc \in {"take", "retake"}
    /\ \/ /\ child.by # Nobody                       \* WorkflowLockError
          /\ Set(d, [drv[d] EXCEPT !.pc = "park"])
          /\ UNCHANGED <<child, clock>>
       \/ /\ child.by = Nobody /\ ChildTerminal /\ drv[d].pc = "take"
          /\ Set(d, [drv[d] EXCEPT !.pc = "record",
                       !.hand = IF child.status = "completed" THEN Success(child.run) ELSE Failure])
          /\ UNCHANGED <<child, clock>>
       \/ /\ child.by = Nobody /\ ChildTerminal /\ drv[d].pc = "retake"
          /\ child' = [status |-> "running", run |-> child.run + 1, by |-> d]
          /\ clock' = [clock EXCEPT !.child = FALSE]
          /\ Set(d, [drv[d] EXCEPT !.pc = "drive"])
       \/ /\ child.by = Nobody /\ ~ChildTerminal
          /\ child' = [child EXCEPT !.by = d]
          /\ Set(d, [drv[d] EXCEPT !.pc = "drive"])
          /\ UNCHANGED clock
    /\ UNCHANGED <<journal, run, owner, ended, waking, sent, scan, effectVars, left>>

(* What one drive of the child comes to: it sleeps until its deadline.  A  *)
(* child that slept saves the row of its sleep before it ends, and is      *)
(* still suspended after that: markRunning moves a pending run only.       *)
ChildAfter(status) == [child EXCEPT !.status = status, !.by = Nobody]
ChildWakes == clock.child /\ child.status = "suspended" /\ child' = [child EXCEPT !.status = "awake"]
ChildCanEnd == clock.child /\ child.status # "suspended"
ChildEndings ==
    {"completed"} \cup (IF "child" \in CanFail /\ child.run < MaxChildRuns THEN {"failed"} ELSE {})

(* drivenByParent: the parent reads the outcome, so nobody is woken. *)
DriveChild(d) ==
    /\ drv[d].pc = "drive"
    /\ \/ /\ ~clock.child
          /\ child' = ChildAfter("suspended")
          /\ Set(d, [drv[d] EXCEPT !.pc = "park"])
       \/ ChildWakes /\ UNCHANGED drv
       \/ /\ ChildCanEnd
          /\ \E status \in ChildEndings :
               /\ child' = ChildAfter(status)
               /\ Set(d, [drv[d] EXCEPT !.pc = "record",
                            !.hand = IF status = "completed" THEN Success(child.run) ELSE Failure])
    /\ UNCHANGED <<journal, run, owner, ended, waking, worldVars, effectVars, left>>

(* The parent's lock signal aborts: its lease is lost, or its worker stops. *)
(* The child leaves its run in flight, or does not take it at all, with    *)
(* WorkflowLockLostError, which ctx.child does not pass through: it is     *)
(* recorded as the child's outcome.                                        *)
StopChild(d) ==
    /\ drv[d].pc \in {"take", "retake", "drive"}
    /\ IF Holds(d) THEN Fault ELSE UNCHANGED left
    /\ child' = IF drv[d].pc = "drive" THEN [child EXCEPT !.by = Nobody] ELSE child
    /\ Set(d, [drv[d] EXCEPT !.pc = "record", !.hand = LockLost])
    /\ UNCHANGED <<journal, run, owner, ended, waking, worldVars, effectVars>>

(* suspendOnChild: the child is loaded, then the run is parked on the end  *)
(* of the child run that was loaded, or on its wake time.                  *)
LoadChild(d) ==
    /\ drv[d].pc = "park"
    /\ Set(d, [drv[d] EXCEPT !.pc = "parked",
                 !.hand = [ok |-> child.status = "suspended", value |-> child.run]])
    /\ UNCHANGED <<journal, run, owner, childVars, worldVars, effectVars, left>>

ParkOnChild(d) ==
    /\ drv[d].pc = "parked"
    /\ \/ Abandon(d)
       \/ /\ Holds(d)
          /\ LetGo(d, Suspended("child", drv[d].hand.value, drv[d].hand.ok))
          /\ UNCHANGED journal
    /\ UNCHANGED <<childVars, worldVars, effectVars, left>>

-----------------------------------------------------------------------------
(* CompensationStack.unwind, in reverse; a completed compensation of an    *)
(* earlier driver is skipped, and a write that is rejected skips one too.  *)
AlreadyUndone(d, c) == drv[d].snap[c.slot].phase = "completed"

(* Variant: compensations run in the order of registration. *)
FirstComp(comps) == CHOOSE c \in comps : \A other \in comps : c.slot <= other.slot

(* The one registered last: slots are reserved in the order of registration. *)
NextComp(comps) == CHOOSE c \in comps : \A other \in comps : other.slot <= c.slot

(* Variant: an activity whose compensation threw is discarded too. *)
CompDoneAnyway(d, c, ok) ==
    [drv[d] EXCEPT !.pc = "unwind", !.comps = @ \ {c}, !.hand = NoExit,
                   !.rolled = IF ok \/ Holds(d) THEN @ \cup {c.source, c.slot} ELSE @]

CompDone(d, c, ok) ==
    [drv[d] EXCEPT !.pc = "unwind", !.comps = @ \ {c}, !.hand = NoExit,
                   !.rolled = IF ok THEN @ \cup {c.source, c.slot} ELSE @]

Unwind(d) ==
    /\ drv[d].pc = "unwind" /\ drv[d].comps # {}
    /\ LET c == NextComp(drv[d].comps)
       IN \/ /\ AlreadyUndone(d, c)
             /\ Set(d, CompDone(d, c, drv[d].snap[c.slot].exit.ok))
             /\ UNCHANGED journal
          \/ /\ ~AlreadyUndone(d, c) /\ ~Holds(d)
             /\ Set(d, CompDone(d, c, FALSE))
             /\ UNCHANGED journal
          \/ /\ ~AlreadyUndone(d, c) /\ Holds(d)
             /\ AppendPending(c.slot, c.name, "compensation")
             /\ Set(d, [drv[d] EXCEPT !.pc = "undo"])
    /\ UNCHANGED <<run, owner, childVars, worldVars, effectVars, left>>

Undo(d) ==
    /\ drv[d].pc = "undo"
    /\ LET c == NextComp(drv[d].comps)
       IN \/ /\ inForce' = [inForce EXCEPT ![c.name] = @ \ {c.value}]
             /\ Set(d, [drv[d] EXCEPT !.pc = "undone", !.hand = Success(0)])
          \/ /\ c.name \in UndoCanFail
             /\ Set(d, [drv[d] EXCEPT !.pc = "undone", !.hand = Failure])
             /\ UNCHANGED inForce
    /\ UNCHANGED <<journal, run, owner, childVars, worldVars, executed, left>>

RecordUndo(d) ==
    /\ drv[d].pc = "undone"
    /\ LET c == NextComp(drv[d].comps)
       IN /\ Set(d, CompDone(d, c, drv[d].hand.ok /\ Holds(d)))
          /\ IF Holds(d) THEN CompletePending(c.slot, drv[d].hand) ELSE UNCHANGED journal
    /\ UNCHANGED <<run, owner, childVars, worldVars, effectVars, left>>

(* discardFailedAttempt: recorded failures and what was rolled back go. *)
Failed(e) == e.kind # "signal" /\ e.phase = "completed" /\ ~e.exit.ok

Discard(d) ==
    /\ drv[d].pc = "unwind" /\ drv[d].comps = {}
    /\ \/ Abandon(d)
       \/ /\ Holds(d)
          /\ journal' = [s \in Slots |-> IF s \in drv[d].rolled \/ Failed(journal[s])
                                           THEN NoEntry ELSE journal[s]]
          /\ Set(d, [Idle EXCEPT !.pc = "over"])
          /\ UNCHANGED <<run, owner>>
    /\ UNCHANGED <<childVars, worldVars, effectVars, left>>

(* The attempt is over: the step is retried, or its failure is saved. *)
Retry(d) ==
    /\ drv[d].pc = "over" /\ Holds(d) /\ left.retries > 0
    /\ left' = [left EXCEPT !.retries = @ - 1]
    /\ Set(d, Begun)
    /\ UNCHANGED <<journal, run, owner, childVars, worldVars, effectVars>>

Fail(d) ==
    /\ drv[d].pc = "over"
    /\ \/ Abandon(d)
       \/ SaveStep(d, FALSE, "fail")
    /\ UNCHANGED <<childVars, worldVars, effectVars, left>>

(* rollBackAndFail: the run fails.  No other step has to be rolled back;   *)
(* the phase in which that happens is WorkflowRun's.                       *)
FailRun(d) ==
    /\ drv[d].pc \in {"halt", "fail"}
    /\ \/ Abandon(d)
       \/ /\ Holds(d)
          /\ LetGo(d, Over(IF drv[d].pc = "halt" THEN "halted" ELSE "failed"))
          /\ UNCHANGED journal
    /\ UNCHANGED <<childVars, worldVars, effectVars, left>>

(* An engine exit: the run is left in flight for the next driver. *)
Leave(d) ==
    /\ drv[d].pc = "leave"
    /\ Abandon(d) \/ (Holds(d) /\ LetGo(d, run) /\ UNCHANGED journal)
    /\ UNCHANGED <<childVars, worldVars, effectVars, left>>

(* The body is through: saveStepResult, and later completeWorkflow. *)
Finish(d) ==
    /\ drv[d].pc = "yield" /\ drv[d].at > Len(Body)
    /\ Abandon(d) \/ SaveStep(d, TRUE, "complete")
    /\ UNCHANGED <<childVars, worldVars, effectVars, left>>

Complete(d) ==
    /\ drv[d].pc = "complete"
    /\ Abandon(d) \/ (Holds(d) /\ LetGo(d, Over("completed")) /\ UNCHANGED journal)
    /\ UNCHANGED <<childVars, worldVars, effectVars, left>>

-----------------------------------------------------------------------------
(* A driver dies, and its lease runs out before anyone can take the run;   *)
(* or it stalls past its lease and goes on.                                *)
Crash(d) ==
    /\ drv[d].pc # "idle" /\ Fault
    /\ Set(d, Idle)
    /\ owner' = IF Holds(d) THEN Nobody ELSE owner
    /\ UNCHANGED <<journal, run, childVars, worldVars, effectVars>>

LeaseRunsOut ==
    /\ owner # Nobody /\ Fault
    /\ owner' = Nobody
    /\ UNCHANGED <<journal, run, drv, childVars, worldVars, effectVars>>

(* deliverSignal, and the signal scanner: it lists the run, and later      *)
(* completes the pending entry (completeSignal, unfenced) and resumes.  A   *)
(* listing that finds nothing pending only resumes: that is Woken.         *)
SendSignal ==
    /\ ~sent /\ sent' = TRUE
    /\ UNCHANGED <<jobVars, childVars, clock, scan, effectVars, left>>

ListSignal ==
    /\ ~scan /\ sent /\ run.status = "suspended" /\ run.waits = "signal"
    /\ PendingSignals # {}
    /\ scan' = TRUE
    /\ UNCHANGED <<jobVars, childVars, clock, sent, effectVars, left>>

CompleteSignal ==
    /\ scan /\ scan' = FALSE
    /\ IF PendingSignals = {} THEN UNCHANGED journal
       ELSE CompletePending(Min(PendingSignals), Delivered)
    /\ UNCHANGED <<run, owner, drv, childVars, clock, sent, effectVars, left>>

SignalTimesOut ==
    /\ PendingSignals # {} /\ ~clock.signal
    /\ clock' = [clock EXCEPT !.signal = TRUE]
    /\ UNCHANGED <<jobVars, childVars, sent, scan, effectVars, left>>

-----------------------------------------------------------------------------
(* The child on its own: its wake-up or its recovery drives it, and its    *)
(* driver wakes the parent once the child has ended and its lock is free.  *)
(* An awake child that lost its driver is in neither listing.              *)
ChildComesDue ==
    /\ child.run > 0 /\ ~clock.child
    /\ clock' = [clock EXCEPT !.child = TRUE]
    /\ UNCHANGED <<jobVars, childVars, sent, scan, effectVars, left>>

ChildResumed ==
    /\ child.by = Nobody
    /\ child.status = "running" \/ (child.status = "suspended" /\ clock.child)
    /\ child' = [child EXCEPT !.by = ChildDriver]
    /\ UNCHANGED <<jobVars, ended, waking, worldVars, effectVars, left>>

ChildRunsItself ==
    /\ child.by = ChildDriver
    /\ \/ ~clock.child /\ child' = ChildAfter("suspended") /\ UNCHANGED waking
       \/ ChildWakes /\ UNCHANGED waking
       \/ /\ ChildCanEnd
          /\ \E status \in ChildEndings : child' = ChildAfter(status)
          /\ waking' = waking \cup {child.run}
    /\ UNCHANGED <<jobVars, ended, worldVars, effectVars, left>>

WakeParent ==
    /\ \E r \in waking : ended' = ended \cup {r} /\ waking' = waking \ {r}
    /\ UNCHANGED <<jobVars, child, worldVars, effectVars, left>>

(* The child's driver dies, in the child or before its wake call. *)
ChildDriverDies ==
    /\ Fault
    /\ \/ child.by = ChildDriver /\ child' = [child EXCEPT !.by = Nobody] /\ UNCHANGED waking
       \/ \E r \in waking : waking' = waking \ {r} /\ UNCHANGED child
    /\ UNCHANGED <<jobVars, ended, worldVars, effectVars>>

(* The lease on the child of a parent driver that died in it. *)
ChildLeaseEnds ==
    /\ child.by \in Drivers /\ drv[child.by].pc # "drive"
    /\ child' = [child EXCEPT !.by = Nobody]
    /\ UNCHANGED <<jobVars, ended, waking, worldVars, effectVars, left>>

(* Variant: a failed child wakes nobody. *)
OnlyCompleted == child.status = "completed"

(* redeliverChildEndedSignals, a periodic sweep. *)
ChildHasEnded == child.status \in {"completed", "failed"}

Redeliver ==
    /\ run.status = "suspended" /\ run.waits = "child"
    /\ ChildHasEnded /\ child.run = run.on /\ run.on \notin ended
    /\ ended' = ended \cup {run.on}
    /\ UNCHANGED <<jobVars, child, waking, worldVars, effectVars, left>>

-----------------------------------------------------------------------------
DriverStep(d) ==
    \/ Replay(d) \/ Halt(d) \/ WritePending(d) \/ Record(d) \/ RunActivity(d)
    \/ AwaitSignal(d) \/ CreateChild(d) \/ TakeChild(d) \/ DriveChild(d) \/ LoadChild(d)
    \/ ParkOnChild(d) \/ Unwind(d) \/ Undo(d) \/ RecordUndo(d) \/ Discard(d) \/ Retry(d)
    \/ Fail(d) \/ FailRun(d) \/ Leave(d) \/ Finish(d) \/ Complete(d)

(* The processes beside the drivers: the signal scanner, the child's own   *)
(* driver, the sweep; and time.                                            *)
SignalScanner == ListSignal \/ CompleteSignal
ChildProcess == ChildResumed \/ ChildRunsItself \/ WakeParent
TimePasses == ChildLeaseEnds \/ SignalTimesOut \/ ChildComesDue

DriverSide == \E d \in Drivers : Lock(d) \/ DriverStep(d)
OtherSide == SignalScanner \/ ChildProcess \/ TimePasses \/ Redeliver

Next ==
    \/ DriverSide \/ OtherSide
    \/ \E d \in Drivers : StopChild(d) \/ Crash(d)
    \/ LeaseRunsOut \/ SendSignal \/ ChildDriverDies

Spec == Init /\ [][Next]_vars

(* Scanners, sweeps and drivers poll for ever, and a call that was started *)
(* returns: a driver at work goes on.  Each of the two sides stops moving  *)
(* only when nothing of it can move, which is weaker than fairness of its  *)
(* every process.                                                          *)
Fairness ==
    /\ WF_vars(DriverSide) /\ WF_vars(OtherSide)
    /\ \A d \in Drivers : WF_vars(DriverStep(d))

FairSpec == Spec /\ Fairness

-----------------------------------------------------------------------------
(* Types. *)
Exits == [ok : BOOLEAN, value : Nat]
TypeOK ==
    /\ \A s \in Slots : /\ journal[s].phase \in {"none", "pending", "completed"}
                        /\ journal[s].exit \in Exits
                        /\ (journal[s].phase = "none") = (journal[s] = NoEntry)
    /\ run.status \in {"running", "suspended", "completed", "failed", "halted"}
    /\ run.waits \in {"", "signal", "child"}
    /\ run.waits # "" => run.status = "suspended"
    /\ owner \in Drivers \cup {Nobody}
    /\ \A d \in Drivers : drv[d].at \in 0 .. Len(Body) + 1 /\ drv[d].next \in 0 .. 2 * Len(Body)
    /\ child.by \in Drivers \cup {Nobody, ChildDriver}
    /\ ended \cup waking \subseteq 1 .. child.run
    /\ \A a \in Activities : inForce[a] \subseteq 1 .. executed[a]

(* "Successful activities that were not rolled back still replay and never *)
(* run twice" (journaled-step.ts): whatever crashes, lapsed leases and     *)
(* retries come between, an activity not declared idempotent is never in   *)
(* force twice.                                                            *)
OneEffect ==
    \A a \in Activities \ Idempotent : Cardinality(inForce[a]) <= 1

(* No effect is forgotten: as long as an execution of an activity is in    *)
(* force, the journal has its row - completed with that value, or pending, *)
(* so that the next driver halts instead of running it again.              *)
EffectIsRemembered ==
    /\ TypeOK
    /\ \A a \in Activities \ Idempotent : \A v \in inForce[a] :
          \E s \in Slots : /\ journal[s].name = a /\ journal[s].kind = "activity"
                           /\ journal[s].phase = "completed" => journal[s].exit = Success(v)

(* A run that failed for a business reason leaves no activity in force     *)
(* that has a working compensation (CompensationStack.unwind), however     *)
(* many drivers the unwind took.                                           *)
RollbackIsWhole ==
    run.status = "failed" =>
        \A a \in Compensable \ (UndoCanFail \cup Idempotent) : inForce[a] = {}

(* Activities are undone in reverse: when the holder of the run lock undoes *)
(* one, none that came after it is still in force, unless the compensation *)
(* of that one failed.  (A lapsed driver inside a compensate callback      *)
(* cannot be stopped; it may undo later than that.)                        *)
Position(a) == CHOOSE i \in DOMAIN Body : Body[i] = a
UndoneInReverse ==
    [][\A d \in Drivers :
          Holds(d) /\ drv[d].pc = "undo" /\ drv'[d].pc = "undone" =>
             \A a, b \in Compensable \ Idempotent :
                inForce'[a] # inForce[a] /\ Position(a) < Position(b)
                   => inForce[b] = {} \/ b \in UndoCanFail]_<<inForce, drv>>

(* The live run and every replay agree: what the body of the lock's holder *)
(* was given for a yield is what the journal holds for it, whoever wins    *)
(* the race of a delivery, the signal's timeout and a lapsed driver        *)
(* (JournalCursor.complete).                                               *)
LiveAgreesWithJournal ==
    \A d \in Drivers : Holds(d) /\ drv[d].pc \notin {"idle", "over"} =>
        \A s \in drv[d].seen : journal[s.slot].phase = "completed" /\ journal[s.slot].exit = s.exit

(* A child's recorded outcome is one the child came to: "Nothing happened  *)
(* that the journal should remember" holds of a child left in flight too.  *)
ChildOutcomeIsReal ==
    \A s \in Slots : journal[s].kind = "child" => journal[s].exit # LockLost

(* "A child that failed by itself is run again from scratch when its       *)
(* parent step is retried" (orchestrate.ts, runChildWorkflow): one run of  *)
(* the child per attempt of the step.                                      *)
OneChildRunPerAttempt == child.run <= 1 + (MaxRetries - left.retries)

(* Nobody lists the run, or the child it waits for.  Its driver died after *)
(* the step's row, or the child's, was saved and before the run had ended: *)
(* the status is still suspended, and no row is left that waits.           *)
Stranded ==
    /\ run.status = "suspended" /\ owner = Nobody
    /\ \/ run.waits = ""
       \/ /\ run.waits = "child" /\ ~run.timed
          /\ child.status = "awake" /\ child.by = Nobody

(* What will wake a run parked on a child: its own deadline, a wake call   *)
(* that is on its way, or the child run it waits for, which has ended and  *)
(* is swept, or has a driver, or will be given one.                        *)
ChildWillWake ==
    \/ run.timed \/ run.on \in waking
    \/ /\ child.run = run.on
       /\ ChildHasEnded \/ child.by # Nobody \/ child.status \in {"running", "suspended"}

(* No run is forgotten: a run that has not ended and that nobody drives is *)
(* listed by a scanner or by recovery, or what will get it listed is still *)
(* to come - through a signal sent before the run parks for it, a child    *)
(* that ends before its parent has parked on it, a wake call never made, a *)
(* child rerun under its waiting parent, and a driver that died anywhere   *)
(* but where the code itself strands the run.                              *)
NoRunIsForgotten ==
    run.status \in {"running", "suspended"} /\ owner = Nobody =>
        \/ Drivable \/ Stranded
        \/ run.waits = "signal" /\ PendingSignals # {}
        \/ run.waits = "child" /\ ChildWillWake

(* And the run ends.  Excused are the two ways in which the code leaves    *)
(* one for ever: a run that is Stranded, and a child abandoned with its    *)
(* parent, whose recorded LockLost makes every later drive leave.          *)
RunEnds ==
    <>(run.status \in {"completed", "failed", "halted"} \/ ~ChildOutcomeIsReal \/ Stranded)
=============================================================================
