--------------------------- MODULE WorkerRunsProofs ---------------------------
(***************************************************************************)
(* Worker-driven runs, for any runs, workers, tokens, steps and faults.    *)
(*                                                                         *)
(* The first part is about StartQueue alone.  The server and its workers   *)
(* only take steps of that queue, so its theorems hold here.  A live run is *)
(* never without its start: the argument is that nobody is about to        *)
(* complete a start whose run went on meanwhile, unless an enqueue of that *)
(* run is under way or has left its mark.  And with one operator call at a *)
(* time a run ends with all its steps: who drives under the run lock knows *)
(* exactly the stored steps, because only ended runs are reset.            *)
(***************************************************************************)
EXTENDS WorkerRuns, FiniteSetTheorems, WellFoundedInduction, TLAPS

-----------------------------------------------------------------------------
(* The start queue by itself, under any clients: whoever enqueues, claims, *)
(* beats, completes and releases, with whatever token and in any order.    *)


(* The invariant says nothing that relates two runs: it is a statement     *)
(* about one record and the enqueue its run is still owed.                 *)
StartRecord == [queued : BOOLEAN, token : Tokens \cup {NoToken}, requeued : BOOLEAN,
                delayed : BOOLEAN, stale : BOOLEAN]
Debt == {"no", "timer", "now"}

Sound(x, o) ==
    /\ x \in StartRecord
    /\ o \in Debt
    /\ ~x.queued => x = Absent
    /\ x.requeued \/ x.stale => x.token # NoToken
    /\ x.delayed => x.token = NoToken
    /\ o # "no" => x.queued /\ (x.token # NoToken => x.requeued)
    /\ o = "now" => ~x.delayed

QueueInv ==
    /\ rec \in [Runs -> StartRecord]
    /\ owed \in [Runs -> Debt]
    /\ \A r \in Runs : Sound(rec[r], owed[r])

(* Together the three properties are that invariant, record by record. *)
LEMMA InvIsTheProperties ==
  QueueInv <=> QueueTypeOK /\ WakeupNotLost /\ UrgentIsNotDelayed
<1>1. QueueInv => QueueTypeOK /\ WakeupNotLost /\ UrgentIsNotDelayed
  BY DEF QueueInv, Sound, StartRecord, Debt, QueueTypeOK, WakeupNotLost, UrgentIsNotDelayed, IsClaimed
<1>2. QueueTypeOK /\ WakeupNotLost /\ UrgentIsNotDelayed => QueueInv
  BY DEF QueueInv, Sound, StartRecord, Debt, QueueTypeOK, WakeupNotLost, UrgentIsNotDelayed, IsClaimed
<1> QED  BY <1>1, <1>2

(* A pending start without delay answers any debt. *)
LEMMA UnclaimedIsSound ==
  ASSUME NEW o \in Debt
  PROVE  Sound(Unclaimed, o)
  BY DEF Sound, StartRecord, Unclaimed, QueuedAs

(* An empty queue owes nothing. *)
LEMMA QueueInitial == QueueInit => QueueInv
  BY DEF QueueInit, QueueInv, Sound, StartRecord, Debt, Absent

(* Undoing a stale claim leaves a record that still answers its debt. *)
LEMMA ReclaimedIsSound ==
  ASSUME QueueInv, NEW r \in Runs
  PROVE  Sound(Reclaimed(r), owed[r])
<1>1. owed[r] \in Debt /\ Sound(rec[r], owed[r])
  BY DEF QueueInv
<1> QED  BY <1>1, UnclaimedIsSound DEF Reclaimed

(* One record and its debt change, all others stay. *)
LEMMA OneChange ==
  ASSUME QueueInv, NEW r \in Runs, NEW x, NEW o,
         rec' = [rec EXCEPT ![r] = x],
         owed' = [owed EXCEPT ![r] = o],
         Sound(x, o)
  PROVE  QueueInv'
<1>1. x \in StartRecord /\ o \in Debt
  BY DEF Sound
<1>2. rec' \in [Runs -> StartRecord] /\ owed' \in [Runs -> Debt]
  BY <1>1 DEF QueueInv
<1>3. ASSUME NEW s \in Runs PROVE Sound(rec'[s], owed'[s])
  <2>1. CASE s = r
    BY <2>1 DEF QueueInv
  <2>2. CASE s # r
    <3>1. rec'[s] = rec[s] /\ owed'[s] = owed[s]
      BY <2>2 DEF QueueInv
    <3> QED  BY <3>1 DEF QueueInv
  <2> QED  BY <2>1, <2>2
<1> QED  BY <1>2, <1>3 DEF QueueInv

(* A record changes and the debt of its run stays. *)
LEMMA OneRecordChange ==
  ASSUME QueueInv, NEW r \in Runs, NEW x,
         rec' = [rec EXCEPT ![r] = x], owed' = owed, Sound(x, owed[r])
  PROVE  QueueInv'
<1>1. owed' = [owed EXCEPT ![r] = owed[r]]
  BY DEF QueueInv
<1> QED  BY <1>1, OneChange

-----------------------------------------------------------------------------
(* enqueue: a new start, a requeued claim, or a start made due at once. *)
LEMMA EnqueueKeepsInv ==
  ASSUME QueueInv, NEW r \in Runs, NEW keepAvailableAt \in BOOLEAN, Enqueue(r, keepAvailableAt)
  PROVE  QueueInv'
<1> DEFINE x == Enqueued(r, keepAvailableAt)
           o == IF keepAvailableAt /\ owed[r] # "now" THEN "timer" ELSE "now"
<1>1. rec' = [rec EXCEPT ![r] = x]
  BY DEF Enqueue
<1>2. owed' = [owed EXCEPT ![r] = o]
  BY DEF Enqueue, Owe, QueueInv
<1>3. Sound(x, o)
  <2>1. o \in Debt
    BY DEF Debt
  <2>2. Sound(rec[r], owed[r])
    BY DEF QueueInv
  <2>3. CASE ~rec[r].queued \/ (~IsClaimed(r) /\ ~keepAvailableAt)
    <3>1. x = Unclaimed
      BY <2>2, <2>3 DEF Enqueued, IsClaimed, Sound, Absent
    <3> QED  BY <2>1, <3>1, UnclaimedIsSound
  <2>4. CASE rec[r].queued /\ IsClaimed(r)
    <3>1. x = [rec[r] EXCEPT !.requeued = TRUE]
      BY <2>4 DEF Enqueued
    <3>2. /\ x \in StartRecord /\ x.requeued /\ x.token = rec[r].token /\ x.queued = rec[r].queued
          /\ x.delayed = rec[r].delayed /\ x.stale = rec[r].stale
      BY <2>2, <3>1 DEF Sound, StartRecord
    <3> QED  BY <2>1, <2>2, <2>4, <3>2 DEF Sound, IsClaimed
  <2>5. CASE rec[r].queued /\ ~IsClaimed(r) /\ keepAvailableAt
    <3>1. x = rec[r]
      BY <2>5 DEF Enqueued
    <3>2. o = "now" => owed[r] = "now"
      BY <2>5
    <3> QED  BY <2>1, <2>2, <2>5, <3>1, <3>2 DEF Sound, IsClaimed
  <2> QED  BY <2>3, <2>4, <2>5
<1> QED  BY <1>1, <1>2, <1>3, OneChange

(* claim: what is taken is owed nothing any more, the rest is reclaimed. *)
LEMMA ClaimKeepsInv ==
  ASSUME QueueInv, NEW taken \in SUBSET Runs, NEW tokenOf \in [taken -> Tokens],
         Claim(taken, tokenOf)
  PROVE  QueueInv'
<1>1. ASSUME NEW r \in Runs PROVE Sound(rec'[r], owed'[r])
  <2>1. CASE r \in taken
    <3>1. rec'[r] = ClaimedBy(tokenOf[r]) /\ owed'[r] = "no" /\ tokenOf[r] \in Tokens
      BY <2>1 DEF Claim
    <3> QED  BY <3>1, TokenAssumption DEF Sound, StartRecord, Debt, ClaimedBy, QueuedAs
  <2>2. CASE r \notin taken
    <3>1. rec'[r] = Reclaimed(r) /\ owed'[r] = owed[r]
      BY <2>2 DEF Claim
    <3> QED  BY <3>1, ReclaimedIsSound
  <2> QED  BY <2>1, <2>2
<1>2. rec' \in [Runs -> StartRecord] /\ owed' \in [Runs -> Debt]
  <2>1. rec' = [r \in Runs |-> rec'[r]] /\ owed' = [r \in Runs |-> owed'[r]]
    BY DEF Claim
  <2>2. \A r \in Runs : rec'[r] \in StartRecord /\ owed'[r] \in Debt
    BY <1>1 DEF Sound
  <2> QED  BY <2>1, <2>2
<1> QED  BY <1>1, <1>2 DEF QueueInv

(* heartbeat, list and the resend of a claim. *)
LEMMA ReclaimKeepsInv ==
  ASSUME QueueInv, OnlyReclaim
  PROVE  QueueInv'
<1>1. rec' = [r \in Runs |-> Reclaimed(r)] /\ owed' = owed
  BY DEF OnlyReclaim, ReclaimStale
<1>2. \A r \in Runs : Reclaimed(r) \in StartRecord
  BY ReclaimedIsSound DEF Sound
<1>3. rec' \in [Runs -> StartRecord]
  BY <1>1, <1>2
<1> QED  BY <1>1, <1>3, ReclaimedIsSound DEF QueueInv

(* complete: a record that is owed an enqueue carries the requeued mark,   *)
(* so it goes back instead of away.                                        *)
LEMMA CompleteKeepsInv ==
  ASSUME QueueInv, NEW r \in Runs, NEW c \in Tokens, Complete(r, c)
  PROVE  QueueInv'
<1>0. Sound(rec[r], owed[r]) /\ owed[r] \in Debt
  BY DEF QueueInv
<1>1. CASE ~Current(r, c)
  BY <1>1 DEF Complete, queueVars, QueueInv
<1>2. CASE Current(r, c) /\ GoesBack(r)
  <2>1. rec' = [rec EXCEPT ![r] = Unclaimed] /\ owed' = owed
    BY <1>2 DEF Complete
  <2> QED  BY <1>0, <2>1, UnclaimedIsSound, OneRecordChange
<1>3. CASE Current(r, c) /\ ~GoesBack(r)
  <2>1. rec' = [rec EXCEPT ![r] = Absent] /\ owed' = owed
    BY <1>3 DEF Complete
  <2>2. owed[r] = "no"
    BY <1>0, <1>3, TokenAssumption DEF Sound, Current, GoesBack
  <2>3. Sound(Absent, owed[r])
    BY <2>2 DEF Sound, StartRecord, Absent, Debt
  <2> QED  BY <2>1, <2>3, OneRecordChange
<1> QED  BY <1>1, <1>2, <1>3

(* release: the delay is kept only when no enqueue came in meanwhile. *)
LEMMA ReleaseKeepsInv ==
  ASSUME QueueInv, NEW r \in Runs, NEW c \in Tokens, NEW delayed \in BOOLEAN, Release(r, c, delayed)
  PROVE  QueueInv'
<1>0. Sound(rec[r], owed[r]) /\ owed[r] \in Debt
  BY DEF QueueInv
<1>1. CASE ~Current(r, c)
  BY <1>1 DEF Release, queueVars, QueueInv
<1>2. CASE Current(r, c)
  <2> DEFINE b == delayed /\ ~rec[r].requeued
  <2>1. rec' = [rec EXCEPT ![r] = QueuedAs(NoToken, b)] /\ owed' = owed
    BY <1>2 DEF Release, DelayOf
  <2>2. b \in BOOLEAN
    OBVIOUS
  <2>3. owed[r] = "now" => ~b
    BY <1>0, <1>2, TokenAssumption DEF Sound, Current
  <2> HIDE DEF b
  <2>4. Sound(QueuedAs(NoToken, b), owed[r])
    BY <1>0, <2>2, <2>3 DEF Sound, StartRecord, QueuedAs
  <2> QED  BY <2>1, <2>4, OneRecordChange
<1> QED  BY <1>1, <1>2

(* Time: a claim goes stale, a delay ends. *)
LEMMA TimeKeepsInv ==
  ASSUME QueueInv, NEW r \in Runs, GoesStale(r) \/ DelayEnds(r)
  PROVE  QueueInv'
<1>0. Sound(rec[r], owed[r]) /\ rec \in [Runs -> StartRecord]
  BY DEF QueueInv
<1>1. CASE GoesStale(r)
  <2> DEFINE x == [rec[r] EXCEPT !.stale = TRUE]
  <2>1. rec' = [rec EXCEPT ![r] = x] /\ owed' = owed
    BY <1>0, <1>1 DEF GoesStale
  <2>2. /\ x \in StartRecord /\ x.stale /\ x.token = rec[r].token /\ x.queued = rec[r].queued
        /\ x.delayed = rec[r].delayed /\ x.requeued = rec[r].requeued
    BY <1>0 DEF StartRecord
  <2>3. rec[r].token # NoToken /\ rec[r].queued
    BY <1>0, <1>1 DEF GoesStale, IsClaimed, Sound, Absent
  <2> HIDE DEF x
  <2>4. Sound(x, owed[r])
    BY <1>0, <2>2, <2>3 DEF Sound
  <2> QED  BY <2>1, <2>4, OneRecordChange
<1>2. CASE DelayEnds(r)
  <2> DEFINE x == [rec[r] EXCEPT !.delayed = FALSE]
  <2>1. rec' = [rec EXCEPT ![r] = x] /\ owed' = owed
    BY <1>0, <1>2 DEF DelayEnds
  <2>2. /\ x \in StartRecord /\ ~x.delayed /\ x.token = rec[r].token /\ x.queued = rec[r].queued
        /\ x.stale = rec[r].stale /\ x.requeued = rec[r].requeued
    BY <1>0 DEF StartRecord
  <2>3. rec[r].queued
    BY <1>0, <1>2 DEF DelayEnds, Sound, Absent
  <2> HIDE DEF x
  <2>4. Sound(x, owed[r])
    BY <1>0, <2>2, <2>3 DEF Sound
  <2> QED  BY <2>1, <2>4, OneRecordChange
<1> QED  BY <1>1, <1>2

(* Every call on the queue keeps the invariant. *)
LEMMA QueueStep ==
  ASSUME QueueInv, [QueueNext]_queueVars
  PROVE  QueueInv'
<1>1. CASE \E r \in Runs, keepAvailableAt \in BOOLEAN : Enqueue(r, keepAvailableAt)
  BY <1>1, EnqueueKeepsInv
<1>2. CASE \E taken \in SUBSET Claimable(Runs) : \E tokenOf \in [taken -> Tokens] : Claim(taken, tokenOf)
  <2>1. PICK taken \in SUBSET Claimable(Runs) : \E tokenOf \in [taken -> Tokens] : Claim(taken, tokenOf)
    BY <1>2
  <2>2. PICK tokenOf \in [taken -> Tokens] : Claim(taken, tokenOf)
    BY <2>1
  <2>3. taken \in SUBSET Runs
    BY <2>1 DEF Claimable
  <2> QED  BY <2>2, <2>3, ClaimKeepsInv
<1>3. CASE OnlyReclaim
  BY <1>3, ReclaimKeepsInv
<1>4. CASE \E r \in Runs, c \in Tokens : Complete(r, c)
  BY <1>4, CompleteKeepsInv
<1>5. CASE \E r \in Runs, c \in Tokens, delayed \in BOOLEAN : Release(r, c, delayed)
  BY <1>5, ReleaseKeepsInv
<1>6. CASE \E r \in Runs : GoesStale(r) \/ DelayEnds(r)
  BY <1>6, TimeKeepsInv
<1>7. CASE UNCHANGED queueVars
  BY <1>7 DEF queueVars, QueueInv
<1> QED  BY <1>1, <1>2, <1>3, <1>4, <1>5, <1>6, <1>7 DEF QueueNext

(* The start queue keeps its invariant under any clients. *)
THEOREM QueueInvariant == QueueSpec => []QueueInv
<1>1. QueueInv /\ [QueueNext]_queueVars => QueueInv'
  BY QueueStep
<1> QED  BY QueueInitial, <1>1, PTL DEF QueueSpec

(* Marks sit where they may: on claimed records, on pending ones, nowhere. *)
THEOREM QueueTypes == QueueSpec => []QueueTypeOK
<1>1. QueueInv => QueueTypeOK
  BY InvIsTheProperties
<1> QED  BY QueueInvariant, <1>1, PTL

(* No enqueue is lost, whatever claim it lands in and however that ends. *)
THEOREM NoWakeupLost == QueueSpec => []WakeupNotLost
<1>1. QueueInv => WakeupNotLost
  BY InvIsTheProperties
<1> QED  BY QueueInvariant, <1>1, PTL

(* No resume, rerun or signal waits out a delay set for a sleep. *)
THEOREM NoUrgentDelay == QueueSpec => []UrgentIsNotDelayed
<1>1. QueueInv => UrgentIsNotDelayed
  BY InvIsTheProperties
<1> QED  BY QueueInvariant, <1>1, PTL

-----------------------------------------------------------------------------
(* The type invariant, with the shapes TypeOK leaves open. *)

Stage == {"none", "offered", "launched", "driving", "unlocking", "answered", "stopped", "settling"}
DriveType == [stage : Stage, worker : Workers \cup {NoOne}, run : Runs \cup {NoOne},
              steps : SUBSET AllSteps, settle : {"none", "locked", "complete", "delay", "release"},
              aborted : BOOLEAN, settled : BOOLEAN]
RowType == [status : {"none", "pending", "running", "suspended", "ended"},
            run : Nat, steps : SUBSET AllSteps, parked : {"no", "sleep", "signal"}]
CallType == [op : {"enqueue", "rerun", "fresh", "resume", "reset", "unlock"},
             run : Runs, keep : BOOLEAN, expected : Nat]

RunsTyped ==
    /\ row \in [Runs -> RowType]
    /\ due \in [Runs -> SUBSET {"server", "worker"}]
    /\ signal \subseteq Runs
    /\ lock \in [Runs -> Tokens \cup {Server, NoOne}]

(* A drive under way is some worker's, of some run. *)
DriveSound(x) == x \in DriveType /\ (x.stage # "none" => x.worker \in Workers /\ x.run \in Runs)

DrivesTyped ==
    /\ drive \in [Tokens -> DriveType]
    /\ \A c \in Tokens : DriveSound(drive[c])

WorkersTyped ==
    /\ inFlight \in [Workers -> [Runs -> Tokens \cup {NoToken}]]
    /\ wk \in [Workers -> {"up", "stopping", "aborting", "down"}]
    /\ call \in [Workers -> 0 .. Concurrency]

CallsTyped == srv \subseteq CallType /\ IsFiniteSet(srv) /\ stray \subseteq Runs

Types == QueueInv /\ RunsTyped /\ DrivesTyped /\ WorkersTyped /\ CallsTyped

-----------------------------------------------------------------------------
(* The first step of a run that is not done is one of its steps. *)
LEMMA FirstOfNaturals ==
    ASSUME NEW S, S \subseteq Nat, S # {}
    PROVE  Min(S) \in S /\ \A y \in S : Min(S) <= y
<1>1. PICK x \in S : \A y \in S : ~ (<<y, x>> \in OpToRel(<, Nat))
  BY NatLessThanWellFounded, WFMin
<1>2. ASSUME NEW y \in S PROVE x <= y
  <2>1. x \in Nat /\ y \in Nat /\ <<y, x>> \in Nat \X Nat
    OBVIOUS
  <2>2. ~ (y < x)
    BY <1>1, <2>1 DEF OpToRel
  <2> QED
    BY <2>1, <2>2
<1>3. \E z \in S : \A y \in S : z <= y
  BY <1>2
<1> QED
  BY <1>3 DEF Min

(* A drive that is not done has a next step, of a known kind. *)
LEMMA NextStepIsAStep ==
    ASSUME NEW c \in Tokens, DrivesTyped, drive[c].steps # AllSteps
    PROVE  NextStep(c) \in AllSteps /\ Steps[NextStep(c)] \in {"work", "sleep", "signal"}
<1>1. Steps \in Seq({"work", "sleep", "signal"})
  BY WorkerAssumption
<1>2. Len(Steps) \in Nat /\ AllSteps \subseteq Nat
  BY <1>1 DEF AllSteps
<1>3. AllSteps \ drive[c].steps # {}
  BY DEF DrivesTyped, DriveSound, DriveType
<1>4. NextStep(c) \in AllSteps
  BY <1>2, <1>3, FirstOfNaturals DEF NextStep
<1> QED
  BY <1>1, <1>4 DEF AllSteps

(* Who is free for more, and who is not. *)
LEMMA FreeIsANumber ==
    ASSUME NEW w \in Workers
    PROVE  Free(w) <= Concurrency /\ Free(w) \in Int
<1> DEFINE f == [r \in Runs |-> inFlight[w][r]]
<1>1. IsFiniteSet({inFlight[w][r] : r \in Runs})
  <2>1. f \in Surjection(Runs, {inFlight[w][r] : r \in Runs})
    BY DEF Surjection
  <2> QED
    BY <2>1, FS_Surjection, WorkerAssumption
<1>2. IsFiniteSet(InFlight(w)) /\ Cardinality(InFlight(w)) \in Nat
  BY <1>1, FS_Subset, FS_CardinalityType DEF InFlight
<1> QED
  BY <1>2, WorkerAssumption DEF Free

(* Nothing is stored, driven or called at first. *)
LEMMA TypesInitially == Init => Types
<1> SUFFICES ASSUME Init PROVE Types
  OBVIOUS
<1>1. QueueInv
  BY QueueInitial DEF Init
<1>2. RunsTyped
  BY DEF Init, RunsTyped, RowType
<1>3. DrivesTyped
  BY DEF Init, DrivesTyped, DriveSound, DriveType, NoDrive, Stage
<1>4. WorkersTyped
  BY WorkerAssumption DEF Init, WorkersTyped
<1>5. CallsTyped
  BY FS_EmptySet DEF Init, CallsTyped
<1> QED
  BY <1>1, <1>2, <1>3, <1>4, <1>5 DEF Types

-----------------------------------------------------------------------------
(* The steps, by what they touch. *)

ServerMove ==
    \/ \E r \in Runs : \/ Trigger(r) \/ Scan(r) \/ Sweep(r) \/ SendSignal(r) \/ LockRunsOut(r)
                       \/ OperatorAsks("rerun", r) \/ OperatorAsks("resume", r)
                       \/ \E clock \in {"server", "worker"} : SleepEnds(r, clock)
    \/ \E o \in srv : \/ RerunLoad(o) \/ StartFreshRun(o) \/ ResumeLock(o) \/ ResumeUnlock(o)
                      \/ ServerCallDies(o) \/ \E n \in AllSteps : ResetSteps(o, n)

DriveMove ==
    \E c \in Tokens : \/ RunLocked(c) \/ Run(c) \/ StepDone(c) \/ Park(c) \/ Finish(c)
                      \/ StopsShort(c) \/ Unlock(c) \/ LoadRest(c) \/ LoadFails(c) \/ SettleFails(c)

WorkerMove ==
    \E w \in Workers : \/ Launch(w) \/ ClaimFails(w) \/ Stop(w) \/ StopAbort(w) \/ Stopped(w)
                       \/ Crash(w) \/ Restart(w)

QueueMove ==
    \/ \E o \in srv : EnqueueCall(o)
    \/ \E w \in Workers : ClaimTick(w) \/ ClaimResent(w)
    \/ \E c \in Tokens : Settle(c) \/ SettleAnswerLost(c) \/ Heartbeat(c) \/ ReleaseNow(c)
    \/ \E r \in Runs : ClaimGoesStale(r) \/ DelayPasses(r)

(* Every step is one of these. *)
LEMMA EveryMove ==
    ASSUME [Next]_vars
    PROVE  ServerMove \/ DriveMove \/ WorkerMove \/ QueueMove \/ UNCHANGED vars
BY DEF Next, ServerStep, DriveStep, WorkerStep, ServerMove, DriveMove, WorkerMove, QueueMove

(* Only the last kind calls the queue. *)
LEMMA QuietMoves ==
    ASSUME ServerMove \/ DriveMove \/ WorkerMove
    PROVE  UNCHANGED queueVars
<1>1. ASSUME ServerMove PROVE UNCHANGED queueVars
  BY <1>1 DEF ServerMove, Trigger, Scan, Sweep, SendSignal, LockRunsOut, OperatorAsks, SleepEnds,
              RerunLoad, StartFreshRun, ResumeLock, ResumeUnlock, ServerCallDies, ResetSteps
<1>2. ASSUME DriveMove PROVE UNCHANGED queueVars
  BY <1>2 DEF DriveMove, RunLocked, Run, StepDone, Park, Finish, StopsShort, Unlock, LoadRest,
              LoadFails, SettleFails
<1>3. ASSUME WorkerMove PROVE UNCHANGED queueVars
  BY <1>3 DEF WorkerMove, Launch, ClaimFails, Stop, StopAbort, Stopped, Crash, Restart
<1> QED
  BY <1>1, <1>2, <1>3

(* The claim route: what is taken is claimable, under tokens nobody uses. *)
LEMMA ServedClaim ==
    ASSUME NEW w \in Workers, NEW limit, ServeClaim(w, limit)
    PROVE  \/ /\ OnlyReclaim
              /\ drive' = [c \in Tokens |-> IF c \in Offered(w) \ StillHeld(w) THEN NoDrive
                                            ELSE drive[c]]
           \/ \E taken \in SUBSET Claimable(Runs) :
              \E tokenOf \in [taken -> {c \in Tokens : ~TokenInUse(c)}] :
                /\ \A r, s \in taken : tokenOf[r] = tokenOf[s] => r = s
                /\ Claim(taken, tokenOf)
                /\ drive' = [c \in Tokens |->
                               IF \E r \in taken : tokenOf[r] = c
                               THEN Offer(w, CHOOSE r \in taken : tokenOf[r] = c)
                               ELSE IF c \in Offered(w) THEN NoDrive ELSE drive[c]]
<1> DEFINE T == Taken(Hosted[w], limit)
<1>1. T \in SUBSET Claimable(Runs)
  BY WorkerAssumption DEF Taken, Claimable
<1> QED
  BY <1>1 DEF ServeClaim

(* queued-workflows.ts, worker.ts: every step is one call on the queue. *)
LEMMA OneCall ==
    ASSUME Types, [Next]_vars
    PROVE  [QueueNext]_queueVars
<1> USE DEF Types
<1>1. CASE \E o \in srv : EnqueueCall(o)
  BY <1>1 DEF EnqueueCall, CallsTyped, CallType, QueueNext
<1>2. ASSUME NEW w \in Workers, NEW limit, ServeClaim(w, limit) PROVE QueueNext
  <2>1. CASE OnlyReclaim
    BY <2>1 DEF QueueNext
  <2>2. ASSUME NEW taken \in SUBSET Claimable(Runs),
               NEW tokenOf \in [taken -> {c \in Tokens : ~TokenInUse(c)}], Claim(taken, tokenOf)
        PROVE QueueNext
    <3>1. tokenOf \in [taken -> Tokens]
      OBVIOUS
    <3> QED
      BY <2>2, <3>1 DEF QueueNext
  <2> QED
    BY <1>2, <2>1, <2>2, ServedClaim
<1>3. CASE \E w \in Workers : ClaimTick(w) \/ ClaimResent(w)
  BY <1>2, <1>3 DEF ClaimTick, ClaimResent
<1>4. ASSUME NEW c \in Tokens, drive[c].stage # "none" PROVE drive[c].run \in Runs
  BY <1>4 DEF DrivesTyped, DriveSound
<1>5. ASSUME NEW c \in Tokens, Settle(c) \/ SettleAnswerLost(c) PROVE [QueueNext]_queueVars
  BY <1>4, <1>5 DEF Settle, SettleAnswerLost, ServeSettle, QueueNext
<1>6. ASSUME NEW c \in Tokens, Heartbeat(c) PROVE QueueNext
  BY <1>6 DEF Heartbeat, QueueNext
<1>7. ASSUME NEW c \in Tokens, ReleaseNow(c) PROVE QueueNext
  BY <1>4, <1>7 DEF ReleaseNow, QueueNext
<1>8. CASE \E r \in Runs : ClaimGoesStale(r) \/ DelayPasses(r)
  BY <1>8 DEF ClaimGoesStale, DelayPasses, QueueNext
<1>9. CASE UNCHANGED vars
  BY <1>9 DEF vars
<1>10. CASE QueueMove
  BY <1>1, <1>3, <1>5, <1>6, <1>7, <1>8, <1>10 DEF QueueMove
<1> QED
  BY <1>9, <1>10, EveryMove, QuietMoves

-----------------------------------------------------------------------------
(* Types, group by group. *)

(* A call is added, or takes the place of another. *)
LEMMA CallReplaced ==
    ASSUME CallsTyped, NEW p \in CallType, NEW Q, Q \subseteq srv,
           srv' = Q \cup {p}, stray' \subseteq Runs
    PROVE  CallsTyped'
<1>1. IsFiniteSet(Q)
  BY FS_Subset DEF CallsTyped
<1> QED
  BY <1>1, FS_AddElement DEF CallsTyped

(* Every call the server builds is a call. *)
LEMMA CallsAreTyped ==
    ASSUME NEW r \in Runs
    PROVE  /\ \A keep \in BOOLEAN : ToEnqueue(r, keep) \in CallType
           /\ \A n \in Nat, op \in {"rerun", "fresh", "resume", "reset", "unlock"} :
                OperatorCall(op, r, n) \in CallType
BY DEF ToEnqueue, OperatorCall, CallType

(* The routes, the scanners and the world leave the workers alone. *)
LEMMA ServerMoveTyped ==
    ASSUME Types, ServerMove
    PROVE  RunsTyped' /\ CallsTyped' /\ UNCHANGED workerVars
<1>1. RunsTyped /\ CallsTyped
  BY DEF Types
<1>2. ASSUME NEW o \in srv PROVE /\ o \in CallType /\ o.run \in Runs /\ o.expected \in Nat
                                /\ row[o.run].run \in Nat /\ stray \cup {o.run} \subseteq Runs
  BY <1>1, <1>2 DEF CallsTyped, CallType, RunsTyped, RowType
<1>3. ASSUME NEW r \in Runs, Trigger(r) PROVE RunsTyped' /\ CallsTyped' /\ UNCHANGED workerVars
  <2>1. RunsTyped' /\ stray' = stray
    BY <1>1, <1>3 DEF Trigger, RunsTyped, RowType
  <2> QED
    BY <1>1, <1>3, <2>1, CallReplaced, CallsAreTyped DEF Trigger, CallsTyped
<1>4. ASSUME NEW r \in Runs, Scan(r) PROVE RunsTyped' /\ CallsTyped' /\ UNCHANGED workerVars
  <2>1. SleepIsDue(r) \in BOOLEAN
    BY DEF SleepIsDue
  <2>2. RunsTyped' /\ stray' = stray
    BY <1>1, <1>4 DEF Scan, RunsTyped, runVars
  <2> QED
    BY <1>1, <1>4, <2>1, <2>2, CallReplaced, CallsAreTyped DEF Scan, CallsTyped
<1>5. ASSUME NEW r \in Runs, Sweep(r) PROVE RunsTyped' /\ CallsTyped' /\ UNCHANGED workerVars
  <2>1. RunsTyped' /\ stray' = stray
    BY <1>1, <1>5 DEF Sweep, RunsTyped, runVars
  <2> QED
    BY <1>1, <1>5, <2>1, CallReplaced, CallsAreTyped DEF Sweep, CallsTyped
<1>6. ASSUME NEW r \in Runs, SendSignal(r) PROVE RunsTyped' /\ CallsTyped' /\ UNCHANGED workerVars
  BY <1>1, <1>6 DEF SendSignal, RunsTyped, CallsTyped
<1>7. ASSUME NEW r \in Runs, LockRunsOut(r) PROVE RunsTyped' /\ CallsTyped' /\ UNCHANGED workerVars
  BY <1>1, <1>7 DEF LockRunsOut, RunsTyped, runVars, CallsTyped
<1>8. ASSUME NEW r \in Runs, NEW op \in {"rerun", "resume"}, OperatorAsks(op, r)
      PROVE  RunsTyped' /\ CallsTyped' /\ UNCHANGED workerVars
  <2>1. RunsTyped' /\ stray' = stray
    BY <1>1, <1>8 DEF OperatorAsks, RunsTyped, runVars
  <2>2. OperatorCall(op, r, 0) \in CallType
    BY CallsAreTyped
  <2> QED
    BY <1>1, <1>8, <2>1, <2>2, CallReplaced DEF OperatorAsks, CallsTyped
<1>9. ASSUME NEW r \in Runs, NEW clock \in {"server", "worker"}, SleepEnds(r, clock)
      PROVE  RunsTyped' /\ CallsTyped' /\ UNCHANGED workerVars
  BY <1>1, <1>9 DEF SleepEnds, RunsTyped, CallsTyped
<1>10. ASSUME NEW o \in srv, RerunLoad(o) PROVE RunsTyped' /\ CallsTyped' /\ UNCHANGED workerVars
  <2>1. RunsTyped' /\ stray' = stray
    BY <1>1, <1>10 DEF RerunLoad, RunsTyped, runVars
  <2>2. OperatorCall("fresh", o.run, row[o.run].run) \in CallType
    BY <1>2, CallsAreTyped
  <2> QED
    BY <1>1, <1>10, <2>1, <2>2, CallReplaced DEF RerunLoad, Becomes, CallsTyped
<1>11. ASSUME NEW o \in srv, StartFreshRun(o) PROVE RunsTyped' /\ CallsTyped' /\ UNCHANGED workerVars
  <2>1. FreshRow(o.run) \in RowType
    BY <1>2 DEF FreshRow, RowType
  <2>2. RunsTyped' /\ stray' = stray
    BY <1>1, <1>11, <2>1 DEF StartFreshRun, RunsTyped, runVars
  <2>3. ToEnqueue(o.run, FALSE) \in CallType
    BY <1>2, CallsAreTyped
  <2>4. srv' = (srv \ {o}) \cup {ToEnqueue(o.run, FALSE)} /\ UNCHANGED workerVars
    BY <1>11 DEF StartFreshRun, Becomes
  <2> QED
    BY <1>1, <2>2, <2>3, <2>4, CallReplaced DEF CallsTyped
<1>12. ASSUME NEW o \in srv, ResumeLock(o) PROVE RunsTyped' /\ CallsTyped' /\ UNCHANGED workerVars
  <2>1. RunsTyped' /\ stray' = stray
    BY <1>1, <1>12 DEF ResumeLock, RunsTyped, runVars
  <2>2. OperatorCall("reset", o.run, 0) \in CallType
    BY <1>2, CallsAreTyped
  <2>3. CASE srv' = srv \ {o}
    BY <1>1, <1>12, <2>1, <2>3, FS_RemoveElement DEF ResumeLock, CallsTyped
  <2> QED
    BY <1>1, <1>12, <2>1, <2>2, <2>3, CallReplaced DEF ResumeLock, Becomes, CallsTyped
<1>13. ASSUME NEW o \in srv, ResumeUnlock(o) PROVE RunsTyped' /\ CallsTyped' /\ UNCHANGED workerVars
  <2>1. RunsTyped' /\ stray' = stray
    BY <1>1, <1>13 DEF ResumeUnlock, RunsTyped, runVars
  <2>2. ToEnqueue(o.run, FALSE) \in CallType
    BY <1>2, CallsAreTyped
  <2> QED
    BY <1>1, <1>13, <2>1, <2>2, CallReplaced DEF ResumeUnlock, Becomes, CallsTyped
<1>14. ASSUME NEW o \in srv, ServerCallDies(o) PROVE RunsTyped' /\ CallsTyped' /\ UNCHANGED workerVars
  BY <1>1, <1>2, <1>14, FS_RemoveElement DEF ServerCallDies, RunsTyped, runVars, CallsTyped
<1>15. ASSUME NEW o \in srv, NEW n \in AllSteps, ResetSteps(o, n)
       PROVE  RunsTyped' /\ CallsTyped' /\ UNCHANGED workerVars
  <2> DEFINE x == [row[o.run] EXCEPT !.steps = {s \in @ : s < n}, !.parked = "no",
                                     !.status = IF @ = "ended" THEN "running" ELSE @]
  <2>3. row[o.run] \in RowType
    BY <1>1, <1>2 DEF RunsTyped
  <2>4. x \in RowType
    BY <2>3 DEF RowType
  <2>5. row' = [row EXCEPT ![o.run] = x] /\ stray' = stray
    BY <1>1, <1>2, <1>15 DEF ResetSteps, RunsTyped
  <2> HIDE DEF x
  <2>1. RunsTyped' /\ stray' = stray
    <3>1. due' = [due EXCEPT ![o.run] = {}] /\ signal' = signal /\ lock' = lock
      BY <1>15 DEF ResetSteps
    <3>2. row' \in [Runs -> RowType]
      BY <1>1, <1>2, <2>4, <2>5 DEF RunsTyped
    <3> QED
      BY <1>1, <1>2, <2>5, <3>1, <3>2 DEF RunsTyped
  <2>2. OperatorCall("unlock", o.run, 0) \in CallType
    BY <1>2, CallsAreTyped
  <2> QED
    BY <1>1, <1>15, <2>1, <2>2, CallReplaced DEF ResetSteps, Becomes, CallsTyped
<1> QED
  BY <1>3, <1>4, <1>5, <1>6, <1>7, <1>8, <1>9, <1>10, <1>11, <1>12, <1>13, <1>14, <1>15
     DEF ServerMove

(* A drive changes: *)
LEMMA OneDrive ==
    ASSUME DrivesTyped, NEW c \in Tokens, NEW x, DriveSound(x), drive' = [drive EXCEPT ![c] = x]
    PROVE  DrivesTyped'
BY DEF DrivesTyped, DriveSound

(* one that is over, *)
LEMMA NoDriveIsSound == DriveSound(NoDrive) /\ NoDrive.stage = "none"
BY DEF DriveSound, DriveType, NoDrive, Stage

(* drive() returned: its drive and its entry in the map are gone. *)
LEMMA EndTyped ==
    ASSUME DrivesTyped, WorkersTyped, NEW c \in Tokens, drive[c].stage # "none", End(c),
           wk' = wk, call' = call
    PROVE  DrivesTyped' /\ WorkersTyped'
<1>1. drive[c].worker \in Workers /\ drive[c].run \in Runs
  BY DEF DrivesTyped, DriveSound
<1>2. DrivesTyped'
  BY NoDriveIsSound, OneDrive DEF End
<1>3. inFlight' = [inFlight EXCEPT ![drive[c].worker][drive[c].run] = NoToken]
  BY DEF End
<1> HIDE DEF End
<1> QED
  BY <1>1, <1>2, <1>3 DEF WorkersTyped

(* or one that goes on: its worker and its run stay. *)
GoesOn(c, x) ==
    /\ x \in DriveType /\ x.worker = drive[c].worker /\ x.run = drive[c].run
    /\ drive' = [drive EXCEPT ![c] = x]

(* A drive that goes on is still sound. *)
LEMMA GoesOnTyped ==
    ASSUME DrivesTyped, NEW c \in Tokens, drive[c].stage # "none", NEW x, GoesOn(c, x)
    PROVE  DrivesTyped'
<1>1. DriveSound(x)
  BY DEF GoesOn, DriveSound, DrivesTyped
<1> QED
  BY <1>1, OneDrive DEF GoesOn

(* run() returned: the drive ends or goes on to settle. *)
LEMMA ReturnsTyped ==
    ASSUME DrivesTyped, WorkersTyped, NEW c \in Tokens, drive[c].stage # "none",
           NEW then \in Stage, NEW settle \in {"none", "locked", "complete", "delay", "release"},
           Returns(c, then, settle), wk' = wk, call' = call
    PROVE  DrivesTyped' /\ WorkersTyped'
<1>1. CASE drive[c].settled
  BY <1>1, EndTyped DEF Returns
<1>2. CASE ~ drive[c].settled
  <2> DEFINE x == [drive[c] EXCEPT !.stage = then, !.settle = settle]
  <2>1. drive' = [drive EXCEPT ![c] = x] /\ inFlight' = inFlight
    BY <1>2 DEF Returns, DrivesTyped
  <2>2. x \in DriveType /\ x.worker = drive[c].worker /\ x.run = drive[c].run
    BY DEF DrivesTyped, DriveType
  <2> HIDE DEF x
  <2>3. DrivesTyped'
    BY <2>1, <2>2, GoesOnTyped DEF GoesOn
  <2> QED
    BY <2>1, <2>3 DEF WorkersTyped
<1> QED
  BY <1>1, <1>2

(* What drives do leaves the server calls alone. *)
LEMMA DriveMoveTyped ==
    ASSUME Types, DriveMove
    PROVE  RunsTyped' /\ DrivesTyped' /\ WorkersTyped' /\ UNCHANGED <<srv, stray>>
<1> DEFINE Goal == RunsTyped' /\ DrivesTyped' /\ WorkersTyped' /\ UNCHANGED <<srv, stray>>
<1>1. RunsTyped /\ DrivesTyped /\ WorkersTyped
  BY DEF Types
<1>2. ASSUME NEW c \in Tokens, drive[c].stage # "none"
      PROVE  /\ drive[c] \in DriveType /\ drive[c].run \in Runs /\ row[drive[c].run] \in RowType
             /\ row[drive[c].run].steps \in SUBSET AllSteps
  BY <1>1, <1>2 DEF DrivesTyped, DriveSound, RunsTyped, RowType
<1>3. ASSUME NEW c \in Tokens, RunLocked(c) PROVE Goal
  <2>1. drive[c].stage # "none" /\ Returns(c, "stopped", "locked") /\ wk' = wk /\ call' = call
    BY <1>3 DEF RunLocked
  <2>2. DrivesTyped' /\ WorkersTyped'
    BY <1>1, <2>1, ReturnsTyped DEF Stage
  <2> QED
    BY <1>1, <1>3, <2>2 DEF RunLocked, RunsTyped, runVars
<1>4. ASSUME NEW c \in Tokens, Run(c) PROVE Goal
  <2> DEFINE r == drive[c].run
             x == [drive[c] EXCEPT !.stage = IF Ended(r) THEN "answered" ELSE "driving",
                                   !.steps = row[r].steps]
  <2>1. drive[c].stage # "none"
    BY <1>4 DEF Run
  <2>2. drive' = [drive EXCEPT ![c] = x]
    BY <1>1, <1>4 DEF Run, DrivesTyped
  <2>3. x \in DriveType /\ x.worker = drive[c].worker /\ x.run = drive[c].run
    BY <1>2, <2>1 DEF DriveType, Stage
  <2> HIDE DEF x
  <2>4. DrivesTyped'
    BY <1>1, <2>1, <2>2, <2>3, GoesOnTyped DEF GoesOn
  <2> QED
    BY <1>1, <1>2, <1>4, <2>1, <2>4 DEF Run, RunsTyped, runVars, WorkersTyped
<1>5. ASSUME NEW c \in Tokens, StepDone(c) PROVE Goal
  <2> DEFINE r == drive[c].run
             n == NextStep(c)
             x == [drive[c] EXCEPT !.steps = @ \cup {n}]
             y == [row[r] EXCEPT !.steps = @ \cup {n}, !.parked = "no", !.status = MarkRunning(@)]
  <2>1. drive[c].stage # "none" /\ n \in AllSteps
    BY <1>1, <1>5, NextStepIsAStep DEF StepDone, Driving
  <2>2. drive' = [drive EXCEPT ![c] = x] /\ row' = [row EXCEPT ![r] = y]
    BY <1>1, <1>5 DEF StepDone, DrivesTyped, RunsTyped
  <2> HIDE DEF n
  <2>3. x \in DriveType /\ x.worker = drive[c].worker /\ x.run = drive[c].run
    BY <1>2, <2>1 DEF DriveType
  <2>4. y \in RowType
    BY <1>2, <2>1 DEF RowType, MarkRunning
  <2> HIDE DEF x, y
  <2>5. DrivesTyped'
    BY <1>1, <2>1, <2>2, <2>3, GoesOnTyped DEF GoesOn
  <2>6. RunsTyped'
    BY <1>1, <1>2, <1>5, <2>1, <2>2, <2>4 DEF StepDone, RunsTyped
  <2> QED
    BY <1>1, <1>5, <2>5, <2>6 DEF StepDone, WorkersTyped
<1>6. ASSUME NEW c \in Tokens, Park(c) PROVE Goal
  <2> DEFINE r == drive[c].run
             x == [drive[c] EXCEPT !.stage = "unlocking"]
             kind == Steps[NextStep(c)]
             y == [row[r] EXCEPT !.status = "suspended", !.parked = kind]
  <2>1. drive[c].stage # "none" /\ kind \in {"sleep", "signal"}
    BY <1>1, <1>6, NextStepIsAStep DEF Park, Driving, Waits
  <2>2. drive' = [drive EXCEPT ![c] = x] /\ row' = [row EXCEPT ![r] = y]
    BY <1>1, <1>6 DEF Park, DrivesTyped, RunsTyped
  <2> HIDE DEF kind
  <2>3. x \in DriveType /\ x.worker = drive[c].worker /\ x.run = drive[c].run
    BY <1>2, <2>1 DEF DriveType, Stage
  <2>4. y \in RowType
    BY <1>2, <2>1 DEF RowType
  <2> HIDE DEF x, y
  <2>5. DrivesTyped'
    BY <1>1, <2>1, <2>2, <2>3, GoesOnTyped DEF GoesOn
  <2>6. RunsTyped'
    BY <1>1, <1>2, <1>6, <2>1, <2>2, <2>4 DEF Park, RunsTyped
  <2> QED
    BY <1>1, <1>6, <2>5, <2>6 DEF Park, WorkersTyped
<1>7. ASSUME NEW c \in Tokens, Finish(c) PROVE Goal
  <2> DEFINE r == drive[c].run
             x == [drive[c] EXCEPT !.stage = "answered"]
             y == [row[r] EXCEPT !.status = "ended"]
  <2>1. drive[c].stage # "none"
    BY <1>7 DEF Finish, Driving
  <2>2. drive' = [drive EXCEPT ![c] = x] /\ row' = [row EXCEPT ![r] = y]
    BY <1>1, <1>7 DEF Finish, DrivesTyped, RunsTyped
  <2>3. x \in DriveType /\ x.worker = drive[c].worker /\ x.run = drive[c].run
    BY <1>2, <2>1 DEF DriveType, Stage
  <2>4. y \in RowType
    BY <1>2, <2>1 DEF RowType
  <2> HIDE DEF x, y
  <2>5. DrivesTyped'
    BY <1>1, <2>1, <2>2, <2>3, GoesOnTyped DEF GoesOn
  <2>6. RunsTyped'
    BY <1>1, <1>2, <1>7, <2>1, <2>2, <2>4 DEF Finish, RunsTyped
  <2> QED
    BY <1>1, <1>7, <2>5, <2>6 DEF Finish, WorkersTyped
<1>8. ASSUME NEW c \in Tokens, StopsShort(c) PROVE Goal
  <2> DEFINE x == [drive[c] EXCEPT !.stage = "unlocking"]
  <2>1. drive[c].stage # "none" /\ drive' = [drive EXCEPT ![c] = x]
    BY <1>1, <1>8 DEF StopsShort, DrivesTyped
  <2>2. x \in DriveType /\ x.worker = drive[c].worker /\ x.run = drive[c].run
    BY <1>2, <2>1 DEF DriveType, Stage
  <2> HIDE DEF x
  <2>3. DrivesTyped'
    BY <1>1, <2>1, <2>2, GoesOnTyped DEF GoesOn
  <2> QED
    BY <1>1, <1>8, <2>3 DEF StopsShort, RunsTyped, runVars, WorkersTyped
<1>9. ASSUME NEW c \in Tokens, Unlock(c) PROVE Goal
  <2>1. /\ drive[c].stage # "none" /\ wk' = wk /\ call' = call
        /\ Returns(c, "settling", "complete") \/ Returns(c, "stopped", "none")
    BY <1>9 DEF Unlock
  <2>2. DrivesTyped' /\ WorkersTyped'
    BY <1>1, <2>1, ReturnsTyped DEF Stage
  <2>3. RunsTyped'
    BY <1>1, <1>2, <1>9, <2>1 DEF Unlock, RunsTyped, runVars
  <2> QED
    BY <1>9, <2>2, <2>3 DEF Unlock
<1>10. ASSUME NEW c \in Tokens, LoadRest(c) \/ LoadFails(c) PROVE Goal
  <2>1. PICK settle \in {"complete", "delay", "release"} :
           drive' = [drive EXCEPT ![c].stage = "settling", ![c].settle = settle]
    BY <1>10 DEF LoadRest, LoadFails, GiveBack
  <2> DEFINE x == [drive[c] EXCEPT !.stage = "settling", !.settle = settle]
  <2>2. drive[c].stage # "none" /\ drive' = [drive EXCEPT ![c] = x]
    BY <1>1, <1>10, <2>1 DEF LoadRest, LoadFails, DrivesTyped
  <2>3. x \in DriveType /\ x.worker = drive[c].worker /\ x.run = drive[c].run
    BY <1>2, <2>1, <2>2 DEF DriveType, Stage
  <2> HIDE DEF x
  <2>4. DrivesTyped'
    BY <1>1, <2>2, <2>3, GoesOnTyped DEF GoesOn
  <2> QED
    BY <1>1, <1>10, <2>4 DEF LoadRest, LoadFails, RunsTyped, runVars, WorkersTyped
<1>11. ASSUME NEW c \in Tokens, SettleFails(c) PROVE Goal
  <2>1. DrivesTyped' /\ WorkersTyped'
    BY <1>1, <1>11, EndTyped DEF SettleFails
  <2> QED
    BY <1>1, <1>11, <2>1 DEF SettleFails, RunsTyped, runVars
<1> QED
  BY <1>3, <1>4, <1>5, <1>6, <1>7, <1>8, <1>9, <1>10, <1>11 DEF DriveMove

(* Every drive may change, as long as it is over or keeps worker and run. *)
LEMMA ManyDrives ==
    ASSUME DrivesTyped, drive' = [c \in Tokens |-> drive'[c]], \A c \in Tokens : DriveSound(drive'[c])
    PROVE  DrivesTyped'
<1>1. \A c \in Tokens : drive'[c] \in DriveType
  BY DEF DriveSound
<1>2. drive' \in [Tokens -> DriveType]
  BY <1>1
<1> QED
  BY <1>2 DEF DrivesTyped, DriveSound

(* A process that is gone has no drives. *)
LEMMA ForgetTyped ==
    ASSUME DrivesTyped, WorkersTyped, NEW w \in Workers, Forget(w), wk' = [wk EXCEPT ![w] = "down"]
    PROVE  DrivesTyped' /\ WorkersTyped'
<1>1. DrivesTyped'
  <2>1. drive' = [c \in Tokens |-> IF c \in DrivesOf(w) THEN NoDrive ELSE drive[c]]
    BY DEF Forget
  <2>2. \A c \in Tokens : DriveSound(IF c \in DrivesOf(w) THEN NoDrive ELSE drive[c])
    BY NoDriveIsSound DEF DrivesTyped
  <2> QED
    BY <2>1, <2>2, ManyDrives
<1>2. WorkersTyped'
  BY WorkerAssumption DEF Forget, WorkersTyped
<1> QED
  BY <1>1, <1>2

(* Launching, stopping and dying leave rows, locks and calls alone. *)
LEMMA WorkerMoveTyped ==
    ASSUME Types, WorkerMove
    PROVE  DrivesTyped' /\ WorkersTyped' /\ UNCHANGED <<runVars, lock, srv, stray>>
<1> DEFINE Goal == DrivesTyped' /\ WorkersTyped' /\ UNCHANGED <<runVars, lock, srv, stray>>
<1>1. DrivesTyped /\ WorkersTyped
  BY DEF Types
<1>2. ASSUME NEW w \in Workers, Launch(w) PROVE Goal
  <2> DEFINE x(c) == [drive[c] EXCEPT !.stage = "launched"]
             y(c) == IF c \in Offered(w) THEN x(c) ELSE drive[c]
             e(r) == IF \E c \in Offered(w) : drive[c].run = r
                     THEN CHOOSE c \in Offered(w) : drive[c].run = r ELSE inFlight[w][r]
  <2>1. drive' = [c \in Tokens |-> y(c)] /\ inFlight' = [inFlight EXCEPT ![w] = [r \in Runs |-> e(r)]]
    BY <1>1, <1>2 DEF Launch, WorkersTyped
  <2>2. ASSUME NEW c \in Tokens PROVE DriveSound(y(c))
    <3>1. DriveSound(drive[c]) /\ (c \in Offered(w) => drive[c].stage = "offered")
      BY <1>1 DEF DrivesTyped, Offered
    <3>2. DriveSound(drive[c]) /\ drive[c].stage = "offered" => DriveSound(x(c))
      BY DEF DriveSound, DriveType, Stage
    <3> QED
      BY <3>1, <3>2
  <2>3. ASSUME NEW r \in Runs PROVE e(r) \in Tokens \cup {NoToken}
    BY <1>1 DEF Offered, WorkersTyped
  <2> HIDE DEF y, e
  <2>4. DrivesTyped'
    BY <1>1, <2>1, <2>2, ManyDrives
  <2>5. inFlight' \in [Workers -> [Runs -> Tokens \cup {NoToken}]]
    BY <1>1, <2>1, <2>3 DEF WorkersTyped
  <2> QED
    BY <1>1, <1>2, <2>4, <2>5, WorkerAssumption DEF Launch, WorkersTyped
<1>3. ASSUME NEW w \in Workers, ClaimFails(w) PROVE Goal
  <2> DEFINE y(c) == IF c \in Offered(w) THEN NoDrive ELSE drive[c]
  <2>1. drive' = [c \in Tokens |-> y(c)]
    BY <1>3 DEF ClaimFails
  <2>2. \A c \in Tokens : DriveSound(y(c))
    BY <1>1, NoDriveIsSound DEF DrivesTyped
  <2> HIDE DEF y
  <2>3. DrivesTyped'
    BY <1>1, <2>1, <2>2, ManyDrives
  <2> QED
    BY <1>1, <1>3, <2>3, WorkerAssumption DEF ClaimFails, WorkersTyped
<1>4. ASSUME NEW w \in Workers, Stop(w) \/ Restart(w) PROVE Goal
  BY <1>1, <1>4 DEF Stop, Restart, WorkersTyped, DrivesTyped
<1>5. ASSUME NEW w \in Workers, StopAbort(w) PROVE Goal
  <2> DEFINE x(c) == [drive[c] EXCEPT !.aborted = TRUE]
             y(c) == IF c \in InFlight(w) THEN x(c) ELSE drive[c]
  <2>1. drive' = [c \in Tokens |-> y(c)]
    BY <1>5 DEF StopAbort
  <2>2. ASSUME NEW c \in Tokens PROVE DriveSound(y(c))
    <3>1. DriveSound(drive[c])
      BY <1>1 DEF DrivesTyped
    <3>2. DriveSound(drive[c]) => DriveSound(x(c))
      BY DEF DriveSound, DriveType
    <3> QED
      BY <3>1, <3>2
  <2> HIDE DEF y
  <2>3. DrivesTyped'
    BY <1>1, <2>1, <2>2, ManyDrives
  <2> QED
    BY <1>1, <1>5, <2>3 DEF StopAbort, WorkersTyped
<1>6. ASSUME NEW w \in Workers, Stopped(w) \/ Crash(w) PROVE Goal
  BY <1>1, <1>6, ForgetTyped DEF Stopped, Crash
<1> QED
  BY <1>2, <1>3, <1>4, <1>5, <1>6 DEF WorkerMove

(* The calls on the queue leave rows and locks alone. *)
LEMMA QueueMoveTyped ==
    ASSUME Types, QueueMove
    PROVE  RunsTyped' /\ DrivesTyped' /\ WorkersTyped' /\ CallsTyped' /\ UNCHANGED <<runVars, lock>>
<1> DEFINE Goal == RunsTyped' /\ DrivesTyped' /\ WorkersTyped' /\ CallsTyped' /\ UNCHANGED <<runVars, lock>>
<1>1. RunsTyped /\ DrivesTyped /\ WorkersTyped /\ CallsTyped
  BY DEF Types
<1>2. ASSUME UNCHANGED <<runVars, lock>> PROVE RunsTyped'
  BY <1>1, <1>2 DEF RunsTyped, runVars
<1>3. ASSUME NEW o \in srv, EnqueueCall(o) PROVE Goal
  <2>1. UNCHANGED workerVars /\ srv' = srv \ {o} /\ stray' = stray \ {o.run} /\ UNCHANGED <<runVars, lock>>
    BY <1>3 DEF EnqueueCall
  <2>2. DrivesTyped' /\ WorkersTyped'
    BY <1>1, <2>1 DEF workerVars, DrivesTyped, WorkersTyped
  <2>3. CallsTyped'
    BY <1>1, <2>1, FS_RemoveElement DEF CallsTyped
  <2> QED
    BY <1>2, <2>1, <2>2, <2>3
<1>4. ASSUME NEW w \in Workers, NEW limit, ServeClaim(w, limit) PROVE DrivesTyped'
  <2>1. CASE drive' = [c \in Tokens |-> IF c \in Offered(w) \ StillHeld(w) THEN NoDrive ELSE drive[c]]
    <3>1. \A c \in Tokens : DriveSound(IF c \in Offered(w) \ StillHeld(w) THEN NoDrive ELSE drive[c])
      BY <1>1, NoDriveIsSound DEF DrivesTyped
    <3> QED
      BY <1>1, <2>1, <3>1, ManyDrives
  <2>2. ASSUME NEW taken \in SUBSET Claimable(Runs), NEW tokenOf,
               drive' = [c \in Tokens |->
                          IF \E r \in taken : tokenOf[r] = c
                          THEN Offer(w, CHOOSE r \in taken : tokenOf[r] = c)
                          ELSE IF c \in Offered(w) THEN NoDrive ELSE drive[c]]
        PROVE DrivesTyped'
    <3>1. ASSUME NEW r \in Runs PROVE DriveSound(Offer(w, r))
      BY DEF Offer, NoDrive, DriveSound, DriveType, Stage
    <3>2. ASSUME NEW c \in Tokens PROVE DriveSound(drive'[c])
      <4>1. CASE \E r \in taken : tokenOf[r] = c
        <5>1. (CHOOSE r \in taken : tokenOf[r] = c) \in Runs
          BY <4>1 DEF Claimable
        <5> QED
          BY <2>2, <3>1, <4>1, <5>1
      <4>2. CASE ~ \E r \in taken : tokenOf[r] = c
        BY <1>1, <2>2, <4>2, NoDriveIsSound DEF DrivesTyped
      <4> QED
        BY <4>1, <4>2
    <3>3. drive' = [c \in Tokens |-> drive'[c]]
      BY <2>2
    <3> QED
      BY <1>1, <3>2, <3>3, ManyDrives
  <2> QED
    BY <1>4, <2>1, <2>2, ServedClaim
<1>5. ASSUME NEW w \in Workers, ClaimTick(w) \/ ClaimResent(w) PROVE Goal
  <2>1. DrivesTyped'
    BY <1>4, <1>5 DEF ClaimTick, ClaimResent
  <2>2. Free(w) \in Int /\ Free(w) <= Concurrency
    BY FreeIsANumber
  <2>3. Free(w) > 0 => Free(w) \in 0 .. Concurrency
    BY <2>2, WorkerAssumption
  <2>4. call' \in [Workers -> 0 .. Concurrency]
    BY <1>1, <1>5, <2>3 DEF ClaimTick, ClaimResent, WorkersTyped
  <2> QED
    BY <1>1, <1>2, <1>5, <2>1, <2>4 DEF ClaimTick, ClaimResent, WorkersTyped, CallsTyped
<1>6. ASSUME NEW c \in Tokens, Settle(c) PROVE Goal
  <2>1. DrivesTyped' /\ WorkersTyped'
    BY <1>1, <1>6, EndTyped DEF Settle
  <2> QED
    BY <1>1, <1>2, <1>6, <2>1 DEF Settle, CallsTyped
<1>7. ASSUME NEW c \in Tokens, SettleAnswerLost(c) PROVE Goal
  <2>1. DrivesTyped' /\ WorkersTyped'
    BY <1>1, <1>7 DEF SettleAnswerLost, workerVars, DrivesTyped, WorkersTyped
  <2> QED
    BY <1>1, <1>2, <1>7, <2>1 DEF SettleAnswerLost, CallsTyped
<1>8. ASSUME NEW c \in Tokens, drive[c].stage # "none", NEW s \in BOOLEAN, NEW a \in BOOLEAN,
             drive' = [drive EXCEPT ![c].settled = s, ![c].aborted = a]
      PROVE DrivesTyped'
  <2> DEFINE x == [drive[c] EXCEPT !.settled = s, !.aborted = a]
  <2>1. drive' = [drive EXCEPT ![c] = x] /\ drive[c] \in DriveType
    BY <1>1, <1>8 DEF DrivesTyped
  <2>2. x \in DriveType /\ x.worker = drive[c].worker /\ x.run = drive[c].run
    BY <2>1 DEF DriveType
  <2> HIDE DEF x
  <2> QED
    BY <1>1, <1>8, <2>1, <2>2, GoesOnTyped DEF GoesOn
<1>9. ASSUME NEW c \in Tokens, Heartbeat(c) PROVE Goal
  <2>1. drive[c].stage # "none"
    BY <1>9 DEF Heartbeat
  <2>2. DrivesTyped'
    BY <1>1, <1>8, <1>9, <2>1 DEF Heartbeat, DrivesTyped
  <2> QED
    BY <1>1, <1>2, <1>9, <2>2 DEF Heartbeat, CallsTyped, WorkersTyped
<1>10. ASSUME NEW c \in Tokens, ReleaseNow(c) PROVE Goal
  <2>1. drive[c].stage # "none" /\ drive' = [drive EXCEPT ![c].settled = TRUE]
    BY <1>10 DEF ReleaseNow
  <2>2. drive[c].aborted \in BOOLEAN /\ drive[c] \in DriveType
    BY <1>1 DEF DrivesTyped, DriveType
  <2> DEFINE x == [drive[c] EXCEPT !.settled = TRUE]
  <2>3. drive' = [drive EXCEPT ![c] = x]
    BY <1>1, <2>1 DEF DrivesTyped
  <2>4. x \in DriveType /\ x.worker = drive[c].worker /\ x.run = drive[c].run
    BY <2>2 DEF DriveType
  <2> HIDE DEF x
  <2>5. DrivesTyped'
    BY <1>1, <2>1, <2>3, <2>4, GoesOnTyped DEF GoesOn
  <2> QED
    BY <1>1, <1>2, <1>10, <2>5 DEF ReleaseNow, CallsTyped, WorkersTyped
<1>11. ASSUME NEW r \in Runs, ClaimGoesStale(r) \/ DelayPasses(r) PROVE Goal
  BY <1>1, <1>2, <1>11 DEF ClaimGoesStale, DelayPasses, workerVars, DrivesTyped, WorkersTyped, CallsTyped
<1> QED
  BY <1>3, <1>5, <1>6, <1>7, <1>9, <1>10, <1>11 DEF QueueMove

(* Every step keeps every type. *)
LEMMA TypesStep ==
    ASSUME Types, [Next]_vars
    PROVE  Types'
<1>1. QueueInv'
  BY OneCall, QueueStep DEF Types
<1>2. CASE ServerMove
  BY <1>1, <1>2, ServerMoveTyped DEF Types, workerVars, DrivesTyped, WorkersTyped
<1>3. CASE DriveMove
  BY <1>1, <1>3, DriveMoveTyped DEF Types, CallsTyped
<1>4. CASE WorkerMove
  BY <1>1, <1>4, WorkerMoveTyped DEF Types, runVars, RunsTyped, CallsTyped
<1>5. CASE QueueMove
  BY <1>1, <1>5, QueueMoveTyped DEF Types
<1>6. CASE UNCHANGED vars
  BY <1>1, <1>6 DEF Types, vars, runVars, workerVars, RunsTyped, DrivesTyped, WorkersTyped, CallsTyped
<1> QED
  BY <1>2, <1>3, <1>4, <1>5, <1>6, EveryMove

-----------------------------------------------------------------------------
(* A live run keeps its start. *)

Live(r) == row[r].status \in {"pending", "running"}

(* An enqueue of the run is under way. *)
Watched(r) == \E o \in srv : o.run = r /\ o.op \in {"enqueue", "unlock"}

(* The drive under c has made up its mind to complete its start. *)
WillComplete(c) ==
    drive[c].stage = "answered" \/ (drive[c].stage = "settling" /\ drive[c].settle = "complete")

(* The start is in the queue, and its claimant will not complete it away. *)
Kept(r) ==
    /\ rec[r].queued
    /\ \A c \in Tokens : rec[r].token = c /\ drive[c].run = r /\ WillComplete(c) => rec[r].requeued

LiveRunsKept == \A r \in Runs \ stray : Live(r) => Watched(r) \/ Kept(r)

(* The queue does not let go of r, nor hand it to anybody new. *)
RecordStays(r) ==
    rec[r].queued =>
        /\ rec'[r].queued
        /\ \/ rec'[r].token = NoToken
           \/ rec'[r].token = rec[r].token /\ (rec[r].requeued => rec'[r].requeued)

(* Who makes up his mind has seen the run at rest. *)
MindsMadeUpAtRest ==
    \A c \in Tokens : WillComplete(c)' =>
        \/ WillComplete(c) /\ drive'[c].run = drive[c].run
        \/ row'[drive'[c].run].status \notin {"pending", "running"}

(* A run comes to life with an enqueue under way; one that loses its call   *)
(* goes astray.                                                            *)
RunsWatched ==
    /\ stray \subseteq stray'
    /\ \A r \in Runs : /\ Live(r)' => Live(r) \/ Watched(r)'
                       /\ Watched(r) => Watched(r)' \/ r \in stray'

(* All but enqueue, claim and complete are steps of this kind. *)
LEMMA CalmStep ==
    ASSUME LiveRunsKept, \A r \in Runs : RecordStays(r), MindsMadeUpAtRest, RunsWatched
    PROVE  LiveRunsKept'
<1> SUFFICES ASSUME NEW r \in Runs, r \notin stray', Live(r)', ~ Watched(r)'
             PROVE  Kept(r)'
  BY DEF LiveRunsKept
<1>1. Live(r) /\ r \notin stray /\ ~ Watched(r)
  BY DEF RunsWatched
<1>2. Kept(r) /\ RecordStays(r)
  BY <1>1 DEF LiveRunsKept
<1>3. rec'[r].queued
  BY <1>2 DEF Kept, RecordStays
<1>4. ASSUME NEW c \in Tokens, rec'[r].token = c, drive'[c].run = r, WillComplete(c)'
      PROVE  rec'[r].requeued
  <2>1. WillComplete(c) /\ drive[c].run = r
    BY <1>4 DEF MindsMadeUpAtRest, Live
  <2>2. rec[r].token = c /\ (rec[r].requeued => rec'[r].requeued)
    BY <1>2, <1>4, TokenAssumption DEF Kept, RecordStays
  <2> QED
    BY <1>2, <2>1, <2>2 DEF Kept
<1> QED
  BY <1>3, <1>4 DEF Kept, WillComplete

(* Where no drive changes, none decides to complete. *)
LEMMA NobodyDecides ==
    ASSUME drive' = drive
    PROVE  MindsMadeUpAtRest
BY DEF MindsMadeUpAtRest, WillComplete

(* Where rows and calls stay, no run comes alive. *)
LEMMA NothingWatched ==
    ASSUME row' = row, srv' = srv, stray' = stray
    PROVE  RunsWatched
BY DEF RunsWatched, Live, Watched

(* The same queue keeps its records. *)
LEMMA RecordsStay ==
    ASSUME rec' = rec
    PROVE  \A r \in Runs : RecordStays(r)
BY DEF RecordStays

(* Server calls replace each other, the run they are for stays. *)
LEMMA ServerMoveWatched ==
    ASSUME Types, ServerMove
    PROVE  RunsWatched
<1>1. RunsTyped /\ CallsTyped
  BY DEF Types
<1>2. ASSUME NEW o \in srv PROVE o.run \in Runs /\ row[o.run] \in RowType
  BY <1>1, <1>2 DEF CallsTyped, CallType, RunsTyped
<1>3. ASSUME NEW r \in Runs, Trigger(r) PROVE RunsWatched
  <2>1. /\ srv' = srv \cup {ToEnqueue(r, FALSE)} /\ stray' = stray
        /\ \A s \in Runs \ {r} : row'[s] = row[s]
    BY <1>1, <1>3 DEF Trigger, RunsTyped
  <2>2. Watched(r)'
    <3>1. ToEnqueue(r, FALSE).run = r /\ ToEnqueue(r, FALSE).op = "enqueue"
      BY DEF ToEnqueue
    <3> QED
      BY <2>1, <3>1 DEF Watched
  <2> QED
    BY <2>1, <2>2 DEF RunsWatched, Watched, Live
<1>4. ASSUME NEW p, srv' = srv \cup {p}, row' = row, stray' = stray PROVE RunsWatched
  BY <1>4 DEF RunsWatched, Watched, Live
<1>5. ASSUME NEW r \in Runs, Scan(r) \/ Sweep(r) \/ OperatorAsks("rerun", r) \/ OperatorAsks("resume", r)
      PROVE  RunsWatched
  BY <1>4, <1>5 DEF Scan, Sweep, OperatorAsks, runVars
<1>6. ASSUME NEW r \in Runs, SendSignal(r) \/ LockRunsOut(r) \/ \E clock \in {"server", "worker"} : SleepEnds(r, clock)
      PROVE  RunsWatched
  BY <1>6, NothingWatched DEF SendSignal, LockRunsOut, SleepEnds, runVars
<1>7. ASSUME NEW o \in srv, o.op \notin {"enqueue", "unlock"}, row' = row, stray' = stray,
             \/ srv' = srv \ {o}
             \/ \E p : srv' = (srv \ {o}) \cup {p}
      PROVE  RunsWatched
  BY <1>7 DEF RunsWatched, Watched, Live
<1>8. ASSUME NEW o \in srv, RerunLoad(o) \/ ResumeLock(o) PROVE RunsWatched
  BY <1>7, <1>8 DEF RerunLoad, ResumeLock, Becomes, runVars
<1>9. ASSUME NEW o \in srv, NEW p, p.run = o.run, p.op \in {"enqueue", "unlock"},
             srv' = (srv \ {o}) \cup {p}, stray' = stray,
             \A s \in Runs \ {o.run} : row'[s] = row[s]
      PROVE  RunsWatched
  <2>1. Watched(o.run)'
    BY <1>9 DEF Watched
  <2>2. \A s \in Runs \ {o.run} : Watched(s) => Watched(s)'
    BY <1>9 DEF Watched
  <2> QED
    BY <1>9, <2>1, <2>2 DEF RunsWatched, Live
<1>10. ASSUME NEW o \in srv, StartFreshRun(o) PROVE RunsWatched
  <2>1. \A s \in Runs \ {o.run} : row'[s] = row[s]
    BY <1>1, <1>2, <1>10 DEF StartFreshRun, runVars, RunsTyped
  <2>2. /\ srv' = (srv \ {o}) \cup {ToEnqueue(o.run, FALSE)} /\ stray' = stray
        /\ ToEnqueue(o.run, FALSE).run = o.run /\ ToEnqueue(o.run, FALSE).op = "enqueue"
    BY <1>10 DEF StartFreshRun, Becomes, ToEnqueue
  <2> QED
    BY <1>9, <2>1, <2>2
<1>11. ASSUME NEW o \in srv, ResumeUnlock(o) PROVE RunsWatched
  <2>1. /\ srv' = (srv \ {o}) \cup {ToEnqueue(o.run, FALSE)} /\ stray' = stray /\ row' = row
        /\ ToEnqueue(o.run, FALSE).run = o.run /\ ToEnqueue(o.run, FALSE).op = "enqueue"
    BY <1>11 DEF ResumeUnlock, Becomes, ToEnqueue, runVars
  <2> QED
    BY <1>9, <2>1
<1>12. ASSUME NEW o \in srv, NEW n, ResetSteps(o, n) PROVE RunsWatched
  <2>1. \A s \in Runs \ {o.run} : row'[s] = row[s]
    BY <1>1, <1>2, <1>12 DEF ResetSteps, RunsTyped
  <2>2. /\ srv' = (srv \ {o}) \cup {OperatorCall("unlock", o.run, 0)} /\ stray' = stray
        /\ OperatorCall("unlock", o.run, 0).run = o.run /\ OperatorCall("unlock", o.run, 0).op = "unlock"
    BY <1>12 DEF ResetSteps, Becomes, OperatorCall
  <2> QED
    BY <1>9, <2>1, <2>2
<1>13. ASSUME NEW o \in srv, ServerCallDies(o) PROVE RunsWatched
  BY <1>13 DEF ServerCallDies, runVars, RunsWatched, Watched, Live
<1> QED
  BY <1>3, <1>5, <1>6, <1>8, <1>10, <1>11, <1>12, <1>13 DEF ServerMove

(* One drive changes, and says why it may complete. *)
LEMMA OneMind ==
    ASSUME DrivesTyped, NEW c \in Tokens, NEW x, drive' = [drive EXCEPT ![c] = x],
           x.stage = "answered" \/ (x.stage = "settling" /\ x.settle = "complete") =>
             \/ WillComplete(c) /\ x.run = drive[c].run
             \/ row'[x.run].status \notin {"pending", "running"}
    PROVE  MindsMadeUpAtRest
<1> SUFFICES ASSUME NEW d \in Tokens, WillComplete(d)'
             PROVE  \/ WillComplete(d) /\ drive'[d].run = drive[d].run
                    \/ row'[drive'[d].run].status \notin {"pending", "running"}
  BY DEF MindsMadeUpAtRest
<1>1. CASE d = c
  <2>1. drive'[d] = x
    BY <1>1 DEF DrivesTyped
  <2> QED
    BY <1>1, <2>1 DEF WillComplete
<1>2. CASE d # c
  <2>1. drive'[d] = drive[d]
    BY <1>2 DEF DrivesTyped
  <2> QED
    BY <2>1 DEF WillComplete
<1> QED
  BY <1>1, <1>2

(* A drive that returns completes only what it answered. *)
LEMMA ReturnsMind ==
    ASSUME DrivesTyped, NEW c \in Tokens, NEW then, NEW settle, Returns(c, then, settle),
           then # "answered", (then = "settling" /\ settle = "complete") => WillComplete(c)
    PROVE  MindsMadeUpAtRest
<1>1. CASE drive[c].settled
  <2>1. drive' = [drive EXCEPT ![c] = NoDrive]
    BY <1>1 DEF Returns, End
  <2> QED
    BY <2>1, OneMind, NoDriveIsSound
<1>2. CASE ~ drive[c].settled
  <2> DEFINE x == [drive[c] EXCEPT !.stage = then, !.settle = settle]
  <2>1. drive' = [drive EXCEPT ![c] = x] /\ drive[c] \in DriveType
    BY <1>2 DEF Returns, DrivesTyped
  <2>2. x.stage = then /\ x.settle = settle /\ x.run = drive[c].run
    BY <2>1 DEF DriveType
  <2> HIDE DEF x
  <2> QED
    BY <2>1, <2>2, OneMind
<1> QED
  BY <1>1, <1>2

(* A drive decides to complete only what it found at rest. *)
LEMMA DriveMoveKept ==
    ASSUME Types, LiveRunsKept, DriveMove
    PROVE  LiveRunsKept'
<1>1. RunsTyped /\ DrivesTyped
  BY DEF Types
<1>2. rec' = rec /\ srv' = srv /\ stray' = stray
  BY QuietMoves, DriveMoveTyped DEF queueVars
<1>3. ASSUME NEW c \in Tokens, drive[c].stage # "none"
      PROVE  drive[c] \in DriveType /\ drive[c].run \in Runs /\ row[drive[c].run] \in RowType
  BY <1>1, <1>3 DEF DrivesTyped, DriveSound, RunsTyped
<1>4. ASSUME MindsMadeUpAtRest, \A r \in Runs : Live(r)' => Live(r) PROVE LiveRunsKept'
  <2>1. RunsWatched
    BY <1>2, <1>4 DEF RunsWatched, Watched
  <2> QED
    BY <1>2, <1>4, <2>1, CalmStep, RecordsStay
<1>5. ASSUME row' = row PROVE \A r \in Runs : Live(r)' => Live(r)
  BY <1>5 DEF Live
<1>6. ASSUME NEW c \in Tokens, RunLocked(c) PROVE LiveRunsKept'
  BY <1>1, <1>4, <1>5, <1>6, ReturnsMind DEF RunLocked, runVars
<1>7. ASSUME NEW c \in Tokens, Run(c) PROVE LiveRunsKept'
  <2> DEFINE r == drive[c].run
             x == [drive[c] EXCEPT !.stage = IF Ended(r) THEN "answered" ELSE "driving",
                                   !.steps = row[r].steps]
  <2>1. drive[c].stage = "launched" /\ drive' = [drive EXCEPT ![c] = x] /\ row' = row
    BY <1>1, <1>7 DEF Run, DrivesTyped, runVars
  <2>2. x.run = r /\ x.stage = IF Ended(r) THEN "answered" ELSE "driving"
    BY <1>3, <2>1 DEF DriveType
  <2> HIDE DEF x
  <2>3. MindsMadeUpAtRest
    BY <1>1, <2>1, <2>2, OneMind DEF Ended
  <2> QED
    BY <1>4, <1>5, <2>1, <2>3
<1>8. ASSUME NEW c \in Tokens, StepDone(c) PROVE LiveRunsKept'
  <2> DEFINE r == drive[c].run
             n == NextStep(c)
             x == [drive[c] EXCEPT !.steps = @ \cup {n}]
             y == [row[r] EXCEPT !.steps = @ \cup {n}, !.parked = "no", !.status = MarkRunning(@)]
  <2>1. /\ drive[c].stage = "driving" /\ drive' = [drive EXCEPT ![c] = x]
        /\ row' = [row EXCEPT ![r] = y]
    BY <1>1, <1>8 DEF StepDone, Driving, DrivesTyped, RunsTyped
  <2> HIDE DEF n
  <2>2. x.stage = "driving"
    BY <1>3, <2>1 DEF DriveType
  <2>3. y.status = MarkRunning(row[r].status)
    BY <1>3, <2>1 DEF RowType
  <2> HIDE DEF x, y
  <2>4. \A s \in Runs : Live(s)' => Live(s)
    BY <1>1, <1>3, <2>1, <2>3 DEF RunsTyped, Live, MarkRunning
  <2>5. MindsMadeUpAtRest
    BY <1>1, <2>1, <2>2, OneMind
  <2> QED
    BY <1>4, <2>4, <2>5
<1>9. ASSUME NEW c \in Tokens, Park(c) PROVE LiveRunsKept'
  <2> DEFINE r == drive[c].run
             x == [drive[c] EXCEPT !.stage = "unlocking"]
             y == [row[r] EXCEPT !.status = "suspended", !.parked = Steps[NextStep(c)]]
  <2>1. /\ drive[c].stage = "driving" /\ drive' = [drive EXCEPT ![c] = x]
        /\ row' = [row EXCEPT ![r] = y]
    BY <1>1, <1>9 DEF Park, Driving, DrivesTyped, RunsTyped
  <2>2. x.stage = "unlocking" /\ y.status = "suspended"
    BY <1>3, <2>1 DEF DriveType, RowType
  <2> HIDE DEF x, y
  <2>4. \A s \in Runs : Live(s)' => Live(s)
    BY <1>1, <1>3, <2>1, <2>2 DEF RunsTyped, Live
  <2>5. MindsMadeUpAtRest
    BY <1>1, <2>1, <2>2, OneMind
  <2> QED
    BY <1>4, <2>4, <2>5
<1>10. ASSUME NEW c \in Tokens, Finish(c) PROVE LiveRunsKept'
  <2> DEFINE r == drive[c].run
             x == [drive[c] EXCEPT !.stage = "answered"]
             y == [row[r] EXCEPT !.status = "ended"]
  <2>1. /\ drive[c].stage = "driving" /\ drive' = [drive EXCEPT ![c] = x]
        /\ row' = [row EXCEPT ![r] = y]
    BY <1>1, <1>10 DEF Finish, Driving, DrivesTyped, RunsTyped
  <2>2. x.run = r /\ y.status = "ended" /\ r \in Runs
    BY <1>3, <2>1 DEF DriveType, RowType
  <2> HIDE DEF x, y
  <2>3. row'[r].status = "ended"
    BY <1>1, <2>1, <2>2 DEF RunsTyped
  <2>4. \A s \in Runs : Live(s)' => Live(s)
    BY <1>1, <2>1, <2>2 DEF RunsTyped, Live
  <2>5. MindsMadeUpAtRest
    BY <1>1, <2>1, <2>2, <2>3, OneMind
  <2> QED
    BY <1>4, <2>4, <2>5
<1>11. ASSUME NEW c \in Tokens, StopsShort(c) PROVE LiveRunsKept'
  <2> DEFINE x == [drive[c] EXCEPT !.stage = "unlocking"]
  <2>1. drive[c].stage = "driving" /\ drive' = [drive EXCEPT ![c] = x] /\ row' = row
    BY <1>1, <1>11 DEF StopsShort, DrivesTyped, runVars
  <2>2. x.stage = "unlocking"
    BY <1>3, <2>1 DEF DriveType
  <2> HIDE DEF x
  <2>3. MindsMadeUpAtRest
    BY <1>1, <2>1, <2>2, OneMind
  <2> QED
    BY <1>4, <1>5, <2>1, <2>3
<1>12. ASSUME NEW c \in Tokens, Unlock(c) PROVE LiveRunsKept'
  <2>1. /\ row' = row
        /\ \/ drive[c].stage = "answered" /\ Returns(c, "settling", "complete")
           \/ Returns(c, "stopped", "none")
    BY <1>12 DEF Unlock, runVars
  <2>2. MindsMadeUpAtRest
    BY <1>1, <2>1, ReturnsMind DEF WillComplete
  <2> QED
    BY <1>4, <1>5, <2>1, <2>2
<1>13. ASSUME NEW c \in Tokens, LoadRest(c) \/ LoadFails(c) PROVE LiveRunsKept'
  <2>1. PICK settle : /\ drive' = [drive EXCEPT ![c].stage = "settling", ![c].settle = settle]
                      /\ settle = "complete" => AtRest(drive[c].run)
    BY <1>13 DEF LoadRest, LoadFails, GiveBack
  <2> DEFINE x == [drive[c] EXCEPT !.stage = "settling", !.settle = settle]
  <2>2. drive[c].stage = "stopped" /\ drive' = [drive EXCEPT ![c] = x] /\ row' = row
    BY <1>1, <1>13, <2>1 DEF LoadRest, LoadFails, DrivesTyped, runVars
  <2>3. x.run = drive[c].run /\ x.stage = "settling" /\ x.settle = settle
    BY <1>3, <2>2 DEF DriveType
  <2> HIDE DEF x
  <2>4. MindsMadeUpAtRest
    BY <1>1, <2>1, <2>2, <2>3, OneMind DEF AtRest
  <2> QED
    BY <1>4, <1>5, <2>2, <2>4
<1>14. ASSUME NEW c \in Tokens, SettleFails(c) PROVE LiveRunsKept'
  <2>1. drive' = [drive EXCEPT ![c] = NoDrive] /\ row' = row
    BY <1>14 DEF SettleFails, End, runVars
  <2>2. MindsMadeUpAtRest
    BY <1>1, <2>1, OneMind, NoDriveIsSound
  <2> QED
    BY <1>4, <1>5, <2>1, <2>2
<1> QED
  BY <1>6, <1>7, <1>8, <1>9, <1>10, <1>11, <1>12, <1>13, <1>14 DEF DriveMove

(* Workers starting, stopping and dying decide nothing. *)
LEMMA WorkerMoveKept ==
    ASSUME Types, LiveRunsKept, WorkerMove
    PROVE  LiveRunsKept'
<1>1. DrivesTyped /\ WorkersTyped
  BY DEF Types
<1>2. rec' = rec /\ row' = row /\ srv' = srv /\ stray' = stray
  BY QuietMoves, WorkerMoveTyped DEF queueVars, runVars
<1>3. ASSUME NEW c \in Tokens,
             \/ drive'[c] = drive[c] \/ drive'[c] = NoDrive
             \/ drive'[c] = [drive[c] EXCEPT !.stage = "launched"]
             \/ drive'[c] = [drive[c] EXCEPT !.aborted = TRUE]
      PROVE  WillComplete(c)' => WillComplete(c) /\ drive'[c].run = drive[c].run
  <2>1. drive[c] \in DriveType
    BY <1>1 DEF DrivesTyped
  <2>2. CASE drive'[c] = drive[c] \/ drive'[c] = NoDrive
    BY <2>2, NoDriveIsSound DEF WillComplete
  <2>3. CASE drive'[c] = [drive[c] EXCEPT !.stage = "launched"]
    BY <2>1, <2>3 DEF WillComplete, DriveType
  <2>4. CASE drive'[c] = [drive[c] EXCEPT !.aborted = TRUE]
    BY <2>1, <2>4 DEF WillComplete, DriveType
  <2> QED
    BY <1>3, <2>2, <2>3, <2>4
<1>4. ASSUME NEW c \in Tokens
      PROVE  \/ drive'[c] = drive[c] \/ drive'[c] = NoDrive
             \/ drive'[c] = [drive[c] EXCEPT !.stage = "launched"]
             \/ drive'[c] = [drive[c] EXCEPT !.aborted = TRUE]
  BY DEF WorkerMove, Launch, ClaimFails, Stop, StopAbort, Stopped, Crash, Restart, Forget
<1>5. MindsMadeUpAtRest
  BY <1>3, <1>4 DEF MindsMadeUpAtRest
<1> QED
  BY <1>2, <1>5, CalmStep, RecordsStay, NothingWatched

(* enqueue: the start is there, and a claim on it is marked. *)
LEMMA EnqueueKept ==
    ASSUME Types, LiveRunsKept, NEW o \in srv, EnqueueCall(o)
    PROVE  LiveRunsKept'
<1> DEFINE r == o.run
<1>1. QueueInv /\ r \in Runs
  BY DEF Types, CallsTyped, CallType
<1>2. /\ rec' = [rec EXCEPT ![r] = Enqueued(r, o.keep)] /\ srv' = srv \ {o}
      /\ stray' = stray \ {r} /\ row' = row /\ drive' = drive
  BY DEF EnqueueCall, Enqueue, runVars, workerVars
<1>3. rec[r] \in StartRecord /\ (~ rec[r].queued => rec[r].token = NoToken)
  BY <1>1 DEF QueueInv, Sound, Absent
<1>4. Enqueued(r, o.keep).queued /\ (Enqueued(r, o.keep).token # NoToken => Enqueued(r, o.keep).requeued)
  <2>1. CASE IsClaimed(r)
    BY <1>3, <2>1 DEF Enqueued, IsClaimed, StartRecord
  <2>2. CASE ~ IsClaimed(r)
    BY <1>3, <2>2 DEF Enqueued, IsClaimed, Unclaimed, QueuedAs
  <2> QED
    BY <2>1, <2>2
<1>5. rec'[r] = Enqueued(r, o.keep) /\ \A s \in Runs \ {r} : rec'[s] = rec[s]
  BY <1>1, <1>2 DEF QueueInv
<1>6. Kept(r)'
  BY <1>4, <1>5, TokenAssumption DEF Kept
<1>7. ASSUME NEW s \in Runs \ {r}, s \notin stray', Live(s)' PROVE Watched(s)' \/ Kept(s)'
  <2>1. s \notin stray /\ Live(s)
    BY <1>2, <1>7 DEF Live
  <2>2. Watched(s) \/ Kept(s)
    BY <2>1 DEF LiveRunsKept
  <2>3. Watched(s) => Watched(s)'
    BY <1>2 DEF Watched
  <2>4. Kept(s) => Kept(s)'
    BY <1>2, <1>5 DEF Kept, WillComplete
  <2> QED
    BY <2>2, <2>3, <2>4
<1> QED
  BY <1>6, <1>7 DEF LiveRunsKept

(* reclaimStale leaves a start as it is, or unclaimed. *)
LEMMA ReclaimedStays ==
    ASSUME QueueInv, NEW r \in Runs, rec'[r] = Reclaimed(r)
    PROVE  RecordStays(r)
BY DEF RecordStays, Reclaimed, Unclaimed, QueuedAs

(* claim: a fresh token has no drive that made up its mind. *)
LEMMA ServeClaimKept ==
    ASSUME Types, LiveRunsKept, NEW w \in Workers, NEW limit, ServeClaim(w, limit),
           row' = row, srv' = srv, stray' = stray
    PROVE  LiveRunsKept'
<1>1. QueueInv /\ DrivesTyped
  BY DEF Types
<1>2. RunsWatched
  BY NothingWatched
<1>3. CASE /\ OnlyReclaim
           /\ drive' = [c \in Tokens |-> IF c \in Offered(w) \ StillHeld(w) THEN NoDrive ELSE drive[c]]
  <2>1. \A r \in Runs : RecordStays(r)
    BY <1>1, <1>3, ReclaimedStays DEF OnlyReclaim, ReclaimStale
  <2>2. MindsMadeUpAtRest
    BY <1>3, NoDriveIsSound DEF MindsMadeUpAtRest, WillComplete
  <2> QED
    BY <1>2, <2>1, <2>2, CalmStep
<1>4. ASSUME NEW taken \in SUBSET Claimable(Runs),
             NEW tokenOf \in [taken -> {c \in Tokens : ~TokenInUse(c)}],
             Claim(taken, tokenOf),
             drive' = [c \in Tokens |->
                         IF \E r \in taken : tokenOf[r] = c
                         THEN Offer(w, CHOOSE r \in taken : tokenOf[r] = c)
                         ELSE IF c \in Offered(w) THEN NoDrive ELSE drive[c]]
      PROVE  LiveRunsKept'
  <2>1. \A r : Offer(w, r).stage = "offered"
    BY DEF Offer, NoDrive
  <2>2. ASSUME NEW c \in Tokens, WillComplete(c)'
        PROVE  drive'[c] = drive[c] /\ WillComplete(c) /\ ~ \E r \in taken : tokenOf[r] = c
    <3>1. ~ \E r \in taken : tokenOf[r] = c
      BY <1>4, <2>1, <2>2 DEF WillComplete
    <3>2. drive'[c] = drive[c]
      BY <1>4, <2>2, <3>1, NoDriveIsSound DEF WillComplete
    <3> QED
      BY <2>2, <3>1, <3>2 DEF WillComplete
  <2>3. ASSUME NEW r \in Runs, r \notin stray, Live(r), ~ Watched(r) PROVE Kept(r)'
    <3>1. Kept(r)
      BY <2>3 DEF LiveRunsKept
    <3>2. CASE r \in taken
      <4>1. rec'[r] = ClaimedBy(tokenOf[r])
        BY <1>4, <3>2 DEF Claim
      <4>2. rec'[r].queued /\ rec'[r].token = tokenOf[r]
        BY <4>1 DEF ClaimedBy, QueuedAs
      <4> QED
        BY <2>2, <3>2, <4>2 DEF Kept
    <3>3. CASE r \notin taken
      <4>1. rec'[r] = Reclaimed(r)
        BY <1>4, <3>3 DEF Claim
      <4>2. RecordStays(r)
        BY <1>1, <4>1, ReclaimedStays
      <4> QED
        BY <2>2, <3>1, <4>2, TokenAssumption DEF Kept, RecordStays
    <3> QED
      BY <3>2, <3>3
  <2> QED
    BY <2>3 DEF LiveRunsKept, Live, Watched
<1> QED
  BY <1>3, <1>4, ServedClaim

(* complete: only a start whose run is at rest, or about to be enqueued,    *)
(* goes; one enqueued meanwhile goes back.                                 *)
LEMMA ServeSettleKept ==
    ASSUME Types, LiveRunsKept, NEW c \in Tokens, drive[c].stage = "settling", ServeSettle(c),
           row' = row, srv' = srv, stray' = stray,
           \A d \in Tokens : drive'[d] = drive[d] \/ drive'[d] = NoDrive
    PROVE  LiveRunsKept'
<1> DEFINE r == drive[c].run
<1>1. QueueInv /\ r \in Runs
  BY DEF Types, DrivesTyped, DriveSound
<1>2. RunsWatched
  BY NothingWatched
<1>3. MindsMadeUpAtRest
  BY NoDriveIsSound DEF MindsMadeUpAtRest, WillComplete
<1>4. ASSUME NEW x, rec' = [rec EXCEPT ![r] = x], x.queued, x.token = NoToken PROVE LiveRunsKept'
  <2>1. \A s \in Runs : RecordStays(s)
    BY <1>1, <1>4 DEF QueueInv, RecordStays
  <2> QED
    BY <1>2, <1>3, <2>1, CalmStep
<1>5. CASE rec' = rec
  BY <1>2, <1>3, <1>5, CalmStep, RecordsStay
<1>6. CASE Current(r, c) /\ drive[c].settle # "complete"
  <2>1. PICK b : rec' = [rec EXCEPT ![r] = QueuedAs(NoToken, b)]
    BY <1>6 DEF ServeSettle, Release
  <2>2. QueuedAs(NoToken, b).queued /\ QueuedAs(NoToken, b).token = NoToken
    BY DEF QueuedAs
  <2> QED
    BY <1>4, <2>1, <2>2
<1>7. CASE Current(r, c) /\ drive[c].settle = "complete" /\ rec[r].requeued
  <2>1. rec' = [rec EXCEPT ![r] = Unclaimed]
    BY <1>7 DEF ServeSettle, Complete, GoesBack
  <2>2. Unclaimed.queued /\ Unclaimed.token = NoToken
    BY DEF Unclaimed, QueuedAs
  <2> QED
    BY <1>4, <2>1, <2>2
<1>8. CASE Current(r, c) /\ drive[c].settle = "complete" /\ ~ rec[r].requeued
  <2>1. ~ Kept(r)
    BY <1>8 DEF Kept, Current, WillComplete
  <2>2. rec' = [rec EXCEPT ![r] = Absent]
    BY <1>8 DEF ServeSettle, Complete, GoesBack
  <2>3. \A s \in Runs \ {r} : rec'[s] = rec[s]
    BY <1>1, <2>2 DEF QueueInv
  <2>4. ASSUME NEW s \in Runs, s \notin stray, Live(s), ~ Watched(s) PROVE Kept(s)'
    <3>1. Kept(s) /\ s # r
      BY <2>1, <2>4 DEF LiveRunsKept
    <3>2. rec'[s] = rec[s]
      BY <2>3, <3>1
    <3> QED
      BY <3>1, <3>2, NoDriveIsSound DEF Kept, WillComplete
  <2> QED
    BY <2>4 DEF LiveRunsKept, Live, Watched
<1>9. CASE ~ Current(r, c)
  BY <1>5, <1>9 DEF ServeSettle, Complete, Release, queueVars
<1> QED
  BY <1>6, <1>7, <1>8, <1>9

(* An outdated claim completes nothing, a current one only what rests. *)
LEMMA QueueMoveKept ==
    ASSUME Types, LiveRunsKept, QueueMove
    PROVE  LiveRunsKept'
<1>1. QueueInv /\ DrivesTyped
  BY DEF Types
<1>2. CASE \E o \in srv : EnqueueCall(o)
  BY <1>2, EnqueueKept
<1>3. CASE \E w \in Workers : ClaimTick(w) \/ ClaimResent(w)
  BY <1>3, ServeClaimKept DEF ClaimTick, ClaimResent, runVars
<1>4. ASSUME NEW c \in Tokens, Settle(c) PROVE LiveRunsKept'
  <2>1. /\ drive[c].stage = "settling" /\ row' = row /\ srv' = srv /\ stray' = stray
        /\ drive' = [drive EXCEPT ![c] = NoDrive]
    BY <1>4 DEF Settle, End, runVars
  <2>2. \A d \in Tokens : drive'[d] = drive[d] \/ drive'[d] = NoDrive
    BY <1>1, <2>1 DEF DrivesTyped
  <2>3. CASE drive[c].settled
    <3>1. rec' = rec
      BY <1>4, <2>3 DEF Settle, queueVars
    <3>2. MindsMadeUpAtRest
      BY <2>2, NoDriveIsSound DEF MindsMadeUpAtRest, WillComplete
    <3> QED
      BY <2>1, <3>1, <3>2, CalmStep, RecordsStay, NothingWatched
  <2>4. CASE ~ drive[c].settled
    BY <1>4, <2>1, <2>2, <2>4, ServeSettleKept DEF Settle
  <2> QED
    BY <2>3, <2>4
<1>5. ASSUME NEW c \in Tokens, SettleAnswerLost(c) PROVE LiveRunsKept'
  BY <1>5, ServeSettleKept DEF SettleAnswerLost, runVars, workerVars
<1>6. ASSUME NEW c \in Tokens, Heartbeat(c) PROVE LiveRunsKept'
  <2>1. row' = row /\ srv' = srv /\ stray' = stray /\ OnlyReclaim
    BY <1>6 DEF Heartbeat, runVars
  <2>2. \A r \in Runs : RecordStays(r)
    BY <1>1, <2>1, ReclaimedStays DEF OnlyReclaim, ReclaimStale
  <2>3. MindsMadeUpAtRest
    <3>1. CASE drive' = drive
      BY <3>1, NobodyDecides
    <3>2. CASE drive' = [drive EXCEPT ![c].settled = TRUE, ![c].aborted = TRUE]
      <4> DEFINE x == [drive[c] EXCEPT !.settled = TRUE, !.aborted = TRUE]
      <4>1. drive' = [drive EXCEPT ![c] = x] /\ drive[c] \in DriveType
        BY <1>1, <3>2 DEF DrivesTyped
      <4>2. x.stage = drive[c].stage /\ x.settle = drive[c].settle /\ x.run = drive[c].run
        BY <4>1 DEF DriveType
      <4> HIDE DEF x
      <4> QED
        BY <1>1, <4>1, <4>2, OneMind DEF WillComplete
    <3> QED
      BY <1>6, <3>1, <3>2 DEF Heartbeat
  <2> QED
    BY <2>1, <2>2, <2>3, CalmStep, NothingWatched
<1>7. ASSUME NEW c \in Tokens, ReleaseNow(c) PROVE LiveRunsKept'
  <2> DEFINE x == [drive[c] EXCEPT !.settled = TRUE]
             r == drive[c].run
  <2>1. /\ row' = row /\ srv' = srv /\ stray' = stray /\ Release(r, c, FALSE) /\ r \in Runs
        /\ drive' = [drive EXCEPT ![c] = x] /\ drive[c] \in DriveType
    BY <1>1, <1>7 DEF ReleaseNow, runVars, DrivesTyped, DriveSound
  <2>2. x.stage = drive[c].stage /\ x.settle = drive[c].settle /\ x.run = drive[c].run
    BY <2>1 DEF DriveType
  <2> HIDE DEF x
  <2>3. MindsMadeUpAtRest
    BY <1>1, <2>1, <2>2, OneMind DEF WillComplete
  <2>4. \A s \in Runs : RecordStays(s)
    BY <1>1, <2>1 DEF Release, QueuedAs, queueVars, QueueInv, RecordStays
  <2> QED
    BY <2>1, <2>3, <2>4, CalmStep, NothingWatched
<1>8. ASSUME NEW r \in Runs, ClaimGoesStale(r) \/ DelayPasses(r) PROVE LiveRunsKept'
  <2>1. row' = row /\ srv' = srv /\ stray' = stray /\ drive' = drive /\ (GoesStale(r) \/ DelayEnds(r))
    BY <1>8 DEF ClaimGoesStale, DelayPasses, runVars, workerVars
  <2>2. ASSUME NEW s \in Runs PROVE RecordStays(s)
    BY <1>1, <2>1 DEF GoesStale, DelayEnds, QueueInv, StartRecord, RecordStays
  <2> QED
    BY <2>1, <2>2, CalmStep, NothingWatched, NobodyDecides
<1> QED
  BY <1>2, <1>3, <1>4, <1>5, <1>6, <1>7, <1>8 DEF QueueMove

(* All steps together keep every live run in the queue. *)
LEMMA LiveRunsStep ==
    ASSUME Types, LiveRunsKept, [Next]_vars
    PROVE  LiveRunsKept'
<1>1. CASE ServerMove
  <2>1. rec' = rec /\ drive' = drive
    BY <1>1, QuietMoves, ServerMoveTyped DEF queueVars, workerVars
  <2> QED
    BY <1>1, <2>1, CalmStep, RecordsStay, NobodyDecides, ServerMoveWatched
<1>2. CASE UNCHANGED vars
  <2>1. rec' = rec /\ drive' = drive /\ row' = row /\ srv' = srv /\ stray' = stray
    BY <1>2 DEF vars, queueVars, workerVars, runVars
  <2> QED
    BY <2>1, CalmStep, RecordsStay, NobodyDecides, NothingWatched
<1> QED
  BY <1>1, <1>2, EveryMove, DriveMoveKept, WorkerMoveKept, QueueMoveKept

-----------------------------------------------------------------------------
(* An ended run has all its steps. *)

Operator(o) == o.op # "enqueue"

(* One operator call is under way at a time, *)
OneAtATime == \A o, p \in srv : Operator(o) /\ Operator(p) => o = p

(* and until it resets the run, the run is one that has ended. *)
AskedOfEnded == \A o \in srv : Operator(o) /\ o.op # "unlock" => Ended(o.run)

(* Who drives a run under its lock knows what is stored. *)
DriverKnows ==
    \A c \in Tokens : Driving(c) =>
        ~ Ended(drive[c].run) /\ drive[c].steps = row[drive[c].run].steps

RunsWhole == EndedRunIsWhole /\ OneAtATime /\ AskedOfEnded /\ DriverKnows

(* No drive begins, and none is told of steps. *)
DrivesStay ==
    \A c \in Tokens : Driving(c)' =>
        Driving(c) /\ drive'[c].run = drive[c].run /\ drive'[c].steps = drive[c].steps

(* With no new operator call, what is known of them stays. *)
LEMMA CallsStayWhole ==
    ASSUME OneAtATime, AskedOfEnded, \A o \in srv' : Operator(o) => o \in srv,
           \A o \in srv : Ended(o.run) /\ o.op \notin {"enqueue", "unlock"} /\ o \in srv' => Ended(o.run)'
    PROVE  OneAtATime' /\ AskedOfEnded'
BY DEF OneAtATime, AskedOfEnded, Operator

(* A step that stores nothing, asks nothing and begins no drive. *)
LEMMA QuietStaysWhole ==
    ASSUME RunsWhole, row' = row, \A o \in srv' : Operator(o) => o \in srv, DrivesStay
    PROVE  RunsWhole'
<1>1. EndedRunIsWhole'
  BY DEF RunsWhole, EndedRunIsWhole, Ended
<1>2. OneAtATime' /\ AskedOfEnded'
  BY CallsStayWhole DEF RunsWhole, Ended
<1>3. DriverKnows'
  BY DEF RunsWhole, DriverKnows, DrivesStay, Ended
<1> QED
  BY <1>1, <1>2, <1>3 DEF RunsWhole

(* The drive under c changes, and does not drive on with other steps. *)
LEMMA OneDriveStays ==
    ASSUME DrivesTyped, lock' = lock, NEW c \in Tokens, NEW x, drive' = [drive EXCEPT ![c] = x],
           x.stage = "driving" =>
             x.stage = drive[c].stage /\ x.run = drive[c].run /\ x.steps = drive[c].steps
    PROVE  DrivesStay
<1> SUFFICES ASSUME NEW d \in Tokens, Driving(d)'
             PROVE  Driving(d) /\ drive'[d].run = drive[d].run /\ drive'[d].steps = drive[d].steps
  BY DEF DrivesStay
<1>1. CASE d = c
  <2>1. drive'[d] = x
    BY <1>1 DEF DrivesTyped
  <2> QED
    BY <1>1, <2>1 DEF Driving
<1>2. CASE d # c
  <2>1. drive'[d] = drive[d]
    BY <1>2 DEF DrivesTyped
  <2> QED
    BY <2>1 DEF Driving
<1> QED
  BY <1>1, <1>2

(* A lock that is dropped, or taken by the server, begins no drive. *)
LEMMA SameDrivesStay ==
    ASSUME drive' = drive, NEW r, lock' = lock \/ lock' = [lock EXCEPT ![r] = NoOne] \/ lock' = [lock EXCEPT ![r] = Server],
           RunsTyped, DrivesTyped
    PROVE  DrivesStay
<1> SUFFICES ASSUME NEW c \in Tokens, Driving(c)' PROVE Driving(c)
  BY DEF DrivesStay
<1>1. drive[c].run \in Runs /\ lock \in [Runs -> Tokens \cup {Server, NoOne}]
  BY DEF Driving, DrivesTyped, DriveSound, RunsTyped
<1>2. lock'[drive[c].run] = c /\ drive[c].stage = "driving"
  BY DEF Driving
<1>3. lock[drive[c].run] = c
  BY <1>1, <1>2, WorkerAssumption
<1> QED
  BY <1>2, <1>3 DEF Driving

(* A worker that launches, stops or dies begins no drive. *)
LEMMA WorkerMoveWhole ==
    ASSUME Types, RunsWhole, WorkerMove
    PROVE  RunsWhole'
<1>1. DrivesTyped /\ WorkersTyped
  BY DEF Types
<1>2. lock' = lock /\ row' = row /\ srv' = srv
  BY WorkerMoveTyped DEF runVars
<1>3. ASSUME NEW c \in Tokens
      PROVE  \/ drive'[c] = drive[c] \/ drive'[c] = NoDrive
             \/ drive'[c] = [drive[c] EXCEPT !.stage = "launched"]
             \/ drive'[c] = [drive[c] EXCEPT !.aborted = TRUE]
  BY DEF WorkerMove, Launch, ClaimFails, Stop, StopAbort, Stopped, Crash, Restart, Forget
<1>4. ASSUME NEW c \in Tokens, Driving(c)'
      PROVE  Driving(c) /\ drive'[c].run = drive[c].run /\ drive'[c].steps = drive[c].steps
  <2>1. drive[c] \in DriveType /\ drive'[c].stage = "driving" /\ lock[drive'[c].run] = c
    BY <1>1, <1>2, <1>4 DEF DrivesTyped, Driving
  <2>2. /\ drive'[c].stage = drive[c].stage /\ drive'[c].run = drive[c].run
        /\ drive'[c].steps = drive[c].steps
    BY <1>3, <2>1, NoDriveIsSound DEF DriveType
  <2> QED
    BY <2>1, <2>2 DEF Driving
<1>5. DrivesStay
  BY <1>4 DEF DrivesStay
<1> QED
  BY <1>2, <1>5, QuietStaysWhole

(* Nor do the calls on the queue. *)
LEMMA QueueMoveWhole ==
    ASSUME Types, RunsWhole, QueueMove
    PROVE  RunsWhole'
<1>1. DrivesTyped /\ RunsTyped
  BY DEF Types
<1>2. row' = row /\ lock' = lock
  BY QueueMoveTyped DEF runVars
<1>3. srv' \subseteq srv
  BY DEF QueueMove, EnqueueCall, ClaimTick, ClaimResent, Settle, SettleAnswerLost, Heartbeat,
         ReleaseNow, ClaimGoesStale, DelayPasses
<1>4. ASSUME DrivesStay PROVE RunsWhole'
  BY <1>2, <1>3, <1>4, QuietStaysWhole
<1>5. ASSUME drive' = drive PROVE RunsWhole'
  BY <1>1, <1>2, <1>4, <1>5, SameDrivesStay
<1>6. ASSUME NEW w \in Workers, NEW limit, ServeClaim(w, limit) PROVE DrivesStay
  <2>1. ASSUME NEW c \in Tokens
        PROVE  drive'[c] = drive[c] \/ drive'[c] = NoDrive \/ \E r : drive'[c] = Offer(w, r)
    BY <1>6, ServedClaim
  <2>2. \A r : Offer(w, r).stage = "offered"
    BY DEF Offer, NoDrive
  <2> QED
    BY <1>2, <2>1, <2>2, NoDriveIsSound DEF DrivesStay, Driving
<1>7. ASSUME NEW c \in Tokens, Settle(c) PROVE RunsWhole'
  BY <1>1, <1>2, <1>4, <1>7, OneDriveStays, NoDriveIsSound DEF Settle, End
<1>8. ASSUME NEW c \in Tokens, NEW x, drive' = [drive EXCEPT ![c] = x], x.stage = drive[c].stage,
             x.run = drive[c].run, x.steps = drive[c].steps
      PROVE  RunsWhole'
  BY <1>1, <1>2, <1>4, <1>8, OneDriveStays
<1>9. ASSUME NEW c \in Tokens, Heartbeat(c) PROVE RunsWhole'
  <2> DEFINE x == [drive[c] EXCEPT !.settled = TRUE, !.aborted = TRUE]
  <2>1. x.stage = drive[c].stage /\ x.run = drive[c].run /\ x.steps = drive[c].steps
    BY <1>1 DEF DrivesTyped, DriveType
  <2>2. drive' = drive \/ drive' = [drive EXCEPT ![c] = x]
    BY <1>1, <1>9 DEF Heartbeat, DrivesTyped
  <2> HIDE DEF x
  <2> QED
    BY <1>5, <1>8, <2>1, <2>2
<1>10. ASSUME NEW c \in Tokens, ReleaseNow(c) PROVE RunsWhole'
  <2> DEFINE x == [drive[c] EXCEPT !.settled = TRUE]
  <2>1. x.stage = drive[c].stage /\ x.run = drive[c].run /\ x.steps = drive[c].steps
    BY <1>1 DEF DrivesTyped, DriveType
  <2>2. drive' = [drive EXCEPT ![c] = x]
    BY <1>1, <1>10 DEF ReleaseNow, DrivesTyped
  <2> HIDE DEF x
  <2> QED
    BY <1>8, <2>1, <2>2
<1> QED
  BY <1>4, <1>5, <1>6, <1>7, <1>9, <1>10
     DEF QueueMove, EnqueueCall, ClaimTick, ClaimResent, SettleAnswerLost, ClaimGoesStale,
         DelayPasses, workerVars

(* A drive stores what it knows, so it ends a run with all its steps. *)
LEMMA DriveMoveWhole ==
    ASSUME Types, RunsWhole, DriveMove
    PROVE  RunsWhole'
<1>1. RunsTyped /\ DrivesTyped
  BY DEF Types
<1>2. srv' = srv
  BY DriveMoveTyped
<1>3. ASSUME NEW c \in Tokens, drive[c].stage # "none"
      PROVE  drive[c] \in DriveType /\ drive[c].run \in Runs /\ row[drive[c].run] \in RowType
  BY <1>1, <1>3 DEF DrivesTyped, DriveSound, RunsTyped
<1>4. ASSUME DrivesStay, row' = row PROVE RunsWhole'
  BY <1>2, <1>4, QuietStaysWhole
<1>5. ASSUME NEW c \in Tokens, NEW then, NEW settle, Returns(c, then, settle), then # "driving",
             lock' = lock \/ \E r \in Runs : lock' = [lock EXCEPT ![r] = NoOne]
      PROVE  DrivesStay
  <2> SUFFICES ASSUME NEW d \in Tokens, Driving(d)'
               PROVE  Driving(d) /\ drive'[d] = drive[d]
    BY DEF DrivesStay
  <2>1. \E x : drive' = [drive EXCEPT ![c] = x] /\ x.stage # "driving"
    <3>1. CASE drive[c].settled
      BY <1>5, <3>1, NoDriveIsSound DEF Returns, End
    <3>2. CASE ~ drive[c].settled
      <4> DEFINE x == [drive[c] EXCEPT !.stage = then, !.settle = settle]
      <4>1. drive' = [drive EXCEPT ![c] = x] /\ drive[c] \in DriveType
        BY <1>1, <1>5, <3>2 DEF Returns, DrivesTyped
      <4>2. x.stage = then
        BY <4>1 DEF DriveType
      <4> HIDE DEF x
      <4> QED
        BY <1>5, <4>1, <4>2
    <3> QED
      BY <3>1, <3>2
  <2>2. d # c /\ drive'[d] = drive[d]
    BY <1>1, <2>1 DEF Driving, DrivesTyped
  <2>3. lock'[drive[d].run] = d /\ drive[d].stage = "driving"
    BY <2>2 DEF Driving
  <2>4. lock[drive[d].run] = d
    BY <1>1, <1>3, <1>5, <2>3, WorkerAssumption DEF RunsTyped
  <2> QED
    BY <2>2, <2>3, <2>4 DEF Driving
<1>6. ASSUME NEW c \in Tokens, RunLocked(c) PROVE RunsWhole'
  BY <1>4, <1>5, <1>6 DEF RunLocked, runVars
<1>7. ASSUME NEW c \in Tokens, Unlock(c) PROVE RunsWhole'
  <2>1. drive[c].stage # "none" /\ row' = row
    BY <1>7 DEF Unlock, runVars
  <2> QED
    BY <1>3, <1>4, <1>5, <1>7, <2>1 DEF Unlock
<1>8. ASSUME NEW c \in Tokens, SettleFails(c) PROVE RunsWhole'
  BY <1>1, <1>4, <1>8, OneDriveStays, NoDriveIsSound DEF SettleFails, End, runVars
<1>9. ASSUME NEW c \in Tokens, StopsShort(c) PROVE RunsWhole'
  <2> DEFINE x == [drive[c] EXCEPT !.stage = "unlocking"]
  <2>1. drive' = [drive EXCEPT ![c] = x] /\ lock' = lock /\ row' = row /\ x.stage = "unlocking"
    BY <1>1, <1>9 DEF StopsShort, DrivesTyped, DriveType, runVars
  <2> HIDE DEF x
  <2> QED
    BY <1>1, <1>4, <2>1, OneDriveStays
<1>10. ASSUME NEW c \in Tokens, LoadRest(c) \/ LoadFails(c) PROVE RunsWhole'
  <2>1. PICK settle : drive' = [drive EXCEPT ![c].stage = "settling", ![c].settle = settle]
    BY <1>10 DEF LoadRest, LoadFails
  <2> DEFINE x == [drive[c] EXCEPT !.stage = "settling", !.settle = settle]
  <2>2. /\ drive' = [drive EXCEPT ![c] = x] /\ lock' = lock /\ row' = row
        /\ drive[c] \in DriveType
    BY <1>1, <1>10, <2>1 DEF LoadRest, LoadFails, DrivesTyped, runVars
  <2>3. x.stage = "settling"
    BY <2>2 DEF DriveType
  <2> HIDE DEF x
  <2> QED
    BY <1>1, <1>4, <2>2, <2>3, OneDriveStays
<1>11. ASSUME NEW c \in Tokens, Run(c) PROVE RunsWhole'
  <2> DEFINE r == drive[c].run
             x == [drive[c] EXCEPT !.stage = IF Ended(r) THEN "answered" ELSE "driving",
                                   !.steps = row[r].steps]
  <2>1. /\ drive[c].stage = "launched" /\ drive' = [drive EXCEPT ![c] = x] /\ row' = row
        /\ lock[r] = NoOne /\ lock' = [lock EXCEPT ![r] = c]
    BY <1>1, <1>11 DEF Run, DrivesTyped, runVars
  <2>2. x.run = r /\ x.stage = (IF Ended(r) THEN "answered" ELSE "driving") /\ x.steps = row[r].steps
    BY <1>3, <2>1 DEF DriveType
  <2>3. r \in Runs
    BY <1>3, <2>1
  <2> HIDE DEF x
  <2>4. DriverKnows'
    <3> SUFFICES ASSUME NEW d \in Tokens, Driving(d)'
                 PROVE  row'[drive'[d].run].status # "ended" /\ drive'[d].steps = row'[drive'[d].run].steps
      BY DEF DriverKnows, Ended
    <3>1. CASE d = c
      <4>1. drive'[d] = x
        BY <1>1, <2>1, <3>1 DEF DrivesTyped
      <4> QED
        BY <2>1, <2>2, <4>1 DEF Driving, Ended
    <3>2. CASE d # c
      <4>1. drive'[d] = drive[d]
        BY <1>1, <2>1, <3>2 DEF DrivesTyped
      <4>2. drive[d].stage = "driving" /\ lock'[drive[d].run] = d
        BY <4>1 DEF Driving
      <4>3. lock[drive[d].run] = d
        BY <1>1, <1>3, <2>1, <2>3, <3>2, <4>2 DEF RunsTyped
      <4> QED
        BY <2>1, <4>1, <4>2, <4>3 DEF RunsWhole, DriverKnows, Driving, Ended
    <3> QED
      BY <3>1, <3>2
  <2> QED
    BY <1>2, <2>1, <2>4 DEF RunsWhole, EndedRunIsWhole, OneAtATime, AskedOfEnded, Ended
<1>12. ASSUME NEW c \in Tokens, NEW x, NEW y \in RowType, Driving(c), lock' = lock,
              drive' = [drive EXCEPT ![c] = x], row' = [row EXCEPT ![drive[c].run] = y],
              y.status = "ended" => y.steps = AllSteps,
              x.run = drive[c].run,
              x.stage = "driving" => y.status # "ended" /\ x.steps = y.steps
       PROVE  RunsWhole'
  <2> DEFINE r == drive[c].run
  <2>1. r \in Runs /\ lock[r] = c /\ ~ Ended(r)
    BY <1>3, <1>12 DEF Driving, RunsWhole, DriverKnows
  <2>2. row'[r] = y /\ \A s \in Runs \ {r} : row'[s] = row[s]
    BY <1>1, <1>12, <2>1 DEF RunsTyped
  <2>3. EndedRunIsWhole'
    BY <1>12, <2>2 DEF RunsWhole, EndedRunIsWhole, Ended
  <2>4. OneAtATime' /\ AskedOfEnded'
    <3>1. \A o \in srv : Ended(o.run) /\ o.run \in Runs => Ended(o.run)'
      BY <2>1, <2>2 DEF Ended
    <3>2. \A o \in srv : o.run \in Runs
      BY DEF Types, CallsTyped, CallType
    <3> QED
      BY <1>2, <3>1, <3>2, CallsStayWhole DEF RunsWhole
  <2>5. DriverKnows'
    <3> SUFFICES ASSUME NEW d \in Tokens, Driving(d)'
                 PROVE  row'[drive'[d].run].status # "ended" /\ drive'[d].steps = row'[drive'[d].run].steps
      BY DEF DriverKnows, Ended
    <3>1. CASE d = c
      <4>1. drive'[d] = x
        BY <1>1, <1>12, <3>1 DEF DrivesTyped
      <4> QED
        BY <1>12, <2>2, <4>1 DEF Driving, Ended
    <3>2. CASE d # c
      <4>1. drive'[d] = drive[d]
        BY <1>1, <1>12, <3>2 DEF DrivesTyped
      <4>2. Driving(d) /\ drive[d].run # r /\ drive[d].run \in Runs
        BY <1>3, <1>12, <2>1, <3>2, <4>1 DEF Driving
      <4> QED
        BY <2>2, <4>1, <4>2 DEF RunsWhole, DriverKnows, Ended
    <3> QED
      BY <3>1, <3>2
  <2> QED
    BY <2>3, <2>4, <2>5 DEF RunsWhole
<1>13. ASSUME NEW c \in Tokens, StepDone(c) PROVE RunsWhole'
  <2> DEFINE r == drive[c].run
             n == NextStep(c)
             x == [drive[c] EXCEPT !.steps = @ \cup {n}]
             y == [row[r] EXCEPT !.steps = @ \cup {n}, !.parked = "no", !.status = MarkRunning(@)]
  <2>1. /\ Driving(c) /\ drive[c].stage = "driving" /\ drive' = [drive EXCEPT ![c] = x]
        /\ row' = [row EXCEPT ![r] = y] /\ n \in AllSteps /\ lock' = lock
    BY <1>1, <1>13, NextStepIsAStep DEF StepDone, Driving, DrivesTyped, RunsTyped
  <2> HIDE DEF n
  <2>2. ~ Ended(r) /\ drive[c].steps = row[r].steps
    BY <2>1 DEF RunsWhole, DriverKnows
  <2>3. x.run = r /\ x.steps = drive[c].steps \cup {n}
    BY <1>3, <2>1 DEF DriveType
  <2>4. /\ y \in RowType /\ y.steps = row[r].steps \cup {n}
        /\ y.status = MarkRunning(row[r].status)
    BY <1>3, <2>1 DEF RowType, MarkRunning
  <2> HIDE DEF x, y
  <2>5. y.status # "ended"
    BY <2>2, <2>4 DEF Ended, MarkRunning
  <2> QED
    BY <1>12, <2>1, <2>2, <2>3, <2>4, <2>5
<1>14. ASSUME NEW c \in Tokens, Park(c) PROVE RunsWhole'
  <2> DEFINE r == drive[c].run
             kind == Steps[NextStep(c)]
             x == [drive[c] EXCEPT !.stage = "unlocking"]
             y == [row[r] EXCEPT !.status = "suspended", !.parked = kind]
  <2>1. /\ Driving(c) /\ drive[c].stage = "driving" /\ drive' = [drive EXCEPT ![c] = x]
        /\ row' = [row EXCEPT ![r] = y] /\ kind \in {"sleep", "signal"} /\ lock' = lock
    BY <1>1, <1>14, NextStepIsAStep DEF Park, Driving, Waits, DrivesTyped, RunsTyped
  <2> HIDE DEF kind
  <2>2. x.run = r /\ x.stage = "unlocking"
    BY <1>3, <2>1 DEF DriveType
  <2>3. y \in RowType /\ y.status = "suspended"
    BY <1>3, <2>1 DEF RowType
  <2> HIDE DEF x, y
  <2> QED
    BY <1>12, <2>1, <2>2, <2>3
<1>15. ASSUME NEW c \in Tokens, Finish(c) PROVE RunsWhole'
  <2> DEFINE r == drive[c].run
             x == [drive[c] EXCEPT !.stage = "answered"]
             y == [row[r] EXCEPT !.status = "ended"]
  <2>1. /\ Driving(c) /\ drive[c].stage = "driving" /\ drive' = [drive EXCEPT ![c] = x]
        /\ row' = [row EXCEPT ![r] = y] /\ drive[c].steps = AllSteps /\ lock' = lock
    BY <1>1, <1>15 DEF Finish, Driving, DrivesTyped, RunsTyped
  <2>2. drive[c].steps = row[r].steps
    BY <2>1 DEF RunsWhole, DriverKnows
  <2>3. x.run = r /\ x.stage = "answered"
    BY <1>3, <2>1 DEF DriveType
  <2>4. y \in RowType /\ y.steps = row[r].steps
    BY <1>3, <2>1 DEF RowType
  <2> HIDE DEF x, y
  <2> QED
    BY <1>12, <2>1, <2>2, <2>3, <2>4
<1> QED
  BY <1>6, <1>7, <1>8, <1>9, <1>10, <1>11, <1>13, <1>14, <1>15 DEF DriveMove

(* The server's side: only an ended run, which nobody drives, is reset. *)
LEMMA ServerMoveWhole ==
    ASSUME Types, RunsWhole, Operators <= 1, ServerMove
    PROVE  RunsWhole'
<1>1. RunsTyped /\ DrivesTyped /\ CallsTyped
  BY DEF Types
<1>2. drive' = drive
  BY ServerMoveTyped DEF workerVars
<1>3. ASSUME NEW o \in srv PROVE o.run \in Runs /\ row[o.run] \in RowType
  BY <1>1, <1>3 DEF CallsTyped, CallType, RunsTyped
<1>4. ASSUME NEW r, lock' = lock \/ lock' = [lock EXCEPT ![r] = NoOne] \/ lock' = [lock EXCEPT ![r] = Server]
      PROVE  DrivesStay
  BY <1>1, <1>2, <1>4, SameDrivesStay
<1>5. ASSUME NEW r \in Runs, NEW keep \in BOOLEAN
      PROVE  ~ Operator(ToEnqueue(r, keep)) /\ ToEnqueue(r, keep).run = r
  BY DEF Operator, ToEnqueue
<1>6. ASSUME NEW r \in Runs, Trigger(r) PROVE RunsWhole'
  <2>1. DrivesStay
    BY <1>4, <1>6 DEF Trigger
  <2>a. srv' = srv \cup {ToEnqueue(r, FALSE)}
    BY <1>6 DEF Trigger
  <2>b. \A o \in srv' : Operator(o) => o \in srv
    BY <1>5, <2>a
  <2>c. \A s \in Runs : row'[s].steps = row[s].steps /\ (row'[s].status = "ended" <=> row[s].status = "ended")
    <3>1. CASE row' = row
      BY <3>1
    <3>2. CASE row[r].status = "none" /\ row' = [row EXCEPT ![r].status = "pending", ![r].run = 1]
      <4> DEFINE y == [row[r] EXCEPT !.status = "pending", !.run = 1]
      <4>1. row' = [row EXCEPT ![r] = y] /\ row[r] \in RowType
        BY <1>1, <3>2 DEF RunsTyped
      <4>2. y.steps = row[r].steps /\ y.status = "pending"
        BY <4>1 DEF RowType
      <4> HIDE DEF y
      <4>3. \A s \in Runs : row'[s] = IF s = r THEN y ELSE row[s]
        BY <1>1, <4>1 DEF RunsTyped
      <4> QED
        BY <3>2, <4>2, <4>3
    <3> QED
      BY <1>6, <3>1, <3>2 DEF Trigger
  <2>2. /\ \A o \in srv' : Operator(o) => o \in srv
        /\ \A s \in Runs : row'[s].steps = row[s].steps /\ (Ended(s) <=> Ended(s)')
    BY <2>b, <2>c DEF Ended
  <2>3. OneAtATime' /\ AskedOfEnded'
    BY <1>3, <2>2, CallsStayWhole DEF RunsWhole
  <2>4. DriverKnows'
    <3> SUFFICES ASSUME NEW c \in Tokens, Driving(c)'
                 PROVE  row'[drive'[c].run].status # "ended" /\ drive'[c].steps = row'[drive'[c].run].steps
      BY DEF DriverKnows, Ended
    <3>1. Driving(c) /\ drive[c].run \in Runs
      BY <1>1, <2>1 DEF DrivesStay, Driving, DrivesTyped, DriveSound
    <3> QED
      BY <1>2, <2>2, <3>1 DEF RunsWhole, DriverKnows, Ended
  <2> QED
    BY <2>2, <2>3, <2>4 DEF RunsWhole, EndedRunIsWhole
<1>7. ASSUME NEW r \in Runs, Scan(r) \/ Sweep(r) PROVE RunsWhole'
  <2>1. SleepIsDue(r) \in BOOLEAN
    BY DEF SleepIsDue
  <2>2. DrivesStay /\ row' = row
    BY <1>4, <1>7 DEF Scan, Sweep, runVars
  <2>3. PICK keep \in BOOLEAN : srv' = srv \cup {ToEnqueue(r, keep)}
    <3>1. CASE Scan(r)
      BY <2>1, <3>1 DEF Scan
    <3>2. CASE Sweep(r)
      BY <3>2 DEF Sweep
    <3> QED
      BY <1>7, <3>1, <3>2
  <2>4. \A o \in srv' : Operator(o) => o \in srv
    BY <1>5, <2>3
  <2> QED
    BY <2>2, <2>4, QuietStaysWhole
<1>8. ASSUME NEW r \in Runs, SendSignal(r) \/ LockRunsOut(r) \/ \E clock \in {"server", "worker"} : SleepEnds(r, clock)
      PROVE  RunsWhole'
  <2>1. DrivesStay /\ row' = row /\ srv' = srv
    BY <1>4, <1>8 DEF SendSignal, LockRunsOut, SleepEnds, runVars
  <2> QED
    BY <2>1, QuietStaysWhole
<1>9. ASSUME NEW r \in Runs, NEW op \in {"rerun", "resume"}, OperatorAsks(op, r) PROVE RunsWhole'
  <2> DEFINE p == OperatorCall(op, r, 0)
             S == {o \in srv : o.op # "enqueue"}
  <2>1. DrivesStay /\ row' = row /\ srv' = srv \cup {p} /\ Ended(r) /\ Cardinality(S) < Operators
    BY <1>4, <1>9 DEF OperatorAsks, runVars
  <2>2. S = {}
    <3>1. IsFiniteSet(S)
      BY <1>1, FS_Subset DEF CallsTyped
    <3>2. Cardinality(S) \in Nat
      BY <3>1, FS_CardinalityType
    <3>3. Cardinality(S) = 0
      <4> HIDE DEF S
      <4> QED
        BY <2>1, <3>2, WorkerAssumption
    <3> QED
      BY <3>1, <3>3, FS_EmptySet
  <2>3. p.run = r
    BY DEF OperatorCall
  <2> HIDE DEF p
  <2>4. OneAtATime' /\ AskedOfEnded'
    BY <2>1, <2>2, <2>3 DEF RunsWhole, OneAtATime, AskedOfEnded, Operator, Ended
  <2>5. EndedRunIsWhole' /\ DriverKnows'
    BY <2>1 DEF RunsWhole, EndedRunIsWhole, DriverKnows, DrivesStay, Ended
  <2> QED
    BY <2>4, <2>5 DEF RunsWhole
<1>10. ASSUME NEW o \in srv, Operator(o), NEW p, p.run = o.run, srv' = (srv \ {o}) \cup {p},
              Ended(o.run) => Ended(o.run)' \/ p.op \in {"enqueue", "unlock"},
              \A s \in Runs \ {o.run} : Ended(s) => Ended(s)',
              p.op \notin {"enqueue", "unlock"} => o.op # "unlock"
       PROVE  OneAtATime' /\ AskedOfEnded'
  <2>1. \A q \in srv : Operator(q) => q = o
    BY <1>10 DEF RunsWhole, OneAtATime
  <2>2. \A q \in srv' : Operator(q) => q = p
    BY <1>10, <2>1
  <2>3. p.op \notin {"enqueue", "unlock"} => Ended(p.run)'
    BY <1>10 DEF RunsWhole, AskedOfEnded, Operator
  <2> QED
    BY <2>2, <2>3 DEF OneAtATime, AskedOfEnded, Operator
<1>11. ASSUME NEW o \in srv, RerunLoad(o) PROVE RunsWhole'
  <2> DEFINE p == OperatorCall("fresh", o.run, row[o.run].run)
  <2>1. /\ DrivesStay /\ row' = row /\ srv' = (srv \ {o}) \cup {p} /\ o.op = "rerun"
        /\ p.run = o.run
    BY <1>4, <1>11 DEF RerunLoad, Becomes, OperatorCall, runVars
  <2> HIDE DEF p
  <2>2. OneAtATime' /\ AskedOfEnded'
    BY <1>10, <2>1 DEF Operator, Ended
  <2>3. EndedRunIsWhole' /\ DriverKnows'
    BY <2>1 DEF RunsWhole, EndedRunIsWhole, DriverKnows, DrivesStay, Ended
  <2> QED
    BY <2>2, <2>3 DEF RunsWhole
<1>12. ASSUME NEW o \in srv, Operator(o), o.op # "unlock", NEW y, DrivesStay,
              row' = [row EXCEPT ![o.run] = y], y.status # "ended", NEW p, p.run = o.run,
              srv' = (srv \ {o}) \cup {p}, p.op \in {"enqueue", "unlock"}
       PROVE  RunsWhole'
  <2>1. Ended(o.run)
    BY <1>12 DEF RunsWhole, AskedOfEnded
  <2>2. row'[o.run] = y /\ \A s \in Runs \ {o.run} : row'[s] = row[s]
    BY <1>1, <1>3, <1>12 DEF RunsTyped
  <2>3. OneAtATime' /\ AskedOfEnded'
    BY <1>10, <1>12, <2>2 DEF Ended
  <2>4. EndedRunIsWhole'
    BY <1>12, <2>2 DEF RunsWhole, EndedRunIsWhole, Ended
  <2>5. DriverKnows'
    <3> SUFFICES ASSUME NEW c \in Tokens, Driving(c)'
                 PROVE  row'[drive'[c].run].status # "ended" /\ drive'[c].steps = row'[drive'[c].run].steps
      BY DEF DriverKnows, Ended
    <3>1. Driving(c) /\ drive[c].run \in Runs
      BY <1>1, <1>12 DEF DrivesStay, Driving, DrivesTyped, DriveSound
    <3>2. drive[c].run # o.run
      BY <2>1, <3>1 DEF RunsWhole, DriverKnows
    <3> QED
      BY <1>2, <2>2, <3>1, <3>2 DEF RunsWhole, DriverKnows, Ended
  <2> QED
    BY <2>3, <2>4, <2>5 DEF RunsWhole
<1>13. ASSUME NEW o \in srv, StartFreshRun(o) PROVE RunsWhole'
  <2> DEFINE p == ToEnqueue(o.run, FALSE)
             y == FreshRow(o.run)
  <2>1. /\ DrivesStay /\ srv' = (srv \ {o}) \cup {p} /\ o.op = "fresh"
        /\ p.run = o.run /\ p.op = "enqueue" /\ y.status = "pending"
        /\ row' = row \/ row' = [row EXCEPT ![o.run] = y]
    BY <1>4, <1>13 DEF StartFreshRun, Becomes, ToEnqueue, FreshRow, runVars
  <2> HIDE DEF p, y
  <2>2. CASE row' = row
    BY <2>1, <2>2, QuietStaysWhole DEF Operator
  <2>3. CASE row' = [row EXCEPT ![o.run] = y]
    BY <1>12, <2>1, <2>3 DEF Operator
  <2> QED
    BY <2>1, <2>2, <2>3
<1>14. ASSUME NEW o \in srv, NEW n, ResetSteps(o, n) PROVE RunsWhole'
  <2> DEFINE p == OperatorCall("unlock", o.run, 0)
             y == [row[o.run] EXCEPT !.steps = {s \in @ : s < n}, !.parked = "no",
                                     !.status = IF @ = "ended" THEN "running" ELSE @]
  <2>1. /\ DrivesStay /\ srv' = (srv \ {o}) \cup {p} /\ o.op = "reset"
        /\ p.run = o.run /\ p.op = "unlock" /\ row' = [row EXCEPT ![o.run] = y]
    BY <1>1, <1>4, <1>14 DEF ResetSteps, Becomes, OperatorCall, RunsTyped
  <2>2. y.status # "ended"
    BY <1>3 DEF RowType
  <2> HIDE DEF p, y
  <2> QED
    BY <1>12, <2>1, <2>2 DEF Operator
<1>15. ASSUME NEW o \in srv, ResumeLock(o) PROVE RunsWhole'
  <2> DEFINE p == OperatorCall("reset", o.run, 0)
  <2>1. /\ DrivesStay /\ row' = row /\ o.op = "resume" /\ p.run = o.run
        /\ srv' = srv \ {o} \/ srv' = (srv \ {o}) \cup {p}
    BY <1>4, <1>15 DEF ResumeLock, Becomes, OperatorCall, runVars
  <2> HIDE DEF p
  <2>2. CASE srv' = srv \ {o}
    BY <2>1, <2>2, QuietStaysWhole
  <2>3. CASE srv' = (srv \ {o}) \cup {p}
    <3>1. OneAtATime' /\ AskedOfEnded'
      BY <1>10, <2>1, <2>3 DEF Operator, Ended
    <3>2. EndedRunIsWhole' /\ DriverKnows'
      BY <2>1 DEF RunsWhole, EndedRunIsWhole, DriverKnows, DrivesStay, Ended
    <3> QED
      BY <3>1, <3>2 DEF RunsWhole
  <2> QED
    BY <2>1, <2>2, <2>3
<1>16. ASSUME NEW o \in srv, ResumeUnlock(o) PROVE RunsWhole'
  <2>1. DrivesStay /\ row' = row
    BY <1>4, <1>16 DEF ResumeUnlock, runVars
  <2>2. \A q \in srv' : Operator(q) => q \in srv
    BY <1>3, <1>5, <1>16 DEF ResumeUnlock, Becomes
  <2> QED
    BY <2>1, <2>2, QuietStaysWhole
<1>17. ASSUME NEW o \in srv, ServerCallDies(o) PROVE RunsWhole'
  <2>1. DrivesStay /\ row' = row /\ srv' = srv \ {o}
    BY <1>4, <1>17 DEF ServerCallDies, runVars
  <2> QED
    BY <2>1, QuietStaysWhole
<1> QED
  BY <1>6, <1>7, <1>8, <1>9, <1>11, <1>13, <1>14, <1>15, <1>16, <1>17 DEF ServerMove

-----------------------------------------------------------------------------
(* Under one operator call at a time, the last part of the invariant. *)
RunsInv == Types /\ LiveRunsKept /\ (Operators <= 1 => RunsWhole)

(* The invariant holds at first, *)
LEMMA RunsInitially == Init => RunsInv
<1> SUFFICES ASSUME Init PROVE RunsInv
  OBVIOUS
<1>1. LiveRunsKept
  BY DEF Init, LiveRunsKept, Live
<1>2. RunsWhole
  BY DEF Init, RunsWhole, EndedRunIsWhole, OneAtATime, AskedOfEnded, DriverKnows, Driving, NoDrive, Ended
<1> QED
  BY <1>1, <1>2, TypesInitially DEF RunsInv

(* every step keeps it, *)
LEMMA RunsStep == RunsInv /\ [Next]_vars => RunsInv'
<1> SUFFICES ASSUME RunsInv, [Next]_vars PROVE RunsInv'
  OBVIOUS
<1>1. Types /\ LiveRunsKept
  BY DEF RunsInv
<1>2. Types' /\ LiveRunsKept'
  BY <1>1, TypesStep, LiveRunsStep
<1>3. ASSUME Operators <= 1 PROVE RunsWhole'
  <2>1. RunsWhole
    BY <1>3 DEF RunsInv
  <2>2. CASE UNCHANGED vars
    <3>1. row' = row /\ srv' = srv /\ drive' = drive /\ lock' = lock
      BY <2>2 DEF vars, runVars, workerVars
    <3>2. DrivesStay
      BY <3>1 DEF DrivesStay, Driving
    <3> QED
      BY <2>1, <3>1, <3>2, QuietStaysWhole
  <2> QED
    BY <1>1, <1>3, <2>1, <2>2, EveryMove, ServerMoveWhole, DriveMoveWhole, WorkerMoveWhole, QueueMoveWhole
<1> QED
  BY <1>2, <1>3 DEF RunsInv

(* so it always holds of queued-workflows.ts and worker.ts. *)
THEOREM RunsInvariant == Spec => []RunsInv
BY RunsInitially, RunsStep, PTL DEF Spec

(* queued-workflows.ts, worker.ts: whatever the server's routes, sweeps and *)
(* scanners and any number of workers do, the start queue sees only calls   *)
(* it specifies.                                                           *)
THEOREM RunsUseTheQueue == Spec => QueueSpec
<1>1. Init => QueueInit
  BY DEF Init
<1>2. RunsInv /\ [Next]_vars => [QueueNext]_queueVars
  BY OneCall DEF RunsInv
<1> QED
  BY <1>1, <1>2, RunsInvariant, PTL DEF Spec, QueueSpec

(* workflow-start-queue.ts under its real clients: no enqueue of a signal,  *)
(* a resume or a rerun is lost in a claim that it meets, and none waits out *)
(* a delay.                                                                *)
THEOREM RunsLoseNoWakeup == Spec => [](WakeupNotLost /\ UrgentIsNotDelayed)
<1>1. RunsInv => WakeupNotLost /\ UrgentIsNotDelayed
  BY InvIsTheProperties DEF RunsInv, Types
<1> QED
  BY <1>1, RunsInvariant, PTL

(* queued-workflows.ts, worker.ts: unless a server call dies half-way, a    *)
(* live run has its start in the queue or an enqueue under way, though      *)
(* claims go stale, answers get lost, and operators rerun and resume at     *)
(* once.                                                                   *)
THEOREM LiveRunsAreQueued == Spec => []LiveRunIsQueued
<1>1. RunsInv => TypeOK
  <2> SUFFICES ASSUME RunsInv PROVE TypeOK
    OBVIOUS
  <2>1. QueueTypeOK /\ RunsTyped /\ DrivesTyped /\ WorkersTyped /\ CallsTyped
    BY InvIsTheProperties DEF RunsInv, Types
  <2>2. \A c \in Tokens : drive[c].stage # "none" => drive[c].worker \in Workers /\ drive[c].run \in Runs
    BY <2>1 DEF DrivesTyped, DriveSound
  <2>3. \A o \in srv : o.run \in Runs
    BY <2>1 DEF CallsTyped, CallType
  <2> QED
    BY <2>1, <2>2, <2>3 DEF RunsTyped, WorkersTyped, CallsTyped, RowType, TypeOK
<1>2. RunsInv => LiveRunIsQueued
  BY <1>1 DEF RunsInv, LiveRunsKept, Live, Watched, Kept, LiveRunIsQueued
<1> QED
  BY <1>2, RunsInvariant, PTL

(* run-extras.ts, worker.ts: with operator calls one at a time, a run that  *)
(* has ended has every step stored, whatever claims, locks and answers were *)
(* lost on the way.  (Two calls at once break it: MCRerunRaces.cfg.)        *)
THEOREM EndedRunsAreWhole == ASSUME Operators <= 1 PROVE Spec => []EndedRunIsWhole
<1>1. RunsInv => EndedRunIsWhole
  BY DEF RunsInv, RunsWhole
<1> QED
  BY <1>1, RunsInvariant, PTL
===============================================================================
