-------------------------- MODULE WorkflowRunProofs --------------------------
(***************************************************************************)
(* Theorems about WorkflowRun, for any DAG, any drivers, any retries and   *)
(* any number of crashes, stalls, lost writes, forced calls and cancels.   *)
(*                                                                         *)
(* Only the driver whose token is good writes to a stored run, cancels and *)
(* the creation of the row apart.  So the invariant has two halves: what   *)
(* the row says by itself, and what the holder knows of it at each of its  *)
(* awaits.  Nothing at all is said of a driver that has lost its lock: its *)
(* next write is refused.                                                  *)
(***************************************************************************)
EXTENDS WorkflowRun, TLAPS

Parked == {"sleeping", "waiting"}
Active == {"pending", "running", "suspended"}
Lefts == [calls : Nat, force : Nat, faults : Nat, cancels : Nat]

(* The run failed by itself, and not by a cancel. *)
FailedByStep(r) == r.status = "failed" /\ r.tag = "step"

(* What a stored run says by itself. *)
RowSound(r) ==
    /\ \A s \in Steps : r.step[s] \in Parked => r.status \notin {"none", "pending", "running"}
    /\ r.ledger # {} => r.status = "compensating" \/ FailedByStep(r)
    /\ FailedByStep(r) => Completed(r) \cap Compensable \subseteq r.ledger
    /\ \A s \in r.ledger : Above(s) \cap Completed(r) \cap Compensable \subseteq r.ledger

(* A token is one driver's, and was handed out. *)
TokensKept ==
    /\ lock.token <= issued
    /\ lock.live => lock.token > 0
    /\ \A d \in Drivers : drv[d].token <= issued /\ (At(d, "idle") => drv[d].token = 0)
    /\ \A d, e \in Drivers : d # e /\ drv[d].token > 0 => drv[d].token # drv[e].token

(* Whoever is past the creation of the row has seen it. *)
Begun(r, x) ==
    /\ x.pc \notin {"bodies", "release"} => x.body = Off
    /\ x.pc \notin {"idle", "create"} => r.status # "none"

(* The run is not ended, but for a cancel that came in between. *)
Open(r) == r.status \in Active \/ IsCancelled(r)
Rests(r) == r.status = "suspended" \/ IsCancelled(r)
Cancelled(r) == [r EXCEPT !.status = "failed", !.tag = "cancelled"]
SavedOf(x) == {s \in Steps : x.body[s] \in {"saved", "savedFired"}}

(* What the holder's local state x knows of the stored run r. *)
KnowsAtGate(r, x) == r = x.view \/ (x.view.status \in Active /\ r = Cancelled(x.view))

KnowsInWalk(r, x) ==
    /\ Open(r)
    /\ r.run = x.view.run
    /\ Completed(r) = x.done \cup SavedOf(x)
    /\ x.pc \in {"wave", "bodies"} =>
         /\ \A s \in Steps : x.view.step[s] \in Parked => Rests(r)
         /\ \A s \in Steps : x.body[s] = "suspended" => Rests(r)
         /\ \A s \in Steps : x.body[s] # "off" => s \notin x.done
    /\ x.pc = "bodies" /\ x.seen => IsCancelled(r) \/ \E s \in Steps : x.body[s] = "suspended"
    /\ x.pc = "wave" /\ ~x.first /\ x.seen => IsCancelled(r)

KnowsInRollback(r, x) ==
    /\ r.status = "compensating"
    /\ x.pc \in {"undo", "record"} => x.pend = (Completed(r) \cap Compensable) \ r.ledger

KnowsTheEnd(r, x) ==
    \/ x.ans \in {"completed", "tripwire"} /\ (r.status = x.ans \/ IsCancelled(r))
    \/ x.ans = "failed" /\ IsCancelled(r)

Answers(r, a) ==
    /\ a \in {"completed", "tripwire"} => r.status = a
    /\ a = "cancelled" => IsCancelled(r)
    /\ a = "failed" => r.status = "failed" /\ ~IsCancelled(r)
    /\ a = "suspended" => Rests(r)

Knows(r, x) ==
    /\ x.pc = "gate" => KnowsAtGate(r, x)
    /\ x.pc \in {"reload", "retryload", "continue", "compensate"} => Open(r)
    /\ x.pc \in Walking => KnowsInWalk(r, x)
    /\ x.pc \in {"rollback", "undo", "record"} => KnowsInRollback(r, x)
    /\ x.pc = "confirm" => KnowsTheEnd(r, x)
    /\ x.pc = "release" => Answers(r, x.ans)

RunInv ==
    /\ TypeOK
    /\ TokensKept
    /\ RowSound(row)
    /\ \A d \in Drivers : Begun(row, drv[d])
    /\ \A d \in Drivers : Own(d) => Knows(row, drv[d])

-----------------------------------------------------------------------------
(* Steps of one driver *)

(* The token is one driver's: nobody else's write is accepted. *)
LEMMA OneOwner ==
    ASSUME TypeOK, TokensKept, NEW d \in Drivers, NEW e \in Drivers, Own(d), Own(e)
    PROVE  d = e
  BY DEF TypeOK, TokensKept, Own, Accepts, LockValue, Driver

(* A step of driver d that leaves the lock alone: it is enough to look at   *)
(* the row and at d's own state, for the row only changes under d's token  *)
(* or while there is none.                                                 *)
LEMMA DriverStep ==
    ASSUME RunInv, NEW d \in Drivers,
           drv' \in [Drivers -> Driver], \A e \in Drivers \ {d} : drv'[e] = drv[e],
           drv'[d].token = drv[d].token, drv[d].pc # "idle", drv'[d].pc # "idle",
           UNCHANGED lockVars,
           row' \in Row, delivered' \subseteq Steps, due' \subseteq Steps, left' \in Lefts,
           row' = row \/ Own(d) \/ row.status = "none",
           row'.status = "none" => row.status = "none",
           RowSound(row'), Begun(row', drv'[d]),
           Own(d) => Knows(row', drv'[d])
    PROVE  RunInv'
<1>1. TypeOK'
  BY DEF RunInv, TypeOK, lockVars, Lefts
<1>2. TokensKept'
  <2>1. \A e \in Drivers : drv'[e].token = drv[e].token /\ (drv'[e].pc = "idle" => drv[e].pc = "idle")
    OBVIOUS
  <2> QED
    BY <2>1 DEF RunInv, TokensKept, lockVars, At
<1>3. \A e \in Drivers : Begun(row', drv'[e])
  BY DEF RunInv, Begun
<1>4. ASSUME NEW e \in Drivers, Own(e)' PROVE Knows(row', drv'[e])
  <2>1. Own(e)
    <3>1. drv'[e].token = drv[e].token
      OBVIOUS
    <3> QED
      BY <1>4, <3>1 DEF Own, Accepts, lockVars
  <2>2. CASE e = d
    BY <2>1, <2>2
  <2>3. CASE e # d
    <3>1. ~Own(d)
      BY <2>1, <2>3, OneOwner DEF RunInv
    <3>2. drv'[e] = drv[e] /\ Knows(row, drv[e])
      BY <2>1, <2>3 DEF RunInv
    <3>3. CASE row' = row
      BY <3>2, <3>3
    <3>4. CASE row.status = "none"
      <4>1. drv[e].pc \in {"idle", "create"}
        BY <3>4 DEF RunInv, Begun
      <4> QED
        BY <3>2, <4>1 DEF Knows, Walking
    <3> QED
      BY <3>1, <3>3, <3>4
  <2> QED
    BY <2>2, <2>3
<1> QED
  BY <1>1, <1>2, <1>3, <1>4 DEF RunInv

(* The same, of a step that leaves the stored run alone too. *)
LEMMA LocalStep ==
    ASSUME RunInv, NEW d \in Drivers,
           drv' \in [Drivers -> Driver], \A e \in Drivers \ {d} : drv'[e] = drv[e],
           drv'[d].token = drv[d].token, drv[d].pc # "idle", drv'[d].pc # "idle",
           UNCHANGED <<lockVars, storeVars>>, left' \in Lefts,
           Begun(row, drv'[d]),
           Own(d) => Knows(row, drv'[d])
    PROVE  RunInv'
<1>1. row' = row /\ delivered' = delivered /\ due' = due
  BY DEF storeVars
<1>2. row' \in Row /\ delivered' \subseteq Steps /\ due' \subseteq Steps /\ RowSound(row')
  BY <1>1 DEF RunInv, TypeOK
<1>3. UNCHANGED lockVars
  OBVIOUS
<1>4. Begun(row', drv'[d]) /\ (Own(d) => Knows(row', drv'[d]))
  BY <1>1
<1> QED
  BY <1>1, <1>2, <1>3, <1>4, DriverStep

(* What Goto and Finish leave. *)
LEMMA GotoLeaves ==
    ASSUME TypeOK, NEW d \in Drivers, NEW pc \in PC, Goto(d, pc)
    PROVE  /\ drv' \in [Drivers -> Driver]
           /\ \A e \in Drivers \ {d} : drv'[e] = drv[e]
           /\ drv'[d] = [drv[d] EXCEPT !.pc = pc]
<1> DEFINE x == [drv[d] EXCEPT !.pc = pc]
<1>1. drv \in [Drivers -> Driver] /\ drv[d] \in Driver
  BY DEF TypeOK
<1>2. x \in Driver
  BY <1>1 DEF Driver
<1>3. drv' = [drv EXCEPT ![d] = x]
  BY <1>1 DEF Goto
<1> HIDE DEF x
<1>4. drv' \in [Drivers -> Driver] /\ drv'[d] = x /\ \A e \in Drivers \ {d} : drv'[e] = drv[e]
  BY <1>1, <1>2, <1>3
<1> QED
  BY <1>4 DEF x

(* The same of Finish. *)
LEMMA FinishLeaves ==
    ASSUME TypeOK, NEW d \in Drivers, NEW a \in Answer, Finish(d, a)
    PROVE  /\ drv' \in [Drivers -> Driver]
           /\ \A e \in Drivers \ {d} : drv'[e] = drv[e]
           /\ drv'[d] = [drv[d] EXCEPT !.pc = "release", !.ans = a]
<1> DEFINE x == [drv[d] EXCEPT !.pc = "release", !.ans = a]
<1>1. drv \in [Drivers -> Driver] /\ drv[d] \in Driver
  BY DEF TypeOK
<1>2. x \in Driver
  BY <1>1 DEF Driver, PC
<1>3. drv' = [drv EXCEPT ![d] = x]
  BY <1>1 DEF Finish
<1> HIDE DEF x
<1>4. drv' \in [Drivers -> Driver] /\ drv'[d] = x /\ \A e \in Drivers \ {d} : drv'[e] = drv[e]
  BY <1>1, <1>2, <1>3
<1> QED
  BY <1>4 DEF x

(* Two local states that differ in nothing the invariant speaks of. *)
SameWork(x, y) ==
    /\ x.body = y.body /\ x.view = y.view /\ x.done = y.done /\ x.first = y.first
    /\ x.seen = y.seen /\ x.pend = y.pend /\ x.ans = y.ans

(* A driver that goes to its next await, having changed nothing else. *)
LEMMA GotoStep ==
    ASSUME RunInv, NEW d \in Drivers, NEW pc \in PC \ {"idle", "bodies", "release"}, Goto(d, pc),
           drv[d].pc \notin {"idle", "create", "bodies", "release"},
           UNCHANGED <<lockVars, storeVars, left>>,
           \A x \in Driver : x.pc = pc /\ SameWork(x, drv[d]) /\ Own(d) => Knows(row, x)
    PROVE  RunInv'
<1> DEFINE x == drv'[d]
<1>1. TypeOK /\ drv[d] \in Driver /\ left \in Lefts
  BY DEF RunInv, TypeOK, Lefts
<1>2. /\ drv' \in [Drivers -> Driver]
      /\ \A e \in Drivers \ {d} : drv'[e] = drv[e]
      /\ x = [drv[d] EXCEPT !.pc = pc]
  BY <1>1, GotoLeaves
<1>3. x.pc = pc /\ x.token = drv[d].token /\ SameWork(x, drv[d])
  BY <1>1, <1>2 DEF Driver, SameWork
<1>4. Own(d) => Knows(row, x)
  BY <1>2, <1>3
<1>5. Begun(row, x)
  BY <1>3 DEF RunInv, Begun, SameWork
<1>6. left' \in Lefts
  BY <1>1
<1> QED
  BY <1>2, <1>3, <1>4, <1>5, <1>6, LocalStep

(* A driver that is done with the run, and what it answers. *)
LEMMA FinishStep ==
    ASSUME RunInv, NEW d \in Drivers, NEW a \in Answer, Finish(d, a),
           drv[d].pc \notin {"idle", "create"},
           UNCHANGED <<lockVars, storeVars, left>>,
           Own(d) => Answers(row, a)
    PROVE  RunInv'
<1> DEFINE x == drv'[d]
<1>1. TypeOK /\ drv[d] \in Driver /\ left \in Lefts
  BY DEF RunInv, TypeOK, Lefts
<1>2. /\ drv' \in [Drivers -> Driver]
      /\ \A e \in Drivers \ {d} : drv'[e] = drv[e]
      /\ x = [drv[d] EXCEPT !.pc = "release", !.ans = a]
  BY <1>1, FinishLeaves
<1>3. x.pc = "release" /\ x.ans = a /\ x.token = drv[d].token
  BY <1>1, <1>2 DEF Driver
<1>4. Own(d) => Knows(row, x)
  BY <1>3 DEF Knows, Walking
<1>5. Begun(row, x)
  BY <1>3 DEF RunInv, Begun
<1>6. left' \in Lefts
  BY <1>1
<1> QED
  BY <1>2, <1>3, <1>4, <1>5, <1>6, LocalStep

(* A driver whose local state becomes x. *)
LEMMA MoveStep ==
    ASSUME RunInv, NEW d \in Drivers, NEW x \in Driver, drv' = [drv EXCEPT ![d] = x],
           x.token = drv[d].token, drv[d].pc # "idle", x.pc # "idle",
           UNCHANGED <<lockVars, storeVars>>, left' \in Lefts,
           Begun(row, x),
           Own(d) => Knows(row, x)
    PROVE  RunInv'
<1>1. /\ drv' \in [Drivers -> Driver]
      /\ \A e \in Drivers \ {d} : drv'[e] = drv[e]
      /\ drv'[d] = x
  BY DEF RunInv, TypeOK
<1> QED
  BY <1>1, LocalStep

-----------------------------------------------------------------------------
(* Taking, leaving and losing the run *)

(* What a driver starts from, and leaves behind. *)
LEMMA IdleFacts ==
    /\ Empty("none", 0) \in Row /\ Idle \in Driver
    /\ Idle.pc = "idle" /\ Idle.token = 0 /\ Idle.body = Off
<1>1. Empty("none", 0) \in Row
  BY DEF Empty, Row, Status, Tag, StepStatus
<1> QED
  BY <1>1 DEF Idle, Driver, PC, Answer, BodyState, Off

(* The invariant holds before anybody has called. *)
LEMMA RunInit == Init => RunInv
<1> SUFFICES ASSUME Init PROVE RunInv
  OBVIOUS
<1>2. TypeOK
  BY IdleFacts, BoundAssumption DEF Init, TypeOK, LockValue, NoLock
<1>3. \A d \in Drivers : drv[d] = Idle
  BY DEF Init
<1>4. TokensKept
  BY <1>3 DEF Init, TokensKept, NoLock, Idle, At
<1>5. RowSound(row)
  BY DEF Init, RowSound, Empty, Parked, FailedByStep
<1>6. \A d \in Drivers : Begun(row, drv[d]) /\ ~Own(d)
  BY <1>3 DEF Begun, Idle, Own, Accepts, Init, NoLock
<1> QED
  BY <1>2, <1>4, <1>5, <1>6 DEF RunInv

(* The lock is taken with the row as it is. *)
LEMMA TakeKeeps ==
    ASSUME RunInv, NEW d \in Drivers, NEW force \in BOOLEAN, TryLockAndLoad(d, force), left' \in Lefts
    PROVE  RunInv'
<1> DEFINE pc == IF row.status = "none" THEN "create" ELSE "gate"
           x == [Idle EXCEPT !.pc = pc, !.token = issued + 1, !.force = force, !.view = row]
<1>1. TypeOK /\ TokensKept
  BY DEF RunInv
<1>2. drv \in [Drivers -> Driver] /\ issued \in Nat /\ row \in Row
  BY <1>1 DEF TypeOK
<1>0. pc \in PC /\ pc \in {"create", "gate"} /\ (pc = "gate" => row.status # "none")
  BY DEF PC
<1> HIDE DEF pc
<1>3. x \in Driver /\ x.pc = pc /\ x.token = issued + 1 /\ x.view = row /\ x.body = Off
  <2>1. issued + 1 \in Nat
    BY <1>2
  <2> QED
    BY <1>2, <1>0, <2>1, IdleFacts DEF Driver
<1>4. drv' = [drv EXCEPT ![d] = x] /\ issued' = issued + 1 /\ lock' = Granted(issued + 1)
  BY DEF TryLockAndLoad, pc
<1>5. row' = row /\ delivered' = delivered /\ due' = due
  BY DEF TryLockAndLoad, storeVars
<1> HIDE DEF x
<1>6. drv' \in [Drivers -> Driver] /\ drv'[d] = x /\ \A e \in Drivers \ {d} : drv'[e] = drv[e]
  BY <1>2, <1>3, <1>4
<1>7. TypeOK'
  BY <1>1, <1>2, <1>4, <1>5, <1>6 DEF TypeOK, Granted, LockValue, Lefts
<1>8. TokensKept'
  <2>1. lock'.token <= issued' /\ lock'.token > 0
    BY <1>2, <1>4 DEF Granted
  <2>2. ASSUME NEW e \in Drivers PROVE drv'[e].token \in Nat /\ drv'[e].token <= issued'
    BY <1>1, <1>2, <1>3, <1>4, <1>6 DEF TokensKept, Driver
  <2>3. ASSUME NEW e \in Drivers, drv'[e].pc = "idle" PROVE drv'[e].token = 0
    BY <1>1, <1>0, <1>3, <1>6, <2>3 DEF TokensKept, At
  <2>4. ASSUME NEW e \in Drivers, NEW f \in Drivers, e # f, drv'[e].token > 0
        PROVE  drv'[e].token # drv'[f].token
    BY <1>1, <1>2, <1>3, <1>6, <2>4 DEF TokensKept, Driver
  <2> QED
    BY <2>1, <2>2, <2>3, <2>4 DEF TokensKept, At
<1>9. RowSound(row') /\ \A e \in Drivers : Begun(row', drv'[e])
  BY <1>0, <1>3, <1>5, <1>6 DEF RunInv, Begun
<1>10. ASSUME NEW e \in Drivers, Own(e)' PROVE Knows(row', drv'[e])
  <2>1. drv'[e].token = issued + 1
    BY <1>4, <1>10 DEF Own, Accepts, Granted
  <2>2. e = d
    BY <1>1, <1>2, <1>6, <2>1 DEF TokensKept, Driver
  <2> QED
    BY <1>0, <1>3, <1>5, <1>6, <2>2 DEF Knows, KnowsAtGate, Walking
<1> QED
  BY <1>7, <1>8, <1>9, <1>10 DEF RunInv

(* A driver that forgets everything: it released its lock, or died. *)
LEMMA LeaveKeeps ==
    ASSUME RunInv, NEW d \in Drivers, drv' = [drv EXCEPT ![d] = Idle],
           issued' = issued, UNCHANGED storeVars, left' \in Lefts,
           lock' = lock \/ lock' = NoLock
    PROVE  RunInv'
<1>1. TypeOK /\ TokensKept /\ drv \in [Drivers -> Driver] /\ issued \in Nat /\ lock \in LockValue
  BY DEF RunInv, TypeOK
<1>2. drv' \in [Drivers -> Driver] /\ drv'[d] = Idle /\ \A e \in Drivers \ {d} : drv'[e] = drv[e]
  BY <1>1, IdleFacts
<1>3. row' = row /\ delivered' = delivered /\ due' = due
  BY DEF storeVars
<1>4. lock' \in LockValue /\ lock'.token <= issued /\ (lock'.live => lock' = lock /\ lock'.token > 0)
  <2>1. CASE lock' = lock
    BY <1>1, <2>1 DEF TokensKept
  <2>2. CASE lock' = NoLock
    BY <1>1, <2>2 DEF LockValue, NoLock
  <2> QED
    BY <2>1, <2>2
<1>5. TypeOK'
  BY <1>1, <1>2, <1>3, <1>4 DEF TypeOK, Lefts
<1>6. TokensKept'
  <2>1. \A e \in Drivers : \/ drv'[e].token = 0 /\ drv'[e].pc = "idle"
                           \/ drv'[e].token = drv[e].token /\ drv'[e].pc = drv[e].pc
    BY <1>2, IdleFacts
  <2>2. \A e \in Drivers : drv[e].token \in Nat
    BY <1>1 DEF Driver
  <2> QED
    BY <1>1, <1>4, <2>1, <2>2 DEF TokensKept, At
<1>7. RowSound(row') /\ \A e \in Drivers : Begun(row', drv'[e])
  BY <1>2, <1>3, IdleFacts DEF RunInv, Begun
<1>8. ASSUME NEW e \in Drivers, Own(e)' PROVE Knows(row', drv'[e])
  <2>1. CASE e = d
    BY <1>2, <2>1, IdleFacts DEF Knows, Walking
  <2>2. CASE e # d
    BY <1>2, <1>3, <1>4, <1>8, <2>2 DEF RunInv, Own, Accepts
  <2> QED
    BY <2>1, <2>2
<1> QED
  BY <1>5, <1>6, <1>7, <1>8 DEF RunInv

(* A release frees the driver's own lease only. *)
LEMMA ReleaseKeeps ==
    ASSUME RunInv, NEW d \in Drivers, Release(d) PROVE RunInv'
<1>1. lock' = lock \/ lock' = NoLock
  BY DEF Release, AfterRelease
<1>2. left' \in Lefts
  BY DEF Release, RunInv, TypeOK, Lefts
<1> QED
  BY <1>1, <1>2, LeaveKeeps DEF Release

(* Some fault is spent. *)
LEMMA FaultTyped == ASSUME TypeOK, Fault PROVE left' \in Lefts
<1>1. left \in Lefts
  BY DEF TypeOK, Lefts
<1>2. left.faults - 1 \in Nat
  BY <1>1 DEF Fault, Lefts
<1> QED
  BY <1>1, <1>2 DEF Fault, Lefts

(* A death leaves the lease behind. *)
LEMMA CrashKeeps ==
    ASSUME RunInv, NEW d \in Drivers, Crash(d) PROVE RunInv'
<1>1. left' \in Lefts
  BY FaultTyped DEF Crash, RunInv
<1> QED
  BY <1>1, LeaveKeeps DEF Crash, lockVars

(* A lease ends. *)
LEMMA ExpireKeeps == ASSUME RunInv, Expire PROVE RunInv'
<1>1. TypeOK /\ TokensKept
  BY DEF RunInv
<1>2. left' \in Lefts
  <2>1. CASE Fault
    BY <1>1, <2>1, FaultTyped
  <2>2. CASE left' = left
    BY <1>1, <2>2 DEF TypeOK, Lefts
  <2> QED
    BY <2>1, <2>2 DEF Expire
<1>3. lock' \in LockValue /\ ~lock'.live /\ lock'.token = lock.token
  BY <1>1 DEF TypeOK, Expire, Lapsed, LockValue
<1>4. issued' = issued /\ drv' = drv /\ row' = row /\ delivered' = delivered /\ due' = due
  BY DEF Expire, storeVars
<1>5. TypeOK' /\ TokensKept'
  BY <1>1, <1>2, <1>3, <1>4 DEF TypeOK, Lefts, TokensKept, At
<1>6. \A d \in Drivers : ~Own(d)'
  BY <1>3 DEF Own, Accepts
<1> QED
  BY <1>4, <1>5, <1>6 DEF RunInv

(* The lock signal aborts: nothing the invariant speaks of. *)
LEMMA LostKeeps ==
    ASSUME RunInv, NEW d \in Drivers, drv[d].pc \notin {"idle", "release"},
           drv' = [drv EXCEPT ![d].lost = TRUE],
           UNCHANGED <<lockVars, storeVars>>, left' \in Lefts
    PROVE  RunInv'
<1> DEFINE x == [drv[d] EXCEPT !.lost = TRUE]
<1>1. drv \in [Drivers -> Driver] /\ drv[d] \in Driver
  BY DEF RunInv, TypeOK
<1>2. x \in Driver /\ x.pc = drv[d].pc /\ x.token = drv[d].token /\ SameWork(x, drv[d])
  BY <1>1 DEF Driver, SameWork
<1>3. drv' = [drv EXCEPT ![d] = x]
  BY <1>1
<1> HIDE DEF x
<1>4. Begun(row, x)
  BY <1>2 DEF RunInv, Begun, SameWork
<1>5. Own(d) => Knows(row, x)
  <2>1. Own(d) => Knows(row, drv[d])
    BY DEF RunInv
  <2>2. SavedOf(x) = SavedOf(drv[d])
    BY <1>2 DEF SavedOf, SameWork
  <2> QED
    BY <1>2, <2>1, <2>2 DEF Knows, KnowsAtGate, KnowsInWalk, KnowsInRollback, KnowsTheEnd, SameWork
<1> QED
  BY <1>2, <1>3, <1>4, <1>5, MoveStep

-----------------------------------------------------------------------------
(* The gate *)

(* A fresh run. *)
LEMMA EmptyFacts ==
    ASSUME NEW n \in Nat, NEW r, r = Empty("pending", n)
    PROVE  /\ r \in Row /\ RowSound(r) /\ r.status = "pending" /\ r.run = n
           /\ Open(r) /\ Completed(r) = {} /\ \A s \in Steps : r.step[s] \notin Parked
<1>1. r \in Row
  BY DEF Empty, Row, Status, Tag, StepStatus
<1>2. /\ r.status = "pending" /\ r.run = n /\ r.ledger = {}
      /\ \A s \in Steps : r.step[s] = "none"
  BY DEF Empty
<1> QED
  BY <1>1, <1>2 DEF RowSound, Open, Active, Completed, FailedByStep, Parked

(* A driver loads the run as it is. *)
LEMMA LoadStep ==
    ASSUME RunInv, NEW d \in Drivers, drv[d].pc \in {"create", "load"}, row.status # "none",
           drv' = [drv EXCEPT ![d].pc = "gate", ![d].view = row],
           UNCHANGED <<lockVars, storeVars, left>>
    PROVE  RunInv'
<1> DEFINE x == [drv[d] EXCEPT !.pc = "gate", !.view = row]
<1>1. drv \in [Drivers -> Driver] /\ drv[d] \in Driver /\ row \in Row /\ left' \in Lefts
  BY DEF RunInv, TypeOK, Lefts
<1>2. /\ x \in Driver /\ x.pc = "gate" /\ x.token = drv[d].token /\ x.body = drv[d].body
      /\ x.view = row
  BY <1>1 DEF Driver, PC
<1>3. drv' = [drv EXCEPT ![d] = x]
  BY <1>1
<1> HIDE DEF x
<1>4. Begun(row, x)
  BY <1>2 DEF RunInv, Begun
<1>5. Knows(row, x)
  BY <1>2 DEF Knows, KnowsAtGate, Walking
<1> QED
  BY <1>1, <1>2, <1>3, <1>4, <1>5, MoveStep

(* Loading the run that was created or continued. *)
LEMMA LoadKeeps ==
    ASSUME RunInv, NEW d \in Drivers, Load(d) PROVE RunInv'
<1>1. drv[d].pc = "load"
  BY DEF Load, At
<1>2. row.status # "none"
  BY <1>1 DEF RunInv, Begun
<1> QED
  BY <1>1, <1>2, LoadStep DEF Load

(* The creation of the row, or the loss of that race. *)
LEMMA CreateKeeps ==
    ASSUME RunInv, NEW d \in Drivers, Create(d) PROVE RunInv'
<1>1. drv[d].pc = "create"
  BY DEF Create, At
<1>2. CASE row.status # "none"
  <2>1. drv' = [drv EXCEPT ![d].pc = "gate", ![d].view = row] /\ row' = row
    BY <1>2 DEF Create
  <2> QED
    BY <1>1, <1>2, <2>1, LoadStep DEF Create, storeVars
<1>3. CASE row.status = "none"
  <2>1. row' = Empty("pending", 1) /\ Goto(d, "load")
    BY <1>3 DEF Create
  <2>2. /\ drv' \in [Drivers -> Driver]
        /\ \A e \in Drivers \ {d} : drv'[e] = drv[e]
        /\ drv'[d] = [drv[d] EXCEPT !.pc = "load"]
    BY <2>1, GotoLeaves DEF RunInv, PC
  <2>3. drv'[d].pc = "load" /\ drv'[d].token = drv[d].token /\ drv'[d].body = drv[d].body
    BY <2>2 DEF RunInv, TypeOK, Driver
  <2>4. row' \in Row /\ RowSound(row') /\ row'.status = "pending"
    BY <2>1, EmptyFacts
  <2>5. Begun(row', drv'[d]) /\ Knows(row', drv'[d])
    BY <1>1, <2>3, <2>4 DEF RunInv, Begun, Knows, Walking
  <2>6. delivered' \subseteq Steps /\ due' \subseteq Steps /\ left' \in Lefts /\ UNCHANGED lockVars
    BY DEF Create, RunInv, TypeOK, Lefts
  <2> QED
    BY <1>1, <1>3, <2>2, <2>3, <2>4, <2>5, <2>6, DriverStep
<1> QED
  BY <1>2, <1>3

(* A driver that answers with the stored outcome answers with the row's.   *)
LEMMA RejectKeeps ==
    ASSUME RunInv, NEW d \in Drivers, Reject(d) PROVE RunInv'
<1> DEFINE v == drv[d].view
           a == StoredOutcome(v)
<1>1. drv[d].pc = "gate" /\ IsTerminal(v) /\ Finish(d, a)
  BY DEF Reject, At
<1>2. a \in Answer
  BY <1>1 DEF StoredOutcome, IsTerminal, Answer
<1>3. ASSUME Own(d) PROVE Answers(row, a)
  <2>1. KnowsAtGate(row, drv[d])
    BY <1>1, <1>3 DEF RunInv, Knows
  <2>2. row = v
    BY <1>1, <2>1 DEF KnowsAtGate, IsTerminal, Active
  <2> QED
    BY <1>1, <2>2 DEF Answers, StoredOutcome, IsTerminal, IsCancelled
<1> HIDE DEF a
<1> QED
  BY <1>1, <1>2, <1>3, FinishStep DEF Reject

(* The next run takes the place of the one that was loaded. *)
LEMMA FreshFacts ==
    ASSUME TypeOK, RowSound(row), NEW d \in Drivers, StartFreshRun(d)
    PROVE  /\ row' \in Row /\ RowSound(row') /\ delivered' \subseteq Steps /\ due' \subseteq Steps
           /\ row' = row \/ Open(row')
           /\ row'.status = "none" => row.status = "none"
           /\ row.run = drv[d].view.run => Open(row') /\ row'.status = "pending"
<1>1. CASE row.run = drv[d].view.run
  <2>1. row.run + 1 \in Nat
    BY DEF TypeOK, Row
  <2>2. row' = Empty("pending", row.run + 1) /\ delivered' = {} /\ due' = {}
    BY <1>1 DEF StartFreshRun
  <2> QED
    BY <2>1, <2>2, EmptyFacts
<1>2. CASE row.run # drv[d].view.run
  BY <1>2 DEF StartFreshRun, storeVars, TypeOK
<1> QED
  BY <1>1, <1>2

(* A forced call starts the next run; it owns the row it archives. *)
LEMMA ForceFreshKeeps ==
    ASSUME RunInv, NEW d \in Drivers, ForceFresh(d) PROVE RunInv'
<1>1. /\ drv[d].pc = "gate" /\ IsTerminal(drv[d].view) /\ Own(d)
      /\ StartFreshRun(d) /\ Goto(d, "reload")
  BY DEF ForceFresh, At
<1>2. /\ drv' \in [Drivers -> Driver]
      /\ \A e \in Drivers \ {d} : drv'[e] = drv[e]
      /\ drv'[d] = [drv[d] EXCEPT !.pc = "reload"]
  BY <1>1, GotoLeaves DEF RunInv, PC
<1>3. drv'[d].pc = "reload" /\ drv'[d].token = drv[d].token /\ drv'[d].body = drv[d].body
  BY <1>2 DEF RunInv, TypeOK, Driver
<1>4. row = drv[d].view
  BY <1>1 DEF RunInv, Knows, KnowsAtGate, IsTerminal, Active
<1>5. /\ row' \in Row /\ RowSound(row') /\ delivered' \subseteq Steps /\ due' \subseteq Steps
      /\ Open(row') /\ row'.status = "pending"
  BY <1>1, <1>4, FreshFacts DEF RunInv
<1>6. Begun(row', drv'[d]) /\ Knows(row', drv'[d])
  BY <1>1, <1>3, <1>5 DEF RunInv, Begun, Knows, Walking
<1>7. left' \in Lefts /\ UNCHANGED lockVars
  BY DEF ForceFresh, RunInv, TypeOK, Lefts
<1> QED
  BY <1>1, <1>2, <1>3, <1>5, <1>6, <1>7, DriverStep

(* Entering the walk with what was loaded: the completed rows are known. *)
LEMMA EnterDagStep ==
    ASSUME RunInv, NEW d \in Drivers, NEW r \in Row,
           drv[d].pc \in {"gate", "reload", "retryload"},
           drv' = [drv EXCEPT ![d] = EnterDag(d, r)],
           UNCHANGED <<lockVars, storeVars, left>>,
           Own(d) => Open(row) /\ row.run = r.run /\ row.step = r.step
    PROVE  RunInv'
<1> DEFINE x == EnterDag(d, r)
<1>1. drv \in [Drivers -> Driver] /\ drv[d] \in Driver /\ left' \in Lefts
  BY DEF RunInv, TypeOK, Lefts
<1>2. Completed(r) \subseteq Steps
  BY DEF Completed
<1>3. /\ x \in Driver /\ x.pc = "wave" /\ x.token = drv[d].token /\ x.body = drv[d].body
      /\ x.view = r /\ x.done = Completed(r) /\ x.first = TRUE
  BY <1>1, <1>2 DEF EnterDag, Driver, PC
<1>4. drv' = [drv EXCEPT ![d] = x]
  OBVIOUS
<1> HIDE DEF x
<1>5. drv[d].body = Off /\ row.status # "none"
  BY DEF RunInv, Begun
<1>6. Begun(row, x)
  BY <1>3, <1>5 DEF Begun
<1>7. ASSUME Own(d) PROVE Knows(row, x)
  <2>1. SavedOf(x) = {} /\ \A s \in Steps : x.body[s] = "off"
    BY <1>3, <1>5 DEF SavedOf, Off
  <2>2. Completed(row) = x.done
    BY <1>3, <1>7 DEF Completed
  <2>3. \A s \in Steps : x.view.step[s] \in Parked => Rests(row)
    <3>1. \A s \in Steps : row.step[s] \in Parked => row.status \notin {"none", "pending", "running"}
      BY DEF RunInv, RowSound
    <3> QED
      BY <1>3, <1>7, <3>1 DEF Rests, Open, Active
  <2>4. KnowsInWalk(row, x)
    BY <1>3, <1>7, <2>1, <2>2, <2>3 DEF KnowsInWalk
  <2> QED
    BY <1>3, <2>4 DEF Knows, Walking
<1> QED
  BY <1>1, <1>3, <1>4, <1>6, <1>7, MoveStep

(* After the gate: on to the rollback that was begun, or to the walk. *)
LEMMA ProceedStep ==
    ASSUME RunInv, NEW d \in Drivers, NEW r \in Row,
           drv[d].pc \in {"gate", "reload"}, Proceed(d, r),
           UNCHANGED <<lockVars, storeVars, left>>,
           Own(d) => \/ row = r /\ (Open(row) \/ row.status = "compensating")
                     \/ Open(row) /\ row.run = r.run /\ row.step = r.step /\ r.status \in Active
    PROVE  RunInv'
<1>1. CASE r.status = "compensating"
  <2> DEFINE x == [drv[d] EXCEPT !.view = r, !.pc = "rollback"]
  <2>1. drv \in [Drivers -> Driver] /\ drv[d] \in Driver /\ left' \in Lefts
    BY DEF RunInv, TypeOK, Lefts
  <2>2. /\ x \in Driver /\ x.pc = "rollback" /\ x.token = drv[d].token /\ x.body = drv[d].body
    BY <2>1 DEF Driver, PC
  <2>3. drv' = [drv EXCEPT ![d] = x]
    BY <1>1, <2>1 DEF Proceed
  <2> HIDE DEF x
  <2>4. Begun(row, x)
    BY <2>2 DEF RunInv, Begun
  <2>5. Own(d) => Knows(row, x)
    BY <1>1, <2>2 DEF Knows, KnowsInRollback, Walking, Active
  <2> QED
    BY <2>1, <2>2, <2>3, <2>4, <2>5, MoveStep
<1>2. CASE r.status # "compensating"
  <2>1. drv' = [drv EXCEPT ![d] = EnterDag(d, r)]
    BY <1>2 DEF Proceed
  <2>2. Own(d) => Open(row) /\ row.run = r.run /\ row.step = r.step
    BY <1>2
  <2> QED
    BY <2>1, <2>2, EnterDagStep
<1> QED
  BY <1>1, <1>2

(* The gate passes a run that is as loaded, or cancelled since. *)
LEMMA EnterKeeps ==
    ASSUME RunInv, NEW d \in Drivers, Enter(d) PROVE RunInv'
<1> DEFINE v == drv[d].view
<1>1. drv[d].pc = "gate" /\ ~IsTerminal(v) /\ Proceed(d, v)
  BY DEF Enter, At
<1>2. v \in Row /\ row.status # "none"
  BY <1>1 DEF RunInv, TypeOK, Driver, Begun
<1>3. ASSUME Own(d)
      PROVE  \/ row = v /\ (Open(row) \/ row.status = "compensating")
             \/ Open(row) /\ row.run = v.run /\ row.step = v.step /\ v.status \in Active
  <2>1. KnowsAtGate(row, drv[d])
    BY <1>1, <1>3 DEF RunInv, Knows
  <2>2. CASE row = v
    BY <1>1, <1>2, <2>2 DEF IsTerminal, Open, Active, Row, Status
  <2>3. CASE v.status \in Active /\ row = Cancelled(v)
    <3>1. row.status = "failed" /\ row.tag = "cancelled" /\ row.run = v.run /\ row.step = v.step
      BY <1>2, <2>3 DEF Cancelled, Row
    <3> QED
      BY <2>3, <3>1 DEF Open, IsCancelled
  <2> QED
    BY <2>1, <2>2, <2>3 DEF KnowsAtGate
<1> HIDE DEF v
<1> QED
  BY <1>1, <1>2, <1>3, ProceedStep DEF Enter

(* The reload after a forced fresh start. *)
LEMMA ReloadKeeps ==
    ASSUME RunInv, NEW d \in Drivers, Reload(d) PROVE RunInv'
<1>1. drv[d].pc = "reload" /\ Proceed(d, row)
  BY DEF Reload, At
<1>2. row \in Row
  BY DEF RunInv, TypeOK
<1>3. Own(d) => Open(row)
  BY <1>1 DEF RunInv, Knows
<1> QED
  BY <1>1, <1>2, <1>3, ProceedStep DEF Reload

(* The reload before a retry. *)
LEMMA RetryLoadKeeps ==
    ASSUME RunInv, NEW d \in Drivers, RetryLoad(d) PROVE RunInv'
<1>1. drv[d].pc = "retryload" /\ drv' = [drv EXCEPT ![d] = EnterDag(d, row)]
  BY DEF RetryLoad, At
<1>2. row \in Row
  BY DEF RunInv, TypeOK
<1>3. Own(d) => Open(row)
  BY <1>1 DEF RunInv, Knows
<1> QED
  BY <1>1, <1>2, <1>3, EnterDagStep DEF RetryLoad

-----------------------------------------------------------------------------
(* The walk *)

(* The head of the wave loop: end, stop, or start the ready steps. *)
LEMMA StartWaveKeeps ==
    ASSUME RunInv, NEW d \in Drivers, StartWave(d) PROVE RunInv'
<1>1. drv[d].pc = "wave" /\ UNCHANGED <<lockVars, storeVars, left>>
  BY DEF StartWave, At
<1>2. drv \in [Drivers -> Driver] /\ drv[d] \in Driver /\ left' \in Lefts
  BY <1>1 DEF RunInv, TypeOK, Lefts
<1>3. Own(d) => KnowsInWalk(row, drv[d])
  BY <1>1 DEF RunInv, Knows, Walking
<1>4. drv[d].body = Off /\ row.status # "none"
  BY <1>1 DEF RunInv, Begun
<1>5. CASE Goto(d, "complete")
  <2>1. ASSUME NEW x \in Driver, x.pc = "complete", SameWork(x, drv[d]), Own(d)
        PROVE  Knows(row, x)
    <3>1. SavedOf(x) = SavedOf(drv[d])
      BY <2>1 DEF SavedOf, SameWork
    <3> QED
      BY <1>3, <2>1, <3>1 DEF Knows, KnowsInWalk, Walking, SameWork
  <2> QED
    BY <1>1, <1>5, <2>1, GotoStep DEF PC
<1>6. CASE Finish(d, "lost")
  BY <1>1, <1>6, FinishStep DEF Answer, Answers
<1>7. CASE ~drv[d].first /\ drv[d].seen /\ Finish(d, "cancelled")
  <2>1. Own(d) => Answers(row, "cancelled")
    BY <1>1, <1>3, <1>7 DEF KnowsInWalk, Answers
  <2> QED
    BY <1>1, <1>7, <2>1, FinishStep DEF Answer
<1>8. CASE drv' = [drv EXCEPT ![d].pc = "bodies", ![d].seen = FALSE,
                     ![d].body = [s \in Steps |-> IF s \in Ready(d) THEN "run" ELSE "off"]]
  <2> DEFINE b == [s \in Steps |-> IF s \in Ready(d) THEN "run" ELSE "off"]
             x == [drv[d] EXCEPT !.pc = "bodies", !.seen = FALSE, !.body = b]
  <2>1. b \in [Steps -> BodyState] /\ \A s \in Steps : b[s] = IF s \in Ready(d) THEN "run" ELSE "off"
    BY DEF BodyState
  <2> HIDE DEF b
  <2>2. /\ x \in Driver /\ x.pc = "bodies" /\ x.token = drv[d].token /\ x.body = b
        /\ x.view = drv[d].view /\ x.done = drv[d].done /\ x.seen = FALSE
    BY <1>2, <2>1 DEF Driver, PC
  <2>3. drv' = [drv EXCEPT ![d] = x]
    BY <1>2, <1>8 DEF b
  <2> HIDE DEF x
  <2>4. Begun(row, x)
    BY <1>4, <2>2 DEF Begun
  <2>5. ASSUME Own(d) PROVE Knows(row, x)
    <3>1. SavedOf(x) = {} /\ SavedOf(drv[d]) = {}
      BY <1>4, <2>1, <2>2 DEF SavedOf, Off
    <3>2. \A s \in Steps : x.body[s] # "suspended" /\ (x.body[s] # "off" => s \notin x.done)
      BY <2>1, <2>2 DEF Ready
    <3>3. KnowsInWalk(row, x)
      BY <1>1, <1>3, <2>2, <2>5, <3>1, <3>2 DEF KnowsInWalk
    <3> QED
      BY <2>2, <3>3 DEF Knows, Walking
  <2> QED
    BY <1>1, <1>2, <2>2, <2>3, <2>4, <2>5, MoveStep
<1> QED
  BY <1>5, <1>6, <1>7, <1>8 DEF StartWave

(* The state of one body of the wave is all that changes in the driver. *)
LEMMA SettlesLeaves ==
    ASSUME TypeOK, NEW d \in Drivers, NEW s \in Steps, NEW b \in BodyState, Settles(d, s, b)
    PROVE  /\ drv' \in [Drivers -> Driver]
           /\ \A e \in Drivers \ {d} : drv'[e] = drv[e]
           /\ drv'[d].pc = drv[d].pc /\ drv'[d].token = drv[d].token
           /\ drv'[d].view = drv[d].view /\ drv'[d].done = drv[d].done
           /\ drv'[d].seen = drv[d].seen /\ drv'[d].first = drv[d].first
           /\ drv'[d].lost = drv[d].lost
           /\ drv'[d].body[s] = b
           /\ \A t \in Steps \ {s} : drv'[d].body[t] = drv[d].body[t]
<1> DEFINE x == [drv[d] EXCEPT !.body[s] = b]
<1>1. drv \in [Drivers -> Driver] /\ drv[d] \in Driver
  BY DEF TypeOK
<1>2. drv[d].body \in [Steps -> BodyState]
  BY <1>1 DEF Driver
<1>3. /\ x \in Driver /\ x.pc = drv[d].pc /\ x.token = drv[d].token
      /\ x.view = drv[d].view /\ x.done = drv[d].done
      /\ x.seen = drv[d].seen /\ x.first = drv[d].first /\ x.lost = drv[d].lost
      /\ x.body = [drv[d].body EXCEPT ![s] = b]
  BY <1>1, <1>2 DEF Driver
<1>4. drv' = [drv EXCEPT ![d] = x]
  BY <1>1 DEF Settles
<1> HIDE DEF x
<1>5. drv' \in [Drivers -> Driver] /\ drv'[d] = x /\ \A e \in Drivers \ {d} : drv'[e] = drv[e]
  BY <1>1, <1>3, <1>4
<1> QED
  BY <1>2, <1>3, <1>5

(* A body settles, or gets on, without a write that is accepted. *)
LEMMA BodyStep ==
    ASSUME RunInv, NEW d \in Drivers, NEW s \in Steps, NEW b \in BodyState,
           Settles(d, s, b), drv[d].pc = "bodies",
           drv[d].body[s] \notin {"off", "saved", "savedFired", "suspended"},
           b \notin {"off", "saved", "savedFired"},
           UNCHANGED <<lockVars, storeVars>>, left' \in Lefts,
           b = "suspended" /\ Own(d) => Rests(row)
    PROVE  RunInv'
<1> DEFINE x == drv'[d]
<1>1. /\ drv' \in [Drivers -> Driver]
      /\ \A e \in Drivers \ {d} : drv'[e] = drv[e]
      /\ x.pc = drv[d].pc /\ x.token = drv[d].token
      /\ x.view = drv[d].view /\ x.done = drv[d].done
      /\ x.seen = drv[d].seen /\ x.first = drv[d].first
      /\ x.body[s] = b
      /\ \A t \in Steps \ {s} : x.body[t] = drv[d].body[t]
  BY SettlesLeaves DEF RunInv
<1> HIDE DEF x
<1>2. Begun(row, x)
  BY <1>1 DEF RunInv, Begun
<1>3. ASSUME Own(d) PROVE Knows(row, x)
  <2>1. KnowsInWalk(row, drv[d])
    BY <1>3 DEF RunInv, Knows, Walking
  <2>2. SavedOf(x) = SavedOf(drv[d])
    BY <1>1 DEF SavedOf
  <2>3. \A t \in Steps : x.body[t] = "suspended" => Rests(row)
    BY <1>1, <1>3, <2>1 DEF KnowsInWalk
  <2>4. \A t \in Steps : x.body[t] # "off" => t \notin x.done
    BY <1>1, <2>1 DEF KnowsInWalk
  <2>5. x.seen => IsCancelled(row) \/ \E t \in Steps : x.body[t] = "suspended"
    BY <1>1, <2>1 DEF KnowsInWalk
  <2>6. KnowsInWalk(row, x)
    BY <1>1, <2>1, <2>2, <2>3, <2>4, <2>5 DEF KnowsInWalk
  <2> QED
    BY <1>1, <2>6 DEF Knows, Walking
<1> QED
  BY <1>1, <1>2, <1>3, LocalStep DEF x

(* A plain body, a tripwire, a body that asks to continue as new, the look  *)
(* for a signal, a lost checkpoint: only the driver's record changes.      *)
LEMMA QuietBodyKeeps ==
    ASSUME RunInv, NEW d \in Drivers, NEW s \in Steps,
           WorkBody(d, s) \/ TripwireBody(d, s) \/ ContinueBody(d, s) \/ SignalBody(d, s)
             \/ CheckpointLost(d, s)
    PROVE  RunInv'
<1>1. left \in Lefts /\ TypeOK
  BY DEF RunInv, TypeOK, Lefts
<1>2. CASE CheckpointLost(d, s)
  <2>1. left' \in Lefts
    <3>1. CASE Fault
      BY <1>1, <3>1, FaultTyped
    <3>2. CASE left' = left
      BY <1>1, <3>2
    <3> QED
      BY <1>2, <3>1, <3>2 DEF CheckpointLost, Fault
  <2>2. /\ drv[d].pc = "bodies" /\ drv[d].body[s] \in {"completed", "fired", "failed"}
        /\ Settles(d, s, "unsaved") /\ UNCHANGED <<lockVars, storeVars>>
    BY <1>2 DEF CheckpointLost, At
  <2> QED
    BY <2>1, <2>2, BodyStep DEF BodyState
<1>3. CASE ~CheckpointLost(d, s)
  <2>1. /\ drv[d].pc = "bodies" /\ drv[d].body[s] = "run"
        /\ UNCHANGED <<lockVars, storeVars, left>>
    BY <1>3 DEF WorkBody, TripwireBody, ContinueBody, SignalBody, InBody, At
  <2>2. \E b \in {"completed", "failed", "fired", "continued", "unsignalled"} : Settles(d, s, b)
    <3>1. CASE WorkBody(d, s)
      BY <3>1 DEF WorkBody
    <3>2. CASE TripwireBody(d, s)
      BY <3>2 DEF TripwireBody
    <3>3. CASE ContinueBody(d, s)
      BY <3>3 DEF ContinueBody
    <3>4. CASE SignalBody(d, s)
      <4>1. PICK b : /\ b \in {"completed", "failed", "fired", "continued", "unsignalled"}
                     /\ Settles(d, s, b)
        BY <3>4 DEF SignalBody
      <4> QED
        BY <4>1
    <3> QED
      BY <1>3, <3>1, <3>2, <3>3, <3>4
  <2>3. PICK b \in {"completed", "failed", "fired", "continued", "unsignalled"} : Settles(d, s, b)
    BY <2>2
  <2> QED
    BY <1>1, <2>1, <2>3, BodyStep DEF BodyState
<1> QED
  BY <1>2, <1>3

(* A body parks: the fence is checked, the run's status is not. *)
LEMMA SuspendStep ==
    ASSUME RunInv, NEW d \in Drivers, NEW s \in Steps, NEW parked \in Parked, NEW rearm \in BOOLEAN,
           drv[d].pc = "bodies", drv[d].body[s] \in {"run", "unsignalled"},
           Suspend(d, s, parked, rearm), UNCHANGED <<lockVars, delivered, left>>
    PROVE  RunInv'
<1>1. TypeOK /\ left' \in Lefts /\ row \in Row /\ row.step \in [Steps -> StepStatus]
  BY DEF RunInv, TypeOK, Lefts, Row
<1>2. CASE ~Own(d)
  <2>1. Settles(d, s, "failed") /\ UNCHANGED <<lockVars, storeVars>>
    BY <1>2 DEF Suspend, storeVars
  <2> QED
    BY <1>1, <2>1, BodyStep DEF BodyState
<1>3. CASE Own(d)
  <2> DEFINE x == drv'[d]
  <2>1. /\ row' = [row EXCEPT !.step[s] = parked, !.status = "suspended",
                              !.fired = @ \ {s}, !.ledger = @ \ {s}]
        /\ due' = (IF rearm THEN due \ {s} ELSE due) /\ Settles(d, s, "suspended")
    BY <1>3 DEF Suspend
  <2>2. /\ drv' \in [Drivers -> Driver]
        /\ \A e \in Drivers \ {d} : drv'[e] = drv[e]
        /\ x.pc = drv[d].pc /\ x.token = drv[d].token
        /\ x.view = drv[d].view /\ x.done = drv[d].done
        /\ x.seen = drv[d].seen /\ x.first = drv[d].first
        /\ x.body[s] = "suspended"
        /\ \A t \in Steps \ {s} : x.body[t] = drv[d].body[t]
    BY <1>1, <2>1, SettlesLeaves DEF BodyState
  <2> HIDE DEF x
  <2>3. /\ row' \in Row /\ row'.status = "suspended" /\ row'.run = row.run /\ row'.tag = row.tag
        /\ row'.step = [row.step EXCEPT ![s] = parked] /\ row'.ledger = row.ledger \ {s}
    BY <1>1, <2>1 DEF Row, Status, StepStatus, Parked
  <2>4. KnowsInWalk(row, drv[d]) /\ RowSound(row)
    BY <1>3 DEF RunInv, Knows, Walking
  <2>5. row.ledger = {} /\ row'.ledger = {}
    BY <2>3, <2>4 DEF KnowsInWalk, RowSound, Open, Active, FailedByStep, IsCancelled
  <2>6. RowSound(row')
    BY <2>3, <2>5 DEF RowSound, FailedByStep
  <2>7. Begun(row', x)
    BY <2>2, <2>3 DEF Begun
  <2>8. Knows(row', x)
    <3>1. s \notin drv[d].done
      BY <2>4 DEF KnowsInWalk
    <3>2. SavedOf(x) = SavedOf(drv[d]) /\ s \notin SavedOf(x)
      BY <2>2 DEF SavedOf
    <3>3. Completed(row') = Completed(row) \ {s}
      BY <1>1, <2>3 DEF Completed, Parked
    <3>4. Completed(row') = x.done \cup SavedOf(x)
      BY <2>2, <2>4, <3>1, <3>2, <3>3 DEF KnowsInWalk
    <3>5. Rests(row') /\ Open(row')
      BY <2>3 DEF Rests, Open, Active
    <3>6. \A t \in Steps : x.body[t] # "off" => t \notin x.done
      BY <2>2, <2>4 DEF KnowsInWalk
    <3>7. KnowsInWalk(row', x)
      BY <2>2, <2>3, <2>4, <3>4, <3>5, <3>6 DEF KnowsInWalk
    <3> QED
      BY <2>2, <3>7 DEF Knows, Walking
  <2>9. delivered' \subseteq Steps /\ due' \subseteq Steps /\ UNCHANGED lockVars
    BY <1>1, <2>1 DEF TypeOK
  <2> QED
    BY <1>1, <1>3, <2>2, <2>3, <2>6, <2>7, <2>8, <2>9, DriverStep DEF x
<1> QED
  BY <1>2, <1>3

(* Sleeps and signal waits park, or find that they are parked. *)
LEMMA ParkKeeps ==
    ASSUME RunInv, NEW d \in Drivers, NEW s \in Steps, SleepBody(d, s) \/ SignalPark(d, s)
    PROVE  RunInv'
<1>1. CASE SignalPark(d, s)
  <2>1. /\ drv[d].pc = "bodies" /\ drv[d].body[s] = "unsignalled"
        /\ Suspend(d, s, "waiting", drv[d].view.step[s] # "waiting")
        /\ UNCHANGED <<lockVars, delivered, left>>
    BY <1>1 DEF SignalPark, InBody, At
  <2>2. (drv[d].view.step[s] # "waiting") \in BOOLEAN
    OBVIOUS
  <2> QED
    BY <2>1, <2>2, SuspendStep DEF Parked
<1>2. CASE SleepBody(d, s)
  <2>1. drv[d].pc = "bodies" /\ drv[d].body[s] = "run" /\ UNCHANGED <<lockVars, delivered, left>>
    BY <1>2 DEF SleepBody, InBody, At
  <2>2. CASE drv[d].view.step[s] = "sleeping"
    <3>1. \E b \in {"completed", "suspended"} : Settles(d, s, b)
      <4>1. PICK b : b \in {"completed", "suspended"} /\ Settles(d, s, b)
        BY <1>2, <2>2 DEF SleepBody
      <4> QED
        BY <4>1
    <3>2. PICK b \in {"completed", "suspended"} : Settles(d, s, b)
      BY <3>1
    <3>3. Own(d) => Rests(row)
      BY <2>1, <2>2 DEF RunInv, Knows, Walking, KnowsInWalk, Parked
    <3>4. UNCHANGED <<lockVars, storeVars>> /\ left' \in Lefts
      BY <1>2, <2>1, <2>2 DEF SleepBody, storeVars, RunInv, TypeOK, Lefts
    <3> QED
      BY <2>1, <3>2, <3>3, <3>4, BodyStep DEF BodyState
  <2>3. CASE drv[d].view.step[s] # "sleeping"
    BY <1>2, <2>1, <2>3, SuspendStep DEF SleepBody, Parked
  <2> QED
    BY <2>2, <2>3
<1> QED
  BY <1>1, <1>2

(* A checkpoint: the row is the body's, and the walk counts it. *)
LEMMA CheckpointKeeps ==
    ASSUME RunInv, NEW d \in Drivers, NEW s \in Steps, Checkpoint(d, s) PROVE RunInv'
<1> DEFINE b == drv[d].body[s]
           nb == CASE b = "completed" -> "saved" [] b = "fired" -> "savedFired"
                   [] b = "failed" -> "savedFailed"
           ns == IF b = "failed" THEN "failed" ELSE "completed"
           sn == drv[d].seen \/ IsCancelled(row)
           x == [drv[d] EXCEPT !.seen = sn, !.body[s] = nb]
<1>1. TypeOK /\ left' \in Lefts /\ row \in Row /\ row.step \in [Steps -> StepStatus]
  BY DEF RunInv, TypeOK, Lefts, Row, Checkpoint
<1>2. drv \in [Drivers -> Driver] /\ drv[d] \in Driver /\ drv[d].body \in [Steps -> BodyState]
  BY <1>1 DEF TypeOK, Driver
<1>3. drv[d].pc = "bodies" /\ b \in {"completed", "fired", "failed"} /\ Own(d)
  BY DEF Checkpoint, CheckpointAllowed, At
<1>4. /\ nb \in BodyState /\ nb \in {"saved", "savedFired", "savedFailed"}
      /\ nb = "savedFailed" <=> b = "failed"
  BY <1>3 DEF BodyState
<1>5. sn \in BOOLEAN
  BY <1>2 DEF Driver
<1>6. drv' = [drv EXCEPT ![d] = x]
  BY <1>2 DEF Checkpoint
<1>7. /\ row'.step = [row.step EXCEPT ![s] = ns] /\ row' \in Row
      /\ row'.status = (IF row.status = "pending" THEN "running" ELSE row.status)
      /\ row'.run = row.run /\ row'.tag = row.tag /\ row'.ledger = row.ledger \ {s}
  BY <1>1, <1>3 DEF Checkpoint, Row, Status, StepStatus
<1>8. ns = "failed" <=> b = "failed"
  BY <1>3
<1>9. ns \in {"completed", "failed"}
  OBVIOUS
<1>10. sn <=> drv[d].seen \/ IsCancelled(row)
  OBVIOUS
<1>11. b = drv[d].body[s]
  OBVIOUS
<1> HIDE DEF b, nb, ns, sn
<1>12. /\ x \in Driver /\ x.pc = "bodies" /\ x.token = drv[d].token /\ x.seen = sn
       /\ x.view = drv[d].view /\ x.done = drv[d].done
       /\ x.body = [drv[d].body EXCEPT ![s] = nb]
  BY <1>2, <1>3, <1>4, <1>5 DEF Driver
<1> HIDE DEF x
<1>13. /\ drv' \in [Drivers -> Driver] /\ drv'[d] = x
       /\ \A e \in Drivers \ {d} : drv'[e] = drv[e]
  BY <1>2, <1>6, <1>12
<1>14. KnowsInWalk(row, drv[d]) /\ RowSound(row) /\ row.status # "none"
  BY <1>3 DEF RunInv, Knows, Walking, Begun
<1>15. /\ Open(row') /\ (Rests(row) => Rests(row')) /\ row'.status # "none"
       /\ IsCancelled(row) <=> IsCancelled(row')
  BY <1>7, <1>14 DEF KnowsInWalk, Open, Rests, Active, IsCancelled
<1>16. row'.ledger = {}
  BY <1>7, <1>14 DEF KnowsInWalk, RowSound, Open, Active, FailedByStep, IsCancelled
<1>17. RowSound(row')
  <2>1. \A t \in Steps : row'.step[t] \in Parked => row'.status \notin {"none", "pending", "running"}
    <3>1. ASSUME NEW t \in Steps, row'.step[t] \in Parked PROVE row.step[t] \in Parked
      BY <1>1, <1>7, <1>9, <3>1 DEF Parked
    <3> QED
      BY <1>7, <1>14, <3>1 DEF RowSound
  <2>2. ~FailedByStep(row')
    BY <1>15 DEF Open, Active, FailedByStep, IsCancelled
  <2> QED
    BY <1>16, <2>1, <2>2 DEF RowSound
<1>18. Begun(row', x)
  BY <1>12, <1>15 DEF Begun
<1>19. Knows(row', x)
  <2>1. s \notin drv[d].done /\ s \notin SavedOf(drv[d])
    BY <1>3, <1>11, <1>14 DEF KnowsInWalk, SavedOf
  <2>2. SavedOf(x) = IF b = "failed" THEN SavedOf(drv[d]) ELSE SavedOf(drv[d]) \cup {s}
    BY <1>2, <1>4, <1>12, <2>1 DEF SavedOf
  <2>3. Completed(row') = IF b = "failed" THEN Completed(row) \ {s} ELSE Completed(row) \cup {s}
    BY <1>1, <1>7, <1>8, <1>9 DEF Completed
  <2>4. Completed(row') = x.done \cup SavedOf(x)
    BY <1>12, <1>14, <2>1, <2>2, <2>3 DEF KnowsInWalk
  <2>5. \A t \in Steps : x.body[t] = "suspended" <=> drv[d].body[t] = "suspended"
    BY <1>2, <1>3, <1>4, <1>11, <1>12
  <2>6. \A t \in Steps : x.body[t] # "off" => t \notin x.done
    BY <1>2, <1>3, <1>11, <1>12, <1>14 DEF KnowsInWalk
  <2>7. x.seen => IsCancelled(row') \/ \E t \in Steps : x.body[t] = "suspended"
    BY <1>3, <1>10, <1>12, <1>14, <1>15, <2>5 DEF KnowsInWalk
  <2>8. \A t \in Steps : /\ x.view.step[t] \in Parked => Rests(row')
                         /\ x.body[t] = "suspended" => Rests(row')
    BY <1>3, <1>12, <1>14, <1>15, <2>5 DEF KnowsInWalk
  <2>9. KnowsInWalk(row', x)
    BY <1>7, <1>12, <1>14, <1>15, <2>4, <2>6, <2>7, <2>8 DEF KnowsInWalk
  <2> QED
    BY <1>12, <2>9 DEF Knows, Walking
<1>20. delivered' \subseteq Steps /\ due' \subseteq Steps /\ UNCHANGED lockVars
  BY <1>1 DEF TypeOK, Checkpoint
<1>21. row'.status = "none" => row.status = "none"
  BY <1>15
<1> QED
  BY <1>1, <1>3, <1>7, <1>12, <1>13, <1>17, <1>18, <1>19, <1>20, <1>21, DriverStep

(* The wave is folded into the walk. *)
LEMMA SettleWaveKeeps ==
    ASSUME RunInv, NEW d \in Drivers, SettleWave(d) PROVE RunInv'
<1>1. drv[d].pc = "bodies" /\ UNCHANGED <<lockVars, storeVars, left>>
  BY DEF SettleWave, At
<1>2. CASE Finish(d, "lost")
  BY <1>1, <1>2, FinishStep DEF Answer, Answers
<1>3. CASE In(d, {"unsaved"}) = {}
  <2> DEFINE pc == AfterWave(d)
             dn == drv[d].done \cup In(d, {"saved", "savedFired"})
             a == IF pc = "release" THEN "suspended" ELSE drv[d].ans
             x == [drv[d] EXCEPT !.done = dn, !.pc = pc, !.first = FALSE, !.body = Off, !.ans = a]
  <2>1. drv \in [Drivers -> Driver] /\ drv[d] \in Driver /\ left' \in Lefts
    BY <1>1 DEF RunInv, TypeOK, Lefts
  <2>2. /\ pc \in {"failing", "continue", "release", "trip", "wave"}
        /\ pc \in {"release"} => In(d, {"suspended"}) # {}
        /\ pc \in {"trip", "wave"} => In(d, {"suspended"}) = {}
    BY DEF AfterWave
  <2>3. dn \subseteq Steps /\ a \in Answer /\ Off \in [Steps -> BodyState]
    BY <2>1 DEF In, Driver, Answer, Off, BodyState
  <2>4. a = "suspended" \/ pc # "release"
    OBVIOUS
  <2>5. dn = drv[d].done \cup SavedOf(drv[d])
    BY DEF In, SavedOf
  <2>6. drv' = [drv EXCEPT ![d] = x]
    BY <1>3, <2>1 DEF SettleWave
  <2> HIDE DEF pc, dn, a
  <2>7. /\ x \in Driver /\ x.pc = pc /\ x.token = drv[d].token /\ x.body = Off /\ x.ans = a
        /\ x.view = drv[d].view /\ x.done = dn /\ x.seen = drv[d].seen
    BY <2>1, <2>2, <2>3 DEF Driver, PC
  <2> HIDE DEF x
  <2>8. Begun(row, x)
    BY <1>1, <2>7 DEF RunInv, Begun
  <2>9. ASSUME Own(d) PROVE Knows(row, x)
    <3>1. KnowsInWalk(row, drv[d])
      BY <1>1, <2>9 DEF RunInv, Knows, Walking
    <3>2. SavedOf(x) = {} /\ \A s \in Steps : x.body[s] = "off"
      BY <2>7 DEF SavedOf, Off
    <3>3. Open(row) /\ row.run = x.view.run /\ Completed(row) = x.done \cup SavedOf(x)
      BY <2>5, <2>7, <3>1, <3>2 DEF KnowsInWalk
    <3>4. CASE pc = "release"
      <4>1. PICK s \in Steps : drv[d].body[s] = "suspended"
        BY <2>2, <3>4 DEF In
      <4>2. Rests(row)
        BY <1>1, <3>1, <4>1 DEF KnowsInWalk
      <4> QED
        BY <2>4, <2>7, <3>4, <4>2 DEF Knows, Walking, Answers
    <3>5. CASE pc = "continue"
      BY <2>7, <3>3, <3>5 DEF Knows, Walking
    <3>6. CASE pc \in {"failing", "trip"}
      <4>1. KnowsInWalk(row, x)
        BY <2>7, <3>3, <3>6 DEF KnowsInWalk
      <4> QED
        BY <2>7, <3>6, <4>1 DEF Knows, Walking
    <3>7. CASE pc = "wave"
      <4>1. \A s \in Steps : drv[d].body[s] # "suspended"
        BY <2>2, <3>7 DEF In
      <4>2. x.seen => IsCancelled(row)
        BY <1>1, <2>7, <3>1, <4>1 DEF KnowsInWalk
      <4>3. \A s \in Steps : x.view.step[s] \in Parked => Rests(row)
        BY <1>1, <2>7, <3>1 DEF KnowsInWalk
      <4>4. KnowsInWalk(row, x)
        BY <2>7, <3>2, <3>3, <3>7, <4>2, <4>3 DEF KnowsInWalk
      <4> QED
        BY <2>7, <3>7, <4>4 DEF Knows, Walking
    <3> QED
      BY <2>2, <3>4, <3>5, <3>6, <3>7
  <2>10. x.pc # "idle"
    BY <2>2, <2>7
  <2> QED
    BY <1>1, <2>1, <2>6, <2>7, <2>8, <2>9, <2>10, MoveStep
<1> QED
  BY <1>2, <1>3 DEF SettleWave

-----------------------------------------------------------------------------
(* Endings *)

(* The run completes or trips: it ends so, or stays cancelled. *)
LEMMA EndStep ==
    ASSUME RunInv, NEW d \in Drivers, NEW st \in {"completed", "tripwire"},
           drv[d].pc \in {"complete", "trip"}, Own(d), EndAs(st, row.tag),
           drv' = [drv EXCEPT ![d].pc = "confirm", ![d].ans = st],
           UNCHANGED <<lockVars, delivered, due, left>>
    PROVE  RunInv'
<1> DEFINE x == [drv[d] EXCEPT !.pc = "confirm", !.ans = st]
<1>1. TypeOK /\ left' \in Lefts /\ row \in Row
  BY DEF RunInv, TypeOK, Lefts
<1>2. drv \in [Drivers -> Driver] /\ drv[d] \in Driver
  BY <1>1 DEF TypeOK
<1>3. x \in Driver /\ x.pc = "confirm" /\ x.ans = st /\ x.token = drv[d].token /\ x.body = drv[d].body
  BY <1>2 DEF Driver, PC, Answer
<1>4. drv' = [drv EXCEPT ![d] = x]
  BY <1>2
<1> HIDE DEF x
<1>5. /\ drv' \in [Drivers -> Driver] /\ drv'[d] = x
      /\ \A e \in Drivers \ {d} : drv'[e] = drv[e]
  BY <1>2, <1>3, <1>4
<1>6. Open(row) /\ RowSound(row)
  BY DEF RunInv, Knows, Walking, KnowsInWalk
<1>7. row.ledger = {}
  BY <1>6 DEF RowSound, Open, Active, FailedByStep, IsCancelled
<1>8. CASE IsCancelled(row)
  <2>1. row' = row
    BY <1>8 DEF EndAs, IsCancelled, IsTerminal
  <2>2. Begun(row', x) /\ Knows(row', x)
    BY <1>3, <1>8, <2>1 DEF RunInv, Begun, Knows, Walking, KnowsTheEnd
  <2>3. delivered' \subseteq Steps /\ due' \subseteq Steps /\ UNCHANGED lockVars
    BY <1>1 DEF TypeOK
  <2> QED
    BY <1>1, <1>3, <1>5, <1>6, <2>1, <2>2, <2>3, DriverStep
<1>9. CASE row.status \in Active
  <2>1. row' = [row EXCEPT !.status = st, !.tag = row.tag]
    BY <1>9 DEF EndAs, IsTerminal, Active
  <2>2. /\ row' \in Row /\ row'.status = st /\ row'.step = row.step /\ row'.ledger = {}
    BY <1>1, <1>7, <2>1 DEF Row, Status
  <2>3. RowSound(row')
    BY <2>2 DEF RowSound, FailedByStep
  <2>4. Begun(row', x) /\ Knows(row', x)
    BY <1>3, <2>2 DEF RunInv, Begun, Knows, Walking, KnowsTheEnd
  <2>5. delivered' \subseteq Steps /\ due' \subseteq Steps /\ UNCHANGED lockVars
    BY <1>1 DEF TypeOK
  <2>6. row'.status # "none"
    BY <2>2
  <2> QED
    BY <1>1, <1>3, <1>5, <2>2, <2>3, <2>4, <2>5, <2>6, DriverStep
<1> QED
  BY <1>6, <1>8, <1>9 DEF Open

(* completeWorkflow and tripwireWorkflow. *)
LEMMA EndKeeps ==
    ASSUME RunInv, NEW d \in Drivers, Complete(d) \/ Trip(d) PROVE RunInv'
  BY EndStep DEF Complete, Trip, At

(* assertNotCancelled: a cancel the write left standing is reported. *)
LEMMA ConfirmKeeps ==
    ASSUME RunInv, NEW d \in Drivers, Confirm(d) PROVE RunInv'
<1> DEFINE a == IF IsCancelled(row) THEN "cancelled" ELSE drv[d].ans
<1>1. drv[d].pc = "confirm" /\ Finish(d, a)
  BY DEF Confirm, At
<1>2. a \in Answer
  BY DEF RunInv, TypeOK, Driver, Answer
<1>3. Own(d) => Answers(row, a)
  BY <1>1 DEF RunInv, Knows, KnowsTheEnd, Answers
<1> HIDE DEF a
<1> QED
  BY <1>1, <1>2, <1>3, FinishStep DEF Confirm

(* A failed wave: cancelled, retried or rolled back. *)
LEMMA FailingKeeps ==
    ASSUME RunInv, NEW d \in Drivers, Failing(d) PROVE RunInv'
<1>1. drv[d].pc = "failing" /\ UNCHANGED <<lockVars, storeVars, left>>
  BY DEF Failing, At
<1>2. Own(d) => KnowsInWalk(row, drv[d])
  BY <1>1 DEF RunInv, Knows, Walking
<1>3. CASE IsCancelled(row) /\ Finish(d, "cancelled")
  BY <1>1, <1>3, FinishStep DEF Answer, Answers
<1>4. CASE drv' = [drv EXCEPT ![d].pc = "retry", ![d].tries = @ + 1]
  <2> DEFINE n == drv[d].tries + 1
             x == [drv[d] EXCEPT !.pc = "retry", !.tries = n]
  <2>1. drv \in [Drivers -> Driver] /\ drv[d] \in Driver /\ left' \in Lefts
    BY <1>1 DEF RunInv, TypeOK, Lefts
  <2>0. n \in Nat
    BY <2>1 DEF Driver
  <2> HIDE DEF n
  <2>2. x \in Driver /\ x.pc = "retry" /\ x.token = drv[d].token /\ SameWork(x, drv[d])
    BY <2>0, <2>1 DEF Driver, PC, SameWork
  <2>3. drv' = [drv EXCEPT ![d] = x]
    BY <1>4, <2>1 DEF n
  <2> HIDE DEF x
  <2>4. Begun(row, x)
    BY <1>1, <2>2 DEF RunInv, Begun, SameWork
  <2>5. SavedOf(x) = SavedOf(drv[d])
    BY <2>2 DEF SavedOf, SameWork
  <2>6. Own(d) => Knows(row, x)
    BY <1>2, <2>2, <2>5 DEF Knows, KnowsInWalk, Walking, SameWork
  <2> QED
    BY <1>1, <2>1, <2>2, <2>3, <2>4, <2>6, MoveStep
<1>5. CASE Goto(d, "compensate")
  <2>1. \A x \in Driver : x.pc = "compensate" /\ SameWork(x, drv[d]) /\ Own(d) => Knows(row, x)
    BY <1>2 DEF Knows, KnowsInWalk, Walking
  <2> QED
    BY <1>1, <1>5, <2>1, GotoStep DEF PC
<1> QED
  BY <1>3, <1>4, <1>5 DEF Failing

(* After the retry delay: lost, cancelled, or loaded again. *)
LEMMA RetryKeeps ==
    ASSUME RunInv, NEW d \in Drivers, Retry(d) PROVE RunInv'
<1>1. drv[d].pc = "retry" /\ UNCHANGED <<lockVars, storeVars, left>>
  BY DEF Retry, At
<1>2. CASE Finish(d, "lost")
  BY <1>1, <1>2, FinishStep DEF Answer, Answers
<1>3. CASE IsCancelled(row) /\ Finish(d, "cancelled")
  BY <1>1, <1>3, FinishStep DEF Answer, Answers
<1>4. CASE Goto(d, "retryload")
  <2>1. Own(d) => Open(row)
    BY <1>1 DEF RunInv, Knows, Walking, KnowsInWalk
  <2>2. \A x \in Driver : x.pc = "retryload" /\ SameWork(x, drv[d]) /\ Own(d) => Knows(row, x)
    BY <2>1 DEF Knows, Walking
  <2> QED
    BY <1>1, <1>4, <2>2, GotoStep DEF PC
<1> QED
  BY <1>2, <1>3, <1>4 DEF Retry

(* Continue-as-new, under the same lock. *)
LEMMA ContinueKeeps ==
    ASSUME RunInv, NEW d \in Drivers, ContinueAsNew(d) PROVE RunInv'
<1> DEFINE x == [drv[d] EXCEPT !.pc = "load", !.chained = TRUE, !.tries = 0]
<1>1. drv[d].pc = "continue" /\ Own(d) /\ StartFreshRun(d)
  BY DEF ContinueAsNew, At
<1>2. TypeOK /\ left' \in Lefts /\ drv \in [Drivers -> Driver] /\ drv[d] \in Driver
  BY DEF RunInv, TypeOK, Lefts, ContinueAsNew
<1>3. x \in Driver /\ x.pc = "load" /\ x.token = drv[d].token /\ x.body = drv[d].body
  BY <1>2 DEF Driver, PC
<1>4. drv' = [drv EXCEPT ![d] = x]
  BY <1>2 DEF ContinueAsNew
<1> HIDE DEF x
<1>5. /\ drv' \in [Drivers -> Driver] /\ drv'[d] = x
      /\ \A e \in Drivers \ {d} : drv'[e] = drv[e]
  BY <1>2, <1>3, <1>4
<1>6. /\ row' \in Row /\ RowSound(row') /\ delivered' \subseteq Steps /\ due' \subseteq Steps
      /\ row'.status = "none" => row.status = "none"
  BY <1>1, FreshFacts DEF RunInv
<1>7. Begun(row', x) /\ Knows(row', x)
  BY <1>1, <1>3, <1>6 DEF RunInv, Begun, Knows, Walking
<1>8. UNCHANGED lockVars
  BY DEF ContinueAsNew
<1> QED
  BY <1>1, <1>2, <1>3, <1>5, <1>6, <1>7, <1>8, DriverStep

-----------------------------------------------------------------------------
(* Rollback *)

(* beginCompensation marks an open run; a cancelled one is left alone. *)
LEMMA BeginCompensationKeeps ==
    ASSUME RunInv, NEW d \in Drivers, BeginCompensation(d) PROVE RunInv'
<1>1. drv[d].pc = "compensate" /\ Own(d) /\ UNCHANGED <<lockVars, delivered, due, left>>
  BY DEF BeginCompensation, At
<1>2. TypeOK /\ left' \in Lefts /\ row \in Row /\ delivered' \subseteq Steps /\ due' \subseteq Steps
  BY <1>1 DEF RunInv, TypeOK, Lefts
<1>3. Open(row) /\ RowSound(row)
  BY <1>1 DEF RunInv, Knows
<1>4. CASE row.status \in {"pending", "running", "suspended", "compensating"}
  <2>1. row' = [row EXCEPT !.status = "compensating", !.tag = "step"] /\ Goto(d, "rollback")
    BY <1>4 DEF BeginCompensation
  <2>2. /\ drv' \in [Drivers -> Driver]
        /\ \A e \in Drivers \ {d} : drv'[e] = drv[e]
        /\ drv'[d] = [drv[d] EXCEPT !.pc = "rollback"]
    BY <1>2, <2>1, GotoLeaves DEF PC
  <2>3. drv'[d].pc = "rollback" /\ drv'[d].token = drv[d].token /\ drv'[d].body = drv[d].body
    BY <1>2, <2>2 DEF TypeOK, Driver
  <2>4. /\ row' \in Row /\ row'.status = "compensating" /\ row'.step = row.step
        /\ row'.ledger = row.ledger
    BY <1>2, <2>1 DEF Row, Status, Tag
  <2>5. RowSound(row')
    <3>1. Completed(row') = Completed(row)
      BY <2>4 DEF Completed
    <3> QED
      BY <1>3, <2>4, <3>1 DEF RowSound, FailedByStep
  <2>6. Begun(row', drv'[d]) /\ Knows(row', drv'[d])
    BY <1>1, <2>3, <2>4 DEF RunInv, Begun, Knows, Walking, KnowsInRollback
  <2>7. row'.status # "none" /\ UNCHANGED lockVars
    BY <1>1, <2>4
  <2> QED
    BY <1>1, <1>2, <2>2, <2>3, <2>4, <2>5, <2>6, <2>7, DriverStep
<1>5. CASE row.status \notin {"pending", "running", "suspended", "compensating"}
  <2> DEFINE x == [drv[d] EXCEPT !.pc = "confirm", !.ans = "failed"]
  <2>1. drv \in [Drivers -> Driver] /\ drv[d] \in Driver
    BY <1>2 DEF TypeOK
  <2>2. x \in Driver /\ x.pc = "confirm" /\ x.ans = "failed" /\ x.token = drv[d].token
        /\ x.body = drv[d].body
    BY <2>1 DEF Driver, PC, Answer
  <2>3. drv' = [drv EXCEPT ![d] = x] /\ row' = row
    BY <1>5, <2>1 DEF BeginCompensation
  <2> HIDE DEF x
  <2>4. IsCancelled(row)
    BY <1>3, <1>5 DEF Open, Active
  <2>5. Begun(row, x) /\ Knows(row, x)
    BY <1>1, <2>2, <2>4 DEF RunInv, Begun, Knows, Walking, KnowsTheEnd
  <2> QED
    BY <1>1, <1>2, <2>2, <2>3, <2>5, MoveStep DEF storeVars
<1> QED
  BY <1>4, <1>5

(* The rollback takes what is completed, compensable and not undone. *)
LEMMA LoadRollbackKeeps ==
    ASSUME RunInv, NEW d \in Drivers, LoadRollback(d) PROVE RunInv'
<1> DEFINE p == (Completed(row) \cap Compensable) \ row.ledger
           x == [drv[d] EXCEPT !.pc = "undo", !.pend = p]
<1>1. drv[d].pc = "rollback" /\ UNCHANGED <<lockVars, storeVars, left>>
  BY DEF LoadRollback, At
<1>2. drv \in [Drivers -> Driver] /\ drv[d] \in Driver /\ left' \in Lefts
  BY <1>1 DEF RunInv, TypeOK, Lefts
<1>3. p \subseteq Steps
  BY DEF Completed
<1>4. drv' = [drv EXCEPT ![d] = x]
  BY <1>2 DEF LoadRollback
<1>5. x \in Driver /\ x.pc = "undo" /\ x.pend = p /\ x.token = drv[d].token /\ x.body = drv[d].body
  BY <1>2, <1>3 DEF Driver, PC
<1> HIDE DEF x
<1>6. Begun(row, x)
  BY <1>1, <1>5 DEF RunInv, Begun
<1>7. Own(d) => Knows(row, x)
  BY <1>1, <1>5 DEF RunInv, Knows, Walking, KnowsInRollback
<1> QED
  BY <1>1, <1>2, <1>4, <1>5, <1>6, <1>7, MoveStep

(* Before each compensation the lock signal is looked at. *)
LEMMA UndoKeeps ==
    ASSUME RunInv, NEW d \in Drivers, Undo(d) PROVE RunInv'
<1>1. drv[d].pc = "undo" /\ UNCHANGED <<lockVars, storeVars, left>>
  BY DEF Undo, At
<1>2. CASE Finish(d, "lost")
  BY <1>1, <1>2, FinishStep DEF Answer, Answers
<1>3. CASE Goto(d, "record")
  <2>1. \A x \in Driver : x.pc = "record" /\ SameWork(x, drv[d]) /\ Own(d) => Knows(row, x)
    BY <1>1 DEF RunInv, Knows, Walking, KnowsInRollback, SameWork
  <2> QED
    BY <1>1, <1>3, <2>1, GotoStep DEF PC
<1> QED
  BY <1>2, <1>3 DEF Undo

(* A compensation is recorded: after those of the steps that depend on it. *)
LEMMA RecordUndoKeeps ==
    ASSUME RunInv, NEW d \in Drivers, RecordUndo(d) PROVE RunInv'
<1>1. drv[d].pc = "record" /\ Own(d) /\ UNCHANGED <<lockVars, delivered, due, left>>
  BY DEF RecordUndo, At
<1>2. PICK s \in NextToUndo(d) :
         /\ row' = [row EXCEPT !.ledger = IF row.step[s] = "none" THEN @ ELSE @ \cup {s}]
         /\ drv' = [drv EXCEPT ![d].pend = @ \ {s}, ![d].pc = "undo"]
  BY DEF RecordUndo
<1> DEFINE x == [drv[d] EXCEPT !.pend = @ \ {s}, !.pc = "undo"]
<1>3. TypeOK /\ left' \in Lefts /\ row \in Row /\ delivered' \subseteq Steps /\ due' \subseteq Steps
  BY <1>1 DEF RunInv, TypeOK, Lefts
<1>4. drv \in [Drivers -> Driver] /\ drv[d] \in Driver
  BY <1>3 DEF TypeOK
<1>5. /\ row.status = "compensating" /\ RowSound(row)
      /\ drv[d].pend = (Completed(row) \cap Compensable) \ row.ledger
  BY <1>1 DEF RunInv, Knows, KnowsInRollback
<1>6. /\ s \in drv[d].pend /\ Above(s) \cap drv[d].pend = {} /\ s \in Completed(row)
      /\ s \in Steps /\ row.step[s] = "completed"
  BY <1>5 DEF NextToUndo, Completed
<1>7. row' = [row EXCEPT !.ledger = @ \cup {s}]
  BY <1>2, <1>6
<1>8. drv' = [drv EXCEPT ![d] = x]
  BY <1>2, <1>4
<1>9. /\ x \in Driver /\ x.pc = "undo" /\ x.pend = drv[d].pend \ {s} /\ x.token = drv[d].token
      /\ x.body = drv[d].body
  BY <1>4 DEF Driver, PC
<1> HIDE DEF x
<1>10. /\ drv' \in [Drivers -> Driver] /\ drv'[d] = x
       /\ \A e \in Drivers \ {d} : drv'[e] = drv[e]
  BY <1>4, <1>8, <1>9
<1>11. /\ row' \in Row /\ row'.ledger = row.ledger \cup {s} /\ row'.status = "compensating"
       /\ row'.step = row.step
  BY <1>3, <1>5, <1>6, <1>7 DEF Row
<1>12. Completed(row') = Completed(row)
  BY <1>11 DEF Completed
<1>13. RowSound(row')
  <2>1. Above(s) \cap Completed(row) \cap Compensable \subseteq row.ledger
    BY <1>5, <1>6
  <2>2. \A t \in row.ledger : Above(t) \cap Completed(row) \cap Compensable \subseteq row.ledger
    BY <1>5 DEF RowSound
  <2>3. \A t \in row'.ledger : Above(t) \cap Completed(row') \cap Compensable \subseteq row'.ledger
    BY <1>11, <1>12, <2>1, <2>2
  <2> QED
    BY <1>11, <2>3 DEF RowSound, FailedByStep
<1>14. Begun(row', x)
  BY <1>1, <1>9, <1>11 DEF RunInv, Begun
<1>15. Knows(row', x)
  BY <1>5, <1>9, <1>11, <1>12 DEF Knows, Walking, KnowsInRollback
<1>16. row'.status # "none" /\ UNCHANGED lockVars
  BY <1>1, <1>11
<1> QED
  BY <1>1, <1>3, <1>9, <1>10, <1>11, <1>13, <1>14, <1>15, <1>16, DriverStep

(* The run fails once nothing is left to undo. *)
LEMMA FailRunKeeps ==
    ASSUME RunInv, NEW d \in Drivers, FailRun(d) PROVE RunInv'
<1>1. /\ drv[d].pc = "undo" /\ drv[d].pend = {} /\ Own(d) /\ EndAs("failed", "step")
      /\ Finish(d, "failed") /\ UNCHANGED <<lockVars, delivered, due, left>>
  BY DEF FailRun, At
<1>2. TypeOK /\ left' \in Lefts /\ row \in Row /\ delivered' \subseteq Steps /\ due' \subseteq Steps
  BY <1>1 DEF RunInv, TypeOK, Lefts
<1>3. /\ row.status = "compensating" /\ RowSound(row)
      /\ {} = (Completed(row) \cap Compensable) \ row.ledger
  BY <1>1 DEF RunInv, Knows, KnowsInRollback
<1>4. row' = [row EXCEPT !.status = "failed", !.tag = "step"]
  BY <1>1, <1>3 DEF EndAs, IsTerminal
<1>5. /\ row' \in Row /\ row'.status = "failed" /\ row'.tag = "step" /\ row'.step = row.step
      /\ row'.ledger = row.ledger
  BY <1>2, <1>4 DEF Row, Status, Tag
<1>6. Completed(row') = Completed(row)
  BY <1>5 DEF Completed
<1>7. RowSound(row')
  BY <1>3, <1>5, <1>6 DEF RowSound, FailedByStep
<1>8. /\ drv' \in [Drivers -> Driver]
      /\ \A e \in Drivers \ {d} : drv'[e] = drv[e]
      /\ drv'[d] = [drv[d] EXCEPT !.pc = "release", !.ans = "failed"]
  BY <1>1, <1>2, FinishLeaves DEF Answer
<1>9. drv'[d].pc = "release" /\ drv'[d].ans = "failed" /\ drv'[d].token = drv[d].token
  BY <1>2, <1>8 DEF TypeOK, Driver
<1>10. Begun(row', drv'[d]) /\ Knows(row', drv'[d])
  BY <1>5, <1>9 DEF Begun, Knows, Walking, Answers, IsCancelled
<1>11. row'.status # "none" /\ UNCHANGED lockVars
  BY <1>1, <1>5
<1> QED
  BY <1>1, <1>2, <1>5, <1>7, <1>8, <1>9, <1>10, <1>11, DriverStep

(* A refused write changes nothing. *)
LEMMA FencedKeeps ==
    ASSUME RunInv, NEW d \in Drivers, Fenced(d) PROVE RunInv'
<1>1. drv[d].pc \notin {"idle", "create"}
  BY DEF Fenced, AtFencedWrite, At
<1> QED
  BY <1>1, FinishStep DEF Fenced, Answer, Answers

-----------------------------------------------------------------------------
(* The world around the run *)

(* A step of nobody's: what the holder knows must still be true of the row. *)
LEMMA WorldStep ==
    ASSUME RunInv, UNCHANGED <<lockVars, drv>>,
           row' \in Row, delivered' \subseteq Steps, due' \subseteq Steps, left' \in Lefts,
           RowSound(row'), row'.status # "none" \/ row' = row,
           \A d \in Drivers : Own(d) /\ Knows(row, drv[d]) => Knows(row', drv[d])
    PROVE  RunInv'
<1>1. lock' = lock /\ issued' = issued /\ drv' = drv
  BY DEF lockVars
<1>2. TypeOK' /\ TokensKept'
  BY <1>1 DEF RunInv, TypeOK, Lefts, TokensKept, At
<1>3. \A d \in Drivers : Begun(row', drv[d])
  BY DEF RunInv, Begun
<1>4. \A d \in Drivers : Own(d)' => Knows(row', drv[d])
  BY <1>1 DEF RunInv, Own
<1> QED
  BY <1>1, <1>2, <1>3, <1>4 DEF RunInv

(* A run stored before anybody drives it. *)
LEMMA SubmitKeeps == ASSUME RunInv, Submit PROVE RunInv'
<1>1. row' \in Row /\ RowSound(row') /\ row'.status = "pending"
  BY EmptyFacts DEF Submit
<1>2. delivered' \subseteq Steps /\ due' \subseteq Steps /\ left' \in Lefts /\ UNCHANGED <<lockVars, drv>>
  BY DEF Submit, RunInv, TypeOK, Lefts
<1>3. ASSUME NEW d \in Drivers PROVE Knows(row', drv[d])
  <2>1. drv[d].pc \in {"idle", "create"}
    BY DEF RunInv, Begun, Submit
  <2> QED
    BY <2>1 DEF Knows, Walking
<1> QED
  BY <1>1, <1>2, <1>3, WorldStep

(* Time passes and signals arrive. *)
LEMMA ClockKeeps ==
    ASSUME RunInv, NEW s \in Steps, TimerDue(s) \/ DeliverSignal(s) PROVE RunInv'
<1>1. /\ row' = row /\ delivered' \subseteq Steps /\ due' \subseteq Steps
      /\ left' = left /\ UNCHANGED <<lockVars, drv>>
  BY DEF TimerDue, DeliverSignal, RunInv, TypeOK
<1>2. row' \in Row /\ RowSound(row') /\ left' \in Lefts
  BY <1>1 DEF RunInv, TypeOK, Lefts
<1> QED
  BY <1>1, <1>2, WorldStep

(* A cancel may come at every await; the holder finds out in the end. *)
LEMMA CancelKeeps == ASSUME RunInv, Cancel PROVE RunInv'
<1>1. /\ row.status \in Active /\ row' = Cancelled(row)
      /\ delivered' = delivered /\ due' = due /\ UNCHANGED <<lockVars, drv>>
  BY DEF Cancel, Active, Cancelled
<1>2. row \in Row /\ left \in Lefts /\ delivered' \subseteq Steps /\ due' \subseteq Steps
  BY <1>1 DEF RunInv, TypeOK, Lefts
<1>3. left' \in Lefts
  <2>1. left.cancels - 1 \in Nat
    BY <1>2 DEF Cancel, Lefts
  <2> QED
    BY <1>2, <2>1 DEF Cancel, Lefts
<1>4. /\ row' \in Row /\ row'.status = "failed" /\ row'.tag = "cancelled" /\ row'.run = row.run
      /\ row'.step = row.step /\ row'.ledger = row.ledger
  BY <1>1, <1>2 DEF Cancelled, Row, Status, Tag
<1>5. Completed(row') = Completed(row)
  BY <1>4 DEF Completed
<1>6. RowSound(row) /\ row.ledger = {}
  BY <1>1 DEF RunInv, RowSound, Active, FailedByStep
<1>7. RowSound(row')
  BY <1>4, <1>6 DEF RowSound, FailedByStep
<1>8. Open(row') /\ Rests(row') /\ IsCancelled(row') /\ ~IsCancelled(row)
  BY <1>1, <1>4 DEF Open, Rests, IsCancelled, Active
<1>9. ASSUME NEW d \in Drivers, Knows(row, drv[d]) PROVE Knows(row', drv[d])
  <2> DEFINE x == drv[d]
  <2>1. KnowsAtGate(row, x) => KnowsAtGate(row', x)
    <3>1. CASE row = x.view
      BY <1>1, <3>1 DEF KnowsAtGate
    <3>2. CASE x.view.status \in Active /\ row = Cancelled(x.view)
      <4>1. x.view \in Row
        BY DEF RunInv, TypeOK, Driver
      <4>2. row.status = "failed"
        BY <3>2, <4>1 DEF Cancelled, Row
      <4> QED
        BY <1>1, <4>2 DEF Active
    <3> QED
      BY <3>1, <3>2 DEF KnowsAtGate
  <2>2. KnowsInWalk(row, x) => KnowsInWalk(row', x)
    BY <1>4, <1>5, <1>8 DEF KnowsInWalk
  <2>3. ~KnowsInRollback(row, x)
    BY <1>1 DEF KnowsInRollback, Active
  <2>4. KnowsTheEnd(row, x) => KnowsTheEnd(row', x)
    BY <1>1, <1>8 DEF KnowsTheEnd, Active
  <2>5. Answers(row, x.ans) => Answers(row', x.ans)
    BY <1>1, <1>8 DEF Answers, Active
  <2> HIDE DEF x
  <2> QED
    BY <1>8, <1>9, <2>1, <2>2, <2>3, <2>4, <2>5 DEF Knows, x
<1>10. row'.status # "none"
  BY <1>4
<1> QED
  BY <1>1, <1>2, <1>3, <1>4, <1>7, <1>9, <1>10, WorldStep

-----------------------------------------------------------------------------
(* Theorems *)

(* The call of a client, of the recovery or of a scanner. *)
LEMMA CallKeeps ==
    ASSUME RunInv, NEW d \in Drivers,
           Recover(d) \/ ScanAndResume(d) \/ \E force \in BOOLEAN : Call(d, force)
    PROVE  RunInv'
<1>1. left \in Lefts
  BY DEF RunInv, TypeOK, Lefts
<1>2. ASSUME Recover(d) \/ ScanAndResume(d) PROVE RunInv'
  BY <1>1, <1>2, TakeKeeps DEF Recover, ScanAndResume
<1>3. ASSUME NEW force \in BOOLEAN, Call(d, force) PROVE RunInv'
  <2> DEFINE f == IF force THEN left.force - 1 ELSE left.force
             c == left.calls - 1
  <2>0. left.calls \in Nat /\ left.force \in Nat /\ left.calls > 0
    BY <1>1, <1>3 DEF Call, Lefts
  <2>1. f \in Nat /\ c \in Nat
    <3>1. CASE force
      <4>1. left.force > 0
        BY <1>3, <3>1 DEF Call
      <4> QED
        BY <2>0, <3>1, <4>1
    <3>2. CASE ~force
      BY <2>0, <3>2
    <3> QED
      BY <3>1, <3>2
  <2>2. left' = [left EXCEPT !.calls = c, !.force = f]
    <3>1. CASE force
      BY <1>1, <1>3, <3>1 DEF Call, Lefts
    <3>2. CASE ~force
      BY <1>1, <1>3, <3>2 DEF Call, Lefts
    <3> QED
      BY <3>1, <3>2
  <2> HIDE DEF f, c
  <2>3. left' \in Lefts
    BY <1>1, <2>1, <2>2 DEF Lefts
  <2> QED
    BY <1>3, <2>3, TakeKeeps DEF Call
<1> QED
  BY <1>2, <1>3

(* Every step of a driver by itself keeps the invariant. *)
LEMMA DriveKeeps ==
    ASSUME RunInv, NEW d \in Drivers, Drive(d) PROVE RunInv'
<1>1. ASSUME NEW s \in Steps,
             \/ WorkBody(d, s) \/ TripwireBody(d, s) \/ ContinueBody(d, s) \/ SleepBody(d, s)
             \/ SignalBody(d, s) \/ SignalPark(d, s)
             \/ Checkpoint(d, s) \/ CheckpointLost(d, s)
      PROVE  RunInv'
  BY <1>1, QuietBodyKeeps, ParkKeeps, CheckpointKeeps
<1>2. CASE \/ Create(d) \/ Load(d) \/ Reject(d) \/ ForceFresh(d) \/ Reload(d) \/ Enter(d)
           \/ StartWave(d) \/ SettleWave(d)
  BY <1>2, CreateKeeps, LoadKeeps, RejectKeeps, ForceFreshKeeps, ReloadKeeps, EnterKeeps,
     StartWaveKeeps, SettleWaveKeeps
<1>3. CASE \/ Complete(d) \/ Trip(d) \/ Confirm(d)
           \/ Failing(d) \/ Retry(d) \/ RetryLoad(d) \/ ContinueAsNew(d)
  BY <1>3, EndKeeps, ConfirmKeeps, FailingKeeps, RetryKeeps, RetryLoadKeeps, ContinueKeeps
<1>4. CASE \/ BeginCompensation(d) \/ LoadRollback(d) \/ Undo(d) \/ RecordUndo(d) \/ FailRun(d)
           \/ Fenced(d) \/ Release(d)
  BY <1>4, BeginCompensationKeeps, LoadRollbackKeeps, UndoKeeps, RecordUndoKeeps, FailRunKeeps,
     FencedKeeps, ReleaseKeeps
<1> QED
  BY <1>1, <1>2, <1>3, <1>4 DEF Drive

(* So does every step of the system. *)
LEMMA RunStep == RunInv /\ [Next]_vars => RunInv'
<1> SUFFICES ASSUME RunInv, [Next]_vars PROVE RunInv'
  OBVIOUS
<1>1. ASSUME NEW d \in Drivers, NoticeLoss(d) \/ Abandon(d) PROVE RunInv'
  <2>1. /\ drv[d].pc \notin {"idle", "release"} /\ drv' = [drv EXCEPT ![d].lost = TRUE]
        /\ UNCHANGED <<lockVars, storeVars>>
    BY <1>1 DEF NoticeLoss, Abandon
  <2>2. left' \in Lefts
    <3>1. CASE Abandon(d)
      BY <3>1, FaultTyped DEF Abandon, RunInv
    <3>2. CASE NoticeLoss(d)
      BY <3>2 DEF NoticeLoss, RunInv, TypeOK, Lefts
    <3> QED
      BY <1>1, <3>1, <3>2
  <2> QED
    BY <2>1, <2>2, LostKeeps
<1>2. ASSUME NEW d \in Drivers,
             \/ \E force \in BOOLEAN : Call(d, force)
             \/ Recover(d) \/ ScanAndResume(d)
             \/ Drive(d)
             \/ NoticeLoss(d) \/ Abandon(d) \/ Crash(d)
      PROVE  RunInv'
  BY <1>1, <1>2, CallKeeps, DriveKeeps, CrashKeeps
<1>3. ASSUME NEW s \in Steps, TimerDue(s) \/ DeliverSignal(s) PROVE RunInv'
  BY <1>3, ClockKeeps
<1>4. CASE Submit \/ Cancel \/ Expire
  BY <1>4, SubmitKeeps, CancelKeeps, ExpireKeeps
<1>5. CASE UNCHANGED vars
  BY <1>5 DEF vars, RunInv, TypeOK, TokensKept, At, Own
<1> QED
  BY <1>2, <1>3, <1>4, <1>5 DEF Next

(* The invariant of a run: what its row says by itself, and what the driver *)
(* that holds the lock knows of it at each await of orchestrate.ts.        *)
THEOREM RunInvariant == Spec => []RunInv
  BY RunInit, RunStep, PTL DEF Spec

(* dag-executor.ts, step-checkpoint.ts: the driver whose token is good knows *)
(* exactly which steps of the run are completed, and everything keeps its  *)
(* type.                                                                   *)
THEOREM HolderKnows == Spec => []HolderKnowsTheRun
<1>1. RunInv => HolderKnowsTheRun
  <2> SUFFICES ASSUME RunInv, NEW d \in Drivers, Own(d), drv[d].pc \in Walking
               PROVE  row.run = drv[d].view.run /\ Completed(row) = drv[d].done \cup Saved(d)
    BY DEF HolderKnowsTheRun, RunInv
  <2> QED
    BY DEF RunInv, Knows, KnowsInWalk, Saved, SavedOf
<1> QED
  BY <1>1, RunInvariant, PTL

(* compensation.ts: a run that failed by itself is rolled back whole, by    *)
(* however many drivers.                                                   *)
THEOREM FailedRunsAreUndone == Spec => []RollbackIsWhole
<1>1. RunInv => RollbackIsWhole
  BY DEF RunInv, RowSound, FailedByStep, RollbackIsWhole
<1> QED
  BY <1>1, RunInvariant, PTL

(* compensationOrder: the ledger grows against the order of dependency,     *)
(* through interrupted rollbacks too.                                      *)
THEOREM DependentsUndoneFirst == Spec => []UndoneInOrder
<1>1. RunInv => UndoneInOrder
  BY DEF RunInv, RowSound, UndoneInOrder
<1> QED
  BY <1>1, RunInvariant, PTL

(* orchestrate.ts: the answer of a driver whose token is good is the stored *)
(* outcome.                                                                *)
THEOREM AnswersAreStored == Spec => []AnswerIsStored
<1>1. RunInv => AnswerIsStored
  <2> SUFFICES ASSUME RunInv, NEW d \in Drivers, At(d, "release"), Own(d)
               PROVE  CASE drv[d].ans \in {"completed", "tripwire"} -> row.status = drv[d].ans
                        [] drv[d].ans = "cancelled" -> IsCancelled(row)
                        [] drv[d].ans = "failed" -> row.status = "failed" /\ ~ IsCancelled(row)
                        [] drv[d].ans = "suspended" -> row.status = "suspended" \/ IsCancelled(row)
                        [] OTHER -> TRUE
    BY DEF AnswerIsStored
  <2>1. Answers(row, drv[d].ans)
    BY DEF RunInv, Knows, At
  <2> QED
    BY <2>1 DEF Answers, Rests
<1> QED
  BY <1>1, RunInvariant, PTL

-----------------------------------------------------------------------------
(* What a step may never do *)

(* Who writes to the stored run. *)
Writes(d) ==
    \/ Create(d) \/ ForceFresh(d) \/ ContinueAsNew(d)
    \/ Complete(d) \/ Trip(d) \/ BeginCompensation(d) \/ RecordUndo(d) \/ FailRun(d)
    \/ \E s \in Steps : SleepBody(d, s) \/ SignalPark(d, s) \/ Checkpoint(d, s)

(* Every other step leaves the row alone. *)
LEMMA OnlyWritersWrite ==
    ASSUME [Next]_vars, row' # row
    PROVE  Submit \/ Cancel \/ \E d \in Drivers : Writes(d)
<1>1. ASSUME NEW d \in Drivers,
             \/ Load(d) \/ Reject(d) \/ Reload(d) \/ Enter(d) \/ StartWave(d) \/ SettleWave(d)
             \/ Confirm(d) \/ Failing(d) \/ Retry(d) \/ RetryLoad(d) \/ LoadRollback(d) \/ Undo(d)
             \/ Fenced(d) \/ Release(d) \/ NoticeLoss(d) \/ Abandon(d) \/ Crash(d)
      PROVE  row' = row
  BY <1>1 DEF Load, Reject, Reload, Enter, StartWave, SettleWave, Confirm, Failing, Retry,
     RetryLoad, LoadRollback, Undo, Fenced, Release, NoticeLoss, Abandon, Crash, storeVars
<1>2. ASSUME NEW d \in Drivers, NEW s \in Steps,
             WorkBody(d, s) \/ TripwireBody(d, s) \/ ContinueBody(d, s) \/ SignalBody(d, s)
               \/ CheckpointLost(d, s)
      PROVE  row' = row
  BY <1>2 DEF WorkBody, TripwireBody, ContinueBody, SignalBody, CheckpointLost, storeVars
<1>3. ASSUME NEW d \in Drivers,
             Recover(d) \/ ScanAndResume(d) \/ \E force \in BOOLEAN : Call(d, force)
      PROVE  row' = row
  BY <1>3 DEF Recover, ScanAndResume, Call, TryLockAndLoad, storeVars
<1>4. ASSUME Expire \/ (\E s \in Steps : TimerDue(s) \/ DeliverSignal(s)) \/ UNCHANGED vars
      PROVE  row' = row
  BY <1>4 DEF Expire, TimerDue, DeliverSignal, storeVars, vars
<1>5. ASSUME NEW d \in Drivers, Drive(d) PROVE Writes(d)
  BY <1>1, <1>2, <1>5 DEF Drive, Writes
<1> QED
  BY <1>1, <1>3, <1>4, <1>5 DEF Next

(* storage/README.md: an ended run stays ended until a fresh run takes its  *)
(* place, in workflows without sleeps and waits (suspendWorkflow looks at  *)
(* no status, so with one of those a cancelled run may be parked).         *)
THEOREM EndedRunsStayEnded ==
    ASSUME \A s \in Steps : Kind[s] \notin {"sleep", "signal"}
    PROVE  Spec => EndedStaysEnded
<1>1. ASSUME TypeOK, [Next]_vars, IsTerminal(row)
      PROVE  row'.status = row.status \/ row'.run = row.run + 1
  <2>1. row \in Row /\ row.status \in {"completed", "failed", "tripwire"}
    BY <1>1 DEF TypeOK, IsTerminal
  <2>2. ASSUME NEW d \in Drivers, ForceFresh(d) \/ ContinueAsNew(d)
        PROVE  row'.status = row.status \/ row'.run = row.run + 1
    BY <2>2 DEF ForceFresh, ContinueAsNew, StartFreshRun, storeVars, Empty
  <2>3. ASSUME NEW d \in Drivers, NEW s \in Steps, Checkpoint(d, s) PROVE row'.status = row.status
    BY <2>1, <2>3 DEF Checkpoint, Row
  <2>4. ASSUME NEW d \in Drivers,
               Complete(d) \/ Trip(d) \/ BeginCompensation(d) \/ FailRun(d) \/ Create(d)
        PROVE  row' = row
    BY <1>1, <2>1, <2>4 DEF Complete, Trip, BeginCompensation, FailRun, Create, EndAs
  <2>5. ASSUME NEW d \in Drivers, RecordUndo(d) PROVE row'.status = row.status
    BY <2>1, <2>5 DEF RecordUndo, Row
  <2>6. ASSUME NEW d \in Drivers, NEW s \in Steps, SleepBody(d, s) \/ SignalPark(d, s) PROVE FALSE
    BY <2>6 DEF SleepBody, SignalPark, InBody
  <2>7. ASSUME Submit \/ Cancel PROVE FALSE
    BY <2>1, <2>7 DEF Submit, Cancel
  <2>8. ASSUME NEW d \in Drivers, Writes(d) PROVE row'.status = row.status \/ row'.run = row.run + 1
    BY <2>2, <2>3, <2>4, <2>5, <2>6, <2>8 DEF Writes
  <2> QED
    BY <1>1, <2>7, <2>8, OnlyWritersWrite
<1>2. RunInv /\ [Next]_vars => [IsTerminal(row) => row'.status = row.status \/ row'.run = row.run + 1]_vars
  BY <1>1 DEF RunInv
<1> QED
  BY <1>2, RunInvariant, PTL DEF Spec, EndedStaysEnded

-----------------------------------------------------------------------------
(* Dependents *)

(* Above(s) has the direct dependents of s, and the direct dependents of   *)
(* each of its members.                                                    *)
LEMMA AboveCloses ==
    ASSUME NEW s \in Steps
    PROVE  /\ Dependents(s) \subseteq Above(s)
           /\ \A t \in Above(s) : Dependents(t) \subseteq Above(s)
<1>1. \A t : Dependents(t) \subseteq Steps
  BY DEF Dependents
<1>2. \A C \in ClosedAbove(s) : Dependents(s) \subseteq C /\ \A t \in C : Dependents(t) \subseteq C
  BY DEF ClosedAbove
<1> QED
  BY <1>1, <1>2 DEF Above

(* It is the least such set. *)
LEMMA AboveIsLeast ==
    ASSUME NEW s \in Steps, NEW C \in SUBSET Steps,
           Dependents(s) \subseteq C, \A t \in C : Dependents(t) \subseteq C
    PROVE  Above(s) \subseteq C
<1>1. C \in ClosedAbove(s)
  BY DEF ClosedAbove
<1> QED
  BY <1>1 DEF Above

(* A set of steps that has the dependencies of its members. *)
DownClosed(K) == \A t \in K : DependsOn[t] \subseteq K

-----------------------------------------------------------------------------
(* The moves of a driver, each as a relation between its local state before *)
(* and after, x and y, and the stored run before and after, r and q; own:  *)
(* its token is good.                                                      *)

Keeps(x, y) == y.token = x.token /\ y.lost = x.lost
Stays(x, y) == Keeps(x, y) /\ y.view = x.view /\ y.done = x.done /\ y.body = x.body

Loads(x, y, r, q) ==
    /\ Keeps(x, y) /\ y.body = x.body /\ y.view = r /\ q = r
    /\ x.pc \in {"create", "load"} /\ y.pc = "gate"

Creates(x, y, r, q) ==
    /\ Stays(x, y) /\ r.status = "none" /\ q = Empty("pending", 1)
    /\ x.pc = "create" /\ y.pc = "load"

Restarts(x, y, r, q) ==
    /\ Stays(x, y)
    /\ q = IF r.run = x.view.run THEN Empty("pending", r.run + 1) ELSE r
    /\ \/ x.pc = "gate" /\ IsTerminal(x.view) /\ y.pc = "reload"
       \/ x.pc = "continue" /\ y.pc = "load"

Enters(x, y, r, q) ==
    /\ Keeps(x, y) /\ y.body = x.body /\ q = r
    /\ \/ x.pc = "gate" /\ ~IsTerminal(x.view) /\ y.view = x.view
       \/ x.pc \in {"reload", "retryload"} /\ y.view = r
    /\ y.pc = "rollback" \/ (y.pc = "wave" /\ y.done = Completed(y.view))

Onward(x, y, r, q) ==
    /\ Stays(x, y) /\ q = r
    /\ \/ x.pc = "wave" /\ y.pc = "complete"
       \/ x.pc = "failing" /\ y.pc \in {"retry", "compensate"}
       \/ x.pc = "retry" /\ y.pc = "retryload"
       \/ x.pc = "compensate" /\ y.pc = "confirm" /\ r.status \in {"none", "completed", "failed", "tripwire"}
       \/ x.pc = "rollback" /\ y.pc = "undo"
       \/ x.pc = "undo" /\ y.pc = "record"

Finishes(x, y, r, q, own) ==
    /\ Stays(x, y) /\ q = r /\ y.pc = "release"
    /\ \/ x.pc = "gate" /\ IsTerminal(x.view)
       \/ x.pc = "confirm"
       \/ x.pc = "wave" /\ ~x.first /\ x.seen
       \/ x.pc \in {"failing", "retry"} /\ IsCancelled(r)
       \/ x.pc \notin {"idle", "release"} /\ (x.lost \/ ~own) /\ y.ans = "lost"
       \/ x.pc = "bodies" /\ (\E s \in Steps : x.body[s] = "unsaved") /\ y.ans = "lost"

(* The run ends, or its rollback goes on: its steps stay as they are. *)
Ends(x, y, r, q) ==
    /\ Stays(x, y) /\ q.step = r.step /\ q.fired = r.fired /\ q.run = r.run
    /\ \/ x.pc \in {"complete", "trip"} /\ y.pc = "confirm" /\ IsTerminal(q)
       \/ x.pc = "undo" /\ y.pc = "release" /\ IsTerminal(q)
       \/ x.pc = "compensate" /\ y.pc = "rollback"
       \/ x.pc = "record" /\ y.pc = "undo"

StartsWave(x, y, r, q) ==
    /\ Keeps(x, y) /\ y.view = x.view /\ y.done = x.done /\ q = r
    /\ x.pc = "wave" /\ y.pc = "bodies"
    /\ \A s \in Steps :
         y.body[s] = IF s \notin x.done /\ DependsOn[s] \subseteq x.done THEN "run" ELSE "off"

(* What the body of a step that writes nothing may come to. *)
Results(s) ==
    CASE Kind[s] = "work" -> IF s \in CanFail THEN {"completed", "failed"} ELSE {"completed"}
      [] Kind[s] = "tripwire" -> {"completed", "fired"}
      [] Kind[s] = "continue" -> {"completed", "continued"}
      [] Kind[s] = "sleep" -> {"completed", "suspended"}
      [] Kind[s] = "signal" -> {"completed", "failed", "unsignalled"}

(* The body of step s settles, parks or is checkpointed. *)
Settling(x, y, r, q, own, s) ==
    \/ /\ q = r /\ x.body[s] = "run" /\ y.body[s] \in Results(s)
       /\ y.body[s] = "suspended" => x.view.step[s] = "sleeping"
    \/ /\ x.body[s] \in {"run", "unsignalled"} /\ Kind[s] \in {"sleep", "signal"}
       /\ y.body[s] = "suspended" /\ own
       /\ \E v \in Parked : q.step = [r.step EXCEPT ![s] = v]
       /\ q.status = "suspended" /\ q.fired = r.fired \ {s} /\ q.run = r.run
    \/ /\ x.body[s] \in {"run", "unsignalled"} /\ y.body[s] = "failed" /\ ~own /\ q = r
    \/ /\ x.body[s] \in {"completed", "fired", "failed"} /\ own
       /\ y.body[s] = CASE x.body[s] = "completed" -> "saved" [] x.body[s] = "fired" -> "savedFired"
                        [] x.body[s] = "failed" -> "savedFailed"
       /\ q.step = [r.step EXCEPT ![s] = IF x.body[s] = "failed" THEN "failed" ELSE "completed"]
       /\ q.status = IF r.status = "pending" THEN "running" ELSE r.status
       /\ q.fired = (IF x.body[s] = "fired" THEN r.fired \cup {s} ELSE r.fired) /\ q.run = r.run
    \/ /\ x.body[s] \in {"completed", "fired", "failed"} /\ y.body[s] = "unsaved" /\ q = r

SettlesBody(x, y, r, q, own) ==
    /\ Keeps(x, y) /\ y.view = x.view /\ y.done = x.done
    /\ x.pc = "bodies" /\ y.pc = "bodies"
    /\ \E s \in Steps : /\ Settling(x, y, r, q, own, s)
                        /\ \A t \in Steps \ {s} : y.body[t] = x.body[t]

Has(x, b) == \E s \in Steps : x.body[s] = b

SettlesWave(x, y, r, q) ==
    /\ Keeps(x, y) /\ y.view = x.view /\ q = r /\ y.body = Off
    /\ y.done = x.done \cup SavedOf(x)
    /\ x.pc = "bodies"
    /\ \A s \in Steps : x.body[s] \in {"off", "suspended", "continued", "saved", "savedFired", "savedFailed"}
    /\ \/ y.pc = "failing" /\ Has(x, "savedFailed")
       \/ y.pc = "continue" /\ Has(x, "continued")
       \/ y.pc = "release" /\ Has(x, "suspended")
       \/ ~Has(x, "savedFailed") /\ ~Has(x, "continued") /\ ~Has(x, "suspended")
            /\ y.pc = IF Has(x, "savedFired") THEN "trip" ELSE "wave"

Move(x, y, r, q, own) ==
    \/ Loads(x, y, r, q) \/ Creates(x, y, r, q) \/ Restarts(x, y, r, q) \/ Enters(x, y, r, q)
    \/ Onward(x, y, r, q) \/ Finishes(x, y, r, q, own) \/ Ends(x, y, r, q)
    \/ StartsWave(x, y, r, q) \/ SettlesBody(x, y, r, q, own) \/ SettlesWave(x, y, r, q)

(* Driver d moves, and nobody else does. *)
Moves(d) ==
    /\ Move(drv[d], drv'[d], row, row', Own(d))
    /\ drv'[d] \in Driver /\ \A e \in Drivers \ {d} : drv'[e] = drv[e]
    /\ UNCHANGED lockVars

(* A driver whose local state becomes y. *)
LEMMA Becomes ==
    ASSUME TypeOK, NEW d \in Drivers, NEW y \in Driver, drv' = [drv EXCEPT ![d] = y],
           UNCHANGED lockVars, Move(drv[d], y, row, row', Own(d))
    PROVE  Moves(d)
<1>1. drv \in [Drivers -> Driver]
  BY DEF TypeOK
<1>2. drv'[d] = y /\ \A e \in Drivers \ {d} : drv'[e] = drv[e]
  BY <1>1
<1> QED
  BY <1>2 DEF Moves

(* A driver that goes to its next await. *)
LEMMA GotoMoves ==
    ASSUME TypeOK, NEW d \in Drivers, NEW pc \in PC, Goto(d, pc), UNCHANGED lockVars,
           \A y \in Driver : Stays(drv[d], y) /\ y.pc = pc => Move(drv[d], y, row, row', Own(d))
    PROVE  Moves(d)
<1> DEFINE y == [drv[d] EXCEPT !.pc = pc]
<1>1. drv \in [Drivers -> Driver] /\ drv[d] \in Driver
  BY DEF TypeOK
<1>2. y \in Driver /\ Stays(drv[d], y) /\ y.pc = pc
  BY <1>1 DEF Driver, Stays, Keeps
<1>3. drv' = [drv EXCEPT ![d] = y]
  BY <1>1 DEF Goto
<1> HIDE DEF y
<1> QED
  BY <1>2, <1>3, Becomes

(* A driver that is done with the run. *)
LEMMA FinishMoves ==
    ASSUME TypeOK, NEW d \in Drivers, NEW a \in Answer, Finish(d, a), UNCHANGED lockVars,
           \A y \in Driver : Stays(drv[d], y) /\ y.pc = "release" /\ y.ans = a
                            => Move(drv[d], y, row, row', Own(d))
    PROVE  Moves(d)
<1> DEFINE y == [drv[d] EXCEPT !.pc = "release", !.ans = a]
<1>1. drv \in [Drivers -> Driver] /\ drv[d] \in Driver
  BY DEF TypeOK
<1>2. y \in Driver /\ Stays(drv[d], y) /\ y.pc = "release" /\ y.ans = a
  BY <1>1 DEF Driver, PC, Stays, Keeps
<1>3. drv' = [drv EXCEPT ![d] = y]
  BY <1>1 DEF Finish
<1> HIDE DEF y
<1> QED
  BY <1>2, <1>3, Becomes

(* The row is loaded, created or started afresh. *)
LEMMA LoadMoves ==
    ASSUME TypeOK, NEW d \in Drivers, Load(d) \/ Create(d) \/ ForceFresh(d) \/ ContinueAsNew(d)
    PROVE  Moves(d)
<1> DEFINE y == [drv[d] EXCEPT !.pc = "gate", !.view = row]
<1>1. drv \in [Drivers -> Driver] /\ drv[d] \in Driver /\ row \in Row
  BY DEF TypeOK
<1>2. y \in Driver /\ Keeps(drv[d], y) /\ y.body = drv[d].body /\ y.view = row /\ y.pc = "gate"
  BY <1>1 DEF Driver, PC, Keeps
<1> HIDE DEF y
<1>3. CASE At(d, "create") /\ row.status = "none" /\ Create(d)
  <2>1. /\ At(d, "create") /\ row.status = "none" /\ row' = Empty("pending", 1)
        /\ Goto(d, "load") /\ UNCHANGED lockVars
    BY <1>3 DEF Create
  <2>2. \A z \in Driver : Stays(drv[d], z) /\ z.pc = "load" => Move(drv[d], z, row, row', Own(d))
    BY <2>1 DEF Move, Creates, At
  <2> QED
    BY <2>1, <2>2, GotoMoves DEF PC
<1>4. CASE Load(d) \/ (Create(d) /\ row.status # "none")
  <2>1. /\ drv[d].pc \in {"create", "load"} /\ drv' = [drv EXCEPT ![d] = y] /\ row' = row
        /\ UNCHANGED lockVars
    BY <1>1, <1>4 DEF Load, Create, At, storeVars, y
  <2>2. Move(drv[d], y, row, row', Own(d))
    BY <1>2, <2>1 DEF Move, Loads
  <2> QED
    BY <1>2, <2>1, <2>2, Becomes
<1>5. StartFreshRun(d) => row' = IF row.run = drv[d].view.run THEN Empty("pending", row.run + 1) ELSE row
  BY DEF StartFreshRun, storeVars
<1>6. CASE ForceFresh(d)
  <2>1. /\ At(d, "gate") /\ IsTerminal(drv[d].view) /\ Goto(d, "reload") /\ UNCHANGED lockVars
        /\ StartFreshRun(d)
    BY <1>6 DEF ForceFresh
  <2>2. \A z \in Driver : Stays(drv[d], z) /\ z.pc = "reload" => Move(drv[d], z, row, row', Own(d))
    BY <1>5, <2>1 DEF Move, Restarts, At
  <2> QED
    BY <2>1, <2>2, GotoMoves DEF PC
<1>7. CASE ContinueAsNew(d)
  <2> DEFINE z == [drv[d] EXCEPT !.pc = "load", !.chained = TRUE, !.tries = 0]
  <2>1. z \in Driver /\ Stays(drv[d], z) /\ z.pc = "load"
    BY <1>1 DEF Driver, PC, Stays, Keeps
  <2>2. At(d, "continue") /\ drv' = [drv EXCEPT ![d] = z] /\ UNCHANGED lockVars /\ StartFreshRun(d)
    BY <1>1, <1>7 DEF ContinueAsNew
  <2> HIDE DEF z
  <2>3. Move(drv[d], z, row, row', Own(d))
    BY <1>5, <2>1, <2>2 DEF Move, Restarts, At
  <2> QED
    BY <2>1, <2>2, <2>3, Becomes
<1> QED
  BY <1>3, <1>4, <1>6, <1>7 DEF Create

(* The run is entered. *)
LEMMA EnterMoves ==
    ASSUME TypeOK, NEW d \in Drivers, Enter(d) \/ Reload(d) \/ RetryLoad(d)
    PROVE  Moves(d)
<1>1. drv \in [Drivers -> Driver] /\ drv[d] \in Driver /\ row \in Row /\ drv[d].view \in Row
  BY DEF TypeOK, Driver
<1>2. row' = row /\ UNCHANGED lockVars
  BY DEF Enter, Reload, RetryLoad, storeVars
<1>3. PICK v \in Row :
         /\ \/ At(d, "gate") /\ ~IsTerminal(drv[d].view) /\ v = drv[d].view
            \/ drv[d].pc \in {"reload", "retryload"} /\ v = row
         /\ \/ drv' = [drv EXCEPT ![d] = EnterDag(d, v)]
            \/ drv' = [drv EXCEPT ![d] = [drv[d] EXCEPT !.view = v, !.pc = "rollback"]]
  <2>1. CASE Enter(d)
    BY <1>1, <2>1 DEF Enter, Proceed
  <2>2. CASE Reload(d)
    BY <1>1, <2>2 DEF Reload, Proceed, At
  <2>3. CASE RetryLoad(d)
    BY <1>1, <2>3 DEF RetryLoad, At
  <2> QED
    BY <2>1, <2>2, <2>3
<1>4. CASE drv' = [drv EXCEPT ![d] = EnterDag(d, v)]
  <2> DEFINE y == EnterDag(d, v)
  <2>1. Completed(v) \subseteq Steps
    BY DEF Completed
  <2>2. /\ y \in Driver /\ Keeps(drv[d], y) /\ y.body = drv[d].body /\ y.view = v /\ y.pc = "wave"
        /\ y.done = Completed(v)
    BY <1>1, <2>1 DEF EnterDag, Driver, PC, Keeps
  <2> HIDE DEF y
  <2>3. Move(drv[d], y, row, row', Own(d))
    BY <1>2, <1>3, <2>2 DEF Move, Enters, At
  <2> QED
    BY <1>2, <1>4, <2>2, <2>3, Becomes DEF y
<1>5. CASE drv' = [drv EXCEPT ![d] = [drv[d] EXCEPT !.view = v, !.pc = "rollback"]]
  <2> DEFINE y == [drv[d] EXCEPT !.view = v, !.pc = "rollback"]
  <2>1. y \in Driver /\ Keeps(drv[d], y) /\ y.body = drv[d].body /\ y.view = v /\ y.pc = "rollback"
    BY <1>1 DEF Driver, PC, Keeps
  <2>2. drv' = [drv EXCEPT ![d] = y]
    BY <1>5
  <2> HIDE DEF y
  <2>3. Move(drv[d], y, row, row', Own(d))
    BY <1>2, <1>3, <2>1 DEF Move, Enters, At
  <2> QED
    BY <1>2, <2>1, <2>2, <2>3, Becomes
<1> QED
  BY <1>3, <1>4, <1>5

(* Nothing is written: the run is left, or its next await is reached. *)
LEMMA OnwardMoves ==
    ASSUME TypeOK, NEW d \in Drivers,
           \/ Reject(d) \/ Confirm(d) \/ Failing(d) \/ Retry(d) \/ Undo(d) \/ Fenced(d)
           \/ LoadRollback(d)
    PROVE  Moves(d)
<1>1. drv \in [Drivers -> Driver] /\ drv[d] \in Driver /\ row \in Row /\ drv[d].view \in Row
  BY DEF TypeOK, Driver
<1>2. row' = row /\ UNCHANGED lockVars
  BY DEF Reject, Confirm, Failing, Retry, Undo, Fenced, LoadRollback, storeVars
<1>3. ASSUME NEW pc \in PC, Goto(d, pc),
             \A y \in Driver : Stays(drv[d], y) /\ y.pc = pc => Onward(drv[d], y, row, row)
      PROVE  Moves(d)
  <2>1. \A y \in Driver : Stays(drv[d], y) /\ y.pc = pc => Move(drv[d], y, row, row', Own(d))
    BY <1>2, <1>3 DEF Move
  <2> QED
    BY <1>2, <1>3, <2>1, GotoMoves
<1>4. ASSUME NEW a \in Answer, Finish(d, a),
             \A y \in Driver : Stays(drv[d], y) /\ y.pc = "release" /\ y.ans = a
                              => Finishes(drv[d], y, row, row, Own(d))
      PROVE  Moves(d)
  <2>1. \A y \in Driver : Stays(drv[d], y) /\ y.pc = "release" /\ y.ans = a
                         => Move(drv[d], y, row, row', Own(d))
    BY <1>2, <1>4 DEF Move
  <2> QED
    BY <1>2, <1>4, <2>1, FinishMoves
<1>5. CASE Reject(d)
  <2>1. At(d, "gate") /\ IsTerminal(drv[d].view) /\ Finish(d, StoredOutcome(drv[d].view))
    BY <1>5 DEF Reject
  <2>2. StoredOutcome(drv[d].view) \in Answer
    BY <1>1, <2>1 DEF StoredOutcome, IsTerminal, Answer
  <2> QED
    BY <1>4, <2>1, <2>2 DEF Finishes, At
<1>6. CASE Confirm(d)
  <2> DEFINE a == IF IsCancelled(row) THEN "cancelled" ELSE drv[d].ans
  <2>1. At(d, "confirm") /\ Finish(d, a)
    BY <1>6 DEF Confirm
  <2>2. a \in Answer
    BY <1>1 DEF Driver, Answer
  <2> HIDE DEF a
  <2> QED
    BY <1>4, <2>1, <2>2 DEF Finishes, At
<1>7. CASE Failing(d)
  <2>1. CASE IsCancelled(row)
    <3>1. At(d, "failing") /\ Finish(d, "cancelled")
      BY <1>7, <2>1 DEF Failing
    <3> QED
      BY <1>4, <2>1, <3>1 DEF Finishes, At, Answer
  <2>2. CASE ~IsCancelled(row) /\ drv[d].tries < MaxRetries
    <3> DEFINE n == drv[d].tries + 1
               y == [drv[d] EXCEPT !.pc = "retry", !.tries = n]
    <3>1. n \in Nat
      BY <1>1 DEF Driver
    <3>2. At(d, "failing") /\ drv' = [drv EXCEPT ![d] = y]
      BY <1>1, <1>7, <2>2 DEF Failing
    <3> HIDE DEF n
    <3>3. y \in Driver /\ Stays(drv[d], y) /\ y.pc = "retry"
      BY <1>1, <3>1 DEF Driver, PC, Stays, Keeps
    <3> HIDE DEF y
    <3>4. Move(drv[d], y, row, row', Own(d))
      BY <1>2, <3>2, <3>3 DEF Move, Onward, At
    <3> QED
      BY <1>2, <3>2, <3>3, <3>4, Becomes
  <2>3. CASE ~IsCancelled(row) /\ ~(drv[d].tries < MaxRetries)
    <3>1. At(d, "failing") /\ Goto(d, "compensate")
      BY <1>7, <2>3 DEF Failing
    <3> QED
      BY <1>3, <3>1 DEF Onward, At, PC
  <2> QED
    BY <2>1, <2>2, <2>3
<1>8. CASE Retry(d)
  <2>1. At(d, "retry")
    BY <1>8 DEF Retry
  <2>2. CASE drv[d].lost
    <3>1. Finish(d, "lost")
      BY <1>8, <2>2 DEF Retry
    <3> QED
      BY <1>4, <2>1, <2>2, <3>1 DEF Finishes, At, Answer
  <2>3. CASE ~drv[d].lost /\ IsCancelled(row)
    <3>1. Finish(d, "cancelled")
      BY <1>8, <2>3 DEF Retry
    <3> QED
      BY <1>4, <2>1, <2>3, <3>1 DEF Finishes, At, Answer
  <2>4. CASE ~drv[d].lost /\ ~IsCancelled(row)
    <3>1. Goto(d, "retryload")
      BY <1>8, <2>4 DEF Retry
    <3> QED
      BY <1>3, <2>1, <3>1 DEF Onward, At, PC
  <2> QED
    BY <2>2, <2>3, <2>4
<1>9. CASE Undo(d)
  <2>1. At(d, "undo")
    BY <1>9 DEF Undo
  <2>2. CASE drv[d].lost
    <3>1. Finish(d, "lost")
      BY <1>9, <2>2 DEF Undo
    <3> QED
      BY <1>4, <2>1, <2>2, <3>1 DEF Finishes, At, Answer
  <2>3. CASE ~drv[d].lost
    <3>1. Goto(d, "record")
      BY <1>9, <2>3 DEF Undo
    <3> QED
      BY <1>3, <2>1, <3>1 DEF Onward, At, PC
  <2> QED
    BY <2>2, <2>3
<1>10. CASE Fenced(d)
  <2>1. AtFencedWrite(d) /\ ~Own(d) /\ Finish(d, "lost")
    BY <1>10 DEF Fenced
  <2>2. drv[d].pc \notin {"idle", "release"}
    BY <2>1 DEF AtFencedWrite, At
  <2> QED
    BY <1>4, <2>1, <2>2 DEF Finishes, Answer
<1>11. CASE LoadRollback(d)
  <2> DEFINE p == (Completed(row) \cap Compensable) \ row.ledger
             y == [drv[d] EXCEPT !.pc = "undo", !.pend = p]
  <2>1. p \subseteq Steps
    BY DEF Completed
  <2>2. At(d, "rollback") /\ drv' = [drv EXCEPT ![d] = y]
    BY <1>1, <1>11 DEF LoadRollback
  <2> HIDE DEF p
  <2>3. y \in Driver /\ Stays(drv[d], y) /\ y.pc = "undo"
    BY <1>1, <2>1 DEF Driver, PC, Stays, Keeps
  <2> HIDE DEF y
  <2>4. Move(drv[d], y, row, row', Own(d))
    BY <1>2, <2>2, <2>3 DEF Move, Onward, At
  <2> QED
    BY <1>2, <2>2, <2>3, <2>4, Becomes
<1> QED
  BY <1>5, <1>6, <1>7, <1>8, <1>9, <1>10, <1>11

(* The run is ended, or its rollback begins or goes on. *)
LEMMA EndMoves ==
    ASSUME TypeOK, NEW d \in Drivers,
           \/ Complete(d) \/ Trip(d) \/ FailRun(d) \/ BeginCompensation(d) \/ RecordUndo(d)
    PROVE  Moves(d)
<1>1. drv \in [Drivers -> Driver] /\ drv[d] \in Driver /\ row \in Row
  BY DEF TypeOK
<1>2. UNCHANGED lockVars
  BY DEF Complete, Trip, FailRun, BeginCompensation, RecordUndo
<1>3. ASSUME NEW st \in {"completed", "tripwire", "failed"}, NEW tag, EndAs(st, tag)
      PROVE  row'.step = row.step /\ row'.fired = row.fired /\ row'.run = row.run /\ IsTerminal(row')
  BY <1>1, <1>3 DEF EndAs, IsTerminal, Row
<1>4. ASSUME NEW a \in Answer, NEW pc \in PC,
             drv' = [drv EXCEPT ![d].pc = pc, ![d].ans = a],
             \A y \in Driver : Stays(drv[d], y) /\ y.pc = pc => Move(drv[d], y, row, row', Own(d))
      PROVE  Moves(d)
  <2> DEFINE y == [drv[d] EXCEPT !.pc = pc, !.ans = a]
  <2>1. drv' = [drv EXCEPT ![d] = y]
    BY <1>1, <1>4
  <2>2. y \in Driver /\ Stays(drv[d], y) /\ y.pc = pc
    BY <1>1, <1>4 DEF Driver, Stays, Keeps
  <2> HIDE DEF y
  <2> QED
    BY <1>2, <1>4, <2>1, <2>2, Becomes
<1>5. CASE Complete(d) \/ Trip(d)
  <2>1. PICK a \in {"completed", "tripwire"} :
           /\ drv[d].pc \in {"complete", "trip"} /\ EndAs(a, row.tag)
           /\ drv' = [drv EXCEPT ![d].pc = "confirm", ![d].ans = a]
    BY <1>5 DEF Complete, Trip, At
  <2>2. \A y \in Driver : Stays(drv[d], y) /\ y.pc = "confirm" => Move(drv[d], y, row, row', Own(d))
    BY <1>3, <2>1 DEF Move, Ends
  <2> QED
    BY <1>4, <2>1, <2>2 DEF Answer, PC
<1>6. CASE FailRun(d)
  <2>1. At(d, "undo") /\ EndAs("failed", "step") /\ Finish(d, "failed")
    BY <1>6 DEF FailRun
  <2>2. \A y \in Driver : Stays(drv[d], y) /\ y.pc = "release" /\ y.ans = "failed"
                         => Move(drv[d], y, row, row', Own(d))
    BY <1>3, <2>1 DEF Move, Ends, At
  <2> QED
    BY <1>2, <2>1, <2>2, FinishMoves DEF Answer
<1>7. CASE BeginCompensation(d) /\ row.status \in {"pending", "running", "suspended", "compensating"}
  <2>1. /\ At(d, "compensate") /\ Goto(d, "rollback")
        /\ row' = [row EXCEPT !.status = "compensating", !.tag = "step"]
    BY <1>7 DEF BeginCompensation
  <2>2. row'.step = row.step /\ row'.fired = row.fired /\ row'.run = row.run
    BY <1>1, <2>1 DEF Row
  <2>3. \A y \in Driver : Stays(drv[d], y) /\ y.pc = "rollback" => Move(drv[d], y, row, row', Own(d))
    BY <2>1, <2>2 DEF Move, Ends, At
  <2> QED
    BY <1>2, <2>1, <2>3, GotoMoves DEF PC
<1>8. CASE BeginCompensation(d) /\ row.status \notin {"pending", "running", "suspended", "compensating"}
  <2>1. At(d, "compensate") /\ row' = row /\ drv' = [drv EXCEPT ![d].pc = "confirm", ![d].ans = "failed"]
    BY <1>8 DEF BeginCompensation
  <2>2. row.status \in {"none", "completed", "failed", "tripwire"}
    BY <1>1, <1>8 DEF Row, Status
  <2>3. \A y \in Driver : Stays(drv[d], y) /\ y.pc = "confirm" => Move(drv[d], y, row, row', Own(d))
    BY <2>1, <2>2 DEF Move, Onward, At
  <2> QED
    BY <1>4, <2>1, <2>3 DEF PC, Answer
<1>9. CASE RecordUndo(d)
  <2>1. PICK s \in NextToUndo(d) :
           /\ row' = [row EXCEPT !.ledger = IF row.step[s] = "none" THEN @ ELSE @ \cup {s}]
           /\ drv' = [drv EXCEPT ![d].pend = @ \ {s}, ![d].pc = "undo"]
    BY <1>9 DEF RecordUndo
  <2> DEFINE y == [drv[d] EXCEPT !.pend = @ \ {s}, !.pc = "undo"]
  <2>2. drv' = [drv EXCEPT ![d] = y] /\ At(d, "record")
    BY <1>1, <1>9, <2>1 DEF RecordUndo
  <2>3. y \in Driver /\ Stays(drv[d], y) /\ y.pc = "undo"
    BY <1>1 DEF Driver, PC, Stays, Keeps
  <2>4. row'.step = row.step /\ row'.fired = row.fired /\ row'.run = row.run
    BY <1>1, <2>1 DEF Row
  <2> HIDE DEF y
  <2>5. Move(drv[d], y, row, row', Own(d))
    BY <2>2, <2>3, <2>4 DEF Move, Ends, At
  <2> QED
    BY <1>2, <2>2, <2>3, <2>5, Becomes
<1> QED
  BY <1>5, <1>6, <1>7, <1>8, <1>9

(* The head of the wave loop. *)
LEMMA StartWaveMoves == ASSUME TypeOK, NEW d \in Drivers, StartWave(d) PROVE Moves(d)
<1>1. drv \in [Drivers -> Driver] /\ drv[d] \in Driver
  BY DEF TypeOK
<1>2. drv[d].pc = "wave" /\ row' = row /\ UNCHANGED lockVars
  BY DEF StartWave, At, storeVars
<1>3. CASE Goto(d, "complete")
  <2>1. \A y \in Driver : Stays(drv[d], y) /\ y.pc = "complete" => Move(drv[d], y, row, row', Own(d))
    BY <1>2 DEF Move, Onward
  <2> QED
    BY <1>2, <1>3, <2>1, GotoMoves DEF PC
<1>4. CASE (drv[d].lost /\ Finish(d, "lost")) \/ (~drv[d].first /\ drv[d].seen /\ Finish(d, "cancelled"))
  <2>1. CASE drv[d].lost /\ Finish(d, "lost")
    <3>1. \A y \in Driver : Stays(drv[d], y) /\ y.pc = "release" /\ y.ans = "lost"
                           => Move(drv[d], y, row, row', Own(d))
      BY <1>2, <2>1 DEF Move, Finishes
    <3> QED
      BY <1>2, <2>1, <3>1, FinishMoves DEF Answer
  <2>2. CASE ~drv[d].first /\ drv[d].seen /\ Finish(d, "cancelled")
    <3>1. \A y \in Driver : Stays(drv[d], y) /\ y.pc = "release" /\ y.ans = "cancelled"
                           => Move(drv[d], y, row, row', Own(d))
      BY <1>2, <2>2 DEF Move, Finishes
    <3> QED
      BY <1>2, <2>2, <3>1, FinishMoves DEF Answer
  <2> QED
    BY <1>4, <2>1, <2>2
<1>5. CASE drv' = [drv EXCEPT ![d].pc = "bodies", ![d].seen = FALSE,
                     ![d].body = [s \in Steps |-> IF s \in Ready(d) THEN "run" ELSE "off"]]
  <2> DEFINE b == [s \in Steps |-> IF s \in Ready(d) THEN "run" ELSE "off"]
             y == [drv[d] EXCEPT !.pc = "bodies", !.seen = FALSE, !.body = b]
  <2>1. b \in [Steps -> BodyState] /\ \A s \in Steps : b[s] = IF s \in Ready(d) THEN "run" ELSE "off"
    BY DEF BodyState
  <2>2. drv' = [drv EXCEPT ![d] = y]
    BY <1>1, <1>5
  <2> HIDE DEF b
  <2>3. y \in Driver /\ Keeps(drv[d], y) /\ y.pc = "bodies" /\ y.view = drv[d].view /\ y.done = drv[d].done
        /\ y.body = b
    BY <1>1, <2>1 DEF Driver, PC, Keeps
  <2> HIDE DEF y
  <2>4. \A s \in Steps : y.body[s] = IF s \notin drv[d].done /\ DependsOn[s] \subseteq drv[d].done
                                       THEN "run" ELSE "off"
    BY <2>1, <2>3 DEF Ready
  <2>5. Move(drv[d], y, row, row', Own(d))
    BY <1>2, <2>3, <2>4 DEF Move, StartsWave
  <2> QED
    BY <1>2, <2>2, <2>3, <2>5, Becomes
<1> QED
  BY <1>3, <1>4, <1>5 DEF StartWave

(* One body of the wave gets on. *)
LEMMA SettlesMoves ==
    ASSUME TypeOK, NEW d \in Drivers, NEW s \in Steps, NEW b \in BodyState, Settles(d, s, b),
           drv[d].pc = "bodies", UNCHANGED lockVars,
           \A y \in Driver : y.body[s] = b => Settling(drv[d], y, row, row', Own(d), s)
    PROVE  Moves(d)
<1> DEFINE y == drv'[d]
<1>1. /\ drv' \in [Drivers -> Driver]
      /\ \A e \in Drivers \ {d} : drv'[e] = drv[e]
      /\ y.pc = drv[d].pc /\ y.token = drv[d].token
      /\ y.view = drv[d].view /\ y.done = drv[d].done
      /\ y.lost = drv[d].lost
      /\ y.body[s] = b
      /\ \A t \in Steps \ {s} : y.body[t] = drv[d].body[t]
  BY SettlesLeaves
<1>2. y \in Driver
  BY <1>1
<1> HIDE DEF y
<1>3. SettlesBody(drv[d], y, row, row', Own(d))
  BY <1>1, <1>2 DEF SettlesBody, Keeps
<1> QED
  BY <1>1, <1>2, <1>3 DEF Moves, Move, y

(* Bodies that write nothing. *)
LEMMA QuietBodyMoves ==
    ASSUME TypeOK, NEW d \in Drivers, NEW s \in Steps,
           WorkBody(d, s) \/ TripwireBody(d, s) \/ ContinueBody(d, s) \/ SignalBody(d, s)
             \/ CheckpointLost(d, s)
    PROVE  Moves(d)
<1>1. drv[d].pc = "bodies" /\ row' = row /\ UNCHANGED lockVars
  BY DEF WorkBody, TripwireBody, ContinueBody, SignalBody, CheckpointLost, InBody, At, storeVars
<1>2. CASE CheckpointLost(d, s)
  <2>1. drv[d].body[s] \in {"completed", "fired", "failed"} /\ Settles(d, s, "unsaved")
    BY <1>2 DEF CheckpointLost
  <2>2. \A y \in Driver : y.body[s] = "unsaved" => Settling(drv[d], y, row, row', Own(d), s)
    BY <1>1, <2>1 DEF Settling
  <2> QED
    BY <1>1, <2>1, <2>2, SettlesMoves DEF BodyState
<1>3. CASE ~CheckpointLost(d, s)
  <2>1. PICK b \in Results(s) \ {"suspended"} : Settles(d, s, b) /\ drv[d].body[s] = "run"
    <3>1. CASE WorkBody(d, s)
      BY <3>1 DEF WorkBody, InBody, Results
    <3>2. CASE TripwireBody(d, s)
      BY <3>2 DEF TripwireBody, InBody, Results
    <3>3. CASE ContinueBody(d, s)
      BY <3>3 DEF ContinueBody, InBody, Results
    <3>4. CASE SignalBody(d, s)
      <4>1. PICK b : b \in {"completed", "failed", "unsignalled"} /\ Settles(d, s, b)
        BY <3>4 DEF SignalBody
      <4>2. Kind[s] = "signal" /\ drv[d].body[s] = "run"
        BY <3>4 DEF SignalBody, InBody
      <4>3. Results(s) = {"completed", "failed", "unsignalled"}
        BY <4>2 DEF Results
      <4> QED
        BY <4>1, <4>2, <4>3
    <3> QED
      BY <1>3, <3>1, <3>2, <3>3, <3>4
  <2>2. b \in BodyState
    <3>1. Kind[s] \in {"work", "sleep", "signal", "tripwire", "continue"}
      BY DagAssumption
    <3> QED
      BY <3>1 DEF Results, BodyState
  <2>3. \A y \in Driver : y.body[s] = b => Settling(drv[d], y, row, row', Own(d), s)
    BY <1>1, <2>1 DEF Settling
  <2> QED
    BY <1>1, <2>1, <2>2, <2>3, SettlesMoves
<1> QED
  BY <1>2, <1>3

(* A body parks, finds that it is parked, or is refused. *)
LEMMA ParkMoves ==
    ASSUME TypeOK, NEW d \in Drivers, NEW s \in Steps, SleepBody(d, s) \/ SignalPark(d, s)
    PROVE  Moves(d)
<1>1. row \in Row /\ row.step \in [Steps -> StepStatus]
  BY DEF TypeOK, Row
<1>2. /\ drv[d].pc = "bodies" /\ UNCHANGED lockVars
      /\ Kind[s] \in {"sleep", "signal"} /\ drv[d].body[s] \in {"run", "unsignalled"}
  BY DEF SleepBody, SignalPark, InBody, At
<1>3. ASSUME NEW v \in Parked, NEW rearm, Suspend(d, s, v, rearm) PROVE Moves(d)
  <2>1. CASE Own(d)
    <3>1. /\ row' = [row EXCEPT !.step[s] = v, !.status = "suspended",
                                !.fired = @ \ {s}, !.ledger = @ \ {s}]
          /\ Settles(d, s, "suspended")
      BY <1>3, <2>1 DEF Suspend
    <3>2. /\ row'.step = [row.step EXCEPT ![s] = v] /\ row'.status = "suspended"
          /\ row'.fired = row.fired \ {s} /\ row'.run = row.run
      BY <1>1, <3>1 DEF Row
    <3>3. \A y \in Driver : y.body[s] = "suspended" => Settling(drv[d], y, row, row', Own(d), s)
      BY <1>2, <2>1, <3>2 DEF Settling
    <3> QED
      BY <1>2, <3>1, <3>3, SettlesMoves DEF BodyState
  <2>2. CASE ~Own(d)
    <3>1. row' = row /\ Settles(d, s, "failed")
      BY <1>3, <2>2 DEF Suspend
    <3>2. \A y \in Driver : y.body[s] = "failed" => Settling(drv[d], y, row, row', Own(d), s)
      BY <1>2, <2>2, <3>1 DEF Settling
    <3> QED
      BY <1>2, <3>1, <3>2, SettlesMoves DEF BodyState
  <2> QED
    BY <2>1, <2>2
<1>4. CASE SignalPark(d, s)
  BY <1>3, <1>4 DEF SignalPark, Parked
<1>5. CASE SleepBody(d, s) /\ drv[d].view.step[s] # "sleeping"
  BY <1>3, <1>5 DEF SleepBody, Parked
<1>6. CASE SleepBody(d, s) /\ drv[d].view.step[s] = "sleeping"
  <2>1. Kind[s] = "sleep" /\ drv[d].body[s] = "run" /\ row' = row
    BY <1>6 DEF SleepBody, InBody
  <2>2. PICK b : b \in {"completed", "suspended"} /\ Settles(d, s, b)
    BY <1>6 DEF SleepBody
  <2>3. Results(s) = {"completed", "suspended"}
    BY <2>1 DEF Results
  <2>4. \A y \in Driver : y.body[s] = b => Settling(drv[d], y, row, row', Own(d), s)
    BY <1>6, <2>1, <2>2, <2>3 DEF Settling
  <2> QED
    BY <1>2, <2>2, <2>4, SettlesMoves DEF BodyState
<1> QED
  BY <1>4, <1>5, <1>6

(* A checkpoint. *)
LEMMA CheckpointMoves ==
    ASSUME TypeOK, NEW d \in Drivers, NEW s \in Steps, Checkpoint(d, s) PROVE Moves(d)
<1> DEFINE b == drv[d].body[s]
           nb == CASE b = "completed" -> "saved" [] b = "fired" -> "savedFired"
                   [] b = "failed" -> "savedFailed"
           sn == drv[d].seen \/ IsCancelled(row)
           y == [drv[d] EXCEPT !.seen = sn, !.body[s] = nb]
<1>1. row \in Row /\ row.step \in [Steps -> StepStatus]
  BY DEF TypeOK, Row
<1>2. drv \in [Drivers -> Driver] /\ drv[d] \in Driver /\ drv[d].body \in [Steps -> BodyState]
  BY DEF TypeOK, Driver
<1>3. drv[d].pc = "bodies" /\ b \in {"completed", "fired", "failed"} /\ Own(d) /\ UNCHANGED lockVars
  BY DEF Checkpoint, CheckpointAllowed, At
<1>4. nb \in BodyState /\ sn \in BOOLEAN
  BY <1>2, <1>3 DEF BodyState, Driver
<1>5. drv' = [drv EXCEPT ![d] = y]
  BY <1>2 DEF Checkpoint
<1>6. /\ row'.step = [row.step EXCEPT ![s] = IF b = "failed" THEN "failed" ELSE "completed"]
      /\ row'.status = IF row.status = "pending" THEN "running" ELSE row.status
      /\ row'.fired = (IF b = "fired" THEN row.fired \cup {s} ELSE row.fired) /\ row'.run = row.run
  BY <1>1, <1>3 DEF Checkpoint, Row
<1>7. nb = CASE b = "completed" -> "saved" [] b = "fired" -> "savedFired" [] b = "failed" -> "savedFailed"
  OBVIOUS
<1> HIDE DEF nb, sn
<1>8. /\ y \in Driver /\ y.pc = "bodies" /\ Keeps(drv[d], y) /\ y.view = drv[d].view
      /\ y.done = drv[d].done /\ y.body = [drv[d].body EXCEPT ![s] = nb]
  BY <1>2, <1>3, <1>4 DEF Driver, Keeps
<1> HIDE DEF y
<1>9. y.body[s] = nb /\ \A t \in Steps \ {s} : y.body[t] = drv[d].body[t]
  BY <1>2, <1>8
<1>10. Settling(drv[d], y, row, row', Own(d), s)
  BY <1>3, <1>6, <1>7, <1>9 DEF Settling
<1> HIDE DEF b
<1>11. Move(drv[d], y, row, row', Own(d))
  BY <1>3, <1>8, <1>9, <1>10 DEF Move, SettlesBody
<1> QED
  BY <1>3, <1>5, <1>8, <1>11, Becomes

(* The wave is folded into the walk. *)
LEMMA SettleWaveMoves == ASSUME TypeOK, NEW d \in Drivers, SettleWave(d) PROVE Moves(d)
<1>1. drv \in [Drivers -> Driver] /\ drv[d] \in Driver /\ drv[d].body \in [Steps -> BodyState]
  BY DEF TypeOK, Driver
<1>2. /\ drv[d].pc = "bodies" /\ row' = row /\ UNCHANGED lockVars
      /\ In(d, {"run", "unsignalled", "completed", "fired", "failed"}) = {}
  BY DEF SettleWave, At, storeVars
<1>3. CASE In(d, {"unsaved"}) # {}
  <2>1. Finish(d, "lost") /\ \E s \in Steps : drv[d].body[s] = "unsaved"
    BY <1>3 DEF SettleWave, In
  <2>2. \A y \in Driver : Stays(drv[d], y) /\ y.pc = "release" /\ y.ans = "lost"
                         => Move(drv[d], y, row, row', Own(d))
    BY <1>2, <2>1 DEF Move, Finishes
  <2> QED
    BY <1>2, <2>1, <2>2, FinishMoves DEF Answer
<1>4. CASE In(d, {"unsaved"}) = {}
  <2> DEFINE pc == AfterWave(d)
             dn == drv[d].done \cup In(d, {"saved", "savedFired"})
             a == IF pc = "release" THEN "suspended" ELSE drv[d].ans
             y == [drv[d] EXCEPT !.done = dn, !.pc = pc, !.first = FALSE, !.body = Off, !.ans = a]
  <2>1. drv' = [drv EXCEPT ![d] = y]
    BY <1>1, <1>4 DEF SettleWave
  <2>2. \A s \in Steps : drv[d].body[s] \in {"off", "suspended", "continued", "saved", "savedFired", "savedFailed"}
    BY <1>1, <1>2, <1>4 DEF In, BodyState
  <2>3. \A b : In(d, {b}) = {} <=> ~Has(drv[d], b)
    BY DEF In, Has
  <2>4. \/ pc = "failing" /\ Has(drv[d], "savedFailed")
        \/ pc = "continue" /\ Has(drv[d], "continued")
        \/ pc = "release" /\ Has(drv[d], "suspended")
        \/ /\ ~Has(drv[d], "savedFailed") /\ ~Has(drv[d], "continued") /\ ~Has(drv[d], "suspended")
           /\ pc = IF Has(drv[d], "savedFired") THEN "trip" ELSE "wave"
    BY <2>3 DEF AfterWave
  <2>5. pc \in PC
    BY <2>4 DEF PC
  <2>6. dn \subseteq Steps /\ a \in Answer /\ Off \in [Steps -> BodyState]
    BY <1>1 DEF In, Driver, Answer, Off, BodyState
  <2>7. dn = drv[d].done \cup SavedOf(drv[d])
    BY DEF In, SavedOf
  <2> HIDE DEF pc, dn, a
  <2>8. /\ y \in Driver /\ y.pc = pc /\ Keeps(drv[d], y) /\ y.body = Off
        /\ y.view = drv[d].view /\ y.done = dn
    BY <1>1, <2>5, <2>6 DEF Driver, Keeps
  <2> HIDE DEF y
  <2>9. SettlesWave(drv[d], y, row, row')
    BY <1>2, <2>2, <2>4, <2>7, <2>8 DEF SettlesWave
  <2> QED
    BY <1>2, <2>1, <2>8, <2>9, Becomes DEF Move
<1> QED
  BY <1>3, <1>4

(* Whatever a driver does with the run it has, it moves, or leaves it. *)
LEMMA DriveMoves ==
    ASSUME TypeOK, NEW d \in Drivers, Drive(d)
    PROVE  Moves(d) \/ Release(d)
<1>1. ASSUME NEW s \in Steps,
             \/ WorkBody(d, s) \/ TripwireBody(d, s) \/ ContinueBody(d, s) \/ SleepBody(d, s)
             \/ SignalBody(d, s) \/ SignalPark(d, s)
             \/ Checkpoint(d, s) \/ CheckpointLost(d, s)
      PROVE  Moves(d)
  BY <1>1, QuietBodyMoves, ParkMoves, CheckpointMoves
<1> QED
  BY <1>1, LoadMoves, EnterMoves, OnwardMoves, EndMoves, StartWaveMoves, SettleWaveMoves DEF Drive

-----------------------------------------------------------------------------
(* Dependencies first *)

(* A stored step comes after everything it depends on. *)
Ordered(r) == \A t \in Steps : r.step[t] # "none" => DependsOn[t] \subseteq Completed(r)

(* The wave a driver is in has the ready steps of what it counts as done. *)
WaveOrdered(x) ==
    x.pc = "bodies" => /\ DownClosed(x.done)
                       /\ \A t \in Steps : x.body[t] # "off" => DependsOn[t] \subseteq x.done

DependenciesFirst == Ordered(row)

OrderInv == DependenciesFirst /\ \A d \in Drivers : Own(d) => WaveOrdered(drv[d])

(* What a body of the wave does to the order. *)
LEMMA SettlingIsOrdered ==
    ASSUME NEW x \in Driver, NEW y \in Driver, NEW r \in Row, NEW q \in Row, NEW own \in BOOLEAN,
           NEW s \in Steps, Settling(x, y, r, q, own, s), Ordered(r), x.pc = "bodies",
           own => WaveOrdered(x) /\ KnowsInWalk(r, x)
    PROVE  Ordered(q) /\ x.body[s] # "off" /\ Completed(r) \subseteq Completed(q)
<1>1. r.step \in [Steps -> StepStatus] /\ q.step \in [Steps -> StepStatus]
  BY DEF Row
<1>2. x.body[s] \in {"run", "unsignalled", "completed", "fired", "failed"}
  BY DEF Settling
<1>3. CASE q = r
  BY <1>2, <1>3
<1>4. CASE own /\ \E v \in StepStatus \ {"none"} : q.step = [r.step EXCEPT ![s] = v]
  <2>1. PICK v \in StepStatus \ {"none"} : q.step = [r.step EXCEPT ![s] = v]
    BY <1>4
  <2>2. s \notin Completed(r) /\ x.done \subseteq Completed(r) /\ DependsOn[s] \subseteq x.done
    BY <1>2, <1>4 DEF KnowsInWalk, SavedOf, WaveOrdered
  <2>3. Completed(r) \subseteq Completed(q)
    BY <1>1, <2>1, <2>2 DEF Completed
  <2>4. \A t \in Steps \ {s} : q.step[t] = r.step[t]
    BY <1>1, <2>1
  <2>5. ASSUME NEW t \in Steps, q.step[t] # "none" PROVE DependsOn[t] \subseteq Completed(q)
    <3>1. CASE t = s
      BY <2>2, <2>3, <3>1
    <3>2. CASE t # s
      BY <2>3, <2>4, <2>5, <3>2 DEF Ordered
    <3> QED
      BY <3>1, <3>2
  <2> QED
    BY <1>2, <2>3, <2>5 DEF Ordered
<1>5. q = r \/ (own /\ \E v \in StepStatus \ {"none"} : q.step = [r.step EXCEPT ![s] = v])
  <2>1. \A v \in Parked \cup {"failed", "completed"} : v \in StepStatus \ {"none"}
    BY DEF Parked, StepStatus
  <2> QED
    BY <2>1 DEF Settling
<1> QED
  BY <1>3, <1>4, <1>5

(* No move breaks the order, whatever the driver has lost. *)
LEMMA MoveIsOrdered ==
    ASSUME NEW x \in Driver, NEW y \in Driver, NEW r \in Row, NEW q \in Row, NEW own \in BOOLEAN,
           Move(x, y, r, q, own), Ordered(r), Begun(r, x),
           own => WaveOrdered(x) /\ Knows(r, x)
    PROVE  Ordered(q) /\ (own => WaveOrdered(y))
<1>1. CASE q.step = r.step /\ y.pc # "bodies"
  BY <1>1 DEF Ordered, Completed, WaveOrdered
<1>2. CASE Creates(x, y, r, q) \/ Restarts(x, y, r, q)
  <2>1. y.pc # "bodies"
    BY <1>2 DEF Creates, Restarts
  <2>2. q = r \/ \A t \in Steps : q.step[t] = "none"
    BY <1>2 DEF Creates, Restarts, Empty
  <2> QED
    BY <2>1, <2>2 DEF Ordered, WaveOrdered
<1>3. CASE StartsWave(x, y, r, q)
  <2>1. /\ x.pc = "wave" /\ y.done = x.done /\ q = r
        /\ \A s \in Steps :
             y.body[s] = IF s \notin x.done /\ DependsOn[s] \subseteq x.done THEN "run" ELSE "off"
    BY <1>3 DEF StartsWave
  <2>2. ASSUME own PROVE WaveOrdered(y)
    <3>1. x.body = Off /\ KnowsInWalk(r, x)
      BY <2>1, <2>2 DEF Begun, Knows, Walking
    <3>2. Completed(r) = x.done
      BY <3>1 DEF KnowsInWalk, SavedOf, Off
    <3>3. DownClosed(x.done)
      BY <3>2 DEF Ordered, DownClosed, Completed
    <3> QED
      BY <2>1, <3>3 DEF WaveOrdered
  <2> QED
    BY <2>1, <2>2
<1>4. CASE SettlesBody(x, y, r, q, own)
  <2>1. x.pc = "bodies" /\ y.pc = "bodies" /\ y.done = x.done
    BY <1>4 DEF SettlesBody
  <2>2. PICK s \in Steps : Settling(x, y, r, q, own, s) /\ \A t \in Steps \ {s} : y.body[t] = x.body[t]
    BY <1>4 DEF SettlesBody
  <2>3. own => KnowsInWalk(r, x)
    BY <2>1 DEF Knows, Walking
  <2>4. Ordered(q) /\ x.body[s] # "off"
    BY <2>1, <2>2, <2>3, SettlingIsOrdered
  <2> QED
    BY <2>1, <2>2, <2>4 DEF WaveOrdered
<1>5. Loads(x, y, r, q) => q.step = r.step /\ y.pc # "bodies"
  BY DEF Loads
<1>6. Enters(x, y, r, q) \/ Onward(x, y, r, q) \/ Finishes(x, y, r, q, own) => q.step = r.step /\ y.pc # "bodies"
  BY DEF Enters, Onward, Finishes
<1>7. Ends(x, y, r, q) \/ SettlesWave(x, y, r, q) => q.step = r.step /\ y.pc # "bodies"
  BY DEF Ends, SettlesWave
<1> QED
  BY <1>1, <1>2, <1>3, <1>4, <1>5, <1>6, <1>7 DEF Move

(* A step that moves no driver of a wave keeps what its holder counts on. *)
LEMMA OrderStays ==
    ASSUME OrderInv, Ordered(row'),
           \A e \in Drivers :
             \/ ~Own(e)' \/ drv'[e].pc # "bodies"
             \/ /\ Own(e)
                /\ drv'[e].pc = drv[e].pc /\ drv'[e].done = drv[e].done /\ drv'[e].body = drv[e].body
    PROVE  OrderInv'
<1>1. ASSUME NEW e \in Drivers, Own(e)' PROVE WaveOrdered(drv'[e])
  <2>1. CASE drv'[e].pc # "bodies"
    BY <2>1 DEF WaveOrdered
  <2>2. CASE Own(e) /\ drv'[e].pc = drv[e].pc /\ drv'[e].done = drv[e].done /\ drv'[e].body = drv[e].body
    BY <2>2 DEF OrderInv, WaveOrdered
  <2> QED
    BY <1>1, <2>1, <2>2
<1> QED
  BY <1>1 DEF OrderInv, DependenciesFirst

(* Taking the lock leaves the row alone, and takes it from nobody. *)
LEMMA TakeFacts ==
    ASSUME RunInv, NEW d \in Drivers, NEW force \in BOOLEAN, TryLockAndLoad(d, force)
    PROVE  /\ ~lock.live /\ drv[d].pc = "idle" /\ UNCHANGED storeVars
           /\ drv' \in [Drivers -> Driver] /\ \A e \in Drivers \ {d} : drv'[e] = drv[e] /\ ~Own(e)'
           /\ drv'[d].pc = IF row.status = "none" THEN "create" ELSE "gate"
           /\ drv'[d].view = row /\ ~drv'[d].lost /\ drv'[d].body = Off /\ Own(d)'
<1> DEFINE pc == IF row.status = "none" THEN "create" ELSE "gate"
           x == [Idle EXCEPT !.pc = pc, !.token = issued + 1, !.force = force, !.view = row]
<1>1. drv \in [Drivers -> Driver] /\ issued \in Nat /\ row \in Row /\ TokensKept
  BY DEF RunInv, TypeOK
<1>2. pc \in PC
  BY DEF PC
<1>3. drv' = [drv EXCEPT ![d] = x] /\ lock' = Granted(issued + 1)
  BY DEF TryLockAndLoad
<1>4. ~lock.live /\ drv[d].pc = "idle" /\ UNCHANGED storeVars
  BY DEF TryLockAndLoad, At
<1> HIDE DEF pc
<1>5. /\ x \in Driver /\ x.pc = pc /\ x.token = issued + 1 /\ x.view = row /\ x.body = Off
      /\ x.lost = FALSE
  <2>1. issued + 1 \in Nat /\ Idle.lost = FALSE
    BY <1>1 DEF Idle
  <2> QED
    BY <1>1, <1>2, <2>1, IdleFacts DEF Driver
<1> HIDE DEF x
<1>6. drv' \in [Drivers -> Driver] /\ drv'[d] = x /\ \A e \in Drivers \ {d} : drv'[e] = drv[e]
  BY <1>1, <1>3, <1>5
<1>7. lock'.live = TRUE /\ lock'.token = issued + 1
  BY <1>3 DEF Granted
<1>8. Own(d)'
  BY <1>5, <1>6, <1>7 DEF Own, Accepts
<1>9. ASSUME NEW e \in Drivers \ {d} PROVE ~Own(e)'
  <2>1. drv[e].token \in Nat /\ drv[e].token <= issued
    BY <1>1 DEF TokensKept, Driver
  <2>2. drv'[e].token # issued + 1
    BY <1>1, <1>6, <2>1
  <2> QED
    BY <1>7, <2>2 DEF Own, Accepts
<1> QED
  BY <1>4, <1>5, <1>6, <1>8, <1>9 DEF pc

(* What the world does to the run it does to no driver and no lock. *)
LEMMA WorldFacts ==
    ASSUME TypeOK, Submit \/ Cancel
    PROVE  /\ UNCHANGED <<lock, issued, drv>>
           /\ \/ row.status = "none" /\ row' = Empty("pending", 1)
              \/ row.status \in Active /\ row' = Cancelled(row)
<1>1. CASE Submit
  BY <1>1 DEF Submit, lockVars
<1>2. CASE Cancel
  BY <1>2 DEF Cancel, Cancelled, Active, lockVars, TypeOK
<1> QED
  BY <1>1, <1>2

(* The order of the steps is kept by every step of everybody. *)
LEMMA OrderStep == RunInv /\ OrderInv /\ [Next]_vars => OrderInv'
<1> SUFFICES ASSUME RunInv, OrderInv, [Next]_vars PROVE OrderInv'
  OBVIOUS
<1>1. TypeOK /\ drv \in [Drivers -> Driver] /\ row \in Row /\ Ordered(row)
  BY DEF RunInv, TypeOK, OrderInv, DependenciesFirst
<1>2. TypeOK'
  BY RunStep DEF RunInv
<1>3. row' \in Row
  BY <1>2 DEF TypeOK
<1>4. ASSUME NEW d \in Drivers, Moves(d) PROVE OrderInv'
  <2>1. /\ drv[d] \in Driver /\ drv'[d] \in Driver /\ Move(drv[d], drv'[d], row, row', Own(d))
        /\ \A e \in Drivers \ {d} : drv'[e] = drv[e]
        /\ UNCHANGED lockVars
    BY <1>1, <1>4 DEF Moves
  <2>2. Own(d) \in BOOLEAN /\ Begun(row, drv[d]) /\ (Own(d) => WaveOrdered(drv[d]) /\ Knows(row, drv[d]))
    BY DEF Own, Accepts, RunInv, OrderInv
  <2>3. Ordered(row') /\ (Own(d) => WaveOrdered(drv'[d]))
    BY <1>1, <1>3, <2>1, <2>2, MoveIsOrdered
  <2>4. drv'[d].token = drv[d].token
    BY <2>1 DEF Move, Loads, Creates, Restarts, Enters, Onward, Finishes, Ends, StartsWave, SettlesBody,
       SettlesWave, Stays, Keeps
  <2>5. \A e \in Drivers : Own(e)' => Own(e)
    BY <2>1, <2>4 DEF Own, Accepts, lockVars
  <2>6. \A e \in Drivers : Own(e)' => WaveOrdered(drv'[e])
    BY <2>1, <2>3, <2>5 DEF OrderInv
  <2> QED
    BY <2>3, <2>6 DEF OrderInv, DependenciesFirst
<1>5. ASSUME NEW d \in Drivers, NEW force \in BOOLEAN, TryLockAndLoad(d, force) PROVE OrderInv'
  <2>1. row' = row /\ drv'[d].pc # "bodies" /\ \A e \in Drivers \ {d} : ~Own(e)'
    BY <1>5, TakeFacts DEF storeVars
  <2> QED
    BY <1>1, <2>1, OrderStays
<1>6. ASSUME NEW d \in Drivers, Release(d) \/ Crash(d) PROVE OrderInv'
  <2>1. drv' = [drv EXCEPT ![d] = Idle] /\ row' = row
    BY <1>6 DEF Release, Crash, storeVars
  <2>2. drv'[d] = Idle /\ \A e \in Drivers \ {d} : drv'[e] = drv[e]
    BY <1>1, <2>1
  <2>3. lock' = lock \/ lock' = NoLock
    BY <1>6 DEF Release, Crash, AfterRelease, lockVars
  <2>4. \A e \in Drivers \ {d} : Own(e)' => Own(e)
    BY <2>2, <2>3 DEF Own, Accepts, NoLock
  <2>5. drv'[d].pc # "bodies"
    BY <2>2, IdleFacts
  <2> QED
    BY <1>1, <2>1, <2>2, <2>4, <2>5, OrderStays
<1>7. ASSUME NEW d \in Drivers, NoticeLoss(d) \/ Abandon(d) PROVE OrderInv'
  <2> DEFINE x == [drv[d] EXCEPT !.lost = TRUE]
  <2>1. drv' = [drv EXCEPT ![d] = x] /\ row' = row /\ UNCHANGED lockVars
    BY <1>1, <1>7 DEF NoticeLoss, Abandon, storeVars
  <2>2. x.pc = drv[d].pc /\ x.done = drv[d].done /\ x.body = drv[d].body /\ x.token = drv[d].token
    BY <1>1 DEF Driver
  <2> HIDE DEF x
  <2>3. drv'[d] = x /\ \A e \in Drivers \ {d} : drv'[e] = drv[e]
    BY <1>1, <2>1
  <2>4. \A e \in Drivers : Own(e)' => Own(e)
    BY <2>1, <2>2, <2>3 DEF Own, Accepts, lockVars
  <2> QED
    BY <1>1, <2>1, <2>2, <2>3, <2>4, OrderStays
<1>8. CASE Expire
  <2>1. row' = row /\ \A e \in Drivers : ~Own(e)'
    BY <1>8 DEF Expire, Lapsed, Own, Accepts, storeVars
  <2> QED
    BY <1>1, <2>1, OrderStays
<1>9. CASE Submit \/ Cancel
  <2>1. UNCHANGED <<lock, drv>> /\ (row' = Empty("pending", 1) \/ row' = Cancelled(row))
    BY <1>1, <1>9, WorldFacts
  <2>2. (\A t \in Steps : row'.step[t] = "none") \/ row'.step = row.step
    <3>1. CASE row' = Empty("pending", 1)
      BY <3>1 DEF Empty
    <3>2. CASE row' = Cancelled(row)
      BY <1>1, <3>2 DEF Cancelled, Row
    <3> QED
      BY <2>1, <3>1, <3>2
  <2>3. Ordered(row')
    BY <1>1, <2>2 DEF Ordered, Completed
  <2>4. \A e \in Drivers : Own(e)' => Own(e)
    BY <2>1 DEF Own
  <2> QED
    BY <2>1, <2>3, <2>4, OrderStays
<1>10. CASE (\E s \in Steps : TimerDue(s) \/ DeliverSignal(s)) \/ UNCHANGED vars
  <2>1. UNCHANGED <<lock, drv, row>>
    BY <1>10 DEF TimerDue, DeliverSignal, lockVars, vars
  <2>2. \A e \in Drivers : Own(e)' => Own(e)
    BY <2>1 DEF Own
  <2> QED
    BY <1>1, <2>1, <2>2, OrderStays
<1>11. ASSUME NEW d \in Drivers, Drive(d) PROVE OrderInv'
  BY <1>1, <1>4, <1>6, <1>11, DriveMoves
<1>12. ASSUME NEW d \in Drivers, Recover(d) \/ ScanAndResume(d) \/ \E force \in BOOLEAN : Call(d, force)
       PROVE  OrderInv'
  BY <1>5, <1>12 DEF Recover, ScanAndResume, Call
<1> QED
  BY <1>6, <1>7, <1>8, <1>9, <1>10, <1>11, <1>12 DEF Next

(* The order of the rows, and of the wave of the driver whose token is good. *)
THEOREM OrderInvariant == Spec => []OrderInv
<1>1. Init => OrderInv
  <2>1. Init => \A d \in Drivers : drv[d].pc = "idle"
    BY IdleFacts DEF Init
  <2> QED
    BY <2>1 DEF Init, OrderInv, DependenciesFirst, Ordered, WaveOrdered, Empty
<1> QED
  BY <1>1, OrderStep, RunInvariant, PTL DEF Spec

(* createReadyTracker, dag-executor.ts: a step is only ever stored, done,   *)
(* failed or parked, after everything it depends on is completed, through  *)
(* crashes, takeovers and resumes.                                         *)
THEOREM DependenciesComeFirst == Spec => []DependenciesFirst
  BY OrderInvariant, PTL DEF OrderInv

(* compensationOrder counts dependents among the completed steps only: the  *)
(* least set of steps of K that has the dependents of s in K, and theirs.  *)
ClosedAmong(s, K) ==
    {C \in SUBSET K : Dependents(s) \cap K \subseteq C /\ \A t \in C : Dependents(t) \cap K \subseteq C}
AboveAmong(s, K) == {t \in K : \A C \in ClosedAmong(s, K) : t \in C}

(* In a set that has the dependencies of its members nothing is missed so. *)
LEMMA AboveAmongIsAbove ==
    ASSUME NEW K \in SUBSET Steps, DownClosed(K), NEW s \in Steps
    PROVE  AboveAmong(s, K) = Above(s) \cap K
<1>1. ASSUME NEW t \in Above(s) \cap K, NEW C \in ClosedAmong(s, K) PROVE t \in C
  <2> DEFINE D == C \cup (Steps \ K)
  <2>1. /\ C \subseteq K /\ Dependents(s) \cap K \subseteq C
        /\ \A u \in C : Dependents(u) \cap K \subseteq C
    BY DEF ClosedAmong
  <2>2. \A u : Dependents(u) \subseteq Steps
    BY DEF Dependents
  <2>3. \A u \in Steps \ K : Dependents(u) \cap K = {}
    BY DEF Dependents, DownClosed
  <2>4. D \in SUBSET Steps /\ Dependents(s) \subseteq D
    BY <2>1, <2>2
  <2>5. \A u \in D : Dependents(u) \subseteq D
    BY <2>1, <2>2, <2>3
  <2> HIDE DEF D
  <2>6. Above(s) \subseteq D
    BY <2>4, <2>5, AboveIsLeast
  <2> QED
    BY <2>6 DEF D
<1>2. Above(s) \cap K \in ClosedAmong(s, K)
  <2>1. Dependents(s) \subseteq Above(s) /\ \A t \in Above(s) : Dependents(t) \subseteq Above(s)
    BY AboveCloses
  <2> QED
    BY <2>1 DEF ClosedAmong
<1> QED
  BY <1>1, <1>2 DEF AboveAmong

(* compensationOrder: the dependents that a rollback waits for, counted     *)
(* over completed steps, are all the completed steps that depend on a step, *)
(* however long the chain, for no chain passes through an uncompleted one.  *)
THEOREM RollbackMissesNoDependent ==
    Spec => [](\A s \in Steps : AboveAmong(s, Completed(row)) = Above(s) \cap Completed(row))
<1>1. DependenciesFirst => \A s \in Steps : AboveAmong(s, Completed(row)) = Above(s) \cap Completed(row)
  <2> SUFFICES ASSUME DependenciesFirst, NEW s \in Steps
               PROVE  AboveAmong(s, Completed(row)) = Above(s) \cap Completed(row)
    OBVIOUS
  <2>1. Completed(row) \in SUBSET Steps /\ DownClosed(Completed(row))
    BY DEF DependenciesFirst, Ordered, DownClosed, Completed
  <2> QED
    BY <2>1, AboveAmongIsAbove
<1> QED
  BY <1>1, DependenciesComeFirst, PTL

-----------------------------------------------------------------------------
(* What a driver leaves behind *)

(* A driver keeps its token and its lock signal through its moves. *)
LEMMA MovesKeep ==
    ASSUME NEW d \in Drivers, Moves(d)
    PROVE  Keeps(drv[d], drv'[d]) /\ UNCHANGED lock /\ (Own(d)' <=> Own(d))
<1>1. Keeps(drv[d], drv'[d])
  BY DEF Moves, Move, Loads, Creates, Restarts, Enters, Onward, Finishes, Ends, StartsWave, SettlesBody,
     SettlesWave, Stays
<1>2. UNCHANGED lock
  BY DEF Moves, lockVars
<1> QED
  BY <1>1, <1>2 DEF Keeps, Own, Accepts

(* Nobody writes to the stored run without a good token, its creation apart. *)
LEMMA HoldersWrite ==
    ASSUME NEW d \in Drivers, Drive(d)
    PROVE  row' = row \/ Own(d) \/ row.status = "none"
<1>2. ASSUME NEW s \in Steps, SleepBody(d, s) \/ SignalPark(d, s) \/ Checkpoint(d, s)
      PROVE  row' = row \/ Own(d)
  BY <1>2 DEF SleepBody, SignalPark, Suspend, Checkpoint, CheckpointAllowed
<1>3. Writes(d) => row' = row \/ Own(d) \/ row.status = "none"
  BY <1>2 DEF Writes, Create, ForceFresh, ContinueAsNew, Complete, Trip, BeginCompensation,
     RecordUndo, FailRun
<1>4. ~Writes(d) => row' = row
  <2>1. ASSUME \/ Load(d) \/ Reject(d) \/ Reload(d) \/ Enter(d) \/ StartWave(d) \/ SettleWave(d)
               \/ Confirm(d) \/ Failing(d) \/ Retry(d) \/ RetryLoad(d) \/ LoadRollback(d) \/ Undo(d)
               \/ Fenced(d) \/ Release(d)
        PROVE  row' = row
    BY <2>1 DEF Load, Reject, Reload, Enter, StartWave, SettleWave, Confirm, Failing, Retry,
       RetryLoad, LoadRollback, Undo, Fenced, Release, storeVars
  <2>2. ASSUME NEW s \in Steps,
               WorkBody(d, s) \/ TripwireBody(d, s) \/ ContinueBody(d, s) \/ SignalBody(d, s)
                 \/ CheckpointLost(d, s)
        PROVE  row' = row
    BY <2>2 DEF WorkBody, TripwireBody, ContinueBody, SignalBody, CheckpointLost, storeVars
  <2> QED
    BY <2>1, <2>2 DEF Drive, Writes
<1> QED
  BY <1>3, <1>4

HasParked(r) == \E s \in Steps : r.step[s] \in Parked
LetGoOf(r) == IsTerminal(r) \/ (r.status = "suspended" /\ HasParked(r))
WalksOn == {"wave", "bodies", "complete"}

(* What the holder's state x says of the parked and the fired steps of the  *)
(* stored run r: the steps its walk has not come to are as it loaded them, *)
(* a body that reports a suspension has its row parked, and a tripwire that *)
(* fired is none of the steps this walk has gone past.                     *)
WalkAt(r, x) ==
    /\ x.pc \in {"wave", "bodies"} =>
         \A s \in Steps : s \notin x.done /\ x.body[s] \in {"off", "run"} => r.step[s] = x.view.step[s]
    /\ x.pc = "bodies" =>
         \A s \in Steps : /\ x.body[s] = "suspended" => r.step[s] \in Parked
                          /\ x.body[s] = "saved" => s \notin r.fired
    /\ x.pc = "release" /\ x.ans # "lost" => LetGoOf(r)
    /\ x.pc \in WalksOn => r.fired \cap x.done \subseteq Completed(x.view)

FiredIsCompleted(r) == r.fired \subseteq Completed(r)

WalkInv == FiredIsCompleted(row) /\ \A d \in Drivers : Own(d) => WalkAt(row, drv[d])

(* One body of the wave of the holder. *)
LEMMA SettlingWalks ==
    ASSUME NEW x \in Driver, NEW y \in Driver, NEW r \in Row, NEW q \in Row, NEW s \in Steps,
           x.pc = "bodies", y.pc = "bodies", y.view = x.view, y.done = x.done,
           Settling(x, y, r, q, TRUE, s), \A t \in Steps \ {s} : y.body[t] = x.body[t],
           WalkAt(r, x), KnowsInWalk(r, x), FiredIsCompleted(r)
    PROVE  WalkAt(q, y) /\ FiredIsCompleted(q)
<1>1. r.step \in [Steps -> StepStatus] /\ q.step \in [Steps -> StepStatus] /\ q.fired \subseteq Steps
  BY DEF Row
<1>2. \A t \in Steps \ {s} : q.step[t] = r.step[t]
  BY <1>1 DEF Settling
<1>3. \A t \in Steps \ {s} : t \in q.fired <=> t \in r.fired
  BY DEF Settling
<1>4. x.body[s] \in {"run", "unsignalled", "completed", "fired", "failed"}
  BY DEF Settling
<1>5. s \notin x.done /\ s \notin Completed(r) /\ s \notin r.fired
  BY <1>4 DEF KnowsInWalk, SavedOf, FiredIsCompleted
<1>6. ASSUME NEW t \in Steps \ {s}
      PROVE  /\ t \notin y.done /\ y.body[t] \in {"off", "run"} => q.step[t] = y.view.step[t]
             /\ y.body[t] = "suspended" => q.step[t] \in Parked
             /\ y.body[t] = "saved" => t \notin q.fired
  BY <1>2, <1>3 DEF WalkAt
<1>7. /\ y.body[s] \notin {"off", "run"}
      /\ y.body[s] = "suspended" => q.step[s] \in Parked
      /\ y.body[s] = "saved" => s \notin q.fired
      /\ s \in q.fired => q.step[s] = "completed"
  <2>1. CASE /\ q = r /\ x.body[s] = "run" /\ y.body[s] \in Results(s)
             /\ y.body[s] = "suspended" => x.view.step[s] = "sleeping"
    <3>1. Kind[s] \in {"work", "sleep", "signal", "tripwire", "continue"}
      BY DagAssumption
    <3>2. y.body[s] \notin {"off", "run", "saved"}
      BY <2>1, <3>1 DEF Results
    <3> QED
      BY <1>5, <2>1, <3>2 DEF WalkAt, Parked
  <2>2. CASE /\ y.body[s] = "suspended" /\ q.fired = r.fired \ {s}
             /\ \E v \in Parked : q.step = [r.step EXCEPT ![s] = v]
    BY <1>1, <2>2
  <2>3. CASE /\ x.body[s] \in {"completed", "fired", "failed"}
             /\ y.body[s] = CASE x.body[s] = "completed" -> "saved" [] x.body[s] = "fired" -> "savedFired"
                              [] x.body[s] = "failed" -> "savedFailed"
             /\ q.step = [r.step EXCEPT ![s] = IF x.body[s] = "failed" THEN "failed" ELSE "completed"]
             /\ q.fired = (IF x.body[s] = "fired" THEN r.fired \cup {s} ELSE r.fired)
    BY <1>1, <1>5, <2>3
  <2>4. CASE y.body[s] = "unsaved" /\ q = r
    BY <1>5, <2>4
  <2> QED
    BY <2>1, <2>2, <2>3, <2>4 DEF Settling
<1>8. FiredIsCompleted(q)
  BY <1>1, <1>2, <1>3, <1>7 DEF FiredIsCompleted, Completed
<1>9. q.fired \cap y.done \subseteq Completed(y.view)
  <2>1. r.fired \cap x.done \subseteq Completed(x.view)
    BY DEF WalkAt, WalksOn
  <2> QED
    BY <1>1, <1>3, <1>5, <2>1
<1> QED
  BY <1>6, <1>7, <1>8, <1>9 DEF WalkAt

(* Every move of the holder. *)
LEMMA MoveWalks ==
    ASSUME NEW x \in Driver, NEW y \in Driver, NEW r \in Row, NEW q \in Row,
           Move(x, y, r, q, TRUE), Begun(r, x), Knows(r, x), WalkAt(r, x), FiredIsCompleted(r)
    PROVE  WalkAt(q, y) /\ FiredIsCompleted(q)
<1>1. CASE q = r /\ y.pc \notin {"wave", "bodies", "complete", "release"}
  BY <1>1 DEF WalkAt, WalksOn
<1>2. CASE Enters(x, y, r, q) /\ y.pc = "wave"
  <2>1. y.body = x.body /\ q = r /\ y.done = Completed(y.view)
    BY <1>2 DEF Enters
  <2>2. r.step = y.view.step
    <3>1. CASE x.pc = "gate"
      <4>1. KnowsAtGate(r, x) /\ y.view = x.view
        BY <1>2, <3>1 DEF Knows, Enters
      <4>2. x.view \in Row
        BY DEF Driver
      <4> QED
        BY <4>1, <4>2 DEF KnowsAtGate, Cancelled, Row
    <3> QED
      BY <1>2, <3>1 DEF Enters
  <2> QED
    BY <1>2, <2>1, <2>2 DEF WalkAt
<1>3. CASE Finishes(x, y, r, q, TRUE)
  <2>1. q = r /\ y.pc = "release"
    BY <1>3 DEF Finishes
  <2>2. y.ans = "lost" \/ IsTerminal(r)
    <3>1. CASE x.pc = "gate" /\ IsTerminal(x.view)
      <4>1. KnowsAtGate(r, x)
        BY <3>1 DEF Knows
      <4> QED
        BY <3>1, <4>1 DEF KnowsAtGate, IsTerminal, Active
    <3>2. CASE x.pc = "confirm"
      BY <3>2 DEF Knows, KnowsTheEnd, IsCancelled, IsTerminal
    <3>3. CASE x.pc = "wave" /\ ~x.first /\ x.seen
      BY <3>3 DEF Knows, Walking, KnowsInWalk, IsCancelled, IsTerminal
    <3>4. CASE x.pc \in {"failing", "retry"} /\ IsCancelled(r)
      BY <3>4 DEF IsCancelled, IsTerminal
    <3> QED
      BY <1>3, <3>1, <3>2, <3>3, <3>4 DEF Finishes
  <2> QED
    BY <2>1, <2>2 DEF WalkAt, LetGoOf, WalksOn
<1>4. CASE Ends(x, y, r, q)
  BY <1>4 DEF Ends, WalkAt, WalksOn, LetGoOf, FiredIsCompleted, Completed
<1>5. CASE StartsWave(x, y, r, q)
  <2>1. x.pc = "wave" /\ y.pc = "bodies" /\ y.done = x.done /\ y.view = x.view /\ q = r
    BY <1>5 DEF StartsWave
  <2>2. \A s \in Steps : x.body[s] = "off" /\ y.body[s] \in {"run", "off"}
    BY <1>5, <2>1 DEF StartsWave, Begun, Off
  <2> QED
    BY <2>1, <2>2 DEF WalkAt, WalksOn
<1>6. CASE SettlesBody(x, y, r, q, TRUE)
  <2>1. x.pc = "bodies" /\ y.pc = "bodies" /\ y.view = x.view /\ y.done = x.done
    BY <1>6 DEF SettlesBody
  <2>2. KnowsInWalk(r, x)
    BY <2>1 DEF Knows, Walking
  <2>3. PICK s \in Steps : Settling(x, y, r, q, TRUE, s) /\ \A t \in Steps \ {s} : y.body[t] = x.body[t]
    BY <1>6 DEF SettlesBody
  <2> QED
    BY <2>1, <2>2, <2>3, SettlingWalks
<1>7. CASE SettlesWave(x, y, r, q)
  <2>1. /\ x.pc = "bodies" /\ q = r /\ y.body = Off /\ y.view = x.view /\ y.done = x.done \cup SavedOf(x)
        /\ \A s \in Steps : x.body[s] \in {"off", "suspended", "continued", "saved", "savedFired", "savedFailed"}
    BY <1>7 DEF SettlesWave
  <2>2. CASE y.pc = "release"
    <3>1. PICK s \in Steps : x.body[s] = "suspended"
      BY <1>7, <2>2 DEF SettlesWave, Has
    <3>2. KnowsInWalk(r, x)
      BY <2>1 DEF Knows, Walking
    <3>3. Rests(r) /\ r.step[s] \in Parked
      BY <2>1, <3>1, <3>2 DEF KnowsInWalk, WalkAt
    <3>4. LetGoOf(r)
      BY <3>3 DEF Rests, LetGoOf, HasParked, IsCancelled, IsTerminal
    <3> QED
      BY <2>1, <2>2, <3>4 DEF WalkAt, WalksOn
  <2>3. CASE y.pc = "wave"
    <3>1. ~Has(x, "savedFailed") /\ ~Has(x, "continued") /\ ~Has(x, "suspended") /\ ~Has(x, "savedFired")
      BY <1>7, <2>3 DEF SettlesWave
    <3>2. \A s \in Steps : s \notin y.done => s \notin x.done /\ x.body[s] = "off"
      BY <2>1, <3>1 DEF Has, SavedOf
    <3>3. r.fired \cap SavedOf(x) = {}
      BY <2>1, <3>1 DEF Has, SavedOf, WalkAt
    <3>4. r.fired \cap y.done \subseteq Completed(y.view)
      BY <2>1, <3>3 DEF WalkAt, WalksOn
    <3> QED
      BY <2>1, <2>3, <3>2, <3>4 DEF WalkAt
  <2> QED
    BY <1>1, <1>7, <2>1, <2>2, <2>3 DEF SettlesWave
<1>8. CASE Onward(x, y, r, q)
  <2>1. CASE x.pc = "wave" /\ y.pc = "complete"
    BY <1>8, <2>1 DEF Onward, Stays, WalkAt, WalksOn
  <2>2. CASE y.pc \notin {"wave", "bodies", "complete", "release"}
    BY <1>1, <1>8, <2>2 DEF Onward
  <2> QED
    BY <1>8, <2>1, <2>2 DEF Onward
<1>9. CASE Creates(x, y, r, q) \/ Restarts(x, y, r, q)
  <2>1. y.pc \in {"load", "reload"}
    BY <1>9 DEF Creates, Restarts
  <2>2. q = r \/ q.fired = {}
    BY <1>9 DEF Creates, Restarts, Empty
  <2> QED
    BY <2>1, <2>2 DEF WalkAt, WalksOn, FiredIsCompleted
<1>10. Loads(x, y, r, q) => q = r /\ y.pc \notin {"wave", "bodies", "complete", "release"}
  BY DEF Loads
<1>11. Enters(x, y, r, q) => q = r /\ (y.pc = "wave" \/ y.pc \notin {"wave", "bodies", "complete", "release"})
  BY DEF Enters
<1> QED
  BY <1>1, <1>2, <1>3, <1>4, <1>5, <1>6, <1>7, <1>8, <1>9, <1>10, <1>11 DEF Move

(* A step that leaves the row alone, or cancels the run, and moves nobody   *)
(* who has the run.                                                        *)
LEMMA WalkStays ==
    ASSUME TypeOK, WalkInv, row' = row \/ row' = Cancelled(row),
           \A e \in Drivers :
             \/ ~Own(e)' \/ drv'[e].pc \notin {"wave", "bodies", "complete", "release"}
             \/ /\ Own(e)
                /\ drv'[e].pc = drv[e].pc /\ drv'[e].done = drv[e].done /\ drv'[e].body = drv[e].body
                /\ drv'[e].view = drv[e].view /\ drv'[e].ans = drv[e].ans
    PROVE  WalkInv'
<1>1. /\ row'.step = row.step /\ row'.fired = row.fired
      /\ row' = row \/ IsTerminal(row')
  BY DEF TypeOK, Row, Cancelled, IsTerminal
<1>2. FiredIsCompleted(row')
  BY <1>1 DEF WalkInv, FiredIsCompleted, Completed
<1>3. ASSUME NEW e \in Drivers, Own(e)' PROVE WalkAt(row', drv'[e])
  <2>1. CASE drv'[e].pc \notin {"wave", "bodies", "complete", "release"}
    BY <2>1 DEF WalkAt, WalksOn
  <2>2. CASE /\ Own(e)
             /\ drv'[e].pc = drv[e].pc /\ drv'[e].done = drv[e].done /\ drv'[e].body = drv[e].body
             /\ drv'[e].view = drv[e].view /\ drv'[e].ans = drv[e].ans
    <3>1. WalkAt(row, drv[e])
      BY <2>2 DEF WalkInv
    <3>2. LetGoOf(row) => LetGoOf(row')
      BY <1>1 DEF LetGoOf
    <3> QED
      BY <1>1, <2>2, <3>1, <3>2 DEF WalkAt
  <2> QED
    BY <1>3, <2>1, <2>2
<1> QED
  BY <1>2, <1>3 DEF WalkInv

(* The invariant is kept by every step of everybody. *)
LEMMA WalkStep == RunInv /\ WalkInv /\ [Next]_vars => WalkInv'
<1> SUFFICES ASSUME RunInv, WalkInv, [Next]_vars PROVE WalkInv'
  OBVIOUS
<1>1. TypeOK /\ TokensKept /\ drv \in [Drivers -> Driver] /\ row \in Row /\ FiredIsCompleted(row)
  BY DEF RunInv, TypeOK, WalkInv
<1>2. row' \in Row
  BY RunStep DEF RunInv, TypeOK
<1>3. ASSUME NEW d \in Drivers, Drive(d), Moves(d) PROVE WalkInv'
  <2>1. /\ drv[d] \in Driver /\ drv'[d] \in Driver /\ Move(drv[d], drv'[d], row, row', Own(d))
        /\ \A e \in Drivers \ {d} : drv'[e] = drv[e]
    BY <1>1, <1>3 DEF Moves
  <2>2. UNCHANGED lock /\ (Own(d)' <=> Own(d)) /\ \A e \in Drivers \ {d} : Own(e)' <=> Own(e)
    BY <1>3, <2>1, MovesKeep DEF Own
  <2>3. CASE Own(d)
    <3>1. Own(d) = TRUE
      BY <2>3 DEF Own, Accepts
    <3>2. Move(drv[d], drv'[d], row, row', TRUE)
      BY <2>1, <3>1
    <3>3. Begun(row, drv[d]) /\ Knows(row, drv[d]) /\ WalkAt(row, drv[d])
      BY <2>3 DEF RunInv, WalkInv
    <3>4. WalkAt(row', drv'[d]) /\ FiredIsCompleted(row')
      BY <1>1, <1>2, <2>1, <3>2, <3>3, MoveWalks
    <3>5. \A e \in Drivers \ {d} : ~Own(e)
      BY <1>1, <2>3, OneOwner
    <3> QED
      BY <2>2, <3>4, <3>5 DEF WalkInv
  <2>4. CASE ~Own(d) /\ row' = row
    BY <1>1, <2>1, <2>2, <2>4, WalkStays
  <2>5. CASE ~Own(d) /\ row.status = "none"
    <3>1. \A e \in Drivers : drv[e].pc \in {"idle", "create"}
      BY <2>5 DEF RunInv, Begun
    <3>2. \A e \in Drivers : Own(e)' => drv'[e].pc \in {"idle", "create"}
      BY <2>1, <2>2, <2>5, <3>1
    <3>3. FiredIsCompleted(row')
      <4>1. row' = row \/ row'.fired = {}
        <5>1. drv[d].pc \in {"idle", "create"}
          BY <3>1
        <5> QED
          BY <2>1, <5>1 DEF Move, Loads, Creates, Restarts, Enters, Onward, Finishes, Ends, StartsWave,
             SettlesBody, SettlesWave, Empty
      <4> QED
        BY <1>1, <4>1 DEF FiredIsCompleted
    <3> QED
      BY <3>2, <3>3 DEF WalkInv, WalkAt, WalksOn
  <2> QED
    BY <1>3, <2>3, <2>4, <2>5, HoldersWrite
<1>4. ASSUME NEW d \in Drivers, NEW force \in BOOLEAN, TryLockAndLoad(d, force) PROVE WalkInv'
  <2>1. row' = row /\ drv'[d].pc \in {"create", "gate"} /\ \A e \in Drivers \ {d} : ~Own(e)'
    BY <1>4, TakeFacts DEF storeVars
  <2> QED
    BY <1>1, <2>1, WalkStays
<1>5. ASSUME NEW d \in Drivers, Release(d) \/ Crash(d) PROVE WalkInv'
  <2>1. drv' = [drv EXCEPT ![d] = Idle] /\ row' = row
    BY <1>5 DEF Release, Crash, storeVars
  <2>2. drv'[d] = Idle /\ \A e \in Drivers \ {d} : drv'[e] = drv[e]
    BY <1>1, <2>1
  <2>3. lock' = lock \/ lock' = NoLock
    BY <1>5 DEF Release, Crash, AfterRelease, lockVars
  <2>4. \A e \in Drivers \ {d} : Own(e)' => Own(e)
    BY <2>2, <2>3 DEF Own, Accepts, NoLock
  <2>5. drv'[d].pc = "idle"
    BY <2>2, IdleFacts
  <2> QED
    BY <1>1, <2>1, <2>2, <2>4, <2>5, WalkStays
<1>6. ASSUME NEW d \in Drivers, NoticeLoss(d) \/ Abandon(d) PROVE WalkInv'
  <2> DEFINE x == [drv[d] EXCEPT !.lost = TRUE]
  <2>1. drv' = [drv EXCEPT ![d] = x] /\ row' = row /\ UNCHANGED lockVars
    BY <1>1, <1>6 DEF NoticeLoss, Abandon, storeVars
  <2>2. /\ x.pc = drv[d].pc /\ x.done = drv[d].done /\ x.body = drv[d].body /\ x.token = drv[d].token
        /\ x.view = drv[d].view /\ x.ans = drv[d].ans
    BY <1>1 DEF Driver
  <2> HIDE DEF x
  <2>3. drv'[d] = x /\ \A e \in Drivers \ {d} : drv'[e] = drv[e]
    BY <1>1, <2>1
  <2>4. \A e \in Drivers : Own(e)' => Own(e)
    BY <2>1, <2>2, <2>3 DEF Own, Accepts, lockVars
  <2> QED
    BY <1>1, <2>1, <2>2, <2>3, <2>4, WalkStays
<1>7. CASE Expire
  <2>1. row' = row /\ \A e \in Drivers : ~Own(e)'
    BY <1>7 DEF Expire, Lapsed, Own, Accepts, storeVars
  <2> QED
    BY <1>1, <2>1, WalkStays
<1>8. CASE Submit \/ Cancel
  <2>1. /\ UNCHANGED <<lock, drv>>
        /\ \/ row.status = "none" /\ row' = Empty("pending", 1)
           \/ row' = Cancelled(row)
    BY <1>1, <1>8, WorldFacts
  <2>2. \A e \in Drivers : Own(e)' => Own(e)
    BY <2>1 DEF Own
  <2>3. CASE row.status = "none" /\ row' = Empty("pending", 1)
    <3>1. \A e \in Drivers : drv'[e].pc \in {"idle", "create"}
      BY <2>1, <2>3 DEF RunInv, Begun
    <3>2. FiredIsCompleted(row')
      BY <2>3 DEF Empty, FiredIsCompleted
    <3> QED
      BY <3>1, <3>2 DEF WalkInv, WalkAt, WalksOn
  <2>4. CASE row' = Cancelled(row)
    BY <1>1, <2>1, <2>2, <2>4, WalkStays
  <2> QED
    BY <2>1, <2>3, <2>4
<1>9. CASE (\E s \in Steps : TimerDue(s) \/ DeliverSignal(s)) \/ UNCHANGED vars
  <2>1. UNCHANGED <<lock, drv, row>>
    BY <1>9 DEF TimerDue, DeliverSignal, lockVars, vars
  <2>2. \A e \in Drivers : Own(e)' => Own(e)
    BY <2>1 DEF Own
  <2> QED
    BY <1>1, <2>1, <2>2, WalkStays
<1>10. ASSUME NEW d \in Drivers, Drive(d) PROVE WalkInv'
  BY <1>1, <1>3, <1>5, <1>10, DriveMoves
<1>11. ASSUME NEW d \in Drivers, Recover(d) \/ ScanAndResume(d) \/ \E force \in BOOLEAN : Call(d, force)
       PROVE  WalkInv'
  BY <1>4, <1>11 DEF Recover, ScanAndResume, Call
<1> QED
  BY <1>5, <1>6, <1>7, <1>8, <1>9, <1>10, <1>11 DEF Next

(* What the holder's walk says of the parked and the fired steps, always. *)
THEOREM WalkInvariant == Spec => []WalkInv
<1>1. Init => WalkInv
  <2>1. Init => \A d \in Drivers : drv[d].pc = "idle"
    BY IdleFacts DEF Init
  <2> QED
    BY <2>1 DEF Init, WalkInv, FiredIsCompleted, WalkAt, WalksOn, Empty
<1> QED
  BY <1>1, WalkStep, RunInvariant, PTL DEF Spec

(* dag-executor.ts, orchestrate.ts: through any crashes, stalls, takeovers  *)
(* and cancels, a driver that gives the run up under a good token, and not  *)
(* for a lost lock or a lost write, leaves it ended or parked on a stored   *)
(* row.  One that dies, is abandoned or loses a write in a resumed run may  *)
(* leave neither (MCStranded).                                             *)
THEOREM LiveRunsAreKept == Spec => []LetsGoOfNoLiveRun
<1>1. WalkInv => LetsGoOfNoLiveRun
  BY DEF WalkInv, WalkAt, LetsGoOfNoLiveRun, LetGoOf, HasParked, Parked, At
<1> QED
  BY <1>1, WalkInvariant, PTL

(* A tripwire that this walk has gone past was already stored as completed  *)
(* when the walk began.                                                    *)
FiredEndsTheWalk ==
    \A d \in Drivers : Own(d) /\ drv[d].pc \in WalksOn =>
        row.fired \cap drv[d].done \subseteq Completed(drv[d].view)

(* workflow-builder.ts, settleWave: whatever fails, parks or dies around it, *)
(* a tripwire that fires ends the walk it fires in: the holder starts no    *)
(* further wave and does not complete the run.  Only a later walk, which    *)
(* loads the fired step as a completed one, goes past it (MCTripwireCrash). *)
THEOREM TripwireEndsItsWalk == Spec => []FiredEndsTheWalk
<1>1. WalkInv => FiredEndsTheWalk
  BY DEF WalkInv, WalkAt, FiredEndsTheWalk
<1> QED
  BY <1>1, WalkInvariant, PTL

-----------------------------------------------------------------------------
(* What is stored stays stored *)

(* A run whose outcome is its own, and not a cancel's. *)
HasOutcome(r) == IsTerminal(r) /\ ~IsCancelled(r)

(* A write within a run: to one that has no outcome yet, and no completed   *)
(* step is lost.                                                           *)
WritesWithin(r, q) ==
    /\ q.run = r.run /\ r.status # "none" /\ q.status # "none" /\ ~HasOutcome(r)
    /\ Completed(r) \subseteq Completed(q)

(* What a write of one step's row does, unless that step was completed. *)
LEMMA StepWriteIsWithin ==
    ASSUME row \in Row, row' \in Row, NEW s \in Steps, NEW v,
           row'.step = [row.step EXCEPT ![s] = v], s \notin Completed(row)
    PROVE  Completed(row) \subseteq Completed(row')
<1>1. row.step \in [Steps -> StepStatus]
  BY DEF Row
<1>2. \A t \in Steps \ {s} : row'.step[t] = row.step[t]
  BY <1>1
<1> QED
  BY <1>2 DEF Completed

(* Whoever writes creates the run, replaces it or writes within it. *)
LEMMA WriteCases ==
    ASSUME RunInv, TypeOK', NEW d \in Drivers, Writes(d), row' # row
    PROVE  \/ row.status = "none" /\ row' = Empty("pending", 1)
           \/ row.status # "none" /\ row' = Empty("pending", row.run + 1)
           \/ WritesWithin(row, row')
<1>1. /\ row \in Row /\ row' \in Row /\ drv \in [Drivers -> Driver] /\ drv[d] \in Driver
      /\ row.step \in [Steps -> StepStatus]
  BY DEF RunInv, TypeOK, Row
<1>2. /\ drv[d].pc \notin {"idle", "create"} => row.status # "none"
      /\ Own(d) => Knows(row, drv[d])
  BY DEF RunInv, Begun
<1>3. CASE Create(d)
  BY <1>3 DEF Create
<1>4. CASE ForceFresh(d) \/ ContinueAsNew(d)
  BY <1>2, <1>4 DEF ForceFresh, ContinueAsNew, StartFreshRun, storeVars, At
<1>5. CASE Complete(d) \/ Trip(d) \/ FailRun(d)
  <2>1. ~IsTerminal(row) /\ row.status # "none"
    BY <1>2, <1>5 DEF Complete, Trip, FailRun, EndAs, At
  <2>2. /\ row'.run = row.run /\ row'.step = row.step
        /\ row'.status \in {"completed", "tripwire", "failed"}
    BY <1>1, <1>5, <2>1 DEF Complete, Trip, FailRun, EndAs, Row
  <2> QED
    BY <2>1, <2>2 DEF WritesWithin, HasOutcome, Completed
<1>6. CASE BeginCompensation(d)
  <2>1. row.status \in {"pending", "running", "suspended", "compensating"}
    BY <1>6 DEF BeginCompensation
  <2>2. row'.run = row.run /\ row'.step = row.step /\ row'.status = "compensating"
    BY <1>1, <1>6, <2>1 DEF BeginCompensation, Row
  <2> QED
    BY <2>1, <2>2 DEF WritesWithin, HasOutcome, IsTerminal, Completed
<1>7. CASE RecordUndo(d)
  <2>1. row.status = "compensating"
    BY <1>2, <1>7 DEF RecordUndo, Knows, KnowsInRollback, At
  <2>2. row'.run = row.run /\ row'.step = row.step /\ row'.status = row.status
    BY <1>1, <1>7 DEF RecordUndo, Row
  <2> QED
    BY <2>1, <2>2 DEF WritesWithin, HasOutcome, IsTerminal, Completed
<1>8. ASSUME NEW s \in Steps, SleepBody(d, s) \/ SignalPark(d, s) \/ Checkpoint(d, s)
      PROVE  WritesWithin(row, row')
  <2>1. Own(d) /\ drv[d].pc = "bodies" /\ drv[d].body[s] \in {"run", "unsignalled", "completed", "fired", "failed"}
    BY <1>8 DEF SleepBody, SignalPark, Suspend, Checkpoint, CheckpointAllowed, InBody, At
  <2>2. KnowsInWalk(row, drv[d])
    BY <1>2, <2>1 DEF Knows, Walking
  <2>3. s \notin Completed(row)
    BY <2>1, <2>2 DEF KnowsInWalk, SavedOf
  <2>4. row.status # "none" /\ ~HasOutcome(row)
    BY <2>2 DEF KnowsInWalk, Open, Active, HasOutcome, IsTerminal, IsCancelled
  <2>5. row'.run = row.run /\ row'.status # "none" /\ \E v : row'.step = [row.step EXCEPT ![s] = v]
    <3>1. CASE SleepBody(d, s) \/ SignalPark(d, s)
      <4>1. \E v \in Parked : Suspend(d, s, v, TRUE) \/ Suspend(d, s, v, FALSE)
        BY <1>8, <3>1 DEF SleepBody, SignalPark, Parked
      <4> QED
        BY <1>1, <2>1, <4>1 DEF Suspend, Row
    <3>2. CASE Checkpoint(d, s)
      BY <1>1, <2>4, <3>2 DEF Checkpoint, Row
    <3> QED
      BY <1>8, <3>1, <3>2
  <2>6. Completed(row) \subseteq Completed(row')
    BY <1>1, <2>3, <2>5, StepWriteIsWithin
  <2> QED
    BY <2>4, <2>5, <2>6 DEF WritesWithin
<1> QED
  BY <1>3, <1>4, <1>5, <1>6, <1>7, <1>8 DEF Writes

(* What any step may do to the stored run. *)
LEMMA RowCases ==
    ASSUME RunInv, [Next]_vars
    PROVE  \/ row' = row
           \/ row.status = "none" /\ row' = Empty("pending", 1)
           \/ row.status # "none" /\ row' = Empty("pending", row.run + 1)
           \/ WritesWithin(row, row')
<1>1. TypeOK /\ TypeOK' /\ row \in Row
  BY RunStep DEF RunInv, TypeOK
<1>2. CASE Submit \/ Cancel
  <2>1. CASE row.status = "none" /\ row' = Empty("pending", 1)
    BY <2>1
  <2>2. CASE row.status \in Active /\ row' = Cancelled(row)
    <3>1. row'.run = row.run /\ row'.step = row.step /\ row'.status = "failed"
      BY <1>1, <2>2 DEF Cancelled, Row
    <3> QED
      BY <2>2, <3>1 DEF WritesWithin, HasOutcome, IsTerminal, Active, Completed
  <2> QED
    BY <1>1, <1>2, <2>1, <2>2, WorldFacts
<1> QED
  BY <1>1, <1>2, WriteCases, OnlyWritersWrite

(* in-memory/run-record.ts, orchestrate.ts: a run that completed, failed by *)
(* itself or tripped is written by nobody again, a forced or chained fresh *)
(* run apart, which takes the next number.                                 *)
OutcomeIsFinal == [][HasOutcome(row) => row' = row \/ row' = Empty("pending", row.run + 1)]_vars

(* Drivers that lapsed, come late or rolled back on another's word write to *)
(* no run that has its outcome, in any workflow, sleeps and waits included. *)
THEOREM OutcomesAreFinal == Spec => OutcomeIsFinal
<1>1. ASSUME RunInv, [Next]_vars, HasOutcome(row)
      PROVE  row' = row \/ row' = Empty("pending", row.run + 1)
  <2>1. row.status # "none" /\ ~WritesWithin(row, row')
    BY <1>1 DEF HasOutcome, IsTerminal, WritesWithin
  <2> QED
    BY <1>1, <2>1, RowCases
<1>2. RunInv /\ [Next]_vars => [HasOutcome(row) => row' = row \/ row' = Empty("pending", row.run + 1)]_vars
  BY <1>1
<1> QED
  BY <1>2, RunInvariant, PTL DEF Spec, OutcomeIsFinal

(* Before a run is created it has no number and no steps. *)
Blank == row.status = "none" => row = Empty("none", 0)

(* step-checkpoint.ts: within a run a completed step stays completed,       *)
(* through retries of the workflow, takeovers, parks and rollbacks.        *)
CompletedStays == [][row'.run = row.run => Completed(row) \subseteq Completed(row')]_vars

(* No retry, resume, takeover or late failure of a superseded driver takes  *)
(* back a step a run has stored as completed.                              *)
THEOREM CompletedStepsStay == Spec => CompletedStays
<1>1. Init => Blank
  BY DEF Init, Blank
<1>2. RunInv /\ Blank /\ [Next]_vars => Blank'
  <2>1. \A n : Empty("pending", n).status = "pending"
    BY DEF Empty
  <2> QED
    BY <2>1, RowCases DEF Blank, WritesWithin
<1>3. ASSUME RunInv, Blank, [Next]_vars, row'.run = row.run
      PROVE  Completed(row) \subseteq Completed(row')
  <2>1. row.run \in Nat
    BY <1>3 DEF RunInv, TypeOK, Row
  <2>2. Empty("pending", 1).run = 1 /\ Empty("none", 0).run = 0 /\ Empty("pending", row.run + 1).run = row.run + 1
    BY DEF Empty
  <2> QED
    BY <1>3, <2>1, <2>2, RowCases DEF Blank, WritesWithin
<1>4. RunInv /\ Blank /\ [Next]_vars => [row'.run = row.run => Completed(row) \subseteq Completed(row')]_vars
  BY <1>3
<1> QED
  BY <1>1, <1>2, <1>4, RunInvariant, PTL DEF Spec, CompletedStays

-----------------------------------------------------------------------------
(* The run lock *)

(* The lock of this run, as the only one of a storage.  Who writes under it *)
(* is the business of the other theorems: no write is counted here.        *)
RunLock == INSTANCE FencedLock WITH
    Workflows <- {"run"}, lock <- [w \in {"run"} |-> lock], accepted <- [w \in {"run"} |-> 0]

UsesFencedLock == RunLock!Spec

(* withLock, tryLockAndLoad: drivers, scanners and recovery do nothing to   *)
(* the lock that FencedLock does not allow, which LeaseTable implements:   *)
(* a live lease is never taken over, a stale release frees nothing of a    *)
(* later holder's, and every token is new.                                 *)
THEOREM RunUsesTheLock == Spec => UsesFencedLock
<1> USE DEF Granted, RunLock!Granted, NoLock, RunLock!NoLock, Lapsed, RunLock!Lapsed
<1>1. Init => RunLock!Init
  BY DEF Init, RunLock!Init
<1>2. RunInv /\ [Next]_vars => [RunLock!Next]_(RunLock!lockVars)
  <2> SUFFICES ASSUME RunInv, [Next]_vars PROVE [RunLock!Next]_(RunLock!lockVars)
    OBVIOUS
  <2> DEFINE l == [w \in {"run"} |-> lock]
  <2>0. l["run"] = lock /\ l' = [w \in {"run"} |-> lock'] /\ "run" \in {"run"}
    OBVIOUS
  <2>1. CASE UNCHANGED lockVars
    BY <2>1 DEF lockVars, RunLock!lockVars
  <2>2. ASSUME NEW d \in Drivers, NEW force \in BOOLEAN, TryLockAndLoad(d, force) PROVE RunLock!Acquire("run")
    <3>1. ~l["run"].live /\ issued' = issued + 1 /\ l' = [l EXCEPT !["run"] = Granted(issued + 1)]
      BY <2>0, <2>2 DEF TryLockAndLoad
    <3> QED
      BY <3>1 DEF RunLock!Acquire
  <2>3. ASSUME NEW d \in Drivers, Release(d)
        PROVE  RunLock!Free("run") \/ UNCHANGED RunLock!lockVars
    <3>1. issued' = issued /\ (lock' = lock \/ lock' = NoLock)
      BY <2>3 DEF Release, AfterRelease
    <3>2. CASE lock' = lock
      BY <3>1, <3>2 DEF RunLock!lockVars
    <3>3. CASE lock' = NoLock
      <4>1. l' = [l EXCEPT !["run"] = NoLock]
        BY <3>3
      <4> QED
        BY <3>1, <4>1 DEF RunLock!Free
    <3> QED
      BY <3>1, <3>2, <3>3
  <2>4. CASE Expire
    <3>1. /\ \A w \in {"run"} : l[w].live
          /\ l' = [w \in {"run"} |-> IF w \in {"run"} THEN Lapsed(l[w]) ELSE l[w]]
          /\ issued' = issued
      BY <2>4 DEF Expire
    <3>2. RunLock!Expire({"run"})
      BY <3>1 DEF RunLock!Expire
    <3> QED
      BY <3>2 DEF RunLock!Next
  <2>5. ASSUME NEW d \in Drivers, Drive(d) PROVE UNCHANGED lockVars \/ Release(d)
    BY <2>5, DriveMoves DEF RunInv, Moves
  <2>6. ASSUME NEW d \in Drivers, NoticeLoss(d) \/ Abandon(d) \/ Crash(d) PROVE UNCHANGED lockVars
    BY <2>6 DEF NoticeLoss, Abandon, Crash
  <2>7. ASSUME Submit \/ Cancel \/ (\E s \in Steps : TimerDue(s) \/ DeliverSignal(s)) \/ UNCHANGED vars
        PROVE  UNCHANGED lockVars
    BY <2>7 DEF Submit, Cancel, TimerDue, DeliverSignal, vars, lockVars
  <2>8. ASSUME NEW d \in Drivers, Recover(d) \/ ScanAndResume(d) \/ \E force \in BOOLEAN : Call(d, force)
        PROVE  RunLock!Acquire("run")
    BY <2>2, <2>8 DEF Recover, ScanAndResume, Call
  <2>9. ASSUME RunLock!Acquire("run") \/ RunLock!Free("run") PROVE RunLock!Next
    BY <2>9 DEF RunLock!Next
  <2> QED
    BY <2>1, <2>3, <2>4, <2>5, <2>6, <2>7, <2>8, <2>9 DEF Next
<1> QED
  BY <1>1, <1>2, RunInvariant, PTL DEF Spec, UsesFencedLock, RunLock!Spec
=============================================================================
