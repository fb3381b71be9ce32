------------------------- MODULE JournaledStepProofs -------------------------
(***************************************************************************)
(* Journaled steps, for any body, drivers, retries and faults.             *)
(*                                                                         *)
(* While a driver holds the run lock nobody else changes the journal but   *)
(* the signal scanner, which only completes a pending wait: so what the    *)
(* holder loaded as completed still is.  When the body catches no failure, *)
(* every yield has its slot and the one behind it for its compensation,    *)
(* whichever attempt comes by.  The row in that slot tells what of the     *)
(* activity is in force, and a row that is pending stays so once its       *)
(* driver has lost the lock: nobody runs the activity again.               *)
(***************************************************************************)
EXTENDS JournaledStep, FiniteSetTheorems, WellFoundedInduction, TLAPS

-----------------------------------------------------------------------------
(* Types. *)

PCs == {"idle", "yield", "activity", "signal", "child", "take", "retake", "drive", "park", "parked",
        "record", "unwind", "undo", "undone", "over", "leave", "complete", "halt", "fail"}
Names == Range(Body)
Entry == [name : Names \cup {""}, kind : {"", "activity", "signal", "child", "compensation"},
          phase : {"none", "pending", "completed"}, exit : Exits]
Comp == [slot : Slots, source : Slots, name : Activities, value : Nat]
Driver == [pc : PCs, at : Nat, next : Nat, snap : [Slots -> Entry],
           seen : SUBSET [slot : Slots, exit : Exits], comps : SUBSET Comp, hand : Exits,
           rolled : SUBSET Slots]

(* A driver at a yield of the body. *)
AtWork == {"activity", "signal", "child", "take", "retake", "drive", "park", "parked", "record"}
Placed(x) ==
    /\ x.pc = "yield" => x.at \in 1 .. Len(Body) + 1 /\ x.next <= 2 * (x.at - 1)
    /\ x.pc \in AtWork => x.at \in 1 .. Len(Body) /\ x.next <= 2 * (x.at - 1)
    /\ x.pc \notin AtWork \cup {"yield"} => x.at = 0 /\ x.next = 0
    /\ x.pc \in {"activity", "signal", "child"} => Kind[Body[x.at]] = x.pc
    /\ x.pc \in {"take", "retake", "drive", "park", "parked"} => Kind[Body[x.at]] = "child"
    /\ x.pc = "record" => Kind[Body[x.at]] \in {"activity", "child"}
    /\ x.pc \in {"undo", "undone"} => x.comps # {}

JournalTyped ==
    /\ journal \in [Slots -> Entry]
    /\ \A s \in Slots : journal[s].phase = "none" => journal[s] = NoEntry

RunTyped ==
    /\ run \in [status : {"running", "suspended", "completed", "failed", "halted"},
                waits : {"", "signal", "child"}, on : Nat, timed : BOOLEAN, done : BOOLEAN]
    /\ run.waits # "" => run.status = "suspended"
    /\ owner \in Drivers \cup {Nobody}

DriversTyped ==
    /\ drv \in [Drivers -> Driver]
    /\ \A d \in Drivers : Placed(drv[d]) /\ (drv[d].pc \in {"take", "retake", "drive"} => child.run > 0)

ChildStates == {"none", "running", "suspended", "awake", "completed", "failed"}
ChildTyped ==
    /\ child \in [status : ChildStates, run : Nat, by : Drivers \cup {Nobody, ChildDriver}]
    /\ (child.run = 0) = (child.status = "none") /\ (child.run = 0 => child.by = Nobody)
    /\ ended \cup waking \subseteq 1 .. child.run

EffectsTyped ==
    /\ inForce \in [Activities -> SUBSET Nat] /\ executed \in [Activities -> Nat]
    /\ \A a \in Activities : inForce[a] \subseteq 1 .. executed[a]
    /\ \A a \in Activities \cap Idempotent : executed[a] <= 1

Types == JournalTyped /\ RunTyped /\ DriversTyped /\ ChildTyped /\ EffectsTyped

-----------------------------------------------------------------------------
(* What the holder of the lock, in state x, knows of the journal j. *)
Knows(x, j) ==
    /\ \A s \in Slots : x.snap[s].phase = "completed" => j[s] = x.snap[s]
    /\ \A r \in x.seen : j[r.slot].phase = "completed" /\ j[r.slot].exit = r.exit
    /\ x.pc \in AtWork => j[x.next].phase # "none"

LiveInv == Types /\ \A d \in Drivers : Holds(d) => Knows(drv[d], journal)

-----------------------------------------------------------------------------
(* A body that catches nothing: where yield i has its row. *)
Yields == 1 .. Len(Body)
CompsBefore(i) == {j \in Yields : j < i /\ Body[j] \in Compensable}
SlotOf(i) == (i - 1) + Cardinality(CompsBefore(i))

(* The yields whose effects count, and those whose rollback cannot fail. *)
Single(i) == Body[i] \in Activities \ Idempotent
Good(i) == Body[i] \in Compensable \ (UndoCanFail \cup Idempotent)

Done(row) == row.phase = "completed" /\ row.exit.ok
Fell(row) == row.phase = "completed" /\ ~ row.exit.ok

(* The journal j, when f is in force: what the rows of a yield are, and    *)
(* what they say of its effect.                                            *)
RowsNamed(j) ==
    \A i \in Yields :
        /\ j[SlotOf(i)].phase # "none" =>
             j[SlotOf(i)].name = Body[i] /\ j[SlotOf(i)].kind = Kind[Body[i]]
        /\ Body[i] \in Compensable /\ j[SlotOf(i) + 1].phase # "none" =>
             j[SlotOf(i) + 1].kind = "compensation" /\ Done(j[SlotOf(i)])

RowTells(row, f) ==
    /\ row.phase = "none" => f = {}
    /\ row.phase = "pending" => \A u, v \in f : u = v
    /\ Done(row) => f \subseteq {row.exit.value}
    /\ Fell(row) => f = {}

UndoTells(row, i, f) ==
    /\ Done(row) => f = {}
    /\ Fell(row) => Body[i] \in UndoCanFail

RowsTell(j, f) ==
    \A i \in Yields : Single(i) =>
        /\ RowTells(j[SlotOf(i)], f[Body[i]])
        /\ Body[i] \in Compensable => UndoTells(j[SlotOf(i) + 1], i, f[Body[i]])

(* What can be undone was reached by an attempt in which all before it     *)
(* went well.                                                              *)
RowsInOrder(j) ==
    \A k \in Yields : Good(k) /\ j[SlotOf(k)].phase # "none" =>
        \A i \in Yields : i < k => Done(j[SlotOf(i)])

NothingGood(j) == \A k \in Yields : Good(k) => j[SlotOf(k)].phase = "none"

(* A driver, holder or not, that is running a single activity. *)
Busy(x) == x.pc \in {"activity", "record"} /\ Single(x.at)
BusySound(x, j, f) ==
    Busy(x) =>
        /\ j[SlotOf(x.at)].phase = "pending"
        /\ x.pc = "activity" => f[Body[x.at]] = {}
        /\ x.pc = "record" /\ x.hand.ok => f[Body[x.at]] \subseteq {x.hand.value}
        /\ x.pc = "record" /\ ~ x.hand.ok => f[Body[x.at]] = {}

OneBusy == \A d, e \in Drivers : Busy(drv[d]) /\ Busy(drv[e]) /\ drv[d].at = drv[e].at => d = e

(* The holder on its way through the body, and the slots it has not come to. *)
Ahead(x, s) == s > x.next \/ (x.pc = "yield" /\ s = x.next)
OnItsWay(x, j) ==
    x.pc \in AtWork \cup {"yield"} =>
        /\ x.rolled = {}
        /\ \A s \in Slots : Ahead(x, s) /\ x.snap[s].phase = "none" => j[s].phase = "none"
        /\ \A i \in Yields : i < x.at => Done(j[SlotOf(i)])
        /\ \A i \in Yields : i < x.at /\ Body[i] \in Compensable => \E c \in x.comps : c.name = Body[i]

(* Its compensations, registered and run. *)
CompSound(c, j) ==
    \E i \in Yields :
        /\ Body[i] \in Compensable /\ c.name = Body[i] /\ c.source = SlotOf(i) /\ c.slot = SlotOf(i) + 1
        /\ Done(j[SlotOf(i)]) /\ j[SlotOf(i)].exit.value = c.value

RolledBack(i, x, j, f) ==
    /\ Body[i] \in Compensable /\ SlotOf(i) \in x.rolled /\ SlotOf(i) + 1 \in x.rolled
    /\ Done(j[SlotOf(i)]) /\ (Single(i) => f[Body[i]] = {})
RolledSound(x, j, f) ==
    \A s \in x.rolled : \E i \in Yields : s \in {SlotOf(i), SlotOf(i) + 1} /\ RolledBack(i, x, j, f)

Unwinding(x, j, f) ==
    /\ x.pc \in {"unwind", "undo", "undone"} =>
         \A k \in Yields : Good(k) =>
            \/ j[SlotOf(k)].phase = "none" \/ Fell(j[SlotOf(k)])
            \/ SlotOf(k) \in x.rolled \/ \E c \in x.comps : c.name = Body[k]
    /\ x.pc = "undone" =>
         LET c == NextComp(x.comps) IN
            \/ x.hand.ok /\ (c.name \notin Idempotent => f[c.name] = {})
            \/ ~ x.hand.ok /\ c.name \in UndoCanFail
    /\ x.pc \in {"over", "fail"} => NothingGood(j)

Owns(x, j, f) ==
    /\ OnItsWay(x, j)
    /\ \A c \in x.comps : CompSound(c, j)
    /\ RolledSound(x, j, f) /\ Unwinding(x, j, f)

(* Where a driver in the body, holder or not, has its row. *)
InPlace(x) == x.pc \in AtWork \cup {"yield"} => x.next = SlotOf(x.at)

StepInv ==
    /\ LiveInv
    /\ RowsNamed(journal) /\ RowsTell(journal, inForce) /\ RowsInOrder(journal)
    /\ OneBusy
    /\ \A d \in Drivers : /\ BusySound(drv[d], journal, inForce)
                          /\ InPlace(drv[d])
                          /\ Holds(d) => Owns(drv[d], journal, inForce)
    /\ run.status = "failed" => owner = Nobody /\ NothingGood(journal)

-----------------------------------------------------------------------------
(* The body: every yield has a name and a kind. *)
LEMMA BodyFacts ==
    /\ Len(Body) \in Nat /\ DOMAIN Body = Yields
    /\ \A i \in Yields : Body[i] \in Names /\ Kind[Body[i]] \in {"activity", "signal", "child"}
    /\ \A i, k \in Yields : Body[i] = Body[k] => i = k
    /\ Compensable \subseteq Activities /\ Activities \subseteq Names
    /\ \A i \in Yields : Body[i] \in Activities <=> Kind[Body[i]] = "activity"
    /\ Nobody \notin Drivers /\ ChildDriver \notin Drivers /\ ChildDriver # Nobody
<1>1. /\ Body \in Seq(DOMAIN Kind) /\ Kind \in [DOMAIN Kind -> {"activity", "signal", "child"}]
      /\ \A i, j \in DOMAIN Body : Body[i] = Body[j] => i = j
      /\ Compensable \subseteq {y \in Range(Body) : Kind[y] = "activity"}
      /\ Nobody \notin Drivers /\ ChildDriver \notin Drivers \cup {Nobody}
  BY JournalAssumption
<1>2. Len(Body) \in Nat /\ DOMAIN Body = 1 .. Len(Body)
  BY <1>1
<1>3. \A i \in 1 .. Len(Body) : Body[i] \in DOMAIN Kind /\ Body[i] \in Range(Body)
  BY <1>1, <1>2 DEF Range
<1> QED
  BY <1>1, <1>2, <1>3 DEF Yields, Names, Activities

(* Exits and entries are typed. *)
LEMMA EntryTypes ==
    /\ NoExit \in Exits /\ Failure \in Exits /\ LockLost \in Exits /\ Delivered \in Exits
    /\ TimedOut \in Exits /\ NoEntry \in Entry /\ NoEntry.phase = "none"
    /\ TimedOut.ok /\ ~ LockLost.ok /\ ~ Failure.ok /\ ~ NoExit.ok
    /\ \A v \in Nat : Success(v) \in Exits /\ Success(v).ok /\ Success(v).value = v
    /\ \A n \in Names : \A k \in {"activity", "signal", "child", "compensation"} :
         /\ Pending(n, k) \in Entry /\ Pending(n, k).phase = "pending"
         /\ Pending(n, k).name = n /\ Pending(n, k).kind = k
    /\ NewJournal \in [Slots -> Entry] /\ \A s \in Slots : NewJournal[s] = NoEntry
<1>1. /\ NoExit \in Exits /\ Failure \in Exits /\ LockLost \in Exits /\ Delivered \in Exits
      /\ TimedOut \in Exits /\ TimedOut.ok /\ ~ LockLost.ok /\ ~ Failure.ok /\ ~ NoExit.ok
      /\ \A v \in Nat : Success(v) \in Exits /\ Success(v).ok /\ Success(v).value = v
  BY DEF NoExit, Failure, LockLost, Delivered, TimedOut, Success, Exits
<1>2. NoEntry \in Entry /\ NoEntry.phase = "none"
  BY <1>1 DEF NoEntry, Entry
<1>3. \A n \in Names : \A k \in {"activity", "signal", "child", "compensation"} :
        /\ Pending(n, k) \in Entry /\ Pending(n, k).phase = "pending"
        /\ Pending(n, k).name = n /\ Pending(n, k).kind = k
  BY <1>1 DEF Pending, Entry
<1> QED
  BY <1>1, <1>2, <1>3 DEF NewJournal

(* A driver with nothing in hand. *)
Bare(x, pc) ==
    /\ x \in Driver /\ x.pc = pc /\ x.at = 0 /\ x.next = 0 /\ x.seen = {} /\ x.comps = {}
    /\ x.rolled = {} /\ x.snap = NewJournal

BarePCs == {"idle", "over", "leave", "complete", "halt", "fail"}

(* Idle, the two ends of an attempt, and those of a step are such drivers. *)
LEMMA BareDriver ==
    ASSUME NEW pc \in BarePCs
    PROVE  Bare([Idle EXCEPT !.pc = pc], pc) /\ Bare(Idle, "idle")
<1>1. NewJournal \in [Slots -> Entry] /\ NoExit \in Exits
  BY EntryTypes
<1> QED
  BY <1>1 DEF Bare, BarePCs, Idle, Driver, PCs

(* runJournaledStep begins. *)
LEMMA BegunDriver ==
    ASSUME JournalTyped
    PROVE  /\ Begun \in Driver /\ Begun.pc = "yield" /\ Begun.at = 1 /\ Begun.next = 0
           /\ Begun.seen = {} /\ Begun.comps = {} /\ Begun.rolled = {} /\ Begun.snap = journal
<1>1. NewJournal \in [Slots -> Entry] /\ NoExit \in Exits /\ journal \in [Slots -> Entry]
  BY EntryTypes DEF JournalTyped
<1> QED
  BY <1>1 DEF Begun, Idle, Driver, PCs

(* One driver moves. *)
LEMMA OneDriver ==
    ASSUME drv \in [Drivers -> Driver], NEW d \in Drivers, NEW y, Set(d, y)
    PROVE  drv'[d] = y /\ \A e \in Drivers : e # d => drv'[e] = drv[e]
BY DEF Set

(* Where a driver in the body is. *)
LEMMA InBody ==
    ASSUME NEW x \in Driver, Placed(x), x.pc \in AtWork \/ (x.pc = "yield" /\ x.at <= Len(Body))
    PROVE  /\ x.at \in Yields /\ x.at \in Nat /\ x.next \in Nat /\ x.next <= 2 * (x.at - 1)
           /\ x.next \in Slots /\ x.next + 1 \in Slots
<1>1. x.at \in Nat /\ x.next \in Nat /\ Len(Body) \in Nat
  BY BodyFacts DEF Driver
<1>2. x.at \in 1 .. Len(Body) /\ x.next <= 2 * (x.at - 1)
  BY <1>1 DEF Placed
<1> QED
  BY <1>1, <1>2 DEF Yields, Slots

-----------------------------------------------------------------------------
(* The journal store.  appendPending writes an empty slot only. *)
LEMMA AppendFacts ==
    ASSUME JournalTyped, NEW s \in Slots, NEW n \in Names,
           NEW k \in {"activity", "signal", "child", "compensation"}, AppendPending(s, n, k)
    PROVE  /\ JournalTyped'
           /\ \A t \in Slots : t # s => journal'[t] = journal[t]
           /\ journal[s].phase # "none" => journal'[s] = journal[s]
           /\ journal[s].phase = "none" =>
                journal'[s].phase = "pending" /\ journal'[s].name = n /\ journal'[s].kind = k
           /\ journal'[s].phase # "none"
<1> DEFINE new == IF journal[s].phase = "none" THEN Pending(n, k) ELSE journal[s]
<1>1. journal \in [Slots -> Entry] /\ journal' = [journal EXCEPT ![s] = new]
  BY DEF JournalTyped, AppendPending
<1>2. new \in Entry /\ new.phase # "none" /\ (journal[s].phase # "none" => new = journal[s])
      /\ (journal[s].phase = "none" => new.phase = "pending" /\ new.name = n /\ new.kind = k)
  <2>1. journal[s] \in Entry
    BY <1>1
  <2> QED
    BY <2>1, EntryTypes
<1> HIDE DEF new
<1>3. journal'[s] = new /\ \A t \in Slots : t # s => journal'[t] = journal[t]
  BY <1>1
<1>4. JournalTyped'
  BY <1>1, <1>2, <1>3 DEF JournalTyped
<1> QED
  BY <1>2, <1>3, <1>4

(* completePending: the first writer wins. *)
LEMMA CompleteFacts ==
    ASSUME JournalTyped, NEW s \in Slots, NEW e \in Exits, CompletePending(s, e)
    PROVE  /\ JournalTyped'
           /\ \A t \in Slots : t # s => journal'[t] = journal[t]
           /\ journal[s].phase # "pending" => journal'[s] = journal[s]
           /\ journal[s].phase = "pending" =>
                /\ journal'[s].phase = "completed" /\ journal'[s].exit = e
                /\ journal'[s].name = journal[s].name /\ journal'[s].kind = journal[s].kind
<1> DEFINE full == [journal[s] EXCEPT !.phase = "completed", !.exit = e]
           new == IF journal[s].phase = "pending" THEN full ELSE journal[s]
<1>1. journal \in [Slots -> Entry] /\ journal' = [journal EXCEPT ![s] = new] /\ journal[s] \in Entry
  BY DEF JournalTyped, CompletePending
<1>2. /\ full \in Entry /\ full.phase = "completed" /\ full.exit = e
      /\ full.name = journal[s].name /\ full.kind = journal[s].kind
  BY <1>1 DEF Entry
<1> HIDE DEF full
<1>3. /\ new \in Entry /\ (journal[s].phase # "pending" => new = journal[s])
      /\ (journal[s].phase = "pending" => new = full)
  BY <1>1, <1>2
<1> HIDE DEF new
<1>4. journal'[s] = new /\ \A t \in Slots : t # s => journal'[t] = journal[t]
  BY <1>1, <1>3
<1>5. JournalTyped'
  BY <1>1, <1>2, <1>3, <1>4 DEF JournalTyped
<1> QED
  BY <1>2, <1>3, <1>4, <1>5

-----------------------------------------------------------------------------
(* What becomes of a driver whose yield has settled. *)
GoesOn(x, y, exit, comps) ==
    /\ y.pc = "yield" /\ y.at = x.at + 1 /\ y.comps = comps
    /\ y.next = x.next + (IF exit.ok /\ Body[x.at] \in Compensable THEN 2 ELSE 1)
    /\ y.seen = x.seen \cup {[slot |-> x.next, exit |-> exit]}
    /\ y.snap = x.snap /\ y.rolled = x.rolled
Fails(x, y) ==
    /\ y.pc = "unwind" /\ y.at = 0 /\ y.next = 0 /\ y.seen = {} /\ y.comps = x.comps
    /\ y.snap = x.snap /\ y.rolled = x.rolled

(* A settled yield goes on, out with the lock lost, or into the unwind. *)
LEMMA SettledFields ==
    ASSUME NEW d \in Drivers, NEW exit \in Exits, drv[d] \in Driver, Placed(drv[d]),
           drv[d].pc \in AtWork \/ (drv[d].pc = "yield" /\ drv[d].at <= Len(Body))
    PROVE  /\ Settled(d, exit) \in Driver /\ Placed(Settled(d, exit))
           /\ \/ /\ exit.ok \/ Yield(d) \in Caught
                 /\ GoesOn(drv[d], Settled(d, exit), exit, Registered(d, exit))
              \/ ~ exit.ok /\ exit = LockLost /\ Bare(Settled(d, exit), "leave")
              \/ ~ exit.ok /\ exit # LockLost /\ Fails(drv[d], Settled(d, exit))
<1> DEFINE x == drv[d]
           y == Settled(d, exit)
           step == IF Reserves(d, exit) THEN 2 ELSE 1
           got == [slot |-> x.next, exit |-> exit]
<1>1. /\ x.at \in Yields /\ x.at \in Nat /\ x.next \in Nat /\ x.next <= 2 * (x.at - 1)
      /\ x.next \in Slots /\ x.next + 1 \in Slots /\ x \in Driver
  BY InBody
<1>2. exit.ok \in BOOLEAN /\ exit.value \in Nat /\ NoExit \in Exits
  BY EntryTypes DEF Exits
<1>3. CASE exit.ok \/ Yield(d) \in Caught
  <2>1. y = [x EXCEPT !.pc = "yield", !.at = x.at + 1, !.hand = NoExit, !.next = x.next + step,
                      !.seen = x.seen \cup {got}, !.comps = Registered(d, exit)]
    BY <1>1, <1>3 DEF Settled, Driver
  <2>2. Registered(d, exit) \in SUBSET Comp
    <3>1. x.comps \in SUBSET Comp
      BY <1>1 DEF Driver
    <3>2. CASE ~ Reserves(d, exit)
      BY <3>1, <3>2 DEF Registered
    <3>3. CASE Reserves(d, exit)
      <4> DEFINE c == [slot |-> x.next + 1, source |-> x.next, name |-> Yield(d), value |-> exit.value]
      <4>1. Yield(d) \in Activities
        BY <3>3, BodyFacts DEF Reserves
      <4>2. c \in Comp
        BY <1>1, <1>2, <4>1 DEF Comp
      <4>3. Registered(d, exit) = x.comps \cup {c}
        BY <3>3 DEF Registered
      <4> QED
        BY <3>1, <4>2, <4>3
    <3> QED
      BY <3>2, <3>3
  <2>3. step \in {1, 2} /\ x.at + 1 \in Nat /\ x.next + step \in Nat
    BY <1>1
  <2>4. got \in [slot : Slots, exit : Exits]
    BY <1>1
  <2>5. x.seen \cup {got} \in SUBSET [slot : Slots, exit : Exits]
    BY <1>1, <2>4 DEF Driver
  <2>6. /\ y \in Driver /\ y.pc = "yield" /\ y.at = x.at + 1 /\ y.next = x.next + step
        /\ y.seen = x.seen \cup {got} /\ y.comps = Registered(d, exit) /\ y.snap = x.snap
        /\ y.rolled = x.rolled
    <3> HIDE DEF step, got, x, y
    <3> QED
      BY <1>1, <1>2, <2>1, <2>2, <2>3, <2>5 DEF Driver, PCs
  <2>7. step = IF exit.ok /\ Body[x.at] \in Compensable THEN 2 ELSE 1
    BY DEF Reserves, Yield
  <2>8. x.at + 1 \in 1 .. Len(Body) + 1 /\ x.next + step <= 2 * ((x.at + 1) - 1)
    <3> HIDE DEF x, step
    <3>1. Len(Body) \in Nat /\ step \in {1, 2}
      BY <2>3, BodyFacts
    <3>2. x.at \in Nat /\ x.at >= 1 /\ x.at <= Len(Body) /\ x.next \in Nat /\ x.next <= 2 * (x.at - 1)
      BY <1>1, <3>1 DEF Yields
    <3> QED
      BY <3>1, <3>2
  <2>9. GoesOn(x, y, exit, Registered(d, exit))
    <3> HIDE DEF x, y, step
    <3> QED
      BY <2>6, <2>7 DEF GoesOn
  <2>10. Placed(y)
    <3> HIDE DEF x, y, step
    <3> QED
      BY <2>6, <2>8 DEF Placed, AtWork
  <2> QED
    BY <1>3, <2>6, <2>9, <2>10
<1>4. CASE ~ exit.ok /\ Yield(d) \notin Caught /\ exit = LockLost
  <2>1. y = [Idle EXCEPT !.pc = "leave"]
    BY <1>4 DEF Settled
  <2>2. Bare(y, "leave")
    BY <2>1, BareDriver DEF BarePCs
  <2>3. Placed(y)
    BY <2>2 DEF Bare, Placed, AtWork
  <2> QED
    BY <1>4, <2>2, <2>3 DEF Bare
<1>5. CASE ~ exit.ok /\ Yield(d) \notin Caught /\ exit # LockLost
  <2>1. y = [x EXCEPT !.pc = "unwind", !.hand = NoExit, !.at = 0, !.next = 0, !.seen = {}]
    BY <1>5 DEF Settled
  <2>2. y \in Driver /\ Fails(x, y)
    <3> HIDE DEF x, y
    <3> QED
      BY <1>1, <1>2, <2>1 DEF Driver, PCs, Fails
  <2>3. Placed(y)
    <3> HIDE DEF x, y
    <3> QED
      BY <2>2 DEF Fails, Placed, AtWork
  <2> QED
    BY <1>5, <2>2, <2>3
<1> QED
  BY <1>3, <1>4, <1>5

(* A driver goes on where it is, with an outcome in hand. *)
Stays(x, y, pc, hand) ==
    /\ y \in Driver /\ y.pc = pc /\ y.hand = hand
    /\ y.at = x.at /\ y.next = x.next /\ y.seen = x.seen /\ y.comps = x.comps
    /\ y.snap = x.snap /\ y.rolled = x.rolled

(* A change of position and outcome leaves the rest of the driver alone. *)
LEMMA StaysFields ==
    ASSUME NEW x \in Driver, NEW pc \in PCs, NEW hand \in Exits
    PROVE  /\ Stays(x, [x EXCEPT !.pc = pc], pc, x.hand)
           /\ Stays(x, [x EXCEPT !.pc = pc, !.hand = hand], pc, hand)
BY DEF Stays, Driver

(* A compensation is through. *)
CompGone(x, y, c, ok) ==
    /\ y \in Driver /\ y.pc = "unwind" /\ y.comps = x.comps \ {c}
    /\ y.at = x.at /\ y.next = x.next /\ y.seen = x.seen /\ y.snap = x.snap
    /\ y.rolled = IF ok THEN x.rolled \cup {c.source, c.slot} ELSE x.rolled

(* CompDone takes the compensation off, and notes it when it went well. *)
LEMMA CompDoneFields ==
    ASSUME NEW d \in Drivers, drv[d] \in Driver, NEW c \in drv[d].comps, NEW ok \in BOOLEAN
    PROVE  CompGone(drv[d], CompDone(d, c, ok), c, ok)
<1> DEFINE x == drv[d]
           r == IF ok THEN x.rolled \cup {c.source, c.slot} ELSE x.rolled
<1>1. c.source \in Slots /\ c.slot \in Slots /\ x \in Driver
  BY DEF Driver, Comp
<1>2. r \in SUBSET Slots /\ x.comps \ {c} \in SUBSET Comp /\ NoExit \in Exits
  BY <1>1, EntryTypes DEF Driver
<1>3. CompDone(d, c, ok) =
        [x EXCEPT !.pc = "unwind", !.comps = x.comps \ {c}, !.hand = NoExit, !.rolled = r]
  BY <1>1 DEF CompDone, Driver
<1> HIDE DEF r, x
<1>4. CompDone(d, c, ok) \in Driver /\ CompDone(d, c, ok).rolled = r
  BY <1>1, <1>2, <1>3 DEF Driver, PCs
<1>5. CompGone(x, CompDone(d, c, ok), c, ok)
  BY <1>1, <1>3, <1>4 DEF Driver, CompGone, r
<1> QED
  BY <1>5 DEF x

(* A nonempty set of numbers has a least one. *)
LEMMA LeastNumber ==
    ASSUME NEW S, S \subseteq Nat, S # {}
    PROVE  \E x \in S : \A y \in S : x <= y
<1>1. PICK x \in S : \A y \in S : ~ (<<y, x>> \in OpToRel(<, Nat))
  BY NatLessThanWellFounded, WFMin
<1>2. ASSUME NEW y \in S PROVE x <= y
  <2>1. x \in Nat /\ y \in Nat /\ <<y, x>> \in Nat \X Nat
    OBVIOUS
  <2>2. ~ (y < x)
    BY <1>1, <2>1 DEF OpToRel
  <2> QED
    BY <2>1, <2>2
<1> QED
  BY <1>2

(* The compensation to run next is a registered one, behind no other. *)
LEMMA NextCompFacts ==
    ASSUME NEW S \in SUBSET Comp, S # {}
    PROVE  NextComp(S) \in S /\ \A c \in S : c.slot <= NextComp(S).slot
<1> DEFINE n == 2 * Len(Body)
           T == {n - c.slot : c \in S}
<1>1. n \in Nat /\ Slots = 0 .. n
  BY BodyFacts DEF Slots
<1> HIDE DEF n
<1>2. \A c \in S : c.slot \in Nat /\ c.slot <= n
  BY <1>1 DEF Comp
<1>3. T \subseteq Nat /\ T # {}
  BY <1>1, <1>2
<1>4. PICK m \in T : \A y \in T : m <= y
  BY <1>3, LeastNumber
<1>5. PICK c \in S : m = n - c.slot
  OBVIOUS
<1>6. \A o \in S : o.slot <= c.slot
  <2> TAKE o \in S
  <2>1. n - c.slot <= n - o.slot
    BY <1>4, <1>5
  <2> QED
    BY <1>1, <1>2, <2>1
<1> QED
  BY <1>6 DEF NextComp

-----------------------------------------------------------------------------
(* Types are kept. *)
LEMMA TypedIfSame ==
    ASSUME Types
    PROVE  /\ journal' = journal => JournalTyped'
           /\ run' = run /\ owner' = owner => RunTyped'
           /\ UNCHANGED effectVars => EffectsTyped'
           /\ UNCHANGED childVars => ChildTyped'
BY DEF Types, JournalTyped, RunTyped, EffectsTyped, ChildTyped, effectVars, childVars

(* One driver moves to a typed state. *)
LEMMA DriverTyped ==
    ASSUME Types, NEW d \in Drivers, NEW y \in Driver, Placed(y), Set(d, y),
           y.pc \in {"take", "retake", "drive"} => child'.run > 0,
           child.run > 0 => child'.run > 0
    PROVE  DriversTyped'
<1>1. drv \in [Drivers -> Driver] /\ \A e \in Drivers : Placed(drv[e]) /\ (drv[e].pc \in {"take", "retake", "drive"} => child.run > 0)
  BY DEF Types, DriversTyped
<1>2. drv'[d] = y /\ \A e \in Drivers : e # d => drv'[e] = drv[e]
  BY <1>1, OneDriver
<1>3. drv' \in [Drivers -> Driver]
  BY <1>1 DEF Set
<1> QED
  BY <1>1, <1>2, <1>3 DEF DriversTyped

(* A driver is out of the step: it abandoned it, let it go, or died. *)
Idles(d) ==
    /\ Set(d, Idle) /\ journal' = journal /\ UNCHANGED effectVars /\ UNCHANGED childVars
    /\ owner' \in {owner, Nobody} /\ owner' # d

(* Types survive a driver that is out. *)
LEMMA IdlesTyped ==
    ASSUME Types, NEW d \in Drivers, Idles(d), RunTyped'
    PROVE  Types'
<1>1. Idle \in Driver /\ Placed(Idle) /\ Idle.pc = "idle"
  BY BareDriver DEF Bare, Placed, AtWork, BarePCs
<1>2. child'.run = child.run
  BY DEF Idles, childVars
<1>3. DriversTyped'
  BY <1>1, <1>2, DriverTyped DEF Idles
<1> QED
  BY <1>3, TypedIfSame DEF Types, Idles

(* FenceTokenMismatchError: the driver is out, and nothing else changes. *)
LEMMA AbandonIdles ==
    ASSUME Types, NEW d \in Drivers, Abandon(d), UNCHANGED effectVars, UNCHANGED childVars
    PROVE  Idles(d) /\ RunTyped' /\ Types' /\ run' = run
<1>1. Idles(d) /\ run' = run /\ owner' = owner
  BY DEF Abandon, Idles, Holds
<1> QED
  BY <1>1, IdlesTyped, TypedIfSame

(* The run is given back with a row that is typed. *)
LEMMA LetGoIdles ==
    ASSUME Types, NEW d \in Drivers, NEW row, LetGo(d, row), journal' = journal,
           UNCHANGED effectVars, UNCHANGED childVars,
           \/ row = run
           \/ \E st \in {"completed", "failed", "halted"} : row = Over(st)
           \/ \E w \in {"signal", "child"}, n \in Nat, b \in BOOLEAN : row = Suspended(w, n, b)
    PROVE  Idles(d) /\ RunTyped' /\ Types' /\ run' = row /\ owner' = Nobody
<1>1. Idles(d) /\ run' = row /\ owner' = Nobody
  BY BodyFacts DEF LetGo, Idles
<1>2. RunTyped
  BY DEF Types
<1>3. ASSUME row = run PROVE RunTyped'
  BY <1>1, <1>2, <1>3 DEF RunTyped
<1>4. ASSUME NEW st \in {"completed", "failed", "halted"}, row = Over(st) PROVE RunTyped'
  BY <1>1, <1>2, <1>4 DEF RunTyped, Over, StepSaved
<1>5. ASSUME NEW w \in {"signal", "child"}, NEW n \in Nat, NEW b \in BOOLEAN, row = Suspended(w, n, b)
      PROVE RunTyped'
  BY <1>1, <1>2, <1>5 DEF RunTyped, Suspended
<1>6. RunTyped'
  BY <1>3, <1>4, <1>5
<1> QED
  BY <1>1, <1>6, IdlesTyped

(* The steps in which a driver leaves for good. *)
LEMMA LeavingIdles ==
    ASSUME Types, NEW d \in Drivers,
           ParkOnChild(d) \/ FailRun(d) \/ Leave(d) \/ Complete(d) \/ Crash(d)
    PROVE  Idles(d) /\ RunTyped' /\ Types'
<1>2. ASSUME ParkOnChild(d) PROVE Idles(d) /\ RunTyped' /\ Types'
  <2>1. drv[d].hand.value \in Nat /\ drv[d].hand.ok \in BOOLEAN
    BY DEF Types, DriversTyped, Driver, Exits
  <2> QED
    BY <1>2, <2>1, AbandonIdles, LetGoIdles DEF ParkOnChild
<1>3. ASSUME FailRun(d) PROVE Idles(d) /\ RunTyped' /\ Types'
  BY <1>3, AbandonIdles, LetGoIdles DEF FailRun
<1>4. ASSUME Leave(d) PROVE Idles(d) /\ RunTyped' /\ Types'
  BY <1>4, AbandonIdles, LetGoIdles DEF Leave
<1>5. ASSUME Complete(d) PROVE Idles(d) /\ RunTyped' /\ Types'
  BY <1>5, AbandonIdles, LetGoIdles DEF Complete
<1>6. ASSUME Crash(d) PROVE Idles(d) /\ RunTyped' /\ Types'
  <2>1. Idles(d) /\ run' = run
    BY <1>6, BodyFacts DEF Crash, Idles, Holds
  <2>2. RunTyped'
    BY <2>1 DEF Types, RunTyped, Idles
  <2> QED
    BY <2>1, <2>2, IdlesTyped
<1> QED
  BY <1>2, <1>3, <1>4, <1>5, <1>6

(* A driver and the journal, as they are typed. *)
LEMMA DriverParts ==
    ASSUME Types, NEW d \in Drivers
    PROVE  /\ drv[d] \in Driver /\ Placed(drv[d]) /\ JournalTyped
           /\ \A s \in Slots : journal[s] \in Entry /\ journal[s].exit \in Exits
           /\ \A s \in Slots : drv[d].snap[s] \in Entry /\ drv[d].snap[s].exit \in Exits
           /\ child.run \in Nat /\ drv[d].hand \in Exits
<1>1. drv[d] \in Driver /\ Placed(drv[d]) /\ JournalTyped /\ child.run \in Nat
  BY DEF Types, DriversTyped, ChildTyped
<1>2. \A s \in Slots : journal[s] \in Entry /\ drv[d].snap[s] \in Entry /\ drv[d].hand \in Exits
  BY <1>1 DEF JournalTyped, Driver
<1> QED
  BY <1>1, <1>2 DEF Entry, Driver

(* The lock is taken, or the step is tried again: the body starts over. *)
LEMMA BeginTyped ==
    ASSUME Types, NEW d \in Drivers, (Lock(d) /\ ~ run.done) \/ Retry(d)
    PROVE  Types' /\ Set(d, Begun) /\ journal' = journal /\ UNCHANGED effectVars /\ owner' = d
<1>1. /\ Set(d, Begun) /\ journal' = journal /\ UNCHANGED effectVars /\ UNCHANGED childVars
      /\ run' = run /\ owner' = d
  BY DEF Lock, Retry, Holds
<1>2. /\ Begun \in Driver /\ Begun.pc = "yield" /\ Begun.at = 1 /\ Begun.next = 0
      /\ Begun.seen = {} /\ Begun.comps = {} /\ Begun.rolled = {} /\ Begun.snap = journal
  BY DriverParts, BegunDriver
<1>3. Placed(Begun)
  BY <1>2, BodyFacts DEF Placed, AtWork
<1>4. DriversTyped'
  BY <1>1, <1>2, <1>3, DriverTyped DEF childVars
<1>5. RunTyped'
  BY <1>1 DEF Types, RunTyped
<1> QED
  BY <1>1, <1>4, <1>5, TypedIfSame DEF Types

(* A yield settles: replayed, recorded, or timed out. *)
LEMMA SettleTyped ==
    ASSUME Types, NEW d \in Drivers, NEW exit \in Exits, Set(d, Settled(d, exit)),
           drv[d].pc \in AtWork \/ (drv[d].pc = "yield" /\ drv[d].at <= Len(Body)),
           JournalTyped', run' = run, owner' = owner, UNCHANGED effectVars, UNCHANGED childVars
    PROVE  Types'
<1>1. /\ Settled(d, exit) \in Driver /\ Placed(Settled(d, exit))
      /\ Settled(d, exit).pc \notin {"take", "retake", "drive"}
  BY DriverParts, SettledFields DEF GoesOn, Fails, Bare
<1>2. DriversTyped'
  BY <1>1, DriverTyped DEF childVars
<1> QED
  BY <1>2, TypedIfSame DEF Types

(* A recorded yield is replayed. *)
LEMMA ReplayTyped ==
    ASSUME Types, NEW d \in Drivers, Replay(d)
    PROVE  /\ Types' /\ Recorded(d).exit \in Exits /\ drv[d].pc = "yield" /\ drv[d].at <= Len(Body)
           /\ drv[d].next \in Slots
<1>1. drv[d].pc = "yield" /\ drv[d].at <= Len(Body) /\ drv[d].next \in Slots
  BY DriverParts, InBody DEF Replay, AtYield
<1>2. Recorded(d).exit \in Exits
  BY <1>1, DriverParts DEF Recorded
<1> QED
  BY <1>1, <1>2, SettleTyped, TypedIfSame DEF Replay

(* writePending. *)
LEMMA WriteTyped ==
    ASSUME Types, NEW d \in Drivers, Holds(d), WritePending(d)
    PROVE  /\ Types' /\ drv[d].pc = "yield" /\ drv[d].at \in Yields /\ drv[d].next \in Slots
           /\ AppendPending(drv[d].next, Body[drv[d].at], Kind[Body[drv[d].at]])
           /\ Stays(drv[d], drv'[d], Kind[Body[drv[d].at]], drv[d].hand)
           /\ run' = run /\ owner' = owner /\ UNCHANGED effectVars /\ UNCHANGED childVars
           /\ \A e \in Drivers : e # d => drv'[e] = drv[e]
<1> DEFINE k == Kind[Body[drv[d].at]]
           y == [drv[d] EXCEPT !.pc = k]
<1>1. /\ drv[d].pc = "yield" /\ drv[d].at <= Len(Body)
      /\ AppendPending(drv[d].next, Body[drv[d].at], k) /\ Set(d, y)
      /\ run' = run /\ owner' = owner /\ UNCHANGED effectVars /\ UNCHANGED childVars
  BY DEF WritePending, AtYield, Abandon, Yield
<1>2. drv[d].at \in Yields /\ drv[d].next \in Slots /\ drv[d].next <= 2 * (drv[d].at - 1) /\ drv[d] \in Driver
  BY <1>1, DriverParts, InBody
<1>3. Body[drv[d].at] \in Names /\ k \in {"activity", "signal", "child"}
  BY <1>2, BodyFacts
<1>4. k \in PCs /\ k \in AtWork
  BY <1>3 DEF PCs, AtWork
<1>5. Stays(drv[d], y, k, drv[d].hand)
  <2> HIDE DEF k
  <2> QED
    BY <1>2, <1>4, StaysFields, DriverParts
<1>6. Placed(y)
  <2> HIDE DEF y
  <2> QED
    BY <1>2, <1>3, <1>5 DEF Stays, Placed, AtWork, Yields
<1>7. JournalTyped'
  BY <1>1, <1>2, <1>3, AppendFacts, DriverParts
<1>8. DriversTyped'
  <2>1. y \in Driver /\ y.pc \notin {"take", "retake", "drive"}
    BY <1>3, <1>5 DEF Stays
  <2> HIDE DEF y
  <2> QED
    BY <1>1, <1>6, <2>1, DriverTyped DEF childVars
<1>9. drv'[d] = y /\ \A e \in Drivers : e # d => drv'[e] = drv[e]
  BY <1>1, OneDriver DEF Types, DriversTyped
<1>10. Types'
  BY <1>1, <1>7, <1>8, TypedIfSame DEF Types
<1> HIDE DEF y
<1> QED
  BY <1>1, <1>2, <1>5, <1>9, <1>10

(* A stored or recorded exit, by a holder: the yield in hand settles. *)
LEMMA RecordTyped ==
    ASSUME Types, NEW d \in Drivers, Holds(d), Record(d) \/ (AwaitSignal(d) /\ clock.signal)
    PROVE  /\ Types'
           /\ drv[d].pc \in {"record", "signal"} /\ drv[d].at \in Yields /\ drv[d].next \in Slots
           /\ \E e \in Exits :
                /\ CompletePending(drv[d].next, e) /\ Set(d, Settled(d, StoredExit(drv[d].next, e)))
                /\ StoredExit(drv[d].next, e) \in Exits
                /\ drv[d].pc = "record" => e = drv[d].hand
           /\ run' = run /\ owner' = owner /\ UNCHANGED effectVars /\ UNCHANGED childVars
<1>1. PICK e \in Exits :
        /\ CompletePending(drv[d].next, e) /\ Set(d, Settled(d, StoredExit(drv[d].next, e)))
        /\ drv[d].pc = "record" => e = drv[d].hand
  <2>1. CASE Record(d)
    BY <2>1, DriverParts DEF Record, Abandon
  <2>2. CASE AwaitSignal(d) /\ clock.signal
    BY <2>2, EntryTypes DEF AwaitSignal, Abandon
  <2> QED
    BY <2>1, <2>2
<1>2. /\ drv[d].pc \in {"record", "signal"}
      /\ run' = run /\ owner' = owner /\ UNCHANGED effectVars /\ UNCHANGED childVars
  BY DEF Record, AwaitSignal, Abandon
<1>3. drv[d].pc \in AtWork
  BY <1>2 DEF AtWork
<1>4. drv[d].at \in Yields /\ drv[d].next \in Slots
  BY <1>3, DriverParts, InBody
<1>5. StoredExit(drv[d].next, e) \in Exits
  BY <1>4, DriverParts DEF StoredExit
<1>6. JournalTyped'
  BY <1>1, <1>4, CompleteFacts, DriverParts
<1>7. Types'
  BY <1>1, <1>2, <1>3, <1>5, <1>6, SettleTyped
<1> QED
  BY <1>1, <1>2, <1>4, <1>5, <1>7

(* The signal wait suspends the run. *)
LEMMA ParkSignalIdles ==
    ASSUME Types, NEW d \in Drivers, AwaitSignal(d), ~ clock.signal
    PROVE  Idles(d) /\ RunTyped' /\ Types'
BY AbandonIdles, LetGoIdles DEF AwaitSignal

(* A driver goes on where it is; the effects may change, or the child. *)
LEMMA StaysTyped ==
    ASSUME Types, NEW d \in Drivers, NEW y, NEW pc \in PCs, NEW hand, Stays(drv[d], y, pc, hand),
           Set(d, y), pc \notin {"take", "retake", "drive"},
           pc \in AtWork => drv[d].pc \in AtWork, pc # "yield",
           pc \in {"undo", "undone"} => drv[d].comps # {},
           pc \notin AtWork => drv[d].pc \notin AtWork \cup {"yield"},
           pc \in AtWork => Placed(y),
           JournalTyped', run' = run, owner' = owner, EffectsTyped', ChildTyped',
           child'.run >= child.run
    PROVE  Types'
<1>1. y \in Driver /\ Placed(y)
  BY DriverParts DEF Stays, Placed, AtWork
<1>2. child.run \in Nat /\ child'.run \in Nat
  BY DEF Types, ChildTyped
<1>3. DriversTyped'
  BY <1>1, <1>2, DriverTyped DEF Stays
<1> QED
  BY <1>3, TypedIfSame DEF Types

(* ctx.activity runs. *)
LEMMA ActivityTyped ==
    ASSUME Types, NEW d \in Drivers, RunActivity(d)
    PROVE  /\ Types' /\ drv[d].pc = "activity" /\ drv[d].at \in Yields /\ Body[drv[d].at] \in Activities
           /\ journal' = journal /\ run' = run /\ owner' = owner
           /\ \E h \in Exits :
                /\ Set(d, [drv[d] EXCEPT !.pc = "record", !.hand = h])
                /\ Stays(drv[d], [drv[d] EXCEPT !.pc = "record", !.hand = h], "record", h)
                /\ \/ ~ h.ok /\ inForce' = inForce
                   \/ /\ h.ok /\ h.value = Execution(Body[drv[d].at])
                      /\ inForce' = [inForce EXCEPT ![Body[drv[d].at]] = @ \cup {h.value}]
<1> DEFINE a == Body[drv[d].at]
           n == Execution(a)
<1>1. /\ drv[d].pc = "activity" /\ journal' = journal /\ run' = run /\ owner' = owner
      /\ UNCHANGED childVars
  BY DEF RunActivity
<1>2. drv[d].at \in Yields /\ a \in Activities
  <2>1. drv[d].at \in Yields
    BY <1>1, InBody, DriverParts DEF AtWork
  <2>2. Kind[a] = "activity"
    BY <1>1, DriverParts DEF Placed
  <2> QED
    BY <2>1, <2>2, BodyFacts
<1>3. executed \in [Activities -> Nat] /\ inForce \in [Activities -> SUBSET Nat]
      /\ inForce[a] \subseteq 1 .. executed[a]
  BY <1>2 DEF Types, EffectsTyped
<1>4. n \in Nat /\ n >= 1
  BY <1>2, <1>3 DEF Execution
<1>5. \E h \in Exits :
        /\ Set(d, [drv[d] EXCEPT !.pc = "record", !.hand = h])
        /\ \/ ~ h.ok /\ inForce' = inForce /\ UNCHANGED effectVars
           \/ /\ h.ok /\ h.value = n
              /\ inForce' = [inForce EXCEPT ![a] = @ \cup {n}] /\ executed' = [executed EXCEPT ![a] = n]
  <2> HIDE DEF n
  <2>1. Success(n) \in Exits /\ Success(n).ok /\ Success(n).value = n /\ Failure \in Exits /\ ~ Failure.ok
    BY <1>4, EntryTypes
  <2>2. \/ /\ Set(d, [drv[d] EXCEPT !.pc = "record", !.hand = Success(n)])
           /\ executed' = [executed EXCEPT ![a] = n]
           /\ inForce' = [inForce EXCEPT ![a] = @ \cup {n}]
        \/ /\ Set(d, [drv[d] EXCEPT !.pc = "record", !.hand = Failure])
           /\ UNCHANGED effectVars
    BY DEF RunActivity, Yield, n
  <2> QED
    BY <2>1, <2>2 DEF effectVars
<1>6. EffectsTyped'
  <2>1. CASE UNCHANGED effectVars
    BY <2>1, TypedIfSame
  <2>2. CASE inForce' = [inForce EXCEPT ![a] = @ \cup {n}] /\ executed' = [executed EXCEPT ![a] = n]
    <3>1. n >= executed[a] /\ (a \in Idempotent => n = 1)
      BY <1>2, <1>3 DEF Execution, Types, EffectsTyped
    <3> HIDE DEF n, a
    <3>2. inForce[a] \cup {n} \subseteq 1 .. n
      BY <1>2, <1>3, <1>4, <3>1
    <3>3. /\ inForce' \in [Activities -> SUBSET Nat] /\ executed' \in [Activities -> Nat]
          /\ inForce'[a] = inForce[a] \cup {n} /\ executed'[a] = n
          /\ \A b \in Activities : b # a => inForce'[b] = inForce[b] /\ executed'[b] = executed[b]
      BY <1>2, <1>3, <1>4, <2>2
    <3> QED
      BY <3>1, <3>2, <3>3 DEF Types, EffectsTyped
  <2> QED
    BY <1>5, <2>1, <2>2
<1>7. PICK h \in Exits :
        /\ Set(d, [drv[d] EXCEPT !.pc = "record", !.hand = h])
        /\ \/ ~ h.ok /\ inForce' = inForce
           \/ h.ok /\ h.value = n /\ inForce' = [inForce EXCEPT ![a] = @ \cup {h.value}]
  BY <1>5
<1>8. Stays(drv[d], [drv[d] EXCEPT !.pc = "record", !.hand = h], "record", h)
  BY DriverParts, StaysFields DEF PCs
<1>9. Placed([drv[d] EXCEPT !.pc = "record", !.hand = h])
  <2> DEFINE y == [drv[d] EXCEPT !.pc = "record", !.hand = h]
  <2>1. Stays(drv[d], y, "record", h)
    BY <1>8
  <2> HIDE DEF y
  <2>2. Placed(y)
    BY <1>1, <2>1, DriverParts DEF Stays, Placed, AtWork
  <2> QED
    BY <2>2 DEF y
<1>10. JournalTyped' /\ ChildTyped' /\ child'.run = child.run
  BY <1>1, TypedIfSame DEF childVars
<1>11. Types'
  BY <1>1, <1>6, <1>7, <1>8, <1>9, <1>10, DriverParts, StaysTyped DEF AtWork, PCs
<1> QED
  BY <1>1, <1>2, <1>7, <1>8, <1>11

-----------------------------------------------------------------------------
(* The child run: created or run afresh, for a driver or for nobody yet. *)
LEMMA ChildFreshTyped ==
    ASSUME ChildTyped, NEW by \in Drivers \cup {Nobody}, NEW n \in Nat, n > 0, n >= child.run,
           child' = [status |-> "running", run |-> n, by |-> by], UNCHANGED <<ended, waking>>
    PROVE  ChildTyped' /\ child'.run > 0 /\ child'.run >= child.run
<1>1. child.run \in Nat /\ ended \cup waking \subseteq 1 .. child.run
  BY DEF ChildTyped
<1>2. child'.run = n /\ ended' \cup waking' \subseteq 1 .. n
  BY <1>1
<1> QED
  BY <1>1, <1>2 DEF ChildTyped, ChildStates

(* The child run goes on: another status, another holder, a wake to come. *)
LEMMA ChildGoesOn ==
    ASSUME ChildTyped, child.run > 0, NEW status \in ChildStates \ {"none"},
           NEW by \in Drivers \cup {Nobody, ChildDriver},
           child' = [child EXCEPT !.status = status, !.by = by],
           ended' = ended, waking' \subseteq waking \cup {child.run}
    PROVE  ChildTyped' /\ child'.run = child.run
<1>1. /\ child \in [status : ChildStates, run : Nat, by : Drivers \cup {Nobody, ChildDriver}]
      /\ ended \cup waking \subseteq 1 .. child.run
  BY DEF ChildTyped
<1>2. child.run \in 1 .. child.run
  BY <1>1
<1>3. /\ child'.run = child.run
      /\ child' \in [status : ChildStates, run : Nat, by : Drivers \cup {Nobody, ChildDriver}]
  BY <1>1
<1>4. ended' \cup waking' \subseteq 1 .. child'.run
  BY <1>1, <1>2, <1>3
<1> QED
  BY <1>1, <1>3, <1>4 DEF ChildTyped

(* What a driver does to a child is such a step. *)
LEMMA ChildForms ==
    ASSUME ChildTyped
    PROVE  /\ \A st : ChildAfter(st) = [child EXCEPT !.status = st, !.by = Nobody]
           /\ \A by : [child EXCEPT !.by = by] = [child EXCEPT !.status = child.status, !.by = by]
           /\ \A st : [child EXCEPT !.status = st] = [child EXCEPT !.status = st, !.by = child.by]
           /\ child.status \in ChildStates /\ child.by \in Drivers \cup {Nobody, ChildDriver}
           /\ child.run \in Nat /\ (child.run > 0 => child.status # "none")
<1>1. /\ child \in [status : ChildStates, run : Nat, by : Drivers \cup {Nobody, ChildDriver}]
      /\ (child.run = 0) = (child.status = "none")
  BY DEF ChildTyped
<1>2. child.run > 0 => child.status # "none"
  BY <1>1
<1> QED
  BY <1>1, <1>2 DEF ChildAfter

FromChild == {"child", "take", "retake", "drive", "park"}
ToChild == {"take", "retake", "drive", "park", "parked", "record"}

(* ctx.child: the parent creates the child, takes, drives and reads it. *)
LEMMA ChildStepTyped ==
    ASSUME Types, NEW d \in Drivers,
           (CreateChild(d) /\ Holds(d)) \/ TakeChild(d) \/ DriveChild(d) \/ StopChild(d) \/ LoadChild(d)
    PROVE  /\ Types' /\ drv[d].pc \in FromChild
           /\ journal' = journal /\ run' = run /\ owner' = owner /\ UNCHANGED effectVars
           /\ drv[d].at \in Yields /\ Kind[Body[drv[d].at]] = "child"
           /\ \A e \in Drivers : e # d => drv'[e] = drv[e]
           /\ \E pc \in ToChild, h \in Exits : Stays(drv[d], drv'[d], pc, h)
<1>1. /\ drv[d].pc \in FromChild
      /\ journal' = journal /\ run' = run /\ owner' = owner /\ UNCHANGED effectVars
  BY DEF FromChild, CreateChild, TakeChild, DriveChild, StopChild, LoadChild, Abandon
<1>2. /\ drv[d] \in Driver /\ Placed(drv[d]) /\ drv[d].at \in Yields /\ drv[d].hand \in Exits
      /\ Kind[Body[drv[d].at]] = "child" /\ child.run \in Nat /\ ChildTyped /\ drv \in [Drivers -> Driver]
      /\ drv[d].pc \in {"take", "retake", "drive"} => child.run > 0
  <2>1. drv[d].pc \in AtWork
    BY <1>1 DEF AtWork, FromChild
  <2> QED
    BY <1>1, <2>1, DriverParts, InBody DEF Placed, Types, DriversTyped, FromChild
<1>3. \E pc \in ToChild, h \in Exits : \E y :
        /\ Set(d, y) /\ Stays(drv[d], y, pc, h)
        /\ ChildTyped' /\ child'.run >= child.run /\ (pc \in {"take", "retake", "drive"} => child'.run > 0)
  <2>1. \A pc \in ToChild : Stays(drv[d], [drv[d] EXCEPT !.pc = pc], pc, drv[d].hand)
    BY <1>2, StaysFields DEF PCs, ToChild
  <2>2. \A h \in Exits : Stays(drv[d], [drv[d] EXCEPT !.pc = "record", !.hand = h], "record", h)
    BY <1>2, StaysFields DEF PCs
  <2>3. \A h \in Exits : Stays(drv[d], [drv[d] EXCEPT !.pc = "parked", !.hand = h], "parked", h)
    BY <1>2, StaysFields DEF PCs
  <2>4. ASSUME NEW pc \in ToChild, Set(d, [drv[d] EXCEPT !.pc = pc]),
               ChildTyped', child'.run >= child.run, pc \in {"take", "retake", "drive"} => child'.run > 0
        PROVE  \E p \in ToChild, h \in Exits : \E y :
                 /\ Set(d, y) /\ Stays(drv[d], y, p, h)
                 /\ ChildTyped' /\ child'.run >= child.run /\ (p \in {"take", "retake", "drive"} => child'.run > 0)
    <3>1. Stays(drv[d], [drv[d] EXCEPT !.pc = pc], pc, drv[d].hand)
      BY <2>1, <2>4
    <3> QED
      BY <1>2, <2>4, <3>1
  <2>5. ASSUME NEW g \in Exits, Set(d, [drv[d] EXCEPT !.pc = "record", !.hand = g]),
               ChildTyped', child'.run >= child.run
        PROVE  \E p \in ToChild, h \in Exits : \E y :
                 /\ Set(d, y) /\ Stays(drv[d], y, p, h)
                 /\ ChildTyped' /\ child'.run >= child.run /\ (p \in {"take", "retake", "drive"} => child'.run > 0)
    <3>1. Stays(drv[d], [drv[d] EXCEPT !.pc = "record", !.hand = g], "record", g)
      BY <2>2, <2>5
    <3> QED
      BY <2>5, <3>1 DEF ToChild
  <2>6. Success(child.run) \in Exits /\ Failure \in Exits /\ LockLost \in Exits
    BY <1>2, EntryTypes
  <2>7. UNCHANGED childVars => ChildTyped' /\ child'.run = child.run
    BY TypedIfSame DEF childVars
  <2>8. CASE CreateChild(d) /\ Holds(d)
    <3>1. PICK pc \in {"take", "retake"} : Set(d, [drv[d] EXCEPT !.pc = pc])
      BY <2>8 DEF CreateChild, Abandon
    <3>2. CASE child.status = "none" /\ child.run = 0
      <4>1. child' = [status |-> "running", run |-> 1, by |-> Nobody] /\ UNCHANGED <<ended, waking>>
        BY <2>8, <3>2 DEF CreateChild, Abandon
      <4>2. ChildTyped' /\ child'.run > 0 /\ child'.run >= child.run
        BY <1>2, <3>2, <4>1, ChildFreshTyped
      <4> QED
        BY <2>4, <3>1, <4>2 DEF ToChild
    <3>3. CASE child.status # "none"
      <4>1. UNCHANGED childVars
        BY <2>8, <3>3 DEF CreateChild, Abandon, childVars
      <4>2. child.run > 0
        BY <1>2, <3>3 DEF ChildTyped
      <4> QED
        BY <1>2, <2>4, <2>7, <3>1, <4>1, <4>2 DEF ToChild
    <3> QED
      BY <1>2, <3>2, <3>3 DEF ChildTyped
  <2>9. CASE TakeChild(d)
    <3>1. UNCHANGED <<ended, waking>> /\ child.run > 0
      BY <1>2, <2>9 DEF TakeChild
    <3>2. CASE child' = child /\ Set(d, [drv[d] EXCEPT !.pc = "park"])
      BY <1>2, <2>4, <2>7, <3>1, <3>2 DEF childVars, ToChild
    <3>3. ASSUME NEW h \in Exits, child' = child, Set(d, [drv[d] EXCEPT !.pc = "record", !.hand = h])
          PROVE  \E p \in ToChild, g \in Exits : \E y :
                   /\ Set(d, y) /\ Stays(drv[d], y, p, g)
                   /\ ChildTyped' /\ child'.run >= child.run /\ (p \in {"take", "retake", "drive"} => child'.run > 0)
      <4>1. ChildTyped' /\ child'.run >= child.run
        BY <1>2, <2>7, <3>1, <3>3 DEF childVars
      <4> QED
        BY <2>5, <3>3, <4>1
    <3>4. CASE /\ child' = [status |-> "running", run |-> child.run + 1, by |-> d]
               /\ Set(d, [drv[d] EXCEPT !.pc = "drive"])
      <4>1. ChildTyped' /\ child'.run > 0 /\ child'.run >= child.run
        BY <1>2, <3>1, <3>4, ChildFreshTyped
      <4> QED
        BY <2>4, <3>4, <4>1 DEF ToChild
    <3>5. CASE child' = [child EXCEPT !.by = d] /\ Set(d, [drv[d] EXCEPT !.pc = "drive"])
      <4>1. child' = [child EXCEPT !.status = child.status, !.by = d] /\ child.status \in ChildStates \ {"none"}
        BY <1>2, <3>1, <3>5, ChildForms
      <4>2. ChildTyped' /\ child'.run = child.run
        BY <1>2, <3>1, <4>1, ChildGoesOn
      <4> QED
        BY <1>2, <2>4, <3>1, <3>5, <4>2 DEF ToChild
    <3> QED
      BY <2>6, <2>9, <3>2, <3>3, <3>4, <3>5 DEF TakeChild
  <2>10. CASE DriveChild(d) \/ StopChild(d)
    <3>1. child.run > 0 /\ UNCHANGED <<ended, waking>>
      BY <1>2, <2>10 DEF DriveChild, StopChild
    <3>2. \/ child' = child
          \/ child' = [child EXCEPT !.by = Nobody]
          \/ child' = [child EXCEPT !.status = "awake"]
          \/ \E status \in {"suspended", "completed", "failed"} : child' = ChildAfter(status)
      BY <2>10 DEF DriveChild, StopChild, ChildWakes, ChildEndings
    <3>3. child' = child \/ \E st \in ChildStates \ {"none"}, by \in Drivers \cup {Nobody, ChildDriver} :
                                child' = [child EXCEPT !.status = st, !.by = by]
      <4>1. /\ child.status \in ChildStates \ {"none"}
            /\ {"awake", "suspended", "completed", "failed"} \subseteq ChildStates \ {"none"}
            /\ child.by \in Drivers \cup {Nobody, ChildDriver}
        BY <1>2, <3>1, ChildForms DEF ChildStates
      <4>2. /\ [child EXCEPT !.by = Nobody] = [child EXCEPT !.status = child.status, !.by = Nobody]
            /\ [child EXCEPT !.status = "awake"] = [child EXCEPT !.status = "awake", !.by = child.by]
            /\ \A st : ChildAfter(st) = [child EXCEPT !.status = st, !.by = Nobody]
        BY <1>2, ChildForms
      <4>3. CASE child' = [child EXCEPT !.by = Nobody]
        BY <4>1, <4>2, <4>3
      <4>4. CASE child' = [child EXCEPT !.status = "awake"]
        BY <4>1, <4>2, <4>4
      <4>5. CASE \E status \in {"suspended", "completed", "failed"} : child' = ChildAfter(status)
        <5>1. PICK status \in {"suspended", "completed", "failed"} : child' = ChildAfter(status)
          BY <4>5
        <5>2. child' = [child EXCEPT !.status = status, !.by = Nobody] /\ status \in ChildStates \ {"none"}
          BY <4>1, <4>2, <5>1
        <5> QED
          BY <5>2
      <4> QED
        BY <3>2, <4>3, <4>4, <4>5
    <3>4. ChildTyped' /\ child'.run = child.run
      BY <1>2, <2>7, <3>1, <3>3, ChildGoesOn DEF childVars
    <3>5. \/ Set(d, [drv[d] EXCEPT !.pc = "park"])
          \/ drv[d].pc = "drive" /\ drv' = drv
          \/ \E h \in Exits : Set(d, [drv[d] EXCEPT !.pc = "record", !.hand = h])
      BY <2>6, <2>10 DEF DriveChild, StopChild
    <3>6. CASE Set(d, [drv[d] EXCEPT !.pc = "park"])
      BY <1>2, <2>4, <3>4, <3>6 DEF ToChild
    <3>7. CASE drv[d].pc = "drive" /\ drv' = drv
      <4>1. drv[d] = [drv[d] EXCEPT !.pc = "drive"]
        BY <1>2, <3>7 DEF Driver
      <4>2. Set(d, drv[d])
        BY <1>2, <3>7 DEF Set
      <4>3. Set(d, [drv[d] EXCEPT !.pc = "drive"])
        BY <4>1, <4>2
      <4> QED
        BY <1>2, <2>4, <3>1, <3>4, <4>3 DEF ToChild
    <3>8. ASSUME NEW h \in Exits, Set(d, [drv[d] EXCEPT !.pc = "record", !.hand = h])
          PROVE  \E p \in ToChild, g \in Exits : \E y :
                   /\ Set(d, y) /\ Stays(drv[d], y, p, g)
                   /\ ChildTyped' /\ child'.run >= child.run /\ (p \in {"take", "retake", "drive"} => child'.run > 0)
      <4>1. ChildTyped' /\ child'.run >= child.run
        BY <1>2, <3>4
      <4> QED
        BY <2>5, <3>8, <4>1
    <3> QED
      BY <3>5, <3>6, <3>7, <3>8
  <2>11. CASE LoadChild(d)
    <3> DEFINE h == [ok |-> child.status = "suspended", value |-> child.run]
    <3>1. h \in Exits
      BY <1>2 DEF Exits
    <3>2. Set(d, [drv[d] EXCEPT !.pc = "parked", !.hand = h]) /\ UNCHANGED childVars
      BY <2>11 DEF LoadChild
    <3> HIDE DEF h
    <3>3. Stays(drv[d], [drv[d] EXCEPT !.pc = "parked", !.hand = h], "parked", h)
      BY <2>3, <3>1
    <3>4. ChildTyped' /\ child'.run >= child.run
      BY <1>2, <2>7, <3>2
    <3> QED
      BY <3>1, <3>2, <3>3, <3>4 DEF ToChild
  <2> QED
    BY <2>8, <2>9, <2>10, <2>11
<1>4a. PICK pc \in ToChild, h \in Exits : \E y :
        /\ Set(d, y) /\ Stays(drv[d], y, pc, h)
        /\ ChildTyped' /\ child'.run >= child.run /\ (pc \in {"take", "retake", "drive"} => child'.run > 0)
  BY <1>3
<1>4. PICK y : /\ Set(d, y) /\ Stays(drv[d], y, pc, h)
               /\ ChildTyped' /\ child'.run >= child.run /\ (pc \in {"take", "retake", "drive"} => child'.run > 0)
  BY <1>4a
<1>5. Placed(y)
  BY <1>1, <1>2, <1>4, DriverParts DEF Stays, Placed, AtWork, FromChild, ToChild
<1>6. child'.run \in Nat /\ (child.run > 0 => child'.run > 0)
  BY <1>2, <1>4 DEF ChildTyped
<1>7. DriversTyped'
  BY <1>4, <1>5, <1>6, DriverTyped DEF Stays
<1>8. Types'
  BY <1>1, <1>4, <1>7, TypedIfSame DEF Types
<1>9. drv'[d] = y /\ \A e \in Drivers : e # d => drv'[e] = drv[e]
  BY <1>2, <1>4, OneDriver
<1> QED
  BY <1>1, <1>2, <1>4, <1>8, <1>9

-----------------------------------------------------------------------------
(* A driver in the unwind has compensations, and is at no yield. *)
LEMMA UnwindingDriver ==
    ASSUME Types, NEW d \in Drivers, drv[d].pc \in {"unwind", "undo", "undone"}, drv[d].comps # {}
    PROVE  /\ drv[d].at = 0 /\ drv[d].next = 0 /\ NextComp(drv[d].comps) \in drv[d].comps
           /\ \A c \in drv[d].comps : c \in Comp /\ c.slot <= NextComp(drv[d].comps).slot
           /\ NextComp(drv[d].comps) \in Comp
<1>1. drv[d] \in Driver /\ Placed(drv[d])
  BY DriverParts
<1>2. drv[d].comps \in SUBSET Comp
  BY <1>1 DEF Driver
<1>3. drv[d].at = 0 /\ drv[d].next = 0
  BY <1>1 DEF Placed, AtWork
<1> QED
  BY <1>2, <1>3, NextCompFacts

(* A compensation is through: the driver goes on unwinding. *)
LEMMA CompGoneTyped ==
    ASSUME Types, NEW d \in Drivers, NEW c \in drv[d].comps, NEW ok \in BOOLEAN,
           drv[d].pc \in {"unwind", "undo", "undone"}, Set(d, CompDone(d, c, ok)), JournalTyped',
           run' = run, owner' = owner, UNCHANGED effectVars, UNCHANGED childVars
    PROVE  /\ Types' /\ CompGone(drv[d], drv'[d], c, ok)
           /\ \A e \in Drivers : e # d => drv'[e] = drv[e]
<1> DEFINE y == CompDone(d, c, ok)
<1>1. CompGone(drv[d], y, c, ok)
  BY CompDoneFields, DriverParts
<1>2. drv[d].at = 0 /\ drv[d].next = 0
  BY UnwindingDriver
<1>3. Set(d, y)
  OBVIOUS
<1> HIDE DEF y
<1>4. y \in Driver /\ Placed(y) /\ y.pc = "unwind"
  BY <1>1, <1>2 DEF CompGone, Placed, AtWork
<1>5. DriversTyped'
  BY <1>3, <1>4, DriverTyped DEF childVars
<1>6. drv'[d] = y /\ \A e \in Drivers : e # d => drv'[e] = drv[e]
  BY <1>3, OneDriver DEF Types, DriversTyped
<1> QED
  BY <1>1, <1>5, <1>6, TypedIfSame DEF Types

(* CompensationStack.unwind takes the next compensation. *)
LEMMA UnwindTyped ==
    ASSUME Types, NEW d \in Drivers, Unwind(d), NEW c, c = NextComp(drv[d].comps)
    PROVE  /\ Types' /\ run' = run /\ owner' = owner /\ UNCHANGED effectVars
           /\ drv[d].pc = "unwind" /\ drv[d].comps # {}
           /\ \A e \in Drivers : e # d => drv'[e] = drv[e]
           /\ \/ /\ journal' = journal /\ drv[d].snap[c.slot].phase = "completed"
                 /\ CompGone(drv[d], drv'[d], c, drv[d].snap[c.slot].exit.ok)
              \/ /\ journal' = journal /\ ~ Holds(d)
                 /\ CompGone(drv[d], drv'[d], c, FALSE)
              \/ /\ drv[d].snap[c.slot].phase # "completed" /\ Holds(d)
                 /\ AppendPending(c.slot, c.name, "compensation")
                 /\ Stays(drv[d], drv'[d], "undo", drv[d].hand)
<1>1. /\ drv[d].pc = "unwind" /\ drv[d].comps # {}
      /\ run' = run /\ owner' = owner /\ UNCHANGED effectVars /\ UNCHANGED childVars
  BY DEF Unwind
<1>2. c \in drv[d].comps /\ c \in Comp
  BY <1>1, UnwindingDriver
<1>3. c.slot \in Slots /\ c.name \in Names
  BY <1>2, BodyFacts DEF Comp
<1>4. drv[d].snap[c.slot].exit.ok \in BOOLEAN
  BY <1>3, DriverParts DEF Exits
<1>5. CASE AlreadyUndone(d, c) /\ Set(d, CompDone(d, c, drv[d].snap[c.slot].exit.ok)) /\ UNCHANGED journal
  BY <1>1, <1>2, <1>4, <1>5, CompGoneTyped, TypedIfSame DEF AlreadyUndone
<1>6. CASE ~ Holds(d) /\ Set(d, CompDone(d, c, FALSE)) /\ UNCHANGED journal
  BY <1>1, <1>2, <1>6, CompGoneTyped, TypedIfSame
<1>7. CASE /\ ~ AlreadyUndone(d, c) /\ Holds(d) /\ AppendPending(c.slot, c.name, "compensation")
           /\ Set(d, [drv[d] EXCEPT !.pc = "undo"])
  <2> DEFINE y == [drv[d] EXCEPT !.pc = "undo"]
  <2>1. Stays(drv[d], y, "undo", drv[d].hand) /\ Set(d, y)
    BY <1>7, StaysFields, DriverParts DEF PCs
  <2>2. JournalTyped'
    BY <1>3, <1>7, AppendFacts, DriverParts
  <2> HIDE DEF y
  <2>3. EffectsTyped' /\ ChildTyped' /\ child'.run = child.run /\ child.run \in Nat
    BY <1>1, TypedIfSame, DriverParts DEF childVars
  <2>4. Types'
    BY <1>1, <2>1, <2>2, <2>3, StaysTyped DEF PCs, AtWork
  <2>5. drv'[d] = y /\ \A e \in Drivers : e # d => drv'[e] = drv[e]
    BY <2>1, OneDriver DEF Types, DriversTyped
  <2> QED
    BY <1>1, <1>7, <2>1, <2>4, <2>5 DEF AlreadyUndone
<1> QED
  BY <1>5, <1>6, <1>7 DEF Unwind

(* The compensate callback runs, or throws. *)
LEMMA UndoTyped ==
    ASSUME Types, NEW d \in Drivers, Undo(d), NEW c, c = NextComp(drv[d].comps)
    PROVE  /\ Types' /\ journal' = journal /\ run' = run /\ owner' = owner
           /\ drv[d].pc = "undo" /\ drv[d].comps # {}
           /\ \A e \in Drivers : e # d => drv'[e] = drv[e]
           /\ \E h \in Exits : Stays(drv[d], drv'[d], "undone", h)
                /\ \/ h.ok /\ inForce' = [inForce EXCEPT ![c.name] = @ \ {c.value}]
                   \/ ~ h.ok /\ c.name \in UndoCanFail /\ inForce' = inForce
<1>1. /\ drv[d].pc = "undo" /\ journal' = journal /\ run' = run /\ owner' = owner
      /\ UNCHANGED childVars /\ executed' = executed
  BY DEF Undo
<1>2. drv[d].comps # {}
  BY <1>1, DriverParts DEF Placed
<1>3. c \in drv[d].comps /\ c \in Comp
  BY <1>1, <1>2, UnwindingDriver
<1>4. PICK h \in Exits :
        /\ Set(d, [drv[d] EXCEPT !.pc = "undone", !.hand = h])
        /\ \/ h.ok /\ inForce' = [inForce EXCEPT ![c.name] = @ \ {c.value}]
           \/ ~ h.ok /\ c.name \in UndoCanFail /\ inForce' = inForce
  <2>1. Success(0) \in Exits /\ Success(0).ok /\ Failure \in Exits /\ ~ Failure.ok
    BY EntryTypes
  <2> QED
    BY <2>1 DEF Undo
<1>5. EffectsTyped'
  <2>1. c.name \in Activities
    BY <1>3 DEF Comp
  <2>2. EffectsTyped
    BY DEF Types
  <2>3. inForce' = inForce \/ inForce' = [inForce EXCEPT ![c.name] = @ \ {c.value}]
    BY <1>4
  <2> QED
    BY <1>1, <2>1, <2>2, <2>3 DEF EffectsTyped
<1> DEFINE y == [drv[d] EXCEPT !.pc = "undone", !.hand = h]
<1>6. Stays(drv[d], y, "undone", h) /\ Set(d, y)
  BY <1>4, StaysFields, DriverParts DEF PCs
<1> HIDE DEF y
<1>7. JournalTyped' /\ ChildTyped' /\ child'.run = child.run /\ child.run \in Nat
  BY <1>1, TypedIfSame, DriverParts DEF childVars
<1>8. Types'
  <2>1. /\ "undone" \in PCs /\ "undone" \notin AtWork /\ drv[d].pc \notin AtWork \cup {"yield"}
        /\ child'.run >= child.run
    BY <1>1, <1>7 DEF PCs, AtWork
  <2> QED
    BY <1>1, <1>2, <1>5, <1>6, <1>7, <2>1, StaysTyped
<1>9. drv'[d] = y /\ \A e \in Drivers : e # d => drv'[e] = drv[e]
  BY <1>6, OneDriver DEF Types, DriversTyped
<1> QED
  BY <1>1, <1>2, <1>4, <1>6, <1>8, <1>9

(* What the callback came to is recorded, by the holder. *)
LEMMA RecordUndoTyped ==
    ASSUME Types, NEW d \in Drivers, RecordUndo(d), NEW c, c = NextComp(drv[d].comps)
    PROVE  /\ Types' /\ run' = run /\ owner' = owner /\ UNCHANGED effectVars
           /\ drv[d].pc = "undone" /\ drv[d].comps # {} /\ c \in drv[d].comps
           /\ \A e \in Drivers : e # d => drv'[e] = drv[e]
           /\ CompGone(drv[d], drv'[d], c, drv[d].hand.ok /\ Holds(d))
           /\ IF Holds(d) THEN CompletePending(c.slot, drv[d].hand) ELSE journal' = journal
<1>1. /\ drv[d].pc = "undone" /\ run' = run /\ owner' = owner /\ UNCHANGED effectVars
      /\ UNCHANGED childVars /\ Set(d, CompDone(d, c, drv[d].hand.ok /\ Holds(d)))
      /\ IF Holds(d) THEN CompletePending(c.slot, drv[d].hand) ELSE UNCHANGED journal
  BY DEF RecordUndo
<1>2. drv[d].comps # {}
  BY <1>1, DriverParts DEF Placed
<1>3. c \in drv[d].comps /\ c \in Comp /\ c.slot \in Slots
  BY <1>1, <1>2, UnwindingDriver DEF Comp
<1>4. drv[d].hand \in Exits /\ (drv[d].hand.ok /\ Holds(d)) \in BOOLEAN
  BY DriverParts DEF Exits
<1>5. JournalTyped'
  BY <1>1, <1>3, <1>4, CompleteFacts, DriverParts, TypedIfSame
<1>6. /\ Types' /\ CompGone(drv[d], drv'[d], c, drv[d].hand.ok /\ Holds(d))
      /\ \A e \in Drivers : e # d => drv'[e] = drv[e]
  BY <1>1, <1>3, <1>4, <1>5, CompGoneTyped
<1> QED
  BY <1>1, <1>2, <1>3, <1>6

(* discardFailedAttempt, by the holder. *)
LEMMA DiscardTyped ==
    ASSUME Types, NEW d \in Drivers, Discard(d), Holds(d)
    PROVE  /\ Types' /\ run' = run /\ owner' = owner /\ UNCHANGED effectVars
           /\ drv[d].pc = "unwind" /\ drv[d].comps = {}
           /\ \A e \in Drivers : e # d => drv'[e] = drv[e]
           /\ Bare(drv'[d], "over")
           /\ \A s \in Slots : journal'[s] = IF s \in drv[d].rolled \/ Failed(journal[s])
                                               THEN NoEntry ELSE journal[s]
<1> DEFINE y == [Idle EXCEPT !.pc = "over"]
<1>1. /\ drv[d].pc = "unwind" /\ drv[d].comps = {} /\ Set(d, y)
      /\ run' = run /\ owner' = owner /\ UNCHANGED effectVars /\ UNCHANGED childVars
      /\ journal' = [s \in Slots |-> IF s \in drv[d].rolled \/ Failed(journal[s])
                                       THEN NoEntry ELSE journal[s]]
  BY DEF Discard, Abandon
<1>2. Bare(y, "over")
  BY BareDriver DEF BarePCs
<1> HIDE DEF y
<1>3. y \in Driver /\ Placed(y) /\ y.pc = "over"
  BY <1>2 DEF Bare, Placed, AtWork
<1>4. DriversTyped'
  BY <1>1, <1>3, DriverTyped DEF childVars
<1>5. JournalTyped'
  BY <1>1, EntryTypes DEF JournalTyped, Types
<1>6. drv'[d] = y /\ \A e \in Drivers : e # d => drv'[e] = drv[e]
  BY <1>1, OneDriver DEF Types, DriversTyped
<1> QED
  BY <1>1, <1>2, <1>4, <1>5, <1>6, TypedIfSame DEF Types

(* A driver that is turned away, and one whose lock is lost at a call. *)
LEMMA TurnedAwayIdles ==
    ASSUME Types, NEW d \in Drivers, ~ Holds(d),
           WritePending(d) \/ Record(d) \/ AwaitSignal(d) \/ CreateChild(d) \/ Discard(d)
           \/ Halt(d) \/ Fail(d) \/ Finish(d)
    PROVE  Idles(d) /\ RunTyped' /\ Types'
<1>1. Abandon(d) /\ UNCHANGED effectVars /\ UNCHANGED childVars
  BY DEF WritePending, Record, AwaitSignal, CreateChild, Discard, Halt, Fail, Finish, SaveStep, childVars
<1> QED
  BY <1>1, AbandonIdles

(* A row is saved, or found completed: the holder goes on to the run's end. *)
Saves(d) ==
    /\ journal' = journal /\ UNCHANGED effectVars /\ run'.status = run.status
    /\ owner' = d /\ owner \in {d, Nobody} /\ (Holds(d) \/ run.status # "failed")
    /\ \A e \in Drivers : e # d => drv'[e] = drv[e]
    /\ \/ Bare(drv'[d], "complete") \/ Bare(drv'[d], "halt")
       \/ Bare(drv'[d], "fail") /\ Holds(d) /\ drv[d].pc = "over"

(* Types are kept by it. *)
LEMMA SavesTyped ==
    ASSUME Types, NEW d \in Drivers,
           (Lock(d) /\ run.done) \/ (Holds(d) /\ (Halt(d) \/ Fail(d) \/ Finish(d)))
    PROVE  Types' /\ Saves(d)
<1>1. PICK pc \in {"complete", "halt", "fail"} :
         /\ Set(d, [Idle EXCEPT !.pc = pc])
         /\ pc = "fail" => Holds(d) /\ drv[d].pc = "over"
  BY DEF Lock, Halt, Fail, Finish, SaveStep, Abandon
<1>2. /\ journal' = journal /\ UNCHANGED effectVars /\ UNCHANGED childVars
      /\ owner' = d /\ owner \in {d, Nobody} /\ (Holds(d) \/ run.status # "failed")
      /\ run' = run \/ run' = StepSaved(TRUE) \/ run' = StepSaved(FALSE)
  BY DEF Lock, Drivable, Halt, Fail, Finish, SaveStep, Abandon, Holds
<1>3. run'.status = run.status /\ RunTyped'
  <2>1. RunTyped /\ owner' \in Drivers
    BY <1>2 DEF Types
  <2>2. CASE run' = run
    BY <2>1, <2>2 DEF RunTyped
  <2>3. ASSUME NEW b \in BOOLEAN, run' = StepSaved(b) PROVE run'.status = run.status /\ RunTyped'
    <3>1. /\ run'.status = run.status /\ run'.waits = ""
          /\ run' \in [status : {"running", "suspended", "completed", "failed", "halted"},
                        waits : {"", "signal", "child"}, on : Nat, timed : BOOLEAN, done : BOOLEAN]
      BY <2>1, <2>3 DEF RunTyped, StepSaved
    <3> QED
      BY <2>1, <3>1 DEF RunTyped
  <2> QED
    BY <1>2, <2>2, <2>3
<1> DEFINE y == [Idle EXCEPT !.pc = pc]
<1>4. Bare(y, pc)
  BY BareDriver DEF BarePCs
<1>5. Set(d, y)
  BY <1>1
<1> HIDE DEF y
<1>6. y \in Driver /\ Placed(y) /\ y.pc = pc
  BY <1>4 DEF Bare, Placed, AtWork
<1>7. DriversTyped'
  BY <1>2, <1>5, <1>6, DriverTyped DEF childVars
<1>8. drv'[d] = y /\ \A e \in Drivers : e # d => drv'[e] = drv[e]
  BY <1>5, OneDriver DEF Types, DriversTyped
<1> QED
  BY <1>1, <1>2, <1>3, <1>4, <1>7, <1>8, TypedIfSame DEF Types, Saves

(* The world beside the drivers: time, the scanner, the child, the sweep. *)
WorldStep == OtherSide \/ LeaseRunsOut \/ SendSignal \/ ChildDriverDies

(* Nothing there touches a driver or an effect, and the scanner only        *)
(* completes a wait that is pending.                                       *)
LEMMA WorldTyped ==
    ASSUME Types, WorldStep
    PROVE  /\ Types' /\ drv' = drv /\ run' = run /\ UNCHANGED effectVars /\ owner' \in {owner, Nobody}
           /\ \/ journal' = journal
              \/ \E s \in Slots : /\ journal[s].phase = "pending" /\ journal[s].kind = "signal"
                                  /\ CompletePending(s, Delivered)
<1> USE DEF WorldStep, OtherSide, SignalScanner, ChildProcess, TimePasses
<1>1. drv' = drv /\ run' = run /\ UNCHANGED effectVars /\ owner' \in {owner, Nobody}
  BY DEF ListSignal, CompleteSignal, ChildResumed, ChildRunsItself, WakeParent, ChildLeaseEnds,
         SignalTimesOut, ChildComesDue, Redeliver, LeaseRunsOut, SendSignal, ChildDriverDies, jobVars
<1>2. \/ journal' = journal
      \/ \E s \in Slots : /\ journal[s].phase = "pending" /\ journal[s].kind = "signal"
                          /\ CompletePending(s, Delivered)
  <2>1. ASSUME CompleteSignal, PendingSignals # {}
        PROVE  \E s \in Slots : /\ journal[s].phase = "pending" /\ journal[s].kind = "signal"
                                /\ CompletePending(s, Delivered)
    <3>1. PendingSignals \subseteq Nat
      BY BodyFacts DEF PendingSignals, Slots
    <3>2. Min(PendingSignals) \in PendingSignals
      BY <2>1, <3>1, LeastNumber DEF Min
    <3> QED
      BY <2>1, <3>2 DEF CompleteSignal, PendingSignals
  <2> QED
    BY <2>1 DEF ListSignal, CompleteSignal, ChildResumed, ChildRunsItself, WakeParent, ChildLeaseEnds,
         SignalTimesOut, ChildComesDue, Redeliver, LeaseRunsOut, SendSignal, ChildDriverDies, jobVars
<1>3. JournalTyped'
  <2>1. Delivered \in Exits /\ JournalTyped
    BY EntryTypes DEF Types
  <2> QED
    BY <1>2, <2>1, TypedIfSame, CompleteFacts
<1>4. RunTyped'
  BY <1>1 DEF Types, RunTyped
<1>5. ChildTyped' /\ child'.run >= child.run
  <2>1. ChildTyped /\ child.run \in Nat
    BY DEF Types, ChildTyped
  <2>2. CASE UNCHANGED childVars
    BY <2>1, <2>2, TypedIfSame DEF childVars
  <2>3. CASE ChildResumed \/ ChildRunsItself
    <3>1. child.run > 0
      BY <2>1, <2>3, BodyFacts DEF ChildResumed, ChildRunsItself, ChildTyped
    <3>2. \/ child' = [child EXCEPT !.by = ChildDriver]
          \/ child' = [child EXCEPT !.status = "awake"]
          \/ \E status \in {"suspended", "completed", "failed"} : child' = ChildAfter(status)
      BY <2>3 DEF ChildResumed, ChildRunsItself, ChildWakes, ChildEndings
    <3>3. \E st \in ChildStates \ {"none"}, by \in Drivers \cup {Nobody, ChildDriver} :
             child' = [child EXCEPT !.status = st, !.by = by]
      <4>1. /\ child.status \in ChildStates \ {"none"}
            /\ {"awake", "suspended", "completed", "failed"} \subseteq ChildStates \ {"none"}
            /\ child.by \in Drivers \cup {Nobody, ChildDriver}
        BY <2>1, <3>1, ChildForms DEF ChildStates
      <4>2. /\ [child EXCEPT !.by = ChildDriver] = [child EXCEPT !.status = child.status, !.by = ChildDriver]
            /\ [child EXCEPT !.status = "awake"] = [child EXCEPT !.status = "awake", !.by = child.by]
            /\ \A st : ChildAfter(st) = [child EXCEPT !.status = st, !.by = Nobody]
        BY <2>1, ChildForms
      <4> QED
        BY <3>2, <4>1, <4>2
    <3>4. ended' = ended /\ waking' \subseteq waking \cup {child.run}
      BY <2>3 DEF ChildResumed, ChildRunsItself
    <3>5. ChildTyped' /\ child'.run = child.run
      BY <2>1, <3>1, <3>3, <3>4, ChildGoesOn
    <3> QED
      BY <2>1, <3>5
  <2>5. CASE WakeParent \/ (ChildDriverDies /\ child' = child)
    <3>1. child' = child /\ ended' \cup waking' \subseteq ended \cup waking
      BY <2>5 DEF WakeParent, ChildDriverDies
    <3> QED
      BY <2>1, <3>1 DEF ChildTyped
  <2>6. CASE child' = [child EXCEPT !.by = Nobody] /\ UNCHANGED <<ended, waking>>
    <3>1. child'.run = child.run /\ child'.status = child.status /\ child'.by = Nobody
      BY <2>1, <2>6 DEF ChildTyped
    <3> QED
      BY <2>1, <2>6, <3>1 DEF ChildTyped
  <2>7. CASE Redeliver
    <3>1. child' = child /\ waking' = waking /\ ended' = ended \cup {child.run} /\ child.run > 0
      BY <2>1, <2>7 DEF Redeliver, ChildHasEnded, ChildTyped
    <3>2. child.run \in 1 .. child.run
      BY <2>1, <3>1
    <3> QED
      BY <2>1, <3>1, <3>2 DEF ChildTyped
  <2> QED
    BY <2>2, <2>3, <2>5, <2>6, <2>7
    DEF ListSignal, CompleteSignal, ChildLeaseEnds, SignalTimesOut, ChildComesDue, LeaseRunsOut,
        SendSignal, ChildDriverDies, childVars
<1>6. DriversTyped'
  <2>1. child.run \in Nat /\ child'.run \in Nat
    BY <1>5 DEF Types, ChildTyped
  <2> QED
    BY <1>1, <1>5, <2>1 DEF Types, DriversTyped
<1> QED
  BY <1>1, <1>2, <1>3, <1>4, <1>5, <1>6, TypedIfSame DEF Types

-----------------------------------------------------------------------------
(* Every step, by who takes it and whether it holds the lock. *)
HolderStep(d) ==
    Holds(d) /\ (WritePending(d) \/ Record(d) \/ (AwaitSignal(d) /\ clock.signal) \/ Discard(d))
ChildSide(d) ==
    (CreateChild(d) /\ Holds(d)) \/ TakeChild(d) \/ DriveChild(d) \/ StopChild(d) \/ LoadChild(d)
UnwindStep(d) == Unwind(d) \/ Undo(d) \/ RecordUndo(d)
(* A run is failed by a holder whose step has failed. *)
FailsWhenOver(d) ==
    run'.status = "failed" => run' = run \/ (Holds(d) /\ drv[d].pc = "fail" /\ owner' = Nobody)

AnyStep(d) ==
    \/ (Idles(d) /\ Types' /\ FailsWhenOver(d)) \/ (Types' /\ Saves(d))
    \/ (Lock(d) /\ ~ run.done) \/ Retry(d) \/ Replay(d) \/ HolderStep(d)
    \/ RunActivity(d) \/ ChildSide(d) \/ UnwindStep(d)

(* Of the steps that end a drive, only that one fails the run. *)
LEMMA RunFails ==
    ASSUME Types, NEW d \in Drivers,
           \/ ParkOnChild(d) \/ FailRun(d) \/ Leave(d) \/ Complete(d) \/ Crash(d)
           \/ AwaitSignal(d) /\ ~ clock.signal
           \/ ~ Holds(d) /\ (WritePending(d) \/ Record(d) \/ AwaitSignal(d) \/ CreateChild(d) \/ Discard(d)
                              \/ Halt(d) \/ Fail(d) \/ Finish(d))
    PROVE  FailsWhenOver(d)
<1>1. \A w, n, b : Suspended(w, n, b).status = "suspended"
  BY DEF Suspended
<1>2. /\ Over("halted").status = "halted" /\ Over("completed").status = "completed"
  BY DEF Over, StepSaved, Types, RunTyped
<1> QED
  BY <1>1, <1>2 DEF FailsWhenOver, Halt, ParkOnChild, Fail, FailRun, Leave, Finish, Complete, Crash,
     AwaitSignal, WritePending, Record, CreateChild, Discard, Abandon, LetGo, SaveStep, Holds

(* There are no other steps. *)
LEMMA EveryStep ==
    ASSUME Types, Next
    PROVE  WorldStep \/ \E d \in Drivers : AnyStep(d)
<1>1. CASE WorldStep
  BY <1>1
<1>2. ASSUME NEW d \in Drivers, Lock(d) \/ DriverStep(d) \/ StopChild(d) \/ Crash(d) PROVE AnyStep(d)
  <2>1. CASE ParkOnChild(d) \/ FailRun(d) \/ Leave(d) \/ Complete(d) \/ Crash(d)
    BY <2>1, LeavingIdles, RunFails DEF AnyStep
  <2>2. CASE ~ Holds(d) /\ (WritePending(d) \/ Record(d) \/ AwaitSignal(d) \/ CreateChild(d) \/ Discard(d)
                            \/ Halt(d) \/ Fail(d) \/ Finish(d))
    BY <2>2, TurnedAwayIdles, RunFails DEF AnyStep
  <2>3. CASE AwaitSignal(d) /\ ~ clock.signal
    BY <2>3, ParkSignalIdles, RunFails DEF AnyStep
  <2>4. CASE (Lock(d) /\ run.done) \/ (Holds(d) /\ (Halt(d) \/ Fail(d) \/ Finish(d)))
    BY <2>4, SavesTyped DEF AnyStep
  <2> QED
    BY <1>2, <2>1, <2>2, <2>3, <2>4 DEF DriverStep, AnyStep, HolderStep, ChildSide, UnwindStep
<1> QED
  BY <1>1, <1>2 DEF Next, DriverSide, WorldStep

(* The journal only grows: no step but the holder's discard takes away a    *)
(* row, and a completed row is never written again.                        *)
Grows(j, k) ==
    \A s \in Slots : /\ j[s].phase = "completed" => k[s] = j[s]
                     /\ j[s].phase # "none" => k[s].phase # "none"

(* Both writes of the journal store let it grow. *)
LEMMA StoreGrows ==
    ASSUME JournalTyped, NEW s \in Slots
    PROVE  /\ \A n \in Names, k \in {"activity", "signal", "child", "compensation"} :
                AppendPending(s, n, k) => Grows(journal, journal')
           /\ \A e \in Exits : CompletePending(s, e) => Grows(journal, journal')
<1>1. ASSUME NEW n \in Names, NEW k \in {"activity", "signal", "child", "compensation"}, AppendPending(s, n, k)
      PROVE  Grows(journal, journal')
  BY <1>1, AppendFacts DEF Grows
<1>2. ASSUME NEW e \in Exits, CompletePending(s, e) PROVE Grows(journal, journal')
  BY <1>2, CompleteFacts DEF Grows
<1> QED
  BY <1>1, <1>2

(* What a driver knows stays true as the journal grows. *)
LEMMA KnowsOn ==
    ASSUME NEW x \in Driver, Placed(x), NEW y, NEW j, NEW k, Knows(x, j), Grows(j, k),
           y.snap = x.snap, y.seen = x.seen, y.pc \in AtWork => x.pc \in AtWork /\ y.next = x.next
    PROVE  Knows(y, k)
<1>1. \A s \in Slots : y.snap[s].phase = "completed" => k[s] = y.snap[s]
  BY DEF Knows, Grows
<1>2. \A r \in y.seen : k[r.slot].phase = "completed" /\ k[r.slot].exit = r.exit
  <2> TAKE r \in y.seen
  <2>1. r \in [slot : Slots, exit : Exits]
    BY DEF Driver
  <2>2. r.slot \in Slots /\ j[r.slot].phase = "completed" /\ j[r.slot].exit = r.exit
    BY <2>1 DEF Knows
  <2> QED
    BY <2>2 DEF Grows
<1>3. ASSUME y.pc \in AtWork PROVE k[y.next].phase # "none"
  <2>1. x.next \in Slots /\ y.next = x.next /\ j[x.next].phase # "none"
    BY <1>3, InBody DEF Knows
  <2> QED
    BY <2>1 DEF Grows
<1> QED
  BY <1>1, <1>2, <1>3 DEF Knows

(* A yield that settles with what the journal now has for it is known. *)
LEMMA SettledKnows ==
    ASSUME NEW d \in Drivers, NEW exit \in Exits, NEW j, NEW k, drv[d] \in Driver, Placed(drv[d]),
           drv[d].pc \in AtWork \/ (drv[d].pc = "yield" /\ drv[d].at <= Len(Body)),
           Knows(drv[d], j), Grows(j, k), k[drv[d].next].phase = "completed", k[drv[d].next].exit = exit
    PROVE  Knows(Settled(d, exit), k)
<1> DEFINE x == drv[d]
           y == Settled(d, exit)
<1>1. \/ GoesOn(x, y, exit, Registered(d, exit))
      \/ Bare(y, "leave")
      \/ Fails(x, y)
  BY SettledFields
<1>2. x \in Driver /\ x.next \in Slots /\ Placed(x) /\ Knows(x, j)
  BY InBody
<1>3. Knows([x EXCEPT !.pc = "yield"], k)
  <2>1. Stays(x, [x EXCEPT !.pc = "yield"], "yield", x.hand)
    BY <1>2, StaysFields, EntryTypes DEF PCs
  <2> QED
    BY <1>2, <2>1, KnowsOn DEF Stays, AtWork
<1>4. /\ \A s \in Slots : x.snap[s].phase = "completed" => k[s] = x.snap[s]
      /\ \A r \in x.seen : k[r.slot].phase = "completed" /\ k[r.slot].exit = r.exit
  BY <1>2, <1>3 DEF Knows, Driver
<1>5. k[x.next].phase = "completed" /\ k[x.next].exit = exit
  OBVIOUS
<1> HIDE DEF x, y
<1>6. ASSUME GoesOn(x, y, exit, Registered(d, exit)) PROVE Knows(y, k)
  BY <1>4, <1>5, <1>6 DEF GoesOn, Knows, AtWork
<1>7. ASSUME Bare(y, "leave") PROVE Knows(y, k)
  BY <1>7, EntryTypes DEF Bare, Knows, AtWork
<1>8. ASSUME Fails(x, y) PROVE Knows(y, k)
  BY <1>4, <1>8 DEF Fails, Knows, AtWork
<1> QED
  BY <1>1, <1>6, <1>7, <1>8 DEF y

(* Knowledge is kept by every step. *)
LEMMA LiveStep ==
    ASSUME LiveInv, Next
    PROVE  LiveInv'
<1> USE DEF LiveInv
<1>1. Types /\ drv \in [Drivers -> Driver] /\ JournalTyped
  BY DEF Types, DriversTyped
<1>2. \A e \in Drivers : drv[e] \in Driver /\ Placed(drv[e]) /\ (Holds(e) => Knows(drv[e], journal))
  BY DriverParts
<1>3. Grows(journal, journal)
  BY DEF Grows
<1>4. ASSUME WorldStep PROVE LiveInv'
  <2>1. Grows(journal, journal')
    BY <1>1, <1>4, WorldTyped, StoreGrows, EntryTypes DEF Grows
  <2>2. ASSUME NEW e \in Drivers, Holds(e)' PROVE Knows(drv[e], journal)'
    <3>1. Holds(e) /\ drv'[e] = drv[e]
      BY <1>4, <2>2, WorldTyped, BodyFacts DEF Holds
    <3>2. Knows(drv'[e], journal')
      BY <1>2, <2>1, <3>1, KnowsOn
    <3> QED
      BY <3>2
  <2> QED
    BY <1>4, <2>2, WorldTyped
<1>5. ASSUME NEW d \in Drivers, AnyStep(d) PROVE LiveInv'
  <2>1. CASE Idles(d) /\ Types'
    <3>1. ASSUME NEW e \in Drivers, Holds(e)' PROVE Knows(drv[e], journal)'
      <4>1. e # d /\ Holds(e)
        BY <2>1, <3>1, BodyFacts DEF Idles, Holds
      <4>2. drv'[e] = drv[e] /\ journal' = journal
        BY <1>1, <2>1, <4>1, OneDriver DEF Idles
      <4> QED
        BY <1>2, <4>1, <4>2
    <3> QED
      BY <2>1, <3>1
  <2>2. CASE (Lock(d) /\ ~ run.done) \/ Retry(d)
    <3>1. /\ Types' /\ drv'[d] = Begun /\ journal' = journal /\ owner' = d
      BY <1>1, <2>2, BeginTyped, OneDriver
    <3>2. Knows(Begun, journal)
      BY <1>1, BegunDriver DEF Knows, AtWork
    <3> QED
      BY <3>1, <3>2 DEF Holds
  <2>3. ASSUME Types', owner' = owner, \A e \in Drivers : e # d => drv'[e] = drv[e],
               Holds(d) => Knows(drv'[d], journal'), ~ Holds(d) => Grows(journal, journal')
        PROVE  LiveInv'
    <3>1. ASSUME NEW e \in Drivers, Holds(e)' PROVE Knows(drv[e], journal)'
      <4>1. Holds(e)
        BY <2>3, <3>1 DEF Holds
      <4>2. CASE e = d
        BY <2>3, <4>1, <4>2
      <4>3. CASE e # d
        <5>1. drv'[e] = drv[e] /\ ~ Holds(d)
          BY <2>3, <4>1, <4>3 DEF Holds
        <5>2. Knows(drv'[e], journal')
          BY <1>2, <2>3, <4>1, <5>1, KnowsOn
        <5> QED
          BY <5>2
      <4> QED
        BY <4>2, <4>3
    <3> QED
      BY <2>3, <3>1
  <2>4. CASE Replay(d)
    <3>1. /\ Types' /\ Recorded(d).exit \in Exits /\ drv[d].pc = "yield" /\ drv[d].at <= Len(Body)
          /\ drv[d].next \in Slots
      BY <2>4, ReplayTyped
    <3>2. /\ drv'[d] = Settled(d, Recorded(d).exit) /\ journal' = journal /\ owner' = owner
          /\ drv[d].snap[drv[d].next].phase = "completed"
          /\ \A e \in Drivers : e # d => drv'[e] = drv[e]
      BY <1>1, <2>4, OneDriver DEF Replay, Recorded
    <3>3. ASSUME Holds(d) PROVE Knows(drv'[d], journal')
      <4>1. journal[drv[d].next] = Recorded(d)
        BY <1>2, <3>1, <3>2, <3>3 DEF Knows, Recorded
      <4> QED
        BY <1>2, <1>3, <3>1, <3>2, <3>3, <4>1, SettledKnows DEF Recorded
    <3> QED
      BY <1>3, <2>3, <3>1, <3>2, <3>3
  <2>5. CASE HolderStep(d)
    <3>1. CASE WritePending(d)
      <4>1. /\ Types' /\ drv[d].pc = "yield" /\ drv[d].at \in Yields /\ drv[d].next \in Slots
            /\ AppendPending(drv[d].next, Body[drv[d].at], Kind[Body[drv[d].at]])
            /\ Stays(drv[d], drv'[d], Kind[Body[drv[d].at]], drv[d].hand) /\ owner' = owner
            /\ \A e \in Drivers : e # d => drv'[e] = drv[e]
        BY <2>5, <3>1, WriteTyped DEF HolderStep
      <4>2. Grows(journal, journal') /\ journal'[drv[d].next].phase # "none"
        BY <1>1, <4>1, BodyFacts, StoreGrows, AppendFacts
      <4>3. Knows([drv[d] EXCEPT !.pc = "yield"], journal')
        <5>1. Stays(drv[d], [drv[d] EXCEPT !.pc = "yield"], "yield", drv[d].hand)
          BY <1>2, StaysFields, EntryTypes DEF PCs
        <5> QED
          BY <1>2, <2>5, <4>2, <5>1, KnowsOn DEF Stays, AtWork, HolderStep
      <4>4. Knows(drv'[d], journal')
        BY <1>2, <4>1, <4>2, <4>3 DEF Stays, Knows, Driver
      <4> QED
        BY <2>3, <4>1, <4>2, <4>4
    <3>2. CASE Record(d) \/ (AwaitSignal(d) /\ clock.signal)
      <4>1. /\ Types' /\ drv[d].pc \in {"record", "signal"} /\ drv[d].next \in Slots /\ owner' = owner
            /\ \E e \in Exits :
                 /\ CompletePending(drv[d].next, e) /\ Set(d, Settled(d, StoredExit(drv[d].next, e)))
                 /\ StoredExit(drv[d].next, e) \in Exits
        BY <2>5, <3>2, RecordTyped DEF HolderStep
      <4>2. PICK e \in Exits :
               /\ CompletePending(drv[d].next, e) /\ Set(d, Settled(d, StoredExit(drv[d].next, e)))
               /\ StoredExit(drv[d].next, e) \in Exits
        BY <4>1
      <4>3. drv[d].pc \in AtWork /\ Knows(drv[d], journal)
        BY <1>2, <2>5, <4>1 DEF AtWork, HolderStep
      <4>4. journal[drv[d].next].phase \in {"pending", "completed"}
        BY <1>1, <4>1, <4>3 DEF JournalTyped, Entry, Knows
      <4>5. Grows(journal, journal')
        BY <1>1, <4>1, <4>2, StoreGrows
      <4>6. journal'[drv[d].next].phase = "completed" /\ journal'[drv[d].next].exit = StoredExit(drv[d].next, e)
        BY <1>1, <4>1, <4>2, <4>4, CompleteFacts DEF StoredExit
      <4>7. Knows(Settled(d, StoredExit(drv[d].next, e)), journal')
        BY <1>2, <4>2, <4>3, <4>5, <4>6, SettledKnows
      <4>8. drv'[d] = Settled(d, StoredExit(drv[d].next, e)) /\ \A f \in Drivers : f # d => drv'[f] = drv[f]
        BY <1>1, <4>2, OneDriver
      <4> QED
        BY <2>3, <4>1, <4>5, <4>7, <4>8
    <3>3. CASE Discard(d)
      <4>1. /\ Types' /\ owner' = owner /\ Bare(drv'[d], "over")
            /\ \A e \in Drivers : e # d => drv'[e] = drv[e]
        BY <2>5, <3>3, DiscardTyped DEF HolderStep
      <4>2. Knows(drv'[d], journal')
        BY <4>1, EntryTypes DEF Bare, Knows, AtWork
      <4> QED
        BY <2>3, <2>5, <4>1, <4>2 DEF HolderStep
    <3> QED
      BY <2>5, <3>1, <3>2, <3>3 DEF HolderStep
  <2>6. CASE RunActivity(d)
    <3>1. PICK h \in Exits : /\ Set(d, [drv[d] EXCEPT !.pc = "record", !.hand = h])
                             /\ Stays(drv[d], [drv[d] EXCEPT !.pc = "record", !.hand = h], "record", h)
      BY <2>6, ActivityTyped
    <3>2. Types' /\ drv[d].pc = "activity" /\ journal' = journal /\ owner' = owner
      BY <2>6, ActivityTyped
    <3>3. Stays(drv[d], drv'[d], "record", h) /\ \A e \in Drivers : e # d => drv'[e] = drv[e]
      BY <1>1, <3>1, OneDriver
    <3>4. ASSUME Holds(d) PROVE Knows(drv'[d], journal')
      BY <1>2, <1>3, <3>2, <3>3, <3>4, KnowsOn DEF Stays, AtWork
    <3> QED
      BY <1>3, <2>3, <3>2, <3>3, <3>4
  <2>7. CASE ChildSide(d)
    <3>1. /\ Types' /\ drv[d].pc \in FromChild /\ journal' = journal /\ owner' = owner
          /\ \A e \in Drivers : e # d => drv'[e] = drv[e]
          /\ \E pc \in ToChild, h \in Exits : Stays(drv[d], drv'[d], pc, h)
      BY <2>7, ChildStepTyped DEF ChildSide
    <3>2. ASSUME Holds(d) PROVE Knows(drv'[d], journal')
      BY <1>2, <1>3, <3>1, <3>2, KnowsOn DEF Stays, AtWork, FromChild, ToChild
    <3> QED
      BY <1>3, <2>3, <3>1, <3>2
  <2>8. CASE UnwindStep(d)
    <3> DEFINE c == NextComp(drv[d].comps)
    <3>1. /\ Types' /\ owner' = owner /\ \A e \in Drivers : e # d => drv'[e] = drv[e]
          /\ drv'[d].snap = drv[d].snap /\ drv'[d].seen = drv[d].seen
          /\ drv'[d].pc \in {"unwind", "undo", "undone"}
      BY <2>8, UnwindTyped, UndoTyped, RecordUndoTyped DEF UnwindStep, CompGone, Stays
    <3>2. Grows(journal, journal')
      <4>1. ASSUME drv[d].pc \in {"unwind", "undo", "undone"}, drv[d].comps # {}
            PROVE  c.slot \in Slots /\ c.name \in Names
        BY <4>1, UnwindingDriver, BodyFacts DEF Comp
      <4>2. CASE Unwind(d)
        BY <1>1, <1>3, <4>1, <4>2, UnwindTyped, StoreGrows
      <4>3. CASE Undo(d)
        BY <1>3, <4>3, UndoTyped
      <4>4. CASE RecordUndo(d)
        BY <1>1, <1>3, <4>1, <4>4, RecordUndoTyped, StoreGrows, DriverParts
      <4> QED
        BY <2>8, <4>2, <4>3, <4>4 DEF UnwindStep
    <3>3. ASSUME Holds(d) PROVE Knows(drv'[d], journal')
      BY <1>2, <3>1, <3>2, <3>3, KnowsOn DEF AtWork
    <3> QED
      BY <2>3, <3>1, <3>2, <3>3
  <2>9. CASE Types' /\ Saves(d)
    <3>1. owner' = d /\ Knows(drv'[d], journal')
      BY <2>9, EntryTypes DEF Saves, Bare, Knows, AtWork
    <3> QED
      BY <2>9, <3>1 DEF Holds
  <2> QED
    BY <1>5, <2>1, <2>2, <2>4, <2>5, <2>6, <2>7, <2>8, <2>9 DEF AnyStep
<1> QED
  BY <1>1, <1>4, <1>5, EveryStep

(* The initial state. *)
LEMMA LiveInit == Init => LiveInv
<1> SUFFICES ASSUME Init PROVE LiveInv
  OBVIOUS
<1>1. /\ journal = NewJournal /\ drv = [d \in Drivers |-> Idle] /\ owner = Nobody
      /\ run = [status |-> "running", waits |-> "", on |-> 0, timed |-> FALSE, done |-> FALSE]
      /\ child = [status |-> "none", run |-> 0, by |-> Nobody] /\ ended = {} /\ waking = {}
      /\ inForce = [a \in Activities |-> {}] /\ executed = [a \in Activities |-> 0]
  BY DEF Init
<1>2. JournalTyped
  BY <1>1, EntryTypes DEF JournalTyped
<1>3. RunTyped
  BY <1>1 DEF RunTyped
<1>4. DriversTyped
  <2>1. Idle \in Driver /\ Placed(Idle) /\ Idle.pc = "idle"
    BY BareDriver DEF Bare, Placed, AtWork, BarePCs
  <2> QED
    BY <1>1, <2>1 DEF DriversTyped
<1>5. ChildTyped
  BY <1>1 DEF ChildTyped, ChildStates
<1>6. EffectsTyped
  <2>1. /\ inForce \in [Activities -> SUBSET Nat] /\ executed \in [Activities -> Nat]
        /\ \A a \in Activities : inForce[a] = {} /\ executed[a] = 0
    BY <1>1
  <2> QED
    BY <2>1 DEF EffectsTyped
<1> QED
  BY <1>1, <1>2, <1>3, <1>4, <1>5, <1>6, BodyFacts DEF LiveInv, Types, Holds

(* Nothing changes when nothing moves. *)
LEMMA LiveStutter ==
    ASSUME LiveInv, UNCHANGED vars
    PROVE  LiveInv'
BY DEF LiveInv, Types, JournalTyped, RunTyped, DriversTyped, ChildTyped, EffectsTyped, Holds, Knows,
       vars, jobVars, childVars, worldVars, effectVars

(* The inductive invariant of the journal, for every body. *)
THEOREM JournalInvariant == Spec => []LiveInv
<1>1. Init => LiveInv
  BY LiveInit
<1>2. LiveInv /\ [Next]_vars => LiveInv'
  BY LiveStep, LiveStutter
<1> QED
  BY <1>1, <1>2, PTL DEF Spec

(* JournalCursor.complete: whoever wins the race of a delivery, the wait's *)
(* timeout and a lapsed driver, the body of the lock's holder was given    *)
(* what the journal holds, whatever the body is and catches.               *)
THEOREM LiveAgrees == Spec => []LiveAgreesWithJournal
<1>1. LiveInv => LiveAgreesWithJournal
  BY DEF LiveInv, Knows, LiveAgreesWithJournal
<1> QED
  BY <1>1, JournalInvariant, PTL

-----------------------------------------------------------------------------
(* The slots of a body that catches nothing: yields have their rows in     *)
(* order, each compensation its own row behind the activity's.             *)
LEMMA SlotOrder ==
    /\ SlotOf(1) = 0
    /\ \A i \in 1 .. Len(Body) + 1 : SlotOf(i) \in Nat /\ SlotOf(i) <= 2 * (i - 1)
    /\ \A i \in Yields : SlotOf(i + 1) = SlotOf(i) + (IF Body[i] \in Compensable THEN 2 ELSE 1)
    /\ \A i, k \in Yields : i < k =>
         /\ SlotOf(i) < SlotOf(k)
         /\ Body[i] \in Compensable => SlotOf(i) + 1 < SlotOf(k)
    /\ \A i \in Yields : SlotOf(i) \in Slots /\ SlotOf(i) + 1 \in Slots
<1>1. Len(Body) \in Nat
  BY BodyFacts
<1> DEFINE C(i) == CompsBefore(i)
<1>2. ASSUME NEW i \in 1 .. Len(Body) + 1
      PROVE  /\ IsFiniteSet(C(i)) /\ Cardinality(C(i)) \in Nat /\ Cardinality(C(i)) <= i - 1
             /\ \A j \in C(i) : j \in 1 .. (i - 1)
  <2>1. C(i) \subseteq 1 .. (i - 1) /\ i - 1 \in Nat
    BY <1>1 DEF CompsBefore, Yields
  <2>2. IsFiniteSet(1 .. (i - 1)) /\ Cardinality(1 .. (i - 1)) = i - 1
    <3>1. Cardinality(1 .. (i - 1)) = IF 1 > i - 1 THEN 0 ELSE (i - 1) - 1 + 1
      BY <2>1, FS_Interval
    <3>2. IsFiniteSet(1 .. (i - 1))
      BY <2>1, FS_Interval
    <3> QED
      BY <2>1, <3>1, <3>2
  <2>3. IsFiniteSet(C(i)) /\ Cardinality(C(i)) <= Cardinality(1 .. (i - 1))
    <3> HIDE DEF C
    <3> QED
      BY <2>1, <2>2, FS_Subset
  <2>4. Cardinality(C(i)) \in Nat
    BY <2>3, FS_CardinalityType
  <2> QED
    BY <2>1, <2>2, <2>3, <2>4
<1>3. SlotOf(1) = 0
  <2>1. C(1) = {}
    BY DEF CompsBefore, Yields
  <2> QED
    BY <2>1, FS_EmptySet DEF SlotOf
<1>4. \A i \in 1 .. Len(Body) + 1 : SlotOf(i) \in Nat /\ SlotOf(i) <= 2 * (i - 1)
  <2> TAKE i \in 1 .. Len(Body) + 1
  <2>1. Cardinality(C(i)) \in Nat /\ Cardinality(C(i)) <= i - 1 /\ SlotOf(i) = (i - 1) + Cardinality(C(i))
    BY <1>2 DEF SlotOf
  <2> HIDE DEF C
  <2> QED
    BY <1>1, <2>1
<1>5. \A i \in Yields : i \in 1 .. Len(Body) + 1 /\ i + 1 \in 1 .. Len(Body) + 1 /\ i \in Nat
  BY <1>1 DEF Yields
<1>6. ASSUME NEW i \in Yields PROVE SlotOf(i + 1) = SlotOf(i) + (IF Body[i] \in Compensable THEN 2 ELSE 1)
  <2>1. C(i + 1) = IF Body[i] \in Compensable THEN C(i) \cup {i} ELSE C(i)
    BY <1>1 DEF CompsBefore, Yields
  <2>2a. i \notin C(i)
    BY <1>1 DEF CompsBefore, Yields
  <2>2. i \notin C(i) /\ IsFiniteSet(C(i)) /\ Cardinality(C(i)) \in Nat
    BY <1>2, <1>5, <2>2a
  <2>3. SlotOf(i) = (i - 1) + Cardinality(C(i)) /\ SlotOf(i + 1) = i + Cardinality(C(i + 1))
    BY <1>5 DEF SlotOf
  <2> HIDE DEF C
  <2>4. Cardinality(C(i) \cup {i}) = Cardinality(C(i)) + 1
    BY <2>2, FS_AddElement
  <2> QED
    BY <1>5, <2>1, <2>2, <2>3, <2>4
<1>7. ASSUME NEW i \in Yields, NEW k \in Yields, i < k
      PROVE  /\ SlotOf(i) < SlotOf(k)
             /\ Body[i] \in Compensable => SlotOf(i) + 1 < SlotOf(k)
  <2>1. C(i) \in SUBSET C(k) /\ i \notin C(i) /\ (Body[i] \in Compensable => C(i) \cup {i} \in SUBSET C(k))
    BY <1>1, <1>7 DEF CompsBefore, Yields
  <2>2. /\ IsFiniteSet(C(i)) /\ Cardinality(C(i)) \in Nat /\ IsFiniteSet(C(k)) /\ Cardinality(C(k)) \in Nat
    BY <1>2, <1>5
  <2>3. SlotOf(i) = (i - 1) + Cardinality(C(i)) /\ SlotOf(k) = (k - 1) + Cardinality(C(k))
    BY DEF SlotOf
  <2> HIDE DEF C
  <2>4. Cardinality(C(i)) <= Cardinality(C(k))
    BY <2>1, <2>2, FS_Subset
  <2>5. ASSUME Body[i] \in Compensable PROVE Cardinality(C(i)) + 1 <= Cardinality(C(k))
    <3>1. Cardinality(C(i) \cup {i}) = Cardinality(C(i)) + 1
      BY <2>1, <2>2, FS_AddElement
    <3>2. Cardinality(C(i) \cup {i}) <= Cardinality(C(k))
      BY <2>1, <2>2, <2>5, FS_Subset
    <3> QED
      BY <3>1, <3>2
  <2> QED
    BY <1>5, <1>7, <2>2, <2>3, <2>4, <2>5
<1>8. \A i \in Yields : SlotOf(i) \in Slots /\ SlotOf(i) + 1 \in Slots
  <2> TAKE i \in Yields
  <2>1. SlotOf(i) \in Nat /\ SlotOf(i) <= 2 * (i - 1) /\ i \in Nat /\ i <= Len(Body)
    BY <1>1, <1>4, <1>5 DEF Yields
  <2> QED
    BY <1>1, <2>1 DEF Slots
<1> QED
  BY <1>3, <1>4, <1>6, <1>7, <1>8

(* No two rows share a slot. *)
LEMMA SlotsApart ==
    ASSUME NEW i \in Yields, NEW k \in Yields
    PROVE  /\ SlotOf(i) = SlotOf(k) => i = k
           /\ Body[i] \in Compensable => SlotOf(i) + 1 # SlotOf(k)
           /\ SlotOf(i) + 1 = SlotOf(k) + 1 => i = k
           /\ SlotOf(i) \in Slots /\ SlotOf(i) + 1 \in Slots /\ SlotOf(i) \in Nat
           /\ i < k => SlotOf(i) < SlotOf(k)
<1>1. i \in Nat /\ k \in Nat /\ SlotOf(i) \in Nat /\ SlotOf(k) \in Nat
  BY BodyFacts, SlotOrder DEF Yields
<1>2. i < k \/ k < i \/ i = k
  BY <1>1
<1> QED
  BY <1>1, <1>2, SlotOrder

-----------------------------------------------------------------------------
(* What the kinds of yield have to do with each other. *)
LEMMA YieldKinds ==
    /\ \A i \in Yields : Single(i) => Kind[Body[i]] = "activity"
    /\ \A i \in Yields : Good(i) => Single(i) /\ Body[i] \in Compensable /\ Body[i] \notin UndoCanFail
    /\ \A i \in Yields : Body[i] \in Compensable => Kind[Body[i]] = "activity" /\ Body[i] \in Activities
BY BodyFacts DEF Single, Good

(* Effects may only go, or come to an activity whose row is pending. *)
Shrinks(j, f, g) ==
    \A i \in Yields : Single(i) => g[Body[i]] \subseteq f[Body[i]] \/ j[SlotOf(i)].phase = "pending"

(* A holder is not disturbed by the effects of a lapsed driver. *)
LEMMA OwnsFewer ==
    ASSUME NEW x \in Driver, Placed(x), NEW j, NEW f, NEW g, Owns(x, j, f), Shrinks(j, f, g)
    PROVE  Owns(x, j, g)
<1>1. OnItsWay(x, j) /\ \A c \in x.comps : CompSound(c, j)
  BY DEF Owns
<1>2. \A i \in Yields : Single(i) /\ Done(j[SlotOf(i)]) => g[Body[i]] \subseteq f[Body[i]]
  BY DEF Shrinks, Done
<1>3. RolledSound(x, j, g)
  <2>1. \A i \in Yields : RolledBack(i, x, j, f) => RolledBack(i, x, j, g)
    BY <1>2 DEF RolledBack
  <2> QED
    BY <2>1 DEF Owns, RolledSound
<1>4. Unwinding(x, j, g)
  <2>1. ASSUME x.pc = "undone"
        PROVE  LET c == NextComp(x.comps) IN
                 \/ x.hand.ok /\ (c.name \notin Idempotent => g[c.name] = {})
                 \/ ~ x.hand.ok /\ c.name \in UndoCanFail
    <3> DEFINE c == NextComp(x.comps)
    <3>1. x.comps \in SUBSET Comp /\ x.comps # {}
      BY <2>1 DEF Driver, Placed
    <3>2. c \in x.comps
      BY <3>1, NextCompFacts
    <3>3. PICK i \in Yields : c.name = Body[i] /\ Done(j[SlotOf(i)]) /\ Body[i] \in Compensable
      BY <1>1, <3>2 DEF CompSound
    <3>4. \/ x.hand.ok /\ (c.name \notin Idempotent => f[c.name] = {})
          \/ ~ x.hand.ok /\ c.name \in UndoCanFail
      BY <2>1 DEF Owns, Unwinding
    <3>5. c.name \notin Idempotent => g[c.name] \subseteq f[c.name]
      BY <1>2, <3>3, YieldKinds DEF Single
    <3> HIDE DEF c
    <3>6. \/ x.hand.ok /\ (c.name \notin Idempotent => g[c.name] = {})
          \/ ~ x.hand.ok /\ c.name \in UndoCanFail
      BY <3>4, <3>5
    <3> QED
      BY <3>6 DEF c
  <2> QED
    BY <2>1 DEF Owns, Unwinding
<1> QED
  BY <1>1, <1>3, <1>4 DEF Owns

(* A driver takes a step: what has to be shown of it and of the journal. *)
Rows(j, f) == RowsNamed(j) /\ RowsTell(j, f) /\ RowsInOrder(j)
NewlyBusy(d, y) == \A e \in Drivers : e # d /\ Busy(drv[e]) => drv[e].at # y.at

(* What is shown of one driver is enough: the others keep what they had. *)
LEMMA DriverFrame ==
    ASSUME StepInv, LiveInv', NEW d \in Drivers, owner' = owner, run' = run,
           \A e \in Drivers : e # d => drv'[e] = drv[e],
           Rows(journal', inForce'),
           BusySound(drv'[d], journal', inForce'), InPlace(drv'[d]),
           \A e \in Drivers : e # d => BusySound(drv[e], journal', inForce'),
           Busy(drv'[d]) => NewlyBusy(d, drv'[d]),
           Holds(d) => Owns(drv'[d], journal', inForce'),
           ~ Holds(d) => journal' = journal /\ Shrinks(journal, inForce, inForce')
    PROVE  StepInv'
<1>1. \A e \in Drivers : drv[e] \in Driver /\ Placed(drv[e])
  BY DriverParts DEF StepInv, LiveInv
<1>2. OneBusy'
  <2>1. \A e, g \in Drivers : Busy(drv'[e]) /\ Busy(drv'[g]) /\ drv'[e].at = drv'[g].at => e = g
    BY DEF StepInv, OneBusy, NewlyBusy
  <2> QED
    BY <2>1 DEF OneBusy
<1>3. ASSUME NEW e \in Drivers
      PROVE  /\ BusySound(drv'[e], journal', inForce') /\ InPlace(drv'[e])
             /\ owner' = e => Owns(drv'[e], journal', inForce')
  <2>1. CASE e = d
    BY <2>1 DEF Holds
  <2>2. CASE e # d
    <3>1. drv'[e] = drv[e] /\ InPlace(drv[e]) /\ BusySound(drv[e], journal', inForce')
      BY <2>2 DEF StepInv
    <3>2. ASSUME owner = e PROVE Owns(drv[e], journal', inForce')
      <4>1. ~ Holds(d) /\ Owns(drv[e], journal, inForce)
        BY <2>2, <3>2 DEF Holds, StepInv
      <4> QED
        BY <1>1, <4>1, OwnsFewer
    <3> QED
      BY <3>1, <3>2
  <2> QED
    BY <2>1, <2>2
<1>4. ASSUME run'.status = "failed" PROVE owner' = Nobody /\ NothingGood(journal')
  <2>1. owner = Nobody /\ NothingGood(journal)
    BY <1>4 DEF StepInv
  <2>2. ~ Holds(d)
    BY <2>1, BodyFacts DEF Holds
  <2> QED
    BY <2>1, <2>2
<1>5. RowsNamed(journal') /\ RowsTell(journal', inForce') /\ RowsInOrder(journal')
  BY DEF Rows
<1>6. \A e \in Drivers : (Holds(e))' => owner' = e
  BY DEF Holds
<1> QED
  BY <1>2, <1>3, <1>4, <1>5, <1>6 DEF StepInv

(* A driver is out of the step, or lets go of a run that has failed. *)
LEMMA IdlesStep ==
    ASSUME StepInv, LiveInv', NEW d \in Drivers, Idles(d),
           run'.status = "failed" => run' = run \/ (Holds(d) /\ drv[d].pc = "fail" /\ owner' = Nobody)
    PROVE  StepInv'
<1>1. /\ journal' = journal /\ inForce' = inForce /\ drv'[d] = Idle
      /\ \A e \in Drivers : e # d => drv'[e] = drv[e]
      /\ owner' \in {owner, Nobody} /\ owner' # d
  BY OneDriver DEF Idles, effectVars, StepInv, LiveInv, Types, DriversTyped
<1>2. ~ Busy(Idle) /\ InPlace(Idle)
  BY BareDriver DEF Bare, Busy, InPlace, AtWork, BarePCs
<1>3. OneBusy'
  <2>1. \A e, g \in Drivers : Busy(drv'[e]) /\ Busy(drv'[g]) /\ drv'[e].at = drv'[g].at => e = g
    BY <1>1, <1>2 DEF StepInv, OneBusy
  <2> QED
    BY <2>1 DEF OneBusy
<1>4. ASSUME NEW e \in Drivers
      PROVE  /\ BusySound(drv'[e], journal', inForce') /\ InPlace(drv'[e])
             /\ owner' = e => Owns(drv'[e], journal', inForce')
  <2>1. CASE e = d
    BY <1>1, <1>2, <2>1 DEF BusySound
  <2>2. CASE e # d
    <3>1. owner' = e => owner = e
      BY <1>1, BodyFacts
    <3> QED
      BY <1>1, <2>2, <3>1 DEF StepInv, Holds
  <2> QED
    BY <2>1, <2>2
<1>5. ASSUME run'.status = "failed" PROVE owner' = Nobody /\ NothingGood(journal')
  <2>1. CASE run' = run
    BY <1>1, <1>5, <2>1 DEF StepInv
  <2>2. CASE Holds(d) /\ drv[d].pc = "fail" /\ owner' = Nobody
    BY <1>1, <2>2 DEF StepInv, Owns, Unwinding
  <2> QED
    BY <1>5, <2>1, <2>2
<1>6. \A e \in Drivers : (Holds(e))' => owner' = e
  BY DEF Holds
<1>7. RowsNamed(journal') /\ RowsTell(journal', inForce') /\ RowsInOrder(journal')
  BY <1>1 DEF StepInv
<1> QED
  BY <1>3, <1>4, <1>5, <1>6, <1>7 DEF StepInv

(* The body starts over, for a new holder or in a new attempt. *)
LEMMA BeginStep ==
    ASSUME StepInv, LiveInv', NEW d \in Drivers, (Lock(d) /\ ~ run.done) \/ Retry(d)
    PROVE  StepInv'
<1>1. /\ journal' = journal /\ inForce' = inForce /\ drv'[d] = Begun /\ owner' = d /\ run' = run
      /\ \A e \in Drivers : e # d => drv'[e] = drv[e]
      /\ owner = Nobody \/ owner = d
      /\ run.status # "failed"
  <2>1. Set(d, Begun) /\ journal' = journal /\ UNCHANGED effectVars /\ owner' = d
    BY BeginTyped DEF StepInv, LiveInv
  <2>2. run' = run /\ (owner = Nobody \/ owner = d) /\ run.status # "failed"
    BY BodyFacts DEF Lock, Retry, Drivable, Holds, StepInv
  <2> QED
    BY <2>1, <2>2, OneDriver DEF effectVars, StepInv, LiveInv, Types, DriversTyped
<1>2. /\ Begun \in Driver /\ Begun.pc = "yield" /\ Begun.at = 1 /\ Begun.next = 0
      /\ Begun.comps = {} /\ Begun.rolled = {} /\ Begun.snap = journal
  BY BegunDriver DEF StepInv, LiveInv, Types
<1>3. ~ Busy(Begun) /\ InPlace(Begun)
  BY <1>2, SlotOrder DEF Busy, InPlace
<1>4. Owns(Begun, journal, inForce)
  <2>1. \A i \in Yields : ~ (i < 1)
    BY BodyFacts DEF Yields
  <2>2. OnItsWay(Begun, journal)
    BY <1>2, <2>1 DEF OnItsWay
  <2> QED
    BY <1>2, <2>2 DEF Owns, RolledSound, Unwinding
<1>5. OneBusy'
  <2>1. \A e, g \in Drivers : Busy(drv'[e]) /\ Busy(drv'[g]) /\ drv'[e].at = drv'[g].at => e = g
    BY <1>1, <1>3 DEF StepInv, OneBusy
  <2> QED
    BY <2>1 DEF OneBusy
<1>6. ASSUME NEW e \in Drivers
      PROVE  /\ BusySound(drv'[e], journal', inForce') /\ InPlace(drv'[e])
             /\ owner' = e => Owns(drv'[e], journal', inForce')
  <2>1. CASE e = d
    BY <1>1, <1>3, <1>4, <2>1 DEF BusySound
  <2>2. CASE e # d
    BY <1>1, <2>2 DEF StepInv
  <2> QED
    BY <2>1, <2>2
<1>7. \A e \in Drivers : (Holds(e))' => owner' = e
  BY DEF Holds
<1>8. RowsNamed(journal') /\ RowsTell(journal', inForce') /\ RowsInOrder(journal')
  BY <1>1 DEF StepInv
<1> QED
  BY <1>1, <1>5, <1>6, <1>7, <1>8 DEF StepInv

(* The holder goes on to the run's end with nothing in hand. *)
LEMMA SavesStep ==
    ASSUME StepInv, LiveInv', NEW d \in Drivers, Saves(d)
    PROVE  StepInv'
<1>1. /\ journal' = journal /\ inForce' = inForce /\ owner' = d /\ owner \in {d, Nobody}
      /\ \A e \in Drivers : e # d => drv'[e] = drv[e]
  BY DEF Saves, effectVars
<1>2. run'.status # "failed"
  BY BodyFacts DEF Saves, StepInv, Holds
<1>3. ~ Busy(drv'[d]) /\ InPlace(drv'[d])
  BY DEF Saves, Bare, Busy, InPlace, AtWork
<1>4. Owns(drv'[d], journal, inForce)
  <2>1. drv'[d].pc = "fail" => NothingGood(journal)
    BY DEF Saves, Bare, StepInv, Owns, Unwinding
  <2> QED
    BY <2>1 DEF Saves, Bare, Owns, OnItsWay, AtWork, RolledSound, Unwinding
<1>5. OneBusy'
  <2>1. \A e, g \in Drivers : Busy(drv'[e]) /\ Busy(drv'[g]) /\ drv'[e].at = drv'[g].at => e = g
    BY <1>1, <1>3 DEF StepInv, OneBusy
  <2> QED
    BY <2>1 DEF OneBusy
<1>6. ASSUME NEW e \in Drivers
      PROVE  /\ BusySound(drv'[e], journal', inForce') /\ InPlace(drv'[e])
             /\ owner' = e => Owns(drv'[e], journal', inForce')
  <2>1. CASE e = d
    BY <1>1, <1>3, <1>4, <2>1 DEF BusySound
  <2>2. CASE e # d
    BY <1>1, <2>2 DEF StepInv
  <2> QED
    BY <2>1, <2>2
<1>7. \A e \in Drivers : (Holds(e))' => owner' = e
  BY DEF Holds
<1>8. RowsNamed(journal') /\ RowsTell(journal', inForce') /\ RowsInOrder(journal')
  BY <1>1 DEF StepInv
<1> QED
  BY <1>2, <1>5, <1>6, <1>7, <1>8 DEF StepInv

(* The parent's side of a child run. *)
LEMMA ChildSideStep ==
    ASSUME StepInv, LiveInv', NEW d \in Drivers, ChildSide(d)
    PROVE  StepInv'
<1>1. /\ drv[d].pc \in FromChild /\ journal' = journal /\ run' = run /\ owner' = owner
      /\ inForce' = inForce /\ Kind[Body[drv[d].at]] = "child" /\ drv[d].at \in Yields
      /\ \A e \in Drivers : e # d => drv'[e] = drv[e]
      /\ \E pc \in ToChild, h \in Exits : Stays(drv[d], drv'[d], pc, h)
  BY ChildStepTyped DEF ChildSide, StepInv, LiveInv, effectVars
<1>2. ~ Busy(drv'[d])
  BY <1>1, YieldKinds DEF Busy, Stays
<1>3. InPlace(drv'[d])
  BY <1>1 DEF StepInv, InPlace, Stays, AtWork, FromChild, ToChild
<1>4. ASSUME Holds(d) PROVE Owns(drv'[d], journal, inForce)
  <2>1. Owns(drv[d], journal, inForce)
    BY <1>4 DEF StepInv
  <2>2. OnItsWay(drv'[d], journal)
    BY <1>1, <2>1 DEF Owns, OnItsWay, Stays, AtWork, Ahead, FromChild, ToChild
  <2> QED
    BY <1>1, <2>1, <2>2 DEF Owns, Stays, RolledSound, RolledBack, Unwinding, ToChild
<1>5. Rows(journal', inForce') /\ Shrinks(journal, inForce, inForce')
  BY <1>1 DEF StepInv, Rows, Shrinks
<1>6. \A e \in Drivers : e # d => BusySound(drv[e], journal', inForce')
  BY <1>1 DEF StepInv
<1> QED
  BY <1>1, <1>2, <1>3, <1>4, <1>5, <1>6, DriverFrame DEF BusySound

(* Fewer effects: every row tells as much, and so does every driver. *)
LEMMA FewerEffects ==
    ASSUME NEW j, NEW f, NEW g, \A i \in Yields : Single(i) => g[Body[i]] \subseteq f[Body[i]]
    PROVE  /\ RowsTell(j, f) => RowsTell(j, g)
           /\ \A x : BusySound(x, j, f) /\ (Busy(x) => x.at \in Yields) => BusySound(x, j, g)
           /\ Shrinks(j, f, g)
<1>1. ASSUME RowsTell(j, f) PROVE RowsTell(j, g)
  <2>1. ASSUME NEW i \in Yields, Single(i)
        PROVE  /\ RowTells(j[SlotOf(i)], g[Body[i]])
               /\ Body[i] \in Compensable => UndoTells(j[SlotOf(i) + 1], i, g[Body[i]])
    <3>1. /\ RowTells(j[SlotOf(i)], f[Body[i]])
          /\ Body[i] \in Compensable => UndoTells(j[SlotOf(i) + 1], i, f[Body[i]])
          /\ g[Body[i]] \subseteq f[Body[i]]
      BY <1>1, <2>1 DEF RowsTell
    <3>2. RowTells(j[SlotOf(i)], g[Body[i]])
      BY <3>1 DEF RowTells
    <3> QED
      BY <3>1, <3>2 DEF UndoTells
  <2> QED
    BY <2>1 DEF RowsTell
<1>2. ASSUME NEW x, BusySound(x, j, f), Busy(x) => x.at \in Yields PROVE BusySound(x, j, g)
  <2>1. Busy(x) => g[Body[x.at]] \subseteq f[Body[x.at]]
    BY <1>2 DEF Busy
  <2> QED
    BY <1>2, <2>1 DEF BusySound
<1> QED
  BY <1>1, <1>2 DEF Shrinks

(* A busy driver is at a yield. *)
LEMMA BusyPlace ==
    ASSUME Types, NEW e \in Drivers, Busy(drv[e])
    PROVE  drv[e].at \in Yields
BY DriverParts, InBody DEF Busy, AtWork

(* An activity runs: only the driver that is busy with it brings it about. *)
LEMMA ActivityStep ==
    ASSUME StepInv, LiveInv', NEW d \in Drivers, RunActivity(d)
    PROVE  StepInv'
<1> DEFINE i == drv[d].at
           a == Body[i]
<1>1. Types /\ drv \in [Drivers -> Driver] /\ inForce \in [Activities -> SUBSET Nat]
  BY DEF StepInv, LiveInv, Types, DriversTyped, EffectsTyped
<1>2. /\ drv[d].pc = "activity" /\ i \in Yields /\ a \in Activities
      /\ journal' = journal /\ run' = run /\ owner' = owner
  BY <1>1, ActivityTyped
<1>3. PICK h \in Exits :
        /\ Set(d, [drv[d] EXCEPT !.pc = "record", !.hand = h])
        /\ Stays(drv[d], [drv[d] EXCEPT !.pc = "record", !.hand = h], "record", h)
        /\ \/ ~ h.ok /\ inForce' = inForce
           \/ h.ok /\ inForce' = [inForce EXCEPT ![a] = @ \cup {h.value}]
  BY <1>1, ActivityTyped
<1>4. Stays(drv[d], drv'[d], "record", h) /\ \A e \in Drivers : e # d => drv'[e] = drv[e]
  BY <1>1, <1>3, OneDriver
<1>5. \A k \in Yields : Single(k) /\ k # i => inForce'[Body[k]] = inForce[Body[k]]
  <2>1. \A k \in Yields : k # i => Body[k] # a
    BY <1>2, BodyFacts
  <2>2. \A b \in Activities : b # a => inForce'[b] = inForce[b]
    <3> HIDE DEF a
    <3> QED
      BY <1>1, <1>2, <1>3
  <2> QED
    BY <2>1, <2>2, BodyFacts DEF Single
<1>6. Busy(drv[d]) <=> Single(i)
  BY <1>2 DEF Busy
<1>7. ASSUME Single(i)
      PROVE  /\ journal[SlotOf(i)].phase = "pending" /\ inForce[a] = {}
             /\ h.ok => inForce'[a] \subseteq {h.value}
             /\ ~ h.ok => inForce'[a] = {}
             /\ \A u, v \in inForce'[a] : u = v
  <2>1. journal[SlotOf(i)].phase = "pending" /\ inForce[a] = {}
    BY <1>2, <1>6, <1>7 DEF StepInv, BusySound
  <2>2. \/ ~ h.ok /\ inForce'[a] = {}
        \/ h.ok /\ inForce'[a] = {h.value}
    <3> HIDE DEF a
    <3> QED
      BY <1>1, <1>2, <1>3, <2>1
  <2> QED
    BY <2>1, <2>2
<1>8. Shrinks(journal, inForce, inForce')
  <2>1. \A k \in Yields : Single(k) => inForce'[Body[k]] \subseteq inForce[Body[k]] \/ journal[SlotOf(k)].phase = "pending"
    BY <1>5, <1>7
  <2> QED
    BY <2>1 DEF Shrinks
<1>9. RowsTell(journal, inForce')
  <2>1. ASSUME NEW k \in Yields, Single(k)
        PROVE  /\ RowTells(journal[SlotOf(k)], inForce'[Body[k]])
               /\ Body[k] \in Compensable => UndoTells(journal[SlotOf(k) + 1], k, inForce'[Body[k]])
    <3>1. CASE k # i
      BY <1>5, <2>1, <3>1 DEF StepInv, RowsTell
    <3>2. CASE k = i
      <4>1. RowTells(journal[SlotOf(k)], inForce'[Body[k]])
        BY <1>7, <2>1, <3>2 DEF RowTells, Done, Fell
      <4>2. ASSUME Body[k] \in Compensable PROVE journal[SlotOf(k) + 1].phase = "none"
        BY <1>7, <2>1, <3>2, <4>2 DEF StepInv, RowsNamed, Done
      <4> QED
        BY <4>1, <4>2 DEF UndoTells, Done, Fell
    <3> QED
      BY <3>1, <3>2
  <2> QED
    BY <2>1 DEF RowsTell
<1>10. BusySound(drv'[d], journal, inForce')
  BY <1>4, <1>7 DEF BusySound, Busy, Stays
<1>11. \A e \in Drivers : e # d => BusySound(drv[e], journal, inForce')
  <2> SUFFICES ASSUME NEW e \in Drivers, e # d, Busy(drv[e])
               PROVE  BusySound(drv[e], journal, inForce')
    BY DEF BusySound
  <2>1. drv[e].at # i
    BY <1>6 DEF StepInv, OneBusy, Busy
  <2>2. inForce'[Body[drv[e].at]] = inForce[Body[drv[e].at]]
    BY <1>1, <1>5, <2>1, BusyPlace DEF Busy
  <2> QED
    BY <2>2 DEF StepInv, BusySound
<1>12. ASSUME Busy(drv'[d]) PROVE NewlyBusy(d, drv'[d])
  BY <1>4, <1>6, <1>12 DEF StepInv, OneBusy, NewlyBusy, Busy, Stays
<1>13. InPlace(drv'[d])
  BY <1>2, <1>4 DEF StepInv, InPlace, Stays, AtWork
<1>14. ASSUME Holds(d) PROVE Owns(drv'[d], journal, inForce')
  <2>1. Owns(drv[d], journal, inForce')
    BY <1>1, <1>8, <1>14, OwnsFewer, DriverParts DEF StepInv
  <2>2. OnItsWay(drv'[d], journal)
    BY <1>2, <1>4, <2>1 DEF Owns, OnItsWay, Stays, AtWork, Ahead
  <2> QED
    BY <1>4, <2>1, <2>2 DEF Owns, Stays, RolledSound, RolledBack, Unwinding
<1>15. Rows(journal', inForce')
  BY <1>2, <1>9 DEF Rows, StepInv
<1> QED
  BY <1>2, <1>4, <1>8, <1>10, <1>11, <1>12, <1>13, <1>14, <1>15, DriverFrame

(* The compensation a holder is at, and the yield it belongs to. *)
LEMMA HeldComp ==
    ASSUME StepInv, NEW d \in Drivers, Holds(d), drv[d].pc \in {"unwind", "undo", "undone"},
           drv[d].comps # {}, NEW c, c = NextComp(drv[d].comps)
    PROVE  \E i \in Yields :
             /\ Body[i] \in Compensable /\ c.name = Body[i] /\ c.source = SlotOf(i) /\ c.slot = SlotOf(i) + 1
             /\ Done(journal[SlotOf(i)]) /\ journal[SlotOf(i)].exit.value = c.value
             /\ Single(i) => inForce[Body[i]] \subseteq {c.value}
<1>1. c \in drv[d].comps
  BY UnwindingDriver DEF StepInv, LiveInv
<1>2. CompSound(c, journal)
  BY <1>1 DEF StepInv, Owns
<1>3. PICK i \in Yields :
        /\ Body[i] \in Compensable /\ c.name = Body[i] /\ c.source = SlotOf(i) /\ c.slot = SlotOf(i) + 1
        /\ Done(journal[SlotOf(i)]) /\ journal[SlotOf(i)].exit.value = c.value
  BY <1>2 DEF CompSound
<1>4. Single(i) => inForce[Body[i]] \subseteq {c.value}
  BY <1>3 DEF StepInv, RowsTell, RowTells
<1> QED
  BY <1>3, <1>4

(* A compensate callback runs: effects only go. *)
LEMMA UndoStep ==
    ASSUME StepInv, LiveInv', NEW d \in Drivers, Undo(d)
    PROVE  StepInv'
<1> DEFINE c == NextComp(drv[d].comps)
<1>1. Types /\ inForce \in [Activities -> SUBSET Nat]
  BY DEF StepInv, LiveInv, Types, EffectsTyped
<1>2. /\ journal' = journal /\ run' = run /\ owner' = owner /\ drv[d].pc = "undo" /\ drv[d].comps # {}
      /\ \A e \in Drivers : e # d => drv'[e] = drv[e]
  BY <1>1, UndoTyped
<1>3. PICK h \in Exits :
        /\ Stays(drv[d], drv'[d], "undone", h)
        /\ \/ h.ok /\ inForce' = [inForce EXCEPT ![c.name] = @ \ {c.value}]
           \/ ~ h.ok /\ c.name \in UndoCanFail /\ inForce' = inForce
  BY <1>1, UndoTyped
<1>4. c.name \in Activities
  BY <1>1, <1>2, UnwindingDriver DEF Comp
<1>5. \A a \in Activities : inForce'[a] \subseteq inForce[a]
  <2> HIDE DEF c
  <2> QED
    BY <1>1, <1>3, <1>4
<1>6. \A i \in Yields : Single(i) => inForce'[Body[i]] \subseteq inForce[Body[i]]
  BY <1>5 DEF Single
<1>7. Rows(journal', inForce') /\ Shrinks(journal, inForce, inForce')
  BY <1>2, <1>6, FewerEffects DEF StepInv, Rows
<1>8. \A e \in Drivers : e # d => BusySound(drv[e], journal', inForce')
  BY <1>1, <1>2, <1>6, FewerEffects, BusyPlace DEF StepInv
<1>9. ~ Busy(drv'[d]) /\ InPlace(drv'[d])
  BY <1>3 DEF Stays, Busy, InPlace, AtWork
<1>10. ASSUME Holds(d) PROVE Owns(drv'[d], journal, inForce')
  <2>1. Owns(drv[d], journal, inForce')
    BY <1>1, <1>7, <1>10, OwnsFewer, DriverParts DEF StepInv
  <2>2. \/ h.ok /\ (c.name \notin Idempotent => inForce'[c.name] = {})
        \/ ~ h.ok /\ c.name \in UndoCanFail
    <3>1. PICK i \in Yields : c.name = Body[i] /\ (Single(i) => inForce[Body[i]] \subseteq {c.value})
      BY <1>2, <1>10, HeldComp
    <3>2. c.name \notin Idempotent => inForce[c.name] \subseteq {c.value}
      BY <1>4, <3>1 DEF Single
    <3> HIDE DEF c
    <3> QED
      BY <1>1, <1>3, <1>4, <3>2
  <2>3. drv'[d].comps = drv[d].comps /\ drv'[d].pc = "undone" /\ drv'[d].hand = h /\ drv'[d].rolled = drv[d].rolled
    BY <1>3 DEF Stays
  <2>4. Unwinding(drv'[d], journal, inForce')
    BY <1>2, <2>1, <2>2, <2>3 DEF Owns, Unwinding
  <2> QED
    BY <2>1, <2>3, <2>4 DEF Owns, RolledSound, RolledBack, OnItsWay, AtWork
<1> QED
  BY <1>2, <1>7, <1>8, <1>9, <1>10, DriverFrame DEF BusySound

(* A change of a compensation's row tells on no other row and no driver. *)
LEMMA CompRowChanges ==
    ASSUME StepInv, NEW i \in Yields, Body[i] \in Compensable, Done(journal[SlotOf(i)]), NEW k,
           \A t \in Slots : t # SlotOf(i) + 1 => k[t] = journal[t],
           k[SlotOf(i) + 1].phase # "none" => k[SlotOf(i) + 1].kind = "compensation",
           Single(i) => UndoTells(k[SlotOf(i) + 1], i, inForce[Body[i]])
    PROVE  /\ Rows(k, inForce) /\ \A m \in Yields : k[SlotOf(m)] = journal[SlotOf(m)]
           /\ \A e \in Drivers : BusySound(drv[e], k, inForce)
<1>1. ASSUME NEW m \in Yields
      PROVE  /\ k[SlotOf(m)] = journal[SlotOf(m)]
             /\ m # i => k[SlotOf(m) + 1] = journal[SlotOf(m) + 1]
  BY SlotsApart
<1>2. RowsNamed(k)
  BY <1>1 DEF StepInv, RowsNamed
<1>3. RowsTell(k, inForce)
  BY <1>1 DEF StepInv, RowsTell
<1>4. RowsInOrder(k)
  BY <1>1 DEF StepInv, RowsInOrder
<1>5. ASSUME NEW e \in Drivers PROVE BusySound(drv[e], k, inForce)
  <2>1. Busy(drv[e]) => drv[e].at \in Yields
    BY BusyPlace DEF StepInv, LiveInv
  <2> QED
    BY <1>1, <2>1 DEF StepInv, BusySound
<1> QED
  BY <1>1, <1>2, <1>3, <1>4, <1>5 DEF Rows

(* A holder's unwind, after a change of the row of one compensation. *)
LEMMA OwnsUnwind ==
    ASSUME NEW x, NEW y, NEW j, NEW k, NEW f, Owns(x, j, f), x.pc \in {"unwind", "undo", "undone"},
           \A m \in Yields : k[SlotOf(m)] = j[SlotOf(m)],
           y.pc \in {"unwind", "undo"}, y.comps \subseteq x.comps, x.rolled \subseteq y.rolled,
           \A s \in y.rolled \ x.rolled : \E i \in Yields :
              s \in {SlotOf(i), SlotOf(i) + 1} /\ RolledBack(i, y, k, f),
           \A m \in Yields : Good(m) /\ (\E c \in x.comps : c.name = Body[m])
              => SlotOf(m) \in y.rolled \/ \E c \in y.comps : c.name = Body[m]
    PROVE  Owns(y, k, f)
<1>1. \A c \in y.comps : CompSound(c, k)
  BY DEF Owns, CompSound
<1>2. RolledSound(y, k, f)
  <2>1. \A i \in Yields : RolledBack(i, x, j, f) => RolledBack(i, y, k, f)
    BY DEF RolledBack
  <2> QED
    BY <2>1 DEF Owns, RolledSound
<1>3. Unwinding(y, k, f)
  BY DEF Owns, Unwinding
<1> QED
  BY <1>1, <1>2, <1>3 DEF Owns, OnItsWay, AtWork

(* A compensation is through: skipped, or recorded by the holder. *)
LEMMA CompGoneOwns ==
    ASSUME StepInv, NEW d \in Drivers, Holds(d), drv[d].pc \in {"unwind", "undone"}, drv[d].comps # {},
           NEW c, c = NextComp(drv[d].comps), NEW ok \in BOOLEAN, CompGone(drv[d], drv'[d], c, ok), NEW k,
           \A m \in Yields : k[SlotOf(m)] = journal[SlotOf(m)],
           ok /\ c.name \notin Idempotent => inForce[c.name] = {},
           ~ ok => c.name \in UndoCanFail \cup Idempotent
    PROVE  Owns(drv'[d], k, inForce)
<1> DEFINE x == drv[d]
           y == drv'[d]
<1>1. PICK i \in Yields :
        /\ Body[i] \in Compensable /\ c.name = Body[i] /\ c.source = SlotOf(i) /\ c.slot = SlotOf(i) + 1
        /\ Done(journal[SlotOf(i)])
  BY HeldComp
<1>2. Owns(x, journal, inForce)
  BY DEF StepInv
<1>3. /\ y.pc = "unwind" /\ y.comps = x.comps \ {c}
      /\ y.rolled = IF ok THEN x.rolled \cup {SlotOf(i), SlotOf(i) + 1} ELSE x.rolled
  BY <1>1 DEF CompGone
<1>4. ASSUME NEW s \in y.rolled \ x.rolled
      PROVE  \E m \in Yields : s \in {SlotOf(m), SlotOf(m) + 1} /\ RolledBack(m, y, k, inForce)
  <2>1. ok /\ s \in {SlotOf(i), SlotOf(i) + 1} /\ SlotOf(i) \in y.rolled /\ SlotOf(i) + 1 \in y.rolled
    BY <1>3, <1>4
  <2>2. Single(i) => inForce[Body[i]] = {}
    BY <1>1, <2>1 DEF Single
  <2>3. RolledBack(i, y, k, inForce)
    BY <1>1, <2>1, <2>2 DEF RolledBack
  <2> QED
    BY <2>1, <2>3
<1>5. ASSUME NEW m \in Yields, Good(m), \E o \in x.comps : o.name = Body[m]
      PROVE  SlotOf(m) \in y.rolled \/ \E o \in y.comps : o.name = Body[m]
  <2>1. CASE m = i
    <3>1. ok
      BY <1>1, <1>5, <2>1 DEF Good
    <3> QED
      BY <1>3, <2>1, <3>1
  <2>2. CASE m # i
    <3>1. c.name # Body[m]
      BY <1>1, <2>2, BodyFacts
    <3> QED
      BY <1>3, <1>5, <3>1
  <2> QED
    BY <2>1, <2>2
<1>6. y.comps \subseteq x.comps /\ x.rolled \subseteq y.rolled
  BY <1>3
<1> QED
  BY <1>2, <1>3, <1>4, <1>5, <1>6, OwnsUnwind

(* CompensationStack.unwind. *)
LEMMA UnwindKeeps ==
    ASSUME StepInv, LiveInv', NEW d \in Drivers, Unwind(d)
    PROVE  StepInv'
<1> DEFINE c == NextComp(drv[d].comps)
<1>1. /\ run' = run /\ owner' = owner /\ inForce' = inForce /\ drv[d].pc = "unwind" /\ drv[d].comps # {}
      /\ \A e \in Drivers : e # d => drv'[e] = drv[e]
  BY UnwindTyped DEF StepInv, LiveInv, effectVars
<1>2. c \in drv[d].comps /\ c.slot \in Slots /\ c.name \in Names
  BY <1>1, UnwindingDriver, BodyFacts DEF StepInv, LiveInv, Comp
<1>3. Shrinks(journal, inForce, inForce')
  BY <1>1 DEF Shrinks
<1>4. drv'[d].pc \in {"unwind", "undo"}
  BY UnwindTyped DEF StepInv, LiveInv, CompGone, Stays
<1>5. ~ Busy(drv'[d]) /\ InPlace(drv'[d])
  BY <1>4 DEF Busy, InPlace, AtWork
<1>6. CASE ~ Holds(d)
  <2>1. journal' = journal
    BY <1>6, UnwindTyped DEF StepInv, LiveInv
  <2> QED
    BY <1>1, <1>3, <1>5, <1>6, <2>1, DriverFrame DEF StepInv, Rows, BusySound
<1>7. CASE Holds(d)
  <2>1. PICK i \in Yields :
          /\ Body[i] \in Compensable /\ c.name = Body[i] /\ c.source = SlotOf(i) /\ c.slot = SlotOf(i) + 1
          /\ Done(journal[SlotOf(i)])
    BY <1>1, <1>7, HeldComp
  <2>2. Single(i) => UndoTells(journal[SlotOf(i) + 1], i, inForce[Body[i]])
    BY <2>1 DEF StepInv, RowsTell
  <2>3. CASE /\ journal' = journal /\ drv[d].snap[c.slot].phase = "completed"
             /\ CompGone(drv[d], drv'[d], c, drv[d].snap[c.slot].exit.ok)
    <3> DEFINE ok == drv[d].snap[c.slot].exit.ok
    <3>1. drv[d].snap[c.slot].phase = "completed" /\ CompGone(drv[d], drv'[d], c, ok)
      BY <2>3
    <3>2. journal[c.slot] = drv[d].snap[c.slot] /\ ok \in BOOLEAN
      BY <1>2, <1>7, <3>1, DriverParts DEF StepInv, LiveInv, Knows, Exits
    <3>3. ok /\ c.name \notin Idempotent => inForce[c.name] = {}
      BY <2>1, <2>2, <3>1, <3>2, BodyFacts DEF UndoTells, Done, Single
    <3>4. ~ ok => c.name \in UndoCanFail \cup Idempotent
      BY <2>1, <2>2, <3>1, <3>2, BodyFacts DEF UndoTells, Fell, Single
    <3> HIDE DEF ok
    <3>5. Owns(drv'[d], journal, inForce)
      BY <1>1, <1>7, <3>1, <3>2, <3>3, <3>4, CompGoneOwns
    <3> QED
      BY <1>1, <1>3, <1>5, <1>7, <2>3, <3>5, DriverFrame DEF StepInv, Rows, BusySound
  <2>4. CASE AppendPending(c.slot, c.name, "compensation") /\ Stays(drv[d], drv'[d], "undo", drv[d].hand)
    <3>1. /\ \A t \in Slots : t # c.slot => journal'[t] = journal[t]
          /\ journal[c.slot].phase # "none" => journal'[c.slot] = journal[c.slot]
          /\ journal[c.slot].phase = "none" => journal'[c.slot].phase = "pending" /\ journal'[c.slot].kind = "compensation"
      BY <1>2, <2>4, AppendFacts DEF StepInv, LiveInv, Types
    <3>2. journal'[SlotOf(i) + 1].phase # "none" => journal'[SlotOf(i) + 1].kind = "compensation"
      BY <2>1, <3>1 DEF StepInv, RowsNamed
    <3>3. Single(i) => UndoTells(journal'[SlotOf(i) + 1], i, inForce[Body[i]])
      BY <2>1, <2>2, <3>1 DEF UndoTells, Done, Fell
    <3>4. /\ Rows(journal', inForce) /\ \A m \in Yields : journal'[SlotOf(m)] = journal[SlotOf(m)]
          /\ \A e \in Drivers : BusySound(drv[e], journal', inForce)
      BY <2>1, <3>1, <3>2, <3>3, CompRowChanges
    <3>5. Owns(drv'[d], journal', inForce)
      <4>1. Owns(drv[d], journal, inForce)
        BY <1>7 DEF StepInv
      <4>2. drv'[d].pc = "undo" /\ drv'[d].comps = drv[d].comps /\ drv'[d].rolled = drv[d].rolled
        BY <2>4 DEF Stays
      <4> QED
        BY <1>1, <3>4, <4>1, <4>2, OwnsUnwind
    <3> QED
      BY <1>1, <1>5, <1>7, <3>4, <3>5, DriverFrame DEF BusySound
  <2> QED
    BY <1>7, <2>3, <2>4, UnwindTyped DEF StepInv, LiveInv
<1> QED
  BY <1>6, <1>7

(* What a callback came to. *)
LEMMA RecordUndoKeeps ==
    ASSUME StepInv, LiveInv', NEW d \in Drivers, RecordUndo(d)
    PROVE  StepInv'
<1> DEFINE c == NextComp(drv[d].comps)
           ok == drv[d].hand.ok
<1>1. /\ run' = run /\ owner' = owner /\ inForce' = inForce /\ drv[d].pc = "undone" /\ drv[d].comps # {}
      /\ \A e \in Drivers : e # d => drv'[e] = drv[e]
      /\ CompGone(drv[d], drv'[d], c, ok /\ Holds(d))
      /\ IF Holds(d) THEN CompletePending(c.slot, drv[d].hand) ELSE journal' = journal
  BY RecordUndoTyped DEF StepInv, LiveInv, effectVars
<1>2. c \in drv[d].comps /\ c.slot \in Slots /\ drv[d].hand \in Exits /\ ok \in BOOLEAN
  BY <1>1, UnwindingDriver, DriverParts DEF StepInv, LiveInv, Comp, Exits
<1>3. Shrinks(journal, inForce, inForce')
  BY <1>1 DEF Shrinks
<1>4. ~ Busy(drv'[d]) /\ InPlace(drv'[d])
  BY <1>1 DEF Busy, InPlace, AtWork, CompGone
<1>5. CASE ~ Holds(d)
  <2>1. journal' = journal /\ Rows(journal', inForce')
    BY <1>1, <1>5 DEF StepInv, Rows
  <2>2. \A e \in Drivers : BusySound(drv[e], journal', inForce')
    BY <1>1, <2>1 DEF StepInv
  <2>3. BusySound(drv'[d], journal', inForce')
    BY <1>4 DEF BusySound
  <2> HIDE DEF c, ok
  <2> QED
    BY <1>1, <1>3, <1>4, <1>5, <2>1, <2>2, <2>3, DriverFrame
<1>6. CASE Holds(d)
  <2>1. PICK i \in Yields :
          /\ Body[i] \in Compensable /\ c.name = Body[i] /\ c.source = SlotOf(i) /\ c.slot = SlotOf(i) + 1
          /\ Done(journal[SlotOf(i)])
    BY <1>1, <1>6, HeldComp
  <2>2. \/ ok /\ (c.name \notin Idempotent => inForce[c.name] = {})
        \/ ~ ok /\ c.name \in UndoCanFail
    BY <1>1, <1>6 DEF StepInv, Owns, Unwinding
  <2>3. /\ \A t \in Slots : t # c.slot => journal'[t] = journal[t]
        /\ journal[c.slot].phase # "pending" => journal'[c.slot] = journal[c.slot]
        /\ journal[c.slot].phase = "pending" =>
             /\ journal'[c.slot].phase = "completed" /\ journal'[c.slot].exit = drv[d].hand
             /\ journal'[c.slot].kind = journal[c.slot].kind
    BY <1>1, <1>2, <1>6, CompleteFacts DEF StepInv, LiveInv, Types
  <2>4. journal'[SlotOf(i) + 1].phase # "none" => journal'[SlotOf(i) + 1].kind = "compensation"
    BY <2>1, <2>3 DEF StepInv, RowsNamed
  <2>5. Single(i) => UndoTells(journal'[SlotOf(i) + 1], i, inForce[Body[i]])
    <3>1. Single(i) => UndoTells(journal[SlotOf(i) + 1], i, inForce[Body[i]])
      BY <2>1 DEF StepInv, RowsTell
    <3>2. ASSUME Single(i), journal[c.slot].phase = "pending"
          PROVE  UndoTells(journal'[SlotOf(i) + 1], i, inForce[Body[i]])
      BY <2>1, <2>2, <2>3, <3>2 DEF UndoTells, Done, Fell, Single
    <3> QED
      BY <2>1, <2>3, <3>1, <3>2
  <2>6. /\ Rows(journal', inForce) /\ \A m \in Yields : journal'[SlotOf(m)] = journal[SlotOf(m)]
        /\ \A e \in Drivers : BusySound(drv[e], journal', inForce)
    BY <2>1, <2>3, <2>4, <2>5, CompRowChanges
  <2>7. Owns(drv'[d], journal', inForce)
    <3>1. CompGone(drv[d], drv'[d], c, ok)
      BY <1>1, <1>6 DEF CompGone
    <3> HIDE DEF ok
    <3> QED
      BY <1>1, <1>2, <1>6, <2>2, <2>6, <3>1, CompGoneOwns
  <2> QED
    BY <1>1, <1>4, <1>6, <2>6, <2>7, DriverFrame DEF BusySound
<1> QED
  BY <1>5, <1>6

(* writePending, by the holder: it is the first to come to a yield whose   *)
(* row is empty, and an activity whose row is pending is not run again.    *)
LEMMA WriteKeeps ==
    ASSUME StepInv, LiveInv', NEW d \in Drivers, Holds(d), WritePending(d)
    PROVE  StepInv'
<1> DEFINE x == drv[d]
           i == x.at
           s == SlotOf(i)
<1>1. /\ x.pc = "yield" /\ i \in Yields
      /\ AppendPending(x.next, Body[i], Kind[Body[i]])
      /\ Stays(x, drv'[d], Kind[Body[i]], x.hand)
      /\ run' = run /\ owner' = owner /\ inForce' = inForce
      /\ \A e \in Drivers : e # d => drv'[e] = drv[e]
  BY WriteTyped DEF StepInv, LiveInv, effectVars
<1>2. x.next = s /\ s \in Slots /\ Body[i] \in Names /\ Kind[Body[i]] \in {"activity", "signal", "child"}
  BY <1>1, SlotsApart, BodyFacts DEF StepInv, InPlace
<1>3. /\ \A t \in Slots : t # s => journal'[t] = journal[t]
      /\ journal[s].phase # "none" => journal'[s] = journal[s]
      /\ journal[s].phase = "none" =>
           journal'[s].phase = "pending" /\ journal'[s].name = Body[i] /\ journal'[s].kind = Kind[Body[i]]
      /\ journal'[s].phase # "none"
  BY <1>1, <1>2, AppendFacts DEF StepInv, LiveInv, Types
<1>4. Owns(x, journal, inForce) /\ OnItsWay(x, journal)
  BY DEF StepInv, Owns
<1>5. Single(i) => x.snap[s].phase = "none"
  <2>1. MayRun(d) /\ x.snap[s].phase # "completed"
    BY <1>1, <1>2 DEF WritePending, Recorded
  <2> QED
    BY <1>1, <1>2, <2>1, YieldKinds DEF MayRun, Recorded, Yield, Single
<1>6. Single(i) => journal[s].phase = "none"
  BY <1>1, <1>2, <1>4, <1>5 DEF OnItsWay, Ahead
<1>7. ASSUME NEW m \in Yields
      PROVE  /\ m # i => journal'[SlotOf(m)] = journal[SlotOf(m)]
             /\ Body[m] \in Compensable => journal'[SlotOf(m) + 1] = journal[SlotOf(m) + 1]
  BY <1>1, <1>3, SlotsApart
<1>8. RowsNamed(journal')
  <2>1. ASSUME NEW m \in Yields
        PROVE  /\ journal'[SlotOf(m)].phase # "none" =>
                    journal'[SlotOf(m)].name = Body[m] /\ journal'[SlotOf(m)].kind = Kind[Body[m]]
               /\ Body[m] \in Compensable /\ journal'[SlotOf(m) + 1].phase # "none" =>
                    journal'[SlotOf(m) + 1].kind = "compensation" /\ Done(journal'[SlotOf(m)])
    <3>1. /\ journal[SlotOf(m)].phase # "none" =>
                    journal[SlotOf(m)].name = Body[m] /\ journal[SlotOf(m)].kind = Kind[Body[m]]
          /\ Body[m] \in Compensable /\ journal[SlotOf(m) + 1].phase # "none" =>
                    journal[SlotOf(m) + 1].kind = "compensation" /\ Done(journal[SlotOf(m)])
      BY DEF StepInv, RowsNamed
    <3>2. Done(journal[SlotOf(m)]) => journal'[SlotOf(m)] = journal[SlotOf(m)]
      BY <1>3, <1>7 DEF Done
    <3> QED
      BY <1>3, <1>7, <3>1, <3>2
  <2> QED
    BY <2>1 DEF RowsNamed
<1>9. RowsTell(journal', inForce)
  <2>1. ASSUME NEW m \in Yields, Single(m)
        PROVE  /\ RowTells(journal'[SlotOf(m)], inForce[Body[m]])
               /\ Body[m] \in Compensable => UndoTells(journal'[SlotOf(m) + 1], m, inForce[Body[m]])
    <3>1. /\ RowTells(journal[SlotOf(m)], inForce[Body[m]])
          /\ Body[m] \in Compensable => UndoTells(journal[SlotOf(m) + 1], m, inForce[Body[m]])
      BY <2>1 DEF StepInv, RowsTell
    <3>2. CASE m # i
      BY <1>7, <3>1, <3>2
    <3>3. CASE m = i
      BY <1>3, <1>6, <1>7, <2>1, <3>1, <3>3 DEF RowTells, Done, Fell
    <3> QED
      BY <3>2, <3>3
  <2> QED
    BY <2>1 DEF RowsTell
<1>10. RowsInOrder(journal')
  <2>1. ASSUME NEW k \in Yields, Good(k), journal'[SlotOf(k)].phase # "none", NEW m \in Yields, m < k
        PROVE  Done(journal'[SlotOf(m)])
    <3>1. Done(journal[SlotOf(m)])
      <4>1. CASE k # i
        BY <1>7, <2>1, <4>1 DEF StepInv, RowsInOrder
      <4>2. CASE k = i
        BY <1>1, <1>4, <2>1, <4>2 DEF OnItsWay
      <4> QED
        BY <4>1, <4>2
    <3> QED
      BY <1>3, <1>7, <3>1 DEF Done
  <2> QED
    BY <2>1 DEF RowsInOrder
<1>11. ASSUME NEW e \in Drivers, e # d, Busy(drv[e])
       PROVE  BusySound(drv[e], journal', inForce) /\ drv[e].at \in Yields /\ (Single(i) => drv[e].at # i)
  <2>1. drv[e].at \in Yields /\ journal[SlotOf(drv[e].at)].phase = "pending" /\ BusySound(drv[e], journal, inForce)
    BY <1>11, BusyPlace DEF StepInv, LiveInv, BusySound
  <2>2. journal'[SlotOf(drv[e].at)] = journal[SlotOf(drv[e].at)]
    BY <1>3, <1>7, <2>1
  <2> QED
    BY <1>6, <2>1, <2>2 DEF BusySound
<1>12. drv'[d].at = i /\ drv'[d].pc = Kind[Body[i]] /\ drv'[d].next = s
  BY <1>1, <1>2 DEF Stays
<1>13. BusySound(drv'[d], journal', inForce)
  <2>1. ASSUME Single(i) PROVE journal'[SlotOf(i)].phase = "pending" /\ inForce[Body[i]] = {}
    BY <1>1, <1>3, <1>6, <2>1 DEF StepInv, RowsTell, RowTells
  <2>2. drv'[d].pc # "record"
    BY <1>2, <1>12
  <2> QED
    BY <1>12, <2>1, <2>2 DEF BusySound, Busy
<1>14. Busy(drv'[d]) => NewlyBusy(d, drv'[d])
  BY <1>11, <1>12 DEF Busy, NewlyBusy
<1>15. InPlace(drv'[d])
  BY <1>12 DEF InPlace
<1>16. Owns(drv'[d], journal', inForce)
  <2>1. /\ drv'[d].comps = x.comps /\ drv'[d].rolled = x.rolled /\ drv'[d].snap = x.snap
        /\ x.rolled = {} /\ drv'[d].pc \in {"activity", "signal", "child"} /\ x.next \in Nat
    BY <1>1, <1>2, <1>4, SlotsApart DEF Stays, OnItsWay
  <2>2. \A m \in Yields : Done(journal[SlotOf(m)]) => journal'[SlotOf(m)] = journal[SlotOf(m)]
    BY <1>3, <1>7 DEF Done
  <2>3. OnItsWay(drv'[d], journal')
    <3>1. \A t \in Slots : Ahead(drv'[d], t) => t > s
      BY <1>12, <2>1 DEF Ahead
    <3>2. \A t \in Slots : Ahead(drv'[d], t) => Ahead(x, t) /\ t # s
      BY <1>2, <2>1, <3>1, BodyFacts DEF Ahead, Slots
    <3>3. /\ \A t \in Slots : Ahead(x, t) /\ x.snap[t].phase = "none" => journal[t].phase = "none"
          /\ \A m \in Yields : m < i => Done(journal[SlotOf(m)])
          /\ \A m \in Yields : m < i /\ Body[m] \in Compensable => \E c \in x.comps : c.name = Body[m]
      BY <1>1, <1>4 DEF OnItsWay
    <3>4. \A t \in Slots : Ahead(drv'[d], t) /\ drv'[d].snap[t].phase = "none" => journal'[t].phase = "none"
      BY <1>3, <2>1, <3>2, <3>3
    <3>5. \A m \in Yields : m < drv'[d].at => Done(journal'[SlotOf(m)])
      BY <1>12, <2>2, <3>3
    <3> QED
      BY <1>12, <2>1, <3>3, <3>4, <3>5 DEF OnItsWay
  <2>4. \A c \in drv'[d].comps : CompSound(c, journal')
    BY <1>4, <2>1, <2>2 DEF Owns, CompSound
  <2> QED
    BY <2>1, <2>3, <2>4 DEF Owns, RolledSound, Unwinding
<1>17. \A e \in Drivers : e # d => BusySound(drv[e], journal', inForce)
  BY <1>11 DEF BusySound
<1> QED
  BY <1>1, <1>8, <1>9, <1>10, <1>13, <1>14, <1>15, <1>16, <1>17, DriverFrame DEF Rows

(* A yield settles: the driver is in place for the next one. *)
LEMMA SettledPlace ==
    ASSUME StepInv, Caught = {}, NEW d \in Drivers, NEW exit \in Exits,
           drv[d].pc \in AtWork \/ (drv[d].pc = "yield" /\ drv[d].at <= Len(Body))
    PROVE  /\ drv[d].at \in Yields /\ drv[d].next = SlotOf(drv[d].at)
           /\ InPlace(Settled(d, exit)) /\ ~ Busy(Settled(d, exit))
           /\ \/ exit.ok /\ GoesOn(drv[d], Settled(d, exit), exit, Registered(d, exit))
              \/ ~ exit.ok /\ Bare(Settled(d, exit), "leave")
              \/ ~ exit.ok /\ Fails(drv[d], Settled(d, exit))
<1>1. drv[d] \in Driver /\ Placed(drv[d])
  BY DriverParts DEF StepInv, LiveInv
<1>2. drv[d].at \in Yields /\ drv[d].next = SlotOf(drv[d].at)
  BY <1>1, InBody DEF StepInv, InPlace
<1>3. \/ exit.ok /\ GoesOn(drv[d], Settled(d, exit), exit, Registered(d, exit))
      \/ ~ exit.ok /\ Bare(Settled(d, exit), "leave")
      \/ ~ exit.ok /\ Fails(drv[d], Settled(d, exit))
  BY <1>1, SettledFields
<1>4. InPlace(Settled(d, exit))
  BY <1>2, <1>3, SlotOrder DEF GoesOn, Bare, Fails, InPlace, AtWork
<1> QED
  BY <1>2, <1>3, <1>4 DEF GoesOn, Bare, Fails, Busy

(* A yield settles for the holder, with what the journal now has for it. *)
LEMMA SettledOwns ==
    ASSUME StepInv, Caught = {}, NEW d \in Drivers, Holds(d), NEW exit \in Exits, NEW k,
           drv[d].pc \in AtWork \/ (drv[d].pc = "yield" /\ drv[d].at <= Len(Body)),
           RowsInOrder(k), \A t \in Slots : t # drv[d].next => k[t] = journal[t],
           \A m \in Yields : Done(journal[SlotOf(m)]) => k[SlotOf(m)] = journal[SlotOf(m)],
           k[drv[d].next].phase = "completed", k[drv[d].next].exit = exit
    PROVE  Owns(Settled(d, exit), k, inForce)
<1> DEFINE x == drv[d]
           i == x.at
           y == Settled(d, exit)
<1>1. i \in Yields /\ x.next = SlotOf(i) /\ x \in Driver /\ i \in Nat /\ SlotOf(i) \in Nat
  BY SettledPlace, SlotsApart, DriverParts, BodyFacts DEF StepInv, LiveInv, Yields
<1>2. /\ x.rolled = {}
      /\ \A t \in Slots : Ahead(x, t) /\ x.snap[t].phase = "none" => journal[t].phase = "none"
      /\ \A m \in Yields : m < i => Done(journal[SlotOf(m)])
      /\ \A m \in Yields : m < i /\ Body[m] \in Compensable => \E c \in x.comps : c.name = Body[m]
      /\ \A c \in x.comps : CompSound(c, journal)
  BY DEF StepInv, Owns, OnItsWay
<1>3. \A c \in x.comps : CompSound(c, k)
  BY <1>2 DEF CompSound
<1>4. k[SlotOf(i)].phase = "completed" /\ k[SlotOf(i)].exit = exit
  BY <1>1
<1>5. CASE exit.ok /\ GoesOn(x, y, exit, Registered(d, exit))
  <2>1. /\ y.pc = "yield" /\ y.at = i + 1 /\ y.comps = Registered(d, exit) /\ y.snap = x.snap /\ y.rolled = {}
        /\ y.next = SlotOf(i + 1)
    BY <1>1, <1>2, <1>5, SlotOrder DEF GoesOn
  <2>2. \A t \in Slots : Ahead(y, t) => Ahead(x, t) /\ t # x.next
    <3>1. SlotOf(i + 1) \in Nat /\ SlotOf(i + 1) > SlotOf(i)
      <4>1. SlotOf(i + 1) = SlotOf(i) + 1 \/ SlotOf(i + 1) = SlotOf(i) + 2
        BY <1>1, SlotOrder
      <4> QED
        BY <1>1, <4>1
    <3>2. \A t \in Slots : t \in Nat
      BY BodyFacts DEF Slots
    <3>3. \A t \in Slots : Ahead(y, t) => t >= SlotOf(i + 1)
      BY <2>1, <3>1, <3>2 DEF Ahead
    <3>4. \A t \in Slots : Ahead(y, t) => t > SlotOf(i)
      BY <1>1, <3>1, <3>2, <3>3
    <3> QED
      BY <1>1, <3>2, <3>4 DEF Ahead
  <2>3. \A m \in Yields : m < i + 1 => Done(k[SlotOf(m)])
    <3> TAKE m \in Yields
    <3>1. m < i + 1 => m < i \/ m = i
      BY <1>1, BodyFacts DEF Yields
    <3> QED
      BY <1>2, <1>4, <1>5, <3>1 DEF Done
  <2>4. \A c \in y.comps : CompSound(c, k)
    <3>1. CASE Body[i] \in Compensable
      <4> DEFINE c == [slot |-> x.next + 1, source |-> x.next, name |-> Body[i], value |-> exit.value]
      <4>1. Registered(d, exit) = x.comps \cup {c}
        BY <1>5, <3>1 DEF Registered, Reserves, Yield
      <4>2. CompSound(c, k)
        BY <1>1, <1>4, <1>5, <3>1 DEF CompSound, Done
      <4> QED
        BY <1>3, <2>1, <4>1, <4>2
    <3>2. CASE Body[i] \notin Compensable
      BY <1>3, <2>1, <3>2 DEF Registered, Reserves, Yield
    <3> QED
      BY <3>1, <3>2
  <2>5. \A m \in Yields : m < i + 1 /\ Body[m] \in Compensable => \E c \in y.comps : c.name = Body[m]
    <3> TAKE m \in Yields
    <3>1. m < i + 1 => m < i \/ m = i
      BY <1>1, BodyFacts DEF Yields
    <3>2. x.comps \subseteq y.comps
      BY <2>1 DEF Registered
    <3>3. ASSUME Body[i] \in Compensable PROVE \E c \in y.comps : c.name = Body[i]
      <4> DEFINE c == [slot |-> x.next + 1, source |-> x.next, name |-> Body[i], value |-> exit.value]
      <4>1. Registered(d, exit) = x.comps \cup {c}
        BY <1>5, <3>3 DEF Registered, Reserves, Yield
      <4>2. c \in y.comps /\ c.name = Body[i]
        BY <2>1, <4>1
      <4> QED
        BY <4>2
    <3> QED
      BY <1>2, <3>1, <3>2, <3>3
  <2>6. OnItsWay(y, k)
    <3>1. \A t \in Slots : Ahead(y, t) /\ y.snap[t].phase = "none" => k[t].phase = "none"
      BY <1>2, <2>1, <2>2
    <3> HIDE DEF y, x
    <3> QED
      BY <2>1, <2>3, <2>5, <3>1 DEF OnItsWay
  <2>7. Owns(y, k, inForce)
    <3> HIDE DEF y, x
    <3> QED
      BY <2>1, <2>4, <2>6 DEF Owns, RolledSound, Unwinding
  <2> QED
    BY <2>7
<1>6. CASE ~ exit.ok /\ Bare(y, "leave")
  <2> HIDE DEF y
  <2>1. Owns(y, k, inForce)
    BY <1>6 DEF Bare, Owns, OnItsWay, AtWork, RolledSound, Unwinding
  <2> QED
    BY <2>1 DEF y
<1>7. CASE ~ exit.ok /\ Fails(x, y)
  <2>1. y.pc = "unwind" /\ y.comps = x.comps /\ y.rolled = {}
    BY <1>2, <1>7 DEF Fails
  <2>2. Fell(k[SlotOf(i)]) /\ ~ Done(k[SlotOf(i)])
    BY <1>4, <1>7 DEF Fell, Done
  <2>3. ASSUME NEW m \in Yields, Good(m)
        PROVE  \/ k[SlotOf(m)].phase = "none" \/ Fell(k[SlotOf(m)])
               \/ SlotOf(m) \in y.rolled \/ \E c \in y.comps : c.name = Body[m]
    <3>1. m < i \/ m = i \/ i < m
      BY <1>1, BodyFacts DEF Yields
    <3>2. CASE m < i
      BY <1>2, <2>1, <2>3, <3>2, YieldKinds
    <3>3. CASE m = i
      BY <2>2, <3>3
    <3>4. CASE i < m
      BY <1>1, <2>2, <2>3, <3>4 DEF RowsInOrder
    <3> QED
      BY <3>1, <3>2, <3>3, <3>4
  <2> HIDE DEF y
  <2>4. Owns(y, k, inForce)
    BY <1>3, <2>1, <2>3 DEF Owns, OnItsWay, AtWork, RolledSound, Unwinding
  <2> QED
    BY <2>4 DEF y
<1> QED
  BY <1>5, <1>6, <1>7, SettledPlace

(* A yield is replayed from the snapshot. *)
LEMMA ReplayKeeps ==
    ASSUME StepInv, LiveInv', Caught = {}, NEW d \in Drivers, Replay(d)
    PROVE  StepInv'
<1> DEFINE exit == Recorded(d).exit
<1>1. Types /\ drv \in [Drivers -> Driver]
  BY DEF StepInv, LiveInv, Types, DriversTyped
<1>2. /\ exit \in Exits /\ drv[d].pc = "yield" /\ drv[d].at <= Len(Body) /\ drv[d].next \in Slots
  BY <1>1, ReplayTyped
<1>3. /\ journal' = journal /\ run' = run /\ owner' = owner /\ inForce' = inForce
      /\ drv'[d] = Settled(d, exit) /\ drv[d].snap[drv[d].next].phase = "completed"
      /\ \A e \in Drivers : e # d => drv'[e] = drv[e]
  BY <1>1, OneDriver DEF Replay, Recorded, effectVars
<1>4. InPlace(drv'[d]) /\ ~ Busy(drv'[d])
  BY <1>2, <1>3, SettledPlace
<1>5. ASSUME Holds(d) PROVE Owns(drv'[d], journal, inForce)
  <2>1. journal[drv[d].next].phase = "completed" /\ journal[drv[d].next].exit = exit
    BY <1>2, <1>3, <1>5 DEF StepInv, LiveInv, Knows, Recorded
  <2> QED
    BY <1>2, <1>3, <1>5, <2>1, SettledOwns DEF StepInv
<1>6. Rows(journal', inForce') /\ Shrinks(journal, inForce, inForce')
  BY <1>3 DEF StepInv, Rows, Shrinks
<1>7. \A e \in Drivers : e # d => BusySound(drv[e], journal', inForce')
  BY <1>3 DEF StepInv
<1> QED
  BY <1>3, <1>4, <1>5, <1>6, <1>7, DriverFrame DEF BusySound

(* The holder records an outcome, or the timeout of a wait. *)
LEMMA RecordKeeps ==
    ASSUME StepInv, LiveInv', Caught = {}, NEW d \in Drivers, Holds(d),
           Record(d) \/ (AwaitSignal(d) /\ clock.signal)
    PROVE  StepInv'
<1> DEFINE x == drv[d]
           i == x.at
           s == SlotOf(i)
<1>1. Types /\ drv \in [Drivers -> Driver] /\ JournalTyped
  BY DEF StepInv, LiveInv, Types, DriversTyped
<1>2. /\ x.pc \in {"record", "signal"} /\ i \in Yields /\ x.next \in Slots
      /\ run' = run /\ owner' = owner /\ inForce' = inForce
      /\ \E e \in Exits :
           /\ CompletePending(x.next, e) /\ Set(d, Settled(d, StoredExit(x.next, e)))
           /\ StoredExit(x.next, e) \in Exits
           /\ x.pc = "record" => e = x.hand
  BY <1>1, RecordTyped DEF effectVars
<1>3. PICK w \in Exits :
        /\ CompletePending(x.next, w) /\ Set(d, Settled(d, StoredExit(x.next, w)))
        /\ StoredExit(x.next, w) \in Exits
        /\ x.pc = "record" => w = x.hand
  BY <1>2
<1> DEFINE exit == StoredExit(x.next, w)
<1>4. drv'[d] = Settled(d, exit) /\ \A e \in Drivers : e # d => drv'[e] = drv[e]
  BY <1>1, <1>3, OneDriver
<1>5. x.pc \in AtWork
  BY <1>2 DEF AtWork
<1>6. x.next = s /\ InPlace(drv'[d]) /\ ~ Busy(drv'[d])
  BY <1>3, <1>4, <1>5, SettledPlace
<1>7. /\ \A t \in Slots : t # s => journal'[t] = journal[t]
      /\ journal[s].phase # "pending" => journal'[s] = journal[s]
      /\ journal[s].phase = "pending" =>
           /\ journal'[s].phase = "completed" /\ journal'[s].exit = w
           /\ journal'[s].name = journal[s].name /\ journal'[s].kind = journal[s].kind
  BY <1>1, <1>2, <1>3, <1>6, CompleteFacts
<1>8. journal[s].phase \in {"pending", "completed"}
  <2>1. journal[s].phase # "none"
    BY <1>5, <1>6 DEF StepInv, LiveInv, Knows
  <2> QED
    BY <1>1, <1>2, <1>6, <2>1 DEF JournalTyped, Entry
<1>9. journal'[s].phase = "completed" /\ journal'[s].exit = exit
  BY <1>6, <1>7, <1>8 DEF StoredExit
<1>10. ASSUME NEW m \in Yields
       PROVE  /\ m # i => journal'[SlotOf(m)] = journal[SlotOf(m)]
              /\ Body[m] \in Compensable => journal'[SlotOf(m) + 1] = journal[SlotOf(m) + 1]
              /\ Done(journal[SlotOf(m)]) => journal'[SlotOf(m)] = journal[SlotOf(m)]
              /\ journal'[SlotOf(m)].phase = "none" <=> journal[SlotOf(m)].phase = "none"
  BY <1>2, <1>7, <1>8, <1>9, SlotsApart DEF Done
<1>11. RowsNamed(journal')
  BY <1>7, <1>10 DEF StepInv, RowsNamed
<1>12. RowsInOrder(journal')
  BY <1>10 DEF StepInv, RowsInOrder
<1>13. Single(i) => Busy(x)
  BY <1>1, <1>2, YieldKinds, DriverParts DEF Busy, Placed
<1>14. RowsTell(journal', inForce)
  <2>1. ASSUME NEW m \in Yields, Single(m)
        PROVE  /\ RowTells(journal'[SlotOf(m)], inForce[Body[m]])
               /\ Body[m] \in Compensable => UndoTells(journal'[SlotOf(m) + 1], m, inForce[Body[m]])
    <3>1. /\ RowTells(journal[SlotOf(m)], inForce[Body[m]])
          /\ Body[m] \in Compensable => UndoTells(journal[SlotOf(m) + 1], m, inForce[Body[m]])
      BY <2>1 DEF StepInv, RowsTell
    <3>2. CASE m # i
      BY <1>10, <3>1, <3>2
    <3>3. CASE m = i
      <4>1. Busy(x) /\ BusySound(x, journal, inForce)
        BY <1>13, <2>1, <3>3 DEF StepInv
      <4>2. x.pc = "record" /\ journal[s].phase = "pending"
        BY <1>2, <4>1 DEF Busy, BusySound
      <4>3. /\ w = x.hand /\ journal'[s].exit = x.hand /\ journal'[s].phase = "completed"
            /\ x.hand.ok => inForce[Body[i]] \subseteq {x.hand.value}
            /\ ~ x.hand.ok => inForce[Body[i]] = {}
        BY <1>3, <1>7, <4>1, <4>2 DEF BusySound
      <4>4. RowTells(journal'[s], inForce[Body[i]])
        BY <4>3 DEF RowTells, Done, Fell
      <4> QED
        BY <1>10, <3>1, <3>3, <4>4
    <3> QED
      BY <3>2, <3>3
  <2> QED
    BY <2>1 DEF RowsTell
<1>15. ASSUME NEW e \in Drivers, e # d PROVE BusySound(drv[e], journal', inForce)
  <2> SUFFICES ASSUME Busy(drv[e]) PROVE BusySound(drv[e], journal', inForce)
    BY DEF BusySound
  <2>1. drv[e].at \in Yields
    BY <1>1, BusyPlace
  <2>2. drv[e].at # i
    BY <1>13, <1>15 DEF StepInv, OneBusy, Busy
  <2> QED
    BY <1>10, <2>1, <2>2 DEF StepInv, BusySound
<1>16. Owns(drv'[d], journal', inForce)
  BY <1>3, <1>4, <1>5, <1>6, <1>7, <1>9, <1>10, <1>12, SettledOwns
<1> QED
  BY <1>2, <1>4, <1>6, <1>11, <1>12, <1>14, <1>15, <1>16, DriverFrame DEF Rows, BusySound

(* discardFailedAttempt: what was rolled back goes with its compensation,  *)
(* and nothing is left of what can be rolled back.                         *)
LEMMA DiscardKeeps ==
    ASSUME StepInv, LiveInv', NEW d \in Drivers, Holds(d), Discard(d)
    PROVE  StepInv'
<1> DEFINE x == drv[d]
<1>1. /\ run' = run /\ owner' = owner /\ inForce' = inForce /\ x.pc = "unwind" /\ x.comps = {}
      /\ \A e \in Drivers : e # d => drv'[e] = drv[e]
      /\ Bare(drv'[d], "over")
      /\ \A s \in Slots : journal'[s] = IF s \in x.rolled \/ Failed(journal[s]) THEN NoEntry ELSE journal[s]
  BY DiscardTyped DEF StepInv, LiveInv, effectVars
<1>2. Owns(x, journal, inForce)
  BY DEF StepInv
<1>3. NoEntry.phase = "none"
  BY EntryTypes
<1>4. ASSUME NEW m \in Yields
      PROVE  /\ SlotOf(m) \in Slots /\ SlotOf(m) + 1 \in Slots
             /\ SlotOf(m) \in x.rolled => RolledBack(m, x, journal, inForce)
             /\ Body[m] \in Compensable /\ SlotOf(m) + 1 \in x.rolled => RolledBack(m, x, journal, inForce)
  <2>1. SlotOf(m) \in Slots /\ SlotOf(m) + 1 \in Slots
    BY SlotsApart
  <2>2. ASSUME SlotOf(m) \in x.rolled PROVE RolledBack(m, x, journal, inForce)
    <3>1. PICK i \in Yields : SlotOf(m) \in {SlotOf(i), SlotOf(i) + 1} /\ RolledBack(i, x, journal, inForce)
      BY <1>2, <2>2 DEF Owns, RolledSound
    <3>2. i = m
      BY <3>1, SlotsApart DEF RolledBack
    <3> QED
      BY <3>1, <3>2
  <2>3. ASSUME Body[m] \in Compensable, SlotOf(m) + 1 \in x.rolled PROVE RolledBack(m, x, journal, inForce)
    <3>1. PICK i \in Yields : SlotOf(m) + 1 \in {SlotOf(i), SlotOf(i) + 1} /\ RolledBack(i, x, journal, inForce)
      BY <1>2, <2>3 DEF Owns, RolledSound
    <3>2. i = m
      BY <2>3, <3>1, SlotsApart
    <3> QED
      BY <3>1, <3>2
  <2> QED
    BY <2>1, <2>2, <2>3
<1>5. RowsNamed(journal')
  <2>1. ASSUME NEW m \in Yields
        PROVE  /\ journal'[SlotOf(m)].phase # "none" =>
                    journal'[SlotOf(m)].name = Body[m] /\ journal'[SlotOf(m)].kind = Kind[Body[m]]
               /\ Body[m] \in Compensable /\ journal'[SlotOf(m) + 1].phase # "none" =>
                    journal'[SlotOf(m) + 1].kind = "compensation" /\ Done(journal'[SlotOf(m)])
    <3>1. /\ journal[SlotOf(m)].phase # "none" =>
                    journal[SlotOf(m)].name = Body[m] /\ journal[SlotOf(m)].kind = Kind[Body[m]]
          /\ Body[m] \in Compensable /\ journal[SlotOf(m) + 1].phase # "none" =>
                    journal[SlotOf(m) + 1].kind = "compensation" /\ Done(journal[SlotOf(m)])
      BY DEF StepInv, RowsNamed
    <3>2. journal'[SlotOf(m)].phase # "none" => journal'[SlotOf(m)] = journal[SlotOf(m)]
      BY <1>1, <1>3, <1>4
    <3>3. ASSUME Body[m] \in Compensable, journal'[SlotOf(m) + 1].phase # "none"
          PROVE  journal'[SlotOf(m) + 1] = journal[SlotOf(m) + 1] /\ journal'[SlotOf(m)] = journal[SlotOf(m)]
      <4>1. journal'[SlotOf(m) + 1] = journal[SlotOf(m) + 1] /\ SlotOf(m) + 1 \notin x.rolled
        BY <1>1, <1>3, <1>4, <3>3
      <4>2. Done(journal[SlotOf(m)])
        BY <3>1, <3>3, <4>1
      <4>3. SlotOf(m) \notin x.rolled
        BY <1>4, <4>1 DEF RolledBack
      <4> QED
        BY <1>1, <1>4, <4>1, <4>2, <4>3 DEF Done, Failed
    <3> QED
      BY <3>1, <3>2, <3>3
  <2> QED
    BY <2>1 DEF RowsNamed
<1>6. RowsTell(journal', inForce)
  <2>1. ASSUME NEW m \in Yields, Single(m)
        PROVE  /\ RowTells(journal'[SlotOf(m)], inForce[Body[m]])
               /\ Body[m] \in Compensable => UndoTells(journal'[SlotOf(m) + 1], m, inForce[Body[m]])
    <3>1. /\ RowTells(journal[SlotOf(m)], inForce[Body[m]])
          /\ Body[m] \in Compensable => UndoTells(journal[SlotOf(m) + 1], m, inForce[Body[m]])
      BY <2>1 DEF StepInv, RowsTell
    <3>2. RowTells(journal'[SlotOf(m)], inForce[Body[m]])
      <4>1. CASE SlotOf(m) \in x.rolled
        BY <1>1, <1>3, <1>4, <2>1, <4>1 DEF RolledBack, RowTells, Done, Fell
      <4>2. CASE Failed(journal[SlotOf(m)])
        BY <1>1, <1>3, <1>4, <3>1, <4>2 DEF Failed, RowTells, Done, Fell
      <4>3. CASE SlotOf(m) \notin x.rolled /\ ~ Failed(journal[SlotOf(m)])
        BY <1>1, <1>4, <3>1, <4>3
      <4> QED
        BY <4>1, <4>2, <4>3
    <3>3. journal'[SlotOf(m) + 1] = journal[SlotOf(m) + 1] \/ journal'[SlotOf(m) + 1].phase = "none"
      BY <1>1, <1>3, <1>4
    <3> QED
      BY <3>1, <3>2, <3>3 DEF UndoTells, Done, Fell
  <2> QED
    BY <2>1 DEF RowsTell
<1>7. NothingGood(journal')
  <2>1. ASSUME NEW m \in Yields, Good(m) PROVE journal'[SlotOf(m)].phase = "none"
    <3>1. journal[SlotOf(m)].phase = "none" \/ Fell(journal[SlotOf(m)]) \/ SlotOf(m) \in x.rolled
      BY <1>1, <1>2, <2>1 DEF Owns, Unwinding
    <3>2. Fell(journal[SlotOf(m)]) => Failed(journal[SlotOf(m)])
      BY <2>1, YieldKinds DEF StepInv, RowsNamed, Fell, Failed
    <3> QED
      BY <1>1, <1>3, <1>4, <3>1, <3>2
  <2> QED
    BY <2>1 DEF NothingGood
<1>8. RowsInOrder(journal')
  BY <1>7 DEF NothingGood, RowsInOrder
<1>9. ASSUME NEW e \in Drivers PROVE BusySound(drv[e], journal', inForce)
  <2> SUFFICES ASSUME Busy(drv[e]) PROVE BusySound(drv[e], journal', inForce)
    BY DEF BusySound
  <2>1. drv[e].at \in Yields /\ journal[SlotOf(drv[e].at)].phase = "pending" /\ BusySound(drv[e], journal, inForce)
    BY BusyPlace DEF StepInv, LiveInv, BusySound
  <2>2. journal'[SlotOf(drv[e].at)] = journal[SlotOf(drv[e].at)]
    BY <1>1, <1>4, <2>1 DEF RolledBack, Done, Failed
  <2> QED
    BY <2>1, <2>2 DEF BusySound
<1>10. ~ Busy(drv'[d]) /\ InPlace(drv'[d])
  BY <1>1 DEF Bare, Busy, InPlace, AtWork
<1>11. Owns(drv'[d], journal', inForce)
  BY <1>1, <1>7 DEF Bare, Owns, OnItsWay, AtWork, RolledSound, Unwinding
<1> QED
  BY <1>1, <1>5, <1>6, <1>8, <1>9, <1>10, <1>11, DriverFrame DEF Rows, BusySound

(* Time, the scanner, the child and the sweep: a delivery tells on no      *)
(* activity's row.                                                         *)
LEMMA WorldKeeps ==
    ASSUME StepInv, LiveInv', WorldStep
    PROVE  StepInv'
<1>1. drv' = drv /\ run' = run /\ inForce' = inForce /\ owner' \in {owner, Nobody}
  BY WorldTyped DEF StepInv, LiveInv, effectVars
<1>2. /\ \A t \in Slots : /\ journal[t].phase # "pending" => journal'[t] = journal[t]
                          /\ journal[t].kind # "signal" => journal'[t] = journal[t]
                          /\ journal'[t].name = journal[t].name /\ journal'[t].kind = journal[t].kind
                          /\ journal'[t].phase = "none" <=> journal[t].phase = "none"
  <2>1. CASE journal' = journal
    BY <2>1
  <2>2. ASSUME NEW s \in Slots, journal[s].phase = "pending", journal[s].kind = "signal",
               CompletePending(s, Delivered), NEW t \in Slots
        PROVE  /\ journal[t].phase # "pending" => journal'[t] = journal[t]
               /\ journal[t].kind # "signal" => journal'[t] = journal[t]
               /\ journal'[t].name = journal[t].name /\ journal'[t].kind = journal[t].kind
               /\ journal'[t].phase = "none" <=> journal[t].phase = "none"
    BY <2>2, CompleteFacts, EntryTypes DEF StepInv, LiveInv, Types
  <2> QED
    BY <2>1, <2>2, WorldTyped DEF StepInv, LiveInv
<1>3. ASSUME NEW m \in Yields
      PROVE  /\ SlotOf(m) \in Slots /\ SlotOf(m) + 1 \in Slots
             /\ Done(journal[SlotOf(m)]) => journal'[SlotOf(m)] = journal[SlotOf(m)]
             /\ Body[m] \in Activities => journal'[SlotOf(m)] = journal[SlotOf(m)]
             /\ Body[m] \in Compensable => journal'[SlotOf(m) + 1] = journal[SlotOf(m) + 1]
  <2>1. SlotOf(m) \in Slots /\ SlotOf(m) + 1 \in Slots
    BY SlotsApart
  <2>2. Done(journal[SlotOf(m)]) => journal'[SlotOf(m)] = journal[SlotOf(m)]
    BY <1>2, <2>1 DEF Done
  <2>3. ASSUME Body[m] \in Activities PROVE journal'[SlotOf(m)] = journal[SlotOf(m)]
    <3>1. journal[SlotOf(m)].phase = "none" \/ journal[SlotOf(m)].kind = "activity"
      BY <2>3, BodyFacts DEF StepInv, RowsNamed
    <3> QED
      BY <1>2, <2>1, <3>1
  <2>4. ASSUME Body[m] \in Compensable PROVE journal'[SlotOf(m) + 1] = journal[SlotOf(m) + 1]
    <3>1. journal[SlotOf(m) + 1].phase = "none" \/ journal[SlotOf(m) + 1].kind = "compensation"
      BY <2>4 DEF StepInv, RowsNamed
    <3> QED
      BY <1>2, <2>1, <3>1
  <2> QED
    BY <2>1, <2>2, <2>3, <2>4
<1>4. RowsNamed(journal')
  BY <1>2, <1>3 DEF StepInv, RowsNamed
<1>5. RowsTell(journal', inForce)
  <2>1. ASSUME NEW m \in Yields, Single(m)
        PROVE  /\ journal'[SlotOf(m)] = journal[SlotOf(m)]
               /\ Body[m] \in Compensable => journal'[SlotOf(m) + 1] = journal[SlotOf(m) + 1]
    BY <1>3, <2>1 DEF Single
  <2> QED
    BY <2>1 DEF StepInv, RowsTell
<1>6. \A m \in Yields : Good(m) => journal'[SlotOf(m)] = journal[SlotOf(m)]
  BY <1>3, YieldKinds
<1>7. RowsInOrder(journal')
  BY <1>3, <1>6 DEF StepInv, RowsInOrder
<1>8. ASSUME NEW e \in Drivers PROVE BusySound(drv[e], journal', inForce)
  <2> SUFFICES ASSUME Busy(drv[e]) PROVE BusySound(drv[e], journal', inForce)
    BY DEF BusySound
  <2>1. drv[e].at \in Yields /\ Body[drv[e].at] \in Activities
    BY BusyPlace DEF StepInv, LiveInv, Busy, Single
  <2> QED
    BY <1>3, <2>1 DEF StepInv, BusySound
<1>9. ASSUME NEW e \in Drivers, owner' = e PROVE Owns(drv[e], journal', inForce)
  <2>1. Owns(drv[e], journal, inForce)
    BY <1>1, <1>9, BodyFacts DEF StepInv, Holds
  <2>2. OnItsWay(drv[e], journal')
    BY <1>2, <1>3, <2>1 DEF Owns, OnItsWay
  <2>3. \A c \in drv[e].comps : CompSound(c, journal')
    BY <1>3, <2>1 DEF Owns, CompSound
  <2>4. RolledSound(drv[e], journal', inForce)
    <3>1. \A i \in Yields : RolledBack(i, drv[e], journal, inForce) => RolledBack(i, drv[e], journal', inForce)
      BY <1>3 DEF RolledBack
    <3> QED
      BY <2>1, <3>1 DEF Owns, RolledSound
  <2>5. Unwinding(drv[e], journal', inForce)
    BY <1>6, <2>1 DEF Owns, Unwinding, NothingGood
  <2> QED
    BY <2>2, <2>3, <2>4, <2>5 DEF Owns
<1>10. ASSUME run'.status = "failed" PROVE owner' = Nobody /\ NothingGood(journal')
  BY <1>1, <1>6, <1>10 DEF StepInv, NothingGood
<1>11. OneBusy' /\ \A e \in Drivers : InPlace(drv'[e])
  BY <1>1 DEF StepInv, OneBusy, InPlace
<1>12. \A e \in Drivers : (Holds(e))' => owner' = e
  BY DEF Holds
<1> QED
  BY <1>1, <1>4, <1>5, <1>7, <1>8, <1>9, <1>10, <1>11, <1>12 DEF StepInv

-----------------------------------------------------------------------------
(* The invariant of a body that catches nothing. *)
LEMMA StepKeeps ==
    ASSUME StepInv, Caught = {}, Next
    PROVE  StepInv'
<1>1. LiveInv' /\ Types
  BY LiveStep DEF StepInv, LiveInv
<1>2. CASE WorldStep
  BY <1>1, <1>2, WorldKeeps
<1>3. ASSUME NEW d \in Drivers, AnyStep(d) PROVE StepInv'
  <2>1. CASE Idles(d) /\ FailsWhenOver(d)
    BY <1>1, <2>1, IdlesStep DEF FailsWhenOver
  <2>2. CASE (Lock(d) /\ ~ run.done) \/ Retry(d)
    BY <1>1, <2>2, BeginStep
  <2>3. CASE Replay(d)
    BY <1>1, <2>3, ReplayKeeps
  <2>4. CASE HolderStep(d)
    BY <1>1, <2>4, WriteKeeps, RecordKeeps, DiscardKeeps DEF HolderStep
  <2>5. CASE RunActivity(d)
    BY <1>1, <2>5, ActivityStep
  <2>6. CASE ChildSide(d)
    BY <1>1, <2>6, ChildSideStep
  <2>7. CASE UnwindStep(d)
    BY <1>1, <2>7, UnwindKeeps, UndoStep, RecordUndoKeeps DEF UnwindStep
  <2>8. CASE Saves(d)
    BY <1>1, <2>8, SavesStep
  <2> QED
    BY <1>3, <2>1, <2>2, <2>3, <2>4, <2>5, <2>6, <2>7, <2>8 DEF AnyStep
<1> QED
  BY <1>1, <1>2, <1>3, EveryStep

(* It holds when the step is first driven. *)
LEMMA StepInit == Init => StepInv
<1> SUFFICES ASSUME Init PROVE StepInv
  OBVIOUS
<1>1. /\ LiveInv /\ journal = NewJournal /\ drv = [d \in Drivers |-> Idle] /\ owner = Nobody
      /\ run.status = "running" /\ inForce = [a \in Activities |-> {}]
  BY LiveInit DEF Init
<1>2. \A m \in Yields : journal[SlotOf(m)].phase = "none" /\ journal[SlotOf(m) + 1].phase = "none"
  BY <1>1, SlotsApart, EntryTypes
<1>3. \A m \in Yields : Single(m) => inForce[Body[m]] = {}
  BY <1>1 DEF Single
<1>4. RowsNamed(journal) /\ RowsInOrder(journal)
  BY <1>2 DEF RowsNamed, RowsInOrder
<1>5. RowsTell(journal, inForce)
  <2>1. ASSUME NEW m \in Yields, Single(m)
        PROVE  /\ RowTells(journal[SlotOf(m)], inForce[Body[m]])
               /\ UndoTells(journal[SlotOf(m) + 1], m, inForce[Body[m]])
    BY <1>2, <1>3, <2>1 DEF RowTells, UndoTells, Done, Fell
  <2> QED
    BY <2>1 DEF RowsTell
<1>6. ~ Busy(Idle) /\ InPlace(Idle)
  BY BareDriver DEF Bare, Busy, InPlace, AtWork, BarePCs
<1>7. OneBusy /\ \A d \in Drivers : BusySound(drv[d], journal, inForce) /\ InPlace(drv[d]) /\ ~ Holds(d)
  BY <1>1, <1>6, BodyFacts DEF OneBusy, BusySound, Holds
<1> QED
  BY <1>1, <1>4, <1>5, <1>7 DEF StepInv

(* Nothing changes when nothing moves. *)
LEMMA StepStutter ==
    ASSUME StepInv, UNCHANGED vars
    PROVE  StepInv'
<1>1. LiveInv'
  BY LiveStutter DEF StepInv
<1>2. journal' = journal /\ run' = run /\ owner' = owner /\ drv' = drv /\ inForce' = inForce
  BY DEF vars, jobVars, effectVars
<1> QED
  BY <1>1, <1>2 DEF StepInv, OneBusy, Holds

(* The inductive invariant: the rows tell what is in force, and the holder *)
(* of the lock is where the journal says.                                  *)
THEOREM StepInvariant ==
    ASSUME Caught = {}
    PROVE  Spec => []StepInv
<1>1. Init => StepInv
  BY StepInit
<1>2. StepInv /\ [Next]_vars => StepInv'
  BY StepKeeps, StepStutter
<1> QED
  BY <1>1, <1>2, PTL DEF Spec

(* Every activity has its place in the body. *)
LEMMA PlaceOf ==
    ASSUME NEW a \in Activities
    PROVE  Position(a) \in Yields /\ Body[Position(a)] = a
<1>1. \E i \in DOMAIN Body : Body[i] = a
  BY DEF Activities, Range
<1> QED
  BY <1>1, BodyFacts DEF Position

(* The typing conjuncts give the module's own type invariant. *)
LEMMA TypesGive == Types => TypeOK
<1> SUFFICES ASSUME Types PROVE TypeOK
  OBVIOUS
<1>1. \A s \in Slots : /\ journal[s].phase \in {"none", "pending", "completed"}
                       /\ journal[s].exit \in Exits
                       /\ (journal[s].phase = "none") = (journal[s] = NoEntry)
  BY EntryTypes DEF Types, JournalTyped, Entry
<1>2. /\ run.status \in {"running", "suspended", "completed", "failed", "halted"}
      /\ run.waits \in {"", "signal", "child"}
      /\ run.waits # "" => run.status = "suspended"
      /\ owner \in Drivers \cup {Nobody}
  BY DEF Types, RunTyped
<1>3. ASSUME NEW d \in Drivers PROVE drv[d].at \in 0 .. Len(Body) + 1 /\ drv[d].next \in 0 .. 2 * Len(Body)
  <2>1. drv[d] \in Driver /\ Placed(drv[d]) /\ Len(Body) \in Nat
    BY DriverParts, BodyFacts
  <2>2. drv[d].at \in Nat /\ drv[d].next \in Nat
    BY <2>1 DEF Driver
  <2>3. \/ drv[d].at \in 1 .. Len(Body) + 1 /\ drv[d].next <= 2 * (drv[d].at - 1)
        \/ drv[d].at = 0 /\ drv[d].next = 0
    BY <2>1, <2>2 DEF Placed
  <2> QED
    BY <2>1, <2>2, <2>3
<1>4. /\ child.by \in Drivers \cup {Nobody, ChildDriver} /\ ended \cup waking \subseteq 1 .. child.run
      /\ \A a \in Activities : inForce[a] \subseteq 1 .. executed[a]
  BY DEF Types, ChildTyped, EffectsTyped
<1> QED
  BY <1>1, <1>2, <1>3, <1>4 DEF TypeOK

(* Types, for every body: positions, slots, run numbers and executions     *)
(* stay in range.                                                          *)
THEOREM JournalTypes == Spec => []TypeOK
<1>1. LiveInv => TypeOK
  BY TypesGive DEF LiveInv
<1> QED
  BY <1>1, JournalInvariant, PTL

(* "Successful activities that were not rolled back still replay and never *)
(* run twice" (journaled-step.ts): whatever crashes, lapsed leases and     *)
(* retries come between, no activity is in force twice that is not         *)
(* declared idempotent, when the body catches no failure.                  *)
THEOREM OneEffectHolds ==
    ASSUME Caught = {}
    PROVE  Spec => []OneEffect
<1>1. ASSUME StepInv, NEW a \in Activities \ Idempotent PROVE Cardinality(inForce[a]) <= 1
  <2>1. PICK i \in Yields : Body[i] = a
    BY PlaceOf
  <2>2. Single(i) /\ SlotOf(i) \in Slots
    BY <2>1, SlotsApart DEF Single
  <2>3. RowTells(journal[SlotOf(i)], inForce[a]) /\ journal[SlotOf(i)].phase \in {"none", "pending", "completed"}
    BY <1>1, <2>1, <2>2 DEF StepInv, LiveInv, Types, JournalTyped, Entry, RowsTell
  <2>4. \A u, v \in inForce[a] : u = v
    BY <2>3 DEF RowTells, Done, Fell
  <2>5. inForce[a] = {} \/ \E u \in inForce[a] : inForce[a] = {u}
    BY <2>4
  <2>6. Cardinality(inForce[a]) = 0 \/ Cardinality(inForce[a]) = 1
    BY <2>5, FS_EmptySet, FS_Singleton
  <2> QED
    BY <2>6
<1>2. StepInv => OneEffect
  BY <1>1 DEF OneEffect
<1> QED
  BY <1>2, StepInvariant, PTL

(* No effect is forgotten: while an execution is in force, the journal has *)
(* its row, so that no later driver runs the activity again.               *)
THEOREM EffectsRemembered ==
    ASSUME Caught = {}
    PROVE  Spec => []EffectIsRemembered
<1>1. ASSUME StepInv, NEW a \in Activities \ Idempotent, NEW v \in inForce[a]
      PROVE  \E s \in Slots : /\ journal[s].name = a /\ journal[s].kind = "activity"
                              /\ journal[s].phase = "completed" => journal[s].exit = Success(v)
  <2>1. PICK i \in Yields : Body[i] = a
    BY PlaceOf
  <2>2. Single(i) /\ SlotOf(i) \in Slots /\ Kind[a] = "activity"
    BY <2>1, SlotsApart, BodyFacts DEF Single
  <2>3. /\ RowTells(journal[SlotOf(i)], inForce[a]) /\ journal[SlotOf(i)].phase \in {"none", "pending", "completed"}
        /\ journal[SlotOf(i)].exit \in Exits
    BY <1>1, <2>1, <2>2 DEF StepInv, LiveInv, Types, JournalTyped, Entry, RowsTell
  <2>4. journal[SlotOf(i)].phase # "none"
    BY <1>1, <2>3 DEF RowTells
  <2>5. journal[SlotOf(i)].name = a /\ journal[SlotOf(i)].kind = "activity"
    BY <1>1, <2>1, <2>2, <2>4 DEF StepInv, RowsNamed
  <2>6. ASSUME journal[SlotOf(i)].phase = "completed" PROVE journal[SlotOf(i)].exit = Success(v)
    <3>1. journal[SlotOf(i)].exit.ok /\ journal[SlotOf(i)].exit.value = v
      BY <1>1, <2>3, <2>6 DEF RowTells, Done, Fell
    <3> QED
      BY <2>3, <3>1 DEF Exits, Success
  <2> QED
    BY <2>2, <2>5, <2>6
<1>2. StepInv => EffectIsRemembered
  BY <1>1, TypesGive DEF EffectIsRemembered, StepInv, LiveInv
<1> QED
  BY <1>2, StepInvariant, PTL

(* A run that failed for a business reason leaves no activity in force     *)
(* that has a working compensation, however many drivers the unwind took.  *)
THEOREM RollbackWhole ==
    ASSUME Caught = {}
    PROVE  Spec => []RollbackIsWhole
<1>1. ASSUME StepInv, run.status = "failed", NEW a \in Compensable \ (UndoCanFail \cup Idempotent)
      PROVE  inForce[a] = {}
  <2>1. PICK i \in Yields : Body[i] = a
    BY PlaceOf, BodyFacts
  <2>2. Good(i) /\ Single(i)
    BY <2>1, YieldKinds DEF Good
  <2> QED
    BY <1>1, <2>1, <2>2 DEF StepInv, NothingGood, RowsTell, RowTells
<1>2. StepInv => RollbackIsWhole
  BY <1>1 DEF RollbackIsWhole
<1> QED
  BY <1>2, StepInvariant, PTL

(* The unwind of the lock's holder undoes activities in reverse: what came *)
(* later is out of force, unless its compensation may fail.                *)
THEOREM UndoneReversed ==
    ASSUME Caught = {}
    PROVE  Spec => UndoneInReverse
<1>1. ASSUME StepInv, Next, NEW d \in Drivers, Holds(d), drv[d].pc = "undo", drv'[d].pc = "undone",
             NEW a \in Compensable \ Idempotent, NEW b \in Compensable \ Idempotent,
             inForce'[a] # inForce[a], Position(a) < Position(b), b \notin UndoCanFail
      PROVE  inForce[b] = {}
  <2> DEFINE c == NextComp(drv[d].comps)
             i == Position(a)
             k == Position(b)
  <2>1. /\ a \in Activities /\ b \in Activities /\ i \in Yields /\ k \in Yields /\ Body[i] = a /\ Body[k] = b
    BY PlaceOf, BodyFacts
  <2>2. Types /\ inForce \in [Activities -> SUBSET Nat] /\ drv \in [Drivers -> Driver]
    BY <1>1 DEF StepInv, LiveInv, Types, EffectsTyped, DriversTyped
  <2>3. Undo(d)
    <3>1. ASSUME WorldStep PROVE FALSE
      BY <1>1, <2>2, <3>1, WorldTyped
    <3>2. ASSUME NEW e \in Drivers, AnyStep(e) PROVE e = d
      <4>1. ASSUME e # d PROVE drv'[d] = drv[d]
        <5>1. CASE Idles(e) \/ Lock(e) \/ Retry(e) \/ Replay(e) \/ Saves(e)
          BY <2>2, <4>1, <5>1, OneDriver DEF Idles, Lock, Retry, Replay, Saves
        <5>2. CASE HolderStep(e)
          BY <1>1, <4>1, <5>2 DEF HolderStep, Holds
        <5>3. CASE RunActivity(e)
          BY <2>2, <4>1, <5>3, OneDriver DEF RunActivity
        <5>4. CASE ChildSide(e)
          BY <2>2, <4>1, <5>4, ChildStepTyped DEF ChildSide
        <5>5. CASE UnwindStep(e)
          BY <2>2, <4>1, <5>5, UnwindTyped, UndoTyped, RecordUndoTyped DEF UnwindStep
        <5> QED
          BY <3>2, <5>1, <5>2, <5>3, <5>4, <5>5 DEF AnyStep
      <4> QED
        BY <1>1, <4>1
    <3>3. AnyStep(d)
      BY <1>1, <2>2, <3>1, <3>2, EveryStep
    <3>4. ASSUME Idles(d) \/ Saves(d) PROVE FALSE
      <4>1. Bare(Idle, "idle")
        BY BareDriver DEF BarePCs
      <4> QED
        BY <1>1, <2>2, <3>4, <4>1, OneDriver DEF Idles, Saves, Bare
    <3>5. ASSUME Lock(d) \/ Retry(d) \/ Replay(d) \/ HolderStep(d) \/ RunActivity(d) \/ ChildSide(d)
                 \/ Unwind(d) \/ RecordUndo(d)
          PROVE  FALSE
      BY <1>1, <3>5 DEF Lock, Retry, Replay, AtYield, HolderStep, WritePending, Record, AwaitSignal, Discard,
         RunActivity, ChildSide, CreateChild, TakeChild, DriveChild, StopChild, LoadChild, Unwind, RecordUndo
    <3> QED
      BY <3>3, <3>4, <3>5 DEF AnyStep, UnwindStep
  <2>4. /\ drv[d].comps # {} /\ c \in drv[d].comps /\ \A o \in drv[d].comps : o.slot <= c.slot /\ o \in Comp
        /\ c.name \in Activities
    <3>1. drv[d].comps # {}
      BY <2>2, <2>3, UndoTyped
    <3> QED
      BY <1>1, <2>2, <3>1, UnwindingDriver DEF Comp
  <2>5. c.name = a
    <3>1. inForce' = inForce \/ inForce' = [inForce EXCEPT ![c.name] = @ \ {c.value}]
      BY <2>2, <2>3, UndoTyped
    <3> HIDE DEF c
    <3> QED
      BY <1>1, <2>1, <2>2, <2>4, <3>1
  <2>6. c.slot = SlotOf(i) + 1
    <3>1. PICK m \in Yields : c.name = Body[m] /\ c.slot = SlotOf(m) + 1
      BY <1>1, <2>4, HeldComp
    <3> QED
      BY <2>1, <2>5, <3>1, BodyFacts
  <2>7. Good(k) /\ Single(k)
    BY <1>1, <2>1, YieldKinds DEF Good
  <2>8. \/ journal[SlotOf(k)].phase = "none" \/ Fell(journal[SlotOf(k)])
        \/ SlotOf(k) \in drv[d].rolled \/ \E o \in drv[d].comps : o.name = Body[k]
    BY <1>1, <2>1, <2>7 DEF StepInv, Owns, Unwinding
  <2>9. ASSUME NEW o \in drv[d].comps, o.name = Body[k] PROVE FALSE
    <3>1. PICK m \in Yields : o.name = Body[m] /\ o.slot = SlotOf(m) + 1
      BY <1>1, <2>9 DEF StepInv, Owns, CompSound
    <3>2. m = k
      BY <2>1, <2>9, <3>1, BodyFacts
    <3>3. SlotOf(i) < SlotOf(k) /\ SlotOf(i) \in Nat /\ SlotOf(k) \in Nat
      BY <1>1, <2>1, SlotsApart
    <3>4. SlotOf(k) + 1 <= SlotOf(i) + 1
      BY <2>4, <2>6, <3>1, <3>2
    <3> HIDE DEF i, k
    <3> QED
      BY <3>3, <3>4
  <2>10. ASSUME SlotOf(k) \in drv[d].rolled PROVE inForce[Body[k]] = {}
    <3>1. PICK m \in Yields : SlotOf(k) \in {SlotOf(m), SlotOf(m) + 1} /\ RolledBack(m, drv[d], journal, inForce)
      BY <1>1, <2>10 DEF StepInv, Owns, RolledSound
    <3>2. m = k
      BY <2>1, <3>1, SlotsApart DEF RolledBack
    <3> QED
      BY <2>7, <3>1, <3>2 DEF RolledBack
  <2>11. journal[SlotOf(k)].phase = "none" \/ Fell(journal[SlotOf(k)]) => inForce[Body[k]] = {}
    BY <1>1, <2>1, <2>7 DEF StepInv, RowsTell, RowTells
  <2> QED
    BY <2>1, <2>8, <2>9, <2>10, <2>11
<1> DEFINE A == \A d \in Drivers :
          Holds(d) /\ drv[d].pc = "undo" /\ drv'[d].pc = "undone" =>
             \A a, b \in Compensable \ Idempotent :
                inForce'[a] # inForce[a] /\ Position(a) < Position(b)
                   => inForce[b] = {} \/ b \in UndoCanFail
<1>2. StepInv /\ [Next]_vars => [A]_<<inForce, drv>>
  <2>1. ASSUME StepInv, Next PROVE A
    BY <1>1, <2>1
  <2>2. ASSUME UNCHANGED vars PROVE UNCHANGED <<inForce, drv>>
    BY <2>2 DEF vars, jobVars, effectVars
  <2> QED
    BY <2>1, <2>2
<1>3. Spec => [][A]_<<inForce, drv>>
  BY <1>2, StepInvariant, PTL DEF Spec
<1> QED
  BY <1>3 DEF UndoneInReverse
=============================================================================
