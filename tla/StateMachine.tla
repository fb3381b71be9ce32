----------------------------- MODULE StateMachine -----------------------------
(***************************************************************************)
(* A durable state machine (durable/state-machine.ts) over the in-memory   *)
(* storage (durable/state-machine-storage.ts): one machine, one            *)
(* StateMachineInstance, and the sends and timeout firings under way in    *)
(* it.  Storage calls return in the same turn of the event loop, so others *)
(* step only while a guard, an action, an onExit or an onEnter runs; in    *)
(* such a wait the lock may expire, a heartbeat may find it gone, the      *)
(* state's timer may go off and further sends may come.                    *)
(*                                                                         *)
(* Time is kept as two facts: `overdue` (the machine has been in its state *)
(* for the state's timeout), and for an armed timer the visit its delay    *)
(* was counted from.  A context is the number of sends that went into it.  *)
(* Left out: the per-second rate limit, versions, schemas, middleware      *)
(* other than retryMiddleware, restore().  A send refused before its guard *)
(* runs (locked, limit, no transition) changes nothing and is no step.     *)
(***************************************************************************)
EXTENDS Naturals, Sequences, FiniteSets

CONSTANTS
    States, Initial,
    Events,
    To,             \* <<state, event>> -> target, for the transitions there are
    OnError,        \* event -> error state, or NoState
    TimeoutTarget,  \* state with a timeout -> where it leads
    NoState,
    Calls,          \* calls under way at once
    NoCall,
    MaxTransitions, \* limits.maxTransitions
    Retries,        \* re-runs by retryMiddleware
    MaxSends,       \* bound on sends
    MaxExpiries     \* bound on locks that expire under their holder

ASSUME MachineAssumption ==
    /\ Initial \in States /\ NoState \notin States /\ NoCall \notin Calls
    /\ "timeout" \notin Events  \* the tag of a firing is no event to send
    /\ DOMAIN To \subseteq States \X Events
    /\ \A t \in DOMAIN To : To[t] \in States
    /\ OnError \in [Events -> States \cup {NoState}]
    /\ DOMAIN TimeoutTarget \subseteq States
    /\ \A s \in DOMAIN TimeoutTarget : TimeoutTarget[s] \in States
    /\ MaxTransitions \in Nat /\ Retries \in Nat /\ MaxSends \in Nat /\ MaxExpiries \in Nat

VARIABLES
    machine,    \* the stored machine: current, revision, context
    events,     \* its history
    overdue,    \* it has been in its state for the state's timeout
    timer,      \* the timer armed for it in `timers`
    lock,       \* the call whose token the stored lock carries
    call,       \* the sends and firings under way
    answer,     \* how the last call ended
    forgone,    \* a firing of this visit's timeout gave up
    left        \* what is left of the bounds

vars == <<machine, events, overdue, timer, lock, call, answer, forgone, left>>

Timed == DOMAIN TimeoutTarget

NoTimer == [state |-> NoState, visit |-> 0]

Armed(s, visit) == IF s \in Timed THEN [state |-> s, visit |-> visit] ELSE NoTimer

Idle == [pc |-> "idle", event |-> "none", from |-> NoState, to |-> NoState, revision |-> 0,
         context |-> 0, pending |-> NoTimer, lost |-> FALSE, expired |-> FALSE,
         committed |-> FALSE, tries |-> 0]

(* start() has created the machine and armed the initial state's timeout. *)
Init ==
    /\ machine = [current |-> Initial, revision |-> 0, context |-> 0]
    /\ events = <<>>
    /\ overdue = FALSE
    /\ timer = Armed(Initial, 0)
    /\ lock = NoCall
    /\ call = [x \in Calls |-> Idle]
    /\ answer = "none"
    /\ forgone = FALSE
    /\ left = [sends |-> MaxSends, expiries |-> MaxExpiries]

-----------------------------------------------------------------------------
(* A call begins: it takes the lock and loads the machine. *)
Begin(x, event) ==
    /\ lock' = x
    /\ call' = [call EXCEPT ![x] =
          [Idle EXCEPT !.pc = "decide", !.event = event, !.from = machine.current,
                       !.revision = machine.revision, !.context = machine.context,
                       !.pending = timer, !.tries = Retries]]

Admits == machine.revision < MaxTransitions

Send(x, e) ==
    /\ left.sends > 0
    /\ call[x].pc = "idle" /\ lock = NoCall
    /\ Admits
    /\ <<machine.current, e>> \in DOMAIN To
    /\ Begin(x, e)
    /\ left' = [left EXCEPT !.sends = @ - 1]
    /\ UNCHANGED <<machine, events, overdue, timer, answer, forgone>>

(* A call ends: the finally blocks.  A committed transition arms the new   *)
(* state's timeout; a send that did not commit arms the old one again if   *)
(* it went off meanwhile, because its firing found the lock taken.         *)

(* Variant: a rejected send leaves it at that. *)
KeepsTimer(c) == timer
RearmsTimer(c) ==
    IF timer = NoTimer /\ c.event # "timeout" /\ c.pending # NoTimer
    THEN Armed(c.from, c.pending.visit)
    ELSE timer

(* Variant: a timer that is already armed is left as it is. *)
ArmsIfNone(c) == IF c.committed /\ timer = NoTimer THEN Armed(c.to, c.revision + 1) ELSE RearmsTimer(c)
TimerAfter(c) == IF c.committed THEN Armed(c.to, c.revision + 1) ELSE RearmsTimer(c)

Releases(x) == IF lock = x THEN NoCall ELSE lock

Ends(x, error) ==
    LET c == call[x] IN
    /\ timer' = TimerAfter(c)
    /\ lock' = Releases(x)
    /\ forgone' = (forgone \/ (c.event = "timeout" /\ ~c.committed /\ c.revision = machine.revision))
    /\ answer' = error
    /\ call' = [call EXCEPT ![x] = Idle]

GoesOn(x, c) ==
    /\ call' = [call EXCEPT ![x] = c]
    /\ UNCHANGED <<timer, lock, forgone, answer>>

-----------------------------------------------------------------------------
(* The guard and the action of a send, the guard of a timeout. *)
Decides(x, target, context) ==
    GoesOn(x, [call[x] EXCEPT !.pc = "exit", !.to = target, !.context = context])

SendDecides(x) ==
    LET c == call[x] IN
    /\ c.pc = "decide" /\ c.event # "timeout"
    /\ \/ Decides(x, To[<<c.from, c.event>>], c.context + 1)
       \/ OnError[c.event] # NoState /\ Decides(x, OnError[c.event], c.context + 1)
       \/ Ends(x, "rejected")
    /\ UNCHANGED <<machine, events, overdue, left>>

TimeoutDecides(x) ==
    LET c == call[x] IN
    /\ c.pc = "decide" /\ c.event = "timeout"
    /\ Decides(x, TimeoutTarget[c.from], c.context) \/ Ends(x, "rejected")
    /\ UNCHANGED <<machine, events, overdue, left>>

-----------------------------------------------------------------------------
(* executeTransition: onExit, save, onEnter, once more after a throw while *)
(* the middleware retries.  What was saved is not saved again.             *)

(* Variant: a retry starts from the beginning, saved or not. *)
RestartsAll(c) == "exit"
RestartsAt(c) == IF c.committed THEN "enter" ELSE "exit"

Throws(x, error) ==
    IF call[x].tries = 0 THEN Ends(x, error)
    ELSE GoesOn(x, [call[x] EXCEPT !.pc = RestartsAt(call[x]), !.tries = @ - 1])

ExitFails(x) ==
    /\ call[x].pc = "exit"
    /\ Throws(x, "exit")
    /\ UNCHANGED <<machine, events, overdue, left>>

(* storage.transition: compare-and-set on state and revision. *)

(* Variant: the revision is not compared. *)
MatchesState(c) == machine.current = c.from
Matches(c) == machine.current = c.from /\ machine.revision = c.revision

Refused(x) ==
    /\ call[x].pc = "exit"
    /\ call[x].lost \/ ~Matches(call[x])
    /\ Throws(x, IF call[x].lost THEN "lost" ELSE "conflict")
    /\ UNCHANGED <<machine, events, overdue, left>>

Save(x) ==
    LET c == call[x] IN
    /\ c.pc = "exit"
    /\ ~c.lost /\ Matches(c)
    /\ machine' = [current |-> c.to, revision |-> machine.revision + 1, context |-> c.context]
    /\ events' = Append(events, [event |-> c.event, from |-> c.from, to |-> c.to,
                                 early |-> ~overdue])
    /\ overdue' = FALSE
    /\ forgone' = FALSE
    /\ call' = [call EXCEPT ![x].pc = "enter", ![x].committed = TRUE]
    /\ UNCHANGED <<timer, lock, answer, left>>

EnterReturns(x) ==
    /\ call[x].pc = "enter"
    /\ Ends(x, "none")
    /\ UNCHANGED <<machine, events, overdue, left>>

EnterFails(x) ==
    /\ call[x].pc = "enter"
    /\ Throws(x, "enter")
    /\ UNCHANGED <<machine, events, overdue, left>>

-----------------------------------------------------------------------------
(* Timeouts.  fireTimeout does nothing when the lock is taken or the       *)
(* machine is in another state.                                            *)
FireTimeout(x, s) ==
    IF lock = NoCall /\ machine.current = s THEN Begin(x, "timeout")
    ELSE UNCHANGED <<lock, call>>

TimerGoesOff(x) ==
    /\ timer # NoTimer /\ call[x].pc = "idle"
    /\ overdue \/ timer.visit # machine.revision
    /\ timer' = NoTimer
    /\ FireTimeout(x, timer.state)
    /\ UNCHANGED <<machine, events, overdue, answer, forgone, left>>

CheckTimeouts(x) ==
    /\ call[x].pc = "idle" /\ lock = NoCall
    /\ machine.current \in Timed /\ overdue
    /\ FireTimeout(x, machine.current)
    /\ UNCHANGED <<machine, events, overdue, timer, answer, forgone, left>>

TimePasses ==
    /\ machine.current \in Timed /\ ~overdue
    /\ overdue' = TRUE
    /\ UNCHANGED <<machine, events, timer, lock, call, answer, forgone, left>>

(* A lock its holder did not extend in time; the next beat sees it. *)
LockExpires ==
    /\ lock # NoCall /\ left.expiries > 0
    /\ lock' = NoCall
    /\ call' = [call EXCEPT ![lock].expired = TRUE]
    /\ left' = [left EXCEPT !.expiries = @ - 1]
    /\ UNCHANGED <<machine, events, overdue, timer, answer, forgone>>

HeartbeatFails(x) ==
    /\ call[x].pc # "idle" /\ lock # x /\ ~call[x].lost
    /\ call' = [call EXCEPT ![x].lost = TRUE]
    /\ UNCHANGED <<machine, events, overdue, timer, lock, answer, forgone, left>>

-----------------------------------------------------------------------------
CallStep(x) == \/ SendDecides(x) \/ TimeoutDecides(x)
               \/ ExitFails(x) \/ Refused(x) \/ Save(x)
               \/ EnterReturns(x) \/ EnterFails(x)

Next ==
    \/ \E x \in Calls : \/ \E e \in Events : Send(x, e)
                        \/ CallStep(x) \/ TimerGoesOff(x) \/ CheckTimeouts(x) \/ HeartbeatFails(x)
    \/ TimePasses \/ LockExpires

Spec == Init /\ [][Next]_vars

(* Hooks return, timers go off. *)
FairSpec ==
    /\ Spec
    /\ \A x \in Calls : WF_vars(CallStep(x))
    /\ WF_vars(\E x \in Calls : TimerGoesOff(x))
    /\ WF_vars(TimePasses)

-----------------------------------------------------------------------------
(* The machine, its timer, its lock and the calls keep their types; an     *)
(* armed timer is for a state that has a timeout.                          *)
TypeOK ==
    /\ machine \in [current : States, revision : Nat, context : Nat]
    /\ \A i \in DOMAIN events : events[i].from \in States /\ events[i].to \in States
    /\ overdue \in BOOLEAN /\ forgone \in BOOLEAN
    /\ timer = NoTimer \/ (timer.state \in Timed /\ timer.visit \in Nat)
    /\ lock \in Calls \cup {NoCall}
    /\ \A x \in Calls : call[x].pc \in {"idle", "decide", "exit", "enter"}
    /\ answer \in {"none", "rejected", "exit", "lost", "conflict", "enter"}

(* state-machine-storage.ts, transition ("keeps two concurrent self-loop   *)
(* transitions from overwriting each other"): the history is a path of the *)
(* machine, the revision its length, and every send in it was computed     *)
(* from the context its predecessor left, though locks expire.             *)
NoLostUpdate ==
    /\ TypeOK
    /\ machine.revision = Len(events)
    /\ \A i \in DOMAIN events : events[i].from = IF i = 1 THEN Initial ELSE events[i - 1].to
    /\ machine.current = IF events = <<>> THEN Initial ELSE events[Len(events)].to
    /\ machine.context = Cardinality({i \in DOMAIN events : events[i].event # "timeout"})

(* state-machine.ts, executeTransition: a call that fails before or at the *)
(* save has saved nothing, whatever the retries did in between, and one    *)
(* that succeeds or fails in onEnter has.                                  *)
AnswersTruly ==
    [][\A x \in Calls : call[x].pc # "idle" /\ call'[x].pc = "idle" =>
           (call[x].committed <=> answer' \in {"none", "enter"})]_vars

(* fireTimeout ("bail rather than misfiring"): a timeout transition        *)
(* happens only when the machine has been in the state for the timeout, as *)
(* long as no lock expired under its holder.                               *)
TimeoutIsDue ==
    left.expiries = MaxExpiries =>
        \A i \in DOMAIN events : events[i].event = "timeout" => ~events[i].early

(* state(), { timeout } and send ("its timeout must still fire"): a        *)
(* machine does not stay overdue in a state, whatever sends were           *)
(* rejected there, unless a firing itself was vetoed or failed, or a lock  *)
(* expired under its holder.                                               *)
TimeoutFires ==
    overdue ~> (~overdue \/ forgone \/ left.expiries < MaxExpiries)
=============================================================================
