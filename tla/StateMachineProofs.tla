-------------------------- MODULE StateMachineProofs --------------------------
(***************************************************************************)
(* No update of a durable machine is lost, a call answers what it did, and *)
(* no timeout fires early, for any machine and any number of calls.        *)
(*                                                                         *)
(* The history is safe because of what a call under way knows: while its   *)
(* revision is still the machine's, so are its state and its context, and  *)
(* every save gives the machine a revision no call has read yet.           *)
(***************************************************************************)
EXTENDS StateMachine, FiniteSetTheorems, SequenceTheorems, TLAPS

Answers == {"none", "rejected", "exit", "lost", "conflict", "enter"}
Timer == [state : States \cup {NoState}, visit : Nat]
CallRecord ==
    [pc : {"idle", "decide", "exit", "enter"}, event : Events \cup {"timeout", "none"},
     from : States \cup {NoState}, to : States \cup {NoState}, revision : Nat, context : Nat,
     pending : Timer, lost : BOOLEAN, expired : BOOLEAN, committed : BOOLEAN, tries : Nat]
Entry == [event : Events \cup {"timeout"}, from : States, to : States, early : BOOLEAN]

(* The types, of what the calls carry too. *)
SharpTypes ==
    /\ machine \in [current : States, revision : Nat, context : Nat]
    /\ events \in Seq(Entry)
    /\ overdue \in BOOLEAN /\ forgone \in BOOLEAN
    /\ timer \in Timer /\ (timer = NoTimer \/ timer.state \in Timed)
    /\ lock \in Calls \cup {NoCall}
    /\ call \in [Calls -> CallRecord]
    /\ answer \in Answers
    /\ left \in [sends : Nat, expiries : 0 .. MaxExpiries]

(* What a call under way has decided on. *)
KnowsItsWay(c) ==
    /\ c.pc # "idle" => c.event \in Events \cup {"timeout"} /\ c.from \in States
    /\ c.pc = "decide" /\ c.event \in Events => <<c.from, c.event>> \in DOMAIN To
    /\ c.pc = "decide" /\ c.event = "timeout" => c.from \in Timed
    /\ c.pc \in {"exit", "enter"} => c.to \in States
    /\ c.committed <=> c.pc = "enter"

(* What it knows of the machine as long as nobody saved. *)
KnowsTheMachine(c) ==
    c.pc \in {"decide", "exit"} =>
        /\ c.revision <= machine.revision
        /\ c.revision = machine.revision =>
             /\ c.from = machine.current
             /\ c.context = IF c.pc = "exit" /\ c.event # "timeout"
                            THEN machine.context + 1 ELSE machine.context

(* The sends in a history. *)
Sends(h) == {i \in DOMAIN h : h[i].event # "timeout"}

HistoryIsWhole ==
    /\ machine.revision = Len(events)
    /\ \A i \in DOMAIN events : events[i].from = IF i = 1 THEN Initial ELSE events[i - 1].to
    /\ machine.current = IF events = <<>> THEN Initial ELSE events[Len(events)].to
    /\ machine.context = Cardinality(Sends(events))

MachineInv ==
    /\ SharpTypes
    /\ \A x \in Calls : KnowsItsWay(call[x]) /\ KnowsTheMachine(call[x])
    /\ HistoryIsWhole

-----------------------------------------------------------------------------
(* A history longer by one entry. *)
LEMMA OneMoreSend ==
    ASSUME NEW h \in Seq(Entry), NEW e \in Entry
    PROVE  /\ Cardinality(Sends(h)) \in Nat
           /\ Cardinality(Sends(Append(h, e))) =
                IF e.event = "timeout" THEN Cardinality(Sends(h)) ELSE Cardinality(Sends(h)) + 1
<1> DEFINE n == Len(h) + 1
<1>1. DOMAIN h = 1 .. Len(h) /\ DOMAIN Append(h, e) = 1 .. n /\ Len(h) \in Nat
  OBVIOUS
<1>2. \A i \in 1 .. Len(h) : Append(h, e)[i] = h[i]
  OBVIOUS
<1>3. Append(h, e)[n] = e
  OBVIOUS
<1>4. IsFiniteSet(Sends(h)) /\ Cardinality(Sends(h)) \in Nat /\ n \notin Sends(h)
  <2>1. Sends(h) \subseteq 1 .. Len(h)
    BY <1>1 DEF Sends
  <2>2. IsFiniteSet(1 .. Len(h))
    BY <1>1, FS_Interval
  <2>3. IsFiniteSet(Sends(h)) /\ Cardinality(Sends(h)) \in Nat
    BY <2>1, <2>2, FS_Subset, FS_CardinalityType
  <2> QED
    BY <1>1, <2>1, <2>3
<1>5. CASE e.event = "timeout"
  <2>1. Sends(Append(h, e)) = Sends(h)
    BY <1>1, <1>2, <1>3, <1>5 DEF Sends
  <2> QED
    BY <1>4, <1>5, <2>1
<1>6. CASE e.event # "timeout"
  <2>1. Sends(Append(h, e)) = Sends(h) \cup {n}
    BY <1>1, <1>2, <1>3, <1>6 DEF Sends
  <2> QED
    BY <1>4, <1>6, <2>1, FS_AddElement
<1> QED
  BY <1>5, <1>6

(* A timer as it is armed. *)
LEMMA ArmedType ==
    ASSUME NEW s \in States, NEW visit \in Nat
    PROVE  Armed(s, visit) \in Timer /\ (Armed(s, visit) = NoTimer \/ Armed(s, visit).state \in Timed)
BY DEF Armed, Timer, NoTimer

(* A call at rest. *)
LEMMA IdleType == Idle \in CallRecord /\ KnowsItsWay(Idle) /\ KnowsTheMachine(Idle)
<1>1. NoTimer \in Timer
  BY DEF NoTimer, Timer
<1> HIDE DEF NoTimer
<1> QED
  BY <1>1, MachineAssumption DEF Idle, CallRecord, KnowsItsWay, KnowsTheMachine

(* start() makes a machine with an empty history. *)
LEMMA MachineInitial == Init => MachineInv
<1> SUFFICES ASSUME Init PROVE MachineInv
  OBVIOUS
<1>1. SharpTypes
  <2>1. timer \in Timer /\ (timer = NoTimer \/ timer.state \in Timed)
    BY MachineAssumption, ArmedType DEF Init
  <2>2. left \in [sends : Nat, expiries : 0 .. MaxExpiries]
    BY MachineAssumption DEF Init
  <2>3. call \in [Calls -> CallRecord]
    BY IdleType DEF Init
  <2>4. machine \in [current : States, revision : Nat, context : Nat] /\ events \in Seq(Entry)
    BY MachineAssumption DEF Init
  <2>5. overdue \in BOOLEAN /\ forgone \in BOOLEAN /\ lock = NoCall /\ answer \in Answers
    BY DEF Init, Answers
  <2> QED
    BY <2>1, <2>2, <2>3, <2>4, <2>5 DEF SharpTypes
<1>2. \A x \in Calls : KnowsItsWay(call[x]) /\ KnowsTheMachine(call[x])
  BY IdleType DEF Init
<1>3. HistoryIsWhole
  <2>1. Sends(<<>>) = {}
    BY DEF Sends
  <2> QED
    BY <2>1, FS_EmptySet DEF Init, HistoryIsWhole
<1> QED
  BY <1>1, <1>2, <1>3 DEF MachineInv

-----------------------------------------------------------------------------
(* A step that writes one call and not the machine. *)
LEMMA OneCall ==
    ASSUME MachineInv, NEW x \in Calls, NEW c \in CallRecord, KnowsItsWay(c), KnowsTheMachine(c),
           call' = [call EXCEPT ![x] = c], machine' = machine
    PROVE  /\ call' \in [Calls -> CallRecord]
           /\ \A y \in Calls : (KnowsItsWay(call[y]) /\ KnowsTheMachine(call[y]))'
<1>1. call \in [Calls -> CallRecord]
  BY DEF MachineInv, SharpTypes
<1>2. call' \in [Calls -> CallRecord]
  BY <1>1
<1>3. ASSUME NEW y \in Calls PROVE (KnowsItsWay(call[y]) /\ KnowsTheMachine(call[y]))'
  <2>1. KnowsItsWay(call[y]) /\ KnowsTheMachine(call[y])
    BY DEF MachineInv
  <2>2. CASE y = x
    <3>1. call'[y] = c
      BY <1>1, <2>2
    <3> QED
      BY <3>1 DEF KnowsItsWay, KnowsTheMachine
  <2>3. CASE y # x
    <3>1. call'[y] = call[y]
      BY <1>1, <2>3
    <3> QED
      BY <2>1, <3>1 DEF KnowsItsWay, KnowsTheMachine
  <2> QED
    BY <2>2, <2>3
<1> QED
  BY <1>2, <1>3

(* The finally blocks: a call ends. *)
LEMMA EndsKeeps ==
    ASSUME MachineInv, NEW x \in Calls, call[x].pc # "idle", NEW e \in Answers, Ends(x, e),
           UNCHANGED <<machine, events, overdue, left>>
    PROVE  MachineInv'
<1> DEFINE c == call[x]
<1>1. c \in CallRecord /\ KnowsItsWay(c) /\ SharpTypes
  BY DEF MachineInv, SharpTypes
<1>2. /\ timer' = TimerAfter(c) /\ lock' \in Calls \cup {NoCall} /\ forgone' \in BOOLEAN
      /\ answer' = e /\ call' = [call EXCEPT ![x] = Idle]
  BY <1>1 DEF Ends, Releases, SharpTypes
<1>3. c.from \in States /\ c.pending \in Timer /\ c.revision + 1 \in Nat
      /\ (c.committed => c.to \in States) /\ c.pending.visit \in Nat
  BY <1>1 DEF KnowsItsWay, CallRecord, Timer
<1> HIDE DEF c
<1>4. RearmsTimer(c) \in Timer /\ (RearmsTimer(c) = NoTimer \/ RearmsTimer(c).state \in Timed)
  BY <1>1, <1>3, ArmedType DEF RearmsTimer, SharpTypes
<1>5. timer' \in Timer /\ (timer' = NoTimer \/ timer'.state \in Timed)
  BY <1>2, <1>3, <1>4, ArmedType DEF TimerAfter
<1>6. /\ call' \in [Calls -> CallRecord]
      /\ \A y \in Calls : (KnowsItsWay(call[y]) /\ KnowsTheMachine(call[y]))'
  BY <1>2, IdleType, OneCall
<1>7. SharpTypes'
  BY <1>1, <1>2, <1>5, <1>6 DEF SharpTypes
<1>8. HistoryIsWhole'
  BY DEF MachineInv, HistoryIsWhole, Sends
<1> QED
  BY <1>6, <1>7, <1>8 DEF MachineInv

(* A call goes on to its next wait. *)
LEMMA GoesOnKeeps ==
    ASSUME MachineInv, NEW x \in Calls, NEW c \in CallRecord, KnowsItsWay(c), KnowsTheMachine(c),
           GoesOn(x, c), UNCHANGED <<machine, events, overdue, left>>
    PROVE  MachineInv'
<1>1. /\ call' = [call EXCEPT ![x] = c] /\ SharpTypes
      /\ UNCHANGED <<timer, lock, forgone, answer>>
  BY DEF GoesOn, MachineInv
<1>2. /\ call' \in [Calls -> CallRecord]
      /\ \A y \in Calls : (KnowsItsWay(call[y]) /\ KnowsTheMachine(call[y]))'
  BY <1>1, OneCall
<1>3. SharpTypes'
  BY <1>1, <1>2 DEF SharpTypes
<1>4. HistoryIsWhole'
  BY DEF MachineInv, HistoryIsWhole, Sends
<1> QED
  BY <1>2, <1>3, <1>4 DEF MachineInv

(* Any other step that leaves the machine alone. *)
LEMMA OtherKeeps ==
    ASSUME MachineInv, machine' = machine, events' = events, SharpTypes',
           \A y \in Calls : (KnowsItsWay(call[y]) /\ KnowsTheMachine(call[y]))'
    PROVE  MachineInv'
<1>1. HistoryIsWhole'
  BY DEF MachineInv, HistoryIsWhole, Sends
<1> QED
  BY <1>1 DEF MachineInv

(* send and fireTimeout, up to the guard: a call begins with the machine it *)
(* loaded.                                                                 *)
LEMMA BeginsSound ==
    ASSUME MachineInv, NEW x \in Calls, NEW e \in Events \cup {"timeout"}, Begin(x, e),
           machine' = machine,
           e \in Events => <<machine.current, e>> \in DOMAIN To,
           e = "timeout" => machine.current \in Timed
    PROVE  /\ lock' = x /\ call' \in [Calls -> CallRecord]
           /\ \A y \in Calls : (KnowsItsWay(call[y]) /\ KnowsTheMachine(call[y]))'
<1> DEFINE c == [Idle EXCEPT !.pc = "decide", !.event = e, !.from = machine.current,
                             !.revision = machine.revision, !.context = machine.context,
                             !.pending = timer, !.tries = Retries]
<1>1. SharpTypes
  BY DEF MachineInv
<1>2. machine.current \in States /\ machine.revision \in Nat /\ machine.context \in Nat
      /\ timer \in Timer
  BY <1>1 DEF SharpTypes
<1>3. /\ c \in CallRecord /\ c.pc = "decide" /\ c.event = e /\ c.from = machine.current
      /\ c.revision = machine.revision /\ c.context = machine.context /\ c.committed = FALSE
  <2>1. Idle \in CallRecord /\ Idle.committed = FALSE
    BY IdleType DEF Idle
  <2> QED
    BY <1>2, <2>1, MachineAssumption DEF CallRecord
<1>4. call' = [call EXCEPT ![x] = c] /\ lock' = x
  BY DEF Begin
<1> HIDE DEF c
<1>5. KnowsItsWay(c)
  BY <1>2, <1>3, MachineAssumption DEF KnowsItsWay
<1>6. KnowsTheMachine(c)
  BY <1>2, <1>3 DEF KnowsTheMachine
<1> QED
  BY <1>3, <1>4, <1>5, <1>6, OneCall

(* executeTransition: a throw ends the call or starts it once more. *)
LEMMA ThrowsKeeps ==
    ASSUME MachineInv, NEW x \in Calls, call[x].pc \in {"exit", "enter"}, NEW e \in Answers,
           Throws(x, e), UNCHANGED <<machine, events, overdue, left>>
    PROVE  MachineInv'
<1>1. CASE call[x].tries = 0
  BY <1>1, EndsKeeps DEF Throws
<1>2. CASE call[x].tries # 0
  <2> DEFINE c == [call[x] EXCEPT !.pc = RestartsAt(call[x]), !.tries = @ - 1]
  <2>1. call[x] \in CallRecord /\ KnowsItsWay(call[x]) /\ KnowsTheMachine(call[x])
    BY DEF MachineInv, SharpTypes
  <2>2. RestartsAt(call[x]) = call[x].pc
    BY <2>1 DEF RestartsAt, KnowsItsWay
  <2>3. call[x].tries - 1 \in Nat
    BY <1>2, <2>1 DEF CallRecord
  <2>4. c = [call[x] EXCEPT !.tries = call[x].tries - 1]
    BY <2>1, <2>2 DEF CallRecord
  <2>5. c \in CallRecord
    BY <2>1, <2>3, <2>4 DEF CallRecord
  <2>6. KnowsItsWay(c) /\ KnowsTheMachine(c)
    BY <2>1, <2>4 DEF KnowsItsWay, KnowsTheMachine, CallRecord
  <2>7. GoesOn(x, c)
    BY <1>2 DEF Throws
  <2> HIDE DEF c
  <2> QED
    BY <2>5, <2>6, <2>7, GoesOnKeeps
<1> QED
  BY <1>1, <1>2

-----------------------------------------------------------------------------
(* The guard let the transition pass, and the action made its context. *)
LEMMA DecidesKeeps ==
    ASSUME MachineInv, NEW x \in Calls, call[x].pc = "decide", NEW to \in States,
           Decides(x, to, IF call[x].event = "timeout" THEN call[x].context ELSE call[x].context + 1),
           UNCHANGED <<machine, events, overdue, left>>
    PROVE  MachineInv'
<1> DEFINE n == IF call[x].event = "timeout" THEN call[x].context ELSE call[x].context + 1
           c == [call[x] EXCEPT !.pc = "exit", !.to = to, !.context = n]
<1>1. call[x] \in CallRecord /\ KnowsItsWay(call[x]) /\ KnowsTheMachine(call[x]) /\ SharpTypes
  BY DEF MachineInv, SharpTypes
<1>2. n \in Nat /\ machine.context \in Nat
  BY <1>1 DEF CallRecord, SharpTypes
<1>3. GoesOn(x, c)
  BY DEF Decides
<1>4. c \in CallRecord
  <2> HIDE DEF n
  <2> QED
    BY <1>1, <1>2 DEF CallRecord
<1>5. /\ c.pc = "exit" /\ c.to = to /\ c.context = n /\ c.event = call[x].event
      /\ c.from = call[x].from /\ c.revision = call[x].revision
      /\ c.committed = call[x].committed
  BY <1>1 DEF CallRecord
<1> HIDE DEF c
<1>6. KnowsItsWay(c)
  BY <1>1, <1>5 DEF KnowsItsWay
<1>7. KnowsTheMachine(c)
  BY <1>1, <1>2, <1>5 DEF KnowsTheMachine
<1> QED
  BY <1>3, <1>4, <1>6, <1>7, GoesOnKeeps

(* The guard and the action of a send. *)
LEMMA SendDecidesKeeps ==
    ASSUME MachineInv, NEW x \in Calls, SendDecides(x)
    PROVE  MachineInv'
<1>1. call[x].pc = "decide" /\ call[x].event # "timeout" /\ UNCHANGED <<machine, events, overdue, left>>
  BY DEF SendDecides
<1>2. /\ call[x].event \in Events /\ <<call[x].from, call[x].event>> \in DOMAIN To
  BY <1>1 DEF MachineInv, KnowsItsWay
<1>3. CASE Decides(x, To[<<call[x].from, call[x].event>>], call[x].context + 1)
  BY <1>1, <1>2, <1>3, DecidesKeeps, MachineAssumption
<1>4. CASE OnError[call[x].event] # NoState /\ Decides(x, OnError[call[x].event], call[x].context + 1)
  <2>1. OnError[call[x].event] \in States
    BY <1>2, <1>4, MachineAssumption
  <2> QED
    BY <1>1, <1>4, <2>1, DecidesKeeps
<1>5. CASE Ends(x, "rejected")
  BY <1>1, <1>5, EndsKeeps DEF Answers
<1> QED
  BY <1>3, <1>4, <1>5 DEF SendDecides

(* The guard of a timeout. *)
LEMMA TimeoutDecidesKeeps ==
    ASSUME MachineInv, NEW x \in Calls, TimeoutDecides(x)
    PROVE  MachineInv'
<1>1. call[x].pc = "decide" /\ call[x].event = "timeout" /\ UNCHANGED <<machine, events, overdue, left>>
  BY DEF TimeoutDecides
<1>2. TimeoutTarget[call[x].from] \in States
  BY <1>1, MachineAssumption DEF MachineInv, KnowsItsWay, Timed
<1>3. CASE Decides(x, TimeoutTarget[call[x].from], call[x].context)
  BY <1>1, <1>2, <1>3, DecidesKeeps
<1>4. CASE Ends(x, "rejected")
  BY <1>1, <1>4, EndsKeeps DEF Answers
<1> QED
  BY <1>3, <1>4 DEF TimeoutDecides

(* storage.transition: the saved state, revision and context follow from    *)
(* the stored ones, because the revision matched.                          *)
LEMMA SaveKeeps ==
    ASSUME MachineInv, NEW x \in Calls, Save(x)
    PROVE  MachineInv'
<1> DEFINE c == call[x]
           e == [event |-> c.event, from |-> c.from, to |-> c.to, early |-> ~overdue]
           d == [c EXCEPT !.pc = "enter", !.committed = TRUE]
<1>1. /\ c.pc = "exit" /\ machine.current = c.from /\ machine.revision = c.revision
      /\ machine' = [current |-> c.to, revision |-> machine.revision + 1, context |-> c.context]
      /\ events' = Append(events, e)
      /\ overdue' = FALSE /\ forgone' = FALSE
      /\ UNCHANGED <<timer, lock, answer, left>>
  BY DEF Save, Matches
<1>2. /\ c \in CallRecord /\ KnowsItsWay(c) /\ KnowsTheMachine(c) /\ SharpTypes
      /\ HistoryIsWhole /\ call \in [Calls -> CallRecord]
  BY DEF MachineInv, SharpTypes
<1>3. call' = [call EXCEPT ![x] = d]
  BY <1>2 DEF Save, CallRecord
<1>4. /\ c.event \in Events \cup {"timeout"} /\ c.from \in States /\ c.to \in States
      /\ c.revision \in Nat /\ c.context \in Nat
  BY <1>1, <1>2 DEF KnowsItsWay, CallRecord
<1>5. c.context = IF c.event = "timeout" THEN machine.context ELSE machine.context + 1
  BY <1>1, <1>2 DEF KnowsTheMachine
<1>6. e \in Entry /\ e.event = c.event /\ e.from = c.from /\ e.to = c.to
  BY <1>2, <1>4 DEF Entry, SharpTypes
<1>7. d \in CallRecord /\ d.pc = "enter" /\ d.committed = TRUE /\ d.event = c.event
      /\ d.from = c.from /\ d.to = c.to
  BY <1>2 DEF CallRecord
<1>8. events \in Seq(Entry) /\ machine.revision \in Nat /\ machine.context \in Nat
  BY <1>2 DEF SharpTypes
<1> HIDE DEF c, d, e
<1>9. call' \in [Calls -> CallRecord]
  BY <1>2, <1>3, <1>7
<1>10. machine' \in [current : States, revision : Nat, context : Nat] /\ events' \in Seq(Entry)
  BY <1>1, <1>4, <1>6, <1>8
<1>11. SharpTypes'
  BY <1>1, <1>2, <1>9, <1>10 DEF SharpTypes
<1>12. ASSUME NEW y \in Calls PROVE (KnowsItsWay(call[y]) /\ KnowsTheMachine(call[y]))'
  <2>1. machine'.revision = machine.revision + 1
    BY <1>1
  <2>2. CASE y = x
    <3>1. call'[y] = d
      BY <1>2, <1>3, <2>2
    <3> QED
      BY <1>4, <1>7, <3>1 DEF KnowsItsWay, KnowsTheMachine
  <2>3. CASE y # x
    <3>1. call'[y] = call[y] /\ call[y] \in CallRecord
      BY <1>2, <1>3, <2>3
    <3>2. KnowsItsWay(call[y]) /\ KnowsTheMachine(call[y])
      BY DEF MachineInv
    <3>3. call[y].pc \in {"decide", "exit"} => call[y].revision < machine'.revision
      BY <1>8, <2>1, <3>1, <3>2 DEF KnowsTheMachine, CallRecord
    <3>4. call[y].revision \in Nat /\ machine'.revision \in Nat
      BY <1>8, <2>1, <3>1 DEF CallRecord
    <3>5. KnowsItsWay(call[y])'
      BY <3>1, <3>2 DEF KnowsItsWay
    <3>6. KnowsTheMachine(call[y])'
      BY <3>1, <3>3, <3>4 DEF KnowsTheMachine
    <3> QED
      BY <3>5, <3>6
  <2> QED
    BY <2>2, <2>3
<1>13. HistoryIsWhole'
  <2>1. /\ Len(events') = Len(events) + 1 /\ DOMAIN events' = 1 .. Len(events) + 1
        /\ DOMAIN events = 1 .. Len(events) /\ Len(events) \in Nat
        /\ events'[Len(events) + 1] = e
        /\ \A i \in 1 .. Len(events) : events'[i] = events[i]
    BY <1>1, <1>6, <1>8
  <2>2. machine'.revision = Len(events')
    BY <1>1, <1>2, <2>1 DEF HistoryIsWhole
  <2>3. events = <<>> <=> Len(events) = 0
    BY <1>8
  <2>4. e.from = IF Len(events) = 0 THEN Initial ELSE events[Len(events)].to
    BY <1>1, <1>2, <1>6, <2>3 DEF HistoryIsWhole
  <2>5. \A i \in DOMAIN events' : events'[i].from = IF i = 1 THEN Initial ELSE events'[i - 1].to
    <3> SUFFICES ASSUME NEW i \in 1 .. Len(events) + 1
                 PROVE  events'[i].from = IF i = 1 THEN Initial ELSE events'[i - 1].to
      BY <2>1
    <3>1. CASE i = Len(events) + 1
      BY <2>1, <2>4, <3>1
    <3>2. CASE i # Len(events) + 1
      <4>1. i \in 1 .. Len(events) /\ (i # 1 => i - 1 \in 1 .. Len(events))
        BY <2>1, <3>2
      <4> QED
        BY <1>2, <2>1, <4>1 DEF HistoryIsWhole
    <3> QED
      BY <3>1, <3>2
  <2>6. machine'.current = IF events' = <<>> THEN Initial ELSE events'[Len(events')].to
    <3>1. events' # <<>>
      BY <1>1, <1>6, <1>8
    <3> QED
      BY <1>1, <1>6, <2>1, <3>1
  <2>7. machine'.context = Cardinality(Sends(events'))
    <3>1. Cardinality(Sends(events')) =
            IF e.event = "timeout" THEN Cardinality(Sends(events)) ELSE Cardinality(Sends(events)) + 1
      BY <1>1, <1>6, <1>8, OneMoreSend
    <3> QED
      BY <1>1, <1>2, <1>5, <1>6, <3>1 DEF HistoryIsWhole
  <2>8. Sends(events)' = Sends(events')
    BY DEF Sends
  <2> QED
    BY <2>2, <2>5, <2>6, <2>7, <2>8 DEF HistoryIsWhole
<1> QED
  BY <1>11, <1>12, <1>13 DEF MachineInv

(* send: the lock is taken and a transition leads on from the state. *)
LEMMA SendKeeps ==
    ASSUME MachineInv, NEW x \in Calls, NEW e \in Events, Send(x, e)
    PROVE  MachineInv'
<1>1. /\ Begin(x, e) /\ <<machine.current, e>> \in DOMAIN To /\ left.sends > 0
      /\ left' = [left EXCEPT !.sends = @ - 1]
      /\ UNCHANGED <<machine, events, overdue, timer, answer, forgone>>
  BY DEF Send
<1>2. SharpTypes /\ e # "timeout"
  BY MachineAssumption DEF MachineInv
<1>3. /\ lock' = x /\ call' \in [Calls -> CallRecord]
      /\ \A y \in Calls : (KnowsItsWay(call[y]) /\ KnowsTheMachine(call[y]))'
  BY <1>1, <1>2, BeginsSound
<1>4. left' \in [sends : Nat, expiries : 0 .. MaxExpiries]
  <2> DEFINE n == left.sends - 1
  <2>1. n \in Nat /\ left' = [left EXCEPT !.sends = n]
    BY <1>1, <1>2 DEF SharpTypes
  <2> HIDE DEF n
  <2> QED
    BY <1>2, <2>1 DEF SharpTypes
<1>5. SharpTypes'
  BY <1>1, <1>2, <1>3, <1>4 DEF SharpTypes
<1> QED
  BY <1>1, <1>3, <1>5, OtherKeeps

(* fireTimeout, from a timer or from checkTimeouts. *)
LEMMA FireKeeps ==
    ASSUME MachineInv, NEW x \in Calls, NEW s \in Timed, FireTimeout(x, s),
           timer' \in {timer, NoTimer}, UNCHANGED <<machine, events, overdue, answer, forgone, left>>
    PROVE  MachineInv'
<1>1. SharpTypes /\ NoTimer \in Timer
  BY DEF MachineInv, NoTimer, Timer
<1>2. CASE Begin(x, "timeout") /\ machine.current = s
  <2>1. /\ lock' = x /\ call' \in [Calls -> CallRecord]
        /\ \A y \in Calls : (KnowsItsWay(call[y]) /\ KnowsTheMachine(call[y]))'
    BY <1>2, BeginsSound, MachineAssumption
  <2>2. SharpTypes'
    BY <1>1, <2>1 DEF SharpTypes
  <2> QED
    BY <2>1, <2>2, OtherKeeps
<1>3. CASE UNCHANGED <<lock, call>>
  <2>1. SharpTypes'
    BY <1>1, <1>3 DEF SharpTypes
  <2>2. \A y \in Calls : (KnowsItsWay(call[y]) /\ KnowsTheMachine(call[y]))'
    BY <1>3 DEF MachineInv, KnowsItsWay, KnowsTheMachine
  <2> QED
    BY <2>1, <2>2, OtherKeeps
<1> QED
  BY <1>2, <1>3 DEF FireTimeout

(* The heartbeat and the lock's expiry mark a call. *)
LEMMA MarkKeeps ==
    ASSUME MachineInv, NEW x \in Calls, NEW c,
           c \in {[call[x] EXCEPT !.expired = TRUE], [call[x] EXCEPT !.lost = TRUE]},
           call' = [call EXCEPT ![x] = c], lock' \in {lock, NoCall},
           left' \in [sends : Nat, expiries : 0 .. MaxExpiries],
           UNCHANGED <<machine, events, overdue, timer, answer, forgone>>
    PROVE  MachineInv'
<1>1. call[x] \in CallRecord /\ KnowsItsWay(call[x]) /\ KnowsTheMachine(call[x]) /\ SharpTypes
  BY DEF MachineInv, SharpTypes
<1>2. c \in CallRecord /\ KnowsItsWay(c) /\ KnowsTheMachine(c)
  BY <1>1 DEF CallRecord, KnowsItsWay, KnowsTheMachine
<1>3. /\ call' \in [Calls -> CallRecord]
      /\ \A y \in Calls : (KnowsItsWay(call[y]) /\ KnowsTheMachine(call[y]))'
  BY <1>2, OneCall
<1>4. SharpTypes'
  BY <1>1, <1>3 DEF SharpTypes
<1> QED
  BY <1>3, <1>4, OtherKeeps

(* Every step keeps the invariant. *)
LEMMA MachineStep == MachineInv /\ [Next]_vars => MachineInv'
<1> SUFFICES ASSUME MachineInv, [Next]_vars PROVE MachineInv'
  OBVIOUS
<1>1. SharpTypes /\ call \in [Calls -> CallRecord]
  BY DEF MachineInv, SharpTypes
<1>2. ASSUME NEW x \in Calls, NEW e \in Events, Send(x, e) PROVE MachineInv'
  BY <1>2, SendKeeps
<1>3. ASSUME NEW x \in Calls, CallStep(x) PROVE MachineInv'
  <2>1. CASE ExitFails(x)
    BY <2>1, ThrowsKeeps DEF ExitFails, Answers
  <2>2. CASE Refused(x)
    BY <2>2, ThrowsKeeps DEF Refused, Answers
  <2>3. CASE EnterReturns(x)
    BY <2>3, EndsKeeps DEF EnterReturns, Answers
  <2>4. CASE EnterFails(x)
    BY <2>4, ThrowsKeeps DEF EnterFails, Answers
  <2> QED
    BY <1>3, <2>1, <2>2, <2>3, <2>4, SendDecidesKeeps, TimeoutDecidesKeeps, SaveKeeps DEF CallStep
<1>4. ASSUME NEW x \in Calls, TimerGoesOff(x) PROVE MachineInv'
  <2>1. timer.state \in Timed
    BY <1>1, <1>4 DEF TimerGoesOff, SharpTypes
  <2> QED
    BY <1>4, <2>1, FireKeeps DEF TimerGoesOff
<1>5. ASSUME NEW x \in Calls, CheckTimeouts(x) PROVE MachineInv'
  BY <1>5, FireKeeps DEF CheckTimeouts
<1>6. ASSUME NEW x \in Calls, HeartbeatFails(x) PROVE MachineInv'
  <2>1. call' = [call EXCEPT ![x] = [call[x] EXCEPT !.lost = TRUE]]
    BY <1>1, <1>6 DEF HeartbeatFails
  <2> QED
    BY <1>1, <1>6, <2>1, MarkKeeps DEF HeartbeatFails, SharpTypes
<1>7. ASSUME TimePasses PROVE MachineInv'
  <2>1. SharpTypes'
    BY <1>1, <1>7 DEF SharpTypes, TimePasses
  <2>2. \A y \in Calls : (KnowsItsWay(call[y]) /\ KnowsTheMachine(call[y]))'
    BY <1>7 DEF MachineInv, KnowsItsWay, KnowsTheMachine, TimePasses
  <2> QED
    BY <1>7, <2>1, <2>2, OtherKeeps DEF TimePasses
<1>8. ASSUME LockExpires PROVE MachineInv'
  <2>1. lock \in Calls /\ left.expiries > 0
    BY <1>1, <1>8 DEF LockExpires, SharpTypes
  <2>2. call' = [call EXCEPT ![lock] = [call[lock] EXCEPT !.expired = TRUE]]
    BY <1>1, <1>8, <2>1 DEF LockExpires
  <2>3. left' \in [sends : Nat, expiries : 0 .. MaxExpiries]
    <3> DEFINE n == left.expiries - 1
    <3>1. n \in 0 .. MaxExpiries /\ left' = [left EXCEPT !.expiries = n]
      BY <1>1, <1>8, <2>1, MachineAssumption DEF SharpTypes, LockExpires
    <3> HIDE DEF n
    <3> QED
      BY <1>1, <3>1 DEF SharpTypes
  <2> QED
    BY <1>8, <2>1, <2>2, <2>3, MarkKeeps DEF LockExpires
<1>9. ASSUME UNCHANGED vars PROVE MachineInv'
  <2>1. SharpTypes'
    BY <1>1, <1>9 DEF SharpTypes, vars
  <2>2. \A y \in Calls : (KnowsItsWay(call[y]) /\ KnowsTheMachine(call[y]))'
    BY <1>9 DEF MachineInv, KnowsItsWay, KnowsTheMachine, vars
  <2> QED
    BY <1>9, <2>1, <2>2, OtherKeeps DEF vars
<1> QED
  BY <1>2, <1>3, <1>4, <1>5, <1>6, <1>7, <1>8, <1>9 DEF Next

(* state-machine.ts, state-machine-storage.ts: the invariant holds at every  *)
(* step of every machine.                                                  *)
THEOREM MachineInvariant == Spec => []MachineInv
BY MachineInitial, MachineStep, PTL DEF Spec

(* storage.transition: no save overwrites another's.  For any machine, any  *)
(* number of overlapping calls and any locks that expire under them, the   *)
(* history is a path of the machine, and the context has every send of it. *)
THEOREM NoUpdateIsLost == Spec => []NoLostUpdate
<1>1. MachineInv => NoLostUpdate
  <2> SUFFICES ASSUME MachineInv PROVE NoLostUpdate
    OBVIOUS
  <2>1. SharpTypes /\ HistoryIsWhole
    BY DEF MachineInv
  <2>2. \A i \in DOMAIN events : events[i].from \in States /\ events[i].to \in States
    <3>1. \A i \in DOMAIN events : events[i] \in Entry
      BY <2>1 DEF SharpTypes
    <3> QED
      BY <3>1 DEF Entry
  <2>3. \A x \in Calls : call[x].pc \in {"idle", "decide", "exit", "enter"}
    BY <2>1 DEF SharpTypes, CallRecord
  <2>4. timer = NoTimer \/ (timer.state \in Timed /\ timer.visit \in Nat)
    BY <2>1 DEF SharpTypes, Timer
  <2>5. TypeOK
    BY <2>1, <2>2, <2>3, <2>4 DEF SharpTypes, TypeOK, Answers
  <2> QED
    BY <2>1, <2>5 DEF HistoryIsWhole, NoLostUpdate, Sends
<1> QED
  BY <1>1, MachineInvariant, PTL

-----------------------------------------------------------------------------
(* executeTransition: whatever a call's hooks and saves did and however     *)
(* often it was retried, its caller learns whether the transition is saved. *)
THEOREM CallersLearnTheOutcome == Spec => AnswersTruly
<1> DEFINE Truly == \A x \in Calls : call[x].pc # "idle" /\ call'[x].pc = "idle" =>
                        (call[x].committed <=> answer' \in {"none", "enter"})
<1>1. MachineInv /\ [Next]_vars => [Truly]_vars
  <2> SUFFICES ASSUME MachineInv, Next, NEW x \in Calls,
                      call[x].pc # "idle", call'[x].pc = "idle"
               PROVE  call[x].committed <=> answer' \in {"none", "enter"}
    OBVIOUS
  <2>1. call \in [Calls -> CallRecord] /\ \A y \in Calls : KnowsItsWay(call[y])
    BY DEF MachineInv, SharpTypes
  <2>2. ASSUME NEW y \in Calls, NEW c \in CallRecord, c.pc # "idle", call' = [call EXCEPT ![y] = c]
        PROVE  FALSE
    BY <2>1, <2>2
  <2>3. ASSUME NEW y \in Calls, NEW e, Ends(y, e) PROVE y = x /\ answer' = e
    BY <2>1, <2>3 DEF Ends
  <2>4. ASSUME NEW y \in Calls, call[y].pc \in {"exit", "enter"}, NEW e, Throws(y, e)
        PROVE  y = x /\ answer' = e
    <3>1. CASE call[y].tries = 0
      BY <2>3, <2>4, <3>1 DEF Throws
    <3>2. CASE call[y].tries # 0
      <4>1. call' = [call EXCEPT ![y] = [call[y] EXCEPT !.pc = RestartsAt(call[y]), !.tries = @ - 1]]
        BY <2>4, <3>2 DEF Throws, GoesOn
      <4>2. RestartsAt(call[y]) # "idle"
        BY DEF RestartsAt
      <4>3. call'[x].pc # "idle"
        BY <2>1, <4>1, <4>2 DEF CallRecord
      <4> QED
        BY <4>3
    <3> QED
      BY <3>1, <3>2
  <2>5. ASSUME NEW y \in Calls, CallStep(y) PROVE call[x].committed <=> answer' \in {"none", "enter"}
    <3>1. CASE SendDecides(y)
      <4>1. Ends(y, "rejected") /\ call[y].pc = "decide"
        BY <2>1, <3>1 DEF SendDecides, Decides, GoesOn, CallRecord
      <4>2. y = x /\ answer' = "rejected"
        BY <2>3, <4>1
      <4>3. ~ call[x].committed
        BY <2>1, <4>1, <4>2 DEF KnowsItsWay
      <4> QED
        BY <4>2, <4>3
    <3>2. CASE TimeoutDecides(y)
      <4>1. Ends(y, "rejected") /\ call[y].pc = "decide"
        BY <2>1, <3>2 DEF TimeoutDecides, Decides, GoesOn, CallRecord
      <4>2. y = x /\ answer' = "rejected"
        BY <2>3, <4>1
      <4>3. ~ call[x].committed
        BY <2>1, <4>1, <4>2 DEF KnowsItsWay
      <4> QED
        BY <4>2, <4>3
    <3>3. CASE ExitFails(y)
      BY <2>1, <2>4, <3>3 DEF ExitFails, KnowsItsWay
    <3>4. CASE Refused(y)
      <4>1. y = x /\ answer' \in {"lost", "conflict"} /\ call[y].pc = "exit"
        BY <2>4, <3>4 DEF Refused
      <4>2. ~ call[x].committed
        BY <2>1, <4>1 DEF KnowsItsWay
      <4> QED
        BY <4>1, <4>2
    <3>5. CASE Save(y)
      BY <2>1, <3>5 DEF Save, CallRecord
    <3>6. CASE EnterReturns(y)
      BY <2>1, <2>3, <3>6 DEF EnterReturns, KnowsItsWay
    <3>7. CASE EnterFails(y)
      BY <2>1, <2>4, <3>7 DEF EnterFails, KnowsItsWay
    <3> QED
      BY <2>5, <3>1, <3>2, <3>3, <3>4, <3>5, <3>6, <3>7 DEF CallStep
  <2>6. ASSUME NEW y \in Calls, NEW e, Begin(y, e) PROVE FALSE
    <3>1. Idle \in CallRecord
      BY IdleType
    <3> QED
      BY <2>1, <2>6, <3>1 DEF Begin, CallRecord
  <2>7. ASSUME NEW y \in Calls, TimerGoesOff(y) \/ CheckTimeouts(y) PROVE FALSE
    BY <2>6, <2>7 DEF TimerGoesOff, CheckTimeouts, FireTimeout
  <2>8. ASSUME NEW y \in Calls, HeartbeatFails(y) PROVE FALSE
    BY <2>1, <2>8 DEF HeartbeatFails, CallRecord
  <2>9. ASSUME LockExpires PROVE FALSE
    BY <2>1, <2>9 DEF LockExpires, CallRecord
  <2> QED
    BY <2>5, <2>6, <2>7, <2>8, <2>9 DEF Next, Send, TimePasses
<1> QED
  BY <1>1, MachineInvariant, PTL DEF Spec, AnswersTruly

-----------------------------------------------------------------------------
(* A timer counts the visit the machine is in. *)
ForThisVisit(t) == t = NoTimer \/ t.visit = machine.revision

(* A call that holds the lock, as long as no lock has expired. *)
HoldsOn(x) ==
    /\ call[x].pc # "idle" <=> lock = x
    /\ call[x].pc \in {"decide", "exit"} =>
         /\ call[x].revision = machine.revision
         /\ ForThisVisit(call[x].pending) /\ ForThisVisit(timer)
         /\ call[x].event = "timeout" => overdue
    /\ call[x].pc = "enter" => call[x].revision + 1 = machine.revision

NoneEarly == \A i \in DOMAIN events : events[i].event = "timeout" => ~events[i].early

(* While no lock has expired, the one call under way holds the lock, the    *)
(* armed timer counts the present visit, and a firing under way is due.    *)
OnTime ==
    left.expiries = MaxExpiries =>
        /\ \A x \in Calls : HoldsOn(x)
        /\ lock = NoCall => ForThisVisit(timer)
        /\ NoneEarly

(* start() arms the timer for the first visit. *)
LEMMA OnTimeFirst == Init => OnTime
<1> SUFFICES ASSUME Init PROVE OnTime
  OBVIOUS
<1>1. \A x \in Calls : HoldsOn(x)
  BY MachineAssumption DEF Init, HoldsOn, Idle
<1>2. ForThisVisit(timer)
  BY DEF Init, ForThisVisit, Armed
<1>3. NoneEarly
  BY DEF Init, NoneEarly
<1> QED
  BY <1>1, <1>2, <1>3 DEF OnTime

(* The end of a call arms the timer for the visit the machine is then in. *)
LEMMA EndsOnTime ==
    ASSUME MachineInv, OnTime, NEW x \in Calls, call[x].pc # "idle", NEW e, Ends(x, e),
           UNCHANGED <<machine, events, overdue, left>>
    PROVE  OnTime'
<1> SUFFICES ASSUME left.expiries = MaxExpiries
             PROVE  (/\ \A y \in Calls : HoldsOn(y)
                     /\ lock = NoCall => ForThisVisit(timer)
                     /\ NoneEarly)'
  BY DEF OnTime
<1>1. /\ \A y \in Calls : HoldsOn(y)
      /\ NoneEarly /\ call \in [Calls -> CallRecord] /\ KnowsItsWay(call[x])
  BY DEF OnTime, MachineInv, SharpTypes
<1>2. /\ lock = x /\ lock' = NoCall /\ timer' = TimerAfter(call[x])
      /\ call' = [call EXCEPT ![x] = Idle]
  BY <1>1 DEF HoldsOn, Ends, Releases
<1>3. \A y \in Calls : call'[y].pc = "idle"
  BY <1>1, <1>2 DEF HoldsOn, Idle
<1>4. \A y \in Calls : HoldsOn(y)'
  BY <1>2, <1>3, MachineAssumption DEF HoldsOn
<1>5. ForThisVisit(timer')
  <2>1. CASE call[x].pc = "enter"
    <3>1. call[x].committed /\ call[x].revision + 1 = machine.revision
      BY <1>1, <2>1 DEF KnowsItsWay, HoldsOn
    <3> QED
      BY <1>2, <3>1 DEF TimerAfter, Armed, ForThisVisit
  <2>2. CASE call[x].pc \in {"decide", "exit"}
    <3>1. /\ ~ call[x].committed /\ call[x].revision = machine.revision
          /\ ForThisVisit(call[x].pending) /\ ForThisVisit(timer)
      BY <1>1, <2>2 DEF KnowsItsWay, HoldsOn
    <3> QED
      BY <1>2, <3>1 DEF TimerAfter, RearmsTimer, Armed, ForThisVisit
  <2> QED
    BY <1>1, <2>1, <2>2 DEF CallRecord
<1> QED
  BY <1>1, <1>4, <1>5 DEF NoneEarly, ForThisVisit

(* So does a call that goes on. *)
LEMMA GoesOnOnTime ==
    ASSUME MachineInv, OnTime, NEW x \in Calls, call[x].pc # "idle", NEW c \in CallRecord,
           GoesOn(x, c), UNCHANGED <<machine, events, overdue, left>>,
           c.revision = call[x].revision, c.pending = call[x].pending, c.event = call[x].event,
           \/ c.pc \in {"decide", "exit"} /\ call[x].pc \in {"decide", "exit"}
           \/ c.pc = "enter" /\ call[x].pc = "enter"
    PROVE  OnTime'
<1> SUFFICES ASSUME left.expiries = MaxExpiries
             PROVE  (/\ \A y \in Calls : HoldsOn(y)
                     /\ lock = NoCall => ForThisVisit(timer)
                     /\ NoneEarly)'
  BY DEF OnTime
<1>1. /\ \A y \in Calls : HoldsOn(y)
      /\ lock = NoCall => ForThisVisit(timer)
      /\ NoneEarly /\ call \in [Calls -> CallRecord]
  BY DEF OnTime, MachineInv, SharpTypes
<1>2. call' = [call EXCEPT ![x] = c] /\ lock' = lock /\ timer' = timer
  BY DEF GoesOn
<1>3. ASSUME NEW y \in Calls PROVE HoldsOn(y)'
  <2>1. CASE y = x
    <3>1. call'[y] = c /\ HoldsOn(x)
      BY <1>1, <1>2, <2>1
    <3> QED
      BY <1>2, <2>1, <3>1 DEF HoldsOn, ForThisVisit
  <2>2. CASE y # x
    <3>1. call'[y] = call[y] /\ HoldsOn(y)
      BY <1>1, <1>2, <2>2
    <3> QED
      BY <1>2, <3>1 DEF HoldsOn, ForThisVisit
  <2> QED
    BY <2>1, <2>2
<1> QED
  BY <1>1, <1>2, <1>3 DEF NoneEarly, ForThisVisit

(* fireTimeout begins only where the timeout is due. *)
LEMMA BeginsOnTime ==
    ASSUME MachineInv, OnTime, NEW x \in Calls, NEW e, lock = NoCall, Begin(x, e),
           e = "timeout" => (overdue \/ left.expiries # MaxExpiries),
           timer' \in {timer, NoTimer}, left'.expiries = left.expiries,
           UNCHANGED <<machine, events, overdue>>
    PROVE  OnTime'
<1> SUFFICES ASSUME left.expiries = MaxExpiries
             PROVE  (/\ \A y \in Calls : HoldsOn(y)
                     /\ lock = NoCall => ForThisVisit(timer)
                     /\ NoneEarly)'
  BY DEF OnTime
<1> DEFINE c == [Idle EXCEPT !.pc = "decide", !.event = e, !.from = machine.current,
                             !.revision = machine.revision, !.context = machine.context,
                             !.pending = timer, !.tries = Retries]
<1>1. /\ \A y \in Calls : HoldsOn(y)
      /\ ForThisVisit(timer) /\ NoneEarly /\ call \in [Calls -> CallRecord]
  BY DEF OnTime, MachineInv, SharpTypes
<1>2. lock' = x /\ call' = [call EXCEPT ![x] = c]
  BY DEF Begin
<1>3. c.pc = "decide" /\ c.event = e /\ c.revision = machine.revision /\ c.pending = timer
  BY DEF Idle
<1> HIDE DEF c
<1>4. ForThisVisit(timer')
  BY <1>1 DEF ForThisVisit
<1>5. ASSUME NEW y \in Calls PROVE HoldsOn(y)'
  <2>1. CASE y = x
    <3>1. call'[y] = c
      BY <1>1, <1>2, <2>1
    <3> QED
      BY <1>1, <1>2, <1>3, <1>4, <2>1, <3>1 DEF HoldsOn, ForThisVisit
  <2>2. CASE y # x
    <3>1. call'[y] = call[y] /\ call[y].pc = "idle"
      BY <1>1, <1>2, <2>2, MachineAssumption DEF HoldsOn
    <3> QED
      BY <1>2, <2>2, <3>1 DEF HoldsOn
  <2> QED
    BY <2>1, <2>2
<1> QED
  BY <1>1, <1>2, <1>5, MachineAssumption DEF NoneEarly

(* storage.transition: a timeout is saved while it is still due. *)
LEMMA SaveOnTime ==
    ASSUME MachineInv, OnTime, NEW x \in Calls, Save(x)
    PROVE  OnTime'
<1> SUFFICES ASSUME left.expiries = MaxExpiries
             PROVE  (/\ \A y \in Calls : HoldsOn(y)
                     /\ lock = NoCall => ForThisVisit(timer)
                     /\ NoneEarly)'
  BY DEF OnTime, Save
<1> DEFINE e == [event |-> call[x].event, from |-> call[x].from, to |-> call[x].to,
                 early |-> ~overdue]
<1>1. /\ \A y \in Calls : HoldsOn(y)
      /\ NoneEarly /\ call \in [Calls -> CallRecord] /\ events \in Seq(Entry)
      /\ machine.revision \in Nat /\ KnowsItsWay(call[x]) /\ overdue \in BOOLEAN
  BY DEF OnTime, MachineInv, SharpTypes
<1>2. /\ call[x].pc = "exit" /\ machine'.revision = machine.revision + 1
      /\ events' = Append(events, e)
      /\ call' = [call EXCEPT ![x].pc = "enter", ![x].committed = TRUE]
      /\ lock' = lock
  BY DEF Save
<1>3. /\ lock = x /\ call[x].revision = machine.revision
      /\ call[x].event = "timeout" => overdue
  BY <1>1, <1>2 DEF HoldsOn
<1>4. ASSUME NEW y \in Calls PROVE HoldsOn(y)'
  <2>1. CASE y = x
    <3>1. call'[y].pc = "enter" /\ call'[y].revision = machine.revision
      BY <1>1, <1>2, <1>3, <2>1 DEF CallRecord
    <3> QED
      BY <1>1, <1>2, <1>3, <2>1, <3>1 DEF HoldsOn
  <2>2. CASE y # x
    <3>1. call'[y] = call[y] /\ call[y].pc = "idle"
      BY <1>1, <1>2, <1>3, <2>2 DEF HoldsOn
    <3> QED
      BY <1>2, <1>3, <2>2, <3>1 DEF HoldsOn
  <2> QED
    BY <2>1, <2>2
<1>5. NoneEarly'
  <2>1. e \in Entry /\ (e.event = "timeout" => ~ e.early)
    BY <1>1, <1>2, <1>3 DEF Entry, KnowsItsWay
  <2> HIDE DEF e
  <2>2. /\ DOMAIN events' = 1 .. Len(events) + 1 /\ DOMAIN events = 1 .. Len(events)
        /\ Len(events) \in Nat /\ events'[Len(events) + 1] = e
        /\ \A i \in 1 .. Len(events) : events'[i] = events[i]
    BY <1>1, <1>2, <2>1
  <2> SUFFICES ASSUME NEW i \in 1 .. Len(events) + 1, events'[i].event = "timeout"
               PROVE  ~ events'[i].early
    BY <2>2 DEF NoneEarly
  <2>3. CASE i = Len(events) + 1
    BY <2>1, <2>2, <2>3
  <2>4. CASE i \in 1 .. Len(events)
    BY <1>1, <2>2, <2>4 DEF NoneEarly
  <2> QED
    BY <2>2, <2>3, <2>4
<1> QED
  BY <1>2, <1>3, <1>4, <1>5, MachineAssumption

(* A throw ends the call or lets it go on. *)
LEMMA ThrowsOnTime ==
    ASSUME MachineInv, OnTime, NEW x \in Calls, call[x].pc \in {"exit", "enter"}, NEW e,
           Throws(x, e), UNCHANGED <<machine, events, overdue, left>>
    PROVE  OnTime'
<1>1. CASE call[x].tries = 0
  BY <1>1, EndsOnTime DEF Throws
<1>2. CASE call[x].tries # 0
  <2> DEFINE n == call[x].tries - 1
             c == [call[x] EXCEPT !.pc = RestartsAt(call[x]), !.tries = n]
  <2>1. call[x] \in CallRecord /\ KnowsItsWay(call[x])
    BY DEF MachineInv, SharpTypes
  <2>2. RestartsAt(call[x]) = call[x].pc
    BY <2>1 DEF RestartsAt, KnowsItsWay
  <2>3. GoesOn(x, c)
    BY <1>2 DEF Throws
  <2>4. n \in Nat
    BY <1>2, <2>1 DEF CallRecord
  <2> HIDE DEF n
  <2>5. /\ c \in CallRecord /\ c.revision = call[x].revision /\ c.pending = call[x].pending
        /\ c.event = call[x].event /\ c.pc = call[x].pc
    BY <2>1, <2>2, <2>4 DEF CallRecord
  <2> HIDE DEF c
  <2>6. \/ c.pc \in {"decide", "exit"} /\ call[x].pc \in {"decide", "exit"}
        \/ c.pc = "enter" /\ call[x].pc = "enter"
    BY <2>5
  <2>7. call[x].pc # "idle"
    OBVIOUS
  <2> QED
    BY <2>3, <2>5, <2>6, <2>7, GoesOnOnTime
<1> QED
  BY <1>1, <1>2

(* The decision to go on leaves the visit as it is. *)
LEMMA DecidesOnTime ==
    ASSUME MachineInv, OnTime, NEW x \in Calls, call[x].pc = "decide", NEW to \in States, NEW n \in Nat,
           Decides(x, to, n), UNCHANGED <<machine, events, overdue, left>>
    PROVE  OnTime'
<1> DEFINE c == [call[x] EXCEPT !.pc = "exit", !.to = to, !.context = n]
<1>1. call[x] \in CallRecord /\ GoesOn(x, c)
  BY DEF MachineInv, SharpTypes, Decides
<1>2. /\ c \in CallRecord /\ c.revision = call[x].revision /\ c.pending = call[x].pending
      /\ c.event = call[x].event /\ c.pc = "exit"
  BY <1>1 DEF CallRecord
<1> HIDE DEF c
<1>3. c.pc \in {"decide", "exit"} /\ call[x].pc \in {"decide", "exit"} /\ call[x].pc # "idle"
  BY <1>2
<1> QED
  BY <1>1, <1>2, <1>3, GoesOnOnTime

(* The guard and the action of a send, *)
LEMMA SendDecidesOnTime ==
    ASSUME MachineInv, OnTime, NEW x \in Calls, SendDecides(x)
    PROVE  OnTime'
<1>1. /\ call[x].pc = "decide" /\ call[x].event # "timeout"
      /\ UNCHANGED <<machine, events, overdue, left>>
  BY DEF SendDecides
<1>2. /\ call[x].event \in Events /\ <<call[x].from, call[x].event>> \in DOMAIN To
      /\ call[x].context + 1 \in Nat
  BY <1>1 DEF MachineInv, KnowsItsWay, SharpTypes, CallRecord
<1>3. To[<<call[x].from, call[x].event>>] \in States
  BY <1>2, MachineAssumption
<1>4. OnError[call[x].event] # NoState => OnError[call[x].event] \in States
  BY <1>2, MachineAssumption
<1> QED
  BY <1>1, <1>2, <1>3, <1>4, DecidesOnTime, EndsOnTime DEF SendDecides

(* and the guard of a timeout. *)
LEMMA TimeoutDecidesOnTime ==
    ASSUME MachineInv, OnTime, NEW x \in Calls, TimeoutDecides(x)
    PROVE  OnTime'
<1>1. /\ call[x].pc = "decide" /\ call[x].event = "timeout"
      /\ UNCHANGED <<machine, events, overdue, left>>
  BY DEF TimeoutDecides
<1>2. TimeoutTarget[call[x].from] \in States /\ call[x].context \in Nat
  BY <1>1, MachineAssumption DEF MachineInv, KnowsItsWay, Timed, SharpTypes, CallRecord
<1> QED
  BY <1>1, <1>2, DecidesOnTime, EndsOnTime DEF TimeoutDecides

(* Every step keeps the timers to their visit. *)
LEMMA OnTimeStep == MachineInv /\ OnTime /\ [Next]_vars => OnTime'
<1> SUFFICES ASSUME MachineInv, OnTime, [Next]_vars PROVE OnTime'
  OBVIOUS
<1>1. call \in [Calls -> CallRecord] /\ SharpTypes
  BY DEF MachineInv, SharpTypes
<1>2. ASSUME NEW x \in Calls, NEW e \in Events, Send(x, e) PROVE OnTime'
  <2>1. left'.expiries = left.expiries /\ e # "timeout"
    BY <1>1, <1>2, MachineAssumption DEF Send, SharpTypes
  <2> QED
    BY <1>2, <2>1, BeginsOnTime DEF Send
<1>3. ASSUME NEW x \in Calls, CallStep(x) PROVE OnTime'
  <2>1. CASE ExitFails(x)
    BY <2>1, ThrowsOnTime DEF ExitFails
  <2>2. CASE Refused(x)
    BY <2>2, ThrowsOnTime DEF Refused
  <2>3. CASE EnterReturns(x)
    BY <2>3, EndsOnTime DEF EnterReturns
  <2>4. CASE EnterFails(x)
    BY <2>4, ThrowsOnTime DEF EnterFails
  <2> QED
    BY <1>3, <2>1, <2>2, <2>3, <2>4, SendDecidesOnTime, TimeoutDecidesOnTime, SaveOnTime DEF CallStep
<1>4. ASSUME UNCHANGED <<machine, events, overdue, lock, call, left>>, timer' \in {timer, NoTimer}
      PROVE  OnTime'
  BY <1>4 DEF OnTime, HoldsOn, ForThisVisit, NoneEarly
<1>5. ASSUME NEW x \in Calls, TimerGoesOff(x) PROVE OnTime'
  <2>1. CASE lock = NoCall /\ machine.current = timer.state
    <3>1. overdue \/ left.expiries # MaxExpiries
      BY <1>5, <2>1 DEF OnTime, ForThisVisit, TimerGoesOff
    <3> QED
      BY <1>5, <2>1, <3>1, BeginsOnTime DEF TimerGoesOff, FireTimeout
  <2>2. CASE ~(lock = NoCall /\ machine.current = timer.state)
    BY <1>4, <1>5, <2>2 DEF TimerGoesOff, FireTimeout
  <2> QED
    BY <2>1, <2>2
<1>6. ASSUME NEW x \in Calls, CheckTimeouts(x) PROVE OnTime'
  BY <1>6, BeginsOnTime DEF CheckTimeouts, FireTimeout
<1>7. ASSUME NEW x \in Calls, HeartbeatFails(x) PROVE OnTime'
  BY <1>7 DEF HeartbeatFails, OnTime, HoldsOn
<1>8. ASSUME TimePasses PROVE OnTime'
  BY <1>8 DEF TimePasses, OnTime, HoldsOn, ForThisVisit, NoneEarly
<1>9. ASSUME LockExpires PROVE OnTime'
  <2>1. left'.expiries = left.expiries - 1 /\ left.expiries \in 0 .. MaxExpiries
    BY <1>1, <1>9 DEF LockExpires, SharpTypes
  <2>2. left'.expiries # MaxExpiries
    BY <2>1, MachineAssumption
  <2> QED
    BY <2>2 DEF OnTime
<1>10. ASSUME UNCHANGED vars PROVE OnTime'
  BY <1>4, <1>10 DEF vars
<1> QED
  BY <1>2, <1>3, <1>5, <1>6, <1>7, <1>8, <1>9, <1>10 DEF Next

(* fireTimeout: as long as no lock expires under its holder, a state's      *)
(* timeout leads on only after the machine was in the state for that long, *)
(* though an old timer may go off at any moment of a later visit.          *)
THEOREM TimeoutsAreDue == Spec => []TimeoutIsDue
<1>1. OnTime => TimeoutIsDue
  BY DEF OnTime, TimeoutIsDue, NoneEarly
<1> QED
  BY <1>1, OnTimeFirst, OnTimeStep, MachineInvariant, PTL DEF Spec
===============================================================================
