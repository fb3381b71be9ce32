--------------------------- MODULE SchedulerProofs ---------------------------
(***************************************************************************)
(* The scheduler, for any instances, schedules, intervals, catch-up and    *)
(* jitter, and any number of faults and operator calls.                    *)
(*                                                                         *)
(* The first part is about LeaderLease alone, for any client of it. The    *)
(* loops take only its steps, so what is shown of the lease holds of it    *)
(* here. The tick log is gapless and in order because a plan that still    *)
(* passes commitPoll's compare-and-set was made from the row as it is: its *)
(* numbers go on where the row stands, and its times are at or after the   *)
(* row's last fire.                                                        *)
(***************************************************************************)
EXTENDS Scheduler, TLAPS

-----------------------------------------------------------------------------
(* The leader lease, for any number of instances, any lease duration and   *)
(* any length of time.                                                     *)

(* What makes the epoch a name for one leadership: no lease was handed out *)
(* beyond the record's epoch, the ones under it belong to the record's     *)
(* holder while it has one, and no accepted write is ahead of it.          *)
NoLeaseAhead == \A l \in granted : l[2] <= leader.epoch

HolderHasItsEpoch ==
    \A l \in granted : l[2] = leader.epoch /\ leader.instanceId # NoOne
                         => l[1] = leader.instanceId

LeaseInv ==
    /\ LeaseTypeOK
    /\ leader.instanceId # NoOne => leader.epoch # 0
    /\ NoLeaseAhead
    /\ HolderHasItsEpoch
    /\ EpochHasOneOwner
    /\ written <= leader.epoch

(* No lease exists yet. *)
LEMMA LeaseInitial == LeaseInit => LeaseInv
  BY DEF LeaseInit, LeaseInv, LeaseTypeOK, LeaseRecord, NoLeaseAhead, HolderHasItsEpoch,
         EpochHasOneOwner

(* The types of the parts of a state of the invariant. *)
LEMMA LeaseParts ==
  ASSUME LeaseInv
  PROVE  /\ now \in Nat /\ written \in Nat
         /\ leader.epoch \in Nat /\ leader.expiresAt \in Nat
         /\ leader.instanceId \in Instances \cup {NoOne}
         /\ \A l \in granted : l[1] \in Instances /\ l[2] \in Nat /\ l[2] # 0
  BY DEF LeaseInv, LeaseTypeOK, LeaseRecord

(* acquire: a refresh repeats a lease its holder has, every other          *)
(* acquisition opens an epoch nobody was given before.                     *)
LEMMA AcquireKeepsInv ==
  ASSUME LeaseInv, NEW i \in Instances, Acquire(i)
  PROVE  LeaseInv'
<1> USE NoOneAssumption, LeaseAssumption
<1> DEFINE e == NextEpoch
<1>1. /\ leader' = [instanceId |-> i, epoch |-> e, expiresAt |-> now + Ttl]
      /\ granted' = granted \cup {<<i, e>>}
      /\ now' = now /\ written' = written
  BY DEF Acquire
<1>2. /\ e \in Nat /\ e # 0 /\ leader.epoch <= e
      /\ \/ e = leader.epoch /\ leader.instanceId = i
         \/ e > leader.epoch
  <2>1. CASE Live
    BY <2>1, LeaseParts DEF Acquire, CanLead, Live, NextEpoch, LeaseInv
  <2>2. CASE ~Live
    BY <2>2, LeaseParts DEF NextEpoch
  <2> QED  BY <2>1, <2>2
<1> HIDE DEF e
<1>3. leader'.epoch = e /\ leader'.instanceId = i
  BY <1>1
<1>4. LeaseTypeOK'
  <2>1. leader' \in LeaseRecord
    BY <1>1, <1>2, LeaseParts DEF LeaseRecord
  <2>2. granted' \subseteq Instances \X (Nat \ {0})
    BY <1>1, <1>2 DEF LeaseInv, LeaseTypeOK
  <2> QED  BY <1>1, <2>1, <2>2, LeaseParts DEF LeaseTypeOK
<1>5. NoLeaseAhead'
  <2> SUFFICES ASSUME NEW l \in granted'
               PROVE  l[2] <= e
    BY <1>3 DEF NoLeaseAhead
  <2>1. CASE l \in granted
    BY <2>1, <1>2, LeaseParts DEF LeaseInv, NoLeaseAhead
  <2>2. CASE l = <<i, e>>
    BY <2>2, <1>2
  <2> QED  BY <1>1, <2>1, <2>2
<1>6. \A l \in granted : l[2] = e => l[1] = i
  <2> SUFFICES ASSUME NEW l \in granted, l[2] = e
               PROVE  l[1] = i
    OBVIOUS
  <2>1. e <= leader.epoch
    BY LeaseParts DEF LeaseInv, NoLeaseAhead
  <2>2. e = leader.epoch /\ leader.instanceId = i
    BY <2>1, <1>2, LeaseParts
  <2> QED  BY <2>2 DEF LeaseInv, HolderHasItsEpoch
<1>7. HolderHasItsEpoch'
  <2> SUFFICES ASSUME NEW l \in granted', l[2] = e
               PROVE  l[1] = i
    BY <1>3 DEF HolderHasItsEpoch
  <2> QED  BY <1>1, <1>6
<1>8. EpochHasOneOwner'
  <2> SUFFICES ASSUME NEW l \in granted', NEW m \in granted', l[2] = m[2]
               PROVE  l[1] = m[1]
    BY DEF EpochHasOneOwner
  <2>1. CASE l \in granted /\ m \in granted
    BY <2>1 DEF LeaseInv, EpochHasOneOwner
  <2>2. CASE l = <<i, e>> /\ m \in granted
    BY <2>2, <1>6
  <2>3. CASE l \in granted /\ m = <<i, e>>
    BY <2>3, <1>6
  <2>4. CASE l = <<i, e>> /\ m = <<i, e>>
    BY <2>4
  <2> QED  BY <1>1, <2>1, <2>2, <2>3, <2>4
<1>9. written' <= leader'.epoch
  BY <1>1, <1>2, <1>3, LeaseParts DEF LeaseInv
<1> QED  BY <1>2, <1>3, <1>4, <1>5, <1>7, <1>8, <1>9 DEF LeaseInv

(* releaseLeader clears the holder and keeps the epoch. *)
LEMMA ReleaseKeepsInv ==
  ASSUME LeaseInv, NEW i, NEW epoch, ReleaseLeader(i, epoch)
  PROVE  LeaseInv'
<1>1. now' = now /\ granted' = granted /\ written' = written
  BY DEF ReleaseLeader
<1>2. /\ leader' \in LeaseRecord /\ leader'.epoch = leader.epoch
      /\ leader'.instanceId \in {leader.instanceId, NoOne}
  BY LeaseParts DEF ReleaseLeader, LeaseInv, LeaseTypeOK, LeaseRecord
<1> QED  BY <1>1, <1>2 DEF LeaseInv, LeaseTypeOK, NoLeaseAhead, HolderHasItsEpoch, EpochHasOneOwner

(* A fenced write carries the record's own epoch. *)
LEMMA WriteKeepsInv ==
  ASSUME LeaseInv, NEW epoch, FencedWrite(epoch)
  PROVE  LeaseInv' /\ written' >= written
  BY LeaseParts DEF FencedWrite, AssertCurrent, LeaseInv, LeaseTypeOK, NoLeaseAhead,
                    HolderHasItsEpoch, EpochHasOneOwner

(* Time passing changes no epoch. *)
LEMMA TickKeepsInv ==
  ASSUME LeaseInv, Tick
  PROVE  LeaseInv'
  BY LeaseParts DEF Tick, LeaseInv, LeaseTypeOK, NoLeaseAhead, HolderHasItsEpoch, EpochHasOneOwner

(* Every step keeps the invariant and the order of accepted writes. *)
LEMMA LeaseStep ==
  ASSUME LeaseInv, [LeaseNext]_leaseVars
  PROVE  LeaseInv' /\ written' >= written
<1>1. CASE \E i \in Instances : Acquire(i)
  <2>1. written' = written
    BY <1>1 DEF Acquire
  <2> QED  BY <1>1, <2>1, AcquireKeepsInv, LeaseParts
<1>2. CASE \E lease \in granted : ReleaseLeader(lease[1], lease[2])
  <2>1. written' = written
    BY <1>2 DEF ReleaseLeader
  <2> QED  BY <1>2, <2>1, ReleaseKeepsInv, LeaseParts
<1>3. CASE \E lease \in granted : FencedWrite(lease[2])
  BY <1>3, WriteKeepsInv
<1>4. CASE Tick
  <2>1. written' = written
    BY <1>4 DEF Tick
  <2> QED  BY <1>4, <2>1, TickKeepsInv, LeaseParts
<1>5. CASE UNCHANGED leaseVars
  BY <1>5, LeaseParts DEF leaseVars, LeaseInv, LeaseTypeOK, NoLeaseAhead, HolderHasItsEpoch,
                          EpochHasOneOwner
<1> QED  BY <1>1, <1>2, <1>3, <1>4, <1>5 DEF LeaseNext

(* InMemoryLeaderLeases keeps LeaseInv for ever. *)
THEOREM LeaseInvariant == LeaseSpec => []LeaseInv
<1>1. LeaseInv /\ [LeaseNext]_leaseVars => LeaseInv'
  BY LeaseStep
<1> QED  BY LeaseInitial, <1>1, PTL DEF LeaseSpec

(* Types of the lease record and of the leases handed out. *)
THEOREM LeaseTypes == LeaseSpec => []LeaseTypeOK
<1>1. LeaseInv => LeaseTypeOK
  BY DEF LeaseInv
<1> QED  BY LeaseInvariant, <1>1, PTL

(* acquire never gives two instances the same epoch. *)
THEOREM OneOwnerPerEpoch == LeaseSpec => []EpochHasOneOwner
<1>1. LeaseInv => EpochHasOneOwner
  BY DEF LeaseInv
<1> QED  BY LeaseInvariant, <1>1, PTL

(* assertCurrent accepts no write of a leader that was superseded by one   *)
(* whose write it accepted.                                                *)
THEOREM AcceptedWritesInOrder == LeaseSpec => WritesInEpochOrder
<1>1. LeaseInv /\ [LeaseNext]_leaseVars => [written' >= written]_written
  BY LeaseStep
<1> QED  BY LeaseInvariant, <1>1, PTL DEF LeaseSpec, WritesInEpochOrder

-----------------------------------------------------------------------------
(* The shapes of the state. *)

TickType == [schedule : Schedules, incarnation : Nat, tickNumber : Nat, scheduledAt : Nat]
RowType == [incarnation : Nat, enabled : BOOLEAN, interval : {0} \cup Intervals,
            tickCount : Nat, lastFired : Nat]
CommitType == [incarnation : Nat, tickCount : Nat, ticks : Seq(Nat), at : Nat, next : Nat,
               broken : BOOLEAN, guarded : BOOLEAN]

AdminTyped ==
    admin \in [stage : {"idle"}] \cup [stage : {"set"}, id : Schedules, interval : {0} \cup Intervals]
              \cup [stage : {"merged"}, id : Schedules, interval : Intervals, enabled : BOOLEAN]

EmitTyped ==
    emit \in [stage : {"idle"}] \cup [stage : {"retry"}, id : Schedules]
             \cup [stage : {"loaded"}, id : Schedules, row : RowType]
             \cup [stage : {"fired", "record"}, id : Schedules, commit : CommitType]

SchedTyped ==
    /\ sched \in [Schedules -> RowType]
    /\ nextRun \in [Schedules -> Nat]
    /\ inserted \in Nat
    /\ \A s \in Schedules : sched[s].lastFired <= now /\ sched[s].incarnation <= inserted

(* The tick log. *)
LogTyped == log \subseteq [tick : TickType, manual : BOOLEAN]

LogIsBehind ==
    \A l \in log : LET s == l.tick.schedule IN
        /\ Present(s) /\ l.tick.incarnation = sched[s].incarnation
        /\ l.tick.tickNumber < sched[s].tickCount /\ l.tick.scheduledAt <= sched[s].lastFired

LogIsFull ==
    \A s \in Schedules : \A n \in 0 .. (sched[s].tickCount - 1) :
        \E l \in log : l.tick.schedule = s /\ l.tick.tickNumber = n

LogHasOneEach ==
    \A l, m \in log : l.tick.schedule = m.tick.schedule /\ l.tick.tickNumber = m.tick.tickNumber
        => l.tick = m.tick

LogInv == LogTyped /\ LogIsBehind /\ LogIsFull /\ LogHasOneEach /\ FiresInOrder /\ RecordedWasStarted

(* A plan against a row: its times are in order and past, and where the    *)
(* row still stands as it was planned from, at or after the row's last     *)
(* fire.                                                                   *)
TimesInOrder(c) ==
    /\ \A k \in DOMAIN c.ticks : c.ticks[k] <= c.at
    /\ \A j, k \in DOMAIN c.ticks : j <= k => c.ticks[j] <= c.ticks[k]

CommitSound(c, row, time) ==
    /\ c \in CommitType
    /\ c.ticks # <<>> =>
         /\ c.guarded /\ c.at <= time /\ TimesInOrder(c)
         /\ row.incarnation # 0 /\ row.incarnation = c.incarnation /\ row.tickCount = c.tickCount
              => \A k \in DOMAIN c.ticks : row.lastFired <= c.ticks[k]

PlanSound(c, row, time, top) ==
    /\ CommitSound(c, row, time)
    /\ c.ticks # <<>> =>
         /\ c.incarnation <= top
         /\ row.incarnation # 0 /\ row.incarnation = c.incarnation => c.tickCount <= row.tickCount

PlansSound(plans) ==
    /\ plans = [s \in DOMAIN plans |-> plans[s]] /\ DOMAIN plans \subseteq Schedules
    /\ \A s \in DOMAIN plans : PlanSound(plans[s], sched[s], now, inserted)

(* What a poll has in hand. *)
DispatchedSo(p) ==
    \A s \in DOMAIN p.plans \ (p.failed \cup p.skipped) : \A t \in TicksOf(s, p.plans[s]) :
        t \in p.todo \/ \E r \in runs : SameRun(r, t)

FoundSound(p) ==
    p.stage = "found" /\ p \in [stage : {"found"}, epoch : Nat, ids : SUBSET Schedules]
DeliverSound(p) ==
    /\ p.stage = "deliver"
    /\ p \in [stage : {"deliver"}, epoch : {p.epoch}, plans : {p.plans}, todo : {p.todo},
              failed : {p.failed}, skipped : {p.skipped}, lost : {p.lost}]
    /\ PlansSound(p.plans)
    /\ p.failed \subseteq DOMAIN p.plans /\ p.skipped \subseteq DOMAIN p.plans
    /\ \A t \in p.todo : t.schedule \in DOMAIN p.plans
    /\ DispatchedSo(p)
AfterSound(p) ==
    /\ p.stage = "after"
    /\ p \in [stage : {"after"}, epoch : {p.epoch}, broken : {p.broken}, failed : {p.failed}]
    /\ p.broken \subseteq Schedules /\ PlansSound(p.failed)

PollSound(i, p) ==
    \/ p = NoPoll
    \/ (FoundSound(p) \/ DeliverSound(p) \/ AfterSound(p)) /\ <<i, p.epoch>> \in granted

PollsSound ==
    /\ poll = [i \in Instances |-> poll[i]]
    /\ \A i \in Instances : PollSound(i, poll[i])

LoopSound(i, l, given) ==
    /\ l \in [running : {l.running}, held : {l.held}, backoff : {l.backoff}]
    /\ l.held = 0 \/ <<i, l.held>> \in given

LoopsSound ==
    /\ loop = [i \in Instances |-> loop[i]]
    /\ \A i \in Instances : LoopSound(i, loop[i], granted)

SchedulerInv ==
    /\ LeaseInv /\ SchedTyped /\ LogInv /\ AdminTyped /\ EmitTyped /\ PollsSound /\ LoopsSound

-----------------------------------------------------------------------------
(* Planning. *)

(* The larger of two numbers. *)
LEMMA MaxOfTwo ==
    ASSUME NEW a \in Nat, NEW b \in Nat
    PROVE  Max({a, b}) \in Nat /\ Max({a, b}) >= a /\ Max({a, b}) >= b
<1>1. \E x \in {a, b} : \A y \in {a, b} : x >= y
  OBVIOUS
<1> QED
  BY <1>1 DEF Max

(* The smaller one. *)
LEMMA MinOfTwo ==
    ASSUME NEW a \in Nat, NEW b \in Nat
    PROVE  Min({a, b}) \in Nat /\ Min({a, b}) <= a /\ Min({a, b}) <= b
<1>1. \E x \in {a, b} : \A y \in {a, b} : x <= y
  OBVIOUS
<1> QED
  BY <1>1 DEF Min

(* An interval is a number. *)
LEMMA IntervalsAreNumbers ==
    ASSUME NEW i \in {0} \cup Intervals
    PROVE  i \in Nat
BY SchedulerAssumption

(* The occurrences that fit between the last fire and now. *)
LEMMA Occurrences ==
    ASSUME NEW n \in Nat, NEW i \in Nat \ {0}
    PROVE  n \div i \in Nat /\ (n \div i) * i <= n
OBVIOUS

(* Larger multiples are later. *)
LEMMA Multiples ==
    ASSUME NEW a \in Nat, NEW b \in Nat, a <= b, NEW i \in Nat
    PROVE  a * i \in Nat /\ b * i \in Nat /\ a * i <= b * i
OBVIOUS

(* A function over 1..n is a sequence. *)
LEMMA IsASeq ==
    ASSUME NEW n \in Nat, NEW f \in [1..n -> Nat]
    PROVE  f \in Seq(Nat)
OBVIOUS

(* computeDueTicks: past occurrences, oldest first, none before the last   *)
(* fire.                                                                   *)
LEMMA DueTicks ==
    ASSUME NEW row \in RowType, now \in Nat, row.lastFired <= now, ~ Throws(row)
    PROVE  /\ ComputeDueTicks(row) \in Seq(Nat)
           /\ \A k \in DOMAIN ComputeDueTicks(row) :
                row.lastFired <= ComputeDueTicks(row)[k] /\ ComputeDueTicks(row)[k] <= now
           /\ \A j, k \in DOMAIN ComputeDueTicks(row) :
                j <= k => ComputeDueTicks(row)[j] <= ComputeDueTicks(row)[k]
<1> DEFINE first == row.lastFired
           i == row.interval
           missed == (now - first) \div i
           fired == Min({Max({1, CatchUp}), missed})
           T == [k \in 1..fired |-> first + (missed - fired + k) * i]
<1>1. first \in Nat /\ i \in Nat /\ EndAt \in Nat /\ StartAt \in Nat /\ CatchUp \in Nat
  <2>1. first \in Nat /\ i \in {0} \cup Intervals
    BY DEF RowType
  <2>2. EndAt \in Nat /\ StartAt \in Nat /\ CatchUp \in Nat
    BY SchedulerAssumption
  <2>3. i \in Nat
    BY <2>1, IntervalsAreNumbers
  <2> QED
    BY <2>1, <2>2, <2>3
<1>2. CASE now < StartAt \/ now > EndAt
  <2>1. ComputeDueTicks(row) = <<>>
    BY <1>2 DEF ComputeDueTicks
  <2> QED
    BY <2>1
<1>3. CASE ~ (now < StartAt \/ now > EndAt) /\ first = 0
  <2>1. ComputeDueTicks(row) = <<now>>
    BY <1>3 DEF ComputeDueTicks
  <2> QED
    BY <1>1, <1>3, <2>1
<1>4. CASE ~ (now < StartAt \/ now > EndAt) /\ first # 0
  <2>1. ComputeDueTicks(row) = T
    BY <1>4 DEF ComputeDueTicks
  <2>2. i # 0
    BY <1>1, <1>4 DEF Throws
  <2>3. missed \in Nat /\ missed * i <= now - first
    <3>1. now - first \in Nat
      BY <1>1
    <3> QED
      BY <1>1, <2>2, <3>1, Occurrences
  <2> HIDE DEF missed
  <2>4. fired \in Nat /\ fired <= missed
    <3>1. Max({1, CatchUp}) \in Nat
      BY <1>1, MaxOfTwo
    <3> QED
      BY <2>3, <3>1, MinOfTwo
  <2> HIDE DEF fired
  <2>5. ASSUME NEW k \in 1..fired
        PROVE  /\ missed - fired + k \in Nat /\ missed - fired + k <= missed
               /\ T[k] = first + (missed - fired + k) * i
    BY <2>3, <2>4, <2>5
  <2>6. ASSUME NEW k \in 1..fired
        PROVE  T[k] \in Nat /\ first <= T[k] /\ T[k] <= now
    <3> DEFINE m == missed - fired + k
    <3>1. m \in Nat /\ m <= missed /\ T[k] = first + m * i
      BY <2>5, <2>6
    <3> HIDE DEF m
    <3>2. m * i \in Nat /\ m * i <= missed * i /\ missed * i \in Nat
      BY <1>1, <2>3, <3>1, Multiples
    <3> QED
      BY <1>1, <2>3, <3>1, <3>2
  <2>7. ASSUME NEW j \in 1..fired, NEW k \in 1..fired, j <= k
        PROVE  T[j] <= T[k]
    <3> DEFINE m == missed - fired + j
               n == missed - fired + k
    <3>1. m \in Nat /\ n \in Nat /\ T[j] = first + m * i /\ T[k] = first + n * i
      BY <2>5
    <3>2. m <= n
      BY <2>3, <2>4, <2>7
    <3> HIDE DEF m, n
    <3>3. m * i <= n * i /\ m * i \in Nat /\ n * i \in Nat
      BY <1>1, <3>1, <3>2, Multiples
    <3> QED
      BY <1>1, <3>1, <3>3
  <2>8. T \in Seq(Nat) /\ DOMAIN T = 1..fired
    <3>1. DOMAIN T = 1..fired
      OBVIOUS
    <3>2. T \in [1..fired -> Nat]
      BY <2>6
    <3> HIDE DEF T
    <3> QED
      BY <2>4, <3>1, <3>2, IsASeq
  <2> HIDE DEF T
  <2> QED
    BY <2>1, <2>6, <2>7, <2>8
<1> QED
  BY <1>2, <1>3, <1>4

(* computeNextRun and its jitter. *)
LEMMA NextRuns ==
    ASSUME NEW row, row.interval \in Nat, now \in Nat
    PROVE  ComputeNextRun(row) \in Nat /\ JitterNextRun(ComputeNextRun(row)) \subseteq Nat
<1>1. EndAt \in Nat /\ StartAt \in Nat /\ Jitter \in Nat
  BY SchedulerAssumption
<1>2. ComputeNextRun(row) \in Nat
  <2>1. now + row.interval \in Nat
    OBVIOUS
  <2>2. Max({now + row.interval, StartAt}) \in Nat
    BY <1>1, <2>1, MaxOfTwo
  <2> QED
    BY <2>2 DEF ComputeNextRun
<1>3. ASSUME NEW next \in Nat PROVE JitterNextRun(next) \subseteq Nat
  <2>1. ASSUME NEW d \in 0..Jitter PROVE Max({next, Min({next + d, EndAt})}) \in Nat
    <3>1. next + d \in Nat
      BY <1>1
    <3>2. Min({next + d, EndAt}) \in Nat
      BY <1>1, <3>1, MinOfTwo
    <3> QED
      BY <3>2, MaxOfTwo
  <2> QED
    BY <2>1 DEF JitterNextRun
<1> QED
  BY <1>2, <1>3

(* A commit carries what its plan said. *)
LEMMA CommitFields ==
    ASSUME NEW row \in RowType, NEW ticks \in Seq(Nat), NEW next \in Nat, now \in Nat
    PROVE  LET c == Commit(row, ticks, next) IN
           /\ c \in CommitType /\ c.incarnation = row.incarnation /\ c.tickCount = row.tickCount
           /\ c.ticks = ticks /\ c.at = now /\ (ticks # <<>> => c.guarded) /\ c.next = next
<1>1. (ticks # <<>>) \in BOOLEAN
  OBVIOUS
<1> QED
  BY <1>1 DEF Commit, CommitType, RowType

(* planDueTicks makes sound plans. *)
LEMMA PlansAreSound ==
    ASSUME NEW row \in RowType, now \in Nat, row.lastFired <= now, inserted \in Nat,
           row.incarnation <= inserted, NEW c \in PlanDueTicks(row)
    PROVE  PlanSound(c, row, now, inserted)
<1>1. row.interval \in Nat
  <2>1. row.interval \in {0} \cup Intervals
    BY DEF RowType
  <2> QED
    BY <2>1, IntervalsAreNumbers
<1>2. CASE ~ row.enabled
  <2>1. NoSchedule \in RowType /\ NoSchedule.incarnation = 0
    BY DEF NoSchedule, RowType
  <2>2. c = Commit(NoSchedule, <<>>, 0)
    BY <1>2 DEF PlanDueTicks
  <2>3. c \in CommitType /\ c.incarnation = 0 /\ c.at = now /\ c.ticks = <<>>
    BY <2>1, <2>2 DEF Commit, CommitType, RowType
  <2> QED
    BY <2>3 DEF PlanSound, CommitSound
<1>3. CASE row.enabled /\ Throws(row)
  <2> DEFINE b == Commit(row, <<>>, 0)
  <2>1. b \in CommitType /\ b.ticks = <<>> /\ b.at = now /\ b.incarnation = row.incarnation
        /\ b.tickCount = row.tickCount
    BY DEF Commit, CommitType, RowType
  <2>2. c = [b EXCEPT !.broken = TRUE, !.guarded = TRUE]
    BY <1>3 DEF PlanDueTicks
  <2> HIDE DEF b
  <2>3. /\ c \in CommitType /\ c.ticks = <<>> /\ c.at = now /\ c.incarnation = row.incarnation
        /\ c.tickCount = row.tickCount
    BY <2>1, <2>2 DEF CommitType
  <2> QED
    BY <2>3 DEF PlanSound, CommitSound
<1>4. CASE row.enabled /\ ~ Throws(row)
  <2> DEFINE T == ComputeDueTicks(row)
  <2>1. PICK next \in JitterNextRun(ComputeNextRun(row)) : c = Commit(row, T, next)
    BY <1>4 DEF PlanDueTicks
  <2>2. next \in Nat
    BY <1>1, NextRuns
  <2>3. /\ T \in Seq(Nat)
        /\ \A k \in DOMAIN T : row.lastFired <= T[k] /\ T[k] <= now
        /\ \A j, k \in DOMAIN T : j <= k => T[j] <= T[k]
    BY <1>4, DueTicks
  <2> HIDE DEF T
  <2>4. /\ c \in CommitType /\ c.incarnation = row.incarnation /\ c.tickCount = row.tickCount
        /\ c.ticks = T /\ c.at = now /\ (T # <<>> => c.guarded)
    BY <2>1, <2>2, <2>3, CommitFields
  <2> QED
    BY <2>3, <2>4 DEF PlanSound, CommitSound, TimesInOrder, RowType
<1> QED
  BY <1>2, <1>3, <1>4

(* What may happen to a row: it goes on counting, it is gone, or it is a   *)
(* new incarnation.                                                        *)
RowMoves(old, new, top) ==
    \/ new.incarnation = 0
    \/ new.incarnation > top
    \/ /\ new.incarnation = old.incarnation
       /\ new.tickCount >= old.tickCount
       /\ new.tickCount = old.tickCount => new.lastFired = old.lastFired

(* No such step makes a plan that commitPoll accepts unsound. *)
LEMMA PlanStays ==
    ASSUME NEW c, NEW old \in RowType, NEW new \in RowType, NEW time \in Nat, NEW time2 \in Nat,
           NEW top \in Nat, NEW top2 \in Nat, time <= time2, top <= top2,
           PlanSound(c, old, time, top), RowMoves(old, new, top)
    PROVE  PlanSound(c, new, time2, top2)
<1>1. /\ c \in CommitType /\ c.at \in Nat /\ c.incarnation \in Nat /\ c.tickCount \in Nat
      /\ new.incarnation \in Nat /\ new.tickCount \in Nat /\ old.tickCount \in Nat /\ old.incarnation \in Nat
  BY DEF PlanSound, CommitSound, CommitType, RowType
<1>2. CASE c.ticks = <<>>
  BY <1>1, <1>2 DEF PlanSound, CommitSound
<1>3. CASE c.ticks # <<>>
  <2>1. c.guarded /\ c.at <= time2 /\ TimesInOrder(c) /\ c.incarnation <= top /\ c.incarnation <= top2
    BY <1>1, <1>3 DEF PlanSound, CommitSound
  <2>2. ASSUME new.incarnation # 0, new.incarnation = c.incarnation
        PROVE  /\ c.tickCount <= new.tickCount
               /\ c.tickCount = new.tickCount => \A k \in DOMAIN c.ticks : new.lastFired <= c.ticks[k]
    <3>1. /\ new.incarnation = old.incarnation /\ new.tickCount >= old.tickCount
          /\ new.tickCount = old.tickCount => new.lastFired = old.lastFired
      BY <1>1, <2>1, <2>2 DEF RowMoves
    <3>2. /\ c.tickCount <= old.tickCount
          /\ c.tickCount = old.tickCount => \A k \in DOMAIN c.ticks : old.lastFired <= c.ticks[k]
      BY <1>3, <2>2, <3>1 DEF PlanSound, CommitSound
    <3> QED
      BY <1>1, <3>1, <3>2
  <2> QED
    BY <1>1, <1>3, <2>1, <2>2 DEF PlanSound, CommitSound
<1> QED
  BY <1>2, <1>3

-----------------------------------------------------------------------------
(* Storage writes. *)

(* A tick of a commit. *)
LEMMA TickFields ==
    ASSUME NEW s \in Schedules, NEW c \in CommitType, NEW k \in DOMAIN c.ticks
    PROVE  LET t == TickAt(s, c, k) IN
           /\ t \in TickType /\ t.schedule = s /\ t.incarnation = c.incarnation
           /\ t.tickNumber = c.tickCount + k - 1 /\ t.scheduledAt = c.ticks[k]
           /\ k \in 1 .. Len(c.ticks) /\ c.ticks[k] \in Nat
<1>1. c.ticks \in Seq(Nat) /\ c.tickCount \in Nat /\ c.incarnation \in Nat
  BY DEF CommitType
<1>2. k \in 1 .. Len(c.ticks) /\ c.ticks[k] \in Nat
  BY <1>1
<1>3. c.tickCount + k - 1 \in Nat
  BY <1>1, <1>2
<1> QED
  BY <1>1, <1>2, <1>3 DEF TickAt, TickType

(* commitPoll: what is applied goes on where the row stands. *)
LEMMA CommitKeepsLog ==
    ASSUME now \in Nat, SchedTyped, LogInv, NEW updates, NEW manual \in BOOLEAN,
           DOMAIN updates \subseteq Schedules,
           \A s \in DOMAIN updates : CommitSound(updates[s], sched[s], now),
           ~ manual => \A s \in DOMAIN updates : \A t \in TicksOf(s, updates[s]) :
                          \E r \in runs : SameRun(r, t),
           CommitPoll(updates, manual), now' = now, inserted' = inserted, runs' = runs
    PROVE  SchedTyped' /\ LogInv' /\ \A s \in Schedules : RowMoves(sched[s], sched'[s], inserted)
<1> DEFINE applied == DOMAIN updates \ Conflicts(updates)
           known == {s \in applied : Present(s)}
           F == {s \in known : updates[s].ticks # <<>>}
           N(s) == Len(updates[s].ticks)
           tick(s, k) == TickAt(s, updates[s], k)
           new == {t \in UNION {TicksOf(s, updates[s]) : s \in known} :
                      \A l \in log : ~SameRun(l.tick, t)}
<1>0. /\ \A s \in Schedules : /\ sched[s] \in RowType /\ sched[s].tickCount \in Nat
                              /\ sched[s].lastFired \in Nat /\ sched[s].incarnation \in Nat
      /\ \A l \in log : /\ l.tick \in TickType /\ l.tick.schedule \in Schedules
                        /\ l.tick.tickNumber \in Nat /\ l.tick.scheduledAt \in Nat
  <2>1. ASSUME NEW s \in Schedules
        PROVE  /\ sched[s] \in RowType /\ sched[s].tickCount \in Nat
               /\ sched[s].lastFired \in Nat /\ sched[s].incarnation \in Nat
    BY DEF SchedTyped, RowType
  <2>2. ASSUME NEW l \in log
        PROVE  /\ l.tick \in TickType /\ l.tick.schedule \in Schedules
               /\ l.tick.tickNumber \in Nat /\ l.tick.scheduledAt \in Nat
    BY DEF LogInv, LogTyped, TickType
  <2> QED
    BY <2>1, <2>2
<1>1. ASSUME NEW s \in F
      PROVE  /\ s \in Schedules /\ s \in DOMAIN updates /\ updates[s] \in CommitType
             /\ Present(s) /\ sched[s].incarnation = updates[s].incarnation
             /\ sched[s].tickCount = updates[s].tickCount
             /\ updates[s].at \in Nat /\ updates[s].at <= now /\ TimesInOrder(updates[s])
             /\ \A k \in DOMAIN updates[s].ticks : sched[s].lastFired <= updates[s].ticks[k]
             /\ DOMAIN updates[s].ticks = 1 .. N(s) /\ N(s) \in Nat \ {0}
             /\ updates[s].ticks \in Seq(Nat)
  <2>1. s \in Schedules /\ s \in DOMAIN updates /\ Present(s) /\ s \notin Conflicts(updates)
        /\ updates[s].ticks # <<>>
    OBVIOUS
  <2>2. updates[s] \in CommitType /\ updates[s].guarded /\ updates[s].at <= now /\ TimesInOrder(updates[s])
    BY <2>1 DEF CommitSound
  <2>3. sched[s].incarnation = updates[s].incarnation /\ sched[s].tickCount = updates[s].tickCount
    BY <2>1, <2>2 DEF Conflicts
  <2>4. \A k \in DOMAIN updates[s].ticks : sched[s].lastFired <= updates[s].ticks[k]
    BY <2>1, <2>3 DEF CommitSound, Present
  <2>5. updates[s].ticks \in Seq(Nat) /\ updates[s].at \in Nat
    BY <2>2 DEF CommitType
  <2>6. DOMAIN updates[s].ticks = 1 .. N(s) /\ N(s) \in Nat \ {0}
    BY <2>1, <2>5
  <2> QED
    BY <2>1, <2>2, <2>3, <2>4, <2>5, <2>6
<1>2. ASSUME NEW s \in F, NEW k \in 1 .. N(s)
      PROVE  /\ tick(s, k) \in TickType /\ tick(s, k).schedule = s
             /\ tick(s, k).incarnation = sched[s].incarnation
             /\ tick(s, k).tickNumber = sched[s].tickCount + k - 1
             /\ tick(s, k).scheduledAt = updates[s].ticks[k] /\ updates[s].ticks[k] \in Nat
  <2>1. k \in DOMAIN updates[s].ticks
    BY <1>1, <1>2
  <2> QED
    BY <1>1, <2>1, TickFields
<1>3. ASSUME NEW t \in new PROVE \E s \in F : \E k \in 1 .. N(s) : t = tick(s, k)
  <2>1. PICK s \in known : t \in TicksOf(s, updates[s])
    OBVIOUS
  <2>2. PICK k \in DOMAIN updates[s].ticks : t = TickAt(s, updates[s], k)
    BY <2>1 DEF TicksOf
  <2>3. updates[s].ticks # <<>>
    BY <2>2
  <2>4. s \in F
    BY <2>1, <2>3
  <2> QED
    BY <1>1, <2>2, <2>4
<1>4. ASSUME NEW s \in F, NEW k \in 1 .. N(s) PROVE tick(s, k) \in new
  <2>1. tick(s, k) \in TicksOf(s, updates[s]) /\ s \in known
    BY <1>1, <1>4 DEF TicksOf
  <2>2. ASSUME NEW l \in log PROVE ~ SameRun(l.tick, tick(s, k))
    <3>1. l.tick.schedule = s => l.tick.tickNumber < sched[s].tickCount
      BY DEF LogInv, LogIsBehind
    <3>2. tick(s, k).schedule = s /\ tick(s, k).tickNumber = sched[s].tickCount + k - 1
      BY <1>2, <1>4
    <3>3. s \in Schedules /\ sched[s].tickCount \in Nat
      BY <1>0, <1>1
    <3> HIDE DEF tick
    <3>4. tick(s, k).tickNumber >= sched[s].tickCount
      BY <1>1, <1>4, <3>2, <3>3
    <3> QED
      BY <1>0, <3>1, <3>2, <3>3, <3>4 DEF SameRun
  <2> QED
    BY <2>1, <2>2
<1>5. ASSUME NEW s \in Schedules
      PROVE  /\ sched'[s] \in RowType /\ sched'[s].incarnation = sched[s].incarnation
             /\ s \in F => sched'[s].tickCount = sched[s].tickCount + N(s) /\ sched'[s].lastFired = updates[s].at
             /\ s \notin F => sched'[s] = sched[s]
  <2>1. sched'[s] = IF s \in F THEN [sched[s] EXCEPT !.tickCount = @ + N(s), !.lastFired = updates[s].at]
                    ELSE sched[s]
    BY DEF CommitPoll
  <2>2. CASE s \in F
    <3> DEFINE x == [sched[s] EXCEPT !.tickCount = @ + N(s), !.lastFired = updates[s].at]
    <3>1. sched[s].tickCount + N(s) \in Nat /\ updates[s].at \in Nat
      BY <1>0, <1>1, <2>2
    <3>2. x = [sched[s] EXCEPT !.tickCount = sched[s].tickCount + N(s), !.lastFired = updates[s].at]
      BY <1>0 DEF RowType
    <3> HIDE DEF N
    <3>3. x \in RowType /\ x.incarnation = sched[s].incarnation
          /\ x.tickCount = sched[s].tickCount + N(s) /\ x.lastFired = updates[s].at
      BY <1>0, <3>1, <3>2 DEF RowType
    <3>4. sched'[s] = x
      BY <2>1, <2>2
    <3> HIDE DEF x
    <3> QED
      BY <2>2, <3>3, <3>4
  <2>3. CASE s \notin F
    BY <1>0, <2>1, <2>3
  <2> QED
    BY <2>2, <2>3
<1>6. log' = log \cup {[tick |-> t, manual |-> manual] : t \in new}
  BY DEF CommitPoll
<1>7. DOMAIN sched' = Schedules /\ sched' = [s \in Schedules |-> sched'[s]]
  BY DEF CommitPoll
<1>8. nextRun' \in [Schedules -> Nat]
  <2>1. ASSUME NEW s \in Schedules, s \in DOMAIN updates PROVE updates[s].next \in Nat
    BY <2>1 DEF CommitSound, CommitType
  <2> QED
    BY <2>1 DEF CommitPoll, SchedTyped
<1> HIDE DEF F, N, tick, new
<1>9. ASSUME NEW s \in Schedules
      PROVE  /\ sched'[s].tickCount \in Nat /\ sched'[s].lastFired \in Nat
             /\ sched'[s].tickCount >= sched[s].tickCount
             /\ sched'[s].lastFired >= sched[s].lastFired /\ sched'[s].lastFired <= now
             /\ sched'[s].tickCount = sched[s].tickCount => sched'[s].lastFired = sched[s].lastFired
  <2>1. CASE s \notin F
    BY <1>0, <1>5, <2>1 DEF SchedTyped
  <2>2. CASE s \in F
    <3>1. N(s) \in Nat \ {0} /\ updates[s].at \in Nat /\ updates[s].at <= now
      BY <1>1, <2>2
    <3>2. 1 \in 1 .. N(s)
      BY <3>1
    <3>3. sched[s].lastFired <= updates[s].ticks[1] /\ updates[s].ticks[1] <= updates[s].at
          /\ updates[s].ticks[1] \in Nat
      BY <1>1, <1>2, <2>2, <3>2 DEF TimesInOrder
    <3> QED
      BY <1>0, <1>5, <2>2, <3>1, <3>3
  <2> QED
    BY <2>1, <2>2
<1>10. SchedTyped'
  <2>1. sched' \in [Schedules -> RowType]
    BY <1>5, <1>7
  <2> QED
    BY <1>5, <1>8, <1>9, <2>1 DEF SchedTyped
<1>11. \A s \in Schedules : RowMoves(sched[s], sched'[s], inserted)
  BY <1>5, <1>9 DEF RowMoves
<1>12. ASSUME NEW l \in log'
       PROVE  \/ l \in log
              \/ \E s \in F : \E k \in 1 .. N(s) : l = [tick |-> tick(s, k), manual |-> manual]
  BY <1>3, <1>6
<1>13. ASSUME NEW s \in F, NEW k \in 1 .. N(s)
       PROVE  [tick |-> tick(s, k), manual |-> manual] \in log'
  BY <1>4, <1>6
<1>14. LogTyped'
  <2>1. ASSUME NEW l \in log' PROVE l \in [tick : TickType, manual : BOOLEAN]
    BY <1>2, <1>12 DEF LogInv, LogTyped
  <2> QED
    BY <2>1 DEF LogTyped
<1>15. LogIsBehind'
  <2> SUFFICES ASSUME NEW l \in log'
               PROVE  LET s == l.tick.schedule IN
                      /\ sched'[s].incarnation # 0 /\ l.tick.incarnation = sched'[s].incarnation
                      /\ l.tick.tickNumber < sched'[s].tickCount /\ l.tick.scheduledAt <= sched'[s].lastFired
    BY DEF LogIsBehind, Present
  <2>1. CASE l \in log
    <3> DEFINE s == l.tick.schedule
    <3>1. /\ s \in Schedules /\ sched[s].incarnation # 0 /\ l.tick.incarnation = sched[s].incarnation
          /\ l.tick.tickNumber < sched[s].tickCount /\ l.tick.scheduledAt <= sched[s].lastFired
      BY <1>0, <2>1 DEF LogInv, LogIsBehind, Present
    <3> QED
      BY <1>0, <1>5, <1>9, <2>1, <3>1
  <2>2. ASSUME NEW s \in F, NEW k \in 1 .. N(s), l = [tick |-> tick(s, k), manual |-> manual]
        PROVE  LET z == l.tick.schedule IN
                      /\ sched'[z].incarnation # 0 /\ l.tick.incarnation = sched'[z].incarnation
                      /\ l.tick.tickNumber < sched'[z].tickCount /\ l.tick.scheduledAt <= sched'[z].lastFired
    <3>1. l.tick = tick(s, k)
      BY <2>2
    <3>2. /\ l.tick.schedule = s /\ l.tick.incarnation = sched[s].incarnation
          /\ l.tick.tickNumber = sched[s].tickCount + k - 1 /\ l.tick.scheduledAt = updates[s].ticks[k]
      BY <1>2, <3>1
    <3>3. s \in Schedules /\ sched[s].incarnation # 0 /\ updates[s].ticks[k] <= updates[s].at
          /\ N(s) \in Nat
      BY <1>1 DEF Present, TimesInOrder
    <3>4. sched'[s].tickCount = sched[s].tickCount + N(s) /\ sched'[s].lastFired = updates[s].at
          /\ sched'[s].incarnation = sched[s].incarnation
      BY <1>5, <3>3
    <3> QED
      BY <1>0, <3>2, <3>3, <3>4
  <2> QED
    BY <1>12, <2>1, <2>2
<1>16. LogIsFull'
  <2> SUFFICES ASSUME NEW s \in Schedules, NEW n \in 0 .. (sched'[s].tickCount - 1)
               PROVE  \E l \in log' : l.tick.schedule = s /\ l.tick.tickNumber = n
    BY DEF LogIsFull
  <2>1. CASE n < sched[s].tickCount
    <3>1. n \in 0 .. (sched[s].tickCount - 1)
      BY <1>0, <1>9, <2>1
    <3> QED
      BY <1>6, <3>1 DEF LogInv, LogIsFull
  <2>2. CASE n >= sched[s].tickCount
    <3>1. s \in F /\ N(s) \in Nat /\ sched'[s].tickCount = sched[s].tickCount + N(s)
      BY <1>0, <1>1, <1>5, <1>9, <2>2
    <3> DEFINE k == n - sched[s].tickCount + 1
    <3>2. k \in 1 .. N(s) /\ sched[s].tickCount + k - 1 = n
      BY <1>0, <2>2, <3>1
    <3> HIDE DEF k
    <3>3. tick(s, k).schedule = s /\ tick(s, k).tickNumber = n
      BY <1>2, <3>1, <3>2
    <3> QED
      BY <1>13, <3>1, <3>2, <3>3
  <2> QED
    BY <1>0, <1>9, <2>1, <2>2
<1>17. ASSUME NEW l \in log, NEW s \in F, NEW k \in 1 .. N(s), l.tick.schedule = s
       PROVE  /\ l.tick.tickNumber < tick(s, k).tickNumber
              /\ l.tick.scheduledAt <= tick(s, k).scheduledAt
  <2>1. /\ l.tick.tickNumber < sched[s].tickCount /\ l.tick.scheduledAt <= sched[s].lastFired
    BY <1>17 DEF LogInv, LogIsBehind
  <2>2. /\ tick(s, k).tickNumber = sched[s].tickCount + k - 1 /\ tick(s, k).scheduledAt = updates[s].ticks[k]
        /\ updates[s].ticks[k] \in Nat /\ s \in Schedules /\ sched[s].lastFired <= updates[s].ticks[k]
    BY <1>1, <1>2
  <2> QED
    BY <1>0, <2>1, <2>2
<1>18. ASSUME NEW s \in F, NEW j \in 1 .. N(s), NEW k \in 1 .. N(s)
       PROVE  /\ tick(s, j).tickNumber = tick(s, k).tickNumber => j = k
              /\ tick(s, j).tickNumber < tick(s, k).tickNumber
                   => tick(s, j).scheduledAt <= tick(s, k).scheduledAt
  <2>1. /\ tick(s, j).tickNumber = sched[s].tickCount + j - 1 /\ tick(s, j).scheduledAt = updates[s].ticks[j]
        /\ tick(s, k).tickNumber = sched[s].tickCount + k - 1 /\ tick(s, k).scheduledAt = updates[s].ticks[k]
    BY <1>2
  <2>2. N(s) \in Nat /\ s \in Schedules /\ (j <= k => updates[s].ticks[j] <= updates[s].ticks[k])
    BY <1>1 DEF TimesInOrder
  <2> QED
    BY <1>0, <2>1, <2>2
<1>19. LogHasOneEach' /\ FiresInOrder'
  <2> SUFFICES ASSUME NEW l \in log', NEW m \in log', l.tick.schedule = m.tick.schedule
               PROVE  /\ l.tick.tickNumber = m.tick.tickNumber => l.tick = m.tick
                      /\ l.tick.tickNumber < m.tick.tickNumber
                           => l.tick.scheduledAt <= m.tick.scheduledAt
    BY DEF LogHasOneEach, FiresInOrder
  <2>1. CASE l \in log /\ m \in log
    BY <2>1 DEF LogInv, LogHasOneEach, FiresInOrder
  <2>2. ASSUME l \in log, NEW s \in F, NEW k \in 1 .. N(s), m = [tick |-> tick(s, k), manual |-> manual]
        PROVE  l.tick.tickNumber < m.tick.tickNumber /\ l.tick.scheduledAt <= m.tick.scheduledAt
    <3>1. m.tick = tick(s, k) /\ l.tick.schedule = s
      BY <1>2, <2>2
    <3> QED
      BY <1>17, <2>2, <3>1
  <2>3. ASSUME m \in log, NEW s \in F, NEW k \in 1 .. N(s), l = [tick |-> tick(s, k), manual |-> manual]
        PROVE  m.tick.tickNumber < l.tick.tickNumber
    <3>1. l.tick = tick(s, k) /\ m.tick.schedule = s
      BY <1>2, <2>3
    <3> QED
      BY <1>17, <2>3, <3>1
  <2>4. ASSUME NEW s \in F, NEW j \in 1 .. N(s), NEW z \in F, NEW k \in 1 .. N(z),
               l = [tick |-> tick(s, j), manual |-> manual], m = [tick |-> tick(z, k), manual |-> manual]
        PROVE  /\ l.tick.tickNumber = m.tick.tickNumber => l.tick = m.tick
               /\ l.tick.tickNumber < m.tick.tickNumber => l.tick.scheduledAt <= m.tick.scheduledAt
    <3>1. l.tick = tick(s, j) /\ m.tick = tick(z, k)
      BY <2>4
    <3>2. s = z
      BY <1>2, <3>1
    <3> QED
      BY <1>18, <3>1, <3>2
  <2>5. l.tick.tickNumber \in Nat /\ m.tick.tickNumber \in Nat
    BY <1>14 DEF LogTyped, TickType
  <2>6. CASE l \in log
    BY <1>12, <2>1, <2>2, <2>5, <2>6
  <2>7. CASE m \in log
    BY <1>12, <2>1, <2>3, <2>5, <2>7
  <2> QED
    BY <1>12, <2>4, <2>6, <2>7
<1>20. RecordedWasStarted'
  <2> SUFFICES ASSUME NEW l \in log', ~ l.manual
               PROVE  \E r \in runs : SameRun(r, l.tick)
    BY DEF RecordedWasStarted, SameRun
  <2>1. CASE l \in log
    BY <2>1 DEF LogInv, RecordedWasStarted
  <2>2. ASSUME NEW s \in F, NEW k \in 1 .. N(s), l = [tick |-> tick(s, k), manual |-> manual]
        PROVE  \E r \in runs : SameRun(r, l.tick)
    <3>1. ~ manual /\ l.tick = tick(s, k)
      BY <2>2
    <3>2. tick(s, k) \in TicksOf(s, updates[s]) /\ s \in DOMAIN updates
      BY <1>1, <2>2 DEF TicksOf, tick
    <3> QED
      BY <3>1, <3>2
  <2> QED
    BY <1>12, <2>1, <2>2
<1> QED
  BY <1>10, <1>11, <1>14, <1>15, <1>16, <1>19, <1>20 DEF LogInv

(* The step records nothing: the rows outside Z count as they did, those of *)
(* Z start over with an empty log.                                         *)
NothingRecorded(Z) ==
    /\ \A l : l \in log' <=> l \in log /\ l.tick.schedule \notin Z
    /\ runs \subseteq runs'
    /\ \A z \in Schedules \ Z : /\ sched'[z].incarnation = sched[z].incarnation
                                /\ sched'[z].tickCount = sched[z].tickCount
                                /\ sched'[z].lastFired = sched[z].lastFired
    /\ \A z \in Schedules \cap Z : sched'[z].tickCount = 0

(* A step that records nothing keeps the log sound. *)
LEMMA LogStays ==
    ASSUME LogInv, NEW Z, NothingRecorded(Z)
    PROVE  LogInv'
<1> USE DEF NothingRecorded
<1>1. \A l \in log : l.tick.schedule \in Schedules
  <2>1. ASSUME NEW l \in log PROVE l.tick.schedule \in Schedules
    BY DEF LogInv, LogTyped, TickType
  <2> QED
    BY <2>1
<1>2. LogTyped' /\ LogHasOneEach' /\ FiresInOrder'
  BY DEF LogInv, LogTyped, LogHasOneEach, FiresInOrder
<1>3. RecordedWasStarted'
  BY DEF LogInv, RecordedWasStarted, SameRun
<1>4. LogIsBehind'
  BY <1>1 DEF LogInv, LogIsBehind, Present
<1>5. LogIsFull'
  <2> SUFFICES ASSUME NEW s \in Schedules, NEW n \in 0 .. (sched'[s].tickCount - 1)
               PROVE  \E l \in log' : l.tick.schedule = s /\ l.tick.tickNumber = n
    BY DEF LogIsFull
  <2>1. s \notin Z
    OBVIOUS
  <2>2. PICK l \in log : l.tick.schedule = s /\ l.tick.tickNumber = n
    BY <2>1 DEF LogInv, LogIsFull
  <2> QED
    BY <2>1, <2>2
<1> QED
  BY <1>2, <1>3, <1>4, <1>5 DEF LogInv

(* Where neither the rows nor the log change. *)
LEMMA SameRows ==
    ASSUME now \in Nat, now' \in Nat, now <= now', SchedTyped, LogInv, UNCHANGED <<sched, log, inserted>>,
           nextRun' \in [Schedules -> Nat], runs \subseteq runs'
    PROVE  SchedTyped' /\ LogInv' /\ \A s \in Schedules : RowMoves(sched[s], sched'[s], inserted)
<1>1. LogInv'
  <2>1. NothingRecorded({})
    BY DEF NothingRecorded
  <2> QED
    BY <2>1, LogStays
<1>2. ASSUME NEW s \in Schedules
      PROVE  sched[s].lastFired <= now' /\ sched[s].tickCount \in Nat
  BY DEF SchedTyped, RowType
<1> QED
  BY <1>1, <1>2 DEF SchedTyped, RowMoves

(* A next run to begin with. *)
LEMMA SeedIsANumber ==
    ASSUME now \in Nat, SchedTyped, NEW s \in Schedules
    PROVE  SeedNextRun(s) \in Nat
<1>1. StartAt \in Nat
  BY SchedulerAssumption
<1>2. Max({now, StartAt}) \in Nat
  BY <1>1, MaxOfTwo
<1> QED
  BY <1>2 DEF SeedNextRun, SchedTyped

(* upsertSchedule. *)
LEMMA UpsertKeepsLog ==
    ASSUME now \in Nat, SchedTyped, LogInv, NEW s \in Schedules, NEW enabled \in BOOLEAN,
           NEW interval \in {0} \cup Intervals, UpsertSchedule(s, enabled, interval), Inserts(s),
           now' = now, runs' = runs
    PROVE  /\ SchedTyped' /\ LogInv' /\ inserted' \in Nat /\ inserted <= inserted'
           /\ \A z \in Schedules : RowMoves(sched[z], sched'[z], inserted)
<1> DEFINE x == [sched[s] EXCEPT !.enabled = enabled, !.interval = interval]
           y == [NoSchedule EXCEPT !.incarnation = inserted + 1, !.enabled = enabled, !.interval = interval]
<1>1. /\ sched' = [sched EXCEPT ![s] = IF Present(s) THEN x ELSE y] /\ log' = log
      /\ sched \in [Schedules -> RowType] /\ sched[s] \in RowType /\ inserted \in Nat
  BY DEF UpsertSchedule, SchedTyped
<1>2. nextRun' \in [Schedules -> Nat]
  BY SeedIsANumber DEF UpsertSchedule, SchedTyped
<1>3. /\ x \in RowType /\ x.incarnation = sched[s].incarnation /\ x.tickCount = sched[s].tickCount
      /\ x.lastFired = sched[s].lastFired
  BY <1>1 DEF RowType
<1>4. y \in RowType /\ y.incarnation = inserted + 1 /\ y.tickCount = 0 /\ y.lastFired = 0
  <2>1. NoSchedule \in RowType /\ NoSchedule.tickCount = 0 /\ NoSchedule.lastFired = 0
    BY DEF NoSchedule, RowType
  <2>2. inserted + 1 \in Nat
    BY <1>1
  <2> QED
    BY <2>1, <2>2 DEF RowType
<1> HIDE DEF x, y
<1>5. ASSUME NEW z \in Schedules
      PROVE  /\ sched[z].tickCount \in Nat /\ sched[z].lastFired <= now
             /\ sched[z].incarnation <= inserted /\ sched[z].incarnation \in Nat
  BY DEF SchedTyped, RowType
<1>6. CASE Present(s)
  <2>1. inserted' = inserted
    BY <1>1, <1>6 DEF Inserts
  <2>2. ASSUME NEW z \in Schedules
        PROVE  /\ sched'[z].incarnation = sched[z].incarnation
               /\ sched'[z].tickCount = sched[z].tickCount /\ sched'[z].lastFired = sched[z].lastFired
    BY <1>1, <1>3, <1>6
  <2>3. LogInv'
    <3>1. NothingRecorded({})
      BY <1>1, <2>2 DEF NothingRecorded
    <3> QED
      BY <3>1, LogStays
  <2>4. SchedTyped'
    BY <1>1, <1>2, <1>3, <1>5, <1>6, <2>1, <2>2 DEF SchedTyped
  <2>5. \A z \in Schedules : RowMoves(sched[z], sched'[z], inserted)
    BY <1>5, <2>2 DEF RowMoves
  <2> QED
    BY <1>1, <2>1, <2>3, <2>4, <2>5
<1>7. CASE ~ Present(s)
  <2>1. inserted' = inserted + 1
    BY <1>1, <1>7 DEF Inserts
  <2>2. ASSUME NEW z \in Schedules \ {s} PROVE sched'[z] = sched[z]
    BY <1>1
  <2>3. sched'[s] = y
    BY <1>1, <1>7
  <2>4. LogInv'
    <3>1. \A l \in log : l.tick.schedule # s
      BY <1>7 DEF LogInv, LogIsBehind
    <3>2. NothingRecorded({s})
      BY <1>1, <1>4, <2>2, <2>3, <3>1 DEF NothingRecorded
    <3> QED
      BY <3>2, LogStays
  <2>5. SchedTyped'
    <3>1. sched' \in [Schedules -> RowType]
      BY <1>1, <1>4, <1>7
    <3>2. ASSUME NEW z \in Schedules
          PROVE  sched'[z].lastFired <= now /\ sched'[z].incarnation <= inserted'
      BY <1>1, <1>4, <1>5, <2>1, <2>2, <2>3
    <3> QED
      BY <1>1, <1>2, <2>1, <3>1, <3>2 DEF SchedTyped
  <2>6. \A z \in Schedules : RowMoves(sched[z], sched'[z], inserted)
    BY <1>1, <1>4, <1>5, <2>2, <2>3 DEF RowMoves
  <2> QED
    BY <1>1, <2>1, <2>4, <2>5, <2>6
<1> QED
  BY <1>6, <1>7

(* setEnabled. *)
LEMMA SetEnabledKeepsLog ==
    ASSUME now \in Nat, SchedTyped, LogInv, NEW s \in Schedules, NEW enabled \in BOOLEAN,
           SetEnabled(s, enabled), now' = now, runs' = runs, inserted' = inserted
    PROVE  SchedTyped' /\ LogInv' /\ \A z \in Schedules : RowMoves(sched[z], sched'[z], inserted)
<1> DEFINE x == [sched[s] EXCEPT !.enabled = enabled /\ Present(s)]
<1>1. /\ sched' = [sched EXCEPT ![s] = x] /\ log' = log
      /\ sched \in [Schedules -> RowType] /\ sched[s] \in RowType
  BY DEF SetEnabled, SchedTyped
<1>2. nextRun' \in [Schedules -> Nat]
  BY SeedIsANumber DEF SetEnabled, SchedTyped
<1>3. /\ x \in RowType /\ x.incarnation = sched[s].incarnation /\ x.tickCount = sched[s].tickCount
      /\ x.lastFired = sched[s].lastFired
  <2>1. (enabled /\ Present(s)) \in BOOLEAN
    BY DEF Present
  <2> QED
    BY <1>1, <2>1 DEF RowType
<1> HIDE DEF x
<1>4. ASSUME NEW z \in Schedules
      PROVE  /\ sched'[z].incarnation = sched[z].incarnation
             /\ sched'[z].tickCount = sched[z].tickCount /\ sched'[z].lastFired = sched[z].lastFired
             /\ sched[z].tickCount \in Nat
  BY <1>1, <1>3 DEF RowType
<1>5. LogInv'
  <2>1. NothingRecorded({})
    BY <1>1, <1>4 DEF NothingRecorded
  <2> QED
    BY <2>1, LogStays
<1>6. SchedTyped'
  BY <1>1, <1>2, <1>3, <1>4 DEF SchedTyped
<1> QED
  BY <1>4, <1>5, <1>6 DEF RowMoves

(* unregister takes the schedule's log along. *)
LEMMA UnregisterKeepsLog ==
    ASSUME now \in Nat, SchedTyped, LogInv, NEW s \in Schedules, Unregister(s)
    PROVE  SchedTyped' /\ LogInv' /\ \A z \in Schedules : RowMoves(sched[z], sched'[z], inserted)
<1>1. /\ sched' = [sched EXCEPT ![s] = NoSchedule] /\ nextRun' = [nextRun EXCEPT ![s] = 0]
      /\ log' = {l \in log : l.tick.schedule # s} /\ runs' = runs /\ inserted' = inserted /\ now' = now
  BY DEF Unregister, leaseVars
<1>2. NoSchedule \in RowType /\ NoSchedule.incarnation = 0 /\ NoSchedule.tickCount = 0 /\ NoSchedule.lastFired = 0
  BY DEF NoSchedule, RowType
<1>3. ASSUME NEW z \in Schedules
      PROVE  sched[z].tickCount \in Nat /\ sched'[z] = IF z = s THEN NoSchedule ELSE sched[z]
  BY <1>1 DEF SchedTyped, RowType
<1>4. NothingRecorded({s})
  BY <1>1, <1>2, <1>3 DEF NothingRecorded
<1>5. SchedTyped'
  BY <1>1, <1>2, <1>3 DEF SchedTyped
<1> QED
  BY <1>2, <1>3, <1>4, <1>5, LogStays DEF RowMoves

-----------------------------------------------------------------------------
(* The loops and the lease. *)

(* A poll's stage says what it has in hand, and that its lease is its own. *)
LEMMA PollStages ==
    ASSUME PollsSound, NEW i \in Instances
    PROVE  /\ poll[i].stage = "found" => FoundSound(poll[i]) /\ <<i, poll[i].epoch>> \in granted
           /\ poll[i].stage = "deliver" => DeliverSound(poll[i]) /\ <<i, poll[i].epoch>> \in granted
           /\ poll[i].stage = "after" => AfterSound(poll[i]) /\ <<i, poll[i].epoch>> \in granted
<1>1. PollSound(i, poll[i]) /\ NoPoll.stage = "idle"
  BY DEF PollsSound, NoPoll
<1> QED
  BY <1>1 DEF PollSound, FoundSound, DeliverSound, AfterSound

(* A lease that was handed out may be written under, or given up. *)
LEMMA LeaseCalls ==
    ASSUME NEW i, NEW e, <<i, e>> \in granted
    PROVE  FencedWrite(e) \/ ReleaseLeader(i, e) => LeaseNext
<1>1. <<i, e>>[1] = i /\ <<i, e>>[2] = e
  OBVIOUS
<1> QED
  BY <1>1 DEF LeaseNext

(* scheduler-loop.ts: every step is at most one call on the lease. *)
LEMMA OneLeaseCall ==
    ASSUME SchedulerInv, [Next]_vars
    PROVE  [LeaseNext]_leaseVars
<1>1. PollsSound /\ LoopsSound
  BY DEF SchedulerInv
<1>2. ASSUME NEW i \in Instances, FindDue(i) \/ Renew(i) PROVE [LeaseNext]_leaseVars
  BY <1>2 DEF FindDue, Renew, LeaseNext
<1>3. ASSUME NEW i \in Instances, CommitBatch(i) PROVE [LeaseNext]_leaseVars
  BY <1>1, <1>3, PollStages, LeaseCalls DEF CommitBatch
<1>4. ASSUME NEW i \in Instances, FinishPoll(i) PROVE [LeaseNext]_leaseVars
  BY <1>1, <1>4, PollStages, LeaseCalls DEF FinishPoll
<1>5. ASSUME NEW i \in Instances, StopRelease(i) PROVE [LeaseNext]_leaseVars
  BY <1>1, <1>5, LeaseCalls DEF StopRelease, LoopsSound, LoopSound
<1>6. ASSUME NEW i \in Instances,
             LoadAndPlan(i) \/ Dispatch(i) \/ PollFails(i) \/ Stop(i) \/ Restart(i) \/ Crash(i)
      PROVE  UNCHANGED leaseVars
  BY <1>6 DEF LoadAndPlan, Dispatch, PollFails, Stop, Restart, Crash
<1>7. ASSUME NEW s \in Schedules,
             Register(s) \/ UpdateLoad(s) \/ PauseOrResume(s) \/ Unregister(s) \/ WriteInvalid(s) \/ EmitLoad(s)
      PROVE  UNCHANGED leaseVars
  BY <1>7 DEF Register, UpdateLoad, PauseOrResume, Unregister, WriteInvalid, EmitLoad
<1>8. ASSUME LateStart \/ AdminFinishes \/ EmitCommit \/ EmitDispatch \/ EmitRecord
      PROVE  UNCHANGED leaseVars
  BY <1>8 DEF LateStart, AdminFinishes, UpdateWrite, AdminSetNextRun, EmitCommit, EmitDispatch, EmitRecord
<1>9. CASE Clock
  BY <1>9 DEF Clock, LeaseNext
<1>10. CASE UNCHANGED vars
  BY <1>10 DEF vars
<1> QED
  BY <1>2, <1>3, <1>4, <1>5, <1>6, <1>7, <1>8, <1>9, <1>10 DEF Next, Poll

(* The clock does not go back, and no lease is forgotten. *)
LEMMA LeaseOnward ==
    ASSUME LeaseInv, [LeaseNext]_leaseVars
    PROVE  LeaseInv' /\ now \in Nat /\ now' \in Nat /\ now <= now' /\ granted \subseteq granted'
<1>1. LeaseInv' /\ now \in Nat /\ now' \in Nat
  BY LeaseStep DEF LeaseInv, LeaseTypeOK
<1> QED
  BY <1>1 DEF LeaseNext, leaseVars, Acquire, ReleaseLeader, FencedWrite, Tick

-----------------------------------------------------------------------------
(* The store, step by step. *)

StoreOnward ==
    /\ SchedTyped' /\ LogInv'
    /\ inserted \in Nat /\ inserted' \in Nat /\ inserted <= inserted' /\ runs \subseteq runs'
    /\ \A s \in Schedules : RowMoves(sched[s], sched'[s], inserted)

(* recordErrors commits no tick. *)
LEMMA ErrorsAreSound ==
    ASSUME SchedTyped, NEW s \in Schedules, NEW c \in CommitType
    PROVE  /\ CommitSound(ErrorUpdate(s, c), sched[s], now)
           /\ TicksOf(s, ErrorUpdate(s, c)) = {}
<1>1. nextRun[s] \in Nat
  BY DEF SchedTyped
<1>2. ErrorUpdate(s, c) \in CommitType /\ ErrorUpdate(s, c).ticks = <<>>
  <2> DEFINE none == <<>>
  <2>1. none \in Seq(Nat) /\ ErrorUpdate(s, c) = [c EXCEPT !.ticks = none, !.next = nextRun[s], !.guarded = TRUE]
    BY DEF ErrorUpdate
  <2> HIDE DEF none
  <2>2. ErrorUpdate(s, c) \in CommitType /\ ErrorUpdate(s, c).ticks = none
    BY <1>1, <2>1 DEF CommitType
  <2> QED
    BY <2>2 DEF none
<1> QED
  BY <1>2 DEF CommitSound, TicksOf

(* What a poll commits: sound plans whose every tick was dispatched. *)
LEMMA DeliveredIsSound ==
    ASSUME NEW i \in Instances, DeliverSound(poll[i]), poll[i].todo = {}
    PROVE  /\ DOMAIN Delivered(i) \subseteq Schedules
           /\ \A s \in DOMAIN Delivered(i) : CommitSound(Delivered(i)[s], sched[s], now)
           /\ \A s \in DOMAIN Delivered(i) : \A t \in TicksOf(s, Delivered(i)[s]) :
                 \E r \in runs : SameRun(r, t)
<1> DEFINE D == DOMAIN poll[i].plans \ (poll[i].failed \cup poll[i].skipped)
<1>1. /\ DOMAIN Delivered(i) = D
      /\ \A s \in D : Delivered(i)[s] = poll[i].plans[s]
  BY DEF Delivered, Restrict
<1>2. PlansSound(poll[i].plans) /\ DispatchedSo(poll[i])
  BY DEF DeliverSound
<1>3. \A s \in D : \A t \in TicksOf(s, poll[i].plans[s]) : \E r \in runs : SameRun(r, t)
  BY <1>2 DEF DispatchedSo
<1> QED
  BY <1>1, <1>2, <1>3 DEF PlansSound, PlanSound

(* The poll loops. *)
LEMMA LoopStore ==
    ASSUME SchedulerInv, now \in Nat, now' \in Nat, now <= now', NEW i \in Instances,
           Poll(i) \/ PollFails(i) \/ Renew(i) \/ Stop(i) \/ StopRelease(i) \/ Restart(i) \/ Crash(i)
    PROVE  StoreOnward
<1>0. SchedTyped /\ LogInv /\ PollsSound /\ inserted \in Nat /\ nextRun \in [Schedules -> Nat]
  BY DEF SchedulerInv, SchedTyped
<1>1. ASSUME UNCHANGED schedVars, inserted' = inserted, runs \subseteq runs' PROVE StoreOnward
  <2>1. SchedTyped' /\ LogInv' /\ \A s \in Schedules : RowMoves(sched[s], sched'[s], inserted)
    BY <1>0, <1>1, SameRows DEF schedVars
  <2> QED
    BY <1>0, <1>1, <2>1 DEF StoreOnward
<1>2. CASE \/ FindDue(i) \/ LoadAndPlan(i) \/ PollFails(i) \/ Renew(i) \/ Stop(i) \/ StopRelease(i)
           \/ Restart(i) \/ Crash(i)
  BY <1>1, <1>2 DEF FindDue, LoadAndPlan, PollFails, Renew, Stop, StopRelease, Restart, Crash
<1>3. CASE Dispatch(i)
  <2>1. runs \subseteq runs'
    BY <1>3 DEF Dispatch, Start
  <2> QED
    BY <1>1, <1>3, <2>1 DEF Dispatch
<1>4. CASE CommitBatch(i)
  <2>1. /\ DeliverSound(poll[i]) /\ poll[i].todo = {} /\ inserted' = inserted /\ runs' = runs
        /\ \/ FencedWrite(poll[i].epoch) /\ CommitPoll(Delivered(i), FALSE)
           \/ UNCHANGED schedVars
    BY <1>0, <1>4, PollStages DEF CommitBatch
  <2>2. CASE FencedWrite(poll[i].epoch) /\ CommitPoll(Delivered(i), FALSE)
    <3>1. now' = now
      BY <2>2 DEF FencedWrite
    <3>2. SchedTyped' /\ LogInv' /\ \A s \in Schedules : RowMoves(sched[s], sched'[s], inserted)
      BY <1>0, <2>1, <2>2, <3>1, DeliveredIsSound, CommitKeepsLog
    <3> QED
      BY <1>0, <2>1, <3>2 DEF StoreOnward
  <2> QED
    BY <1>1, <2>1, <2>2
<1>5. CASE FinishPoll(i)
  <2> DEFINE u == [s \in DOMAIN poll[i].failed |-> ErrorUpdate(s, poll[i].failed[s])]
  <2>1. /\ AfterSound(poll[i]) /\ inserted' = inserted /\ runs' = runs
        /\ \/ \E s \in poll[i].broken : SetEnabled(s, FALSE) /\ UNCHANGED leaseVars
           \/ FencedWrite(poll[i].epoch) /\ CommitPoll(u, FALSE)
           \/ UNCHANGED schedVars
    BY <1>0, <1>5, PollStages DEF FinishPoll
  <2>2. CASE \E s \in poll[i].broken : SetEnabled(s, FALSE) /\ UNCHANGED leaseVars
    <3>1. PICK s \in Schedules : SetEnabled(s, FALSE) /\ now' = now
      BY <2>1, <2>2 DEF AfterSound, leaseVars
    <3>2. SchedTyped' /\ LogInv' /\ \A z \in Schedules : RowMoves(sched[z], sched'[z], inserted)
      BY <1>0, <2>1, <3>1, SetEnabledKeepsLog
    <3> QED
      BY <1>0, <2>1, <3>2 DEF StoreOnward
  <2>3. CASE FencedWrite(poll[i].epoch) /\ CommitPoll(u, FALSE)
    <3>1. now' = now
      BY <2>3 DEF FencedWrite
    <3>2. ASSUME NEW s \in DOMAIN poll[i].failed
          PROVE  s \in Schedules /\ poll[i].failed[s] \in CommitType
      BY <2>1 DEF AfterSound, PlansSound, PlanSound, CommitSound
    <3>3. ASSUME NEW s \in DOMAIN u
          PROVE  s \in Schedules /\ CommitSound(u[s], sched[s], now) /\ TicksOf(s, u[s]) = {}
      BY <1>0, <3>2, ErrorsAreSound
    <3> HIDE DEF u
    <3>4. SchedTyped' /\ LogInv' /\ \A s \in Schedules : RowMoves(sched[s], sched'[s], inserted)
      BY <1>0, <2>1, <2>3, <3>1, <3>3, CommitKeepsLog
    <3> QED
      BY <1>0, <2>1, <3>4 DEF StoreOnward
  <2> QED
    BY <1>1, <2>1, <2>2, <2>3
<1> QED
  BY <1>2, <1>3, <1>4, <1>5 DEF Poll

(* Operators. *)
LEMMA AdminStore ==
    ASSUME SchedulerInv, now \in Nat, now' \in Nat, now <= now',
           \/ \E s \in Schedules : \/ Register(s) \/ UpdateLoad(s) \/ PauseOrResume(s) \/ Unregister(s)
                                   \/ WriteInvalid(s)
           \/ AdminFinishes
    PROVE  StoreOnward /\ AdminTyped'
<1>0. SchedTyped /\ LogInv /\ AdminTyped /\ inserted \in Nat /\ nextRun \in [Schedules -> Nat]
  BY DEF SchedulerInv, SchedTyped
<1>1. ASSUME NEW s \in Schedules, NEW enabled \in BOOLEAN, NEW interval \in {0} \cup Intervals,
             UpsertSchedule(s, enabled, interval), Inserts(s), now' = now, runs' = runs
      PROVE  StoreOnward
  BY <1>0, <1>1, UpsertKeepsLog DEF StoreOnward
<1>2. ASSUME sched' = sched, log' = log, inserted' = inserted, runs' = runs, nextRun' \in [Schedules -> Nat]
      PROVE  StoreOnward
  BY <1>0, <1>2, SameRows DEF StoreOnward
<1>3. ASSUME NEW s \in Schedules, Register(s) PROVE StoreOnward /\ AdminTyped'
  <2>1. PICK enabled \in BOOLEAN, interval \in Intervals :
          /\ UpsertSchedule(s, enabled, interval)
          /\ admin' = IF enabled THEN [stage |-> "set", id |-> s, interval |-> 0] ELSE admin
    BY <1>3 DEF Register
  <2>2. Inserts(s) /\ now' = now /\ runs' = runs
    BY <1>3 DEF Register, leaseVars
  <2>3. AdminTyped'
    BY <1>0, <2>1 DEF AdminTyped
  <2> QED
    BY <1>1, <2>1, <2>2, <2>3
<1>4. ASSUME NEW s \in Schedules, UpdateLoad(s) PROVE StoreOnward /\ AdminTyped'
  <2>1. StoreOnward
    BY <1>0, <1>2, <1>4 DEF UpdateLoad, schedVars
  <2>2. sched[s].enabled \in BOOLEAN
    BY <1>0 DEF SchedTyped, RowType
  <2> QED
    BY <1>4, <2>1, <2>2 DEF UpdateLoad, AdminTyped
<1>5. ASSUME NEW s \in Schedules, PauseOrResume(s) PROVE StoreOnward /\ AdminTyped'
  <2>1. SetEnabled(s, ~ sched[s].enabled) /\ now' = now /\ runs' = runs /\ inserted' = inserted
    BY <1>5 DEF PauseOrResume, leaseVars
  <2>2. (~ sched[s].enabled) \in BOOLEAN
    OBVIOUS
  <2>3. SchedTyped' /\ LogInv' /\ \A z \in Schedules : RowMoves(sched[z], sched'[z], inserted)
    BY <1>0, <2>1, <2>2, SetEnabledKeepsLog
  <2> QED
    BY <1>0, <1>5, <2>1, <2>3 DEF StoreOnward, PauseOrResume, AdminTyped
<1>6. ASSUME NEW s \in Schedules, Unregister(s) PROVE StoreOnward /\ AdminTyped'
  <2>1. SchedTyped' /\ LogInv' /\ \A z \in Schedules : RowMoves(sched[z], sched'[z], inserted)
    BY <1>0, <1>6, UnregisterKeepsLog
  <2> QED
    BY <1>0, <1>6, <2>1 DEF StoreOnward, Unregister, AdminTyped
<1>7. ASSUME NEW s \in Schedules, WriteInvalid(s) PROVE StoreOnward /\ AdminTyped'
  <2>1. UpsertSchedule(s, TRUE, 0) /\ Inserts(s) /\ now' = now /\ runs' = runs
    BY <1>7 DEF WriteInvalid, leaseVars
  <2>2. StoreOnward
    BY <1>1, <2>1
  <2> QED
    BY <1>0, <1>7, <2>2 DEF WriteInvalid, AdminTyped
<1>8. CASE UpdateWrite
  <2>1. admin.id \in Schedules /\ admin.interval \in Intervals /\ admin.enabled \in BOOLEAN
    BY <1>0, <1>8 DEF UpdateWrite, AdminTyped
  <2>2. UpsertSchedule(admin.id, admin.enabled, admin.interval) /\ Inserts(admin.id) /\ now' = now /\ runs' = runs
    BY <1>8 DEF UpdateWrite, leaseVars
  <2>3. StoreOnward
    BY <1>1, <2>1, <2>2
  <2>4. AdminTyped'
    BY <1>8, <2>1 DEF UpdateWrite, AdminTyped
  <2> QED
    BY <2>3, <2>4
<1>9. CASE AdminSetNextRun
  <2>1. admin.interval \in {0} \cup Intervals /\ admin.id \in Schedules
    BY <1>0, <1>9 DEF AdminSetNextRun, AdminTyped
  <2>2. admin.interval \in Nat
    BY <2>1, IntervalsAreNumbers
  <2>3. ComputeNextRun(admin) \in Nat
    BY <2>2, NextRuns
  <2>4. nextRun' \in [Schedules -> Nat]
    BY <1>0, <1>9, <2>1, <2>3 DEF AdminSetNextRun
  <2>5. StoreOnward
    BY <1>2, <1>9, <2>4 DEF AdminSetNextRun
  <2> QED
    BY <1>9, <2>5 DEF AdminSetNextRun, AdminTyped
<1> QED
  BY <1>3, <1>4, <1>5, <1>6, <1>7, <1>8, <1>9 DEF AdminFinishes

(* fireOnce: its tick is of now, so not before the last fire. *)
LEMMA EmitStore ==
    ASSUME SchedulerInv, now \in Nat, now' \in Nat, now <= now',
           (\E s \in Schedules : EmitLoad(s)) \/ EmitCommit \/ EmitDispatch \/ EmitRecord
    PROVE  StoreOnward /\ EmitTyped'
<1>0. SchedTyped /\ LogInv /\ EmitTyped /\ inserted \in Nat /\ nextRun \in [Schedules -> Nat]
  BY DEF SchedulerInv, SchedTyped
<1>1. ASSUME UNCHANGED schedVars, inserted' = inserted, runs \subseteq runs' PROVE StoreOnward
  BY <1>0, <1>1, SameRows DEF schedVars, StoreOnward
<1>2. ASSUME NEW s \in Schedules, EmitLoad(s) PROVE StoreOnward /\ EmitTyped'
  <2>1. sched[s] \in RowType
    BY <1>0 DEF SchedTyped
  <2>2. StoreOnward
    BY <1>1, <1>2 DEF EmitLoad
  <2> QED
    BY <1>2, <2>1, <2>2 DEF EmitLoad, EmitTyped
<1>3. ASSUME NEW u, NEW s \in Schedules, NEW c, u = [x \in {s} |-> c], CommitSound(c, sched[s], now),
             CommitPoll(u, TRUE), now' = now, inserted' = inserted, runs' = runs
      PROVE  StoreOnward
  <2>1. DOMAIN u \subseteq Schedules /\ \A z \in DOMAIN u : CommitSound(u[z], sched[z], now)
    BY <1>3
  <2>2. SchedTyped' /\ LogInv' /\ \A z \in Schedules : RowMoves(sched[z], sched'[z], inserted)
    BY <1>0, <1>3, <2>1, CommitKeepsLog
  <2> QED
    BY <1>0, <1>3, <2>2 DEF StoreOnward
<1>4. CASE EmitCommit
  <2> DEFINE s == emit.id
             T == <<now>>
             c == Commit(emit.row, T, ComputeNextRun(emit.row))
  <2>1. s \in Schedules /\ emit.row \in RowType
    BY <1>0, <1>4 DEF EmitCommit, EmitTyped
  <2>2. ComputeNextRun(emit.row) \in Nat
    <3>1. emit.row.interval \in {0} \cup Intervals
      BY <2>1 DEF RowType
    <3>2. emit.row.interval \in Nat
      BY <3>1, IntervalsAreNumbers
    <3> QED
      BY <3>2, NextRuns
  <2>3. T \in Seq(Nat) /\ DOMAIN T = {1} /\ T[1] = now
    OBVIOUS
  <2>4. CASE emit' = [stage |-> "idle"] /\ UNCHANGED schedVars
    <3>1. StoreOnward
      BY <1>1, <1>4, <2>4 DEF EmitCommit
    <3> QED
      BY <2>4, <3>1 DEF EmitTyped
  <2>5. CASE /\ CommitPoll([x \in {s} |-> c], TRUE)
             /\ \/ emit' = [stage |-> "retry", id |-> s]
                \/ emit' = [stage |-> "fired", id |-> s, commit |-> c]
    <3> HIDE DEF T
    <3>1. c \in CommitType /\ c.ticks = T /\ c.at = now /\ (T # <<>> => c.guarded)
      BY <2>1, <2>2, <2>3, CommitFields
    <3>2. sched[s].lastFired <= now
      BY <1>0, <2>1 DEF SchedTyped
    <3> HIDE DEF c
    <3>3. CommitSound(c, sched[s], now)
      BY <2>3, <3>1, <3>2 DEF CommitSound, TimesInOrder
    <3>4. now' = now /\ inserted' = inserted /\ runs' = runs
      BY <1>4 DEF EmitCommit, leaseVars
    <3>5. StoreOnward
      BY <1>3, <2>1, <2>5, <3>3, <3>4
    <3> QED
      BY <2>1, <2>5, <3>1, <3>5 DEF EmitTyped
  <2> QED
    BY <1>4, <2>4, <2>5 DEF EmitCommit
<1>5. CASE EmitDispatch
  <2>1. runs \subseteq runs' /\ UNCHANGED schedVars /\ inserted' = inserted
    BY <1>5 DEF EmitDispatch, Start
  <2>2. StoreOnward
    BY <1>1, <2>1
  <2>3. emit \in [stage : {"fired", "record"}, id : Schedules, commit : CommitType]
    BY <1>0, <1>5 DEF EmitDispatch, EmitTyped
  <2>4. emit' = [emit EXCEPT !.stage = "record"]
    BY <1>5 DEF EmitDispatch
  <2>5. emit' \in [stage : {"fired", "record"}, id : Schedules, commit : CommitType]
    BY <2>3, <2>4
  <2> QED
    BY <2>2, <2>5 DEF EmitTyped
<1>6. CASE EmitRecord
  <2>1. emit.id \in Schedules /\ emit.commit \in CommitType
    BY <1>0, <1>6 DEF EmitRecord, EmitTyped
  <2> DEFINE c == ErrorUpdate(emit.id, emit.commit)
             u == [x \in {emit.id} |-> ErrorUpdate(x, emit.commit)]
  <2>2. CommitSound(c, sched[emit.id], now)
    BY <1>0, <2>1, ErrorsAreSound
  <2>3. u = [x \in {emit.id} |-> c]
    OBVIOUS
  <2>4. CommitPoll(u, TRUE) /\ now' = now /\ inserted' = inserted /\ runs' = runs
    BY <1>6 DEF EmitRecord, leaseVars
  <2> HIDE DEF c, u
  <2>5. StoreOnward
    BY <1>3, <2>1, <2>2, <2>3, <2>4
  <2> QED
    BY <1>6, <2>5 DEF EmitRecord, EmitTyped
<1> QED
  BY <1>2, <1>4, <1>5, <1>6

(* Every step moves the store on. *)
LEMMA StoreStep ==
    ASSUME SchedulerInv, [Next]_vars, now \in Nat, now' \in Nat, now <= now'
    PROVE  StoreOnward /\ AdminTyped' /\ EmitTyped'
<1>0. SchedTyped /\ LogInv /\ AdminTyped /\ EmitTyped /\ inserted \in Nat /\ nextRun \in [Schedules -> Nat]
  BY DEF SchedulerInv, SchedTyped
<1>1. ASSUME admin' = admin PROVE AdminTyped'
  BY <1>0, <1>1 DEF AdminTyped
<1>2. ASSUME emit' = emit PROVE EmitTyped'
  BY <1>0, <1>2 DEF EmitTyped
<1>3. ASSUME NEW i \in Instances,
             Poll(i) \/ PollFails(i) \/ Renew(i) \/ Stop(i) \/ StopRelease(i) \/ Restart(i) \/ Crash(i)
      PROVE  StoreOnward /\ AdminTyped' /\ EmitTyped'
  <2>1. admin' = admin /\ emit' = emit
    BY <1>3 DEF Poll, FindDue, LoadAndPlan, Dispatch, CommitBatch, FinishPoll, PollFails, Renew, Stop,
                StopRelease, Restart, Crash
  <2> QED
    BY <1>1, <1>2, <1>3, <2>1, LoopStore
<1>4. CASE \/ \E s \in Schedules : \/ Register(s) \/ UpdateLoad(s) \/ PauseOrResume(s) \/ Unregister(s)
                                   \/ WriteInvalid(s)
           \/ AdminFinishes
  <2>1. emit' = emit
    BY <1>4 DEF Register, UpdateLoad, PauseOrResume, Unregister, WriteInvalid, AdminFinishes,
                UpdateWrite, AdminSetNextRun
  <2> QED
    BY <1>2, <1>4, <2>1, AdminStore
<1>5. CASE (\E s \in Schedules : EmitLoad(s)) \/ EmitCommit \/ EmitDispatch \/ EmitRecord
  <2>1. admin' = admin
    BY <1>5 DEF EmitLoad, EmitCommit, EmitDispatch, EmitRecord
  <2> QED
    BY <1>1, <1>5, <2>1, EmitStore
<1>6. CASE Clock \/ LateStart \/ UNCHANGED vars
  <2>1. UNCHANGED schedVars /\ inserted' = inserted /\ runs \subseteq runs' /\ admin' = admin /\ emit' = emit
    BY <1>6 DEF Clock, LateStart, Start, vars
  <2>2. StoreOnward
    BY <1>0, <2>1, SameRows DEF schedVars, StoreOnward
  <2> QED
    BY <1>1, <1>2, <2>1, <2>2
<1> QED
  BY <1>3, <1>4, <1>5, <1>6 DEF Next

-----------------------------------------------------------------------------
(* What loops and polls keep in memory. *)

(* One loop changes. *)
LEMMA OneLoop ==
    ASSUME LoopsSound, granted \subseteq granted', NEW i \in Instances, NEW l,
           loop' = [loop EXCEPT ![i] = l], LoopSound(i, l, granted')
    PROVE  LoopsSound'
<1>1. ASSUME NEW j \in Instances PROVE LoopSound(j, loop'[j], granted')
  BY DEF LoopsSound, LoopSound
<1>2. loop' = [j \in Instances |-> loop'[j]]
  BY DEF LoopsSound
<1> QED
  BY <1>1, <1>2 DEF LoopsSound

(* A loop holds a lease it was handed, or none. *)
LEMMA LoopsStep ==
    ASSUME SchedulerInv, [Next]_vars, LeaseInv', granted \subseteq granted'
    PROVE  LoopsSound'
<1>1. LoopsSound /\ \A i \in Instances : LoopSound(i, loop[i], granted)
  BY DEF SchedulerInv, LoopsSound
<1>2. ASSUME loop' = loop PROVE LoopsSound'
  BY <1>1, <1>2 DEF LoopsSound, LoopSound
<1>3. ASSUME NEW i \in Instances, NEW h, loop' = [loop EXCEPT ![i].held = h], h = 0 \/ <<i, h>> \in granted'
      PROVE  LoopsSound'
  <2> DEFINE l == [loop[i] EXCEPT !.held = h]
  <2>1. loop' = [loop EXCEPT ![i] = l]
    BY <1>1, <1>3 DEF LoopsSound
  <2>2. LoopSound(i, l, granted')
    BY <1>1, <1>3 DEF LoopSound
  <2> HIDE DEF l
  <2> QED
    BY <1>1, <2>1, <2>2, OneLoop
<1>4. ASSUME NEW i \in Instances, NEW b, loop' = [loop EXCEPT ![i].backoff = b]
      PROVE  LoopsSound'
  <2> DEFINE l == [loop[i] EXCEPT !.backoff = b]
  <2>1. loop' = [loop EXCEPT ![i] = l]
    BY <1>1, <1>4 DEF LoopsSound
  <2>2. LoopSound(i, l, granted')
    BY <1>1 DEF LoopSound
  <2> HIDE DEF l
  <2> QED
    BY <1>1, <2>1, <2>2, OneLoop
<1>5. ASSUME NEW i \in Instances, NEW on, loop' = [loop EXCEPT ![i].running = on]
      PROVE  LoopsSound'
  <2> DEFINE l == [loop[i] EXCEPT !.running = on]
  <2>1. loop' = [loop EXCEPT ![i] = l]
    BY <1>1, <1>5 DEF LoopsSound
  <2>2. LoopSound(i, l, granted')
    BY <1>1 DEF LoopSound
  <2> HIDE DEF l
  <2> QED
    BY <1>1, <2>1, <2>2, OneLoop
<1>6. ASSUME NEW i \in Instances, Acquire(i) PROVE <<i, leader'.epoch>> \in granted'
  BY <1>6 DEF Acquire
<1>7. ASSUME NEW i \in Instances, FindDue(i) PROVE LoopsSound'
  <2>1. \/ loop' = loop
        \/ Acquire(i) /\ loop' = [loop EXCEPT ![i].held = leader'.epoch]
        \/ loop' = [loop EXCEPT ![i].held = 0]
    BY <1>7 DEF FindDue
  <2> QED
    BY <1>2, <1>3, <1>6, <2>1
<1>8. ASSUME NEW i \in Instances, Renew(i) PROVE LoopsSound'
  <2>1. \/ Acquire(i) /\ loop' = [loop EXCEPT ![i].held = leader'.epoch]
        \/ loop' = [loop EXCEPT ![i].held = 0]
    BY <1>8 DEF Renew
  <2> QED
    BY <1>3, <1>6, <2>1
<1>9. ASSUME NEW i \in Instances, LoadAndPlan(i) PROVE LoopsSound'
  <2>1. \E b : loop' = [loop EXCEPT ![i].backoff = b]
    BY <1>9 DEF LoadAndPlan
  <2> QED
    BY <1>4, <2>1
<1>10. ASSUME NEW i \in Instances, CommitBatch(i) PROVE LoopsSound'
  <2>1. \E b : loop' = [loop EXCEPT ![i].backoff = b]
    BY <1>10 DEF CommitBatch
  <2> QED
    BY <1>4, <2>1
<1>11. ASSUME NEW i \in Instances, Stop(i) \/ Restart(i) PROVE LoopsSound'
  BY <1>5, <1>11 DEF Stop, Restart
<1>12. ASSUME NEW i \in Instances, StopRelease(i) PROVE LoopsSound'
  BY <1>3, <1>12 DEF StopRelease
<1>13. ASSUME NEW i \in Instances, Crash(i) PROVE LoopsSound'
  <2>1. LoopSound(i, Started, granted')
    BY DEF LoopSound, Started
  <2> QED
    BY <1>1, <1>13, <2>1, OneLoop DEF Crash
<1>14. ASSUME NEW i \in Instances, Dispatch(i) \/ FinishPoll(i) \/ PollFails(i) PROVE LoopsSound'
  BY <1>2, <1>14 DEF Dispatch, FinishPoll, PollFails
<1>15. CASE \E s \in Schedules : \/ Register(s) \/ UpdateLoad(s) \/ PauseOrResume(s) \/ Unregister(s)
                                 \/ WriteInvalid(s) \/ EmitLoad(s)
  BY <1>2, <1>15 DEF Register, UpdateLoad, PauseOrResume, Unregister, WriteInvalid, EmitLoad
<1>16. CASE Clock \/ LateStart \/ AdminFinishes \/ EmitCommit \/ EmitDispatch \/ EmitRecord \/ UNCHANGED vars
  BY <1>2, <1>16 DEF Clock, LateStart, AdminFinishes, UpdateWrite, AdminSetNextRun, EmitCommit,
                     EmitDispatch, EmitRecord, vars
<1> QED
  BY <1>7, <1>8, <1>9, <1>10, <1>11, <1>12, <1>13, <1>14, <1>15, <1>16 DEF Next, Poll

(* A step that moves the store on, seen by what polls have in hand. *)
Onward ==
    /\ SchedTyped /\ StoreOnward /\ granted \subseteq granted'
    /\ now \in Nat /\ now' \in Nat /\ now <= now'

(* Plans stay sound, *)
LEMMA PlansStay ==
    ASSUME Onward, NEW plans, PlansSound(plans)
    PROVE  PlansSound(plans)'
<1>1. ASSUME NEW s \in DOMAIN plans PROVE PlanSound(plans[s], sched'[s], now', inserted')
  <2>1. s \in Schedules /\ PlanSound(plans[s], sched[s], now, inserted)
    BY DEF PlansSound
  <2>2. /\ sched[s] \in RowType /\ sched'[s] \in RowType /\ RowMoves(sched[s], sched'[s], inserted)
        /\ inserted \in Nat /\ inserted' \in Nat /\ inserted <= inserted'
    BY <2>1 DEF Onward, StoreOnward, SchedTyped
  <2> QED
    BY <2>1, <2>2, PlanStays DEF Onward
<1> QED
  BY <1>1 DEF PlansSound

(* and so do whole polls. *)
LEMMA PollStays ==
    ASSUME Onward, NEW i \in Instances, NEW p, PollSound(i, p)
    PROVE  PollSound(i, p)'
<1>1. CASE p = NoPoll
  BY <1>1 DEF PollSound, NoPoll
<1>2. ASSUME <<i, p.epoch>> \in granted PROVE <<i, p.epoch>> \in granted'
  BY <1>2 DEF Onward
<1>3. CASE FoundSound(p) /\ <<i, p.epoch>> \in granted
  BY <1>2, <1>3 DEF PollSound, FoundSound
<1>4. CASE DeliverSound(p) /\ <<i, p.epoch>> \in granted
  <2>1. PlansSound(p.plans)'
    BY <1>4, PlansStay DEF DeliverSound
  <2>2. DispatchedSo(p)'
    BY <1>4 DEF DeliverSound, DispatchedSo, Onward, StoreOnward
  <2> QED
    BY <1>2, <1>4, <2>1, <2>2 DEF PollSound, DeliverSound
<1>5. CASE AfterSound(p) /\ <<i, p.epoch>> \in granted
  <2>1. PlansSound(p.failed)'
    BY <1>5, PlansStay DEF AfterSound
  <2> QED
    BY <1>2, <1>5, <2>1 DEF PollSound, AfterSound
<1> QED
  BY <1>1, <1>3, <1>4, <1>5 DEF PollSound

(* The poll of one instance is what it is, whoever holds it. *)
LEMMA SamePoll ==
    ASSUME NEW i, NEW p, p = poll'[i], PollSound(i, p)'
    PROVE  PollSound(i, poll[i])'
BY DEF PollSound, FoundSound, DeliverSound, AfterSound, PlansSound, DispatchedSo, NoPoll

(* One poll changes. *)
LEMMA OnePoll ==
    ASSUME Onward, PollsSound, NEW i \in Instances, NEW q, poll' = [poll EXCEPT ![i] = q],
           PollSound(i, q)'
    PROVE  PollsSound'
<1>1. ASSUME NEW j \in Instances PROVE PollSound(j, poll[j])'
  <2>1. PICK p : p = poll'[j]
    OBVIOUS
  <2>2. CASE j = i
    <3>1. p = q
      BY <2>1, <2>2 DEF PollsSound
    <3> QED
      BY <2>1, <2>2, <3>1, SamePoll
  <2>3. CASE j # i
    <3>1. p = poll[j]
      BY <2>1, <2>3 DEF PollsSound
    <3>2. PollSound(j, p)
      BY <3>1 DEF PollsSound
    <3> QED
      BY <2>1, <3>2, PollStays, SamePoll
  <2> QED
    BY <2>2, <2>3
<1>2. poll' = [j \in Instances |-> poll'[j]]
  BY DEF PollsSound
<1> QED
  BY <1>1, <1>2 DEF PollsSound

(* No poll changes. *)
LEMMA SamePolls ==
    ASSUME Onward, PollsSound, poll' = poll
    PROVE  PollsSound'
<1>1. ASSUME NEW j \in Instances PROVE PollSound(j, poll[j])'
  <2>1. PICK p : p = poll[j]
    OBVIOUS
  <2>2. PollSound(j, p)
    BY <2>1 DEF PollsSound
  <2> QED
    BY <2>1, <2>2, PollStays, SamePoll
<1> QED
  BY <1>1 DEF PollsSound

(* A part of sound plans is sound. *)
LEMMA PartOfPlans ==
    ASSUME NEW plans, PlansSound(plans), NEW S, S \subseteq DOMAIN plans
    PROVE  PlansSound(Restrict(plans, S)) /\ DOMAIN Restrict(plans, S) = S
           /\ \A s \in S : Restrict(plans, S)[s] = plans[s]
<1> DEFINE f == [s \in S |-> plans[s]]
<1>1. DOMAIN f = S /\ (\A s \in S : f[s] = plans[s]) /\ f = [s \in DOMAIN f |-> f[s]]
  OBVIOUS
<1>2. Restrict(plans, S) = f
  BY DEF Restrict
<1> HIDE DEF f
<1>3. PlansSound(f)
  BY <1>1 DEF PlansSound
<1> QED
  BY <1>1, <1>2, <1>3

(* acquireLease and findDue. *)
LEMMA FindDuePolls ==
    ASSUME Onward, PollsSound, LeaseInv', NEW i \in Instances, FindDue(i)
    PROVE  PollsSound'
<1>1. CASE poll' = poll
  BY <1>1, SamePolls
<1>2. ASSUME NEW b \in DueBatches, Acquire(i),
             poll' = [poll EXCEPT ![i] = [stage |-> "found", epoch |-> leader'.epoch, ids |-> b]]
      PROVE  PollsSound'
  <2>1. PICK q : q = [stage |-> "found", epoch |-> leader'.epoch, ids |-> b]
    OBVIOUS
  <2>2. leader'.epoch \in Nat /\ <<i, leader'.epoch>> \in granted'
    BY <1>2 DEF Acquire, LeaseInv, LeaseTypeOK, LeaseRecord
  <2>3. b \subseteq Schedules
    BY <1>2 DEF DueBatches
  <2>4. PollSound(i, q)'
    BY <2>1, <2>2, <2>3 DEF PollSound, FoundSound
  <2> QED
    BY <1>2, <2>1, <2>4, OnePoll
<1> QED
  BY <1>1, <1>2 DEF FindDue

(* A poll that ends, or is lost with its process. *)
LEMMA PollEnds ==
    ASSUME Onward, PollsSound, NEW i \in Instances, poll' = [poll EXCEPT ![i] = NoPoll]
    PROVE  PollsSound'
<1>1. PollSound(i, NoPoll)'
  BY DEF PollSound, NoPoll
<1> QED
  BY <1>1, OnePoll

(* processDueIds: load and plan. *)
LEMMA LoadPolls ==
    ASSUME Onward, PollsSound, NEW i \in Instances, LoadAndPlan(i)
    PROVE  PollsSound'
<1>1. PICK plans \in [poll[i].ids -> UNION {PlanDueTicks(sched[s]) : s \in poll[i].ids}] :
        /\ \A s \in poll[i].ids : plans[s] \in PlanDueTicks(sched[s])
        /\ LET tickless == {s \in poll[i].ids : plans[s].ticks = <<>>}
               deliver == {s \in poll[i].ids : s \in tickless \/ ~BackingOff(i, s)}
           IN  poll' = [poll EXCEPT ![i] =
                             [stage |-> "deliver", epoch |-> @.epoch,
                              plans |-> Restrict(plans, deliver),
                              todo |-> UNION {TicksOf(s, plans[s]) : s \in deliver},
                              failed |-> {}, skipped |-> {}, lost |-> FALSE]]
  BY DEF LoadAndPlan
<1> DEFINE tickless == {s \in poll[i].ids : plans[s].ticks = <<>>}
           deliver == {s \in poll[i].ids : s \in tickless \/ ~BackingOff(i, s)}
           part == Restrict(plans, deliver)
<1>2. FoundSound(poll[i]) /\ <<i, poll[i].epoch>> \in granted /\ UNCHANGED <<sched, now, inserted, granted>>
  BY PollStages DEF LoadAndPlan, leaseVars, schedVars
<1>3. PlansSound(plans)
  <2>1. DOMAIN plans = poll[i].ids /\ poll[i].ids \subseteq Schedules
    BY <1>2 DEF FoundSound
  <2>2. ASSUME NEW s \in DOMAIN plans PROVE PlanSound(plans[s], sched[s], now, inserted)
    <3>1. s \in Schedules /\ plans[s] \in PlanDueTicks(sched[s])
      BY <1>1, <2>1
    <3>2. /\ sched[s] \in RowType /\ sched[s].lastFired <= now /\ inserted \in Nat
          /\ sched[s].incarnation <= inserted /\ now \in Nat
      BY <3>1 DEF Onward, SchedTyped
    <3> QED
      BY <3>1, <3>2, PlansAreSound
  <2>3. plans = [s \in DOMAIN plans |-> plans[s]]
    BY <2>1
  <2> QED
    BY <2>1, <2>2, <2>3 DEF PlansSound
<1>4. deliver \subseteq DOMAIN plans
  OBVIOUS
<1>5. PICK q : q = [stage |-> "deliver", epoch |-> poll[i].epoch, plans |-> part,
                    todo |-> UNION {TicksOf(s, plans[s]) : s \in deliver},
                    failed |-> {}, skipped |-> {}, lost |-> FALSE]
  OBVIOUS
<1>6. poll' = [poll EXCEPT ![i] = q]
  BY <1>1, <1>5 DEF PollsSound
<1> HIDE DEF deliver
<1>7. PlansSound(part) /\ DOMAIN part = deliver /\ \A s \in deliver : part[s] = plans[s]
  BY <1>3, <1>4, PartOfPlans
<1> HIDE DEF part
<1>8. /\ q.stage = "deliver" /\ q.plans = part /\ q.failed = {} /\ q.skipped = {} /\ q.epoch = poll[i].epoch
      /\ q.todo = UNION {TicksOf(s, plans[s]) : s \in deliver}
      /\ q \in [stage : {"deliver"}, epoch : {q.epoch}, plans : {q.plans}, todo : {q.todo},
                failed : {q.failed}, skipped : {q.skipped}, lost : {q.lost}]
  BY <1>5
<1>9. ASSUME NEW s \in deliver, NEW t \in TicksOf(s, plans[s]) PROVE t.schedule = s /\ t \in q.todo
  BY <1>8 DEF TicksOf, TickAt
<1>10. \A t \in q.todo : t.schedule \in DOMAIN q.plans
  BY <1>7, <1>8, <1>9
<1>11. PlansSound(q.plans)'
  <2>1. PICK f : f = q.plans
    OBVIOUS
  <2>2. PlansSound(f)
    BY <1>7, <1>8, <2>1
  <2> QED
    BY <2>1, <2>2, PlansStay
<1>12. DispatchedSo(q)'
  BY <1>7, <1>8, <1>9 DEF DispatchedSo
<1>13. PollSound(i, q)'
  BY <1>2, <1>8, <1>10, <1>11, <1>12 DEF PollSound, DeliverSound
<1> QED
  BY <1>6, <1>13, OnePoll

(* A dispatched tick leaves the batch; its run is there, or its schedule   *)
(* is not committed.                                                       *)
LEMMA OneDispatch ==
    ASSUME Onward, NEW p, DeliverSound(p), NEW t \in p.todo, NEW q,
           q \in [stage : {"deliver"}, epoch : {q.epoch}, plans : {q.plans}, todo : {q.todo},
                  failed : {q.failed}, skipped : {q.skipped}, lost : {q.lost}],
           q.plans = p.plans, q.todo = p.todo \ {t},
           p.failed \subseteq q.failed, p.skipped \subseteq q.skipped,
           q.failed \subseteq p.failed \cup {t.schedule}, q.skipped \subseteq p.skipped \cup {t.schedule},
           t.schedule \in q.failed \cup q.skipped \/ \E r \in runs' : SameRun(r, t)
    PROVE  DeliverSound(q)'
<1>1. PlansSound(q.plans)'
  <2>1. PICK f : f = q.plans
    OBVIOUS
  <2>2. PlansSound(f)
    BY <2>1 DEF DeliverSound
  <2> QED
    BY <2>1, <2>2, PlansStay
<1>2. /\ q.failed \subseteq DOMAIN q.plans /\ q.skipped \subseteq DOMAIN q.plans
      /\ \A u \in q.todo : u.schedule \in DOMAIN q.plans
  BY DEF DeliverSound
<1>3. ASSUME NEW s \in DOMAIN q.plans \ (q.failed \cup q.skipped), NEW u \in TicksOf(s, q.plans[s])
      PROVE  u \in q.todo \/ \E r \in runs' : SameRun(r, u)
  <2>1. s \in DOMAIN p.plans \ (p.failed \cup p.skipped) /\ u \in TicksOf(s, p.plans[s])
    OBVIOUS
  <2>2. u \in p.todo \/ \E r \in runs : SameRun(r, u)
    BY <2>1 DEF DeliverSound, DispatchedSo
  <2>3. u.schedule = s
    BY DEF TicksOf, TickAt
  <2>4. runs \subseteq runs'
    BY DEF Onward, StoreOnward
  <2> QED
    BY <2>2, <2>3, <2>4
<1>4. DispatchedSo(q)'
  BY <1>3 DEF DispatchedSo
<1>5. q.stage = "deliver"
  OBVIOUS
<1> QED
  BY <1>1, <1>2, <1>4, <1>5 DEF DeliverSound

(* dispatchTick, in all its outcomes. *)
LEMMA DispatchPolls ==
    ASSUME Onward, PollsSound, NEW i \in Instances, Dispatch(i)
    PROVE  PollsSound'
<1>1. PICK p : p = poll[i]
  OBVIOUS
<1>2. DeliverSound(p) /\ <<i, p.epoch>> \in granted /\ granted' = granted
  BY <1>1, PollStages DEF Dispatch, leaseVars
<1>3. ASSUME NEW t \in p.todo, NEW F, NEW S,
             poll' = [poll EXCEPT ![i].todo = @ \ {t}, ![i].failed = F, ![i].skipped = S],
             p.failed \subseteq F, p.skipped \subseteq S,
             F \subseteq p.failed \cup {t.schedule}, S \subseteq p.skipped \cup {t.schedule},
             t.schedule \in F \cup S \/ \E r \in runs' : SameRun(r, t)
      PROVE  PollsSound'
  <2>1. PICK q : q = [p EXCEPT !.todo = @ \ {t}, !.failed = F, !.skipped = S]
    OBVIOUS
  <2>2. poll' = [poll EXCEPT ![i] = q]
    BY <1>1, <1>3, <2>1 DEF PollsSound
  <2>3. /\ q \in [stage : {"deliver"}, epoch : {q.epoch}, plans : {q.plans}, todo : {q.todo},
                  failed : {q.failed}, skipped : {q.skipped}, lost : {q.lost}]
        /\ q.plans = p.plans /\ q.todo = p.todo \ {t} /\ q.failed = F /\ q.skipped = S /\ q.epoch = p.epoch
    BY <1>2, <2>1 DEF DeliverSound
  <2>4. DeliverSound(q)'
    BY <1>2, <1>3, <2>3, OneDispatch
  <2>5. PollSound(i, q)'
    BY <1>2, <2>3, <2>4 DEF PollSound
  <2> QED
    BY <2>2, <2>5, OnePoll
<1>4. p \in [stage : {"deliver"}, epoch : {p.epoch}, plans : {p.plans}, todo : {p.todo},
             failed : {p.failed}, skipped : {p.skipped}, lost : {p.lost}]
  BY <1>2 DEF DeliverSound
<1>5. PICK t \in p.todo :
        \/ runs' = Start(t) /\ poll' = [poll EXCEPT ![i].todo = @ \ {t}]
        \/ t.schedule \in p.failed /\ poll' = [poll EXCEPT ![i].todo = @ \ {t}]
        \/ poll' = [poll EXCEPT ![i].todo = @ \ {t}, ![i].skipped = @ \cup {t.schedule}]
        \/ poll' = [poll EXCEPT ![i].todo = @ \ {t}, ![i].failed = @ \cup {t.schedule}]
  BY <1>1 DEF Dispatch
<1>6. ASSUME NEW T
      PROVE  /\ [p EXCEPT !.todo = T] = [p EXCEPT !.todo = T, !.failed = p.failed, !.skipped = p.skipped]
             /\ [p EXCEPT !.todo = T, !.skipped = p.skipped \cup {t.schedule}]
                  = [p EXCEPT !.todo = T, !.failed = p.failed, !.skipped = p.skipped \cup {t.schedule}]
             /\ [p EXCEPT !.todo = T, !.failed = p.failed \cup {t.schedule}]
                  = [p EXCEPT !.todo = T, !.failed = p.failed \cup {t.schedule}, !.skipped = p.skipped]
  BY <1>4
<1>7. CASE poll' = [poll EXCEPT ![i].todo = @ \ {t}] /\ (runs' = Start(t) \/ t.schedule \in p.failed)
  <2>1. poll' = [poll EXCEPT ![i].todo = @ \ {t}, ![i].failed = p.failed, ![i].skipped = p.skipped]
    BY <1>1, <1>6, <1>7 DEF PollsSound
  <2>2. runs' = Start(t) => \E r \in runs' : SameRun(r, t)
    BY DEF Start, SameRun
  <2> QED
    BY <1>3, <1>7, <2>1, <2>2
<1>8. CASE poll' = [poll EXCEPT ![i].todo = @ \ {t}, ![i].skipped = @ \cup {t.schedule}]
  <2>1. poll' = [poll EXCEPT ![i].todo = @ \ {t}, ![i].failed = p.failed,
                             ![i].skipped = p.skipped \cup {t.schedule}]
    BY <1>1, <1>6, <1>8 DEF PollsSound
  <2> QED
    BY <1>3, <2>1
<1>9. CASE poll' = [poll EXCEPT ![i].todo = @ \ {t}, ![i].failed = @ \cup {t.schedule}]
  <2>1. poll' = [poll EXCEPT ![i].todo = @ \ {t}, ![i].failed = p.failed \cup {t.schedule},
                             ![i].skipped = p.skipped]
    BY <1>1, <1>6, <1>9 DEF PollsSound
  <2> QED
    BY <1>3, <2>1
<1> QED
  BY <1>5, <1>7, <1>8, <1>9

(* keepLease. *)
LEMMA RenewPolls ==
    ASSUME Onward, PollsSound, NEW i \in Instances, Renew(i)
    PROVE  PollsSound'
<1>1. PICK p : p = poll[i]
  OBVIOUS
<1>2. DeliverSound(p) /\ <<i, p.epoch>> \in granted
  BY <1>1, PollStages DEF Renew
<1>3. PICK q, lost : q = [p EXCEPT !.lost = lost] /\ poll' = [poll EXCEPT ![i] = q]
  <2>1. \E lost : poll' = [poll EXCEPT ![i].lost = lost]
    BY DEF Renew
  <2> QED
    BY <1>1, <2>1 DEF PollsSound
<1>4. PollSound(i, p)'
  BY <1>2, PollStays DEF PollSound
<1>5. p.stage = "deliver" /\ NoPoll.stage = "idle"
  BY <1>2 DEF DeliverSound, NoPoll
<1>6. DeliverSound(p)' /\ <<i, p.epoch>> \in granted'
  BY <1>4, <1>5 DEF PollSound, FoundSound, AfterSound
<1>7. /\ q \in [stage : {"deliver"}, epoch : {q.epoch}, plans : {q.plans}, todo : {q.todo},
                failed : {q.failed}, skipped : {q.skipped}, lost : {q.lost}]
      /\ q.stage = "deliver" /\ q.plans = p.plans /\ q.todo = p.todo /\ q.failed = p.failed
      /\ q.skipped = p.skipped /\ q.epoch = p.epoch
  BY <1>2, <1>3 DEF DeliverSound
<1>8. DeliverSound(q)'
  BY <1>6, <1>7 DEF DeliverSound, PlansSound, DispatchedSo
<1> QED
  BY <1>3, <1>6, <1>7, <1>8, OnePoll DEF PollSound

(* The commit of a batch leaves its failures to be recorded. *)
LEMMA CommitPolls ==
    ASSUME Onward, PollsSound, NEW i \in Instances, CommitBatch(i)
    PROVE  PollsSound'
<1>1. PICK p : p = poll[i]
  OBVIOUS
<1>2. DeliverSound(p) /\ <<i, p.epoch>> \in granted
  BY <1>1, PollStages DEF CommitBatch
<1>3. PICK broken : broken \subseteq DOMAIN Delivered(i) /\ poll' = [poll EXCEPT ![i] = AfterCommit(i, broken)]
  BY DEF CommitBatch
<1>4. CASE AfterCommit(i, broken) = NoPoll
  BY <1>3, <1>4, PollEnds
<1>5. CASE AfterCommit(i, broken) = [stage |-> "after", epoch |-> p.epoch, broken |-> broken,
                                     failed |-> Restrict(p.plans, p.failed)]
  <2>1. PICK q : q = [stage |-> "after", epoch |-> p.epoch, broken |-> broken,
                      failed |-> Restrict(p.plans, p.failed)]
    OBVIOUS
  <2>2. broken \subseteq Schedules
    <3>1. DOMAIN Delivered(i) \subseteq DOMAIN p.plans
      BY <1>1 DEF Delivered, Restrict
    <3> QED
      BY <1>2, <1>3, <3>1 DEF DeliverSound, PlansSound
  <2>3. PICK f : f = Restrict(p.plans, p.failed)
    OBVIOUS
  <2>4. PlansSound(f)
    BY <1>2, <2>3, PartOfPlans DEF DeliverSound
  <2>5. PlansSound(f)'
    BY <2>4, PlansStay
  <2>6. /\ q.stage = "after" /\ q.epoch = p.epoch /\ q.broken = broken /\ q.failed = f
        /\ q \in [stage : {"after"}, epoch : {q.epoch}, broken : {q.broken}, failed : {q.failed}]
    BY <2>1, <2>3
  <2>7. AfterSound(q)'
    BY <2>2, <2>5, <2>6 DEF AfterSound, PlansSound
  <2>8. PollSound(i, q)'
    BY <1>2, <2>6, <2>7 DEF PollSound, Onward
  <2> QED
    BY <1>3, <1>5, <2>1, <2>8, OnePoll
<1> QED
  BY <1>1, <1>4, <1>5 DEF AfterCommit

(* The rest of the poll. *)
LEMMA FinishPolls ==
    ASSUME Onward, PollsSound, NEW i \in Instances, FinishPoll(i)
    PROVE  PollsSound'
<1>1. PICK p : p = poll[i]
  OBVIOUS
<1>2. AfterSound(p) /\ <<i, p.epoch>> \in granted
  BY <1>1, PollStages DEF FinishPoll
<1>3. CASE poll' = [poll EXCEPT ![i] = NoPoll]
  BY <1>3, PollEnds
<1>4. ASSUME NEW s, poll' = [poll EXCEPT ![i] = [p EXCEPT !.broken = @ \ {s}]]
      PROVE  PollsSound'
  <2>1. PICK q : q = [p EXCEPT !.broken = @ \ {s}]
    OBVIOUS
  <2>2. /\ q.stage = "after" /\ q.epoch = p.epoch /\ q.broken = p.broken \ {s} /\ q.failed = p.failed
        /\ q \in [stage : {"after"}, epoch : {q.epoch}, broken : {q.broken}, failed : {q.failed}]
    BY <1>2, <2>1 DEF AfterSound
  <2>3. PICK f : f = p.failed
    OBVIOUS
  <2>4. PlansSound(f)'
    BY <1>2, <2>3, PlansStay DEF AfterSound
  <2>5. AfterSound(q)'
    BY <1>2, <2>2, <2>3, <2>4 DEF AfterSound, PlansSound
  <2>6. PollSound(i, q)'
    BY <1>2, <2>2, <2>5 DEF PollSound, Onward
  <2> QED
    BY <1>4, <2>1, <2>6, OnePoll
<1>5. \/ poll' = [poll EXCEPT ![i] = NoPoll]
      \/ \E s : poll' = [poll EXCEPT ![i] = [p EXCEPT !.broken = @ \ {s}]]
  <2>1. ASSUME NEW s,
               poll' = [poll EXCEPT ![i] = IF p.broken = {s} /\ DOMAIN p.failed = {} THEN NoPoll
                                            ELSE [p EXCEPT !.broken = @ \ {s}]]
        PROVE  \/ poll' = [poll EXCEPT ![i] = NoPoll]
               \/ poll' = [poll EXCEPT ![i] = [p EXCEPT !.broken = @ \ {s}]]
    <3>1. CASE p.broken = {s} /\ DOMAIN p.failed = {}
      BY <2>1, <3>1
    <3>2. CASE ~(p.broken = {s} /\ DOMAIN p.failed = {})
      BY <2>1, <3>2
    <3> QED
      BY <3>1, <3>2
  <2>2. CASE poll' = [poll EXCEPT ![i] = NoPoll]
    BY <2>2
  <2> QED
    BY <1>1, <2>1, <2>2 DEF FinishPoll
<1> QED
  BY <1>3, <1>4, <1>5

(* Every step keeps what the polls have in hand. *)
LEMMA PollsStep ==
    ASSUME SchedulerInv, [Next]_vars, Onward, LeaseInv'
    PROVE  PollsSound'
<1>1. PollsSound
  BY DEF SchedulerInv
<1>2. ASSUME NEW i \in Instances, Poll(i)
      PROVE  PollsSound'
  BY <1>1, <1>2, FindDuePolls, LoadPolls, DispatchPolls, CommitPolls, FinishPolls DEF Poll
<1>3. ASSUME NEW i \in Instances, PollFails(i) \/ Crash(i)
      PROVE  PollsSound'
  <2>1. poll' = [poll EXCEPT ![i] = NoPoll]
    BY <1>3 DEF PollFails, Crash
  <2> QED
    BY <1>1, <2>1, PollEnds
<1>4. ASSUME NEW i \in Instances, Renew(i)
      PROVE  PollsSound'
  BY <1>1, <1>4, RenewPolls
<1>5. CASE \E i \in Instances : Stop(i) \/ StopRelease(i) \/ Restart(i)
  <2>1. poll' = poll
    BY <1>5 DEF Stop, StopRelease, Restart
  <2> QED
    BY <1>1, <2>1, SamePolls
<1>6. CASE \/ Clock \/ LateStart \/ UNCHANGED vars
           \/ \E s \in Schedules : \/ Register(s) \/ UpdateLoad(s) \/ PauseOrResume(s) \/ Unregister(s)
                                   \/ WriteInvalid(s) \/ EmitLoad(s)
           \/ AdminFinishes \/ EmitCommit \/ EmitDispatch \/ EmitRecord
  <2>1. poll' = poll
    BY <1>6 DEF vars, Clock, LateStart, Register, UpdateLoad, PauseOrResume, Unregister, WriteInvalid,
                EmitLoad, AdminFinishes, UpdateWrite, AdminSetNextRun, EmitCommit, EmitDispatch, EmitRecord
  <2> QED
    BY <1>1, <2>1, SamePolls
<1> QED
  BY <1>2, <1>3, <1>4, <1>5, <1>6 DEF Next

(* The schedules have just been registered, and nothing has fired. *)
LEMMA SchedulerInitially == Init => SchedulerInv
<1> SUFFICES ASSUME Init PROVE SchedulerInv
  OBVIOUS
<1>1. LeaseInv
  BY LeaseInitial DEF Init
<1>2. now = 1 /\ inserted = 1 /\ log = {} /\ granted = {}
  BY DEF Init, LeaseInit
<1>3. ASSUME NEW s \in Schedules
      PROVE  /\ sched[s] \in RowType /\ sched[s].lastFired = 0 /\ sched[s].incarnation = 1
             /\ sched[s].tickCount = 0
  <2>1. PICK n \in Intervals : sched[s] = [NoSchedule EXCEPT !.incarnation = 1, !.enabled = TRUE,
                                                             !.interval = n]
    BY DEF Init
  <2>2. sched[s] = [incarnation |-> 1, enabled |-> TRUE, interval |-> n, tickCount |-> 0, lastFired |-> 0]
    BY <2>1 DEF NoSchedule
  <2> QED
    BY <2>2 DEF RowType
<1>4. sched \in [Schedules -> RowType]
  BY <1>3 DEF Init
<1>5. SchedTyped
  <2>1. nextRun \in [Schedules -> Nat]
    BY <1>2 DEF Init
  <2>2. ASSUME NEW s \in Schedules PROVE sched[s].lastFired <= now /\ sched[s].incarnation <= inserted
    BY <1>2, <1>3
  <2> QED
    BY <1>2, <1>4, <2>1, <2>2 DEF SchedTyped
<1>6. LogInv
  BY <1>2, <1>3 DEF LogInv, LogTyped, LogIsBehind, LogIsFull, LogHasOneEach, FiresInOrder,
                    RecordedWasStarted
<1>7. AdminTyped /\ EmitTyped
  BY DEF Init, AdminTyped, EmitTyped
<1>8. PollsSound
  BY DEF Init, PollsSound, PollSound
<1>9. LoopsSound
  BY DEF Init, LoopsSound, LoopSound, Started
<1> QED
  BY <1>1, <1>5, <1>6, <1>7, <1>8, <1>9 DEF SchedulerInv

(* Every step keeps the invariant, and is a call of the leader lease or    *)
(* leaves it alone.                                                        *)
LEMMA SchedulerStep ==
    ASSUME SchedulerInv, [Next]_vars
    PROVE  SchedulerInv' /\ [LeaseNext]_leaseVars
<1>1. [LeaseNext]_leaseVars
  BY OneLeaseCall
<1>2. LeaseInv' /\ now \in Nat /\ now' \in Nat /\ now <= now' /\ granted \subseteq granted'
  BY <1>1, LeaseOnward DEF SchedulerInv
<1>3. StoreOnward /\ AdminTyped' /\ EmitTyped'
  BY <1>2, StoreStep
<1>4. LoopsSound'
  BY <1>2, LoopsStep
<1>5. Onward
  BY <1>2, <1>3 DEF Onward, SchedulerInv
<1>6. PollsSound'
  BY <1>2, <1>5, PollsStep
<1> QED
  BY <1>1, <1>2, <1>3, <1>4, <1>6 DEF SchedulerInv, StoreOnward

-----------------------------------------------------------------------------
(* The poll loops, the manual fires and the management calls keep          *)
(* SchedulerInv for ever.                                                  *)
THEOREM SchedulerInvariant == Spec => []SchedulerInv
<1>1. SchedulerInv /\ [Next]_vars => SchedulerInv'
  BY SchedulerStep
<1> QED
  BY SchedulerInitially, <1>1, PTL DEF Spec

(* The loops' polls, renewals, commits and stops are calls the leader      *)
(* lease allows: each release and each fenced write presents a lease that  *)
(* acquire did hand to its caller.                                         *)
THEOREM SchedulerUsesTheLease == Spec => LeaseSpec
<1>1. Init => LeaseInit
  BY DEF Init
<1>2. SchedulerInv /\ [Next]_vars => [LeaseNext]_leaseVars
  BY SchedulerStep
<1> QED
  BY SchedulerInvariant, <1>1, <1>2, PTL DEF Spec, LeaseSpec

(* commitPoll's fence lets no write of a superseded leader through: the    *)
(* epochs of the accepted commits never go back, whatever the loops do.    *)
THEOREM SchedulerWritesInOrder == Spec => WritesInEpochOrder
  BY SchedulerUsesTheLease, AcceptedWritesInOrder, PTL

(* acquire's epoch names one leader among the schedulers' loops.           *)
THEOREM OneLeaderPerEpoch == Spec => []EpochHasOneOwner
  BY SchedulerUsesTheLease, OneOwnerPerEpoch, PTL

(* commitPoll's compare-and-set leaves no gap in a schedule's tick numbers *)
(* and gives none twice.                                                   *)
THEOREM NumbersStayGapless == Spec => []NumbersAreGapless
<1>1. ASSUME SchedulerInv PROVE NumbersAreGapless
  <2>1. LogTyped /\ LogIsBehind /\ LogIsFull /\ LogHasOneEach
    BY <1>1 DEF SchedulerInv, LogInv
  <2>2. TypeOK
    <3>1. LeaseTypeOK /\ SchedTyped
      BY <1>1 DEF SchedulerInv, LeaseInv
    <3>2. ASSUME NEW i \in Instances
          PROVE  loop[i].held \in {0} \cup {l[2] : l \in {g \in granted : g[1] = i}}
      <4>1. loop[i].held = 0 \/ <<i, loop[i].held>> \in granted
        BY <1>1 DEF SchedulerInv, LoopsSound, LoopSound
      <4>2. ASSUME <<i, loop[i].held>> \in granted
            PROVE  loop[i].held \in {l[2] : l \in {g \in granted : g[1] = i}}
        <5>1. PICK g \in granted : g[1] = i /\ g[2] = loop[i].held
          BY <4>2
        <5> QED
          BY <5>1
      <4> QED
        BY <4>1, <4>2
    <3> QED
      BY <3>1, <3>2 DEF TypeOK, SchedTyped, RowType
  <2>3. ASSUME NEW s \in Schedules
        PROVE  LET mine == {l.tick : l \in {x \in log : x.tick.schedule = s}}
               IN  /\ \A n \in 0..(sched[s].tickCount - 1) : \E t \in mine : t.tickNumber = n
                   /\ \A t \in mine : /\ t.incarnation = sched[s].incarnation
                                      /\ t.tickNumber < sched[s].tickCount
                   /\ \A t, u \in mine : t.tickNumber = u.tickNumber => t = u
    <3> DEFINE mine == {l.tick : l \in {x \in log : x.tick.schedule = s}}
    <3>1. \A n \in 0..(sched[s].tickCount - 1) : \E t \in mine : t.tickNumber = n
      BY <2>1 DEF LogIsFull
    <3>2. \A t \in mine : t.incarnation = sched[s].incarnation /\ t.tickNumber < sched[s].tickCount
      BY <2>1 DEF LogIsBehind
    <3>3. \A t, u \in mine : t.tickNumber = u.tickNumber => t = u
      BY <2>1 DEF LogHasOneEach
    <3> QED
      BY <3>1, <3>2, <3>3
  <2> QED
    BY <2>2, <2>3 DEF NumbersAreGapless
<1>2. SchedulerInv => NumbersAreGapless
  BY <1>1
<1> QED
  BY SchedulerInvariant, <1>2, PTL

(* Delivered leaves every plan out that has an undispatched tick, so what  *)
(* a poll commits to the tick log has its run.                             *)
THEOREM RecordedTicksWereStarted == Spec => []RecordedWasStarted
<1>1. SchedulerInv => RecordedWasStarted
  BY DEF SchedulerInv, LogInv
<1> QED
  BY SchedulerInvariant, <1>1, PTL

(* computeDueTicks lists the occurrences oldest first and after the last   *)
(* fire, so the log's numbers follow the scheduled times.                  *)
THEOREM TicksAreInOrder == Spec => []FiresInOrder
<1>1. SchedulerInv => FiresInOrder
  BY DEF SchedulerInv, LogInv
<1> QED
  BY SchedulerInvariant, <1>1, PTL
=============================================================================
