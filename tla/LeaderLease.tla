----------------------------- MODULE LeaderLease -----------------------------
(***************************************************************************)
(* The leader lease of a poll loop:                                        *)
(* packages/workflow/src/lib/scheduler/leader-lease.ts                     *)
(* (InMemoryLeaderLeases) for one lease key.  Records of different keys    *)
(* never meet, so one record is the whole state.  Every method is one      *)
(* synchronous step.                                                       *)
(***************************************************************************)
EXTENDS Naturals

CONSTANTS
    Instances,   \* instance ids competing for the key
    NoOne,       \* instanceId of a released record, or of none
    Ttl,         \* ttlMs
    MaxTime      \* bound on the clock

ASSUME NoOneAssumption == NoOne \notin Instances
ASSUME LeaseAssumption == Ttl \in Nat /\ MaxTime \in Nat

VARIABLES
    now,       \* clock.currentTimeMs()
    leader,    \* the key's LeaseRecord; epoch 0: never leased
    granted,   \* history: the leases handed out, as <<instance, epoch>>
    written    \* history: epoch of the last fenced write accepted

leaseVars == <<now, leader, granted, written>>

LeaseRecord == [instanceId : Instances \cup {NoOne}, epoch : Nat, expiresAt : Nat]

LeaseInit ==
    /\ now = 1
    /\ leader = [instanceId |-> NoOne, epoch |-> 0, expiresAt |-> 0]
    /\ granted = {}
    /\ written = 0

Live == leader.instanceId # NoOne /\ leader.expiresAt > now

CanLead(i) == Live => leader.instanceId = i

(* A refresh keeps the epoch, every other acquisition starts a new one. *)
NextEpoch == IF Live THEN leader.epoch ELSE leader.epoch + 1

(* acquire that hands out a lease; one that answers null changes nothing. *)
Acquire(i) ==
    /\ CanLead(i)
    /\ leader' = [instanceId |-> i, epoch |-> NextEpoch, expiresAt |-> now + Ttl]
    /\ granted' = granted \cup {<<i, leader'.epoch>>}
    /\ UNCHANGED <<now, written>>

(* releaseLeader: only the current lease is given up. *)
ReleaseLeader(i, epoch) ==
    /\ leader' = IF leader.epoch = epoch /\ leader.instanceId = i
                   THEN [leader EXCEPT !.instanceId = NoOne, !.expiresAt = now]
                   ELSE leader
    /\ UNCHANGED <<now, granted, written>>

(* Variant: the fence is not looked at. *)
AssertNothing(epoch) == epoch \in Nat

(* assertCurrent, run inside a store's own write: it looks at the epoch     *)
(* alone, so a lapsed lease that nobody took over still writes.            *)
AssertCurrent(epoch) == leader.epoch = epoch

FencedWrite(epoch) ==
    /\ AssertCurrent(epoch)
    /\ written' = epoch
    /\ UNCHANGED <<now, leader, granted>>

Tick ==
    /\ now < MaxTime
    /\ now' = now + 1
    /\ UNCHANGED <<leader, granted, written>>

LeaseNext ==
    \/ \E i \in Instances : Acquire(i)
    \/ \E lease \in granted : ReleaseLeader(lease[1], lease[2]) \/ FencedWrite(lease[2])
    \/ Tick

LeaseSpec == LeaseInit /\ [][LeaseNext]_leaseVars

-----------------------------------------------------------------------------
LeaseTypeOK ==
    /\ now \in Nat
    /\ leader \in LeaseRecord
    /\ granted \subseteq Instances \X (Nat \ {0})
    /\ written \in Nat

(* No two instances are ever given the same epoch, whatever lapses,        *)
(* releases and refreshes come between: the epoch alone is enough for      *)
(* assertCurrent to tell a superseded leader from the current one.         *)
EpochHasOneOwner ==
    \A l, m \in granted : l[2] = m[2] => l[1] = m[1]

(* Once a write of a leader has been accepted, no write of a leader it     *)
(* superseded is: accepted epochs never go back.                           *)
WritesInEpochOrder == [][written' >= written]_written
=============================================================================
