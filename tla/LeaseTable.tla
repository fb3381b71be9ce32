----------------------------- MODULE LeaseTable -----------------------------
(***************************************************************************)
(* The lease table behind the run locks:                                   *)
(* packages/workflow/src/lib/durable/in-memory/lease-table.ts, with its    *)
(* callers: tryLock / tryLockAndLoad (repeated with one `attemptId` when   *)
(* an answer is lost, RemoteWorkflowStorage), heartbeat, releaseLock, the  *)
(* fenced writes of in-memory-storage.ts, and purgeCompleted.              *)
(*                                                                         *)
(* Every method of the table is one synchronous step of the process, so it *)
(* is one action.  Every caller in the repository passes the token it was  *)
(* given; calls without a guard do not occur here.                         *)
(***************************************************************************)
EXTENDS Naturals

CONSTANTS
    Workflows,      \* workflow ids
    Clients,        \* callers of the storage: drivers, recovery sweeps
    LockDuration,   \* lockDurationMs
    MaxTime,        \* bound on the clock
    MaxToken,       \* bound on the tokens handed out
    MaxAttempt      \* bound on the acquire calls made

ASSUME DurationAssumption == LockDuration \in Nat \ {0}
ASSUME BoundsAssumption == MaxTime \in Nat /\ MaxToken \in Nat /\ MaxAttempt \in Nat

VARIABLES
    leases,           \* workflow -> its lease row (token 0: no row)
    nextFenceToken,   \* the token the next acquire hands out
    now,              \* clock.currentTimeMs()
    nextAttempt,      \* source of unique attempt ids
    attempt,          \* client -> workflow -> attempt id of the acquire call in flight, 0: none
    held,             \* client -> workflow -> token the client was given, 0: none
    accepted          \* workflow -> token of the last fenced write accepted

vars == <<leases, nextFenceToken, now, nextAttempt, attempt, held, accepted>>

Lease == [token : Nat, expiresAt : Nat, attemptId : Nat]
NoLease == [token |-> 0, expiresAt |-> 0, attemptId |-> 0]

Init ==
    /\ leases = [w \in Workflows |-> NoLease]
    /\ nextFenceToken = 1
    /\ now = 0
    /\ nextAttempt = 1
    /\ attempt = [c \in Clients |-> [w \in Workflows |-> 0]]
    /\ held = [c \in Clients |-> [w \in Workflows |-> 0]]
    /\ accepted = [w \in Workflows |-> 0]

-----------------------------------------------------------------------------
(* isHeld: an unexpired lease is held. *)
IsHeld(w) == leases[w].token # 0 /\ leases[w].expiresAt > now

(* Variant of checkFence: the expiry is not looked at. *)
CheckFenceSansExpiry(w, t) == leases[w].token # 0 /\ leases[w].token = t

(* checkFence passes: the token is the current, unexpired one. *)
CheckFence(w, t) ==
    /\ leases[w].token # 0
    /\ leases[w].token = t
    /\ leases[w].expiresAt > now

(* A caller makes up an attempt id for its acquire call. *)
BeginAttempt(c, w) ==
    /\ attempt[c][w] = 0 /\ held[c][w] = 0
    /\ nextAttempt <= MaxAttempt
    /\ attempt' = [attempt EXCEPT ![c][w] = nextAttempt]
    /\ nextAttempt' = nextAttempt + 1
    /\ UNCHANGED <<leases, nextFenceToken, now, held, accepted>>

(* The row tryAcquire writes over a free or expired lease. *)
NewLease(w, id) ==
    /\ ~ IsHeld(w)
    /\ nextFenceToken <= MaxToken
    /\ nextFenceToken' = nextFenceToken + 1
    /\ leases' = [leases EXCEPT ![w] = [token |-> nextFenceToken,
                                        expiresAt |-> now + LockDuration,
                                        attemptId |-> id]]
    /\ UNCHANGED <<now, nextAttempt, accepted>>

(* tryAcquire of a free or expired lease. *)
Grant(c, w) ==
    /\ attempt[c][w] # 0
    /\ NewLease(w, attempt[c][w])
    /\ held' = [held EXCEPT ![c][w] = nextFenceToken]
    /\ attempt' = [attempt EXCEPT ![c][w] = 0]

(* The same with the answer lost: the caller keeps asking with its id. *)
GrantUnheard(c, w) ==
    /\ attempt[c][w] # 0
    /\ NewLease(w, attempt[c][w])
    /\ UNCHANGED <<held, attempt>>

(* Variant of the repeat: the attempt ids are not compared. *)
RepeatForAnyone(c, w) ==
    /\ attempt[c][w] # 0
    /\ IsHeld(w)
    /\ held' = [held EXCEPT ![c][w] = leases[w].token]
    /\ attempt' = [attempt EXCEPT ![c][w] = 0]
    /\ UNCHANGED <<leases, nextFenceToken, now, nextAttempt, accepted>>

(* tryAcquire of a live lease this very attempt took: the same token again. *)
Repeat(c, w) ==
    /\ attempt[c][w] # 0
    /\ IsHeld(w)
    /\ leases[w].attemptId = attempt[c][w]
    /\ held' = [held EXCEPT ![c][w] = leases[w].token]
    /\ attempt' = [attempt EXCEPT ![c][w] = 0]
    /\ UNCHANGED <<leases, nextFenceToken, now, nextAttempt, accepted>>

(* tryAcquire of a live lease taken by another attempt: not acquired. *)
Refuse(c, w) ==
    /\ attempt[c][w] # 0
    /\ IsHeld(w)
    /\ leases[w].attemptId # attempt[c][w]
    /\ attempt' = [attempt EXCEPT ![c][w] = 0]
    /\ UNCHANGED <<leases, nextFenceToken, now, nextAttempt, held, accepted>>

(* extend (heartbeat): a rejected one changes nothing in the table. *)
Extend(c, w) ==
    /\ held[c][w] # 0
    /\ CheckFence(w, held[c][w])
    /\ leases' = [leases EXCEPT ![w].expiresAt = now + LockDuration]
    /\ UNCHANGED <<nextFenceToken, now, nextAttempt, attempt, held, accepted>>

(* Variant of the release: a stale token frees whatever lease is there. *)
ReleaseAnything(c, w) ==
    /\ held[c][w] # 0
    /\ leases' = [leases EXCEPT ![w] = NoLease]
    /\ held' = [held EXCEPT ![c][w] = 0]
    /\ UNCHANGED <<nextFenceToken, now, nextAttempt, attempt, accepted>>

(* release: with a token only its holder frees the lease, expired or not. *)
Release(c, w) ==
    /\ held[c][w] # 0
    /\ leases' = [leases EXCEPT ![w] = IF @.token = held[c][w] THEN NoLease ELSE @]
    /\ held' = [held EXCEPT ![c][w] = 0]
    /\ UNCHANGED <<nextFenceToken, now, nextAttempt, attempt, accepted>>

(* Any fenced write of the storage: accepted in the step that checks it. *)
FencedWrite(c, w) ==
    /\ held[c][w] # 0
    /\ CheckFence(w, held[c][w])
    /\ accepted' = [accepted EXCEPT ![w] = held[c][w]]
    /\ UNCHANGED <<leases, nextFenceToken, now, nextAttempt, attempt, held>>

(* forget: purgeCompleted drops an ended run together with its lease. *)
Forget(w) ==
    /\ leases[w].token # 0
    /\ leases' = [leases EXCEPT ![w] = NoLease]
    /\ UNCHANGED <<nextFenceToken, now, nextAttempt, attempt, held, accepted>>

(* A caller dies: it neither releases nor asks again. *)
Crash(c) ==
    /\ held' = [held EXCEPT ![c] = [w \in Workflows |-> 0]]
    /\ attempt' = [attempt EXCEPT ![c] = [w \in Workflows |-> 0]]
    /\ UNCHANGED <<leases, nextFenceToken, now, nextAttempt, accepted>>

Tick ==
    /\ now < MaxTime
    /\ now' = now + 1
    /\ UNCHANGED <<leases, nextFenceToken, nextAttempt, attempt, held, accepted>>

Next ==
    \/ \E c \in Clients, w \in Workflows :
         \/ BeginAttempt(c, w)
         \/ Grant(c, w)
         \/ GrantUnheard(c, w)
         \/ Repeat(c, w)
         \/ Refuse(c, w)
         \/ Extend(c, w)
         \/ Release(c, w)
         \/ FencedWrite(c, w)
    \/ \E w \in Workflows : Forget(w)
    \/ \E c \in Clients : Crash(c)
    \/ Tick

Spec == Init /\ [][Next]_vars

-----------------------------------------------------------------------------
(* The state the table and its callers can be in. *)
TypeOK ==
    /\ leases \in [Workflows -> Lease]
    /\ nextFenceToken \in Nat \ {0}
    /\ now \in Nat
    /\ nextAttempt \in Nat \ {0}
    /\ attempt \in [Clients -> [Workflows -> Nat]]
    /\ held \in [Clients -> [Workflows -> Nat]]
    /\ accepted \in [Workflows -> Nat]

(* checkFence and tryAcquire together: at no moment would two callers both *)
(* have a fenced write on one run accepted, whatever was crashed, resent,  *)
(* expired, purged or taken over before.                                   *)
AtMostOneWriter ==
    \A w \in Workflows : \A c, d \in Clients :
        /\ held[c][w] # 0 /\ CheckFence(w, held[c][w])
        /\ held[d][w] # 0 /\ CheckFence(w, held[d][w])
        => c = d

(* tryAcquire with attemptId: a repeated call never hands a caller a token  *)
(* that another caller holds on that run, not even one that has lapsed.    *)
TokenHasOneOwner ==
    \A w \in Workflows : \A c, d \in Clients :
        held[c][w] # 0 /\ held[c][w] = held[d][w] => c = d

(* checkFence: once a write under a token was accepted on a run, no write  *)
(* under an older token is, ever again (the zombie driver of               *)
(* zombie-worker-test-suite.ts).                                           *)
WritesNeverGoBack == [][\A w \in Workflows : accepted'[w] >= accepted[w]]_vars

(* release / forget: a lease row is dropped while live only by the caller   *)
(* that holds its token or by the purge of the run.                        *)
LiveLeaseLostOnlyByItsHolder ==
    [][\A w \in Workflows :
         IsHeld(w) /\ leases'[w].token # leases[w].token
         => \/ leases'[w] = NoLease /\ UNCHANGED held
            \/ \E c \in Clients : held[c][w] = leases[w].token /\ held'[c][w] = 0]_vars

-----------------------------------------------------------------------------
(* The lease table implements the abstract fenced lock: a lease is live    *)
(* exactly while its expiry lies ahead of the clock.                       *)
LockView == [w \in Workflows |-> [token |-> leases[w].token, live |-> IsHeld(w)]]

Abstract == INSTANCE FencedLock WITH lock <- LockView, issued <- nextFenceToken - 1

(* lease-table.ts keeps the promises of FencedLock. *)
ImplementsFencedLock == Abstract!Spec
=============================================================================
