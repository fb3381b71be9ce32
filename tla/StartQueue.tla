------------------------------ MODULE StartQueue ------------------------------
(***************************************************************************)
(* The workflow start queue (distributed/workflow-start-queue.ts): at most *)
(* one "please drive this run" record per run, claimed under a fencing     *)
(* token, given back when its claim goes stale, and remembering an enqueue *)
(* that lands while a claim holds the record.                              *)
(*                                                                         *)
(* Two comparisons with the clock are kept as flags the environment turns: *)
(* `stale` (heartbeatAt is older than the reclaim window) and `delayed`    *)
(* (availableAt lies ahead).  A heartbeat that arrives in time is what     *)
(* keeps a claim from going stale; one that arrives late finds the claim   *)
(* reclaimed, because heartbeat, like claim, reclaims stale claims first.  *)
(***************************************************************************)
EXTENDS Naturals, Sequences, FiniteSets

CONSTANTS
    Runs,       \* workflow ids
    Tokens,     \* claim tokens
    NoToken     \* an unclaimed record carries none

ASSUME TokenAssumption == NoToken \notin Tokens

VARIABLES
    rec,        \* run -> its record
    order,      \* the queued runs, oldest first (insertion order of the Map)
    owed        \* run -> "no", or the enqueue no claim has answered yet

queueVars == <<rec, order, owed>>

Absent == [queued |-> FALSE, token |-> NoToken, requeued |-> FALSE,
           delayed |-> FALSE, stale |-> FALSE]

QueueInit ==
    /\ rec = [r \in Runs |-> Absent]
    /\ order = <<>>
    /\ owed = [r \in Runs |-> "no"]

-----------------------------------------------------------------------------
(* A record as the queue writes it, never with a requeued mark. *)
QueuedAs(token, delayed) ==
    [queued |-> TRUE, token |-> token, requeued |-> FALSE, delayed |-> delayed, stale |-> FALSE]

(* Without claim and delay: claimable now. *)
Unclaimed == QueuedAs(NoToken, FALSE)

ClaimedBy(c) == QueuedAs(c, FALSE)

IsClaimed(r) == rec[r].token # NoToken

Current(r, c) == rec[r].queued /\ rec[r].token = c

(* Variant: a claim with a second enqueue behind it is left to its worker. *)
ReclaimedUnlessRequeued(r) == IF rec[r].stale /\ ~rec[r].requeued THEN Unclaimed ELSE rec[r]

Reclaimed(r) == IF rec[r].stale THEN Unclaimed ELSE rec[r]

(* reclaimStale: what the records look like once stale claims are undone. *)
ReclaimStale == [r \in Runs |-> Reclaimed(r)]

(* An enqueue to keep in mind: a scheduled wake-up never waters down a     *)
(* resume, rerun or signal that asked for the start at once.               *)
Owe(r, keepAvailableAt) ==
    owed' = [owed EXCEPT ![r] = IF keepAvailableAt /\ @ # "now" THEN "timer" ELSE "now"]

Enqueued(r, keepAvailableAt) ==
    CASE ~rec[r].queued -> Unclaimed
      [] IsClaimed(r) -> [rec[r] EXCEPT !.requeued = TRUE]
      [] rec[r].queued /\ ~IsClaimed(r) /\ ~keepAvailableAt -> Unclaimed
      [] OTHER -> rec[r]

Enqueue(r, keepAvailableAt) ==
    /\ rec' = [rec EXCEPT ![r] = Enqueued(r, keepAvailableAt)]
    /\ order' = IF rec[r].queued THEN order ELSE Append(order, r)
    /\ Owe(r, keepAvailableAt)

-----------------------------------------------------------------------------
(* claim: the oldest `limit` starts the worker hosts that nobody holds and *)
(* whose delay is over.                                                    *)
Claimable(hosted) ==
    {r \in hosted : LET now == Reclaimed(r)
                    IN now.queued /\ now.token = NoToken /\ ~now.delayed}

Before(r, s) == \E i, j \in DOMAIN order : i < j /\ order[i] = r /\ order[j] = s

Taken(hosted, limit) ==
    {r \in Claimable(hosted) : Cardinality({s \in Claimable(hosted) : Before(s, r)}) < limit}

Claim(taken, tokenOf) ==
    /\ rec' = [r \in Runs |-> IF r \in taken THEN ClaimedBy(tokenOf[r]) ELSE Reclaimed(r)]
    /\ owed' = [r \in Runs |-> IF r \in taken THEN "no" ELSE owed[r]]
    /\ UNCHANGED order

(* The resend of a claim call that still holds starts, and every heartbeat *)
(* and list, only undo stale claims.                                       *)
OnlyReclaim ==
    /\ rec' = ReclaimStale
    /\ UNCHANGED <<order, owed>>

(* Variant: the second enqueue is forgotten. *)
CompleteForgetful(r) == FALSE

(* complete: a start enqueued again during the claim goes back to pending. *)
GoesBack(r) == rec[r].requeued

Complete(r, c) ==
    IF ~Current(r, c) THEN UNCHANGED queueVars
    ELSE /\ rec' = [rec EXCEPT ![r] = IF GoesBack(r) THEN Unclaimed ELSE Absent]
         /\ order' = IF GoesBack(r) THEN order ELSE SelectSeq(order, LAMBDA s : s # r)
         /\ UNCHANGED owed

(* release: the delay is dropped when the run was enqueued meanwhile. *)
DelayOf(r, delayed) == delayed /\ ~rec[r].requeued

Release(r, c, delayed) ==
    IF ~Current(r, c) THEN UNCHANGED queueVars
    ELSE /\ rec' = [rec EXCEPT ![r] = QueuedAs(NoToken, DelayOf(r, delayed))]
         /\ UNCHANGED <<order, owed>>

(* Time passes: a claim outlives its last heartbeat, a release delay ends. *)
GoesStale(r) ==
    /\ IsClaimed(r) /\ ~rec[r].stale
    /\ rec' = [rec EXCEPT ![r].stale = TRUE]
    /\ UNCHANGED <<order, owed>>

DelayEnds(r) ==
    /\ rec[r].delayed
    /\ rec' = [rec EXCEPT ![r].delayed = FALSE]
    /\ UNCHANGED <<order, owed>>

-----------------------------------------------------------------------------
(* The queue under any clients at all: whoever enqueues, claims, beats,    *)
(* completes and releases, with whatever token, in whatever order.         *)
QueueNext ==
    \/ \E r \in Runs, keepAvailableAt \in BOOLEAN : Enqueue(r, keepAvailableAt)
    \/ \E taken \in SUBSET Claimable(Runs) : \E tokenOf \in [taken -> Tokens] : Claim(taken, tokenOf)
    \/ OnlyReclaim
    \/ \E r \in Runs, c \in Tokens : Complete(r, c)
    \/ \E r \in Runs, c \in Tokens, delayed \in BOOLEAN : Release(r, c, delayed)
    \/ \E r \in Runs : GoesStale(r) \/ DelayEnds(r)

QueueSpec == QueueInit /\ [][QueueNext]_queueVars

-----------------------------------------------------------------------------
(* Types: a claim's marks sit on claimed records only, a delay on pending  *)
(* ones only, and nothing at all on an absent one.                         *)
QueueTypeOK ==
    /\ rec \in [Runs -> [queued : BOOLEAN, token : Tokens \cup {NoToken}, requeued : BOOLEAN,
                         delayed : BOOLEAN, stale : BOOLEAN]]
    /\ owed \in [Runs -> {"no", "timer", "now"}]
    /\ \A r \in Runs : /\ ~rec[r].queued => rec[r] = Absent
                       /\ rec[r].requeued \/ rec[r].stale => IsClaimed(r)
                       /\ rec[r].delayed => ~IsClaimed(r)

(* An enqueue is never lost (workflow-start-queue.ts, enqueue): until a    *)
(* later claim takes the start, its record is pending, or claimed with the *)
(* requeued mark that sends it back when that claim ends.                  *)
WakeupNotLost ==
    \A r \in Runs : owed[r] # "no" => rec[r].queued /\ (IsClaimed(r) => rec[r].requeued)

(* A resume, a rerun or a delivered signal never waits out a delay a       *)
(* worker set for a sleep, neither one set before nor one set after it.    *)
UrgentIsNotDelayed ==
    \A r \in Runs : owed[r] = "now" => ~rec[r].delayed
=============================================================================
