----------------------------- MODULE FencedLock -----------------------------
(***************************************************************************)
(* What the run lock of a workflow storage promises                        *)
(* (durable/storage/fencing.ts, durable/storage/README.md, "Fencing"):     *)
(* every acquire hands out a token greater than all earlier ones, a lease  *)
(* is only taken over once it is gone or has lapsed, and a fenced write is *)
(* accepted only under the current token of a live lease.                  *)
(*                                                                         *)
(* Abstract specification: no clock, no callers, no repeated calls.        *)
(* LeaseTable implements it.                                               *)
(***************************************************************************)
EXTENDS Fence

CONSTANT Workflows

VARIABLES
    lock,      \* workflow -> the lease on its run
    issued,    \* the last fence token handed out, over all workflows
    accepted   \* workflow -> token of the last fenced write that was accepted

lockVars == <<lock, issued, accepted>>

Init ==
    /\ lock = [w \in Workflows |-> NoLock]
    /\ issued = 0
    /\ accepted = [w \in Workflows |-> 0]

Acquire(w) ==
    /\ ~ lock[w].live
    /\ issued' = issued + 1
    /\ lock' = [lock EXCEPT ![w] = Granted(issued + 1)]
    /\ UNCHANGED accepted

(* One passage of time may end several leases. *)
Expire(S) ==
    /\ \A w \in S : lock[w].live
    /\ lock' = [w \in Workflows |-> IF w \in S THEN Lapsed(lock[w]) ELSE lock[w]]
    /\ UNCHANGED <<issued, accepted>>

(* The holder releases the lease, or the run is purged. *)
Free(w) ==
    /\ lock' = [lock EXCEPT ![w] = NoLock]
    /\ UNCHANGED <<issued, accepted>>

Write(w) ==
    /\ lock[w].live
    /\ accepted' = [accepted EXCEPT ![w] = lock[w].token]
    /\ UNCHANGED <<lock, issued>>

Next ==
    \/ \E w \in Workflows : Acquire(w) \/ Free(w) \/ Write(w)
    \/ \E S \in SUBSET Workflows : Expire(S)

Spec == Init /\ [][Next]_lockVars
=============================================================================
