------------------------------- MODULE Fence -------------------------------
(***************************************************************************)
(* The values of a run lock and the fence check, as every storage backend  *)
(* of @promin/workflow applies them.  A run lock is a lease with a fence   *)
(* token: packages/workflow/src/lib/durable/in-memory/lease-table.ts.      *)
(*                                                                         *)
(* Here a lease is seen without its clock: it is live, or it has lapsed    *)
(* (`expiresAt <= now`), or there is none (token 0).  LeaseTable keeps the *)
(* clock and is shown to implement this view (FencedLock).                 *)
(***************************************************************************)
EXTENDS Naturals

LockValue == [token : Nat, live : BOOLEAN]

NoLock == [token |-> 0, live |-> FALSE]

(* The lease a successful acquire leaves behind. *)
Granted(t) == [token |-> t, live |-> TRUE]

(* A lease whose expiry has passed: the row stays, its token fences nothing. *)
Lapsed(l) == [token |-> l.token, live |-> FALSE]

(* checkFence: the write is accepted only under the current, unexpired token. *)
Accepts(l, t) == l.live /\ l.token = t

(* release: a stale token never frees a newer holder's lease. *)
AfterRelease(l, t) == IF l.token = t THEN NoLock ELSE l
=============================================================================
