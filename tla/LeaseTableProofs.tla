-------------------------- MODULE LeaseTableProofs --------------------------
(***************************************************************************)
(* Proofs about LeaseTable, for any number of runs and callers, any lock   *)
(* duration and any bounds.                                                *)
(*                                                                         *)
(* The inductive invariant adds to the types: tokens and attempt ids in    *)
(* use are older than the counters (Fresh), an attempt id belongs to one   *)
(* caller (AttemptHasOneOwner), the token of a lease whose answer was lost *)
(* is in nobody's hands (UnansweredIsUnowned), and no accepted write is    *)
(* newer than the lease (NotAhead).                                        *)
(***************************************************************************)
EXTENDS LeaseTable, TLAPS

Fresh ==
    /\ \A w \in Workflows :
         /\ leases[w].token < nextFenceToken
         /\ leases[w].attemptId < nextAttempt
         /\ accepted[w] < nextFenceToken
    /\ \A c \in Clients, w \in Workflows :
         held[c][w] < nextFenceToken /\ attempt[c][w] < nextAttempt

AttemptHasOneOwner ==
    \A w \in Workflows : \A c, d \in Clients :
        attempt[c][w] # 0 /\ attempt[c][w] = attempt[d][w] => c = d

UnansweredIsUnowned ==
    \A w \in Workflows : \A c, d \in Clients :
        /\ leases[w].token # 0
        /\ attempt[c][w] # 0
        /\ leases[w].attemptId = attempt[c][w]
        => held[d][w] # leases[w].token

NotAhead == \A w \in Workflows : leases[w].token # 0 => accepted[w] <= leases[w].token

IInv ==
    /\ TypeOK
    /\ Fresh
    /\ AttemptHasOneOwner
    /\ UnansweredIsUnowned
    /\ TokenHasOneOwner
    /\ NotAhead

-----------------------------------------------------------------------------
(* Every step keeps the types. *)
LEMMA TypeStep == ASSUME TypeOK, [Next]_vars PROVE TypeOK'
<1> USE DurationAssumption DEF TypeOK, Lease, NoLease
<1>1. ASSUME NEW c \in Clients, NEW w \in Workflows, BeginAttempt(c, w) PROVE TypeOK'
  BY <1>1 DEF BeginAttempt
<1>2. ASSUME NEW c \in Clients, NEW w \in Workflows, Grant(c, w) PROVE TypeOK'
  BY <1>2 DEF Grant, NewLease
<1>3. ASSUME NEW c \in Clients, NEW w \in Workflows, GrantUnheard(c, w) PROVE TypeOK'
  BY <1>3 DEF GrantUnheard, NewLease
<1>4. ASSUME NEW c \in Clients, NEW w \in Workflows, Repeat(c, w) PROVE TypeOK'
  BY <1>4 DEF Repeat
<1>5. ASSUME NEW c \in Clients, NEW w \in Workflows, Refuse(c, w) PROVE TypeOK'
  BY <1>5 DEF Refuse
<1>6. ASSUME NEW c \in Clients, NEW w \in Workflows, Extend(c, w) PROVE TypeOK'
  BY <1>6 DEF Extend
<1>7. ASSUME NEW c \in Clients, NEW w \in Workflows, Release(c, w) PROVE TypeOK'
  BY <1>7 DEF Release
<1>8. ASSUME NEW c \in Clients, NEW w \in Workflows, FencedWrite(c, w) PROVE TypeOK'
  BY <1>8 DEF FencedWrite
<1>9. ASSUME NEW w \in Workflows, Forget(w) PROVE TypeOK'
  BY <1>9 DEF Forget
<1>10. ASSUME NEW c \in Clients, Crash(c) PROVE TypeOK'
  BY <1>10 DEF Crash
<1>11. CASE Tick
  BY <1>11 DEF Tick
<1>12. CASE UNCHANGED vars
  BY <1>12 DEF vars
<1> QED
  BY <1>1, <1>2, <1>3, <1>4, <1>5, <1>6, <1>7, <1>8, <1>9, <1>10, <1>11, <1>12 DEF Next

(* The types hold in every reachable state of the lease table. *)
THEOREM TypeCorrect == Spec => []TypeOK
<1>1. Init => TypeOK
  BY DEF Init, TypeOK, Lease, NoLease
<1> QED
  BY <1>1, TypeStep, PTL DEF Spec

-----------------------------------------------------------------------------
(* The inductive invariant holds initially. *)
LEMMA InitIInv == Init => IInv
<1> SUFFICES ASSUME Init PROVE IInv
  OBVIOUS
<1>1. TypeOK
  BY DEF Init, TypeOK, Lease, NoLease
<1> QED
  BY <1>1 DEF Init, IInv, Fresh, AttemptHasOneOwner, UnansweredIsUnowned,
              TokenHasOneOwner, NotAhead, NoLease

(* Every step of the lease table preserves the inductive invariant. *)
LEMMA NextIInv == ASSUME IInv, [Next]_vars PROVE IInv'
<1>1. TypeOK'
  BY TypeStep DEF IInv
<1> USE DEF TypeOK, Lease, NoLease, Fresh, AttemptHasOneOwner, UnansweredIsUnowned,
            TokenHasOneOwner, NotAhead
<1>2. ASSUME NEW c \in Clients, NEW w \in Workflows, BeginAttempt(c, w) PROVE IInv'
  BY <1>1, <1>2 DEF BeginAttempt, IInv
<1>3. ASSUME NEW c \in Clients, NEW w \in Workflows, Grant(c, w) PROVE IInv'
  BY <1>1, <1>3 DEF Grant, NewLease, IInv
<1>4. ASSUME NEW c \in Clients, NEW w \in Workflows, GrantUnheard(c, w) PROVE IInv'
  BY <1>1, <1>4 DEF GrantUnheard, NewLease, IInv
<1>5. ASSUME NEW c \in Clients, NEW w \in Workflows, Repeat(c, w) PROVE IInv'
  BY <1>1, <1>5 DEF Repeat, IsHeld, IInv
<1>6. ASSUME NEW c \in Clients, NEW w \in Workflows, Refuse(c, w) PROVE IInv'
  BY <1>1, <1>6 DEF Refuse, IInv
<1>7. ASSUME NEW c \in Clients, NEW w \in Workflows, Extend(c, w) PROVE IInv'
  BY <1>1, <1>7 DEF Extend, IInv
<1>8. ASSUME NEW c \in Clients, NEW w \in Workflows, Release(c, w) PROVE IInv'
  BY <1>1, <1>8 DEF Release, IInv
<1>9. ASSUME NEW c \in Clients, NEW w \in Workflows, FencedWrite(c, w) PROVE IInv'
  BY <1>1, <1>9 DEF FencedWrite, CheckFence, IInv
<1>10. ASSUME NEW w \in Workflows, Forget(w) PROVE IInv'
  BY <1>1, <1>10 DEF Forget, IInv
<1>11. ASSUME NEW c \in Clients, Crash(c) PROVE IInv'
  BY <1>1, <1>11 DEF Crash, IInv
<1>12. CASE Tick
  BY <1>1, <1>12 DEF Tick, IInv
<1>13. CASE UNCHANGED vars
  BY <1>1, <1>13 DEF vars, IInv
<1> QED
  BY <1>2, <1>3, <1>4, <1>5, <1>6, <1>7, <1>8, <1>9, <1>10, <1>11, <1>12, <1>13 DEF Next

(* The inductive invariant holds in every reachable state. *)
THEOREM Inductive == Spec => []IInv
  BY InitIInv, NextIInv, PTL DEF Spec

-----------------------------------------------------------------------------
(* No token of a run is ever in the hands of two callers. *)
THEOREM TokenOwnership == Spec => []TokenHasOneOwner
<1>1. IInv => TokenHasOneOwner
  BY DEF IInv
<1> QED
  BY <1>1, Inductive, PTL

(* At most one caller at a time would have a fenced write accepted. *)
THEOREM MutualExclusion == Spec => []AtMostOneWriter
<1>1. IInv => AtMostOneWriter
  BY DEF IInv, TokenHasOneOwner, AtMostOneWriter, CheckFence
<1> QED
  BY <1>1, Inductive, PTL

(* The tokens under which writes on a run are accepted never decrease: a    *)
(* superseded driver changes nothing, however late its write arrives.      *)
THEOREM FencingOrder == Spec => WritesNeverGoBack
<1>1. ASSUME IInv, [Next]_vars
      PROVE  \A w \in Workflows : accepted'[w] >= accepted[w]
  <2>1. ASSUME NEW c \in Clients, NEW w \in Workflows, FencedWrite(c, w)
        PROVE  \A x \in Workflows : accepted'[x] >= accepted[x]
    BY <1>1, <2>1 DEF FencedWrite, CheckFence, IInv, TypeOK, Lease, NotAhead
  <2>2. CASE UNCHANGED accepted
    BY <1>1, <2>2 DEF IInv, TypeOK
  <2>3. CASE UNCHANGED vars
    BY <1>1, <2>3 DEF IInv, TypeOK, vars
  <2> QED
    BY <1>1, <2>1, <2>2, <2>3
       DEF Next, BeginAttempt, Grant, GrantUnheard, NewLease, Repeat, Refuse, Extend,
           Release, Forget, Crash, Tick
<1>2. IInv /\ [Next]_vars => [\A w \in Workflows : accepted'[w] >= accepted[w]]_vars
  BY <1>1
<1> QED
  BY <1>2, Inductive, PTL DEF Spec, WritesNeverGoBack

(* A live lease goes away only through its holder or the purge of the run. *)
THEOREM LeaseStability == Spec => LiveLeaseLostOnlyByItsHolder
<1> DEFINE Kept(w) ==
      IsHeld(w) /\ leases'[w].token # leases[w].token
      => \/ leases'[w] = NoLease /\ UNCHANGED held
         \/ \E c \in Clients : held[c][w] = leases[w].token /\ held'[c][w] = 0
<1>1. ASSUME IInv, [Next]_vars PROVE \A w \in Workflows : Kept(w)
  <2> USE <1>1 DEF IInv, TypeOK, Lease, NoLease
  <2>1. ASSUME NEW c \in Clients, NEW w \in Workflows, Grant(c, w) \/ GrantUnheard(c, w)
        PROVE  \A x \in Workflows : Kept(x)
    BY <2>1 DEF Grant, GrantUnheard, NewLease
  <2>2. ASSUME NEW c \in Clients, NEW w \in Workflows, Extend(c, w)
        PROVE  \A x \in Workflows : Kept(x)
    BY <2>2 DEF Extend
  <2>3. ASSUME NEW c \in Clients, NEW w \in Workflows, Release(c, w)
        PROVE  \A x \in Workflows : Kept(x)
    BY <2>3 DEF Release
  <2>4. ASSUME NEW w \in Workflows, Forget(w)
        PROVE  \A x \in Workflows : Kept(x)
    BY <2>4 DEF Forget
  <2>5. CASE UNCHANGED leases
    BY <2>5
  <2> QED
    BY <2>1, <2>2, <2>3, <2>4, <2>5
       DEF Next, BeginAttempt, Repeat, Refuse, FencedWrite, Crash, Tick, vars
<1>2. IInv /\ [Next]_vars => [\A w \in Workflows : Kept(w)]_vars
  BY <1>1
<1> QED
  BY <1>2, Inductive, PTL DEF Spec, LiveLeaseLostOnlyByItsHolder

-----------------------------------------------------------------------------
(* The lease table implements the abstract fenced lock: an acquire maps to  *)
(* Acquire, a release or purge to Free, an accepted write to Write, a tick  *)
(* to the expiry of the leases it ends, and every other step to a stutter. *)
THEOREM Refinement == Spec => ImplementsFencedLock
<1>1. ASSUME Init PROVE Abstract!Init
  <2>1. \A w \in Workflows : leases[w].token = 0 /\ IsHeld(w) = FALSE
    BY <1>1 DEF Init, IsHeld, NoLease
  <2>2. LockView = [w \in Workflows |-> Abstract!NoLock]
    BY <2>1, Zenon DEF LockView, Abstract!NoLock
  <2>3. nextFenceToken - 1 = 0 /\ accepted = [w \in Workflows |-> 0]
    BY <1>1 DEF Init
  <2> QED
    BY <2>2, <2>3, Zenon DEF Abstract!Init
<1>2. ASSUME IInv, [Next]_vars PROVE [Abstract!Next]_(Abstract!lockVars)
  <2> USE <1>2 DEF IInv, TypeOK, Lease, NoLease, LockView, IsHeld
  <2>1. ASSUME NEW c \in Clients, NEW w \in Workflows, Grant(c, w) \/ GrantUnheard(c, w)
        PROVE  Abstract!Acquire(w)
    <3>5. ~ IsHeld(w)
      BY <2>1 DEF Grant, GrantUnheard, NewLease
    <3>6. ~ LockView[w].live
      BY <3>5, Zenon DEF LockView
    <3>1. /\ nextFenceToken' - 1 = (nextFenceToken - 1) + 1
          /\ UNCHANGED accepted
      BY <2>1 DEF Grant, GrantUnheard, NewLease
    <3>2. /\ leases'[w].token = (nextFenceToken - 1) + 1
          /\ IsHeld(w)' = TRUE
      BY <2>1, DurationAssumption DEF Grant, GrantUnheard, NewLease
    <3>3. \A x \in Workflows \ {w} : leases'[x] = leases[x] /\ IsHeld(x)' = IsHeld(x)
      BY <2>1 DEF Grant, GrantUnheard, NewLease
    <3>4. LockView' = [LockView EXCEPT ![w] = Abstract!Granted((nextFenceToken - 1) + 1)]
      BY <3>2, <3>3, Zenon DEF LockView, Abstract!Granted
    <3> QED
      BY <3>6, <3>1, <3>4, Zenon DEF Abstract!Acquire
  <2>2. ASSUME NEW c \in Clients, NEW w \in Workflows, Extend(c, w)
        PROVE  UNCHANGED Abstract!lockVars
    BY <2>2, DurationAssumption DEF Extend, CheckFence, Abstract!lockVars
  <2>3. ASSUME NEW c \in Clients, NEW w \in Workflows, Release(c, w)
        PROVE  Abstract!Free(w) \/ UNCHANGED Abstract!lockVars
    BY <2>3 DEF Release, Abstract!Free, Abstract!NoLock, Abstract!lockVars
  <2>4. ASSUME NEW w \in Workflows, Forget(w)
        PROVE  Abstract!Free(w)
    BY <2>4 DEF Forget, Abstract!Free, Abstract!NoLock
  <2>5. ASSUME NEW c \in Clients, NEW w \in Workflows, FencedWrite(c, w)
        PROVE  Abstract!Write(w)
    BY <2>5 DEF FencedWrite, CheckFence, Abstract!Write
  <2>6. ASSUME Tick
        PROVE  \E S \in SUBSET Workflows : Abstract!Expire(S)
    <3> DEFINE S == {w \in Workflows : leases[w].token # 0 /\ leases[w].expiresAt = now + 1}
    <3>1. \A w \in S : IsHeld(w) /\ IsHeld(w)' = FALSE
      BY <2>6 DEF Tick
    <3>2. ASSUME NEW w \in Workflows \ S PROVE IsHeld(w)' <=> IsHeld(w)
      <4>1. leases[w].expiresAt \in Nat /\ now \in Nat /\ now' = now + 1 /\ leases' = leases
        BY <2>6 DEF Tick
      <4>2. leases[w].token = 0 \/ leases[w].expiresAt # now + 1
        BY <3>2
      <4>3. \A e, n \in Nat : e # n + 1 => (e > n + 1 <=> e > n)
        OBVIOUS
      <4> QED
        BY <4>1, <4>2, <4>3, Zenon
    <3>3. UNCHANGED <<leases, nextFenceToken, accepted>>
      BY <2>6 DEF Tick
    <3> HIDE DEF S
    <3>4. S \subseteq Workflows
      BY DEF S
    <3>5. \A w \in S : LockView[w].live
      BY <3>1, <3>4, Zenon DEF LockView
    <3>6. LockView' = [w \in Workflows |->
                         IF w \in S THEN Abstract!Lapsed(LockView[w]) ELSE LockView[w]]
      <4>1. ASSUME NEW w \in S PROVE Abstract!Lapsed(LockView[w]) = LockView'[w]
        <5>1. /\ LockView[w].token = leases[w].token
              /\ LockView'[w] = [token |-> leases[w].token, live |-> FALSE]
          BY <3>1, <3>3, <3>4, Zenon DEF LockView
        <5> QED
          BY <5>1, Zenon DEF Abstract!Lapsed
      <4>2. ASSUME NEW w \in Workflows \ S PROVE LockView[w] = LockView'[w]
        BY <3>2, <3>3, <4>2, Zenon DEF LockView
      <4> QED
        BY <4>1, <4>2, <3>4, Zenon DEF LockView
    <3> QED
      BY <3>3, <3>4, <3>5, <3>6, Zenon DEF Abstract!Expire
  <2>7. CASE UNCHANGED <<leases, nextFenceToken, now, accepted>>
    BY <2>7, Zenon DEF Abstract!lockVars
  <2> QED
    BY <2>1, <2>2, <2>3, <2>4, <2>5, <2>6, <2>7
       DEF Next, BeginAttempt, Repeat, Refuse, Crash, vars, Abstract!Next
<1> QED
  BY <1>1, <1>2, Inductive, PTL DEF Spec, ImplementsFencedLock, Abstract!Spec
=============================================================================
