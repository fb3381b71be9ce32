--------------------------- MODULE MCStepDispatch ---------------------------
(* Any worker may claim any step; the steps have one priority. *)
EXTENDS StepDispatch, TLC

AnyRoute == [w \in Workers |-> Keys]
OnePriority == [k \in Keys |-> 5]
Clients == Permutations(Coordinators) \cup Permutations(Workers)
=============================================================================
