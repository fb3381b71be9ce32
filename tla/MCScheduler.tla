----------------------------- MODULE MCScheduler -----------------------------
(* Instances of Scheduler: the loops are interchangeable where no liveness *)
(* is checked.                                                             *)
EXTENDS Scheduler, TLC

InstanceSymmetry == Permutations(Instances)
=============================================================================
