----------------------------- MODULE MCStepQueue -----------------------------
(* Two steps under one concurrency limit and a third beside them; two        *)
(* workers, one of which may only claim one of the steps.                   *)
EXTENDS StepQueue, TLC

CONSTANTS w1, w2, k1, k2, k3

MCRoutes == (w1 :> {k1, k2, k3}) @@ (w2 :> {k1})
MCPriority == (k1 :> 5) @@ (k2 :> 7) @@ (k3 :> 5)
=============================================================================
