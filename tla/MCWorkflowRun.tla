--------------------------- MODULE MCWorkflowRun ---------------------------
(* Model-checking instances of WorkflowRun: the definitions it is run on. *)
EXTENDS WorkflowRun, TLC

(* One step, then two in parallel, one of them a wait for a signal. *)
ForkSteps == {"a", "b", "c"}
ForkDeps == [s \in ForkSteps |-> IF s = "a" THEN {} ELSE {"a"}]
WorkSignalWork == [s \in ForkSteps |-> IF s = "b" THEN "signal" ELSE "work"]

(* A chain of two. *)
ChainSteps == {"a", "b"}
ChainDeps == [s \in ChainSteps |-> IF s = "b" THEN {"a"} ELSE {}]
WorkWork == [s \in ChainSteps |-> "work"]
SleepWork == [s \in ChainSteps |-> IF s = "a" THEN "sleep" ELSE "work"]
TripwireWork == [s \in ChainSteps |-> IF s = "a" THEN "tripwire" ELSE "work"]

(* A sleep, a wait with a timeout and one without in parallel, then a       *)
(* tripwire, then a step that may continue as new.                         *)
ParkSteps == {"a", "b", "c", "d", "e"}
ParkDeps == [s \in ParkSteps |-> CASE s = "d" -> {"a", "b", "c"} [] s = "e" -> {"d"} [] OTHER -> {}]
ParkKind == [s \in ParkSteps |->
               CASE s = "a" -> "sleep" [] s \in {"b", "c"} -> "signal"
                 [] s = "d" -> "tripwire" [] s = "e" -> "continue"]

(* Drivers are interchangeable; used where no liveness is checked. *)
DriverSymmetry == Permutations(Drivers)
=============================================================================
