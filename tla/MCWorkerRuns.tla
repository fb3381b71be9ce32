---------------------------- MODULE MCWorkerRuns ----------------------------
EXTENDS WorkerRuns, TLC

(* Every worker hosts every run. *)
AllHosted == [w \in Workers |-> Runs]

SleepThenSignal == <<"sleep", "signal">>
WorkSleepSignal == <<"work", "sleep", "signal">>
TwoOfWork == <<"work", "work">>

(* Workers, and claim tokens, are interchangeable. *)
Symmetry == Permutations(Workers) \cup Permutations(Tokens)
=============================================================================
