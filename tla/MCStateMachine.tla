---------------------------- MODULE MCStateMachine ----------------------------
(* Instances of StateMachine: two states with a timeout, one after the     *)
(* other, a self-loop, a way back, and an action that may fail.            *)
EXTENDS StateMachine, TLC

DoorStates == {"a", "b", "c"}
DoorEvents == {"again", "go", "back"}
DoorTo == (<<"a", "again">> :> "a") @@ (<<"a", "go">> :> "b")
            @@ (<<"b", "back">> :> "a") @@ (<<"c", "back">> :> "a")
DoorOnError == [e \in DoorEvents |-> IF e = "go" THEN "c" ELSE NoState]
DoorTimeouts == ("a" :> "b") @@ ("b" :> "c")
=============================================================================
