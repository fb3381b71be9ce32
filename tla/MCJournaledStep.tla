---------------------------- MODULE MCJournaledStep ----------------------------
(* Bodies for model checking JournaledStep. *)
EXTENDS JournaledStep, TLC

(* Drivers are interchangeable where no liveness is checked. *)
DriverSymmetry == Permutations(Drivers)

(* Book, wait for a go-ahead, pay, send a notice, run the child. *)
Order == <<"book", "go", "pay", "notify", "child">>
OrderKind == [y \in Range(Order) |->
                CASE y = "go" -> "signal" [] y = "child" -> "child" [] OTHER -> "activity"]

(* Wait for a go-ahead, pay, run the child. *)
Waits == <<"go", "pay", "child">>
WaitsKind == [y \in Range(Waits) |-> OrderKind[y]]

(* Book if possible, pay, ship. *)
Shipping == <<"book", "pay", "ship">>
ShippingKind == [y \in Range(Shipping) |-> "activity"]
=============================================================================
