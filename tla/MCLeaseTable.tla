---------------------------- MODULE MCLeaseTable ----------------------------
(* Model-checking instance of LeaseTable. *)
EXTENDS LeaseTable
=============================================================================
