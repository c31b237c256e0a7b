------------------------------ MODULE MCMacHid ------------------------------
(* The instance of MacHid that TLC checks. *)
EXTENDS MacHid
=============================================================================
