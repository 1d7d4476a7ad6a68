------------------------------ MODULE MCArmAsl ------------------------------
(* Every one of the 8192 arguments, at the real width. *)
EXTENDS ArmAsl
=============================================================================
