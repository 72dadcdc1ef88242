------------------------------ MODULE MCExport ------------------------------
(* Instances of Export for TLC: all constants are numbers and flags. *)
EXTENDS Export
=============================================================================
