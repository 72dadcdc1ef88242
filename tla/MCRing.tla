------------------------------- MODULE MCRing -------------------------------
(* Instances of Ring with its Operation for TLC: all constants are numbers *)
(* or sets of them.                                                        *)
EXTENDS Operation
=============================================================================
