------------------------------ MODULE MCJournal -----------------------------
(* Instances of Journal for TLC: all constants are numbers. *)
EXTENDS Journal
=============================================================================
