---------------------------- MODULE MCTraceQueue ----------------------------
(* Instances of TraceQueue for TLC: the writers are model values. *)
EXTENDS TraceQueue
=============================================================================
