----------------------------- MODULE MCRecorder -----------------------------
(***************************************************************************)
(* Instances of Recorder for TLC.  The writers and fault sources are       *)
(* interchangeable within their kind.                                      *)
(***************************************************************************)
EXTENDS Recorder, TLC

Symmetry == Permutations(TaskWriters) \union Permutations(IsrWriters)
            \union Permutations(Faults)
=============================================================================
