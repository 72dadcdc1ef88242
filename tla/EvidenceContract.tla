-------------------------- MODULE EvidenceContract --------------------------
(***************************************************************************)
(* What the recorder promises about an incident, without saying how: once  *)
(* published, evidence stays live in retained RAM, across any number of    *)
(* resets, until it is stored; it is stored only if it was published; and  *)
(* it is published once.                                                   *)
(***************************************************************************)
VARIABLES live,      \* published, so far only in retained RAM
          archived   \* stored by the persistence adapter

Init == live = {} /\ archived = {}

Publish(e) ==
    /\ e \notin live \union archived
    /\ live' = live \union {e}
    /\ UNCHANGED archived

Archive(batch) ==
    /\ batch # {} /\ batch \subseteq live
    /\ live' = live \ batch
    /\ archived' = archived \union batch

\* The evidence of one step: what becomes live, what becomes archived.
Next == \/ \E e \in live' : Publish(e)
        \/ \E batch \in SUBSET live : Archive(batch)

Spec == Init /\ [][Next]_<<live, archived>>
=============================================================================
