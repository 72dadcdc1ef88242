--------------------------- MODULE JournalContract --------------------------
(***************************************************************************)
(* What a persistence adapter owes the recorder: a bounded store of        *)
(* records in which a record appears at once or not at all, generations    *)
(* only grow, live records have different public ids, and a record is      *)
(* forgotten only if it was exported and is not the newest.                *)
(***************************************************************************)
EXTENDS Naturals, FiniteSets

CONSTANT Capacity

VARIABLES records,   \* live records: [gen, id, exported]
          last       \* generation of the newest record ever stored

Init == records = {} /\ last = 0

Store(r) ==
    /\ ~r.exported /\ r.gen > last
    /\ \A o \in records : o.id # r.id
    /\ records' = records \union {r}
    /\ Cardinality(records') <= Capacity
    /\ last' = r.gen

Export(r) ==
    /\ ~r.exported
    /\ \A o \in records : ~o.exported => r.gen <= o.gen
    /\ records' = (records \ {r})
                   \union {[gen |-> r.gen, id |-> r.id, exported |-> TRUE]}
    /\ UNCHANGED last

Forget(r) ==
    /\ r.exported /\ r.gen # last
    /\ records' = records \ {r}
    /\ UNCHANGED last

Next == \/ \E r \in records' : Store(r)
        \/ \E r \in records : Export(r) \/ Forget(r)

Spec == Init /\ [][Next]_<<records, last>>
=============================================================================
