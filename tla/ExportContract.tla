--------------------------- MODULE ExportContract ---------------------------
(***************************************************************************)
(* What on-demand export owes its caller: a request is kept until one      *)
(* record, the oldest pending one, is exported for it; nothing is exported *)
(* unasked; and no request outlives the boot it was made in.               *)
(***************************************************************************)
EXTENDS Naturals

CONSTANT Capacity

VARIABLES records, last,   \* the store, as in JournalContract
          wanted,          \* a request is waiting
          boots            \* boots so far

Store == INSTANCE JournalContract

vars == <<records, last, wanted, boots>>

Init == Store!Init /\ wanted = FALSE /\ boots = 1

Ask == wanted' = TRUE /\ UNCHANGED <<records, last, boots>>

Serve ==
    /\ wanted /\ wanted' = FALSE
    /\ \E r \in records : Store!Export(r)
    /\ UNCHANGED boots

Keep ==
    /\ (\E r \in records' : Store!Store(r)) \/ (\E r \in records : Store!Forget(r))
    /\ UNCHANGED <<wanted, boots>>

Restart ==
    /\ wanted' = FALSE /\ boots' = boots + 1
    /\ UNCHANGED <<records, last>>

Next == Ask \/ Serve \/ Keep \/ Restart

Spec == Init /\ [][Next]_vars

\* A request is served once there is something to export.
Served == WF_vars(Serve)
=============================================================================
