------------------------------ MODULE Operation -----------------------------
(***************************************************************************)
(* The last operation beside a Ring: IR_InternalWriteRecord keeps the last *)
(* IR_REC_OPERATION record a second time, field by field, in               *)
(* g_ir_retained.last_operation.  A first-abnormal report copies it when   *)
(* it claims the snapshot and stores the copy after it has left the        *)
(* critical section; the service copies it into the image for the adapter. *)
(*                                                                         *)
(* Operations come from the contexts of this ring only: an operation of    *)
(* the other ring has no number here.                                      *)
(***************************************************************************)
EXTENDS Ring, FiniteSetsExt

CONSTANT
    Operations    \* the writes that record an operation

ASSUME OperationAssumption == Operations \subseteq Nat \ {0}

VARIABLES
    \* g_ir_retained: survives a reset
    operation,     \* last_operation, in two halves
    first, snap,   \* first_abnormal_state, and what is in first_abnormal
    \* locals
    fields,        \* stores of last_operation the write has yet to make
    held,          \* sequence and operation of IR_InternalFirstAbnormal
    unfilled,      \* the fields of first_abnormal it has yet to store
    image          \* source.last_operation

snapshot == <<first, snap, held, unfilled>>
opVars == <<operation, fields, snapshot, image>>
allVars == <<vars, opVars>>

Parts == Halves \union {"sequence"}
NoParts == [p \in Parts |-> 0]
Cut == todo # {} \/ fields # {}

\* The newest operation among the first n writes.
LastOf(n) == Max({0} \union {m \in Operations : m <= n})

\* Outside of critical sections: another context is not inside its own.
Live == mode \in {"capture", "paused"} /\ ~Cut

OpInit ==
    /\ Init
    /\ operation = Whole(0) /\ fields = {} /\ image = Whole(0)
    /\ first = "EMPTY" /\ snap = NoParts /\ held = NoParts /\ unfilled = {}
-----------------------------------------------------------------------------
(* IR_InternalWriteRecord *)

OpBeginWrite ==
    /\ BeginWrite /\ fields = {}
    /\ fields' = IF nextSequence' \in Operations THEN Halves ELSE {}
    /\ UNCHANGED <<operation, snapshot, image>>

\* The stores of the record and of its indices, which a build may exchange with
\* those of last_operation.
OpStore ==
    /\ \/ \E h \in Halves : StoreRecord(h)
       \/ (StoreIndex \/ StoreCount) /\ (SourceOrder => fields = {})
    /\ UNCHANGED opVars

StoreOperation(h) ==
    /\ mode = "capture" /\ h \in fields
    /\ SourceOrder => todo \intersect Halves = {}
    /\ operation' = [operation EXCEPT ![h] = nextSequence]
    /\ fields' = fields \ {h}
    /\ UNCHANGED <<vars, snapshot, image>>
-----------------------------------------------------------------------------
(* IR_InternalFirstAbnormal *)

\* The sequence and the operation are copied in one critical section.
Claim ==
    /\ Live /\ first = "EMPTY"
    /\ first' = "WRITING" /\ unfilled' = Parts
    /\ held' = [p \in Parts |-> IF p = "sequence" THEN nextSequence
                                                  ELSE operation[p]]
    /\ UNCHANGED <<vars, operation, fields, snap, image>>

BugCopied(p) == IF p = "sequence" THEN nextSequence ELSE operation[p]
Copied(p) == held[p]

\* Other reports go on between the stores.
Fill(p) ==
    /\ Live /\ first = "WRITING" /\ p \in unfilled
    /\ snap' = [snap EXCEPT ![p] = Copied(p)]
    /\ unfilled' = unfilled \ {p}
    /\ UNCHANGED <<vars, operation, fields, first, held, image>>

Publish ==
    /\ Live /\ first = "WRITING" /\ unfilled = {}
    /\ first' = "VALID" /\ held' = NoParts
    /\ UNCHANGED <<vars, operation, fields, snap, unfilled, image>>
-----------------------------------------------------------------------------
(* The service, the adapter, and the boot *)

OpBeginRead ==
    /\ BeginRead /\ (mode = "capture" => fields = {})
    /\ image' = operation
    /\ UNCHANGED <<operation, fields, snapshot>>

OpReadRecord == ReadRecord /\ UNCHANGED opVars
OpEndRead ==
    /\ EndRead /\ image' = Whole(0)
    /\ UNCHANGED <<operation, fields, snapshot>>

\* The memset of IR_InternalBeginFreshEpoch.
BugCleared == UNCHANGED operation
Cleared == operation' = Whole(0)
OpWiped ==
    /\ Cleared /\ fields' = {} /\ image' = Whole(0)
    /\ first' = "EMPTY" /\ snap' = NoParts /\ held' = NoParts /\ unfilled' = {}

OpSalvageDone == SalvageDone /\ OpWiped

\* The locals of the reporter are lost; what it had claimed is not published.
OpReset ==
    /\ Reset /\ held' = NoParts /\ unfilled' = {} /\ image' = Whole(0)
    /\ UNCHANGED <<operation, fields, first, snap>>

OpBoot ==
    /\ Boot
    /\ \/ mode' = "previous" /\ UNCHANGED opVars
       \/ mode' = "capture" /\ OpWiped

OpCorrupt ==
    /\ Corrupt /\ (mode = "capture" => fields = {})
    /\ UNCHANGED opVars

OpNext == \/ OpBeginWrite \/ OpStore \/ \E h \in Halves : StoreOperation(h)
          \/ Claim \/ (\E p \in Parts : Fill(p)) \/ Publish
          \/ OpBeginRead \/ OpReadRecord \/ OpEndRead \/ OpSalvageDone
          \/ OpReset \/ OpBoot \/ OpCorrupt

OpSpec == OpInit /\ [][OpNext]_allVars
-----------------------------------------------------------------------------
(* Properties *)

\* Type invariant, with that of Ring.
OpTypeOK ==
    /\ TypeOK
    /\ {operation, image} \subseteq Record /\ fields \subseteq Halves
    /\ first \in {"EMPTY", "WRITING", "VALID"}
    /\ {snap, held} \subseteq [Parts -> 0 .. MaxWrites]
    /\ unfilled \subseteq Parts

\* The operation in an image is the newest of the timeline the adapter reads
\* beside it.  After a reset inside a write each half is this one or the one
\* before, and never one of an earlier epoch.
ImageOperationNewest ==
    Reading =>
        \A h \in Halves :
            \/ image[h] = LastOf(nextSequence)
            \/ Cut /\ image[h] = LastOf(nextSequence - 1)

\* A published snapshot names one operation, whole, the last one before the
\* sequence it carries, although other contexts recorded operations while it
\* was filled; also for the adapter after a reset at any point.
SnapshotOperation ==
    first = "VALID" =>
        \A h \in Halves : snap[h] = LastOf(snap["sequence"])
=============================================================================
