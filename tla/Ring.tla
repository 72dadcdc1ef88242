--------------------------------- MODULE Ring -------------------------------
(***************************************************************************)
(* One timeline ring of the recorder (the Task and the ISR ring have the   *)
(* same code and share nothing): the stores IR_InternalWriteRecord makes   *)
(* inside its critical section, the reset that may fall between any two of *)
(* them, and the persistence adapter reading the ring through              *)
(* IR_ServiceReadRingRecord, paused or after the reset.                    *)
(*                                                                         *)
(* A critical section keeps Tasks, ISRs and the service out, so only a     *)
(* reset sees a write half done.  The stores are plain: a build may keep   *)
(* their order or not.  Recorder has the gate that lets writers and reader *)
(* in; here it is the mode.                                                *)
(***************************************************************************)
EXTENDS Integers, Sequences

CONSTANTS
    Capacity,     \* IR_TASK_RECORD_COUNT or IR_ISR_RECORD_COUNT
    MaxWrites,    \* bound: records written in an epoch
    SourceOrder,  \* TRUE: the build keeps the order of the stores
    Corruption    \* TRUE: a stray write may put an index out of range

ASSUME RingAssumption ==
    /\ Capacity \in Nat \ {0} /\ MaxWrites \in Nat
    /\ {SourceOrder, Corruption} \subseteq BOOLEAN

VARIABLES
    \* g_ir_retained: survives a reset
    ring,          \* two halves of each record, by the number of its write
    writeIndex, recordCount, nextSequence,
    \* the write in progress, or the one a reset cut short
    index,         \* its slot
    todo,          \* its stores that are not made
    \* the reader
    mode,          \* who may use the ring
    size,          \* source.task_record_count or source.isr_record_count
    out            \* records delivered to the adapter so far

ringState == <<writeIndex, recordCount, nextSequence>>
writer    == <<index, todo>>
reader    == <<size, out>>
vars == <<ring, ringState, writer, mode, reader>>

Slots == 0 .. Capacity - 1
Halves == {"front", "back"}
Stores == Halves \union {"write_index", "record_count"}
Record == [Halves -> 0 .. MaxWrites]
Whole(n) == [h \in Halves |-> n]
Blank == [k \in Slots |-> Whole(0)]

\* Definitions named Bug... are variants with one plausible mistake; they show
\* that the properties notice it and are used nowhere else.
IndicesValid == writeIndex < Capacity /\ recordCount <= Capacity

Advance(k) == IF k + 1 >= Capacity THEN 0 ELSE k + 1

\* Logical index i counts from the oldest record.
BugOldest == writeIndex
Oldest == IF recordCount = Capacity THEN writeIndex ELSE 0
BugPhysical(i) == IF Oldest + i > Capacity THEN Oldest + i - Capacity
                                           ELSE Oldest + i
Physical(i) == IF Oldest + i >= Capacity THEN Oldest + i - Capacity
                                         ELSE Oldest + i
Readable(i) == IndicesValid /\ i < recordCount
-----------------------------------------------------------------------------
Init ==
    /\ ring = Blank
    /\ writeIndex = 0 /\ recordCount = 0 /\ nextSequence = 0
    /\ index = 0 /\ todo = {}
    /\ mode = "capture" /\ size = 0 /\ out = <<>>

(* IR_InternalWriteRecord *)

\* The sequence is taken before the timestamp callback, which no store passes.
BeginWrite ==
    /\ mode = "capture" /\ todo = {}
    /\ IndicesValid /\ nextSequence < MaxWrites
    /\ nextSequence' = nextSequence + 1
    /\ index' = writeIndex /\ todo' = Stores
    /\ UNCHANGED <<ring, writeIndex, recordCount, mode, reader>>

\* The stores the source has before this one.
Before(store) == CASE store = "write_index"  -> Halves
                   [] store = "record_count" -> Halves \union {"write_index"}
                   [] OTHER                  -> {}

Writing(store) ==
    /\ mode = "capture" /\ store \in todo
    /\ SourceOrder => todo \intersect Before(store) = {}
    /\ todo' = todo \ {store}

StoreRecord(h) ==
    /\ Writing(h)
    /\ ring' = [ring EXCEPT ![index][h] = nextSequence]
    /\ UNCHANGED <<ringState, index, mode, reader>>

StoreIndex ==
    /\ Writing("write_index")
    /\ writeIndex' = Advance(index)
    /\ UNCHANGED <<ring, recordCount, nextSequence, index, mode, reader>>

StoreCount ==
    /\ Writing("record_count")
    /\ recordCount' = IF recordCount < Capacity THEN recordCount + 1
                                                ELSE recordCount
    /\ UNCHANGED <<ring, writeIndex, nextSequence, index, mode, reader>>

Write == BeginWrite \/ (\E h \in Halves : StoreRecord(h)) \/ StoreIndex
         \/ StoreCount
-----------------------------------------------------------------------------
(* The service and the adapter *)

\* Capture pauses, or the adapter is called for the previous epoch.
BeginRead ==
    /\ \/ mode = "capture" /\ todo = {} /\ mode' = "paused"
       \/ mode = "previous" /\ mode' = "salvage"
    /\ size' = recordCount /\ out' = <<>>
    /\ UNCHANGED <<ring, ringState, writer>>

Reading == mode \in {"paused", "salvage"}

ReadRecord ==
    /\ Reading /\ Len(out) < size /\ Readable(Len(out))
    /\ out' = Append(out, ring[Physical(Len(out))])
    /\ UNCHANGED <<ring, ringState, writer, mode, size>>

\* The adapter returns: it could not read a record, failed for a reason of its
\* own, or stored an image of the running epoch.
EndRead ==
    /\ Reading
    /\ mode' = IF mode = "paused" THEN "capture" ELSE "previous"
    /\ size' = 0 /\ out' = <<>>
    /\ UNCHANGED <<ring, ringState, writer>>

\* IR_InternalBeginFreshEpoch.
Wipe ==
    /\ ring' = Blank
    /\ writeIndex' = 0 /\ recordCount' = 0 /\ nextSequence' = 0
    /\ index' = 0 /\ todo' = {}
    /\ mode' = "capture" /\ size' = 0 /\ out' = <<>>

SalvageDone == mode = "salvage" /\ Len(out) = size /\ Wipe
-----------------------------------------------------------------------------
(* The environment, and the boot *)

Reset ==
    /\ mode # "reset" /\ mode' = "reset"
    /\ size' = 0 /\ out' = <<>>
    /\ UNCHANGED <<ring, ringState, writer>>

\* IR_EarlyInit and IR_Init: an invalid ring, or one without evidence beside
\* it, is wiped; the others wait for the salvage.
Boot ==
    /\ mode = "reset"
    /\ \/ /\ IndicesValid
          /\ mode' = "previous"
          /\ UNCHANGED <<ring, ringState, writer, reader>>
       \/ Wipe

Corrupt ==
    /\ Corruption /\ IndicesValid /\ (mode = "capture" => todo = {})
    /\ \/ writeIndex' = Capacity /\ UNCHANGED recordCount
       \/ recordCount' = Capacity + 1 /\ UNCHANGED writeIndex
    /\ UNCHANGED <<ring, nextSequence, writer, mode, reader>>

Next == \/ Write
        \/ BeginRead \/ ReadRecord \/ EndRead \/ SalvageDone
        \/ Reset \/ Boot \/ Corrupt

Spec == Init /\ [][Next]_vars
-----------------------------------------------------------------------------
(* Properties *)

\* Type invariant.
TypeOK ==
    /\ ring \in [Slots -> Record]
    /\ writeIndex \in 0 .. Capacity /\ recordCount \in 0 .. Capacity + 1
    /\ nextSequence \in 0 .. MaxWrites
    /\ index \in Slots /\ todo \subseteq Stores
    /\ mode \in {"capture", "paused", "reset", "previous", "salvage"}
    /\ size \in 0 .. Capacity + 1
    /\ out \in Seq(Record) /\ Len(out) <= size

\* Whatever a stray write did to the indices, a write in progress and a read
\* that passes the check stay inside the ring.
InBounds ==
    /\ mode = "capture" /\ todo # {} => index \in Slots
    /\ \A i \in 0 .. Capacity + 1 : Readable(i) => Physical(i) \in Slots

\* The adapter receives exactly the last `size` records written, oldest first
\* and whole, however often the ring wrapped around, and no read within the
\* count it was given is refused.
ReaderExact ==
    Reading /\ todo = {} =>
        /\ \A j \in 1 .. Len(out) : out[j] = Whole(nextSequence - size + j)
        /\ Len(out) < size /\ IndicesValid => Readable(Len(out))

\* A ring whose last write a reset cut short between any two stores still
\* yields the newest records in order and whole but for one: at most one
\* position holds a torn, stale or misplaced record.
RunWithout(records, skip, base) ==
    \A j \in (1 .. Len(records)) \ {skip} :
        records[j] = Whole(IF j > skip THEN base + j - 1 ELSE base + j)
EndsAt(records, n, skip, last) ==
    RunWithout(records, skip, IF skip > n THEN last - n ELSE last - n + 1)
TornAtMostOne ==
    Reading =>
        \E skip \in 1 .. size + 1, last \in {nextSequence - 1, nextSequence} :
            EndsAt(out, size, skip, last)
=============================================================================
