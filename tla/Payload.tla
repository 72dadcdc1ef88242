------------------------------- MODULE Payload ------------------------------
(***************************************************************************)
(* How the retained RAM is divided (src/src/ir_internal.h) and how the     *)
(* reference adapter serializes an image of it into its staging buffer     *)
(* (src/reference/ir_reference_project.c): the fixed fields, then each     *)
(* record of the Task ring and of the ISR ring, read one by one.           *)
(*                                                                         *)
(* The two sizes, IR_RETAINED_RAM_BYTES and REFERENCE_BUFFER_BYTES, are    *)
(* configured apart; nothing in the code compares them.                    *)
(***************************************************************************)
EXTENDS Integers

CONSTANTS
    Budgets,      \* values of IR_RETAINED_RAM_BYTES
    Reserved,     \* IR_RETAINED_RESERVED_BYTES
    BufferBytes   \* REFERENCE_BUFFER_BYTES

ASSUME PayloadAssumption ==
    /\ Budgets \subseteq Nat
    /\ {Reserved, BufferBytes} \subseteq Nat

VARIABLES
    ram,       \* the budget of this build
    pc,        \* part of the image RefPersist appends next
    count,     \* source.task_record_count, source.isr_record_count
    broken,    \* rings whose indices a stray write put out of range
    next,      \* record of the ring to read next
    offset,    \* bytes in the staging buffer
    starts     \* history: where each part of the image began

vars == <<ram, pc, count, broken, next, offset, starts>>

Contexts == {"TASK", "ISR"}

\* Definitions named Bug... are variants with one plausible mistake; they show
\* that the properties notice it and are used nowhere else.

\* Bytes of each structure, fields of four bytes and fields of two.
BugFirstBytes == 9 * 4 + 4 * 2
FirstBytes == 10 * 4 + 4 * 2
FaultBytes == 10 * 4
OperationBytes == 3 * 4 + 4 * 2
RecordBytes == 4 * 4 + 4 * 2
RingStateBytes == 4 * 4
HeaderBytes == 11 * 4 + 2 * 2
-----------------------------------------------------------------------------
(* The retained store *)

FixedBytes == HeaderBytes + FirstBytes + FaultBytes + OperationBytes
              + 2 * RingStateBytes + Reserved

\* IR_TOTAL_TIMELINE_RECORD_COUNT, and how the rings share it.
BugTotal(bytes) == (bytes - FixedBytes + RecordBytes - 1) \div RecordBytes
Total(bytes) == (bytes - FixedBytes) \div RecordBytes
BugTaskRecords(bytes) == (Total(bytes) \div 4) * 3
TaskRecords(bytes) == (Total(bytes) * 3) \div 4
IsrRecords(bytes) == Total(bytes) - TaskRecords(bytes)
Capacity(c) == IF c = "TASK" THEN TaskRecords(ram) ELSE IsrRecords(ram)

\* sizeof(IR_RetainedStore): padded to its alignment.
StoreBytes(bytes) ==
    ((FixedBytes + Total(bytes) * RecordBytes + 3) \div 4) * 4

\* The static assertions of ir_internal.h, and arrays of a positive size, as ISO C
\* wants them and scripts/build_reference.sh insists (-Wpedantic -Werror).
Builds(bytes) == /\ bytes > FixedBytes
                 /\ Total(bytes) > 0
                 /\ StoreBytes(bytes) <= bytes
                 /\ TaskRecords(bytes) > 0 /\ IsrRecords(bytes) > 0 /\ Reserved > 0
-----------------------------------------------------------------------------
(* The payload *)

Parts == {"header", "first", "fault", "operation"}
PreambleBytes == 14 * 4 + 2 * 2

Bytes(part) == CASE part = "header"    -> PreambleBytes
                 [] part = "first"     -> FirstBytes
                 [] part = "fault"     -> FaultBytes
                 [] part = "operation" -> OperationBytes

Then(part) == CASE part = "header"    -> "first"
                [] part = "first"     -> "fault"
                [] part = "fault"     -> "operation"
                [] part = "operation" -> "TASK"

NoStart == -1
Nowhere == [part \in Parts \union Contexts |-> NoStart]

Init ==
    /\ ram \in {b \in Budgets : Builds(b)}
    /\ pc = "idle"
    /\ count = [c \in Contexts |-> 0] /\ broken = {} /\ next = 0
    /\ offset = 0 /\ starts = Nowhere

\* RefPut*: a value is appended whole or not at all, and the first one that is
\* not ends the image.
BugFits(bytes) == offset <= BufferBytes
BugRoom(bytes) == offset + bytes < BufferBytes
Room(bytes) == offset + bytes <= BufferBytes

\* persist() with a source the service took of the retained RAM: a sound ring
\* holds no more than it can, a broken one may say anything.
Persist ==
    /\ pc = "idle" /\ pc' = "header"
    /\ \E b \in SUBSET Contexts, n \in [Contexts -> 0 .. Total(ram)] :
         /\ \A c \in Contexts \ b : n[c] <= Capacity(c)
         /\ count' = n /\ broken' = b
    /\ next' = 0 /\ offset' = 0 /\ starts' = Nowhere
    /\ UNCHANGED ram

PutPart(part) ==
    /\ pc = part /\ pc' = Then(part) /\ Room(Bytes(part))
    /\ offset' = offset + Bytes(part)
    /\ starts' = [starts EXCEPT ![part] = offset]
    /\ UNCHANGED <<ram, count, broken, next>>

\* read_task_record or read_isr_record, then RefPutRuntimeRecord.
PutRecord(c) ==
    /\ pc = c /\ next < count[c]
    /\ c \notin broken /\ Room(RecordBytes)
    /\ next' = next + 1 /\ offset' = offset + RecordBytes
    /\ starts' = [starts EXCEPT ![c] = IF next = 0 THEN offset ELSE @]
    /\ UNCHANGED <<ram, pc, count, broken>>

EndRing(c) ==
    /\ pc = c /\ next = count[c]
    /\ pc' = IF c = "TASK" THEN "ISR" ELSE "whole"
    /\ next' = 0
    /\ UNCHANGED <<ram, count, broken, offset, starts>>

\* The ring cannot be read.
Unreadable(c) ==
    /\ pc = c /\ next < count[c] /\ c \in broken
    /\ pc' = "idle"
    /\ UNCHANGED <<ram, count, broken, next, offset, starts>>

\* The buffer is full: RefPersist gives up before it touches a slot.
Full ==
    /\ \/ \E part \in Parts : pc = part /\ ~Room(Bytes(part))
       \/ \E c \in Contexts : /\ pc = c /\ next < count[c] /\ c \notin broken
                              /\ ~Room(RecordBytes)
    /\ pc' = "full"
    /\ UNCHANGED <<ram, count, broken, next, offset, starts>>

\* The slot is written, or nothing was; the service calls again.
Return ==
    /\ pc \in {"whole", "full"} /\ pc' = "idle"
    /\ UNCHANGED <<ram, count, broken, next, offset, starts>>

Next == \/ Persist \/ Full \/ Return
        \/ \E part \in Parts : PutPart(part)
        \/ \E c \in Contexts : PutRecord(c) \/ EndRing(c) \/ Unreadable(c)

Spec == Init /\ [][Next]_vars
-----------------------------------------------------------------------------
(* Properties *)

\* Type invariant: in particular no byte is put past the buffer's end.
TypeOK ==
    /\ ram \in Budgets
    /\ pc \in Parts \union Contexts \union {"idle", "whole", "full"}
    /\ count \in [Contexts -> Nat] /\ broken \subseteq Contexts
    /\ next \in Nat /\ offset \in 0 .. BufferBytes
    /\ starts \in [Parts \union Contexts -> 0 .. BufferBytes \union {NoStart}]

\* Where reference/hardening_check.c reads a stored image.
REF_SERIALIZED_FIRST_ABNORMAL_OFFSET == 60
REF_SERIALIZED_FATAL_OFFSET == 108
RecordsOffset == 168

\* A reader that knows only the two counts finds every part of a whole image:
\* the fixed fields at fixed places, the records of both rings behind them
\* without a gap, and the image as long as they are.
Decodable ==
    pc = "whole" =>
        /\ starts["first"] = REF_SERIALIZED_FIRST_ABNORMAL_OFFSET
        /\ starts["fault"] = REF_SERIALIZED_FATAL_OFFSET
        /\ count["TASK"] > 0 => starts["TASK"] = RecordsOffset
        /\ count["ISR"] > 0 =>
             starts["ISR"] = RecordsOffset + RecordBytes * count["TASK"]
        /\ offset = RecordsOffset + RecordBytes * (count["TASK"] + count["ISR"])

\* An image of the retained RAM is smaller than the RAM by this much at least.
Spare == HeaderBytes + 2 * RingStateBytes + Reserved - PreambleBytes

\* The buffer holds every image, both rings full, of any retained RAM that is
\* no larger than it by more than what is not stored: persistence never fails
\* for want of room, and with it a previous epoch never keeps recording off.
ImageFits == ram <= BufferBytes + Spare => pc # "full"

\* With a reserved area, of whole words, two records are the smallest budget that
\* builds, one for each ring, and none above it fails; of what is configured less
\* than a record goes unused.  (The assertions themselves ask for one record.)
RingsHaveRoom ==
    Reserved # 0 /\ Reserved % 4 = 0 =>
        /\ \A b \in Budgets : Builds(b) <=> b >= FixedBytes + 2 * RecordBytes
        /\ StoreBytes(ram) <= ram /\ ram - StoreBytes(ram) < RecordBytes
=============================================================================
