-------------------------------- MODULE Export ------------------------------
(***************************************************************************)
(* On-demand export: IR_ServiceRequestExport, called from any context, and *)
(* the export state machine IR_ServiceProcess advances by one step per     *)
(* call (src/src/ir_service.c), between the persistent store and a         *)
(* destination that may fail, be removed, or corrupt what it is given.     *)
(*                                                                         *)
(* The store is JournalContract, which Journal implements; a record's id   *)
(* stands for its generation (Journal!HeldIdStable).  The persistence part *)
(* of the same service call stores records in between.                     *)
(***************************************************************************)
EXTENDS Naturals, FiniteSets

CONSTANTS
    Capacity,         \* records the store holds
    Chunks,           \* chunks of at most IR_EXPORT_CHUNK_BYTES in a payload
    RetryInterval,    \* IR_EXPORT_RETRY_INTERVAL_CALLS
    HasVerify,        \* TRUE: the destination has a verify(); only then may it
                      \* corrupt data silently
    MaxGen,           \* bound: records stored
    MaxBoots,         \* bound: boots
    MaxFaults         \* bound: failures of the adapters and removals

ASSUME ExportAssumption ==
    /\ {Capacity, Chunks, MaxGen, MaxBoots} \subseteq Nat \ {0}
    /\ {RetryInterval, MaxFaults} \subseteq Nat
    /\ HasVerify \in BOOLEAN

VARIABLES
    records, last,   \* the persistent store
    \* g_ir_runtime
    requested, retry,      \* export_requested, export_retry_countdown
    cached,                \* persistent_export_pending
    state, id, offset,     \* export_state, export_record_id, export_offset
    svc,                   \* place in IR_ServiceProcess
    \* the destination
    available,
    file,                  \* the file being written, or the last one closed
    \* history
    owed,                  \* a request was accepted since the last record
                           \* was exported, and not while that export ended
    copies,                \* records of which a whole closed copy was made
    boots, faults

store   == <<records, last>>
latch   == <<requested, retry>>
machine == <<state, id, offset>>
dest    == <<available, file>>
history == <<owed, copies, boots, faults>>
vars    == <<store, latch, cached, machine, svc, dest, history>>

Store == INSTANCE JournalContract

NoFile == [open |-> FALSE, of |-> 0, chunks |-> 0, sound |-> TRUE]
Opened(gen) == [NoFile EXCEPT !.open = TRUE, !.of = gen]
Appended == [file EXCEPT !.chunks = @ + 1]
Closed == [file EXCEPT !.open = FALSE]

Pending == {r \in records : ~r.exported}
Oldest == CHOOSE r \in Pending : \A o \in Pending : r.gen <= o.gen

Init ==
    /\ Store!Init
    /\ requested = FALSE /\ retry = 0 /\ cached = FALSE
    /\ state = "IDLE" /\ id = 0 /\ offset = 0 /\ svc = "idle"
    /\ available = TRUE /\ file = NoFile
    /\ owed = FALSE /\ copies = {} /\ boots = 1 /\ faults = 0

\* Definitions named Bug... are variants with one plausible mistake; they show
\* that the properties notice it and are used nowhere else.

Failing == faults < MaxFaults /\ faults' = faults + 1
-----------------------------------------------------------------------------
(* IR_ServiceRequestExport: two plain stores, in any context and at any time *)

\* If it falls between mark_exported() and Finish, Finish clears it too.
Request ==
    /\ requested' = TRUE /\ retry' = 0
    /\ owed' = (owed \/ svc # "marked")
    /\ UNCHANGED <<store, cached, machine, svc, dest, copies, boots, faults>>

\* The service has loaded the countdown and stores it back decremented.
RequestInTick ==
    /\ svc = "export" /\ requested /\ retry > 0
    /\ retry' = retry - 1 /\ svc' = "idle"
    /\ owed' = TRUE
    /\ UNCHANGED <<store, requested, cached, machine, dest, copies, boots,
                   faults>>
-----------------------------------------------------------------------------
(* IR_ServiceProcess up to the export step *)

BugRefresh == svc = "idle" /\ svc' = "persist"
              /\ UNCHANGED <<store, latch, cached, machine, dest, history>>
Refresh ==
    /\ svc = "idle" /\ svc' = "persist"
    /\ cached' = (Pending # {})
    /\ UNCHANGED <<store, latch, machine, dest, history>>

\* The persistence part stores a record, after reclaiming an exported one.
PersistReclaim ==
    /\ svc = "persist"
    /\ \E r \in records : Store!Forget(r)
    /\ UNCHANGED <<latch, cached, machine, svc, dest, history>>

PersistStore ==
    /\ svc = "persist" /\ svc' = "export" /\ last < MaxGen
    /\ Store!Store([gen |-> last + 1, id |-> last + 1, exported |-> FALSE])
    /\ cached' = TRUE
    /\ UNCHANGED <<latch, machine, dest, history>>

PersistNothing ==
    /\ svc = "persist" /\ svc' = "export"
    /\ UNCHANGED <<store, latch, cached, machine, dest, history>>
-----------------------------------------------------------------------------
(* IR_ServiceProcessExport: one transition per call *)

NotRequested ==
    /\ svc = "export" /\ svc' = "idle" /\ ~requested
    /\ UNCHANGED <<store, latch, cached, machine, dest, history>>

CountDown ==
    /\ svc = "export" /\ svc' = "idle" /\ requested /\ retry > 0
    /\ retry' = retry - 1
    /\ UNCHANGED <<store, requested, cached, machine, dest, history>>

Ready == svc = "export" /\ requested /\ retry = 0

\* Export failed, with IR_ServiceResetExport(true): the machine is reset and
\* the destination told to discard the file.
BugRetryLater == svc' = "idle" /\ retry' = RetryInterval /\ requested' = FALSE
RetryLater == svc' = "idle" /\ retry' = RetryInterval /\ UNCHANGED requested
BugResetMachine == id' = 0 /\ offset' = 0 /\ UNCHANGED state
ResetMachine == state' = "IDLE" /\ id' = 0 /\ offset' = 0
BugAbort == file' = file
Abort == file' = NoFile
AbortExport == ResetMachine /\ Abort /\ RetryLater

Begin ==
    /\ Ready /\ state = "IDLE" /\ svc' = "idle"
    /\ Pending # {} /\ available
    /\ state' = "STREAMING" /\ id' = Oldest.gen /\ offset' = 0
    /\ file' = Opened(Oldest.gen)
    /\ UNCHANGED <<store, latch, cached, available, history>>

\* Nothing to export, no destination, or read_meta() or begin() fails; then
\* the id may already be read.
BeginRefused ==
    /\ Ready /\ state = "IDLE" /\ RetryLater
    /\ \/ /\ Pending = {} \/ ~available
          /\ UNCHANGED <<id, faults>>
       \/ /\ Pending # {} /\ available /\ Failing
          /\ id' \in {id, Oldest.gen}
    /\ UNCHANGED <<store, cached, state, offset, dest, owed, copies, boots>>

BugLeft == offset <= Chunks
Left == offset < Chunks

SendChunk ==
    /\ Ready /\ state = "STREAMING" /\ svc' = "idle"
    /\ available /\ Left /\ file.open
    /\ offset' = offset + 1
    /\ \/ /\ file' = Appended
          /\ UNCHANGED faults
       \/ /\ HasVerify /\ Failing
          /\ file' = [Appended EXCEPT !.sound = FALSE]
    /\ UNCHANGED <<store, latch, cached, state, id, available, owed, copies,
                   boots>>

\* No destination, or read_payload() or write() fails.
SendFailed ==
    /\ Ready /\ state = "STREAMING" /\ AbortExport
    /\ \/ /\ ~available \/ (Left /\ ~file.open)
          /\ UNCHANGED faults
       \/ /\ available /\ Left /\ file.open
          /\ Failing
    /\ UNCHANGED <<store, cached, available, owed, copies, boots>>

AllSent ==
    /\ Ready /\ state = "STREAMING" /\ svc' = "idle"
    /\ available /\ ~Left
    /\ state' = "FINALIZING"
    /\ UNCHANGED <<store, latch, cached, id, offset, dest, history>>

\* end(): from here on the copy outlives a reset.
End ==
    /\ Ready /\ state = "FINALIZING" /\ svc' = "ended"
    /\ file.open
    /\ file' = Closed
    /\ copies' = IF file.chunks = Chunks /\ file.sound
                 THEN copies \union {file.of} ELSE copies
    /\ UNCHANGED <<store, latch, cached, machine, available, owed, boots, faults>>

EndFailed ==
    /\ Ready /\ state = "FINALIZING" /\ AbortExport
    /\ \/ /\ ~file.open
          /\ UNCHANGED faults
       \/ /\ file.open
          /\ Failing
    /\ UNCHANGED <<store, cached, available, owed, copies, boots>>

\* verify() compares the closed file with the stored record, if there is one.
BugVerified == TRUE
Verified ==
    HasVerify => ~file.open /\ file.of = id /\ file.chunks = Chunks /\ file.sound

VerifyFailed ==
    /\ svc = "ended" /\ AbortExport
    /\ \/ /\ ~Verified
          /\ UNCHANGED faults
       \/ /\ Verified /\ HasVerify
          /\ Failing
    /\ UNCHANGED <<store, cached, available, owed, copies, boots>>

MarkExported ==
    /\ svc = "ended" /\ svc' = "marked" /\ Verified
    /\ \E r \in records : r.gen = id /\ Store!Export(r)
    /\ owed' = FALSE
    /\ UNCHANGED <<latch, cached, machine, dest, copies, boots, faults>>

\* mark_exported() fails: the file stays, the record stays pending.
MarkFailed ==
    /\ svc = "ended" /\ Verified /\ ResetMachine /\ RetryLater
    /\ \/ Failing
       \/ /\ \A r \in Pending : r.gen # id
          /\ UNCHANGED faults
    /\ UNCHANGED <<store, cached, dest, owed, copies, boots>>

\* The stores that end a successful export.
BugRequestDone == UNCHANGED requested
RequestDone == requested' = FALSE
Finish ==
    /\ svc = "marked" /\ svc' = "idle"
    /\ cached' = FALSE /\ RequestDone /\ retry' = 0
    /\ ResetMachine
    /\ UNCHANGED <<store, dest, history>>
-----------------------------------------------------------------------------
(* The destination and the board *)

Remove ==
    /\ available /\ Failing
    /\ available' = FALSE /\ file' = NoFile
    /\ UNCHANGED <<store, latch, cached, machine, svc, owed, copies, boots>>

Insert ==
    /\ ~available /\ available' = TRUE
    /\ UNCHANGED <<store, latch, cached, machine, svc, file, history>>

Restart ==
    /\ boots < MaxBoots /\ boots' = boots + 1
    /\ requested' = FALSE /\ retry' = 0 /\ cached' = FALSE
    /\ ResetMachine /\ svc' = "idle"
    /\ file' = NoFile /\ owed' = FALSE
    /\ UNCHANGED <<store, available, copies, faults>>

PrepareService == Refresh \/ PersistReclaim \/ PersistStore \/ PersistNothing
ExportStep == \/ NotRequested \/ CountDown
              \/ Begin \/ BeginRefused \/ SendChunk \/ SendFailed \/ AllSent
              \/ End \/ EndFailed \/ VerifyFailed
              \/ MarkExported \/ MarkFailed \/ Finish
Next == Request \/ RequestInTick \/ PrepareService \/ ExportStep
        \/ Remove \/ Insert \/ Restart

Spec == Init /\ [][Next]_vars

\* The service Task is called again and again, and somebody puts the
\* destination back; failures and restarts are bounded.
Fairness == WF_vars(PrepareService \/ ExportStep) /\ WF_vars(Insert)
FairSpec == Spec /\ Fairness
-----------------------------------------------------------------------------
(* Properties *)

\* Type invariant.
TypeOK ==
    /\ records \subseteq [gen : 1 .. MaxGen, id : 1 .. MaxGen, exported : BOOLEAN]
    /\ last \in 0 .. MaxGen
    /\ requested \in BOOLEAN /\ retry \in 0 .. RetryInterval /\ cached \in BOOLEAN
    /\ state \in {"IDLE", "STREAMING", "FINALIZING"}
    /\ id \in 0 .. MaxGen /\ offset \in 0 .. Chunks
    /\ svc \in {"idle", "persist", "export", "ended", "marked"}
    /\ available \in BOOLEAN
    /\ file \in [open : BOOLEAN, of : 0 .. MaxGen, chunks : 0 .. Chunks,
                 sound : BOOLEAN]
    /\ owed \in BOOLEAN /\ copies \subseteq 0 .. MaxGen
    /\ boots \in 1 .. MaxBoots /\ faults \in 0 .. MaxFaults

\* Only records of which a whole, sound copy was closed are marked exported
\* and may be reclaimed: whatever was removed, corrupted or restarted between
\* begin() and mark_exported().
ExportedIsCopied == \A r \in records : r.exported => r.gen \in copies

\* The record an export works on stays in the store and pending, however many
\* records are stored and reclaimed between its chunks.
HeldRecordPending ==
    state # "IDLE" /\ svc # "marked" => \E r \in Pending : r.gen = id

\* Every file begun is ended or aborted before the machine is idle again.
NoFileLeftOpen == file.open => state # "IDLE" /\ file.of = id

\* A request that was accepted is latched until a record is exported for it,
\* through failures and retries.  The one exception is in owed: a request that
\* preempts the service between mark_exported() and the stores after it.
RequestLatched == owed => requested

Contract == INSTANCE ExportContract WITH wanted <- owed

\* The state machine keeps the contract: one request exports at most one record,
\* the oldest pending one, in the boot it was made in; nothing is exported
\* unasked; and what is pending is not forgotten.
ContractKept == Contract!Spec

\* Under Fairness a request is served once there is something to export, in
\* spite of failures, removals, retries and further requests.
RequestServed == Contract!Served

\* Evidence waiting for export shows in IR_GetStatus, although each completed
\* export clears the cached flag.
StatusPending == requested \/ cached
PendingReported == Pending # {} ~> StatusPending \/ Pending = {}
=============================================================================
