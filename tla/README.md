# Embedded incident and crash recorder: formal models and proofs

TLA+ models of the recorder framework in this repository, the TLC runs that
check them and the TLAPS proofs about them. Line numbers refer to the files
under `src/`.

| Module | Models | Checked by |
|---|---|---|
| `Recorder` | retained RAM, boot, evidence capture, persistence service (`src/ir_core.c`, `src/ir_service.c`) | `evidence`, `pause`, `system`, and four violation runs |
| `System` | `Recorder` over a bounded store that fills up and is emptied | `system` |
| `EvidenceContract` | abstract: what happens to published evidence | `evidence` (refinement) |
| `RecorderProofs` | types, the capture gate, the salvage, the losses of ISRs | TLAPS |
| `EvidenceProofs` | integrity and latching of evidence, its images and marks; the refinement of `EvidenceContract` | TLAPS |
| `SystemProofs` | the same across losses of power; that no image is stored twice | TLAPS |
| `Ring` | one timeline ring: the stores of a write, the reader, resets, stray writes | `ring` |
| `Operation` | `Ring` with the last operation, its copies in images and snapshots | `ring` |
| `RingProofs` | everything `ring` checks, and types | TLAPS |
| `Export` | export requests, the export state machine and its destination | `export` |
| `ExportContract` | abstract: what a request for export is owed | `export` (refinement) |
| `ExportProofs` | the safety half of what `export` checks, refinement included | TLAPS |
| `TraceQueue` | the Development trace: writers, two queues, the drain, the sink | `trace` |
| `TraceProofs` | the safety half of what `trace` checks | TLAPS |
| `Payload` | division of the retained RAM, serialization of an image (`src/ir_internal.h`, `reference/ir_reference_project.c`) | `payload` |
| `PayloadProofs` | everything `payload` checks | TLAPS |
| `Journal` | the reference persistence adapter (`reference/ir_reference_project.c`) | `journal` |
| `JournalProofs` | everything `journal` checks, refinement included | TLAPS |
| `JournalContract` | abstract: an atomic bounded store of records | `journal` (refinement); the store of `System` and `Export` |
| `MC*` | instances for TLC | |

## 1. Inventory

**Recorder core** (`src/ir_core.c`). State: `g_ir_retained`, a RAM section that
survives a reset (header with validity marks, epoch, state flags, publication
states and sequences; first-abnormal snapshot; fatal snapshot; last operation; a
Task and an ISR ring), and `g_ir_runtime`, which does not survive. Operations:
`IR_EarlyInit` (validate what the last boot left, decide whether it holds
unpersisted evidence), `IR_Init` (begin a fresh epoch unless it does),
`IR_EventTask/Isr`, `IR_FirstAbnormalTask/Isr` (claim, fill, publish one snapshot
an epoch), `IR_FatalCapture` (the same for a fault frame, from the fault handler),
`IR_SystemStable`, `IR_GetStatus`. Hard: Tasks, ISRs and the fault handler
interrupt one another at every statement, and a reset can fall anywhere. Correct
when published evidence is whole, is never overwritten, and survives until it is
stored.

**Persistence service** (`IR_ServiceProcess`, `IR_ServicePersistCurrent`). State:
retry countdown, the capture gate (`capture_enabled`,
`persistence_capture_paused`), a copy of the evidence. One service Task pauses
capture, copies the evidence, calls the project's `persist()`, compares, resumes
capture, and marks the evidence persisted or keeps the request. When the
evidence was a previous epoch's it begins a fresh epoch. Hard: evidence and loss
counters change between copy, comparison and mark; the store may be full. Correct
when "persisted" is only said of stored evidence, and capture always comes back.

**Timeline rings** (`IR_InternalWriteRecord`, `IR_ServiceReadRingRecord`):
fixed-size records, wrap-around index, 32-bit sequence and a saturating loss
counter, written under the critical section and read back in chronological order
by the adapter through callbacks. Hard: a reset between two stores of a write, an
index overwritten by the application. Correct when the reader sees exactly the
last *n* records in order, and nothing outside the ring is touched.

**Export state machine** (`IR_ServiceRequestExport`, `IR_ServiceProcessExport`):
idle, streaming, finalizing, with a retry countdown and abort; one record per
request, from the persistent store to a destination, one step per service call.
Hard: requests come from any context at any time, the destination fails, is
removed or corrupts data, records are stored and reclaimed between two chunks.
Correct when a record is marked exported only after it was copied, and every
request is served.

**Development trace queues** (`IR_InternalQueueDevelopmentTrace`,
`IR_InternalPopDevelopmentTrace`, `IR_ServiceProcessContinuousTrace`): two bounded
queues merged by timestamp; compiled out of the Release profile. Hard: a record is
stamped in one critical section and queued in another, and the loss counter is
incremented both inside and outside one. Correct when every record is delivered,
queued or given up, and a loss always shows.

**Retained layout and reference serialization** (`src/ir_internal.h`,
`RefPersist`): the retained RAM is divided between fixed fields and two rings; an
image is put field by field into a buffer whose size is configured elsewhere.
Correct when every image fits, and a reader finds each part.

**Reference journal** (`reference/ir_reference_project.c`): two slots written in
place with a transaction state, a CRC and a commit marker; allocation counters
rebuilt from the slots; public record ids that wrap around. Correct when a
record appears atomically and unexported records are never reclaimed.

**Status query** (`IR_GetStatus`), **platform operations** (critical section,
atomic claim, barrier, timestamps), **public headers and configuration**,
**linker fragment**, **build scripts**, **reference programs** and **validation
records** surround these.

Interaction: probes write retained RAM; the service reads it and calls the
adapter; the adapter stores and reads the rings through the service's callbacks;
the exporter takes records from the adapter; a reset hands retained RAM to the
next boot. The hazards this creates are listed in `PROJECT.json`, each with the
properties that watch it.

How the modules fit together: `Recorder` abstracts the store to a set of images,
the rings to whether they are intact. `Ring` and `Payload` say what is in an image,
`Journal` how a store keeps it, `JournalContract` what a store promises, and
`System` puts a `JournalContract` under `Recorder`. `Export` runs over the same
`JournalContract`, with the persistence half of the service call as an
environment.

## 2. Recorder

### State and actions

Each retained and runtime field is a variable of the same or a shorter name:
`first` is `first_abnormal_state`, `fatalPub` and `fatalPers` are
`fatal_publish_sequence` and `fatal_persisted_sequence`, `valid` is
`retained_valid`, `pending` is `previous_epoch_pending`, `capture` and `paused`
are the gate. `pc[w]`, `fpc`, `svc`, `boot` and `fresh` are where a writer, the
fault handler, the service Task, the boot path and
`IR_InternalBeginFreshEpoch` are in their code.

A piece of evidence is a tag: the boot, the epoch and the context it came from.
The snapshot has two halves, so that a half-written or mixed one can be seen;
its second half stands for the fields up to the sentinel.

| Code | Actions |
|---|---|
| warm reset | `Reset` (a loss of power is `PowerLoss` of `System`) |
| `IR_EarlyInit`, `IR_Init` | `EarlyInit`, `InitRuntime` |
| `IR_InternalBeginFreshEpoch` | `FreshWipe`, `FreshStampMagic`, `FreshStampEpoch`, `FreshOpen` |
| `IR_EventTask`, `IR_EventIsr` | `EventEnter`, `EventCount`, `EventWrite`, `EventHealth` |
| `IR_FirstAbnormalTask/Isr` | `FirstClaim`, `FirstFillHead`, `FirstFillTail`, `FirstPublish`, `FirstRequest` |
| `IR_FatalCapture` | `FatalClaim`, `FatalRefused`, `FatalFill`, `FatalPublish` |
| `IR_ServiceProcess` (persistence) | `SvcTick`, `SvcSnapshot`, `SvcPersistOk`, `SvcPersistFail`, `SvcCompare`, `SvcFail`, `SvcKeep`, `SvcMarkFlags`, `SvcMarkFatal` |

Granularity. A critical section is one action, except where it makes several
stores to retained RAM whose order a reset or a fault could expose: publishing
(`FirstPublish`, `FirstRequest`) and marking (`SvcMarkFlags`, `SvcMarkFatal`) are
split, and no other Task or ISR runs between the halves (`InCritical`). The
unlocked checks of `IR_InternalFirstAbnormal` turn true once in a boot and stay
true, so they are part of the claim. The `memset` of a fresh epoch clears the
header first, so whatever part of it a reset interrupts leaves an invalid header:
it is one step. The plain header stores after it may reach RAM in either order.
`SystemStable` (check and store) and `FreshOpen` (the last runtime stores of a fresh
epoch) are one step each: no property depends on what falls between their parts.

Scheduling. One core: an ISR runs to completion over Tasks, a fault preempts
everything, the boot path runs before the scheduler. With `FatalReturns = FALSE`
a fault ends in a reset, with `TRUE` the handler returns, as the calls in
`reference/main.c:62` and `reference/hardening_check.c` do.

Assumed of the target: the platform's critical section excludes Tasks and ISRs,
its claim is atomic, its barrier orders stores (`IR_PlatformOps`). `persist()`
either stores the image it was given or fails. A broken ring makes it fail, and
it may fail at any time.

Left out here: the contents of the rings (`Ring`), the last operation (`Operation`), the layout of an image
(`Payload`), the Development trace push and its `TRACE_DROPPED` (`TraceQueue`),
`EXPORT_FAILED` (`Export`), and what section 10 lists.

### Runs

| Run | Checks | Bounds |
|---|---|---|
| `evidence` | `FirstSnapshotWhole`, `ImagesConsistent`, `MarkedIsStored`, `ContractKept` | 2 Tasks, 1 ISR, 1 fault, 3 boots |
| `pause` | `TypeOK`, `TimelineFrozen`, `IsrLossAccounted`, `EvidenceLatched` | 1 Task, 1 ISR, returning fault, broken rings, 1 boot |

`evidence` is the core result. `ContractKept` is refinement: `live` evidence is
what retained RAM has published and no image holds, `archived` is what images
hold, and across resets at any step the recorder only publishes new evidence,
moves live evidence to the archive, or stutters. `MarkedIsStored` says it from
the next boot's side: retained RAM that `IR_EarlyInit` would let `IR_Init` wipe
holds nothing that is not stored. A loss of power is left to `system`: nothing
promises to survive it, and it restarts the epoch numbers that tell images apart.

`pause` allows one boot because the rings and the loss accounting live within a
boot. `evidence` and `system` cover what a boot hands to the next. `CaptureGate`,
whose second half is about a pending previous epoch, the salvage itself,
`SalvageUndisturbed`, and the liveness properties are stated here and checked in
`system`, where the store is one that fills up.

Bounds. Three boots are a boot that creates evidence, one that salvages it or is
reset while doing so, and one after; two Tasks and an ISR are the fewest that
compete for a claim while another is filling. `CounterMax = 1` saturates at once,
`SeqMod = 2` wraps at once. `RetryInterval` is 8 in the code, and 1 or 2 here:
its only effect is to delay. At `MaxBoots` no further reset happens, so under
`FatalReturns = FALSE` no further fault is taken either.

`FairSpec` states the fairness of the parts; `System` refines it to its store
(section 3).

### Disagreements between documents and code

Each is a run that TLC must find violated.

* `lost_update` / `MarkHonest`. `IR_ServicePersistCurrent` compares in one
  critical section and `IR_ServiceProcess` marks in a later one. With a fault
  handler that returns, evidence published in between is marked persisted without
  being stored, and the next boot wipes it (README of the repository, line 5694).
* `uncounted` / `EveryLossAccounted`. A Task that finds capture off at
  `ir_core.c:356` and is preempted until the pause has ended is neither recorded
  nor counted (line 5691). ISRs cannot be overtaken: `IsrLossAccounted` passes.
* `init_window` / `PublishedIsKept`. `IR_Init` sets `initialized` before the
  fresh epoch is begun: on a warm reset an ISR may publish, be told `true`, and
  have its snapshot wiped (line 3523).
* `epoch_reuse` / `EpochIdentifiesBoot`. A reset during the short wipe-and-stamp
  loses the epoch count, and two boots' images carry the same epoch (line 2199).

`FatalReturns = FALSE` and `ProbesDuringInit = FALSE` in the passing runs are
exactly the conditions under which the evidence properties hold, and are proved
(section 9).

## 3. System

`System` extends `Recorder` with the store: `persist()` succeeds only if the store,
`Capacity` records, has room, which it makes by reclaiming an exported record
(`Reclaim`); a user fetches the oldest record now and then (`ExportOldest`). Every
other step is `Recorder`'s (`SysBoot`, `SysWrite`, `SysFault`, `SysService`,
`SysReset`), without the stray writes, which `pause` has.

| Property of `system` | Says |
|---|---|
| `CaptureGate` | recording is off exactly while a previous epoch is pending or the adapter has the evidence |
| `SalvageUndisturbed` | while a previous epoch is salvaged its image cannot change, so the salvage is not repeated |
| `EvidenceArchived` | published evidence is stored, even if the store is full when it is published |
| `RecordingResumes` | recording always comes back, though a full store keeps it off while a previous epoch waits for room |
| `NoRedundantStore` | within a boot the service stores again only what changed: a repetition fills the store with different images only |

Bounds: one Task with events and first-abnormal reports, a fault, a warm reset or
power loss at any point, two boots (one that fills the store, one that salvages
into it), a store of two as in the code, six stored records. There is no ISR that
reports events here: an ISR that did so without pause would leave the service no
time, and no liveness would hold.

Fairness (`SysFairSpec`): weak fairness of the boot path, of every writer inside a
call, of the fault handler and of the service Task, as a scheduler without
starvation gives; a reset follows a fault that does not return; strong fairness of
reclaiming and storing: an adapter that is called again and again and has room
succeeds in the end; strong fairness of the user who fetches a record. The last two
are assumptions on the storage and the operator, and the liveness properties fail
without either. Nothing is assumed about when probes call, or of resets.

What the model shows beyond its properties. Every event that arrives in a pause
changes a loss counter, so the comparison fails and the same evidence is stored
again with other counters: an application with an event in every pause repeats
until the store is full, and then waits for the user. And while a previous epoch
waits for a full store nothing is recorded at all: `RecordingResumes` needs the
user.

## 4. Ring

A record has two halves, so that a cut record store can be seen. The write is
`BeginWrite`, then the stores `StoreRecord`, `StoreIndex`, `StoreCount` in an order
that `Before` leaves open as far as the compiler and the bus may choose it;
`Reset` may fall between any two, and the next boot salvages what is there
(`BeginRead`, `ReadRecord`, `EndRead`) before it wipes the ring. `Corrupt` is a
stray write to the indices, which `IndicesValid` is there to stop.

`ring` checks, with three slots and enough writes to wrap around more than twice:
`InBounds` (no access outside the ring whatever the indices hold), `ReaderExact`
(the adapter reads the newest records, oldest first, if nothing was cut or
overwritten), `TornAtMostOne` (a reset between any two stores spoils at most one
position of what the salvage reads). The code documents chronological order of
the reader; after a cut write that is not what it gives: with the ring full, a
record stored (`ir_core.c:394`) whose index was not advanced (`:412`) stands where
the oldest was, and is read first. `TornAtMostOne` is the exact extent of it.

`Operation` extends `Ring` with `g_ir_retained.last_operation`, a copy of the newest
`IR_REC_OPERATION` record that `IR_InternalWriteRecord` stores field by field
(`StoreOperation`) in the same critical section. `IR_InternalFirstAbnormal` copies it
with the ring's sequence (`Claim`), stores the copies outside any critical section
(`Fill`) while others record, and publishes (`Publish`);
`IR_ServicePersistCurrent` copies it into the image (`OpBeginRead`). The other actions
are the ring's. Which writes are operations is the constant `Operations`: a first
one, two in a row, and none for long enough that the ring no longer has one.

`ImageOperationNewest`: the operation in an image is the newest one of the timeline the
adapter reads beside it, and after a reset inside a write each half is this one or
the one before: the salvage may present a mixture of two operations, never one
of an earlier epoch. `SnapshotOperation`: a published snapshot names one
operation, the last before the sequence it carries. An operation of the other ring
would be a write without a number here; the critical section orders the two.

## 5. Export

Each runtime field is a variable of a shorter name (`state`, `id`, `offset`,
`requested`, `retry`, `cached`). `svc` is where the service is in
`IR_ServiceProcess`; each step of `IR_ServiceProcessExport` is one action, except
that `end()`/`verify()`, `mark_exported()` and the stores after it are apart, so
that a request, a removal or a reset can fall between. A file counts chunks and
remembers whether what it was given is what it holds.

| Code | Actions |
|---|---|
| `IR_ServiceRequestExport` | `Request`; `RequestInTick` if it falls between the load and the store of the countdown |
| the service call up to the export | `Refresh`, `PersistReclaim`, `PersistStore`, `PersistNothing` |
| `IR_ServiceProcessExport` | `NotRequested`, `CountDown`, `Begin`, `BeginRefused`, `SendChunk`, `SendFailed`, `AllSent`, `End`, `EndFailed`, `VerifyFailed`, `MarkExported`, `MarkFailed`, `Finish` |
| `IR_ServiceResetExport` | `AbortExport` |
| destination, board | `Remove`, `Insert`, `Restart` |

`export` checks that only what was copied whole is marked exported
(`ExportedIsCopied`), that the record in work stays in the store and pending
(`HeldRecordPending`), that every file begun is ended or aborted
(`NoFileLeftOpen`), that an accepted request stays latched (`RequestLatched`), that
the machine implements `ExportContract` (`ContractKept`: one request exports at most
one record, the oldest pending one, nothing unasked), that a request is served in
spite of everything (`RequestServed`), and that pending evidence shows in
`IR_GetStatus` although each completed export clears the cached flag
(`PendingReported`).

One thing is excluded from the promise, in the definition of `owed`: a request that
preempts the service after `mark_exported()` was decided and before
`export_requested` is cleared (`ir_service.c:636-638`, plain stores outside any
lock) gets `IR_OK` and is cleared with the request that completes. The stores of
`Finish` are therefore one step, and so are the two of `Request`.

Bounds: a store of two, four generations, two chunks, three failures or removals, a
restart. Fairness: the service Task is called again and again, and somebody puts the
destination back; failures and restarts are bounded. A destination without
`verify()` is a special case of the proofs, and cannot be trusted with silent
corruption.

## 6. TraceQueue

`Stamp` is the critical section of `IR_InternalWriteRecord`, `Push` and `PushLost`
that of `IR_InternalQueueDevelopmentTrace`: others may run in between. `BeginDrain`,
`Pop`, `Write` are `IR_ServiceProcessContinuousTrace`; `WriteFails` loads the loss
counter and `CountLost` stores it, because the code increments it outside any
critical section there. `CorruptQueue` is a stray write to an index.

`trace` checks that every record is in exactly one place (`Accounted`), that the loss
counter is nonzero exactly if something was given up and never too high
(`LossReported`), that the sink receives records by timestamp (`OutputOrdered`), that
every record reaches the sink or is given up (`Delivered`), and that a broken queue
shows in the loss counter although nobody reports any more (`StrayReported`).

Conditions that `OutputOrdered` names, each needed: one Task and one ISR (a second
one may stamp and push between the stamp and the push of the first, and the merge
compares heads only), a service of lower priority than the reporters (the repository asks for
a low-priority Task), a timestamp that does not wrap around. The loss counter may be
too low: an ISR's increment between the service's load and store is overwritten.

Bounds: queues of two, a budget of two, four records, one failure, removal or stray
write. Four records are the least with which a queue overflows while the service
holds a refused record. `LostMax` is 2, so that the counter saturates.
Fairness: a writer finishes its report, the service Task runs again and again, a
removed sink comes back.

## 7. Payload

`Builds` is the static assertions and the positive size of every array, which
`-std=c11 -Wpedantic -Werror` (`scripts/build_reference.sh:11`) enforces; the assertions
alone admit one record, which would leave `task_ring` none. `TaskRecords` and `IsrRecords` the division of the
records; `Persist`, `PutPart`, `PutRecord`, `EndRing`, `Unreadable`, `Full`, `Return`
are `RefPersist` up to the choice of a slot. A ring is full to any degree, and one
whose indices a stray write broke may claim any number of records and cannot be
read. A value is a number of bytes; which bytes, and the CRC, are left out.

`payload` checks: no byte is put past the buffer's end (`TypeOK`); a reader that knows
the two counts finds every part, at the offsets `reference/hardening_check.c` uses
(`Decodable`); an image fits whenever the retained RAM exceeds the buffer by no more
than what is not stored (`ImageFits`); a budget builds exactly if it has room for two
records, and less than a record of it goes unused (`RingsHaveRoom`). The code compares
`IR_RETAINED_RAM_BYTES` (10240) with `REFERENCE_BUFFER_BYTES` (16384) nowhere: a
project that raises the first past the second by more than `Spare` gets a
`persist()` that fails for ever once the rings are full, and then, as
`RecordingResumes` shows, a previous epoch that keeps recording off.

Bounds: budgets for no record, for one and for nearly two, none of which builds, for
two, and on to past a buffer for four.
The proofs cover all others.

## 8. Journal

`persist()` is a sequence of actions with a restart possible between any two: the
slot is cleared, its header written, the payload in two steps, the transaction
state, the commit marker. Clearing and the header are several stores each, and one
step: the magic number goes first, so wherever they are cut recovery clears the slot. `RefRecoverSlots`, which begins every call
of the adapter, is part of each; `Lookup` is the calls that change nothing else. A
failed write leaves the slot as it is. Service calls do not overlap; the exporter
keeps the record id it read from call to call.
Failures before a slot is chosen (serialization, an unreadable ring) change
nothing and are stuttering steps.

`journal` runs with the code's two slots, ids modulo 4 (the least that leaves the
`SlotCount + 1` candidates distinct and still wraps around) and seven
generations, so that ids wrap around twice. `ContractKept`: the journal
implements an atomic store in which records appear whole, exports go oldest
first, unexported records and the newest record are never reclaimed.
`HeldIdStable`: the id an exporter holds names the same record whatever is stored
meanwhile. `IdAlwaysFound`: the comment at `RefAllocateRecordId`, and that no record gets the id 0.

## 9. Proofs

The proofs are for every value of the constants the modules' assumptions admit: any
sets of writers, number of boots, capacity, counter width, byte budget. They assume
nothing else except where noted. Every invariant and every action property of a
passing run is stated by a theorem.

**Recorder** (`RecorderProofs`)

* `TypeCorrect`: in particular a loss counter never passes its saturation value.
* `CaptureGateHolds`: `CaptureGate` is not inductive, because it says nothing
  about the boot path or about `restore_capture`. `GateInv` adds which places of
  the boot path and of the service go together, that `IR_EarlyInit` leaves
  capture off for a pending epoch, and that `restore_capture` remembers whether
  the pause is to be undone.
* `TimelineFrozenHolds`: from `GateInv`, capture is off during the adapter's
  call, and every append repeats the check under the lock.
* `SalvageUndisturbedHolds`: equality of what is retained with the copy the service
  took is kept only because nobody is where he could change it. `SalvageInv` says
  who may be where while an epoch is pending: writers only inside `IR_Event...`,
  which then neither records nor counts, and no fault but a refused one.
* `IsrLossAccountedHolds`: from `IsrInv`. What an ISR saw of `capture_enabled` and of
  the pause outside the lock is still so inside it, since every step that changes
  either runs in a Task. It assumes `SeqMod > 1`, as 2^32 is: with one sequence
  number a recorded event would leave no trace.

**Evidence** (`EvidenceProofs`). Four invariants, each resting on those before it.

* `SnapshotInv`: a claim has one owner, what the owner has filled is its own and of
  the header's epoch, and nobody owns a claim while the store is cleared. From it
  `FirstSnapshotWholeHolds` and `EvidenceLatchedHolds`.
* `OriginInv`: evidence under the header is of this boot if the boot records, else of
  an earlier one, and snapshot and fault frame are of the same; what the adapter was
  given is, until it returns, what is retained. Hence `ImagesConsistentHolds`: a new
  image is of one boot and one epoch. (A frame can join a snapshot only in the boot
  that took it: a later boot salvages before it records.)
* `MarkInv`: evidence that carries its mark is in an image; between the comparison and
  the marks nothing new is published that they would cover; a mark set for the
  snapshot is never left for the next one. Hence `MarkedIsStoredHolds`.
* `KeptInv`: a boot that clears the store without salvaging it finds nothing
  unarchived there, publications fall under a valid header, and nothing is archived
  that was not published; so what is published is new. Hence `ContractKeptHolds`:
  every step is a step of `EvidenceContract` or a stutter. So `PublishedIsKept`, which
  `init_window` refutes, holds under these conditions (`PublishedIsKeptHolds`), as does
  `MarkHonest`, which `MarkedIsStored` implies.

The conditions are the ones the violating runs show to be needed. All four assume
`~ProbesDuringInit` (`init_window`: a probe inside `IR_Init` publishes what the clearing
of the store then takes). The last two assume `~FatalReturns` (`lost_update`: a handler
that returns lets the service mark a frame it did not store), and the last one
`~Corruption`: `IR_EarlyInit` discards a store whose rings' indices are out of range,
with the evidence in it. `NoTag` is assumed not to be a tag.

**System** (`SystemProofs`). A step is one of `Recorder`'s or a loss of power
(`SysSteps`). The invariants above survive the second, so `SysCaptureGate`,
`SysSalvageUndisturbed`, `SysImagesConsistent` and `SysMarkedIsStored` hold with a store that refuses for as long as
it is full, and `SysContractKept` says that only a loss of power takes evidence before
it is stored. `NoRedundantStoreHolds` is about two stores with any number of attempts,
events and requests between them. `NoLater` orders what the service copies out of
retained RAM by what has been added; within a boot retained RAM only goes up in that
order (an epoch that ends goes up in its number). `StoredInv` says that whatever asks for persistence, or
is about to, finds retained RAM strictly above the image stored last. It needs
that evidence of epoch 0 does not exist (`NumberedInv`), hence `~ProbesDuringInit`.

**Ring** (`RingProofs`). `RingInv` says which write every slot holds: `Due(k)`, a
distance from the slot written next rather than a quotient, for every slot except the
one that a write in progress, or cut by a reset, is at. What the reader has collected
is those writes in order, but for one position if a write was cut. `InBoundsHolds`,
`ReaderExactHolds` and `TornAtMostOneHolds` follow. `Operation` implements `Ring`
(`RingKept`), so these hold of what `ring` checks. The two properties of operations
come from `OpInv`: which half of `last_operation`
a write in progress or cut has stored, and that a report in progress holds the
operation its sequence names.

**Export** (`ExportProofs`). `ExportInv` ties the state of the machine to the open
file (streaming and finalizing mean a file of the record in work, with as many chunks
as `offset` says) and the closed file to the copies a user has. From it:
`NoFileLeftOpenHolds`, `ExportedIsCopiedHolds`, `HeldRecordPendingHolds`,
`RequestLatchedHolds`, and `ContractKeptHolds`: every step of the machine is a step of
`ExportContract` or a stutter.

**Payload** (`PayloadProofs`). `PayloadInv` gives `offset` as a function of the part
in work and the records read, so that each `PutPart` and `PutRecord` starts where the
reader will look. `SpaceLeft` shows that what is not stored covers the difference.
All of `payload` follows. `RingsHaveRoomHolds` is about the division alone: `RoomyBuilds`
and `BuildsHaveRoom` are its two directions.

**Journal** (`JournalProofs`). `JournalInv` says what the slot in progress holds and
that it is the right one to write; that the other live records have different ids and
generations, ordered so that all exported ones are older than all pending ones, with
the newest among them; and that the record an exporter holds is the oldest pending
one. From it: `TypeCorrect`, `HeldIdStableHolds` and `ContractKeptHolds`, every step of
a slot is a step of `JournalContract` or a stutter. `IdAlwaysFoundHolds` is a pigeonhole
argument: `SlotCount + 1` successive ids are distinct, and `SlotCount` records cannot
hold them all. Stability and refinement assume two slots or more, as
`REF_SLOT_COUNT` gives: a journal of one slot would reclaim its newest record.

**TraceQueue** (`TraceProofs`). `LossReported` is not inductive: a bound on the counter
needs that each loss is a new one. `TraceInv` says that every record underway (with a
writer, in a live slot of a queue, with the service) is in one place and not among
those given up, and that the counter the service has loaded is covered by losses
that came before. From it: `TypeCorrect`, `LossReportedHolds`.
`AccountedHolds` counts, over all the places at once, one for each record. `TraceInv`
gives at most one; `CoverInv` adds that records written have left the other places,
and that each record made and not given up is in one. `OutputOrderedHolds` is about
records that have left the queues. `OrderInv` adds that what waits is no older than
what has been taken: a queue's records by their distance from the oldest, and the
record of a writer, which `ServiceLowest` keeps the service from overtaking. That
theorem assumes that the sets of writers are finite, as their cardinality is used.

**Only model-checked.** Liveness (`EvidenceArchived`, `RecordingResumes`, `RequestServed`,
`PendingReported`, `Delivered`, `StrayReported`): liveness under fairness, and `ENABLED`,
are beyond the prover. So is a definition by recursion evaluated for every input; no
module here needs one.

## 10. Not modelled

* A second `IR_Init` without a reset, which the repository does not ask for.
* The reset cause and build id, the schema-mismatch bit.
* Adapters that are `NULL`: each behaves as one that always fails, without the pause.
* `end()` of the trace sink, which nothing calls.
* The bytes of a payload, its CRC (the journal assumes it tells a whole payload from
  a partial one), the wording of health flags.
* The linker fragment, build scripts, reference programs and validation records: no
  run-time behaviour, or single-threaded tests of what is modelled above.

## 11. Plan

1. That `System` and `Export` use the store only as `JournalContract` allows holds by
   construction; to state it for a journal with wrapping ids under either, in place
   of the contract.
2. A second `IR_Init` without a reset, as an action that the repository's rules
   exclude, to show what it would cost.
