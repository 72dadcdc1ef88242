------------------------------ MODULE Recorder ------------------------------
(***************************************************************************)
(* The recorder core and its persistence service: retained RAM, runtime    *)
(* state, and the contexts that share them.                                *)
(*                                                                         *)
(*   writers   Task and ISR contexts calling IR_Event*, IR_FirstAbnormal*  *)
(*             and IR_SystemStable                (src/src/ir_core.c)      *)
(*   faults    the fault handler calling IR_FatalCapture                   *)
(*   boot      reset, IR_EarlyInit, IR_Init                                *)
(*   service   the Task that calls IR_ServiceProcess (src/src/ir_service.c)*)
(*                                                                         *)
(* A warm reset may happen between any two steps and keeps retained RAM (a *)
(* power loss is System's).  The persist() adapter is external: it         *)
(* commits the image it was given to `archive`, or fails.                  *)
(***************************************************************************)
EXTENDS Naturals, FiniteSets

CONSTANTS
    TaskWriters,     \* Task contexts: preempted between any two steps
    IsrWriters,      \* ISR contexts: run to completion over everything but a fault
    Faults,          \* fault sources that reach the fatal handler
    NoTag,           \* "no evidence here"
    MaxBoots,        \* bound: number of boots explored
    CounterMax,      \* saturation value of a 32-bit diagnostic counter
    SeqMod,          \* modulus of the 32-bit record sequence
    RetryInterval,   \* IR_PERSIST_RETRY_INTERVAL_CALLS
    FatalReturns,    \* TRUE: the handler returns to the program after the capture
    ProbesDuringInit,\* TRUE: ISRs and faults are possible while IR_Init runs
    Events,          \* TRUE: writers also record timeline events
    Corruption       \* TRUE: a stray write may break a ring index

Writers == TaskWriters \union IsrWriters
Contexts == {"TASK", "ISR"}
Context(w) == IF w \in IsrWriters THEN "ISR" ELSE "TASK"

ASSUME RecorderAssumption ==
    /\ TaskWriters \intersect IsrWriters = {}
    /\ Writers \intersect Faults = {}
    /\ MaxBoots \in Nat \ {0}
    /\ CounterMax \in Nat \ {0}
    /\ SeqMod \in Nat \ {0}
    /\ RetryInterval \in Nat
    /\ {FatalReturns, ProbesDuringInit, Events, Corruption} \subseteq BOOLEAN

VARIABLES
    \* g_ir_retained: survives a reset
    hdrOk,      \* magic, schema and size are those of a recorder header
    epoch, incident,
    health,     \* header.health_flags
    flags,      \* header.state_flags
    first,      \* header.first_abnormal_state
    snap,       \* first_abnormal, in two halves: leading fields, and sentinel
    fatal,      \* header.fatal_state
    frame,      \* fatal_snapshot
    fatalPub, fatalPers,
    seq,        \* next_sequence of each ring
    lost,       \* lost_count of each ring
    ringOk,     \* each ring's indices are within its capacity
    \* g_ir_runtime: cleared by a reset
    initialized, valid, pending, capture, paused, transient, countdown,
    \* where each context is, and its locals
    boot,       \* the boot path: reset, early, init, run
    fresh,      \* IR_InternalBeginFreshEpoch: no, wipe, stamp
    prevEpoch,  \* previous_epoch of IR_Init and IR_ServiceProcess
    pc, tag,    \* per writer: place in its call, evidence it is writing
    fpc, fault, \* the fault handler
    svc, source, unchanged, restore,   \* IR_ServiceProcess
    \* history
    boots,      \* boots so far; identifies the evidence of a boot
    archive,    \* images the persistence adapter committed
    owed        \* per writer: its event arrived while recording was on or paused

header     == <<hdrOk, epoch, incident>>
firstVars  == <<first, snap>>
fatalVars  == <<fatal, frame, fatalPub>>
rings      == <<seq, lost, ringOk>>
healthVars == <<health, transient>>
gate       == <<capture, paused>>
life       == <<initialized, valid, pending>>
bootVars   == <<boot, boots, fresh, prevEpoch>>
writerVars == <<pc, tag, owed>>
faultVars  == <<fpc, fault>>
svcLocals  == <<source, unchanged, restore>>
retained   == <<header, health, flags, firstVars, fatalVars, fatalPers, rings>>
runtime    == <<life, gate, transient, countdown>>
vars == <<retained, runtime, bootVars, writerVars, faultVars, svc, svcLocals,
          archive>>

States == {"EMPTY", "WRITING", "VALID"}
StateFlags == {"SYSTEM_STABLE", "PERSIST_REQUESTED", "PERSISTED"}
HealthFlags == {"RETENTION_INVALID", "TORN_RECORD_FOUND", "INDEX_INVALID",
                "RECORD_DROPPED", "PERSIST_FAILED", "DEGRADED", "SALVAGE_USED"}

Tag == [boot : Nat, epoch : Nat, by : Writers \union Faults]

ASSUME NoTagAssumption == NoTag \notin Tag

NoSnap == [head |-> NoTag, tail |-> NoTag]
Tags == Tag \union {NoTag}
Snap == [head : Tags, tail : Tags]
Image == [epoch : Nat, incident : Nat, health : SUBSET HealthFlags,
          lost : [Contexts -> Nat], first : Snap, fatal : Tags, pub : Nat]

\* What an archived image keeps of the evidence.
Stored == [epoch : Nat, first : Snap, fatal : Tags]
Keep(image) == [epoch |-> image.epoch, first |-> image.first,
                fatal |-> image.fatal]

\* Definitions named Bug... are variants with one plausible mistake; they show
\* that the properties notice it and are used nowhere else.
BugSaturate(n) == n + 1
Saturate(n) == IF n < CounterMax THEN n + 1 ELSE n
-----------------------------------------------------------------------------
(* What the code reads out of the shared state *)

BugFirstValid == first # "EMPTY"
FirstValid == first = "VALID" /\ snap.tail # NoTag
FatalUnpersisted == fatal = "VALID" /\ fatalPub # fatalPers

\* The part of retained RAM IR_ServicePersistCurrent copies for the adapter
\* and compares again when the adapter returns.
View == [epoch |-> epoch, incident |-> incident,
         health |-> health \union transient, lost |-> lost,
         first |-> IF FirstValid THEN snap ELSE NoSnap,
         fatal |-> IF fatal = "VALID" THEN frame ELSE NoTag,
         pub |-> fatalPub]

\* IR_ServiceProcess has evidence to persist.
BugNeedNoPending == valid /\ (FatalUnpersisted \/ "PERSIST_REQUESTED" \in flags)
Need == \/ pending
        \/ valid /\ FatalUnpersisted
        \/ valid /\ "PERSIST_REQUESTED" \in flags

\* IR_EarlyInit found evidence of the previous epoch.
BugPreviousEvidence ==
    \/ first = "WRITING" \/ fatal = "WRITING"
    \/ first = "VALID" /\ "PERSISTED" \notin flags
    \/ "PERSIST_REQUESTED" \in flags
PreviousEvidence ==
    \/ first = "WRITING" \/ fatal = "WRITING"
    \/ first = "VALID" /\ "PERSISTED" \notin flags
    \/ "PERSIST_REQUESTED" \in flags
    \/ FatalUnpersisted

HeaderValid == hdrOk /\ \A c \in Contexts : ringOk[c]
-----------------------------------------------------------------------------
(* Scheduling: one core.  A fault preempts everything, an ISR every Task   *)
(* that is not inside a critical section, and the boot path runs before    *)
(* the scheduler.                                                          *)

InIsr == \E w \in IsrWriters : pc[w] # "idle"
InCritical == svc = "marking" \/ \E w \in Writers : pc[w] = "flagging"
TaskLevel == fpc = "idle" /\ ~InIsr /\ ~InCritical

CanStart(w) ==
    /\ TaskLevel
    /\ \/ boot = "run"
       \/ boot = "init" /\ ProbesDuringInit /\ w \in IsrWriters
    /\ pc[w] = "idle"

CanRun(w) == fpc = "idle" /\ (w \in IsrWriters \/ ~InIsr)
             /\ (pc[w] = "flagging" \/ ~InCritical)

CanServe == TaskLevel /\ boot = "run" /\ initialized
CanBoot == fpc = "idle" /\ ~InIsr
-----------------------------------------------------------------------------
(* Initial state: first power-up, retained RAM is noise *)

\* Retained RAM after IR_InternalBeginFreshEpoch's memset.  Noise behind an
\* invalid header is never read before that memset, so it is shown as zeros.
ZeroRetained ==
    /\ epoch' = 0 /\ incident' = 0 /\ health' = {} /\ flags' = {}
    /\ first' = "EMPTY" /\ snap' = NoSnap
    /\ fatal' = "EMPTY" /\ frame' = NoTag /\ fatalPub' = 0 /\ fatalPers' = 0
    /\ seq' = [c \in Contexts |-> 0]
    /\ lost' = [c \in Contexts |-> 0]
    /\ ringOk' = [c \in Contexts |-> TRUE]
    /\ hdrOk' = FALSE

ZeroSource == [epoch |-> 0, incident |-> 0, health |-> {},
               lost |-> [c \in Contexts |-> 0],
               first |-> NoSnap, fatal |-> NoTag, pub |-> 0]

Init ==
    /\ hdrOk = FALSE /\ epoch = 0 /\ incident = 0 /\ health = {} /\ flags = {}
    /\ first = "EMPTY" /\ snap = NoSnap
    /\ fatal = "EMPTY" /\ frame = NoTag /\ fatalPub = 0 /\ fatalPers = 0
    /\ seq = [c \in Contexts |-> 0]
    /\ lost = [c \in Contexts |-> 0]
    /\ ringOk = [c \in Contexts |-> TRUE]
    /\ initialized = FALSE /\ valid = FALSE /\ pending = FALSE
    /\ capture = FALSE /\ paused = FALSE /\ transient = {} /\ countdown = 0
    /\ boot = "reset" /\ fresh = "no" /\ prevEpoch = 0
    /\ pc = [w \in Writers |-> "idle"]
    /\ tag = [w \in Writers |-> NoTag]
    /\ owed = [w \in Writers |-> FALSE]
    /\ fpc = "idle" /\ fault = NoTag
    /\ svc = "idle" /\ source = ZeroSource
    /\ unchanged = FALSE /\ restore = FALSE
    /\ boots = 1 /\ archive = {}
-----------------------------------------------------------------------------
(* Reset and boot *)

\* Everything outside the retained section starts from zero.
Restart ==
    /\ boots < MaxBoots
    /\ boots' = boots + 1
    /\ boot' = "reset" /\ fresh' = "no" /\ prevEpoch' = 0
    /\ initialized' = FALSE /\ valid' = FALSE /\ pending' = FALSE
    /\ capture' = FALSE /\ paused' = FALSE /\ transient' = {} /\ countdown' = 0
    /\ pc' = [w \in Writers |-> "idle"]
    /\ tag' = [w \in Writers |-> NoTag]
    /\ owed' = [w \in Writers |-> FALSE]
    /\ fpc' = "idle" /\ fault' = NoTag
    /\ svc' = "idle" /\ source' = ZeroSource
    /\ unchanged' = FALSE /\ restore' = FALSE
    /\ UNCHANGED archive

Reset == Restart /\ UNCHANGED retained

EarlyInit ==
    /\ boot = "reset"
    /\ boot' = "early"
    /\ valid' = HeaderValid
    /\ pending' = (HeaderValid /\ PreviousEvidence)
    /\ capture' = (HeaderValid /\ ~PreviousEvidence)
    /\ transient' =
         IF HeaderValid
         THEN IF "WRITING" \in {first, fatal} THEN {"TORN_RECORD_FOUND"} ELSE {}
         ELSE {"RETENTION_INVALID"}
              \union (IF hdrOk THEN {"INDEX_INVALID"} ELSE {})
    /\ UNCHANGED <<retained, initialized, paused, countdown, boots, fresh,
                   prevEpoch, writerVars, faultVars, svc, svcLocals, archive>>

\* IR_Init up to its call of IR_InternalBeginFreshEpoch.
InitRuntime ==
    /\ boot = "early"
    /\ initialized' = TRUE
    /\ prevEpoch' = IF valid THEN epoch ELSE 0
    /\ IF pending
       THEN boot' = "run" /\ fresh' = fresh
       ELSE boot' = "init" /\ fresh' = "wipe"
    /\ UNCHANGED <<retained, valid, pending, gate, healthVars, countdown, boots,
                   writerVars, faultVars, svc, svcLocals, archive>>

\* IR_InternalBeginFreshEpoch, called by IR_Init and by the service.  It takes
\* no critical section: contexts that may preempt its caller run in between.
CanFresh == fresh # "no" /\ CanBoot /\ ~InCritical

FreshWipe ==
    /\ CanFresh /\ fresh = "wipe"
    /\ fresh' = "stamp"
    /\ ZeroRetained
    /\ UNCHANGED <<runtime, boot, boots, prevEpoch, writerVars, faultVars, svc, svcLocals, archive>>

\* The header stores are plain: the build may order them either way.
FreshStampMagic ==
    /\ CanFresh /\ fresh = "stamp" /\ ~hdrOk
    /\ hdrOk' = TRUE
    /\ UNCHANGED <<epoch, incident, health, flags, firstVars, fatalVars,
                   fatalPers, rings, runtime, bootVars, writerVars, faultVars,
                   svc, svcLocals, archive>>

FreshStampEpoch ==
    /\ CanFresh /\ fresh = "stamp" /\ epoch = 0
    /\ epoch' = prevEpoch + 1
    /\ first' = "EMPTY" /\ fatal' = "EMPTY"
    /\ health' = transient
    /\ UNCHANGED <<hdrOk, incident, flags, snap, frame, fatalPub, fatalPers,
                   rings, runtime, bootVars, writerVars, faultVars, svc, svcLocals, archive>>

FreshOpen ==
    /\ CanFresh /\ fresh = "stamp" /\ hdrOk /\ epoch # 0
    /\ fresh' = "no" /\ boot' = "run"
    /\ valid' = TRUE /\ pending' = FALSE /\ capture' = TRUE /\ paused' = FALSE
    /\ svc' = "idle" /\ prevEpoch' = 0
    /\ UNCHANGED <<retained, initialized, transient, countdown, boots,
                   writerVars, faultVars, svcLocals, archive>>
-----------------------------------------------------------------------------
(* Writers: timeline events *)

Goto(w, label) == pc' = [pc EXCEPT ![w] = label]

\* A record that found capture off is counted only if persistence paused it.
Lose(c) ==
    /\ lost' = [lost EXCEPT ![c] = Saturate(@)]
    /\ health' = health \union {"RECORD_DROPPED"}
    /\ transient' = transient \union {"RECORD_DROPPED"}
Omit == UNCHANGED <<lost, healthVars>>
BugCountNothing(c) == Omit
BugCountAlways(c) == Lose(c)
CountLoss(c) == (paused /\ Lose(c)) \/ (~paused /\ Omit)

\* IR_InternalWriteRecord: the check of capture_enabled outside any lock.
EventEnter(w) ==
    /\ Events /\ CanStart(w) /\ initialized
    /\ Goto(w, IF capture THEN "write" ELSE "count")
    /\ owed' = [owed EXCEPT ![w] = capture \/ paused]
    /\ UNCHANGED <<retained, runtime, bootVars, tag, faultVars, svc, svcLocals,
                   archive>>

\* IR_InternalCountPausedLoss.
EventCount(w) ==
    /\ CanRun(w) /\ pc[w] = "count"
    /\ CountLoss(Context(w))
    /\ Goto(w, "idle")
    /\ UNCHANGED <<header, flags, firstVars, fatalVars, fatalPers, seq, ringOk,
                   life, gate, countdown, bootVars, tag, owed, faultVars, svc,
                   svcLocals, archive>>

\* The check of capture_enabled repeated inside the lock.
BugStillCapturing == TRUE
StillCapturing == capture

\* The critical section of IR_InternalWriteRecord: capture was paused after
\* the first check, the ring is broken, or the record is written.
EventWrite(w) ==
    LET c == Context(w) IN
    /\ CanRun(w) /\ pc[w] = "write"
    /\ \/ /\ ~StillCapturing
          /\ CountLoss(c)
          /\ Goto(w, "idle")
          /\ UNCHANGED seq
       \/ /\ StillCapturing /\ ~ringOk[c]
          /\ lost' = [lost EXCEPT ![c] = Saturate(@)]
          /\ Goto(w, "health")
          /\ UNCHANGED <<seq, healthVars>>
       \/ /\ StillCapturing /\ ringOk[c]
          /\ seq' = [seq EXCEPT ![c] = (@ + 1) % SeqMod]
          /\ Goto(w, "idle")
          /\ UNCHANGED <<lost, healthVars>>
    /\ UNCHANGED <<header, flags, firstVars, fatalVars, fatalPers, ringOk, life,
                   gate, countdown, bootVars, tag, owed, faultVars, svc,
                   svcLocals, archive>>

\* IR_InternalSetHealth after a broken ring was found.
EventHealth(w) ==
    LET found == {"INDEX_INVALID", "RECORD_DROPPED", "DEGRADED"} IN
    /\ CanRun(w) /\ pc[w] = "health"
    /\ transient' = transient \union found
    /\ health' = health \union found
    /\ Goto(w, "idle")
    /\ UNCHANGED <<header, flags, firstVars, fatalVars, fatalPers, rings, life,
                   gate, countdown, bootVars, tag, owed, faultVars, svc,
                   svcLocals, archive>>

SystemStable(w) ==
    /\ CanStart(w) /\ initialized /\ capture
    /\ flags' = flags \union {"SYSTEM_STABLE"}
    /\ UNCHANGED <<header, health, firstVars, fatalVars, fatalPers, rings,
                   runtime, bootVars, writerVars, faultVars, svc, svcLocals,
                   archive>>

\* The application overwrites recorder metadata.
CorruptRing(c) ==
    /\ Corruption /\ boot = "run" /\ TaskLevel
    /\ ringOk[c]
    /\ ringOk' = [ringOk EXCEPT ![c] = FALSE]
    /\ UNCHANGED <<header, health, flags, firstVars, fatalVars, fatalPers, seq,
                   lost, runtime, bootVars, writerVars, faultVars, svc,
                   svcLocals, archive>>
-----------------------------------------------------------------------------
(* Writers: the first-abnormal snapshot *)

BugCanClaim == initialized /\ valid /\ ~pending
CanClaim == initialized /\ valid /\ ~pending /\ first = "EMPTY"

\* The checks before the critical section only ever turn true within a boot,
\* so taking them at the claim loses no behaviour.
FirstClaim(w) ==
    /\ CanStart(w)
    /\ CanClaim
    /\ first' = "WRITING"
    /\ incident' = incident + 1
    /\ tag' = [tag EXCEPT ![w] = [boot |-> boots, epoch |-> epoch, by |-> w]]
    /\ Goto(w, "claimed")
    /\ UNCHANGED <<hdrOk, epoch, health, flags, snap, fatalVars, fatalPers,
                   rings, runtime, bootVars, owed, faultVars, svc, svcLocals,
                   archive>>

FirstFill(w, from, to, filled) ==
    /\ CanRun(w) /\ pc[w] = from
    /\ snap' = filled
    /\ Goto(w, to)
    /\ UNCHANGED <<header, health, flags, first, fatalVars, fatalPers, rings,
                   runtime, bootVars, tag, owed, faultVars, svc, svcLocals,
                   archive>>

FirstFillHead(w) ==
    FirstFill(w, "claimed", "half", [snap EXCEPT !.head = tag[w]])
FirstFillTail(w) ==
    FirstFill(w, "half", "filled", [snap EXCEPT !.tail = tag[w]])

\* The publication marker, then the request, in one critical section: only a
\* reset or a fault can come between the two stores.
FirstPublish(w) ==
    /\ CanRun(w) /\ pc[w] = "filled"
    /\ first' = "VALID"
    /\ Goto(w, "flagging")
    /\ UNCHANGED <<header, health, flags, snap, fatalVars, fatalPers, rings,
                   runtime, bootVars, tag, owed, faultVars, svc, svcLocals,
                   archive>>

FirstRequest(w) ==
    /\ CanRun(w) /\ pc[w] = "flagging"
    /\ flags' = (flags \ {"PERSISTED"}) \union {"PERSIST_REQUESTED"}
    /\ tag' = [tag EXCEPT ![w] = NoTag]
    /\ Goto(w, "idle")
    /\ UNCHANGED <<header, health, firstVars, fatalVars, fatalPers, rings,
                   runtime, bootVars, owed, faultVars, svc, svcLocals, archive>>
-----------------------------------------------------------------------------
(* The fault handler *)

BugNextPub == fatalPub
NextPub == fatalPub + 1
AfterFatal == IF FatalReturns THEN "idle" ELSE "dead"
CanCapture == initialized /\ valid /\ ~pending /\ fatal = "EMPTY"

Faulting ==
    /\ fpc = "idle"
    /\ boot = "run" \/ (boot = "init" /\ ProbesDuringInit)
    /\ FatalReturns \/ boots < MaxBoots

\* try_claim_u32 moves fatal_state from EMPTY to WRITING, or the call returns.
FatalClaim(f) ==
    /\ Faulting /\ CanCapture
    /\ fatal' = "WRITING"
    /\ fault' = [boot |-> boots, epoch |-> epoch, by |-> f]
    /\ fpc' = "claimed"
    /\ UNCHANGED <<header, health, flags, firstVars, frame, fatalPub, fatalPers,
                   rings, runtime, bootVars, writerVars, svc, svcLocals, archive>>

FatalRefused ==
    /\ Faulting /\ ~CanCapture
    /\ fpc' = AfterFatal
    /\ UNCHANGED <<retained, runtime, bootVars, writerVars, fault, svc,
                   svcLocals, archive>>

FatalFill ==
    /\ fpc = "claimed"
    /\ frame' = fault
    /\ fatalPub' = NextPub
    /\ fpc' = "filled"
    /\ UNCHANGED <<header, health, flags, firstVars, fatal, fatalPers, rings,
                   runtime, bootVars, writerVars, fault, svc, svcLocals, archive>>

FatalPublish ==
    /\ fpc = "filled"
    /\ fatal' = "VALID"
    /\ fpc' = AfterFatal
    /\ fault' = NoTag
    /\ UNCHANGED <<header, health, flags, firstVars, frame, fatalPub, fatalPers,
                   rings, runtime, bootVars, writerVars, svc, svcLocals, archive>>
-----------------------------------------------------------------------------
(* IR_ServiceProcess: persistence.  One service Task. *)

SvcTick ==
    /\ CanServe /\ svc = "idle" /\ countdown > 0
    /\ countdown' = countdown - 1
    /\ UNCHANGED <<retained, life, gate, transient, bootVars, writerVars,
                   faultVars, svc, svcLocals, archive>>

\* IR_ServicePersistCurrent up to its call of the adapter: pause capture and
\* copy the evidence in one critical section.
SvcSnapshot ==
    /\ CanServe /\ svc = "idle" /\ countdown = 0 /\ Need
    /\ restore' = (capture /\ ~pending)
    /\ paused' = (capture /\ ~pending)
    /\ capture' = FALSE
    /\ source' = View
    /\ svc' = "persisting"
    /\ UNCHANGED <<retained, life, transient, countdown, bootVars, writerVars,
                   faultVars, unchanged, archive>>

\* The adapter commits the image; a broken ring with records cannot be read.
SvcPersistOk ==
    /\ CanServe /\ svc = "persisting"
    /\ \A c \in Contexts : ringOk[c] \/ seq[c] = 0
    /\ archive' = archive \union {Keep(source)}
    /\ svc' = "stored"
    /\ UNCHANGED <<retained, runtime, bootVars, writerVars, faultVars, svcLocals>>

SvcPersistFail ==
    /\ CanServe /\ svc = "persisting"
    /\ svc' = "refused"
    /\ UNCHANGED <<retained, runtime, bootVars, writerVars, faultVars, svcLocals,
                   archive>>

BugResumed == (restore /\ svc = "stored") \/ capture
Resumed == restore \/ capture

\* The critical section after the adapter returned: compare, resume capture.
SvcCompare ==
    /\ CanServe /\ svc \in {"stored", "refused"}
    /\ unchanged' = (svc = "stored" /\ View = source)
    /\ paused' = FALSE
    /\ capture' = Resumed
    /\ svc' = IF svc = "stored" THEN "mark" ELSE "fail"
    /\ source' = ZeroSource /\ restore' = FALSE
    /\ UNCHANGED <<retained, life, transient, countdown, bootVars, writerVars,
                   faultVars, archive>>

SvcFail ==
    /\ CanServe /\ svc = "fail"
    /\ transient' = transient \union {"PERSIST_FAILED", "DEGRADED"}
    /\ health' = health \union {"PERSIST_FAILED", "DEGRADED"}
    /\ countdown' = RetryInterval
    /\ svc' = "idle"
    /\ UNCHANGED <<header, flags, firstVars, fatalVars, fatalPers, rings, life,
                   gate, bootVars, writerVars, faultVars, svcLocals, archive>>

\* Evidence changed under the adapter: keep the request for another cycle.
SvcKeep ==
    /\ CanServe /\ svc = "mark" /\ ~unchanged
    /\ flags' = (flags \ {"PERSISTED"}) \union {"PERSIST_REQUESTED"}
    /\ countdown' = 0
    /\ svc' = "idle"
    /\ UNCHANGED <<header, health, firstVars, fatalVars, fatalPers, rings, life,
                   gate, transient, bootVars, writerVars, faultVars, svcLocals,
                   archive>>

\* Evidence is stored: two stores to retained RAM in one critical section ...
BugMarkFlags ==
    /\ CanServe /\ svc = "mark" /\ unchanged
    /\ flags' = flags \union {"PERSISTED"}
    /\ svc' = "marking"
    /\ UNCHANGED <<header, health, firstVars, fatalVars, fatalPers, rings,
                   runtime, bootVars, writerVars, faultVars, svcLocals, archive>>

SvcMarkFlags ==
    /\ CanServe /\ svc = "mark" /\ unchanged
    /\ flags' = (flags \ {"PERSIST_REQUESTED"}) \union {"PERSISTED"}
    /\ svc' = "marking"
    /\ UNCHANGED <<header, health, firstVars, fatalVars, fatalPers, rings,
                   runtime, bootVars, writerVars, faultVars, svcLocals, archive>>

\* ... and, if it was the previous epoch's, a fresh epoch begins.
SvcMarkFatal ==
    /\ fpc = "idle" /\ svc = "marking"
    /\ fatalPers' = IF fatal = "VALID" THEN fatalPub ELSE fatalPers
    /\ countdown' = 0 /\ unchanged' = FALSE
    /\ IF pending
       THEN /\ svc' = "fresh" /\ fresh' = "wipe" /\ prevEpoch' = epoch
            /\ transient' = transient \union {"SALVAGE_USED"}
       ELSE /\ svc' = "idle"
            /\ UNCHANGED <<fresh, prevEpoch, transient>>
    /\ UNCHANGED <<header, health, flags, firstVars, fatalVars, rings, life,
                   gate, boot, boots, writerVars, faultVars, source, restore,
                   archive>>
-----------------------------------------------------------------------------
Boot == EarlyInit \/ InitRuntime
FreshEpoch == FreshWipe \/ FreshStampMagic \/ FreshStampEpoch \/ FreshOpen

EventStep(w) == EventCount(w) \/ EventWrite(w) \/ EventHealth(w)
FirstStep(w) == FirstFillHead(w) \/ FirstFillTail(w) \/ FirstPublish(w)
                \/ FirstRequest(w)
Write(w) == EventEnter(w) \/ EventStep(w) \/ SystemStable(w)
            \/ FirstClaim(w) \/ FirstStep(w)

Fault == (\E f \in Faults : FatalClaim(f)) \/ FatalRefused
FatalStep == FatalFill \/ FatalPublish

Persist == SvcPersistOk \/ SvcPersistFail
Service == SvcTick \/ SvcSnapshot \/ Persist \/ SvcCompare \/ SvcFail
           \/ SvcKeep \/ SvcMarkFlags \/ SvcMarkFatal

Next == \/ Reset \/ Boot \/ FreshEpoch
        \/ \E w \in Writers : Write(w)
        \/ \E c \in Contexts : CorruptRing(c)
        \/ Fault \/ FatalStep \/ Service

Spec == Init /\ [][Next]_vars

\* The scheduler runs every context that is ready, the board resets after a
\* fault, and storage that is tried again and again works in the end.
Fairness ==
    /\ WF_vars(Boot) /\ WF_vars(FreshEpoch)
    /\ \A w \in Writers : WF_vars(EventStep(w) \/ FirstStep(w))
    /\ WF_vars(FatalStep)
    /\ WF_vars(fpc = "dead" /\ Reset)
    /\ WF_vars(Service)
    /\ SF_vars(SvcPersistOk)

FairSpec == Spec /\ Fairness
-----------------------------------------------------------------------------
(* Properties *)

FlagType ==
    /\ hdrOk \in BOOLEAN /\ ringOk \in [Contexts -> BOOLEAN]
    /\ initialized \in BOOLEAN /\ valid \in BOOLEAN /\ pending \in BOOLEAN
    /\ capture \in BOOLEAN /\ paused \in BOOLEAN
    /\ unchanged \in BOOLEAN /\ restore \in BOOLEAN
    /\ owed \in [Writers -> BOOLEAN]

RetainedType ==
    /\ epoch \in Nat /\ incident \in Nat
    /\ health \subseteq HealthFlags /\ flags \subseteq StateFlags
    /\ first \in States /\ snap \in Snap
    /\ fatal \in States /\ frame \in Tags
    /\ fatalPub \in Nat /\ fatalPers \in Nat
    /\ seq \in [Contexts -> Nat]
    /\ lost \in [Contexts -> 0 .. CounterMax]

RuntimeType ==
    /\ transient \subseteq HealthFlags /\ countdown \in 0 .. RetryInterval
    /\ boot \in {"reset", "early", "init", "run"}
    /\ fresh \in {"no", "wipe", "stamp"}
    /\ prevEpoch \in Nat
    /\ svc \in {"idle", "persisting", "stored", "refused", "mark", "marking",
                "fail", "fresh"}
    /\ source \in Image

WriterType ==
    /\ pc \in [Writers -> {"idle", "count", "write", "health",
                           "claimed", "half", "filled", "flagging"}]
    /\ tag \in [Writers -> Tags]
    /\ fpc \in {"idle", "claimed", "filled", "dead"} /\ fault \in Tags

HistoryType ==
    /\ boots \in 1 .. MaxBoots
    /\ archive \subseteq Stored

\* Type invariant: retained RAM, runtime state and every context's place stay
\* in their types, a lost counter within its saturation value.
TypeOK == FlagType /\ RetainedType /\ RuntimeType /\ WriterType /\ HistoryType

\* Evidence published in retained RAM, evidence in committed images, and what
\* would be lost with retained RAM.
Published == IF ~hdrOk THEN {}
             ELSE (IF first = "VALID" THEN {snap.head, snap.tail} ELSE {})
                  \union (IF fatal = "VALID" THEN {frame} ELSE {})
Archived == (UNION {{i.first.head, i.first.tail, i.fatal} : i \in archive}) \ {NoTag}
Live == Published \ Archived

Contract == INSTANCE EvidenceContract WITH live <- Live, archived <- Archived

\* The recorder keeps the contract: across resets at any step, published
\* evidence leaves retained RAM only once an image holds it, and no image
\* holds evidence that was not published (first_abnormal_state and fatal_state
\* as sole markers, EarlyInit's containment, BeginFreshEpoch's wipe).
ContractKept == Contract!Spec

\* The same, as a promise to the probe that was told TRUE: its snapshot does
\* not vanish from retained RAM before it is stored.
PublishedIsKept == [][Live \subseteq Live' \union Archived']_vars

\* A published first-abnormal snapshot is one writer's, whole, and carries the
\* epoch of the header it sits under, however the claims interleave.
FirstSnapshotWhole ==
    first = "VALID" =>
        snap.head = snap.tail /\ snap.head \in Tag /\ snap.head.epoch = epoch

\* No image mixes evidence of different boots, holds half a snapshot, or files
\* evidence under an epoch it did not happen in.
ImagesConsistent ==
    \A i \in archive :
        /\ i.first.head = i.first.tail
        /\ \A e \in {i.first.head, i.fatal} \ {NoTag} : e.epoch = i.epoch
        /\ NoTag \notin {i.first.head, i.fatal} => i.first.head.boot = i.fatal.boot

\* Retained RAM that would not be persisted again (EarlyInit would let the
\* next boot wipe it) holds no evidence but what an image holds.
MarkedIsStored ==
    HeaderValid /\ ~PreviousEvidence => Live = {}

\* Whenever no critical section is open, what the service marked as persisted
\* is persisted: evidence that changed while persistence was in progress is
\* kept pending for another cycle.
MarkHonest == ~InCritical => MarkedIsStored

\* Recording is off exactly while a previous epoch is pending or the adapter
\* has the evidence, and marked paused exactly in the second case: no path out
\* of IR_ServicePersistCurrent leaves it off, none leaves it on too early.
Persisting == svc \in {"persisting", "stored", "refused"}
CaptureGate ==
    boot = "run" => /\ capture <=> ~pending /\ ~Persisting
                    /\ paused <=> ~pending /\ Persisting

\* While the adapter reads the timeline record by record, no writer that had
\* already passed the unlocked check appends to it.
TimelineFrozen == [][svc = "persisting" /\ Persisting' => seq' = seq]_vars

\* Nothing disturbs a previous epoch while it is salvaged: the first
\* persist() that succeeds ends the salvage.
SalvageUndisturbed == svc = "mark" /\ pending => unchanged

\* A published snapshot never changes: later claims and faults leave it alone
\* until the epoch is wiped.
EvidenceLatched ==
    [][hdrOk' => /\ first = "VALID" => first' = "VALID" /\ snap' = snap
                 /\ fatal = "VALID" => fatal' = "VALID" /\ frame' = frame]_vars

\* An event that arrived while recording was on, or paused for persistence, is
\* recorded or counted when its call returns.
Accounted(w) ==
    LET c == Context(w) IN
    pc[w] \in {"count", "write"} /\ pc'[w] # pc[w] /\ owed[w] /\ boots' = boots =>
        seq'[c] # seq[c] \/ lost'[c] # lost[c] \/ lost[c] = CounterMax
IsrLossAccounted == [][\A w \in IsrWriters : Accounted(w)]_vars
EveryLossAccounted == [][\A w \in Writers : Accounted(w)]_vars

\* Images of different boots carry different epochs.
EpochIdentifiesBoot ==
    \A i, j \in archive :
        i.epoch = j.epoch =>
            \A d \in {i.first.head, i.fatal} \ {NoTag},
               e \in {j.first.head, j.fatal} \ {NoTag} : d.boot = e.boot

\* Published evidence reaches the archive, whatever resets and failures of the
\* adapter come first.
EvidenceArchived == Live # {} ~> Live = {}

\* Recording always comes back: no reset, salvage, or failed or repeated
\* persistence turns it off for good.
RecordingResumes == []<>capture
=============================================================================
