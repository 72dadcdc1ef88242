--------------------------- MODULE RecorderProofs ---------------------------
(***************************************************************************)
(* Proofs about Recorder, for every set of writers and faults and every    *)
(* bound.                                                                  *)
(***************************************************************************)
EXTENDS Recorder, TLAPS

USE RecorderAssumption
USE DEF header, firstVars, fatalVars, rings, healthVars, gate, life, bootVars,
        writerVars, faultVars, svcLocals, retained, runtime

-----------------------------------------------------------------------------
(* Types *)

\* The empty values of the snapshot, the image and the archive are in their types.
LEMMA SnapTypes ==
    /\ NoSnap \in Snap
    /\ ZeroSource \in Image
    /\ \A i \in Image : Keep(i) \in Stored
BY DEF NoSnap, Snap, Tags, ZeroSource, Image, Keep, Stored

\* Power-up, with every field of the retained store and the runtime zeroed.
LEMMA TypeInit == Init => TypeOK
<1> SUFFICES ASSUME Init PROVE TypeOK
  OBVIOUS
<1>1. FlagType
  BY DEF Init, FlagType
<1>2. RetainedType
  BY SnapTypes DEF Init, RetainedType, States, Tags
<1>3. RuntimeType
  BY SnapTypes DEF Init, RuntimeType
<1>4. WriterType
  BY DEF Init, WriterType, Tags
<1>5. HistoryType
  BY DEF Init, HistoryType
<1>6. QED
  BY <1>1, <1>2, <1>3, <1>4, <1>5 DEF TypeOK

\* The memset of IR_InternalBeginFreshEpoch, and the loss of retained RAM.
LEMMA TypeZero ==
    ZeroRetained => /\ RetainedType' /\ hdrOk' \in BOOLEAN
                    /\ ringOk' \in [Contexts -> BOOLEAN]
<1> SUFFICES ASSUME ZeroRetained
             PROVE  /\ RetainedType' /\ hdrOk' \in BOOLEAN
                    /\ ringOk' \in [Contexts -> BOOLEAN]
  OBVIOUS
<1>1. RetainedType'
  BY SnapTypes DEF ZeroRetained, RetainedType, States, Tags
<1>2. hdrOk' \in BOOLEAN /\ ringOk' \in [Contexts -> BOOLEAN]
  BY DEF ZeroRetained
<1>3. QED
  BY <1>1, <1>2

\* What a reset does to everything outside the retained section.
LEMMA TypeRestart ==
    TypeOK /\ Restart =>
      /\ initialized' \in BOOLEAN /\ valid' \in BOOLEAN /\ pending' \in BOOLEAN
      /\ capture' \in BOOLEAN /\ paused' \in BOOLEAN
      /\ unchanged' \in BOOLEAN /\ restore' \in BOOLEAN
      /\ owed' \in [Writers -> BOOLEAN]
      /\ RuntimeType' /\ WriterType' /\ HistoryType'
<1> SUFFICES ASSUME TypeOK, Restart
      PROVE /\ initialized' \in BOOLEAN /\ valid' \in BOOLEAN /\ pending' \in BOOLEAN
            /\ capture' \in BOOLEAN /\ paused' \in BOOLEAN
            /\ unchanged' \in BOOLEAN /\ restore' \in BOOLEAN
            /\ owed' \in [Writers -> BOOLEAN]
            /\ RuntimeType' /\ WriterType' /\ HistoryType'
  OBVIOUS
<1>1. /\ initialized' \in BOOLEAN /\ valid' \in BOOLEAN /\ pending' \in BOOLEAN
      /\ capture' \in BOOLEAN /\ paused' \in BOOLEAN
      /\ unchanged' \in BOOLEAN /\ restore' \in BOOLEAN
      /\ owed' \in [Writers -> BOOLEAN]
  BY DEF Restart
<1>2. RuntimeType'
  BY SnapTypes DEF Restart, RuntimeType
<1>3. WriterType'
  BY DEF Restart, WriterType, Tags
<1>4. HistoryType'
  BY DEF Restart, TypeOK, HistoryType
<1>5. QED
  BY <1>1, <1>2, <1>3, <1>4

\* A warm reset.
LEMMA TypeReset == TypeOK /\ Reset => TypeOK'
BY TypeRestart DEF TypeOK, FlagType, RetainedType, Reset

\* IR_EarlyInit and IR_Init.
LEMMA TypeBoot == TypeOK /\ Boot => TypeOK'
<1> SUFFICES ASSUME TypeOK, Boot PROVE TypeOK'
  OBVIOUS
<1> USE DEF TypeOK, RetainedType, RuntimeType, WriterType, HistoryType
<1>1. CASE EarlyInit
  <2>1. HeaderValid \in BOOLEAN /\ PreviousEvidence \in BOOLEAN
    BY DEF FlagType, HeaderValid, PreviousEvidence, FatalUnpersisted
  <2>2. FlagType'
    BY <1>1, <2>1 DEF FlagType, EarlyInit
  <2>3. QED
    BY <1>1, <2>2 DEF EarlyInit, HealthFlags
<1>2. CASE InitRuntime
  <2>1. FlagType'
    BY <1>2 DEF FlagType, InitRuntime
  <2>2. QED
    BY <1>2, <2>1 DEF InitRuntime
<1>3. QED
  BY <1>1, <1>2 DEF Boot

\* The steps of IR_InternalBeginFreshEpoch.
LEMMA TypeFresh == TypeOK /\ FreshEpoch => TypeOK'
<1> SUFFICES ASSUME TypeOK, FreshEpoch PROVE TypeOK'
  OBVIOUS
<1>1. CASE FreshWipe
  BY <1>1, TypeZero
     DEF TypeOK, FlagType, RuntimeType, WriterType, HistoryType, FreshWipe
<1> USE DEF TypeOK, RetainedType, RuntimeType, WriterType, HistoryType
<1>2. CASE FreshStampMagic
  <2>1. FlagType'
    BY <1>2 DEF FlagType, FreshStampMagic
  <2>2. QED
    BY <1>2, <2>1 DEF FreshStampMagic
<1>3. CASE FreshStampEpoch
  BY <1>3 DEF FlagType, FreshStampEpoch, States
<1>4. CASE FreshOpen
  <2>1. FlagType'
    BY <1>4 DEF FlagType, FreshOpen
  <2>2. QED
    BY <1>4, <2>1 DEF FreshOpen
<1>5. QED
  BY <1>1, <1>2, <1>3, <1>4 DEF FreshEpoch

\* IR_EventTask, IR_EventIsr and IR_SystemStable; the loss counter is the
\* field at risk.
LEMMA TypeEvent ==
    ASSUME TypeOK, NEW w \in Writers,
           EventEnter(w) \/ EventStep(w) \/ SystemStable(w)
    PROVE  TypeOK'
<1> USE DEF TypeOK, RetainedType, RuntimeType, WriterType, HistoryType
<1>1. Context(w) \in Contexts
  BY DEF Context, Contexts
<1>2. ASSUME Lose(Context(w)) \/ Omit
      PROVE  /\ lost' \in [Contexts -> 0 .. CounterMax]
             /\ health' \subseteq HealthFlags /\ transient' \subseteq HealthFlags
  BY <1>1, <1>2 DEF Lose, Omit, Saturate, HealthFlags
<1>3. CASE EventEnter(w)
  <2>1. FlagType'
    BY <1>3 DEF FlagType, EventEnter
  <2>2. QED
    BY <1>3, <2>1 DEF EventEnter, Goto
<1>4. CASE EventCount(w)
  <2>1. pc' \in [Writers -> {"idle", "count", "write", "health",
                             "claimed", "half", "filled", "flagging"}]
    BY <1>4 DEF EventCount, Goto
  <2>2. /\ lost' \in [Contexts -> 0 .. CounterMax]
        /\ health' \subseteq HealthFlags /\ transient' \subseteq HealthFlags
    BY <1>2, <1>4 DEF EventCount, CountLoss
  <2>3. QED
    BY <1>4, <2>1, <2>2 DEF FlagType, EventCount
<1>5. CASE EventWrite(w)
  <2>1. /\ lost' \in [Contexts -> 0 .. CounterMax]
        /\ health' \subseteq HealthFlags /\ transient' \subseteq HealthFlags
    BY <1>1, <1>2, <1>5 DEF EventWrite, CountLoss, Saturate, Omit
  <2>2. seq' \in [Contexts -> Nat]
    BY <1>1, <1>5 DEF EventWrite
  <2>3. pc' \in [Writers -> {"idle", "count", "write", "health",
                             "claimed", "half", "filled", "flagging"}]
    BY <1>5 DEF EventWrite, Goto
  <2>4. QED
    BY <1>5, <2>1, <2>2, <2>3 DEF FlagType, EventWrite
<1>6. CASE EventHealth(w)
  BY <1>6 DEF FlagType, EventHealth, Goto, HealthFlags
<1>7. CASE SystemStable(w)
  BY <1>7 DEF FlagType, SystemStable, StateFlags
<1>8. QED
  BY <1>3, <1>4, <1>5, <1>6, <1>7 DEF EventStep

\* IR_FirstAbnormalTask and IR_FirstAbnormalIsr.
LEMMA TypeFirst ==
    ASSUME TypeOK, NEW w \in Writers, FirstClaim(w) \/ FirstStep(w)
    PROVE  TypeOK'
<1> USE DEF TypeOK, FlagType, RetainedType, RuntimeType, WriterType, HistoryType
<1>1. CASE FirstClaim(w)
  <2>1. [boot |-> boots, epoch |-> epoch, by |-> w] \in Tags
    BY DEF Tags, Tag
  <2>2. QED
    BY <1>1, <2>1 DEF FirstClaim, Goto, States
<1>2. CASE FirstFillHead(w) \/ FirstFillTail(w)
  <2>1. snap' \in Snap
    BY <1>2 DEF FirstFillHead, FirstFillTail, FirstFill, Snap
  <2>2. pc' \in [Writers -> {"idle", "count", "write", "health",
                             "claimed", "half", "filled", "flagging"}]
    BY <1>2 DEF FirstFillHead, FirstFillTail, FirstFill, Goto
  <2>3. QED
    BY <1>2, <2>1, <2>2 DEF FirstFillHead, FirstFillTail, FirstFill
<1>3. CASE FirstPublish(w)
  BY <1>3 DEF FirstPublish, Goto, States
<1>4. CASE FirstRequest(w)
  BY <1>4 DEF FirstRequest, Goto, StateFlags, Tags
<1>5. QED
  BY <1>1, <1>2, <1>3, <1>4 DEF FirstStep

\* IR_FatalCapture, and stray writes to the ring indices.
LEMMA TypeFault ==
    ASSUME TypeOK,
           Fault \/ FatalStep \/ \E c \in Contexts : CorruptRing(c)
    PROVE  TypeOK'
<1> USE DEF TypeOK, RetainedType, RuntimeType, WriterType, HistoryType
<1>1. CASE \E f \in Faults : FatalClaim(f)
  <2>1. PICK f \in Faults : FatalClaim(f)
    BY <1>1
  <2>2. [boot |-> boots, epoch |-> epoch, by |-> f] \in Tags
    BY DEF Tags, Tag
  <2>3. QED
    BY <2>1, <2>2 DEF FlagType, FatalClaim, States
<1>2. CASE FatalRefused
  BY <1>2 DEF FlagType, FatalRefused, AfterFatal
<1>3. CASE FatalFill
  BY <1>3 DEF FlagType, FatalFill, NextPub
<1>4. CASE FatalPublish
  BY <1>4 DEF FlagType, FatalPublish, AfterFatal, States, Tags
<1>5. CASE \E c \in Contexts : CorruptRing(c)
  <2>1. FlagType'
    BY <1>5 DEF FlagType, CorruptRing
  <2>2. QED
    BY <1>5, <2>1 DEF CorruptRing
<1>6. QED
  BY <1>1, <1>2, <1>3, <1>4, <1>5 DEF Fault, FatalStep

\* The persistence half of IR_ServiceProcess.
LEMMA TypeService == ASSUME TypeOK, Service PROVE TypeOK'
<1>1. CASE SvcCompare
  <2>1. FlagType'
    BY <1>1 DEF TypeOK, FlagType, SvcCompare, Resumed
  <2>2. RuntimeType'
    BY <1>1, SnapTypes DEF TypeOK, RuntimeType, SvcCompare
  <2>3. RetainedType' /\ WriterType' /\ HistoryType'
    BY <1>1 DEF TypeOK, RetainedType, WriterType, HistoryType, SvcCompare
  <2>4. QED
    BY <2>1, <2>2, <2>3 DEF TypeOK
<1>2. CASE SvcMarkFatal
  <2>1. FlagType'
    BY <1>2 DEF TypeOK, FlagType, SvcMarkFatal
  <2>2. RetainedType'
    BY <1>2 DEF TypeOK, RetainedType, SvcMarkFatal
  <2>3. RuntimeType'
    <3>1. /\ svc' \in {"idle", "fresh"} /\ fresh' \in {fresh, "wipe"}
          /\ prevEpoch' \in {epoch, prevEpoch}
          /\ transient' \in {transient, transient \union {"SALVAGE_USED"}}
      BY <1>2 DEF SvcMarkFatal
    <3>2. countdown' \in 0 .. RetryInterval
      BY <1>2 DEF SvcMarkFatal
    <3>3. source' \in Image /\ boot' \in {"reset", "early", "init", "run"}
      BY <1>2 DEF TypeOK, RuntimeType, SvcMarkFatal
    <3>4. QED
      BY <3>1, <3>2, <3>3 DEF TypeOK, RetainedType, RuntimeType, HealthFlags
  <2>4. WriterType' /\ HistoryType'
    BY <1>2 DEF TypeOK, WriterType, HistoryType, SvcMarkFatal
  <2>5. QED
    BY <2>1, <2>2, <2>3, <2>4 DEF TypeOK
<1> USE DEF TypeOK, RetainedType, RuntimeType, WriterType, HistoryType
<1>3. CASE SvcTick
  BY <1>3 DEF FlagType, SvcTick
<1>4. CASE SvcSnapshot
  <2>1. View \in Image
    BY DEF View, Image, Snap, NoSnap, Tags
  <2>2. FlagType'
    BY <1>4 DEF FlagType, SvcSnapshot
  <2>3. QED
    BY <1>4, <2>1, <2>2 DEF SvcSnapshot
<1>5. CASE SvcPersistOk
  BY <1>5, SnapTypes DEF FlagType, SvcPersistOk
<1>6. CASE SvcPersistFail
  BY <1>6 DEF FlagType, SvcPersistFail
<1>7. CASE SvcFail
  BY <1>7 DEF FlagType, SvcFail, HealthFlags
<1>8. CASE SvcKeep
  BY <1>8 DEF FlagType, SvcKeep, StateFlags
<1>9. CASE SvcMarkFlags
  BY <1>9 DEF FlagType, SvcMarkFlags, StateFlags
<1>10. QED
  BY <1>3, <1>4, <1>5, <1>6, <1>1, <1>7, <1>8, <1>9, <1>2 DEF Service, Persist

\* A step that changes no variable.
LEMMA TypeStutter == TypeOK /\ UNCHANGED vars => TypeOK'
BY DEF vars, TypeOK, FlagType, RetainedType, RuntimeType, WriterType, HistoryType

\* Every state of the specification is well typed, for every set of writers,
\* every number of boots and every saturation value: in particular a lost
\* counter never passes its saturation value (IR_InternalSaturatingIncrement).
THEOREM TypeCorrect == Spec => []TypeOK
<1>1. Init => TypeOK
  BY TypeInit
<1>2. TypeOK /\ [Next]_vars => TypeOK'
  BY TypeReset, TypeBoot, TypeFresh, TypeEvent, TypeFirst,
     TypeFault, TypeService, TypeStutter DEF Next, Write
<1>3. QED
  BY <1>1, <1>2, PTL DEF Spec
-----------------------------------------------------------------------------
(* The capture gate *)

\* What CaptureGate needs to be inductive: where the boot path and the service
\* can be together, what EarlyInit left in capture_enabled, and that
\* restore_capture remembers whether the pause must be undone.
GateInv ==
    /\ CaptureGate
    /\ boot # "run" => svc = "idle" /\ ~paused
    /\ boot = "early" /\ pending => ~capture
    /\ boot \in {"reset", "early"} => fresh = "no"
    /\ fresh # "no" => boot = "init" \/ svc = "fresh"
    /\ svc = "fresh" => boot = "run" /\ pending
    /\ Persisting => (restore <=> ~pending)

\* Power-up: nothing pending, nothing being persisted.
LEMMA GateInit == Init => GateInv
BY DEF Init, GateInv, CaptureGate, Persisting

\* The writers and the fault handler touch no variable of the gate.
LEMMA GateOthers ==
    ASSUME GateInv,
           \/ \E w \in Writers : Write(w)
           \/ \E c \in Contexts : CorruptRing(c)
           \/ Fault \/ FatalStep \/ UNCHANGED vars
    PROVE  GateInv'
<1>1. /\ boot' = boot /\ svc' = svc /\ paused' = paused /\ capture' = capture
      /\ pending' = pending /\ fresh' = fresh /\ restore' = restore
  BY DEF Write, EventEnter, EventStep, EventCount, EventWrite, EventHealth,
         SystemStable, FirstClaim, FirstStep, FirstFillHead, FirstFillTail,
         FirstFill, FirstPublish, FirstRequest, CorruptRing, Fault, FatalClaim,
         FatalRefused, FatalStep, FatalFill, FatalPublish, vars
<1>2. QED
  BY <1>1 DEF GateInv, CaptureGate, Persisting

\* A reset closes the gate, EarlyInit and the fresh epoch open it.
LEMMA GateBoot ==
    ASSUME TypeOK, GateInv, Reset \/ Boot \/ FreshEpoch
    PROVE  GateInv'
<1> USE DEF GateInv, CaptureGate, Persisting
<1>1. CASE Reset
  BY <1>1 DEF Reset, Restart
<1>2. CASE EarlyInit
  BY <1>2 DEF EarlyInit
<1>3. CASE InitRuntime
  BY <1>3 DEF InitRuntime
<1>4. CASE FreshWipe \/ FreshStampMagic \/ FreshStampEpoch
  BY <1>4 DEF FreshWipe, FreshStampMagic, FreshStampEpoch, CanFresh
<1>5. CASE FreshOpen
  BY <1>5 DEF FreshOpen, CanFresh
<1>6. QED
  BY <1>1, <1>2, <1>3, <1>4, <1>5 DEF Boot, FreshEpoch

\* The service shuts and opens the gate around the adapter's call.
LEMMA GateService ==
    ASSUME TypeOK, GateInv, Service
    PROVE  GateInv'
<1> USE DEF GateInv, CaptureGate, Persisting
<1>1. CASE SvcTick
  BY <1>1 DEF SvcTick
<1>2. CASE SvcSnapshot
  BY <1>2 DEF SvcSnapshot, CanServe
<1>3. CASE Persist
  BY <1>3 DEF Persist, SvcPersistOk, SvcPersistFail, CanServe
<1>4. CASE SvcCompare
  BY <1>4 DEF SvcCompare, CanServe, Resumed
<1>5. CASE SvcFail \/ SvcKeep \/ SvcMarkFlags
  BY <1>5 DEF SvcFail, SvcKeep, SvcMarkFlags, CanServe
<1>6. CASE SvcMarkFatal
  BY <1>6 DEF SvcMarkFatal
<1>7. QED
  BY <1>1, <1>2, <1>3, <1>4, <1>5, <1>6 DEF Service

\* Every step keeps the gate invariant.
LEMMA GateStep == TypeOK /\ GateInv /\ [Next]_vars => GateInv'
BY GateOthers, GateBoot, GateService DEF Next

\* The gate invariant holds in every reachable state: capture_enabled and
\* persistence_capture_paused always agree with the place of the service Task
\* and of the boot path.
THEOREM GateInvariant == Spec => []GateInv
BY GateInit, GateStep, TypeCorrect, PTL DEF Spec

\* Whatever the interleaving, the resets and the adapter's answers, recording
\* is off exactly while a previous epoch is pending or the adapter works:
\* IR_ServicePersistCurrent never leaves capture_enabled false behind.
THEOREM CaptureGateHolds == Spec => []CaptureGate
<1>1. GateInv => CaptureGate
  BY DEF GateInv
<1>2. QED
  BY <1>1, GateInvariant, PTL

\* No record is appended while the adapter reads the timeline, for any number
\* of writers: the second check of capture_enabled, inside the lock, is enough.
THEOREM TimelineFrozenHolds == Spec => TimelineFrozen
<1>1. TypeOK /\ GateInv /\ [Next]_vars
        => [svc = "persisting" /\ Persisting' => seq' = seq]_vars
  <2> SUFFICES ASSUME TypeOK, GateInv, Next, svc = "persisting", Persisting'
               PROVE  seq' = seq
    BY DEF vars
  <2> USE DEF GateInv, CaptureGate, Persisting
  <2>1. ~capture /\ fresh = "no"
    OBVIOUS
  <2>2. CASE Reset
    BY <2>2 DEF Reset, Restart
  <2>3. CASE Boot \/ FreshEpoch
    BY <2>1, <2>3 DEF Boot, EarlyInit, InitRuntime, FreshEpoch, FreshWipe,
                      FreshStampMagic, FreshStampEpoch, FreshOpen, CanFresh
  <2>4. CASE \E w \in Writers : Write(w)
    BY <2>1, <2>4 DEF Write, EventEnter, EventStep, EventCount, EventWrite,
         EventHealth, SystemStable, FirstClaim, FirstStep, FirstFillHead,
         FirstFillTail, FirstFill, FirstPublish, FirstRequest, StillCapturing
  <2>5. CASE Fault \/ FatalStep \/ \E c \in Contexts : CorruptRing(c)
    BY <2>5 DEF Fault, FatalClaim, FatalRefused, FatalStep, FatalFill,
                FatalPublish, CorruptRing
  <2>6. CASE Service
    BY <2>6 DEF Service, SvcTick, SvcSnapshot, Persist, SvcPersistOk,
         SvcPersistFail, SvcCompare, SvcFail, SvcKeep, SvcMarkFlags,
         SvcMarkFatal
  <2>7. QED
    BY <2>2, <2>3, <2>4, <2>5, <2>6 DEF Next
<1>2. QED
  BY <1>1, TypeCorrect, GateInvariant, PTL DEF Spec, TimelineFrozen
-----------------------------------------------------------------------------
(* The salvage of a previous epoch *)

\* What SalvageUndisturbed needs to be inductive: from EarlyInit on, no writer
\* and no fault handler is where it could change what is salvaged, so the copy
\* the service took stays equal to what is retained.
SalvageInv ==
    /\ SalvageUndisturbed
    /\ boot \in {"reset", "early"} => /\ \A w \in Writers : pc[w] = "idle"
                                      /\ fpc = "idle"
    /\ pending => /\ \A w \in Writers : pc[w] \in {"idle", "count", "write"}
                  /\ fpc \in {"idle", "dead"}
    /\ boot \in {"reset", "init"} => ~pending
    /\ svc \in {"persisting", "stored"} /\ pending => View = source

\* Power-up: nothing is pending.
LEMMA SalvageInit == Init => SalvageInv
BY DEF Init, SalvageInv, SalvageUndisturbed

\* The view of retained RAM changes only with the fields it shows.
LEMMA ViewSame ==
    UNCHANGED <<epoch, incident, health, transient, lost, first, snap, fatal,
                frame, fatalPub>> => View' = View
BY DEF View, FirstValid

\* Resets and the boot path: the service is idle until the boot has ended.
LEMMA SalvageBoot ==
    ASSUME TypeOK, GateInv, SalvageInv, Reset \/ Boot \/ FreshEpoch
    PROVE  SalvageInv'
<1> USE DEF SalvageInv, SalvageUndisturbed, GateInv
<1>1. CASE Reset
  BY <1>1 DEF Reset, Restart
<1>2. CASE EarlyInit
  BY <1>2 DEF EarlyInit
<1>3. CASE InitRuntime
  BY <1>3 DEF InitRuntime
<1>4. CASE FreshWipe \/ FreshStampMagic \/ FreshStampEpoch
  <2>1. /\ UNCHANGED <<boot, pending, pc, fpc, svc, unchanged>>
        /\ svc \in {"idle", "fresh"}
    BY <1>4 DEF FreshWipe, FreshStampMagic, FreshStampEpoch, CanFresh
  <2>2. QED
    BY <2>1
<1>5. CASE FreshOpen
  BY <1>5 DEF FreshOpen
<1>6. QED
  BY <1>1, <1>2, <1>3, <1>4, <1>5 DEF Boot, FreshEpoch

\* The calls of the writers: with a previous epoch pending, recording is off
\* and not paused, so none of them changes what is retained.
LEMMA SalvageWrite ==
    ASSUME TypeOK, GateInv, SalvageInv, NEW w \in Writers, Write(w)
    PROVE  SalvageInv'
<1>1. UNCHANGED <<boot, pending, fpc, svc, unchanged, source, capture, paused>>
  BY DEF Write, EventEnter, EventStep, EventCount, EventWrite, EventHealth,
         SystemStable, FirstClaim, FirstStep, FirstFillHead, FirstFillTail,
         FirstFill, FirstPublish, FirstRequest
<1>2. boot \notin {"reset", "early"}
  BY DEF Write, EventEnter, EventStep, EventCount, EventWrite, EventHealth,
         SystemStable, FirstClaim, FirstStep, FirstFillHead, FirstFillTail,
         FirstFill, FirstPublish, FirstRequest, SalvageInv, CanStart
<1>3. ASSUME pending
      PROVE  /\ \A v \in Writers : pc'[v] \in {"idle", "count", "write"}
             /\ View' = View
  <2>1. boot = "run" /\ ~capture /\ ~paused
    BY <1>2, <1>3 DEF SalvageInv, GateInv, CaptureGate, TypeOK, RuntimeType
  <2>2. pc[w] \in {"idle", "count", "write"}
    BY <1>3 DEF SalvageInv
  <2>3. CASE EventEnter(w)
    BY <1>3, <2>1, <2>3, ViewSame
       DEF EventEnter, Goto, SalvageInv, TypeOK, WriterType
  <2>4. CASE EventCount(w)
    BY <1>3, <2>1, <2>4, ViewSame
       DEF EventCount, CountLoss, Omit, Goto, SalvageInv, TypeOK, WriterType
  <2>5. CASE EventWrite(w)
    BY <1>3, <2>1, <2>5, ViewSame DEF EventWrite, StillCapturing, CountLoss,
         Omit, Goto, SalvageInv, TypeOK, WriterType
  <2>6. ~EventHealth(w) /\ ~SystemStable(w) /\ ~FirstClaim(w) /\ ~FirstStep(w)
    BY <1>3, <2>1, <2>2 DEF EventHealth, SystemStable, FirstClaim, CanClaim,
         FirstStep, FirstFillHead, FirstFillTail, FirstFill, FirstPublish,
         FirstRequest
  <2>7. QED
    BY <2>3, <2>4, <2>5, <2>6 DEF Write, EventStep
<1>4. QED
  BY <1>1, <1>2, <1>3 DEF SalvageInv, SalvageUndisturbed

\* IR_FatalCapture refuses while a previous epoch is pending.
LEMMA SalvageFault ==
    ASSUME TypeOK, SalvageInv,
           Fault \/ FatalStep \/ \E c \in Contexts : CorruptRing(c)
    PROVE  SalvageInv'
<1>1. UNCHANGED <<boot, pending, pc, svc, unchanged, source>>
  BY DEF Fault, FatalClaim, FatalRefused, FatalStep, FatalFill, FatalPublish,
         CorruptRing
<1>2. boot \in {"reset", "early"} => fpc' = "idle"
  BY DEF Fault, FatalClaim, FatalRefused, Faulting, FatalStep, FatalFill,
         FatalPublish, CorruptRing, SalvageInv
<1>3. ASSUME pending PROVE fpc' \in {"idle", "dead"} /\ View' = View
  BY <1>3, ViewSame DEF Fault, FatalClaim, CanCapture, FatalRefused, AfterFatal,
       FatalStep, FatalFill, FatalPublish, CorruptRing, SalvageInv
<1>4. QED
  BY <1>1, <1>2, <1>3 DEF SalvageInv, SalvageUndisturbed

\* The service copies what is retained, and finds it as it was.
LEMMA SalvageService ==
    ASSUME TypeOK, GateInv, SalvageInv, Service
    PROVE  SalvageInv'
<1> USE DEF SalvageInv, SalvageUndisturbed
<1>1. UNCHANGED <<boot, pending, pc, fpc>>
  BY DEF Service, SvcTick, SvcSnapshot, Persist, SvcPersistOk, SvcPersistFail,
         SvcCompare, SvcFail, SvcKeep, SvcMarkFlags, SvcMarkFatal
<1>2. CASE SvcTick
  BY <1>1, <1>2, ViewSame DEF SvcTick
<1>3. CASE SvcSnapshot
  BY <1>1, <1>3, ViewSame DEF SvcSnapshot
<1>4. CASE Persist
  BY <1>1, <1>4, ViewSame DEF Persist, SvcPersistOk, SvcPersistFail
<1>5. CASE SvcCompare
  <2>1. svc = "stored" /\ pending => unchanged'
    BY <1>5, Zenon DEF SvcCompare
  <2>2. svc' \in {"mark", "fail"} /\ (svc' = "mark" => svc = "stored")
    BY <1>5 DEF SvcCompare
  <2>3. QED
    BY <1>1, <2>1, <2>2
<1>6. CASE SvcFail \/ SvcKeep \/ SvcMarkFlags
  BY <1>1, <1>6 DEF SvcFail, SvcKeep, SvcMarkFlags
<1>7. CASE SvcMarkFatal
  BY <1>1, <1>7 DEF SvcMarkFatal
<1>8. QED
  BY <1>2, <1>3, <1>4, <1>5, <1>6, <1>7 DEF Service

\* Every step keeps the salvage invariant.
LEMMA SalvageStep == TypeOK /\ GateInv /\ SalvageInv /\ [Next]_vars => SalvageInv'
<1>1. SalvageInv /\ UNCHANGED vars => SalvageInv'
  BY ViewSame DEF vars, SalvageInv, SalvageUndisturbed
<1>2. QED
  BY <1>1, SalvageBoot, SalvageWrite, SalvageFault, SalvageService DEF Next

\* The salvage invariant holds in every reachable state.
THEOREM SalvageInvariant == Spec => []SalvageInv
BY SalvageInit, SalvageStep, TypeCorrect, GateInvariant, PTL DEF Spec

\* With any number of writers and faults, stray writes, and a reset anywhere:
\* what IR_ServicePersistCurrent compares after the adapter returned is what
\* it copied before, if a previous epoch is salvaged; one success ends it.
THEOREM SalvageUndisturbedHolds == Spec => []SalvageUndisturbed
<1>1. SalvageInv => SalvageUndisturbed
  BY DEF SalvageInv
<1>2. QED
  BY <1>1, SalvageInvariant, PTL
-----------------------------------------------------------------------------
(* Losses during the pause *)

\* The next sequence number is in range, and another one unless there is only one.
LEMMA NextSequence ==
    ASSUME NEW m \in Nat \ {0}, NEW k \in 0 .. m - 1
    PROVE  (k + 1) % m \in 0 .. m - 1 /\ (m > 1 => (k + 1) % m # k)
<1>1. CASE k + 1 < m
  <2>1. (k + 1) % m = k + 1
    BY <1>1
  <2>2. QED
    BY <1>1, <2>1
<1>2. CASE k + 1 = m
  <2>1. (k + 1) % m = 0
    BY <1>2
  <2>2. QED
    BY <1>2, <2>1
<1>3. QED
  BY <1>1, <1>2

\* While an ISR is in its call, what it saw of capture_enabled and of the pause
\* stays true: nothing that changes them runs over an ISR.
IsrInv ==
    /\ \A w \in IsrWriters : owed[w] => /\ pc[w] = "count" => paused
                                        /\ pc[w] = "write" => capture
    /\ \A c \in Contexts : seq[c] < SeqMod

\* A step leaves the gate alone, or finds no ISR in its call.
LEMMA GateFixedInIsr ==
    ASSUME TypeOK, SalvageInv, [Next]_vars
    PROVE  \/ UNCHANGED gate
           \/ \A w \in IsrWriters : pc'[w] = "idle"
<1>1. CASE Reset
  BY <1>1 DEF Reset, Restart, Writers
<1>2. CASE EarlyInit
  BY <1>2 DEF EarlyInit, SalvageInv, Writers
<1>3. CASE FreshOpen
  BY <1>3 DEF FreshOpen, CanFresh, CanBoot, InIsr
<1>4. CASE SvcSnapshot \/ SvcCompare
  BY <1>4 DEF SvcSnapshot, SvcCompare, CanServe, TaskLevel, InIsr
<1>5. CASE \/ InitRuntime \/ FreshWipe \/ FreshStampMagic \/ FreshStampEpoch
           \/ \E c \in Contexts : CorruptRing(c)
           \/ Fault \/ FatalStep \/ UNCHANGED vars
  BY <1>5 DEF InitRuntime, FreshWipe, FreshStampMagic, FreshStampEpoch,
       CorruptRing, Fault, FatalClaim, FatalRefused, FatalStep, FatalFill,
       FatalPublish, vars
<1>6. CASE \E w \in Writers : Write(w)
  BY <1>6 DEF Write, EventEnter, EventStep, EventCount, EventWrite, EventHealth,
       SystemStable, FirstClaim, FirstStep, FirstFillHead, FirstFillTail,
       FirstFill, FirstPublish, FirstRequest
<1>7. CASE SvcTick \/ Persist \/ SvcFail \/ SvcKeep \/ SvcMarkFlags \/ SvcMarkFatal
  BY <1>7 DEF SvcTick, Persist, SvcPersistOk, SvcPersistFail, SvcFail, SvcKeep,
       SvcMarkFlags, SvcMarkFatal
<1>8. QED
  BY <1>1, <1>2, <1>3, <1>4, <1>5, <1>6, <1>7 DEF Next, Boot, FreshEpoch, Service

\* The sequence of a ring stays below its modulus.
LEMMA SequenceStep ==
    ASSUME TypeOK, IsrInv, [Next]_vars
    PROVE  \A c \in Contexts : seq'[c] < SeqMod
<1>1. CASE \E w \in Writers : EventWrite(w)
  <2>1. PICK w \in Writers : EventWrite(w)
    BY <1>1
  <2>2. seq[Context(w)] \in 0 .. SeqMod - 1 /\ SeqMod \in Nat \ {0}
    BY DEF TypeOK, RetainedType, IsrInv, Context, Contexts
  <2>3. (seq[Context(w)] + 1) % SeqMod \in 0 .. SeqMod - 1
    BY <2>2, NextSequence
  <2>4. QED
    BY <2>1, <2>3 DEF EventWrite, IsrInv, TypeOK, RetainedType
<1>2. CASE FreshWipe
  BY <1>2 DEF FreshWipe, ZeroRetained
<1>3. CASE seq' = seq
  BY <1>3 DEF IsrInv
<1>4. seq' = seq \/ FreshWipe \/ \E w \in Writers : EventWrite(w)
  <2>1. CASE \E w \in Writers : Write(w)
    BY <2>1 DEF Write, EventEnter, EventStep, EventCount, EventHealth,
         SystemStable, FirstClaim, FirstStep, FirstFillHead, FirstFillTail,
         FirstFill, FirstPublish, FirstRequest
  <2>2. CASE Reset \/ Boot \/ FreshEpoch
    BY <2>2 DEF Reset, Boot, EarlyInit, InitRuntime, FreshEpoch,
         FreshStampMagic, FreshStampEpoch, FreshOpen
  <2>3. CASE Service \/ UNCHANGED vars
    BY <2>3 DEF Service, SvcTick, SvcSnapshot, Persist, SvcPersistOk,
         SvcPersistFail, SvcCompare, SvcFail, SvcKeep, SvcMarkFlags,
         SvcMarkFatal, vars
  <2>4. CASE Fault \/ FatalStep \/ \E c \in Contexts : CorruptRing(c)
    BY <2>4 DEF Fault, FatalClaim, FatalRefused, FatalStep, FatalFill,
         FatalPublish, CorruptRing
  <2>5. QED
    BY <2>1, <2>2, <2>3, <2>4 DEF Next
<1>5. QED
  BY <1>1, <1>2, <1>3, <1>4

\* A writer's step moves it and no other; only its own steps, and a reset, do.
LEMMA OwnSteps ==
    ASSUME TypeOK, [Next]_vars, NEW w \in Writers
    PROVE  \/ pc'[w] = pc[w] /\ owed'[w] = owed[w]
           \/ pc'[w] = "idle" /\ boots' # boots
           \/ Write(w)
<1>1. CASE Reset
  <2>1. pc'[w] = "idle"
    BY <1>1 DEF Reset, Restart
  <2>2. boots' = boots + 1 /\ boots \in Nat
    BY <1>1 DEF Reset, Restart, TypeOK, HistoryType
  <2>3. QED
    BY <2>1, <2>2
<1>2. CASE \E v \in Writers : Write(v)
  <2>1. PICK v \in Writers : Write(v)
    BY <1>2
  <2>2. /\ \E l : pc' = [pc EXCEPT ![v] = l] \/ pc' = pc
        /\ \E o : owed' = [owed EXCEPT ![v] = o] \/ owed' = owed
    <3>1. CASE EventEnter(v)
      BY <3>1, Zenon DEF EventEnter, Goto
    <3>2. CASE EventStep(v) \/ SystemStable(v) \/ FirstClaim(v) \/ FirstStep(v)
      <4>1. owed' = owed
        BY <3>2 DEF EventStep, EventCount, EventWrite, EventHealth,
           SystemStable, FirstClaim, FirstStep, FirstFillHead, FirstFillTail,
           FirstFill, FirstPublish, FirstRequest
      <4>2. \E l : pc' = [pc EXCEPT ![v] = l] \/ pc' = pc
        BY <3>2, Zenon DEF EventStep, EventCount, EventWrite, EventHealth,
           SystemStable, FirstClaim, FirstStep, FirstFillHead, FirstFillTail,
           FirstFill, FirstPublish, FirstRequest, Goto
      <4>3. QED
        BY <4>1, <4>2, Zenon
    <3>3. QED
      BY <2>1, <3>1, <3>2 DEF Write
  <2>3. v # w => pc'[w] = pc[w] /\ owed'[w] = owed[w]
    <3>1. pc \in [Writers -> {"idle", "count", "write", "health",
                              "claimed", "half", "filled", "flagging"}]
          /\ owed \in [Writers -> BOOLEAN]
      BY DEF TypeOK, WriterType, FlagType
    <3>2. QED
      BY <2>2, <3>1, Zenon
  <2>4. QED
    BY <2>1, <2>3
<1>3. CASE UNCHANGED writerVars
  BY <1>3
<1>4. UNCHANGED writerVars \/ Reset \/ \E v \in Writers : Write(v)
  BY DEF Next, Boot, EarlyInit, InitRuntime, FreshEpoch, FreshWipe,
       FreshStampMagic, FreshStampEpoch, FreshOpen, CorruptRing, Fault,
       FatalClaim, FatalRefused, FatalStep, FatalFill, FatalPublish, Service,
       SvcTick, SvcSnapshot, Persist, SvcPersistOk, SvcPersistFail, SvcCompare,
       SvcFail, SvcKeep, SvcMarkFlags, SvcMarkFatal, vars
<1>5. QED
  BY <1>1, <1>2, <1>3, <1>4

\* Every step keeps what an ISR relies on.
LEMMA IsrStep ==
    ASSUME TypeOK, SalvageInv, IsrInv, [Next]_vars
    PROVE  IsrInv'
<1>1. ASSUME NEW w \in IsrWriters, owed'[w]
      PROVE  /\ pc'[w] = "count" => paused'
             /\ pc'[w] = "write" => capture'
  <2>1. CASE pc'[w] = "idle"
    BY <2>1
  <2>2. CASE pc'[w] = pc[w] /\ owed'[w] = owed[w] /\ UNCHANGED gate
    BY <1>1, <2>2 DEF IsrInv
  <2>3. CASE Write(w)
    <3>1. CASE EventEnter(w)
      <4>1. UNCHANGED gate /\ pc' = [pc EXCEPT ![w] = IF capture THEN "write" ELSE "count"]
        BY <3>1 DEF EventEnter, Goto
      <4>2. capture \/ paused
        <5>1. owed'[w] = (capture \/ paused)
          BY <3>1, Zenon DEF EventEnter, Writers, TypeOK, FlagType
        <5>2. QED
          BY <1>1, <5>1, Zenon
      <4>3. QED
        BY <4>1, <4>2 DEF TypeOK, WriterType, Writers
    <3>2. CASE SystemStable(w)
      BY <1>1, <3>2 DEF SystemStable, IsrInv
    <3>3. CASE EventStep(w) \/ FirstClaim(w) \/ FirstStep(w)
      <4>1. pc'[w] \notin {"count", "write"}
        BY <3>3 DEF EventStep, EventCount, EventWrite, EventHealth, FirstClaim,
             FirstStep, FirstFillHead, FirstFillTail, FirstFill, FirstPublish,
             FirstRequest, Goto, TypeOK, WriterType, Writers
      <4>2. QED
        BY <4>1
    <3>4. QED
      BY <2>3, <3>1, <3>2, <3>3 DEF Write
  <2>4. QED
    BY <2>1, <2>2, <2>3, GateFixedInIsr, OwnSteps DEF Writers
<1>2. QED
  BY <1>1, SequenceStep DEF IsrInv

\* What an ISR relies on holds in every reachable state.
THEOREM IsrInvariant == Spec => []IsrInv
<1>1. Init => IsrInv
  BY DEF Init, IsrInv, Writers
<1>2. QED
  BY <1>1, IsrStep, TypeCorrect, SalvageInvariant, PTL DEF Spec

\* An ISR's event that arrives while recording is on or paused is recorded or
\* counted by its call, whatever the service and the other writers are at: no
\* Task runs between the check outside the lock and the one inside.  (A Task's
\* event can be lost uncounted.)  It takes a sequence of two values or more.
THEOREM IsrLossAccountedHolds ==
    ASSUME SeqMod > 1 PROVE Spec => IsrLossAccounted
<1>1. ASSUME TypeOK, IsrInv, Next, NEW w \in IsrWriters PROVE Accounted(w)
  <2> DEFINE c == Context(w)
  <2> SUFFICES ASSUME pc[w] \in {"count", "write"}, pc'[w] # pc[w],
                      owed[w], boots' = boots
               PROVE  seq'[c] # seq[c] \/ lost'[c] # lost[c] \/ lost[c] = CounterMax
    BY DEF Accounted
  <2>1. /\ w \in Writers /\ c \in Contexts
        /\ lost \in [Contexts -> 0 .. CounterMax] /\ seq \in [Contexts -> Nat]
        /\ seq[c] < SeqMod
        /\ CounterMax \in Nat
    BY <1>1 DEF Writers, Context, Contexts, TypeOK, RetainedType, IsrInv
  <2> HIDE DEF c
  <2>2. Saturate(lost[c]) # lost[c] \/ lost[c] = CounterMax
    BY <2>1 DEF Saturate
  <2>3. (seq[c] + 1) % SeqMod # seq[c]
    BY <2>1, NextSequence
  <2>4. Write(w)
    BY <1>1, <2>1, OwnSteps DEF vars
  <2>5. EventCount(w) \/ EventWrite(w)
    BY <2>4 DEF Write, EventEnter, EventStep, EventHealth, SystemStable,
         FirstClaim, CanStart, FirstStep, FirstFillHead, FirstFillTail,
         FirstFill, FirstPublish, FirstRequest
  <2>6. CASE EventCount(w)
    <3>1. paused
      BY <1>1, <2>6 DEF IsrInv, EventCount
    <3>2. lost' = [lost EXCEPT ![c] = Saturate(@)]
      BY <2>6, <3>1 DEF EventCount, CountLoss, Lose, c
    <3>3. QED
      BY <2>1, <2>2, <3>2
  <2>7. CASE EventWrite(w)
    <3>1. capture
      BY <1>1, <2>7 DEF IsrInv, EventWrite
    <3>2. CASE ringOk[c]
      <4>1. seq' = [seq EXCEPT ![c] = (@ + 1) % SeqMod]
        BY <2>7, <3>1, <3>2 DEF EventWrite, StillCapturing, c
      <4>2. QED
        BY <2>1, <2>3, <4>1
    <3>3. CASE ~ringOk[c]
      <4>1. lost' = [lost EXCEPT ![c] = Saturate(@)]
        BY <2>7, <3>1, <3>3 DEF EventWrite, StillCapturing, c
      <4>2. QED
        BY <2>1, <2>2, <4>1
    <3>4. QED
      BY <3>2, <3>3
  <2>8. QED
    BY <2>5, <2>6, <2>7
<1>2. TypeOK /\ IsrInv /\ [Next]_vars => [\A w \in IsrWriters : Accounted(w)]_vars
  BY <1>1
<1>3. QED
  BY <1>2, TypeCorrect, IsrInvariant, PTL DEF Spec, IsrLossAccounted
=============================================================================
