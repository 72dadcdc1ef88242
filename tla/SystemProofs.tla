---------------------------- MODULE SystemProofs ----------------------------
(***************************************************************************)
(* Proofs about System, for every set of writers and faults, every         *)
(* capacity of the store and every bound: its steps are steps of Recorder  *)
(* or losses of power, so what Recorder's proofs show of evidence survives *)
(* them, the contract but for the evidence a loss of power takes; and      *)
(* within a boot no image is stored twice.                                 *)
(*                                                                         *)
(* The argument for the last: within a boot, what the service copies out   *)
(* of retained RAM only grows, in an order in which an image is at most    *)
(* another if it was copied no later; a request for persistence that is    *)
(* still there, or comes back, means that something grew.                  *)
(***************************************************************************)
EXTENDS EvidenceProofs, System

USE RecorderAssumption
USE DEF header, firstVars, fatalVars, rings, healthVars, gate, life, bootVars,
        writerVars, faultVars, svcLocals, retained, runtime

-----------------------------------------------------------------------------
(* The steps of the system *)

\* A step is one of Recorder's, with the store beside it, or a loss of power.
LEMMA SysSteps ==
    ASSUME [SysNext]_sysVars
    PROVE  \/ [Next]_vars
           \/ PowerLoss
BY DEF SysNext, SysReset, SysBoot, SysWrite, SysFault, SysService, Quiet, Reclaim,
       PersistStored, PersistRefused, ExportOldest, Next, Service, Persist,
       sysVars

\* A loss of power keeps the types.
LEMMA PowerType == TypeOK /\ Restart /\ ZeroRetained => TypeOK'
BY TypeRestart, TypeZero DEF TypeOK, FlagType

\* A loss of power leaves the gate, the salvage and the snapshot as a reset does,
\* with nothing to salvage.
LEMMA PowerKept ==
    ASSUME Restart, ZeroRetained
    PROVE  GateInv' /\ SalvageInv' /\ SnapshotInv'
<1>1. GateInv'
  BY DEF Restart, GateInv, CaptureGate, Persisting
<1>2. SalvageInv'
  BY DEF Restart, SalvageInv, SalvageUndisturbed
<1>3. SnapshotInv'
  BY DEF Restart, ZeroRetained, SnapshotInv, FirstSnapshotWhole, Filling
<1>4. QED
  BY <1>1, <1>2, <1>3

\* The invariants of Recorder that need no assumption.
CoreInv == TypeOK /\ GateInv /\ SalvageInv

\* They hold in every reachable state of the system.
LEMMA CoreInvariant == SysSpec => []CoreInv
<1>1. SysInit => CoreInv
  BY TypeInit, GateInit, SalvageInit DEF SysInit, CoreInv
<1>2. CoreInv /\ [SysNext]_sysVars => CoreInv'
  <2> SUFFICES ASSUME CoreInv, [SysNext]_sysVars PROVE CoreInv'
    OBVIOUS
  <2>1. CASE [Next]_vars
    <3>1. TypeOK'
      BY <2>1, TypeReset, TypeBoot, TypeFresh, TypeEvent, TypeFirst, TypeFault,
         TypeService, TypeStutter DEF CoreInv, Next, Write
    <3>2. QED
      BY <2>1, <3>1, GateStep, SalvageStep DEF CoreInv
  <2>2. CASE PowerLoss
    BY <2>2, PowerType, PowerKept DEF CoreInv, PowerLoss
  <2>3. QED
    BY <2>1, <2>2, SysSteps
<1>3. QED
  BY <1>1, <1>2, PTL DEF SysSpec

\* Recording is off exactly while a previous epoch is pending or the adapter has
\* the evidence, through resets and losses of power at any step of the service.
THEOREM SysCaptureGate == SysSpec => []CaptureGate
<1>1. CoreInv => CaptureGate
  BY DEF CoreInv, GateInv
<1>2. QED
  BY <1>1, CoreInvariant, PTL

\* With the store full for as long as it takes a user to empty it, with writers
\* losing events the while and power lost at any step: nothing disturbs a
\* previous epoch while it is salvaged.
THEOREM SysSalvageUndisturbed == SysSpec => []SalvageUndisturbed
<1>1. CoreInv => SalvageUndisturbed
  BY DEF CoreInv, SalvageInv
<1>2. QED
  BY <1>1, CoreInvariant, PTL

-----------------------------------------------------------------------------
(* The epoch 0 *)

\* The epoch is 0 only in a store that was just wiped, or never written: it holds
\* no evidence, and no program runs on it.
NumberedInv ==
    /\ epoch = 0 => first = "EMPTY" /\ fatal = "EMPTY" /\ flags = {}
    /\ epoch = 0 /\ (pending \/ boot = "run") => fresh = "stamp"
    /\ boot # "run" => \A w \in Writers : pc[w] # "flagging"

\* Outside a fresh epoch the program runs under a number.
LEMMA NumberedRun ==
    ASSUME GateInv, NumberedInv, boot = "run", ~ pending
    PROVE  epoch # 0
BY DEF GateInv, NumberedInv

\* Power-up.
LEMMA NumberedInit == Init => NumberedInv
BY DEF Init, NumberedInv

\* Resets and the boot path.
LEMMA NumberedBoot ==
    ASSUME TypeOK, GateInv, SalvageInv, NumberedInv,
           Reset \/ PowerLoss \/ Boot \/ FreshEpoch
    PROVE  NumberedInv'
<1> USE DEF NumberedInv
<1>1. CASE Reset \/ PowerLoss
  BY <1>1 DEF Reset, PowerLoss, Restart, ZeroRetained
<1>2. CASE EarlyInit
  BY <1>2 DEF EarlyInit, PreviousEvidence, FatalUnpersisted
<1>3. CASE InitRuntime
  BY <1>3 DEF InitRuntime, GateInv, SalvageInv
<1>4. CASE FreshWipe
  BY <1>4 DEF FreshWipe, ZeroRetained, CanFresh
<1>5. CASE FreshStampMagic
  BY <1>5 DEF FreshStampMagic
<1>6. CASE FreshStampEpoch
  BY <1>6 DEF FreshStampEpoch, TypeOK, RuntimeType
<1>7. CASE FreshOpen
  BY <1>7 DEF FreshOpen
<1>8. QED
  BY <1>1, <1>2, <1>3, <1>4, <1>5, <1>6, <1>7 DEF Boot, FreshEpoch

\* The program.
LEMMA NumberedProgram ==
    ASSUME ~ProbesDuringInit, TypeOK, GateInv, SalvageInv, SnapshotInv, NumberedInv,
           \/ \E w \in Writers : Write(w)
           \/ Fault \/ FatalStep \/ UNCHANGED vars
    PROVE  NumberedInv'
<1> USE DEF NumberedInv
<1>1. ASSUME NEW w \in Writers, EventEnter(w) \/ EventStep(w)
      PROVE  NumberedInv'
  <2>1. UNCHANGED <<epoch, first, fatal, flags, pending, boot, fresh>>
        /\ \E l \in {"idle", "write", "count", "health"} : Goto(w, l)
    BY <1>1 DEF EventEnter, EventStep, EventCount, EventWrite, EventHealth
  <2>2. QED
    BY <2>1 DEF Goto, TypeOK, WriterType
<1>2. ASSUME NEW w \in Writers, SystemStable(w)
      PROVE  NumberedInv'
  <2>1. boot = "run" /\ ~ pending
    BY <1>2 DEF SystemStable, CanStart, GateInv, CaptureGate
  <2>2. epoch # 0
    BY <2>1, NumberedRun
  <2>3. QED
    BY <1>2, <2>1, <2>2 DEF SystemStable
<1>3. ASSUME NEW w \in Writers, FirstClaim(w)
      PROVE  NumberedInv'
  <2>1. boot = "run" /\ ~ pending
    BY <1>3 DEF FirstClaim, CanStart, CanClaim
  <2>2. epoch # 0
    BY <2>1, NumberedRun
  <2>3. QED
    BY <1>3, <2>1, <2>2 DEF FirstClaim, Goto, TypeOK, WriterType
<1>4. ASSUME NEW w \in Writers, FirstFillHead(w) \/ FirstFillTail(w)
      PROVE  NumberedInv'
  BY <1>4 DEF FirstFillHead, FirstFillTail, FirstFill, Goto, TypeOK, WriterType
<1>5. ASSUME NEW w \in Writers, FirstPublish(w)
      PROVE  NumberedInv'
  <2>1. boot = "run" /\ first = "WRITING"
    BY <1>5 DEF FirstPublish, SnapshotInv, Filling
  <2>2. QED
    BY <1>5, <2>1 DEF FirstPublish
<1>6. ASSUME NEW w \in Writers, FirstRequest(w)
      PROVE  NumberedInv'
  <2>1. boot = "run" /\ ~ pending
    BY <1>6 DEF FirstRequest, SalvageInv
  <2>2. epoch # 0
    BY <2>1, NumberedRun
  <2>3. QED
    BY <1>6, <2>1, <2>2 DEF FirstRequest
<1>7. CASE Fault
  <2>1. ASSUME NEW f \in Faults, FatalClaim(f) PROVE NumberedInv'
    <3>1. boot = "run" /\ ~ pending
      BY <2>1 DEF FatalClaim, Faulting, CanCapture
    <3>2. epoch # 0
      BY <3>1, NumberedRun
    <3>3. QED
      BY <2>1, <3>1, <3>2 DEF FatalClaim
  <2>2. CASE FatalRefused
    BY <2>2 DEF FatalRefused
  <2>3. QED
    BY <1>7, <2>1, <2>2 DEF Fault
<1>8. CASE FatalStep
  BY <1>8 DEF FatalStep, FatalFill, FatalPublish, SnapshotInv
<1>9. CASE UNCHANGED vars
  BY <1>9 DEF vars
<1>10. QED
  BY <1>1, <1>2, <1>3, <1>4, <1>5, <1>6, <1>7, <1>8, <1>9 DEF Write, FirstStep

\* The service.
LEMMA NumberedService ==
    ASSUME TypeOK, GateInv, NumberedInv, Service
    PROVE  NumberedInv'
<1>1. boot = "run" /\ boot' = boot /\ pending' = pending /\ epoch' = epoch
      /\ UNCHANGED <<first, fatal, pc>>
  BY DEF Service, SvcTick, SvcSnapshot, Persist, SvcPersistOk, SvcPersistFail,
     SvcCompare, SvcFail, SvcKeep, SvcMarkFlags, SvcMarkFatal, CanServe, GateInv
<1>2. svc # "fresh"
  BY DEF Service, SvcTick, SvcSnapshot, Persist, SvcPersistOk, SvcPersistFail,
     SvcCompare, SvcFail, SvcKeep, SvcMarkFlags, SvcMarkFatal
<1>3. epoch # 0
  BY <1>1, <1>2 DEF GateInv, NumberedInv
<1>4. QED
  BY <1>1, <1>3 DEF NumberedInv

\* The invariants of Recorder this rests on, and the epoch's.
ProbeInv == CoreInv /\ SnapshotInv /\ NumberedInv

\* They hold in every reachable state of the system.
LEMMA ProbeInvariant == ASSUME ~ProbesDuringInit PROVE SysSpec => []ProbeInv
<1>1. SysInit => SnapshotInv /\ NumberedInv
  BY SnapshotInit, NumberedInit DEF SysInit
<1>2. CoreInv /\ SnapshotInv /\ NumberedInv /\ [SysNext]_sysVars
        => (SnapshotInv /\ NumberedInv)'
  <2> SUFFICES ASSUME CoreInv, SnapshotInv, NumberedInv, [SysNext]_sysVars
               PROVE  SnapshotInv' /\ NumberedInv'
    OBVIOUS
  <2>1. ASSUME [Next]_vars PROVE SnapshotInv'
    BY <2>1, SnapshotStep DEF CoreInv
  <2>2. ASSUME PowerLoss PROVE SnapshotInv' /\ NumberedInv'
    BY <2>2, PowerKept, NumberedBoot DEF CoreInv, PowerLoss
  <2>3. ASSUME [Next]_vars, ~ (\E c \in Contexts : CorruptRing(c))
        PROVE  NumberedInv'
    BY <2>3, NumberedBoot, NumberedProgram, NumberedService DEF CoreInv, Next
  <2>4. ASSUME NEW c \in Contexts, CorruptRing(c) PROVE NumberedInv'
    BY <2>4 DEF CorruptRing, NumberedInv
  <2>5. QED
    BY <2>1, <2>2, <2>3, <2>4, SysSteps
<1>3. QED
  BY <1>1, <1>2, CoreInvariant, PTL DEF SysSpec, ProbeInv

-----------------------------------------------------------------------------
(* Evidence across a loss of power *)

\* A loss of power leaves no evidence, no claim and nothing in the adapter's hands.
LEMMA OriginPower ==
    ASSUME OriginInv, Restart, ZeroRetained
    PROVE  OriginInv'
<1>1. /\ first' = "EMPTY" /\ fatal' = "EMPTY" /\ svc' = "idle" /\ fpc' = "idle"
      /\ archive' = archive /\ \A w \in Writers : pc'[w] = "idle"
  BY DEF Restart, ZeroRetained
<1>2. ImagesConsistent'
  BY <1>1 DEF OriginInv, ImagesConsistent
<1>3. QED
  BY <1>1, <1>2 DEF OriginInv, Filling, Capturing

\* Nothing is marked after it, and nothing is there to be marked.
LEMMA MarkPower ==
    ASSUME Restart, ZeroRetained
    PROVE  MarkInv'
BY DEF Restart, ZeroRetained, MarkInv, Recording

\* What was stored before is not of the boot that follows.
LEMMA KeptPower ==
    ASSUME TypeOK, KeptInv, Restart, ZeroRetained
    PROVE  KeptInv'
<1>1. /\ boots' = boots + 1 /\ boot' = "reset" /\ fresh' = "no"
      /\ \A c \in Contexts : ringOk'[c]
  BY DEF Restart, ZeroRetained
<1>2. Archived' = Archived
  BY DEF Restart, Archived
<1>3. \A e \in Archived' : e \in Tag /\ e.boot <= boots' /\ e.boot # boots'
  BY <1>1, <1>2 DEF KeptInv, Tag, TypeOK, HistoryType
<1>4. QED
  BY <1>1, <1>3 DEF KeptInv

\* The origin invariant holds in every reachable state of the system.
LEMMA SysOrigin == ASSUME ~ProbesDuringInit PROVE SysSpec => []OriginInv
<1>1. SysInit => OriginInv
  BY OriginInit DEF SysInit
<1>2. ProbeInv /\ OriginInv /\ [SysNext]_sysVars => OriginInv'
  BY SysSteps, OriginStep, OriginPower DEF ProbeInv, CoreInv, PowerLoss
<1>3. QED
  BY <1>1, <1>2, ProbeInvariant, PTL DEF SysSpec

\* A power loss between any two steps of a capture, or of the adapter's copy,
\* leaves no image that mixes two boots or two epochs.
THEOREM SysImagesConsistent ==
    ASSUME ~ProbesDuringInit PROVE SysSpec => []ImagesConsistent
<1>1. OriginInv => ImagesConsistent
  BY DEF OriginInv
<1>2. QED
  BY <1>1, SysOrigin, PTL

\* So does the mark invariant.
LEMMA SysMark ==
    ASSUME ~ProbesDuringInit, ~FatalReturns PROVE SysSpec => []MarkInv
<1>1. SysInit => MarkInv
  BY MarkInit DEF SysInit
<1>2. ProbeInv /\ OriginInv /\ MarkInv /\ [SysNext]_sysVars => MarkInv'
  BY SysSteps, MarkStep, MarkPower DEF ProbeInv, CoreInv, PowerLoss
<1>3. QED
  BY <1>1, <1>2, ProbeInvariant, SysOrigin, PTL DEF SysSpec

\* With a store that refuses while it is full, a mark still says that the
\* evidence is in an image.
THEOREM SysMarkedIsStored ==
    ASSUME ~ProbesDuringInit, ~FatalReturns PROVE SysSpec => []MarkedIsStored
<1>1. SnapshotInv /\ MarkInv => MarkedIsStored
  BY DEF SnapshotInv, FirstSnapshotWhole, MarkInv, MarkedIsStored,
         PreviousEvidence, FatalUnpersisted, Live, Published
<1>2. ProbeInv => SnapshotInv
  BY DEF ProbeInv
<1>3. QED
  BY <1>1, <1>2, ProbeInvariant, SysMark, PTL

\* And the invariant of the contract.
LEMMA SysKept ==
    ASSUME ~ProbesDuringInit, ~FatalReturns, ~Corruption
    PROVE  SysSpec => []KeptInv
<1>1. SysInit => KeptInv
  BY KeptInit DEF SysInit
<1>2. ProbeInv /\ OriginInv /\ MarkInv /\ MarkedIsStored /\ KeptInv
        /\ [SysNext]_sysVars => KeptInv'
  BY SysSteps, KeptStep, KeptPower DEF ProbeInv, CoreInv, PowerLoss
<1>3. QED
  BY <1>1, <1>2, ProbeInvariant, SysOrigin, SysMark, SysMarkedIsStored, PTL
     DEF SysSpec

\* Nothing but a loss of power takes published evidence before it is stored:
\* with a store that is full for as long as nobody exports from it, every other
\* step of the system publishes new evidence, stores published evidence, or
\* changes neither.
THEOREM SysContractKept ==
    ASSUME ~ProbesDuringInit, ~FatalReturns, ~Corruption
    PROVE  SysSpec => [][Contract!Next \/ PowerLoss]_<<Live, Archived>>
<1>1. ProbeInv /\ OriginInv /\ MarkInv /\ KeptInv /\ [SysNext]_sysVars
        => [Contract!Next \/ PowerLoss]_<<Live, Archived>>
  BY SysSteps, ContractStep DEF ProbeInv, CoreInv
<1>2. QED
  BY <1>1, ProbeInvariant, SysOrigin, SysMark, SysKept, PTL DEF SysSpec

-----------------------------------------------------------------------------
(* What the service copies grows *)

\* The image b was copied from retained RAM no earlier than a: in a later epoch,
\* or in the same with nothing taken back.
NoLater(a, b) ==
    \/ a.epoch < b.epoch
    \/ /\ a.epoch = b.epoch /\ a.incident <= b.incident
       /\ a.health \subseteq b.health
       /\ \A c \in Contexts : a.lost[c] <= b.lost[c]
       /\ a.first \in {NoSnap, b.first} /\ a.fatal \in {NoTag, b.fatal}
       /\ a.pub <= b.pub

\* The fields of an image, and when two images are the same.
LEMMA ImageFields ==
    ASSUME NEW a \in Image, NEW b \in Image
    PROVE  /\ a.epoch \in Nat /\ a.incident \in Nat /\ a.pub \in Nat
           /\ \A c \in Contexts : a.lost[c] \in Nat
           /\ (/\ a.epoch = b.epoch /\ a.incident = b.incident
               /\ a.health = b.health /\ \A c \in Contexts : a.lost[c] = b.lost[c]
               /\ a.first = b.first /\ a.fatal = b.fatal /\ a.pub = b.pub) => a = b
<1>1. ASSUME \A c \in Contexts : a.lost[c] = b.lost[c] PROVE a.lost = b.lost
  <2>1. a.lost \in [Contexts -> Nat] /\ b.lost \in [Contexts -> Nat]
    BY DEF Image
  <2>2. QED
    BY <1>1, <2>1
<1>2. QED
  BY <1>1 DEF Image

\* The order is reflexive.
LEMMA NoLaterSelf == ASSUME NEW a \in Image PROVE NoLater(a, a)
BY ImageFields DEF NoLater

\* It is transitive.
LEMMA NoLaterTrans ==
    ASSUME NEW a \in Image, NEW b \in Image, NEW c \in Image,
           NoLater(a, b), NoLater(b, c)
    PROVE  NoLater(a, c)
<1> USE ImageFields DEF NoLater
<1>1. CASE a.epoch < b.epoch \/ b.epoch < c.epoch
  BY <1>1
<1>2. CASE a.epoch = b.epoch /\ b.epoch = c.epoch
  BY <1>2
<1>3. QED
  BY <1>1, <1>2

\* It is antisymmetric.
LEMMA NoLaterBoth ==
    ASSUME NEW a \in Image, NEW b \in Image, NoLater(a, b), NoLater(b, a)
    PROVE  a = b
<1>1. /\ a.epoch = b.epoch /\ a.incident <= b.incident /\ b.incident <= a.incident
      /\ a.health \subseteq b.health /\ b.health \subseteq a.health
      /\ \A c \in Contexts : a.lost[c] <= b.lost[c] /\ b.lost[c] <= a.lost[c]
      /\ a.first \in {NoSnap, b.first} /\ b.first \in {NoSnap, a.first}
      /\ a.fatal \in {NoTag, b.fatal} /\ b.fatal \in {NoTag, a.fatal}
      /\ a.pub <= b.pub /\ b.pub <= a.pub
  BY ImageFields DEF NoLater
<1>2. a.incident = b.incident /\ a.pub = b.pub
      /\ \A c \in Contexts : a.lost[c] = b.lost[c]
  BY <1>1, ImageFields
<1>3. a.health = b.health
  BY <1>1
<1>4. a.first = b.first /\ a.fatal = b.fatal
  BY <1>1
<1>5. QED
  BY <1>1, <1>2, <1>3, <1>4, ImageFields

\* What has grown beyond a stays beyond a.
LEMMA Beyond ==
    ASSUME NEW a \in Image, NEW b \in Image, NEW c \in Image,
           NoLater(a, b), NoLater(b, c), a # b \/ b # c
    PROVE  NoLater(a, c) /\ a # c
<1>1. NoLater(a, c)
  BY NoLaterTrans
<1>2. ASSUME a = c PROVE FALSE
  BY <1>2, NoLaterBoth
<1>3. QED
  BY <1>1, <1>2

\* What the service would copy is an image.
LEMMA ViewType == TypeOK => View \in Image
BY DEF TypeOK, RetainedType, RuntimeType, View, Image, Snap, NoSnap, Tags

\* The fields of the view.
LEMMA ViewFields ==
    /\ View.epoch = epoch /\ View.incident = incident
    /\ View.health = health \union transient /\ View.lost = lost
    /\ View.first = IF FirstValid THEN snap ELSE NoSnap
    /\ View.fatal = IF fatal = "VALID" THEN frame ELSE NoTag
    /\ View.pub = fatalPub
BY DEF View

\* What a step must not take back.
Keeps ==
    /\ epoch' = epoch /\ incident <= incident'
    /\ health \subseteq health' /\ transient \subseteq transient'
    /\ \A c \in Contexts : lost[c] <= lost'[c]
    /\ first = "VALID" => first' = "VALID" /\ snap' = snap
    /\ fatal = "VALID" => fatal' = "VALID" /\ frame' = frame
    /\ fatalPub <= fatalPub'

\* Then the view grows.
LEMMA KeepsGrow == ASSUME Keeps PROVE NoLater(View, View')
<1>1. /\ View'.epoch = epoch' /\ View'.incident = incident'
      /\ View'.health = health' \union transient' /\ View'.lost = lost'
      /\ View'.first = IF FirstValid' THEN snap' ELSE NoSnap
      /\ View'.fatal = IF fatal' = "VALID" THEN frame' ELSE NoTag
      /\ View'.pub = fatalPub'
  BY DEF View
<1>2. View.first \in {NoSnap, View'.first}
  BY <1>1, ViewFields DEF Keeps, FirstValid
<1>3. View.fatal \in {NoTag, View'.fatal}
  BY <1>1, ViewFields DEF Keeps
<1>4. QED
  BY <1>1, <1>2, <1>3, ViewFields DEF Keeps, NoLater

\* The program and the service take nothing back.
LEMMA ProgramKeeps ==
    ASSUME TypeOK, SnapshotInv,
           \/ \E w \in Writers : Write(w)
           \/ Fault \/ FatalStep \/ Service \/ UNCHANGED vars
    PROVE  Keeps
<1>0. /\ incident \in Nat /\ fatalPub \in Nat /\ \A c \in Contexts : lost[c] \in Nat
      /\ lost \in [Contexts -> Nat] /\ CounterMax \in Nat
  BY DEF TypeOK, RetainedType
<1>1. ASSUME NEW c \in Contexts, lost' = [lost EXCEPT ![c] = Saturate(@)]
      PROVE  \A d \in Contexts : lost[d] <= lost'[d]
  BY <1>0, <1>1 DEF Saturate
<1>2. ASSUME NEW w \in Writers, EventStep(w) PROVE Keeps
  <2>1. UNCHANGED <<epoch, incident, first, snap, fatal, frame, fatalPub>>
        /\ health \subseteq health' /\ transient \subseteq transient'
        /\ \/ UNCHANGED lost
           \/ lost' = [lost EXCEPT ![Context(w)] = Saturate(@)]
    BY <1>2 DEF EventStep, EventCount, EventWrite, EventHealth, CountLoss, Lose, Omit
  <2>2. Context(w) \in Contexts
    BY DEF Context, Contexts
  <2>3. \A d \in Contexts : lost[d] <= lost'[d]
    BY <1>0, <1>1, <2>1, <2>2
  <2>4. QED
    BY <1>0, <2>1, <2>3 DEF Keeps
<1>3. ASSUME NEW w \in Writers, EventEnter(w) \/ SystemStable(w) PROVE Keeps
  BY <1>0, <1>3 DEF EventEnter, SystemStable, Keeps
<1>4. ASSUME NEW w \in Writers, FirstClaim(w) PROVE Keeps
  BY <1>0, <1>4 DEF FirstClaim, CanClaim, Keeps
<1>5. ASSUME NEW w \in Writers, FirstFillHead(w) \/ FirstFillTail(w) PROVE Keeps
  <2>1. first = "WRITING"
    BY <1>5 DEF FirstFillHead, FirstFillTail, FirstFill, SnapshotInv, Filling
  <2>2. QED
    BY <1>0, <1>5, <2>1 DEF FirstFillHead, FirstFillTail, FirstFill, Keeps
<1>6. ASSUME NEW w \in Writers, FirstPublish(w) \/ FirstRequest(w) PROVE Keeps
  BY <1>0, <1>6 DEF FirstPublish, FirstRequest, Keeps
<1>7. CASE Fault
  BY <1>0, <1>7 DEF Fault, FatalClaim, FatalRefused, CanCapture, Keeps
<1>8. CASE FatalStep
  BY <1>0, <1>8 DEF FatalStep, FatalFill, FatalPublish, NextPub, SnapshotInv, Keeps
<1>9. CASE Service
  <2>1. UNCHANGED <<epoch, incident, lost, first, snap, fatal, frame, fatalPub>>
        /\ health \subseteq health' /\ transient \subseteq transient'
    BY <1>9 DEF Service, SvcTick, SvcSnapshot, Persist, SvcPersistOk,
       SvcPersistFail, SvcCompare, SvcFail, SvcKeep, SvcMarkFlags, SvcMarkFatal
  <2>2. QED
    BY <1>0, <2>1 DEF Keeps
<1>10. CASE UNCHANGED vars
  BY <1>0, <1>10 DEF vars, Keeps
<1>11. QED
  BY <1>2, <1>3, <1>4, <1>5, <1>6, <1>7, <1>8, <1>9, <1>10 DEF Write, FirstStep

-----------------------------------------------------------------------------
(* No image is stored twice *)

\* Retained RAM no longer is what this boot stored last.
Grown == View # stored

\* Whatever asks for persistence, now or next, has something new to store: the
\* attempt that runs or just failed, the evidence that changed under the adapter,
\* a request that is there when the service is idle or outlives the marking, and
\* the critical section or fault handler that is about to make one.
Asked ==
    /\ svc \in {"persisting", "refused", "fail"} => Grown
    /\ svc = "mark" /\ ~ unchanged => Grown
    /\ svc = "idle" /\ Need => Grown
    /\ svc = "marking" /\ "PERSIST_REQUESTED" \in flags => Grown
    /\ (\E w \in Writers : pc[w] = "flagging") => Grown
    /\ fpc = "filled" => Grown

\* What NoRedundantStore needs to be inductive: retained RAM has only grown since
\* the last store, or has begun a later epoch.
StoredInv ==
    /\ stored \in Image
    /\ svc = "persisting" => source.epoch # 0 /\ NoLater(source, View)
    /\ stored # NoImage =>
         /\ boot = "run"
         /\ fresh # "no" => stored.epoch <= prevEpoch
         /\ fresh = "stamp" => epoch = 0 \/ stored.epoch < epoch
         /\ fresh # "stamp" => NoLater(stored, View) /\ Asked
         /\ svc = "persisting" => source # stored
         /\ svc = "stored" => source = stored

\* Nothing is stored before the first image.
LEMMA StoredNone == NoImage \in Image /\ NoImage.epoch = 0
BY SnapTypes DEF NoImage, ZeroSource

\* Power-up: nothing was stored, nothing is asked for.
LEMMA StoredInit == SysInit => StoredInv
BY StoredNone DEF SysInit, Init, StoredInv

\* The view before and after a step.
LEMMA ViewTypes == TypeOK /\ TypeOK' => View \in Image /\ View' \in Image
<1>1. TypeOK' => View' \in Image
  BY DEF TypeOK, RetainedType, RuntimeType, View, Image, Snap, NoSnap, Tags
<1>2. QED
  BY <1>1, ViewType

\* A step that takes nothing back leaves retained RAM beyond what was stored, if
\* it was, or takes it there if it changes the view.
LEMMA StaysGrown ==
    ASSUME TypeOK, TypeOK', stored \in Image, NoLater(stored, View),
           Keeps, stored' = stored
    PROVE  /\ NoLater(stored', View')
           /\ Grown \/ View' # View => Grown'
<1>1. View \in Image /\ View' \in Image
  BY ViewTypes
<1>2. NoLater(View, View')
  BY KeepsGrow
<1>3. NoLater(stored, View')
  BY <1>1, <1>2, NoLaterTrans
<1>4. ASSUME stored # View \/ View # View' PROVE stored # View'
  BY <1>1, <1>2, <1>4, Beyond
<1>5. QED
  BY <1>3, <1>4 DEF Grown

\* Losses of power, resets and the boot path: nothing is stored yet.
LEMMA StoredBoot ==
    ASSUME GateInv, StoredInv,
           \/ SysReset \/ PowerLoss
           \/ Boot /\ stored' = stored
    PROVE  StoredInv'
<1> USE DEF StoredInv
<1>1. CASE SysReset \/ PowerLoss
  BY <1>1, StoredNone DEF SysReset, Reset, PowerLoss, Restart
<1>2. CASE Boot /\ stored' = stored
  <2>1. boot # "run" /\ svc' = svc
    BY <1>2 DEF Boot, EarlyInit, InitRuntime
  <2>2. svc = "idle" /\ stored = NoImage
    BY <2>1 DEF GateInv
  <2>3. QED
    BY <1>2, <2>1, <2>2
<1>3. QED
  BY <1>1, <1>2

\* A fresh epoch: later than what was stored, and nobody underway.
LEMMA StoredFresh ==
    ASSUME TypeOK, CoreInv, StoredInv, FreshEpoch, stored' = stored
    PROVE  StoredInv'
<1>1. fresh # "no"
  BY DEF FreshEpoch, FreshWipe, FreshStampMagic, FreshStampEpoch, FreshOpen, CanFresh
<1>2. svc \notin {"persisting", "stored"} /\ svc' \notin {"persisting", "stored"}
  BY <1>1 DEF CoreInv, GateInv, FreshEpoch, FreshWipe, FreshStampMagic,
     FreshStampEpoch, FreshOpen
<1>3. CASE stored = NoImage
  BY <1>2, <1>3 DEF StoredInv
<1>4. CASE stored # NoImage
  <2>1. /\ boot = "run" /\ svc = "fresh" /\ pending /\ stored.epoch <= prevEpoch
        /\ stored.epoch \in Nat /\ stored \in Image
    BY <1>1, <1>4, ImageFields DEF CoreInv, GateInv, StoredInv
  <2>2. fpc # "filled" /\ \A w \in Writers : pc[w] # "flagging"
    BY <2>1 DEF CoreInv, SalvageInv
  <2>3. CASE FreshWipe
    BY <1>2, <1>4, <2>1, <2>3 DEF FreshWipe, ZeroRetained, StoredInv
  <2>4. CASE FreshStampMagic
    BY <1>2, <1>4, <2>1, <2>4 DEF FreshStampMagic, StoredInv
  <2>5. CASE FreshStampEpoch
    BY <1>2, <1>4, <2>1, <2>5 DEF FreshStampEpoch, StoredInv, TypeOK, RuntimeType
  <2>6. CASE FreshOpen
    <3>1. /\ UNCHANGED <<epoch, pc, fpc>> /\ fresh' = "no" /\ svc' = "idle"
          /\ boot' = "run" /\ stored.epoch < epoch
      BY <1>4, <2>6 DEF FreshOpen, StoredInv
    <3>2. View'.epoch = epoch
      BY <3>1 DEF View
    <3>3. NoLater(stored, View') /\ View' # stored
      BY <2>1, <3>1, <3>2 DEF NoLater
    <3>4. QED
      BY <1>2, <2>1, <2>2, <3>1, <3>3 DEF StoredInv, Asked, Grown
  <2>7. QED
    BY <2>3, <2>4, <2>5, <2>6 DEF FreshEpoch
<1>5. QED
  BY <1>3, <1>4

\* A step makes no new request.
NothingAsked ==
    /\ svc = "idle" /\ Need' => Need
    /\ "PERSIST_REQUESTED" \in flags' => "PERSIST_REQUESTED" \in flags
    /\ \A w \in Writers : pc'[w] = "flagging" => pc[w] = "flagging"
    /\ fpc' = "filled" => fpc = "filled"

\* A step that takes nothing back and leaves the service alone keeps the invariant
\* if it makes no new request, or one for something new.
LEMMA StoredSteady ==
    ASSUME TypeOK, TypeOK', StoredInv, Keeps,
           UNCHANGED <<svc, source, unchanged, stored, boot, fresh, prevEpoch>>,
           NothingAsked \/ (stored # NoImage /\ fresh # "stamp" => Grown')
    PROVE  StoredInv'
<1>1. stored \in Image /\ source \in Image
      /\ View \in Image /\ View' \in Image /\ epoch' = epoch
  BY ViewTypes DEF StoredInv, TypeOK, RuntimeType, Keeps
<1>2. svc = "persisting" => NoLater(source, View')
  BY <1>1, KeepsGrow, NoLaterTrans DEF StoredInv
<1>3. CASE stored = NoImage
  BY <1>1, <1>2, <1>3 DEF StoredInv
<1>4. CASE stored # NoImage /\ fresh = "stamp"
  BY <1>1, <1>2, <1>4 DEF StoredInv
<1>5. CASE stored # NoImage /\ fresh # "stamp"
  <2>1. NoLater(stored, View) /\ Asked
    BY <1>5 DEF StoredInv
  <2>2. NoLater(stored', View') /\ (Grown => Grown')
    BY <1>1, <2>1, StaysGrown
  <2>3. Asked'
    BY <1>5, <2>1, <2>2 DEF Asked, NothingAsked
  <2>4. QED
    BY <1>1, <1>2, <1>5, <2>2, <2>3 DEF StoredInv
<1>6. QED
  BY <1>3, <1>4, <1>5

\* The program: a request is made where something was published just before.
LEMMA StoredProgram ==
    ASSUME ProbeInv, TypeOK', StoredInv, stored' = stored,
           \/ \E w \in Writers : Write(w)
           \/ Fault \/ FatalStep \/ UNCHANGED vars
    PROVE  StoredInv'
<1>0. /\ TypeOK /\ SnapshotInv /\ Keeps
      /\ UNCHANGED <<svc, source, unchanged, boot, fresh, prevEpoch, valid, pending>>
  <2>1. TypeOK /\ SnapshotInv
    BY DEF ProbeInv, CoreInv
  <2>2. Keeps
    BY <2>1, ProgramKeeps
  <2>3. UNCHANGED <<svc, source, unchanged, boot, fresh, prevEpoch, valid, pending>>
    BY DEF Write, EventEnter, EventStep, EventCount, EventWrite, EventHealth,
       SystemStable, FirstClaim, FirstStep, FirstFillHead, FirstFillTail,
       FirstFill, FirstPublish, FirstRequest, Fault, FatalClaim, FatalRefused,
       FatalStep, FatalFill, FatalPublish, vars
  <2>4. QED
    BY <2>1, <2>2, <2>3
<1>1. ASSUME NothingAsked \/ (stored # NoImage /\ fresh # "stamp" => Grown')
      PROVE  StoredInv'
  BY <1>0, <1>1, StoredSteady
<1>2. ASSUME stored # NoImage, fresh # "stamp"
      PROVE  Asked /\ (Grown \/ View' # View => Grown')
  <2>1. stored \in Image /\ NoLater(stored, View) /\ Asked
    BY <1>2 DEF StoredInv
  <2>2. QED
    BY <1>0, <2>1, StaysGrown
<1>3. ASSUME NEW w \in Writers,
             \/ EventEnter(w) \/ EventStep(w) \/ SystemStable(w) \/ FirstClaim(w)
             \/ FirstFillHead(w) \/ FirstFillTail(w)
      PROVE  NothingAsked
  <2>1. /\ UNCHANGED <<fatal, fatalPub, fatalPers, fpc>>
        /\ flags' \in {flags, flags \union {"SYSTEM_STABLE"}}
        /\ \/ UNCHANGED pc
           \/ \E l \in {"idle", "write", "count", "health", "claimed", "half",
                        "filled"} : Goto(w, l)
    BY <1>3 DEF EventEnter, EventStep, EventCount, EventWrite, EventHealth,
       SystemStable, FirstClaim, FirstFillHead, FirstFillTail, FirstFill
  <2>2. Need' => Need
    BY <1>0, <2>1 DEF Need, FatalUnpersisted
  <2>3. QED
    BY <1>0, <2>1, <2>2 DEF NothingAsked, Goto, TypeOK, WriterType
<1>4. CASE Fault \/ UNCHANGED vars
  <2>1. NothingAsked
    BY <1>0, <1>4 DEF NothingAsked, Fault, FatalClaim, FatalRefused, AfterFatal, vars,
       Need, FatalUnpersisted
  <2>2. QED
    BY <1>1, <2>1
\* The first-abnormal snapshot appears, then asks for persistence.
<1>5. ASSUME NEW w \in Writers, FirstPublish(w) PROVE View' # View
  <2>1. first = "WRITING" /\ snap.tail \in Tag
    BY <1>0, <1>5 DEF FirstPublish, SnapshotInv, Filling
  <2>2. View.first = NoSnap /\ NoSnap.tail = NoTag
    BY <2>1 DEF View, FirstValid, NoSnap
  <2>3. View'.first = snap
    BY <1>5, <2>1, NoTagAssumption DEF FirstPublish, View, FirstValid
  <2>4. QED
    BY <2>1, <2>2, <2>3, NoTagAssumption
<1>6. ASSUME NEW w \in Writers, FirstRequest(w), Asked PROVE Grown
  BY <1>6 DEF FirstRequest, Asked
\* The fatal snapshot, by its publication number.
<1>7. ASSUME FatalFill PROVE View' # View
  <2>1. fatalPub' # fatalPub
    BY <1>0, <1>7 DEF FatalFill, NextPub, TypeOK, RetainedType
  <2>2. View.pub = fatalPub /\ View'.pub = fatalPub'
    BY DEF View
  <2>3. QED
    BY <2>1, <2>2
<1>8. ASSUME FatalPublish, Asked PROVE Grown
  BY <1>8 DEF FatalPublish, Asked
<1>9. QED
  BY <1>1, <1>2, <1>3, <1>4, <1>5, <1>6, <1>7, <1>8 DEF Write, FirstStep, FatalStep

\* The service: it copies something new, and marks as persisted what it stored.
LEMMA StoredService ==
    ASSUME ProbeInv, TypeOK', StoredInv,
           \/ PersistStored
           \/ PersistRefused
           \/ /\ stored' = stored
              /\ \/ SvcTick \/ SvcSnapshot \/ SvcCompare \/ SvcFail \/ SvcKeep
                 \/ SvcMarkFlags \/ SvcMarkFatal
    PROVE  StoredInv'
<1>0. /\ TypeOK /\ GateInv /\ NumberedInv /\ SnapshotInv /\ Service /\ Keeps
      /\ View \in Image /\ View' \in Image /\ source \in Image /\ stored \in Image
  <2>1. TypeOK /\ GateInv /\ NumberedInv /\ SnapshotInv
    BY DEF ProbeInv, CoreInv
  <2>2. Service
    BY DEF PersistStored, PersistRefused, Service, Persist
  <2>3. Keeps
    BY <2>1, <2>2, ProgramKeeps
  <2>4. QED
    BY <2>1, <2>2, <2>3, ViewTypes DEF TypeOK, RuntimeType, StoredInv
<1>1. /\ boot = "run" /\ fresh = "no" /\ epoch # 0
      /\ UNCHANGED <<boot, epoch, fatal, fatalPub, first, snap, pc, fpc, valid, pending>>
  <2>1. svc # "fresh" /\ boot = "run" /\ fpc = "idle"
        /\ UNCHANGED <<boot, epoch, fatal, fatalPub, first, snap, pc, fpc, valid, pending>>
    BY <1>0 DEF Service, SvcTick, SvcSnapshot, Persist, SvcPersistOk, SvcPersistFail,
       SvcCompare, SvcFail, SvcKeep, SvcMarkFlags, SvcMarkFatal, CanServe, TaskLevel,
       GateInv
  <2>2. QED
    BY <1>0, <2>1 DEF GateInv, NumberedInv
<1>2. ASSUME stored # NoImage
      PROVE  /\ NoLater(stored, View) /\ Asked /\ NoLater(stored, View')
             /\ (stored' = stored /\ (Grown \/ View' # View) => Grown')
  <2>1. NoLater(stored, View) /\ Asked
    BY <1>1, <1>2 DEF StoredInv
  <2>2. NoLater(stored, View')
    BY <1>0, <2>1, KeepsGrow, NoLaterTrans
  <2>3. QED
    BY <1>0, <2>1, <2>2, StaysGrown
\* With the image kept, only the service's own requests are left to look at.
<1>3. ASSUME stored' = stored, svc' \notin {"persisting", "stored"},
             fresh' # "no" => prevEpoch' = epoch /\ fresh' # "stamp",
             stored # NoImage =>
               /\ svc' \in {"refused", "fail"} => Grown
               /\ svc' = "mark" /\ ~ unchanged' => Grown
               /\ svc' = "idle" /\ Need' => Grown
               /\ svc' = "marking" /\ "PERSIST_REQUESTED" \in flags' => Grown
      PROVE  StoredInv'
  <2>1. CASE stored = NoImage
    BY <1>0, <1>3, <2>1 DEF StoredInv
  <2>2. CASE stored # NoImage
    <3>1. NoLater(stored, View') /\ (Grown => Grown') /\ Asked
      BY <1>2, <1>3, <2>2
    <3>2. Asked'
      BY <1>1, <1>3, <2>2, <3>1 DEF Asked
    <3>3. stored.epoch <= epoch
      <4>1. NoLater(stored, View) /\ View.epoch = epoch
        BY <1>2, <2>2, ViewFields
      <4>2. stored.epoch \in Nat /\ epoch \in Nat
        BY <1>0, ImageFields DEF TypeOK, RetainedType
      <4>3. QED
        BY <4>1, <4>2 DEF NoLater
    <3>4. QED
      BY <1>0, <1>1, <1>3, <2>2, <3>1, <3>2, <3>3 DEF StoredInv
  <2>3. QED
    BY <2>1, <2>2
<1>4. CASE SvcTick /\ stored' = stored
  <2>1. UNCHANGED <<svc, flags, fatalPers, fresh>> /\ svc = "idle"
    BY <1>4 DEF SvcTick
  <2>2. Need' => Need
    BY <1>1, <2>1 DEF Need, FatalUnpersisted
  <2>3. stored # NoImage /\ Need => Grown
    BY <1>2, <2>1 DEF Asked
  <2>4. QED
    BY <1>1, <1>3, <1>4, <2>1, <2>2, <2>3
<1>5. CASE SvcSnapshot /\ stored' = stored
  <2>1. /\ svc = "idle" /\ svc' = "persisting" /\ Need /\ source' = View
        /\ UNCHANGED <<fresh, prevEpoch>>
    BY <1>5 DEF SvcSnapshot
  <2>2. source'.epoch # 0 /\ NoLater(source', View')
    BY <1>0, <1>1, <2>1, ViewFields, KeepsGrow
  <2>3. CASE stored = NoImage
    BY <1>0, <1>5, <2>1, <2>2, <2>3 DEF StoredInv
  <2>4. CASE stored # NoImage
    <3>1. Grown /\ Grown' /\ NoLater(stored, View')
      BY <1>2, <1>5, <2>1, <2>4 DEF Asked
    <3>2. Asked'
      BY <2>1, <3>1 DEF Asked
    <3>3. QED
      BY <1>0, <1>1, <1>5, <2>1, <2>2, <2>4, <3>1, <3>2 DEF StoredInv, Grown
  <2>5. QED
    BY <2>3, <2>4
<1>6. CASE PersistRefused
  <2>1. svc = "persisting" /\ svc' = "refused" /\ UNCHANGED <<fresh, stored>>
    BY <1>6 DEF PersistRefused, SvcPersistFail
  <2>2. stored # NoImage => Grown
    BY <1>2, <2>1 DEF Asked
  <2>3. QED
    BY <1>1, <1>3, <2>1, <2>2
<1>7. CASE PersistStored
  <2>1. /\ svc = "persisting" /\ svc' = "stored" /\ stored' = source /\ source' = source
        /\ UNCHANGED <<fresh, prevEpoch>>
        /\ ~ (\E w \in Writers : pc[w] = "flagging") /\ fpc = "idle"
    BY <1>7 DEF PersistStored, SvcPersistOk, CanServe, TaskLevel, InCritical
  <2>2. source.epoch # 0 /\ NoLater(source, View)
    BY <2>1 DEF StoredInv
  <2>3. NoLater(source, View') /\ source # NoImage
    BY <1>0, <2>2, KeepsGrow, NoLaterTrans, StoredNone
  <2>4. Asked'
    BY <1>1, <2>1 DEF Asked
  <2>5. QED
    BY <1>0, <1>1, <2>1, <2>3, <2>4 DEF StoredInv
<1>8. CASE SvcCompare /\ stored' = stored
  <2>1. /\ svc \in {"stored", "refused"} /\ UNCHANGED fresh
        /\ svc' = IF svc = "stored" THEN "mark" ELSE "fail"
    BY <1>8 DEF SvcCompare
  <2>2. svc = "stored" /\ ~ unchanged' => View # source
    <3>1. unchanged' = (svc = "stored" /\ View = source)
      BY <1>8 DEF SvcCompare
    <3>2. QED
      BY <3>1, Zenon
  <2>3. stored # NoImage /\ svc = "stored" => source = stored
    BY DEF StoredInv
  <2>4. stored # NoImage /\ svc = "refused" => Grown
    BY <1>2 DEF Asked
  <2>5. QED
    BY <1>1, <1>3, <1>8, <2>1, <2>2, <2>3, <2>4 DEF Grown
<1>9. CASE SvcFail /\ stored' = stored
  <2>1. svc = "fail" /\ svc' = "idle" /\ UNCHANGED fresh
    BY <1>9 DEF SvcFail
  <2>2. stored # NoImage => Grown
    BY <1>2, <2>1 DEF Asked
  <2>3. QED
    BY <1>1, <1>3, <1>9, <2>1, <2>2
<1>10. CASE SvcKeep /\ stored' = stored
  <2>1. svc = "mark" /\ ~ unchanged /\ svc' = "idle" /\ UNCHANGED fresh
    BY <1>10 DEF SvcKeep
  <2>2. stored # NoImage => Grown
    BY <1>2, <2>1 DEF Asked
  <2>3. QED
    BY <1>1, <1>3, <1>10, <2>1, <2>2
<1>11. CASE SvcMarkFlags /\ stored' = stored
  <2>1. svc' = "marking" /\ "PERSIST_REQUESTED" \notin flags' /\ UNCHANGED fresh
    BY <1>11 DEF SvcMarkFlags
  <2>2. QED
    BY <1>1, <1>3, <1>11, <2>1
<1>12. CASE SvcMarkFatal /\ stored' = stored
  <2>1. /\ svc = "marking" /\ UNCHANGED flags
        /\ fatalPers' = IF fatal = "VALID" THEN fatalPub ELSE fatalPers
        /\ \/ pending /\ svc' = "fresh" /\ fresh' = "wipe" /\ prevEpoch' = epoch
           \/ ~ pending /\ svc' = "idle" /\ UNCHANGED fresh
    BY <1>12 DEF SvcMarkFatal
  <2>2. ~ pending /\ Need' => "PERSIST_REQUESTED" \in flags
    BY <1>1, <2>1 DEF Need, FatalUnpersisted
  <2>3. stored # NoImage /\ "PERSIST_REQUESTED" \in flags => Grown
    BY <1>2, <2>1 DEF Asked
  <2>4. QED
    BY <1>1, <1>3, <1>12, <2>1, <2>2, <2>3
<1>13. QED
  BY <1>4, <1>5, <1>6, <1>7, <1>8, <1>9, <1>10, <1>11, <1>12

\* Every step keeps the invariant.
LEMMA StoredStep ==
    ASSUME ~ProbesDuringInit, ProbeInv, TypeOK', StoredInv, [SysNext]_sysVars
    PROVE  StoredInv'
<1>0. TypeOK /\ GateInv /\ CoreInv
  BY DEF ProbeInv, CoreInv
<1>1. CASE SysReset \/ PowerLoss
  BY <1>0, <1>1, StoredBoot
<1>2. CASE SysBoot
  BY <1>0, <1>2, StoredBoot, StoredFresh DEF SysBoot, Quiet
<1>3. CASE SysFault \/ \E w \in Writers : SysWrite(w)
  BY <1>3, StoredProgram DEF SysFault, SysWrite, Quiet
<1>4. CASE SysService /\ ~ Reclaim
  BY <1>4, StoredService DEF SysService, Quiet
<1>5. CASE Reclaim \/ ExportOldest \/ UNCHANGED sysVars
  <2>1. UNCHANGED vars /\ stored' = stored
    BY <1>5 DEF Reclaim, ExportOldest, sysVars
  <2>2. QED
    BY <2>1, StoredProgram
<1>6. QED
  BY <1>1, <1>2, <1>3, <1>4, <1>5 DEF SysNext

\* Within a boot the service never commits the same image twice in a row, however
\* persistence requests, failed and refused attempts, losses counted during the
\* pause and new evidence interleave, with a store of any capacity: a retry or a
\* kept request has something new to store, so one incident cannot fill the store
\* with copies.
THEOREM NoRedundantStoreHolds ==
    ASSUME ~ProbesDuringInit
    PROVE  SysSpec => NoRedundantStore
<1>1. SysInit => StoredInv
  BY StoredInit
<1>2. ProbeInv /\ TypeOK' /\ StoredInv /\ [SysNext]_sysVars => StoredInv'
  BY StoredStep
<1>3. ProbeInv /\ StoredInv /\ [SysNext]_sysVars
        => [PersistStored => source # stored]_sysVars
  <2> SUFFICES ASSUME StoredInv, PersistStored PROVE source # stored
    OBVIOUS
  <2>1. svc = "persisting"
    BY DEF PersistStored, SvcPersistOk
  <2>2. QED
    BY <2>1, StoredNone DEF StoredInv
<1>4. ProbeInv => TypeOK
  BY DEF ProbeInv, CoreInv
<1>5. QED
  BY <1>1, <1>2, <1>3, <1>4, ProbeInvariant, PTL DEF SysSpec, NoRedundantStore
=============================================================================
