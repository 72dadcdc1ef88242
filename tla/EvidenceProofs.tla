--------------------------- MODULE EvidenceProofs ---------------------------
(***************************************************************************)
(* Proofs about the protected evidence of Recorder, each from an inductive *)
(* invariant of its own:                                                   *)
(*   SnapshotInv  the first-abnormal snapshot is one writer's and whole,   *)
(*                and published evidence is latched;                       *)
(*   OriginInv    an image holds evidence of one boot and one epoch;       *)
(*   MarkInv      evidence marked as persisted is in an image;             *)
(*   KeptInv      the recorder implements EvidenceContract.                *)
(* All need the assumption that no probe runs inside IR_Init, before the   *)
(* fresh epoch is complete; the last two a fault handler that does not     *)
(* return, and the last rings that no stray write touches.                 *)
(***************************************************************************)
EXTENDS RecorderProofs

USE RecorderAssumption
USE DEF header, firstVars, fatalVars, rings, healthVars, gate, life, bootVars,
        writerVars, faultVars, svcLocals, retained, runtime

\* w has claimed the snapshot and not yet published it.
Filling(w) == pc[w] \in {"claimed", "half", "filled"}

\* What FirstSnapshotWhole and EvidenceLatched need to be inductive: a claim
\* has one owner, its evidence bears the epoch of the header, and nobody owns a
\* claim while the retained store is cleared.
SnapshotInv ==
    /\ FirstSnapshotWhole
    /\ \A w \in Writers : Filling(w) =>
         /\ boot = "run" /\ ~pending /\ first = "WRITING"
         /\ tag[w] \in Tag /\ tag[w].epoch = epoch
         /\ pc[w] \in {"half", "filled"} => snap.head = tag[w]
         /\ pc[w] = "filled" => snap.tail = tag[w]
    /\ \A v, w \in Writers : Filling(v) /\ Filling(w) => v = w
    /\ fpc \in {"claimed", "filled"} => fatal = "WRITING"
    /\ fresh = "stamp" => first = "EMPTY" /\ fatal = "EMPTY"

\* Power-up: no snapshot, no claim.
LEMMA SnapshotInit == Init => SnapshotInv
BY DEF Init, SnapshotInv, FirstSnapshotWhole, Filling

\* Resets and the boot path: a reset ends every claim, a wipe meets none.
LEMMA SnapshotBoot ==
    ASSUME TypeOK, GateInv, SnapshotInv,
           Reset \/ Boot \/ FreshEpoch
    PROVE  SnapshotInv'
<1> USE DEF SnapshotInv, FirstSnapshotWhole, Filling
<1>1. CASE Reset
  BY <1>1 DEF Reset, Restart
<1>2. CASE Boot
  BY <1>2 DEF Boot, EarlyInit, InitRuntime
<1>3. CASE FreshEpoch
  <2>1. fpc = "idle" /\ fresh # "no"
    BY <1>3 DEF FreshEpoch, FreshWipe, FreshStampMagic, FreshStampEpoch,
                FreshOpen, CanFresh, CanBoot
  <2>2. boot # "run" \/ pending
    BY <2>1 DEF GateInv
  <2>3. ASSUME NEW w \in Writers PROVE ~Filling(w)
    <3>1. Filling(w) => boot = "run" /\ ~pending
      OBVIOUS
    <3>2. QED
      BY <2>2, <3>1
  <2>4. CASE FreshWipe
    BY <2>1, <2>3, <2>4 DEF FreshWipe, ZeroRetained
  <2>5. CASE FreshStampMagic
    BY <2>1, <2>3, <2>5 DEF FreshStampMagic
  <2>6. CASE FreshStampEpoch
    BY <2>1, <2>3, <2>6 DEF FreshStampEpoch
  <2>7. CASE FreshOpen
    BY <2>1, <2>3, <2>7 DEF FreshOpen
  <2>8. QED
    BY <1>3, <2>4, <2>5, <2>6, <2>7 DEF FreshEpoch
<1>4. QED
  BY <1>1, <1>2, <1>3

\* Steps that leave the snapshot, the claims and the boot path alone.
LEMMA SnapshotOthers ==
    ASSUME SnapshotInv,
           UNCHANGED <<first, snap, fatal, epoch, boot, pending, pc, tag, fpc>>,
           fresh' = fresh \/ fresh' = "wipe"
    PROVE  SnapshotInv'
BY DEF SnapshotInv, FirstSnapshotWhole, Filling

\* Event calls move a writer that fills nothing.
LEMMA SnapshotEvent ==
    ASSUME TypeOK, SnapshotInv, NEW w \in Writers,
           EventEnter(w) \/ EventStep(w) \/ SystemStable(w)
    PROVE  SnapshotInv'
<1>1. CASE SystemStable(w)
  BY <1>1, SnapshotOthers DEF SystemStable
<1>2. CASE EventEnter(w) \/ EventStep(w)
  <2>1. /\ \E l \in {"idle", "count", "write", "health"} :
             pc' = [pc EXCEPT ![w] = l]
        /\ UNCHANGED <<first, snap, fatal, epoch, boot, pending, tag, fpc, fresh>>
    BY <1>2 DEF EventEnter, EventStep, EventCount, EventWrite, EventHealth, Goto
  <2>2. \A v \in Writers : Filling(v)' => Filling(v) /\ pc'[v] = pc[v]
    BY <2>1 DEF Filling, TypeOK, WriterType
  <2>3. QED
    BY <2>1, <2>2 DEF SnapshotInv, FirstSnapshotWhole, Filling
<1>3. QED
  BY <1>1, <1>2

\* IR_InternalFirstAbnormal: the claim finds no owner, and only the owner
\* fills and publishes.
LEMMA SnapshotFirst ==
    ASSUME ~ProbesDuringInit, TypeOK, GateInv, SnapshotInv, NEW w \in Writers,
           FirstClaim(w) \/ FirstStep(w)
    PROVE  SnapshotInv'
<1> USE DEF SnapshotInv, FirstSnapshotWhole, Filling, TypeOK, WriterType
<1>1. CASE FirstClaim(w)
  <2>1. /\ boot = "run" /\ ~pending /\ first = "EMPTY" /\ first' = "WRITING"
        /\ tag' = [tag EXCEPT ![w] = [boot |-> boots, epoch |-> epoch, by |-> w]]
        /\ pc' = [pc EXCEPT ![w] = "claimed"]
        /\ UNCHANGED <<boot, pending, epoch, snap, fatal, fpc, fresh>>
    BY <1>1 DEF FirstClaim, CanStart, CanClaim, Goto
  <2>2. fresh = "no"
    BY <2>1 DEF GateInv, RuntimeType
  <2>3. [boot |-> boots, epoch |-> epoch, by |-> w] \in Tag
    BY DEF Tag, HistoryType, RetainedType
  <2>4. \A v \in Writers : ~Filling(v)
    BY <2>1
  <2>5. \A v \in Writers : Filling(v)' => v = w
    BY <2>1, <2>4
  <2>6. QED
    BY <2>1, <2>2, <2>3, <2>5
<1>2. CASE FirstFillHead(w)
  <2>1. /\ pc[w] = "claimed" /\ pc' = [pc EXCEPT ![w] = "half"]
        /\ snap' = [snap EXCEPT !.head = tag[w]]
        /\ UNCHANGED <<boot, pending, epoch, first, fatal, fpc, fresh, tag>>
    BY <1>2 DEF FirstFillHead, FirstFill, Goto
  <2>2. \A v \in Writers : Filling(v)' => v = w
    BY <2>1
  <2>3. snap'.head = tag[w]
    BY <2>1 DEF RetainedType, Snap
  <2>4. QED
    BY <2>1, <2>2, <2>3
<1>3. CASE FirstFillTail(w)
  <2>1. /\ pc[w] = "half" /\ pc' = [pc EXCEPT ![w] = "filled"]
        /\ snap' = [snap EXCEPT !.tail = tag[w]]
        /\ UNCHANGED <<boot, pending, epoch, first, fatal, fpc, fresh, tag>>
    BY <1>3 DEF FirstFillTail, FirstFill, Goto
  <2>2. \A v \in Writers : Filling(v)' => v = w
    BY <2>1
  <2>3. snap'.tail = tag[w] /\ snap'.head = snap.head
    BY <2>1 DEF RetainedType, Snap
  <2>4. QED
    BY <2>1, <2>2, <2>3
<1>4. CASE FirstPublish(w)
  <2>1. /\ pc[w] = "filled" /\ pc' = [pc EXCEPT ![w] = "flagging"]
        /\ first' = "VALID"
        /\ UNCHANGED <<boot, pending, epoch, snap, fatal, fpc, fresh, tag>>
    BY <1>4 DEF FirstPublish, Goto
  <2>2. \A v \in Writers : ~Filling(v)'
    BY <2>1
  <2>3. fresh = "no"
    BY <2>1 DEF GateInv, RuntimeType
  <2>4. QED
    BY <2>1, <2>2, <2>3
<1>5. CASE FirstRequest(w)
  <2>1. /\ pc[w] = "flagging" /\ pc' = [pc EXCEPT ![w] = "idle"]
        /\ tag' = [tag EXCEPT ![w] = NoTag]
        /\ UNCHANGED <<boot, pending, epoch, first, snap, fatal, fpc, fresh>>
    BY <1>5 DEF FirstRequest, Goto
  <2>2. \A v \in Writers : Filling(v)' => Filling(v) /\ pc'[v] = pc[v] /\ v # w
    BY <2>1
  <2>3. QED
    BY <2>1, <2>2
<1>6. QED
  BY <1>1, <1>2, <1>3, <1>4, <1>5 DEF FirstStep

\* IR_FatalCapture claims a frame only in a running epoch.
LEMMA SnapshotFault ==
    ASSUME ~ProbesDuringInit, TypeOK, GateInv, SnapshotInv, Fault \/ FatalStep
    PROVE  SnapshotInv'
<1> USE DEF SnapshotInv, FirstSnapshotWhole, Filling
<1>1. CASE \E f \in Faults : FatalClaim(f)
  <2>1. boot = "run" /\ ~pending
    BY <1>1 DEF FatalClaim, Faulting, CanCapture
  <2>2. fresh = "no"
    BY <2>1 DEF GateInv, TypeOK, RuntimeType
  <2>3. QED
    BY <1>1, <2>2 DEF FatalClaim
<1>2. CASE FatalRefused
  BY <1>2 DEF FatalRefused, AfterFatal
<1>3. CASE FatalFill
  BY <1>3 DEF FatalFill
<1>4. CASE FatalPublish
  BY <1>4 DEF FatalPublish, AfterFatal
<1>5. QED
  BY <1>1, <1>2, <1>3, <1>4 DEF Fault, FatalStep

\* Every step keeps the snapshot invariant.
LEMMA SnapshotStep ==
    ASSUME ~ProbesDuringInit, TypeOK, GateInv, SnapshotInv, [Next]_vars
    PROVE  SnapshotInv'
<1>1. CASE Reset \/ Boot \/ FreshEpoch
  BY <1>1, SnapshotBoot
<1>2. CASE \E w \in Writers : Write(w)
  BY <1>2, SnapshotEvent, SnapshotFirst DEF Write
<1>3. CASE Fault \/ FatalStep
  BY <1>3, SnapshotFault
<1>4. CASE \/ \E c \in Contexts : CorruptRing(c)
           \/ Service \/ UNCHANGED vars
  <2>1. UNCHANGED <<first, snap, fatal, epoch, boot, pending, pc, tag, fpc>>
    BY <1>4 DEF CorruptRing, Service, SvcTick, SvcSnapshot, Persist,
         SvcPersistOk, SvcPersistFail, SvcCompare, SvcFail, SvcKeep,
         SvcMarkFlags, SvcMarkFatal, vars
  <2>2. fresh' = fresh \/ fresh' = "wipe"
    BY <1>4 DEF CorruptRing, Service, SvcTick, SvcSnapshot, Persist,
         SvcPersistOk, SvcPersistFail, SvcCompare, SvcFail, SvcKeep,
         SvcMarkFlags, SvcMarkFatal, vars
  <2>3. QED
    BY <2>1, <2>2, SnapshotOthers
<1>5. QED
  BY <1>1, <1>2, <1>3, <1>4 DEF Next

\* The snapshot invariant holds in every reachable state.
THEOREM SnapshotInvariant ==
    ASSUME ~ProbesDuringInit PROVE Spec => []SnapshotInv
<1>1. TypeOK /\ GateInv /\ SnapshotInv /\ [Next]_vars => SnapshotInv'
  BY SnapshotStep
<1>2. QED
  BY <1>1, SnapshotInit, TypeCorrect, GateInvariant, PTL DEF Spec

\* However many Tasks and ISRs report at once and wherever resets fall, a
\* first-abnormal snapshot marked VALID is one writer's, whole, and of the
\* epoch of its header (first_abnormal_state as sole publication marker).
THEOREM FirstSnapshotWholeHolds ==
    ASSUME ~ProbesDuringInit PROVE Spec => []FirstSnapshotWhole
<1>1. SnapshotInv => FirstSnapshotWhole
  BY DEF SnapshotInv
<1>2. QED
  BY <1>1, SnapshotInvariant, PTL

\* A published snapshot or fault frame changes in no step that leaves the
\* header valid: later claims, faults, resets and the service leave it alone.
THEOREM EvidenceLatchedHolds ==
    ASSUME ~ProbesDuringInit PROVE Spec => EvidenceLatched
<1> DEFINE Latched ==
      hdrOk' => /\ first = "VALID" => first' = "VALID" /\ snap' = snap
                /\ fatal = "VALID" => fatal' = "VALID" /\ frame' = frame
<1>1. TypeOK /\ GateInv /\ SnapshotInv /\ [Next]_vars => [Latched]_vars
  <2> SUFFICES ASSUME TypeOK, GateInv, SnapshotInv, Next PROVE Latched
    BY DEF vars
  <2>1. CASE Reset
    BY <2>1 DEF Reset
  <2>2. CASE Boot
    BY <2>2 DEF Boot, EarlyInit, InitRuntime
  <2>3. CASE FreshEpoch
    BY <2>3 DEF FreshEpoch, FreshWipe, ZeroRetained, FreshStampMagic,
                FreshStampEpoch, FreshOpen, SnapshotInv
  <2>4. CASE \E w \in Writers : Write(w)
    <3>1. PICK w \in Writers : Write(w)
      BY <2>4
    <3>2. UNCHANGED <<fatal, frame>>
      BY <3>1 DEF Write, EventEnter, EventStep, EventCount, EventWrite,
           EventHealth, SystemStable, FirstClaim, FirstStep, FirstFillHead,
           FirstFillTail, FirstFill, FirstPublish, FirstRequest
    <3>3. first = "VALID" => UNCHANGED <<first, snap>>
      BY <3>1 DEF Write, EventEnter, EventStep, EventCount, EventWrite,
           EventHealth, SystemStable, FirstClaim, CanClaim, FirstStep,
           FirstFillHead, FirstFillTail, FirstFill, FirstPublish, FirstRequest,
           SnapshotInv, Filling
    <3>4. QED
      BY <3>2, <3>3
  <2>5. CASE Fault \/ FatalStep
    BY <2>5 DEF Fault, FatalClaim, CanCapture, FatalRefused, FatalStep,
                FatalFill, FatalPublish, SnapshotInv
  <2>6. CASE Service \/ \E c \in Contexts : CorruptRing(c)
    BY <2>6 DEF Service, SvcTick, SvcSnapshot, Persist, SvcPersistOk,
         SvcPersistFail, SvcCompare, SvcFail, SvcKeep, SvcMarkFlags,
         SvcMarkFatal, CorruptRing
  <2>7. QED
    BY <2>1, <2>2, <2>3, <2>4, <2>5, <2>6 DEF Next
<1>2. Spec => [][Latched]_vars
  BY <1>1, TypeCorrect, GateInvariant, SnapshotInvariant, PTL DEF Spec
<1>3. QED
  BY <1>2 DEF EvidenceLatched
-----------------------------------------------------------------------------
(* Where evidence comes from *)

\* Evidence may be claimed: the boot has ended and left no previous epoch.
Recording == boot = "run" /\ ~pending
Capturing == fpc \in {"claimed", "filled"}

\* Evidence under the header is of this boot while recording, of an earlier one
\* until the fresh epoch begins.
OfBoot(e) == IF Recording THEN e.boot = boots ELSE e.boot < boots

\* What ImagesConsistent needs to be inductive: what is published was claimed in
\* one boot, under the header's epoch, and what the adapter was given is what is
\* published, for as long as the adapter works.
OriginInv ==
    /\ first = "VALID" => snap.head.by \in Writers /\ OfBoot(snap.head)
    /\ fatal = "VALID" => /\ frame \in Tag /\ frame.by \in Faults
                          /\ frame.epoch = epoch /\ OfBoot(frame)
    /\ first = "VALID" /\ fatal = "VALID" => snap.head.boot = frame.boot
    /\ \A w \in Writers : Filling(w) => tag[w].boot = boots /\ tag[w].by = w
    /\ Capturing => /\ Recording
                    /\ fault \in Tag /\ fault.by \in Faults
                    /\ fault.epoch = epoch /\ fault.boot = boots
    /\ fpc = "filled" => frame = fault
    /\ svc = "persisting" =>
         /\ source.epoch = epoch
         /\ source.first # NoSnap => first = "VALID" /\ source.first = snap
         /\ source.fatal # NoTag => fatal = "VALID" /\ source.fatal = frame
    /\ ImagesConsistent

\* Power-up: no evidence anywhere.
LEMMA OriginInit == Init => OriginInv
BY DEF Init, OriginInv, Filling, Capturing, ImagesConsistent

\* Resets and the boot path: evidence of this boot becomes evidence of an
\* earlier one, and a fresh epoch begins with none.
LEMMA OriginBoot ==
    ASSUME TypeOK, GateInv, SalvageInv, SnapshotInv, OriginInv,
           Reset \/ Boot \/ FreshEpoch
    PROVE  OriginInv'
<1>1. ImagesConsistent'
  BY DEF Reset, Restart, Boot, EarlyInit, InitRuntime, FreshEpoch, FreshWipe,
         FreshStampMagic, FreshStampEpoch, FreshOpen, OriginInv, ImagesConsistent
<1>2. boots \in Nat
  BY DEF TypeOK, HistoryType
<1>3. first = "VALID" => snap.head \in Tag
  BY DEF SnapshotInv, FirstSnapshotWhole
<1>4. CASE Reset
  <2>1. /\ UNCHANGED <<first, snap, fatal, frame, epoch>>
        /\ boots' = boots + 1 /\ boot' = "reset" /\ svc' = "idle" /\ fpc' = "idle"
        /\ \A w \in Writers : pc'[w] = "idle"
    BY <1>4 DEF Reset, Restart
  <2>2. ~Capturing' /\ \A w \in Writers : ~Filling(w)'
    BY <2>1 DEF Capturing, Filling
  <2>3. /\ first = "VALID" => OfBoot(snap.head)'
        /\ fatal = "VALID" => OfBoot(frame)'
    <3>1. ~Recording'
      BY <2>1 DEF Recording
    <3>2. first = "VALID" => OfBoot(snap.head) /\ snap'.head = snap.head
      BY <2>1 DEF OriginInv
    <3>3. fatal = "VALID" => OfBoot(frame) /\ frame \in Tag /\ frame' = frame
      BY <2>1 DEF OriginInv
    <3>4. QED
      BY <1>2, <1>3, <2>1, <3>1, <3>2, <3>3 DEF OfBoot, Recording, Tag
  <2>4. QED
    BY <1>1, <2>1, <2>2, <2>3 DEF OriginInv
<1>5. CASE Boot
  <2>1. /\ UNCHANGED <<first, snap, fatal, frame, epoch, boots, fpc, svc, pc>>
        /\ boot \in {"reset", "early"}
        /\ ~Recording /\ ~Recording'
    BY <1>5 DEF Boot, EarlyInit, InitRuntime, Recording
  <2>2. \A e : OfBoot(e) => OfBoot(e)'
    BY <2>1 DEF OfBoot, Recording
  <2>3. /\ ~Capturing' /\ svc' = "idle" /\ fpc' = "idle"
        /\ \A w \in Writers : ~Filling(w)'
    BY <2>1 DEF Capturing, Filling, SalvageInv, GateInv
  <2>4. QED
    BY <1>1, <2>1, <2>2, <2>3 DEF OriginInv, OfBoot, Recording
<1>6. CASE FreshEpoch
  <2>1. fpc = "idle" /\ fresh # "no" /\ UNCHANGED <<pc, fpc, boots>>
    BY <1>6 DEF FreshEpoch, FreshWipe, FreshStampMagic, FreshStampEpoch,
                FreshOpen, CanFresh, CanBoot
  <2>2. ~Recording
    BY <2>1 DEF GateInv, Recording
  <2>3. \A w \in Writers : ~Filling(w)'
    BY <2>1, <2>2 DEF SnapshotInv, Filling, Recording
  <2>4. first' = "EMPTY" /\ fatal' = "EMPTY" /\ svc' # "persisting"
    BY <1>6, <2>1 DEF FreshEpoch, FreshWipe, ZeroRetained, FreshStampMagic,
         FreshStampEpoch, FreshOpen, SnapshotInv, GateInv
  <2>5. QED
    BY <1>1, <2>1, <2>3, <2>4 DEF OriginInv, Capturing
<1>7. QED
  BY <1>4, <1>5, <1>6

\* Steps that leave the evidence, its claims and the service's copy alone.
LEMMA OriginOthers ==
    ASSUME OriginInv,
           UNCHANGED <<first, snap, fatal, frame, epoch, boot, boots, pending,
                       tag, fpc, fault, archive>>,
           \A w \in Writers : Filling(w)' => Filling(w),
           svc' = "persisting" => svc = "persisting" /\ source' = source
    PROVE  OriginInv'
BY DEF OriginInv, OfBoot, Recording, Capturing, ImagesConsistent

\* IR_InternalFirstAbnormal: the claim takes this boot and the header's epoch,
\* and what is published is what was claimed.
LEMMA OriginFirst ==
    ASSUME ~ProbesDuringInit, TypeOK, GateInv, SnapshotInv, OriginInv,
           NEW w \in Writers, FirstClaim(w) \/ FirstStep(w)
    PROVE  OriginInv'
<1> USE DEF TypeOK, WriterType
<1>1. /\ UNCHANGED <<fatal, frame, epoch, boot, boots, pending, fpc, fault, svc,
                     source, archive>>
  BY DEF FirstClaim, FirstStep, FirstFillHead, FirstFillTail, FirstFill,
         FirstPublish, FirstRequest
<1>2. CASE FirstClaim(w)
  <2>1. /\ first = "EMPTY" /\ first' = "WRITING"
        /\ tag' = [tag EXCEPT ![w] = [boot |-> boots, epoch |-> epoch, by |-> w]]
        /\ pc' = [pc EXCEPT ![w] = "claimed"]
    BY <1>2 DEF FirstClaim, CanClaim, Goto
  <2>2. \A v \in Writers : Filling(v)' => tag'[v].boot = boots /\ tag'[v].by = v
    BY <2>1 DEF Filling, OriginInv
  <2>3. QED
    BY <1>1, <2>1, <2>2 DEF OriginInv, Capturing, ImagesConsistent, OfBoot, Recording
<1>3. CASE FirstFillHead(w) \/ FirstFillTail(w)
  <2>1. first = "WRITING" /\ UNCHANGED <<first, tag>>
    BY <1>3 DEF FirstFillHead, FirstFillTail, FirstFill, SnapshotInv, Filling
  <2>2. \A v \in Writers : Filling(v)' => Filling(v)
    BY <1>3 DEF FirstFillHead, FirstFillTail, FirstFill, Goto, Filling
  <2>3. QED
    BY <1>1, <2>1, <2>2 DEF OriginInv, Capturing, ImagesConsistent, OfBoot, Recording
<1>4. CASE FirstPublish(w)
  <2>1. /\ pc[w] = "filled" /\ first = "WRITING" /\ UNCHANGED <<snap, tag>>
        /\ snap.head = tag[w] /\ boot = "run" /\ ~pending
    BY <1>4 DEF FirstPublish, SnapshotInv, Filling
  <2>2. \A v \in Writers : Filling(v)' => Filling(v)
    BY <1>4 DEF FirstPublish, Goto, Filling
  <2>3. snap.head.boot = boots /\ snap.head.by \in Writers
    BY <2>1 DEF OriginInv, Filling
  <2>4. OfBoot(snap.head) /\ (fatal = "VALID" => frame.boot = boots)
    BY <2>1, <2>3 DEF OfBoot, Recording, OriginInv
  <2>5. svc # "persisting" \/ source.first = NoSnap
    BY <2>1 DEF OriginInv
  <2>6. QED
    BY <1>1, <2>1, <2>2, <2>3, <2>4, <2>5
       DEF OriginInv, Capturing, ImagesConsistent, OfBoot, Recording
<1>5. CASE FirstRequest(w)
  <2>1. UNCHANGED <<first, snap>> /\ tag' = [tag EXCEPT ![w] = NoTag]
    BY <1>5 DEF FirstRequest
  <2>2. \A v \in Writers : Filling(v)' => Filling(v) /\ tag'[v] = tag[v]
    BY <1>5, <2>1 DEF FirstRequest, Goto, Filling
  <2>3. QED
    BY <1>1, <2>1, <2>2 DEF OriginInv, Capturing, ImagesConsistent, OfBoot, Recording
<1>6. QED
  BY <1>2, <1>3, <1>4, <1>5 DEF FirstStep

\* IR_FatalCapture: the frame that is published is the one that was claimed.
LEMMA OriginFault ==
    ASSUME ~ProbesDuringInit, TypeOK, SnapshotInv, OriginInv, Fault \/ FatalStep
    PROVE  OriginInv'
<1>1. UNCHANGED <<first, snap, epoch, boot, boots, pending, pc, tag, svc, source,
                  archive>>
  BY DEF Fault, FatalClaim, FatalRefused, FatalStep, FatalFill, FatalPublish
<1>2. \A e : OfBoot(e)' <=> OfBoot(e)
  BY <1>1 DEF OfBoot, Recording
<1>3. CASE \E f \in Faults : FatalClaim(f)
  <2>1. PICK f \in Faults : FatalClaim(f)
    BY <1>3
  <2>2. /\ fatal = "EMPTY" /\ fatal' = "WRITING" /\ fpc' = "claimed" /\ Recording
        /\ fault' = [boot |-> boots, epoch |-> epoch, by |-> f]
    BY <2>1 DEF FatalClaim, Faulting, CanCapture, Recording
  <2>3. fault' \in Tag
    BY <2>2 DEF Tag, TypeOK, HistoryType, RetainedType
  <2>4. QED
    BY <1>1, <1>2, <2>2, <2>3
       DEF OriginInv, Capturing, Recording, Filling, ImagesConsistent
<1>4. CASE FatalRefused
  BY <1>1, <1>2, <1>4 DEF FatalRefused, AfterFatal, OriginInv, Capturing,
                          Filling, ImagesConsistent
<1>5. CASE FatalFill
  <2>1. Capturing /\ fatal = "WRITING" /\ fatal' = "WRITING"
        /\ frame' = fault /\ fault' = fault /\ Recording'
    BY <1>1, <1>5 DEF FatalFill, SnapshotInv, Capturing, OriginInv, Recording
  <2>2. QED
    BY <1>1, <1>2, <2>1 DEF OriginInv, Capturing, Recording, Filling, ImagesConsistent
<1>6. CASE FatalPublish
  <2>1. /\ Capturing /\ fatal = "WRITING" /\ frame' = frame /\ frame = fault
        /\ fpc' \in {"idle", "dead"} /\ Recording
    BY <1>6 DEF FatalPublish, AfterFatal, SnapshotInv, Capturing, OriginInv
  <2>2. /\ frame \in Tag /\ frame.by \in Faults /\ frame.epoch = epoch
        /\ frame.boot = boots
    BY <2>1 DEF OriginInv
  <2>3. first = "VALID" => snap.head.boot = boots
    BY <2>1 DEF OriginInv, OfBoot
  <2>4. OfBoot(frame) /\ ~Capturing' /\ fpc' # "filled"
    BY <2>1, <2>2 DEF OfBoot, Capturing
  <2>5. svc # "persisting" \/ source.fatal = NoTag
    BY <2>1 DEF OriginInv
  <2>6. QED
    BY <1>1, <1>2, <2>1, <2>2, <2>3, <2>4, <2>5
       DEF OriginInv, Filling, ImagesConsistent
<1>7. QED
  BY <1>3, <1>4, <1>5, <1>6 DEF Fault, FatalStep

\* The image the adapter is given is whole and of one boot.
LEMMA SourceConsistent ==
    ASSUME SnapshotInv, OriginInv, svc = "persisting"
    PROVE  LET i == Keep(source) IN
           /\ i.first.head = i.first.tail
           /\ \A e \in {i.first.head, i.fatal} \ {NoTag} : e.epoch = i.epoch
           /\ NoTag \notin {i.first.head, i.fatal} => i.first.head.boot = i.fatal.boot
<1>1. Keep(source).first = source.first /\ Keep(source).fatal = source.fatal
      /\ Keep(source).epoch = epoch
  BY DEF Keep, OriginInv
<1>2. /\ source.first # NoSnap => first = "VALID" /\ source.first = snap
      /\ source.fatal # NoTag => fatal = "VALID" /\ source.fatal = frame
  BY DEF OriginInv
<1>3. first = "VALID" => snap.head = snap.tail /\ snap.head.epoch = epoch
  BY DEF SnapshotInv, FirstSnapshotWhole
<1>4. NoSnap.head = NoTag /\ NoSnap.tail = NoTag
  BY DEF NoSnap
<1>5. fatal = "VALID" => frame.epoch = epoch
  BY DEF OriginInv
<1>6. first = "VALID" /\ fatal = "VALID" => snap.head.boot = frame.boot
  BY DEF OriginInv
<1>7. QED
  BY <1>1, <1>2, <1>3, <1>4, <1>5, <1>6

\* The service stores what is published.
LEMMA OriginService ==
    ASSUME TypeOK, SnapshotInv, OriginInv, Service
    PROVE  OriginInv'
<1>1. UNCHANGED <<first, snap, fatal, frame, epoch, boot, boots, pending, pc,
                  tag, fpc, fault>>
  BY DEF Service, SvcTick, SvcSnapshot, Persist, SvcPersistOk, SvcPersistFail,
         SvcCompare, SvcFail, SvcKeep, SvcMarkFlags, SvcMarkFatal
<1>2. \A w \in Writers : Filling(w)' => Filling(w)
  BY <1>1 DEF Filling
<1>3. CASE SvcSnapshot
  <2>1. source' = View /\ archive' = archive
    BY <1>3 DEF SvcSnapshot
  <2>2. /\ View.epoch = epoch
        /\ View.first # NoSnap => first = "VALID" /\ View.first = snap
        /\ View.fatal # NoTag => fatal = "VALID" /\ View.fatal = frame
    BY DEF View, FirstValid
  <2>3. QED
    BY <1>1, <1>2, <2>1, <2>2
       DEF OriginInv, OfBoot, Recording, Capturing, ImagesConsistent
<1>4. CASE SvcPersistOk
  <2>1. archive' = archive \union {Keep(source)} /\ svc = "persisting"
        /\ svc' = "stored"
    BY <1>4 DEF SvcPersistOk
  <2>2. ImagesConsistent'
    BY <2>1, SourceConsistent DEF ImagesConsistent, OriginInv
  <2>3. QED
    BY <1>1, <1>2, <2>1, <2>2 DEF OriginInv, OfBoot, Recording, Capturing
<1>5. CASE SvcTick \/ SvcPersistFail \/ SvcCompare \/ SvcFail \/ SvcKeep
           \/ SvcMarkFlags \/ SvcMarkFatal
  BY <1>1, <1>2, <1>5, OriginOthers DEF SvcTick, SvcPersistFail, SvcCompare,
     SvcFail, SvcKeep, SvcMarkFlags, SvcMarkFatal
<1>6. QED
  BY <1>3, <1>4, <1>5 DEF Service, Persist

\* Every step keeps the origin invariant.
LEMMA OriginStep ==
    ASSUME ~ProbesDuringInit, TypeOK, GateInv, SalvageInv, SnapshotInv,
           OriginInv, [Next]_vars
    PROVE  OriginInv'
<1>1. CASE Reset \/ Boot \/ FreshEpoch
  BY <1>1, OriginBoot
<1>2. CASE \E w \in Writers : Write(w)
  <2>1. PICK w \in Writers : Write(w)
    BY <1>2
  <2>2. CASE EventEnter(w) \/ EventStep(w) \/ SystemStable(w)
    <3>1. UNCHANGED <<first, snap, fatal, frame, epoch, boot, boots, pending,
                      tag, fpc, fault, svc, source, archive>>
      BY <2>2 DEF EventEnter, EventStep, EventCount, EventWrite, EventHealth,
                  SystemStable
    <3>2. \A v \in Writers : Filling(v)' => Filling(v)
      BY <2>2 DEF EventEnter, EventStep, EventCount, EventWrite, EventHealth,
                  SystemStable, Goto, Filling, TypeOK, WriterType
    <3>3. QED
      BY <3>1, <3>2, OriginOthers
  <2>3. QED
    BY <2>1, <2>2, OriginFirst DEF Write
<1>3. CASE Fault \/ FatalStep
  BY <1>3, OriginFault
<1>4. CASE Service
  BY <1>4, OriginService
<1>5. CASE UNCHANGED vars \/ \E c \in Contexts : CorruptRing(c)
  BY <1>5, OriginOthers DEF vars, CorruptRing, Filling
<1>6. QED
  BY <1>1, <1>2, <1>3, <1>4, <1>5 DEF Next

\* The origin invariant holds in every reachable state.
THEOREM OriginInvariant ==
    ASSUME ~ProbesDuringInit PROVE Spec => []OriginInv
<1>1. TypeOK /\ GateInv /\ SalvageInv /\ SnapshotInv /\ OriginInv /\ [Next]_vars
        => OriginInv'
  BY OriginStep
<1>2. QED
  BY <1>1, OriginInit, TypeCorrect, GateInvariant, SalvageInvariant,
     SnapshotInvariant, PTL DEF Spec

\* Whatever the interleaving and wherever resets fall, an image the adapter
\* commits holds a whole snapshot or none, and snapshot and fault frame are of
\* one boot and of the epoch the image is filed under.  (The copy in
\* IR_ServicePersistCurrent is taken in one critical section, but a fault may
\* strike in it and a reset after it.)
THEOREM ImagesConsistentHolds ==
    ASSUME ~ProbesDuringInit PROVE Spec => []ImagesConsistent
<1>1. OriginInv => ImagesConsistent
  BY DEF OriginInv
<1>2. QED
  BY <1>1, OriginInvariant, PTL
-----------------------------------------------------------------------------
(* What is marked as persisted *)

\* What MarkedIsStored needs to be inductive, with a fault handler that does not
\* return: the mark is set on evidence that is stored, and none is published
\* between the comparison and the mark, since the service works on evidence of
\* this boot only after the one snapshot it can hold is published.
MarkInv ==
    /\ first = "VALID" /\ "PERSISTED" \in flags => snap.head \in Archived
    /\ fatal = "VALID" /\ fatalPub = fatalPers => frame \in Archived
    /\ svc = "stored" => Keep(source) \in archive
    /\ svc = "marking" \/ (svc = "mark" /\ unchanged) =>
         /\ first = "VALID" => snap.head \in Archived
         /\ fatal = "VALID" /\ fpc = "idle" => frame \in Archived
    /\ Recording /\ first # "VALID" =>
         svc = "idle" /\ flags \subseteq {"SYSTEM_STABLE"}
    /\ Recording /\ fpc = "idle" => fatal = "EMPTY"
    /\ \A w \in Writers : pc[w] = "flagging" => Recording /\ first = "VALID"
    /\ fpc = "filled" => fatalPub # fatalPers
    /\ fatalPers <= fatalPub
    /\ fresh = "stamp" => flags = {}

\* The evidence of an image in the archive is archived, and no other.
LEMMA ArchivedMember ==
    /\ \A e : e \in Archived <=>
         e # NoTag /\ \E i \in archive : e \in {i.first.head, i.first.tail, i.fatal}
    /\ \A e : e \in Archived' <=>
         e # NoTag /\ \E i \in archive' : e \in {i.first.head, i.first.tail, i.fatal}
BY DEF Archived

\* What is archived stays archived.
LEMMA ArchivedGrows == archive \subseteq archive' => Archived \subseteq Archived'
BY ArchivedMember

\* Power-up: nothing is marked.
LEMMA MarkInit == Init => MarkInv
BY DEF Init, MarkInv, Recording

\* Steps of writers and faults that change neither the evidence, its marks nor
\* the service.
LEMMA MarkOthers ==
    ASSUME MarkInv,
           UNCHANGED <<first, snap, fatal, frame, flags, fatalPub, fatalPers,
                       svc, source, unchanged, archive, boot, pending, fresh>>,
           fpc' = fpc \/ fpc' = "dead",
           \A w \in Writers : pc'[w] = "flagging" => pc[w] = "flagging"
    PROVE  MarkInv'
BY DEF MarkInv, Recording, Archived

\* Resets and the boot path change no mark but with the evidence it is for.
LEMMA MarkBoot ==
    ASSUME TypeOK, GateInv, SalvageInv, SnapshotInv, MarkInv,
           Reset \/ Boot \/ FreshEpoch
    PROVE  MarkInv'
<1>1. Archived' = Archived
  BY DEF Reset, Restart, Boot, EarlyInit, InitRuntime, FreshEpoch, FreshWipe,
         FreshStampMagic, FreshStampEpoch, FreshOpen, Archived
<1>2. CASE Reset
  BY <1>1, <1>2 DEF Reset, Restart, MarkInv, Recording
<1>3. CASE Boot
  <2>1. /\ UNCHANGED <<retained, svc, pc, fpc>>
        /\ boot \in {"reset", "early"} /\ ~Recording' /\ fresh' # "stamp"
    BY <1>3 DEF Boot, EarlyInit, InitRuntime, Recording, GateInv
  <2>2. svc = "idle" /\ fpc = "idle" /\ \A w \in Writers : pc[w] = "idle"
    BY <2>1 DEF SalvageInv, GateInv
  <2>3. QED
    BY <1>1, <2>1, <2>2 DEF MarkInv
<1>4. CASE FreshEpoch
  <2>1. fpc = "idle" /\ fresh # "no" /\ UNCHANGED <<pc, fpc>>
    BY <1>4 DEF FreshEpoch, FreshWipe, FreshStampMagic, FreshStampEpoch,
                FreshOpen, CanFresh, CanBoot
  <2>2. ~Recording /\ svc \in {"idle", "fresh"}
    BY <2>1 DEF GateInv, Recording
  <2>3. \A w \in Writers : pc'[w] # "flagging"
    BY <2>1, <2>2 DEF MarkInv
  <2>4. /\ first' = "EMPTY" /\ fatal' = "EMPTY" /\ flags' = {}
        /\ fatalPers' <= fatalPub' /\ svc' \in {"idle", "fresh"}
    BY <1>4, <2>1, <2>2 DEF FreshEpoch, FreshWipe, ZeroRetained, FreshStampMagic,
         FreshStampEpoch, FreshOpen, SnapshotInv, MarkInv
  <2>5. Recording' => svc' = "idle"
    BY <1>4, <2>2 DEF FreshEpoch, FreshWipe, FreshStampMagic, FreshStampEpoch,
                      FreshOpen, Recording
  <2>6. QED
    BY <2>1, <2>3, <2>4, <2>5 DEF MarkInv
<1>5. QED
  BY <1>2, <1>3, <1>4

\* A snapshot is published unmarked, and while the service is idle.
LEMMA MarkWrite ==
    ASSUME ~ProbesDuringInit, TypeOK, GateInv, SnapshotInv, MarkInv,
           NEW w \in Writers, Write(w)
    PROVE  MarkInv'
<1> USE DEF TypeOK, WriterType
<1>1. /\ UNCHANGED <<fatal, frame, fatalPub, fatalPers, svc, source, unchanged,
                     archive, boot, pending, fpc, fresh>>
  BY DEF Write, EventEnter, EventStep, EventCount, EventWrite, EventHealth,
         SystemStable, FirstClaim, FirstStep, FirstFillHead, FirstFillTail,
         FirstFill, FirstPublish, FirstRequest
<1>2. CASE EventEnter(w) \/ EventStep(w)
  <2>1. UNCHANGED <<first, snap, flags>>
    BY <1>2 DEF EventEnter, EventStep, EventCount, EventWrite, EventHealth
  <2>2. \A v \in Writers : pc'[v] = "flagging" => pc[v] = "flagging"
    BY <1>2 DEF EventEnter, EventStep, EventCount, EventWrite, EventHealth, Goto
  <2>3. QED
    BY <1>1, <2>1, <2>2, MarkOthers
<1>3. CASE SystemStable(w)
  <2>1. boot = "run" /\ capture
    BY <1>3 DEF SystemStable, CanStart
  <2>2. fresh # "stamp"
    BY <2>1 DEF GateInv, CaptureGate
  <2>3. UNCHANGED <<first, snap, pc>> /\ flags' = flags \union {"SYSTEM_STABLE"}
    BY <1>3 DEF SystemStable
  <2>4. QED
    BY <1>1, <2>2, <2>3 DEF MarkInv, Recording, Archived
<1>4. CASE FirstClaim(w) \/ FirstFillHead(w) \/ FirstFillTail(w)
  <2>1. /\ first # "VALID" /\ first' # "VALID" /\ flags' = flags
    BY <1>4 DEF FirstClaim, CanClaim, FirstFillHead, FirstFillTail, FirstFill,
                SnapshotInv, Filling
  <2>2. \A v \in Writers : pc'[v] = "flagging" => pc[v] = "flagging"
    BY <1>4 DEF FirstClaim, FirstFillHead, FirstFillTail, FirstFill, Goto
  <2>3. QED
    BY <1>1, <2>1, <2>2 DEF MarkInv, Recording, Archived
<1>5. CASE FirstPublish(w)
  <2>1. /\ Recording /\ first # "VALID" /\ first' = "VALID"
        /\ UNCHANGED <<snap, flags>>
    BY <1>5 DEF FirstPublish, SnapshotInv, Filling, Recording
  <2>2. svc = "idle" /\ flags \subseteq {"SYSTEM_STABLE"}
    BY <2>1 DEF MarkInv
  <2>3. QED
    BY <1>1, <2>1, <2>2 DEF MarkInv, Recording, Archived
<1>6. CASE FirstRequest(w)
  <2>1. /\ Recording /\ first = "VALID" /\ UNCHANGED <<first, snap>>
        /\ flags' = (flags \ {"PERSISTED"}) \union {"PERSIST_REQUESTED"}
    BY <1>6 DEF FirstRequest, MarkInv
  <2>2. fresh = "no"
    BY <2>1 DEF Recording, GateInv, RuntimeType
  <2>3. \A v \in Writers : pc'[v] = "flagging" => pc[v] = "flagging"
    BY <1>6 DEF FirstRequest, Goto
  <2>4. QED
    BY <1>1, <2>1, <2>2, <2>3 DEF MarkInv, Recording, Archived
<1>7. QED
  BY <1>2, <1>3, <1>4, <1>5, <1>6 DEF Write, FirstStep

\* A frame is published with a sequence that is not marked, and nothing runs
\* after it but a reset.
LEMMA MarkFault ==
    ASSUME ~FatalReturns, TypeOK, SnapshotInv, MarkInv, Fault \/ FatalStep
    PROVE  MarkInv'
<1>1. /\ UNCHANGED <<first, snap, flags, fatalPers, svc, source, unchanged,
                     archive, boot, pending, fresh, pc>>
  BY DEF Fault, FatalClaim, FatalRefused, FatalStep, FatalFill, FatalPublish
<1>2. Archived' = Archived
  BY <1>1 DEF Archived
<1>3. CASE \E f \in Faults : FatalClaim(f)
  BY <1>1, <1>2, <1>3 DEF FatalClaim, MarkInv, Recording
<1>4. CASE FatalRefused
  <2>1. UNCHANGED <<fatal, frame, fatalPub>> /\ fpc' = "dead"
    BY <1>4 DEF FatalRefused, AfterFatal
  <2>2. QED
    BY <1>1, <2>1, MarkOthers
<1>5. CASE FatalFill
  <2>1. /\ fatal = "WRITING" /\ fatal' = "WRITING" /\ fpc' = "filled"
        /\ fatalPub' = fatalPub + 1
    BY <1>5 DEF FatalFill, NextPub, SnapshotInv
  <2>2. fatalPub \in Nat /\ fatalPers \in Nat /\ fatalPers <= fatalPub
    BY DEF TypeOK, RetainedType, MarkInv
  <2>3. fatalPers <= fatalPub' /\ fatalPub' # fatalPers
    BY <2>1, <2>2
  <2>4. QED
    BY <1>1, <1>2, <2>1, <2>3 DEF MarkInv, Recording
<1>6. CASE FatalPublish
  <2>1. /\ fpc = "filled" /\ fpc' = "dead" /\ UNCHANGED <<frame, fatalPub>>
    BY <1>6 DEF FatalPublish, AfterFatal
  <2>2. QED
    BY <1>1, <1>2, <2>1 DEF MarkInv, Recording
<1>7. QED
  BY <1>3, <1>4, <1>5, <1>6 DEF Fault, FatalStep

\* What the service compared is what it marks.
LEMMA MarkService ==
    ASSUME TypeOK, GateInv, SnapshotInv, OriginInv, MarkInv, Service
    PROVE  MarkInv'
<1>1. /\ UNCHANGED <<first, snap, fatal, frame, fatalPub, boot, pending, fpc, pc>>
  BY DEF Service, SvcTick, SvcSnapshot, Persist, SvcPersistOk, SvcPersistFail,
         SvcCompare, SvcFail, SvcKeep, SvcMarkFlags, SvcMarkFatal
<1>2. Archived \subseteq Archived'
  <2>1. archive \subseteq archive'
    BY DEF Service, SvcTick, SvcSnapshot, Persist, SvcPersistOk, SvcPersistFail,
         SvcCompare, SvcFail, SvcKeep, SvcMarkFlags, SvcMarkFatal
  <2>2. QED
    BY <2>1, ArchivedGrows
<1>3. svc # "fresh" /\ boot = "run" => fresh = "no"
  BY DEF GateInv, TypeOK, RuntimeType
<1>4. svc # "idle" => ~Recording \/ first = "VALID"
  BY DEF MarkInv
<1>5. CASE SvcTick
  BY <1>5, MarkOthers DEF SvcTick
<1>6. CASE SvcSnapshot
  <2>1. /\ svc' = "persisting" /\ fpc = "idle" /\ Need
        /\ UNCHANGED <<flags, fatalPers, fresh>>
    BY <1>6 DEF SvcSnapshot, CanServe, TaskLevel
  <2>2. Recording => first = "VALID"
    BY <2>1 DEF Need, FatalUnpersisted, MarkInv, Recording
  <2>3. QED
    BY <1>1, <1>2, <2>1, <2>2 DEF MarkInv, Recording
<1>7. CASE SvcPersistOk
  <2>1. /\ archive' = archive \union {Keep(source)} /\ svc = "persisting"
        /\ svc' = "stored" /\ UNCHANGED <<flags, fatalPers, fresh, source>>
    BY <1>7 DEF SvcPersistOk
  <2>2. Keep(source)' = Keep(source)
    BY <2>1 DEF Keep
  <2>3. QED
    BY <1>1, <1>2, <1>4, <2>1, <2>2 DEF MarkInv, Recording
<1>8. CASE SvcPersistFail
  BY <1>1, <1>2, <1>4, <1>8 DEF SvcPersistFail, MarkInv, Recording
<1>9. CASE SvcCompare
  <2>1. /\ svc' \in {"mark", "fail"} /\ svc # "idle"
        /\ UNCHANGED <<flags, fatalPers, fresh, archive>>
    BY <1>9 DEF SvcCompare
  <2>2. unchanged' => svc = "stored" /\ View = source
    BY <1>9, Zenon DEF SvcCompare
  <2>3. ASSUME unchanged' PROVE /\ first = "VALID" => snap.head \in Archived
                                /\ fatal = "VALID" => frame \in Archived
    <3>1. /\ Keep(source) \in archive
          /\ Keep(source).first = View.first /\ Keep(source).fatal = View.fatal
      BY <2>2, <2>3 DEF MarkInv, Keep
    <3>2. ASSUME first = "VALID" PROVE snap.head \in Archived
      <4>1. snap.head \in Tag /\ snap.tail = snap.head
        BY <3>2 DEF SnapshotInv, FirstSnapshotWhole
      <4>2. View.first = snap
        BY <3>2, <4>1, NoTagAssumption DEF View, FirstValid
      <4>3. QED
        BY <3>1, <4>1, <4>2, NoTagAssumption, ArchivedMember
    <3>3. ASSUME fatal = "VALID" PROVE frame \in Archived
      <4>1. View.fatal = frame /\ frame # NoTag
        BY <3>3, NoTagAssumption DEF View, OriginInv
      <4>2. QED
        BY <3>1, <4>1, ArchivedMember
    <3>4. QED
      BY <3>2, <3>3
  <2>4. QED
    BY <1>1, <1>2, <1>4, <2>1, <2>3 DEF MarkInv, Recording
<1>10. CASE SvcFail
  BY <1>1, <1>2, <1>4, <1>10 DEF SvcFail, MarkInv, Recording
<1>11. CASE SvcKeep
  <2>1. /\ svc = "mark" /\ svc' = "idle" /\ boot = "run"
        /\ flags' = (flags \ {"PERSISTED"}) \union {"PERSIST_REQUESTED"}
        /\ UNCHANGED <<fatalPers, fresh>>
    BY <1>11 DEF SvcKeep, CanServe
  <2>2. QED
    BY <1>1, <1>2, <1>3, <1>4, <2>1 DEF MarkInv, Recording
<1>12. CASE SvcMarkFlags
  <2>1. /\ svc = "mark" /\ unchanged /\ svc' = "marking" /\ boot = "run"
        /\ UNCHANGED <<fatalPers, fresh>>
    BY <1>12 DEF SvcMarkFlags, CanServe
  <2>2. QED
    BY <1>1, <1>2, <1>3, <1>4, <2>1 DEF MarkInv, Recording
<1>13. CASE SvcMarkFatal
  <2>1. /\ svc = "marking" /\ fpc = "idle" /\ svc' \in {"idle", "fresh"}
        /\ fresh' \in {fresh, "wipe"} /\ flags' = flags
        /\ fatalPers' = IF fatal = "VALID" THEN fatalPub ELSE fatalPers
    BY <1>13 DEF SvcMarkFatal
  <2>2. boot = "run"
    BY <2>1 DEF GateInv
  <2>3. fresh' # "stamp"
    BY <1>3, <2>1, <2>2
  <2>4. fatalPers' <= fatalPub
    BY <2>1 DEF MarkInv, TypeOK, RetainedType
  <2>5. QED
    BY <1>1, <1>2, <1>4, <2>1, <2>3, <2>4 DEF MarkInv, Recording
<1>14. QED
  BY <1>5, <1>6, <1>7, <1>8, <1>9, <1>10, <1>11, <1>12, <1>13 DEF Service, Persist

\* Every step keeps the mark invariant.
LEMMA MarkStep ==
    ASSUME ~ProbesDuringInit, ~FatalReturns,
           TypeOK, GateInv, SalvageInv, SnapshotInv, OriginInv, MarkInv,
           [Next]_vars
    PROVE  MarkInv'
<1>1. CASE UNCHANGED vars \/ \E c \in Contexts : CorruptRing(c)
  BY <1>1, MarkOthers DEF vars, CorruptRing
<1>2. QED
  BY <1>1, MarkBoot, MarkWrite, MarkFault, MarkService DEF Next

\* The mark invariant holds in every reachable state.
THEOREM MarkInvariant ==
    ASSUME ~ProbesDuringInit, ~FatalReturns PROVE Spec => []MarkInv
<1>1. TypeOK /\ GateInv /\ SalvageInv /\ SnapshotInv /\ OriginInv /\ MarkInv
        /\ [Next]_vars => MarkInv'
  BY MarkStep
<1>2. QED
  BY <1>1, MarkInit, TypeCorrect, GateInvariant, SalvageInvariant,
     SnapshotInvariant, OriginInvariant, PTL DEF Spec

\* Evidence that IR_EarlyInit would not ask to persist again is in an image, in
\* every state a reset can find: between the two stores of a publication,
\* between the two stores of the mark, and with a fault over either.
THEOREM MarkedIsStoredHolds ==
    ASSUME ~ProbesDuringInit, ~FatalReturns PROVE Spec => []MarkedIsStored
<1>1. SnapshotInv /\ MarkInv => MarkedIsStored
  BY DEF SnapshotInv, FirstSnapshotWhole, MarkInv, MarkedIsStored,
         PreviousEvidence, FatalUnpersisted, Live, Published
<1>2. QED
  BY <1>1, SnapshotInvariant, MarkInvariant, PTL
-----------------------------------------------------------------------------
(* The contract *)

\* What the step simulation of EvidenceContract needs, without stray writes to
\* the rings: nothing unarchived is under the header when it is wiped, the header
\* is valid whenever evidence can be published, and what is archived has been
\* published, so that evidence about to be published is new.
KeptInv ==
    /\ \A c \in Contexts : ringOk[c]
    /\ boot = "early" /\ ~pending => Live = {}
    /\ fresh = "wipe" => Live = {}
    /\ boot = "early" /\ pending => hdrOk
    /\ boot = "run" /\ fresh = "no" => hdrOk
    /\ \A e \in Archived :
         /\ e \in Tag /\ e.boot <= boots
         /\ e.boot = boots => Recording /\ first = "VALID" /\ e.by \in Writers

\* Power-up: no evidence.
LEMMA KeptInit == Init => KeptInv
BY ArchivedMember DEF Init, KeptInv

\* What counts as published: the fields behind the two markers.
LEMMA LiveSame ==
    ASSUME archive' = archive, hdrOk' = hdrOk,
           first' = "VALID" <=> first = "VALID", first = "VALID" => snap' = snap,
           fatal' = "VALID" <=> fatal = "VALID", fatal = "VALID" => frame' = frame
    PROVE  UNCHANGED <<Live, Archived>>
<1>1. Published' = Published
  BY DEF Published
<1>2. Archived' = Archived
  BY DEF Archived
<1>3. QED
  BY <1>1, <1>2 DEF Live

\* Nothing is published while nothing is marked VALID, or under no header.
LEMMA NothingLive ==
    /\ ~hdrOk \/ (first # "VALID" /\ fatal # "VALID") => Live = {}
    /\ ~hdrOk' \/ (first' # "VALID" /\ fatal' # "VALID") => Live' = {}
BY DEF Live, Published

\* Resets and the boot path publish and archive nothing; the wipe of
\* IR_InternalBeginFreshEpoch finds nothing that is not archived.
LEMMA BootQuiet ==
    ASSUME SnapshotInv, KeptInv, Reset \/ Boot \/ FreshEpoch
    PROVE  UNCHANGED <<Live, Archived>>
<1>1. CASE Reset \/ Boot
  BY <1>1, LiveSame DEF Reset, Boot, EarlyInit, InitRuntime, Restart
<1>2. CASE FreshEpoch
  <2>1. Archived' = Archived
    BY <1>2 DEF FreshEpoch, FreshWipe, FreshStampMagic, FreshStampEpoch,
                FreshOpen, Archived
  <2>2. CASE FreshWipe
    BY <2>1, <2>2, NothingLive DEF FreshWipe, ZeroRetained, KeptInv
  <2>3. CASE FreshStampMagic \/ FreshStampEpoch
    BY <2>1, <2>3, NothingLive DEF FreshStampMagic, FreshStampEpoch, SnapshotInv
  <2>4. CASE FreshOpen
    BY <2>4, LiveSame DEF FreshOpen
  <2>5. QED
    BY <1>2, <2>2, <2>3, <2>4 DEF FreshEpoch
<1>3. QED
  BY <1>1, <1>2

\* Only two steps of the others publish, and only the adapter archives.
LEMMA OthersQuiet ==
    ASSUME SnapshotInv,
           \/ \E w \in Writers : Write(w) /\ ~FirstPublish(w)
           \/ \E c \in Contexts : CorruptRing(c)
           \/ Fault \/ FatalFill
           \/ Service /\ ~SvcPersistOk
           \/ UNCHANGED vars
    PROVE  UNCHANGED <<Live, Archived>>
<1>1. CASE \E w \in Writers : Write(w) /\ ~FirstPublish(w)
  <2>1. PICK w \in Writers : Write(w) /\ ~FirstPublish(w)
    BY <1>1
  <2>2. CASE EventEnter(w) \/ EventStep(w) \/ SystemStable(w) \/ FirstRequest(w)
    BY <2>2, LiveSame DEF EventEnter, EventStep, EventCount, EventWrite,
       EventHealth, SystemStable, FirstRequest
  <2>3. CASE FirstClaim(w)
    BY <2>3, LiveSame DEF FirstClaim, CanClaim
  <2>4. CASE FirstFillHead(w) \/ FirstFillTail(w)
    BY <2>4, LiveSame DEF FirstFillHead, FirstFillTail, FirstFill, SnapshotInv,
       Filling
  <2>5. QED
    BY <2>1, <2>2, <2>3, <2>4 DEF Write, FirstStep
<1>2. CASE Fault \/ FatalFill
  BY <1>2, LiveSame DEF Fault, FatalClaim, CanCapture, FatalRefused, FatalFill,
     SnapshotInv
<1>3. CASE Service /\ ~SvcPersistOk
  BY <1>3, LiveSame DEF Service, SvcTick, SvcSnapshot, Persist, SvcPersistFail,
     SvcCompare, SvcFail, SvcKeep, SvcMarkFlags, SvcMarkFatal
<1>4. CASE UNCHANGED vars \/ \E c \in Contexts : CorruptRing(c)
  BY <1>4, LiveSame DEF vars, CorruptRing
<1>5. QED
  BY <1>1, <1>2, <1>3, <1>4

\* Evidence a writer publishes is new.
LEMMA PublishFirst ==
    ASSUME ~ProbesDuringInit, TypeOK, GateInv, SnapshotInv, OriginInv, MarkInv,
           KeptInv, NEW w \in Writers, FirstPublish(w)
    PROVE  /\ tag[w] \notin Live \union Archived
           /\ Live' = Live \union {tag[w]} /\ Archived' = Archived
<1>1. /\ Recording /\ first = "WRITING" /\ first' = "VALID" /\ fpc = "idle"
      /\ tag[w] \in Tag /\ tag[w].boot = boots /\ tag[w].by = w
      /\ snap.head = tag[w] /\ snap.tail = tag[w]
      /\ UNCHANGED <<snap, fatal, frame, hdrOk, archive>>
  BY DEF FirstPublish, CanRun, SnapshotInv, OriginInv, Filling, Recording
<1>2. hdrOk
  BY <1>1 DEF KeptInv, Recording, GateInv, TypeOK, RuntimeType
<1>3. Archived' = Archived
  BY <1>1 DEF Archived
<1>4. tag[w] \notin Archived
  BY <1>1 DEF KeptInv
<1>5. Live = {} /\ tag[w] \notin Live
  BY <1>1, NothingLive DEF MarkInv
<1>6. Published' = {tag[w]}
  BY <1>1, <1>2 DEF Published, MarkInv
<1>7. Live' = {tag[w]}
  BY <1>3, <1>4, <1>6 DEF Live
<1>8. QED
  BY <1>3, <1>4, <1>5, <1>7

\* So is the frame the fault handler publishes.
LEMMA PublishFatal ==
    ASSUME TypeOK, GateInv, SnapshotInv, OriginInv, KeptInv, FatalPublish
    PROVE  /\ fault \notin Live \union Archived
           /\ Live' = Live \union {fault} /\ Archived' = Archived
<1>1. /\ Recording /\ fatal = "WRITING" /\ fatal' = "VALID" /\ frame = fault
      /\ fault.boot = boots /\ fault.by \in Faults
      /\ UNCHANGED <<first, snap, frame, hdrOk, archive>>
  BY DEF FatalPublish, SnapshotInv, OriginInv, Capturing
<1>2. hdrOk
  BY <1>1 DEF KeptInv, Recording, GateInv, TypeOK, RuntimeType
<1>3. Archived' = Archived
  BY <1>1 DEF Archived
<1>4. fault \notin Archived
  BY <1>1, RecorderAssumption DEF KeptInv
<1>5. first = "VALID" => snap.head.by \in Writers /\ snap.tail = snap.head
  BY DEF OriginInv, SnapshotInv, FirstSnapshotWhole
<1>6. fault \notin Published
  BY <1>1, <1>5, RecorderAssumption DEF Published
<1>7. Published' = Published \union {fault}
  BY <1>1, <1>2 DEF Published
<1>8. QED
  BY <1>3, <1>4, <1>6, <1>7 DEF Live

\* An image holds evidence that is published, and adds it to the archive.
LEMMA ArchiveImage ==
    ASSUME TypeOK, GateInv, SnapshotInv, OriginInv, KeptInv, SvcPersistOk
    PROVE  \E batch \in SUBSET Published :
             /\ Archived' = Archived \union batch
             /\ \A e \in batch : \/ first = "VALID" /\ e = snap.head
                                 \/ fatal = "VALID" /\ e = frame
<1> DEFINE batch == {source.first.head, source.first.tail, source.fatal} \ {NoTag}
<1>1. /\ archive' = archive \union {Keep(source)} /\ svc = "persisting" /\ boot = "run"
  BY DEF SvcPersistOk, CanServe
<1>2. hdrOk
  BY <1>1 DEF KeptInv, GateInv, TypeOK, RuntimeType
<1>3. /\ source.first # NoSnap => first = "VALID" /\ source.first = snap
      /\ source.fatal # NoTag => fatal = "VALID" /\ source.fatal = frame
  BY <1>1 DEF OriginInv
<1>4. first = "VALID" => snap.tail = snap.head
  BY DEF SnapshotInv, FirstSnapshotWhole
<1>5. NoSnap.head = NoTag /\ NoSnap.tail = NoTag
  BY DEF NoSnap
<1>6. \A e \in batch : \/ first = "VALID" /\ e = snap.head
                       \/ fatal = "VALID" /\ e = frame
  BY <1>3, <1>4, <1>5
<1>7. batch \subseteq Published
  BY <1>2, <1>6 DEF Published
<1>8. Archived' = Archived \union batch
  <2>1. Keep(source).first = source.first /\ Keep(source).fatal = source.fatal
    BY DEF Keep
  <2>2. \A e : e \in Archived' <=> e \in Archived \union batch
    BY <1>1, <2>1, ArchivedMember
  <2>3. QED
    BY <2>2
<1>9. QED
  BY <1>6, <1>7, <1>8

\* Every step is a step of the contract or changes neither of its variables.
LEMMA ContractStep ==
    ASSUME ~ProbesDuringInit, TypeOK, GateInv, SnapshotInv, OriginInv, MarkInv,
           KeptInv, [Next]_vars
    PROVE  [Contract!Next]_<<Live, Archived>>
<1>1. CASE UNCHANGED <<Live, Archived>>
  BY <1>1
<1>2. CASE \E w \in Writers : FirstPublish(w)
  <2>1. PICK w \in Writers : FirstPublish(w)
    BY <1>2
  <2>2. tag[w] \in Live' /\ Contract!Publish(tag[w])
    BY <2>1, PublishFirst DEF Contract!Publish
  <2>3. QED
    BY <2>2 DEF Contract!Next
<1>3. CASE FatalPublish
  <2>1. fault \in Live' /\ Contract!Publish(fault)
    BY <1>3, PublishFatal DEF Contract!Publish
  <2>2. QED
    BY <2>1 DEF Contract!Next
<1>4. CASE SvcPersistOk
  <2>1. PICK batch \in SUBSET Published : Archived' = Archived \union batch
    BY <1>4, ArchiveImage
  <2>2. Published' = Published
    BY <1>4 DEF SvcPersistOk, Published
  <2>3. Live' = Live \ (batch \ Archived)
    BY <2>1, <2>2 DEF Live
  <2>4. batch \ Archived \subseteq Live
    BY <2>1 DEF Live
  <2>5. Archived' = Archived \union (batch \ Archived)
    BY <2>1
  <2>6. CASE batch \ Archived = {}
    BY <2>3, <2>5, <2>6
  <2>7. CASE batch \ Archived # {}
    <3>1. Contract!Archive(batch \ Archived)
      BY <2>3, <2>4, <2>5, <2>7 DEF Contract!Archive
    <3>2. QED
      BY <2>4, <3>1 DEF Contract!Next
  <2>8. QED
    BY <2>6, <2>7
<1>5. QED
  BY <1>1, <1>2, <1>3, <1>4, BootQuiet, OthersQuiet DEF Next, FatalStep

\* Resets and the boot path: what EarlyInit leaves to the wipe is archived.
LEMMA KeptBoot ==
    ASSUME TypeOK, GateInv, SnapshotInv, MarkedIsStored, KeptInv,
           Reset \/ Boot \/ FreshEpoch
    PROVE  KeptInv'
<1>1. UNCHANGED <<Live, Archived>>
  BY BootQuiet
<1>2. CASE Reset
  <2>1. /\ boots' = boots + 1 /\ boot' = "reset" /\ fresh' = "no"
        /\ ringOk' = ringOk
    BY <1>2 DEF Reset, Restart
  <2>2. \A e \in Archived' : e \in Tag /\ e.boot < boots'
    BY <1>1, <2>1 DEF KeptInv, Tag, TypeOK, HistoryType
  <2>3. \A e \in Archived' : e.boot <= boots' /\ e.boot # boots'
    BY <2>1, <2>2 DEF Tag, TypeOK, HistoryType
  <2>4. QED
    BY <2>1, <2>2, <2>3 DEF KeptInv
<1>3. ASSUME UNCHANGED boots, Recording \/ ~Recording', ~Recording
      PROVE  \A e \in Archived' :
               /\ e \in Tag /\ e.boot <= boots'
               /\ e.boot = boots' => Recording' /\ first' = "VALID" /\ e.by \in Writers
  BY <1>1, <1>3 DEF KeptInv
<1>4. CASE EarlyInit
  <2>1. /\ boot = "reset" /\ boot' = "early"
        /\ UNCHANGED <<retained, boots, fresh>>
    BY <1>4 DEF EarlyInit
  <2>2. fresh' = "no" /\ ~Recording /\ ~Recording'
    BY <2>1 DEF GateInv, Recording
  <2>3. pending' <=> HeaderValid /\ PreviousEvidence
    BY <1>4, Zenon DEF EarlyInit
  <2>4. HeaderValid <=> hdrOk
    BY DEF KeptInv, HeaderValid
  <2>5. ~pending' => Live' = {}
    BY <1>1, <2>3, <2>4, NothingLive DEF MarkedIsStored
  <2>6. pending' => hdrOk'
    BY <2>1, <2>3, <2>4
  <2>7. QED
    BY <1>3, <2>1, <2>2, <2>5, <2>6 DEF KeptInv
<1>5. CASE InitRuntime
  <2>1. /\ boot = "early" /\ ~Recording /\ ~Recording'
        /\ UNCHANGED <<retained, boots, pending>>
        /\ pending => boot' = "run" /\ fresh' = fresh
        /\ ~pending => boot' = "init" /\ fresh' = "wipe"
    BY <1>5 DEF InitRuntime, Recording
  <2>2. fresh = "no"
    BY <2>1 DEF GateInv
  <2>3. QED
    BY <1>1, <1>3, <2>1, <2>2 DEF KeptInv
<1>6. CASE FreshEpoch
  <2>1. /\ fresh # "no" /\ ~Recording /\ UNCHANGED <<boots>>
        /\ boot # "early"
    BY <1>6 DEF FreshEpoch, FreshWipe, FreshStampMagic, FreshStampEpoch,
                FreshOpen, CanFresh, GateInv, Recording
  <2>2. \A c \in Contexts : ringOk'[c]
    BY <1>6 DEF FreshEpoch, FreshWipe, ZeroRetained, FreshStampMagic,
                FreshStampEpoch, FreshOpen, KeptInv
  <2>3. /\ boot' # "early" /\ fresh' # "wipe"
        /\ fresh' = "no" => hdrOk'
    BY <1>6, <2>1 DEF FreshEpoch, FreshWipe, FreshStampMagic, FreshStampEpoch,
                      FreshOpen
  <2>4. \A e \in Archived' : e \in Tag /\ e.boot <= boots' /\ e.boot # boots'
    BY <1>1, <2>1 DEF KeptInv
  <2>5. QED
    BY <2>2, <2>3, <2>4 DEF KeptInv
<1>7. QED
  BY <1>2, <1>4, <1>5, <1>6 DEF Boot

\* The writers and the fault handler publish only while recording, when no wipe
\* is due, and what they publish is not archived yet.
LEMMA KeptPublish ==
    ASSUME ~ProbesDuringInit, ~Corruption, TypeOK, GateInv, SalvageInv,
           SnapshotInv, OriginInv, MarkInv, KeptInv,
           \/ \E w \in Writers : Write(w)
           \/ \E c \in Contexts : CorruptRing(c)
           \/ Fault \/ FatalStep \/ UNCHANGED vars
    PROVE  KeptInv'
<1>1. /\ UNCHANGED <<archive, boot, boots, pending, fresh, hdrOk, ringOk>>
      /\ first = "VALID" => first' = "VALID"
  BY DEF Write, EventEnter, EventStep, EventCount, EventWrite, EventHealth,
         SystemStable, FirstClaim, CanClaim, FirstStep, FirstFillHead,
         FirstFillTail, FirstFill, FirstPublish, FirstRequest, CorruptRing,
         Fault, FatalClaim, FatalRefused, FatalStep, FatalFill, FatalPublish, vars
<1>2. Archived' = Archived
  BY <1>1 DEF Archived
<1>3. Live' = Live \/ Recording
  <2>1. (\E w \in Writers : FirstPublish(w)) => Recording
    BY DEF FirstPublish, SnapshotInv, Filling, Recording
  <2>2. FatalPublish => Recording
    BY DEF FatalPublish, OriginInv, Capturing
  <2>3. QED
    BY <2>1, <2>2, OthersQuiet DEF FatalStep
<1>4. Recording => fresh = "no" /\ boot # "early"
  BY DEF Recording, GateInv, TypeOK, RuntimeType
<1>5. QED
  BY <1>1, <1>2, <1>3, <1>4 DEF KeptInv, Recording

\* The service archives what is published, and has a previous epoch wiped only
\* once its evidence is archived.
LEMMA KeptService ==
    ASSUME TypeOK, GateInv, SnapshotInv, OriginInv, MarkInv, KeptInv, Service
    PROVE  KeptInv'
<1>1. UNCHANGED <<first, snap, fatal, frame, boot, boots, pending, hdrOk, ringOk>>
  BY DEF Service, SvcTick, SvcSnapshot, Persist, SvcPersistOk, SvcPersistFail,
         SvcCompare, SvcFail, SvcKeep, SvcMarkFlags, SvcMarkFatal
<1>2. CASE SvcPersistOk
  <2>1. /\ boot = "run" /\ fresh' = fresh /\ fpc = "idle" /\ svc = "persisting"
    BY <1>2 DEF SvcPersistOk, CanServe, TaskLevel
  <2>2. fresh = "no"
    BY <2>1 DEF GateInv, TypeOK, RuntimeType
  <2>3. PICK batch \in SUBSET Published :
          /\ Archived' = Archived \union batch
          /\ \A e \in batch : \/ first = "VALID" /\ e = snap.head
                              \/ fatal = "VALID" /\ e = frame
    BY <1>2, ArchiveImage
  <2>4. ASSUME NEW e \in batch
        PROVE  /\ e \in Tag /\ e.boot <= boots
               /\ e.boot = boots => Recording /\ first = "VALID" /\ e.by \in Writers
    <3>1. boots \in Nat
      BY DEF TypeOK, HistoryType
    <3>2. CASE first = "VALID" /\ e = snap.head
      <4>1. e \in Tag /\ e.by \in Writers /\ OfBoot(e)
        BY <3>2 DEF SnapshotInv, FirstSnapshotWhole, OriginInv
      <4>2. QED
        BY <3>1, <3>2, <4>1 DEF OfBoot, Tag
    <3>3. CASE fatal = "VALID" /\ e = frame
      <4>1. e \in Tag /\ OfBoot(e) /\ ~Recording
        BY <2>1, <3>3 DEF OriginInv, MarkInv
      <4>2. QED
        BY <3>1, <4>1 DEF OfBoot, Tag
    <3>4. QED
      BY <2>3, <3>2, <3>3
  <2>5. QED
    BY <1>1, <2>1, <2>2, <2>3, <2>4 DEF KeptInv, Recording
<1>3. CASE SvcMarkFatal /\ pending
  <2>1. /\ svc = "marking" /\ fpc = "idle" /\ fresh' = "wipe"
        /\ archive' = archive
    BY <1>3 DEF SvcMarkFatal
  <2>2. boot = "run"
    BY <2>1 DEF GateInv
  <2>3. UNCHANGED <<Live, Archived>>
    BY <1>1, <2>1, LiveSame
  <2>4. Live = {}
    BY <2>1 DEF Live, Published, MarkInv, SnapshotInv, FirstSnapshotWhole
  <2>5. QED
    BY <1>1, <2>1, <2>2, <2>3, <2>4 DEF KeptInv, Recording
<1>4. CASE ~SvcPersistOk /\ ~(SvcMarkFatal /\ pending)
  <2>1. fresh' = fresh
    BY <1>4 DEF Service, SvcTick, SvcSnapshot, Persist, SvcPersistFail,
         SvcCompare, SvcFail, SvcKeep, SvcMarkFlags, SvcMarkFatal
  <2>2. UNCHANGED <<Live, Archived>>
    BY <1>4, OthersQuiet
  <2>3. QED
    BY <1>1, <2>1, <2>2 DEF KeptInv, Recording
<1>5. QED
  BY <1>2, <1>3, <1>4

\* Every step keeps the evidence invariant of the contract.
LEMMA KeptStep ==
    ASSUME ~ProbesDuringInit, ~Corruption, TypeOK, GateInv, SalvageInv,
           SnapshotInv, OriginInv, MarkInv, MarkedIsStored, KeptInv, [Next]_vars
    PROVE  KeptInv'
<1>1. CASE Reset \/ Boot \/ FreshEpoch
  BY <1>1, KeptBoot
<1>2. CASE Service
  BY <1>2, KeptService
<1>3. CASE \/ \E w \in Writers : Write(w)
           \/ \E c \in Contexts : CorruptRing(c)
           \/ Fault \/ FatalStep \/ UNCHANGED vars
  BY <1>3, KeptPublish
<1>4. QED
  BY <1>1, <1>2, <1>3 DEF Next

\* The evidence invariant of the contract holds in every reachable state.
THEOREM KeptInvariant ==
    ASSUME ~ProbesDuringInit, ~FatalReturns, ~Corruption
    PROVE  Spec => []KeptInv
<1>1. TypeOK /\ GateInv /\ SalvageInv /\ SnapshotInv /\ OriginInv /\ MarkInv
        /\ MarkedIsStored /\ KeptInv /\ [Next]_vars => KeptInv'
  BY KeptStep
<1>2. QED
  BY <1>1, KeptInit, TypeCorrect, GateInvariant, SalvageInvariant,
     SnapshotInvariant, OriginInvariant, MarkInvariant, MarkedIsStoredHolds, PTL
     DEF Spec

\* The recorder implements EvidenceContract, with any number of writers, fault
\* sources and resets: a step publishes one new piece of evidence, archives
\* evidence that is published, or changes neither; none leaves retained RAM
\* before it is archived.  The conditions are those the violating runs show to
\* be needed: no probe inside IR_Init, a fault handler that does not return, and
\* no stray write to the rings, for which IR_EarlyInit discards the store.
THEOREM ContractKeptHolds ==
    ASSUME ~ProbesDuringInit, ~FatalReturns, ~Corruption
    PROVE  Spec => ContractKept
<1>1. Init => Contract!Init
  BY ArchivedMember, NothingLive DEF Init, Contract!Init
<1>2. TypeOK /\ GateInv /\ SnapshotInv /\ OriginInv /\ MarkInv /\ KeptInv
        /\ [Next]_vars => [Contract!Next]_<<Live, Archived>>
  <2> SUFFICES ASSUME TypeOK, GateInv, SnapshotInv, OriginInv, MarkInv, KeptInv,
                      [Next]_vars
               PROVE  [Contract!Next]_<<Live, Archived>>
    OBVIOUS
  <2>1. QED
    BY ContractStep
<1>3. QED
  BY <1>1, <1>2, TypeCorrect, GateInvariant, SnapshotInvariant, OriginInvariant,
     MarkInvariant, KeptInvariant, PTL DEF Spec, Contract!Spec, ContractKept

\* A probe that was told its snapshot is published does not lose it, which the
\* repository says without conditions and the run init_window refutes: it takes
\* the three conditions of the contract.
THEOREM PublishedIsKeptHolds ==
    ASSUME ~ProbesDuringInit, ~FatalReturns, ~Corruption
    PROVE  Spec => PublishedIsKept
<1>1. TypeOK /\ GateInv /\ SnapshotInv /\ OriginInv /\ MarkInv /\ KeptInv
        /\ [Next]_vars => [Live \subseteq Live' \union Archived']_vars
  <2> SUFFICES ASSUME TypeOK, GateInv, SnapshotInv, OriginInv, MarkInv, KeptInv,
                      [Next]_vars
               PROVE  Live \subseteq Live' \union Archived'
    OBVIOUS
  <2>1. [Contract!Next]_<<Live, Archived>>
    BY ContractStep
  <2>2. QED
    BY <2>1 DEF Contract!Next, Contract!Publish, Contract!Archive
<1>2. QED
  BY <1>1, TypeCorrect, GateInvariant, SnapshotInvariant, OriginInvariant,
     MarkInvariant, KeptInvariant, PTL DEF Spec, PublishedIsKept
=============================================================================
