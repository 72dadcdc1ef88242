---------------------------- MODULE JournalProofs ---------------------------
(***************************************************************************)
(* Proofs about Journal, for any number of slots, ids and generations: an  *)
(* id is always found, and, with two slots or more, the id the exporter    *)
(* holds is stable and the slots implement JournalContract.                *)
(*                                                                         *)
(* The inductive invariant JournalInv says what the slot being written     *)
(* holds, that live records are ordered by generation with the exported    *)
(* ones before the pending ones and the newest ever committed among them,  *)
(* and that the exporter works on the oldest pending one.                  *)
(***************************************************************************)
EXTENDS Journal, FiniteSetTheorems, TLAPS

USE JournalAssumption

-----------------------------------------------------------------------------
(* Allocation of ids *)

\* A set of numbers has a least one: the least initial segment.
LEMMA LeastExists ==
    ASSUME NEW T \in SUBSET Nat, T # {}
    PROVE  \E x \in T : \A y \in T : x <= y
<1> DEFINE R == StrictSubsetOrdering(Nat)
           F == FiniteSubsetsOf(Nat)
           U == {0 .. x : x \in T}
<1>1. U \subseteq F /\ U # {}
  <2>1. \A x \in T : 0 .. x \in SUBSET Nat /\ IsFiniteSet(0 .. x)
    BY FS_Interval
  <2> QED
    BY <2>1 DEF FiniteSubsetsOf
<1>2. PICK u \in U : \A v \in U : ~ (<<v, u>> \in R)
  <2>1. IsWellFoundedOn(R, F)
    BY FS_StrictSubsetOrderingWellFounded
  <2> HIDE DEF R, F, U
  <2> QED
    BY <1>1, <2>1, WFMin
<1>3. PICK x \in T : u = 0 .. x
  BY <1>2
<1>4. \A y \in T : x <= y
  <2> SUFFICES ASSUME NEW y \in T, y < x PROVE FALSE
    OBVIOUS
  <2>1. x \in 0 .. x /\ x \notin 0 .. y
    OBVIOUS
  <2>2. 0 .. y \subseteq 0 .. x /\ 0 .. y # 0 .. x /\ 0 .. x \subseteq Nat
    BY <2>1
  <2>3. <<0 .. y, 0 .. x>> \in R
    BY <2>2 DEF StrictSubsetOrdering
  <2> QED
    BY <1>2, <1>3, <2>3
<1> QED
  BY <1>4

\* The remainder of a number below twice the modulus.
LEMMA ModSteps ==
    ASSUME NEW m \in Nat \ {0}, NEW a \in 0 .. (2 * m - 1)
    PROVE  a % m = IF a < m THEN a ELSE a - m
  OBVIOUS

\* Succ goes through 1 .. IdMod - 1 in a circle, and enters it from 0.
LEMMA Successor ==
    ASSUME NEW n \in 0 .. (IdMod - 1)
    PROVE  Succ(n) = 1 + IF n < IdMod - 1 THEN n ELSE 0
<1>1. IdMod \in Nat \ {0} /\ n \in Nat /\ n < IdMod
  OBVIOUS
<1>2. CASE n + 1 < IdMod
  <2>1. (n + 1) % IdMod = n + 1
    BY <1>1, <1>2
  <2> QED
    BY <1>1, <1>2, <2>1 DEF Succ
<1>3. CASE n + 1 = IdMod
  <2>1. (n + 1) % IdMod = 0
    BY <1>1, <1>3
  <2> QED
    BY <1>1, <1>3, <2>1 DEF Succ
<1> QED
  BY <1>1, <1>2, <1>3

\* The candidates in closed form.  The least place where the loop and the closed
\* form differed would be one where they agree.
LEMMA CandidatesAre ==
    ASSUME NEW from \in 0 .. (IdMod - 1)
    PROVE  Candidates(from)
             = [k \in 1 .. Attempts |-> 1 + ((from + k - 1) % (IdMod - 1))]
<1> DEFINE c == [k \in 1 .. Attempts |-> 1 + ((from + k - 1) % (IdMod - 1))]
           Eq(f) == f = [k \in 1 .. Attempts |->
                           IF k = 1 THEN Succ(from) ELSE Succ(f[k - 1])]
<1>1. Eq(c)
  <2>1. \A k \in 1 .. Attempts : c[k] = IF k = 1 THEN Succ(from) ELSE Succ(c[k - 1])
    <3> TAKE k \in 1 .. Attempts
    <3> DEFINE m == IdMod - 1
               a == from + k - 1
    <3>1. m \in Nat \ {0} /\ a \in 0 .. (2 * m - 1)
          /\ (k # 1 => a - 1 \in 0 .. (2 * m - 1)) /\ IdMod \in Nat \ {0}
      BY DEF Attempts
    <3>2. c[k] = 1 + IF a < m THEN a ELSE a - m
      BY <3>1, ModSteps
    <3>3. k # 1 => c[k - 1] = 1 + IF a - 1 < m THEN a - 1 ELSE a - 1 - m
      <4>1. k # 1 => c[k - 1] = 1 + ((a - 1) % m)
        BY DEF Attempts
      <4> QED
        BY <3>1, <4>1, ModSteps
    <3>4. \A n \in 0 .. m : Succ(n) = 1 + IF n < m THEN n ELSE 0
      BY Successor
    <3> HIDE DEF c
    <3> QED
      BY <3>1, <3>2, <3>3, <3>4
  <2> QED
    BY <2>1
<1>2. Candidates(from) = CHOOSE f : Eq(f)
  BY DEF Candidates
<1>3. Eq(Candidates(from))
  <2> HIDE DEF Eq
  <2> QED
    BY <1>1, <1>2
<1> DEFINE d == Candidates(from)
           T == {k \in 1 .. Attempts : d[k] # c[k]}
<1>4. T = {}
  <2> SUFFICES ASSUME T # {} PROVE FALSE
    OBVIOUS
  <2>1. PICK k \in T : \A j \in T : k <= j
    <3>1. T \in SUBSET Nat
      BY DEF Attempts
    <3> HIDE DEF T
    <3> QED
      BY <3>1, LeastExists
  <2>2. k \in 1 .. Attempts /\ d[k] # c[k]
    OBVIOUS
  <2>3. k # 1 => d[k - 1] = c[k - 1]
    <3>1. k # 1 => k - 1 \in 1 .. Attempts /\ k - 1 \notin T
      BY <2>1 DEF Attempts
    <3> QED
      BY <3>1
  <2>4. c[k] = IF k = 1 THEN Succ(from) ELSE Succ(c[k - 1])
    <3> HIDE DEF c
    <3> QED
      BY <1>1, <2>2
  <2>5. d[k] = IF k = 1 THEN Succ(from) ELSE Succ(d[k - 1])
    BY <1>3, <2>2
  <2> HIDE DEF d, c, T
  <2> QED
    BY <2>2, <2>3, <2>4, <2>5
<1> QED
  BY <1>3, <1>4

\* The candidates are different ids, none of them 0.
LEMMA CandidatesDiffer ==
    ASSUME NEW from \in 0 .. (IdMod - 1)
    PROVE  /\ \A k \in 1 .. Attempts : Candidates(from)[k] \in 1 .. (IdMod - 1)
           /\ \A j, k \in 1 .. Attempts :
                j # k => Candidates(from)[j] # Candidates(from)[k]
<1> DEFINE m == IdMod - 1
           At(k) == from + k - 1
<1>1. m \in Nat \ {0} /\ SlotCount < m
  OBVIOUS
<1>2. \A k \in 1 .. Attempts :
        Candidates(from)[k] = 1 + IF At(k) < m THEN At(k) ELSE At(k) - m
  <2> TAKE k \in 1 .. Attempts
  <2>1. Candidates(from)[k] = 1 + (At(k) % m)
    BY CandidatesAre
  <2>2. At(k) \in 0 .. (2 * m - 1)
    BY <1>1 DEF Attempts
  <2> QED
    BY <1>1, <2>1, <2>2, ModSteps
<1> QED
  BY <1>1, <1>2 DEF Attempts

\* There are fewer ids in use than candidates.
LEMMA FreeExists ==
    ASSUME NEW f \in [Slots -> Slot], NEW from \in 0 .. (IdMod - 1)
    PROVE  Free(f, from) # {}
<1> DEFINE S == Valid(f)
           g == [i \in S |-> f[i].id]
           c == [k \in 1 .. Attempts |-> Candidates(from)[k]]
<1>1. IsFiniteSet(Slots) /\ Cardinality(Slots) = SlotCount
  BY FS_Interval DEF Slots
<1>2. IsFiniteSet(S) /\ Cardinality(S) <= SlotCount
  BY <1>1, FS_Subset DEF Valid
<1>3. IsFiniteSet(InUse(f)) /\ Cardinality(InUse(f)) <= Cardinality(S)
  <2>1. g \in Surjection(S, InUse(f))
    BY DEF Surjection, InUse
  <2> QED
    BY <1>2, <2>1, FS_Surjection
<1>4. IsFiniteSet(1 .. Attempts) /\ Cardinality(1 .. Attempts) = SlotCount + 1
  BY FS_Interval DEF Attempts
<1>5. Cardinality(InUse(f)) < Cardinality(1 .. Attempts)
  BY <1>2, <1>3, <1>4, FS_CardinalityType
<1> SUFFICES ASSUME Free(f, from) = {} PROVE FALSE
  OBVIOUS
<1>6. c \in [1 .. Attempts -> InUse(f)]
  BY DEF Free
<1>7. \E j, k \in 1 .. Attempts : j # k /\ c[j] = c[k]
  <2> DEFINE A == 1 .. Attempts
             B == InUse(f)
  <2>1. /\ IsFiniteSet(A) /\ IsFiniteSet(B) /\ Cardinality(B) < Cardinality(A)
        /\ c \in [A -> B]
    BY <1>3, <1>4, <1>5, <1>6
  <2>2. \E x, y \in A : x # y /\ c[x] = c[y]
    <3> HIDE DEF A, B, c
    <3> QED
      BY <2>1, FS_PigeonHole
  <2> QED
    BY <2>2
<1> QED
  BY <1>7, CandidatesDiffer

\* RefAllocateRecordId returns an id that is not 0 and not in use.
LEMMA AllocatedFree ==
    ASSUME NEW f \in [Slots -> Slot], NEW from \in 0 .. (IdMod - 1)
    PROVE  Allocated(f, from) \in 1 .. (IdMod - 1) /\ Allocated(f, from) \notin InUse(f)
<1>1. Free(f, from) \in SUBSET Nat /\ Free(f, from) # {}
  BY FreeExists DEF Free, Attempts
<1>2. \E k \in Free(f, from) : \A j \in Free(f, from) : k <= j
  BY <1>1, LeastExists
<1>3. PICK k \in Free(f, from) : Allocated(f, from) = Candidates(from)[k]
  BY <1>2 DEF Allocated
<1> QED
  BY <1>3, CandidatesDiffer DEF Free

\* The oldest and the newest of some slots is one of them.
LEMMA OldestIn ==
    ASSUME NEW f \in [Slots -> Slot], NEW S \in SUBSET Slots, S # {}
    PROVE  OldestOf(f, S) \in S /\ \A j \in S : f[OldestOf(f, S)].gen <= f[j].gen
<1> DEFINE T == {f[i].gen : i \in S}
<1>1. T \in SUBSET Nat /\ T # {}
  BY DEF Slot
<1>2. \E t \in T : \A u \in T : t <= u
  <2> HIDE DEF T
  <2> QED
    BY <1>1, LeastExists
<1>3. \E i \in S : \A j \in S : f[i].gen <= f[j].gen
  BY <1>2
<1> QED
  BY <1>3 DEF OldestOf

\* The same for the newest.
LEMMA NewestIn ==
    ASSUME NEW f \in [Slots -> Slot], NEW S \in SUBSET Slots, S # {}
    PROVE  NewestOf(f, S) \in S /\ \A j \in S : f[NewestOf(f, S)].gen >= f[j].gen
<1> DEFINE T == {MaxGen - f[i].gen : i \in S}
<1>1. T \in SUBSET Nat /\ T # {}
  BY DEF Slot
<1>2. \E t \in T : \A u \in T : t <= u
  <2> HIDE DEF T
  <2> QED
    BY <1>1, LeastExists
<1>3. \E i \in S : \A j \in S : f[i].gen >= f[j].gen
  <2>1. \A i \in S : f[i].gen \in Nat
    BY DEF Slot
  <2>2. PICK i \in S : \A u \in T : MaxGen - f[i].gen <= u
    BY <1>2
  <2>3. \A j \in S : MaxGen - f[i].gen <= MaxGen - f[j].gen
    BY <2>2
  <2> HIDE DEF T
  <2> QED
    BY <2>1, <2>3
<1> QED
  BY <1>3 DEF NewestOf
-----------------------------------------------------------------------------
(* Type correctness *)

\* persist() in progress has a slot.
TypeInv == TypeOK /\ (pc # "idle" => target \in Slots)

\* Recovery keeps slots well typed.
LEMMA RecoveredType == TypeOK => Recovered \in [Slots -> Slot]
<1> SUFFICES ASSUME TypeOK, NEW i \in Slots PROVE RecoverSlot(slots[i]) \in Slot
  BY DEF Recovered
<1>1. slots[i] \in Slot
  BY DEF TypeOK
<1> QED
  BY <1>1 DEF RecoverSlot, Cleared, Slot

\* So are the counters it rebuilds.
LEMMA RecoverType ==
    ASSUME TypeOK, NEW gen0 \in 0 .. MaxGen, NEW id0 \in 0 .. (IdMod - 1),
           Recover(gen0, id0)
    PROVE  nextGen' \in 0 .. MaxGen /\ nextId' \in 0 .. (IdMod - 1)
<1>1. CASE Valid(Recovered) = {}
  BY <1>1 DEF Recover
<1>2. CASE Valid(Recovered) # {}
  <2> DEFINE n == NewestOf(Recovered, Valid(Recovered))
  <2>1. Valid(Recovered) \in SUBSET Slots
    BY DEF Valid
  <2>2. n \in Slots
    BY <1>2, <2>1, RecoveredType, NewestIn
  <2>3. Recovered[n] \in Slot
    BY <2>2, RecoveredType
  <2>4. nextGen' = Recovered[n].gen /\ nextId' = Recovered[n].id
    BY <1>2 DEF Recover
  <2> HIDE DEF n
  <2> QED
    BY <2>3, <2>4 DEF Slot
<1> QED
  BY <1>1, <1>2

\* The slot chosen is an empty one or an exported one.
LEMMA TargetIn ==
    ASSUME NEW f \in [Slots -> Slot], NEW t \in Targets(f)
    PROVE  \/ t \in Empty(f)
           \/ Empty(f) = {} /\ t = OldestOf(f, Exported(f)) /\ t \in Exported(f)
<1>1. Exported(f) \in SUBSET Slots
  BY DEF Exported, Valid
<1> QED
  BY <1>1, OldestIn DEF Targets

\* Arithmetic of generations.
LEMMA Increment ==
    /\ \A n \in 0 .. MaxGen : n < MaxGen => n + 1 \in 0 .. MaxGen
    /\ \A n, l \in Nat : n >= l => n + 1 > l
OBVIOUS

\* Every step keeps the types.
LEMMA TypeStep == TypeInv /\ [Next]_vars => TypeInv'
<1> SUFFICES ASSUME TypeInv, [Next]_vars PROVE TypeInv'
  OBVIOUS
<1> USE DEF TypeInv, TypeOK
<1>1. Recovered \in [Slots -> Slot]
  BY RecoveredType
<1>2. CASE PersistBegin
  <2>1. nextGen' \in 0 .. MaxGen /\ nextId' \in 0 .. (IdMod - 1)
    BY <1>2, RecoverType DEF PersistBegin
  <2>2. Allocated(Recovered, nextId') \in 0 .. (IdMod - 1)
    BY <1>1, <2>1, AllocatedFree
  <2>3. target' \in Slots
    BY <1>1, <1>2, TargetIn DEF PersistBegin, Empty, Exported, Valid
  <2>4. new' \in [gen : 0 .. MaxGen, id : 0 .. (IdMod - 1)]
    <3>1. new' = [gen |-> nextGen' + 1, id |-> Allocated(Recovered, nextId')]
      BY <1>2 DEF PersistBegin
    <3>2. nextGen' < MaxGen
      BY <1>2 DEF PersistBegin
    <3>4. nextGen' + 1 \in 0 .. MaxGen
      BY <2>1, <3>2, Increment
    <3> DEFINE g == nextGen' + 1
               d == Allocated(Recovered, nextId')
    <3>3. new' = [gen |-> g, id |-> d]
      BY <3>1
    <3> HIDE DEF g, d
    <3> QED
      BY <2>2, <3>3, <3>4 DEF g, d
  <2>5. slots' \in [Slots -> Slot]
    BY <1>1, <1>2, <2>3 DEF PersistBegin, Cleared, Slot
  <2>6. pc' = "cleared" /\ UNCHANGED <<held, heldGen, last>>
    BY <1>2 DEF PersistBegin
  <2> QED
    BY <2>1, <2>3, <2>4, <2>5, <2>6 DEF Slots
<1>3. CASE PersistRefused \/ Lookup
  <2>1. nextGen' \in 0 .. MaxGen /\ nextId' \in 0 .. (IdMod - 1)
    BY <1>3, RecoverType DEF PersistRefused, Lookup
  <2> QED
    BY <1>1, <1>3, <2>1 DEF PersistRefused, Lookup
<1>4. CASE WriteHeader
  <2>1. slots[target] \in Slot /\ new.gen \in 0 .. MaxGen /\ new.id \in 0 .. (IdMod - 1)
    BY <1>4 DEF WriteHeader, WriteSlot
  <2> QED
    BY <1>4, <2>1 DEF WriteHeader, WriteSlot, Slot
<1>5. CASE WritePayload \/ WriteCommitted \/ WriteMarker
  <2>1. slots[target] \in Slot /\ new.gen \in 0 .. MaxGen /\ target \in Slots
    BY <1>5 DEF WritePayload, WriteCommitted, WriteMarker, WriteSlot
  <2>2. CASE WritePayload
    BY <2>1, <2>2 DEF WritePayload, WriteSlot, Slot
  <2>3. CASE WriteCommitted
    BY <2>1, <2>3 DEF WriteCommitted, WriteSlot, Slot
  <2>4. CASE WriteMarker
    BY <2>1, <2>4 DEF WriteMarker, WriteSlot, Slot
  <2> QED
    BY <1>5, <2>2, <2>3, <2>4
<1>6. CASE PersistReturn \/ PersistFail \/ ExportAbort
  BY <1>6 DEF PersistReturn, PersistFail, ExportAbort, NoHeader
<1>7. CASE ReadMeta
  <2>1. nextGen' \in 0 .. MaxGen /\ nextId' \in 0 .. (IdMod - 1)
    BY <1>7, RecoverType DEF ReadMeta
  <2>2. Selected(Recovered) \in Slots
    BY <1>1, <1>7, OldestIn DEF ReadMeta, Selected, Pending, Valid
  <2>3. Recovered[Selected(Recovered)] \in Slot
    BY <1>1, <2>2
  <2>4. held' \in 0 .. (IdMod - 1) /\ heldGen' \in 0 .. MaxGen
    BY <1>7, <2>3 DEF ReadMeta, Slot
  <2> QED
    BY <1>1, <1>7, <2>1, <2>4 DEF ReadMeta
<1>8. CASE MarkExported
  <2>1. nextGen' \in 0 .. MaxGen /\ nextId' \in 0 .. (IdMod - 1)
    BY <1>8, RecoverType DEF MarkExported
  <2>2. PICK i \in Slots : slots' = [Recovered EXCEPT ![i].export = "EXPORTED"]
    BY <1>8 DEF MarkExported, Pending, Valid
  <2>3. slots' \in [Slots -> Slot]
    <3>1. Recovered[i] \in Slot
      BY <1>1
    <3>2. [Recovered[i] EXCEPT !.export = "EXPORTED"] \in Slot
      BY <3>1 DEF Slot
    <3>3. slots' = [Recovered EXCEPT ![i] = [Recovered[i] EXCEPT !.export = "EXPORTED"]]
      BY <2>2
    <3> QED
      BY <1>1, <3>2, <3>3
  <2> QED
    BY <1>8, <2>1, <2>3 DEF MarkExported
<1>9. CASE Restart
  <2>1. nextGen' \in 0 .. MaxGen /\ nextId' \in 0 .. (IdMod - 1)
    BY <1>9, RecoverType DEF Restart
  <2> QED
    BY <1>1, <1>9, <2>1 DEF Restart, NoHeader
<1>10. CASE UNCHANGED vars
  BY <1>10 DEF vars
<1> QED
  BY <1>2, <1>3, <1>4, <1>5, <1>6, <1>7, <1>8, <1>9, <1>10 DEF Next

\* Power-up.
LEMMA TypeInit == Init => TypeInv
BY DEF Init, TypeInv, TypeOK, Slot, Cleared, NoHeader

\* Every state is well typed, for every number of slots and ids.
THEOREM TypeCorrect == Spec => []TypeOK
<1>1. Spec => []TypeInv
  BY TypeInit, TypeStep, PTL DEF Spec
<1>2. TypeInv => TypeOK
  BY DEF TypeInv
<1> QED
  BY <1>1, <1>2, PTL

\* SlotCount + 1 candidates are always enough to find an unused id.
THEOREM IdAlwaysFoundHolds == Spec => []IdAlwaysFound
<1>1. ASSUME TypeOK, NEW n \in 0 .. (IdMod - 1)
      PROVE  Free(slots, n) # {} /\ \A k \in Free(slots, n) : Candidates(n)[k] # 0
  <2>1. Free(slots, n) # {}
    BY <1>1, FreeExists DEF TypeOK
  <2>2. \A k \in Free(slots, n) : Candidates(n)[k] \in 1 .. (IdMod - 1)
    BY CandidatesDiffer DEF Free
  <2> QED
    BY <2>1, <2>2
<1>2. TypeOK => IdAlwaysFound
  BY <1>1 DEF IdAlwaysFound
<1> QED
  BY <1>2, TypeCorrect, PTL
-----------------------------------------------------------------------------
(* What the slots hold *)

\* The slot holds what persist() has written so far.
Written(tx, payload, marker) ==
    LET s == slots[target] IN
    /\ s.magic /\ s.gen = new.gen /\ s.id = new.id /\ s.export = "PENDING"
    /\ s.tx = tx /\ s.payload = payload /\ s.marker = marker

\* What the slot holds at each step of persist(), and that the record coming is
\* newer than all and has an id of its own.
TargetInv ==
    /\ pc = "cleared" => slots[target] = Cleared
    /\ pc = "header" => Written("WRITING", "none", FALSE)
    /\ pc = "copying" => Written("WRITING", "part", FALSE)
    /\ pc = "payload" => Written("WRITING", "whole", FALSE)
    /\ pc = "committed" => Written("COMMITTED", "whole", FALSE)
    /\ pc \notin {"idle", "marked"} =>
         new.gen > last /\ \A i \in Valid(slots) : new.id # slots[i].id

\* The live records, and the newest one ever committed among them.
OrderInv ==
    /\ \A i \in Valid(slots) : slots[i].export # "NONE" /\ slots[i].gen <= last
    /\ \A i, j \in Valid(slots) :
         i # j => slots[i].gen # slots[j].gen /\ slots[i].id # slots[j].id
    /\ \A i \in Exported(slots), j \in Pending(slots) : slots[i].gen < slots[j].gen
    /\ \/ Valid(slots) = {} /\ last = 0
       \/ \E i \in Valid(slots) : slots[i].gen = last

\* The record the exporter works on is still the oldest pending one.
HeldInv ==
    held # 0 => \E i \in Pending(slots) :
                  /\ slots[i].id = held /\ slots[i].gen = heldGen
                  /\ \A j \in Pending(slots) : slots[i].gen <= slots[j].gen

JournalInv == TypeInv /\ TargetInv /\ OrderInv /\ HeldInv

\* A step that leaves the valid slots as they are.
SameRecords ==
    \A i \in Slots : /\ SlotValid(slots'[i]) <=> SlotValid(slots[i])
                     /\ SlotValid(slots[i]) => slots'[i] = slots[i]

\* Such a step changes nothing that counts.
LEMMA SameSets ==
    ASSUME SameRecords
    PROVE  /\ Valid(slots)' = Valid(slots) /\ Pending(slots)' = Pending(slots)
           /\ Exported(slots)' = Exported(slots)
           /\ \A i \in Valid(slots) : slots'[i] = slots[i]
           /\ Records' = Records
<1>1. Valid(slots)' = Valid(slots) /\ \A i \in Valid(slots) : slots'[i] = slots[i]
  BY DEF SameRecords, Valid
<1>2. Pending(slots)' = Pending(slots) /\ Exported(slots)' = Exported(slots)
  BY <1>1 DEF Pending, Exported
<1>3. Records' = Records
  BY <1>1 DEF Records
<1> QED
  BY <1>1, <1>2, <1>3

\* Recovery discards incomplete slots only.
LEMMA RecoveredSame ==
    ASSUME TypeOK, OrderInv
    PROVE  /\ Valid(Recovered) = Valid(slots)
           /\ Pending(Recovered) = Pending(slots)
           /\ Exported(Recovered) = Exported(slots)
           /\ \A i \in Valid(slots) : Recovered[i] = slots[i]
           /\ \A i \in Slots : i \in Valid(slots) \/ Recovered[i].tx = "EMPTY"
           /\ slots' = Recovered => SameRecords
<1>1. \A i \in Slots : IF SlotValid(slots[i]) THEN Recovered[i] = slots[i]
                       ELSE Recovered[i].tx = "EMPTY" /\ ~ SlotValid(Recovered[i])
  <2> TAKE i \in Slots
  <2>1. Recovered[i] = RecoverSlot(slots[i])
    BY DEF Recovered
  <2>2. SlotValid(slots[i]) => slots[i].export # "NONE"
    BY DEF OrderInv, Valid
  <2> QED
    BY <2>1, <2>2 DEF RecoverSlot, SlotValid, Cleared
<1>2. Valid(Recovered) = Valid(slots)
  BY <1>1 DEF Valid
<1>3. \A i \in Valid(slots) : Recovered[i] = slots[i]
  BY <1>1 DEF Valid
<1>4. Pending(Recovered) = Pending(slots) /\ Exported(Recovered) = Exported(slots)
  BY <1>2, <1>3 DEF Pending, Exported
<1>5. \A i \in Slots : i \in Valid(slots) \/ Recovered[i].tx = "EMPTY"
  BY <1>1 DEF Valid
<1>6. slots' = Recovered => SameRecords
  BY <1>1 DEF SameRecords
<1> QED
  BY <1>2, <1>3, <1>4, <1>5, <1>6

\* The newest record gives the generation of the next one.
LEMMA RecoverGen ==
    ASSUME TypeOK, OrderInv, NEW gen0 \in Nat, NEW id0, Recover(gen0, id0)
    PROVE  nextGen' >= last
<1>1. CASE Valid(slots) = {}
  BY <1>1, RecoveredSame DEF Recover, OrderInv
<1>2. CASE Valid(slots) # {}
  <2> DEFINE n == NewestOf(Recovered, Valid(Recovered))
  <2>1. /\ Valid(Recovered) \in SUBSET Slots /\ Valid(Recovered) = Valid(slots)
        /\ Recovered \in [Slots -> Slot]
    BY RecoveredSame, RecoveredType DEF Valid
  <2>2. n \in Valid(slots)
        /\ \A j \in Valid(slots) : Recovered[n].gen >= Recovered[j].gen
    BY <1>2, <2>1, NewestIn
  <2>3. nextGen' = Recovered[n].gen
    BY <1>2, <2>1 DEF Recover
  <2>4. PICK i \in Valid(slots) : slots[i].gen = last
    BY <1>2 DEF OrderInv
  <2>5. Recovered[i].gen = last
    BY <2>4, RecoveredSame
  <2> HIDE DEF n
  <2> QED
    BY <2>2, <2>3, <2>4, <2>5
<1> QED
  BY <1>1, <1>2

\* It keeps the order of the records.
LEMMA SameKeeps ==
    ASSUME OrderInv, SameRecords, last' = last PROVE OrderInv'
<1>1. /\ Valid(slots)' = Valid(slots) /\ Pending(slots)' = Pending(slots)
      /\ Exported(slots)' = Exported(slots)
      /\ \A i \in Valid(slots) : slots'[i] = slots[i]
  BY SameSets
<1>2. Pending(slots) \subseteq Valid(slots) /\ Exported(slots) \subseteq Valid(slots)
  BY DEF Pending, Exported
<1> QED
  BY <1>1, <1>2 DEF OrderInv

\* It keeps the record in work.
LEMMA SameKeepsHeld ==
    ASSUME HeldInv, SameRecords, held' = held, heldGen' = heldGen PROVE HeldInv'
<1>1. Pending(slots)' = Pending(slots) /\ \A i \in Valid(slots) : slots'[i] = slots[i]
  BY SameSets
<1>2. Pending(slots) \subseteq Valid(slots)
  BY DEF Pending
<1> QED
  BY <1>1, <1>2 DEF HeldInv

\* What persist() does to the slots when it begins.
LEMMA BeginTarget ==
    ASSUME SlotCount >= 2, JournalInv, PersistBegin
    PROVE  /\ target' \in Slots /\ slots'[target'] = Cleared
           /\ Valid(slots)' = Valid(slots) \ {target'}
           /\ \A i \in Valid(slots) : i # target' => slots'[i] = slots[i]
           /\ target' \in Valid(slots) =>
                target' \in Exported(slots) /\ slots[target'].gen # last
           /\ new'.gen > last /\ \A i \in Valid(slots) : new'.id # slots[i].id
<1> USE DEF JournalInv, TypeInv
<1>1. /\ Recovered \in [Slots -> Slot] /\ slots \in [Slots -> Slot]
      /\ Valid(Recovered) = Valid(slots) /\ Exported(Recovered) = Exported(slots)
      /\ \A i \in Valid(slots) : Recovered[i] = slots[i]
      /\ \A i \in Slots : i \in Valid(slots) \/ Recovered[i].tx = "EMPTY"
      /\ last \in Nat
  BY RecoveredType, RecoveredSame DEF TypeOK
<1>2. \/ target' \in Empty(Recovered)
      \/ /\ Empty(Recovered) = {} /\ target' \in Exported(slots)
         /\ \A j \in Exported(slots) : slots[target'].gen <= slots[j].gen
  <2>1. Exported(Recovered) \in SUBSET Slots /\ Exported(slots) \subseteq Valid(slots)
    BY DEF Exported, Valid
  <2>2. \/ target' \in Empty(Recovered)
        \/ Empty(Recovered) = {} /\ target' = OldestOf(Recovered, Exported(Recovered))
           /\ target' \in Exported(Recovered)
    BY <1>1, TargetIn DEF PersistBegin
  <2>3. target' = OldestOf(Recovered, Exported(Recovered))
          /\ target' \in Exported(Recovered)
        => \A j \in Exported(Recovered) : Recovered[target'].gen <= Recovered[j].gen
    BY <1>1, <2>1, OldestIn
  <2> QED
    BY <1>1, <2>1, <2>2, <2>3
<1>3. target' \in Slots
  BY <1>2 DEF Empty, Exported, Valid
<1>4. slots' = [Recovered EXCEPT ![target'] = Cleared]
  BY DEF PersistBegin
<1>5. slots'[target'] = Cleared /\ \A i \in Slots : i # target' => slots'[i] = Recovered[i]
  BY <1>1, <1>3, <1>4
<1>6. Valid(slots)' = Valid(slots) \ {target'}
  <2>1. \A i \in Slots : SlotValid(Recovered[i]) <=> i \in Valid(slots)
    BY <1>1 DEF Valid
  <2> QED
    BY <1>3, <1>5, <2>1 DEF Valid, SlotValid, Cleared
<1>7. ASSUME target' \in Valid(slots)
      PROVE  target' \in Exported(slots) /\ slots[target'].gen # last
  <2>1. Recovered[target'].tx # "EMPTY"
    BY <1>1, <1>7 DEF Valid, SlotValid
  <2>2. /\ Empty(Recovered) = {} /\ target' \in Exported(slots)
        /\ \A j \in Exported(slots) : slots[target'].gen <= slots[j].gen
    BY <1>2, <2>1 DEF Empty
  <2>3. PICK j \in Slots : j # target'
    BY <1>3 DEF Slots
  <2>4. j \in Valid(slots)
    BY <1>1, <2>2, <2>3 DEF Empty
  <2>5. slots[j] \in Slot /\ slots[target'] \in Slot
    BY <1>1, <1>3
  <2>6. slots[j].export \in {"PENDING", "EXPORTED"}
    BY <2>4, <2>5 DEF OrderInv, Slot
  <2>7. j \in Pending(slots) \/ j \in Exported(slots)
    BY <2>4, <2>6 DEF Pending, Exported
  <2>8. slots[target'].gen < slots[j].gen
    <3>1. slots[j].gen \in Nat /\ slots[target'].gen \in Nat
      BY <2>5 DEF Slot
    <3>2. slots[target'].gen # slots[j].gen
      BY <1>7, <2>3, <2>4 DEF OrderInv
    <3> QED
      BY <2>2, <2>7, <3>1, <3>2 DEF OrderInv
  <2>9. slots[j].gen <= last /\ slots[j].gen \in Nat /\ slots[target'].gen \in Nat
    BY <2>4, <2>5 DEF OrderInv, Slot
  <2> QED
    BY <1>1, <2>2, <2>8, <2>9
<1>8. new'.gen > last /\ \A i \in Valid(slots) : new'.id # slots[i].id
  <2>1. nextGen' >= last /\ nextGen' \in Nat /\ nextId' \in 0 .. (IdMod - 1)
    BY RecoverGen, RecoverType DEF PersistBegin, TypeOK
  <2>2. Allocated(Recovered, nextId') \notin InUse(Recovered)
    BY <1>1, <2>1, AllocatedFree
  <2>3. new'.gen = nextGen' + 1 /\ new'.id = Allocated(Recovered, nextId')
    BY DEF PersistBegin
  <2>4. \A i \in Valid(slots) : Recovered[i].id \in InUse(Recovered)
    BY <1>1 DEF InUse
  <2>5. new'.gen > last
    <3>1. nextGen' + 1 > last
      BY <1>1, <2>1, Increment
    <3> QED
      BY <2>3, <3>1
  <2>6. \A i \in Valid(slots) : new'.id # slots[i].id
    BY <1>1, <2>2, <2>3, <2>4
  <2> QED
    BY <2>5, <2>6
<1> QED
  BY <1>1, <1>3, <1>5, <1>6, <1>7, <1>8 DEF Valid

\* The invariant survives the reclaiming of a record.
LEMMA BeginStep ==
    ASSUME SlotCount >= 2, JournalInv, PersistBegin PROVE JournalInv'
<1> DEFINE V == Valid(slots)
<1>1. /\ target' \in Slots /\ slots'[target'] = Cleared
      /\ Valid(slots)' = V \ {target'}
      /\ \A i \in V : i # target' => slots'[i] = slots[i]
      /\ target' \in V => target' \in Exported(slots) /\ slots[target'].gen # last
      /\ new'.gen > last /\ \A i \in V : new'.id # slots[i].id
  BY BeginTarget
<1>2. pc' = "cleared" /\ last' = last /\ held' = held /\ heldGen' = heldGen
  BY DEF PersistBegin
<1>3. TypeInv'
  BY TypeStep DEF JournalInv, Next
<1>4. TargetInv'
  BY <1>1, <1>2 DEF TargetInv
<1>5. Pending(slots)' = Pending(slots) /\ Exported(slots)' = Exported(slots) \ {target'}
  BY <1>1 DEF Pending, Exported
<1>6. OrderInv'
  <2>3. Pending(slots) \subseteq V /\ Exported(slots) \subseteq V
        /\ target' \notin Pending(slots)
    BY <1>1 DEF Pending, Exported
  <2>4. V = {} \/ \E i \in V : slots[i].gen = last
    BY DEF JournalInv, OrderInv
  <2>5. \/ Valid(slots)' = {} /\ last' = 0
        \/ \E i \in Valid(slots)' : slots'[i].gen = last'
    <3>1. CASE V = {}
      BY <1>1, <1>2, <3>1 DEF JournalInv, OrderInv
    <3>2. CASE V # {}
      <4>1. PICK i \in V : slots[i].gen = last
        BY <2>4, <3>2
      <4>2. i # target'
        BY <1>1, <4>1
      <4> QED
        BY <1>1, <1>2, <4>1, <4>2
    <3> QED
      BY <3>1, <3>2
  <2>6. \A i \in Valid(slots)' : i \in V /\ slots'[i] = slots[i]
    BY <1>1
  <2> HIDE DEF V
  <2>7. \A i \in Valid(slots)' : slots'[i].export # "NONE" /\ slots'[i].gen <= last'
    BY <1>2, <2>6 DEF JournalInv, OrderInv, V
  <2>8. \A i, j \in Valid(slots)' :
          i # j => slots'[i].gen # slots'[j].gen /\ slots'[i].id # slots'[j].id
    BY <2>6 DEF JournalInv, OrderInv, V
  <2>9. \A i \in Exported(slots)', j \in Pending(slots)' : slots'[i].gen < slots'[j].gen
    BY <1>1, <1>5, <2>3 DEF JournalInv, OrderInv
  <2> QED
    BY <2>5, <2>7, <2>8, <2>9 DEF OrderInv
<1>7. HeldInv'
  <2>1. \A i \in Pending(slots) : slots'[i] = slots[i]
    BY <1>1 DEF Pending, Exported
  <2> QED
    BY <1>2, <1>5, <2>1 DEF HeldInv, JournalInv
<1> QED
  BY <1>3, <1>4, <1>6, <1>7 DEF JournalInv

\* A step that leaves the valid slots, the newest generation and the exporter.
LEMMA QuietStep ==
    ASSUME JournalInv, TypeInv', TargetInv', SameRecords,
           UNCHANGED <<held, heldGen, last>>
    PROVE  JournalInv'
BY SameKeeps, SameKeepsHeld DEF JournalInv

\* Header, payload and transaction state go into a slot that is not valid.
LEMMA WriteStep ==
    ASSUME JournalInv, WriteHeader \/ WritePayload \/ WriteCommitted
    PROVE  JournalInv' /\ SameRecords
<1> USE DEF JournalInv, TypeInv
<1>1. /\ target \in Slots /\ slots \in [Slots -> Slot] /\ slots[target] \in Slot
      /\ UNCHANGED <<target, new, held, heldGen, last>>
  BY DEF WriteHeader, WritePayload, WriteCommitted, WriteSlot, TypeOK
<1>2. \/ pc = "cleared" /\ pc' = "header" /\ Written("WRITING", "none", FALSE)'
      \/ pc = "header" /\ pc' = "copying" /\ Written("WRITING", "part", FALSE)'
      \/ pc = "copying" /\ pc' = "payload" /\ Written("WRITING", "whole", FALSE)'
      \/ pc = "payload" /\ pc' = "committed" /\ Written("COMMITTED", "whole", FALSE)'
  <2>1. CASE WriteHeader
    BY <1>1, <2>1 DEF WriteHeader, WriteSlot, TargetInv, Written, Cleared, Slot
  <2>2. CASE WritePayload
    BY <1>1, <2>2 DEF WritePayload, WriteSlot, TargetInv, Written, Slot
  <2>3. CASE WriteCommitted
    BY <1>1, <2>3 DEF WriteCommitted, WriteSlot, TargetInv, Written, Slot
  <2> QED
    BY <2>1, <2>2, <2>3
<1>3. SameRecords
  <2>1. \A i \in Slots : i # target => slots'[i] = slots[i]
    BY <1>1 DEF WriteHeader, WritePayload, WriteCommitted, WriteSlot
  <2>2. ~ SlotValid(slots[target]) /\ ~ SlotValid(slots'[target])
    BY <1>1, <1>2 DEF TargetInv, SlotValid, Written, Cleared
  <2> QED
    BY <1>1, <2>1, <2>2 DEF SameRecords
<1>4. Valid(slots)' = Valid(slots) /\ \A i \in Valid(slots) : slots'[i] = slots[i]
  BY <1>3, SameSets
<1>5. TypeInv'
  BY TypeStep DEF Next
<1>6. TargetInv'
  <2>1. new'.gen > last' /\ \A i \in Valid(slots)' : new'.id # slots'[i].id
    BY <1>1, <1>2, <1>4 DEF TargetInv
  <2> QED
    BY <1>2, <2>1 DEF TargetInv
<1> QED
  BY <1>1, <1>3, <1>5, <1>6, QuietStep

\* The commit marker makes the new record valid, at once and whole.
LEMMA MarkerRecords ==
    ASSUME JournalInv, WriteMarker
    PROVE  /\ target \in Slots \ Valid(slots)
           /\ Valid(slots)' = Valid(slots) \union {target}
           /\ Pending(slots)' = Pending(slots) \union {target}
           /\ Exported(slots)' = Exported(slots)
           /\ \A i \in Valid(slots) : slots'[i] = slots[i]
           /\ slots'[target].gen = new.gen /\ slots'[target].id = new.id
           /\ slots'[target].export = "PENDING"
<1> USE DEF JournalInv, TypeInv
<1>1. /\ target \in Slots /\ slots \in [Slots -> Slot] /\ slots[target] \in Slot
      /\ slots' = [slots EXCEPT ![target] = [slots[target] EXCEPT !.marker = TRUE]]
      /\ Written("COMMITTED", "whole", FALSE)
  BY DEF WriteMarker, WriteSlot, TypeOK, TargetInv
<1>2. /\ slots'[target].gen = new.gen /\ slots'[target].id = new.id
      /\ slots'[target].export = "PENDING"
  BY <1>1 DEF Written, Slot
<1>3. \A i \in Slots : i # target => slots'[i] = slots[i]
  BY <1>1
<1>4. ~ SlotValid(slots[target]) /\ SlotValid(slots'[target])
  BY <1>1 DEF SlotValid, Written, Slot
<1>5. target \notin Valid(slots) /\ Valid(slots)' = Valid(slots) \union {target}
  BY <1>1, <1>3, <1>4 DEF Valid
<1>6. \A i \in Valid(slots) : slots'[i] = slots[i]
  BY <1>3, <1>5 DEF Valid
<1>7. Pending(slots)' = Pending(slots) \union {target}
      /\ Exported(slots)' = Exported(slots)
  BY <1>2, <1>5, <1>6 DEF Pending, Exported
<1> QED
  BY <1>1, <1>2, <1>5, <1>6, <1>7

\* The invariant survives the storing of a record.
LEMMA MarkerStep == ASSUME JournalInv, WriteMarker PROVE JournalInv'
<1> USE DEF JournalInv
<1>1. /\ target \in Slots \ Valid(slots)
      /\ Valid(slots)' = Valid(slots) \union {target}
      /\ Pending(slots)' = Pending(slots) \union {target}
      /\ Exported(slots)' = Exported(slots)
      /\ \A i \in Valid(slots) : slots'[i] = slots[i]
      /\ slots'[target].gen = new.gen /\ slots'[target].id = new.id
      /\ slots'[target].export = "PENDING"
  BY MarkerRecords
<1>2. /\ pc' = "marked" /\ last' = new.gen /\ held' = held /\ heldGen' = heldGen
      /\ new.gen > last /\ \A i \in Valid(slots) : new.id # slots[i].id
  BY DEF WriteMarker, WriteSlot, TargetInv
<1>3. TypeInv'
  BY TypeStep DEF Next
<1>4. TargetInv'
  BY <1>2 DEF TargetInv
<1>5. /\ \A i \in Valid(slots) : slots[i].gen \in Nat /\ slots[i].gen < new.gen
      /\ last \in Nat /\ new.gen \in Nat
  BY <1>2 DEF OrderInv, Valid, TypeInv, TypeOK, Slot
<1>6. Pending(slots) \subseteq Valid(slots) /\ Exported(slots) \subseteq Valid(slots)
  BY DEF Pending, Exported
<1>7. OrderInv'
  <2>1. \A i \in Valid(slots)' : slots'[i].export # "NONE" /\ slots'[i].gen <= last'
    BY <1>1, <1>2, <1>5 DEF OrderInv
  <2>2. \A i, j \in Valid(slots)' :
          i # j => slots'[i].gen # slots'[j].gen /\ slots'[i].id # slots'[j].id
    BY <1>1, <1>2, <1>5 DEF OrderInv
  <2>3. \A i \in Exported(slots)', j \in Pending(slots)' : slots'[i].gen < slots'[j].gen
    BY <1>1, <1>5, <1>6 DEF OrderInv
  <2>4. \E i \in Valid(slots)' : slots'[i].gen = last'
    BY <1>1, <1>2
  <2> QED
    BY <2>1, <2>2, <2>3, <2>4 DEF OrderInv
<1>8. HeldInv'
  BY <1>1, <1>2, <1>5, <1>6 DEF HeldInv
<1> QED
  BY <1>3, <1>4, <1>7, <1>8

\* Marking the held record exported leaves the pending ones newer than it.
LEMMA ExportRecords ==
    ASSUME JournalInv, MarkExported
    PROVE  \E i \in Pending(slots) :
             /\ \A j \in Pending(slots) : slots[i].gen <= slots[j].gen
             /\ slots'[i] = [slots[i] EXCEPT !.export = "EXPORTED"]
             /\ \A j \in Valid(slots) : j # i => slots'[j] = slots[j]
             /\ Valid(slots)' = Valid(slots)
             /\ Pending(slots)' = Pending(slots) \ {i}
             /\ Exported(slots)' = Exported(slots) \union {i}
<1> USE DEF JournalInv, TypeInv
<1>1. /\ Recovered \in [Slots -> Slot] /\ Pending(Recovered) = Pending(slots)
      /\ Valid(Recovered) = Valid(slots)
      /\ \A i \in Valid(slots) : Recovered[i] = slots[i]
  BY RecoveredType, RecoveredSame
<1>2. PICK i \in Pending(slots) :
        /\ Recovered[i].id = held
        /\ slots' = [Recovered EXCEPT ![i].export = "EXPORTED"]
  BY <1>1 DEF MarkExported
<1>3. i \in Valid(slots) /\ i \in Slots /\ slots[i].export = "PENDING"
  BY DEF Pending, Valid
<1>4. PICK h \in Pending(slots) :
        slots[h].id = held /\ \A j \in Pending(slots) : slots[h].gen <= slots[j].gen
  BY DEF MarkExported, HeldInv
<1>5. i = h
  BY <1>1, <1>2, <1>3, <1>4 DEF OrderInv, Pending
<1>6. slots' = [Recovered EXCEPT ![i] = [slots[i] EXCEPT !.export = "EXPORTED"]]
  BY <1>1, <1>2, <1>3
<1>7. slots'[i] = [slots[i] EXCEPT !.export = "EXPORTED"]
      /\ \A j \in Slots : j # i => slots'[j] = Recovered[j]
  BY <1>1, <1>3, <1>6
<1>8. \A j \in Slots : SlotValid(slots'[j]) <=> j \in Valid(slots)
  <2>1. slots[i] \in Slot
    BY <1>3 DEF TypeOK
  <2>2. SlotValid(slots'[i]) <=> SlotValid(slots[i])
    BY <1>7, <2>1 DEF SlotValid, Slot
  <2>3. \A j \in Slots : SlotValid(Recovered[j]) <=> j \in Valid(slots)
    BY <1>1 DEF Valid
  <2> QED
    BY <1>3, <1>7, <2>2, <2>3 DEF Valid
<1>9. Valid(slots)' = Valid(slots)
  BY <1>8 DEF Valid
<1>10. \A j \in Valid(slots) : j # i => slots'[j] = slots[j]
  BY <1>1, <1>7 DEF Valid
<1>11. slots'[i].export = "EXPORTED"
  <2>1. slots[i] \in Slot
    BY <1>3 DEF TypeOK
  <2> QED
    BY <1>7, <2>1 DEF Slot
<1>12. Pending(slots)' = Pending(slots) \ {i}
       /\ Exported(slots)' = Exported(slots) \union {i}
  BY <1>3, <1>9, <1>10, <1>11 DEF Pending, Exported
<1> QED
  BY <1>4, <1>5, <1>7, <1>9, <1>10, <1>12

\* The invariant survives the marking of a record.
LEMMA ExportStep == ASSUME JournalInv, MarkExported PROVE JournalInv'
<1> USE DEF JournalInv
<1>1. PICK i \in Pending(slots) :
        /\ \A j \in Pending(slots) : slots[i].gen <= slots[j].gen
        /\ slots'[i] = [slots[i] EXCEPT !.export = "EXPORTED"]
        /\ \A j \in Valid(slots) : j # i => slots'[j] = slots[j]
        /\ Valid(slots)' = Valid(slots)
        /\ Pending(slots)' = Pending(slots) \ {i}
        /\ Exported(slots)' = Exported(slots) \union {i}
  BY ExportRecords
<1>2. slots[i] \in Slot /\ i \in Valid(slots)
  BY DEF Pending, Valid, TypeInv, TypeOK
<1>3. /\ slots'[i].gen = slots[i].gen /\ slots'[i].id = slots[i].id
      /\ slots'[i].export = "EXPORTED"
  BY <1>1, <1>2 DEF Slot
<1>4. pc = "idle" /\ pc' = "idle" /\ last' = last /\ held' = 0
  BY DEF MarkExported
<1>5. \A j \in Valid(slots) : slots'[j].gen = slots[j].gen /\ slots'[j].id = slots[j].id
        /\ (slots[j].export # "NONE" => slots'[j].export # "NONE")
  BY <1>1, <1>3
<1>6. Pending(slots) \subseteq Valid(slots) /\ Exported(slots) \subseteq Valid(slots)
      /\ \A j \in Valid(slots) : slots[j].gen \in Nat
  BY DEF Pending, Exported, Valid, TypeInv, TypeOK, Slot
<1>7. \A j \in Pending(slots) : j # i => slots[i].gen < slots[j].gen
  BY <1>1, <1>2, <1>6 DEF OrderInv
<1>8. OrderInv'
  <2>1. \A j \in Exported(slots)', k \in Pending(slots)' : slots'[j].gen < slots'[k].gen
    BY <1>1, <1>5, <1>6, <1>7 DEF OrderInv
  <2> QED
    BY <1>1, <1>4, <1>5, <2>1 DEF OrderInv
<1>9. TypeInv' /\ TargetInv' /\ HeldInv'
  BY <1>4, TypeStep DEF Next, TargetInv, HeldInv
<1> QED
  BY <1>8, <1>9

\* read_meta() takes the oldest pending record.
LEMMA ReadStep == ASSUME JournalInv, ReadMeta PROVE JournalInv' /\ SameRecords
<1> USE DEF JournalInv, TypeInv
<1>1. /\ Recovered \in [Slots -> Slot] /\ Pending(Recovered) = Pending(slots)
      /\ \A i \in Valid(slots) : Recovered[i] = slots[i]
      /\ slots' = Recovered /\ SameRecords
  BY RecoveredType, RecoveredSame DEF ReadMeta
<1>2. pc = "idle" /\ pc' = "idle" /\ last' = last
  BY DEF ReadMeta
<1>3. TypeInv' /\ TargetInv' /\ OrderInv'
  BY <1>1, <1>2, TypeStep, SameKeeps DEF Next, TargetInv
<1>4. HeldInv'
  <2> DEFINE s == Selected(Recovered)
  <2>1. Pending(Recovered) \in SUBSET Slots /\ Pending(slots) \subseteq Valid(slots)
    BY DEF Pending, Valid
  <2>2. s \in Pending(slots)
        /\ \A j \in Pending(slots) : Recovered[s].gen <= Recovered[j].gen
    BY <1>1, <2>1, OldestIn DEF ReadMeta, Selected
  <2>3. held' = Recovered[s].id /\ heldGen' = Recovered[s].gen
    BY DEF ReadMeta
  <2>4. Pending(slots)' = Pending(slots)
    BY <1>1, SameSets
  <2> HIDE DEF s
  <2> QED
    BY <1>1, <2>2, <2>3, <2>4 DEF HeldInv
<1> QED
  BY <1>1, <1>3, <1>4

\* The other calls recover, give up, or lose volatile state.
LEMMA OtherStep ==
    ASSUME JournalInv,
           \/ PersistRefused \/ PersistReturn \/ PersistFail \/ Lookup
           \/ ExportAbort \/ Restart \/ UNCHANGED vars
    PROVE  JournalInv' /\ SameRecords /\ last' = last
<1> USE DEF JournalInv, TypeInv
<1>1. slots' = Recovered => SameRecords
  BY RecoveredSame
<1>2. slots' = slots => SameRecords
  BY DEF SameRecords
<1>3. SameRecords /\ last' = last
  BY <1>1, <1>2 DEF PersistRefused, PersistReturn, PersistFail, Lookup, ExportAbort,
     Restart, vars
<1>4. TypeInv'
  BY TypeStep DEF Next
<1>5. TargetInv'
  BY DEF TargetInv, PersistRefused, PersistReturn, PersistFail, Lookup, ExportAbort,
     Restart, vars, Written
<1>6. OrderInv'
  BY <1>3, SameKeeps
<1>7. HeldInv'
  <2>1. CASE held' = 0
    BY <2>1 DEF HeldInv
  <2>2. CASE held' = held /\ heldGen' = heldGen
    BY <1>3, <2>2, SameKeepsHeld
  <2> QED
    BY <2>1, <2>2 DEF PersistRefused, PersistReturn, PersistFail, Lookup, ExportAbort,
       Restart, vars
<1> QED
  BY <1>3, <1>4, <1>5, <1>6, <1>7

\* Every step keeps the invariant.
LEMMA JournalStep ==
    ASSUME SlotCount >= 2, JournalInv, [Next]_vars PROVE JournalInv'
BY BeginStep, WriteStep, MarkerStep, ExportStep, ReadStep, OtherStep DEF Next

\* Power-up: an empty store.
LEMMA JournalInit == Init => JournalInv
<1> SUFFICES ASSUME Init PROVE JournalInv
  OBVIOUS
<1>1. Valid(slots) = {}
  BY DEF Init, Valid, SlotValid, Cleared
<1> QED
  BY <1>1, TypeInit DEF Init, JournalInv, TargetInv, OrderInv, HeldInv, Exported,
     Pending

\* The inductive invariant holds of a journal of two slots or more.
THEOREM JournalInvariant == ASSUME SlotCount >= 2 PROVE Spec => []JournalInv
BY JournalInit, JournalStep, PTL DEF Spec

\* The id the exporter holds names the record it read, whatever is stored in the
\* meantime and however often ids wrap around.
THEOREM HeldIdStableHolds == ASSUME SlotCount >= 2 PROVE Spec => []HeldIdStable
<1>1. JournalInv => HeldIdStable
  BY DEF JournalInv, HeldInv, HeldIdStable
<1> QED
  BY <1>1, JournalInvariant, PTL
-----------------------------------------------------------------------------
(* The slots implement an atomic store of records *)

\* The record slot i of f holds.
RecordOf(f, i) ==
    [gen |-> f[i].gen, id |-> f[i].id, exported |-> f[i].export = "EXPORTED"]

\* The records of the contract, by slot.
LEMMA RecordsAre == Records = {RecordOf(slots, i) : i \in Valid(slots)}
BY DEF Records, RecordOf

\* There are never more records than slots.
LEMMA RecordsFit ==
    ASSUME NEW f \in [Slots -> Slot]
    PROVE  Cardinality({RecordOf(f, i) : i \in Valid(f)}) <= SlotCount
<1> DEFINE S == Valid(f)
           R == {RecordOf(f, i) : i \in S}
           g == [i \in S |-> RecordOf(f, i)]
<1>1. IsFiniteSet(Slots) /\ Cardinality(Slots) = SlotCount
  BY FS_Interval DEF Slots
<1>2. IsFiniteSet(S) /\ Cardinality(S) <= SlotCount /\ Cardinality(S) \in Nat
  BY <1>1, FS_Subset, FS_CardinalityType DEF Valid
<1>3. g \in Surjection(S, R)
  BY DEF Surjection
<1>4. /\ IsFiniteSet(R) /\ Cardinality(R) <= Cardinality(S)
      /\ Cardinality(R) \in Nat
  <2> HIDE DEF g, S, R
  <2> QED
    BY <1>2, <1>3, FS_Surjection, FS_CardinalityType
<1> QED
  BY <1>2, <1>4

\* persist() begins: an exported record that is not the newest goes, or nothing
\* that counts.
LEMMA BeginContract ==
    ASSUME SlotCount >= 2, JournalInv, PersistBegin
    PROVE  \/ UNCHANGED <<Records, last>>
           \/ \E r \in Records : Contract!Forget(r)
<1> DEFINE V == Valid(slots)
           t == target'
<1>1. /\ Valid(slots)' = V \ {t} /\ \A i \in V : i # t => slots'[i] = slots[i]
      /\ t \in V => t \in Exported(slots) /\ slots[t].gen # last
  BY BeginTarget
<1>2. last' = last
  BY DEF PersistBegin
<1>3. Records' = {RecordOf(slots, i) : i \in V \ {t}}
  BY <1>1 DEF Records, RecordOf
<1>4. CASE t \notin V
  <2>1. V \ {t} = V
    BY <1>4
  <2> QED
    BY <1>2, <1>3, <2>1, RecordsAre
<1>5. CASE t \in V
  <2> DEFINE r == RecordOf(slots, t)
  <2>1. r \in Records
    BY <1>5, RecordsAre
  <2>2. r.exported /\ r.gen # last
    BY <1>1, <1>5 DEF RecordOf, Exported
  <2>3. \A i \in V \ {t} : RecordOf(slots, i) # r
    BY <1>5 DEF RecordOf, JournalInv, OrderInv
  <2>4. Records' = Records \ {r}
    <3> HIDE DEF r
    <3>1. RecordOf(slots, t) = r
      BY DEF r
    <3> QED
      BY <1>3, <1>5, <2>3, <3>1, RecordsAre
  <2> HIDE DEF r
  <2> QED
    BY <1>2, <2>1, <2>2, <2>4 DEF Contract!Forget
<1> QED
  BY <1>4, <1>5

\* The commit marker stores a record that is newer than all and has its own id.
LEMMA MarkerContract ==
    ASSUME JournalInv, WriteMarker
    PROVE  \E r \in Records' : Contract!Store(r)
<1> DEFINE V == Valid(slots)
           r == RecordOf(slots, target)'
<1>1. /\ Valid(slots)' = V \union {target}
      /\ \A i \in V : slots'[i] = slots[i]
      /\ slots'[target].gen = new.gen /\ slots'[target].id = new.id
      /\ slots'[target].export = "PENDING"
  BY MarkerRecords
<1>2. target' = target /\ last' = new.gen
      /\ new.gen > last /\ \A i \in V : new.id # slots[i].id
  BY DEF WriteMarker, WriteSlot, JournalInv, TargetInv
<1>3. r = [gen |-> new.gen, id |-> new.id, exported |-> FALSE]
  BY <1>1, <1>2 DEF RecordOf
<1>4. Records' = Records \union {r}
  <2>1. \A i \in V : RecordOf(slots, i)' = RecordOf(slots, i)
    BY <1>1 DEF RecordOf
  <2>2. Records' = {RecordOf(slots, i)' : i \in V \union {target}}
    BY <1>1 DEF Records, RecordOf
  <2>3. RecordOf(slots, target)' = r
    OBVIOUS
  <2> HIDE DEF r, V
  <2>4. Records = {RecordOf(slots, i) : i \in V}
    BY RecordsAre DEF V
  <2> QED
    BY <2>1, <2>2, <2>3, <2>4, <1>2
<1>5. Contract!Cardinality(Records') <= SlotCount
  <2>1. slots' \in [Slots -> Slot]
    BY TypeStep DEF JournalInv, TypeInv, TypeOK, Next
  <2>2. Records' = {RecordOf(slots', i) : i \in Valid(slots')}
    BY DEF Records, RecordOf, Valid
  <2>3. Contract!Cardinality(Records') = Cardinality(Records')
    BY DEF Contract!Cardinality, Cardinality
  <2> QED
    BY <2>1, <2>2, <2>3, RecordsFit
<1>6. \A o \in Records : o.id # r.id
  BY <1>2, <1>3, RecordsAre DEF RecordOf
<1>7. ~ r.exported /\ r.gen > last /\ last' = r.gen
  BY <1>2, <1>3
<1> HIDE DEF r
<1> QED
  BY <1>4, <1>5, <1>6, <1>7 DEF Contract!Store

\* Marking exported is for the oldest record not exported yet.
LEMMA ExportContract ==
    ASSUME JournalInv, MarkExported
    PROVE  \E r \in Records : Contract!Export(r)
<1> DEFINE V == Valid(slots)
<1>1. PICK i \in Pending(slots) :
        /\ \A j \in Pending(slots) : slots[i].gen <= slots[j].gen
        /\ slots'[i] = [slots[i] EXCEPT !.export = "EXPORTED"]
        /\ \A j \in V : j # i => slots'[j] = slots[j]
        /\ Valid(slots)' = V
  BY ExportRecords
<1>2. slots[i] \in Slot /\ i \in V /\ slots[i].export = "PENDING" /\ last' = last
  BY DEF Pending, Valid, JournalInv, TypeInv, TypeOK, MarkExported
<1>3. /\ slots'[i].gen = slots[i].gen /\ slots'[i].id = slots[i].id
      /\ slots'[i].export = "EXPORTED"
  BY <1>1, <1>2 DEF Slot
<1> DEFINE r == RecordOf(slots, i)
           e == [gen |-> slots[i].gen, id |-> slots[i].id, exported |-> TRUE]
<1>4. r = [gen |-> slots[i].gen, id |-> slots[i].id, exported |-> FALSE]
  BY <1>2 DEF RecordOf
<1>5. e = [gen |-> r.gen, id |-> r.id, exported |-> TRUE]
  BY <1>4
<1>6. r \in Records /\ ~ r.exported
  BY <1>2, <1>4, RecordsAre
<1>7. \A o \in Records : ~ o.exported => r.gen <= o.gen
  <2> SUFFICES ASSUME NEW j \in V, ~ RecordOf(slots, j).exported
               PROVE  r.gen <= RecordOf(slots, j).gen
    BY RecordsAre
  <2>1. slots[j] \in Slot /\ slots[j].export \notin {"EXPORTED", "NONE"}
    BY DEF RecordOf, Valid, JournalInv, TypeInv, TypeOK, OrderInv
  <2>2. j \in Pending(slots)
    BY <2>1 DEF Pending, Slot
  <2> QED
    BY <1>1, <2>2 DEF RecordOf
<1>8. Records' = (Records \ {r}) \union {e}
  <2>1. \A j \in V : j # i => RecordOf(slots, j)' = RecordOf(slots, j)
    BY <1>1 DEF RecordOf
  <2>2. RecordOf(slots, i)' = e
    BY <1>3 DEF RecordOf
  <2>3. \A j \in V : j # i => RecordOf(slots, j) # r
    BY <1>2 DEF RecordOf, JournalInv, OrderInv
  <2>4. Records' = {RecordOf(slots, j)' : j \in V}
    BY <1>1 DEF Records, RecordOf
  <2>5. r = RecordOf(slots, i)
    OBVIOUS
  <2>6. Records = {RecordOf(slots, j) : j \in V}
    BY RecordsAre
  <2> HIDE DEF r, e, V
  <2> QED
    BY <1>2, <2>1, <2>2, <2>3, <2>4, <2>5, <2>6
<1> HIDE DEF r, e
<1> QED
  BY <1>2, <1>5, <1>6, <1>7, <1>8 DEF Contract!Export

\* Whatever step a restart interrupts, a record is there whole or not at all;
\* exports go oldest first; an unexported record and the newest one are never
\* reclaimed.  A journal of one slot would have to reclaim its newest record.
THEOREM ContractKeptHolds == ASSUME SlotCount >= 2 PROVE Spec => ContractKept
<1>1. Init => Contract!Init
  BY DEF Init, Contract!Init, Records, Valid, SlotValid, Cleared
<1>2. JournalInv /\ [Next]_vars => [Contract!Next]_<<Records, last>>
  <2> SUFFICES ASSUME JournalInv, [Next]_vars
               PROVE  Contract!Next \/ UNCHANGED <<Records, last>>
    OBVIOUS
  <2>1. CASE PersistBegin
    BY <2>1, BeginContract DEF Contract!Next
  <2>2. CASE WriteMarker
    BY <2>2, MarkerContract DEF Contract!Next
  <2>3. CASE MarkExported
    BY <2>3, ExportContract DEF Contract!Next
  <2>4. CASE WriteHeader \/ WritePayload \/ WriteCommitted
    BY <2>4, WriteStep, SameSets
       DEF WriteHeader, WritePayload, WriteCommitted, WriteSlot
  <2>5. CASE ReadMeta
    BY <2>5, ReadStep, SameSets DEF ReadMeta
  <2>6. CASE \/ PersistRefused \/ PersistReturn \/ PersistFail \/ Lookup
             \/ ExportAbort \/ Restart \/ UNCHANGED vars
    BY <2>6, OtherStep, SameSets
  <2> QED
    BY <2>1, <2>2, <2>3, <2>4, <2>5, <2>6 DEF Next
<1>3. Spec => []JournalInv
  BY JournalInvariant
<1> QED
  BY <1>1, <1>2, <1>3, PTL DEF Spec, ContractKept, Contract!Spec
=============================================================================
