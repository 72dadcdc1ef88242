----------------------------- MODULE RingProofs -----------------------------
(***************************************************************************)
(* Proofs about Ring, for every capacity: indices stay in bounds, an       *)
(* undisturbed reader receives the newest records exactly, and a reset     *)
(* between any two stores of a write disturbs at most one position.  Then  *)
(* about Operation, for any choice of operations among the writes: it is a *)
(* Ring, and the operation in an image and in a published first-abnormal   *)
(* snapshot is the newest one.                                             *)
(*                                                                         *)
(* The inductive invariant RingInv says, slot by slot, which write a slot  *)
(* holds: without division, as a distance from the slot written next.      *)
(* OpInv says, half by half, which operation the retained RAM holds while  *)
(* a write is in progress or cut.                                          *)
(***************************************************************************)
EXTENDS Operation, TLAPS

USE RingAssumption DEF Slots, Halves, Stores, Record

\* Complete writes, and the slot the next one goes to.
Done == IF todo = {} THEN nextSequence ELSE nextSequence - 1
At == IF todo = {} THEN writeIndex ELSE index

\* The write slot k holds: k lies before At in this round, or behind it in the
\* round before; below 1 if that round never was.
Due(k) == IF k < At THEN Done - At + k + 1 ELSE Done - At + k + 1 - Capacity
Counted(n) == IF n < Capacity THEN n ELSE Capacity

Settled ==
    /\ At \in Slots
    /\ Done < Capacity => At = Done
    /\ \A k \in Slots : (todo = {} \/ k # index) /\ Due(k) >= 1
                          => ring[k] = Whole(Due(k))

InFlight ==
    todo # {} =>
      /\ nextSequence >= 1
      /\ \A h \in Halves \ todo : ring[index][h] = nextSequence
      /\ writeIndex = IF "write_index" \in todo THEN index ELSE Advance(index)
      /\ recordCount = Counted(IF "record_count" \in todo
                               THEN nextSequence - 1 ELSE nextSequence)

AtRest == todo = {} => recordCount = Counted(nextSequence)

ModeInv ==
    /\ mode = "paused" => todo = {}
    /\ mode = "capture" /\ todo # {} => IndicesValid
    /\ Reading /\ IndicesValid => size = recordCount

RingShape == IndicesValid => Settled /\ InFlight /\ AtRest

\* The one position of the delivered records that may be wrong.
Skip == IF recordCount = Capacity
        THEN IF writeIndex = index THEN 1 ELSE size
        ELSE IF size = nextSequence - 1 THEN size + 1 ELSE size
Torn == Reading /\ todo # {} /\ IndicesValid
          => EndsAt(out, size, Skip, nextSequence - 1)
Exact == Reading /\ todo = {} =>
           \A j \in 1 .. Len(out) : out[j] = Whole(nextSequence - size + j)

RingInv == TypeOK /\ ModeInv /\ RingShape /\ Exact /\ Torn /\ TornAtMostOne
-----------------------------------------------------------------------------
(* Type correctness *)

\* A read that passes the check stays inside the ring.
LEMMA PhysicalType ==
  ASSUME TypeOK, NEW i \in Nat, Readable(i)
  PROVE  Physical(i) \in Slots
  BY DEF TypeOK, Readable, IndicesValid, Physical, Oldest

LEMMA WipeType ==
  ASSUME TypeOK, Wipe
  PROVE  TypeOK'
<1>1. ring' \in [Slots -> Record]
  BY DEF Wipe, Blank, Whole
<1>2. /\ out' \in Seq(Record) /\ Len(out') <= size'
      /\ index' \in Slots
  BY DEF Wipe
<1> QED
  BY <1>1, <1>2 DEF Wipe, TypeOK

LEMMA TypeStep == TypeOK /\ [Next]_vars => TypeOK'
<1> SUFFICES ASSUME TypeOK, [Next]_vars PROVE TypeOK'
  OBVIOUS
<1>1. CASE BeginWrite
  BY <1>1 DEF TypeOK, BeginWrite, IndicesValid, reader
<1>2. CASE \E h \in Halves : StoreRecord(h)
  <2>1. PICK h \in Halves : StoreRecord(h)
    BY <1>2
  <2>2. [ring[index] EXCEPT ![h] = nextSequence] \in Record
    BY DEF TypeOK
  <2>3. ring' \in [Slots -> Record]
    BY <2>1, <2>2 DEF TypeOK, StoreRecord
  <2> QED
    BY <2>1, <2>3 DEF TypeOK, StoreRecord, Writing, reader, ringState
<1>3. CASE StoreIndex
  <2>1. writeIndex' \in 0 .. Capacity
    BY <1>3 DEF TypeOK, StoreIndex, Advance
  <2> QED
    BY <1>3, <2>1 DEF TypeOK, StoreIndex, Writing, reader
<1>4. CASE StoreCount
  BY <1>4 DEF TypeOK, StoreCount, Writing, reader
<1>5. CASE BeginRead
  BY <1>5 DEF TypeOK, BeginRead, ringState, writer
<1>6. CASE ReadRecord
  <2>1. Len(out) \in Nat
    BY DEF TypeOK
  <2>2. ring[Physical(Len(out))] \in Record
    BY <1>6, <2>1, PhysicalType DEF ReadRecord, TypeOK
  <2>3. out' \in Seq(Record) /\ Len(out') <= size
    BY <1>6, <2>1, <2>2 DEF ReadRecord, TypeOK
  <2> QED
    BY <1>6, <2>3 DEF TypeOK, ReadRecord, ringState, writer
<1>7. CASE EndRead
  BY <1>7 DEF TypeOK, EndRead, ringState, writer, Reading
<1>8. CASE SalvageDone
  BY <1>8, WipeType DEF SalvageDone
<1>9. CASE Reset
  BY <1>9 DEF TypeOK, Reset, ringState, writer
<1>10. CASE Boot
  BY <1>10, WipeType DEF TypeOK, Boot, ringState, writer, reader
<1>11. CASE Corrupt
  BY <1>11 DEF TypeOK, Corrupt, ringState, writer, reader
<1>12. CASE UNCHANGED vars
  BY <1>12 DEF TypeOK, vars, ringState, writer, reader
<1> QED
  BY <1>1, <1>2, <1>3, <1>4, <1>5, <1>6, <1>7, <1>8, <1>9, <1>10, <1>11,
     <1>12 DEF Next, Write

LEMMA InitType == Init => TypeOK
  BY DEF Init, TypeOK, Blank, Whole

\* Every variable of the ring stays in its type, for every capacity.
THEOREM TypeCorrect == Spec => []TypeOK
  BY InitType, TypeStep, PTL DEF Spec

\* The indices a writer and a reader use are inside the ring, for every
\* capacity and whatever is written over them.
THEOREM InBoundsHolds == Spec => []InBounds
<1>1. TypeOK => InBounds
  <2> SUFFICES ASSUME TypeOK PROVE InBounds
    OBVIOUS
  <2>1. \A i \in 0 .. Capacity + 1 : Readable(i) => Physical(i) \in Slots
    BY PhysicalType
  <2> QED
    BY <2>1 DEF InBounds, TypeOK
<1> QED
  BY <1>1, TypeCorrect, PTL
-----------------------------------------------------------------------------
(* Which write each slot holds *)

LEMMA InitInv == Init => RingInv
<1> SUFFICES ASSUME Init PROVE RingInv
  OBVIOUS
<1>1. Settled
  <2>1. \A k \in Slots : ~(Due(k) >= 1)
    BY DEF Init, Due, Done, At
  <2> QED
    BY <2>1 DEF Init, Settled, Done, At
<1> QED
  BY <1>1, InitType
     DEF Init, RingInv, ModeInv, RingShape, InFlight, AtRest, Counted, Exact,
         Torn, TornAtMostOne, EndsAt, RunWithout,
         Reading

LEMMA WipeInv ==
  ASSUME TypeOK, Wipe
  PROVE  ModeInv' /\ RingShape' /\ Exact' /\ Torn' /\ TornAtMostOne'
<1>1. Settled'
  <2>1. \A k \in Slots : ~(Due(k)' >= 1)
    BY DEF Wipe, Due, Done, At
  <2> QED
    BY <2>1 DEF Wipe, Settled, Done, At
<1> QED
  BY <1>1 DEF Wipe, ModeInv, RingShape, InFlight, AtRest, Counted, Exact, Torn,
              TornAtMostOne, Reading

\* The store that completes a write moves every slot one step into the past.
LEMMA Completion ==
  ASSUME TypeOK, TypeOK', Settled, todo # {}, todo' = {}, nextSequence >= 1,
         UNCHANGED <<index, nextSequence>>, writeIndex' = Advance(index),
         \A k \in Slots \ {index} : ring'[k] = ring[k],
         ring'[index] = Whole(nextSequence)
  PROVE  Settled'
<1>1. At = index /\ Done = nextSequence - 1
      /\ At' = Advance(index) /\ Done' = nextSequence
  BY DEF At, Done
<1>0. index \in 0 .. Capacity - 1 /\ nextSequence \in Nat
      /\ (nextSequence - 1 < Capacity => index = nextSequence - 1)
  BY <1>1 DEF TypeOK, Settled
<1>2. At' \in Slots /\ (Done' < Capacity => At' = Done')
  BY <1>0, <1>1 DEF Advance
<1>3. ASSUME NEW k \in Slots, Due(k)' >= 1
      PROVE  ring'[k] = Whole(Due(k)')
  <2>1. CASE k = index
    <3>1. Due(k)' = nextSequence
      BY <1>0, <1>1, <2>1 DEF Due, Advance
    <3> QED
      BY <2>1, <3>1
  <2>2. CASE k # index
    <3>1. Due(k)' = IF k < Advance(index)
                    THEN nextSequence - Advance(index) + k + 1
                    ELSE nextSequence - Advance(index) + k + 1 - Capacity
      BY <1>1 DEF Due
    <3>2. Due(k) = IF k < index THEN nextSequence - 1 - index + k + 1
                   ELSE nextSequence - 1 - index + k + 1 - Capacity
      BY <1>1 DEF Due
    <3>3. Due(k)' = Due(k)
      BY <1>0, <2>2, <3>1, <3>2 DEF Advance
    <3> QED
      BY <1>3, <2>2, <3>3 DEF Settled
  <2> QED
    BY <2>1, <2>2
<1> QED
  BY <1>2, <1>3 DEF Settled

LEMMA ShapeStep == TypeOK /\ TypeOK' /\ ModeInv /\ RingShape /\ [Next]_vars => RingShape'
<1> SUFFICES ASSUME TypeOK, TypeOK', ModeInv, RingShape, [Next]_vars,
                    IndicesValid'
             PROVE  Settled' /\ InFlight' /\ AtRest'
  BY DEF RingShape
<1>1. CASE BeginWrite
  <2>1. At' = At /\ Done' = Done
    BY <1>1 DEF BeginWrite, At, Done, TypeOK
  <2>2. Settled /\ AtRest
    BY <1>1 DEF BeginWrite, RingShape
  <2>3. Settled'
    BY <1>1, <2>1, <2>2 DEF BeginWrite, Settled, Due
  <2>4. InFlight'
    BY <1>1, <2>2 DEF BeginWrite, InFlight, AtRest, TypeOK
  <2> QED
    BY <1>1, <2>3, <2>4 DEF BeginWrite, AtRest
<1>2. ASSUME NEW h \in Halves, StoreRecord(h)
      PROVE  Settled' /\ InFlight' /\ AtRest'
  <2>1. IndicesValid /\ Settled /\ InFlight /\ todo # {} /\ index \in Slots
    BY <1>2 DEF StoreRecord, Writing, ModeInv, RingShape, TypeOK
  <2>2. /\ todo' = todo \ {h}
        /\ UNCHANGED <<writeIndex, recordCount, nextSequence, index>>
    BY <1>2 DEF StoreRecord, Writing, ringState
  <2>3. /\ \A k \in Slots \ {index} : ring'[k] = ring[k]
        /\ \A g \in Halves \ todo' : ring'[index][g] = nextSequence
    <3>1. ring'[index] = [ring[index] EXCEPT ![h] = nextSequence]
      BY <1>2, <2>1 DEF StoreRecord, TypeOK
    <3>2. \A g \in Halves \ todo' : ring'[index][g] = nextSequence
      BY <2>1, <2>2, <3>1 DEF InFlight, TypeOK
    <3> QED
      BY <1>2, <3>2 DEF StoreRecord, TypeOK
  <2>4. CASE todo' = {}
    <3>1. ring'[index] = Whole(nextSequence)
      <4>1. ring'[index] \in Record
        BY <2>1, <2>2 DEF TypeOK
      <4> QED
        BY <2>3, <2>4, <4>1 DEF Whole
    <3>2. "write_index" \notin todo /\ "record_count" \notin todo
      BY <2>2, <2>4
    <3>3. Settled'
      BY <2>1, <2>2, <2>3, <2>4, <3>1, <3>2, Completion DEF InFlight
    <3> QED
      BY <2>1, <2>2, <2>4, <3>2, <3>3 DEF InFlight, AtRest
  <2>5. CASE todo' # {}
    <3>1. At' = At /\ Done' = Done /\ At = index
      BY <2>1, <2>2, <2>5 DEF At, Done
    <3>2. Settled'
      BY <2>1, <2>2, <2>3, <2>5, <3>1 DEF Settled, Due
    <3>3. "write_index" \in todo' <=> "write_index" \in todo
      BY <2>2
    <3>4. "record_count" \in todo' <=> "record_count" \in todo
      BY <2>2
    <3> QED
      BY <2>1, <2>2, <2>3, <2>5, <3>2, <3>3, <3>4
         DEF InFlight, AtRest, Advance
  <2> QED
    BY <2>4, <2>5
<1>3. ASSUME NEW store \in {"write_index", "record_count"},
             Writing(store), UNCHANGED <<ring, nextSequence, index>>,
             writeIndex' = IF "write_index" \in todo' THEN index
                                                      ELSE Advance(index),
             recordCount' = Counted(IF "record_count" \in todo'
                                    THEN nextSequence - 1 ELSE nextSequence),
             Settled, InFlight
      PROVE  Settled' /\ InFlight' /\ AtRest'
  <2>1. /\ todo # {} /\ todo' = todo \ {store} /\ index \in Slots
        /\ \A h \in Halves : h \in todo' <=> h \in todo
    BY <1>3 DEF Writing, TypeOK
  <2>2. CASE todo' = {}
    <3>1. ring[index] = Whole(nextSequence)
      <4>1. ring[index] \in Record
        BY <2>1 DEF TypeOK
      <4>2. \A h \in Halves : ring[index][h] = nextSequence
        BY <1>3, <2>1, <2>2 DEF InFlight
      <4> QED
        BY <4>1, <4>2 DEF Whole
    <3>2. Settled'
      BY <1>3, <2>1, <2>2, <3>1, Completion DEF InFlight
    <3> QED
      BY <1>3, <2>2, <3>2 DEF InFlight, AtRest
  <2>3. CASE todo' # {}
    <3>1. At' = At /\ Done' = Done
      BY <1>3, <2>1, <2>3 DEF At, Done
    <3>2. Settled'
      BY <1>3, <2>1, <2>3, <3>1 DEF Settled, Due
    <3> QED
      BY <1>3, <2>1, <2>3, <3>2 DEF InFlight, AtRest, Advance
  <2> QED
    BY <2>2, <2>3
<1>4. CASE StoreIndex
  <2>1. Settled /\ InFlight /\ todo # {}
    BY <1>4 DEF StoreIndex, Writing, ModeInv, RingShape
  <2>2. Writing("write_index") /\ UNCHANGED <<ring, nextSequence, index>>
    BY <1>4 DEF StoreIndex
  <2>3. writeIndex' = IF "write_index" \in todo' THEN index ELSE Advance(index)
    BY <1>4 DEF StoreIndex, Writing
  <2>4. recordCount' = Counted(IF "record_count" \in todo'
                               THEN nextSequence - 1 ELSE nextSequence)
    BY <1>4, <2>1 DEF StoreIndex, Writing, InFlight
  <2> QED
    BY <1>3, <2>1, <2>2, <2>3, <2>4
<1>5. CASE StoreCount
  <2>1. Settled /\ InFlight /\ todo # {}
    BY <1>5 DEF StoreCount, Writing, ModeInv, RingShape
  <2>2. Writing("record_count") /\ UNCHANGED <<ring, nextSequence, index>>
    BY <1>5 DEF StoreCount
  <2>3. writeIndex' = IF "write_index" \in todo' THEN index ELSE Advance(index)
    BY <1>5, <2>1 DEF StoreCount, Writing, InFlight
  <2>4. recordCount' = Counted(IF "record_count" \in todo'
                               THEN nextSequence - 1 ELSE nextSequence)
    BY <1>5, <2>1 DEF StoreCount, Writing, InFlight, Counted, TypeOK
  <2> QED
    BY <1>3, <2>1, <2>2, <2>3, <2>4
<1>6. CASE UNCHANGED <<ring, ringState, writer>>
  <2>1. Settled /\ InFlight /\ AtRest
    BY <1>6 DEF RingShape, IndicesValid, ringState
  <2>2. At' = At /\ Done' = Done
    BY <1>6 DEF At, Done, ringState, writer
  <2> QED
    BY <1>6, <2>1, <2>2
       DEF Settled, Due, InFlight, AtRest, ringState, writer, Advance
<1>7. CASE Wipe
  BY <1>7, WipeInv DEF RingShape
<1>8. CASE Corrupt
  BY <1>8 DEF Corrupt, IndicesValid, TypeOK
<1> QED
  BY <1>1, <1>2, <1>4, <1>5, <1>6, <1>7, <1>8
     DEF Next, Write, BeginRead, ReadRecord, EndRead, SalvageDone, Reset, Boot,
         vars
-----------------------------------------------------------------------------
(* What the reader receives *)

LEMMA ModeStep == TypeOK /\ TypeOK' /\ ModeInv /\ [Next]_vars => ModeInv'
<1> SUFFICES ASSUME TypeOK, TypeOK', ModeInv, [Next]_vars PROVE ModeInv'
  OBVIOUS
<1>1. CASE Write
  <2>1. mode = "capture" /\ mode' = mode
    BY <1>1 DEF Write, BeginWrite, StoreRecord, StoreIndex, StoreCount, Writing
  <2>2. IndicesValid'
    <3>1. IndicesValid
      BY <1>1 DEF Write, BeginWrite, StoreRecord, StoreIndex, StoreCount,
                  Writing, ModeInv
    <3>2. CASE BeginWrite \/ \E h \in Halves : StoreRecord(h)
      BY <3>1, <3>2 DEF BeginWrite, StoreRecord, IndicesValid, ringState
    <3>3. CASE StoreIndex
      BY <3>1, <3>3 DEF StoreIndex, IndicesValid, Advance, TypeOK
    <3>4. CASE StoreCount
      BY <3>1, <3>4 DEF StoreCount, IndicesValid, TypeOK
    <3> QED
      BY <1>1, <3>2, <3>3, <3>4 DEF Write
  <2> QED
    BY <2>1, <2>2 DEF ModeInv, Reading
<1>2. CASE BeginRead
  BY <1>2 DEF BeginRead, ModeInv, Reading, IndicesValid, ringState, writer
<1>3. CASE ReadRecord
  BY <1>3 DEF ReadRecord, ModeInv, Reading, IndicesValid, ringState, writer
<1>4. CASE EndRead
  BY <1>4 DEF EndRead, ModeInv, Reading, IndicesValid, ringState, writer
<1>5. CASE Wipe
  BY <1>5, WipeInv
<1>6. CASE Reset
  BY <1>6 DEF Reset, ModeInv, Reading
<1>7. CASE mode' = "previous"
  BY <1>7 DEF ModeInv, Reading
<1>8. CASE Corrupt
  <2>1. ~IndicesValid' /\ mode' = mode /\ todo' = todo
    BY <1>8 DEF Corrupt, IndicesValid, TypeOK, writer
  <2> QED
    BY <1>8, <2>1 DEF Corrupt, ModeInv
<1>9. CASE UNCHANGED vars
  BY <1>9 DEF vars, ModeInv, Reading, IndicesValid, ringState, writer, reader
<1> QED
  BY <1>1, <1>2, <1>3, <1>4, <1>5, <1>6, <1>7, <1>8, <1>9
     DEF Next, SalvageDone, Boot

\* At rest, logical index i is the record written that far from the newest.
LEMMA ReadAtRest ==
  ASSUME TypeOK, RingShape, todo = {}, NEW i \in Nat, Readable(i)
  PROVE  ring[Physical(i)] = Whole(nextSequence - recordCount + i + 1)
<1>1. /\ Settled /\ At = writeIndex /\ Done = nextSequence
      /\ recordCount = Counted(nextSequence)
      /\ i < recordCount /\ Physical(i) \in Slots
  BY PhysicalType DEF RingShape, Readable, At, Done, AtRest
<1>2. Due(Physical(i)) = nextSequence - recordCount + i + 1
  <2>1. CASE nextSequence < Capacity
    <3>1. recordCount = nextSequence /\ writeIndex = nextSequence
          /\ Physical(i) = i
      BY <1>1, <2>1 DEF Settled, Counted, Physical, Oldest, TypeOK
    <3> QED
      BY <1>1, <3>1 DEF Due
  <2>2. CASE ~(nextSequence < Capacity)
    <3>1. recordCount = Capacity /\ writeIndex \in 0 .. Capacity - 1
          /\ Physical(i) = IF writeIndex + i >= Capacity
                           THEN writeIndex + i - Capacity ELSE writeIndex + i
      BY <1>1, <2>2 DEF Settled, Counted, Physical, Oldest
    <3> QED
      BY <1>1, <3>1 DEF Due, TypeOK
  <2> QED
    BY <2>1, <2>2
<1>3. nextSequence - recordCount + i + 1 >= 1
  BY <1>1 DEF Counted, TypeOK
<1> QED
  BY <1>1, <1>2, <1>3 DEF Settled

\* After a reset inside a write, the same, but at one logical index.
LEMMA ReadTorn ==
  ASSUME TypeOK, RingShape, todo # {}, NEW i \in Nat, Readable(i),
         size = recordCount
  PROVE  LET base == IF Skip > size THEN nextSequence - 1 - size
                                    ELSE nextSequence - size
         IN  /\ Skip \in 1 .. size + 1
             /\ i + 1 # Skip =>
                  ring[Physical(i)] = Whole(IF i + 1 > Skip THEN base + i
                                                            ELSE base + i + 1)
<1> DEFINE base == IF Skip > size THEN nextSequence - 1 - size
                                  ELSE nextSequence - size
           was == Counted(nextSequence - 1)
           is == Counted(nextSequence)
<1>1. /\ Settled /\ At = index /\ Done = nextSequence - 1
      /\ writeIndex \in {index, Advance(index)}
      /\ recordCount \in {was, is}
      /\ i < recordCount /\ Physical(i) \in Slots
  BY PhysicalType DEF RingShape, Readable, At, Done, InFlight
<1>2. /\ index \in 0 .. Capacity - 1 /\ nextSequence \in Nat
      /\ nextSequence >= 1 /\ Capacity \in Nat \ {0}
      /\ nextSequence - 1 < Capacity => index = nextSequence - 1
  BY <1>1 DEF TypeOK, Settled, RingShape, InFlight, Readable
<1>3. \A k \in Slots : Due(k) = IF k < index THEN nextSequence - index + k
                                ELSE nextSequence - index + k - Capacity
  BY <1>1, <1>2 DEF Due
<1>4. \A k \in Slots \ {index} : Due(k) >= 1 => ring[k] = Whole(Due(k))
  BY <1>1 DEF Settled
<1>5. CASE recordCount = Capacity /\ writeIndex = index
  <2>1. /\ Skip = 1 /\ base = nextSequence - Capacity
        /\ nextSequence >= Capacity
        /\ Physical(i) = IF index + i >= Capacity THEN index + i - Capacity
                                                  ELSE index + i
    BY <1>1, <1>2, <1>5 DEF Skip, Physical, Oldest, Counted
  <2>2. CASE i > 0
    <3>1. /\ Physical(i) \in Slots \ {index}
          /\ Due(Physical(i)) = nextSequence - Capacity + i
      BY <1>1, <1>2, <1>3, <1>5, <2>1, <2>2
    <3> QED
      BY <1>2, <1>4, <1>5, <2>1, <2>2, <3>1
  <2> QED
    BY <1>1, <1>5, <2>1, <2>2
<1>6. CASE recordCount = Capacity /\ writeIndex # index
  <2>1. /\ Skip = Capacity /\ base = nextSequence - Capacity
        /\ nextSequence >= Capacity /\ writeIndex = Advance(index)
        /\ Physical(i) = IF writeIndex + i >= Capacity
                         THEN writeIndex + i - Capacity ELSE writeIndex + i
    BY <1>1, <1>2, <1>6 DEF Skip, Physical, Oldest, Counted
  <2>2. CASE i + 1 < Capacity
    <3>1. Physical(i) = IF index + 1 + i >= Capacity
                        THEN index + 1 + i - Capacity ELSE index + 1 + i
      BY <1>2, <2>1, <2>2 DEF Advance
    <3>2. /\ Physical(i) \in Slots \ {index}
          /\ Due(Physical(i)) = nextSequence - Capacity + i + 1
      BY <1>1, <1>2, <1>3, <2>2, <3>1
    <3> QED
      BY <1>2, <1>4, <1>6, <2>1, <2>2, <3>2
  <2> QED
    BY <1>1, <1>2, <1>6, <2>1, <2>2
<1>7. CASE recordCount # Capacity
  <2>1. /\ recordCount \in {nextSequence - 1, nextSequence}
        /\ recordCount < Capacity /\ index = nextSequence - 1
        /\ Physical(i) = i
    BY <1>1, <1>2, <1>7 DEF Counted, Physical, Oldest
  <2>2. /\ base = 0 /\ Skip = nextSequence
        /\ Skip \in 1 .. size + 1
    BY <1>2, <1>7, <2>1 DEF Skip
  <2>3. CASE i + 1 # Skip
    <3>1. i < index /\ Due(i) = i + 1
      BY <1>1, <1>2, <1>3, <2>1, <2>2, <2>3
    <3> QED
      BY <1>1, <1>2, <1>4, <2>1, <2>2, <2>3, <3>1
  <2> QED
    BY <2>2, <2>3
<1> QED
  BY <1>5, <1>6, <1>7

LEMMA Appended ==
  ASSUME TypeOK, ReadRecord
  PROVE  /\ Len(out) \in Nat /\ Len(out') = Len(out) + 1 /\ size' = size
         /\ \A j \in 1 .. Len(out) : out'[j] = out[j]
         /\ out'[Len(out) + 1] = ring[Physical(Len(out))]
  BY PhysicalType DEF ReadRecord, TypeOK

\* Nothing but the reader's own steps touches what it was given.
LEMMA Undelivered ==
  ASSUME [Next]_vars, ~ReadRecord
  PROVE  \/ ~Reading' \/ (out' = <<>>)
         \/ /\ Reading /\ UNCHANGED <<reader, todo, nextSequence>>
            /\ UNCHANGED <<writeIndex, recordCount, index>> \/ Corrupt
<1>1. CASE BeginRead
  BY <1>1 DEF BeginRead
<1>2. CASE EndRead \/ Wipe \/ Reset \/ mode' = "previous"
  BY <1>2 DEF EndRead, Wipe, Reset, Reading
<1>3. CASE Write
  <2>1. mode' = "capture"
    BY <1>3 DEF Write, BeginWrite, StoreRecord, StoreIndex, StoreCount, Writing
  <2> QED
    BY <2>1 DEF Reading
<1>4. CASE Corrupt
  BY <1>4 DEF Corrupt, Reading, reader, writer
<1>5. CASE UNCHANGED vars
  BY <1>5 DEF vars, Reading, reader, writer, ringState
<1> QED
  BY <1>1, <1>2, <1>3, <1>4, <1>5 DEF Next, SalvageDone, Boot

LEMMA ExactStep ==
  TypeOK /\ TypeOK' /\ ModeInv /\ RingShape /\ Exact /\ [Next]_vars => Exact'
<1> SUFFICES ASSUME TypeOK, TypeOK', ModeInv, RingShape, Exact, [Next]_vars,
                    Reading', todo' = {}
             PROVE  \A j \in 1 .. Len(out') :
                      out'[j] = Whole(nextSequence' - size' + j)
  BY DEF Exact
<1>1. CASE ReadRecord
  <2>1. /\ Reading /\ todo = {} /\ nextSequence' = nextSequence
        /\ Readable(Len(out)) /\ size = recordCount
    BY <1>1 DEF ReadRecord, ModeInv, Readable, ringState, writer
  <2>2. ring[Physical(Len(out))] = Whole(nextSequence - size + Len(out) + 1)
    BY <1>1, <2>1, Appended, ReadAtRest
  <2>3. \A j \in 1 .. Len(out) : out[j] = Whole(nextSequence - size + j)
    BY <2>1 DEF Exact
  <2>4. nextSequence - size + Len(out) + 1 = nextSequence - size + (Len(out) + 1)
    BY <1>1, Appended DEF TypeOK
  <2> QED
    BY <1>1, <2>1, <2>2, <2>3, <2>4, Appended
<1>2. CASE ~ReadRecord
  <2>1. out' = <<>> \/ (Reading /\ UNCHANGED <<reader, todo, nextSequence>>)
    BY <1>2, Undelivered
  <2> QED
    BY <2>1 DEF Exact, reader
<1> QED
  BY <1>1, <1>2

LEMMA TornStep ==
  TypeOK /\ TypeOK' /\ ModeInv /\ RingShape /\ Torn /\ [Next]_vars => Torn'
<1> SUFFICES ASSUME TypeOK, TypeOK', ModeInv, RingShape, Torn, [Next]_vars,
                    Reading', todo' # {}, IndicesValid'
             PROVE  EndsAt(out', size', Skip', nextSequence' - 1)
  BY DEF Torn
<1>1. CASE ReadRecord
  <2> DEFINE base == IF Skip > size THEN nextSequence - 1 - size
                                    ELSE nextSequence - size
             due(j) == Whole(IF j > Skip THEN base + j - 1 ELSE base + j)
  <2>1. /\ Reading /\ todo # {} /\ IndicesValid
        /\ Readable(Len(out)) /\ size = recordCount
        /\ UNCHANGED <<nextSequence, recordCount, writeIndex, index, size>>
    BY <1>1 DEF ReadRecord, ModeInv, Readable, ringState, writer
  <2>2. Skip' = Skip
    BY <2>1 DEF Skip
  <2>3. /\ nextSequence \in Nat /\ size \in Nat /\ Skip \in Nat /\ base \in Int
        /\ nextSequence - 1 - size + 1 = nextSequence - size
    BY <2>1 DEF TypeOK, Skip
  <2>4. \A j \in (1 .. Len(out)) \ {Skip} : out[j] = due(j)
    BY <2>1, <2>3 DEF Torn, EndsAt, RunWithout
  <2>5. Len(out) + 1 # Skip => ring[Physical(Len(out))] = due(Len(out) + 1)
    <3>1. Len(out) + 1 # Skip =>
            ring[Physical(Len(out))] = Whole(IF Len(out) + 1 > Skip
                                             THEN base + Len(out)
                                             ELSE base + Len(out) + 1)
      BY <1>1, <2>1, Appended, ReadTorn
    <3>2. /\ base + Len(out) = base + (Len(out) + 1) - 1
          /\ base + Len(out) + 1 = base + (Len(out) + 1)
      BY <1>1, <2>3, Appended
    <3> QED
      BY <3>1, <3>2
  <2>6. \A j \in (1 .. Len(out')) \ {Skip} : out'[j] = due(j)
    <3> HIDE DEF due
    <3> QED
      BY <1>1, <2>4, <2>5, Appended
  <2> QED
    BY <2>1, <2>2, <2>3, <2>6 DEF EndsAt, RunWithout
<1>2. CASE ~ReadRecord
  <2>1. CASE out' = <<>>
    BY <2>1 DEF EndsAt, RunWithout
  <2>2. CASE /\ Reading /\ UNCHANGED <<reader, todo, nextSequence>>
             /\ UNCHANGED <<writeIndex, recordCount, index>>
    BY <2>2 DEF Torn, EndsAt, RunWithout, Skip, reader, IndicesValid
  <2>3. ~Corrupt
    BY DEF Corrupt, IndicesValid, TypeOK
  <2> QED
    BY <1>2, <2>1, <2>2, <2>3, Undelivered
<1> QED
  BY <1>1, <1>2

LEMMA AtMostOneStep ==
  ASSUME TypeOK, TypeOK', ModeInv, ModeInv', RingShape, RingShape',
         Exact', Torn', TornAtMostOne, [Next]_vars
  PROVE  TornAtMostOne'
<1>0. PICK n, next : n = size' /\ next = nextSequence'
  OBVIOUS
<1> n \in Nat /\ next \in Nat
  BY <1>0 DEF TypeOK
<1> SUFFICES ASSUME Reading'
             PROVE  \E skip \in 1 .. n + 1, last \in {next - 1, next} :
                      EndsAt(out', n, skip, last)
  BY <1>0 DEF TornAtMostOne
<1>1. CASE ReadRecord /\ todo = {}
  <2>1. todo' = {} /\ Len(out') \in Nat /\ Len(out') <= n
    BY <1>0, <1>1 DEF ReadRecord, writer, TypeOK
  <2>2. \A j \in 1 .. Len(out') : out'[j] = Whole(next - n + j)
    BY <1>0, <2>1 DEF Exact
  <2>3. EndsAt(out', n, n + 1, next)
    BY <2>1, <2>2 DEF EndsAt, RunWithout
  <2> QED
    BY <2>3
<1>2. CASE ReadRecord /\ todo # {}
  <2>1. /\ todo' # {} /\ IndicesValid' /\ Readable(Len(out)) /\ size = recordCount
        /\ UNCHANGED <<recordCount, writeIndex, index, nextSequence, size>>
    BY <1>2 DEF ReadRecord, writer, ringState, Readable, IndicesValid, ModeInv
  <2>2. Skip' = Skip
    BY <2>1 DEF Skip
  <2>3. Skip \in 1 .. n + 1
    BY <1>0, <1>2, <2>1, Appended, ReadTorn
  <2>4. EndsAt(out', n, Skip, next - 1)
    BY <1>0, <2>1, <2>2 DEF Torn
  <2> QED
    BY <2>3, <2>4
<1>3. CASE out' = <<>>
  <2>1. \A j \in 1 .. Len(out') : FALSE
    BY <1>3
  <2>2. EndsAt(out', n, 1, next)
    BY <2>1 DEF EndsAt, RunWithout
  <2> QED
    BY <2>2
<1>4. CASE Reading /\ UNCHANGED <<reader, nextSequence>>
  BY <1>0, <1>4 DEF TornAtMostOne, reader
<1> QED
  BY <1>1, <1>2, <1>3, <1>4, Undelivered

LEMMA Inductive == Spec => []RingInv
<1>1. RingInv /\ [Next]_vars => RingInv'
  <2> SUFFICES ASSUME RingInv, [Next]_vars PROVE RingInv'
    OBVIOUS
  <2>1. TypeOK'
    BY TypeStep DEF RingInv
  <2>2. ModeInv' /\ RingShape' /\ Exact' /\ Torn'
    BY <2>1, ModeStep, ShapeStep, ExactStep, TornStep DEF RingInv
  <2>3. TornAtMostOne'
    BY <2>1, <2>2, AtMostOneStep DEF RingInv
  <2> QED
    BY <2>1, <2>2, <2>3 DEF RingInv
<1> QED
  BY <1>1, InitInv, PTL DEF Spec

\* Without a reset inside a write, the adapter receives exactly the newest
\* records, oldest first, and no read within its count is refused, for every
\* capacity and any number of wrap-arounds.
THEOREM ReaderExactHolds == Spec => []ReaderExact
<1>1. RingInv => ReaderExact
  BY DEF RingInv, Exact, ReaderExact, ModeInv, Readable
<1> QED
  BY <1>1, Inductive, PTL

\* A reset between any two stores of a write, in whatever order the build makes
\* them, disturbs at most one position of what is read afterwards.
THEOREM TornAtMostOneHolds == Spec => []TornAtMostOne
<1>1. RingInv => TornAtMostOne
  BY DEF RingInv
<1> QED
  BY <1>1, Inductive, PTL

-----------------------------------------------------------------------------
(* Operation: the newest operation *)

HIDE DEF Slots, Stores
USE OperationAssumption DEF Parts

\* No write, no operation.
LEMMA LastOfNone == LastOf(0) = 0
<1>1. {0} \union {m \in Operations : m <= 0} = {0}
  <2>1. \A m \in Operations : ~ (m <= 0)
    OBVIOUS
  <2> QED
    BY <2>1
<1>2. \A x \in {0} : \A y \in {0} : x >= y
  OBVIOUS
<1>3. Max({0}) \in {0}
  BY <1>2 DEF Max
<1> QED
  BY <1>1, <1>3 DEF LastOf

\* A write that is an operation is the newest one; another changes nothing.
LEMMA LastOfNext ==
    ASSUME NEW n \in Nat
    PROVE  LastOf(n + 1) = IF n + 1 \in Operations THEN n + 1 ELSE LastOf(n)
<1>1. CASE n + 1 \in Operations
  <2> DEFINE S == {0} \union {m \in Operations : m <= n + 1}
  <2>1. n + 1 \in S /\ S \subseteq Nat
    <3>1. n + 1 <= n + 1
      OBVIOUS
    <3>2. n + 1 \in S
      BY <1>1, <3>1
    <3>3. 0 \in Nat /\ \A m \in Operations : m \in Nat
      OBVIOUS
    <3>4. S \subseteq Nat
      BY <3>3
    <3> QED
      BY <3>2, <3>4
  <2>5. \A m \in S : m <= n + 1
    OBVIOUS
  <2> HIDE DEF S
  <2>2. \A x \in S : (\A y \in S : x >= y) => x = n + 1
    BY <2>1, <2>5
  <2>3. \A y \in S : n + 1 >= y
    BY <2>1, <2>5
  <2>4. Max(S) = n + 1
    BY <2>1, <2>2, <2>3 DEF Max
  <2> QED
    BY <1>1, <2>4 DEF LastOf, S
<1>2. CASE n + 1 \notin Operations
  <2>1. {0} \union {m \in Operations : m <= n + 1}
          = {0} \union {m \in Operations : m <= n}
    <3>1. \A m \in Operations : m <= n + 1 <=> m <= n
      BY <1>2
    <3> QED
      BY <3>1
  <2> QED
    BY <1>2, <2>1 DEF LastOf
<1> QED
  BY <1>1, <1>2
-----------------------------------------------------------------------------
(* The inductive invariant *)

\* The operation in the retained RAM, half by half.
Current ==
    \A h \in Halves : operation[h] = LastOf(IF h \in fields THEN nextSequence - 1
                                                            ELSE nextSequence)

\* What a report in progress holds and what it has stored of it.
Reporting ==
    first = "WRITING" /\ mode \in {"capture", "paused"} =>
        /\ \A h \in Halves : held[h] = LastOf(held["sequence"])
        /\ \A p \in Parts \ unfilled : snap[p] = held[p]

OpInv ==
    /\ OpTypeOK
    /\ mode = "paused" => ~Cut
    /\ fields # {} => nextSequence \in Operations
    /\ Current
    /\ Reading => image = operation
    /\ Reporting
    /\ SnapshotOperation

\* A step is one of the ring's, or leaves the ring alone.
LEMMA RingStep == [OpNext]_allVars => [Next]_vars
<1>1. OpStore => Next
  BY DEF OpStore, Next, Write
<1>2. OpBeginWrite => Next
  BY DEF OpBeginWrite, Next, Write
<1>3. OpBeginRead \/ OpReadRecord \/ OpEndRead => Next
  BY DEF OpBeginRead, OpReadRecord, OpEndRead, Next
<1>4. OpSalvageDone \/ OpReset \/ OpBoot \/ OpCorrupt => Next
  BY DEF OpSalvageDone, OpReset, OpBoot, OpCorrupt, Next
<1>5. (\E h \in Halves : StoreOperation(h)) => UNCHANGED vars
  BY DEF StoreOperation
<1>6. Claim \/ (\E p \in Parts : Fill(p)) \/ Publish => UNCHANGED vars
  BY DEF Claim, Fill, Publish
<1>7. UNCHANGED allVars => UNCHANGED vars
  BY DEF allVars
<1> QED
  BY <1>1, <1>2, <1>3, <1>4, <1>5, <1>6, <1>7 DEF OpNext

\* A wipe leaves no operation and no snapshot.
LEMMA WipedInv ==
    ASSUME TypeOK', Wipe, OpWiped
    PROVE  OpInv'
<1>1. operation' = Whole(0) /\ image' = Whole(0)
  BY DEF OpWiped, Cleared
<1>2. Whole(0) \in Record /\ NoParts \in [Parts -> 0 .. MaxWrites]
  BY DEF Whole, NoParts
<1>3. OpTypeOK'
  BY <1>1, <1>2 DEF OpTypeOK, OpWiped
<1>4. Current'
  BY <1>1, LastOfNone DEF Current, OpWiped, Wipe, Whole
<1> QED
  BY <1>1, <1>3, <1>4
     DEF OpInv, OpWiped, Wipe, Cut, Reading, Reporting, SnapshotOperation

\* The invariant holds initially.
LEMMA OpInvInit == OpInit => OpInv
<1> SUFFICES ASSUME OpInit PROVE OpInv
  OBVIOUS
<1>1. Whole(0) \in Record /\ NoParts \in [Parts -> 0 .. MaxWrites]
  BY DEF Whole, NoParts
<1>2. OpTypeOK
  BY <1>1, InitType DEF OpInit, OpTypeOK
<1>3. Current
  BY LastOfNone DEF Current, OpInit, Init, Whole
<1> QED
  BY <1>2, <1>3
     DEF OpInv, OpInit, Init, Cut, Reading, Reporting, SnapshotOperation

\* Every step keeps the types.
LEMMA OpTypeStep ==
    ASSUME OpTypeOK, [OpNext]_allVars
    PROVE  OpTypeOK'
<1> USE DEF OpTypeOK
<1>1. TypeOK'
  BY RingStep, TypeStep
<1>2. nextSequence \in 0 .. MaxWrites
  BY DEF TypeOK
<1>3. Whole(0) \in Record /\ NoParts \in [Parts -> 0 .. MaxWrites]
  BY DEF Whole, NoParts
<1>4. CASE OpBeginWrite \/ OpStore
  BY <1>1, <1>4 DEF OpBeginWrite, OpStore, snapshot, opVars
<1>5. ASSUME NEW h \in Halves, StoreOperation(h) PROVE OpTypeOK'
  <2>1. operation' \in Record
    BY <1>2, <1>5 DEF StoreOperation
  <2> QED
    BY <1>1, <1>5, <2>1 DEF StoreOperation, snapshot
<1>6. CASE Claim
  <2>1. held' \in [Parts -> 0 .. MaxWrites]
    BY <1>2, <1>6 DEF Claim
  <2> QED
    BY <1>1, <1>6, <2>1 DEF Claim
<1>7. ASSUME NEW p \in Parts, Fill(p) PROVE OpTypeOK'
  <2>1. snap' \in [Parts -> 0 .. MaxWrites]
    BY <1>7 DEF Fill, Copied
  <2> QED
    BY <1>1, <1>7, <2>1 DEF Fill
<1>8. CASE Publish
  BY <1>1, <1>3, <1>8 DEF Publish
<1>9. CASE OpBeginRead \/ OpReadRecord \/ OpEndRead \/ OpCorrupt \/ OpReset
  BY <1>1, <1>3, <1>9 DEF OpBeginRead, OpReadRecord, OpEndRead, OpCorrupt,
     OpReset, snapshot, opVars
<1>10. CASE OpSalvageDone \/ OpBoot
  <2>1. CASE OpWiped
    BY <1>1, <1>3, <2>1 DEF OpWiped, Cleared
  <2>2. CASE UNCHANGED opVars
    BY <1>1, <2>2 DEF opVars, snapshot
  <2> QED
    BY <1>10, <2>1, <2>2 DEF OpSalvageDone, OpBoot
<1>11. CASE UNCHANGED allVars
  <2>1. UNCHANGED <<operation, fields, first, snap, held, unfilled, image>>
    BY <1>11 DEF allVars, opVars, snapshot
  <2> QED
    BY <1>1, <2>1
<1> QED
  BY <1>4, <1>5, <1>6, <1>7, <1>8, <1>9, <1>10, <1>11 DEF OpNext

\* The invariant is inductive.
LEMMA OpInvStep == OpInv /\ [OpNext]_allVars => OpInv'
<1> SUFFICES ASSUME OpInv, [OpNext]_allVars PROVE OpInv'
  OBVIOUS
<1>0. OpTypeOK' /\ TypeOK' /\ TypeOK /\ nextSequence \in Nat
  <2>1. OpTypeOK
    BY DEF OpInv
  <2>2. OpTypeOK'
    BY <2>1, OpTypeStep
  <2>3. TypeOK /\ TypeOK'
    BY <2>1, <2>2 DEF OpTypeOK
  <2> QED
    BY <2>2, <2>3 DEF TypeOK
<1>1. CASE OpBeginWrite
  <2>1. /\ nextSequence' = nextSequence + 1 /\ fields = {}
        /\ mode = "capture" /\ mode' = "capture"
        /\ fields' = IF nextSequence + 1 \in Operations THEN Halves ELSE {}
        /\ UNCHANGED <<operation, snapshot, image>>
    BY <1>1 DEF OpBeginWrite, BeginWrite
  <2>2. LastOf(nextSequence') = IF nextSequence + 1 \in Operations
                                THEN nextSequence + 1 ELSE LastOf(nextSequence)
    BY <1>0, <2>1, LastOfNext
  <2>3. nextSequence' - 1 = nextSequence
    BY <1>0, <2>1
  <2>4. \A h \in Halves : operation[h] = LastOf(nextSequence)
    BY <2>1 DEF OpInv, Current
  <2>5. Current'
    BY <2>1, <2>2, <2>3, <2>4 DEF Current
  <2> QED
    BY <1>0, <2>1, <2>5
       DEF OpInv, Reading, Reporting, SnapshotOperation, snapshot
<1>2. CASE OpStore
  <2>1. UNCHANGED <<nextSequence, opVars>> /\ mode = "capture" /\ mode' = "capture"
    BY <1>2 DEF OpStore, StoreRecord, StoreIndex, StoreCount, Writing, ringState
  <2> QED
    BY <1>0, <2>1 DEF OpInv, Current, Reading, Reporting, SnapshotOperation,
       snapshot, opVars
<1>3. ASSUME NEW h \in Halves, StoreOperation(h) PROVE OpInv'
  <2>1. /\ mode = "capture" /\ mode' = "capture" /\ h \in fields
        /\ operation' = [operation EXCEPT ![h] = nextSequence]
        /\ fields' = fields \ {h}
        /\ UNCHANGED <<nextSequence, snapshot, image>>
    BY <1>3 DEF StoreOperation, vars, ringState
  <2>2. /\ nextSequence \in Operations /\ operation \in Record
        /\ nextSequence - 1 \in Nat /\ nextSequence - 1 + 1 = nextSequence
    BY <1>0, <2>1 DEF OpInv, OpTypeOK
  <2>3. LastOf(nextSequence) = nextSequence
    BY <2>2, LastOfNext
  <2>4. Current'
    BY <2>1, <2>2, <2>3 DEF OpInv, Current
  <2> QED
    BY <1>0, <2>1, <2>2, <2>4
       DEF OpInv, Reading, Reporting, SnapshotOperation, snapshot
<1>4. CASE Claim
  <2>1. /\ fields = {} /\ first' = "WRITING" /\ unfilled' = Parts
        /\ held' = [p \in Parts |-> IF p = "sequence" THEN nextSequence
                                                      ELSE operation[p]]
        /\ UNCHANGED <<mode, nextSequence, operation, fields, image, todo>>
    BY <1>4 DEF Claim, Live, Cut, vars, ringState, writer
  <2>2. \A h \in Halves : held'[h] = LastOf(held'["sequence"])
    BY <2>1 DEF OpInv, Current
  <2> QED
    BY <1>0, <2>1, <2>2
       DEF OpInv, Cut, Current, Reading, Reporting, SnapshotOperation
<1>5. ASSUME NEW p \in Parts, Fill(p) PROVE OpInv'
  <2>1. /\ first = "WRITING" /\ mode \in {"capture", "paused"}
        /\ snap' = [snap EXCEPT ![p] = held[p]] /\ unfilled' = unfilled \ {p}
        /\ UNCHANGED <<mode, nextSequence, operation, fields, image, first, held,
                       todo>>
    BY <1>5 DEF Fill, Copied, Live, vars, ringState, writer
  <2>2. Reporting'
    BY <2>1 DEF OpInv, OpTypeOK, Reporting
  <2> QED
    BY <1>0, <2>1, <2>2 DEF OpInv, Cut, Current, Reading, SnapshotOperation
<1>6. CASE Publish
  <2>1. /\ first = "WRITING" /\ mode \in {"capture", "paused"} /\ unfilled = {}
        /\ first' = "VALID"
        /\ UNCHANGED <<mode, nextSequence, operation, fields, image, snap, todo>>
    BY <1>6 DEF Publish, Live, vars, ringState, writer
  <2>2. SnapshotOperation'
    BY <2>1 DEF OpInv, Reporting, SnapshotOperation
  <2> QED
    BY <1>0, <2>1, <2>2 DEF OpInv, Cut, Current, Reading, Reporting
<1>7. CASE OpBeginRead
  <2>1. /\ image' = operation
        /\ mode' = "paused" => todo = {} /\ fields = {} /\ mode = "capture"
        /\ mode' # "capture"
        /\ UNCHANGED <<nextSequence, operation, fields, snapshot, todo>>
    BY <1>7 DEF OpBeginRead, BeginRead, ringState, writer
  <2> QED
    BY <1>0, <2>1
       DEF OpInv, Cut, Current, Reporting, SnapshotOperation, snapshot
<1>8. CASE OpReadRecord \/ OpCorrupt
  <2>1. UNCHANGED <<mode, nextSequence, todo, opVars>>
    BY <1>8 DEF OpReadRecord, ReadRecord, OpCorrupt, Corrupt, ringState, writer
  <2> QED
    BY <1>0, <2>1 DEF OpInv, Cut, Current, Reading, Reporting,
       SnapshotOperation, snapshot, opVars
<1>9. CASE OpEndRead
  <2>1. /\ mode' = IF mode = "paused" THEN "capture" ELSE "previous"
        /\ UNCHANGED <<nextSequence, operation, fields, snapshot, todo>>
    BY <1>9 DEF OpEndRead, EndRead, ringState, writer
  <2> QED
    BY <1>0, <2>1
       DEF OpInv, Current, Reading, Reporting, SnapshotOperation, snapshot
<1>10. CASE OpSalvageDone \/ (OpBoot /\ Wipe /\ mode' = "capture")
  <2>1. Wipe /\ OpWiped
    BY <1>10 DEF OpSalvageDone, SalvageDone, OpBoot
  <2> QED
    BY <1>0, <2>1, WipedInv
<1>11. CASE OpBoot /\ mode' = "previous"
  <2>1. UNCHANGED <<nextSequence, opVars>>
    BY <1>11 DEF OpBoot, Boot, Wipe, ringState
  <2> QED
    BY <1>0, <1>11, <2>1 DEF OpInv, Current, Reading, Reporting,
       SnapshotOperation, snapshot, opVars
<1>12. CASE OpReset
  <2>1. /\ mode' = "reset"
        /\ UNCHANGED <<nextSequence, operation, fields, first, snap>>
    BY <1>12 DEF OpReset, Reset, ringState
  <2> QED
    BY <1>0, <2>1 DEF OpInv, Current, Reading, Reporting, SnapshotOperation
<1>13. CASE UNCHANGED allVars
  BY <1>0, <1>13 DEF allVars, vars, ringState, writer, opVars, snapshot, OpInv,
     Cut, Current, Reading, Reporting, SnapshotOperation
<1>14. OpBoot => (Wipe /\ mode' = "capture") \/ mode' = "previous"
  BY DEF OpBoot, Boot, Wipe
<1> QED
  BY <1>1, <1>2, <1>3, <1>4, <1>5, <1>6, <1>7, <1>8, <1>9, <1>10, <1>11, <1>12,
     <1>13, <1>14 DEF OpNext

\* The invariant holds always.
LEMMA OpInductive == OpSpec => []OpInv
<1> QED
  BY OpInvInit, OpInvStep, PTL DEF OpSpec

-----------------------------------------------------------------------------
\* With the last operation beside it the ring is the ring of Ring: whatever is
\* proved of Spec holds of OpSpec.
THEOREM RingKept == OpSpec => Spec
<1>1. OpInit => Init
  BY DEF OpInit
<1> QED
  BY <1>1, RingStep, PTL DEF OpSpec, Spec

\* Types are kept, those of the ring included.
THEOREM OpTypeCorrect == OpSpec => []OpTypeOK
<1>1. OpInv => OpTypeOK
  BY DEF OpInv
<1> QED
  BY <1>1, OpInductive, PTL

\* The operation stored in an image is the newest one of the timeline stored
\* beside it; a reset inside a write leaves each half this one or the one before.
THEOREM ImageOperationNewestHolds == OpSpec => []ImageOperationNewest
<1>1. OpInv => ImageOperationNewest
  BY DEF OpInv, Current, ImageOperationNewest, Cut
<1> QED
  BY <1>1, OpInductive, PTL

\* A published first-abnormal snapshot names the last operation before its
\* sequence, however many operations are recorded while it is filled.
THEOREM SnapshotOperationHolds == OpSpec => []SnapshotOperation
<1>1. OpInv => SnapshotOperation
  BY DEF OpInv
<1> QED
  BY <1>1, OpInductive, PTL
=============================================================================
