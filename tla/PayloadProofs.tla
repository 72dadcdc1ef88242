---------------------------- MODULE PayloadProofs ---------------------------
(***************************************************************************)
(* Proofs about Payload, for every budget, buffer size and content of the  *)
(* rings: no byte is put past the buffer's end, a whole image can be taken *)
(* apart again, an image of a retained RAM that is not too large for the   *)
(* buffer always fits, and a budget builds exactly if both rings have room *)
(* for a record.                                                           *)
(*                                                                         *)
(* The inductive invariant PayloadInv gives the offset as a function of    *)
(* the part that is put next and of the records read so far.               *)
(***************************************************************************)
EXTENDS Payload, TLAPS

Sizes == /\ FirstBytes = 48 /\ FaultBytes = 40 /\ OperationBytes = 20
         /\ RecordBytes = 24 /\ RingStateBytes = 16 /\ HeaderBytes = 48
         /\ PreambleBytes = 60

LEMMA SizeValues == Sizes
  BY DEF Sizes, FirstBytes, FaultBytes, OperationBytes, RecordBytes,
         RingStateBytes, HeaderBytes, PreambleBytes

LEMMA Constants ==
  /\ Budgets \subseteq Nat /\ Reserved \in Nat /\ BufferBytes \in Nat
  /\ FixedBytes = 188 + Reserved /\ Spare = 20 + Reserved
  BY PayloadAssumption, SizeValues DEF Sizes, FixedBytes, Spare

-----------------------------------------------------------------------------
(* The division of the retained RAM *)

\* The records fill what the fixed fields leave, to less than a record.
LEMMA TotalBounds ==
  ASSUME NEW b \in Nat, b >= FixedBytes
  PROVE  /\ Total(b) \in Nat
         /\ Total(b) * 24 <= b - FixedBytes
         /\ b - FixedBytes < (Total(b) + 1) * 24
<1> DEFINE n == b - FixedBytes
<1>1. n \in Nat
  BY Constants
<1>2. Total(b) = n \div 24
  BY SizeValues DEF Sizes, Total
<1> HIDE DEF n
<1>3. /\ n \div 24 \in Nat
      /\ (n \div 24) * 24 <= n
      /\ n < ((n \div 24) + 1) * 24
  BY <1>1
<1> QED
  BY <1>2, <1>3 DEF n

\* Both rings together are all records, and two records are one for each.
LEMMA RingShares ==
  ASSUME NEW b \in Nat, Total(b) \in Nat
  PROVE  /\ TaskRecords(b) \in Nat /\ IsrRecords(b) \in Nat
         /\ TaskRecords(b) + IsrRecords(b) = Total(b)
         /\ Total(b) >= 2 => TaskRecords(b) > 0 /\ IsrRecords(b) > 0
<1> DEFINE t == Total(b)
<1>1. /\ (t * 3) \div 4 \in Nat /\ (t * 3) \div 4 <= t
      /\ t >= 2 => (t * 3) \div 4 > 0 /\ (t * 3) \div 4 < t
  <2> HIDE DEF t
  <2>1. t \in Nat
    BY DEF t
  <2> QED
    BY <2>1
<1> HIDE DEF t
<1>2. TaskRecords(b) = (t * 3) \div 4 /\ IsrRecords(b) = t - (t * 3) \div 4
  BY DEF t, TaskRecords, IsrRecords
<1>3. t \in Nat
  BY DEF t
<1> QED
  BY <1>1, <1>2, <1>3 DEF t

\* With a reserved area of whole words the store needs no padding.
LEMMA NoPadding ==
  ASSUME Reserved % 4 = 0, NEW b \in Nat, b >= FixedBytes
  PROVE  StoreBytes(b) = FixedBytes + Total(b) * 24
<1> DEFINE t == Total(b)
           s == FixedBytes + t * 24
<1>1. t \in Nat /\ s = 188 + Reserved + t * 24 /\ Reserved \in Nat
  BY TotalBounds, Constants
<1>2. s \in Nat /\ s % 4 = 0
  <2> HIDE DEF s, t
  <2>1. (188 + Reserved + t * 24) % 4 = 0
    BY <1>1
  <2> QED
    BY <1>1, <2>1
<1>3. StoreBytes(b) = ((s + 3) \div 4) * 4
  BY SizeValues DEF Sizes, StoreBytes
<1>4. ((s + 3) \div 4) * 4 = s
  <2> HIDE DEF s
  <2> QED
    BY <1>2
<1> QED
  BY <1>3, <1>4

\* A budget with room for two records builds: it passes the static assertions and
\* gives every array a size.
LEMMA RoomyBuilds ==
  ASSUME Reserved # 0, Reserved % 4 = 0,
         NEW b \in Nat, b >= FixedBytes + 2 * RecordBytes
  PROVE  Builds(b)
<1>1. /\ Total(b) \in Nat /\ Total(b) * 24 <= b - FixedBytes
      /\ b - FixedBytes < (Total(b) + 1) * 24 /\ b > FixedBytes
      /\ b >= FixedBytes + 48
  BY TotalBounds, Constants, SizeValues DEF Sizes
<1>2. Total(b) >= 2
  BY <1>1, Constants
<1>3. TaskRecords(b) > 0 /\ IsrRecords(b) > 0
  BY <1>1, <1>2, RingShares
<1>4. StoreBytes(b) <= b
  BY <1>1, NoPadding, Constants
<1> QED
  BY <1>1, <1>2, <1>3, <1>4, Constants DEF Builds

\* A build has room for two records: with one alone the Task ring has none.
LEMMA BuildsHaveRoom ==
  ASSUME NEW b \in Nat, Builds(b)
  PROVE  b >= FixedBytes + 2 * RecordBytes
<1>1. b > FixedBytes /\ TaskRecords(b) > 0
  BY DEF Builds
<1>2. /\ Total(b) \in Nat /\ Total(b) * 24 <= b - FixedBytes
  BY <1>1, TotalBounds, Constants
<1>3. Total(b) >= 2
  <2> DEFINE t == Total(b)
  <2>1. TaskRecords(b) = (t * 3) \div 4
    BY DEF TaskRecords
  <2> HIDE DEF t
  <2>2. t \in Nat /\ (t * 3) \div 4 > 0
    BY <1>1, <1>2, <2>1 DEF t
  <2>3. t >= 2
    BY <2>2
  <2> QED
    BY <2>3 DEF t
<1> QED
  BY <1>2, <1>3, Constants, SizeValues DEF Sizes

-----------------------------------------------------------------------------
(* The invariant *)

CountInv ==
    /\ Builds(ram)
    /\ \A c \in Contexts : c \notin broken => count[c] <= Capacity(c)

OffsetInv ==
    /\ pc \in Parts => next = 0
    /\ pc = "header" => offset = 0
    /\ pc = "first" => offset = 60
    /\ pc = "fault" => offset = 108
    /\ pc = "operation" => offset = 148
    /\ pc = "TASK" =>
         /\ offset = 168 + 24 * next /\ next <= count["TASK"]
         /\ next > 0 => "TASK" \notin broken
    /\ pc = "ISR" =>
         /\ offset = 168 + 24 * count["TASK"] + 24 * next
         /\ next <= count["ISR"]
         /\ count["TASK"] > 0 => "TASK" \notin broken
         /\ next > 0 => "ISR" \notin broken
    /\ pc = "whole" => offset = 168 + 24 * (count["TASK"] + count["ISR"])

StartInv ==
    /\ pc \in {"fault", "operation", "TASK", "ISR", "whole"} => starts["first"] = 60
    /\ pc \in {"operation", "TASK", "ISR", "whole"} => starts["fault"] = 108
    /\ (pc = "TASK" /\ next > 0) \/ (pc \in {"ISR", "whole"} /\ count["TASK"] > 0)
         => starts["TASK"] = 168
    /\ (pc = "ISR" /\ next > 0) \/ (pc = "whole" /\ count["ISR"] > 0)
         => starts["ISR"] = 168 + 24 * count["TASK"]

PayloadInv == TypeOK /\ CountInv /\ OffsetInv /\ StartInv /\ ImageFits

\* What a sound or an empty ring holds fits the buffer, behind the fixed fields.
LEMMA SpaceLeft ==
  ASSUME TypeOK, CountInv, ram <= BufferBytes + Spare
  PROVE  /\ 168 <= BufferBytes
         /\ \A t, i \in Nat :
              t <= Capacity("TASK") /\ i <= Capacity("ISR") =>
                168 + 24 * (t + i) <= BufferBytes
<1>1. ram \in Nat /\ ram > FixedBytes
  BY Constants DEF TypeOK, CountInv, Builds
<1>2. Total(ram) \in Nat /\ Total(ram) * 24 <= ram - FixedBytes
  BY <1>1, TotalBounds, Constants
<1>3. /\ Capacity("TASK") \in Nat /\ Capacity("ISR") \in Nat
      /\ Capacity("TASK") + Capacity("ISR") = Total(ram)
  BY <1>1, <1>2, RingShares DEF Capacity
<1>4. 168 + 24 * Total(ram) <= BufferBytes
  BY <1>1, <1>2, Constants
<1>5. ASSUME NEW t \in Nat, NEW i \in Nat, t <= Capacity("TASK"),
             i <= Capacity("ISR")
      PROVE  168 + 24 * (t + i) <= BufferBytes
  <2>1. t + i <= Total(ram)
    BY <1>3, <1>5
  <2> QED
    BY <2>1, <1>2, <1>4, Constants
<1> QED
  BY <1>2, <1>4, <1>5, Constants
-----------------------------------------------------------------------------
(* The steps *)

LEMMA InitInv == Init => PayloadInv
<1> SUFFICES ASSUME Init PROVE PayloadInv
  OBVIOUS
<1>1. TypeOK
  BY Constants DEF Init, TypeOK, Nowhere
<1>2. CountInv
  <2>1. ram \in Nat /\ Builds(ram) /\ ram > FixedBytes
    BY Constants DEF Init, Builds
  <2>2. Total(ram) \in Nat
    BY <2>1, TotalBounds, Constants
  <2>3. \A c \in Contexts : Capacity(c) >= 0
    BY <2>1, <2>2, RingShares DEF Capacity
  <2> QED
    BY <2>1, <2>3 DEF Init, CountInv
<1> QED
  BY <1>1, <1>2 DEF Init, OffsetInv, StartInv, ImageFits, PayloadInv

LEMMA TypeStep == TypeOK /\ [Next]_vars => TypeOK'
<1> SUFFICES ASSUME TypeOK, [Next]_vars PROVE TypeOK'
  OBVIOUS
<1> USE Constants DEF TypeOK
<1>1. CASE Persist
  <2>1. PICK n \in [Contexts -> 0 .. Total(ram)] : count' = n
    BY <1>1 DEF Persist
  <2>2. count' \in [Contexts -> Nat]
    BY <2>1
  <2> QED
    BY <1>1, <2>2 DEF Persist, Nowhere, Parts
<1>2. ASSUME NEW part \in Parts, PutPart(part) PROVE TypeOK'
  <2>1. Bytes(part) \in Nat /\ offset + Bytes(part) <= BufferBytes
    BY <1>2, SizeValues DEF PutPart, Room, Bytes, Sizes, Parts
  <2>2. pc' \in Parts \union Contexts
    BY <1>2 DEF PutPart, Then, Parts, Contexts
  <2>3. starts' \in [Parts \union Contexts -> 0 .. BufferBytes \union {NoStart}]
    BY <1>2 DEF PutPart
  <2> QED
    BY <1>2, <2>1, <2>2, <2>3 DEF PutPart
<1>3. ASSUME NEW c \in Contexts, PutRecord(c) PROVE TypeOK'
  <2>1. offset + 24 <= BufferBytes
    BY <1>3, SizeValues DEF PutRecord, Room, Sizes
  <2>2. starts' \in [Parts \union Contexts -> 0 .. BufferBytes \union {NoStart}]
    BY <1>3 DEF PutRecord
  <2> QED
    BY <1>3, <2>1, <2>2, SizeValues DEF PutRecord, Sizes
<1>4. ASSUME NEW c \in Contexts, EndRing(c) \/ Unreadable(c) PROVE TypeOK'
  <2>1. pc' \in Contexts \union {"idle", "whole"} /\ next' \in Nat
    BY <1>4 DEF EndRing, Unreadable, Contexts
  <2> QED
    BY <1>4, <2>1 DEF EndRing, Unreadable
<1>5. CASE Full \/ Return \/ UNCHANGED vars
  BY <1>5 DEF Full, Return, vars
<1> QED
  BY <1>1, <1>2, <1>3, <1>4, <1>5 DEF Next

LEMMA CountStep == TypeOK /\ CountInv /\ [Next]_vars => CountInv'
<1> SUFFICES ASSUME TypeOK, CountInv, [Next]_vars PROVE CountInv'
  OBVIOUS
<1>1. CASE Persist
  <2>1. ram' = ram /\ \A c \in Contexts \ broken' : count'[c] <= Capacity(c)
    BY <1>1 DEF Persist
  <2> QED
    BY <2>1 DEF CountInv, Capacity
<1>2. CASE UNCHANGED <<ram, count, broken>>
  BY <1>2 DEF CountInv, Capacity
<1>3. Persist \/ UNCHANGED <<ram, count, broken>>
  BY DEF Next, PutPart, PutRecord, EndRing, Unreadable, Full, Return, vars
<1> QED
  BY <1>1, <1>2, <1>3

LEMMA OffsetStep == TypeOK /\ OffsetInv /\ [Next]_vars => OffsetInv'
<1> SUFFICES ASSUME TypeOK, OffsetInv, [Next]_vars PROVE OffsetInv'
  OBVIOUS
<1>0. /\ offset \in Nat /\ next \in Nat
      /\ count["TASK"] \in Nat /\ count["ISR"] \in Nat
  BY Constants DEF TypeOK, Contexts
<1>1. CASE Persist
  BY <1>1 DEF Persist, OffsetInv
<1>2. ASSUME NEW part \in Parts, PutPart(part) PROVE OffsetInv'
  <2>1. /\ pc = part /\ offset' = offset + Bytes(part) /\ pc' = Then(part)
        /\ UNCHANGED <<count, broken, next>>
    BY <1>2 DEF PutPart
  <2> QED
    BY <1>0, <1>2, <2>1, SizeValues DEF OffsetInv, Parts, Then, Bytes, Sizes
<1>3. ASSUME NEW c \in Contexts, PutRecord(c) PROVE OffsetInv'
  <2>1. /\ pc = c /\ pc' = c /\ offset' = offset + 24 /\ next' = next + 1
        /\ next < count[c] /\ c \notin broken
        /\ UNCHANGED <<count, broken>>
    BY <1>3, SizeValues DEF PutRecord, Sizes
  <2> QED
    BY <1>0, <2>1 DEF OffsetInv, Contexts, Parts
<1>4. ASSUME NEW c \in Contexts, EndRing(c) PROVE OffsetInv'
  <2>1. /\ pc = c /\ pc' = IF c = "TASK" THEN "ISR" ELSE "whole"
        /\ next = count[c] /\ next' = 0
        /\ UNCHANGED <<count, broken, offset>>
    BY <1>4 DEF EndRing
  <2> QED
    BY <1>0, <2>1 DEF OffsetInv, Contexts, Parts
<1>5. CASE Full \/ Return \/ \E c \in Contexts : Unreadable(c)
  BY <1>5 DEF Full, Return, Unreadable, OffsetInv, Parts
<1>6. CASE UNCHANGED vars
  BY <1>6 DEF vars, OffsetInv
<1> QED
  BY <1>1, <1>2, <1>3, <1>4, <1>5, <1>6 DEF Next
LEMMA StartStep == TypeOK /\ OffsetInv /\ StartInv /\ [Next]_vars => StartInv'
<1> SUFFICES ASSUME TypeOK, OffsetInv, StartInv, [Next]_vars PROVE StartInv'
  OBVIOUS
<1>0. /\ offset \in Nat /\ next \in Nat
      /\ count["TASK"] \in Nat /\ count["ISR"] \in Nat
      /\ starts = [p \in Parts \union Contexts |-> starts[p]]
  BY Constants DEF TypeOK, Contexts
<1>1. CASE Persist
  BY <1>1 DEF Persist, StartInv
<1>2. ASSUME NEW part \in Parts, PutPart(part) PROVE StartInv'
  <2>1. /\ pc = part /\ pc' = Then(part) /\ starts'[part] = offset
        /\ \A p \in Parts : p # part => starts'[p] = starts[p]
        /\ next = 0 /\ UNCHANGED <<count, next>>
    BY <1>0, <1>2 DEF PutPart, OffsetInv
  <2> QED
    BY <2>1 DEF StartInv, OffsetInv, Then, Parts
<1>3. ASSUME NEW c \in Contexts, PutRecord(c) PROVE StartInv'
  <2>1. /\ pc = c /\ pc' = c /\ next' = next + 1 /\ UNCHANGED count
        /\ starts'[c] = IF next = 0 THEN offset ELSE starts[c]
        /\ starts'["first"] = starts["first"] /\ starts'["fault"] = starts["fault"]
        /\ \A d \in Contexts : d # c => starts'[d] = starts[d]
    BY <1>0, <1>3 DEF PutRecord, Parts, Contexts
  <2>2. CASE c = "TASK"
    BY <1>0, <2>1, <2>2 DEF StartInv, OffsetInv
  <2>3. CASE c = "ISR"
    BY <1>0, <2>1, <2>3 DEF StartInv, OffsetInv, Contexts
  <2> QED
    BY <2>2, <2>3 DEF Contexts
<1>4. ASSUME NEW c \in Contexts, EndRing(c) PROVE StartInv'
  <2>1. /\ pc = c /\ pc' = IF c = "TASK" THEN "ISR" ELSE "whole"
        /\ next = count[c] /\ next' = 0 /\ UNCHANGED <<count, starts>>
    BY <1>4 DEF EndRing
  <2> QED
    BY <1>0, <2>1 DEF StartInv, Contexts
<1>5. CASE Full \/ Return \/ \E c \in Contexts : Unreadable(c)
  BY <1>5 DEF Full, Return, Unreadable, StartInv
<1>6. CASE UNCHANGED vars
  BY <1>6 DEF vars, StartInv
<1> QED
  BY <1>1, <1>2, <1>3, <1>4, <1>5, <1>6 DEF Next

\* A step that finds no room puts a part, or a record of a ring that is sound,
\* behind at least as many bytes as SpaceLeft leaves.
LEMMA FullStep == TypeOK /\ CountInv /\ OffsetInv /\ Full => ram > BufferBytes + Spare
<1> SUFFICES ASSUME TypeOK, CountInv, OffsetInv, Full,
                    ram <= BufferBytes + Spare
             PROVE  FALSE
  BY Constants DEF TypeOK
<1>0. /\ offset \in Nat /\ next \in Nat /\ BufferBytes \in Nat
      /\ count["TASK"] \in Nat /\ count["ISR"] \in Nat
  BY Constants DEF TypeOK, Contexts
<1>1. /\ 168 <= BufferBytes
      /\ \A t, i \in Nat : t <= Capacity("TASK") /\ i <= Capacity("ISR") =>
           168 + 24 * (t + i) <= BufferBytes
  BY SpaceLeft
<1>2. \A c \in Contexts : Capacity(c) \in Nat
  <2>1. ram \in Nat /\ ram >= FixedBytes
    BY Constants DEF TypeOK, CountInv, Builds
  <2> QED
    BY <2>1, TotalBounds, RingShares DEF Capacity
<1>3. ASSUME NEW part \in Parts, pc = part, ~Room(Bytes(part)) PROVE FALSE
  BY <1>0, <1>1, <1>3, SizeValues DEF OffsetInv, Parts, Room, Bytes, Sizes
<1>4. ASSUME NEW c \in Contexts, pc = c, next < count[c], c \notin broken,
             ~Room(RecordBytes)
      PROVE  FALSE
  <2>1. next + 1 \in Nat /\ next + 1 <= count[c] /\ count[c] <= Capacity(c)
        /\ offset + 24 > BufferBytes
    BY <1>0, <1>4, SizeValues DEF CountInv, Contexts, Room, Sizes
  <2>2. CASE c = "TASK"
    <3>1. next + 1 <= Capacity("TASK") /\ 0 <= Capacity("ISR")
      BY <1>0, <1>2, <2>1, <2>2 DEF Contexts
    <3>2. 168 + 24 * ((next + 1) + 0) <= BufferBytes
      BY <1>1, <2>1, <3>1
    <3> QED
      BY <1>0, <1>4, <2>1, <2>2, <3>2 DEF OffsetInv
  <2>3. CASE c = "ISR"
    <3>1. next + 1 <= Capacity("ISR")
      BY <1>0, <1>2, <2>1, <2>3 DEF Contexts
    <3>2. count["TASK"] <= Capacity("TASK")
      BY <1>0, <1>2, <1>4, <2>3 DEF OffsetInv, CountInv, Contexts
    <3>3. 168 + 24 * (count["TASK"] + (next + 1)) <= BufferBytes
      BY <1>0, <1>1, <2>1, <3>1, <3>2
    <3> QED
      BY <1>0, <1>4, <2>1, <2>3, <3>3 DEF OffsetInv
  <2> QED
    BY <2>2, <2>3 DEF Contexts
<1> QED
  BY <1>3, <1>4 DEF Full

LEMMA FitsStep ==
  TypeOK /\ CountInv /\ OffsetInv /\ ImageFits /\ [Next]_vars => ImageFits'
<1> SUFFICES ASSUME TypeOK, CountInv, OffsetInv, ImageFits, [Next]_vars
             PROVE  ImageFits'
  OBVIOUS
<1>1. ram' = ram /\ Spare' = Spare
  BY DEF Next, Persist, PutPart, PutRecord, EndRing, Unreadable, Full, Return,
         vars, Spare
<1>2. CASE Full
  <2>1. ram > BufferBytes + Spare /\ ram \in Nat /\ BufferBytes + Spare \in Nat
    BY <1>2, FullStep, Constants DEF TypeOK
  <2> QED
    BY <1>1, <2>1 DEF ImageFits
<1>3. CASE ~Full
  <2>1. pc' = "full" => pc = "full"
    BY <1>3 DEF Next, Persist, PutPart, PutRecord, EndRing, Unreadable, Return,
                vars, Then, Parts, Contexts
  <2> QED
    BY <1>1, <2>1 DEF ImageFits
<1> QED
  BY <1>2, <1>3

\* The inductive invariant, for every value of the constants.
THEOREM PayloadInvariant == Spec => []PayloadInv
<1>1. PayloadInv /\ [Next]_vars => PayloadInv'
  BY TypeStep, CountStep, OffsetStep, StartStep, FitsStep DEF PayloadInv
<1> QED
  BY <1>1, InitInv, PTL DEF Spec
-----------------------------------------------------------------------------
(* The results *)

\* No byte is put past the end of the staging buffer, whatever the rings hold
\* and however small the buffer is.
THEOREM TypeCorrect == Spec => []TypeOK
<1>1. Init => TypeOK
  BY InitInv DEF PayloadInv
<1> QED
  BY <1>1, TypeStep, PTL DEF Spec

\* Every whole image can be taken apart by a reader that knows the two counts.
THEOREM DecodableHolds == Spec => []Decodable
<1>1. PayloadInv => Decodable
  <2> SUFFICES ASSUME PayloadInv PROVE Decodable
    OBVIOUS
  <2>1. count["TASK"] \in Nat /\ count["ISR"] \in Nat
    BY DEF PayloadInv, TypeOK, Contexts
  <2> QED
    BY <2>1, SizeValues
       DEF PayloadInv, OffsetInv, StartInv, Decodable, Sizes, RecordsOffset,
           REF_SERIALIZED_FIRST_ABNORMAL_OFFSET, REF_SERIALIZED_FATAL_OFFSET
<1> QED
  BY <1>1, PayloadInvariant, PTL

\* For every configuration in which the retained RAM exceeds the buffer by no
\* more than Spare, persist() never fails for want of room.
THEOREM ImageFitsHolds == Spec => []ImageFits
<1>1. PayloadInv => ImageFits
  BY DEF PayloadInv
<1> QED
  BY <1>1, PayloadInvariant, PTL

\* With a reserved area of whole words a budget builds exactly if it has room for
\* two records, and less than a record of it goes unused.
THEOREM RingsHaveRoomHolds == Spec => []RingsHaveRoom
<1>1. PayloadInv => RingsHaveRoom
  <2> SUFFICES ASSUME PayloadInv, Reserved # 0, Reserved % 4 = 0
               PROVE  /\ \A b \in Budgets :
                           Builds(b) <=> b >= FixedBytes + 2 * RecordBytes
                      /\ StoreBytes(ram) <= ram
                      /\ ram - StoreBytes(ram) < RecordBytes
    BY DEF RingsHaveRoom
  <2>1. \A b \in Budgets : Builds(b) <=> b >= FixedBytes + 2 * RecordBytes
    BY RoomyBuilds, BuildsHaveRoom, Constants
  <2>2. ram \in Nat /\ ram >= FixedBytes
    BY Constants DEF PayloadInv, TypeOK, CountInv, Builds
  <2>3. /\ Total(ram) * 24 <= ram - FixedBytes
        /\ ram - FixedBytes < (Total(ram) + 1) * 24 /\ Total(ram) \in Nat
    BY <2>2, TotalBounds
  <2>4. StoreBytes(ram) = FixedBytes + Total(ram) * 24
    BY <2>2, NoPadding
  <2>5. StoreBytes(ram) <= ram /\ ram - StoreBytes(ram) < RecordBytes
    BY <2>2, <2>3, <2>4, Constants, SizeValues DEF Sizes
  <2> QED
    BY <2>1, <2>5
<1> QED
  BY <1>1, PayloadInvariant, PTL
=============================================================================
