---------------------------- MODULE ExportProofs ----------------------------
(***************************************************************************)
(* Proofs about Export, for every capacity, payload length and retry       *)
(* interval, with or without verify(), and with requests at any time: what *)
(* is marked exported was copied, the record in work stays pending, no     *)
(* file is left open, nothing is exported unasked and no request is lost.  *)
(*                                                                         *)
(* The inductive invariant ExportInv ties the open file to the machine     *)
(* (its record, and as many chunks as were sent), and the closed file to   *)
(* the copies made.                                                        *)
(***************************************************************************)
EXTENDS Export, WellFoundedInduction, TLAPS

LEMMA Constants ==
  /\ Capacity \in Nat \ {0} /\ Chunks \in Nat \ {0} /\ MaxGen \in Nat \ {0}
  /\ MaxBoots \in Nat \ {0} /\ RetryInterval \in Nat /\ MaxFaults \in Nat
  /\ HasVerify \in BOOLEAN
  BY ExportAssumption

USE Constants

\* A generation names one record, none newer than the last.
RecordsInv ==
    \A r, s \in records : r.gen <= last /\ (r.gen = s.gen => r = s)

\* A step of the export runs only for a latched request, which is still owed
\* until the record is marked.
RequestInv ==
    /\ svc \in {"ended", "marked"} => requested /\ state = "FINALIZING"
    /\ requested /\ svc # "marked" => owed

FileInv ==
    /\ NoFileLeftOpen
    /\ svc \in {"ended", "marked"} => ~file.open
    /\ file.open => file.chunks = offset
    /\ state = "FINALIZING" => offset = Chunks
    /\ ~HasVerify => file.sound

CopyInv ==
    /\ ExportedIsCopied
    /\ svc = "ended" /\ file.of = id /\ file.chunks = Chunks /\ file.sound
         => id \in copies
    /\ svc = "ended" /\ ~HasVerify => id \in copies

ExportInv == TypeOK /\ RecordsInv /\ RequestInv /\ HeldRecordPending /\ FileInv
             /\ CopyInv
-----------------------------------------------------------------------------
(* Type correctness *)

\* If anything is pending, there is an oldest pending record.
LEMMA OldestPending ==
  ASSUME TypeOK, Pending # {}
  PROVE  Oldest \in Pending
<1> DEFINE T == {r.gen : r \in Pending}
<1>1. T \subseteq Nat /\ T # {}
  BY DEF TypeOK, Pending
<1>2. PICK m \in T : \A n \in T : ~(<<n, m>> \in OpToRel(<, Nat))
  BY <1>1, WFMin, NatLessThanWellFounded, Zenon
<1>3. \A n \in T : <<n, m>> \in Nat \X Nat
  BY <1>1
<1>4. \A n \in T : ~(n < m)
  BY <1>2, <1>3, Zenon DEF OpToRel
<1>5. \A n \in T : m <= n
  <2> HIDE DEF T
  <2> QED
    BY <1>1, <1>4
<1>6. \E r \in Pending : \A o \in Pending : r.gen <= o.gen
  BY <1>5
<1> QED
  BY <1>6 DEF Oldest

\* The Boolean variables, which Zenon handles, and the others, for SMT.
Flags == /\ requested \in BOOLEAN /\ cached \in BOOLEAN
         /\ available \in BOOLEAN /\ owed \in BOOLEAN

Ranges ==
    /\ records \subseteq [gen : 1 .. MaxGen, id : 1 .. MaxGen, exported : BOOLEAN]
    /\ last \in 0 .. MaxGen /\ retry \in 0 .. RetryInterval
    /\ state \in {"IDLE", "STREAMING", "FINALIZING"}
    /\ id \in 0 .. MaxGen /\ offset \in 0 .. Chunks
    /\ svc \in {"idle", "persist", "export", "ended", "marked"}
    /\ file \in [open : BOOLEAN, of : 0 .. MaxGen, chunks : 0 .. Chunks,
                 sound : BOOLEAN]
    /\ copies \subseteq 0 .. MaxGen
    /\ boots \in 1 .. MaxBoots /\ faults \in 0 .. MaxFaults

LEMMA TypeParts == TypeOK <=> Flags /\ Ranges
  BY Zenon DEF TypeOK, Flags, Ranges

LEMMA TypeInit == Init => TypeOK
<1>1. Init => Flags
  BY Zenon DEF Init, Flags
<1>2. Init => Ranges
  BY DEF Init, Ranges, Store!Init, NoFile
<1> QED
  BY <1>1, <1>2, TypeParts

LEMMA FlagsStep == Flags /\ [Next]_vars => Flags'
<1> SUFFICES ASSUME Flags, [Next]_vars PROVE Flags'
  OBVIOUS
<1> USE DEF Flags, vars, store, latch, dest, history, RetryLater
<1>1. CASE Request \/ RequestInTick
  BY <1>1, Zenon DEF Request, RequestInTick
<1>2. CASE PrepareService
  BY <1>2, Zenon DEF PrepareService, Refresh, PersistReclaim, PersistStore,
                     PersistNothing
<1>3. CASE NotRequested \/ CountDown \/ Begin \/ BeginRefused
  BY <1>3, Zenon DEF NotRequested, CountDown, Begin, Opened, BeginRefused
<1>4. CASE SendChunk \/ SendFailed \/ AllSent
  BY <1>4, Zenon DEF SendChunk, Appended, SendFailed, AllSent, AbortExport
<1>5. CASE End \/ EndFailed \/ VerifyFailed
  BY <1>5, Zenon DEF End, Closed, EndFailed, VerifyFailed, AbortExport
<1>6. CASE MarkExported \/ MarkFailed \/ Finish
  BY <1>6, Zenon DEF MarkExported, MarkFailed, Finish, RequestDone
<1>7. CASE Remove \/ Insert \/ Restart \/ UNCHANGED vars
  BY <1>7, Zenon DEF Remove, Insert, Restart
<1> QED
  BY <1>1, <1>2, <1>3, <1>4, <1>5, <1>6, <1>7 DEF Next, ExportStep

\* A chunk that is sent fits, because the file holds as many as the offset says.
LEMMA RangesStep == TypeOK /\ FileInv /\ [Next]_vars => Ranges'
<1> SUFFICES ASSUME TypeOK, FileInv, Ranges, [Next]_vars PROVE Ranges'
  BY TypeParts
<1> USE DEF vars, store, latch, machine, dest, history, Failing, RetryLater,
            ResetMachine, AbortExport, Abort, NoFile, Ready, Ranges
<1>1. CASE Request
  BY <1>1 DEF Request
<1>2. CASE RequestInTick
  BY <1>2 DEF RequestInTick
<1>3. CASE Refresh
  BY <1>3 DEF Refresh
<1>4. CASE PersistReclaim
  BY <1>4 DEF PersistReclaim, Store!Forget
<1>5. CASE PersistStore
  <2> DEFINE r == [gen |-> last + 1, id |-> last + 1, exported |-> FALSE]
  <2>1. last + 1 \in 1 .. MaxGen
    BY <1>5 DEF PersistStore
  <2>2. records' = records \union {r} /\ last' = last + 1
    BY <1>5 DEF PersistStore, Store!Store
  <2>3. records' \subseteq [gen : 1 .. MaxGen, id : 1 .. MaxGen,
                           exported : BOOLEAN]
    <3>1. r \in [gen : 1 .. MaxGen, id : 1 .. MaxGen, exported : BOOLEAN]
      BY <2>1
    <3> HIDE DEF r
    <3> QED
      BY <2>2, <3>1
  <2> QED
    BY <1>5, <2>1, <2>2, <2>3 DEF PersistStore
<1>6. CASE PersistNothing
  BY <1>6 DEF PersistNothing
<1>7. CASE NotRequested
  BY <1>7 DEF NotRequested
<1>8. CASE CountDown
  BY <1>8 DEF CountDown
<1>9. CASE Begin
  <2>1. Oldest \in records
    BY <1>9, OldestPending DEF Begin, Opened, Pending
  <2>2. file' = [open |-> TRUE, of |-> Oldest.gen, chunks |-> 0, sound |-> TRUE]
    BY <1>9 DEF Begin, Opened
  <2>3. file' \in [open : BOOLEAN, of : 0 .. MaxGen, chunks : 0 .. Chunks,
                  sound : BOOLEAN]
    BY <2>1, <2>2
  <2> QED
    BY <1>9, <2>1, <2>3 DEF Begin, Opened
<1>10. CASE BeginRefused
  <2>1. CASE Pending = {} \/ ~available
    BY <1>10, <2>1 DEF BeginRefused
  <2>2. CASE ~(Pending = {} \/ ~available)
    <3>1. Oldest \in records
      BY <2>2, OldestPending DEF Pending
    <3> QED
      BY <1>10, <2>2, <3>1 DEF BeginRefused
  <2> QED
    BY <2>1, <2>2
<1>11. CASE SendChunk
  <2>1. file.chunks + 1 \in 0 .. Chunks
    BY <1>11 DEF SendChunk, Appended, Left, FileInv
  <2>2. file' \in [open : BOOLEAN, of : 0 .. MaxGen, chunks : 0 .. Chunks,
                  sound : BOOLEAN]
    BY <1>11, <2>1 DEF SendChunk, Appended
  <2>3. faults' \in 0 .. MaxFaults /\ offset' \in 0 .. Chunks
    BY <1>11 DEF SendChunk, Appended, Left
  <2> QED
    BY <1>11, <2>2, <2>3 DEF SendChunk, Appended
<1>12. CASE SendFailed
  BY <1>12 DEF SendFailed
<1>13. CASE AllSent
  BY <1>13 DEF AllSent
<1>14. CASE End
  <2>1. file' \in [open : BOOLEAN, of : 0 .. MaxGen, chunks : 0 .. Chunks,
                  sound : BOOLEAN]
    BY <1>14 DEF End, Closed
  <2>2. copies' \subseteq 0 .. MaxGen
    BY <1>14 DEF End, Closed
  <2> QED
    BY <1>14, <2>1, <2>2 DEF End, Closed
<1>15. CASE EndFailed
  BY <1>15 DEF EndFailed
<1>16. CASE VerifyFailed
  BY <1>16 DEF VerifyFailed
<1>17. CASE MarkExported
  <2>1. PICK r \in records : Store!Export(r)
    BY <1>17 DEF MarkExported
  <2> DEFINE e == [gen |-> r.gen, id |-> r.id, exported |-> TRUE]
  <2>2. r.gen \in 1 .. MaxGen /\ r.id \in 1 .. MaxGen
    OBVIOUS
  <2>3. e \in [gen : 1 .. MaxGen, id : 1 .. MaxGen, exported : BOOLEAN]
    BY <2>2
  <2>4. records' = (records \ {r}) \union {e} /\ last' = last
    BY <2>1 DEF Store!Export
  <2> HIDE DEF e
  <2> QED
    BY <1>17, <2>3, <2>4 DEF MarkExported
<1>18. CASE MarkFailed
  BY <1>18 DEF MarkFailed
<1>19. CASE Finish
  BY <1>19 DEF Finish, RequestDone
<1>20. CASE Remove
  BY <1>20 DEF Remove
<1>21. CASE Insert
  BY <1>21 DEF Insert
<1>22. CASE Restart
  BY <1>22 DEF Restart
<1>23. CASE UNCHANGED vars
  BY <1>23
<1> QED
  BY <1>1, <1>2, <1>3, <1>4, <1>5, <1>6, <1>7, <1>8, <1>9, <1>10, <1>11,
     <1>12, <1>13, <1>14, <1>15, <1>16, <1>17, <1>18, <1>19, <1>20, <1>21,
     <1>22, <1>23 DEF Next, PrepareService, ExportStep

LEMMA TypeStep == TypeOK /\ FileInv /\ [Next]_vars => TypeOK'
  BY FlagsStep, RangesStep, TypeParts DEF TypeOK, Flags, Ranges

LEMMA FileStep == TypeOK /\ FileInv /\ [Next]_vars => FileInv'
<1> SUFFICES ASSUME TypeOK, FileInv, [Next]_vars PROVE FileInv'
  OBVIOUS
<1>0. Ranges
  BY TypeParts
<1> USE DEF Ranges, FileInv, NoFileLeftOpen, vars, store, latch, machine, dest, history,
            RetryLater, ResetMachine, AbortExport, Abort, NoFile, Ready
<1>1. CASE Request
  BY <1>0, <1>1 DEF Request
<1>2. CASE RequestInTick
  BY <1>0, <1>2 DEF RequestInTick
<1>3. CASE Refresh
  BY <1>0, <1>3 DEF Refresh
<1>4. CASE PersistReclaim
  BY <1>0, <1>4 DEF PersistReclaim
<1>5. CASE PersistStore
  BY <1>0, <1>5 DEF PersistStore
<1>6. CASE PersistNothing
  BY <1>0, <1>6 DEF PersistNothing
<1>7. CASE NotRequested
  BY <1>0, <1>7 DEF NotRequested
<1>8. CASE CountDown
  BY <1>0, <1>8 DEF CountDown
<1>9. CASE Begin
  <2>1. file' = [open |-> TRUE, of |-> Oldest.gen, chunks |-> 0, sound |-> TRUE]
    BY <1>9 DEF Begin, Opened, NoFile
  <2> QED
    BY <1>0, <1>9, <2>1 DEF Begin, Opened
<1>10. CASE BeginRefused
  BY <1>0, <1>10 DEF BeginRefused
<1>11. CASE SendChunk
  BY <1>0, <1>11 DEF SendChunk, Appended
<1>12. CASE SendFailed
  BY <1>0, <1>12 DEF SendFailed
<1>13. CASE AllSent
  <2>1. offset = Chunks
    BY <1>0, <1>13 DEF AllSent, Left
  <2> QED
    BY <1>0, <1>13, <2>1 DEF AllSent
<1>14. CASE End
  BY <1>0, <1>14 DEF End, Closed
<1>15. CASE EndFailed
  BY <1>0, <1>15 DEF EndFailed
<1>16. CASE VerifyFailed
  BY <1>0, <1>16 DEF VerifyFailed
<1>17. CASE MarkExported
  BY <1>0, <1>17 DEF MarkExported
<1>18. CASE MarkFailed
  BY <1>0, <1>18 DEF MarkFailed
<1>19. CASE Finish
  BY <1>0, <1>19 DEF Finish, RequestDone
<1>20. CASE Remove
  BY <1>0, <1>20 DEF Remove
<1>21. CASE Insert
  BY <1>0, <1>21 DEF Insert
<1>22. CASE Restart
  BY <1>0, <1>22 DEF Restart
<1>23. CASE UNCHANGED vars
  BY <1>0, <1>23
<1> QED
  BY <1>1, <1>2, <1>3, <1>4, <1>5, <1>6, <1>7, <1>8, <1>9, <1>10, <1>11,
     <1>12, <1>13, <1>14, <1>15, <1>16, <1>17, <1>18, <1>19, <1>20, <1>21,
     <1>22, <1>23 DEF Next, PrepareService, ExportStep

\* Every variable of the export machine stays in its type: in particular the
\* offset never passes the payload length.
THEOREM TypeCorrect == Spec => []TypeOK
<1>1. Init => TypeOK /\ FileInv
  BY TypeInit DEF Init, FileInv, NoFileLeftOpen, NoFile
<1> QED
  BY <1>1, TypeStep, FileStep, PTL DEF Spec

\* Every file begun is ended or aborted before the machine is idle again,
\* wherever a step of the export fails.
THEOREM NoFileLeftOpenHolds == Spec => []NoFileLeftOpen
<1>1. Init => TypeOK /\ FileInv
  BY TypeInit DEF Init, FileInv, NoFileLeftOpen, NoFile
<1>2. FileInv => NoFileLeftOpen
  BY DEF FileInv
<1> QED
  BY <1>1, <1>2, TypeStep, FileStep, PTL DEF Spec
-----------------------------------------------------------------------------
(* The store, the request and the copies *)

LEMMA RecordsStep == TypeOK /\ RecordsInv /\ [Next]_vars => RecordsInv'
<1> SUFFICES ASSUME TypeOK, RecordsInv, [Next]_vars PROVE RecordsInv'
  OBVIOUS
<1>0. Ranges
  BY TypeParts
<1> USE DEF Ranges, RecordsInv, vars, store, latch, machine, dest, history, RetryLater,
            ResetMachine, AbortExport, Abort, NoFile, Ready
<1>1. CASE Request
  BY <1>0, <1>1 DEF Request
<1>2. CASE RequestInTick
  BY <1>0, <1>2 DEF RequestInTick
<1>3. CASE Refresh
  BY <1>0, <1>3 DEF Refresh
<1>4. CASE PersistReclaim
  BY <1>0, <1>4 DEF PersistReclaim, Store!Forget
<1>5. CASE PersistStore
  <2>1. /\ records' = records \union {[gen |-> last + 1, id |-> last + 1,
                                     exported |-> FALSE]}
        /\ last' = last + 1 /\ last \in Nat
    BY <1>0, <1>5 DEF PersistStore, Store!Store
  <2>2. \A r \in records' : r.gen <= last' /\ (r \notin records => r.gen = last')
    BY <1>0, <2>1
  <2>3. \A r \in records : r.gen < last'
    BY <1>0, <2>1
  <2>4. \A r, q \in records' : r \notin records /\ q \notin records => r = q
    BY <2>1
  <2>5. last' \in Nat
    BY <2>1
  <2>6. ASSUME NEW r \in records', NEW q \in records', r.gen = q.gen
        PROVE  r = q
    BY <2>2, <2>3, <2>4, <2>5, <2>6
  <2> QED
    BY <2>2, <2>6
<1>6. CASE PersistNothing
  BY <1>0, <1>6 DEF PersistNothing
<1>7. CASE NotRequested
  BY <1>0, <1>7 DEF NotRequested
<1>8. CASE CountDown
  BY <1>0, <1>8 DEF CountDown
<1>9. CASE Begin
  BY <1>0, <1>9 DEF Begin, Opened
<1>10. CASE BeginRefused
  BY <1>0, <1>10 DEF BeginRefused
<1>11. CASE SendChunk
  BY <1>0, <1>11 DEF SendChunk, Appended
<1>12. CASE SendFailed
  BY <1>0, <1>12 DEF SendFailed
<1>13. CASE AllSent
  BY <1>0, <1>13 DEF AllSent
<1>14. CASE End
  BY <1>0, <1>14 DEF End, Closed
<1>15. CASE EndFailed
  BY <1>0, <1>15 DEF EndFailed
<1>16. CASE VerifyFailed
  BY <1>0, <1>16 DEF VerifyFailed
<1>17. CASE MarkExported
  <2>1. PICK r \in records : Store!Export(r)
    BY <1>17 DEF MarkExported
  <2> DEFINE e == [gen |-> r.gen, id |-> r.id, exported |-> TRUE]
  <2>2. records' = (records \ {r}) \union {e} /\ last' = last
    BY <2>1 DEF Store!Export
  <2>3. e.gen = r.gen /\ e.id = r.id
    OBVIOUS
  <2> HIDE DEF e
  <2> QED
    BY <1>0, <2>2, <2>3
<1>18. CASE MarkFailed
  BY <1>0, <1>18 DEF MarkFailed
<1>19. CASE Finish
  BY <1>0, <1>19 DEF Finish, RequestDone
<1>20. CASE Remove
  BY <1>0, <1>20 DEF Remove
<1>21. CASE Insert
  BY <1>0, <1>21 DEF Insert
<1>22. CASE Restart
  BY <1>0, <1>22 DEF Restart
<1>23. CASE UNCHANGED vars
  BY <1>0, <1>23
<1> QED
  BY <1>1, <1>2, <1>3, <1>4, <1>5, <1>6, <1>7, <1>8, <1>9, <1>10, <1>11,
     <1>12, <1>13, <1>14, <1>15, <1>16, <1>17, <1>18, <1>19, <1>20, <1>21,
     <1>22, <1>23 DEF Next, PrepareService, ExportStep

LEMMA RequestStep == TypeOK /\ RequestInv /\ [Next]_vars => RequestInv'
<1> SUFFICES ASSUME TypeOK, RequestInv, [Next]_vars PROVE RequestInv'
  OBVIOUS
<1>0. Ranges
  BY TypeParts
<1> USE DEF Ranges, RequestInv, vars, store, latch, machine, dest, history, RetryLater,
            ResetMachine, AbortExport, Abort, NoFile, Ready
<1>1. CASE Request
  BY <1>0, <1>1 DEF Request
<1>2. CASE RequestInTick
  BY <1>0, <1>2 DEF RequestInTick
<1>3. CASE Refresh
  BY <1>0, <1>3 DEF Refresh
<1>4. CASE PersistReclaim
  BY <1>0, <1>4 DEF PersistReclaim
<1>5. CASE PersistStore
  BY <1>0, <1>5 DEF PersistStore
<1>6. CASE PersistNothing
  BY <1>0, <1>6 DEF PersistNothing
<1>7. CASE NotRequested
  BY <1>0, <1>7 DEF NotRequested
<1>8. CASE CountDown
  BY <1>0, <1>8 DEF CountDown
<1>9. CASE Begin
  BY <1>0, <1>9 DEF Begin, Opened
<1>10. CASE BeginRefused
  BY <1>0, <1>10 DEF BeginRefused
<1>11. CASE SendChunk
  BY <1>0, <1>11 DEF SendChunk, Appended
<1>12. CASE SendFailed
  BY <1>0, <1>12 DEF SendFailed
<1>13. CASE AllSent
  BY <1>0, <1>13 DEF AllSent
<1>14. CASE End
  BY <1>0, <1>14 DEF End, Closed
<1>15. CASE EndFailed
  BY <1>0, <1>15 DEF EndFailed
<1>16. CASE VerifyFailed
  BY <1>0, <1>16 DEF VerifyFailed
<1>17. CASE MarkExported
  BY <1>0, <1>17 DEF MarkExported
<1>18. CASE MarkFailed
  BY <1>0, <1>18 DEF MarkFailed
<1>19. CASE Finish
  BY <1>0, <1>19 DEF Finish, RequestDone
<1>20. CASE Remove
  BY <1>0, <1>20 DEF Remove
<1>21. CASE Insert
  BY <1>0, <1>21 DEF Insert
<1>22. CASE Restart
  BY <1>0, <1>22 DEF Restart
<1>23. CASE UNCHANGED vars
  BY <1>0, <1>23
<1> QED
  BY <1>1, <1>2, <1>3, <1>4, <1>5, <1>6, <1>7, <1>8, <1>9, <1>10, <1>11,
     <1>12, <1>13, <1>14, <1>15, <1>16, <1>17, <1>18, <1>19, <1>20, <1>21,
     <1>22, <1>23 DEF Next, PrepareService, ExportStep

LEMMA HeldStep == TypeOK /\ RequestInv /\ RecordsInv /\ HeldRecordPending /\ [Next]_vars => HeldRecordPending'
<1> SUFFICES ASSUME TypeOK, RequestInv, RecordsInv, HeldRecordPending, [Next]_vars PROVE HeldRecordPending'
  OBVIOUS
<1>0. Ranges
  BY TypeParts
<1> USE DEF Ranges, RequestInv, HeldRecordPending, Pending, vars, store, latch, machine, dest, history, RetryLater,
            ResetMachine, AbortExport, Abort, NoFile, Ready
<1>1. CASE Request
  BY <1>0, <1>1 DEF Request
<1>2. CASE RequestInTick
  BY <1>0, <1>2 DEF RequestInTick
<1>3. CASE Refresh
  BY <1>0, <1>3 DEF Refresh
<1>4. CASE PersistReclaim
  BY <1>0, <1>4 DEF PersistReclaim, Store!Forget
<1>5. CASE PersistStore
  BY <1>0, <1>5 DEF PersistStore, Store!Store
<1>6. CASE PersistNothing
  BY <1>0, <1>6 DEF PersistNothing
<1>7. CASE NotRequested
  BY <1>0, <1>7 DEF NotRequested
<1>8. CASE CountDown
  BY <1>0, <1>8 DEF CountDown
<1>9. CASE Begin
  <2>1. Oldest \in Pending
    BY <1>9, OldestPending DEF Begin, Opened
  <2>2. id' = Oldest.gen /\ UNCHANGED records
    BY <1>9 DEF Begin, Opened
  <2> QED
    BY <2>1, <2>2
<1>10. CASE BeginRefused
  BY <1>0, <1>10 DEF BeginRefused
<1>11. CASE SendChunk
  BY <1>0, <1>11 DEF SendChunk, Appended
<1>12. CASE SendFailed
  BY <1>0, <1>12 DEF SendFailed
<1>13. CASE AllSent
  BY <1>0, <1>13 DEF AllSent
<1>14. CASE End
  BY <1>0, <1>14 DEF End, Closed
<1>15. CASE EndFailed
  BY <1>0, <1>15 DEF EndFailed
<1>16. CASE VerifyFailed
  BY <1>0, <1>16 DEF VerifyFailed
<1>17. CASE MarkExported
  BY <1>0, <1>17 DEF MarkExported, Store!Export
<1>18. CASE MarkFailed
  BY <1>0, <1>18 DEF MarkFailed
<1>19. CASE Finish
  BY <1>0, <1>19 DEF Finish, RequestDone
<1>20. CASE Remove
  BY <1>0, <1>20 DEF Remove
<1>21. CASE Insert
  BY <1>0, <1>21 DEF Insert
<1>22. CASE Restart
  BY <1>0, <1>22 DEF Restart
<1>23. CASE UNCHANGED vars
  BY <1>0, <1>23
<1> QED
  BY <1>1, <1>2, <1>3, <1>4, <1>5, <1>6, <1>7, <1>8, <1>9, <1>10, <1>11,
     <1>12, <1>13, <1>14, <1>15, <1>16, <1>17, <1>18, <1>19, <1>20, <1>21,
     <1>22, <1>23 DEF Next, PrepareService, ExportStep

LEMMA CopyStep == TypeOK /\ FileInv /\ RequestInv /\ RecordsInv /\ CopyInv /\ [Next]_vars => CopyInv'
<1> SUFFICES ASSUME TypeOK, FileInv, RequestInv, RecordsInv, CopyInv, [Next]_vars PROVE CopyInv'
  OBVIOUS
<1>0. Ranges
  BY TypeParts
<1> USE DEF Ranges, FileInv, NoFileLeftOpen, RequestInv, RecordsInv, CopyInv,
            ExportedIsCopied, Verified, vars, store, latch, machine, dest, history, RetryLater,
            ResetMachine, AbortExport, Abort, NoFile, Ready
<1>1. CASE Request
  BY <1>0, <1>1 DEF Request
<1>2. CASE RequestInTick
  BY <1>0, <1>2 DEF RequestInTick
<1>3. CASE Refresh
  BY <1>0, <1>3 DEF Refresh
<1>4. CASE PersistReclaim
  BY <1>0, <1>4 DEF PersistReclaim, Store!Forget
<1>5. CASE PersistStore
  BY <1>0, <1>5 DEF PersistStore, Store!Store
<1>6. CASE PersistNothing
  BY <1>0, <1>6 DEF PersistNothing
<1>7. CASE NotRequested
  BY <1>0, <1>7 DEF NotRequested
<1>8. CASE CountDown
  BY <1>0, <1>8 DEF CountDown
<1>9. CASE Begin
  <2>1. svc' = "idle" /\ UNCHANGED <<records, copies>>
    BY <1>9 DEF Begin, Opened
  <2> QED
    BY <2>1
<1>10. CASE BeginRefused
  BY <1>0, <1>10 DEF BeginRefused
<1>11. CASE SendChunk
  BY <1>0, <1>11 DEF SendChunk, Appended
<1>12. CASE SendFailed
  BY <1>0, <1>12 DEF SendFailed
<1>13. CASE AllSent
  BY <1>0, <1>13 DEF AllSent
<1>14. CASE End
  BY <1>0, <1>14 DEF End, Closed
<1>15. CASE EndFailed
  BY <1>0, <1>15 DEF EndFailed
<1>16. CASE VerifyFailed
  BY <1>0, <1>16 DEF VerifyFailed
<1>17. CASE MarkExported
  BY <1>0, <1>17 DEF MarkExported, Store!Export
<1>18. CASE MarkFailed
  BY <1>0, <1>18 DEF MarkFailed
<1>19. CASE Finish
  BY <1>0, <1>19 DEF Finish, RequestDone
<1>20. CASE Remove
  BY <1>0, <1>20 DEF Remove
<1>21. CASE Insert
  BY <1>0, <1>21 DEF Insert
<1>22. CASE Restart
  BY <1>0, <1>22 DEF Restart
<1>23. CASE UNCHANGED vars
  BY <1>0, <1>23
<1> QED
  BY <1>1, <1>2, <1>3, <1>4, <1>5, <1>6, <1>7, <1>8, <1>9, <1>10, <1>11,
     <1>12, <1>13, <1>14, <1>15, <1>16, <1>17, <1>18, <1>19, <1>20, <1>21,
     <1>22, <1>23 DEF Next, PrepareService, ExportStep

LEMMA InitInv == Init => ExportInv
<1> SUFFICES ASSUME Init PROVE ExportInv
  OBVIOUS
<1>1. RecordsInv /\ RequestInv /\ HeldRecordPending /\ CopyInv
  BY DEF Init, Store!Init, RecordsInv, RequestInv, HeldRecordPending, CopyInv,
         ExportedIsCopied
<1>2. FileInv
  BY DEF Init, FileInv, NoFileLeftOpen, NoFile
<1> QED
  BY <1>1, <1>2, TypeInit DEF ExportInv

\* The inductive invariant, for every value of the constants.
THEOREM ExportInvariant == Spec => []ExportInv
<1>1. ExportInv /\ [Next]_vars => ExportInv'
  BY TypeStep, FileStep, RecordsStep, RequestStep, HeldStep, CopyStep
     DEF ExportInv
<1> QED
  BY <1>1, InitInv, PTL DEF Spec

\* Only records of which a whole, sound copy was closed are marked exported,
\* and may be reclaimed: for every payload length, whatever fails or is removed.
THEOREM ExportedIsCopiedHolds == Spec => []ExportedIsCopied
<1>1. ExportInv => ExportedIsCopied
  BY DEF ExportInv, CopyInv
<1> QED
  BY <1>1, ExportInvariant, PTL

\* The record an export works on stays in the store and pending, for every
\* capacity and however much is stored between two chunks.
THEOREM HeldRecordPendingHolds == Spec => []HeldRecordPending
<1>1. ExportInv => HeldRecordPending
  BY DEF ExportInv
<1> QED
  BY <1>1, ExportInvariant, PTL
-----------------------------------------------------------------------------
(* The contract *)

LEMMA ContractInit == Init => Contract!Init
  BY DEF Init, Store!Init, Contract!Init, Contract!Store!Init

LEMMA ContractStep ==
  ExportInv /\ [Next]_vars => [Contract!Next]_(Contract!vars)
<1> SUFFICES ASSUME ExportInv, [Next]_vars
             PROVE  Contract!Next \/ UNCHANGED Contract!vars
  OBVIOUS
<1> USE DEF vars, store, latch, machine, dest, history, Contract!vars
<1>1. CASE Request \/ RequestInTick
  <2>1. owed \in BOOLEAN
    BY Zenon DEF ExportInv, TypeOK
  <2>2. CASE Request /\ svc = "marked"
    <3>1. owed' = owed
      BY <2>1, <2>2, Zenon DEF Request
    <3> QED
      BY <2>2, <3>1 DEF Request
  <2>3. CASE RequestInTick \/ svc # "marked"
    <3>1. owed' = TRUE
      BY <1>1, <2>3, Zenon DEF Request, RequestInTick
    <3>2. Contract!Ask
      BY <1>1, <3>1 DEF Request, RequestInTick, Contract!Ask
    <3> QED
      BY <3>2 DEF Contract!Next
  <2> QED
    BY <1>1, <2>2, <2>3
<1>2. CASE PersistReclaim
  <2>1. Contract!Keep
    BY <1>2 DEF PersistReclaim, Store!Forget, Contract!Keep,
                Contract!Store!Forget
  <2> QED
    BY <2>1 DEF Contract!Next
<1>3. CASE PersistStore
  <2> DEFINE r == [gen |-> last + 1, id |-> last + 1, exported |-> FALSE]
  <2>1. Store!Store(r) /\ UNCHANGED <<owed, boots>>
    BY <1>3 DEF PersistStore
  <2>2. r \in records'
    BY <2>1 DEF Store!Store
  <2>3. Contract!Store!Store(r)
    <3>1. Contract!Store!Cardinality(records') = Store!Cardinality(records')
      BY Zenon DEF Store!Cardinality, Contract!Store!Cardinality
    <3> QED
      BY <2>1, <3>1 DEF Store!Store, Contract!Store!Store
  <2> HIDE DEF r
  <2>4. Contract!Keep
    BY <2>1, <2>2, <2>3 DEF Contract!Keep
  <2> QED
    BY <2>4 DEF Contract!Next
<1>4. CASE MarkExported
  <2>1. owed
    BY <1>4 DEF MarkExported, ExportInv, RequestInv
  <2>2. PICK r \in records : Store!Export(r)
    BY <1>4 DEF MarkExported
  <2>3. Contract!Store!Export(r)
    BY <2>2 DEF Store!Export, Contract!Store!Export
  <2>4. Contract!Serve
    BY <1>4, <2>1, <2>3 DEF MarkExported, Contract!Serve
  <2> QED
    BY <2>4 DEF Contract!Next
<1>5. CASE Restart
  <2>1. Contract!Restart
    BY <1>5 DEF Restart, Contract!Restart
  <2> QED
    BY <2>1 DEF Contract!Next
<1>6. CASE Refresh \/ PersistNothing \/ NotRequested \/ CountDown
  BY <1>6 DEF Refresh, PersistNothing, NotRequested, CountDown
<1>7. CASE Begin \/ BeginRefused \/ SendChunk \/ SendFailed \/ AllSent
  BY <1>7 DEF Begin, Opened, BeginRefused, SendChunk, Appended, SendFailed, AllSent
<1>8. CASE End \/ EndFailed \/ VerifyFailed \/ MarkFailed \/ Finish
  BY <1>8 DEF End, Closed, EndFailed, VerifyFailed, MarkFailed, Finish
<1>9. CASE Remove \/ Insert \/ UNCHANGED vars
  BY <1>9 DEF Remove, Insert
<1> QED
  BY <1>1, <1>2, <1>3, <1>4, <1>5, <1>6, <1>7, <1>8, <1>9
     DEF Next, PrepareService, ExportStep

\* For every value of the constants and with requests in any context, the state
\* machine implements the safety part of ExportContract: one request exports
\* at most one record, the oldest pending one, in the boot it was made in.
THEOREM ContractKeptHolds == Spec => ContractKept
  BY ContractInit, ContractStep, ExportInvariant, PTL
     DEF Spec, Contract!Spec, ContractKept
-----------------------------------------------------------------------------
(* Requests *)

LatchInv == RequestLatched /\ (svc = "marked" => ~owed)

LEMMA LatchStep == LatchInv /\ [Next]_vars => LatchInv'
<1> SUFFICES ASSUME LatchInv, [Next]_vars PROVE LatchInv'
  OBVIOUS
<1> USE DEF LatchInv, RequestLatched, vars, store, latch, dest, history,
            RetryLater, AbortExport
<1>1. CASE Request \/ RequestInTick
  <2>1. CASE Request
    <3>1. svc = "marked" => (owed' <=> owed)
      BY <2>1, Zenon DEF Request
    <3> QED
      BY <2>1, <3>1, Zenon DEF Request
  <2>2. CASE RequestInTick
    BY <2>2, Zenon DEF RequestInTick
  <2> QED
    BY <1>1, <2>1, <2>2
<1>2. CASE PrepareService
  BY <1>2 DEF PrepareService, Refresh, PersistReclaim, PersistStore,
              PersistNothing
<1>3. CASE NotRequested \/ CountDown \/ Begin \/ BeginRefused
  BY <1>3 DEF NotRequested, CountDown, Begin, Opened, BeginRefused
<1>4. CASE SendChunk \/ SendFailed \/ AllSent
  BY <1>4 DEF SendChunk, Appended, SendFailed, AllSent
<1>5. CASE End \/ EndFailed \/ VerifyFailed
  BY <1>5 DEF End, Closed, EndFailed, VerifyFailed
<1>6. CASE MarkExported \/ MarkFailed \/ Finish
  BY <1>6 DEF MarkExported, MarkFailed, Finish, RequestDone
<1>7. CASE Remove \/ Insert \/ Restart \/ UNCHANGED vars
  BY <1>7 DEF Remove, Insert, Restart
<1> QED
  BY <1>1, <1>2, <1>3, <1>4, <1>5, <1>6, <1>7 DEF Next, ExportStep

\* An accepted request stays latched until a record is exported for it, through
\* every failure and retry, unless it preempts the service as it ends an export.
THEOREM RequestLatchedHolds == Spec => []RequestLatched
<1>1. Init => LatchInv
  BY DEF Init, LatchInv, RequestLatched
<1>2. LatchInv => RequestLatched
  BY DEF LatchInv
<1> QED
  BY <1>1, <1>2, LatchStep, PTL DEF Spec
=============================================================================
