------------------------------- MODULE Journal ------------------------------
(***************************************************************************)
(* The reference persistence adapter: two slots written in place, each     *)
(* with a transaction state and a commit marker, and volatile allocation   *)
(* counters rebuilt from the slots  (src/reference/                        *)
(* ir_reference_project.c).                                                *)
(*                                                                         *)
(* One service Task calls persist(), read_meta() and mark_exported(), so   *)
(* calls do not overlap; a restart may come between any two steps of       *)
(* persist() and keeps the slots.  A step is a group of stores that leaves *)
(* the slot as valid as it was.  The exporter holds the record id it read  *)
(* across calls, with calls of persist() in between.                       *)
(***************************************************************************)
EXTENDS Naturals, FiniteSets

CONSTANTS
    SlotCount,    \* REFERENCE_SLOT_COUNT
    IdMod,        \* modulus of the 32-bit public record id; id 0 is never used
    MaxGen        \* UINT64_MAX: persist() refuses when generations run out

ASSUME JournalAssumption ==
    /\ SlotCount \in Nat \ {0} /\ MaxGen \in Nat \ {0}
    /\ IdMod \in Nat /\ IdMod > SlotCount + 1

VARIABLES
    slots,             \* persistent
    nextGen, nextId,   \* g_next_generation, g_next_record_id
    pc, target, new,   \* persist() in progress: its slot, and header fields
    held,              \* record id the exporter works on, 0 if none
    heldGen,           \* history: generation that id named when it was read
    last               \* history: newest generation ever committed

vars == <<slots, nextGen, nextId, pc, target, new, held, heldGen, last>>

Slots == 1 .. SlotCount
Slot == [tx : {"EMPTY", "WRITING", "COMMITTED"}, magic : BOOLEAN,
         gen : 0 .. MaxGen, id : 0 .. (IdMod - 1),
         export : {"NONE", "PENDING", "EXPORTED"},
         payload : {"none", "part", "whole"}, marker : BOOLEAN]

\* RefClearSlot
Cleared == [tx |-> "EMPTY", magic |-> FALSE, gen |-> 0, id |-> 0,
            export |-> "NONE", payload |-> "none", marker |-> FALSE]
NoHeader == [gen |-> 0, id |-> 0]
-----------------------------------------------------------------------------
(* Reading the slots *)

\* Definitions named Bug... are variants with one plausible mistake; they show
\* that the properties notice it and are used nowhere else.
\* The checksum tells a whole payload from anything else.
BugSlotValid(s) == s.magic /\ s.tx # "EMPTY" /\ s.payload # "none"
SlotValid(s) == /\ s.magic /\ s.tx = "COMMITTED" /\ s.marker
                /\ s.payload = "whole"

RecoverSlot(s) ==
    IF s.tx = "EMPTY" THEN s
    ELSE IF ~SlotValid(s) THEN Cleared
    ELSE IF s.export = "NONE" THEN [s EXCEPT !.export = "PENDING"]
    ELSE s

Recovered == [i \in Slots |-> RecoverSlot(slots[i])]

\* Slot i of f is valid, of the given export states, and of the least or the
\* greatest generation among such slots.
Valid(f) == {i \in Slots : SlotValid(f[i])}
Pending(f) == {i \in Valid(f) : f[i].export = "PENDING"}
Exported(f) == {i \in Valid(f) : f[i].export = "EXPORTED"}
OldestOf(f, S) == CHOOSE i \in S : \A j \in S : f[i].gen <= f[j].gen
NewestOf(f, S) == CHOOSE i \in S : \A j \in S : f[i].gen >= f[j].gen

\* RefRecoverSlots, as every call of the adapter begins: discard incomplete
\* slots, then rebuild the counters from the newest record if there is one.
Recover(gen0, id0) ==
    IF Valid(Recovered) = {} THEN nextGen' = gen0 /\ nextId' = id0
    ELSE LET n == Recovered[NewestOf(Recovered, Valid(Recovered))] IN
         nextGen' = n.gen /\ nextId' = n.id

\* RefSelectTargetSlot: the first empty slot, else the oldest exported one.
Empty(f) == {i \in Slots : f[i].tx = "EMPTY"}
BugTargets(f) ==
    IF Empty(f) # {} THEN {i \in Empty(f) : \A j \in Empty(f) : i <= j}
    ELSE {OldestOf(f, Valid(f))}
Targets(f) ==
    IF Empty(f) # {} THEN {i \in Empty(f) : \A j \in Empty(f) : i <= j}
    ELSE IF Exported(f) # {} THEN {OldestOf(f, Exported(f))} ELSE {}

\* RefAllocateRecordId: the first unused of SlotCount + 1 candidates.
BugSucc(n) == n + 1
Succ(n) == IF (n + 1) % IdMod = 0 THEN 1 ELSE (n + 1) % IdMod
BugAttempts == SlotCount
Attempts == SlotCount + 1
InUse(f) == {f[i].id : i \in Valid(f)}
Candidates(from) ==
    LET candidate[k \in 1 .. Attempts] ==
          IF k = 1 THEN Succ(from) ELSE Succ(candidate[k - 1])
    IN  candidate
Free(f, from) == {k \in 1 .. Attempts : Candidates(from)[k] \notin InUse(f)}
Allocated(f, from) ==
    Candidates(from)[CHOOSE k \in Free(f, from) : \A j \in Free(f, from) : k <= j]
-----------------------------------------------------------------------------
Init ==
    /\ slots = [i \in Slots |-> Cleared]
    /\ nextGen = 0 /\ nextId = 0
    /\ pc = "idle" /\ target = 0 /\ new = NoHeader
    /\ held = 0 /\ heldGen = 0 /\ last = 0

(* persist() *)

\* Choose a slot, a generation and an id, then clear the slot.
PersistBegin ==
    /\ pc = "idle"
    /\ Recover(nextGen, nextId)
    /\ Targets(Recovered) # {} /\ nextGen' < MaxGen
    /\ Free(Recovered, nextId') # {}
    /\ target' \in Targets(Recovered)
    /\ new' = [gen |-> nextGen' + 1, id |-> Allocated(Recovered, nextId')]
    /\ slots' = [Recovered EXCEPT ![target'] = Cleared]
    /\ pc' = "cleared"
    /\ UNCHANGED <<held, heldGen, last>>

PersistRefused ==
    /\ pc = "idle"
    /\ Recover(nextGen, nextId)
    /\ slots' = Recovered
    /\ \/ Targets(Recovered) = {} \/ nextGen' = MaxGen
       \/ Free(Recovered, nextId') = {}
    /\ UNCHANGED <<pc, target, new, held, heldGen, last>>

WriteSlot(from, to, slot) ==
    /\ pc = from /\ pc' = to
    /\ slots' = [slots EXCEPT ![target] = slot]
    /\ UNCHANGED <<nextGen, nextId, target, new, held, heldGen>>

WriteHeader ==
    /\ WriteSlot("cleared", "header",
                 [slots[target] EXCEPT !.tx = "WRITING", !.magic = TRUE,
                      !.gen = new.gen, !.id = new.id, !.export = "PENDING"])
    /\ UNCHANGED last

WritePayload ==
    /\ \/ WriteSlot("header", "copying", [slots[target] EXCEPT !.payload = "part"])
       \/ WriteSlot("copying", "payload", [slots[target] EXCEPT !.payload = "whole"])
    /\ UNCHANGED last

\* The payload was verified; the record counts from its commit marker on.
WriteCommitted ==
    /\ WriteSlot("payload", "committed", [slots[target] EXCEPT !.tx = "COMMITTED"])
    /\ UNCHANGED last

WriteMarker ==
    /\ WriteSlot("committed", "marked", [slots[target] EXCEPT !.marker = TRUE])
    /\ last' = new.gen

PersistReturn ==
    /\ pc = "marked" /\ pc' = "idle"
    /\ nextGen' = new.gen /\ nextId' = new.id
    /\ target' = 0 /\ new' = NoHeader
    /\ UNCHANGED <<slots, held, heldGen, last>>

\* A write that fails, before or after the payload, leaves the slot as it is.
PersistFail ==
    /\ pc \in {"header", "payload"} /\ pc' = "idle"
    /\ target' = 0 /\ new' = NoHeader
    /\ UNCHANGED <<slots, nextGen, nextId, held, heldGen, last>>
-----------------------------------------------------------------------------
(* The exporter and the restart *)

Selected(f) == OldestOf(f, Pending(f))

\* has_pending(), read_payload() and a refused mark_exported(): recovery only.
Lookup ==
    /\ pc = "idle"
    /\ Recover(nextGen, nextId) /\ slots' = Recovered
    /\ UNCHANGED <<pc, target, new, held, heldGen, last>>

\* read_meta(): the oldest pending record.
ReadMeta ==
    /\ pc = "idle" /\ held = 0
    /\ Recover(nextGen, nextId) /\ slots' = Recovered
    /\ Pending(Recovered) # {}
    /\ held' = Recovered[Selected(Recovered)].id
    /\ heldGen' = Recovered[Selected(Recovered)].gen
    /\ UNCHANGED <<pc, target, new, last>>

\* mark_exported() of the record that was exported, or the export is given up.
MarkExported ==
    /\ pc = "idle" /\ held # 0
    /\ Recover(nextGen, nextId)
    /\ \E i \in Pending(Recovered) :
          /\ Recovered[i].id = held
          /\ slots' = [Recovered EXCEPT ![i].export = "EXPORTED"]
    /\ held' = 0 /\ heldGen' = 0
    /\ UNCHANGED <<pc, target, new, last>>

ExportAbort ==
    /\ pc = "idle" /\ held # 0
    /\ held' = 0 /\ heldGen' = 0
    /\ UNCHANGED <<slots, nextGen, nextId, pc, target, new, last>>

\* Volatile state is lost at any point; recovery runs on the way up.
Restart ==
    /\ Recover(0, 0) /\ slots' = Recovered
    /\ pc' = "idle" /\ target' = 0 /\ new' = NoHeader
    /\ held' = 0 /\ heldGen' = 0
    /\ UNCHANGED last

Next == \/ PersistBegin \/ PersistRefused \/ WriteHeader \/ WritePayload
        \/ WriteCommitted \/ WriteMarker \/ PersistReturn \/ PersistFail
        \/ Lookup \/ ReadMeta \/ MarkExported \/ ExportAbort \/ Restart

Spec == Init /\ [][Next]_vars
-----------------------------------------------------------------------------
(* Properties *)

\* Type invariant.
TypeOK ==
    /\ slots \in [Slots -> Slot]
    /\ nextGen \in 0 .. MaxGen /\ nextId \in 0 .. (IdMod - 1)
    /\ pc \in {"idle", "cleared", "header", "copying", "payload", "committed",
               "marked"}
    /\ target \in 0 .. SlotCount
    /\ new \in [gen : 0 .. MaxGen, id : 0 .. (IdMod - 1)]
    /\ held \in 0 .. (IdMod - 1) /\ heldGen \in 0 .. MaxGen
    /\ last \in 0 .. MaxGen

Records == {[gen |-> slots[i].gen, id |-> slots[i].id,
             exported |-> slots[i].export = "EXPORTED"] : i \in Valid(slots)}

Contract == INSTANCE JournalContract
              WITH Capacity <- SlotCount, records <- Records

\* The slots implement an atomic store: whatever step a restart interrupts, a
\* record is there whole or not at all, pending records are never reclaimed,
\* exports go oldest first, and the newest record always survives, so that
\* generations are never reused.
ContractKept == Contract!Spec

\* The id the exporter holds still names the record whose metadata it read,
\* however many records were stored and ids wrapped around in the meantime.
HeldIdStable ==
    held # 0 => \E i \in Pending(slots) : /\ slots[i].id = held
                                          /\ slots[i].gen = heldGen

\* SlotCount + 1 candidates are enough: persist() never fails for want of an id
\* (the comment at RefAllocateRecordId), and none it may give a record is 0, by
\* which an exporter knows that it holds none.
IdAlwaysFound ==
    \A n \in 0 .. (IdMod - 1) :
        /\ Free(slots, n) # {}
        /\ \A k \in Free(slots, n) : Candidates(n)[k] # 0
=============================================================================
