------------------------------- MODULE System -------------------------------
(***************************************************************************)
(* The recorder composed with its persistent store and its exporter: what  *)
(* Recorder calls the archive is a bounded store (JournalContract, which   *)
(* Journal implements), full of evidence nobody fetched until a user       *)
(* exports it (ExportContract, which Export implements).                   *)
(*                                                                         *)
(* One service call persists first and exports then, so a store or an      *)
(* export falls between two steps of the recorder.                         *)
(***************************************************************************)
EXTENDS Recorder

CONSTANTS
    Capacity,   \* records the store holds
    MaxGen      \* bound: records stored

ASSUME SystemAssumption == Capacity \in Nat \ {0, 1} /\ MaxGen \in Nat \ {0}

VARIABLES
    records, last,   \* the store
    stored           \* history: the image this boot stored last, or none

store   == <<records, last>>
sysVars == <<vars, store, stored>>

Store == INSTANCE JournalContract

NoImage == ZeroSource

SysInit == Init /\ Store!Init /\ stored = NoImage
-----------------------------------------------------------------------------
(* persist(): reclaim an exported record, store a new one, or refuse *)

\* Definitions named Bug... are variants with one plausible mistake; they show
\* that the properties notice it and are used nowhere else.
BugReclaim ==
    /\ CanServe /\ svc = "persisting"
    /\ Cardinality(records) > Capacity
    /\ \E r \in records : Store!Forget(r)
    /\ UNCHANGED <<vars, stored>>

Reclaim ==
    /\ CanServe /\ svc = "persisting"
    /\ Cardinality(records) = Capacity
    /\ \E r \in records : Store!Forget(r)
    /\ UNCHANGED <<vars, stored>>

PersistStored ==
    /\ SvcPersistOk /\ last < MaxGen
    /\ Store!Store([gen |-> last + 1, id |-> last + 1, exported |-> FALSE])
    /\ stored' = source

PersistRefused ==
    /\ SvcPersistFail
    /\ UNCHANGED <<store, stored>>

\* A user fetched the oldest record.
ExportOldest ==
    /\ CanServe /\ svc = "idle"
    /\ \E r \in records : Store!Export(r)
    /\ UNCHANGED <<vars, stored>>

\* The rest of the recorder, without stray writes; a reset forgets what this boot
\* stored, and a loss of power the retained RAM too: it then reads as no record
\* of this firmware, while the store is non-volatile.
SysReset == Reset /\ stored' = NoImage /\ UNCHANGED store
PowerLoss == Restart /\ ZeroRetained /\ stored' = NoImage /\ UNCHANGED store
Quiet(A) == A /\ UNCHANGED <<store, stored>>
SysWrite(w) == Quiet(Write(w))
SysFault == Quiet(Fault \/ FatalStep)
SysBoot == Quiet(Boot \/ FreshEpoch)
SysService == Quiet(SvcTick \/ SvcSnapshot \/ SvcCompare \/ SvcFail \/ SvcKeep
                    \/ SvcMarkFlags \/ SvcMarkFatal)
              \/ Reclaim \/ PersistStored \/ PersistRefused

SysNext == \/ SysReset \/ PowerLoss \/ SysBoot \/ SysFault \/ SysService \/ ExportOldest
           \/ \E w \in Writers : SysWrite(w)

SysSpec == SysInit /\ [][SysNext]_sysVars

\* As in Recorder, with a store that succeeds only if it has room, and a user
\* who asks for what is there.
SysFairness ==
    /\ WF_sysVars(SysBoot)
    /\ \A w \in Writers : WF_sysVars(Quiet(EventStep(w) \/ FirstStep(w)))
    /\ WF_sysVars(Quiet(FatalStep))
    /\ WF_sysVars(fpc = "dead" /\ SysReset)
    /\ WF_sysVars(SysService)
    /\ SF_sysVars(Reclaim) /\ SF_sysVars(PersistStored)
    /\ SF_sysVars(ExportOldest)

SysFairSpec == SysSpec /\ SysFairness
-----------------------------------------------------------------------------
(* Properties *)

\* The properties of Recorder hold of this system too.  EvidenceArchived now says
\* that published evidence is stored although the store may be full when it is
\* published, and RecordingResumes that a full store keeps recording off, while
\* a previous epoch waits for room, no longer than the user takes to fetch a
\* record.

\* Within a boot no image is stored twice: the service stores again only what
\* changed, so one incident fills the store only with images that differ.
NoRedundantStore == [][PersistStored => source # stored]_sysVars
=============================================================================
