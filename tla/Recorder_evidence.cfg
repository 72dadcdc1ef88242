\* Evidence across resets: every interleaving of two Tasks, an ISR, the fault
\* handler and the service, with a warm reset possible at every step.
SPECIFICATION Spec
CONSTANTS
    TaskWriters = {t1, t2}
    IsrWriters = {i1}
    Faults = {f1}
    NoTag = NoTag
    MaxBoots = 3
    CounterMax = 1
    SeqMod = 2
    RetryInterval = 1
    FatalReturns = FALSE
    ProbesDuringInit = FALSE
    Events = FALSE
    Corruption = FALSE
SYMMETRY Symmetry
INVARIANTS
    FirstSnapshotWhole
    ImagesConsistent
    MarkedIsStored
PROPERTIES
    ContractKept
