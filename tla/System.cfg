\* A store of two records that the user empties, losses during the pause, power
\* losses, and progress.
SPECIFICATION SysFairSpec
CONSTANTS
    TaskWriters = {t1}
    IsrWriters = {}
    Faults = {f1}
    NoTag = NoTag
    MaxBoots = 2
    CounterMax = 1
    SeqMod = 1
    RetryInterval = 1
    FatalReturns = FALSE
    ProbesDuringInit = FALSE
    Events = TRUE
    Corruption = FALSE
    Capacity = 2
    MaxGen = 6
INVARIANTS
    SalvageUndisturbed
    CaptureGate
PROPERTIES
    EvidenceArchived
    RecordingResumes
    NoRedundantStore
