\* The persistence pause: a Task and an ISR recording events, a fault handler
\* that returns, ring indices broken at any time.  One boot: the pause itself.
SPECIFICATION Spec
CONSTANTS
    TaskWriters = {t1}
    IsrWriters = {i1}
    Faults = {f1}
    NoTag = NoTag
    MaxBoots = 1
    CounterMax = 1
    SeqMod = 2
    RetryInterval = 1
    FatalReturns = TRUE
    ProbesDuringInit = FALSE
    Events = TRUE
    Corruption = TRUE
INVARIANT
    TypeOK
PROPERTIES
    TimelineFrozen
    IsrLossAccounted
    EvidenceLatched
