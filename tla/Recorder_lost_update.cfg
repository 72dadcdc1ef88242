\* A fault handler that returns publishes between the comparison and the mark.
SPECIFICATION Spec
CONSTANTS
    TaskWriters = {t1}
    IsrWriters = {i1}
    Faults = {f1}
    NoTag = NoTag
    MaxBoots = 2
    CounterMax = 1
    SeqMod = 2
    RetryInterval = 1
    FatalReturns = TRUE
    ProbesDuringInit = FALSE
    Events = FALSE
    Corruption = FALSE
INVARIANTS
    MarkHonest
