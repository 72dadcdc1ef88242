\* A reset inside IR_InternalBeginFreshEpoch, before the header is complete.
SPECIFICATION Spec
CONSTANTS
    TaskWriters = {t1}
    IsrWriters = {}
    Faults = {f1}
    NoTag = NoTag
    MaxBoots = 4
    CounterMax = 1
    SeqMod = 2
    RetryInterval = 1
    FatalReturns = FALSE
    ProbesDuringInit = FALSE
    Events = FALSE
    Corruption = FALSE
INVARIANTS
    EpochIdentifiesBoot
