\* A Task is preempted between the unlocked check and the loss counter.
SPECIFICATION Spec
CONSTANTS
    TaskWriters = {t1}
    IsrWriters = {}
    Faults = {f1}
    NoTag = NoTag
    MaxBoots = 2
    CounterMax = 1
    SeqMod = 2
    RetryInterval = 1
    FatalReturns = FALSE
    ProbesDuringInit = FALSE
    Events = TRUE
    Corruption = FALSE
PROPERTIES
    EveryLossAccounted
