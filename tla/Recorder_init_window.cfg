\* An ISR reports an abnormal condition while IR_Init begins the fresh epoch.
SPECIFICATION Spec
CONSTANTS
    TaskWriters = {t1}
    IsrWriters = {i1}
    Faults = {f1}
    NoTag = NoTag
    MaxBoots = 2
    CounterMax = 1
    SeqMod = 2
    RetryInterval = 1
    FatalReturns = FALSE
    ProbesDuringInit = TRUE
    Events = FALSE
    Corruption = FALSE
PROPERTIES
    PublishedIsKept
