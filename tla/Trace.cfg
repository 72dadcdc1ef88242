\* One Task, one ISR, queues of two, a sink that fails or is removed once, stray
\* writes, a service of lowest priority, and a timestamp that does not wrap.
SPECIFICATION FairSpec
CONSTANTS
    Tasks = {t1}
    Isrs = {i1}
    QueueRecords = 2
    Budget = 2
    TimeMod = 5
    LostMax = 2
    ServiceLowest = TRUE
    Corruption = TRUE
    MaxRecords = 4
    MaxFaults = 1
INVARIANTS
    TypeOK
    Accounted
    LossReported
    OutputOrdered
PROPERTIES
    Delivered
    StrayReported
