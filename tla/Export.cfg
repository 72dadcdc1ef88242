\* Requests at any time, a verifying destination that may corrupt data, three
\* faults and a restart.
SPECIFICATION FairSpec
CONSTANTS
    Capacity = 2
    Chunks = 2
    RetryInterval = 2
    HasVerify = TRUE
    MaxGen = 4
    MaxBoots = 2
    MaxFaults = 3
INVARIANTS
    TypeOK
    ExportedIsCopied
    HeldRecordPending
    NoFileLeftOpen
    RequestLatched
PROPERTIES
    ContractKept
    RequestServed
    PendingReported
