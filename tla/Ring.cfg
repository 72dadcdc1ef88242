\* Three slots: filling, exactly full, and wrapped around more than twice; an
\* operation first, two in a row, none for long enough to leave the ring.
SPECIFICATION OpSpec
CONSTANTS
    Capacity = 3
    MaxWrites = 8
    SourceOrder = FALSE
    Corruption = TRUE
    Operations = {1, 3, 4, 8}
INVARIANTS
    InBounds
    ReaderExact
    TornAtMostOne
    ImageOperationNewest
    SnapshotOperation
