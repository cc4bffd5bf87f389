\* Two blocks over three files beside a reader; one failing operation, one crash.
SPECIFICATION Spec
CONSTANTS
    short = short
    long = long
    Blocks <- MCBlocks
    BlockLen <- MCBlockLen
    MaxFileSize = 2
    PruneTarget = 4
    MaxFileNum = 2
    MaxPending = 2
    MaxUpdates = 3
    MaxFaults = 1
    MaxCrashes = 1
CHECK_DEADLOCK FALSE
INVARIANTS
    BlocksKept
    CursorSound
PROPERTIES
    CommitAtomic
    ImplementsAtomicStore
