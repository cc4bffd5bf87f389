\* The block handler alone uses the chain; no database error.
SPECIFICATION FairSpec
\* The node may shut down; StopReturns and LockReleased say how it ends.
CHECK_DEADLOCK FALSE
CONSTANTS
    Cap = 2
    BatchSize = 2
    MaxBlocks = 4
    MaxErrors = 0
    Handler = handler
    FlushLoop = loop
    NoOne = noone
    Rpc = {}
    Spending <- MCSpending
INVARIANTS
    TypeOK
PROPERTIES
    ImplementsDurableChain
    EventuallyDurable
    WaitsEnd
