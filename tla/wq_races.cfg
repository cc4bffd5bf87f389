\* A second goroutine connects and disconnects at any time, also while the
\* queue is being stopped, and a database transaction may fail.
SPECIFICATION Spec
\* The node may shut down.
CHECK_DEADLOCK FALSE
CONSTANTS
    Cap = 2
    BatchSize = 2
    MaxBlocks = 3
    MaxErrors = 1
    Handler = handler
    FlushLoop = loop
    NoOne = noone
    Rpc = {rpc}
    Spending <- MCSpending
INVARIANTS
    PrefixBeforeStop
    BarrierDurableNoError
    NoResurrectionBeforeStop
    ExactlyOnce
    MarkerAtBest
