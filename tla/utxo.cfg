\* Both modes: batches of per-block deltas, or flushes only (pruned node).
SPECIFICATION Spec
CONSTANTS
    Outs = {o1, o2}
    None = none
    Callers = {handler, rpc}
    Modes = {TRUE, FALSE}
    FirstMap = 1
    HotDepth = 1
    MaxHeight = 3
    MaxReorgs = 1
    MaxCrashes = 2
SYMMETRY MCSymmetry
CHECK_DEADLOCK FALSE
INVARIANTS
    DiskAtMarker
    LookupsRight
    RestartSucceeds
