\* A spent row is read back from disk before its batch commits.
SPECIFICATION Spec
CONSTANTS
    Outs = {o1, o2}
    None = none
    Callers = {handler}
    Modes = {TRUE}
    FirstMap = 9
    HotDepth = 1
    MaxHeight = 3
    MaxReorgs = 0
    MaxCrashes = 0
CHECK_DEADLOCK FALSE
INVARIANT NoPhantomOutput
