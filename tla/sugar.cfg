\* A full node and one that prunes; kills, power failures, one session without the index.
SPECIFICATION Spec
CONSTANTS
    g = g  a1 = a1  a2 = a2  b1 = b1  b2 = b2  b3 = b3
    c = c  t = t  u = u  v = v
    None = none
    Blocks = {g, a1, a2, b1, b2, b3}
    Path <- MCPath
    Txs = {c, t, u, v}
    Body <- MCBody
    In <- MCIn
    Modes = {TRUE, FALSE}
    RebuildBatch = 2
    QueueBatch = 2
    MaxMoves = 3
    MaxFaults = 2
    MaxDisabled = 1
CHECK_DEADLOCK FALSE
INVARIANTS
    IndexExact
    StaysWithChain
    InitSound
