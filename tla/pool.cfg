SPECIFICATION Spec
CONSTANTS
    a = a
    b = b
    x = x
    d = d
    p = p
    None = None
    Txs = {a, b, x, d}
    TxIn <- Inputs
    NOut <- OneOutput
    Fee <- Fees
    Signals = {a}
    Fickle = {b}
    Large = {x}
    Coins <- TheCoin
    Blocks <- Bodies
    Tags = {p}
    MaxOrphanTxs = 2
    MaxReplacementEvictions = 2
    MinFee = 1
    MaxMoves = 3
    MaxMissed = 1
CHECK_DEADLOCK FALSE
INVARIANTS
    PoolConsistent
    PoolMinable
