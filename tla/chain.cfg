\* Two branches, one with a bad block; operator commands and one rollback.
SPECIFICATION Spec
CONSTANTS
    g = g  a1 = a1  b1 = b1  b2 = b2  b3 = b3
    Blocks <- MCBlocks
    Genesis = g
    Parent <- MCParent
    Bad = {b3}
    CheckHeight = 1
    None = none
    Handler = handler
    Rpc = rpc
    MaxOrphans = 2
    MaxGen = 2
    MaxInterventions = 1
CHECK_DEADLOCK FALSE
INVARIANTS
    
    ChainBacked
    AssertionsHold
    MostWork
    NothingLeftBehind
PROPERTIES
    OneBlockAtATime
