\* One prompt peer, and one that answers late, never, or without the last block.
SPECIFICATION FairSpec
CONSTANTS
    Peers = {p1, p2}
    Prompt = {p1}
    p1 = p1
    p2 = p2
    None = None
    Tip <- MCTip
    Start = 4
    Window = 4
    SliceLen = 3
    InFlightTarget = 2
    MinInFlight = 1
    MaxSyncPeers = 2
    StallSamples = 2
    UnavailableSamples = 3
    MaxOwed = 2
    MaxLeaves = 1
INVARIANTS
    RequestsConsistent
    WithinWindow
PROPERTIES
    CatchesUp
