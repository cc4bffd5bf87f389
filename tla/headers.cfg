SPECIFICATION Spec
CONSTANTS
    p1 = p1
    p2 = p2
    None = None
    Peers = {p1, p2}
    PeerChain <- Chains
    Advertised <- Heights
    Stored <- Starts0
    SliceLen = 2
    StartLead = 1
    RunawayThreshold = 1
    LeadLimit = 1
    LeadResume = 0
    MaxRollbacks = 1
    MaxSyncPeers = 2
    MaxMishaps = 1
CHECK_DEADLOCK FALSE
INVARIANTS
    FrontApplied
    RoundConsistent
PROPERTIES
    CutsForMore
