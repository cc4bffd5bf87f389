\* One automatic connection, two for addnode, one inbound.
SPECIFICATION Spec
CONSTANTS
    Reqs = {r1, r2, r3}
    Ins = {i1}
    Addrs = {a1, a2}
    s1 = s1
    Sources = {s1}
    Source <- MCSource
    Whitelisted = {}
    TargetOutbound = 1
    MaxPeers = 2
    MaxPeersPerIP = 2
    MaxPendingPerSource = 1
    MaxCommands = 2
    None = none
SYMMETRY MCSymmetry
INVARIANTS
    SlotsConserved
    AccountsExact
    OnePerAddress
    NoGhostPeer
    PermanentKept
