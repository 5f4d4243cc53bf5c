SPECIFICATION FairSpec
CONSTANTS
    o1 = o1
    a1 = a1
    a2 = a2
    a3 = a3
    s1 = s1
    Inbound = {1, 2, 3, 4}
    Outbound = {o1}
    RemoteAddr <- Addresses
    SeedId <- SeedIds
    None = None
    MaxPeers = 2
    MaxGone = 1
INVARIANTS
    InboundBounded
    OpenIsRegistered
    StopCloses
PROPERTIES
    SilentPeersLeave
    StopReturns
CHECK_DEADLOCK FALSE
