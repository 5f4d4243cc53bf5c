SPECIFICATION Spec
CONSTANTS
    a1 = a1
    a2 = a2
    self = self
    other = other
    p1 = p1
    p2 = p2
    Account = {a1, a2}
    Tx <- GoodTxs
    None = None
    Self = self
    Validators <- SoloValidators
    Poa = Poa
    Peer = {}
    PeerChain <- NoChains
    Time = {0}
    Drift = 0
    SyncLimit = 1
    MaxBlockTxs = 1
    MaxMempool = 2
    MaxTxAge = 1
    MaxTxFuture = 1
    MaxSnapshots = 9
    MaxHeight = 3
    MaxIdleHeight = 3
    MaxSubmits = 2
    MaxConnects = 0
    FaultKind = {"crash"}
    MaxFaults = 1
INVARIANTS
    ChainReplays
CHECK_DEADLOCK FALSE
