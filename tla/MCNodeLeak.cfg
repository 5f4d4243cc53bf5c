SPECIFICATION Spec
CONSTANTS
    a1 = a1
    a2 = a2
    self = self
    other = other
    p1 = p1
    p2 = p2
    Account = {a1, a2}
    Tx <- MixedTxs
    None = None
    Self = self
    Validators <- SoloValidators
    Poa = Poa
    Peer = {}
    PeerChain <- NoChains
    Time = {0}
    Drift = 0
    SyncLimit = 1
    MaxBlockTxs = 2
    MaxMempool = 2
    MaxTxAge = 1
    MaxTxFuture = 1
    MaxSnapshots = 9
    MaxHeight = 2
    MaxIdleHeight = 2
    MaxSubmits = 1
    MaxConnects = 0
    FaultKind = {}
    MaxFaults = 0
INVARIANTS
    NothingLeftBehind
CHECK_DEADLOCK FALSE
