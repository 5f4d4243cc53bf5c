SPECIFICATION Spec
CONSTANTS
    a1 = a1
    a2 = a2
    self = self
    other = other
    p1 = p1
    p2 = p2
    Account = {a1, a2}
    Tx <- GoodTxs
    None = None
    Self = self
    Validators <- OtherValidators
    Poa = Poa
    Peer = {p1, p2}
    PeerChain <- ShortChain
    Time = {0}
    Drift = 0
    SyncLimit = 2
    MaxBlockTxs = 1
    MaxMempool = 2
    MaxTxAge = 1
    MaxTxFuture = 1
    MaxSnapshots = 9
    MaxHeight = 2
    MaxIdleHeight = 2
    MaxSubmits = 0
    MaxConnects = 1
    FaultKind = {}
    MaxFaults = 0
INVARIANTS
    StateMatchesTip
CHECK_DEADLOCK FALSE
