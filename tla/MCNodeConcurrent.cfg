SPECIFICATION Spec
CONSTANTS
    a1 = a1
    a2 = a2
    self = self
    other = other
    p1 = p1
    p2 = p2
    Account = {a1, a2}
    Tx <- GoodTxs
    None = None
    Self = self
    Validators <- BothValidators
    Poa = Poa
    Peer = {p1}
    PeerChain <- GrowingChain
    Time = {0}
    Drift = 0
    SyncLimit = 2
    MaxBlockTxs = 1
    MaxMempool = 1
    MaxTxAge = 1
    MaxTxFuture = 1
    MaxSnapshots = 9
    MaxHeight = 3
    MaxIdleHeight = 3
    MaxSubmits = 1
    MaxConnects = 2
    FaultKind = {"crash", "write"}
    MaxFaults = 1
INVARIANTS
    TypeOK
    ChainLinked
PROPERTIES
    AppendOnly
CHECK_DEADLOCK FALSE
