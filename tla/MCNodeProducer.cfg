SPECIFICATION FairSpec
CONSTANTS
    a1 = a1
    a2 = a2
    self = self
    other = other
    p1 = p1
    p2 = p2
    Account = {a1, a2}
    Tx <- ThreeTxs
    None = None
    Self = self
    Validators <- SoloValidators
    Poa = Poa
    Peer = {}
    PeerChain <- NoChains
    Time = {0, 1}
    Drift = 0
    SyncLimit = 1
    MaxBlockTxs = 2
    MaxMempool = 3
    MaxTxAge = 1
    MaxTxFuture = 1
    MaxSnapshots = 9
    MaxHeight = 3
    MaxIdleHeight = 1
    MaxSubmits = 1
    MaxConnects = 0
    FaultKind = {"write"}
    MaxFaults = 1
INVARIANTS
    LeftoversBlock
    StateMatchesTip
    ChainReplays
    MinedLeavesPool
    MempoolInStep
PROPERTIES
    PendingIsMined
CHECK_DEADLOCK FALSE
