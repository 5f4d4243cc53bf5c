SPECIFICATION FairSpec
CONSTANTS
    a1 = a1
    a2 = a2
    self = self
    other = other
    p1 = p1
    p2 = p2
    Account = {a1, a2}
    Tx <- AllTxs
    None = None
    Self = self
    Validators <- OtherValidators
    Poa = Poa
    Peer = {p1}
    PeerChain <- GoodOrAnyChain
    Time = {0, 1}
    Drift = 0
    SyncLimit = 2
    MaxBlockTxs = 2
    MaxMempool = 2
    MaxTxAge = 1
    MaxTxFuture = 1
    MaxSnapshots = 9
    MaxHeight = 3
    MaxIdleHeight = 3
    MaxSubmits = 0
    MaxConnects = 3
    FaultKind = {"crash", "write", "drop"}
    MaxFaults = 2
INVARIANTS
    NothingLeftBehind
    RevertsAreLive
    ChainReplays
    DiskOnChain
    StateMatchesTip
PROPERTIES
    CatchesUp
CHECK_DEADLOCK FALSE
