SPECIFICATION IndexSpec
CONSTANTS
    a1 = a1
    a2 = a2
    Account = {a1, a2}
    Proposer = {a1}
    Template = {t1}
    SessionId = {s1}
    None = None
    BadKey = BadKey
    Fee = {0}
    Amount = {1}
    Registered = {"register_template", "mint_asset", "burn_asset", "transfer_asset", "list_market", "buy_market", "session_open"}
    MaxUint64 = 3
    MaxNonce = 3
    MaxPlayers = 1
    Alloc <- IndexerAlloc
    MaxBlockTxs = 2
    MaxTxs = 5
    MaxAbandoned = 1
    MaxErrors = 1
INVARIANTS
    OwnerIndexExact
    ListsAreSets
CHECK_DEADLOCK FALSE
