SPECIFICATION Spec
CONSTANTS
    a1 = a1
    a2 = a2
    Account = {a1, a2}
    Proposer = {a1}
    Template = {t1}
    SessionId = {}
    None = None
    BadKey = BadKey
    Fee = {0, 1}
    Amount = {0, 1}
    Registered = {"register_template", "mint_asset", "burn_asset", "transfer_asset", "list_market", "buy_market"}
    MaxUint64 = 3
    MaxNonce = 3
    MaxPlayers = 1
    Alloc <- MarketAlloc
INVARIANTS
    TypeOK
    Conservation
    ListingsMatchAssets
PROPERTIES
    BurnedForever
    NonTradeableStays
    SalesArePaid
