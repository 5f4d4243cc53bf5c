SPECIFICATION Spec
CONSTANTS
    n1 = n1
    n2 = n2
    Node = {n1, n2}
    None = None
    Validators <- TwoValidators
    Seeds <- SeedPeers
    Time = {0, 1}
    Drift = 0
    SyncLimit = 1
    MaxHeight = 3
    MaxStops = 2
INVARIANTS
    GenesisIsFunded
    BackwardsStaysHome
PROPERTIES
    OneLedger
CHECK_DEADLOCK FALSE
