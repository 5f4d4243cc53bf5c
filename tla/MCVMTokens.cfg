SPECIFICATION Spec
CONSTANTS
    a1 = a1
    a2 = a2
    Account = {a1, a2}
    Proposer = {a1, a2}
    Template = {}
    SessionId = {s1}
    None = None
    BadKey = BadKey
    Fee = {0, 1}
    Amount = {0, 1, 2, 3}
    Registered = {"transfer", "session_open", "session_result"}
    MaxUint64 = 3
    MaxNonce = 3
    MaxPlayers = 2
    Alloc <- TokenAlloc
INVARIANTS
    TypeOK
    Conservation
    StakesRecoverable
PROPERTIES
    SessionsCloseOnce
