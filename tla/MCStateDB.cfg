SPECIFICATION Spec
CONSTANTS
    Key = {account, asset}
    Value = {v1, v2}
    NotFound = NotFound
    AssetKey = {asset}
    MaxSnapshots = 2
INVARIANTS
    TypeOK
    RootIsView
    BufferDisjoint
PROPERTIES
    CommitKeepsRoot
    RefinesStore
