SPECIFICATION FairSpec
CONSTANTS
    MaxTx = 5
    MaxTorn = 1
INVARIANTS
    ShardsInArrivalOrder
    LostOnlyInWindow
    InclusionsBalanced
PROPERTY PoolDrains
