SPECIFICATION Spec
CONSTANTS
    Accounts <- MCAccounts
    Root <- MCRoot
    Shards <- MCShards
    Supply = 2
    UintSize = 16
    Residues <- MCResidues
    MaxWaiting = 2
    MaxBlocks = 4
    MaxCrashes = 1
    MaxFaults = 1
INVARIANTS
    SupplyAccounted
    NoFork
    ParentStored
CHECK_DEADLOCK FALSE
