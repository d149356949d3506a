SPECIFICATION RecordsSpec
CONSTANTS
    Accounts <- MCAccounts
    Root <- MCRoot
    Txs <- MCTxs
    Supply = 3
    UintSize = 32
    MaxShard = 2
    MaxStored = 4
    MaxUnreadable = 1
INVARIANTS
    RecomputedFromStored
    BalanceIsLedger
    HistoryExplained
    TokensOfLastBlock
CHECK_DEADLOCK FALSE
