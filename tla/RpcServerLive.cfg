SPECIFICATION FairSpec
CONSTANTS
    Conns = {c1, c2}
    Requests <- LiveRequests
    Accounts <- MCAccounts
    Balance <- MCBalance
    UintSize = 4
    Threads = 2
    Handles = 1
    MaxFaults = 1
PROPERTY ConnectionsEnd
CHECK_DEADLOCK FALSE
