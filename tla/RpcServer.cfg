SPECIFICATION Spec
CONSTANTS
    Conns = {c1, c2}
    Requests <- MCRequests
    Accounts <- MCAccounts
    Balance <- MCBalance
    UintSize = 4
    Threads = 2
    Handles = 2
    MaxFaults = 1
INVARIANTS
    OneAnswer
    AnswerTellsOutcome
    AnnouncedThenPooled
    PooledWasCovered
CHECK_DEADLOCK FALSE
