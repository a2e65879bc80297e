\* Every pool of up to three pending and three queued transactions.
CONSTANTS
    None = None
    PoolTxs <- MCPoolTxs
    MaxPending = 3
    Requests <- MCRequests
    MinTips = {0, 1, 2, 3}
    KASPLEX_BASE_FEE = 2
SPECIFICATION ContentSpec
INVARIANTS ListIsLongestPrefix TipsAreWhatIsPaid
