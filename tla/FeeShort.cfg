\* Callers without the balance for the fee of their gas limit.
CONSTANTS
    None = None
    Accounts = {"alice", "bob", "beacon", "history", "system", "treasury"}
    Treasury = "treasury"
    Txs <- MCTxs
    Envs <- MCEnvs
    PreCalls <- MCPreCalls
    SystemAddress = "system"
    SystemGas = 12
    InitBalances <- MCInitBalances
    IntrinsicGas = 4
    MaxRefundQuotient = 5
    MaxTried = 2
SPECIFICATION ExecutorSpec
INVARIANTS MaximumFeeIsDeducted
