\* Blocks of up to three transactions after none or two system calls, with and without the balance to pay them.
CONSTANTS
    None = None
    Accounts = {"alice", "bob", "beacon", "history", "system", "treasury"}
    Treasury = "treasury"
    Txs <- MCTxs
    Envs <- MCEnvs
    PreCalls <- MCPreCalls
    SystemAddress = "system"
    SystemGas = 12
    InitBalances <- MCInitBalances
    IntrinsicGas = 4
    MaxRefundQuotient = 5
    MaxTried = 3
SPECIFICATION ExecutorSpec
INVARIANTS ExecutorTypeOK FeesConserved TreasuryIncome SystemCallsLeaveNoTrace CallsRunOnce
