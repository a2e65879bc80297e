CONSTANTS
    j1 = j1
    j2 = j2
    t1 = t1
    t2 = t2
    t3 = t3
    BadBytes = BadBytes
    None = None
    TxHashes = {t1, t3}
    UNEXECUTED_TX_RETENTION_BLOCKS = 1
    IsKasplex = TRUE
    FreeTxs = {}
    FcuCalls = {}
    NewPayloadCalls = {}
    SendCalls = {}
    Jobs = {j1, j2}
    Conversions = {}
    Blocks = {"g"}
    Genesis = "g"
    InitHead = "g"
    InitKnown <- MCInitKnown
    Parent <- MCParent
    Number <- MCNumber
    BlockTxs <- NoTxs
    MaxFee <- MCMaxFee
    TxGas <- MCTxGas
    MinBaseFee = 20
    Batches <- NoBatches
    MaxConcurrentJobs = 2
    U64_MAX = 40
    MaxRestarts = 0
    AttributeSets <- LowFeeAttributes
    Eip1559BaseFee <- MCEip1559BaseFee
    ExtraData <- MCExtraData
    Timestamp <- MCTimestamp
    ExtraDataLength <- MCExtraDataLength
    KASPLEX_BASE_FEE = 20
    MaxExtraData = 32
    EMPTY_OMMER_ROOT_HASH = EMPTY_OMMER_ROOT_HASH
    EMPTY_WITHDRAWALS = EMPTY_WITHDRAWALS
SPECIFICATION Spec
INVARIANTS FeeIsAlwaysValid
