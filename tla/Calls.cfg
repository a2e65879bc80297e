\* newPayload, forkchoiceUpdated and a batch with bytes that do not decode, against
\* a pool that also changes on its own.
CONSTANTS
    f1 = f1
    p1 = p1
    s1 = s1
    t1 = t1
    t2 = t2
    t3 = t3
    BadBytes = BadBytes
    None = None
    TxHashes = {t1}
    UNEXECUTED_TX_RETENTION_BLOCKS = 0
    IsKasplex = TRUE
    FreeTxs = {t1}
    FcuCalls = {f1}
    NewPayloadCalls = {p1}
    SendCalls = {s1}
    Jobs = {}
    Conversions = {}
    Blocks = {"g", "a1"}
    Genesis = "g"
    InitHead = "g"
    InitKnown <- MCInitKnown
    Parent <- MCParent
    Number <- MCNumber
    BlockTxs <- OneTxPerBlock
    MaxFee <- MCMaxFee
    TxGas <- MCTxGas
    MinBaseFee = 20
    Batches <- Mixed
    MaxConcurrentJobs = 1
    U64_MAX = 40
    MaxRestarts = 1
    AttributeSets <- NoAttributes
    Eip1559BaseFee <- MCEip1559BaseFee
    ExtraData <- MCExtraData
    Timestamp <- MCTimestamp
    ExtraDataLength <- MCExtraDataLength
    KASPLEX_BASE_FEE = 20
    MaxExtraData = 32
    EMPTY_OMMER_ROOT_HASH = EMPTY_OMMER_ROOT_HASH
    EMPTY_WITHDRAWALS = EMPTY_WITHDRAWALS
SPECIFICATION FairSpec
INVARIANTS IncludedLeavePool CleanupComplete CleanupSound
PROPERTIES EveryCallReturns ReorgEnds
