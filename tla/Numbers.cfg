\* All who write numbers: the auth RPC, the engine, a job and block_to_payload.
CONSTANTS
    p1 = p1
    s1 = s1
    j1 = j1
    v1 = v1
    t1 = t1
    t2 = t2
    t3 = t3
    BadBytes = BadBytes
    None = None
    TxHashes = {t1, t2}
    UNEXECUTED_TX_RETENTION_BLOCKS = 1
    IsKasplex = TRUE
    FreeTxs = {}
    FcuCalls = {}
    NewPayloadCalls = {p1}
    SendCalls = {s1}
    Jobs = {j1}
    Conversions = {v1}
    Blocks = {"g", "a1"}
    Genesis = "g"
    InitHead = "g"
    InitKnown <- MCInitKnown
    Parent <- MCParent
    Number <- MCNumber
    BlockTxs <- MCBlockTxs
    MaxFee <- MCMaxFee
    TxGas <- MCTxGas
    MinBaseFee = 20
    Batches <- OneTx
    MaxConcurrentJobs = 1
    U64_MAX = 40
    MaxRestarts = 1
    AttributeSets <- MCAttributes
    Eip1559BaseFee <- MCEip1559BaseFee
    ExtraData <- MCExtraData
    Timestamp <- MCTimestamp
    ExtraDataLength <- MCExtraDataLength
    KASPLEX_BASE_FEE = 20
    MaxExtraData = 32
    EMPTY_OMMER_ROOT_HASH = EMPTY_OMMER_ROOT_HASH
    EMPTY_WITHDRAWALS = EMPTY_WITHDRAWALS
SPECIFICATION Spec
INVARIANTS NumberProvenance
PROPERTIES LedgerSpec
