\* Two overlapping forkchoice updates and a batch of two transactions or of one
\* twice, on a chain long enough for a number to expire (retention 1, heads 0 to 3).
CONSTANTS
    f1 = f1
    f2 = f2
    s1 = s1
    t1 = t1
    t2 = t2
    t3 = t3
    BadBytes = BadBytes
    None = None
    TxHashes = {t1, t2}
    UNEXECUTED_TX_RETENTION_BLOCKS = 1
    IsKasplex = TRUE
    FreeTxs = {}
    FcuCalls = {f1, f2}
    NewPayloadCalls = {}
    SendCalls = {s1}
    Jobs = {}
    Conversions = {}
    Blocks = {"g", "a1", "a2", "a3"}
    Genesis = "g"
    InitHead = "a3"
    InitKnown <- MCInitKnown
    Parent <- MCParent
    Number <- MCNumber
    BlockTxs <- NoTxs
    MaxFee <- MCMaxFee
    TxGas <- MCTxGas
    MinBaseFee = 20
    Batches <- TwoOrTwice
    MaxConcurrentJobs = 1
    U64_MAX = 40
    MaxRestarts = 0
    AttributeSets <- NoAttributes
    Eip1559BaseFee <- MCEip1559BaseFee
    ExtraData <- MCExtraData
    Timestamp <- MCTimestamp
    ExtraDataLength <- MCExtraDataLength
    KASPLEX_BASE_FEE = 20
    MaxExtraData = 32
    EMPTY_OMMER_ROOT_HASH = EMPTY_OMMER_ROOT_HASH
    EMPTY_WITHDRAWALS = EMPTY_WITHDRAWALS
SPECIFICATION Spec
INVARIANTS TypeOK CleanupSound CleanupComplete ReportedReorgIsReal
SYMMETRY FcuSymmetry
