\* All tests of the crate, each on a thread of its own.
CONSTANTS
    Tx1 = Tx1
    Tx2 = Tx2
    Tx3 = Tx3
    TxHashes = {Tx1, Tx2, Tx3}
    None = None
    UNEXECUTED_TX_RETENTION_BLOCKS = 100
    TestThreads = 5
    Tests = {"test_tx_mapping_basic", "test_deleted_transactions", "test_reorg_state", "test_transaction_expiration", "test_bulk_set_mapping"}
SPECIFICATION Spec
INVARIANT FailuresExplained
\* a run of the harness ends
CHECK_DEADLOCK FALSE
