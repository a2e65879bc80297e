---------------------------- MODULE TxMappingTests ----------------------------
(***************************************************************************)
(* The unit tests of crates/tx_mapping as clients of the table.            *)
(* TxMapping::new() hands every test the same GLOBAL_TX_MAPPING, and the   *)
(* test harness runs up to TestThreads tests at once, so the tests are     *)
(* concurrent clients of one table.  A test is the sequence of its calls   *)
(* and of its assertions; one step runs the next call of some test, and a  *)
(* failed assertion panics, which ends the test.                           *)
(***************************************************************************)
EXTENDS TxMapping, Sequences, FiniteSets

CONSTANTS
    Tests,         \* the tests the harness runs
    TestThreads,   \* how many of them at once
    Tx1, Tx2, Tx3  \* the hashes [1u8; 32], [2u8; 32] and [3u8; 32]

\* The retention is a positive constant of the crate.
ASSUME TestsAssumption ==
    /\ Tests \subseteq {"test_tx_mapping_basic", "test_deleted_transactions",
                        "test_reorg_state", "test_transaction_expiration",
                        "test_bulk_set_mapping"}
    /\ {Tx1, Tx2, Tx3} \subseteq TxHashes
    /\ Tx1 # Tx2 /\ Tx1 # Tx3 /\ Tx2 # Tx3
    /\ UNEXECUTED_TX_RETENTION_BLOCKS > 0

VARIABLES
    pc,       \* test -> index of its next call
    failed,   \* the assertions that failed, each a test and an index
    crossed   \* history: the tests during which another changed a number they use

testVars == <<mapping, deleted, reorg_in_progress, pc, failed, crossed>>

Retention == UNEXECUTED_TX_RETENTION_BLOCKS

\* The bodies of the tests.
Body(test) ==
    CASE test = "test_tx_mapping_basic" ->
           << [op |-> "insert", tx |-> Tx1, n |-> 100],
              [op |-> "assert_submission_block", tx |-> Tx1, n |-> 100],
              [op |-> "get_tx_number", tx |-> Tx1, n |-> 100],
              [op |-> "assert_submission_block", tx |-> Tx1, n |-> None] >>
      [] test = "test_deleted_transactions" ->
           << [op |-> "assert_deleted", tx |-> Tx2, is |-> FALSE],
              [op |-> "add_deleted", tx |-> Tx2],
              [op |-> "assert_deleted", tx |-> Tx2, is |-> TRUE] >>
      [] test = "test_reorg_state" ->
           << [op |-> "assert_reorg_complete", is |-> TRUE],
              [op |-> "mark_start_pool_reorg"],
              [op |-> "assert_reorg_complete", is |-> FALSE],
              [op |-> "mark_pool_reorged"],
              [op |-> "assert_reorg_complete", is |-> TRUE] >>
      [] test = "test_transaction_expiration" ->
           << [op |-> "insert", tx |-> Tx3, n |-> 100],
              [op |-> "assert_expired", tx |-> Tx3, at |-> 100 + Retention - 1,
               is |-> FALSE],
              [op |-> "assert_expired", tx |-> Tx3, at |-> 100 + Retention,
               is |-> TRUE] >>
      [] test = "test_bulk_set_mapping" ->
           << [op |-> "set_mapping"],
              [op |-> "assert_submission_block", tx |-> Tx1, n |-> 100],
              [op |-> "assert_submission_block", tx |-> Tx2, n |-> 200] >>

BulkMapping == [t \in TxHashes |-> CASE t = Tx1 -> 100 [] t = Tx2 -> 200
                                     [] OTHER -> None]

Running == {test \in Tests : pc[test] > 1 /\ pc[test] <= Len(Body(test))}

Init ==
    /\ TxMappingInit
    /\ pc = [test \in Tests |-> 1]
    /\ failed = {}
    /\ crossed = {}

\* What call s does to the table; an assertion leaves it alone.
Effect(s) ==
    \/ s.op = "insert"                  /\ insert(s.tx, s.n)
    \/ s.op = "get_tx_number"           /\ get_tx_number(s.tx)
    \/ s.op = "set_mapping"             /\ set_mapping(BulkMapping)
    \/ s.op = "add_deleted"             /\ add_deleted_transaction(s.tx)
    \/ s.op = "mark_start_pool_reorg"   /\ mark_start_pool_reorg
    \/ s.op = "mark_pool_reorged"       /\ mark_pool_reorged
    \/ /\ s.op \in {"assert_submission_block", "assert_deleted",
                    "assert_reorg_complete", "assert_expired"}
       /\ UNCHANGED mappingVars

\* What the test expects of call s in the current state.
Expected(s) ==
    CASE s.op = "assert_submission_block" -> get_submission_block(s.tx) = s.n
      [] s.op = "get_tx_number"           -> NumberOrZero(s.tx) = s.n
      [] s.op = "assert_deleted"          -> is_deleted_transaction(s.tx) = s.is
      [] s.op = "assert_reorg_complete"   -> is_reorg_complete = s.is
      [] s.op = "assert_expired"          -> is_transaction_expired(s.tx, s.at) = s.is
      [] OTHER                            -> TRUE

\* The hashes whose number the test sets or looks at.
NumbersUsed(test) ==
    {Body(test)[i].tx : i \in {k \in DOMAIN Body(test) :
        Body(test)[k].op \in {"insert", "get_tx_number", "assert_submission_block",
                             "assert_expired"}}}

RunCall(test) ==
    /\ pc[test] <= Len(Body(test))
    /\ test \in Running \/ Cardinality(Running) < TestThreads
    /\ LET s == Body(test)[pc[test]] IN
         /\ Effect(s)
         /\ IF Expected(s)
            THEN /\ pc' = [pc EXCEPT ![test] = @ + 1]
                 /\ UNCHANGED failed
            ELSE /\ pc' = [pc EXCEPT ![test] = Len(Body(test)) + 1]
                 /\ failed' = failed \cup {<<test, pc[test]>>}
    /\ crossed' = crossed \cup
         {other \in Running \ {test} :
            \E t \in NumbersUsed(other) : mapping'[t] # mapping[t]}

Next == \E test \in Tests : RunCall(test)

Spec == Init /\ [][Next]_testVars

------------------------------------------------------------------------------
\* The users of the one table disturb each other through a common entry only:
\* an assertion of a unit test fails only if another test changed, while this
\* one was under way, a number it uses.  The one exception is the last
\* assertion of test_transaction_expiration (crates/tx_mapping/src/lib.rs:242),
\* and that one fails in every schedule: it contradicts line 152.
FailuresExplained ==
    LET expiration == "test_transaction_expiration" IN
    /\ \A f \in failed : f[1] \in crossed \/ f = <<expiration, 3>>
    /\ expiration \in Tests /\ pc[expiration] > Len(Body(expiration)) =>
         <<expiration, 3>> \in failed
==============================================================================
