------------------------- MODULE TxMappingTestsProofs -------------------------
(***************************************************************************)
(* Which assertions of the unit tests of crates/tx_mapping can fail over   *)
(* the one table, for every choice of tests, every number of threads and   *)
(* every schedule.                                                         *)
(***************************************************************************)
EXTENDS TxMappingTests, TLAPS

Basic == "test_tx_mapping_basic"
Deleted == "test_deleted_transactions"
Reorg == "test_reorg_state"
Expiration == "test_transaction_expiration"
Bulk == "test_bulk_set_mapping"

------------------------------------------------------------------------------
(* The calls of the tests, by their place                                  *)

\* What the p-th call of test_tx_mapping_basic does and expects.
LEMMA BasicCalls ==
    /\ Len(Body(Basic)) = 4 /\ DOMAIN Body(Basic) = 1 .. 4
    /\ Body(Basic)[1].op = "insert" /\ Body(Basic)[1].tx = Tx1 /\ Body(Basic)[1].n = 100
    /\ Body(Basic)[2].op = "assert_submission_block"
    /\ Body(Basic)[2].tx = Tx1 /\ Body(Basic)[2].n = 100
    /\ Body(Basic)[3].op = "get_tx_number"
    /\ Body(Basic)[3].tx = Tx1 /\ Body(Basic)[3].n = 100
    /\ Body(Basic)[4].op = "assert_submission_block"
    /\ Body(Basic)[4].tx = Tx1 /\ Body(Basic)[4].n = None
BY DEF Body, Basic

\* What the p-th call of test_deleted_transactions does and expects.
LEMMA DeletedCalls ==
    /\ Len(Body(Deleted)) = 3
    /\ Body(Deleted)[1].op = "assert_deleted"
    /\ Body(Deleted)[1].tx = Tx2 /\ Body(Deleted)[1].is = FALSE
    /\ Body(Deleted)[2].op = "add_deleted" /\ Body(Deleted)[2].tx = Tx2
    /\ Body(Deleted)[3].op = "assert_deleted"
    /\ Body(Deleted)[3].tx = Tx2 /\ Body(Deleted)[3].is = TRUE
BY DEF Body, Deleted

\* What the p-th call of test_reorg_state does and expects.
LEMMA ReorgCalls ==
    /\ Len(Body(Reorg)) = 5
    /\ Body(Reorg)[1].op = "assert_reorg_complete" /\ Body(Reorg)[1].is = TRUE
    /\ Body(Reorg)[2].op = "mark_start_pool_reorg"
    /\ Body(Reorg)[3].op = "assert_reorg_complete" /\ Body(Reorg)[3].is = FALSE
    /\ Body(Reorg)[4].op = "mark_pool_reorged"
    /\ Body(Reorg)[5].op = "assert_reorg_complete" /\ Body(Reorg)[5].is = TRUE
BY DEF Body, Reorg

\* What the p-th call of test_transaction_expiration does and expects.
LEMMA ExpirationCalls ==
    /\ Len(Body(Expiration)) = 3 /\ DOMAIN Body(Expiration) = 1 .. 3
    /\ Body(Expiration)[1].op = "insert"
    /\ Body(Expiration)[1].tx = Tx3 /\ Body(Expiration)[1].n = 100
    /\ Body(Expiration)[2].op = "assert_expired" /\ Body(Expiration)[2].tx = Tx3
    /\ Body(Expiration)[2].at = 100 + Retention - 1 /\ Body(Expiration)[2].is = FALSE
    /\ Body(Expiration)[3].op = "assert_expired" /\ Body(Expiration)[3].tx = Tx3
    /\ Body(Expiration)[3].at = 100 + Retention /\ Body(Expiration)[3].is = TRUE
BY DEF Body, Expiration

\* What the p-th call of test_bulk_set_mapping does and expects.
LEMMA BulkCalls ==
    /\ Len(Body(Bulk)) = 3 /\ DOMAIN Body(Bulk) = 1 .. 3
    /\ Body(Bulk)[1].op = "set_mapping"
    /\ Body(Bulk)[2].op = "assert_submission_block"
    /\ Body(Bulk)[2].tx = Tx1 /\ Body(Bulk)[2].n = 100
    /\ Body(Bulk)[3].op = "assert_submission_block"
    /\ Body(Bulk)[3].tx = Tx2 /\ Body(Bulk)[3].n = 200
BY DEF Body, Bulk

\* The numbers two of the tests use.
LEMMA UsedNumbers ==
    /\ Tx1 \in NumbersUsed(Basic)
    /\ Tx1 \in NumbersUsed(Bulk) /\ Tx2 \in NumbersUsed(Bulk)
<1>1. Tx1 \in NumbersUsed(Basic)
  <2>1. 1 \in DOMAIN Body(Basic) /\ Body(Basic)[1].op = "insert" /\ Body(Basic)[1].tx = Tx1
    BY BasicCalls
  <2> QED BY <2>1 DEF NumbersUsed
<1>2. Tx1 \in NumbersUsed(Bulk) /\ Tx2 \in NumbersUsed(Bulk)
  <2>1. /\ 2 \in DOMAIN Body(Bulk) /\ Body(Bulk)[2].op = "assert_submission_block"
        /\ Body(Bulk)[2].tx = Tx1
        /\ 3 \in DOMAIN Body(Bulk) /\ Body(Bulk)[3].op = "assert_submission_block"
        /\ Body(Bulk)[3].tx = Tx2
    BY BulkCalls
  <2> QED BY <2>1 DEF NumbersUsed
<1> QED BY <1>1, <1>2

------------------------------------------------------------------------------
(* The invariant                                                           *)

\* What each test knows of the table before its next call, unless it is crossed.
\* Nobody else uses the deleted set or the flag, and nobody gives Tx3 another number.
BasicInv ==
    /\ pc[Basic] \in 1 .. 5
    /\ Basic \notin crossed =>
         /\ pc[Basic] \in {2, 3} => mapping[Tx1] = 100
         /\ pc[Basic] = 4 => mapping[Tx1] = None
DeletedInv ==
    /\ pc[Deleted] \in 1 .. 4
    /\ pc[Deleted] \in {1, 2} => Tx2 \notin deleted
    /\ pc[Deleted] = 3 => Tx2 \in deleted
ReorgInv ==
    /\ pc[Reorg] \in 1 .. 6
    /\ pc[Reorg] \in {1, 2, 5} => reorg_in_progress = FALSE
    /\ pc[Reorg] = 3 => reorg_in_progress = TRUE
ExpirationInv ==
    /\ pc[Expiration] \in 1 .. 4
    /\ pc[Expiration] = 4 => <<Expiration, 3>> \in failed
BulkInv ==
    /\ pc[Bulk] \in 1 .. 4
    /\ Bulk \notin crossed /\ pc[Bulk] \in {2, 3} => mapping[Tx1] = 100 /\ mapping[Tx2] = 200

TestsInv ==
    /\ mapping \in [TxHashes -> Nat \cup {None}]
    /\ mapping[Tx3] \in {None, 100}
    /\ pc \in [Tests -> Nat]
    /\ \A f \in failed : f[1] \in crossed \/ f = <<Expiration, 3>>
    /\ Basic \in Tests => BasicInv
    /\ Deleted \in Tests => DeletedInv
    /\ Reorg \in Tests => ReorgInv
    /\ Expiration \in Tests => ExpirationInv
    /\ Bulk \in Tests => BulkInv

\* A step of one test.  Another that is under way keeps its place, and the numbers
\* it uses, or is crossed.
LEMMA CallParts ==
    ASSUME NEW test \in Tests, RunCall(test), pc \in [Tests -> Nat]
    PROVE  /\ pc[test] <= Len(Body(test))
           /\ Effect(Body(test)[pc[test]])
           /\ pc' \in [Tests -> Nat] \/ Len(Body(test)) \notin Nat
           /\ Expected(Body(test)[pc[test]]) =>
                pc'[test] = pc[test] + 1 /\ failed' = failed
           /\ ~Expected(Body(test)[pc[test]]) =>
                /\ pc'[test] = Len(Body(test)) + 1
                /\ failed' = failed \cup {<<test, pc[test]>>}
           /\ crossed \subseteq crossed'
           /\ test \in crossed' => test \in crossed
           /\ \A other \in Tests \ {test} :
                /\ pc'[other] = pc[other]
                /\ other \in Running /\ other \notin crossed' =>
                     \A t \in NumbersUsed(other) : mapping'[t] = mapping[t]
<1>1. /\ Expected(Body(test)[pc[test]]) =>
           pc' = [pc EXCEPT ![test] = @ + 1] /\ failed' = failed
      /\ ~Expected(Body(test)[pc[test]]) =>
           /\ pc' = [pc EXCEPT ![test] = Len(Body(test)) + 1]
           /\ failed' = failed \cup {<<test, pc[test]>>}
      /\ pc[test] <= Len(Body(test)) /\ Effect(Body(test)[pc[test]])
  BY DEF RunCall
<1>2. crossed' = crossed \cup {other \in Running \ {test} :
                    \E t \in NumbersUsed(other) : mapping'[t] # mapping[t]}
  BY DEF RunCall
<1>3. \A other \in Tests \ {test} : pc'[other] = pc[other]
  BY <1>1
<1>4. pc' \in [Tests -> Nat] \/ Len(Body(test)) \notin Nat
  BY <1>1
<1>5. Expected(Body(test)[pc[test]]) => pc'[test] = pc[test] + 1
  BY <1>1
<1>6. ~Expected(Body(test)[pc[test]]) => pc'[test] = Len(Body(test)) + 1
  BY <1>1
<1> QED BY <1>1, <1>2, <1>3, <1>4, <1>5, <1>6

\* How an own step of a test ends: an assertion that fails is explained.
Explained(test) ==
    \/ failed' = failed
    \/ /\ failed' = failed \cup {<<test, pc[test]>>}
       /\ test \in crossed \/ <<test, pc[test]>> = <<Expiration, 3>>

\* test_tx_mapping_basic sets and takes the number of Tx1.
LEMMA BasicMoves ==
    ASSUME TestsInv, Basic \in Tests, RunCall(Basic)
    PROVE  /\ UNCHANGED <<deleted, reorg_in_progress>>
           /\ mapping' \in [TxHashes -> Nat \cup {None}] /\ mapping'[Tx3] \in {None, 100}
           /\ Explained(Basic) /\ BasicInv'
<1> DEFINE p == pc[Basic]
           s == Body(Basic)[p]
<1>1. /\ p \in 1 .. 4 /\ Effect(s)
      /\ Expected(s) => pc'[Basic] = p + 1 /\ failed' = failed
      /\ ~Expected(s) => pc'[Basic] = 5 /\ failed' = failed \cup {<<Basic, p>>}
      /\ (Basic \in crossed') <=> (Basic \in crossed)
  <2>1. p \in 1 .. 5 /\ pc \in [Tests -> Nat] /\ Len(Body(Basic)) = 4
    BY BasicCalls DEF TestsInv, BasicInv
  <2>2. /\ p <= Len(Body(Basic)) /\ Effect(s)
        /\ Expected(s) => pc'[Basic] = p + 1 /\ failed' = failed
        /\ ~Expected(s) => /\ pc'[Basic] = Len(Body(Basic)) + 1
                          /\ failed' = failed \cup {<<Basic, p>>}
    BY <2>1, CallParts
  <2>3. (Basic \in crossed') <=> (Basic \in crossed)
    BY <2>1, CallParts
  <2> QED BY <2>1, <2>2, <2>3
<1>2. /\ mapping \in [TxHashes -> Nat \cup {None}] /\ mapping[Tx3] \in {None, 100}
      /\ Tx1 \in TxHashes /\ Tx1 # Tx3 /\ Tx3 \in TxHashes /\ BasicInv
  BY TestsAssumption DEF TestsInv
<1>3. CASE p = 1
  <2>1. insert(Tx1, 100) /\ Expected(s)
    BY <1>1, <1>3, BasicCalls DEF Effect, Expected
  <2> QED BY <1>1, <1>2, <1>3, <2>1 DEF insert, BasicInv, Explained
<1>4. CASE p = 2
  <2>1. UNCHANGED mappingVars
    BY <1>1, <1>4, BasicCalls DEF Effect
  <2>2. Expected(s) \/ Basic \in crossed
    BY <1>2, <1>4, BasicCalls DEF Expected, get_submission_block, BasicInv
  <2> QED BY <1>1, <1>2, <1>4, <2>1, <2>2 DEF mappingVars, BasicInv, Explained
<1>5. CASE p = 3
  <2>1. get_tx_number(Tx1)
    BY <1>1, <1>5, BasicCalls DEF Effect
  <2>2. Expected(s) \/ Basic \in crossed
    BY <1>2, <1>5, BasicCalls, TxMappingAssumption DEF Expected, NumberOrZero, BasicInv
  <2> QED BY <1>1, <1>2, <1>5, <2>1, <2>2 DEF get_tx_number, BasicInv, Explained
<1>6. CASE p = 4
  <2>1. UNCHANGED mappingVars
    BY <1>1, <1>6, BasicCalls DEF Effect
  <2>2. Expected(s) \/ Basic \in crossed
    BY <1>2, <1>6, BasicCalls DEF Expected, get_submission_block, BasicInv
  <2> QED BY <1>1, <1>2, <1>6, <2>1, <2>2 DEF mappingVars, BasicInv, Explained
<1> QED BY <1>1, <1>3, <1>4, <1>5, <1>6

\* test_deleted_transactions uses the deleted set only.
LEMMA DeletedMoves ==
    ASSUME TestsInv, Deleted \in Tests, RunCall(Deleted)
    PROVE  UNCHANGED <<mapping, reorg_in_progress, failed>> /\ DeletedInv'
<1> DEFINE p == pc[Deleted]
           s == Body(Deleted)[p]
<1>1. /\ p \in 1 .. 3 /\ Effect(s)
      /\ Expected(s) => pc'[Deleted] = p + 1 /\ failed' = failed
      /\ DeletedInv
  BY CallParts, DeletedCalls DEF TestsInv, DeletedInv
<1>2. CASE p = 1
  <2>1. UNCHANGED mappingVars
    BY <1>1, <1>2, DeletedCalls DEF Effect
  <2>2. Expected(s)
    <3>1. is_deleted_transaction(Tx2) = FALSE
      BY <1>1, <1>2 DEF is_deleted_transaction, DeletedInv
    <3> QED BY <1>2, <3>1, DeletedCalls DEF Expected
  <2> QED BY <1>1, <1>2, <2>1, <2>2 DEF mappingVars, DeletedInv
<1>3. CASE p = 2
  <2>1. add_deleted_transaction(Tx2) /\ Expected(s)
    BY <1>1, <1>3, DeletedCalls DEF Effect, Expected
  <2> QED BY <1>1, <1>3, <2>1 DEF add_deleted_transaction, DeletedInv
<1>4. CASE p = 3
  <2>1. UNCHANGED mappingVars
    BY <1>1, <1>4, DeletedCalls DEF Effect
  <2>2. Expected(s)
    BY <1>1, <1>4, DeletedCalls DEF Expected, is_deleted_transaction, DeletedInv
  <2> QED BY <1>1, <1>4, <2>1, <2>2 DEF mappingVars, DeletedInv
<1> QED BY <1>1, <1>2, <1>3, <1>4

\* test_reorg_state uses the flag only.
LEMMA ReorgMoves ==
    ASSUME TestsInv, Reorg \in Tests, RunCall(Reorg)
    PROVE  UNCHANGED <<mapping, deleted, failed>> /\ ReorgInv'
<1> DEFINE p == pc[Reorg]
           s == Body(Reorg)[p]
<1>1. /\ p \in 1 .. 5 /\ Effect(s)
      /\ Expected(s) => pc'[Reorg] = p + 1 /\ failed' = failed
      /\ ReorgInv
  BY CallParts, ReorgCalls DEF TestsInv, ReorgInv
<1>2. CASE p \in {1, 3, 5}
  <2>1. UNCHANGED mappingVars
    BY <1>1, <1>2, ReorgCalls DEF Effect
  <2>2. Expected(s)
    BY <1>1, <1>2, ReorgCalls DEF Expected, is_reorg_complete, ReorgInv
  <2> QED BY <1>1, <1>2, <2>1, <2>2 DEF mappingVars, ReorgInv
<1>3. CASE p = 2
  <2>1. mark_start_pool_reorg /\ Expected(s)
    BY <1>1, <1>3, ReorgCalls DEF Effect, Expected
  <2> QED BY <1>1, <1>3, <2>1 DEF mark_start_pool_reorg, ReorgInv
<1>4. CASE p = 4
  <2>1. mark_pool_reorged /\ Expected(s)
    BY <1>1, <1>4, ReorgCalls DEF Effect, Expected
  <2> QED BY <1>1, <1>4, <2>1 DEF mark_pool_reorged, ReorgInv
<1> QED BY <1>1, <1>2, <1>3, <1>4

\* test_transaction_expiration sets the number of Tx3; of its assertions the first
\* holds and the second fails, with the number or without it.
LEMMA ExpirationMoves ==
    ASSUME TestsInv, Expiration \in Tests, RunCall(Expiration)
    PROVE  /\ UNCHANGED <<deleted, reorg_in_progress>>
           /\ mapping' \in [TxHashes -> Nat \cup {None}] /\ mapping'[Tx3] \in {None, 100}
           /\ Explained(Expiration) /\ ExpirationInv'
<1> DEFINE p == pc[Expiration]
           s == Body(Expiration)[p]
<1>1. /\ p \in 1 .. 3 /\ Effect(s)
      /\ Expected(s) => pc'[Expiration] = p + 1 /\ failed' = failed
      /\ ~Expected(s) => pc'[Expiration] = 4 /\ failed' = failed \cup {<<Expiration, p>>}
  <2>1. p \in 1 .. 4 /\ pc \in [Tests -> Nat] /\ Len(Body(Expiration)) = 3
    BY ExpirationCalls DEF TestsInv, ExpirationInv
  <2>2. /\ p <= Len(Body(Expiration)) /\ Effect(s)
        /\ Expected(s) => pc'[Expiration] = p + 1 /\ failed' = failed
        /\ ~Expected(s) => /\ pc'[Expiration] = Len(Body(Expiration)) + 1
                          /\ failed' = failed \cup {<<Expiration, p>>}
    BY <2>1, CallParts
  <2> QED BY <2>1, <2>2
<1>2. /\ mapping \in [TxHashes -> Nat \cup {None}] /\ mapping[Tx3] \in {None, 100}
      /\ Tx3 \in TxHashes
  BY TestsAssumption DEF TestsInv
<1>3. CASE p = 1
  <2>1. insert(Tx3, 100) /\ Expected(s)
    BY <1>1, <1>3, ExpirationCalls DEF Effect, Expected
  <2> QED BY <1>1, <1>2, <1>3, <2>1 DEF insert, ExpirationInv, Explained
<1>4. CASE p \in {2, 3}
  <2>1. UNCHANGED mappingVars
    BY <1>1, <1>4, ExpirationCalls DEF Effect
  <2>2. /\ s.tx = Tx3 /\ s.op = "assert_expired"
        /\ p = 2 => s.at = 100 + Retention - 1 /\ s.is = FALSE
        /\ p = 3 => s.at = 100 + Retention /\ s.is = TRUE
    BY <1>4, ExpirationCalls
  <2>3. is_transaction_expired(s.tx, s.at) = FALSE
    <3>1. Retention \in Nat /\ Retention > 0 /\ None \notin Nat
      BY TxMappingAssumption, TestsAssumption DEF Retention
    <3>2. /\ s.at \in Nat /\ 100 <= s.at /\ s.at <= 100 + Retention
      BY <1>4, <2>2, <3>1
    <3> HIDE DEF s
    <3>3. ~is_transaction_expired(Tx3, s.at)
      BY <1>2, <3>1, <3>2 DEF is_transaction_expired, Retention
    <3>4. is_transaction_expired(Tx3, s.at) \in BOOLEAN
      BY Zenon DEF is_transaction_expired
    <3> QED BY <2>2, <3>3, <3>4, Zenon
  <2> HIDE DEF s
  <2>4. Expected(s) <=> is_transaction_expired(s.tx, s.at) = s.is
    BY <2>2 DEF Expected
  <2>5. CASE p = 2
    <3>1. Expected(s)
      BY <2>2, <2>3, <2>4, <2>5, Zenon
    <3> QED BY <1>1, <1>2, <2>1, <2>5, <3>1 DEF mappingVars, ExpirationInv, Explained
  <2>6. CASE p = 3
    <3>1. ~Expected(s)
      BY <2>2, <2>3, <2>4, <2>6, Zenon
    <3> QED BY <1>1, <1>2, <2>1, <2>6, <3>1 DEF mappingVars, ExpirationInv, Explained
  <2> QED BY <1>4, <2>5, <2>6
<1> QED BY <1>1, <1>3, <1>4

\* test_bulk_set_mapping replaces the table in its first call and then reads it.
LEMMA BulkMoves ==
    ASSUME TestsInv, Bulk \in Tests, RunCall(Bulk)
    PROVE  /\ UNCHANGED <<deleted, reorg_in_progress>>
           /\ mapping' \in [TxHashes -> Nat \cup {None}] /\ mapping'[Tx3] \in {None, 100}
           /\ Explained(Bulk) /\ BulkInv'
<1> DEFINE p == pc[Bulk]
           s == Body(Bulk)[p]
<1>1. /\ p \in 1 .. 3 /\ Effect(s)
      /\ Expected(s) => pc'[Bulk] = p + 1 /\ failed' = failed
      /\ ~Expected(s) => pc'[Bulk] = 4 /\ failed' = failed \cup {<<Bulk, p>>}
      /\ (Bulk \in crossed') <=> (Bulk \in crossed)
      /\ BulkInv /\ mapping \in [TxHashes -> Nat \cup {None}] /\ mapping[Tx3] \in {None, 100}
  <2>1. p \in 1 .. 4 /\ pc \in [Tests -> Nat] /\ Len(Body(Bulk)) = 3
    BY BulkCalls DEF TestsInv, BulkInv
  <2>2. /\ p <= Len(Body(Bulk)) /\ Effect(s)
        /\ Expected(s) => pc'[Bulk] = p + 1 /\ failed' = failed
        /\ ~Expected(s) => /\ pc'[Bulk] = Len(Body(Bulk)) + 1
                          /\ failed' = failed \cup {<<Bulk, p>>}
    BY <2>1, CallParts
  <2>3. (Bulk \in crossed') <=> (Bulk \in crossed)
    BY <2>1, CallParts
  <2> QED BY <2>1, <2>2, <2>3 DEF TestsInv
<1>2. CASE p = 1
  <2>1. set_mapping(BulkMapping) /\ Expected(s)
    BY <1>1, <1>2, BulkCalls DEF Effect, Expected
  <2>2. /\ BulkMapping \in [TxHashes -> Nat \cup {None}]
        /\ BulkMapping[Tx1] = 100 /\ BulkMapping[Tx2] = 200 /\ BulkMapping[Tx3] = None
    BY TestsAssumption DEF BulkMapping
  <2> QED BY <1>1, <1>2, <2>1, <2>2 DEF set_mapping, BulkInv, Explained
<1>3. CASE p \in {2, 3}
  <2>1. UNCHANGED mappingVars
    BY <1>1, <1>3, BulkCalls DEF Effect
  <2>2. Expected(s) \/ Bulk \in crossed
    BY <1>1, <1>3, BulkCalls DEF Expected, get_submission_block, BulkInv
  <2> QED BY <1>1, <1>3, <2>1, <2>2 DEF mappingVars, BulkInv, Explained
<1> QED BY <1>1, <1>2, <1>3

\* A step of another test leaves what two of the tests know of the numbers, or
\* crosses them.
LEMMA OthersKnow ==
    ASSUME TestsInv, NEW test \in Tests, RunCall(test)
    PROVE  /\ Basic \in Tests \ {test} => BasicInv'
           /\ Bulk \in Tests \ {test} => BulkInv'
<1>1. /\ crossed \subseteq crossed'
      /\ \A other \in Tests \ {test} :
           /\ pc'[other] = pc[other] /\ pc[other] \in Nat
           /\ other \in Running /\ other \notin crossed' =>
                \A t \in NumbersUsed(other) : mapping'[t] = mapping[t]
  BY CallParts DEF TestsInv
<1>2. \A other \in Tests : other \in Running <=> pc[other] > 1 /\ pc[other] <= Len(Body(other))
  BY DEF Running
<1>3. ASSUME Basic \in Tests \ {test} PROVE BasicInv'
  <2>1. BasicInv /\ Tx1 \in NumbersUsed(Basic) /\ Len(Body(Basic)) = 4
    BY <1>3, UsedNumbers, BasicCalls DEF TestsInv
  <2>2. Basic \in Running <=> pc[Basic] > 1 /\ pc[Basic] <= 4
    BY <1>2, <1>3, <2>1
  <2> QED BY <1>1, <1>3, <2>1, <2>2 DEF BasicInv
<1>4. ASSUME Bulk \in Tests \ {test} PROVE BulkInv'
  <2>1. /\ BulkInv /\ Tx1 \in NumbersUsed(Bulk) /\ Tx2 \in NumbersUsed(Bulk)
        /\ Len(Body(Bulk)) = 3
    BY <1>4, UsedNumbers, BulkCalls DEF TestsInv
  <2>2. Bulk \in Running <=> pc[Bulk] > 1 /\ pc[Bulk] <= 3
    BY <1>2, <1>4, <2>1
  <2> QED BY <1>1, <1>4, <2>1, <2>2 DEF BulkInv
<1> QED BY <1>3, <1>4

\* Whatever tests are run, on however many threads and in whatever order, an
\* assertion fails only in a test that another crossed, or at lib.rs:242, and
\* there always (FailuresExplained).
THEOREM FailuresExplainedHolds == Spec => []FailuresExplained
<1>1. Init => TestsInv
  <2> SUFFICES ASSUME Init PROVE TestsInv
    OBVIOUS
  <2>1. /\ mapping = [t \in TxHashes |-> None] /\ deleted = {}
        /\ reorg_in_progress = FALSE /\ failed = {}
        /\ pc = [test \in Tests |-> 1]
    BY DEF Init, TxMappingInit
  <2>2. \A test \in Tests : pc[test] = 1
    BY <2>1
  <2> QED
    BY <2>1, <2>2, TestsAssumption DEF TestsInv, BasicInv, DeletedInv, ReorgInv, ExpirationInv, BulkInv
<1>2. ASSUME TestsInv, [Next]_testVars
      PROVE  TestsInv'
  <2> USE <1>2
  <2>1. CASE UNCHANGED testVars
    BY <2>1 DEF testVars, TestsInv, BasicInv, DeletedInv, ReorgInv,
                ExpirationInv, BulkInv
  <2>2. ASSUME NEW test \in Tests, RunCall(test) PROVE TestsInv'
    <3>1. /\ crossed \subseteq crossed'
          /\ \A other \in Tests \ {test} : pc'[other] = pc[other]
          /\ Len(Body(test)) \in Nat => pc' \in [Tests -> Nat]
      BY <2>2, CallParts DEF TestsInv
    <3>2. test \in {Basic, Deleted, Reorg, Expiration, Bulk}
      BY TestsAssumption DEF Basic, Deleted, Reorg, Expiration, Bulk
    <3>3. pc' \in [Tests -> Nat]
      BY <3>1, <3>2, BasicCalls, DeletedCalls, ReorgCalls, ExpirationCalls, BulkCalls
    <3>4. /\ Basic \in Tests \ {test} => BasicInv'
          /\ Bulk \in Tests \ {test} => BulkInv'
      BY <2>2, OthersKnow
    <3>5. /\ mapping' \in [TxHashes -> Nat \cup {None}] /\ mapping'[Tx3] \in {None, 100}
          /\ Explained(test)
          /\ test = Deleted \/ UNCHANGED deleted
          /\ test = Reorg \/ UNCHANGED reorg_in_progress
          /\ test = Basic => BasicInv'
          /\ test = Deleted => DeletedInv'
          /\ test = Reorg => ReorgInv'
          /\ test = Expiration => ExpirationInv'
          /\ test = Bulk => BulkInv'
      <4>1. /\ Basic # Deleted /\ Basic # Reorg /\ Basic # Expiration /\ Basic # Bulk
            /\ Deleted # Reorg /\ Deleted # Expiration /\ Deleted # Bulk
            /\ Reorg # Expiration /\ Reorg # Bulk /\ Expiration # Bulk
        BY DEF Basic, Deleted, Reorg, Expiration, Bulk
      <4>2. mapping \in [TxHashes -> Nat \cup {None}] /\ mapping[Tx3] \in {None, 100}
        BY DEF TestsInv
      <4>3. CASE test = Basic
        BY <2>2, <4>1, <4>3, BasicMoves
      <4>4. CASE test = Deleted
        BY <2>2, <4>1, <4>2, <4>4, DeletedMoves DEF Explained
      <4>5. CASE test = Reorg
        BY <2>2, <4>1, <4>2, <4>5, ReorgMoves DEF Explained
      <4>6. CASE test = Expiration
        BY <2>2, <4>1, <4>6, ExpirationMoves
      <4>7. CASE test = Bulk
        BY <2>2, <4>1, <4>7, BulkMoves
      <4> QED BY <3>2, <4>3, <4>4, <4>5, <4>6, <4>7
    <3>6. Deleted \in Tests => DeletedInv'
      BY <3>1, <3>5 DEF TestsInv, DeletedInv
    <3>7. Reorg \in Tests => ReorgInv'
      BY <3>1, <3>5 DEF TestsInv, ReorgInv
    <3>8. \A f \in failed' : f[1] \in crossed' \/ f = <<Expiration, 3>>
      BY <3>1, <3>5 DEF TestsInv, Explained
    <3>9. Expiration \in Tests => ExpirationInv'
      <4>1. failed \subseteq failed'
        BY <3>5 DEF Explained
      <4> QED BY <3>1, <3>5, <4>1 DEF TestsInv, ExpirationInv
    <3> QED BY <3>3, <3>4, <3>5, <3>6, <3>7, <3>8, <3>9 DEF TestsInv
  <2> QED BY <2>1, <2>2 DEF Next
<1>3. TestsInv => FailuresExplained
  BY ExpirationCalls DEF TestsInv, ExpirationInv, FailuresExplained, Expiration
<1> QED BY <1>1, <1>2, <1>3, PTL DEF Spec
==============================================================================
