-------------------------- MODULE KasplexNodeNumbers --------------------------
(***************************************************************************)
(* The table of transaction numbers implements NumberLedger: whatever the  *)
(* auth RPC, the engine, payload jobs and block_to_payload do to it        *)
(* concurrently, a transaction is only ever credited with a number its own *)
(* submission was given.  The inductive invariant says that the vectors of *)
(* numbers the builder and block_to_payload keep between their locks stay  *)
(* aligned with the transactions the numbers belong to.                    *)
(***************************************************************************)
EXTENDS KasplexNodeTypes

\* The numbers that may stand against t: one it was given, or 0 for none.
Owned(t) == submitted[t] \cup {0}

\* The vector of job j is aligned with its included transactions, and holds one
\* more number, that of the transaction under trial, while it executes.
AlignedJob(j) == jobStage[j] \notin {"failed", "panicked", "lost"} =>
    /\ Len(transaction_numbers[j]) =
         IF jobStage[j] = "execute" THEN Len(included[j]) + 1 ELSE Len(included[j])
    /\ \A i \in 1 .. Len(included[j]) :
         transaction_numbers[j][i] \in Owned(included[j][i])
    /\ jobStage[j] = "execute" =>
         transaction_numbers[j][Len(included[j]) + 1] \in Owned(Head(txs[j]))

\* The vector of conversion v is aligned with the transactions of its block.
AlignedConversion(v) ==
    /\ convStage[v] = "idle" => convNumbers[v] = <<>>
    /\ Len(convNumbers[v]) <= Len(BlockTxs[convBlock[v]])
    /\ \A i \in 1 .. Len(convNumbers[v]) :
         convNumbers[v][i] \in Owned(BlockTxs[convBlock[v]][i])

\* The number about to be stored is the successor of a block number.
NumberReady(s) == sendStage[s] = "insert" => tx_number[s] \in NextNumbers

NumbersInv ==
    /\ NumberProvenance
    /\ \A j \in Jobs : AlignedJob(j)
    /\ \A v \in Conversions : AlignedConversion(v)
    /\ \A s \in SendCalls : NumberReady(s)

------------------------------------------------------------------------------
(* Every step is a step of the ledger                                      *)

\* A step of the auth RPC gives a number, or leaves the ledger alone.
LEMMA SendLedger ==
    ASSUME TypeOK, NEW s \in SendCalls, SendStep(s), NumberReady(s)
    PROVE  Ledger!Next \/ UNCHANGED <<mapping, submitted>>
<1>1. CASE SendInserts(s)
  <2>1. Head(batch[s]) \in TxHashes /\ tx_number[s] \in NextNumbers
    BY <1>1 DEF SendInserts, NumberReady, TypeOK, AuthRpcTypeOK
  <2>2. Ledger!Give(Head(batch[s]), tx_number[s])
    BY <1>1 DEF SendInserts, insert, Ledger!Give
  <2> QED
    BY <2>1, <2>2 DEF Ledger!Next
<1>2. CASE ~SendInserts(s)
  BY <1>2 DEF SendStep, SendRejects, SendReadsHeader, SendFindsNoHeader, SendAdds,
              SendFailsToAdd, SendReturns, mappingVars
<1> QED
  BY <1>1, <1>2

\* A step of new_payload_v2 takes a number away, or leaves the ledger alone.
LEMMA NewPayloadLedger ==
    ASSUME TypeOK, NEW c \in NewPayloadCalls, NewPayloadStep(c), UNCHANGED sendVars
    PROVE  Ledger!Next \/ UNCHANGED <<mapping, submitted>>
<1>1. UNCHANGED submitted
  BY DEF sendVars
<1>2. CASE NewPayloadTakesNumber(c)
  <2>1. Head(npTodo[c]) \in TxHashes
    BY <1>2 DEF NewPayloadTakesNumber, TypeOK, EngineApiTypeOK
  <2>2. Ledger!Take(Head(npTodo[c]))
    BY <1>1, <1>2 DEF NewPayloadTakesNumber, get_tx_number, Ledger!Take
  <2> QED
    BY <2>1, <2>2 DEF Ledger!Next
<1>3. CASE ~NewPayloadTakesNumber(c)
  BY <1>1, <1>3
  DEF NewPayloadStep, NewPayloadConvert, NewPayloadUnconverted, NewPayloadValid,
      NewPayloadNotValid, NewPayloadFails, NewPayloadLookup, NewPayloadRemoves,
      NewPayloadReturns, NewPayloadEnds, IncludedSnapshot, IncludedRemove, mappingVars
<1> QED
  BY <1>2, <1>3

\* A step of fork_choice_updated_v2 leaves the ledger alone.
LEMMA FcuLedger ==
    ASSUME NEW c \in FcuCalls, FcuStep(c), UNCHANGED sendVars
    PROVE  UNCHANGED <<mapping, submitted>>
BY DEF FcuStep, FcuApplied, FcuNotApplied, FcuFails, FcuLookup, FcuFindsNoHead,
       FcuCleanup, FcuReturns, FcuEnds, CleanupStep, CleanupStart, CleanupSnapshot,
       CleanupCheckPending, CleanupCheckQueued, CleanupChecked, CleanupRemove,
       CleanupFinish, mark_start_pool_reorg, mark_pool_reorged, mappingVars, sendVars

\* A step of a payload job puts an owned number back, or leaves the ledger alone.
LEMMA JobLedger ==
    ASSUME TypeOK, NEW j \in Jobs, JobStep(j), AlignedJob(j), UNCHANGED sendVars
    PROVE  Ledger!Next \/ UNCHANGED <<mapping, submitted>>
<1>1. UNCHANGED submitted
  BY DEF sendVars
<1>2. CASE StoreNumber(j)
  <2>1. CASE stored[j] < Len(included[j])
    <3> DEFINE i == stored[j] + 1
    <3>1. i \in 1 .. Len(included[j]) /\ included[j][i] \in TxHashes
      BY <2>1 DEF TypeOK, BuilderTypeOK
    <3>2. transaction_numbers[j][i] \in Owned(included[j][i])
      BY <1>2, <3>1 DEF StoreNumber, AlignedJob
    <3>3. Ledger!Restore(included[j][i])
      BY <1>1, <1>2, <2>1, <3>2 DEF StoreNumber, insert, Owned, Ledger!Restore
    <3> QED
      BY <3>1, <3>3 DEF Ledger!Next
  <2>2. CASE ~(stored[j] < Len(included[j]))
    BY <1>1, <1>2, <2>2 DEF StoreNumber, mappingVars
  <2> QED
    BY <2>1, <2>2
<1>3. CASE ~StoreNumber(j)
  BY <1>1, <1>3 DEF JobStep, JobOverflows, JobFails, PreExecution, JobCancelled, ExtractNumber,
                    ExecuteTx, SkipTx, FinishBlock, JobBuilt, mappingVars
<1> QED
  BY <1>2, <1>3

\* A step of block_to_payload puts an owned number back, or leaves the ledger
\* alone.
LEMMA ConversionLedger ==
    ASSUME TypeOK, ConvNumbersFit, NEW v \in Conversions, ConversionStep(v),
           AlignedConversion(v), UNCHANGED sendVars
    PROVE  Ledger!Next \/ UNCHANGED <<mapping, submitted>>
<1>1. UNCHANGED submitted
  BY DEF sendVars
<1>2. CASE ConversionWrites(v)
  <2> DEFINE i == convStored[v] + 1
  <2> DEFINE body == BlockTxs[convBlock[v]]
  <2>1. body \in Seq(TxHashes)
    BY PayloadBuilderAssumption DEF TypeOK, BuilderTypeOK
  <2>2. i \in 1 .. Len(body) /\ Len(convNumbers[v]) = Len(body)
    BY <1>2, <2>1 DEF ConversionWrites, ConvNumbersFit, TypeOK, BuilderTypeOK
  <2>3. body[i] \in TxHashes /\ convNumbers[v][i] \in Owned(body[i])
    BY <2>1, <2>2 DEF AlignedConversion
  <2>4. Ledger!Restore(body[i])
    BY <1>1, <1>2, <2>3 DEF ConversionWrites, insert, Owned, Ledger!Restore
  <2> QED
    BY <2>3, <2>4 DEF Ledger!Next
<1>3. CASE ~ConversionWrites(v)
  BY <1>1, <1>3
  DEF ConversionStep, ConversionReads, ConversionRead, ConversionReturns, mappingVars
<1> QED
  BY <1>2, <1>3

\* Every step of the node is a step of the ledger or leaves it alone.
LEMMA LedgerStep ==
    ASSUME TypeInv, NumbersInv, [Next]_vars
    PROVE  Ledger!Next \/ UNCHANGED <<mapping, submitted>>
<1> USE DEF TypeInv, NumbersInv
<1>1. CASE UNCHANGED vars
  BY <1>1 DEF vars, mappingVars, sendVars
<1>2. CASE Request
  BY <1>2 DEF Request, SendReceive, FcuReceive, NewPayloadReceive, ConversionStarts,
              mappingVars, sendVars
<1>3. CASE PoolEvent
  BY <1>3 DEF PoolEvent, PoolReceives, PoolMoves, PoolDrops, mappingVars, sendVars
<1>4. CASE \E s \in SendCalls : SendHandler(s)
  BY <1>4, SendLedger DEF SendHandler
<1>5. CASE \E c \in FcuCalls : FcuHandler(c)
  BY <1>5, FcuLedger DEF FcuHandler
<1>6. CASE \E c \in NewPayloadCalls : NewPayloadHandler(c)
  BY <1>6, NewPayloadLedger DEF NewPayloadHandler
<1>7. CASE \E j \in Jobs : JobHandler(j)
  BY <1>7, JobLedger DEF JobHandler
<1>8. CASE \E v \in Conversions : ConversionHandler(v)
  BY <1>8, ConversionLedger DEF ConversionHandler
<1>9. CASE Restart
  <2>1. Ledger!Lose
    BY <1>9 DEF Restart, TxMappingRestart, clear, AuthRpcRestart, Ledger!Lose
  <2> QED
    BY <2>1 DEF Ledger!Next
<1> QED
  BY <1>1, <1>2, <1>3, <1>4, <1>5, <1>6, <1>7, <1>8, <1>9 DEF Next, Quiescent

\* A step of the ledger credits a transaction with an owned number only, and a
\* number once given stays given.
LEMMA LedgerKeepsOwners ==
    ASSUME TypeOK, NumberProvenance, Ledger!Next \/ UNCHANGED <<mapping, submitted>>
    PROVE  /\ NumberProvenance'
           /\ \A t \in TxHashes : submitted[t] \subseteq submitted'[t]
<1> USE DEF TypeOK, TxMappingTypeOK, AuthRpcTypeOK, NumberProvenance
<1>1. CASE UNCHANGED <<mapping, submitted>>
  BY <1>1
<1>2. ASSUME NEW t \in TxHashes, NEW n \in NextNumbers, Ledger!Give(t, n)
      PROVE  /\ NumberProvenance'
             /\ \A u \in TxHashes : submitted[u] \subseteq submitted'[u]
  BY <1>2 DEF Ledger!Give
<1>3. ASSUME NEW t \in TxHashes, Ledger!Restore(t)
      PROVE  NumberProvenance' /\ UNCHANGED submitted
  BY <1>3 DEF Ledger!Restore
<1>4. ASSUME NEW t \in TxHashes, Ledger!Take(t)
      PROVE  NumberProvenance' /\ UNCHANGED submitted
  BY <1>4 DEF Ledger!Take
<1>5. CASE Ledger!Lose
  BY <1>5 DEF Ledger!Lose
<1> QED
  BY <1>1, <1>2, <1>3, <1>4, <1>5 DEF Ledger!Next

------------------------------------------------------------------------------
(* The vectors stay aligned                                                *)

\* What only job j writes.
JobLocals(j) == <<jobStage[j], attrs[j], txs[j], transaction_numbers[j], included[j]>>

\* A step of job j, or of the service for it, leaves the locals of the others alone.
LEMMA JobLocalsFrame ==
    ASSUME TypeOK, NEW j \in Jobs, ServiceStep(j) \/ JobStep(j)
    PROVE  \A k \in Jobs \ {j} : UNCHANGED JobLocals(k)
<1> USE DEF TypeOK, BuilderTypeOK, JobGoto, jobSetup, jobLocals, JobLocals
<1>1. CASE ServiceStep(j)
  BY <1>1 DEF ServiceStep, JobStarts, JobRetries, JobDelisted, jobVars
<1>2. CASE SlotStep(j)
  BY <1>2 DEF SlotStep, SetExtraData, SetBaseFee, ReadBaseFee, ReadExtraData,
              ClearExtraData, ClearBaseFee
<1>3. CASE JobOverflows(j) \/ JobFails(j) \/ PreExecution(j) \/ JobCancelled(j)
           \/ FinishBlock(j) \/ JobBuilt(j)
  BY <1>3 DEF JobOverflows, JobFails, PreExecution, JobCancelled, FinishBlock, JobBuilt
<1>4. CASE ExtractNumber(j)
  BY <1>4 DEF ExtractNumber
<1>5. CASE ExecuteTx(j)
  BY <1>5 DEF ExecuteTx
<1>6. CASE SkipTx(j)
  BY <1>6 DEF SkipTx
<1>7. CASE StoreNumber(j)
  BY <1>7 DEF StoreNumber
<1> QED
  BY <1>1, <1>2, <1>3, <1>4, <1>5, <1>6, <1>7 DEF JobStep

\* A step that leaves the locals of job j alone keeps its vector aligned.
LEMMA AlignedJobFrame ==
    ASSUME TypeOK, NEW j \in Jobs, AlignedJob(j), UNCHANGED JobLocals(j),
           \A t \in TxHashes : submitted[t] \subseteq submitted'[t]
    PROVE  AlignedJob(j)'
<1>1. UNCHANGED <<jobStage[j], txs[j], transaction_numbers[j], included[j]>>
  BY DEF JobLocals
<1>2. \A t \in TxHashes : Owned(t) \subseteq Owned(t)'
  BY DEF Owned
<1>3. \A i \in 1 .. Len(included[j]) : included[j][i] \in TxHashes
  BY DEF TypeOK, BuilderTypeOK
<1>4. jobStage[j] = "execute" => Head(txs[j]) \in TxHashes
  BY DEF TypeOK, BuilderTypeOK
<1>5. \A i \in 1 .. Len(included[j]) : Owned(included[j][i]) \subseteq Owned(included[j][i])'
  BY <1>1, <1>2, <1>3 DEF Owned
<1>6. jobStage[j] = "execute" => Owned(Head(txs[j])) \subseteq Owned(Head(txs[j]))'
  BY <1>1, <1>2, <1>4 DEF Owned
<1> QED
  BY <1>1, <1>5, <1>6 DEF AlignedJob

\* A step of job j keeps its own vector aligned: the number is pushed before the
\* transaction is tried, popped when it is skipped, and kept when it is included.
LEMMA AlignedJobOwn ==
    ASSUME TypeOK, NumberProvenance, NEW j \in Jobs, AlignedJob(j),
           ServiceStep(j) \/ JobStep(j), UNCHANGED submitted
    PROVE  AlignedJob(j)'
<1> DEFINE nums == transaction_numbers[j]
<1> DEFINE inc == included[j]
<1>1. nums \in Seq(Nat) /\ inc \in Seq(TxHashes) /\ txs[j] \in Seq(TxHashes)
  BY DEF TypeOK, BuilderTypeOK
<1>2. \A t : Owned(t)' = Owned(t)
  BY DEF Owned
<1>3. ASSUME NEW st, jobStage' = [jobStage EXCEPT ![j] = st]
      PROVE  jobStage'[j] = st
  BY <1>3 DEF TypeOK, BuilderTypeOK
<1>4. ASSUME UNCHANGED <<nums, inc>>, jobStage'[j] # "execute",
             jobStage[j] # "execute" \/ jobStage'[j] \in {"failed", "panicked"},
             jobStage[j] \in {"failed", "panicked", "lost"} => UNCHANGED jobStage[j]
      PROVE  AlignedJob(j)'
  BY <1>4 DEF AlignedJob, Owned
<1> USE DEF JobGoto
<1>5. CASE JobStarts(j)
  BY <1>3, <1>4, <1>5 DEF JobStarts
<1>13. CASE JobRetries(j)
  <2>1. /\ transaction_numbers'[j] = <<>> /\ included'[j] = <<>>
        /\ jobStage'[j] = "set_extra"
    BY <1>3, <1>13 DEF JobRetries, TypeOK, BuilderTypeOK
  <2> QED
    BY <2>1 DEF AlignedJob
<1>14. CASE JobDelisted(j)
  BY <1>2, <1>14 DEF JobDelisted, jobVars, AlignedJob, Owned
<1>6. CASE SlotStep(j)
  BY <1>3, <1>4, <1>6 DEF SlotStep, SetExtraData, SetBaseFee, ReadBaseFee,
                          ReadExtraData, ClearExtraData, ClearBaseFee
<1>7. CASE JobFails(j) \/ JobOverflows(j)
  BY <1>3, <1>4, <1>7 DEF JobFails, JobOverflows, jobLocals
<1>8. CASE PreExecution(j) \/ JobCancelled(j) \/ FinishBlock(j) \/ JobBuilt(j)
  BY <1>3, <1>4, <1>8 DEF PreExecution, JobCancelled, FinishBlock, JobBuilt, jobLocals
<1>9. CASE StoreNumber(j)
  BY <1>4, <1>9 DEF StoreNumber
<1>10. CASE ExtractNumber(j)
  <2> DEFINE n == NumberOrZero(Head(txs[j]))
  <2>1. n \in Nat /\ n \in Owned(Head(txs[j]))
    BY <1>1, <1>10, NumberIsNat
    DEF ExtractNumber, NumberOrZero, NumberProvenance, Owned, TypeOK
  <2>2. /\ jobStage[j] = "next_tx" /\ jobStage'[j] = "execute"
        /\ UNCHANGED <<txs, included>>
        /\ transaction_numbers'[j] = Append(nums, n)
    BY <1>3, <1>10 DEF ExtractNumber, TypeOK, BuilderTypeOK
  <2>3. /\ Len(Append(nums, n)) = Len(nums) + 1
        /\ \A i \in 1 .. Len(nums) : Append(nums, n)[i] = nums[i]
        /\ Append(nums, n)[Len(nums) + 1] = n
    BY <1>1, <2>1, AppendProperties
  <2> QED
    BY <1>1, <2>1, <2>2, <2>3 DEF AlignedJob, Owned
<1>11. CASE SkipTx(j)
  <2> DEFINE short == SubSeq(nums, 1, Len(nums) - 1)
  <2>1. /\ jobStage[j] = "execute" /\ jobStage'[j] = "next_tx" /\ UNCHANGED included
        /\ transaction_numbers'[j] = short
    BY <1>3, <1>11 DEF SkipTx, TypeOK, BuilderTypeOK
  <2>2. Len(nums) = Len(inc) + 1 /\ Len(inc) \in Nat
    BY <1>1, <2>1 DEF AlignedJob
  <2>3. /\ Len(short) = Len(inc)
        /\ \A i \in 1 .. Len(inc) : short[i] = nums[i]
    <3>1. \A i \in 1 .. Len(nums) - 1 : nums[i] \in Nat
      BY <1>1
    <3>2. Len(nums) - 1 \in Int /\ 1 \in Int
      BY <2>2
    <3>3. /\ Len(short) = IF 1 <= Len(nums) - 1 THEN Len(nums) - 1 - 1 + 1 ELSE 0
          /\ \A i \in 1 .. Len(nums) - 1 - 1 + 1 : short[i] = nums[1 + i - 1]
      BY <3>1, <3>2, SubSeqProperties
    <3> QED
      BY <2>2, <3>3
  <2> QED
    BY <2>1, <2>2, <2>3 DEF AlignedJob, Owned
<1>12. CASE ExecuteTx(j)
  <2> DEFINE t == Head(txs[j])
  <2>1. /\ jobStage[j] = "execute" /\ jobStage'[j] \in {"panicked", "next_tx"}
        /\ UNCHANGED transaction_numbers
        /\ included'[j] = Append(inc, t) /\ t \in TxHashes
    BY <1>1, <1>3, <1>12 DEF ExecuteTx, TypeOK, BuilderTypeOK
  <2>2. /\ Len(Append(inc, t)) = Len(inc) + 1
        /\ \A i \in 1 .. Len(inc) : Append(inc, t)[i] = inc[i]
        /\ Append(inc, t)[Len(inc) + 1] = t
    BY <1>1, <2>1, AppendProperties
  <2>3. /\ Len(nums) = Len(inc) + 1 /\ Len(inc) \in Nat
        /\ \A i \in 1 .. Len(inc) : nums[i] \in Owned(inc[i])
        /\ nums[Len(inc) + 1] \in Owned(t)
    BY <1>1, <2>1 DEF AlignedJob
  <2>4. ASSUME NEW i \in 1 .. Len(inc) + 1
        PROVE  nums[i] \in Owned(Append(inc, t)[i])
    BY <2>2, <2>3
  <2>5. /\ transaction_numbers'[j] = nums /\ jobStage'[j] # "execute"
        /\ Len(included'[j]) = Len(inc) + 1
    BY <2>1, <2>2
  <2>6. \A i \in 1 .. Len(included'[j]) : nums[i] \in Owned(included[j][i])'
    BY <1>2, <2>1, <2>4, <2>5 DEF Owned
  <2> QED
    BY <2>3, <2>5, <2>6 DEF AlignedJob
<1> QED
  BY <1>5, <1>6, <1>7, <1>8, <1>9, <1>10, <1>11, <1>12, <1>13, <1>14
  DEF JobStep, ServiceStep

\* To job j a step is its own, the loss of what it was doing, or nothing.
LEMMA JobCases ==
    ASSUME TypeOK, [Next]_vars, NEW j \in Jobs
    PROVE  \/ UNCHANGED JobLocals(j)
           \/ (ServiceStep(j) \/ JobStep(j)) /\ UNCHANGED sendVars
           \/ /\ jobStage[j] # "idle" /\ jobStage'[j] = "lost"
              /\ UNCHANGED <<submitted, attrs, txs, transaction_numbers, included>>
<1>1. CASE UNCHANGED jobVars
  BY <1>1 DEF jobVars, JobLocals
<1>2. ASSUME NEW k \in Jobs, ServiceStep(k) \/ JobStep(k), UNCHANGED sendVars
      PROVE  UNCHANGED JobLocals(j) \/ ((ServiceStep(j) \/ JobStep(j)) /\ UNCHANGED sendVars)
  BY <1>2, JobLocalsFrame
<1>3. CASE UNCHANGED vars
  BY <1>1, <1>3 DEF vars, builderVars
<1>4. CASE Request
  BY <1>1, <1>2, <1>4 DEF Request, builderVars
<1>5. CASE PoolEvent
  BY <1>1, <1>5 DEF PoolEvent, builderVars
<1>6. CASE Restart
  <2>1. /\ UNCHANGED <<submitted, attrs, transaction_numbers, included, txs>>
        /\ UNCHANGED jobStage[j] \/ (jobStage[j] # "idle" /\ jobStage'[j] = "lost")
    BY <1>6 DEF Restart, BuilderRestart, AuthRpcRestart, Running
  <2> QED
    BY <2>1 DEF JobLocals
<1> QED
  BY <1>1, <1>2, <1>3, <1>4, <1>5, <1>6
  DEF Next, Quiescent, SendHandler, FcuHandler, NewPayloadHandler, JobHandler,
      ConversionHandler, builderVars

\* Every step keeps the vector of every job aligned.
LEMMA AlignedJobStep ==
    ASSUME TypeInv, NumbersInv, [Next]_vars, NEW j \in Jobs,
           \A t \in TxHashes : submitted[t] \subseteq submitted'[t]
    PROVE  AlignedJob(j)'
<1> USE DEF TypeInv, NumbersInv
<1>1. CASE UNCHANGED JobLocals(j)
  BY <1>1, AlignedJobFrame
<1>2. CASE (ServiceStep(j) \/ JobStep(j)) /\ UNCHANGED sendVars
  BY <1>2, AlignedJobOwn DEF sendVars
<1>3. CASE jobStage'[j] = "lost"
  BY <1>3 DEF AlignedJob
<1> QED
  BY <1>1, <1>2, <1>3, JobCases

\* What only conversion v writes.
ConvLocals(v) == <<convStage[v], convBlock[v], convNumbers[v]>>

\* A step that leaves conversion v alone keeps its vector aligned.
LEMMA AlignedConversionFrame ==
    ASSUME TypeOK, NEW v \in Conversions, AlignedConversion(v), UNCHANGED ConvLocals(v),
           \A t \in TxHashes : submitted[t] \subseteq submitted'[t]
    PROVE  AlignedConversion(v)'
<1> DEFINE body == BlockTxs[convBlock[v]]
<1>1. UNCHANGED <<convStage[v], convBlock[v], convNumbers[v]>>
  BY DEF ConvLocals
<1>2. body \in Seq(TxHashes) /\ Len(convNumbers[v]) \in Nat
  BY PayloadBuilderAssumption DEF TypeOK, BuilderTypeOK
<1>3. \A i \in 1 .. Len(convNumbers[v]) : body[i] \in TxHashes
  BY <1>2 DEF AlignedConversion
<1>4. \A i \in 1 .. Len(convNumbers[v]) : Owned(body[i]) \subseteq Owned(body[i])'
  BY <1>1, <1>3 DEF Owned
<1> QED
  BY <1>1, <1>4 DEF AlignedConversion

\* The start or a step of conversion v keeps its own vector aligned and leaves
\* the others alone.
LEMMA AlignedConversionOwn ==
    ASSUME TypeOK, NumberProvenance, NEW v \in Conversions, AlignedConversion(v),
           ConversionStarts(v) \/ ConversionStep(v), UNCHANGED submitted
    PROVE  /\ AlignedConversion(v)'
           /\ \A w \in Conversions \ {v} : UNCHANGED ConvLocals(w)
<1> USE DEF TypeOK, BuilderTypeOK, ConvLocals
<1>1. \A t : Owned(t)' = Owned(t)
  BY DEF Owned
<1>2. CASE ConversionStarts(v)
  <2>1. PICK b \in Blocks : convBlock' = [convBlock EXCEPT ![v] = b]
    BY <1>2 DEF ConversionStarts
  <2>2. convNumbers'[v] = <<>> /\ convStage'[v] = "read" /\ convBlock'[v] = b
    BY <1>2, <2>1 DEF ConversionStarts, AlignedConversion
  <2>3. Len(BlockTxs[b]) \in Nat /\ Len(<<>>) = 0
    BY PayloadBuilderAssumption
  <2>4. AlignedConversion(v)'
    BY <2>2, <2>3 DEF AlignedConversion
  <2> QED
    BY <1>2, <2>1, <2>4 DEF ConversionStarts
<1>3. CASE ConversionReads(v)
  <2> DEFINE body == BlockTxs[convBlock[v]]
  <2> DEFINE nums == convNumbers[v]
  <2> DEFINE n == NumberOrZero(body[Len(nums) + 1])
  <2>1. body \in Seq(TxHashes) /\ nums \in Seq(Nat)
    BY PayloadBuilderAssumption
  <2>2. Len(nums) + 1 \in 1 .. Len(body) /\ body[Len(nums) + 1] \in TxHashes
    BY <1>3, <2>1 DEF ConversionReads
  <2>3. n \in Nat /\ n \in Owned(body[Len(nums) + 1])
    BY <2>2, NumberIsNat DEF NumberOrZero, NumberProvenance, Owned
  <2>4. /\ Len(Append(nums, n)) = Len(nums) + 1
        /\ \A i \in 1 .. Len(nums) : Append(nums, n)[i] = nums[i]
        /\ Append(nums, n)[Len(nums) + 1] = n
    BY <2>1, <2>3, AppendProperties
  <2>5. /\ convNumbers'[v] = Append(nums, n) /\ convStage[v] = "read"
        /\ UNCHANGED <<convStage, convBlock>>
    BY <1>3 DEF ConversionReads
  <2>6. AlignedConversion(v)'
    <3>1. \A i \in 1 .. Len(nums) : nums[i] \in Owned(body[i])
      BY DEF AlignedConversion
    <3>2. Len(nums) \in Nat /\ Len(body) \in Nat
      BY <2>1
    <3>3. ASSUME NEW i \in 1 .. Len(nums) + 1
          PROVE  Append(nums, n)[i] \in Owned(body[i])
      BY <2>3, <2>4, <3>1, <3>2
    <3>4. /\ convBlock'[v] = convBlock[v] /\ convStage'[v] = "read"
          /\ Len(convNumbers'[v]) = Len(nums) + 1
      BY <2>4, <2>5
    <3>5. \A i \in 1 .. Len(convNumbers'[v]) :
            convNumbers'[v][i] \in Owned(BlockTxs[convBlock[v]][i])'
      BY <1>1, <2>5, <3>3, <3>4 DEF Owned
    <3>6. Len(nums) + 1 <= Len(body)
      BY <2>2, <3>2
    <3> QED
      BY <3>4, <3>5, <3>6 DEF AlignedConversion
  <2> QED
    BY <1>3, <2>6 DEF ConversionReads
<1>4. CASE ConversionRead(v) \/ ConversionWrites(v) \/ ConversionReturns(v)
  <2>1. UNCHANGED <<convBlock, convNumbers>> /\ convStage'[v] # "idle"
    BY <1>4 DEF ConversionRead, ConversionWrites, ConversionReturns
  <2>2. AlignedConversion(v)'
    BY <2>1 DEF AlignedConversion, Owned
  <2> QED
    BY <1>4, <2>2 DEF ConversionRead, ConversionWrites, ConversionReturns
<1> QED
  BY <1>2, <1>3, <1>4 DEF ConversionStep

\* Every step keeps the vector of every conversion aligned.
LEMMA AlignedConversionStep ==
    ASSUME TypeInv, NumbersInv, [Next]_vars, NEW v \in Conversions,
           \A t \in TxHashes : submitted[t] \subseteq submitted'[t]
    PROVE  AlignedConversion(v)'
<1> USE DEF TypeInv, NumbersInv
<1>1. CASE UNCHANGED convVars
  BY <1>1, AlignedConversionFrame DEF convVars, ConvLocals
<1>2. ASSUME NEW w \in Conversions, ConversionStarts(w) \/ ConversionStep(w),
             UNCHANGED sendVars
      PROVE  AlignedConversion(v)'
  BY <1>2, AlignedConversionOwn, AlignedConversionFrame DEF sendVars
<1>3. CASE UNCHANGED vars
  BY <1>1, <1>3 DEF vars, builderVars
<1>4. CASE Request
  BY <1>1, <1>2, <1>4 DEF Request, builderVars
<1>5. CASE PoolEvent
  BY <1>1, <1>5 DEF PoolEvent, builderVars
<1>6. CASE Restart
  <2>1. /\ UNCHANGED <<submitted, convNumbers, convBlock>>
        /\ convStage'[v] = "idle" => convStage[v] = "idle"
    BY <1>6 DEF Restart, BuilderRestart, AuthRpcRestart
  <2>2. \A t : Owned(t)' = Owned(t)
    BY <2>1 DEF Owned
  <2>3. UNCHANGED <<convNumbers[v], convBlock[v]>>
    BY <2>1
  <2>4. AlignedConversion(v)
    OBVIOUS
  <2> QED
    BY <2>1, <2>2, <2>3, <2>4 DEF AlignedConversion, Owned
<1> QED
  BY <1>1, <1>2, <1>3, <1>4, <1>5, <1>6
  DEF Next, Quiescent, SendHandler, FcuHandler, NewPayloadHandler, JobHandler,
      ConversionHandler, builderVars

\* A call about to store a number has read it off a block.
LEMMA NumberReadyStep ==
    ASSUME TypeOK, \A s \in SendCalls : NumberReady(s), [Next]_vars, NEW s \in SendCalls
    PROVE  NumberReady(s)'
<1>1. CASE UNCHANGED sendVars
  BY <1>1 DEF sendVars, NumberReady
<1>2. best_block_number + 1 \in NextNumbers
  BY ChainAssumption DEF best_block_number, NextNumbers, TypeOK, ChainTypeOK
<1>3. ASSUME NEW r \in SendCalls, SendReceive(r) \/ SendStep(r)
      PROVE  NumberReady(s)'
  <2> USE DEF NumberReady, SendGoto, TypeOK, AuthRpcTypeOK
  <2>1. CASE SendReadsHeader(r)
    BY <1>2, <2>1 DEF SendReadsHeader
  <2>2. CASE SendReceive(r)
    BY <2>2 DEF SendReceive
  <2>3. CASE SendRejects(r) \/ SendAdds(r) \/ SendFailsToAdd(r)
    BY <2>3 DEF SendRejects, SendAdds, SendFailsToAdd, NextElement
  <2>4. CASE SendFindsNoHeader(r) \/ SendInserts(r) \/ SendReturns(r)
    BY <2>4 DEF SendFindsNoHeader, SendInserts, SendReturns
  <2> QED
    BY <1>3, <2>1, <2>2, <2>3, <2>4 DEF SendStep
<1>4. CASE UNCHANGED vars
  BY <1>1, <1>4 DEF vars
<1>5. CASE Request
  BY <1>1, <1>3, <1>5 DEF Request
<1>6. CASE PoolEvent
  BY <1>1, <1>6 DEF PoolEvent
<1>7. CASE Restart
  BY <1>7 DEF Restart, AuthRpcRestart, NumberReady
<1> QED
  BY <1>1, <1>3, <1>4, <1>5, <1>6, <1>7
  DEF Next, Quiescent, SendHandler, FcuHandler, NewPayloadHandler, JobHandler,
      ConversionHandler

------------------------------------------------------------------------------
\* The vectors of numbers stay aligned with their transactions and the table
\* holds owned numbers only, for any number of concurrent users.
THEOREM NumbersCorrect == Spec => []NumbersInv
<1>1. Init => NumbersInv
  <2> SUFFICES ASSUME Init PROVE NumbersInv
    OBVIOUS
  <2> USE DEF Init
  <2>1. NumberProvenance
    BY DEF TxMappingInit, NumberProvenance
  <2>2. \A j \in Jobs : AlignedJob(j)
    BY DEF BuilderInit, AlignedJob
  <2>3. \A v \in Conversions : AlignedConversion(v)
    BY ChainAssumption, PayloadBuilderAssumption DEF BuilderInit, AlignedConversion
  <2>4. \A s \in SendCalls : NumberReady(s)
    BY DEF AuthRpcInit, NumberReady
  <2> QED
    BY <2>1, <2>2, <2>3, <2>4 DEF NumbersInv
<1>2. TypeInv /\ NumbersInv /\ [Next]_vars => NumbersInv'
  <2> SUFFICES ASSUME TypeInv, NumbersInv, [Next]_vars PROVE NumbersInv'
    OBVIOUS
  <2>1. NumberProvenance' /\ \A t \in TxHashes : submitted[t] \subseteq submitted'[t]
    BY LedgerStep, LedgerKeepsOwners DEF TypeInv, NumbersInv
  <2>2. \A s \in SendCalls : NumberReady(s)'
    BY NumberReadyStep DEF TypeInv, NumbersInv
  <2> QED
    BY <2>1, <2>2, AlignedJobStep, AlignedConversionStep DEF NumbersInv
<1> QED
  BY <1>1, <1>2, TypeCorrect, PTL DEF Spec

\* No interleaving of submissions, jobs, conversions and newPayload calls credits
\* a transaction with a number that was given to another (NumberProvenance).
THEOREM NumberProvenanceHolds == Spec => []NumberProvenance
<1>1. NumbersInv => NumberProvenance
  BY DEF NumbersInv
<1> QED
  BY <1>1, NumbersCorrect, PTL

------------------------------------------------------------------------------
(* The block follows the list                                              *)

\* The members of s stand in that order among the first n of list, and rest is
\* what comes after those: at says where each one stands.
FollowsAt(s, rest, list, n, at) ==
    /\ n + Len(rest) = Len(list)
    /\ \A k \in 1 .. Len(rest) : rest[k] = list[n + k]
    /\ \A i \in 1 .. Len(s) : at[i] \in 1 .. n /\ s[i] = list[at[i]]
    /\ \A i, k \in 1 .. Len(s) : i < k => at[i] < at[k]
Follows(s, rest, list) ==
    \E n \in Nat : \E at \in [1 .. Len(s) -> Nat] : FollowsAt(s, rest, list, n, at)

\* An attempt begins with nothing included and the whole list to come.
LEMMA FollowsStart ==
    ASSUME NEW S, NEW list \in Seq(S)
    PROVE  Follows(<<>>, list, list)
<1> DEFINE at == [i \in 1 .. Len(<<>>) |-> 0]
<1>1. at \in [1 .. Len(<<>>) -> Nat] /\ 0 \in Nat
  OBVIOUS
<1>2. FollowsAt(<<>>, list, list, 0, at)
  BY DEF FollowsAt
<1> QED
  BY <1>1, <1>2 DEF Follows

\* The next transaction is included, or left out.
LEMMA FollowsNext ==
    ASSUME NEW S, NEW s \in Seq(S), NEW rest \in Seq(S), NEW list \in Seq(S),
           rest # <<>>, Follows(s, rest, list)
    PROVE  /\ Follows(Append(s, Head(rest)), Tail(rest), list)
           /\ Follows(s, Tail(rest), list)
<1>1. PICK n \in Nat : \E f \in [1 .. Len(s) -> Nat] : FollowsAt(s, rest, list, n, f)
  BY DEF Follows
<1>2. PICK at \in [1 .. Len(s) -> Nat] : FollowsAt(s, rest, list, n, at)
  BY <1>1
<1> DEFINE t == Head(rest)
           new == Append(s, t)
           more == Tail(rest)
<1>3. /\ Len(rest) \in Nat \ {0} /\ Len(s) \in Nat /\ t \in S /\ t = rest[1]
      /\ Len(more) = Len(rest) - 1
      /\ \A k \in 1 .. Len(more) : more[k] = rest[k + 1]
  OBVIOUS
<1>4. /\ Len(new) = Len(s) + 1
      /\ \A i \in 1 .. Len(s) : new[i] = s[i]
      /\ new[Len(s) + 1] = t
  BY <1>3, AppendProperties
<1> HIDE DEF t, new, more
<1>5. n + 1 + Len(more) = Len(list)
  <2>1. n + Len(rest) = Len(list)
    BY <1>2 DEF FollowsAt
  <2>2. Len(rest) \in Int /\ Len(list) \in Int /\ Len(more) = Len(rest) - 1
    BY <1>3
  <2> QED
    BY <2>1, <2>2
<1>6. \A k \in 1 .. Len(more) : more[k] = list[n + 1 + k]
  <2> TAKE k \in 1 .. Len(more)
  <2>1. k + 1 \in 1 .. Len(rest) /\ more[k] = rest[k + 1]
    BY <1>3
  <2>2. rest[k + 1] = list[n + (k + 1)]
    BY <1>2, <2>1 DEF FollowsAt
  <2> QED
    BY <2>1, <2>2
<1>7. Follows(s, more, list)
  <2>1. /\ \A i \in 1 .. Len(s) : at[i] \in 1 .. n /\ s[i] = list[at[i]]
        /\ \A i, k \in 1 .. Len(s) : i < k => at[i] < at[k]
    BY <1>2 DEF FollowsAt
  <2>2. \A i \in 1 .. Len(s) : at[i] \in 1 .. n + 1
    BY <2>1
  <2>3. FollowsAt(s, more, list, n + 1, at)
    BY <1>5, <1>6, <2>1, <2>2, Zenon DEF FollowsAt
  <2> QED
    BY <2>3 DEF Follows
<1>8. Follows(new, more, list)
  <2> DEFINE at2 == [i \in 1 .. Len(new) |-> IF i = Len(s) + 1 THEN n + 1 ELSE at[i]]
  <2>1. /\ at2[Len(s) + 1] = n + 1
        /\ \A i \in 1 .. Len(s) : at2[i] = at[i]
        /\ at2 \in [1 .. Len(new) -> Nat]
    BY <1>3, <1>4
  <2> HIDE DEF at2
  <2>2. list[n + 1] = t
    BY <1>2, <1>3 DEF FollowsAt
  <2>3. \A i \in 1 .. Len(s) : at[i] \in 1 .. n /\ s[i] = list[at[i]]
    BY <1>2 DEF FollowsAt
  <2>4. \A i \in 1 .. Len(new) : at2[i] \in 1 .. n + 1 /\ new[i] = list[at2[i]]
    BY <1>3, <1>4, <2>1, <2>2, <2>3
  <2>5. \A i, k \in 1 .. Len(s) : i < k => at[i] < at[k]
    BY <1>2 DEF FollowsAt
  <2>6. \A i, k \in 1 .. Len(new) : i < k => at2[i] < at2[k]
    <3> SUFFICES ASSUME NEW i \in 1 .. Len(new), NEW k \in 1 .. Len(new), i < k
                 PROVE  at2[i] < at2[k]
      OBVIOUS
    <3>1. i \in 1 .. Len(s) /\ (k \in 1 .. Len(s) \/ k = Len(s) + 1)
      <4>1. Len(new) = Len(s) + 1 /\ Len(s) \in Nat
        BY <1>3, <1>4
      <4>2. i \in 1 .. Len(s) + 1 /\ k \in 1 .. Len(s) + 1
        BY <4>1
      <4>3. \A m \in Nat : \A x, y \in 1 .. m + 1 :
              x < y => x \in 1 .. m /\ (y \in 1 .. m \/ y = m + 1)
        OBVIOUS
      <4>4. i < k
        OBVIOUS
      <4> QED
        BY <4>1, <4>2, <4>3, <4>4, Zenon
    <3>2. CASE k \in 1 .. Len(s)
      BY <2>1, <2>5, <3>1, <3>2
    <3>3. CASE k = Len(s) + 1
      BY <2>1, <2>3, <3>1, <3>3
    <3> QED
      BY <3>1, <3>2, <3>3
  <2>7. FollowsAt(new, more, list, n + 1, at2)
    BY <1>5, <1>6, <2>4, <2>6 DEF FollowsAt
  <2> QED
    BY <2>1, <2>7 DEF Follows
<1> QED
  BY <1>7, <1>8 DEF t, new, more

\* What follows a list is selected from it.
LEMMA FollowsSelects ==
    ASSUME NEW S, NEW s \in Seq(S), NEW rest \in Seq(S), NEW list \in Seq(S),
           Follows(s, rest, list)
    PROVE  Selects(s, list)
<1>1. PICK n \in Nat : \E f \in [1 .. Len(s) -> Nat] : FollowsAt(s, rest, list, n, f)
  BY DEF Follows
<1>2. PICK at \in [1 .. Len(s) -> Nat] : FollowsAt(s, rest, list, n, at)
  BY <1>1
<1>3. DOMAIN s = 1 .. Len(s) /\ DOMAIN list = 1 .. Len(list)
  OBVIOUS
<1>4. n <= Len(list)
  BY <1>2 DEF FollowsAt
<1>5. at \in [DOMAIN s -> DOMAIN list]
  BY <1>2, <1>3, <1>4 DEF FollowsAt
<1> QED
  BY <1>2, <1>3, <1>5 DEF FollowsAt, Selects

\* A job's included transactions follow its list, up to where its attempt has come.
FollowsList(j) ==
    /\ jobStage[j] = "idle" => included[j] = <<>>
    /\ jobStage[j] # "idle" => Follows(included[j], txs[j], Transactions_Of(attrs[j]))

\* A step of job j keeps what it includes in the order of its list.
LEMMA FollowsListOwn ==
    ASSUME TypeOK, NEW j \in Jobs, FollowsList(j), ServiceStep(j) \/ JobStep(j)
    PROVE  FollowsList(j)'
<1> DEFINE list == Transactions_Of(attrs[j])
<1>1. \A a \in AttributeSets : Transactions_Of(a) \in Seq(TxHashes)
  BY PayloadBuilderAssumption
<1>2. /\ included[j] \in Seq(TxHashes) /\ txs[j] \in Seq(TxHashes)
      /\ jobStage[j] # "idle" => list \in Seq(TxHashes)
  BY <1>1 DEF TypeOK, BuilderTypeOK
<1>3. ASSUME NEW st, jobStage' = [jobStage EXCEPT ![j] = st]
      PROVE  jobStage'[j] = st
  BY <1>3 DEF TypeOK, BuilderTypeOK
<1>4. ASSUME UNCHANGED <<included[j], txs[j], attrs[j]>>,
             jobStage[j] # "idle" /\ jobStage'[j] # "idle"
      PROVE  FollowsList(j)'
  BY <1>4 DEF FollowsList
<1> USE DEF JobGoto
<1>5. CASE JobStarts(j)
  <2>1. PICK a \in AttributeSets :
          /\ jobStage[j] = "idle" /\ UNCHANGED included /\ jobStage'[j] = "set_extra"
          /\ attrs'[j] = a /\ txs'[j] = Transactions_Of(a)
    BY <1>3, <1>5 DEF JobStarts, TypeOK, BuilderTypeOK
  <2>2. Follows(<<>>, Transactions_Of(a), Transactions_Of(a))
    BY <1>1, FollowsStart
  <2> QED
    BY <2>1, <2>2 DEF FollowsList
<1>6. CASE JobRetries(j)
  <2>1. /\ jobStage[j] # "idle" /\ jobStage'[j] = "set_extra" /\ UNCHANGED attrs
        /\ included'[j] = <<>> /\ txs'[j] = list
    BY <1>3, <1>6 DEF JobRetries, TypeOK, BuilderTypeOK
  <2>2. Follows(<<>>, list, list)
    BY <1>2, <2>1, FollowsStart
  <2> QED
    BY <2>1, <2>2 DEF FollowsList
<1>7. CASE JobDelisted(j)
  BY <1>7 DEF JobDelisted, jobVars, FollowsList
<1>8. CASE SlotStep(j)
  BY <1>3, <1>4, <1>8 DEF SlotStep, SetExtraData, SetBaseFee, ReadBaseFee,
                          ReadExtraData, ClearExtraData, ClearBaseFee
<1>9. CASE JobFails(j) \/ JobOverflows(j) \/ PreExecution(j) \/ JobCancelled(j)
           \/ FinishBlock(j) \/ JobBuilt(j) \/ ExtractNumber(j)
  BY <1>3, <1>4, <1>9 DEF JobFails, JobOverflows, PreExecution, JobCancelled, FinishBlock,
                          JobBuilt, ExtractNumber, jobSetup, jobLocals
<1>10. CASE StoreNumber(j)
  BY <1>4, <1>10 DEF StoreNumber, jobSetup
<1>11. CASE SkipTx(j) \/ ExecuteTx(j)
  <2>1. /\ jobStage[j] = "execute" /\ jobStage'[j] # "idle" /\ UNCHANGED attrs
        /\ txs'[j] = Tail(txs[j])
        /\ included'[j] = included[j] \/ included'[j] = Append(included[j], Head(txs[j]))
    BY <1>3, <1>11 DEF SkipTx, ExecuteTx, jobSetup, TypeOK, BuilderTypeOK
  <2>2. txs[j] # <<>> /\ Follows(included[j], txs[j], list) /\ list \in Seq(TxHashes)
    BY <1>2, <2>1 DEF TypeOK, BuilderTypeOK, FollowsList
  <2> HIDE DEF list
  <2>3. /\ Follows(included[j], Tail(txs[j]), list)
        /\ Follows(Append(included[j], Head(txs[j])), Tail(txs[j]), list)
    BY <1>2, <2>2, FollowsNext
  <2> USE DEF list
  <2> QED
    BY <2>1, <2>3 DEF FollowsList
<1> QED
  BY <1>5, <1>6, <1>7, <1>8, <1>9, <1>10, <1>11 DEF JobStep, ServiceStep

\* Whatever a job skips, and however often it is repeated, the block it finishes
\* follows its list and has a number for each transaction (BlockFollowsList).
THEOREM BlockFollowsListHolds == Spec => []BlockFollowsList
<1> DEFINE Inv == \A j \in Jobs : FollowsList(j)
<1>1. Init => Inv
  BY DEF Init, BuilderInit, FollowsList
<1>2. TypeInv /\ Inv /\ [Next]_vars => Inv'
  <2> SUFFICES ASSUME TypeInv, Inv, [Next]_vars, NEW j \in Jobs
               PROVE  FollowsList(j)'
    OBVIOUS
  <2>1. CASE UNCHANGED JobLocals(j)
    BY <2>1 DEF JobLocals, FollowsList
  <2>2. CASE ServiceStep(j) \/ JobStep(j)
    BY <2>2, FollowsListOwn DEF TypeInv
  <2>3. CASE /\ jobStage[j] # "idle" /\ jobStage'[j] = "lost"
             /\ UNCHANGED <<attrs, txs, included>>
    BY <2>3 DEF FollowsList
  <2> QED
    BY <2>1, <2>2, <2>3, JobCases DEF TypeInv
<1>3. TypeInv /\ NumbersInv /\ Inv => BlockFollowsList
  <2> SUFFICES ASSUME TypeInv, NumbersInv, Inv, NEW j \in Jobs,
                      jobStage[j] \in {"store", "built"}
               PROVE  /\ Selects(included[j], Transactions_Of(attrs[j]))
                      /\ Len(transaction_numbers[j]) = Len(included[j])
    BY DEF BlockFollowsList
  <2>1. Len(transaction_numbers[j]) = Len(included[j])
    BY DEF NumbersInv, AlignedJob
  <2>2. /\ included[j] \in Seq(TxHashes) /\ txs[j] \in Seq(TxHashes)
        /\ Transactions_Of(attrs[j]) \in Seq(TxHashes)
    BY PayloadBuilderAssumption DEF TypeInv, TypeOK, BuilderTypeOK
  <2>3. Follows(included[j], txs[j], Transactions_Of(attrs[j]))
    BY DEF FollowsList
  <2> QED
    BY <2>1, <2>2, <2>3, FollowsSelects
<1> QED
  BY <1>1, <1>2, <1>3, TypeCorrect, NumbersCorrect, PTL DEF Spec

------------------------------------------------------------------------------
\* The node implements NumberLedger: every step gives, restores or takes the
\* number of one transaction, loses all at a restart, or leaves them alone
\* (LedgerSpec).
THEOREM LedgerImplemented == Spec => LedgerSpec
<1>1. Init => Ledger!Init
  BY DEF Init, TxMappingInit, AuthRpcInit, Ledger!Init
<1>2. TypeInv /\ NumbersInv /\ [Next]_vars => [Ledger!Next]_(Ledger!ledgerVars)
  BY LedgerStep DEF Ledger!ledgerVars
<1> QED
  BY <1>1, <1>2, TypeCorrect, NumbersCorrect, PTL DEF Spec, LedgerSpec, Ledger!Spec
==============================================================================
