-------------------------- MODULE KasplexNodeTypes --------------------------
(***************************************************************************)
(* The type invariant of KasplexNode is an invariant for every value of    *)
(* the constants.  One lemma per handler; the components a handler leaves  *)
(* alone keep their types by the lemma Unchanged.                          *)
(***************************************************************************)
EXTENDS KasplexNode, SequenceTheorems, TLAPS

\* The types of the components, without the history variables.
ComponentsOK ==
    /\ TxMappingTypeOK /\ TxPoolTypeOK /\ ChainTypeOK /\ AuthRpcTypeOK
    /\ EngineApiTypeOK /\ BuilderTypeOK

\* What the type of the table needs of block_to_payload: the vector of numbers
\* it indexes while it writes is as long as the list of transactions.
ConvNumbersFit == \A v \in Conversions :
    convStage[v] = "write" => Len(convNumbers[v]) = Len(BlockTxs[convBlock[v]])

\* The inductive invariant.
TypeInv == TypeOK /\ ConvNumbersFit

------------------------------------------------------------------------------
(* Unchanged variables keep their types.                                   *)

\* The table keeps its type when no method of it is called.
LEMMA MappingUnchanged ==
    ASSUME TxMappingTypeOK, UNCHANGED mappingVars
    PROVE  TxMappingTypeOK'
BY DEF TxMappingTypeOK, mappingVars

\* The pool and the calls' locals keep their types when nothing touches them.
LEMMA PoolUnchanged ==
    ASSUME TxPoolTypeOK, UNCHANGED <<poolVars, callVars>>
    PROVE  TxPoolTypeOK'
BY DEF TxPoolTypeOK, poolVars, callVars

\* The chain keeps its type when nothing touches it.
LEMMA ChainUnchanged ==
    ASSUME ChainTypeOK, UNCHANGED chainVars
    PROVE  ChainTypeOK'
BY DEF ChainTypeOK, chainVars

\* The auth RPC calls keep their types when none of them moves.
LEMMA SendUnchanged ==
    ASSUME AuthRpcTypeOK, UNCHANGED sendVars
    PROVE  AuthRpcTypeOK'
BY DEF AuthRpcTypeOK, sendVars

\* The engine API calls keep their types when none of them moves.
LEMMA EngineUnchanged ==
    ASSUME EngineApiTypeOK, UNCHANGED engineVars
    PROVE  EngineApiTypeOK'
BY DEF EngineApiTypeOK, engineVars

\* Jobs, slots and conversions keep their types when none of them moves.
LEMMA BuilderUnchanged ==
    ASSUME BuilderTypeOK, UNCHANGED builderVars
    PROVE  BuilderTypeOK'
BY DEF BuilderTypeOK, builderVars, slotVars, jobVars, convVars

------------------------------------------------------------------------------
(* The operations of the table and of the pool.                            *)

\* insert keeps the type of the table.
LEMMA InsertTyped ==
    ASSUME TxMappingTypeOK, NEW t \in TxHashes, NEW n \in Nat, insert(t, n)
    PROVE  TxMappingTypeOK'
BY DEF TxMappingTypeOK, insert

\* get_tx_number keeps the type of the table.
LEMMA TakeTyped ==
    ASSUME TxMappingTypeOK, NEW t \in TxHashes, get_tx_number(t)
    PROVE  TxMappingTypeOK'
BY DEF TxMappingTypeOK, get_tx_number

\* What a reader of the table gets is a natural number.
LEMMA NumberIsNat ==
    ASSUME TxMappingTypeOK, NEW t \in TxHashes
    PROVE  NumberOrZero(t) \in Nat
BY DEF TxMappingTypeOK, NumberOrZero

\* add_transaction keeps the sub-pools disjoint sets of transactions.
LEMMA AddTyped ==
    ASSUME TxPoolTypeOK, NEW t \in TxHashes, AddToPool(t), UNCHANGED callVars
    PROVE  TxPoolTypeOK'
BY DEF TxPoolTypeOK, AddToPool, Pool, callVars

------------------------------------------------------------------------------
(* The auth RPC                                                            *)

\* A step of kasplexAuth_sendRawTransaction(s) keeps the types.
LEMMA SendTyped ==
    ASSUME ComponentsOK, NEW s \in SendCalls, SendStep(s),
           UNCHANGED <<engineVars, builderVars>>
    PROVE  ComponentsOK'
<1>1. EngineApiTypeOK' /\ BuilderTypeOK'
  BY EngineUnchanged, BuilderUnchanged DEF ComponentsOK
<1>2. ASSUME batch[s] # <<>>
      PROVE  Tail(batch[s]) \in Seq(TxHashes \cup {BadBytes})
  BY <1>2 DEF ComponentsOK, AuthRpcTypeOK
<1>3. CASE SendRejects(s)
  <2>1. AuthRpcTypeOK'
    BY <1>2, <1>3 DEF SendRejects, NextElement, SendGoto, ComponentsOK, AuthRpcTypeOK
  <2> QED
    BY <1>1, <1>3, <2>1, MappingUnchanged, PoolUnchanged, ChainUnchanged
    DEF SendRejects, ComponentsOK
<1>4. CASE SendReadsHeader(s)
  <2>1. Head(batch[s]) \in TxHashes
    BY <1>4 DEF SendReadsHeader, Rejected, ComponentsOK, AuthRpcTypeOK
  <2>2. best_block_number + 1 \in Nat
    BY ChainAssumption DEF best_block_number, ComponentsOK, ChainTypeOK
  <2>3. AuthRpcTypeOK'
    BY <1>4, <2>1, <2>2 DEF SendReadsHeader, SendGoto, ComponentsOK, AuthRpcTypeOK
  <2> QED
    BY <1>1, <1>4, <2>3, MappingUnchanged, PoolUnchanged, ChainUnchanged
    DEF SendReadsHeader, ComponentsOK
<1>5. CASE SendFindsNoHeader(s)
  <2>1. Head(batch[s]) \in TxHashes
    BY <1>5 DEF SendFindsNoHeader, Rejected, ComponentsOK, AuthRpcTypeOK
  <2>2. AuthRpcTypeOK'
    BY <1>5, <2>1 DEF SendFindsNoHeader, SendGoto, ComponentsOK, AuthRpcTypeOK
  <2> QED
    BY <1>1, <1>5, <2>2, MappingUnchanged, PoolUnchanged, ChainUnchanged
    DEF SendFindsNoHeader, ComponentsOK
<1>6. CASE SendInserts(s)
  <2>1. Head(batch[s]) \in TxHashes /\ tx_number[s] \in Nat
    BY <1>6 DEF SendInserts, ComponentsOK, AuthRpcTypeOK
  <2>2. TxMappingTypeOK'
    BY <1>6, <2>1, InsertTyped DEF SendInserts, ComponentsOK
  <2>3. AuthRpcTypeOK'
    BY <1>6, <2>1 DEF SendInserts, SendGoto, ComponentsOK, AuthRpcTypeOK
  <2> QED
    BY <1>1, <1>6, <2>2, <2>3, PoolUnchanged, ChainUnchanged
    DEF SendInserts, ComponentsOK
<1>7. CASE SendAdds(s)
  <2>1. Head(batch[s]) \in TxHashes /\ batch[s] # <<>>
    BY <1>7 DEF SendAdds, ComponentsOK, AuthRpcTypeOK
  <2>2. TxPoolTypeOK'
    BY <1>7, <2>1, AddTyped DEF SendAdds, ComponentsOK
  <2>3. AuthRpcTypeOK'
    BY <1>2, <1>7, <2>1 DEF SendAdds, NextElement, SendGoto, ComponentsOK, AuthRpcTypeOK
  <2> QED
    BY <1>1, <1>7, <2>2, <2>3, MappingUnchanged, ChainUnchanged
    DEF SendAdds, ComponentsOK
<1>8. CASE SendFailsToAdd(s)
  <2>1. batch[s] # <<>>
    BY <1>8 DEF SendFailsToAdd, ComponentsOK, AuthRpcTypeOK
  <2>2. AuthRpcTypeOK'
    BY <1>2, <1>8, <2>1
    DEF SendFailsToAdd, NextElement, SendGoto, ComponentsOK, AuthRpcTypeOK
  <2> QED
    BY <1>1, <1>8, <2>2, MappingUnchanged, PoolUnchanged, ChainUnchanged
    DEF SendFailsToAdd, ComponentsOK
<1>9. CASE SendReturns(s)
  <2>1. AuthRpcTypeOK'
    BY <1>9 DEF SendReturns, SendGoto, ComponentsOK, AuthRpcTypeOK
  <2> QED
    BY <1>1, <1>9, <2>1, MappingUnchanged, PoolUnchanged, ChainUnchanged
    DEF SendReturns, ComponentsOK
<1> QED
  BY <1>3, <1>4, <1>5, <1>6, <1>7, <1>8, <1>9 DEF SendStep

------------------------------------------------------------------------------
(* The pool cleanup and the engine API                                     *)

\* A step of handle_kasplex_pool_reorg keeps the types.
LEMMA CleanupTyped ==
    ASSUME TxMappingTypeOK, TxPoolTypeOK, NEW c \in FcuCalls, CleanupStep(c)
    PROVE  TxMappingTypeOK' /\ TxPoolTypeOK'
<1> USE TxPoolAssumption DEF Calls, Goto
<1>1. CASE CleanupStart(c)
  <2>1. TxMappingTypeOK'
    BY <1>1 DEF CleanupStart, mark_start_pool_reorg, mappingVars, TxMappingTypeOK
  <2>2. TxPoolTypeOK'
    BY <1>1 DEF CleanupStart, poolVars, TxPoolTypeOK, FcuStages, CleanupStages
  <2> QED
    BY <2>1, <2>2
<1>2. CASE CleanupSnapshot(c)
  BY <1>2, MappingUnchanged
  DEF CleanupSnapshot, poolVars, TxPoolTypeOK, FcuStages, CleanupStages
<1>3. CASE CleanupCheckPending(c)
  BY <1>3, MappingUnchanged DEF CleanupCheckPending, CheckTx, poolVars, TxPoolTypeOK
<1>4. CASE CleanupCheckQueued(c)
  BY <1>4, MappingUnchanged DEF CleanupCheckQueued, CheckTx, poolVars, TxPoolTypeOK
<1>5. CASE CleanupChecked(c)
  BY <1>5, MappingUnchanged
  DEF CleanupChecked, poolVars, TxPoolTypeOK, FcuStages, CleanupStages
<1>6. CASE CleanupRemove(c)
  BY <1>6, MappingUnchanged
  DEF CleanupRemove, RemoveFromPool, TxPoolTypeOK, FcuStages, CleanupStages
<1>7. CASE CleanupFinish(c)
  <2>1. TxMappingTypeOK'
    BY <1>7 DEF CleanupFinish, mark_pool_reorged, TxMappingTypeOK
  <2>2. TxPoolTypeOK'
    BY <1>7 DEF CleanupFinish, poolVars, TxPoolTypeOK, FcuStages, CleanupStages
  <2> QED
    BY <2>1, <2>2
<1> QED
  BY <1>1, <1>2, <1>3, <1>4, <1>5, <1>6, <1>7 DEF CleanupStep

\* A step of fork_choice_updated_v2 keeps the types.
LEMMA FcuTyped ==
    ASSUME ComponentsOK, NEW c \in FcuCalls, FcuStep(c),
           UNCHANGED <<sendVars, builderVars>>
    PROVE  ComponentsOK'
<1> USE TxPoolAssumption, ChainAssumption DEF Calls, Goto
<1>1. AuthRpcTypeOK' /\ BuilderTypeOK'
  BY SendUnchanged, BuilderUnchanged DEF ComponentsOK
<1>2. Genesis \in Blocks
  OBVIOUS
<1>3. ASSUME FcuEnds(c)
      PROVE  ComponentsOK'
  <2>1. TxPoolTypeOK'
    BY <1>3 DEF FcuEnds, poolVars, ComponentsOK, TxPoolTypeOK, FcuStages
  <2>2. EngineApiTypeOK'
    BY <1>2, <1>3 DEF FcuEnds, ComponentsOK, EngineApiTypeOK
  <2> QED
    BY <1>1, <1>3, <2>1, <2>2, MappingUnchanged, ChainUnchanged
    DEF FcuEnds, ComponentsOK
<1>4. CASE FcuApplied(c)
  <2>1. TxPoolTypeOK'
    BY <1>4 DEF FcuApplied, poolVars, callLocals, ComponentsOK, TxPoolTypeOK, FcuStages
  <2>2. ChainTypeOK'
    BY <1>4 DEF FcuApplied, SetHead, ComponentsOK, ChainTypeOK
  <2>3. EngineApiTypeOK'
    BY <1>4 DEF FcuApplied, ComponentsOK, EngineApiTypeOK
  <2> QED
    BY <1>1, <1>4, <2>1, <2>2, <2>3, MappingUnchanged DEF FcuApplied, ComponentsOK
<1>5. CASE FcuNotApplied(c)
  <2>1. TxPoolTypeOK'
    BY <1>5 DEF FcuNotApplied, poolVars, callLocals, ComponentsOK, TxPoolTypeOK, FcuStages
  <2> QED
    BY <1>1, <1>5, <2>1, MappingUnchanged, ChainUnchanged, EngineUnchanged
    DEF FcuNotApplied, ComponentsOK
<1>6. CASE FcuLookup(c)
  <2>1. Number[fcuTarget[c]] \in Nat /\ best_block_number \in Nat
    BY DEF ComponentsOK, EngineApiTypeOK, ChainTypeOK, best_block_number
  <2>2. TxPoolTypeOK'
    BY <1>6, <2>1
    DEF FcuLookup, poolVars, ComponentsOK, TxPoolTypeOK, FcuStages, CleanupStages
  <2> QED
    BY <1>1, <1>6, <2>2, MappingUnchanged, ChainUnchanged, EngineUnchanged
    DEF FcuLookup, ComponentsOK
<1>7. CASE FcuCleanup(c)
  BY <1>1, <1>7, CleanupTyped, ChainUnchanged, EngineUnchanged
  DEF FcuCleanup, ComponentsOK
<1> QED
  BY <1>3, <1>4, <1>5, <1>6, <1>7
  DEF FcuStep, FcuFails, FcuFindsNoHead, FcuReturns

\* A step of new_payload_v2 keeps the types.
LEMMA NewPayloadTyped ==
    ASSUME ComponentsOK, NEW c \in NewPayloadCalls, NewPayloadStep(c),
           UNCHANGED <<sendVars, builderVars>>
    PROVE  ComponentsOK'
<1> USE TxPoolAssumption, ChainAssumption, EngineApiAssumption DEF Calls, Goto
<1>1. AuthRpcTypeOK' /\ BuilderTypeOK'
  BY SendUnchanged, BuilderUnchanged DEF ComponentsOK
<1>2. ASSUME NewPayloadEnds(c)
      PROVE  ComponentsOK'
  <2>1. TxPoolTypeOK'
    BY <1>2 DEF NewPayloadEnds, poolVars, callLocals, ComponentsOK, TxPoolTypeOK,
                NewPayloadStages
  <2>2. EngineApiTypeOK'
    BY <1>2 DEF NewPayloadEnds, ComponentsOK, EngineApiTypeOK
  <2> QED
    BY <1>1, <1>2, <2>1, <2>2, MappingUnchanged, ChainUnchanged
    DEF NewPayloadEnds, ComponentsOK
<1>3. CASE NewPayloadConvert(c)
  <2>1. TxPoolTypeOK'
    BY <1>3 DEF NewPayloadConvert, poolVars, callLocals, ComponentsOK, TxPoolTypeOK,
                NewPayloadStages
  <2>2. BlockTxs[npBody[c]] \in Seq(TxHashes)
    BY DEF ComponentsOK, EngineApiTypeOK
  <2>3. EngineApiTypeOK'
    BY <1>3, <2>2 DEF NewPayloadConvert, ComponentsOK, EngineApiTypeOK
  <2> QED
    BY <1>1, <1>3, <2>1, <2>3, MappingUnchanged, ChainUnchanged
    DEF NewPayloadConvert, ComponentsOK
<1>4. CASE NewPayloadUnconverted(c)
  <2>1. TxPoolTypeOK'
    BY <1>4 DEF NewPayloadUnconverted, poolVars, callLocals, ComponentsOK,
                TxPoolTypeOK, NewPayloadStages
  <2> QED
    BY <1>1, <1>4, <2>1, MappingUnchanged, ChainUnchanged, EngineUnchanged
    DEF NewPayloadUnconverted, ComponentsOK
<1>5. CASE NewPayloadTakesNumber(c)
  <2>1. Head(npTodo[c]) \in TxHashes /\ Tail(npTodo[c]) \in Seq(TxHashes)
    BY <1>5 DEF NewPayloadTakesNumber, ComponentsOK, EngineApiTypeOK
  <2>2. TxMappingTypeOK'
    BY <1>5, <2>1, TakeTyped DEF NewPayloadTakesNumber, ComponentsOK
  <2>3. EngineApiTypeOK'
    BY <1>5, <2>1 DEF NewPayloadTakesNumber, ComponentsOK, EngineApiTypeOK
  <2> QED
    BY <1>1, <1>5, <2>2, <2>3, PoolUnchanged, ChainUnchanged
    DEF NewPayloadTakesNumber, ComponentsOK
<1>6. CASE NewPayloadValid(c)
  <2>1. TxPoolTypeOK'
    BY <1>6 DEF NewPayloadValid, poolVars, callLocals, ComponentsOK, TxPoolTypeOK,
                NewPayloadStages
  <2>2. ChainTypeOK'
    BY <1>6 DEF NewPayloadValid, ExecuteBlock, ComponentsOK, ChainTypeOK,
                EngineApiTypeOK
  <2>3. EngineApiTypeOK'
    BY <1>6 DEF NewPayloadValid, ComponentsOK, EngineApiTypeOK
  <2> QED
    BY <1>1, <1>6, <2>1, <2>2, <2>3, MappingUnchanged DEF NewPayloadValid, ComponentsOK
<1>7. CASE NewPayloadNotValid(c)
  <2>1. TxPoolTypeOK'
    BY <1>7 DEF NewPayloadNotValid, poolVars, callLocals, ComponentsOK, TxPoolTypeOK,
                NewPayloadStages
  <2>2. EngineApiTypeOK'
    BY <1>7 DEF NewPayloadNotValid, ComponentsOK, EngineApiTypeOK
  <2> QED
    BY <1>1, <1>7, <2>1, <2>2, MappingUnchanged, ChainUnchanged
    DEF NewPayloadNotValid, ComponentsOK
<1>8. CASE NewPayloadLookup(c)
  <2>1. CASE Goto(c, "included")
             /\ UNCHANGED <<mappingVars, poolVars, callLocals, chainVars, engineVars>>
    <3>1. TxPoolTypeOK'
      BY <2>1 DEF poolVars, callLocals, ComponentsOK, TxPoolTypeOK, NewPayloadStages
    <3> QED
      BY <1>1, <2>1, <3>1, MappingUnchanged, ChainUnchanged, EngineUnchanged
      DEF ComponentsOK
  <2> QED
    BY <1>2, <1>8, <2>1 DEF NewPayloadLookup
<1>9. CASE NewPayloadRemoves(c)
  <2>1. TxPoolTypeOK'
    <3>1. CASE IncludedSnapshot(c, TxsOf(npHash[c]))
      BY <3>1 DEF IncludedSnapshot, Pool, poolVars, ComponentsOK, TxPoolTypeOK,
                  NewPayloadStages
    <3>2. CASE IncludedRemove(c)
      BY <3>2 DEF IncludedRemove, RemoveFromPool, ComponentsOK, TxPoolTypeOK,
                  NewPayloadStages
    <3> QED
      BY <1>9, <3>1, <3>2 DEF NewPayloadRemoves
  <2> QED
    BY <1>1, <1>9, <2>1, MappingUnchanged, ChainUnchanged, EngineUnchanged
    DEF NewPayloadRemoves, IncludedSnapshot, IncludedRemove, ComponentsOK
<1> QED
  BY <1>2, <1>3, <1>4, <1>5, <1>6, <1>7, <1>8, <1>9
  DEF NewPayloadStep, NewPayloadFails, NewPayloadReturns

------------------------------------------------------------------------------
(* Payload jobs and block_to_payload                                       *)

\* Setting, reading and clearing the slots keeps the types.
LEMMA SlotTyped ==
    ASSUME BuilderTypeOK, NEW j \in Jobs, SlotStep(j), UNCHANGED <<listed, convVars>>
    PROVE  BuilderTypeOK'
<1> USE PayloadBuilderAssumption DEF BuilderTypeOK, JobGoto, JobStages, Ended, convVars
<1>1. CASE SetExtraData(j)
  <2>1. attrs[j].extra_data \in ExtraDataValues
    BY <1>1 DEF SetExtraData, ExtraDataValues
  <2> QED
    BY <1>1, <2>1 DEF SetExtraData
<1>2. CASE SetBaseFee(j)
  BY <1>2 DEF SetBaseFee
<1>3. CASE ReadBaseFee(j)
  <2>1. BaseFeeForNext(attrs[j].parent) \in Nat
    BY <1>3 DEF ReadBaseFee, BaseFeeForNext
  <2> QED
    BY <1>3, <2>1 DEF ReadBaseFee, slotVars
<1>4. CASE ReadExtraData(j)
  <2>1. ExtraData[attrs[j].parent] \in ExtraDataValues
    BY <1>4 DEF ReadExtraData, ExtraDataValues
  <2> QED
    BY <1>4, <2>1 DEF ReadExtraData, slotVars
<1>5. CASE ClearExtraData(j)
  BY <1>5 DEF ClearExtraData
<1>6. CASE ClearBaseFee(j)
  BY <1>6 DEF ClearBaseFee
<1> QED
  BY <1>1, <1>2, <1>3, <1>4, <1>5, <1>6 DEF SlotStep

\* A step of kasplex_payload keeps the types.
LEMMA JobTyped ==
    ASSUME TxMappingTypeOK, BuilderTypeOK, NEW j \in Jobs, JobStep(j),
           UNCHANGED <<listed, convVars>>
    PROVE  TxMappingTypeOK' /\ BuilderTypeOK'
<1> USE TransactionsAssumption
    DEF BuilderTypeOK, JobGoto, JobStages, Ended, jobSetup, jobLocals, slotVars, convVars
<1>1. CASE SlotStep(j) /\ UNCHANGED mappingVars
  BY <1>1, SlotTyped, MappingUnchanged
<1>2. CASE JobFails(j)
  BY <1>2, MappingUnchanged DEF JobFails
<1>3. CASE PreExecution(j)
  BY <1>3, MappingUnchanged DEF PreExecution
<1>4. CASE JobCancelled(j)
  BY <1>4, MappingUnchanged DEF JobCancelled
<1>5. CASE ExtractNumber(j)
  <2>1. NumberOrZero(Head(txs[j])) \in Nat
    BY <1>5, NumberIsNat DEF ExtractNumber
  <2>2. Append(transaction_numbers[j], NumberOrZero(Head(txs[j]))) \in Seq(Nat)
    BY <2>1, AppendProperties
  <2>3. BuilderTypeOK'
    BY <1>5, <2>2 DEF ExtractNumber
  <2> QED
    BY <1>5, <2>3, MappingUnchanged DEF ExtractNumber
<1>6. CASE ExecuteTx(j)
  <2>1. Head(txs[j]) \in TxHashes /\ Tail(txs[j]) \in Seq(TxHashes)
    BY <1>6 DEF ExecuteTx
  <2>2. gas_used[j] + TxGas[Head(txs[j])] \in Nat
    BY <2>1
  <2>3. Append(included[j], Head(txs[j])) \in Seq(TxHashes)
    BY <2>1, AppendProperties
  <2>4. BuilderTypeOK'
    BY <1>6, <2>1, <2>2, <2>3 DEF ExecuteTx
  <2> QED
    BY <1>6, <2>4, MappingUnchanged DEF ExecuteTx
<1>7. CASE SkipTx(j)
  <2>1. Tail(txs[j]) \in Seq(TxHashes)
    BY <1>7 DEF SkipTx
  <2>2. SubSeq(transaction_numbers[j], 1, Len(transaction_numbers[j]) - 1) \in Seq(Nat)
    BY SubSeqProperties, LenProperties
  <2> QED
    BY <1>7, <2>1, <2>2, MappingUnchanged DEF SkipTx
<1>8. CASE FinishBlock(j)
  BY <1>8, MappingUnchanged DEF FinishBlock
<1>9. CASE StoreNumber(j)
  <2>1. stored[j] + 1 \in 1 .. Len(transaction_numbers[j])
    <3>1. stored[j] \in Nat /\ transaction_numbers[j] \in Seq(Nat)
      OBVIOUS
    <3>2. stored[j] < Len(transaction_numbers[j])
      BY <1>9 DEF StoreNumber
    <3> HIDE DEF BuilderTypeOK
    <3> QED
      BY <3>1, <3>2, LenProperties
  <2>2. transaction_numbers[j][stored[j] + 1] \in Nat
    BY <2>1
  <2>3. TxMappingTypeOK'
    <3>1. CASE stored[j] < Len(included[j])
      <4>1. included[j][stored[j] + 1] \in TxHashes
        BY <3>1
      <4> QED
        BY <1>9, <2>2, <3>1, <4>1, InsertTyped DEF StoreNumber
    <3> QED
      BY <1>9, <3>1, MappingUnchanged DEF StoreNumber
  <2>4. stored[j] + 1 \in Nat
    OBVIOUS
  <2>5. BuilderTypeOK'
    BY <1>9, <2>4 DEF StoreNumber
  <2> QED
    BY <2>3, <2>5
<1>10. CASE JobBuilt(j)
  BY <1>10, MappingUnchanged DEF JobBuilt
<1>11. CASE JobOverflows(j)
  BY <1>11, MappingUnchanged DEF JobOverflows
<1> QED
  BY <1>1, <1>2, <1>3, <1>4, <1>5, <1>6, <1>7, <1>8, <1>9, <1>10, <1>11 DEF JobStep

\* A step of block_to_payload keeps the types.
LEMMA ConversionTyped ==
    ASSUME TxMappingTypeOK, BuilderTypeOK, ConvNumbersFit, NEW v \in Conversions,
           ConversionStep(v), UNCHANGED <<slotVars, listed, jobVars>>
    PROVE  TxMappingTypeOK' /\ BuilderTypeOK'
<1> USE PayloadBuilderAssumption DEF BuilderTypeOK, slotVars, jobVars
<1> DEFINE body == BlockTxs[convBlock[v]]
<1>1. body \in Seq(TxHashes)
  OBVIOUS
<1>2. CASE ConversionReads(v)
  <2>1. Len(convNumbers[v]) + 1 \in 1 .. Len(body)
    BY <1>1, <1>2 DEF ConversionReads
  <2>2. NumberOrZero(body[Len(convNumbers[v]) + 1]) \in Nat
    BY <1>1, <2>1, NumberIsNat
  <2>3. Append(convNumbers[v], NumberOrZero(body[Len(convNumbers[v]) + 1])) \in Seq(Nat)
    BY <2>2, AppendProperties
  <2>4. BuilderTypeOK'
    BY <1>2, <2>3 DEF ConversionReads
  <2> QED
    BY <1>2, <2>4, MappingUnchanged DEF ConversionReads
<1>3. CASE ConversionRead(v)
  BY <1>3, MappingUnchanged DEF ConversionRead
<1>4. CASE ConversionWrites(v)
  <2>1. convStored[v] + 1 \in 1 .. Len(body) /\ convStored[v] + 1 \in Nat
    BY <1>1, <1>4 DEF ConversionWrites
  <2>2. body[convStored[v] + 1] \in TxHashes
    BY <1>1, <2>1
  <2>3. Len(convNumbers[v]) = Len(body)
    BY <1>4 DEF ConversionWrites, ConvNumbersFit
  <2>4. convNumbers[v][convStored[v] + 1] \in Nat
    BY <2>1, <2>3
  <2>5. TxMappingTypeOK'
    BY <1>4, <2>2, <2>4, InsertTyped DEF ConversionWrites
  <2>6. BuilderTypeOK'
    BY <1>4, <2>1 DEF ConversionWrites
  <2> QED
    BY <2>5, <2>6
<1>5. CASE ConversionReturns(v)
  BY <1>5, MappingUnchanged DEF ConversionReturns
<1> QED
  BY <1>2, <1>3, <1>4, <1>5 DEF ConversionStep

\* A step of block_to_payload begins to write only when every number is read.
LEMMA ConversionFits ==
    ASSUME BuilderTypeOK, ConvNumbersFit, NEW v \in Conversions, ConversionStep(v)
    PROVE  ConvNumbersFit'
<1> USE PayloadBuilderAssumption DEF BuilderTypeOK, ConvNumbersFit
<1>1. CASE ConversionReads(v)
  <2>1. convNumbers[v] \in Seq(Nat)
    OBVIOUS
  <2> QED
    BY <1>1, <2>1 DEF ConversionReads
<1>2. CASE ConversionRead(v)
  BY <1>2 DEF ConversionRead
<1>3. CASE ConversionWrites(v)
  BY <1>3 DEF ConversionWrites
<1>4. CASE ConversionReturns(v)
  BY <1>4 DEF ConversionReturns
<1> QED
  BY <1>1, <1>2, <1>3, <1>4 DEF ConversionStep

------------------------------------------------------------------------------
(* Requests, the pool on its own, and the history variables                *)

\* A job starts with the transactions that try_new has decoded.
LEMMA JobStartsTyped ==
    ASSUME BuilderTypeOK, NEW j \in Jobs, JobStarts(j), UNCHANGED convVars
    PROVE  BuilderTypeOK'
<1>1. PICK a \in AttributeSets :
        /\ attrs' = [attrs EXCEPT ![j] = a]
        /\ txs' = [txs EXCEPT ![j] = Transactions_Of(a)]
  BY DEF JobStarts
<1>2. Transactions_Of(a) \in Seq(TxHashes)
  BY PayloadBuilderAssumption
<1>3. /\ jobStage' = [jobStage EXCEPT ![j] = "set_extra"]
      /\ listed' = listed \cup {j}
      /\ UNCHANGED <<slotVars, envBaseFee, ctxExtraData, transaction_numbers,
                     included, gas_used, stored>>
  BY DEF JobStarts, JobGoto
<1> QED
  BY <1>1, <1>2, <1>3 DEF BuilderTypeOK, JobStages, slotVars, convVars

\* Another attempt starts with what the first had; giving up a job changes none.
LEMMA ServiceTyped ==
    ASSUME BuilderTypeOK, NEW j \in Jobs, ServiceStep(j), UNCHANGED convVars
    PROVE  BuilderTypeOK'
<1>1. CASE JobRetries(j)
  <2>1. attrs[j] \in AttributeSets
    BY <1>1 DEF JobRetries, BuilderTypeOK
  <2>2. Transactions_Of(attrs[j]) \in Seq(TxHashes)
    BY <2>1, PayloadBuilderAssumption
  <2>3. <<>> \in Seq(Nat) /\ <<>> \in Seq(TxHashes)
    OBVIOUS
  <2> QED
    BY <1>1, <2>1, <2>2, <2>3
    DEF JobRetries, JobGoto, BuilderTypeOK, JobStages, slotVars, convVars
<1>2. CASE JobDelisted(j)
  BY <1>2 DEF JobDelisted, BuilderTypeOK, slotVars, jobVars, convVars
<1> QED
  BY <1>1, <1>2, JobStartsTyped DEF ServiceStep

\* block_to_payload starts with a block and nothing read.
LEMMA ConversionStartsTyped ==
    ASSUME BuilderTypeOK, ConvNumbersFit, NEW v \in Conversions, ConversionStarts(v),
           UNCHANGED <<slotVars, listed, jobVars>>
    PROVE  BuilderTypeOK' /\ ConvNumbersFit'
<1>1. BuilderTypeOK'
  BY DEF ConversionStarts, slotVars, jobVars, BuilderTypeOK
<1>2. ConvNumbersFit'
  BY DEF ConversionStarts, BuilderTypeOK, ConvNumbersFit
<1> QED
  BY <1>1, <1>2

\* A request that comes in keeps the types.
LEMMA RequestTyped ==
    ASSUME ComponentsOK, ConvNumbersFit, Request
    PROVE  ComponentsOK' /\ ConvNumbersFit'
<1> USE TxPoolAssumption, ChainAssumption, AuthRpcAssumption, PayloadBuilderAssumption
    DEF ComponentsOK
<1>1. ASSUME NEW s \in SendCalls, SendReceive(s), UNCHANGED <<engineVars, builderVars>>
      PROVE  ComponentsOK' /\ UNCHANGED convVars
  <2>1. AuthRpcTypeOK'
    BY <1>1 DEF SendReceive, SendGoto, AuthRpcTypeOK
  <2> QED
    BY <1>1, <2>1, MappingUnchanged, PoolUnchanged, ChainUnchanged, EngineUnchanged,
       BuilderUnchanged
    DEF SendReceive, builderVars
<1>2. ASSUME NEW c \in FcuCalls, FcuReceive(c), UNCHANGED <<sendVars, builderVars>>
      PROVE  ComponentsOK' /\ UNCHANGED convVars
  <2>1. TxPoolTypeOK'
    BY <1>2 DEF FcuReceive, Goto, Calls, poolVars, callLocals, TxPoolTypeOK, FcuStages
  <2>2. EngineApiTypeOK'
    BY <1>2 DEF FcuReceive, EngineApiTypeOK
  <2> QED
    BY <1>2, <2>1, <2>2, MappingUnchanged, ChainUnchanged, SendUnchanged, BuilderUnchanged
    DEF FcuReceive, builderVars
<1>3. ASSUME NEW c \in NewPayloadCalls, NewPayloadReceive(c),
             UNCHANGED <<sendVars, builderVars>>
      PROVE  ComponentsOK' /\ UNCHANGED convVars
  <2>1. TxPoolTypeOK'
    BY <1>3 DEF NewPayloadReceive, Goto, Calls, poolVars, callLocals, TxPoolTypeOK,
                NewPayloadStages
  <2>2. EngineApiTypeOK'
    BY <1>3 DEF NewPayloadReceive, EngineApiTypeOK
  <2> QED
    BY <1>3, <2>1, <2>2, MappingUnchanged, ChainUnchanged, SendUnchanged, BuilderUnchanged
    DEF NewPayloadReceive, builderVars
<1>4. ASSUME NEW j \in Jobs, ServiceStep(j),
             UNCHANGED <<mappingVars, poolVars, callVars, chainVars, sendVars,
                         engineVars, convVars>>
      PROVE  ComponentsOK' /\ UNCHANGED convVars
  <2>1. BuilderTypeOK'
    BY <1>4, ServiceTyped
  <2> QED
    BY <1>4, <2>1, MappingUnchanged, PoolUnchanged, ChainUnchanged, SendUnchanged,
       EngineUnchanged
<1>5. ASSUME NEW v \in Conversions, ConversionStarts(v),
             UNCHANGED <<poolVars, callVars, chainVars, sendVars, engineVars,
                         slotVars, listed, jobVars>>
      PROVE  ComponentsOK' /\ ConvNumbersFit'
  <2>1. BuilderTypeOK' /\ ConvNumbersFit'
    BY <1>5, ConversionStartsTyped
  <2> QED
    BY <1>5, <2>1, MappingUnchanged, PoolUnchanged, ChainUnchanged, SendUnchanged,
       EngineUnchanged
    DEF ConversionStarts
<1>6. ASSUME UNCHANGED convVars
      PROVE  ConvNumbersFit'
  BY <1>6 DEF convVars, ConvNumbersFit
<1> QED
  BY <1>1, <1>2, <1>3, <1>4, <1>5, <1>6 DEF Request

\* A change reth's pool makes on its own keeps the types.
LEMMA PoolEventTyped ==
    ASSUME ComponentsOK, PoolEvent
    PROVE  ComponentsOK'
<1> USE TxPoolAssumption DEF ComponentsOK
<1>1. PICK t \in FreeTxs :
        /\ PoolReceives(t) \/ PoolMoves(t) \/ PoolDrops(t)
        /\ UNCHANGED <<chainVars, sendVars, engineVars, builderVars>>
  BY DEF PoolEvent
<1>2. CASE PoolReceives(t)
  BY <1>1, <1>2, AddTyped, MappingUnchanged, ChainUnchanged, SendUnchanged,
     EngineUnchanged, BuilderUnchanged
  DEF PoolReceives
<1>3. CASE PoolMoves(t) \/ PoolDrops(t)
  <2>1. TxPoolTypeOK'
    BY <1>1, <1>3
    DEF PoolMoves, PoolDrops, RemoveFromPool, Pool, callVars, TxPoolTypeOK
  <2> QED
    BY <1>1, <1>3, <2>1, MappingUnchanged, ChainUnchanged, SendUnchanged,
       EngineUnchanged, BuilderUnchanged
    DEF PoolMoves, PoolDrops
<1> QED
  BY <1>1, <1>2, <1>3

\* A new process has its types, and nothing left to write.
LEMMA RestartTyped ==
    ASSUME ComponentsOK, Restart
    PROVE  ComponentsOK' /\ ConvNumbersFit'
<1> USE TxPoolAssumption, ChainAssumption DEF ComponentsOK, Restart
<1>1. TxMappingTypeOK'
  BY DEF TxMappingRestart, clear, TxMappingTypeOK
<1>2. TxPoolTypeOK'
  BY DEF PoolRestart, TxPoolTypeOK, Pool, Calls, FcuStages, NewPayloadStages
<1>3. ChainTypeOK'
  BY DEF ChainRestart, ChainTypeOK
<1>4. AuthRpcTypeOK'
  BY DEF AuthRpcRestart, AuthRpcTypeOK
<1>5. EngineApiTypeOK'
  BY DEF EngineApiRestart, EngineApiTypeOK
<1>6. BuilderTypeOK'
  BY DEF BuilderRestart, BuilderTypeOK, Running, JobStages, Ended
<1>7. ConvNumbersFit'
  BY DEF BuilderRestart, ConvNumbersFit
<1> QED
  BY <1>1, <1>2, <1>3, <1>4, <1>5, <1>6, <1>7

\* Every step brings the history up to date, or changes nothing.
LEMMA StepTracks ==
    ASSUME [Next]_vars
    PROVE  Track \/ UNCHANGED vars
BY DEF Next, Quiescent, Request, PoolEvent, SendHandler, FcuHandler, NewPayloadHandler,
       JobHandler, ConversionHandler, Restart

\* The history variables keep their types.
LEMMA TrackTyped ==
    ASSUME TypeOK, TxPoolTypeOK', Track
    PROVE  /\ staleAt' \in [FcuCalls -> SUBSET TxHashes]
           /\ spared' \in [Calls -> SUBSET TxHashes]
           /\ disturbed' \in [Jobs -> BOOLEAN]
<1>1. \A c \in FcuCalls : StaleFor(c)' \subseteq TxHashes
  BY DEF StaleFor
<1>2. Pool' \subseteq TxHashes
  BY DEF Pool, TxPoolTypeOK
<1>3. staleAt' \in [FcuCalls -> SUBSET TxHashes]
  BY <1>1 DEF Track, TypeOK
<1>4. spared' \in [Calls -> SUBSET TxHashes]
  BY <1>2 DEF Track, TypeOK
<1>5. disturbed' \in [Jobs -> BOOLEAN]
  BY Zenon DEF Track
<1> QED
  BY <1>3, <1>4, <1>5

------------------------------------------------------------------------------
\* The node starts in a well typed state.
LEMMA TypeInit == Init => TypeInv
<1> SUFFICES ASSUME Init PROVE TypeInv
  OBVIOUS
<1>1. TxMappingTypeOK
  BY DEF Init, TxMappingInit, TxMappingTypeOK
<1>2. TxPoolTypeOK
  BY TxPoolAssumption
  DEF Init, TxPoolInit, TxPoolTypeOK, Calls, FcuStages, NewPayloadStages
<1>3. ChainTypeOK
  BY ChainAssumption DEF Init, ChainInit, ChainTypeOK
<1>4. AuthRpcTypeOK
  BY DEF Init, AuthRpcInit, AuthRpcTypeOK
<1>5. EngineApiTypeOK
  BY ChainAssumption DEF Init, EngineApiInit, EngineApiTypeOK
<1>6. BuilderTypeOK
  BY ChainAssumption DEF Init, BuilderInit, BuilderTypeOK, JobStages
<1>7. ConvNumbersFit
  BY DEF Init, BuilderInit, ConvNumbersFit
<1>8. /\ staleAt \in [FcuCalls -> SUBSET TxHashes] /\ spared \in [Calls -> SUBSET TxHashes]
      /\ restarts \in Nat /\ disturbed \in [Jobs -> BOOLEAN]
  BY DEF Init
<1> QED
  BY <1>1, <1>2, <1>3, <1>4, <1>5, <1>6, <1>7, <1>8 DEF TypeInv, TypeOK

\* Every step of the node keeps the types.
LEMMA TypeStep == TypeInv /\ [Next]_vars => TypeInv'
<1> SUFFICES ASSUME TypeInv, [Next]_vars PROVE TypeInv'
  OBVIOUS
<1>1. ComponentsOK /\ ConvNumbersFit
  BY DEF TypeInv, TypeOK, ComponentsOK
<1>2. ASSUME UNCHANGED convVars
      PROVE  ConvNumbersFit'
  BY <1>1, <1>2 DEF convVars, ConvNumbersFit
<1>3. ASSUME ComponentsOK', ConvNumbersFit', Track, restarts' \in Nat
      PROVE  TypeInv'
  BY <1>3, TrackTyped DEF TypeInv, TypeOK, ComponentsOK
<1>r. restarts \in Nat
  BY DEF TypeInv, TypeOK
<1>4. CASE UNCHANGED vars
  BY <1>1, <1>2, <1>4, MappingUnchanged, PoolUnchanged, ChainUnchanged, SendUnchanged,
     EngineUnchanged, BuilderUnchanged
  DEF vars, builderVars, historyVars, TypeInv, TypeOK, ComponentsOK
<1>5. CASE Request
  BY <1>1, <1>3, <1>r, <1>5, RequestTyped DEF Request
<1>6. CASE PoolEvent
  BY <1>1, <1>2, <1>3, <1>r, <1>6, PoolEventTyped DEF PoolEvent, builderVars
<1>7. ASSUME NEW s \in SendCalls, SendHandler(s)
      PROVE  TypeInv'
  BY <1>1, <1>2, <1>3, <1>r, <1>7, SendTyped DEF SendHandler, builderVars
<1>8. ASSUME NEW c \in FcuCalls, FcuHandler(c)
      PROVE  TypeInv'
  BY <1>1, <1>2, <1>3, <1>r, <1>8, FcuTyped DEF FcuHandler, builderVars
<1>9. ASSUME NEW c \in NewPayloadCalls, NewPayloadHandler(c)
      PROVE  TypeInv'
  BY <1>1, <1>2, <1>3, <1>r, <1>9, NewPayloadTyped DEF NewPayloadHandler, builderVars
<1>10. ASSUME NEW j \in Jobs, JobHandler(j)
       PROVE  TypeInv'
  BY <1>1, <1>2, <1>3, <1>r, <1>10, JobTyped, PoolUnchanged, ChainUnchanged, SendUnchanged,
     EngineUnchanged
  DEF JobHandler, ComponentsOK
<1>11. ASSUME NEW v \in Conversions, ConversionHandler(v)
       PROVE  TypeInv'
  BY <1>1, <1>3, <1>r, <1>11, ConversionTyped, ConversionFits, PoolUnchanged, ChainUnchanged,
     SendUnchanged, EngineUnchanged
  DEF ConversionHandler, ComponentsOK
<1>12. CASE Restart
  BY <1>1, <1>3, <1>r, <1>12, RestartTyped DEF Restart
<1> QED
  BY <1>4, <1>5, <1>6, <1>7, <1>8, <1>9, <1>10, <1>11, <1>12 DEF Next, Quiescent

\* In every behaviour of the node every variable keeps its type, and
\* block_to_payload never indexes past the numbers it has read.
THEOREM TypeCorrect == Spec => []TypeInv
  BY TypeInit, TypeStep, PTL DEF Spec

\* In every behaviour of the node every variable keeps its type, whatever the
\* number of calls, jobs, transactions and blocks (TypeOK of KasplexNode).
THEOREM TypeOKHolds == Spec => []TypeOK
<1>1. TypeInv => TypeOK
  BY DEF TypeInv
<1> QED
  BY <1>1, TypeCorrect, PTL
==============================================================================
