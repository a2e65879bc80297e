---------------------------- MODULE PayloadBuilder ----------------------------
(***************************************************************************)
(* kasplex_payload (crates/payload/src/builder.rs): building a block from  *)
(* the transaction list of the payload attributes, with the two slots of   *)
(* KasplexEvmConfig (crates/block/src/config.rs) and the executor's gas    *)
(* account (crates/block/src/executor.rs).                                 *)
(* Every clone of the configuration shares the slots, and jobs run on      *)
(* threads of their own: set, read and clear are separate steps.           *)
(* The last part is block_to_payload (crates/primitives/src/engine/mod.rs) *)
(* which copies the numbers of a block out of the table and back into it.  *)
(* External (reth's payload service): jobs are listed by payload id until  *)
(* they are resolved or late, and an attempt that fails is made again.     *)
(***************************************************************************)
EXTENDS Transactions, Chain, FiniteSets

CONSTANTS
    Jobs,               \* payload jobs, each run once
    MaxConcurrentJobs,  \* reth's bound on attempts building at the same time
    AttributeSets,      \* the payload attributes a job may be started with
    Eip1559BaseFee,     \* block -> base fee reth computes for its child
    ExtraData,          \* block -> its extra_data
    Timestamp,          \* block -> its timestamp
    U64_MAX,            \* the largest base fee that fits 64 bits
    Conversions         \* block_to_payload calls, each run once

\* KasplexPayloadBuilderAttributes::try_new: a list that does not decode gives
\* no transaction, a transaction whose sender does not recover is left out.
Transactions_Of(a) ==
    IF a.tx_list = None
    THEN <<>>
    ELSE SelectSeq(a.tx_list, LAMBDA raw : raw # BadBytes)

\* payload_id_kasplex, with the fields of the attributes that differ here.
payload_id_kasplex(a) == <<a.parent, a.timestamp, a.tx_list>>

ASSUME PayloadBuilderAssumption ==
    /\ IsFiniteSet(Jobs)
    /\ MaxConcurrentJobs \in Nat
    /\ U64_MAX \in Nat
    /\ \A a \in AttributeSets :
         /\ a.parent \in Blocks
         /\ a.base_fee_per_gas \in Nat
         /\ a.gas_limit \in Nat
         /\ a.timestamp \in Nat          \* payload_attributes.timestamp
         /\ a.block_timestamp \in Nat    \* block_metadata.timestamp
         /\ a.extra_data # None
         /\ Transactions_Of(a) \in Seq(TxHashes)
    /\ Eip1559BaseFee \in [Blocks -> Nat]
    /\ ExtraData \in [Blocks -> STRING]
    /\ Timestamp \in [Blocks -> Nat]
    /\ BlockTxs \in [Blocks -> Seq(TxHashes)]

VARIABLES
    current_extra_data,         \* the slots of KasplexEvmConfig
    current_base_fee_per_gas,
    listed,                     \* the jobs of the payload service
    jobStage,                   \* job -> where its attempt is
    attrs,                      \* job -> its attributes, None before it starts
    envBaseFee, ctxExtraData,   \* job -> what builder_for_next_block read
    txs,                        \* job -> attributes.transactions not yet tried
    transaction_numbers,        \* job -> the numbers pushed so far
    included,                   \* job -> the transactions executed so far
    gas_used,                   \* job -> KasplexBlockExecutor.gas_used
    stored,                     \* job -> how many numbers it has written back
    convStage,                  \* conversion -> where it is
    convBlock,                  \* conversion -> its block
    convNumbers,                \* conversion -> the numbers it has read
    convStored                  \* conversion -> how many it has written back

slotVars == <<current_extra_data, current_base_fee_per_gas>>
jobVars == <<jobStage, attrs, envBaseFee, ctxExtraData, txs,
             transaction_numbers, included, gas_used, stored>>
convVars == <<convStage, convBlock, convNumbers, convStored>>

Ended == {"built", "cancelled", "failed", "panicked", "lost"}
JobStages == {"idle", "set_extra", "set_fee", "read_fee", "read_extra",
              "clear_extra", "clear_fee", "pre", "next_tx", "execute", "store"}
             \cup Ended

ExtraDataValues ==
    {a.extra_data : a \in AttributeSets} \cup {ExtraData[b] : b \in Blocks}

BuilderTypeOK ==
    /\ current_extra_data \in ExtraDataValues \cup {None}
    /\ current_base_fee_per_gas \in Nat \cup {None}
    /\ listed \in SUBSET Jobs
    /\ jobStage \in [Jobs -> JobStages]
    /\ attrs \in [Jobs -> AttributeSets \cup {None}]
    /\ \A j \in Jobs : jobStage[j] # "idle" => attrs[j] \in AttributeSets
    /\ envBaseFee \in [Jobs -> Nat]
    /\ ctxExtraData \in [Jobs -> ExtraDataValues \cup {None}]
    /\ txs \in [Jobs -> Seq(TxHashes)]
    /\ \A j \in Jobs : jobStage[j] = "execute" => txs[j] # <<>>
    /\ transaction_numbers \in [Jobs -> Seq(Nat)]
    /\ included \in [Jobs -> Seq(TxHashes)]
    /\ gas_used \in [Jobs -> Nat]
    /\ stored \in [Jobs -> Nat]
    /\ convStage \in [Conversions -> {"idle", "read", "write", "done"}]
    /\ convBlock \in [Conversions -> Blocks]
    /\ convNumbers \in [Conversions -> Seq(Nat)]
    /\ convStored \in [Conversions -> Nat]

BuilderInit ==
    /\ current_extra_data = None
    /\ current_base_fee_per_gas = None
    /\ listed = {}
    /\ jobStage = [j \in Jobs |-> "idle"]
    /\ attrs = [j \in Jobs |-> None]
    /\ envBaseFee = [j \in Jobs |-> 0]
    /\ ctxExtraData = [j \in Jobs |-> None]
    /\ txs = [j \in Jobs |-> <<>>]
    /\ transaction_numbers = [j \in Jobs |-> <<>>]
    /\ included = [j \in Jobs |-> <<>>]
    /\ gas_used = [j \in Jobs |-> 0]
    /\ stored = [j \in Jobs |-> 0]
    /\ convStage = [v \in Conversions |-> "idle"]
    /\ convBlock = [v \in Conversions |-> Genesis]
    /\ convNumbers = [v \in Conversions |-> <<>>]
    /\ convStored = [v \in Conversions |-> 0]

JobGoto(j, s) == jobStage' = [jobStage EXCEPT ![j] = s]

Running == {j \in Jobs : jobStage[j] \notin Ended \cup {"idle"}}

------------------------------------------------------------------------------
(* The slots: kasplex_payload up to the end of builder_for_next_block.     *)

\* Attributes must not be earlier than the head; the same time will do.
validate_payload_attributes_against_header(a) == a.timestamp >= Timestamp[a.parent]

\* A forkchoice update with attributes spawns a job (external), with what
\* KasplexPayloadBuilderAttributes::try_new makes of them; attributes whose id
\* is listed already are answered with that id and start nothing.
JobStarts(j) == \E a \in AttributeSets :
    /\ jobStage[j] = "idle"
    /\ Cardinality(Running) < MaxConcurrentJobs
    /\ \A k \in listed : payload_id_kasplex(attrs[k]) # payload_id_kasplex(a)
    /\ a.parent \in known
    /\ validate_payload_attributes_against_header(a)
    /\ attrs' = [attrs EXCEPT ![j] = a]
    /\ txs' = [txs EXCEPT ![j] = Transactions_Of(a)]
    /\ listed' = listed \cup {j}
    /\ JobGoto(j, "set_extra")
    /\ UNCHANGED <<slotVars, envBaseFee, ctxExtraData, transaction_numbers,
                   included, gas_used, stored>>

\* A listed job whose attempt failed or panicked makes another (external).
JobRetries(j) ==
    /\ jobStage[j] \in {"failed", "panicked"}
    /\ j \in listed
    /\ Cardinality(Running) < MaxConcurrentJobs
    /\ txs' = [txs EXCEPT ![j] = Transactions_Of(attrs[j])]
    /\ envBaseFee' = [envBaseFee EXCEPT ![j] = 0]
    /\ ctxExtraData' = [ctxExtraData EXCEPT ![j] = None]
    /\ transaction_numbers' = [transaction_numbers EXCEPT ![j] = <<>>]
    /\ included' = [included EXCEPT ![j] = <<>>]
    /\ gas_used' = [gas_used EXCEPT ![j] = 0]
    /\ JobGoto(j, "set_extra")
    /\ UNCHANGED <<slotVars, listed, attrs, stored>>

\* get_payload_v2 resolves the job, which may go on for the answer
\* (AwaitInProgress), or its deadline has passed (external).
JobDelisted(j) ==
    /\ j \in listed
    /\ listed' = listed \ {j}
    /\ UNCHANGED <<slotVars, jobVars>>

ServiceStep(j) == JobStarts(j) \/ JobRetries(j) \/ JobDelisted(j)

\* attributes.base_fee_per_gas.to::<u64>() panics, before any slot is set.
JobOverflows(j) ==
    /\ jobStage[j] = "set_extra"
    /\ attrs[j].base_fee_per_gas > U64_MAX
    /\ JobGoto(j, "panicked")
    /\ UNCHANGED <<mappingVars, slotVars, attrs, envBaseFee, ctxExtraData, txs,
                   transaction_numbers, included, gas_used, stored>>

SetExtraData(j) ==
    /\ jobStage[j] = "set_extra"
    /\ attrs[j].base_fee_per_gas <= U64_MAX
    /\ current_extra_data' = attrs[j].extra_data
    /\ JobGoto(j, "set_fee")
    /\ UNCHANGED <<current_base_fee_per_gas, attrs, envBaseFee, ctxExtraData, txs,
                   transaction_numbers, included, gas_used, stored>>

SetBaseFee(j) ==
    /\ jobStage[j] = "set_fee"
    /\ current_base_fee_per_gas' = attrs[j].base_fee_per_gas
    /\ JobGoto(j, "read_fee")
    /\ UNCHANGED <<current_extra_data, attrs, envBaseFee, ctxExtraData, txs,
                   transaction_numbers, included, gas_used, stored>>

\* Bug: the slot is ignored and the computed fee used.
BaseFeeForNext_Ignored(parent) == Eip1559BaseFee[parent]

\* next_evm_env: the slot, or what reth computes from the parent.
BaseFeeForNext(parent) ==
    IF current_base_fee_per_gas = None THEN Eip1559BaseFee[parent]
    ELSE current_base_fee_per_gas

ReadBaseFee(j) ==
    /\ jobStage[j] = "read_fee"
    /\ envBaseFee' = [envBaseFee EXCEPT ![j] = BaseFeeForNext(attrs[j].parent)]
    /\ JobGoto(j, "read_extra")
    /\ UNCHANGED <<slotVars, attrs, ctxExtraData, txs, transaction_numbers,
                   included, gas_used, stored>>

\* context_for_next_block: the slot, or the extra data of the parent.
ReadExtraData(j) ==
    /\ jobStage[j] = "read_extra"
    /\ ctxExtraData' = [ctxExtraData EXCEPT ![j] =
                          IF current_extra_data = None
                          THEN ExtraData[attrs[j].parent]
                          ELSE current_extra_data]
    /\ JobGoto(j, "clear_extra")
    /\ UNCHANGED <<slotVars, attrs, envBaseFee, txs, transaction_numbers,
                   included, gas_used, stored>>

ClearExtraData(j) ==
    /\ jobStage[j] = "clear_extra"
    /\ current_extra_data' = None
    /\ JobGoto(j, "clear_fee")
    /\ UNCHANGED <<current_base_fee_per_gas, attrs, envBaseFee, ctxExtraData, txs,
                   transaction_numbers, included, gas_used, stored>>

\* Bug: the base fee stays in its slot.
ClearBaseFee_Forgets(j) ==
    /\ jobStage[j] = "clear_fee"
    /\ JobGoto(j, "pre")
    /\ UNCHANGED <<slotVars, attrs, envBaseFee, ctxExtraData, txs,
                   transaction_numbers, included, gas_used, stored>>

ClearBaseFee(j) ==
    /\ jobStage[j] = "clear_fee"
    /\ current_base_fee_per_gas' = None
    /\ JobGoto(j, "pre")
    /\ UNCHANGED <<current_extra_data, attrs, envBaseFee, ctxExtraData, txs,
                   transaction_numbers, included, gas_used, stored>>

SlotStep(j) ==
    \/ SetExtraData(j) \/ SetBaseFee(j) \/ ReadBaseFee(j) \/ ReadExtraData(j)
    \/ ClearExtraData(j) \/ ClearBaseFee(j)

------------------------------------------------------------------------------
(* The transactions: the rest of kasplex_payload.                          *)

jobSetup == <<slotVars, attrs, envBaseFee, ctxExtraData>>
jobLocals == <<txs, transaction_numbers, included, gas_used, stored>>

\* state_by_block_hash, apply_pre_execution_changes, a fatal execution error or
\* finish fails: kasplex_payload returns the error.
JobFails(j) ==
    /\ \/ jobStage[j] \in {"set_extra", "pre", "execute"}
       \/ jobStage[j] = "next_tx" /\ txs[j] = <<>>
    /\ JobGoto(j, "failed")
    /\ UNCHANGED <<mappingVars, jobSetup, jobLocals>>

PreExecution(j) ==
    /\ jobStage[j] = "pre"
    /\ JobGoto(j, "next_tx")
    /\ UNCHANGED <<mappingVars, jobSetup, jobLocals>>

\* cancel.is_cancelled() at the top of the loop: nobody waits for the job.
JobCancelled(j) ==
    /\ j \notin listed
    /\ jobStage[j] = "next_tx"
    /\ txs[j] # <<>>
    /\ JobGoto(j, "cancelled")
    /\ UNCHANGED <<mappingVars, jobSetup, jobLocals>>

\* extract_transaction_number, pushed before the transaction is tried.
ExtractNumber(j) ==
    /\ jobStage[j] = "next_tx"
    /\ txs[j] # <<>>
    /\ transaction_numbers' = [transaction_numbers EXCEPT ![j] =
                                 Append(@, NumberOrZero(Head(txs[j])))]
    /\ JobGoto(j, "execute")
    /\ UNCHANGED <<mappingVars, jobSetup, txs, included, gas_used, stored>>

\* Bug: the fee cap is not compared with the base fee.
Executable_NoFeeCheck(j, t) ==
    /\ TxGas[t] <= attrs[j].gas_limit
    /\ \A i \in DOMAIN included[j] : included[j][i] # t

\* The EVM accepts t only if its fee cap covers the base fee of the block and
\* its gas limit fits the block's; a transaction runs once.
Executable(j, t) ==
    /\ MaxFee[t] >= envBaseFee[j]
    /\ TxGas[t] <= attrs[j].gas_limit
    /\ \A i \in DOMAIN included[j] : included[j][i] # t

\* Executed and committed; then effective_tip_per_gas(base_fee).expect(..),
\* with the base fee of the attributes.
ExecuteTx(j) == LET t == Head(txs[j]) IN
    /\ jobStage[j] = "execute"
    /\ Executable(j, t)
    /\ included' = [included EXCEPT ![j] = Append(@, t)]
    /\ gas_used' = [gas_used EXCEPT ![j] = @ + TxGas[t]]
    /\ txs' = [txs EXCEPT ![j] = Tail(@)]
    /\ JobGoto(j, IF MaxFee[t] < attrs[j].base_fee_per_gas THEN "panicked"
                  ELSE "next_tx")
    /\ UNCHANGED <<mappingVars, jobSetup, transaction_numbers, stored>>

\* Bug: the number of a skipped transaction stays in the list.
SkipTx_KeepsNumber(j) ==
    /\ jobStage[j] = "execute"
    /\ txs' = [txs EXCEPT ![j] = Tail(@)]
    /\ JobGoto(j, "next_tx")
    /\ UNCHANGED <<mappingVars, jobSetup, transaction_numbers, included, gas_used,
                   stored>>

\* The transaction is invalid (nonce, balance, fee, gas): pop and continue.
SkipTx(j) ==
    /\ jobStage[j] = "execute"
    /\ transaction_numbers' = [transaction_numbers EXCEPT ![j] =
                                 SubSeq(@, 1, Len(@) - 1)]
    /\ txs' = [txs EXCEPT ![j] = Tail(@)]
    /\ JobGoto(j, "next_tx")
    /\ UNCHANGED <<mappingVars, jobSetup, included, gas_used, stored>>

\* builder.finish assembles the block.
FinishBlock(j) ==
    /\ jobStage[j] = "next_tx"
    /\ txs[j] = <<>>
    /\ JobGoto(j, "store")
    /\ UNCHANGED <<mappingVars, jobSetup, jobLocals>>

\* insert(hash of block.recovered_transaction(idx), number), if it is there.
StoreNumber(j) ==
    /\ jobStage[j] = "store"
    /\ stored[j] < Len(transaction_numbers[j])
    /\ stored' = [stored EXCEPT ![j] = @ + 1]
    /\ IF stored[j] < Len(included[j])
       THEN insert(included[j][stored[j] + 1], transaction_numbers[j][stored[j] + 1])
       ELSE UNCHANGED mappingVars
    /\ UNCHANGED <<jobStage, jobSetup, txs, transaction_numbers, included, gas_used>>

\* BuildOutcome::Freeze
JobBuilt(j) ==
    /\ jobStage[j] = "store"
    /\ stored[j] = Len(transaction_numbers[j])
    /\ JobGoto(j, "built")
    /\ UNCHANGED <<mappingVars, jobSetup, jobLocals>>

JobStep(j) ==
    \/ SlotStep(j) /\ UNCHANGED mappingVars
    \/ JobOverflows(j) \/ JobFails(j) \/ PreExecution(j) \/ JobCancelled(j)
    \/ ExtractNumber(j) \/ ExecuteTx(j) \/ SkipTx(j) \/ FinishBlock(j) \/ StoreNumber(j) \/ JobBuilt(j)

------------------------------------------------------------------------------
(* block_to_payload(block)                                                 *)

ConversionStarts(v) == \E b \in Blocks :
    /\ convStage[v] = "idle"
    /\ convBlock' = [convBlock EXCEPT ![v] = b]
    /\ convStage' = [convStage EXCEPT ![v] = "read"]
    /\ UNCHANGED <<mappingVars, convNumbers, convStored>>

ConversionReads(v) == LET body == BlockTxs[convBlock[v]] IN
    /\ convStage[v] = "read"
    /\ Len(convNumbers[v]) < Len(body)
    /\ convNumbers' = [convNumbers EXCEPT ![v] =
                         Append(@, NumberOrZero(body[Len(@) + 1]))]
    /\ UNCHANGED <<mappingVars, convStage, convBlock, convStored>>

ConversionRead(v) ==
    /\ convStage[v] = "read"
    /\ Len(convNumbers[v]) = Len(BlockTxs[convBlock[v]])
    /\ convStage' = [convStage EXCEPT ![v] = "write"]
    /\ UNCHANGED <<mappingVars, convBlock, convNumbers, convStored>>

ConversionWrites(v) == LET body == BlockTxs[convBlock[v]] IN
    /\ convStage[v] = "write"
    /\ convStored[v] < Len(body)
    /\ insert(body[convStored[v] + 1], convNumbers[v][convStored[v] + 1])
    /\ convStored' = [convStored EXCEPT ![v] = @ + 1]
    /\ UNCHANGED <<convStage, convBlock, convNumbers>>

ConversionReturns(v) ==
    /\ convStage[v] = "write"
    /\ convStored[v] = Len(BlockTxs[convBlock[v]])
    /\ convStage' = [convStage EXCEPT ![v] = "done"]
    /\ UNCHANGED <<mappingVars, convBlock, convNumbers, convStored>>

ConversionStep(v) ==
    \/ ConversionReads(v) \/ ConversionRead(v) \/ ConversionWrites(v)
    \/ ConversionReturns(v)

------------------------------------------------------------------------------
\* The process stops and a new one starts: a new configuration with empty
\* slots, no jobs; what was under way is lost.
BuilderRestart ==
    /\ current_extra_data' = None
    /\ current_base_fee_per_gas' = None
    /\ listed' = {}
    /\ jobStage' = [j \in Jobs |-> IF j \in Running THEN "lost" ELSE jobStage[j]]
    /\ convStage' = [v \in Conversions |->
                       IF convStage[v] = "idle" THEN "idle" ELSE "done"]
    /\ UNCHANGED <<attrs, envBaseFee, ctxExtraData, txs, transaction_numbers, included,
                   gas_used, stored, convBlock, convNumbers, convStored>>
==============================================================================
