------------------------------ MODULE EngineApi ------------------------------
(***************************************************************************)
(* engine_newPayloadV2 and engine_forkchoiceUpdatedV2 of crates/rpc/src/   *)
(* engine/api.rs around reth's own handlers, and the conversion of a       *)
(* payload into a block by engine/validator.rs, which runs inside them.    *)
(* The engine tree handles one request at a time (engine); the code before *)
(* and after runs on the RPC threads, concurrently.                        *)
(* A payload is the hash it claims and the body it carries; the hash       *)
(* matches when the body is that of the block with this hash.              *)
(***************************************************************************)
EXTENDS TxPool, Chain

ASSUME EngineApiAssumption ==
    BlockTxs \in [Blocks -> Seq(TxHashes)]

VARIABLES
    engine,      \* the call the engine tree is busy with, or None
    npHash,      \* newPayload call -> payload.block_hash
    npBody,      \* newPayload call -> the block whose body the payload carries
    npTodo,      \* newPayload call -> transactions still to convert
    fcuTarget    \* fcu call -> fork_choice_state.head_block_hash

engineVars == <<engine, npHash, npBody, npTodo, fcuTarget>>

EngineApiTypeOK ==
    /\ engine \in NewPayloadCalls \cup {None}
    /\ npHash \in [NewPayloadCalls -> Blocks]
    /\ npBody \in [NewPayloadCalls -> Blocks]
    /\ npTodo \in [NewPayloadCalls -> Seq(TxHashes)]
    /\ fcuTarget \in [FcuCalls -> Blocks]

EngineApiInit ==
    /\ engine = None
    /\ npHash = [c \in NewPayloadCalls |-> Genesis]
    /\ npBody = [c \in NewPayloadCalls |-> Genesis]
    /\ npTodo = [c \in NewPayloadCalls |-> <<>>]
    /\ fcuTarget = [c \in FcuCalls |-> Genesis]

TxsOf(b) == {BlockTxs[b][i] : i \in DOMAIN BlockTxs[b]}

callLocals == <<newHead, pendingHashes, queuedHashes, toRemove>>

\* The call returns and its locals go.
NewPayloadEnds(c) ==
    /\ Goto(c, "done")
    /\ npHash' = [npHash EXCEPT ![c] = Genesis]
    /\ npBody' = [npBody EXCEPT ![c] = Genesis]
    /\ UNCHANGED <<mappingVars, poolVars, callLocals, chainVars, engine, npTodo,
                   fcuTarget>>

FcuEnds(c) ==
    /\ Goto(c, "done")
    /\ fcuTarget' = [fcuTarget EXCEPT ![c] = Genesis]
    /\ newHead' = [newHead EXCEPT ![c] = 0]
    /\ UNCHANGED <<mappingVars, poolVars, pendingHashes, queuedHashes, toRemove,
                   chainVars, engine, npHash, npBody, npTodo>>

------------------------------------------------------------------------------
(* new_payload_v2                                                          *)

NewPayloadReceive(c) == \E hash, body \in Blocks :
    /\ stage[c] = "idle"
    /\ npHash' = [npHash EXCEPT ![c] = hash]
    /\ npBody' = [npBody EXCEPT ![c] = body]
    /\ Goto(c, "np_inner")
    /\ UNCHANGED <<mappingVars, poolVars, callLocals, chainVars, engine, npTodo,
                   fcuTarget>>

\* ensure_well_formed_payload: try_into_block succeeds, the numbers follow.
NewPayloadConvert(c) ==
    /\ stage[c] = "np_inner"
    /\ engine = None
    /\ engine' = c
    /\ npTodo' = [npTodo EXCEPT ![c] = BlockTxs[npBody[c]]]
    /\ Goto(c, "np_take")
    /\ UNCHANGED <<mappingVars, poolVars, callLocals, chainVars, npHash, npBody,
                   fcuTarget>>

\* The payload is answered without a block: it does not convert, or the tree
\* does not get to it.  inner.new_payload_v2 returns a status.
NewPayloadUnconverted(c) ==
    /\ stage[c] = "np_inner"
    /\ engine = None
    /\ Goto(c, "np_lookup")
    /\ UNCHANGED <<mappingVars, poolVars, callLocals, chainVars, engineVars>>

\* process_kasplex_execution_data, its last loop: get_tx_number takes the
\* number of each transaction of the body out of the table.
NewPayloadTakesNumber(c) ==
    /\ stage[c] = "np_take"
    /\ npTodo[c] # <<>>
    /\ get_tx_number(Head(npTodo[c]))
    /\ npTodo' = [npTodo EXCEPT ![c] = Tail(@)]
    /\ UNCHANGED <<poolVars, callVars, chainVars, engine, npHash, npBody,
                   fcuTarget>>

\* The hash matches and the block is executed: VALID.
NewPayloadValid(c) ==
    /\ stage[c] = "np_take"
    /\ npTodo[c] = <<>>
    /\ npHash[c] = npBody[c]
    /\ ExecuteBlock(npHash[c])
    /\ engine' = None
    /\ Goto(c, "np_lookup")
    /\ UNCHANGED <<mappingVars, poolVars, callLocals, npHash, npBody, npTodo,
                   fcuTarget>>

\* Bug: a rejected payload leaves the engine taken.
NewPayloadNotValid_HoldsEngine(c) ==
    /\ stage[c] = "np_take"
    /\ npTodo[c] = <<>>
    /\ Goto(c, "np_lookup")
    /\ UNCHANGED <<mappingVars, poolVars, callLocals, chainVars, engineVars>>

\* Hash mismatch, recovery failure, unknown parent or invalid block: a status
\* other than VALID, and no block.
NewPayloadNotValid(c) ==
    /\ stage[c] = "np_take"
    /\ npTodo[c] = <<>>
    /\ engine' = None
    /\ Goto(c, "np_lookup")
    /\ UNCHANGED <<mappingVars, poolVars, callLocals, chainVars, npHash, npBody,
                   npTodo, fcuTarget>>

\* inner.new_payload_v2(..).await? fails and so does the call.
NewPayloadFails(c) ==
    /\ stage[c] = "np_inner"
    /\ engine = None
    /\ NewPayloadEnds(c)

\* Whatever the status: if block_by_hash finds the block, its transactions go.
NewPayloadLookup(c) == \E found \in LookupResults(npHash[c]) :
    /\ stage[c] = "np_lookup"
    /\ IF found
       THEN /\ Goto(c, "included")
            /\ UNCHANGED <<mappingVars, poolVars, callLocals, chainVars, engineVars>>
       ELSE NewPayloadEnds(c)

NewPayloadRemoves(c) ==
    /\ IncludedSnapshot(c, TxsOf(npHash[c])) \/ IncludedRemove(c)
    /\ UNCHANGED <<chainVars, engineVars>>

NewPayloadReturns(c) == stage[c] = "removed" /\ NewPayloadEnds(c)

NewPayloadStep(c) ==
    \/ NewPayloadConvert(c) \/ NewPayloadUnconverted(c)
    \/ NewPayloadTakesNumber(c) \/ NewPayloadValid(c) \/ NewPayloadNotValid(c)
    \/ NewPayloadFails(c) \/ NewPayloadLookup(c) \/ NewPayloadRemoves(c)
    \/ NewPayloadReturns(c)

------------------------------------------------------------------------------
(* fork_choice_updated_v2                                                  *)

FcuReceive(c) == \E target \in Blocks :
    /\ stage[c] = "idle"
    /\ fcuTarget' = [fcuTarget EXCEPT ![c] = target]
    /\ Goto(c, "fcu_inner")
    /\ UNCHANGED <<mappingVars, poolVars, callLocals, chainVars, engine, npHash,
                   npBody, npTodo>>

\* inner.fork_choice_updated_v2 applies the update ...
FcuApplied(c) ==
    /\ stage[c] = "fcu_inner"
    /\ engine = None
    /\ SetHead(fcuTarget[c])
    /\ Goto(c, "fcu_lookup")
    /\ UNCHANGED <<mappingVars, poolVars, callLocals, engine, npHash, npBody,
                   npTodo, fcuTarget>>

\* ... or answers SYNCING or INVALID and leaves the head where it is.
FcuNotApplied(c) ==
    /\ stage[c] = "fcu_inner"
    /\ engine = None
    /\ Goto(c, "fcu_lookup")
    /\ UNCHANGED <<mappingVars, poolVars, callLocals, chainVars, engineVars>>

\* inner.fork_choice_updated_v2(..).await? fails and so does the call.
FcuFails(c) ==
    /\ stage[c] = "fcu_inner"
    /\ engine = None
    /\ FcuEnds(c)

\* Bug: the cleanup runs for the parent of the new head.
FcuLookup_Parent(c) == \E found \in LookupResults(fcuTarget[c]) :
    /\ stage[c] = "fcu_lookup"
    /\ newHead' = [newHead EXCEPT ![c] =
                     IF found THEN Number[fcuTarget[c]] - 1 ELSE best_block_number]
    /\ Goto(c, "cleanup")
    /\ UNCHANGED <<mappingVars, poolVars, pendingHashes, queuedHashes, toRemove,
                   chainVars, engineVars>>

\* The number the cleanup runs for: the header of the target, or failing that
\* the best block; then handle_kasplex_pool_reorg is called.
FcuLookup(c) == \E found \in LookupResults(fcuTarget[c]) :
    /\ stage[c] = "fcu_lookup"
    /\ newHead' = [newHead EXCEPT ![c] =
                     IF found THEN Number[fcuTarget[c]] ELSE best_block_number]
    /\ Goto(c, "cleanup")
    /\ UNCHANGED <<mappingVars, poolVars, pendingHashes, queuedHashes, toRemove,
                   chainVars, engineVars>>

\* Neither is to be had: no cleanup.
FcuFindsNoHead(c) == stage[c] = "fcu_lookup" /\ FcuEnds(c)

FcuCleanup(c) == CleanupStep(c) /\ UNCHANGED <<chainVars, engineVars>>

FcuReturns(c) == stage[c] = "cleaned" /\ FcuEnds(c)

FcuStep(c) ==
    \/ FcuApplied(c) \/ FcuNotApplied(c) \/ FcuFails(c) \/ FcuLookup(c)
    \/ FcuFindsNoHead(c) \/ FcuCleanup(c) \/ FcuReturns(c)

\* The process stops and a new one starts: the engine is idle, requests are gone.
EngineApiRestart ==
    /\ engine' = None
    /\ npHash' = [c \in NewPayloadCalls |-> Genesis]
    /\ npBody' = [c \in NewPayloadCalls |-> Genesis]
    /\ npTodo' = [c \in NewPayloadCalls |-> <<>>]
    /\ fcuTarget' = [c \in FcuCalls |-> Genesis]
==============================================================================
