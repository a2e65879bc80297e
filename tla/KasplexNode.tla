----------------------------- MODULE KasplexNode -----------------------------
(***************************************************************************)
(* The node: the auth RPC, the engine API with the pool cleanup, the       *)
(* payload builder and block_to_payload as concurrent users of one table   *)
(* of transaction numbers, one pool and one chain.                         *)
(* A step is what one thread does under one lock, or the end of the        *)
(* process and the start of another.  What a step leaves to the other      *)
(* components is added here, with history variables that remember what a   *)
(* handler could have seen since it copied the pool, and what another job  *)
(* could have done to the slots of a job.                                  *)
(***************************************************************************)
EXTENDS AuthRpc, EngineApi, PayloadBuilder

CONSTANT MaxRestarts   \* how often the process may end and start again

ASSUME KasplexNodeAssumption == MaxRestarts \in Nat

VARIABLES
    restarts,  \* how often it has
    staleAt,   \* fcu call -> txs stale for its head at some time since its snapshot
    spared,    \* call -> txs it may leave in the pool: new there since its
               \* snapshot, or not stale at some time since (fcu calls)
    disturbed  \* job -> has another used the slots while its values were in them?

historyVars == <<restarts, staleAt, spared, disturbed>>
builderVars == <<slotVars, listed, jobVars, convVars>>
vars == <<mappingVars, poolVars, callVars, chainVars, sendVars, engineVars,
          builderVars, historyVars>>

------------------------------------------------------------------------------
(* History                                                                 *)

\* The stages between the copy of the pool and the return of the function.
Watching == {"check", "remove", "finish", "cleaned", "remove_included", "removed"}

\* Is a transaction with number n outside the window that ends at block h?
\* One without a number never is.
Stale(n, h) == n # 0 /\ n \notin (h - UNEXECUTED_TX_RETENTION_BLOCKS) .. h

\* The transactions stale for fcu call c.
StaleFor(c) == {t \in TxHashes : Stale(NumberOrZero(t), newHead[c])}

\* A job's values are in the slots and not all read; a job may write a slot,
\* or has just done so.
Exposed == {"set_fee", "read_fee", "read_extra"}
SlotStages == Exposed \cup {"clear_extra", "clear_fee"}

\* Bookkeeping of every step.
Track ==
    /\ staleAt' = [c \in FcuCalls |->
                     IF stage'[c] \in Watching THEN staleAt[c] \cup StaleFor(c)'
                                               ELSE {}]
    /\ spared' = [c \in Calls |->
                     IF stage'[c] \notin Watching THEN {}
                     ELSE spared[c] \cup (Pool' \ Pool)
                            \cup IF c \in FcuCalls THEN TxHashes \ StaleFor(c)'
                                                   ELSE {}]
    /\ disturbed' = [j \in Jobs |->
                       /\ jobStage'[j] # "set_extra"
                       /\ \/ disturbed[j]
                          \/ /\ jobStage'[j] \in Exposed
                             /\ \E k \in Jobs \ {j} : jobStage'[k] \in SlotStages]

------------------------------------------------------------------------------
Init ==
    /\ TxMappingInit /\ TxPoolInit /\ ChainInit
    /\ AuthRpcInit /\ EngineApiInit /\ BuilderInit
    /\ staleAt = [c \in FcuCalls |-> {}]
    /\ spared = [c \in Calls |-> {}]
    /\ restarts = 0
    /\ disturbed = [j \in Jobs |-> FALSE]

\* Handlers: once a request is in, its thread runs on.
SendHandler(s) ==
    /\ SendStep(s)
    /\ UNCHANGED <<engineVars, builderVars, restarts>>
    /\ Track

FcuHandler(c) ==
    /\ FcuStep(c)
    /\ UNCHANGED <<sendVars, builderVars, restarts>>
    /\ Track

NewPayloadHandler(c) ==
    /\ NewPayloadStep(c)
    /\ UNCHANGED <<sendVars, builderVars, restarts>>
    /\ Track

JobHandler(j) ==
    /\ JobStep(j)
    /\ UNCHANGED <<poolVars, callVars, chainVars, sendVars, engineVars, listed,
                   convVars, restarts>>
    /\ Track

ConversionHandler(v) ==
    /\ ConversionStep(v)
    /\ UNCHANGED <<poolVars, callVars, chainVars, sendVars, engineVars, slotVars,
                   listed, jobVars, restarts>>
    /\ Track

\* Requests: clients and the consensus layer may send one at any time, and the
\* payload service starts, repeats and gives up jobs.
Request ==
    /\ \/ \E s \in SendCalls : SendReceive(s) /\ UNCHANGED <<engineVars, builderVars>>
       \/ \E c \in FcuCalls : FcuReceive(c) /\ UNCHANGED <<sendVars, builderVars>>
       \/ \E c \in NewPayloadCalls :
            NewPayloadReceive(c) /\ UNCHANGED <<sendVars, builderVars>>
       \/ \E j \in Jobs :
            /\ ServiceStep(j)
            /\ UNCHANGED <<mappingVars, poolVars, callVars, chainVars, sendVars,
                           engineVars, convVars>>
       \/ \E v \in Conversions :
            /\ ConversionStarts(v)
            /\ UNCHANGED <<poolVars, callVars, chainVars, sendVars, engineVars,
                           slotVars, listed, jobVars>>
    /\ UNCHANGED restarts
    /\ Track

\* reth's pool on its own.
PoolEvent == \E t \in FreeTxs :
    /\ PoolReceives(t) \/ PoolMoves(t) \/ PoolDrops(t)
    /\ UNCHANGED <<chainVars, sendVars, engineVars, builderVars, restarts>>
    /\ Track

\* The process ends, at any point of its calls, and another starts: what was
\* in memory is gone, what the database and the pool's backup hold is read back.
Restart ==
    /\ restarts < MaxRestarts
    /\ restarts' = restarts + 1
    /\ TxMappingRestart /\ PoolRestart /\ ChainRestart
    /\ AuthRpcRestart /\ EngineApiRestart /\ BuilderRestart
    /\ Track

\* Every call has been answered and every job is over.
Quiescent ==
    /\ \A s \in SendCalls : sendStage[s] = "done"
    /\ \A c \in Calls : stage[c] = "done"
    /\ \A j \in Jobs : jobStage[j] \in Ended
    /\ \A v \in Conversions : convStage[v] = "done"
    /\ UNCHANGED vars

Next ==
    \/ Quiescent
    \/ Request
    \/ PoolEvent
    \/ Restart
    \/ \E s \in SendCalls : SendHandler(s)
    \/ \E c \in FcuCalls : FcuHandler(c)
    \/ \E c \in NewPayloadCalls : NewPayloadHandler(c)
    \/ \E j \in Jobs : JobHandler(j)
    \/ \E v \in Conversions : ConversionHandler(v)

Spec == Init /\ [][Next]_vars

\* The runtime keeps running the handler of a call that can go on; nothing makes
\* clients send, the pool move, the consensus layer call or a job succeed.
Fairness ==
    /\ \A s \in SendCalls : WF_vars(SendHandler(s))
    /\ \A c \in FcuCalls : WF_vars(FcuHandler(c))
    /\ \A c \in NewPayloadCalls : WF_vars(NewPayloadHandler(c))

FairSpec == Spec /\ Fairness

------------------------------------------------------------------------------
(* Properties                                                              *)

\* Every variable of the node keeps its type: no handler leaves its sequence
\* of steps or holds anything but transactions, blocks and block numbers.
TypeOK ==
    /\ TxMappingTypeOK /\ TxPoolTypeOK /\ ChainTypeOK /\ AuthRpcTypeOK
    /\ EngineApiTypeOK /\ BuilderTypeOK
    /\ staleAt \in [FcuCalls -> SUBSET TxHashes]
    /\ spared \in [Calls -> SUBSET TxHashes]
    /\ restarts \in Nat
    /\ disturbed \in [Jobs -> BOOLEAN]

\* The number on record for a transaction is one the auth RPC gave to that very
\* transaction, or 0: the builder and block_to_payload, which read numbers,
\* keep them in vectors across other steps and write them back by position,
\* never credit a transaction with the number of another.
NumberProvenance ==
    \A t \in TxHashes : mapping[t] \in {None, 0} \cup submitted[t]

\* A cleanup selects for removal only transactions whose number really was
\* outside the window of its head at some time since it copied the pool,
\* however the table changed meanwhile; none without a number.
CleanupSound ==
    \A c \in FcuCalls : toRemove[c] \subseteq staleAt[c]

\* When a cleanup has removed what it selected, each transaction in the pool
\* came in after the cleanup copied the pool, or was inside the window at some
\* time since: no stale transaction slips through, pending or queued.
CleanupComplete ==
    \A c \in FcuCalls : stage[c] \in {"finish", "cleaned"} /\ IsKasplex =>
        Pool \subseteq spared[c]

\* When new_payload_v2 has found its block and run
\* remove_included_transactions, a transaction of the block still in the pool
\* came back into it after the pool was copied.
IncludedLeavePool ==
    \A c \in NewPayloadCalls : stage[c] = "removed" =>
        Pool \cap TxsOf(npHash[c]) \subseteq spared[c]

\* The flag says a reorg is in progress only while some forkchoiceUpdated call
\* is between mark_start_pool_reorg and mark_pool_reorged: it is never left
\* behind, whatever the number of overlapping calls.
ReportedReorgIsReal ==
    reorg_in_progress =>
        \E c \in FcuCalls : stage[c] \in {"snapshot", "check", "remove", "finish"}

\* A filled slot of the shared configuration holds the value of a job that is
\* between setting and clearing it: however jobs overlap, and whatever fails,
\* panics or is repeated, no value outlives its job.  Who reads the slots
\* outside a job (next_evm_env for the RPC's pending block) gets the defaults or
\* the values of a job under way, never those of one that is over.
SlotsHeldByJob ==
    /\ current_extra_data # None => \E j \in Jobs :
         /\ jobStage[j] \in {"set_fee", "read_fee", "read_extra", "clear_extra"}
         /\ current_extra_data = attrs[j].extra_data
    /\ current_base_fee_per_gas # None => \E j \in Jobs :
         /\ jobStage[j] \in {"read_fee", "read_extra", "clear_extra", "clear_fee"}
         /\ current_base_fee_per_gas = attrs[j].base_fee_per_gas

\* The block a job builds has the base fee and the extra data of the job's
\* attributes, unless another job used the slots between the job's setting
\* and reading them: retries, failures and a restart put nothing in between.
HeaderFollowsAttributes ==
    \A j \in Jobs :
        /\ jobStage[j] \in {"pre", "next_tx", "execute", "store", "built"}
        /\ ~disturbed[j]
        => /\ envBaseFee[j] = attrs[j].base_fee_per_gas
           /\ ctxExtraData[j] = attrs[j].extra_data

\* An attempt dies, in to::<u64>() or in effective_tip_per_gas(base_fee)
\* .expect(..), only for a base fee above 64 bits or when another job used the
\* slots between the job's setting and reading them.
PanicsExplained ==
    \A j \in Jobs : jobStage[j] = "panicked" =>
        disturbed[j] \/ attrs[j].base_fee_per_gas > U64_MAX

\* The members of s stand in list in the same order, each at a place of its own.
Selects(s, list) == \E at \in [DOMAIN s -> DOMAIN list] :
    /\ \A i \in DOMAIN s : s[i] = list[at[i]]
    /\ \A i, k \in DOMAIN s : i < k => at[i] < at[k]

\* The block a job finishes is made of its transaction list in the list's order,
\* some left out, no place used twice and nothing of an earlier attempt; and the
\* job has a number to store for each transaction of the block and no other,
\* whatever it skipped.
BlockFollowsList ==
    \A j \in Jobs : jobStage[j] \in {"store", "built"} =>
        /\ Selects(included[j], Transactions_Of(attrs[j]))
        /\ Len(transaction_numbers[j]) = Len(included[j])

\* Whenever a cleanup is announced it is eventually over.
ReorgEnds == reorg_in_progress ~> ~reorg_in_progress

\* Every call that came in is answered: no handler waits for ever on the
\* engine, the pool or another handler.
EveryCallReturns ==
    /\ \A s \in SendCalls : sendStage[s] = "decode" ~> sendStage[s] = "done"
    /\ \A c \in FcuCalls : stage[c] = "fcu_inner" ~> stage[c] = "done"
    /\ \A c \in NewPayloadCalls : stage[c] = "np_inner" ~> stage[c] = "done"

------------------------------------------------------------------------------
(* Refinement                                                              *)

\* The successors of the block numbers.
NextNumbers == {Number[b] + 1 : b \in Blocks}

Ledger == INSTANCE NumberLedger
    WITH number <- mapping, given <- submitted, Numbers <- NextNumbers

\* The table of numbers behaves as NumberLedger promises under every
\* interleaving of its users.
LedgerSpec == Ledger!Spec
==============================================================================
