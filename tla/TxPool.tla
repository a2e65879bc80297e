------------------------------- MODULE TxPool -------------------------------
(***************************************************************************)
(* crates/txpool: the cleanup after a forkchoice update                    *)
(* (handle_kasplex_pool_reorg) and the removal of the transactions of a    *)
(* block (remove_included_transactions), step by step.  Neither holds a    *)
(* lock between its steps: the pool is copied under its lock, the number   *)
(* of each transaction is read under the lock of the table, one at a time, *)
(* and the removal locks the pool again.                                   *)
(* The pool itself is reth's (external): two disjoint sets of hashes.      *)
(***************************************************************************)
EXTENDS TxMapping, Sequences

CONSTANTS
    FcuCalls,          \* engine_forkchoiceUpdated calls, each handled once
    NewPayloadCalls,   \* engine_newPayload calls, each handled once
    IsKasplex,         \* chain_spec.is_kasplex()
    FreeTxs            \* transactions that also come, move and go on their own

ASSUME TxPoolAssumption ==
    /\ FcuCalls \cap NewPayloadCalls = {}
    /\ None \notin FcuCalls \cup NewPayloadCalls
    /\ IsKasplex \in BOOLEAN
    /\ FreeTxs \subseteq TxHashes

VARIABLES
    pending, queued,   \* the pool
    stage,             \* call -> where its handler is
    newHead,           \* fcu call -> new_head_number
    pendingHashes,     \* fcu call -> pending_hashes still to check
    queuedHashes,      \* fcu call -> queued_hashes still to check
    toRemove           \* call -> txs_to_remove

poolVars == <<pending, queued>>
callVars == <<stage, newHead, pendingHashes, queuedHashes, toRemove>>

Calls == FcuCalls \cup NewPayloadCalls

Pool == pending \cup queued

\* The stages of handle_kasplex_pool_reorg, entry and exit included, those of
\* remove_included_transactions, and those of the handlers that call them.
CleanupStages == {"cleanup", "snapshot", "check", "remove", "finish", "cleaned"}
FcuStages == {"idle", "fcu_inner", "fcu_lookup", "done"} \cup CleanupStages
NewPayloadStages ==
    {"idle", "np_inner", "np_take", "np_lookup", "included", "remove_included",
     "removed", "done"}

TxPoolTypeOK ==
    /\ pending \in SUBSET TxHashes
    /\ queued \in SUBSET TxHashes
    /\ pending \cap queued = {}
    /\ stage \in [Calls -> FcuStages \cup NewPayloadStages]
    /\ \A c \in FcuCalls : stage[c] \in FcuStages
    /\ \A c \in NewPayloadCalls : stage[c] \in NewPayloadStages
    /\ newHead \in [FcuCalls -> Nat]
    /\ pendingHashes \in [FcuCalls -> SUBSET TxHashes]
    /\ queuedHashes \in [FcuCalls -> SUBSET TxHashes]
    /\ toRemove \in [Calls -> SUBSET TxHashes]

TxPoolInit ==
    /\ pending = {}
    /\ queued = {}
    /\ stage = [c \in Calls |-> "idle"]
    /\ newHead = [c \in FcuCalls |-> 0]
    /\ pendingHashes = [c \in FcuCalls |-> {}]
    /\ queuedHashes = [c \in FcuCalls |-> {}]
    /\ toRemove = [c \in Calls |-> {}]

Goto(c, s) == stage' = [stage EXCEPT ![c] = s]

------------------------------------------------------------------------------
(* reth's pool (external).                                                 *)

\* add_transaction succeeds: the transaction lands in one of the sub-pools.
AddToPool(t) ==
    /\ t \notin Pool
    /\ \/ pending' = pending \cup {t} /\ UNCHANGED queued
       \/ queued' = queued \cup {t} /\ UNCHANGED pending

\* remove_transactions(hashes); hashes the pool no longer has are ignored.
RemoveFromPool(hashes) ==
    /\ pending' = pending \ hashes
    /\ queued' = queued \ hashes

\* A transaction is promoted or demoted by a change of its sender's state.
PoolMoves(t) ==
    /\ t \in Pool
    /\ \/ t \in pending /\ pending' = pending \ {t} /\ queued' = queued \cup {t}
       \/ t \in queued /\ queued' = queued \ {t} /\ pending' = pending \cup {t}
    /\ UNCHANGED <<mappingVars, callVars>>

\* A transaction is mined, replaced or evicted.
PoolDrops(t) ==
    /\ t \in Pool
    /\ RemoveFromPool({t})
    /\ UNCHANGED <<mappingVars, callVars>>

\* A transaction arrives from the backup file at startup, over the network, by
\* eth_sendRawTransaction (rpc/src/eth/types.rs) or by re-injection after a
\* reorg: no number.
PoolReceives(t) ==
    /\ AddToPool(t)
    /\ UNCHANGED <<mappingVars, callVars>>

\* The process stops and a new one starts (external): reth reads local
\* transactions back from its backup file, the calls under way are over.
PoolRestart ==
    /\ pending' \in SUBSET Pool
    /\ queued' \in SUBSET (Pool \ pending')
    /\ stage' = [c \in Calls |-> IF stage[c] = "idle" THEN "idle" ELSE "done"]
    /\ newHead' = [c \in FcuCalls |-> 0]
    /\ pendingHashes' = [c \in FcuCalls |-> {}]
    /\ queuedHashes' = [c \in FcuCalls |-> {}]
    /\ toRemove' = [c \in Calls |-> {}]

------------------------------------------------------------------------------
(* is_transaction_expired_for_pool and the rule inside the cleanup loops.  *)

Expired(number, block) == number + UNEXECUTED_TX_RETENTION_BLOCKS < block
InFuture(number, block) == number > block

is_transaction_expired_for_pool(t, block) ==
    /\ get_submission_block(t) # None
    /\ Expired(mapping[t], block) \/ InFuture(mapping[t], block)

\* Bug: a missing number, read as 0, is treated as a number.
MustGo_NoZeroGuard(number, block) ==
    Expired(number, block) \/ InFuture(number, block)

\* Bug: the last block of the window counts as outside it.
MustGo_OffByOne(number, block) ==
    /\ number > 0
    /\ number + UNEXECUTED_TX_RETENTION_BLOCKS <= block \/ InFuture(number, block)

\* Does the cleanup for this head remove a transaction with this number?
MustGo(number, block) ==
    /\ number > 0
    /\ Expired(number, block) \/ InFuture(number, block)

------------------------------------------------------------------------------
(* handle_kasplex_pool_reorg(provider, pool, tx_mapping, newHead[c])       *)

CleanupStart(c) ==
    /\ stage[c] = "cleanup"
    /\ IF IsKasplex
       THEN Goto(c, "snapshot") /\ mark_start_pool_reorg
       ELSE Goto(c, "cleaned") /\ UNCHANGED mappingVars
    /\ UNCHANGED <<poolVars, newHead, pendingHashes, queuedHashes, toRemove>>

\* Bug: only the pending sub-pool is copied.
CleanupSnapshot_PendingOnly(c) ==
    /\ stage[c] = "snapshot"
    /\ Goto(c, "check")
    /\ pendingHashes' = [pendingHashes EXCEPT ![c] = pending]
    /\ UNCHANGED <<mappingVars, poolVars, newHead, queuedHashes, toRemove>>

CleanupSnapshot(c) ==
    /\ stage[c] = "snapshot"
    /\ Goto(c, "check")
    /\ pendingHashes' = [pendingHashes EXCEPT ![c] = pending]
    /\ queuedHashes' = [queuedHashes EXCEPT ![c] = queued]
    /\ UNCHANGED <<mappingVars, poolVars, newHead, toRemove>>

\* The body of either loop: read the number, decide.
CheckTx(c, t) ==
    toRemove' = IF MustGo(NumberOrZero(t), newHead[c])
                THEN [toRemove EXCEPT ![c] = @ \cup {t}]
                ELSE toRemove

CleanupCheckPending(c) == \E t \in pendingHashes[c] :
    /\ stage[c] = "check"
    /\ CheckTx(c, t)
    /\ pendingHashes' = [pendingHashes EXCEPT ![c] = @ \ {t}]
    /\ UNCHANGED <<mappingVars, poolVars, stage, newHead, queuedHashes>>

CleanupCheckQueued(c) == \E t \in queuedHashes[c] :
    /\ stage[c] = "check"
    /\ pendingHashes[c] = {}
    /\ CheckTx(c, t)
    /\ queuedHashes' = [queuedHashes EXCEPT ![c] = @ \ {t}]
    /\ UNCHANGED <<mappingVars, poolVars, stage, newHead, pendingHashes>>

\* Bug: the queued hashes are not waited for.
CleanupChecked_Early(c) ==
    /\ stage[c] = "check"
    /\ pendingHashes[c] = {}
    /\ Goto(c, IF toRemove[c] = {} THEN "finish" ELSE "remove")
    /\ UNCHANGED <<mappingVars, poolVars, newHead, pendingHashes, queuedHashes,
                   toRemove>>

\* Bug: with nothing to remove the function returns at once.
CleanupChecked_EarlyReturn(c) ==
    /\ stage[c] = "check"
    /\ pendingHashes[c] = {} /\ queuedHashes[c] = {}
    /\ Goto(c, IF toRemove[c] = {} THEN "cleaned" ELSE "remove")
    /\ UNCHANGED <<mappingVars, poolVars, newHead, pendingHashes, queuedHashes,
                   toRemove>>

CleanupChecked(c) ==
    /\ stage[c] = "check"
    /\ pendingHashes[c] = {} /\ queuedHashes[c] = {}
    /\ Goto(c, IF toRemove[c] = {} THEN "finish" ELSE "remove")
    /\ UNCHANGED <<mappingVars, poolVars, newHead, pendingHashes, queuedHashes,
                   toRemove>>

CleanupRemove(c) ==
    /\ stage[c] = "remove"
    /\ RemoveFromPool(toRemove[c])
    /\ Goto(c, "finish")
    /\ UNCHANGED <<mappingVars, newHead, pendingHashes, queuedHashes, toRemove>>

CleanupFinish(c) ==
    /\ stage[c] = "finish"
    /\ mark_pool_reorged
    /\ Goto(c, "cleaned")
    /\ toRemove' = [toRemove EXCEPT ![c] = {}]
    /\ UNCHANGED <<poolVars, newHead, pendingHashes, queuedHashes>>

CleanupStep(c) ==
    \/ CleanupStart(c) \/ CleanupSnapshot(c) \/ CleanupCheckPending(c)
    \/ CleanupCheckQueued(c) \/ CleanupChecked(c) \/ CleanupRemove(c)
    \/ CleanupFinish(c)

------------------------------------------------------------------------------
(* remove_included_transactions(pool, block, tx_mapping), where txs are    *)
(* the transactions of the block.                                          *)

\* Bug: transactions parked in the queued sub-pool are overlooked.
IncludedSnapshot_PendingOnly(c, txs) ==
    /\ stage[c] = "included"
    /\ toRemove' = [toRemove EXCEPT ![c] = pending \cap txs]
    /\ Goto(c, IF pending \cap txs = {} THEN "removed" ELSE "remove_included")
    /\ UNCHANGED <<mappingVars, poolVars, newHead, pendingHashes, queuedHashes>>

IncludedSnapshot(c, txs) ==
    /\ stage[c] = "included"
    /\ toRemove' = [toRemove EXCEPT ![c] = Pool \cap txs]
    /\ Goto(c, IF Pool \cap txs = {} THEN "removed" ELSE "remove_included")
    /\ UNCHANGED <<mappingVars, poolVars, newHead, pendingHashes, queuedHashes>>

IncludedRemove(c) ==
    /\ stage[c] = "remove_included"
    /\ RemoveFromPool(toRemove[c])
    /\ toRemove' = [toRemove EXCEPT ![c] = {}]
    /\ Goto(c, "removed")
    /\ UNCHANGED <<mappingVars, newHead, pendingHashes, queuedHashes>>
==============================================================================
