-------------------------- MODULE KasplexNodeSafety --------------------------
(***************************************************************************)
(* Safety of the pool cleanup, of remove_included_transactions and of the  *)
(* configuration slots, for any number of concurrent calls and jobs.       *)
(* Each proof splits the steps of the node, for a call c, into those of    *)
(* c's own handler and the rest, which leave the locals of c alone (the    *)
(* lemmas *Frame) and at most change the pool and the table under it.      *)
(***************************************************************************)
EXTENDS KasplexNodeTypes

\* What only the handler of fcu call c writes.
FcuLocals(c) == <<stage[c], newHead[c], pendingHashes[c], queuedHashes[c], toRemove[c]>>

\* What only the handler of newPayload call c writes.
NewPayloadLocals(c) == <<stage[c], toRemove[c], npHash[c]>>

------------------------------------------------------------------------------
(* Frames                                                                  *)

\* A step of one forkchoiceUpdated call leaves the locals of the others alone.
LEMMA FcuStepFrame ==
    ASSUME TypeOK, NEW d \in FcuCalls, FcuStep(d)
    PROVE  /\ \A c \in FcuCalls \ {d} : UNCHANGED FcuLocals(c)
           /\ \A c \in NewPayloadCalls : UNCHANGED NewPayloadLocals(c)
<1> USE TxPoolAssumption DEF TypeOK, TxPoolTypeOK, Calls, Goto, FcuLocals, NewPayloadLocals
<1>1. CASE FcuApplied(d)
  BY <1>1 DEF FcuApplied, callLocals
<1>2. CASE FcuNotApplied(d)
  BY <1>2 DEF FcuNotApplied, callLocals, engineVars
<1>3. CASE FcuLookup(d)
  BY <1>3 DEF FcuLookup, engineVars
<1>4. CASE FcuEnds(d)
  BY <1>4 DEF FcuEnds
<1>5. CASE FcuCleanup(d)
  <2> USE DEF engineVars
  <2>1. UNCHANGED npHash
    BY <1>5 DEF FcuCleanup
  <2>2. CASE CleanupStart(d)
    BY <2>1, <2>2 DEF CleanupStart
  <2>3. CASE CleanupSnapshot(d)
    BY <2>1, <2>3 DEF CleanupSnapshot
  <2>4. CASE CleanupCheckPending(d)
    BY <2>1, <2>4 DEF CleanupCheckPending, CheckTx
  <2>5. CASE CleanupCheckQueued(d)
    BY <2>1, <2>5 DEF CleanupCheckQueued, CheckTx
  <2>6. CASE CleanupChecked(d)
    BY <2>1, <2>6 DEF CleanupChecked
  <2>7. CASE CleanupRemove(d)
    BY <2>1, <2>7 DEF CleanupRemove
  <2>8. CASE CleanupFinish(d)
    BY <2>1, <2>8 DEF CleanupFinish
  <2> QED
    BY <1>5, <2>2, <2>3, <2>4, <2>5, <2>6, <2>7, <2>8 DEF FcuCleanup, CleanupStep
<1> QED
  BY <1>1, <1>2, <1>3, <1>4, <1>5
  DEF FcuStep, FcuFails, FcuFindsNoHead, FcuReturns

\* A step of one newPayload call leaves the locals of every other call alone.
LEMMA NewPayloadStepFrame ==
    ASSUME TypeOK, NEW d \in NewPayloadCalls, NewPayloadStep(d)
    PROVE  /\ \A c \in FcuCalls : UNCHANGED FcuLocals(c)
           /\ \A c \in NewPayloadCalls \ {d} : UNCHANGED NewPayloadLocals(c)
           /\ UNCHANGED reorg_in_progress
<1> USE TxPoolAssumption
    DEF TypeOK, TxPoolTypeOK, EngineApiTypeOK, Calls, Goto, FcuLocals,
        NewPayloadLocals, callLocals, mappingVars
<1>1. CASE NewPayloadConvert(d)
  BY <1>1 DEF NewPayloadConvert
<1>2. CASE NewPayloadUnconverted(d)
  BY <1>2 DEF NewPayloadUnconverted, engineVars
<1>3. CASE NewPayloadTakesNumber(d)
  BY <1>3 DEF NewPayloadTakesNumber, get_tx_number, callVars
<1>4. CASE NewPayloadValid(d)
  BY <1>4 DEF NewPayloadValid
<1>5. CASE NewPayloadNotValid(d)
  BY <1>5 DEF NewPayloadNotValid
<1>6. CASE NewPayloadEnds(d)
  BY <1>6 DEF NewPayloadEnds
<1>7. CASE NewPayloadLookup(d)
  <2>1. CASE Goto(d, "included")
             /\ UNCHANGED <<mappingVars, poolVars, callLocals, chainVars, engineVars>>
    BY <2>1 DEF engineVars
  <2> QED
    BY <1>6, <1>7, <2>1 DEF NewPayloadLookup
<1>8. CASE NewPayloadRemoves(d)
  <2>1. CASE IncludedSnapshot(d, TxsOf(npHash[d]))
    BY <1>8, <2>1 DEF NewPayloadRemoves, IncludedSnapshot, engineVars
  <2>2. CASE IncludedRemove(d)
    BY <1>8, <2>2 DEF NewPayloadRemoves, IncludedRemove, engineVars
  <2> QED
    BY <1>8, <2>1, <2>2 DEF NewPayloadRemoves
<1> QED
  BY <1>1, <1>2, <1>3, <1>4, <1>5, <1>6, <1>7, <1>8
  DEF NewPayloadStep, NewPayloadFails, NewPayloadReturns

\* The auth RPC, jobs, block_to_payload and the pool itself leave the locals of
\* every engine call and the reorg flag alone.
LEMMA OthersFrame ==
    ASSUME \/ \E s \in SendCalls : SendHandler(s)
           \/ \E j \in Jobs : JobHandler(j)
           \/ \E v \in Conversions : ConversionHandler(v)
           \/ PoolEvent
    PROVE  UNCHANGED <<callVars, engineVars, reorg_in_progress>>
<1> USE DEF mappingVars
<1>1. ASSUME NEW s \in SendCalls, SendHandler(s)
      PROVE  UNCHANGED <<callVars, engineVars, reorg_in_progress>>
  BY <1>1
  DEF SendHandler, SendStep, SendRejects, SendReadsHeader, SendFindsNoHeader,
      SendInserts, SendAdds, SendFailsToAdd, SendReturns, insert
<1>2. ASSUME NEW j \in Jobs, JobHandler(j)
      PROVE  UNCHANGED <<callVars, engineVars, reorg_in_progress>>
  BY <1>2
  DEF JobHandler, JobStep, JobOverflows, JobFails, PreExecution, JobCancelled, ExtractNumber,
      ExecuteTx, SkipTx, FinishBlock, StoreNumber, JobBuilt, insert
<1>3. ASSUME NEW v \in Conversions, ConversionHandler(v)
      PROVE  UNCHANGED <<callVars, engineVars, reorg_in_progress>>
  BY <1>3
  DEF ConversionHandler, ConversionStep, ConversionReads, ConversionRead,
      ConversionWrites, ConversionReturns, insert
<1>4. CASE PoolEvent
  BY <1>4 DEF PoolEvent, PoolReceives, PoolMoves, PoolDrops
<1> QED
  BY <1>1, <1>2, <1>3, <1>4

\* An engine call that comes in leaves its first stage; nothing else changes for
\* the calls.
LEMMA RequestFrame ==
    ASSUME TypeOK, Request
    PROVE  /\ \A c \in FcuCalls :
                \/ UNCHANGED FcuLocals(c)
                \/ stage[c] = "idle" /\ stage'[c] = "fcu_inner" /\ UNCHANGED toRemove[c]
           /\ \A c \in NewPayloadCalls :
                \/ UNCHANGED NewPayloadLocals(c)
                \/ stage[c] = "idle" /\ stage'[c] = "np_inner"
           /\ UNCHANGED reorg_in_progress
<1> USE TxPoolAssumption
    DEF TypeOK, TxPoolTypeOK, EngineApiTypeOK, Calls, Goto, FcuLocals,
        NewPayloadLocals, callLocals, callVars, engineVars, mappingVars
<1>1. CASE \E s \in SendCalls : SendReceive(s) /\ UNCHANGED <<engineVars, builderVars>>
  BY <1>1 DEF SendReceive
<1>2. CASE \E c \in FcuCalls : FcuReceive(c)
  BY <1>2 DEF FcuReceive
<1>3. CASE \E c \in NewPayloadCalls : NewPayloadReceive(c)
  BY <1>3 DEF NewPayloadReceive
<1>4. CASE \E j \in Jobs : UNCHANGED <<mappingVars, callVars, engineVars>>
  BY <1>4
<1>5. CASE \E v \in Conversions :
             ConversionStarts(v) /\ UNCHANGED <<callVars, engineVars>>
  BY <1>5 DEF ConversionStarts
<1> QED
  BY <1>1, <1>2, <1>3, <1>4, <1>5 DEF Request

\* Call c is over, or yet to come, with nothing selected.
Emptied(c) == stage[c] \in {"idle", "done"} /\ toRemove[c] = {}

\* A restart ends every call and takes the reorg flag down.
LEMMA RestartFrame ==
    ASSUME Restart
    PROVE  (\A c \in Calls : Emptied(c)') /\ ~reorg_in_progress'
BY DEF Restart, PoolRestart, Emptied, TxMappingRestart, clear

\* A step of the node is one of fcu call c, its arrival, a restart, or leaves the
\* locals of c alone.
LEMMA FcuFrame ==
    ASSUME TypeOK, [Next]_vars, NEW c \in FcuCalls
    PROVE  \/ FcuHandler(c)
           \/ UNCHANGED FcuLocals(c)
           \/ stage[c] = "idle" /\ stage'[c] = "fcu_inner" /\ UNCHANGED toRemove[c]
           \/ Emptied(c)'
<1>1. CASE UNCHANGED vars \/ UNCHANGED callVars
  BY <1>1 DEF vars, callVars, FcuLocals
<1>2. CASE Request
  BY <1>2, RequestFrame
<1>3. ASSUME NEW d \in FcuCalls, FcuHandler(d)
      PROVE  FcuHandler(c) \/ UNCHANGED FcuLocals(c)
  BY <1>3, FcuStepFrame DEF FcuHandler
<1>4. CASE \E d \in NewPayloadCalls : NewPayloadHandler(d)
  BY <1>4, NewPayloadStepFrame DEF NewPayloadHandler
<1>5. CASE Restart
  BY <1>5, RestartFrame DEF Calls
<1> QED
  BY <1>1, <1>2, <1>3, <1>4, <1>5, OthersFrame DEF Next, Quiescent

\* The same for newPayload call c.
LEMMA NewPayloadFrame ==
    ASSUME TypeOK, [Next]_vars, NEW c \in NewPayloadCalls
    PROVE  \/ NewPayloadHandler(c)
           \/ UNCHANGED NewPayloadLocals(c)
           \/ stage[c] = "idle" /\ stage'[c] = "np_inner"
           \/ Emptied(c)'
<1>1. CASE UNCHANGED vars \/ UNCHANGED <<callVars, engineVars>>
  BY <1>1 DEF vars, callVars, engineVars, NewPayloadLocals
<1>2. CASE Request
  BY <1>2, RequestFrame
<1>3. CASE \E d \in FcuCalls : FcuHandler(d)
  BY <1>3, FcuStepFrame DEF FcuHandler
<1>4. ASSUME NEW d \in NewPayloadCalls, NewPayloadHandler(d)
      PROVE  NewPayloadHandler(c) \/ UNCHANGED NewPayloadLocals(c)
  BY <1>4, NewPayloadStepFrame DEF NewPayloadHandler
<1>5. CASE Restart
  BY <1>5, RestartFrame DEF Calls
<1> QED
  BY <1>1, <1>2, <1>3, <1>4, <1>5, OthersFrame DEF Next, Quiescent

------------------------------------------------------------------------------
(* The rule of the cleanup                                                 *)

\* The test in the loops of handle_kasplex_pool_reorg, two comparisons after
\* unwrap_or(0), is exactly "outside the window that ends at the new head".
LEMMA MustGoIsStale ==
    ASSUME NEW n \in Nat, NEW h \in Nat
    PROVE  MustGo(n, h) <=> Stale(n, h)
BY TxMappingAssumption DEF MustGo, Stale, Expired, InFuture

\* The helper is_transaction_expired_for_pool decides as the loops do, unless
\* the number on record is 0.
LEMMA HelperAgrees ==
    ASSUME TxMappingTypeOK, NEW t \in TxHashes, NEW h \in Nat, mapping[t] # 0
    PROVE  is_transaction_expired_for_pool(t, h) <=> MustGo(NumberOrZero(t), h)
BY TxMappingAssumption
DEF is_transaction_expired_for_pool, get_submission_block, MustGo, NumberOrZero,
    TxMappingTypeOK

------------------------------------------------------------------------------
(* The cleanup                                                             *)

\* Fcu call c has selected only stale transactions, and holds a selection only
\* while it works on one.
SoundFor(c) ==
    /\ toRemove[c] \subseteq staleAt[c]
    /\ stage[c] \notin {"check", "remove", "finish"} => toRemove[c] = {}

\* Everything in the pool is spared, still to check, or selected; less and less
\* of the latter two as the cleanup goes on.
CompleteFor(c) ==
    /\ stage[c] = "check" =>
         Pool \subseteq spared[c] \cup pendingHashes[c] \cup queuedHashes[c] \cup toRemove[c]
    /\ stage[c] = "remove" => Pool \subseteq spared[c] \cup toRemove[c]
    /\ stage[c] \in {"finish", "cleaned"} /\ IsKasplex => Pool \subseteq spared[c]

CleanupInv == \A c \in FcuCalls : SoundFor(c) /\ CompleteFor(c)

\* While a call goes on with its copy of the pool, staleAt only grows, and spared
\* gains whatever comes into the pool or is not stale.
LEMMA HistoryGrows ==
    ASSUME TypeOK, [Next]_vars, NEW c \in FcuCalls, stage'[c] \in Watching
    PROVE  /\ staleAt[c] \subseteq staleAt'[c]
           /\ spared[c] \cup (Pool' \ Pool) \subseteq spared'[c]
<1>1. CASE Track
  BY <1>1 DEF Track, Calls
<1>2. CASE UNCHANGED vars
  BY <1>2 DEF vars, historyVars, poolVars, Pool
<1> QED
  BY <1>1, <1>2, StepTracks

\* A step that is not one of c's handler keeps the invariant for c.
LEMMA CleanupOthers ==
    ASSUME TypeOK, TypeOK', [Next]_vars, NEW c \in FcuCalls, SoundFor(c), CompleteFor(c),
           \/ UNCHANGED FcuLocals(c)
           \/ stage[c] = "idle" /\ stage'[c] = "fcu_inner" /\ UNCHANGED toRemove[c]
           \/ Emptied(c)'
    PROVE  SoundFor(c)' /\ CompleteFor(c)'
<1>1. CASE stage[c] = "idle" /\ stage'[c] = "fcu_inner" /\ UNCHANGED toRemove[c]
  BY <1>1 DEF SoundFor, CompleteFor
<1>3. CASE Emptied(c)'
  BY <1>3 DEF Emptied, SoundFor, CompleteFor
<1>2. CASE UNCHANGED FcuLocals(c)
  <2>1. UNCHANGED <<stage[c], pendingHashes[c], queuedHashes[c], toRemove[c]>>
    BY <1>2 DEF FcuLocals
  <2>2. CASE stage[c] \notin Watching
    BY <2>1, <2>2 DEF SoundFor, CompleteFor, Watching
  <2>3. CASE stage[c] \in Watching
    <3>1. /\ staleAt[c] \subseteq staleAt'[c]
          /\ spared[c] \cup (Pool' \ Pool) \subseteq spared'[c]
      BY <2>1, <2>3, HistoryGrows
    <3>2. SoundFor(c)'
      BY <2>1, <3>1 DEF SoundFor
    <3>3. CompleteFor(c)'
      BY <2>1, <3>1 DEF CompleteFor
    <3> QED
      BY <3>2, <3>3
  <2> QED
    BY <2>2, <2>3
<1> QED
  BY <1>1, <1>2, <1>3

\* The body of the loops: t is selected if it is stale, and spared if not.
LEMMA CheckTxDecides ==
    ASSUME TypeOK, NEW c \in FcuCalls, NEW t \in TxHashes, CheckTx(c, t), Track,
           UNCHANGED <<mapping, stage, newHead>>, stage[c] = "check"
    PROVE  /\ toRemove'[c] \subseteq toRemove[c] \cup staleAt'[c]
           /\ toRemove[c] \subseteq toRemove'[c]
           /\ t \in toRemove'[c] \cup spared'[c]
<1>1. NumberOrZero(t) \in Nat /\ newHead[c] \in Nat
  BY NumberIsNat DEF TypeOK, TxPoolTypeOK
<1>2. MustGo(NumberOrZero(t), newHead[c]) <=> t \in StaleFor(c)
  BY <1>1, MustGoIsStale DEF StaleFor
<1>3. StaleFor(c)' = StaleFor(c)
  BY DEF StaleFor, NumberOrZero
<1>4. staleAt'[c] = staleAt[c] \cup StaleFor(c)
  BY <1>3 DEF Track, Watching
<1>5. TxHashes \ StaleFor(c) \subseteq spared'[c]
  BY <1>3 DEF Track, Watching, Calls
<1>6. toRemove'[c] = IF t \in StaleFor(c) THEN toRemove[c] \cup {t} ELSE toRemove[c]
  BY <1>2 DEF CheckTx, TypeOK, TxPoolTypeOK, Calls
<1> QED
  BY <1>4, <1>5, <1>6

\* A step of c's handler keeps the invariant for c.
LEMMA CleanupOwn ==
    ASSUME TypeOK, TypeOK', NEW c \in FcuCalls, SoundFor(c), CompleteFor(c), FcuHandler(c)
    PROVE  SoundFor(c)' /\ CompleteFor(c)'
<1>1. FcuStep(c) /\ Track
  BY DEF FcuHandler
<1>2. ASSUME stage'[c] \in Watching
      PROVE  /\ staleAt[c] \subseteq staleAt'[c]
             /\ spared[c] \cup (Pool' \ Pool) \subseteq spared'[c]
  BY <1>1, <1>2 DEF Track, Calls
<1>3. ASSUME NEW st, stage' = [stage EXCEPT ![c] = st]
      PROVE  stage'[c] = st
  BY <1>3 DEF TypeOK, TxPoolTypeOK, Calls
<1> USE DEF Goto
<1>4. CASE FcuApplied(c) \/ FcuNotApplied(c)
  BY <1>3, <1>4 DEF FcuApplied, FcuNotApplied, callLocals, SoundFor, CompleteFor
<1>5. CASE FcuLookup(c)
  BY <1>3, <1>5 DEF FcuLookup, SoundFor, CompleteFor
<1>6. CASE FcuEnds(c) /\ stage[c] \in {"fcu_inner", "fcu_lookup", "cleaned"}
  BY <1>3, <1>6 DEF FcuEnds, SoundFor, CompleteFor
<1>7. CASE CleanupStart(c)
  BY <1>3, <1>7 DEF CleanupStart, SoundFor, CompleteFor
<1>8. CASE CleanupSnapshot(c)
  <2>1. stage'[c] = "check" /\ UNCHANGED toRemove
    BY <1>3, <1>8 DEF CleanupSnapshot
  <2>2. pendingHashes'[c] = pending /\ queuedHashes'[c] = queued /\ UNCHANGED Pool
    BY <1>8 DEF CleanupSnapshot, poolVars, Pool, TypeOK, TxPoolTypeOK
  <2> QED
    BY <1>8, <2>1, <2>2 DEF CleanupSnapshot, SoundFor, CompleteFor, Pool
<1>9. CASE CleanupCheckPending(c)
  <2>1. PICK t \in pendingHashes[c] :
          /\ CheckTx(c, t)
          /\ pendingHashes' = [pendingHashes EXCEPT ![c] = @ \ {t}]
    BY <1>9 DEF CleanupCheckPending
  <2>2. stage[c] = "check" /\ UNCHANGED <<mapping, stage, newHead, queuedHashes, Pool>>
    BY <1>9 DEF CleanupCheckPending, mappingVars, poolVars, Pool
  <2>3. t \in TxHashes /\ pendingHashes'[c] = pendingHashes[c] \ {t}
    BY <2>1 DEF TypeOK, TxPoolTypeOK
  <2>4. /\ toRemove'[c] \subseteq toRemove[c] \cup staleAt'[c]
        /\ toRemove[c] \subseteq toRemove'[c]
        /\ t \in toRemove'[c] \cup spared'[c]
    BY <1>1, <2>1, <2>2, <2>3, CheckTxDecides
  <2> QED
    BY <1>2, <2>2, <2>3, <2>4 DEF SoundFor, CompleteFor, Watching
<1>10. CASE CleanupCheckQueued(c)
  <2>1. PICK t \in queuedHashes[c] :
          /\ CheckTx(c, t)
          /\ queuedHashes' = [queuedHashes EXCEPT ![c] = @ \ {t}]
    BY <1>10 DEF CleanupCheckQueued
  <2>2. stage[c] = "check" /\ UNCHANGED <<mapping, stage, newHead, pendingHashes, Pool>>
    BY <1>10 DEF CleanupCheckQueued, mappingVars, poolVars, Pool
  <2>3. t \in TxHashes /\ queuedHashes'[c] = queuedHashes[c] \ {t}
    BY <2>1 DEF TypeOK, TxPoolTypeOK
  <2>4. /\ toRemove'[c] \subseteq toRemove[c] \cup staleAt'[c]
        /\ toRemove[c] \subseteq toRemove'[c]
        /\ t \in toRemove'[c] \cup spared'[c]
    BY <1>1, <2>1, <2>2, <2>3, CheckTxDecides
  <2> QED
    BY <1>2, <2>2, <2>3, <2>4 DEF SoundFor, CompleteFor, Watching
<1>11. CASE CleanupChecked(c)
  <2>1. /\ stage[c] = "check" /\ pendingHashes[c] = {} /\ queuedHashes[c] = {}
        /\ stage'[c] = IF toRemove[c] = {} THEN "finish" ELSE "remove"
        /\ UNCHANGED <<toRemove, Pool>>
    BY <1>3, <1>11 DEF CleanupChecked, poolVars, Pool
  <2> QED
    BY <1>2, <2>1 DEF SoundFor, CompleteFor, Watching
<1>12. CASE CleanupRemove(c)
  <2>1. /\ stage[c] = "remove" /\ stage'[c] = "finish" /\ UNCHANGED toRemove
        /\ Pool' = Pool \ toRemove[c]
    BY <1>3, <1>12 DEF CleanupRemove, RemoveFromPool, Pool
  <2> QED
    BY <1>2, <2>1 DEF SoundFor, CompleteFor, Watching
<1>13. CASE CleanupFinish(c)
  <2>1. /\ stage[c] = "finish" /\ stage'[c] = "cleaned" /\ UNCHANGED Pool
        /\ toRemove'[c] = {}
    BY <1>3, <1>13 DEF CleanupFinish, poolVars, Pool, TypeOK, TxPoolTypeOK, Calls
  <2> QED
    BY <1>2, <2>1 DEF SoundFor, CompleteFor, Watching
<1> QED
  BY <1>1, <1>4, <1>5, <1>6, <1>7, <1>8, <1>9, <1>10, <1>11, <1>12, <1>13
  DEF FcuStep, FcuFails, FcuFindsNoHead, FcuReturns, FcuCleanup, CleanupStep

\* However forkchoice updates overlap with each other, with submissions, with
\* payload jobs and with the pool's own changes: a cleanup selects only stale
\* transactions, and everything else in the pool when it ends is spared.
THEOREM CleanupCorrect == Spec => []CleanupInv
<1>1. Init => CleanupInv
  BY DEF Init, TxPoolInit, CleanupInv, SoundFor, CompleteFor, Calls
<1>2. TypeOK /\ TypeOK' /\ CleanupInv /\ [Next]_vars => CleanupInv'
  <2> SUFFICES ASSUME TypeOK, TypeOK', CleanupInv, [Next]_vars, NEW c \in FcuCalls
               PROVE  SoundFor(c)' /\ CompleteFor(c)'
    BY DEF CleanupInv
  <2> QED
    BY FcuFrame, CleanupOthers, CleanupOwn DEF CleanupInv
<1> QED
  BY <1>1, <1>2, TypeOKHolds, PTL DEF Spec

\* A cleanup never selects a transaction that was inside the window of its head,
\* or had no number, all the time since it copied the pool (CleanupSound).
THEOREM CleanupSoundHolds == Spec => []CleanupSound
<1>1. CleanupInv => CleanupSound
  BY DEF CleanupInv, SoundFor, CleanupSound
<1> QED
  BY <1>1, CleanupCorrect, PTL

\* No stale transaction that was in the pool when the cleanup copied it, and
\* stayed stale, is there when the cleanup ends (CleanupComplete).
THEOREM CleanupCompleteHolds == Spec => []CleanupComplete
<1>1. CleanupInv => CleanupComplete
  BY DEF CleanupInv, CompleteFor, CleanupComplete
<1> QED
  BY <1>1, CleanupCorrect, PTL

------------------------------------------------------------------------------
(* remove_included_transactions                                            *)

\* The transactions of the block that are in the pool are selected or came back.
IncludedFor(c) ==
    /\ stage[c] = "remove_included" =>
         Pool \cap TxsOf(npHash[c]) \subseteq spared[c] \cup toRemove[c]
    /\ stage[c] = "removed" => Pool \cap TxsOf(npHash[c]) \subseteq spared[c]

IncludedInv == \A c \in NewPayloadCalls : IncludedFor(c)

\* A step that is not one of c's handler keeps the invariant for c.
LEMMA IncludedOthers ==
    ASSUME [Next]_vars, NEW c \in NewPayloadCalls, IncludedFor(c),
           \/ UNCHANGED NewPayloadLocals(c)
           \/ stage[c] = "idle" /\ stage'[c] = "np_inner"
           \/ Emptied(c)'
    PROVE  IncludedFor(c)'
<1>1. CASE stage'[c] \in {"remove_included", "removed"}
  <2>1. UNCHANGED <<stage[c], toRemove[c], npHash[c]>>
    BY <1>1 DEF NewPayloadLocals, Emptied
  <2>2. TxsOf(npHash[c])' = TxsOf(npHash[c])
    BY <2>1 DEF TxsOf
  <2>3. spared[c] \cup (Pool' \ Pool) \subseteq spared'[c]
    <3>1. CASE Track
      BY <1>1, <3>1 DEF Track, Calls, Watching
    <3>2. CASE UNCHANGED vars
      BY <3>2 DEF vars, historyVars, poolVars, Pool
    <3> QED
      BY <3>1, <3>2, StepTracks
  <2> QED
    BY <2>1, <2>2, <2>3 DEF IncludedFor
<1> QED
  BY <1>1 DEF IncludedFor

\* A step of c's handler keeps the invariant for c.
LEMMA IncludedOwn ==
    ASSUME TypeOK, NEW c \in NewPayloadCalls, IncludedFor(c), NewPayloadHandler(c)
    PROVE  IncludedFor(c)'
<1>1. NewPayloadStep(c) /\ Track
  BY DEF NewPayloadHandler
<1>2. ASSUME NEW st, stage' = [stage EXCEPT ![c] = st]
      PROVE  stage'[c] = st
  BY <1>2 DEF TypeOK, TxPoolTypeOK, Calls
<1> USE DEF Goto
<1>3. CASE NewPayloadRemoves(c)
  <2>1. TxsOf(npHash[c])' = TxsOf(npHash[c])
    BY <1>3 DEF NewPayloadRemoves, engineVars, TxsOf
  <2>2. ASSUME stage'[c] \in {"remove_included", "removed"}
        PROVE  spared[c] \cup (Pool' \ Pool) \subseteq spared'[c]
    BY <1>1, <2>2 DEF Track, Calls, Watching
  <2>3. CASE IncludedSnapshot(c, TxsOf(npHash[c]))
    <3>1. /\ stage'[c] = IF Pool \cap TxsOf(npHash[c]) = {} THEN "removed"
                         ELSE "remove_included"
          /\ toRemove'[c] = Pool \cap TxsOf(npHash[c])
          /\ UNCHANGED Pool
      BY <1>2, <2>3 DEF IncludedSnapshot, poolVars, Pool, TypeOK, TxPoolTypeOK, Calls
    <3> QED
      BY <2>1, <3>1 DEF IncludedFor
  <2>4. CASE IncludedRemove(c)
    <3>1. /\ stage[c] = "remove_included" /\ stage'[c] = "removed"
          /\ Pool' = Pool \ toRemove[c]
      BY <1>2, <2>4 DEF IncludedRemove, RemoveFromPool, Pool
    <3> QED
      BY <2>1, <2>2, <3>1 DEF IncludedFor
  <2> QED
    BY <1>3, <2>3, <2>4 DEF NewPayloadRemoves
<1>4. CASE stage'[c] \notin {"remove_included", "removed"}
  BY <1>4 DEF IncludedFor
<1>5. CASE NewPayloadConvert(c) \/ NewPayloadUnconverted(c) \/ NewPayloadValid(c)
           \/ NewPayloadNotValid(c)
  BY <1>2, <1>4, <1>5
  DEF NewPayloadConvert, NewPayloadUnconverted, NewPayloadValid, NewPayloadNotValid
<1>6. CASE NewPayloadTakesNumber(c)
  BY <1>4, <1>6 DEF NewPayloadTakesNumber, callVars
<1>7. CASE NewPayloadEnds(c) \/ NewPayloadLookup(c)
  BY <1>2, <1>4, <1>7 DEF NewPayloadEnds, NewPayloadLookup
<1> QED
  BY <1>1, <1>3, <1>5, <1>6, <1>7
  DEF NewPayloadStep, NewPayloadFails, NewPayloadReturns

\* After remove_included_transactions a transaction of the block is in the pool
\* only if it came back after the pool was copied (IncludedLeavePool).
THEOREM IncludedLeavePoolHolds == Spec => []IncludedLeavePool
<1>1. Init => IncludedInv
  BY DEF Init, TxPoolInit, IncludedInv, IncludedFor, Calls
<1>2. TypeOK /\ IncludedInv /\ [Next]_vars => IncludedInv'
  <2> SUFFICES ASSUME TypeOK, IncludedInv, [Next]_vars, NEW c \in NewPayloadCalls
               PROVE  IncludedFor(c)'
    BY DEF IncludedInv
  <2> QED
    BY NewPayloadFrame, IncludedOthers, IncludedOwn DEF IncludedInv
<1>3. IncludedInv => IncludedLeavePool
  BY DEF IncludedInv, IncludedFor, IncludedLeavePool
<1> QED
  BY <1>1, <1>2, <1>3, TypeOKHolds, PTL DEF Spec

------------------------------------------------------------------------------
(* The reorg flag                                                          *)

\* Between mark_start_pool_reorg and mark_pool_reorged.
Cleaning(c) == stage[c] \in {"snapshot", "check", "remove", "finish"}

\* Whatever the step, the flag is down or some call is still cleaning.
LEMMA ReorgOwn ==
    ASSUME TypeOK, NEW c \in FcuCalls, FcuStep(c), ReportedReorgIsReal
    PROVE  ReportedReorgIsReal'
<1>1. \A d \in FcuCalls \ {c} : UNCHANGED stage[d]
  BY FcuStepFrame DEF FcuLocals
<1>2. ASSUME UNCHANGED reorg_in_progress, Cleaning(c) => Cleaning(c)'
      PROVE  ReportedReorgIsReal'
  BY <1>1, <1>2 DEF ReportedReorgIsReal, Cleaning
<1>3. ASSUME NEW st, stage' = [stage EXCEPT ![c] = st]
      PROVE  stage'[c] = st
  BY <1>3 DEF TypeOK, TxPoolTypeOK, Calls
<1> USE DEF Goto, Cleaning, mappingVars
<1>4. CASE CleanupStart(c)
  <2>1. CASE IsKasplex
    BY <1>3, <1>4, <2>1 DEF CleanupStart, ReportedReorgIsReal
  <2>2. CASE ~IsKasplex
    BY <1>2, <1>4, <2>2 DEF CleanupStart
  <2> QED
    BY <2>1, <2>2
<1>5. CASE CleanupFinish(c)
  BY <1>5 DEF CleanupFinish, mark_pool_reorged, ReportedReorgIsReal
<1>6. CASE CleanupSnapshot(c) \/ CleanupChecked(c) \/ CleanupRemove(c)
  BY <1>2, <1>3, <1>6 DEF CleanupSnapshot, CleanupChecked, CleanupRemove
<1>7. CASE CleanupCheckPending(c) \/ CleanupCheckQueued(c)
  BY <1>2, <1>7 DEF CleanupCheckPending, CleanupCheckQueued
<1>8. CASE FcuApplied(c) \/ FcuNotApplied(c) \/ FcuLookup(c)
  BY <1>2, <1>8 DEF FcuApplied, FcuNotApplied, FcuLookup
<1>9. CASE FcuEnds(c) /\ stage[c] \in {"fcu_inner", "fcu_lookup", "cleaned"}
  BY <1>2, <1>9 DEF FcuEnds
<1> QED
  BY <1>4, <1>5, <1>6, <1>7, <1>8, <1>9
  DEF FcuStep, FcuFails, FcuFindsNoHead, FcuReturns, FcuCleanup, CleanupStep

\* reorg_in_progress never outlives the cleanups that set it, however many
\* forkchoice updates overlap (ReportedReorgIsReal).
THEOREM ReportedReorgIsRealHolds == Spec => []ReportedReorgIsReal
<1>1. Init => ReportedReorgIsReal
  BY DEF Init, TxMappingInit, ReportedReorgIsReal
<1>2. TypeOK /\ ReportedReorgIsReal /\ [Next]_vars => ReportedReorgIsReal'
  <2> SUFFICES ASSUME TypeOK, ReportedReorgIsReal, [Next]_vars
               PROVE  ReportedReorgIsReal'
    OBVIOUS
  <2>1. ASSUME UNCHANGED reorg_in_progress,
               \A c \in FcuCalls : Cleaning(c) => UNCHANGED stage[c]
        PROVE  ReportedReorgIsReal'
    BY <2>1 DEF ReportedReorgIsReal, Cleaning
  <2>2. CASE UNCHANGED vars \/ UNCHANGED <<callVars, reorg_in_progress>>
    BY <2>1, <2>2 DEF vars, callVars, mappingVars
  <2>3. CASE Request
    BY <2>1, <2>3, RequestFrame DEF Cleaning, FcuLocals
  <2>4. CASE \E c \in FcuCalls : FcuHandler(c)
    BY <2>4, ReorgOwn DEF FcuHandler
  <2>5. CASE \E c \in NewPayloadCalls : NewPayloadHandler(c)
    BY <2>1, <2>5, NewPayloadStepFrame DEF NewPayloadHandler, FcuLocals
  <2>6. CASE Restart
    BY <2>6, RestartFrame DEF ReportedReorgIsReal
  <2> QED
    BY <2>2, <2>3, <2>4, <2>5, <2>6, OthersFrame DEF Next, Quiescent
<1> QED
  BY <1>1, <1>2, TypeOKHolds, PTL DEF Spec
==============================================================================
