------------------------------- MODULE AuthRpc -------------------------------
(***************************************************************************)
(* kasplexAuth_sendRawTransaction and kasplexAuth_sendRawTransactions      *)
(* (crates/rpc/src/eth/auth.rs), the only source of transaction numbers.   *)
(* A call is a batch of raw transactions (of one for the single form),     *)
(* handled one after the other: decode and check the fee, read the latest  *)
(* header, store the number, add to the pool.  The table is written before *)
(* the pool is asked, and an element that fails does not stop the batch.   *)
(***************************************************************************)
EXTENDS TxPool, Transactions, Chain

CONSTANTS
    SendCalls,   \* calls, each handled once
    Batches,     \* the inputs: sequences over TxHashes and BadBytes
    MinBaseFee   \* min_l2_base_fee, 2000 GWei

ASSUME AuthRpcAssumption ==
    /\ Batches \subseteq Seq(TxHashes \cup {BadBytes})
    /\ MinBaseFee \in Nat

VARIABLES
    sendStage,   \* call -> "idle", "decode", "insert", "add" or "done"
    batch,       \* call -> what is left of its batch
    tx_number,   \* call -> the number read for the first of the batch
    submitted    \* history: tx -> every number a call gave it

sendVars == <<sendStage, batch, tx_number, submitted>>

AuthRpcTypeOK ==
    /\ sendStage \in [SendCalls -> {"idle", "decode", "insert", "add", "done"}]
    /\ batch \in [SendCalls -> Seq(TxHashes \cup {BadBytes})]
    /\ tx_number \in [SendCalls -> Nat]
    /\ submitted \in [TxHashes -> SUBSET Nat]
    /\ \A s \in SendCalls : sendStage[s] \in {"insert", "add"} =>
           batch[s] # <<>> /\ Head(batch[s]) \in TxHashes

AuthRpcInit ==
    /\ sendStage = [s \in SendCalls |-> "idle"]
    /\ batch = [s \in SendCalls |-> <<>>]
    /\ tx_number = [s \in SendCalls |-> 0]
    /\ submitted = [t \in TxHashes |-> {}]

SendGoto(s, st) == sendStage' = [sendStage EXCEPT ![s] = st]

\* The element is finished, with an error or not; the loop takes the next.
NextElement(s) ==
    /\ batch' = [batch EXCEPT ![s] = Tail(@)]
    /\ tx_number' = [tx_number EXCEPT ![s] = 0]
    /\ SendGoto(s, "decode")

------------------------------------------------------------------------------
SendReceive(s) == \E b \in Batches :
    /\ sendStage[s] = "idle"
    /\ SendGoto(s, "decode")
    /\ batch' = [batch EXCEPT ![s] = b]
    /\ UNCHANGED <<mappingVars, poolVars, callVars, chainVars, tx_number, submitted>>

\* recover_raw_transaction fails, or the fee cap is below the minimum.
Rejected(raw) == raw \in TxHashes => MaxFee[raw] < MinBaseFee

SendRejects(s) ==
    /\ sendStage[s] = "decode"
    /\ batch[s] # <<>>
    /\ Rejected(Head(batch[s]))
    /\ NextElement(s)
    /\ UNCHANGED <<mappingVars, poolVars, callVars, chainVars, submitted>>

\* latest_header() gives the head the node is on at this moment.
SendReadsHeader(s) ==
    /\ sendStage[s] = "decode"
    /\ batch[s] # <<>>
    /\ ~Rejected(Head(batch[s]))
    /\ tx_number' = [tx_number EXCEPT ![s] = best_block_number + 1]
    /\ SendGoto(s, "insert")
    /\ UNCHANGED <<mappingVars, poolVars, callVars, chainVars, batch, submitted>>

\* latest_header() fails: the transaction goes to the pool without a number.
SendFindsNoHeader(s) ==
    /\ sendStage[s] = "decode"
    /\ batch[s] # <<>>
    /\ ~Rejected(Head(batch[s]))
    /\ SendGoto(s, "add")
    /\ UNCHANGED <<mappingVars, poolVars, callVars, chainVars, batch, tx_number,
                   submitted>>

SendInserts(s) ==
    /\ sendStage[s] = "insert"
    /\ insert(Head(batch[s]), tx_number[s])
    /\ submitted' = [submitted EXCEPT ![Head(batch[s])] = @ \cup {tx_number[s]}]
    /\ SendGoto(s, "add")
    /\ UNCHANGED <<poolVars, callVars, chainVars, batch, tx_number>>

SendAdds(s) ==
    /\ sendStage[s] = "add"
    /\ AddToPool(Head(batch[s]))
    /\ NextElement(s)
    /\ UNCHANGED <<mappingVars, callVars, chainVars, submitted>>

\* try_from_consensus or add_transaction fails; the table keeps the number.
SendFailsToAdd(s) ==
    /\ sendStage[s] = "add"
    /\ NextElement(s)
    /\ UNCHANGED <<mappingVars, poolVars, callVars, chainVars, submitted>>

SendReturns(s) ==
    /\ sendStage[s] = "decode"
    /\ batch[s] = <<>>
    /\ SendGoto(s, "done")
    /\ UNCHANGED <<mappingVars, poolVars, callVars, chainVars, batch, tx_number,
                   submitted>>

SendStep(s) ==
    \/ SendRejects(s) \/ SendReadsHeader(s) \/ SendFindsNoHeader(s)
    \/ SendInserts(s) \/ SendAdds(s) \/ SendFailsToAdd(s) \/ SendReturns(s)

\* The process stops and a new one starts: the calls under way are over.
AuthRpcRestart ==
    /\ sendStage' = [s \in SendCalls |-> IF sendStage[s] = "idle" THEN "idle" ELSE "done"]
    /\ batch' = [s \in SendCalls |-> <<>>]
    /\ tx_number' = [s \in SendCalls |-> 0]
    /\ UNCHANGED submitted
==============================================================================
