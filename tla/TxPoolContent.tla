---------------------------- MODULE TxPoolContent ----------------------------
(***************************************************************************)
(* kasplexAuth_txPoolContent and kasplexAuth_txPoolContentWithMinTip       *)
(* (crates/rpc/src/eth/auth.rs): what the pool offers to whoever builds    *)
(* the transaction list of the next payload attributes.  Both copy the     *)
(* pool once and work on the copy; the first keeps running totals in a     *)
(* loop with a filter that goes on and limits that stop it.                *)
(* locals is parsed and not used by the code.                              *)
(***************************************************************************)
EXTENDS TxFees, Sequences, SequencesExt

CONSTANTS
    PoolTxs,             \* transactions: sender, nonce, fees, gas_limit, bytes
    MaxPending,          \* bound: length of the copied pending list
    Requests,            \* base_fee, gas limit, byte limit and list limit asked
    MinTips,             \* the min_tip values asked for
    KASPLEX_BASE_FEE

ASSUME TxPoolContentAssumption ==
    /\ \A t \in PoolTxs :
         /\ t.max_fee \in Nat /\ t.max_priority_fee \in Nat \cup {None}
         /\ t.gas_limit \in Nat /\ t.bytes \in Nat
    /\ \A r \in Requests :
         /\ r.base_fee \in Nat /\ r.block_max_gas_limit \in Nat
         /\ r.max_bytes_per_tx_list \in Nat /\ r.max_transactions_lists \in Nat
    /\ MinTips \subseteq Nat
    /\ MaxPending \in Nat /\ KASPLEX_BASE_FEE \in Nat

VARIABLES
    request,        \* what is asked: a record of Requests, or a min_tip
    pendingList,    \* the copied pending transactions not yet looked at
    queuedList,     \* the copied queued transactions not yet looked at
    copied,         \* history: the pending and queued lists as copied
    transactions,   \* the transactions pushed so far
    total_gas_used, total_bytes,
    content,        \* min tip: the transactions inserted, pending and queued
    phase           \* where the handler is

contentVars == <<request, pendingList, queuedList, copied, transactions,
                 total_gas_used, total_bytes, content, phase>>

\* A pool holds one transaction per sender and nonce.
OnePerNonce(s) == \A i, k \in DOMAIN s : i # k =>
    <<s[i].sender, s[i].nonce>> # <<s[k].sender, s[k].nonce>>

PoolLists == SeqOf(PoolTxs, MaxPending)

ContentInit ==
    /\ pendingList \in PoolLists
    /\ \/ request \in Requests /\ phase = "list" /\ queuedList = <<>>
       \/ request \in MinTips /\ phase = "tips" /\ queuedList \in PoolLists
    /\ OnePerNonce(pendingList \o queuedList)
    /\ copied = [pending |-> pendingList, queued |-> queuedList]
    /\ transactions = <<>>
    /\ total_gas_used = 0
    /\ total_bytes = 0
    /\ content = [pending |-> {}, queued |-> {}]

------------------------------------------------------------------------------
(* tx_pool_content                                                         *)

\* max_fee < base_fee: continue.
SkipCheap ==
    /\ phase = "list"
    /\ pendingList # <<>>
    /\ Head(pendingList).max_fee < request.base_fee
    /\ pendingList' = Tail(pendingList)
    /\ UNCHANGED <<request, queuedList, copied, transactions, total_gas_used,
                   total_bytes, content, phase>>

\* Bug: the byte limit is checked against what is already in the list.
Fits_Late(t) ==
    /\ total_gas_used + t.gas_limit <= request.block_max_gas_limit
    /\ total_bytes <= request.max_bytes_per_tx_list

Fits(t) ==
    /\ total_gas_used + t.gas_limit <= request.block_max_gas_limit
    /\ total_bytes + t.bytes <= request.max_bytes_per_tx_list

PushTx ==
    /\ phase = "list"
    /\ pendingList # <<>>
    /\ Head(pendingList).max_fee >= request.base_fee
    /\ Fits(Head(pendingList))
    /\ transactions' = Append(transactions, Head(pendingList))
    /\ total_gas_used' = total_gas_used + Head(pendingList).gas_limit
    /\ total_bytes' = total_bytes + Head(pendingList).bytes
    /\ pendingList' = Tail(pendingList)
    /\ UNCHANGED <<request, queuedList, copied, content, phase>>

\* The first transaction over a limit ends the loop, as does the end of the
\* list; with max_transactions_lists = 0 the answer is empty.
AnswerList ==
    /\ phase = "list"
    /\ pendingList # <<>> => /\ Head(pendingList).max_fee >= request.base_fee
                             /\ ~Fits(Head(pendingList))
    /\ phase' = IF request.max_transactions_lists > 0 THEN "listed" ELSE "nothing"
    /\ UNCHANGED <<request, pendingList, queuedList, copied, transactions,
                   total_gas_used, total_bytes, content>>

------------------------------------------------------------------------------
(* tx_pool_content_with_min_tip                                            *)

insert_with_min_tip(t) == effective_tip(t, KASPLEX_BASE_FEE) >= request

TipPending ==
    /\ phase = "tips"
    /\ pendingList # <<>>
    /\ pendingList' = Tail(pendingList)
    /\ content' = IF insert_with_min_tip(Head(pendingList))
                  THEN [content EXCEPT !.pending = @ \cup {Head(pendingList)}]
                  ELSE content
    /\ UNCHANGED <<request, queuedList, copied, transactions, total_gas_used,
                   total_bytes, phase>>

TipQueued ==
    /\ phase = "tips"
    /\ pendingList = <<>>
    /\ queuedList # <<>>
    /\ queuedList' = Tail(queuedList)
    /\ content' = IF insert_with_min_tip(Head(queuedList))
                  THEN [content EXCEPT !.queued = @ \cup {Head(queuedList)}]
                  ELSE content
    /\ UNCHANGED <<request, pendingList, copied, transactions, total_gas_used,
                   total_bytes, phase>>

\* fill_pending or the serialisation fails for one transaction: no answer.
TipFails ==
    /\ phase = "tips"
    /\ phase' = "failed"
    /\ UNCHANGED <<request, pendingList, queuedList, copied, transactions,
                   total_gas_used, total_bytes, content>>

AnswerTips ==
    /\ phase = "tips"
    /\ pendingList = <<>> /\ queuedList = <<>>
    /\ phase' = "tipped"
    /\ UNCHANGED <<request, pendingList, queuedList, copied, transactions,
                   total_gas_used, total_bytes, content>>

ContentNext ==
    \/ SkipCheap \/ PushTx \/ AnswerList
    \/ TipPending \/ TipQueued \/ TipFails \/ AnswerTips
    \/ phase \in {"listed", "nothing", "tipped", "failed"} /\ UNCHANGED contentVars

ContentSpec == ContentInit /\ [][ContentNext]_contentVars

------------------------------------------------------------------------------
(* Properties                                                              *)

\* The positions among the first n of a list whose transactions pay the base
\* fee asked for.
Payers(list, r, n) == {i \in 1 .. n : list[i].max_fee >= r.base_fee}

GasOf(list, I) == SumFunctionOnSet([i \in DOMAIN list |-> list[i].gas_limit], I)
BytesOf(list, I) == SumFunctionOnSet([i \in DOMAIN list |-> list[i].bytes], I)

Within(list, r, n) ==
    /\ GasOf(list, Payers(list, r, n)) <= r.block_max_gas_limit
    /\ BytesOf(list, Payers(list, r, n)) <= r.max_bytes_per_tx_list

\* The reference: the payers of the longest part of the list, from its start,
\* whose payers are together within both limits.
LongestPrefix(list, r) ==
    LET n == CHOOSE n \in 0 .. Len(list) :
               /\ Within(list, r, n)
               /\ \A m \in (n + 1) .. Len(list) : ~Within(list, r, m)
    IN  Payers(list, r, n)

\* s is the transactions of a list at the positions I, in the order of the list.
Enumerates(s, list, I) ==
    /\ Len(s) = Cardinality(I)
    /\ \A i \in I : s[Cardinality({k \in I : k <= i})] = list[i]

\* The list kasplexAuth_txPoolContent answers is that prefix, and the totals
\* reported with it (estimatedGasUsed, bytesLength) are its own.
ListIsLongestPrefix ==
    phase = "listed" =>
        LET taken == LongestPrefix(copied.pending, request)
        IN  /\ Enumerates(transactions, copied.pending, taken)
            /\ total_gas_used = GasOf(copied.pending, taken)
            /\ total_bytes = BytesOf(copied.pending, taken)

\* kasplexAuth_txPoolContentWithMinTip lists exactly the transactions of the
\* copy whose execution at the Kasplex base fee pays the beneficiary the asked
\* tip per gas, as reward_beneficiary works it out.
TipsAreWhatIsPaid ==
    phase = "tipped" =>
        /\ content.pending = {t \in Range(copied.pending) :
                                coinbase_gas_price(t, KASPLEX_BASE_FEE) >= request}
        /\ content.queued = {t \in Range(copied.queued) :
                                coinbase_gas_price(t, KASPLEX_BASE_FEE) >= request}
==============================================================================
