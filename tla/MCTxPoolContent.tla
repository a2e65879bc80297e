--------------------------- MODULE MCTxPoolContent ---------------------------
(***************************************************************************)
(* Instances of TxPoolContent for TLC.  The base fee is 2.                 *)
(***************************************************************************)
EXTENDS TxPoolContent

Tx(sender, n, max_fee, priority, gas_limit, bytes) ==
    [sender |-> sender, nonce |-> n, max_fee |-> max_fee,
     max_priority_fee |-> priority, gas_limit |-> gas_limit, bytes |-> bytes]

\* Fees on both sides of the base fee, in both forms; gas and bytes such that
\* either limit may be the one that stops the loop.
MCPoolTxs ==
    {Tx("alice", 0, 4, 1, 2, 1), Tx("alice", 1, 5, None, 1, 3),
     Tx("bob", 0, 2, 1, 1, 1), Tx("bob", 1, 1, None, 1, 1),
     Tx("carol", 0, 3, 2, 3, 2)}

MCRequests ==
    [base_fee : {0, 2, 3}, block_max_gas_limit : {0, 3, 4},
     max_bytes_per_tx_list : {1, 4, 9}, max_transactions_lists : {0, 1}]
==============================================================================
