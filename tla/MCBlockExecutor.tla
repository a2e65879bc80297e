--------------------------- MODULE MCBlockExecutor ---------------------------
(***************************************************************************)
(* Instances of BlockExecutor for TLC.  The gas limits leave room for a    *)
(* refund of one unit; the base fee is 2.  A system call has more gas than *)
(* the block.                                                              *)
(***************************************************************************)
EXTENDS BlockExecutor

Tx(caller, to, value, n, max_fee, priority, is_call) ==
    [caller |-> caller, to |-> to, value |-> value, nonce |-> n, gas_limit |-> 6,
     max_fee |-> max_fee, max_priority_fee |-> priority, is_call |-> is_call]

\* Old and new fee forms, calls and a create, a fee below the base fee, the
\* beneficiary and the treasury as caller and as recipient.
MCTxs ==
    {Tx("alice", "bob", 3, 0, 3, None, TRUE),
     Tx("alice", "alice", 1, 1, 4, 1, TRUE),
     Tx("bob", "alice", 2, 0, 2, 1, FALSE),
     Tx("bob", "treasury", 1, 0, 3, 0, TRUE),
     Tx("alice", "bob", 0, 0, 1, None, TRUE),
     Tx("treasury", "bob", 1, 0, 4, 2, TRUE)}

MCEnvs ==
    {[beneficiary |-> b, basefee |-> 2, gas_limit |-> 10, disable_nonce_check |-> FALSE] :
       b \in {"alice", "beacon", "treasury"}}

\* Without the forks that bring system calls, and with both.
MCPreCalls == {<<>>, <<"history", "beacon">>}

Rich == [a \in Accounts |-> 40]
Short == [a \in Accounts |-> IF a = "bob" THEN 7 ELSE 20]
MCInitBalances == {Rich, Short}

\* evm/src/handler.rs:86: the maximum possible fee is deducted from the
\* caller's balance.
MaximumFeeIsDeducted == owed = 0
==============================================================================
