----------------------------- MODULE Transactions -----------------------------
(***************************************************************************)
(* What the code reads off a signed transaction (external: alloy's types). *)
(***************************************************************************)
EXTENDS TxMapping

CONSTANTS
    BadBytes,   \* bytes from which no transaction and sender can be recovered
    MaxFee,     \* tx -> max_fee_per_gas()
    TxGas       \* tx -> gas_limit(); a transaction uses all of it

ASSUME TransactionsAssumption ==
    /\ BadBytes \notin TxHashes
    /\ MaxFee \in [TxHashes -> Nat]
    /\ TxGas \in [TxHashes -> Nat]
==============================================================================
