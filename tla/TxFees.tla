-------------------------------- MODULE TxFees --------------------------------
(***************************************************************************)
(* What a transaction pays per unit of gas.  Two places of the code work   *)
(* it out on their own: the EVM handler when it credits the beneficiary    *)
(* (crates/evm/src/handler.rs) and the auth RPC when it filters the pool   *)
(* by tip (crates/rpc/src/eth/auth.rs).                                    *)
(* A transaction is a record; max_priority_fee is None for one of the old  *)
(* form, whose max_fee is its gas price.                                   *)
(***************************************************************************)
EXTENDS Integers

CONSTANT None   \* Rust's None

ASSUME TxFeesAssumption == None \notin Nat

Lesser(a, b) == IF a <= b THEN a ELSE b
saturating_sub(a, b) == IF a > b THEN a - b ELSE 0

\* effective_gas_price (external: alloy).
effective_gas_price(tx, basefee) ==
    IF tx.max_priority_fee = None THEN tx.max_fee
    ELSE Lesser(tx.max_fee, basefee + tx.max_priority_fee)

\* reward_beneficiary: the part of the price that is the beneficiary's.
coinbase_gas_price(tx, basefee) ==
    saturating_sub(effective_gas_price(tx, basefee), basefee)

\* Bug: the priority fee alone decides.
effective_tip_IgnoresCap(tx, basefee) ==
    IF tx.max_priority_fee = None THEN saturating_sub(tx.max_fee, basefee)
    ELSE tx.max_priority_fee

\* insert_with_min_tip: min(max_fee - base_fee, max_priority_fee).
effective_tip(tx, basefee) ==
    IF tx.max_fee <= basefee THEN 0
    ELSE IF tx.max_priority_fee = None THEN tx.max_fee - basefee
    ELSE Lesser(tx.max_priority_fee, tx.max_fee - basefee)
==============================================================================
