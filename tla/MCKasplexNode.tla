---------------------------- MODULE MCKasplexNode ----------------------------
(***************************************************************************)
(* Instances of KasplexNode for TLC, and what the repository's comments    *)
(* say of the node, stated as properties for the runs that refute them.    *)
(***************************************************************************)
EXTENDS BuiltBlocks, TLC

CONSTANTS t1, t2, t3

\* A chain of up to four blocks.
MCParent ==
    [b \in Blocks |-> CASE b = "a1" -> "g" [] b = "a2" -> "a1" [] b = "a3" -> "a2"
                        [] OTHER -> b]
MCNumber ==
    [b \in Blocks |-> CASE b = "a1" -> 1 [] b = "a2" -> 2 [] b = "a3" -> 3
                        [] OTHER -> 0]
MCInitKnown == {b \in Blocks : MCNumber[b] <= MCNumber[InitHead]}

AllKnown == Blocks

NoTxs == [b \in Blocks |-> <<>>]
MCBlockTxs == [b \in Blocks |-> IF b = "a1" THEN <<t1, t2>> ELSE <<>>]
OneTxPerBlock == [b \in Blocks |-> IF b = "a1" THEN <<t1>> ELSE <<>>]

\* t3 pays less than the minimum fee of 20, but more than a computed base fee.
MCMaxFee == [t \in TxHashes |-> IF t = t3 THEN 15 ELSE 20]
MCTxGas == [t \in TxHashes |-> 2]
MCEip1559BaseFee == [b \in Blocks |-> 10]
MCExtraData == [b \in Blocks |-> "parent"]
MCTimestamp == [b \in Blocks |-> MCNumber[b] + 5]
MCExtraDataLength == [x \in ExtraDataValues |-> IF x = "y" THEN 32 ELSE 1]

NoBatches == {}
OneTx == {<<t1>>}
TwoOrTwice == {<<t1, t2>>, <<t1, t1>>}
Mixed == {<<BadBytes, t1>>}

Attributes(list, extra, gas, time) ==
    [parent |-> "g", base_fee_per_gas |-> 20, gas_limit |-> gas,
     timestamp |-> time, block_timestamp |-> time, extra_data |-> extra, tx_list |-> list]

NoAttributes == {}
MCAttributes == {Attributes(<<t1, t2>>, "x", 3, 5)}
LowFeeAttributes ==
    {Attributes(<<t1, BadBytes, t3>>, "x", 4, 5), Attributes(<<t3, t1>>, "y", 4, 6),
     Attributes(None, "z", 3, 6), Attributes(<<t1>>, "x", 3, 4)}

\* A list with too low a fee, and attributes no careful consensus layer sends: two
\* timestamps that differ, another fee than the fixed one or one that 64 bits do
\* not hold.
AllAttributes ==
    {Attributes(<<BadBytes, t3, t1>>, "y", 4, 5),
     [Attributes(<<t3>>, "x", 4, 6) EXCEPT !.base_fee_per_gas = 15,
                                          !.block_timestamp = 4],
     [Attributes(None, "z", 4, 6) EXCEPT !.base_fee_per_gas = U64_MAX + 1]}

FcuSymmetry == Permutations(FcuCalls)

------------------------------------------------------------------------------
(* What comments, tests and the README say, refuted by the code.           *)

\* rpc/src/engine/api.rs:177-179: after a reorg the cleanup removes the
\* transactions submitted after the reorg point.  On a chain of one block there
\* is no reorg, and nothing is old enough to expire.
NothingRemovedWithoutReorg ==
    Blocks = {Genesis} => \A c \in FcuCalls : toRemove[c] = {}

\* rpc/src/eth/auth.rs:300-301: the number is stored so that it can be
\* extracted when building blocks.
NumberCanBeExtracted ==
    \A j \in Jobs :
        jobStage[j] = "next_tx" /\ txs[j] # <<>> /\ submitted[Head(txs[j])] # {}
            => NumberOrZero(Head(txs[j])) # 0

\* payload/src/builder.rs:175: "fee is always valid; execution succeeded", of the
\* tip of an executed transaction.
FeeIsAlwaysValid ==
    \A j \in Jobs : jobStage[j] = "panicked" => attrs[j].base_fee_per_gas > U64_MAX

\* tx_mapping/src/lib.rs:143-145: a transaction is expired if it was submitted
\* more than UNEXECUTED_TX_RETENTION_BLOCKS blocks ago.
OldSubmissionsExpire ==
    \A t \in Pool :
        /\ submitted[t] # {}
        /\ \A n \in submitted[t] : n + UNEXECUTED_TX_RETENTION_BLOCKS < Number[head]
        => is_transaction_expired(t, Number[head])
==============================================================================
