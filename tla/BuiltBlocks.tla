----------------------------- MODULE BuiltBlocks -----------------------------
(***************************************************************************)
(* The blocks the payload builder hands out, held against the rules by     *)
(* which the same node judges blocks: assemble_block                       *)
(* (crates/block/src/assembler.rs) and KasplexBeaconConsensus.             *)
(***************************************************************************)
EXTENDS KasplexNode, Consensus, Functions

CONSTANTS
    ExtraDataLength,   \* extra_data -> its length in bytes
    EMPTY_WITHDRAWALS

ASSUME BuiltBlocksAssumption == ExtraDataLength \in [ExtraDataValues -> Nat]

\* The header of the block job j built, from the environment and the context
\* that builder_for_next_block read.
assemble_block(j) ==
    [parent_hash |-> attrs[j].parent,
     number |-> Number[attrs[j].parent] + 1,
     timestamp |-> attrs[j].block_timestamp,
     base_fee_per_gas |-> envBaseFee[j],
     gas_limit |-> attrs[j].gas_limit,
     gas_used |-> gas_used[j],
     extra_data_length |-> ExtraDataLength[ctxExtraData[j]],
     difficulty |-> 0,
     nonce |-> 0,
     ommers_hash |-> EMPTY_OMMER_ROOT_HASH,
     withdrawals_root |-> EMPTY_WITHDRAWALS,
     parent_beacon_block_root |-> None]

\* ExecutionPayloadV1::from_block_unchecked (external): the fields a payload has.
from_block_unchecked(h) ==
    [parent_hash |-> h.parent_hash, number |-> h.number, timestamp |-> h.timestamp,
     base_fee_per_gas |-> h.base_fee_per_gas, gas_limit |-> h.gas_limit,
     gas_used |-> h.gas_used, extra_data_length |-> h.extra_data_length]

\* ExecutionPayloadV1::try_into_block (external): the header a payload stands for.
try_into_block(p) ==
    [parent_hash |-> p.parent_hash, number |-> p.number, timestamp |-> p.timestamp,
     base_fee_per_gas |-> p.base_fee_per_gas, gas_limit |-> p.gas_limit,
     gas_used |-> p.gas_used, extra_data_length |-> p.extra_data_length,
     difficulty |-> 0, nonce |-> 0, ommers_hash |-> EMPTY_OMMER_ROOT_HASH,
     withdrawals_root |-> None, parent_beacon_block_root |-> None]

\* The header process_kasplex_execution_data makes of a payload.
process_kasplex_execution_data(payload) ==
    [try_into_block(payload) EXCEPT
       !.withdrawals_root = IF @ = None THEN EMPTY_WITHDRAWALS ELSE @]

ParentHeader(b) == [hash |-> b, number |-> Number[b], timestamp |-> Timestamp[b]]

\* The gas limits of the transactions of a list.
GasLimits(list) == [i \in DOMAIN list |-> TxGas[list[i]]]

\* Attributes as a consensus layer should make them: the fixed base fee, one
\* timestamp, short extra data and a list whose gas limits fit the block, as the lists of
\* kasplexAuth_txPoolContent do.
Sound(a) ==
    /\ a.base_fee_per_gas = KASPLEX_BASE_FEE
    /\ a.block_timestamp = a.timestamp
    /\ ExtraDataLength[a.extra_data] <= MaxExtraData
    /\ SumFunction(GasLimits(Transactions_Of(a))) <= a.gas_limit

\* The block built from sound attributes, by a job that no other disturbed, is
\* one the node itself accepts when it comes back by engine_newPayload: the payload
\* block_to_payload makes of it converts to a block with the same header, hence
\* the same hash, and validate_header and validate_header_against_parent agree
\* to what the builder put together in many steps, skipping transactions.
BuiltBlockIsAccepted ==
    \A j \in Jobs : jobStage[j] = "built" /\ ~disturbed[j] /\ Sound(attrs[j]) =>
        /\ process_kasplex_execution_data(from_block_unchecked(assemble_block(j)))
             = assemble_block(j)
        /\ validate_header(assemble_block(j))
        /\ validate_header_against_parent(assemble_block(j),
                                          ParentHeader(attrs[j].parent))
==============================================================================
