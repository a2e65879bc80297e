------------------------------ MODULE Consensus ------------------------------
(***************************************************************************)
(* KasplexBeaconConsensus (crates/consensus/src/validation.rs): what the   *)
(* node asks of a header on its own and next to its parent.  A header is a *)
(* record; extra_data is there by its length.                              *)
(***************************************************************************)
EXTENDS Integers

CONSTANTS
    KASPLEX_BASE_FEE,    \* 2000 GWei
    MaxExtraData,        \* 32 bytes
    EMPTY_OMMER_ROOT_HASH

ASSUME ConsensusAssumption ==
    KASPLEX_BASE_FEE \in Nat /\ MaxExtraData \in Nat

\* validate_kasplex_base_fee_in_header; a missing fee is no natural number.
validate_kasplex_base_fee_in_header(h) == h.base_fee_per_gas = KASPLEX_BASE_FEE

validate_header(h) ==
    /\ h.difficulty = 0
    /\ h.nonce = 0
    /\ h.ommers_hash = EMPTY_OMMER_ROOT_HASH
    /\ h.extra_data_length <= MaxExtraData
    /\ h.gas_used <= h.gas_limit
    /\ validate_kasplex_base_fee_in_header(h)

\* Bug: the timestamp must be later than that of the parent, as on Ethereum.
validate_header_against_parent_Strict(h, parent) ==
    /\ h.parent_hash = parent.hash
    /\ h.number = parent.number + 1
    /\ h.timestamp > parent.timestamp
    /\ validate_kasplex_base_fee_in_header(h)

\* Equal timestamps are allowed, and the base fee is the fixed one.
validate_header_against_parent(h, parent) ==
    /\ h.parent_hash = parent.hash
    /\ h.number = parent.number + 1
    /\ h.timestamp >= parent.timestamp
    /\ validate_kasplex_base_fee_in_header(h)
==============================================================================
