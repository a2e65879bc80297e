------------------------------ MODULE TxMapping ------------------------------
(***************************************************************************)
(* crates/tx_mapping: the table, shared by the whole process, from a       *)
(* transaction hash to the number of the block it was submitted for.       *)
(* The three fields live behind one RwLock, so each method is one atomic   *)
(* step; what happens between two calls of the same caller is up to the    *)
(* other threads.  A method that writes is an operator with primed         *)
(* variables, named as in the code; a method that reads is a plain one.    *)
(***************************************************************************)
EXTENDS Integers

CONSTANTS
    TxHashes,                        \* the transactions
    UNEXECUTED_TX_RETENTION_BLOCKS,  \* how long a submitted number stays good
    None                             \* Rust's None

ASSUME TxMappingAssumption ==
    /\ UNEXECUTED_TX_RETENTION_BLOCKS \in Nat
    /\ None \notin Nat

VARIABLES
    mapping,            \* tx hash -> submission block number, None when absent
    deleted,            \* hashes marked as deleted
    reorg_in_progress   \* is a pool cleanup running?

mappingVars == <<mapping, deleted, reorg_in_progress>>

TxMappingTypeOK ==
    /\ mapping \in [TxHashes -> Nat \cup {None}]
    /\ deleted \in SUBSET TxHashes
    /\ reorg_in_progress \in BOOLEAN

\* TxMappingState::default(), the state GLOBAL_TX_MAPPING starts in.
TxMappingInit ==
    /\ mapping = [t \in TxHashes |-> None]
    /\ deleted = {}
    /\ reorg_in_progress = FALSE

------------------------------------------------------------------------------
(* The methods that read.                                                  *)

get_submission_block(t) == mapping[t]

\* get_submission_block(hash).unwrap_or(0), and the result of get_tx_number
NumberOrZero(t) == IF mapping[t] = None THEN 0 ELSE mapping[t]

is_deleted_transaction(t) == t \in deleted

is_reorg_complete == ~reorg_in_progress

is_transaction_expired(t, current) ==
    /\ mapping[t] # None
    /\ \/ mapping[t] + UNEXECUTED_TX_RETENTION_BLOCKS < current
       \/ mapping[t] > current

------------------------------------------------------------------------------
(* The methods that write.                                                 *)

\* Bug: the entry becomes the whole table.
insert_Replaces(t, number) ==
    /\ mapping' = [u \in TxHashes |-> IF u = t THEN number ELSE None]
    /\ UNCHANGED <<deleted, reorg_in_progress>>

insert(t, number) ==
    /\ mapping' = [mapping EXCEPT ![t] = number]
    /\ UNCHANGED <<deleted, reorg_in_progress>>

\* Bug: the number is read and left in place.
get_tx_number_Keeps(t) == UNCHANGED mappingVars

\* get_tx_number: the caller gets NumberOrZero(t) and the entry goes.
get_tx_number(t) ==
    /\ mapping' = [mapping EXCEPT ![t] = None]
    /\ UNCHANGED <<deleted, reorg_in_progress>>

set_mapping(m) ==
    /\ mapping' = m
    /\ UNCHANGED <<deleted, reorg_in_progress>>

add_deleted_transaction(t) ==
    /\ deleted' = deleted \cup {t}
    /\ UNCHANGED <<mapping, reorg_in_progress>>

mark_start_pool_reorg ==
    /\ reorg_in_progress' = TRUE
    /\ UNCHANGED <<mapping, deleted>>

\* Bug: the end of a cleanup is not recorded.
mark_pool_reorged_Forgets == UNCHANGED mappingVars

mark_pool_reorged ==
    /\ reorg_in_progress' = FALSE
    /\ UNCHANGED <<mapping, deleted>>

clear ==
    /\ mapping' = [t \in TxHashes |-> None]
    /\ deleted' = {}
    /\ reorg_in_progress' = FALSE

\* The process stops and a new one starts: its GLOBAL_TX_MAPPING is made from
\* TxMappingState::default(), nothing is read back.
TxMappingRestart == clear
==============================================================================
