-------------------------------- MODULE Chain --------------------------------
(***************************************************************************)
(* The chain as reth's engine tree and provider show it to this code.      *)
(* External: blocks form a tree fixed by the constants; a node knows the   *)
(* blocks it has executed and one of them is the canonical head, which     *)
(* forkchoiceUpdated moves to any known block, an ancestor included        *)
(* (with_unwind_canonical_header in engine/validator.rs).                  *)
(***************************************************************************)
EXTENDS Integers, Sequences

CONSTANTS
    Blocks,     \* the block hashes
    Genesis,
    Parent,     \* block -> its parent; Genesis is its own
    Number,     \* block -> its number
    BlockTxs,   \* block -> the sequence of its transactions
    InitKnown,  \* the blocks of the database the node starts on
    InitHead    \* and its head

ASSUME ChainAssumption ==
    /\ Genesis \in InitKnown
    /\ InitHead \in InitKnown
    /\ InitKnown \subseteq Blocks
    /\ Parent \in [Blocks -> Blocks]
    /\ \A b \in InitKnown : Parent[b] \in InitKnown
    /\ Number \in [Blocks -> Nat]
    /\ \A b \in Blocks \ {Genesis} : Number[b] = Number[Parent[b]] + 1

VARIABLES
    known,   \* the blocks executed so far
    head     \* the canonical head

chainVars == <<known, head>>

ChainTypeOK ==
    /\ known \in SUBSET Blocks
    /\ head \in known

ChainInit ==
    /\ known = InitKnown
    /\ head = InitHead

best_block_number == Number[head]

\* A block of the tree is executed: VALID only on top of a known parent.
ExecuteBlock(b) ==
    /\ Parent[b] \in known
    /\ known' = known \cup {b}
    /\ UNCHANGED head

\* A forkchoice update is applied.
SetHead(b) ==
    /\ b \in known
    /\ head' = b
    /\ UNCHANGED known

\* The process stops and a new one starts: the database may be behind what was
\* in memory, head included.
ChainRestart == \E kept \in SUBSET known :
    /\ Genesis \in kept
    /\ \A b \in kept : Parent[b] \in kept
    /\ known' = kept
    /\ head' \in kept
    /\ Number[head'] <= Number[head]

\* The results block_by_hash(b) and header_by_hash_or_number(b) may give: a
\* hit only for an executed block, a miss for any (a side block, an error).
LookupResults(b) == IF b \in known THEN {TRUE, FALSE} ELSE {FALSE}
==============================================================================
