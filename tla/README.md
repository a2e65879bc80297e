# kx-reth: a TLA+ verification project

kx-reth is a fork-choice-driven execution node for the Kasplex rollup, built on
reth. Its own code is small, and nearly all of it sits between reth's
components: it numbers transactions at submission, cleans the transaction pool
when the engine API is called, builds payloads from a list of transactions the
consensus layer gives it, and splits fees between the beneficiary and a
treasury. This project models that code in TLA+, checks it with TLC on small
instances, and proves every invariant of those checks with TLAPS for every value
of the constants.

Line numbers below are those of the repository's `crates/`.

## 1. Inventory

| Component | Source | State | Operations | Talks to |
|---|---|---|---|---|
| Number table | `tx_mapping/src/lib.rs` | one global `RwLock` over `mapping`, `deleted`, `reorg_in_progress`; in memory only | `insert`, `get_tx_number` (takes), `get_submission_block` (reads), `set_mapping`, `add_deleted_transaction`, the reorg marks, `clear` | everyone below |
| Pool cleanup | `txpool/src/lib.rs` | none of its own | `handle_kasplex_pool_reorg`, `remove_included_transactions` | table, reth's pool |
| Auth RPC | `rpc/src/eth/auth.rs` | none | `sendRawTransaction(s)`, `txPoolContent`, `txPoolContentWithMinTip` | table, pool, chain head |
| Engine API | `rpc/src/engine/api.rs` | none | `newPayloadV2`, `forkchoiceUpdatedV2`, `getPayloadV2` | reth's engine, pool cleanup |
| Payload validator | `rpc/src/engine/validator.rs` | none | payload → block, attribute check | table |
| Payload builder | `payload/src/builder.rs` | per job | `kasplex_payload`, run again after a failed attempt | EVM configuration slots, table |
| EVM configuration | `block/src/config.rs` | two `Arc<Mutex<Option<_>>>` slots shared by all clones | set, read, clear | builder |
| Executor, fee handler | `block/src/executor.rs`, `evm/src/handler.rs`, `evm/src/alloy.rs` | block environment of the EVM, journal, gas total, receipts | system calls; deduct, execute, reimburse, reward, commit | revm |
| Assembler, header rules | `block/src/assembler.rs`, `consensus/src/validation.rs` | none | header out of the environment; rules on headers | builder, engine |
| Payload types | `primitives/src/{engine,payload}` | none | `block_to_payload`, `try_new`, payload id | table, builder |
| Chain spec, CLI, network, node wiring, eth RPC delegation, EVM factories, treasury address | the rest | static | delegation to reth | – |

What is hard here:

* **Shared state without transactions.** The table takes its lock per method, so
  every "read, do something, write back" (the cleanup, a job, `block_to_payload`,
  a submission) can be interleaved with every other one.
* **One slot for many jobs.** Base fee and extra data reach the next block's
  environment through two slots shared by all clones of the configuration.
* **Work after the answer.** The engine handlers await the engine first and do
  the pool work afterwards, on a pool and a chain that have moved on. Two calls
  may finish that work in the opposite order.
* **Partial failure.** A submission is numbered before the pool accepts it; the
  conversion of a payload takes numbers away before the block is known valid;
  a job may fail, be cancelled or skip transactions half way.
* **Repeated work.** reth's payload service keeps a job listed after a failed or
  panicked attempt and tries again; while it is listed, attributes with the same
  id start no other. The slots must be clean for the second attempt.
* **Restart.** The table is a static of the process, the pool has a backup file and
  the chain a database: after a restart the three have forgotten different things.
* **A borrowed environment.** A system call goes through the same fee handler as a
  transaction; it is free only because base fee, gas limit and nonce check are
  swapped out around it, and they must be back whatever the call returned.
* **Money.** Three hooks of the fee handler move coins among up to four accounts
  that may coincide, with refunds, reverts and errors between them.

`PROJECT.json` lists each hazard at its line with the properties that watch it.

## 2. Modules

Order of the plan; every module lists in `PROJECT.json` "map" the lines it models.

| Module | Models | Built on |
|---|---|---|
| `TxMapping` | the table, one operator per method | – |
| `TxMappingTests` | the crate's five `#[test]` functions as programs over the one table, `TestThreads` at a time; a failed assertion ends its test | `TxMapping` |
| `Chain` | (external) the blocks the node knows, the head, what a lookup may answer | – |
| `TxPool` | the pool as two sets (pending, queued; external) and the two cleanup functions, split into snapshot / one check per number read / remove / finish | `TxMapping` |
| `Transactions` | (external) maximum fee and gas of a transaction | `TxMapping` |
| `AuthRpc` | submissions: decode and fee check, head read, `insert`, pool add | `TxPool`, `Transactions`, `Chain` |
| `EngineApi` | the two handlers, the engine's answer as a nondeterministic choice, the validator's conversion one transaction at a time | `TxPool`, `Chain` |
| `PayloadBuilder` | payload jobs from attributes to stored numbers, their repeated attempts, and `block_to_payload` | `Transactions`, `Chain` |
| `KasplexNode` | the composition: every handler, job and pool event interleaved, and restarts of the process; the properties | all of the above |
| `NumberLedger` | abstract specification of the table of numbers | – |
| `Consensus`, `BuiltBlocks` | header rules; assembled headers, their payload and the conversion back | `KasplexNode` |
| `TxFees` | effective price, beneficiary's price, the RPC's tip | – |
| `BlockExecutor` | a block's system calls, then its transactions, through deduct → execute → reimburse → reward → commit | `TxFees` |
| `TxPoolContent` | the two pool listings, one transaction per step | `TxFees` |
| `MCKasplexNode`, `MCBlockExecutor`, `MCTxPoolContent` | instances for TLC, and the claims of comments that the code refutes | |
| `SumTheorems` | (proofs) sums over finite sets, used by three of the next | – |
| `KasplexNodeTypes`, `…Safety`, `…Jobs`, `…Numbers`, `BlockExecutorProofs`, `TxPoolContentProofs`, `TxMappingTestsProofs` | theorems and proofs; those of `BuiltBlocks` are in `KasplexNodeJobs`, whose invariants they need | |

How state corresponds to code:

* A handler's program counter is `stage` (engine calls), `sendStage`, `jobStage`
  or `convStage`. A stage ends where the code takes a lock, awaits, or calls
  something another thread can observe: those are the only places where an
  interleaving is visible. Local variables keep their names (`toRemove` for
  `txs_to_remove`, `transaction_numbers`, `gas_used`).
* Numbers are naturals, `None` is a missing entry. `unwrap_or(0)` is modelled
  where the code has it, so 0 is a value that can be written back.
* Transactions are model values with a fee cap and a gas limit; undecodable bytes
  are `BadBytes`. A transaction list that does not decode is `None` and becomes
  the empty list, as in `try_new`.
* reth's engine is external: a payload is found VALID and executed, or not, or
  the call errs; a lookup afterwards finds the block, nothing, or errs. reth's
  pool is external: transactions in `FreeTxs` may enter by gossip or the eth RPC,
  move between sub-pools, and be dropped at any time.
* reth's payload service is external: a job is *listed* from its start until it is
  resolved or its deadline passes (`JobDelisted`); a listed job whose attempt failed
  or panicked makes another (`JobRetries`), with fresh local variables and the same
  attributes. `base_fee_per_gas.to::<u64>()` panics above `U64_MAX` before a slot is
  set (`JobOverflows`).
* `Restart` may come between any two steps. The table, the slots and the list of jobs
  are new; calls and jobs under way are lost. The pool reads back any part of
  what it held (its backup covers local transactions only), and the database
  may be behind the chain that was in memory.
* In `BlockExecutor`, `env` is the environment of the EVM and `saved` what a running
  system call put aside of it. The call goes through the same `Deduct`, `Execute`,
  `reimburse_caller` and `reward_beneficiary` as a transaction; `EndSystemCall` keeps
  the account of the contract and drops the rest, as `res.state.retain` does.
* `submitted`, `staleAt`, `spared` and `disturbed` in `KasplexNode`, `block`, `start`,
  `shortfall`, `owed` and `executed` in `BlockExecutor`, `crossed` in `TxMappingTests` are
  history variables: no guard reads them (`Track` updates `staleAt`, `spared` and `disturbed` with every step).
  `disturbed[j]` says that another job was among the stages that write or clear a slot
  while `j`'s own values were there and not all read. `restarts` only bounds `Restart`.

The abstract specification `NumberLedger` says what users of the table may rely
on: a number is *given* to a transaction by its submission only; afterwards it may
be taken away or restored, to a number that was given to the same transaction or
to 0; and a step concerns one transaction, except that all numbers may be lost at
once (`Lose`, a restart). `LedgerSpec` is its instance with
`number <- mapping`, `given <- submitted`.

## 3. Runs

### Passing

| Run | Instance | Shows |
|---|---|---|
| `cleanup` | two overlapping forkchoice updates, a batch of two submissions or one twice, heads 0–3, retention 1 | `TypeOK`; a cleanup selects only what was outside its window at some time since its copy (`CleanupSound`), leaves nothing that was outside all the time (`CleanupComplete`); the flag is set only while a cleanup is at work (`ReportedReorgIsReal`) |
| `calls` | newPayload, forkchoiceUpdated and a batch with bytes that do not decode, a pool that changes on its own, one restart at any point, fair | transactions of an executed block leave both sub-pools (`IncludedLeavePool`), the cleanup stays exact, every call is answered (`EveryCallReturns`), the reorg flag is cleared (`ReorgEnds`) |
| `numbers` | a submission, the engine, a job and a `block_to_payload` at once, two transactions each for the last three, one restart | a transaction never has another one's number (`NumberProvenance`), though numbers travel in vectors and are written back by position, with skipped transactions in between; the node implements `NumberLedger` (`LedgerSpec`) |
| `jobs` | two jobs that may overlap, fail, be repeated and delisted, one restart; three attribute sets: a list with bytes that do not decode and a fee too low, two timestamps that differ with a fee below the fixed one, a fee above 64 bits | for every attempt that no other job disturbed: header fee and extra data are the attributes' (`HeaderFollowsAttributes`), a panic is explained by the fee's width (`PanicsExplained`), the node accepts what it built from sound attributes (`BuiltBlockIsAccepted`); for all: a filled slot holds the value of a job still between set and clear (`SlotsHeldByJob`), and a finished block follows its transaction list, with a number for each transaction (`BlockFollowsList`) |
| `tests` | all five unit tests of `tx_mapping`, on as many threads | an assertion fails only in a test one of whose numbers another test changed while it ran, or at `lib.rs:242`, and there in every schedule (`FailuresExplained`) |
| `fees` | blocks of up to three transactions after none or two system calls; rich and poor callers, coinciding accounts (a contract that is the beneficiary too) | `FeesConserved`, `TreasuryIncome`, `SystemCallsLeaveNoTrace`, `CallsRunOnce` |
| `content` | pools of three pending and three queued transactions | the list is the longest prefix of paying transactions within both limits; the tip filter selects what pays the beneficiary that tip in execution |

### Violations: what a comment, test or document says and the code does not do

* `fresh_dropped`: a forkchoice update without a reorg drops a transaction just
  submitted, since its number is head + 1.
* `number_lost`: importing a payload takes away the number a job needs.
* `fee_panic`: two jobs, one slot. A job that read the computed fee executes a
  transaction its attributes' fee would have refused, and the `expect` on the tip
  fails. `PanicsExplained` in `jobs` is the part that holds; that jobs do not overlap
  is guaranteed nowhere in this repository.
* `expiry_lost`: after a restart a transaction read back from the pool's backup has
  no number, and one without a number never expires.
* `fee_short`: the handler does not check the balance, and its deduction saturates.

"findings" in `PROJECT.json` quotes the line each contradicts.

### Further divergences seen while modelling

These are visible in the models but have no run of their own:

* One boolean for all cleanups: the first of two overlapping ones to end makes
  `is_reorg_complete` true (`tx_mapping/src/lib.rs:124`). `ReportedReorgIsReal` is
  the direction that does hold.
* The Numbers array of a payload is never read: the only caller of
  `process_kasplex_execution_data` passes `None` (`validator.rs:189`, against the
  comment at 341-342).
* `eth_sendRawTransaction` and gossip reach the pool (`types.rs:264`,
  `network/src/lib.rs:36`), against README.md:87 and 108. `PoolReceives` models it.
* A job that loses the slot race builds with the computed base fee
  (`config.rs:141`), against README.md:106.
* Nothing compares a transaction's gas limit with the gas left in the block
  (`executor.rs:106`), though the builder expects that error (`builder.rs:162`).
  `Sound` in `BuiltBlocks` therefore has to ask it of the attributes.
* The timestamp checked against the parent is not the one the job uses
  (`primitives/src/payload/builder.rs:93`); `Sound` asks that they agree.
  The conversion at that line, `block_metadata.timestamp.to()`, panics above 64 bits in
  the thread of the engine, before a job exists; it is not modelled.
* `payload_id_kasplex` leaves out the base fee, gas limit, extra data, beneficiary
  and metadata timestamp.
* `TxMapping::new()` hands out the global table (`tx_mapping/src/lib.rs:53`), so the
  crate's tests are not independent: `test_tx_mapping_basic` and
  `test_bulk_set_mapping` use the same hash, and on the threads the harness has by
  default `test_bulk_set_mapping` can set its number again before the assertion at line
  205 that it is gone, or find it taken. `test_transaction_expiration` asserts expiry
  exactly at the bound (line 242), where the strict comparison at line 152 says not
  expired. `FailuresExplained` in `tests` states both: which failures depend on the
  schedule, and which one no schedule avoids.
* The slots have readers outside any job: the RPC's pending block
  (`rpc/src/eth/types.rs:227`) calls `next_evm_env` and `context_for_next_block`
  (`config.rs:141`, `173`) and meets the fee and the extra data of a job that is
  between set and clear. That reader is not modelled. What `SlotsHeldByJob` says for it
  is that it never meets the values of a job that is over.
* The order of two cleanups is free: the later one may work with the older head
  (`api.rs:187`). `CleanupSound` and `CleanupComplete` judge each by its own head.

### Bounds, and why they are enough

* At most two calls of one kind: the code has no state per pair of calls, so an
  interference needs one who disturbs and one who is disturbed. The theorems
  below lift the main properties to any number.
* Chain `g, a1, a2, a3` with retention 1 (0 where the chain is shorter): a number
  can be expired, exactly at the bound, at the head and one above it. In the
  code the retention is a constant; the models and proofs take any natural.
* `MaxConcurrentJobs = 2` where jobs are the question: one that disturbs, one that is
  disturbed. `U64_MAX = 40` is scaled down with the fees (10 to 20).
* `MaxRestarts` is 1 in `calls`, `numbers`, `jobs` and `expiry_lost`, and 0 elsewhere. After a restart
  the memory is as at the start, so a second one meets nothing the first did
  not; the theorems hold for any number.
* Fees: `MCMaxFee` has a transaction between the computed fee (10) and the fixed
  fee (20), the case in which the fallback matters. `MaxTried = 3` transactions per
  block (2 in `fee_short`): the later ones meet the nonce and the balances the earlier
  ones left. `SystemGas` is above the gas limit of the block, as 30,000,000 may be.
  `IntrinsicGas`, `MaxRefundQuotient` are scaled down with the gas limits.
* `MaxPending = 3` per sub-pool: a transaction skipped for its fee, one that
  fits, one that stops the list.
* `TestThreads = 5` in `tests`: every test may be under way with every other.
* `FcuSymmetry` permutes the interchangeable forkchoice calls in `cleanup`, an
  invariants-only run.

Deadlock is checked in all node runs: `Quiescent` is the only way to stop, when every call
is answered and every job over. The test runs end by design.

### Fairness

`Fairness`, used in `calls`, is weak fairness of the handler of each RPC and engine call
on its own: the async runtime goes on running a task that can go on. Nothing
forces clients to send, the consensus layer to call, reth's pool to move or a job to
succeed: a job whose attempts always fail or panic is repeated for as long as it is
listed, so nothing is claimed of its end. Where
the code awaits the engine, the fair step includes the engine's error answer: reth
answers each request or drops the channel, which is an error.

## 4. Proofs

Assumptions are the named `ASSUME`s of the component modules: types of the
constants, `None` distinct from the values it stands beside, disjoint call sets.
`AccountsAssumption` says that there are finitely many accounts (an address has 20
bytes), without which the balances have no sum, and `TestsAssumption` that the three
hashes of the unit tests differ and that the retention is not 0. TLC evaluates them in every run of their module.

| Module | Theorems | Argument |
|---|---|---|
| `SumTheorems` | what a sum becomes when an element joins, leaves or changes; sums of naturals grow with their set | by minimal counterexample: a set of finite subsets has a least member under inclusion (`WFMin`), which an element less contradicts. The library's induction theorems take an operator as parameter, which the installed provers cannot instantiate |
| `KasplexNodeTypes` | `TypeOKHolds` | `TypeInv` = the type invariants of the components plus: the numbers a conversion holds fit the block it converts (else writing back by position leaves the types) |
| `KasplexNodeSafety` | `CleanupSoundHolds`, `CleanupCompleteHolds`, `IncludedLeavePoolHolds`, `ReportedReorgIsRealHolds` | `CleanupInv` says for each stage what has been judged so far: a transaction already checked is selected or was seen inside the window (`spared`), one still to check is in the to-do sets, and the pool adds only to `spared`; `IncludedInv` likewise for the block's transactions |
| `KasplexNodeJobs` | `SlotsHeldByJobHolds`, `HeaderFollowsAttributesHolds`, `PanicsExplainedHolds` | a slot's content is accounted for by the stage and the attributes of the job that set it last: until it clears the slot it stays in the stages between. `JobsInv` is for any number of overlapping jobs: two jobs in the stages around the slots are both noted as disturbed (`SharedSlotsNoted`), and an undisturbed job finds its own values in the slots until it has read them (`OwnValues`) |
| `KasplexNodeJobs`, on `BuiltBlocks` | `AttemptsWithinList`, `BuiltBlockIsAcceptedHolds` | `AttemptInv`: what is left to try is a suffix of the attributes' list, and the gas used is at most the sum of the gas limits before it, in every attempt; at the end that is the sum `Sound` bounds. Fee and extra data of the header come from `HeaderFollowsAttributes`, the rest of the rules from `validate_payload_attributes_against_header` at the start of the job |
| `KasplexNodeNumbers` | `NumberProvenanceHolds`, `LedgerImplemented`, `BlockFollowsListHolds` | `NumbersInv`: every number held in a vector belongs to the transaction at that position, including the prefix of a job's vector for the transactions included so far. `FollowsList`: what a job has included stands, in order, among the part of its list it has tried, and the rest of the list is what it has left to try; a retry starts both over |
| `BlockExecutorProofs` | `ExecutorTypesHold`, `TreasuryIncomeHolds`, `CallsRunOnceHolds`, `SystemCallsLeaveNoTraceHolds`, `FeesConservedHolds` | `ExecutorInv` bounds refunds by spent gas and spent gas by the limit, and says the environment is the block's outside of system calls and has base fee 0 in one; `NoTraceInv`: in a system call the journal differs from the state in the caller's nonce alone; `TreasuryInv` follows the treasury's journal balance through the hooks; `NonceInv` says a nonce is past every call executed from its account; `FeesInv`: at each hook the journal lacks of the sum of the balances exactly what the hooks to come will credit. Each credit is one update of one account, so nothing depends on which accounts coincide |
| `TxPoolContentProofs` | `ListInvHolds`, `ListIsLongestPrefixHolds`, `ListWithinLimitsHolds`, `TipsAreWhatIsPaidHolds`, `TipIsCoinbasePrice` | `ListInv`: the list enumerates the payers among the first positions of the copy, in order, with their sums as totals, and they are within the limits; when a payer does not fit, no longer part does, because sums of naturals grow. `TipsInv`: what pays the tip is what was inserted plus what pays of the rest of the copy |
| `TxMappingTestsProofs` | `FailuresExplainedHolds` | `TestsInv` says for each test what it has left in the table at each of its calls, unless another changed a number it uses meanwhile (`crossed`). The deleted set and the flag have one user each, so their tests never fail; the number of Tx3 is 100 or gone, and in either case the table says not expired where line 242 asserts the opposite. For every choice of the five tests, every number of threads and every schedule |

The invariants include the restart: `Restart` clears what they speak of, and the
ledger answers it with `Lose`.

Every invariant that a passing run checks is stated by a theorem, and so is the
refinement of `NumberLedger`. Only liveness (`EveryCallReturns`,
`ReorgEnds`) stays with TLC: it rests on fairness and `ENABLED`, which the prover does
not handle.

Two definitions have the form they have for the proofs. The reference for the pool
listing speaks of positions in the copied list (`Payers`, `Within`, `LongestPrefix`)
rather than of a filtered sequence, since the prover knows nothing of `SelectSeq`;
and sums are `SumFunctionOnSet`, not folds over sequences. TLC evaluates both forms alike.

## 5. Not modelled

* **Chain specification, CLI, node wiring, network start-up**: static
  data and delegation; the models take from them that the chain is Kasplex and that
  the standard network and RPC feed the pool.
* **EVM factories**: they hand revm's EVM to reth; modelled are `transact_system_call`
  and the run of the handler on a cleared journal.
* **Instruction execution** is revm's: the outcome of a frame (gas spent, refund,
  success) is a nondeterministic choice.
* **Which system calls a block makes** is reth's `SystemCaller`, from the forks of
  the chain. The built-in chains end at Shanghai and make none; a genesis file given on
  the command line may bring Cancun and Prague, so `PreCalls` is a constant. The state
  clear flag and the state hook around them are left to reth.
* **Treasury address** (`evm/src/lib.rs`): an opaque account.
* **Roots, blooms, signatures**: not told apart by any property here.
* **`is_kasplex() = false`**: guards are modelled (`IsKasplex`), the runs use a
  Kasplex chain.

## 6. What is left of the plan

1. Composition of the pool listing with the attributes: a list from
   `txPoolContent` used as `tx_list`, so that `Sound` in `BuiltBlocks` follows from
   the code instead of being assumed of the consensus layer.
2. getPayload by payload id, so that two forkchoice updates whose attributes differ
   only in what `payload_id_kasplex` leaves out can be followed to their answer; and the
   validator's import path for blocks built elsewhere.
3. Treasury address as a function of the chain id. Its decimal digits are padded
   with zeros on the right, so ids 2 and 20 share an address.
4. Runs with `IsKasplex = FALSE`.
5. Proofs: with 1, that a list `txPoolContent` answered satisfies the clause of
   `Sound` on gas (`ListWithinLimits` is the half of it on the side of the listing).
