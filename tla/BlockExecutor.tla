---------------------------- MODULE BlockExecutor ----------------------------
(***************************************************************************)
(* One block in the executor: KasplexBlockExecutor (crates/block/src/      *)
(* executor.rs) running each transaction through KasplexEvmHandler         *)
(* (crates/evm/src/handler.rs).  The handler takes the fee for the whole   *)
(* gas limit from the caller, runs the transaction, gives back what was    *)
(* not used and splits the rest between beneficiary and treasury, each as  *)
(* a step on the journal; the executor then commits the journal or drops   *)
(* it.  Any of the accounts involved may be the same.                      *)
(* Before the first transaction the executor makes its system calls        *)
(* (apply_pre_execution_changes).  transact_system_call (crates/evm/src/   *)
(* alloy.rs) sends them through the same handler and makes them free by    *)
(* changing the block environment around the call.                         *)
(* External (revm): the checks of the environment, the nonce check, the    *)
(* frame itself with the gas it spends and the refund it earns; which      *)
(* system calls a block has (SystemCaller) follows from its forks.  The    *)
(* product of gas limit and price is a checked one in                      *)
(* effective_balance_spending, so that no later product overflows.         *)
(***************************************************************************)
EXTENDS TxFees, Sequences, FiniteSets, Functions

CONSTANTS
    Accounts,         \* the addresses, of 20 bytes
    Treasury,         \* get_treasury_address(chain_id)
    Txs,              \* the transactions that may come up
    Envs,             \* block environments: beneficiary, basefee, gas_limit
    PreCalls,         \* the contracts a block may call first, in order
    SystemAddress,    \* the caller of the system calls
    SystemGas,        \* their gas limit, 30_000_000
    InitBalances,     \* the balances a block may start from
    IntrinsicGas,     \* the least a transaction spends
    MaxRefundQuotient,\* refunds are capped at this fraction of the gas spent
    MaxTried          \* bound: transactions tried in the block

ASSUME BlockExecutorAssumption ==
    /\ Treasury \in Accounts
    /\ \A tx \in Txs :
         /\ tx.caller \in Accounts /\ tx.to \in Accounts
         /\ tx.value \in Nat /\ tx.nonce \in Nat
         /\ tx.gas_limit \in Nat /\ tx.max_fee \in Nat
         /\ tx.max_priority_fee \in Nat \cup {None}
         /\ tx.is_call \in BOOLEAN
    /\ Envs \subseteq [beneficiary : Accounts, basefee : Nat, gas_limit : Nat,
                        disable_nonce_check : {FALSE}]
    /\ None \notin Envs
    /\ SystemAddress \in Accounts
    /\ PreCalls \subseteq Seq(Accounts \ {SystemAddress})
    /\ SystemGas \in Nat
    /\ InitBalances \subseteq [Accounts -> Nat]
    /\ IntrinsicGas \in Nat /\ MaxTried \in Nat
    /\ MaxRefundQuotient \in Nat \ {0}

\* Addresses are 20 bytes.
ASSUME AccountsAssumption == IsFiniteSet(Accounts)

VARIABLES
    env,             \* the block environment and nonce check of the EVM
    saved,           \* what a running system call put aside of it, or None
    calls,           \* the system calls still to make
    block,           \* history: the environment of the block
    start,           \* history: the balances the block started from
    balance, nonce,  \* the committed state
    jBalance, jNonce,\* the journal: both as the current transaction sees them
    step,            \* where the handler is; "next" between transactions
    tx,              \* the current transaction, or None
    gas,             \* its Gas: what it spent and what it is refunded
    gas_used,        \* KasplexBlockExecutor.gas_used
    receipts,        \* cumulative_gas_used of each receipt
    executed,        \* history: the committed transactions
    shortfall,       \* history: fees that callers did not have
    owed,            \* history: the same for the current transaction
    tried            \* the number of transactions tried

blockVars == <<block, start>>
callVars == <<env, saved, calls>>
stateVars == <<balance, nonce, gas_used, receipts, executed, shortfall>>
journalVars == <<jBalance, jNonce>>
execVars == <<blockVars, callVars, stateVars, journalVars, step, tx, gas, owed, tried>>

\* transact_system_call: no value, no price, nonce 0.
SystemTx(contract) ==
    [caller |-> SystemAddress, to |-> contract, value |-> 0, nonce |-> 0,
     gas_limit |-> SystemGas, max_fee |-> 0, max_priority_fee |-> None,
     is_call |-> TRUE]
SystemTxs == {SystemTx(c) : c \in Accounts \ {SystemAddress}}

NoGas == [spent |-> 0, refunded |-> 0]

ExecutorTypeOK ==
    /\ block \in Envs
    /\ env \in [beneficiary : Accounts, basefee : Nat, gas_limit : Nat,
                disable_nonce_check : BOOLEAN]
    /\ saved \in Envs \cup {None}
    /\ calls \in Seq(Accounts \ {SystemAddress})
    /\ start \in [Accounts -> Nat]
    /\ balance \in [Accounts -> Nat]
    /\ nonce \in [Accounts -> Nat]
    /\ jBalance \in [Accounts -> Nat]
    /\ jNonce \in [Accounts -> Nat]
    /\ step \in {"pre", "next", "deduct", "execute", "reimburse", "reward", "commit",
                 "finished", "failed"}
    /\ tx \in Txs \cup SystemTxs \cup {None}
    /\ step \in {"deduct", "execute", "reimburse", "reward", "commit"} =>
         tx \in IF saved = None THEN Txs ELSE SystemTxs
    /\ gas \in [spent : Nat, refunded : Nat]
    /\ gas_used \in Nat
    /\ receipts \in Seq(Nat)
    /\ executed \in Seq(Txs)
    /\ shortfall \in Nat
    /\ owed \in Nat
    /\ tried \in Nat

ExecutorInit ==
    /\ block \in Envs
    /\ env = block
    /\ saved = None
    /\ calls \in PreCalls
    /\ balance \in InitBalances
    /\ start = balance
    /\ nonce = [a \in Accounts |-> 0]
    /\ jBalance = balance
    /\ jNonce = nonce
    /\ step = "pre"
    /\ tx = None
    /\ gas = NoGas
    /\ gas_used = 0
    /\ receipts = <<>>
    /\ executed = <<>>
    /\ shortfall = 0
    /\ owed = 0
    /\ tried = 0

price == effective_gas_price(tx, env.basefee)
SpentMinusRefund == saturating_sub(gas.spent, gas.refunded)

\* balance_incr
Credit(a, amount) == jBalance' = [jBalance EXCEPT ![a] = @ + amount]

------------------------------------------------------------------------------
\* The handler starts on t with what is committed.
Begin(t) ==
    /\ tx' = t
    /\ jBalance' = balance
    /\ jNonce' = nonce
    /\ gas' = NoGas
    /\ owed' = 0
    /\ step' = "deduct"

\* transact_system_call up to transact_raw: the environment is put aside, so that
\* gas limit, base fee and nonce check let the call pass.
BeginSystemCall ==
    /\ step = "pre"
    /\ calls # <<>>
    /\ saved' = env
    /\ env' = [env EXCEPT !.gas_limit = SystemGas, !.basefee = 0,
                          !.disable_nonce_check = TRUE]
    /\ Begin(SystemTx(Head(calls)))
    /\ UNCHANGED <<blockVars, stateVars, calls, tried>>

\* The three swaps after transact_raw, whatever it returned.
SwapBack ==
    IF saved = None THEN UNCHANGED <<env, saved>>
                    ELSE env' = saved /\ saved' = None

\* The rest of a system call: committed is what is kept of its changes.
EndWith(newBalance, newNonce) ==
    /\ step = "commit"
    /\ saved # None
    /\ SwapBack
    /\ balance' = newBalance
    /\ nonce' = newNonce
    /\ calls' = Tail(calls)
    /\ tx' = None
    /\ gas' = NoGas
    /\ step' = "pre"
    /\ UNCHANGED <<blockVars, journalVars, gas_used, receipts, executed, shortfall,
                   owed, tried>>

\* Bug: every account the call touched is kept.
EndSystemCall_KeepsAll == EndWith(jBalance, jNonce)

\* res.state.retain keeps the account of the contract; the caller's, whose nonce
\* was bumped, is dropped.
EndSystemCall ==
    EndWith([balance EXCEPT ![tx.to] = jBalance[tx.to]],
            [nonce EXCEPT ![tx.to] = jNonce[tx.to]])

\* apply_pre_execution_changes is done.
PreDone ==
    /\ step = "pre"
    /\ calls = <<>>
    /\ step' = "next"
    /\ UNCHANGED <<blockVars, callVars, stateVars, journalVars, tx, gas, owed, tried>>

\* execute_transaction_without_commit: the next transaction of the block.
BeginTx == \E t \in Txs :
    /\ step = "next"
    /\ tried < MaxTried
    /\ tried' = tried + 1
    /\ Begin(t)
    /\ UNCHANGED <<blockVars, callVars, stateVars>>

\* What revm checks before the handler's own step (external).
EnvAccepts(t) ==
    /\ t.max_fee >= env.basefee
    /\ t.max_priority_fee # None => t.max_priority_fee <= t.max_fee
    /\ t.gas_limit <= env.gas_limit
    /\ t.gas_limit >= IntrinsicGas

\* The fee for the whole gas limit: effective_balance_spending - value.
gas_balance_spending == tx.gas_limit * price

Charge(newNonce, newBalance) ==
    /\ step = "deduct"
    /\ EnvAccepts(tx)
    /\ env.disable_nonce_check \/ jNonce[tx.caller] = tx.nonce
    /\ jNonce' = [jNonce EXCEPT ![tx.caller] = newNonce]
    /\ jBalance' = [jBalance EXCEPT ![tx.caller] = newBalance]
    /\ owed' = saturating_sub(gas_balance_spending, jBalance[tx.caller])
    /\ step' = "execute"
    /\ UNCHANGED <<blockVars, callVars, stateVars, tx, gas, tried>>

\* Bug: the nonce is left for the frame to bump, as for a create.
Deduct_NoBump ==
    Charge(jNonce[tx.caller], saturating_sub(jBalance[tx.caller], gas_balance_spending))

\* Bug: the subtraction does not stop at zero.
Deduct_Unchecked ==
    Charge(IF tx.is_call THEN jNonce[tx.caller] + 1 ELSE jNonce[tx.caller],
           jBalance[tx.caller] - gas_balance_spending)

\* validate_against_state_and_deduct_caller: the nonce is checked and, for a
\* call, bumped; the fee is deducted as far as the balance goes.
Deduct ==
    Charge(IF tx.is_call THEN jNonce[tx.caller] + 1 ELSE jNonce[tx.caller],
           saturating_sub(jBalance[tx.caller], gas_balance_spending))

\* The transaction is refused: what was done of it is dropped.  A builder goes
\* on to the next one; the import of a block, or its system calls, end here.
Refused ==
    /\ step = "deduct"
    /\ SwapBack
    /\ tx' = None
    /\ owed' = 0
    /\ step' \in IF saved = None THEN {"next", "failed"} ELSE {"failed"}
    /\ UNCHANGED <<blockVars, stateVars, journalVars, calls, gas, tried>>

FrameNonce ==
    jNonce' = IF tx.is_call THEN jNonce ELSE [jNonce EXCEPT ![tx.caller] = @ + 1]

MoveValue ==
    /\ jBalance[tx.caller] >= tx.value
    /\ jBalance' = [[jBalance EXCEPT ![tx.caller] = @ - tx.value]
                       EXCEPT ![tx.to] = @ + tx.value]

\* The frame (external): it spends gas and earns a refund, and moves the value
\* if it succeeds and the caller has it; a create bumps the nonce unless it
\* stops before.
Execute ==
    /\ step = "execute"
    /\ \E spent \in IntrinsicGas .. tx.gas_limit :
         \E refunded \in 0 .. (spent \div MaxRefundQuotient) :
           gas' = [spent |-> spent, refunded |-> refunded]
    /\ \/ UNCHANGED journalVars
       \/ FrameNonce /\ (UNCHANGED jBalance \/ MoveValue)
    /\ step' = "reimburse"
    /\ UNCHANGED <<blockVars, callVars, stateVars, tx, owed, tried>>

\* Bug: the refund is left out, as where it is part of the remaining gas.
reimburse_caller_NoRefund ==
    /\ step = "reimburse"
    /\ Credit(tx.caller, price * (tx.gas_limit - gas.spent))
    /\ step' = "reward"
    /\ UNCHANGED <<blockVars, callVars, stateVars, jNonce, tx, gas, owed, tried>>

\* (remaining + refunded) * effective_gas_price go back to the caller.
reimburse_caller ==
    /\ step = "reimburse"
    /\ Credit(tx.caller, price * ((tx.gas_limit - gas.spent) + gas.refunded))
    /\ step' = "reward"
    /\ UNCHANGED <<blockVars, callVars, stateVars, jNonce, tx, gas, owed, tried>>

\* Bug: the base fee is charged for refunded gas as well.
reward_beneficiary_Spent ==
    /\ step = "reward"
    /\ LET tip == coinbase_gas_price(tx, env.basefee) * SpentMinusRefund
           base == env.basefee * gas.spent
           paid == [jBalance EXCEPT ![env.beneficiary] = @ + tip]
       IN  jBalance' = [paid EXCEPT ![Treasury] = @ + base]
    /\ step' = "commit"
    /\ UNCHANGED <<blockVars, callVars, stateVars, jNonce, tx, gas, owed, tried>>

\* The tip goes to the beneficiary and the base fee to the treasury.
reward_beneficiary ==
    /\ step = "reward"
    /\ LET tip == coinbase_gas_price(tx, env.basefee) * SpentMinusRefund
           base == env.basefee * SpentMinusRefund
           paid == [jBalance EXCEPT ![env.beneficiary] = @ + tip]
       IN  jBalance' = [paid EXCEPT ![Treasury] = @ + base]
    /\ step' = "commit"
    /\ UNCHANGED <<blockVars, callVars, stateVars, jNonce, tx, gas, owed, tried>>

\* A fatal error of the database while a transaction runs, or of the system
\* calls before one is made: the block is lost.
ExecutionFails ==
    /\ step \in {"pre", "deduct", "execute", "reimburse", "reward"}
    /\ SwapBack
    /\ tx' = None
    /\ owed' = 0
    /\ step' = "failed"
    /\ UNCHANGED <<blockVars, stateVars, journalVars, calls, gas, tried>>

\* commit_transaction: gas, receipt, state.
commit_transaction ==
    /\ step = "commit"
    /\ saved = None
    /\ gas_used' = gas_used + SpentMinusRefund
    /\ receipts' = Append(receipts, gas_used')
    /\ balance' = jBalance
    /\ nonce' = jNonce
    /\ executed' = Append(executed, tx)
    /\ shortfall' = shortfall + owed
    /\ owed' = 0
    /\ tx' = None
    /\ step' = "next"
    /\ UNCHANGED <<blockVars, callVars, journalVars, gas, tried>>

\* finish: no balance moves.
finish ==
    /\ step = "next"
    /\ step' = "finished"
    /\ UNCHANGED <<blockVars, callVars, stateVars, journalVars, tx, gas, owed, tried>>

ExecutorNext ==
    \/ BeginSystemCall \/ EndSystemCall \/ PreDone
    \/ BeginTx \/ Deduct \/ Refused \/ Execute \/ reimburse_caller
    \/ reward_beneficiary \/ ExecutionFails \/ commit_transaction \/ finish
    \/ step \in {"finished", "failed"} /\ UNCHANGED execVars

ExecutorSpec == ExecutorInit /\ [][ExecutorNext]_execVars

------------------------------------------------------------------------------
(* Properties                                                              *)

\* Fees are moved, not made: between transactions the accounts hold what they
\* held at the start of the block plus exactly the fees callers were let off
\* because their balance did not reach (saturating_sub in
\* validate_against_state_and_deduct_caller), whatever accounts coincide,
\* whatever was refunded, reverted or refused.
FeesConserved ==
    step \in {"pre", "next", "finished", "failed"} =>
        SumFunction(balance) = SumFunction(start) + shortfall

\* A treasury that takes part in no transaction otherwise has received the base
\* fee for the gas the block reports as used, and nothing else.
TreasuryIncome ==
    /\ block.beneficiary # Treasury
    /\ \A i \in DOMAIN executed : Treasury \notin {executed[i].caller, executed[i].to}
    =>  balance[Treasury] = start[Treasury] + block.basefee * gas_used

\* A system call costs nothing and leaves nothing behind for the transactions
\* (transact_system_call): outside of one the EVM has the gas limit, the base fee
\* and the nonce check of the block again, also after an error, and up to the
\* first transaction every balance and nonce is the one the block started from,
\* even where the contract is the beneficiary or the treasury.
SystemCallsLeaveNoTrace ==
    /\ saved = None => env = block
    /\ executed = <<>> => balance = start /\ nonce = [a \in Accounts |-> 0]

\* A call that was executed cannot be executed again: its caller's nonce has
\* passed it, and no two calls in the block have the same caller and nonce.
CallsRunOnce ==
    \A i \in DOMAIN executed : executed[i].is_call =>
        /\ nonce[executed[i].caller] > executed[i].nonce
        /\ \A k \in DOMAIN executed : k # i /\ executed[k].is_call =>
             \/ executed[k].caller # executed[i].caller
             \/ executed[k].nonce # executed[i].nonce
==============================================================================
