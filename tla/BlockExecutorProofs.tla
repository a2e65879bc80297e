-------------------------- MODULE BlockExecutorProofs --------------------------
(***************************************************************************)
(* Theorems about the executor, for every set of accounts, transactions,   *)
(* environments and system calls.                                          *)
(***************************************************************************)
EXTENDS BlockExecutor, SumTheorems, SequenceTheorems, TLAPS

USE TxFeesAssumption, BlockExecutorAssumption

------------------------------------------------------------------------------
(* Prices                                                                  *)

\* A price is a natural number, and so is the beneficiary's part of it.
LEMMA PriceType ==
    ASSUME NEW t, t.max_fee \in Nat, t.max_priority_fee \in Nat \cup {None},
           NEW basefee \in Nat
    PROVE  /\ effective_gas_price(t, basefee) \in Nat
           /\ coinbase_gas_price(t, basefee) \in Nat
BY DEF effective_gas_price, coinbase_gas_price, Lesser, saturating_sub

\* saturating_sub stays within the natural numbers.
LEMMA SaturatingSubType ==
    ASSUME NEW a \in Nat, NEW b \in Nat
    PROVE  saturating_sub(a, b) \in Nat
BY DEF saturating_sub

\* So does a product.
LEMMA ProductType ==
    ASSUME NEW a \in Nat, NEW b \in Nat
    PROVE  a * b \in Nat
OBVIOUS

\* An update of one account keeps the type of a table.
LEMMA UpdateType ==
    ASSUME NEW f \in [Accounts -> Nat], NEW a \in Accounts, NEW v \in Nat
    PROVE  [f EXCEPT ![a] = v] \in [Accounts -> Nat]
OBVIOUS

\* The parts of a system call.
LEMMA SystemTxParts ==
    ASSUME tx \in SystemTxs
    PROVE  /\ tx.caller = SystemAddress /\ tx.to \in Accounts \ {SystemAddress}
           /\ tx.value = 0 /\ tx.nonce = 0 /\ tx.gas_limit = SystemGas
           /\ tx.max_fee = 0 /\ tx.max_priority_fee = None
           /\ tx.is_call = TRUE
BY DEF SystemTxs, SystemTx

\* An environment of a block is one of the EVM.
LEMMA EnvTypes ==
    ASSUME NEW e \in Envs
    PROVE  e \in [beneficiary : Accounts, basefee : Nat, gas_limit : Nat,
                  disable_nonce_check : BOOLEAN]
OBVIOUS

\* The parts of a transaction.
LEMMA TxTypes ==
    ASSUME tx \in Txs \cup SystemTxs
    PROVE  /\ tx.caller \in Accounts /\ tx.to \in Accounts
           /\ tx.value \in Nat /\ tx.nonce \in Nat /\ tx.gas_limit \in Nat
           /\ tx.max_fee \in Nat /\ tx.max_priority_fee \in Nat \cup {None}
           /\ tx.is_call \in BOOLEAN
<1>1. CASE tx \in Txs
  BY <1>1
<1>2. CASE tx \in SystemTxs
  <2>1. tx.is_call \in BOOLEAN
    BY <1>2, SystemTxParts, Zenon
  <2> QED BY <1>2, <2>1, SystemTxParts
<1> QED BY <1>1, <1>2

------------------------------------------------------------------------------
(* Types                                                                   *)

InHandler == {"deduct", "execute", "reimburse", "reward"}

\* The types, that the EVM has the environment of the block outside of a system
\* call, and that a transaction never spends more than its gas limit.
ExecutorInv ==
    /\ ExecutorTypeOK
    /\ saved = None => env = block
    /\ saved # None => /\ saved = block /\ env.basefee = 0 /\ calls # <<>>
                       /\ step \in InHandler \cup {"commit"}
    /\ step \in {"reimburse", "reward", "commit"} => gas.spent <= tx.gas_limit

\* The amounts the handler moves are natural numbers.
LEMMA AmountTypes ==
    ASSUME ExecutorTypeOK, tx \in Txs \cup SystemTxs
    PROVE  /\ price \in Nat
           /\ gas_balance_spending \in Nat
           /\ SpentMinusRefund \in Nat
           /\ env.basefee * SpentMinusRefund \in Nat
           /\ coinbase_gas_price(tx, env.basefee) * SpentMinusRefund \in Nat
<1>1. /\ env.basefee \in Nat /\ tx.gas_limit \in Nat
      /\ gas.spent \in Nat /\ gas.refunded \in Nat
  BY TxTypes DEF ExecutorTypeOK
<1>2. price \in Nat /\ coinbase_gas_price(tx, env.basefee) \in Nat
  BY <1>1, TxTypes, PriceType DEF price
<1>3. SpentMinusRefund \in Nat
  BY <1>1, SaturatingSubType DEF SpentMinusRefund
<1> QED BY <1>1, <1>2, <1>3, ProductType DEF gas_balance_spending

\* Init establishes the invariant and every step keeps it.
THEOREM ExecutorInvHolds == ExecutorSpec => []ExecutorInv
<1>1. ExecutorInit => ExecutorInv
  BY EnvTypes DEF ExecutorInit, ExecutorInv, ExecutorTypeOK, NoGas, InHandler
<1>2. ASSUME ExecutorInv, [ExecutorNext]_execVars
      PROVE  ExecutorInv'
  <2> USE <1>2 DEF ExecutorInv, InHandler
  <2>1. CASE UNCHANGED execVars
    BY <2>1 DEF ExecutorTypeOK, execVars, blockVars, callVars, stateVars, journalVars
  <2>2. CASE BeginTx
    <3>1. PICK t \in Txs : Begin(t)
      BY <2>2 DEF BeginTx
    <3>2. saved' = None /\ tx' \in Txs /\ gas' \in [spent : Nat, refunded : Nat]
      BY <2>2, <3>1 DEF BeginTx, Begin, callVars, NoGas
    <3>3. tried' \in Nat
      BY <2>2 DEF BeginTx, ExecutorTypeOK
    <3> QED
      BY <2>2, <3>1, <3>2, <3>3
      DEF BeginTx, Begin, ExecutorTypeOK, blockVars, callVars, stateVars
  <2>3. CASE Deduct
    <3>1. tx \in Txs \cup SystemTxs
      BY <2>3 DEF Deduct, Charge, ExecutorTypeOK
    <3>2. /\ jBalance[tx.caller] \in Nat
          /\ jBalance \in [Accounts -> Nat] /\ jNonce \in [Accounts -> Nat]
      BY <3>1, TxTypes DEF ExecutorTypeOK
    <3>3. /\ saturating_sub(jBalance[tx.caller], gas_balance_spending) \in Nat
          /\ saturating_sub(gas_balance_spending, jBalance[tx.caller]) \in Nat
      BY <3>1, <3>2, AmountTypes, SaturatingSubType
    <3>4. jBalance' \in [Accounts -> Nat] /\ jNonce' \in [Accounts -> Nat] /\ owed' \in Nat
      <4>1. jNonce[tx.caller] \in Nat /\ jNonce[tx.caller] + 1 \in Nat /\ tx.caller \in Accounts
        BY <3>1, <3>2, TxTypes
      <4> QED BY <2>3, <3>2, <3>3, <4>1, UpdateType DEF Deduct, Charge
    <3> QED
      BY <2>3, <3>1, <3>4 DEF Deduct, Charge, ExecutorTypeOK, blockVars, callVars, stateVars
  <2>4. CASE Refused
    BY <2>4 DEF Refused, SwapBack, ExecutorTypeOK, blockVars, callVars, stateVars, journalVars
  <2>5. CASE Execute
    <3>1. tx \in Txs \cup SystemTxs
      BY <2>5 DEF Execute, ExecutorTypeOK
    <3>2. gas' \in [spent : Nat, refunded : Nat] /\ gas'.spent <= tx.gas_limit
      BY <2>5, <3>1 DEF Execute
    <3>3. jNonce' \in [Accounts -> Nat]
      <4>1. jNonce' = jNonce \/ jNonce' = [jNonce EXCEPT ![tx.caller] = @ + 1]
        BY <2>5 DEF Execute, FrameNonce, journalVars
      <4>2. jNonce \in [Accounts -> Nat]
        BY DEF ExecutorTypeOK
      <4>3. jNonce[tx.caller] + 1 \in Nat
        BY <3>1, <4>2, TxTypes
      <4> QED BY <3>1, <4>1, <4>2, <4>3, TxTypes, UpdateType
    <3>4. jBalance' \in [Accounts -> Nat]
      <4> DEFINE less == [jBalance EXCEPT ![tx.caller] = @ - tx.value]
      <4>1. jBalance \in [Accounts -> Nat]
        BY DEF ExecutorTypeOK
      <4>2. ASSUME MoveValue PROVE jBalance' \in [Accounts -> Nat]
        <5>1. jBalance[tx.caller] - tx.value \in Nat
          BY <3>1, <4>1, <4>2, TxTypes DEF MoveValue
        <5>2. less \in [Accounts -> Nat]
          BY <3>1, <4>1, <5>1, TxTypes, UpdateType
        <5>3. jBalance' = [less EXCEPT ![tx.to] = @ + tx.value]
          BY <4>2 DEF MoveValue
        <5> HIDE DEF less
        <5>4. less[tx.to] + tx.value \in Nat
          BY <3>1, <5>2, TxTypes
        <5> QED BY <3>1, <5>2, <5>3, <5>4, TxTypes, UpdateType
      <4>3. jBalance' = jBalance \/ MoveValue
        BY <2>5 DEF Execute, journalVars
      <4> QED BY <4>1, <4>2, <4>3
    <3> QED
      BY <2>5, <3>2, <3>3, <3>4 DEF Execute, ExecutorTypeOK, blockVars, callVars, stateVars
  <2>6. CASE reimburse_caller
    <3>1. tx \in Txs \cup SystemTxs /\ price \in Nat
      BY <2>6, AmountTypes DEF reimburse_caller, ExecutorTypeOK
    <3>2. (tx.gas_limit - gas.spent) + gas.refunded \in Nat
      <4>1. gas.spent \in Nat /\ gas.refunded \in Nat /\ gas.spent <= tx.gas_limit
        BY <2>6 DEF reimburse_caller, ExecutorTypeOK
      <4> QED BY <3>1, <4>1, TxTypes
    <3>3. price * ((tx.gas_limit - gas.spent) + gas.refunded) \in Nat
      BY <3>1, <3>2, ProductType
    <3>4. jBalance' \in [Accounts -> Nat]
      <4> DEFINE back == price * ((tx.gas_limit - gas.spent) + gas.refunded)
      <4>1. jBalance' = [jBalance EXCEPT ![tx.caller] = @ + back]
        BY <2>6 DEF reimburse_caller, Credit
      <4>2. jBalance \in [Accounts -> Nat] /\ back \in Nat
        BY <3>3 DEF ExecutorTypeOK
      <4> HIDE DEF back
      <4>3. jBalance[tx.caller] + back \in Nat
        BY <3>1, <4>2, TxTypes
      <4> QED BY <3>1, <4>1, <4>2, <4>3, TxTypes, UpdateType
    <3> QED
      BY <2>6, <3>4 DEF reimburse_caller, ExecutorTypeOK, blockVars, callVars, stateVars
  <2>7. CASE reward_beneficiary
    <3>1. tx \in Txs \cup SystemTxs /\ env.beneficiary \in Accounts
      BY <2>7 DEF reward_beneficiary, ExecutorTypeOK
    <3>2. jBalance' \in [Accounts -> Nat]
      <4> DEFINE tip == coinbase_gas_price(tx, env.basefee) * SpentMinusRefund
                 base == env.basefee * SpentMinusRefund
                 paid == [jBalance EXCEPT ![env.beneficiary] = @ + tip]
      <4>1. jBalance' = [paid EXCEPT ![Treasury] = @ + base]
        BY <2>7 DEF reward_beneficiary
      <4>2. tip \in Nat /\ base \in Nat /\ jBalance \in [Accounts -> Nat]
        BY <3>1, AmountTypes DEF ExecutorTypeOK
      <4> HIDE DEF tip, base
      <4>3. jBalance[env.beneficiary] + tip \in Nat
        BY <3>1, <4>2
      <4>4. paid \in [Accounts -> Nat]
        BY <3>1, <4>2, <4>3, UpdateType
      <4> HIDE DEF paid
      <4>5. paid[Treasury] + base \in Nat
        BY <4>2, <4>4
      <4> QED BY <4>1, <4>4, <4>5, UpdateType
    <3> QED
      BY <2>7, <3>2 DEF reward_beneficiary, ExecutorTypeOK, blockVars, callVars, stateVars
  <2>8. CASE ExecutionFails
    BY <2>8
    DEF ExecutionFails, SwapBack, ExecutorTypeOK, blockVars, callVars, stateVars,
        journalVars
  <2>9. CASE commit_transaction
    <3>1. tx \in Txs /\ SpentMinusRefund \in Nat
      BY <2>9, AmountTypes DEF commit_transaction, ExecutorTypeOK
    <3>2. gas_used' \in Nat /\ shortfall' \in Nat
      <4>1. gas_used \in Nat /\ shortfall \in Nat /\ owed \in Nat
        BY DEF ExecutorTypeOK
      <4> QED BY <2>9, <3>1, <4>1 DEF commit_transaction
    <3>3. receipts' \in Seq(Nat) /\ executed' \in Seq(Txs)
      <4>1. receipts \in Seq(Nat) /\ executed \in Seq(Txs)
        BY DEF ExecutorTypeOK
      <4>2. receipts' = Append(receipts, gas_used') /\ executed' = Append(executed, tx)
        BY <2>9 DEF commit_transaction
      <4> QED BY <3>1, <3>2, <4>1, <4>2, AppendProperties
    <3> QED
      BY <2>9, <3>2, <3>3
      DEF commit_transaction, ExecutorTypeOK, blockVars, callVars, journalVars
  <2>10. CASE finish
    BY <2>10 DEF finish, ExecutorTypeOK, blockVars, callVars, stateVars, journalVars
  <2>11. CASE BeginSystemCall
    <3>1. saved = None /\ env = block /\ env \in Envs
      BY <2>11 DEF BeginSystemCall, ExecutorTypeOK
    <3>2. saved' = block /\ saved' # None /\ saved' \in Envs
      BY <2>11, <3>1 DEF BeginSystemCall
    <3>3. /\ env' \in [beneficiary : Accounts, basefee : Nat, gas_limit : Nat,
                       disable_nonce_check : BOOLEAN]
          /\ env'.basefee = 0
      BY <2>11, <3>1 DEF BeginSystemCall
    <3>4. tx' \in SystemTxs
      <4>1. Head(calls) \in Accounts \ {SystemAddress}
        <5>1. calls \in Seq(Accounts \ {SystemAddress}) /\ calls # <<>>
          BY <2>11 DEF BeginSystemCall, ExecutorTypeOK
        <5> QED BY <5>1, HeadTailProperties
      <4> QED BY <2>11, <4>1 DEF BeginSystemCall, Begin, SystemTxs
    <3> QED
      BY <2>11, <3>2, <3>3, <3>4
      DEF BeginSystemCall, Begin, ExecutorTypeOK, blockVars, stateVars, NoGas
  <2>12. CASE EndSystemCall
    <3>1. tx \in SystemTxs /\ tx.to \in Accounts
      BY <2>12, TxTypes DEF EndSystemCall, EndWith, ExecutorTypeOK
    <3>2. /\ jBalance[tx.to] \in Nat /\ balance \in [Accounts -> Nat]
          /\ jNonce[tx.to] \in Nat /\ nonce \in [Accounts -> Nat]
      BY <3>1 DEF ExecutorTypeOK
    <3>3. balance' \in [Accounts -> Nat] /\ nonce' \in [Accounts -> Nat]
      BY <2>12, <3>1, <3>2, UpdateType DEF EndSystemCall, EndWith
    <3>4. calls' \in Seq(Accounts \ {SystemAddress})
      BY <2>12 DEF EndSystemCall, EndWith, ExecutorTypeOK
    <3>5. env' = block /\ saved' = None
      BY <2>12 DEF EndSystemCall, EndWith, SwapBack
    <3>6. env' \in [beneficiary : Accounts, basefee : Nat, gas_limit : Nat,
                    disable_nonce_check : BOOLEAN]
      BY <3>5, EnvTypes DEF ExecutorTypeOK
    <3> QED
      BY <2>12, <3>3, <3>4, <3>5, <3>6
      DEF EndSystemCall, EndWith, ExecutorTypeOK, blockVars, journalVars, NoGas
  <2>13. CASE PreDone
    BY <2>13 DEF PreDone, ExecutorTypeOK, blockVars, callVars, stateVars, journalVars
  <2> QED
    BY <2>1, <2>2, <2>3, <2>4, <2>5, <2>6, <2>7, <2>8, <2>9, <2>10, <2>11, <2>12, <2>13
    DEF ExecutorNext
<1> QED BY <1>1, <1>2, PTL DEF ExecutorSpec

\* Balances and nonces stay natural numbers: the deduction saturates, a value
\* moves only from a balance that holds it, and the gas given back is never
\* negative.
THEOREM ExecutorTypesHold == ExecutorSpec => []ExecutorTypeOK
<1>1. ExecutorInv => ExecutorTypeOK
  BY DEF ExecutorInv
<1> QED BY <1>1, ExecutorInvHolds, PTL

------------------------------------------------------------------------------
(* System calls                                                            *)

\* A system call is made for nothing: nothing is taken, given back or paid out.
LEMMA SystemCallIsFree ==
    ASSUME ExecutorTypeOK, tx \in SystemTxs, env.basefee = 0
    PROVE  /\ price = 0
           /\ gas_balance_spending = 0
           /\ coinbase_gas_price(tx, env.basefee) = 0
<1>1. tx.max_fee = 0 /\ tx.max_priority_fee = None /\ tx.gas_limit = SystemGas
  BY SystemTxParts
<1>2. effective_gas_price(tx, 0) = 0 /\ coinbase_gas_price(tx, 0) = 0
  BY <1>1 DEF effective_gas_price, coinbase_gas_price, saturating_sub, Lesser
<1>3. price = 0
  BY <1>2 DEF price
<1> QED BY <1>1, <1>2, <1>3 DEF gas_balance_spending

\* Adding or subtracting nothing changes no balance.
LEMMA NoChange ==
    ASSUME NEW f \in [Accounts -> Nat], NEW a \in Accounts, NEW v, v = f[a]
    PROVE  [f EXCEPT ![a] = v] = f
OBVIOUS

\* While a system call runs, the journal differs from the state in the nonce of
\* its caller alone; before the first transaction the state is the initial one.
NoTraceInv ==
    /\ executed = <<>> => balance = start /\ nonce = [a \in Accounts |-> 0]
    /\ step = "pre" => executed = <<>>
    /\ saved # None =>
         /\ executed = <<>>
         /\ jBalance = balance
         /\ \A a \in Accounts \ {SystemAddress} : jNonce[a] = nonce[a]

\* The account of the contract is all that is kept of it, and is unchanged.
LEMMA EndIsFree ==
    ASSUME ExecutorInv, NoTraceInv, EndSystemCall
    PROVE  balance' = balance /\ nonce' = nonce
<1>1. /\ tx \in SystemTxs
      /\ balance \in [Accounts -> Nat] /\ nonce \in [Accounts -> Nat]
  BY DEF EndSystemCall, EndWith, ExecutorInv, ExecutorTypeOK
<1>2. tx.to \in Accounts \ {SystemAddress}
  BY <1>1, SystemTxParts
<1>3. jBalance[tx.to] = balance[tx.to] /\ jNonce[tx.to] = nonce[tx.to]
  BY <1>2 DEF EndSystemCall, EndWith, NoTraceInv
<1> QED BY <1>1, <1>2, <1>3, NoChange DEF EndSystemCall, EndWith

\* Before the first transaction nothing has changed.
THEOREM NoTraceInvHolds == ExecutorSpec => []NoTraceInv
<1>1. ExecutorInit => NoTraceInv
  BY DEF ExecutorInit, NoTraceInv
<1>2. ASSUME ExecutorInv, NoTraceInv, [ExecutorNext]_execVars
      PROVE  NoTraceInv'
  <2> USE <1>2 DEF ExecutorInv
  <2>0. balance \in [Accounts -> Nat] /\ jBalance \in [Accounts -> Nat]
    BY DEF ExecutorTypeOK
  <2>1. CASE UNCHANGED execVars
    BY <2>1 DEF NoTraceInv, execVars, blockVars, callVars, stateVars, journalVars
  <2>2. CASE BeginTx
    <3>1. saved' = None /\ step' = "deduct"
      BY <2>2 DEF BeginTx, Begin, callVars, InHandler
    <3> QED BY <2>2, <3>1 DEF BeginTx, NoTraceInv, blockVars, stateVars
  <2>3. CASE Deduct
    <3> SUFFICES ASSUME saved # None
                 PROVE  /\ jBalance' = balance
                        /\ \A a \in Accounts \ {SystemAddress} : jNonce'[a] = nonce[a]
      BY <2>3 DEF Deduct, Charge, NoTraceInv, blockVars, callVars, stateVars
    <3>1. tx \in SystemTxs /\ env.basefee = 0 /\ jNonce \in [Accounts -> Nat]
      BY <2>3 DEF Deduct, Charge, ExecutorTypeOK
    <3>2. tx.caller = SystemAddress
      BY <3>1, SystemTxParts
    <3>3. saturating_sub(jBalance[SystemAddress], gas_balance_spending) = jBalance[SystemAddress]
      BY <2>0, <3>1, SystemCallIsFree DEF saturating_sub
    <3>4. jBalance' = jBalance
      BY <2>0, <2>3, <3>2, <3>3, NoChange DEF Deduct, Charge
    <3>5. \A a \in Accounts \ {SystemAddress} : jNonce'[a] = jNonce[a]
      BY <2>3, <3>1, <3>2 DEF Deduct, Charge
    <3> QED BY <3>4, <3>5 DEF NoTraceInv
  <2>4. CASE Refused
    BY <2>4 DEF Refused, SwapBack, NoTraceInv, blockVars, stateVars
  <2>5. CASE Execute
    <3> SUFFICES ASSUME saved # None
                 PROVE  /\ jBalance' = balance
                        /\ \A a \in Accounts \ {SystemAddress} : jNonce'[a] = nonce[a]
      BY <2>5 DEF Execute, NoTraceInv, blockVars, callVars, stateVars
    <3>1. tx \in SystemTxs
      BY <2>5 DEF Execute, ExecutorTypeOK
    <3>2. jNonce' = jNonce
      BY <2>5, <3>1, SystemTxParts DEF Execute, FrameNonce, journalVars
    <3>3. ASSUME MoveValue PROVE jBalance' = jBalance
      <4>1. tx.value = 0 /\ tx.caller \in Accounts /\ tx.to \in Accounts
        BY <3>1, SystemTxParts
      <4>2. [jBalance EXCEPT ![tx.caller] = @ - tx.value] = jBalance
        BY <2>0, <4>1, NoChange
      <4>3. [jBalance EXCEPT ![tx.to] = @ + tx.value] = jBalance
        BY <2>0, <4>1, NoChange
      <4> QED BY <3>3, <4>2, <4>3 DEF MoveValue
    <3>4. jBalance' = jBalance
      BY <2>5, <3>3 DEF Execute, journalVars
    <3> QED BY <3>2, <3>4 DEF NoTraceInv
  <2>6. CASE reimburse_caller
    <3> SUFFICES ASSUME saved # None PROVE jBalance' = balance
      BY <2>6 DEF reimburse_caller, NoTraceInv, blockVars, callVars, stateVars
    <3>1. tx \in SystemTxs /\ env.basefee = 0
      BY <2>6 DEF reimburse_caller, ExecutorTypeOK
    <3>2. price * ((tx.gas_limit - gas.spent) + gas.refunded) = 0
      <4>1. tx.gas_limit \in Nat /\ gas.spent \in Nat /\ gas.refunded \in Nat
        BY <3>1, TxTypes DEF ExecutorTypeOK
      <4> QED BY <3>1, <4>1, SystemCallIsFree
    <3>3. jBalance' = jBalance
      BY <2>0, <2>6, <3>1, <3>2, TxTypes, NoChange DEF reimburse_caller, Credit
    <3> QED BY <3>3 DEF NoTraceInv
  <2>7. CASE reward_beneficiary
    <3> SUFFICES ASSUME saved # None PROVE jBalance' = balance
      BY <2>7 DEF reward_beneficiary, NoTraceInv, blockVars, callVars, stateVars
    <3>1. tx \in SystemTxs /\ env.basefee = 0 /\ env.beneficiary \in Accounts
      BY <2>7 DEF reward_beneficiary, ExecutorTypeOK
    <3> DEFINE tip == coinbase_gas_price(tx, env.basefee) * SpentMinusRefund
               base == env.basefee * SpentMinusRefund
               paid == [jBalance EXCEPT ![env.beneficiary] = @ + tip]
    <3>2. SpentMinusRefund \in Nat
      BY <3>1, AmountTypes
    <3>3. tip = 0 /\ base = 0
      BY <3>1, <3>2, SystemCallIsFree
    <3>4. jBalance' = [paid EXCEPT ![Treasury] = @ + base]
      BY <2>7 DEF reward_beneficiary
    <3> HIDE DEF tip, base
    <3>5. paid = jBalance
      BY <2>0, <3>1, <3>3, NoChange
    <3> HIDE DEF paid
    <3>6. jBalance' = jBalance
      BY <2>0, <3>3, <3>4, <3>5, NoChange
    <3> QED BY <3>6 DEF NoTraceInv
  <2>8. CASE ExecutionFails
    BY <2>8 DEF ExecutionFails, SwapBack, NoTraceInv, blockVars, stateVars
  <2>9. CASE commit_transaction
    <3>1. executed \in Seq(Txs) /\ tx \in Txs /\ executed' = Append(executed, tx)
      BY <2>9 DEF commit_transaction, ExecutorTypeOK
    <3>2. executed' # <<>>
      BY <3>1, AppendProperties
    <3>3. saved' = None /\ step' = "next"
      BY <2>9 DEF commit_transaction, callVars
    <3> QED BY <3>2, <3>3 DEF NoTraceInv
  <2>10. CASE finish
    BY <2>10 DEF finish, NoTraceInv, blockVars, callVars, stateVars, journalVars
  <2>11. CASE BeginSystemCall
    BY <2>11 DEF BeginSystemCall, Begin, NoTraceInv, blockVars, stateVars
  <2>12. CASE EndSystemCall
    <3>1. balance' = balance /\ nonce' = nonce
      BY <2>12, EndIsFree
    <3>2. saved # None /\ saved' = None /\ executed' = executed /\ start' = start
      BY <2>12 DEF EndSystemCall, EndWith, SwapBack, blockVars
    <3> QED BY <3>1, <3>2 DEF NoTraceInv
  <2>13. CASE PreDone
    BY <2>13 DEF PreDone, NoTraceInv, blockVars, callVars, stateVars, journalVars
  <2> QED
    BY <2>1, <2>2, <2>3, <2>4, <2>5, <2>6, <2>7, <2>8, <2>9, <2>10, <2>11, <2>12, <2>13
    DEF ExecutorNext
<1> QED BY <1>1, <1>2, ExecutorInvHolds, PTL DEF ExecutorSpec

\* Whatever the forks of a block make it call, the transactions find the state
\* and the environment they would find without (transact_system_call).
THEOREM SystemCallsLeaveNoTraceHolds == ExecutorSpec => []SystemCallsLeaveNoTrace
<1>1. ExecutorInv /\ NoTraceInv => SystemCallsLeaveNoTrace
  BY DEF ExecutorInv, NoTraceInv, SystemCallsLeaveNoTrace
<1> QED BY <1>1, ExecutorInvHolds, NoTraceInvHolds, PTL

------------------------------------------------------------------------------
(* The treasury                                                            *)

Apart(t) == Treasury \notin {t.caller, t.to}

\* While no executed transaction touches the treasury otherwise, its committed
\* balance is accounted for; a transaction that does not touch it leaves its
\* balance in the journal alone up to the reward, which adds the base fee.
TreasuryInv ==
    /\ block.beneficiary # Treasury
    /\ \A i \in DOMAIN executed : Apart(executed[i])
    =>  /\ balance[Treasury] = start[Treasury] + block.basefee * gas_used
        /\ saved = None /\ step \in InHandler /\ Apart(tx) =>
             jBalance[Treasury] = balance[Treasury]
        /\ saved = None /\ step = "commit" /\ Apart(tx) =>
             jBalance[Treasury] = balance[Treasury] + block.basefee * SpentMinusRefund

\* What the executed sequence says after one more transaction.
LEMMA ExecutedGrows ==
    ASSUME ExecutorTypeOK, commit_transaction, tx \in Txs
    PROVE  /\ DOMAIN executed' = DOMAIN executed \cup {Len(executed) + 1}
           /\ \A i \in DOMAIN executed : executed'[i] = executed[i]
           /\ executed'[Len(executed) + 1] = tx
<1>1. executed \in Seq(Txs) /\ executed' = Append(executed, tx)
  BY DEF commit_transaction, ExecutorTypeOK
<1> QED BY <1>1

\* A treasury that is no beneficiary, caller or recipient of the block gains
\* exactly the base fee times the gas the executor reports (reward_beneficiary
\* against commit_transaction), whatever was refunded, refused or reverted.
THEOREM TreasuryIncomeHolds == ExecutorSpec => []TreasuryIncome
<1>1. ExecutorInit => TreasuryInv
  <2> SUFFICES ASSUME ExecutorInit PROVE TreasuryInv OBVIOUS
  <2>1. start[Treasury] \in Nat /\ block.basefee \in Nat
    BY DEF ExecutorInit
  <2> QED BY <2>1 DEF ExecutorInit, TreasuryInv, InHandler
<1>2. ASSUME ExecutorInv, NoTraceInv, TreasuryInv, [ExecutorNext]_execVars
      PROVE  TreasuryInv'
  <2> USE <1>2 DEF ExecutorInv
  <2>1. CASE UNCHANGED execVars
    BY <2>1 DEF TreasuryInv, Apart, SpentMinusRefund, execVars, blockVars, callVars, stateVars,
                journalVars
  <2>2. CASE BeginTx
    BY <2>2 DEF BeginTx, Begin, TreasuryInv, Apart, InHandler, blockVars, callVars, stateVars
  <2>3. CASE Deduct
    <3>1. tx \in Txs \cup SystemTxs /\ jBalance \in [Accounts -> Nat]
      BY <2>3 DEF Deduct, Charge, ExecutorTypeOK
    <3>2. Apart(tx) => jBalance'[Treasury] = jBalance[Treasury]
      BY <2>3, <3>1, TxTypes DEF Deduct, Charge, Apart
    <3> QED
      BY <2>3, <3>2
      DEF Deduct, Charge, TreasuryInv, Apart, InHandler, blockVars, callVars, stateVars
  <2>4. CASE Refused
    BY <2>4
    DEF Refused, SwapBack, TreasuryInv, Apart, InHandler, blockVars, callVars, stateVars,
        journalVars
  <2>5. CASE Execute
    <3>1. tx \in Txs \cup SystemTxs /\ jBalance \in [Accounts -> Nat]
      BY <2>5 DEF Execute, ExecutorTypeOK
    <3>2. Apart(tx) => jBalance'[Treasury] = jBalance[Treasury]
      <4>1. jBalance' = jBalance \/ MoveValue
        BY <2>5 DEF Execute, journalVars
      <4> QED BY <3>1, <4>1, TxTypes DEF MoveValue, Apart
    <3> QED
      BY <2>5, <3>2 DEF Execute, TreasuryInv, Apart, InHandler, blockVars, callVars, stateVars
  <2>6. CASE reimburse_caller
    <3>1. tx \in Txs \cup SystemTxs /\ jBalance \in [Accounts -> Nat]
      BY <2>6 DEF reimburse_caller, ExecutorTypeOK
    <3>2. Apart(tx) => jBalance'[Treasury] = jBalance[Treasury]
      BY <2>6, <3>1, TxTypes DEF reimburse_caller, Credit, Apart
    <3> QED
      BY <2>6, <3>2
      DEF reimburse_caller, TreasuryInv, Apart, InHandler, blockVars, callVars, stateVars
  <2>7. CASE reward_beneficiary
    <3>1. tx \in Txs \cup SystemTxs /\ jBalance \in [Accounts -> Nat] /\ env.beneficiary \in Accounts
      BY <2>7 DEF reward_beneficiary, ExecutorTypeOK
    <3>2. env.beneficiary # Treasury =>
            jBalance'[Treasury] = jBalance[Treasury] + env.basefee * SpentMinusRefund
      BY <2>7, <3>1 DEF reward_beneficiary
    <3>3. SpentMinusRefund' = SpentMinusRefund
      BY <2>7 DEF reward_beneficiary, SpentMinusRefund
    <3> QED
      BY <2>7, <3>2, <3>3
      DEF reward_beneficiary, TreasuryInv, Apart, InHandler, blockVars, callVars, stateVars
  <2>8. CASE ExecutionFails
    BY <2>8
    DEF ExecutionFails, SwapBack, TreasuryInv, Apart, InHandler, blockVars, callVars,
        stateVars,
                journalVars
  <2>9. CASE commit_transaction
    <3>1. tx \in Txs
      BY <2>9 DEF commit_transaction, ExecutorTypeOK
    <3> SUFFICES ASSUME block.beneficiary # Treasury,
                        \A i \in DOMAIN executed' : Apart(executed'[i])
                 PROVE  balance'[Treasury] = start[Treasury] + block.basefee * gas_used'
      BY <2>9 DEF commit_transaction, TreasuryInv, Apart, InHandler, blockVars, callVars
    <3>2. Apart(tx) /\ \A i \in DOMAIN executed : Apart(executed[i])
      BY <2>9, <3>1, ExecutedGrows
    <3>3. balance'[Treasury] = start[Treasury] + block.basefee * gas_used
                                 + block.basefee * SpentMinusRefund
      BY <2>9, <3>2 DEF commit_transaction, TreasuryInv
    <3>4. /\ block.basefee \in Nat /\ gas_used \in Nat /\ SpentMinusRefund \in Nat
          /\ start[Treasury] \in Nat
      BY <3>1, AmountTypes DEF ExecutorTypeOK
    <3>5. block.basefee * (gas_used + SpentMinusRefund)
            = block.basefee * gas_used + block.basefee * SpentMinusRefund
      BY <3>4
    <3>6. block.basefee * gas_used \in Nat /\ block.basefee * SpentMinusRefund \in Nat
      BY <3>4, ProductType
    <3>7. gas_used' = gas_used + SpentMinusRefund
      BY <2>9 DEF commit_transaction
    <3> QED BY <3>3, <3>4, <3>5, <3>6, <3>7
  <2>10. CASE finish
    BY <2>10
    DEF finish, TreasuryInv, Apart, InHandler, blockVars, callVars, stateVars, journalVars
  <2>11. CASE BeginSystemCall
    <3>1. saved' # None
      BY <2>11 DEF BeginSystemCall, InHandler, ExecutorTypeOK
    <3> QED BY <2>11, <3>1 DEF BeginSystemCall, TreasuryInv, Apart, blockVars, stateVars
  <2>12. CASE EndSystemCall
    <3>1. balance' = balance
      BY <2>12, EndIsFree
    <3> QED
      BY <2>12, <3>1 DEF EndSystemCall, EndWith, TreasuryInv, Apart, InHandler, blockVars
  <2>13. CASE PreDone
    BY <2>13 DEF PreDone, TreasuryInv, Apart, InHandler, blockVars, callVars, stateVars
  <2> QED
    BY <2>1, <2>2, <2>3, <2>4, <2>5, <2>6, <2>7, <2>8, <2>9, <2>10, <2>11, <2>12, <2>13
    DEF ExecutorNext
<1>3. TreasuryInv => TreasuryIncome
  BY DEF TreasuryInv, TreasuryIncome, Apart
<1> QED BY <1>1, <1>2, <1>3, ExecutorInvHolds, NoTraceInvHolds, PTL DEF ExecutorSpec

------------------------------------------------------------------------------
(* Nonces                                                                  *)

\* The journal never holds a lower nonce than the state, and a transaction past
\* its deduction has the nonce of its caller, which for a call is used up.
NonceInv ==
    /\ CallsRunOnce
    /\ step = "deduct" => jNonce = nonce
    /\ step \in {"execute", "reimburse", "reward", "commit"} =>
         /\ \A a \in Accounts : jNonce[a] >= nonce[a]
         /\ saved = None => tx.nonce = nonce[tx.caller]
         /\ saved = None /\ tx.is_call => jNonce[tx.caller] > tx.nonce

\* No executed call can run a second time in the block.
THEOREM CallsRunOnceHolds == ExecutorSpec => []CallsRunOnce
<1>1. ExecutorInit => NonceInv
  BY DEF ExecutorInit, NonceInv, CallsRunOnce
<1>2. ASSUME ExecutorInv, NoTraceInv, NonceInv, [ExecutorNext]_execVars
      PROVE  NonceInv'
  <2> USE <1>2 DEF ExecutorInv
  <2>1. CASE UNCHANGED execVars
    BY <2>1 DEF NonceInv, CallsRunOnce, execVars, blockVars, callVars, stateVars, journalVars
  <2>2. CASE BeginTx
    BY <2>2 DEF BeginTx, Begin, NonceInv, CallsRunOnce, blockVars, callVars, stateVars
  <2>3. CASE Deduct
    <3>1. tx \in Txs \cup SystemTxs /\ jNonce \in [Accounts -> Nat]
      BY <2>3 DEF Deduct, Charge, ExecutorTypeOK
    <3>2. jNonce = nonce /\ (saved = None => jNonce[tx.caller] = tx.nonce)
      <4>1. saved = None => env.disable_nonce_check = FALSE
        BY DEF ExecutorTypeOK
      <4> QED BY <2>3, <4>1 DEF Deduct, Charge, NonceInv
    <3>3. jNonce' = [jNonce EXCEPT ![tx.caller] =
                       IF tx.is_call THEN jNonce[tx.caller] + 1 ELSE jNonce[tx.caller]]
      BY <2>3 DEF Deduct, Charge
    <3>4. saved = None /\ tx.is_call => jNonce'[tx.caller] > tx.nonce
      BY <3>1, <3>2, <3>3, TxTypes
    <3>5. \A a \in Accounts : jNonce'[a] >= nonce[a]
      BY <3>1, <3>2, <3>3, TxTypes
    <3>6. nonce' = nonce /\ executed' = executed /\ saved' = saved /\ tx' = tx
      BY <2>3 DEF Deduct, Charge, callVars, stateVars
    <3>7. step' = "execute" /\ CallsRunOnce'
      BY <2>3, <3>6 DEF Deduct, Charge, NonceInv, CallsRunOnce
    <3> QED
      BY <3>2, <3>4, <3>5, <3>6, <3>7 DEF NonceInv
  <2>4. CASE Refused
    BY <2>4 DEF Refused, SwapBack, NonceInv, CallsRunOnce, callVars, stateVars, journalVars
  <2>5. CASE Execute
    <3>1. tx \in Txs \cup SystemTxs /\ jNonce \in [Accounts -> Nat] /\ nonce \in [Accounts -> Nat]
      BY <2>5 DEF Execute, ExecutorTypeOK
    <3>2. jNonce' = jNonce \/ jNonce' = [jNonce EXCEPT ![tx.caller] = @ + 1]
      BY <2>5 DEF Execute, FrameNonce, journalVars
    <3>3. \A a \in Accounts : jNonce[a] \in Nat /\ jNonce'[a] \in Nat /\ jNonce'[a] >= jNonce[a]
      <4>1. tx.caller \in Accounts
        BY <3>1, TxTypes
      <4>2. CASE jNonce' = jNonce
        BY <3>1, <4>2
      <4>3. CASE jNonce' = [jNonce EXCEPT ![tx.caller] = @ + 1]
        BY <3>1, <4>1, <4>3
      <4> QED BY <3>2, <4>2, <4>3
    <3>4. \A a \in Accounts : jNonce'[a] >= nonce[a]
      BY <2>5, <3>1, <3>3 DEF Execute, NonceInv
    <3>5. saved = None /\ tx.is_call => jNonce'[tx.caller] > tx.nonce
      BY <2>5, <3>1, <3>3, TxTypes DEF Execute, NonceInv
    <3> QED
      BY <2>5, <3>4, <3>5 DEF Execute, NonceInv, CallsRunOnce, callVars, stateVars
  <2>6. CASE reimburse_caller
    BY <2>6 DEF reimburse_caller, NonceInv, CallsRunOnce, callVars, stateVars
  <2>7. CASE reward_beneficiary
    BY <2>7 DEF reward_beneficiary, NonceInv, CallsRunOnce, callVars, stateVars
  <2>8. CASE ExecutionFails
    BY <2>8
    DEF ExecutionFails, SwapBack, NonceInv, CallsRunOnce, callVars, stateVars, journalVars
  <2>9. CASE commit_transaction
    <3>1. tx \in Txs /\ jNonce \in [Accounts -> Nat] /\ nonce \in [Accounts -> Nat]
      BY <2>9 DEF commit_transaction, ExecutorTypeOK
    <3>2. /\ nonce' = jNonce
          /\ \A a \in Accounts : jNonce[a] >= nonce[a]
          /\ tx.nonce = nonce[tx.caller]
          /\ tx.is_call => jNonce[tx.caller] > tx.nonce
      BY <2>9 DEF commit_transaction, NonceInv
    <3>3. \A i \in DOMAIN executed :
            executed[i].caller \in Accounts /\ executed[i].nonce \in Nat
      <4>1. executed \in Seq(Txs)
        BY DEF ExecutorTypeOK
      <4>2. \A i \in DOMAIN executed : executed[i] \in Txs
        BY <4>1
      <4> QED BY <4>2
    <3>4. \A i \in DOMAIN executed : executed[i].is_call =>
            nonce[executed[i].caller] > executed[i].nonce
      BY DEF NonceInv, CallsRunOnce
    <3>5. \A i \in DOMAIN executed : executed[i].is_call =>
            /\ nonce'[executed[i].caller] > executed[i].nonce
            /\ executed[i].caller = tx.caller => executed[i].nonce # tx.nonce
      BY <3>1, <3>2, <3>3, <3>4, TxTypes
    <3>6. CallsRunOnce'
      BY <2>9, <3>1, <3>2, <3>5, ExecutedGrows DEF NonceInv, CallsRunOnce
    <3> QED BY <2>9, <3>6 DEF commit_transaction, NonceInv
  <2>10. CASE finish
    BY <2>10 DEF finish, NonceInv, CallsRunOnce, callVars, stateVars, journalVars
  <2>11. CASE BeginSystemCall
    BY <2>11 DEF BeginSystemCall, Begin, NonceInv, CallsRunOnce, stateVars
  <2>12. CASE EndSystemCall
    <3>1. nonce' = nonce
      BY <2>12, EndIsFree
    <3> QED BY <2>12, <3>1 DEF EndSystemCall, EndWith, NonceInv, CallsRunOnce
  <2>13. CASE PreDone
    BY <2>13 DEF PreDone, NonceInv, CallsRunOnce, stateVars
  <2> QED
    BY <2>1, <2>2, <2>3, <2>4, <2>5, <2>6, <2>7, <2>8, <2>9, <2>10, <2>11, <2>12, <2>13
    DEF ExecutorNext
<1>3. NonceInv => CallsRunOnce
  BY DEF NonceInv
<1> QED BY <1>1, <1>2, <1>3, ExecutorInvHolds, NoTraceInvHolds, PTL DEF ExecutorSpec
------------------------------------------------------------------------------
(* The fees                                                                *)

HIDE BlockExecutorAssumption

\* What is deducted for the whole gas limit is what goes back for the gas not
\* used, the beneficiary's part and the treasury's part for the gas used.
LEMMA FeeSplit ==
    ASSUME NEW p \in Nat, NEW b \in Nat, NEW limit \in Nat, NEW used \in Nat,
           b <= p, used <= limit
    PROVE  /\ limit * p = p * (limit - used) + p * used
           /\ p * used = (p - b) * used + b * used
<1>1. limit * p = p * limit /\ p * (limit - used) = p * limit - p * used
  OBVIOUS
<1>2. (p - b) * used = p * used - b * used
  OBVIOUS
<1>3. p * limit \in Nat /\ p * used \in Nat /\ b * used \in Nat
  BY ProductType
<1> QED BY <1>1, <1>2, <1>3

\* A transaction revm accepts pays at least the base fee.
LEMMA PriceCoversBaseFee ==
    ASSUME ExecutorTypeOK, tx \in Txs \cup SystemTxs, EnvAccepts(tx)
    PROVE  env.basefee <= price
<1>1. /\ env.basefee \in Nat /\ tx.max_fee \in Nat /\ tx.max_fee >= env.basefee
      /\ tx.max_priority_fee \in Nat \cup {None}
  BY TxTypes DEF ExecutorTypeOK, EnvAccepts
<1> QED BY <1>1 DEF price, effective_gas_price, Lesser

\* A table of balances after an account is credited, or charged if v is negative.
Credited(f, a, v) == [f EXCEPT ![a] = @ + v]

\* Crediting an account adds to the sum of the balances what it adds to the account.
LEMMA SumOfCredit ==
    ASSUME NEW f \in [Accounts -> Nat], NEW a \in Accounts, NEW v \in Int, f[a] + v \in Nat
    PROVE  /\ SumFunction(Credited(f, a, v)) = SumFunction(f) + v
           /\ Credited(f, a, v) \in [Accounts -> Nat]
<1> DEFINE g == [f EXCEPT ![a] = @ + v]
<1>1. g \in [Accounts -> Nat] /\ g[a] = f[a] + v /\ \A b \in Accounts \ {a} : g[b] = f[b]
  OBVIOUS
<1> HIDE DEF g
<1>2. f \in [Accounts -> Int] /\ g \in [Accounts -> Int] /\ IsFiniteSet(Accounts)
  BY <1>1, AccountsAssumption
<1>3. SumFunction(g) = (SumFunction(f) - f[a]) + g[a]
  BY <1>1, <1>2, SumUpdate
<1>4. SumFunction(f) \in Nat /\ f[a] \in Nat
  BY SumType, AccountsAssumption DEF SumFunction
<1>5. SumFunction(g) = SumFunction(f) + v
  BY <1>1, <1>3, <1>4
<1> QED BY <1>1, <1>5 DEF g, Credited

\* The sum of a table of balances is a natural number.
LEMMA SumOfBalances ==
    ASSUME NEW f \in [Accounts -> Nat]
    PROVE  SumFunction(f) \in Nat
BY SumType, AccountsAssumption DEF SumFunction

\* A transfer leaves the sum as it is, also from an account to itself.
LEMMA SumOfMove ==
    ASSUME ExecutorTypeOK, tx.caller \in Accounts, tx.to \in Accounts, tx.value \in Nat,
           MoveValue
    PROVE  SumFunction(jBalance') = SumFunction(jBalance)
<1> DEFINE less == 0 - tx.value
           g == Credited(jBalance, tx.caller, less)
<1>1. jBalance \in [Accounts -> Nat] /\ jBalance[tx.caller] >= tx.value
  BY DEF MoveValue, ExecutorTypeOK
<1>2. less \in Int /\ jBalance[tx.caller] - tx.value = jBalance[tx.caller] + less
  BY <1>1
<1>3. jBalance' = Credited(g, tx.to, tx.value)
  BY <1>1, <1>2 DEF MoveValue, Credited
<1>4. jBalance[tx.caller] + less \in Nat
  BY <1>1
<1>5. SumFunction(jBalance) + less + tx.value = SumFunction(jBalance)
  BY <1>1, SumOfBalances
<1> HIDE DEF less
<1>6. g \in [Accounts -> Nat] /\ SumFunction(g) = SumFunction(jBalance) + less
  BY <1>1, <1>2, <1>4, SumOfCredit
<1> HIDE DEF g
<1>7. g[tx.to] + tx.value \in Nat /\ tx.value \in Int
  BY <1>6
<1>8. SumFunction(jBalance') = SumFunction(g) + tx.value
  BY <1>3, <1>6, <1>7, SumOfCredit
<1> QED BY <1>5, <1>6, <1>8

\* Where the handler is past the deduction.
Charged == {"execute", "reimburse", "reward", "commit"}

\* The committed balances account for every fee, and at each step of a
\* transaction the journal lacks exactly what the steps to come will credit.
FeesInv ==
    /\ SumFunction(balance) = SumFunction(start) + shortfall
    /\ saved = None =>
         /\ step = "deduct" => jBalance = balance
         /\ step \in Charged => env.basefee <= price
         /\ step \in {"reimburse", "reward", "commit"} => gas.refunded <= gas.spent
         /\ step \in {"execute", "reimburse"} =>
              SumFunction(jBalance) + gas_balance_spending = SumFunction(balance) + owed
         /\ step = "reward" =>
              SumFunction(jBalance) + price * SpentMinusRefund = SumFunction(balance) + owed
         /\ step = "commit" => SumFunction(jBalance) = SumFunction(balance) + owed

\* The invariant speaks of the journal in a transaction of the block only.
LEMMA FeesOutside ==
    ASSUME FeesInv, UNCHANGED <<balance, start, shortfall>>,
           saved' # None \/ step' \notin Charged \cup {"deduct"}
    PROVE  FeesInv'
BY DEF FeesInv, Charged

\* No fee is created or lost in a block except what callers were let off, for
\* every set of accounts, coinciding or not, and every mix of transactions.
THEOREM FeesConservedHolds == ExecutorSpec => []FeesConserved
<1>1. ExecutorInit => FeesInv
  <2> SUFFICES ASSUME ExecutorInit PROVE FeesInv OBVIOUS
  <2>1. start = balance /\ shortfall = 0 /\ step = "pre" /\ balance \in [Accounts -> Nat]
    BY BlockExecutorAssumption DEF ExecutorInit
  <2>2. SumFunction(balance) \in Nat
    BY <2>1, SumOfBalances
  <2> QED BY <2>1, <2>2 DEF FeesInv, Charged
<1>2. ASSUME ExecutorInv, NoTraceInv, FeesInv, [ExecutorNext]_execVars
      PROVE  FeesInv'
  <2> USE <1>2 DEF ExecutorInv
  <2>0. /\ balance \in [Accounts -> Nat] /\ jBalance \in [Accounts -> Nat]
        /\ owed \in Nat /\ gas.spent \in Nat /\ gas.refunded \in Nat
        /\ SumFunction(balance) \in Nat /\ SumFunction(jBalance) \in Nat
    BY SumOfBalances DEF ExecutorTypeOK
  <2>1. CASE UNCHANGED execVars
    BY <2>1 DEF FeesInv, price, gas_balance_spending, SpentMinusRefund, execVars, blockVars,
                callVars, stateVars, journalVars
  <2>2. CASE BeginTx
    <3>1. /\ UNCHANGED <<balance, start, shortfall>>
          /\ step' = "deduct" /\ jBalance' = balance
      BY <2>2 DEF BeginTx, Begin, blockVars, stateVars
    <3> QED BY <3>1 DEF FeesInv, Charged
  <2>3. CASE Deduct
    <3>1. /\ tx \in Txs \cup SystemTxs /\ step = "deduct" /\ step' = "execute"
          /\ UNCHANGED <<balance, start, shortfall, saved, env, tx>>
          /\ EnvAccepts(tx)
      BY <2>3 DEF Deduct, Charge, ExecutorTypeOK, blockVars, callVars, stateVars
    <3>2. CASE saved # None
      BY <3>1, <3>2, FeesOutside
    <3>3. CASE saved = None
      <4>1. /\ price \in Nat /\ gas_balance_spending \in Nat
            /\ tx.caller \in Accounts /\ jBalance = balance
        BY <3>1, <3>3, AmountTypes, TxTypes DEF FeesInv
      <4>2. price' = price /\ gas_balance_spending' = gas_balance_spending
        BY <3>1 DEF price, gas_balance_spending
      <4> DEFINE had == jBalance[tx.caller]
                 fee == gas_balance_spending
                 v == owed' - fee
      <4>3. had \in Nat /\ fee \in Nat
        BY <2>0, <4>1
      <4>4. /\ owed' = saturating_sub(fee, had)
            /\ jBalance' = [jBalance EXCEPT ![tx.caller] = saturating_sub(had, fee)]
        BY <2>3 DEF Deduct, Charge
      <4> HIDE DEF had, fee
      <4>5. v \in Int /\ saturating_sub(had, fee) = had + v /\ had + v \in Nat
        <5> HIDE <1>2
        <5> QED BY <4>3, <4>4 DEF saturating_sub
      <4>6. jBalance' = Credited(jBalance, tx.caller, v)
        BY <4>4, <4>5 DEF had, Credited
      <4>7. jBalance[tx.caller] + v \in Nat
        BY <4>5 DEF had
      <4> HIDE DEF v
      <4>8. SumFunction(jBalance') = SumFunction(jBalance) + v
        BY <2>0, <4>1, <4>5, <4>6, <4>7, SumOfCredit
      <4>9. owed' \in Nat
        BY <4>3, <4>4, SaturatingSubType
      <4>10. SumFunction(jBalance') + fee = SumFunction(balance) + owed'
        BY <2>0, <4>1, <4>3, <4>8, <4>9 DEF v
      <4>11. env.basefee <= price
        BY <3>1, PriceCoversBaseFee
      <4> QED BY <3>1, <4>2, <4>10, <4>11 DEF FeesInv, Charged, fee
    <3> QED BY <3>2, <3>3
  <2>4. CASE Refused
    <3>1. UNCHANGED <<balance, start, shortfall>> /\ step' \in {"next", "failed"}
      BY <2>4 DEF Refused, blockVars, stateVars
    <3> QED BY <3>1, FeesOutside DEF Charged
  <2>5. CASE Execute
    <3>1. /\ tx \in Txs \cup SystemTxs /\ step = "execute" /\ step' = "reimburse"
          /\ UNCHANGED <<balance, start, shortfall, saved, env, tx, owed>>
      BY <2>5 DEF Execute, ExecutorTypeOK, blockVars, callVars, stateVars
    <3>2. CASE saved # None
      BY <3>1, <3>2, FeesOutside
    <3>3. CASE saved = None
      <4>1. gas'.refunded <= gas'.spent
        <5>1. PICK spent \in IntrinsicGas .. tx.gas_limit :
                \E refunded \in 0 .. (spent \div MaxRefundQuotient) :
                  gas' = [spent |-> spent, refunded |-> refunded]
          BY <2>5 DEF Execute
        <5>2. PICK refunded \in 0 .. (spent \div MaxRefundQuotient) :
                gas' = [spent |-> spent, refunded |-> refunded]
          BY <5>1
        <5>3. spent \in Nat /\ MaxRefundQuotient \in Nat \ {0}
          BY <3>1, TxTypes, BlockExecutorAssumption
        <5>4. spent \div MaxRefundQuotient <= spent
          BY <5>3
        <5>5. refunded <= spent
          BY <5>3, <5>4
        <5> QED BY <5>2, <5>5
      <4>2. price' = price /\ gas_balance_spending' = gas_balance_spending
        BY <3>1 DEF price, gas_balance_spending
      <4>3. SumFunction(jBalance') = SumFunction(jBalance)
        <5>1. CASE jBalance' = jBalance
          BY <5>1
        <5>2. CASE MoveValue
          BY <3>1, <5>2, TxTypes, SumOfMove
        <5> QED BY <2>5, <5>1, <5>2 DEF Execute, journalVars
      <4> QED BY <3>1, <3>3, <4>1, <4>2, <4>3 DEF FeesInv, Charged
    <3> QED BY <3>2, <3>3
  <2>6. CASE reimburse_caller
    <3>1. /\ tx \in Txs \cup SystemTxs /\ step = "reimburse" /\ step' = "reward"
          /\ UNCHANGED <<balance, start, shortfall, saved, env, tx, owed, gas>>
      BY <2>6 DEF reimburse_caller, ExecutorTypeOK, blockVars, callVars, stateVars
    <3>2. CASE saved # None
      BY <3>1, <3>2, FeesOutside
    <3>3. CASE saved = None
      <4> DEFINE left == (tx.gas_limit - gas.spent) + gas.refunded
                 used == gas.spent - gas.refunded
                 v == price * left
      <4>1. /\ price \in Nat /\ tx.gas_limit \in Nat /\ tx.caller \in Accounts
            /\ env.basefee \in Nat
        BY <3>1, AmountTypes, TxTypes DEF ExecutorTypeOK
      <4>2. gas.refunded <= gas.spent /\ gas.spent <= tx.gas_limit /\ env.basefee <= price
        BY <3>1, <3>3 DEF FeesInv, Charged
      <4>3. /\ used \in Nat /\ left \in Nat /\ left = tx.gas_limit - used
            /\ used <= tx.gas_limit /\ SpentMinusRefund = used
        <5> HIDE <1>2
        <5> QED BY <2>0, <4>1, <4>2 DEF SpentMinusRefund, saturating_sub
      <4> HIDE DEF used, left
      <4>4. gas_balance_spending = v + price * used
        BY <4>1, <4>2, <4>3, FeeSplit DEF gas_balance_spending
      <4>5. v \in Nat /\ price * used \in Nat
        BY <4>1, <4>3, ProductType
      <4>6. jBalance' = Credited(jBalance, tx.caller, v)
        BY <2>6 DEF reimburse_caller, Credit, left, Credited
      <4> HIDE DEF v
      <4>7. jBalance[tx.caller] + v \in Nat /\ v \in Int
        BY <2>0, <4>1, <4>5
      <4>8. SumFunction(jBalance') = SumFunction(jBalance) + v
        BY <2>0, <4>1, <4>6, <4>7, SumOfCredit
      <4>9. SumFunction(jBalance) + gas_balance_spending = SumFunction(balance) + owed
        BY <3>1, <3>3 DEF FeesInv
      <4>10. SumFunction(jBalance') + price * used = SumFunction(balance) + owed
        BY <2>0, <4>4, <4>5, <4>8, <4>9
      <4>11. price' = price /\ SpentMinusRefund' = used
        BY <3>1, <4>3 DEF price, SpentMinusRefund
      <4> QED BY <3>1, <3>3, <4>2, <4>10, <4>11 DEF FeesInv, Charged
    <3> QED BY <3>2, <3>3
  <2>7. CASE reward_beneficiary
    <3>1. /\ tx \in Txs \cup SystemTxs /\ step = "reward" /\ step' = "commit"
          /\ UNCHANGED <<balance, start, shortfall, saved, env, tx, owed, gas>>
          /\ env.beneficiary \in Accounts /\ env.basefee \in Nat
      BY <2>7 DEF reward_beneficiary, ExecutorTypeOK, blockVars, callVars, stateVars
    <3>2. CASE saved # None
      BY <3>1, <3>2, FeesOutside
    <3>3. CASE saved = None
      <4> DEFINE used == SpentMinusRefund
                 tip == coinbase_gas_price(tx, env.basefee) * used
                 base == env.basefee * used
                 paid == Credited(jBalance, env.beneficiary, tip)
      <4>1. price \in Nat /\ used \in Nat /\ tip \in Nat /\ base \in Nat
        BY <3>1, AmountTypes
      <4>2. gas.refunded <= gas.spent /\ env.basefee <= price
        BY <3>1, <3>3 DEF FeesInv, Charged
      <4>3. coinbase_gas_price(tx, env.basefee) = price - env.basefee
        BY <3>1, <4>1, <4>2 DEF coinbase_gas_price, price, saturating_sub
      <4>4. jBalance' = Credited(paid, Treasury, base)
        BY <2>7 DEF reward_beneficiary, Credited
      <4> HIDE DEF used
      <4>5. price * used = tip + base
        BY <3>1, <4>1, <4>2, <4>3, FeeSplit
      <4> HIDE DEF tip, base
      <4>6. jBalance[env.beneficiary] + tip \in Nat /\ tip \in Int
        BY <2>0, <3>1, <4>1
      <4>7. paid \in [Accounts -> Nat] /\ SumFunction(paid) = SumFunction(jBalance) + tip
        BY <2>0, <3>1, <4>6, SumOfCredit
      <4> HIDE DEF paid
      <4>8. paid[Treasury] + base \in Nat /\ base \in Int /\ Treasury \in Accounts
        BY <4>1, <4>7, BlockExecutorAssumption
      <4>9. SumFunction(jBalance') = SumFunction(paid) + base
        BY <4>4, <4>7, <4>8, SumOfCredit
      <4>10. SumFunction(jBalance) + price * used = SumFunction(balance) + owed
        BY <3>1, <3>3 DEF FeesInv, used
      <4>11. SumFunction(jBalance') = SumFunction(balance) + owed
        BY <2>0, <4>1, <4>5, <4>7, <4>9, <4>10
      <4>12. price' = price
        BY <3>1 DEF price
      <4> QED BY <3>1, <3>3, <4>2, <4>11, <4>12 DEF FeesInv, Charged
    <3> QED BY <3>2, <3>3
  <2>8. CASE ExecutionFails
    <3>1. UNCHANGED <<balance, start, shortfall>> /\ step' = "failed"
      BY <2>8 DEF ExecutionFails, blockVars, stateVars
    <3> QED BY <3>1, FeesOutside DEF Charged
  <2>9. CASE commit_transaction
    <3>1. /\ step = "commit" /\ step' = "next" /\ saved = None /\ start' = start
          /\ balance' = jBalance /\ shortfall' = shortfall + owed
      BY <2>9 DEF commit_transaction, blockVars
    <3>2. SumFunction(jBalance) = SumFunction(start) + shortfall + owed
      BY <3>1 DEF FeesInv
    <3>3. SumFunction(start) \in Nat /\ shortfall \in Nat
      BY SumOfBalances DEF ExecutorTypeOK
    <3> QED BY <2>0, <3>1, <3>2, <3>3 DEF FeesInv, Charged
  <2>10. CASE finish \/ PreDone
    <3>1. UNCHANGED <<balance, start, shortfall>> /\ step' \in {"finished", "next"}
      BY <2>10 DEF finish, PreDone, blockVars, stateVars
    <3> QED BY <3>1, FeesOutside DEF Charged
  <2>11. CASE BeginSystemCall
    <3>1. UNCHANGED <<balance, start, shortfall>> /\ saved' # None
      BY <2>11, BlockExecutorAssumption DEF BeginSystemCall, InHandler, ExecutorTypeOK, blockVars, stateVars
    <3> QED BY <3>1, FeesOutside
  <2>12. CASE EndSystemCall
    <3>1. UNCHANGED <<balance, start, shortfall>> /\ step' = "pre"
      BY <2>12, EndIsFree DEF EndSystemCall, EndWith, blockVars
    <3> QED BY <3>1, FeesOutside DEF Charged
  <2> QED
    BY <2>1, <2>2, <2>3, <2>4, <2>5, <2>6, <2>7, <2>8, <2>9, <2>10, <2>11, <2>12
    DEF ExecutorNext
<1>3. FeesInv => FeesConserved
  BY DEF FeesInv, FeesConserved
<1> QED BY <1>1, <1>2, <1>3, ExecutorInvHolds, NoTraceInvHolds, PTL DEF ExecutorSpec
==============================================================================
