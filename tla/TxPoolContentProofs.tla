-------------------------- MODULE TxPoolContentProofs --------------------------
(***************************************************************************)
(* Theorems about what the pool offers, for every pool, fee and tip.       *)
(***************************************************************************)
EXTENDS TxPoolContent, SumTheorems, SequenceTheorems, TLAPS

USE TxFeesAssumption, TxPoolContentAssumption

\* The tip by which kasplexAuth_txPoolContentWithMinTip filters is the price
\* per gas reward_beneficiary credits to the beneficiary, for every fee form,
\* fee and base fee.
THEOREM TipIsCoinbasePrice ==
    ASSUME NEW t, t.max_fee \in Nat, t.max_priority_fee \in Nat \cup {None},
           NEW basefee \in Nat
    PROVE  effective_tip(t, basefee) = coinbase_gas_price(t, basefee)
BY DEF effective_tip, effective_gas_price, coinbase_gas_price, Lesser, saturating_sub

------------------------------------------------------------------------------
(* Lists                                                                   *)

\* What is in a list is its head and what is in its tail.
LEMMA RangeOfTail ==
    ASSUME NEW s \in Seq(PoolTxs), s # <<>>
    PROVE  Range(s) = {Head(s)} \cup Range(Tail(s))
<1>1. /\ Head(s) = s[1] /\ Len(s) \in Nat \ {0} /\ DOMAIN s = 1 .. Len(s)
      /\ DOMAIN Tail(s) = 1 .. (Len(s) - 1)
      /\ \A i \in DOMAIN Tail(s) : Tail(s)[i] = s[i + 1]
  BY HeadTailProperties
<1>2. ASSUME NEW x \in Range(s) PROVE x \in {Head(s)} \cup Range(Tail(s))
  <2>1. PICK i \in 1 .. Len(s) : x = s[i]
    BY <1>1 DEF Range
  <2>2. CASE i = 1
    BY <1>1, <2>1, <2>2
  <2>3. CASE i # 1
    <3>1. i - 1 \in DOMAIN Tail(s) /\ Tail(s)[i - 1] = s[i]
      BY <1>1, <2>1, <2>3
    <3> QED BY <2>1, <3>1 DEF Range
  <2> QED BY <2>2, <2>3
<1>3. Head(s) \in Range(s)
  BY <1>1 DEF Range
<1>4. ASSUME NEW x \in Range(Tail(s)) PROVE x \in Range(s)
  <2>1. PICK i \in DOMAIN Tail(s) : x = Tail(s)[i]
    BY DEF Range
  <2>2. i + 1 \in DOMAIN s /\ x = s[i + 1]
    BY <1>1, <2>1
  <2> QED BY <2>2 DEF Range
<1> QED BY <1>2, <1>3, <1>4

\* A list copied from the pool is a sequence of its transactions.
LEMMA CopyType ==
    ASSUME NEW s \in PoolLists
    PROVE  s \in Seq(PoolTxs)
<1>1. PICK m \in 0 .. MaxPending : s \in [1 .. m -> PoolTxs]
  BY DEF PoolLists, SeqOf
<1> QED BY <1>1

\* The transactions of a list that pay the tip asked for.
Paying(s) == {t \in Range(s) : coinbase_gas_price(t, KASPLEX_BASE_FEE) >= request}

\* The head is one of them exactly when insert_with_min_tip takes it.
LEMMA PayingOfTail ==
    ASSUME NEW s \in Seq(PoolTxs), s # <<>>
    PROVE  /\ Tail(s) \in Seq(PoolTxs)
           /\ Paying(s) = IF insert_with_min_tip(Head(s))
                          THEN {Head(s)} \cup Paying(Tail(s)) ELSE Paying(Tail(s))
<1>1. Head(s) \in PoolTxs /\ Tail(s) \in Seq(PoolTxs)
  BY HeadTailProperties
<1>2. effective_tip(Head(s), KASPLEX_BASE_FEE)
        = coinbase_gas_price(Head(s), KASPLEX_BASE_FEE)
  BY <1>1, TipIsCoinbasePrice
<1> QED BY <1>1, <1>2, RangeOfTail DEF Paying, insert_with_min_tip

------------------------------------------------------------------------------
(* The tips                                                                *)

\* While the copy is worked off, what pays is what was inserted and what pays
\* of the rest; the answer is given when nothing is left.
TipsInv ==
    /\ pendingList \in Seq(PoolTxs) /\ queuedList \in Seq(PoolTxs)
    /\ phase = "tips" =>
         /\ content = [pending |-> content.pending, queued |-> content.queued]
         /\ Paying(copied.pending) = content.pending \cup Paying(pendingList)
         /\ Paying(copied.queued) = content.queued \cup Paying(queuedList)
    /\ phase = "tipped" =>
         /\ content.pending = Paying(copied.pending)
         /\ content.queued = Paying(copied.queued)

\* kasplexAuth_txPoolContentWithMinTip answers exactly what pays the tip, for
\* every pool and every min_tip.
THEOREM TipsAreWhatIsPaidHolds == ContentSpec => []TipsAreWhatIsPaid
<1>1. ContentInit => TipsInv
  <2> SUFFICES ASSUME ContentInit PROVE TipsInv
    OBVIOUS
  <2>1. pendingList \in Seq(PoolTxs) /\ queuedList \in Seq(PoolTxs)
    <3>1. pendingList \in PoolLists /\ (queuedList = <<>> \/ queuedList \in PoolLists)
      BY DEF ContentInit
    <3>2. <<>> \in Seq(PoolTxs)
      OBVIOUS
    <3> QED BY <3>1, <3>2, CopyType
  <2>2. /\ copied.pending = pendingList /\ copied.queued = queuedList
        /\ content = [pending |-> {}, queued |-> {}] /\ phase # "tipped"
    BY DEF ContentInit
  <2> QED BY <2>1, <2>2 DEF TipsInv
<1>2. ASSUME TipsInv, [ContentNext]_contentVars
      PROVE  TipsInv'
  <2> USE <1>2
  <2>1. CASE UNCHANGED contentVars
    BY <2>1 DEF TipsInv, Paying, contentVars
  <2>2. CASE SkipCheap \/ PushTx
    <3>1. pendingList' \in Seq(PoolTxs) /\ phase' = "list" /\ queuedList' = queuedList
      BY <2>2, PayingOfTail DEF SkipCheap, PushTx, TipsInv
    <3> QED BY <3>1 DEF TipsInv
  <2>3. CASE AnswerList
    BY <2>3 DEF AnswerList, TipsInv
  <2>4. CASE TipPending
    <3>1. /\ pendingList' \in Seq(PoolTxs)
          /\ Paying(pendingList) = IF insert_with_min_tip(Head(pendingList))
                                   THEN {Head(pendingList)} \cup Paying(Tail(pendingList))
                                   ELSE Paying(Tail(pendingList))
      BY <2>4, PayingOfTail DEF TipPending, TipsInv
    <3>2. /\ content' = [pending |-> content'.pending, queued |-> content.queued]
          /\ content'.queued = content.queued
          /\ content'.pending \cup Paying(Tail(pendingList))
               = content.pending \cup Paying(pendingList)
      BY <2>4, <3>1 DEF TipPending, TipsInv
    <3>3. /\ Paying(copied.pending)' = Paying(copied.pending)
          /\ Paying(copied.queued)' = Paying(copied.queued)
          /\ Paying(pendingList)' = Paying(Tail(pendingList))
          /\ Paying(queuedList)' = Paying(queuedList)
      BY <2>4 DEF TipPending, Paying
    <3>4. queuedList' = queuedList /\ phase' = "tips" /\ phase = "tips"
      BY <2>4 DEF TipPending
    <3> QED BY <3>1, <3>2, <3>3, <3>4 DEF TipsInv
  <2>5. CASE TipQueued
    <3>1. /\ queuedList' \in Seq(PoolTxs)
          /\ Paying(queuedList) = IF insert_with_min_tip(Head(queuedList))
                                  THEN {Head(queuedList)} \cup Paying(Tail(queuedList))
                                  ELSE Paying(Tail(queuedList))
      BY <2>5, PayingOfTail DEF TipQueued, TipsInv
    <3>2. /\ content' = [pending |-> content.pending, queued |-> content'.queued]
          /\ content'.pending = content.pending
          /\ content'.queued \cup Paying(Tail(queuedList))
               = content.queued \cup Paying(queuedList)
      BY <2>5, <3>1 DEF TipQueued, TipsInv
    <3>3. /\ Paying(copied.pending)' = Paying(copied.pending)
          /\ Paying(copied.queued)' = Paying(copied.queued)
          /\ Paying(pendingList)' = Paying(pendingList)
          /\ Paying(queuedList)' = Paying(Tail(queuedList))
      BY <2>5 DEF TipQueued, Paying
    <3>4. pendingList' = pendingList /\ phase' = "tips" /\ phase = "tips"
      BY <2>5 DEF TipQueued
    <3> QED BY <3>1, <3>2, <3>3, <3>4 DEF TipsInv
  <2>6. CASE TipFails
    BY <2>6 DEF TipFails, TipsInv
  <2>7. CASE AnswerTips
    <3>1. Paying(pendingList) = {} /\ Paying(queuedList) = {}
      BY <2>7 DEF AnswerTips, Paying, Range
    <3>2. content.pending = Paying(copied.pending) /\ content.queued = Paying(copied.queued)
      BY <2>7, <3>1 DEF AnswerTips, TipsInv
    <3> QED BY <2>7, <3>2 DEF AnswerTips, TipsInv, Paying
  <2> QED
    BY <2>1, <2>2, <2>3, <2>4, <2>5, <2>6, <2>7 DEF ContentNext
<1>3. TipsInv => TipsAreWhatIsPaid
  BY DEF TipsInv, TipsAreWhatIsPaid, Paying
<1> QED BY <1>1, <1>2, <1>3, PTL DEF ContentSpec

------------------------------------------------------------------------------
(* The list                                                                *)

HIDE TxPoolContentAssumption

\* The gas and the size of a pooled transaction are natural numbers.
LEMMA ListTypes ==
    ASSUME NEW list \in Seq(PoolTxs), NEW i \in DOMAIN list
    PROVE  /\ list[i] \in PoolTxs /\ list[i].max_fee \in Nat
           /\ list[i].gas_limit \in Nat /\ list[i].bytes \in Nat
BY TxPoolContentAssumption

\* The payers of a part of the list are finitely many positions of it.
LEMMA PayersType ==
    ASSUME NEW list \in Seq(PoolTxs), NEW r, NEW n \in 0 .. Len(list)
    PROVE  /\ Payers(list, r, n) \subseteq DOMAIN list
           /\ IsFiniteSet(Payers(list, r, n))
<1>1. Payers(list, r, n) \subseteq 1 .. n /\ DOMAIN list = 1 .. Len(list)
  BY DEF Payers
<1>2. IsFiniteSet(1 .. n)
  BY FS_Interval
<1> QED BY <1>1, <1>2, FS_Subset

\* What one position more adds to the payers.
LEMMA PayersGrow ==
    ASSUME NEW list \in Seq(PoolTxs), NEW r, r.base_fee \in Nat,
           NEW n \in 0 .. Len(list), n < Len(list)
    PROVE  /\ n + 1 \notin Payers(list, r, n)
           /\ Payers(list, r, n + 1) =
                IF list[n + 1].max_fee >= r.base_fee
                THEN Payers(list, r, n) \cup {n + 1} ELSE Payers(list, r, n)
BY DEF Payers

\* The gas and the bytes of positions are natural numbers, they grow with the
\* positions, and a position more adds its own.
LEMMA TotalsOf ==
    ASSUME NEW list \in Seq(PoolTxs), NEW I \in SUBSET DOMAIN list, IsFiniteSet(I)
    PROVE  /\ GasOf(list, I) \in Nat /\ BytesOf(list, I) \in Nat
           /\ \A H \in SUBSET I :
                GasOf(list, H) <= GasOf(list, I) /\ BytesOf(list, H) <= BytesOf(list, I)
           /\ \A i \in DOMAIN list \ I :
                /\ GasOf(list, I \cup {i}) = GasOf(list, I) + list[i].gas_limit
                /\ BytesOf(list, I \cup {i}) = BytesOf(list, I) + list[i].bytes
<1> DEFINE g == [i \in DOMAIN list |-> list[i].gas_limit]
           b == [i \in DOMAIN list |-> list[i].bytes]
<1>1. \A i \in DOMAIN list : g[i] = list[i].gas_limit /\ b[i] = list[i].bytes
  OBVIOUS
<1>2. \A i \in DOMAIN list : g[i] \in Nat /\ b[i] \in Nat /\ g[i] \in Int /\ b[i] \in Int
  BY ListTypes
<1> HIDE DEF g, b
<1>3. \A H : GasOf(list, H) = SumFunctionOnSet(g, H) /\ BytesOf(list, H) = SumFunctionOnSet(b, H)
  BY DEF GasOf, BytesOf, g, b
<1>4. GasOf(list, I) \in Nat /\ BytesOf(list, I) \in Nat
  BY <1>2, <1>3, SumType
<1>5. ASSUME NEW H \in SUBSET I
      PROVE  GasOf(list, H) <= GasOf(list, I) /\ BytesOf(list, H) <= BytesOf(list, I)
  <2>1. \A i \in I : g[i] \in Nat /\ b[i] \in Nat
    BY <1>2
  <2> QED BY <1>3, <2>1, SumMonotone
<1>6. ASSUME NEW i \in DOMAIN list \ I
      PROVE  /\ GasOf(list, I \cup {i}) = GasOf(list, I) + list[i].gas_limit
             /\ BytesOf(list, I \cup {i}) = BytesOf(list, I) + list[i].bytes
  <2>1. /\ SumFunctionOnSet(g, I \cup {i}) = SumFunctionOnSet(g, I) + g[i]
        /\ SumFunctionOnSet(b, I \cup {i}) = SumFunctionOnSet(b, I) + b[i]
    BY <1>2, SumAdd
  <2> QED BY <1>1, <1>3, <2>1
<1> QED BY <1>4, <1>5, <1>6

\* Appending the transaction at a later position enumerates it as well.
LEMMA EnumerationGrows ==
    ASSUME NEW list \in Seq(PoolTxs), NEW s \in Seq(PoolTxs),
           NEW n \in 0 .. Len(list), n < Len(list),
           NEW I \in SUBSET (1 .. n), Enumerates(s, list, I)
    PROVE  Enumerates(Append(s, list[n + 1]), list, I \cup {n + 1})
<1> DEFINE u == Append(s, list[n + 1])
           J == I \cup {n + 1}
           Before(i) == {k \in I : k <= i}
<1>0. n \in Nat /\ \A k \in I : k \in Nat /\ k <= n
  OBVIOUS
<1>1. IsFiniteSet(I) /\ n + 1 \notin I
  <2>1. IsFiniteSet(1 .. n)
    BY <1>0, FS_Interval
  <2>2. IsFiniteSet(I)
    BY <2>1, FS_Subset
  <2> QED BY <1>0, <2>2
<1>2. /\ Cardinality(I) \in Nat /\ Len(s) = Cardinality(I)
      /\ Cardinality(J) = Cardinality(I) + 1
  BY <1>1, FS_CardinalityType, FS_AddElement DEF Enumerates
<1>3. /\ Len(u) = Len(s) + 1 /\ u[Len(s) + 1] = list[n + 1]
      /\ \A k \in 1 .. Len(s) : u[k] = s[k]
  <2>1. list[n + 1] \in PoolTxs
    OBVIOUS
  <2> QED BY <2>1
<1>4. ASSUME NEW i \in J PROVE u[Cardinality({k \in J : k <= i})] = list[i]
  <2>1. CASE i = n + 1
    <3>1. {k \in J : k <= i} = J
      <4>1. \A k \in J : k <= i
        BY <1>0, <2>1
      <4> HIDE DEF J
      <4> QED BY <4>1
    <3> QED BY <1>2, <1>3, <2>1, <3>1
  <2>2. CASE i \in I
    <3>1. {k \in J : k <= i} = Before(i)
      BY <2>2
    <3>2. Before(i) \in SUBSET I /\ i \in Before(i)
      BY <2>2
    <3>3. /\ IsFiniteSet(Before(i)) /\ Cardinality(Before(i)) \in Nat
          /\ Cardinality(Before(i)) <= Cardinality(I) /\ Cardinality(Before(i)) # 0
      <4> HIDE DEF Before
      <4>1. IsFiniteSet(Before(i)) /\ Cardinality(Before(i)) <= Cardinality(I)
        BY <1>1, <3>2, FS_Subset
      <4> QED BY <3>2, <4>1, FS_CardinalityType, FS_EmptySet
    <3>4. s[Cardinality(Before(i))] = list[i]
      BY <2>2 DEF Enumerates
    <3> HIDE DEF Before, u, J
    <3>5. Cardinality(Before(i)) \in 1 .. Len(s)
      BY <1>2, <3>3
    <3> QED BY <1>3, <3>1, <3>4, <3>5
  <2> QED BY <2>1, <2>2
<1> QED BY <1>2, <1>3, <1>4 DEF Enumerates

\* A part of the list that ends at its end, or before a payer that does not fit
\* any more, is the longest one within the limits.
LEMMA StopsAtLongest ==
    ASSUME NEW list \in Seq(PoolTxs), NEW r \in Requests,
           NEW n \in 0 .. Len(list), Within(list, r, n),
           n = Len(list) \/ (n < Len(list) /\ ~Within(list, r, n + 1))
    PROVE  LongestPrefix(list, r) = Payers(list, r, n)
<1> DEFINE Longest(k) == /\ Within(list, r, k)
                         /\ \A m \in (k + 1) .. Len(list) : ~Within(list, r, m)
<1>1. Len(list) \in Nat /\ n \in Nat
  OBVIOUS
<1>2. ASSUME NEW m \in (n + 1) .. Len(list) PROVE ~Within(list, r, m)
  <2>1. /\ m \in 0 .. Len(list) /\ n + 1 \in 0 .. Len(list)
        /\ n < Len(list) /\ ~Within(list, r, n + 1)
    BY <1>1
  <2> DEFINE P == Payers(list, r, n + 1)
             Q == Payers(list, r, m)
  <2>2. P \in SUBSET Q
    BY <1>1, <2>1 DEF Payers
  <2>3. /\ P \in SUBSET DOMAIN list /\ IsFiniteSet(P)
        /\ Q \in SUBSET DOMAIN list /\ IsFiniteSet(Q)
    BY <2>1, PayersType
  <2> HIDE DEF P, Q
  <2>4. /\ GasOf(list, P) <= GasOf(list, Q) /\ BytesOf(list, P) <= BytesOf(list, Q)
        /\ GasOf(list, P) \in Nat /\ BytesOf(list, P) \in Nat
        /\ GasOf(list, Q) \in Nat /\ BytesOf(list, Q) \in Nat
    BY <2>2, <2>3, TotalsOf
  <2>5. r.block_max_gas_limit \in Nat /\ r.max_bytes_per_tx_list \in Nat
    BY TxPoolContentAssumption
  <2>6. ~(/\ GasOf(list, P) <= r.block_max_gas_limit
          /\ BytesOf(list, P) <= r.max_bytes_per_tx_list)
    BY <2>1 DEF Within, P
  <2>7. ~(/\ GasOf(list, Q) <= r.block_max_gas_limit
          /\ BytesOf(list, Q) <= r.max_bytes_per_tx_list)
    BY <2>4, <2>5, <2>6
  <2> QED BY <2>7 DEF Within, Q
<1>3. Longest(n)
  BY <1>2
<1>4. \A k \in 0 .. Len(list) : Longest(k) => k = n
  BY <1>1, <1>3
<1>5. n = CHOOSE k \in 0 .. Len(list) : Longest(k)
  <2> HIDE DEF Longest
  <2> QED BY <1>3, <1>4
<1> QED BY <1>5 DEF LongestPrefix

\* How far the loop is.
Done == Len(copied.pending) - Len(pendingList)

\* What is left is the end of the copy; the list so far is the payers of the
\* part before it, with their totals, within both limits.
ListInv ==
    /\ pendingList \in Seq(PoolTxs) /\ copied.pending \in Seq(PoolTxs)
    /\ transactions \in Seq(PoolTxs)
    /\ phase \in {"list", "listed"} =>
         /\ request \in Requests
         /\ Done \in 0 .. Len(copied.pending)
         /\ \A k \in 1 .. Len(pendingList) : pendingList[k] = copied.pending[Done + k]
         /\ Enumerates(transactions, copied.pending, Payers(copied.pending, request, Done))
         /\ total_gas_used = GasOf(copied.pending, Payers(copied.pending, request, Done))
         /\ total_bytes = BytesOf(copied.pending, Payers(copied.pending, request, Done))
         /\ Within(copied.pending, request, Done)
    /\ phase = "listed" =>
         LongestPrefix(copied.pending, request) = Payers(copied.pending, request, Done)

\* In the loop: the head of what is left is the next of the copy, and if it
\* pays the base fee, it fits exactly when one position more is within limits.
LEMMA AtHead ==
    ASSUME ListInv, phase = "list", pendingList # <<>>
    PROVE  /\ Done \in 0 .. Len(copied.pending) /\ Done < Len(copied.pending)
           /\ Head(pendingList) = copied.pending[Done + 1]
           /\ Head(pendingList) \in PoolTxs
           /\ Head(pendingList).max_fee \in Nat /\ request.base_fee \in Nat
           /\ Tail(pendingList) \in Seq(PoolTxs)
           /\ Len(copied.pending) - Len(Tail(pendingList)) = Done + 1
           /\ \A k \in 1 .. Len(Tail(pendingList)) :
                Tail(pendingList)[k] = copied.pending[(Done + 1) + k]
           /\ Head(pendingList).max_fee >= request.base_fee =>
                /\ Fits(Head(pendingList)) <=> Within(copied.pending, request, Done + 1)
                /\ GasOf(copied.pending, Payers(copied.pending, request, Done + 1))
                     = total_gas_used + Head(pendingList).gas_limit
                /\ BytesOf(copied.pending, Payers(copied.pending, request, Done + 1))
                     = total_bytes + Head(pendingList).bytes
<1> DEFINE list == copied.pending
           n == Done
           t == Head(pendingList)
           rest == Tail(pendingList)
           P == Payers(list, request, n)
           Q == Payers(list, request, n + 1)
<1>1. /\ pendingList \in Seq(PoolTxs) /\ list \in Seq(PoolTxs) /\ request \in Requests
      /\ n \in 0 .. Len(list) /\ n = Len(list) - Len(pendingList)
      /\ \A k \in 1 .. Len(pendingList) : pendingList[k] = list[n + k]
      /\ total_gas_used = GasOf(list, P) /\ total_bytes = BytesOf(list, P)
  BY DEF ListInv, Done
<1>2. /\ Len(pendingList) \in Nat \ {0} /\ Len(list) \in Nat
      /\ t = pendingList[1] /\ t \in PoolTxs
      /\ rest \in Seq(PoolTxs) /\ Len(rest) = Len(pendingList) - 1
      /\ \A k \in 1 .. Len(rest) : rest[k] = pendingList[k + 1]
  BY <1>1, HeadTailProperties
<1> HIDE DEF n, t, rest, list
<1>3. n < Len(list) /\ t = list[n + 1] /\ n + 1 \in DOMAIN list
  BY <1>1, <1>2
<1>4. Len(list) - Len(rest) = n + 1
  BY <1>1, <1>2
<1>5. \A k \in 1 .. Len(rest) : rest[k] = list[(n + 1) + k]
  <2> SUFFICES ASSUME NEW k \in 1 .. Len(rest) PROVE rest[k] = list[(n + 1) + k]
    OBVIOUS
  <2>1. k + 1 \in 1 .. Len(pendingList) /\ n + (k + 1) = (n + 1) + k
    BY <1>1, <1>2
  <2>2. rest[k] = pendingList[k + 1] /\ pendingList[k + 1] = list[n + (k + 1)]
    BY <1>1, <1>2, <2>1
  <2> QED BY <2>1, <2>2
<1>6. request.base_fee \in Nat /\ t.max_fee \in Nat
  BY <1>1, <1>2, TxPoolContentAssumption
<1>7. ASSUME t.max_fee >= request.base_fee
      PROVE  /\ Fits(t) <=> Within(list, request, n + 1)
             /\ GasOf(list, Q) = total_gas_used + t.gas_limit
             /\ BytesOf(list, Q) = total_bytes + t.bytes
  <2>1. n + 1 \notin P /\ Q = P \cup {n + 1}
    BY <1>1, <1>3, <1>6, <1>7, PayersGrow
  <2>2. P \in SUBSET DOMAIN list /\ IsFiniteSet(P)
    BY <1>1, PayersType
  <2>3. /\ GasOf(list, Q) = total_gas_used + t.gas_limit
        /\ BytesOf(list, Q) = total_bytes + t.bytes
    <3> HIDE DEF P, Q
    <3> QED BY <1>1, <1>3, <2>1, <2>2, TotalsOf
  <2> QED BY <2>3 DEF Fits, Within
<1> QED BY <1>1, <1>2, <1>3, <1>4, <1>5, <1>6, <1>7 DEF n, t, rest, list

\* The loop keeps the invariant, for every pool and every request.
THEOREM ListInvHolds == ContentSpec => []ListInv
<1>1. ContentInit => ListInv
  <2> SUFFICES ASSUME ContentInit PROVE ListInv
    OBVIOUS
  <2>1. /\ pendingList \in Seq(PoolTxs) /\ copied.pending = pendingList
        /\ transactions = <<>> /\ total_gas_used = 0 /\ total_bytes = 0
        /\ (phase = "list" /\ request \in Requests) \/ phase = "tips"
    BY CopyType DEF ContentInit
  <2>2. Len(pendingList) \in Nat /\ transactions \in Seq(PoolTxs)
    BY <2>1
  <2>3. CASE phase = "list"
    <3> DEFINE none == Payers(copied.pending, request, Done)
    <3>1. Done = 0 /\ none = {}
      BY <2>1, <2>2 DEF Done, Payers
    <3>2. /\ GasOf(copied.pending, none) = 0 /\ BytesOf(copied.pending, none) = 0
          /\ Cardinality(none) = 0
      BY <3>1, SumEmpty, FS_EmptySet DEF GasOf, BytesOf
    <3>3. Enumerates(transactions, copied.pending, none)
      BY <2>1, <3>1, <3>2 DEF Enumerates
    <3>4. Within(copied.pending, request, Done)
      BY <2>1, <2>3, <3>2, TxPoolContentAssumption DEF Within
    <3>5. \A k \in 1 .. Len(pendingList) : pendingList[k] = copied.pending[Done + k]
      BY <2>1, <2>2, <3>1
    <3> HIDE DEF none
    <3> QED BY <2>1, <2>2, <2>3, <3>1, <3>2, <3>3, <3>4, <3>5 DEF ListInv, none
  <2>4. CASE phase = "tips"
    BY <2>1, <2>2, <2>4 DEF ListInv
  <2> QED BY <2>1, <2>3, <2>4
<1>2. ASSUME ListInv, [ContentNext]_contentVars
      PROVE  ListInv'
  <2> USE <1>2
  <2>1. CASE UNCHANGED contentVars
    BY <2>1 DEF ListInv, Done, contentVars
  <2>2. CASE SkipCheap
    <3>1. /\ phase = "list" /\ pendingList # <<>> /\ pendingList' = Tail(pendingList)
          /\ Head(pendingList).max_fee < request.base_fee
          /\ UNCHANGED <<request, copied, transactions, total_gas_used, total_bytes, phase>>
      BY <2>2 DEF SkipCheap
    <3>2. /\ Done' = Done + 1 /\ Done \in 0 .. Len(copied.pending)
          /\ Done < Len(copied.pending) /\ copied.pending \in Seq(PoolTxs)
          /\ ~(copied.pending[Done + 1].max_fee >= request.base_fee)
          /\ request.base_fee \in Nat
      BY <3>1, AtHead DEF Done, ListInv
    <3>3. Payers(copied.pending, request, Done + 1) = Payers(copied.pending, request, Done)
      BY <3>2, PayersGrow
    <3>4. Within(copied.pending, request, Done + 1)
      BY <3>1, <3>3 DEF Within, ListInv
    <3>5. Done + 1 \in 0 .. Len(copied.pending)
      BY <3>2
    <3> QED BY <3>1, <3>2, <3>3, <3>4, <3>5, AtHead DEF ListInv
  <2>3. CASE PushTx
    <3>1. /\ phase = "list" /\ pendingList # <<>> /\ pendingList' = Tail(pendingList)
          /\ Head(pendingList).max_fee >= request.base_fee /\ Fits(Head(pendingList))
          /\ transactions' = Append(transactions, Head(pendingList))
          /\ total_gas_used' = total_gas_used + Head(pendingList).gas_limit
          /\ total_bytes' = total_bytes + Head(pendingList).bytes
          /\ UNCHANGED <<request, copied, phase>>
      BY <2>3 DEF PushTx
    <3>2. /\ Done' = Done + 1 /\ Done \in 0 .. Len(copied.pending)
          /\ Done < Len(copied.pending) /\ copied.pending \in Seq(PoolTxs)
          /\ transactions \in Seq(PoolTxs) /\ Head(pendingList) \in PoolTxs
          /\ Head(pendingList) = copied.pending[Done + 1]
          /\ request.base_fee \in Nat
      BY <3>1, AtHead DEF Done, ListInv
    <3>3. /\ Payers(copied.pending, request, Done + 1)
               = Payers(copied.pending, request, Done) \cup {Done + 1}
          /\ Payers(copied.pending, request, Done) \in SUBSET (1 .. Done)
      BY <3>1, <3>2, PayersGrow DEF Payers
    <3>4. Enumerates(transactions', copied.pending, Payers(copied.pending, request, Done + 1))
      BY <3>1, <3>2, <3>3, EnumerationGrows DEF ListInv
    <3>5. /\ Within(copied.pending, request, Done + 1)
          /\ total_gas_used'
               = GasOf(copied.pending, Payers(copied.pending, request, Done + 1))
          /\ total_bytes'
               = BytesOf(copied.pending, Payers(copied.pending, request, Done + 1))
      BY <3>1, AtHead
    <3>6. Done + 1 \in 0 .. Len(copied.pending) /\ transactions' \in Seq(PoolTxs)
      BY <3>1, <3>2
    <3> QED BY <3>1, <3>2, <3>4, <3>5, <3>6, AtHead DEF ListInv
  <2>4. CASE AnswerList
    <3>1. /\ phase = "list" /\ phase' \in {"listed", "nothing"}
          /\ UNCHANGED <<request, pendingList, copied, transactions, total_gas_used,
                         total_bytes>>
      BY <2>4 DEF AnswerList
    <3>2. /\ copied.pending \in Seq(PoolTxs) /\ request \in Requests
          /\ Done \in 0 .. Len(copied.pending) /\ Within(copied.pending, request, Done)
      BY <3>1 DEF ListInv
    <3>3. \/ Done = Len(copied.pending)
          \/ /\ Done < Len(copied.pending)
             /\ ~Within(copied.pending, request, Done + 1)
      <4>1. CASE pendingList = <<>>
        <5>1. Len(pendingList) = 0 /\ Len(copied.pending) \in Nat
          BY <3>2, <4>1
        <5> QED BY <5>1 DEF Done
      <4>2. CASE pendingList # <<>>
        BY <2>4, <3>1, <4>2, AtHead DEF AnswerList
      <4> QED BY <4>1, <4>2
    <3>4. LongestPrefix(copied.pending, request) = Payers(copied.pending, request, Done)
      BY <3>2, <3>3, StopsAtLongest
    <3>5. Done' = Done
      BY <3>1 DEF Done
    <3> QED BY <3>1, <3>4, <3>5 DEF ListInv
  <2>5. CASE TipPending \/ TipQueued \/ TipFails \/ AnswerTips
    <3>1. /\ \/ pendingList' = pendingList
             \/ pendingList # <<>> /\ pendingList' = Tail(pendingList)
          /\ phase' \notin {"list", "listed"}
          /\ UNCHANGED <<copied, transactions>>
      <4> HIDE <1>2
      <4>1. CASE TipPending
        BY <4>1 DEF TipPending
      <4>2. CASE TipQueued \/ TipFails \/ AnswerTips
        BY <4>2 DEF TipQueued, TipFails, AnswerTips
      <4> QED BY <2>5, <4>1, <4>2
    <3>2. pendingList' \in Seq(PoolTxs)
      BY <3>1, HeadTailProperties DEF ListInv
    <3> QED BY <3>1, <3>2 DEF ListInv
  <2> QED BY <2>1, <2>2, <2>3, <2>4, <2>5 DEF ContentNext
<1> QED BY <1>1, <1>2, PTL DEF ContentSpec

\* The list kasplexAuth_txPoolContent answers is the longest affordable prefix
\* of the payers, with its totals, for every pool and every request.
THEOREM ListIsLongestPrefixHolds == ContentSpec => []ListIsLongestPrefix
<1>1. ListInv => ListIsLongestPrefix
  BY DEF ListInv, ListIsLongestPrefix
<1> QED BY <1>1, ListInvHolds, PTL

------------------------------------------------------------------------------
(* The totals                                                              *)

\* A transaction more in the list adds its gas and its bytes to those of the list.
LEMMA TotalsOfAppend ==
    ASSUME NEW s \in Seq(PoolTxs), NEW t \in PoolTxs
    PROVE  /\ GasOf(Append(s, t), DOMAIN Append(s, t))
                = GasOf(s, DOMAIN s) + t.gas_limit
           /\ BytesOf(Append(s, t), DOMAIN Append(s, t))
                = BytesOf(s, DOMAIN s) + t.bytes
<1> DEFINE u == Append(s, t)
           n == Len(s)
           I == 1 .. n
<1>1. /\ n \in Nat /\ u \in Seq(PoolTxs) /\ DOMAIN s = I /\ DOMAIN u = 1 .. (n + 1)
      /\ u[n + 1] = t /\ \A i \in I : u[i] = s[i]
  OBVIOUS
<1>2. /\ IsFiniteSet(I) /\ 1 .. (n + 1) = I \cup {n + 1}
      /\ I \in SUBSET DOMAIN u /\ n + 1 \in DOMAIN u \ I
  <2>1. n \in Nat /\ DOMAIN u = 1 .. (n + 1)
    BY <1>1
  <2> HIDE DEF n, u
  <2>2. IsFiniteSet(I)
    BY <2>1, FS_Interval
  <2>3. 1 .. (n + 1) = I \cup {n + 1}
    BY <2>1
  <2>4. n + 1 \notin I
    BY <2>1
  <2> QED BY <2>1, <2>2, <2>3, <2>4
<1> HIDE DEF u, n, I
<1>3. /\ GasOf(u, I \cup {n + 1}) = GasOf(u, I) + t.gas_limit
      /\ BytesOf(u, I \cup {n + 1}) = BytesOf(u, I) + t.bytes
  BY <1>1, <1>2, TotalsOf
<1>4. GasOf(u, I) = GasOf(s, I)
  <2> DEFINE f == [i \in DOMAIN u |-> u[i].gas_limit]
             g == [i \in DOMAIN s |-> s[i].gas_limit]
  <2>1. \A i \in I : f[i] = g[i]
    BY <1>1, <1>2
  <2> HIDE DEF f, g
  <2>2. SumFunctionOnSet(f, I) = SumFunctionOnSet(g, I)
    BY <1>2, <2>1, SumSame
  <2> QED BY <2>2 DEF GasOf, f, g
<1>5. BytesOf(u, I) = BytesOf(s, I)
  <2> DEFINE f == [i \in DOMAIN u |-> u[i].bytes]
             g == [i \in DOMAIN s |-> s[i].bytes]
  <2>1. \A i \in I : f[i] = g[i]
    BY <1>1, <1>2
  <2> HIDE DEF f, g
  <2>2. SumFunctionOnSet(f, I) = SumFunctionOnSet(g, I)
    BY <1>2, <2>1, SumSame
  <2> QED BY <2>2 DEF BytesOf, f, g
<1> QED BY <1>1, <1>2, <1>3, <1>4, <1>5 DEF u

\* The totals reported are the sums over the answered list, and neither is over
\* its limit: used as the list of payload attributes with that gas limit, it fits
\* the block.
ListWithinLimits ==
    phase \in {"list", "listed"} =>
        /\ total_gas_used = GasOf(transactions, DOMAIN transactions)
        /\ total_bytes = BytesOf(transactions, DOMAIN transactions)
        /\ total_gas_used <= request.block_max_gas_limit
        /\ total_bytes <= request.max_bytes_per_tx_list

\* The list kasplexAuth_txPoolContent answers respects the limits it was asked
\* for, for every pool and every request.
THEOREM ListWithinLimitsHolds == ContentSpec => []ListWithinLimits
<1>1. ContentInit => ListWithinLimits
  <2> SUFFICES ASSUME ContentInit, phase = "list" PROVE ListWithinLimits
    BY DEF ContentInit, ListWithinLimits
  <2>1. /\ transactions = <<>> /\ total_gas_used = 0 /\ total_bytes = 0
        /\ request \in Requests
    BY DEF ContentInit
  <2>2. DOMAIN transactions = {}
    BY <2>1
  <2>3. GasOf(transactions, {}) = 0 /\ BytesOf(transactions, {}) = 0
    BY SumEmpty DEF GasOf, BytesOf
  <2> QED BY <2>1, <2>2, <2>3, TxPoolContentAssumption DEF ListWithinLimits
<1>2. ASSUME ListInv, ListWithinLimits, [ContentNext]_contentVars
      PROVE  ListWithinLimits'
  <2> USE <1>2
  <2>1. CASE UNCHANGED contentVars
    BY <2>1 DEF ListWithinLimits, contentVars
  <2>2. CASE SkipCheap \/ AnswerList
    <3>1. /\ UNCHANGED <<request, transactions, total_gas_used, total_bytes>>
          /\ phase = "list"
      BY <2>2 DEF SkipCheap, AnswerList
    <3> QED BY <3>1 DEF ListWithinLimits
  <2>3. CASE PushTx
    <3>1. /\ phase = "list" /\ pendingList # <<>> /\ Fits(Head(pendingList))
          /\ transactions' = Append(transactions, Head(pendingList))
          /\ total_gas_used' = total_gas_used + Head(pendingList).gas_limit
          /\ total_bytes' = total_bytes + Head(pendingList).bytes
          /\ UNCHANGED <<request, phase>>
      BY <2>3 DEF PushTx
    <3>2. Head(pendingList) \in PoolTxs /\ transactions \in Seq(PoolTxs)
      BY <3>1, AtHead DEF ListInv
    <3>3. /\ total_gas_used' = GasOf(transactions', DOMAIN transactions')
          /\ total_bytes' = BytesOf(transactions', DOMAIN transactions')
      BY <3>1, <3>2, TotalsOfAppend DEF ListWithinLimits
    <3> QED BY <3>1, <3>3 DEF ListWithinLimits, Fits
  <2>4. CASE TipPending \/ TipQueued \/ TipFails \/ AnswerTips
    <3>1. phase' \notin {"list", "listed"}
      BY <2>4 DEF TipPending, TipQueued, TipFails, AnswerTips
    <3> QED BY <3>1 DEF ListWithinLimits
  <2> QED BY <2>1, <2>2, <2>3, <2>4 DEF ContentNext
<1> QED BY <1>1, <1>2, ListInvHolds, PTL DEF ContentSpec
==============================================================================
