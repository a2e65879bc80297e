--------------------------- MODULE KasplexNodeJobs ---------------------------
(***************************************************************************)
(* The slots of KasplexEvmConfig.  For any number of jobs that overlap, no *)
(* slot is left set; and the block a job builds has the base fee and the   *)
(* extra data of its attributes, and its attempt does not panic, unless    *)
(* another job used the slots while the job's values were in them: the     *)
(* shared slots are the only way either can go wrong.  A block built from  *)
(* sound attributes by such a job is one the node accepts.                 *)
(***************************************************************************)
EXTENDS KasplexNodeTypes, BuiltBlocks, SumTheorems

\* What one job, or the payload service for it, does.
JobMoves(j) == ServiceStep(j) \/ JobStep(j)

\* A step of the node is one of one job, a restart, or leaves jobs and slots
\* alone.
LEMMA JobFrame ==
    ASSUME [Next]_vars
    PROVE  \/ \E j \in Jobs : JobMoves(j)
           \/ BuilderRestart
           \/ UNCHANGED <<slotVars, jobVars>>
<1> USE DEF builderVars, JobMoves
<1>1. CASE UNCHANGED vars
  BY <1>1 DEF vars
<1>2. CASE Request
  BY <1>2 DEF Request
<1>3. CASE PoolEvent
  BY <1>3 DEF PoolEvent
<1> QED
  BY <1>1, <1>2, <1>3
  DEF Next, Quiescent, SendHandler, FcuHandler, NewPayloadHandler, JobHandler,
      ConversionHandler, Restart

\* A step of job j does not move the other jobs.
LEMMA OtherJobs ==
    ASSUME TypeOK, NEW j \in Jobs, JobMoves(j)
    PROVE  \A k \in Jobs \ {j} : UNCHANGED <<jobStage[k], attrs[k], envBaseFee[k],
                                             ctxExtraData[k]>>
<1> USE DEF TypeOK, BuilderTypeOK, JobGoto, jobSetup
<1>1. CASE ServiceStep(j)
  BY <1>1 DEF ServiceStep, JobStarts, JobRetries, JobDelisted, jobVars
<1>2. CASE SlotStep(j)
  BY <1>2 DEF SlotStep, SetExtraData, SetBaseFee, ReadBaseFee, ReadExtraData,
              ClearExtraData, ClearBaseFee
<1>3. CASE JobOverflows(j) \/ JobFails(j) \/ PreExecution(j) \/ JobCancelled(j)
           \/ FinishBlock(j) \/ JobBuilt(j)
  BY <1>3 DEF JobOverflows, JobFails, PreExecution, JobCancelled, FinishBlock, JobBuilt
<1>4. CASE ExtractNumber(j) \/ SkipTx(j)
  BY <1>4 DEF ExtractNumber, SkipTx
<1>5. CASE ExecuteTx(j)
  BY <1>5 DEF ExecuteTx
<1>6. CASE StoreNumber(j)
  BY <1>6 DEF StoreNumber
<1> QED
  BY <1>1, <1>2, <1>3, <1>4, <1>5, <1>6 DEF JobMoves, JobStep

------------------------------------------------------------------------------
(* No slot is left set                                                     *)

ExtraStages == {"set_fee", "read_fee", "read_extra", "clear_extra"}
FeeStages == {"read_fee", "read_extra", "clear_extra", "clear_fee"}

\* Outside the six slot steps a job leaves both slots alone, and is in no stage
\* that holds one or stays where it is, with the same attributes.
LEMMA OutsideSlots ==
    ASSUME TypeOK, NEW j \in Jobs, JobMoves(j), ~SlotStep(j)
    PROVE  /\ UNCHANGED slotVars
           /\ \/ jobStage[j] \notin ExtraStages \cup FeeStages
              \/ UNCHANGED <<jobStage, attrs>>
<1> USE DEF ExtraStages, FeeStages, jobSetup
<1>1. CASE ServiceStep(j)
  BY <1>1 DEF ServiceStep, JobStarts, JobRetries, JobDelisted, jobVars
<1>2. CASE ExecuteTx(j)
  BY <1>2 DEF ExecuteTx
<1>3. CASE JobOverflows(j) \/ JobFails(j) \/ PreExecution(j) \/ JobCancelled(j) \/ ExtractNumber(j)
           \/ SkipTx(j) \/ FinishBlock(j) \/ StoreNumber(j) \/ JobBuilt(j)
  BY <1>3 DEF JobOverflows, JobFails, PreExecution, JobCancelled, ExtractNumber,
              SkipTx, FinishBlock, StoreNumber, JobBuilt
<1> QED
  BY <1>1, <1>2, <1>3 DEF JobMoves, JobStep

\* A filled slot holds the value of a job that is between setting and clearing it,
\* for any number of overlapping jobs (SlotsHeldByJob).
THEOREM SlotsHeldByJobHolds == Spec => []SlotsHeldByJob
<1>1. Init => SlotsHeldByJob
  BY DEF Init, BuilderInit, SlotsHeldByJob
<1>2. TypeOK /\ SlotsHeldByJob /\ [Next]_vars => SlotsHeldByJob'
  <2> SUFFICES ASSUME TypeOK, SlotsHeldByJob, [Next]_vars
               PROVE  SlotsHeldByJob'
    OBVIOUS
  <2>1. CASE UNCHANGED <<slotVars, jobVars>>
    BY <2>1 DEF slotVars, jobVars, SlotsHeldByJob
  <2>3. CASE BuilderRestart
    BY <2>3 DEF BuilderRestart, SlotsHeldByJob
  <2>2. ASSUME NEW j \in Jobs, JobMoves(j)
        PROVE  SlotsHeldByJob'
    <3>1. \A k \in Jobs \ {j} : UNCHANGED <<jobStage[k], attrs[k]>>
      BY <2>2, OtherJobs
    <3>2. ASSUME NEW st, jobStage' = [jobStage EXCEPT ![j] = st]
          PROVE  jobStage'[j] = st
      BY <3>2 DEF TypeOK, BuilderTypeOK
    <3>3. CASE ~SlotStep(j)
      <4>1. /\ UNCHANGED slotVars
            /\ \/ jobStage[j] \notin ExtraStages \cup FeeStages
               \/ UNCHANGED <<jobStage, attrs>>
        BY <2>2, <3>3, OutsideSlots
      <4> QED
        BY <3>1, <4>1 DEF SlotsHeldByJob, ExtraStages, FeeStages, slotVars
    <3> USE DEF JobGoto, SlotsHeldByJob, slotVars
    <3>4. CASE SetExtraData(j)
      BY <3>1, <3>2, <3>4 DEF SetExtraData
    <3>5. CASE SetBaseFee(j)
      BY <3>1, <3>2, <3>5 DEF SetBaseFee
    <3>6. CASE ReadBaseFee(j)
      BY <3>1, <3>2, <3>6 DEF ReadBaseFee
    <3>7. CASE ReadExtraData(j)
      BY <3>1, <3>2, <3>7 DEF ReadExtraData
    <3>8. CASE ClearExtraData(j)
      BY <3>1, <3>2, <3>8 DEF ClearExtraData
    <3>9. CASE ClearBaseFee(j)
      BY <3>1, <3>2, <3>9 DEF ClearBaseFee
    <3> QED
      BY <3>3, <3>4, <3>5, <3>6, <3>7, <3>8, <3>9 DEF SlotStep
  <2> QED
    BY <2>1, <2>2, <2>3, JobFrame
<1> QED
  BY <1>1, <1>2, TypeOKHolds, PTL DEF Spec

------------------------------------------------------------------------------
(* Jobs that no other disturbs                                             *)

\* The stages after builder_for_next_block.
Building == {"pre", "next_tx", "execute", "store", "built"}

\* A job that shares the slots with another at the wrong time is disturbed.
SharedSlotsNoted ==
    \A j \in Jobs : \A k \in Jobs \ {j} :
        jobStage[j] \in Exposed /\ jobStage[k] \in SlotStages => disturbed[j]

\* What job j set is what it reads, and what it read is what its attributes say.
OwnValues(j) ==
    /\ jobStage[j] \in Exposed => current_extra_data = attrs[j].extra_data
    /\ jobStage[j] \in {"read_fee", "read_extra"} =>
         current_base_fee_per_gas = attrs[j].base_fee_per_gas
    /\ jobStage[j] \in Building \cup {"read_extra", "clear_extra", "clear_fee"} =>
         envBaseFee[j] = attrs[j].base_fee_per_gas
    /\ jobStage[j] \in Building \cup {"clear_extra", "clear_fee"} =>
         ctxExtraData[j] = attrs[j].extra_data
    /\ jobStage[j] = "panicked" => attrs[j].base_fee_per_gas > U64_MAX

\* The inductive invariant.
JobsInv ==
    /\ SharedSlotsNoted
    /\ \A j \in Jobs : ~disturbed[j] => OwnValues(j)

\* A job that is not disturbed after a step was not before, or starts an attempt.
LEMMA TrackDisturbed ==
    ASSUME TypeOK, Track, NEW j \in Jobs, ~disturbed'[j]
    PROVE  ~disturbed[j] \/ jobStage'[j] = "set_extra"
BY Zenon DEF Track

\* The bookkeeping notes every job that shares the slots.
LEMMA TrackShared ==
    ASSUME Track, NEW j \in Jobs, NEW k \in Jobs \ {j},
           jobStage'[j] \in Exposed, jobStage'[k] \in SlotStages
    PROVE  disturbed'[j]
<1>1. jobStage'[j] # "set_extra"
  BY DEF Exposed
<1> QED
  BY <1>1, Zenon DEF Track

\* A step of job j keeps the values of job j its own.
LEMMA OwnValuesStep ==
    ASSUME TypeOK, NEW j \in Jobs, OwnValues(j), JobMoves(j)
    PROVE  OwnValues(j)'
<1>1. ASSUME NEW st, jobStage' = [jobStage EXCEPT ![j] = st]
      PROVE  jobStage'[j] = st
  BY <1>1 DEF TypeOK, BuilderTypeOK
<1>2. ASSUME jobStage[j] # "idle"
      PROVE  attrs[j].base_fee_per_gas \in Nat /\ attrs[j].extra_data # None
  BY <1>2, PayloadBuilderAssumption DEF TypeOK, BuilderTypeOK
<1> USE DEF JobGoto, OwnValues, Exposed, Building, slotVars, jobSetup
<1>3. CASE JobStarts(j) \/ JobRetries(j)
  BY <1>1, <1>3 DEF JobStarts, JobRetries
<1>4. CASE JobDelisted(j)
  BY <1>4 DEF JobDelisted, jobVars
<1>5. CASE SetExtraData(j)
  BY <1>1, <1>5 DEF SetExtraData
<1>6. CASE SetBaseFee(j)
  BY <1>1, <1>6 DEF SetBaseFee
<1>7. CASE ReadBaseFee(j)
  <2>1. envBaseFee'[j] = attrs[j].base_fee_per_gas
    BY <1>2, <1>7, TxMappingAssumption
    DEF ReadBaseFee, BaseFeeForNext, TypeOK, BuilderTypeOK
  <2> QED
    BY <1>1, <1>7, <2>1 DEF ReadBaseFee
<1>8. CASE ReadExtraData(j)
  <2>1. ctxExtraData'[j] = attrs[j].extra_data
    BY <1>2, <1>8 DEF ReadExtraData, TypeOK, BuilderTypeOK
  <2> QED
    BY <1>1, <1>8, <2>1 DEF ReadExtraData
<1>9. CASE ClearExtraData(j) \/ ClearBaseFee(j)
  BY <1>1, <1>9 DEF ClearExtraData, ClearBaseFee
<1>10. CASE JobFails(j) \/ PreExecution(j) \/ JobCancelled(j) \/ FinishBlock(j)
            \/ JobBuilt(j)
  BY <1>1, <1>10 DEF JobFails, PreExecution, JobCancelled, FinishBlock, JobBuilt
<1>11. CASE ExtractNumber(j) \/ SkipTx(j)
  BY <1>1, <1>11 DEF ExtractNumber, SkipTx
<1>12. CASE ExecuteTx(j)
  <2> DEFINE t == Head(txs[j])
  <2>1. t \in TxHashes /\ MaxFee[t] \in Nat
    BY <1>12, TransactionsAssumption DEF ExecuteTx, TypeOK, BuilderTypeOK
  <2>2. MaxFee[t] >= envBaseFee[j] /\ envBaseFee[j] = attrs[j].base_fee_per_gas
    BY <1>12 DEF ExecuteTx, Executable
  <2>3. attrs[j].base_fee_per_gas \in Nat
    BY <1>2, <1>12 DEF ExecuteTx
  <2>4. ~(MaxFee[t] < attrs[j].base_fee_per_gas)
    BY <2>1, <2>2, <2>3
  <2>5. jobStage'[j] = "next_tx"
    BY <1>1, <1>12, <2>4 DEF ExecuteTx
  <2> QED
    BY <1>12, <2>5 DEF ExecuteTx
<1>13. CASE StoreNumber(j)
  BY <1>13 DEF StoreNumber
<1>14. CASE JobOverflows(j)
  BY <1>1, <1>14 DEF JobOverflows
<1> QED
  BY <1>3, <1>4, <1>5, <1>6, <1>7, <1>8, <1>9, <1>10, <1>11, <1>12, <1>13, <1>14
  DEF JobMoves, ServiceStep, JobStep, SlotStep

\* A step of another job k leaves the slots alone while the values of job j are
\* in them, unless it disturbs j.
LEMMA SlotsLeftAlone ==
    ASSUME TypeOK, SharedSlotsNoted, Track, NEW j \in Jobs, NEW k \in Jobs \ {j},
           JobMoves(k), jobStage[j] \in Exposed, ~disturbed[j], ~disturbed'[j]
    PROVE  UNCHANGED slotVars
<1>1. UNCHANGED jobStage[j]
  BY OtherJobs
<1>2. jobStage[k] \notin SlotStages /\ jobStage'[k] \notin SlotStages
  BY <1>1, TrackShared DEF SharedSlotsNoted
<1>3. ASSUME SlotStep(k) PROVE FALSE
  <2>1. CASE SetExtraData(k)
    <3>1. jobStage'[k] = "set_fee"
      BY <2>1 DEF SetExtraData, JobGoto, TypeOK, BuilderTypeOK
    <3> QED
      BY <1>2, <3>1 DEF SlotStages, Exposed
  <2> QED
    BY <1>2, <1>3, <2>1
    DEF SlotStep, SetBaseFee, ReadBaseFee, ReadExtraData, ClearExtraData, ClearBaseFee,
        SlotStages, Exposed
<1> QED
  BY <1>3, OutsideSlots

\* Every step of the node keeps the invariant.
LEMMA JobsStep == TypeOK /\ JobsInv /\ [Next]_vars => JobsInv'
<1> SUFFICES ASSUME TypeOK, JobsInv, [Next]_vars PROVE JobsInv'
  OBVIOUS
<1>1. CASE UNCHANGED vars
  BY <1>1 DEF vars, builderVars, slotVars, jobVars, historyVars, JobsInv,
              SharedSlotsNoted, OwnValues
<1>2. CASE Track
  <2>1. SharedSlotsNoted'
    BY <1>2, TrackShared DEF SharedSlotsNoted
  <2>2. ASSUME NEW j \in Jobs, ~disturbed'[j]
        PROVE  OwnValues(j)'
    <3>1. CASE jobStage'[j] = "set_extra"
      BY <3>1 DEF OwnValues, Exposed, Building
    <3>2. CASE jobStage'[j] # "set_extra"
      <4>1. ~disturbed[j] /\ OwnValues(j)
        BY <1>2, <2>2, <3>2, TrackDisturbed DEF JobsInv
      <4>2. CASE UNCHANGED <<slotVars, jobVars>>
        BY <4>1, <4>2 DEF slotVars, jobVars, OwnValues
      <4>3. CASE BuilderRestart
        <5>1. /\ jobStage'[j] = jobStage[j] \/ jobStage'[j] = "lost"
              /\ jobStage'[j] \notin Exposed
              /\ UNCHANGED <<attrs, envBaseFee, ctxExtraData>>
          BY <4>3 DEF BuilderRestart, Running, Ended, Exposed
        <5> QED
          BY <4>1, <5>1 DEF OwnValues, Building, Exposed
      <4>4. CASE JobMoves(j)
        BY <4>1, <4>4, OwnValuesStep
      <4>5. ASSUME NEW k \in Jobs \ {j}, JobMoves(k)
            PROVE  OwnValues(j)'
        <5>1. UNCHANGED <<jobStage[j], attrs[j], envBaseFee[j], ctxExtraData[j]>>
          BY <4>5, OtherJobs
        <5>2. ASSUME jobStage[j] \in Exposed
              PROVE  UNCHANGED slotVars
          BY <1>2, <2>2, <4>1, <4>5, <5>2, SlotsLeftAlone DEF JobsInv
        <5> QED
          BY <4>1, <5>1, <5>2 DEF OwnValues, Exposed, slotVars
      <4> QED
        BY <4>2, <4>3, <4>4, <4>5, JobFrame
    <3> QED
      BY <3>1, <3>2
  <2> QED
    BY <2>1, <2>2 DEF JobsInv
<1> QED
  BY <1>1, <1>2, StepTracks

\* However many jobs overlap, fail, are repeated or lost in a restart, the values
\* of a job that is not disturbed are its own.
THEOREM UndisturbedCorrect == Spec => []JobsInv
<1>1. Init => JobsInv
  BY DEF Init, BuilderInit, JobsInv, SharedSlotsNoted, OwnValues, Exposed, Building
<1> QED
  BY <1>1, JobsStep, TypeOKHolds, PTL DEF Spec

\* A block has the base fee and the extra data of the attributes it was built
\* from, unless its job was disturbed (HeaderFollowsAttributes).
THEOREM HeaderFollowsAttributesHolds == Spec => []HeaderFollowsAttributes
<1>1. JobsInv => HeaderFollowsAttributes
  BY DEF JobsInv, OwnValues, Building, HeaderFollowsAttributes
<1> QED
  BY <1>1, UndisturbedCorrect, PTL

\* An attempt panics only for a base fee above 64 bits, or disturbed
\* (PanicsExplained).
THEOREM PanicsExplainedHolds == Spec => []PanicsExplained
<1>1. JobsInv => PanicsExplained
  BY DEF JobsInv, OwnValues, PanicsExplained
<1> QED
  BY <1>1, UndisturbedCorrect, PTL

------------------------------------------------------------------------------
(* The header that comes back                                              *)

\* A payload carries what its header had: converted back, it is that header.
LEMMA SameHeader ==
    ASSUME NEW j
    PROVE  process_kasplex_execution_data(from_block_unchecked(assemble_block(j)))
             = assemble_block(j)
BY DEF process_kasplex_execution_data, from_block_unchecked, assemble_block, try_into_block

------------------------------------------------------------------------------
(* The gas of a part of a list                                             *)

\* The gas limits of the first n transactions.
GasUpTo(list, n) == SumFunctionOnSet(GasLimits(list), 1 .. n)

\* rest is what is left of a list, and gas no more than the gas limits before it.
Left(list, rest, gas) ==
    LET n == Len(list) - Len(rest)
    IN  /\ n \in 0 .. Len(list)
        /\ \A k \in 1 .. Len(rest) : rest[k] = list[n + k]
        /\ gas <= GasUpTo(list, n)

\* The gas limits of a list are natural numbers.
LEMMA GasLimitsType ==
    ASSUME NEW list \in Seq(TxHashes)
    PROVE  /\ DOMAIN GasLimits(list) = 1 .. Len(list)
           /\ \A i \in 1 .. Len(list) : /\ GasLimits(list)[i] = TxGas[list[i]]
                                        /\ GasLimits(list)[i] \in Nat
<1>1. DOMAIN list = 1 .. Len(list) /\ \A i \in 1 .. Len(list) : list[i] \in TxHashes
  OBVIOUS
<1>2. \A i \in 1 .. Len(list) : TxGas[list[i]] \in Nat
  BY <1>1, TransactionsAssumption
<1>3. GasLimits(list) = [i \in 1 .. Len(list) |-> TxGas[list[i]]]
  BY <1>1 DEF GasLimits
<1> QED BY <1>2, <1>3

\* The gas of a part is a natural number, one transaction more adds its own, and
\* it is at most the gas of the list.
LEMMA GasUpToSteps ==
    ASSUME NEW list \in Seq(TxHashes), NEW n \in 0 .. Len(list)
    PROVE  /\ GasUpTo(list, n) \in Nat
           /\ n < Len(list) => GasUpTo(list, n + 1) = GasUpTo(list, n) + TxGas[list[n + 1]]
           /\ GasUpTo(list, n) <= SumFunction(GasLimits(list))
<1> DEFINE f == GasLimits(list)
<1>1. /\ DOMAIN f = 1 .. Len(list)
      /\ \A i \in 1 .. Len(list) : f[i] = TxGas[list[i]] /\ f[i] \in Nat /\ f[i] \in Int
  BY GasLimitsType
<1> HIDE DEF f
<1>2. IsFiniteSet(1 .. n) /\ IsFiniteSet(1 .. Len(list)) /\ 1 .. n \subseteq 1 .. Len(list)
  BY FS_Interval
<1>3. GasUpTo(list, n) \in Nat
  BY <1>1, <1>2, SumType DEF GasUpTo, f
<1>4. ASSUME n < Len(list)
      PROVE  GasUpTo(list, n + 1) = GasUpTo(list, n) + TxGas[list[n + 1]]
  <2>1. /\ 1 .. (n + 1) = (1 .. n) \cup {n + 1} /\ n + 1 \notin 1 .. n
        /\ n + 1 \in 1 .. Len(list)
    BY <1>4
  <2>2. f[n + 1] \in Int /\ \A i \in 1 .. n : f[i] \in Int
    BY <1>1, <1>2, <2>1
  <2>3. SumFunctionOnSet(f, (1 .. n) \cup {n + 1})
          = SumFunctionOnSet(f, 1 .. n) + f[n + 1]
    <3> DEFINE S == 1 .. n
               x == n + 1
    <3>1. IsFiniteSet(S) /\ x \notin S /\ f[x] \in Int /\ \A i \in S : f[i] \in Int
      BY <1>2, <2>1, <2>2
    <3> HIDE DEF S, x
    <3>2. SumFunctionOnSet(f, S \cup {x}) = SumFunctionOnSet(f, S) + f[x]
      BY <3>1, SumAdd
    <3> QED BY <3>2 DEF S, x
  <2> QED BY <1>1, <2>1, <2>3 DEF GasUpTo, f
<1>5. GasUpTo(list, n) <= SumFunction(f)
  BY <1>1, <1>2, SumMonotone DEF GasUpTo, SumFunction, f
<1> QED BY <1>3, <1>4, <1>5 DEF f

\* Before the first transaction nothing is used.
LEMMA LeftWhole ==
    ASSUME NEW list \in Seq(TxHashes)
    PROVE  Left(list, list, 0)
<1>1. Len(list) \in Nat /\ Len(list) - Len(list) = 0
  OBVIOUS
<1>2. GasUpTo(list, 0) \in Nat
  BY <1>1, GasUpToSteps
<1> QED BY <1>1, <1>2 DEF Left

\* Trying the next one uses at most its gas limit.
LEMMA LeftTail ==
    ASSUME NEW list \in Seq(TxHashes), NEW rest \in Seq(TxHashes), rest # <<>>,
           NEW gas \in Nat, Left(list, rest, gas),
           NEW more \in {gas, gas + TxGas[Head(rest)]}
    PROVE  Left(list, Tail(rest), more)
<1> DEFINE n == Len(list) - Len(rest)
           next == Tail(rest)
<1>1. /\ Len(rest) \in Nat \ {0} /\ Len(list) \in Nat /\ Head(rest) = rest[1]
      /\ Len(next) = Len(rest) - 1
      /\ \A k \in 1 .. Len(next) : next[k] = rest[k + 1]
  BY HeadTailProperties
<1>2. /\ n \in 0 .. Len(list) /\ n < Len(list) /\ Len(list) - Len(next) = n + 1
      /\ \A k \in 1 .. Len(rest) : rest[k] = list[n + k]
      /\ gas <= GasUpTo(list, n)
  BY <1>1 DEF Left
<1> HIDE DEF n, next
<1>3. \A k \in 1 .. Len(next) : next[k] = list[(n + 1) + k]
  <2> SUFFICES ASSUME NEW k \in 1 .. Len(next) PROVE next[k] = list[(n + 1) + k]
    OBVIOUS
  <2>1. k + 1 \in 1 .. Len(rest) /\ n + (k + 1) = (n + 1) + k
    BY <1>1, <1>2
  <2>2. next[k] = rest[k + 1] /\ rest[k + 1] = list[n + (k + 1)]
    BY <1>1, <1>2, <2>1
  <2> QED BY <2>1, <2>2
<1>4. /\ GasUpTo(list, n) \in Nat /\ TxGas[Head(rest)] \in Nat
      /\ GasUpTo(list, n + 1) = GasUpTo(list, n) + TxGas[Head(rest)]
  <2>1. Head(rest) = list[n + 1] /\ Head(rest) \in TxHashes
    BY <1>1, <1>2
  <2> QED BY <1>2, <2>1, GasUpToSteps, TransactionsAssumption
<1>5. more <= GasUpTo(list, n + 1)
  BY <1>2, <1>4
<1>6. n + 1 \in 0 .. Len(list)
  BY <1>1, <1>2
<1> QED BY <1>2, <1>3, <1>5, <1>6 DEF Left, next

------------------------------------------------------------------------------
(* The attempts                                                            *)

\* Nothing is used before a job starts; after it, the attributes are not earlier
\* than their parent, and the attempt has used no more gas than the gas limits of
\* the transactions it has tried.
AttemptInv ==
    \A j \in Jobs :
        IF jobStage[j] = "idle" THEN gas_used[j] = 0
        ELSE /\ attrs[j] \in AttributeSets
             /\ validate_payload_attributes_against_header(attrs[j])
             /\ Left(Transactions_Of(attrs[j]), txs[j], gas_used[j])

\* What a step of one job does to the attempts.
LEMMA AttemptMoves ==
    ASSUME TypeOK, NEW j \in Jobs, JobMoves(j)
    PROVE  /\ \A k \in Jobs \ {j} : UNCHANGED <<jobStage[k], attrs[k], txs[k], gas_used[k]>>
           /\ \/ /\ UNCHANGED <<attrs[j], txs[j], gas_used[j]>>
                 /\ (jobStage'[j] = "idle") <=> (jobStage[j] = "idle")
              \/ /\ jobStage[j] = "idle" /\ jobStage'[j] # "idle"
                 /\ attrs'[j] \in AttributeSets /\ gas_used'[j] = gas_used[j]
                 /\ validate_payload_attributes_against_header(attrs'[j])
                 /\ txs'[j] = Transactions_Of(attrs'[j])
              \/ /\ jobStage[j] # "idle" /\ jobStage'[j] # "idle"
                 /\ attrs'[j] = attrs[j] /\ gas_used'[j] = 0
                 /\ txs'[j] = Transactions_Of(attrs[j])
              \/ /\ jobStage[j] = "execute" /\ jobStage'[j] # "idle"
                 /\ attrs'[j] = attrs[j] /\ txs'[j] = Tail(txs[j])
                 /\ gas_used'[j] \in {gas_used[j], gas_used[j] + TxGas[Head(txs[j])]}
<1> USE DEF TypeOK, BuilderTypeOK, JobGoto, jobSetup, jobLocals
<1>1. CASE JobStarts(j)
  BY <1>1 DEF JobStarts
<1>2. CASE JobRetries(j)
  BY <1>2 DEF JobRetries
<1>3. CASE JobDelisted(j)
  BY <1>3 DEF JobDelisted, jobVars
<1>4. CASE SlotStep(j)
  BY <1>4 DEF SlotStep, SetExtraData, SetBaseFee, ReadBaseFee, ReadExtraData,
              ClearExtraData, ClearBaseFee
<1>5. CASE JobOverflows(j) \/ JobFails(j) \/ PreExecution(j) \/ JobCancelled(j)
           \/ FinishBlock(j) \/ JobBuilt(j)
  BY <1>5 DEF JobOverflows, JobFails, PreExecution, JobCancelled, FinishBlock, JobBuilt
<1>6. CASE ExtractNumber(j)
  BY <1>6 DEF ExtractNumber
<1>7. CASE SkipTx(j)
  BY <1>7 DEF SkipTx
<1>8. CASE ExecuteTx(j)
  BY <1>8 DEF ExecuteTx
<1>9. CASE StoreNumber(j)
  BY <1>9 DEF StoreNumber
<1> QED
  BY <1>1, <1>2, <1>3, <1>4, <1>5, <1>6, <1>7, <1>8, <1>9
  DEF JobMoves, ServiceStep, JobStep

\* The gas an attempt has used is covered by the gas limits of its list, however
\* often it is made again and whatever other jobs do.
THEOREM AttemptsWithinList == Spec => []AttemptInv
<1>1. Init => AttemptInv
  BY DEF Init, BuilderInit, AttemptInv
<1>2. TypeOK /\ AttemptInv /\ [Next]_vars => AttemptInv'
  <2> SUFFICES ASSUME TypeOK, AttemptInv, [Next]_vars
               PROVE  AttemptInv'
    OBVIOUS
  <2>1. CASE UNCHANGED <<slotVars, jobVars>>
    BY <2>1 DEF jobVars, AttemptInv, validate_payload_attributes_against_header
  <2>2. CASE BuilderRestart
    <3>1. /\ \A j \in Jobs : (jobStage'[j] = "idle") <=> (jobStage[j] = "idle")
          /\ UNCHANGED <<attrs, txs, gas_used>>
      BY <2>2 DEF BuilderRestart, Running
    <3> QED BY <3>1 DEF AttemptInv
  <2>3. ASSUME NEW j \in Jobs, JobMoves(j)
        PROVE  AttemptInv'
    <3> DEFINE Fine(k) == IF jobStage[k] = "idle" THEN gas_used[k] = 0
                          ELSE /\ attrs[k] \in AttributeSets
                               /\ validate_payload_attributes_against_header(attrs[k])
                               /\ Left(Transactions_Of(attrs[k]), txs[k], gas_used[k])
    <3>1. \A k \in Jobs : Fine(k)
      BY DEF AttemptInv
    <3>2. \A k \in Jobs \ {j} : Fine(k)'
      BY <2>3, <3>1, AttemptMoves
    <3>3. /\ txs[j] \in Seq(TxHashes) /\ gas_used[j] \in Nat
          /\ jobStage[j] = "execute" => txs[j] # <<>>
          /\ \A a \in AttributeSets : Transactions_Of(a) \in Seq(TxHashes)
      BY PayloadBuilderAssumption DEF TypeOK, BuilderTypeOK
    <3>4. CASE /\ UNCHANGED <<attrs[j], txs[j], gas_used[j]>>
               /\ (jobStage'[j] = "idle") <=> (jobStage[j] = "idle")
      BY <3>1, <3>2, <3>4 DEF AttemptInv
    <3>5. CASE /\ jobStage[j] = "idle" /\ jobStage'[j] # "idle"
               /\ attrs'[j] \in AttributeSets /\ gas_used'[j] = gas_used[j]
               /\ validate_payload_attributes_against_header(attrs'[j])
               /\ txs'[j] = Transactions_Of(attrs'[j])
      <4>1. gas_used'[j] = 0
        BY <3>1, <3>5
      <4>2. Left(Transactions_Of(attrs'[j]), txs'[j], gas_used'[j])
        BY <3>3, <3>5, <4>1, LeftWhole
      <4> QED BY <3>2, <3>5, <4>2 DEF AttemptInv
    <3>6. CASE /\ jobStage[j] # "idle" /\ jobStage'[j] # "idle"
               /\ attrs'[j] = attrs[j] /\ gas_used'[j] = 0
               /\ txs'[j] = Transactions_Of(attrs[j])
      <4>1. Left(Transactions_Of(attrs'[j]), txs'[j], gas_used'[j])
        BY <3>1, <3>3, <3>6, LeftWhole
      <4> QED BY <3>1, <3>2, <3>6, <4>1 DEF AttemptInv
    <3>7. CASE /\ jobStage[j] = "execute" /\ jobStage'[j] # "idle"
               /\ attrs'[j] = attrs[j] /\ txs'[j] = Tail(txs[j])
               /\ gas_used'[j] \in {gas_used[j], gas_used[j] + TxGas[Head(txs[j])]}
      <4>1. Left(Transactions_Of(attrs'[j]), txs'[j], gas_used'[j])
        BY <3>1, <3>3, <3>7, LeftTail
      <4> QED BY <3>1, <3>2, <3>7, <4>1 DEF AttemptInv
    <3> QED BY <2>3, <3>4, <3>5, <3>6, <3>7, AttemptMoves
  <2> QED BY <2>1, <2>2, <2>3, JobFrame
<1> QED BY <1>1, <1>2, TypeOKHolds, PTL DEF Spec

\* A block built from sound attributes by a job that no other disturbed is one the
\* node accepts when it comes back (BuiltBlockIsAccepted), for any number of jobs,
\* lists and retries.
THEOREM BuiltBlockIsAcceptedHolds == Spec => []BuiltBlockIsAccepted
<1>1. TypeOK /\ AttemptInv /\ HeaderFollowsAttributes => BuiltBlockIsAccepted
  <2> SUFFICES ASSUME TypeOK, AttemptInv, HeaderFollowsAttributes, NEW j \in Jobs,
                      jobStage[j] = "built", ~disturbed[j], Sound(attrs[j])
               PROVE  /\ process_kasplex_execution_data(
                            from_block_unchecked(assemble_block(j))) = assemble_block(j)
                      /\ validate_header(assemble_block(j))
                      /\ validate_header_against_parent(assemble_block(j),
                                                        ParentHeader(attrs[j].parent))
    BY DEF BuiltBlockIsAccepted
  <2> DEFINE a == attrs[j]
             list == Transactions_Of(a)
  <2>1. /\ a \in AttributeSets /\ a.timestamp >= Timestamp[a.parent]
        /\ Left(list, txs[j], gas_used[j])
    BY DEF AttemptInv, validate_payload_attributes_against_header
  <2>2. /\ a.gas_limit \in Nat /\ list \in Seq(TxHashes)
    BY <2>1, PayloadBuilderAssumption
  <2>3. envBaseFee[j] = a.base_fee_per_gas /\ ctxExtraData[j] = a.extra_data
    BY DEF HeaderFollowsAttributes
  <2>4. /\ a.base_fee_per_gas = KASPLEX_BASE_FEE /\ a.block_timestamp = a.timestamp
        /\ ExtraDataLength[a.extra_data] <= MaxExtraData
        /\ SumFunction(GasLimits(list)) <= a.gas_limit
    BY DEF Sound
  <2>5. gas_used[j] <= a.gas_limit
    <3> DEFINE n == Len(list) - Len(txs[j])
    <3>1. n \in 0 .. Len(list) /\ gas_used[j] <= GasUpTo(list, n)
      BY <2>1 DEF Left
    <3> HIDE DEF n, list, a
    <3>2. GasUpTo(list, n) \in Nat /\ GasUpTo(list, n) <= SumFunction(GasLimits(list))
      BY <2>2, <3>1, GasUpToSteps
    <3>3. SumFunction(GasLimits(list)) \in Nat
      <4>1. IsFiniteSet(1 .. Len(list))
        BY <2>2, FS_Interval
      <4> QED BY <2>2, <4>1, GasLimitsType, SumType DEF SumFunction
    <3>4. gas_used[j] \in Nat
      BY DEF TypeOK, BuilderTypeOK
    <3> QED BY <2>2, <2>4, <3>1, <3>2, <3>3, <3>4
  <2>6. validate_header(assemble_block(j))
    BY <2>3, <2>4, <2>5
    DEF validate_header, assemble_block, validate_kasplex_base_fee_in_header
  <2>7. validate_header_against_parent(assemble_block(j), ParentHeader(a.parent))
    BY <2>1, <2>3, <2>4
    DEF validate_header_against_parent, assemble_block, ParentHeader,
        validate_kasplex_base_fee_in_header
  <2> QED BY <2>6, <2>7, SameHeader
<1> QED BY <1>1, AttemptsWithinList, HeaderFollowsAttributesHolds, TypeOKHolds, PTL
==============================================================================
