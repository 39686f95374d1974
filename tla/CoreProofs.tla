----------------------------- MODULE CoreProofs -----------------------------
(***************************************************************************)
(* Proofs about the core contract, for any configuration and any inputs.   *)
(***************************************************************************)
EXTENDS Core, SumProofs, TLAPS

(***************************************************************************)
(* Types                                                                   *)
(***************************************************************************)

BatchMaps == [BatchId -> Batches]

(* Transactions of the plain form, and those with a batch, are transactions. *)
LEMMA PlainTxType ==
  ASSUME NEW kind \in Kinds, NEW amount \in Nat
  PROVE  /\ PlainTx(kind, amount) \in Txs
         /\ PlainTx(kind, amount).kind = kind
         /\ PlainTx(kind, amount).ids = {}
  BY DEF PlainTx, Txs, NoShares, Shares

(* What sending a transaction does to the register. *)
LEMMA SendType ==
  ASSUME NEW t \in Txs, P!Send(t)
  PROVE  P!TypeOK' /\ stage = "idle" /\ stage' = "sent" /\ tx' = t
  BY NullAssumption DEF P!Send, P!TypeOK, P!Stages

(* A new batch is a batch. *)
LEMMA NewBatchType ==
  ASSUME now \in Nat
  PROVE  /\ AbsentBatch \in Batches
         /\ NewBatch \in Batches
         /\ AbsentBatch.status = "Absent"
         /\ NewBatch.status = "New"
  BY DEF AbsentBatch, NewBatch, Batches, Statuses, NoAmount

(* The fee is an amount. *)
LEMMA FeeType ==
  ASSUME TypeOK
  PROVE  Fee \in Nat
<1>1. icaQuery.balance \in Nat /\ FeeNum \in Nat /\ FeeDen \in Nat \ {0}
  BY CoreAssumption DEF TypeOK
<1>2. icaQuery.balance * FeeNum \in Nat
  BY <1>1
<1> QED BY <1>1, <1>2 DEF Fee

-----------------------------------------------------------------------------
(***************************************************************************)
(* The tail of a tick either sends one transaction, into the state that    *)
(* waits for it, or rests in Idle and leaves the batches as it found them. *)
(***************************************************************************)

TailTypes ==
  /\ fsm' \in ContractStates
  /\ unbondBatchId' \in BatchId
  /\ batches' \in BatchMaps
  /\ collectedFees' \in Nat
  /\ coreBalance' \in Nat
  /\ P!TypeOK'

Rests(bs) ==
  /\ fsm' = "Idle"
  /\ batches' = bs
  /\ UNCHANGED <<unbondBatchId, tx, stage>>

SendsInto(kind, state) ==
  /\ stage = "idle" /\ stage' = "sent"
  /\ tx'.kind = kind /\ tx'.ids = {}
  /\ fsm' = state

(* Requesting an unbonding: only from Staking. *)
LEMMA RequestFacts ==
  ASSUME TypeOK, NEW from, NEW bs \in BatchMaps, RequestUnbonding(from, bs)
  PROVE  /\ from = "Staking"
         /\ fsm' = "Unbonding"
         /\ BatchToUnbond \in BatchId /\ BatchToUnbond + 1 \in BatchId
         /\ unbondBatchId' = BatchToUnbond + 1
         /\ batches' = [bs EXCEPT ![BatchToUnbond].status = "UnbondRequested",
                                  ![BatchToUnbond + 1] = NewBatch]
         /\ batches' \in BatchMaps
         /\ stage = "idle" /\ stage' = "sent"
         /\ tx'.kind = "Undelegate" /\ tx'.ids = {BatchToUnbond}
         /\ P!TypeOK'
<1> DEFINE id == BatchToUnbond
<1> DEFINE t == [PlainTx("Undelegate", bs[id].total) EXCEPT !.ids = {id}]
<1>1. id \in BatchId
  BY CoreAssumption DEF BatchToUnbond, TypeOK
<1>2. OpenedId(id) = id + 1 /\ id + 1 \in BatchId
  BY <1>1, CoreAssumption DEF OpenedId, BatchId, RequestUnbonding
<1>3. from = "Staking" /\ fsm' = "Unbonding"
  BY DEF RequestUnbonding, GoTo, Transitions
<1>4. bs[id] \in Batches /\ bs[id].total \in Nat
  BY <1>1 DEF BatchMaps, Batches
<1>5. PlainTx("Undelegate", bs[id].total) \in Txs
  BY <1>4, PlainTxType DEF Kinds
<1>6. t \in Txs /\ t.kind = "Undelegate" /\ t.ids = {id}
  BY <1>5, <1>1, <1>4, PlainTxType DEF Txs, Kinds
<1>7. P!TypeOK' /\ stage = "idle" /\ stage' = "sent" /\ tx' = t
  BY <1>6, SendType DEF RequestUnbonding
<1>8. unbondBatchId' = id + 1
  BY <1>2 DEF RequestUnbonding
<1>9. batches' = [bs EXCEPT ![id].status = "UnbondRequested", ![id + 1] = NewBatch]
  BY <1>2 DEF RequestUnbonding
<1>10. batches' \in BatchMaps
  <2>1. NewBatch \in Batches
    BY NewBatchType DEF TypeOK
  <2>2. [bs[id] EXCEPT !.status = "UnbondRequested"] \in Batches
    BY <1>4 DEF Batches, Statuses
  <2> QED BY <2>1, <2>2, <1>1, <1>2, <1>9 DEF BatchMaps
<1> QED BY <1>1, <1>2, <1>3, <1>6, <1>7, <1>8, <1>9, <1>10

(* The last link of the tail. *)
LEMMA UnbondTail ==
  ASSUME TypeOK, NEW from, NEW bs \in BatchMaps, UnbondOrRest(from, bs),
         UNCHANGED <<collectedFees, coreBalance>>
  PROVE  /\ TailTypes
         /\ RequestUnbonding(from, bs) \/ Rests(bs)
<1>1. CASE RequestUnbonding(from, bs)
  BY <1>1, RequestFacts DEF TailTypes, TypeOK, ContractStates
<1>2. CASE /\ GoTo(from, "Idle")
           /\ batches' = bs
           /\ UNCHANGED <<unbondBatchId, puppeteer>>
  <2>1. Rests(bs)
    BY <1>2 DEF Rests, GoTo, puppeteer
  <2>2. P!TypeOK'
    BY <2>1 DEF Rests, TypeOK, P!TypeOK
  <2> QED BY <2>1, <2>2 DEF TailTypes, TypeOK, Rests, ContractStates
<1> QED BY <1>1, <1>2 DEF UnbondOrRest

(* The link before. *)
LEMMA StakeTail ==
  ASSUME TypeOK, NEW from, NEW bs \in BatchMaps, StakeOrUnbondOrRest(from, bs),
         UNCHANGED coreBalance
  PROVE  /\ TailTypes
         /\ \/ SendsInto("Delegate", "Staking") /\ batches' = bs /\ UNCHANGED unbondBatchId
            \/ RequestUnbonding(from, bs)
            \/ Rests(bs)
<1>1. CASE StakeIcaBalance(from, bs)
  <2>1. icaQuery.balance \in Nat /\ Fee \in Nat
    BY FeeType DEF TypeOK
  <2>2. icaQuery.balance - Fee \in Nat
    BY <2>1, <1>1 DEF StakeIcaBalance
  <2> DEFINE t == PlainTx("Delegate", icaQuery.balance - Fee)
  <2>3. t \in Txs /\ t.kind = "Delegate" /\ t.ids = {}
    BY <2>2, PlainTxType DEF Kinds
  <2>4. P!TypeOK' /\ stage = "idle" /\ stage' = "sent" /\ tx' = t
    BY <2>3, <1>1, SendType DEF StakeIcaBalance
  <2>5. fsm' = "Staking" /\ batches' = bs /\ UNCHANGED unbondBatchId
    BY <1>1 DEF StakeIcaBalance, GoTo
  <2>6. collectedFees' \in Nat
    BY <2>1, <1>1 DEF StakeIcaBalance, TypeOK
  <2> QED BY <2>3, <2>4, <2>5, <2>6 DEF TailTypes, SendsInto, TypeOK, ContractStates
<1>2. CASE UnbondOrRest(from, bs) /\ UNCHANGED collectedFees
  BY <1>2, UnbondTail
<1> QED BY <1>1, <1>2 DEF StakeOrUnbondOrRest

(* The whole tail. *)
LEMMA TransferTail ==
  ASSUME TypeOK, NEW from, NEW bs \in BatchMaps, TransferOrStakeOrUnbondOrRest(from, bs)
  PROVE  /\ TailTypes
         /\ \/ /\ \/ SendsInto("IBCStake", "Transfering")
                  \/ SendsInto("Delegate", "Staking")
               /\ batches' = bs /\ UNCHANGED unbondBatchId
            \/ RequestUnbonding(from, bs)
            \/ Rests(bs)
<1>1. CASE TransferPending(from, bs)
  <2> DEFINE t == PlainTx("IBCStake", coreBalance)
  <2>1. t \in Txs /\ t.kind = "IBCStake" /\ t.ids = {}
    BY PlainTxType DEF Kinds, TypeOK
  <2>2. P!TypeOK' /\ stage = "idle" /\ stage' = "sent" /\ tx' = t
    BY <2>1, <1>1, SendType DEF TransferPending
  <2>3. fsm' = "Transfering" /\ batches' = bs /\ UNCHANGED <<unbondBatchId, collectedFees>>
        /\ coreBalance' = 0
    BY <1>1 DEF TransferPending, GoTo
  <2> QED BY <2>1, <2>2, <2>3 DEF TailTypes, SendsInto, TypeOK, ContractStates
<1>2. CASE StakeOrUnbondOrRest(from, bs) /\ UNCHANGED coreBalance
  BY <1>2, StakeTail
<1> QED BY <1>1, <1>2 DEF TransferOrStakeOrUnbondOrRest

-----------------------------------------------------------------------------
(***************************************************************************)
(* Every step preserves the types.                                         *)
(***************************************************************************)

(* Released and withdrawn batches are batches. *)
LEMMA ReleasedType ==
  ASSUME TypeOK, NEW S, ExpectedOf(S) \in 0..MaxAmount
  PROVE  /\ Released(S) \in BatchMaps
         /\ AtMost(icaQuery.balance, ExpectedOf(S)) \in Nat
<1>1. icaQuery.balance \in Nat
  BY DEF TypeOK
<1>2. AtMost(icaQuery.balance, ExpectedOf(S)) \in Nat
  BY <1>1, CoreAssumption DEF AtMost
<1>3. ASSUME NEW b \in BatchId
      PROVE  Released(S)[b] \in Batches
  <2>1. batches[b] \in Batches /\ batches[b].expected \in Nat
    BY DEF TypeOK, Batches
  <2>2. AtMost(icaQuery.balance, batches[b].expected) \in Nat
    BY <1>1, <2>1 DEF AtMost
  <2>3. [batches[b] EXCEPT !.status = "WithdrawingEmergency", !.unbonded = NoAmount] \in Batches
    BY <2>1 DEF Batches, Statuses
  <2>4. [batches[b] EXCEPT !.status = "Withdrawing",
                           !.unbonded = AtMost(icaQuery.balance, batches[b].expected)] \in Batches
    BY <2>1, <2>2 DEF Batches, Statuses
  <2> QED BY <2>1, <2>3, <2>4 DEF Released
<1> QED BY <1>2, <1>3 DEF BatchMaps, Released

LEMMA SettledType ==
  ASSUME TypeOK, NEW r \in Responses
  PROVE  Settled(r) \in BatchMaps
<1>1. ASSUME NEW b \in BatchId, NEW status \in Statuses
      PROVE  [batches[b] EXCEPT !.status = status] \in Batches
  BY DEF TypeOK, Batches
<1>2. MarkWithdrawn(r.tx) \in BatchMaps
  <2>1. ASSUME NEW b \in BatchId
        PROVE  MarkWithdrawn(r.tx)[b] \in Batches
    <3>1. batches[b] \in Batches
      BY DEF TypeOK
    <3>2. [batches[b] EXCEPT !.status = "Withdrawn"] \in Batches
          /\ [batches[b] EXCEPT !.status = "WithdrawnEmergency"] \in Batches
      BY <1>1 DEF Statuses
    <3> QED BY <3>1, <3>2 DEF MarkWithdrawn
  <2> QED BY <2>1 DEF MarkWithdrawn, BatchMaps
<1> QED BY <1>2 DEF Settled, TypeOK, BatchMaps

(* The claim of a long tick is a transaction. *)
LEMMA ClaimType ==
  ASSUME TypeOK, NEW S \in SUBSET BatchId, ExpectedOf(S) \in 0..MaxAmount
  PROVE  /\ ClaimAndTransfer(S) \in Txs
         /\ ClaimAndTransfer(S).kind = "Claim"
         /\ ClaimAndTransfer(S).ids = S
<1>1. AtMost(icaQuery.balance, ExpectedOf(S)) \in Nat
  BY ReleasedType
<1>2. PlainTx("Claim", AtMost(icaQuery.balance, ExpectedOf(S))) \in Txs
      /\ PlainTx("Claim", AtMost(icaQuery.balance, ExpectedOf(S))).kind = "Claim"
  BY <1>1, PlainTxType DEF Kinds
<1>3. IsEmergency(S) \in BOOLEAN
  BY DEF IsEmergency
<1> QED BY <1>2, <1>3 DEF ClaimAndTransfer, Txs

(* A short tick sends one of three transactions. *)
LEMMA ShortFacts ==
  ASSUME TypeOK, NEW due \in RewardsDue, TickIdleShort(due)
  PROVE  /\ P!TypeOK'
         /\ fsm = "Idle"
         /\ tx'.kind \in {"Transfer", "Redeem", "IBCLsm"}
         /\ stage = "idle" /\ stage' = "sent"
<1> USE DEF TickIdleShort
<1>1. CASE PayRewardsAndFees(due)
  <2> DEFINE t == PlainTx("Transfer", collectedFees)
  <2>1. t \in Txs /\ t.kind = "Transfer"
    BY PlainTxType DEF Kinds, TypeOK
  <2>2. P!Send(t)
    BY <1>1 DEF PayRewardsAndFees
  <2> QED BY <2>1, <2>2, SendType
<1>2. CASE RedeemShares
  <2> DEFINE t == [PlainTx("Redeem", 0) EXCEPT !.shares = lsmToRedeem]
  <2>1. t \in Txs /\ t.kind = "Redeem"
    BY PlainTxType DEF Kinds, TypeOK, Txs
  <2>2. P!Send(t)
    BY <1>2 DEF RedeemShares
  <2> QED BY <2>1, <2>2, SendType
<1>3. ASSUME NEW d \in Denom, TransferLsm(d)
      PROVE  /\ P!TypeOK' /\ tx'.kind = "IBCLsm"
             /\ stage = "idle" /\ stage' = "sent"
  <2> DEFINE t == [PlainTx("IBCLsm", pendingLsm[d]) EXCEPT !.shares[d] = pendingLsm[d]]
  <2>1. pendingLsm[d] \in Nat
    BY DEF TypeOK, Shares
  <2>2. t \in Txs /\ t.kind = "IBCLsm"
    BY <2>1, PlainTxType DEF Kinds, Txs, Shares
  <2>3. P!Send(t)
    BY <1>3 DEF TransferLsm
  <2> QED BY <2>2, <2>3, SendType
<1> QED BY <1>1, <1>2, <1>3

(* Ticks but the short one send nothing, or no shares; and a claim only from Idle. *)
LEMMA TickSends ==
  ASSUME TypeOK,
         \/ \E claimable \in Claimable : TickIdleLong(claimable)
         \/ TickClaiming \/ TickTransfering \/ TickStaking \/ TickUnbonding
  PROVE  \/ UNCHANGED <<tx, stage>>
         \/ tx'.kind \in {"IBCStake", "Delegate", "Undelegate"} /\ stage' = "sent"
         \/ /\ \E claimable \in Claimable : TickIdleLong(claimable)
            /\ ClaimFromValidators(MaturedBatches)
            /\ tx' = ClaimAndTransfer(MaturedBatches) /\ tx'.kind = "Claim" /\ stage' = "sent"
<1> DEFINE Claims == /\ \E claimable \in Claimable : TickIdleLong(claimable)
                     /\ ClaimFromValidators(MaturedBatches)
                     /\ tx' = ClaimAndTransfer(MaturedBatches) /\ tx'.kind = "Claim" /\ stage' = "sent"
           Sent == \/ UNCHANGED <<tx, stage>>
                   \/ tx'.kind \in {"IBCStake", "Delegate", "Undelegate"} /\ stage' = "sent"
                   \/ Claims
<1>1. ASSUME NEW from, NEW bs \in BatchMaps,
             \/ TransferOrStakeOrUnbondOrRest(from, bs)
             \/ StakeOrUnbondOrRest(from, bs) /\ UNCHANGED coreBalance
             \/ UnbondOrRest(from, bs) /\ UNCHANGED <<collectedFees, coreBalance>>
      PROVE  Sent
  <2>1. \/ SendsInto("IBCStake", "Transfering") \/ SendsInto("Delegate", "Staking")
        \/ RequestUnbonding(from, bs)
        \/ Rests(bs)
    BY <1>1, TransferTail, StakeTail, UnbondTail
  <2> HIDE DEF Claims
  <2> QED BY <2>1, RequestFacts DEF SendsInto, Rests
<1>2. TickUnbonding => Sent
  BY DEF TickUnbonding, puppeteer
<1>3. ASSUME NEW claimable \in Claimable, TickIdleLong(claimable)
      PROVE  Sent
  <2> DEFINE S == MaturedBatches
  <2>1. S \in SUBSET BatchId /\ ExpectedOf(S) \in 0..MaxAmount
    BY <1>3 DEF TickIdleLong, MaturedBatches
  <2>2. ASSUME ClaimFromValidators(S)
        PROVE  Claims
    <3>1. tx' = ClaimAndTransfer(S) /\ stage' = "sent"
      BY <2>2 DEF ClaimFromValidators, P!Send
    <3> QED BY <1>3, <2>1, <2>2, <3>1, ClaimType
  <2>3. ASSUME SkipClaim(S)
        PROVE  Sent
    <3>1. Released(S) \in BatchMaps
      BY <2>1, ReleasedType
    <3> HIDE DEF Sent
    <3> QED BY <1>1, <2>3, <3>1 DEF SkipClaim
  <2> HIDE DEF Claims
  <2> QED BY <1>3, <2>2, <2>3 DEF TickIdleLong
<1> HIDE DEF Sent
<1>4. ASSUME TickClaiming
      PROVE  Sent
  <2>1. lastResponse \in Responses
    BY <1>4 DEF TickClaiming, TickWorking, Responded, TypeOK
  <2>2. Settled(lastResponse) \in BatchMaps
    BY <2>1, SettledType
  <2> QED BY <1>1, <1>4, <2>2 DEF TickClaiming
<1>5. ASSUME TickTransfering \/ TickStaking
      PROVE  Sent
  <2>1. batches \in BatchMaps
    BY DEF TypeOK, BatchMaps
  <2> QED BY <1>1, <1>5, <2>1 DEF TickTransfering, TickStaking
<1>6. Sent
  BY <1>2, <1>3, <1>4, <1>5
<1> QED BY <1>6 DEF Sent, Claims

(* What the hook receives is a response, and empties the register. *)
LEMMA HookTypes ==
  ASSUME TypeOK, NEW ok \in BOOLEAN, P!Answer(ok)
  PROVE  /\ P!TypeOK'
         /\ tx \in Txs
         /\ [ok |-> ok, tx |-> tx] \in Responses
         /\ [ok |-> ok, tx |-> tx] # NoResponse
<1>1. tx \in Txs
  BY DEF TypeOK, P!TypeOK, P!Answer
<1>2. [ok |-> ok, tx |-> tx] \in Responses
  BY <1>1 DEF Responses
<1> QED BY <1>1, <1>2, NullAssumption DEF P!Answer, P!TypeOK, P!Stages

(* LSM shares stay amounts when a hook moves or removes them. *)
LEMMA LsmTypes ==
  ASSUME TypeOK, NEW t \in Txs, LsmSent(t) \/ LsmRedeemed(t) \/ UNCHANGED lsm
  PROVE  /\ totalLsm' \in Nat /\ lastLsmRedeem' \in Nat
         /\ pendingLsm' \in Shares /\ lsmToRedeem' \in Shares
<1>0. /\ totalLsm \in Nat /\ lastLsmRedeem \in Nat /\ now \in Nat
      /\ pendingLsm \in Shares /\ lsmToRedeem \in Shares
  BY DEF TypeOK
<1>1. CASE LsmSent(t)
  <2>1. ASSUME NEW d \in Denom
        PROVE  /\ pendingLsm'[d] \in Nat
               /\ lsmToRedeem'[d] \in Nat
    <3>1. pendingLsm[d] \in Nat /\ lsmToRedeem[d] \in Nat /\ t.shares[d] \in Nat
      BY <1>0 DEF Shares, Txs
    <3> QED BY <3>1, <1>1 DEF LsmSent, AfterSent
  <2> QED BY <2>1, <1>0, <1>1 DEF LsmSent, Shares
<1>2. CASE LsmRedeemed(t)
  <2>1. totalLsm' \in Nat
    BY <1>0, <1>2 DEF LsmRedeemed
  <2>2. lsmToRedeem' \in Shares
    BY <1>0, <1>2 DEF LsmRedeemed, Shares
  <2> QED BY <2>1, <2>2, <1>0, <1>2 DEF LsmRedeemed
<1>3. CASE UNCHANGED lsm
  BY <1>0, <1>3 DEF lsm
<1> QED BY <1>1, <1>2, <1>3

(* Every step preserves the types. *)
LEMMA TypeStep ==
  ASSUME TypeOK, [Next]_vars
  PROVE  TypeOK'
<1> USE DEF clocks, admin, batching, lsm, puppeteer, history
<1>1. ASSUME NEW amount \in BondAmounts, Bond(amount)
      PROVE  TypeOK'
  BY <1>1, CoreAssumption DEF Bond, CountBonded, TypeOK, P!TypeOK
<1>2. ASSUME NEW d \in Denom, NEW amount \in LsmAmounts, BondLsm(d, amount)
      PROVE  TypeOK'
  <2>1. amount \in Nat
    BY CoreAssumption
  <2>2. pendingLsm' \in Shares
    BY <2>1, <1>2 DEF BondLsm, TypeOK, Shares
  <2> QED BY <2>1, <2>2, <1>2 DEF BondLsm, CountBonded, TypeOK, P!TypeOK
<1>3. ASSUME NEW amount \in UnbondAmounts, NEW expected \in ExpectedAmounts,
             Unbond(amount, expected)
      PROVE  TypeOK'
  <2>1. amount \in Nat /\ expected \in Nat
    BY CoreAssumption
  <2> DEFINE old == batches[unbondBatchId]
             new == [old EXCEPT !.items = old.items + 1, !.total = old.total + amount,
                                !.expected = old.expected + expected]
  <2>2. old \in Batches
    BY DEF TypeOK
  <2>3. old.items + 1 \in Nat /\ old.total + amount \in Nat /\ old.expected + expected \in Nat
    BY <2>1, <2>2 DEF Batches
  <2>4. new \in Batches
    <3>1. ASSUME NEW i \in Nat, NEW t \in Nat, NEW e \in Nat
          PROVE  [old EXCEPT !.items = i, !.total = t, !.expected = e] \in Batches
      BY <2>2 DEF Batches
    <3> QED BY <2>3, <3>1
  <2>5. batches' = [batches EXCEPT ![unbondBatchId] = new]
    BY <1>3 DEF Unbond, WithItem
  <2>6. batches' \in [BatchId -> Batches]
    BY <2>4, <2>5 DEF TypeOK
  <2> QED BY <2>6, <1>3 DEF Unbond, TypeOK, P!TypeOK
<1>4. ASSUME NEW due \in RewardsDue, TickIdleShort(due)
      PROVE  TypeOK'
  BY <1>4, ShortFacts DEF TickIdleShort, TypeOK
<1>5. ASSUME NEW claimable \in Claimable, TickIdleLong(claimable)
      PROVE  TypeOK'
  <2> DEFINE S == MaturedBatches
  <2>1. S \in SUBSET BatchId /\ ExpectedOf(S) \in 0..MaxAmount
    BY <1>5 DEF MaturedBatches, TickIdleLong
  <2>2. Released(S) \in BatchMaps
    BY <2>1, ReleasedType
  <2>3. CASE ClaimFromValidators(S)
    <3>1. P!TypeOK'
      BY <2>1, <2>3, ClaimType, SendType DEF ClaimFromValidators
    <3>2. fsm' \in ContractStates /\ batches' \in [BatchId -> Batches]
          /\ UNCHANGED <<unbondBatchId, collectedFees, coreBalance>>
      BY <2>2, <2>3 DEF ClaimFromValidators, GoTo, ContractStates, BatchMaps
    <3> QED BY <1>5, <3>1, <3>2 DEF TickIdleLong, TypeOK
  <2>4. CASE SkipClaim(S)
    <3>1. TailTypes
      BY <2>2, <2>4, TransferTail DEF SkipClaim
    <3> QED BY <1>5, <3>1 DEF TailTypes, TickIdleLong, TypeOK, BatchMaps
  <2> QED BY <1>5, <2>3, <2>4 DEF TickIdleLong
<1>6. CASE TickClaiming
  <2>1. lastResponse \in Responses
    BY <1>6 DEF TickClaiming, TickWorking, Responded, TypeOK
  <2>2. Settled(lastResponse) \in BatchMaps
    BY <2>1, SettledType
  <2>3. TailTypes
    BY <1>6, <2>2, TransferTail DEF TickClaiming
  <2> QED BY <1>6, <2>3 DEF TailTypes, TickClaiming, TypeOK, BatchMaps
<1>7. CASE TickTransfering
  <2>1. TailTypes
    BY <1>7, StakeTail DEF TickTransfering, TypeOK, BatchMaps
  <2> QED BY <1>7, <2>1 DEF TailTypes, TickTransfering, TypeOK, BatchMaps
<1>8. CASE TickStaking
  <2>1. TailTypes
    BY <1>8, UnbondTail DEF TickStaking, TypeOK, BatchMaps
  <2> QED BY <1>8, <2>1 DEF TailTypes, TickStaking, TypeOK, BatchMaps
<1>9. CASE TickUnbonding
  <2>1. lastResponse \in Responses
    BY <1>9 DEF TickUnbonding, TickWorking, Responded, TypeOK
  <2>2. PICK b \in lastResponse.tx.ids :
          \/ /\ batches' = [batches EXCEPT ![b].status = "Unbonding",
                                           ![b].release = now + UnbondingPeriod]
             /\ failedBatchId' = NoBatch /\ lastResponse' = NoResponse
          \/ /\ batches' = [batches EXCEPT ![b].status = "UnbondFailed"]
             /\ failedBatchId' = b /\ UNCHANGED lastResponse
    BY <1>9 DEF TickUnbonding
  <2>3. b \in BatchId
    BY <2>1, <2>2 DEF Responses, Txs
  <2>4. batches[b] \in Batches /\ now + UnbondingPeriod \in Nat
    BY <2>3, CoreAssumption DEF TypeOK
  <2>5. [batches[b] EXCEPT !.status = "UnbondFailed"] \in Batches
    BY <2>4 DEF Batches, Statuses
  <2>6. [batches[b] EXCEPT !.status = "Unbonding", !.release = now + UnbondingPeriod] \in Batches
    BY <2>4 DEF Batches, Statuses
  <2>7. batches' \in [BatchId -> Batches] /\ failedBatchId' \in BatchId \cup {NoBatch}
        /\ lastResponse' \in Responses \cup {NoResponse}
    <3>1. CASE /\ batches' = [batches EXCEPT ![b].status = "Unbonding",
                                             ![b].release = now + UnbondingPeriod]
               /\ failedBatchId' = NoBatch /\ lastResponse' = NoResponse
      BY <3>1, <2>6, <2>3 DEF TypeOK
    <3>2. CASE /\ batches' = [batches EXCEPT ![b].status = "UnbondFailed"]
               /\ failedBatchId' = b /\ UNCHANGED lastResponse
      BY <3>2, <2>5, <2>3 DEF TypeOK
    <3> QED BY <3>1, <3>2, <2>2
  <2> QED BY <1>9, <2>7 DEF TickUnbonding, GoTo, TypeOK, ContractStates, P!TypeOK
<1>10. CASE HookSuccess
  <2>1. P!TypeOK' /\ tx \in Txs /\ lastResponse' \in Responses
    BY <1>10, HookTypes DEF HookSuccess
  <2>2. LsmSent(tx) \/ LsmRedeemed(tx) \/ UNCHANGED lsm
    BY <1>10 DEF HookSuccess
  <2>3. /\ totalLsm' \in Nat /\ lastLsmRedeem' \in Nat
        /\ pendingLsm' \in Shares /\ lsmToRedeem' \in Shares
    BY <2>1, <2>2, LsmTypes
  <2> QED BY <1>10, <2>1, <2>3 DEF HookSuccess, TypeOK
<1>11. CASE HookError
  <2>1. P!TypeOK' /\ lastResponse' \in Responses
    BY <1>11, HookTypes DEF HookError
  <2> QED BY <1>11, <2>1 DEF HookError, GoTo, TypeOK, ContractStates
<1>12. CASE HookErrorRefused
  <2>1. P!TypeOK'
    BY <1>12 DEF HookErrorRefused, P!Lose, P!TypeOK, P!Stages, TypeOK
  <2> QED BY <1>12, <2>1 DEF HookErrorRefused, TypeOK
<1>13. CASE Pause \/ Unpause \/ ResetBondedAmount \/ SetNonNativeRewardsReceivers
  <2>1. paused' \in BOOLEAN /\ rewardsSet' \in BOOLEAN /\ bondedAmount' \in Nat
    <3>1. CASE Pause
      BY <3>1 DEF Pause, TypeOK
    <3>2. CASE Unpause
      BY <3>2 DEF Unpause, TypeOK
    <3>3. CASE ResetBondedAmount
      BY <3>3 DEF ResetBondedAmount, TypeOK
    <3>4. CASE SetNonNativeRewardsReceivers
      BY <3>4 DEF SetNonNativeRewardsReceivers, TypeOK
    <3> QED BY <1>13, <3>1, <3>2, <3>3, <3>4
  <2>2. UNCHANGED <<clocks, fsm, batching, lastResponse, lsm, collectedFees, coreBalance,
                    icaQuery, puppeteer, history>>
    BY <1>13 DEF Pause, Unpause, ResetBondedAmount, SetNonNativeRewardsReceivers
  <2> QED BY <2>1, <2>2 DEF TypeOK, P!TypeOK
<1>14. CASE RemoteExecute
  <2>1. P!TypeOK' /\ tx \in Txs /\ UNCHANGED tx
    BY <1>14 DEF RemoteExecute, P!RemoteExecute, P!TypeOK, P!Stages, TypeOK
  <2>2. tx.amount \in Nat
    BY <2>1 DEF Txs
  <2>3. paid' \in [BatchId -> Nat] /\ pumped' \in Nat /\ feesPaid' \in Nat
    BY <1>14, <2>2 DEF RemoteExecute, TypeOK
  <2>4. matures' \in [BatchId -> Nat]
    <3>1. now + UnbondingPeriod \in Nat
      BY CoreAssumption DEF TypeOK
    <3> QED BY <1>14, <3>1 DEF RemoteExecute, TypeOK
  <2> QED BY <1>14, <2>1, <2>3, <2>4 DEF RemoteExecute, TypeOK
<1>15. ASSUME NEW balance \in Balances, NEW delay \in Delays, IcqUpdate(balance, delay)
       PROVE  TypeOK'
  <2>1. balance \in Nat /\ delay \in Nat /\ now \in Nat /\ icaQuery.read \in Nat
    BY CoreAssumption DEF TypeOK
  <2>2. now - delay \in Nat
    BY <1>15, <2>1 DEF IcqUpdate
  <2> QED BY <1>15, <2>1, <2>2 DEF IcqUpdate, TypeOK, P!TypeOK
<1>16. CASE AdvanceTime
  BY <1>16 DEF AdvanceTime, TypeOK, P!TypeOK
<1>17. CASE UNCHANGED vars
  BY <1>17 DEF vars, TypeOK, P!TypeOK
<1> QED
  BY <1>1, <1>2, <1>3, <1>4, <1>5, <1>6, <1>7, <1>8, <1>9, <1>10, <1>11, <1>12, <1>13,
     <1>14, <1>15, <1>16, <1>17 DEF Next, Tick, Hook

(* The initial state is well typed. *)
LEMMA TypeInit ==
  ASSUME Init
  PROVE  TypeOK
<1>1. GenesisTime \in Nat /\ 0 \in BatchId
  BY CoreAssumption DEF BatchId
<1>2. AbsentBatch \in Batches /\ NewBatch \in Batches
  BY <1>1, NewBatchType DEF Init
<1>3. NoShares \in Shares
  BY DEF NoShares, Shares
<1>4. P!TypeOK
  BY DEF Init, P!Init, P!TypeOK, P!Stages
<1> QED BY <1>1, <1>2, <1>3, <1>4 DEF Init, TypeOK, ContractStates

(* All the contract's data are well typed, in every reachable state. *)
THEOREM TypeCorrect == Spec => []TypeOK
<1>1. Init => TypeOK
  BY TypeInit
<1>2. TypeOK /\ [Next]_vars => TypeOK'
  BY TypeStep
<1> QED BY <1>1, <1>2, PTL DEF Spec

-----------------------------------------------------------------------------
(***************************************************************************)
(* The inductive invariant.                                                *)
(*                                                                         *)
(* The properties of Core are not inductive as they stand.  What is        *)
(* missing is where the batches of a transaction stand while it is under   *)
(* way, and while its answer waits for the tick that reads it, which may   *)
(* be much later than the state that sent it: UndelegateIsRequested and    *)
(* ClaimsArePaying.  With them, a late answer to a claim still finds the   *)
(* batches it paid, and PaysAreCounted carries over from the transaction   *)
(* to its answer and from there to the batches.                            *)
(***************************************************************************)

Paying == {"Withdrawing", "WithdrawingEmergency", "Withdrawn", "WithdrawnEmergency"}

(* While an undelegation is under way there is no other answer to mistake for its. *)
UndelegateIsUnanswered == Outstanding({"Undelegate"}) => lastResponse = NoResponse

RequestedIsLast ==
  \A b \in BatchId : batches[b].status = "UnbondRequested" => b + 1 = unbondBatchId

UndelegateIsRequested ==
  /\ Outstanding({"Undelegate"}) =>
       \E b \in BatchId : tx.ids = {b} /\ batches[b].status = "UnbondRequested"
  /\ fsm = "Unbonding" /\ AnsweredAs({"Undelegate"}) =>
       \E b \in BatchId : lastResponse.tx.ids = {b} /\ batches[b].status = "UnbondRequested"

ClaimsArePaying ==
  /\ Outstanding({"Claim"}) => \A b \in tx.ids : batches[b].status \in Paying
  /\ AnsweredAs({"Claim"}) => \A b \in lastResponse.tx.ids : batches[b].status \in Paying

PaysAreCounted ==
  /\ Outstanding({"Claim"}) /\ stage = "sent" => \A b \in tx.ids : paid[b] = 0
  /\ Outstanding({"Claim"}) /\ stage = "executed" => \A b \in tx.ids : paid[b] = 1
  /\ AnsweredAs({"Claim"}) /\ lastResponse.ok => \A b \in lastResponse.tx.ids : paid[b] = 1

Control == OutstandingMatchesFsm /\ NoOrphanState /\ UndelegateIsUnanswered

Batching ==
  /\ FrontierIsOpen /\ RequestedIsLast
  /\ RequestedIsUnderWay /\ UndelegateIsRequested

Payments == ClaimsArePaying /\ PaysAreCounted /\ WithdrawnIsPaid

IInv == TypeOK /\ Control /\ Batching /\ Payments

(* The initial state satisfies the inductive invariant. *)
LEMMA InitIInv ==
  ASSUME Init
  PROVE  IInv
<1>1. TypeOK
  BY TypeInit
<1>2. stage = "idle" /\ lastResponse = NoResponse /\ fsm = "Idle" /\ failedBatchId = NoBatch
  BY DEF Init, P!Init
<1>3. Control
  BY <1>2 DEF Control, OutstandingMatchesFsm, NoOrphanState, UndelegateIsUnanswered, Outstanding
<1>4. \A b \in BatchId : batches[b] = IF b = 0 THEN NewBatch ELSE AbsentBatch
  BY DEF Init
<1>5. unbondBatchId = 0 /\ 0 \in BatchId /\ AbsentBatch.status = "Absent" /\ NewBatch.status = "New"
  BY <1>1, NewBatchType, CoreAssumption DEF Init, TypeOK, BatchId
<1>6. Batching
  <2>1. \A b \in BatchId : batches[b].status \in {"New", "Absent"}
    BY <1>4, <1>5
  <2>2. FrontierIsOpen
    BY <1>2, <1>4, <1>5, <2>1 DEF FrontierIsOpen, BatchId
  <2>3. RequestedIsLast /\ RequestedIsUnderWay
    BY <2>1 DEF RequestedIsLast, RequestedIsUnderWay
  <2> QED BY <1>2, <2>2, <2>3 DEF Batching, UndelegateIsRequested, Outstanding, AnsweredAs, Responded
<1>7. Payments
  <2>1. \A b \in BatchId : paid[b] = 0 /\ batches[b].status \in {"New", "Absent"}
    BY <1>4, <1>5 DEF Init
  <2> QED BY <1>2, <2>1 DEF Payments, ClaimsArePaying, PaysAreCounted, WithdrawnIsPaid,
                            Outstanding, AnsweredAs, Responded
<1> QED BY <1>1, <1>3, <1>6, <1>7 DEF IInv

-----------------------------------------------------------------------------
(***************************************************************************)
(* Steps that leave the machine, the puppeteer and the batches alone, and  *)
(* unbondings, which change the amounts of the open batch only.            *)
(***************************************************************************)

LEMMA AmountsOnly ==
  ASSUME IInv, TypeOK', UNCHANGED <<fsm, unbondBatchId, failedBatchId, lastResponse, puppeteer, paid>>,
         \A b \in BatchId : batches'[b].status = batches[b].status,
         \A b \in BatchId : b # unbondBatchId => batches'[b] = batches[b]
  PROVE  IInv'
<1> USE DEF IInv, puppeteer
<1>1. Control'
  BY DEF Control, OutstandingMatchesFsm, NoOrphanState, UndelegateIsUnanswered, Outstanding, Responded
<1>2. Batching'
  <2>1. FrontierIsOpen'
    <3>1. unbondBatchId \in BatchId /\ (failedBatchId # NoBatch => failedBatchId \in BatchId)
      BY DEF TypeOK
    <3>2. \A b \in BatchId : b > unbondBatchId => b # unbondBatchId
      BY <3>1 DEF BatchId
    <3> QED BY <3>1, <3>2 DEF Batching, FrontierIsOpen
  <2>2. RequestedIsLast' /\ RequestedIsUnderWay' /\ UndelegateIsRequested'
    BY DEF Batching, RequestedIsLast, RequestedIsUnderWay, UndelegateIsRequested,
           Outstanding, AnsweredAs, Responded
  <2> QED BY <2>1, <2>2 DEF Batching
<1>3. Payments'
  <2>1. \A t \in Txs : t.ids \subseteq BatchId
    BY DEF Txs
  <2>2. Outstanding({"Claim"}) => tx.ids \subseteq BatchId
    BY <2>1 DEF Outstanding, TypeOK, P!TypeOK
  <2>3. AnsweredAs({"Claim"}) => lastResponse.tx.ids \subseteq BatchId
    BY <2>1 DEF AnsweredAs, Responded, TypeOK, Responses
  <2> QED BY <2>2, <2>3 DEF Payments, ClaimsArePaying, PaysAreCounted, WithdrawnIsPaid,
                            Outstanding, AnsweredAs, Responded
<1> QED BY <1>1, <1>2, <1>3

(* The transactions under way and answered name batches that exist. *)
LEMMA IdsAreBatches ==
  ASSUME TypeOK
  PROVE  /\ stage # "idle" => tx.ids \subseteq BatchId /\ tx.kind \in Kinds
         /\ Responded => lastResponse.tx.ids \subseteq BatchId /\ lastResponse.tx.kind \in Kinds
<1>1. \A t \in Txs : t.ids \subseteq BatchId /\ t.kind \in Kinds
  BY DEF Txs
<1> QED BY <1>1 DEF TypeOK, P!TypeOK, Responded, Responses

(* In Unbonding only an undelegation can be outstanding; elsewhere no batch is
   waiting for one. *)
LEMMA UnbondingIsUndelegating ==
  ASSUME IInv
  PROVE  /\ fsm = "Unbonding" /\ stage # "idle" => tx.kind = "Undelegate"
         /\ fsm # "Unbonding" =>
              /\ ~Outstanding({"Undelegate"})
              /\ \A b \in BatchId : batches[b].status # "UnbondRequested"
<1>1. stage # "idle" => tx.kind \in Kinds
  BY IdsAreBatches DEF IInv
<1> QED
  BY <1>1 DEF IInv, Control, OutstandingMatchesFsm, Outstanding, Kinds, Batching, RequestedIsUnderWay

-----------------------------------------------------------------------------
(***************************************************************************)
(* Ticks outside Unbonding: before its tail, a tick only moves batches     *)
(* towards their payout, and only to withdrawn those that were paid.       *)
(***************************************************************************)

MovesTowardsPayout(bs) ==
  \A b \in BatchId :
    \/ bs[b] = batches[b]
    \/ /\ batches[b].status \in Paying \cup {"Unbonding"}
       /\ bs[b].status \in Paying
       /\ bs[b].status \in {"Withdrawn", "WithdrawnEmergency"} => paid[b] = 1

(* What such a move keeps, when the open batch stays the same. *)
LEMMA MoveKeepsFrontier ==
  ASSUME IInv, NEW bs \in BatchMaps, MovesTowardsPayout(bs), fsm # "Unbonding",
         batches' = bs, UNCHANGED <<unbondBatchId, failedBatchId>>
  PROVE  /\ FrontierIsOpen'
         /\ \A b \in BatchId : batches'[b].status # "UnbondRequested"
<1> USE DEF IInv, Batching, Paying
<1>1. \A b \in BatchId : batches[b].status # "UnbondRequested"
  BY UnbondingIsUndelegating
<1>2. \A b \in BatchId : batches'[b].status # "UnbondRequested"
  BY <1>1 DEF MovesTowardsPayout
<1>3. unbondBatchId \in BatchId /\ (failedBatchId # NoBatch => failedBatchId \in BatchId)
  BY DEF TypeOK
<1>4. AbsentBatch.status = "Absent"
  BY DEF AbsentBatch
<1>5. batches'[unbondBatchId].status = "New"
  BY <1>3 DEF MovesTowardsPayout, FrontierIsOpen
<1>6. ASSUME NEW b \in BatchId
      PROVE  /\ b < unbondBatchId => batches'[b].status \notin {"New", "Absent"}
             /\ b > unbondBatchId => batches'[b] = AbsentBatch
             /\ batches'[b].status = "UnbondFailed" => failedBatchId = b
  BY <1>4 DEF MovesTowardsPayout, FrontierIsOpen
<1>7. failedBatchId # NoBatch =>
        /\ unbondBatchId = failedBatchId + 1
        /\ batches'[failedBatchId].status \in {"UnbondFailed", "UnbondRequested"}
  BY <1>3 DEF MovesTowardsPayout, FrontierIsOpen
<1> QED BY <1>2, <1>5, <1>6, <1>7 DEF FrontierIsOpen

(* Payments are kept whatever becomes of batches that are not being paid, if the
   transaction under way is the same one or no claim, and the answer likewise. *)
LEMMA PaymentsKept ==
  ASSUME IInv, UNCHANGED paid,
         \A b \in BatchId :
           \/ batches'[b] = batches[b]
           \/ batches[b].status \notin Paying /\ paid[b] = 0
              /\ batches'[b].status \notin {"Withdrawn", "WithdrawnEmergency"}
           \/ /\ batches'[b].status \in Paying
              /\ batches'[b].status \in {"Withdrawn", "WithdrawnEmergency"} => paid[b] = 1,
         UNCHANGED <<tx, stage>> \/ tx'.kind # "Claim",
         lastResponse' \in {lastResponse, NoResponse}
  PROVE  Payments'
<1> USE DEF IInv, Payments
<1>1. /\ stage # "idle" => tx.ids \subseteq BatchId
      /\ Responded => lastResponse.tx.ids \subseteq BatchId
  BY IdsAreBatches
<1>2. ClaimsArePaying'
  <2>1. ASSUME NEW b \in BatchId, batches[b].status \in Paying
        PROVE  batches'[b].status \in Paying
    BY <2>1
  <2> QED BY <1>1, <2>1 DEF ClaimsArePaying, Outstanding, AnsweredAs, Responded
<1>3. PaysAreCounted'
  BY <1>1 DEF PaysAreCounted, Outstanding, AnsweredAs, Responded
<1>4. WithdrawnIsPaid'
  BY DEF WithdrawnIsPaid, Paying
<1> QED BY <1>2, <1>3, <1>4

(* A tick that moves batches towards their payout and then takes its tail. *)
LEMMA TailKeeps ==
  ASSUME IInv, TypeOK', NEW from, NEW bs \in BatchMaps, MovesTowardsPayout(bs),
         fsm # "Unbonding", UNCHANGED <<failedBatchId, paid>>,
         lastResponse' \in {lastResponse, NoResponse},
         \/ /\ SendsInto("IBCStake", "Transfering") \/ SendsInto("Delegate", "Staking")
            /\ batches' = bs /\ UNCHANGED unbondBatchId
         \/ /\ RequestUnbonding(from, bs)
            /\ lastResponse' = NoResponse
         \/ Rests(bs)
  PROVE  IInv'
<1> USE DEF IInv
<1>0. /\ ~Outstanding({"Undelegate"})
      /\ \A b \in BatchId : batches[b].status # "UnbondRequested"
  BY UnbondingIsUndelegating
<1>1. CASE /\ SendsInto("IBCStake", "Transfering") \/ SendsInto("Delegate", "Staking")
           /\ batches' = bs /\ UNCHANGED unbondBatchId
  <2>1. /\ tx'.kind \in {"IBCStake", "Delegate"} /\ stage' = "sent"
        /\ tx'.kind = "IBCStake" => fsm' = "Transfering"
        /\ tx'.kind = "Delegate" => fsm' = "Staking"
        /\ fsm' # "Unbonding"
    BY <1>1 DEF SendsInto
  <2>2. Control'
    BY <2>1 DEF Control, OutstandingMatchesFsm, NoOrphanState, UndelegateIsUnanswered, Outstanding
  <2>3. FrontierIsOpen' /\ \A b \in BatchId : batches'[b].status # "UnbondRequested"
    BY <1>1, MoveKeepsFrontier
  <2>4. Batching'
    BY <2>1, <2>3 DEF Batching, RequestedIsLast, RequestedIsUnderWay, UndelegateIsRequested,
                      Outstanding
  <2>5. Payments'
    BY <1>1, <2>1, PaymentsKept DEF MovesTowardsPayout
  <2> QED BY <2>2, <2>4, <2>5
<1>2. CASE RequestUnbonding(from, bs) /\ lastResponse' = NoResponse
  <2> DEFINE id == BatchToUnbond
  <2>1. /\ fsm' = "Unbonding" /\ stage' = "sent"
        /\ id \in BatchId /\ id + 1 \in BatchId
        /\ unbondBatchId' = id + 1
        /\ batches' = [bs EXCEPT ![id].status = "UnbondRequested", ![id + 1] = NewBatch]
        /\ tx'.kind = "Undelegate" /\ tx'.ids = {id}
    BY <1>2, RequestFacts
  <2>2. id # id + 1 /\ id \in Nat
    BY <2>1 DEF BatchId
  <2>3. NewBatch.status = "New" /\ AbsentBatch.status = "Absent" /\ bs[id] \in Batches
    BY <2>1, NewBatchType DEF TypeOK, BatchMaps
  <2>4. /\ batches'[id].status = "UnbondRequested"
        /\ batches'[id + 1] = NewBatch
        /\ \A b \in BatchId \ {id, id + 1} : batches'[b] = bs[b]
    BY <2>1, <2>2, <2>3 DEF BatchMaps, Batches
  <2>5. \/ failedBatchId = NoBatch /\ id = unbondBatchId
        \/ failedBatchId # NoBatch /\ id = failedBatchId /\ unbondBatchId = id + 1
    BY DEF BatchToUnbond, Batching, FrontierIsOpen
  <2>6. batches[id].status \in {"New", "UnbondFailed"} /\ batches[id + 1].status \in {"New", "Absent"}
    BY <1>0, <2>1, <2>2, <2>3, <2>5 DEF Batching, FrontierIsOpen, BatchId
  <2>7. Control'
    BY <1>2, <2>1 DEF Control, OutstandingMatchesFsm, NoOrphanState, UndelegateIsUnanswered, Outstanding
  <2>8. FrontierIsOpen'
    <3>1. ASSUME NEW b \in BatchId
          PROVE  /\ b < id + 1 => batches'[b].status \notin {"New", "Absent"}
                 /\ b > id + 1 => batches'[b] = AbsentBatch
                 /\ batches'[b].status = "UnbondFailed" => failedBatchId = b
      <4>1. CASE b \in {id, id + 1}
        BY <4>1, <2>2, <2>3, <2>4
      <4>2. CASE b \notin {id, id + 1}
        <5>1. batches'[b] = bs[b]
          BY <4>2, <2>4
        <5>2. b \in Nat /\ (b < id + 1 => b < id)
          BY <4>2, <2>2 DEF BatchId
        <5>3. /\ b < id => batches[b].status \notin {"New", "Absent"}
              /\ b > id + 1 => batches[b] = AbsentBatch
              /\ batches[b].status = "UnbondFailed" => failedBatchId = b
          BY <5>2, <2>2, <2>5 DEF Batching, FrontierIsOpen
        <5> QED BY <5>1, <5>2, <5>3, <2>3 DEF MovesTowardsPayout, Paying
      <4> QED BY <4>1, <4>2
    <3>2. failedBatchId # NoBatch => id = failedBatchId
      BY <2>5
    <3> QED BY <3>1, <3>2, <2>1, <2>3, <2>4 DEF FrontierIsOpen
  <2>9. \A b \in BatchId : batches'[b].status = "UnbondRequested" => b = id
    BY <1>0, <2>3, <2>4 DEF MovesTowardsPayout, Paying
  <2>10. Batching'
    BY <1>2, <2>1, <2>4, <2>8, <2>9 DEF Batching, RequestedIsLast, RequestedIsUnderWay,
         UndelegateIsRequested, Outstanding, AnsweredAs, Responded
  <2>11. Payments'
    <3>1. \A b \in {id, id + 1} : batches[b].status \notin Paying
      BY <2>6 DEF Paying
    <3>2. \A b \in {id, id + 1} : paid[b] = 0
      BY <3>1, <2>1 DEF Payments, WithdrawnIsPaid, Paying, TypeOK
    <3>3. ASSUME NEW b \in BatchId
          PROVE  \/ batches'[b] = batches[b]
                 \/ batches[b].status \notin Paying /\ paid[b] = 0
                    /\ batches'[b].status \notin {"Withdrawn", "WithdrawnEmergency"}
                 \/ /\ batches'[b].status \in Paying
                    /\ batches'[b].status \in {"Withdrawn", "WithdrawnEmergency"} => paid[b] = 1
      <4>1. CASE b \in {id, id + 1}
        BY <4>1, <3>1, <3>2, <2>3, <2>4
      <4>2. CASE b \notin {id, id + 1}
        BY <4>2, <2>4 DEF MovesTowardsPayout
      <4> QED BY <4>1, <4>2
    <3> QED BY <3>3, <2>1, PaymentsKept
  <2> QED BY <2>7, <2>10, <2>11
<1>3. CASE Rests(bs)
  <2>1. fsm' = "Idle" /\ batches' = bs /\ UNCHANGED <<unbondBatchId, tx, stage>>
    BY <1>3 DEF Rests
  <2>2. Control'
    BY <1>0, <2>1 DEF Control, OutstandingMatchesFsm, NoOrphanState, UndelegateIsUnanswered, Outstanding
  <2>3. FrontierIsOpen' /\ \A b \in BatchId : batches'[b].status # "UnbondRequested"
    BY <2>1, MoveKeepsFrontier
  <2>4. Batching'
    BY <1>0, <2>1, <2>3 DEF Batching, RequestedIsLast, RequestedIsUnderWay, UndelegateIsRequested,
                      Outstanding
  <2>5. Payments'
    BY <2>1, PaymentsKept DEF MovesTowardsPayout
  <2> QED BY <2>2, <2>4, <2>5
<1> QED BY <1>1, <1>2, <1>3

-----------------------------------------------------------------------------
(***************************************************************************)
(* The ticks                                                               *)
(***************************************************************************)

(* A short tick leaves everything but the puppeteer alone. *)
LEMMA ShortKeeps ==
  ASSUME IInv, TypeOK', NEW due \in RewardsDue, TickIdleShort(due)
  PROVE  IInv'
<1> USE DEF IInv
<1>1. /\ fsm = "Idle" /\ fsm' = "Idle"
      /\ tx'.kind \in {"Transfer", "Redeem", "IBCLsm"} /\ stage' = "sent"
      /\ UNCHANGED <<unbondBatchId, batches, failedBatchId, lastResponse, paid>>
  BY ShortFacts DEF TickIdleShort, batching, history
<1>2. \A b \in BatchId : batches[b].status # "UnbondRequested"
  BY <1>1, UnbondingIsUndelegating
<1>3. Control'
  BY <1>1 DEF Control, OutstandingMatchesFsm, NoOrphanState, UndelegateIsUnanswered, Outstanding
<1>4. Batching'
  BY <1>1, <1>2 DEF Batching, FrontierIsOpen, RequestedIsLast, RequestedIsUnderWay,
                    UndelegateIsRequested, Outstanding
<1>5. Payments'
  BY <1>1, PaymentsKept
<1> QED BY <1>3, <1>4, <1>5

(* A long tick releases matured batches, none of which was ever paid, into a claim
   or, when the claim is skipped, into nothing. *)
LEMMA LongKeeps ==
  ASSUME IInv, TypeOK', NEW claimable \in Claimable, TickIdleLong(claimable)
  PROVE  IInv'
<1> USE DEF IInv
<1> DEFINE S == MaturedBatches
           bs == Released(S)
<1>1. /\ fsm = "Idle" /\ S \in SUBSET BatchId /\ ExpectedOf(S) \in 0..MaxAmount
      /\ UNCHANGED <<failedBatchId, lastResponse, paid>>
  BY DEF TickIdleLong, MaturedBatches, history
<1>2. bs \in BatchMaps
  BY <1>1, ReleasedType
<1>3. \A b \in S : b \in BatchId /\ batches[b].status = "Unbonding" /\ paid[b] = 0
  <2>1. \A b \in S : b \in BatchId /\ batches[b].status = "Unbonding"
    BY DEF MaturedBatches, Matured
  <2>2. \A b \in BatchId : paid[b] \in Nat /\ paid[b] <= 1
    BY DEF TypeOK, Payments, WithdrawnIsPaid
  <2> QED BY <2>1, <2>2 DEF Payments, WithdrawnIsPaid
<1>4. \A b \in BatchId :
        IF b \in S THEN bs[b].status \in {"Withdrawing", "WithdrawingEmergency"}
                   ELSE bs[b] = batches[b]
  <2>1. ASSUME NEW b \in BatchId
        PROVE  IF b \in S THEN bs[b].status \in {"Withdrawing", "WithdrawingEmergency"}
                          ELSE bs[b] = batches[b]
    <3>1. batches[b] \in Batches
      BY DEF TypeOK
    <3> QED BY <3>1 DEF Released, Batches
  <2> QED BY <2>1
<1>5. MovesTowardsPayout(bs)
  BY <1>3, <1>4 DEF MovesTowardsPayout, Paying
<1>6. CASE SkipClaim(S)
  <2>1. \/ /\ SendsInto("IBCStake", "Transfering") \/ SendsInto("Delegate", "Staking")
           /\ batches' = bs /\ UNCHANGED unbondBatchId
        \/ RequestUnbonding("Claiming", bs)
        \/ Rests(bs)
    BY <1>2, <1>6, TransferTail DEF SkipClaim
  <2>2. ~RequestUnbonding("Claiming", bs)
    BY <1>2, RequestFacts
  <2> QED BY <1>1, <1>2, <1>5, <2>1, <2>2, TailKeeps
<1>7. CASE ClaimFromValidators(S)
  <2>1. /\ tx'.kind = "Claim" /\ tx'.ids = S /\ stage' = "sent"
        /\ fsm' = "Claiming" /\ batches' = bs /\ UNCHANGED unbondBatchId
    BY <1>1, <1>7, ClaimType, SendType DEF ClaimFromValidators, GoTo
  <2>2. Control'
    BY <2>1 DEF Control, OutstandingMatchesFsm, NoOrphanState, UndelegateIsUnanswered, Outstanding
  <2>3. FrontierIsOpen' /\ \A b \in BatchId : batches'[b].status # "UnbondRequested"
    BY <1>1, <1>2, <1>5, <2>1, MoveKeepsFrontier
  <2>4. Batching'
    BY <2>1, <2>3 DEF Batching, RequestedIsLast, RequestedIsUnderWay, UndelegateIsRequested,
                      Outstanding
  <2>5. \A b \in BatchId : batches[b].status \in Paying => batches'[b].status \in Paying
    BY <1>4, <2>1 DEF Paying
  <2>6. Responded => lastResponse.tx.ids \subseteq BatchId
    BY IdsAreBatches
  <2>7. ClaimsArePaying'
    BY <1>1, <1>4, <2>1, <2>5, <2>6
    DEF Payments, ClaimsArePaying, Outstanding, AnsweredAs, Responded, Paying
  <2>8. PaysAreCounted'
    BY <1>1, <1>3, <2>1 DEF Payments, PaysAreCounted, Outstanding, AnsweredAs, Responded
  <2>9. WithdrawnIsPaid'
    BY <1>1, <1>3, <1>4, <2>1 DEF Payments, WithdrawnIsPaid
  <2> QED BY <2>2, <2>4, <2>7, <2>8, <2>9 DEF Payments
<1> QED BY <1>6, <1>7 DEF TickIdleLong

(* The ticks of the working states but Unbonding.  A claim that succeeded was paid. *)
LEMMA WorkingKeeps ==
  ASSUME IInv, TypeOK', TickClaiming \/ TickTransfering \/ TickStaking
  PROVE  IInv'
<1> USE DEF IInv
<1>1. batches \in BatchMaps /\ MovesTowardsPayout(batches)
  BY DEF TypeOK, BatchMaps, MovesTowardsPayout
<1>2. CASE TickClaiming
  <2> DEFINE bs == Settled(lastResponse)
  <2>1. /\ fsm = "Claiming" /\ Responded /\ lastResponse' = NoResponse
        /\ lastResponse.ok => lastResponse.tx.kind = "Claim"
        /\ UNCHANGED <<failedBatchId, paid>>
    BY <1>2 DEF TickClaiming, TickWorking, history
  <2>2. lastResponse \in Responses
    BY <2>1 DEF Responded, TypeOK
  <2>3. bs \in BatchMaps
    BY <2>2, SettledType
  <2>4. ASSUME NEW b \in BatchId, lastResponse.ok, b \in lastResponse.tx.ids
        PROVE  /\ batches[b].status \in Paying /\ paid[b] = 1
               /\ bs[b].status \in {"Withdrawn", "WithdrawnEmergency"}
    <3>1. batches[b].status \in Paying /\ paid[b] = 1
      BY <2>1, <2>4 DEF Payments, ClaimsArePaying, PaysAreCounted, AnsweredAs
    <3>2. batches[b] \in Batches
      BY DEF TypeOK
    <3>3. bs[b].status \in {"Withdrawn", "WithdrawnEmergency"}
      BY <3>2, <2>4 DEF Settled, MarkWithdrawn, Batches
    <3> QED BY <3>1, <3>3
  <2>5. \A b \in BatchId : ~lastResponse.ok \/ b \notin lastResponse.tx.ids => bs[b] = batches[b]
    BY DEF Settled, MarkWithdrawn
  <2>6. MovesTowardsPayout(bs)
    BY <2>4, <2>5 DEF MovesTowardsPayout, Paying
  <2>7. \/ /\ SendsInto("IBCStake", "Transfering") \/ SendsInto("Delegate", "Staking")
           /\ batches' = bs /\ UNCHANGED unbondBatchId
        \/ RequestUnbonding("Claiming", bs)
        \/ Rests(bs)
    BY <1>2, <2>3, TransferTail DEF TickClaiming
  <2> QED BY <2>1, <2>3, <2>6, <2>7, TailKeeps
<1>3. CASE TickTransfering
  <2>1. /\ fsm = "Transfering" /\ lastResponse' = NoResponse /\ UNCHANGED <<failedBatchId, paid>>
    BY <1>3 DEF TickTransfering, TickWorking, history
  <2>2. \/ SendsInto("Delegate", "Staking") /\ batches' = batches /\ UNCHANGED unbondBatchId
        \/ RequestUnbonding("Transfering", batches)
        \/ Rests(batches)
    BY <1>1, <1>3, StakeTail DEF TickTransfering
  <2> QED BY <1>1, <2>1, <2>2, TailKeeps
<1>4. CASE TickStaking
  <2>1. /\ fsm = "Staking" /\ lastResponse' = NoResponse /\ UNCHANGED <<failedBatchId, paid>>
    BY <1>4 DEF TickStaking, TickWorking, history
  <2>2. RequestUnbonding("Staking", batches) \/ Rests(batches)
    BY <1>1, <1>4, UnbondTail DEF TickStaking
  <2> QED BY <1>1, <2>1, <2>2, TailKeeps
<1> QED BY <1>2, <1>3, <1>4

(* The tick of Unbonding: the batch in the response is the one that was requested. *)
LEMMA UnbondingKeeps ==
  ASSUME IInv, TypeOK', TickUnbonding
  PROVE  IInv'
<1> USE DEF IInv
<1>1. /\ fsm = "Unbonding" /\ fsm' = "Idle" /\ AnsweredAs({"Undelegate"})
      /\ UNCHANGED <<unbondBatchId, tx, stage, paid>>
  BY DEF TickUnbonding, TickWorking, GoTo, AnsweredAs, puppeteer, history
<1>2. stage = "idle"
  <2>1. stage # "idle" => Outstanding({"Undelegate"})
    BY <1>1, UnbondingIsUndelegating DEF Outstanding
  <2> QED BY <1>1, <2>1 DEF Control, UndelegateIsUnanswered, AnsweredAs, Responded
<1>3. PICK b \in BatchId : lastResponse.tx.ids = {b} /\ batches[b].status = "UnbondRequested"
  BY <1>1 DEF Batching, UndelegateIsRequested
<1>4. \/ /\ batches' = [batches EXCEPT ![b].status = "Unbonding",
                                       ![b].release = now + UnbondingPeriod]
         /\ failedBatchId' = NoBatch /\ lastResponse' = NoResponse
      \/ /\ batches' = [batches EXCEPT ![b].status = "UnbondFailed"]
         /\ failedBatchId' = b /\ UNCHANGED lastResponse
  BY <1>3 DEF TickUnbonding
<1>5. /\ \A c \in BatchId \ {b} : batches'[c] = batches[c]
      /\ \/ batches'[b].status = "Unbonding" /\ failedBatchId' = NoBatch
         \/ batches'[b].status = "UnbondFailed" /\ failedBatchId' = b
      /\ lastResponse' \in {lastResponse, NoResponse}
  <2>1. batches \in [BatchId -> Batches] /\ batches[b] \in Batches
    BY DEF TypeOK
  <2> QED BY <1>4, <2>1 DEF Batches
<1>6. /\ b + 1 = unbondBatchId
      /\ \A c \in BatchId \ {b} : batches[c].status \notin {"UnbondRequested", "UnbondFailed"}
  <2>1. b + 1 = unbondBatchId
    BY <1>3 DEF Batching, RequestedIsLast
  <2>2. ASSUME NEW c \in BatchId, batches[c].status \in {"UnbondRequested", "UnbondFailed"}
        PROVE  c = b
    <3>1. c + 1 = unbondBatchId
      BY <2>2, CoreAssumption DEF Batching, RequestedIsLast, FrontierIsOpen
    <3> QED BY <2>1, <3>1 DEF BatchId
  <2> QED BY <2>1, <2>2
<1>7. Control'
  BY <1>1, <1>2 DEF Control, OutstandingMatchesFsm, NoOrphanState, UndelegateIsUnanswered,
                    Outstanding
<1>8. FrontierIsOpen'
  <2>1. unbondBatchId \in BatchId /\ unbondBatchId # b /\ b < unbondBatchId /\ b # NoBatch
    <3>1. b \in Nat /\ unbondBatchId \in BatchId
      BY DEF TypeOK, BatchId
    <3>2. b # NoBatch
      BY CoreAssumption
    <3> QED BY <1>6, <3>1, <3>2
  <2>2. batches'[unbondBatchId].status = "New"
    BY <1>5, <2>1 DEF Batching, FrontierIsOpen
  <2>3. ASSUME NEW c \in BatchId
        PROVE  /\ c < unbondBatchId => batches'[c].status \notin {"New", "Absent"}
               /\ c > unbondBatchId => batches'[c] = AbsentBatch
               /\ batches'[c].status = "UnbondFailed" => failedBatchId' = c
    <3>1. CASE c = b
      BY <3>1, <1>5, <2>1 DEF BatchId
    <3>2. CASE c # b
      BY <3>2, <1>5, <1>6 DEF Batching, FrontierIsOpen
    <3> QED BY <3>1, <3>2
  <2> QED BY <1>1, <1>5, <1>6, <2>2, <2>3 DEF FrontierIsOpen
<1>9. Batching'
  <2>1. \A c \in BatchId : batches'[c].status # "UnbondRequested"
    BY <1>5, <1>6
  <2> QED BY <1>1, <1>2, <1>8, <2>1 DEF Batching, RequestedIsLast, RequestedIsUnderWay,
                                        UndelegateIsRequested, Outstanding
<1>10. Payments'
  <2>1. batches[b].status \notin Paying
    BY <1>3 DEF Paying
  <2>2. paid[b] = 0
    <3>1. paid[b] \in Nat
      BY DEF TypeOK
    <3> QED BY <1>3, <2>1, <3>1 DEF Payments, WithdrawnIsPaid, Paying
  <2> QED BY <1>1, <1>5, <2>1, <2>2, PaymentsKept
<1> QED BY <1>7, <1>9, <1>10

-----------------------------------------------------------------------------
(***************************************************************************)
(* The puppeteer's steps: the transaction is performed, its answer is      *)
(* accepted, or refused.                                                   *)
(***************************************************************************)

(* A claim is performed for batches that were not paid before. *)
LEMMA ExecuteKeeps ==
  ASSUME IInv, TypeOK', RemoteExecute
  PROVE  IInv'
<1> USE DEF IInv
<1>1. /\ stage = "sent" /\ stage' = "executed"
      /\ UNCHANGED <<fsm, unbondBatchId, batches, failedBatchId, lastResponse, tx>>
  BY DEF RemoteExecute, P!RemoteExecute, batching
<1>2. \A b \in BatchId :
        paid'[b] = IF tx.kind = "Claim" /\ b \in tx.ids THEN paid[b] + 1 ELSE paid[b]
  BY DEF RemoteExecute
<1>3. Control'
  BY <1>1 DEF Control, OutstandingMatchesFsm, NoOrphanState, UndelegateIsUnanswered, Outstanding
<1>4. Batching'
  BY <1>1 DEF Batching, FrontierIsOpen, RequestedIsLast, RequestedIsUnderWay,
              UndelegateIsRequested, Outstanding, AnsweredAs, Responded
<1>5. Payments'
  <2>1. /\ tx.ids \subseteq BatchId
        /\ Responded => lastResponse.tx.ids \subseteq BatchId
    BY <1>1, IdsAreBatches
  <2>2. tx.kind = "Claim" => \A b \in tx.ids : paid[b] = 0 /\ batches[b].status \in Paying
    BY <1>1 DEF Payments, PaysAreCounted, ClaimsArePaying, Outstanding
  <2>3. tx.kind = "Claim" => \A b \in tx.ids : paid'[b] = 1
    BY <1>2, <2>1, <2>2
  <2>4. \A b \in BatchId : paid[b] = 1 => paid'[b] = 1
    BY <1>2, <2>2
  <2>5. ClaimsArePaying'
    BY <1>1 DEF Payments, ClaimsArePaying, Outstanding, AnsweredAs, Responded
  <2>6. PaysAreCounted'
    BY <1>1, <2>1, <2>3, <2>4 DEF Payments, PaysAreCounted, Outstanding, AnsweredAs, Responded
  <2>7. WithdrawnIsPaid'
    <3>1. ASSUME NEW b \in BatchId, tx.kind = "Claim", b \in tx.ids
          PROVE  /\ paid'[b] <= 1
                 /\ batches[b].status \in Paying
                 /\ paid'[b] = 1
      BY <2>2, <2>3, <3>1
    <3>2. ASSUME NEW b \in BatchId, ~(tx.kind = "Claim" /\ b \in tx.ids)
          PROVE  paid'[b] = paid[b]
      BY <1>2, <3>2
    <3> QED BY <1>1, <3>1, <3>2 DEF Payments, WithdrawnIsPaid, Paying
  <2> QED BY <2>5, <2>6, <2>7 DEF Payments
<1> QED BY <1>3, <1>4, <1>5

(* An answer takes over what is known of the transaction. *)
LEMMA AnswerKeeps ==
  ASSUME IInv, TypeOK', NEW ok \in BOOLEAN, P!Answer(ok),
         lastResponse' = [ok |-> ok, tx |-> tx],
         UNCHANGED <<unbondBatchId, batches, failedBatchId, paid>>,
         fsm' = fsm \/ (tx.kind \in BackToIdle /\ fsm' = "Idle")
  PROVE  IInv'
<1> USE DEF IInv
<1>1. stage # "idle" /\ stage' = "idle" /\ (ok => stage = "executed")
  BY DEF P!Answer
<1>2. Responded'
  BY HookTypes DEF Responded
<1>3. Control'
  BY <1>1, <1>2 DEF Control, OutstandingMatchesFsm, NoOrphanState, UndelegateIsUnanswered,
                    Outstanding
<1>4. tx.kind = "Undelegate" => fsm' = fsm
  BY DEF BackToIdle
<1>5. FrontierIsOpen' /\ RequestedIsLast'
  BY DEF Batching, FrontierIsOpen, RequestedIsLast
<1>6. RequestedIsUnderWay'
  <2>1. ASSUME NEW b \in BatchId, batches[b].status = "UnbondRequested"
        PROVE  fsm' = "Unbonding" /\ tx.kind = "Undelegate" /\ tx.ids = {b}
    <3>1. fsm = "Unbonding"
      BY <2>1 DEF Batching, RequestedIsUnderWay
    <3>2. Outstanding({"Undelegate"})
      BY <1>1, <3>1, UnbondingIsUndelegating DEF Outstanding
    <3>3. ~Responded
      BY <3>2 DEF Control, UndelegateIsUnanswered, Responded
    <3>4. tx.ids = {b}
      BY <2>1, <3>3 DEF Batching, RequestedIsUnderWay, AnsweredAs
    <3> QED BY <1>4, <3>1, <3>2, <3>4 DEF Outstanding
  <2> QED BY <1>2, <2>1 DEF RequestedIsUnderWay, AnsweredAs
<1>7. UndelegateIsRequested'
  BY <1>1 DEF Batching, UndelegateIsRequested, Outstanding, AnsweredAs
<1>8. ClaimsArePaying' /\ PaysAreCounted' /\ WithdrawnIsPaid'
  BY <1>1 DEF Payments, ClaimsArePaying, PaysAreCounted, WithdrawnIsPaid, Outstanding, AnsweredAs
<1> QED BY <1>3, <1>5, <1>6, <1>7, <1>8 DEF Batching, Payments

(* An answer is lost only in Idle. *)
LEMMA RefusedKeeps ==
  ASSUME IInv, TypeOK', HookErrorRefused
  PROVE  IInv'
<1> USE DEF IInv
<1>1. /\ stage = "sent" /\ stage' = "lost"
      /\ UNCHANGED <<fsm, unbondBatchId, batches, failedBatchId, lastResponse, tx, paid>>
  BY DEF HookErrorRefused, P!Lose, batching, history
<1>2. fsm = "Idle"
  BY DEF HookErrorRefused, Transitions, TypeOK, ContractStates
<1>3. Control'
  BY <1>1, <1>2 DEF Control, OutstandingMatchesFsm, NoOrphanState, UndelegateIsUnanswered,
                    Outstanding
<1>4. Batching'
  BY <1>1 DEF Batching, FrontierIsOpen, RequestedIsLast, RequestedIsUnderWay,
              UndelegateIsRequested, Outstanding, AnsweredAs, Responded
<1>5. Payments'
  BY <1>1 DEF Payments, ClaimsArePaying, PaysAreCounted, WithdrawnIsPaid,
              Outstanding, AnsweredAs, Responded
<1> QED BY <1>3, <1>4, <1>5

-----------------------------------------------------------------------------
(***************************************************************************)
(* The invariant, and what follows from it                                 *)
(***************************************************************************)

(* Every step preserves the inductive invariant. *)
LEMMA NextIInv ==
  ASSUME IInv, [Next]_vars
  PROVE  IInv'
<1> USE DEF batching, puppeteer, history
<1>0. TypeOK /\ TypeOK'
  BY TypeStep DEF IInv
<1>1. ASSUME \/ \E amount \in BondAmounts : Bond(amount)
             \/ \E d \in Denom, amount \in LsmAmounts : BondLsm(d, amount)
             \/ Pause \/ Unpause \/ ResetBondedAmount \/ SetNonNativeRewardsReceivers
             \/ \E balance \in Balances, delay \in Delays : IcqUpdate(balance, delay)
             \/ AdvanceTime
             \/ UNCHANGED vars
      PROVE  IInv'
  <2>1. UNCHANGED <<fsm, unbondBatchId, batches, failedBatchId, lastResponse, puppeteer, paid>>
    BY <1>1 DEF Bond, BondLsm, Pause, Unpause, ResetBondedAmount, SetNonNativeRewardsReceivers,
                IcqUpdate, AdvanceTime, vars
  <2> QED BY <1>0, <2>1, AmountsOnly
<1>2. ASSUME NEW amount \in UnbondAmounts, NEW expected \in ExpectedAmounts,
             Unbond(amount, expected)
      PROVE  IInv'
  <2>1. /\ UNCHANGED <<fsm, unbondBatchId, failedBatchId, lastResponse, puppeteer, paid>>
        /\ batches' = [batches EXCEPT ![unbondBatchId] =
                         WithItem(batches[unbondBatchId], amount, expected)]
    BY <1>2 DEF Unbond
  <2>2. batches \in [BatchId -> Batches] /\ unbondBatchId \in BatchId
    BY <1>0 DEF TypeOK
  <2>3. WithItem(batches[unbondBatchId], amount, expected).status = batches[unbondBatchId].status
    BY <2>2 DEF WithItem, Batches
  <2>4. \A b \in BatchId : /\ batches'[b].status = batches[b].status
                           /\ b # unbondBatchId => batches'[b] = batches[b]
    BY <2>1, <2>2, <2>3
  <2> QED BY <1>0, <2>1, <2>4, AmountsOnly
<1>3. CASE Tick
  BY <1>0, <1>3, ShortKeeps, LongKeeps, WorkingKeeps, UnbondingKeeps DEF Tick
<1>4. CASE HookSuccess
  BY <1>0, <1>4, AnswerKeeps DEF HookSuccess
<1>5. CASE HookError
  BY <1>0, <1>5, AnswerKeeps DEF HookError, GoTo
<1>6. CASE HookErrorRefused
  BY <1>0, <1>6, RefusedKeeps
<1>7. CASE RemoteExecute
  BY <1>0, <1>7, ExecuteKeeps
<1> QED BY <1>1, <1>2, <1>3, <1>4, <1>5, <1>6, <1>7 DEF Next, Hook

(* The inductive invariant holds in every reachable state. *)
THEOREM Invariance == Spec => []IInv
<1>1. Init => IInv
  BY InitIInv
<1>2. IInv /\ [Next]_vars => IInv'
  BY NextIInv
<1> QED BY <1>1, <1>2, PTL DEF Spec

(* The outstanding transaction belongs to the state the machine is in, or to one
   it has left for Idle. *)
THEOREM OutstandingMatchesFsmAlways == Spec => []OutstandingMatchesFsm
<1>1. IInv => OutstandingMatchesFsm
  BY DEF IInv, Control
<1> QED BY <1>1, Invariance, PTL

(* No working state is left without an answer to tick on, or one to come. *)
THEOREM NoOrphanStateAlways == Spec => []NoOrphanState
<1>1. IInv => NoOrphanState
  BY DEF IInv, Control
<1> QED BY <1>1, Invariance, PTL

(* The open batch is the last, and a failed one the one before it. *)
THEOREM FrontierIsOpenAlways == Spec => []FrontierIsOpen
<1>1. IInv => FrontierIsOpen
  BY DEF IInv, Batching
<1> QED BY <1>1, Invariance, PTL

(* The batch whose undelegation was requested is the one Unbonding waits for. *)
THEOREM RequestedIsUnderWayAlways == Spec => []RequestedIsUnderWay
<1>1. IInv => RequestedIsUnderWay
  BY DEF IInv, Batching
<1> QED BY <1>1, Invariance, PTL

(* A batch is paid at most once, only after its release, and before it is called
   withdrawn. *)
THEOREM WithdrawnIsPaidAlways == Spec => []WithdrawnIsPaid
<1>1. IInv => WithdrawnIsPaid
  BY DEF IInv, Payments
<1> QED BY <1>1, Invariance, PTL

-----------------------------------------------------------------------------
(***************************************************************************)
(* LSM shares                                                              *)
(*                                                                         *)
(* LsmConserved is not inductive: a redemption takes the shares of its     *)
(* transaction off the total and clears the entries of its denoms, which   *)
(* is the same only because the map did not change since it was sent.      *)
(* LsmInFlightIsBooked says so, and is preserved because there is one      *)
(* transaction at a time.                                                  *)
(***************************************************************************)

LsmBooked == LsmConserved /\ LsmInFlightIsBooked

(* There are finitely many denoms and batches. *)
LEMMA Finite == IsFiniteSet(Denom) /\ IsFiniteSet(BatchId)
  BY CoreAssumption, FS_Interval DEF BatchId

(* The amount of shares in a map is a sum over the denoms. *)
LEMMA SharesSum ==
  ASSUME NEW f \in Shares
  PROVE  /\ SumFunction(f) = SumFunctionOnSet(f, Denom)
         /\ SumFunction(f) \in Nat
<1>1. DOMAIN f = Denom /\ \A d \in Denom : f[d] \in Nat
  BY DEF Shares
<1>2. SumFunction(f) = SumFunctionOnSet(f, Denom)
  BY <1>1 DEF SumFunction
<1>3. SumFunctionOnSet(f, Denom) \in Nat
  BY <1>1, Finite, SumType
<1> QED BY <1>2, <1>3

LEMMA InitLsmBooked ==
  ASSUME Init
  PROVE  LsmBooked
<1>1. pendingLsm = NoShares /\ lsmToRedeem = NoShares /\ totalLsm = 0 /\ stage = "idle"
  BY DEF Init, P!Init
<1>2. NoShares \in Shares /\ \A d \in Denom : NoShares[d] = 0
  BY DEF NoShares, Shares
<1>3. SumFunction(NoShares) = 0
  BY <1>2, SharesSum, SumZero, Finite
<1> QED BY <1>1, <1>3 DEF LsmBooked, LsmConserved, LsmInFlightIsBooked, Outstanding

(* Steps that leave the maps and the transaction alone, or end it, or send one of
   another kind. *)
LEMMA LsmUntouched ==
  ASSUME LsmBooked, UNCHANGED <<totalLsm, pendingLsm, lsmToRedeem>>,
         \/ UNCHANGED tx /\ (stage' # "idle" => stage # "idle")
         \/ stage' = "idle"
         \/ tx'.kind \notin {"Redeem", "IBCLsm"}
  PROVE  LsmBooked'
<1>1. LsmConserved'
  BY DEF LsmBooked, LsmConserved
<1>2. LsmInFlightIsBooked'
  BY DEF LsmBooked, LsmInFlightIsBooked, Outstanding
<1> QED BY <1>1, <1>2 DEF LsmBooked

(* A short tick sends the shares of the map it read. *)
LEMMA ShortBooked ==
  ASSUME TypeOK, LsmBooked, NEW due \in RewardsDue, TickIdleShort(due)
  PROVE  LsmBooked'
<1>1. UNCHANGED <<totalLsm, pendingLsm, lsmToRedeem>>
  BY DEF TickIdleShort, lsm
<1>2. LsmConserved'
  BY <1>1 DEF LsmBooked, LsmConserved
<1>3. pendingLsm \in Shares /\ lsmToRedeem \in Shares
  BY DEF TypeOK
<1>4. CASE PayRewardsAndFees(due)
  <2>1. tx' = PlainTx("Transfer", collectedFees)
    BY <1>4 DEF PayRewardsAndFees, P!Send
  <2>2. tx'.kind = "Transfer"
    BY <2>1 DEF PlainTx
  <2> QED BY <1>1, <2>2, LsmUntouched
<1>5. CASE RedeemShares
  <2>1. tx' = [PlainTx("Redeem", 0) EXCEPT !.shares = lsmToRedeem]
    BY <1>5 DEF RedeemShares, P!Send
  <2>2. tx'.kind = "Redeem" /\ tx'.shares = lsmToRedeem
    BY <2>1 DEF PlainTx
  <2> QED BY <1>1, <1>2, <2>2 DEF LsmBooked, LsmInFlightIsBooked, Outstanding
<1>6. ASSUME NEW d \in Denom, TransferLsm(d)
      PROVE  LsmBooked'
  <2>1. tx' = [PlainTx("IBCLsm", pendingLsm[d]) EXCEPT !.shares[d] = pendingLsm[d]]
    BY <1>6 DEF TransferLsm, P!Send
  <2>2. tx'.kind = "IBCLsm" /\ tx'.shares = [NoShares EXCEPT ![d] = pendingLsm[d]]
    BY <2>1 DEF PlainTx
  <2>3. \A e \in Denom : pendingLsm[e] \in Nat
    BY <1>3 DEF Shares
  <2>4. \A e \in Denom : tx'.shares[e] <= pendingLsm[e]
    BY <2>2, <2>3 DEF NoShares
  <2> QED BY <1>1, <1>2, <2>2, <2>4 DEF LsmBooked, LsmInFlightIsBooked, Outstanding
<1> QED BY <1>4, <1>5, <1>6 DEF TickIdleShort

(* The other ticks send no shares, if they send anything. *)
LEMMA OtherTicksBooked ==
  ASSUME TypeOK, LsmBooked,
         \/ \E claimable \in Claimable : TickIdleLong(claimable)
         \/ TickClaiming \/ TickTransfering \/ TickStaking \/ TickUnbonding
  PROVE  LsmBooked'
<1>1. UNCHANGED <<totalLsm, pendingLsm, lsmToRedeem>>
  BY DEF TickIdleLong, TickClaiming, TickTransfering, TickStaking, TickUnbonding, lsm
<1>2. UNCHANGED <<tx, stage>> \/ tx'.kind \in {"IBCStake", "Delegate", "Undelegate", "Claim"}
  BY TickSends
<1> QED BY <1>1, <1>2, LsmUntouched

(* A bonded share is in the total and in the map. *)
LEMMA BondBooked ==
  ASSUME TypeOK, TypeOK', LsmBooked, NEW d \in Denom, NEW amount \in LsmAmounts, BondLsm(d, amount)
  PROVE  LsmBooked'
<1>1. /\ pendingLsm \in Shares /\ lsmToRedeem \in Shares /\ pendingLsm' \in Shares
      /\ amount \in Nat /\ totalLsm \in Nat
  BY CoreAssumption DEF TypeOK
<1>2. /\ totalLsm' = totalLsm + amount
      /\ pendingLsm' = [pendingLsm EXCEPT ![d] = @ + amount]
      /\ UNCHANGED <<lsmToRedeem, tx, stage>>
  BY DEF BondLsm, puppeteer
<1>3. /\ \A e \in Denom : pendingLsm[e] \in Nat /\ pendingLsm'[e] \in Nat
      /\ pendingLsm'[d] = pendingLsm[d] + amount
      /\ \A e \in Denom \ {d} : pendingLsm[e] = pendingLsm'[e]
  BY <1>1, <1>2 DEF Shares
<1>4. SumFunctionOnSet(pendingLsm', Denom)
        = SumFunctionOnSet(pendingLsm, Denom) - pendingLsm[d] + pendingLsm'[d]
  BY <1>3, Finite, SumChange
<1>5. /\ SumFunction(pendingLsm) \in Nat /\ SumFunction(lsmToRedeem) \in Nat
      /\ SumFunction(pendingLsm) = SumFunctionOnSet(pendingLsm, Denom)
      /\ SumFunction(pendingLsm') = SumFunctionOnSet(pendingLsm', Denom)
  BY <1>1, SharesSum
<1>6. LsmConserved'
  BY <1>1, <1>2, <1>3, <1>4, <1>5 DEF LsmBooked, LsmConserved
<1>7. LsmInFlightIsBooked'
  <2>1. \A t \in Txs, e \in Denom : t.shares[e] \in Nat
    BY DEF Txs, Shares
  <2>2. Outstanding({"IBCLsm"}) => \A e \in Denom : tx.shares[e] <= pendingLsm'[e]
    <3>1. ASSUME NEW e \in Denom, Outstanding({"IBCLsm"})
          PROVE  tx.shares[e] <= pendingLsm'[e]
      <4>1. tx.shares[e] \in Nat
        BY <2>1, <3>1 DEF Outstanding, TypeOK, P!TypeOK
      <4>2. tx.shares[e] <= pendingLsm[e]
        BY <3>1 DEF LsmBooked, LsmInFlightIsBooked
      <4> QED BY <1>1, <1>3, <4>1, <4>2
    <3> QED BY <3>1
  <2> QED BY <1>2, <2>2 DEF LsmBooked, LsmInFlightIsBooked, Outstanding
<1> QED BY <1>6, <1>7 DEF LsmBooked

(* A transferred share changes the map, a redeemed one leaves its map and the total. *)
LEMMA HookBooked ==
  ASSUME TypeOK, TypeOK', LsmBooked, HookSuccess
  PROVE  LsmBooked'
<1>0. /\ stage # "idle" /\ stage' = "idle" /\ tx \in Txs /\ tx.shares \in Shares
      /\ pendingLsm \in Shares /\ lsmToRedeem \in Shares /\ totalLsm \in Nat
      /\ pendingLsm' \in Shares /\ lsmToRedeem' \in Shares
  BY DEF HookSuccess, P!Answer, TypeOK, P!TypeOK, Txs
<1>1. \A d \in Denom : /\ pendingLsm[d] \in Nat /\ lsmToRedeem[d] \in Nat
                       /\ pendingLsm'[d] \in Nat /\ lsmToRedeem'[d] \in Nat
                       /\ tx.shares[d] \in Nat
  BY <1>0 DEF Shares
<1>2. /\ SumFunction(pendingLsm) = SumFunctionOnSet(pendingLsm, Denom)
      /\ SumFunction(pendingLsm') = SumFunctionOnSet(pendingLsm', Denom)
      /\ SumFunction(lsmToRedeem) = SumFunctionOnSet(lsmToRedeem, Denom)
      /\ SumFunction(lsmToRedeem') = SumFunctionOnSet(lsmToRedeem', Denom)
      /\ SumFunction(pendingLsm) \in Nat /\ SumFunction(lsmToRedeem) \in Nat
  BY <1>0, SharesSum
<1>3. LsmInFlightIsBooked'
  BY <1>0 DEF LsmInFlightIsBooked, Outstanding
<1>4. CASE tx.kind = "IBCLsm" /\ LsmSent(tx)
  <2> DEFINE both == [d \in Denom |-> pendingLsm[d] + lsmToRedeem[d]]
  <2>1. \A d \in Denom : pendingLsm'[d] + lsmToRedeem'[d] = pendingLsm[d] + lsmToRedeem[d]
    BY <1>1, <1>4 DEF LsmSent, AfterSent
  <2>2. SumFunctionOnSet(both, Denom)
          = SumFunctionOnSet(pendingLsm, Denom) + SumFunctionOnSet(lsmToRedeem, Denom)
    <3>1. \A d \in Denom : both[d] = pendingLsm[d] + lsmToRedeem[d]
      OBVIOUS
    <3> HIDE DEF both
    <3> QED BY <1>1, <3>1, Finite, SumPlus
  <2>3. SumFunctionOnSet(both, Denom)
          = SumFunctionOnSet(pendingLsm', Denom) + SumFunctionOnSet(lsmToRedeem', Denom)
    <3>1. \A d \in Denom : both[d] = pendingLsm'[d] + lsmToRedeem'[d]
      BY <2>1
    <3> HIDE DEF both
    <3> QED BY <1>1, <3>1, Finite, SumPlus
  <2>4. UNCHANGED totalLsm
    BY <1>4 DEF LsmSent
  <2> HIDE DEF both
  <2>5. LsmConserved'
    BY <1>2, <2>2, <2>3, <2>4 DEF LsmBooked, LsmConserved
  <2> QED BY <1>3, <2>5 DEF LsmBooked
<1>5. CASE tx.kind = "Redeem" /\ LsmRedeemed(tx)
  <2>1. tx.shares = lsmToRedeem
    BY <1>0, <1>5 DEF LsmBooked, LsmInFlightIsBooked, Outstanding
  <2>2. totalLsm' = totalLsm - SumFunction(lsmToRedeem) /\ UNCHANGED pendingLsm
    BY <1>5, <2>1 DEF LsmRedeemed, SharesIn
  <2>3. \A d \in Denom : lsmToRedeem'[d] = 0
    BY <1>1, <1>5, <2>1 DEF LsmRedeemed
  <2>4. SumFunctionOnSet(lsmToRedeem', Denom) = 0
    BY <2>3, Finite, SumZero
  <2>5. LsmConserved'
    BY <1>0, <1>2, <2>2, <2>4 DEF LsmBooked, LsmConserved
  <2> QED BY <1>3, <2>5 DEF LsmBooked
<1>6. CASE UNCHANGED lsm
  BY <1>0, <1>6, LsmUntouched DEF lsm
<1> QED BY <1>4, <1>5, <1>6 DEF HookSuccess

(* Every step keeps the books. *)
LEMMA NextLsmBooked ==
  ASSUME TypeOK, TypeOK', LsmBooked, [Next]_vars
  PROVE  LsmBooked'
<1>1. ASSUME \/ \E amount \in BondAmounts : Bond(amount)
             \/ \E amount \in UnbondAmounts, expected \in ExpectedAmounts : Unbond(amount, expected)
             \/ Pause \/ Unpause \/ ResetBondedAmount \/ SetNonNativeRewardsReceivers
             \/ HookError \/ HookErrorRefused \/ RemoteExecute
             \/ \E balance \in Balances, delay \in Delays : IcqUpdate(balance, delay)
             \/ AdvanceTime
             \/ UNCHANGED vars
      PROVE  LsmBooked'
  <2>1. /\ UNCHANGED <<totalLsm, pendingLsm, lsmToRedeem>>
        /\ \/ UNCHANGED tx /\ (stage' # "idle" => stage # "idle")
           \/ stage' = "idle"
    BY <1>1 DEF Bond, Unbond, Pause, Unpause, ResetBondedAmount, SetNonNativeRewardsReceivers,
                HookError, HookErrorRefused, RemoteExecute, IcqUpdate, AdvanceTime, vars,
                lsm, puppeteer, P!Answer, P!Lose, P!RemoteExecute
  <2> QED BY <2>1, LsmUntouched
<1> QED BY <1>1, ShortBooked, OtherTicksBooked, BondBooked, HookBooked DEF Next, Tick, Hook

(* The books of LSM shares and the transaction under way agree in every state. *)
LEMMA LsmBookedAlways == Spec => []LsmBooked
<1>1. Init => LsmBooked
  BY InitLsmBooked
<1>2. TypeOK /\ TypeOK' /\ LsmBooked /\ [Next]_vars => LsmBooked'
  BY NextLsmBooked
<1> QED BY <1>1, <1>2, TypeCorrect, PTL DEF Spec

(* No share is lost between the two maps or counted after it was redeemed. *)
THEOREM LsmConservedAlways == Spec => []LsmConserved
<1>1. LsmBooked => LsmConserved
  BY DEF LsmBooked
<1> QED BY <1>1, LsmBookedAlways, PTL

(* The shares of an LSM transaction under way are still in the map it was made from. *)
THEOREM LsmInFlightIsBookedAlways == Spec => []LsmInFlightIsBooked
<1>1. LsmBooked => LsmInFlightIsBooked
  BY DEF LsmBooked
<1> QED BY <1>1, LsmBookedAlways, PTL

-----------------------------------------------------------------------------
(***************************************************************************)
(* The life of a batch                                                     *)
(*                                                                         *)
(* Core implements BatchLife for every batch: each of its steps is a step  *)
(* of the life of each batch, or leaves that batch alone.  Besides IInv    *)
(* this needs the Ledger: that the phases of a batch show in its release   *)
(* time and its payout, and that a claim, under way or answered, has       *)
(* batches of one kind, so that it settles each of them as it was released.*)
(***************************************************************************)

Early == {"Absent", "New", "UnbondRequested", "UnbondFailed"}
Pumped == {"Withdrawing", "Withdrawn"}
Rescued == {"WithdrawingEmergency", "WithdrawnEmergency"}

ClockRuns == 0 < now /\ icaQuery.at <= now

PhasesAreDated ==
  \A b \in BatchId :
    /\ batches[b].status \in Early <=> batches[b].release = 0
    /\ batches[b].status \in Pumped <=> batches[b].unbonded # NoAmount

RightKind(t) ==
  \A b \in t.ids : batches[b].status \in IF t.emergency THEN Rescued ELSE Pumped

ClaimsOfOneKind ==
  /\ Outstanding({"Claim"}) => RightKind(tx)
  /\ AnsweredAs({"Claim"}) => RightKind(lastResponse.tx)

(* what a payout waited for *)
PayoutsAreDated ==
  \A b \in BatchId : batches[b].status \in Pumped \cup Rescued =>
    0 < batches[b].release /\ batches[b].release < icaQuery.at

Ledger == ClockRuns /\ PhasesAreDated /\ ClaimsOfOneKind /\ PayoutsAreDated

(* a batch is released only after a balance was delivered that is newer than its release *)
ReleasedMature ==
  \A b \in BatchId : batches[b].status = "Unbonding" /\ batches'[b].status # "Unbonding"
    => batches[b].release < icaQuery.at

StepOfLife == LifeStep /\ ReleasedMature

LEMMA InitLedger ==
  ASSUME Init
  PROVE  Ledger
<1>1. /\ now = GenesisTime /\ icaQuery.at = 0 /\ stage = "idle" /\ lastResponse = NoResponse
      /\ GenesisTime \in Nat \ {0}
  BY CoreAssumption DEF Init, P!Init
<1>2. \A b \in BatchId : /\ batches[b].status \in {"New", "Absent"}
                         /\ batches[b].release = 0 /\ batches[b].unbonded = NoAmount
  BY DEF Init, NewBatch, AbsentBatch
<1> QED BY <1>1, <1>2 DEF Ledger, ClockRuns, PhasesAreDated, ClaimsOfOneKind, PayoutsAreDated,
                          Outstanding, AnsweredAs, Responded, Early, Pumped, Rescued

(* A batch that nobody touches lives on. *)
LEMMA LifeStands ==
  ASSUME UNCHANGED <<batches, paid>>
  PROVE  StepOfLife
BY DEF StepOfLife, LifeStep, ReleasedMature, Life!vars, Life!amounts

(* An unbonding is collected by the open batch. *)
LEMMA OneCollects ==
  ASSUME IInv, NEW amount \in UnbondAmounts, NEW expected \in ExpectedAmounts,
         Unbond(amount, expected)
  PROVE  StepOfLife
<1>1. /\ amount \in Nat \ {0} /\ expected \in Nat
      /\ unbondBatchId \in BatchId /\ batches \in [BatchId -> Batches]
      /\ UNCHANGED paid
  BY CoreAssumption DEF IInv, TypeOK, Unbond, history
<1>2. ASSUME NEW b \in BatchId, b = unbondBatchId
      PROVE  batches[b].status = "New" /\ Life(b)!Collect
  <2>1. batches[b] \in Batches /\ batches[b].status = "New"
    BY <1>1, <1>2 DEF IInv, Batching, FrontierIsOpen
  <2>2. batches'[b] = WithItem(batches[b], amount, expected)
    BY <1>1, <1>2 DEF Unbond
  <2>3. /\ batches'[b].status = "New"
        /\ batches'[b].items = batches[b].items + 1
        /\ batches'[b].total > batches[b].total
        /\ batches'[b].expected >= batches[b].expected
        /\ batches'[b].release = batches[b].release /\ batches'[b].unbonded = batches[b].unbonded
    BY <1>1, <2>1, <2>2 DEF WithItem, Batches
  <2> QED BY <1>1, <2>1, <2>3 DEF Life!Collect
<1>3. \A b \in BatchId : b # unbondBatchId => batches'[b] = batches[b]
  BY <1>1 DEF Unbond
<1>4. LifeStep
  BY <1>1, <1>2, <1>3 DEF LifeStep, Life!Next, Life!vars, Life!amounts
<1>5. ReleasedMature
  BY <1>2, <1>3 DEF ReleasedMature
<1> QED BY <1>4, <1>5 DEF StepOfLife

(* What becomes of a released batch. *)
LEMMA ReleasedStatus ==
  ASSUME TypeOK, NEW S \in SUBSET BatchId, NEW b \in S
  PROVE  /\ Released(S)[b].status =
              IF IsEmergency(S) THEN "WithdrawingEmergency" ELSE "Withdrawing"
         /\ Released(S)[b].unbonded =
              IF IsEmergency(S) THEN NoAmount ELSE AtMost(icaQuery.balance, batches[b].expected)
<1>1. batches[b] \in Batches /\ b \in BatchId
  BY DEF TypeOK
<1> DEFINE pay == AtMost(icaQuery.balance, batches[b].expected)
<1>2. CASE IsEmergency(S)
  <2>1. Released(S)[b] = [batches[b] EXCEPT !.status = "WithdrawingEmergency", !.unbonded = NoAmount]
    BY <1>1, <1>2 DEF Released
  <2> HIDE DEF pay
  <2> QED BY <1>1, <1>2, <2>1 DEF Batches
<1>3. CASE ~IsEmergency(S)
  <2>1. Released(S)[b] = [batches[b] EXCEPT !.status = "Withdrawing", !.unbonded = pay]
    BY <1>1, <1>3 DEF Released
  <2>2. pay = AtMost(icaQuery.balance, batches[b].expected)
    OBVIOUS
  <2> HIDE DEF pay
  <2>3. Released(S)[b].status = "Withdrawing" /\ Released(S)[b].unbonded = pay
    BY <1>1, <2>1 DEF Batches
  <2> QED BY <1>3, <2>2, <2>3
<1> QED BY <1>2, <1>3

(* Released batches take their step together. *)
LEMMA ReleasedLive ==
  ASSUME IInv, Ledger, batches' = Released(MaturedBatches), UNCHANGED paid
  PROVE  StepOfLife
<1> DEFINE S == MaturedBatches
<1>1. ASSUME NEW b \in BatchId, b \in S
      PROVE  /\ Life(b)!Release \/ Life(b)!ReleaseEmergency
             /\ batches[b].release < icaQuery.at
  <2>1. /\ batches[b].status = "Unbonding" /\ batches[b].release < icaQuery.at
        /\ batches[b] \in Batches /\ icaQuery.balance \in Nat
    BY <1>1 DEF MaturedBatches, Matured, IInv, TypeOK
  <2>2. CASE IsEmergency(S)
    <3>1. batches'[b] = [batches[b] EXCEPT !.status = "WithdrawingEmergency", !.unbonded = NoAmount]
      BY <1>1, <2>2 DEF Released
    <3> QED BY <2>1, <3>1 DEF Life!ReleaseEmergency, Life!Move, Life!amounts, Batches
  <2>3. CASE ~IsEmergency(S)
    <3> DEFINE pay == AtMost(icaQuery.balance, batches[b].expected)
    <3>1. batches'[b] = [batches[b] EXCEPT !.status = "Withdrawing", !.unbonded = pay]
      BY <1>1, <2>3 DEF Released
    <3>2. pay \in 0..batches[b].expected
      BY <2>1 DEF AtMost, Batches
    <3> HIDE DEF pay
    <3> QED BY <2>1, <3>1, <3>2 DEF Life!Release, Life!Move, Life!amounts, Batches
  <2> QED BY <2>1, <2>2, <2>3
<1>2. ASSUME NEW b \in BatchId, b \notin S
      PROVE  batches'[b] = batches[b]
  BY <1>2 DEF Released
<1> HIDE DEF S
<1>3. LifeStep
  BY <1>1, <1>2 DEF LifeStep, Life!Next, Life!vars, Life!amounts
<1> QED BY <1>1, <1>2, <1>3 DEF StepOfLife, ReleasedMature

(* Settled batches take theirs together, each as it was released. *)
LEMMA SettledLive ==
  ASSUME IInv, Ledger, Responded, lastResponse.ok => lastResponse.tx.kind = "Claim",
         batches' = Settled(lastResponse), UNCHANGED paid
  PROVE  StepOfLife
<1> DEFINE t == lastResponse.tx
<1>1. ASSUME NEW b \in BatchId, lastResponse.ok, b \in t.ids
      PROVE  [Life(b)!Next]_(Life(b)!vars) /\ batches[b].status # "Unbonding"
  <2>1. batches[b] \in Batches /\ paid[b] = 1
    BY <1>1 DEF IInv, TypeOK, Payments, PaysAreCounted, AnsweredAs
  <2>2. batches[b].status \in IF t.emergency THEN Rescued ELSE Pumped
    BY <1>1 DEF Ledger, ClaimsOfOneKind, AnsweredAs, RightKind
  <2>3. batches'[b] =
          [batches[b] EXCEPT !.status = IF t.emergency THEN "WithdrawnEmergency" ELSE "Withdrawn"]
    BY <1>1 DEF Settled, MarkWithdrawn
  <2>4. CASE batches[b].status \in {"Withdrawn", "WithdrawnEmergency"}
    <3>1. batches'[b] = batches[b]
      BY <2>1, <2>2, <2>3, <2>4 DEF Rescued, Pumped, Batches
    <3> QED BY <2>4, <3>1 DEF Life!vars, Life!amounts
  <2>5. CASE batches[b].status \notin {"Withdrawn", "WithdrawnEmergency"}
    <3>1. Life(b)!Settle
      BY <2>1, <2>2, <2>3, <2>5 DEF Life!Settle, Life!Move, Life!amounts, Rescued, Pumped, Batches
    <3> QED BY <2>2, <3>1 DEF Life!Next, Rescued, Pumped
  <2> QED BY <2>4, <2>5
<1>2. ASSUME NEW b \in BatchId, ~lastResponse.ok \/ b \notin t.ids
      PROVE  batches'[b] = batches[b]
  BY <1>2 DEF Settled, MarkWithdrawn
<1>3. LifeStep
  BY <1>1, <1>2 DEF LifeStep, Life!vars, Life!amounts
<1> QED BY <1>1, <1>2, <1>3 DEF StepOfLife, ReleasedMature

(* A requested batch takes its step, and the next one is opened, or reopened. *)
LEMMA RequestLive ==
  ASSUME IInv, Ledger, fsm # "Unbonding", NEW from, RequestUnbonding(from, batches),
         UNCHANGED paid
  PROVE  StepOfLife
<1> USE DEF IInv
<1> DEFINE id == BatchToUnbond
<1>1. /\ id \in BatchId /\ id + 1 \in BatchId /\ id # id + 1 /\ id \in Nat
      /\ batches' = [batches EXCEPT ![id].status = "UnbondRequested", ![id + 1] = NewBatch]
      /\ batches \in BatchMaps
  <2>1. batches \in BatchMaps
    BY DEF TypeOK, BatchMaps
  <2>2. /\ id \in BatchId /\ id + 1 \in BatchId
        /\ batches' = [batches EXCEPT ![id].status = "UnbondRequested", ![id + 1] = NewBatch]
    BY <2>1, RequestFacts
  <2>3. id \in Nat
    BY <2>2 DEF BatchId
  <2> QED BY <2>1, <2>2, <2>3
<1>2. \/ failedBatchId = NoBatch /\ id = unbondBatchId
      \/ failedBatchId # NoBatch /\ id = failedBatchId /\ unbondBatchId = id + 1
  BY DEF BatchToUnbond, Batching, FrontierIsOpen
<1>3. /\ batches[id].status \in {"New", "UnbondFailed"} /\ batches[id].items > 0
      /\ batches[id + 1].status \in {"New", "Absent"}
  <2>1. AbsentBatch.status = "Absent"
    BY DEF AbsentBatch
  <2>2. batches[id].items > 0
    BY DEF RequestUnbonding, InSwitchWindow
  <2>3. batches[id].status # "UnbondRequested"
    BY <1>1, UnbondingIsUndelegating
  <2> HIDE DEF id
  <2>4. batches[id].status \in {"New", "UnbondFailed"}
    BY <1>2, <2>3 DEF Batching, FrontierIsOpen
  <2>5. batches[id + 1].status \in {"New", "Absent"}
    <3>1. CASE id = unbondBatchId
      BY <1>1, <2>1, <3>1 DEF Batching, FrontierIsOpen
    <3>2. CASE unbondBatchId = id + 1
      BY <3>2 DEF Batching, FrontierIsOpen
    <3> QED BY <1>2, <3>1, <3>2
  <2> QED BY <2>2, <2>4, <2>5
<1> HIDE DEF id
<1>4. ASSUME NEW b \in BatchId, b = id
      PROVE  Life(b)!Request
  <2>1. /\ batches[b] \in Batches
        /\ batches'[b] = [batches[b] EXCEPT !.status = "UnbondRequested"]
    BY <1>1, <1>4 DEF BatchMaps
  <2> QED BY <1>3, <1>4, <2>1 DEF Life!Request, Life!Move, Life!amounts, Batches
<1>5. ASSUME NEW b \in BatchId, b = id + 1
      PROVE  Life(b)!Open
  <2>1. batches[b].status \in Early \ {"UnbondRequested", "UnbondFailed"}
    BY <1>3, <1>5 DEF Early
  <2>2. batches[b].release = 0 /\ batches[b].unbonded = NoAmount
    BY <2>1 DEF Ledger, PhasesAreDated, Early, Pumped
  <2>3. batches'[b] = NewBatch
    BY <1>1, <1>5 DEF BatchMaps
  <2> QED BY <1>3, <1>5, <2>2, <2>3 DEF Life!Open, Life!Empty, NewBatch, AbsentBatch
<1>6. ASSUME NEW b \in BatchId, b # id, b # id + 1
      PROVE  batches'[b] = batches[b]
  BY <1>1, <1>6 DEF BatchMaps
<1>7. LifeStep
  BY <1>4, <1>5, <1>6 DEF LifeStep, Life!Next, Life!vars, Life!amounts
<1>8. ReleasedMature
  BY <1>3, <1>6 DEF ReleasedMature
<1> QED BY <1>7, <1>8 DEF StepOfLife

(* The tick of Unbonding matures the requested batch, or fails it. *)
LEMMA UnbondingLive ==
  ASSUME IInv, Ledger, TickUnbonding
  PROVE  StepOfLife
<1> USE DEF IInv
<1>1. fsm = "Unbonding" /\ AnsweredAs({"Undelegate"}) /\ UNCHANGED paid
  BY DEF TickUnbonding, TickWorking, AnsweredAs, history
<1>2. PICK id \in BatchId : lastResponse.tx.ids = {id} /\ batches[id].status = "UnbondRequested"
  BY <1>1 DEF Batching, UndelegateIsRequested
<1>3. /\ now + UnbondingPeriod > 0
      /\ batches \in BatchMaps
  BY CoreAssumption DEF TypeOK, Ledger, ClockRuns, BatchMaps
<1>4. \/ batches' = [batches EXCEPT ![id].status = "Unbonding",
                                   ![id].release = now + UnbondingPeriod]
      \/ batches' = [batches EXCEPT ![id].status = "UnbondFailed"]
  BY <1>2 DEF TickUnbonding
<1>5. ASSUME NEW b \in BatchId, b = id
      PROVE  Life(b)!Mature \/ Life(b)!Fail
  <2>1. batches[b] \in Batches /\ batches[b].status = "UnbondRequested"
    BY <1>2, <1>3, <1>5 DEF BatchMaps
  <2>2. CASE batches'[b] = [batches[b] EXCEPT !.status = "Unbonding", !.release = now + UnbondingPeriod]
    BY <1>1, <1>3, <2>1, <2>2 DEF Life!Mature, Life!Move, Life!amounts, Batches
  <2>3. CASE batches'[b] = [batches[b] EXCEPT !.status = "UnbondFailed"]
    BY <1>1, <2>1, <2>3 DEF Life!Fail, Life!Move, Life!amounts, Batches
  <2> QED BY <1>3, <1>4, <1>5, <2>2, <2>3 DEF BatchMaps
<1>6. ASSUME NEW b \in BatchId, b # id
      PROVE  batches'[b] = batches[b]
  BY <1>3, <1>4, <1>6 DEF BatchMaps
<1>7. LifeStep
  BY <1>1, <1>5, <1>6 DEF LifeStep, Life!Next, Life!vars, Life!amounts
<1>8. ReleasedMature
  BY <1>2, <1>6 DEF ReleasedMature
<1> QED BY <1>7, <1>8 DEF StepOfLife

(* The remote chain pays the batches of a claim, each for the first time. *)
LEMMA PayLive ==
  ASSUME IInv, Ledger, RemoteExecute
  PROVE  StepOfLife
<1>1. stage = "sent" /\ UNCHANGED batches
  BY DEF RemoteExecute, P!RemoteExecute, batching
<1>2. \A b \in BatchId :
        paid'[b] = IF tx.kind = "Claim" /\ b \in tx.ids THEN paid[b] + 1 ELSE paid[b]
  BY DEF RemoteExecute
<1>3. ASSUME NEW b \in BatchId, tx.kind = "Claim", b \in tx.ids
      PROVE  Life(b)!Pay
  <2>1. paid[b] = 0 /\ batches[b].status \in Paying
    BY <1>1, <1>3 DEF IInv, Payments, PaysAreCounted, ClaimsArePaying, Outstanding
  <2>2. batches[b].status \in {"Withdrawing", "WithdrawingEmergency"}
    BY <2>1 DEF IInv, Payments, WithdrawnIsPaid, Paying
  <2>3. paid'[b] = 1
    BY <1>2, <1>3, <2>1
  <2> QED BY <1>1, <2>1, <2>2, <2>3 DEF Life!Pay, Life!amounts
<1>4. ASSUME NEW b \in BatchId, ~(tx.kind = "Claim" /\ b \in tx.ids)
      PROVE  paid'[b] = paid[b]
  BY <1>2, <1>4
<1>5. LifeStep
  BY <1>1, <1>3, <1>4 DEF LifeStep, Life!Next, Life!vars, Life!amounts
<1>6. ReleasedMature
  BY <1>1 DEF ReleasedMature
<1> QED BY <1>5, <1>6 DEF StepOfLife

(* The other ticks only move batches towards their payout, or leave them. *)
LEMMA TicksLive ==
  ASSUME IInv, Ledger,
         \/ \E due \in RewardsDue : TickIdleShort(due)
         \/ \E claimable \in Claimable : TickIdleLong(claimable)
         \/ TickClaiming \/ TickTransfering \/ TickStaking
  PROVE  StepOfLife
<1> USE DEF IInv
<1>0. UNCHANGED paid /\ batches \in BatchMaps
  BY DEF TickIdleShort, TickIdleLong, TickClaiming, TickTransfering, TickStaking, history,
         TypeOK, BatchMaps
<1>1. ASSUME NEW from, from # "Staking", NEW bs \in BatchMaps,
             \/ TransferOrStakeOrUnbondOrRest(from, bs)
             \/ StakeOrUnbondOrRest(from, bs) /\ UNCHANGED coreBalance
      PROVE  batches' = bs
  <2>1. ~RequestUnbonding(from, bs)
    BY <1>1, RequestFacts
  <2> QED BY <1>1, <2>1, TransferTail, StakeTail DEF Rests
<1>2. ASSUME NEW due \in RewardsDue, TickIdleShort(due)
      PROVE  StepOfLife
  BY <1>0, <1>2, LifeStands DEF TickIdleShort, batching
<1>3. ASSUME NEW claimable \in Claimable, TickIdleLong(claimable)
      PROVE  StepOfLife
  <2> DEFINE S == MaturedBatches
  <2>1. ExpectedOf(S) \in 0..MaxAmount /\ (ClaimFromValidators(S) \/ SkipClaim(S))
    BY <1>3 DEF TickIdleLong
  <2>2. Released(S) \in BatchMaps
    BY <2>1, ReleasedType
  <2>3. batches' = Released(S)
    BY <1>1, <2>1, <2>2 DEF ClaimFromValidators, SkipClaim
  <2> QED BY <1>0, <2>3, ReleasedLive
<1>4. ASSUME TickClaiming
      PROVE  StepOfLife
  <2>1. /\ Responded /\ (lastResponse.ok => lastResponse.tx.kind = "Claim")
        /\ TransferOrStakeOrUnbondOrRest("Claiming", Settled(lastResponse))
    BY <1>4 DEF TickClaiming, TickWorking
  <2>2. Settled(lastResponse) \in BatchMaps
    BY <2>1, SettledType DEF Responded, TypeOK
  <2>3. batches' = Settled(lastResponse)
    BY <1>1, <2>1, <2>2
  <2> QED BY <1>0, <2>1, <2>3, SettledLive
<1>5. ASSUME TickTransfering
      PROVE  StepOfLife
  <2>1. batches' = batches
    BY <1>0, <1>1, <1>5 DEF TickTransfering
  <2> QED BY <1>0, <2>1, LifeStands
<1>6. ASSUME TickStaking
      PROVE  StepOfLife
  <2>1. fsm # "Unbonding" /\ (RequestUnbonding("Staking", batches) \/ Rests(batches))
    BY <1>0, <1>6, UnbondTail DEF TickStaking, TickWorking
  <2> QED BY <1>0, <2>1, RequestLive, LifeStands DEF Rests
<1> QED BY <1>2, <1>3, <1>4, <1>5, <1>6

(* Every step is a step of the life of each batch. *)
LEMMA NextLife ==
  ASSUME IInv, Ledger, [Next]_vars
  PROVE  StepOfLife
<1>1. ASSUME \/ \E amount \in BondAmounts : Bond(amount)
             \/ \E d \in Denom, amount \in LsmAmounts : BondLsm(d, amount)
             \/ Pause \/ Unpause \/ ResetBondedAmount \/ SetNonNativeRewardsReceivers
             \/ Hook
             \/ \E balance \in Balances, delay \in Delays : IcqUpdate(balance, delay)
             \/ AdvanceTime
             \/ UNCHANGED vars
      PROVE  StepOfLife
  <2>1. UNCHANGED <<batches, paid>>
    BY <1>1 DEF Bond, BondLsm, Pause, Unpause, ResetBondedAmount, SetNonNativeRewardsReceivers,
                Hook, HookSuccess, HookError, HookErrorRefused, IcqUpdate, AdvanceTime, vars,
                batching, history
  <2> QED BY <2>1, LifeStands
<1> QED BY <1>1, OneCollects, TicksLive, UnbondingLive, PayLive DEF Next, Tick

(* The phases of a batch, along its life: what is pumped stays pumped, with the
   payout it got, and it was released from matured funds. *)
LEMMA PhasesKept ==
  ASSUME TypeOK, Ledger, StepOfLife
  PROVE  /\ PhasesAreDated'
         /\ \A b \in BatchId :
              /\ batches[b].status \in Rescued => batches'[b].status \in Rescued
              /\ batches[b].status \in Pumped =>
                   /\ batches'[b].status \in Pumped
                   /\ batches'[b].release = batches[b].release
                   /\ batches'[b].unbonded = batches[b].unbonded
                   /\ batches'[b].expected = batches[b].expected
              /\ batches[b].status \in Rescued => batches'[b].release = batches[b].release
              /\ /\ batches[b].status \notin Pumped \cup Rescued
                 /\ batches'[b].status \in Pumped \cup Rescued
                 => /\ batches'[b].release = batches[b].release
                    /\ 0 < batches[b].release /\ batches[b].release < icaQuery.at
<1> DEFINE Kept(b) ==
      /\ batches'[b].status \in Early <=> batches'[b].release = 0
      /\ batches'[b].status \in Pumped <=> batches'[b].unbonded # NoAmount
      /\ batches[b].status \in Rescued => batches'[b].status \in Rescued
      /\ batches[b].status \in Pumped =>
           /\ batches'[b].status \in Pumped
           /\ batches'[b].release = batches[b].release
           /\ batches'[b].unbonded = batches[b].unbonded
           /\ batches'[b].expected = batches[b].expected
      /\ batches[b].status \in Rescued => batches'[b].release = batches[b].release
      /\ /\ batches[b].status \notin Pumped \cup Rescued
         /\ batches'[b].status \in Pumped \cup Rescued
         => /\ batches'[b].release = batches[b].release
            /\ 0 < batches[b].release /\ batches[b].release < icaQuery.at
<1>1. ASSUME NEW b \in BatchId
      PROVE  Kept(b)
  <2>1. /\ batches[b].release \in Nat /\ batches[b].expected \in Nat
        /\ batches[b].status \in Early <=> batches[b].release = 0
        /\ batches[b].status \in Pumped <=> batches[b].unbonded # NoAmount
        /\ batches[b].status = "Unbonding" /\ batches'[b].status # "Unbonding"
             => batches[b].release < icaQuery.at
    BY DEF TypeOK, Batches, Ledger, PhasesAreDated, StepOfLife, ReleasedMature
  <2> USE DEF Early, Pumped, Rescued
  <2>2. CASE Life(b)!Open \/ Life(b)!Collect \/ Life(b)!Request \/ Life(b)!Fail
    BY <2>1, <2>2 DEF Life!Open, Life!Collect, Life!Request, Life!Fail, Life!Move
  <2>3. CASE Life(b)!Mature
    BY <2>1, <2>3 DEF Life!Mature, Life!Move
  <2>4. CASE Life(b)!Release
    <3>1. /\ batches[b].status = "Unbonding" /\ batches'[b].status = "Withdrawing"
          /\ batches'[b].unbonded \in 0..batches[b].expected
          /\ batches'[b].release = batches[b].release
      BY <2>4 DEF Life!Release, Life!Move
    <3>2. batches'[b].unbonded # NoAmount
      BY <2>1, <3>1 DEF NoAmount
    <3> QED BY <2>1, <3>1, <3>2
  <2>5. CASE Life(b)!ReleaseEmergency
    BY <2>1, <2>5 DEF Life!ReleaseEmergency, Life!Move
  <2>6. CASE Life(b)!Pay
    BY <2>1, <2>6 DEF Life!Pay, Life!amounts
  <2>7. CASE Life(b)!Settle
    BY <2>1, <2>7 DEF Life!Settle, Life!Move, Life!amounts
  <2>8. CASE UNCHANGED Life(b)!vars
    BY <2>1, <2>8 DEF Life!vars, Life!amounts
  <2>9. [Life(b)!Next]_(Life(b)!vars)
    BY DEF StepOfLife, LifeStep
  <2> QED BY <2>2, <2>3, <2>4, <2>5, <2>6, <2>7, <2>8, <2>9 DEF Life!Next
<1> QED BY <1>1 DEF PhasesAreDated

(* What a step does to the clock, the query and the answer. *)
LEMMA ClockSteps ==
  ASSUME TypeOK, Ledger, [Next]_vars
  PROVE  /\ ClockRuns'
         /\ icaQuery.at <= icaQuery'.at
         /\ \/ lastResponse' \in {lastResponse, NoResponse}
            \/ stage # "idle" /\ \E ok \in BOOLEAN : lastResponse' = [ok |-> ok, tx |-> tx]
<1>1. now \in Nat /\ icaQuery.at \in Nat /\ 0 < now /\ icaQuery.at <= now
  BY DEF TypeOK, Ledger, ClockRuns
<1>2. ASSUME NEW balance \in Balances, NEW delay \in Delays, IcqUpdate(balance, delay)
      PROVE  now' = now /\ icaQuery'.at = now /\ lastResponse' = lastResponse
  BY <1>2 DEF IcqUpdate, clocks
<1>3. ASSUME AdvanceTime
      PROVE  now' = now + 1 /\ UNCHANGED <<icaQuery, lastResponse>>
  BY <1>3 DEF AdvanceTime
<1>4. ASSUME Tick \/ Hook
      PROVE  /\ UNCHANGED <<now, icaQuery>>
             /\ \/ lastResponse' \in {lastResponse, NoResponse}
                \/ stage # "idle" /\ \E ok \in BOOLEAN : lastResponse' = [ok |-> ok, tx |-> tx]
  BY <1>4 DEF Tick, TickIdleShort, TickIdleLong, TickClaiming, TickTransfering, TickStaking,
              TickUnbonding, Hook, HookSuccess, HookError, HookErrorRefused, clocks, P!Answer
<1>5. ASSUME \/ \E amount \in BondAmounts : Bond(amount)
             \/ \E d \in Denom, amount \in LsmAmounts : BondLsm(d, amount)
             \/ \E amount \in UnbondAmounts, expected \in ExpectedAmounts : Unbond(amount, expected)
             \/ Pause \/ Unpause \/ ResetBondedAmount \/ SetNonNativeRewardsReceivers
             \/ RemoteExecute
             \/ UNCHANGED vars
      PROVE  UNCHANGED <<now, icaQuery, lastResponse>>
  BY <1>5 DEF Bond, BondLsm, Unbond, Pause, Unpause, ResetBondedAmount,
              SetNonNativeRewardsReceivers, RemoteExecute, clocks, vars
<1>6. \/ now' = now /\ icaQuery' = icaQuery
      \/ now' = now /\ icaQuery'.at = now
      \/ now' = now + 1 /\ icaQuery' = icaQuery
  BY <1>2, <1>3, <1>4, <1>5 DEF Next
<1>7. ClockRuns' /\ icaQuery.at <= icaQuery'.at
  BY <1>1, <1>6 DEF ClockRuns
<1> QED BY <1>2, <1>3, <1>4, <1>5, <1>7 DEF Next

(* What a step does to the register: a claim is sent for the batches released. *)
LEMMA RegisterSteps ==
  ASSUME TypeOK, [Next]_vars
  PROVE  \/ stage' = "idle"
         \/ stage # "idle" /\ tx' = tx
         \/ tx'.kind # "Claim"
         \/ /\ tx' = ClaimAndTransfer(MaturedBatches)
            /\ ClaimFromValidators(MaturedBatches)
            /\ \E claimable \in Claimable : TickIdleLong(claimable)
<1>1. ASSUME \/ \E claimable \in Claimable : TickIdleLong(claimable)
             \/ TickClaiming \/ TickTransfering \/ TickStaking \/ TickUnbonding
      PROVE  \/ UNCHANGED <<tx, stage>>
             \/ tx'.kind # "Claim"
             \/ /\ tx' = ClaimAndTransfer(MaturedBatches)
                /\ ClaimFromValidators(MaturedBatches)
                /\ \E claimable \in Claimable : TickIdleLong(claimable)
  BY <1>1, TickSends
<1>2. ASSUME NEW due \in RewardsDue, TickIdleShort(due)
      PROVE  tx'.kind # "Claim"
  BY <1>2, ShortFacts
<1>3. ASSUME \/ \E amount \in BondAmounts : Bond(amount)
             \/ \E d \in Denom, amount \in LsmAmounts : BondLsm(d, amount)
             \/ \E amount \in UnbondAmounts, expected \in ExpectedAmounts : Unbond(amount, expected)
             \/ Pause \/ Unpause \/ ResetBondedAmount \/ SetNonNativeRewardsReceivers
             \/ Hook \/ RemoteExecute
             \/ \E balance \in Balances, delay \in Delays : IcqUpdate(balance, delay)
             \/ AdvanceTime
             \/ UNCHANGED vars
      PROVE  UNCHANGED <<tx, stage>> \/ stage' = "idle" \/ (stage # "idle" /\ tx' = tx)
  BY <1>3 DEF Bond, BondLsm, Unbond, Pause, Unpause, ResetBondedAmount,
              SetNonNativeRewardsReceivers, RemoteExecute, IcqUpdate, AdvanceTime, vars,
              puppeteer, Hook, HookSuccess, HookError, HookErrorRefused, P!Answer, P!Lose,
              P!RemoteExecute
<1> QED BY <1>1, <1>2, <1>3 DEF Next, Tick

(* Every step keeps the ledger. *)
LEMMA NextLedger ==
  ASSUME IInv, IInv', Ledger, [Next]_vars
  PROVE  Ledger'
<1>0. /\ TypeOK /\ TypeOK' /\ StepOfLife
      /\ \A b \in BatchId : batches[b].release \in Nat
      /\ icaQuery.at \in Nat /\ icaQuery'.at \in Nat /\ icaQuery.at <= icaQuery'.at
  BY NextLife, ClockSteps DEF IInv, TypeOK, Batches
<1>1. ClockRuns' /\ PhasesAreDated'
  BY <1>0, PhasesKept, ClockSteps
<1>2. PayoutsAreDated'
  <2>1. ASSUME NEW b \in BatchId, batches'[b].status \in Pumped \cup Rescued
        PROVE  0 < batches'[b].release /\ batches'[b].release < icaQuery'.at
    <3>1. /\ batches'[b].release = batches[b].release
          /\ 0 < batches[b].release /\ batches[b].release < icaQuery.at
      BY <1>0, <2>1, PhasesKept DEF Ledger, PayoutsAreDated
    <3> QED BY <1>0, <3>1
  <2> QED BY <2>1 DEF PayoutsAreDated
<1>3. ASSUME NEW t \in Txs, RightKind(t)
      PROVE  RightKind(t)'
  <2>1. t.ids \subseteq BatchId
    BY DEF Txs
  <2> QED BY <1>0, <1>3, <2>1, PhasesKept DEF RightKind
<1>4. ASSUME Outstanding({"Claim"})'
      PROVE  RightKind(tx)'
  <2>1. stage' # "idle" /\ tx'.kind = "Claim"
    BY <1>4 DEF Outstanding
  <2>2. CASE stage # "idle" /\ tx' = tx
    <3>1. tx \in Txs /\ RightKind(tx)
      BY <1>0, <2>1, <2>2 DEF TypeOK, P!TypeOK, Ledger, ClaimsOfOneKind, Outstanding
    <3>2. \A t \in Txs : RightKind(t) => RightKind(t)'
      BY <1>3
    <3> QED BY <2>2, <3>1, <3>2 DEF RightKind
  <2>3. CASE /\ tx' = ClaimAndTransfer(MaturedBatches)
             /\ ClaimFromValidators(MaturedBatches)
             /\ \E claimable \in Claimable : TickIdleLong(claimable)
    <3> DEFINE S == MaturedBatches
    <3>1. S \in SUBSET BatchId /\ ExpectedOf(S) \in 0..MaxAmount
      BY <2>3 DEF TickIdleLong, MaturedBatches
    <3>2. tx'.ids = S /\ tx'.emergency = IsEmergency(S)
      <4>1. ClaimAndTransfer(S).ids = S /\ ClaimAndTransfer(S) \in Txs
        BY <1>0, <3>1, ClaimType
      <4>2. ClaimAndTransfer(S).emergency = IsEmergency(S)
        BY DEF ClaimAndTransfer, PlainTx
      <4> QED BY <2>3, <4>1, <4>2
    <3>3. batches' = Released(S)
      BY <2>3 DEF ClaimFromValidators
    <3>4. \A b \in S :
            batches'[b].status = IF IsEmergency(S) THEN "WithdrawingEmergency" ELSE "Withdrawing"
      BY <1>0, <3>1, <3>3, ReleasedStatus
    <3> HIDE DEF S
    <3> QED BY <3>1, <3>2, <3>4 DEF RightKind, Rescued, Pumped
  <2> QED BY <1>0, <2>1, <2>2, <2>3, RegisterSteps
<1>5. ASSUME AnsweredAs({"Claim"})'
      PROVE  RightKind(lastResponse.tx)'
  <2>1. lastResponse' # NoResponse /\ lastResponse'.tx.kind = "Claim"
    BY <1>5 DEF AnsweredAs, Responded
  <2>2. \A t \in Txs : RightKind(t) => RightKind(t)'
    BY <1>3
  <2>3. CASE lastResponse' = lastResponse
    <3>1. lastResponse.tx \in Txs /\ RightKind(lastResponse.tx)
      BY <1>0, <2>1, <2>3 DEF TypeOK, Responses, Ledger, ClaimsOfOneKind, AnsweredAs, Responded
    <3> QED BY <2>2, <2>3, <3>1 DEF RightKind
  <2>4. CASE stage # "idle" /\ lastResponse'.tx = tx
    <3>1. tx \in Txs /\ RightKind(tx)
      BY <1>0, <2>1, <2>4 DEF TypeOK, P!TypeOK, Ledger, ClaimsOfOneKind, Outstanding
    <3> QED BY <2>2, <2>4, <3>1 DEF RightKind
  <2> QED BY <1>0, <2>1, <2>3, <2>4, ClockSteps
<1> QED BY <1>1, <1>2, <1>4, <1>5 DEF Ledger, ClaimsOfOneKind

(* The ledger holds in every state. *)
LEMMA LedgerAlways == Spec => []Ledger
<1>1. Init => Ledger
  BY InitLedger
<1>2. IInv /\ IInv' /\ Ledger /\ [Next]_vars => Ledger'
  BY NextLedger
<1> QED BY <1>1, <1>2, Invariance, PTL DEF Spec

(* Core implements BatchLife for every batch: a new batch starts its life, and every
   step of the contract is a step of the life of each batch, or leaves it alone. *)
THEOREM EachBatchLives == Spec => BatchesKeepLife
<1>1. ASSUME Init, NEW b \in BatchId
      PROVE  Life(b)!Init
  <2>1. batches[b] = IF b = 0 THEN NewBatch ELSE AbsentBatch
    BY <1>1 DEF Init
  <2>2. paid[b] = 0
    BY <1>1 DEF Init
  <2>3. /\ batches[b].status \in {"New", "Absent"}
        /\ batches[b].items = 0 /\ batches[b].total = 0 /\ batches[b].expected = 0
        /\ batches[b].release = 0 /\ batches[b].unbonded = NoAmount
    BY <2>1 DEF NewBatch, AbsentBatch
  <2> QED BY <2>2, <2>3 DEF Life!Init, Life!Empty
<1>2. IInv /\ Ledger /\ [Next]_vars => LifeStep
  BY NextLife DEF StepOfLife
<1>3. IInv /\ Ledger /\ [Next]_vars => [LifeStep]_vars
  BY <1>2
<1>4. Init => \A b \in BatchId : Life(b)!Init
  BY <1>1
<1> QED BY <1>3, <1>4, Invariance, LedgerAlways, PTL DEF Spec, BatchesKeepLife

-----------------------------------------------------------------------------
(***************************************************************************)
(* When the funds of a batch mature                                        *)
(*                                                                         *)
(* The remote chain has undelegated for a batch before the answer says so, *)
(* and the tick that reads the answer dates the release: so it is never    *)
(* dated before the funds mature.                                          *)
(***************************************************************************)

Undelegated(ids) == \A b \in ids : 0 < matures[b] /\ matures[b] <= now + UnbondingPeriod

Maturing ==
  /\ stage = "executed" /\ tx.kind = "Undelegate" => Undelegated(tx.ids)
  /\ AnsweredAs({"Undelegate"}) /\ lastResponse.ok => Undelegated(lastResponse.tx.ids)
  /\ \A b \in BatchId : batches[b].release > 0 => 0 < matures[b] /\ matures[b] <= batches[b].release

LEMMA InitMaturing ==
  ASSUME Init
  PROVE  Maturing
<1>1. \A b \in BatchId : batches[b].release = 0
  BY DEF Init, NewBatch, AbsentBatch
<1> QED BY <1>1 DEF Init, P!Init, Maturing, AnsweredAs, Responded

(* Only the tick of Unbonding dates a batch, as soon as it reads that the undelegation
   succeeded. *)
LEMMA DatedByTick ==
  ASSUME IInv, Ledger, [Next]_vars, NEW b \in BatchId, batches'[b].release # batches[b].release
  PROVE  /\ AnsweredAs({"Undelegate"}) /\ lastResponse.ok /\ b \in lastResponse.tx.ids
         /\ batches'[b].release = now + UnbondingPeriod
         /\ now' = now /\ matures' = matures
<1>1. LifeStep
  BY NextLife DEF StepOfLife
<1>2. Life(b)!Mature
  BY <1>1 DEF LifeStep, Life!Next, Life!vars, Life!Open, Life!Collect, Life!Request, Life!Fail,
              Life!Release, Life!ReleaseEmergency, Life!Pay, Life!Settle
<1>3. batches[b].status = "UnbondRequested" /\ fsm = "Unbonding"
  BY <1>2 DEF Life!Mature, Life!Move, IInv, Batching, RequestedIsUnderWay
<1>4. batches \in BatchMaps
  BY DEF IInv, TypeOK, BatchMaps
<1>5. ASSUME NEW amount \in UnbondAmounts, NEW expected \in ExpectedAmounts, Unbond(amount, expected)
      PROVE  FALSE
  <2>1. unbondBatchId # b
    BY <1>3 DEF IInv, Batching, FrontierIsOpen
  <2>2. batches'[b] = batches[b]
    BY <1>4, <1>5, <2>1 DEF Unbond, BatchMaps
  <2> QED BY <2>2
<1>6. TickUnbonding
  <2>1. batches' # batches
    OBVIOUS
  <2> QED BY <1>3, <1>5, <2>1 DEF Next, vars, batching, Tick, TickIdleShort, TickIdleLong, TickClaiming,
             TickTransfering, TickStaking, TickWorking, Bond, BondLsm, Hook, HookSuccess, HookError,
             HookErrorRefused, Pause, Unpause, ResetBondedAmount, SetNonNativeRewardsReceivers,
             RemoteExecute, IcqUpdate, AdvanceTime
<1>7. AnsweredAs({"Undelegate"}) /\ now' = now /\ matures' = matures
  BY <1>6 DEF TickUnbonding, TickWorking, AnsweredAs, clocks, history
<1>8. PICK c \in lastResponse.tx.ids :
        \/ /\ lastResponse.ok
           /\ batches' = [batches EXCEPT ![c].status = "Unbonding",
                                         ![c].release = now + UnbondingPeriod]
        \/ batches' = [batches EXCEPT ![c].status = "UnbondFailed"]
  BY <1>6 DEF TickUnbonding
<1>9. c \in BatchId
  BY <1>7, IdsAreBatches DEF IInv, AnsweredAs
<1>10. batches[c] \in Batches
  BY <1>4, <1>9 DEF BatchMaps
<1>11. CASE batches' = [batches EXCEPT ![c].status = "UnbondFailed"]
  <2>1. \A d \in BatchId : batches'[d] =
          IF d = c THEN [batches[c] EXCEPT !.status = "UnbondFailed"] ELSE batches[d]
    BY <1>4, <1>11 DEF BatchMaps
  <2> QED BY <1>10, <2>1 DEF Batches
<1>12. CASE /\ lastResponse.ok
            /\ batches' = [batches EXCEPT ![c].status = "Unbonding", ![c].release = now + UnbondingPeriod]
  <2>1. \A d \in BatchId : batches'[d] =
          IF d = c THEN [batches[c] EXCEPT !.status = "Unbonding", !.release = now + UnbondingPeriod]
                   ELSE batches[d]
    BY <1>4, <1>12 DEF BatchMaps
  <2>2. b = c
    BY <2>1
  <2> DEFINE at == now + UnbondingPeriod
  <2>3. batches'[b] = [batches[b] EXCEPT !.status = "Unbonding", !.release = at]
    BY <2>1, <2>2
  <2> HIDE DEF at
  <2>4. batches'[b].release = at
    BY <1>10, <2>2, <2>3 DEF Batches
  <2> QED BY <1>7, <1>12, <2>2, <2>4 DEF at
<1> QED BY <1>8, <1>11, <1>12

(* The remote chain undelegates for a batch that is not dated yet. *)
LEMMA ExecuteMaturing ==
  ASSUME IInv, Ledger, Maturing, RemoteExecute
  PROVE  Maturing'
<1>1. /\ stage = "sent" /\ UNCHANGED <<tx, lastResponse, batches, now>>
      /\ tx.ids \subseteq BatchId /\ now \in Nat /\ 0 < now /\ UnbondingPeriod \in Nat
  BY IdsAreBatches, CoreAssumption DEF RemoteExecute, P!RemoteExecute, batching, clocks, Ledger, ClockRuns,
     IInv, TypeOK
<1>2. \A b \in BatchId : matures'[b] =
        IF tx.kind = "Undelegate" /\ b \in tx.ids THEN now + UnbondingPeriod ELSE matures[b]
  BY DEF RemoteExecute
<1>3. \A ids \in SUBSET BatchId : Undelegated(ids) => Undelegated(ids)'
  BY <1>1, <1>2 DEF Undelegated
<1>4. tx.kind = "Undelegate" => Undelegated(tx.ids)'
  BY <1>1, <1>2 DEF Undelegated
<1>5. ASSUME AnsweredAs({"Undelegate"}), lastResponse.ok
      PROVE  Undelegated(lastResponse.tx.ids)'
  <2>1. lastResponse.tx.ids \in SUBSET BatchId
    BY <1>5, IdsAreBatches DEF IInv, AnsweredAs
  <2>2. Undelegated(lastResponse.tx.ids)
    BY <1>5 DEF Maturing
  <2>3. \A b \in lastResponse.tx.ids : 0 < matures'[b] /\ matures'[b] <= now' + UnbondingPeriod
    BY <1>1, <1>3, <2>1, <2>2 DEF Undelegated
  <2> QED BY <1>1, <2>3 DEF Undelegated
<1>6. ASSUME NEW b \in BatchId, batches[b].release > 0
      PROVE  0 < matures'[b] /\ matures'[b] <= batches[b].release
  <2>1. ~(tx.kind = "Undelegate" /\ b \in tx.ids)
    <3>1. SUFFICES ASSUME tx.kind = "Undelegate", b \in tx.ids PROVE FALSE
      OBVIOUS
    <3>2. batches[b].status = "UnbondRequested"
      BY <1>1, <3>1 DEF IInv, Batching, UndelegateIsRequested, Outstanding
    <3> QED BY <1>6, <3>2 DEF Ledger, PhasesAreDated, Early
  <2> QED BY <1>2, <1>6, <2>1 DEF Maturing
<1>7. \A b \in BatchId : batches'[b].release > 0 => 0 < matures'[b] /\ matures'[b] <= batches'[b].release
  BY <1>1, <1>6
<1>8. AnsweredAs({"Undelegate"})' /\ lastResponse'.ok => Undelegated(lastResponse.tx.ids)'
  BY <1>1, <1>5 DEF AnsweredAs, Responded
<1>9. (tx.kind = "Undelegate" => Undelegated(tx.ids)') /\ tx' = tx /\ lastResponse' = lastResponse
  BY <1>1, <1>4
<1> QED BY <1>7, <1>8, <1>9 DEF Maturing, Undelegated

(* Every other step leaves what matures alone, and dates a batch by an answer. *)
LEMMA OthersMaturing ==
  ASSUME IInv, Ledger, Maturing, [Next]_vars, ~RemoteExecute
  PROVE  Maturing'
<1>1. /\ matures \in [BatchId -> Nat] /\ now \in Nat /\ UnbondingPeriod \in Nat
      /\ \A b \in BatchId : batches[b].release \in Nat
  BY CoreAssumption DEF IInv, TypeOK, Batches
<1>2. ASSUME Tick \/ Hook
      PROVE  /\ matures' = matures /\ now' = now
             /\ stage' = "executed" => stage = "executed" /\ tx' = tx
             /\ \/ lastResponse' \in {lastResponse, NoResponse}
                \/ stage = "executed" /\ lastResponse' = [ok |-> TRUE, tx |-> tx]
                \/ lastResponse' = [ok |-> FALSE, tx |-> tx]
  <2>1. CASE Hook
    BY <2>1 DEF Hook, HookSuccess, HookError, HookErrorRefused, P!Answer, P!Lose, history, clocks
  <2>2. CASE Tick
    <3>1. matures' = matures /\ now' = now /\ lastResponse' \in {lastResponse, NoResponse}
      BY <2>2 DEF Tick, TickIdleShort, TickIdleLong, TickClaiming, TickTransfering, TickStaking,
                  TickUnbonding, history, clocks
    <3>2. stage' = "sent" \/ UNCHANGED <<tx, stage>>
      BY <2>2, TickSends, ShortFacts DEF IInv, Tick
    <3> QED BY <3>1, <3>2
  <2> QED BY <1>2, <2>1, <2>2
<1>3. ASSUME \/ \E amount \in BondAmounts : Bond(amount)
             \/ \E d \in Denom, amount \in LsmAmounts : BondLsm(d, amount)
             \/ \E amount \in UnbondAmounts, expected \in ExpectedAmounts : Unbond(amount, expected)
             \/ Pause \/ Unpause \/ ResetBondedAmount \/ SetNonNativeRewardsReceivers
             \/ \E balance \in Balances, delay \in Delays : IcqUpdate(balance, delay)
             \/ AdvanceTime
             \/ UNCHANGED vars
      PROVE  UNCHANGED <<matures, tx, stage, lastResponse>> /\ (now' = now \/ now' = now + 1)
  BY <1>3 DEF Bond, BondLsm, Unbond, Pause, Unpause, ResetBondedAmount,
              SetNonNativeRewardsReceivers, IcqUpdate, AdvanceTime, clocks, vars, history, puppeteer
<1>4. /\ matures' = matures /\ (now' = now \/ now' = now + 1)
      /\ stage' = "executed" => stage = "executed" /\ tx' = tx
      /\ \/ lastResponse' \in {lastResponse, NoResponse}
         \/ stage = "executed" /\ lastResponse' = [ok |-> TRUE, tx |-> tx]
         \/ lastResponse' = [ok |-> FALSE, tx |-> tx]
  BY <1>2, <1>3 DEF Next
<1>5. \A ids \in SUBSET BatchId : Undelegated(ids) =>
        \A b \in ids : 0 < matures'[b] /\ matures'[b] <= now' + UnbondingPeriod
  BY <1>1, <1>4 DEF Undelegated
<1>6. ASSUME stage' = "executed", tx'.kind = "Undelegate"
      PROVE  \A b \in tx'.ids : 0 < matures'[b] /\ matures'[b] <= now' + UnbondingPeriod
  <2>1. tx' = tx /\ stage = "executed" /\ tx.ids \in SUBSET BatchId
    BY <1>4, <1>6, IdsAreBatches DEF IInv
  <2>2. Undelegated(tx.ids)
    BY <1>6, <2>1 DEF Maturing
  <2> QED BY <1>5, <2>1, <2>2
<1>7. ASSUME AnsweredAs({"Undelegate"})', lastResponse'.ok
      PROVE  \A b \in lastResponse'.tx.ids : 0 < matures'[b] /\ matures'[b] <= now' + UnbondingPeriod
  <2>1. lastResponse' # NoResponse /\ lastResponse'.tx.kind = "Undelegate"
    BY <1>7 DEF AnsweredAs, Responded
  <2>2. CASE lastResponse' = lastResponse
    <3>1. AnsweredAs({"Undelegate"}) /\ lastResponse.ok
      BY <1>7, <2>1, <2>2 DEF AnsweredAs, Responded
    <3>2. Undelegated(lastResponse.tx.ids) /\ lastResponse.tx.ids \in SUBSET BatchId
      BY <3>1, IdsAreBatches DEF IInv, Maturing, AnsweredAs
    <3> QED BY <1>5, <2>2, <3>2
  <2>3. CASE stage = "executed" /\ lastResponse' = [ok |-> TRUE, tx |-> tx]
    <3>1. Undelegated(tx.ids) /\ tx.ids \in SUBSET BatchId
      BY <2>1, <2>3, IdsAreBatches DEF IInv, Maturing
    <3> QED BY <1>5, <2>3, <3>1
  <2> QED BY <1>4, <1>7, <2>1, <2>2, <2>3
<1>8. ASSUME NEW b \in BatchId, batches'[b].release > 0
      PROVE  0 < matures'[b] /\ matures'[b] <= batches'[b].release
  <2>1. CASE batches'[b].release = batches[b].release
    BY <1>4, <1>8, <2>1 DEF Maturing
  <2>2. CASE batches'[b].release # batches[b].release
    <3>1. /\ AnsweredAs({"Undelegate"}) /\ lastResponse.ok /\ b \in lastResponse.tx.ids
          /\ batches'[b].release = now + UnbondingPeriod
      BY <2>2, DatedByTick
    <3> QED BY <1>4, <3>1 DEF Maturing, Undelegated
  <2> QED BY <2>1, <2>2
<1> QED BY <1>6, <1>7, <1>8 DEF Maturing, Undelegated

LEMMA MaturingAlways == Spec => []Maturing
<1>1. Init => Maturing
  BY InitMaturing
<1>2. IInv /\ Ledger /\ Maturing /\ [Next]_vars => Maturing'
  BY ExecuteMaturing, OthersMaturing
<1> QED BY <1>1, <1>2, Invariance, LedgerAlways, PTL DEF Spec

(* A batch is paid out only when the remote chain has released its funds: its release was
   dated after they were undelegated, and both the clock and the query waited for it. *)
THEOREM PaidAfterMaturityAlways == Spec => []PaidAfterMaturity
<1>1. IInv /\ Ledger /\ Maturing => PaidAfterMaturity
  <2> SUFFICES ASSUME IInv, Ledger, Maturing, NEW b \in BatchId, batches[b].status \in Pumped \cup Rescued
               PROVE  0 < matures[b] /\ matures[b] < now
    BY DEF PaidAfterMaturity, Pumped, Rescued
  <2>1. 0 < batches[b].release /\ batches[b].release < icaQuery.at
    BY DEF Ledger, PayoutsAreDated
  <2>2. 0 < matures[b] /\ matures[b] <= batches[b].release
    BY <2>1 DEF Maturing
  <2>3. /\ now \in Nat /\ icaQuery.at \in Nat /\ matures[b] \in Nat /\ batches[b].release \in Nat
        /\ icaQuery.at <= now
    BY DEF IInv, TypeOK, Batches, Ledger, ClockRuns
  <2> QED BY <2>1, <2>2, <2>3
<1> QED BY <1>1, Invariance, LedgerAlways, MaturingAlways, PTL

-----------------------------------------------------------------------------
(***************************************************************************)
(* Amounts: what waits for its undelegation, and what was sent to the pump *)
(***************************************************************************)

(* In Idle, the three places query_exchange_rate looks in are all the batches that
   wait for their undelegation, none of them twice: no batch is requested, only the
   open one is new, and only the failed one failed. *)
THEOREM UnprocessedCountedOnceAlways == Spec => []UnprocessedCountedOnce
<1>1. ASSUME IInv, fsm = "Idle"
      PROVE  UnprocessedFound = SumFunctionOnSet([b \in BatchId |-> batches[b].total],
        {b \in BatchId : batches[b].status \in {"New", "UnbondRequested", "UnbondFailed"}})
  <2> USE <1>1
  <2> DEFINE u == unbondBatchId  v == failedBatchId
             f == [b \in BatchId |-> batches[b].total]
             W == {b \in BatchId : batches[b].status \in {"New", "UnbondRequested", "UnbondFailed"}}
  <2>1. /\ u \in BatchId /\ v \in BatchId \cup {NoBatch} /\ NoBatch \notin BatchId
        /\ \A b \in BatchId : b \in Nat /\ f[b] = batches[b].total /\ f[b] \in Nat
    <3>1. ASSUME NEW b \in BatchId
          PROVE  b \in Nat /\ f[b] = batches[b].total /\ f[b] \in Nat
      <4>1. batches[b] \in Batches
        BY DEF IInv, TypeOK
      <4> QED BY <4>1 DEF Batches, BatchId
    <3>2. u \in BatchId /\ v \in BatchId \cup {NoBatch} /\ NoBatch \notin BatchId
      BY CoreAssumption DEF IInv, TypeOK
    <3> HIDE DEF f
    <3> QED BY <3>1, <3>2
  <2>2. \A b \in BatchId : batches[b].status # "UnbondRequested"
    BY UnbondingIsUndelegating
  <2>3. AbsentBatch.status = "Absent"
    BY DEF AbsentBatch
  <2>4. /\ batches[u].status = "New"
        /\ \A b \in BatchId : /\ batches[b].status = "New" => b = u
                              /\ batches[b].status = "UnbondFailed" => v = b
        /\ v # NoBatch => v # u /\ batches[v].status = "UnbondFailed"
    BY <2>1, <2>2, <2>3 DEF IInv, Batching, FrontierIsOpen
  <2>5. u > 0 => u - 1 \in BatchId
    BY <2>1, CoreAssumption DEF BatchId
  <2>6. UnprocessedFound = f[u] + IF v # NoBatch THEN f[v] ELSE 0
    <3>1. UnprocessedFound = batches[u].total + 0
                               + IF v # NoBatch THEN batches[v].total ELSE 0
      BY <2>2, <2>4, <2>5 DEF UnprocessedFound
    <3> QED BY <2>1, <3>1
  <2>7. f[u] \in Int /\ (v # NoBatch => f[v] \in Int)
    BY <2>1
  <2> HIDE DEF f
  <2>8. CASE v = NoBatch
    <3>1. W = {u}
      BY <2>1, <2>2, <2>4, <2>8
    <3> QED BY <2>6, <2>8, <2>7, <3>1, SumOfOne DEF f
  <2>9. CASE v # NoBatch
    <3>1. W = {u} \cup {v}
      BY <2>1, <2>2, <2>4, <2>9
    <3> DEFINE U == {u}
    <3>2. IsFiniteSet(U)
      BY FS_Singleton
    <3>3. SumFunctionOnSet(f, U) = f[u]
      BY <2>7, SumOfOne
    <3>4. v \notin U /\ \A x \in U \cup {v} : f[x] \in Int
      BY <2>4, <2>9, <2>7
    <3> HIDE DEF U
    <3>5. SumFunctionOnSet(f, U \cup {v}) = SumFunctionOnSet(f, U) + f[v]
      BY <3>2, <3>4, SumInsert
    <3> QED BY <2>6, <2>9, <3>1, <3>3, <3>5 DEF f, U
  <2> QED BY <2>8, <2>9
<1>2. IInv => UnprocessedCountedOnce
  BY <1>1 DEF UnprocessedCountedOnce
<1> QED BY <1>2, Invariance, PTL

(* PumpedCoversWithdrawn is not inductive: a batch is paid by the remote chain long
   before the contract calls it withdrawn.  So the payouts are counted from the
   transfer on (PumpCovers), and until then the claim that will transfer them is
   worth at least as much (ClaimCovers). *)
Payouts == [b \in BatchId |-> batches[b].unbonded]
PaidOut == {b \in BatchId : paid[b] = 1 /\ batches[b].status \in Pumped}

PumpCovers == SumFunctionOnSet(Payouts, PaidOut) <= pumped
ClaimCovers ==
  Outstanding({"Claim"}) /\ ~tx.emergency => SumFunctionOnSet(Payouts, tx.ids) <= tx.amount

(* The payout of a batch that is pumped is an amount, and stays it. *)
LEMMA PayoutsStand ==
  ASSUME IInv, IInv', Ledger, StepOfLife
  PROVE  \A b \in BatchId : batches[b].status \in Pumped =>
           Payouts[b] \in Nat /\ Payouts'[b] = Payouts[b] /\ batches'[b].status \in Pumped
<1>1. ASSUME NEW b \in BatchId, batches[b].status \in Pumped
      PROVE  /\ batches[b].unbonded \in Nat /\ batches'[b].unbonded = batches[b].unbonded
             /\ batches'[b].status \in Pumped
  <2>1. batches[b] \in Batches /\ batches[b].unbonded # NoAmount
    BY <1>1 DEF IInv, TypeOK, Ledger, PhasesAreDated
  <2> QED BY <1>1, <2>1, PhasesKept DEF IInv, Batches
<1> QED BY <1>1 DEF Payouts

(* Sets of batches are finite. *)
LEMMA FiniteBatches ==
  ASSUME NEW S \in SUBSET BatchId
  PROVE  IsFiniteSet(S)
BY Finite, FS_Subset

(* The pump keeps covering what was paid out, when nothing is paid. *)
LEMMA PumpStands ==
  ASSUME IInv, IInv', Ledger, StepOfLife, PumpCovers,
         UNCHANGED pumped, UNCHANGED paid
  PROVE  PumpCovers'
<1>1. ASSUME NEW b \in BatchId, paid[b] = 1
      PROVE  batches'[b].status \in Pumped <=> batches[b].status \in Pumped
  <2>1. batches[b].status \in Pumped \cup Rescued
    BY <1>1 DEF IInv, Payments, WithdrawnIsPaid, Pumped, Rescued
  <2>2. batches[b].status \in Rescued => batches'[b].status \in Rescued
    BY PhasesKept DEF IInv
  <2>3. batches[b].status \in Pumped => batches'[b].status \in Pumped
    BY PhasesKept DEF IInv
  <2>4. Pumped \cap Rescued = {}
    BY DEF Pumped, Rescued
  <2> QED BY <2>1, <2>2, <2>3, <2>4
<1>2. PaidOut' = PaidOut
  BY <1>1 DEF PaidOut
<1>3. IsFiniteSet(PaidOut) /\ \A b \in PaidOut : Payouts[b] \in Int /\ Payouts'[b] = Payouts[b]
  BY PayoutsStand, FiniteBatches DEF PaidOut
<1>4. SumFunctionOnSet(Payouts', PaidOut) = SumFunctionOnSet(Payouts, PaidOut)
  BY <1>3, SumMonotone
<1> QED BY <1>2, <1>4 DEF PumpCovers

(* When the remote chain performs a claim, its amount covers what it pays. *)
LEMMA ExecutePumps ==
  ASSUME IInv, IInv', Ledger, PumpCovers, ClaimCovers, RemoteExecute
  PROVE  PumpCovers'
<1>1. /\ stage = "sent" /\ UNCHANGED batches /\ tx \in Txs /\ tx.ids \subseteq BatchId
      /\ tx.amount \in Nat /\ pumped \in Nat
  BY IdsAreBatches DEF RemoteExecute, P!RemoteExecute, batching, IInv, TypeOK, P!TypeOK, Txs
<1>2. \A b \in BatchId :
        paid'[b] = IF tx.kind = "Claim" /\ b \in tx.ids THEN paid[b] + 1 ELSE paid[b]
  BY DEF RemoteExecute
<1>3. tx.kind = "Claim" => RightKind(tx) /\ \A b \in tx.ids : paid[b] = 0
  BY <1>1 DEF IInv, Payments, PaysAreCounted, Ledger, ClaimsOfOneKind, Outstanding
<1>4. Payouts' = Payouts
  BY <1>1 DEF Payouts
<1>5. CASE tx.kind = "Claim" /\ ~tx.emergency
  <2>1. \A b \in tx.ids : batches[b].status \in Pumped
    BY <1>3, <1>5 DEF RightKind
  <2>2. PaidOut' = PaidOut \cup tx.ids /\ PaidOut \cap tx.ids = {}
    BY <1>1, <1>2, <1>3, <1>5, <2>1 DEF PaidOut
  <2>3. /\ IsFiniteSet(PaidOut) /\ IsFiniteSet(tx.ids)
        /\ \A b \in PaidOut \cup tx.ids : Payouts[b] \in Nat
    <3>1. ASSUME NEW b \in BatchId, batches[b].status \in Pumped
          PROVE  Payouts[b] \in Nat
      BY <3>1, PayoutsStand, PayLive
    <3> QED BY <1>1, <2>1, <3>1, FiniteBatches DEF PaidOut
  <2>4. SumFunctionOnSet(Payouts, PaidOut \cup tx.ids)
          = SumFunctionOnSet(Payouts, PaidOut) + SumFunctionOnSet(Payouts, tx.ids)
    BY <2>2, <2>3, SumUnion
  <2>5. SumFunctionOnSet(Payouts, PaidOut) \in Nat /\ SumFunctionOnSet(Payouts, tx.ids) \in Nat
    BY <2>3, SumType
  <2>6. SumFunctionOnSet(Payouts, tx.ids) <= tx.amount
    BY <1>1, <1>5 DEF ClaimCovers, Outstanding
  <2>7. pumped' = pumped + tx.amount
    BY <1>5 DEF RemoteExecute
  <2> QED BY <1>1, <1>4, <2>2, <2>4, <2>5, <2>6, <2>7 DEF PumpCovers
<1>6. CASE ~(tx.kind = "Claim" /\ ~tx.emergency)
  <2>1. PaidOut' = PaidOut
    <3>1. ASSUME NEW b \in BatchId, tx.kind = "Claim", b \in tx.ids
          PROVE  batches[b].status \notin Pumped
      BY <1>3, <1>6, <3>1 DEF RightKind, Pumped, Rescued
    <3>2. ASSUME NEW b \in BatchId, ~(tx.kind = "Claim" /\ b \in tx.ids)
          PROVE  paid'[b] = paid[b]
      BY <1>2, <3>2
    <3> QED BY <1>1, <3>1, <3>2 DEF PaidOut
  <2>2. UNCHANGED pumped
    BY <1>6 DEF RemoteExecute
  <2> QED BY <1>4, <2>1, <2>2 DEF PumpCovers
<1> QED BY <1>5, <1>6

(* A new claim covers what it will pay: it is worth all that is expected if the
   balance allows that, or pays one batch what the balance allows. *)
LEMMA NewClaimCovers ==
  ASSUME IInv, IInv', NEW S \in SUBSET BatchId, ExpectedOf(S) \in 0..MaxAmount,
         ~IsEmergency(S), batches' = Released(S)
  PROVE  SumFunctionOnSet(Payouts', S) <= ClaimAndTransfer(S).amount
<1> DEFINE balance == icaQuery.balance
           E == [b \in BatchId |-> batches[b].expected]
<1>1. IsFiniteSet(S) /\ balance \in Nat /\ ExpectedOf(S) \in Nat
  BY FiniteBatches DEF IInv, TypeOK
<1>2. ClaimAndTransfer(S).amount = AtMost(balance, ExpectedOf(S))
  <2> DEFINE amount == AtMost(balance, ExpectedOf(S))
  <2> HIDE DEF amount
  <2>1. ClaimAndTransfer(S) = [PlainTx("Claim", amount) EXCEPT !.ids = S, !.emergency = IsEmergency(S)]
    BY DEF ClaimAndTransfer, amount
  <2> QED BY <2>1 DEF PlainTx, amount
<1>3. ASSUME NEW b \in BatchId, b \in S
      PROVE  /\ E[b] \in Nat
             /\ Payouts'[b] = AtMost(balance, E[b])
             /\ Payouts'[b] \in Int /\ Payouts'[b] <= E[b] /\ Payouts'[b] <= balance
  <2>1. batches[b] \in Batches /\ E[b] = batches[b].expected
    BY DEF IInv, TypeOK
  <2>2. E[b] \in Nat
    BY <2>1 DEF Batches
  <2>3. Released(S)[b].unbonded = AtMost(balance, E[b])
    BY <1>3, <2>1, ReleasedStatus DEF IInv
  <2>4. Payouts'[b] = AtMost(balance, E[b])
    BY <2>3 DEF Payouts
  <2> HIDE DEF E, balance
  <2> QED BY <1>1, <2>2, <2>4 DEF AtMost
<1>4. ExpectedOf(S) = SumFunctionOnSet(E, S)
  BY DEF ExpectedOf
<1> HIDE DEF E, balance
<1>5. CASE balance >= ExpectedOf(S)
  <2>1. SumFunctionOnSet(Payouts', S) <= SumFunctionOnSet(E, S)
    BY <1>1, <1>3, SumMonotone
  <2>2. AtMost(balance, ExpectedOf(S)) = ExpectedOf(S)
    BY <1>1, <1>5 DEF AtMost
  <2> QED BY <1>2, <1>4, <2>1, <2>2
<1>6. CASE ~(balance >= ExpectedOf(S))
  <2>1. AtMost(balance, ExpectedOf(S)) = balance
    BY <1>1, <1>6 DEF AtMost
  <2>2. Cardinality(S) \in Nat /\ ~(Cardinality(S) > 1)
    BY <1>1, <1>6, FS_CardinalityType DEF IsEmergency, balance
  <2>3. CASE S = {}
    BY <1>1, <1>2, <2>1, <2>3, SumEmpty
  <2>4. CASE S # {}
    <3>1. Cardinality(S) = 1
      BY <1>1, <2>2, <2>4, FS_EmptySet
    <3>2. PICK b : S = {b}
      BY <1>1, <3>1, FS_Singleton
    <3>3. b \in BatchId /\ b \in S
      BY <3>2
    <3>4. Payouts'[b] \in Int /\ Payouts'[b] <= balance
      BY <1>3, <3>3
    <3>5. SumFunctionOnSet(Payouts', {b}) = Payouts'[b]
      BY <3>4, SumOfOne
    <3> QED BY <1>2, <2>1, <3>2, <3>4, <3>5
  <2> QED BY <2>3, <2>4
<1> QED BY <1>5, <1>6

(* The claim under way keeps covering what it will pay. *)
LEMMA NextClaimCovers ==
  ASSUME IInv, IInv', Ledger, Ledger', ClaimCovers, [Next]_vars
  PROVE  ClaimCovers'
<1>1. ASSUME Outstanding({"Claim"})', ~tx'.emergency
      PROVE  SumFunctionOnSet(Payouts', tx'.ids) <= tx'.amount
  <2>1. stage' # "idle" /\ tx'.kind = "Claim"
    BY <1>1 DEF Outstanding
  <2>2. CASE stage # "idle" /\ tx' = tx
    <3> DEFINE S == tx.ids
    <3>1. Outstanding({"Claim"}) /\ ~tx.emergency /\ S \in SUBSET BatchId
      BY <1>1, <2>1, <2>2, IdsAreBatches DEF Outstanding, IInv
    <3>2. \A b \in S : batches[b].status \in Pumped
      BY <3>1 DEF Ledger, ClaimsOfOneKind, RightKind
    <3>3. IsFiniteSet(S) /\ \A b \in S : Payouts[b] \in Int /\ Payouts'[b] = Payouts[b]
      BY <3>1, <3>2, NextLife, PayoutsStand, FiniteBatches
    <3>4. SumFunctionOnSet(Payouts', S) = SumFunctionOnSet(Payouts, S)
      BY <3>3, SumMonotone
    <3> QED BY <2>2, <3>1, <3>4 DEF ClaimCovers
  <2>3. CASE /\ tx' = ClaimAndTransfer(MaturedBatches)
             /\ ClaimFromValidators(MaturedBatches)
             /\ \E claimable \in Claimable : TickIdleLong(claimable)
    <3> DEFINE S == MaturedBatches
    <3>1. /\ S \in SUBSET BatchId /\ ExpectedOf(S) \in 0..MaxAmount
          /\ batches' = Released(S) /\ tx' = ClaimAndTransfer(S)
      BY <2>3 DEF TickIdleLong, MaturedBatches, ClaimFromValidators
    <3> HIDE DEF S
    <3>2. tx'.ids = S
      BY <3>1, ClaimType DEF IInv
    <3>3. tx'.emergency = IsEmergency(S)
      <4>1. ClaimAndTransfer(S).emergency = IsEmergency(S)
        BY DEF ClaimAndTransfer, PlainTx
      <4> QED BY <3>1, <4>1
    <3> QED BY <1>1, <3>1, <3>2, <3>3, NewClaimCovers
  <2> QED BY <2>1, <2>2, <2>3, RegisterSteps DEF IInv
<1> QED BY <1>1 DEF ClaimCovers, Outstanding

(* Only the remote chain pays. *)
LEMMA OnlyRemotePays ==
  ASSUME [Next]_vars
  PROVE  RemoteExecute \/ UNCHANGED <<paid, pumped>>
BY DEF Next, Tick, Hook, Bond, BondLsm, Unbond, TickIdleShort, TickIdleLong, TickClaiming,
       TickTransfering, TickStaking, TickUnbonding, HookSuccess, HookError, HookErrorRefused,
       Pause, Unpause, ResetBondedAmount, SetNonNativeRewardsReceivers, IcqUpdate, AdvanceTime,
       history, vars

(* The pump has what was paid out of batches, and the claim under way what it will pay. *)
LEMMA PumpCoversAlways == Spec => [](PumpCovers /\ ClaimCovers)
<1>1. ASSUME Init
      PROVE  PumpCovers /\ ClaimCovers
  <2>1. PaidOut = {}
    BY <1>1 DEF Init, PaidOut
  <2>2. pumped = 0 /\ stage = "idle"
    BY <1>1 DEF Init, P!Init
  <2>3. SumFunctionOnSet(Payouts, {}) = 0
    BY SumEmpty
  <2> QED BY <2>1, <2>2, <2>3 DEF PumpCovers, ClaimCovers, Outstanding
<1>2. ASSUME IInv, IInv', Ledger, Ledger', PumpCovers, ClaimCovers, [Next]_vars
      PROVE  PumpCovers' /\ ClaimCovers'
  <2>1. StepOfLife
    BY <1>2, NextLife
  <2> QED BY <1>2, <2>1, PumpStands, ExecutePumps, NextClaimCovers, OnlyRemotePays
<1>3. /\ Init => PumpCovers /\ ClaimCovers
      /\ IInv /\ IInv' /\ Ledger /\ Ledger' /\ (PumpCovers /\ ClaimCovers) /\ [Next]_vars
           => (PumpCovers /\ ClaimCovers)'
  BY <1>1, <1>2
<1> QED BY <1>3, Invariance, LedgerAlways, PTL DEF Spec

(* What withdrawn batches let their holders have was sent to the pump: they are paid
   (WithdrawnIsPaid), and counted among the payouts. *)
THEOREM PumpedCoversWithdrawnAlways == Spec => []PumpedCoversWithdrawn
<1> DEFINE W == {b \in BatchId : batches[b].status = "Withdrawn"}
<1>1. ASSUME IInv, Ledger, PumpCovers
      PROVE  SumFunctionOnSet(Payouts, W) <= pumped
  <2>1. W \subseteq PaidOut /\ PaidOut \in SUBSET BatchId
    BY <1>1 DEF IInv, Payments, WithdrawnIsPaid, PaidOut, Pumped
  <2>2. ASSUME NEW b \in PaidOut
        PROVE  Payouts[b] \in Nat
    <3>1. batches[b] \in Batches /\ batches[b].unbonded # NoAmount /\ b \in BatchId
      BY <1>1, <2>2 DEF PaidOut, IInv, TypeOK, Ledger, PhasesAreDated
    <3> QED BY <3>1 DEF Batches, Payouts
  <2>3. IsFiniteSet(PaidOut) /\ IsFiniteSet(W)
    BY <2>1, FiniteBatches
  <2>4. \A b \in PaidOut : Payouts[b] \in Int /\ Payouts[b] >= 0
    BY <2>2
  <2> HIDE DEF W
  <2>5. SumFunctionOnSet(Payouts, W) <= SumFunctionOnSet(Payouts, PaidOut)
    BY <2>1, <2>3, <2>4, SumSubset
  <2>6. /\ SumFunctionOnSet(Payouts, W) \in Int /\ SumFunctionOnSet(Payouts, PaidOut) \in Int
        /\ pumped \in Int
    BY <1>1, <2>1, <2>3, <2>4, SumType DEF IInv, TypeOK
  <2> QED BY <1>1, <2>5, <2>6 DEF PumpCovers
<1>2. IInv /\ Ledger /\ PumpCovers => PumpedCoversWithdrawn
  BY <1>1 DEF PumpedCoversWithdrawn, Payouts
<1> QED BY <1>2, Invariance, LedgerAlways, PumpCoversAlways, PTL

-----------------------------------------------------------------------------
(***************************************************************************)
(* The dead end of Staking                                                 *)
(***************************************************************************)

(* No tick, hook, bond or message of the owner leads out of Staking when its delegation
   was answered with a failure, and nothing is sent to the remote chain any more. *)
THEOREM FailedStakingIsFinalAlways == Spec => FailedStakingIsFinal
<1> DEFINE Failed == fsm = "Staking" /\ stage = "idle" /\ AnsweredAs({"Delegate"}) /\ ~lastResponse.ok
           Stays == fsm' = fsm /\ stage' = stage /\ lastResponse' = lastResponse
<1>1. ASSUME Failed, Next PROVE Stays
  <2>1. ~TickClaiming /\ ~TickTransfering /\ ~TickStaking /\ ~TickUnbonding
    BY <1>1 DEF TickClaiming, TickTransfering, TickStaking, TickUnbonding, TickWorking
  <2>2. ASSUME NEW due \in RewardsDue PROVE ~TickIdleShort(due)
    BY <1>1 DEF TickIdleShort
  <2>3. ASSUME NEW claimable \in Claimable PROVE ~TickIdleLong(claimable)
    BY <1>1 DEF TickIdleLong
  <2>4. ~Tick
    BY <2>1, <2>2, <2>3 DEF Tick
  <2>5. ~Hook /\ ~RemoteExecute
    BY <1>1 DEF Hook, HookSuccess, HookError, HookErrorRefused, RemoteExecute,
                P!Answer, P!Lose, P!RemoteExecute
  <2>6. CASE \E amount \in BondAmounts : Bond(amount)
    BY <2>6 DEF Bond, puppeteer
  <2>7. CASE \E d \in Denom, amount \in LsmAmounts : BondLsm(d, amount)
    BY <2>7 DEF BondLsm, puppeteer
  <2>8. CASE \E amount \in UnbondAmounts, expected \in ExpectedAmounts : Unbond(amount, expected)
    BY <2>8 DEF Unbond, puppeteer
  <2>9. CASE Pause \/ Unpause \/ ResetBondedAmount \/ SetNonNativeRewardsReceivers
    BY <2>9 DEF Pause, Unpause, ResetBondedAmount, SetNonNativeRewardsReceivers, puppeteer
  <2>10. CASE (\E balance \in Balances, delay \in Delays : IcqUpdate(balance, delay)) \/ AdvanceTime
    BY <2>10 DEF IcqUpdate, AdvanceTime, puppeteer
  <2> QED BY <1>1, <2>4, <2>5, <2>6, <2>7, <2>8, <2>9, <2>10 DEF Next
<1>2. [Next]_vars => [Failed => Stays]_vars
  BY <1>1
<1> QED BY <1>2, PTL DEF Spec, FailedStakingIsFinal

=============================================================================
