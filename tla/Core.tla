-------------------------------- MODULE Core --------------------------------
(***************************************************************************)
(* The core contract of the liquid-staking protocol, composed with the     *)
(* promise of the puppeteer it drives (module IcaTx).                      *)
(*                                                                         *)
(* Users bond the base asset or LSM shares, and unbond: an unbonding goes  *)
(* into the open batch of withdrawals.  Anyone calls tick, which moves a   *)
(* five-state machine around and, in every step, may send ONE transaction  *)
(* through the puppeteer; the puppeteer reports its fate to the hook, and  *)
(* the next tick reads the report.                                         *)
(*                                                                         *)
(* Blocks: every action is one transaction of the local chain, so that a   *)
(* refused message reverts the whole of it.  `now' stands for both the     *)
(* time and the height of the block.                                       *)
(***************************************************************************)
EXTENDS Integers, FiniteSets, Functions

CONSTANTS
  \* config
  IdleMinInterval, SwitchTime, UnbondingPeriod, SafePeriod,
  MinStake, FeeNum, FeeDen, HasFeeAddress, HasPump, HasEmergency,
  BondLimit,                      \* 0: none
  LsmMinBond, LsmThreshold, LsmMaxInterval,
  \* inputs of the environment
  Denom,                          \* LSM share denoms, a set of integers in map order
  BondAmounts, LsmAmounts,        \* funds of a bond
  UnbondAmounts, ExpectedAmounts, \* funds of an unbond, and their worth at the exchange rate
  Balances, Delays,               \* balances an interchain query may report, and how late
  Claimable, RewardsDue,          \* SUBSET BOOLEAN: what the other queries may say
  OwnerMay,                       \* what the owner of the contract does: a subset of OwnerActs
  GenesisTime,
  MaxAmount,                      \* the largest amount: a sum beyond it fails
  \* bounds of the model
  MaxTime, MaxBatch, MaxItems, MaxBonded, MaxLsm, MaxFees,
  \* null values
  NoTx, NoResponse, NoBatch

BatchId == 0..MaxBatch
OwnerActs == {"pause", "resetBondedAmount", "setReceivers"}

ASSUME CoreAssumption ==
  /\ {IdleMinInterval, SwitchTime, UnbondingPeriod, SafePeriod, MinStake, FeeNum,
      BondLimit, LsmMinBond, LsmThreshold, LsmMaxInterval, MaxTime, MaxBatch,
      MaxItems, MaxBonded, MaxLsm, MaxFees, MaxAmount} \subseteq Nat
  /\ FeeDen \in Nat \ {0}
  /\ {HasFeeAddress, HasPump, HasEmergency} \subseteq BOOLEAN
  /\ Claimable \subseteq BOOLEAN /\ RewardsDue \subseteq BOOLEAN
  /\ OwnerMay \subseteq OwnerActs
  /\ Denom \subseteq Int /\ IsFiniteSet(Denom)
  /\ BondAmounts \cup LsmAmounts \cup UnbondAmounts \subseteq Nat \ {0}
  /\ ExpectedAmounts \cup Balances \cup Delays \subseteq Nat
  /\ GenesisTime \in Nat \ {0}
  /\ NoBatch \notin BatchId

VARIABLES
  now,            \* block time and height
  paused,         \* PAUSED
  fsm,            \* FSM
  unbondBatchId,  \* UNBOND_BATCH_ID
  batches,        \* unbond_batches_map
  failedBatchId,  \* FAILED_BATCH_ID
  lastResponse,   \* LAST_PUPPETEER_RESPONSE
  lastIdleCall,   \* LAST_IDLE_CALL
  lastIcaChange,  \* LAST_ICA_BALANCE_CHANGE_HEIGHT
  bondedAmount,   \* BONDED_AMOUNT
  totalLsm,       \* TOTAL_LSM_SHARES
  pendingLsm,     \* PENDING_LSM_SHARES: amount by denom, 0 for no entry
  lsmToRedeem,    \* LSM_SHARES_TO_REDEEM, likewise
  lastLsmRedeem,  \* LAST_LSM_REDEEM
  collectedFees,  \* COLLECTED_FEES of the remote denom
  rewardsSet,     \* NON_NATIVE_REWARDS_CONFIG has been stored
  coreBalance,    \* the contract's balance of the base denom
  icaQuery,       \* the puppeteer's last interchain query result: the balance, the time it
                  \* was delivered (at) and, as history, the time it was read on the
                  \* remote chain (read)
  tx, stage,      \* the puppeteer: see IcaTx
  paid,           \* history: how often a transfer for each batch was performed
  matures,        \* history: when the remote chain releases what was undelegated for each batch
  pumped,         \* history: total of the transfers to the pump
  feesPaid        \* history: total of the collected fees paid out

puppeteer == <<tx, stage>>
history == <<paid, matures, pumped, feesPaid>>
lsm == <<totalLsm, pendingLsm, lsmToRedeem, lastLsmRedeem>>
batching == <<unbondBatchId, batches, failedBatchId>>
clocks == <<now, lastIdleCall, lastIcaChange>>
admin == <<paused, rewardsSet, bondedAmount>>
vars == <<clocks, admin, fsm, batching, lastResponse, lsm, collectedFees, coreBalance,
          icaQuery, puppeteer, history>>

-----------------------------------------------------------------------------
(***************************************************************************)
(* Types                                                                   *)
(***************************************************************************)

Statuses == {"New", "UnbondRequested", "UnbondFailed", "Unbonding", "Withdrawing",
             "Withdrawn", "WithdrawingEmergency", "WithdrawnEmergency"}

NoAmount == -1      \* unbonded_amount: None

(* "Absent" stands for no entry in the map *)
Batches == [status : Statuses \cup {"Absent"}, items : Nat, total : Nat, expected : Nat,
            created : Nat, release : Nat, unbonded : Nat \cup {NoAmount}]

AbsentBatch == [status |-> "Absent", items |-> 0, total |-> 0, expected |-> 0,
                created |-> 0, release |-> 0, unbonded |-> NoAmount]

(* new_unbond *)
NewBatch == [AbsentBatch EXCEPT !.status = "New", !.created = now]

ContractStates == {"Idle", "Claiming", "Transfering", "Staking", "Unbonding"}

Transitions_without_claiming_idle ==
  {<<"Idle", "Claiming">>, <<"Idle", "Staking">>, <<"Idle", "Transfering">>,
   <<"Claiming", "Transfering">>, <<"Transfering", "Staking">>, <<"Staking", "Unbonding">>,
   <<"Claiming", "Staking">>, <<"Staking", "Idle">>, <<"Unbonding", "Idle">>,
   <<"Transfering", "Idle">>}
Transitions_to_unbonding ==
  Transitions_without_claiming_idle \cup
    {<<"Claiming", "Idle">>, <<"Claiming", "Unbonding">>, <<"Transfering", "Unbonding">>}
Transitions ==
  {<<"Idle", "Claiming">>, <<"Idle", "Staking">>, <<"Idle", "Transfering">>,
   <<"Claiming", "Transfering">>, <<"Transfering", "Staking">>, <<"Staking", "Unbonding">>,
   <<"Claiming", "Staking">>, <<"Staking", "Idle">>, <<"Unbonding", "Idle">>,
   <<"Transfering", "Idle">>, <<"Claiming", "Idle">>}

(* Fsm::go_to, from a state the handler may itself have gone to *)
GoTo(from, to) ==
  /\ <<from, to>> \in Transitions
  /\ fsm' = to

(* the transactions core sends; fields a kind does not use are zero or empty *)
Shares == [Denom -> Nat]
NoShares == [d \in Denom |-> 0]
Kinds == {"Claim", "IBCStake", "IBCLsm", "Redeem", "Delegate", "Undelegate", "Transfer"}
Txs == [kind : Kinds, ids : SUBSET BatchId, emergency : BOOLEAN, amount : Nat, shares : Shares]

PlainTx(kind, amount) ==
  [kind |-> kind, ids |-> {}, emergency |-> FALSE, amount |-> amount, shares |-> NoShares]

Responses == [ok : BOOLEAN, tx : Txs]

P == INSTANCE IcaTx WITH Tx <- Txs

ASSUME NullAssumption == NoTx \notin Txs /\ NoResponse \notin Responses

TypeOK ==
  /\ now \in Nat /\ lastIdleCall \in Nat /\ lastIcaChange \in Nat
  /\ paused \in BOOLEAN /\ rewardsSet \in BOOLEAN /\ bondedAmount \in Nat
  /\ fsm \in ContractStates
  /\ unbondBatchId \in BatchId
  /\ batches \in [BatchId -> Batches]
  /\ failedBatchId \in BatchId \cup {NoBatch}
  /\ lastResponse \in Responses \cup {NoResponse}
  /\ totalLsm \in Nat /\ lastLsmRedeem \in Nat
  /\ pendingLsm \in Shares /\ lsmToRedeem \in Shares
  /\ collectedFees \in Nat /\ coreBalance \in Nat
  /\ icaQuery \in [balance : Nat, at : Nat, read : Nat]
  /\ P!TypeOK
  /\ paid \in [BatchId -> Nat] /\ matures \in [BatchId -> Nat] /\ pumped \in Nat /\ feesPaid \in Nat

-----------------------------------------------------------------------------

Init ==
  /\ now = GenesisTime
  /\ paused = FALSE /\ rewardsSet = FALSE
  /\ fsm = "Idle"
  /\ unbondBatchId = 0
  /\ batches = [b \in BatchId |-> IF b = 0 THEN NewBatch ELSE AbsentBatch]
  /\ failedBatchId = NoBatch
  /\ lastResponse = NoResponse
  /\ lastIdleCall = 0 /\ lastIcaChange = 0
  /\ bondedAmount = 0
  /\ totalLsm = 0 /\ pendingLsm = NoShares /\ lsmToRedeem = NoShares /\ lastLsmRedeem = 0
  /\ collectedFees = 0
  /\ coreBalance = 0
  /\ icaQuery = [balance |-> 0, at |-> 0, read |-> 0]    \* at = 0: no result yet
  /\ P!Init
  /\ paid = [b \in BatchId |-> 0] /\ matures = [b \in BatchId |-> 0] /\ pumped = 0 /\ feesPaid = 0

-----------------------------------------------------------------------------
(***************************************************************************)
(* Bond and unbond                                                         *)
(***************************************************************************)

WithinLimit(amount) == BondLimit = 0 \/ bondedAmount + amount <= BondLimit

CountBonded(amount) ==
  /\ WithinLimit(amount)
  /\ bondedAmount + amount <= MaxBonded
  /\ bondedAmount' = bondedAmount + amount

(* execute_bond of the base denom *)
Bond(amount) ==
  /\ CountBonded(amount)
  /\ coreBalance + amount <= MaxBonded
  /\ coreBalance' = coreBalance + amount
  /\ UNCHANGED <<clocks, paused, rewardsSet, fsm, batching, lastResponse, lsm, collectedFees,
                 icaQuery, puppeteer, history>>

(* execute_bond of an LSM share *)
BondLsm(d, amount) ==
  /\ CountBonded(amount)
  /\ amount >= LsmMinBond
  /\ totalLsm + amount <= MaxLsm
  /\ totalLsm' = totalLsm + amount
  /\ pendingLsm' = [pendingLsm EXCEPT ![d] = @ + amount]
  /\ UNCHANGED <<clocks, paused, rewardsSet, fsm, batching, lastResponse, lsmToRedeem,
                 lastLsmRedeem, collectedFees, coreBalance, icaQuery, puppeteer, history>>

WithItem(batch, amount, expected) ==
  [batch EXCEPT !.items = batch.items + 1, !.total = batch.total + amount,
                !.expected = batch.expected + expected]

(* execute_unbond: into the open batch, whatever its status *)
Unbond(amount, expected) ==
  /\ batches[unbondBatchId].items < MaxItems
  /\ batches' = [batches EXCEPT ![unbondBatchId] = WithItem(@, amount, expected)]
  /\ UNCHANGED <<clocks, admin, fsm, unbondBatchId, failedBatchId, lastResponse, lsm,
                 collectedFees, coreBalance, icaQuery, puppeteer, history>>

-----------------------------------------------------------------------------
(***************************************************************************)
(* What a tick of a working state may send.  Each operator takes the state *)
(* the machine is in when it is reached, and the batches as the handler    *)
(* has changed them so far.                                                *)
(***************************************************************************)

BatchToUnbond_never_failed == unbondBatchId
BatchToUnbond == IF failedBatchId = NoBatch THEN unbondBatchId ELSE failedBatchId

InSwitchWindow_even_if_empty(batch) == batch.created + SwitchTime > now
InSwitchWindow(batch) ==
  /\ batch.created + SwitchTime > now
  /\ batch.items > 0
  /\ batch.total > 0

(* get_unbonding_msg *)
OpenedId_next_free(id) == unbondBatchId + 1
OpenedId(id) == id + 1

RequestUnbonding(from, bs) ==
  LET id == BatchToUnbond IN
  /\ InSwitchWindow(bs[id])
  /\ OpenedId(id) <= MaxBatch
  /\ P!Send([PlainTx("Undelegate", bs[id].total) EXCEPT !.ids = {id}])
  /\ unbondBatchId' = OpenedId(id)
  /\ batches' = [bs EXCEPT ![id].status = "UnbondRequested", ![OpenedId(id)] = NewBatch]
  /\ GoTo(from, "Unbonding")

UnbondOrRest(from, bs) ==
  \/ RequestUnbonding(from, bs)
  \/ /\ ~InSwitchWindow(bs[BatchToUnbond])
     /\ GoTo(from, "Idle")
     /\ batches' = bs
     /\ UNCHANGED <<unbondBatchId, puppeteer>>

(* get_stake_msg *)
BalanceIsFresh == lastIcaChange <= icaQuery.at

Fee == (icaQuery.balance * FeeNum) \div FeeDen

StakeIcaBalance(from, bs) ==
  /\ icaQuery.balance >= MinStake
  /\ BalanceIsFresh
  /\ Fee <= icaQuery.balance
  /\ P!Send(PlainTx("Delegate", icaQuery.balance - Fee))
  /\ collectedFees' = IF HasFeeAddress THEN collectedFees + Fee ELSE collectedFees
  /\ collectedFees' <= MaxFees
  /\ GoTo(from, "Staking")
  /\ batches' = bs
  /\ UNCHANGED unbondBatchId

StakeOrUnbondOrRest(from, bs) ==
  \/ StakeIcaBalance(from, bs)
  \/ /\ icaQuery.balance < MinStake
     /\ UnbondOrRest(from, bs)
     /\ UNCHANGED collectedFees

(* get_transfer_pending_balance_msg *)
TransferPending(from, bs) ==
  /\ coreBalance > 0
  /\ P!Send(PlainTx("IBCStake", coreBalance))
  /\ coreBalance' = 0
  /\ GoTo(from, "Transfering")
  /\ batches' = bs
  /\ UNCHANGED <<unbondBatchId, collectedFees>>

TransferOrStakeOrUnbondOrRest(from, bs) ==
  \/ TransferPending(from, bs)
  \/ /\ coreBalance = 0
     /\ StakeOrUnbondOrRest(from, bs)
     /\ UNCHANGED coreBalance

-----------------------------------------------------------------------------
(***************************************************************************)
(* execute_tick in Idle, before the minimal interval has passed: one       *)
(* transaction, by priority, without leaving Idle.                         *)
(***************************************************************************)

(* get_non_native_rewards_and_fee_transfer_msg *)
SomethingToPay(due) == due \/ collectedFees > 0

PayRewardsAndFees(due) ==
  /\ SomethingToPay(due)
  /\ P!Send(PlainTx("Transfer", collectedFees))

(* get_pending_redeem_msg *)
DenomsToRedeem == {d \in Denom : lsmToRedeem[d] > 0}

RedeemIsDue ==
  /\ DenomsToRedeem # {}
  /\ Cardinality(DenomsToRedeem) >= LsmThreshold
  /\ lastLsmRedeem + LsmMaxInterval <= now

RedeemShares_pending ==
  /\ RedeemIsDue
  /\ P!Send([PlainTx("Redeem", 0) EXCEPT !.shares = pendingLsm])
RedeemShares ==
  /\ RedeemIsDue
  /\ P!Send([PlainTx("Redeem", 0) EXCEPT !.shares = lsmToRedeem])

(* get_pending_lsm_share_msg: the first entry of the map *)
FirstPending(d) == pendingLsm[d] > 0 /\ \A e \in Denom : pendingLsm[e] > 0 => d <= e

TransferLsm(d) ==
  /\ FirstPending(d)
  /\ P!Send([PlainTx("IBCLsm", pendingLsm[d]) EXCEPT !.shares[d] = pendingLsm[d]])

TickIdleShort(due) ==
  /\ ~paused
  /\ fsm = "Idle"
  /\ rewardsSet
  /\ now - lastIdleCall < IdleMinInterval
  /\ \/ PayRewardsAndFees(due)
     \/ ~SomethingToPay(due) /\ RedeemShares
     \/ /\ ~SomethingToPay(due) /\ ~RedeemIsDue
        /\ \E d \in Denom : TransferLsm(d)
  /\ UNCHANGED <<clocks, admin, fsm, batching, lastResponse, lsm, collectedFees, coreBalance,
                 icaQuery, history>>

-----------------------------------------------------------------------------
(***************************************************************************)
(* execute_tick in Idle, after the minimal interval: batches whose time    *)
(* has come are marked Withdrawing, to be paid out by the claim.           *)
(***************************************************************************)

UnbondingTimeIsClose ==
  \E b \in BatchId : /\ batches[b].status = "Unbonding"
                     /\ now < batches[b].release
                     /\ now > batches[b].release - SafePeriod

Matured_by_time_alone(b) ==
  batches[b].status = "Unbonding" /\ batches[b].release <= now
Matured_in_any_status(b) ==
  0 < batches[b].release /\ batches[b].release <= now /\ batches[b].release < icaQuery.at
Matured(b) ==
  /\ batches[b].status = "Unbonding"
  /\ batches[b].release <= now
  /\ batches[b].release < icaQuery.at

MaturedBatches == {b \in BatchId : Matured(b)}

ExpectedOf(S) == SumFunctionOnSet([b \in BatchId |-> batches[b].expected], S)

AtMost(a, b) == IF a < b THEN a ELSE b

(* several batches that the balance cannot cover are paid to the emergency address *)
IsEmergency_never(S) == FALSE
IsEmergency(S) == Cardinality(S) > 1 /\ icaQuery.balance < ExpectedOf(S)

Released(S) ==
  [b \in BatchId |->
    IF b \notin S THEN batches[b]
    ELSE IF IsEmergency(S)
         THEN [batches[b] EXCEPT !.status = "WithdrawingEmergency", !.unbonded = NoAmount]
         ELSE [batches[b] EXCEPT !.status = "Withdrawing",
                                 !.unbonded = AtMost(icaQuery.balance, batches[b].expected)]]

ClaimAndTransfer(S) ==
  [PlainTx("Claim", AtMost(icaQuery.balance, ExpectedOf(S))) EXCEPT
     !.ids = S, !.emergency = IsEmergency(S)]

(* with validators to claim from, the payout travels with the claim *)
ClaimFromValidators(S) ==
  /\ P!Send(ClaimAndTransfer(S))
  /\ GoTo("Idle", "Claiming")
  /\ batches' = Released(S)
  /\ UNCHANGED <<unbondBatchId, collectedFees, coreBalance>>

(* without, the machine passes Claiming at once, and the payout is dropped *)
SkipClaim(S) ==
  /\ <<"Idle", "Claiming">> \in Transitions
  /\ TransferOrStakeOrUnbondOrRest("Claiming", Released(S))

TickIdleLong(claimable) ==
  LET S == MaturedBatches IN
  /\ ~paused
  /\ fsm = "Idle"
  /\ now - lastIdleCall >= IdleMinInterval
  /\ icaQuery.at > 0
  /\ ~UnbondingTimeIsClose
  /\ HasPump
  /\ ExpectedOf(S) \in 0..MaxAmount
  /\ IsEmergency(S) => HasEmergency
  /\ \/ claimable /\ ClaimFromValidators(S)
     \/ ~claimable /\ SkipClaim(S)
  /\ lastIdleCall' = now
  /\ UNCHANGED <<now, lastIcaChange, admin, failedBatchId, lastResponse, lsm, icaQuery, history>>

-----------------------------------------------------------------------------
(***************************************************************************)
(* execute_tick in the working states.  Each needs SOME response of the    *)
(* puppeteer, which need not be the one to the transaction this state sent.*)
(***************************************************************************)

Responded == lastResponse # NoResponse

TickWorking(state) == ~paused /\ fsm = state /\ Responded

MarkWithdrawn(t) ==
  [b \in BatchId |->
    IF b \in t.ids
    THEN [batches[b] EXCEPT !.status = IF t.emergency THEN "WithdrawnEmergency" ELSE "Withdrawn"]
    ELSE batches[b]]

(* a failed claim leaves the batches as they are *)
Settled_even_if_failed(r) == MarkWithdrawn(r.tx)
Settled(r) == IF r.ok THEN MarkWithdrawn(r.tx) ELSE batches

TickClaiming ==
  /\ TickWorking("Claiming")
  /\ lastResponse.ok => lastResponse.tx.kind = "Claim"
  /\ lastResponse' = NoResponse
  /\ TransferOrStakeOrUnbondOrRest("Claiming", Settled(lastResponse))
  /\ UNCHANGED <<clocks, admin, failedBatchId, lsm, icaQuery, history>>

TickTransfering ==
  /\ TickWorking("Transfering")
  /\ lastResponse' = NoResponse
  /\ StakeOrUnbondOrRest("Transfering", batches)
  /\ UNCHANGED <<clocks, admin, failedBatchId, lsm, coreBalance, icaQuery, history>>

(* a failed delegation is refused here, and stays the last response *)
TickStaking_even_if_failed ==
  /\ TickWorking("Staking")
  /\ lastResponse' = NoResponse
  /\ UnbondOrRest("Staking", batches)
  /\ UNCHANGED <<clocks, admin, failedBatchId, lsm, collectedFees, coreBalance, icaQuery, history>>
TickStaking ==
  /\ TickWorking("Staking")
  /\ lastResponse.ok
  /\ lastResponse' = NoResponse
  /\ UnbondOrRest("Staking", batches)
  /\ UNCHANGED <<clocks, admin, failedBatchId, lsm, collectedFees, coreBalance, icaQuery, history>>

(* a failure is remembered for the next try, and stays the last response *)
TickUnbonding_from_creation ==
  /\ TickWorking("Unbonding")
  /\ lastResponse.tx.kind = "Undelegate"
  /\ \E b \in lastResponse.tx.ids :
       \/ /\ lastResponse.ok
          /\ batches' = [batches EXCEPT ![b].status = "Unbonding",
                                        ![b].release = batches[b].created + UnbondingPeriod]
          /\ failedBatchId' = NoBatch
          /\ lastResponse' = NoResponse
       \/ /\ ~lastResponse.ok
          /\ batches' = [batches EXCEPT ![b].status = "UnbondFailed"]
          /\ failedBatchId' = b
          /\ UNCHANGED lastResponse
  /\ GoTo("Unbonding", "Idle")
  /\ UNCHANGED <<clocks, admin, unbondBatchId, lsm, collectedFees, coreBalance, icaQuery,
                 puppeteer, history>>
TickUnbonding ==
  /\ TickWorking("Unbonding")
  /\ lastResponse.tx.kind = "Undelegate"
  /\ \E b \in lastResponse.tx.ids :
       \/ /\ lastResponse.ok
          /\ batches' = [batches EXCEPT ![b].status = "Unbonding",
                                        ![b].release = now + UnbondingPeriod]
          /\ failedBatchId' = NoBatch
          /\ lastResponse' = NoResponse
       \/ /\ ~lastResponse.ok
          /\ batches' = [batches EXCEPT ![b].status = "UnbondFailed"]
          /\ failedBatchId' = b
          /\ UNCHANGED lastResponse
  /\ GoTo("Unbonding", "Idle")
  /\ UNCHANGED <<clocks, admin, unbondBatchId, lsm, collectedFees, coreBalance, icaQuery,
                 puppeteer, history>>

-----------------------------------------------------------------------------
(***************************************************************************)
(* execute_puppeteer_hook                                                  *)
(***************************************************************************)

(* the failures after which the hook sends the machine to Idle *)
BackToIdle_from_unbonding == {"Transfer", "Redeem", "Claim", "IBCLsm", "Undelegate"}
BackToIdle == {"Transfer", "Redeem", "Claim", "IBCLsm"}

SharesIn(t) == SumFunction(t.shares)

(* sent LSM shares move from one map to the other, if there is still an entry;
   the subtraction may not underflow *)
AfterSent_dropped(pending, sent) == IF sent > 0 THEN 0 ELSE pending
AfterSent_swapped(pending, sent) == IF pending > 0 THEN sent - pending ELSE pending
AfterSent(pending, sent) == IF pending > 0 THEN pending - sent ELSE pending

LsmSent(t) ==
  /\ \A d \in Denom : pendingLsm[d] > 0 => t.shares[d] <= pendingLsm[d]
  /\ lsmToRedeem' = [d \in Denom |->
       IF pendingLsm[d] > 0 THEN lsmToRedeem[d] + t.shares[d] ELSE lsmToRedeem[d]]
  /\ pendingLsm' = [d \in Denom |-> AfterSent(pendingLsm[d], t.shares[d])]
  /\ UNCHANGED <<totalLsm, lastLsmRedeem>>

(* redeemed LSM shares leave the books, whatever the map says by now *)
LsmRedeemed(t) ==
  /\ SharesIn(t) \in 0..totalLsm
  /\ totalLsm' = totalLsm - SharesIn(t)
  /\ lsmToRedeem' = [d \in Denom |-> IF t.shares[d] > 0 THEN 0 ELSE lsmToRedeem[d]]
  /\ lastLsmRedeem' = now
  /\ UNCHANGED pendingLsm

HookSuccess ==
  /\ P!Answer(TRUE)
  /\ lastResponse' = [ok |-> TRUE, tx |-> tx]
  /\ lastIcaChange' = now
  /\ \/ tx.kind = "IBCLsm" /\ LsmSent(tx)
     \/ tx.kind = "Redeem" /\ LsmRedeemed(tx)
     \/ tx.kind \notin {"IBCLsm", "Redeem"} /\ UNCHANGED lsm
  /\ UNCHANGED <<now, lastIdleCall, admin, fsm, batching, collectedFees, coreBalance, icaQuery,
                 history>>

HookError ==
  /\ P!Answer(FALSE)
  /\ lastResponse' = [ok |-> FALSE, tx |-> tx]
  /\ \/ tx.kind \in BackToIdle /\ GoTo(fsm, "Idle")
     \/ tx.kind \notin BackToIdle /\ UNCHANGED fsm
  /\ UNCHANGED <<clocks, admin, batching, lsm, collectedFees, coreBalance, icaQuery, history>>

(* going to Idle from Idle is not a transition: the hook fails, and with it the
   puppeteer's callback *)
HookErrorRefused ==
  /\ P!Lose(FALSE)
  /\ tx.kind \in BackToIdle
  /\ <<fsm, "Idle">> \notin Transitions
  /\ UNCHANGED <<clocks, admin, fsm, batching, lastResponse, lsm, collectedFees, coreBalance,
                 icaQuery, history>>

-----------------------------------------------------------------------------
(***************************************************************************)
(* The owner, and the environment                                          *)
(***************************************************************************)

Pause ==
  /\ "pause" \in OwnerMay
  /\ paused' = TRUE
  /\ UNCHANGED <<clocks, rewardsSet, bondedAmount, fsm, batching, lastResponse, lsm,
                 collectedFees, coreBalance, icaQuery, puppeteer, history>>

Unpause ==
  /\ "pause" \in OwnerMay
  /\ paused' = FALSE
  /\ UNCHANGED <<clocks, rewardsSet, bondedAmount, fsm, batching, lastResponse, lsm,
                 collectedFees, coreBalance, icaQuery, puppeteer, history>>

ResetBondedAmount ==
  /\ "resetBondedAmount" \in OwnerMay
  /\ bondedAmount' = 0
  /\ UNCHANGED <<clocks, paused, rewardsSet, fsm, batching, lastResponse, lsm, collectedFees,
                 coreBalance, icaQuery, puppeteer, history>>

SetNonNativeRewardsReceivers ==
  /\ "setReceivers" \in OwnerMay
  /\ rewardsSet' = TRUE
  /\ UNCHANGED <<clocks, paused, bondedAmount, fsm, batching, lastResponse, lsm, collectedFees,
                 coreBalance, icaQuery, puppeteer, history>>

(* the remote chain performs the outstanding transaction; what it undelegates matures when
   the unbonding period is over *)
RemoteExecute ==
  /\ P!RemoteExecute
  /\ paid' = [b \in BatchId |-> IF tx.kind = "Claim" /\ b \in tx.ids THEN paid[b] + 1 ELSE paid[b]]
  /\ matures' = [b \in BatchId |->
       IF tx.kind = "Undelegate" /\ b \in tx.ids THEN now + UnbondingPeriod ELSE matures[b]]
  /\ pumped' = IF tx.kind = "Claim" /\ ~tx.emergency THEN pumped + tx.amount ELSE pumped
  /\ feesPaid' = IF tx.kind = "Transfer" THEN feesPaid + tx.amount ELSE feesPaid
  /\ feesPaid' <= MaxFees
  /\ UNCHANGED <<clocks, admin, fsm, batching, lastResponse, lsm, collectedFees, coreBalance,
                 icaQuery>>

(* sudo_kv_query_result: the puppeteer stores a balance that was read some time ago,
   after the last one, with the time of its delivery *)
IcqUpdate(balance, delay) ==
  /\ icaQuery.read + delay <= now
  /\ icaQuery' = [balance |-> balance, at |-> now, read |-> now - delay]
  /\ UNCHANGED <<clocks, admin, fsm, batching, lastResponse, lsm, collectedFees, coreBalance,
                 puppeteer, history>>

AdvanceTime ==
  /\ now < MaxTime
  /\ now' = now + 1
  /\ UNCHANGED <<lastIdleCall, lastIcaChange, admin, fsm, batching, lastResponse, lsm,
                 collectedFees, coreBalance, icaQuery, puppeteer, history>>

Tick ==
  \/ \E due \in RewardsDue : TickIdleShort(due)
  \/ \E claimable \in Claimable : TickIdleLong(claimable)
  \/ TickClaiming
  \/ TickTransfering
  \/ TickStaking
  \/ TickUnbonding

Hook == HookSuccess \/ HookError \/ HookErrorRefused

Next ==
  \/ \E amount \in BondAmounts : Bond(amount)
  \/ \E d \in Denom, amount \in LsmAmounts : BondLsm(d, amount)
  \/ \E amount \in UnbondAmounts, expected \in ExpectedAmounts : Unbond(amount, expected)
  \/ Tick
  \/ Hook
  \/ Pause \/ Unpause \/ ResetBondedAmount \/ SetNonNativeRewardsReceivers
  \/ RemoteExecute
  \/ \E balance \in Balances, delay \in Delays : IcqUpdate(balance, delay)
  \/ AdvanceTime

Spec == Init /\ [][Next]_vars

-----------------------------------------------------------------------------
(***************************************************************************)
(* Properties: the state machine and the puppeteer                         *)
(***************************************************************************)

Outstanding(kinds) == stage # "idle" /\ tx.kind \in kinds
AnsweredAs(kinds) == Responded /\ lastResponse.tx.kind \in kinds

(* The outstanding transaction belongs to the state the machine is in, or to one
   it has left for Idle; so a failure that sends the machine to Idle never takes
   it out of the middle of another state's work. *)
OutstandingMatchesFsm ==
  /\ Outstanding({"IBCLsm", "Redeem", "Transfer"}) => fsm = "Idle"
  /\ Outstanding({"Claim"}) => fsm \in {"Idle", "Claiming"}
  /\ Outstanding({"IBCStake"}) => fsm \in {"Idle", "Transfering"}
  /\ Outstanding({"Delegate"}) => fsm \in {"Idle", "Staking"}
  /\ Outstanding({"Undelegate"}) => fsm = "Unbonding"

(* A working state has a response to tick on, or a transaction whose answer will
   be accepted: an answer is lost only in Idle. *)
NoOrphanState ==
  fsm # "Idle" => stage \in {"sent", "executed"} \/ Responded

(* The test "second tick is failed bc no response from puppeteer yet" of
   core.test.ts: a tick does not leave a working state before the transaction
   in progress is answered. *)
TickNeedsOwnAnswer ==
  [][fsm # "Idle" /\ fsm' # fsm => stage = "idle" \/ stage' = "idle"]_vars

(* The comment of the hook, "this goes to idle and then ruled in tick_idle": a
   failed transfer, redemption or claim is accepted, so that Idle can deal with it. *)
FailureIsRuledInIdle == stage # "lost"

-----------------------------------------------------------------------------
(***************************************************************************)
(* Properties: batches of withdrawals                                      *)
(***************************************************************************)

(* The open batch is the last one and only it is New; a failed batch is the one
   before it, and the only one that failed. *)
FrontierIsOpen ==
  /\ batches[unbondBatchId].status = "New"
  /\ \A b \in BatchId :
       /\ b < unbondBatchId => batches[b].status \notin {"New", "Absent"}
       /\ b > unbondBatchId => batches[b] = AbsentBatch
       /\ batches[b].status = "UnbondFailed" => failedBatchId = b
  /\ failedBatchId # NoBatch =>
       /\ unbondBatchId = failedBatchId + 1
       /\ batches[failedBatchId].status \in {"UnbondFailed", "UnbondRequested"}

(* PreviousStakingWasFailed for ever: when the answer to a delegation is a failure, no
   tick, hook, bond or message of the owner in this model ends Staking, forgets the answer,
   or has anything sent to the remote chain again.  (Only another puppeteer in core's
   config, which is constant here, could answer in its place.) *)
FailedStakingIsFinal ==
  [][fsm = "Staking" /\ stage = "idle" /\ AnsweredAs({"Delegate"}) /\ ~lastResponse.ok
       => fsm' = fsm /\ stage' = stage /\ lastResponse' = lastResponse]_vars

(* A batch whose undelegation was requested is the one the machine waits for in
   Unbonding: none is forgotten in that status, and there is one at a time. *)
RequestedIsUnderWay ==
  \A b \in BatchId : batches[b].status = "UnbondRequested" =>
    /\ fsm = "Unbonding"
    /\ \/ Outstanding({"Undelegate"}) /\ tx.ids = {b}
       \/ AnsweredAs({"Undelegate"}) /\ lastResponse.tx.ids = {b}

(* The same of the batches that are being paid out, as the hook's comment has it
   (a failed claim "goes to idle and then ruled in tick_idle"): a claim that pays
   them is under way, or answered and not looked at yet. *)
WithdrawingIsUnderWay ==
  \A b \in BatchId : batches[b].status \in {"Withdrawing", "WithdrawingEmergency"} =>
    \/ Outstanding({"Claim"}) /\ b \in tx.ids
    \/ AnsweredAs({"Claim"}) /\ b \in lastResponse.tx.ids

(* What query_exchange_rate takes for the amount not unbonded yet: it looks in three
   places, and only in Idle; in the other states it answers from its cache. *)
UnprocessedFound ==
  LET totalIf(b, status) == IF batches[b].status = status THEN batches[b].total ELSE 0
  IN    totalIf(unbondBatchId, "New")
       + (IF unbondBatchId > 0 THEN totalIf(unbondBatchId - 1, "UnbondRequested") ELSE 0)
       + (IF failedBatchId # NoBatch THEN batches[failedBatchId].total ELSE 0)

(* It is the amount of all the batches that wait for their undelegation, and none of
   them is counted in two of the places. *)
UnprocessedCountedOnce ==
  fsm = "Idle" =>
    UnprocessedFound = SumFunctionOnSet([b \in BatchId |-> batches[b].total],
      {b \in BatchId : batches[b].status \in {"New", "UnbondRequested", "UnbondFailed"}})

(* A batch is paid out at most once, never before it is released for payment, and
   has been when the contract calls it withdrawn. *)
WithdrawnIsPaid ==
  \A b \in BatchId :
    /\ paid[b] <= 1
    /\ paid[b] = 1 => batches[b].status \in {"Withdrawing", "WithdrawingEmergency",
                                             "Withdrawn", "WithdrawnEmergency"}
    /\ batches[b].status \in {"Withdrawn", "WithdrawnEmergency"} => paid[b] = 1

(* What withdrawn batches let their holders have was sent to the pump. *)
PumpedCoversWithdrawn ==
  SumFunctionOnSet([b \in BatchId |-> batches[b].unbonded],
                   {b \in BatchId : batches[b].status = "Withdrawn"}) <= pumped

(* A batch is paid out only when the remote chain has released what was undelegated for
   it: the release time is set by a tick after the undelegation was performed and answered,
   and is waited for by the clock and by the query. *)
PaidAfterMaturity ==
  \A b \in BatchId :
    batches[b].status \in {"Withdrawing", "WithdrawingEmergency", "Withdrawn", "WithdrawnEmergency"}
      => 0 < matures[b] /\ matures[b] < now

(* Known not to hold: the balance that a payout is computed from was read when its funds
   had matured (the code compares with the time at which it was delivered). *)
PaidFromMaturedFunds ==
  [][\A b \in BatchId :
       /\ batches[b].status = "Unbonding"
       /\ batches'[b].status \in {"Withdrawing", "WithdrawingEmergency"}
       => matures[b] <= icaQuery.read]_vars

(* The unbondings of a batch are an "always growing array" (state/core.rs). *)
ItemsNeverShrink ==
  [][\A b \in BatchId : batches'[b].items >= batches[b].items]_vars

(* Every batch goes through the life that module BatchLife promises (the formula is
   the conjunction of Life(b)!Spec over all batches, in the form TLC takes). *)
Life(b) == INSTANCE BatchLife WITH
  status <- batches[b].status, items <- batches[b].items, total <- batches[b].total,
  expected <- batches[b].expected, release <- batches[b].release,
  unbonded <- batches[b].unbonded, paid <- paid[b]

LifeStep == \A b \in BatchId : [Life(b)!Next]_(Life(b)!vars)

BatchesKeepLife ==
  /\ \A b \in BatchId : Life(b)!Init
  /\ [][LifeStep]_vars

-----------------------------------------------------------------------------
(***************************************************************************)
(* Properties: LSM shares and fees                                         *)
(***************************************************************************)

(* The total is what the two maps hold: no share is lost on its way from one to
   the other, or counted after it was redeemed. *)
LsmConserved ==
  totalLsm = SumFunction(pendingLsm) + SumFunction(lsmToRedeem)

(* The shares of an LSM transaction under way are still in the map it was made
   from: in full for a redemption, at least for a transfer (bonds go on). *)
LsmInFlightIsBooked ==
  /\ Outstanding({"Redeem"}) => tx.shares = lsmToRedeem
  /\ Outstanding({"IBCLsm"}) => \A d \in Denom : tx.shares[d] <= pendingLsm[d]

(* Collected fees are paid out once: after a transfer by a tick before the interval,
   the test "tick should fail" of core.test.ts finds nothing more to pay. *)
FeesPaidOnce == feesPaid <= collectedFees

=============================================================================
