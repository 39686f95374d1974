-------------------------------- MODULE Pool --------------------------------
(***************************************************************************)
(* The exchange rate: what a liquid token is worth, as the core contract   *)
(* computes it from what it can see, beside where the coins really are.    *)
(*                                                                         *)
(* Coins go from a bond to the contract, over IBC to the ICA account, into *)
(* delegations and back out through an unbonding batch.  The contract      *)
(* counts its own balance, its LSM shares and the delegations of the       *)
(* puppeteer's last query result; coins that are on their way are counted  *)
(* nowhere, and the working states answer from a cache.                    *)
(*                                                                         *)
(* The state machine of the core is the one of module Core, with fewer     *)
(* details: a working state has sent its transaction or had it answered,   *)
(* and transactions that fail are IBC transfers and undelegations only     *)
(* (the others are in Core and Protocol).  One batch at a time is past     *)
(* its undelegation.                                                       *)
(***************************************************************************)
EXTENDS Integers, FiniteSets

CONSTANTS
  ONE,                       \* Decimal::one(), 10^18 in the code
  MinStake,                  \* min_stake_amount
  Fees,                      \* what config.fee may be, of ONE
  BondAmounts, LsmAmounts, UnbondAmounts,
  RewardAmounts, SlashAmounts,
  Faults,                    \* a subset of Failures
  MaxBonded, MaxRewards, MaxDisturbances     \* bounds of the model

Failures == {"transfer", "undelegation"}

ASSUME PoolAssumption ==
  /\ ONE \in Nat \ {0} /\ MinStake \in Nat
  /\ Fees \subseteq Nat
  /\ BondAmounts \cup LsmAmounts \cup UnbondAmounts \subseteq Nat \ {0}
  /\ RewardAmounts \cup SlashAmounts \subseteq Nat
  /\ Faults \subseteq Failures
  /\ {MaxBonded, MaxRewards, MaxDisturbances} \subseteq Nat

VARIABLES
  fsm,          \* FSM
  answered,     \* the transaction of the working state is answered
  cached,       \* EXCHANGE_RATE
  supply,       \* of the liquid token
  bonded,       \* BONDED_AMOUNT
  coreBalance,  \* the contract's balance of the base denom
  totalLsm,     \* TOTAL_LSM_SHARES
  open,         \* the batch that takes unbondings
  batch,        \* the batch before it, until it is paid out
  inFlight,     \* amount of the transfer or delegation under way
  collectedFees, \* COLLECTED_FEES of the remote denom
  feesSent,     \* the transfer of collected fees that Idle has sent
  read,         \* what a relayer read last, for the next result
  known,        \* the puppeteer's DELEGATIONS_AND_BALANCE
  outdated,     \* an answer came after that result: LAST_ICA_BALANCE_CHANGE_HEIGHT
  redeem,       \* the redemption of LSM shares that Idle has sent
  ica, staked,  \* the remote chain: balance and delegations of the ICA account
  rewards,      \* history: all rewards so far
  disturbed,    \* history: what may have moved the rate
  lastRate      \* history: the rate when all coins, or no tokens, were last in sight

money == <<supply, bonded, coreBalance, totalLsm, open>>
remote == <<ica, staked>>
fees == <<collectedFees, feesSent>>
history == <<rewards, disturbed, lastRate>>
vars == <<fsm, answered, cached, money, batch, inFlight, fees, read, known, outdated, redeem, remote,
          history>>

-----------------------------------------------------------------------------

Disturbances == {"rewards", "slashing", "unseen", "skewed", "lost", "reopened", "restaked",
                 "stale", "fees"}
EmptyBatch == [total |-> 0, expected |-> 0]
(* "Matured" funds are on the ICA account, "Ready" ones in the last result too *)
Batches == [status : {"None", "UnbondRequested", "UnbondFailed", "Unbonding", "Matured", "Ready",
                      "Withdrawing"},
            total : Nat, expected : Nat, unbonded : Nat]
NoBatch == [status |-> "None", total |-> 0, expected |-> 0, unbonded |-> 0]

TypeOK ==
  /\ fsm \in {"Idle", "Claiming", "Transfering", "Staking", "Unbonding"}
  /\ answered \in BOOLEAN /\ outdated \in BOOLEAN
  /\ {cached, supply, bonded, coreBalance, totalLsm, inFlight, ica, staked, rewards, lastRate} \subseteq Nat
  /\ open \in [total : Nat, expected : Nat]
  /\ batch \in Batches
  /\ {collectedFees, feesSent} \subseteq Nat
  /\ known \in [delegations : Nat, balance : Nat] /\ read \in [delegations : Nat, balance : Nat]
  /\ redeem \in [stage : {"none", "sent", "executed"}, amount : Nat]
  /\ disturbed \subseteq Disturbances

NoRedeem == [stage |-> "none", amount |-> 0]

Init ==
  /\ fsm = "Idle" /\ answered = FALSE
  /\ cached = ONE
  /\ supply = 0 /\ bonded = 0 /\ coreBalance = 0 /\ totalLsm = 0 /\ inFlight = 0
  /\ open = EmptyBatch /\ batch = NoBatch
  /\ collectedFees = 0 /\ feesSent = 0
  /\ known = [delegations |-> 0, balance |-> 0] /\ read = known /\ outdated = FALSE
  /\ redeem = NoRedeem
  /\ ica = 0 /\ staked = 0
  /\ rewards = 0 /\ disturbed = {} /\ lastRate = ONE

-----------------------------------------------------------------------------
(***************************************************************************)
(* query_exchange_rate.  A worth below zero is an overflow: whoever asked  *)
(* for the rate is refused.                                                *)
(***************************************************************************)

Unprocessed_without_failed ==
  open.total + (IF batch.status = "UnbondRequested" THEN batch.total ELSE 0)
Unprocessed ==
  open.total + (IF batch.status \in {"UnbondRequested", "UnbondFailed"} THEN batch.total ELSE 0)

Worth == known.delegations + coreBalance + totalLsm - Unprocessed

IdleRate == IF supply = 0 THEN ONE ELSE (ONE * Worth) \div supply

RateIsDefined_wrapping == TRUE
RateIsDefined == fsm = "Idle" /\ supply > 0 => Worth >= 0
Rate == IF fsm = "Idle" THEN IdleRate ELSE cached

(* cache_exchange_rate: every tick of Idle begins with it, and fails when there is none *)
CacheRate == RateIsDefined /\ cached' = Rate

(* get_ica_balance_by_denom *)
IcaBalance == known.balance

(* amount * (Decimal::one() / rate), with the two truncations; a rate of zero is
   an error *)
Issued_rounded_up(amount, rate) == (amount * ((ONE * ONE) \div rate) + ONE - 1) \div ONE
Issued(amount, rate) == (amount * ((ONE * ONE) \div rate)) \div ONE

Promised(amount, rate) == (amount * rate) \div ONE

(* All coins are where the contract looks for them: what it counts as delegations
   and LSM shares is that, and no coin of the pool lies on the ICA account. *)
MaturedFunds == IF batch.status \in {"Matured", "Ready", "Withdrawing"} THEN batch.total ELSE 0
Redeemed == IF redeem.stage = "executed" THEN redeem.amount ELSE 0
InSight ==
  /\ fsm = "Idle"
  /\ known.delegations = staked - Redeemed
  /\ ica <= MaturedFunds

If(condition, disturbance) == IF condition THEN {disturbance} ELSE {}
Disturb(new) ==
  /\ disturbed' = disturbed \cup new
  /\ Cardinality(disturbed' \ {"rewards"}) <= MaxDisturbances

(* a user who is given the rate while something is out of sight disturbs it *)
Unseen == If(fsm = "Idle" /\ ~InSight, "unseen")

(* at the end of a step: the rate, if all is in sight, or if there are no tokens *)
Remember ==
  lastRate' = IF supply' = 0 \/ (InSight' /\ Worth' >= 0) THEN IdleRate' ELSE lastRate

-----------------------------------------------------------------------------
(***************************************************************************)
(* Users                                                                   *)
(***************************************************************************)

(* the token's mint and burn: only core may ask, and for nothing neither succeeds *)
Mint(amount) == amount > 0 /\ supply' = supply + amount
Burn(amount) == amount > 0 /\ supply' = supply - amount

(* execute_bond.  current_stake takes the coins just paid out of the sum. *)
Bond(amount) ==
  /\ RateIsDefined /\ Rate > 0
  /\ bonded + amount <= MaxBonded
  /\ bonded' = bonded + amount
  /\ Mint(Issued(amount, Rate))
  /\ Disturb(Unseen)

BondCoins(amount) ==
  /\ Bond(amount)
  /\ coreBalance' = coreBalance + amount
  /\ UNCHANGED <<fsm, answered, cached, totalLsm, open, batch, inFlight, fees, read, known, outdated,
                 redeem, remote, rewards>>

BondLsm(amount) ==
  /\ Bond(amount)
  /\ totalLsm' = totalLsm + amount
  /\ UNCHANGED <<fsm, answered, cached, coreBalance, open, batch, inFlight, fees, read, known,
                 outdated, redeem, remote, rewards>>

(* execute_unbond: the tokens are burned, their worth is written on a voucher.  The
   tokens are paid to the contract and are part of the supply while it computes. *)
Unbond(amount) ==
  /\ amount <= supply
  /\ RateIsDefined
  /\ open' = [total |-> open.total + amount, expected |-> open.expected + Promised(amount, Rate)]
  /\ Burn(amount)
  /\ Disturb(Unseen \cup If(Promised(amount, Rate) # amount, "skewed"))
  /\ UNCHANGED <<fsm, answered, cached, bonded, coreBalance, totalLsm, batch, inFlight, fees, read,
                 known, outdated, redeem, remote, rewards>>

-----------------------------------------------------------------------------
(***************************************************************************)
(* Ticks                                                                   *)
(***************************************************************************)

(* get_unbonding_msg: the failed batch first.  The next id is opened anew, which
   erases an open batch that is there already.  The state machine knows no way to
   Unbonding but from Staking: from elsewhere the tick fails. *)
AtMost(a, b) == IF a < b THEN a ELSE b

BatchToUnbond == IF batch.status = "UnbondFailed"
                 THEN [total |-> batch.total, expected |-> batch.expected]
                 ELSE open

RequestUnbonding ==
  LET b == BatchToUnbond IN
  /\ fsm = "Staking"
  /\ b.total > 0
  /\ batch.status \in {"None", "UnbondFailed"}
  /\ known.delegations >= b.total
  /\ batch' = [status |-> "UnbondRequested", total |-> b.total, expected |-> b.expected,
                unbonded |-> 0]
  /\ open' = EmptyBatch
  /\ Disturb(If(batch.status = "UnbondFailed" /\ open.total > 0, "reopened"))
  /\ fsm' = "Unbonding" /\ answered' = FALSE
  /\ inFlight' = 0

(* the window in which a batch may be requested opens and closes with time *)
UnbondOrRest ==
  \/ RequestUnbonding
  \/ /\ fsm' = "Idle" /\ answered' = FALSE /\ inFlight' = 0
     /\ UNCHANGED <<batch, open, disturbed>>

(* get_stake_msg, with the fee and the fee_address that are configured at the time: a fee
   is kept back, and booked when there is an address.  More than the balance is an overflow. *)
FeeOf(rate) == (rate * IcaBalance) \div ONE

Stake(rate, hasAddress) ==
  LET booked == IF hasAddress THEN FeeOf(rate) ELSE 0 IN
  /\ IcaBalance >= MinStake /\ IcaBalance > 0
  /\ ~outdated
  /\ FeeOf(rate) <= IcaBalance
  /\ inFlight' = IcaBalance - FeeOf(rate)
  /\ collectedFees' = collectedFees + booked
  /\ fsm' = "Staking" /\ answered' = FALSE
  /\ Disturb(If(batch.status = "Ready", "restaked") \cup If(booked > 0, "fees"))
  /\ UNCHANGED <<batch, open>>

StakeOrUnbondOrRest ==
  \/ \E rate \in Fees, hasAddress \in BOOLEAN : Stake(rate, hasAddress)
  \/ /\ IcaBalance < MinStake \/ IcaBalance = 0
     /\ UnbondOrRest
     /\ UNCHANGED collectedFees

(* get_transfer_pending_balance_msg *)
TransferOrStakeOrUnbondOrRest ==
  \/ /\ coreBalance > 0
     /\ inFlight' = coreBalance /\ coreBalance' = 0
     /\ fsm' = "Transfering" /\ answered' = FALSE
     /\ UNCHANGED <<batch, open, collectedFees, disturbed>>
  \/ /\ coreBalance = 0
     /\ StakeOrUnbondOrRest
     /\ UNCHANGED coreBalance

(* execute_tick_idle after the interval.  The claim always has validators here, and
   carries the payout of a batch whose funds the last query result has seen. *)
TickIdle ==
  /\ fsm = "Idle" /\ redeem.stage = "none" /\ feesSent = 0
  /\ CacheRate
  /\ Disturb(IF supply > 0 THEN Unseen ELSE {})
  /\ batch' = IF batch.status = "Ready"
              THEN [batch EXCEPT !.status = "Withdrawing",
                                 !.unbonded = AtMost(IcaBalance, batch.expected)]
              ELSE batch
  /\ fsm' = "Claiming" /\ answered' = FALSE
  /\ UNCHANGED <<money, inFlight, fees, read, known, outdated, redeem, remote, rewards>>

(* execute_tick_idle before the interval caches the rate too.  What it has collected in
   fees it sends, and does not forget: the next such tick sends it again. *)
TickFees ==
  /\ fsm = "Idle" /\ redeem.stage = "none" /\ feesSent = 0
  /\ collectedFees > 0
  /\ CacheRate
  /\ feesSent' = collectedFees
  /\ UNCHANGED <<fsm, answered, money, batch, inFlight, collectedFees, read, known, outdated, redeem,
                 remote, rewards, disturbed>>

TickRedeem ==
  /\ fsm = "Idle" /\ redeem.stage = "none"
  /\ collectedFees = 0
  /\ totalLsm > 0
  /\ CacheRate
  /\ redeem' = [stage |-> "sent", amount |-> totalLsm]
  /\ UNCHANGED <<fsm, answered, money, batch, inFlight, fees, read, known, outdated, remote, rewards,
                 disturbed>>

TickClaiming ==
  /\ fsm = "Claiming" /\ answered
  /\ TransferOrStakeOrUnbondOrRest
  /\ UNCHANGED <<cached, supply, bonded, totalLsm, feesSent, read, known, outdated, redeem, remote,
                 rewards>>

TickTransfering ==
  /\ fsm = "Transfering" /\ answered
  /\ StakeOrUnbondOrRest
  /\ UNCHANGED <<cached, supply, bonded, coreBalance, totalLsm, feesSent, read, known, outdated,
                 redeem, remote, rewards>>

TickStaking ==
  /\ fsm = "Staking" /\ answered
  /\ UnbondOrRest
  /\ UNCHANGED <<cached, supply, bonded, coreBalance, totalLsm, fees, read, known, outdated, redeem,
                 remote, rewards>>

(* a success that found the undelegation performed; a failure keeps the batch *)
TickUnbonding ==
  /\ fsm = "Unbonding" /\ answered
  /\ fsm' = "Idle" /\ answered' = FALSE
  /\ UNCHANGED <<cached, money, batch, inFlight, fees, read, known, outdated, redeem, remote, rewards,
                 disturbed>>

-----------------------------------------------------------------------------
(***************************************************************************)
(* The remote chain performs the transaction in progress and the puppeteer *)
(* reports it.  Nobody asks for the rate between the two but in Idle.      *)
(***************************************************************************)

Answering == fsm # "Idle" /\ ~answered /\ answered' = TRUE

(* execute_claim_rewards_and_optionaly_transfer: rewards come in, the payout goes out *)
Claimed(reward) ==
  /\ fsm = "Claiming" /\ Answering
  /\ rewards + reward <= MaxRewards
  /\ rewards' = rewards + reward
  /\ Disturb(If(reward > 0, "rewards"))
  /\ IF batch.status = "Withdrawing"
     THEN /\ ica >= batch.unbonded
          /\ ica' = ica - batch.unbonded + reward
          /\ batch' = NoBatch
     ELSE /\ ica' = ica + reward
          /\ UNCHANGED batch
  /\ outdated' = TRUE
  /\ UNCHANGED <<fsm, cached, money, inFlight, fees, read, known, redeem, staked>>

(* execute_ibc_transfer; one that times out is refunded to its sender, the puppeteer *)
Transferred ==
  /\ fsm = "Transfering" /\ Answering
  /\ \/ /\ ica' = ica + inFlight
        /\ outdated' = TRUE
        /\ UNCHANGED disturbed
     \/ /\ "transfer" \in Faults
        /\ Disturb({"lost"})
        /\ UNCHANGED <<ica, outdated>>
  /\ UNCHANGED <<fsm, cached, money, batch, inFlight, fees, read, known, redeem, staked, rewards>>

(* execute_delegate *)
Delegated ==
  /\ fsm = "Staking" /\ Answering
  /\ ica >= inFlight
  /\ ica' = ica - inFlight
  /\ staked' = staked + inFlight
  /\ outdated' = TRUE
  /\ UNCHANGED <<fsm, cached, money, batch, inFlight, fees, read, known, redeem, rewards, disturbed>>

(* execute_undelegate.  CalcWithdraw is asked for the batch's total of tokens, not for their worth *)
Undelegated ==
  /\ fsm = "Unbonding" /\ Answering
  /\ \/ /\ staked >= batch.total
        /\ staked' = staked - batch.total
        /\ batch' = [batch EXCEPT !.status = "Unbonding"]
        /\ outdated' = TRUE
     \/ /\ "undelegation" \in Faults \/ staked < batch.total
        /\ batch' = [batch EXCEPT !.status = "UnbondFailed"]
        /\ UNCHANGED <<staked, outdated>>
  /\ UNCHANGED <<fsm, cached, money, inFlight, fees, read, known, redeem, ica, rewards, disturbed>>

(* execute_redeem_shares *)
RedeemExecuted ==
  /\ redeem.stage = "sent"
  /\ redeem' = [redeem EXCEPT !.stage = "executed"]
  /\ staked' = staked + redeem.amount
  /\ UNCHANGED <<fsm, answered, cached, money, batch, inFlight, fees, read, known, outdated, ica,
                 rewards, disturbed>>

(* execute_puppeteer_hook *)
RedeemAnswered ==
  /\ redeem.stage = "executed"
  /\ totalLsm' = totalLsm - redeem.amount
  /\ redeem' = NoRedeem
  /\ outdated' = TRUE
  /\ UNCHANGED <<fsm, answered, cached, supply, bonded, coreBalance, open, batch, inFlight, fees,
                 read, known, remote, rewards, disturbed>>

(* execute_transfer.  When there is too little on the account, the puppeteer is never
   answered (Protocol) and sends nothing more. *)
FeesPaid ==
  /\ feesSent > 0
  /\ ica >= feesSent
  /\ ica' = ica - feesSent
  /\ feesSent' = 0
  /\ outdated' = TRUE
  /\ UNCHANGED <<fsm, answered, cached, money, batch, inFlight, collectedFees, read, known, redeem,
                 staked, rewards, disturbed>>

(* unbonded funds arrive on the ICA account *)
Mature ==
  /\ batch.status = "Unbonding"
  /\ batch' = [batch EXCEPT !.status = "Matured"]
  /\ ica' = ica + batch.total
  /\ UNCHANGED <<fsm, answered, cached, money, inFlight, fees, read, known, outdated, redeem, staked,
                 rewards, disturbed>>

(* KVQueryResult: both values at once, as they were when a relayer read them.  The result
   has the height and the time of its arrival, so that it is taken for a new one. *)
InRemote == [delegations |-> staked, balance |-> ica]

ReadRemote ==
  /\ read' = InRemote
  /\ UNCHANGED <<fsm, answered, cached, money, batch, inFlight, fees, known, outdated, redeem, remote,
                 rewards, disturbed>>

QueryResult ==
  /\ known' = read
  /\ outdated' = FALSE
  /\ Disturb(If(read # InRemote, "stale"))
  /\ batch' = IF batch.status = "Matured" THEN [batch EXCEPT !.status = "Ready"] ELSE batch
  /\ UNCHANGED <<fsm, answered, cached, money, inFlight, fees, read, redeem, remote, rewards>>

(* exchanged non-native rewards are paid to the contract *)
RewardsExchanged(reward) ==
  /\ rewards + reward <= MaxRewards
  /\ rewards' = rewards + reward
  /\ coreBalance' = coreBalance + reward
  /\ Disturb({"rewards"})
  /\ UNCHANGED <<fsm, answered, cached, supply, bonded, totalLsm, open, batch, inFlight, fees, read,
                 known, outdated, redeem, remote>>

Slash(amount) ==
  /\ amount <= staked
  /\ staked' = staked - amount
  /\ Disturb({"slashing"})
  /\ UNCHANGED <<fsm, answered, cached, money, batch, inFlight, fees, read, known, outdated, redeem,
                 ica, rewards>>

-----------------------------------------------------------------------------

Users ==
  \/ \E a \in BondAmounts : BondCoins(a)
  \/ \E a \in LsmAmounts : BondLsm(a)
  \/ \E a \in UnbondAmounts : Unbond(a)

Tick ==
  \/ TickIdle \/ TickFees \/ TickRedeem
  \/ TickClaiming \/ TickTransfering \/ TickStaking \/ TickUnbonding

Remote ==
  \/ \E r \in RewardAmounts : Claimed(r)
  \/ \E r \in RewardAmounts \ {0} : RewardsExchanged(r)
  \/ \E s \in SlashAmounts : Slash(s)
  \/ Transferred \/ Delegated \/ Undelegated
  \/ RedeemExecuted \/ RedeemAnswered \/ FeesPaid
  \/ Mature \/ ReadRemote \/ QueryResult

Next == (Users \/ Tick \/ Remote) /\ Remember

Spec == Init /\ [][Next]_vars

-----------------------------------------------------------------------------
(***************************************************************************)
(* Properties                                                              *)
(***************************************************************************)

(* Nothing but the named disturbances moves the rate: without them, and with all
   coins in sight, it is exactly one after any sequence of bonds, unbondings, LSM
   bonds and cycles of the machine.  No coin is counted twice on its way from the
   contract to the delegations, and every burned token leaves the sum.  A fee that
   get_stake_msg books disturbs; one that it keeps back without an address to pay
   it to does not: it is staked later. *)
RateIsOneUndisturbed ==
  disturbed = {} /\ InSight => Worth = supply

(* Rewards only raise it: with no disturbance but them (no booked fee, no slashing), and
   as long as there are tokens, whoever waits until all coins are in sight again never
   finds a lower rate than before, in spite of the truncations of every bond.  (When the
   last token is burned, the rate starts at one again.) *)
RateNeverFalls ==
  [][disturbed' \subseteq {"rewards"} /\ InSight' /\ supply' > 0 => lastRate' >= lastRate]_vars

(* A bond takes nothing from the holders: in whatever state, disturbed or not, the
   tokens issued are not worth more than the coins paid, at the rate before it, so
   that this rate does not fall. *)
BondTakesNothing ==
  [][supply' > supply /\ supply > 0 /\ fsm = "Idle" => IdleRate' >= IdleRate]_vars

(* The comment at the end of query_exchange_rate: "arithmetic operations order is
   important here as we don't want to overflow". *)
RateNeverOverflows == RateIsDefined

(* A batch's slashing_effect, as its name has it: it is paid less than it was
   promised only if there was a slashing (or an old result was taken for a new one). *)
SlashingEffectMeansSlashing ==
  batch.status = "Withdrawing" /\ batch.unbonded < batch.expected =>
    "slashing" \in disturbed \/ "stale" \in disturbed

=============================================================================
