----------------------------- MODULE PoolProofs -----------------------------
(***************************************************************************)
(* Proofs about the exchange rate, for any precision of decimals and any   *)
(* amounts, and for any number of bonds, unbondings and cycles: the bounds *)
(* of the model are not used.                                              *)
(*                                                                         *)
(* The argument is a ledger.  Free is what the pool holds, wherever it is, *)
(* less what its batches are owed.  As long as nothing but rewards         *)
(* disturbs the pool, its books are right (Booked): then a bond adds to    *)
(* Free what it pays, an unbonding takes as many coins as tokens, a reward *)
(* adds to it, and no other step moves it.  When all coins are in sight,   *)
(* Free is what the contract computes as Worth.  Undisturbed, Free is the  *)
(* supply; with rewards, it is at least the supply at the rate last seen.  *)
(* A fee that is booked disturbs, one that is kept back stays in Free.     *)
(***************************************************************************)
EXTENDS Pool, TLAPS

-----------------------------------------------------------------------------
(***************************************************************************)
(* Arithmetic                                                              *)
(***************************************************************************)

(* A division rounds down. *)
LEMMA DivRoundsDown ==
  ASSUME NEW a \in Nat, NEW b \in Nat \ {0}
  PROVE  a \div b \in Nat /\ b * (a \div b) <= a /\ a < b * (a \div b + 1)
  OBVIOUS

LEMMA ProductsGrow ==
  ASSUME NEW a \in Nat, NEW b \in Nat, NEW c \in Nat, a <= b
  PROVE  c * a <= c * b /\ a * c <= b * c
  OBVIOUS

LEMMA ProductIsNat == \A a, b \in Nat : a * b \in Nat
  OBVIOUS

(* It is at least any number that fits as often. *)
LEMMA DivAtLeast ==
  ASSUME NEW a \in Nat, NEW b \in Nat \ {0}, NEW r \in Nat, r * b <= a
  PROVE  a \div b >= r
<1> DEFINE q == a \div b
<1>1. q \in Nat /\ a < b * (q + 1)
  BY DivRoundsDown
<1>2. ASSUME q < r PROVE FALSE
  <2> HIDE DEF q
  <2>1. q + 1 \in Nat /\ q + 1 <= r
    BY <1>1, <1>2
  <2>2. b * (q + 1) <= b * r
    BY <2>1, ProductsGrow
  <2>3. b * r = r * b
    OBVIOUS
  <2>4. b * (q + 1) \in Nat /\ b * r \in Nat
    BY <2>1
  <2> QED BY <1>1, <2>2, <2>3, <2>4
<1> QED BY <1>1, <1>2

(* An exact division. *)
LEMMA DivExact ==
  ASSUME NEW a \in Nat, NEW b \in Nat \ {0}
  PROVE  (b * a) \div b = a /\ (a * b) \div b = a
  OBVIOUS

(* The tokens issued for an amount are worth no more than it. *)
LEMMA IssuedIsWorth ==
  ASSUME PoolAssumption, NEW a \in Nat, NEW r \in Nat \ {0}
  PROVE  Issued(a, r) \in Nat /\ r * Issued(a, r) <= ONE * a
<1> DEFINE q == (ONE * ONE) \div r
           m == (a * q) \div ONE
<1>0. ONE \in Nat \ {0}
  BY DEF PoolAssumption
<1>1. ONE * ONE \in Nat
  BY <1>0
<1>2. q \in Nat /\ r * q <= ONE * ONE
  BY <1>1, DivRoundsDown
<1> HIDE DEF q
<1>3. a * q \in Nat
  BY <1>2
<1>4. m \in Nat /\ ONE * m <= a * q
  BY <1>0, <1>3, DivRoundsDown
<1> HIDE DEF m
<1>5. r * (ONE * m) <= r * (a * q)
  <2>1. ONE * m \in Nat
    BY <1>0, <1>4
  <2> QED BY <1>3, <1>4, <2>1, ProductsGrow
<1>6. r * (a * q) = a * (r * q) /\ r * (ONE * m) = ONE * (r * m) /\ a * (ONE * ONE) = ONE * (ONE * a)
  BY <1>0, <1>2, <1>4
<1>7. a * (r * q) <= a * (ONE * ONE)
  <2>1. r * q \in Nat
    BY <1>2
  <2> QED BY <1>1, <1>2, <2>1, ProductsGrow
<1>8. ONE * (r * m) <= ONE * (ONE * a)
  <2> DEFINE x == r * (ONE * m)  y == a * (r * q)  z == a * (ONE * ONE)
  <2>1. x \in Nat /\ y \in Nat /\ z \in Nat
    BY <1>0, <1>2, <1>4, ProductIsNat
  <2>2. x <= y /\ y <= z
    BY <1>5, <1>6, <1>7
  <2>3. x <= z
    <3> HIDE DEF x, y, z
    <3> QED BY <2>1, <2>2
  <2> QED BY <1>6, <2>3
<1>9. r * m <= ONE * a
  <2> DEFINE x == r * m  y == ONE * a
  <2>1. x \in Nat /\ y \in Nat /\ ONE * x <= ONE * y
    BY <1>0, <1>4, <1>8, ProductIsNat
  <2> HIDE DEF x, y
  <2>2. ASSUME y < x PROVE FALSE
    <3>1. ONE * x = ONE * y + ONE * (x - y)
      BY <1>0, <2>1
    <3>2. ONE * (x - y) > 0
      BY <1>0, <2>1, <2>2
    <3> QED BY <1>0, <2>1, <3>1, <3>2, ProductIsNat
  <2>3. x <= y
    BY <2>1, <2>2
  <2> QED BY <2>3 DEF x, y
<1> QED BY <1>4, <1>9 DEF Issued, q, m

(* At a rate of one, tokens and coins are the same number. *)
LEMMA AtRateOne ==
  ASSUME PoolAssumption, NEW a \in Nat
  PROVE  Issued(a, ONE) = a /\ Promised(a, ONE) = a
<1>1. ONE \in Nat \ {0}
  BY DEF PoolAssumption
<1>2. (ONE * ONE) \div ONE = ONE /\ (a * ONE) \div ONE = a
  BY <1>1, DivExact
<1> QED BY <1>2 DEF Issued, Promised

LEMMA PromisedIsNat ==
  ASSUME PoolAssumption, NEW a \in Nat, NEW r \in Nat
  PROVE  Promised(a, r) \in Nat
<1>1. ONE \in Nat \ {0} /\ a * r \in Nat
  BY ProductIsNat DEF PoolAssumption
<1> QED BY <1>1, DivRoundsDown DEF Promised

-----------------------------------------------------------------------------
(***************************************************************************)
(* Types                                                                   *)
(***************************************************************************)

(* What is under way fits the state it is in. *)
UnderWay ==
  /\ redeem.stage # "none" => redeem.amount <= totalLsm
  /\ fsm = "Unbonding" /\ ~answered => batch.status = "UnbondRequested"
  /\ batch.status = "Withdrawing" => fsm = "Claiming" /\ ~answered

MoneyTypes ==
  /\ supply \in Nat /\ bonded \in Nat /\ coreBalance \in Nat /\ totalLsm \in Nat
  /\ open \in [total : Nat, expected : Nat]

OtherTypes ==
  /\ fsm \in {"Idle", "Claiming", "Transfering", "Staking", "Unbonding"}
  /\ answered \in BOOLEAN /\ outdated \in BOOLEAN
  /\ cached \in Nat /\ inFlight \in Nat /\ ica \in Nat /\ staked \in Nat /\ rewards \in Nat
  /\ batch \in Batches
  /\ known \in [delegations : Nat, balance : Nat]
  /\ redeem \in [stage : {"none", "sent", "executed"}, amount : Nat]

FeeTypes ==
  /\ collectedFees \in Nat /\ feesSent \in Nat
  /\ read \in [delegations : Nat, balance : Nat]

(* the types but for those, and for the history variables that nothing reads *)
Types == MoneyTypes /\ OtherTypes

LEMMA TypesOfAll == TypeOK <=> Types /\ FeeTypes /\ lastRate \in Nat /\ disturbed \subseteq Disturbances
  BY DEF TypeOK, Types, MoneyTypes, OtherTypes, FeeTypes

LEMMA WorthIsInt == ASSUME Types PROVE Worth \in Int
<1>1. /\ open.total \in Nat /\ batch.total \in Nat /\ known.delegations \in Nat
      /\ coreBalance \in Nat /\ totalLsm \in Nat
  BY DEF Types, MoneyTypes, OtherTypes, Batches
<1> QED BY <1>1 DEF Worth, Unprocessed

(* A rate that is defined is a number. *)
LEMMA IdleRateIsNat ==
  ASSUME PoolAssumption, Types, supply = 0 \/ Worth >= 0
  PROVE  IdleRate \in Nat
<1>1. ONE \in Nat \ {0} /\ supply \in Nat /\ Worth \in Int
  BY WorthIsInt DEF PoolAssumption, Types, MoneyTypes
<1>2. CASE supply = 0
  BY <1>1, <1>2 DEF IdleRate
<1>3. CASE supply # 0
  <2>1. Worth \in Nat
    BY <1>1, <1>3
  <2>2. ONE * Worth \in Nat
    BY <1>1, <2>1, ProductIsNat
  <2> QED BY <1>1, <1>3, <2>2, DivRoundsDown DEF IdleRate
<1> QED BY <1>2, <1>3

LEMMA RateIsNat ==
  ASSUME PoolAssumption, Types, RateIsDefined
  PROVE  Rate \in Nat
<1>1. CASE fsm = "Idle"
  <2>1. supply = 0 \/ Worth >= 0
    BY <1>1 DEF RateIsDefined, Types, MoneyTypes
  <2> QED BY <1>1, <2>1, IdleRateIsNat DEF Rate
<1>2. CASE fsm # "Idle"
  BY <1>2 DEF Rate, Types, OtherTypes
<1> QED BY <1>1, <1>2

(* What a bond does *)
LEMMA BondIs ==
  ASSUME PoolAssumption, Types, NEW a \in Nat, Bond(a)
  PROVE  /\ supply' = supply + Issued(a, Rate) /\ Issued(a, Rate) \in Nat
         /\ bonded' \in Nat /\ Rate \in Nat \ {0}
<1>1. Rate \in Nat \ {0}
  BY RateIsNat DEF Bond
<1>2. Issued(a, Rate) \in Nat
  BY <1>1, IssuedIsWorth
<1> QED BY <1>1, <1>2 DEF Bond, Mint, Types, MoneyTypes

LEMMA UsersKeepTypes ==
  ASSUME PoolAssumption, Types, UnderWay, Users
  PROVE  Types' /\ UnderWay'
<1>0. MoneyTypes /\ OtherTypes
  BY DEF Types
<1>1. ASSUME NEW a \in BondAmounts, BondCoins(a) PROVE Types' /\ UnderWay'
  <2>1. a \in Nat
    BY DEF PoolAssumption
  <2>2. supply' \in Nat /\ bonded' \in Nat /\ coreBalance' \in Nat
    BY <1>0, <1>1, <2>1, BondIs DEF BondCoins, MoneyTypes
  <2>3. UNCHANGED <<fsm, answered, cached, totalLsm, open, batch, inFlight, known, outdated, redeem,
                    ica, staked, rewards>>
    BY <1>1 DEF BondCoins, remote
  <2> QED BY <1>0, <2>2, <2>3 DEF Types, MoneyTypes, OtherTypes, UnderWay
<1>2. ASSUME NEW a \in LsmAmounts, BondLsm(a) PROVE Types' /\ UnderWay'
  <2>1. a \in Nat
    BY DEF PoolAssumption
  <2>2. supply' \in Nat /\ bonded' \in Nat /\ totalLsm' \in Nat /\ totalLsm' >= totalLsm
    BY <1>0, <1>2, <2>1, BondIs DEF BondLsm, MoneyTypes
  <2>3. UNCHANGED <<fsm, answered, cached, coreBalance, open, batch, inFlight, known, outdated, redeem,
                    ica, staked, rewards>>
    BY <1>2 DEF BondLsm, remote
  <2>4. redeem.amount \in Nat /\ totalLsm \in Nat
    BY <1>0 DEF MoneyTypes, OtherTypes
  <2>5. UnderWay'
    BY <2>2, <2>3, <2>4 DEF UnderWay
  <2> QED BY <1>0, <2>2, <2>3, <2>5 DEF Types, MoneyTypes, OtherTypes
<1>3. ASSUME NEW a \in UnbondAmounts, Unbond(a) PROVE Types' /\ UnderWay'
  <2>1. a \in Nat
    BY DEF PoolAssumption
  <2>2. Promised(a, Rate) \in Nat
    BY <1>3, <2>1, RateIsNat, PromisedIsNat DEF Unbond
  <2>3. supply' \in Nat
    BY <1>0, <1>3, <2>1 DEF Unbond, Burn, MoneyTypes
  <2>4. open' \in [total : Nat, expected : Nat]
    BY <1>0, <1>3, <2>1, <2>2 DEF Unbond, MoneyTypes
  <2>5. UNCHANGED <<fsm, answered, cached, bonded, coreBalance, totalLsm, batch, inFlight, known, outdated,
                    redeem, ica, staked, rewards>>
    BY <1>3 DEF Unbond, remote
  <2> QED BY <1>0, <2>3, <2>4, <2>5 DEF Types, MoneyTypes, OtherTypes, UnderWay
<1> QED BY <1>1, <1>2, <1>3 DEF Users

(* What the machine does after it has claimed, transferred or staked *)
LEMMA UnbondOrRestKeeps ==
  ASSUME Types, UnderWay, UnbondOrRest, batch.status # "Withdrawing"
  PROVE  /\ fsm' \in {"Idle", "Unbonding"} /\ answered' = FALSE /\ inFlight' = 0
         /\ batch' \in Batches /\ open' \in [total : Nat, expected : Nat]
         /\ fsm' = "Unbonding" => batch'.status = "UnbondRequested"
         /\ batch'.status # "Withdrawing"
<1>1. CASE RequestUnbonding
  <2>1. /\ BatchToUnbond.total \in Nat /\ BatchToUnbond.expected \in Nat
    BY DEF Types, MoneyTypes, OtherTypes, Batches, BatchToUnbond
  <2>2. EmptyBatch \in [total : Nat, expected : Nat]
    BY DEF EmptyBatch
  <2> QED BY <1>1, <2>1, <2>2 DEF RequestUnbonding, Batches
<1>2. CASE ~RequestUnbonding
  BY <1>2 DEF UnbondOrRest, Types, MoneyTypes, OtherTypes
<1> QED BY <1>1, <1>2

(* A fee is a part of the balance. *)
LEMMA FeeIsPart ==
  ASSUME PoolAssumption, Types, NEW rate \in Fees, NEW hasAddress, Stake(rate, hasAddress)
  PROVE  /\ FeeOf(rate) \in Nat /\ inFlight' \in Nat
         /\ inFlight' + FeeOf(rate) = known.balance
<1>1. ONE \in Nat \ {0} /\ rate \in Nat /\ known.balance \in Nat
  BY DEF PoolAssumption, Types, OtherTypes
<1>2. rate * known.balance \in Nat
  BY <1>1, ProductIsNat
<1>3. FeeOf(rate) \in Nat
  BY <1>1, <1>2, DivRoundsDown DEF FeeOf, IcaBalance
<1>4. FeeOf(rate) <= known.balance /\ inFlight' = known.balance - FeeOf(rate)
  BY DEF Stake, IcaBalance
<1> QED BY <1>1, <1>3, <1>4

LEMMA StakeOrUnbondOrRestKeeps ==
  ASSUME PoolAssumption, Types, UnderWay, StakeOrUnbondOrRest, batch.status # "Withdrawing"
  PROVE  /\ fsm' \in {"Idle", "Unbonding", "Staking"} /\ answered' = FALSE /\ inFlight' \in Nat
         /\ batch' \in Batches /\ open' \in [total : Nat, expected : Nat]
         /\ fsm' = "Unbonding" => batch'.status = "UnbondRequested"
         /\ batch'.status # "Withdrawing"
<1>1. CASE UnbondOrRest
  BY <1>1, UnbondOrRestKeeps
<1>2. CASE ~UnbondOrRest
  <2> PICK rate \in Fees, hasAddress \in BOOLEAN : Stake(rate, hasAddress)
    BY <1>2 DEF StakeOrUnbondOrRest
  <2>1. inFlight' \in Nat
    BY FeeIsPart
  <2>2. fsm' = "Staking" /\ answered' = FALSE /\ UNCHANGED <<batch, open>>
    BY DEF Stake
  <2> QED BY <2>1, <2>2 DEF Types, MoneyTypes, OtherTypes
<1> QED BY <1>1, <1>2

LEMMA TickKeepsTypes ==
  ASSUME PoolAssumption, Types, UnderWay, Tick
  PROVE  Types' /\ UnderWay'
<1>0. MoneyTypes /\ OtherTypes
  BY DEF Types
<1>1. CASE TickIdle
  <2>1. cached' \in Nat
    BY <1>1, RateIsNat DEF TickIdle, CacheRate
  <2>2. batch' \in Batches /\ (batch'.status \in {batch.status, "Withdrawing"})
    <3>1. AtMost(IcaBalance, batch.expected) \in Nat
      BY <1>0 DEF AtMost, IcaBalance, OtherTypes, Batches
    <3> QED BY <1>0, <1>1, <3>1 DEF TickIdle, OtherTypes, Batches
  <2>3. fsm' = "Claiming" /\ answered' = FALSE
        /\ UNCHANGED <<supply, bonded, coreBalance, totalLsm, open, inFlight, known, outdated, redeem,
                       ica, staked, rewards>>
    BY <1>1 DEF TickIdle, money, remote
  <2> QED BY <1>0, <2>1, <2>2, <2>3 DEF Types, MoneyTypes, OtherTypes, UnderWay
<1>2. CASE TickRedeem
  <2>1. cached' \in Nat
    BY <1>2, RateIsNat DEF TickRedeem, CacheRate
  <2>2. redeem' = [stage |-> "sent", amount |-> totalLsm]
        /\ UNCHANGED <<fsm, answered, supply, bonded, coreBalance, totalLsm, open, batch, inFlight, known,
                       outdated, ica, staked, rewards>>
    BY <1>2 DEF TickRedeem, money, remote
  <2>3. redeem' \in [stage : {"none", "sent", "executed"}, amount : Nat] /\ redeem'.amount <= totalLsm
    BY <1>0, <2>2 DEF MoneyTypes
  <2> QED BY <1>0, <2>1, <2>2, <2>3 DEF Types, MoneyTypes, OtherTypes, UnderWay
<1>3. CASE TickClaiming
  <2>1. batch.status # "Withdrawing"
    BY <1>3 DEF TickClaiming, UnderWay
  <2>2. UNCHANGED <<cached, supply, bonded, totalLsm, known, outdated, redeem, ica, staked, rewards>>
    BY <1>3 DEF TickClaiming, remote
  <2>3. coreBalance' \in Nat /\ inFlight' \in Nat /\ answered' = FALSE /\ batch' \in Batches
        /\ fsm' \in {"Transfering", "Idle", "Unbonding", "Staking"}
        /\ open' \in [total : Nat, expected : Nat]
        /\ (fsm' = "Unbonding" => batch'.status = "UnbondRequested")
        /\ batch'.status # "Withdrawing"
    <3>1. CASE StakeOrUnbondOrRest /\ UNCHANGED coreBalance
      BY <1>0, <2>1, <3>1, StakeOrUnbondOrRestKeeps DEF MoneyTypes
    <3>2. CASE ~(StakeOrUnbondOrRest /\ UNCHANGED coreBalance)
      BY <1>0, <1>3, <2>1, <3>2 DEF TickClaiming, TransferOrStakeOrUnbondOrRest, MoneyTypes, OtherTypes
    <3> QED BY <3>1, <3>2
  <2> QED BY <1>0, <2>2, <2>3 DEF Types, MoneyTypes, OtherTypes, UnderWay
<1>4. CASE TickTransfering \/ TickStaking
  <2>1. batch.status # "Withdrawing" /\ (StakeOrUnbondOrRest \/ UnbondOrRest)
    BY <1>4 DEF TickTransfering, TickStaking, UnderWay
  <2>2. UNCHANGED <<cached, supply, bonded, coreBalance, totalLsm, known, outdated, redeem, ica, staked,
                    rewards>>
    BY <1>4 DEF TickTransfering, TickStaking, remote
  <2>3. inFlight' \in Nat /\ answered' = FALSE /\ batch' \in Batches
        /\ fsm' \in {"Idle", "Unbonding", "Staking"}
        /\ open' \in [total : Nat, expected : Nat]
        /\ (fsm' = "Unbonding" => batch'.status = "UnbondRequested")
        /\ batch'.status # "Withdrawing"
    <3>1. CASE StakeOrUnbondOrRest
      BY <2>1, <3>1, StakeOrUnbondOrRestKeeps
    <3>2. CASE UnbondOrRest
      BY <2>1, <3>2, UnbondOrRestKeeps
    <3> QED BY <2>1, <3>1, <3>2
  <2> QED BY <1>0, <2>2, <2>3 DEF Types, MoneyTypes, OtherTypes, UnderWay
<1>5. CASE TickUnbonding
  <2>1. fsm = "Unbonding" /\ fsm' = "Idle" /\ answered' = FALSE
        /\ UNCHANGED <<cached, supply, bonded, coreBalance, totalLsm, open, batch, inFlight, known, outdated,
                       redeem, ica, staked, rewards>>
    BY <1>5 DEF TickUnbonding, money, remote
  <2> QED BY <1>0, <2>1 DEF Types, MoneyTypes, OtherTypes, UnderWay
<1>6. CASE TickFees
  <2>1. cached' \in Nat
    BY <1>6, RateIsNat DEF TickFees, CacheRate
  <2>2. UNCHANGED <<fsm, answered, supply, bonded, coreBalance, totalLsm, open, batch, inFlight, known,
                    outdated, redeem, ica, staked, rewards>>
    BY <1>6 DEF TickFees, money, remote
  <2> QED BY <1>0, <2>1, <2>2 DEF Types, MoneyTypes, OtherTypes, UnderWay
<1> QED BY <1>1, <1>2, <1>3, <1>4, <1>5, <1>6 DEF Tick

LEMMA RemoteKeepsTypes ==
  ASSUME PoolAssumption, Types, FeeTypes, UnderWay, Remote
  PROVE  Types' /\ UnderWay'
<1>0. /\ MoneyTypes /\ OtherTypes /\ NoBatch \in Batches /\ batch.total \in Nat /\ batch.unbonded \in Nat
      /\ redeem.amount \in Nat
  BY DEF Types, OtherTypes, NoBatch, Batches
<1>1. ASSUME NEW reward \in RewardAmounts, Claimed(reward) PROVE Types' /\ UnderWay'
  <2>1. reward \in Nat
    BY DEF PoolAssumption
  <2>2. ica' \in Nat /\ rewards' \in Nat
    BY <1>0, <1>1, <2>1 DEF Claimed, OtherTypes
  <2>3. batch' \in Batches /\ batch'.status # "Withdrawing" /\ fsm # "Unbonding"
    BY <1>0, <1>1 DEF Claimed, OtherTypes, NoBatch
  <2>4. answered' = TRUE /\ outdated' = TRUE
        /\ UNCHANGED <<fsm, cached, supply, bonded, coreBalance, totalLsm, open, inFlight, known, redeem, staked>>
    BY <1>1 DEF Claimed, Answering, money
  <2> QED BY <1>0, <2>2, <2>3, <2>4 DEF Types, MoneyTypes, OtherTypes, UnderWay
<1>2. ASSUME NEW reward \in RewardAmounts, RewardsExchanged(reward) PROVE Types' /\ UnderWay'
  <2>1. reward \in Nat
    BY DEF PoolAssumption
  <2>2. coreBalance' \in Nat /\ rewards' \in Nat
    BY <1>0, <1>2, <2>1 DEF RewardsExchanged, MoneyTypes, OtherTypes
  <2>3. UNCHANGED <<fsm, answered, cached, supply, bonded, totalLsm, open, batch, inFlight, known, outdated,
                    redeem, ica, staked>>
    BY <1>2 DEF RewardsExchanged, remote
  <2> QED BY <1>0, <2>2, <2>3 DEF Types, MoneyTypes, OtherTypes, UnderWay
<1>3. ASSUME NEW amount \in SlashAmounts, Slash(amount) PROVE Types' /\ UnderWay'
  <2>1. amount \in Nat
    BY DEF PoolAssumption
  <2>2. staked' \in Nat
    BY <1>0, <1>3, <2>1 DEF Slash, OtherTypes
  <2>3. UNCHANGED <<fsm, answered, cached, supply, bonded, coreBalance, totalLsm, open, batch, inFlight, known,
                    outdated, redeem, ica, rewards>>
    BY <1>3 DEF Slash, money
  <2> QED BY <1>0, <2>2, <2>3 DEF Types, MoneyTypes, OtherTypes, UnderWay
<1>4. CASE Transferred
  <2>1. ica' \in Nat /\ outdated' \in BOOLEAN /\ answered' = TRUE /\ fsm = "Transfering"
    <3>1. ica' \in Nat
      BY <1>0, <1>4 DEF Transferred, OtherTypes
    <3>2. outdated' = TRUE \/ outdated' = outdated
      BY <1>4 DEF Transferred
    <3> QED BY <1>0, <1>4, <3>1, <3>2 DEF Transferred, Answering, OtherTypes
  <2>2. UNCHANGED <<fsm, cached, supply, bonded, coreBalance, totalLsm, open, batch, inFlight, known, redeem,
                    staked, rewards>>
    BY <1>4 DEF Transferred, money
  <2> QED BY <1>0, <2>1, <2>2 DEF Types, MoneyTypes, OtherTypes, UnderWay
<1>5. CASE Delegated
  <2>1. ica' \in Nat /\ staked' \in Nat /\ outdated' \in BOOLEAN /\ answered' = TRUE /\ fsm = "Staking"
    BY <1>0, <1>5 DEF Delegated, Answering, OtherTypes
  <2>2. UNCHANGED <<fsm, cached, supply, bonded, coreBalance, totalLsm, open, batch, inFlight, known, redeem,
                    rewards>>
    BY <1>5 DEF Delegated, money
  <2> QED BY <1>0, <2>1, <2>2 DEF Types, MoneyTypes, OtherTypes, UnderWay
<1>6. CASE Undelegated
  <2>1. staked' \in Nat /\ outdated' \in BOOLEAN /\ answered' = TRUE /\ fsm = "Unbonding"
    <3>1. staked' \in Nat
      BY <1>0, <1>6 DEF Undelegated, OtherTypes
    <3>2. outdated' = TRUE \/ outdated' = outdated
      BY <1>6 DEF Undelegated
    <3> QED BY <1>0, <1>6, <3>1, <3>2 DEF Undelegated, Answering, OtherTypes
  <2>2. batch' \in Batches /\ batch'.status # "Withdrawing"
    BY <1>0, <1>6 DEF Undelegated, OtherTypes, Batches
  <2>3. UNCHANGED <<fsm, cached, supply, bonded, coreBalance, totalLsm, open, inFlight, known, redeem, ica,
                    rewards>>
    BY <1>6 DEF Undelegated, money
  <2> QED BY <1>0, <2>1, <2>2, <2>3 DEF Types, MoneyTypes, OtherTypes, UnderWay
<1>7. CASE RedeemExecuted
  <2>1. redeem' \in [stage : {"none", "sent", "executed"}, amount : Nat] /\ redeem'.amount = redeem.amount
        /\ redeem.stage = "sent" /\ staked' \in Nat
    BY <1>0, <1>7 DEF RedeemExecuted, OtherTypes
  <2>2. UNCHANGED <<fsm, answered, cached, supply, bonded, coreBalance, totalLsm, open, batch, inFlight, known,
                    outdated, ica, rewards>>
    BY <1>7 DEF RedeemExecuted, money
  <2> QED BY <1>0, <2>1, <2>2 DEF Types, MoneyTypes, OtherTypes, UnderWay
<1>8. CASE RedeemAnswered
  <2>1. redeem.amount <= totalLsm /\ totalLsm' = totalLsm - redeem.amount /\ outdated' = TRUE
    BY <1>8 DEF RedeemAnswered, UnderWay
  <2>2. totalLsm' \in Nat
    BY <1>0, <2>1 DEF MoneyTypes
  <2>3. redeem' = [stage |-> "none", amount |-> 0]
    BY <1>8 DEF RedeemAnswered, NoRedeem
  <2>4. UNCHANGED <<fsm, answered, cached, supply, bonded, coreBalance, open, batch, inFlight, known,
                    ica, staked, rewards>>
    BY <1>8 DEF RedeemAnswered, remote
  <2> QED BY <1>0, <2>1, <2>2, <2>3, <2>4 DEF Types, MoneyTypes, OtherTypes, UnderWay
<1>9. CASE Mature
  <2>1. batch' \in Batches /\ batch'.status = "Matured" /\ batch.status = "Unbonding" /\ ica' \in Nat
    BY <1>0, <1>9 DEF Mature, OtherTypes, Batches
  <2>2. UNCHANGED <<fsm, answered, cached, supply, bonded, coreBalance, totalLsm, open, inFlight, known,
                    outdated, redeem, staked, rewards>>
    BY <1>9 DEF Mature, money
  <2> QED BY <1>0, <2>1, <2>2 DEF Types, MoneyTypes, OtherTypes, UnderWay
<1>10. CASE QueryResult
  <2>1. batch' \in Batches /\ (batch'.status = "Ready" \/ batch'.status = batch.status)
        /\ (batch.status = "UnbondRequested" => batch'.status = batch.status)
    BY <1>0, <1>10 DEF QueryResult, OtherTypes, Batches
  <2>2. known' \in [delegations : Nat, balance : Nat] /\ outdated' = FALSE
    BY <1>10 DEF QueryResult, FeeTypes
  <2>3. UNCHANGED <<fsm, answered, cached, supply, bonded, coreBalance, totalLsm, open, inFlight,
                    redeem, ica, staked, rewards>>
    BY <1>10 DEF QueryResult, money, remote
  <2> QED BY <1>0, <2>1, <2>2, <2>3 DEF Types, MoneyTypes, OtherTypes, UnderWay
<1>11. CASE FeesPaid
  <2>1. ica' \in Nat /\ outdated' = TRUE
    BY <1>0, <1>11 DEF FeesPaid, OtherTypes, FeeTypes
  <2>2. UNCHANGED <<fsm, answered, cached, supply, bonded, coreBalance, totalLsm, open, batch, inFlight, known,
                    redeem, staked, rewards>>
    BY <1>11 DEF FeesPaid, money
  <2> QED BY <1>0, <2>1, <2>2 DEF Types, MoneyTypes, OtherTypes, UnderWay
<1>12. CASE ReadRemote
  <2>1. UNCHANGED <<fsm, answered, cached, supply, bonded, coreBalance, totalLsm, open, batch, inFlight, known,
                    outdated, redeem, ica, staked, rewards>>
    BY <1>12 DEF ReadRemote, money, remote
  <2> QED BY <1>0, <2>1 DEF Types, MoneyTypes, OtherTypes, UnderWay
<1> QED BY <1>1, <1>2, <1>3, <1>4, <1>5, <1>6, <1>7, <1>8, <1>9, <1>10, <1>11, <1>12 DEF Remote

(* the numbers in the state *)
LEMMA Numbers ==
  ASSUME Types
  PROVE  /\ supply \in Nat /\ coreBalance \in Nat /\ totalLsm \in Nat /\ staked \in Nat /\ ica \in Nat
         /\ inFlight \in Nat /\ open.total \in Nat /\ open.expected \in Nat
         /\ batch.total \in Nat /\ batch.expected \in Nat /\ batch.unbonded \in Nat
         /\ known.delegations \in Nat /\ known.balance \in Nat /\ redeem.amount \in Nat
         /\ cached \in Nat
  BY DEF Types, MoneyTypes, OtherTypes, Batches

(* Fees, and what is read of the remote chain *)
LEMMA FeeTypesStay ==
  ASSUME PoolAssumption, Types, FeeTypes, Users \/ Tick \/ Remote
  PROVE  FeeTypes'
<1>1. CASE Users
  BY <1>1 DEF Users, BondCoins, BondLsm, Unbond, fees, FeeTypes
<1>2. ASSUME StakeOrUnbondOrRest PROVE collectedFees' \in Nat
  <2>1. CASE UNCHANGED collectedFees
    BY <2>1 DEF FeeTypes
  <2>2. CASE collectedFees' # collectedFees
    <3> PICK rate \in Fees, hasAddress \in BOOLEAN : Stake(rate, hasAddress)
      BY <1>2, <2>2 DEF StakeOrUnbondOrRest
    <3>1. FeeOf(rate) \in Nat
      BY FeeIsPart
    <3> QED BY <3>1 DEF Stake, FeeTypes
  <2> QED BY <2>1, <2>2
<1>3. CASE TickClaiming \/ TickTransfering
  <2>1. collectedFees' \in Nat
    BY <1>2, <1>3 DEF TickClaiming, TickTransfering, TransferOrStakeOrUnbondOrRest, FeeTypes
  <2> QED BY <1>3, <2>1 DEF TickClaiming, TickTransfering, FeeTypes
<1>4. CASE Tick /\ ~(TickClaiming \/ TickTransfering)
  BY <1>4 DEF Tick, TickIdle, TickFees, TickRedeem, TickStaking, TickUnbonding, fees, FeeTypes
<1>5. CASE Remote
  <2>1. CASE ReadRemote
    BY <2>1, Numbers DEF ReadRemote, InRemote, fees, FeeTypes
  <2>2. CASE ~ReadRemote
    BY <1>5, <2>2
       DEF Remote, Claimed, RewardsExchanged, Slash, Transferred, Delegated, Undelegated, RedeemExecuted,
           RedeemAnswered, FeesPaid, Mature, QueryResult, fees, FeeTypes
  <2> QED BY <2>1, <2>2
<1> QED BY <1>1, <1>3, <1>4, <1>5

-----------------------------------------------------------------------------
(***************************************************************************)
(* The pool undisturbed: where the coins are, and what is owed for them    *)
(***************************************************************************)
Travelling == IF fsm = "Transfering" /\ ~answered THEN inFlight ELSE 0
Holdings == coreBalance + totalLsm + staked - Redeemed + ica + Travelling
BatchOwed == IF batch.status \in {"None", "Unbonding"} THEN 0 ELSE batch.total
MaturedUnseen == IF batch.status = "Matured" THEN batch.total ELSE 0

(* Without a booked fee none is collected, or sent. *)
NoFees == collectedFees = 0 /\ feesSent = 0

(* As long as nothing but rewards disturbs the pool, a token is promised and paid a coin, *)
Quiet == disturbed \subseteq {"rewards"}

Even ==
  /\ open.expected = open.total /\ batch.expected = batch.total
  /\ batch.status = "Withdrawing" => batch.unbonded = batch.total

(* and matured funds are never staked again. *)
Reserved ==
  /\ MaturedFunds <= ica
  /\ batch.status = "Ready" => known.balance >= batch.total
  /\ ~outdated => known.balance + MaturedUnseen <= ica
  /\ fsm = "Staking" /\ ~answered => inFlight + MaturedFunds <= ica

Booked == Even /\ Reserved

(* What is left when all batches are paid.  Every step is followed by what it does to it. *)
Free == Holdings - open.total - BatchOwed

(* Without rewards there is one coin for a token, *)
OneForOne ==
  /\ Free = supply
  /\ fsm # "Idle" => cached = ONE

(* and with them at least as many as when all coins, or no tokens, were last in sight. *)
NoLess ==
  /\ lastRate >= ONE /\ lastRate * supply <= ONE * Free
  /\ supply = 0 => lastRate = ONE
  /\ fsm # "Idle" => cached >= lastRate

LEMMA StatusOfBatch ==
  ASSUME Types
  PROVE  batch.status \in {"None", "UnbondRequested", "UnbondFailed", "Unbonding", "Matured", "Ready",
                           "Withdrawing"}
  BY DEF Types, OtherTypes, Batches

LEMMA FreeIsInt == ASSUME Types PROVE Free \in Int
<1>1. Redeemed \in Nat /\ Travelling \in Nat /\ BatchOwed \in Nat
  BY Numbers DEF Redeemed, Travelling, BatchOwed
<1> QED BY <1>1, Numbers DEF Free, Holdings

LEMMA WorthIsFree ==
  ASSUME Types, Reserved, InSight
  PROVE  Worth = Free
<1>1. /\ known.delegations = staked - Redeemed /\ ica <= MaturedFunds /\ MaturedFunds <= ica
      /\ Travelling = 0
  BY DEF InSight, Reserved, Travelling
<1>2. Free = (coreBalance + totalLsm + staked - Redeemed + ica + Travelling) - open.total - BatchOwed
  BY DEF Free, Holdings
<1>3. Redeemed \in Nat /\ MaturedFunds \in Nat /\ BatchOwed \in Nat
  BY Numbers DEF Redeemed, MaturedFunds, BatchOwed
<1> DEFINE unprocessed == IF batch.status \in {"UnbondRequested", "UnbondFailed"} THEN batch.total ELSE 0
<1>4. BatchOwed = unprocessed + MaturedFunds /\ unprocessed \in Nat
  BY Numbers, StatusOfBatch DEF BatchOwed, MaturedFunds
<1>5. Worth = known.delegations + coreBalance + totalLsm - (open.total + unprocessed)
  BY DEF Worth, Unprocessed
<1>6. /\ coreBalance \in Nat /\ totalLsm \in Nat /\ staked \in Nat /\ ica \in Nat /\ open.total \in Nat
      /\ ica = MaturedFunds
  BY <1>1, <1>3, Numbers
<1> HIDE DEF unprocessed
<1> DEFINE o == open.total  r == Redeemed  m == MaturedFunds
<1>7. /\ o \in Nat /\ r \in Nat /\ m \in Nat
      /\ Worth = (staked - r) + coreBalance + totalLsm - (o + unprocessed)
      /\ Free = (coreBalance + totalLsm + staked - r + m + 0) - o - (unprocessed + m)
  BY <1>1, <1>2, <1>3, <1>4, <1>5, <1>6
<1> HIDE DEF o, r, m
<1> QED BY <1>4, <1>6, <1>7

(* A step that disturbs nothing had nothing disturbed before; with rewards likewise. *)
LEMMA DisturbIsNew ==
  ASSUME NEW new, Disturb(new)
  PROVE  /\ disturbed' = {} => disturbed = {} /\ new = {}
         /\ Quiet' => Quiet /\ new \subseteq {"rewards"}
  BY DEF Disturb, Quiet

LEMMA QuietlySeen ==
  ASSUME Unseen \subseteq {"rewards"}
  PROVE  fsm = "Idle" => InSight
  BY DEF Unseen, If

(* A bond adds what is paid, *)
LEMMA BondsAdd ==
  ASSUME PoolAssumption, Types, Booked, Quiet',
         NEW a \in Nat, BondCoins(a) \/ BondLsm(a)
  PROVE  /\ Booked' /\ Free' = Free + a /\ Bond(a) /\ UNCHANGED <<fsm, cached>>
         /\ fsm = "Idle" => InSight
<1>1. Bond(a) /\ UNCHANGED <<fsm, cached>>
  BY DEF BondCoins, BondLsm
<1>2. fsm = "Idle" => InSight
  BY <1>1, DisturbIsNew, QuietlySeen DEF Bond
<1>3. /\ coreBalance' + totalLsm' = coreBalance + totalLsm + a
      /\ coreBalance' \in Nat /\ totalLsm' \in Nat
  BY Numbers DEF BondCoins, BondLsm
<1>4. UNCHANGED <<fsm, answered, cached, open, batch, inFlight, known, outdated, redeem, ica, staked>>
  BY DEF BondCoins, BondLsm, remote
<1>5. Booked'
  BY <1>4 DEF Booked, Even, Reserved, MaturedFunds, MaturedUnseen
<1>6. Travelling' = Travelling /\ Redeemed' = Redeemed /\ BatchOwed' = BatchOwed
      /\ Travelling \in Nat /\ Redeemed \in Nat /\ BatchOwed \in Nat
  BY <1>4, Numbers DEF Travelling, Redeemed, BatchOwed
<1>7. Free' = Free + a
  BY <1>3, <1>4, <1>6, Numbers DEF Free, Holdings
<1> QED BY <1>1, <1>2, <1>5, <1>7

(* and an unbonding takes as many coins as tokens. *)
LEMMA UnbondTakes ==
  ASSUME PoolAssumption, Types, Booked, Quiet',
         NEW a \in Nat, Unbond(a)
  PROVE  /\ Booked' /\ Free' = Free - a /\ supply' = supply - a /\ a <= supply
         /\ UNCHANGED <<fsm, cached>>
<1>1. Promised(a, Rate) = a
  <2>1. Disturb(Unseen \cup If(Promised(a, Rate) # a, "skewed"))
    BY DEF Unbond
  <2> QED BY <2>1, DisturbIsNew DEF If
<1>2. /\ open' = [total |-> open.total + a, expected |-> open.expected + a]
      /\ supply' = supply - a /\ a <= supply
  BY <1>1 DEF Unbond, Burn
<1>3. UNCHANGED <<fsm, answered, cached, coreBalance, totalLsm, batch, inFlight, known, outdated,
                  redeem, ica, staked>>
  BY DEF Unbond, remote
<1>4. Booked' /\ open'.total = open.total + a
  BY <1>2, <1>3 DEF Booked, Even, Reserved, MaturedFunds, MaturedUnseen
<1>5. Travelling' = Travelling /\ Redeemed' = Redeemed /\ BatchOwed' = BatchOwed
      /\ Travelling \in Nat /\ Redeemed \in Nat /\ BatchOwed \in Nat
  BY <1>3, Numbers DEF Travelling, Redeemed, BatchOwed
<1>6. Free' = Free - a
  BY <1>3, <1>4, <1>5, Numbers DEF Free, Holdings
<1> QED BY <1>2, <1>3, <1>4, <1>6

(* What is promised stays, and what is owed, when a step of the machine may take the open
   batch or send transactions. *)
OwedStays ==
  /\ Even'
  /\ MaturedFunds' = MaturedFunds /\ MaturedUnseen' = MaturedUnseen
  /\ batch'.status = "Ready" => batch.status = "Ready" /\ batch'.total = batch.total
  /\ open'.total + BatchOwed' = open.total + BatchOwed
  /\ open'.total \in Nat /\ BatchOwed' \in Nat

LEMMA OwedStaysAlone ==
  ASSUME Types, Even, UNCHANGED <<open, batch>>
  PROVE  OwedStays
<1>1. open.total \in Nat /\ BatchOwed \in Nat
  BY Numbers DEF BatchOwed
<1> QED BY <1>1 DEF OwedStays, Even, MaturedFunds, MaturedUnseen, BatchOwed

LEMMA UnbondOrRestKeepsOwed ==
  ASSUME Types, Even, UnbondOrRest, Quiet'
  PROVE  OwedStays /\ fsm' \in {"Idle", "Unbonding"}
<1>1. CASE RequestUnbonding
  <2>1. /\ batch.status \in {"None", "UnbondFailed"}
        /\ ~(batch.status = "UnbondFailed" /\ open.total > 0)
    BY <1>1, DisturbIsNew DEF RequestUnbonding, If
  <2>2. /\ batch' = [status |-> "UnbondRequested", total |-> BatchToUnbond.total,
                     expected |-> BatchToUnbond.expected, unbonded |-> 0]
        /\ open' = [total |-> 0, expected |-> 0] /\ fsm' = "Unbonding"
    BY <1>1 DEF RequestUnbonding, EmptyBatch
  <2>3. BatchToUnbond.total = open.total + BatchOwed /\ BatchToUnbond.expected = BatchToUnbond.total
    BY <2>1, Numbers DEF BatchToUnbond, BatchOwed, Even
  <2>4. open'.total = 0 /\ BatchOwed' = BatchToUnbond.total /\ BatchToUnbond.total \in Nat
    BY <2>2, <2>3, Numbers DEF BatchOwed, BatchToUnbond
  <2>5. MaturedFunds' = 0 /\ MaturedFunds = 0 /\ MaturedUnseen' = 0 /\ MaturedUnseen = 0
    BY <2>1, <2>2 DEF MaturedFunds, MaturedUnseen
  <2>6. Even'
    BY <2>2, <2>3 DEF Even
  <2> QED BY <2>1, <2>2, <2>3, <2>4, <2>5, <2>6 DEF OwedStays
<1>2. CASE ~RequestUnbonding
  <2>1. UNCHANGED <<open, batch, disturbed>> /\ fsm' = "Idle"
    BY <1>2 DEF UnbondOrRest
  <2> QED BY <2>1, OwedStaysAlone
<1> QED BY <1>1, <1>2

LEMMA StakeOrUnbondOrRestKeepsOwed ==
  ASSUME PoolAssumption, Types, Booked, StakeOrUnbondOrRest, batch.status # "Withdrawing",
         UNCHANGED <<known, ica>>, Quiet'
  PROVE  /\ OwedStays
         /\ fsm' \in {"Idle", "Unbonding", "Staking"}
         /\ fsm' = "Staking" => inFlight' + MaturedFunds <= ica
<1>1. CASE UnbondOrRest
  BY <1>1, UnbondOrRestKeepsOwed DEF Booked
<1>2. CASE ~UnbondOrRest
  <2> PICK rate \in Fees, hasAddress \in BOOLEAN : Stake(rate, hasAddress)
    BY <1>2 DEF StakeOrUnbondOrRest
  <2>1. ~outdated /\ fsm' = "Staking" /\ UNCHANGED <<batch, open>>
    BY DEF Stake
  <2>2. batch.status # "Ready" /\ batch.status # "Withdrawing"
    <3>1. PICK booked :
            Disturb(If(batch.status = "Ready", "restaked") \cup If(booked > 0, "fees"))
      BY DEF Stake
    <3> QED BY <3>1, DisturbIsNew DEF If
  <2>3. MaturedFunds = MaturedUnseen /\ MaturedFunds \in Nat
    BY <2>2, Numbers DEF MaturedFunds, MaturedUnseen
  <2>4. inFlight' + MaturedFunds <= ica
    <3>1. FeeOf(rate) \in Nat /\ inFlight' \in Nat /\ inFlight' + FeeOf(rate) = known.balance
      BY FeeIsPart
    <3>2. known.balance + MaturedFunds <= ica
      BY <2>1, <2>3 DEF Booked, Reserved
    <3> QED BY <2>3, <3>1, <3>2, Numbers
  <2> QED BY <2>1, <2>2, <2>4, OwedStaysAlone DEF Booked
<1> QED BY <1>1, <1>2

(* A step that moves no coins and keeps what is owed *)
LEMMA MachineKeeps ==
  ASSUME Types, Types', Booked, OwedStays,
         UNCHANGED <<supply, totalLsm, known, outdated, redeem, ica, staked>>,
         coreBalance' + Travelling' = coreBalance + Travelling,
         fsm' = "Staking" /\ ~answered' => inFlight' + MaturedFunds <= ica
  PROVE  Booked' /\ Free' = Free
<1>1. Even'
  BY DEF OwedStays
<1>2. Reserved'
  BY DEF OwedStays, Booked, Reserved
<1>3. /\ Redeemed' = Redeemed /\ Redeemed \in Nat /\ Travelling \in Nat /\ BatchOwed \in Nat
      /\ supply' \in Nat /\ coreBalance' \in Nat /\ totalLsm' \in Nat /\ staked' \in Nat /\ ica' \in Nat
      /\ open'.total \in Nat /\ BatchOwed' \in Nat /\ Travelling' \in Nat
  <2>1. Redeemed' = Redeemed /\ Redeemed \in Nat /\ Travelling \in Nat /\ BatchOwed \in Nat
    BY Numbers DEF Redeemed, Travelling, BatchOwed
  <2>2. /\ supply' \in Nat /\ coreBalance' \in Nat /\ totalLsm' \in Nat /\ staked' \in Nat /\ ica' \in Nat
        /\ inFlight' \in Nat
    BY DEF Types, MoneyTypes, OtherTypes
  <2>3. Travelling' \in Nat
    BY <2>2 DEF Travelling
  <2> QED BY <2>1, <2>2, <2>3 DEF OwedStays
<1>4. open'.total + BatchOwed' = open.total + BatchOwed
  BY DEF OwedStays
<1>5. Holdings' = Holdings
  BY <1>3, Numbers DEF Holdings
<1>6. Free' = Free
  <2> DEFINE h == Holdings
  <2>1. h \in Int
    BY <1>3, Numbers DEF Holdings
  <2>2. Holdings' = h
    BY <1>5
  <2> HIDE DEF h
  <2> QED BY <1>3, <1>4, <2>1, <2>2, Numbers DEF Free, h
<1> QED BY <1>1, <1>2, <1>6 DEF Booked

(* Ticks leave it, *)
LEMMA TicksKeep ==
  ASSUME PoolAssumption, Types, Types', UnderWay, Booked, Tick, Quiet'
  PROVE  Booked' /\ Free' = Free
<1>0. Even /\ Reserved
  BY DEF Booked
<1>1. CASE TickIdle
  <2>2. /\ fsm = "Idle" /\ fsm' = "Claiming"
        /\ UNCHANGED <<supply, coreBalance, totalLsm, open, inFlight, known, outdated, redeem, ica, staked>>
    BY <1>1 DEF TickIdle, money, remote
  <2>3. batch'.total = batch.total /\ batch'.expected = batch.expected
        /\ \/ batch'.status = batch.status /\ batch.status # "Ready" /\ batch' = batch
           \/ batch.status = "Ready" /\ batch'.status = "Withdrawing" /\ batch'.unbonded = batch.total
    <3>1. CASE batch.status = "Ready"
      <4>1. AtMost(IcaBalance, batch.expected) = batch.total
        BY <1>0, <3>1, Numbers DEF Even, Reserved, AtMost, IcaBalance
      <4>2. batch' = [batch EXCEPT !.status = "Withdrawing", !.unbonded = batch.total]
        BY <1>1, <3>1, <4>1 DEF TickIdle
      <4> QED BY <3>1, <4>2 DEF Types, OtherTypes, Batches
    <3>2. CASE batch.status # "Ready"
      BY <1>1, <3>2 DEF TickIdle
    <3> QED BY <3>1, <3>2
  <2>4. OwedStays
    <3>1. Even'
      BY <1>0, <2>2, <2>3 DEF Even
    <3>2. MaturedFunds' = MaturedFunds /\ MaturedUnseen' = MaturedUnseen /\ BatchOwed' = BatchOwed
          /\ BatchOwed \in Nat
      BY <2>3, Numbers DEF MaturedFunds, MaturedUnseen, BatchOwed
    <3> QED BY <2>2, <2>3, <3>1, <3>2, Numbers DEF OwedStays
  <2>5. Travelling' = Travelling
    BY <2>2 DEF Travelling
  <2> QED BY <2>2, <2>4, <2>5, MachineKeeps
<1>2. CASE TickRedeem
  <2>1. /\ fsm = "Idle" /\ redeem.stage = "none" /\ redeem'.stage = "sent"
        /\ UNCHANGED <<fsm, answered, supply, coreBalance, totalLsm, open, batch, inFlight, known, outdated,
                       ica, staked>>
    BY <1>2 DEF TickRedeem, money, remote
  <2>2. Even' /\ Reserved'
    BY <1>0, <2>1 DEF Even, Reserved, MaturedFunds, MaturedUnseen
  <2>3. Redeemed' = Redeemed /\ Travelling' = Travelling /\ BatchOwed' = BatchOwed
    BY <2>1 DEF Redeemed, Travelling, BatchOwed
  <2>4. Free' = Free
    BY <2>1, <2>3 DEF Free, Holdings
  <2> QED BY <2>2, <2>4 DEF Booked
<1>3. CASE TickClaiming
  <2>1. /\ fsm = "Claiming" /\ answered /\ batch.status # "Withdrawing" /\ TransferOrStakeOrUnbondOrRest
        /\ UNCHANGED <<cached, supply, totalLsm, known, outdated, redeem, ica, staked>>
    BY <1>3 DEF TickClaiming, remote, UnderWay
  <2>2. CASE StakeOrUnbondOrRest /\ UNCHANGED coreBalance
    <3>1. OwedStays /\ (fsm' = "Staking" => inFlight' + MaturedFunds <= ica)
          /\ fsm' \in {"Idle", "Unbonding", "Staking"}
      BY <2>1, <2>2, StakeOrUnbondOrRestKeepsOwed
    <3>2. Travelling' = 0 /\ Travelling = 0
      BY <2>1, <3>1 DEF Travelling
    <3> QED BY <2>1, <2>2, <3>1, <3>2, MachineKeeps
  <2>3. CASE ~(StakeOrUnbondOrRest /\ UNCHANGED coreBalance)
    <3>1. /\ inFlight' = coreBalance /\ coreBalance' = 0 /\ fsm' = "Transfering" /\ answered' = FALSE
          /\ UNCHANGED <<batch, open>>
      BY <2>1, <2>3 DEF TransferOrStakeOrUnbondOrRest
    <3>2. OwedStays
      BY <1>0, <2>1, <3>1, OwedStaysAlone
    <3>3. Travelling' = coreBalance /\ Travelling = 0
      BY <2>1, <3>1 DEF Travelling
    <3> QED BY <2>1, <3>1, <3>2, <3>3, MachineKeeps, Numbers
  <2> QED BY <2>2, <2>3
<1>4. CASE TickTransfering \/ TickStaking
  <2>1. /\ fsm \in {"Transfering", "Staking"} /\ answered /\ batch.status # "Withdrawing"
        /\ UNCHANGED <<cached, supply, coreBalance, totalLsm, known, outdated, redeem, ica, staked>>
    BY <1>4 DEF TickTransfering, TickStaking, remote, UnderWay
  <2>2. OwedStays /\ (fsm' = "Staking" => inFlight' + MaturedFunds <= ica)
        /\ fsm' \in {"Idle", "Unbonding", "Staking"}
    <3>1. CASE TickTransfering
      BY <2>1, <3>1, StakeOrUnbondOrRestKeepsOwed DEF TickTransfering
    <3>2. CASE TickStaking
      BY <1>0, <2>1, <3>2, UnbondOrRestKeepsOwed DEF TickStaking
    <3> QED BY <1>4, <3>1, <3>2
  <2>3. Travelling' = 0 /\ Travelling = 0
    BY <2>1, <2>2 DEF Travelling
  <2> QED BY <2>1, <2>2, <2>3, MachineKeeps
<1>5. CASE TickUnbonding
  <2>1. /\ fsm = "Unbonding" /\ fsm' = "Idle"
        /\ UNCHANGED <<cached, supply, coreBalance, totalLsm, open, batch, inFlight, known, outdated, redeem,
                       ica, staked>>
    BY <1>5 DEF TickUnbonding, money, remote
  <2>2. OwedStays
    BY <1>0, <2>1, OwedStaysAlone
  <2>3. Travelling' = 0 /\ Travelling = 0
    BY <2>1 DEF Travelling
  <2> QED BY <2>1, <2>2, <2>3, MachineKeeps
<1>6. CASE TickFees
  <2>1. UNCHANGED <<fsm, answered, supply, coreBalance, totalLsm, open, batch, inFlight, known, outdated,
                    redeem, ica, staked>>
    BY <1>6 DEF TickFees, money, remote
  <2>2. OwedStays
    BY <1>0, <2>1, OwedStaysAlone
  <2>3. Travelling' = Travelling /\ (fsm' = "Staking" /\ ~answered' => inFlight' + MaturedFunds <= ica)
    BY <1>0, <2>1 DEF Travelling, Reserved
  <2> QED BY <2>1, <2>2, <2>3, MachineKeeps
<1> QED BY <1>1, <1>2, <1>3, <1>4, <1>5, <1>6 DEF Tick

(* and so does the remote chain, but for the rewards that come in. *)
LEMMA RemoteAdds ==
  ASSUME PoolAssumption, Types, NoFees, UnderWay, Booked, Remote, Quiet'
  PROVE  Booked' /\ \E r \in Nat : Free' = Free + r /\ (disturbed' = {} => r = 0)
<1>0. Even /\ Reserved /\ Free \in Int
  BY FreeIsInt DEF Booked
<1>1. Redeemed \in Nat /\ Travelling \in Nat /\ BatchOwed \in Nat /\ MaturedFunds \in Nat /\ MaturedUnseen \in Nat
  BY Numbers DEF Redeemed, Travelling, BatchOwed, MaturedFunds, MaturedUnseen
<1>2. ASSUME Booked', Free' = Free
       PROVE  Booked' /\ \E r \in Nat : Free' = Free + r /\ (disturbed' = {} => r = 0)
  <2>1. Free' = Free + 0
    BY <1>0, <1>2
  <2> QED BY <1>2, <2>1
<1>3. ASSUME NEW reward \in RewardAmounts, Claimed(reward)
      PROVE  Booked' /\ Free' = Free + reward /\ reward \in Nat /\ (disturbed' = {} => reward = 0)
  <2>1. reward \in Nat /\ (disturbed' = {} => reward = 0)
    <3>1. reward \in Nat /\ (disturbed' = {} => If(reward > 0, "rewards") = {})
      BY <1>3, DisturbIsNew DEF Claimed, PoolAssumption
    <3> QED BY <3>1 DEF If
  <2>2. /\ fsm = "Claiming" /\ outdated' = TRUE
        /\ UNCHANGED <<fsm, cached, supply, coreBalance, totalLsm, open, inFlight, known, redeem, staked>>
    BY <1>3 DEF Claimed, money
  <2>3. Redeemed' = Redeemed /\ Travelling' = 0 /\ Travelling = 0
    BY <2>2 DEF Redeemed, Travelling
  <2>4. CASE batch.status = "Withdrawing"
    <3>1. /\ ica' = ica - batch.unbonded + reward /\ batch.unbonded = batch.total
          /\ batch' = [status |-> "None", total |-> 0, expected |-> 0, unbonded |-> 0]
      BY <1>0, <1>3, <2>4 DEF Claimed, NoBatch, Even
    <3>2. MaturedFunds = batch.total /\ MaturedFunds' = 0 /\ BatchOwed = batch.total /\ BatchOwed' = 0
      BY <2>4, <3>1 DEF MaturedFunds, BatchOwed
    <3>3. ica' = ica - batch.total + reward /\ ica' \in Nat
      BY <1>0, <2>1, <3>1, <3>2, Numbers DEF Reserved
    <3>4. Even' /\ Reserved'
      BY <1>0, <2>2, <3>1, <3>2, <3>3 DEF Even, Reserved
    <3>5. Free' = Free + reward
      BY <1>1, <2>1, <2>2, <2>3, <3>2, <3>3, Numbers DEF Free, Holdings
    <3> QED BY <2>1, <3>4, <3>5 DEF Booked
  <2>5. CASE batch.status # "Withdrawing"
    <3>1. ica' = ica + reward /\ batch' = batch
      BY <1>3, <2>5 DEF Claimed
    <3>2. Even' /\ Reserved'
      BY <1>0, <1>1, <2>1, <2>2, <3>1, Numbers DEF Even, Reserved, MaturedFunds
    <3>3. BatchOwed' = BatchOwed
      BY <3>1 DEF BatchOwed
    <3>4. Free' = Free + reward
      BY <1>1, <2>1, <2>2, <2>3, <3>1, <3>3, Numbers DEF Free, Holdings
    <3> QED BY <2>1, <3>2, <3>4 DEF Booked
  <2> QED BY <2>4, <2>5
<1>4. ASSUME NEW reward \in RewardAmounts, RewardsExchanged(reward)
      PROVE  Booked' /\ Free' = Free + reward /\ reward \in Nat /\ disturbed' # {}
  <2>1. reward \in Nat /\ disturbed' # {}
    BY <1>4, DisturbIsNew DEF RewardsExchanged, PoolAssumption
  <2>2. /\ coreBalance' = coreBalance + reward
        /\ UNCHANGED <<fsm, answered, cached, supply, totalLsm, open, batch, inFlight, known, outdated,
                       redeem, ica, staked>>
    BY <1>4 DEF RewardsExchanged, remote
  <2>3. Booked'
    BY <1>0, <2>2 DEF Booked, Even, Reserved, MaturedFunds, MaturedUnseen
  <2>4. Redeemed' = Redeemed /\ Travelling' = Travelling /\ BatchOwed' = BatchOwed
    BY <2>2 DEF Redeemed, Travelling, BatchOwed
  <2>5. Free' = Free + reward
    BY <1>1, <2>1, <2>2, <2>4, Numbers DEF Free, Holdings
  <2> QED BY <2>1, <2>3, <2>5
<1>5. ASSUME NEW amount, Slash(amount) PROVE FALSE
  BY <1>5, DisturbIsNew DEF Slash
<1>6. CASE Transferred
  <2>1. /\ fsm = "Transfering" /\ ~answered /\ answered' = TRUE
        /\ UNCHANGED <<fsm, cached, supply, coreBalance, totalLsm, open, batch, inFlight, known, redeem, staked>>
    BY <1>6 DEF Transferred, Answering, money
  <2>2. ica' = ica + inFlight /\ outdated' = TRUE
    <3>1. ~Disturb({"lost"})
      BY DisturbIsNew
    <3> QED BY <1>6, <3>1 DEF Transferred
  <2>3. /\ Travelling = inFlight /\ Travelling' = 0 /\ Redeemed' = Redeemed /\ BatchOwed' = BatchOwed
        /\ MaturedFunds' = MaturedFunds
    BY <2>1 DEF Travelling, Redeemed, BatchOwed, MaturedFunds
  <2>4. Even' /\ Reserved'
    BY <1>0, <1>1, <2>1, <2>2, <2>3, Numbers DEF Even, Reserved
  <2>5. Free' = Free
    BY <1>1, <2>1, <2>2, <2>3, Numbers DEF Free, Holdings
  <2> QED BY <1>2, <2>4, <2>5 DEF Booked
<1>7. CASE Delegated
  <2>1. /\ fsm = "Staking" /\ ~answered /\ answered' = TRUE /\ outdated' = TRUE
        /\ ica' = ica - inFlight /\ staked' = staked + inFlight
        /\ UNCHANGED <<fsm, cached, supply, coreBalance, totalLsm, open, batch, inFlight, known, redeem>>
    BY <1>7 DEF Delegated, Answering, money
  <2>2. /\ Travelling = 0 /\ Travelling' = 0 /\ Redeemed' = Redeemed /\ BatchOwed' = BatchOwed
        /\ MaturedFunds' = MaturedFunds
    BY <2>1 DEF Travelling, Redeemed, BatchOwed, MaturedFunds
  <2>3. Even' /\ Reserved'
    BY <1>0, <1>1, <2>1, <2>2, Numbers DEF Even, Reserved
  <2>4. Free' = Free
    BY <1>0, <1>1, <2>1, <2>2, Numbers DEF Free, Holdings
  <2> QED BY <1>2, <2>3, <2>4 DEF Booked
<1>8. CASE Undelegated
  <2>1. /\ fsm = "Unbonding" /\ batch.status = "UnbondRequested"
        /\ UNCHANGED <<fsm, cached, supply, coreBalance, totalLsm, open, inFlight, known, redeem, ica>>
    BY <1>8 DEF Undelegated, Answering, money, UnderWay
  <2>2. Travelling = 0 /\ Travelling' = 0 /\ Redeemed' = Redeemed
    BY <2>1 DEF Travelling, Redeemed
  <2>3. /\ batch'.total = batch.total /\ batch'.expected = batch.expected
        /\ outdated' = TRUE \/ outdated' = outdated
        /\ \/ batch'.status = "Unbonding" /\ staked' = staked - batch.total
           \/ batch'.status = "UnbondFailed" /\ staked' = staked
    <3>1. batch \in Batches
      BY <2>1 DEF Types, OtherTypes
    <3> QED BY <1>8, <3>1 DEF Undelegated, Batches
  <2>4. /\ MaturedFunds = 0 /\ MaturedFunds' = 0 /\ MaturedUnseen = 0 /\ MaturedUnseen' = 0
        /\ BatchOwed = batch.total /\ staked' - BatchOwed' = staked - batch.total
        /\ BatchOwed' \in Nat /\ staked' \in Int
    BY <2>1, <2>3, Numbers DEF MaturedFunds, MaturedUnseen, BatchOwed
  <2>5. Even' /\ Reserved'
    BY <1>0, <2>1, <2>3, <2>4 DEF Even, Reserved
  <2>6. Free' = Free
    BY <1>0, <1>1, <2>1, <2>2, <2>4, Numbers DEF Free, Holdings
  <2> QED BY <1>2, <2>5, <2>6 DEF Booked
<1>9. CASE RedeemExecuted
  <2>1. /\ redeem.stage = "sent" /\ redeem'.stage = "executed" /\ redeem'.amount = redeem.amount
        /\ staked' = staked + redeem.amount
        /\ UNCHANGED <<fsm, answered, cached, supply, coreBalance, totalLsm, open, batch, inFlight, known,
                       outdated, ica>>
    BY <1>9 DEF RedeemExecuted, money, Types, OtherTypes
  <2>2. Even' /\ Reserved'
    BY <1>0, <2>1 DEF Even, Reserved, MaturedFunds, MaturedUnseen
  <2>3. Redeemed = 0 /\ Redeemed' = redeem.amount /\ Travelling' = Travelling /\ BatchOwed' = BatchOwed
    BY <2>1 DEF Redeemed, Travelling, BatchOwed
  <2>4. Free' = Free
    BY <1>0, <1>1, <2>1, <2>3, Numbers DEF Free, Holdings
  <2> QED BY <1>2, <2>2, <2>4 DEF Booked
<1>10. CASE RedeemAnswered
  <2>1. /\ redeem.stage = "executed" /\ redeem'.stage = "none" /\ totalLsm' = totalLsm - redeem.amount
        /\ outdated' = TRUE
        /\ UNCHANGED <<fsm, answered, cached, supply, coreBalance, open, batch, inFlight, known, ica, staked>>
    BY <1>10 DEF RedeemAnswered, NoRedeem, remote
  <2>2. Even' /\ Reserved'
    BY <1>0, <2>1 DEF Even, Reserved, MaturedFunds
  <2>3. Redeemed = redeem.amount /\ Redeemed' = 0 /\ Travelling' = Travelling /\ BatchOwed' = BatchOwed
    BY <2>1 DEF Redeemed, Travelling, BatchOwed
  <2>4. Free' = Free
    BY <1>0, <1>1, <2>1, <2>3, Numbers DEF Free, Holdings
  <2> QED BY <1>2, <2>2, <2>4 DEF Booked
<1>11. CASE Mature
  <2>1. /\ batch.status = "Unbonding" /\ ica' = ica + batch.total
        /\ batch' = [batch EXCEPT !.status = "Matured"]
        /\ UNCHANGED <<fsm, answered, cached, supply, coreBalance, totalLsm, open, inFlight, known, outdated,
                       redeem, staked>>
    BY <1>11 DEF Mature, money
  <2>2. batch'.status = "Matured" /\ batch'.total = batch.total /\ batch'.expected = batch.expected
    BY <2>1 DEF Types, OtherTypes, Batches
  <2>3. /\ MaturedFunds = 0 /\ MaturedUnseen = 0 /\ MaturedFunds' = batch.total /\ MaturedUnseen' = batch.total
        /\ BatchOwed = 0 /\ BatchOwed' = batch.total /\ Redeemed' = Redeemed /\ Travelling' = Travelling
    BY <2>1, <2>2 DEF MaturedFunds, MaturedUnseen, BatchOwed, Redeemed, Travelling
  <2>4. Even' /\ Reserved'
    BY <1>0, <2>1, <2>2, <2>3, Numbers DEF Even, Reserved
  <2>5. Free' = Free
    BY <1>0, <1>1, <2>1, <2>3, Numbers DEF Free, Holdings
  <2> QED BY <1>2, <2>4, <2>5 DEF Booked
<1>12. CASE QueryResult
  <2>1. /\ known'.balance = ica
        /\ UNCHANGED <<fsm, answered, cached, supply, coreBalance, totalLsm, open, inFlight, redeem, ica, staked>>
    <3>1. read = InRemote
      BY <1>12, DisturbIsNew DEF QueryResult, If
    <3> QED BY <1>12, <3>1 DEF QueryResult, InRemote, money, remote
  <2>2. /\ batch'.total = batch.total /\ batch'.expected = batch.expected /\ batch'.unbonded = batch.unbonded
        /\ \/ batch.status = "Matured" /\ batch'.status = "Ready"
           \/ batch.status # "Matured" /\ batch'.status = batch.status
    BY <1>12 DEF QueryResult, Types, OtherTypes, Batches
  <2>3. /\ MaturedFunds' = MaturedFunds /\ MaturedUnseen' = 0 /\ BatchOwed' = BatchOwed
        /\ (batch'.status = "Ready" => MaturedFunds = batch.total)
        /\ Redeemed' = Redeemed /\ Travelling' = Travelling
    BY <2>1, <2>2 DEF MaturedFunds, MaturedUnseen, BatchOwed, Redeemed, Travelling
  <2>4. Even' /\ Reserved'
    BY <1>0, <2>1, <2>2, <2>3, Numbers DEF Even, Reserved
  <2>5. Free' = Free
    BY <1>0, <2>1, <2>3 DEF Free, Holdings
  <2> QED BY <1>2, <2>4, <2>5 DEF Booked
<1>13. CASE ReadRemote
  <2>1. UNCHANGED <<fsm, answered, cached, supply, coreBalance, totalLsm, open, batch, inFlight, known, outdated,
                    redeem, ica, staked>>
    BY <1>13 DEF ReadRemote, money, remote
  <2>2. Booked'
    BY <1>0, <2>1 DEF Booked, Even, Reserved, MaturedFunds, MaturedUnseen
  <2>3. Redeemed' = Redeemed /\ Travelling' = Travelling /\ BatchOwed' = BatchOwed
    BY <2>1 DEF Redeemed, Travelling, BatchOwed
  <2>4. Free' = Free
    BY <2>1, <2>3 DEF Free, Holdings
  <2> QED BY <1>2, <2>2, <2>4
<1>14. CASE FeesPaid
  BY <1>14 DEF FeesPaid, NoFees
<1> QED BY <1>2, <1>3, <1>4, <1>5, <1>6, <1>7, <1>8, <1>9, <1>10, <1>11, <1>12, <1>13, <1>14 DEF Remote

(* No fee is collected before one is booked. *)
LEMMA NoFeesStay ==
  ASSUME PoolAssumption, Types, NoFees, Users \/ Tick \/ Remote, "fees" \notin disturbed'
  PROVE  NoFees'
<1>1. CASE Users
  BY <1>1 DEF Users, BondCoins, BondLsm, Unbond, fees, NoFees
<1>2. ASSUME StakeOrUnbondOrRest PROVE collectedFees' = 0
  <2>1. CASE UNCHANGED collectedFees
    BY <2>1 DEF NoFees
  <2>2. CASE collectedFees' # collectedFees
    <3> PICK rate \in Fees, hasAddress \in BOOLEAN : Stake(rate, hasAddress)
      BY <1>2, <2>2 DEF StakeOrUnbondOrRest
    <3> DEFINE booked == IF hasAddress THEN FeeOf(rate) ELSE 0
    <3>1. FeeOf(rate) \in Nat
      BY FeeIsPart
    <3>2. booked \in Nat
      BY <3>1
    <3>3. /\ collectedFees' = collectedFees + booked
          /\ Disturb(If(batch.status = "Ready", "restaked") \cup If(booked > 0, "fees"))
      BY DEF Stake
    <3> HIDE DEF booked
    <3>4. ~(booked > 0)
      BY <3>3 DEF Disturb, If
    <3> QED BY <3>2, <3>3, <3>4 DEF NoFees
  <2> QED BY <2>1, <2>2
<1>3. CASE TickClaiming \/ TickTransfering
  <2>1. collectedFees' = 0
    BY <1>2, <1>3 DEF TickClaiming, TickTransfering, TransferOrStakeOrUnbondOrRest, NoFees
  <2> QED BY <1>3, <2>1 DEF TickClaiming, TickTransfering, NoFees
<1>4. CASE Tick /\ ~(TickClaiming \/ TickTransfering)
  BY <1>4 DEF Tick, TickIdle, TickFees, TickRedeem, TickStaking, TickUnbonding, fees, NoFees
<1>5. CASE Remote
  BY <1>5
     DEF Remote, Claimed, RewardsExchanged, Slash, Transferred, Delegated, Undelegated, RedeemExecuted,
         RedeemAnswered, FeesPaid, Mature, ReadRemote, QueryResult, fees, NoFees
<1> QED BY <1>1, <1>3, <1>4, <1>5

-----------------------------------------------------------------------------
(***************************************************************************)
(* The rate                                                                *)
(***************************************************************************)

(* of the tokens, when it is computed from all coins or from no tokens *)
Seen == fsm = "Idle" => InSight \/ supply = 0

LEMMA RateIsOne ==
  ASSUME PoolAssumption, Types, Reserved, OneForOne, Seen
  PROVE  Rate = ONE
<1>1. ONE \in Nat \ {0} /\ supply \in Nat
  BY Numbers DEF PoolAssumption
<1>2. CASE fsm = "Idle" /\ supply # 0
  <2>1. Worth = supply
    BY <1>2, WorthIsFree DEF OneForOne, Seen
  <2> QED BY <1>1, <1>2, <2>1, DivExact DEF Rate, IdleRate
<1>3. CASE fsm = "Idle" /\ supply = 0
  BY <1>3 DEF Rate, IdleRate
<1>4. CASE fsm # "Idle"
  BY <1>4 DEF Rate, OneForOne
<1> QED BY <1>2, <1>3, <1>4

LEMMA RateIsNoLess ==
  ASSUME PoolAssumption, Types, Reserved, lastRate \in Nat, NoLess, Seen
  PROVE  Rate \in Nat \ {0} /\ Rate >= lastRate
<1>1. ONE \in Nat \ {0} /\ supply \in Nat /\ lastRate >= ONE /\ Free \in Int /\ cached \in Nat
  BY Numbers, FreeIsInt DEF PoolAssumption, NoLess
<1>2. CASE fsm = "Idle" /\ supply # 0
  <2>1. Worth = Free
    BY <1>2, WorthIsFree DEF Seen
  <2>2. ONE * Free \in Nat /\ lastRate * supply <= ONE * Free
    <3>1. lastRate * supply \in Nat
      BY <1>1, ProductIsNat
    <3>2. lastRate * supply <= ONE * Free /\ ONE * Free \in Int
      BY <1>1 DEF NoLess
    <3> DEFINE x == lastRate * supply  y == ONE * Free
    <3> HIDE DEF x, y
    <3>3. x \in Nat /\ y \in Int /\ x <= y
      BY <3>1, <3>2 DEF x, y
    <3>4. y \in Nat
      BY <3>3
    <3> QED BY <3>2, <3>4 DEF y
  <2>3. (ONE * Free) \div supply \in Nat /\ (ONE * Free) \div supply >= lastRate
    BY <1>1, <1>2, <2>2, DivAtLeast, DivRoundsDown
  <2>4. Rate = (ONE * Free) \div supply
    BY <1>2, <2>1 DEF Rate, IdleRate
  <2> QED BY <1>1, <2>3, <2>4
<1>3. CASE fsm = "Idle" /\ supply = 0
  BY <1>1, <1>3 DEF Rate, IdleRate, NoLess
<1>4. CASE fsm # "Idle"
  BY <1>1, <1>4 DEF Rate, NoLess
<1> QED BY <1>2, <1>3, <1>4

LEMMA SumsGrow ==
  ASSUME NEW a \in Int, NEW b \in Int, NEW c \in Int, NEW d \in Int, a <= b, c <= d
  PROVE  a + c <= b + d /\ a - d <= b - c
  OBVIOUS

(* Bonds and unbondings at no less than that rate *)
LEMMA BondKeepsRate ==
  ASSUME PoolAssumption, NEW rate \in Nat \ {0}, NEW l \in Nat, l <= rate,
         NEW s \in Nat, NEW f \in Int, NEW a \in Nat, l * s <= ONE * f
  PROVE  l * (s + Issued(a, rate)) <= ONE * (f + a)
<1> DEFINE m == Issued(a, rate)
<1>1. ONE \in Nat \ {0} /\ m \in Nat /\ rate * m <= ONE * a
  BY IssuedIsWorth DEF PoolAssumption
<1> HIDE DEF m
<1>2. l * m <= rate * m /\ l * m \in Nat /\ rate * m \in Nat /\ ONE * a \in Nat
  BY <1>1, ProductsGrow, ProductIsNat
<1>3. l * m <= ONE * a
  <2> DEFINE x == l * m  y == rate * m  z == ONE * a
  <2>1. x \in Nat /\ y \in Nat /\ z \in Nat /\ x <= y /\ y <= z
    BY <1>1, <1>2
  <2>2. x <= z
    <3> HIDE DEF x, y, z
    <3> QED BY <2>1
  <2> QED BY <2>2
<1>4. l * s \in Int /\ ONE * f \in Int
  BY <1>1
<1>5. l * s + l * m <= ONE * f + ONE * a
  BY <1>2, <1>3, <1>4, SumsGrow
<1>6. l * (s + m) = l * s + l * m /\ ONE * (f + a) = ONE * f + ONE * a
  BY <1>1
<1> QED BY <1>5, <1>6 DEF m

LEMMA UnbondKeepsRate ==
  ASSUME PoolAssumption, NEW l \in Nat, l >= ONE,
         NEW s \in Nat, NEW f \in Int, NEW a \in Nat, l * s <= ONE * f
  PROVE  l * (s - a) <= ONE * (f - a)
<1>1. ONE \in Nat \ {0}
  BY DEF PoolAssumption
<1>2. ONE * a <= l * a /\ ONE * a \in Int /\ l * a \in Int /\ l * s \in Int /\ ONE * f \in Int
  BY <1>1, ProductsGrow
<1>3. l * s - l * a <= ONE * f - ONE * a
  BY <1>2, SumsGrow
<1>4. l * (s - a) = l * s - l * a /\ ONE * (f - a) = ONE * f - ONE * a
  BY <1>1
<1> QED BY <1>3, <1>4

LEMMA RewardKeepsRate ==
  ASSUME PoolAssumption, NEW x \in Int, NEW f \in Int, NEW r \in Nat, x <= ONE * f
  PROVE  x <= ONE * (f + r)
<1>1. ONE \in Nat \ {0}
  BY DEF PoolAssumption
<1>2. ONE * (f + r) = ONE * f + ONE * r /\ ONE * r \in Nat /\ ONE * f \in Int
  BY <1>1, ProductIsNat
<1> DEFINE y == ONE * f  z == ONE * r
<1>3. y \in Int /\ z \in Nat /\ x <= y
  BY <1>2
<1>4. x <= y + z
  <2> HIDE DEF y, z
  <2> QED BY <1>3
<1> QED BY <1>2, <1>4

-----------------------------------------------------------------------------
(***************************************************************************)
(* The whole                                                               *)
(***************************************************************************)

Inv ==
  /\ TypeOK /\ UnderWay
  /\ "fees" \notin disturbed => NoFees
  /\ Quiet => Booked /\ NoLess
  /\ disturbed = {} => OneForOne

(* After a step, before the rate is remembered *)
StillNoLess ==
  /\ lastRate * supply' <= ONE * Free'
  /\ fsm' # "Idle" => cached' >= lastRate

(* A step that leaves the tokens and takes no coins *)
LEMMA NothingTaken ==
  ASSUME PoolAssumption, Types, lastRate \in Nat, NoLess,
         supply' = supply, NEW r \in Nat, Free' = Free + r,
         fsm' # "Idle" => cached' >= lastRate
  PROVE  StillNoLess
<1>1. lastRate * supply <= ONE * Free /\ Free \in Int /\ lastRate * supply \in Int
  BY Numbers, FreeIsInt DEF NoLess
<1>2. lastRate * supply <= ONE * (Free + r)
  BY <1>1, RewardKeepsRate
<1> QED BY <1>2 DEF StillNoLess

LEMMA UsersKeepRate ==
  ASSUME PoolAssumption, Types, lastRate \in Nat, Booked, NoLess, Users, Quiet'
  PROVE  Booked' /\ StillNoLess
<1>1. /\ supply \in Nat /\ Free \in Int /\ lastRate >= ONE /\ lastRate * supply <= ONE * Free
      /\ (fsm # "Idle" => cached >= lastRate)
  BY Numbers, FreeIsInt DEF NoLess
<1>2. ASSUME NEW a \in Nat, BondCoins(a) \/ BondLsm(a)
      PROVE  Booked' /\ StillNoLess
  <2>1. /\ Booked' /\ Free' = Free + a /\ Bond(a) /\ UNCHANGED <<fsm, cached>>
        /\ (fsm = "Idle" => InSight)
    BY <1>2, BondsAdd
  <2>2. Rate \in Nat \ {0} /\ lastRate <= Rate
    BY <1>1, <2>1, RateIsNoLess DEF Seen, Booked
  <2>3. lastRate * (supply + Issued(a, Rate)) <= ONE * (Free + a)
    BY <1>1, <2>2, BondKeepsRate
  <2>4. supply' = supply + Issued(a, Rate)
    BY <2>1 DEF Bond, Mint
  <2> QED BY <1>1, <2>1, <2>3, <2>4 DEF StillNoLess
<1>3. ASSUME NEW a \in Nat, Unbond(a)
      PROVE  Booked' /\ StillNoLess
  <2>1. /\ Booked' /\ Free' = Free - a /\ supply' = supply - a /\ UNCHANGED <<fsm, cached>>
    BY <1>3, UnbondTakes
  <2>2. lastRate * (supply - a) <= ONE * (Free - a)
    BY <1>1, UnbondKeepsRate
  <2> QED BY <1>1, <2>1, <2>2 DEF StillNoLess
<1> QED BY <1>2, <1>3 DEF Users, PoolAssumption

LEMMA TicksKeepRate ==
  ASSUME PoolAssumption, Types, Types', UnderWay, lastRate \in Nat, Booked, NoLess, Tick, Quiet'
  PROVE  Booked' /\ StillNoLess
<1>1. Booked' /\ Free' = Free /\ supply' = supply /\ Free \in Int
  <2>1. supply' = supply
    BY DEF Tick, TickIdle, TickFees, TickRedeem, TickClaiming, TickTransfering, TickStaking, TickUnbonding,
               money
  <2> QED BY <2>1, TicksKeep, FreeIsInt
<1>2. ASSUME fsm' # "Idle" PROVE cached' >= lastRate
  <2>1. CASE TickIdle
    <3>1. Disturb(IF supply > 0 THEN Unseen ELSE {}) /\ cached' = Rate
      BY <2>1 DEF TickIdle, CacheRate
    <3>2. Seen
      <4>1. (IF supply > 0 THEN Unseen ELSE {}) \subseteq {"rewards"}
        BY <3>1, DisturbIsNew
      <4>2. CASE supply > 0
        BY <4>1, <4>2, QuietlySeen DEF Seen
      <4>3. CASE ~(supply > 0)
        BY <4>3, Numbers DEF Seen
      <4> QED BY <4>2, <4>3
    <3> QED BY <3>1, <3>2, RateIsNoLess DEF Booked
  <2>2. CASE TickRedeem \/ TickFees
    BY <1>2, <2>2 DEF TickRedeem, TickFees
  <2>3. CASE TickClaiming \/ TickTransfering \/ TickStaking \/ TickUnbonding
    <3>1. fsm # "Idle" /\ cached' = cached
      BY <2>3 DEF TickClaiming, TickTransfering, TickStaking, TickUnbonding
    <3> QED BY <3>1 DEF NoLess
  <2> QED BY <2>1, <2>2, <2>3 DEF Tick
<1>3. Free' = Free + 0
  BY <1>1
<1> QED BY <1>1, <1>2, <1>3, NothingTaken

LEMMA RemoteMovesNothingElse ==
  ASSUME Remote
  PROVE  UNCHANGED <<fsm, cached, supply>>
  BY DEF Remote, Claimed, RewardsExchanged, Slash, Transferred, Delegated, Undelegated, RedeemExecuted,
         RedeemAnswered, FeesPaid, Mature, ReadRemote, QueryResult, money

LEMMA RemoteKeepsRate ==
  ASSUME PoolAssumption, Types, NoFees, UnderWay, lastRate \in Nat, Booked, NoLess, Remote, Quiet'
  PROVE  Booked' /\ StillNoLess
<1>1. PICK r \in Nat : Booked' /\ Free' = Free + r
  BY RemoteAdds
<1>2. UNCHANGED <<fsm, cached, supply>> /\ (fsm # "Idle" => cached >= lastRate)
  BY RemoteMovesNothingElse DEF NoLess
<1> QED BY <1>1, <1>2, NothingTaken

(* The rate that is remembered is no less than the one before, as long as there are tokens. *)
LEMMA WorthIsFreeThen == Types /\ Reserved /\ InSight => Worth = Free
  BY WorthIsFree

LEMMA WorthIsFreeNext == (Types /\ Reserved /\ InSight => Worth = Free)'
  BY WorthIsFreeThen, PTL

LEMMA RememberKeepsRate ==
  ASSUME PoolAssumption, Types', Booked', lastRate \in Nat, lastRate >= ONE, StillNoLess, Remember
  PROVE  NoLess' /\ (supply' > 0 => lastRate' >= lastRate)
<1>1. /\ ONE \in Nat \ {0} /\ supply' \in Nat /\ cached' \in Nat
      /\ lastRate * supply' <= ONE * Free' /\ (fsm' # "Idle" => cached' >= lastRate)
  BY DEF PoolAssumption, StillNoLess, Types, MoneyTypes, OtherTypes
<1>2. CASE supply' = 0
  <2>1. lastRate' = ONE
    BY <1>2 DEF Remember, IdleRate
  <2>2. lastRate' * supply' <= ONE * Free'
    BY <1>1, <1>2, <2>1
  <2> QED BY <1>1, <1>2, <2>1, <2>2 DEF NoLess
<1>3. CASE supply' # 0 /\ InSight' /\ Worth' >= 0
  <2>1. Worth' = Free' /\ fsm' = "Idle"
    BY <1>3, WorthIsFreeNext DEF InSight, Booked
  <2>2. lastRate' = (ONE * Free') \div supply'
    BY <1>3, <2>1 DEF Remember, IdleRate
  <2>3. Free' \in Nat /\ ONE * Free' \in Nat
    <3>1. Worth' \in Int
      BY <1>1 DEF Worth, Unprocessed, Types, MoneyTypes, OtherTypes, Batches
    <3>2. Free' \in Nat
      BY <1>3, <2>1, <3>1
    <3> QED BY <1>1, <3>2, ProductIsNat
  <2> DEFINE f == ONE * Free'
  <2>4. lastRate' \in Nat /\ supply' * lastRate' <= f /\ lastRate' >= lastRate
    <3>1. f \in Nat /\ lastRate * supply' <= f /\ supply' \in Nat \ {0} /\ lastRate' = f \div supply'
      BY <1>1, <1>3, <2>2, <2>3
    <3> HIDE DEF f
    <3> QED BY <3>1, DivAtLeast, DivRoundsDown
  <2>5. lastRate' * supply' = supply' * lastRate'
    BY <1>1, <2>4
  <2> QED BY <1>1, <1>3, <2>1, <2>4, <2>5 DEF NoLess
<1>4. CASE supply' # 0 /\ ~(InSight' /\ Worth' >= 0)
  <2>1. lastRate' = lastRate
    BY <1>4 DEF Remember
  <2> QED BY <1>1, <1>4, <2>1 DEF NoLess
<1> QED BY <1>2, <1>3, <1>4

(* Undisturbed, all this happens at a rate of one. *)
LEMMA OneForOneStays ==
  ASSUME PoolAssumption, Types, Types', NoFees, UnderWay, Booked, OneForOne, Users \/ Tick \/ Remote,
         disturbed' = {}
  PROVE  OneForOne'
<1>0. Quiet' /\ Reserved /\ supply \in Nat /\ Free = supply /\ (fsm # "Idle" => cached = ONE)
  BY Numbers DEF Quiet, Booked, OneForOne
<1>1. ASSUME NEW a \in Nat, BondCoins(a) \/ BondLsm(a)
      PROVE  OneForOne'
  <2>1. /\ Free' = Free + a /\ Bond(a) /\ UNCHANGED <<fsm, cached>>
        /\ (fsm = "Idle" => InSight)
    BY <1>0, <1>1, BondsAdd
  <2>2. Rate = ONE
    BY <1>0, <2>1, RateIsOne DEF Seen
  <2>3. supply' = supply + a
    BY <2>1, <2>2, AtRateOne DEF Bond, Mint
  <2> QED BY <1>0, <2>1, <2>3 DEF OneForOne
<1>2. ASSUME NEW a \in Nat, Unbond(a)
      PROVE  OneForOne'
  <2>1. /\ Free' = Free - a /\ supply' = supply - a /\ UNCHANGED <<fsm, cached>>
    BY <1>0, <1>2, UnbondTakes
  <2> QED BY <1>0, <2>1 DEF OneForOne
<1>3. CASE Tick
  <2>1. Free' = Free /\ supply' = supply
    <3>1. supply' = supply
      BY <1>3 DEF Tick, TickIdle, TickFees, TickRedeem, TickClaiming, TickTransfering, TickStaking, TickUnbonding,
               money
    <3> QED BY <1>0, <1>3, <3>1, TicksKeep
  <2>2. ASSUME fsm' # "Idle" PROVE cached' = ONE
    <3>1. CASE TickIdle
      <4>1. Disturb(IF supply > 0 THEN Unseen ELSE {}) /\ cached' = Rate
        BY <3>1 DEF TickIdle, CacheRate
      <4>2. (IF supply > 0 THEN Unseen ELSE {}) = {}
        BY <4>1, DisturbIsNew
      <4>3. Seen
        BY <1>0, <4>2, QuietlySeen DEF Seen
      <4> QED BY <1>0, <4>1, <4>3, RateIsOne
    <3>2. CASE TickRedeem \/ TickFees
      BY <2>2, <3>2 DEF TickRedeem, TickFees
    <3>3. CASE TickClaiming \/ TickTransfering \/ TickStaking \/ TickUnbonding
      BY <1>0, <3>3 DEF TickClaiming, TickTransfering, TickStaking, TickUnbonding
    <3> QED BY <1>3, <3>1, <3>2, <3>3 DEF Tick
  <2> QED BY <1>0, <2>1, <2>2 DEF OneForOne
<1>4. CASE Remote
  <2>1. PICK r \in Nat : Free' = Free + r /\ r = 0
    BY <1>0, <1>4, RemoteAdds
  <2>2. UNCHANGED <<fsm, cached, supply>>
    BY <1>4, RemoteMovesNothingElse
  <2> QED BY <1>0, <2>1, <2>2 DEF OneForOne
<1> QED BY <1>1, <1>2, <1>3, <1>4 DEF Users, PoolAssumption

LEMMA InitInv ==
  ASSUME PoolAssumption, Init
  PROVE  Inv
<1>1. ONE \in Nat
  BY DEF PoolAssumption
<1>2. Types
  BY <1>1 DEF Init, Types, MoneyTypes, OtherTypes, EmptyBatch, NoBatch, NoRedeem, Batches
<1>3. TypeOK /\ NoFees
  BY <1>1, <1>2, TypesOfAll DEF Init, FeeTypes, NoFees
<1>4. UnderWay
  BY DEF Init, UnderWay, NoRedeem, NoBatch
<1>5. Booked /\ NoLess /\ OneForOne
  <2>1. Booked
    BY DEF Init, NoRedeem, NoBatch, EmptyBatch, Booked, Even, Reserved, MaturedFunds, MaturedUnseen
  <2>2. Free = 0
    BY DEF Init, NoRedeem, NoBatch, EmptyBatch, Free, Holdings, Travelling, BatchOwed, Redeemed
  <2> QED BY <1>1, <2>1, <2>2 DEF Init, NoLess, OneForOne
<1> QED BY <1>3, <1>4, <1>5 DEF Inv

(* Disturbances are named, and are not forgotten. *)
LEMMA DisturbedGrows ==
  ASSUME disturbed \subseteq Disturbances, Users \/ Tick \/ Remote
  PROVE  disturbed \subseteq disturbed' /\ disturbed' \subseteq Disturbances
<1>1. ASSUME NEW new \in SUBSET Disturbances, Disturb(new)
      PROVE  disturbed \subseteq disturbed' /\ disturbed' \subseteq Disturbances
  BY <1>1 DEF Disturb
<1>2. \A c \in BOOLEAN, d \in Disturbances : If(c, d) \in SUBSET Disturbances
  BY DEF If
<1>3. /\ "unseen" \in Disturbances /\ "skewed" \in Disturbances /\ "reopened" \in Disturbances
      /\ "restaked" \in Disturbances /\ "rewards" \in Disturbances /\ "slashing" \in Disturbances
      /\ "lost" \in Disturbances /\ "stale" \in Disturbances /\ "fees" \in Disturbances
  BY DEF Disturbances
<1>4. Unseen \in SUBSET Disturbances /\ (IF supply > 0 THEN Unseen ELSE {}) \in SUBSET Disturbances
  BY <1>3 DEF Unseen, If
<1>5. CASE Users
  <2>1. ASSUME NEW a, Bond(a) PROVE disturbed \subseteq disturbed' /\ disturbed' \subseteq Disturbances
    BY <1>1, <1>4, <2>1 DEF Bond
  <2>2. ASSUME NEW a, Unbond(a) PROVE disturbed \subseteq disturbed' /\ disturbed' \subseteq Disturbances
    <3>1. Unseen \cup If(Promised(a, Rate) # a, "skewed") \in SUBSET Disturbances
      BY <1>3, <1>4 DEF If
    <3> QED BY <1>1, <2>2, <3>1 DEF Unbond
  <2> QED BY <1>5, <2>1, <2>2 DEF Users, BondCoins, BondLsm
<1>6. CASE Tick
  <2>1. UnbondOrRest => disturbed \subseteq disturbed' /\ disturbed' \subseteq Disturbances
    <3>1. If(batch.status = "UnbondFailed" /\ open.total > 0, "reopened") \in SUBSET Disturbances
      BY <1>3 DEF If
    <3> QED BY <1>1, <3>1 DEF UnbondOrRest, RequestUnbonding
  <2>2. StakeOrUnbondOrRest => disturbed \subseteq disturbed' /\ disturbed' \subseteq Disturbances
    <3>1. ASSUME NEW booked
          PROVE  If(batch.status = "Ready", "restaked") \cup If(booked > 0, "fees") \in SUBSET Disturbances
      BY <1>3 DEF If
    <3>2. ASSUME NEW rate, NEW hasAddress, Stake(rate, hasAddress)
          PROVE  disturbed \subseteq disturbed' /\ disturbed' \subseteq Disturbances
      BY <1>1, <3>1, <3>2 DEF Stake
    <3> QED BY <2>1, <3>2 DEF StakeOrUnbondOrRest
  <2>3. TickIdle => disturbed \subseteq disturbed' /\ disturbed' \subseteq Disturbances
    BY <1>1, <1>4 DEF TickIdle
  <2> QED BY <1>6, <2>1, <2>2, <2>3
          DEF Tick, TickFees, TickRedeem, TickClaiming, TransferOrStakeOrUnbondOrRest, TickTransfering, TickStaking,
              TickUnbonding
<1>7. CASE Remote
  <2>1. {"rewards"} \in SUBSET Disturbances /\ {"slashing"} \in SUBSET Disturbances
        /\ {"lost"} \in SUBSET Disturbances
    BY <1>3
  <2>2. ASSUME NEW r, Claimed(r) PROVE disturbed \subseteq disturbed' /\ disturbed' \subseteq Disturbances
    <3>1. If(r > 0, "rewards") \in SUBSET Disturbances
      BY <1>3 DEF If
    <3> QED BY <1>1, <2>2, <3>1 DEF Claimed
  <2>3. ASSUME NEW r, RewardsExchanged(r) PROVE disturbed \subseteq disturbed' /\ disturbed' \subseteq Disturbances
    BY <1>1, <2>1, <2>3 DEF RewardsExchanged
  <2>4. ASSUME NEW r, Slash(r) PROVE disturbed \subseteq disturbed' /\ disturbed' \subseteq Disturbances
    BY <1>1, <2>1, <2>4 DEF Slash
  <2>5. Transferred => disturbed \subseteq disturbed' /\ disturbed' \subseteq Disturbances
    BY <1>1, <2>1 DEF Transferred
  <2>6. QueryResult => disturbed \subseteq disturbed' /\ disturbed' \subseteq Disturbances
    <3>1. If(read # InRemote, "stale") \in SUBSET Disturbances
      BY <1>3 DEF If
    <3> QED BY <1>1, <3>1 DEF QueryResult
  <2> QED BY <1>7, <2>2, <2>3, <2>4, <2>5, <2>6
          DEF Remote, Delegated, Undelegated, RedeemExecuted, RedeemAnswered, FeesPaid, Mature, ReadRemote
<1> QED BY <1>5, <1>6, <1>7

LEMMA NextKeeps ==
  ASSUME PoolAssumption, Inv, [Next]_vars
  PROVE  Inv'
<1>0. Types /\ FeeTypes /\ UnderWay /\ lastRate \in Nat /\ disturbed \subseteq Disturbances
  BY TypesOfAll DEF Inv
<1>1. CASE Next
  <2>1. Users \/ Tick \/ Remote
    BY <1>1 DEF Next
  <2>2. Types' /\ UnderWay'
    BY <1>0, <2>1, UsersKeepTypes, TickKeepsTypes, RemoteKeepsTypes
  <2>3. lastRate' \in Nat
    <3>1. ONE \in Nat \ {0} /\ supply' \in Nat
      BY <2>2 DEF PoolAssumption, Types, MoneyTypes, OtherTypes
    <3>2. ASSUME Worth' >= 0, supply' # 0 PROVE (ONE * Worth') \div supply' \in Nat
      <4>1. Worth' \in Int
        BY <2>2 DEF Worth, Unprocessed, Types, MoneyTypes, OtherTypes, Batches
      <4>2. Worth' \in Nat
        BY <3>2, <4>1
      <4>3. ONE * Worth' \in Nat
        BY <3>1, <4>2, ProductIsNat
      <4> QED BY <3>1, <3>2, <4>3, DivRoundsDown
    <3>3. supply' = 0 \/ Worth' >= 0 => IdleRate' \in Nat
      BY <3>1, <3>2 DEF IdleRate
    <3> QED BY <1>0, <1>1, <3>3 DEF Next, Remember
  <2>4. disturbed \subseteq disturbed' /\ disturbed' \subseteq Disturbances
    BY <1>0, <2>1, DisturbedGrows
  <2>5. TypeOK' /\ ("fees" \notin disturbed' => NoFees')
    <3>1. FeeTypes'
      BY <1>0, <2>1, FeeTypesStay
    <3>2. TypeOK'
      BY <2>2, <2>3, <2>4, <3>1 DEF Types, MoneyTypes, OtherTypes, FeeTypes, TypeOK
    <3>3. ASSUME "fees" \notin disturbed' PROVE NoFees'
      BY <1>0, <2>1, <2>4, <3>3, NoFeesStay DEF Inv
    <3> QED BY <3>2, <3>3
  <2>6. ASSUME Quiet' PROVE Booked' /\ NoLess'
    <3>1. Quiet
      BY <2>4, <2>6 DEF Quiet
    <3>2. Booked /\ NoLess /\ NoFees /\ lastRate >= ONE
      BY <3>1 DEF Inv, NoLess, Quiet
    <3>3. Booked' /\ StillNoLess
      BY <1>0, <2>1, <2>2, <2>6, <3>2, UsersKeepRate, TicksKeepRate, RemoteKeepsRate
    <3> QED BY <1>0, <1>1, <2>2, <3>2, <3>3, RememberKeepsRate DEF Next
  <2>7. ASSUME disturbed' = {} PROVE OneForOne'
    <3>1. disturbed = {} /\ Quiet
      BY <2>4, <2>7 DEF Quiet
    <3>2. Booked /\ OneForOne /\ NoFees
      BY <3>1 DEF Inv
    <3> QED BY <1>0, <2>1, <2>2, <2>7, <3>2, OneForOneStays
  <2> QED BY <2>2, <2>5, <2>6, <2>7 DEF Inv
<1>2. CASE UNCHANGED vars
  <2>1. UNCHANGED <<fsm, answered, cached, supply, bonded, coreBalance, totalLsm, open, batch, inFlight,
                    collectedFees, feesSent, read, known, outdated, redeem, ica, staked, rewards, disturbed,
                    lastRate>>
    BY <1>2 DEF vars, money, fees, remote, history
  <2>2. TypeOK' /\ UnderWay' /\ NoFees' = NoFees
    BY <2>1 DEF Inv, TypeOK, UnderWay, NoFees
  <2>3. Booked' = Booked /\ Free' = Free
    BY <2>1 DEF Booked, Even, Reserved, Free, Holdings, Travelling, BatchOwed, MaturedFunds, MaturedUnseen,
                Redeemed
  <2>4. Quiet' = Quiet /\ NoLess' = NoLess /\ OneForOne' = OneForOne
    BY <2>1, <2>3 DEF Quiet, NoLess, OneForOne
  <2> QED BY <2>1, <2>2, <2>3, <2>4 DEF Inv
<1> QED BY <1>1, <1>2

-----------------------------------------------------------------------------
(***************************************************************************)
(* Theorems                                                                *)
(***************************************************************************)

THEOREM Invariance == Spec => []Inv
<1>1. Init => Inv
  BY InitInv, PoolAssumption
<1>2. Inv /\ [Next]_vars => Inv'
  BY NextKeeps, PoolAssumption
<1> QED BY <1>1, <1>2, PTL DEF Spec

(* Every variable keeps its type: no subtraction that the contract makes of its own numbers
   falls below zero.  (The one that may, in the rate, is checked by who asks for it.) *)
THEOREM TypeCorrect == Spec => []TypeOK
<1>1. Inv => TypeOK
  BY DEF Inv
<1> QED BY <1>1, Invariance, PTL

(* Nothing but the named disturbances moves the rate, for any amounts and any number of
   bonds, unbondings and cycles. *)
THEOREM RateIsOneUndisturbedAlways == Spec => []RateIsOneUndisturbed
<1>1. Inv => RateIsOneUndisturbed
  BY WorthIsFree, TypesOfAll DEF Inv, Quiet, Booked, OneForOne, RateIsOneUndisturbed
<1> QED BY <1>1, Invariance, PTL

LEMMA StepLowersNothing ==
  ASSUME PoolAssumption, Inv, [Next]_vars, Quiet', supply' > 0
  PROVE  lastRate' >= lastRate
<1>0. Types /\ FeeTypes /\ UnderWay /\ lastRate \in Nat /\ disturbed \subseteq Disturbances
  BY TypesOfAll DEF Inv
<1>1. CASE Next
  <2>1. Users \/ Tick \/ Remote
    BY <1>1 DEF Next
  <2>2. Types'
    BY <1>0, <2>1, UsersKeepTypes, TickKeepsTypes, RemoteKeepsTypes
  <2>3. Quiet
    BY <1>0, <2>1, DisturbedGrows DEF Quiet
  <2>4. Booked /\ NoLess /\ NoFees /\ lastRate >= ONE
    BY <2>3 DEF Inv, NoLess, Quiet
  <2>5. Booked' /\ StillNoLess
    BY <1>0, <2>1, <2>2, <2>4, UsersKeepRate, TicksKeepRate, RemoteKeepsRate
  <2> QED BY <1>0, <1>1, <2>2, <2>4, <2>5, RememberKeepsRate DEF Next
<1>2. CASE UNCHANGED vars
  BY <1>0, <1>2 DEF vars, history
<1> QED BY <1>1, <1>2

(* With rewards and nothing else the rate never falls from one moment when all coins are in
   sight to the next, for any amounts and any number of steps, as long as there are tokens. *)
THEOREM RateNeverFallsAlways == Spec => RateNeverFalls
<1>1. Inv /\ [Next]_vars =>
        [disturbed' \subseteq {"rewards"} /\ InSight' /\ supply' > 0 => lastRate' >= lastRate]_vars
  BY StepLowersNothing, PoolAssumption DEF Quiet
<1> QED BY <1>1, Invariance, PTL DEF Spec, RateNeverFalls

(* A bond at any rate lowers it for nobody. *)
LEMMA BondLowersNothing ==
  ASSUME PoolAssumption, Types, NEW a \in Nat, Bond(a), fsm = "Idle", supply > 0,
         Worth' = Worth + a
  PROVE  IdleRate' >= IdleRate
<1> DEFINE m == Issued(a, IdleRate)
<1>1. ONE \in Nat \ {0} /\ supply \in Nat \ {0} /\ Worth \in Nat /\ ONE * Worth \in Nat
  <2>1. Worth >= 0 /\ Worth \in Int /\ supply \in Nat \ {0}
    BY WorthIsInt, Numbers DEF Bond, RateIsDefined
  <2> QED BY <2>1, ProductIsNat DEF PoolAssumption
<1>2. Rate = IdleRate /\ IdleRate = (ONE * Worth) \div supply
  BY <1>1 DEF Rate, IdleRate
<1>3. IdleRate \in Nat \ {0} /\ supply * IdleRate <= ONE * Worth
  <2>1. IdleRate \in Nat /\ supply * IdleRate <= ONE * Worth
    BY <1>1, <1>2, DivRoundsDown
  <2> QED BY <1>2, <2>1 DEF Bond
<1>4. m \in Nat /\ IdleRate * m <= ONE * a
  BY <1>3, IssuedIsWorth
<1>5. supply' = supply + m
  BY <1>2 DEF Bond, Mint
<1> HIDE DEF m
<1>6. IdleRate' = (ONE * (Worth + a)) \div (supply + m)
  BY <1>1, <1>4, <1>5 DEF IdleRate
<1> DEFINE r == IdleRate
           w == Worth
<1>7. r * (supply + m) <= ONE * (w + a)
  <2>1. r \in Nat /\ w \in Nat /\ supply * r <= ONE * w /\ r * m <= ONE * a
    BY <1>1, <1>3, <1>4
  <2> HIDE DEF r, w
  <2>2. r * (supply + m) = supply * r + r * m /\ ONE * (w + a) = ONE * w + ONE * a
    BY <1>1, <1>4, <2>1
  <2> DEFINE b == supply * r  c == r * m  d == ONE * w  e == ONE * a
  <2>3. b \in Nat /\ c \in Nat /\ d \in Nat /\ e \in Nat /\ b <= d /\ c <= e
    BY <1>1, <1>4, <2>1, ProductIsNat
  <2>4. b + c <= d + e
    <3> HIDE DEF b, c, d, e
    <3> QED BY <2>3
  <2> QED BY <2>2, <2>4
<1>8. r \in Nat /\ supply + m \in Nat \ {0} /\ ONE * (w + a) \in Nat
  BY <1>1, <1>3, <1>4, ProductIsNat
<1>9. (ONE * (w + a)) \div (supply + m) >= r
  <2> HIDE DEF r, w
  <2> QED BY <1>7, <1>8, DivAtLeast
<1> QED BY <1>6, <1>9

(* Only bonds make tokens. *)
LEMMA OnlyBondsMint ==
  ASSUME PoolAssumption, Types, Users \/ Tick \/ Remote, supply' > supply
  PROVE  \/ \E a \in BondAmounts : BondCoins(a)
         \/ \E a \in LsmAmounts : BondLsm(a)
<1>1. supply \in Nat
  BY Numbers
<1>2. ASSUME NEW a \in UnbondAmounts, Unbond(a) PROVE FALSE
  <2>1. supply' = supply - a /\ a \in Nat
    BY <1>2 DEF Unbond, Burn, PoolAssumption
  <2> QED BY <1>1, <2>1
<1>3. CASE Tick
  <2>1. supply' = supply
    BY <1>3 DEF Tick, TickIdle, TickFees, TickRedeem, TickClaiming, TickTransfering, TickStaking, TickUnbonding,
               money
  <2> QED BY <1>1, <2>1
<1>4. CASE Remote
  <2>1. supply' = supply
    BY <1>4 DEF Remote, Claimed, RewardsExchanged, Slash, Transferred, Delegated, Undelegated, RedeemExecuted,
                RedeemAnswered, FeesPaid, Mature, ReadRemote, QueryResult, money
  <2> QED BY <1>1, <2>1
<1> QED BY <1>2, <1>3, <1>4 DEF Users

LEMMA BondStepTakesNothing ==
  ASSUME PoolAssumption, Inv, [Next]_vars, supply' > supply, supply > 0, fsm = "Idle"
  PROVE  IdleRate' >= IdleRate
<1>0. Types
  BY TypesOfAll DEF Inv
<1>1. Users \/ Tick \/ Remote
  <2>1. ~UNCHANGED vars
    BY <1>0, Numbers DEF vars, money
  <2> QED BY <2>1 DEF Next
<1>2. PICK a \in Nat : Bond(a) /\ Worth' = Worth + a
  <2>1. CASE \E a \in BondAmounts : BondCoins(a)
    <3> PICK a \in BondAmounts : BondCoins(a)
      BY <2>1
    <3>1. a \in Nat /\ Bond(a) /\ coreBalance' = coreBalance + a
          /\ UNCHANGED <<totalLsm, open, batch, known>>
      BY DEF BondCoins, PoolAssumption
    <3>2. Unprocessed' = Unprocessed /\ Unprocessed \in Nat
      BY <1>0, <3>1, Numbers DEF Unprocessed
    <3>3. Worth' = Worth + a
      BY <1>0, <3>1, <3>2, Numbers DEF Worth
    <3> QED BY <3>1, <3>3
  <2>2. CASE \E a \in LsmAmounts : BondLsm(a)
    <3> PICK a \in LsmAmounts : BondLsm(a)
      BY <2>2
    <3>1. a \in Nat /\ Bond(a) /\ totalLsm' = totalLsm + a
          /\ UNCHANGED <<coreBalance, open, batch, known>>
      BY DEF BondLsm, PoolAssumption
    <3>2. Unprocessed' = Unprocessed /\ Unprocessed \in Nat
      BY <1>0, <3>1, Numbers DEF Unprocessed
    <3>3. Worth' = Worth + a
      BY <1>0, <3>1, <3>2, Numbers DEF Worth
    <3> QED BY <3>1, <3>3
  <2> QED BY <1>0, <1>1, <2>1, <2>2, OnlyBondsMint
<1> QED BY <1>0, <1>2, BondLowersNothing

(* A bond takes nothing from the holders, in whatever state and at whatever rate. *)
THEOREM BondTakesNothingAlways == Spec => BondTakesNothing
<1>1. Inv /\ [Next]_vars =>
        [supply' > supply /\ supply > 0 /\ fsm = "Idle" => IdleRate' >= IdleRate]_vars
  BY BondStepTakesNothing, PoolAssumption
<1> QED BY <1>1, Invariance, PTL DEF Spec, BondTakesNothing

=============================================================================
