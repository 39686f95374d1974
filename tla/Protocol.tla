------------------------------ MODULE Protocol ------------------------------
(***************************************************************************)
(* The protocol as one whole under its administration: the factory makes   *)
(* the contracts, owns them and sends them what its owner wants; contracts *)
(* may be given to other owners, in two steps or in one; each has a pause  *)
(* of its own, and the factory one for all.  What is administered is the   *)
(* flow of rewards (module Rewards) and the puppeteer's queries (Queries). *)
(*                                                                         *)
(* A message of the factory and those it sends on are one transaction: all *)
(* of them succeed or none.  A sender that is not the owner is refused,    *)
(* which changes nothing, so that the actions are those of owners.         *)
(***************************************************************************)
EXTENDS Rewards

CONSTANTS
  User,           \* accounts that may own a contract
  ReceiverSets,   \* what the owner may set the receivers to
  UnbondingLists, \* lists of validators of which unbondings are asked
  MaxQueries, MaxChanges  \* bounds of the model

ASSUME ProtocolAssumption ==
  /\ "factory" \notin User /\ None \notin User \cup {"factory"}
  /\ ReceiverSets \subseteq SUBSET Denom /\ None \notin ReceiverSets
  /\ UnbondingLists \subseteq Seq(Validator)
  /\ \A list \in UnbondingLists : Len(list) <= OFFSET
  /\ Denoms \in Seq(Denom) /\ Lumps \subseteq Nat
  /\ {FeeNum, MinAmount, ManagerMin, HandlerMin, MaxQueries, MaxChanges} \subseteq Nat
  /\ FeeDen \in Nat \ {0} /\ FeeNum <= FeeDen /\ MayFail \in BOOLEAN

VARIABLES
  inited,         \* STATE of the factory is stored: the contracts are made
  owner,          \* OWNERSHIP of every contract: owner
  pending,        \* and pending_owner
  paused,         \* PAUSED of every contract that may be paused
  ldDenom,        \* core: ld_denom
  feesSet,        \* the puppeteer: ibc_fee and register_fee are stored
  icaOpen,        \* and its account is registered
  frozen,         \* history: paused by the factory, and no contract unpaused since
  apart,          \* history: receivers or their query were set without the other
  changes         \* bound: changes to what was set before, and rewards

adminVars == <<inited, owner, pending, paused, ldDenom, feesSet, icaOpen, frozen, apart>>
vars == <<queriesVars, rewardsVars, adminVars, changes>>

(* update_ownership takes two steps, initialize_owner one *)
TwoStep == {"factory", "core"}
OneStep == {"puppeteer", "withdrawal_manager", "rewards_manager", "handler"}
Contracts == TwoStep \cup OneStep
Pausable == {"core", "withdrawal_manager", "rewards_manager"}

AdminTypeOK ==
  /\ inited \in BOOLEAN /\ feesSet \in BOOLEAN /\ icaOpen \in BOOLEAN
  /\ owner \in [Contracts -> User \cup {"factory", None}]
  /\ pending \in [TwoStep -> User \cup {"factory", None}]
  /\ paused \in [Pausable -> BOOLEAN]
  /\ ldDenom \in {None, "subdenom", "denom", "other"}
  /\ frozen \in BOOLEAN /\ apart \in BOOLEAN /\ changes \in Nat

TypeOK == QueriesTypeOK /\ RewardsTypeOK /\ AdminTypeOK

Init ==
  /\ QueriesInit /\ RewardsInit
  /\ inited = FALSE
  /\ \E u \in User : owner = [c \in Contracts |-> IF c \in {"factory", "handler"} THEN u ELSE None]
  /\ pending = [c \in TwoStep |-> None]
  /\ paused = [c \in Pausable |-> FALSE]
  /\ ldDenom = None
  /\ feesSet = FALSE /\ icaOpen = FALSE
  /\ frozen = FALSE /\ apart = FALSE /\ changes = 0

-----------------------------------------------------------------------------
(***************************************************************************)
(* Who may send what                                                       *)
(***************************************************************************)

(* assert_owner of the factory: its owner makes it send *)
FactorySends == inited /\ owner["factory"] \in User

(* assert_owner of a contract that the factory sends to *)
Obeys(c) == FactorySends /\ owner[c] = "factory"

(* the owner's own messages, which the factory's owner sends by AdminExecute *)
OwnerSends(c) == inited /\ (owner[c] \in User \/ Obeys(c))

(* the first setting of something is free; later ones, and rewards, are counted *)
Change(first) ==
  /\ first \/ changes < MaxChanges
  /\ changes' = IF first THEN changes ELSE changes + 1

-----------------------------------------------------------------------------
(***************************************************************************)
(* The factory                                                             *)
(***************************************************************************)

(* the owner in the messages of instantiation *)
InitialOwner == [c \in Contracts |-> IF c \in {"factory", "handler"} THEN owner[c] ELSE "factory"]

(* the token's denom, when its reply has completed it *)
TokensDenom == "denom"
TokensDenom_before_reply == "subdenom"

(* execute_post_init *)
DenomFromToken == ldDenom' = TokensDenom

(* execute_init, whose last message is PostInit.  A second one would make contracts at
   addresses that are taken. *)
ExecuteInit ==
  /\ ~inited /\ owner["factory"] \in User
  /\ inited' = TRUE
  /\ owner' = InitialOwner
  /\ DenomFromToken
  /\ UNCHANGED <<queriesVars, rewardsVars, pending, paused, feesSet, icaOpen, frozen, apart,
                 changes>>

(* anybody may call it later, while core obeys the factory *)
PostInit ==
  /\ inited /\ owner["core"] = "factory"
  /\ DenomFromToken
  /\ UNCHANGED <<queriesVars, rewardsVars, inited, owner, pending, paused, feesSet, icaOpen,
                 frozen, apart, changes>>

PausedByFactory_but_rewards == {"core", "withdrawal_manager"}
PausedByFactory == Pausable

Pause ==
  /\ \A c \in Pausable : Obeys(c)
  /\ paused' = [c \in Pausable |-> c \in PausedByFactory \/ paused[c]]
  /\ frozen' = TRUE
  /\ Change(paused = [c \in Pausable |-> FALSE])
  /\ UNCHANGED <<queriesVars, rewardsVars, inited, owner, pending, ldDenom, feesSet, icaOpen,
                 apart>>

Unpause ==
  /\ \A c \in Pausable : Obeys(c)
  /\ paused' = [c \in Pausable |-> FALSE]
  /\ frozen' = FALSE
  /\ UNCHANGED <<queriesVars, rewardsVars, inited, owner, pending, ldDenom, feesSet, icaOpen,
                 apart, changes>>

(* UpdateConfigMsg::PuppeteerFees *)
PuppeteerFees ==
  /\ Obeys("puppeteer")
  /\ feesSet' = TRUE
  /\ UNCHANGED <<queriesVars, rewardsVars, inited, owner, pending, paused, ldDenom, icaOpen,
                 frozen, apart, changes>>

(* CoreMsg::UpdateNonNativeRewardsReceivers: to core and to the puppeteer, which has
   to have an account *)
UpdateReceivers(denoms) ==
  /\ Obeys("core") /\ Obeys("puppeteer")
  /\ icaOpen
  /\ SetReceivers(denoms)
  /\ RegisterNonNative(denoms)
  /\ Change(receivers = None)
  /\ UNCHANGED adminVars

-----------------------------------------------------------------------------
(***************************************************************************)
(* The contracts' own messages to their owner, or by AdminExecute          *)
(***************************************************************************)

(* cw_ownable's update_ownership *)
TransferOwnership(c, new) ==
  /\ OwnerSends(c)
  /\ Change(FALSE)
  /\ pending' = [pending EXCEPT ![c] = new]
  /\ UNCHANGED <<queriesVars, rewardsVars, inited, owner, paused, ldDenom, feesSet, icaOpen,
                 frozen, apart>>

AcceptOwnership(c) ==
  /\ inited
  /\ pending[c] \in User \/ (pending[c] = "factory" /\ FactorySends)
  /\ owner' = [owner EXCEPT ![c] = pending[c]]
  /\ pending' = [pending EXCEPT ![c] = None]
  /\ UNCHANGED <<queriesVars, rewardsVars, inited, paused, ldDenom, feesSet, icaOpen, frozen,
                 apart, changes>>

RenounceOwnership(c) ==
  /\ OwnerSends(c)
  /\ Change(FALSE)
  /\ owner' = [owner EXCEPT ![c] = None]
  /\ pending' = [pending EXCEPT ![c] = None]
  /\ UNCHANGED <<queriesVars, rewardsVars, inited, paused, ldDenom, feesSet, icaOpen, frozen,
                 apart>>

(* UpdateConfig of a contract that has an owner in its config *)
ConfigureOwner(c, new) ==
  /\ OwnerSends(c)
  /\ Change(FALSE)
  /\ owner' = [owner EXCEPT ![c] = new]
  /\ UNCHANGED <<queriesVars, rewardsVars, inited, pending, paused, ldDenom, feesSet, icaOpen,
                 frozen, apart>>

PauseOne(c) ==
  /\ OwnerSends(c) /\ ~paused[c]
  /\ Change(FALSE)
  /\ paused' = [paused EXCEPT ![c] = TRUE]
  /\ UNCHANGED <<queriesVars, rewardsVars, inited, owner, pending, ldDenom, feesSet, icaOpen,
                 frozen, apart>>

UnpauseOne(c) ==
  /\ OwnerSends(c) /\ paused[c]
  /\ paused' = [paused EXCEPT ![c] = FALSE]
  /\ frozen' = FALSE
  /\ UNCHANGED <<queriesVars, rewardsVars, inited, owner, pending, ldDenom, feesSet, icaOpen,
                 apart, changes>>

(* core's update_config; of its 24 fields the one that others set too *)
ConfigureCore(denom) ==
  /\ OwnerSends("core") /\ denom # ldDenom
  /\ Change(FALSE)
  /\ ldDenom' = denom
  /\ UNCHANGED <<queriesVars, rewardsVars, inited, owner, pending, paused, feesSet, icaOpen,
                 frozen, apart>>

(* the receivers without their query, and the query without them *)
CoreReceivers(denoms) ==
  /\ OwnerSends("core")
  /\ Change(receivers = None)
  /\ SetReceivers(denoms)
  /\ apart' = TRUE
  /\ UNCHANGED <<queriesVars, inited, owner, pending, paused, ldDenom, feesSet, icaOpen, frozen>>

PuppeteerReceivers(denoms) ==
  /\ OwnerSends("puppeteer") /\ icaOpen
  /\ Len(kvQueries) < MaxQueries
  /\ Change(FALSE)
  /\ RegisterNonNative(denoms)
  /\ apart' = TRUE
  /\ UNCHANGED <<rewardsVars, inited, owner, pending, paused, ldDenom, feesSet, icaOpen, frozen>>

PuppeteerUnbondings(list) ==
  /\ OwnerSends("puppeteer") /\ icaOpen
  /\ Len(kvQueries) + Len(list) <= MaxQueries
  /\ Change(FALSE)
  /\ RegisterUnbonding(list)
  /\ UNCHANGED <<rewardsVars, adminVars>>

ManagerHandlers(denoms) ==
  /\ OwnerSends("rewards_manager") /\ denoms # handled
  /\ Cardinality(denoms \ handled) + Cardinality(handled \ denoms) = 1
  /\ Change(handled = {})
  /\ SetHandled(denoms)
  /\ UNCHANGED <<queriesVars, adminVars>>

HandlerConfig(denom) ==
  /\ owner["handler"] \in User /\ denom # from
  /\ Change(FALSE)
  /\ SetFrom(denom)
  /\ UNCHANGED <<queriesVars, adminVars>>

-----------------------------------------------------------------------------
(***************************************************************************)
(* Everybody, and the chains                                               *)
(***************************************************************************)

(* execute_register_ica, and the channel's opening *)
RegisterICA ==
  /\ inited /\ feesSet /\ ~icaOpen
  /\ icaOpen' = TRUE
  /\ UNCHANGED <<queriesVars, rewardsVars, inited, owner, pending, paused, ldDenom, feesSet,
                 frozen, apart, changes>>

(* execute_tick; its first step computes the exchange rate, which needs ld_denom *)
Tick ==
  /\ inited /\ ~paused["core"] /\ ldDenom # None
  /\ feesSet
  /\ TickRewards

ExchangeByAnyone ==
  /\ inited /\ ~paused["rewards_manager"]
  /\ ExchangeRewards

QueryResult(id) ==
  /\ BalancesResult(id, ica) \/ UnbondingResult(id)
  /\ UNCHANGED <<rewardsVars, adminVars, changes>>

Flow ==
  /\ \/ Tick \/ TransferPerformed \/ TransferRefused
     \/ ExchangeByAnyone \/ Exchange
     \/ Arrive
     \/ \E d \in Denom : Give(d)
  /\ UNCHANGED <<queriesVars, adminVars, changes>>

Reward(d, amount) ==
  /\ icaOpen
  /\ Change(FALSE)
  /\ Earn(d, amount)
  /\ UNCHANGED <<queriesVars, adminVars>>

FactoryStep ==
  \/ ExecuteInit \/ PostInit \/ Pause \/ Unpause \/ PuppeteerFees
  \/ \E denoms \in ReceiverSets : UpdateReceivers(denoms)

OwnerStep ==
  \/ \E c \in TwoStep : \/ \E new \in User \cup {"factory"} : TransferOwnership(c, new)
                        \/ AcceptOwnership(c) \/ RenounceOwnership(c)
  \/ \E c \in OneStep, new \in User : ConfigureOwner(c, new)
  \/ \E c \in Pausable : PauseOne(c) \/ UnpauseOne(c)
  \/ \E denom \in {"denom", "other"} : ConfigureCore(denom)
  \/ \E denoms \in ReceiverSets : CoreReceivers(denoms) \/ PuppeteerReceivers(denoms)
  \/ \E list \in UnbondingLists : PuppeteerUnbondings(list)
  \/ \E denoms \in SUBSET Denom : ManagerHandlers(denoms)
  \/ \E denom \in Denom : HandlerConfig(denom)

Next ==
  \/ FactoryStep \/ OwnerStep
  \/ RegisterICA \/ Flow
  \/ \E d \in Denom, amount \in Lumps : Reward(d, amount)
  \/ \E id \in Ids : QueryResult(id)

Spec == Init /\ [][Next]_vars

-----------------------------------------------------------------------------
(***************************************************************************)
(* Properties                                                              *)
(***************************************************************************)

(* Frozen means still: from the factory's pause to the first unpausing of any of the
   contracts, whoever owns them meanwhile, core sends no transaction and the rewards
   manager no coin. *)
FrozenMeansStill ==
  [][frozen => /\ transfer' \in {transfer, NoTransfer}
               /\ \A d \in Denom : manager'[d] >= manager[d]]_vars

(* As long as they are only set through the factory, core's receivers and the
   puppeteer's query for balances name the same denoms, in one query: neither half of
   the update is ever lost, whether the account is registered or the contracts have
   changed owners. *)
WatchedAreReceivers ==
  ~apart =>
    /\ receivers = None <=> QueriesOf("NonNativeRewardsBalances") = {}
    /\ \A id \in QueriesOf("NonNativeRewardsBalances") : watched[id] = receivers

=============================================================================
