# TLA+ models of the Drop Protocol contracts

This directory models the contracts under `src/` in TLA+, checks the models
with TLC on small instances, and proves theorems about them with TLAPS for
every value of the constants.

    tlc -config MCCoreBatches.cfg MCCore.tla      # one run, see "Runs"
    tlapm CoreProofs.tla                          # one module of proofs

## 1. The system

Drop is a liquid-staking protocol. Its contracts live on one chain (Neutron,
the *local* chain); what is staked lives on another (the *remote* chain), in an
*interchain account* (ICA) that a local contract owns. Users bond the base asset
or shares of delegations ("LSM shares") and get a liquid token; they unbond it
into a voucher, an NFT, that is paid out when the unbonding period of the
remote chain is over.

### 1.1 Components

| component | state | operations | correct when |
|---|---|---|---|
| `contracts/core` | state machine, batches of withdrawals, last response of the puppeteer, LSM maps, fees, bonded amount | bond, unbond, tick, puppeteer hook, owner's calls | one remote transaction at a time and the answer to it is used; batches are undelegated once, paid once, and only after they matured; nothing is lost in between |
| `contracts/puppeteer`, `packages/puppeteer-base` | register of the one transaction under way, ICA state, query results | `execute_*`, register ICA, set fees; callbacks: reply, response, error, timeout, open-ack, query result | every answer is true, is given once, and goes to who asked |
| `packages/helpers` `ica.rs`, `fsm.rs`, `pause.rs` | the item each stores | register / timeout / set address; go_to; pause | the ICA state agrees with the channel; only listed transitions |
| `contracts/withdrawal-manager`, `withdrawal-voucher` | owner and extension of each voucher | receive an NFT and pay it | a voucher is paid once, out of its own batch, at most what it expects |
| `contracts/token` | (the bank's supply) | mint, burn | supply changes through core only |
| `contracts/auto-withdrawer` | bonding record of each voucher, one pending sender | bond with tokens or NFT, unbond, withdraw; reply | it holds every voucher it has a record of, and coins for every deposit recorded |
| `contracts/pump` | ICA state | register, push, refund; callbacks | funds go to the destination or come back |
| `contracts/distribution`, `strategy` | none | deposit and withdrawal over validators | changes add up to the amount, none exceeds a stake |
| `contracts/validators-set`, `validators-stats` | validators, their statistics, query ids | update by owner or statistics or votes; query results, replies | statistics belong to their validator |
| `contracts/proposal-votes-poc`, `provider-proposals-poc` | voters, active proposals, query ids | update; query results, replies | queries follow the active proposals |
| `contracts/rewards-manager`, `astroport-exchange-handler` | handlers per denom, swap route | add / remove handler, exchange | a denom is exchanged by its handler |
| `contracts/puppeteer-authz` | like an earlier puppeteer | not built: commented out of `src/Cargo.toml:10` | |
| `contracts/factory` | addresses, config | init, pause and unpause of the others, proxy | a pause holds for all of them; its two-contract updates are whole |
| `contracts/hook-tester`, `packages/macros`, `integration_tests` | | test tool, derive macros, tests | |

### 1.2 Interactions

    user --bond/unbond--> core --mint/burn--> token, withdrawal-voucher
    anyone --tick--> core --execute_*--> puppeteer --ICA or transfer packet--> remote chain
    remote chain --ack/timeout--> puppeteer (sudo) --puppeteer hook--> core
    remote chain --interchain query result--> puppeteer <--query-- core, strategy
    user --voucher--> withdrawal-manager --query batch--> core
    core --claim, payout--> pump's account --push (pump)--> withdrawal-manager
    user --voucher--> auto-withdrawer --voucher--> withdrawal-manager
    core --rewards--> receivers --> rewards-manager --denom--> astroport-exchange-handler --> core
    core --query--> strategy --query--> distribution, validators-set, puppeteer
    remote chain --query result--> provider-proposals, proposal-votes --> validators-set
    factory --proxied messages, pause--> all of them

A message of a contract to a contract, with all its replies, is part of the
transaction that causes it: it is atomic, and a failure anywhere reverts all of
it. Concurrency comes in with the remote chain: between the transaction that
sends a packet and the one that carries its acknowledgement, users, ticks, query
results and the clock go on.

### 1.3 What is hard here

* **Order of answers.** The hook stores the last response whatever state the
  machine is in; ticks read it later. Answers to transactions that were sent in
  `Idle`, or sent before a failure put the machine back to `Idle`, stay stored.
* **A failing callback.** The puppeteer resets its register and calls the hook in
  one transaction. If the hook fails the reset is reverted, but the packet is gone.
* **Failure half way.** A payout changes the batches when it is *sent*.
* **Retry.** A failed undelegation leaves its batch behind the open one.
* **Stale data.** The balance of the ICA is that of the last query, which is stamped with
  the time of its delivery: what was read earlier passes for fresh.
* **Timeouts** close the ordered ICA channel, but not the transfer channel; they may
  be relayed when the account has been registered again.
* **Sums over several owners.** The exchange rate adds what the contract has now to
  delegations of an older result; vouchers share what a batch was paid; one token per
  validator is set aside and given back. Nothing may be counted twice or never.
* **Two queries about one thing** (a proposal and its votes, a validator and its
  signing info) are read at different times.
* **Administration.** Contracts change owners and are paused one by one, while the
  factory takes them to be its own.

`PROJECT.json` ("hazards") lists each at its line with the properties that
cover it, and those no property covers yet.

## 2. Modules

| module | what it is |
|---|---|
| `IcaTx` | abstract: a register for one remote transaction; what the puppeteer promises |
| `Puppeteer` | the puppeteer and its ICA, with channels and packets; implements `IcaTx` |
| `BatchLife` | abstract: the life of one batch of withdrawals |
| `Core` | the core contract, composed with `IcaTx` in the place of the puppeteer; implements `BatchLife` for every batch |
| `Pool` | the exchange rate, beside where the coins really are |
| `Pump` | the pump and its account, with channels, packets and fees |
| `Withdrawals` | `Pump` composed with the withdrawal manager, the vouchers, the auto-withdrawer and what they see of core |
| `Distribution` | `calc_deposit` and `calc_withdraw`, as functions |
| `Staking` | `Distribution` composed with the strategy, the validators set, the balance query and the plans of core |
| `Proposals` | provider-proposals, proposal-votes and the counters of the validators set |
| `ValidatorsStats` | validators-stats and the statistics of the validators set |
| `Queries` | the puppeteer's queries for rewards and unbondings: ids, reply ids, results |
| `Rewards` | `Queries` composed with the transfer of rewards, the rewards manager and the exchange handler |
| `Protocol` | `Rewards` composed with the factory, the ownership and the pauses of all contracts |
| `PuppeteerProofs`, `CoreProofs`, `PoolProofs`, `WithdrawalsProofs`, `StakingProofs`, `ProtocolProofs` | theorems about the module of that name |
| `ProposalsProofs` | theorems about `Proposals` and `ValidatorsStats` |
| `SumProofs` | lemmas about sums over finite sets and folds over sequences, for the other proofs |
| `MCPuppeteer`, `MCCore`, `MCPool`, `MCWithdrawals`, `MCStaking`, `MCProposals`, `MCValidatorsStats`, `MCProtocol` | instances for TLC |

No module models the whole: core alone is as large as TLC can bear. What one
module knows of another's part is a few of its steps, named after the code they
stand for: `Withdrawals` has core's batches open, close and be paid; `Pool` has the
state machine of `Core` with a working state reduced to whether it was
answered; `Protocol` has a transfer of rewards performed and answered in one step.

### 2.1 `Puppeteer`

`txState` is the stored `TxState`, `ica` the stored `IcaState`, `feesSet`
whether the fees have been stored. `channel`, `packets` and `nextSeq` are the IBC
module of the chain; `answers` is a history of the hook calls.

All eight transactions share the action `Execute`: check the register and the
account, store the transaction, send the packet. The contract stores
`InProgress` first and `WaitingForAck` in the reply to its own message; as both
belong to one transaction, `InProgress` is never seen from outside. A
transaction in `TransferTx` goes over the transfer channel, the others over the
ICA channel. The callbacks are `SudoResponse`, `SudoError`, `SudoTimeout`; none
compares the sequence number it gets with the stored one, so that `Reply` answers
with what is stored. `SudoReverted` is a callback whose hook fails. The sender is
the client to be answered, as it is for every contract of the protocol.

### 2.2 `Core`

One action per message and per state of the tick. Every tick ends with a search
for something to do, which is the same in several states and is modelled by
operators that take the state they are reached in:
`TransferOrStakeOrUnbondOrRest`, `StakeOrUnbondOrRest`, `UnbondOrRest`. They send
at most one transaction, through `P!Send` of `IcaTx`; where that is refused,
because the register is taken, so is the whole tick. `GoTo` is refused for a
transition that is not in the table, and again the whole tick is: from
`Claiming`, for example, there is none to `Unbonding`.

* `batches` is `unbond_batches_map`, with the number of its items instead of the
  items, and with `Absent` for no entry.
* `lastResponse` is `LAST_PUPPETEER_RESPONSE`: whether it is a success, and of which
  transaction.
* `pendingLsm`, `lsmToRedeem` are the two maps of LSM shares by denom.
* `icaQuery` is the balance of the ICA the puppeteer last got, `at` which time it was
  delivered and stamped (`sudo_kv_query_result`), and when it was `read`. Core sees only the
  first two. `IcqUpdate` delivers a result with a delay out of `Delays`; results come in
  the order in which they were read.
* `tx`, `stage` are those of `IcaTx`: the transaction under way and how far it is.
* `paid`, `pumped`, `feesPaid` are histories of what the remote chain performed; `matures`
  is when it releases the funds of a batch, counted from when it performed the undelegation.
* `now` is both the time and the height of the block: the code compares times with
  times and heights with heights, and both grow together.

Data is abstracted as follows. Amounts of bonds, unbondings and query results
come from the small sets of the constants. The worth of an unbonding (its amount
times the exchange rate) is a second such input, `ExpectedAmounts`. Whether there
are validators to claim from and rewards to transfer are Boolean inputs of a
tick. A sum beyond `MaxAmount` fails as an overflow does.

Conditions that never bind: the subtractions of the hook (`LsmSent`,
`LsmRedeemed`) are guarded against underflow as the code is by its checked
arithmetic; `LsmInFlightIsBooked` and `LsmConserved` imply that the guards hold.

### 2.3 `Pool`

`Worth` is what `query_exchange_rate` adds up and `IdleRate` what it returns in
`Idle`; the working states answer `cached`, which every tick of `Idle` renews
(`CacheRate`). `Issued` and `Promised` have the truncations of `Decimal`: with
`ONE` of 10^18 in the code, any natural number here. `ica` and `staked` are the remote
account; `known` is the last query result, of any age, and `outdated` whether an
answer came since, which is all that heights are used for. A rate whose
subtraction would underflow is none (`RateIsDefined`), and who asked for it is refused.

A delegation takes `config.fee` of the whole balance on the account, users' deposits
included (`Stake`). The fee and whether there is a `fee_address` may be different each time.
Without an address the fee is kept back, stays on the account and is part of the next
balance. With one it is booked in `collectedFees`, and ticks of `Idle` before the interval
send it (`TickFees`, `FeesPaid`): each of them again, since it is not cleared.

`read` is what a relayer read of the account last and `QueryResult` delivers it at any
later time, as a new one. What is delivered after the account has changed is *stale*.

`disturbed` is a history of what may move the rate for a good or bad reason: rewards,
slashing, a refunded transfer (*lost*), a price given while coins were out of sight
(*unseen*, *skewed*), a batch that was overwritten (*reopened*), matured funds that were
staked again (*restaked*), a *stale* result, and booked *fees*. These things happen in the
model; the properties of the rate say what holds as long as they have not. An undisturbed
pool has a rate of exactly one. What is kept back as an unbooked fee does not disturb: it
is out of sight until it is staked.

The state machine has the transition table of core where it bites: `RequestUnbonding` is
possible from `Staking` only, and a tick of `Claiming` or `Transfering` that finds
nothing to do but to undelegate fails, as in `Core`.

Of the batches there is the open one and the one before it; one batch at a time is
past its undelegation. Three failures are left out of `Pool`: a failed claim sends the
machine to `Idle` and may strand a payout (`WithdrawingIsUnderWay` of `Core`, below); a failed
delegation stops the machine in `Staking` (`FailedStakingIsFinal`); a failed redemption or
transfer of fees, in `Idle`, leaves the puppeteer waiting (`FailureIsRuledInIdle`). None of
them moves coins on the remote account.

### 2.4 `Withdrawals` and `Pump`

The pump has no register: any number of packets are under way, over the channels that
were opened one after the other. A timeout closes the channel; timeouts of the other
packets of that channel may be relayed at any later time, also when a new channel is
open. `transit` are the IBC transfers of the remote account, which arrive or return.

Vouchers are numbers; `owner`, `approved` and `vouchers` are the cw721 contract's
maps, which is a library and external here. The reply of the auto-withdrawer, which
finds the minted token in the events of core, is part of the action that bonds. The
manager's payment is `Payout`, the expected amount times the slashing effect,
truncated.

`execute_bond_with_nft` does not ask who owns the voucher: it transfers it to the
auto-withdrawer, which succeeds if the auto-withdrawer is approved for it or holds it
already, and writes a record for whoever called, over one that may be there. So does
`BondWithNFT`. Users may also transfer a voucher to the auto-withdrawer or to the manager,
which are not told of it (`Transfer`). `claimant` is a history: who held a voucher last,
bonded it last, or was named by its holder when it was sent to the manager. Nobody sends coins
to a contract without a message, which would only add to what it has, and the pump's
destination is the manager. A batch is not reopened.

### 2.5 `Staking` and `Distribution`

`Distribute` is the loop of both functions over the list, as a fold: one token of each
validator is set aside, and given back when its turn comes. `CalcIdealStake` rounds
as the code does. In `Staking` a plan is made from the members, the last result and
the amount, sent, and performed or refused by the remote chain. A deposit is planned of the
balance less `config.fee` of it (`Deposit`). `ReadRemote` and
`SudoKVQueryResult` are separate steps: what is delivered was read before. The chain's
query module accepts a result only for the keys of the registered query.

### 2.6 `Proposals` and `ValidatorsStats`

Results of the two queries of each contract are read and delivered in different steps,
and may be given up (`Drop`), as the chain does when the contract refuses them. The
remote chain deletes the votes of a proposal when it is tallied and proposals that miss
their deposit. A voter and a validator are one name, which is what the validators
set assumes when it finds voters among its members. Calls between the contracts
are part of the delivery, so that one refusal undoes all of it.

In `ValidatorsStats` heights, prices and commissions are left out, block times and
heights are one clock, and a result is newer than the last of its query. What the code
refuses by a panic (a share of missed blocks above one) is a delivery that cannot happen.
`ProposalsProofs` extends both modules, which is why names differ in this one:
`StatsSpec`, `Valopers`, and `chain` for the remote chain.

### 2.7 `Protocol`, `Rewards` and `Queries`

A message of the factory and all it sends on are one action. `owner` and `pending` are
the ownership of each contract; core and factory hand over in two steps, the others by a
setting in `update_config`. A refused message changes nothing, so that only the
messages of owners are actions. `Queries` has the reply ids with their offset, since
they alone tell which validator a query was registered for. Exchanged coins leave this
model; they are `RewardsExchanged` of `Pool`. `frozen`, `apart` and `misrouted` are
histories that say under which circumstances a property is claimed.

Query results are read and delivered at once here, the trip of the rewards over IBC is
that of `Pump`'s transfers, and the pair and route of a swap, which only decide about
its price, are left out. The transfer of rewards carries collected fees too, also when there
are no rewards to send; those are in `Pool` (`TickFees`) and in `Core`. A transfer of
rewards may fail for want of funds and, with `MayFail`, for any other reason or by a timeout.

What the properties of `Protocol` do not say: `WatchedAreMembers` of `Staking` is about
updates through the factory's own message, not about its owner's `AdminExecute` to the
validators set alone; `HandlerKeepsNothing` meets at most one denom handed over before
another is refused; `FrozenMeansStill` ends with the first unpausing.

## 3. Runs

| run | instance | shows |
|---|---|---|
| `puppeteer` | 2 clients, 2 transactions, one of them a transfer, hooks may fail, 4 packets | `AnswerMatches`, `AnswersAreTrue`, `RegisteredIsOpen`, implements `IcaTx` |
| `puppeteer_live` | 2 clients, no transfer, hooks accept, 3 packets | `AlwaysAnswered`, `IcaRecovers` |
| `core_batches` | 3 batches of one unbonding, time up to 4, results delivered at once or one later, no LSM shares | the properties of machine, transaction, batches and payment; implements `BatchLife`; `FailedStakingIsFinal` |
| `core_lsm` | 2 denoms, 2 shares, fees of one half, the owner acts, no unbonding | types, `LsmConserved`, `LsmInFlightIsBooked` |
| `pool` | bonds of 2, LSM bonds and unbondings of 1, 4 coins, fees of nothing or of one half, booked or not, 1 reward, 1 slashing, 1 disturbance, late results, failing transfers and undelegations | `RateIsOneUndisturbed`, `RateNeverFalls`, `BondTakesNothing` |
| `withdrawals` | 2 users, 2 vouchers, 2 batches, 2 deposits, 2 packets on 2 channels, slashed payouts, vouchers bonded again and transferred to contracts | `PayoutsCovered`, `PaidToClaimant`, `BondedIsHeld`, `DepositsCovered`, `RegisteredIsOpen` |
| `staking` | 2 validators, weights that change, amounts of 2 and 3, fees of nothing or two fifths | `DepositAddsUp`, `WithdrawInBounds`, `WatchedAreMembers` |
| `proposals` | 2 proposals with good and vetoed tallies, 1 validator, prefetch of 1 or 2 | `CountsAreEarned`, `VotesAreKept` |
| `validators_stats` | 2 validators of which one may be left out, 2 blocks, 2 kept records | `JailingsAreReal`, `NobodyIsBlamed`, `TombstonesStay` |
| `protocol` | 2 owners, 2 denoms, 2 validators, set-up in any order, 2 changes or rewards, transfers that fail for any reason | `RecordsAreOwn`, `FeeIsItsShare`, `HandlerKeepsNothing`, `WatchedAreReceivers`, `FrozenMeansStill` |

Two runs are expected to find a violation; each checks what a comment or an error
message of the code says, and PROJECT.json has its finding:

| run | property | what happens |
|---|---|---|
| `pool_promise` | `SlashingEffectMeansSlashing` | after a reward, tokens worth 3 are burned and 2 coins undelegated for them: the batch is paid less than promised, and its *slashing effect* is below one, without a slashing |
| `rewards_stuck` | `FailureIsRuled` | two ticks transfer the rewards of one query result; the second is refused by the remote chain, core's hook fails on the answer (`Idle` to `Idle`), and the puppeteer waits for ever |

### 3.1 Bounds

* 4 packets let the puppeteer's account time out and be registered again, with a
  transaction before and after; nothing of the contract's state depends on the
  number of packets.
* 3 batches are a batch that failed or is being paid, the one behind it, and one to be
  opened. `OpenedId` stops at `MaxBatch`.
* `MaxTime` of `Core` lets the unbonding period pass and the balance be queried after
  it; `SwitchTime` is large enough for several batches to be requested in that time,
  and small enough to pass in some behaviours.
* `Delays` of `core_batches` is {0, 1}; a delay of 2 is needed for a balance read before a
  batch matures to be delivered after its release (`PaidFromMaturedFunds` below), which no
  property of the run is about. They are proved for any delays.
* The balances {1, 4} of `Core` are less and more than what two batches expect (2 each)
  and on both sides of `MinStake`, so that both kinds of payout occur.
* `core_lsm` has two denoms, so that one is transferred while the other is
  redeemed; `MaxLsm` of 2 lets a share be bonded while one is under way.
* `pool`: `ONE` of 100 is large beside amounts up to 4, as 10^18 is in the code, and
  still leaves truncations to be seen (2 of 3, 1 of 3). 4 coins are a bond that is
  delegated and one that follows; one disturbance after another would add nothing,
  since the properties are about none, or rewards only. A fee of one half is a coin of two:
  kept back it is part of the next balance, booked it is sent, and sent again.
* `withdrawals`: two vouchers of one batch share a payout that does not divide; two
  channels and two packets let a packet of the first time out after the second opens.
  `MaxAutoFunds` of 2 lets a record of one voucher be overwritten, or both vouchers have one.
* `staking`: amounts of the number of validators and one more, weights that differ, so
  that the list breaks off early and stakes lie above and below their ideal.
* `proposals`: two proposals let the query advance and the second be asked for while the
  first is counted; `MaxCount` of 2 lets it be counted again.
* `validators_stats`: two records are all that is kept; the second block pushes out the first.
* `protocol`: the first setting of everything is free, in any order; then `MaxChanges`
  changes or rewards. The handler's minimum (2) is above the manager's (1), so that a
  handler refuses.
* `MaxItems`, `MaxBonded`, `MaxFees`, `MaxFunds`, `MaxLocal`, `MaxQueries` stop users and
  owners from going on for ever.

The bounds are guards of the models and stop them; the contracts have also real
dead ends (a lost answer). Runs therefore do not check for deadlock.

### 3.2 Fairness

`FairSpec` of `Puppeteer` assumes that the owner sets the fees, that someone asks for
a registration that is possible (anyone may), that relayers complete
handshakes, and that they bring home every packet, as an acknowledgement or as a
timeout. It does not assume that anyone sends. It is checked with hooks that
accept their answers and without IBC transfers; without these two restrictions
the properties fail, as the known divergences below explain. The other modules have no
fairness: nobody is obliged to call tick, to exchange rewards or to push.

### 3.3 Known divergences

Found while modelling and described by definitions that are kept in the modules.
Those of the violation runs are above. These are not part of any run;
each definition can be put into the cfg of its module's run (of `Core`'s,
`MCCoreBatches.cfg`, but `MCCoreLsm.cfg` for `FeesPaidOnce`) as an INVARIANT or, for
`TickNeedsOwnAnswer`, `ItemsNeverShrink`, `PaidFromMaturedFunds` and `BondersStay`, a PROPERTY
to see TLC's trace.

| definition | what the code does |
|---|---|
| `Puppeteer!TimeoutMeansClosed` | `sudo_timeout` (puppeteer `contract.rs:1142`) sets `Timeout` for an IBC transfer too, whose channel is not the account's: the account is open and can not be registered again |
| `Core!TickNeedsOwnAnswer` | a working state ticks on an answer to a transaction of `Idle` that is still stored (core `contract.rs:609`), before its own is answered; `core.test.ts:1111` expects a refusal |
| `Core!FailureIsRuledInIdle` | like `rewards_stuck`, for every transaction that is sent in `Idle` |
| `Core!WithdrawingIsUnderWay` | a claim fails, or there is nothing to claim from (`contract.rs:561`); the batches it was to pay stay `Withdrawing` and are never looked at again |
| `Core!ItemsNeverShrink` | the retry of a failed batch writes a new batch over the one behind it (`contract.rs:1163`), with the unbondings in it; `state/core.rs:64` calls the array "always growing" |
| `Core!PaidFromMaturedFunds` (with `Delays` of {0, 2}) | core takes a balance whose time is after the release of a batch for fresh (`contract.rs:455`), as `core-slashing.test.ts:987` does, but the time is that of its delivery (`puppeteer-base/src/sudo.rs:116`): a batch is undelegated at 1 and matures at 3, at 4 a balance that was read at 2 is delivered, and the batch is paid on account of it |
| `Core!FeesPaidOnce` | collected fees are transferred and not cleared (`contract.rs:1303`): the next tick pays them again |
| `Staking!OutdatedIsRefused` | a result that was read before the account's last transaction and delivered after it passes for fresh, because the height stored with it is that of its delivery (`puppeteer-base/src/sudo.rs:114`) |
| `Withdrawals!BondersStay` | anybody bonds a voucher the auto-withdrawer holds (`contract.rs:109`): the record is overwritten, its bonder is not paid and its deposit belongs to no record |
| `Withdrawals!NoneStranded` | a voucher that is transferred to the auto-withdrawer without a message has no record, until somebody bonds it and is paid for it |
| `Pool!RateNeverOverflows` | when delegations are known too low, the subtraction in `query_exchange_rate` (`contract.rs:173`) underflows, and bond, unbond and every tick of `Idle` fail until a result comes |

Some more facts of the code that the models follow and that no property is about: the
proposals query asks for its first proposal until that one is finished, and counts it with
every result that shows it finished; the votes contract can not change a query once registered,
since its reply looks for the number of a new one; `update_voters_list` does not change it
either; `calc_withdraw` may return less than asked when the list breaks off, and asks
one token of a validator without stake; validators-stats never sends what it has
collected; the check of an LSM denom (core `contract.rs:1458`) refuses a share only when
port and channel are both wrong.

## 4. Theorems

All theorems hold for every value of the constants that satisfies the assumptions named in
the modules (`PuppeteerAssumption`, `CoreAssumption` with `NullAssumption`,
`PoolAssumption`, `PumpAssumption` with `WithdrawalsAssumption`, `PrecisionAssumption` with
`StakingAssumption`, `ProposalsAssumption`, `StatsAssumption`, `ProtocolAssumption`), which
TLC evaluates in every run. They say what kind of value a constant is; two say more: an
unbonding query list is no longer than the reply id offset (a longer one makes ids that are
read as another kind), and a fee is at most the whole.

**`PuppeteerProofs`.** `IInv` adds to the types and to `AnswerMatches` that sequence numbers
are never used twice (`SeqsAreFresh`), that an empty register holds no transaction
(`IdleIsEmpty`), and that a registered account is without its channel only after a lost
answer, with the register full (`ClosedOnlyIfLost`). From it follow `AnswerMatchesAlways`,
`AnswersAreTrueAlways` and `RegisteredIsOpenAlways`. For `KeepsPromiseAlways` the stage of
the abstract register is read off the packets (`StageOf`); each step is a step of `IcaTx` or
leaves it alone.

**`SumProofs`.** Amounts are sums over sets (`SumFunctionOnSet`) and several handlers are
loops over lists (`FoldLeft`); the community modules define both by a recursive function
that is chosen to exist. `NumbersByInduction` and `SubsetsByInduction` state induction over
a *set* of good cases instead of a predicate, so that they can be cited without
instantiating an operator. From them follow that the chosen function exists, that a sum does
not depend on the order in which it is taken (`SumsAgree`), what an element, a change of one
value or a second function does to it, and that a fold goes through a run of values from
which every invariant of one step carries over (`FoldRuns`, `FoldsAgree`).

**`CoreProofs`.** `TypeCorrect` first, by one lemma per tail of a tick. `IInv` is the
conjunction of the four properties `OutstandingMatchesFsm`, `NoOrphanState`,
`FrontierIsOpen`, `RequestedIsUnderWay`, and `WithdrawnIsPaid`, with what each needs to be
inductive:

* `UndelegateIsUnanswered`: while an undelegation is under way no response is stored, so
  that none is mistaken for its answer. (Stale responses come from other transactions, and
  the tick that sends an undelegation has consumed what was stored.)
* `UndelegateIsRequested`: the batch of an undelegation, under way or answered, is
  requested.
* `RequestedIsLast`: a requested batch is the one before the open one.
* `ClaimsArePaying`: the batches of a claim, under way or answered, are released for payment
  or withdrawn.
* `PaysAreCounted`: those batches are unpaid until the claim is performed, and paid once
  from then on, to when its success is read.

This is why stale responses, which do let ticks through early, never cause a batch to be
paid twice or called withdrawn unpaid. On top of `IInv`:

* *LSM shares.* `LsmConserved` is not inductive: a redemption takes the shares of its
  transaction off the total and clears the entries of its denoms, which is the same only
  because the maps did not change since it was sent. Together with `LsmInFlightIsBooked`,
  which says so, it is.
* *The life of a batch.* `EachBatchLives` is the refinement of `BatchLife`: each step of the
  system is a step of the life of each batch or leaves it alone. It needs the `Ledger`: the
  phase of a batch shows in its release time and its payout (`PhasesAreDated`), a claim has
  batches of one kind, so that it settles each as it was released (`ClaimsOfOneKind`), and
  no balance is newer than the clock. `PaidAfterMaturity` is part of it: the release time is
  set by a tick after the undelegation was performed, so that whatever the clock and the
  query's stamp are compared with lies after the funds matured. That the balance itself was
  read after that moment does not hold (`PaidFromMaturedFunds`).
* *Payouts.* `PumpedCoversWithdrawn` is about batches called withdrawn, which happens long
  after the remote chain paid them. `PumpCovers` counts them from the payment on, and
  `ClaimCovers` says that until then the claim under way is worth at least what its batches
  are due.
* *The exchange rate.* `UnprocessedCountedOnce` follows from `IInv`: the batches whose
  undelegation is not known to be performed are the last two, which is where the code looks
  for them.
* *A dead end.* `FailedStakingIsFinal` describes what the code does rather than what it
  should: the tick refuses a failed delegation (`PreviousStakingWasFailed`) and keeps the
  answer, no other message leads out of `Staking`, and nothing is sent any more, unless the
  owner gives core another puppeteer.

**`PoolProofs`.** A ledger. `Free` is what the pool holds, wherever it is (`Holdings`, with
what travels), less what its batches are owed. As long as nothing but rewards has disturbed
the pool its books are right (`Booked`): every unbonding is promised what was burned
(`Even`), and matured funds lie on the account untouched, so that no result or delegation
under way counts them (`Reserved`). Then a bond adds to `Free` what it pays, an unbonding
takes as many coins as tokens, a reward adds to it, and no other step moves it. A booked fee
is owed to somebody else, so that books are right only while there is none (`NoFees`: no fee is
collected or sent before one was booked, and a booked one is a disturbance); a fee that is
kept back without an address lies on the account and is part of `Free`. And when all
coins are in sight `Free` is what the contract computes as its worth. So

* undisturbed `Free = supply` (`OneForOne`), which gives `RateIsOneUndisturbed`. The rate
  alone is not inductive: it is false whenever coins travel;
* with rewards `lastRate * supply <= ONE * Free` (`NoLess`), where `lastRate` is the rate
  when all coins were last in sight. Each bond and each unbonding keeps the inequality in
  spite of its truncation, which gives `RateNeverFalls`, for any number of bonds and cycles.
  It is claimed while there are tokens: when the last one is burned the rate of the code is
  one again, and the history starts anew.

`BondTakesNothingAlways` needs only the types and holds in every state, disturbed or not.
The bounds of the model play no part in any of them.

**`WithdrawalsProofs`.** One invariant of each voucher (`IsHeld`): who holds it decides
whether there may be a record, whose claim it is (of a recorded one, the bonder's), and
whether it was paid; and batches are withdrawn for ever. For
the pump, `RegisteredIsOpen` is inductive with the types. `DepositsCovered`: the coins of the
auto-withdrawer are at least the sum over its records, of which each step changes one; they
are more once a record was overwritten.
`PayoutsCovered` rests on `FundsInv`: what came for the withdrawn batches is there, under
way or paid out (`FundsAreUnbonded`), a batch expects what its vouchers say
(`ExpectedIsMinted`) and got no more than that, and each paid voucher was paid what it still
would be (`PaidIsOwed`), since its batch does not change any more. The payouts of one batch,
each rounded down, then add up to no more than what came for it (`SumByClass` sorts the
vouchers by batch).

**`StakingProofs`.** The factory changes set and query in one message, so that the watched
validators are members after each of them; a single update only adds. A plan is two loops:
the ideal stakes are handed out, then the gaps are filled; `IdealOK` and `FillOK` are their
invariants (`WithdrawPlanned` and `DepositPlanned` say the result, for any list of
delegations). The token set aside for each validator is in the sum from the start (`k +
spare - left`), so that nothing is lost when it is given back. `WithdrawInBoundsAlways`
holds for any weights. `DepositAddsUpAlways` has a hypothesis of its own: weights are at
most `w`, and `w` times the number of validators is within the precision of a `Decimal`,
10^18. It is needed: the share of one unit of weight is rounded down, and the loss, times a
larger total weight, could exceed what rounding the shares up gives back, so that part of a
deposit is handed to nobody. The code does not bound the weights; its tests use one, and the
run weights of 1 and 2 with a precision of its own.

**`ProposalsProofs`**, votes. `ChainInv`: proposals come in order, and what is finished
stays; `AskingInv`: what a result under way says of finished proposals is still true;
`QueryInv`: there is one query of votes at most, the same for ever; `StoredInv` and
`ReadInv`: votes grow on the way from the contract to the result under way and to the remote
chain, which is why an empty or old result never takes one away; `CountInv`: whoever is
counted has earned it.

**`ProposalsProofs`**, statistics. For jailings, `JailInv`: what is counted, plus one if the
present or a profile under way would be seen as a new jailing (`Rise`), is no more than what
happened. Being seen jailed twice in a row costs nothing, and being released unseen between
two jailings loses one, but none is ever made up. For blame, `Spotless`: of a validator that
missed nothing, every record says so, those of earlier lists included; the loop over infos
and the loop over records within it keep that. Tombstones and jailings pass through the loop
over infos unchanged (`Grown`). `StatsTypeCorrect` shows besides that a result is only
stored when the number of blocks it is about is not negative.

**`ProtocolProofs`.** `RecordsWatchOwn`: the query of a record asks for its validator, which
rests on the arithmetic of reply ids (`ReplyFindsValidator`); `FrozenIsPaused`: what the
factory has frozen is paused in each contract whoever owns it; `WatchedAreReceivers` and
`FeeIsItsShare` are inductive beside the types. `HandlerInv`: unless it was told otherwise,
the manager calls the handler only for the denom it swaps, so that it holds at most what
others gave it, however many denoms the manager goes through in its one message.

**Model-checked only.** The liveness properties `AlwaysAnswered` and `IcaRecovers`, which
the prover does not reach (fairness, ENABLED), and the two violations. Every invariant and
action property of the passing runs is a theorem, as are the two refinements.

## 5. Not modelled

* In `core`: `PRE_UNBONDING_BALANCE` and `PENDING_TRANSFER` (written, never read), the
  settings of `update_config` (constant here; in `Protocol` it is taken or refused), the
  check of an LSM denom, failures of the queries to the strategy.
  `expected_release - safe_period` is assumed not to underflow.
* In `puppeteer`: the transfers query and `recipient_transfers`, which no contract
  reads; the content of messages beyond amounts and validators; migration.
* `puppeteer-authz`, which the workspace does not build; `hook-tester`, a test client.
* In `factory`: salts and labels; ownership that expires. In `strategy`: `update_config`.
  In `token`: the metadata, which can not be set, since its sender must be core and its
  owner is the factory. In the exchange handler: pair and route.
* Encoding of keys, versions and attributes; generated protobuf code; macros; tests.
* The channel handshake always succeeds at last.

## 6. What is left

1. Liveness of `Core` and `Pool` under fair ticks, relayers and queries: which ticks are
   possible, given the transitions that are missing and the failed delegation that is never
   removed. It needs an assumption about the operator who calls tick.
2. `Pool` with several batches past their undelegation at once, and failing claims.
3. Proofs: `Core` over `Puppeteer` itself instead of the register it promises; the same for the
   pump's account in `Withdrawals`.
4. `recipient_transfers` and the TX query of the puppeteer.
