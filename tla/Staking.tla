------------------------------- MODULE Staking -------------------------------
(***************************************************************************)
(* Stakes: the validators set, which the owner changes through the         *)
(* factory; the interchain query of the puppeteer for the balance and the  *)
(* delegations of its account; and the plans that core has the strategy    *)
(* contract make from both (with module Distribution) and the puppeteer    *)
(* send, one at a time.                                                    *)
(*                                                                         *)
(* The query's results are read on the remote chain at one time and        *)
(* delivered at a later one.  Heights are only compared: of them there is  *)
(* what the comparisons give.  Validators are numbered in the order of     *)
(* their addresses.                                                        *)
(***************************************************************************)
EXTENDS Distribution, FiniteSets, FiniteSetsExt

CONSTANTS
  Validators,
  Weights,
  Amounts,           \* amounts that come in, and that are withdrawn
  MinStake,          \* config.min_stake_amount
  Fees,              \* what config.fee may be, of Precision
  Lists,             \* the validators sets the owner may choose: weights by validator
  MaxFunds           \* bound of the model: funds on the remote chain

ASSUME StakingAssumption ==
  /\ Validators \subseteq Nat /\ IsFiniteSet(Validators)
  /\ Weights \cup Fees \subseteq Nat /\ Amounts \subseteq Nat \ {0}
  /\ \A list \in Lists : DOMAIN list \subseteq Validators /\ Range(list) \subseteq Nat
  /\ {MinStake, MaxFunds} \subseteq Nat

VARIABLES
  icaReady,       \* the puppeteer has an account
  members,        \* VALIDATORS_SET: weights by address
  watched,        \* the validators that the query asks for
  registered,     \* kv_queries has a query for balance and delegations
  result,         \* a result that the relayer has read and not delivered yet
  snapshot,       \* DELEGATIONS_AND_BALANCE
  outdated,       \* core's LAST_ICA_BALANCE_CHANGE_HEIGHT is above the snapshot's height
  inThisBlock,    \* the snapshot was delivered in the present block
  tx,             \* the plan under way
  liquid, stake   \* the account on the remote chain

setVars == <<members, watched, registered>>
queryVars == <<result, snapshot>>
heightVars == <<outdated, inThisBlock>>
remoteVars == <<liquid, stake>>
vars == <<icaReady, setVars, queryVars, heightVars, tx, remoteVars>>

Stakes == [Validators -> Nat]
(* What is read of the remote chain.  `latest` is a history: no transaction of the
   account has been performed since. *)
Readings == [balance : Nat, stake : Stakes, latest : BOOLEAN]
NoReading == [balance |-> 0, stake |-> [v \in Validators |-> 0], latest |-> FALSE]
NoResult == [reading |-> NoReading, keys |-> {}]
Item == [valoper : Validators, ideal : Nat, current : Nat, change : Nat]
NoTx == [kind |-> "none", amount |-> 0, items |-> <<>>, state |-> "none",
         whole |-> FALSE, latest |-> FALSE]

(* the types of the state of all these contracts *)
TypeOK ==
  /\ icaReady \in BOOLEAN /\ registered \in BOOLEAN
  /\ DOMAIN members \subseteq Validators /\ \A v \in DOMAIN members : members[v] \in Nat
  /\ watched \subseteq Validators
  /\ result \in [reading : Readings, keys : SUBSET Validators]
  /\ snapshot \in [reading : Readings, known : BOOLEAN]
  /\ outdated \in BOOLEAN /\ inThisBlock \in BOOLEAN
  /\ tx \in [kind : {"none", "Delegate", "Undelegate"}, amount : Nat, items : Seq(Item),
            state : {"none", "sent", "done", "failed"}, whole : BOOLEAN, latest : BOOLEAN]
  /\ liquid \in Nat /\ stake \in Stakes

SetInit == members = <<>>

Init ==
  /\ SetInit
  /\ icaReady = FALSE
  /\ watched = {} /\ registered = FALSE
  /\ result = NoResult
  /\ snapshot = [reading |-> NoReading, known |-> FALSE]
  /\ outdated = FALSE /\ inThisBlock = FALSE
  /\ tx = NoTx
  /\ liquid = 0 /\ stake = [v \in Validators |-> 0]

-----------------------------------------------------------------------------
(***************************************************************************)
(* The validators set                                                      *)
(***************************************************************************)

(* The puppeteer's account is opened: no query can be registered before. *)
OpenAccount ==
  /\ ~icaReady
  /\ icaReady' = TRUE
  /\ UNCHANGED <<setVars, queryVars, heightVars, tx, remoteVars>>

(* The keys of the query: balance, staking denomination and, for every validator, the
   delegation and the validator. *)
KeysFor(valopers) == watched' = valopers

(* register_balance_delegations_query, with the reply that notes a new query: the
   registered query is changed, or a new one is registered *)
NoteQuery == registered' = TRUE

WatchValidators_if_new(valopers) ==
  /\ icaReady
  /\ IF registered THEN UNCHANGED watched ELSE KeysFor(valopers)
  /\ NoteQuery
WatchValidators(valopers) ==
  /\ icaReady
  /\ KeysFor(valopers)
  /\ NoteQuery

(* execute_update_validators and execute_update_validator of the validators set *)
ReplaceSet(list) == members' = list

WriteValidator(v, weight) ==
  members' = [w \in DOMAIN members \cup {v} |-> IF w = v THEN weight ELSE members[w]]

(* The factory's proxy: with the whole set the query is changed too, in the same
   transaction; a single validator is written over or added, and the query stays. *)
UpdateValidators(list) ==
  /\ ReplaceSet(list)
  /\ WatchValidators(DOMAIN list)
  /\ UNCHANGED <<icaReady, queryVars, heightVars, tx, remoteVars>>

UpdateValidator(v, weight) ==
  /\ WriteValidator(v, weight)
  /\ UNCHANGED <<icaReady, watched, registered, queryVars, heightVars, tx, remoteVars>>

-----------------------------------------------------------------------------
(***************************************************************************)
(* Query results                                                           *)
(***************************************************************************)

(* The values of the query's keys: a delegation that does not exist is an empty value,
   and is left out when the result is reconstructed. *)
Reconstruct == [balance |-> liquid, latest |-> TRUE,
                stake |-> [v \in Validators |-> IF v \in watched THEN stake[v] ELSE 0]]

ReadRemote ==
  /\ registered
  /\ result = NoResult
  /\ result' = [reading |-> Reconstruct, keys |-> watched]
  /\ UNCHANGED <<icaReady, setVars, snapshot, heightVars, tx, remoteVars>>

(* sudo_kv_query_result: stored with the height at which it is delivered *)
SudoKVQueryResult ==
  /\ result # NoResult /\ result.keys = watched
  /\ snapshot' = [reading |-> result.reading, known |-> TRUE]
  /\ outdated' = FALSE /\ inThisBlock' = TRUE
  /\ result' = NoResult
  /\ UNCHANGED <<icaReady, setVars, tx, remoteVars>>

(* the chain refuses the values of other keys than the query has *)
ResultRefused ==
  /\ result.keys # watched
  /\ result' = NoResult
  /\ UNCHANGED <<icaReady, setVars, snapshot, heightVars, tx, remoteVars>>

-----------------------------------------------------------------------------
(***************************************************************************)
(* Plans                                                                   *)
(***************************************************************************)

(* the addresses of a set, as a map of the storage is gone through *)
InOrder(valopers) ==
  CHOOSE s \in [1..Cardinality(valopers) -> valopers] :
    \A i, j \in 1..Cardinality(valopers) : i < j => s[i] < s[j]

(* prepare_delegation_data: the validators of the set, with what the query knows *)
Delegations ==
  LET valopers == InOrder(DOMAIN members)
  IN  [i \in 1..Cardinality(DOMAIN members) |->
        [valoper |-> valopers[i], stake |-> snapshot.reading.stake[valopers[i]],
         weight |-> members[valopers[i]]]]

(* query_calc_deposit, query_calc_withdraw: what core asks of the strategy *)
DepositPlan(deposit) == CalcDeposit(deposit, Delegations)
WithdrawPlan(withdraw) == CalcWithdraw(withdraw, Delegations)

Send(kind, amount, items) ==
  /\ icaReady /\ tx = NoTx
  /\ tx' = [kind |-> kind, amount |-> amount, items |-> items, state |-> "sent",
            whole |-> Len(items) = Cardinality(DOMAIN members),
            latest |-> snapshot.reading.latest]

(* get_stake_msg: what remains of the balance when the fee is kept back.  More than the
   balance is an overflow. *)
Deposit(rate) ==
  LET balance == snapshot.reading.balance IN balance - (rate * balance) \div Precision

PlanDelegate ==
  \E rate \in Fees :
    LET deposit == Deposit(rate)
    IN
      /\ snapshot.known
      /\ snapshot.reading.balance >= MinStake
      /\ ~outdated
      /\ deposit >= 0
      /\ DepositSucceeds(deposit, Delegations)
      /\ Send("Delegate", deposit, DepositPlan(deposit))
      /\ UNCHANGED <<icaReady, setVars, queryVars, heightVars, remoteVars>>

(* get_unbonding_msg *)
PlanUndelegate(withdraw) ==
  /\ snapshot.known
  /\ WithdrawSucceeds(withdraw, Delegations)
  /\ Send("Undelegate", withdraw, WithdrawPlan(withdraw))
  /\ UNCHANGED <<icaReady, setVars, queryVars, heightVars, remoteVars>>

(* the remote chain performs all messages of a transaction or none, in a later block *)
ChangeOf(v) == SumFunctionOnSet([i \in DOMAIN tx.items |-> tx.items[i].change],
                                {i \in DOMAIN tx.items : tx.items[i].valoper = v})

RemotePerform ==
  /\ tx.state = "sent"
  /\ \/ /\ tx.kind = "Delegate"
        /\ TotalChange(tx.items) <= liquid
        /\ liquid' = liquid - TotalChange(tx.items)
        /\ stake' = [v \in Validators |-> stake[v] + ChangeOf(v)]
     \/ /\ tx.kind = "Undelegate"
        /\ \A v \in Validators : ChangeOf(v) <= stake[v]
        /\ stake' = [v \in Validators |-> stake[v] - ChangeOf(v)]
        /\ UNCHANGED liquid
  /\ tx' = [tx EXCEPT !.state = "done"]
  /\ result' = [result EXCEPT !.reading.latest = FALSE]
  /\ snapshot' = [snapshot EXCEPT !.reading.latest = FALSE]
  /\ inThisBlock' = FALSE
  /\ UNCHANGED <<icaReady, setVars, outdated>>

RemoteRefuse ==
  /\ tx.state = "sent"
  /\ \/ tx.kind = "Delegate" /\ TotalChange(tx.items) > liquid
     \/ tx.kind = "Undelegate" /\ \E v \in Validators : ChangeOf(v) > stake[v]
  /\ tx' = [tx EXCEPT !.state = "failed"]
  /\ inThisBlock' = FALSE
  /\ UNCHANGED <<icaReady, setVars, queryVars, outdated, remoteVars>>

(* execute_puppeteer_hook: a success makes the present height that of the last change;
   a snapshot is outdated then unless it was delivered in the same block *)
PuppeteerHook ==
  /\ tx.state \in {"done", "failed"}
  /\ outdated' = IF tx.state = "done" THEN ~inThisBlock ELSE outdated
  /\ tx' = NoTx
  /\ UNCHANGED <<icaReady, setVars, queryVars, inThisBlock, remoteVars>>

(* core's deposits arrive, a validator is slashed, blocks are made *)
ComeIn(amount) ==
  /\ liquid + amount + MapThenSumSet(LAMBDA v : stake[v], Validators) <= MaxFunds
  /\ liquid' = liquid + amount
  /\ UNCHANGED <<icaReady, setVars, queryVars, heightVars, tx, stake>>

Slash(v) ==
  /\ stake[v] > 0
  /\ stake' = [stake EXCEPT ![v] = @ - 1]
  /\ UNCHANGED <<icaReady, setVars, queryVars, heightVars, tx, liquid>>

NewBlock ==
  /\ inThisBlock' = FALSE
  /\ UNCHANGED <<icaReady, setVars, queryVars, outdated, tx, remoteVars>>

Next ==
  \/ OpenAccount
  \/ \E list \in Lists : UpdateValidators(list)
  \/ \E v \in Validators, weight \in Weights : UpdateValidator(v, weight)
  \/ ReadRemote \/ SudoKVQueryResult \/ ResultRefused
  \/ PlanDelegate
  \/ \E withdraw \in Amounts : PlanUndelegate(withdraw)
  \/ RemotePerform \/ RemoteRefuse \/ PuppeteerHook
  \/ \E amount \in Amounts : ComeIn(amount)
  \/ \E v \in Validators : Slash(v)
  \/ NewBlock

Spec == Init /\ [][Next]_vars

-----------------------------------------------------------------------------
(***************************************************************************)
(* Properties                                                              *)
(***************************************************************************)

(* calc_deposit: a deposit is handed out to the last token, whatever the weights, the
   stakes and the roundings are, also when the list breaks off before its end. *)
DepositAddsUp == tx.kind = "Delegate" => TotalChange(tx.items) = tx.amount

(* calc_withdraw: no more than asked for is withdrawn, and exactly that when all
   validators are in the list; nobody gives more than the query knows of it, but for the
   token set aside, which is asked even of a validator without a stake. *)
WithdrawInBounds ==
  tx.kind = "Undelegate" =>
    /\ TotalChange(tx.items) <= tx.amount
    /\ tx.whole => TotalChange(tx.items) = tx.amount
    /\ \A i \in DOMAIN tx.items :
         tx.items[i].change <= tx.items[i].current \/ tx.items[i].change = 1

(* The query asks for members of the set only: the factory changes both in one go, and
   a single update only adds or reweighs. *)
WatchedAreMembers == watched \subseteq DOMAIN members

(* "Puppeteer balance is outdated": a balance is staked only if it was read after the
   last transaction of the account was performed. *)
OutdatedIsRefused == tx.kind = "Delegate" /\ tx.state = "sent" => tx.latest

=============================================================================
