------------------------------- MODULE Rewards ------------------------------
(***************************************************************************)
(* Non-native rewards on their way from the ICA account to the pool: a     *)
(* tick before the idle interval sends what the last query result shows to *)
(* the receivers, less a fee; it comes to the rewards manager; anybody has *)
(* the manager hand it to the exchange handler, which swaps it and pays    *)
(* the core contract.                                                      *)
(***************************************************************************)
EXTENDS Queries

CONSTANTS
  FeeNum, FeeDen,           \* fee of the receivers' items, a Decimal
  MinAmount,                \* their min_amount
  ManagerMin, HandlerMin,   \* min_rewards of the manager's items and of the handler
  MayFail,                  \* a transfer may time out, or be refused for another reason
  Denoms,                   \* Denom in the order of the bank module
  Lumps                     \* bound of the model: rewards come in these amounts

VARIABLES
  receivers,     \* core: NON_NATIVE_REWARDS_CONFIG, the denoms
  transfer,      \* the puppeteer's Transfer: amounts before the fee
  stuck,         \* the puppeteer waits for an answer that was refused
  ica,           \* the remote chain: balances of the ICA account,
  waiting,       \* of the receivers,
  fees,          \* and of the fee address
  earned,        \* rewards so far
  manager,       \* the rewards manager: its balances
  handled,       \* and the denoms in REWARDS_HANDLERS
  from,          \* the exchange handler: from_denom
  held,          \* and its balances
  given,         \* what others sent to it
  misrouted      \* history: the manager had a denom for it that it does not swap

rewardsVars == <<receivers, transfer, stuck, ica, waiting, fees, earned, manager, handled, from, held,
                 given, misrouted>>

Nothing == [d \in Denom |-> 0]
NoTransfer == [d \in {} |-> 0]

FlowTypeOK ==
  /\ receivers = None \/ receivers \subseteq Denom
  /\ DOMAIN transfer \subseteq Denom /\ \A d \in DOMAIN transfer : transfer[d] \in Nat
  /\ stuck \in BOOLEAN
  /\ {ica, waiting, fees, earned, manager, given} \subseteq [Denom -> Nat]
  /\ handled \subseteq Denom /\ from \in Denom /\ misrouted \in BOOLEAN

RewardsTypeOK == FlowTypeOK /\ held \in [Denom -> Nat]

RewardsInit ==
  /\ receivers = None
  /\ transfer = NoTransfer /\ stuck = FALSE
  /\ ica = Nothing /\ waiting = Nothing /\ fees = Nothing /\ earned = Nothing
  /\ manager = Nothing /\ handled = {}
  /\ from \in Denom /\ held = Nothing /\ given = Nothing /\ misrouted = FALSE

-----------------------------------------------------------------------------

(* get_non_native_rewards_and_fee_transfer_msg; what is not in the result is nothing.  The
   collected fees that the same transfer pays in the base denom are in module Pool. *)
ItemsToSend ==
  [d \in {r \in receivers \cap DOMAIN nonNative : nonNative[r] > MinAmount} |-> nonNative[d]]

Fee_rounded_up(amount) == (FeeNum * amount + FeeDen - 1) \div FeeDen
Fee(amount) == (FeeNum * amount) \div FeeDen

(* execute_tick_idle before the interval, with execute_transfer.  Without receivers or
   without a result the tick fails. *)
TickRewards ==
  /\ receivers # None /\ nonNative # None
  /\ ItemsToSend # NoTransfer
  /\ transfer = NoTransfer /\ ~stuck
  /\ transfer' = ItemsToSend
  /\ UNCHANGED <<receivers, stuck, ica, waiting, fees, earned, manager, handled, from, held, given,
                 misrouted>>

Sends(d) == d \in DOMAIN transfer
Affordable == \A d \in DOMAIN transfer : transfer[d] <= ica[d]
Gross(d) == IF Sends(d) THEN transfer[d] ELSE 0

(* The remote chain performs all the messages of a transaction and answers it, *)
TransferPerformed ==
  /\ transfer # NoTransfer /\ Affordable
  /\ ica' = [d \in Denom |-> ica[d] - Gross(d)]
  /\ waiting' = [d \in Denom |-> waiting[d] + Gross(d) - Fee(Gross(d))]
  /\ fees' = [d \in Denom |-> fees[d] + Fee(Gross(d))]
  /\ transfer' = NoTransfer
  /\ UNCHANGED <<receivers, stuck, earned, manager, handled, from, held, given, misrouted>>

(* or none, when it asks for more than there is or times out.  The hook of core asks for a
   transition from Idle to Idle, fails, and the callback of the puppeteer with it: it goes
   on waiting (execute_puppeteer_hook). *)
TransferRefused ==
  /\ transfer # NoTransfer /\ (MayFail \/ ~Affordable)
  /\ transfer' = NoTransfer /\ stuck' = TRUE
  /\ UNCHANGED <<receivers, ica, waiting, fees, earned, manager, handled, from, held, given, misrouted>>

-----------------------------------------------------------------------------

(* exec_exchange: LowBalance below the minimum, and no swap of nothing *)
HandlerTakes(coins) == coins[from] >= HandlerMin /\ coins[from] > 0

(* it swaps all it has of it *)
Kept(coins) == IF HandlerTakes(coins) THEN [coins EXCEPT ![from] = 0] ELSE coins

(* exec_exchange_rewards first makes its messages, one for each denom, that carry all the
   manager has of it *)
HandedOver == {d \in handled : manager[d] >= ManagerMin /\ manager[d] > 0}

(* The handler gets them one after the other; one that it refuses undoes all. *)
Receive(now, d) ==
  LET coins == [now.held EXCEPT ![d] = @ + manager[d]] IN
  IF d \notin HandedOver THEN now
  ELSE [held |-> Kept(coins), taken |-> now.taken /\ HandlerTakes(coins)]

Received == FoldLeft(Receive, [held |-> held, taken |-> TRUE], Denoms)

Committed_anyway(after) == TRUE
Committed(after) == after.taken

ExchangeRewards ==
  /\ HandedOver # {} /\ Committed(Received)
  /\ manager' = [d \in Denom |-> IF d \in HandedOver THEN 0 ELSE manager[d]]
  /\ held' = Received.held
  /\ UNCHANGED <<receivers, transfer, stuck, ica, waiting, fees, earned, handled, from, given, misrouted>>

(* exec_exchange, which anybody may call: coins that were given to the handler *)
Exchange ==
  /\ HandlerTakes(held)
  /\ held' = Kept(held)
  /\ UNCHANGED <<receivers, transfer, stuck, ica, waiting, fees, earned, manager, handled, from, given,
                 misrouted>>

(* exec_add_handler, exec_remove_handler *)
SetHandled(denoms) ==
  /\ handled' = denoms
  /\ misrouted' = (misrouted \/ ~(denoms \subseteq {from}))
  /\ UNCHANGED <<receivers, transfer, stuck, ica, waiting, fees, earned, manager, from, held, given>>

(* exec_update_config of the handler *)
SetFrom(denom) ==
  /\ from' = denom
  /\ misrouted' = (misrouted \/ ~(handled \subseteq {denom}))
  /\ UNCHANGED <<receivers, transfer, stuck, ica, waiting, fees, earned, manager, handled, held, given>>

SetReceivers(denoms) ==
  /\ receivers' = denoms
  /\ UNCHANGED <<transfer, stuck, ica, waiting, fees, earned, manager, handled, from, held, given,
                 misrouted>>

-----------------------------------------------------------------------------

Earn(d, amount) ==
  /\ earned' = [earned EXCEPT ![d] = @ + amount]
  /\ ica' = [ica EXCEPT ![d] = @ + amount]
  /\ UNCHANGED <<receivers, transfer, stuck, waiting, fees, manager, handled, from, held, given, misrouted>>

(* the receivers' coins are pumped to the manager (module Pump) *)
Arrive ==
  /\ waiting # Nothing
  /\ manager' = [d \in Denom |-> manager[d] + waiting[d]]
  /\ waiting' = Nothing
  /\ UNCHANGED <<receivers, transfer, stuck, ica, fees, earned, handled, from, held, given, misrouted>>

(* somebody sends the handler coins, once and enough to be swapped *)
Give(d) ==
  /\ given = Nothing
  /\ given' = [given EXCEPT ![d] = HandlerMin]
  /\ held' = [held EXCEPT ![d] = @ + HandlerMin]
  /\ UNCHANGED <<receivers, transfer, stuck, ica, waiting, fees, earned, manager, handled, from, misrouted>>

-----------------------------------------------------------------------------

(* The fee never exceeds its share of all that left the account in a denom, over any
   number of transfers: it is computed from results that may be old, and of amounts
   that may be too small to divide. *)
FeeIsItsShare ==
  \A d \in Denom : FeeDen * fees[d] <= FeeNum * (earned[d] - ica[d])

(* The handler never keeps rewards: while the manager hands it only the denom it swaps,
   it holds at most what others gave it. *)
HandlerKeepsNothing ==
  ~misrouted => \A d \in Denom : held[d] <= given[d]

(* The comment at the failure arm of the hook: "this goes to idle and then ruled in
   tick_idle".  The puppeteer is not lost to a transfer that the remote chain refuses. *)
FailureIsRuled == ~stuck

=============================================================================
