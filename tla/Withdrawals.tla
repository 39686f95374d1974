----------------------------- MODULE Withdrawals -----------------------------
(***************************************************************************)
(* From an unbonding to its payout: the withdrawal vouchers (a cw721       *)
(* contract), the withdrawal manager that takes a voucher and pays for it, *)
(* the auto-withdrawer that keeps vouchers for users until anyone has them *)
(* paid, and the pump that brings the funds (module Pump).                 *)
(*                                                                         *)
(* Of core there is what these contracts see: the open batch that an       *)
(* unbonding goes into, and batches that are paid out, to the pump's       *)
(* account or to the emergency address (modules Core and BatchLife).       *)
(* A batch is taken not to be reopened: see ItemsNeverShrink in Core.      *)
(***************************************************************************)
EXTENDS Pump

CONSTANTS
  User,
  Withdrawer, Manager,  \* addresses of the contracts that may hold a voucher
  Nobody,            \* no address
  Expected,          \* what an unbonding may be worth
  Deposits,          \* deposits for the auto-withdrawer's caller
  Scale,             \* a Decimal is a multiple of 1/Scale
  MaxVoucher,        \* bounds of the model: vouchers
  MaxBatch,          \* batches ever made,
  MaxAutoFunds       \* and deposits held by the auto-withdrawer

Voucher == 1..MaxVoucher
Batch == 0..MaxBatch

ASSUME WithdrawalsAssumption ==
  /\ Expected \subseteq Nat /\ Deposits \subseteq Nat \ {0}
  /\ Scale \in Nat \ {0} /\ {MaxVoucher, MaxBatch, MaxAutoFunds} \subseteq Nat
  /\ Withdrawer # Manager /\ {Withdrawer, Manager} \cap User = {}
  /\ Nobody \notin User \cup {Withdrawer, Manager}

VARIABLES
  openBatch,      \* core: UNBOND_BATCH_ID
  batches,        \* core: what the manager reads of a batch
  minted,         \* the number of vouchers minted
  vouchers,       \* their extension: [batch, expected]
  owner,          \* who owns a voucher
  approved,       \* the vouchers the auto-withdrawer is approved for
  bondings,       \* bondings_map: [bonder, deposit]
  autoFunds,      \* deposits held by the auto-withdrawer
  paused, wired,  \* the manager: PAUSED, and its config names the voucher contract
  paidOut,        \* what the manager has paid
  claimant,       \* history: who last held a voucher, bonded it or was named its receiver
  payee           \* history: who was paid for it

coreVars == <<openBatch, batches>>
voucherVars == <<minted, vouchers, owner, approved>>
autoVars == <<bondings, autoFunds>>
managerVars == <<paused, wired, paidOut>>
history == <<claimant, payee>>
vars == <<pumpVars, coreVars, voucherVars, autoVars, managerVars, history>>

Holders == User \cup {Withdrawer, Manager, Nobody}
NoBonding == [bonder |-> Nobody, deposit |-> 0]

Batches == [status : {"open", "unbonding", "withdrawn", "emergency"},
            expected : Nat, unbonded : Nat]

(* the types of the contracts' state *)
TypeOK ==
  /\ PumpTypeOK
  /\ openBatch \in Batch /\ batches \in [Batch -> Batches]
  /\ minted \in Nat
  /\ vouchers \in [Voucher -> [batch : Batch, expected : Nat]]
  /\ owner \in [Voucher -> Holders] /\ approved \subseteq Voucher
  /\ bondings \in [Voucher -> [bonder : User \cup {Nobody}, deposit : Nat]]
  /\ autoFunds \in Nat
  /\ paused \in BOOLEAN /\ wired \in BOOLEAN /\ paidOut \in Nat
  /\ claimant \in [Voucher -> User \cup {Nobody}]
  /\ payee \in [Voucher -> User \cup {Nobody}]

VoucherInit ==
  /\ minted = 0
  /\ vouchers = [v \in Voucher |-> [batch |-> 0, expected |-> 0]]
  /\ owner = [v \in Voucher |-> Nobody] /\ approved = {}

AutoInit == bondings = [v \in Voucher |-> NoBonding] /\ autoFunds = 0

ManagerInit == paused = FALSE /\ wired = TRUE /\ paidOut = 0

Init ==
  /\ PumpInit /\ VoucherInit /\ AutoInit /\ ManagerInit
  /\ openBatch = 0
  /\ batches = [b \in Batch |-> [status |-> "open", expected |-> 0, unbonded |-> 0]]
  /\ claimant = [v \in Voucher |-> Nobody]
  /\ payee = [v \in Voucher |-> Nobody]

-----------------------------------------------------------------------------
(***************************************************************************)
(* Core, as far as these contracts see it                                  *)
(***************************************************************************)

(* execute_unbond: the unbonding joins the open batch, a voucher is minted *)
Mint(holder, expected) ==
  /\ minted < MaxVoucher
  /\ minted' = minted + 1
  /\ owner' = [owner EXCEPT ![minted + 1] = holder]
  /\ vouchers' = [vouchers EXCEPT ![minted + 1] = [batch |-> openBatch, expected |-> expected]]
  /\ batches' = [batches EXCEPT ![openBatch].expected = @ + expected]

Unbond(u, expected) ==
  /\ Mint(u, expected)
  /\ claimant' = [claimant EXCEPT ![minted + 1] = u]
  /\ UNCHANGED <<pumpVars, openBatch, approved, autoVars, managerVars, payee>>

(* get_unbonding_msg: the next batch is opened *)
CloseBatch ==
  /\ openBatch < MaxBatch
  /\ batches[openBatch].expected > 0
  /\ batches' = [batches EXCEPT ![openBatch].status = "unbonding"]
  /\ openBatch' = openBatch + 1
  /\ UNCHANGED <<pumpVars, voucherVars, autoVars, managerVars, history>>

(* the claim of execute_tick_idle: at most what the vouchers expect is paid *)
PayBatch(b, amount) ==
  /\ batches[b].status = "unbonding"
  /\ amount <= batches[b].expected
  /\ batches' = [batches EXCEPT ![b].status = "withdrawn", ![b].unbonded = amount]
  /\ remote' = remote + amount
  /\ UNCHANGED <<config, account, packets, nextSeq, transit, delivered, local, openBatch,
                 voucherVars, autoVars, managerVars, history>>

PayBatchInEmergency(b) ==
  /\ batches[b].status = "unbonding"
  /\ batches' = [batches EXCEPT ![b].status = "emergency"]
  /\ UNCHANGED <<pumpVars, openBatch, voucherVars, autoVars, managerVars, history>>

-----------------------------------------------------------------------------
(***************************************************************************)
(* The voucher contract: a transfer revokes approvals.  Whoever may spend  *)
(* a voucher besides the auto-withdrawer acts as its owner.                *)
(***************************************************************************)
MayMove(who, v) == owner[v] = who \/ (who = Withdrawer /\ v \in approved)

Move(v, to) ==
  /\ owner' = [owner EXCEPT ![v] = to]
  /\ approved' = approved \ {v}
  /\ UNCHANGED <<minted, vouchers>>

ClaimedBy(v, u) == claimant' = [claimant EXCEPT ![v] = u]

Approve(u, v) ==
  /\ owner[v] = u
  /\ approved' = approved \cup {v}
  /\ UNCHANGED <<pumpVars, coreVars, minted, vouchers, owner, autoVars, managerVars, history>>

(* to a user, or to a contract, which is not told of it *)
Transfer(u, v, to) ==
  /\ owner[v] = u
  /\ Move(v, to)
  /\ \/ to \in User /\ ClaimedBy(v, to)
     \/ to \notin User /\ UNCHANGED claimant
  /\ UNCHANGED <<pumpVars, coreVars, autoVars, managerVars, payee>>

-----------------------------------------------------------------------------
(***************************************************************************)
(* The withdrawal manager                                                  *)
(***************************************************************************)
ManagerFunds == delivered - paidOut

SlashingEffect(b) ==
  IF batches[b].unbonded < batches[b].expected
  THEN (batches[b].unbonded * Scale) \div batches[b].expected
  ELSE Scale

(* `slashing_effect * expected_amount', and never more than expected *)
Payout_rounded_up(v) ==
  LET slashed == (SlashingEffect(vouchers[v].batch) * vouchers[v].expected + Scale - 1) \div Scale
  IN  IF slashed < vouchers[v].expected THEN slashed ELSE vouchers[v].expected
Payout(v) ==
  LET slashed == (SlashingEffect(vouchers[v].batch) * vouchers[v].expected) \div Scale
  IN  IF slashed < vouchers[v].expected THEN slashed ELSE vouchers[v].expected

(* execute_receive_nft_withdraw, called by the voucher contract for SendNft: the
   voucher stays with the manager, its worth goes to the receiver.  A bank
   transfer of nothing is refused, and so is one of more than there is. *)
ReceiveVoucher(v, receiver) ==
  /\ ~paused /\ wired
  /\ batches[vouchers[v].batch].status = "withdrawn"
  /\ Payout(v) \in 1..ManagerFunds
  /\ paidOut' = paidOut + Payout(v)
  /\ payee' = [payee EXCEPT ![v] = receiver]
  /\ UNCHANGED <<paused, wired>>

(* the holder may name another receiver *)
SendToManager(u, v, receiver) ==
  /\ owner[v] = u
  /\ Move(v, Manager)
  /\ ReceiveVoucher(v, receiver)
  /\ ClaimedBy(v, receiver)
  /\ UNCHANGED <<pumpVars, coreVars, autoVars>>

(* exec_pause, exec_unpause and execute_update_config, by the owner *)
Pause ==
  /\ paused' = TRUE
  /\ UNCHANGED <<pumpVars, coreVars, voucherVars, autoVars, wired, paidOut, history>>

Unpause ==
  /\ paused' = FALSE
  /\ UNCHANGED <<pumpVars, coreVars, voucherVars, autoVars, wired, paidOut, history>>

Rewire(right) ==
  /\ wired' = right
  /\ UNCHANGED <<pumpVars, coreVars, voucherVars, autoVars, paused, paidOut, history>>

-----------------------------------------------------------------------------
(***************************************************************************)
(* The auto-withdrawer                                                     *)
(***************************************************************************)
(* bondings_map().save, over a record that may be there *)
Record(v, u, deposit) ==
  /\ autoFunds + deposit <= MaxAutoFunds
  /\ ClaimedBy(v, u)
  /\ bondings' = [bondings EXCEPT ![v] = [bonder |-> u, deposit |-> deposit]]
  /\ autoFunds' = autoFunds + deposit

Release(v) ==
  /\ bondings' = [bondings EXCEPT ![v] = NoBonding]
  /\ autoFunds' = autoFunds - bondings[v].deposit

(* the reply to core's unbonding finds the minted voucher in its events *)
RecordMinted(u, deposit) == Record(minted + 1, u, deposit)

(* execute_bond_with_ld_assets and, in the same transaction, the reply: core's
   unbonding is made by the auto-withdrawer *)
BondWithLdAssets(u, expected, deposit) ==
  /\ Mint(Withdrawer, expected)
  /\ RecordMinted(u, deposit)
  /\ UNCHANGED <<pumpVars, openBatch, approved, managerVars, payee>>

(* execute_bond_with_nft: the auto-withdrawer transfers the voucher to itself, whoever asks
   for it: one that it was approved for, or one that it holds already *)
BondWithNFT(u, v, deposit) ==
  /\ MayMove(Withdrawer, v)
  /\ Move(v, Withdrawer)
  /\ Record(v, u, deposit)
  /\ UNCHANGED <<pumpVars, coreVars, managerVars, payee>>

(* execute_unbond, by the bonder *)
UnbondVoucher_kept_record(u, v) ==
  /\ bondings[v].bonder = u
  /\ MayMove(Withdrawer, v)
  /\ Move(v, u)
  /\ ClaimedBy(v, u)
  /\ UNCHANGED bondings
  /\ autoFunds' = autoFunds - bondings[v].deposit
  /\ UNCHANGED <<pumpVars, coreVars, managerVars, payee>>
UnbondVoucher(u, v) ==
  /\ bondings[v].bonder = u
  /\ MayMove(Withdrawer, v)
  /\ Move(v, u)
  /\ ClaimedBy(v, u)
  /\ Release(v)
  /\ UNCHANGED <<pumpVars, coreVars, managerVars, payee>>

(* execute_withdraw, by anyone: the bonder is paid, the caller gets the deposit *)
Withdraw_to_caller(u, v) ==
  /\ bondings[v].bonder # Nobody
  /\ MayMove(Withdrawer, v)
  /\ Move(v, Manager)
  /\ ReceiveVoucher(v, u)
  /\ Release(v)
  /\ UNCHANGED <<pumpVars, coreVars, claimant>>
Withdraw(u, v) ==
  /\ bondings[v].bonder # Nobody
  /\ MayMove(Withdrawer, v)
  /\ Move(v, Manager)
  /\ ReceiveVoucher(v, bondings[v].bonder)
  /\ Release(v)
  /\ UNCHANGED <<pumpVars, coreVars, claimant>>

Minted == 1..minted

UserStep(u) ==
  \/ \E e \in Expected : Unbond(u, e)
  \/ \E e \in Expected, d \in Deposits : BondWithLdAssets(u, e, d)
  \/ \E v \in Minted :
       \/ Approve(u, v)
       \/ \E to \in User \cup {Withdrawer, Manager} : Transfer(u, v, to)
       \/ \E receiver \in User : SendToManager(u, v, receiver)
       \/ \E d \in Deposits : BondWithNFT(u, v, d)
       \/ UnbondVoucher(u, v)
       \/ Withdraw(u, v)

Next ==
  \/ PumpNext /\ UNCHANGED <<coreVars, voucherVars, autoVars, managerVars, history>>
  \/ \E u \in User : UserStep(u)
  \/ CloseBatch
  \/ \E b \in Batch :
       \/ \E amount \in 0..batches[b].expected : PayBatch(b, amount)
       \/ PayBatchInEmergency(b)
  \/ Pause \/ Unpause
  \/ \E right \in BOOLEAN : Rewire(right)

Spec == Init /\ [][Next]_vars

-----------------------------------------------------------------------------
(***************************************************************************)
(* Properties                                                              *)
(***************************************************************************)

Unpaid == {v \in Minted : /\ payee[v] = Nobody
                          /\ batches[vouchers[v].batch].status = "withdrawn"}

(* Everybody can be paid in the end, in any order: what the vouchers of withdrawn
   batches are still worth is with the manager, on its way, or with the pump's account. *)
PayoutsCovered ==
  SumFunctionOnSet([v \in Voucher |-> Payout(v)], Unpaid) <= ManagerFunds + InTransit + remote

(* A voucher is paid once, and stays with the manager from then on; nothing is paid for a
   batch that is not withdrawn.  Who is paid is the user who held the voucher last, bonded
   it last, or was named by its holder: a claim given up earlier is never paid. *)
PaidToClaimant ==
  \A v \in Minted : payee[v] # Nobody =>
    /\ owner[v] = Manager
    /\ payee[v] = claimant[v]
    /\ batches[vouchers[v].batch].status = "withdrawn"

(* The auto-withdrawer holds each voucher it has a record of: no record outlives its
   voucher, so that no bonder comes too late to have it paid or to get it back. *)
BondedIsHeld ==
  \A v \in Voucher : bondings[v].bonder # Nobody => owner[v] = Withdrawer

(* ... and it can give back the deposits of all records, in any order. *)
DepositsCovered ==
  SumFunction([v \in Voucher |-> bondings[v].deposit]) <= autoFunds

(* Known not to hold: a voucher the auto-withdrawer holds has a record (it may be
   transferred without a message), *)
NoneStranded ==
  \A v \in Voucher : owner[v] = Withdrawer => bondings[v].bonder # Nobody

(* and its bonder stays the same until it leaves (anybody may bond it again: the record
   is overwritten, and its deposit belongs to no record any more). *)
BondersStay ==
  [][\A v \in Voucher : bondings[v].bonder # Nobody =>
       bondings'[v].bonder \in {bondings[v].bonder, Nobody}]_vars

=============================================================================
