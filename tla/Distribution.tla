---------------------------- MODULE Distribution ----------------------------
(***************************************************************************)
(* The distribution contract: how a deposit or a withdrawal is divided     *)
(* among the validators, by their weights and their present stakes.        *)
(***************************************************************************)
EXTENDS Integers, Sequences, SequencesExt

CONSTANT Precision   \* a Decimal is a multiple of 1/Precision

ASSUME PrecisionAssumption == Precision \in Nat \ {0}

(* Delegations are sequences of [valoper, stake, weight]. *)
TotalStake(delegations) == SumFunction([i \in DOMAIN delegations |-> delegations[i].stake])
TotalWeight(delegations) == SumFunction([i \in DOMAIN delegations |-> delegations[i].weight])
TotalChange(items) == SumFunction([i \in DOMAIN items |-> items[i].change])

Lesser(a, b) == IF a < b THEN a ELSE b
DivUp(a, b) == (a + b - 1) \div b

(* calc_ideal_stake: shares are rounded up and handed out until nothing is left, so
   that the last validators may get less, or may not be in the list at all *)
Ideal(perWeight, d, left) == Lesser(DivUp(perWeight * d.weight, Precision), left)

AddIdeal(perWeight, acc, d) ==
  LET ideal == Ideal(perWeight, d, acc.left)
  IN  IF acc.done THEN acc
      ELSE [left |-> acc.left - ideal,
            done |-> acc.left = ideal,
            list |-> Append(acc.list, [valoper |-> d.valoper, ideal |-> ideal,
                                       current |-> d.stake, change |-> 1])]

CalcIdealStake(total, delegations) ==
  LET perWeight == (total * Precision) \div TotalWeight(delegations)
  IN  FoldLeft(LAMBDA acc, d : AddIdeal(perWeight, acc, d),
               [left |-> total, done |-> FALSE, list |-> <<>>], delegations).list

(* distribute_stake_deposit and distribute_stake_withdraw: one token is set aside for
   every validator of the list, the rest fills the gaps in the order of the list *)
Change_without_reserve(gap, left) == Lesser(gap, left)
Change(gap, left) == Lesser(gap, left + 1)

Gap(d, isDeposit) == IF isDeposit THEN d.ideal - d.current ELSE d.current - d.ideal

Fill(isDeposit, acc, d) ==
  LET gap == Gap(d, isDeposit)
      change == Change(gap, acc.left)
  IN  IF gap <= 0 \/ acc.left = 0
      THEN [left |-> acc.left, list |-> Append(acc.list, d)]
      ELSE [left |-> acc.left + 1 - change,
            list |-> Append(acc.list, [d EXCEPT !.change = change])]

Distribute(amount, ideals, isDeposit) ==
  FoldLeft(LAMBDA acc, d : Fill(isDeposit, acc, d),
           [left |-> amount - Len(ideals), list |-> <<>>], ideals).list

CalcDeposit(deposit, delegations) ==
  Distribute(deposit, CalcIdealStake(TotalStake(delegations) + deposit, delegations), TRUE)

CalcWithdraw(withdraw, delegations) ==
  Distribute(withdraw, CalcIdealStake(TotalStake(delegations) - withdraw, delegations), FALSE)

(* The calls that succeed: no division by a weight of zero, no withdrawal of more than
   there is, and a token for every validator of the list. *)
DepositSucceeds(deposit, delegations) ==
  /\ TotalWeight(delegations) > 0
  /\ deposit >= Len(CalcIdealStake(TotalStake(delegations) + deposit, delegations))

WithdrawSucceeds_however_big(withdraw, delegations) ==
  /\ TotalWeight(delegations) > 0
  /\ withdraw >= Len(CalcIdealStake(TotalStake(delegations) - withdraw, delegations))
WithdrawSucceeds(withdraw, delegations) ==
  /\ TotalWeight(delegations) > 0
  /\ TotalStake(delegations) >= withdraw
  /\ withdraw >= Len(CalcIdealStake(TotalStake(delegations) - withdraw, delegations))

=============================================================================
