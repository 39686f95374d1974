\* Bonds, LSM bonds, unbondings, rewards, a slashing, and failures on the way.
SPECIFICATION Spec
CONSTANTS
  ONE = 100
  MinStake = 2
  Fees = {0, 50}
  BondAmounts = {2}
  LsmAmounts = {1}
  UnbondAmounts = {1}
  RewardAmounts = {0, 1}
  SlashAmounts = {1}
  Faults = {"transfer", "undelegation"}
  MaxBonded = 4
  MaxRewards = 1
  MaxDisturbances = 1
INVARIANTS
  RateIsOneUndisturbed
PROPERTIES
  RateNeverFalls
  BondTakesNothing
CHECK_DEADLOCK FALSE
