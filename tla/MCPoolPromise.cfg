\* A batch that is paid less than it was promised without a slashing.
SPECIFICATION Spec
CONSTANTS
  ONE = 100
  MinStake = 2
  Fees = {0}
  BondAmounts = {2}
  LsmAmounts = {1}
  UnbondAmounts = {1}
  RewardAmounts = {0, 1}
  SlashAmounts = {1}
  Faults = {}
  MaxBonded = 2
  MaxRewards = 1
  MaxDisturbances = 1
INVARIANT SlashingEffectMeansSlashing
CHECK_DEADLOCK FALSE
