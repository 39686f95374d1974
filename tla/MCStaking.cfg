\* Two validators, one of which may be left out or weigh more; three tokens.
SPECIFICATION Spec
CONSTANTS
  Precision = 1000
  Validators = {1, 2}
  Weights = {2}
  Amounts = {2, 3}
  MinStake = 2
  Fees = {0, 400}
  Lists <- TwoValidators
  MaxFunds = 3
INVARIANTS
  DepositAddsUp
  WithdrawInBounds
  WatchedAreMembers
CHECK_DEADLOCK FALSE
