\* LSM shares, rewards and fees, and the owner's calls: no unbondings.
SPECIFICATION Spec
CONSTANTS
  IdleMinInterval = 1
  SwitchTime = 1
  UnbondingPeriod = 1
  SafePeriod = 1
  MinStake = 2
  FeeNum = 1
  FeeDen = 2
  HasFeeAddress = TRUE
  HasPump = TRUE
  HasEmergency = TRUE
  BondLimit = 1
  LsmMinBond = 1
  LsmThreshold = 1
  LsmMaxInterval = 1
  Denom = {1, 2}
  BondAmounts = {1}
  LsmAmounts = {1}
  UnbondAmounts = {}
  ExpectedAmounts = {}
  Balances = {0, 2}
  Delays = {0}
  Claimable = {TRUE, FALSE}
  RewardsDue = {TRUE, FALSE}
  OwnerMay = {"pause", "resetBondedAmount", "setReceivers"}
  GenesisTime = 1
  MaxAmount = 100
  MaxTime = 2
  MaxBatch = 0
  MaxItems = 0
  MaxBonded = 1
  MaxLsm = 2
  MaxFees = 2
  NoTx = NoTx
  NoResponse = NoResponse
  NoBatch = NoBatch
INVARIANTS
  TypeOK
  LsmConserved
  LsmInFlightIsBooked
CHECK_DEADLOCK FALSE
