\* The life of withdrawal batches: no LSM shares, no fees.
SPECIFICATION Spec
CONSTANTS
  IdleMinInterval = 0
  SwitchTime = 3
  UnbondingPeriod = 2
  SafePeriod = 2
  MinStake = 2
  FeeNum = 0
  FeeDen = 1
  HasFeeAddress = FALSE
  HasPump = TRUE
  HasEmergency = TRUE
  BondLimit = 0
  LsmMinBond = 1
  LsmThreshold = 1
  LsmMaxInterval = 1
  Denom = {}
  BondAmounts = {1}
  LsmAmounts = {}
  UnbondAmounts = {1}
  ExpectedAmounts = {2}
  Balances = {1, 4}
  Delays = {0, 1}
  Claimable = {TRUE, FALSE}
  RewardsDue = {FALSE}
  OwnerMay = {}
  GenesisTime = 1
  MaxAmount = 100
  MaxTime = 4
  MaxBatch = 2
  MaxItems = 1
  MaxBonded = 1
  MaxLsm = 0
  MaxFees = 0
  NoTx = NoTx
  NoResponse = NoResponse
  NoBatch = NoBatch
INVARIANTS
  OutstandingMatchesFsm
  NoOrphanState
  FrontierIsOpen
  RequestedIsUnderWay
  UnprocessedCountedOnce
  WithdrawnIsPaid
  PumpedCoversWithdrawn
  PaidAfterMaturity
PROPERTIES
  BatchesKeepLife
  FailedStakingIsFinal
CHECK_DEADLOCK FALSE
