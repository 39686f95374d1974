\* Set-up in any order, a change by an owner, a reward in each denom.
SPECIFICATION Spec
CONSTANTS
  d1 = d1
  d2 = d2
  v1 = v1
  v2 = v2
  admin = admin
  dao = dao
  None = None
  Validator = {v1, v2}
  Denom = {d1, d2}
  User = {admin, dao}
  Denoms <- MCDenoms
  ReceiverSets <- MCReceiverSets
  UnbondingLists <- MCUnbondingLists
  FeeNum = 1
  FeeDen = 2
  MinAmount = 0
  ManagerMin = 1
  HandlerMin = 2
  Lumps = {1}
  MayFail = TRUE
  MaxQueries = 5
  MaxChanges = 2
SYMMETRY UserSymmetry
INVARIANTS
  RecordsAreOwn
  FeeIsItsShare
  HandlerKeepsNothing
  WatchedAreReceivers
PROPERTIES
  FrozenMeansStill
CHECK_DEADLOCK FALSE
