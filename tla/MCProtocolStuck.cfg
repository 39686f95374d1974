\* Violated: a transfer of rewards that is refused leaves the puppeteer waiting.
SPECIFICATION Spec
CONSTANTS
  d1 = d1
  d2 = d2
  v1 = v1
  v2 = v2
  admin = admin
  dao = dao
  None = None
  Validator = {v1, v2}
  Denom = {d1, d2}
  User = {admin, dao}
  Denoms <- MCDenoms
  ReceiverSets <- MCReceiverSets
  UnbondingLists <- MCUnbondingLists
  FeeNum = 1
  FeeDen = 2
  MinAmount = 0
  ManagerMin = 1
  HandlerMin = 2
  Lumps = {1}
  MayFail = FALSE
  MaxQueries = 5
  MaxChanges = 1
INVARIANT FailureIsRuled
CHECK_DEADLOCK FALSE
