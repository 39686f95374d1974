\* Two users, two vouchers, two batches; pushes of one coin and of two, on two channels.
SPECIFICATION Spec
CONSTANTS
  User = {u1, u2}
  Withdrawer = Withdrawer
  Manager = Manager
  Nobody = Nobody
  Expected = {2}
  Deposits = {1}
  Scale = 10
  MaxVoucher = 2
  MaxBatch = 1
  MaxAutoFunds = 2
  Pushes <- Coins
  Brought = {2, 4}
  RegisterFee = 2
  AckFee = 1
  TimeoutFee = 1
  MaxSeq = 2
  MaxChannel = 2
  MaxLocal = 3
SYMMETRY Symmetry
INVARIANTS
  PayoutsCovered
  PaidToClaimant
  BondedIsHeld
  DepositsCovered
  RegisteredIsOpen
CHECK_DEADLOCK FALSE
