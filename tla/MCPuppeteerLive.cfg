\* Liveness: hooks accept every answer, no IBC transfer.
SPECIFICATION FairSpec
CONSTANTS
  Client = {c1, c2}
  Tx = {t1, t2}
  TransferTx = {}
  NoTx = NoTx
  NoClient = NoClient
  CanRefuse = FALSE
  MaxSeq = 3
PROPERTIES
  AlwaysAnswered
  IcaRecovers
CHECK_DEADLOCK FALSE
