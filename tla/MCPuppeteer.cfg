\* Safety: hooks may refuse, one of the two transactions is an IBC transfer.
SPECIFICATION Spec
CONSTANTS
  Client = {c1, c2}
  Tx = {t1, t2}
  TransferTx = {t2}
  NoTx = NoTx
  NoClient = NoClient
  CanRefuse = TRUE
  MaxSeq = 4
SYMMETRY ClientSymmetry
INVARIANTS
  AnswerMatches
  AnswersAreTrue
  RegisteredIsOpen
PROPERTY KeepsPromise
\* a refused answer, or the last packet, leaves nothing to do
CHECK_DEADLOCK FALSE
