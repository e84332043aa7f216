CONSTANTS
  Orders = {o1}
  Requests = {r1, r2, r3}
  Amounts <- MCAmounts
  Cent = 10
  Slip = 1
  Live = TRUE
  None = None
  MadeUpTx = MadeUpTx
SYMMETRY Symmetry
SPECIFICATION Spec
INVARIANTS
  TypeOK
  StatusJustified
  RecordsBacked
  AcknowledgedCredited
  CreditWithinChain
PROPERTIES
  HistoryKept
  ImplementsLedger
