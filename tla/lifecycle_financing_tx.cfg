CONSTANTS
  Orders = {o1}
  Requests = {r1}
  Amounts = {10}
  Cent = 10
  Slip = 1
  Live = TRUE
  None = None
  MadeUpTx = MadeUpTx
SPECIFICATION Spec
INVARIANT FinancingTraceable
