CONSTANTS
  Requests = {r1, r2}
  Orders = {o1}
  Amounts = {19}
  Cent = 10
  Slip = 1
  None = None
  MadeUpTx = MadeUpTx
SPECIFICATION LiveSpec
PROPERTY ImplementsLifecycle
