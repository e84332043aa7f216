CONSTANTS
  m1 = m1
  m2 = m2
  Merchants <- MCMerchants
  Pools = {p1, p2}
  Allowlist <- MCAllowlist
  UserBacked = {}
  Quantities = {1}
  Prices = {6}
  Thresholds = {1}
  Rosters <- MCRosters
  SeedLists <- MCNoLists
  Production = FALSE
  MaxCommitments = 2
  MaxOrders = 2
  Orders = {o1, o2}
  Requests = {r1}
  Amounts = {10}
  Cent = 10
  Slip = 1
  None = None
  MadeUpTx = MadeUpTx
  Live = TRUE
SYMMETRY SymmetryOfIds
SPECIFICATION Spec
INVARIANTS
  OrdersListed
  OrdersEvidenced
  DashboardCoherent
PROPERTY DashboardSteps
