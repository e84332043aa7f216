CONSTANTS
  m1 = m1
  m2 = m2
  m3 = m3
  p1 = p1
  p2 = p2
  Merchants <- MCMerchants
  Pools = {p1}
  Allowlist <- MCAllowlist
  UserBacked <- MCUserBacked
  Quantities = {1}
  Prices = {6}
  Thresholds = {1}
  Rosters <- MCRosters
  SeedLists <- MCNoLists
  Live = FALSE
  Production = TRUE
  MaxCommitments = 1
  MaxOrders = 2
SPECIFICATION Spec
INVARIANT OneOrderPerCommitment
