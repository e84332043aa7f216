CONSTANTS
  m1 = m1
  m2 = m2
  m3 = m3
  p1 = p1
  p2 = p2
  Merchants <- MCMerchants
  Pools = {p1, p2}
  Allowlist <- MCAllowlist
  UserBacked <- MCUserBacked
  Quantities <- MCCorrections
  Prices = {5, 17}
  Thresholds = {2}
  Rosters <- MCRosters
  SeedLists <- MCSeedLists
  Live = TRUE
  Production = FALSE
  MaxCommitments = 3
  MaxOrders = 2
SYMMETRY SymmetryOfPools
SPECIFICATION Spec
INVARIANTS
  TypeOK
  CommitmentsPermitted
  OrdersSound
  PriceBetween
PROPERTIES
  ProfilesStable
  ProgressKept
