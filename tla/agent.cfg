CONSTANTS
  pa = pa
  pb = pb
  pc = pc
  Providers <- MCProviders
  Price <- MCPrice
  Quality <- MCQuality
  TimeoutMs <- MCTimeoutMs
  Defaults <- MCDefaults
  Lists <- MCLists
  Payloads = {q1, q2}
  HealthCheck = q1
  Latencies = {1, 9}
  Cycles = {c1, c2}
  Intervals = {i1, i2}
  Live = TRUE
  None = None
SPECIFICATION FairSpec
INVARIANTS
  TypeOK
  OneInterval
  ProofsMined
PROPERTIES
  PaidForAsAsked
  PicksUndominated
  CyclesEnd
