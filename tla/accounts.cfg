CONSTANTS
  Emails = {e1, e2}
  Secrets = {s1, s2}
  Requests = {r1, r2, r3}
  Stores = {"memory", "postgres"}
  None = None
SYMMETRY Symmetry
SPECIFICATION Spec
INVARIANTS
  TypeOK
  SignupsLogIn
  TokensResolve
  LoginsHonest
PROPERTY AccountsKept
