CONSTANTS
  Emails = {e1}
  Secrets = {s1, s2}
  Requests = {r1, r2}
  Stores = {"memory"}
  None = None
SPECIFICATION Spec
INVARIANT OneSignupPerEmail
