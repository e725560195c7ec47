\* Two parallel requests, no period end and no administrator: the smaller sum overwrites
\* the larger one, and its evaluation unlocks the tenant.
SPECIFICATION Spec
CONSTANTS
  r1 = r1
  r2 = r2
  Periods = {DAILY, MONTHLY}
  DEFAULT_PERIOD = DAILY
  Calls = {c1, c2}
  Requests <- MCRequests
  Terms <- MCTerms
  DefaultTerms <- MCDefaultTerms
  MaxRetry = 1
  Expirations = 0
  AdminOps = 0
PROPERTIES
  HardLockHolds
CHECK_DEADLOCK FALSE
