\* Two limits, two calls; costs 4 and 5 against a limit of 5 with the alert at 4, or one of 9
\* with the alert at 0: one call can cross either threshold, two can cross both.
\* The system stops when all calls are done, which is no deadlock.
SPECIFICATION FairSpec
CONSTANTS
  r1 = r1
  r2 = r2
  Periods = {DAILY, MONTHLY}
  DEFAULT_PERIOD = DAILY
  Calls = {c1, c2}
  Requests <- MCRequests
  Terms <- MCTerms
  DefaultTerms <- MCDefaultTerms
  MaxRetry = 1
  Expirations = 1
  AdminOps = 1
INVARIANTS
  TypeOK
  NeverOvercharged
  LocksAreEarned
  AlertsThrottled
PROPERTIES
  ExpiredIsReset
CHECK_DEADLOCK FALSE
