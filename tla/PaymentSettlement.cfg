\* Two payments of one subscription and three calls: enough for a callback, its
\* duplicate and one call of another kind, or for both payments and a reconcile.
\* All calls end: the system stops, which is no deadlock.
SPECIFICATION FairSpec
CONSTANTS
  m = m
  v = v
  c1 = c1
  c2 = c2
  c3 = c3
  Payments = {m, v}
  MomoPayments = {m}
  Calls = {c1, c2, c3}
  Workloads <- MCWorkloads
  OpeningInvoices <- MCOpeningInvoices
  OpeningPeriods = {0}
INVARIANTS
  TypeOK
  ClaimIsExclusive
  OneCallbackWins
  PaidOnEvidence
  PeriodsAreEarned
  FindableUnlessRenamed
PROPERTIES
  RefinesPaymentBook
  ClaimsAreReleased
CHECK_DEADLOCK FALSE
