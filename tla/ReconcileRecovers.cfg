\* The callback of a VNPay payment, which may fail anywhere, and a reconcile.
SPECIFICATION Spec
CONSTANTS
  m = m
  v = v
  c1 = c1
  c2 = c2
  c3 = c3
  Payments = {m, v}
  MomoPayments = {m}
  Calls = {c1, c2}
  Workloads <- RecoveryWorkloads
  OpeningInvoices <- BothInvoiced
  OpeningPeriods = {0}
INVARIANTS
  ReconcileRecovers
CHECK_DEADLOCK FALSE
