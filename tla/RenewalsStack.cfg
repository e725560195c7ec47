\* The callbacks of two payments for one subscription that has a period left.
SPECIFICATION Spec
CONSTANTS
  m = m
  v = v
  c1 = c1
  c2 = c2
  c3 = c3
  Payments = {m, v}
  MomoPayments = {m}
  Calls = {c1, c2}
  Workloads <- RenewalWorkloads
  OpeningInvoices <- BothInvoiced
  OpeningPeriods = {1}
INVARIANTS
  RenewalsStack
CHECK_DEADLOCK FALSE
