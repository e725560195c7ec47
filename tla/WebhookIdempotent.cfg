\* The MoMo webhook of one payment, delivered twice.
SPECIFICATION Spec
CONSTANTS
  m = m
  v = v
  c1 = c1
  c2 = c2
  c3 = c3
  Payments = {m, v}
  MomoPayments = {m}
  Calls = {c1, c2}
  Workloads <- WebhookWorkloads
  OpeningInvoices <- BothInvoiced
  OpeningPeriods = {0}
INVARIANTS
  OnePeriodPerPayment
CHECK_DEADLOCK FALSE
