\* One event that reports a partial refund.
SPECIFICATION Spec
CONSTANTS
  p1 = p1
  p2 = p2
  Payments = {p1, p2}
  Original <- MCOriginal
  Calls = {c1}
  Requests <- OneEvent
  MaxBalance = 4
  OtherCredits = 0
INVARIANTS
  RefundedOnlyInFull
CHECK_DEADLOCK FALSE
