\* Three calls: two partial refunds that fit together and a third that does not.
\* MaxBalance 4 lets a refund that is due meet a full wallet.
\* All calls end: the system stops, which is no deadlock.
SPECIFICATION Spec
CONSTANTS
  p1 = p1
  p2 = p2
  Payments = {p1, p2}
  Original <- MCOriginal
  Calls = {c1, c2, c3}
  Requests <- MCRequests
  MaxBalance = 4
  OtherCredits = 1
INVARIANTS
  TypeOK
  NoOverRefund
  WalletHoldsRefunds
PROPERTIES
  RefinesAtomicRefunds
CHECK_DEADLOCK FALSE
