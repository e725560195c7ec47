\* Three calls, one buyer: a sale, a decision and any third call in every order; a
\* listing that is replaced under its key needs an approval, a delete and a submission.
\* All calls end: no deadlock.
SPECIFICATION Spec
CONSTANTS
  c1 = c1
  c2 = c2
  c3 = c3
  b1 = b1
  NoCall = NoCall
  Dev = Dev
  NoTenant = NoTenant
  Calls = {c1, c2, c3}
  Buyers = {b1}
  Asks <- MCAsks
  Tiers <- MCTiers
  Share <- MCShare
  MinTier = 1
  MinReviewCount = 1
  MinApprovals = 50
  Opening = 10
  MaxRequests = 3
INVARIANTS
  TypeOK
  SalesAreBooked
  PublishedAsApproved
  PayoutsAreDebited
  BooksBalance
CHECK_DEADLOCK FALSE
