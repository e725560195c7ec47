\* Three calls about one payment and one tenant: any two of them may collide, and a batch
\* of two has a slice of one and another one behind it.
\* All mails end and all calls do, but the poller never stops: no deadlock is possible.
SPECIFICATION FairSpec
CONSTANTS
  c1 = c1
  c2 = c2
  c3 = c3
  i1 = i1
  t1 = t1
  Calls = {c1, c2, c3}
  Subjects = {i1, t1}
  Asks <- MCAsks
  MaxRetries = 1
  BatchSize = 2
  Concurrency = 1
  MaxFaults = 1
INVARIANTS
  TypeOK
  TwoOnlyIfOverlapped
PROPERTIES
  RefinesMailQueue
  EveryInvoiceMailEnds
