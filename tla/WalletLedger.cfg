\* One tenant, three concurrent calls, MaxRetry 1 (5 in the code: with three
\* calls a call can lose at most two rounds, so 1 shows both the retry and the
\* giving up), MaxBalance 3 (so that a credit can be refused).
\* All calls end: the system stops, which is no deadlock.
SPECIFICATION FairSpec
CONSTANTS
  t1 = t1
  r1 = r1
  r2 = r2
  r3 = r3
  Tenants = {t1}
  Calls = {c1, c2, c3}
  Refs = {r1, r2, r3}
  Requests <- MCRequests
  OpeningRef = r3
  OpeningBalances <- MCOpeningBalances
  MinBalance = 0
  MaxBalance = 3
  MaxRetry = 1
  NoCall = NoCall
INVARIANTS
  TypeOK
  BalanceReplaysLedger
  SnapshotsAreCurrent
  BalanceWithinLimits
  AnswersMatchLedger
  LosersWereOvertaken
PROPERTIES
  RefinesAtomicLedger
  EveryCallAnswered
CHECK_DEADLOCK FALSE
