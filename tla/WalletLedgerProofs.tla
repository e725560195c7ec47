------------------------ MODULE WalletLedgerProofs ------------------------
(***************************************************************************)
(* Theorems about WalletLedger, for every set of tenants, calls and        *)
(* requests and every limit that LedgerConstants allows.                   *)
(***************************************************************************)
EXTENDS WalletLedger, TLAPS, SequenceTheorems, FiniteSetTheorems

(***************************************************************************)
(* Lemmas on the data.                                                     *)
(***************************************************************************)

LEMMA SignedInt ==
  ASSUME NEW type, NEW amount \in Int
  PROVE  Signed(type, amount) \in Int
BY DEF Signed

\* The balance of a book is an integer, and that of the last entry appended.
LEMMA TotalType ==
  ASSUME NEW book \in Seq(Entries)
  PROVE  Total(book) \in Int
<1>1. CASE book = << >>
  BY <1>1 DEF Total
<1>2. CASE book # << >>
  <2>1. Len(book) \in 1 .. Len(book)
    BY <1>2
  <2>2. book[Len(book)] \in Entries
    BY <2>1
  <2> QED
    BY <1>2, <2>2 DEF Total, Entries
<1> QED
  BY <1>1, <1>2

LEMMA TotalAppend ==
  ASSUME NEW book \in Seq(Entries), NEW e \in Entries
  PROVE  Total(Append(book, e)) = e.balanceAfter
<1>1. Len(Append(book, e)) = Len(book) + 1 /\ Append(book, e)[Len(book) + 1] = e
  OBVIOUS
<1>2. Append(book, e) # << >>
  BY <1>1
<1> QED
  BY <1>1, <1>2 DEF Total

\* What a call would write under its request is a well-formed entry.
LEMMA EntryOfType ==
  ASSUME NEW c \in Calls, NEW r \in Requests, NEW balance \in Int
  PROVE  EntryOf(c, r, balance) \in Entries
<1>1. r \in RequestType
  BY LedgerConstants
<1> QED
  BY <1>1 DEF EntryOf, Entries, RequestType, Signed, RefOf

LEMMA EntriesForType ==
  ASSUME NEW book \in Seq(Entries), NEW ref, NEW e \in EntriesFor(book, ref)
  PROVE  e \in Entries /\ BalanceBefore(e) \in Int /\ PriorBalance(e) = BalanceBefore(e)
<1>1. e \in Entries
  BY DEF EntriesFor
<1>2. e.balanceAfter \in Int /\ e.amount \in Int
  BY <1>1 DEF Entries
<1> QED
  BY <1>1, <1>2 DEF BalanceBefore, PriorBalance, Signed

LEMMA OpeningBookType ==
  ASSUME NEW b \in OpeningBalances
  PROVE  OpeningBook(b) \in Seq(Entries)
<1>1. b \in Int
  BY LedgerConstants
<1> DEFINE e == [type |-> "CREDIT", amount |-> b, balanceAfter |-> b,
                 ref |-> OpeningRef, by |-> NoCall]
<1>2. e \in Entries
  BY <1>1, LedgerConstants DEF Entries
<1> HIDE DEF e
<1>3. << e >> \in Seq(Entries) /\ << >> \in Seq(Entries)
  BY <1>2
<1> QED
  BY <1>3 DEF OpeningBook, e

(***************************************************************************)
(* Type correctness.                                                       *)
(***************************************************************************)

LEMMA InitTypeOK == Init => TypeOK
<1> SUFFICES ASSUME Init PROVE TypeOK
  OBVIOUS
<1>1. PICK open \in [Tenants -> OpeningBalances] :
        /\ ledger = [t \in Tenants |-> OpeningBook(open[t])]
        /\ wallet = [t \in Tenants |->
                       IF open[t] = 0 THEN NoWallet
                       ELSE [exists |-> TRUE, balance |-> open[t], version |-> 2]]
  BY DEF Init
<1>2. \A t \in Tenants : open[t] \in OpeningBalances /\ open[t] \in Int
  <2>1. OpeningBalances \subseteq 0 .. MaxBalance /\ MaxBalance \in Int
    BY LedgerConstants
  <2>2. open \in [Tenants -> OpeningBalances]
    OBVIOUS
  <2>3. \A t \in Tenants : open[t] \in OpeningBalances
    BY <2>2, Zenon
  <2>4. OpeningBalances \subseteq Int
    BY <2>1
  <2> QED
    BY <2>3, <2>4, Zenon
<1>3. ledger \in [Tenants -> Seq(Entries)]
  BY <1>1, <1>2, OpeningBookType
<1>4. wallet \in [Tenants -> Rows]
  BY <1>1, <1>2 DEF Rows, NoWallet
<1>5. NoWallet \in Rows
  BY DEF NoWallet, Rows
<1>6. NoAnswer \in Answers
  BY DEF NoAnswer, Answers, Statuses
<1> QED
  BY <1>3, <1>4, <1>5, <1>6, MaxRetryAssumption DEF Init, TypeOK, PCs

\* Finish and Throw keep the variables they set well typed.
LEMMA FinishType ==
  ASSUME TypeOK, NEW c \in Calls, NEW status \in Statuses,
         NEW before \in Int, NEW after \in Int, Finish(c, status, before, after)
  PROVE  pc' \in [Calls -> PCs] /\ answer' \in [Calls -> Answers]
BY DEF TypeOK, Finish, Goto, PCs, Answers

LEMMA ThrowType ==
  ASSUME TypeOK, NEW c \in Calls, NEW status \in Statuses, Throw(c, status)
  PROVE  /\ pc' \in [Calls -> PCs] /\ answer' \in [Calls -> Answers]
         /\ lock' \in [Tenants -> Calls \cup {NoCall}]
<1>1. Finish(c, status, 0, 0)
  BY DEF Throw
<1>2. lock' \in [Tenants -> Calls \cup {NoCall}]
  BY DEF Throw, TypeOK
<1> QED
  BY <1>1, <1>2, FinishType

LEMMA GotoType ==
  ASSUME TypeOK, NEW c \in Calls, NEW label \in PCs, Goto(c, label)
  PROVE  pc' \in [Calls -> PCs]
BY DEF TypeOK, Goto

LEMMA ReturnExistingType ==
  ASSUME TypeOK, NEW c \in Calls, ReturnExisting(c)
  PROVE  pc' \in [Calls -> PCs] /\ answer' \in [Calls -> Answers]
<1>1. PICK e \in Existing(c) : Finish(c, "duplicate", PriorBalance(e), e.balanceAfter)
  BY DEF ReturnExisting
<1>2. req[c] \in RequestType
  BY LedgerConstants DEF TypeOK
<1>3. ledger[Tenant(c)] \in Seq(Entries)
  BY <1>2 DEF TypeOK, Tenant, RequestType
<1>4. e \in Entries /\ PriorBalance(e) \in Int
  BY <1>3, EntriesForType DEF Existing
<1>5. e.balanceAfter \in Int /\ "duplicate" \in Statuses
  BY <1>4 DEF Entries, Statuses
<1> QED
  BY <1>1, <1>4, <1>5, FinishType

\* What TypeOK says of one call.
LEMMA CallTypes ==
  ASSUME TypeOK, NEW c \in Calls
  PROVE  /\ req[c] \in Requests /\ req[c] \in RequestType
         /\ Tenant(c) \in Tenants
         /\ snap[c] \in Rows /\ snap[c].balance \in Int
         /\ wallet[Tenant(c)] \in Rows
         /\ ledger[Tenant(c)] \in Seq(Entries)
         /\ EntryOf(c, req[c], snap[c].balance) \in Entries
<1>1. req[c] \in Requests /\ req[c] \in RequestType
  BY LedgerConstants DEF TypeOK
<1>2. Tenant(c) \in Tenants
  BY <1>1 DEF Tenant, RequestType
<1>3. snap[c] \in Rows /\ snap[c].balance \in Int
  BY DEF TypeOK, Rows
<1>4. EntryOf(c, req[c], snap[c].balance) \in Entries
  BY <1>1, <1>3, EntryOfType
<1> QED
  BY <1>1, <1>2, <1>3, <1>4 DEF TypeOK

LEMMA FreshRow == FreshWallet \in Rows
BY DEF FreshWallet, Rows

LEMMA StepTypeOK == TypeOK /\ [Next]_vars => TypeOK'
<1> SUFFICES ASSUME TypeOK, [Next]_vars PROVE TypeOK'
  OBVIOUS
<1> DEFINE Answering == /\ pc' \in [Calls -> PCs] /\ answer' \in [Calls -> Answers]
<1> DEFINE Locking == lock' \in [Tenants -> Calls \cup {NoCall}]
<1> USE DEF Statuses, PCs
<1>1. ASSUME NEW c \in Calls, Submit(c) PROVE TypeOK'
  <2>1. Answering /\ Locking
    <3>1. CASE Rejected(c)
      BY <1>1, <3>1, ThrowType DEF Submit
    <3>2. CASE ~Rejected(c)
      BY <1>1, <3>2 DEF Submit, TypeOK, Goto
    <3> QED
      BY <3>1, <3>2
  <2> QED
    BY <1>1, <2>1 DEF Submit, TypeOK
<1>2. ASSUME NEW c \in Calls, Lookup(c) PROVE TypeOK'
  <2>1. Answering
    <3>1. CASE ReturnExisting(c)
      BY <3>1, ReturnExistingType
    <3>2. CASE Goto(c, "read") /\ UNCHANGED answer
      BY <3>2, GotoType DEF TypeOK
    <3> QED
      BY <1>2, <3>1, <3>2 DEF Lookup
  <2> QED
    BY <1>2, <2>1 DEF Lookup, TypeOK
<1>3. ASSUME NEW c \in Calls, AfterPreflight(c) PROVE Answering
  BY <1>3, FinishType, GotoType DEF AfterPreflight, TypeOK
<1>4. ASSUME NEW c \in Calls, PreflightRead(c) PROVE TypeOK'
  <2>1. Answering
    BY <1>3, <1>4, GotoType DEF PreflightRead, TypeOK
  <2> QED
    BY <1>4, <2>1 DEF PreflightRead, TypeOK
<1>5. ASSUME NEW c \in Calls, PreflightCreate(c) PROVE TypeOK'
  <2>1. CASE wallet[Tenant(c)].exists
    <3>1. Answering /\ Locking
      BY <1>5, <2>1, ThrowType DEF PreflightCreate
    <3> QED
      BY <1>5, <2>1, <3>1 DEF PreflightCreate, TypeOK
  <2>2. CASE ~wallet[Tenant(c)].exists
    <3>1. Answering
      BY <1>3, <1>5, <2>2 DEF PreflightCreate
    <3>2. wallet' \in [Tenants -> Rows]
      BY <1>5, <2>2, FreshRow DEF PreflightCreate, TypeOK
    <3> QED
      BY <1>5, <2>2, <3>1, <3>2 DEF PreflightCreate, TypeOK
  <2> QED
    BY <2>1, <2>2
<1>6. ASSUME NEW c \in Calls, ReadWallet(c) PROVE TypeOK'
  <2>1. snap' \in [Calls -> Rows]
    BY <1>6, CallTypes DEF ReadWallet, TypeOK
  <2>2. Answering /\ Locking
    <3>1. CASE Throw(c, "refused")
      BY <3>1, ThrowType
    <3>2. CASE /\ Goto(c, IF wallet[Tenant(c)].exists THEN "cas" ELSE "create")
               /\ UNCHANGED <<lock, answer>>
      BY <3>2, GotoType DEF TypeOK
    <3> QED
      BY <1>6, <3>1, <3>2 DEF ReadWallet
  <2> QED
    BY <1>6, <2>1, <2>2 DEF ReadWallet, TypeOK
<1>7. ASSUME NEW c \in Calls, UniqueViolation(c) PROVE Answering /\ Locking
  <2>1. CASE req[c].kind = "service"
    BY <1>7, <2>1, GotoType, CallTypes DEF UniqueViolation, TypeOK
  <2>2. CASE req[c].kind # "service"
    BY <1>7, <2>2, ThrowType DEF UniqueViolation
  <2> QED
    BY <2>1, <2>2
<1>8. ASSUME NEW c \in Calls, CreateWallet(c) PROVE TypeOK'
  <2>1. snap' \in [Calls -> Rows]
    BY <1>8, FreshRow DEF CreateWallet, TypeOK
  <2>2. Answering /\ Locking
    <3>1. CASE UniqueViolation(c)
      BY <1>7, <3>1
    <3>2. CASE Throw(c, "refused")
      BY <3>2, ThrowType
    <3>3. CASE /\ lock' = [lock EXCEPT ![Tenant(c)] = c]
               /\ Goto(c, "cas") /\ UNCHANGED answer
      BY <3>3, GotoType, CallTypes DEF TypeOK
    <3> QED
      BY <1>8, <3>1, <3>2, <3>3 DEF CreateWallet
  <2> QED
    BY <1>8, <2>1, <2>2 DEF CreateWallet, TypeOK
<1>9. ASSUME NEW c \in Calls, Cas(c) PROVE TypeOK'
  <2>1. CASE CasMatches(c)
    BY <1>9, <2>1, GotoType, CallTypes DEF Cas, TypeOK
  <2>2. CASE /\ ~CasMatches(c)
             /\ MayRetry(c)
    <3>1. retries' \in [Calls -> 0 .. MaxRetry]
      <4>1. retries[c] \in 0 .. MaxRetry /\ retries[c] + 1 \in 0 .. MaxRetry
        BY <2>2, MaxRetryAssumption DEF TypeOK, MayRetry
      <4> QED
        BY <1>9, <2>2, <4>1 DEF Cas, TypeOK
    <3> QED
      BY <1>9, <2>2, <3>1, GotoType DEF Cas, TypeOK
  <2>3. CASE /\ ~CasMatches(c)
             /\ ~MayRetry(c)
    <3>1. Answering /\ Locking
      BY <1>9, <2>3, ThrowType DEF Cas
    <3> QED
      BY <1>9, <2>3, <3>1 DEF Cas, TypeOK
  <2> QED
    BY <2>1, <2>2, <2>3
<1>10. ASSUME NEW c \in Calls, LockWallet(c) PROVE TypeOK'
  <2>1. snap' \in [Calls -> Rows]
    BY <1>10, CallTypes DEF LockWallet, TypeOK
  <2>2. Answering /\ Locking
    <3>1. CASE Throw(c, "refused")
      BY <3>1, ThrowType
    <3>2. CASE /\ lock' = [lock EXCEPT ![Tenant(c)] = c]
               /\ Goto(c, "insert") /\ UNCHANGED answer
      BY <3>2, GotoType, CallTypes DEF TypeOK
    <3> QED
      BY <1>10, <3>1, <3>2 DEF LockWallet
  <2> QED
    BY <1>10, <2>1, <2>2 DEF LockWallet, TypeOK
<1>11. ASSUME NEW c \in Calls, Insert(c) PROVE TypeOK'
  <2>1. CASE Existing(c) # {}
    <3>1. Answering /\ Locking
      BY <1>7, <1>11, <2>1 DEF Insert, ReferenceTaken
    <3> QED
      BY <1>11, <2>1, <3>1 DEF Insert, ReferenceTaken, TypeOK
  <2>2. CASE Existing(c) = {}
    <3> DEFINE entry == EntryOf(c, req[c], snap[c].balance)
    <3>1. entry \in Entries /\ entry.balanceAfter \in Int
      BY CallTypes DEF Entries
    <3>2. Append(ledger[Tenant(c)], entry) \in Seq(Entries)
      BY <3>1, CallTypes
    <3>3. [exists |-> TRUE, balance |-> entry.balanceAfter,
           version |-> snap[c].version + 1] \in Rows
      BY <3>1, CallTypes DEF Rows
    <3>4. Answering /\ Locking
      BY <1>11, <2>2, GotoType, CallTypes DEF Insert, ReferenceTaken, TypeOK
    <3> HIDE DEF entry
    <3>5. /\ ledger' = [ledger EXCEPT ![Tenant(c)] = Append(@, entry)]
          /\ wallet' = [wallet EXCEPT ![Tenant(c)] =
                           [exists |-> TRUE, balance |-> entry.balanceAfter,
                            version |-> snap[c].version + 1]]
      BY <1>11, <2>2 DEF Insert, ReferenceTaken, entry
    <3>6. ledger' \in [Tenants -> Seq(Entries)] /\ wallet' \in [Tenants -> Rows]
      BY <3>2, <3>3, <3>5, CallTypes DEF TypeOK
    <3> QED
      BY <1>11, <3>4, <3>6 DEF Insert, ReferenceTaken, TypeOK
  <2> QED
    BY <2>1, <2>2
<1>12. ASSUME NEW c \in Calls, Reply(c) PROVE TypeOK'
  <2>1. EntryOf(c, req[c], snap[c].balance).balanceAfter \in Int
    BY CallTypes DEF Entries
  <2>2. Answering
    BY <1>12, <2>1, CallTypes, FinishType DEF Reply
  <2> QED
    BY <1>12, <2>2 DEF Reply, TypeOK
<1>13. ASSUME NEW c \in Calls, Recheck(c) PROVE TypeOK'
  <2>1. Answering /\ Locking
    BY <1>13, ReturnExistingType, ThrowType DEF Recheck, TypeOK
  <2> QED
    BY <1>13, <2>1 DEF Recheck, TypeOK
<1>14. ASSUME NEW c \in Calls, Fail(c) PROVE TypeOK'
  <2>1. Answering /\ Locking
    BY <1>14, ThrowType DEF Fail
  <2> QED
    BY <1>14, <2>1 DEF Fail, TypeOK
<1>15. CASE UNCHANGED vars
  BY <1>15 DEF vars, TypeOK
<1> QED
  BY <1>1, <1>2, <1>4, <1>5, <1>6, <1>8, <1>9, <1>10, <1>11, <1>12, <1>13, <1>14,
     <1>15 DEF Next, Step

\* Every variable keeps its type, for any number of tenants, calls and requests.
THEOREM TypeCorrect == Spec => []TypeOK
<1> QED
  BY InitTypeOK, StepTypeOK, PTL DEF Spec

(***************************************************************************)
(* The row lock and the version check: nobody commits a stale balance.     *)
(***************************************************************************)

\* A step of another call that leaves the row alone leaves d's snapshot current.
LEMMA OthersKeepSnapshot ==
  ASSUME TypeOK, NEW d \in Calls, SnapshotIsCurrent(d),
         wallet' = wallet, req' = req, pc'[d] = pc[d], snap'[d] = snap[d],
         \A t \in Tenants : (lock'[t] = d) <=> (lock[t] = d)
  PROVE  SnapshotIsCurrent(d)'
<1>1. Tenant(d)' = Tenant(d) /\ Tenant(d) \in Tenants
  BY CallTypes DEF Tenant
<1> QED
  BY <1>1 DEF SnapshotIsCurrent

\* What every step of call c leaves alone.
Elsewhere(c) ==
  /\ req' = req
  /\ \A d \in Calls \ {c} :
       /\ pc'[d] = pc[d] /\ snap'[d] = snap[d]
       /\ \A t \in Tenants : (lock'[t] = d) <=> (lock[t] = d)

LEMMA StepIsLocal ==
  ASSUME TypeOK, NEW c \in Calls, Submit(c) \/ Step(c) \/ Fail(c),
         SnapshotsAreCurrent
  PROVE  Elsewhere(c)
<1> USE CallTypes DEF TypeOK, Elsewhere, Goto
<1>1. ASSUME NEW status, Throw(c, status)
      PROVE  \A d \in Calls \ {c} :
               /\ pc'[d] = pc[d]
               /\ \A t \in Tenants : (lock'[t] = d) <=> (lock[t] = d)
  BY <1>1, LedgerConstants DEF Throw, Finish
<1>2. ASSUME ReturnExisting(c)
      PROVE  \A d \in Calls \ {c} : pc'[d] = pc[d]
  BY <1>2 DEF ReturnExisting, Finish
<1>3. ASSUME UniqueViolation(c)
      PROVE  \A d \in Calls \ {c} :
               /\ pc'[d] = pc[d]
               /\ \A t \in Tenants : (lock'[t] = d) <=> (lock[t] = d)
  BY <1>1, <1>3, LedgerConstants DEF UniqueViolation
<1>4. CASE Submit(c)
  BY <1>1, <1>4 DEF Submit
<1>5. CASE Lookup(c)
  BY <1>2, <1>5 DEF Lookup
<1>6. CASE PreflightRead(c)
  BY <1>6 DEF PreflightRead, AfterPreflight, Finish
<1>7. CASE PreflightCreate(c)
  BY <1>1, <1>7 DEF PreflightCreate, AfterPreflight, Finish
<1>8. CASE ReadWallet(c)
  BY <1>1, <1>8 DEF ReadWallet
<1>9. CASE CreateWallet(c)
  BY <1>1, <1>3, <1>9, LedgerConstants DEF CreateWallet
<1>10. CASE Cas(c)
  BY <1>1, <1>10, LedgerConstants DEF Cas
<1>11. CASE LockWallet(c)
  BY <1>1, <1>11, LedgerConstants DEF LockWallet
<1>12. CASE Insert(c)
  <2>1. lock[Tenant(c)] = c
    BY <1>12 DEF Insert, ReferenceTaken, SnapshotsAreCurrent, SnapshotIsCurrent
  <2> QED
    BY <1>3, <1>12, <2>1, LedgerConstants DEF Insert, ReferenceTaken
<1>13. CASE Reply(c)
  BY <1>13 DEF Reply, Finish
<1>14. CASE Recheck(c)
  BY <1>1, <1>2, <1>14 DEF Recheck
<1>15. CASE Fail(c)
  BY <1>1, <1>15 DEF Fail
<1> QED
  BY <1>4, <1>5, <1>6, <1>7, <1>8, <1>9, <1>10, <1>11, <1>12, <1>13, <1>14, <1>15 DEF Step

\* A call that holds no lock and is past the wallet has nothing to keep current.
LEMMA NothingToKeep ==
  ASSUME NEW c \in Calls, TypeOK, TypeOK',
         \A t \in Tenants : lock'[t] # c,
         pc'[c] \notin {"cas", "insert", "lockread"}
  PROVE  SnapshotIsCurrent(c)'
<1>1. Tenant(c)' \in Tenants
  BY CallTypes, LedgerConstants DEF TypeOK, Tenant, RequestType
<1> QED
  BY <1>1 DEF SnapshotIsCurrent

LEMMA ThrowKeepsSnapshot ==
  ASSUME NEW c \in Calls, TypeOK, TypeOK', NEW status, Throw(c, status)
  PROVE  SnapshotIsCurrent(c)'
<1>1. \A t \in Tenants : lock'[t] # c
  BY LedgerConstants DEF Throw
<1>2. pc'[c] = "done"
  BY DEF Throw, Finish, Goto, TypeOK
<1> QED
  BY <1>1, <1>2, NothingToKeep

LEMMA UniqueViolationKeepsSnapshot ==
  ASSUME NEW c \in Calls, TypeOK, TypeOK', SnapshotIsCurrent(c), UniqueViolation(c)
  PROVE  SnapshotIsCurrent(c)'
<1>1. CASE req[c].kind = "service"
  <2>1. pc'[c] = "recheck"
    BY <1>1 DEF UniqueViolation, Goto, TypeOK
  <2>2. \A t \in Tenants : lock'[t] # c
    BY <1>1, CallTypes, LedgerConstants DEF UniqueViolation, SnapshotIsCurrent, TypeOK
  <2> QED
    BY <2>1, <2>2, NothingToKeep
<1>2. CASE req[c].kind # "service"
  BY <1>2, ThrowKeepsSnapshot DEF UniqueViolation
<1> QED
  BY <1>1, <1>2

LEMMA InitSnapshots == Init => SnapshotsAreCurrent
<1> SUFFICES ASSUME Init PROVE SnapshotsAreCurrent
  OBVIOUS
<1>1. ASSUME NEW c \in Calls PROVE SnapshotIsCurrent(c)
  <2>1. Tenant(c) \in Tenants
    BY InitTypeOK, CallTypes
  <2> QED
    BY <2>1, LedgerConstants DEF Init, SnapshotIsCurrent
<1> QED
  BY <1>1 DEF SnapshotsAreCurrent

LEMMA StepSnapshots ==
  TypeOK /\ TypeOK' /\ SnapshotsAreCurrent /\ [Next]_vars => SnapshotsAreCurrent'
<1> SUFFICES ASSUME TypeOK, TypeOK', SnapshotsAreCurrent, [Next]_vars
             PROVE  SnapshotsAreCurrent'
  OBVIOUS
<1> USE CallTypes
<1>1. ASSUME NEW c \in Calls, Submit(c) \/ Step(c) \/ Fail(c), wallet' = wallet,
             SnapshotIsCurrent(c)'
      PROVE  SnapshotsAreCurrent'
  BY <1>1, StepIsLocal, OthersKeepSnapshot DEF SnapshotsAreCurrent, Elsewhere
<1>2. ASSUME NEW c \in Calls, Submit(c) PROVE SnapshotsAreCurrent'
  <2>1. SnapshotIsCurrent(c)'
    <3>1. CASE Throw(c, "refused")
      BY <3>1, ThrowKeepsSnapshot
    <3>2. CASE UNCHANGED lock /\ pc'[c] \in {"lookup", "read", "preflight"}
      BY <1>2, <3>2, NothingToKeep DEF Submit, SnapshotsAreCurrent, SnapshotIsCurrent
    <3> QED
      BY <1>2, <3>1, <3>2 DEF Submit, Goto, TypeOK
  <2> QED
    BY <1>1, <1>2, <2>1 DEF Submit
<1>3. ASSUME NEW c \in Calls, Lookup(c) \/ Reply(c) PROVE SnapshotsAreCurrent'
  <2>1. pc'[c] \in {"read", "done"} /\ lock' = lock /\ wallet' = wallet
    BY <1>3 DEF Lookup, Reply, ReturnExisting, Finish, Goto, TypeOK
  <2>2. \A t \in Tenants : lock[t] # c
    BY <1>3 DEF Lookup, Reply, SnapshotsAreCurrent, SnapshotIsCurrent
  <2> QED
    BY <1>1, <1>3, <2>1, <2>2, NothingToKeep DEF Step
<1>4. ASSUME NEW c \in Calls, Recheck(c) PROVE SnapshotsAreCurrent'
  <2>1. CASE ReturnExisting(c) /\ UNCHANGED lock
    <3>1. pc'[c] = "done" /\ \A t \in Tenants : lock'[t] # c
      BY <1>4, <2>1 DEF Recheck, ReturnExisting, Finish, Goto, TypeOK,
                        SnapshotsAreCurrent, SnapshotIsCurrent
    <3> QED
      BY <1>1, <1>4, <3>1, NothingToKeep DEF Step, Recheck
  <2>2. CASE Throw(c, "failed")
    BY <1>1, <1>4, <2>2, ThrowKeepsSnapshot DEF Step, Recheck
  <2> QED
    BY <1>4, <2>1, <2>2 DEF Recheck
<1>5. ASSUME NEW c \in Calls, PreflightRead(c) PROVE SnapshotsAreCurrent'
  <2>1. /\ wallet' = wallet /\ lock' = lock
        /\ \A t \in Tenants : lock[t] # c
        /\ pc'[c] \in {"precreate", "done", "lockread"}
        /\ pc'[c] = "lockread" => wallet[Tenant(c)].exists
    <3>1. \A t \in Tenants : lock[t] # c
      BY <1>5 DEF PreflightRead, SnapshotsAreCurrent, SnapshotIsCurrent
    <3>2. CASE wallet[Tenant(c)].exists
      <4>1. pc'[c] \in {"done", "lockread"}
        BY <1>5, <3>2 DEF PreflightRead, AfterPreflight, Finish, Goto, TypeOK
      <4> QED
        BY <1>5, <3>1, <3>2, <4>1 DEF PreflightRead
    <3>3. CASE ~wallet[Tenant(c)].exists
      <4>1. pc'[c] = "precreate"
        BY <1>5, <3>3 DEF PreflightRead, Goto, TypeOK
      <4> QED
        BY <1>5, <3>1, <4>1 DEF PreflightRead
    <3> QED
      BY <3>2, <3>3
  <2>2. Tenant(c)' = Tenant(c)
    BY <1>5 DEF PreflightRead, Tenant
  <2>3. SnapshotIsCurrent(c)'
    BY <2>1, <2>2 DEF SnapshotIsCurrent
  <2> QED
    BY <1>1, <1>5, <2>1, <2>3 DEF Step
<1>6. ASSUME NEW c \in Calls, PreflightCreate(c) PROVE SnapshotsAreCurrent'
  <2>1. CASE wallet[Tenant(c)].exists
    BY <1>1, <1>6, <2>1, ThrowKeepsSnapshot DEF Step, PreflightCreate
  <2>2. CASE ~wallet[Tenant(c)].exists
    <3>1. /\ wallet' = [wallet EXCEPT ![Tenant(c)] = FreshWallet]
          /\ lock' = lock /\ req' = req /\ snap' = snap
          /\ lock[Tenant(c)] = NoCall
          /\ pc[c] = "precreate"
          /\ pc' = [pc EXCEPT ![c] = pc'[c]]
          /\ pc'[c] \in {"done", "lockread"}
      BY <1>6, <2>2 DEF PreflightCreate, AfterPreflight, Finish, Goto, TypeOK
    <3>2. ASSUME NEW d \in Calls PROVE SnapshotIsCurrent(d)'
      <4>1. SnapshotIsCurrent(d) /\ Tenant(d)' = Tenant(d) /\ Tenant(d) \in Tenants
        BY <3>1 DEF SnapshotsAreCurrent, Tenant
      <4>2. CASE d = c
        BY <2>2, <3>1, <4>1, <4>2, LedgerConstants
           DEF SnapshotIsCurrent, FreshWallet, TypeOK
      <4>3. CASE d # c /\ Tenant(d) # Tenant(c)
        BY <3>1, <4>1, <4>3 DEF SnapshotIsCurrent, TypeOK
      <4>4. CASE d # c /\ Tenant(d) = Tenant(c)
        BY <2>2, <3>1, <4>1, <4>4, LedgerConstants
           DEF SnapshotIsCurrent, FreshWallet, TypeOK
      <4> QED
        BY <4>2, <4>3, <4>4
    <3> QED
      BY <3>2 DEF SnapshotsAreCurrent
  <2> QED
    BY <2>1, <2>2
<1>7. ASSUME NEW c \in Calls, ReadWallet(c) PROVE SnapshotsAreCurrent'
  <2>1. CASE Throw(c, "refused")
    BY <1>1, <1>7, <2>1, ThrowKeepsSnapshot DEF Step, ReadWallet
  <2>2. CASE UNCHANGED lock /\ Goto(c, IF wallet[Tenant(c)].exists THEN "cas" ELSE "create")
    <3>1. /\ wallet' = wallet /\ lock' = lock /\ Tenant(c)' = Tenant(c)
          /\ snap'[c] = wallet[Tenant(c)]
          /\ \A t \in Tenants : lock[t] # c
          /\ pc'[c] = IF wallet[Tenant(c)].exists THEN "cas" ELSE "create"
      BY <1>7, <2>2 DEF ReadWallet, Tenant, Goto, TypeOK,
                        SnapshotsAreCurrent, SnapshotIsCurrent
    <3>2. SnapshotIsCurrent(c)'
      BY <3>1 DEF SnapshotIsCurrent, Rows
    <3> QED
      BY <1>1, <1>7, <3>1, <3>2 DEF Step
  <2> QED
    BY <1>7, <2>1, <2>2 DEF ReadWallet
<1>8. ASSUME NEW c \in Calls, CreateWallet(c) PROVE SnapshotsAreCurrent'
  <2>1. CASE UniqueViolation(c)
    BY <1>1, <1>8, <2>1, UniqueViolationKeepsSnapshot
       DEF Step, CreateWallet, SnapshotsAreCurrent
  <2>2. CASE Throw(c, "refused")
    BY <1>1, <1>8, <2>2, ThrowKeepsSnapshot DEF Step, CreateWallet
  <2>3. CASE /\ ~wallet[Tenant(c)].exists
             /\ lock' = [lock EXCEPT ![Tenant(c)] = c]
             /\ Goto(c, "cas")
    <3>1. /\ wallet' = wallet /\ Tenant(c)' = Tenant(c)
          /\ snap'[c] = FreshWallet
          /\ \A t \in Tenants : lock[t] # c
          /\ pc'[c] = "cas"
      BY <1>8, <2>3 DEF CreateWallet, UniqueViolation, Tenant, Goto, TypeOK,
                        SnapshotsAreCurrent, SnapshotIsCurrent
    <3>2. SnapshotIsCurrent(c)'
      BY <2>3, <3>1 DEF SnapshotIsCurrent, TypeOK
    <3> QED
      BY <1>1, <1>8, <3>1, <3>2 DEF Step
  <2> QED
    BY <1>8, <2>1, <2>2, <2>3 DEF CreateWallet
<1>9. ASSUME NEW c \in Calls, Cas(c) PROVE SnapshotsAreCurrent'
  <2>1. SnapshotIsCurrent(c) /\ wallet' = wallet /\ Tenant(c)' = Tenant(c) /\ snap' = snap
    BY <1>9 DEF Cas, SnapshotsAreCurrent, Tenant
  <2>2. CASE CasMatches(c)
    <3>1. lock' = [lock EXCEPT ![Tenant(c)] = c] /\ pc'[c] = "insert"
      BY <1>9, <2>2 DEF Cas, Goto, TypeOK
    <3>2. snap[c] = IF wallet[Tenant(c)].exists THEN wallet[Tenant(c)] ELSE FreshWallet
      BY <1>9, <2>1, <2>2 DEF Cas, CasMatches, CurrentRow, SnapshotIsCurrent
    <3>3. SnapshotIsCurrent(c)'
      BY <2>1, <3>1, <3>2 DEF SnapshotIsCurrent, TypeOK
    <3> QED
      BY <1>1, <1>9, <2>1, <3>3 DEF Step
  <2>3. CASE ~CasMatches(c)
    <3>1. \A t \in Tenants : lock[t] # c
      BY <2>1, <2>3 DEF CasMatches, CurrentRow, SnapshotIsCurrent
    <3>2. CASE UNCHANGED lock /\ Goto(c, "lookup")
      <4>1. pc'[c] = "lookup"
        BY <3>2 DEF Goto, TypeOK
      <4> QED
        BY <1>1, <1>9, <2>1, <3>1, <3>2, <4>1, NothingToKeep DEF Step
    <3>3. ASSUME NEW status, Throw(c, status) PROVE SnapshotsAreCurrent'
      BY <1>1, <1>9, <2>1, <3>3, ThrowKeepsSnapshot DEF Step
    <3> QED
      BY <1>9, <2>3, <3>2, <3>3 DEF Cas
  <2> QED
    BY <2>2, <2>3
<1>10. ASSUME NEW c \in Calls, LockWallet(c) PROVE SnapshotsAreCurrent'
  <2>1. CASE Throw(c, "refused")
    BY <1>1, <1>10, <2>1, ThrowKeepsSnapshot DEF Step, LockWallet
  <2>2. CASE lock' = [lock EXCEPT ![Tenant(c)] = c] /\ Goto(c, "insert")
    <3>1. /\ wallet' = wallet /\ Tenant(c)' = Tenant(c)
          /\ snap'[c] = wallet[Tenant(c)] /\ wallet[Tenant(c)].exists
          /\ \A t \in Tenants : lock[t] # c
          /\ pc'[c] = "insert"
      BY <1>10, <2>2 DEF LockWallet, Tenant, Goto, TypeOK,
                         SnapshotsAreCurrent, SnapshotIsCurrent
    <3>2. SnapshotIsCurrent(c)'
      BY <2>2, <3>1 DEF SnapshotIsCurrent, TypeOK
    <3> QED
      BY <1>1, <1>10, <3>1, <3>2 DEF Step
  <2> QED
    BY <1>10, <2>1, <2>2 DEF LockWallet
<1>11. ASSUME NEW c \in Calls, Insert(c) PROVE SnapshotsAreCurrent'
  <2>1. CASE Existing(c) # {}
    BY <1>1, <1>11, <2>1, UniqueViolationKeepsSnapshot
       DEF Step, Insert, ReferenceTaken, SnapshotsAreCurrent
  <2>2. CASE Existing(c) = {}
    <3> DEFINE t == Tenant(c)
    <3> DEFINE after == EntryOf(c, req[c], snap[c].balance).balanceAfter
    <3>1. /\ wallet' = [wallet EXCEPT ![t] = [exists |-> TRUE, balance |-> after,
                                             version |-> snap[c].version + 1]]
          /\ lock' = [lock EXCEPT ![t] = NoCall]
          /\ pc' = [pc EXCEPT ![c] = "committed"]
          /\ req' = req /\ snap' = snap
      BY <1>11, <2>2 DEF Insert, ReferenceTaken, Goto
    <3> HIDE DEF after
    <3>2. /\ lock[t] = c /\ t \in Tenants /\ t' = t
          /\ \A u \in Tenants : lock[u] = c => u = t
          /\ snap[c] = IF wallet[t].exists THEN wallet[t] ELSE FreshWallet
      BY <1>11, <3>1 DEF Insert, ReferenceTaken, SnapshotsAreCurrent, SnapshotIsCurrent, Tenant
    <3>3. SnapshotIsCurrent(c)'
      <4>1. \A u \in Tenants : lock'[u] # c
        BY <3>1, <3>2, LedgerConstants DEF TypeOK
      <4>2. pc'[c] = "committed"
        BY <3>1 DEF TypeOK
      <4> QED
        BY <4>1, <4>2, NothingToKeep
    <3>4. ASSUME NEW d \in Calls, d # c PROVE SnapshotIsCurrent(d)'
      <4>1. /\ SnapshotIsCurrent(d) /\ Tenant(d)' = Tenant(d) /\ Tenant(d) \in Tenants
            /\ pc'[d] = pc[d] /\ snap'[d] = snap[d]
            /\ \A u \in Tenants : (lock'[u] = d) <=> (lock[u] = d)
        BY <3>1, <3>2, <3>4, LedgerConstants DEF SnapshotsAreCurrent, Tenant, TypeOK
      <4>2. CASE Tenant(d) # t
        <5>1. wallet'[Tenant(d)] = wallet[Tenant(d)]
          BY <3>1, <4>1, <4>2 DEF TypeOK
        <5> QED
          BY <4>1, <5>1 DEF SnapshotIsCurrent
      <4>3. CASE Tenant(d) = t
        <5>1. /\ wallet'[t].exists /\ lock[t] # d /\ lock'[t] # d
              /\ wallet'[t].version = snap[c].version + 1
          BY <3>1, <3>2, <3>4, <4>1 DEF TypeOK
        <5>2. wallet[t].exists => snap[c].version = wallet[t].version
          BY <3>2
        <5>3. snap[d].version \in Nat /\ snap[c].version \in Nat
          BY DEF Rows
        <5> QED
          BY <4>1, <4>3, <5>1, <5>2, <5>3 DEF SnapshotIsCurrent
      <4> QED
        BY <4>2, <4>3
    <3> QED
      BY <3>3, <3>4 DEF SnapshotsAreCurrent
  <2> QED
    BY <2>1, <2>2
<1>12. ASSUME NEW c \in Calls, Fail(c) PROVE SnapshotsAreCurrent'
  BY <1>1, <1>12, ThrowKeepsSnapshot DEF Fail
<1>13. CASE UNCHANGED vars
  BY <1>13 DEF vars, SnapshotsAreCurrent, SnapshotIsCurrent, Tenant
<1> QED
  BY <1>2, <1>3, <1>4, <1>5, <1>6, <1>7, <1>8, <1>9, <1>10, <1>11, <1>12, <1>13
     DEF Next, Step

\* A transaction that still may write holds the committed row or will notice that
\* it does not: SnapshotsAreCurrent is inductive together with the types.
THEOREM SnapshotSafety == Spec => []SnapshotsAreCurrent
<1> QED
  BY InitTypeOK, StepTypeOK, InitSnapshots, StepSnapshots, TypeCorrect, PTL DEF Spec

(***************************************************************************)
(* The ledger: what Insert appends, and that nothing else touches it.      *)
(***************************************************************************)

\* The entry a committing call books, on top of the book it has read.
LEMMA InsertEffect ==
  ASSUME TypeOK, SnapshotsAreCurrent, NEW c \in Calls, Insert(c), Existing(c) = {}
  PROVE  LET t == Tenant(c)
             entry == EntryOf(c, req[c], snap[c].balance)
             row == IF wallet[t].exists THEN wallet[t] ELSE FreshWallet
         IN  /\ entry \in Entries
             /\ ledger' = [ledger EXCEPT ![t] = Append(ledger[t], entry)]
             /\ wallet' = [wallet EXCEPT ![t] =
                              [exists |-> TRUE, balance |-> entry.balanceAfter,
                               version |-> row.version + 1]]
             /\ BalanceBefore(entry) = row.balance
<1> DEFINE t == Tenant(c)
<1> DEFINE row == IF wallet[t].exists THEN wallet[t] ELSE FreshWallet
<1>1. snap[c] = row
  BY DEF Insert, ReferenceTaken, SnapshotsAreCurrent, SnapshotIsCurrent
<1>2. EntryOf(c, req[c], snap[c].balance) \in Entries
  BY CallTypes
<1>3. BalanceBefore(EntryOf(c, req[c], snap[c].balance)) = snap[c].balance
  <2>1. Signed(req[c].type, req[c].amount) \in Int /\ snap[c].balance \in Int
    BY CallTypes, SignedInt DEF RequestType
  <2> QED
    BY <2>1 DEF BalanceBefore, EntryOf
<1> QED
  BY <1>1, <1>2, <1>3 DEF Insert, ReferenceTaken

\* Every other step leaves every book alone, and every row but one it creates.
LEMMA OtherSteps ==
  ASSUME TypeOK, [Next]_vars,
         \A c \in Calls : ~(Insert(c) /\ Existing(c) = {})
  PROVE  /\ ledger' = ledger
         /\ \/ wallet' = wallet
            \/ \E t \in Tenants : /\ ~wallet[t].exists
                                  /\ wallet' = [wallet EXCEPT ![t] = FreshWallet]
<1>1. ASSUME NEW c \in Calls, PreflightCreate(c)
      PROVE  /\ ledger' = ledger
             /\ \/ wallet' = wallet
                \/ \E t \in Tenants : /\ ~wallet[t].exists
                                      /\ wallet' = [wallet EXCEPT ![t] = FreshWallet]
  BY <1>1, CallTypes DEF PreflightCreate
<1>2. ASSUME NEW c \in Calls, Insert(c)
      PROVE  ledger' = ledger /\ wallet' = wallet
  BY <1>2 DEF Insert, ReferenceTaken
<1>3. CASE UNCHANGED vars
  BY <1>3 DEF vars
<1> QED
  BY <1>1, <1>2, <1>3 DEF Next, Step, Submit, Lookup, PreflightRead, ReadWallet,
     CreateWallet, Cas, LockWallet, Reply, Recheck, Fail

LEMMA InitBalance == Init => BalanceReplaysLedger
<1> SUFFICES ASSUME Init, NEW t \in Tenants
             PROVE  Replays(wallet[t], ledger[t])
  BY DEF BalanceReplaysLedger
<1>1. PICK b \in OpeningBalances :
        /\ ledger[t] = OpeningBook(b)
        /\ wallet[t] = IF b = 0 THEN NoWallet
                       ELSE [exists |-> TRUE, balance |-> b, version |-> 2]
  BY DEF Init
<1>2. b \in Int
  BY LedgerConstants
<1>3. CASE b = 0
  <2>1. ledger[t] = << >> /\ wallet[t] = NoWallet
    BY <1>1, <1>3 DEF OpeningBook
  <2> QED
    BY <2>1 DEF NoWallet, Total, Replays
<1>4. CASE b # 0
  <2> DEFINE e == [type |-> "CREDIT", amount |-> b, balanceAfter |-> b,
                   ref |-> OpeningRef, by |-> NoCall]
  <2>1. ledger[t] = << e >>
    BY <1>1, <1>4 DEF OpeningBook
  <2>2. BalanceBefore(e) = 0 /\ e.balanceAfter = b
    BY <1>2 DEF BalanceBefore, Signed
  <2> HIDE DEF e
  <2>3. /\ Len(ledger[t]) = 1 /\ DOMAIN ledger[t] = {1} /\ ledger[t][1] = e
        /\ ledger[t] # << >>
    BY <2>1
  <2>4. wallet[t] = [exists |-> TRUE, balance |-> b, version |-> 2]
    BY <1>1, <1>4
  <2> QED
    BY <2>2, <2>3, <2>4 DEF Total, Replays
<1> QED
  BY <1>3, <1>4

LEMMA StepBalance ==
  TypeOK /\ SnapshotsAreCurrent /\ BalanceReplaysLedger /\ [Next]_vars
    => BalanceReplaysLedger'
<1> SUFFICES ASSUME TypeOK, SnapshotsAreCurrent, BalanceReplaysLedger, [Next]_vars
             PROVE  BalanceReplaysLedger'
  OBVIOUS
<1>1. CASE \A c \in Calls : ~(Insert(c) /\ Existing(c) = {})
  <2>1. CASE wallet' = wallet
    BY <1>1, <2>1, OtherSteps DEF BalanceReplaysLedger
  <2>2. ASSUME NEW t \in Tenants, ~wallet[t].exists,
               wallet' = [wallet EXCEPT ![t] = FreshWallet]
        PROVE  BalanceReplaysLedger'
    <3>1. ledger' = ledger /\ ledger[t] = << >>
      BY <1>1, <2>2, OtherSteps DEF BalanceReplaysLedger, Replays
    <3>2. wallet'[t] = FreshWallet /\ \A u \in Tenants \ {t} : wallet'[u] = wallet[u]
      BY <2>2 DEF TypeOK
    <3>3. Replays(FreshWallet, << >>)
      BY DEF Replays, FreshWallet, Total
    <3> QED
      BY <3>1, <3>2, <3>3 DEF BalanceReplaysLedger
  <2> QED
    BY <1>1, <2>1, <2>2, OtherSteps
<1>2. ASSUME NEW c \in Calls, Insert(c), Existing(c) = {}
      PROVE  BalanceReplaysLedger'
  <2> DEFINE t == Tenant(c)
  <2> DEFINE row == IF wallet[t].exists THEN wallet[t] ELSE FreshWallet
  <2>1. PICK entry \in Entries :
          /\ ledger' = [ledger EXCEPT ![t] = Append(ledger[t], entry)]
          /\ wallet' = [wallet EXCEPT ![t] =
                           [exists |-> TRUE, balance |-> entry.balanceAfter,
                            version |-> row.version + 1]]
          /\ BalanceBefore(entry) = row.balance
    BY <1>2, InsertEffect
  <2>2. t \in Tenants /\ ledger[t] \in Seq(Entries)
    BY CallTypes
  <2>3. row.balance = Total(ledger[t]) /\ row.version = Len(ledger[t]) + 1
    BY <2>2 DEF BalanceReplaysLedger, Replays, FreshWallet, Total
  <2>4. /\ ledger'[t] = Append(ledger[t], entry)
        /\ wallet'[t].exists /\ wallet'[t].balance = entry.balanceAfter
        /\ wallet'[t].version = row.version + 1
        /\ \A u \in Tenants \ {t} : ledger'[u] = ledger[u] /\ wallet'[u] = wallet[u]
    BY <2>1, <2>2 DEF TypeOK
  <2> HIDE DEF row
  <2> DEFINE n == Len(ledger[t])
  <2>5. /\ n \in Nat /\ Len(ledger'[t]) = n + 1
        /\ DOMAIN ledger'[t] = 1 .. n + 1 /\ DOMAIN ledger[t] = 1 .. n
        /\ \A i \in 1 .. n : ledger'[t][i] = ledger[t][i]
        /\ ledger'[t][n + 1] = entry
    BY <2>2, <2>4
  <2>6. Total(ledger[t]) = IF n + 1 = 1 THEN 0 ELSE ledger[t][n].balanceAfter
    BY <2>2, <2>5 DEF Total
  <2>7. \A i \in 1 .. n :
          BalanceBefore(ledger[t][i]) = IF i = 1 THEN 0 ELSE ledger[t][i - 1].balanceAfter
    BY <2>2, <2>5 DEF BalanceReplaysLedger, Replays
  <2>8. ASSUME NEW i \in 1 .. n + 1
        PROVE  BalanceBefore(ledger'[t][i])
                 = IF i = 1 THEN 0 ELSE ledger'[t][i - 1].balanceAfter
    <3>1. CASE i = n + 1
      BY <2>1, <2>3, <2>5, <2>6, <3>1
    <3>2. CASE i \in 1 .. n
      <4>1. i # 1 => i - 1 \in 1 .. n
        BY <2>5, <3>2
      <4> QED
        BY <2>5, <2>7, <3>2, <4>1
    <3> QED
      BY <2>5, <3>1, <3>2
  <2>9. Total(ledger'[t]) = entry.balanceAfter
    BY <2>2, <2>4, TotalAppend
  <2>10. wallet'[t].version = Len(ledger'[t]) + 1
    BY <2>3, <2>4, <2>5
  <2>11. Replays(wallet'[t], ledger'[t])
    BY <2>4, <2>5, <2>8, <2>9, <2>10 DEF Replays
  <2> QED
    BY <2>4, <2>11 DEF BalanceReplaysLedger
<1> QED
  BY <1>1, <1>2

\* The wallet row is always the replay of its ledger, for any number of concurrent
\* writers of every kind.
THEOREM BalanceSafety == Spec => []BalanceReplaysLedger
<1> QED
  BY InitBalance, StepBalance, TypeCorrect, SnapshotSafety, PTL DEF Spec

(***************************************************************************)
(* WalletLedger implements AtomicLedger, keeps its limits, tells callers   *)
(* what the ledger holds and lets them lose only to others that commit.    *)
(***************************************************************************)

StepOf(c) == Submit(c) \/ Step(c) \/ Fail(c)

\* What is shown above to hold always.
Safe == TypeOK /\ SnapshotsAreCurrent /\ BalanceReplaysLedger

(***************************************************************************)
(* Where a call stands says what it has checked.                           *)
(***************************************************************************)

Standing(c) ==
  /\ pc[c] # "done" => answer[c] = NoAnswer
  /\ pc[c] \in {"lookup", "read", "create", "cas", "recheck"} =>
       req[c].kind \in {"service", "refund"} /\ req[c].amount > 0
  /\ pc[c] \in {"preflight", "precreate"} => req[c].kind \in {"locked", "open"}
  /\ pc[c] = "lockread" => req[c].kind = "locked"
  /\ pc[c] \in {"insert", "committed"} => req[c].amount > 0
  /\ pc[c] \in {"cas", "insert"} => Allowed(req[c], snap[c].balance)

LEMMA InitStanding == Init => \A c \in Calls : Standing(c)
BY DEF Init, Standing

LEMMA LockedAmount ==
  ASSUME TypeOK, NEW c \in Calls, req[c].kind = "locked"
  PROVE  req[c].amount > 0
BY CallTypes, LedgerConstants

\* Of another call everything stays.
LEMMA OthersStand ==
  ASSUME Safe, NEW c \in Calls, StepOf(c), NEW d \in Calls, d # c
  PROVE  /\ pc'[d] = pc[d] /\ snap'[d] = snap[d] /\ req' = req /\ answer'[d] = answer[d]
<1> USE DEF Safe
<1>1. Elsewhere(c)
  BY StepIsLocal DEF StepOf
<1>2. answer'[d] = answer[d]
  <2>1. \A status, before, after : Finish(c, status, before, after) => answer'[d] = answer[d]
    BY DEF Finish, TypeOK
  <2>2. \A status : Throw(c, status) => answer'[d] = answer[d]
    BY <2>1 DEF Throw
  <2>3. ReturnExisting(c) => answer'[d] = answer[d]
    BY <2>1 DEF ReturnExisting
  <2>4. CASE Submit(c) \/ Lookup(c) \/ Recheck(c) \/ Reply(c) \/ Fail(c)
    BY <2>1, <2>2, <2>3, <2>4 DEF Submit, Lookup, Recheck, Reply, Fail
  <2>5. CASE PreflightRead(c) \/ PreflightCreate(c)
    BY <2>1, <2>2, <2>5 DEF PreflightRead, PreflightCreate, AfterPreflight
  <2>6. CASE ReadWallet(c) \/ Cas(c) \/ LockWallet(c)
    BY <2>2, <2>6 DEF ReadWallet, Cas, LockWallet
  <2>7. CASE CreateWallet(c) \/ Insert(c)
    BY <2>2, <2>7 DEF CreateWallet, Insert, UniqueViolation
  <2> QED
    BY <2>4, <2>5, <2>6, <2>7 DEF StepOf, Step
<1> QED
  BY <1>1, <1>2 DEF Elsewhere

LEMMA StepStanding ==
  ASSUME Safe, NEW c \in Calls, StepOf(c), Standing(c)
  PROVE  Standing(c)'
<1> USE DEF Safe
<1>1. ASSUME pc'[c] = "done" PROVE Standing(c)'
  BY <1>1 DEF Standing
<1>2. \A status, before, after : Finish(c, status, before, after) => pc'[c] = "done"
  BY DEF Finish, Goto, TypeOK
<1>3. \A status : Throw(c, status) => pc'[c] = "done"
  BY <1>2 DEF Throw
<1>4. ReturnExisting(c) => pc'[c] = "done"
  BY <1>2 DEF ReturnExisting
<1>5. \A label : Goto(c, label) => pc'[c] = label
  BY DEF Goto, TypeOK
<1>6. req'[c] = req[c] /\ req[c] \in RequestType
  BY CallTypes DEF StepOf, Submit, Step, Lookup, PreflightRead, PreflightCreate, ReadWallet,
     CreateWallet, Cas, LockWallet, Insert, Reply, Recheck, Fail
<1>7. CASE Submit(c)
  <2>1. CASE Rejected(c)
    BY <1>1, <1>3, <1>7, <2>1 DEF Submit
  <2>2. CASE ~Rejected(c)
    <3>1. /\ answer'[c] = NoAnswer
          /\ pc'[c] = CASE req[c].kind = "service" -> "lookup"
                        [] req[c].kind = "refund"  -> "read"
                        [] OTHER                   -> "preflight"
      BY <1>5, <1>7, <2>2 DEF Submit, Standing
    <3>2. req[c].kind \in Kinds /\ req[c].amount \in Int
      BY <1>6 DEF RequestType
    <3> QED
      BY <1>6, <2>2, <3>1, <3>2 DEF Rejected, Kinds, Standing
  <2> QED
    BY <2>1, <2>2
<1>8. CASE Lookup(c) \/ Recheck(c)
  <2>1. pc'[c] = "done" \/ (pc'[c] = "read" /\ pc[c] = "lookup" /\ UNCHANGED answer)
    BY <1>3, <1>4, <1>5, <1>8 DEF Lookup, Recheck
  <2> QED
    BY <1>1, <1>6, <2>1 DEF Standing
<1>9. CASE PreflightRead(c) \/ PreflightCreate(c)
  <2>1. /\ pc[c] \in {"preflight", "precreate"}
        /\ \/ pc'[c] = "done"
           \/ pc'[c] = "precreate" /\ UNCHANGED answer
           \/ pc'[c] = "lockread" /\ UNCHANGED answer /\ req[c].kind # "open"
    BY <1>2, <1>3, <1>5, <1>9 DEF PreflightRead, PreflightCreate, AfterPreflight
  <2> QED
    BY <1>1, <1>6, <2>1 DEF Standing
<1>10. ASSUME UniqueViolation(c), pc[c] \in {"create", "insert"} PROVE Standing(c)'
  <2>1. \/ pc'[c] = "done"
        \/ pc'[c] = "recheck" /\ UNCHANGED answer /\ req[c].kind = "service"
    BY <1>3, <1>5, <1>10 DEF UniqueViolation
  <2> QED
    BY <1>1, <1>6, <1>10, <2>1 DEF Standing
<1>11. CASE ReadWallet(c)
  <2>1. /\ pc[c] = "read" /\ snap'[c] = wallet[Tenant(c)]
        /\ \/ pc'[c] = "done"
           \/ pc'[c] = "create" /\ UNCHANGED answer
           \/ /\ pc'[c] = "cas" /\ UNCHANGED answer
              /\ Allowed(req[c], wallet[Tenant(c)].balance)
    BY <1>3, <1>5, <1>11 DEF ReadWallet, TypeOK
  <2> QED
    BY <1>1, <1>6, <2>1 DEF Standing
<1>12. CASE CreateWallet(c)
  <2>1. CASE wallet[Tenant(c)].exists
    BY <1>10, <1>12, <2>1 DEF CreateWallet
  <2>2. CASE ~wallet[Tenant(c)].exists
    <3>1. /\ pc[c] = "create" /\ snap'[c] = FreshWallet
          /\ \/ pc'[c] = "done"
             \/ /\ pc'[c] = "cas" /\ UNCHANGED answer
                /\ Allowed(req[c], FreshWallet.balance)
      BY <1>3, <1>5, <1>12, <2>2 DEF CreateWallet, TypeOK
    <3> QED
      BY <1>1, <1>6, <3>1 DEF Standing
  <2> QED
    BY <2>1, <2>2
<1>13. CASE Cas(c)
  <2>1. /\ pc[c] = "cas" /\ UNCHANGED snap
        /\ \/ pc'[c] = "done"
           \/ pc'[c] = "insert" /\ UNCHANGED answer
           \/ pc'[c] = "lookup" /\ UNCHANGED answer
    BY <1>3, <1>5, <1>13 DEF Cas
  <2> QED
    BY <1>1, <1>6, <2>1 DEF Standing
<1>14. CASE LockWallet(c)
  <2>1. /\ pc[c] = "lockread" /\ snap'[c] = wallet[Tenant(c)]
        /\ \/ pc'[c] = "done"
           \/ /\ pc'[c] = "insert" /\ UNCHANGED answer
              /\ Allowed(req[c], wallet[Tenant(c)].balance)
    BY <1>3, <1>5, <1>14 DEF LockWallet, TypeOK
  <2> QED
    BY <1>1, <1>6, <2>1, LockedAmount DEF Standing
<1>15. CASE Insert(c)
  <2>1. CASE ReferenceTaken(c)
    BY <1>10, <1>15, <2>1 DEF Insert
  <2>2. CASE ~ReferenceTaken(c)
    <3>1. pc[c] = "insert" /\ pc'[c] = "committed" /\ UNCHANGED answer
      BY <1>5, <1>15, <2>2 DEF Insert
    <3> QED
      BY <1>6, <3>1 DEF Standing
  <2> QED
    BY <2>1, <2>2
<1>16. CASE Reply(c) \/ Fail(c)
  BY <1>1, <1>2, <1>3, <1>16 DEF Reply, Fail
<1> QED
  BY <1>7, <1>8, <1>9, <1>11, <1>12, <1>13, <1>14, <1>15, <1>16 DEF StepOf, Step

(***************************************************************************)
(* What a step of a call is for the book and the caller.                   *)
(***************************************************************************)

Ended == {"committed", "done"}

\* It goes on, with nothing booked and nothing answered.
Moves(c) ==
  ledger' = ledger /\ answer' = answer /\ pc[c] \notin Ended /\ pc'[c] \notin Ended

\* It is refused, or fails.
Ends(c) ==
  /\ ledger' = ledger /\ pc[c] # "done"
  /\ \E status \in {"refused", "conflict", "opened", "failed"} :
       /\ Finish(c, status, 0, 0)
       /\ status # "failed" => pc[c] # "committed"

\* It finds an entry under its reference.
Repeats(c) == ledger' = ledger /\ pc[c] \notin Ended /\ ReturnExisting(c)

\* It commits.
Posts(c) == Insert(c) /\ Existing(c) = {}

LEMMA Outcome ==
  ASSUME Safe, NEW c \in Calls, StepOf(c)
  PROVE  req' = req /\ (Moves(c) \/ Ends(c) \/ Repeats(c) \/ Reply(c) \/ Posts(c))
<1> USE DEF Safe
<1>0. req' = req
  BY DEF StepOf, Submit, Step, Lookup, PreflightRead, PreflightCreate, ReadWallet,
     CreateWallet, Cas, LockWallet, Insert, Reply, Recheck, Fail
<1>1. ASSUME NEW label \in PCs \ Ended, Goto(c, label), UNCHANGED <<ledger, answer>>,
             pc[c] \notin Ended
      PROVE  Moves(c)
  BY <1>1 DEF Goto, TypeOK, Moves
<1>2. ASSUME NEW status \in {"refused", "conflict", "failed"}, Throw(c, status),
             UNCHANGED ledger, pc[c] \notin Ended
      PROVE  Ends(c)
  BY <1>2 DEF Throw, Ends, Ended
<1>3. ASSUME AfterPreflight(c), UNCHANGED ledger, pc[c] \notin Ended
      PROVE  Moves(c) \/ Ends(c)
  <2>1. CASE req[c].kind = "open"
    BY <1>3, <2>1 DEF AfterPreflight, Ends, Ended
  <2>2. CASE req[c].kind # "open"
    BY <1>1, <1>3, <2>2 DEF AfterPreflight, PCs, Ended
  <2> QED
    BY <2>1, <2>2
<1>4. ASSUME UniqueViolation(c), UNCHANGED ledger, pc[c] \notin Ended
      PROVE  Moves(c) \/ Ends(c)
  BY <1>1, <1>2, <1>4 DEF UniqueViolation, PCs, Ended
<1>5. CASE Submit(c)
  <2>1. CASE Rejected(c)
    BY <1>2, <1>5, <2>1 DEF Submit, Ended
  <2>2. CASE ~Rejected(c)
    <3>1. \E label \in PCs \ Ended : Goto(c, label)
      BY <1>5, <2>2 DEF Submit, PCs, Ended
    <3> QED
      BY <1>1, <1>5, <2>2, <3>1 DEF Submit, Ended
  <2> QED
    BY <1>0, <2>1, <2>2
<1>6. CASE Lookup(c) \/ Recheck(c)
  <2>1. /\ pc[c] \notin Ended /\ ledger' = ledger
        /\ \/ ReturnExisting(c) \/ Throw(c, "failed")
           \/ Goto(c, "read") /\ UNCHANGED answer
    BY <1>6 DEF Lookup, Recheck, Ended
  <2> QED
    BY <1>0, <1>1, <1>2, <2>1 DEF Repeats, PCs, Ended
<1>7. CASE PreflightRead(c) \/ PreflightCreate(c)
  <2>1. /\ pc[c] \notin Ended /\ ledger' = ledger
        /\ \/ AfterPreflight(c) \/ Throw(c, "failed")
           \/ Goto(c, "precreate") /\ UNCHANGED answer
    BY <1>7 DEF PreflightRead, PreflightCreate, Ended
  <2> QED
    BY <1>0, <1>1, <1>2, <1>3, <2>1 DEF PCs, Ended
<1>8. CASE ReadWallet(c) \/ LockWallet(c)
  <2>1. /\ pc[c] \notin Ended /\ ledger' = ledger
        /\ \/ Throw(c, "refused")
           \/ \E label \in {"cas", "create", "insert"} : Goto(c, label) /\ UNCHANGED answer
    BY <1>8 DEF ReadWallet, LockWallet, Ended
  <2> QED
    BY <1>0, <1>1, <1>2, <2>1 DEF PCs, Ended
<1>9. CASE CreateWallet(c)
  <2>1. /\ pc[c] \notin Ended /\ ledger' = ledger
        /\ \/ UniqueViolation(c) \/ Throw(c, "refused")
           \/ Goto(c, "cas") /\ UNCHANGED answer
    BY <1>9 DEF CreateWallet, Ended
  <2> QED
    BY <1>0, <1>1, <1>2, <1>4, <2>1 DEF PCs, Ended
<1>10. CASE Cas(c)
  <2>1. /\ pc[c] \notin Ended /\ ledger' = ledger
        /\ \/ Throw(c, "conflict") \/ Throw(c, "failed")
           \/ \E label \in {"insert", "lookup"} : Goto(c, label) /\ UNCHANGED answer
    BY <1>10 DEF Cas, Ended
  <2> QED
    BY <1>0, <1>1, <1>2, <2>1 DEF PCs, Ended
<1>11. CASE Insert(c)
  <2>1. CASE Existing(c) = {}
    BY <1>0, <1>11, <2>1 DEF Posts
  <2>2. CASE Existing(c) # {}
    BY <1>0, <1>4, <1>11, <2>2 DEF Insert, ReferenceTaken, Ended
  <2> QED
    BY <2>1, <2>2
<1>12. CASE Reply(c)
  BY <1>0, <1>12
<1>13. CASE Fail(c)
  BY <1>0, <1>13 DEF Fail, Throw, Ends
<1> QED
  BY <1>5, <1>6, <1>7, <1>8, <1>9, <1>10, <1>11, <1>12, <1>13 DEF StepOf, Step

\* A commit appends the call's entry to the book as it stands.
LEMMA PostEffect ==
  ASSUME Safe, NEW c \in Calls, Posts(c)
  PROVE  LET t == Tenant(c)
             e == EntryOf(c, req[c], Total(ledger[t]))
         IN  /\ t \in Tenants /\ ledger[t] \in Seq(Entries) /\ e \in Entries
             /\ ledger' = [ledger EXCEPT ![t] = Append(ledger[t], e)]
             /\ ledger'[t] = Append(ledger[t], e)
             /\ \A u \in Tenants \ {t} : ledger'[u] = ledger[u]
             /\ snap' = snap /\ snap[c].balance = Total(ledger[t])
             /\ answer' = answer /\ pc[c] = "insert" /\ pc'[c] = "committed"
<1> USE DEF Safe
<1> DEFINE t == Tenant(c)
<1>1. t \in Tenants /\ ledger[t] \in Seq(Entries) /\ wallet[t] \in Rows
  BY CallTypes
<1>2. snap[c] = IF wallet[t].exists THEN wallet[t] ELSE FreshWallet
  BY DEF Posts, Insert, SnapshotsAreCurrent, SnapshotIsCurrent
<1>3. snap[c].balance = Total(ledger[t])
  BY <1>1, <1>2 DEF BalanceReplaysLedger, Replays, FreshWallet, Total
<1>4. EntryOf(c, req[c], Total(ledger[t])) \in Entries
  BY <1>3, CallTypes
<1>5. /\ ledger' = [ledger EXCEPT ![t] = Append(ledger[t], EntryOf(c, req[c], Total(ledger[t])))]
      /\ snap' = snap /\ answer' = answer /\ pc[c] = "insert" /\ pc'[c] = "committed"
  BY <1>3 DEF Posts, Insert, ReferenceTaken, Goto, TypeOK
<1> QED
  BY <1>1, <1>3, <1>4, <1>5 DEF TypeOK

\* What is in a book after a commit.
LEMMA BookAfter ==
  ASSUME NEW book \in Seq(Entries), NEW e \in Entries, NEW ref, NEW d
  PROVE  /\ EntriesFor(Append(book, e), ref) =
              EntriesFor(book, ref) \cup (IF e.ref = ref THEN {e} ELSE {})
         /\ PostedBy(Append(book, e), d) <=> PostedBy(book, d) \/ e.by = d
<1> PICK n : n = Len(book)
  OBVIOUS
<1> PICK b : b = Append(book, e)
  OBVIOUS
<1>1. /\ n \in Nat /\ DOMAIN b = 1 .. n + 1 /\ DOMAIN book = 1 .. n
      /\ \A i \in 1 .. n : b[i] = book[i]
      /\ b[n + 1] = e
  OBVIOUS
<1>2. EntriesFor(b, ref) = EntriesFor(book, ref) \cup (IF e.ref = ref THEN {e} ELSE {})
  BY <1>1 DEF EntriesFor
<1>3. PostedBy(b, d) <=> PostedBy(book, d) \/ e.by = d
  BY <1>1 DEF PostedBy
<1> QED
  BY <1>2, <1>3

LEMMA EntriesStay ==
  ASSUME NEW book \in Seq(Entries), NEW e \in Entries, NEW ref
  PROVE  EntriesFor(book, ref) \subseteq EntriesFor(Append(book, e), ref)
<1>1. EntriesFor(Append(book, e), ref) =
        EntriesFor(book, ref) \cup (IF e.ref = ref THEN {e} ELSE {})
  BY BookAfter, Zenon
<1> QED
  BY <1>1

(***************************************************************************)
(* Answers.                                                                *)
(***************************************************************************)

AnswerMatches(c) ==
  /\ answer[c].status \in {"ok", "duplicate"} =>
       \E e \in Existing(c) :
         /\ answer[c].before = BalanceBefore(e) /\ answer[c].after = e.balanceAfter
         /\ (answer[c].status = "ok") = (e.by = c)
  /\ answer[c].status \in {"refused", "conflict", "opened"} =>
       ~PostedBy(ledger[Tenant(c)], c)

\* Before its commit a call has booked nothing; between commit and reply its entry is
\* there.
Bookings(c) ==
  /\ pc[c] \notin Ended => ~PostedBy(ledger[Tenant(c)], c)
  /\ pc[c] = "committed" => EntryOf(c, req[c], snap[c].balance) \in Existing(c)
  /\ AnswerMatches(c)

AnswerInv == Safe /\ \A c \in Calls : Standing(c) /\ Bookings(c)

\* An entry's own balance before it.
LEMMA EntryOfBefore ==
  ASSUME TypeOK, NEW c \in Calls
  PROVE  LET e == EntryOf(c, req[c], snap[c].balance)
         IN  BalanceBefore(e) = snap[c].balance /\ e.by = c /\ e.ref = Ref(c)
<1>1. Signed(req[c].type, req[c].amount) \in Int /\ snap[c].balance \in Int
  BY CallTypes, SignedInt DEF RequestType
<1> QED
  BY <1>1 DEF BalanceBefore, EntryOf, Ref

LEMMA InitBookings == Init => \A c \in Calls : Bookings(c)
<1> SUFFICES ASSUME Init, NEW c \in Calls PROVE Bookings(c)
  OBVIOUS
<1>1. TypeOK
  BY InitTypeOK
<1>2. PICK b : ledger[Tenant(c)] = OpeningBook(b)
  <2>1. PICK open : ledger = [t \in Tenants |-> OpeningBook(open[t])]
    BY DEF Init
  <2>2. Tenant(c) \in Tenants
    BY <1>1, CallTypes
  <2>3. ledger[Tenant(c)] = OpeningBook(open[Tenant(c)])
    BY <2>1, <2>2
  <2> QED
    BY <2>3
<1>3. ~PostedBy(ledger[Tenant(c)], c)
  <2>1. CASE b = 0
    BY <1>2, <2>1 DEF OpeningBook, PostedBy
  <2>2. CASE b # 0
    <3> PICK e : e = [type |-> "CREDIT", amount |-> b, balanceAfter |-> b,
                      ref |-> OpeningRef, by |-> NoCall]
      OBVIOUS
    <3>1. ledger[Tenant(c)] = << e >> /\ e.by = NoCall
      BY <1>2, <2>2 DEF OpeningBook
    <3> QED
      BY <3>1, LedgerConstants DEF PostedBy
  <2> QED
    BY <2>1, <2>2
<1>4. pc[c] = "idle" /\ answer[c].status = "none"
  BY DEF Init, NoAnswer
<1> QED
  BY <1>3, <1>4 DEF Bookings, AnswerMatches

\* Of another call, whatever is booked, the bookings stay.
LEMMA OthersBookings ==
  ASSUME AnswerInv, NEW c \in Calls, StepOf(c), NEW d \in Calls, d # c
  PROVE  Bookings(d)'
<1> USE DEF AnswerInv
<1>1. /\ pc'[d] = pc[d] /\ snap'[d] = snap[d] /\ answer'[d] = answer[d]
      /\ req'[d] = req[d] /\ Tenant(d)' = Tenant(d) /\ Ref(d)' = Ref(d)
  BY OthersStand DEF Tenant, Ref
<1>2. /\ Existing(d) \subseteq Existing(d)'
      /\ PostedBy(ledger'[Tenant(d)], d) <=> PostedBy(ledger[Tenant(d)], d)
  <2>1. CASE ledger'[Tenant(d)] = ledger[Tenant(d)]
    BY <1>1, <2>1 DEF Existing
  <2>2. CASE Posts(c) /\ Tenant(d) = Tenant(c)
    <3>1. PICK e \in Entries : /\ ledger'[Tenant(c)] = Append(ledger[Tenant(c)], e)
                               /\ e.by = c /\ ledger[Tenant(c)] \in Seq(Entries)
      BY <2>2, PostEffect DEF EntryOf
    <3>2. /\ EntriesFor(ledger[Tenant(c)], Ref(d)) \subseteq
               EntriesFor(ledger'[Tenant(c)], Ref(d))
          /\ PostedBy(ledger'[Tenant(c)], d) <=> PostedBy(ledger[Tenant(c)], d)
      <4> PICK book : book = ledger[Tenant(c)]
        OBVIOUS
      <4> PICK ref : ref = Ref(d)
        OBVIOUS
      <4>1. book \in Seq(Entries) /\ e.by = c
        BY <3>1
      <4>2. EntriesFor(book, ref) \subseteq EntriesFor(Append(book, e), ref)
        BY <4>1, EntriesStay
      <4>3. PostedBy(Append(book, e), d) <=> PostedBy(book, d)
        <5>1. PostedBy(Append(book, e), d) <=> PostedBy(book, d) \/ e.by = d
          BY <4>1, BookAfter
        <5> QED
          BY <4>1, <5>1
      <4> QED
        BY <3>1, <4>2, <4>3, Zenon
    <3>3. Existing(d)' = EntriesFor(ledger'[Tenant(d)], Ref(d))
      BY <1>1 DEF Existing
    <3> QED
      BY <2>2, <3>2, <3>3 DEF Existing
  <2>3. CASE Posts(c) /\ Tenant(d) # Tenant(c)
    <3>1. Tenant(d) \in Tenants
      BY CallTypes DEF Safe
    <3> QED
      BY <2>1, <2>3, <3>1, PostEffect
  <2>4. CASE ledger' = ledger
    BY <2>1, <2>4
  <2> QED
    BY <2>2, <2>3, <2>4, Outcome DEF Moves, Ends, Repeats, Reply
<1>3. Bookings(d)
  OBVIOUS
<1> QED
  BY <1>1, <1>2, <1>3 DEF Bookings, AnswerMatches

LEMMA StepBookings ==
  ASSUME AnswerInv, NEW c \in Calls, StepOf(c)
  PROVE  Bookings(c)'
<1> USE DEF AnswerInv, Safe
<1>0. /\ req' = req /\ Tenant(c)' = Tenant(c) /\ Ref(c)' = Ref(c)
      /\ Bookings(c) /\ Standing(c)
  BY Outcome DEF Tenant, Ref
<1>1. ASSUME ledger' = ledger
      PROVE  Existing(c)' = Existing(c) /\ ledger'[Tenant(c)'] = ledger[Tenant(c)]
  BY <1>0, <1>1 DEF Existing
<1>2. ASSUME NEW status, NEW before, NEW after, Finish(c, status, before, after)
      PROVE  /\ pc'[c] = "done" /\ answer'[c].status = status
             /\ answer'[c].before = before /\ answer'[c].after = after
  BY <1>2 DEF Finish, Goto, TypeOK
<1>3. CASE Moves(c)
  BY <1>0, <1>1, <1>3 DEF Moves, Bookings, AnswerMatches, Ended
<1>4. CASE Ends(c)
  <2>1. PICK status \in {"refused", "conflict", "opened", "failed"} :
          Finish(c, status, 0, 0) /\ (status # "failed" => pc[c] # "committed")
    BY <1>4 DEF Ends
  <2>2. pc'[c] = "done" /\ answer'[c].status = status
    BY <1>2, <2>1
  <2>3. status # "failed" => ~PostedBy(ledger[Tenant(c)], c)
    BY <1>0, <1>4, <2>1 DEF Ends, Bookings, Ended
  <2> QED
    BY <1>1, <1>4, <2>2, <2>3 DEF Ends, Bookings, AnswerMatches, Ended
<1>5. CASE Repeats(c)
  <2>1. PICK e \in Existing(c) : Finish(c, "duplicate", PriorBalance(e), e.balanceAfter)
    BY <1>5 DEF Repeats, ReturnExisting
  <2>2. PriorBalance(e) = BalanceBefore(e) /\ e.by # c
    <3>1. ledger[Tenant(c)] \in Seq(Entries)
      BY CallTypes
    <3>2. \E i \in DOMAIN ledger[Tenant(c)] : e = ledger[Tenant(c)][i]
      BY DEF Existing, EntriesFor
    <3> QED
      BY <1>0, <1>5, <3>1, <3>2, EntriesForType DEF Existing, Repeats, Bookings, PostedBy
  <2>3. /\ pc'[c] = "done" /\ answer'[c].status = "duplicate"
        /\ answer'[c].before = BalanceBefore(e) /\ answer'[c].after = e.balanceAfter
    BY <1>2, <2>1, <2>2
  <2> QED
    BY <1>1, <1>5, <2>2, <2>3 DEF Repeats, Bookings, AnswerMatches, Ended
<1>6. CASE Reply(c)
  <2> PICK e : e = EntryOf(c, req[c], snap[c].balance)
    OBVIOUS
  <2>1. /\ ledger' = ledger /\ pc'[c] = "done" /\ answer'[c].status = "ok"
        /\ answer'[c].before = snap[c].balance /\ answer'[c].after = e.balanceAfter
    BY <1>2, <1>6 DEF Reply
  <2>2. e \in Existing(c) /\ e.by = c /\ BalanceBefore(e) = snap[c].balance
    BY <1>0, <1>6, EntryOfBefore DEF Reply, Bookings
  <2> QED
    BY <1>1, <2>1, <2>2 DEF Bookings, AnswerMatches, Ended
<1>7. CASE Posts(c)
  <2> PICK e : e = EntryOf(c, req[c], snap[c].balance)
    OBVIOUS
  <2>1. /\ e \in Entries /\ ledger[Tenant(c)] \in Seq(Entries)
        /\ ledger'[Tenant(c)] = Append(ledger[Tenant(c)], e)
        /\ snap' = snap /\ answer' = answer /\ pc[c] = "insert" /\ pc'[c] = "committed"
    BY <1>7, PostEffect
  <2>2. e.ref = Ref(c)
    BY EntryOfBefore
  <2>3. e \in Existing(c)'
    <3>1. e \in EntriesFor(ledger'[Tenant(c)], Ref(c))
      <4> PICK book : book = ledger[Tenant(c)]
        OBVIOUS
      <4>1. EntriesFor(Append(book, e), e.ref) =
              EntriesFor(book, e.ref) \cup (IF e.ref = e.ref THEN {e} ELSE {})
        BY <2>1, BookAfter, Zenon
      <4>2. e \in EntriesFor(Append(book, e), e.ref)
        BY <4>1
      <4> QED
        BY <2>1, <2>2, <4>2, Zenon
    <3> QED
      BY <1>0, <3>1 DEF Existing
  <2>4. EntryOf(c, req[c], snap[c].balance)' = e
    BY <1>0, <2>1
  <2>5. answer'[c].status = "none"
    BY <1>0, <2>1 DEF Standing, NoAnswer
  <2> QED
    BY <2>1, <2>3, <2>4, <2>5 DEF Bookings, AnswerMatches, Ended
<1> QED
  BY <1>3, <1>4, <1>5, <1>6, <1>7, Outcome

LEMMA StepSafe == Safe /\ [Next]_vars => Safe'
BY StepTypeOK, StepSnapshots, StepBalance DEF Safe

LEMMA StepAnswers == AnswerInv /\ [Next]_vars => AnswerInv'
<1>1. ASSUME AnswerInv, UNCHANGED vars PROVE AnswerInv'
  <2>1. Safe'
    BY <1>1, StepSafe DEF AnswerInv
  <2> QED
    BY <1>1, <2>1 DEF AnswerInv, vars, Standing, Bookings, AnswerMatches, Existing, Tenant, Ref
<1>2. ASSUME AnswerInv, NEW c \in Calls, StepOf(c) PROVE AnswerInv'
  <2>1. Safe' /\ req' = req
    BY <1>2, StepSafe, Outcome DEF AnswerInv, Next, StepOf
  <2>2. ASSUME NEW d \in Calls PROVE Standing(d)' /\ Bookings(d)'
    <3>1. CASE d = c
      BY <1>2, <3>1, StepStanding, StepBookings DEF AnswerInv
    <3>2. CASE d # c
      <4>1. Standing(d)'
        BY <1>2, <3>2, OthersStand DEF AnswerInv, Standing
      <4> QED
        BY <1>2, <3>2, <4>1, OthersBookings
    <3> QED
      BY <3>1, <3>2
  <2> QED
    BY <2>1, <2>2 DEF AnswerInv
<1> QED
  BY <1>1, <1>2 DEF Next, StepOf

LEMMA InitAnswers == Init => AnswerInv
BY InitTypeOK, InitSnapshots, InitBalance, InitStanding, InitBookings DEF AnswerInv, Safe

LEMMA AnswersHold == Spec => []AnswerInv
BY InitAnswers, StepAnswers, PTL DEF Spec

\* creditBalance, debitBalance, processRefundCredit and the subscription charge: what a
\* caller is told, the first time or again, is what the ledger holds.
THEOREM AnswerSafety == Spec => []AnswersMatchLedger
<1>1. AnswerInv => AnswersMatchLedger
  BY DEF AnswerInv, Bookings, AnswerMatches, AnswersMatchLedger
<1> QED
  BY <1>1, AnswersHold, PTL

(***************************************************************************)
(* Limits.                                                                 *)
(***************************************************************************)

WithinLimits(e) ==
  /\ e.amount > 0
  /\ e.balanceAfter >= MinBalance
  /\ e.type = "CREDIT" /\ e.by \in Calls /\ req[e.by].kind # "locked" =>
       e.balanceAfter <= MaxBalance

LEMMA InitLimits == Init => BalanceWithinLimits
<1> SUFFICES ASSUME Init, NEW t \in Tenants, NEW i \in DOMAIN ledger[t]
             PROVE  WithinLimits(ledger[t][i])
  BY DEF BalanceWithinLimits, WithinLimits
<1>1. PICK b \in OpeningBalances : ledger[t] = OpeningBook(b)
  BY DEF Init
<1>2. b \in Int /\ b >= 0
  BY LedgerConstants
<1>3. CASE b = 0
  BY <1>1, <1>3 DEF OpeningBook
<1>4. CASE b # 0
  <2> PICK e : e = [type |-> "CREDIT", amount |-> b, balanceAfter |-> b,
                    ref |-> OpeningRef, by |-> NoCall]
    OBVIOUS
  <2>1. ledger[t] = << e >>
    BY <1>1, <1>4 DEF OpeningBook
  <2>2. ledger[t][i] = e
    BY <2>1
  <2>3. e.amount = b /\ e.balanceAfter = b /\ e.by = NoCall
    OBVIOUS
  <2> QED
    BY <1>2, <1>4, <2>2, <2>3, LedgerConstants DEF WithinLimits
<1> QED
  BY <1>3, <1>4

\* No book is below the limit, so no credit leaves one there.
LEMMA TotalAboveMin ==
  ASSUME TypeOK, BalanceWithinLimits, NEW t \in Tenants
  PROVE  Total(ledger[t]) \in Int /\ Total(ledger[t]) >= MinBalance
<1>1. ledger[t] \in Seq(Entries)
  BY DEF TypeOK
<1>2. CASE ledger[t] = << >>
  BY <1>2, LedgerConstants DEF Total
<1>3. CASE ledger[t] # << >>
  <2>1. Len(ledger[t]) \in DOMAIN ledger[t]
    BY <1>1, <1>3
  <2> QED
    BY <1>1, <1>3, <2>1, TotalType DEF BalanceWithinLimits, Total
<1> QED
  BY <1>2, <1>3

LEMMA PostedWithinLimits ==
  ASSUME AnswerInv, BalanceWithinLimits, NEW c \in Calls, Posts(c)
  PROVE  WithinLimits(EntryOf(c, req[c], Total(ledger[Tenant(c)])))
<1> PICK total : total = Total(ledger[Tenant(c)])
  OBVIOUS
<1> PICK r : r = req[c]
  OBVIOUS
<1>1. total \in Int /\ total >= MinBalance
  BY TotalAboveMin, CallTypes DEF AnswerInv, Safe
<1>2. pc[c] = "insert" /\ snap[c].balance = total
  BY PostEffect DEF AnswerInv
<1>3. r.amount > 0 /\ Allowed(r, total)
  BY <1>2 DEF AnswerInv, Standing
<1>4. r.type \in {"CREDIT", "DEBIT"} /\ r.amount \in Int
  BY CallTypes DEF AnswerInv, Safe, RequestType
<1> PICK new : new = total + Signed(r.type, r.amount)
  OBVIOUS
<1> PICK e : e = EntryOf(c, r, total)
  OBVIOUS
<1>5. e.amount = r.amount /\ e.type = r.type /\ e.by = c /\ e.balanceAfter = new
  BY DEF EntryOf
<1>6. new >= MinBalance
  BY <1>1, <1>3, <1>4, LedgerConstants DEF Allowed, Signed
<1>7. r.type = "CREDIT" /\ r.kind # "locked" => new <= MaxBalance
  BY <1>3 DEF Allowed
<1>8. WithinLimits(e)
  BY <1>3, <1>5, <1>6, <1>7 DEF WithinLimits
<1> QED
  BY <1>8

LEMMA StepLimits == AnswerInv /\ BalanceWithinLimits /\ [Next]_vars => BalanceWithinLimits'
<1> SUFFICES ASSUME AnswerInv, BalanceWithinLimits, [Next]_vars
             PROVE  BalanceWithinLimits'
  OBVIOUS
<1>1. CASE UNCHANGED <<ledger, req>>
  BY <1>1 DEF BalanceWithinLimits
<1>2. ASSUME NEW c \in Calls, StepOf(c), Posts(c) PROVE BalanceWithinLimits'
  <2> PICK t : t = Tenant(c)
    OBVIOUS
  <2> PICK e : e = EntryOf(c, req[c], Total(ledger[t]))
    OBVIOUS
  <2>1. /\ t \in Tenants /\ ledger[t] \in Seq(Entries) /\ e \in Entries
        /\ ledger'[t] = Append(ledger[t], e)
        /\ \A u \in Tenants \ {t} : ledger'[u] = ledger[u]
    BY <1>2, PostEffect DEF AnswerInv
  <2>2. req' = req
    BY <1>2, Outcome DEF AnswerInv
  <2>3. WithinLimits(e)
    BY <1>2, PostedWithinLimits
  <2>4. ASSUME NEW i \in DOMAIN ledger'[t] PROVE WithinLimits(ledger'[t][i])
    <3>1. CASE i \in DOMAIN ledger[t]
      <4>1. ledger'[t][i] = ledger[t][i]
        BY <2>1, <3>1
      <4> QED
        BY <2>1, <3>1, <4>1 DEF BalanceWithinLimits, WithinLimits
    <3>2. CASE i \notin DOMAIN ledger[t]
      <4>1. ledger'[t][i] = e
        BY <2>1, <2>4, <3>2
      <4> QED
        BY <2>3, <4>1
    <3> QED
      BY <3>1, <3>2
  <2>5. ASSUME NEW u \in Tenants \ {t}, NEW i \in DOMAIN ledger'[u]
        PROVE  WithinLimits(ledger'[u][i])
    BY <2>1, <2>5 DEF BalanceWithinLimits, WithinLimits
  <2> QED
    BY <2>1, <2>2, <2>4, <2>5 DEF BalanceWithinLimits, WithinLimits
<1>3. ASSUME NEW c \in Calls, StepOf(c), ~Posts(c) PROVE BalanceWithinLimits'
  BY <1>1, <1>3, Outcome DEF AnswerInv, Moves, Ends, Repeats, Reply
<1> QED
  BY <1>1, <1>2, <1>3 DEF Next, StepOf, vars

\* LEDGER_CONFIG.maxOverdraft and maxBalance: whatever was written since a call's check,
\* no debit leaves a wallet below the one and no compare-and-set credit above the other.
THEOREM LimitSafety == Spec => []BalanceWithinLimits
BY InitLimits, StepLimits, AnswersHold, PTL DEF Spec

(***************************************************************************)
(* Refinement.                                                             *)
(***************************************************************************)

\* The abstract ledger speaks of the same books, entries and limits.
LEMMA SameData ==
  /\ \A b : Atomic!OpeningBook(b) = OpeningBook(b)
  /\ Atomic!NoAnswer = NoAnswer /\ Atomic!Answers = Answers
  /\ \A b : Atomic!Total(b) = Total(b)
  /\ \A b, ref : Atomic!EntriesFor(b, ref) = EntriesFor(b, ref)
  /\ \A b, c : Atomic!PostedBy(b, c) = PostedBy(b, c)
  /\ \A c, r : Atomic!RefOf(c, r) = RefOf(c, r)
  /\ \A r, b : Atomic!Allowed(r, b) = Allowed(r, b)
  /\ \A c, r, b : Atomic!EntryOf(c, r, b) = EntryOf(c, r, b)
  /\ \A e : Atomic!BalanceBefore(e) = BalanceBefore(e)
<1>1. \A b : Atomic!OpeningBook(b) = OpeningBook(b)
  BY DEF Atomic!OpeningBook, OpeningBook
<1>2. Atomic!NoAnswer = NoAnswer /\ Atomic!Answers = Answers
  BY DEF Atomic!NoAnswer, NoAnswer, Atomic!Answers, Answers, Atomic!Statuses, Statuses
<1>3. \A b : Atomic!Total(b) = Total(b)
  BY DEF Atomic!Total, Total
<1>4. \A b, ref : Atomic!EntriesFor(b, ref) = EntriesFor(b, ref)
  BY DEF Atomic!EntriesFor, EntriesFor
<1>5. \A b, c : Atomic!PostedBy(b, c) = PostedBy(b, c)
  BY DEF Atomic!PostedBy, PostedBy
<1>6. \A c, r : Atomic!RefOf(c, r) = RefOf(c, r)
  BY DEF Atomic!RefOf, RefOf
<1>7. \A type, amount : Atomic!Signed(type, amount) = Signed(type, amount)
  BY DEF Atomic!Signed, Signed
<1>8. \A r, b : Atomic!Allowed(r, b) = Allowed(r, b)
  BY <1>7 DEF Atomic!Allowed, Allowed
<1>9. \A c, r, b : Atomic!EntryOf(c, r, b) = EntryOf(c, r, b)
  BY <1>6, <1>7 DEF Atomic!EntryOf, EntryOf
<1>10. \A e : Atomic!BalanceBefore(e) = BalanceBefore(e)
  BY <1>7 DEF Atomic!BalanceBefore, BalanceBefore
<1> QED
  BY <1>1, <1>2, <1>3, <1>4, <1>5, <1>6, <1>8, <1>9, <1>10

LEMMA InitRefines == Init => Atomic!Init
BY SameData DEF Init, Atomic!Init

\* A call that ends as the book allows answers in the abstract ledger.
LEMMA FinishRefines ==
  ASSUME Safe, NEW c \in Calls, ledger' = ledger, req' = req, answer[c] = NoAnswer,
         NEW status \in Statuses \ {"none"}, NEW before \in Int, NEW after \in Int,
         Finish(c, status, before, after),
         status \in {"ok", "duplicate"} =>
           \E e \in Existing(c) : /\ before = BalanceBefore(e) /\ after = e.balanceAfter
                                  /\ status = "ok" => e.by = c,
         status \notin {"ok", "failed"} => ~PostedBy(ledger[Tenant(c)], c)
  PROVE  Atomic!Answer(c)
<1> PICK a : a = [status |-> status, before |-> before, after |-> after]
  OBVIOUS
<1>1. a.status = status /\ a.before = before /\ a.after = after /\ a \in Answers
  BY DEF Answers
<1>2. answer' = [answer EXCEPT ![c] = a] /\ answer'[c] = a
  BY DEF Finish, Safe, TypeOK
<1>3. Atomic!EntriesFor(ledger[req[c].tenant], Atomic!RefOf(c, req[c])) = Existing(c)
  BY SameData DEF Existing, Tenant, Ref
<1>4. Atomic!PostedBy(ledger[req[c].tenant], c) = PostedBy(ledger[Tenant(c)], c)
  BY SameData DEF Tenant
<1>5. a.status \in {"ok", "duplicate"} =>
        \E e \in Atomic!EntriesFor(ledger[req[c].tenant], Atomic!RefOf(c, req[c])) :
          /\ a.before = Atomic!BalanceBefore(e) /\ a.after = e.balanceAfter
          /\ a.status = "ok" => e.by = c
  BY <1>1, <1>3, SameData
<1>6. a.status \notin {"ok", "failed"} => ~Atomic!PostedBy(ledger[req[c].tenant], c)
  BY <1>1, <1>4
<1>7. answer[c] = Atomic!NoAnswer /\ a \in Atomic!Answers
  BY <1>1, SameData
<1> QED
  BY <1>1, <1>2, <1>5, <1>6, <1>7 DEF Atomic!Answer

\* A commit posts in the abstract ledger.
LEMMA PostRefines ==
  ASSUME AnswerInv, NEW c \in Calls, Posts(c), req' = req
  PROVE  Atomic!Post(c)
<1> PICK t : t = Tenant(c)
  OBVIOUS
<1> PICK e : e = EntryOf(c, req[c], Total(ledger[t]))
  OBVIOUS
<1>1. /\ ledger' = [ledger EXCEPT ![t] = Append(ledger[t], e)]
      /\ snap[c].balance = Total(ledger[t])
      /\ answer' = answer /\ pc[c] = "insert"
  BY PostEffect DEF AnswerInv
<1>2. answer[c] = NoAnswer /\ req[c].amount > 0 /\ Allowed(req[c], Total(ledger[t]))
  BY <1>1 DEF AnswerInv, Standing
<1>3. ~PostedBy(ledger[t], c)
  BY <1>1 DEF AnswerInv, Bookings, Ended
<1>4. EntriesFor(ledger[t], RefOf(c, req[c])) = {}
  BY DEF Posts, Existing, Ref
<1>5. t = req[c].tenant
  BY DEF Tenant
<1>6. ledger' = [ledger EXCEPT ![t] =
                   Append(ledger[t], Atomic!EntryOf(c, req[c], Atomic!Total(ledger[t])))]
  BY <1>1, SameData
<1> QED
  BY <1>1, <1>2, <1>3, <1>4, <1>5, <1>6, SameData DEF Atomic!Post

LEMMA StepRefines == AnswerInv /\ [Next]_vars => [Atomic!Next]_Atomic!vars
<1> SUFFICES ASSUME AnswerInv, [Next]_vars PROVE [Atomic!Next]_Atomic!vars
  OBVIOUS
<1>1. CASE UNCHANGED vars
  BY <1>1 DEF vars, Atomic!vars
<1>2. ASSUME NEW c \in Calls, StepOf(c) PROVE [Atomic!Next]_Atomic!vars
  <2> USE DEF AnswerInv
  <2>1. req' = req
    BY <1>2, Outcome
  <2>2. pc[c] # "done" => answer[c] = NoAnswer
    BY DEF Standing
  <2>3. pc[c] \notin Ended => ~PostedBy(ledger[Tenant(c)], c)
    BY DEF Bookings
  <2>4. CASE Moves(c)
    BY <2>1, <2>4 DEF Moves, Atomic!vars
  <2>5. CASE Ends(c)
    <3>1. PICK status \in {"refused", "conflict", "opened", "failed"} :
            Finish(c, status, 0, 0) /\ (status # "failed" => pc[c] # "committed")
      BY <2>5 DEF Ends
    <3>2. /\ ledger' = ledger /\ answer[c] = NoAnswer
          /\ status # "failed" => ~PostedBy(ledger[Tenant(c)], c)
      BY <2>2, <2>3, <2>5, <3>1 DEF Ends, Ended
    <3>3. status \in Statuses \ {"none"} /\ status \notin {"ok", "duplicate"}
      BY DEF Statuses
    <3>4. Atomic!Answer(c)
      BY <2>1, <3>1, <3>2, <3>3, FinishRefines
    <3> QED
      BY <3>4 DEF Atomic!Next
  <2>6. CASE Repeats(c)
    <3>1. PICK e \in Existing(c) : Finish(c, "duplicate", PriorBalance(e), e.balanceAfter)
      BY <2>6 DEF Repeats, ReturnExisting
    <3>2. ledger[Tenant(c)] \in Seq(Entries)
      BY CallTypes DEF Safe
    <3>3. /\ PriorBalance(e) = BalanceBefore(e) /\ BalanceBefore(e) \in Int
          /\ e.balanceAfter \in Int
      <4>1. /\ e \in Entries
            /\ PriorBalance(e) = BalanceBefore(e) /\ BalanceBefore(e) \in Int
        BY <3>2, EntriesForType DEF Existing
      <4> QED
        BY <4>1 DEF Entries
    <3>4. /\ ledger' = ledger /\ answer[c] = NoAnswer
          /\ ~PostedBy(ledger[Tenant(c)], c)
      BY <2>2, <2>3, <2>6 DEF Repeats, Ended
    <3>5. "duplicate" \in Statuses \ {"none"}
      BY DEF Statuses
    <3>6. Atomic!Answer(c)
      BY <2>1, <3>1, <3>3, <3>4, <3>5, FinishRefines
    <3> QED
      BY <3>6 DEF Atomic!Next
  <2>7. CASE Reply(c)
    <3> PICK e : e = EntryOf(c, req[c], snap[c].balance)
      OBVIOUS
    <3>1. /\ Finish(c, "ok", snap[c].balance, e.balanceAfter)
          /\ ledger' = ledger /\ pc[c] = "committed"
      BY <2>7 DEF Reply
    <3>2. /\ e \in Existing(c) /\ e.by = c /\ BalanceBefore(e) = snap[c].balance
          /\ snap[c].balance \in Int /\ e.balanceAfter \in Int /\ answer[c] = NoAnswer
      BY <2>2, <3>1, CallTypes, EntryOfBefore DEF Safe, Bookings, Entries
    <3>3. "ok" \in Statuses \ {"none"}
      BY DEF Statuses
    <3>4. Atomic!Answer(c)
      BY <2>1, <3>1, <3>2, <3>3, FinishRefines
    <3> QED
      BY <3>4 DEF Atomic!Next
  <2>8. CASE Posts(c)
    <3>1. Atomic!Post(c)
      BY <2>1, <2>8, PostRefines
    <3> QED
      BY <3>1 DEF Atomic!Next
  <2> QED
    BY <1>2, <2>4, <2>5, <2>6, <2>7, <2>8, Outcome
<1> QED
  BY <1>1, <1>2 DEF Next, StepOf

\* The three kinds of writer together, with their retries, rollbacks and lost replies,
\* do nothing AtomicLedger does not allow.
THEOREM Refinement == Spec => RefinesAtomicLedger
BY InitRefines, StepRefines, AnswersHold, PTL DEF Spec, RefinesAtomicLedger, Atomic!Spec

(***************************************************************************)
(* Retries.                                                                *)
(***************************************************************************)

\* The entries of a wallet that no call has booked: the one it was opened with, if any.
OpenedWith(t) == IF ledger[t] # << >> /\ ledger[t][1].by = NoCall THEN 1 ELSE 0

\* A call that stands before its conditional update has read a version that counts an
\* entry for every round it has lost, besides the one the wallet was opened with.
RoundsLost(c) ==
  /\ retries[c] <= Cardinality(OthersBooked(c))
  /\ answer[c].status = "conflict" /\ req[c].kind = "service" =>
       MaxRetry < Cardinality(OthersBooked(c))
  /\ pc[c] = "cas" => retries[c] + OpenedWith(Tenant(c)) < snap[c].version

\* Only the first entry of a wallet is nobody's.
OpeningFirst ==
  \A t \in Tenants : \A i \in DOMAIN ledger[t] : ledger[t][i].by = NoCall => i = 1

RetryInv == AnswerInv /\ OpeningFirst /\ \A c \in Calls : RoundsLost(c)

LEMMA OthersFinite ==
  ASSUME TypeOK, OpeningFirst, NEW c \in Calls
  PROVE  /\ IsFiniteSet(OthersBooked(c)) /\ Cardinality(OthersBooked(c)) \in Nat
         /\ ~PostedBy(ledger[Tenant(c)], c) =>
              Cardinality(OthersBooked(c)) = Len(ledger[Tenant(c)]) - OpenedWith(Tenant(c))
<1> PICK t \in Tenants : t = Tenant(c)
  BY CallTypes
<1> PICK n : n = Len(ledger[t])
  OBVIOUS
<1> PICK k : k = OpenedWith(t)
  OBVIOUS
<1>1. /\ n \in Nat /\ DOMAIN ledger[t] = 1 .. n
      /\ \A i \in 1 .. n : ledger[t][i].by \in Calls \cup {NoCall}
  <2>1. ledger[t] \in Seq(Entries)
    BY CallTypes
  <2>2. n \in Nat /\ DOMAIN ledger[t] = 1 .. n /\ \A i \in 1 .. n : ledger[t][i] \in Entries
    BY <2>1
  <2>3. \A x \in Entries : x.by \in Calls \cup {NoCall}
    BY DEF Entries
  <2> QED
    BY <2>2, <2>3
<1>2. k \in {0, 1} /\ k <= n /\ (k = 1 <=> n > 0 /\ ledger[t][1].by = NoCall)
  <2>1. ledger[t] # << >> <=> n > 0
    BY CallTypes
  <2> QED
    BY <1>1, <2>1 DEF OpenedWith
<1>3. IsFiniteSet(1 .. n)
  BY <1>1, FS_Interval
<1>4. OthersBooked(c) \subseteq 1 .. n
  BY <1>1 DEF OthersBooked
<1>5. IsFiniteSet(OthersBooked(c)) /\ Cardinality(OthersBooked(c)) \in Nat
  BY <1>3, <1>4, FS_Subset, FS_CardinalityType
<1>6. ASSUME ~PostedBy(ledger[t], c) PROVE OthersBooked(c) = k + 1 .. n
  <2>1. OthersBooked(c) = {i \in 1 .. n : ledger[t][i].by # NoCall}
    BY <1>1, <1>6, LedgerConstants DEF OthersBooked, PostedBy
  <2>2. \A i \in 1 .. n : ledger[t][i].by = NoCall <=> i = 1 /\ k = 1
    BY <1>1, <1>2 DEF OpeningFirst
  <2> QED
    BY <1>2, <2>1, <2>2
<1>7. Cardinality(k + 1 .. n) = n - k
  <2>1. k + 1 \in Int /\ n \in Int
    BY <1>1, <1>2
  <2>2. Cardinality(k + 1 .. n) = IF k + 1 > n THEN 0 ELSE n - (k + 1) + 1
    BY <2>1, FS_Interval
  <2> QED
    BY <1>1, <1>2, <2>2
<1>8. ~PostedBy(ledger[t], c) => Cardinality(OthersBooked(c)) = n - k
  BY <1>6, <1>7
<1> QED
  BY <1>5, <1>8

\* A step leaves a book alone or adds one entry of its own call.
LEMMA BooksGrow ==
  ASSUME AnswerInv, NEW c \in Calls, StepOf(c), NEW t \in Tenants
  PROVE  \/ ledger'[t] = ledger[t]
         \/ \E e \in Entries : /\ e.by = c /\ ledger[t] \in Seq(Entries)
                               /\ ledger'[t] = Append(ledger[t], e)
<1>1. CASE Posts(c) /\ t = Tenant(c)
  <2>1. PICK e : /\ e = EntryOf(c, req[c], Total(ledger[t])) /\ e \in Entries
                 /\ ledger'[t] = Append(ledger[t], e) /\ ledger[t] \in Seq(Entries)
    BY <1>1, PostEffect DEF AnswerInv
  <2>2. e.by = c
    BY <2>1 DEF EntryOf
  <2> QED
    BY <2>1, <2>2
<1>2. CASE Posts(c) /\ t # Tenant(c)
  BY <1>2, PostEffect DEF AnswerInv
<1>3. CASE ledger' = ledger
  BY <1>3
<1> QED
  BY <1>1, <1>2, <1>3, Outcome DEF AnswerInv, Moves, Ends, Repeats, Reply

\* What a wallet was opened with stays what it was.
LEMMA OpeningStays ==
  ASSUME AnswerInv, OpeningFirst, NEW c \in Calls, StepOf(c), NEW t \in Tenants
  PROVE  /\ OpenedWith(t)' = OpenedWith(t)
         /\ \A i \in DOMAIN ledger'[t] : ledger'[t][i].by = NoCall => i = 1
<1>1. CASE ledger'[t] = ledger[t]
  BY <1>1 DEF OpenedWith, OpeningFirst
<1>2. ASSUME NEW e \in Entries, e.by = c, ledger[t] \in Seq(Entries),
             ledger'[t] = Append(ledger[t], e)
      PROVE  /\ OpenedWith(t)' = OpenedWith(t)
             /\ \A i \in DOMAIN ledger'[t] : ledger'[t][i].by = NoCall => i = 1
  <2> PICK n : n = Len(ledger[t])
    OBVIOUS
  <2>1. /\ n \in Nat /\ DOMAIN ledger[t] = 1 .. n /\ DOMAIN ledger'[t] = 1 .. n + 1
        /\ \A i \in 1 .. n : ledger'[t][i] = ledger[t][i]
        /\ ledger'[t][n + 1] = e /\ ledger'[t] # << >>
        /\ (ledger[t] = << >> <=> n = 0)
    <3>1. /\ n \in Nat /\ DOMAIN ledger[t] = 1 .. n
          /\ (ledger[t] = << >> <=> n = 0)
      BY <1>2
    <3>2. /\ DOMAIN ledger'[t] = 1 .. n + 1
          /\ \A i \in 1 .. n : ledger'[t][i] = ledger[t][i]
          /\ ledger'[t][n + 1] = e
      BY <1>2
    <3>3. DOMAIN << >> = {} /\ n + 1 \in 1 .. n + 1
      BY <3>1
    <3> QED
      BY <3>1, <3>2, <3>3
  <2>2. e.by # NoCall
    BY <1>2, LedgerConstants
  <2>3. \A i \in DOMAIN ledger'[t] : ledger'[t][i].by = NoCall => i = 1
    BY <2>1, <2>2 DEF OpeningFirst
  <2>4. CASE n = 0
    BY <2>1, <2>2, <2>4 DEF OpenedWith
  <2>5. CASE n > 0
    <3>1. ledger'[t][1] = ledger[t][1] /\ ledger[t] # << >>
      BY <2>1, <2>5
    <3> QED
      BY <2>1, <2>3, <3>1 DEF OpenedWith
  <2> QED
    BY <2>1, <2>3, <2>4, <2>5
<1> QED
  BY <1>1, <1>2, BooksGrow

\* What others have booked is never less.
LEMMA OthersGrow ==
  ASSUME AnswerInv, NEW c \in Calls, StepOf(c), NEW d \in Calls
  PROVE  /\ Cardinality(OthersBooked(d))' \in Nat
         /\ Cardinality(OthersBooked(d)) <= Cardinality(OthersBooked(d))'
<1>1. TypeOK /\ TypeOK' /\ req' = req
  BY StepSafe, Outcome DEF AnswerInv, Safe, Next, StepOf
<1> PICK t \in Tenants : t = Tenant(d)
  BY <1>1, CallTypes
<1>2. Tenant(d)' = t
  BY <1>1 DEF Tenant
<1>3. /\ DOMAIN ledger[t] \subseteq DOMAIN ledger'[t]
      /\ \A i \in DOMAIN ledger[t] : ledger'[t][i] = ledger[t][i]
  <2>1. CASE ledger'[t] = ledger[t]
    BY <2>1
  <2>2. ASSUME NEW e \in Entries, ledger'[t] = Append(ledger[t], e), ledger[t] \in Seq(Entries)
        PROVE  /\ DOMAIN ledger[t] \subseteq DOMAIN ledger'[t]
               /\ \A i \in DOMAIN ledger[t] : ledger'[t][i] = ledger[t][i]
    BY <2>2
  <2> QED
    BY <2>1, <2>2, BooksGrow
<1> PICK before : before = OthersBooked(d)
  OBVIOUS
<1> PICK after : after = {i \in DOMAIN ledger'[t] : ledger'[t][i].by \in Calls \ {d}}
  OBVIOUS
<1>4. OthersBooked(d)' = after
  BY <1>2 DEF OthersBooked
<1>5. before \subseteq after
  BY <1>3 DEF OthersBooked
<1>6. IsFiniteSet(after)
  <2> PICK n : n = Len(ledger'[t])
    OBVIOUS
  <2>1. n \in Nat /\ DOMAIN ledger'[t] = 1 .. n
    BY <1>1 DEF TypeOK
  <2>2. after \subseteq 1 .. n
    BY <2>1
  <2>3. IsFiniteSet(1 .. n)
    <3>1. 1 \in Int /\ n \in Int
      BY <2>1
    <3> QED
      BY <3>1, FS_Interval, Zenon
  <2> QED
    BY <2>2, <2>3, FS_Subset
<1>7. Cardinality(after) \in Nat /\ Cardinality(before) <= Cardinality(after)
  BY <1>5, <1>6, FS_Subset, FS_CardinalityType
<1> QED
  BY <1>4, <1>7

LEMMA OthersRounds ==
  ASSUME RetryInv, NEW c \in Calls, StepOf(c), NEW d \in Calls, d # c
  PROVE  RoundsLost(d)'
<1>1. /\ pc'[d] = pc[d] /\ snap'[d] = snap[d] /\ req' = req /\ answer'[d] = answer[d]
  BY OthersStand DEF RetryInv, AnswerInv
<1>2. retries'[d] = retries[d]
  BY DEF RetryInv, AnswerInv, Safe, TypeOK, StepOf, Submit, Step, Lookup, PreflightRead,
         PreflightCreate, ReadWallet, CreateWallet, Cas, LockWallet, Insert, Reply, Recheck,
         Fail
<1> PICK m : m = Cardinality(OthersBooked(d))
  OBVIOUS
<1> PICK n : n = Cardinality(OthersBooked(d))'
  OBVIOUS
<1>3. m \in Nat /\ n \in Nat /\ m <= n
  BY OthersGrow, OthersFinite DEF RetryInv, AnswerInv, Safe
<1> PICK k : k = OpenedWith(Tenant(d))
  OBVIOUS
<1>6. OpenedWith(Tenant(d))' = k
  <2> PICK t \in Tenants : t = Tenant(d)
    BY CallTypes DEF RetryInv, AnswerInv, Safe
  <2>1. OpenedWith(t)' = k
    BY OpeningStays DEF RetryInv
  <2>2. req'[d].tenant = t
    BY <1>1 DEF Tenant
  <2> QED
    BY <2>1, <2>2 DEF OpenedWith, Tenant
<1>4. retries[d] \in Nat
  BY DEF RetryInv, AnswerInv, Safe, TypeOK
<1>5. /\ retries[d] <= m
      /\ answer[d].status = "conflict" /\ req[d].kind = "service" => MaxRetry < m
      /\ pc[d] = "cas" => retries[d] + k < snap[d].version
  BY DEF RetryInv, RoundsLost
<1> QED
  BY <1>1, <1>2, <1>3, <1>4, <1>5, <1>6, MaxRetryAssumption DEF RoundsLost

LEMMA OwnRounds ==
  ASSUME RetryInv, NEW c \in Calls, StepOf(c)
  PROVE  RoundsLost(c)'
<1> USE DEF RetryInv, AnswerInv, Safe
<1> PICK t \in Tenants : t = Tenant(c)
  BY CallTypes
<1> PICK m : m = Cardinality(OthersBooked(c))
  OBVIOUS
<1> PICK n : n = Cardinality(OthersBooked(c))'
  OBVIOUS
<1> PICK k : k = OpenedWith(t)
  OBVIOUS
<1>1. m \in Nat /\ n \in Nat /\ m <= n
  BY OthersGrow, OthersFinite
<1>2. /\ retries[c] \in Nat /\ retries[c] <= m
      /\ answer[c].status = "conflict" /\ req[c].kind = "service" => MaxRetry < m
      /\ pc[c] = "cas" => retries[c] + k < snap[c].version
  BY DEF TypeOK, RoundsLost
<1>3. req' = req
  BY Outcome
<1>k. OpenedWith(Tenant(c))' = k
  <2>1. OpenedWith(t)' = k
    BY OpeningStays
  <2>2. req'[c].tenant = t
    BY <1>3 DEF Tenant
  <2> QED
    BY <2>1, <2>2 DEF OpenedWith, Tenant
<1>4. pc[c] \notin Ended => m = Len(ledger[t]) - k
  BY OthersFinite DEF Bookings
<1>z. k \in {0, 1} /\ (Len(ledger[t]) = 0 => k = 0)
  <2>1. Len(ledger[t]) = 0 => ledger[t] = << >>
    BY CallTypes
  <2> QED
    BY <2>1 DEF OpenedWith
<1>5. wallet[t].exists => wallet[t].version = Len(ledger[t]) + 1
  BY DEF BalanceReplaysLedger, Replays
<1>6. ~wallet[t].exists => Len(ledger[t]) = 0
  BY DEF BalanceReplaysLedger, Replays
<1>7. ASSUME retries'[c] = retries[c],
             \/ answer'[c] = answer[c]
             \/ answer'[c].status = "conflict" => req[c].kind # "service",
             pc'[c] = "cas" => retries[c] + k < snap'[c].version
      PROVE  RoundsLost(c)'
  BY <1>1, <1>2, <1>3, <1>k, <1>7, MaxRetryAssumption DEF RoundsLost
<1>a. ASSUME NEW label, Goto(c, label) PROVE pc'[c] = label
  BY <1>a DEF Goto, TypeOK
<1>b. ASSUME NEW status, NEW before, NEW after, Finish(c, status, before, after)
      PROVE  pc'[c] = "done" /\ answer'[c].status = status
  BY <1>b DEF Finish, Goto, TypeOK
<1>c. ASSUME NEW status, Throw(c, status) PROVE pc'[c] = "done" /\ answer'[c].status = status
  BY <1>b, <1>c DEF Throw
<1>d. ReturnExisting(c) => pc'[c] = "done" /\ answer'[c].status = "duplicate"
  BY <1>b DEF ReturnExisting
<1>e. UniqueViolation(c) =>
        /\ pc'[c] # "cas"
        /\ answer'[c] = answer[c] \/ (answer'[c].status = "conflict" => req[c].kind # "service")
  BY <1>a, <1>c DEF UniqueViolation
<1>8. CASE Submit(c)
  BY <1>7, <1>8, <1>a, <1>c DEF Submit
<1>9. CASE Lookup(c) \/ Recheck(c) \/ Reply(c) \/ Fail(c)
  BY <1>7, <1>9, <1>a, <1>b, <1>c, <1>d DEF Lookup, Recheck, Reply, Fail
<1>10. CASE PreflightRead(c) \/ PreflightCreate(c)
  BY <1>7, <1>10, <1>a, <1>b, <1>c DEF PreflightRead, PreflightCreate, AfterPreflight
<1>11. CASE ReadWallet(c)
  <2>1. snap'[c] = wallet[t] /\ retries' = retries /\ pc[c] = "read"
    BY <1>11 DEF ReadWallet, TypeOK
  <2>2. pc'[c] = "cas" => wallet[t].exists
    BY <1>11, <1>a, <1>c DEF ReadWallet
  <2>3. answer'[c] = answer[c] \/ answer'[c].status = "refused"
    BY <1>11, <1>c DEF ReadWallet
  <2>4. pc'[c] = "cas" => retries[c] + k < snap'[c].version
    <3>1. Len(ledger[t]) \in Nat
      BY CallTypes
    <3> QED
      BY <1>2, <1>4, <1>5, <1>z, <2>1, <2>2, <3>1 DEF Ended
  <2> QED
    BY <1>7, <2>1, <2>3, <2>4
<1>12. CASE CreateWallet(c)
  <2>1. CASE wallet[t].exists
    BY <1>7, <1>12, <1>e, <2>1 DEF CreateWallet
  <2>2. CASE ~wallet[t].exists
    <3>1. snap'[c] = FreshWallet /\ retries' = retries /\ pc[c] = "create"
      BY <1>12, <2>2 DEF CreateWallet, TypeOK
    <3>2. answer'[c] = answer[c] \/ answer'[c].status = "refused"
      BY <1>12, <1>c, <2>2 DEF CreateWallet
    <3>3. retries[c] + k < snap'[c].version
      BY <1>2, <1>4, <1>6, <1>z, <2>2, <3>1 DEF Ended, FreshWallet
    <3> QED
      BY <1>7, <3>1, <3>2, <3>3
  <2> QED
    BY <2>1, <2>2
\* Who loses has read a version that another call has overtaken.
<1>13. CASE Cas(c)
  <2>1. CASE CasMatches(c)
    BY <1>7, <1>13, <1>a, <2>1 DEF Cas
  <2>2. CASE ~CasMatches(c)
    <3>1. retries[c] + 1 <= m
      <4>1. lock[t] # c /\ snap[c].version # wallet[t].version
        BY <2>2 DEF CasMatches, CurrentRow
      <4>2. wallet[t].exists /\ snap[c].version <= wallet[t].version
        BY <1>13, <4>1 DEF Cas, SnapshotsAreCurrent, SnapshotIsCurrent
      <4>3. snap[c].version \in Nat /\ Len(ledger[t]) \in Nat
        BY CallTypes DEF Rows
      <4> QED
        BY <1>2, <1>4, <1>5, <1>13, <1>z, <4>1, <4>2, <4>3 DEF Cas, Ended
    <3>2. CASE MayRetry(c)
      <4>1. retries'[c] = retries[c] + 1 /\ pc'[c] = "lookup" /\ answer' = answer
        BY <1>13, <1>a, <2>2, <3>2 DEF Cas, TypeOK
      <4> QED
        BY <1>1, <1>2, <1>3, <1>k, <3>1, <4>1, MaxRetryAssumption DEF RoundsLost
    <3>3. CASE ~MayRetry(c)
      <4>1. retries' = retries /\ pc'[c] = "done"
        BY <1>13, <1>c, <2>2, <3>3 DEF Cas
      <4>2. req[c].kind = "service" => MaxRetry < m
        BY <1>1, <1>2, <3>1, <3>3, MaxRetryAssumption DEF MayRetry
      <4> QED
        BY <1>1, <1>2, <1>3, <1>k, <4>1, <4>2, MaxRetryAssumption DEF RoundsLost
    <3> QED
      BY <3>2, <3>3
  <2> QED
    BY <2>1, <2>2
<1>14. CASE LockWallet(c)
  BY <1>7, <1>14, <1>a, <1>c DEF LockWallet
<1>15. CASE Insert(c)
  BY <1>7, <1>15, <1>a, <1>e DEF Insert
<1> QED
  BY <1>8, <1>9, <1>10, <1>11, <1>12, <1>13, <1>14, <1>15 DEF StepOf, Step

\* A wallet starts with the entry it was opened with, or with none.
LEMMA InitOpening == Init => OpeningFirst
<1> SUFFICES ASSUME Init, NEW t \in Tenants, NEW i \in DOMAIN ledger[t] PROVE i = 1
  BY DEF OpeningFirst
<1>1. PICK b \in OpeningBalances : ledger[t] = OpeningBook(b)
  BY DEF Init
<1>2. DOMAIN << >> = {} /\ \A e : DOMAIN << e >> = {1}
  OBVIOUS
<1>3. DOMAIN OpeningBook(b) \subseteq {1}
  BY <1>2, Zenon DEF OpeningBook
<1> QED
  BY <1>1, <1>3

LEMMA InitRounds == Init => \A c \in Calls : RoundsLost(c)
<1> SUFFICES ASSUME Init, NEW c \in Calls PROVE RoundsLost(c)
  OBVIOUS
<1>1. retries[c] = 0 /\ answer[c].status = "none" /\ pc[c] = "idle"
  BY DEF Init, NoAnswer
<1>2. Cardinality(OthersBooked(c)) \in Nat
  BY InitTypeOK, InitOpening, OthersFinite
<1> QED
  BY <1>1, <1>2 DEF RoundsLost

LEMMA StepRounds == RetryInv /\ [Next]_vars => RetryInv'
<1>1. ASSUME RetryInv, UNCHANGED vars PROVE \A c \in Calls : RoundsLost(c)'
  BY <1>1 DEF vars, RetryInv, RoundsLost, OthersBooked, OpenedWith, Tenant
<1>2. ASSUME RetryInv, NEW c \in Calls, StepOf(c) PROVE \A d \in Calls : RoundsLost(d)'
  BY <1>2, OthersRounds, OwnRounds
<1>3. RetryInv /\ [Next]_vars => AnswerInv'
  BY StepAnswers DEF RetryInv
<1>4. ASSUME RetryInv, UNCHANGED vars PROVE OpeningFirst'
  BY <1>4 DEF vars, RetryInv, OpeningFirst
<1>5. ASSUME RetryInv, NEW c \in Calls, StepOf(c) PROVE OpeningFirst'
  BY <1>5, OpeningStays DEF RetryInv, OpeningFirst
<1> QED
  BY <1>1, <1>2, <1>3, <1>4, <1>5 DEF RetryInv, Next, StepOf

\* creditBalance and debitBalance with their retryCount: a call gives up with a conflict
\* only after MaxRetry + 1 commits of others.
THEOREM RetrySafety == Spec => []LosersWereOvertaken
<1>1. Init => RetryInv
  BY InitAnswers, InitOpening, InitRounds DEF RetryInv
<1>2. RetryInv => LosersWereOvertaken
  BY DEF RetryInv, RoundsLost, LosersWereOvertaken
<1> QED
  BY <1>1, <1>2, StepRounds, PTL DEF Spec
=============================================================================
