---------------------------- MODULE WalletLedger ----------------------------
(***************************************************************************)
(* The wallet of payments/ledger and everything in the API that writes it. *)
(*                                                                         *)
(* A wallet row is written by three kinds of database transaction, all     *)
(* concurrent:                                                             *)
(*   "service"  LedgerService.creditBalance / debitBalance: READ COMMITTED *)
(*              read, compare-and-set on the row version, bounded retry,   *)
(*              idempotent on (tenant, referenceType, referenceId);        *)
(*   "refund"   LedgerRefundService.processRefundCredit: Serializable      *)
(*              transaction, compare-and-set, no retry, fresh reference;   *)
(*   "locked"   SubscriptionService: SELECT ... FOR UPDATE, unconditional  *)
(*              update, fresh reference;                                   *)
(* and created by any of them or by "open", LedgerService.getOrCreateWallet*)
(* called on its own (debit interceptor, balance page).                    *)
(*                                                                         *)
(* One action per stretch of code between two awaits.  A transaction       *)
(* publishes its writes when it commits; until then it holds the row lock  *)
(* its first write (or its FOR UPDATE) took, and other transactions read   *)
(* the committed row.  Amounts are small integers; the entry's description *)
(* and metadata are left out.                                              *)
(***************************************************************************)
EXTENDS LedgerData, FiniteSets

CONSTANT MaxRetry          \* LEDGER_CONFIG.maxRetryOnLockConflict

ASSUME MaxRetryAssumption == MaxRetry \in Nat

VARIABLES wallet,    \* wallet[t]: the committed Wallet row of tenant t
          ledger,    \* ledger[t]: the committed LedgerTransaction rows, in order
          lock,      \* lock[t]: the call whose transaction holds the row lock
          pc,        \* pc[c]: where call c is
          req,       \* req[c]: the request call c carries
          snap,      \* snap[c]: the row call c has read in its transaction
          retries,   \* retries[c]: the retryCount argument
          answer     \* answer[c]: what call c returned or threw

vars == <<wallet, ledger, lock, pc, req, snap, retries, answer>>

Rows == [exists : BOOLEAN, balance : Int, version : Nat]
NoWallet == [exists |-> FALSE, balance |-> 0, version |-> 0]
FreshWallet == [exists |-> TRUE, balance |-> 0, version |-> 1]

PCs == {"idle", "preflight", "precreate", "lookup", "read", "create", "lockread",
        "cas", "insert", "committed", "recheck", "done"}

Tenant(c) == req[c].tenant
Ref(c) == RefOf(c, req[c])
Existing(c) == EntriesFor(ledger[Tenant(c)], Ref(c))

TypeOK ==
  /\ wallet \in [Tenants -> Rows]
  /\ ledger \in [Tenants -> Seq(Entries)]
  /\ lock \in [Tenants -> Calls \cup {NoCall}]
  /\ pc \in [Calls -> PCs]
  /\ req \in [Calls -> Requests]
  /\ snap \in [Calls -> Rows]
  /\ retries \in [Calls -> 0 .. MaxRetry]
  /\ answer \in [Calls -> Answers]

Init ==
  /\ \E open \in [Tenants -> OpeningBalances] :
       /\ ledger = [t \in Tenants |-> OpeningBook(open[t])]
       /\ wallet = [t \in Tenants |->
                      IF open[t] = 0 THEN NoWallet
                      ELSE [exists |-> TRUE, balance |-> open[t], version |-> 2]]
  /\ lock = [t \in Tenants |-> NoCall]
  /\ pc = [c \in Calls |-> "idle"]
  /\ req \in [Calls -> Requests]
  /\ snap = [c \in Calls |-> NoWallet]
  /\ retries = [c \in Calls |-> 0]
  /\ answer = [c \in Calls |-> NoAnswer]

-----------------------------------------------------------------------------
(* Ways a call moves on. *)

Goto(c, label) == pc' = [pc EXCEPT ![c] = label]

Finish(c, status, before, after) ==
  /\ Goto(c, "done")
  /\ answer' = [answer EXCEPT ![c] =
                  [status |-> status, before |-> before, after |-> after]]

\* The call throws: the transaction, if any, is rolled back and its lock freed.
ThrowKeepingLock(c, status) == Finish(c, status, 0, 0) /\ UNCHANGED lock  \* mutant

Throw(c, status) ==
  /\ Finish(c, status, 0, 0)
  /\ lock' = [t \in Tenants |-> IF lock[t] = c THEN NoCall ELSE lock[t]]

PriorBalanceUnsigned(e) == e.balanceAfter - e.amount  \* mutant

\* buildResult: balanceBefore is computed back from the stored entry.
PriorBalance(e) == e.balanceAfter - (IF e.type = "CREDIT" THEN e.amount ELSE -1 * e.amount)

ReturnExisting(c) ==
  \E e \in Existing(c) : Finish(c, "duplicate", PriorBalance(e), e.balanceAfter)

-----------------------------------------------------------------------------
(* Entry points. *)

RejectedZeroOnly(c) == req[c].kind \in {"service", "refund"} /\ req[c].amount = 0  \* mutant

\* validateAmount / validateRefundInput reject before anything is read.
Rejected(c) == req[c].kind \in {"service", "refund"} /\ req[c].amount <= 0

Submit(c) ==
  /\ pc[c] = "idle"
  /\ IF Rejected(c)
       THEN Throw(c, "refused")
       ELSE /\ Goto(c, CASE req[c].kind = "service" -> "lookup"
                         [] req[c].kind = "refund"  -> "read"
                         [] OTHER                   -> "preflight")
            /\ UNCHANGED <<lock, answer>>
  /\ UNCHANGED <<wallet, ledger, req, snap, retries>>

\* findExistingTransaction, before the transaction starts.
Lookup(c) ==
  /\ pc[c] = "lookup"
  /\ IF Existing(c) # {}
       THEN ReturnExisting(c)
       ELSE Goto(c, "read") /\ UNCHANGED answer
  /\ UNCHANGED <<wallet, ledger, lock, req, snap, retries>>

\* getOrCreateWallet: a transaction of its own, then the call goes on.
AfterPreflight(c) ==
  IF req[c].kind = "open"
    THEN Finish(c, "opened", 0, 0)
    ELSE Goto(c, "lockread") /\ UNCHANGED answer

PreflightRead(c) ==
  /\ pc[c] = "preflight"
  /\ IF wallet[Tenant(c)].exists
       THEN AfterPreflight(c)
       ELSE Goto(c, "precreate") /\ UNCHANGED answer
  /\ UNCHANGED <<wallet, ledger, lock, req, snap, retries>>

\* The unique index on Wallet.tenantId makes a second creator wait, then fail.
PreflightCreate(c) ==
  /\ pc[c] = "precreate"
  /\ lock[Tenant(c)] = NoCall
  /\ IF wallet[Tenant(c)].exists
       THEN Throw(c, "failed") /\ UNCHANGED wallet
       ELSE /\ wallet' = [wallet EXCEPT ![Tenant(c)] = FreshWallet]
            /\ AfterPreflight(c)
            /\ UNCHANGED lock
  /\ UNCHANGED <<ledger, req, snap, retries>>

-----------------------------------------------------------------------------
(* The compare-and-set writers: LedgerService and LedgerRefundService. *)

\* ensureWallet's findUnique and, when the row is there, the limit check.
ReadWallet(c) ==
  LET row == wallet[Tenant(c)] IN
  /\ pc[c] = "read"
  /\ snap' = [snap EXCEPT ![c] = row]
  /\ IF row.exists /\ ~Allowed(req[c], row.balance)
       THEN Throw(c, "refused")
       ELSE /\ Goto(c, IF row.exists THEN "cas" ELSE "create")
            /\ UNCHANGED <<lock, answer>>
  /\ UNCHANGED <<wallet, ledger, req, retries>>

\* P2002: the service looks for the entry once more, a refund gives up.
UniqueViolation(c) ==
  IF req[c].kind = "service"
    THEN /\ Goto(c, "recheck")
         /\ lock' = [lock EXCEPT ![Tenant(c)] = IF @ = c THEN NoCall ELSE @]
         /\ UNCHANGED answer
    ELSE Throw(c, "conflict")

\* ensureWallet's create: visible to others only if this transaction commits.
CreateWallet(c) ==
  /\ pc[c] = "create"
  /\ lock[Tenant(c)] = NoCall
  /\ IF wallet[Tenant(c)].exists
       THEN UniqueViolation(c) /\ UNCHANGED snap
       ELSE /\ snap' = [snap EXCEPT ![c] = FreshWallet]
            /\ IF Allowed(req[c], FreshWallet.balance)
                 THEN /\ lock' = [lock EXCEPT ![Tenant(c)] = c]
                      /\ Goto(c, "cas")
                      /\ UNCHANGED answer
                 ELSE Throw(c, "refused")
  /\ UNCHANGED <<wallet, ledger, req, retries>>

\* The row the conditional update meets: its own if this transaction created it.
CurrentRow(c) == IF lock[Tenant(c)] = c THEN snap[c] ELSE wallet[Tenant(c)]

CasIgnoresVersion(c) == TRUE  \* mutant
CasComparesBalance(c) == CurrentRow(c).balance = snap[c].balance  \* mutant
CasComparesBumped(c) == CurrentRow(c).version = snap[c].version + 1  \* mutant

CasMatches(c) == CurrentRow(c).version = snap[c].version

MayRetryOnceMore(c) == req[c].kind = "service" /\ retries[c] <= MaxRetry  \* mutant

MayRetry(c) == req[c].kind = "service" /\ retries[c] < MaxRetry

\* updateWalletWithCas: waits for the row lock, then compares the version.  A
\* service call that loses rolls back and starts again, as often as allowed; a
\* refund's Serializable transaction ends with a serialization error.
Cas(c) ==
  /\ pc[c] = "cas"
  /\ lock[Tenant(c)] \in {NoCall, c}
  /\ IF CasMatches(c)
       THEN /\ lock' = [lock EXCEPT ![Tenant(c)] = c]
            /\ Goto(c, "insert")
            /\ UNCHANGED <<retries, answer>>
       ELSE IF MayRetry(c)
         THEN /\ retries' = [retries EXCEPT ![c] = @ + 1]
              /\ Goto(c, "lookup")
              /\ UNCHANGED <<lock, answer>>
         ELSE /\ Throw(c, IF req[c].kind = "service" THEN "conflict" ELSE "failed")
              /\ UNCHANGED retries
  /\ UNCHANGED <<wallet, ledger, req, snap>>

-----------------------------------------------------------------------------
(* The locking writer: upgradeSubscriptionPlan and cancelWithRefund. *)

\* SELECT ... FOR UPDATE, then the balance check on the row it locked.
LockWallet(c) ==
  LET row == wallet[Tenant(c)] IN
  /\ pc[c] = "lockread"
  /\ lock[Tenant(c)] = NoCall
  /\ snap' = [snap EXCEPT ![c] = row]
  /\ IF Allowed(req[c], row.balance)
       THEN /\ lock' = [lock EXCEPT ![Tenant(c)] = c]
            /\ Goto(c, "insert")
            /\ UNCHANGED answer
       ELSE Throw(c, "refused")
  /\ UNCHANGED <<wallet, ledger, req, retries>>

-----------------------------------------------------------------------------
(* The end of every writing transaction. *)

\* The unique index on (tenantId, referenceType, referenceId) meets an entry.
ReferenceTaken(c) == Existing(c) # {}

\* ledgerTransaction.create, and COMMIT when the reference is new.  The row lock
\* is held since the update, so nothing comes between the two.
Insert(c) ==
  LET t == Tenant(c) IN
  /\ pc[c] = "insert"
  /\ IF ReferenceTaken(c)
       THEN UniqueViolation(c) /\ UNCHANGED <<wallet, ledger>>
       ELSE LET entry == EntryOf(c, req[c], snap[c].balance) IN
            /\ ledger' = [ledger EXCEPT ![t] = Append(@, entry)]
            /\ wallet' = [wallet EXCEPT ![t] =
                            [exists |-> TRUE, balance |-> entry.balanceAfter,
                             version |-> snap[c].version + 1]]
            /\ lock' = [lock EXCEPT ![t] = NoCall]
            /\ Goto(c, "committed")
            /\ UNCHANGED answer
  /\ UNCHANGED <<req, snap, retries>>

Reply(c) ==
  /\ pc[c] = "committed"
  /\ Finish(c, "ok", snap[c].balance, EntryOf(c, req[c], snap[c].balance).balanceAfter)
  /\ UNCHANGED <<wallet, ledger, lock, req, snap, retries>>

\* After a unique violation: the parallel request's entry, or a 500.
Recheck(c) ==
  /\ pc[c] = "recheck"
  /\ IF Existing(c) # {}
       THEN ReturnExisting(c) /\ UNCHANGED lock
       ELSE Throw(c, "failed")
  /\ UNCHANGED <<wallet, ledger, req, snap, retries>>

\* The connection drops, the interactive transaction times out or the process
\* dies: what is not committed is rolled back, what is committed stays, and the
\* caller learns nothing.
Fail(c) ==
  /\ pc[c] \notin {"idle", "done"}
  /\ Throw(c, "failed")
  /\ UNCHANGED <<wallet, ledger, req, snap, retries>>

-----------------------------------------------------------------------------
Step(c) ==
  \/ Lookup(c) \/ PreflightRead(c) \/ PreflightCreate(c)
  \/ ReadWallet(c) \/ CreateWallet(c) \/ Cas(c)
  \/ LockWallet(c) \/ Insert(c) \/ Reply(c) \/ Recheck(c)

Next == \E c \in Calls : Submit(c) \/ Step(c) \/ Fail(c)

Spec == Init /\ [][Next]_vars

\* The server runs the calls it has accepted and the database serves lock
\* waiters; nothing obliges a caller to submit or a transaction to fail.
Fairness == \A c \in Calls : WF_vars(Step(c))

FairSpec == Spec /\ Fairness

-----------------------------------------------------------------------------
(* Properties. *)

\* The wallet row is the sum of its ledger: every entry starts from the balance
\* the previous one left, the row holds the balance of the last one, and its
\* version counts them.  A lost update, a write outside the transaction or a
\* balance computed from a stale read breaks it.
Replays(row, book) ==
  /\ \A i \in DOMAIN book :
       BalanceBefore(book[i]) = IF i = 1 THEN 0 ELSE book[i - 1].balanceAfter
  /\ row.balance = Total(book)
  /\ row.exists => row.version = Len(book) + 1
  /\ ~row.exists => book = << >>

BalanceReplaysLedger == \A t \in Tenants : Replays(wallet[t], ledger[t])

\* A transaction that may still write works on the committed row: whoever holds the
\* row lock has read the row as it stands, and a compare-and-set writer that does
\* not hold it yet has an older version or the same row.  This is why neither the
\* version check nor FOR UPDATE can let a stale balance through.
SnapshotIsCurrent(c) ==
  LET row == wallet[Tenant(c)] IN
  /\ pc[c] = "insert" => lock[Tenant(c)] = c
  /\ \A t \in Tenants : lock[t] = c => t = Tenant(c) /\ pc[c] \in {"cas", "insert"}
  /\ lock[Tenant(c)] = c => snap[c] = IF row.exists THEN row ELSE FreshWallet
  /\ pc[c] = "cas" /\ lock[Tenant(c)] # c =>
       /\ row.exists
       /\ snap[c].version <= row.version
       /\ snap[c].version = row.version => snap[c] = row
  /\ pc[c] = "lockread" => row.exists

SnapshotsAreCurrent == \A c \in Calls : SnapshotIsCurrent(c)

\* No debit takes a wallet below MinBalance and no credit of the compare-and-set
\* writers takes it above MaxBalance, whatever was written since the check; every
\* entry moves money in the direction of its type.
BalanceWithinLimits ==
  \A t \in Tenants : \A i \in DOMAIN ledger[t] :
    LET e == ledger[t][i] IN
    /\ e.amount > 0
    /\ e.balanceAfter >= MinBalance
    /\ e.type = "CREDIT" /\ e.by \in Calls /\ req[e.by].kind # "locked" =>
         e.balanceAfter <= MaxBalance

\* What callers are told is what the ledger holds: a result, first or repeated,
\* carries the balances of the entry under its reference, and a refusal or a
\* conflict means the call itself has booked nothing.
AnswersMatchLedger ==
  \A c \in Calls :
    /\ answer[c].status \in {"ok", "duplicate"} =>
         \E e \in Existing(c) :
           /\ answer[c].before = BalanceBefore(e) /\ answer[c].after = e.balanceAfter
           /\ (answer[c].status = "ok") = (e.by = c)
    /\ answer[c].status \in {"refused", "conflict", "opened"} =>
         ~PostedBy(ledger[Tenant(c)], c)

\* The compare-and-set loop is lock-free: a call loses a round only to a write of
\* another call that committed in that round, so it gives up with a conflict only
\* after MaxRetry + 1 of them.  What the wallet was opened with is nobody's round.
OthersBooked(c) ==
  {i \in DOMAIN ledger[Tenant(c)] : ledger[Tenant(c)][i].by \in Calls \ {c}}
LosersWereOvertaken ==
  \A c \in Calls :
    /\ retries[c] <= Cardinality(OthersBooked(c))
    /\ answer[c].status = "conflict" /\ req[c].kind = "service" =>
         MaxRetry < Cardinality(OthersBooked(c))

\* Every interleaving of the three kinds of writer, with their retries, rollbacks
\* and lost replies, is one the abstract ledger allows.
Atomic == INSTANCE AtomicLedger WITH book <- ledger
RefinesAtomicLedger == Atomic!Spec

\* An accepted call is answered: no writer waits for a row lock forever and no
\* retry loop runs forever.
EveryCallAnswered == \A c \in Calls : (pc[c] # "idle") ~> (pc[c] = "done")
=============================================================================
