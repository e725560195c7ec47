---------------------------- MODULE RefundEngine ----------------------------
(***************************************************************************)
(* Refunds into the wallet: payments/ledger's LedgerRefundService with its *)
(* two callers, the tenant's refund endpoint ("api", LedgerRefundController*)
(* .requestRefund) and the gateways' refund events ("webhook",             *)
(* RefundWebhookRouter.syncRefundStatus).                                  *)
(*                                                                         *)
(* The refund itself is one Serializable transaction.  Its reads see the   *)
(* database as of its first query, and it updates the tenant's wallet row, *)
(* so PostgreSQL lets it commit only if nobody has changed that row since. *)
(* The callers' own checks and the status change that follows are separate *)
(* statements.  The RefundRecord is created PENDING and made SUCCESS inside*)
(* the transaction: a committed record is always SUCCESS.                  *)
(***************************************************************************)
EXTENDS Integers, FiniteSets, FiniteSetsExt

CONSTANTS Payments,     \* successful payments of one tenant
          Original,     \* Original[p]: what was paid
          Calls,        \* refund requests and refund events, each received once
          Requests,     \* what a call may carry
          MaxBalance,   \* LEDGER_CONFIG.maxBalance
          OtherCredits  \* bound: credits of the other wallet services

RequestType == [kind : {"api", "webhook"}, payment : Payments, amount : Int]

ASSUME RefundConstants ==
  /\ Original \in [Payments -> Nat]
  /\ Requests \subseteq RequestType
  /\ MaxBalance \in Nat /\ OtherCredits \in Nat

VARIABLES status,    \* status[p]: the PaymentTransaction's status
          records,   \* the calls whose RefundRecord and ledger CREDIT are committed
          refunded,  \* refunded[p]: the sum of the amounts of p's records
          wallet,    \* the tenant's Wallet row
          others,    \* credits the other services have made, one unit each
          pc, req,
          snap,      \* snap[c]: the wallet row in the snapshot of c's transaction
          answer

vars == <<status, records, refunded, wallet, others, pc, req, snap, answer>>

Rows == [balance : Nat, version : Nat]
PCs == {"idle", "check", "begin", "commit", "reply", "mark", "done"}
Answers == {"none", "success", "skipped", "refused", "failed"}

Kind(c) == req[c].kind
Payment(c) == req[c].payment
Amount(c) == req[c].amount
RecordsOf(p) == {c \in records : Payment(c) = p}

TypeOK ==
  /\ status \in [Payments -> {"success", "refunded"}]
  /\ records \subseteq Calls
  /\ refunded \in [Payments -> Nat]
  /\ wallet \in Rows
  /\ others \in 0 .. OtherCredits
  /\ pc \in [Calls -> PCs]
  /\ req \in [Calls -> Requests]
  /\ snap \in [Calls -> Rows]
  /\ answer \in [Calls -> Answers]

NewWallet == [balance |-> 0, version |-> 1]

Init ==
  /\ status = [p \in Payments |-> "success"]
  /\ records = {}
  /\ refunded = [p \in Payments |-> 0]
  /\ wallet = NewWallet
  /\ others = 0
  /\ pc = [c \in Calls |-> "idle"]
  /\ req \in [Calls -> Requests]
  /\ snap = [c \in Calls |-> NewWallet]
  /\ answer = [c \in Calls |-> "none"]

-----------------------------------------------------------------------------
Goto(c, label) == pc' = [pc EXCEPT ![c] = label] /\ UNCHANGED answer

Answer(c, what) ==
  /\ pc' = [pc EXCEPT ![c] = "done"]
  /\ answer' = [answer EXCEPT ![c] = what]

BlockedAsSkipped(c) == Answer(c, IF Kind(c) = "api" THEN "refused" ELSE "skipped")  \* mutant

\* The refund fails: the endpoint answers 400, the router reports FAILED and the
\* webhook controller acknowledges the event all the same.
Blocked(c) == Answer(c, IF Kind(c) = "api" THEN "refused" ELSE "failed")

NonZero(c) == Amount(c) # 0  \* mutant
Positive(c) == Amount(c) > 0

\* The endpoint rejects a non-positive amount before anything is read.
Receive(c) ==
  /\ pc[c] = "idle"
  /\ IF Kind(c) = "api" /\ ~Positive(c) THEN Blocked(c) ELSE Goto(c, "check")
  /\ UNCHANGED <<status, records, refunded, wallet, others, req, snap>>

FitsIgnoringPast(c) == Amount(c) <= Original[Payment(c)]  \* mutant

\* Anti-over-refund, computed from the SUCCESS records the reader sees.
Fits(c) == refunded[Payment(c)] + Amount(c) <= Original[Payment(c)]

Refundable(c) == status[Payment(c)] = "success" /\ Fits(c)

\* The caller's own check: checkRefundIntegrity for the endpoint; for an event,
\* whether the payment has been refunded at all.
Check(c) ==
  /\ pc[c] = "check"
  /\ \/ Kind(c) = "api" /\ (IF Refundable(c) THEN Goto(c, "begin") ELSE Blocked(c))
     \/ Kind(c) = "webhook" /\ (IF RecordsOf(Payment(c)) = {} THEN Goto(c, "begin")
                                                              ELSE Answer(c, "skipped"))
  /\ UNCHANGED <<status, records, refunded, wallet, others, req, snap>>

\* processRefundCredit: validateRefundInput, then the transaction's reads and checks
\* on one snapshot.
Begin(c) ==
  /\ pc[c] = "begin"
  /\ IF Positive(c) /\ Refundable(c) /\ wallet.balance + Amount(c) <= MaxBalance
       THEN Goto(c, "commit") /\ snap' = [snap EXCEPT ![c] = wallet]
       ELSE Blocked(c) /\ UNCHANGED snap
  /\ UNCHANGED <<status, records, refunded, wallet, others, req>>

SnapshotUnchecked(c) == TRUE  \* mutant

\* First updater wins: the wallet row is the one the snapshot saw.
SnapshotValid(c) == wallet.version = snap[c].version

\* The wallet update, the ledger CREDIT and the SUCCESS record commit together; a
\* conflict or any database error rolls all of it back.
Commit(c) ==
  /\ pc[c] = "commit"
  /\ \/ /\ SnapshotValid(c)
        /\ wallet' = [balance |-> snap[c].balance + Amount(c),
                      version |-> snap[c].version + 1]
        /\ records' = records \cup {c}
        /\ refunded' = [refunded EXCEPT ![Payment(c)] = @ + Amount(c)]
        /\ Goto(c, "reply")
     \/ Blocked(c) /\ UNCHANGED <<records, refunded, wallet>>
  /\ UNCHANGED <<status, others, req, snap>>

\* The reply of COMMIT arrives, or is lost and the refund counts as failed.
Reply(c) ==
  /\ pc[c] = "reply"
  /\ \/ Kind(c) = "api" /\ Answer(c, "success")
     \/ Kind(c) = "webhook" /\ Goto(c, "mark")
     \/ Blocked(c)
  /\ UNCHANGED <<status, records, refunded, wallet, others, req, snap>>

\* markTransactionRefunded, whose failure is swallowed.
Mark(c) ==
  /\ pc[c] = "mark"
  /\ \/ status' = [status EXCEPT ![Payment(c)] = "refunded"]
     \/ UNCHANGED status
  /\ Answer(c, "success")
  /\ UNCHANGED <<records, refunded, wallet, others, req, snap>>

\* The process dies.
Crash(c) ==
  /\ pc[c] \notin {"idle", "done"}
  /\ Answer(c, "none")
  /\ UNCHANGED <<status, records, refunded, wallet, others, req, snap>>

\* Another service credits the wallet (module WalletLedger has those in full).
OtherCredit ==
  /\ others < OtherCredits
  /\ wallet.balance < MaxBalance
  /\ others' = others + 1
  /\ wallet' = [balance |-> wallet.balance + 1, version |-> wallet.version + 1]
  /\ UNCHANGED <<status, records, refunded, pc, req, snap, answer>>

Next ==
  \/ \E c \in Calls : \/ Receive(c) \/ Check(c) \/ Begin(c) \/ Commit(c)
                      \/ Reply(c) \/ Mark(c) \/ Crash(c)
  \/ OtherCredit

Spec == Init /\ [][Next]_vars

-----------------------------------------------------------------------------
(* Properties. *)

Sum(S) == MapThenSumSet(LAMBDA c : Amount(c), S)

\* The promise of the engine: however requests and redelivered events interleave,
\* a payment never gives back more than was paid.
NoOverRefund == \A p \in Payments : Sum(RecordsOf(p)) <= Original[p]

\* Every unit in the wallet is a refund on record or a credit of somebody else: no
\* refund overwrites a concurrent one or another service's credit, and none is
\* paid out without its record.
WalletHoldsRefunds ==
  /\ wallet.balance = Sum(records) + others
  /\ wallet.balance <= MaxBalance
  /\ \A p \in Payments : refunded[p] = Sum(RecordsOf(p))

\* Good news is true: success means this very call's refund is on record, skipped
\* that another one's of the same payment is, whatever failed in between.
AnswersAreTrue ==
  \A c \in Calls :
    /\ answer[c] = "success" => c \in records
    /\ answer[c] = "skipped" => c \notin records /\ RecordsOf(Payment(c)) # {}

\* However requests and events interleave, conflict, fail and are answered, they do
\* nothing that a refund engine without any concurrency would not do.
Refunded == {p \in Payments : status[p] = "refunded"}
Atomic == INSTANCE AtomicRefunds
            WITH given <- records, returned <- refunded,
                 balance <- wallet.balance, marked <- Refunded
RefinesAtomicRefunds == Atomic!Spec

\* What the router's header says: the payment becomes 'refunded' when it has been
\* refunded in full.
RefundedOnlyInFull ==
  \A p \in Payments : status[p] = "refunded" => Sum(RecordsOf(p)) = Original[p]
=============================================================================
