# A verification development of aifut-core

aifut-core is a multi-tenant platform: a NestJS API (`src/apps/api`) over
PostgreSQL, a Next.js dashboard (`src/apps/web`), an edge proxy
(`src/infra/edge`) and SDKs for connector authors. This directory holds TLA+
models of the parts of the API that move money, enforce limits, mail what has to be
mailed and keep the record of a customer's connections, the TLC runs that check
them, and theorems about them checked by TLAPS.

Contents

1. [The system](#1-the-system): components, state, interactions, hazards
2. [The modules](#2-the-modules) and how they correspond to the code
3. [The runs](#3-the-runs): what each checks, bounds, fairness
4. [What is proved](#4-what-is-proved)
5. [Disagreements between the code and its comments](#5-disagreements-between-the-code-and-its-comments)
6. [What is not modelled, and why](#6-what-is-not-modelled-and-why)
7. [Plan](#7-plan)

To check: `tlc -workers 2 -config WalletLedger.cfg MCWalletLedger` and so on for
the runs of section 3 (`Marketplace.cfg` belongs to `MCDeveloperPayouts`);
`tlapm M.tla` for the proofs, where M is `WalletLedgerProofs`, `RefundEngineProofs`,
`PaymentSettlementProofs`, `AiBudgetProofs`, `DeveloperPayoutsProofs`,
`NotificationOutboxProofs`, `ConnectionHealthProofs` or `SumTheorems`. `PROJECT.json` lists the
components, runs, theorems and hazards, and maps every definition that models
code to its source lines.

Paths below are relative to `src/apps/api/src/` unless they start with `src/`.

## 1. The system

### 1.1 How it runs

One NestJS process serves HTTP requests; each handler is an async function, so
two requests interleave at every `await`, and several processes may serve the
same database. There is no message broker: background work is `setInterval` in
the same process (budget reset every 5 minutes, e-invoice mail every 5 seconds,
agent triggers every minute, gateway reports). All shared state of the parts
modelled here is in PostgreSQL through Prisma. What protects it is therefore the
isolation level of each transaction, conditional updates (`updateMany ... where
version = ...`), `SELECT ... FOR UPDATE`, and unique indexes, and what threatens
it is a read in one statement that is used in another.

Payments arrive from gateways (MoMo, VNPay, PayPal, Stripe) as callbacks that
may be repeated, late, or never come. A process may die between two statements:
nothing in memory survives, everything committed does.

### 1.2 The parts that are modelled

**Wallet ledger** (`payments/ledger/ledger.service.ts`).
*State:* one `Wallet` row per tenant (balance, version) and the append-only
`LedgerTransaction` rows, unique on (tenant, referenceType, referenceId).
*Operations:* `creditBalance`, `debitBalance`, `getOrCreateWallet`; balance and
history queries.
*Interactions:* called by the debit interceptor and the PayPal top-up; the same
row is written by the refund engine (Serializable transaction) and by the
subscription service (`SELECT ... FOR UPDATE`), each with its own protocol.
*Hard:* three locking protocols on one row; an optimistic loop that gives up;
idempotency decided by a unique index after the fact; a commit whose reply is
lost.
*Correct when:* the balance is what the ledger entries add up to; a reference is
booked once; limits hold; the caller is told what the ledger holds.

**Refund engine** (`payments/ledger/ledger-refund.service.ts`, its endpoint in
`ledger-refund.controller.ts`, its event router `refund-webhook.router.ts`).
*State:* `RefundRecord` rows, the wallet, `PaymentTransaction.status`.
*Operations:* `processRefundCredit`, `checkRefundIntegrity`, `syncRefundStatus`,
`markTransactionRefunded`.
*Interactions:* the tenant requests refunds; Stripe and MoMo report them; both
end in the same transaction, which competes with other wallet writers.
*Hard:* checks made before the transaction and again in it; redelivered events;
a status change after the commit which may fail alone.
*Correct when:* a payment never gives back more than was paid; wallet and records
agree; an answer of success or "already refunded" is true.

**Payment settlement** (`payments/momo`, `payments/vnpay`,
`payments.service.ts`, `payments-webhook.service.ts`,
`subscription-activator.service.ts`).
*State:* `PaymentTransaction` (status, gatewayTxId, metadata), `Invoice.status`,
`Subscription.expiresAt`.
*Operations:* the idempotency guards' `claim` and `settle`, the handlers'
`handleIpn` and `reconcile`, the legacy handlers `PaymentsService.handleMomoIpn`
and `handleVnpayIpn`, `PaymentsWebhookService.handleMomoIpn`, the activator's
`activateByOrderId`, `activateFromInvoice`, `activateBySubscriptionId`, and the
refund's status change.
*Interactions:* five kinds of callers write the same row; only the two guarded
ones coordinate. The old routes (`payments/vnpay/ipn`, `.../return`,
`payments/momo/ipn`, `.../return`) still reach the legacy handlers.
*Hard:* repeated and concurrent callbacks; a claim whose holder dies; a settlement
that commits although its call throws; rows renamed so that later lookups miss
them; activation outside every transaction.
*Correct when:* one callback settles a payment, nothing is paid without evidence,
a final state is left only as the book of payments allows, claims are given back,
periods are those paid for.

**AI budget** (`payments/budget`).
*State:* `AiBudgetLimit` rows per tenant and period (sum, status, window, alert
cooldown), `BudgetAccumulationLog` with unique request ids.
*Operations:* `BudgetGuard.canActivate`, `BudgetService.checkBudget`,
`accumulate`, `resetExpiredPeriods`, `upsertBudgetLimit`, `updateBudgetLimit`.
*Interactions:* requests, the five-minute reset and administrators write the same
rows with statements of their own. (No caller of `accumulate` is in this
repository: it is the API the AI services are to call, and it is modelled from
its own code.)
*Hard:* absolute values computed from reads under READ COMMITTED; retries; a reset
between read and write; alert throttling across parallel calls.
*Correct when:* nobody is charged or locked for more than the requests counted in the
period cost, each once, alerts are throttled, expired limits are reset.

**Marketplace and developer payouts** (`marketplace/marketplace.service.ts`,
`marketplace-moderation.service.ts`, `marketplace-order.service.ts`,
`developer/developer-profile.service.ts`, `developer/payout.service.ts`).
*State:* the `MarketplaceListing` of a key, its `MarketplaceReviewAction`s, its
`MarketplaceOrder`s; a developer's `DeveloperProfile` (totals), `DeveloperEarning`s
and `DeveloperPayoutRequest`s.
*Operations:* submit, approve, reject, delete, update, install a listing; submit it
for review and decide on it; purchase; register a profile; request, approve, process,
reject and cancel a payout.
*Interactions:* a purchase books an earning and raises the total from which payouts
are taken; moderation decides what can be bought.
*Hard:* only `purchase` and `approvePayout` use a transaction, so each check may be
stale when its write arrives; a key may have another listing by then; the available
balance is computed from three reads; totals are written as absolute values.
*Correct when:* a sale is booked once, with its own amount and to its developer; only
what someone approved is public; an approved payout is debited; totals and single
earnings agree.

**Mail outbox** (`payments/e-invoice/invoice-mailer.service.ts`,
`invoice-outbox.processor.ts`, `payments/ledger/ledger-notification.service.ts`).
*State:* `NotificationLog` rows (status, `metadata.retryCount`, `nextRetryAt`); the
poller's flag in memory.
*Operations:* `enqueue`, `handleThresholdCheck` with its throttle, `pollOnce`, `send`.
*Interactions:* payments and debits create rows, one poller mails them.
*Hard:* a lookup followed by an insert; a mail that goes out although its row does not
say so; retries after a crash; a batch of limited size in which some rows wait.
*Correct when:* a mail is repeated only where it had to be, what is marked sent was
sent, and every invoice mail ends.

**Connection health** (`connection-instances.service.ts`,
`integration-workflow.service.ts`, `integration-diagnostics.service.ts`).
*State:* the `IntegrationConnection` row: status, `lastVerifiedAt`, and a JSON column
with a record per kind of event and a timeline of the last events.
*Operations:* create, activate, verify, set thresholds, acknowledge, suppress and
unsuppress, note, assign, notify, change the follow-up's state; setup drafts and
diagnostic runs, which are upserted into the same table; the two readers of the health.
*Interactions:* all of them read the JSON, build a new one and write it back.
*Hard:* no version guards the column; drafts and diagnostics share the slug with a
connection; two services compute the escalation apart.
*Correct when:* the JSON is of one piece, an answered operation is lost only in the
ways the code cannot avoid, and the two services agree.

### 1.3 The other parts

| Part | State | Operations | What is hard, and what would make it correct |
|---|---|---|---|
| Subscriptions (`payments/subscription`) | Subscription, Invoice | upgrade, cancel with refund | Its wallet transaction is in WalletLedger; proration is not modelled. A plan change and its charge should happen together. |
| Ledger edges (`ledger-debit.interceptor.ts`, `refund-reconciliation.service.ts`) | none of their own | debit after the response, refund poller | Check before the handler, debit after it; a poller for records that are never PENDING outside a transaction. The low-balance alerts are in NotificationOutbox. |
| Stripe (`stripe.service.ts`, `stripe-webhook.controller.ts`) | as settlement | signature check, event routing | Shares the activation path that settlement models for MoMo. |
| PayPal (`payments/paypal`) | PaymentTransaction, wallet | order, capture, webhook guard, reconcile timer | A third guard of the same protocol. Webhook, reconcile and capture all settle a payment, but only capture credits the wallet: one that the webhook settles first is credited by nobody, since the capture then takes it for a duplicate. Planned. |
| Gateway reconciliation (`payments/reconciliation`) | reports, discrepancies | compare statements, resolve, scheduled jobs | Batch, one job at a time per process. |
| E-invoices (`payments/e-invoice`), beside the outbox | none | PDF, VAT | Arithmetic and layout. |
| Marketplace, the rest; affiliates (`marketplace`, `affiliate`) | statistics, conversions | affiliate payout | A payout sums the approved conversions and marks them paid in separate statements; a conversion should be paid once. |
| Workflow engine (`workflows`) | runs, circuit-breaker maps in memory | interpreter, retry with backoff, circuit breaker | Half-open lets any number of probes through. `executeWithRetry`, which has the breaker, is called by nothing. |
| AI agents (`ai-agent`) | sessions, triggers | message append, trigger tick | Read-modify-write of a message array; ticks that overlap. |
| Sandbox (`sandbox`) | in-memory sandboxes and budgets | execute, track spend | A second budget machine, synchronous per process. |
| Licensing (`licensing`) | License rows | generate, activate, validate, revoke | Two tenants activating one key. |
| AI token governance (`ai-token-governance.service.ts`, `ai-governance-persistence.service.ts`) | quota records | plan, persist | Kept beside the budgets. |
| Backups (`backups`) | schedules, jobs | execute | A run whose process dies stays RUNNING. |
| Connector catalogue, integration control plane | configuration rows | list, report | Read-only. |
| Orchestration contracts (`orchestration.service.ts`, `infrastructure-profile.service.ts`) | none to speak of | build descriptive records | Sequential. |
| Tenancy, identity, entitlements, auth | users, memberships, plans | lookups and checks per request | Sequential. |
| Zalo, notifications | tokens, logs | refresh, send | External I/O. |
| Developer portal, beside profiles | captured requests | record keeping | None; `recalculateTier` has no caller. |
| Payment analytics, analytics-bi, audit, compliance, consultant | append-only records | reports | Read-only. |
| Local mode (`database/memory-fallback.adapter.ts`, `local-mode`) | maps | development substitute for PostgreSQL | No transactions: the guarantees below are PostgreSQL's and do not extend to it. |
| Web, docs, edge; connector SDKs | | | User interface, static site, proxy, client libraries. |

`PROJECT.json` lists every part with its status, and under `hazards` each place
where the code can go wrong in a way a unit test would hardly reach, with the
property that watches it or the reason why none does yet.

## 2. The modules

```
LedgerData ──┬── AtomicLedger            the promise
             └── WalletLedger            the code       ── MCWalletLedger
                   └── WalletLedgerProofs
PaymentSettlement ── MCPaymentSettlement        (implements PaymentBook)
   └── PaymentSettlementProofs
RefundEngine ── MCRefundEngine                  (implements AtomicRefunds)
   └── RefundEngineProofs ────────────┐
AiBudget ── MCAiBudget                │
   └── AiBudgetProofs ────────────────┼── SumTheorems   what the sums come to
Marketplace ── DeveloperPayouts       │
                 ├── MCDeveloperPayouts
                 └── DeveloperPayoutsProofs
NotificationOutbox ── MCNotificationOutbox      (implements MailQueue)
   └── NotificationOutboxProofs
ConnectionHealth ── MCConnectionHealth
   └── ConnectionHealthProofs
```

Four specifications have no code of their own and say what a component promises
(AtomicLedger, PaymentBook, AtomicRefunds, MailQueue): the detailed module instantiates
its own under a refinement mapping, and the run and a theorem show that it implements it.

The models share their conventions. A *call* is one request reaching the
API. `pc[c]` is the `await` at which call `c` stands; one action is the code
between two awaits, with all it writes. `req[c]` is chosen at the start and does
not change (in Marketplace a submission for review may go on as a decision). `answer[c]` is what the caller is told. A database transaction's writes
appear at its commit; the row lock it holds until then is explicit where several
protocols meet on one row (WalletLedger) and replaced by a single commit action
where every writer takes the same first lock. A definition marked `\* mutant` is
not part of the model: it is a plausible bug in the definition that follows it.
Putting it in that definition's place makes a run fail, which shows that the
property reads the code.

**LedgerData** has the requests, entries, limits and answers of the wallet:
`EntryOf` is the row `ledgerTransaction.create` writes, `Allowed` the limit check
of each kind of writer, `RefOf` the reference under which it books.

**AtomicLedger** is what the wallet promises, without a database: a call posts at
most one entry in one step, only under a free reference and within limits, and
then answers with an entry of the book or with a refusal that posted nothing.

**WalletLedger** is the code. `wallet` and `ledger` are the committed rows,
`lock[t]` the holder of the wallet's row lock, `snap[c]` the row read in the
transaction, `retries[c]` the `retryCount` argument.

| Action | Code |
|---|---|
| `Submit`, `Lookup` | `validateAmount`, `findExistingTransaction` before the transaction |
| `PreflightRead`, `PreflightCreate` | `getOrCreateWallet`, also alone (kind "open") |
| `ReadWallet`, `CreateWallet` | `ensureWallet` inside the transaction, with the limit check |
| `Cas` | `updateWalletWithCas` of the service and of the refund engine: waits for the row lock, compares the version; retry, conflict or serialization error |
| `LockWallet` | `SELECT ... FOR UPDATE` in `upgradeSubscriptionPlan` and `cancelWithRefund` |
| `Insert`, `Reply` | `ledgerTransaction.create` and COMMIT; `buildResult` |
| `Recheck` | the P2002 branch: look for the parallel request's entry |
| `Fail` | timeout, lost connection or crash at any await, before or after the commit |

**PaymentBook** is what becomes of a subscription's payments, without claims, lookups or
workers. `Settle` is the one settlement of an open payment by a guarded callback,
which then is `underway`: about to mark its payment paid. So are a legacy callback and a
webhook from the moment they are heard, and a reconcile once it has taken up a payment
that is open (`TakeUp`). Each of them concludes once: `MarkPaid` marks an open payment,
or one the callback has settled itself; `TakeBack` marks one that has been settled or
refunded meanwhile, which a guarded callback, a webhook and a reconcile may do and a
legacy callback may not; `GiveUp` is all else. A final state is therefore not final, since
the activator writes "success" over whatever it finds; the book says for whom it is not,
and how often. `PayInvoice` comes after the payment and `AddPeriod` after the invoice, at
most once for each call. Pending and processing are both "open": who holds the claim is
not to be seen. How far the expiry moves is left open between one period and all of them,
because a renewal may overwrite another.

**PaymentSettlement** has the rows of any number of payments of one subscription.
A row's `gatewayTxId` and `meta` say which lookups still find it: VNPay's row
starts under our order id, MoMo's under its request id; settlement and the legacy
handler rename both; VNPay's claim renames its row too, to the gateway's number, and a
release puts back the status only (`ClaimedRow`, `Release`). VNPay's settlement replaces
the metadata's orderId by vnp_TxnRef, so `activateByOrderId` finds it only by the
`gatewayTxId` it is called with, which is `given[c]` (the gateway's number, or in a MoMo
reconcile what the row had when it was looked up), and reconcile only once it is settled.

| Action | Code |
|---|---|
| `Receive` | dispatch to one of the five handlers; unpaid legacy and webhook calls end here |
| `ClaimLookup`, `Claim` | guard layers 1 and 2 |
| `Settle`, `SettleThrows`, `Release` | guard layer 3 and its catch, which gives the claim back |
| `Abandon` | the claim took effect and its reply was lost, or the release throws and `.catch(() => undefined)` swallows it |
| `Find`, `Mark`, `PayInvoice`, `ReadSubscription`, `WriteSubscription` | the activator, one action per database call; `Find` also has reconcile's own update when the activator found nothing |
| `LegacyMark`, `LegacyFind` | update by gatewayTxId = order id, then look up by the same key |
| `Reconcile` | lookup and terminal check of the two reconcile endpoints |
| `Refund`, `RefundMark` | the refund path's status check and, later, its status write |
| `Throws`, `Crash` | a database error where the handler has a catch; the death of the process |

Reconcile is modelled with the transaction number an operator may pass in the body
left out, or equal to the gateway's. Legacy MoMo callbacks find nothing to update, as MoMo's rows are
keyed by request id; the model shows this, it does not assume it.

**AtomicRefunds** is the refund without a transaction: `Give` raises the payment's total
and the wallet in one step, within both limits; `Succeed` and `Skip` are the two
answers that promise something, `GiveUp` the one that does not.

**RefundEngine** keeps committed refund records, the payment's status and the
wallet. `Check` is the caller's own check (`checkRefundIntegrity`, or the router's
search for an earlier record), `Begin` the transaction's reads and checks on one
snapshot, `Commit` its writes under PostgreSQL's first-updater-wins rule, `Reply`
the answer or its loss, `Mark` `markTransactionRefunded`, `OtherCredit` any other
wallet credit. `refunded[p]`, the sum the code aggregates, is kept beside the
records, and `WalletHoldsRefunds` checks that they agree.

**AiBudget** keeps the limits of one tenant, the log of counted requests and the
alerts raised. `Guard` and `GuardDefault` are `canActivate` and the default limit
`checkBudget` creates; `Lookup`, `Read`, `Commit`, `Abort` are `accumulate` with
its retry; `FindExpired`, `Reset`, `ResetFails` are `resetExpiredPeriods`;
`Administer` has the upsert, the update and the forced status, each with an amount and an
alert percentage from `Terms`; the default limit and those of `Init` have `DefaultTerms`.
A new limit stands where `evaluateStatus` puts a sum of 0, which is SOFT_LOCKED when the
alert percentage is 0. `past[p]` is the history the properties refer to: the requests
counted since the limit's last reset, the terms it had since then, and whether its status
is one an administrator has forced. A reset starts it anew (`Reset`), except for one that falls between
the read and the commit of an accumulation (`Straddled`), because the commit may bring the
old sum and status back. Rows of one
tenant are written by every accumulation in the same order, so that the first one
written serialises them, and their writes are one step; resets and administrators
write single rows and are steps of their own between read and commit.

**Marketplace** has one key and one developer. `listing.id` counts the listings the
key has had, as the database's ids do: the writes name the row by the id that was
read, so a listing that has taken the key of a deleted one is not touched.

| Action | Code |
|---|---|
| `LookForKey`, `SubmitListing` | `submitListing`; with a tenant the listing is published at once and counts as official |
| `FindByKey`, `ApproveListing`, `UpdateListing`, `InstallListing`, `DeleteListing` | the operations of `MarketplaceService`: `findByKey` with its check, then the write; `DeleteListing` is also `rejectListing`, which may so delete a listing that was approved meanwhile |
| `EnsureListingExists`, `SubmitForReview`, `CheckAutoApprove`, `RecordDecision`, `ApplyDecision` | `MarketplaceModerationService`: an action is recorded, then the listing is updated; an auto-approved submission goes on as the system's decision |
| `FindListing`, `FindOrder`, `GetShare`, `Purchase` | `purchase`: three reads and the transaction |
| `GetProfile`, `Register` | `DeveloperProfileService.register` |

What the code does and the model has with it: the `SUBMITTED` just recorded counts
against the developer's approval rate; `minReviewCount` counts listings, though its
comment says reviews; `totalListings` never counts up, so nobody leaves BRONZE by way
of the code (the initial states have a higher tier too, as an operator may set one).
Prices are not validated (`marketplace-v0.controller.ts:126`); the module assumes that
nobody submits a negative one, which would book a negative earning.

**DeveloperPayouts** extends it with the payouts, so that sales and payouts interleave
on one profile. `AskBalance` and `FindRequest` begin a call, `ReadTotal`, `ReadPaid`,
`ReadPending` are the three reads of the available balance, `RequestPayout` the
insert, `ApprovePayout` the commit of the approval's transaction, `RejectPayout`,
`CancelPayout`, `ProcessPayout` the other decisions, each with its status check some
steps earlier.

**MailQueue** is the outbox without a poller: `Ask` puts a mail in the queue, `GoesOut`,
`GoesOutUnnoted`, `Fails`, `NotNoted` and `Forget` are what happens to its copies, `Noted`
and `GivenUp` its two ends. A mail that has ended is touched by no action.

**NotificationOutbox** has the mails of invoices and of low-balance alerts. `Look` and
`Create` are the two halves of `enqueue` and of `handleThresholdCheck`; `QueryPending`,
`QueryRetries`, `StartSlice`, `EndPoll` are `pollOnce`; `LogOnly`, `Accept`, `Reject`,
`LoseAnswer`, `MarkSent`, `MarkSentFails`, `MarkFailed`, `MarkFailedFails` are `send`
with every outcome its try and catch distinguish; `EndEarly` is a `send` that ends before
its try with the row as it was, because the row says SENT by now (`Unsent`) or a database
call there throws; `Crash` ends the process in the
middle of a batch. That a back-off has passed and that an alert is older than the
cooldown are actions of the clock.

**ConnectionHealth** has one connection. Each operation is `Load` (validation and
`findFirst`), `Send` (the JSON is built from what was read and stamped with the time)
and an action named for the operation, which is the database's write. Drafts and
diagnostics are upserts of the same row; a diagnostic run is recorded under the slug of the
connection it is about or under any other (`RecordDiagnosticRun`, `RecordRunOfAnother`). A
connection created without a storage policy keeps the config the client sends as it is,
with the `_platform` it may contain: `ClientConfig` takes over its thresholds, suppression
and timeline. The health rules (`ResolveAlertThresholds`,
`ShouldAlertOperator`, `ShouldEscalateOperator`, `DiagnosticsEscalate`) are operators on
the JSON. Two things the model has because the code has them: an update of one
threshold spreads the undefined others over the stored ones, so that they fall back to
their defaults (and the check that the escalation threshold is not below the alert's
can never fail); a verification that does not pass writes back the status it had read,
which may be stale.

## 3. The runs

Every bound is in the `.cfg` or its MC module. Calls are made once each; the
system then stops, so deadlock checking is off. That calls do get to their end is
checked by liveness where it is not evident (`EveryCallAnswered`).

| Run | Instance | What it shows |
|---|---|---|
| `wallet_ledger` | 1 tenant, 3 calls, 8 requests, MaxRetry 1, limits 0..3 | 610 thousand states. The wallet replays its ledger (`BalanceReplaysLedger`); a transaction that may still write has read the committed row (`SnapshotsAreCurrent`); limits hold; answers are true; losing a round means another call committed in it (`LosersWereOvertaken`); the code implements AtomicLedger (`RefinesAtomicLedger`), in which a reference is booked once; every accepted call is answered. |
| `payment_settlement` | 1 MoMo and 1 VNPay payment of one subscription, 3 calls out of 10 requests in every combination | 1.19 million states. One callback at a time holds a claim, and a claimable payment has no holder; one settles; only it adds a period among the guarded ones; nothing counts as paid without evidence; the expiry stays within the periods granted; a row the guard cannot find is VNPay's, and a legacy callback has renamed it or a callback has claimed it without settling it (`FindableUnlessRenamed`); claims are given back; the handlers implement PaymentBook (`RefinesPaymentBook`), in which a final state is taken back at most once by each call already under way. |
| `refund_engine` | 2 payments of 3 and 1, 3 calls, 9 requests, 1 other credit, MaxBalance 4 | 2.9 million states. No over-refund; the wallet holds exactly the refunds on record and other credits; the code implements AtomicRefunds (`RefinesAtomicRefunds`), in which answers are true and a payment is marked only in answering an event. |
| `ai_budget` | 2 limits, 2 calls, costs 4 and 5, a limit of 5 with the alert at 4 or of 9 with the alert at 0, 1 period end, 1 administrative change, MaxRetry 1 | 370 thousand states. What is on a limit is within what the requests counted since its last reset cost, each once (`NeverOvercharged`); a lock that was not forced is earned by them (`LocksAreEarned`); alerts are throttled; what expired is reset. |
| `marketplace` | 3 calls out of 4, 11 and all operations, 1 buyer, 1 listing or none, 0 or 2 open payout requests | 370 thousand states. Sales are booked once (`SalesAreBooked`), also between registration, deletion and payout; what is public was approved by a call that saw it (`PublishedAsApproved`); approved payouts are debited (`PayoutsAreDebited`); unless decisions overlapped, the total is the sum of the earnings (`BooksBalance`). |
| `notification_outbox` | 3 calls about 1 invoice and 1 tenant, MaxRetries 1, BatchSize 2, Concurrency 1, 1 fault | 400 thousand states. The code implements MailQueue (`RefinesMailQueue`): a mail is repeated only for what went unnoted, SENT was sent, FAILED failed often enough, and neither is touched again; duplicates come of overlapping calls only (`TwoOnlyIfOverlapped`); every invoice mail ends (`EveryInvoiceMailEnds`). |
| `connection_health` | 3 calls, timeline of 2 entries, escalation at 2 failures, a clock of 3 values, a client's config with and without a `_platform` | 560 thousand states. Facets and timeline agree (`FacetsMatchTimeline`); an answered operation is lost only to an overlap, an upsert or the timeline's length (`LostOnlyToOverlap`); the two computations of the escalation agree once an operator has set thresholds and while there are none (`SurfacesAgree`). |
| `reconcile_recovers`, `renewals_stack`, `webhook_idempotent`, `refunded_only_in_full`, `hard_lock_holds` | two calls or one | Violations: section 5. |

*Why the bounds are enough for what is asked.* The wallet's protocols conflict
pairwise: two calls show every conflict, the third an overtaker during a retry or
a duplicate during a conflict. With three calls a call can lose two rounds, so
MaxRetry 1 shows both retrying and giving up (5 in the code). Tenants share nothing
but the code, so one suffices. For a settlement, three calls are a callback, its
duplicate and one disturbance of another kind, or both payments of a subscription
and a reconcile. A refund needs two that fit together and a third that does not.
In AiBudget one call can cross either threshold and two can cross both. Amounts
are small integers: no property depends on their size, only on which sums fit
which limits, and the requests have both sides of each. A listing replaced under its
key takes three calls (an approval that has read the old one, its deletion, a new
submission); so does a payout decided twice around a sale. Three mails fill a batch
(BatchSize 2) and leave one behind it, a batch of two is two slices, and one fault is
enough for each way a mail may be repeated; a second one only repeats it again. Two
failing verifications reach the escalation threshold, and the third call's entry
pushes the first out of a timeline of `Keep + 1 = 2` entries (10 in the code);
`LastStamp` and `Horizon` let a suppression begin, hold and end.

*Database assumptions.* PostgreSQL: READ COMMITTED statements read committed rows
and an update waits for the row lock, then re-evaluates its condition;
Serializable transactions fail when a row they update changed since their
snapshot; unique indexes make the second inserter wait and fail. Prisma
interactive transactions roll back when their callback throws.

*Fairness.* `WalletLedger` and `PaymentSettlement`: weak fairness of each call's
own steps, as the process runs the handlers it has accepted and the database
serves lock waiters; nothing obliges a caller to submit, a database call to throw
or a process to die. Nor does fairness hide such failures: `ClaimsAreReleased`
names the two cases in which a claim stays, the death of its holder and an
abandoned claim or release, because the code cannot recover from either. `AiBudget`:
the scheduler's timer starts runs (weak fairness of `FindExpired`) and not every
run is cut short before the row in question (strong fairness of `Reset`, since
`ResetFails` may disable it any number of times). `NotificationOutbox`: the poller
polls (`setInterval`, and pm2 restarts the process), an attempt ends (the mail
transport has timeouts), and back-offs pass. The mail server may refuse for ever and
calls need not go on. One poller is what the deployment has: one process under pm2
(`src/docs/ops/api-vps-runbook.md`); two would mail the same row twice. Other properties are safety and
need none.

*Mutants.* Each property of a passing run is paired with a mutation of a
definition, for example a compare-and-set that ignores the version, a release
without its status condition, a missing unique index, a threshold check on the
stale row, that makes the property fail under the same configuration.

## 4. What is proved

For every value of the constants under the named assumptions (`LedgerConstants`,
`MaxRetryAssumption`, `SettlementConstants`, `RefundConstants`, `BudgetConstants`,
`MarketplaceConstants`, `MaxRequestsNat`, `OutboxConstants`, `ConnectionConstants`), i.e. any numbers of tenants, calls, payments,
references and rows, any limits and workloads:

| Theorem | Statement |
|---|---|
| `WalletLedgerProofs!TypeCorrect` | `Spec => []TypeOK` |
| `WalletLedgerProofs!SnapshotSafety` | `Spec => []SnapshotsAreCurrent` |
| `WalletLedgerProofs!BalanceSafety` | `Spec => []BalanceReplaysLedger` |
| `WalletLedgerProofs!AnswerSafety` | `Spec => []AnswersMatchLedger` |
| `WalletLedgerProofs!LimitSafety` | `Spec => []BalanceWithinLimits` |
| `WalletLedgerProofs!Refinement` | `Spec => RefinesAtomicLedger` |
| `WalletLedgerProofs!RetrySafety` | `Spec => []LosersWereOvertaken` |
| `PaymentSettlementProofs!TypeCorrect` | `Spec => []TypeOK` |
| `PaymentSettlementProofs!ClaimSafety` | `Spec => []ClaimIsExclusive` |
| `PaymentSettlementProofs!SettlementSafety` | `Spec => []OneCallbackWins` |
| `PaymentSettlementProofs!EvidenceSafety` | `Spec => []PaidOnEvidence` |
| `PaymentSettlementProofs!LookupSafety` | `Spec => []FindableUnlessRenamed` |
| `PaymentSettlementProofs!StatusSafety` | `Spec => StatusMovesForward` |
| `PaymentSettlementProofs!PeriodSafety` | `Spec => []PeriodsAreEarned` |
| `PaymentSettlementProofs!Refinement` | `Spec => RefinesPaymentBook` |
| `PaymentSettlementProofs!RenewalsStackInTurn` | `Spec /\ [][RenewsInTurn]_vars => []RenewalsStack` |
| `PaymentSettlementProofs!GuardedPaymentsAddOnePeriod` | `OnlyGuardedCalls => (Spec => []OnePeriodPerPayment)` |
| `PaymentSettlementProofs!ReconcileTellsTheTruth` | `Spec /\ [][NothingCutOff]_vars => []ReconcileRecovers` |
| `PaymentSettlementProofs!FruitlessCallers` | `Spec => [](\A c \in Calls : Fruitless(c) => c \notin granted)` |
| `PaymentSettlementProofs!LostClaimsStayLost` | `Spec => [][\A p \in Payments : Lost(p) => Lost(p)' /\ tx'[p] = tx[p]]_vars` |
| `RefundEngineProofs!TypeCorrect` | `Spec => []TypeOK` |
| `RefundEngineProofs!RefundSafety` | `Spec => []NoOverRefund` |
| `RefundEngineProofs!WalletSafety` | `Spec => []WalletHoldsRefunds` |
| `RefundEngineProofs!AnswerSafety` | `Spec => []AnswersAreTrue` |
| `RefundEngineProofs!Refinement` | `Spec => RefinesAtomicRefunds` |
| `RefundEngineProofs!FullRefundsMarkTruly` | `FullEvents => (Spec => []RefundedOnlyInFull)` |
| `AiBudgetProofs!TypeCorrect` | `Spec => []TypeOK` |
| `AiBudgetProofs!ChargeSafety` | `Spec => []NeverOvercharged` |
| `AiBudgetProofs!LockSafety` | `Spec => []LocksAreEarned` |
| `AiBudgetProofs!AlertSafety` | `Spec => []AlertsThrottled` |
| `AiBudgetProofs!HardLockHoldsInTurn` | `Spec /\ [][CommitsInTurn]_vars /\ [][NoAdministration]_vars => HardLockHolds` |
| `AiBudgetProofs!BudgetsAreExactInTurn` | `Spec /\ [][CommitsInTurn]_vars /\ [][ResetsInTurn]_vars => []BudgetsAreExact` |
| `DeveloperPayoutsProofs!TypeCorrect` | `Spec => []TypeOK` |
| `DeveloperPayoutsProofs!BalanceSafety` | `Spec => []BooksBalance` |
| `DeveloperPayoutsProofs!SalesSafety` | `Spec => []SalesAreBooked` |
| `DeveloperPayoutsProofs!PublicationSafety` | `Spec => []PublishedAsApproved` |
| `DeveloperPayoutsProofs!DebitSafety` | `Spec => []PayoutsAreDebited` |
| `DeveloperPayoutsProofs!AvailableIsGross` | `Spec => [][PayoutsAreNotSubtracted]_vars` |
| `NotificationOutboxProofs!TypeCorrect` | `Spec => []TypeOK` |
| `NotificationOutboxProofs!DeliverySafety` | `Spec => []MailsAreAccountedFor` |
| `NotificationOutboxProofs!Refinement` | `Spec => RefinesMailQueue` |
| `NotificationOutboxProofs!AlertsAreNeverMailed` | `Spec => [](\A j \in Jobs : IsAlert(j) => log[j].status = "PENDING" /\ mailed[j] = 0)` |
| `NotificationOutboxProofs!OverlapSafety` | `Spec => []TwoOnlyIfOverlapped` |
| `ConnectionHealthProofs!TypeCorrect` | `Spec => []TypeOK` |
| `ConnectionHealthProofs!FacetSafety` | `Spec => []FacetsMatchTimeline` |
| `ConnectionHealthProofs!SurfaceSafety` | `Spec => []SurfacesAgree` |
| `ConnectionHealthProofs!OverlapSafety` | `Spec => []LostOnlyToOverlap` |

*The wallet.* `BalanceReplaysLedger` is not inductive: whether an `Insert` continues
the book depends on what the writer read. The strengthening is
`SnapshotsAreCurrent`: a lock holder's snapshot is the committed row, and a
compare-and-set writer that does not hold the lock yet has either an older version
or the same row. It is where the three protocols meet, and needs versions to grow
with every write, which is part of `Replays`; so the two are proved together, by
cases on who steps and whose tenant it is. That a reference is booked once is the unique
index alone, checked in the step that commits, and is stated as a guard of AtomicLedger's
`Post` only.

*The wallet implements the abstract ledger.* `AnswerInv` adds to the above what each
call has checked where it stands (`Standing`: a call about to commit is within its
limits at the balance it has read) and what it has booked (`Bookings`: nothing before its
commit; between commit and reply the entry under its reference is its own). With it
every step has one of five outcomes (lemma `Outcome`): the call goes on, ends without a
result, repeats the entry it found, replies, or posts. Posting maps to `Atomic!Post`
because the snapshot it is computed from is the committed balance
(`BalanceReplaysLedger`), the three kinds of answer map to `Atomic!Answer`, and all else
stutters. `BalanceWithinLimits` needs itself as well: a credit keeps a book above the
lower limit because the book was there before. `LosersWereOvertaken` follows from the
same invariants: the version a call has read counts the entries there were, so a lost
round means one more of them by somebody else (`RoundsLost`). The entry a wallet is opened
with is nobody's round, and was there before any call read a version (`OpeningFirst`).

*The claim.* `ClaimIsExclusive` has "a pending payment has no holder" as its second
half and is inductive with the types: a claim is won only on a pending row, and a
release that makes the row pending again is made by its only holder. That needs
that no other writer makes a row pending or processing (`StatusSteps`).

*The settlement.* `OneCallbackWins` is not inductive. `SettlementInv` adds that a
settled payment is, and stays, in a terminal status (`SettledIsFinal`), so that the
fence keeps a second settlement out even after a release that came late, and that
a guarded callback inside the activator has settled itself (`GuardedCallsSettle`).

*The evidence.* `PaidOnEvidence`, `FindableUnlessRenamed` and `StatusMovesForward` rest on
one invariant, `EvidenceInv`, of rows and calls together. Of a row (`RowInv`): MoMo's keeps
the key its activator looks for; VNPay's has the metadata's order id until it is terminal,
and has lost the other one only to a settlement, which leaves vnp_TxnRef, to a legacy
handler, or to a claim that was not followed by a settlement (`ClaimedUnsettled`); what is
paid has a call vouching for it. Of a call: what it has come past (`Behind`) and what it may still
find in the row whoever has written it since (`Relies`). It shows two things the
handlers do not say. A VNPay reconcile never comes past its first lookup to a row that is
not terminal, and the legacy VNPay handler never finds the row it has just renamed
(`FruitlessCallers`). From the same invariant, a VNPay row that is not terminal, has its
claim's number and no callback at work is `Lost` for good (`LostClaimsStayLost`): the guard
looks for keys it does not have, reconcile and legacy callbacks as well, and a refund only
takes what is paid. `PeriodsAreEarned` needs only that a call which has added its period is done.

*The settlement implements the payment book.* The mapping forgets the claim: pending and
processing are "open", a call is heard once it has left "idle", and it is under way where
its next step marks the payment (`Marking`). With `EvidenceInv` and
`SettlementInv` every step either leaves the states as they are (`StateKept`) or moves the
one of a single payment (`StateWritten`). A write of "success" is `Settle` for the guard and
`MarkPaid` or `TakeBack` for all others. Which one, `Behind` decides: a guarded callback
inside the activator has settled its payment as paid, and a reconcile has found it open
(`BookInv` has what remains to be known of where each kind of call stands). `Settle` needs that an open payment has no settlement,
which is `SettledIsFinal`. `StatusMovesForward` is what the book says of states alone; it is
still proved on its own.

*Sums.* Refunds, budgets and payouts compare stored sums with what single records add up
to, by `MapThenSumSet`, which is a recursion over a set in an order that CHOOSE picks. The
library's induction theorems take an operator as a parameter, which the provers cannot
instantiate, so `SumTheorems` argues by a least counterexample instead, on the sizes of
the sets (`LeastNumber`). `Total(a, S)` is the sum of the amounts without an order; it
exists and is unique on a finite set, any solution of the recursion yields it
(`RecursionTotal`), an element more adds its amount (`TotalAdd`), and it depends on the
amounts of its own elements only (`TotalCong`). The three modules show once that their
sums are totals and work with these lemmas.

*The refunds.* `Booked` and `Held` say that `refunded` and the balance are the totals of the
records. They are kept because of `Checked`: what a call about to commit has read and
checked, the sum, the record and the limit, is still so unless the wallet's version has
moved, in which case the serializable transaction fails. `Answered` relates each answer
to the records: a call has one exactly from its commit on.
The same invariant gives the refinement of AtomicRefunds: `Commit` is `Give`, since what
was checked on the snapshot holds of the committed rows when the transaction does not
fail; an answer finds the records that `Answered` promises; and `Mark`, a write some
steps later, is the answer to the event whose refund it follows. `AnswersAreTrue` is what
that says of answers alone.

*The budgets.* No total can be exact, as absolute values overwrite each other, and the
invariant says what remains (`Counts`): neither a stored sum nor one that an open
transaction has read and will write back exceeds the cost of the requests counted since
the limit's last reset, and each of those is in the log, so that the next commit counts
its request for the first time. A status is computed from such a sum and terms in force,
so it is earned by them (`Earned`) until an administrator forces one; an upsert and a
change of terms keep it earned because terms once in force stay in `past`. `Configs` is
needed for it: that the terms of each limit, and of each reading of it, are in `past`, and
that nobody works on a limit that is not set. An alert leaves its cooldown behind until
the reset that forgets both (`Throttled`).

*The marketplace.* `SaleInv` adds to `SalesAreBooked` what a purchase relies on:
a call that has come past `FindListing` does not buy what is its own (`Entitled`), and
without a profile nothing is on record (`RegisteredFirst`), so that registering writes
no totals over sales. A purchase is the only step that is not `Still`; that its buyer
has no sale yet follows from `SalesHaveOrders`. `PublicationInv` adds what each call
knows when it comes to write the listing (`Knows`): whoever approves has read it
unpublished, whoever applies a decision on the same listing has its action on record;
and the call that published last has ended (`PublisherRests`), so that what it read and
was asked for stays. `DebitInv` adds that a call about to process a payout comes upon
an approval whose debit is on record (`Held`), and that earnings and amounts of requests
are never rewritten. `BalanceInv` says that an earning of type payout belongs to a request
there is, and that the books balance unless decisions overlapped: an approval that does not
overlap finds the total it has read and a request without a debit, any other decision
one that has a debit exactly if it was approved.

*The outbox.* Whatever the poller has in hand is accounted for by where it stands:
the strengthening relates, for each row, its status, its count and its task to how
often the server took the mail and how often that went unnoted (`MailsAreAccountedFor`).
That is also what the refinement of MailQueue needs: a copy is on its way exactly where a
task stands at "sent", so that a crash is `Forget`, and a row in any other hand is `Here`.
The poller itself, batch, slice, back-off and cooldown are not to be seen in the queue.
`TwoOnlyIfOverlapped`
needs that no row of the kind was there when a call, now at its insert, looked.

*The connection.* `HealthInv` holds of the stored JSON and of every JSON a call has
read, as any of them may be written back: each is of one piece (`FacetsMatch`), and its
thresholds are resolved ones if an operator has set them, which the facet of that operation
tells. The escalation is then the same in both computations. What a client brings with its
config is of one piece by being without facets. `LostOnlyToOverlap` needs the same idea with a place in time: every timeline a
call has in its hands covers the writes up to the one it was read after (`Follows`), and
who wrote its d-th last entry has been followed by d writes (`Late`), so that what the
length of the timeline cuts off is old enough.

*What is left of the promises.* Where the code does not keep what a comment says (section
5), a run shows the behaviour that breaks it, and a theorem names a condition under which
it is kept: without the hazard the condition names there is no such behaviour. Each
condition restricts the environment or one kind of step; the rest of the system stays free.

| Promise | kept as long as | argument |
|---|---|---|
| renewals stack | no subscription is written over a change since it was read (`RenewsInTurn`) | every write then adds a period to the current expiry |
| one period per payment | all calls come through a guard, or are refunds (`OnlyGuardedCalls`) | `OneCallbackWins` |
| reconcile can recover | no activation is cut off by an error or a crash, and no paid settlement commits and then throws (`NothingCutOff`) | a paid payment has its period, or a call on the way to it (`RecoveryInv`) |
| refunded means in full | events report full amounts (`FullEvents`) | a reported refund on record leaves nothing to refund (`FullInv`) |
| a hard lock holds | no accumulation commits on a sum that has changed since it was read, and nobody administers (`CommitsInTurn`, `NoAdministration`) | a locked limit is spent (`LockInv`), and sums only grow until a reset |

Under `CommitsInTurn` alone budgets are even exact, as long as no reset falls into an open
accumulation (`ResetsInTurn`, `BudgetsAreExactInTurn`), where otherwise only
`NeverOvercharged` holds.

Four theorems are about what never happens, each against a comment (section 5):
`FruitlessCallers` and `LostClaimsStayLost`, from what `EvidenceInv` says of the keys under
which a row is found;
`AlertsAreNeverMailed`, as the poller holds rows with a count only; `AvailableIsGross`, from
`BooksBalance` and the lemma `TotalSplit`, that a sum is that of its two parts.

*Only model-checked.* Liveness under fairness and ENABLED are out of this prover's
reach: `EveryCallAnswered`, `ClaimsAreReleased`, `ExpiredIsReset` and `EveryInvoiceMailEnds`
stay with TLC, and so does the violation in every disagreement of section 5, which is a
behaviour to be found. All invariants and all four refinements that the passing runs check
are theorems.

## 5. Disagreements between the code and its comments

Each has a run whose only property states what the comment says, and a shortest
behaviour of the model that breaks it.

* **reconcile_recovers.** `vnpay.controller.ts:262-263` says reconcile can recover
  a payment whose activation failed after its settlement. Settlement makes the
  payment `success`, and reconcile returns at once for a terminal payment,
  answering `activated: true`; no period is added.
* **renewals_stack.** `subscription-activator.service.ts:49-50` says a renewal stacks
  on the existing expiry. Two activations of one subscription that read the same
  `expiresAt` both write it plus one period: one period is lost.
* **webhook_idempotent.** `payments-webhook.service.ts:191-193` says that the MoMo
  webhook's idempotency is handled by MomoIpnGuard. The handler never calls the
  guard; two deliveries add two periods for one payment.
* **refunded_only_in_full.** `refund-webhook.router.ts:19` and `:96` say the payment becomes
  `refunded` when refunded in full. It does after any reported refund, and the rest
  can then no longer be refunded.
* **hard_lock_holds.** `budget.service.ts:124-125` says HARD_LOCKED is left only by a
  reset or an administrator. Two accumulations that read the same sum write
  absolute values; the smaller one overwrites the larger and its evaluation lifts
  the lock.

Seen while modelling, without a run of their own:

* **A lost VNPay IPN is not recovered.** `vnpay.controller.ts:14-15` calls reconcile a safety
  net for a lost or late IPN. It looks the payment up by `metadata.vnp_TxnRef` (`:466-472`),
  which only the settlement of an IPN writes; the row of a payment whose IPN never came has
  its order id elsewhere and is answered "not found". `FruitlessCallers` proves that a VNPay
  reconcile never adds a period.
* **A released VNPay claim is not recovered.** `vnpay.ipn.guard.ts:198` says that the release
  of a claim whose settlement failed lets an IPN redelivery recover it. The claim has
  replaced the row's order id by the gateway's number (`:115-122`), the release restores
  the status only, and vnp_TxnRef is written by the settlement that failed: the redelivery
  finds nothing, and `handleIpn` answers it with RspCode 00, "already processed"
  (`vnpay.controller.ts:217-222`), after which the gateway stops. `LostClaimsStayLost` proves
  that nobody changes such a payment again, once the callbacks that had already found it
  have ended. `ClaimsAreReleased` is about the status alone: a
  payment that is pending again is not yet one that can be claimed.
* **A refund is undone.** A call already inside the activator, or a webhook, marks its
  payment "success" whatever it has become since (`subscription-activator.service.ts:139`), also
  when it has been refunded meanwhile. PaymentBook has this as `TakeBack` and bounds it: once
  for each such call, and by a reconcile only if it has seen the payment open.
* **Thresholds stored on creation.** An operator's update stores
  thresholds resolved (`connection-instances.service.ts:931-945`); a connection created without a
  storage policy stores what its config brings (`:1936-1944`). On `immediateFailures` 3 and
  `repeatedFailures` 1 the diagnostics escalate after one failure and the timeline, which resolves what it
  reads, does not, until an operator sets thresholds. The MC module has this config, and
  `SurfacesAgree` excepts it.
* **The default limit overwrites another.** Two first requests that find no limit upsert the
  default one (`budget.service.ts:453-469`), over what an administrator has set in between.
* **The legacy VNPay handler never activates.** `payments.service.ts:154-175` renames
  `gatewayTxId` from the order id to the transaction number and then looks for the order id
  again to activate the invoice; where VNPay numbers the transaction, it finds nothing
  (`FruitlessCallers`).
* **The available balance.** `payout.service.ts:77` says available = totalEarnings −
  paidOut − pendingPayoutRequests. A payout's earning is negative and `totalEarnings` is
  lowered by it as well, so the subtraction of the negative sum adds what the total lost:
  what is available is the gross sales less the pending requests, whatever was paid
  before. `ReadPaid` and `Available` have it as it is, and `AvailableIsGross` proves it;
  `PayoutsAreDebited` and `BooksBalance` say what remains true of the books.
* **Low-balance alerts are never mailed.** `ledger-notification.service.ts:10-11` says the
  outbox poller, or one of their own, sends them. Their metadata has neither `retryCount` nor `nextRetryAt`, so
  neither query of the poller finds them: they stay PENDING and still throttle the next
  alert for a day (`AlertsAreNeverMailed`). In the model they have `NoCount`, and `EveryInvoiceMailEnds` is about
  invoices only. `discrepancy-resolver.service.ts` writes its notices the same way.
* **enqueue is idempotent only while the mail is pending**: a redelivered payment after
  the mail was sent enqueues it again.
* **A decision written over another one** (a cancellation over an approval) leaves a
  debit without a payout; `overlapped` records it and `BooksBalance` excepts it.
* **Installing a connector** counts the download and then creates an
  `IntegrationConnection` with fields the schema does not have, which throws.

## 6. What is not modelled, and why

Within the modelled parts: signatures and parsing of callbacks (taken as verified;
a forged callback is no state of this system), currencies and rounding of amounts,
texts, notifications and mails, one-off plans without a period, the creation of
payments (the initial states), Stripe's and PayPal's handlers, the purge of old
accumulation logs (it may forget a request id that is metered again months later)
and the computation of period windows, of which only "has ended" remains. A window given by
a reset or an upsert is taken to end in the future: `calcPeriodWindow` may compute a monthly
one that does not (`budget.service.ts:88-94`), which `ExpiredIsReset` then says nothing of.
An operator who reconciles by hand is taken to give the gateway's own transaction number or none.
`OpeningPeriods` is 0 in the main settlement run; expiries count plan periods
from now, so the passing of time is left out.

Marketplace leaves out the operations nothing calls (`submitConnector`,
`approveConnector`, `rateConnector`, `recalculateTier`), texts, versions and statistics;
NotificationOutbox the length of back-offs and cooldowns, the PDF and the addresses;
ConnectionHealth `storageRouting`, what else than health records a client's config or a draft's
has under `_platform`, thresholds that are not whole numbers, the members of `mappedObjects`,
the alert cooldown (it is only stored and reported) and the endpoint that combines a
diagnostic run with an activation, which is those two in a row.

Some properties excuse what the code does nothing about, and say so where they are
defined. `LostOnlyToOverlap`, `TwoOnlyIfOverlapped` and `BooksBalance` excuse the overlap of
two calls: they show that nothing else loses an operation, repeats a mail or parts the
books. `NeverOvercharged` and `LocksAreEarned` excuse a reset that falls into an open
accumulation. `NoOverRefund` bounds the refunds of a payment by its amount; that two deliveries
of one partial event, checked at the same time, are both credited within it
(`refund-webhook.router.ts:129`) is not a violation of anything checked. In
`notification_outbox` three rows do not fill the window of twice the batch that
the retries are read from, so that a row waiting at its head is not exercised there.

Other parts are listed in 1.3 and in `PROJECT.json` with the reason. In short:
read-only reports, record keeping by one request at a time, external I/O and user
interface have no protocol to check; what has one is in the plan. These are most of the
repository's lines: dashboard and documentation pages, controllers that pass a request
on, and services that assemble descriptive records without writing state, such as
`orchestration.service.ts` and `infrastructure-profile.service.ts`. The models map the
services that write shared rows, a few per cent of all lines.

## 7. Plan

Done, in this order: the wallet with its abstract ledger, settlement, refunds,
budgets, the marketplace with its payouts, the mail outbox, connections, and for each of
them the proofs of section 4. The order follows the money first, then what a customer is told.

Next modules:

1. `PayPalTopUp`: the third guard composed with the service writer of WalletLedger:
   a captured order is credited once, also across webhook, crash and reconcile.
2. `AffiliatePayout`: a conversion is paid once, across two payouts of one affiliate.
3. `Licensing` (key activation), `AgentSession` (lost messages), `Backups` (a run whose
   process dies).
4. `PeriodWindow`: `calcPeriodWindow` as a function of a small calendar, checked
   against a reference definition over bounded inputs.

Next proofs: the invariants of these modules. Those of the present ones are proved, and
the wallet, the settlement, the refunds and the outbox implement their abstract
specifications. What could still be shown is that the marketplace implements an abstract
book of sales and payouts, and what a connection's record keeps of the operations in the
order of their writes.
