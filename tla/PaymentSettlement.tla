-------------------------- MODULE PaymentSettlement -------------------------
(***************************************************************************)
(* From a gateway's callback to a subscription period: the MoMo and VNPay  *)
(* parts of payments/, with everything that writes a PaymentTransaction.   *)
(*                                                                         *)
(* A payment starts pending, created by PaymentsService.createPayment for  *)
(* an invoice of one subscription.  It is then met by any number of calls: *)
(*   "ipn"       the gateway's callback, through the idempotency guard     *)
(*               (MomoController / VnpayController handleIpn);             *)
(*   "legacy"    PaymentsService.handleMomoIpn / handleVnpayIpn, which the *)
(*               old callback and return URLs still reach;                 *)
(*   "webhook"   PaymentsWebhookService.handleMomoIpn;                     *)
(*   "reconcile" the manual safety net of both controllers;                *)
(*   "refund"    RefundWebhookRouter's status change after a refund.       *)
(*                                                                         *)
(* Every await is a point where other calls run; a callback may be         *)
(* delivered more than once, late or never, a database call may throw, and *)
(* the process may die.  Signatures are taken as verified, gateways number *)
(* every transaction they report, and plans are recurring: expiresAt is    *)
(* counted in plan periods from now.                                       *)
(***************************************************************************)
EXTENDS Integers, FiniteSets

CONSTANTS Payments,        \* the PaymentTransaction rows
          MomoPayments,    \* those paid through MoMo; the rest are VNPay's
          Calls,           \* requests that reach the API, each once
          Workloads,       \* what the calls are, together
          OpeningInvoices, \* which payments are for an invoice
          OpeningPeriods   \* periods the subscription may have left at the start

Kinds == {"ipn", "legacy", "webhook", "reconcile", "refund"}

RequestType == [kind : Kinds, payment : Payments, paid : BOOLEAN, amountMatches : BOOLEAN]

ASSUME SettlementConstants ==
  /\ MomoPayments \subseteq Payments
  /\ Workloads \subseteq [Calls -> RequestType]
  /\ OpeningInvoices \subseteq [Payments -> {"none", "open"}]
  /\ OpeningPeriods \subseteq Nat
  \* only MoMo is given the alternate webhook URL
  /\ \A w \in Workloads : \A c \in Calls :
       w[c].kind = "webhook" => w[c].payment \in MomoPayments

VARIABLES tx,       \* tx[p]: status, gatewayTxId and the key its metadata holds
          invoice,  \* invoice[p]: the payment's Invoice: "none", "open" or "paid"
          expiry,   \* the Subscription's expiresAt, 0 when past or unset
          opening,  \* expiry at the start
          pc, req,  \* where call c is and what it is
          found,    \* found[c]: the row activateByOrderId has found
          given,    \* given[c]: the gatewayTxId activateByOrderId was called with
          base,     \* base[c]: the expiry activateBySubscriptionId has read
          answer,   \* answer[c]: what call c answered
          settled,  \* the calls whose settle transaction committed
          granted   \* the calls that added a period

vars == <<tx, invoice, expiry, opening, pc, req, found, given, base, answer, settled,
          granted>>

Statuses == {"pending", "processing", "success", "failed", "refunded"}
TERMINAL_STATES == {"success", "failed", "refunded"}

\* What gatewayTxId and metadata name decides which lookups still find the row.
GatewayTxIds == {"order", "request", "number"}
Rows == [status : Statuses, gatewayTxId : GatewayTxIds,
         meta : {"orderId", "txnRef", "raw"}]

PCs == {"idle", "lookup", "claim", "settle", "release", "find", "mark", "invoice",
        "subread", "subwrite", "legacymark", "legacyfind", "reconcile", "refundmark",
        "refund", "done"}

\* "abandoned" is a retry too, of a callback that has lost hold of its claim.
Answers == {"none", "accepted", "rejected", "retry", "abandoned", "notfound", "final",
            "activated", "error"}

Kind(c) == req[c].kind
Payment(c) == req[c].payment
Row(c) == tx[Payment(c)]
Momo(c) == Payment(c) \in MomoPayments

TypeOK ==
  /\ tx \in [Payments -> Rows]
  /\ invoice \in [Payments -> {"none", "open", "paid"}]
  /\ expiry \in Nat /\ opening \in OpeningPeriods
  /\ pc \in [Calls -> PCs]
  /\ req \in [Calls -> RequestType]
  /\ found \in [Calls -> Rows]
  /\ given \in [Calls -> GatewayTxIds]
  /\ base \in [Calls -> Nat]
  /\ answer \in [Calls -> Answers]
  /\ settled \subseteq Calls /\ granted \subseteq Calls

\* createPayment: VNPay's row is keyed by our order id, MoMo's by its request id.
NewRow(p) == [status |-> "pending",
              gatewayTxId |-> IF p \in MomoPayments THEN "request" ELSE "order",
              meta |-> "orderId"]

Init ==
  /\ tx = [p \in Payments |-> NewRow(p)]
  /\ invoice \in OpeningInvoices
  /\ opening \in OpeningPeriods /\ expiry = opening
  /\ pc = [c \in Calls |-> "idle"]
  /\ req \in Workloads
  /\ found = [c \in Calls |-> NewRow(Payment(c))]
  /\ given = [c \in Calls |-> "number"]
  /\ base = [c \in Calls |-> 0]
  /\ answer = [c \in Calls |-> "none"]
  /\ settled = {} /\ granted = {}

-----------------------------------------------------------------------------
Goto(c, label) == pc' = [pc EXCEPT ![c] = label] /\ UNCHANGED answer

Answer(c, what) ==
  /\ pc' = [pc EXCEPT ![c] = "done"]
  /\ answer' = [answer EXCEPT ![c] = what]

Write(c, row) == tx' = [tx EXCEPT ![Payment(c)] = row]

\* What the caller hears once the activator has returned or thrown.  The callback
\* handlers swallow its errors; the legacy handlers and reconcile do not.
Concluded(c, activated) ==
  Answer(c, IF Kind(c) # "reconcile" THEN "accepted"
            ELSE IF activated THEN "activated" ELSE "final")
Thrown(c) == Answer(c, IF Kind(c) \in {"ipn", "webhook"} THEN "accepted" ELSE "error")

Receive(c) ==
  /\ pc[c] = "idle"
  /\ CASE Kind(c) = "ipn" -> Goto(c, "lookup")
       [] Kind(c) = "legacy" /\ req[c].paid -> Goto(c, "legacymark")
       [] Kind(c) = "webhook" /\ req[c].paid -> Goto(c, "find")
       [] Kind(c) = "reconcile" -> Goto(c, "reconcile")
       [] Kind(c) = "refund" -> Goto(c, "refund")
       [] OTHER -> Answer(c, "rejected")
  /\ UNCHANGED <<tx, invoice, expiry, opening, req, found, given, base, settled, granted>>

-----------------------------------------------------------------------------
(* The idempotency guard: claim and settle. *)

\* The guards look a payment up by two keys.
ClaimFinds(c) ==
  IF Momo(c) THEN Row(c).meta = "orderId" \/ Row(c).gatewayTxId = "number"
             ELSE Row(c).gatewayTxId = "order" \/ Row(c).meta = "txnRef"

PrecheckNoAmount(c) == ClaimFinds(c) /\ Row(c).status \notin TERMINAL_STATES  \* mutant

Precheck(c) ==
  ClaimFinds(c) /\ Row(c).status \notin TERMINAL_STATES /\ req[c].amountMatches

\* Layer 1: unknown, already terminal and mismatching callbacks are acknowledged.
ClaimLookup(c) ==
  /\ pc[c] = "lookup"
  /\ IF Precheck(c)
       THEN Goto(c, "claim")
       ELSE Answer(c, "accepted")
  /\ UNCHANGED <<tx, invoice, expiry, opening, req, found, given, base, settled, granted>>

ClaimableNotTerminal(c) == Row(c).status \notin TERMINAL_STATES  \* mutant

Claimable(c) == Row(c).status = "pending"

\* VNPay's claim also names the row by the gateway's number; MoMo's does not.
ClaimedRow(c) == [Row(c) EXCEPT !.status = "processing",
                                !.gatewayTxId = IF Momo(c) THEN @ ELSE "number"]

\* Layer 2: the conditional update.  The loser reads the row again only to word
\* its answer, which is an acknowledgement either way.
Claim(c) ==
  /\ pc[c] = "claim"
  /\ IF Claimable(c)
       THEN Write(c, ClaimedRow(c)) /\ Goto(c, "settle")
       ELSE Answer(c, "accepted") /\ UNCHANGED tx
  /\ UNCHANGED <<invoice, expiry, opening, req, found, given, base, settled, granted>>

FenceOff(c) == Row(c).status # "pending"  \* mutant

\* Layer 3: the row must still be claimed when the Serializable transaction reads it.
Fence(c) == Row(c).status = "processing"

SettledRowDropsOrder(c) ==  \* mutant
  [status |-> IF req[c].paid THEN "success" ELSE "failed",
   gatewayTxId |-> "number",
   meta |-> IF Momo(c) THEN "orderId" ELSE "raw"]

SettledRowAsInvoice(c) ==  \* mutant
  [status |-> IF req[c].paid THEN "paid" ELSE "failed",
   gatewayTxId |-> "number",
   meta |-> IF Momo(c) THEN "orderId" ELSE "txnRef"]

SettledRow(c) ==
  [status |-> IF req[c].paid THEN "success" ELSE "failed",
   gatewayTxId |-> "number",
   meta |-> IF Momo(c) THEN "orderId" ELSE "txnRef"]

CommitSettle(c) ==
  /\ Fence(c)
  /\ Write(c, SettledRow(c))
  /\ settled' = settled \cup {c}

Settle(c) ==
  /\ pc[c] = "settle"
  /\ \/ /\ CommitSettle(c)
        /\ IF req[c].paid THEN Goto(c, "find") ELSE Answer(c, "accepted")
     \/ /\ ~Fence(c)
        /\ Answer(c, "retry")
        /\ UNCHANGED <<tx, settled>>
  /\ UNCHANGED <<invoice, expiry, opening, req, found, given, base, granted>>

\* The settle transaction throws: rolled back, or committed with its reply lost.
SettleThrows(c) ==
  /\ pc[c] = "settle"
  /\ CommitSettle(c) \/ UNCHANGED <<tx, settled>>
  /\ Goto(c, "release")
  /\ UNCHANGED <<invoice, expiry, opening, req, found, given, base, granted>>

ReleasableAlways(c) == TRUE  \* mutant
NeverReleasable(c) == FALSE  \* mutant

Releasable(c) == Row(c).status = "processing"

\* settle's catch gives the claim back, and only the status; the gateway is asked to
\* retry.
Release(c) ==
  /\ pc[c] = "release"
  /\ IF Releasable(c) THEN Write(c, [Row(c) EXCEPT !.status = "pending"])
                      ELSE UNCHANGED tx
  /\ Answer(c, "retry")
  /\ UNCHANGED <<invoice, expiry, opening, req, found, given, base, settled, granted>>

\* The claim took effect and its reply was lost, or the release fails and its error
\* is swallowed: the payment stays claimed by nobody.
Abandon(c) ==
  /\ \/ /\ pc[c] = "claim" /\ Claimable(c)
        /\ Write(c, ClaimedRow(c))
     \/ pc[c] = "release" /\ UNCHANGED tx
  /\ Answer(c, "abandoned")
  /\ UNCHANGED <<invoice, expiry, opening, req, found, given, base, settled, granted>>

-----------------------------------------------------------------------------
(* SubscriptionActivatorService. *)

\* activateByOrderId: by metadata.orderId, then by the gatewayTxId it was called with.
ActivatorFinds(c) == Row(c).meta = "orderId" \/ Row(c).gatewayTxId = given[c]

Find(c) ==
  /\ pc[c] = "find"
  /\ IF ActivatorFinds(c)
       THEN Goto(c, "mark") /\ found' = [found EXCEPT ![c] = Row(c)]
       ELSE Concluded(c, FALSE) /\ UNCHANGED found
  \* reconcile marks the row by its id when the activator did not find it
  /\ IF ~ActivatorFinds(c) /\ Kind(c) = "reconcile"
       THEN Write(c, [Row(c) EXCEPT !.status = "success", !.gatewayTxId = given[c]])
       ELSE UNCHANGED tx
  /\ UNCHANGED <<invoice, expiry, opening, req, given, base, settled, granted>>

\* Whatever the status has become, the row found is marked successful.
Mark(c) ==
  /\ pc[c] = "mark"
  /\ Write(c, [status |-> "success", gatewayTxId |-> given[c], meta |-> found[c].meta])
  /\ IF invoice[Payment(c)] = "none" THEN Concluded(c, FALSE) ELSE Goto(c, "invoice")
  /\ UNCHANGED <<invoice, expiry, opening, req, found, given, base, settled, granted>>

\* activateFromInvoice: the invoice is paid once, its subscription activated anyway.
PayInvoice(c) ==
  /\ pc[c] = "invoice"
  /\ invoice' = [invoice EXCEPT ![Payment(c)] = "paid"]
  /\ Goto(c, "subread")
  /\ UNCHANGED <<tx, expiry, opening, req, found, given, base, settled, granted>>

\* activateBySubscriptionId: read, compute the new expiry, write it.
ReadSubscription(c) ==
  /\ pc[c] = "subread"
  /\ base' = [base EXCEPT ![c] = expiry]
  /\ Goto(c, "subwrite")
  /\ UNCHANGED <<tx, invoice, expiry, opening, req, found, given, settled, granted>>

ExpiryStackedTwice(c) == base[c] + 2  \* mutant
computeExpiry(c) == base[c] + 1

WriteSubscription(c) ==
  /\ pc[c] = "subwrite"
  /\ expiry' = computeExpiry(c)
  /\ granted' = granted \cup {c}
  /\ Concluded(c, TRUE)
  /\ UNCHANGED <<tx, invoice, opening, req, found, given, base, settled>>

-----------------------------------------------------------------------------
(* The callers that do not go through the guard. *)

\* handleMomoIpn / handleVnpayIpn: update by gatewayTxId = orderId, which renames
\* it, then look the row up by the same key.
LegacyMark(c) ==
  /\ pc[c] = "legacymark"
  /\ IF Row(c).gatewayTxId = "order"
       THEN Write(c, [status |-> "success", gatewayTxId |-> "number", meta |-> "raw"])
       ELSE UNCHANGED tx
  /\ Goto(c, "legacyfind")
  /\ UNCHANGED <<invoice, expiry, opening, req, found, given, base, settled, granted>>

LegacyFind(c) ==
  /\ pc[c] = "legacyfind"
  /\ IF Row(c).gatewayTxId = "order" /\ invoice[Payment(c)] # "none"
       THEN Goto(c, "invoice")
       ELSE Answer(c, "accepted")
  /\ UNCHANGED <<tx, invoice, expiry, opening, req, found, given, base, settled, granted>>

\* reconcile looks up by one metadata key; a terminal payment is left alone and
\* reported as activated when its status is success.  The activator is given the
\* transaction number the operator names, or the gatewayTxId of the row found here.
ReconcileFinds(c) == Row(c).meta = IF Momo(c) THEN "orderId" ELSE "txnRef"

Reconcile(c) ==
  /\ pc[c] = "reconcile"
  /\ \/ /\ ~ReconcileFinds(c)
        /\ Answer(c, "notfound")
        /\ UNCHANGED given
     \/ /\ ReconcileFinds(c) /\ Row(c).status \in TERMINAL_STATES
        /\ Answer(c, IF Row(c).status = "success" THEN "activated" ELSE "final")
        /\ UNCHANGED given
     \/ /\ ReconcileFinds(c) /\ Row(c).status \notin TERMINAL_STATES
        /\ \E id \in {Row(c).gatewayTxId, "number"} : given' = [given EXCEPT ![c] = id]
        /\ Goto(c, "find")
  /\ UNCHANGED <<tx, invoice, expiry, opening, req, found, base, settled, granted>>

\* The refund path: only a successful payment is refunded, but the status is
\* changed in a write of its own, after the refund's transaction.
Refund(c) ==
  /\ pc[c] = "refund"
  /\ IF Row(c).status = "success" THEN Goto(c, "refundmark") ELSE Answer(c, "rejected")
  /\ UNCHANGED <<tx, invoice, expiry, opening, req, found, given, base, settled, granted>>

RefundMark(c) ==
  /\ pc[c] = "refundmark"
  /\ Write(c, [Row(c) EXCEPT !.status = "refunded"])
  /\ Answer(c, "accepted")
  /\ UNCHANGED <<invoice, expiry, opening, req, found, given, base, settled, granted>>

-----------------------------------------------------------------------------
Activating == {"find", "mark", "invoice", "subread", "subwrite"}

\* A database call throws and the handler's own catch answers.  (settle has its own
\* actions; a throwing lookup or claim asks the gateway to retry.)  A write that took
\* effect before its call threw is the write, then a throw at the next call.
Throws(c) ==
  /\ pc[c] \in Activating \cup {"lookup", "claim", "legacymark", "legacyfind",
                                "reconcile", "refund", "refundmark"}
  /\ IF pc[c] \in {"lookup", "claim"} THEN Answer(c, "retry") ELSE Thrown(c)
  /\ UNCHANGED <<tx, invoice, expiry, opening, req, found, given, base, settled, granted>>

\* The process dies: nothing more happens and nobody is answered.
Crash(c) ==
  /\ pc[c] \notin {"idle", "done"}
  /\ Answer(c, "none")
  /\ UNCHANGED <<tx, invoice, expiry, opening, req, found, given, base, settled, granted>>

Step(c) ==
  \/ ClaimLookup(c) \/ Claim(c) \/ Settle(c) \/ Release(c)
  \/ Find(c) \/ Mark(c) \/ PayInvoice(c) \/ ReadSubscription(c) \/ WriteSubscription(c)
  \/ LegacyMark(c) \/ LegacyFind(c) \/ Reconcile(c) \/ Refund(c) \/ RefundMark(c)

Next == \E c \in Calls :
  Receive(c) \/ Step(c) \/ SettleThrows(c) \/ Abandon(c) \/ Throws(c) \/ Crash(c)

Spec == Init /\ [][Next]_vars

\* The server runs the requests it has accepted.
FairSpec == Spec /\ \A c \in Calls : WF_vars(Step(c))

-----------------------------------------------------------------------------
(* Properties. *)

CallsFor(p) == {c \in Calls : Payment(c) = p}
AtMostOne(S) == \A c, d \in S : c = d

\* The claim of a payment is held by one callback at a time, however often the
\* gateway delivers it and whatever else writes the row meanwhile; a payment that
\* can be claimed has no holder left, so a failed settlement, whose release may come
\* late, never gives away another worker's claim.
Holders(p) == {c \in CallsFor(p) : pc[c] \in {"settle", "release"}}
ClaimIsExclusive ==
  \A p \in Payments :
    /\ AtMostOne(Holders(p))
    /\ tx[p].status = "pending" => Holders(p) = {}

\* Of all the guarded callbacks of a payment at most one settles it, even when the
\* settlement committed and its reply was lost, and at most one of them, that
\* one, adds a period.
OneCallbackWins ==
  \A p \in Payments :
    /\ AtMostOne(settled \cap CallsFor(p))
    /\ {c \in granted \cap CallsFor(p) : Kind(c) = "ipn"} \subseteq settled

\* Nothing counts as paid without a callback that says so, with the right amount
\* where the guard checks it, or somebody's reconcile; and no period is added for
\* a payment that never was successful.
Vouches(c) ==
  /\ pc[c] # "idle"
  /\ \/ Kind(c) = "ipn" /\ req[c].paid /\ req[c].amountMatches
     \/ Kind(c) \in {"legacy", "webhook"} /\ req[c].paid
     \/ Kind(c) = "reconcile"

PaidOnEvidence ==
  \A p \in Payments :
    /\ tx[p].status \in {"success", "refunded"} => \E c \in CallsFor(p) : Vouches(c)
    /\ granted \cap CallsFor(p) # {} =>
         tx[p].status \in {"success", "refunded"} /\ invoice[p] = "paid"

\* The subscription never runs longer than the periods that were added to it, and
\* a call about to write has read an expiry of that range too.
PeriodsAreEarned ==
  /\ opening <= expiry /\ expiry <= opening + Cardinality(granted)
  /\ (expiry = opening) = (granted = {})
  /\ \A c \in Calls : pc[c] = "subwrite" =>
       opening <= base[c] /\ base[c] <= opening + Cardinality(granted)

\* A payment that its gateway's guard can no longer look up is a VNPay payment: a
\* legacy callback has renamed it, or one callback has claimed it under the gateway's
\* number and no settlement has named our order in its metadata.  Settlement and
\* activation never orphan a row, so a late redelivery of a settled payment is
\* recognised as a duplicate.
ClaimedUnsettled(p) ==
  /\ tx[p].status \notin TERMINAL_STATES
  /\ \E d \in CallsFor(p) :
       /\ Kind(d) = "ipn" /\ req[d].amountMatches
       /\ \/ pc[d] \in {"settle", "release"}
          \/ pc[d] = "done" /\ answer[d] \in {"retry", "abandoned", "none"}

FindableUnlessRenamed ==
  \A c \in Calls :
    ~ClaimFinds(c) =>
      /\ ~Momo(c)
      /\ \/ \E d \in CallsFor(Payment(c)) :
              Kind(d) = "legacy" /\ req[d].paid /\ pc[d] # "idle"
         \/ ClaimedUnsettled(Payment(c))

\* A terminal status is final: it changes only when a successful payment is
\* refunded, or when the activator or a legacy handler marks the row successful;
\* what had failed becomes successful only through a caller outside the guard.
StatusMovesForward ==
  [][\A p \in Payments :
       LET old == tx[p].status
           new == tx'[p].status
       IN  old \in TERMINAL_STATES /\ new # old =>
             \/ old = "success" /\ new = "refunded"
             \/ /\ new = "success"
                /\ \E c \in CallsFor(p) :
                     /\ pc[c] \in {"mark", "legacymark"} /\ pc'[c] # pc[c]
                     /\ old = "failed" => Kind(c) # "ipn"]_vars

\* However callbacks, handlers, webhooks, reconcile and refunds interleave and fail, and
\* whichever lookups and claims they go through, they take the payments through their
\* states as the book of payments allows: settled once, by one callback; a final state
\* taken back at most once by each call that is already marking its payment paid.
State == [p \in Payments |-> IF tx[p].status \in TERMINAL_STATES THEN tx[p].status ELSE "open"]
Arrived == {c \in Calls : pc[c] # "idle"}
Marking == {c \in Calls : pc[c] \in {"find", "mark", "legacymark"}}
Book == INSTANCE PaymentBook WITH state <- State, heard <- Arrived, underway <- Marking
RefinesPaymentBook == Book!Spec

\* A claimed payment does not stay claimed, whatever throws while it is settled,
\* unless the process that claimed it died or the database would neither tell it of
\* its claim nor take it back.
Crashed(c) == pc[c] = "done" /\ answer[c] = "none"
ClaimsAreReleased ==
  \A p \in Payments :
    tx[p].status = "processing" ~>
      \/ tx[p].status # "processing"
      \/ \E c \in CallsFor(p) :
           Kind(c) = "ipn" /\ (Crashed(c) \/ answer[c] = "abandoned")

\* What the comment in VnpayController.handleIpn says: when activation failed after
\* the payment had been settled, reconcile can recover.  So once a reconcile has
\* answered that the payment is activated and no other call is at work on it, its
\* period has been added.
ReconcileRecovers ==
  \A c \in Calls :
    /\ Kind(c) = "reconcile" /\ answer[c] = "activated"
    /\ invoice[Payment(c)] # "none"
    /\ \A d \in CallsFor(Payment(c)) : pc[d] \in {"idle", "done"}
    => granted \cap CallsFor(Payment(c)) # {}

\* What activateBySubscriptionId's comment says: renewal stacks the new period on
\* the existing expiry.  So every period added is still there.
RenewalsStack == expiry = opening + Cardinality(granted)

\* What the comment on PaymentsWebhookService.handleMomoIpn says: the guard handles
\* the idempotency of its callbacks.  So however often they are delivered, a payment
\* adds one period.
OnePeriodPerPayment == \A p \in Payments : AtMostOne(granted \cap CallsFor(p))
=============================================================================
