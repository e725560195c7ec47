---------------------------- MODULE PaymentBook ----------------------------
(***************************************************************************)
(* What the payments of a subscription go through, without claims, lookups *)
(* or workers.  A payment is open until one guarded callback settles it or *)
(* somebody who may vouch for it marks it paid.  It is refunded only when  *)
(* paid, its invoice is paid only after it, and a call adds at most one    *)
(* period, to a payment that is paid with its invoice.                     *)
(*                                                                         *)
(* A final state is not final for a call that is already under way to mark *)
(* its payment paid, and for no other.  Each such call may take it back to *)
(* paid, once: the callback that settled the payment, when it has been     *)
(* refunded meanwhile; a reconcile, which has seen the payment open; and a *)
(* webhook, which has not looked.  A legacy callback marks only an open    *)
(* payment.  Nothing makes a payment open or failed again, and no second   *)
(* callback settles it.                                                    *)
(*                                                                         *)
(* What the book does not promise is that the periods add up: a renewal    *)
(* may overwrite another one, and expiry is only bounded by what was       *)
(* added.  PaymentSettlement implements this specification.                *)
(***************************************************************************)
EXTENDS Integers, FiniteSets

CONSTANTS Payments, Calls, Workloads, OpeningInvoices, OpeningPeriods

VARIABLES state,    \* state[p]: "open", "success", "failed" or "refunded"
          invoice,  \* invoice[p]: "none", "open" or "paid"
          opening, expiry,
          req,      \* req[c]: what call c is
          heard,    \* the calls that have reached the API
          underway, \* the calls that are about to mark their payment paid
          settled,  \* the callbacks that settled their payment
          granted   \* the calls that added a period

vars == <<state, invoice, opening, expiry, req, heard, underway, settled, granted>>

Init ==
  /\ state = [p \in Payments |-> "open"]
  /\ invoice \in OpeningInvoices
  /\ opening \in OpeningPeriods /\ expiry = opening
  /\ req \in Workloads
  /\ heard = {} /\ underway = {} /\ settled = {} /\ granted = {}

Guarded(c) == req[c].kind = "ipn"
Paid(p) == state[p] \in {"success", "refunded"}

\* A legacy callback or a webhook goes by what it says alone.
Hear(c) ==
  /\ c \notin heard
  /\ heard' = heard \cup {c}
  /\ underway' = IF req[c].kind \in {"legacy", "webhook"} /\ req[c].paid
                   THEN underway \cup {c} ELSE underway
  /\ UNCHANGED <<state, invoice, opening, expiry, req, settled, granted>>

\* A guarded callback settles an open payment, once and with the right amount; when it
\* says paid it goes on to activation, unless it never learns that it has settled.
Settle(c) ==
  /\ c \in heard /\ Guarded(c) /\ req[c].amountMatches
  /\ state[req[c].payment] = "open"
  /\ \A d \in settled : req[d].payment # req[c].payment
  /\ state' = [state EXCEPT ![req[c].payment] = IF req[c].paid THEN "success" ELSE "failed"]
  /\ settled' = settled \cup {c}
  /\ \/ req[c].paid /\ underway' = underway \cup {c}
     \/ UNCHANGED underway
  /\ UNCHANGED <<invoice, opening, expiry, req, heard, granted>>

\* A reconcile takes up only a payment that is open.
TakeUp(c) ==
  /\ c \in heard /\ req[c].kind = "reconcile"
  /\ state[req[c].payment] = "open"
  /\ underway' = underway \cup {c}
  /\ UNCHANGED <<state, invoice, opening, expiry, req, heard, settled, granted>>

Conclude(c) ==
  /\ c \in underway
  /\ underway' = underway \ {c}
  /\ UNCHANGED <<invoice, opening, expiry, req, heard, settled, granted>>

\* An open payment is marked paid by whoever vouches for it; a guarded callback marks
\* only what it has settled as paid.
MarkPaid(c) ==
  /\ Conclude(c)
  /\ state[req[c].payment] = IF Guarded(c) THEN "success" ELSE "open"
  /\ state' = [state EXCEPT ![req[c].payment] = "success"]

\* A payment that has been settled or refunded meanwhile is marked paid all the same.
TakeBack(c) ==
  /\ Conclude(c)
  /\ \/ Guarded(c) /\ state[req[c].payment] = "refunded"
     \/ /\ req[c].kind \in {"webhook", "reconcile"}
        /\ state[req[c].payment] # "open"
  /\ state' = [state EXCEPT ![req[c].payment] = "success"]

\* The call fails, dies, or finds nothing to mark.
GiveUp(c) == Conclude(c) /\ UNCHANGED state

Refund(c) ==
  /\ c \in heard /\ req[c].kind = "refund"
  /\ Paid(req[c].payment)
  /\ state' = [state EXCEPT ![req[c].payment] = "refunded"]
  /\ UNCHANGED <<invoice, opening, expiry, req, heard, underway, settled, granted>>

PayInvoice(p) ==
  /\ Paid(p)
  /\ invoice[p] = "open"
  /\ invoice' = [invoice EXCEPT ![p] = "paid"]
  /\ UNCHANGED <<state, opening, expiry, req, heard, underway, settled, granted>>

AddPeriod(c) ==
  /\ c \in heard \ granted
  /\ Guarded(c) => c \in settled
  /\ Paid(req[c].payment) /\ invoice[req[c].payment] = "paid"
  /\ opening < expiry' /\ expiry' <= opening + Cardinality(granted) + 1
  /\ granted' = granted \cup {c}
  /\ UNCHANGED <<state, invoice, opening, req, heard, underway, settled>>

Next ==
  \/ \E c \in Calls :
       \/ Hear(c) \/ Settle(c) \/ TakeUp(c)
       \/ MarkPaid(c) \/ TakeBack(c) \/ GiveUp(c)
       \/ Refund(c) \/ AddPeriod(c)
  \/ \E p \in Payments : PayInvoice(p)

Spec == Init /\ [][Next]_vars
=============================================================================
