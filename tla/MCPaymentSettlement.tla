------------------------ MODULE MCPaymentSettlement -------------------------
(***************************************************************************)
(* PaymentSettlement for TLC: a MoMo and a VNPay payment of one            *)
(* subscription, three calls.  The requests are the paid callback of every *)
(* kind, a failed and a mismatching one, reconcile and refund.  Calls are  *)
(* interchangeable, so a workload lists its requests in order.             *)
(***************************************************************************)
EXTENDS PaymentSettlement, Sequences, TLC

CONSTANTS m, v, c1, c2, c3

R(kind, p, paid, ok) ==
  [kind |-> kind, payment |-> p, paid |-> paid, amountMatches |-> ok]

MomoRequests ==
  << R("ipn", m, TRUE, TRUE), R("ipn", m, FALSE, TRUE), R("ipn", m, TRUE, FALSE),
     R("webhook", m, TRUE, TRUE), R("reconcile", m, TRUE, TRUE),
     R("refund", m, TRUE, TRUE), R("legacy", m, FALSE, TRUE) >>

VnpayRequests ==
  << R("ipn", v, TRUE, TRUE), R("legacy", v, TRUE, TRUE), R("reconcile", v, TRUE, TRUE) >>

AllRequests == MomoRequests \o VnpayRequests

MCWorkloads ==
  {(c1 :> AllRequests[w[1]]) @@ (c2 :> AllRequests[w[2]]) @@ (c3 :> AllRequests[w[3]]) :
     w \in {u \in [1 .. 3 -> DOMAIN AllRequests] : u[1] <= u[2] /\ u[2] <= u[3]}}

\* One callback, then reconcile.
RecoveryWorkloads == {(c1 :> VnpayRequests[1]) @@ (c2 :> VnpayRequests[3])}

\* The callbacks of two payments.
RenewalWorkloads == {(c1 :> MomoRequests[1]) @@ (c2 :> VnpayRequests[1])}

\* The webhook of one payment, delivered twice.
WebhookWorkloads == {(c1 :> MomoRequests[4]) @@ (c2 :> MomoRequests[4])}

MCOpeningInvoices ==
  {(m :> "open") @@ (v :> "open"), (m :> "none") @@ (v :> "open")}
BothInvoiced == {(m :> "open") @@ (v :> "open")}
=============================================================================
