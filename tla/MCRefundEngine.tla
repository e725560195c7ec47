--------------------------- MODULE MCRefundEngine ---------------------------
(***************************************************************************)
(* RefundEngine for TLC: two payments, of 3 and 1, three calls and one     *)
(* credit from elsewhere; partial, full, excessive and non-positive        *)
(* refunds, requested and reported, of the same payment and of two.        *)
(***************************************************************************)
EXTENDS RefundEngine, TLC

CONSTANTS p1, p2

R(kind, p, amount) == [kind |-> kind, payment |-> p, amount |-> amount]
MCRequests ==
  {R("api", p1, 1), R("api", p1, 2), R("api", p1, 0), R("api", p2, 1),
   R("webhook", p1, 1), R("webhook", p1, 3), R("webhook", p1, 4),
   R("webhook", p1, -1), R("webhook", p2, 1)}
MCOriginal == (p1 :> 3) @@ (p2 :> 1)

OneEvent == {R("webhook", p1, 1)}
=============================================================================
