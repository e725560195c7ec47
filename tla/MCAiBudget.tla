----------------------------- MODULE MCAiBudget -----------------------------
(***************************************************************************)
(* AiBudget for TLC: a daily and a monthly limit, two calls, which may     *)
(* meter the same request.                                                  *)
(***************************************************************************)
EXTENDS AiBudget

CONSTANTS r1, r2

MCRequests ==
  {[id |-> r1, cost |-> 4, priority |-> FALSE],
   [id |-> r2, cost |-> 5, priority |-> TRUE]}
MCDefaultTerms == [max |-> 5, alert |-> 80]
MCTerms == {MCDefaultTerms, [max |-> 9, alert |-> 0]}
=============================================================================
