--------------------------- MODULE MCWalletLedger ---------------------------
(***************************************************************************)
(* WalletLedger for TLC: one tenant, three calls over three references.  The *)
(* requests are those whose combinations matter: credits and debits that   *)
(* do and do not fit the limits, a replay of the opening top-up (r3), an   *)
(* amount the validation rejects, and requests of every other kind; two    *)
(* calls may carry the same request.                                       *)
(***************************************************************************)
EXTENDS WalletLedger

CONSTANTS t1, r1, r2, r3

MCRequests ==
  LET R(k, ty, a, r) == [kind |-> k, tenant |-> t1, type |-> ty, amount |-> a, ref |-> r]
  IN {R("service", "CREDIT", 1, r1), R("service", "CREDIT", 2, r3),
      R("service", "DEBIT", 2, r2), R("service", "DEBIT", -1, r2),
      R("refund", "CREDIT", 2, r1), R("locked", "DEBIT", 2, r1),
      R("locked", "CREDIT", 2, r1), R("open", "CREDIT", 0, r1)}

MCOpeningBalances == {0, 2}
=============================================================================
