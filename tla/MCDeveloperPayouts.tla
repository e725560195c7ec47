------------------------ MODULE MCDeveloperPayouts ------------------------
(***************************************************************************)
(* DeveloperPayouts for TLC: three calls.  The first sells or decides on a *)
(* payout, the second also changes the listing, the third asks for every   *)
(* operation there is.                                                     *)
(***************************************************************************)
EXTENDS DeveloperPayouts

CONSTANTS c1, c2, c3, b1

Ask(op) == [NoRequest EXCEPT !.op = op]
By(op, tenant) == [Ask(op) EXCEPT !.tenant = tenant]
On(op, n) == [Ask(op) EXCEPT !.request = n]
Decision(d) == [Ask("decide") EXCEPT !.decision = d]

BaseAsks == {By("purchase", b1), On("approve-payout", 1), Ask("approve"),
             Decision("APPROVED")}

MoreAsks ==
  {On(op, 1) : op \in {"process-payout", "cancel-payout"}}
  \cup {On("approve-payout", 2), Ask("delete"), By("review", Dev), Ask("register"),
        [By("submit", NoTenant) EXCEPT !.amount = 10]}

AllAsks ==
  BaseAsks \cup MoreAsks
  \cup {On(op, 1) : op \in PayoutOps \ {"request"}}
  \cup {Ask("reject"), Ask("install"),
        [Ask("update") EXCEPT !.amount = 20], Decision("REJECTED"),
        Decision("CHANGES_REQUESTED"), By("purchase", Dev),
        [By("submit", Dev) EXCEPT !.amount = 10],
        [Ask("request") EXCEPT !.amount = 5], [Ask("request") EXCEPT !.amount = 30]}

MCAsks == [c \in Calls |-> CASE c = c1 -> BaseAsks
                              [] c = c2 -> BaseAsks \cup MoreAsks
                              [] c = c3 -> AllAsks]

\* BRONZE and SILVER.
MCTiers == {0, 1}
MCShare == [t \in MCTiers |-> IF t = 0 THEN 70 ELSE 75]
=============================================================================
