-------------------------- MODULE DeveloperPayouts --------------------------
(***************************************************************************)
(* PayoutService over the earnings the marketplace books.  The available   *)
(* balance is computed from three reads (the profile, the payouts among    *)
(* the earnings, the pending requests).  approvePayout checks the status   *)
(* of the request before its transaction; the transaction (READ COMMITTED) *)
(* takes the three reads, and writes the request, a negative earning and   *)
(* the profile's totalEarnings as an absolute value.  The transaction's    *)
(* writes show at its commit, which is the step ApprovePayout; the row     *)
(* locks make overlapping ones commit one after the other.                 *)
(***************************************************************************)
EXTENDS Marketplace

CONSTANTS MaxRequests     \* bound: no further payout is asked for

ASSUME MaxRequestsNat == MaxRequests \in Nat

VARIABLES requests,    \* the DeveloperPayoutRequests of Dev, oldest first
          sums,        \* sums[c]: what call c has read of the balance so far
          overlapped   \* history: a decision was written over a later one's change

payoutVars == <<requests, sums, overlapped>>
vars == <<marketVars, callVars, payoutVars>>

Statuses == {"PENDING", "APPROVED", "PROCESSED", "REJECTED", "CANCELLED"}
Requests == [amount : Int, status : Statuses]
NoSums == [total |-> 0, paid |-> 0, pending |-> 0]

TypeOK ==
  /\ MarketTypeOK
  /\ requests \in Seq(Requests)
  /\ sums \in [Calls -> [total : Int, paid : Int, pending : Int]]
  /\ overlapped \in BOOLEAN

PendingOf(amount) == [amount |-> amount, status |-> "PENDING"]

\* Nothing is asked for yet, or two parts of the earlier sale are.
Init ==
  /\ MarketInit
  /\ \/ requests = <<>>
     \/ profile.exists /\ requests = <<PendingOf(Opening \div 2), PendingOf(Opening \div 2)>>
  /\ sums = [c \in Calls |-> NoSums]
  /\ overlapped = FALSE

-----------------------------------------------------------------------------
Payouts == {i \in DOMAIN earnings : earnings[i].type = "payout"}
Pending == {i \in DOMAIN requests : requests[i].status = "PENDING"}

SumEarnings(S) == MapThenSumSet(LAMBDA i : earnings[i].amount, S)
SumRequests(S) == MapThenSumSet(LAMBDA i : requests[i].amount, S)

\* The request call c decides on, as it is now.
Request(c) == requests[req[c].request]

AskBalance(c) ==
  /\ \E r \in Asks[c] :
       /\ r.op = "request" /\ Begin(c, r)
       /\ Goto(c, IF profile.exists /\ r.amount > 0 THEN "total" ELSE "refused")
  /\ UNCHANGED <<marketVars, payoutVars>>

MustBePending(op) == "PENDING"  \* mutant

\* The status check in front of each decision, by the operation.
MustBe(op) == IF op = "process-payout" THEN "APPROVED" ELSE "PENDING"

Decidable(r) ==
  r.request \in DOMAIN requests /\ requests[r.request].status = MustBe(r.op)

FindRequest(c) ==
  /\ \E r \in Asks[c] :
       /\ r.op \in PayoutOps \ {"request"} /\ Begin(c, r)
       /\ Goto(c, IF ~Decidable(r) THEN "refused"
                  ELSE IF r.op = "approve-payout" THEN "total" ELSE "write")
  /\ UNCHANGED <<marketVars, payoutVars>>

\* The three reads of the balance.
ReadTotal(c) ==
  /\ pc[c] = "total"
  /\ sums' = [sums EXCEPT ![c].total = profile.totalEarnings]
  /\ Goes(c, "paid")
  /\ UNCHANGED <<marketVars, requests, overlapped>>

ReadPaid(c) ==
  /\ pc[c] = "paid"
  /\ sums' = [sums EXCEPT ![c].paid = SumEarnings(Payouts)]
  /\ Goes(c, "pending")
  /\ UNCHANGED <<marketVars, requests, overlapped>>

\* paid is negative, as payouts are: it adds to what is available.
Available(c, pending) == sums[c].total - sums[c].paid - pending

\* approvePayout leaves its own request out, whatever its status is now.
ReadPending(c) ==
  LET others == SumRequests(Pending \ {req[c].request})
      amount == IF req[c].op = "request" THEN req[c].amount ELSE Request(c).amount
  IN  /\ pc[c] = "pending"
      /\ sums' = [sums EXCEPT ![c].pending = others]
      /\ Goes(c, IF amount <= Available(c, others) THEN "write" ELSE "refused")
      /\ UNCHANGED <<marketVars, requests, overlapped>>

RequestPayout(c) ==
  /\ At(c, "write", "request")
  /\ Len(requests) < MaxRequests
  /\ requests' = Append(requests, PendingOf(req[c].amount))
  /\ Goes(c, "done")
  /\ UNCHANGED <<marketVars, sums, overlapped>>

SetStatus(c, status) == requests' = [requests EXCEPT ![req[c].request].status = status]

\* c writes on what it has read; otherwise two decisions overlapped.
Overlaps(c, stale) ==
  overlapped' = (overlapped \/ stale \/ Request(c).status # MustBe(req[c].op))

DebitedOnRecordOnly(c) == sums[c].total  \* mutant

\* The new totalEarnings.
Debited(c) == sums[c].total - Request(c).amount

ApprovePayout(c) ==
  /\ At(c, "write", "approve-payout")
  /\ SetStatus(c, "APPROVED")
  /\ earnings' = Append(earnings, [type |-> "payout", ref |-> req[c].request,
                                   amount |-> -Request(c).amount])
  /\ profile' = [profile EXCEPT !.totalEarnings = Debited(c)]
  /\ Overlaps(c, profile.totalEarnings # sums[c].total)
  /\ Goes(c, "done")
  /\ UNCHANGED <<listing, reviews, orders, publisher, sums>>

Decide(c, op, status) ==
  /\ At(c, "write", op)
  /\ SetStatus(c, status)
  /\ Overlaps(c, FALSE)
  /\ Goes(c, "done")
  /\ UNCHANGED <<marketVars, sums>>

RejectPayout(c) == Decide(c, "reject-payout", "REJECTED")
CancelPayout(c) == Decide(c, "cancel-payout", "CANCELLED")
ProcessPayout(c) == Decide(c, "process-payout", "PROCESSED")

PayoutStep(c) ==
  \/ AskBalance(c) \/ FindRequest(c)
  \/ ReadTotal(c) \/ ReadPaid(c) \/ ReadPending(c)
  \/ RequestPayout(c) \/ ApprovePayout(c)
  \/ RejectPayout(c) \/ CancelPayout(c) \/ ProcessPayout(c)

Next ==
  \E c \in Calls : \/ MarketStep(c) /\ UNCHANGED payoutVars
                   \/ PayoutStep(c)

Spec == Init /\ [][Next]_vars

-----------------------------------------------------------------------------
(* Properties. *)

DebitsOf(n) == {i \in Payouts : earnings[i].ref = n}

\* No order of decisions, overlapping ones included, makes a payout that is approved
\* or transferred without a debit of its own amount on record.
PayoutsAreDebited ==
  \A n \in DOMAIN requests :
    requests[n].status \in {"APPROVED", "PROCESSED"} =>
      \E i \in DebitsOf(n) : earnings[i].amount = -requests[n].amount

\* As long as no decision was written over another one's change, the profile's total
\* is what the single earnings add up to, whatever sales came in between, and a request
\* is debited once if it was approved and not at all otherwise.
BooksBalance ==
  ~overlapped =>
    /\ profile.totalEarnings = SumEarnings(DOMAIN earnings)
    /\ \A n \in DOMAIN requests :
         Cardinality(DebitsOf(n)) =
           IF requests[n].status \in {"APPROVED", "PROCESSED"} THEN 1 ELSE 0
=============================================================================
