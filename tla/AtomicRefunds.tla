--------------------------- MODULE AtomicRefunds ---------------------------
(***************************************************************************)
(* What the refund engine promises, with neither snapshots nor snapshot    *)
(* conflicts in sight: a call gives money back at most once, in one        *)
(* indivisible step that raises the payment's total and the wallet         *)
(* together, never beyond what was paid nor beyond what the wallet may     *)
(* hold.  Who is told success has been given his money; who is told that   *)
(* his event was skipped has not, and never will be, but somebody has for  *)
(* the same payment; and a payment is marked refunded only in answering    *)
(* an event whose money was given back.  RefundEngine implements this      *)
(* specification.                                                          *)
(***************************************************************************)
EXTENDS Integers

CONSTANTS Payments, Original, Calls, Requests, MaxBalance

VARIABLES given,     \* the calls whose money was given back
          returned,  \* returned[p]: how much of payment p
          balance,   \* the wallet's balance
          marked,    \* the payments marked refunded
          req,       \* req[c]: the request or event call c carries
          answer     \* answer[c]: what call c was told

vars == <<given, returned, balance, marked, req, answer>>

Init ==
  /\ given = {} /\ marked = {}
  /\ returned = [p \in Payments |-> 0]
  /\ balance = 0
  /\ req \in [Calls -> Requests]
  /\ answer = [c \in Calls |-> "none"]

Give(c) ==
  LET p == req[c].payment
      amount == req[c].amount
  IN
  /\ answer[c] = "none" /\ c \notin given
  /\ amount > 0
  /\ returned[p] + amount <= Original[p]
  /\ balance + amount <= MaxBalance
  /\ given' = given \cup {c}
  /\ returned' = [returned EXCEPT ![p] = @ + amount]
  /\ balance' = balance + amount
  /\ UNCHANGED <<marked, req, answer>>

Answer(c, what) ==
  /\ answer[c] = "none" /\ what # "none"
  /\ answer' = [answer EXCEPT ![c] = what]
  /\ UNCHANGED <<given, returned, balance, req>>

Succeed(c) ==
  /\ c \in given
  /\ Answer(c, "success")
  /\ \/ UNCHANGED marked
     \/ req[c].kind = "webhook" /\ marked' = marked \cup {req[c].payment}

Skip(c) ==
  /\ req[c].kind = "webhook"
  /\ c \notin given
  /\ \E d \in given : req[d].payment = req[c].payment
  /\ Answer(c, "skipped")
  /\ UNCHANGED marked

\* Nothing is promised to a call that is told of a failure: a reply may be lost.
GiveUp(c) ==
  /\ Answer(c, IF req[c].kind = "api" THEN "refused" ELSE "failed")
  /\ UNCHANGED marked

\* Another service credits the wallet.
Deposit ==
  /\ balance < MaxBalance
  /\ balance' = balance + 1
  /\ UNCHANGED <<given, returned, marked, req, answer>>

Next ==
  \/ \E c \in Calls : Give(c) \/ Succeed(c) \/ Skip(c) \/ GiveUp(c)
  \/ Deposit

Spec == Init /\ [][Next]_vars
=============================================================================
