----------------------------- MODULE LedgerData -----------------------------
(***************************************************************************)
(* Requests, entries and limits of the internal wallet, shared by the      *)
(* abstract ledger (AtomicLedger) and the code's (WalletLedger).           *)
(***************************************************************************)
EXTENDS Integers, Sequences

CONSTANTS Calls,           \* calls of the wallet, each made once
          Tenants,
          Refs,            \* references (referenceType, referenceId) callers name
          Requests,        \* the requests a call may carry
          OpeningRef,      \* reference of the top-up an opened wallet starts from
          OpeningBalances, \* balances a tenant may start from; 0 is "no wallet yet"
          MinBalance,      \* LEDGER_CONFIG.maxOverdraft
          MaxBalance,      \* LEDGER_CONFIG.maxBalance
          NoCall           \* stands for "no call": the opening entry, a free lock

Kinds == {"service", "refund", "locked", "open"}

RequestType == [kind : Kinds, tenant : Tenants, type : {"CREDIT", "DEBIT"},
                amount : Int, ref : Refs]

ASSUME LedgerConstants ==
  /\ NoCall \notin Calls
  /\ Refs \cap Calls = {}
  /\ OpeningRef \in Refs
  /\ MinBalance \in Int /\ MaxBalance \in Int
  /\ MinBalance <= 0 /\ 0 <= MaxBalance
  /\ OpeningBalances \subseteq 0 .. MaxBalance
  /\ Requests \subseteq RequestType
  \* the refund and subscription code computes only positive amounts, and a
  \* refund is always a credit
  /\ \A r \in Requests :
       /\ r.kind = "locked" => r.amount > 0
       /\ r.kind = "refund" => r.type = "CREDIT"

Statuses == {"none", "ok", "duplicate", "refused", "conflict", "failed", "opened"}
Answers == [status : Statuses, before : Int, after : Int]
NoAnswer == [status |-> "none", before |-> 0, after |-> 0]

Entries == [type : {"CREDIT", "DEBIT"}, amount : Int, balanceAfter : Int,
            ref : Refs \cup Calls, by : Calls \cup {NoCall}]

Signed(type, amount) == IF type = "CREDIT" THEN amount ELSE -amount
BalanceBefore(e) == e.balanceAfter - Signed(e.type, e.amount)

\* The balance a book stands for: that of its last entry.
Total(book) == IF book = << >> THEN 0 ELSE book[Len(book)].balanceAfter

EntriesFor(book, ref) ==
  {book[i] : i \in {j \in DOMAIN book : book[j].ref = ref}}

\* A service call names its reference; the refund and subscription writers draw
\* one of their own (a fresh RefundRecord id, "<subscription>:<timestamp>").
RefOf(c, r) == IF r.kind = "service" THEN r.ref ELSE c

AllowedOneBelow(r, balance) ==  \* mutant
  r.type = "CREDIT" \/ balance >= r.amount - 1

\* The limits each kind of writer enforces on the balance it leaves.
Allowed(r, balance) ==
  LET new == balance + Signed(r.type, r.amount)
  IN  IF r.type = "DEBIT"
        THEN new >= MinBalance
        ELSE r.kind = "locked" \/ new <= MaxBalance

EntryOf(c, r, balance) ==
  [type |-> r.type, amount |-> r.amount,
   balanceAfter |-> balance + Signed(r.type, r.amount),
   ref |-> RefOf(c, r), by |-> c]

OpeningBook(b) ==
  IF b = 0 THEN << >>
  ELSE << [type |-> "CREDIT", amount |-> b, balanceAfter |-> b,
           ref |-> OpeningRef, by |-> NoCall] >>

PostedBy(book, c) == \E i \in DOMAIN book : book[i].by = c
=============================================================================
