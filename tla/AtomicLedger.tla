---------------------------- MODULE AtomicLedger ----------------------------
(***************************************************************************)
(* What the internal wallet promises its callers, with no database in      *)
(* sight: a call posts at most one entry, in one indivisible step, onto    *)
(* the book of its tenant; an entry is posted only under a reference the   *)
(* book does not hold yet and only within the limits of its kind of        *)
(* writer; a call that answers with a result answers with an entry of the  *)
(* book, and a call that answers with a refusal has posted nothing and     *)
(* never will.  WalletLedger implements this specification.                *)
(***************************************************************************)
EXTENDS LedgerData

VARIABLES book,    \* book[t]: the entries of tenant t, oldest first
          req,     \* req[c]: the request call c carries
          answer   \* answer[c]: what call c was told

vars == <<book, req, answer>>

Init ==
  /\ \E open \in [Tenants -> OpeningBalances] :
       book = [t \in Tenants |-> OpeningBook(open[t])]
  /\ req \in [Calls -> Requests]
  /\ answer = [c \in Calls |-> NoAnswer]

Post(c) ==
  LET t == req[c].tenant IN
  /\ answer[c] = NoAnswer
  /\ req[c].amount > 0
  /\ ~PostedBy(book[t], c)
  /\ EntriesFor(book[t], RefOf(c, req[c])) = {}
  /\ Allowed(req[c], Total(book[t]))
  /\ book' = [book EXCEPT ![t] = Append(@, EntryOf(c, req[c], Total(@)))]
  /\ UNCHANGED <<req, answer>>

Answer(c) ==
  LET t == req[c].tenant
      a == answer'[c]
  IN
  /\ answer[c] = NoAnswer
  /\ a \in Answers
  /\ a.status # "none"
  /\ a.status \in {"ok", "duplicate"} =>
       \E e \in EntriesFor(book[t], RefOf(c, req[c])) :
         /\ a.before = BalanceBefore(e) /\ a.after = e.balanceAfter
         /\ a.status = "ok" => e.by = c
  /\ a.status \notin {"ok", "failed"} => ~PostedBy(book[t], c)
  /\ answer' = [answer EXCEPT ![c] = a]
  /\ UNCHANGED <<book, req>>

Next == \E c \in Calls : Post(c) \/ Answer(c)

Spec == Init /\ [][Next]_vars
=============================================================================
