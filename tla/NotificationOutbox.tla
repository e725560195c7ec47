------------------------- MODULE NotificationOutbox -------------------------
(***************************************************************************)
(* The outbox for mail: NotificationLog rows with channel EMAIL.  Calls    *)
(* create them (InvoiceMailerService.enqueue after a payment,              *)
(* LedgerNotificationService after a debit), each with a lookup followed   *)
(* by an insert.  One poller, InvoiceOutboxProcessor, queries what is      *)
(* pending, hands it in slices to InvoiceMailerService.send and starts no  *)
(* poll while one runs.  A mail that fails is retried when its back-off is *)
(* over, MaxRetries times.                                                 *)
(*                                                                         *)
(* The process may crash, a query or an update may fail and the mail       *)
(* server's answer may be lost, MaxFaults times in all.  The length of a back-off and of   *)
(* the alerts' cooldown is left out: they end at some time.                *)
(***************************************************************************)
EXTENDS Integers, Sequences, FiniteSets

CONSTANTS Calls,
          Subjects,      \* the invoices, and the tenants that are alerted
          Asks,          \* Asks[c]: the mails call c may be about
          MaxRetries, BatchSize, Concurrency,
          MaxFaults      \* bound: crashes, failed queries and updates, lost answers

MailType == [kind : {"invoice", "alert"}, subject : Subjects]

ASSUME OutboxConstants ==
  /\ IsFiniteSet(Calls)
  /\ Asks \in [Calls -> SUBSET MailType]
  /\ MaxRetries \in Nat /\ MaxFaults \in Nat
  /\ BatchSize \in Nat \ {0} /\ Concurrency \in Nat \ {0}

VARIABLES log,        \* the rows, by createdAt
          pc,         \* the calls
          mail,       \* mail[c]: what call c is about
          seen,       \* seen[c]: history, how many rows there were at c's lookup
          smtp,       \* the environment names a mail server
          poll,       \* the poller's place in pollOnce
          batch,      \* the rows that are left of its batch
          task,       \* task[j]: where send is with row j
          faults,
          mailed,     \* history: mailed[j], how often the server took the mail of row j
          failures,   \* history: failures[j], how often send ended in its catch
          mishaps     \* history: mishaps[j], how often a taken mail was not noted as such

sendVars == <<smtp, poll, batch, task, faults, mailed, failures, mishaps>>
callVars == <<pc, mail, seen>>
vars == <<log, callVars, sendVars>>

Jobs == 1 .. Cardinality(Calls)

\* count: metadata.retryCount, NoCount in a row that has none; due: nextRetryAt has
\* passed; fresh: an alert younger than the cooldown.
NoCount == -1
Rows == [mail : MailType, by : Calls, status : {"PENDING", "SENT", "FAILED"}, count : Int,
         due : BOOLEAN, fresh : BOOLEAN]

TypeOK ==
  /\ log \in Seq(Rows) /\ Len(log) <= Cardinality(Calls)
  /\ \A j \in DOMAIN log : log[j].count \in NoCount .. MaxRetries + 1
  /\ pc \in [Calls -> {"idle", "create", "done"}]
  /\ mail \in [Calls -> MailType]
  /\ seen \in [Calls -> Nat]
  /\ smtp \in BOOLEAN
  /\ poll \in {"idle", "retries", "slices"}
  /\ batch \subseteq Jobs /\ Cardinality(batch) <= BatchSize
  /\ task \in [Jobs -> {"none", "mail", "sent", "failed"}]
  /\ Cardinality({j \in Jobs : task[j] # "none"}) <= Concurrency
  /\ faults \in 0 .. MaxFaults
  /\ mailed \in [Jobs -> Nat] /\ failures \in [Jobs -> Nat] /\ mishaps \in [Jobs -> Nat]

Nowhere == [j \in Jobs |-> 0]
NoTasks == [j \in Jobs |-> "none"]

Init ==
  /\ log = <<>>
  /\ pc = [c \in Calls |-> "idle"]
  /\ mail \in [Calls -> MailType] /\ \A c \in Calls : mail[c] \in Asks[c]
  /\ seen = [c \in Calls |-> 0]
  /\ smtp \in BOOLEAN
  /\ poll = "idle" /\ batch = {} /\ task = NoTasks /\ faults = 0
  /\ mailed = Nowhere /\ failures = Nowhere /\ mishaps = Nowhere

-----------------------------------------------------------------------------
(* The calls. *)

SentCovers(row) == row.status = "SENT" /\ (row.mail.kind = "alert" => row.fresh)  \* mutant

\* A row that makes another one of its kind and subject unnecessary: a pending invoice
\* mail, or an alert that was sent or is pending within the cooldown.
Covers(row) ==
  IF row.mail.kind = "alert" THEN row.status # "FAILED" /\ row.fresh
                            ELSE row.status = "PENDING"

\* enqueue's findFirst; checkThrottle.
Look(c) ==
  /\ pc[c] = "idle"
  /\ pc' = [pc EXCEPT ![c] = IF \E j \in DOMAIN log : log[j].mail = mail[c] /\ Covers(log[j])
                               THEN "done" ELSE "create"]
  /\ seen' = [seen EXCEPT ![c] = Len(log)]
  /\ UNCHANGED <<log, mail, sendVars>>

\* The metadata of an alert has neither retryCount nor nextRetryAt.
Create(c) ==
  /\ pc[c] = "create"
  /\ log' = Append(log, [mail |-> mail[c], by |-> c, status |-> "PENDING",
                         count |-> IF mail[c].kind = "alert" THEN NoCount ELSE 0,
                         due |-> FALSE, fresh |-> mail[c].kind = "alert"])
  /\ pc' = [pc EXCEPT ![c] = "done"]
  /\ UNCHANGED <<mail, seen, sendVars>>

-----------------------------------------------------------------------------
(* The poller. *)

\* The batch has what was never tried before what is retried, each of them oldest first.
Ahead(i, j) == IF log[i].count > 0 <=> log[j].count > 0 THEN i < j ELSE log[j].count > 0

FirstAndOne(n, S) == {j \in S : Cardinality({i \in S : Ahead(i, j)}) <= n}  \* mutant

First(n, S) == {j \in S : Cardinality({i \in S : Ahead(i, j)}) < n}

Untried(j) == log[j].status = "PENDING" /\ log[j].count = 0

QueryPending ==
  /\ poll = "idle"
  /\ poll' = "retries"
  /\ batch' = First(BatchSize, {j \in DOMAIN log : Untried(j)})
  /\ UNCHANGED <<log, callVars, smtp, task, faults, mailed, failures, mishaps>>

RetriedOnce(j) == log[j].status = "PENDING" /\ log[j].count \in 1 .. MaxRetries - 1  \* mutant

\* A row without the JSON path fulfils neither equals nor NOT equals: it is in no query.
Retried(j) == log[j].status = "PENDING" /\ log[j].count > 0

\* The oldest 2 * BatchSize of them, of which those that are due.
QueryRetries ==
  LET retryJobs  == First(2 * BatchSize, {j \in DOMAIN log : Retried(j)})
      dueRetries == First(BatchSize, {j \in retryJobs : log[j].due})
  IN  /\ poll = "retries"
      /\ poll' = "slices"
      /\ batch' = First(BatchSize, batch \cup dueRetries)
      /\ UNCHANGED <<log, callVars, smtp, task, faults, mailed, failures, mishaps>>

\* Promise.allSettled: a slice starts when the one before has ended altogether.
StartSlice ==
  LET slice == First(Concurrency, batch)
  IN  /\ poll = "slices" /\ task = NoTasks /\ batch # {}
      /\ batch' = batch \ slice
      /\ task' = [j \in Jobs |-> IF j \in slice THEN "mail" ELSE "none"]
      /\ UNCHANGED <<log, callVars, smtp, poll, faults, mailed, failures, mishaps>>

EndPoll ==
  /\ poll = "slices" /\ task = NoTasks /\ batch = {}
  /\ poll' = "idle"
  /\ UNCHANGED <<log, callVars, smtp, batch, task, faults, mailed, failures, mishaps>>

-----------------------------------------------------------------------------
(* send, for one row.  Nothing but send writes a row that exists. *)

Goto(j, step) == task' = [task EXCEPT ![j] = step]
Fault == faults < MaxFaults /\ faults' = faults + 1
Counted(f, j) == f' = [f EXCEPT ![j] = @ + 1]

\* send has read the row, and it is not SENT yet.
Unsent(j) == task[j] = "mail" /\ log[j].status # "SENT"

\* send ends with the row as it was: it is SENT already, or a read before the try or the
\* update of a row that is only logged fails.
EndEarly(j) ==
  /\ task[j] = "mail"
  /\ IF Unsent(j) THEN Fault ELSE UNCHANGED faults
  /\ Goto(j, "none")
  /\ UNCHANGED <<log, callVars, smtp, poll, batch, mailed, failures, mishaps>>

\* Without a mail server the row is marked SENT.
LogOnly(j) ==
  /\ Unsent(j) /\ ~smtp
  /\ log' = [log EXCEPT ![j].status = "SENT"]
  /\ Goto(j, "none")
  /\ UNCHANGED <<callVars, smtp, poll, batch, faults, mailed, failures, mishaps>>

\* The server takes the mail.
Accept(j) ==
  /\ Unsent(j) /\ smtp
  /\ Counted(mailed, j)
  /\ Goto(j, "sent")
  /\ UNCHANGED <<log, callVars, smtp, poll, batch, faults, failures, mishaps>>

Reject(j) ==
  /\ Unsent(j) /\ smtp
  /\ Counted(failures, j)
  /\ Goto(j, "failed")
  /\ UNCHANGED <<log, callVars, smtp, poll, batch, faults, mailed, mishaps>>

\* The server takes the mail and its answer is lost.
LoseAnswer(j) ==
  /\ Unsent(j) /\ smtp /\ Fault
  /\ Counted(mailed, j) /\ Counted(mishaps, j) /\ Counted(failures, j)
  /\ Goto(j, "failed")
  /\ UNCHANGED <<log, callVars, smtp, poll, batch>>

MarkSent(j) ==
  /\ task[j] = "sent"
  /\ log' = [log EXCEPT ![j].status = "SENT"]
  /\ Goto(j, "none")
  /\ UNCHANGED <<callVars, smtp, poll, batch, faults, mailed, failures, mishaps>>

\* The update is inside the try: when it fails, the mail counts as failed.
MarkSentFails(j) ==
  /\ task[j] = "sent" /\ Fault
  /\ Counted(mishaps, j) /\ Counted(failures, j)
  /\ Goto(j, "failed")
  /\ UNCHANGED <<log, callVars, smtp, poll, batch, mailed>>

GivenUpEarly(row) == row.count + 1 >= MaxRetries  \* mutant
GivenUp(row) == row.count >= MaxRetries

MarkFailed(j) ==
  /\ task[j] = "failed"
  /\ log' = [log EXCEPT ![j].status = IF GivenUp(log[j]) THEN "FAILED" ELSE @,
                        ![j].count = @ + 1, ![j].due = FALSE]
  /\ Goto(j, "none")
  /\ UNCHANGED <<callVars, smtp, poll, batch, faults, mailed, failures, mishaps>>

\* The rejected promise is settled and forgotten: the row stays as it was.
MarkFailedFails(j) ==
  /\ task[j] = "failed" /\ Fault
  /\ Goto(j, "none")
  /\ UNCHANGED <<log, callVars, smtp, poll, batch, mailed, failures, mishaps>>

\* A query that fails ends the poll in the same way.
Crash ==
  /\ poll # "idle" /\ Fault
  /\ poll' = "idle" /\ batch' = {} /\ task' = NoTasks
  /\ mishaps' = [j \in Jobs |-> IF task[j] = "sent" THEN mishaps[j] + 1 ELSE mishaps[j]]
  /\ UNCHANGED <<log, callVars, smtp, mailed, failures>>

\* nextRetryAt passes.
ComesDue(j) ==
  /\ j \in DOMAIN log /\ log[j].status = "PENDING" /\ log[j].count > 0 /\ ~log[j].due
  /\ log' = [log EXCEPT ![j].due = TRUE]
  /\ UNCHANGED <<callVars, sendVars>>

\* The cooldown of an alert passes.
CooldownEnds(j) ==
  /\ j \in DOMAIN log /\ log[j].fresh
  /\ log' = [log EXCEPT ![j].fresh = FALSE]
  /\ UNCHANGED <<callVars, sendVars>>

Sending(j) == LogOnly(j) \/ Accept(j) \/ Reject(j) \/ MarkSent(j) \/ MarkFailed(j)
Polling == QueryPending \/ QueryRetries \/ StartSlice \/ EndPoll

Next ==
  \/ \E c \in Calls : Look(c) \/ Create(c)
  \/ Polling \/ Crash
  \/ \E j \in Jobs : \/ Sending(j)
                     \/ EndEarly(j) \/ LoseAnswer(j) \/ MarkSentFails(j) \/ MarkFailedFails(j)
                     \/ ComesDue(j) \/ CooldownEnds(j)

Spec == Init /\ [][Next]_vars

\* setInterval polls again and pm2 restarts the process; nodemailer's timeouts end every
\* send; time passes.
FairSpec ==
  /\ Spec
  /\ WF_vars(Polling)
  /\ \A j \in Jobs : WF_vars(Sending(j)) /\ WF_vars(ComesDue(j))

-----------------------------------------------------------------------------
(* Properties. *)

\* Crashes, lost answers and failing updates included: a mail goes out once more for
\* every time it went unnoted and no oftener, a row is SENT if and only if its mail
\* went out, and it is given up only when MaxRetries + 1 attempts have failed.
MailsAreAccountedFor ==
  \A j \in DOMAIN log :
    /\ mailed[j] <= mishaps[j] + 1
    /\ log[j].status = "SENT" => mailed[j] = mishaps[j] + 1 \/ ~smtp
    /\ log[j].status = "FAILED" => failures[j] > MaxRetries

\* Two pending mails of one invoice, or two alerts of one tenant within the cooldown,
\* come only of calls that overlapped: the later one had looked before the earlier one
\* was there.
TwoOnlyIfOverlapped ==
  \A i, j \in DOMAIN log :
    i < j /\ log[i].mail = log[j].mail /\ Covers(log[i]) => seen[log[j].by] < i

\* Whatever the poller has in its batch, crashes with or forgets, a mail goes the way the
\* queue allows and an ended one is not touched again.
Asked == [j \in DOMAIN log |-> [mail |-> log[j].mail, by |-> log[j].by]]
Fate == [j \in DOMAIN log |-> log[j].status]
Queue == INSTANCE MailQueue
           WITH queue <- Asked, fate <- Fate,
                out <- mailed, unnoted <- mishaps, failed <- failures
RefinesMailQueue == Queue!Spec

IsInvoice(j) == j \in DOMAIN log /\ log[j].mail.kind = "invoice"
Ended(j) == j \in DOMAIN log /\ log[j].status \in {"SENT", "FAILED"}

\* Every invoice mail is sent or given up at last; a crash in the middle of a batch or a
\* failed query or update strands none.
EveryInvoiceMailEnds == \A j \in Jobs : IsInvoice(j) ~> Ended(j)
=============================================================================
