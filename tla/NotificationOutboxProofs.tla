---------------------- MODULE NotificationOutboxProofs ----------------------
(***************************************************************************)
(* Theorems about NotificationOutbox, for any calls, mails, batch sizes,   *)
(* numbers of retries and faults.                                          *)
(*                                                                         *)
(* TwoOnlyIfOverlapped needs that alerts stay out of the poller's hands    *)
(* and that a call that is about to insert has seen nothing in its way.    *)
(* MailsAreAccountedFor needs to know, for every row, how far send is with *)
(* it, and that no row is handed to send twice.  The refinement of         *)
(* MailQueue rests on the same account.                                    *)
(***************************************************************************)
EXTENDS NotificationOutbox, FiniteSetTheorems, TLAPS

\* What Next lets send do with one row, and the poller with its batch.
SendStep(j) ==
  Sending(j) \/ EndEarly(j) \/ LoseAnswer(j) \/ MarkSentFails(j) \/ MarkFailedFails(j)

(***************************************************************************)
(* The types, without the bounds on sizes.                                 *)
(***************************************************************************)

Types ==
  /\ log \in Seq(Rows)
  /\ pc \in [Calls -> {"idle", "create", "done"}]
  /\ mail \in [Calls -> MailType]
  /\ seen \in [Calls -> Nat]
  /\ poll \in {"idle", "retries", "slices"}
  /\ batch \in SUBSET Nat
  /\ task \in [Jobs -> {"none", "mail", "sent", "failed"}]
  /\ mailed \in [Jobs -> Nat] /\ failures \in [Jobs -> Nat] /\ mishaps \in [Jobs -> Nat]

\* An alert has no count, and its status is nobody's business.
AlertsRest ==
  \A j \in DOMAIN log :
    log[j].mail.kind = "alert" => log[j].count = NoCount /\ log[j].status = "PENDING"

\* The poller holds pending rows with a count; it has started none of its batch, and
\* while it still queries, none at all.
PollerHolds ==
  /\ \A j \in batch : /\ j \in DOMAIN log /\ log[j].status = "PENDING" /\ log[j].count >= 0
                      /\ j \in Jobs => task[j] = "none"
  /\ \A j \in Jobs : task[j] # "none" =>
       j \in DOMAIN log /\ log[j].status = "PENDING" /\ log[j].count >= 0
  /\ poll # "slices" => task = NoTasks
  /\ poll = "idle" => batch = {}

\* Every row is the work of a call of its own, which is done.
OneRowPerCall ==
  /\ \A j \in DOMAIN log : pc[log[j].by] = "done"
  /\ \A i, j \in DOMAIN log : log[i].by = log[j].by => i = j

PollInv == Types /\ OneRowPerCall /\ AlertsRest /\ PollerHolds

LEMMA FirstSubset ==
  ASSUME NEW n, NEW S
  PROVE  First(n, S) \subseteq S
BY DEF First

\* There are at most as many rows as calls, so that send's records cover them.
LEMMA RowsAreJobs ==
  ASSUME Types, OneRowPerCall
  PROVE  DOMAIN log \subseteq Jobs
<1> DEFINE n == Len(log)
           f == [j \in 1 .. n |-> log[j].by]
<1>1. n \in Nat /\ DOMAIN log = 1 .. n /\ \A j \in 1 .. n : log[j] \in Rows
  BY DEF Types
<1>2. \A j \in 1 .. n : log[j].by \in Calls
  BY <1>1 DEF Rows
<1>3. f \in Injection(1 .. n, Calls)
  BY <1>1, <1>2 DEF OneRowPerCall, Injection, IsInjective
<1>4. IsFiniteSet(1 .. n) /\ Cardinality(1 .. n) = n
  BY <1>1, FS_Interval
<1>5. IsFiniteSet(Calls)
  BY OutboxConstants
<1>6. Cardinality(1 .. n) <= Cardinality(Calls) /\ Cardinality(Calls) \in Nat
  BY <1>3, <1>5, FS_Injection, FS_CardinalityType
<1> QED
  BY <1>1, <1>4, <1>6 DEF Jobs

\* What is left of a row when one of its fields changes.
LEMMA RowChange ==
  ASSUME Types, NEW j \in DOMAIN log, NEW row \in Rows, log' = [log EXCEPT ![j] = row]
  PROVE  /\ log' \in Seq(Rows) /\ DOMAIN log' = DOMAIN log
         /\ log'[j] = row
         /\ \A i \in DOMAIN log : i # j => log'[i] = log[i]
BY DEF Types

LEMMA RowTypes ==
  ASSUME Types, NEW j \in DOMAIN log
  PROVE  /\ log[j] \in Rows /\ log[j].by \in Calls /\ log[j].mail \in MailType
         /\ log[j].count \in Int /\ log[j].fresh \in BOOLEAN /\ log[j].due \in BOOLEAN
         /\ log[j].status \in {"PENDING", "SENT", "FAILED"}
<1>1. log[j] \in Rows
  BY DEF Types
<1> QED
  BY <1>1 DEF Rows

LEMMA InitPoll == Init => PollInv
<1> SUFFICES ASSUME Init PROVE PollInv
  OBVIOUS
<1>1. Types
  BY DEF Init, Types, NoTasks, Nowhere
<1>2. OneRowPerCall /\ AlertsRest /\ PollerHolds
  BY DEF Init, OneRowPerCall, AlertsRest, PollerHolds, NoTasks
<1> QED
  BY <1>1, <1>2 DEF PollInv

LEMMA LookPoll ==
  ASSUME PollInv, NEW c \in Calls, Look(c)
  PROVE  PollInv'
<1>1. Types'
  BY DEF PollInv, Types, Look, sendVars
<1>2. OneRowPerCall'
  <2>1. \A j \in DOMAIN log : log[j].by # c
    BY DEF PollInv, OneRowPerCall, Look
  <2> QED
    BY <2>1, RowTypes DEF PollInv, OneRowPerCall, Look, Types
<1>3. AlertsRest' /\ PollerHolds'
  BY DEF PollInv, AlertsRest, PollerHolds, Look, sendVars
<1> QED
  BY <1>1, <1>2, <1>3 DEF PollInv

LEMMA CreatePoll ==
  ASSUME PollInv, NEW c \in Calls, Create(c)
  PROVE  /\ PollInv'
         /\ DOMAIN log' = DOMAIN log \cup {Len(log) + 1} /\ Len(log') = Len(log) + 1
         /\ \A j \in DOMAIN log : log'[j] = log[j]
         /\ log'[Len(log) + 1].mail = mail[c] /\ log'[Len(log) + 1].by = c
<1> DEFINE row == [mail |-> mail[c], by |-> c, status |-> "PENDING",
                   count |-> IF mail[c].kind = "alert" THEN NoCount ELSE 0,
                   due |-> FALSE, fresh |-> mail[c].kind = "alert"]
           n == Len(log)
<1>1. mail[c] \in MailType /\ (mail[c].kind = "alert") \in BOOLEAN
  BY DEF PollInv, Types
<1>2. row \in Rows
  BY <1>1 DEF Rows, NoCount
<1>3. /\ row.mail = mail[c] /\ row.by = c /\ row.status = "PENDING"
      /\ mail[c].kind = "alert" => row.count = NoCount
  OBVIOUS
<1>4. log' = Append(log, row)
  BY DEF Create
<1> HIDE DEF row
<1>5. /\ log' \in Seq(Rows) /\ DOMAIN log' = DOMAIN log \cup {n + 1} /\ log'[n + 1] = row
      /\ n + 1 \notin DOMAIN log /\ \A j \in DOMAIN log : log'[j] = log[j]
      /\ Len(log') = n + 1
  BY <1>2, <1>4 DEF PollInv, Types
<1>6. Types'
  BY <1>5 DEF PollInv, Types, Create, sendVars
<1>7. OneRowPerCall'
  <2>1. \A j \in DOMAIN log : log[j].by # c
    BY DEF PollInv, OneRowPerCall, Create
  <2>2. \A j \in DOMAIN log : pc'[log[j].by] = "done"
    BY <2>1, RowTypes DEF PollInv, OneRowPerCall, Create, Types
  <2>3. pc'[c] = "done"
    BY DEF PollInv, Types, Create
  <2> QED
    BY <1>3, <1>5, <2>1, <2>2, <2>3 DEF PollInv, OneRowPerCall
<1>8. AlertsRest'
  BY <1>3, <1>5 DEF PollInv, AlertsRest
<1>9. PollerHolds'
  BY <1>5 DEF PollInv, PollerHolds, Create, sendVars, NoTasks
<1> QED
  BY <1>3, <1>4, <1>5, <1>6, <1>7, <1>8, <1>9 DEF PollInv

\* The poller writes no row; it picks rows that are pending and have a count.
LEMMA PollerPoll ==
  ASSUME PollInv, Polling \/ Crash
  PROVE  PollInv' /\ UNCHANGED <<log, callVars, smtp>>
<1>1. UNCHANGED <<log, callVars, smtp>>
  BY DEF Polling, Crash, QueryPending, QueryRetries, StartSlice, EndPoll
<1>2. DOMAIN log \subseteq Nat /\ DOMAIN log \subseteq Jobs
  BY RowsAreJobs DEF PollInv, Types
<1>3. \A j \in DOMAIN log : log[j].count \in Int
  BY RowTypes DEF PollInv
<1>4. OneRowPerCall' /\ AlertsRest'
  BY <1>1 DEF PollInv, OneRowPerCall, AlertsRest, callVars
<1>5. CASE QueryPending
  <2> DEFINE new == {j \in DOMAIN log : Untried(j)}
  <2>1. batch' \subseteq new
    BY <1>5, FirstSubset DEF QueryPending
  <2>2. Types'
    BY <1>1, <1>2, <1>5, <2>1 DEF PollInv, Types, QueryPending, callVars
  <2>3. task = NoTasks /\ task' = NoTasks /\ poll' = "retries"
    BY <1>5 DEF PollInv, PollerHolds, QueryPending
  <2>4. PollerHolds'
    BY <1>1, <2>1, <2>3 DEF PollInv, PollerHolds, Untried, NoTasks
  <2> QED
    BY <1>1, <1>4, <2>2, <2>4 DEF PollInv
<1>6. CASE QueryRetries
  <2> DEFINE jobs == First(2 * BatchSize, {j \in DOMAIN log : Retried(j)})
             due == First(BatchSize, {j \in jobs : log[j].due})
  <2>1. due \subseteq {j \in DOMAIN log : Retried(j)}
    BY FirstSubset
  <2>2. batch' \subseteq batch \cup due
    BY <1>6, FirstSubset DEF QueryRetries
  <2> HIDE DEF due
  <2>3. Types'
    BY <1>1, <1>2, <1>6, <2>1, <2>2 DEF PollInv, Types, QueryRetries, callVars
  <2>4. task = NoTasks /\ task' = NoTasks /\ poll' = "slices"
    BY <1>6 DEF PollInv, PollerHolds, QueryRetries
  <2>5. PollerHolds'
    BY <1>1, <1>3, <2>1, <2>2, <2>4 DEF PollInv, PollerHolds, Retried, NoTasks
  <2> QED
    BY <1>1, <1>4, <2>3, <2>5 DEF PollInv
<1>7. CASE StartSlice
  <2> DEFINE slice == First(Concurrency, batch)
  <2>1. /\ slice \subseteq batch /\ batch' = batch \ slice
        /\ task' = [j \in Jobs |-> IF j \in slice THEN "mail" ELSE "none"]
    BY <1>7, FirstSubset DEF StartSlice
  <2>2. poll' = "slices" /\ UNCHANGED <<mailed, failures, mishaps>>
    BY <1>7 DEF StartSlice
  <2> HIDE DEF slice
  <2>3. Types'
    BY <1>1, <2>1, <2>2 DEF PollInv, Types, callVars
  <2>4. PollerHolds'
    BY <1>1, <2>1, <2>2 DEF PollInv, PollerHolds
  <2> QED
    BY <1>1, <1>4, <2>3, <2>4 DEF PollInv
<1>8. CASE EndPoll
  BY <1>1, <1>4, <1>8 DEF PollInv, Types, PollerHolds, EndPoll, callVars
<1>9. CASE Crash
  <2>1. Types'
    BY <1>1, <1>9 DEF PollInv, Types, Crash, callVars, NoTasks
  <2>2. PollerHolds'
    BY <1>9 DEF PollerHolds, Crash, NoTasks
  <2> QED
    BY <1>1, <1>4, <2>1, <2>2 DEF PollInv
<1> QED
  BY <1>1, <1>5, <1>6, <1>7, <1>8, <1>9 DEF Polling

\* send writes the row of its own task, which is no alert, and ends the task with it.
LEMMA SendPoll ==
  ASSUME PollInv, NEW j \in Jobs, SendStep(j)
  PROVE  /\ PollInv'
         /\ task[j] # "none" /\ j \in DOMAIN log /\ log[j].status = "PENDING"
         /\ log[j].mail.kind # "alert"
         /\ DOMAIN log' = DOMAIN log /\ UNCHANGED <<callVars, smtp, poll, batch>>
         /\ \A i \in DOMAIN log : /\ log'[i].mail = log[i].mail /\ log'[i].by = log[i].by
                                  /\ log'[i].fresh = log[i].fresh
                                  /\ i # j => log'[i] = log[i]
<1>1. task[j] # "none" /\ UNCHANGED <<callVars, smtp, poll, batch>>
  BY DEF SendStep, Sending, Unsent, EndEarly, LogOnly, Accept, Reject, LoseAnswer, MarkSent, MarkSentFails,
         MarkFailed, MarkFailedFails, Fault
<1>2. j \in DOMAIN log /\ log[j].status = "PENDING" /\ log[j].count >= 0
  BY <1>1 DEF PollInv, PollerHolds
<1>3. log[j].mail.kind # "alert" /\ log[j].count \in Int /\ log[j] \in Rows
  BY <1>2, RowTypes DEF PollInv, AlertsRest, NoCount
<1>4. j \notin batch
  BY <1>1 DEF PollInv, PollerHolds
<1>5. /\ task' \in [Jobs -> {"none", "mail", "sent", "failed"}]
      /\ \A i \in Jobs : i # j => task'[i] = task[i]
      /\ log' = log \/ task'[j] = "none"
  BY DEF PollInv, Types, SendStep, Sending, Unsent, EndEarly, LogOnly, Accept, Reject, LoseAnswer, MarkSent,
         MarkSentFails, MarkFailed, MarkFailedFails, Goto
<1>6. /\ mailed' \in [Jobs -> Nat] /\ failures' \in [Jobs -> Nat]
      /\ mishaps' \in [Jobs -> Nat]
  <2>1. /\ mailed \in [Jobs -> Nat] /\ failures \in [Jobs -> Nat]
        /\ mishaps \in [Jobs -> Nat]
    BY DEF PollInv, Types
  <2>2. /\ UNCHANGED mailed \/ Counted(mailed, j)
        /\ UNCHANGED failures \/ Counted(failures, j)
        /\ UNCHANGED mishaps \/ Counted(mishaps, j)
    BY DEF SendStep, Sending, Unsent, EndEarly, LogOnly, Accept, Reject, LoseAnswer, MarkSent,
           MarkSentFails, MarkFailed, MarkFailedFails
  <2>3. mailed' \in [Jobs -> Nat]
    BY <2>1, <2>2 DEF Counted
  <2>4. failures' \in [Jobs -> Nat]
    BY <2>1, <2>2 DEF Counted
  <2>5. mishaps' \in [Jobs -> Nat]
    BY <2>1, <2>2 DEF Counted
  <2> QED
    BY <2>3, <2>4, <2>5
<1>7. PICK row \in Rows :
         /\ log' = [log EXCEPT ![j] = row]
         /\ row.mail = log[j].mail /\ row.by = log[j].by /\ row.fresh = log[j].fresh
  <2>1. CASE UNCHANGED log
    BY <2>1, <1>2, <1>3 DEF PollInv, Types
  <2>2. CASE LogOnly(j) \/ MarkSent(j)
    <3> DEFINE row == [log[j] EXCEPT !.status = "SENT"]
    <3>1. log' = [log EXCEPT ![j] = row]
      BY <2>2 DEF LogOnly, MarkSent
    <3>2. row \in Rows
      BY <1>3 DEF Rows
    <3> QED
      BY <1>3, <3>1, <3>2 DEF Rows
  <2>3. CASE MarkFailed(j)
    <3> DEFINE status == IF GivenUp(log[j]) THEN "FAILED" ELSE log[j].status
               row == [log[j] EXCEPT !.status = status, !.count = log[j].count + 1,
                                     !.due = FALSE]
    <3>1. log' = [log EXCEPT ![j] = row]
      BY <2>3 DEF MarkFailed
    <3>3. status \in {"PENDING", "SENT", "FAILED"}
      BY <1>2
    <3>4. log[j].count + 1 \in Int
      BY <1>3
    <3> HIDE DEF status
    <3>2. row \in Rows
      BY <1>3, <3>3, <3>4 DEF Rows
    <3> QED
      BY <1>3, <3>1, <3>2 DEF Rows
  <2> QED
    BY <2>1, <2>2, <2>3 DEF SendStep, Sending, EndEarly, Accept, Reject, LoseAnswer, MarkSentFails,
                            MarkFailedFails
<1>8. /\ log' \in Seq(Rows) /\ DOMAIN log' = DOMAIN log /\ log'[j] = row
      /\ \A i \in DOMAIN log : i # j => log'[i] = log[i]
  BY <1>2, <1>7, RowChange DEF PollInv
<1>9. Types'
  BY <1>1, <1>5, <1>6, <1>8 DEF PollInv, Types, callVars
<1>10. OneRowPerCall'
  BY <1>1, <1>2, <1>7, <1>8 DEF PollInv, OneRowPerCall, callVars
<1>11. AlertsRest'
  BY <1>3, <1>7, <1>8 DEF PollInv, AlertsRest
<1>12. PollerHolds'
  <2>1. poll' # "slices" => FALSE
    BY <1>1 DEF PollInv, PollerHolds, NoTasks
  <2>2. poll' # "idle"
    BY <2>1
  <2>3. \A i \in batch' : /\ i \in DOMAIN log' /\ log'[i].status = "PENDING"
                          /\ log'[i].count >= 0 /\ (i \in Jobs => task'[i] = "none")
    BY <1>1, <1>4, <1>5, <1>8 DEF PollInv, PollerHolds
  <2>4. \A i \in Jobs : task'[i] # "none" =>
           i \in DOMAIN log' /\ log'[i].status = "PENDING" /\ log'[i].count >= 0
    BY <1>2, <1>5, <1>8 DEF PollInv, PollerHolds
  <2> QED
    BY <2>1, <2>2, <2>3, <2>4 DEF PollerHolds
<1> QED
  BY <1>1, <1>2, <1>3, <1>7, <1>8, <1>9, <1>10, <1>11, <1>12 DEF PollInv

\* Time passes for one row.
LEMMA TimePoll ==
  ASSUME PollInv, NEW j \in Jobs, ComesDue(j) \/ CooldownEnds(j)
  PROVE  /\ PollInv'
         /\ DOMAIN log' = DOMAIN log /\ UNCHANGED <<callVars, sendVars>>
         /\ \A i \in DOMAIN log :
              /\ log'[i].mail = log[i].mail /\ log'[i].by = log[i].by
              /\ log'[i].status = log[i].status /\ log'[i].count = log[i].count
              /\ log'[i].fresh => log[i].fresh
<1>1. j \in DOMAIN log /\ UNCHANGED <<callVars, sendVars>>
  BY DEF ComesDue, CooldownEnds
<1>2. log[j] \in Rows
  BY <1>1, RowTypes DEF PollInv
<1>3. PICK row \in Rows :
         /\ log' = [log EXCEPT ![j] = row]
         /\ row.mail = log[j].mail /\ row.by = log[j].by
         /\ row.status = log[j].status /\ row.count = log[j].count
         /\ row.fresh => log[j].fresh
  <2>1. CASE ComesDue(j)
    <3> DEFINE row == [log[j] EXCEPT !.due = TRUE]
    <3>1. row \in Rows /\ log' = [log EXCEPT ![j] = row]
      BY <1>2, <2>1 DEF Rows, ComesDue
    <3> QED
      BY <1>2, <3>1 DEF Rows
  <2>2. CASE CooldownEnds(j)
    <3> DEFINE row == [log[j] EXCEPT !.fresh = FALSE]
    <3>1. row \in Rows /\ log' = [log EXCEPT ![j] = row]
      BY <1>2, <2>2 DEF Rows, CooldownEnds
    <3> QED
      BY <1>2, <3>1 DEF Rows
  <2> QED
    BY <2>1, <2>2
<1>4. /\ log' \in Seq(Rows) /\ DOMAIN log' = DOMAIN log /\ log'[j] = row
      /\ \A i \in DOMAIN log : i # j => log'[i] = log[i]
  BY <1>1, <1>3, RowChange DEF PollInv
<1>5. Types'
  BY <1>1, <1>4 DEF PollInv, Types, callVars, sendVars
<1>6. OneRowPerCall'
  BY <1>1, <1>3, <1>4 DEF PollInv, OneRowPerCall, callVars
<1>7. AlertsRest'
  BY <1>3, <1>4 DEF PollInv, AlertsRest
<1>8. PollerHolds'
  BY <1>1, <1>3, <1>4 DEF PollInv, PollerHolds, sendVars, NoTasks
<1> QED
  BY <1>1, <1>3, <1>4, <1>5, <1>6, <1>7, <1>8 DEF PollInv

(***************************************************************************)
(* Two of a kind come only of calls that overlapped.                       *)
(***************************************************************************)

\* What a call saw at its lookup is not in its way, then and ever after.
NothingInTheWay ==
  /\ \A c \in Calls : pc[c] = "create" =>
       /\ seen[c] <= Len(log)
       /\ \A i \in DOMAIN log : i <= seen[c] /\ log[i].mail = mail[c] => ~Covers(log[i])
  /\ TwoOnlyIfOverlapped

OverlapInv == PollInv /\ NothingInTheWay

\* A row that is not in the way never gets in it.
LEMMA CoversFades ==
  ASSUME PollInv, NEW i \in DOMAIN log, log'[i].mail = log[i].mail,
         log[i].mail.kind = "alert" => (log'[i].fresh => log[i].fresh),
         log[i].mail.kind # "alert" => (log'[i].status = "PENDING" => log[i].status = "PENDING"),
         Covers(log'[i])
  PROVE  Covers(log[i])
BY DEF PollInv, AlertsRest, Covers

LEMMA InitOverlap == Init => OverlapInv
<1> SUFFICES ASSUME Init PROVE OverlapInv
  OBVIOUS
<1> QED
  BY InitPoll DEF OverlapInv, NothingInTheWay, TwoOnlyIfOverlapped, Init

LEMMA StepOverlap ==
  ASSUME OverlapInv, [Next]_vars
  PROVE  OverlapInv'
<1> USE DEF OverlapInv
<1>1. ASSUME NEW c \in Calls, Look(c) PROVE OverlapInv'
  <2>1. PollInv'
    BY <1>1, LookPoll
  <2>2. UNCHANGED <<log, mail>> /\ Len(log) \in Nat
    BY <1>1 DEF Look, PollInv, Types
  <2>3. \A d \in Calls : d # c => pc'[d] = pc[d] /\ seen'[d] = seen[d]
    BY <1>1 DEF Look, PollInv, Types
  <2>4. pc'[c] = "create" => /\ seen'[c] = Len(log)
                             /\ \A i \in DOMAIN log : log[i].mail = mail[c] => ~Covers(log[i])
    BY <1>1 DEF Look, PollInv, Types
  <2>5. TwoOnlyIfOverlapped'
    <3>1. \A j \in DOMAIN log : log[j].by \in Calls /\ log[j].by # c
      BY <1>1, RowTypes DEF PollInv, OneRowPerCall, Look
    <3> QED
      BY <2>2, <2>3, <3>1 DEF NothingInTheWay, TwoOnlyIfOverlapped, Covers
  <2> QED
    BY <2>1, <2>2, <2>3, <2>4, <2>5 DEF NothingInTheWay, Covers
<1>2. ASSUME NEW c \in Calls, Create(c) PROVE OverlapInv'
  <2> DEFINE n == Len(log)
  <2>1. PollInv' /\ log'[n + 1].mail = mail[c] /\ log'[n + 1].by = c
    BY <1>2, CreatePoll
  <2>a. n \in Nat /\ DOMAIN log = 1 .. n
    BY DEF PollInv, Types
  <2>b. /\ DOMAIN log' = DOMAIN log \cup {n + 1} /\ Len(log') = n + 1
        /\ \A i \in DOMAIN log : log'[i] = log[i]
    BY <1>2, CreatePoll
  <2>2. /\ DOMAIN log' = DOMAIN log \cup {n + 1} /\ Len(log') = n + 1 /\ n \in Nat
        /\ DOMAIN log = 1 .. n /\ \A i \in DOMAIN log : log'[i] = log[i]
    BY <2>a, <2>b
  <2>3. /\ UNCHANGED <<mail, seen>>
        /\ \A d \in Calls : pc'[d] = "create" => d # c /\ pc[d] = "create"
    BY <1>2 DEF Create, PollInv, Types
  <2>4. \A d \in Calls : pc'[d] = "create" =>
          /\ seen'[d] <= Len(log')
          /\ \A i \in DOMAIN log' : i <= seen'[d] /\ log'[i].mail = mail'[d] => ~Covers(log'[i])
    <3> SUFFICES ASSUME NEW d \in Calls, pc'[d] = "create"
                 PROVE  /\ seen'[d] <= Len(log')
                        /\ \A i \in DOMAIN log' :
                             i <= seen'[d] /\ log'[i].mail = mail'[d] => ~Covers(log'[i])
      OBVIOUS
    <3>1. pc[d] = "create" /\ seen'[d] = seen[d] /\ seen[d] <= n /\ seen[d] \in Nat
      BY <2>3 DEF NothingInTheWay, PollInv, Types
    <3> QED
      BY <2>2, <2>3, <3>1 DEF NothingInTheWay
  <2>5. TwoOnlyIfOverlapped'
    <3> SUFFICES ASSUME NEW i \in DOMAIN log', NEW j \in DOMAIN log', i < j,
                        log'[i].mail = log'[j].mail, Covers(log'[i])
                 PROVE  seen'[log'[j].by] < i
      BY DEF TwoOnlyIfOverlapped
    <3>1. i \in DOMAIN log
      BY <2>2
    <3>2. CASE j \in DOMAIN log
      BY <2>2, <2>3, <3>1, <3>2 DEF NothingInTheWay, TwoOnlyIfOverlapped
    <3>3. CASE j = n + 1
      <4>1. pc[c] = "create" /\ seen'[c] = seen[c] /\ seen[c] \in Nat
        BY <1>2 DEF Create, PollInv, Types
      <4>2. Covers(log[i]) /\ log[i].mail = mail[c]
        BY <2>1, <2>2, <3>1, <3>3
      <4> QED
        BY <2>1, <2>2, <3>1, <3>3, <4>1, <4>2 DEF NothingInTheWay
    <3> QED
      BY <2>2, <3>2, <3>3
  <2> QED
    BY <2>1, <2>4, <2>5 DEF NothingInTheWay
<1>3. ASSUME Polling \/ Crash PROVE OverlapInv'
  BY <1>3, PollerPoll DEF NothingInTheWay, TwoOnlyIfOverlapped, Covers, callVars
<1>4. ASSUME PollInv', UNCHANGED callVars, DOMAIN log' = DOMAIN log,
             \A i \in DOMAIN log :
               /\ log'[i].mail = log[i].mail /\ log'[i].by = log[i].by
               /\ Covers(log'[i]) => Covers(log[i])
      PROVE OverlapInv'
  <2>1. Len(log') = Len(log)
    BY <1>4 DEF PollInv, Types
  <2> QED
    BY <1>4, <2>1 DEF NothingInTheWay, TwoOnlyIfOverlapped, callVars
<1>5. ASSUME NEW j \in Jobs, SendStep(j) PROVE OverlapInv'
  <2>1. /\ PollInv' /\ UNCHANGED callVars /\ DOMAIN log' = DOMAIN log
        /\ log[j].status = "PENDING" /\ j \in DOMAIN log
        /\ \A i \in DOMAIN log : /\ log'[i].mail = log[i].mail /\ log'[i].by = log[i].by
                                 /\ log'[i].fresh = log[i].fresh
                                 /\ i # j => log'[i] = log[i]
    BY <1>5, SendPoll
  <2>2. \A i \in DOMAIN log : Covers(log'[i]) => Covers(log[i])
    BY <2>1, CoversFades
  <2> QED
    BY <1>4, <2>1, <2>2
<1>6. ASSUME NEW j \in Jobs, ComesDue(j) \/ CooldownEnds(j) PROVE OverlapInv'
  <2>1. /\ PollInv' /\ UNCHANGED callVars /\ DOMAIN log' = DOMAIN log
        /\ \A i \in DOMAIN log : /\ log'[i].mail = log[i].mail /\ log'[i].by = log[i].by
                                 /\ log'[i].status = log[i].status
                                 /\ log'[i].fresh => log[i].fresh
    BY <1>6, TimePoll
  <2>2. \A i \in DOMAIN log : Covers(log'[i]) => Covers(log[i])
    BY <2>1, CoversFades
  <2> QED
    BY <1>4, <2>1, <2>2
<1>7. CASE UNCHANGED vars
  BY <1>7 DEF vars, callVars, sendVars, NothingInTheWay, TwoOnlyIfOverlapped, Covers,
              PollInv, Types, OneRowPerCall, AlertsRest, PollerHolds
<1> QED
  BY <1>1, <1>2, <1>3, <1>5, <1>6, <1>7 DEF Next, SendStep

\* Two pending mails of one invoice, or two alerts of one tenant within the cooldown,
\* come only of enqueue or handleThresholdCheck calls that overlapped.
THEOREM OverlapSafety == Spec => []TwoOnlyIfOverlapped
<1>1. OverlapInv => TwoOnlyIfOverlapped
  BY DEF OverlapInv, NothingInTheWay
<1>2. OverlapInv /\ [Next]_vars => OverlapInv'
  BY StepOverlap
<1> QED
  BY InitOverlap, <1>1, <1>2, PTL DEF Spec

(***************************************************************************)
(* Mails are accounted for.                                                *)
(***************************************************************************)

\* What the server has taken and what has failed, by how far send is with the row.
Account(j) ==
  /\ j \notin DOMAIN log => mailed[j] = 0 /\ mishaps[j] = 0 /\ failures[j] = 0
  /\ j \in DOMAIN log =>
       /\ task[j] = "sent" => smtp /\ mailed[j] = mishaps[j] + 1
       /\ task[j] # "sent" /\ ~(smtp /\ log[j].status = "SENT") => mailed[j] = mishaps[j]
       /\ smtp /\ log[j].status = "SENT" => mailed[j] = mishaps[j] + 1
       /\ log[j].count <= failures[j]
       /\ task[j] = "failed" => log[j].count < failures[j]
       /\ log[j].status = "FAILED" => failures[j] > MaxRetries

AccountInv == PollInv /\ \A j \in Jobs : Account(j)

LEMMA InitAccount == Init => AccountInv
<1> SUFFICES ASSUME Init PROVE AccountInv
  OBVIOUS
<1> QED
  BY InitPoll DEF AccountInv, Account, Init, Nowhere

LEMMA SendAccount ==
  ASSUME AccountInv, NEW j \in Jobs, SendStep(j)
  PROVE  AccountInv'
<1> USE DEF AccountInv
<1>1. /\ PollInv' /\ task[j] # "none" /\ j \in DOMAIN log /\ log[j].status = "PENDING"
      /\ DOMAIN log' = DOMAIN log /\ UNCHANGED smtp
      /\ \A i \in DOMAIN log : i # j => log'[i] = log[i]
  BY SendPoll
<1>2. /\ mailed[j] \in Nat /\ mishaps[j] \in Nat /\ failures[j] \in Nat
      /\ log[j].count \in Int /\ log[j] \in Rows /\ DOMAIN task = Jobs
  BY <1>1, RowTypes DEF PollInv, Types
<1>3. \A i \in Jobs : i # j => /\ task'[i] = task[i] /\ mailed'[i] = mailed[i]
                               /\ mishaps'[i] = mishaps[i] /\ failures'[i] = failures[i]
  <2>1. /\ UNCHANGED mailed \/ Counted(mailed, j)
        /\ UNCHANGED failures \/ Counted(failures, j)
        /\ UNCHANGED mishaps \/ Counted(mishaps, j)
        /\ \E step : Goto(j, step)
    BY DEF SendStep, Sending, Unsent, EndEarly, LogOnly, Accept, Reject, LoseAnswer, MarkSent,
           MarkSentFails, MarkFailed, MarkFailedFails
  <2> QED
    BY <2>1 DEF Counted, Goto, PollInv, Types
<1>4. \A i \in Jobs : i # j => Account(i)'
  BY <1>1, <1>3 DEF Account
<1>5. Account(j)
  OBVIOUS
<1>6. CASE LogOnly(j)
  <2>1. task'[j] = "none" /\ ~smtp /\ log'[j].status = "SENT" /\ log'[j].count = log[j].count
    BY <1>1, <1>2, <1>6 DEF LogOnly, Goto, Rows
  <2>2. UNCHANGED <<mailed, mishaps, failures>> /\ task[j] = "mail"
    BY <1>6 DEF LogOnly, Unsent
  <2> QED
    BY <1>1, <1>4, <1>5, <2>1, <2>2 DEF Account
<1>7. CASE Accept(j)
  BY <1>1, <1>2, <1>4, <1>5, <1>7 DEF Account, Unsent, Accept, Goto, Counted, PollInv, Types
<1>8. CASE Reject(j)
  BY <1>1, <1>2, <1>4, <1>5, <1>8 DEF Account, Unsent, Reject, Goto, Counted, PollInv, Types
<1>9. CASE LoseAnswer(j)
  BY <1>1, <1>2, <1>4, <1>5, <1>9 DEF Account, Unsent, LoseAnswer, Goto, Counted, PollInv, Types
<1>10. CASE MarkSent(j)
  <2>1. task'[j] = "none" /\ log'[j].status = "SENT" /\ log'[j].count = log[j].count
    BY <1>1, <1>2, <1>10 DEF MarkSent, Goto, Rows
  <2>2. UNCHANGED <<mailed, mishaps, failures>> /\ task[j] = "sent"
    BY <1>10 DEF MarkSent
  <2> QED
    BY <1>1, <1>4, <1>5, <2>1, <2>2 DEF Account
<1>11. CASE MarkSentFails(j)
  BY <1>1, <1>2, <1>4, <1>5, <1>11 DEF Account, MarkSentFails, Goto, Counted, PollInv, Types
<1>12. CASE MarkFailed(j)
  <2>1. /\ task'[j] = "none" /\ log'[j].count = log[j].count + 1
        /\ log'[j].status = IF GivenUp(log[j]) THEN "FAILED" ELSE log[j].status
    BY <1>1, <1>2, <1>12 DEF MarkFailed, Goto, Rows
  <2>2. UNCHANGED <<mailed, mishaps, failures>> /\ task[j] = "failed"
    BY <1>12 DEF MarkFailed
  <2> QED
    BY <1>1, <1>2, <1>4, <1>5, <2>1, <2>2, OutboxConstants DEF Account, GivenUp
<1>13. CASE MarkFailedFails(j)
  <2>1. task'[j] = "none" /\ UNCHANGED <<log, mailed, mishaps, failures>>
    BY <1>1, <1>13 DEF MarkFailedFails, Goto, PollInv, Types
  <2> QED
    BY <1>1, <1>2, <1>4, <1>5, <1>13, <2>1 DEF Account, MarkFailedFails
<1>14. CASE EndEarly(j)
  <2>1. task'[j] = "none" /\ UNCHANGED <<log, mailed, mishaps, failures>>
    BY <1>1, <1>14 DEF EndEarly, Goto, PollInv, Types
  <2> QED
    BY <1>1, <1>2, <1>4, <1>5, <1>14, <2>1 DEF Account, EndEarly
<1> QED
  BY <1>6, <1>7, <1>8, <1>9, <1>10, <1>11, <1>12, <1>13, <1>14 DEF SendStep, Sending

LEMMA StepAccount ==
  ASSUME AccountInv, [Next]_vars
  PROVE  AccountInv'
<1> USE DEF AccountInv
<1>1. ASSUME NEW c \in Calls, Look(c) PROVE AccountInv'
  BY <1>1, LookPoll DEF Account, Look, sendVars
<1>2. ASSUME NEW c \in Calls, Create(c) PROVE AccountInv'
  <2> DEFINE n == Len(log)
  <2>1. /\ PollInv' /\ DOMAIN log' = DOMAIN log \cup {n + 1}
        /\ \A i \in DOMAIN log : log'[i] = log[i]
    BY <1>2, CreatePoll
  <2>2. n + 1 \notin DOMAIN log
    BY DEF PollInv, Types
  <2>3. log'[n + 1].status = "PENDING" /\ log'[n + 1].count <= 0
    BY <1>2 DEF Create, PollInv, Types, NoCount
  <2>4. UNCHANGED sendVars /\ (n + 1 \in Jobs => task[n + 1] = "none")
    BY <1>2, <2>2 DEF Create, PollInv, PollerHolds
  <2> QED
    BY <2>1, <2>2, <2>3, <2>4 DEF Account, sendVars
<1>3. ASSUME Polling PROVE AccountInv'
  <2>1. PollInv' /\ UNCHANGED <<log, smtp, mailed, mishaps, failures>>
    BY <1>3, PollerPoll DEF Polling, QueryPending, QueryRetries, StartSlice, EndPoll
  <2>2. \A i \in Jobs : task'[i] = task[i] \/ (task[i] = "none" /\ task'[i] \in {"none", "mail"})
    BY <1>3 DEF Polling, QueryPending, QueryRetries, StartSlice, EndPoll, NoTasks
  <2> QED
    BY <2>1, <2>2 DEF Account
<1>4. ASSUME Crash PROVE AccountInv'
  <2>1. PollInv' /\ UNCHANGED <<log, smtp, mailed, failures>>
    BY <1>4, PollerPoll DEF Crash
  <2>2. \A i \in Jobs :
          /\ task'[i] = "none"
          /\ mishaps'[i] = IF task[i] = "sent" THEN mishaps[i] + 1 ELSE mishaps[i]
    BY <1>4 DEF Crash, NoTasks
  <2>3. \A i \in Jobs : task[i] # "none" => i \in DOMAIN log /\ log[i].status = "PENDING"
    BY DEF PollInv, PollerHolds
  <2> QED
    BY <2>1, <2>2, <2>3 DEF Account
<1>5. ASSUME NEW j \in Jobs, ComesDue(j) \/ CooldownEnds(j) PROVE AccountInv'
  <2>1. /\ PollInv' /\ DOMAIN log' = DOMAIN log /\ UNCHANGED sendVars
        /\ \A i \in DOMAIN log : log'[i].status = log[i].status /\ log'[i].count = log[i].count
    BY <1>5, TimePoll
  <2> QED
    BY <2>1 DEF Account, sendVars
<1>6. CASE UNCHANGED vars
  BY <1>6 DEF vars, callVars, sendVars, Account, PollInv, Types, OneRowPerCall, AlertsRest,
              PollerHolds
<1> QED
  BY <1>1, <1>2, <1>3, <1>4, <1>5, <1>6, SendAccount DEF Next, SendStep

\* InvoiceMailerService.send and its poller: a mail goes out once more for every time it
\* went unnoted and no oftener, SENT rows were sent, FAILED rows failed often enough.
THEOREM DeliverySafety == Spec => []MailsAreAccountedFor
<1>1. AccountInv => MailsAreAccountedFor
  <2> SUFFICES ASSUME AccountInv, NEW j \in DOMAIN log
               PROVE  /\ mailed[j] <= mishaps[j] + 1
                      /\ log[j].status = "SENT" => mailed[j] = mishaps[j] + 1 \/ ~smtp
                      /\ log[j].status = "FAILED" => failures[j] > MaxRetries
    BY DEF MailsAreAccountedFor
  <2>1. j \in Jobs
    BY RowsAreJobs DEF AccountInv, PollInv
  <2>2. Account(j) /\ mailed[j] \in Nat /\ mishaps[j] \in Nat
    BY <2>1 DEF AccountInv, PollInv, Types
  <2> QED
    BY <2>2 DEF Account
<1>2. AccountInv /\ [Next]_vars => AccountInv'
  BY StepAccount
<1> QED
  BY InitAccount, <1>1, <1>2, PTL DEF Spec

(***************************************************************************)
(* Type correctness: batches and slices keep their size, counts theirs.    *)
(***************************************************************************)

\* The n first are at most n: each has another number of rows ahead of it.
LEMMA FirstFew ==
  ASSUME Types, NEW S \in SUBSET DOMAIN log, NEW n \in Nat
  PROVE  IsFiniteSet(First(n, S)) /\ Cardinality(First(n, S)) <= n
<1> DEFINE T == First(n, S)
           before(j) == {i \in S : Ahead(i, j)}
           f == [j \in T |-> Cardinality(before(j))]
<1>1. DOMAIN log \subseteq Nat /\ \A j \in DOMAIN log : log[j].count \in Int
  BY RowTypes DEF Types
<1>2. IsFiniteSet(S)
  <2>1. DOMAIN log = 1 .. Len(log) /\ Len(log) \in Nat
    BY DEF Types
  <2>2. IsFiniteSet(1 .. Len(log))
    BY <2>1, FS_Interval
  <2> QED
    BY <2>1, <2>2, FS_Subset
<1>3. T \subseteq S /\ \A j \in T : Cardinality(before(j)) < n
  BY DEF First
<1>4. \A j : IsFiniteSet(before(j)) /\ Cardinality(before(j)) \in Nat
  <2> SUFFICES ASSUME NEW j
               PROVE  IsFiniteSet(before(j)) /\ Cardinality(before(j)) \in Nat
    OBVIOUS
  <2>1. before(j) \in SUBSET S
    OBVIOUS
  <2>2. IsFiniteSet(before(j))
    BY <1>2, <2>1, FS_Subset
  <2> QED
    BY <2>2, FS_CardinalityType
<1>5. ASSUME NEW i \in T, NEW j \in T, Ahead(i, j)
      PROVE  f[i] # f[j]
  <2>1. before(i) \subseteq before(j)
    BY <1>1, <1>3, <1>5 DEF Ahead
  <2>2. i \in before(j) /\ i \notin before(i)
    BY <1>1, <1>3, <1>5 DEF Ahead
  <2> HIDE DEF before
  <2>3. Cardinality(before(i)) # Cardinality(before(j))
    BY <1>4, <2>1, <2>2, FS_Subset
  <2> QED
    BY <2>3
<1>6. \A i, j \in T : i = j \/ Ahead(i, j) \/ Ahead(j, i)
  BY <1>1, <1>3 DEF Ahead
<1>7. f \in Injection(T, 0 .. n - 1)
  <2> HIDE DEF T, before
  <2>1. f \in [T -> 0 .. n - 1]
    BY <1>3, <1>4
  <2>2. \A i, j \in T : f[i] = f[j] => i = j
    BY <1>5, <1>6
  <2> QED
    BY <2>1, <2>2 DEF Injection, IsInjective
<1>8. IsFiniteSet(0 .. n - 1) /\ Cardinality(0 .. n - 1) = n
  BY FS_Interval
<1> HIDE DEF T, f
<1>9. IsFiniteSet(T) /\ Cardinality(T) <= n
  BY <1>7, <1>8, FS_Injection
<1> QED
  BY <1>9 DEF T

Busy == {j \in Jobs : task[j] # "none"}

\* A row that may still be retried has not used up its retries.
Sizes ==
  /\ \A j \in DOMAIN log : /\ log[j].count \in NoCount .. MaxRetries + 1
                           /\ log[j].status = "PENDING" => log[j].count <= MaxRetries
  /\ smtp \in BOOLEAN
  /\ Cardinality(batch) <= BatchSize /\ Cardinality(Busy) <= Concurrency
  /\ faults \in 0 .. MaxFaults

SizeInv == PollInv /\ Sizes

LEMMA FiniteWork ==
  ASSUME PollInv
  PROVE  IsFiniteSet(batch) /\ IsFiniteSet(Busy) /\ batch \subseteq DOMAIN log
<1>1. DOMAIN log \subseteq Jobs /\ batch \subseteq DOMAIN log
  BY RowsAreJobs DEF PollInv, PollerHolds
<1>2. IsFiniteSet(Calls)
  BY OutboxConstants
<1>3. Cardinality(Calls) \in Nat
  BY <1>2, FS_CardinalityType
<1>4. IsFiniteSet(Jobs)
  BY <1>3, FS_Interval DEF Jobs
<1>5. batch \in SUBSET Jobs /\ Busy \in SUBSET Jobs
  BY <1>1 DEF Busy
<1> QED
  BY <1>1, <1>4, <1>5, FS_Subset

LEMMA InitSizes == Init => SizeInv
<1> SUFFICES ASSUME Init PROVE SizeInv
  OBVIOUS
<1>1. Busy = {} /\ batch = {}
  BY DEF Init, Busy, NoTasks
<1>2. Cardinality({}) = 0
  BY FS_EmptySet
<1>3. Cardinality(batch) <= BatchSize /\ Cardinality(Busy) <= Concurrency
  BY <1>1, <1>2, OutboxConstants
<1> QED
  BY InitPoll, <1>3, OutboxConstants DEF SizeInv, Sizes, Init

LEMMA PollerSizes ==
  ASSUME SizeInv, Polling \/ Crash
  PROVE  SizeInv'
<1> USE DEF SizeInv
<1>1. PollInv' /\ UNCHANGED <<log, smtp>>
  BY PollerPoll
<1>2. BatchSize \in Nat /\ Concurrency \in Nat /\ 2 * BatchSize \in Nat /\ MaxFaults \in Nat
  BY OutboxConstants
<1>3. faults' \in 0 .. MaxFaults
  BY <1>2 DEF Sizes, Polling, Crash, Fault, QueryPending, QueryRetries, StartSlice, EndPoll
<1>4. Cardinality({}) = 0
  BY FS_EmptySet
<1>5. Types /\ DOMAIN log \subseteq Nat
  BY DEF PollInv, Types
<1>6. CASE QueryPending
  <2> DEFINE new == {j \in DOMAIN log : Untried(j)}
  <2>1. new \in SUBSET DOMAIN log
    OBVIOUS
  <2>2. batch' = First(BatchSize, new) /\ Busy' = Busy
    BY <1>6 DEF QueryPending, Busy
  <2>3. Cardinality(batch') <= BatchSize
    BY <1>2, <1>5, <2>1, <2>2, FirstFew
  <2> QED
    BY <1>1, <1>3, <2>2, <2>3 DEF Sizes
<1>7. CASE QueryRetries
  <2> DEFINE jobs == First(2 * BatchSize, {j \in DOMAIN log : Retried(j)})
             due == First(BatchSize, {j \in jobs : log[j].due})
  <2>1. batch \cup due \in SUBSET DOMAIN log
    BY FiniteWork, FirstSubset
  <2>2. batch' = First(BatchSize, batch \cup due) /\ Busy' = Busy
    BY <1>7 DEF QueryRetries, Busy
  <2> HIDE DEF due
  <2>3. Cardinality(batch') <= BatchSize
    BY <1>2, <1>5, <2>1, <2>2, FirstFew
  <2> QED
    BY <1>1, <1>3, <2>2, <2>3 DEF Sizes
<1>8. CASE StartSlice
  <2> DEFINE slice == First(Concurrency, batch)
  <2>1. batch \in SUBSET DOMAIN log /\ IsFiniteSet(batch)
    BY FiniteWork
  <2>2. IsFiniteSet(slice) /\ Cardinality(slice) <= Concurrency
    BY <1>2, <1>5, <2>1, FirstFew
  <2>3. Busy' \in SUBSET slice /\ batch' \in SUBSET batch
    BY <1>8 DEF StartSlice, Busy
  <2> HIDE DEF slice
  <2>4. /\ IsFiniteSet(Busy') /\ Cardinality(Busy') <= Cardinality(slice)
        /\ IsFiniteSet(batch') /\ Cardinality(batch') <= Cardinality(batch)
    BY <2>1, <2>2, <2>3, FS_Subset
  <2>5. /\ Cardinality(Busy') \in Nat /\ Cardinality(batch') \in Nat
        /\ Cardinality(slice) \in Nat /\ Cardinality(batch) \in Nat
    BY <2>1, <2>2, <2>4, FS_CardinalityType
  <2>6. Cardinality(Busy') <= Concurrency /\ Cardinality(batch') <= BatchSize
    BY <1>2, <2>2, <2>4, <2>5 DEF Sizes
  <2> QED
    BY <1>1, <1>3, <2>6 DEF Sizes
<1>9. CASE EndPoll
  BY <1>1, <1>3, <1>9 DEF Sizes, EndPoll, Busy
<1>10. CASE Crash
  <2>1. batch' = {} /\ Busy' = {}
    BY <1>10 DEF Crash, Busy, NoTasks
  <2> QED
    BY <1>1, <1>2, <1>3, <1>4, <2>1 DEF Sizes
<1> QED
  BY <1>6, <1>7, <1>8, <1>9, <1>10 DEF Polling

LEMMA SendSizes ==
  ASSUME SizeInv, NEW j \in Jobs, SendStep(j)
  PROVE  SizeInv'
<1> USE DEF SizeInv
<1>1. /\ PollInv' /\ task[j] # "none" /\ j \in DOMAIN log /\ log[j].status = "PENDING"
      /\ DOMAIN log' = DOMAIN log /\ UNCHANGED <<smtp, batch>>
      /\ \A i \in DOMAIN log : i # j => log'[i] = log[i]
  BY SendPoll
<1>2. log[j] \in Rows /\ log[j].count \in NoCount .. MaxRetries /\ MaxRetries \in Nat
      /\ MaxFaults \in Nat /\ Concurrency \in Nat
  BY <1>1, RowTypes, OutboxConstants DEF PollInv, Sizes, NoCount
<1>3. /\ log'[j].count \in NoCount .. MaxRetries + 1
      /\ log'[j].status = "PENDING" => log'[j].count <= MaxRetries
  <2>1. CASE UNCHANGED log
    BY <1>1, <2>1 DEF Sizes
  <2>2. CASE LogOnly(j) \/ MarkSent(j)
    <3>1. log'[j].status = "SENT" /\ log'[j].count = log[j].count
      BY <1>1, <1>2, <2>2 DEF LogOnly, MarkSent, Rows, PollInv, Types
    <3> QED
      BY <1>2, <3>1 DEF NoCount
  <2>3. CASE MarkFailed(j)
    <3>1. /\ log'[j].count = log[j].count + 1
          /\ log'[j].status = IF GivenUp(log[j]) THEN "FAILED" ELSE log[j].status
      BY <1>1, <1>2, <2>3 DEF MarkFailed, Rows, PollInv, Types
    <3> QED
      BY <1>2, <3>1 DEF NoCount, GivenUp
  <2> QED
    BY <2>1, <2>2, <2>3 DEF SendStep, Sending, EndEarly, Accept, Reject, LoseAnswer, MarkSentFails,
                            MarkFailedFails
<1>4. faults' \in 0 .. MaxFaults
  BY <1>2 DEF Sizes, SendStep, Sending, Unsent, EndEarly, LogOnly, Accept, Reject, LoseAnswer, MarkSent,
              MarkSentFails, MarkFailed, MarkFailedFails, Fault
<1>5. Cardinality(Busy') <= Concurrency
  <2>1. \E step : Goto(j, step)
    BY DEF SendStep, Sending, Unsent, EndEarly, LogOnly, Accept, Reject, LoseAnswer, MarkSent,
           MarkSentFails, MarkFailed, MarkFailedFails
  <2>2. Busy' \in SUBSET Busy
    BY <1>1, <2>1 DEF Busy, Goto, PollInv, Types
  <2>3. IsFiniteSet(Busy)
    BY FiniteWork
  <2>4. IsFiniteSet(Busy') /\ Cardinality(Busy') <= Cardinality(Busy)
    BY <2>2, <2>3, FS_Subset
  <2>5. Cardinality(Busy') \in Nat /\ Cardinality(Busy) \in Nat
    BY <2>3, <2>4, FS_CardinalityType
  <2> QED
    BY <1>2, <2>4, <2>5 DEF Sizes
<1> QED
  BY <1>1, <1>3, <1>4, <1>5 DEF Sizes

LEMMA StepSizes ==
  ASSUME SizeInv, [Next]_vars
  PROVE  SizeInv'
<1> USE DEF SizeInv
<1>1. ASSUME NEW c \in Calls, Look(c) PROVE SizeInv'
  BY <1>1, LookPoll DEF Sizes, Busy, Look, sendVars
<1>2. ASSUME NEW c \in Calls, Create(c) PROVE SizeInv'
  <2>1. /\ PollInv' /\ DOMAIN log' = DOMAIN log \cup {Len(log) + 1}
        /\ \A i \in DOMAIN log : log'[i] = log[i]
    BY <1>2, CreatePoll
  <2>2. log'[Len(log) + 1].count \in {NoCount, 0}
    BY <1>2 DEF Create, PollInv, Types
  <2>3. log'[Len(log) + 1].count \in NoCount .. MaxRetries
    BY <2>2, OutboxConstants DEF NoCount
  <2>4. UNCHANGED sendVars
    BY <1>2 DEF Create
  <2> QED
    BY <2>1, <2>3, <2>4, OutboxConstants DEF Sizes, Busy, sendVars, NoCount
<1>3. ASSUME NEW j \in Jobs, ComesDue(j) \/ CooldownEnds(j) PROVE SizeInv'
  <2>1. /\ PollInv' /\ DOMAIN log' = DOMAIN log /\ UNCHANGED sendVars
        /\ \A i \in DOMAIN log : log'[i].status = log[i].status /\ log'[i].count = log[i].count
    BY <1>3, TimePoll
  <2> QED
    BY <2>1 DEF Sizes, Busy, sendVars
<1>4. CASE UNCHANGED vars
  BY <1>4 DEF vars, callVars, sendVars, Sizes, Busy, PollInv, Types, OneRowPerCall,
              AlertsRest, PollerHolds
<1> QED
  BY <1>1, <1>2, <1>3, <1>4, PollerSizes, SendSizes DEF Next, SendStep

\* The outbox is well typed: in particular the poller never takes more than BatchSize
\* rows nor sends more than Concurrency of them at once, and no row counts more than
\* MaxRetries + 1 failed tries (a try whose failure was not noted is not counted).
THEOREM TypeCorrect == Spec => []TypeOK
<1>1. SizeInv => TypeOK
  <2> SUFFICES ASSUME SizeInv PROVE TypeOK
    OBVIOUS
  <2>1. DOMAIN log \subseteq Jobs /\ batch \subseteq DOMAIN log
    BY RowsAreJobs, FiniteWork DEF SizeInv, PollInv
  <2>2. IsFiniteSet(Calls)
    BY OutboxConstants
  <2>3. Cardinality(Calls) \in Nat
    BY <2>2, FS_CardinalityType
  <2>4. Len(log) <= Cardinality(Calls)
    <3>1. DOMAIN log = 1 .. Len(log) /\ Len(log) \in Nat
      BY DEF SizeInv, PollInv, Types
    <3> QED
      BY <2>1, <2>3, <3>1 DEF Jobs
  <2> QED
    BY <2>1, <2>4 DEF SizeInv, PollInv, Types, Sizes, TypeOK, Busy
<1>2. SizeInv /\ [Next]_vars => SizeInv'
  BY StepSizes
<1> QED
  BY InitSizes, <1>1, <1>2, PTL DEF Spec

(***************************************************************************)
(* Refinement.                                                             *)
(***************************************************************************)

LEMMA InitRefines == Init => Queue!Init
BY DEF Init, Queue!Init, Asked, Fate, Nowhere

\* A row that is touched but does not change its status is not to be seen.
LEMMA RowsKept ==
  ASSUME DOMAIN log' = DOMAIN log,
         \A i \in DOMAIN log : /\ log'[i].mail = log[i].mail /\ log'[i].by = log[i].by
                               /\ log'[i].status = log[i].status
  PROVE  Asked' = Asked /\ Fate' = Fate
BY DEF Asked, Fate

\* A longer sequence with the same beginning is the shorter one and its last element.
LEMMA Extended ==
  ASSUME NEW S, NEW s \in Seq(S), NEW e \in S, NEW t,
         t = [j \in 1 .. Len(s) + 1 |-> t[j]], t[Len(s) + 1] = e,
         \A j \in 1 .. Len(s) : t[j] = s[j]
  PROVE  t = Append(s, e)
<1>1. /\ Append(s, e) \in Seq(S) /\ Len(Append(s, e)) = Len(s) + 1 /\ Len(s) \in Nat
      /\ Append(s, e)[Len(s) + 1] = e
      /\ \A j \in 1 .. Len(s) : Append(s, e)[j] = s[j]
  OBVIOUS
<1>2. Append(s, e) = [j \in 1 .. Len(s) + 1 |-> Append(s, e)[j]]
  <2>1. PICK longer : longer = Append(s, e)
    OBVIOUS
  <2>2. longer \in Seq(S) /\ Len(longer) = Len(s) + 1 /\ Len(longer) \in Nat
    BY <1>1, <2>1
  <2>3. longer \in [1 .. Len(longer) -> S]
    BY <2>2
  <2> QED
    BY <2>1, <2>2, <2>3
<1>3. ASSUME NEW j \in 1 .. Len(s) + 1 PROVE t[j] = Append(s, e)[j]
  <2>1. j = Len(s) + 1 \/ j \in 1 .. Len(s)
    BY <1>1
  <2> QED
    BY <1>1, <2>1
<1> QED
  BY <1>2, <1>3

LEMMA CreateRefines ==
  ASSUME PollInv, NEW c \in Calls, Create(c)
  PROVE  Queue!Ask(c)
<1> PICK n : n = Len(log)
  OBVIOUS
<1> PICK row : row = [mail |-> mail[c], by |-> c]
  OBVIOUS
<1>1. /\ n \in Nat /\ DOMAIN log = 1 .. n
      /\ DOMAIN log' = 1 .. n + 1
      /\ \A j \in DOMAIN log : log'[j] = log[j]
      /\ log'[n + 1].mail = mail[c] /\ log'[n + 1].by = c
      /\ UNCHANGED <<mail, sendVars>>
  BY CreatePoll DEF PollInv, Types, Create
<1>2. log'[n + 1].status = "PENDING"
  BY DEF Create, PollInv, Types
<1>3. \A j \in DOMAIN Asked : Asked[j].by # c
  BY DEF Asked, PollInv, OneRowPerCall, Create
<1>4. Asked' = Append(Asked, row)
  <2> DEFINE some == [mail : {log[j].mail : j \in 1 .. n} \cup {mail[c]},
                      by : {log[j].by : j \in 1 .. n} \cup {c}]
  <2>1. /\ Asked' = [j \in 1 .. n + 1 |-> [mail |-> log'[j].mail, by |-> log'[j].by]]
        /\ Asked = [j \in 1 .. n |-> [mail |-> log[j].mail, by |-> log[j].by]]
    BY <1>1 DEF Asked
  <2>2. Asked \in Seq(some) /\ Len(Asked) = n /\ row \in some
    BY <1>1, <2>1
  <2> HIDE DEF some
  <2>3. ASSUME NEW j \in 1 .. n PROVE Asked'[j] = Asked[j]
    <3>1. j \in 1 .. n + 1 /\ log'[j] = log[j]
      BY <1>1
    <3> QED
      BY <2>1, <3>1
  <2>4. Asked'[n + 1] = row /\ Asked' = [j \in 1 .. n + 1 |-> Asked'[j]]
    BY <1>1, <2>1
  <2> QED
    BY <2>2, <2>3, <2>4, Extended
<1>5. Fate' = Append(Fate, "PENDING")
  <2> DEFINE some == {log[j].status : j \in 1 .. n} \cup {"PENDING"}
  <2>1. /\ Fate' = [j \in 1 .. n + 1 |-> log'[j].status]
        /\ Fate = [j \in 1 .. n |-> log[j].status]
    BY <1>1 DEF Fate
  <2>2. Fate \in Seq(some) /\ Len(Fate) = n /\ "PENDING" \in some
    BY <1>1, <2>1
  <2> HIDE DEF some
  <2>3. ASSUME NEW j \in 1 .. n PROVE Fate'[j] = Fate[j]
    <3>1. j \in 1 .. n + 1 /\ log'[j] = log[j]
      BY <1>1
    <3> QED
      BY <2>1, <3>1
  <2>4. Fate'[n + 1] = "PENDING" /\ Fate' = [j \in 1 .. n + 1 |-> Fate'[j]]
    BY <1>1, <1>2, <2>1
  <2> QED
    BY <2>2, <2>3, <2>4, Extended
<1> QED
  BY <1>1, <1>3, <1>4, <1>5 DEF Queue!Ask, sendVars

\* A row that send is at work on waits in the queue, and how far send has come tells
\* whether a copy is on its way.
LEMMA WorkedOn ==
  ASSUME AccountInv, NEW j \in Jobs, task[j] # "none"
  PROVE  /\ Queue!Waiting(j)
         /\ task[j] = "sent" => Queue!OnItsWay(j)
         /\ task[j] # "sent" => Queue!Here(j)
<1>1. j \in DOMAIN log /\ log[j].status = "PENDING" /\ log[j].count >= 0
  BY DEF AccountInv, PollInv, PollerHolds
<1>2. log[j].mail.kind = "invoice"
  <2>1. log[j].mail.kind # "alert" /\ log[j].mail \in MailType
    BY <1>1, RowTypes DEF AccountInv, PollInv, AlertsRest, NoCount
  <2> QED
    BY <2>1 DEF MailType
<1>3. Queue!Waiting(j)
  BY <1>1, <1>2 DEF Queue!Waiting, Asked, Fate
<1>4. /\ task[j] = "sent" => mailed[j] = mishaps[j] + 1
      /\ task[j] # "sent" => mailed[j] = mishaps[j]
  BY <1>1 DEF AccountInv, Account
<1> QED
  BY <1>3, <1>4 DEF Queue!OnItsWay, Queue!Here

\* A mail that ends.
LEMMA EndRefines ==
  ASSUME AccountInv, NEW j \in DOMAIN log, NEW how, DOMAIN log' = DOMAIN log,
         log'[j].status = how, log'[j].mail = log[j].mail, log'[j].by = log[j].by,
         \A i \in DOMAIN log : i # j => log'[i] = log[i],
         UNCHANGED <<mail, smtp, mailed, mishaps, failures>>
  PROVE  Queue!End(j, how)
<1>1. Asked' = Asked
  BY DEF Asked
<1>2. Fate' = [Fate EXCEPT ![j] = how]
  BY DEF Fate
<1> QED
  BY <1>1, <1>2 DEF Queue!End

LEMMA SendRefines ==
  ASSUME AccountInv, NEW j \in Jobs, SendStep(j)
  PROVE  [Queue!Next]_Queue!vars
<1> USE DEF AccountInv
<1>1. /\ task[j] # "none" /\ j \in DOMAIN log /\ log[j].status = "PENDING"
      /\ DOMAIN log' = DOMAIN log /\ UNCHANGED <<mail, smtp>>
      /\ \A i \in DOMAIN log : /\ log'[i].mail = log[i].mail /\ log'[i].by = log[i].by
                               /\ i # j => log'[i] = log[i]
  BY SendPoll DEF callVars
<1>2. /\ Queue!Waiting(j)
      /\ task[j] = "sent" => Queue!OnItsWay(j)
      /\ task[j] # "sent" => Queue!Here(j)
  BY <1>1, WorkedOn
<1>3. log' = log => Asked' = Asked /\ Fate' = Fate
  BY DEF Asked, Fate
<1>4. log[j] \in Rows
  BY <1>1, RowTypes DEF PollInv
<1>5. CASE LogOnly(j)
  <2>1. ~smtp /\ log'[j].status = "SENT" /\ UNCHANGED <<mailed, mishaps, failures>>
    BY <1>1, <1>4, <1>5 DEF LogOnly, Rows
  <2>2. Queue!End(j, "SENT")
    BY <1>1, <2>1, EndRefines
  <2> QED
    BY <1>2, <2>1, <2>2 DEF Queue!Noted, Queue!Next
<1>6. CASE Accept(j)
  BY <1>1, <1>2, <1>3, <1>6 DEF Unsent, Accept, Counted, Queue!GoesOut, Queue!Next
<1>7. CASE Reject(j)
  BY <1>1, <1>2, <1>3, <1>7 DEF Unsent, Reject, Counted, Queue!Fails, Queue!Next
<1>8. CASE LoseAnswer(j)
  BY <1>1, <1>2, <1>3, <1>8 DEF Unsent, LoseAnswer, Counted, Queue!GoesOutUnnoted, Queue!Next
<1>9. CASE MarkSent(j)
  <2>1. task[j] = "sent" /\ log'[j].status = "SENT" /\ UNCHANGED <<mailed, mishaps, failures>>
    BY <1>1, <1>4, <1>9 DEF MarkSent, Rows
  <2>2. Queue!End(j, "SENT")
    BY <1>1, <2>1, EndRefines
  <2> QED
    BY <1>2, <2>1, <2>2 DEF Queue!Noted, Queue!Next
<1>10. CASE MarkSentFails(j)
  BY <1>1, <1>2, <1>3, <1>10 DEF MarkSentFails, Counted, Queue!NotNoted, Queue!Next
<1>11. CASE MarkFailed(j)
  <2>1. /\ task[j] = "failed" /\ UNCHANGED <<mailed, mishaps, failures>>
        /\ log'[j].status = IF GivenUp(log[j]) THEN "FAILED" ELSE log[j].status
    BY <1>1, <1>4, <1>11 DEF MarkFailed, Rows
  <2>2. CASE ~GivenUp(log[j])
    <3>1. Asked' = Asked /\ Fate' = Fate
      BY <1>1, <2>1, <2>2, RowsKept
    <3> QED
      BY <1>1, <2>1, <3>1 DEF Queue!vars
  <2>3. CASE GivenUp(log[j])
    <3>1. failures[j] > MaxRetries
      <4>1. log[j].count < failures[j] /\ log[j].count >= MaxRetries
        BY <1>1, <2>1, <2>3 DEF Account, GivenUp
      <4>2. failures[j] \in Nat /\ log[j].count \in Int /\ MaxRetries \in Nat
        BY <1>1, RowTypes, OutboxConstants DEF PollInv, Types
      <4> QED
        BY <4>1, <4>2
    <3>2. Queue!End(j, "FAILED")
      BY <1>1, <2>1, <2>3, EndRefines
    <3> QED
      BY <1>2, <2>1, <3>1, <3>2 DEF Queue!GivenUp, Queue!Next
  <2> QED
    BY <2>2, <2>3
<1>12. CASE MarkFailedFails(j)
  BY <1>1, <1>3, <1>12 DEF MarkFailedFails, Queue!vars
<1>13. CASE EndEarly(j)
  BY <1>1, <1>3, <1>13 DEF EndEarly, Queue!vars
<1> QED
  BY <1>5, <1>6, <1>7, <1>8, <1>9, <1>10, <1>11, <1>12, <1>13 DEF SendStep, Sending

\* A crash forgets the copies whose taking nobody has noted.
LEMMA CrashRefines ==
  ASSUME AccountInv, Crash
  PROVE  Queue!Forget
<1> DEFINE S == {j \in Jobs : task[j] = "sent"}
<1>1. /\ mishaps' = [j \in Jobs |-> IF task[j] = "sent" THEN mishaps[j] + 1 ELSE mishaps[j]]
      /\ UNCHANGED <<log, mail, smtp, mailed, failures>>
  BY DEF Crash, callVars
<1>2. \A j \in S : Queue!OnItsWay(j)
  BY WorkedOn
<1>3. S \in SUBSET {j \in Jobs : Queue!OnItsWay(j)}
  BY <1>2
<1>4. mishaps' = [j \in Jobs |-> IF j \in S THEN mishaps[j] + 1 ELSE mishaps[j]]
  BY <1>1
<1>5. Asked' = Asked /\ Fate' = Fate
  BY <1>1 DEF Asked, Fate
<1> HIDE DEF S
<1> QED
  BY <1>1, <1>3, <1>4, <1>5 DEF Queue!Forget

LEMMA StepRefines == AccountInv /\ [Next]_vars => [Queue!Next]_Queue!vars
<1> SUFFICES ASSUME AccountInv, [Next]_vars PROVE [Queue!Next]_Queue!vars
  OBVIOUS
<1>0. ASSUME UNCHANGED <<log, mail, smtp, mailed, mishaps, failures>>
      PROVE  [Queue!Next]_Queue!vars
  BY <1>0 DEF Queue!vars, Asked, Fate
<1>1. ASSUME NEW c \in Calls, Look(c) PROVE [Queue!Next]_Queue!vars
  BY <1>0, <1>1 DEF Look, sendVars
<1>2. ASSUME NEW c \in Calls, Create(c) PROVE [Queue!Next]_Queue!vars
  <2>1. Queue!Ask(c)
    BY <1>2, CreateRefines DEF AccountInv
  <2> QED
    BY <2>1 DEF Queue!Next
<1>3. CASE Polling
  BY <1>0, <1>3 DEF Polling, QueryPending, QueryRetries, StartSlice, EndPoll, callVars
<1>4. CASE Crash
  <2>1. Queue!Forget
    BY <1>4, CrashRefines
  <2> QED
    BY <2>1 DEF Queue!Next
<1>5. ASSUME NEW j \in Jobs, SendStep(j) PROVE [Queue!Next]_Queue!vars
  BY <1>5, SendRefines
<1>6. ASSUME NEW j \in Jobs, ComesDue(j) \/ CooldownEnds(j) PROVE [Queue!Next]_Queue!vars
  <2>1. Asked' = Asked /\ Fate' = Fate /\ UNCHANGED <<callVars, sendVars>>
    BY <1>6, TimePoll, RowsKept DEF AccountInv
  <2> QED
    BY <2>1 DEF Queue!vars, callVars, sendVars
<1>7. CASE UNCHANGED vars
  BY <1>0, <1>7 DEF vars, callVars, sendVars
<1> QED
  BY <1>1, <1>2, <1>3, <1>4, <1>5, <1>6, <1>7 DEF Next, SendStep

\* Poller, slices, retries, failed updates, lost answers and crashes do nothing MailQueue
\* does not allow.
THEOREM Refinement == Spec => RefinesMailQueue
BY InitAccount, StepAccount, InitRefines, StepRefines, PTL
   DEF Spec, RefinesMailQueue, Queue!Spec

(***************************************************************************)
(* Alerts.  The header of LedgerNotificationService says that the outbox   *)
(* (or a poller of its own, which there is none) sends them; but their     *)
(* metadata has nothing that the poller's queries find.                    *)
(***************************************************************************)

IsAlert(j) == j \in DOMAIN log /\ log[j].mail.kind = "alert"

NoAlertOut == \A j \in Jobs : IsAlert(j) => mailed[j] = 0

LEMMA StepNoAlertOut ==
  ASSUME AccountInv, AccountInv', NoAlertOut, [Next]_vars
  PROVE  NoAlertOut'
<1> USE DEF AccountInv, NoAlertOut, IsAlert
<1>1. ASSUME NEW c \in Calls, Create(c) PROVE NoAlertOut'
  <2>1. /\ DOMAIN log' = DOMAIN log \cup {Len(log) + 1}
        /\ \A i \in DOMAIN log : log'[i] = log[i]
    BY <1>1, CreatePoll
  <2>2. UNCHANGED mailed /\ \A i \in Jobs : i \notin DOMAIN log => mailed[i] = 0
    BY <1>1 DEF Create, sendVars, Account
  <2> QED
    BY <2>1, <2>2
<1>2. ASSUME NEW j \in Jobs, SendStep(j) PROVE NoAlertOut'
  <2>1. /\ log[j].mail.kind # "alert" /\ DOMAIN log' = DOMAIN log
        /\ \A i \in DOMAIN log : log'[i].mail = log[i].mail
    BY <1>2, SendPoll
  <2>2. UNCHANGED mailed \/ Counted(mailed, j)
    BY <1>2 DEF SendStep, Sending, Unsent, EndEarly, LogOnly, Accept, Reject, LoseAnswer, MarkSent,
                MarkSentFails, MarkFailed, MarkFailedFails
  <2>3. \A i \in Jobs : i # j => mailed'[i] = mailed[i]
    BY <2>2 DEF Counted, PollInv, Types
  <2> QED
    BY <2>1, <2>3
<1>3. ASSUME NEW j \in Jobs, ComesDue(j) \/ CooldownEnds(j) PROVE NoAlertOut'
  <2>1. /\ DOMAIN log' = DOMAIN log /\ UNCHANGED mailed
        /\ \A i \in DOMAIN log : log'[i].mail = log[i].mail
    BY <1>3, TimePoll DEF sendVars
  <2> QED
    BY <2>1
<1>4. CASE Polling \/ Crash \/ (\E c \in Calls : Look(c)) \/ UNCHANGED vars
  <2>1. UNCHANGED <<log, mailed>>
    BY <1>4 DEF Polling, QueryPending, QueryRetries, StartSlice, EndPoll, Crash, Look,
                vars, callVars, sendVars
  <2> QED
    BY <2>1
<1> QED
  BY <1>1, <1>2, <1>3, <1>4 DEF Next, SendStep

\* LedgerNotificationService.handleThresholdCheck: no low-balance alert is ever mailed nor
\* given up; each stays pending for good.
THEOREM AlertsAreNeverMailed ==
  Spec => [](\A j \in Jobs : IsAlert(j) => log[j].status = "PENDING" /\ mailed[j] = 0)
<1>1. Init => NoAlertOut
  BY DEF Init, NoAlertOut, Nowhere
<1>2. AccountInv /\ AccountInv' /\ NoAlertOut /\ [Next]_vars => NoAlertOut'
  BY StepNoAlertOut
<1>3. AccountInv /\ NoAlertOut =>
        \A j \in Jobs : IsAlert(j) => log[j].status = "PENDING" /\ mailed[j] = 0
  BY DEF NoAlertOut, IsAlert, AccountInv, PollInv, AlertsRest
<1>4. AccountInv /\ [Next]_vars => AccountInv'
  BY StepAccount
<1> QED
  BY <1>1, <1>2, <1>3, <1>4, InitAccount, PTL DEF Spec
=============================================================================
